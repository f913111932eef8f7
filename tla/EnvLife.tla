------------------------------ MODULE EnvLife ------------------------------
(***************************************************************************)
(* What the kernel promises about the life of an environment slot, with no *)
(* kernel in sight: an environment is born not running, runs on one CPU at *)
(* a time, may be condemned while it runs, and keeps its id until it dies. *)
(* There is no scheduler, lock, free list or parent here; EnvSched         *)
(* implements this module (see MCEnvSched).                                *)
(***************************************************************************)
EXTENDS Naturals

CONSTANTS Slots, Processors, Nobody

VARIABLES
    life,   \* the status of the environment in each slot
    name,   \* its id
    host    \* the CPU it runs on, or Nobody

vars == <<life, name, host>>

Init == /\ life = [e \in Slots |-> "FREE"]
        /\ name = [e \in Slots |-> 0]
        /\ host = [e \in Slots |-> Nobody]

\* A slot is taken by a new environment.
Birth(e) == /\ life[e] = "FREE" /\ life'[e] \in {"RUNNABLE", "NOT_RUNNABLE"}
            /\ name'[e] # 0
            /\ host'[e] = Nobody

\* A started or woken environment waits for a CPU.
Ready(e) == life[e] = "NOT_RUNNABLE" /\ life'[e] = "RUNNABLE" /\ host'[e] = Nobody

Dispatch(e) == /\ life[e] = "RUNNABLE" /\ life'[e] = "RUNNING"
               /\ host[e] = Nobody /\ host'[e] \in Processors

\* Preempted, or blocked in a system call of its own.
LeaveCpu(e) == /\ life[e] = "RUNNING" /\ life'[e] \in {"RUNNABLE", "NOT_RUNNABLE"}
               /\ host'[e] = Nobody

\* Destroyed from another CPU: the zombie stays where it runs.
Condemn(e) == life[e] = "RUNNING" /\ life'[e] = "DYING" /\ host'[e] = host[e]

Death(e) == life[e] # "FREE" /\ life'[e] = "FREE" /\ host'[e] = Nobody

Rest(e) == life'[e] = life[e] /\ host'[e] = host[e]

Step(e) == \/ Birth(e)
           \/ /\ name'[e] = name[e]
              /\ \/ Ready(e) \/ Dispatch(e) \/ LeaveCpu(e)
                 \/ Condemn(e) \/ Death(e) \/ Rest(e)

\* One kernel step may end one environment's turn and begin another's; a
\* CPU hosts at most one of them.
Next == /\ \A e \in Slots : Step(e)
        /\ \A e, f \in Slots : host'[e] # Nobody /\ host'[e] = host'[f] => e = f

Spec == Init /\ [][Next]_vars

=============================================================================
