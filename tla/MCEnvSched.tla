----------------------------- MODULE MCEnvSched -----------------------------
(* EnvSched for TLC, and its refinement of EnvLife.                        *)
EXTENDS EnvSched

\* The CPU an environment runs or traps on.
Host(e) ==
    IF env_status[e] \in OnCpu
    THEN CHOOSE c \in CPUs : cpu_env[c] = e
    ELSE NoCpu

Life == INSTANCE EnvLife WITH
    Slots <- Slot, Processors <- CPUs, Nobody <- NoCpu,
    life <- env_status, name <- env_id, host <- [e \in Slot |-> Host(e)]

\* Every kernel step is, for each environment, one step of its life or none:
\* it runs on one CPU at a time, leaves it only to be preempted, to block or
\* to die, and never changes its id on the way.
LivesAsPromised == Life!Spec

=============================================================================
