------------------------------- MODULE MCPmap -------------------------------
(* Pmap for TLC: two addresses under one page directory entry, so that     *)
(* they share a page table, and one under another.                         *)
EXTENDS Pmap, TLC

CONSTANTS v1, v2, v3
MCPDX == [va \in VA |-> IF va = v3 THEN 2 ELSE 1]

Symmetric == Permutations(Page \ {KernPage}) \cup Permutations(CPUs)

=============================================================================
