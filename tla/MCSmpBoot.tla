------------------------------ MODULE MCSmpBoot ------------------------------
(***************************************************************************)
(* The boot CPU and three others.                                            *)
(***************************************************************************)
EXTENDS SmpBoot
=============================================================================
