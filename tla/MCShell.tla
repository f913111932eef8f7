------------------------------- MODULE MCShell -------------------------------
(***************************************************************************)
(* Two lines of up to three programs, over slots that are taken again.     *)
(***************************************************************************)
EXTENDS Shell
=============================================================================
