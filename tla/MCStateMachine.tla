--------------------------- MODULE MCStateMachine ---------------------------
(***************************************************************************)
(* StateMachine for TLC.                                                   *)
(***************************************************************************)
EXTENDS StateMachine, Workloads, TLC

ServerSymmetry == Permutations(Server)
=============================================================================
