----------------------------- MODULE MCCurpNode -----------------------------
(***************************************************************************)
(* CurpNode for TLC.                                                       *)
(***************************************************************************)
EXTENDS CurpNode, Workloads
=============================================================================
