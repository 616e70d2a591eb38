---------------------------- MODULE MCCurpClient ----------------------------
(***************************************************************************)
(* CurpClient for TLC.                                                     *)
(***************************************************************************)
EXTENDS CurpClient, Workloads, TLC

CONSTANT p1  \* a client process

\* All calls are made by one client.
SharedClient == [c \in Command |-> p1]

ServerSymmetry == Permutations(Server)
=============================================================================
