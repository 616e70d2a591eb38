---------------------------- MODULE MCCurpServer ----------------------------
(***************************************************************************)
(* CurpServer for TLC: its constants are numbers.                          *)
(***************************************************************************)
EXTENDS CurpServer
=============================================================================
