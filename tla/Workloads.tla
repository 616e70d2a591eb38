----------------------------- MODULE Workloads -----------------------------
(***************************************************************************)
(* The sets of commands that the instances for TLC choose from.            *)
(***************************************************************************)
EXTENDS CurpCommand

CONSTANTS id1, id2, id3  \* ProposeIds

PutCmd(i, k, v) == [id |-> i, op |-> "PUT", key |-> k, value |-> v]
GetCmd(i, k)    == [id |-> i, op |-> "GET", key |-> k, value |-> Empty]
DelCmd(i, k)    == [id |-> i, op |-> "DELETE", key |-> k, value |-> Empty]

OnePut        == {PutCmd(id1, "x", "v1")}
TwoPuts       == {PutCmd(id1, "x", "v1"), PutCmd(id2, "x", "v2")}
PutAndDelete  == {PutCmd(id1, "x", "v1"), DelCmd(id2, "x")}
PutAndGet     == {PutCmd(id1, "x", "v1"), GetCmd(id2, "x")}
PutDeleteGet  == {PutCmd(id1, "x", "v1"), DelCmd(id2, "x"), GetCmd(id3, "x")}
\* A client that restarts counts from one again: the ids come back.
ReusedIds     == {GetCmd(id1, "x"), GetCmd(id1, "y"), GetCmd(id1, "z")}
ReusedSync    == {GetCmd(id1, "x")}

SecondPut     == {PutCmd(id2, "x", "v2")}
ThirdGet      == {GetCmd(id3, "x")}
NoCommand     == {}
=============================================================================
