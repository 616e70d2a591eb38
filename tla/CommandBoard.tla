---------------------------- MODULE CommandBoard ----------------------------
(***************************************************************************)
(* curp/command/cmd_board.go: where the executing goroutine leaves results *)
(* and the RPC goroutines wait for them.  A board is a record of its four  *)
(* maps.  A notifier is a Go channel of capacity one: Nil when the map has *)
(* no channel for the id, else the sequence of its buffered elements.      *)
(*                                                                         *)
(* Each operator is the effect of one critical section of the board's      *)
(* mutex.  The two sends on a notifier happen inside a critical section    *)
(* and block when the channel is full: the sender then keeps the mutex.    *)
(***************************************************************************)
EXTENDS CurpCommand

Signal == "struct{}{}"

Board ==
    [erBuffer     : [ProposeId -> Content \cup {Nil}],
     asrBuffer    : SUBSET ProposeId,
     erNotifiers  : [ProposeId -> {Nil} \cup {<<>>} \cup {<<r>> : r \in Content}],
     asrNotifiers : [ProposeId -> {Nil, <<>>, <<Signal>>}]]

NewBoard ==
    [erBuffer     |-> [i \in ProposeId |-> Nil],
     asrBuffer    |-> {},
     erNotifiers  |-> [i \in ProposeId |-> Nil],
     asrNotifiers |-> [i \in ProposeId |-> Nil]]

\* A send on channel ch does not block; it does for ever if ch is nil.
CanSend(ch) == ch = <<>>

\* Mutant: the sender does not look whether the map has a channel.
SendsAlways(ch) == TRUE

\* NotifyEr and NotifyAsr send only if the map has a channel for the id.
Sends(ch) == ch # Nil

\* Mutant: a result is sent to a waiting handler and not kept.
InsertErNoBuffer(b, id, result) == b

\* InsertEr up to the send of NotifyEr.
InsertEr(b, id, result) == [b EXCEPT !.erBuffer[id] = result]

\* The send of NotifyEr, which runs only if the notifier exists.
NotifyEr(b, id) == [b EXCEPT !.erNotifiers[id] = <<b.erBuffer[id]>>]

\* Mutants: the slow path leaves its own result; it sends on erNotifiers.
InsertAsrResult(b, id) ==
    [b EXCEPT !.asrBuffer = @ \cup {id}, !.erBuffer[id] = Empty]
InsertAsrSendsEr(b, id) ==
    [b EXCEPT !.asrBuffer = @ \cup {id},
              !.erNotifiers[id] = IF @ = Nil THEN Nil ELSE <<Empty>>]

\* NotifyAsr up to its send.
InsertAsr(b, id) == [b EXCEPT !.asrBuffer = @ \cup {id}]

\* Mutant: the signal is lost.
NotifyAsrDropped(b, id) == b

\* The send of NotifyAsr.
NotifyAsr(b, id) == [b EXCEPT !.asrNotifiers[id] = <<Signal>>]

\* WaitForEr finds no result: it parks on the notifier, made if missing.
ParkForEr(b, id) ==
    [b EXCEPT !.erNotifiers[id] = IF @ = Nil THEN <<>> ELSE @]
DrainEr(b, id) == [b EXCEPT !.erNotifiers[id] = <<>>]

\* WaitForAsr answers at once only when both maps hold the id.
AsrReady(b, id) == id \in b.asrBuffer /\ b.erBuffer[id] # Nil
ParkForAsr(b, id) ==
    [b EXCEPT !.asrNotifiers[id] = IF @ = Nil THEN <<>> ELSE @]

DrainAsr(b, id) == [b EXCEPT !.asrNotifiers[id] = <<>>]

\* The two deferred deletes of WaitForAsr.
Forget(b, id) ==
    [b EXCEPT !.erBuffer[id] = Nil, !.asrBuffer = @ \ {id}]
=============================================================================
