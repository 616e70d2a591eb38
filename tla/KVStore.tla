------------------------------- MODULE KVStore -------------------------------
(***************************************************************************)
(* The interface kv.KVStore and its three implementations, MemStore (a map *)
(* under a mutex), BoltStore and BadgerStore (transactions of an embedded  *)
(* database), called by several goroutines.  The operations WithOldValue   *)
(* and Rollback give callers an undo: a caller keeps the old value that a  *)
(* write answers and hands it back to take the write back, the last write  *)
(* first, as the tests of src/kv do.                                       *)
(*                                                                         *)
(* What the three have in common is one action (Put, Delete, the two       *)
(* rollbacks); what they do differently has an action per implementation.  *)
(***************************************************************************)
EXTENDS Naturals, Sequences

CONSTANTS
  Key, Value,
  Empty,         \* the value "", which the rollbacks take for no value
  Absent,        \* not a value: what the store holds at a key it does not have
  Caller,
  Backend,       \* the implementations to consider
  MaxWrites,     \* bound on the committed writes
  MaxUndo        \* bound on the writes a caller can take back

ASSUME StoreAssumption ==
  /\ Empty \in Value /\ Absent \notin Value
  /\ Backend \subseteq {"mem", "bolt", "badger"}
  /\ MaxWrites \in Nat /\ MaxUndo \in Nat

VARIABLES
  backend,       \* which implementation this is; never changes
  kv,            \* the map, the bucket, the LSM tree
  call,          \* of each caller, the operation WithOldValue it is in
  undo,          \* of each caller, the writes it can still take back
  writes,        \* number of committed writes
  base,          \* history: the store when the caller began what it can take back
  foreign        \* history: the keys the caller's undo does not account for since then

vars == <<backend, kv, call, undo, writes, base, foreign>>

Idle == [pc |-> "idle"]

(* "saved": inside the call, after its transaction (Bolt) or before its    *)
(* commit (Badger); since: the keys written by others in the meantime.     *)
InCall == [pc : {"saved"}, op : {"put", "delete"}, key : Key, value : Value \cup {Absent},
           old : Value \cup {Absent}, since : SUBSET Key]

(* The answer, with what the call did: whether it wrote, and over what.    *)
Answered == [pc : {"answered"}, op : {"put", "delete"}, key : Key, old : Value,
             err : {"nil", "not found", "conflict"}, wrote : BOOLEAN,
             was : Value \cup {Absent}, raced : BOOLEAN]

TypeOK ==
  /\ backend \in Backend
  /\ kv \in [Key -> Value \cup {Absent}]
  /\ call \in [Caller -> {Idle} \cup InCall \cup Answered]
  /\ undo \in [Caller -> Seq([op : {"put", "delete"}, key : Key, old : Value])]
  /\ \A c \in Caller : Len(undo[c]) <= MaxUndo
  /\ writes \in 0..MaxWrites
  /\ base \in [Caller -> [Key -> Value \cup {Absent}]]
  /\ foreign \in [Caller -> SUBSET Key]

Init ==
  /\ backend \in Backend /\ kv = [k \in Key |-> Absent]
  /\ call = [c \in Caller |-> Idle] /\ undo = [c \in Caller |-> <<>>]
  /\ writes = 0 /\ base = [c \in Caller |-> kv]
  /\ foreign = [c \in Caller |-> {}]

-----------------------------------------------------------------------------
(* Mutant: the answer of a nil slice is not mapped to the empty string.    *)
StringUnchecked(v) == v

(* string(old) of a value that is not there: a nil slice or a missing map  *)
(* entry is the empty string.                                              *)
String(v) == IF v = Absent THEN Empty ELSE v

(* A write of key k: v, or Absent for a delete.  The callers other than c, *)
(* those inside a call in particular, have missed it.                      *)
Write(k, v) ==
  /\ writes < MaxWrites
  /\ writes' = writes + 1
  /\ kv' = [kv EXCEPT ![k] = v]

Missed(c, k) ==
  [d \in Caller |-> IF d # c /\ call[d].pc = "saved"
                    THEN [call[d] EXCEPT !.since = @ \cup {k}] ELSE call[d]]

Foreign(c, k) == [d \in Caller |-> IF d # c THEN foreign[d] \cup {k} ELSE foreign[d]]

(* A caller that has nothing to take back starts anew.                     *)
Begin(c, others) ==
  IF undo[c] = <<>>
  THEN /\ base' = [base EXCEPT ![c] = kv]
       /\ foreign' = [others EXCEPT ![c] = {}]
  ELSE /\ foreign' = others
       /\ UNCHANGED base

(* The plain writes, which answer no old value.  All three are one step:   *)
(* MemStore under its mutex, Bolt under its writer lock, and a transaction *)
(* of Badger that reads nothing never conflicts.                           *)
PlainWrite(c, k, v) ==
  /\ call[c] = Idle /\ Write(k, v)
  /\ call' = Missed(c, k)
  /\ foreign' = [d \in Caller |-> foreign[d] \cup {k}]
  /\ UNCHANGED <<backend, undo, base>>

Put(c, k, v) == PlainWrite(c, k, v)

Delete(c, k) == PlainWrite(c, k, Absent)

-----------------------------------------------------------------------------
(* PutWithOldValue and DeleteWithOldValue                                  *)

Answer(op, k, old, err, wrote, was, raced) ==
  [pc |-> "answered", op |-> op, key |-> k, old |-> old, err |-> err,
   wrote |-> wrote, was |-> was, raced |-> raced]

(* MemStore does everything under its mutex.                               *)
MemErr(k) == IF kv[k] = Absent THEN "not found" ELSE "nil"

MemWithOldValue(c, op, k, v) ==
  /\ backend = "mem" /\ call[c] = Idle /\ Len(undo[c]) < MaxUndo
  /\ Write(k, v)
  /\ call' = [Missed(c, k) EXCEPT
                ![c] = Answer(op, k, String(kv[k]), MemErr(k), TRUE, kv[k], FALSE)]
  /\ Begin(c, Foreign(c, k))
  /\ UNCHANGED <<backend, undo>>

MemPutWithOldValue(c, k, v) == MemWithOldValue(c, "put", k, v)

MemDeleteWithOldValue(c, k) == MemWithOldValue(c, "delete", k, Absent)

(* Bolt: db.Update is one step, but the slice it leaves in old_value       *)
(* points into the mapped file and is copied after the transaction.        *)
BoltUpdate(c, op, k, v) ==
  /\ backend = "bolt" /\ call[c] = Idle /\ Len(undo[c]) < MaxUndo
  /\ Write(k, v)
  /\ call' = [Missed(c, k) EXCEPT
                ![c] = [pc |-> "saved", op |-> op, key |-> k, value |-> v,
                        old |-> kv[k], since |-> {}]]
  /\ Begin(c, Foreign(c, k))
  /\ UNCHANGED <<backend, undo>>

BoltPutWithOldValue(c, k, v) == BoltUpdate(c, "put", k, v)

BoltDeleteWithOldValue(c, k) == BoltUpdate(c, "delete", k, Absent)

(* string(old_value): a later transaction may have reused the page, and    *)
(* then the bytes may be those of any value.  nil stays nil.               *)
BoltBytes(saved) ==
  IF saved.old # Absent /\ saved.since # {} THEN Value ELSE {String(saved.old)}

BoltAnswer(c) ==
  /\ backend = "bolt" /\ call[c].pc = "saved"
  /\ \E old \in BoltBytes(call[c]) :
       call' = [call EXCEPT ![c] = Answer(@.op, @.key, old, "nil", TRUE, @.old, @.since # {})]
  /\ UNCHANGED <<backend, kv, undo, writes, base, foreign>>

(* Badger: the transaction reads its snapshot in one step and commits in   *)
(* another; the commit fails if the key it read was written in between.    *)
BadgerRead(c, op, k, v) ==
  /\ backend = "badger" /\ call[c] = Idle /\ Len(undo[c]) < MaxUndo
  /\ call' = [call EXCEPT ![c] = [pc |-> "saved", op |-> op, key |-> k, value |-> v,
                                  old |-> kv[k], since |-> {}]]
  /\ Begin(c, foreign)
  /\ UNCHANGED <<backend, kv, undo, writes>>

BadgerPutWithOldValue(c, k, v) == BadgerRead(c, "put", k, v)

BadgerDeleteWithOldValue(c, k) == BadgerRead(c, "delete", k, Absent)

(* Txn.Commit's test of the keys the transaction has read.                 *)
Conflicts(saved) == saved.key \in saved.since

(* Mutant: the error of the commit is not looked at.                       *)
BadgerErrRead(saved, err) == IF saved.old = Absent THEN "not found" ELSE "nil"

(* The error of the read hides the error of the commit (PutWithOldValue),  *)
(* or makes Update discard the transaction (DeleteWithOldValue).           *)
BadgerErr(saved, err) == IF saved.old = Absent THEN "not found" ELSE err

BadgerCommit(c) ==
  LET t == call[c] IN
  /\ backend = "badger" /\ t.pc = "saved" /\ ~ Conflicts(t)
  /\ ~ (t.op = "delete" /\ t.old = Absent) /\ Write(t.key, t.value)
  /\ call' = [Missed(c, t.key) EXCEPT
                ![c] = Answer(t.op, t.key, String(t.old), BadgerErr(t, "nil"), TRUE, kv[t.key], FALSE)]
  /\ foreign' = Foreign(c, t.key)
  /\ UNCHANGED <<backend, undo, base>>

BadgerAbort(c) ==
  LET t == call[c] IN
  /\ backend = "badger" /\ t.pc = "saved"
  /\ Conflicts(t) \/ (t.op = "delete" /\ t.old = Absent)
  /\ call' = [call EXCEPT
                ![c] = Answer(t.op, t.key, String(t.old), BadgerErr(t, "conflict"), FALSE, kv[t.key], FALSE)]
  /\ UNCHANGED <<backend, kv, undo, writes, base, foreign>>

-----------------------------------------------------------------------------
(* The caller, as the tests of src/kv show it: it keeps the old value of a *)
(* write that was done.  The error of a put over nothing is no failure.    *)
Done(a) == a.err = "nil" \/ (a.op = "put" /\ a.err = "not found")

Keep(c) ==
  LET a == call[c] IN
  /\ a.pc = "answered"
  /\ call' = [call EXCEPT ![c] = Idle]
  /\ undo' = [undo EXCEPT ![c] = IF Done(a) THEN Append(@, [op |-> a.op, key |-> a.key, old |-> a.old])
                                            ELSE @]
  /\ foreign' = [foreign EXCEPT ![c] = IF a.raced THEN @ \cup {a.key} ELSE @]
  /\ UNCHANGED <<backend, kv, writes, base>>

(* Mutant: the empty old value is put back like any other.                 *)
RollbackPutAlways(old) == old

(* The empty old value stands for no value.                                *)
RollbackPutWithOldValue(old) == IF old = Empty THEN Absent ELSE old

RollbackDeleteWithOldValue(old) == old

Rollback(c) ==
  LET n == Len(undo[c])
      last == undo[c][n]
  IN /\ call[c] = Idle /\ undo[c] # <<>>
     /\ Write(last.key, IF last.op = "put" THEN RollbackPutWithOldValue(last.old)
                                              ELSE RollbackDeleteWithOldValue(last.old))
     /\ undo' = [undo EXCEPT ![c] = SubSeq(@, 1, n - 1)]
     /\ call' = Missed(c, last.key)
     /\ foreign' = Foreign(c, last.key)
     /\ UNCHANGED <<backend, base>>

Next ==
  \E c \in Caller :
    \/ \E k \in Key :
         \/ Delete(c, k)
         \/ MemDeleteWithOldValue(c, k)
         \/ BoltDeleteWithOldValue(c, k)
         \/ BadgerDeleteWithOldValue(c, k)
         \/ \E v \in Value :
              \/ Put(c, k, v)
              \/ MemPutWithOldValue(c, k, v)
              \/ BoltPutWithOldValue(c, k, v)
              \/ BadgerPutWithOldValue(c, k, v)
    \/ BoltAnswer(c)
    \/ BadgerCommit(c)
    \/ BadgerAbort(c)
    \/ Keep(c)
    \/ Rollback(c)

Spec == Init /\ [][Next]_vars

-----------------------------------------------------------------------------
(* Properties *)

(* An operation WithOldValue that answers no error has written, and the old *)
(* value it answers is the one its write replaced: nobody's write is        *)
(* overwritten without the overwriting caller being told its value (the     *)
(* mutex of MemStore, the conflict test of Badger).  "not found" means that *)
(* there was nothing to replace.  Exceptions, both in the code: Bolt's old  *)
(* value when another transaction ran before the slice was copied           *)
(* (blot_kv.go:89), and Badger's put over nothing, which answers "not       *)
(* found" whether its commit succeeded or not (badger_kv.go:79).            *)
OldValueReplaced ==
  \A c \in Caller : call[c].pc = "answered" =>
    LET a == call[c] IN
    /\ a.err = "nil" => a.wrote /\ (a.raced \/ a.old = String(a.was))
    /\ a.err = "not found" /\ a.wrote => a.was = Absent
    /\ a.err = "conflict" => ~ a.wrote

(* What a full rollback leaves at a key: the value it had, except that an  *)
(* empty value comes back as no value when a put over it is taken back     *)
(* (mem_kv.go:62), and that Bolt, which reports no error for a delete of   *)
(* nothing, then brings back an empty value (blot_kv.go:101).              *)
Restored(was, now) ==
  \/ now = was
  \/ was = Empty /\ now = Absent
  \/ backend = "bolt" /\ was = Absent /\ now = Empty

(* A caller that has taken back all its writes, the last one first, has    *)
(* restored every key that nobody else wrote in the meantime, whatever the *)
(* others did at other keys: the undo that the WithOldValue and Rollback   *)
(* operations are for.                                                     *)
UndoRestores ==
  \A c \in Caller : call[c] = Idle /\ undo[c] = <<>> =>
    \A k \in Key \ foreign[c] : Restored(base[c][k], kv[k])

=============================================================================
