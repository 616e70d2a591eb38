--------------------------- MODULE KVStoreProofs ---------------------------
(***************************************************************************)
(* The old values and the undo of the stores, for any keys, values,        *)
(* callers and bounds, and each of the three implementations.              *)
(***************************************************************************)
EXTENDS KVStore, SequenceTheorems, TLAPS

(* What is known of a call while it is under way, and of its answer.       *)
SavedOK(c) ==
  /\ backend # "mem" /\ call[c].since \subseteq foreign[c]
  /\ backend = "badger" /\ ~ Conflicts(call[c]) => call[c].old = kv[call[c].key]

AnswerOK(c) ==
  LET a == call[c] IN
  /\ a.err = "nil" => a.wrote /\ (a.raced \/ a.old = String(a.was))
  /\ a.err = "not found" => a.old = Empty
  /\ a.err = "not found" /\ a.wrote => a.was = Absent
  /\ a.err = "conflict" => ~ a.wrote
  /\ Done(a) /\ ~ a.wrote => a.key \in foreign[c]
  /\ Done(a) /\ a.op = "delete" /\ a.was = Absent => backend = "bolt"

CallOK(c) ==
  /\ call[c] # Idle => Len(undo[c]) < MaxUndo
  /\ call[c].pc = "saved" => SavedOK(c)
  /\ call[c].pc = "answered" => AnswerOK(c)

(* What taking back the write e leaves at its key.                         *)
Back(e) == IF e.op = "put" THEN RollbackPutWithOldValue(e.old)
                           ELSE RollbackDeleteWithOldValue(e.old)

(* Caller c has written k in the call it is in and will keep the answer;   *)
(* Over is what was there before.                                          *)
Pending(c, k) ==
  \/ backend = "bolt" /\ call[c].pc = "saved" /\ call[c].key = k
  \/ call[c].pc = "answered" /\ call[c].key = k /\ call[c].wrote /\ Done(call[c])

Over(c) == IF call[c].pc = "saved" THEN call[c].old ELSE call[c].was

Untouched(c, k) == \A i \in 1..Len(undo[c]) : undo[c][i].key # k

FirstAt(c, k, j) == undo[c][j].key = k /\ \A i \in 1..j - 1 : undo[c][i].key # k

(* At a key that is not foreign, what taking back everything will leave is *)
(* decided by the first write there that can be taken back, then by the    *)
(* call under way, then by the store.                                      *)
UndoOK(c) ==
  \A k \in Key \ foreign[c] :
    /\ \A j \in 1..Len(undo[c]) :
         FirstAt(c, k, j) => Restored(base[c][k], Back(undo[c][j]))
    /\ Untouched(c, k) /\ Pending(c, k) => Restored(base[c][k], Over(c))
    /\ Untouched(c, k) /\ ~ Pending(c, k) => Restored(base[c][k], kv[k])

(* The inductive invariant.                                                *)
Inv == TypeOK /\ \A c \in Caller : CallOK(c) /\ UndoOK(c)

-----------------------------------------------------------------------------
(* Types.                                                                  *)

(* The state of a call tells which record it is.                           *)
LEMMA CallTypes ==
  ASSUME TypeOK, NEW c \in Caller
  PROVE  /\ call[c] \in {Idle} \cup InCall \cup Answered
         /\ call[c].pc \in {"idle", "saved", "answered"}
         /\ call[c].pc = "idle" <=> call[c] = Idle
         /\ call[c].pc = "saved" => call[c] \in InCall
         /\ call[c].pc = "answered" => call[c] \in Answered
<1>1. call[c] \in {Idle} \cup InCall \cup Answered
  BY DEF TypeOK
<1>2. CASE call[c] = Idle
  BY <1>1, <1>2 DEF Idle
<1>3. CASE call[c] \in InCall
  BY <1>1, <1>3 DEF InCall, Idle
<1>4. CASE call[c] \in Answered
  <2>1. call[c].pc = "answered" /\ Idle.pc = "idle"
    BY <1>4 DEF Answered, Idle
  <2> QED
    BY <1>1, <1>4, <2>1
<1> QED
  BY <1>1, <1>2, <1>3, <1>4

LEMMA InitInv == Init => Inv
<1> SUFFICES ASSUME Init PROVE Inv
  OBVIOUS
<1>1. TypeOK
  <2>1. kv \in [Key -> Value \cup {Absent}]
    BY DEF Init
  <2>2. undo \in [Caller -> Seq([op : {"put", "delete"}, key : Key, old : Value])]
    BY DEF Init
  <2>3. \A c \in Caller : Len(undo[c]) <= MaxUndo
    BY StoreAssumption DEF Init
  <2> QED
    BY <2>1, <2>2, <2>3, StoreAssumption DEF Init, TypeOK
<1>2. ASSUME NEW c \in Caller PROVE CallOK(c) /\ UndoOK(c)
  <2>1. call[c] = Idle /\ call[c].pc = "idle" /\ undo[c] = <<>> /\ base[c] = kv /\ Len(undo[c]) = 0
    BY DEF Init, Idle
  <2> QED
    BY <2>1 DEF CallOK, UndoOK, Pending, Restored
<1> QED
  BY <1>1, <1>2 DEF Inv

(* A caller that takes no part misses a write of k, ...                    *)
LEMMA OthersMiss ==
  ASSUME Inv, NEW d \in Caller, NEW k \in Key, backend' = backend,
         \A x \in Key \ {k} : kv'[x] = kv[x],
         undo'[d] = undo[d], base'[d] = base[d], foreign'[d] = foreign[d] \cup {k},
         call'[d] = IF call[d].pc = "saved" THEN [call[d] EXCEPT !.since = @ \cup {k}]
                                            ELSE call[d]
  PROVE  CallOK(d)' /\ UndoOK(d)'
<1>1. CallOK(d) /\ UndoOK(d)
  BY DEF Inv
<1>2. CASE call[d].pc = "saved"
  <2>1. call[d] \in InCall
    BY <1>2, CallTypes DEF Inv
  <2>2. /\ call'[d] \in InCall /\ call'[d].since = call[d].since \cup {k}
        /\ call'[d].old = call[d].old /\ call'[d].key = call[d].key
        /\ call'[d].pc = "saved" /\ call[d].key \in Key
    BY <1>2, <2>1 DEF InCall
  <2>3. CallOK(d)'
    BY <1>1, <1>2, <2>1, <2>2 DEF CallOK, SavedOK, Conflicts, InCall, Idle
  <2>4. UndoOK(d)'
    BY <1>1, <1>2, <2>2 DEF UndoOK, FirstAt, Untouched, Pending, Over, Restored
  <2> QED
    BY <2>3, <2>4
<1>3. CASE call[d].pc # "saved"
  <2>1. call'[d] = call[d]
    BY <1>3
  <2>2. CallOK(d)'
    BY <1>1, <1>3, <2>1 DEF CallOK, AnswerOK
  <2>3. UndoOK(d)'
    BY <1>1, <2>1 DEF UndoOK, FirstAt, Untouched, Pending, Over, Restored
  <2> QED
    BY <2>2, <2>3
<1> QED
  BY <1>2, <1>3

(* ... or nothing.                                                         *)
LEMMA OthersStay ==
  ASSUME Inv, NEW d \in Caller, backend' = backend, kv' = kv, call'[d] = call[d],
         undo'[d] = undo[d], base'[d] = base[d], foreign'[d] = foreign[d]
  PROVE  CallOK(d)' /\ UndoOK(d)'
<1>1. CallOK(d) /\ UndoOK(d)
  BY DEF Inv
<1>2. CallOK(d)'
  BY <1>1 DEF CallOK, SavedOK, AnswerOK, Conflicts
<1>3. UndoOK(d)'
  BY <1>1 DEF UndoOK, FirstAt, Untouched, Pending, Over, Restored
<1> QED
  BY <1>2, <1>3

-----------------------------------------------------------------------------
(* The callers.                                                            *)

(* After Begin nothing foreign is known to be left at the caller's keys,   *)
(* and where it cannot take anything back the store is what it was.        *)
LEMMA BeginOK ==
  ASSUME Inv, NEW c \in Caller, NEW others \in [Caller -> SUBSET Key],
         others[c] = foreign[c], call[c] = Idle, Begin(c, others)
  PROVE  /\ base' \in [Caller -> [Key -> Value \cup {Absent}]]
         /\ foreign' \in [Caller -> SUBSET Key]
         /\ \A d \in Caller \ {c} : base'[d] = base[d] /\ foreign'[d] = others[d]
         /\ \A k \in Key \ foreign'[c] :
              /\ \A j \in 1..Len(undo[c]) :
                   FirstAt(c, k, j) => Restored(base'[c][k], Back(undo[c][j]))
              /\ Untouched(c, k) => Restored(base'[c][k], kv[k])
<1>1. /\ base \in [Caller -> [Key -> Value \cup {Absent}]] /\ kv \in [Key -> Value \cup {Absent}]
      /\ UndoOK(c)
  BY DEF Inv, TypeOK
<1>2. CASE undo[c] = <<>>
  <2>1. base' = [base EXCEPT ![c] = kv] /\ foreign' = [others EXCEPT ![c] = {}]
    BY <1>2 DEF Begin
  <2>2. base'[c] = kv /\ Len(undo[c]) = 0
    BY <1>1, <1>2, <2>1
  <2> QED
    BY <1>1, <2>1, <2>2 DEF Restored
<1>3. CASE undo[c] # <<>>
  <2>1. base' = base /\ foreign' = others
    BY <1>3 DEF Begin
  <2>2. \A k \in Key : ~ Pending(c, k)
    BY DEF Pending, Idle
  <2> QED
    BY <1>1, <2>1, <2>2 DEF UndoOK
<1> QED
  BY <1>2, <1>3

(* What a write of k by c does to the store and to the other callers.      *)
LEMMA WriteOK ==
  ASSUME Inv, NEW c \in Caller, NEW k \in Key, NEW v \in Value \cup {Absent}, Write(k, v)
  PROVE  /\ writes' \in 0..MaxWrites /\ kv' \in [Key -> Value \cup {Absent}]
         /\ kv'[k] = v /\ \A x \in Key \ {k} : kv'[x] = kv[x]
         /\ Missed(c, k) \in [Caller -> {Idle} \cup InCall \cup Answered]
         /\ Missed(c, k)[c] = call[c]
         /\ \A d \in Caller \ {c} : Missed(c, k)[d] =
              IF call[d].pc = "saved" THEN [call[d] EXCEPT !.since = @ \cup {k}] ELSE call[d]
         /\ Foreign(c, k) \in [Caller -> SUBSET Key] /\ Foreign(c, k)[c] = foreign[c]
         /\ \A d \in Caller \ {c} : Foreign(c, k)[d] = foreign[d] \cup {k}
<1>1. TypeOK
  BY DEF Inv
<1>2. writes' \in 0..MaxWrites
  BY <1>1, StoreAssumption DEF Write, TypeOK
<1>3. /\ kv' \in [Key -> Value \cup {Absent}]
      /\ kv'[k] = v /\ \A x \in Key \ {k} : kv'[x] = kv[x]
  BY <1>1 DEF Write, TypeOK
<1>4. ASSUME NEW d \in Caller, call[d].pc = "saved"
      PROVE  [call[d] EXCEPT !.since = @ \cup {k}] \in InCall
  <2>1. call[d] \in InCall
    BY <1>1, <1>4, CallTypes
  <2> QED
    BY <2>1 DEF InCall
<1>5. Missed(c, k) \in [Caller -> {Idle} \cup InCall \cup Answered]
  BY <1>1, <1>4 DEF Missed, TypeOK
<1>6. Foreign(c, k) \in [Caller -> SUBSET Key]
  BY <1>1 DEF Foreign, TypeOK
<1> QED
  BY <1>2, <1>3, <1>5, <1>6 DEF Missed, Foreign

LEMMA PlainWriteInv ==
  ASSUME Inv, NEW c \in Caller, NEW k \in Key, NEW v \in Value \cup {Absent}, PlainWrite(c, k, v)
  PROVE  Inv'
<1>1. TypeOK'
  <2>1. foreign' \in [Caller -> SUBSET Key]
    BY DEF PlainWrite, Inv, TypeOK
  <2> QED
    BY <2>1, WriteOK DEF PlainWrite, Inv, TypeOK
<1>2. ASSUME NEW d \in Caller PROVE CallOK(d)' /\ UndoOK(d)'
  <2>1. call[c].pc # "saved"
    BY DEF PlainWrite, Idle
  <2>2. call'[d] = IF call[d].pc = "saved" THEN [call[d] EXCEPT !.since = @ \cup {k}] ELSE call[d]
    <3>1. call' = Missed(c, k)
      BY DEF PlainWrite
    <3> QED
      BY <2>1, <3>1 DEF Missed
  <2>3. foreign'[d] = foreign[d] \cup {k} /\ \A x \in Key \ {k} : kv'[x] = kv[x]
    BY WriteOK DEF PlainWrite
  <2> QED
    BY <2>2, <2>3, OthersMiss DEF PlainWrite
<1> QED
  BY <1>1, <1>2 DEF Inv

(* The types of String, and of the records that calls make.                *)
LEMMA StringType == \A v \in Value \cup {Absent} : String(v) \in Value
BY StoreAssumption DEF String

(* PutWithOldValue and DeleteWithOldValue.                                 *)
LEMMA MemInv ==
  ASSUME Inv, NEW c \in Caller, NEW op \in {"put", "delete"}, NEW k \in Key,
         NEW v \in Value \cup {Absent}, op = "delete" => v = Absent,
         MemWithOldValue(c, op, k, v)
  PROVE  Inv'
<1> DEFINE r == Answer(op, k, String(kv[k]), MemErr(k), TRUE, kv[k], FALSE)
<1>1. /\ TypeOK /\ backend = "mem" /\ call[c] = Idle /\ Len(undo[c]) < MaxUndo
      /\ Write(k, v) /\ Begin(c, Foreign(c, k)) /\ backend' = backend /\ undo' = undo
      /\ call' = [Missed(c, k) EXCEPT ![c] = r] /\ kv[k] \in Value \cup {Absent}
  BY DEF MemWithOldValue, Inv, TypeOK
<1>2. /\ r \in Answered /\ r.pc = "answered" /\ r.op = op /\ r.key = k /\ r.old = String(kv[k])
      /\ r.err = MemErr(k) /\ r.wrote /\ r.was = kv[k] /\ ~ r.raced
  BY <1>1, StringType DEF Answer, Answered, MemErr
<1> HIDE DEF r
<1>3. /\ call' \in [Caller -> {Idle} \cup InCall \cup Answered] /\ call'[c] = r
      /\ \A d \in Caller \ {c} : call'[d] = Missed(c, k)[d]
  BY <1>1, <1>2, WriteOK
<1>4. Foreign(c, k) \in [Caller -> SUBSET Key] /\ Foreign(c, k)[c] = foreign[c]
  BY <1>1, WriteOK
<1>5. TypeOK'
  BY <1>1, <1>3, <1>4, WriteOK, BeginOK DEF TypeOK
<1>6. ASSUME NEW d \in Caller \ {c} PROVE CallOK(d)' /\ UndoOK(d)'
  <2>1. base'[d] = base[d] /\ foreign'[d] = foreign[d] \cup {k}
    BY <1>1, <1>4, WriteOK, BeginOK
  <2>2. call'[d] = IF call[d].pc = "saved" THEN [call[d] EXCEPT !.since = @ \cup {k}] ELSE call[d]
    BY <1>3 DEF Missed
  <2> QED
    BY <1>1, <2>1, <2>2, WriteOK, OthersMiss
<1>7. CallOK(c)'
  BY <1>1, <1>2, <1>3 DEF CallOK, AnswerOK, Done, MemErr, String
<1>8. UndoOK(c)'
  <2> SUFFICES ASSUME NEW x \in Key \ foreign'[c]
               PROVE  /\ \A j \in 1..Len(undo[c]) :
                            FirstAt(c, x, j) => Restored(base'[c][x], Back(undo[c][j]))
                      /\ Untouched(c, x) /\ Pending(c, x)' => Restored(base'[c][x], Over(c)')
                      /\ Untouched(c, x) /\ ~ Pending(c, x)' => Restored(base'[c][x], kv'[x])
    BY <1>1 DEF UndoOK, FirstAt, Untouched, Restored
  <2>1. /\ \A j \in 1..Len(undo[c]) :
              FirstAt(c, x, j) => Restored(base'[c][x], Back(undo[c][j]))
        /\ Untouched(c, x) => Restored(base'[c][x], kv[x])
    BY <1>1, <1>4, BeginOK
  <2>2. Pending(c, x)' <=> x = k /\ Done(r)
    BY <1>1, <1>2, <1>3 DEF Pending
  <2>3. x = k /\ Done(r) => Over(c)' = kv[x]
    BY <1>2, <1>3 DEF Over
  <2>4. ~ Done(r) => kv'[k] = kv[k]
    <3>1. kv'[k] = v
      BY <1>1, WriteOK
    <3>2. ~ Done(r) => op = "delete" /\ kv[k] = Absent
      BY <1>2 DEF Done, MemErr
    <3> QED
      BY <3>1, <3>2
  <2>5. x # k => kv'[x] = kv[x]
    BY <1>1, WriteOK
  <2> QED
    BY <2>1, <2>2, <2>3, <2>4, <2>5
<1> QED
  BY <1>5, <1>6, <1>7, <1>8 DEF Inv

LEMMA BoltInv ==
  ASSUME Inv, NEW c \in Caller, NEW op \in {"put", "delete"}, NEW k \in Key,
         NEW v \in Value \cup {Absent}, BoltUpdate(c, op, k, v)
  PROVE  Inv'
<1> DEFINE r == [pc |-> "saved", op |-> op, key |-> k, value |-> v, old |-> kv[k], since |-> {}]
<1>1. /\ TypeOK /\ backend = "bolt" /\ call[c] = Idle /\ Len(undo[c]) < MaxUndo
      /\ Write(k, v) /\ Begin(c, Foreign(c, k)) /\ backend' = backend /\ undo' = undo
      /\ call' = [Missed(c, k) EXCEPT ![c] = r] /\ kv[k] \in Value \cup {Absent}
  BY DEF BoltUpdate, Inv, TypeOK
<1>2. /\ r \in InCall /\ r.pc = "saved" /\ r.key = k /\ r.old = kv[k] /\ r.since = {}
  BY <1>1 DEF InCall
<1> HIDE DEF r
<1>3. /\ call' \in [Caller -> {Idle} \cup InCall \cup Answered] /\ call'[c] = r
      /\ \A d \in Caller \ {c} : call'[d] = Missed(c, k)[d]
  BY <1>1, <1>2, WriteOK
<1>4. Foreign(c, k) \in [Caller -> SUBSET Key] /\ Foreign(c, k)[c] = foreign[c]
  BY <1>1, WriteOK
<1>5. TypeOK'
  BY <1>1, <1>3, <1>4, WriteOK, BeginOK DEF TypeOK
<1>6. ASSUME NEW d \in Caller \ {c} PROVE CallOK(d)' /\ UndoOK(d)'
  <2>1. base'[d] = base[d] /\ foreign'[d] = foreign[d] \cup {k}
    BY <1>1, <1>4, WriteOK, BeginOK
  <2>2. call'[d] = IF call[d].pc = "saved" THEN [call[d] EXCEPT !.since = @ \cup {k}] ELSE call[d]
    BY <1>3 DEF Missed
  <2> QED
    BY <1>1, <2>1, <2>2, WriteOK, OthersMiss
<1>7. CallOK(c)'
  BY <1>1, <1>2, <1>3 DEF CallOK, SavedOK
<1>8. UndoOK(c)'
  <2> SUFFICES ASSUME NEW x \in Key \ foreign'[c]
               PROVE  /\ \A j \in 1..Len(undo[c]) :
                            FirstAt(c, x, j) => Restored(base'[c][x], Back(undo[c][j]))
                      /\ Untouched(c, x) /\ Pending(c, x)' => Restored(base'[c][x], Over(c)')
                      /\ Untouched(c, x) /\ ~ Pending(c, x)' => Restored(base'[c][x], kv'[x])
    BY <1>1 DEF UndoOK, FirstAt, Untouched, Restored
  <2>1. /\ \A j \in 1..Len(undo[c]) :
              FirstAt(c, x, j) => Restored(base'[c][x], Back(undo[c][j]))
        /\ Untouched(c, x) => Restored(base'[c][x], kv[x])
    BY <1>1, <1>4, BeginOK
  <2>2. Pending(c, x)' <=> x = k
    BY <1>1, <1>2, <1>3 DEF Pending
  <2>3. Over(c)' = kv[k]
    BY <1>2, <1>3 DEF Over
  <2>4. x # k => kv'[x] = kv[x]
    BY <1>1, WriteOK
  <2> QED
    BY <2>1, <2>2, <2>3, <2>4
<1> QED
  BY <1>5, <1>6, <1>7, <1>8 DEF Inv

LEMMA BadgerReadInv ==
  ASSUME Inv, NEW c \in Caller, NEW op \in {"put", "delete"}, NEW k \in Key,
         NEW v \in Value \cup {Absent}, BadgerRead(c, op, k, v)
  PROVE  Inv'
<1> DEFINE r == [pc |-> "saved", op |-> op, key |-> k, value |-> v, old |-> kv[k], since |-> {}]
<1>1. /\ TypeOK /\ backend = "badger" /\ call[c] = Idle /\ Len(undo[c]) < MaxUndo
      /\ Begin(c, foreign) /\ UNCHANGED <<backend, undo, kv, writes>>
      /\ call' = [call EXCEPT ![c] = r] /\ kv[k] \in Value \cup {Absent}
      /\ foreign \in [Caller -> SUBSET Key]
  BY DEF BadgerRead, Inv, TypeOK
<1>2. /\ r \in InCall /\ r.pc = "saved" /\ r.key = k /\ r.old = kv[k] /\ r.since = {}
  BY <1>1 DEF InCall
<1> HIDE DEF r
<1>3. /\ call' \in [Caller -> {Idle} \cup InCall \cup Answered] /\ call'[c] = r
      /\ \A d \in Caller \ {c} : call'[d] = call[d]
  BY <1>1, <1>2 DEF TypeOK
<1>4. TypeOK'
  BY <1>1, <1>3, BeginOK DEF TypeOK
<1>5. ASSUME NEW d \in Caller \ {c} PROVE CallOK(d)' /\ UndoOK(d)'
  <2>1. base'[d] = base[d] /\ foreign'[d] = foreign[d]
    BY <1>1, BeginOK
  <2> QED
    BY <1>1, <1>3, <2>1, OthersStay
<1>6. CallOK(c)'
  BY <1>1, <1>2, <1>3 DEF CallOK, SavedOK
<1>7. UndoOK(c)'
  <2> SUFFICES ASSUME NEW x \in Key \ foreign'[c]
               PROVE  /\ \A j \in 1..Len(undo[c]) :
                            FirstAt(c, x, j) => Restored(base'[c][x], Back(undo[c][j]))
                      /\ ~ Pending(c, x)'
                      /\ Untouched(c, x) => Restored(base'[c][x], kv'[x])
    BY <1>1 DEF UndoOK, FirstAt, Untouched, Restored
  <2>1. /\ \A j \in 1..Len(undo[c]) :
              FirstAt(c, x, j) => Restored(base'[c][x], Back(undo[c][j]))
        /\ Untouched(c, x) => Restored(base'[c][x], kv[x])
    BY <1>1, BeginOK
  <2>2. ~ Pending(c, x)'
    BY <1>1, <1>2, <1>3 DEF Pending
  <2> QED
    BY <1>1, <2>1, <2>2
<1> QED
  BY <1>4, <1>5, <1>6, <1>7 DEF Inv

(* What Answer makes.                                                      *)
LEMMA AnswerType ==
  ASSUME NEW op \in {"put", "delete"}, NEW k \in Key, NEW old \in Value,
         NEW err \in {"nil", "not found", "conflict"}, NEW wrote \in BOOLEAN,
         NEW was \in Value \cup {Absent}, NEW raced \in BOOLEAN
  PROVE  LET a == Answer(op, k, old, err, wrote, was, raced) IN
         /\ a \in Answered /\ a.pc = "answered" /\ a.op = op /\ a.key = k /\ a.old = old
         /\ a.err = err /\ a.wrote = wrote /\ a.was = was /\ a.raced = raced
BY DEF Answer, Answered

(* The end of a call that c is in and that writes nothing more.            *)
LEMMA AnswerInv ==
  ASSUME Inv, NEW c \in Caller, NEW a \in Answered, call[c].pc = "saved",
         a.pc = "answered", a.key = call[c].key,
         call' = [call EXCEPT ![c] = a],
         UNCHANGED <<backend, kv, undo, writes, base, foreign>>,
         AnswerOK(c)',
         \/ backend = "bolt" /\ a.wrote /\ Done(a) /\ a.was = call[c].old
         \/ backend = "badger" /\ ~ a.wrote
  PROVE  Inv'
<1>1. TypeOK /\ CallOK(c) /\ UndoOK(c)
  BY DEF Inv
<1>2. /\ call' \in [Caller -> {Idle} \cup InCall \cup Answered] /\ call'[c] = a
      /\ \A d \in Caller \ {c} : call'[d] = call[d]
  BY <1>1 DEF TypeOK
<1>3. TypeOK'
  BY <1>1, <1>2 DEF TypeOK
<1>4. ASSUME NEW d \in Caller \ {c} PROVE CallOK(d)' /\ UndoOK(d)'
  BY <1>2, OthersStay
<1>5. CallOK(c)'
  <2>1. call[c] # Idle
    BY DEF Idle
  <2> QED
    BY <1>1, <1>2, <2>1 DEF CallOK
<1>6. UndoOK(c)'
  <2>1. \A k \in Key : Pending(c, k)' <=> Pending(c, k)
    BY <1>2 DEF Pending
  <2>2. \A k \in Key : Pending(c, k) => Over(c)' = Over(c)
    BY <1>2 DEF Pending, Over
  <2> QED
    BY <1>1, <2>1, <2>2 DEF UndoOK, FirstAt, Untouched, Restored
<1> QED
  BY <1>3, <1>4, <1>5, <1>6 DEF Inv

LEMMA BoltAnswerInv ==
  ASSUME Inv, NEW c \in Caller, BoltAnswer(c)
  PROVE  Inv'
<1>1. /\ TypeOK /\ CallOK(c) /\ backend = "bolt" /\ call[c].pc = "saved"
      /\ UNCHANGED <<backend, kv, undo, writes, base, foreign>>
  BY DEF BoltAnswer, Inv
<1>2. call[c] \in InCall
  BY <1>1, CallTypes
<1>3. PICK old \in BoltBytes(call[c]) :
        call' = [call EXCEPT ![c] = Answer(call[c].op, call[c].key, old, "nil", TRUE,
                                           call[c].old, call[c].since # {})]
  BY <1>1 DEF BoltAnswer, TypeOK
<1>4. /\ call[c].op \in {"put", "delete"} /\ call[c].key \in Key
      /\ call[c].old \in Value \cup {Absent}
  BY <1>2 DEF InCall
<1>5. old \in Value /\ (call[c].since = {} => old = String(call[c].old))
  BY <1>4, StringType DEF BoltBytes
<1> DEFINE a == Answer(call[c].op, call[c].key, old, "nil", TRUE, call[c].old, call[c].since # {})
<1>6. /\ a \in Answered /\ a.pc = "answered" /\ a.op = call[c].op /\ a.key = call[c].key
      /\ a.old = old /\ a.err = "nil" /\ a.wrote /\ a.was = call[c].old
      /\ (a.raced <=> call[c].since # {})
  BY <1>4, <1>5 DEF Answer, Answered
<1>7. call' = [call EXCEPT ![c] = a]
  BY <1>3
<1> HIDE DEF a
<1>8. call'[c] = a
  BY <1>1, <1>7 DEF TypeOK
<1>9. AnswerOK(c)' /\ Done(a)
  BY <1>1, <1>5, <1>6, <1>8 DEF AnswerOK, Done, String
<1> QED
  BY <1>1, <1>6, <1>7, <1>9, AnswerInv

LEMMA BadgerAbortInv ==
  ASSUME Inv, NEW c \in Caller, BadgerAbort(c)
  PROVE  Inv'
<1> DEFINE e == BadgerErr(call[c], "conflict")
           a == Answer(call[c].op, call[c].key, String(call[c].old), e, FALSE, kv[call[c].key], FALSE)
<1>1. /\ TypeOK /\ CallOK(c) /\ backend = "badger" /\ call[c].pc = "saved"
      /\ Conflicts(call[c]) \/ (call[c].op = "delete" /\ call[c].old = Absent)
      /\ call' = [call EXCEPT ![c] = a]
      /\ UNCHANGED <<backend, kv, undo, writes, base, foreign>>
  BY DEF BadgerAbort, Inv
<1>2. call[c] \in InCall
  BY <1>1, CallTypes
<1>3. /\ call[c].op \in {"put", "delete"} /\ call[c].key \in Key
      /\ call[c].old \in Value \cup {Absent} /\ kv[call[c].key] \in Value \cup {Absent}
      /\ String(call[c].old) \in Value
  BY <1>1, <1>2, StringType DEF InCall, TypeOK
<1>4. e = IF call[c].old = Absent THEN "not found" ELSE "conflict"
  BY DEF BadgerErr
<1>5. /\ a \in Answered /\ a.pc = "answered" /\ a.op = call[c].op /\ a.key = call[c].key
      /\ a.old = String(call[c].old) /\ a.err = e /\ ~ a.wrote
  <2> HIDE DEF e
  <2> QED
    BY <1>3, <1>4 DEF Answer, Answered
<1> HIDE DEF a, e
<1>6. call'[c] = a
  BY <1>1 DEF TypeOK
<1>7. Done(a) => Conflicts(call[c])
  BY <1>1, <1>4, <1>5 DEF Done
<1>8. Done(a) => a.key \in foreign[c] /\ a.op = "put"
  BY <1>1, <1>4, <1>5, <1>7 DEF CallOK, SavedOK, Conflicts, Done
<1>9. AnswerOK(c)'
  BY <1>1, <1>4, <1>5, <1>6, <1>8 DEF AnswerOK, String
<1> QED
  BY <1>1, <1>5, <1>9, AnswerInv

LEMMA BadgerCommitInv ==
  ASSUME Inv, NEW c \in Caller, BadgerCommit(c)
  PROVE  Inv'
<1> DEFINE k == call[c].key
           e == BadgerErr(call[c], "nil")
           a == Answer(call[c].op, k, String(call[c].old), e, TRUE, kv[k], FALSE)
<1>1. /\ TypeOK /\ CallOK(c) /\ UndoOK(c) /\ backend = "badger" /\ call[c].pc = "saved"
      /\ ~ Conflicts(call[c]) /\ ~ (call[c].op = "delete" /\ call[c].old = Absent)
      /\ Write(k, call[c].value) /\ call' = [Missed(c, k) EXCEPT ![c] = a]
      /\ foreign' = Foreign(c, k) /\ UNCHANGED <<backend, undo, base>>
  BY DEF BadgerCommit, Inv
<1>2. call[c] \in InCall
  BY <1>1, CallTypes
<1>3. /\ call[c].op \in {"put", "delete"} /\ k \in Key /\ call[c].value \in Value \cup {Absent}
      /\ call[c].old \in Value \cup {Absent} /\ kv[k] \in Value \cup {Absent}
      /\ String(call[c].old) \in Value
  BY <1>1, <1>2, StringType DEF InCall, TypeOK
<1>4. call[c].old = kv[k]
  BY <1>1 DEF CallOK, SavedOK
<1>5. e = IF call[c].old = Absent THEN "not found" ELSE "nil"
  BY DEF BadgerErr
<1>6. /\ a \in Answered /\ a.pc = "answered" /\ a.op = call[c].op /\ a.key = k
      /\ a.old = String(call[c].old) /\ a.err = e /\ a.wrote /\ a.was = kv[k] /\ ~ a.raced
  <2> HIDE DEF e, k
  <2> QED
    BY <1>3, <1>5 DEF Answer, Answered
<1> HIDE DEF a, e, k
<1>7. /\ call' \in [Caller -> {Idle} \cup InCall \cup Answered] /\ call'[c] = a
      /\ \A d \in Caller \ {c} : call'[d] = Missed(c, k)[d]
  BY <1>1, <1>3, <1>6, WriteOK
<1>8. TypeOK'
  BY <1>1, <1>3, <1>7, WriteOK DEF TypeOK
<1>9. ASSUME NEW d \in Caller \ {c} PROVE CallOK(d)' /\ UndoOK(d)'
  <2>1. foreign'[d] = foreign[d] \cup {k} /\ \A x \in Key \ {k} : kv'[x] = kv[x]
    BY <1>1, <1>3, WriteOK
  <2>2. call'[d] = IF call[d].pc = "saved" THEN [call[d] EXCEPT !.since = @ \cup {k}] ELSE call[d]
    BY <1>7 DEF Missed
  <2> QED
    BY <1>1, <1>3, <2>1, <2>2, OthersMiss
<1>10. Done(a) /\ AnswerOK(c)'
  BY <1>1, <1>3, <1>4, <1>5, <1>6, <1>7 DEF AnswerOK, Done, String
<1>11. CallOK(c)'
  <2>1. call[c] # Idle
    BY <1>1 DEF Idle
  <2> QED
    BY <1>1, <1>6, <1>7, <1>10, <2>1 DEF CallOK
<1>12. UndoOK(c)'
  <2>1. foreign'[c] = foreign[c] /\ \A x \in Key \ {k} : kv'[x] = kv[x]
    BY <1>1, <1>3, WriteOK
  <2>2. \A x \in Key : ~ Pending(c, x) /\ (Pending(c, x)' <=> x = k)
    BY <1>1, <1>6, <1>7, <1>10 DEF Pending
  <2>3. Over(c)' = kv[k]
    BY <1>6, <1>7 DEF Over
  <2> QED
    BY <1>1, <2>1, <2>2, <2>3 DEF UndoOK, FirstAt, Untouched, Restored
<1> QED
  BY <1>8, <1>9, <1>11, <1>12 DEF Inv

(* Taking back a write over o leaves, where b was restored to o, b again.  *)
LEMMA BackRestores ==
  ASSUME NEW b \in Value \cup {Absent}, NEW o \in Value \cup {Absent}, Restored(b, o),
         NEW w, w.op \in {"put", "delete"}, w.old = String(o),
         w.op = "delete" /\ o = Absent => backend = "bolt"
  PROVE  Restored(b, Back(w))
BY StoreAssumption
   DEF Restored, Back, String, RollbackPutWithOldValue, RollbackDeleteWithOldValue

LEMMA KeepInv ==
  ASSUME Inv, NEW c \in Caller, Keep(c)
  PROVE  Inv'
<1> DEFINE a == call[c]
           w == [op |-> a.op, key |-> a.key, old |-> a.old]
           Entry == [op : {"put", "delete"}, key : Key, old : Value]
<1>1. /\ TypeOK /\ CallOK(c) /\ UndoOK(c) /\ a.pc = "answered"
      /\ call' = [call EXCEPT ![c] = Idle]
      /\ undo' = [undo EXCEPT ![c] = IF Done(a) THEN Append(undo[c], w) ELSE undo[c]]
      /\ foreign' = [foreign EXCEPT ![c] = IF a.raced THEN foreign[c] \cup {a.key} ELSE foreign[c]]
      /\ UNCHANGED <<backend, kv, writes, base>>
  BY DEF Keep, Inv, TypeOK
<1>2. a \in Answered /\ AnswerOK(c) /\ Len(undo[c]) < MaxUndo
  <2>1. call[c] # Idle
    BY <1>1 DEF Idle
  <2> QED
    BY <1>1, <2>1, CallTypes DEF CallOK
<1>3. w \in Entry /\ w.op = a.op /\ w.key = a.key /\ w.old = a.old
  BY <1>2 DEF Answered
<1>4. /\ undo[c] \in Seq(Entry) /\ undo \in [Caller -> Seq(Entry)]
      /\ foreign \in [Caller -> SUBSET Key] /\ a.key \in Key
  BY <1>1, <1>2 DEF TypeOK, Answered
<1> HIDE DEF a, w
<1>5. /\ call' \in [Caller -> {Idle} \cup InCall \cup Answered] /\ call'[c] = Idle
      /\ \A d \in Caller \ {c} : call'[d] = call[d]
  BY <1>1 DEF TypeOK
<1>6. /\ undo' \in [Caller -> Seq(Entry)]
      /\ undo'[c] = IF Done(a) THEN Append(undo[c], w) ELSE undo[c]
      /\ \A d \in Caller \ {c} : undo'[d] = undo[d]
  <2> HIDE DEF Entry
  <2>1. Append(undo[c], w) \in Seq(Entry)
    BY <1>3, <1>4
  <2> QED
    BY <1>1, <1>4, <2>1
<1>7. /\ foreign' \in [Caller -> SUBSET Key] /\ foreign[c] \subseteq foreign'[c]
      /\ a.raced => a.key \in foreign'[c]
      /\ \A d \in Caller \ {c} : foreign'[d] = foreign[d]
  BY <1>1, <1>4
<1>8. Len(undo[c]) \in Nat /\ Len(undo'[c]) <= MaxUndo
  BY <1>2, <1>4, <1>6, StoreAssumption
<1>9. TypeOK'
  BY <1>1, <1>5, <1>6, <1>7, <1>8 DEF TypeOK
<1>10. ASSUME NEW d \in Caller \ {c} PROVE CallOK(d)' /\ UndoOK(d)'
  BY <1>1, <1>5, <1>6, <1>7, OthersStay
<1>11. CallOK(c)'
  BY <1>5 DEF CallOK, Idle
<1>12. UndoOK(c)'
  <2> SUFFICES ASSUME NEW x \in Key \ foreign'[c]
               PROVE  /\ \A j \in 1..Len(undo'[c]) :
                            FirstAt(c, x, j)' => Restored(base[c][x], Back(undo'[c][j]))
                      /\ ~ Pending(c, x)'
                      /\ Untouched(c, x)' => Restored(base[c][x], kv[x])
    BY <1>1 DEF UndoOK, Restored
  <2>0. x \in Key \ foreign[c] /\ base[c][x] \in Value \cup {Absent}
    BY <1>1, <1>7 DEF TypeOK
  <2>1. ~ Pending(c, x)'
    BY <1>5 DEF Pending, Idle
  <2>2. CASE ~ Done(a)
    <3>1. undo'[c] = undo[c] /\ ~ Pending(c, x)
      BY <1>1, <1>6, <2>2 DEF Pending, a
    <3> QED
      BY <1>1, <2>0, <2>1, <3>1 DEF UndoOK, FirstAt, Untouched
  <2>3. CASE Done(a)
    <3>1. /\ Len(undo'[c]) = Len(undo[c]) + 1 /\ undo'[c][Len(undo[c]) + 1] = w
          /\ \A i \in 1..Len(undo[c]) : undo'[c][i] = undo[c][i]
      BY <1>4, <1>6, <2>3
    <3>2. Untouched(c, x)' => Untouched(c, x) /\ a.key # x
      BY <1>3, <1>8, <3>1 DEF Untouched
    <3>3. a.key # x => ~ Pending(c, x)
      BY <1>1 DEF Pending, a
    <3>4. ASSUME NEW j \in 1..Len(undo[c]), FirstAt(c, x, j)'
          PROVE  Restored(base[c][x], Back(undo'[c][j]))
      <4>1. FirstAt(c, x, j)
        BY <1>8, <3>1, <3>4 DEF FirstAt
      <4> QED
        BY <1>1, <2>0, <3>1, <4>1 DEF UndoOK
    <3>5. ASSUME NEW j, j = Len(undo[c]) + 1, FirstAt(c, x, j)'
          PROVE  Restored(base[c][x], Back(w))
      <4>1. a.key = x /\ Untouched(c, x)
        <5>1. 1..j - 1 = 1..Len(undo[c])
          BY <1>8, <3>5
        <5> QED
          BY <1>3, <3>1, <3>5, <5>1 DEF FirstAt, Untouched
      <4>2. a.wrote /\ ~ a.raced
        BY <1>2, <1>7, <2>0, <2>3, <4>1 DEF AnswerOK, a
      <4>3. Pending(c, x) /\ Over(c) = a.was
        BY <1>1, <2>3, <4>1, <4>2 DEF Pending, Over, a
      <4>4. Restored(base[c][x], a.was)
        BY <1>1, <2>0, <4>1, <4>3 DEF UndoOK
      <4>5. a.old = String(a.was) /\ a.was \in Value \cup {Absent}
        <5>1. a.was \in Value \cup {Absent} /\ a.err \in {"nil", "not found", "conflict"}
          BY <1>2 DEF Answered
        <5>2. a.err = "nil" \/ (a.err = "not found" /\ a.old = Empty /\ a.was = Absent)
          BY <1>2, <4>2, <5>1 DEF AnswerOK, a
        <5> QED
          BY <1>2, <4>2, <5>1, <5>2 DEF AnswerOK, String, a
      <4>6. a.op = "delete" /\ a.was = Absent => backend = "bolt"
        BY <1>2, <2>3 DEF AnswerOK, a
      <4>7. w.op \in {"put", "delete"}
        BY <1>3
      <4> QED
        BY <1>3, <2>0, <4>4, <4>5, <4>6, <4>7, BackRestores
    <3>6. \A j \in 1..Len(undo'[c]) : j \in 1..Len(undo[c]) \/ j = Len(undo[c]) + 1
      BY <1>8, <3>1
    <3>7. Untouched(c, x)' => Restored(base[c][x], kv[x])
      BY <1>1, <2>0, <3>2, <3>3 DEF UndoOK
    <3> QED
      BY <2>1, <3>1, <3>4, <3>5, <3>6, <3>7
  <2> QED
    BY <2>2, <2>3
<1> QED
  BY <1>9, <1>10, <1>11, <1>12 DEF Inv

(* A sequence without its last element.                                    *)
LEMMA FrontOfSeq ==
  ASSUME NEW S, NEW q \in Seq(S), NEW m \in Nat \ {0}, m = Len(q)
  PROVE  /\ SubSeq(q, 1, m - 1) \in Seq(S) /\ Len(SubSeq(q, 1, m - 1)) = m - 1
         /\ \A i \in 1..m - 1 : SubSeq(q, 1, m - 1)[i] = q[i]
<1>1. m - 1 \in Int /\ \A i \in 1..m - 1 : q[i] \in S
  BY ElementOfSeq
<1>2. /\ SubSeq(q, 1, m - 1) \in Seq(S)
      /\ Len(SubSeq(q, 1, m - 1)) = IF 1 <= m - 1 THEN m - 1 - 1 + 1 ELSE 0
      /\ \A i \in 1..m - 1 - 1 + 1 : SubSeq(q, 1, m - 1)[i] = q[1 + i - 1]
  BY <1>1, SubSeqProperties
<1> QED
  BY <1>2

LEMMA RollbackInv ==
  ASSUME Inv, NEW c \in Caller, Rollback(c)
  PROVE  Inv'
<1> DEFINE n == Len(undo[c])
           w == undo[c][n]
           Entry == [op : {"put", "delete"}, key : Key, old : Value]
<1>1. /\ TypeOK /\ UndoOK(c) /\ call[c] = Idle /\ undo[c] # <<>>
      /\ Write(w.key, Back(w)) /\ undo' = [undo EXCEPT ![c] = SubSeq(undo[c], 1, n - 1)]
      /\ call' = Missed(c, w.key) /\ foreign' = Foreign(c, w.key) /\ UNCHANGED <<backend, base>>
  BY DEF Rollback, Back, Inv, TypeOK
<1>2. /\ undo[c] \in Seq(Entry) /\ undo \in [Caller -> Seq(Entry)] /\ n \in Nat
      /\ n > 0 /\ n <= MaxUndo
  <2>1. undo \in [Caller -> Seq(Entry)] /\ n <= MaxUndo
    BY <1>1 DEF TypeOK
  <2> HIDE DEF Entry
  <2> QED
    BY <1>1, <2>1, EmptySeq, LenProperties
<1>3. w \in Entry /\ w.key \in Key /\ Back(w) \in Value \cup {Absent}
  <2>1. w \in Entry
    <3> HIDE DEF Entry
    <3> QED
      BY <1>2, ElementOfSeq
  <2> QED
    BY <2>1 DEF Back, RollbackPutWithOldValue, RollbackDeleteWithOldValue
<1>4. /\ undo' \in [Caller -> Seq(Entry)] /\ Len(undo'[c]) = n - 1
      /\ \A i \in 1..n - 1 : undo'[c][i] = undo[c][i]
      /\ \A d \in Caller \ {c} : undo'[d] = undo[d]
  <2> HIDE DEF Entry, n
  <2>1. /\ SubSeq(undo[c], 1, n - 1) \in Seq(Entry) /\ Len(SubSeq(undo[c], 1, n - 1)) = n - 1
        /\ \A i \in 1..n - 1 : SubSeq(undo[c], 1, n - 1)[i] = undo[c][i]
    <3>1. undo[c] \in Seq(Entry) /\ n \in Nat \ {0} /\ n = Len(undo[c])
      BY <1>2 DEF n
    <3> QED
      BY <3>1, FrontOfSeq
  <2> QED
    BY <1>1, <1>2, <2>1
<1> HIDE DEF w, n
<1>5. TypeOK'
  BY <1>1, <1>2, <1>3, <1>4, WriteOK, StoreAssumption DEF TypeOK
<1>6. call'[c] = Idle /\ foreign'[c] = foreign[c] /\ kv'[w.key] = Back(w)
      /\ \A x \in Key \ {w.key} : kv'[x] = kv[x]
  BY <1>1, <1>3, WriteOK
<1>7. ASSUME NEW d \in Caller \ {c} PROVE CallOK(d)' /\ UndoOK(d)'
  <2>1. foreign'[d] = foreign[d] \cup {w.key}
    BY <1>1, <1>3, WriteOK
  <2>2. call'[d] = IF call[d].pc = "saved" THEN [call[d] EXCEPT !.since = @ \cup {w.key}] ELSE call[d]
    BY <1>1 DEF Missed
  <2> QED
    BY <1>1, <1>3, <1>4, <1>6, <2>1, <2>2, OthersMiss
<1>8. CallOK(c)'
  BY <1>6 DEF CallOK, Idle
<1>9. UndoOK(c)'
  <2>0. /\ foreign'[c] = foreign[c] /\ Len(undo'[c]) = n - 1 /\ base' = base
        /\ \A was, now : Restored(was, now)' <=> Restored(was', now')
    BY <1>1, <1>4, <1>6 DEF Restored
  <2> SUFFICES ASSUME NEW x \in Key \ foreign[c]
               PROVE  /\ \A j \in 1..n - 1 :
                            FirstAt(c, x, j)' => Restored(base[c][x], Back(undo'[c][j]))
                      /\ ~ Pending(c, x)'
                      /\ Untouched(c, x)' => Restored(base[c][x], kv'[x])
    BY <1>1, <2>0 DEF UndoOK, Restored
  <2>1. ~ Pending(c, x)' /\ ~ Pending(c, x)
    BY <1>1, <1>6 DEF Pending, Idle
  <2>2. ASSUME NEW j \in 1..n - 1, FirstAt(c, x, j)'
        PROVE  Restored(base[c][x], Back(undo'[c][j]))
    <3>1. FirstAt(c, x, j) /\ j \in 1..n
      BY <1>2, <1>4, <2>2 DEF FirstAt
    <3> QED
      BY <1>1, <1>4, <3>1 DEF UndoOK, n
  <2>3. ASSUME Untouched(c, x)'
        PROVE  Restored(base[c][x], kv'[x])
    <3>1. \A i \in 1..n - 1 : undo[c][i].key # x
      BY <1>4, <2>3 DEF Untouched
    <3>2. CASE w.key = x
      <4>1. FirstAt(c, x, n) /\ n \in 1..n
        BY <1>2, <3>1, <3>2 DEF FirstAt, w
      <4> QED
        BY <1>1, <1>6, <3>2, <4>1 DEF UndoOK, n, w
    <3>3. CASE w.key # x
      <4>1. Untouched(c, x)
        <5>1. \A i \in 1..n : i \in 1..n - 1 \/ i = n
          BY <1>2
        <5> QED
          BY <3>1, <3>3, <5>1 DEF Untouched, n, w
      <4> QED
        BY <1>1, <1>6, <2>1, <3>3, <4>1 DEF UndoOK
    <3> QED
      BY <3>2, <3>3
  <2> QED
    BY <2>1, <2>2, <2>3
<1> QED
  BY <1>5, <1>7, <1>8, <1>9 DEF Inv

-----------------------------------------------------------------------------
LEMMA NextInv == Inv /\ [Next]_vars => Inv'
<1> SUFFICES ASSUME Inv, [Next]_vars PROVE Inv'
  OBVIOUS
<1>1. CASE UNCHANGED vars
  <2>1. TypeOK'
    BY <1>1 DEF vars, Inv, TypeOK
  <2>2. \A c \in Caller : CallOK(c)' /\ UndoOK(c)'
    BY <1>1, OthersStay DEF vars
  <2> QED
    BY <2>1, <2>2 DEF Inv
<1>2. ASSUME NEW c \in Caller, NEW k \in Key,
             \/ Delete(c, k) \/ MemDeleteWithOldValue(c, k)
             \/ BoltDeleteWithOldValue(c, k) \/ BadgerDeleteWithOldValue(c, k)
      PROVE  Inv'
  BY <1>2, PlainWriteInv, MemInv, BoltInv, BadgerReadInv
     DEF Delete, MemDeleteWithOldValue, BoltDeleteWithOldValue, BadgerDeleteWithOldValue
<1>3. ASSUME NEW c \in Caller, NEW k \in Key, NEW v \in Value,
             \/ Put(c, k, v) \/ MemPutWithOldValue(c, k, v)
             \/ BoltPutWithOldValue(c, k, v) \/ BadgerPutWithOldValue(c, k, v)
      PROVE  Inv'
  BY <1>3, PlainWriteInv, MemInv, BoltInv, BadgerReadInv
     DEF Put, MemPutWithOldValue, BoltPutWithOldValue, BadgerPutWithOldValue
<1>4. ASSUME NEW c \in Caller,
             BoltAnswer(c) \/ BadgerCommit(c) \/ BadgerAbort(c) \/ Keep(c) \/ Rollback(c)
      PROVE  Inv'
  BY <1>4, BoltAnswerInv, BadgerCommitInv, BadgerAbortInv, KeepInv, RollbackInv
<1> QED
  BY <1>1, <1>2, <1>3, <1>4 DEF Next

(* The invariant holds of every use of a store.                            *)
THEOREM StoreInvariant == Spec => []Inv
BY InitInv, NextInv, PTL DEF Spec

(* The stores, the calls and what callers keep are well typed, and no      *)
(* caller can take back more than it kept.                                 *)
THEOREM StoreTypeCorrect == Spec => []TypeOK
<1>1. Inv => TypeOK
  BY DEF Inv
<1> QED
  BY <1>1, StoreInvariant, PTL

(* Whatever the other callers do, PutWithOldValue and DeleteWithOldValue   *)
(* of each implementation answer without an error only if they have        *)
(* written, with the value that this very write replaced, up to the        *)
(* exceptions that OldValueReplaced names.                                 *)
THEOREM OldValueIsReplaced == Spec => []OldValueReplaced
<1>1. Inv => OldValueReplaced
  BY DEF Inv, CallOK, AnswerOK, OldValueReplaced
<1> QED
  BY <1>1, StoreInvariant, PTL

(* Taking back the writes of a caller, the last one first, restores every  *)
(* key that nobody else has written, however many writes there were.       *)
THEOREM UndoIsRestoring == Spec => []UndoRestores
<1>1. Inv => UndoRestores
  <2> SUFFICES ASSUME Inv, NEW c \in Caller, call[c] = Idle, undo[c] = <<>>,
                      NEW k \in Key \ foreign[c]
               PROVE  Restored(base[c][k], kv[k])
    BY DEF UndoRestores
  <2>1. Untouched(c, k) /\ ~ Pending(c, k)
    BY DEF Untouched, Pending, Idle
  <2> QED
    BY <2>1 DEF Inv, UndoOK
<1> QED
  BY <1>1, StoreInvariant, PTL
=============================================================================
