---------------------------- MODULE CurpCommand ----------------------------
(***************************************************************************)
(* Commands, replies and what executing a command does to the key-value    *)
(* store (curp/command, curp/curp_proto, the execute functions of          *)
(* curp/state.go over kv/mem_kv.go).                                       *)
(***************************************************************************)
EXTENDS Naturals, Sequences

CONSTANTS
    Key,        \* keys of the store
    Value,      \* values a PUT may carry
    ProposeId,  \* identities <<ClientId, SeqId>> of commands
    Nil         \* a missing map entry, a nil pointer

Op == {"PUT", "GET", "DELETE"}

\* Contents of replies that no PUT has to have stored.
Empty            == ""
NotFoundInState  == "NOT FOUND IN STATE"
NotFoundInBuffer == "NOT FOUND IN BUFFER"
Content == Value \cup {Empty, NotFoundInState, NotFoundInBuffer}

CurpClientCommand ==
    [id : ProposeId, op : Op, key : Key, value : Value \cup {Empty}]

\* TIMEOUT is only ever produced by a client.
StatusCode == {"ACCEPTED", "CONFLICT", "TIMEOUT"}
CurpReply  == [content : Content, status : StatusCode]

ASSUME NilAssumption ==
    Nil \notin Content \cup StatusCode \cup CurpReply \cup {<<>>} \cup {<<r>> : r \in Content}

-----------------------------------------------------------------------------
(* Two commands conflict when they touch the same key and one writes it.   *)

\* Mutant: both commands would have to be of the same kind.
ConflictSameOp(c1, c2) ==
    /\ c1.key = c2.key
    /\ \/ c1.op = "PUT" /\ c2.op = "PUT"
       \/ c1.op = "DELETE" /\ c2.op = "DELETE"

Conflict(c1, c2) ==
    /\ c1.key = c2.key
    /\ \/ c1.op = "PUT" \/ c2.op = "PUT"
       \/ c1.op = "DELETE" \/ c2.op = "DELETE"

-----------------------------------------------------------------------------
(* The store: a map from keys to values, Nil where the key is missing.     *)
Store == [Key -> Value \cup {Empty, Nil}]

NewMemStore == [k \in Key |-> Nil]

\* Nil is the error "key not found".
Get(kv, k) == kv[k]
Put(kv, k, v) == [kv EXCEPT ![k] = v]
Delete(kv, k) == [kv EXCEPT ![k] = Nil]

\* The store after executeSync, and what it returns.
ExecuteSync(kv, cmd) ==
    CASE cmd.op = "PUT"    -> Put(kv, cmd.key, cmd.value)
      [] cmd.op = "DELETE" -> Delete(kv, cmd.key)
      [] OTHER             -> kv

\* Mutant: the error of KVStore.Get is ignored.
ExecuteSyncResultNoError(kv, cmd) ==
    IF cmd.op # "GET" THEN Empty ELSE Get(kv, cmd.key)

ExecuteSyncResult(kv, cmd) ==
    IF cmd.op # "GET" THEN Empty
    ELSE IF Get(kv, cmd.key) = Nil THEN NotFoundInState
    ELSE Get(kv, cmd.key)

\* The store after executeAsync; its caller throws the result away.
ExecuteAsync(kv, cmd) ==
    CASE cmd.op = "PUT"    -> Put(kv, cmd.key, cmd.value)
      [] cmd.op = "DELETE" -> Delete(kv, cmd.key)
      [] OTHER             -> kv

\* Reference semantics: what a command means for the value at key k.
Writes(cmd, k) == cmd.key = k /\ cmd.op # "GET"
Meaning(kv, cmd) ==
    [k \in Key |-> IF ~Writes(cmd, k) THEN kv[k]
                   ELSE IF cmd.op = "PUT" THEN cmd.value ELSE Nil]

\* One of the two commands writes the key of the other.
Interferes(c1, c2) == \E k \in Key : \/ Writes(c1, k) /\ c2.key = k
                                     \/ Writes(c2, k) /\ c1.key = k

-----------------------------------------------------------------------------
(* How many of n servers must accept a command on the fast path.           *)
MaxFailures(n) == (n - 1) \div 2

\* Mutant: a majority.
SuperQuoromMajority(n) == MaxFailures(n) + 1

\* f + ceil(f / 2) + 1
SuperQuorom(n) == MaxFailures(n) + ((MaxFailures(n) + 1) \div 2) + 1
=============================================================================
