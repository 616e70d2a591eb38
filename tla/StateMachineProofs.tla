------------------------- MODULE StateMachineProofs -------------------------
(***************************************************************************)
(* Theorems about StateMachine, for every set of servers, commands, keys   *)
(* and values and for every bound.                                         *)
(***************************************************************************)
EXTENDS StateMachine, TLAPS

-----------------------------------------------------------------------------
(* The operations of the board keep its type.                              *)

\* What InsertEr and InsertAsr, run by the worker, do to a board.
LEMMA BoardInsertType ==
    ASSUME NEW b \in Board, NEW id \in ProposeId, NEW r \in Content
    PROVE  /\ InsertEr(b, id, r) \in Board
           /\ InsertEr(b, id, r).erBuffer = [b.erBuffer EXCEPT ![id] = r]
           /\ InsertEr(b, id, r).asrBuffer = b.asrBuffer
           /\ InsertEr(b, id, r).erNotifiers = b.erNotifiers
           /\ InsertEr(b, id, r).asrNotifiers = b.asrNotifiers
           /\ InsertAsr(b, id) \in Board
           /\ InsertAsr(b, id).erBuffer = b.erBuffer
           /\ InsertAsr(b, id).erNotifiers = b.erNotifiers
           /\ InsertAsr(b, id).asrNotifiers = b.asrNotifiers
BY DEF Board, InsertEr, InsertAsr

\* What the sends of NotifyEr and NotifyAsr do to a board.
LEMMA BoardNotifyType ==
    ASSUME NEW b \in Board, NEW id \in ProposeId
    PROVE  /\ b.erBuffer[id] # Nil => NotifyEr(b, id) \in Board
           /\ NotifyEr(b, id).erBuffer = b.erBuffer
           /\ NotifyEr(b, id).erNotifiers
                  = [b.erNotifiers EXCEPT ![id] = <<b.erBuffer[id]>>]
           /\ NotifyEr(b, id).asrNotifiers = b.asrNotifiers
           /\ NotifyAsr(b, id) \in Board
           /\ NotifyAsr(b, id).erBuffer = b.erBuffer
           /\ NotifyAsr(b, id).erNotifiers = b.erNotifiers
           /\ NotifyAsr(b, id).asrNotifiers
                  = [b.asrNotifiers EXCEPT ![id] = <<Signal>>]
BY DEF Board, NotifyEr, NotifyAsr

\* What the handlers do to a board when they park, wake up and forget.
LEMMA BoardWaitType ==
    ASSUME NEW b \in Board, NEW id \in ProposeId
    PROVE  /\ ParkForEr(b, id) \in Board
           /\ ParkForEr(b, id).erBuffer = b.erBuffer
           /\ ParkForEr(b, id).erNotifiers = [b.erNotifiers EXCEPT ![id] =
                  IF b.erNotifiers[id] = Nil THEN <<>> ELSE b.erNotifiers[id]]
           /\ ParkForEr(b, id).asrNotifiers = b.asrNotifiers
           /\ DrainEr(b, id) \in Board
           /\ DrainEr(b, id).erBuffer = b.erBuffer
           /\ DrainEr(b, id).erNotifiers = [b.erNotifiers EXCEPT ![id] = <<>>]
           /\ DrainEr(b, id).asrNotifiers = b.asrNotifiers
           /\ ParkForAsr(b, id) \in Board
           /\ ParkForAsr(b, id).erBuffer = b.erBuffer
           /\ ParkForAsr(b, id).erNotifiers = b.erNotifiers
           /\ ParkForAsr(b, id).asrNotifiers = [b.asrNotifiers EXCEPT ![id] =
                  IF b.asrNotifiers[id] = Nil THEN <<>> ELSE b.asrNotifiers[id]]
           /\ DrainAsr(b, id) \in Board
           /\ DrainAsr(b, id).erBuffer = b.erBuffer
           /\ DrainAsr(b, id).erNotifiers = b.erNotifiers
           /\ DrainAsr(b, id).asrNotifiers = [b.asrNotifiers EXCEPT ![id] = <<>>]
           /\ Forget(b, id) \in Board
           /\ Forget(b, id).erBuffer = [b.erBuffer EXCEPT ![id] = Nil]
           /\ Forget(b, id).erNotifiers = b.erNotifiers
           /\ Forget(b, id).asrNotifiers = b.asrNotifiers
BY DEF Board, ParkForEr, DrainEr, ParkForAsr, DrainAsr, Forget

-----------------------------------------------------------------------------
(* Executing a command keeps the type of the store and yields a content.   *)

\* executeAsync and executeSync both do what the command means.
LEMMA ExecuteIsMeaning ==
    ASSUME NEW st \in Store, NEW c \in Command
    PROVE  /\ ExecuteSync(st, c) = Meaning(st, c)
           /\ ExecuteAsync(st, c) = Meaning(st, c)
           /\ Meaning(st, c) \in Store
           /\ ExecuteSyncResult(st, c) \in Content
           /\ \A k \in Key : ~Writes(c, k) => Meaning(st, c)[k] = st[k]
<1>1. /\ c.op \in {"PUT", "GET", "DELETE"} /\ c.key \in Key
      /\ c.value \in Value \cup {Empty} /\ c.id \in ProposeId
  BY CommandAssumption DEF CurpClientCommand, Op
<1>2. st \in [Key -> Value \cup {Empty, Nil}]
  BY DEF Store
<1>3. CASE c.op = "PUT"
  BY <1>1, <1>2, <1>3 DEF ExecuteSync, ExecuteAsync, ExecuteSyncResult,
     Meaning, Writes, Get, Put, Delete, Store, Content
<1>4. CASE c.op = "GET"
  BY <1>1, <1>2, <1>4 DEF ExecuteSync, ExecuteAsync, ExecuteSyncResult,
     Meaning, Writes, Get, Put, Delete, Store, Content
<1>5. CASE c.op = "DELETE"
  BY <1>1, <1>2, <1>5 DEF ExecuteSync, ExecuteAsync, ExecuteSyncResult,
     Meaning, Writes, Get, Put, Delete, Store, Content
<1> QED BY <1>1, <1>3, <1>4, <1>5

-----------------------------------------------------------------------------
(* The type invariant, with what makes it inductive.                       *)

\* The worker holds a command when it is busy; a pending slow-path command
\* is the next entry of the log, a finished one the last applied entry.
WorkerOK ==
    \A s \in Server :
        /\ worker[s].pc # "select" => worker[s].cmd \in Command
        /\ worker[s].pc = "notifyEr" => board[s].erBuffer[worker[s].cmd.id] # Nil
        /\ worker[s].pc = "slow" => /\ applied[s] < Len(log)
                                    /\ worker[s].cmd = log[applied[s] + 1]
        /\ worker[s].pc \in {"notifyAsr", "removeRecord"}
               => /\ applied[s] \in 1..Len(log)
                  /\ worker[s].cmd = log[applied[s]]

\* A parked handler has a notifier to wait on.
ParkedOK ==
    \A s \in Server, c \in Command :
        propose[s][c].pc = "parked" => board[s].erNotifiers[c.id] # Nil

\* logState is the sequence of the stores that the prefixes of log mean.
LogOK ==
    /\ Len(logState) = Len(log) + 1
    /\ \A i \in 1..Len(log) : logState[i + 1] = Meaning(logState[i], log[i])
    /\ \A s \in Server : applied[s] <= Len(log)

TypeInv == TypeOK /\ WorkerOK /\ ParkedOK /\ LogOK

LEMMA CommandFacts ==
    ASSUME NEW c \in Command
    PROVE  /\ c.id \in ProposeId /\ c.key \in Key /\ c.op \in Op
BY CommandAssumption DEF CurpClientCommand

\* Moving a handler to another control state keeps the type.
LEMMA ProposeType ==
    ASSUME TypeOK, NEW s \in Server, NEW c \in Command, NEW p \in ProposePC
    PROVE  [propose EXCEPT ![s][c].pc = p]
               \in [Server -> [Command -> [pc : ProposePC, isConflict : BOOLEAN]]]
<1> DEFINE R == [pc : ProposePC, isConflict : BOOLEAN]
<1>1. propose \in [Server -> [Command -> R]]
  BY DEF TypeOK
<1>2. [propose[s][c] EXCEPT !.pc = p] \in R
  BY <1>1
<1> HIDE DEF R
<1>3. [propose[s] EXCEPT ![c] = [propose[s][c] EXCEPT !.pc = p]] \in [Command -> R]
  BY <1>1, <1>2
<1>4. [propose EXCEPT ![s][c].pc = p] \in [Server -> [Command -> R]]
  BY <1>1, <1>3
<1> QED BY <1>4 DEF R

\* A notifier, once made, stays.
LEMMA NotifierStays ==
    ASSUME NEW b \in Board, NEW id \in ProposeId
    PROVE  /\ ParkForEr(b, id).erNotifiers[id] # Nil
           /\ \A i \in ProposeId : b.erNotifiers[i] # Nil
                  => /\ ParkForEr(b, id).erNotifiers[i] # Nil
                     /\ DrainEr(b, id).erNotifiers[i] # Nil
<1>1. Nil # <<>>
  BY NilAssumption
<1>2. PICK T : b.erNotifiers \in [ProposeId -> T]
  BY DEF Board
<1>3. /\ ParkForEr(b, id).erNotifiers = [b.erNotifiers EXCEPT ![id] =
             IF b.erNotifiers[id] = Nil THEN <<>> ELSE b.erNotifiers[id]]
      /\ DrainEr(b, id).erNotifiers = [b.erNotifiers EXCEPT ![id] = <<>>]
  BY BoardWaitType
<1> QED BY <1>1, <1>2, <1>3

LEMMA TypeInvInit == Init => TypeInv
<1> SUFFICES ASSUME Init PROVE TypeInv
  OBVIOUS
<1>1. NewMemStore \in Store
  BY DEF NewMemStore, Store
<1>2. NewBoard \in Board
  BY DEF NewBoard, Board
<1>3. TypeOK
  BY <1>1, <1>2 DEF Init, TypeOK, Idle, NewWitness, WorkerPC, ProposePC, SyncPC, RaftState
<1>4. WorkerOK /\ ParkedOK /\ LogOK
  BY DEF Init, WorkerOK, ParkedOK, LogOK, Idle
<1> QED BY <1>3, <1>4 DEF TypeInv

\* Propose's steps, from the witness to the answer.
LEMMA TypeInvPropose ==
    ASSUME TypeInv, NEW s \in Server, NEW c \in Command,
           \/ ProposeInsert(s, c) \/ ProposeFollower(s, c)
           \/ ProposeLeader(s, c) \/ WaitForEr(s, c) \/ ReceiveEr(s, c)
    PROVE  TypeInv'
<1> USE CommandFacts
<1>0. /\ board[s] \in Board
      /\ Empty \in Content
  BY DEF TypeInv, TypeOK, Content
<1>r. ASSUME NEW r \in Content, Answer(s, c, r)
      PROVE  /\ reply' \in [Server -> [Command -> CurpReply \cup {Nil}]]
             /\ propose' \in [Server -> [Command -> [pc : ProposePC, isConflict : BOOLEAN]]]
  <2>1. Status(propose[s][c].isConflict) \in StatusCode
    BY DEF Status, StatusCode
  <2>2. [content |-> r, status |-> Status(propose[s][c].isConflict)] \in CurpReply
    BY <2>1 DEF CurpReply
  <2>3. reply' \in [Server -> [Command -> CurpReply \cup {Nil}]]
    BY <1>r, <2>2 DEF Answer, TypeInv, TypeOK
  <2>4. propose' \in [Server -> [Command -> [pc : ProposePC, isConflict : BOOLEAN]]]
    BY <1>r, ProposeType DEF Answer, TypeInv, ProposePC
  <2> QED BY <2>3, <2>4
<1>1. CASE ProposeInsert(s, c)
  <2>1. HasConflictWith(witness[s], c) \in BOOLEAN
    BY DEF HasConflictWith
  <2>2. InsertIfNotConflict(witness[s], c) \in SUBSET Command
    BY DEF InsertIfNotConflict, TypeInv, TypeOK
  <2>3. TypeOK'
    BY <1>1, <2>1, <2>2 DEF ProposeInsert, TypeInv, TypeOK, ProposePC, boardVars, raftVars, execVars
  <2>4. WorkerOK' /\ ParkedOK' /\ LogOK'
    BY <1>1 DEF ProposeInsert, TypeInv, TypeOK, WorkerOK, ParkedOK, LogOK, boardVars, raftVars, execVars
  <2> QED BY <2>3, <2>4 DEF TypeInv
<1>2. CASE ProposeFollower(s, c)
  <2>3. TypeOK'
    <3>1. Answer(s, c, Empty)
      BY <1>2 DEF ProposeFollower, Answer
    <3> QED BY <1>0, <1>2, <1>r, <3>1 DEF ProposeFollower, TypeInv, TypeOK, boardVars, raftVars, execVars
  <2>4. WorkerOK' /\ ParkedOK' /\ LogOK'
    BY <1>2 DEF ProposeFollower, TypeInv, TypeOK, WorkerOK, ParkedOK, LogOK, boardVars, raftVars, execVars
  <2> QED BY <2>3, <2>4 DEF TypeInv
<1>3. CASE ProposeLeader(s, c)
  <2>3. TypeOK'
    BY <1>3 DEF ProposeLeader, TypeInv, TypeOK, ProposePC, boardVars
  <2>4. WorkerOK' /\ ParkedOK' /\ LogOK'
    BY <1>3 DEF ProposeLeader, TypeInv, TypeOK, WorkerOK, ParkedOK, LogOK, boardVars
  <2> QED BY <2>3, <2>4 DEF TypeInv
<1>4. CASE WaitForEr(s, c)
  <2>1. board[s].erBuffer[c.id] # Nil => board[s].erBuffer[c.id] \in Content
    BY <1>0 DEF Board
  <2>2. CASE board[s].erBuffer[c.id] # Nil
    <3>1. Answer(s, c, board[s].erBuffer[c.id]) /\ UNCHANGED boardVars
      BY <1>4, <2>2 DEF WaitForEr
    <3>2. TypeOK'
      BY <1>4, <1>r, <2>1, <2>2, <3>1 DEF WaitForEr, TypeInv, TypeOK, boardVars, raftVars, execVars
    <3>3. WorkerOK' /\ ParkedOK' /\ LogOK'
      <4>1. /\ UNCHANGED <<board, worker, applied, log, logState>>
            /\ propose' = [propose EXCEPT ![s][c].pc = "done"]
        BY <1>4, <3>1 DEF WaitForEr, Answer, boardVars, raftVars, execVars
      <4>2. WorkerOK' /\ LogOK'
        BY <4>1 DEF TypeInv, WorkerOK, LogOK
      <4>3. propose \in [Server -> [Command -> [pc : ProposePC, isConflict : BOOLEAN]]]
        BY DEF TypeInv, TypeOK
      <4>4. ParkedOK'
        BY <4>1, <4>3 DEF TypeInv, ParkedOK
      <4> QED BY <4>2, <4>4
    <3> QED BY <3>2, <3>3 DEF TypeInv
  <2>3. CASE board[s].erBuffer[c.id] = Nil
    <3>1. /\ propose' = [propose EXCEPT ![s][c].pc = "parked"]
          /\ board' = [board EXCEPT ![s] = ParkForEr(@, c.id)]
          /\ UNCHANGED reply
      BY <1>4, <2>3 DEF WaitForEr
    <3>2. /\ ParkForEr(board[s], c.id) \in Board
          /\ ParkForEr(board[s], c.id).erBuffer = board[s].erBuffer
          /\ ParkForEr(board[s], c.id).erNotifiers[c.id] # Nil
          /\ \A i \in ProposeId : board[s].erNotifiers[i] # Nil
                 => ParkForEr(board[s], c.id).erNotifiers[i] # Nil
      <4>1. /\ ParkForEr(board[s], c.id) \in Board
            /\ ParkForEr(board[s], c.id).erBuffer = board[s].erBuffer
        BY <1>0, BoardWaitType
      <4>2. /\ ParkForEr(board[s], c.id).erNotifiers[c.id] # Nil
            /\ \A i \in ProposeId : board[s].erNotifiers[i] # Nil
                 => ParkForEr(board[s], c.id).erNotifiers[i] # Nil
        BY <1>0, NotifierStays
      <4> QED BY <4>1, <4>2
    <3>3. TypeOK'
      <4>1. propose' \in [Server -> [Command -> [pc : ProposePC, isConflict : BOOLEAN]]]
        BY <3>1, ProposeType DEF TypeInv, ProposePC
      <4> QED BY <1>4, <3>1, <3>2, <4>1 DEF WaitForEr, TypeInv, TypeOK, raftVars, execVars
    <3>4. WorkerOK' /\ LogOK'
      BY <1>4, <3>1, <3>2 DEF WaitForEr, TypeInv, TypeOK, WorkerOK, LogOK, raftVars, execVars
    <3>5. ParkedOK'
      BY <1>4, <3>1, <3>2 DEF WaitForEr, TypeInv, TypeOK, ParkedOK
    <3> QED BY <3>3, <3>4, <3>5 DEF TypeInv
  <2> QED BY <2>2, <2>3
<1>5. CASE ReceiveEr(s, c)
  <2>1. board[s].erNotifiers[c.id][1] \in Content
    BY <1>0, <1>5 DEF ReceiveEr, TypeInv, ParkedOK, Board
  <2>2. /\ DrainEr(board[s], c.id) \in Board
        /\ DrainEr(board[s], c.id).erBuffer = board[s].erBuffer
        /\ \A i \in ProposeId : board[s].erNotifiers[i] # Nil
                 => DrainEr(board[s], c.id).erNotifiers[i] # Nil
    <3>1. /\ DrainEr(board[s], c.id) \in Board
          /\ DrainEr(board[s], c.id).erBuffer = board[s].erBuffer
      BY <1>0, BoardWaitType
    <3>2. \A i \in ProposeId : board[s].erNotifiers[i] # Nil
                 => DrainEr(board[s], c.id).erNotifiers[i] # Nil
      BY <1>0, NotifierStays
    <3> QED BY <3>1, <3>2
  <2>3. TypeOK'
    BY <1>5, <1>r, <2>1, <2>2 DEF ReceiveEr, TypeInv, TypeOK, raftVars, execVars
  <2>4. WorkerOK' /\ LogOK'
    BY <1>5, <2>2 DEF ReceiveEr, TypeInv, TypeOK, WorkerOK, LogOK, raftVars, execVars
  <2>5. ParkedOK'
    BY <1>5, <2>2 DEF ReceiveEr, Answer, TypeInv, TypeOK, ParkedOK
  <2> QED BY <2>3, <2>4, <2>5 DEF TypeInv
<1> QED BY <1>1, <1>2, <1>3, <1>4, <1>5

\* WaitSynced's steps.
LEMMA TypeInvSync ==
    ASSUME TypeInv, NEW s \in Server, NEW c \in Command,
           WaitForAsr(s, c) \/ ReceiveAsr(s, c) \/ FinishAsr(s, c)
    PROVE  TypeInv'
<1> USE CommandFacts
<1>0. board[s] \in Board
  BY DEF TypeInv, TypeOK
<1>1. /\ ParkForAsr(board[s], c.id) \in Board
      /\ ParkForAsr(board[s], c.id).erBuffer = board[s].erBuffer
      /\ ParkForAsr(board[s], c.id).erNotifiers = board[s].erNotifiers
  BY <1>0, BoardWaitType
<1>2. /\ DrainAsr(board[s], c.id) \in Board
      /\ DrainAsr(board[s], c.id).erBuffer = board[s].erBuffer
      /\ DrainAsr(board[s], c.id).erNotifiers = board[s].erNotifiers
  BY <1>0, BoardWaitType
<1>3. /\ Forget(board[s], c.id) \in Board
      /\ Forget(board[s], c.id).erNotifiers = board[s].erNotifiers
  BY <1>0, BoardWaitType
<1>4. board[s].erBuffer[c.id] # Nil => board[s].erBuffer[c.id] \in Content
  BY <1>0 DEF Board
<1>5. ASSUME NEW r \in Content, NEW p \in SyncPC,
             waitSynced' = [waitSynced EXCEPT ![s][c] = p],
             \/ syncReply' = [syncReply EXCEPT ![s][c] = r]
             \/ syncReply' = syncReply
      PROVE  /\ waitSynced' \in [Server -> [Command -> SyncPC]]
             /\ syncReply' \in [Server -> [Command -> Content \cup {Nil}]]
  <2>1. /\ waitSynced \in [Server -> [Command -> SyncPC]]
        /\ syncReply \in [Server -> [Command -> Content \cup {Nil}]]
    BY DEF TypeInv, TypeOK
  <2>2. waitSynced' \in [Server -> [Command -> SyncPC]]
    BY <1>5, <2>1
  <2>3. [syncReply EXCEPT ![s][c] = r] \in [Server -> [Command -> Content \cup {Nil}]]
    BY <2>1
  <2> QED BY <1>5, <2>1, <2>2, <2>3
<1>6. CASE WaitForAsr(s, c) /\ AsrReady(board[s], c.id)
  <2>1. /\ waitSynced' = [waitSynced EXCEPT ![s][c] = "done"]
        /\ syncReply' = [syncReply EXCEPT ![s][c] = board[s].erBuffer[c.id]]
        /\ board' = [board EXCEPT ![s] = Forget(@, c.id)]
        /\ board[s].erBuffer[c.id] \in Content
        /\ BoardFree(s)
        /\ UNCHANGED <<witness, propose, reply, raftVars, execVars>>
    BY <1>4, <1>6 DEF WaitForAsr, AsrReady
  <2>2. TypeOK'
    <3>1. /\ waitSynced' \in [Server -> [Command -> SyncPC]]
          /\ syncReply' \in [Server -> [Command -> Content \cup {Nil}]]
      BY <1>5, <2>1 DEF SyncPC
    <3> QED BY <1>3, <2>1, <3>1 DEF TypeInv, TypeOK, raftVars, execVars
  <2>3. WorkerOK' /\ ParkedOK' /\ LogOK'
    BY <1>3, <2>1 DEF TypeInv, TypeOK, WorkerOK, ParkedOK, LogOK, BoardFree, raftVars, execVars
  <2> QED BY <2>2, <2>3 DEF TypeInv
<1>7. CASE WaitForAsr(s, c) /\ ~AsrReady(board[s], c.id)
  <2>1. /\ waitSynced' = [waitSynced EXCEPT ![s][c] = "parked"]
        /\ board' = [board EXCEPT ![s] = ParkForAsr(@, c.id)]
        /\ UNCHANGED <<syncReply, witness, propose, reply, raftVars, execVars>>
    BY <1>7 DEF WaitForAsr
  <2>2. TypeOK'
    BY <1>1, <2>1 DEF TypeInv, TypeOK, SyncPC, raftVars, execVars
  <2>3. WorkerOK' /\ ParkedOK' /\ LogOK'
    <3>1. UNCHANGED <<propose, worker, applied, log, logState>>
      BY <2>1 DEF raftVars, execVars
    <3>2. \A t \in Server : /\ board'[t].erBuffer = board[t].erBuffer
                            /\ board'[t].erNotifiers = board[t].erNotifiers
      BY <1>1, <2>1 DEF TypeInv, TypeOK
    <3>3. WorkerOK'
      BY <3>1, <3>2 DEF TypeInv, WorkerOK
    <3>4. ParkedOK' /\ LogOK'
      BY <3>1, <3>2 DEF TypeInv, ParkedOK, LogOK
    <3> QED BY <3>3, <3>4
  <2> QED BY <2>2, <2>3 DEF TypeInv
<1>8. CASE ReceiveAsr(s, c)
  <2>2. TypeOK'
    BY <1>2, <1>8 DEF ReceiveAsr, TypeInv, TypeOK, SyncPC, raftVars, execVars
  <2>3. WorkerOK' /\ ParkedOK' /\ LogOK'
    BY <1>2, <1>8 DEF ReceiveAsr, TypeInv, TypeOK, WorkerOK, ParkedOK, LogOK, raftVars, execVars
  <2> QED BY <2>2, <2>3 DEF TypeInv
<1>9. CASE FinishAsr(s, c)
  <2>1. PICK r \in Content : syncReply' = [syncReply EXCEPT ![s][c] = r]
    BY <1>4, <1>9 DEF FinishAsr, Content
  <2>2. TypeOK'
    <3>1. /\ waitSynced' \in [Server -> [Command -> SyncPC]]
          /\ syncReply' \in [Server -> [Command -> Content \cup {Nil}]]
      BY <1>5, <1>9, <2>1 DEF FinishAsr, SyncPC
    <3> QED BY <1>3, <1>9, <3>1 DEF FinishAsr, TypeInv, TypeOK, raftVars, execVars
  <2>3. WorkerOK' /\ ParkedOK' /\ LogOK'
    BY <1>3, <1>9 DEF FinishAsr, TypeInv, TypeOK, WorkerOK, ParkedOK, LogOK, BoardFree, raftVars, execVars
  <2> QED BY <2>2, <2>3 DEF TypeInv
<1> QED BY <1>6, <1>7, <1>8, <1>9

\* Raft and the listener of its state.
LEMMA TypeInvRaft ==
    ASSUME TypeInv, NEW s \in Server, RaftStep(s)
    PROVE  TypeInv'
<1>1. CASE \E state \in RaftState : ListenRaftState(s, state)
  <2>1. TypeOK'
    BY <1>1 DEF ListenRaftState, TypeInv, TypeOK, boardVars, handlerVars, execVars
  <2>2. WorkerOK' /\ ParkedOK' /\ LogOK'
    BY <1>1 DEF ListenRaftState, TypeInv, TypeOK, WorkerOK, ParkedOK, LogOK, boardVars, handlerVars, execVars
  <2> QED BY <2>1, <2>2 DEF TypeInv
<1>2. CASE \E c \in Command : RaftCommit(s, c)
  <2>1. PICK c \in Command : RaftCommit(s, c)
    BY <1>2
  <2>2. /\ log \in Seq(Command) /\ logState \in Seq(Store)
        /\ Len(logState) = Len(log) + 1 /\ Len(log) \in Nat
        /\ logState[Len(logState)] \in Store
    BY DEF TypeInv, TypeOK, LogOK
  <2>3. Meaning(logState[Len(logState)], c) \in Store
    BY <2>2, ExecuteIsMeaning
  <2>4. TypeOK'
    BY <2>1, <2>2, <2>3 DEF RaftCommit, TypeInv, TypeOK, boardVars, handlerVars, execVars
  <2>5. /\ Len(log') = Len(log) + 1 /\ Len(logState') = Len(logState) + 1
        /\ \A i \in 1..Len(log) : log'[i] = log[i]
        /\ log'[Len(log) + 1] = c
        /\ \A i \in 1..Len(logState) : logState'[i] = logState[i]
        /\ logState'[Len(logState) + 1] = Meaning(logState[Len(logState)], c)
    BY <2>1, <2>2, <2>3 DEF RaftCommit
  <2>6. LogOK'
    BY <2>1, <2>2, <2>5 DEF RaftCommit, TypeInv, TypeOK, LogOK, execVars
  <2>7. WorkerOK' /\ ParkedOK'
    BY <2>1, <2>2, <2>5 DEF RaftCommit, TypeInv, TypeOK, WorkerOK, ParkedOK, boardVars, handlerVars, execVars
  <2> QED BY <2>4, <2>6, <2>7 DEF TypeInv
<1>3. CASE \E c \in Command : RaftDrop(s, c)
  <2>1. TypeOK'
    BY <1>3 DEF RaftDrop, TypeInv, TypeOK, boardVars, handlerVars, execVars
  <2>2. WorkerOK' /\ ParkedOK' /\ LogOK'
    BY <1>3 DEF RaftDrop, TypeInv, TypeOK, WorkerOK, ParkedOK, LogOK, boardVars, handlerVars, execVars
  <2> QED BY <2>1, <2>2 DEF TypeInv
<1> QED BY <1>1, <1>2, <1>3 DEF RaftStep

\* The worker's steps.
LEMMA TypeInvWorker ==
    ASSUME TypeInv, NEW s \in Server, WorkerStep(s)
    PROVE  TypeInv'
<1> USE CommandFacts
<1>0. board[s] \in Board /\ kv[s] \in Store
  BY DEF TypeInv, TypeOK
<1>1. CASE \E c \in Command : FastSkip(s, c)
  <2>1. TypeOK'
    BY <1>1 DEF FastSkip, TypeInv, TypeOK, boardVars, handlerVars, raftVars
  <2>2. WorkerOK' /\ ParkedOK' /\ LogOK'
    BY <1>1 DEF FastSkip, TypeInv, TypeOK, WorkerOK, ParkedOK, LogOK, boardVars, handlerVars, raftVars
  <2> QED BY <2>1, <2>2 DEF TypeInv
<1>2. CASE \E c \in Command : FastExecute(s, c)
  <2>1. PICK c \in Command : FastExecute(s, c)
    BY <1>2
  <2> DEFINE r == ExecuteSyncResult(kv[s], c)
  <2>2. r \in Content /\ ExecuteSync(kv[s], c) \in Store /\ r # Nil
    BY <1>0, ExecuteIsMeaning, NilAssumption
  <2> HIDE DEF r
  <2>3. /\ InsertEr(board[s], c.id, r) \in Board
        /\ InsertEr(board[s], c.id, r).erBuffer = [board[s].erBuffer EXCEPT ![c.id] = r]
        /\ InsertEr(board[s], c.id, r).erNotifiers = board[s].erNotifiers
    BY <1>0, <2>2, BoardInsertType
  <2>4. board' = [board EXCEPT ![s] = InsertEr(board[s], c.id, r)]
    BY <2>1 DEF FastExecute, r
  <2>5. TypeOK'
    BY <2>1, <2>2, <2>3, <2>4 DEF FastExecute, TypeInv, TypeOK, WorkerPC, handlerVars, raftVars
  <2>6. board'[s].erBuffer[c.id] # Nil
    <3>1. DOMAIN board[s].erBuffer = ProposeId /\ board'[s] = InsertEr(board[s], c.id, r)
      BY <1>0, <2>4 DEF Board, TypeInv, TypeOK
    <3> QED BY <2>2, <2>3, <3>1
  <2>7. WorkerOK'
    BY <2>1, <2>4, <2>6 DEF FastExecute, TypeInv, TypeOK, WorkerOK, handlerVars, raftVars
  <2>8. ParkedOK' /\ LogOK'
    BY <2>1, <2>3, <2>4 DEF FastExecute, TypeInv, TypeOK, ParkedOK, LogOK, handlerVars, raftVars
  <2> QED BY <2>5, <2>7, <2>8 DEF TypeInv
<1>3. CASE SendEr(s)
  <2>1. PICK id \in ProposeId : id = worker[s].cmd.id
    BY <1>3 DEF SendEr, TypeInv, WorkerOK
  <2>2. board[s].erBuffer[id] # Nil
    BY <1>3, <2>1 DEF SendEr, TypeInv, WorkerOK
  <2>3. /\ NotifyEr(board[s], id) \in Board
        /\ NotifyEr(board[s], id).erBuffer = board[s].erBuffer
        /\ NotifyEr(board[s], id).erNotifiers
               = [board[s].erNotifiers EXCEPT ![id] = <<board[s].erBuffer[id]>>]
    BY <1>0, <2>2, BoardNotifyType
  <2>4. board' = [board EXCEPT ![s] = NotifyEr(board[s], id)]
    BY <1>3, <2>1 DEF SendEr
  <2>5. TypeOK'
    BY <1>3, <2>3, <2>4 DEF SendEr, Idle, TypeInv, TypeOK, WorkerPC, handlerVars, raftVars
  <2>6. WorkerOK' /\ LogOK'
    BY <1>3, <2>3, <2>4 DEF SendEr, Idle, TypeInv, TypeOK, WorkerOK, LogOK, handlerVars, raftVars
  <2>7. ASSUME NEW i \in ProposeId, board[s].erNotifiers[i] # Nil
        PROVE  board'[s].erNotifiers[i] # Nil
    <3>1. PICK T : board[s].erNotifiers \in [ProposeId -> T]
      BY <1>0 DEF Board
    <3>2. board[s].erNotifiers[id] = <<>>
      BY <1>3, <2>1 DEF SendEr, CanSend
    <3>3. board'[s].erNotifiers = [board[s].erNotifiers EXCEPT ![id] = <<board[s].erBuffer[id]>>]
      BY <2>3, <2>4 DEF TypeInv, TypeOK
    <3>4. <<board[s].erBuffer[id]>> # Nil
      <4>1. board[s].erBuffer[id] \in Content
        BY <1>0, <2>2 DEF Board
      <4> QED BY <4>1, NilAssumption
    <3> QED BY <2>7, <3>1, <3>3, <3>4
  <2>8. ParkedOK'
    BY <1>3, <2>4, <2>7 DEF SendEr, TypeInv, TypeOK, ParkedOK, handlerVars
  <2> QED BY <2>5, <2>6, <2>8 DEF TypeInv
<1>4. CASE SlowReceive(s)
  <2>1. log[applied[s] + 1] \in Command
    BY <1>4 DEF SlowReceive, TypeInv, TypeOK
  <2>2. TypeOK'
    BY <1>4, <2>1 DEF SlowReceive, TypeInv, TypeOK, WorkerPC, boardVars, handlerVars, raftVars
  <2>3. WorkerOK' /\ ParkedOK' /\ LogOK'
    BY <1>4, <2>1 DEF SlowReceive, TypeInv, TypeOK, WorkerOK, ParkedOK, LogOK, boardVars, handlerVars, raftVars
  <2> QED BY <2>2, <2>3 DEF TypeInv
<1>5. CASE SlowExecute(s)
  <2>1. PICK c \in Command : c = worker[s].cmd /\ c = log[applied[s] + 1] /\ applied[s] < Len(log)
    BY <1>5 DEF SlowExecute, TypeInv, WorkerOK
  <2>2. ExecuteAsync(kv[s], c) \in Store
    BY <1>0, ExecuteIsMeaning
  <2>3. /\ InsertAsr(board[s], c.id) \in Board
        /\ InsertAsr(board[s], c.id).erBuffer = board[s].erBuffer
        /\ InsertAsr(board[s], c.id).erNotifiers = board[s].erNotifiers
    BY <1>0, BoardInsertType DEF Content
  <2>w. PICK p \in {"notifyAsr", "removeRecord"} : worker' = [worker EXCEPT ![s].pc = p]
    BY <1>5, <2>1 DEF SlowExecute
  <2>4. TypeOK'
    <3>1. worker' \in [Server -> [pc : WorkerPC, cmd : Command \cup {Nil}, isLeader : BOOLEAN]]
      BY <2>w, ZenonT(40) DEF TypeInv, TypeOK, WorkerPC
    <3>2. /\ kv' \in [Server -> Store] /\ commandSet' \in [Server -> SUBSET ProposeId]
          /\ executed' \in [Server -> SUBSET Command]
      <4>1. CASE UNCHANGED <<kv, commandSet, executed>>
        BY <4>1 DEF TypeInv, TypeOK
      <4>2. CASE /\ commandSet' = [commandSet EXCEPT ![s] = @ \cup {c.id}]
                 /\ kv' = [kv EXCEPT ![s] = ExecuteAsync(@, c)]
                 /\ executed' = [executed EXCEPT ![s] = @ \cup {c}]
        BY <2>2, <4>2 DEF TypeInv, TypeOK
      <4> QED BY <1>5, <2>1, <4>1, <4>2 DEF SlowExecute
    <3>3. applied' \in [Server -> Nat] /\ speculative' \in [Server -> SUBSET Key]
      BY <1>5 DEF SlowExecute, TypeInv, TypeOK
    <3>4. board' \in [Server -> Board]
      BY <1>5, <2>1, <2>3 DEF SlowExecute, TypeInv, TypeOK
    <3> QED BY <1>5, <3>1, <3>2, <3>3, <3>4 DEF SlowExecute, TypeInv, TypeOK, handlerVars, raftVars
  <2>5. ParkedOK'
    BY <1>5, <2>1, <2>3 DEF SlowExecute, TypeInv, TypeOK, ParkedOK, handlerVars
  <2>6. LogOK'
    BY <1>5, <2>1 DEF SlowExecute, TypeInv, TypeOK, LogOK, raftVars
  <2>7. WorkerOK'
    <3>1. /\ worker'[s].cmd = c /\ worker'[s].pc \in {"notifyAsr", "removeRecord"}
          /\ applied'[s] = applied[s] + 1 /\ log' = log
          /\ \A t \in Server \ {s} : /\ worker'[t] = worker[t] /\ applied'[t] = applied[t]
                                     /\ board'[t] = board[t]
      <4>1. worker'[s].cmd = c /\ worker'[s].pc = p
        BY <2>1, <2>w, ZenonT(40) DEF TypeInv, TypeOK
      <4>2. \A t \in Server \ {s} : worker'[t] = worker[t]
        BY <2>w DEF TypeInv, TypeOK
      <4> QED BY <1>5, <4>1, <4>2 DEF SlowExecute, TypeInv, TypeOK, raftVars
    <3>2. ASSUME NEW t \in Server, t # s
          PROVE  WorkerOK!(t)'
      BY <3>1, <3>2 DEF TypeInv, WorkerOK
    <3>3. applied'[s] \in 1..Len(log) /\ log[applied'[s]] = c
      BY <2>1, <3>1 DEF TypeInv, TypeOK
    <3> QED BY <3>1, <3>2, <3>3 DEF WorkerOK
  <2> QED BY <2>4, <2>5, <2>6, <2>7 DEF TypeInv
<1>6. CASE SendAsr(s)
  <2>1. PICK id \in ProposeId : id = worker[s].cmd.id
    BY <1>6 DEF SendAsr, TypeInv, WorkerOK
  <2>2. /\ NotifyAsr(board[s], id) \in Board
        /\ NotifyAsr(board[s], id).erBuffer = board[s].erBuffer
        /\ NotifyAsr(board[s], id).erNotifiers = board[s].erNotifiers
    BY <1>0, BoardNotifyType
  <2>3. TypeOK'
    BY <1>6, <2>1, <2>2, ZenonT(40) DEF SendAsr, TypeInv, TypeOK, WorkerPC, handlerVars, raftVars
  <2>4. WorkerOK' /\ ParkedOK' /\ LogOK'
    <3>1. /\ board' = [board EXCEPT ![s] = NotifyAsr(board[s], id)]
          /\ worker' = [worker EXCEPT ![s].pc = "removeRecord"] /\ worker[s].pc = "notifyAsr"
          /\ UNCHANGED <<propose, applied, log, logState>>
      BY <1>6, <2>1 DEF SendAsr, handlerVars, raftVars
    <3>2. /\ \A t \in Server : /\ board'[t].erBuffer = board[t].erBuffer
                               /\ board'[t].erNotifiers = board[t].erNotifiers
                               /\ t # s => worker'[t] = worker[t]
          /\ worker'[s].pc = "removeRecord" /\ worker'[s].cmd = worker[s].cmd
      BY <2>2, <3>1 DEF TypeInv, TypeOK
    <3>3. WorkerOK'
      BY <3>1, <3>2 DEF TypeInv, WorkerOK
    <3>4. ParkedOK' /\ LogOK'
      BY <3>1, <3>2 DEF TypeInv, ParkedOK, LogOK
    <3> QED BY <3>3, <3>4
  <2> QED BY <2>3, <2>4 DEF TypeInv
<1>7. CASE RemoveRecord(s)
  <2>1. Remove(witness[s], worker[s].cmd.id) \in SUBSET Command
    BY DEF Remove, TypeInv, TypeOK
  <2>2. TypeOK'
    BY <1>7, <2>1 DEF RemoveRecord, Idle, TypeInv, TypeOK, WorkerPC, boardVars, handlerVars, raftVars
  <2>3. WorkerOK' /\ ParkedOK' /\ LogOK'
    BY <1>7 DEF RemoveRecord, Idle, TypeInv, TypeOK, WorkerOK, ParkedOK, LogOK, boardVars, handlerVars, raftVars
  <2> QED BY <2>2, <2>3 DEF TypeInv
<1> QED BY <1>1, <1>2, <1>3, <1>4, <1>5, <1>6, <1>7 DEF WorkerStep

LEMMA TypeInvNext == TypeInv /\ [Next]_vars => TypeInv'
<1> SUFFICES ASSUME TypeInv, [Next]_vars PROVE TypeInv'
  OBVIOUS
<1>1. ASSUME NEW s \in Server, NEW c \in Command, HandlerStep(s, c)
      PROVE  TypeInv'
  BY <1>1, TypeInvPropose, TypeInvSync DEF HandlerStep
<1>2. CASE UNCHANGED vars
  BY <1>2 DEF TypeInv, TypeOK, WorkerOK, ParkedOK, LogOK, vars, boardVars,
     handlerVars, raftVars, execVars
<1> QED BY <1>1, <1>2, TypeInvWorker, TypeInvRaft DEF Next

\* Every reachable state has the types that the fields of StateMachine,
\* CommandBoard and Witness have in Go.
THEOREM TypeCorrect == Spec => []TypeOK
<1>1. TypeInv => TypeOK
  BY DEF TypeInv
<1> QED BY <1>1, TypeInvInit, TypeInvNext, PTL DEF Spec

LEMMA TypeInvAlways == Spec => []TypeInv
BY TypeInvInit, TypeInvNext, PTL DEF Spec

-----------------------------------------------------------------------------
(* The witness.                                                            *)

\* curp_proto.Conflict finds every pair of commands that interfere, and no
\* other: it is the test that lets records be replayed in any order.
THEOREM ConflictIsInterference ==
    ASSUME NEW c1 \in Command, NEW c2 \in Command
    PROVE  Conflict(c1, c2) <=> Interferes(c1, c2)
BY CommandFacts DEF Conflict, Interferes, Writes, Op

\* Commands that do not conflict commute: executed in either order they
\* leave the same store, and neither changes what the other returns.
THEOREM NoConflictCommutes ==
    ASSUME NEW c1 \in Command, NEW c2 \in Command, ~Conflict(c1, c2),
           NEW st \in Store
    PROVE  /\ ExecuteSync(ExecuteSync(st, c1), c2) = ExecuteSync(ExecuteSync(st, c2), c1)
           /\ ExecuteSyncResult(ExecuteSync(st, c1), c2) = ExecuteSyncResult(st, c2)
<1>0. /\ c1.op \in Op /\ c2.op \in Op /\ c1.key \in Key /\ c2.key \in Key
  BY CommandFacts
<1>1. /\ Meaning(st, c1) \in Store /\ Meaning(st, c2) \in Store
      /\ ExecuteSync(st, c1) = Meaning(st, c1)
      /\ ExecuteSync(st, c2) = Meaning(st, c2)
  BY ExecuteIsMeaning
<1>2. /\ ExecuteSync(Meaning(st, c1), c2) = Meaning(Meaning(st, c1), c2)
      /\ ExecuteSync(Meaning(st, c2), c1) = Meaning(Meaning(st, c2), c1)
  BY <1>1, ExecuteIsMeaning
<1>3. ASSUME NEW k \in Key
      PROVE  Meaning(Meaning(st, c1), c2)[k] = Meaning(Meaning(st, c2), c1)[k]
  BY <1>0 DEF Meaning, Writes, Conflict, Op
<1>4. Meaning(Meaning(st, c1), c2) = Meaning(Meaning(st, c2), c1)
  BY <1>3 DEF Meaning
<1>5. ExecuteSyncResult(Meaning(st, c1), c2) = ExecuteSyncResult(st, c2)
  <2>1. CASE c2.op # "GET"
    BY <2>1 DEF ExecuteSyncResult
  <2>2. CASE c2.op = "GET"
    <3>1. ~Writes(c1, c2.key)
      BY <1>0, <2>2 DEF Conflict, Writes, Op
    <3>2. Meaning(st, c1)[c2.key] = st[c2.key]
      BY <1>0, <3>1, ExecuteIsMeaning
    <3> QED BY <3>2 DEF ExecuteSyncResult, Get
  <2> QED BY <2>1, <2>2
<1> QED BY <1>1, <1>2, <1>4, <1>5

\* Only Propose and removeRecord touch a witness.
LEMMA WitnessSteps ==
    ASSUME [Next]_vars
    PROVE  \/ witness' = witness
           \/ \E s \in Server, c \in Command : ProposeInsert(s, c)
           \/ \E s \in Server : RemoveRecord(s)
<1>1. ASSUME NEW s \in Server, NEW c \in Command, HandlerStep(s, c)
      PROVE  witness' = witness \/ ProposeInsert(s, c)
  BY <1>1 DEF HandlerStep, ProposeFollower, ProposeLeader, WaitForEr, ReceiveEr,
     WaitForAsr, ReceiveAsr, FinishAsr
<1>2. ASSUME NEW s \in Server, WorkerStep(s)
      PROVE  witness' = witness \/ RemoveRecord(s)
  BY <1>2 DEF WorkerStep, FastSkip, FastExecute, SendEr, SlowReceive, SlowExecute, SendAsr
<1>3. ASSUME NEW s \in Server, RaftStep(s)
      PROVE  witness' = witness
  BY <1>3 DEF RaftStep, ListenRaftState, RaftCommit, RaftDrop
<1> QED BY <1>1, <1>2, <1>3 DEF Next, vars

\* The records of every witness commute, for any number of servers and
\* commands, whether ids are unique or not.
THEOREM WitnessSafe == Spec => []WitnessCommutes
<1>1. Init => WitnessCommutes
  BY DEF Init, WitnessCommutes, NewWitness
<1>2. TypeInv /\ WitnessCommutes /\ [Next]_vars => WitnessCommutes'
  <2> SUFFICES ASSUME TypeInv, WitnessCommutes, [Next]_vars
               PROVE  WitnessCommutes'
    OBVIOUS
  <2>1. CASE witness' = witness
    BY <2>1 DEF WitnessCommutes
  <2>2. ASSUME NEW s \in Server, NEW c \in Command, ProposeInsert(s, c)
        PROVE  WitnessCommutes'
    <3>1. \A t \in Server : witness[t] \subseteq Command
      BY DEF TypeInv, TypeOK
    <3>2. witness' = [witness EXCEPT ![s] = InsertIfNotConflict(witness[s], c)]
      BY <2>2 DEF ProposeInsert
    <3>3. \A t \in Server : t # s => witness'[t] = witness[t]
      BY <3>2 DEF TypeInv, TypeOK
    <3>4. CASE HasConflictWith(witness[s], c)
      <4>1. witness'[s] = witness[s]
        BY <3>2, <3>4 DEF InsertIfNotConflict, TypeInv, TypeOK
      <4> QED BY <3>3, <4>1 DEF WitnessCommutes
    <3>5. CASE ~HasConflictWith(witness[s], c)
      <4>1. witness'[s] = {d \in witness[s] : d.id # c.id} \cup {c}
        BY <3>2, <3>5 DEF InsertIfNotConflict, TypeInv, TypeOK
      <4>2. \A d \in witness[s] : ~Interferes(d, c) /\ ~Interferes(c, d)
        <5>1. \A d \in witness[s] : ~Conflict(d, c)
          BY <3>5 DEF HasConflictWith
        <5>2. \A d \in witness[s] : ~Conflict(c, d)
          BY <5>1 DEF Conflict
        <5> QED BY <3>1, <5>1, <5>2, ConflictIsInterference
      <4> QED BY <3>3, <4>1, <4>2 DEF WitnessCommutes
    <3> QED BY <3>4, <3>5
  <2>3. ASSUME NEW s \in Server, RemoveRecord(s)
        PROVE  WitnessCommutes'
    <3>1. \A t \in Server : witness'[t] \subseteq witness[t]
      BY <2>3 DEF RemoveRecord, Remove, TypeInv, TypeOK
    <3> QED BY <3>1 DEF WitnessCommutes
  <2> QED BY <2>1, <2>2, <2>3, WitnessSteps
<1> QED BY <1>1, <1>2, TypeInvAlways, PTL DEF Spec

\* A handler is accepted in its first step or not at all.
LEMMA AcceptedSteps ==
    ASSUME TypeInv, [Next]_vars, NEW t \in Server, NEW d \in Command,
           AcceptedAt(t, d)'
    PROVE  \/ AcceptedAt(t, d)
           \/ ProposeInsert(t, d) /\ ~HasConflictWith(witness[t], d)
<1>0. propose \in [Server -> [Command -> [pc : ProposePC, isConflict : BOOLEAN]]]
  BY DEF TypeInv, TypeOK
<1>1. ASSUME NEW s \in Server, NEW c \in Command, ProposeInsert(s, c)
      PROVE  AcceptedAt(t, d) \/ (s = t /\ c = d /\ ~HasConflictWith(witness[t], d))
  BY <1>0, <1>1 DEF ProposeInsert, AcceptedAt
<1>2. ASSUME NEW s \in Server, NEW c \in Command, NEW p \in ProposePC,
             propose[s][c].pc # "idle",
             propose' = [propose EXCEPT ![s][c].pc = p]
      PROVE  AcceptedAt(t, d)
  BY <1>0, <1>2 DEF AcceptedAt
<1>3. ASSUME propose' = propose
      PROVE  AcceptedAt(t, d)
  BY <1>3 DEF AcceptedAt
<1>4. ASSUME NEW s \in Server, NEW c \in Command, HandlerStep(s, c)
      PROVE  \/ ProposeInsert(s, c)
             \/ propose' = propose
             \/ /\ propose[s][c].pc # "idle"
                /\ \E p \in ProposePC : propose' = [propose EXCEPT ![s][c].pc = p]
  BY <1>4 DEF HandlerStep, ProposeFollower, ProposeLeader, WaitForEr, ReceiveEr,
     WaitForAsr, ReceiveAsr, FinishAsr, Answer, ProposePC
<1>5. ASSUME NEW s \in Server, WorkerStep(s)
      PROVE  propose' = propose
  BY <1>5 DEF WorkerStep, FastSkip, FastExecute, SendEr, SlowReceive, SlowExecute,
     SendAsr, RemoveRecord, handlerVars
<1>6. ASSUME NEW s \in Server, RaftStep(s)
      PROVE  propose' = propose
  BY <1>6 DEF RaftStep, ListenRaftState, RaftCommit, RaftDrop, handlerVars
<1> QED BY <1>1, <1>2, <1>3, <1>4, <1>5, <1>6 DEF Next, vars, handlerVars

\* What a server has applied stays applied.
LEMMA AppliedGrows ==
    ASSUME TypeInv, [Next]_vars, NEW t \in Server
    PROVE  AppliedAt(t) \subseteq AppliedAt(t)'
<1>0. log \in Seq(Command) /\ applied \in [Server -> Nat] /\ applied[t] <= Len(log)
  BY DEF TypeInv, TypeOK, LogOK
<1>1. CASE log' = log /\ applied' = applied
  BY <1>1 DEF AppliedAt
<1>2. ASSUME NEW s \in Server, SlowExecute(s)
      PROVE  AppliedAt(t) \subseteq AppliedAt(t)'
  <2>1. log' = log /\ applied'[t] \in Nat /\ applied[t] <= applied'[t]
    BY <1>0, <1>2 DEF SlowExecute, raftVars
  <2> QED BY <1>0, <2>1 DEF AppliedAt
<1>3. ASSUME NEW s \in Server, NEW c \in Command, RaftCommit(s, c)
      PROVE  AppliedAt(t) \subseteq AppliedAt(t)'
  <2>1. applied' = applied /\ \A i \in 1..Len(log) : log'[i] = log[i]
    BY <1>0, <1>3 DEF RaftCommit, execVars
  <2> QED BY <1>0, <2>1 DEF AppliedAt
<1>4. ASSUME NEW s \in Server, NEW c \in Command, HandlerStep(s, c)
      PROVE  log' = log /\ applied' = applied
  BY <1>4 DEF HandlerStep, ProposeInsert, ProposeFollower, ProposeLeader, WaitForEr,
     ReceiveEr, WaitForAsr, ReceiveAsr, FinishAsr, raftVars, execVars
<1>5. ASSUME NEW s \in Server, WorkerStep(s)
      PROVE  SlowExecute(s) \/ (log' = log /\ applied' = applied)
  BY <1>5 DEF WorkerStep, FastSkip, FastExecute, SendEr, SlowReceive, SendAsr,
     RemoveRecord, raftVars
<1>6. ASSUME NEW s \in Server, RaftStep(s)
      PROVE  (\E c \in Command : RaftCommit(s, c)) \/ (log' = log /\ applied' = applied)
  BY <1>6 DEF RaftStep, ListenRaftState, RaftDrop, execVars
<1> QED BY <1>1, <1>2, <1>3, <1>4, <1>5, <1>6 DEF Next, vars, raftVars, execVars

\* With unique ids, a command accepted by a server is in its witness until
\* the server has applied it.
THEOREM AcceptedRecorded == Spec => []AcceptedIsRecorded
<1>1. Init => AcceptedIsRecorded
  BY DEF Init, AcceptedIsRecorded, AcceptedAt
<1>2. TypeInv /\ AcceptedIsRecorded /\ [Next]_vars => AcceptedIsRecorded'
  <2> SUFFICES ASSUME TypeInv, AcceptedIsRecorded, [Next]_vars, UniqueIds,
                      NEW t \in Server, NEW d \in Command, AcceptedAt(t, d)'
               PROVE  d \in witness'[t] \cup AppliedAt(t)'
    BY DEF AcceptedIsRecorded, UniqueIds
  <2>0. /\ witness \in [Server -> SUBSET Command]
        /\ AppliedAt(t) \subseteq AppliedAt(t)'
    BY AppliedGrows DEF TypeInv, TypeOK
  <2>1. CASE ProposeInsert(t, d) /\ ~HasConflictWith(witness[t], d)
    BY <2>0, <2>1 DEF ProposeInsert, InsertIfNotConflict
  <2>2. CASE AcceptedAt(t, d)
    <3>1. d \in witness[t] \cup AppliedAt(t)
      BY <2>2 DEF AcceptedIsRecorded
    <3>2. CASE d \in AppliedAt(t)
      BY <2>0, <3>2
    <3>3. CASE d \in witness[t]
      <4>1. CASE witness' = witness
        BY <3>3, <4>1
      <4>2. ASSUME NEW s \in Server, NEW c \in Command, ProposeInsert(s, c)
            PROVE  d \in witness'[t]
        BY <2>0, <3>3, <4>2 DEF ProposeInsert, InsertIfNotConflict, UniqueIds
      <4>3. ASSUME NEW s \in Server, RemoveRecord(s)
            PROVE  d \in witness'[t] \cup AppliedAt(t)
        <5>1. CASE s = t
          <6>1. /\ worker[s].cmd \in Command
                /\ applied[s] \in 1..Len(log) /\ worker[s].cmd = log[applied[s]]
            BY <4>3 DEF RemoveRecord, TypeInv, WorkerOK
          <6>2. worker[s].cmd \in AppliedAt(t)
            BY <5>1, <6>1 DEF AppliedAt, TypeInv, TypeOK
          <6>3. CASE d.id = worker[s].cmd.id
            BY <6>1, <6>2, <6>3 DEF UniqueIds
          <6>4. CASE d.id # worker[s].cmd.id
            BY <2>0, <3>3, <4>3, <5>1, <6>4 DEF RemoveRecord, Remove
          <6> QED BY <6>3, <6>4
        <5>2. CASE s # t
          BY <2>0, <3>3, <4>3, <5>2 DEF RemoveRecord
        <5> QED BY <5>1, <5>2
      <4> QED BY <2>0, <4>1, <4>2, <4>3, WitnessSteps
    <3> QED BY <3>1, <3>2, <3>3
  <2> QED BY <2>1, <2>2, AcceptedSteps
<1> QED BY <1>1, <1>2, TypeInvAlways, PTL DEF Spec

\* A server accepts two interfering commands only if it has applied one of
\* them: a consequence of the two theorems on the witness.
THEOREM InterferingOrdered == Spec => []InterferingAcceptsOrdered
<1>1. WitnessCommutes /\ AcceptedIsRecorded => InterferingAcceptsOrdered
  BY DEF WitnessCommutes, AcceptedIsRecorded, InterferingAcceptsOrdered
<1> QED BY <1>1, WitnessSafe, AcceptedRecorded, PTL

-----------------------------------------------------------------------------
(* The store.                                                              *)

\* What a command means at a key depends on that key alone.
LEMMA MeaningAtKey ==
    ASSUME NEW st1 \in Store, NEW st2 \in Store, NEW c \in Command, NEW k \in Key
    PROVE  /\ ~Writes(c, k) => Meaning(st1, c)[k] = st1[k]
           /\ Writes(c, k) => Meaning(st1, c)[k] = Meaning(st2, c)[k]
BY DEF Meaning

\* Only the two executions and Raft's commits concern the store.
LEMMA StoreSteps ==
    ASSUME [Next]_vars
    PROVE  \/ UNCHANGED <<kv, applied, logState, speculative>>
           \/ \E s \in Server, c \in Command : FastExecute(s, c) \/ RaftCommit(s, c)
           \/ \E s \in Server : SlowExecute(s)
<1>1. ASSUME NEW s \in Server, NEW c \in Command, HandlerStep(s, c)
      PROVE  UNCHANGED <<kv, applied, logState, speculative>>
  BY <1>1 DEF HandlerStep, ProposeInsert, ProposeFollower, ProposeLeader, WaitForEr,
     ReceiveEr, WaitForAsr, ReceiveAsr, FinishAsr, raftVars, execVars
<1>2. ASSUME NEW s \in Server, WorkerStep(s)
      PROVE  \/ UNCHANGED <<kv, applied, logState, speculative>>
             \/ \E c \in Command : FastExecute(s, c)
             \/ SlowExecute(s)
  BY <1>2 DEF WorkerStep, FastSkip, SendEr, SlowReceive, SendAsr, RemoveRecord, raftVars
<1>3. ASSUME NEW s \in Server, RaftStep(s)
      PROVE  \/ UNCHANGED <<kv, applied, logState, speculative>>
             \/ \E c \in Command : RaftCommit(s, c)
  BY <1>3 DEF RaftStep, ListenRaftState, RaftDrop, execVars
<1> QED BY <1>1, <1>2, <1>3 DEF Next, vars, raftVars, execVars

\* What cmd_worker says of a command that it finds in commandSet: "command
\* executed before".
CommandSetExecuted ==
    UniqueIds => \A s \in Server, c \in Command :
        c.id \in commandSet[s] => c \in executed[s]

\* With unique ids a server has executed every command whose id it keeps in
\* commandSet, so that whatever its worker skips was executed before.
THEOREM SkipsExecuted == Spec => []CommandSetExecuted
<1>1. Init => CommandSetExecuted
  BY DEF Init, CommandSetExecuted
<1>2. TypeInv /\ CommandSetExecuted /\ [Next]_vars => CommandSetExecuted'
  <2> SUFFICES ASSUME TypeInv, CommandSetExecuted, [Next]_vars, UniqueIds,
                      NEW t \in Server, NEW d \in Command, d.id \in commandSet'[t]
               PROVE  d \in executed'[t]
    BY DEF CommandSetExecuted, UniqueIds
  <2>0. /\ commandSet \in [Server -> SUBSET ProposeId]
        /\ executed \in [Server -> SUBSET Command]
    BY DEF TypeInv, TypeOK
  <2>1. ASSUME executed[t] \subseteq executed'[t], commandSet'[t] \subseteq commandSet[t]
        PROVE  d \in executed'[t]
    BY <2>1 DEF CommandSetExecuted
  <2>2. ASSUME NEW s \in Server, NEW c \in Command,
               commandSet' = [commandSet EXCEPT ![s] = @ \cup {c.id}],
               executed' = [executed EXCEPT ![s] = @ \cup {c}]
        PROVE  d \in executed'[t]
    <3>1. CASE s = t /\ d.id = c.id
      BY <2>0, <2>2, <3>1 DEF UniqueIds
    <3>2. CASE ~(s = t /\ d.id = c.id)
      BY <2>0, <2>2, <3>2 DEF CommandSetExecuted
    <3> QED BY <3>1, <3>2
  <2>3. CASE UNCHANGED <<commandSet, executed>>
    BY <2>1, <2>3
  <2>4. ASSUME NEW s \in Server, NEW c \in Command, HandlerStep(s, c)
        PROVE  UNCHANGED <<commandSet, executed>>
    BY <2>4 DEF HandlerStep, ProposeInsert, ProposeFollower, ProposeLeader, WaitForEr,
       ReceiveEr, WaitForAsr, ReceiveAsr, FinishAsr, execVars
  <2>5. ASSUME NEW s \in Server, WorkerStep(s)
        PROVE  d \in executed'[t]
    <3>1. ASSUME NEW c \in Command, FastExecute(s, c)
          PROVE  d \in executed'[t]
      BY <2>2, <3>1 DEF FastExecute
    <3>2. CASE SlowExecute(s)
      <4>1. worker[s].cmd \in Command
        BY <3>2 DEF SlowExecute, TypeInv, WorkerOK
      <4> QED BY <2>2, <2>3, <3>2, <4>1 DEF SlowExecute
    <3>3. CASE RemoveRecord(s)
      <4>1. executed' = executed /\ commandSet'[t] \subseteq commandSet[t]
        BY <2>0, <3>3 DEF RemoveRecord
      <4> QED BY <2>1, <4>1
    <3>4. CASE (\E c \in Command : FastSkip(s, c)) \/ SendEr(s) \/ SlowReceive(s) \/ SendAsr(s)
      BY <2>3, <3>4 DEF FastSkip, SendEr, SlowReceive, SendAsr
    <3> QED BY <2>5, <3>1, <3>2, <3>3, <3>4 DEF WorkerStep
  <2>6. ASSUME NEW s \in Server, RaftStep(s)
        PROVE  UNCHANGED <<commandSet, executed>>
    BY <2>6 DEF RaftStep, ListenRaftState, RaftCommit, RaftDrop, execVars
  <2> QED BY <2>3, <2>4, <2>5, <2>6 DEF Next, vars, execVars
<1> QED BY <1>1, <1>2, TypeInvAlways, PTL DEF Spec

\* With unique ids, the store of every replica is the meaning of the log
\* prefix that the replica has applied, at every key that the slow path
\* decided last.
THEOREM StoreFollowsLog == Spec => []StoreMatchesLog
<1>1. Init => StoreMatchesLog
  BY DEF Init, StoreMatchesLog
<1>2. TypeInv /\ CommandSetExecuted /\ StoreMatchesLog /\ [Next]_vars => StoreMatchesLog'
  <2> SUFFICES ASSUME TypeInv, CommandSetExecuted, StoreMatchesLog, [Next]_vars, UniqueIds,
                      NEW t \in Server, NEW k \in Key, k \notin speculative'[t]
               PROVE  kv'[t][k] = logState'[applied'[t] + 1][k]
    BY DEF StoreMatchesLog, UniqueIds
  <2>0. /\ kv \in [Server -> Store] /\ applied \in [Server -> Nat]
        /\ speculative \in [Server -> SUBSET Key]
        /\ log \in Seq(Command) /\ logState \in Seq(Store)
        /\ Len(logState) = Len(log) + 1 /\ applied[t] <= Len(log)
        /\ Len(log) \in Nat /\ logState[applied[t] + 1] \in Store
    BY DEF TypeInv, TypeOK, LogOK
  <2>1. CASE UNCHANGED <<kv, applied, logState, speculative>>
    BY <2>1 DEF StoreMatchesLog
  <2>2. ASSUME NEW s \in Server, NEW c \in Command, FastExecute(s, c)
        PROVE  kv'[t][k] = logState'[applied'[t] + 1][k]
    <3>1. /\ kv' = [kv EXCEPT ![s] = ExecuteSync(kv[s], c)]
          /\ applied' = applied /\ logState' = logState
          /\ speculative' = [speculative EXCEPT ![s] = @ \cup {j \in Key : Writes(c, j)}]
      BY <2>2 DEF FastExecute, raftVars
    <3>2. k \notin speculative[t] /\ (s = t => ~Writes(c, k))
      BY <2>0, <3>1
    <3>3. kv'[t][k] = kv[t][k]
      <4>1. CASE s = t
        <5>1. kv'[t] = Meaning(kv[t], c)
          BY <2>0, <3>1, <4>1, ExecuteIsMeaning
        <5> QED BY <2>0, <3>2, <4>1, <5>1, ExecuteIsMeaning
      <4>2. CASE s # t
        BY <2>0, <3>1, <4>2
      <4> QED BY <4>1, <4>2
    <3> QED BY <3>1, <3>2, <3>3 DEF StoreMatchesLog
  <2>3. ASSUME NEW s \in Server, NEW c \in Command, RaftCommit(s, c)
        PROVE  kv'[t][k] = logState'[applied'[t] + 1][k]
    <3>1. /\ UNCHANGED <<kv, applied, speculative>>
          /\ \A i \in 1..Len(logState) : logState'[i] = logState[i]
      BY <2>0, <2>3 DEF RaftCommit, execVars
    <3> QED BY <2>0, <3>1 DEF StoreMatchesLog
  <2>4. ASSUME NEW s \in Server, SlowExecute(s)
        PROVE  kv'[t][k] = logState'[applied'[t] + 1][k]
    <3>1. CASE s # t
      <4>1. /\ kv'[t] = kv[t] /\ applied'[t] = applied[t] /\ logState' = logState
            /\ speculative'[t] = speculative[t]
        BY <2>0, <2>4, <3>1 DEF SlowExecute, raftVars
      <4> QED BY <4>1 DEF StoreMatchesLog
    <3>2. CASE s = t
      <4>1. PICK c \in Command : /\ c = worker[t].cmd /\ c = log[applied[t] + 1]
                                 /\ applied[t] < Len(log)
        BY <2>4, <3>2 DEF SlowExecute, TypeInv, WorkerOK
      <4>2. /\ applied'[t] = applied[t] + 1 /\ logState' = logState
            /\ logState[applied[t] + 2] = Meaning(logState[applied[t] + 1], c)
        <5>1. applied'[t] = applied[t] + 1 /\ logState' = logState
          BY <2>0, <2>4, <3>2 DEF SlowExecute, raftVars
        <5>2. applied[t] + 1 \in 1..Len(log)
          BY <2>0, <4>1
        <5> QED BY <2>0, <4>1, <5>1, <5>2 DEF TypeInv, LogOK
      <4>3. kv'[t] = kv[t] \/ kv'[t] = Meaning(kv[t], c)
        BY <2>0, <2>4, <3>2, <4>1, ExecuteIsMeaning DEF SlowExecute
      <4>4. ~AlreadyExecuted(t) => kv'[t] = Meaning(kv[t], c)
        BY <2>0, <2>4, <3>2, <4>1, ExecuteIsMeaning DEF SlowExecute
      <4>5. /\ speculative'[t] \in {speculative[t] \cup {j \in Key : Writes(c, j)},
                                   {j \in speculative[t] : ~Writes(c, j)}}
            /\ AlreadyExecuted(t) =>
                  speculative'[t] = speculative[t] \cup {j \in Key : Writes(c, j)}
        <5>1. speculative'[t] = IF /\ worker[t].isLeader
                                   /\ c.id \in commandSet[t]
                                   /\ c \in executed[t]
                                THEN speculative[t] \cup {j \in Key : Writes(c, j)}
                                ELSE {j \in speculative[t] : ~Writes(c, j)}
          BY <2>0, <2>4, <3>2, <4>1 DEF SlowExecute
        <5>2. AlreadyExecuted(t) => /\ worker[t].isLeader
                                    /\ c.id \in commandSet[t]
                                    /\ c \in executed[t]
          BY <4>1 DEF AlreadyExecuted, CommandSetExecuted
        <5> QED BY <5>1, <5>2
      <4>6. CASE Writes(c, k)
        <5>1. kv'[t] = Meaning(kv[t], c)
          BY <4>4, <4>5, <4>6
        <5> QED BY <2>0, <4>2, <4>6, <5>1, MeaningAtKey
      <4>7. CASE ~Writes(c, k)
        <5>1. kv'[t][k] = kv[t][k]
          BY <2>0, <4>3, <4>7, MeaningAtKey
        <5>2. logState[applied[t] + 2][k] = logState[applied[t] + 1][k]
          BY <2>0, <4>2, <4>7, MeaningAtKey
        <5>3. k \notin speculative[t]
          BY <4>5, <4>7
        <5> QED BY <2>0, <4>2, <5>1, <5>2, <5>3 DEF StoreMatchesLog
      <4> QED BY <4>6, <4>7
    <3> QED BY <3>1, <3>2
  <2> QED BY <2>1, <2>2, <2>3, <2>4, StoreSteps
<1> QED BY <1>1, <1>2, TypeInvAlways, SkipsExecuted, PTL DEF Spec

-----------------------------------------------------------------------------
(* The notifiers of execution results.                                     *)

\* A command that has not been dispatched has no notifier; one waiting for
\* the fast path has an empty one or none; the worker sends for a command
\* that was dispatched and will not come through the fast path again.
ErOnce ==
    \A s \in Server, c \in Command :
        /\ propose[s][c].pc \in {"idle", "inserted"} =>
               c \notin fastPath[s] /\ board[s].erNotifiers[c.id] = Nil
        /\ c \in fastPath[s] => board[s].erNotifiers[c.id] \in {Nil, <<>>}
        /\ worker[s].pc = "notifyEr" /\ worker[s].cmd = c =>
               /\ propose[s][c].pc \notin {"idle", "inserted"}
               /\ c \notin fastPath[s]
               /\ CanSend(board[s].erNotifiers[c.id])

\* ErOnce at server s and command c depends on these values alone, and a
\* step may only empty or make the notifier, or move the handler on.
LEMMA ErOnceFrame ==
    ASSUME ErOnce, NEW s \in Server, NEW c \in Command,
           fastPath'[s] \subseteq fastPath[s],
           worker'[s].pc = "notifyEr" => worker'[s] = worker[s],
           propose'[s][c].pc \in {"idle", "inserted"} =>
               /\ propose[s][c].pc \in {"idle", "inserted"}
               /\ board'[s].erNotifiers[c.id] = board[s].erNotifiers[c.id],
           board'[s].erNotifiers[c.id] \in {board[s].erNotifiers[c.id], <<>>}
    PROVE  ErOnce!(s, c)'
BY DEF ErOnce, CanSend

LEMMA ErOnceNext ==
    ASSUME TypeInv, UniqueIds, ErOnce, [Next]_vars
    PROVE  ErOnce'
<1> USE CommandFacts
<1>0. /\ board \in [Server -> Board] /\ fastPath \in [Server -> SUBSET Command]
      /\ propose \in [Server -> [Command -> [pc : ProposePC, isConflict : BOOLEAN]]]
      /\ worker \in [Server -> [pc : WorkerPC, cmd : Command \cup {Nil}, isLeader : BOOLEAN]]
      /\ \A s \in Server : DOMAIN board[s].erNotifiers = ProposeId
  BY DEF TypeInv, TypeOK, Board
<1> SUFFICES ASSUME NEW t \in Server, NEW d \in Command
             PROVE  ErOnce!(t, d)'
  BY DEF ErOnce
<1>1. CASE UNCHANGED <<board, fastPath, propose, worker>>
  BY <1>1, ErOnceFrame
<1>2. ASSUME NEW s \in Server, NEW c \in Command, HandlerStep(s, c)
      PROVE  ErOnce!(t, d)'
  <2>1. CASE ProposeInsert(s, c)
    BY <1>0, <2>1, ErOnceFrame DEF ProposeInsert, boardVars, execVars
  <2>2. CASE ProposeFollower(s, c)
    BY <1>0, <2>2, ErOnceFrame DEF ProposeFollower, boardVars, execVars
  <2>3. CASE ProposeLeader(s, c)
    BY <1>0, <2>3 DEF ProposeLeader, boardVars, ErOnce
  <2>4. CASE WaitForEr(s, c)
    <3>1. CASE board[s].erBuffer[c.id] # Nil
      <4>1. /\ propose' = [propose EXCEPT ![s][c].pc = "done"]
            /\ propose[s][c].pc = "waitForEr"
            /\ UNCHANGED <<board, fastPath, worker>>
        BY <2>4, <3>1 DEF WaitForEr, Answer, boardVars, execVars
      <4>2. propose'[t][d].pc \in {"idle", "inserted"}
                => propose[t][d].pc \in {"idle", "inserted"}
        BY <1>0, <4>1
      <4> QED BY <4>1, <4>2, ErOnceFrame
    <3>2. CASE board[s].erBuffer[c.id] = Nil
      <4>1. ParkForEr(board[s], c.id).erNotifiers = [board[s].erNotifiers EXCEPT ![c.id] =
                IF board[s].erNotifiers[c.id] = Nil THEN <<>> ELSE board[s].erNotifiers[c.id]]
        <5>1. board[s] \in Board /\ c.id \in ProposeId
          BY <1>0
        <5> QED BY <5>1, BoardWaitType
      <4>2. /\ board'[s] = ParkForEr(board[s], c.id)
            /\ \A u \in Server : u # s => board'[u] = board[u]
        BY <1>0, <2>4, <3>2 DEF WaitForEr
      <4>3. d # c => d.id # c.id
        BY DEF UniqueIds
      <4>4. board'[t].erNotifiers[d.id] \in {board[t].erNotifiers[d.id], <<>>}
        BY <1>0, <4>1, <4>2, ZenonT(40)
      <4>5. ~(t = s /\ d = c) => board'[t].erNotifiers[d.id] = board[t].erNotifiers[d.id]
        BY <1>0, <4>1, <4>2, <4>3
      <4>6. propose' = [propose EXCEPT ![s][c].pc = "parked"] /\ fastPath' = fastPath
            /\ worker' = worker
        BY <2>4, <3>2 DEF WaitForEr, execVars
      <4> QED BY <1>0, <4>4, <4>5, <4>6, ErOnceFrame
    <3> QED BY <3>1, <3>2
  <2>5. CASE ReceiveEr(s, c)
    <3>1. DrainEr(board[s], c.id).erNotifiers = [board[s].erNotifiers EXCEPT ![c.id] = <<>>]
      BY <1>0, BoardWaitType, ZenonT(40)
    <3>2. /\ board'[s] = DrainEr(board[s], c.id)
          /\ \A u \in Server : u # s => board'[u] = board[u]
      BY <1>0, <2>5 DEF ReceiveEr
    <3>3. d # c => d.id # c.id
      BY DEF UniqueIds
    <3>4. board'[t].erNotifiers[d.id] \in {board[t].erNotifiers[d.id], <<>>}
      BY <1>0, <3>1, <3>2, ZenonT(40)
    <3>5. ~(t = s /\ d = c) => board'[t].erNotifiers[d.id] = board[t].erNotifiers[d.id]
      BY <1>0, <3>1, <3>2, <3>3
    <3>6. propose' = [propose EXCEPT ![s][c].pc = "done"] /\ fastPath' = fastPath
          /\ worker' = worker
      BY <2>5 DEF ReceiveEr, Answer, execVars
    <3> QED BY <1>0, <3>4, <3>5, <3>6, ErOnceFrame
  <2>6. CASE WaitForAsr(s, c) \/ ReceiveAsr(s, c) \/ FinishAsr(s, c)
    <3>1. /\ ParkForAsr(board[s], c.id).erNotifiers = board[s].erNotifiers
          /\ DrainAsr(board[s], c.id).erNotifiers = board[s].erNotifiers
          /\ Forget(board[s], c.id).erNotifiers = board[s].erNotifiers
      <4>1. board[s] \in Board /\ c.id \in ProposeId
        BY <1>0
      <4> QED BY <4>1, BoardWaitType
    <3>2. board'[t].erNotifiers = board[t].erNotifiers
      BY <1>0, <2>6, <3>1 DEF WaitForAsr, ReceiveAsr, FinishAsr
    <3>3. UNCHANGED <<fastPath, propose, worker>>
      BY <2>6 DEF WaitForAsr, ReceiveAsr, FinishAsr, execVars
    <3> QED BY <3>2, <3>3, ErOnceFrame
  <2> QED BY <1>2, <2>1, <2>2, <2>3, <2>4, <2>5, <2>6 DEF HandlerStep
<1>3. ASSUME NEW s \in Server, WorkerStep(s)
      PROVE  ErOnce!(t, d)'
  <2>1. CASE \E c \in Command : FastSkip(s, c)
    BY <1>0, <2>1, ErOnceFrame DEF FastSkip, boardVars, handlerVars
  <2>2. ASSUME NEW c \in Command, FastExecute(s, c)
        PROVE  ErOnce!(t, d)'
    <3>1. ExecuteSyncResult(kv[s], c) \in Content
      BY ExecuteIsMeaning DEF TypeInv, TypeOK
    <3>2. InsertEr(board[s], c.id, ExecuteSyncResult(kv[s], c)).erNotifiers
              = board[s].erNotifiers
      <4>1. board[s] \in Board /\ c.id \in ProposeId
        BY <1>0
      <4> QED BY <3>1, <4>1, BoardInsertType
    <3>3. board'[t].erNotifiers = board[t].erNotifiers
      BY <1>0, <2>2, <3>2 DEF FastExecute
    <3>4. /\ propose' = propose /\ c \in fastPath[s]
          /\ fastPath' = [fastPath EXCEPT ![s] = @ \ {c}]
          /\ \/ worker' = worker
             \/ /\ board[s].erNotifiers[c.id] # Nil
                /\ worker' = [worker EXCEPT ![s] =
                                 [pc |-> "notifyEr", cmd |-> c, isLeader |-> FALSE]]
      BY <2>2 DEF FastExecute, Sends, handlerVars
    <3>5. CASE worker' = worker
      BY <1>0, <3>3, <3>4, <3>5, ErOnceFrame
    <3>6. CASE /\ board[s].erNotifiers[c.id] # Nil
               /\ worker' = [worker EXCEPT ![s] =
                                [pc |-> "notifyEr", cmd |-> c, isLeader |-> FALSE]]
      BY <1>0, <3>3, <3>4, <3>6 DEF ErOnce, CanSend
    <3> QED BY <3>4, <3>5, <3>6
  <2>3. CASE SendEr(s)
    <3>1. PICK c \in Command : c = worker[s].cmd
      BY <2>3 DEF SendEr, TypeInv, WorkerOK
    <3>2. /\ worker[s].pc = "notifyEr"
          /\ board' = [board EXCEPT ![s] = NotifyEr(board[s], c.id)]
          /\ worker' = [worker EXCEPT ![s] = Idle]
          /\ UNCHANGED <<fastPath, propose>>
      BY <2>3, <3>1 DEF SendEr, handlerVars
    <3>3. NotifyEr(board[s], c.id).erNotifiers
              = [board[s].erNotifiers EXCEPT ![c.id] = <<board[s].erBuffer[c.id]>>]
      <4>1. board[s] \in Board /\ c.id \in ProposeId
        BY <1>0
      <4> QED BY <4>1, BoardNotifyType
    <3>4. /\ propose[s][c].pc \notin {"idle", "inserted"} /\ c \notin fastPath[s]
      BY <3>1, <3>2 DEF ErOnce
    <3>5. d # c => d.id # c.id
      BY DEF UniqueIds
    <3>6. ~(t = s /\ d = c) => board'[t].erNotifiers[d.id] = board[t].erNotifiers[d.id]
      BY <1>0, <3>2, <3>3, <3>5
    <3>7. worker'[t].pc = "notifyEr" => worker'[t] = worker[t] /\ t # s
      BY <1>0, <3>2 DEF Idle
    <3>8. CASE t = s /\ d = c
      BY <3>2, <3>4, <3>7, <3>8 DEF ErOnce
    <3>9. CASE ~(t = s /\ d = c)
      BY <3>2, <3>6, <3>7, <3>9, ErOnceFrame
    <3> QED BY <3>8, <3>9
  <2>4. CASE SlowReceive(s)
    BY <1>0, <2>4, ErOnceFrame DEF SlowReceive, boardVars, handlerVars
  <2>5. CASE SlowExecute(s)
    <3>1. PICK c \in Command : c = worker[s].cmd
      BY <2>5 DEF SlowExecute, TypeInv, WorkerOK
    <3>2. InsertAsr(board[s], c.id).erNotifiers = board[s].erNotifiers
      BY <1>0, BoardInsertType DEF Content
    <3>3. board'[t].erNotifiers = board[t].erNotifiers
      BY <1>0, <2>5, <3>1, <3>2 DEF SlowExecute
    <3>4. /\ UNCHANGED <<fastPath, propose>>
          /\ worker'[t].pc = "notifyEr" => worker'[t] = worker[t]
      BY <1>0, <2>5 DEF SlowExecute, handlerVars
    <3> QED BY <3>3, <3>4, ErOnceFrame
  <2>6. CASE SendAsr(s)
    <3>1. PICK c \in Command : c = worker[s].cmd
      BY <2>6 DEF SendAsr, TypeInv, WorkerOK
    <3>2. NotifyAsr(board[s], c.id).erNotifiers = board[s].erNotifiers
      BY <1>0, BoardNotifyType
    <3>3. board'[t].erNotifiers = board[t].erNotifiers
      BY <1>0, <2>6, <3>1, <3>2 DEF SendAsr
    <3>4. /\ UNCHANGED <<fastPath, propose>>
          /\ worker'[t].pc = "notifyEr" => worker'[t] = worker[t]
      BY <1>0, <2>6 DEF SendAsr, handlerVars
    <3> QED BY <3>3, <3>4, ErOnceFrame
  <2>7. CASE RemoveRecord(s)
    BY <1>0, <2>7, ErOnceFrame DEF RemoveRecord, Idle, boardVars, handlerVars
  <2> QED BY <1>3, <2>1, <2>2, <2>3, <2>4, <2>5, <2>6, <2>7 DEF WorkerStep
<1>4. ASSUME NEW s \in Server, RaftStep(s)
      PROVE  UNCHANGED <<board, fastPath, propose, worker>>
  BY <1>4 DEF RaftStep, ListenRaftState, RaftCommit, RaftDrop, boardVars, handlerVars, execVars
<1>5. UNCHANGED vars => UNCHANGED <<board, fastPath, propose, worker>>
  BY DEF vars, boardVars, handlerVars, execVars
<1> QED BY <1>1, <1>2, <1>3, <1>4, <1>5 DEF Next

\* With unique ids the worker never blocks in NotifyEr while it holds the
\* mutex of the board.
THEOREM SendErSafe == Spec => []SendErNeverBlocks
<1>1. Init => (UniqueIds => ErOnce)
  BY CommandFacts DEF Init, ErOnce, Idle, NewBoard
<1>2. TypeInv /\ (UniqueIds => ErOnce) /\ [Next]_vars => (UniqueIds => ErOnce)'
  BY ErOnceNext DEF UniqueIds
<1>3. TypeInv /\ (UniqueIds => ErOnce) => SendErNeverBlocks
  BY DEF SendErNeverBlocks, ErOnce, TypeInv, WorkerOK
<1> QED BY <1>1, <1>2, <1>3, TypeInvAlways, PTL DEF Spec

-----------------------------------------------------------------------------
(* The results of commands.                                                *)

\* r is kept for c at s, on its way to the handler of c, or answered.
ResultAt(s, c, r) ==
    \/ board[s].erBuffer[c.id] = r
    \/ board[s].erNotifiers[c.id] = <<r>>
    \/ reply[s][c] # Nil /\ reply[s][c].content = r
    \/ syncReply[s][c] = r /\ r # NotFoundInBuffer

\* A command that the fast path has not executed has no result at a server,
\* and no command has two.
OneResult ==
    \A s \in Server, c \in Command :
        /\ propose[s][c].pc \in {"idle", "inserted"} => c \notin fastPath[s]
        /\ propose[s][c].pc \in {"idle", "inserted"} \/ c \in fastPath[s] =>
               \A r \in Content : ~ResultAt(s, c, r)
        /\ \A r1, r2 \in Content :
               ResultAt(s, c, r1) /\ ResultAt(s, c, r2) => r1 = r2

\* A step that only moves or drops results, and moves no handler back.
LEMMA OneResultFrame ==
    ASSUME OneResult, NEW s \in Server, NEW c \in Command,
           c \in fastPath'[s] => c \in fastPath[s],
           propose'[s][c].pc \in {"idle", "inserted"} =>
               propose[s][c].pc \in {"idle", "inserted"},
           \A r \in Content : ResultAt(s, c, r)' => ResultAt(s, c, r)
    PROVE  OneResult!(s, c)'
<1> HIDE DEF ResultAt
<1> QED BY DEF OneResult

\* The places where results are, after a step that changes those of one
\* command c at one server s: ids are unique, so no other command's change.
LEMMA OneResultElsewhere ==
    ASSUME TypeInv, UniqueIds, OneResult,
           NEW s \in Server, NEW c \in Command, NEW t \in Server, NEW d \in Command,
           ~(t = s /\ d = c),
           \A u \in Server : u # s => board'[u] = board[u],
           \A id \in ProposeId : id # c.id =>
               /\ board'[s].erBuffer[id] = board[s].erBuffer[id]
               /\ board'[s].erNotifiers[id] = board[s].erNotifiers[id],
           reply'[t][d] = reply[t][d], syncReply'[t][d] = syncReply[t][d],
           propose'[t][d].pc = propose[t][d].pc,
           d \in fastPath'[t] => d \in fastPath[t]
    PROVE  OneResult!(t, d)'
<1>1. d # c => d.id # c.id /\ d.id \in ProposeId
  BY CommandFacts DEF UniqueIds
<1>2. /\ board'[t].erBuffer[d.id] = board[t].erBuffer[d.id]
      /\ board'[t].erNotifiers[d.id] = board[t].erNotifiers[d.id]
  BY <1>1
<1>3. \A r \in Content : ResultAt(t, d, r)' => ResultAt(t, d, r)
  BY <1>2 DEF ResultAt
<1> QED BY <1>3, OneResultFrame

LEMMA OneResultHandler ==
    ASSUME TypeInv, UniqueIds, OneResult, NEW s \in Server, NEW c \in Command,
           HandlerStep(s, c), NEW t \in Server, NEW d \in Command
    PROVE  OneResult!(t, d)'
<1> USE CommandFacts
<1>0. /\ board \in [Server -> Board] /\ fastPath \in [Server -> SUBSET Command]
      /\ propose \in [Server -> [Command -> [pc : ProposePC, isConflict : BOOLEAN]]]
      /\ reply \in [Server -> [Command -> CurpReply \cup {Nil}]]
      /\ syncReply \in [Server -> [Command -> Content \cup {Nil}]]
      /\ board[s] \in Board /\ c.id \in ProposeId
      /\ DOMAIN board[s].erNotifiers = ProposeId /\ DOMAIN board[s].erBuffer = ProposeId
  BY DEF TypeInv, TypeOK, Board
<1>N. Nil \notin Content
  BY NilAssumption
<1>1. CASE ProposeInsert(s, c)
  <2>1. UNCHANGED <<board, reply, syncReply, fastPath>>
    BY <1>1 DEF ProposeInsert, boardVars, execVars
  <2>2. propose'[t][d].pc \in {"idle", "inserted"} => propose[t][d].pc \in {"idle", "inserted"}
    BY <1>0, <1>1 DEF ProposeInsert
  <2>3. \A r \in Content : ResultAt(t, d, r)' => ResultAt(t, d, r)
    BY <2>1 DEF ResultAt
  <2> QED BY <2>1, <2>2, <2>3, OneResultFrame
<1>2. CASE ProposeFollower(s, c)
  <2>1. /\ UNCHANGED <<board, syncReply, fastPath>> /\ propose[s][c].pc = "inserted"
        /\ propose' = [propose EXCEPT ![s][c].pc = "done"]
        /\ reply' = [reply EXCEPT ![s][c] =
                        [content |-> Empty, status |-> Status(propose[s][c].isConflict)]]
    BY <1>2 DEF ProposeFollower, boardVars, execVars
  <2>2. CASE t = s /\ d = c
    <3>1. propose'[t][d].pc = "done" /\ reply'[t][d].content = Empty /\ d \notin fastPath'[t]
      BY <1>0, <2>1, <2>2 DEF OneResult
    <3>2. \A r \in Content : ~ResultAt(t, d, r)
      BY <2>1, <2>2 DEF OneResult
    <3>3. \A r \in Content : ResultAt(t, d, r)' => r = Empty
      BY <2>1, <3>1, <3>2 DEF ResultAt
    <3> QED BY <3>1, <3>3
  <2>3. CASE ~(t = s /\ d = c)
    <3>1. propose'[t][d].pc = propose[t][d].pc /\ reply'[t][d] = reply[t][d]
      BY <1>0, <2>1, <2>3
    <3> QED BY <2>1, <2>3, <3>1, OneResultElsewhere
  <2> QED BY <2>2, <2>3
<1>3. CASE ProposeLeader(s, c)
  <2>1. /\ UNCHANGED <<board, reply, syncReply>> /\ propose[s][c].pc = "inserted"
        /\ propose' = [propose EXCEPT ![s][c].pc = "waitForEr"]
        /\ fastPath' = [fastPath EXCEPT ![s] = @ \cup {c}]
    BY <1>3 DEF ProposeLeader, boardVars
  <2>2. \A r \in Content : ResultAt(t, d, r)' => ResultAt(t, d, r)
    BY <2>1 DEF ResultAt
  <2>3. CASE t = s /\ d = c
    <3>1. propose'[t][d].pc = "waitForEr"
      BY <1>0, <2>1, <2>3
    <3>2. \A r \in Content : ~ResultAt(t, d, r)
      BY <2>1, <2>3 DEF OneResult
    <3> QED BY <2>2, <3>1, <3>2
  <2>4. CASE ~(t = s /\ d = c)
    BY <1>0, <2>1, <2>4, OneResultElsewhere
  <2> QED BY <2>3, <2>4
<1>4. CASE WaitForEr(s, c)
  <2>1. CASE board[s].erBuffer[c.id] # Nil
    <3>1. /\ propose' = [propose EXCEPT ![s][c].pc = "done"]
          /\ reply' = [reply EXCEPT ![s][c] =
                [content |-> board[s].erBuffer[c.id],
                 status |-> Status(propose[s][c].isConflict)]]
          /\ UNCHANGED <<board, fastPath, syncReply>>
      BY <1>4, <2>1 DEF WaitForEr, Answer, boardVars, execVars
    <3>2. CASE t = s /\ d = c
      <4>1. propose'[t][d].pc = "done" /\ reply'[t][d].content = board[t].erBuffer[d.id]
        BY <1>0, <3>1, <3>2
      <4>2. \A r \in Content : ResultAt(t, d, r)' => ResultAt(t, d, r)
        BY <3>1, <4>1 DEF ResultAt
      <4> QED BY <3>1, <4>1, <4>2, OneResultFrame
    <3>3. CASE ~(t = s /\ d = c)
      <4>1. propose'[t][d].pc = propose[t][d].pc /\ reply'[t][d] = reply[t][d]
        BY <1>0, <3>1, <3>3
      <4> QED BY <3>1, <3>3, <4>1, OneResultElsewhere
    <3> QED BY <3>2, <3>3
  <2>2. CASE board[s].erBuffer[c.id] = Nil
    <3> DEFINE b == ParkForEr(board[s], c.id)
    <3>1. /\ b.erBuffer = board[s].erBuffer
          /\ b.erNotifiers = [board[s].erNotifiers EXCEPT ![c.id] =
                IF board[s].erNotifiers[c.id] = Nil THEN <<>> ELSE board[s].erNotifiers[c.id]]
      BY <1>0, BoardWaitType, ZenonT(40)
    <3>2. /\ propose' = [propose EXCEPT ![s][c].pc = "parked"]
          /\ board' = [board EXCEPT ![s] = b] /\ UNCHANGED <<reply, fastPath, syncReply>>
      BY <1>4, <2>2 DEF WaitForEr, execVars
    <3> HIDE DEF b
    <3>3. board'[s] = b /\ \A u \in Server : u # s => board'[u] = board[u]
      BY <1>0, <3>2
    <3>4. CASE t = s /\ d = c
      <4>1. propose'[t][d].pc = "parked"
        BY <1>0, <3>2, <3>4
      <4>2. /\ board'[t].erBuffer[d.id] = board[t].erBuffer[d.id]
            /\ board'[t].erNotifiers[d.id] \in {board[t].erNotifiers[d.id], <<>>}
        BY <1>0, <3>1, <3>3, <3>4
      <4>3. \A r \in Content : ResultAt(t, d, r)' => ResultAt(t, d, r)
        BY <3>2, <4>2 DEF ResultAt
      <4> QED BY <3>2, <4>1, <4>3, OneResultFrame
    <3>5. CASE ~(t = s /\ d = c)
      <4>1. propose'[t][d].pc = propose[t][d].pc
        BY <1>0, <3>2, <3>5
      <4>2. \A id \in ProposeId : id # c.id =>
                 /\ board'[s].erBuffer[id] = board[s].erBuffer[id]
                 /\ board'[s].erNotifiers[id] = board[s].erNotifiers[id]
        BY <1>0, <3>1, <3>3
      <4> QED BY <3>2, <3>3, <3>5, <4>1, <4>2, OneResultElsewhere
    <3> QED BY <3>4, <3>5
  <2> QED BY <2>1, <2>2
<1>5. CASE ReceiveEr(s, c)
  <2> DEFINE b == DrainEr(board[s], c.id)
             r0 == board[s].erNotifiers[c.id][1]
  <2>1. /\ b.erBuffer = board[s].erBuffer
        /\ b.erNotifiers = [board[s].erNotifiers EXCEPT ![c.id] = <<>>]
    <3>1. board[s] \in Board /\ c.id \in ProposeId
      BY <1>0
    <3> QED BY <3>1, BoardWaitType
  <2>2. /\ propose' = [propose EXCEPT ![s][c].pc = "done"]
        /\ reply' = [reply EXCEPT ![s][c] =
              [content |-> r0, status |-> Status(propose[s][c].isConflict)]]
        /\ board' = [board EXCEPT ![s] = b] /\ UNCHANGED <<fastPath, syncReply>>
        /\ propose[s][c].pc = "parked" /\ board[s].erNotifiers[c.id] # <<>>
    BY <1>5 DEF ReceiveEr, Answer, execVars
  <2>3. board[s].erNotifiers[c.id] = <<r0>>
    <3>1. board[s].erNotifiers[c.id] # Nil
      BY <2>2 DEF TypeInv, ParkedOK
    <3>2. PICK r \in Content : board[s].erNotifiers[c.id] = <<r>>
      BY <1>0, <2>2, <3>1 DEF Board
    <3> QED BY <3>2
  <2> HIDE DEF b, r0
  <2>4. board'[s] = b /\ \A u \in Server : u # s => board'[u] = board[u]
    BY <1>0, <2>2
  <2>5. CASE t = s /\ d = c
    <3>1. propose'[t][d].pc = "done" /\ reply'[t][d].content = r0
      BY <1>0, <2>2, <2>5
    <3>2. /\ board'[t].erBuffer[d.id] = board[t].erBuffer[d.id]
          /\ board'[t].erNotifiers[d.id] = <<>>
      BY <1>0, <2>1, <2>4, <2>5
    <3>3. \A r \in Content : ResultAt(t, d, r)' => ResultAt(t, d, r)
      BY <2>2, <2>3, <2>5, <3>1, <3>2 DEF ResultAt
    <3> QED BY <2>2, <3>1, <3>3, OneResultFrame
  <2>6. CASE ~(t = s /\ d = c)
    <3>1. propose'[t][d].pc = propose[t][d].pc /\ reply'[t][d] = reply[t][d]
      BY <1>0, <2>2, <2>6
    <3>2. \A id \in ProposeId : id # c.id =>
               /\ board'[s].erBuffer[id] = board[s].erBuffer[id]
               /\ board'[s].erNotifiers[id] = board[s].erNotifiers[id]
      BY <1>0, <2>1, <2>4
    <3> QED BY <2>2, <2>4, <2>6, <3>1, <3>2, OneResultElsewhere
  <2> QED BY <2>5, <2>6
<1>6. CASE WaitForAsr(s, c) \/ ReceiveAsr(s, c) \/ FinishAsr(s, c)
  <2>1. /\ UNCHANGED <<fastPath, propose, reply>>
        /\ \A u \in Server : u # s => board'[u] = board[u]
    BY <1>0, <1>6 DEF WaitForAsr, ReceiveAsr, FinishAsr, execVars
  <2>2. /\ ParkForAsr(board[s], c.id).erNotifiers = board[s].erNotifiers
        /\ DrainAsr(board[s], c.id).erNotifiers = board[s].erNotifiers
        /\ Forget(board[s], c.id).erNotifiers = board[s].erNotifiers
        /\ ParkForAsr(board[s], c.id).erBuffer = board[s].erBuffer
        /\ DrainAsr(board[s], c.id).erBuffer = board[s].erBuffer
        /\ Forget(board[s], c.id).erBuffer = [board[s].erBuffer EXCEPT ![c.id] = Nil]
    <3>1. board[s] \in Board /\ c.id \in ProposeId
      BY <1>0
    <3> QED BY <3>1, BoardWaitType
  <2>3. board'[s] \in {ParkForAsr(board[s], c.id), DrainAsr(board[s], c.id),
                       Forget(board[s], c.id)}
    BY <1>0, <1>6 DEF WaitForAsr, ReceiveAsr, FinishAsr
  <2>4. /\ board'[s].erNotifiers = board[s].erNotifiers
        /\ board'[s].erBuffer \in {board[s].erBuffer, [board[s].erBuffer EXCEPT ![c.id] = Nil]}
    BY <2>2, <2>3
  <2>5. \/ syncReply' = syncReply
        \/ syncReply' = [syncReply EXCEPT ![s][c] = board[s].erBuffer[c.id]]
        \/ syncReply' = [syncReply EXCEPT ![s][c] = NotFoundInBuffer]
    BY <1>6 DEF WaitForAsr, ReceiveAsr, FinishAsr
  <2>6. CASE t = s /\ d = c
    <3>1. syncReply'[t][d] \in {syncReply[t][d], board[t].erBuffer[d.id], NotFoundInBuffer}
      BY <1>0, <2>5, <2>6
    <3>2. /\ board'[t].erNotifiers = board[t].erNotifiers
          /\ board'[t].erBuffer[d.id] \in {board[t].erBuffer[d.id], Nil}
      BY <1>0, <2>4, <2>6
    <3>3. \A r \in Content : ResultAt(t, d, r)' => ResultAt(t, d, r)
      BY <1>N, <2>1, <3>1, <3>2 DEF ResultAt
    <3> QED BY <2>1, <3>3, OneResultFrame
  <2>7. CASE ~(t = s /\ d = c)
    <3>1. syncReply'[t][d] = syncReply[t][d]
      BY <1>0, <2>5, <2>7
    <3>2. \A id \in ProposeId : id # c.id =>
               /\ board'[s].erBuffer[id] = board[s].erBuffer[id]
               /\ board'[s].erNotifiers[id] = board[s].erNotifiers[id]
      BY <1>0, <2>4
    <3> QED BY <2>1, <2>7, <3>1, <3>2, OneResultElsewhere
  <2> QED BY <2>6, <2>7
<1> QED BY <1>1, <1>2, <1>3, <1>4, <1>5, <1>6 DEF HandlerStep

LEMMA OneResultWorker ==
    ASSUME TypeInv, UniqueIds, OneResult, NEW s \in Server,
           WorkerStep(s), NEW t \in Server, NEW d \in Command
    PROVE  OneResult!(t, d)'
<1> USE CommandFacts
<1>0. /\ board \in [Server -> Board] /\ fastPath \in [Server -> SUBSET Command]
      /\ board[s] \in Board
      /\ DOMAIN board[s].erNotifiers = ProposeId /\ DOMAIN board[s].erBuffer = ProposeId
  BY DEF TypeInv, TypeOK, Board
<1>1. UNCHANGED <<propose, reply, syncReply>>
  BY DEF WorkerStep, FastSkip, FastExecute, SendEr, SlowReceive, SlowExecute, SendAsr,
         RemoveRecord, handlerVars
<1>2. ASSUME \A u \in Server : /\ board'[u].erBuffer = board[u].erBuffer
                               /\ board'[u].erNotifiers = board[u].erNotifiers,
             \A u \in Server : fastPath'[u] \subseteq fastPath[u]
      PROVE  OneResult!(t, d)'
  <2>1. \A r \in Content : ResultAt(t, d, r)' => ResultAt(t, d, r)
    BY <1>1, <1>2 DEF ResultAt
  <2> QED BY <1>1, <1>2, <2>1, OneResultFrame
<1>3. CASE \/ \E c \in Command : FastSkip(s, c)
           \/ SlowReceive(s) \/ RemoveRecord(s)
  <2>1. board' = board /\ \A u \in Server : fastPath'[u] \subseteq fastPath[u]
    BY <1>0, <1>3 DEF FastSkip, SlowReceive, RemoveRecord, boardVars
  <2> QED BY <1>2, <2>1
<1>4. CASE SlowExecute(s) \/ SendAsr(s)
  <2>1. PICK c \in Command : c = worker[s].cmd
    BY <1>4 DEF SlowExecute, SendAsr, TypeInv, WorkerOK
  <2>2. /\ InsertAsr(board[s], c.id).erNotifiers = board[s].erNotifiers
        /\ InsertAsr(board[s], c.id).erBuffer = board[s].erBuffer
    BY <1>0, BoardInsertType DEF Content
  <2>3. /\ NotifyAsr(board[s], c.id).erNotifiers = board[s].erNotifiers
        /\ NotifyAsr(board[s], c.id).erBuffer = board[s].erBuffer
    BY <1>0, BoardNotifyType
  <2>4. /\ fastPath' = fastPath
        /\ \E b \in {InsertAsr(board[s], c.id), NotifyAsr(board[s], c.id)} :
               board' = [board EXCEPT ![s] = b]
    BY <1>4, <2>1 DEF SlowExecute, SendAsr
  <2>5. \A u \in Server : /\ board'[u].erBuffer = board[u].erBuffer
                          /\ board'[u].erNotifiers = board[u].erNotifiers
    BY <1>0, <2>2, <2>3, <2>4
  <2> QED BY <1>2, <2>4, <2>5
<1>5. ASSUME NEW c \in Command, FastExecute(s, c)
      PROVE  OneResult!(t, d)'
  <2> DEFINE r0 == ExecuteSyncResult(kv[s], c)
             b == InsertEr(board[s], c.id, r0)
  <2>1. r0 \in Content
    BY ExecuteIsMeaning DEF TypeInv, TypeOK
  <2>2. /\ b.erNotifiers = board[s].erNotifiers
        /\ b.erBuffer = [board[s].erBuffer EXCEPT ![c.id] = r0]
    BY <1>0, <2>1, BoardInsertType
  <2>3. /\ board' = [board EXCEPT ![s] = b] /\ c \in fastPath[s]
        /\ fastPath' = [fastPath EXCEPT ![s] = @ \ {c}]
    BY <1>5 DEF FastExecute
  <2> HIDE DEF r0, b
  <2>4. board'[s] = b /\ \A u \in Server : u # s => board'[u] = board[u]
    BY <1>0, <2>3
  <2>5. CASE t = s /\ d = c
    <3>1. d \notin fastPath'[t] /\ propose'[t][d].pc \notin {"idle", "inserted"}
      BY <1>0, <1>1, <2>3, <2>5 DEF OneResult
    <3>2. \A r \in Content : ~ResultAt(t, d, r)
      BY <2>3, <2>5 DEF OneResult
    <3>3. /\ board'[t].erBuffer[d.id] = r0
          /\ board'[t].erNotifiers[d.id] = board[t].erNotifiers[d.id]
      BY <1>0, <2>2, <2>4, <2>5
    <3>4. \A r \in Content : ResultAt(t, d, r)' => r = r0
      BY <1>1, <3>2, <3>3 DEF ResultAt
    <3> QED BY <3>1, <3>4
  <2>6. CASE ~(t = s /\ d = c)
    <3>1. \A id \in ProposeId : id # c.id =>
               /\ board'[s].erBuffer[id] = board[s].erBuffer[id]
               /\ board'[s].erNotifiers[id] = board[s].erNotifiers[id]
      BY <1>0, <2>2, <2>4
    <3>2. d \in fastPath'[t] => d \in fastPath[t]
      BY <1>0, <2>3
    <3> QED BY <1>1, <2>4, <2>6, <3>1, <3>2, OneResultElsewhere
  <2> QED BY <2>5, <2>6
<1>6. CASE SendEr(s)
  <2>1. PICK c \in Command : c = worker[s].cmd
    BY <1>6 DEF SendEr, TypeInv, WorkerOK
  <2> DEFINE b == NotifyEr(board[s], c.id)
  <2>2. /\ b.erBuffer = board[s].erBuffer
        /\ b.erNotifiers = [board[s].erNotifiers EXCEPT ![c.id] = <<board[s].erBuffer[c.id]>>]
    BY <1>0, BoardNotifyType
  <2>3. board' = [board EXCEPT ![s] = b] /\ fastPath' = fastPath
    BY <1>6, <2>1 DEF SendEr
  <2> HIDE DEF b
  <2>4. board'[s] = b /\ \A u \in Server : u # s => board'[u] = board[u]
    BY <1>0, <2>3
  <2>5. CASE t = s /\ d = c
    <3>1. /\ board'[t].erBuffer[d.id] = board[t].erBuffer[d.id]
          /\ board'[t].erNotifiers[d.id] = <<board[t].erBuffer[d.id]>>
      BY <1>0, <2>2, <2>4, <2>5
    <3>2. \A r \in Content : ResultAt(t, d, r)' => ResultAt(t, d, r)
      BY <1>1, <3>1 DEF ResultAt
    <3> QED BY <1>1, <2>3, <3>2, OneResultFrame
  <2>6. CASE ~(t = s /\ d = c)
    <3>1. \A id \in ProposeId : id # c.id =>
               /\ board'[s].erBuffer[id] = board[s].erBuffer[id]
               /\ board'[s].erNotifiers[id] = board[s].erNotifiers[id]
      BY <1>0, <2>2, <2>4
    <3> QED BY <1>1, <2>3, <2>4, <2>6, <3>1, OneResultElsewhere
  <2> QED BY <2>5, <2>6
<1> QED BY <1>3, <1>4, <1>5, <1>6 DEF WorkerStep

LEMMA OneResultNext ==
    ASSUME TypeInv, UniqueIds, OneResult, [Next]_vars
    PROVE  OneResult'
<1> SUFFICES ASSUME NEW t \in Server, NEW d \in Command
             PROVE  OneResult!(t, d)'
  BY DEF OneResult
<1>1. CASE UNCHANGED <<board, fastPath, propose, reply, syncReply>>
  <2>1. \A r \in Content : ResultAt(t, d, r)' => ResultAt(t, d, r)
    BY <1>1 DEF ResultAt
  <2> QED BY <1>1, <2>1, OneResultFrame
<1>2. ASSUME NEW s \in Server, NEW c \in Command, HandlerStep(s, c)
      PROVE  OneResult!(t, d)'
  BY <1>2, OneResultHandler
<1>3. ASSUME NEW s \in Server, WorkerStep(s)
      PROVE  OneResult!(t, d)'
  BY <1>3, OneResultWorker
<1>4. ASSUME NEW s \in Server, RaftStep(s)
      PROVE  UNCHANGED <<board, fastPath, propose, reply, syncReply>>
  BY <1>4 DEF RaftStep, ListenRaftState, RaftCommit, RaftDrop, boardVars, handlerVars, execVars
<1>5. UNCHANGED vars => UNCHANGED <<board, fastPath, propose, reply, syncReply>>
  BY DEF vars, boardVars, handlerVars, execVars
<1> QED BY <1>1, <1>2, <1>3, <1>4, <1>5 DEF Next

\* With unique ids WaitSynced answers what Propose answered, or that it has
\* nothing: the one execution on the fast path makes the only result, and
\* executing the command again on the slow path makes none.
THEOREM SyncAgrees == Spec => []SyncAgreesWithPropose
<1>1. Init => (UniqueIds => OneResult)
  <2> SUFFICES ASSUME Init, NEW s \in Server, NEW c \in Command
               PROVE  OneResult!(s, c)
    BY DEF OneResult
  <2>1. /\ board[s].erBuffer[c.id] = Nil /\ board[s].erNotifiers[c.id] = Nil
        /\ reply[s][c] = Nil /\ syncReply[s][c] = Nil /\ c \notin fastPath[s]
    BY CommandFacts DEF Init, NewBoard
  <2>2. \A r \in Content : ~ResultAt(s, c, r)
    BY <2>1, NilAssumption DEF ResultAt
  <2> QED BY <2>1, <2>2
<1>2. TypeInv /\ (UniqueIds => OneResult) /\ [Next]_vars => (UniqueIds => OneResult)'
  BY OneResultNext DEF UniqueIds
<1>3. TypeInv /\ (UniqueIds => OneResult) => SyncAgreesWithPropose
  <2> SUFFICES ASSUME TypeInv, OneResult, NEW s \in Server, NEW c \in Command,
                      reply[s][c] # Nil, syncReply[s][c] \notin {Nil, NotFoundInBuffer}
               PROVE  syncReply[s][c] = reply[s][c].content
    BY DEF SyncAgreesWithPropose
  <2>1. reply[s][c].content \in Content /\ syncReply[s][c] \in Content
    BY DEF TypeInv, TypeOK, CurpReply
  <2>2. ResultAt(s, c, reply[s][c].content) /\ ResultAt(s, c, syncReply[s][c])
    BY DEF ResultAt
  <2> QED BY <2>1, <2>2 DEF OneResult
<1> QED BY <1>1, <1>2, <1>3, TypeInvAlways, PTL DEF Spec
=============================================================================
