----------------------- MODULE StateMachineRefinement -----------------------
(***************************************************************************)
(* The replicas of StateMachine implement the record-keeping of            *)
(* CurpProtocol when ids are unique: a step of a handler, of cmd_worker or *)
(* of Raft is one step of CurpProtocol or leaves its variables alone.  The *)
(* theorems of CurpProtocolProofs about super quorums therefore hold of    *)
(* the replicas.                                                           *)
(***************************************************************************)
EXTENDS StateMachineProofs

\* Raft only holds commands that were proposed.
Proposed ==
    \A s \in Server : \A c \in proposeC[s] : propose[s][c].pc # "idle"

\* A handler that has started never becomes idle, and its verdict is fixed.
LEMMA VerdictSteps ==
    ASSUME TypeInv, [Next]_vars
    PROVE  \/ \E s \in Server, c \in Command : ProposeInsert(s, c)
           \/ \A t \in Server, d \in Command :
                /\ Verdict(t, d)' = Verdict(t, d)
                /\ propose'[t][d].pc = "idle" <=> propose[t][d].pc = "idle"
<1>0. propose \in [Server -> [Command -> [pc : ProposePC, isConflict : BOOLEAN]]]
  BY DEF TypeInv, TypeOK
<1>1. ASSUME NEW s \in Server, NEW c \in Command, NEW p \in ProposePC \ {"idle"},
             propose[s][c].pc # "idle",
             propose' = [propose EXCEPT ![s][c].pc = p],
             NEW t \in Server, NEW d \in Command
      PROVE  /\ Verdict(t, d)' = Verdict(t, d)
             /\ propose'[t][d].pc = "idle" <=> propose[t][d].pc = "idle"
  <2>1. /\ propose'[t][d].isConflict = propose[t][d].isConflict
        /\ propose'[t][d].pc = "idle" <=> propose[t][d].pc = "idle"
    BY <1>0, <1>1
  <2> QED BY <2>1 DEF Verdict
<1>2. ASSUME propose' = propose, NEW t \in Server, NEW d \in Command
      PROVE  /\ Verdict(t, d)' = Verdict(t, d)
             /\ propose'[t][d].pc = "idle" <=> propose[t][d].pc = "idle"
  BY <1>2 DEF Verdict
<1>3. ASSUME NEW s \in Server, NEW c \in Command, HandlerStep(s, c)
      PROVE  \/ ProposeInsert(s, c)
             \/ propose' = propose
             \/ /\ propose[s][c].pc # "idle"
                /\ \E p \in ProposePC \ {"idle"} :
                      propose' = [propose EXCEPT ![s][c].pc = p]
  BY <1>3 DEF HandlerStep, ProposeFollower, ProposeLeader, WaitForEr, ReceiveEr,
     WaitForAsr, ReceiveAsr, FinishAsr, Answer, ProposePC
<1>4. ASSUME NEW s \in Server, WorkerStep(s)
      PROVE  propose' = propose
  BY <1>4 DEF WorkerStep, FastSkip, FastExecute, SendEr, SlowReceive, SlowExecute,
     SendAsr, RemoveRecord, handlerVars
<1>5. ASSUME NEW s \in Server, RaftStep(s)
      PROVE  propose' = propose
  BY <1>5 DEF RaftStep, ListenRaftState, RaftCommit, RaftDrop, handlerVars
<1> QED BY <1>1, <1>2, <1>3, <1>4, <1>5 DEF Next, vars, handlerVars

\* Only ProposeLeader hands a command to Raft.
LEMMA ProposeCSteps ==
    ASSUME TypeInv, [Next]_vars
    PROVE  \/ \E s \in Server, c \in Command : ProposeLeader(s, c)
           \/ \A t \in Server : proposeC'[t] \subseteq proposeC[t]
<1>1. ASSUME NEW s \in Server, NEW c \in Command, HandlerStep(s, c)
      PROVE  ProposeLeader(s, c) \/ proposeC' = proposeC
  BY <1>1 DEF HandlerStep, ProposeInsert, ProposeFollower, WaitForEr, ReceiveEr,
     WaitForAsr, ReceiveAsr, FinishAsr, raftVars
<1>2. ASSUME NEW s \in Server, WorkerStep(s)
      PROVE  proposeC' = proposeC
  BY <1>2 DEF WorkerStep, FastSkip, FastExecute, SendEr, SlowReceive, SlowExecute,
     SendAsr, RemoveRecord, raftVars
<1>3. ASSUME NEW s \in Server, RaftStep(s), NEW t \in Server
      PROVE  proposeC'[t] \subseteq proposeC[t]
  <2>0. proposeC \in [Server -> SUBSET Command]
    BY DEF TypeInv, TypeOK
  <2>1. \/ proposeC' = proposeC
        \/ \E c \in Command : proposeC' = [proposeC EXCEPT ![s] = @ \ {c}]
    BY <1>3 DEF RaftStep, ListenRaftState, RaftCommit, RaftDrop
  <2> QED BY <2>0, <2>1
<1> QED BY <1>1, <1>2, <1>3 DEF Next, vars, raftVars

\* Raft only ever holds commands whose handler has started.
LEMMA ProposedAlways == Spec => []Proposed
<1>1. Init => Proposed
  BY DEF Init, Proposed
<1>2. TypeInv /\ Proposed /\ [Next]_vars => Proposed'
  <2> SUFFICES ASSUME TypeInv, Proposed, [Next]_vars,
                      NEW t \in Server, NEW d \in proposeC'[t]
               PROVE  propose'[t][d].pc # "idle"
    BY DEF Proposed
  <2>0. /\ proposeC \in [Server -> SUBSET Command]
        /\ propose \in [Server -> [Command -> [pc : ProposePC, isConflict : BOOLEAN]]]
    BY DEF TypeInv, TypeOK
  <2>1. ASSUME NEW s \in Server, NEW c \in Command, ProposeLeader(s, c)
        PROVE  propose'[t][d].pc # "idle"
    BY <2>0, <2>1 DEF ProposeLeader, Proposed
  <2>2. CASE proposeC'[t] \subseteq proposeC[t]
    <3>1. d \in Command /\ propose[t][d].pc # "idle"
      BY <2>0, <2>2 DEF Proposed
    <3>2. ASSUME NEW s \in Server, NEW c \in Command, ProposeInsert(s, c)
          PROVE  propose'[t][d].pc # "idle"
      BY <2>0, <3>1, <3>2 DEF ProposeInsert
    <3> QED BY <3>1, <3>2, VerdictSteps
  <2> QED BY <2>1, <2>2, ProposeCSteps
<1> QED BY <1>1, <1>2, TypeInvAlways, PTL DEF Spec

-----------------------------------------------------------------------------
(* Steps of the replicas as steps of CurpProtocol.                         *)

\* The mapped answers, written once.
answers == [s \in Server |-> [c \in Command |-> Verdict(s, c)]]

\* Both specifications mean the same by interference.
LEMMA SameInterference ==
    ASSUME NEW c, NEW d
    PROVE  Protocol!Interferes(c, d) <=> Interferes(c, d)
BY DEF Protocol!Interferes, Interferes, Protocol!Writes, Writes

\* Propose's first step accepts or refuses.
LEMMA InsertRefines ==
    ASSUME TypeInv, UniqueIds, NEW s \in Server, NEW c \in Command, ProposeInsert(s, c)
    PROVE  Protocol!Accept(s, c) \/ Protocol!Refuse(s, c)
<1>0. /\ witness \in [Server -> SUBSET Command]
      /\ propose \in [Server -> [Command -> [pc : ProposePC, isConflict : BOOLEAN]]]
  BY DEF TypeInv, TypeOK
<1> DEFINE v == Status(HasConflictWith(witness[s], c))
<1>1. /\ answers[s][c] = Nil
      /\ answers' = [answers EXCEPT ![s][c] = v]
  <2>1. Verdict(s, c) = Nil /\ Verdict(s, c)' = v
    BY <1>0 DEF ProposeInsert, Verdict, Status
  <2>2. \A t \in Server, d \in Command :
           t # s \/ d # c => Verdict(t, d)' = Verdict(t, d)
    BY <1>0 DEF ProposeInsert, Verdict
  <2> HIDE DEF v
  <2> QED BY <2>1, <2>2 DEF answers
<1>2. UNCHANGED <<log, applied>>
  BY DEF ProposeInsert, raftVars, execVars
<1>3. CASE HasConflictWith(witness[s], c)
  <2>1. witness' = witness
    BY <1>0, <1>3 DEF ProposeInsert, InsertIfNotConflict
  <2>2. \E d \in witness[s] : Protocol!Interferes(d, c)
    BY <1>0, <1>3, SameInterference, ConflictIsInterference DEF HasConflictWith
  <2>3. v = "CONFLICT"
    BY <1>3 DEF Status
  <2> QED BY <1>1, <1>2, <2>1, <2>2, <2>3 DEF Protocol!Refuse, answers
<1>4. CASE ~HasConflictWith(witness[s], c)
  <2>1. InsertIfNotConflict(witness[s], c) = witness[s] \cup {c}
    BY <1>0, <1>4 DEF InsertIfNotConflict, UniqueIds
  <2>2. witness' = [witness EXCEPT ![s] = @ \cup {c}]
    BY <2>1 DEF ProposeInsert
  <2>3. \A d \in witness[s] : ~Protocol!Interferes(d, c)
    BY <1>0, <1>4, SameInterference, ConflictIsInterference DEF HasConflictWith
  <2>4. v = "ACCEPTED"
    BY <1>4 DEF Status
  <2> QED BY <1>1, <1>2, <2>2, <2>3, <2>4 DEF Protocol!Accept, answers
<1> QED BY <1>3, <1>4

\* removeRecord forgets the record of an applied command, if there is one.
LEMMA RemoveRefines ==
    ASSUME TypeInv, UniqueIds, NEW s \in Server, RemoveRecord(s)
    PROVE  \/ witness' = witness
           \/ \E c \in Command : /\ c \in witness[s] \cap AppliedAt(s)
                                 /\ witness' = [witness EXCEPT ![s] = @ \ {c}]
<1>0. witness \in [Server -> SUBSET Command]
  BY DEF TypeInv, TypeOK
<1>1. /\ worker[s].cmd \in Command
      /\ applied[s] \in 1..Len(log) /\ worker[s].cmd = log[applied[s]]
  BY DEF RemoveRecord, TypeInv, WorkerOK
<1> DEFINE c == worker[s].cmd
<1>2. c \in AppliedAt(s)
  BY <1>1 DEF AppliedAt, TypeInv, TypeOK
<1>3. Remove(witness[s], c.id) = witness[s] \ {c}
  BY <1>0, <1>1 DEF Remove, UniqueIds
<1>4. witness' = [witness EXCEPT ![s] = @ \ {c}]
  BY <1>3 DEF RemoveRecord
<1>5. CASE c \in witness[s]
  BY <1>1, <1>2, <1>4, <1>5
<1>6. CASE c \notin witness[s]
  BY <1>0, <1>4, <1>6
<1> QED BY <1>5, <1>6

\* Only SlowExecute advances applied, only RaftCommit extends the log.
LEMMA LogSteps ==
    ASSUME [Next]_vars
    PROVE  \/ \E s \in Server, c \in Command : RaftCommit(s, c)
           \/ \E s \in Server : SlowExecute(s)
           \/ UNCHANGED <<log, applied>>
<1>1. ASSUME NEW s \in Server, NEW c \in Command, HandlerStep(s, c)
      PROVE  UNCHANGED <<log, applied>>
  BY <1>1 DEF HandlerStep, ProposeInsert, ProposeFollower, ProposeLeader, WaitForEr,
     ReceiveEr, WaitForAsr, ReceiveAsr, FinishAsr, raftVars, execVars
<1>2. ASSUME NEW s \in Server, WorkerStep(s)
      PROVE  SlowExecute(s) \/ UNCHANGED <<log, applied>>
  BY <1>2 DEF WorkerStep, FastSkip, FastExecute, SendEr, SlowReceive, SendAsr,
     RemoveRecord, raftVars
<1>3. ASSUME NEW s \in Server, RaftStep(s)
      PROVE  (\E c \in Command : RaftCommit(s, c)) \/ UNCHANGED <<log, applied>>
  BY <1>3 DEF RaftStep, ListenRaftState, RaftDrop, execVars
<1> QED BY <1>1, <1>2, <1>3 DEF Next, vars, raftVars, execVars

\* Every step of the replicas is a step of CurpProtocol or a stutter.
LEMMA StepRefines ==
    ASSUME TypeInv, Proposed, UniqueIds, [Next]_vars
    PROVE  [Protocol!Next]_(Protocol!vars)
<1>0. /\ witness \in [Server -> SUBSET Command]
      /\ proposeC \in [Server -> SUBSET Command]
  BY DEF TypeInv, TypeOK
<1>1. ASSUME NEW s \in Server, NEW c \in Command, ProposeInsert(s, c)
      PROVE  Protocol!Next
  BY <1>1, InsertRefines DEF Protocol!Next
<1>2. CASE \A t \in Server, d \in Command : Verdict(t, d)' = Verdict(t, d)
  <2>0. answers' = answers
    BY <1>2 DEF answers
  <2>1. ASSUME NEW s \in Server, NEW c \in Command, RaftCommit(s, c)
        PROVE  Protocol!Next
    <3>1. Verdict(s, c) # Nil
      <4>1. propose[s][c].pc # "idle"
        BY <1>0, <2>1 DEF RaftCommit, Proposed
      <4>2. Status(propose[s][c].isConflict) \in StatusCode
        BY DEF Status, StatusCode
      <4> QED BY <4>1, <4>2, NilAssumption DEF Verdict
    <3>2. answers[s][c] # Nil
      BY <3>1 DEF answers
    <3>3. Protocol!Order(s, c)
      BY <2>0, <2>1, <3>2 DEF Protocol!Order, RaftCommit, answers, execVars
    <3> QED BY <3>3 DEF Protocol!Next
  <2>2. ASSUME NEW s \in Server, SlowExecute(s)
        PROVE  Protocol!Next
    <3>1. applied[s] < Len(log)
      BY <2>2 DEF SlowExecute, TypeInv, WorkerOK
    <3>2. Protocol!Apply(s)
      BY <2>0, <2>2, <3>1 DEF Protocol!Apply, SlowExecute, answers, raftVars
    <3> QED BY <3>2 DEF Protocol!Next
  <2>3. ASSUME NEW s \in Server, RemoveRecord(s)
        PROVE  Protocol!Next \/ UNCHANGED Protocol!vars
    <3>1. UNCHANGED <<log, applied>>
      BY <2>3 DEF RemoveRecord, raftVars
    <3>2. CASE witness' = witness
      BY <2>0, <3>1, <3>2 DEF Protocol!vars, answers
    <3>3. ASSUME NEW c \in Command, c \in witness[s] \cap AppliedAt(s),
                 witness' = [witness EXCEPT ![s] = @ \ {c}]
          PROVE  Protocol!Next
      <4>1. Protocol!Forget(s, c)
        BY <2>0, <3>1, <3>3 DEF Protocol!Forget, Protocol!AppliedAt, AppliedAt, answers
      <4> QED BY <4>1 DEF Protocol!Next
    <3> QED BY <2>3, <3>2, <3>3, RemoveRefines
  <2>4. ASSUME witness' = witness, UNCHANGED <<log, applied>>
        PROVE  UNCHANGED Protocol!vars
    BY <2>0, <2>4 DEF Protocol!vars, answers
  <2>5. CASE witness' = witness
    BY <2>1, <2>2, <2>4, <2>5, LogSteps
  <2> QED BY <1>1, <2>3, <2>5, WitnessSteps
<1> QED BY <1>1, <1>2, VerdictSteps

\* With unique ids the replicas keep records as CurpProtocol says.
THEOREM ReplicasKeepRecords ==
    ASSUME UniqueIds
    PROVE  Spec => KeepsRecords
<1>1. Init => Protocol!Init
  <2> SUFFICES ASSUME Init PROVE Protocol!Init
    OBVIOUS
  <2>1. \A s \in Server, c \in Command : Verdict(s, c) = Nil
    BY DEF Init, Verdict
  <2> QED BY <2>1 DEF Init, Protocol!Init, NewWitness
<1>2. TypeInv /\ Proposed /\ [Next]_vars => [Protocol!Next]_(Protocol!vars)
  BY StepRefines
<1> QED BY <1>1, <1>2, TypeInvAlways, ProposedAlways, PTL
       DEF Spec, KeepsRecords, Protocol!Spec
=============================================================================
