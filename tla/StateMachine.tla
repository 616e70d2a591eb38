---------------------------- MODULE StateMachine ----------------------------
(***************************************************************************)
(* The CURP replicas (curp/state.go): on every server the Propose and      *)
(* WaitSynced RPC handlers, the cmd_worker goroutine that executes         *)
(* commands from the fast and the slow path, the witness and the command   *)
(* board they share, and the listener of Raft's state.                     *)
(*                                                                         *)
(* The environment is open: once some server has answered that it is the   *)
(* leader, clients send each command of Command to every server at any     *)
(* time, and call WaitSynced as curp/client_grpc.go and curp/client.go do. *)
(* Raft is external: a shared committed log to which proposals are         *)
(* appended in any order.                                                  *)
(***************************************************************************)
EXTENDS Witness, CommandBoard, FiniteSets

CONSTANTS
    Server,           \* the replicas
    Command,          \* the commands the clients issue
    SyncCommand,      \* bound: those whose client goes on to WaitSynced
    MaxStateChanges,  \* bound: Raft state changes the listeners receive
    MaxCommits,       \* bound: entries of the Raft log
    MaxDrops          \* bound: proposals that Raft loses

ASSUME CommandAssumption == Command \subseteq CurpClientCommand
ASSUME SyncAssumption    == SyncCommand \subseteq Command
ASSUME ServerAssumption  == IsFiniteSet(Server)
ASSUME BoundAssumption   == {MaxStateChanges, MaxCommits, MaxDrops} \subseteq Nat

\* GetProposeId's counter gives a client's commands different ids for as
\* long as the client process lives.  Only some properties depend on it.
UniqueIds == \A c1, c2 \in Command : c1.id = c2.id => c1 = c2

\* StateFollower stands for every state that is not StateLeader: state.go
\* only ever asks whether the state is StateLeader.
RaftState == {"StateFollower", "StateLeader"}

VARIABLES
    raftState,     \* raftState[s]: s.raftState, as the listener last set it
    witness,       \* witness[s]: s.witness.commandMap
    board,         \* board[s]: s.commandBoard
    kv,            \* kv[s]: s.KVStore
    commandSet,    \* commandSet[s]: s.commandSet
    fastPath,      \* fastPath[s]: sent or about to be sent to s.fastPath
    proposeC,      \* proposeC[s]: sent or about to be sent to s.proposeC
    worker,        \* worker[s]: control state of s.cmd_worker
    propose,       \* propose[s][c]: control state of the handler Propose(c)
    reply,         \* reply[s][c]: what Propose(c) answered, or Nil
    waitSynced,    \* waitSynced[s][c]: control state of WaitSynced(c.id)
    syncReply,     \* syncReply[s][c]: the content it answered, or Nil
    log,           \* the committed Raft log (external)
    applied,       \* applied[s]: entries the slow path of s has executed
    led,           \* servers that have been leader: the LeaderIds of clients
    stateChanges,  \* counts against MaxStateChanges
    drops          \* counts against MaxDrops

\* History variables: they record what happened and guide no step.
VARIABLES
    logState,      \* logState[i + 1]: the store that log entries 1..i mean
    executed,      \* executed[s]: the commands s has executed so far
    speculative    \* speculative[s]: keys whose value at s was last decided
                   \* by the fast path, or would have been by a command that
                   \* the slow path skipped because s had executed it

boardVars   == <<board>>
handlerVars == <<propose, reply, waitSynced, syncReply>>
raftVars    == <<log, logState, proposeC, drops, raftState, stateChanges, led>>
execVars    == <<kv, commandSet, fastPath, worker, applied, executed, speculative>>
vars == <<witness, boardVars, handlerVars, raftVars, execVars>>

WorkerPC  == {"select", "notifyEr", "slow", "notifyAsr", "removeRecord"}
ProposePC == {"idle", "inserted", "waitForEr", "parked", "done"}
SyncPC    == {"idle", "parked", "woken", "done"}

TypeOK ==
    /\ raftState \in [Server -> RaftState]
    /\ witness \in [Server -> SUBSET Command]
    /\ board \in [Server -> Board]
    /\ kv \in [Server -> Store]
    /\ commandSet \in [Server -> SUBSET ProposeId]
    /\ fastPath \in [Server -> SUBSET Command]
    /\ proposeC \in [Server -> SUBSET Command]
    /\ worker \in [Server -> [pc : WorkerPC, cmd : Command \cup {Nil},
                              isLeader : BOOLEAN]]
    /\ propose \in [Server -> [Command -> [pc : ProposePC, isConflict : BOOLEAN]]]
    /\ reply \in [Server -> [Command -> CurpReply \cup {Nil}]]
    /\ waitSynced \in [Server -> [Command -> SyncPC]]
    /\ syncReply \in [Server -> [Command -> Content \cup {Nil}]]
    /\ log \in Seq(Command)
    /\ logState \in Seq(Store)
    /\ applied \in [Server -> Nat]
    /\ led \in SUBSET Server
    /\ stateChanges \in Nat
    /\ drops \in Nat
    /\ executed \in [Server -> SUBSET Command]
    /\ speculative \in [Server -> SUBSET Key]

Idle == [pc |-> "select", cmd |-> Nil, isLeader |-> FALSE]

Init ==
    /\ raftState = [s \in Server |-> "StateFollower"]
    /\ witness = [s \in Server |-> NewWitness]
    /\ board = [s \in Server |-> NewBoard]
    /\ kv = [s \in Server |-> NewMemStore]
    /\ commandSet = [s \in Server |-> {}]
    /\ fastPath = [s \in Server |-> {}]
    /\ proposeC = [s \in Server |-> {}]
    /\ worker = [s \in Server |-> Idle]
    /\ propose = [s \in Server |-> [c \in Command |->
                      [pc |-> "idle", isConflict |-> FALSE]]]
    /\ reply = [s \in Server |-> [c \in Command |-> Nil]]
    /\ waitSynced = [s \in Server |-> [c \in Command |-> "idle"]]
    /\ syncReply = [s \in Server |-> [c \in Command |-> Nil]]
    /\ log = <<>>
    /\ logState = <<NewMemStore>>
    /\ applied = [s \in Server |-> 0]
    /\ led = {}
    /\ stateChanges = 0
    /\ drops = 0
    /\ executed = [s \in Server |-> {}]
    /\ speculative = [s \in Server |-> {}]

-----------------------------------------------------------------------------
(* Propose(cmd), one goroutine for each call.                              *)

\* The board's mutex is free: only a worker blocked on a send holds it
\* between two steps.
BoardFree(s) == worker[s].pc \notin {"notifyEr", "notifyAsr"}

Status(isConflict) == IF isConflict THEN "CONFLICT" ELSE "ACCEPTED"

\* Under the witness mutex, before the server's mutex is taken.  A client
\* exists only once it has found a leader.
ProposeInsert(s, c) ==
    /\ led # {}
    /\ propose[s][c].pc = "idle"
    /\ witness' = [witness EXCEPT ![s] = InsertIfNotConflict(@, c)]
    /\ propose' = [propose EXCEPT ![s][c] =
                      [pc |-> "inserted", isConflict |-> HasConflictWith(witness[s], c)]]
    /\ UNCHANGED <<boardVars, reply, waitSynced, syncReply, raftVars, execVars>>

\* Under s.mu: a replica that is not the leader answers at once.
ProposeFollower(s, c) ==
    /\ propose[s][c].pc = "inserted"
    /\ raftState[s] # "StateLeader"
    /\ propose' = [propose EXCEPT ![s][c].pc = "done"]
    /\ reply' = [reply EXCEPT ![s][c] =
                    [content |-> Empty, status |-> Status(propose[s][c].isConflict)]]
    /\ UNCHANGED <<witness, boardVars, waitSynced, syncReply, raftVars, execVars>>

\* Under s.mu: the leader starts two goroutines, one sends the command to
\* the fast path and one proposes it to Raft.
ProposeLeader(s, c) ==
    /\ propose[s][c].pc = "inserted"
    /\ raftState[s] = "StateLeader"
    /\ propose' = [propose EXCEPT ![s][c].pc = "waitForEr"]
    /\ fastPath' = [fastPath EXCEPT ![s] = @ \cup {c}]
    /\ proposeC' = [proposeC EXCEPT ![s] = @ \cup {c}]
    /\ UNCHANGED <<witness, boardVars, reply, waitSynced, syncReply,
                   log, logState, drops, raftState, stateChanges, led,
                   kv, commandSet, worker, applied, executed, speculative>>

Answer(s, c, content) ==
    /\ propose' = [propose EXCEPT ![s][c].pc = "done"]
    /\ reply' = [reply EXCEPT ![s][c] =
                    [content |-> content, status |-> Status(propose[s][c].isConflict)]]

\* WaitForEr's critical section: answer from erBuffer, or park.
WaitForEr(s, c) ==
    /\ propose[s][c].pc = "waitForEr"
    /\ BoardFree(s)
    /\ \/ /\ board[s].erBuffer[c.id] # Nil
          /\ Answer(s, c, board[s].erBuffer[c.id])
          /\ UNCHANGED boardVars
       \/ /\ board[s].erBuffer[c.id] = Nil
          /\ propose' = [propose EXCEPT ![s][c].pc = "parked"]
          /\ board' = [board EXCEPT ![s] = ParkForEr(@, c.id)]
          /\ UNCHANGED reply
    /\ UNCHANGED <<witness, waitSynced, syncReply, raftVars, execVars>>

\* The parked handler receives the result from the notifier.
ReceiveEr(s, c) ==
    /\ propose[s][c].pc = "parked"
    /\ board[s].erNotifiers[c.id] # <<>>
    /\ Answer(s, c, board[s].erNotifiers[c.id][1])
    /\ board' = [board EXCEPT ![s] = DrainEr(@, c.id)]
    /\ UNCHANGED <<witness, waitSynced, syncReply, raftVars, execVars>>

-----------------------------------------------------------------------------
(* WaitSynced(id), one goroutine for each call.                            *)

Answered(c, status) ==
    {s \in Server : reply[s][c] # Nil /\ reply[s][c].status = status}

\* A client turns to the slow round when a server reports a conflict, and
\* the client of client.go also after a super quorum accepted: its fast
\* round never adopts a reply.
SlowRoundDue(c) ==
    \/ Answered(c, "CONFLICT") # {}
    \/ Cardinality(Answered(c, "ACCEPTED")) >= SuperQuorom(Cardinality(Server))

\* WaitForAsr's first critical section.  The client calls one server, the
\* one that was the leader when the client was created.
WaitForAsr(s, c) ==
    /\ \A t \in Server : waitSynced[t][c] = "idle"
    /\ c \in SyncCommand
    /\ s \in led
    /\ SlowRoundDue(c)
    /\ BoardFree(s)
    /\ \/ /\ AsrReady(board[s], c.id)
          /\ waitSynced' = [waitSynced EXCEPT ![s][c] = "done"]
          /\ syncReply' = [syncReply EXCEPT ![s][c] = board[s].erBuffer[c.id]]
          /\ board' = [board EXCEPT ![s] = Forget(@, c.id)]
       \/ /\ ~AsrReady(board[s], c.id)
          /\ waitSynced' = [waitSynced EXCEPT ![s][c] = "parked"]
          /\ board' = [board EXCEPT ![s] = ParkForAsr(@, c.id)]
          /\ UNCHANGED syncReply
    /\ UNCHANGED <<witness, propose, reply, raftVars, execVars>>

\* The receive from the notifier, without the mutex.
ReceiveAsr(s, c) ==
    /\ waitSynced[s][c] = "parked"
    /\ board[s].asrNotifiers[c.id] # <<>>
    /\ waitSynced' = [waitSynced EXCEPT ![s][c] = "woken"]
    /\ board' = [board EXCEPT ![s] = DrainAsr(@, c.id)]
    /\ UNCHANGED <<witness, propose, reply, syncReply, raftVars, execVars>>

\* WaitForAsr's second critical section.
FinishAsr(s, c) ==
    /\ waitSynced[s][c] = "woken"
    /\ BoardFree(s)
    /\ waitSynced' = [waitSynced EXCEPT ![s][c] = "done"]
    /\ syncReply' = [syncReply EXCEPT ![s][c] =
                        IF board[s].erBuffer[c.id] # Nil
                        THEN board[s].erBuffer[c.id] ELSE NotFoundInBuffer]
    /\ board' = [board EXCEPT ![s] = Forget(@, c.id)]
    /\ UNCHANGED <<witness, propose, reply, raftVars, execVars>>

-----------------------------------------------------------------------------
(* cmd_worker: one goroutine that serves the fast and the slow path.  The  *)
(* store and commandSet are its own, so a command is executed in the same  *)
(* step as the critical section of the board that follows.                 *)

\* A command from the fast path that is in commandSet: nothing to do.
FastSkip(s, c) ==
    /\ worker[s].pc = "select"
    /\ c \in fastPath[s]
    /\ c.id \in commandSet[s]
    /\ fastPath' = [fastPath EXCEPT ![s] = @ \ {c}]
    /\ UNCHANGED <<witness, boardVars, handlerVars, raftVars,
                   kv, commandSet, worker, applied, executed, speculative>>

\* executeSync, then InsertEr; if a handler is parked the worker goes on to
\* send, holding the board's mutex.
FastExecute(s, c) ==
    /\ worker[s].pc = "select"
    /\ c \in fastPath[s]
    /\ c.id \notin commandSet[s]
    /\ fastPath' = [fastPath EXCEPT ![s] = @ \ {c}]
    /\ commandSet' = [commandSet EXCEPT ![s] = @ \cup {c.id}]
    /\ kv' = [kv EXCEPT ![s] = ExecuteSync(@, c)]
    /\ board' = [board EXCEPT ![s] = InsertEr(@, c.id, ExecuteSyncResult(kv[s], c))]
    /\ worker' = IF Sends(board[s].erNotifiers[c.id])
                 THEN [worker EXCEPT ![s] =
                          [pc |-> "notifyEr", cmd |-> c, isLeader |-> FALSE]]
                 ELSE worker
    /\ executed' = [executed EXCEPT ![s] = @ \cup {c}]
    /\ speculative' = [speculative EXCEPT ![s] = @ \cup {k \in Key : Writes(c, k)}]
    /\ UNCHANGED <<witness, handlerVars, raftVars, applied>>

\* NotifyEr's send.
SendEr(s) ==
    /\ worker[s].pc = "notifyEr"
    /\ CanSend(board[s].erNotifiers[worker[s].cmd.id])
    /\ board' = [board EXCEPT ![s] = NotifyEr(@, worker[s].cmd.id)]
    /\ worker' = [worker EXCEPT ![s] = Idle]
    /\ UNCHANGED <<witness, handlerVars, raftVars,
                   kv, commandSet, fastPath, applied, executed, speculative>>

\* The next committed entry arrives on the slow path; the worker reads
\* under s.mu whether the server is the leader.
SlowReceive(s) ==
    /\ worker[s].pc = "select"
    /\ applied[s] < Len(log)
    /\ worker' = [worker EXCEPT ![s] =
                      [pc |-> "slow", cmd |-> log[applied[s] + 1],
                       isLeader |-> raftState[s] = "StateLeader"]]
    /\ UNCHANGED <<witness, boardVars, handlerVars, raftVars,
                   kv, commandSet, fastPath, applied, executed, speculative>>

\* Mutant: every server skips a command of commandSet.
AlreadyExecutedAnyRole(s) == worker[s].cmd.id \in commandSet[s]

\* Only a leader skips a command of commandSet.
AlreadyExecuted(s) ==
    worker[s].cmd.id \in commandSet[s] /\ worker[s].isLeader

\* executeAsync unless already executed, then NotifyAsr up to its send.
SlowExecute(s) ==
    LET c == worker[s].cmd IN
    /\ worker[s].pc = "slow"
    /\ applied' = [applied EXCEPT ![s] = @ + 1]
    /\ \/ /\ AlreadyExecuted(s)
          /\ UNCHANGED <<kv, commandSet, executed>>
       \/ /\ ~AlreadyExecuted(s)
          /\ commandSet' = [commandSet EXCEPT ![s] = @ \cup {c.id}]
          /\ kv' = [kv EXCEPT ![s] = ExecuteAsync(@, c)]
          /\ executed' = [executed EXCEPT ![s] = @ \cup {c}]
    /\ speculative' = [speculative EXCEPT ![s] =
                          IF /\ worker[s].isLeader
                             /\ c.id \in commandSet[s]
                             /\ c \in executed[s]
                          THEN @ \cup {k \in Key : Writes(c, k)}
                          ELSE {k \in @ : ~Writes(c, k)}]
    /\ board' = [board EXCEPT ![s] = InsertAsr(@, c.id)]
    /\ worker' = [worker EXCEPT ![s].pc =
                      IF Sends(board[s].asrNotifiers[c.id])
                      THEN "notifyAsr" ELSE "removeRecord"]
    /\ UNCHANGED <<witness, handlerVars, raftVars, fastPath>>

\* NotifyAsr's send.
SendAsr(s) ==
    /\ worker[s].pc = "notifyAsr"
    /\ CanSend(board[s].asrNotifiers[worker[s].cmd.id])
    /\ board' = [board EXCEPT ![s] = NotifyAsr(@, worker[s].cmd.id)]
    /\ worker' = [worker EXCEPT ![s].pc = "removeRecord"]
    /\ UNCHANGED <<witness, handlerVars, raftVars,
                   kv, commandSet, fastPath, applied, executed, speculative>>

\* removeRecord: the witness record and the commandSet entry go.
RemoveRecord(s) ==
    /\ worker[s].pc = "removeRecord"
    /\ witness' = [witness EXCEPT ![s] = Remove(@, worker[s].cmd.id)]
    /\ commandSet' = [commandSet EXCEPT ![s] = @ \ {worker[s].cmd.id}]
    /\ worker' = [worker EXCEPT ![s] = Idle]
    /\ UNCHANGED <<boardVars, handlerVars, raftVars,
                   kv, fastPath, applied, executed, speculative>>

-----------------------------------------------------------------------------
(* listenRaftState, and Raft itself (external).                            *)

ListenRaftState(s, state) ==
    /\ stateChanges < MaxStateChanges
    /\ raftState[s] # state
    /\ raftState' = [raftState EXCEPT ![s] = state]
    /\ stateChanges' = stateChanges + 1
    /\ led' = IF state = "StateLeader" THEN led \cup {s} ELSE led
    /\ UNCHANGED <<witness, boardVars, handlerVars, log, logState, proposeC, drops, execVars>>

\* A proposal of s is committed; concurrent proposals commit in any order.
RaftCommit(s, c) ==
    /\ Len(log) < MaxCommits
    /\ c \in proposeC[s]
    /\ proposeC' = [proposeC EXCEPT ![s] = @ \ {c}]
    /\ log' = Append(log, c)
    /\ logState' = Append(logState, Meaning(logState[Len(logState)], c))
    /\ UNCHANGED <<witness, boardVars, handlerVars, raftState, stateChanges, led, drops, execVars>>

\* A proposal of s is lost with the leader that held it; the error of
\* node.Propose is ignored and nobody proposes it again.
RaftDrop(s, c) ==
    /\ drops < MaxDrops
    /\ c \in proposeC[s]
    /\ proposeC' = [proposeC EXCEPT ![s] = @ \ {c}]
    /\ drops' = drops + 1
    /\ UNCHANGED <<witness, boardVars, handlerVars, log, logState,
                   raftState, stateChanges, led, execVars>>

-----------------------------------------------------------------------------
HandlerStep(s, c) ==
    \/ ProposeInsert(s, c)
    \/ ProposeFollower(s, c)
    \/ ProposeLeader(s, c)
    \/ WaitForEr(s, c)
    \/ ReceiveEr(s, c)
    \/ WaitForAsr(s, c)
    \/ ReceiveAsr(s, c)
    \/ FinishAsr(s, c)

WorkerStep(s) ==
    \/ \E c \in Command : FastSkip(s, c) \/ FastExecute(s, c)
    \/ SendEr(s)
    \/ SlowReceive(s)
    \/ SlowExecute(s)
    \/ SendAsr(s)
    \/ RemoveRecord(s)

RaftStep(s) ==
    \/ \E state \in RaftState : ListenRaftState(s, state)
    \/ \E c \in Command : RaftCommit(s, c) \/ RaftDrop(s, c)

Next ==
    \E s \in Server :
        \/ \E c \in Command : HandlerStep(s, c)
        \/ WorkerStep(s)
        \/ RaftStep(s)

Spec == Init /\ [][Next]_vars

\* The steps of s that are not left to clients and elections: its goroutines,
\* and Raft's commits of what it does not lose.
RunnableStep(s) ==
    \/ \E c \in Command :
          \/ ProposeFollower(s, c) \/ ProposeLeader(s, c)
          \/ WaitForEr(s, c) \/ ReceiveEr(s, c)
          \/ ReceiveAsr(s, c) \/ FinishAsr(s, c)
          \/ RaftCommit(s, c)
    \/ WorkerStep(s)

\* The Go scheduler does not leave a server with goroutines that can run
\* idle.  Each of them is served, since none runs for ever: every step takes
\* a handler, a command or a log entry further.
Fairness == \A s \in Server : WF_vars(RunnableStep(s))

FairSpec == Spec /\ Fairness

-----------------------------------------------------------------------------
(* Properties.                                                             *)

\* The commands the slow path of s has executed, and those it has yet to.
AppliedAt(s) == {log[i] : i \in 1..applied[s]}
PendingAt(s) == {log[i] : i \in applied[s] + 1 .. Len(log)}

\* Propose(c) recorded c in the witness of s, or promised its client so.
AcceptedAt(s, c) == propose[s][c].pc # "idle" /\ ~propose[s][c].isConflict

\* The records of a witness have different ids and can be replayed in any
\* order: InsertIfNotConflict refuses a command that writes the key of a
\* recorded one, or that a recorded one writes, whatever the workers of the
\* server removed in between and even when ids are reused.
WitnessCommutes ==
    \A s \in Server : \A c1, c2 \in witness[s] :
        c1 # c2 => c1.id # c2.id /\ ~Interferes(c1, c2)

\* A server that took a command without reporting a conflict still has it:
\* the record is in the witness until the slow path of that same server has
\* executed the command (removeRecord removes nothing else).
AcceptedIsRecorded ==
    UniqueIds => \A s \in Server, c \in Command :
        AcceptedAt(s, c) => c \in witness[s] \cup AppliedAt(s)

\* A server accepts two interfering commands only if the Raft log has fixed
\* the place of one of them and the server has executed it.
InterferingAcceptsOrdered ==
    UniqueIds => \A s \in Server : \A c1, c2 \in Command :
        /\ c1 # c2
        /\ Interferes(c1, c2)
        /\ AcceptedAt(s, c1)
        /\ AcceptedAt(s, c2)
        => c1 \in AppliedAt(s) \/ c2 \in AppliedAt(s)

\* What Propose(c) has found in the witness of s.
Verdict(s, c) == IF propose[s][c].pc = "idle" THEN Nil
                 ELSE Status(propose[s][c].isConflict)

\* The replicas are the record-keeping that CurpProtocol describes.
Protocol == INSTANCE CurpProtocol WITH
                records <- witness,
                answer  <- [s \in Server |-> [c \in Command |-> Verdict(s, c)]],
                order   <- log

\* With unique ids, handlers, workers and Raft together keep records as
\* CurpProtocol says: they accept, refuse, order, apply and forget commands
\* only when that specification allows it.
KeepsRecords == Protocol!Spec

\* With unique ids, the store of a replica is the meaning of the log prefix
\* it has applied, at every key that the slow path decided last: whatever
\* the fast path did before, a follower executes every command of the log,
\* and a leader every one that it has not executed itself.  (With reused ids
\* a leader also skips commands that it never executed, and their writes
\* are lost to its store.)
StoreMatchesLog ==
    UniqueIds => \A s \in Server : \A k \in Key \ speculative[s] :
        kv[s][k] = logState[applied[s] + 1][k]

\* WaitSynced gives its client the same result as Propose did, unless it
\* admits to have none: executing the command again on the slow path
\* changes no result.
SyncAgreesWithPropose ==
    UniqueIds => \A s \in Server, c \in Command :
        /\ reply[s][c] # Nil
        /\ syncReply[s][c] \notin {Nil, NotFoundInBuffer}
        => syncReply[s][c] = reply[s][c].content

\* The worker never blocks in NotifyEr, where it would hold the board's
\* mutex against every handler: a command gets one result, and its notifier
\* has room for one.
SendErNeverBlocks ==
    UniqueIds => \A s \in Server :
        worker[s].pc = "notifyEr" => CanSend(board[s].erNotifiers[worker[s].cmd.id])

\* How often s has applied a command with this id.  More than once, when
\* several servers proposed the command as leaders or clients reuse the id.
TimesApplied(s, id) == Cardinality({i \in 1..applied[s] : log[i].id = id})

\* The worker comes back to its select from a command whose id it has applied
\* at most once before: the notifiers of the id, which nobody removes, have
\* room for one element, and the handler that made one takes one away.  The
\* third turn of an id may block in NotifyEr or NotifyAsr for ever.
WorkerReturns ==
    \A s \in Server :
        worker[s].pc \in {"notifyEr", "slow"} /\ TimesApplied(s, worker[s].cmd.id) <= 1
            ~> worker[s].pc = "select"

\* The worker of s stays in a send and keeps the board's mutex for ever.
\* WorkerReturns says when it does not.
BlockedForEver(s) == <>[]~BoardFree(s)

\* With unique ids Propose at a leader answers, except when WaitSynced has
\* thrown the result away before the handler looked (the handler then waits
\* for ever).
ProposeAnswered ==
    UniqueIds => \A s \in Server, c \in Command :
        \/ propose[s][c].pc = "waitForEr"
              ~> propose[s][c].pc = "done" \/ waitSynced[s][c] = "done"
        \/ BlockedForEver(s)

\* WaitSynced answers if it was called before the slow path of the server
\* reached the command.  Of several calls with one id one may get the signal
\* that was meant for another.
SyncAnswered ==
    \A s \in Server, c \in SyncCommand :
        \/ waitSynced[s][c] = "parked" /\ c \in PendingAt(s)
              ~> \E d \in Command : d.id = c.id /\ waitSynced[s][d] = "done"
        \/ BlockedForEver(s)

\* A record made before its command was applied is removed once the command
\* is in the log, so that later commands on the key are accepted again.
RecordEventuallyRemoved ==
    \A s \in Server, c \in Command :
        \/ c \in witness[s] /\ c \in PendingAt(s) ~> c \notin witness[s]
        \/ BlockedForEver(s)

-----------------------------------------------------------------------------
(* Statements of the source that its behaviour does not bear out.          *)

\* cmd_board.go, WaitForAsr: the last return is "UNREACHABLE".
NotFoundUnreachable ==
    \A s \in Server, c \in Command : syncReply[s][c] # NotFoundInBuffer

\* state.go, removeRecord: commands are idempotent, "we don't need to worry
\* about that some commands will be executed twice".  Executing a command a
\* second time leaves the store of a leader as it was.
ReexecutionHarmless ==
    [][\A s \in Server, c \in Command :
          FastExecute(s, c) /\ c \in executed[s] => kv'[s] = kv[s]]_vars
=============================================================================
