------------------------------ MODULE CurpNode ------------------------------
(***************************************************************************)
(* One server between Raft and cmd_worker (curp/raft.go, readCommits of    *)
(* curp/state.go, peerInfo.close of curp/server.go): the goroutine that    *)
(* hands proposals to Raft, the event loop that publishes committed        *)
(* entries and announces state changes, the reader that feeds the slow     *)
(* path, and shutdown.  etcd's raft.Node is external: it commits           *)
(* entries, finds and loses a leader, and delivers Ready batches.          *)
(***************************************************************************)
EXTENDS CurpCommand, FiniteSets

CONSTANTS
    Command,          \* commands, whichever server they were proposed to
    Proposal,         \* those that clients propose to this server
    SlowPathCap,      \* capacity of slowPath (1000 in the code)
    MaxEntries,       \* bound: committed entries
    MaxStateChanges,  \* bound: changes of the node's Raft state
    MaxEvents         \* bound: entries and changes together

ASSUME NodeAssumption ==
    /\ Command \subseteq CurpClientCommand /\ Proposal \subseteq Command
    /\ SlowPathCap \in Nat \ {0}
    /\ {MaxEntries, MaxStateChanges, MaxEvents} \subseteq Nat

RaftState == {"StateFollower", "StateCandidate", "StateLeader"}

\* A command, the empty entry of a new leader, or a configuration change.
Entry == [kind : {"command"}, cmd : Command]
         \cup [kind : {"empty", "addNode", "removeSelf"}, cmd : {Nil}]

VARIABLES
    log,           \* entries the node's Raft knows to be committed (external)
    hasLeader,     \* the node's Raft knows a leader (external)
    sending,       \* commands whose goroutine is about to send to proposeC
    proposeC,      \* the channel, of capacity one
    closing,       \* peerInfo.close has closed proposeC
    proposer,      \* goroutine that sends proposals over raft
    stopc,         \* stopc is closed
    loop,          \* the event loop of serveChannels, and the Ready it holds
    appliedIndex,  \* rc.appliedIndex
    reader,        \* readCommits: commands of the commit it still has to send
    slowPath,      \* the channel
    nodeState,     \* rc.raftState
    notices,       \* goroutines that send a state to stateChangeC
    stateChangeC,  \* the channel, of capacity one
    raftState,     \* s.raftState of the StateMachine
    stateChanges,  \* counts against MaxStateChanges
    process        \* "running" or "dead"

\* History variable.
VARIABLE
    received       \* what cmd_worker has taken from the slow path

raftVars    == <<log, hasLeader>>
proposeVars == <<sending, proposeC, closing, proposer, stopc>>
commitVars  == <<loop, appliedIndex, reader, slowPath, received>>
stateVars   == <<nodeState, notices, stateChangeC, raftState, stateChanges>>
nodeVars == <<raftVars, proposeVars, commitVars, stateVars, process>>

Select == [pc |-> "select", data |-> <<>>, last |-> 0, soft |-> Nil]

TypeOK ==
    /\ log \in Seq(Entry) /\ hasLeader \in BOOLEAN
    /\ sending \in SUBSET Proposal /\ proposeC \in Seq(Proposal)
    /\ closing \in BOOLEAN /\ proposer \in {"select", "proposing", "done"}
    /\ stopc \in BOOLEAN
    /\ loop.pc \in {"select", "publish", "failed", "stopped"}
    /\ loop.data \in Seq(Command) /\ loop.last \in Nat
    /\ loop.soft \in RaftState \cup {Nil}
    /\ appliedIndex \in Nat /\ reader \in Seq(Command)
    /\ slowPath \in Seq(Command) /\ Len(slowPath) <= SlowPathCap
    /\ nodeState \in RaftState
    /\ notices \in SUBSET (Nat \X RaftState)
    /\ stateChangeC \in Seq(RaftState) /\ raftState \in RaftState
    /\ process \in {"running", "dead"} /\ received \in Seq(Command)

\* newRaftNode, startRaft and newGrpcState.
Init ==
    /\ log = <<>> /\ hasLeader = FALSE /\ sending = {} /\ proposeC = <<>>
    /\ closing = FALSE /\ proposer = "select" /\ stopc = FALSE
    /\ loop = Select /\ appliedIndex = 0 /\ reader = <<>> /\ slowPath = <<>>
    /\ nodeState = "StateFollower" /\ notices = {} /\ stateChangeC = <<>>
    /\ raftState = "StateFollower" /\ received = <<>> /\ stateChanges = 0
    /\ process = "running"

-----------------------------------------------------------------------------
(* Raft (external).                                                        *)

RaftCommit(e) ==
    /\ Len(log) < MaxEntries /\ Len(log) + stateChanges < MaxEvents
    /\ log' = Append(log, e)
    /\ UNCHANGED <<hasLeader, proposeVars, commitVars, stateVars, process>>

RaftLeader(b) ==
    /\ hasLeader # b
    /\ hasLeader' = b
    /\ UNCHANGED <<log, proposeVars, commitVars, stateVars, process>>

-----------------------------------------------------------------------------
(* Proposals.                                                              *)

\* StateMachine.Propose starts a goroutine for the command.
StartSend(c) ==
    /\ c \notin sending
    /\ sending' = sending \cup {c}
    /\ UNCHANGED <<raftVars, proposeC, closing, proposer, stopc, commitVars, stateVars, process>>

\* The send panics if the channel has been closed meanwhile.
SendProposal(c) ==
    /\ c \in sending
    /\ sending' = sending \ {c}
    /\ \/ /\ closing
          /\ process' = "dead"
          /\ UNCHANGED proposeC
       \/ /\ ~closing /\ Len(proposeC) < 1
          /\ proposeC' = Append(proposeC, c)
          /\ UNCHANGED process
    /\ UNCHANGED <<raftVars, closing, proposer, stopc, commitVars, stateVars>>

ReceiveProposal ==
    /\ proposer = "select" /\ proposeC # <<>>
    /\ proposeC' = Tail(proposeC)
    /\ proposer' = "proposing"
    /\ UNCHANGED <<raftVars, sending, closing, stopc, commitVars, stateVars, process>>

\* node.Propose blocks while a node that runs has no leader, with a context
\* that is never cancelled; its error is ignored.
NodePropose ==
    /\ proposer = "proposing"
    /\ hasLeader \/ loop.pc = "stopped"
    /\ proposer' = "select"
    /\ UNCHANGED <<raftVars, sending, proposeC, closing, stopc, commitVars, stateVars, process>>

\* Mutant: the goroutine ends without closing stopc.
ProposerExitSilently ==
    /\ proposer = "select" /\ closing /\ proposeC = <<>>
    /\ proposer' = "done"
    /\ UNCHANGED <<raftVars, sending, proposeC, closing, stopc, commitVars, stateVars, process>>

\* The channel is closed and empty.
ProposerExit ==
    /\ proposer = "select" /\ closing /\ proposeC = <<>>
    /\ proposer' = "done"
    /\ stopc' = TRUE
    /\ UNCHANGED <<raftVars, sending, proposeC, closing, commitVars, stateVars, process>>

-----------------------------------------------------------------------------
(* The event loop.                                                         *)

\* Mutant: the first entry that is not applied is dropped too.
EntriesToApplyOffByOne(first, last) ==
    LET skip == appliedIndex - first + 2
        ents == SubSeq(log, first, last)
    IN  IF skip < Len(ents) THEN SubSeq(ents, skip + 1, Len(ents)) ELSE <<>>

\* Committed entries that come again are cut off.  The unsigned subtraction
\* of the code wraps from -1, and adding one wraps it back to zero.
EntriesToApply(first, last) ==
    LET skip == appliedIndex - first + 1
        ents == SubSeq(log, first, last)
    IN  IF skip < Len(ents) THEN SubSeq(ents, skip + 1, Len(ents)) ELSE <<>>

\* The commands among the entries, in their order.
Commands(ents) ==
    LET at     == {i \in 1..Len(ents) : ents[i].kind = "command"}
        Nth(k) == CHOOSE i \in at : Cardinality({j \in at : j <= i}) = k
    IN  [k \in 1..Cardinality(at) |-> ents[Nth(k)].cmd]

\* stop: commitC and errorC are closed.
Stop == loop' = [Select EXCEPT !.pc = "stopped"]

\* Mutant: a state that finds the channel full is not announced.
AnnounceIfRoom(soft) ==
    IF soft \in RaftState /\ soft # nodeState
    THEN /\ nodeState' = soft
         /\ notices' = IF stateChangeC = <<>> THEN notices \cup {<<stateChanges, soft>>}
                                              ELSE notices
         /\ stateChanges' = stateChanges + 1
         /\ UNCHANGED <<stateChangeC, raftState>>
    ELSE UNCHANGED stateVars

\* The end of the Ready case: a new state is announced by a goroutine.
Announce(soft) ==
    IF soft \in RaftState /\ soft # nodeState
    THEN /\ nodeState' = soft
         /\ notices' = notices \cup {<<stateChanges, soft>>}
         /\ stateChanges' = stateChanges + 1
         /\ UNCHANGED <<stateChangeC, raftState>>
    ELSE UNCHANGED stateVars

\* A Ready with the committed entries first..last: publishEntries up to its
\* send.  The entries are not written to the WAL first.
Ready(first, last, soft) ==
    LET nents == EntriesToApply(first, last) IN
    /\ loop.pc = "select"
    /\ \/ /\ nents = <<>>
          /\ Announce(soft)
          /\ UNCHANGED <<loop, appliedIndex>>
       \/ /\ nents # <<>>
          /\ \E i \in 1..Len(nents) : nents[i].kind = "removeSelf"
          /\ Stop
          /\ UNCHANGED <<appliedIndex, stateVars>>
       \/ /\ nents # <<>>
          /\ \A i \in 1..Len(nents) : nents[i].kind # "removeSelf"
          /\ \/ /\ Commands(nents) = <<>>
                /\ appliedIndex' = last
                /\ Announce(soft)
                /\ UNCHANGED loop
             \/ /\ Commands(nents) # <<>>
                /\ loop' = [pc |-> "publish", data |-> Commands(nents),
                            last |-> last, soft |-> soft]
                /\ UNCHANGED <<appliedIndex, stateVars>>
    /\ UNCHANGED <<raftVars, proposeVars, reader, slowPath, received, process>>

\* The commit is taken by readCommits, or, during close, by the goroutine
\* that drains commitC.
Publish ==
    /\ loop.pc = "publish"
    /\ \/ /\ reader = <<>>
          /\ reader' = loop.data
       \/ /\ closing
          /\ UNCHANGED reader
    /\ appliedIndex' = loop.last
    /\ Announce(loop.soft)
    /\ loop' = Select
    /\ UNCHANGED <<raftVars, proposeVars, slowPath, received, process>>

\* stopc is closed: at the select of the loop or of publishEntries.
LoopStop ==
    /\ stopc /\ loop.pc \in {"select", "publish"} /\ Stop
    /\ UNCHANGED <<raftVars, proposeVars, appliedIndex, reader, slowPath, received,
                   stateVars, process>>

\* The transport reports an error: writeError closes commitC and sends the
\* error, and readCommits or close receives it.
WriteError ==
    /\ loop.pc = "select"
    /\ loop' = [Select EXCEPT !.pc = "failed"]
    /\ UNCHANGED <<raftVars, proposeVars, appliedIndex, reader, slowPath, received,
                   stateVars, process>>

ReadError ==
    /\ loop.pc = "failed"
    /\ \/ /\ reader = <<>>
          /\ process' = "dead"
       \/ /\ closing
          /\ UNCHANGED process
    /\ Stop
    /\ UNCHANGED <<raftVars, proposeVars, appliedIndex, reader, slowPath, received,
                   stateVars>>

-----------------------------------------------------------------------------
(* readCommits, cmd_worker and listenRaftState.                            *)

\* Mutant: a channel without bound.
ReadCommitsUnbounded ==
    /\ reader # <<>>
    /\ slowPath' = Append(slowPath, Head(reader))
    /\ reader' = Tail(reader)
    /\ UNCHANGED <<raftVars, proposeVars, loop, appliedIndex, received, stateVars, process>>

ReadCommits ==
    /\ reader # <<>> /\ Len(slowPath) < SlowPathCap
    /\ slowPath' = Append(slowPath, Head(reader))
    /\ reader' = Tail(reader)
    /\ UNCHANGED <<raftVars, proposeVars, loop, appliedIndex, received, stateVars, process>>

WorkerReceive ==
    /\ slowPath # <<>>
    /\ slowPath' = Tail(slowPath)
    /\ received' = Append(received, Head(slowPath))
    /\ UNCHANGED <<raftVars, proposeVars, loop, appliedIndex, reader, stateVars, process>>

SendState(n) ==
    /\ n \in notices /\ Len(stateChangeC) < 1
    /\ stateChangeC' = Append(stateChangeC, n[2])
    /\ notices' = notices \ {n}
    /\ UNCHANGED <<raftVars, proposeVars, commitVars, nodeState, raftState, stateChanges, process>>

ListenRaftState ==
    /\ stateChangeC # <<>>
    /\ raftState' = Head(stateChangeC)
    /\ stateChangeC' = Tail(stateChangeC)
    /\ UNCHANGED <<raftVars, proposeVars, commitVars, nodeState, notices, stateChanges, process>>

-----------------------------------------------------------------------------
(* Shutdown.                                                               *)

\* peerInfo.close, up to its receive from errorC.
Close ==
    /\ ~closing
    /\ closing' = TRUE
    /\ UNCHANGED <<raftVars, sending, proposeC, proposer, stopc, commitVars, stateVars, process>>

-----------------------------------------------------------------------------
LoopReady ==
    \E first \in 1..appliedIndex + 1, last \in 0..Len(log),
       soft \in IF stateChanges < MaxStateChanges /\ Len(log) + stateChanges < MaxEvents
                THEN RaftState ELSE {Nil} :
          Ready(first, last, soft)

Next ==
    /\ process = "running"
    /\ \/ \E e \in Entry : RaftCommit(e)
       \/ \E b \in BOOLEAN : RaftLeader(b)
       \/ \E c \in Proposal : StartSend(c) \/ SendProposal(c)
       \/ ReceiveProposal
       \/ NodePropose
       \/ ProposerExit
       \/ LoopReady
       \/ Publish
       \/ LoopStop
       \/ WriteError
       \/ ReadError
       \/ ReadCommits
       \/ WorkerReceive
       \/ \E n \in notices : SendState(n)
       \/ ListenRaftState
       \/ Close

NodeSpec == Init /\ [][Next]_nodeVars

\* Goroutines that can run do run, and Raft delivers what it has committed.
\* Elections, calls of clients, shutdown and errors may or may not happen.
Running(A) == process = "running" /\ A

NodeFairness ==
    /\ \A c \in Proposal : WF_nodeVars(Running(SendProposal(c)))
    /\ WF_nodeVars(Running(ReceiveProposal))
    /\ SF_nodeVars(Running(NodePropose)) /\ WF_nodeVars(Running(ProposerExit))
    /\ WF_nodeVars(Running(LoopReady)) /\ WF_nodeVars(Running(Publish))
    /\ WF_nodeVars(Running(LoopStop)) /\ WF_nodeVars(Running(ReadError))
    /\ WF_nodeVars(Running(ReadCommits))
    /\ WF_nodeVars(Running(WorkerReceive))
    /\ WF_nodeVars(Running(\E n \in notices : SendState(n)))
    /\ WF_nodeVars(Running(ListenRaftState))

FairNodeSpec == NodeSpec /\ NodeFairness

-----------------------------------------------------------------------------
(* Properties.                                                             *)

\* Between Raft and cmd_worker no committed command is lost, doubled or
\* overtaken, whatever batches Raft delivers: what the worker has received
\* and what is under way are the commands of the published prefix of the
\* log.  (During close, the goroutine that drains commitC takes some away.)
PipelineExact ==
    ~closing =>
        received \o slowPath \o reader \o loop.data
          = Commands(SubSeq(log, 1, IF loop.pc = "publish" THEN loop.last ELSE appliedIndex))

\* Every committed command reaches cmd_worker, though slowPath may be full
\* and the loop wait for readCommits, unless the node stops.
CommitsDelivered ==
    \A i \in 1..MaxEntries :
        Len(log) >= i
            ~> \/ /\ Len(log) >= i
                  /\ Len(received) >= Len(Commands(SubSeq(log, 1, i)))
               \/ closing
               \/ loop.pc = "stopped"

\* close returns while Raft has a leader, unless a late send to the closed
\* proposeC kills the process first.
ShutdownWithLeader ==
    closing ~> \/ loop.pc = "stopped"
               \/ ~hasLeader
               \/ process = "dead"

\* The state machine ends up in the role that Raft gave the node last, so
\* that an elected node does act as leader, as long as no announcement is
\* started while another has still to be sent: two of them may change places.
RoleLearned ==
    [](Cardinality(notices) <= 1) => <>[](raftState = nodeState \/ process = "dead")
=============================================================================
