----------------------------- MODULE CurpServer -----------------------------
(***************************************************************************)
(* The life of a curp_server process that runs a cluster: it starts its    *)
(* servers one after the other (RunStateMachine, startRaft and the WAL     *)
(* and snapshot directories they find or make), serves, and on a signal    *)
(* closes them in reverse order (the deferred peerInfo.close), which       *)
(* removes the directories.  The process may be killed, or panic, before   *)
(* that is done, and started again over what it left on disk.  What a      *)
(* running server does is CurpNode and StateMachine; of Raft only the      *)
(* proposals that serveChannels is busy with, and whether there is a       *)
(* leader, matter here.                                                    *)
(***************************************************************************)
EXTENDS Naturals, FiniteSets

CONSTANTS
    N,          \* number of servers, numbered from 1
    MaxStarts,  \* bound on the starts of the process
    MaxKills    \* bound on the times it is killed

ASSUME ServerAssumption == N \in Nat \ {0} /\ MaxStarts \in Nat /\ MaxKills \in Nat

VARIABLES
    main,       \* where main is, and at which server
    srv,        \* the goroutines of each server
    leader,     \* Raft has a leader
    disk,       \* the directories of each server
    starts, kills,
    cut,        \* history: the process was killed, or panicked, since the
                \* directories of the server were last removed
    boots,      \* history: how often raft.StartNode ran since then
    fatal       \* history: the last start ended in log.Fatalf

vars == <<main, srv, leader, disk, starts, kills, cut, boots, fatal>>

Server == 1..N

Off == [boot |-> "off", oldwal |-> FALSE, closing |-> FALSE, proposals |-> 0,
        stop |-> "no", http |-> "off"]

(* wal: no directory, a directory without a WAL file, or one with.         *)
NoFiles == [wal |-> "none", snap |-> FALSE]

At(pc, s) == main = [pc |-> pc, s |-> s]

Goto(pc, s) == main' = [pc |-> pc, s |-> s]

Down == [pc |-> "down", s |-> 1]

rest == <<leader, starts, kills, cut, boots, fatal>>

(* A step of a goroutine of server s that nothing else notices.            *)
Local(s, r) == srv' = [srv EXCEPT ![s] = r] /\ UNCHANGED <<main, disk, rest>>

Goroutines ==
    [boot : {"off", "begin", "replay", "create", "ready", "on", "stopped"},
     oldwal : BOOLEAN, closing : BOOLEAN, proposals : 0..2,
     stop : {"no", "stopc", "httpstopc"}, http : {"off", "listen", "accept", "done"}]

Directories == [wal : {"none", "empty", "file"}, snap : BOOLEAN]

TypeOK ==
    /\ main \in [pc : {"down", "run", "ready", "signal", "close", "errorC",
                       "removeWal", "removeDir", "removeSnap"}, s : Server]
    /\ srv \in [Server -> Goroutines]
    /\ disk \in [Server -> Directories]
    /\ leader \in BOOLEAN /\ fatal \in BOOLEAN
    /\ starts \in 0..MaxStarts /\ kills \in 0..MaxKills
    /\ cut \in [Server -> BOOLEAN] /\ boots \in [Server -> Nat]

Init ==
    /\ main = Down /\ srv = [s \in Server |-> Off] /\ leader = FALSE
    /\ disk = [s \in Server |-> NoFiles] /\ starts = 0 /\ kills = 0
    /\ cut = [s \in Server |-> FALSE] /\ boots = [s \in Server |-> 0]
    /\ fatal = FALSE

-----------------------------------------------------------------------------
(* The start.                                                              *)

Start ==
    /\ main = Down /\ starts < MaxStarts /\ Goto("run", 1)
    /\ srv' = [s \in Server |-> Off]
    /\ leader' = FALSE /\ fatal' = FALSE
    /\ starts' = starts + 1
    /\ UNCHANGED <<disk, kills, cut, boots>>

\* RunStateMachine starts the goroutine startRaft and waits for snapReady.
RunStateMachine(s) ==
    /\ At("run", s)
    /\ srv' = [srv EXCEPT ![s].boot = "begin"]
    /\ Goto("ready", s)
    /\ UNCHANGED <<disk, rest>>

SnapReady(s) ==
    /\ At("ready", s) /\ srv[s].boot \in {"ready", "on"}
    /\ IF s < N THEN Goto("run", s + 1) ELSE Goto("signal", N)
    /\ UNCHANGED <<srv, disk, rest>>

\* Mutant: an old WAL is not noticed.
WalExistNever(s) == FALSE

WalExist(s) == disk[s].wal = "file"

\* startRaft up to the replay.
MakeSnapDir(s) ==
    /\ srv[s].boot = "begin"
    /\ disk' = [disk EXCEPT ![s].snap = TRUE]
    /\ srv' = [srv EXCEPT ![s].boot = "replay", ![s].oldwal = WalExist(s)]
    /\ UNCHANGED <<main, rest>>

\* The process ends, by a signal it does not handle or by log.Fatalf.
Die(byFatal) ==
    /\ main' = Down
    /\ srv' = [s \in Server |-> Off]
    /\ fatal' = byFatal

\* replayWAL, loadSnapshot and openWAL up to os.Mkdir.  A WAL that is there
\* holds no snapshot and no entry, since nothing is saved to it.
OpenWAL(s) ==
    /\ srv[s].boot = "replay"
    /\ \/ /\ disk[s].wal = "none"
          /\ disk' = [disk EXCEPT ![s].wal = "empty"]
          /\ srv' = [srv EXCEPT ![s].boot = "create"]
          /\ UNCHANGED <<main, fatal>>
       \/ /\ disk[s].wal = "empty" /\ Die(TRUE)
          /\ UNCHANGED disk
       \/ /\ disk[s].wal = "file"
          /\ srv' = [srv EXCEPT ![s].boot = "ready"]
          /\ UNCHANGED <<main, disk, fatal>>
    /\ UNCHANGED <<leader, starts, kills, cut, boots>>

\* wal.Create and the rest of replayWAL.
CreateWAL(s) ==
    /\ srv[s].boot = "create"
    /\ disk' = [disk EXCEPT ![s].wal = "file"]
    /\ srv' = [srv EXCEPT ![s].boot = "ready"]
    /\ UNCHANGED <<main, rest>>

\* raft.StartNode with all servers as members, or raft.RestartNode with the
\* members the WAL knows, that is none; then the HTTP server and the loop.
StartNode(s) ==
    /\ srv[s].boot = "ready"
    /\ srv' = [srv EXCEPT ![s].boot = "on", ![s].http = "listen"]
    /\ boots' = [boots EXCEPT ![s] = IF srv[s].oldwal THEN @ ELSE @ + 1]
    /\ UNCHANGED <<main, leader, disk, starts, kills, cut, fatal>>

-----------------------------------------------------------------------------
(* Raft (external).                                                        *)

Members == {s \in Server : srv[s].boot = "on" /\ ~srv[s].oldwal}

Majority == 2 * Cardinality(Members) > N

Elect ==
    /\ ~leader /\ Majority
    /\ leader' = TRUE
    /\ UNCHANGED <<main, srv, disk, starts, kills, cut, boots, fatal>>

LoseLeader ==
    /\ leader
    /\ leader' = FALSE
    /\ UNCHANGED <<main, srv, disk, starts, kills, cut, boots, fatal>>

-----------------------------------------------------------------------------
(* The goroutines of a running server, as far as its end depends on them.  *)

Running(s) == srv[s].boot = "on" /\ srv[s].stop = "no"

\* Mutant: a channel without bound.
SendProposalUnbounded(s) ==
    /\ Running(s) /\ ~srv[s].closing
    /\ Local(s, [srv[s] EXCEPT !.proposals = @ + 1])

\* proposeC holds one proposal, and one more is with the goroutine that
\* reads it.
SendProposal(s) ==
    /\ Running(s) /\ ~srv[s].closing /\ srv[s].proposals < 2
    /\ Local(s, [srv[s] EXCEPT !.proposals = @ + 1])

NodePropose(s) ==
    /\ Running(s) /\ srv[s].proposals > 0 /\ leader
    /\ Local(s, [srv[s] EXCEPT !.proposals = @ - 1])

ProposerExit(s) ==
    /\ Running(s) /\ srv[s].closing /\ srv[s].proposals = 0
    /\ Local(s, [srv[s] EXCEPT !.stop = "stopc"])

\* Mutant: waits for the HTTP server before it tells it to stop.
StopHTTPAfterDone(s) ==
    /\ srv[s].stop = "stopc" /\ srv[s].http = "done"
    /\ Local(s, [srv[s] EXCEPT !.stop = "httpstopc"])

StopHTTP(s) ==
    /\ srv[s].stop = "stopc" /\ Local(s, [srv[s] EXCEPT !.stop = "httpstopc"])

\* serveRaft makes its listener, ...
Listen(s) ==
    /\ srv[s].http = "listen" /\ Local(s, [srv[s] EXCEPT !.http = "accept"])

\* ... and Serve returns when Accept sees httpstopc.
Accept(s) ==
    /\ srv[s].http = "accept" /\ srv[s].stop = "httpstopc"
    /\ Local(s, [srv[s] EXCEPT !.http = "done"])

\* stop has waited for the HTTP server and closes errorC.
Stop(s) ==
    /\ srv[s].boot = "on" /\ srv[s].stop = "httpstopc" /\ srv[s].http = "done"
    /\ Local(s, [srv[s] EXCEPT !.boot = "stopped"])

-----------------------------------------------------------------------------
(* The end.  main returns after a signal and runs its deferred calls.      *)

Signal ==
    /\ main.pc = "signal" /\ Goto("close", N)
    /\ UNCHANGED <<srv, disk, rest>>

Close(s) ==
    /\ At("close", s)
    /\ srv' = [srv EXCEPT ![s].closing = TRUE]
    /\ Goto("errorC", s)
    /\ UNCHANGED <<disk, rest>>

ReadErrorC(s) ==
    /\ At("errorC", s) /\ srv[s].boot = "stopped" /\ Goto("removeWal", s)
    /\ UNCHANGED <<srv, disk, rest>>

\* Mutant: the WAL stays.
RemoveWALNothing(s) ==
    /\ At("removeWal", s) /\ Goto("removeSnap", s)
    /\ UNCHANGED <<srv, disk, rest>>

\* os.RemoveAll of the WAL directory removes the files first.
RemoveWAL(s) ==
    /\ At("removeWal", s)
    /\ disk' = [disk EXCEPT ![s].wal = "empty"]
    /\ Goto("removeDir", s)
    /\ UNCHANGED <<srv, rest>>

\* Mutant: the directory itself stays.
RemoveDirFilesOnly(s) ==
    /\ At("removeDir", s)
    /\ cut' = [cut EXCEPT ![s] = FALSE]
    /\ boots' = [boots EXCEPT ![s] = 0]
    /\ Goto("removeSnap", s)
    /\ UNCHANGED <<srv, disk, leader, starts, kills, fatal>>

RemoveDir(s) ==
    /\ At("removeDir", s)
    /\ disk' = [disk EXCEPT ![s].wal = "none"]
    /\ cut' = [cut EXCEPT ![s] = FALSE]
    /\ boots' = [boots EXCEPT ![s] = 0]
    /\ Goto("removeSnap", s)
    /\ UNCHANGED <<srv, leader, starts, kills, fatal>>

RemoveSnap(s) ==
    /\ At("removeSnap", s)
    /\ disk' = [disk EXCEPT ![s].snap = FALSE]
    /\ IF s > 1
       THEN Goto("close", s - 1) /\ UNCHANGED <<srv, fatal>>
       ELSE Die(FALSE)
    /\ UNCHANGED <<leader, starts, kills, cut, boots>>

CutOff == Die(FALSE) /\ cut' = [s \in Server |-> cut[s] \/ disk[s].wal # "none"]

Kill ==
    /\ main # Down /\ kills < MaxKills /\ CutOff
    /\ kills' = kills + 1
    /\ UNCHANGED <<leader, disk, starts, boots>>

\* The gRPC servers go on while main closes: a leader that still gets a
\* command sends it on the closed proposeC, and the process panics.
SendClosed(s) ==
    /\ srv[s].closing /\ CutOff
    /\ UNCHANGED <<leader, disk, starts, kills, boots>>

-----------------------------------------------------------------------------
Boot(s) == MakeSnapDir(s) \/ OpenWAL(s) \/ CreateWAL(s) \/ StartNode(s)

Shutdown(s) == Close(s) \/ ReadErrorC(s) \/ RemoveWAL(s) \/ RemoveDir(s) \/ RemoveSnap(s)

Next ==
    \/ Start \/ Signal \/ Kill \/ Elect \/ LoseLeader
    \/ \E s \in Server :
          \/ RunStateMachine(s) \/ SnapReady(s)
          \/ Boot(s) \/ Shutdown(s)
          \/ SendProposal(s) \/ SendClosed(s) \/ NodePropose(s) \/ ProposerExit(s)
          \/ StopHTTP(s) \/ Listen(s) \/ Accept(s) \/ Stop(s)

\* Goroutines that can run do run; Raft elects a leader as long as it has a
\* majority, and node.Propose is served when there is a leader often enough.
Fairness ==
    /\ WF_vars(Elect)
    /\ \A s \in Server :
          /\ WF_vars(Boot(s)) /\ WF_vars(Shutdown(s))
          /\ SF_vars(NodePropose(s)) /\ WF_vars(ProposerExit(s))
          /\ WF_vars(StopHTTP(s)) /\ WF_vars(Listen(s))
          /\ WF_vars(Accept(s)) /\ WF_vars(Stop(s))

ServerSpec == Init /\ [][Next]_vars /\ Fairness

-----------------------------------------------------------------------------
(* Properties.                                                             *)

\* No server bootstraps the cluster (raft.StartNode) a second time over the
\* files of a first: at whatever point the process ended, the next
\* start finds the WAL that was made before StartNode.  A second bootstrap
\* would make the server vote and append again from nothing.
BootstrapsOnce == \A s \in Server : boots[s] <= 1

\* Only after a kill or a panic does a server come back as a member of no
\* cluster (raft.RestartNode over an empty WAL): after a close, whatever its
\* interleaving with the other servers', the next start bootstraps.
MemberUnlessCut ==
    \A s \in Server : srv[s].boot = "on" /\ srv[s].oldwal => cut[s]

\* The process gives up at os.Mkdir only if it was cut off before, between
\* making and filling a WAL directory or while removing one; no other order
\* of starts, kills and closes leaves a directory that cannot be opened.
FatalOnlyAfterCut ==
    fatal => \E s \in Server : disk[s].wal = "empty" /\ cut[s]

\* close waits for a server that has a proposal left when those closed
\* before it have left no majority to elect a leader.
Hung ==
    /\ main.pc = "errorC" /\ srv[main.s].proposals > 0
    /\ leader = FALSE /\ Majority = FALSE

\* A signal ends the process: every close returns, unless it hangs in this
\* way (the LIFO order of the deferred closes leaves the first servers in
\* that place).
SignalEnds == main.pc = "close" ~> main = Down \/ Hung
=============================================================================
