# Verification of CURP

TLA+ models of the CURP implementation in `src/`, TLC configurations that check
them on small instances, and TLAPS proofs that hold for every size. CURP lets a
client finish a command in one round trip: the client sends it to every replica;
each replica records it in its *witness* unless it conflicts with a recorded
command; the leader also executes it at once and proposes it to Raft. If a *super
quorum* accepts, the client is done (fast round). Otherwise it asks the leader to
wait until the command has gone through Raft (slow round).

## 1. The system

| Part (source) | State | Operations | Module |
|---|---|---|---|
| Commands (`curp/command`, `curp/curp_proto`) | - | `Conflict`, ids, replies | `CurpCommand` |
| MemStore (`kv/mem_kv.go`) | a map | `Get`, `Put`, `Delete` | `CurpCommand` |
| Witness (`curp/witness`) | `commandMap`, keyed by ProposeId | `InsertIfNotConflict`, `Remove` | `Witness` |
| Command board (`curp/command/cmd_board.go`) | two buffers, two maps of channels of capacity one | `InsertEr`, `NotifyAsr`, `WaitForEr`, `WaitForAsr` | `CommandBoard` |
| Replica (`curp/state.go`, `curp/state_grpc.go`) | role, witness, board, store, `commandSet`, channels | `Propose`, `WaitSynced`, `cmd_worker`, `listenRaftState` | `StateMachine` |
| Raft node (`curp/raft.go`, `curp/server.go`, `readCommits`) | `appliedIndex`, role, channels | proposer, Ready loop, `readCommits`, `close` | `CurpNode` |
| Client (`curp/client_grpc.go`) | `LeaderId`, per call the replies | `NewGrpcClient`, `Put`/`Get`/`Del`, fast and slow round | `CurpClient` |
| Stores (`kv/`): MemStore, BoltStore, BadgerStore | a map or an embedded database | `Put`, `Delete`, the same `WithOldValue`, and their rollback | `KVStore` |
| Server process (`curp_server/main.go`, `curp/server.go`, `startRaft`, `curp/listener.go`) | goroutines of its servers, WAL and snapshot directories | start, serve, signal, `close`; being killed | `CurpServer` |
| Load client (`curp_client/`) | configuration, `WaitGroup`, clients with their ids and statistics, latencies | `Read`, `main`, `Loop`, `bench_server`, `handleRequest` | `ClientConfig`, `LoadClient` |
| What the replicas promise the fast path | records, answers, order | accept, refuse, order, apply, forget | `CurpProtocol` |

**Interaction.** `Propose` at a leader starts two goroutines: one sends the command
to `fastPath`, the other to `proposeC`. `cmd_worker`, one goroutine per server,
executes from `fastPath` and leaves the result on the board (`InsertEr`), and
executes from `slowPath`, signals the board (`NotifyAsr`), then removes the witness
record and the `commandSet` entry. Raft's commits travel
`publishEntries -> commitC -> readCommits -> slowPath`; its role changes travel
`stateChangeC -> listenRaftState`. Clients read the board through the handlers.

**What is hard.** Nothing orders the fast against the slow path of one command, or
the proposals of two. Two mutexes (witness and server) are taken one after the
other in `Propose`. The worker sends on channels of capacity one while it holds the
mutex that the receivers need. Leadership may change between any two of these steps,
a proposal may be lost with its leader, and two servers may believe to lead. The
client learns the leader once. A server makes its WAL directory in two steps, removes
it in two, and may be killed between them; the servers of one process are closed one
after the other, each taking its vote away from the rest. Request handlers share a
client, its ids and its unsynchronised statistics. `PROJECT.json` lists these points as hazards, at
their lines.

**What makes the parts correct.**
- Witness: the records never conflict, and a record goes only with its command.
- Board: every caller gets the result, once; the worker comes back from its sends, in the
  first two turns of an id.
- Replica: its store is what the log says, wherever the slow path decided last.
- Fast path: interfering commands are not both completed unordered, and a completed
  command survives `f` failures.
- Node: the worker gets the committed commands, all of them, once, in order.
- Client: what it returns is completed, and comes from the leader.
- Server process: a start over whatever a dead process left bootstraps at most once,
  and a signal ends the process.
- Load client: the file means what it says, ids differ, the counts printed are final.
- Stores: the old value answered is the one replaced, and rolling back restores.

## 2. The models

**`CurpCommand`, `Witness`, `CommandBoard`** are operators on values: the store
(`Get`, `Put`, `Delete`), `executeSync` and `executeAsync`, `Conflict`; the witness
as a set of commands with different ids; the board as a record of two buffers and
two functions to channels (`Nil` where the map has no entry, otherwise the at most
one element in the channel). Keys, values and ids are small sets; the encoding of a
command for Raft is left out, since the decoded copy equals the original.

**`StateMachine`.** Every server has the variables of the Go struct. Handlers are
records of a program counter per server and command; a step is what one mutex
protects, so that `Propose` is `ProposeInsert` (witness mutex), then
`ProposeFollower` or `ProposeLeader` (server mutex), then `WaitForEr` and
`ReceiveEr`. The store and `commandSet` belong to `cmd_worker` alone, therefore
executing a command and the board operation that follows are one step, up to a
channel send; a send that may block is a step of its own (`SendEr`, `SendAsr`)
during which the board's mutex is held (`BoardFree`). `fastPath` and `proposeC` are
sets, because one goroutine per command sends to them, in any order. Raft is
external: `RaftCommit` appends a proposal to the log, `RaftDrop` loses one, and
`ListenRaftState` gives a server any role at any time, which covers several leaders,
stale roles and the reordered notices of `CurpNode`. A leader executes a command on
the fast path even when it conflicts, and does not record it: the code does so. A
client calls `WaitSynced` at one server, any that has led. The history variables `logState`,
`executed` and `speculative` serve the properties only; a key is speculative after the
fast path wrote it, or after a leader skipped a write that it had executed, and until the
slow path, in whatever role, executes a write to it.

**`CurpProtocol`** is the abstract specification: five actions on records, answers, the
order and the applied prefix. `KeepsRecords` of `StateMachine` is this
specification under the mapping `records <- witness`, `order <- log`,
`answer <- ` the verdict of `InsertIfNotConflict`.

**`CurpClient`** extends `CurpProtocol`: a process finds the leader, then calls
`Propose(c)`, whose goroutines (one per server), replies, count and timeout are
explicit. The server's side of a call is an `Accept` or `Refuse` of
`CurpProtocol`. RPC errors give a nil result, which the client dereferences.

**`CurpNode`** is one server between Raft and `cmd_worker`: the goroutine of
`serveChannels` that reads `proposeC`, the event loop with `entriesToApply` and
`publishEntries`, `readCommits`, the state notices, `writeError` and
`peerInfo.close`. Raft delivers batches that may overlap what was applied.

**`CurpServer`** is the process `curp_server` with a cluster in it. `main` walks through
its servers: `RunStateMachine`, the receive from `snapReady`, then the signal, then the
deferred `close` of each in reverse order. Each server has its boot goroutine
(`MakeSnapDir`, `OpenWAL`, `CreateWAL`, `StartNode`), its proposer, its HTTP server and its
stop. The disk keeps, per server, the snapshot directory and the WAL directory, which is
absent, empty or with a WAL file: `os.Mkdir` and `wal.Create`, and the two halves of
`os.RemoveAll`, are different steps. `Kill` ends the process between any two steps, and so
does `SendClosed`, the panic of a handler that sends to a closed `proposeC` while the gRPC
servers go on. The WAL has no content, since nothing is saved in it: a server that finds one
restarts with no members. Of Raft there is only whether a leader exists, for which a
majority of bootstrapped servers must run. What a running server does is in `CurpNode`.

**`ClientConfig`** is `Read` as a function from a reader and a line to a reader. The parsers
of `strconv` and `time` are constants, any partial functions from words to numbers and
truth values (`ParserAssumption`); `Meaning` says what a file means without reading it in
order. **`LoadClient`** is the process `curp_client`: `main` reads the
file line by line, starts its clients (which may be nil, as the error of `NewGrpcClient`
is ignored), waits for the `WaitGroup`, then for the signal. A loop and the handler of
a connection are *callers*: both take an id, go through the fast round with one of its
three ends, increment a counter in two steps (read, write), and perhaps the slow round.
What a call does to the servers is in `CurpClient`. A process that dies loses its
memory; one that exits has printed its statistics, which stay for the property. What a
request asks for and how long it took are left out (the latencies are only printed), and of
the configuration only `reqs` matters after it is read: `pipeline`, `runtime`,
`clones` and `pendings` are looked at by no code.

**`KVStore`** is the interface `kv.KVStore` with its three implementations (`backend`,
chosen in `Init`) and several callers. Where the three do the same there is one
action; `PutWithOldValue` and `DeleteWithOldValue` differ: MemStore does all under
its mutex; Bolt's transaction is one step, but the old value is copied from the
mapped file after it, and when another transaction has committed by then (`since`)
the copy may be any value; Badger reads in one step and commits in another, which
fails if the key was written in between. Errors are those of the code: MemStore and
Badger report `not found` where Bolt reports nothing. Callers keep what is answered
in `undo` and roll back the last write first, as the tests of `src/kv` do. `base` and
`foreign` are history variables. The server uses MemStore only, from one goroutine,
and neither Bolt nor Badger nor the rollbacks.

`Workloads` holds the command sets of the instances; `MCStateMachine`, `MCCurpClient`,
`MCCurpNode`, `MCKVStore`, `MCCurpServer` and `MCLoadClient` instantiate the models.

## 3. Runs

Passing runs:

| Run | Instance | Properties |
|---|---|---|
| `server` | one server, elected and deposed; PUT, DELETE, GET on one key; 2 commits | `TypeOK`; `SyncAgreesWithPropose`: both RPCs give the same result; `SendErNeverBlocks`; `StoreMatchesLog`: the store is the meaning of the applied prefix wherever the slow path decided last |
| `replicas` | two servers, one elected; PUT and DELETE on one key | `WitnessCommutes`; `AcceptedIsRecorded`: what was accepted is recorded until it is applied there; `InterferingAcceptsOrdered`; `KeepsRecords`: refinement of `CurpProtocol` |
| `reused` | one leader; three commands with one id, committed up to three times, one of them waited for; fairness | `WorkerReturns`: the worker comes back from the first two turns of an id; `SyncAnswered` up to there |
| `answers` | two servers, two role changes (so also two leaders and a command committed twice), one lost proposal, fairness | `ProposeAnswered`, `SyncAnswered`, `RecordEventuallyRemoved` |
| `clients` | three servers, one client, overlapping PUT and GET; one election, one RPC error | `ClientTypeOK`, `FastReturnsOrdered`, `ReturnedSurvives`, `FastGetFromLeader`, `SlowOnlyOnConflict`, `CrashOnlyOnError`; `FastCompletedOrdered` and `SurvivorsAgree` of the `CurpProtocol` below |
| `node` | two commands, any entries and batches, `slowPath` of capacity one, two events of Raft (entries or role changes), shutdown, fairness | `TypeOK`, `PipelineExact`, `CommitsDelivered`, `ShutdownWithLeader`; `RoleLearned`: the state machine ends in the role announced last |
| `lifecycle` | three servers in one process, three starts, two kills, fairness | `TypeOK`; `BootstrapsOnce`, `MemberUnlessCut`, `FatalOnlyAfterCut`: what a start can find on disk and make of it; `SignalEnds`: every `close` returns |
| `bench` | up to two clients, two connections; files of up to three of 18 lines; three requests per loop; fairness | `LoadTypeOK`; `ReadLastWins`: `Read` against `Meaning`; `IdsUnique`; `StaticsExact`: what is printed is final; `BenchEnds` and `FrontEndAnswers`, although calls fail and time out |
| `stores` | each of the three stores; two callers, two keys, an empty and two other values; 4 writes | `TypeOK`; `OldValueReplaced`: the old value answered is the one the write replaced, and an error tells that nothing was written; `UndoRestores`: a caller that took back all its writes restored every key nobody else wrote |

Runs that refute what the repository says of itself (details under `findings`):

| Run | Statement | What happens |
|---|---|---|
| `v_unreachable` | "UNREACHABLE" (`cmd_board.go:106`) | the slow path overtakes the fast path of a stable leader; WaitSynced answers NOT FOUND IN BUFFER |
| `v_reexecution` | executing twice is harmless (`state.go:335`) | the fast path executes a PUT again after a later PUT and restores the old value |
| `v_five` | the super quorum is right for any `f` (`client_grpc.go:104`) | with five servers it is complete without the leader; the client dereferences nil |

**Bounds.** `MaxStateChanges`, `MaxCommits`, `MaxDrops`, `MaxEntries` and
`MaxRpcErrors` cap what Raft and the network do, `MaxWrites` and `MaxUndo` the callers of the
stores (4 writes: two puts of one caller, both rolled back, or interleaved with another's); handlers run once per server and
command. One key suffices for interference; two commands are the least that can
interfere, the GET in `server` observes the two writes; two role changes are an
election and a deposition, or two leaders; three commits of an id are the least
that block a worker (`reused` has one server and GETs, on which blocking does not depend, because
three servers that all propose one command are beyond TLC under fairness); five servers (`v_five`) are the least for
which the super quorum is not everybody, and the proofs are about any number; a channel of capacity one is full after one
command, as one of capacity 1000 is after 1000. In `node`, `MaxEvents` bounds entries and
role changes together: two entries make every overlap of batches, two changes every
exchange of announcements, and the two pipelines meet only in the batch that has
one of each. Three starts are a kill, a start over its files that is killed too, and a start over
what both left; three servers are the least of which two make a majority. Three lines of
a file are a section for another client, its end and a field, or a field set twice. Servers are symmetric in the runs
of safety properties. The properties about super quorums are stated for an odd
number of servers: with two servers `superQuorom` is one, and two super quorums
need not meet.

**Fairness.** Weak fairness of the goroutines that can run: the Go scheduler runs
them. Raft commits what it does not lose. In `StateMachine` it is assumed of a server as a
whole only, which is less: since every step takes a handler, a command or a log entry
further, nothing runs for ever and each goroutine gets its turn. Strong fairness of
`NodePropose` only: `node.Propose` waits in a select of Raft's loop and is served if
there is a leader again and again. In `CurpServer` Raft elects a leader while a majority
runs. In `LoadClient` `fastRound` ends, because of its ticker; `slowRound` has
none and is not assumed to. Calls of clients, elections, errors and
shutdown are never assumed to happen.

**Unique ids.** A client counts its ids from zero when it starts, under a ClientId that
defaults to 0, so that clients started with the defaults, or one started again,
reuse ids. `AcceptedIsRecorded` and what rests on it assume unique ids (`UniqueIds`): with a
reused id `InsertIfNotConflict` overwrites the record of an accepted command, and
the commit of one command removes the record of another. With unique ids the worker
never finds a command from the fast path in `commandSet`, since the slow path
removes its entry in the same turn: this is why `v_reexecution` can happen, and
`FastSkip` is reached in the run `reused` only. `StoreMatchesLog` assumes unique ids too:
with a reused id the entry of a GET in `commandSet` makes a leader skip a committed PUT that
it never executed (`state.go:243`, "command executed before,nothing to do"), and the write
is lost to its store.

**Exceptions written into properties.** They are behaviours of the code. `ProposeAnswered`:
a WaitSynced that returned first has deleted the result, and the handler of Propose
waits for ever. `SyncAnswered`: a call that comes after the slow path executed the
command can miss its only signal. `WorkerReturns`: a notifier has room for one element and
is never removed; the handler takes the first, the second stays, and the worker blocks at
the third for ever, holding the board's mutex (`cmd_board.go:45` and `:55`). A third result
needs a reused id, a third commit a reused id or three servers that proposed the command
as leaders. Whoever then needs the mutex waits for ever as well: `BlockedForEver` in
`ProposeAnswered`, `SyncAnswered` and `RecordEventuallyRemoved`. The run `reused` reaches
both blocks: it fails when the premise of `WorkerReturns` admits a third turn, and when
`SyncAnswered` has no such exception. `StoreMatchesLog`: a leader that executed two commands
on the fast path against the order of the log and then skips them keeps its own order. `FastGetFromLeader`: after a second role change
the client still believes in the first leader and returns a follower's empty reply.
`ShutdownWithLeader`: a late send to the closed `proposeC` panics. `PipelineExact`:
during `close` the draining goroutine takes commits away from `readCommits`.
`OldValueReplaced`: Bolt's old value after another transaction, and Badger's put over
nothing, which answers `not found` whether its commit succeeded or conflicted (taking
such a put back deletes the other caller's value). `UndoRestores`: an empty value
comes back as no value, and with Bolt a delete of nothing comes back as an empty value.

`RoleLearned`: `serveChannels` announces each role change by a goroutine of its own
(`raft.go:477`); when two wait at the same time they may change places, and the state
machine keeps the older role for good. `StateMachine` does not depend on it: its roles
change at any time. `SignalEnds`: a proposal pending when there is no leader
keeps `node.Propose`, and with it `close`, waiting; the run shows that the process hangs
only when the servers closed before left no majority (against "To shutdown, close proposeC and
read errorC", `raft.go:90`). `BenchEnds`, `FrontEndAnswers`: a slow round that is
never answered. `StaticsExact`: counts lost between handlers that share a client.
`MemberUnlessCut`, `FatalOnlyAfterCut`: after a kill, or a panic of `SendClosed`, a server may
come back without members, or not at all until somebody removes its directory.

## 4. Proofs

All theorems hold for every set of servers, commands, keys and values and every
bound, from the assumptions on constants in the modules (finite server set, commands
well formed, bounds natural, the special values different). They are in
`StateMachineProofs`, `CurpProtocolProofs`, `StateMachineRefinement`, `CurpClientProofs`,
`CurpNodeProofs`, `CurpServerProofs`, `KVStoreProofs` and `LoadClientProofs`. Every
invariant and every safety property that a passing run checks is proved.

- `TypeCorrect`: `TypeOK` of `StateMachine`. The inductive `TypeInv` adds
  `WorkerOK` (the command a busy worker holds, and that it is the next or the last
  applied log entry), `ParkedOK` (a parked handler has a notifier) and `LogOK`
  (lengths of log, applied prefix and history). Without them `SendEr` or
  `ReceiveEr` might take a value from a missing channel.
- `ConflictIsInterference`, `NoConflictCommutes`: `Conflict` of the code holds of
  exactly the pairs where one writes the other's key, and otherwise the order of two
  commands matters neither to the store nor to their results.
- `WitnessSafe` (also with reused ids), `AcceptedRecorded`, `InterferingOrdered`
  (with unique ids).
- `SkipsExecuted`: with unique ids a command whose id is in `commandSet` was executed there;
  `StoreFollowsLog`: `StoreMatchesLog`, by cases on whether the worker executes, skips or
  speculates. By `SkipsExecuted` a skip is that of a leader that executed the command, and
  its key becomes speculative; every other turn of the slow path makes the key what the
  log says.
- `SendErSafe`: by `ErOnce`: with unique ids a command has at most one result in
  its channel or about to be sent, because it is on the fast path at most once.
- `SyncAgrees`: `SyncAgreesWithPropose`, by `OneResult`: the buffer, the notifier and the
  two answers together hold at most one result of a command at a server, and none before
  the fast path has executed it. The property alone is not inductive: it says nothing of
  the results that are still on their way to a handler.
- `FastPathOrdered`, `SuperQuoromSurvives` of `CurpProtocol`: from `RecordsOK`
  (records do not interfere; accepted means recorded or applied) and counting: two
  super quorums of `2f + 1` servers share a server, and of any `f + 1` servers more
  than half are in a super quorum.
- `ReplicasKeepRecords`: with unique ids `StateMachine` implements `CurpProtocol`.
  `Proposed` (only commands with a verdict are in `proposeC` or the log) maps
  `RaftCommit` to `Order`; `AcceptedIsRecorded` and `WorkerOK` map `RemoveRecord`
  to `Forget` or a stutter; everything else maps to `Accept`, `Refuse`, `Apply` or a stutter.
- `ServerTypeCorrect`, `BootsOnce`, `MembersUnlessCut`, `FatalAfterCut` of `CurpServer`, for
  any number of servers, starts and kills, from one inductive invariant `Inv`. None of the
  three properties is inductive: what a start finds depends on where the last one ended.
  `Passed` and `Current` tie the place of `main` to the state and the files of the servers
  before it, after it and at it, so that at most one of them is between two steps on disk;
  `Files` says that before a server has looked, whatever lies there was left by a cut, and
  that a directory without a WAL implies a cut of all servers before it as well (the process
  that gives up there leaves their files to the next start); `Fatal` keeps the evidence.
- `ClientsUseReplicas`, `ClientTypeCorrect`, `SlowRoundOnConflict`, `FastReadsLeader`,
  `FastCallsOrdered`, `ReturnedCallsSurvive`, `CrashesOnError` of `CurpClient`. A client step
  is a step of `CurpProtocol` or leaves its variables alone, so that `RecordsOK` and the two
  counting theorems hold under it. What remains is that a client counts correctly. The
  inductive `Inv` says of every call that a reply under way or kept is the verdict of its
  server and that a missing one was lost to an RPC error (`ReplyOK`), that `acceptedCount`
  is the number of servers counted, and what an outcome says of the records (`ResultOK`),
  and that up to the second change of leadership the reply of the leader holds what it read
  (`EarlyOK`, with `LeaderOK` on the leader a client knows). `CrashesOnError` assumes one
  or three servers: with five it is false, which is the run `v_five`.
- `NodeTypeCorrect`, `PipelineIsExact` of `CurpNode`. `CommandsConcat` (the commands of two
  batches in a row are those of the one, then those of the other) is proved by counting the
  positions of commands, since induction over sequences is out of reach; `BatchFollows`
  derives that `entriesToApply` cuts a batch that overlaps the applied entries exactly where
  they end. The inductive `Inv` splits `PipelineExact` in two: channels and worker hold the
  commands of the applied entries (`DeliveredOK`), and the loop, only while it publishes,
  those that follow (`BatchOK`), so that a stop in the middle of publishing is covered.
- `StoreTypeCorrect`, `OldValueIsReplaced`, `UndoIsRestoring` of `KVStore`, for each
  implementation. The inductive `Inv` says of a call under way which old value it will
  report (`CallOK`: for Badger it is still in the store unless the commit will fail), and at
  every key that nobody else wrote what a full rollback will leave (`UndoOK`): this is
  decided by the first write of the caller there, then by the call under way, then by the
  store. `UndoRestores` speaks of a state in which all is taken back, and is far from
  inductive.
- `LoadTypeCorrect`, `ReadMeaning`, `LoadIdsUnique`, `LoadStaticsExact` of `LoadClient`.
  `ReadOK` relates the reader after any number of lines to what those lines mean (each
  field is set by its last line that applies); `LoopsOK` says that the `WaitGroup` is the
  number of running loops, so that `main` goes on only when all are done; `IdsOK` that
  an id is a client and a number up to its counter; `StaticOK` and `LoopOK` that an increment
  in flight has read no more than was returned, and that nobody else uses the client
  of a loop, so that its counters lose nothing.

The assumptions on constants beyond types: an odd number of servers in the counting theorems
(the code's quorum sizes are for `2f + 1` servers), one or three in `CrashesOnError`,
`UniqueIds` where a theorem names it (`LoadIdsUnique` shows it for one process), a
`MaxClients` of at least one, connections different from client numbers, and for the stores
that a missing value is no value.

Only model-checked, since fairness is beyond the prover: the liveness properties
`ProposeAnswered`, `SyncAnswered`, `WorkerReturns`, `RecordEventuallyRemoved`,
`CommitsDelivered`, `ShutdownWithLeader`, `RoleLearned`, `SignalEnds`, `BenchEnds` and
`FrontEndAnswers`; and the three runs that show a violation.

## 5. Not modelled

Raft itself (etcd's library). The content of snapshots and of the WAL: the call of
`maybeTriggerSnapshot` and both calls of `wal.Save` are commented out, so that the code around
them never runs with data; a restarted server knows nothing, and the repository's
README says that crash recovery is not supported. Of the stores, what nothing calls:
Bolt's `Begin`, `Commit` and `Rollback`, the `Equal`s, the JSON snapshot, closing and
destroying; and that Bolt may unmap the file under the slice it copies late, which is a
crash rather than a wrong value. The in-process `MockClient` of the tests, except that
clients may call WaitSynced after a super quorum accepted, as it always does. Of the load
client, `Pipeline`, `RegisterReply` and the channel `Reply`, which nothing uses. `curp/main.go`,
which is not in a package `main`, tracing and generated code. Errors of the operating
system (a port in use, a full disk) end a process like a kill.

## 6. Plan

Done: the modules above and the proofs of section 4. Next, in this order:
1. The invariants that the liveness arguments rest on (who holds the board's mutex, which
   notifier a parked handler waits on), as theorems.
2. `CurpNode` composed with one `StateMachine`: role and slow path driven by the
   node's loop instead of an open environment.
3. `CurpClient` over `StateMachine` instead of `CurpProtocol`, for the results of
   reads across a change of leadership.
