----------------------------- MODULE LoadClient -----------------------------
(***************************************************************************)
(* The process curp_client (curp_client/main.go, buffer_client.go): it     *)
(* reads its configuration, starts n clients with a request loop or a TCP  *)
(* front end each, waits for the loops and for a signal, and prints the    *)
(* statistics.  A call of Put, Get or Del is here what CurpClient says it  *)
(* can come to; the loops and the handlers of connections are its callers. *)
(***************************************************************************)
EXTENDS ClientConfig, FiniteSets

CONSTANTS
    Line,        \* the lines a configuration file may have
    MaxLines,    \* bound: lines read
    MaxClients,  \* bound: the flag n
    FlagId,      \* the flag id
    Conn         \* connections to the front ends

ASSUME LoadAssumption ==
    /\ {MaxLines, FlagId} \subseteq Nat /\ MaxClients \in Nat \ {0}
    /\ Conn \cap Nat = {}

VARIABLES
    n, local,    \* flags: clients, and whether they are loops
    main,        \* where main is, and the next client it starts
    reader,      \* Read
    wg,          \* the WaitGroup
    client,      \* client[i]: "none", "ok", or the "nil" of a failed NewGrpcClient
    seqId,       \* seqId[i]: c.SeqId
    static,      \* static[i]: c.static
    caller,      \* the goroutines that call a client
    lines,       \* history: the lines read
    ids, calls,  \* history: the ids taken, and how often one was
    returned     \* history: returned[i][via], what the fast rounds came to

callVars == <<seqId, static, ids, calls, returned>>
vars == <<n, local, main, reader, wg, client, caller, lines, callVars>>

Index == 0..MaxClients - 1

Idle == [pc |-> "off", client |-> 0, i |-> 0, via |-> "", tmp |-> 0]

LoadTypeOK ==
    /\ n \in 0..MaxClients /\ local \in BOOLEAN
    /\ main \in [pc : {"read", "start", "wait", "signal", "exited", "killed", "died"},
                 i : 0..MaxClients]
    /\ reader.apply \in BOOLEAN /\ reader.err \in BOOLEAN /\ DOMAIN reader.c = Field
    /\ \A f \in Field \ {"pipeline"} : reader.c[f] \in Int
    /\ reader.c["pipeline"] \in BOOLEAN /\ wg \in 0..n
    /\ client \in [Index -> {"none", "ok", "nil"}] /\ seqId \in [Index -> Nat]
    /\ static \in [Index -> [fast : Nat, slow : Nat]]
    /\ \A a \in Index \cup Conn :
          /\ caller[a].pc \in {"off", "next", "fast", "inc", "slow", "return", "done", "undecoded"}
          /\ caller[a].client \in Index /\ caller[a].i \in Nat
    /\ Len(lines) <= MaxLines

All(v) == [i \in Index |-> v]
NoStatic == [fast |-> 0, slow |-> 0]
NoCaller == [a \in Index \cup Conn |-> Idle]
NoReturn == [fast |-> 0, slow |-> 0, timeout |-> 0]

Init ==
    /\ n \in 0..MaxClients /\ local \in BOOLEAN
    /\ main = [pc |-> "read", i |-> 0] /\ reader = NewReader /\ lines = <<>>
    /\ wg = 0 /\ client = All("none") /\ caller = NoCaller
    /\ seqId = All(0) /\ static = All(NoStatic)
    /\ ids = {} /\ calls = 0 /\ returned = All(NoReturn)

Alive == main.pc \notin {"exited", "killed", "died"}

\* "died": a panic, log.Fatalf or os.Exit in any goroutine; "killed": a signal.
\* Nothing is left of the memory of the process.
End(how) ==
    /\ main' = [pc |-> how, i |-> 0]
    /\ reader' = NewReader /\ lines' = <<>>
    /\ wg' = 0 /\ client' = All("none") /\ caller' = NoCaller
    /\ seqId' = All(0) /\ static' = All(NoStatic)
    /\ ids' = {} /\ calls' = 0 /\ returned' = All(NoReturn)
    /\ UNCHANGED <<n, local>>

-----------------------------------------------------------------------------
(* main.                                                                   *)

ReadNext(l) ==
    /\ main.pc = "read" /\ ~reader.err /\ Len(lines) < MaxLines
    /\ reader' = ReadLine(reader, l)
    /\ lines' = Append(lines, l)
    /\ UNCHANGED <<n, local, main, wg, client, caller, callVars>>

\* The end of the file, or of what the scanner can read of it.  Of the
\* configuration only reqs decides on what follows.
EndOfFile ==
    /\ main.pc = "read" /\ ~reader.err
    /\ main' = [main EXCEPT !.pc = "start"]
    /\ lines' = <<>>
    /\ reader' = [NewReader EXCEPT !.c["reqs"] = reader.c["reqs"]]
    /\ UNCHANGED <<n, local, wg, client, caller, callVars>>

\* The file cannot be opened, or Read returns an error.
ReadPanic ==
    /\ main.pc = "read" /\ (lines = <<>> \/ reader.err)
    /\ End("died")

\* NewBufferClient: the loop makes reqNum + 1 requests.
reqNum == reader.c["reqs"]

\* Mutant: without wg.Add(1).
StartLoopUnawaited(i) ==
    /\ caller' = [caller EXCEPT ![i].pc = "next"]
    /\ UNCHANGED wg

\* With n = 1 main runs the loop itself and then waits, which is the same.
StartLoop(i) ==
    /\ wg' = wg + 1
    /\ caller' = [caller EXCEPT ![i].pc = "next"]

\* The error of NewGrpcClient is ignored and the client is nil.  The loop
\* makes its slices of reqNum + 1 elements first, the front end listens.
StartClient ==
    /\ main.pc = "start" /\ main.i < n
    /\ \/ /\ local /\ reqNum + 1 < 0
          /\ End("died")
       \/ /\ \E c \in {"ok", "nil"} : client' = [client EXCEPT ![main.i] = c]
          /\ main' = [main EXCEPT !.i = @ + 1]
          /\ \/ local /\ reqNum + 1 >= 0 /\ StartLoop(main.i)
             \/ ~local /\ UNCHANGED <<wg, caller>>
          /\ UNCHANGED <<n, local, reader, lines, callVars>>

\* log.Fatalf in NewGrpcClient, or os.Exit in a bench_server that listens.
StartFails ==
    /\ \/ main.pc = "start" /\ main.i < n
       \/ Alive /\ ~local /\ \E i \in Index : client[i] # "none"
    /\ End("died")

Started ==
    /\ main.pc = "start" /\ main.i = n
    /\ main' = [main EXCEPT !.pc = "wait"]
    /\ UNCHANGED <<n, local, reader, wg, client, caller, lines, callVars>>

WgWait ==
    /\ main.pc = "wait" /\ wg = 0
    /\ main' = [main EXCEPT !.pc = "signal"]
    /\ UNCHANGED <<n, local, reader, wg, client, caller, lines, callVars>>

\* Before signal.Notify a signal kills the process.  After it main returns,
\* and the deferred calls print the statistics, of a nil client too.
Signal ==
    \/ Alive /\ main.pc # "signal" /\ End("killed")
    \/ main.pc = "signal" /\ (\E i \in Index : client[i] = "nil") /\ End("died")
    \/ /\ main.pc = "signal" /\ \A i \in Index : client[i] # "nil"
       /\ main' = [main EXCEPT !.pc = "exited"]
       /\ UNCHANGED <<n, local, reader, wg, client, caller, lines, callVars>>

-----------------------------------------------------------------------------
(* Put, Get and Del.                                                       *)

\* Mutant: the flag, also when there are several clients.
ClientIdFlag(i) == FlagId

ClientId(i) == IF n = 1 THEN FlagId ELSE i

\* GetProposeId, which is atomic; a nil client panics.
Call(a, i) ==
    IF client[i] = "nil"
    THEN End("died")
    ELSE /\ seqId' = [seqId EXCEPT ![i] = @ + 1]
         /\ ids' = ids \cup {<<ClientId(i), seqId'[i]>>}
         /\ calls' = calls + 1
         /\ caller' = [caller EXCEPT ![a].pc = "fast", ![a].client = i]
         /\ UNCHANGED <<n, local, main, reader, wg, client, lines, static, returned>>

\* fastRound returns at the latest when its ticker fires; fast++ and slow++
\* read the counter ...
FastRound(a) ==
    /\ Alive /\ caller[a].pc = "fast"
    /\ LET i == caller[a].client IN
       \/ \E v \in {"fast", "slow"} :
             /\ returned' = [returned EXCEPT ![i][v] = @ + 1]
             /\ caller' = [caller EXCEPT ![a] = [Idle EXCEPT !.pc = "inc", !.client = i,
                              !.i = caller[a].i, !.via = v, !.tmp = static[i][v]]]
       \/ /\ returned' = [returned EXCEPT ![i].timeout = @ + 1]
          /\ caller' = [caller EXCEPT ![a] = [Idle EXCEPT !.pc = "return",
                           !.i = caller[a].i, !.via = "timeout"]]
    /\ UNCHANGED <<n, local, main, reader, wg, client, lines,
                   seqId, static, ids, calls>>

\* ... and write it.
IncStatic(a) ==
    /\ Alive /\ caller[a].pc = "inc"
    /\ static' = [static EXCEPT ![caller[a].client][caller[a].via] = caller[a].tmp + 1]
    /\ caller' = [caller EXCEPT ![a] = [Idle EXCEPT !.i = caller[a].i,
                     !.pc = IF caller[a].via = "fast" THEN "return" ELSE "slow"]]
    /\ UNCHANGED <<n, local, main, reader, wg, client, lines,
                   seqId, ids, calls, returned>>

\* slowRound returns when the leader answers WaitSynced, if it does.
SlowRound(a) ==
    /\ Alive /\ caller[a].pc = "slow"
    /\ caller' = [caller EXCEPT ![a].pc = "return"]
    /\ UNCHANGED <<n, local, main, reader, wg, client, lines, callVars>>

\* A nil reply is dereferenced in either round.
CallPanics(a) ==
    /\ Alive /\ caller[a].pc \in {"fast", "slow"} /\ End("died")

-----------------------------------------------------------------------------
(* Loop of the client i.                                                   *)

\* A Put or a Get, of the hot key or a new one, at random.
NextRequest(i) ==
    /\ Alive /\ caller[i].pc = "next" /\ caller[i].i <= reqNum
    /\ Call(i, i)

\* Mutant: the loop gives up when a call has failed.
AfterCallGiveUp(i) ==
    IF caller[i].via = "timeout" THEN Idle
    ELSE [Idle EXCEPT !.pc = "next", !.i = caller[i].i + 1]

AfterCall(i) == [Idle EXCEPT !.pc = "next", !.i = caller[i].i + 1]

\* The latency of the request goes into the statistics, and the loop on.
Measure(i) ==
    /\ Alive /\ caller[i].pc = "return"
    /\ caller' = [caller EXCEPT ![i] = AfterCall(i)]
    /\ UNCHANGED <<n, local, main, reader, wg, client, lines, callVars>>

\* Mutant: Done, and the loop does not end.
LoopEndAgain(i) ==
    /\ Alive /\ caller[i].pc = "next" /\ caller[i].i > reqNum
    /\ wg' = wg - 1
    /\ UNCHANGED <<n, local, main, reader, client, caller, lines, callVars>>

LoopEnd(i) ==
    /\ Alive /\ caller[i].pc = "next" /\ caller[i].i > reqNum
    /\ wg' = wg - 1
    /\ caller' = [caller EXCEPT ![i].pc = "done"]
    /\ UNCHANGED <<n, local, main, reader, client, lines, callVars>>

-----------------------------------------------------------------------------
(* bench_server of client i, and handleRequest of a connection.            *)

\* What was read is no whole command: handleRequest returns.
HandleGarbage(k, i) ==
    /\ Alive /\ ~local /\ client[i] # "none" /\ caller[k].pc = "off"
    /\ caller' = [caller EXCEPT ![k].pc = "undecoded"]
    /\ UNCHANGED <<n, local, main, reader, wg, client, lines, callVars>>

\* A GET, PUT or DELETE is called, another operation answered at once.
HandleRequest(k, i) ==
    /\ Alive /\ ~local /\ client[i] # "none" /\ caller[k].pc = "off"
    /\ \/ Call(k, i)
       \/ /\ caller' = [caller EXCEPT ![k].pc = "return"]
          /\ UNCHANGED <<n, local, main, reader, wg, client, lines, callVars>>

\* Mutant: a failed call is not answered.
RespondIfDone(k) ==
    /\ Alive /\ caller[k].pc = "return" /\ caller[k].via # "timeout"
    /\ caller' = [caller EXCEPT ![k] = [Idle EXCEPT !.pc = "done"]]
    /\ UNCHANGED <<n, local, main, reader, wg, client, lines, callVars>>

\* conn.Write, whether the call has succeeded or not.
Respond(k) ==
    /\ Alive /\ caller[k].pc = "return"
    /\ caller' = [caller EXCEPT ![k] = [Idle EXCEPT !.pc = "done"]]
    /\ UNCHANGED <<n, local, main, reader, wg, client, lines, callVars>>

-----------------------------------------------------------------------------
MainStep == EndOfFile \/ StartClient \/ Started \/ WgWait

Next ==
    \/ \E l \in Line : ReadNext(l)
    \/ ReadPanic \/ StartFails \/ Signal \/ MainStep
    \/ \E a \in Index \cup Conn :
          FastRound(a) \/ IncStatic(a) \/ SlowRound(a) \/ CallPanics(a)
    \/ \E i \in Index : NextRequest(i) \/ Measure(i) \/ LoopEnd(i)
    \/ \E k \in Conn : \/ \E i \in Index : HandleGarbage(k, i) \/ HandleRequest(k, i)
                       \/ Respond(k)

\* Goroutines that can run do run, and fastRound has a ticker.  Nothing
\* makes slowRound return.
LoadSpec ==
    /\ Init /\ [][Next]_vars /\ WF_vars(MainStep)
    /\ \A a \in Index \cup Conn : WF_vars(FastRound(a)) /\ WF_vars(IncStatic(a))
    /\ \A i \in Index : WF_vars(NextRequest(i) \/ Measure(i) \/ LoopEnd(i))
    /\ \A k \in Conn : WF_vars(Respond(k))

-----------------------------------------------------------------------------
(* Properties.                                                             *)

\* Read takes for every field what its last line in a section for all or
\* for this client says, and fails exactly at the first wrong line of one:
\* sections for other clients leave no trace.
ReadLastWins ==
    main.pc = "read" =>
        /\ reader.err <=> \E k \in DOMAIN lines : Wrong(lines, k)
        /\ ~reader.err => \A f \in Field : reader.c[f] = Meaning(lines, f)

\* No two calls of a process get the same ProposeId, be they of different
\* loops or of handlers that share a client: what StateMachine assumes of
\* the commands of one process (UniqueIds).
IdsUnique == Cardinality(ids) = calls

\* What main prints of its loops is final: it counts each of their reqNum + 1
\* requests unless it timed out.  The unsynchronised fast++ and slow++ of
\* handlers that share a client may lose calls, and never count too many.
StaticsExact ==
    /\ \A i \in Index, v \in {"fast", "slow"} : static[i][v] <= returned[i][v]
    /\ main.pc = "exited" /\ local =>
          \A i \in 0..n - 1 :
              static[i].fast + static[i].slow + returned[i].timeout = reqNum + 1

InSlowRound(A) == \E a \in A : caller[a].pc = "slow"

\* The benchmark ends: main gets to wait for its signal although requests
\* fail and time out, unless one is never answered by WaitSynced.
BenchEnds == main.pc = "start" ~> main.pc \notin {"start", "wait"} \/ InSlowRound(Index)

\* The front end answers every command it could decode, a failed one too,
\* unless WaitSynced does not.
FrontEndAnswers ==
    \A k \in Conn :
        caller[k].pc = "fast" ~> caller[k].pc = "done" \/ ~Alive \/ InSlowRound({k})
=============================================================================
