----------------------------- MODULE CurpClient -----------------------------
(***************************************************************************)
(* The clients (curp/client_grpc.go) over the replicas of CurpProtocol:    *)
(* NewGrpcClient with fetchLeader, and Put, Get and Del as calls of        *)
(* Propose with its fast and its slow round.  A call is named by its       *)
(* command; calls of one client may overlap, as bench_server of            *)
(* curp_client/main.go makes them.                                         *)
(*                                                                         *)
(* A client is a process: a nil dereference or log.Fatalf ends all of its  *)
(* calls, while the requests they sent may still reach the servers.        *)
(***************************************************************************)
EXTENDS CurpProtocol

CONSTANTS
    Client,          \* the client processes
    Owner,           \* Owner[c]: the client that calls Propose(c)
    MaxStateChanges, \* bound: changes of leadership
    MaxRpcErrors     \* bound: RPCs that fail

ASSUME ClientAssumption ==
    /\ Owner \in [Command -> Client]
    /\ {MaxStateChanges, MaxRpcErrors} \subseteq Nat

VARIABLES
    leaders,       \* the servers that are leader now (external)
    stateChanges,  \* counts against MaxStateChanges
    rpcErrors,     \* counts against MaxRpcErrors
    client,        \* client[p]: control state of the process
    unasked,       \* unasked[p]: servers fetchLeader has yet to ask
    leaderId,      \* leaderId[p]: c.LeaderId
    call,          \* call[c]: control state of Propose(c)
    goroutine,     \* goroutine[c][s]: of fastRound, for the server s
    response,      \* response[c][s]: result, as that goroutine got it
    results,       \* results[c][s]: the slice results
    acceptedCount, \* acceptedCount[c]
    outcome        \* outcome[c]: what Propose(c) returned, or Nil

leaderVars == <<leaders, stateChanges>>
clientVars == <<client, unasked, leaderId>>
callVars   == <<call, goroutine, response, results, acceptedCount, outcome>>
allVars    == <<vars, leaderVars, rpcErrors, clientVars, callVars>>

\* What executing c at the leader may return.
Executed(c) == IF c.op = "GET" THEN Value \cup {NotFoundInState} ELSE {Empty}

Outcome == [via : {"fast", "slow", "timeout"}, content : Content]

ClientTypeOK ==
    /\ leaders \in SUBSET Server /\ {stateChanges, rpcErrors} \subseteq Nat
    /\ client \in [Client -> {"fetchLeader", "ready", "noLeader", "crashed"}]
    /\ unasked \in [Client -> SUBSET Server]
    /\ leaderId \in [Client -> Server \cup {Nil}]
    /\ call \in [Command -> {"idle", "fastRound", "slowRound", "returned"}]
    /\ goroutine \in [Command -> [Server -> {"none", "calling", "sending", "exited"}]]
    /\ response \in [Command -> [Server -> CurpReply \cup {Nil}]]
    /\ results \in [Command -> [Server -> CurpReply \cup {Nil}]]
    /\ acceptedCount \in [Command -> Nat]
    /\ outcome \in [Command -> Outcome \cup {Nil}]

ClientInit ==
    /\ Init /\ leaders = {} /\ stateChanges = 0 /\ rpcErrors = 0
    /\ client = [p \in Client |-> "fetchLeader"]
    /\ unasked = [p \in Client |-> Server]
    /\ leaderId = [p \in Client |-> Nil] /\ call = [c \in Command |-> "idle"]
    /\ goroutine = [c \in Command |-> [s \in Server |-> "none"]]
    /\ response = [c \in Command |-> [s \in Server |-> Nil]]
    /\ results = [c \in Command |-> [s \in Server |-> Nil]]
    /\ acceptedCount = [c \in Command |-> 0]
    /\ outcome = [c \in Command |-> Nil]

-----------------------------------------------------------------------------
(* The environment: Raft, and the replicas that serve the RPCs.            *)

ChangeLeader(s) ==
    /\ stateChanges < MaxStateChanges
    /\ leaders' = IF s \in leaders THEN leaders \ {s} ELSE leaders \cup {s}
    /\ stateChanges' = stateChanges + 1
    /\ UNCHANGED <<vars, rpcErrors, clientVars, callVars>>

Replicate ==
    /\ \E s \in Server : Apply(s) \/ \E c \in Command : Order(s, c) \/ Forget(s, c)
    /\ UNCHANGED <<leaderVars, rpcErrors, clientVars, callVars>>

\* The server runs Propose(c).  The result is on its way to the client from
\* here until the client receives it, unless the call has failed meanwhile.
ServePropose(s, c) ==
    /\ goroutine[c][s] # "none"
    /\ Accept(s, c) \/ Refuse(s, c)
    /\ IF goroutine[c][s] = "calling"
       THEN /\ \E content \in IF s \in leaders THEN Executed(c) ELSE {Empty} :
                  response' = [response EXCEPT ![c][s] =
                                  [content |-> content, status |-> answer'[s][c]]]
            /\ goroutine' = [goroutine EXCEPT ![c][s] = "sending"]
       ELSE UNCHANGED <<response, goroutine>>
    /\ UNCHANGED <<leaderVars, rpcErrors, clientVars, call, results, acceptedCount, outcome>>

\* The RPC fails, before or after the server served it: result is nil.
ProposeError(s, c) ==
    /\ rpcErrors < MaxRpcErrors /\ goroutine[c][s] \in {"calling", "sending"}
    /\ goroutine' = [goroutine EXCEPT ![c][s] = "sending"]
    /\ response' = [response EXCEPT ![c][s] = Nil]
    /\ rpcErrors' = rpcErrors + 1
    /\ UNCHANGED <<vars, leaderVars, clientVars, call, results, acceptedCount, outcome>>

-----------------------------------------------------------------------------
(* NewGrpcClient: fetchLeader asks one server after the other, and the     *)
(* last one that says it is the leader wins.                               *)

IsLeader(p, s) ==
    /\ client[p] = "fetchLeader" /\ s \in unasked[p]
    /\ unasked' = [unasked EXCEPT ![p] = @ \ {s}]
    /\ leaderId' = [leaderId EXCEPT ![p] = IF s \in leaders THEN s ELSE @]
    /\ UNCHANGED <<vars, leaderVars, rpcErrors, client, callVars>>

\* log.Fatalf
IsLeaderError(p) ==
    /\ client[p] = "fetchLeader" /\ unasked[p] # {}
    /\ rpcErrors < MaxRpcErrors
    /\ rpcErrors' = rpcErrors + 1
    /\ client' = [client EXCEPT ![p] = "crashed"]
    /\ UNCHANGED <<vars, leaderVars, unasked, leaderId, callVars>>

NewGrpcClient(p) ==
    /\ client[p] = "fetchLeader" /\ unasked[p] = {}
    /\ client' = [client EXCEPT ![p] = IF leaderId[p] = Nil THEN "noLeader" ELSE "ready"]
    /\ UNCHANGED <<vars, leaderVars, rpcErrors, unasked, leaderId, callVars>>

-----------------------------------------------------------------------------
(* Propose(cmd).                                                           *)

Ready(c) == client[Owner[c]] = "ready"
LeaderOf(c) == leaderId[Owner[c]]

\* Put, Get or Del takes an id and starts a goroutine for every server.
Propose(c) ==
    /\ Ready(c) /\ call[c] = "idle"
    /\ call' = [call EXCEPT ![c] = "fastRound"]
    /\ goroutine' = [goroutine EXCEPT ![c] = [s \in Server |-> "calling"]]
    /\ UNCHANGED <<vars, leaderVars, rpcErrors, clientVars,
                   response, results, acceptedCount, outcome>>

Crash(c) == client' = [client EXCEPT ![Owner[c]] = "crashed"]

\* Mutant: the content of the reply is lost.
ReturnNil(c, via, content) ==
    /\ call' = [call EXCEPT ![c] = "returned"]
    /\ outcome' = [outcome EXCEPT ![c] = [via |-> via, content |-> Nil]]

Return(c, via, content) ==
    /\ call' = [call EXCEPT ![c] = "returned"]
    /\ outcome' = [outcome EXCEPT ![c] = [via |-> via, content |-> content]]

\* Mutants: the last reply is returned, whoever sent it; no reply is kept
\* and the initial one is returned, as MockClient's fastRound does.
FastResultLast(c, s) == response[c][s]
FastResultNone(c, s) == [content |-> Empty, status |-> "TIMEOUT"]

\* What fastRound returns after a super quorum, s being the last to accept:
\* the reply of the leader, whatever it is.
FastResult(c, s) == [results[c] EXCEPT ![s] = response[c][s]][LeaderOf(c)]

Accepts(reply) == reply.status = "ACCEPTED"

\* The local variables of fastRound go when it returns.
LeaveFastRound(c) ==
    /\ results' = [results EXCEPT ![c] = [s \in Server |-> Nil]]
    /\ acceptedCount' = [acceptedCount EXCEPT ![c] = 0]

\* fastRound receives from fastPathChan, a channel of this call alone; a nil
\* result, and a nil reply where Propose looks at it, crash the client.
ReceiveNil(c, s) ==
    /\ response[c][s] = Nil /\ Crash(c)
    /\ UNCHANGED <<call, results, acceptedCount, outcome>>

ReceiveConflict(c, s) ==
    /\ response[c][s] # Nil /\ ~Accepts(response[c][s])
    /\ call' = [call EXCEPT ![c] = "slowRound"]
    /\ LeaveFastRound(c)
    /\ UNCHANGED <<client, outcome>>

\* An acceptance that does not complete the super quorum, and one that does.
ReceiveAccepted(c, s) ==
    /\ response[c][s] # Nil /\ Accepts(response[c][s])
    /\ acceptedCount[c] + 1 # SuperQuorom(Cardinality(Server))
    /\ results' = [results EXCEPT ![c][s] = response[c][s]]
    /\ acceptedCount' = [acceptedCount EXCEPT ![c] = @ + 1]
    /\ UNCHANGED <<client, call, outcome>>

ReceiveLast(c, s) ==
    /\ response[c][s] # Nil /\ Accepts(response[c][s])
    /\ acceptedCount[c] + 1 = SuperQuorom(Cardinality(Server))
    /\ LeaveFastRound(c)
    /\ \/ /\ FastResult(c, s) = Nil
          /\ Crash(c)
          /\ UNCHANGED <<call, outcome>>
       \/ /\ FastResult(c, s) # Nil
          /\ IF Accepts(FastResult(c, s))
             THEN Return(c, "fast", FastResult(c, s).content)
             ELSE call' = [call EXCEPT ![c] = "slowRound"] /\ UNCHANGED outcome
          /\ UNCHANGED client

Receive(c, s) ==
    /\ Ready(c) /\ call[c] = "fastRound" /\ goroutine[c][s] = "sending"
    /\ goroutine' = [goroutine EXCEPT ![c][s] = "exited"]
    /\ response' = [response EXCEPT ![c][s] = Nil]
    /\ \/ ReceiveNil(c, s)
       \/ ReceiveConflict(c, s)
       \/ ReceiveAccepted(c, s)
       \/ ReceiveLast(c, s)
    /\ UNCHANGED <<vars, leaderVars, rpcErrors, unasked, leaderId>>

\* The ticker fires first: Propose returns the error.
Timeout(c) ==
    /\ Ready(c) /\ call[c] = "fastRound" /\ Return(c, "timeout", Empty)
    /\ LeaveFastRound(c)
    /\ UNCHANGED <<vars, leaderVars, rpcErrors, clientVars, goroutine, response>>

\* slowRound: WaitSynced at LeaderId answers once that server has applied the
\* command, with the result or without; its status is always ACCEPTED.
SlowRound(c) ==
    /\ Ready(c) /\ call[c] = "slowRound" /\ c \in AppliedAt(LeaderOf(c))
    /\ \E content \in Executed(c) \cup {NotFoundInBuffer} : Return(c, "slow", content)
    /\ UNCHANGED <<vars, leaderVars, rpcErrors, clientVars,
                   goroutine, response, results, acceptedCount>>

\* The error of WaitSynced is ignored and its nil reply dereferenced.
SlowRoundError(c) ==
    /\ Ready(c) /\ call[c] = "slowRound" /\ rpcErrors < MaxRpcErrors
    /\ rpcErrors' = rpcErrors + 1
    /\ Crash(c)
    /\ UNCHANGED <<vars, leaderVars, unasked, leaderId, callVars>>

-----------------------------------------------------------------------------
ClientNext ==
    \/ Replicate
    \/ \E s \in Server : ChangeLeader(s)
    \/ \E p \in Client : \/ IsLeaderError(p)
                         \/ NewGrpcClient(p)
                         \/ \E s \in Server : IsLeader(p, s)
    \/ \E c \in Command :
          \/ Propose(c)
          \/ Timeout(c)
          \/ SlowRound(c)
          \/ SlowRoundError(c)
          \/ \E s \in Server : ServePropose(s, c) \/ ProposeError(s, c) \/ Receive(c, s)

ClientSpec == ClientInit /\ [][ClientNext]_allVars

-----------------------------------------------------------------------------
(* Properties.                                                             *)

Returned(c, via) == outcome[c] # Nil /\ outcome[c].via = via

\* Two clients are both told on the fast path that their interfering commands
\* are done only if Raft has ordered one of the commands: replies that come
\* late, from other calls or after a timeout never add up to a super quorum.
FastReturnsOrdered ==
    Cardinality(Server) % 2 = 1 =>
        \A c, d \in Command :
            c # d /\ Interferes(c, d) /\ Returned(c, "fast") /\ Returned(d, "fast")
            => {c, d} \cap Ordered # {}

\* A command that a client was told is done is in the log, or the witnesses
\* of any f + 1 servers single it out against every interfering command.
ReturnedSurvives ==
    Cardinality(Server) % 2 = 1 =>
        \A c \in Command :
            (Returned(c, "fast") \/ Returned(c, "slow")) /\ c \notin Ordered =>
                \A d \in Command, Q \in SUBSET Server :
                    /\ c # d /\ Interferes(c, d)
                    /\ Cardinality(Q) = MaxFailures(Cardinality(Server)) + 1
                    => Cardinality({s \in Q : c \in records[s]})
                         > Cardinality({s \in Q : d \in records[s]})

\* A GET that returns on the fast path returns what the leader read, if the
\* leadership did not change since the first election: followers answer
\* with an empty content that fastRound must not pick.
FastGetFromLeader ==
    stateChanges <= 1 =>
        \A c \in Command : Returned(c, "fast") => outcome[c].content \in Executed(c)

\* A client turns to the slow round only when a server reported a conflict:
\* "client receive conflict result, turn to slow path" (client_grpc.go).
SlowOnlyOnConflict ==
    \A c \in Command :
        call[c] = "slowRound" => \E s \in Server : answer[s][c] = "CONFLICT"

\* "2f + 1 replicas, f + f / 2 + 1" (client_grpc.go): once so many replies
\* are in, there is one to return.  A client crashes only when an RPC fails.
CrashOnlyOnError ==
    (\E p \in Client : client[p] = "crashed") => rpcErrors > 0
=============================================================================
