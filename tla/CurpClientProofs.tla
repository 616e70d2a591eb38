-------------------------- MODULE CurpClientProofs --------------------------
(***************************************************************************)
(* What a client is told, for any number of servers, clients and commands: *)
(* the calls of CurpClient use the replicas as CurpProtocol allows, and a  *)
(* reply counts once, for the call and the server it belongs to.           *)
(***************************************************************************)
EXTENDS CurpClient, CurpProtocolProofs

\* A reply under way, and a reply that fastRound keeps, is the verdict of
\* its server; a missing one was lost to an error.
ReplyOK(c, s) ==
    /\ response[c][s] # Nil =>
          /\ goroutine[c][s] = "sending"
          /\ answer[s][c] # Nil /\ response[c][s].status = answer[s][c]
    /\ results[c][s] # Nil =>
          /\ goroutine[c][s] = "exited"
          /\ answer[s][c] = "ACCEPTED" /\ results[c][s].status = "ACCEPTED"
    /\ goroutine[c][s] = "sending" /\ response[c][s] = Nil => rpcErrors > 0
    /\ call[c] = "idle" => goroutine[c][s] = "none"

Counted(c) == {s \in Server : results[c][s] # Nil}

\* What a call has come to rests on what the servers answered.
ResultOK(c) ==
    /\ acceptedCount[c] = Cardinality(Counted(c))
    /\ Returned(c, "fast") => FastCompleted(c)
    /\ Returned(c, "slow") => c \in Ordered
    /\ call[c] = "slowRound" => \E s \in Server : answer[s][c] = "CONFLICT"

\* Before the first election nobody has called, and until the second change
\* of leadership a reply of a leader holds what the leader read.
EarlyOK(c) ==
    /\ stateChanges = 0 =>
          \A s \in Server : /\ response[c][s] = Nil /\ results[c][s] = Nil
                            /\ goroutine[c][s] = "none"
    /\ stateChanges <= 1 =>
          /\ \A s \in leaders :
                /\ response[c][s] # Nil => response[c][s].content \in Executed(c)
                /\ results[c][s] # Nil => results[c][s].content \in Executed(c)
          /\ Returned(c, "fast") => outcome[c].content \in Executed(c)

CallOK(c) == (\A s \in Server : ReplyOK(c, s)) /\ ResultOK(c) /\ EarlyOK(c)

\* A client that is ready has a leader, and it is the one that leads unless
\* the leadership has changed.
LeaderOK ==
    /\ stateChanges = 0 => leaders = {}
    /\ \A p \in Client :
          /\ client[p] = "ready" => leaderId[p] # Nil
          /\ stateChanges = 0 => leaderId[p] = Nil
          /\ stateChanges <= 1 /\ leaderId[p] # Nil => leaderId[p] \in leaders

\* A server answers ACCEPTED or CONFLICT.
Answers == \A s \in Server, c \in Command : answer[s][c] \in {Nil, "ACCEPTED", "CONFLICT"}

\* The inductive invariant.
Inv ==
    /\ TypeOK /\ RecordsOK /\ Answers
    /\ ClientTypeOK /\ LeaderOK
    /\ \A c \in Command : CallOK(c)

-----------------------------------------------------------------------------
(* The replicas.                                                           *)

\* A step of the clients is a step of the replicas or does not touch them.
LEMMA ClientImplements == [ClientNext]_allVars => [Next]_vars
<1> SUFFICES ASSUME [ClientNext]_allVars PROVE [Next]_vars
  OBVIOUS
<1>1. CASE Replicate
  BY <1>1 DEF Replicate, Next
<1>2. ASSUME NEW c \in Command, NEW s \in Server, ServePropose(s, c)
      PROVE  Next
  BY <1>2 DEF ServePropose, Next
<1>3. CASE UNCHANGED vars
  BY <1>3
<1>4. ASSUME NEW p \in Client,
             \/ IsLeaderError(p) \/ NewGrpcClient(p) \/ \E s \in Server : IsLeader(p, s)
      PROVE  UNCHANGED vars
  BY <1>4 DEF IsLeaderError, NewGrpcClient, IsLeader
<1>5. ASSUME NEW c \in Command,
             \/ Propose(c) \/ Timeout(c) \/ SlowRound(c) \/ SlowRoundError(c)
             \/ \E s \in Server : ProposeError(s, c) \/ Receive(c, s)
      PROVE  UNCHANGED vars
  BY <1>5 DEF Propose, Timeout, SlowRound, SlowRoundError, ProposeError, Receive
<1>6. ASSUME NEW s \in Server, ChangeLeader(s)
      PROVE  UNCHANGED vars
  BY <1>6 DEF ChangeLeader
<1>7. CASE UNCHANGED allVars
  BY <1>7 DEF allVars
<1> QED BY <1>1, <1>2, <1>3, <1>4, <1>5, <1>6, <1>7 DEF ClientNext

\* The clients run on the replicas of CurpProtocol: what holds of those
\* whoever calls them holds here.
THEOREM ClientsUseReplicas == ClientSpec => Spec
<1>1. ClientInit => Init
  BY DEF ClientInit
<1> QED BY <1>1, ClientImplements, PTL DEF ClientSpec, Spec

\* A server answers once, and the log only grows.
LEMMA AnswersStay ==
    ASSUME TypeOK, Answers, [Next]_vars
    PROVE  /\ Answers'
           /\ \A s \in Server, c \in Command : answer[s][c] # Nil => answer'[s][c] = answer[s][c]
<1>1. ASSUME NEW s \in Server, NEW c \in Command, NEW a \in {"ACCEPTED", "CONFLICT"},
             answer[s][c] = Nil, answer' = [answer EXCEPT ![s][c] = a]
      PROVE  /\ Answers'
             /\ \A t \in Server, d \in Command : answer[t][d] # Nil => answer'[t][d] = answer[t][d]
  <2>1. \A t \in Server, d \in Command :
           answer'[t][d] = IF t = s /\ d = c THEN a ELSE answer[t][d]
    BY <1>1 DEF TypeOK
  <2> QED BY <1>1, <2>1 DEF Answers
<1>2. CASE UNCHANGED answer
  BY <1>2 DEF Answers
<1>3. ASSUME NEW s \in Server, Apply(s) \/ \E c \in Command : Order(s, c) \/ Forget(s, c)
      PROVE  UNCHANGED answer
  BY <1>3 DEF Apply, Order, Forget
<1>4. ASSUME NEW s \in Server, NEW c \in Command, Accept(s, c) \/ Refuse(s, c)
      PROVE  /\ Answers'
             /\ \A t \in Server, d \in Command : answer[t][d] # Nil => answer'[t][d] = answer[t][d]
  BY <1>1, <1>4 DEF Accept, Refuse
<1> QED BY <1>2, <1>3, <1>4 DEF Next, vars

LEMMA OrderedStays ==
    ASSUME TypeOK, [Next]_vars
    PROVE  Ordered \subseteq Ordered'
<1>1. CASE UNCHANGED order
  BY <1>1 DEF Ordered
<1>2. ASSUME NEW s \in Server, NEW c \in Command, Order(s, c)
      PROVE  Ordered \subseteq Ordered'
  <2>1. Len(order') = Len(order) + 1 /\ \A i \in 1..Len(order) : order'[i] = order[i]
    BY <1>2 DEF Order, TypeOK
  <2>2. Len(order) \in Nat
    BY DEF TypeOK
  <2> QED BY <2>1, <2>2 DEF Ordered
<1>3. ASSUME NEW s \in Server, NEW c \in Command,
             Apply(s) \/ Accept(s, c) \/ Refuse(s, c) \/ Forget(s, c)
      PROVE  UNCHANGED order
  BY <1>3 DEF Apply, Accept, Refuse, Forget
<1>4. ASSUME NEW s \in Server, Apply(s)
      PROVE  UNCHANGED order
  BY <1>4 DEF Apply
<1> QED BY <1>1, <1>2, <1>3, <1>4 DEF Next, vars

LEMMA FastCompletedStays ==
    ASSUME TypeOK, Answers, [Next]_vars, NEW c \in Command, FastCompleted(c)
    PROVE  FastCompleted(c)'
<1>1. AcceptedBy(c) \subseteq AcceptedBy(c)' /\ AcceptedBy(c)' \subseteq Server
  BY AnswersStay, NilAssumption DEF AcceptedBy, StatusCode
<1>2. IsFiniteSet(AcceptedBy(c)') /\ IsFiniteSet(AcceptedBy(c))
  BY <1>1, ProtocolAssumption, FS_Subset
<1>3. Cardinality(AcceptedBy(c)) <= Cardinality(AcceptedBy(c)')
  BY <1>1, <1>2, FS_Subset
<1>4. Cardinality(AcceptedBy(c)) \in Nat /\ Cardinality(AcceptedBy(c)') \in Nat
  BY <1>2, FS_CardinalityType
<1>5. SuperQuorom(Cardinality(Server)) \in Int
  <2>1. Cardinality(Server) \in Nat
    BY FS_CardinalityType, ProtocolAssumption
  <2> QED BY <2>1 DEF SuperQuorom, MaxFailures
<1> QED BY <1>3, <1>4, <1>5 DEF FastCompleted

\* The replicas keep their part of the invariant.
LEMMA ReplicasStay ==
    ASSUME Inv, [ClientNext]_allVars
    PROVE  TypeOK' /\ RecordsOK' /\ Answers' /\ [Next]_vars
BY ClientImplements, TypeOKNext, RecordsOKNext, AnswersStay DEF Inv

-----------------------------------------------------------------------------
(* Calls.                                                                  *)

\* One goroutine of one call takes a value.
LEMMA OneEntry ==
    ASSUME NEW T, NEW f \in [Command -> [Server -> T]], NEW c \in Command, NEW s \in Server,
           NEW v \in T, NEW g, g = [f EXCEPT ![c][s] = v]
    PROVE  /\ g \in [Command -> [Server -> T]] /\ g[c][s] = v
           /\ \A t \in Server : t # s => g[c][t] = f[c][t]
           /\ \A d \in Command : d # c => g[d] = f[d]
<1>1. [f[c] EXCEPT ![s] = v] \in [Server -> T]
  OBVIOUS
<1>2. g = [f EXCEPT ![c] = [f[c] EXCEPT ![s] = v]]
  OBVIOUS
<1> QED BY <1>1, <1>2

\* What the call c is, with its goroutine for s and without.
SameReply(c, s) == UNCHANGED <<call[c], goroutine[c][s], response[c][s], results[c][s]>>
SameResult(c) == UNCHANGED <<call[c], results[c], acceptedCount[c], outcome[c]>>
SameCall(c) == SameResult(c) /\ UNCHANGED <<goroutine[c], response[c]>>

LEMMA ReplyStays ==
    ASSUME TypeOK, Answers, [Next]_vars, ClientTypeOK, rpcErrors' \in Nat, rpcErrors <= rpcErrors',
           NEW c \in Command, NEW s \in Server, ReplyOK(c, s), SameReply(c, s)
    PROVE  ReplyOK(c, s)'
<1>1. answer[s][c] # Nil => answer'[s][c] = answer[s][c]
  BY AnswersStay
<1>2. "ACCEPTED" # Nil
  BY NilAssumption DEF StatusCode
<1>3. rpcErrors > 0 => rpcErrors' > 0
  BY DEF ClientTypeOK
<1> QED BY <1>1, <1>2, <1>3 DEF ReplyOK, SameReply

LEMMA ResultStays ==
    ASSUME TypeOK, Answers, [Next]_vars, NEW c \in Command, ResultOK(c), SameResult(c)
    PROVE  ResultOK(c)'
<1>1. Counted(c)' = Counted(c)
  BY DEF Counted, SameResult
<1>2. Returned(c, "fast")' = Returned(c, "fast") /\ Returned(c, "slow")' = Returned(c, "slow")
  BY DEF Returned, SameResult
<1>3. \A s \in Server : answer[s][c] = "CONFLICT" => answer'[s][c] = "CONFLICT"
  BY AnswersStay, NilAssumption DEF StatusCode
<1> QED BY <1>1, <1>2, <1>3, OrderedStays, FastCompletedStays DEF ResultOK, SameResult

LEMMA EarlyStays ==
    ASSUME NEW c \in Command, EarlyOK(c), SameCall(c), UNCHANGED leaderVars
    PROVE  EarlyOK(c)'
<1>1. Returned(c, "fast")' = Returned(c, "fast")
  BY DEF Returned, SameCall, SameResult
<1> QED BY <1>1 DEF EarlyOK, SameCall, SameResult, leaderVars, Executed

\* A call that a step does not touch stays as it should be.
LEMMA CallStays ==
    ASSUME Inv, [ClientNext]_allVars, rpcErrors' \in Nat, rpcErrors <= rpcErrors',
           UNCHANGED leaderVars, NEW c \in Command, SameCall(c)
    PROVE  CallOK(c)'
<1>1. CallOK(c) /\ TypeOK /\ Answers /\ ClientTypeOK /\ [Next]_vars
  BY ReplicasStay DEF Inv
<1>2. ASSUME NEW s \in Server
      PROVE  ReplyOK(c, s)'
  <2>1. SameReply(c, s)
    BY DEF SameReply, SameCall, SameResult
  <2> QED BY <1>1, <2>1, ReplyStays DEF CallOK
<1>3. ResultOK(c)'
  BY <1>1, ResultStays DEF CallOK, SameCall
<1>4. EarlyOK(c)'
  BY <1>1, EarlyStays DEF CallOK
<1> QED BY <1>2, <1>3, <1>4 DEF CallOK

\* Only the replicas, the client processes or the errors change.
LEMMA CallsStay ==
    ASSUME Inv, [ClientNext]_allVars, rpcErrors' \in Nat, rpcErrors <= rpcErrors',
           UNCHANGED <<leaderVars, callVars>>
    PROVE  \A c \in Command : CallOK(c)'
<1>1. \A c \in Command : SameCall(c)
  BY DEF SameCall, SameResult, callVars
<1> QED BY <1>1, CallStays

LEMMA LeaderStays ==
    ASSUME LeaderOK, UNCHANGED <<leaderVars, leaderId>>,
           \A p \in Client : client'[p] = "ready" => client[p] = "ready"
    PROVE  LeaderOK'
BY DEF LeaderOK, leaderVars

-----------------------------------------------------------------------------
(* The environment, and NewGrpcClient.                                     *)

LEMMA InvReplicate ==
    ASSUME Inv, Replicate
    PROVE  Inv'
<1>1. [ClientNext]_allVars
  BY DEF ClientNext
<1>2. UNCHANGED <<leaderVars, rpcErrors, clientVars, callVars>>
  BY DEF Replicate
<1>3. ClientTypeOK' /\ LeaderOK'
  BY <1>2, LeaderStays DEF Inv, ClientTypeOK, leaderVars, clientVars, callVars
<1>4. rpcErrors' \in Nat /\ rpcErrors <= rpcErrors'
  BY <1>2 DEF Inv, ClientTypeOK
<1>5. \A c \in Command : CallOK(c)'
  BY <1>1, <1>2, <1>4, CallsStay
<1> QED BY <1>1, <1>3, <1>5, ReplicasStay DEF Inv

LEMMA InvStutter ==
    ASSUME Inv, UNCHANGED allVars
    PROVE  Inv'
<1>2. UNCHANGED <<vars, leaderVars, rpcErrors, clientVars, callVars>>
  BY DEF allVars
<1>3. ClientTypeOK' /\ LeaderOK'
  BY <1>2, LeaderStays DEF Inv, ClientTypeOK, leaderVars, clientVars, callVars
<1>4. rpcErrors' \in Nat /\ rpcErrors <= rpcErrors'
  BY <1>2 DEF Inv, ClientTypeOK
<1>5. \A c \in Command : CallOK(c)'
  BY <1>2, <1>4, CallsStay
<1> QED BY <1>3, <1>5, ReplicasStay DEF Inv

LEMMA InvChangeLeader ==
    ASSUME Inv, NEW s \in Server, ChangeLeader(s)
    PROVE  Inv'
<1>1. [ClientNext]_allVars
  BY DEF ClientNext
<1>2. /\ UNCHANGED <<vars, rpcErrors, clientVars, callVars>>
      /\ stateChanges' = stateChanges + 1
      /\ leaders' = IF s \in leaders THEN leaders \ {s} ELSE leaders \cup {s}
  BY DEF ChangeLeader
<1>3. ClientTypeOK'
  BY <1>2 DEF Inv, ClientTypeOK, clientVars, callVars
<1>4. stateChanges' # 0 /\ (stateChanges' <= 1 => stateChanges = 0)
  <2>1. stateChanges \in Nat
    BY DEF Inv, ClientTypeOK
  <2> QED BY <1>2, <2>1
<1>5. LeaderOK'
  BY <1>2, <1>4 DEF Inv, LeaderOK, clientVars
<1>6. ASSUME NEW c \in Command
      PROVE  CallOK(c)'
  <2>1. CallOK(c) /\ SameCall(c) /\ TypeOK /\ Answers /\ ClientTypeOK /\ [Next]_vars
    BY <1>2 DEF Inv, SameCall, SameResult, callVars
  <2>2. rpcErrors' \in Nat /\ rpcErrors <= rpcErrors'
    BY <1>2 DEF Inv, ClientTypeOK
  <2>3. \A t \in Server : SameReply(c, t)
    BY <2>1 DEF SameReply, SameCall, SameResult
  <2>4. \A t \in Server : ReplyOK(c, t)'
    BY <2>1, <2>2, <2>3, ReplyStays DEF CallOK
  <2>5. ResultOK(c)'
    BY <2>1, ResultStays DEF CallOK, SameCall
  <2>6. EarlyOK(c)'
    <3>1. Returned(c, "fast")' = Returned(c, "fast") /\ outcome'[c] = outcome[c]
      BY <2>1 DEF Returned, SameCall, SameResult
    <3>2. leaders' \subseteq Server
      BY <1>3 DEF ClientTypeOK
    <3>3. \A t \in Server : stateChanges = 0 => response'[c][t] = Nil /\ results'[c][t] = Nil
      BY <2>1 DEF CallOK, EarlyOK, SameCall, SameResult
    <3>4. stateChanges = 0 /\ Returned(c, "fast") => outcome[c].content \in Executed(c)
      BY <2>1 DEF CallOK, EarlyOK
    <3> QED BY <1>4, <3>1, <3>2, <3>3, <3>4 DEF EarlyOK, Executed
  <2> QED BY <2>4, <2>5, <2>6 DEF CallOK
<1> QED BY <1>1, <1>3, <1>5, <1>6, ReplicasStay DEF Inv

LEMMA InvIsLeader ==
    ASSUME Inv, NEW p \in Client, NEW s \in Server, IsLeader(p, s)
    PROVE  Inv'
<1>1. [ClientNext]_allVars
  BY DEF ClientNext
<1>2. /\ UNCHANGED <<vars, leaderVars, rpcErrors, client, callVars>>
      /\ client[p] = "fetchLeader"
      /\ unasked' = [unasked EXCEPT ![p] = @ \ {s}]
      /\ leaderId' = [leaderId EXCEPT ![p] = IF s \in leaders THEN s ELSE @]
  BY DEF IsLeader
<1>3. ClientTypeOK'
  BY <1>2 DEF Inv, ClientTypeOK, leaderVars, callVars
<1>4. LeaderOK'
  BY <1>2 DEF Inv, ClientTypeOK, LeaderOK, leaderVars
<1>5. rpcErrors' \in Nat /\ rpcErrors <= rpcErrors'
  BY <1>2 DEF Inv, ClientTypeOK
<1>6. \A c \in Command : CallOK(c)'
  BY <1>1, <1>2, <1>5, CallsStay
<1> QED BY <1>1, <1>3, <1>4, <1>6, ReplicasStay DEF Inv

LEMMA InvIsLeaderError ==
    ASSUME Inv, NEW p \in Client, IsLeaderError(p)
    PROVE  Inv'
<1>1. [ClientNext]_allVars
  BY DEF ClientNext
<1>2. /\ UNCHANGED <<vars, leaderVars, unasked, leaderId, callVars>>
      /\ rpcErrors' = rpcErrors + 1
      /\ client' = [client EXCEPT ![p] = "crashed"]
  BY DEF IsLeaderError
<1>3. ClientTypeOK'
  BY <1>2 DEF Inv, ClientTypeOK, leaderVars, callVars
<1>4. LeaderOK'
  BY <1>2, LeaderStays DEF Inv, ClientTypeOK
<1>5. rpcErrors' \in Nat /\ rpcErrors <= rpcErrors'
  BY <1>2 DEF Inv, ClientTypeOK
<1>6. \A c \in Command : CallOK(c)'
  BY <1>1, <1>2, <1>5, CallsStay
<1> QED BY <1>1, <1>3, <1>4, <1>6, ReplicasStay DEF Inv

LEMMA InvNewGrpcClient ==
    ASSUME Inv, NEW p \in Client, NewGrpcClient(p)
    PROVE  Inv'
<1>1. [ClientNext]_allVars
  BY DEF ClientNext
<1>2. /\ UNCHANGED <<vars, leaderVars, rpcErrors, unasked, leaderId, callVars>>
      /\ client' = [client EXCEPT ![p] = IF leaderId[p] = Nil THEN "noLeader" ELSE "ready"]
  BY DEF NewGrpcClient
<1>3. ClientTypeOK'
  BY <1>2 DEF Inv, ClientTypeOK, leaderVars, callVars
<1>4. LeaderOK'
  BY <1>2 DEF Inv, ClientTypeOK, LeaderOK, leaderVars
<1>5. rpcErrors' \in Nat /\ rpcErrors <= rpcErrors'
  BY <1>2 DEF Inv, ClientTypeOK
<1>6. \A c \in Command : CallOK(c)'
  BY <1>1, <1>2, <1>5, CallsStay
<1> QED BY <1>1, <1>3, <1>4, <1>6, ReplicasStay DEF Inv

-----------------------------------------------------------------------------
(* The goroutines of fastRound.                                            *)

\* ServePropose sets the answer, and the reply carries it.
LEMMA InvServePropose ==
    ASSUME Inv, NEW c \in Command, NEW s \in Server, ServePropose(s, c)
    PROVE  Inv'
<1>1. [ClientNext]_allVars
  BY DEF ClientNext
<1>2. /\ UNCHANGED <<leaderVars, rpcErrors, clientVars, call, results, acceptedCount, outcome>>
      /\ goroutine[c][s] # "none"
  BY DEF ServePropose
<1>3. /\ TypeOK /\ Answers /\ ClientTypeOK /\ LeaderOK /\ [Next]_vars
      /\ \A d \in Command : CallOK(d)
  BY <1>1, ReplicasStay DEF Inv
<1>4. rpcErrors' \in Nat /\ rpcErrors <= rpcErrors'
  BY <1>2, <1>3 DEF ClientTypeOK
<1>5. LeaderOK'
  BY <1>2, <1>3, LeaderStays DEF clientVars
<1>6. CASE goroutine[c][s] # "calling"
  <2>1. UNCHANGED <<goroutine, response>>
    BY <1>6 DEF ServePropose
  <2>2. ClientTypeOK'
    BY <1>2, <1>3, <2>1 DEF ClientTypeOK, leaderVars, clientVars
  <2>3. \A d \in Command : CallOK(d)'
    BY <1>1, <1>2, <1>4, <2>1, CallsStay DEF callVars
  <2> QED BY <1>1, <1>5, <2>2, <2>3, ReplicasStay DEF Inv
<1>7. CASE goroutine[c][s] = "calling"
  <2>1. PICK content \in IF s \in leaders THEN Executed(c) ELSE {Empty} :
           response' = [response EXCEPT ![c][s] = [content |-> content, status |-> answer'[s][c]]]
    BY <1>7 DEF ServePropose
  <2>2. goroutine' = [goroutine EXCEPT ![c][s] = "sending"]
    BY <1>7 DEF ServePropose
  <2> DEFINE r == [content |-> content, status |-> answer'[s][c]]
  <2>3. answer'[s][c] \in {"ACCEPTED", "CONFLICT"}
    BY <1>3 DEF ServePropose, Accept, Refuse, TypeOK
  <2>4. content \in Content
    BY DEF Executed, Content
  <2>5. r \in CurpReply /\ r # Nil /\ r.status = answer'[s][c] /\ r.content = content
    BY <2>3, <2>4, NilAssumption DEF CurpReply, StatusCode
  <2>6. "ACCEPTED" # Nil /\ "CONFLICT" # Nil
    BY NilAssumption DEF StatusCode
  <2>7. response' = [response EXCEPT ![c][s] = r]
    BY <2>1
  <2> HIDE DEF r
  <2>8. /\ response' \in [Command -> [Server -> CurpReply \cup {Nil}]] /\ response'[c][s] = r
        /\ \A t \in Server : t # s => response'[c][t] = response[c][t]
        /\ \A d \in Command : d # c => response'[d] = response[d]
    BY <1>3, <2>5, <2>7, OneEntry DEF ClientTypeOK
  <2>9. /\ goroutine' \in [Command -> [Server -> {"none", "calling", "sending", "exited"}]]
        /\ goroutine'[c][s] = "sending"
        /\ \A t \in Server : t # s => goroutine'[c][t] = goroutine[c][t]
        /\ \A d \in Command : d # c => goroutine'[d] = goroutine[d]
    BY <1>3, <2>2, OneEntry DEF ClientTypeOK
  <2>10. ClientTypeOK'
    BY <1>2, <1>3, <2>8, <2>9 DEF ClientTypeOK, leaderVars, clientVars
  <2>11. ASSUME NEW d \in Command, d # c
         PROVE  CallOK(d)'
    <3>1. SameCall(d)
      BY <1>2, <2>8, <2>9, <2>11 DEF SameCall, SameResult
    <3> QED BY <1>1, <1>2, <1>4, <3>1, CallStays
  <2>12. CallOK(c)'
    <3>1. CallOK(c)
      BY <1>3
    <3>2. results[c][s] = Nil /\ call[c] # "idle"
      BY <1>7, <3>1 DEF CallOK, ReplyOK
    <3>3. ReplyOK(c, s)'
      BY <1>2, <2>3, <2>5, <2>6, <2>8, <2>9, <3>2 DEF ReplyOK
    <3>4. ASSUME NEW t \in Server, t # s
          PROVE  ReplyOK(c, t)'
      <4>1. SameReply(c, t)
        BY <1>2, <2>8, <2>9, <3>4 DEF SameReply
      <4> QED BY <1>3, <1>4, <3>1, <4>1, ReplyStays DEF CallOK
    <3>5. ResultOK(c)'
      <4>1. SameResult(c)
        BY <1>2 DEF SameResult
      <4> QED BY <1>3, <3>1, <4>1, ResultStays DEF CallOK
    <3>6. EarlyOK(c)'
      <4>1. stateChanges # 0
        BY <1>7, <3>1 DEF CallOK, EarlyOK
      <4>2. s \in leaders => r.content \in Executed(c)
        BY <2>5
      <4>3. leaders \subseteq Server /\ leaders' = leaders /\ stateChanges' = stateChanges
        BY <1>2, <1>3 DEF ClientTypeOK, leaderVars
      <4>4. results' = results /\ outcome' = outcome /\ Returned(c, "fast")' = Returned(c, "fast")
        BY <1>2 DEF Returned
      <4>5. EarlyOK(c)
        BY <3>1 DEF CallOK
      <4> QED BY <2>8, <4>1, <4>2, <4>3, <4>4, <4>5 DEF EarlyOK, Executed
    <3> QED BY <3>3, <3>4, <3>5, <3>6 DEF CallOK
  <2> QED BY <1>1, <1>5, <2>10, <2>11, <2>12, ReplicasStay DEF Inv
<1> QED BY <1>6, <1>7

\* A reply that is lost leaves an error behind.
LEMMA InvProposeError ==
    ASSUME Inv, NEW c \in Command, NEW s \in Server, ProposeError(s, c)
    PROVE  Inv'
<1>1. [ClientNext]_allVars
  BY DEF ClientNext
<1>2. /\ UNCHANGED <<vars, leaderVars, clientVars, call, results, acceptedCount, outcome>>
      /\ goroutine[c][s] \in {"calling", "sending"}
      /\ goroutine' = [goroutine EXCEPT ![c][s] = "sending"]
      /\ response' = [response EXCEPT ![c][s] = Nil]
      /\ rpcErrors' = rpcErrors + 1
  BY DEF ProposeError
<1>3. /\ TypeOK /\ Answers /\ ClientTypeOK /\ LeaderOK /\ [Next]_vars
      /\ \A d \in Command : CallOK(d)
  BY <1>1, ReplicasStay DEF Inv
<1>4. rpcErrors' \in Nat /\ rpcErrors <= rpcErrors' /\ rpcErrors' > 0
  BY <1>2, <1>3 DEF ClientTypeOK
<1>5. LeaderOK'
  BY <1>2, <1>3, LeaderStays DEF clientVars
<1>6. /\ response' \in [Command -> [Server -> CurpReply \cup {Nil}]] /\ response'[c][s] = Nil
      /\ \A t \in Server : t # s => response'[c][t] = response[c][t]
      /\ \A d \in Command : d # c => response'[d] = response[d]
  BY <1>2, <1>3, OneEntry DEF ClientTypeOK
<1>7. /\ goroutine' \in [Command -> [Server -> {"none", "calling", "sending", "exited"}]]
      /\ goroutine'[c][s] = "sending"
      /\ \A t \in Server : t # s => goroutine'[c][t] = goroutine[c][t]
      /\ \A d \in Command : d # c => goroutine'[d] = goroutine[d]
  BY <1>2, <1>3, OneEntry DEF ClientTypeOK
<1>8. ClientTypeOK'
  BY <1>2, <1>3, <1>4, <1>6, <1>7 DEF ClientTypeOK, leaderVars, clientVars
<1>9. ASSUME NEW d \in Command, d # c
      PROVE  CallOK(d)'
  <2>1. SameCall(d)
    BY <1>2, <1>6, <1>7, <1>9 DEF SameCall, SameResult
  <2> QED BY <1>1, <1>2, <1>4, <2>1, CallStays
<1>10. CallOK(c)'
  <2>1. CallOK(c)
    BY <1>3
  <2>2. results[c][s] = Nil /\ call[c] # "idle"
    BY <1>2, <2>1 DEF CallOK, ReplyOK
  <2>3. ReplyOK(c, s)'
    BY <1>2, <1>4, <1>6, <1>7, <2>2 DEF ReplyOK
  <2>4. ASSUME NEW t \in Server, t # s
        PROVE  ReplyOK(c, t)'
    <3>1. SameReply(c, t)
      BY <1>2, <1>6, <1>7, <2>4 DEF SameReply
    <3> QED BY <1>3, <1>4, <2>1, <3>1, ReplyStays DEF CallOK
  <2>5. ResultOK(c)'
    <3>1. SameResult(c)
      BY <1>2 DEF SameResult
    <3> QED BY <1>3, <2>1, <3>1, ResultStays DEF CallOK
  <2>6. EarlyOK(c)'
    <3>1. stateChanges # 0
      BY <1>2, <2>1 DEF CallOK, EarlyOK
    <3>2. leaders \subseteq Server /\ leaders' = leaders /\ stateChanges' = stateChanges
      BY <1>2, <1>3 DEF ClientTypeOK, leaderVars
    <3>3. results' = results /\ outcome' = outcome /\ Returned(c, "fast")' = Returned(c, "fast")
      BY <1>2 DEF Returned
    <3>4. EarlyOK(c)
      BY <2>1 DEF CallOK
    <3> QED BY <1>6, <3>1, <3>2, <3>3, <3>4 DEF EarlyOK, Executed
  <2> QED BY <2>3, <2>4, <2>5, <2>6 DEF CallOK
<1> QED BY <1>1, <1>5, <1>8, <1>9, <1>10, ReplicasStay DEF Inv

-----------------------------------------------------------------------------
(* Propose.                                                                *)

\* A step of the call c alone.
LEMMA InvByCall ==
    ASSUME Inv, [ClientNext]_allVars, UNCHANGED leaderVars, rpcErrors' \in Nat,
           rpcErrors <= rpcErrors', ClientTypeOK', LeaderOK', NEW c \in Command,
           \A d \in Command : d # c => SameCall(d), CallOK(c)'
    PROVE  Inv'
<1>1. ASSUME NEW d \in Command
      PROVE  CallOK(d)'
  BY CallStays
<1> QED BY <1>1, ReplicasStay DEF Inv

\* A client that is ready has been through the first election.
LEMMA ReadyClient ==
    ASSUME Inv, NEW c \in Command, Ready(c)
    PROVE  /\ LeaderOf(c) \in Server /\ LeaderOf(c) # Nil /\ stateChanges # 0
           /\ stateChanges <= 1 => LeaderOf(c) \in leaders
BY ClientAssumption DEF Inv, ClientTypeOK, LeaderOK, Ready, LeaderOf

LEMMA InvPropose ==
    ASSUME Inv, NEW c \in Command, Propose(c)
    PROVE  Inv'
<1>1. [ClientNext]_allVars
  BY DEF ClientNext
<1>2. /\ UNCHANGED <<vars, leaderVars, rpcErrors, clientVars, response, results, acceptedCount, outcome>>
      /\ Ready(c) /\ call[c] = "idle"
      /\ call' = [call EXCEPT ![c] = "fastRound"]
      /\ goroutine' = [goroutine EXCEPT ![c] = [s \in Server |-> "calling"]]
  BY DEF Propose
<1>3. TypeOK /\ Answers /\ ClientTypeOK /\ LeaderOK /\ CallOK(c)
  BY DEF Inv
<1>4. rpcErrors' \in Nat /\ rpcErrors <= rpcErrors'
  BY <1>2, <1>3 DEF ClientTypeOK
<1>5. LeaderOK'
  BY <1>2, <1>3, LeaderStays DEF clientVars
<1>6. ClientTypeOK'
  BY <1>2, <1>3 DEF ClientTypeOK, leaderVars, clientVars
<1>7. /\ call'[c] = "fastRound" /\ \A s \in Server : goroutine'[c][s] = "calling"
      /\ \A d \in Command : d # c => call'[d] = call[d] /\ goroutine'[d] = goroutine[d]
  BY <1>2, <1>3 DEF ClientTypeOK
<1>8. \A d \in Command : d # c => SameCall(d)
  BY <1>2, <1>7 DEF SameCall, SameResult
<1>9. CallOK(c)'
  <2>1. \A s \in Server : response[c][s] = Nil /\ results[c][s] = Nil
    BY <1>2, <1>3 DEF CallOK, ReplyOK
  <2>2. \A s \in Server : ReplyOK(c, s)'
    BY <1>2, <1>7, <2>1 DEF ReplyOK
  <2>3. ResultOK(c)'
    <3>1. Counted(c)' = Counted(c) /\ FastCompleted(c)' = FastCompleted(c) /\ Ordered' = Ordered
      BY <1>2 DEF Counted, FastCompleted, AcceptedBy, Ordered, vars
    <3>2. Returned(c, "fast")' = Returned(c, "fast") /\ Returned(c, "slow")' = Returned(c, "slow")
      BY <1>2 DEF Returned
    <3> QED BY <1>2, <1>3, <1>7, <3>1, <3>2 DEF ResultOK, CallOK
  <2>4. EarlyOK(c)'
    <3>1. stateChanges # 0
      BY <1>2, ReadyClient
    <3>2. Returned(c, "fast")' = Returned(c, "fast")
      BY <1>2 DEF Returned
    <3> QED BY <1>2, <1>3, <3>1, <3>2 DEF EarlyOK, CallOK, leaderVars, Executed
  <2> QED BY <2>2, <2>3, <2>4 DEF CallOK
<1> QED BY <1>1, <1>2, <1>4, <1>5, <1>6, <1>8, <1>9, InvByCall

\* What Return leaves.
LEMMA Returns ==
    ASSUME ClientTypeOK, NEW c \in Command, NEW via \in {"fast", "slow", "timeout"},
           NEW content \in Content, Return(c, via, content)
    PROVE  /\ call' \in [Command -> {"idle", "fastRound", "slowRound", "returned"}]
           /\ outcome' \in [Command -> Outcome \cup {Nil}]
           /\ call'[c] = "returned" /\ outcome'[c].content = content
           /\ \A v : Returned(c, v)' => v = via
           /\ \A d \in Command : d # c => call'[d] = call[d] /\ outcome'[d] = outcome[d]
<1> DEFINE o == [via |-> via, content |-> content]
<1>1. o \in Outcome /\ o.via = via /\ o.content = content
  BY DEF Outcome
<1>2. outcome' = [outcome EXCEPT ![c] = o]
  BY DEF Return
<1> HIDE DEF o
<1>3. outcome' \in [Command -> Outcome \cup {Nil}] /\ outcome'[c] = o
  BY <1>1, <1>2 DEF ClientTypeOK
<1>4. \A d \in Command : d # c => outcome'[d] = outcome[d]
  BY <1>2 DEF ClientTypeOK
<1>5. /\ call' \in [Command -> {"idle", "fastRound", "slowRound", "returned"}]
      /\ call'[c] = "returned" /\ \A d \in Command : d # c => call'[d] = call[d]
  BY DEF Return, ClientTypeOK
<1> QED BY <1>1, <1>3, <1>4, <1>5 DEF Returned

\* What leaving fastRound leaves.
LEMMA Leaves ==
    ASSUME ClientTypeOK, NEW c \in Command, LeaveFastRound(c)
    PROVE  /\ results' \in [Command -> [Server -> CurpReply \cup {Nil}]]
           /\ acceptedCount' \in [Command -> Nat]
           /\ \A s \in Server : results'[c][s] = Nil
           /\ acceptedCount'[c] = Cardinality(Counted(c)')
           /\ \A d \in Command : d # c => /\ results'[d] = results[d]
                                         /\ acceptedCount'[d] = acceptedCount[d]
<1>1. [s \in Server |-> Nil] \in [Server -> CurpReply \cup {Nil}]
  OBVIOUS
<1>2. /\ results' \in [Command -> [Server -> CurpReply \cup {Nil}]]
      /\ \A s \in Server : results'[c][s] = Nil
      /\ \A d \in Command : d # c => results'[d] = results[d]
  BY <1>1 DEF LeaveFastRound, ClientTypeOK
<1>3. /\ acceptedCount' \in [Command -> Nat] /\ acceptedCount'[c] = 0
      /\ \A d \in Command : d # c => acceptedCount'[d] = acceptedCount[d]
  BY DEF LeaveFastRound, ClientTypeOK
<1>4. Counted(c)' = {}
  BY <1>2 DEF Counted
<1>5. Cardinality({}) = 0
  BY FS_EmptySet
<1> QED BY <1>2, <1>3, <1>4, <1>5

LEMMA InvTimeout ==
    ASSUME Inv, NEW c \in Command, Timeout(c)
    PROVE  Inv'
<1>1. [ClientNext]_allVars
  BY DEF ClientNext
<1>2. /\ UNCHANGED <<vars, leaderVars, rpcErrors, clientVars, goroutine, response>>
      /\ Ready(c) /\ Return(c, "timeout", Empty) /\ LeaveFastRound(c)
  BY DEF Timeout
<1>3. TypeOK /\ Answers /\ ClientTypeOK /\ LeaderOK /\ CallOK(c)
  BY DEF Inv
<1>4. rpcErrors' \in Nat /\ rpcErrors <= rpcErrors'
  BY <1>2, <1>3 DEF ClientTypeOK
<1>5. LeaderOK'
  BY <1>2, <1>3, LeaderStays DEF clientVars
<1>6. /\ call' \in [Command -> {"idle", "fastRound", "slowRound", "returned"}]
      /\ outcome' \in [Command -> Outcome \cup {Nil}]
      /\ call'[c] = "returned"
      /\ ~Returned(c, "fast")' /\ ~Returned(c, "slow")'
      /\ \A d \in Command : d # c => call'[d] = call[d] /\ outcome'[d] = outcome[d]
  <2>1. Empty \in Content
    BY DEF Content
  <2> QED BY <1>2, <1>3, <2>1, Returns
<1>7. /\ results' \in [Command -> [Server -> CurpReply \cup {Nil}]]
      /\ acceptedCount' \in [Command -> Nat]
      /\ \A s \in Server : results'[c][s] = Nil
      /\ acceptedCount'[c] = Cardinality(Counted(c)')
      /\ \A d \in Command : d # c => results'[d] = results[d] /\ acceptedCount'[d] = acceptedCount[d]
  BY <1>2, <1>3, Leaves
<1>8. ClientTypeOK'
  BY <1>2, <1>3, <1>6, <1>7 DEF ClientTypeOK, leaderVars, clientVars
<1>9. \A d \in Command : d # c => SameCall(d)
  BY <1>2, <1>6, <1>7 DEF SameCall, SameResult
<1>10. CallOK(c)'
  <2>1. \A s \in Server : ReplyOK(c, s)'
    BY <1>2, <1>3, <1>6, <1>7 DEF ReplyOK, CallOK, vars
  <2>2. ResultOK(c)'
    BY <1>6, <1>7 DEF ResultOK
  <2>3. EarlyOK(c)'
    <3>1. stateChanges # 0
      BY <1>2, ReadyClient
    <3>2. leaders \subseteq Server
      BY <1>3 DEF ClientTypeOK
    <3> QED BY <1>2, <1>3, <1>6, <1>7, <3>1, <3>2 DEF EarlyOK, CallOK, leaderVars, Executed
  <2> QED BY <2>1, <2>2, <2>3 DEF CallOK
<1> QED BY <1>1, <1>2, <1>4, <1>5, <1>8, <1>9, <1>10, InvByCall

\* slowRound returns a command that its leader has applied.
LEMMA InvSlowRound ==
    ASSUME Inv, NEW c \in Command, SlowRound(c)
    PROVE  Inv'
<1>1. [ClientNext]_allVars
  BY DEF ClientNext
<1>2. /\ UNCHANGED <<vars, leaderVars, rpcErrors, clientVars,
                     goroutine, response, results, acceptedCount>>
      /\ Ready(c) /\ call[c] = "slowRound" /\ c \in AppliedAt(LeaderOf(c))
  BY DEF SlowRound
<1>3. PICK content \in Executed(c) \cup {NotFoundInBuffer} : Return(c, "slow", content)
  BY DEF SlowRound
<1>4. TypeOK /\ RecordsOK /\ Answers /\ ClientTypeOK /\ LeaderOK /\ CallOK(c)
  BY DEF Inv
<1>5. rpcErrors' \in Nat /\ rpcErrors <= rpcErrors'
  BY <1>2, <1>4 DEF ClientTypeOK
<1>6. LeaderOK'
  BY <1>2, <1>4, LeaderStays DEF clientVars
<1>7. /\ call' \in [Command -> {"idle", "fastRound", "slowRound", "returned"}]
      /\ outcome' \in [Command -> Outcome \cup {Nil}]
      /\ call'[c] = "returned" /\ ~Returned(c, "fast")'
      /\ \A d \in Command : d # c => call'[d] = call[d] /\ outcome'[d] = outcome[d]
  <2>1. content \in Content
    BY DEF Content, Executed
  <2> QED BY <1>3, <1>4, <2>1, Returns
<1>8. ClientTypeOK'
  BY <1>2, <1>4, <1>7 DEF ClientTypeOK, leaderVars, clientVars
<1>9. \A d \in Command : d # c => SameCall(d)
  BY <1>2, <1>7 DEF SameCall, SameResult
<1>10. CallOK(c)'
  <2>1. \A s \in Server : ReplyOK(c, s)'
    BY <1>2, <1>4, <1>7 DEF ReplyOK, CallOK, vars
  <2>2. ResultOK(c)'
    <3>1. LeaderOf(c) \in Server
      BY <1>2, ReadyClient
    <3>2. c \in Ordered
      BY <1>2, <1>4, <3>1 DEF AppliedAt, Ordered, RecordsOK, TypeOK
    <3>3. Ordered' = Ordered /\ Counted(c)' = Counted(c)
      BY <1>2 DEF Ordered, Counted, vars
    <3> QED BY <1>2, <1>4, <1>7, <3>2, <3>3 DEF ResultOK, CallOK
  <2>3. EarlyOK(c)'
    BY <1>2, <1>4, <1>7 DEF EarlyOK, CallOK, leaderVars, Executed
  <2> QED BY <2>1, <2>2, <2>3 DEF CallOK
<1> QED BY <1>1, <1>2, <1>5, <1>6, <1>8, <1>9, <1>10, InvByCall

LEMMA InvSlowRoundError ==
    ASSUME Inv, NEW c \in Command, SlowRoundError(c)
    PROVE  Inv'
<1>1. [ClientNext]_allVars
  BY DEF ClientNext
<1>2. /\ UNCHANGED <<vars, leaderVars, unasked, leaderId, callVars>>
      /\ rpcErrors' = rpcErrors + 1
      /\ client' = [client EXCEPT ![Owner[c]] = "crashed"]
  BY DEF SlowRoundError, Crash
<1>3. ClientTypeOK'
  BY <1>2, ClientAssumption DEF Inv, ClientTypeOK, leaderVars, callVars
<1>4. LeaderOK'
  BY <1>2, LeaderStays DEF Inv, ClientTypeOK
<1>5. rpcErrors' \in Nat /\ rpcErrors <= rpcErrors'
  BY <1>2 DEF Inv, ClientTypeOK
<1>6. \A d \in Command : CallOK(d)'
  BY <1>1, <1>2, <1>5, CallsStay
<1> QED BY <1>1, <1>3, <1>4, <1>6, ReplicasStay DEF Inv

-----------------------------------------------------------------------------
(* fastRound receives.                                                     *)

\* The reply that fastRound returns is an acceptance, and as long as the
\* leadership has not changed it holds what the leader read.
LEMMA FastResultAccepted ==
    ASSUME Inv, NEW c \in Command, NEW s \in Server, Ready(c),
           response[c][s] # Nil, Accepts(response[c][s]), FastResult(c, s) # Nil
    PROVE  /\ FastResult(c, s) \in CurpReply /\ Accepts(FastResult(c, s))
           /\ stateChanges <= 1 => FastResult(c, s).content \in Executed(c)
<1>1. /\ ClientTypeOK /\ EarlyOK(c) /\ LeaderOf(c) \in Server
      /\ stateChanges <= 1 => LeaderOf(c) \in leaders
      /\ ReplyOK(c, LeaderOf(c))
  BY ReadyClient DEF Inv, CallOK
<1>2. CASE LeaderOf(c) = s
  <2>1. FastResult(c, s) = response[c][s]
    BY <1>1, <1>2 DEF FastResult, ClientTypeOK
  <2> QED BY <1>1, <1>2, <2>1 DEF EarlyOK, ClientTypeOK
<1>3. CASE LeaderOf(c) # s
  <2>1. FastResult(c, s) = results[c][LeaderOf(c)]
    BY <1>1, <1>3 DEF FastResult, ClientTypeOK
  <2> QED BY <1>1, <1>3, <2>1 DEF EarlyOK, ReplyOK, Accepts, ClientTypeOK
<1> QED BY <1>2, <1>3

\* The servers whose acceptance is counted, with the one that comes in.
LEMMA CountedAccepted ==
    ASSUME Inv, NEW c \in Command, NEW s \in Server,
           goroutine[c][s] = "sending", response[c][s] # Nil, Accepts(response[c][s])
    PROVE  /\ Counted(c) \cup {s} \subseteq AcceptedBy(c)
           /\ IsFiniteSet(Counted(c) \cup {s})
           /\ Cardinality(Counted(c) \cup {s}) = acceptedCount[c] + 1
<1>1. CallOK(c)
  BY DEF Inv
<1>2. Counted(c) \cup {s} \subseteq AcceptedBy(c) /\ s \notin Counted(c)
  BY <1>1 DEF CallOK, ReplyOK, Counted, AcceptedBy, Accepts
<1>3. IsFiniteSet(Counted(c))
  BY ProtocolAssumption, FS_Subset DEF Counted
<1>4. /\ IsFiniteSet(Counted(c) \cup {s})
      /\ Cardinality(Counted(c) \cup {s}) = Cardinality(Counted(c)) + 1
  BY <1>2, <1>3, FS_AddElement
<1> QED BY <1>1, <1>2, <1>4 DEF CallOK, ResultOK

\* What every Receive does, and what is left to show of each kind.
LEMMA InvByReceive ==
    ASSUME Inv, NEW c \in Command, NEW s \in Server, Receive(c, s),
           client' \in [Client -> {"fetchLeader", "ready", "noLeader", "crashed"}],
           \A p \in Client : client'[p] = "ready" => client[p] = "ready",
           call' \in [Command -> {"idle", "fastRound", "slowRound", "returned"}],
           results' \in [Command -> [Server -> CurpReply \cup {Nil}]],
           acceptedCount' \in [Command -> Nat],
           outcome' \in [Command -> Outcome \cup {Nil}],
           \A d \in Command : d # c => SameResult(d),
           call'[c] # "idle",
           \A t \in Server : t # s => results'[c][t] \in {results[c][t], Nil},
           results'[c][s] # Nil => results'[c][s] = response[c][s] /\ Accepts(response[c][s]),
           ResultOK(c)',
           stateChanges <= 1 /\ Returned(c, "fast")' => outcome'[c].content \in Executed(c)
    PROVE  Inv'
<1>1. [ClientNext]_allVars
  BY DEF ClientNext
<1>2. /\ UNCHANGED <<vars, leaderVars, rpcErrors, unasked, leaderId>>
      /\ Ready(c) /\ call[c] = "fastRound" /\ goroutine[c][s] = "sending"
      /\ goroutine' = [goroutine EXCEPT ![c][s] = "exited"]
      /\ response' = [response EXCEPT ![c][s] = Nil]
  BY DEF Receive
<1>3. TypeOK /\ Answers /\ ClientTypeOK /\ LeaderOK /\ CallOK(c)
  BY DEF Inv
<1>4. rpcErrors' \in Nat /\ rpcErrors <= rpcErrors'
  BY <1>2, <1>3 DEF ClientTypeOK
<1>5. LeaderOK'
  BY <1>2, <1>3, LeaderStays
<1>6. /\ response' \in [Command -> [Server -> CurpReply \cup {Nil}]] /\ response'[c][s] = Nil
      /\ \A t \in Server : t # s => response'[c][t] = response[c][t]
      /\ \A d \in Command : d # c => response'[d] = response[d]
  BY <1>2, <1>3, OneEntry DEF ClientTypeOK
<1>7. /\ goroutine' \in [Command -> [Server -> {"none", "calling", "sending", "exited"}]]
      /\ goroutine'[c][s] = "exited"
      /\ \A t \in Server : t # s => goroutine'[c][t] = goroutine[c][t]
      /\ \A d \in Command : d # c => goroutine'[d] = goroutine[d]
  BY <1>2, <1>3, OneEntry DEF ClientTypeOK
<1>8. ClientTypeOK'
  BY <1>2, <1>3, <1>6, <1>7 DEF ClientTypeOK, leaderVars
<1>9. \A d \in Command : d # c => SameCall(d)
  BY <1>6, <1>7 DEF SameCall
<1>10. ReplyOK(c, s)'
  <2>1. ReplyOK(c, s)
    BY <1>3 DEF CallOK
  <2>2. answer' = answer
    BY <1>2 DEF vars
  <2> QED BY <1>6, <1>7, <2>1, <2>2 DEF ReplyOK, Accepts
<1>11. ASSUME NEW t \in Server, t # s
       PROVE  ReplyOK(c, t)'
  <2>1. ReplyOK(c, t)
    BY <1>3 DEF CallOK
  <2>2. answer' = answer /\ rpcErrors' = rpcErrors
    BY <1>2 DEF vars
  <2> QED BY <1>6, <1>7, <1>11, <2>1, <2>2 DEF ReplyOK
<1>12. EarlyOK(c)'
  <2>1. stateChanges # 0
    BY <1>2, ReadyClient
  <2>2. leaders \subseteq Server /\ leaders' = leaders /\ stateChanges' = stateChanges
    BY <1>2, <1>3 DEF ClientTypeOK, leaderVars
  <2>3. EarlyOK(c)
    BY <1>3 DEF CallOK
  <2>4. ASSUME stateChanges <= 1, NEW t \in leaders
        PROVE  /\ response'[c][t] # Nil => response'[c][t].content \in Executed(c)
               /\ results'[c][t] # Nil => results'[c][t].content \in Executed(c)
    BY <1>6, <2>2, <2>3, <2>4 DEF EarlyOK
  <2> QED BY <2>1, <2>2, <2>4 DEF EarlyOK, Executed
<1>13. CallOK(c)'
  BY <1>10, <1>11, <1>12 DEF CallOK
<1> QED BY <1>1, <1>2, <1>4, <1>5, <1>8, <1>9, <1>13, InvByCall

\* The process of the call ends.
LEMMA Crashes ==
    ASSUME ClientTypeOK, NEW c \in Command, Crash(c)
    PROVE  /\ client' \in [Client -> {"fetchLeader", "ready", "noLeader", "crashed"}]
           /\ \A p \in Client : client'[p] = "ready" => client[p] = "ready"
BY ClientAssumption DEF Crash, ClientTypeOK

LEMMA InvReceiveNil ==
    ASSUME Inv, NEW c \in Command, NEW s \in Server, Receive(c, s), ReceiveNil(c, s)
    PROVE  Inv'
<1>1. /\ UNCHANGED <<call, results, acceptedCount, outcome>> /\ Crash(c)
      /\ UNCHANGED <<vars, leaderVars>> /\ call[c] = "fastRound" /\ goroutine[c][s] = "sending"
  BY DEF ReceiveNil, Receive
<1>2. TypeOK /\ Answers /\ ClientTypeOK /\ CallOK(c)
  BY DEF Inv
<1>3. /\ client' \in [Client -> {"fetchLeader", "ready", "noLeader", "crashed"}]
      /\ \A p \in Client : client'[p] = "ready" => client[p] = "ready"
  BY <1>1, <1>2, Crashes
<1>4. \A d \in Command : SameResult(d)
  BY <1>1 DEF SameResult
<1>5. ResultOK(c)'
  BY <1>1, <1>2, <1>4, ResultStays DEF CallOK
<1>6. stateChanges <= 1 /\ Returned(c, "fast")' => outcome'[c].content \in Executed(c)
  BY <1>1, <1>2 DEF CallOK, EarlyOK, Returned
<1>7. results'[c][s] = Nil
  BY <1>1, <1>2 DEF CallOK, ReplyOK
<1> QED BY <1>1, <1>2, <1>3, <1>4, <1>5, <1>6, <1>7, InvByReceive DEF ClientTypeOK

LEMMA InvReceiveConflict ==
    ASSUME Inv, NEW c \in Command, NEW s \in Server, Receive(c, s), ReceiveConflict(c, s)
    PROVE  Inv'
<1>1. /\ UNCHANGED <<client, outcome>> /\ LeaveFastRound(c)
      /\ call' = [call EXCEPT ![c] = "slowRound"]
      /\ response[c][s] # Nil /\ ~Accepts(response[c][s])
      /\ UNCHANGED <<vars, leaderVars>>
  BY DEF ReceiveConflict, Receive
<1>2. TypeOK /\ Answers /\ ClientTypeOK /\ CallOK(c)
  BY DEF Inv
<1>3. /\ results' \in [Command -> [Server -> CurpReply \cup {Nil}]]
      /\ acceptedCount' \in [Command -> Nat]
      /\ \A t \in Server : results'[c][t] = Nil
      /\ acceptedCount'[c] = Cardinality(Counted(c)')
      /\ \A d \in Command : d # c => results'[d] = results[d] /\ acceptedCount'[d] = acceptedCount[d]
  BY <1>1, <1>2, Leaves
<1>4. /\ call' \in [Command -> {"idle", "fastRound", "slowRound", "returned"}]
      /\ call'[c] = "slowRound" /\ \A d \in Command : d # c => call'[d] = call[d]
  BY <1>1, <1>2 DEF ClientTypeOK
<1>5. \A d \in Command : d # c => SameResult(d)
  BY <1>1, <1>3, <1>4 DEF SameResult
<1>6. ResultOK(c)'
  <2>1. answer[s][c] = "CONFLICT" /\ answer' = answer
    BY <1>1, <1>2 DEF CallOK, ReplyOK, Accepts, Answers, vars
  <2>2. /\ Returned(c, "fast")' = Returned(c, "fast") /\ Returned(c, "slow")' = Returned(c, "slow")
        /\ FastCompleted(c)' = FastCompleted(c) /\ Ordered' = Ordered
    BY <1>1 DEF Returned, FastCompleted, AcceptedBy, Ordered, vars
  <2> QED BY <1>2, <1>3, <2>1, <2>2 DEF ResultOK, CallOK
<1>7. stateChanges <= 1 /\ Returned(c, "fast")' => outcome'[c].content \in Executed(c)
  BY <1>1, <1>2 DEF CallOK, EarlyOK, Returned
<1> QED BY <1>1, <1>2, <1>3, <1>4, <1>5, <1>6, <1>7, InvByReceive DEF ClientTypeOK

LEMMA InvReceiveAccepted ==
    ASSUME Inv, NEW c \in Command, NEW s \in Server, Receive(c, s), ReceiveAccepted(c, s)
    PROVE  Inv'
<1>1. /\ UNCHANGED <<client, call, outcome>>
      /\ response[c][s] # Nil /\ Accepts(response[c][s])
      /\ results' = [results EXCEPT ![c][s] = response[c][s]]
      /\ acceptedCount' = [acceptedCount EXCEPT ![c] = @ + 1]
      /\ UNCHANGED <<vars, leaderVars>> /\ call[c] = "fastRound" /\ goroutine[c][s] = "sending"
  BY DEF ReceiveAccepted, Receive
<1>2. TypeOK /\ Answers /\ ClientTypeOK /\ CallOK(c)
  BY DEF Inv
<1>3. /\ results' \in [Command -> [Server -> CurpReply \cup {Nil}]]
      /\ results'[c][s] = response[c][s]
      /\ \A t \in Server : t # s => results'[c][t] = results[c][t]
      /\ \A d \in Command : d # c => results'[d] = results[d]
  BY <1>1, <1>2, OneEntry DEF ClientTypeOK
<1>4. /\ acceptedCount' \in [Command -> Nat] /\ acceptedCount'[c] = acceptedCount[c] + 1
      /\ \A d \in Command : d # c => acceptedCount'[d] = acceptedCount[d]
  BY <1>1, <1>2 DEF ClientTypeOK
<1>5. \A d \in Command : d # c => SameResult(d)
  BY <1>1, <1>3, <1>4 DEF SameResult
<1>6. ResultOK(c)'
  <2>1. Counted(c)' = Counted(c) \cup {s}
    BY <1>1, <1>3 DEF Counted
  <2>2. /\ Returned(c, "fast")' = Returned(c, "fast") /\ Returned(c, "slow")' = Returned(c, "slow")
        /\ FastCompleted(c)' = FastCompleted(c) /\ Ordered' = Ordered
    BY <1>1 DEF Returned, FastCompleted, AcceptedBy, Ordered, vars
  <2>3. acceptedCount'[c] = Cardinality(Counted(c)')
    BY <1>1, <1>4, <2>1, CountedAccepted
  <2> QED BY <1>1, <1>2, <2>2, <2>3 DEF ResultOK, CallOK
<1>7. stateChanges <= 1 /\ Returned(c, "fast")' => outcome'[c].content \in Executed(c)
  BY <1>1, <1>2 DEF CallOK, EarlyOK, Returned
<1>8. /\ client' \in [Client -> {"fetchLeader", "ready", "noLeader", "crashed"}]
      /\ call' \in [Command -> {"idle", "fastRound", "slowRound", "returned"}]
      /\ outcome' \in [Command -> Outcome \cup {Nil}] /\ call'[c] # "idle"
      /\ \A p \in Client : client'[p] = "ready" => client[p] = "ready"
  BY <1>1, <1>2 DEF ClientTypeOK
<1>9. /\ \A t \in Server : t # s => results'[c][t] \in {results[c][t], Nil}
      /\ results'[c][s] # Nil => results'[c][s] = response[c][s] /\ Accepts(response[c][s])
  BY <1>1, <1>3
<1> QED BY <1>3, <1>4, <1>5, <1>6, <1>7, <1>8, <1>9, InvByReceive

\* The last acceptance makes a super quorum of servers that accepted.
LEMMA InvReceiveLast ==
    ASSUME Inv, NEW c \in Command, NEW s \in Server, Receive(c, s), ReceiveLast(c, s)
    PROVE  Inv'
<1>1. /\ LeaveFastRound(c) /\ acceptedCount[c] + 1 = SuperQuorom(Cardinality(Server))
      /\ response[c][s] # Nil /\ Accepts(response[c][s]) /\ Ready(c)
      /\ UNCHANGED <<vars, leaderVars>> /\ call[c] = "fastRound" /\ goroutine[c][s] = "sending"
  BY DEF ReceiveLast, Receive
<1>2. TypeOK /\ Answers /\ ClientTypeOK /\ CallOK(c)
  BY DEF Inv
<1>3. /\ results' \in [Command -> [Server -> CurpReply \cup {Nil}]]
      /\ acceptedCount' \in [Command -> Nat]
      /\ \A t \in Server : results'[c][t] = Nil
      /\ acceptedCount'[c] = Cardinality(Counted(c)')
      /\ \A d \in Command : d # c => results'[d] = results[d] /\ acceptedCount'[d] = acceptedCount[d]
  BY <1>1, <1>2, Leaves
<1>4. FastCompleted(c)
  <2>1. /\ Counted(c) \cup {s} \subseteq AcceptedBy(c) /\ IsFiniteSet(Counted(c) \cup {s})
        /\ Cardinality(Counted(c) \cup {s}) = SuperQuorom(Cardinality(Server))
    BY <1>1, CountedAccepted
  <2>2. IsFiniteSet(AcceptedBy(c))
    BY ProtocolAssumption, FS_Subset DEF AcceptedBy
  <2>3. Cardinality(Counted(c) \cup {s}) <= Cardinality(AcceptedBy(c))
    BY <2>1, <2>2, FS_Subset
  <2>4. Cardinality(Counted(c) \cup {s}) \in Nat /\ Cardinality(AcceptedBy(c)) \in Nat
    BY <2>1, <2>2, FS_CardinalityType
  <2> QED BY <2>1, <2>3, <2>4 DEF FastCompleted
<1>5. FastCompleted(c)' /\ Ordered' = Ordered /\ answer' = answer
  BY <1>1, <1>4 DEF FastCompleted, AcceptedBy, Ordered, vars
<1>6. CASE FastResult(c, s) = Nil
  <2>1. Crash(c) /\ UNCHANGED <<call, outcome>>
    BY <1>6 DEF ReceiveLast
  <2>2. /\ client' \in [Client -> {"fetchLeader", "ready", "noLeader", "crashed"}]
        /\ \A p \in Client : client'[p] = "ready" => client[p] = "ready"
    BY <1>2, <2>1, Crashes
  <2>3. \A d \in Command : d # c => SameResult(d)
    BY <1>3, <2>1 DEF SameResult
  <2>4. ResultOK(c)'
    <3>1. Returned(c, "slow")' = Returned(c, "slow")
      BY <2>1 DEF Returned
    <3> QED BY <1>1, <1>2, <1>3, <1>5, <2>1, <3>1 DEF ResultOK, CallOK
  <2>5. stateChanges <= 1 /\ Returned(c, "fast")' => outcome'[c].content \in Executed(c)
    BY <1>2, <2>1 DEF CallOK, EarlyOK, Returned
  <2> QED BY <1>1, <1>2, <1>3, <2>1, <2>2, <2>3, <2>4, <2>5, InvByReceive DEF ClientTypeOK
<1>7. CASE FastResult(c, s) # Nil
  <2> DEFINE r == FastResult(c, s)
  <2>1. r \in CurpReply /\ Accepts(r) /\ (stateChanges <= 1 => r.content \in Executed(c))
    BY <1>1, <1>7, FastResultAccepted
  <2>2. Return(c, "fast", r.content) /\ UNCHANGED client
    BY <1>7, <2>1 DEF ReceiveLast
  <2>3. r.content \in Content
    BY <2>1 DEF CurpReply
  <2> HIDE DEF r
  <2>4. /\ call' \in [Command -> {"idle", "fastRound", "slowRound", "returned"}]
        /\ outcome' \in [Command -> Outcome \cup {Nil}]
        /\ call'[c] = "returned" /\ outcome'[c].content = r.content
        /\ ~Returned(c, "slow")'
        /\ \A d \in Command : d # c => call'[d] = call[d] /\ outcome'[d] = outcome[d]
    BY <1>2, <2>2, <2>3, Returns
  <2>5. \A d \in Command : d # c => SameResult(d)
    BY <1>3, <2>4 DEF SameResult
  <2>6. ResultOK(c)'
    BY <1>3, <1>5, <2>4 DEF ResultOK
  <2> QED BY <1>1, <1>2, <1>3, <2>1, <2>2, <2>4, <2>5, <2>6, InvByReceive DEF ClientTypeOK
<1> QED BY <1>6, <1>7

-----------------------------------------------------------------------------
(* The theorems.                                                           *)

LEMMA InvNext == Inv /\ [ClientNext]_allVars => Inv'
<1> SUFFICES ASSUME Inv, [ClientNext]_allVars PROVE Inv'
  OBVIOUS
<1>1. ASSUME NEW p \in Client,
             \/ IsLeaderError(p) \/ NewGrpcClient(p) \/ \E s \in Server : IsLeader(p, s)
      PROVE  Inv'
  BY <1>1, InvIsLeaderError, InvNewGrpcClient, InvIsLeader
<1>2. ASSUME NEW c \in Command, Propose(c) \/ Timeout(c) \/ SlowRound(c) \/ SlowRoundError(c)
      PROVE  Inv'
  BY <1>2, InvPropose, InvTimeout, InvSlowRound, InvSlowRoundError
<1>3. ASSUME NEW c \in Command, NEW s \in Server, ServePropose(s, c) \/ ProposeError(s, c)
      PROVE  Inv'
  BY <1>3, InvServePropose, InvProposeError
<1>4. ASSUME NEW c \in Command, NEW s \in Server, Receive(c, s)
      PROVE  Inv'
  <2>1. ReceiveNil(c, s) \/ ReceiveConflict(c, s) \/ ReceiveAccepted(c, s) \/ ReceiveLast(c, s)
    BY <1>4 DEF Receive
  <2> QED BY <1>4, <2>1, InvReceiveNil, InvReceiveConflict, InvReceiveAccepted, InvReceiveLast
<1> QED BY <1>1, <1>2, <1>3, <1>4, InvReplicate, InvChangeLeader, InvStutter DEF ClientNext

LEMMA InvInit == ClientInit => Inv
<1> SUFFICES ASSUME ClientInit PROVE Inv
  OBVIOUS
<1>1. /\ leaders = {} /\ stateChanges = 0 /\ rpcErrors = 0
      /\ client = [p \in Client |-> "fetchLeader"] /\ unasked = [p \in Client |-> Server]
      /\ leaderId = [p \in Client |-> Nil] /\ call = [c \in Command |-> "idle"]
      /\ goroutine = [c \in Command |-> [s \in Server |-> "none"]]
      /\ response = [c \in Command |-> [s \in Server |-> Nil]]
      /\ results = [c \in Command |-> [s \in Server |-> Nil]]
      /\ acceptedCount = [c \in Command |-> 0] /\ outcome = [c \in Command |-> Nil]
      /\ answer = [s \in Server |-> [c \in Command |-> Nil]]
  BY DEF ClientInit, Init
<1>2. TypeOK /\ RecordsOK
  <2>1. Init
    BY DEF ClientInit
  <2>2. TypeOK
    BY <2>1 DEF Init, TypeOK
  <2>3. \A s \in Server, c \in Command : answer[s][c] # "ACCEPTED"
    BY <1>1, NilAssumption DEF StatusCode
  <2> QED BY <2>1, <2>2, <2>3 DEF Init, RecordsOK
<1>3. ClientTypeOK /\ LeaderOK /\ Answers
  BY <1>1 DEF ClientTypeOK, LeaderOK, Answers
<1>4. ASSUME NEW c \in Command
      PROVE  CallOK(c)
  <2>1. Counted(c) = {} /\ ~Returned(c, "fast") /\ ~Returned(c, "slow")
    BY <1>1 DEF Counted, Returned
  <2>2. Cardinality({}) = 0
    BY FS_EmptySet
  <2> QED BY <1>1, <2>1, <2>2 DEF CallOK, ReplyOK, ResultOK, EarlyOK
<1> QED BY <1>2, <1>3, <1>4 DEF Inv

\* The invariant holds of any number of clients, calls and errors.
THEOREM ClientInvariant == ClientSpec => []Inv
BY InvInit, InvNext, PTL DEF ClientSpec

\* The variables of the client (client_grpc.go) keep their types.
THEOREM ClientTypeCorrect == ClientSpec => []ClientTypeOK
<1>1. Inv => ClientTypeOK
  BY DEF Inv
<1> QED BY <1>1, ClientInvariant, PTL

\* A client turns to slowRound only when a server reported a conflict.
THEOREM SlowRoundOnConflict == ClientSpec => []SlowOnlyOnConflict
<1>1. Inv => SlowOnlyOnConflict
  BY DEF Inv, CallOK, ResultOK, SlowOnlyOnConflict
<1> QED BY <1>1, ClientInvariant, PTL

\* fastRound returns what the leader read, not the empty content of a
\* follower, as long as the first leader leads.
THEOREM FastReadsLeader == ClientSpec => []FastGetFromLeader
<1>1. Inv => FastGetFromLeader
  BY DEF Inv, CallOK, EarlyOK, FastGetFromLeader
<1> QED BY <1>1, ClientInvariant, PTL

\* Propose does not return two interfering commands on the fast path unless
\* Raft has ordered one of them.
THEOREM FastCallsOrdered == ClientSpec => []FastReturnsOrdered
<1>1. Inv /\ FastCompletedOrdered => FastReturnsOrdered
  BY DEF Inv, CallOK, ResultOK, FastCompletedOrdered, FastReturnsOrdered
<1> QED BY <1>1, ClientInvariant, ClientsUseReplicas, FastPathOrdered, PTL

\* Whatever Propose returned without an error survives the loss of f servers.
THEOREM ReturnedCallsSurvive == ClientSpec => []ReturnedSurvives
<1>1. Inv /\ SurvivorsAgree => ReturnedSurvives
  <2> SUFFICES ASSUME Inv, SurvivorsAgree, Cardinality(Server) % 2 = 1, NEW c \in Command,
                      Returned(c, "fast") \/ Returned(c, "slow"), c \notin Ordered,
                      NEW d \in Command, NEW Q \in SUBSET Server, c # d, Interferes(c, d),
                      Cardinality(Q) = MaxFailures(Cardinality(Server)) + 1
               PROVE  Cardinality({s \in Q : c \in records[s]})
                        > Cardinality({s \in Q : d \in records[s]})
    BY DEF ReturnedSurvives
  <2>1. FastCompleted(c)
    BY DEF Inv, CallOK, ResultOK
  <2> QED BY <2>1 DEF SurvivorsAgree
<1> QED BY <1>1, ClientInvariant, ClientsUseReplicas, SuperQuoromSurvives, PTL

-----------------------------------------------------------------------------
(* Nil replies, and the crashes they cause.                                *)

\* With one or three servers the super quorum is all of them, so the reply
\* of the leader is in when fastRound returns.
LEMMA LeaderReplyIn ==
    ASSUME Cardinality(Server) \in {1, 3}, Inv, NEW c \in Command, NEW s \in Server,
           Receive(c, s), ReceiveLast(c, s)
    PROVE  FastResult(c, s) # Nil
<1>1. /\ response[c][s] # Nil /\ Accepts(response[c][s]) /\ Ready(c)
      /\ acceptedCount[c] + 1 = SuperQuorom(Cardinality(Server)) /\ goroutine[c][s] = "sending"
  BY DEF ReceiveLast, Receive
<1>2. SuperQuorom(Cardinality(Server)) = Cardinality(Server)
  <2>1. SuperQuorom(1) = 1
    BY DEF SuperQuorom, MaxFailures
  <2>2. SuperQuorom(3) = 3
    BY DEF SuperQuorom, MaxFailures
  <2> QED BY <2>1, <2>2
<1>3. Counted(c) \cup {s} = Server
  <2>1. Counted(c) \cup {s} \subseteq Server
    BY DEF Counted
  <2>2. Cardinality(Counted(c) \cup {s}) = Cardinality(Server)
    BY <1>1, <1>2, CountedAccepted
  <2> QED BY <2>1, <2>2, ProtocolAssumption, FS_Subset
<1>4. LeaderOf(c) \in Server /\ ClientTypeOK
  BY <1>1, ReadyClient DEF Inv
<1>5. CASE LeaderOf(c) = s
  BY <1>1, <1>4, <1>5 DEF FastResult, ClientTypeOK
<1>6. CASE LeaderOf(c) # s
  BY <1>3, <1>4, <1>6 DEF FastResult, ClientTypeOK, Counted
<1> QED BY <1>5, <1>6

\* A client of a cluster of one or of three servers crashes only when an RPC
\* has failed.  Of five servers four are a super quorum, and the run v_five
\* shows a client that is ended by their acceptances.
THEOREM CrashesOnError ==
    ASSUME Cardinality(Server) \in {1, 3}
    PROVE  ClientSpec => []CrashOnlyOnError
<1>1. ClientInit => CrashOnlyOnError
  BY DEF ClientInit, CrashOnlyOnError
<1>2. Inv /\ CrashOnlyOnError /\ [ClientNext]_allVars => CrashOnlyOnError'
  <2> SUFFICES ASSUME Inv, CrashOnlyOnError, [ClientNext]_allVars PROVE CrashOnlyOnError'
    OBVIOUS
  <2>1. rpcErrors \in Nat
    BY DEF Inv, ClientTypeOK
  <2>2. CASE rpcErrors' = rpcErrors /\ \A p \in Client : client'[p] = "crashed" => client[p] = "crashed"
    BY <2>2 DEF CrashOnlyOnError
  <2>3. CASE rpcErrors' = rpcErrors + 1
    BY <2>1, <2>3 DEF CrashOnlyOnError
  <2>4. CASE UNCHANGED <<client, rpcErrors>>
    BY <2>2, <2>4
  <2>5. CASE Replicate \/ \E s \in Server : ChangeLeader(s)
    BY <2>4, <2>5 DEF Replicate, ChangeLeader, clientVars
  <2>6. ASSUME NEW p \in Client, IsLeaderError(p) \/ \E s \in Server : IsLeader(p, s)
        PROVE  CrashOnlyOnError'
    BY <2>3, <2>4, <2>6 DEF IsLeaderError, IsLeader
  <2>7. ASSUME NEW p \in Client, NewGrpcClient(p)
        PROVE  CrashOnlyOnError'
    BY <2>2, <2>7 DEF NewGrpcClient, Inv, ClientTypeOK
  <2>8. ASSUME NEW c \in Command, Propose(c) \/ Timeout(c) \/ SlowRound(c)
        PROVE  CrashOnlyOnError'
    BY <2>4, <2>8 DEF Propose, Timeout, SlowRound, clientVars
  <2>9. ASSUME NEW c \in Command, NEW s \in Server, ServePropose(s, c)
        PROVE  CrashOnlyOnError'
    BY <2>4, <2>9 DEF ServePropose, clientVars
  <2>10. ASSUME NEW c \in Command, SlowRoundError(c) \/ \E s \in Server : ProposeError(s, c)
         PROVE  CrashOnlyOnError'
    BY <2>3, <2>10 DEF SlowRoundError, ProposeError
  <2>11. ASSUME NEW c \in Command, NEW s \in Server, Receive(c, s)
         PROVE  CrashOnlyOnError'
    <3>1. rpcErrors' = rpcErrors /\ goroutine[c][s] = "sending"
      BY <2>11 DEF Receive
    <3>2. CASE ReceiveNil(c, s)
      <4>1. rpcErrors > 0
        BY <3>1, <3>2 DEF ReceiveNil, Inv, CallOK, ReplyOK
      <4> QED BY <3>1, <4>1 DEF CrashOnlyOnError
    <3>3. CASE ReceiveConflict(c, s) \/ ReceiveAccepted(c, s)
      BY <2>4, <3>1, <3>3 DEF ReceiveConflict, ReceiveAccepted
    <3>4. CASE ReceiveLast(c, s)
      <4>1. FastResult(c, s) # Nil
        BY <2>11, <3>4, LeaderReplyIn
      <4> QED BY <2>4, <3>1, <3>4, <4>1 DEF ReceiveLast
    <3> QED BY <2>11, <3>2, <3>3, <3>4 DEF Receive
  <2>12. CASE UNCHANGED allVars
    BY <2>4, <2>12 DEF allVars, clientVars
  <2> QED BY <2>5, <2>6, <2>7, <2>8, <2>9, <2>10, <2>11, <2>12 DEF ClientNext
<1> QED BY <1>1, <1>2, ClientInvariant, PTL DEF ClientSpec
=============================================================================
