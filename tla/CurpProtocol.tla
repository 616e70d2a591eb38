---------------------------- MODULE CurpProtocol ----------------------------
(***************************************************************************)
(* What the replicas of curp/state.go promise the clients' fast path, with *)
(* goroutines, channels and stores left out: every server records commands *)
(* that do not interfere, Raft orders commands, and a server forgets a     *)
(* record only after it has applied the command.  StateMachine implements  *)
(* this specification when ids are unique.  The super quorum is the one of *)
(* curp/client_grpc.go and curp/client.go.                                 *)
(***************************************************************************)
EXTENDS CurpCommand, FiniteSets

CONSTANTS
    Server,     \* the replicas
    Command,    \* the commands the clients issue
    MaxCommits  \* bound: entries of the Raft log

ASSUME ProtocolAssumption ==
    /\ IsFiniteSet(Server)
    /\ Command \subseteq CurpClientCommand
    /\ MaxCommits \in Nat

VARIABLES
    records,  \* records[s]: the commands in the witness of s
    answer,   \* answer[s][c]: what s found when c was proposed, or Nil
    order,    \* the commands that Raft has committed
    applied   \* applied[s]: how many of them s has executed

vars == <<records, answer, order, applied>>

AppliedAt(s) == {order[i] : i \in 1..applied[s]}

Init ==
    /\ records = [s \in Server |-> {}]
    /\ answer = [s \in Server |-> [c \in Command |-> Nil]]
    /\ order = <<>>
    /\ applied = [s \in Server |-> 0]

\* Mutant: only commands of the same kind are kept apart.
AcceptDifferentOps(s, c) ==
    /\ answer[s][c] = Nil
    /\ \A d \in records[s] : d.op = c.op => ~Interferes(d, c)
    /\ records' = [records EXCEPT ![s] = @ \cup {c}]
    /\ answer' = [answer EXCEPT ![s][c] = "ACCEPTED"]
    /\ UNCHANGED <<order, applied>>

Accept(s, c) ==
    /\ answer[s][c] = Nil
    /\ \A d \in records[s] : ~Interferes(d, c)
    /\ records' = [records EXCEPT ![s] = @ \cup {c}]
    /\ answer' = [answer EXCEPT ![s][c] = "ACCEPTED"]
    /\ UNCHANGED <<order, applied>>

Refuse(s, c) ==
    /\ answer[s][c] = Nil
    /\ \E d \in records[s] : Interferes(d, c)
    /\ answer' = [answer EXCEPT ![s][c] = "CONFLICT"]
    /\ UNCHANGED <<records, order, applied>>

\* Raft commits a command some server was given; two leaders may commit the
\* same command twice.
Order(s, c) ==
    /\ Len(order) < MaxCommits
    /\ answer[s][c] # Nil
    /\ order' = Append(order, c)
    /\ UNCHANGED <<records, answer, applied>>

Apply(s) ==
    /\ applied[s] < Len(order)
    /\ applied' = [applied EXCEPT ![s] = @ + 1]
    /\ UNCHANGED <<records, answer, order>>

Forget(s, c) ==
    /\ c \in records[s] \cap AppliedAt(s)
    /\ records' = [records EXCEPT ![s] = @ \ {c}]
    /\ UNCHANGED <<answer, order, applied>>

Next ==
    \E s \in Server :
        \/ Apply(s)
        \/ \E c \in Command :
              Accept(s, c) \/ Refuse(s, c) \/ Order(s, c) \/ Forget(s, c)

Spec == Init /\ [][Next]_vars

-----------------------------------------------------------------------------
(* Properties.                                                             *)

TypeOK ==
    /\ records \in [Server -> SUBSET Command]
    /\ answer \in [Server -> [Command -> StatusCode \cup {Nil}]]
    /\ order \in Seq(Command)
    /\ applied \in [Server -> Nat]

Ordered == {order[i] : i \in 1..Len(order)}

\* The inductive core: records do not interfere, an accepted command is
\* recorded or applied, and a record was accepted.
RecordsOK ==
    \A s \in Server :
        /\ applied[s] <= Len(order)
        /\ \A c, d \in records[s] : c # d => ~Interferes(c, d)
        /\ \A c \in Command : answer[s][c] = "ACCEPTED" => c \in records[s] \cup AppliedAt(s)

AcceptedBy(c) == {s \in Server : answer[s][c] = "ACCEPTED"}

\* A super quorum has accepted the command: the client takes it for done.
FastCompleted(c) == Cardinality(AcceptedBy(c)) >= SuperQuorom(Cardinality(Server))

\* Of two interfering commands that were both completed on the fast path of
\* a cluster of 2f + 1 servers, Raft has put one into its log: the super
\* quorums of superQuorom share a server, and that server accepted one
\* command after it had applied the other.
FastCompletedOrdered ==
    Cardinality(Server) % 2 = 1 =>
        \A c, d \in Command :
            c # d /\ Interferes(c, d) /\ FastCompleted(c) /\ FastCompleted(d)
            => {c, d} \cap Ordered # {}

\* What superQuorom is for: when f of 2f + 1 servers fail, the witnesses of
\* the other f + 1 still tell a command that was completed on the fast path
\* and not yet committed from every command that interferes with it: more
\* of them hold its record than the record of the other.
SurvivorsAgree ==
    Cardinality(Server) % 2 = 1 =>
        \A c, d \in Command, Q \in SUBSET Server :
            /\ c # d
            /\ Interferes(c, d)
            /\ FastCompleted(c)
            /\ c \notin Ordered
            /\ Cardinality(Q) = MaxFailures(Cardinality(Server)) + 1
            => Cardinality({s \in Q : c \in records[s]})
                 > Cardinality({s \in Q : d \in records[s]})
=============================================================================
