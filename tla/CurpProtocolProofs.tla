------------------------- MODULE CurpProtocolProofs -------------------------
(***************************************************************************)
(* What the record-keeping of CurpProtocol guarantees for every number of  *)
(* servers and every set of commands.  The inductive invariant is TypeOK   *)
(* together with RecordsOK; the two theorems about super quorums follow    *)
(* from it by counting.                                                    *)
(***************************************************************************)
EXTENDS CurpProtocol, FiniteSetTheorems, TLAPS

\* Interference does not depend on the order of its arguments.
LEMMA InterferesSymmetric ==
    ASSUME NEW c, NEW d
    PROVE  Interferes(c, d) <=> Interferes(d, c)
BY DEF Interferes

\* Every step keeps the types.
LEMMA TypeOKNext == TypeOK /\ [Next]_vars => TypeOK'
<1> SUFFICES ASSUME TypeOK, [Next]_vars PROVE TypeOK'
  OBVIOUS
<1>1. ASSUME NEW s \in Server, NEW c \in Command, Accept(s, c)
      PROVE  TypeOK'
  <2>1. "ACCEPTED" \in StatusCode
    BY DEF StatusCode
  <2>2. records' \in [Server -> SUBSET Command]
    BY <1>1 DEF Accept, TypeOK
  <2>3. [answer[s] EXCEPT ![c] = "ACCEPTED"] \in [Command -> StatusCode \cup {Nil}]
    BY <2>1 DEF TypeOK
  <2>4. answer' \in [Server -> [Command -> StatusCode \cup {Nil}]]
    BY <1>1, <2>3 DEF Accept, TypeOK
  <2> QED BY <1>1, <2>2, <2>4 DEF Accept, TypeOK
<1>2. ASSUME NEW s \in Server, NEW c \in Command, Refuse(s, c)
      PROVE  TypeOK'
  <2>1. "CONFLICT" \in StatusCode
    BY DEF StatusCode
  <2>3. [answer[s] EXCEPT ![c] = "CONFLICT"] \in [Command -> StatusCode \cup {Nil}]
    BY <2>1 DEF TypeOK
  <2>4. answer' \in [Server -> [Command -> StatusCode \cup {Nil}]]
    BY <1>2, <2>3 DEF Refuse, TypeOK
  <2> QED BY <1>2, <2>4 DEF Refuse, TypeOK
<1>3. ASSUME NEW s \in Server, NEW c \in Command, Order(s, c)
      PROVE  TypeOK'
  BY <1>3 DEF Order, TypeOK
<1>4. ASSUME NEW s \in Server, Apply(s)
      PROVE  TypeOK'
  BY <1>4 DEF Apply, TypeOK
<1>5. ASSUME NEW s \in Server, NEW c \in Command, Forget(s, c)
      PROVE  TypeOK'
  BY <1>5 DEF Forget, TypeOK
<1>6. CASE UNCHANGED vars
  BY <1>6 DEF vars, TypeOK
<1> QED BY <1>1, <1>2, <1>3, <1>4, <1>5, <1>6 DEF Next

\* Every step keeps RecordsOK: Accept tests the new record against all
\* others, and Forget drops a record only when the command is applied.
LEMMA RecordsOKNext == TypeOK /\ RecordsOK /\ [Next]_vars => RecordsOK'
<1> SUFFICES ASSUME TypeOK, RecordsOK, [Next]_vars, NEW t \in Server
             PROVE  /\ applied'[t] <= Len(order')
                    /\ \A c, d \in records'[t] : c # d => ~Interferes(c, d)
                    /\ \A c \in Command : answer'[t][c] = "ACCEPTED"
                            => c \in records'[t] \cup AppliedAt(t)'
  BY DEF RecordsOK
<1>0. /\ applied[t] \in Nat /\ applied[t] <= Len(order)
      /\ \A c, d \in records[t] : c # d => ~Interferes(c, d)
      /\ \A c \in Command : answer[t][c] = "ACCEPTED" => c \in records[t] \cup AppliedAt(t)
  BY DEF RecordsOK, TypeOK
<1>1. ASSUME NEW s \in Server, NEW c \in Command, Accept(s, c)
      PROVE  /\ applied'[t] <= Len(order')
             /\ \A e, d \in records'[t] : e # d => ~Interferes(e, d)
             /\ \A d \in Command : answer'[t][d] = "ACCEPTED"
                     => d \in records'[t] \cup AppliedAt(t)'
  <2>0. order' = order /\ applied' = applied /\ AppliedAt(t)' = AppliedAt(t)
    BY <1>1 DEF Accept, AppliedAt
  <2>1. CASE s # t
    BY <1>0, <1>1, <2>0, <2>1 DEF Accept, TypeOK
  <2>2. CASE s = t
    <3>1. records'[t] = records[t] \cup {c}
      BY <1>1, <2>2 DEF Accept, TypeOK
    <3>2. \A d \in records[t] : ~Interferes(d, c) /\ ~Interferes(c, d)
      BY <1>1, <2>2, InterferesSymmetric DEF Accept
    <3>3. \A d \in Command : d # c => answer'[t][d] = answer[t][d]
      BY <1>1, <2>2 DEF Accept, TypeOK
    <3> QED BY <1>0, <2>0, <3>1, <3>2, <3>3
  <2> QED BY <2>1, <2>2
<1>2. ASSUME NEW s \in Server, NEW c \in Command, Refuse(s, c)
      PROVE  /\ applied'[t] <= Len(order')
             /\ \A e, d \in records'[t] : e # d => ~Interferes(e, d)
             /\ \A d \in Command : answer'[t][d] = "ACCEPTED"
                     => d \in records'[t] \cup AppliedAt(t)'
  <2>0. /\ order' = order /\ applied' = applied /\ AppliedAt(t)' = AppliedAt(t)
        /\ records' = records
    BY <1>2 DEF Refuse, AppliedAt
  <2>1. \A d \in Command : answer'[t][d] = "ACCEPTED" => answer[t][d] = "ACCEPTED"
    BY <1>2 DEF Refuse, TypeOK
  <2> QED BY <1>0, <2>0, <2>1
<1>3. ASSUME NEW s \in Server, NEW c \in Command, Order(s, c)
      PROVE  /\ applied'[t] <= Len(order')
             /\ \A e, d \in records'[t] : e # d => ~Interferes(e, d)
             /\ \A d \in Command : answer'[t][d] = "ACCEPTED"
                     => d \in records'[t] \cup AppliedAt(t)'
  <2>1. /\ applied' = applied /\ records' = records /\ answer' = answer
        /\ Len(order') = Len(order) + 1
        /\ \A i \in 1..Len(order) : order'[i] = order[i]
    BY <1>3 DEF Order, TypeOK
  <2>2. Len(order) \in Nat /\ 1..applied[t] \subseteq 1..Len(order)
    BY <1>0 DEF TypeOK
  <2>3. AppliedAt(t)' = AppliedAt(t)
    BY <2>1, <2>2 DEF AppliedAt
  <2> QED BY <1>0, <2>1, <2>2, <2>3
<1>4. ASSUME NEW s \in Server, Apply(s)
      PROVE  /\ applied'[t] <= Len(order')
             /\ \A e, d \in records'[t] : e # d => ~Interferes(e, d)
             /\ \A d \in Command : answer'[t][d] = "ACCEPTED"
                     => d \in records'[t] \cup AppliedAt(t)'
  <2>1. /\ order' = order /\ records' = records /\ answer' = answer
        /\ applied'[t] \in Nat /\ applied[t] <= applied'[t] /\ applied'[t] <= Len(order)
    BY <1>0, <1>4 DEF Apply, TypeOK
  <2>2. AppliedAt(t) \subseteq AppliedAt(t)'
    BY <1>0, <2>1 DEF AppliedAt
  <2> QED BY <1>0, <2>1, <2>2
<1>5. ASSUME NEW s \in Server, NEW c \in Command, Forget(s, c)
      PROVE  /\ applied'[t] <= Len(order')
             /\ \A e, d \in records'[t] : e # d => ~Interferes(e, d)
             /\ \A d \in Command : answer'[t][d] = "ACCEPTED"
                     => d \in records'[t] \cup AppliedAt(t)'
  <2>0. /\ order' = order /\ applied' = applied /\ AppliedAt(t)' = AppliedAt(t)
        /\ answer' = answer
    BY <1>5 DEF Forget, AppliedAt
  <2>1. records'[t] \subseteq records[t]
    BY <1>5 DEF Forget, TypeOK
  <2>2. \A d \in records[t] : d \in records'[t] \cup AppliedAt(t)
    BY <1>5 DEF Forget, TypeOK
  <2> QED BY <1>0, <2>0, <2>1, <2>2
<1>6. CASE UNCHANGED vars
  BY <1>0, <1>6 DEF vars, AppliedAt
<1> QED BY <1>1, <1>2, <1>3, <1>4, <1>5, <1>6 DEF Next

\* The types and the records are right in every reachable state.
LEMMA RecordsInv == Spec => [](TypeOK /\ RecordsOK)
<1>1. Init => TypeOK /\ RecordsOK
  <2> SUFFICES ASSUME Init PROVE TypeOK /\ RecordsOK
    OBVIOUS
  <2>1. TypeOK
    BY DEF Init, TypeOK
  <2>2. \A s \in Server, c \in Command : answer[s][c] # "ACCEPTED"
    BY NilAssumption DEF Init, StatusCode
  <2>3. RecordsOK
    BY <2>2 DEF Init, RecordsOK
  <2> QED BY <2>1, <2>3
<1> QED BY <1>1, TypeOKNext, RecordsOKNext, PTL DEF Spec

-----------------------------------------------------------------------------
(* Counting.                                                               *)

\* Subsets of the servers are finite; a super quorum of 2f + 1 servers is
\* so large that two of them, and one of them and any f + 1 servers, meet.
LEMMA SuperQuoromSize ==
    ASSUME Cardinality(Server) % 2 = 1
    PROVE  \E f, h \in Nat :
              /\ Cardinality(Server) = 2 * f + 1
              /\ MaxFailures(Cardinality(Server)) = f
              /\ SuperQuorom(Cardinality(Server)) = f + h + 1
              /\ 2 * h >= f
<1>1. Cardinality(Server) \in Nat
  BY FS_CardinalityType, ProtocolAssumption
<1> DEFINE n == Cardinality(Server)
           f == (n - 1) \div 2
           h == (f + 1) \div 2
<1> HIDE DEF n
<1>2. n \in Nat /\ n % 2 = 1
  BY <1>1 DEF n
<1>3. f \in Nat /\ n = 2 * f + 1
  BY <1>2
<1> HIDE DEF f
<1>4. h \in Nat /\ 2 * h >= f
  BY <1>3
<1> HIDE DEF h
<1>5. MaxFailures(n) = f /\ SuperQuorom(n) = f + h + 1
  BY DEF MaxFailures, SuperQuorom, f, h
<1> QED BY <1>3, <1>4, <1>5 DEF n

\* A command that a super quorum accepted and that Raft has not ordered is
\* recorded by every server that accepted it.
LEMMA AcceptedUnordered ==
    ASSUME TypeOK, RecordsOK, NEW c \in Command, c \notin Ordered, NEW s \in AcceptedBy(c)
    PROVE  s \in Server /\ c \in records[s]
<1>1. s \in Server /\ c \in records[s] \cup AppliedAt(s) /\ applied[s] <= Len(order)
  BY DEF AcceptedBy, RecordsOK
<1>2. AppliedAt(s) \subseteq Ordered
  BY <1>1 DEF AppliedAt, Ordered, TypeOK
<1> QED BY <1>1, <1>2

\* Two interfering commands are completed on the fast path only if Raft has
\* ordered one of them, for every odd number of servers.
THEOREM FastPathOrdered == Spec => []FastCompletedOrdered
<1>1. TypeOK /\ RecordsOK => FastCompletedOrdered
  <2> SUFFICES ASSUME TypeOK, RecordsOK, Cardinality(Server) % 2 = 1,
                      NEW c \in Command, NEW d \in Command,
                      c # d, Interferes(c, d), FastCompleted(c), FastCompleted(d),
                      c \notin Ordered, d \notin Ordered
               PROVE  FALSE
    BY DEF FastCompletedOrdered
  <2>1. PICK f, h \in Nat : /\ Cardinality(Server) = 2 * f + 1
                            /\ SuperQuorom(Cardinality(Server)) = f + h + 1
                            /\ 2 * h >= f
    BY SuperQuoromSize
  <2>2. /\ AcceptedBy(c) \subseteq Server /\ AcceptedBy(d) \subseteq Server
        /\ IsFiniteSet(Server)
    BY ProtocolAssumption DEF AcceptedBy
  <2>3. /\ IsFiniteSet(AcceptedBy(c)) /\ IsFiniteSet(AcceptedBy(d))
    BY <2>2, FS_Subset
  <2>4. /\ Cardinality(AcceptedBy(c)) \in Nat /\ Cardinality(AcceptedBy(d)) \in Nat
        /\ Cardinality(AcceptedBy(c)) >= f + h + 1
        /\ Cardinality(AcceptedBy(d)) >= f + h + 1
    BY <2>1, <2>3, FS_CardinalityType DEF FastCompleted
  <2>5. Cardinality(AcceptedBy(c)) + Cardinality(AcceptedBy(d)) > Cardinality(Server)
    BY <2>1, <2>4
  <2>6. AcceptedBy(c) \cap AcceptedBy(d) # {}
    BY <2>2, <2>5, FS_MajoritiesIntersect
  <2>7. PICK s \in Server : s \in AcceptedBy(c) /\ s \in AcceptedBy(d)
    BY <2>2, <2>6
  <2>8. c \in records[s] /\ d \in records[s]
    BY <2>7, AcceptedUnordered
  <2> QED BY <2>8 DEF RecordsOK
<1> QED BY <1>1, RecordsInv, PTL

\* Any f + 1 of the 2f + 1 servers hold more records of a command completed
\* on the fast path, and not yet ordered, than of one it interferes with.
THEOREM SuperQuoromSurvives == Spec => []SurvivorsAgree
<1>1. TypeOK /\ RecordsOK => SurvivorsAgree
  <2> SUFFICES ASSUME TypeOK, RecordsOK, Cardinality(Server) % 2 = 1,
                      NEW c \in Command, NEW d \in Command, NEW Q \in SUBSET Server,
                      c # d, Interferes(c, d), FastCompleted(c), c \notin Ordered,
                      Cardinality(Q) = MaxFailures(Cardinality(Server)) + 1
               PROVE  Cardinality({s \in Q : c \in records[s]})
                        > Cardinality({s \in Q : d \in records[s]})
    BY DEF SurvivorsAgree
  <2> DEFINE A == AcceptedBy(c)
             C == {s \in Q : c \in records[s]}
             D == {s \in Q : d \in records[s]}
  <2>1. PICK f, h \in Nat : /\ Cardinality(Server) = 2 * f + 1
                            /\ MaxFailures(Cardinality(Server)) = f
                            /\ SuperQuorom(Cardinality(Server)) = f + h + 1
                            /\ 2 * h >= f
    BY SuperQuoromSize
  <2>2. /\ A \subseteq Server /\ A \cup Q \subseteq Server /\ C \subseteq Server
        /\ D \subseteq Server /\ IsFiniteSet(Server)
    BY ProtocolAssumption DEF AcceptedBy
  <2>3. A \cap Q \subseteq C
    BY AcceptedUnordered
  <2>4. C \cap D = {}
    BY <2>2 DEF RecordsOK
  <2>5. C \cup D \subseteq Q
    OBVIOUS
  <2> HIDE DEF A, C, D
  <2>6. /\ IsFiniteSet(A) /\ IsFiniteSet(Q) /\ IsFiniteSet(C) /\ IsFiniteSet(D)
        /\ IsFiniteSet(A \cup Q) /\ Cardinality(A \cup Q) <= Cardinality(Server)
    BY <2>2, FS_Subset
  <2>7. /\ IsFiniteSet(A \cap Q) /\ Cardinality(A \cap Q) <= Cardinality(C)
    BY <2>3, <2>6, FS_Subset
  <2>8. Cardinality(A \cup Q) = Cardinality(A) + Cardinality(Q) - Cardinality(A \cap Q)
    BY <2>6, FS_Union
  <2>9. Cardinality(C \cup D) = Cardinality(C) + Cardinality(D) - Cardinality({})
    BY <2>4, <2>6, FS_Union
  <2>10. Cardinality(C \cup D) <= Cardinality(Q)
    BY <2>5, <2>6, FS_Subset
  <2>11. /\ Cardinality(A) \in Nat /\ Cardinality(Q) \in Nat /\ Cardinality(C) \in Nat
         /\ Cardinality(D) \in Nat /\ Cardinality(A \cap Q) \in Nat
         /\ Cardinality(A \cup Q) \in Nat
    BY <2>6, <2>7, FS_CardinalityType
  <2>12. Cardinality({}) = 0
    BY FS_EmptySet
  <2>13. Cardinality(A) >= f + h + 1 /\ Cardinality(Q) = f + 1
    BY <2>1 DEF FastCompleted, A
  <2>14. Cardinality(A \cap Q) >= h + 1
    BY <2>1, <2>6, <2>8, <2>11, <2>13
  <2>15. Cardinality(C) > Cardinality(D)
    BY <2>1, <2>7, <2>9, <2>10, <2>11, <2>12, <2>13, <2>14
  <2> QED BY <2>15 DEF C, D
<1> QED BY <1>1, RecordsInv, PTL
=============================================================================
