--------------------------- MODULE CurpNodeProofs ---------------------------
(***************************************************************************)
(* What lies between Raft and cmd_worker, for any commands, capacities and *)
(* bounds: nothing is lost, doubled or overtaken.                          *)
(***************************************************************************)
EXTENDS CurpNode, FiniteSetTheorems, SequenceTheorems, TLAPS

-----------------------------------------------------------------------------
(* Counting through a finite set of numbers.                               *)

Rank(A, i) == Cardinality({j \in A : j <= i})
Nth(A, k)  == CHOOSE i \in A : Rank(A, i) = k

At(ents) == {i \in 1..Len(ents) : ents[i].kind = "command"}

(* The elements of A have the ranks 1..Cardinality(A), in their order.     *)
LEMMA Ranks ==
  ASSUME NEW A \in SUBSET Nat, IsFiniteSet(A)
  PROVE  /\ Cardinality(A) \in Nat
         /\ \A i \in A : Rank(A, i) \in 1..Cardinality(A)
         /\ \A i, j \in A : Rank(A, i) = Rank(A, j) => i = j
         /\ \A k \in 1..Cardinality(A) : \E i \in A : Rank(A, i) = k
<1> DEFINE Below(i) == {j \in A : j <= i}
<1>1. \A i : Below(i) \in SUBSET A
  OBVIOUS
<1>2. \A i : IsFiniteSet(Below(i)) /\ Cardinality(Below(i)) <= Cardinality(A)
  BY <1>1, FS_Subset
<1>3. Cardinality(A) \in Nat /\ \A i : Rank(A, i) = Cardinality(Below(i)) /\ Rank(A, i) \in Nat
  BY <1>2, FS_CardinalityType DEF Rank
<1>4. \A i \in A : Rank(A, i) # 0
  <2> SUFFICES ASSUME NEW i \in A PROVE Cardinality(Below(i)) # 0
    BY <1>3
  <2>1. i \in Below(i)
    OBVIOUS
  <2> HIDE DEF Below
  <2> QED
    BY <1>2, <2>1, FS_EmptySet
<1>5. \A i \in A : Rank(A, i) \in 1..Cardinality(A)
  <2> SUFFICES ASSUME NEW i \in A PROVE Rank(A, i) \in 1..Cardinality(A)
    OBVIOUS
  <2>1. Rank(A, i) = Cardinality(Below(i)) /\ Rank(A, i) \in Nat /\ Rank(A, i) # 0
    BY <1>3, <1>4
  <2>2. Cardinality(Below(i)) <= Cardinality(A) /\ Cardinality(A) \in Nat
    BY <1>2, <1>3
  <2> HIDE DEF Below
  <2> QED
    BY <2>1, <2>2
<1>6. \A i, j \in A : i < j => Rank(A, i) # Rank(A, j)
  <2> SUFFICES ASSUME NEW i \in A, NEW j \in A, i < j
               PROVE  Rank(A, i) # Rank(A, j)
    OBVIOUS
  <2>1. Rank(A, i) = Cardinality(Below(i)) /\ Rank(A, j) = Cardinality(Below(j))
    BY <1>3
  <2>2. \A k \in A : k \in Nat
    OBVIOUS
  <2>3. \A k \in A : k <= i => k <= j
    BY <2>2
  <2>4. j <= j /\ ~ j <= i
    BY <2>2
  <2>5. Below(i) \in SUBSET Below(j) /\ j \in Below(j) /\ j \notin Below(i)
    BY <2>3, <2>4
  <2> HIDE DEF Below
  <2> QED
    BY <1>2, <2>1, <2>5, FS_Subset
<1>7. \A i, j \in A : Rank(A, i) = Rank(A, j) => i = j
  <2> SUFFICES ASSUME NEW i \in A, NEW j \in A, i # j PROVE Rank(A, i) # Rank(A, j)
    OBVIOUS
  <2>1. i < j \/ j < i
    OBVIOUS
  <2> QED
    BY <1>6, <2>1
<1> DEFINE f == [i \in A |-> Rank(A, i)]
           N == 1..Cardinality(A)
<1>8. f \in Injection(A, N)
  <2>1. f \in [A -> N]
    BY <1>5
  <2> QED
    BY <2>1, <1>7 DEF Injection, IsInjective
<1>9. IsFiniteSet(N) /\ Cardinality(N) = Cardinality(A)
  BY <1>3, FS_Interval
<1>10. f \in Surjection(A, N)
  <2> HIDE DEF f, N
  <2> QED
    BY <1>8, <1>9, FS_Injection
<1>11. \A k \in N : \E i \in A : f[i] = k
  BY <1>10 DEF Surjection
<1>12. \A k \in N : \E i \in A : Rank(A, i) = k
  BY <1>11
<1> QED
  BY <1>3, <1>5, <1>7, <1>12

LEMMA NthRank ==
  ASSUME NEW A \in SUBSET Nat, IsFiniteSet(A), NEW i \in A
  PROVE  Nth(A, Rank(A, i)) = i
<1>1. \A j \in A : Rank(A, j) = Rank(A, i) => j = i
  BY Ranks
<1> QED
  BY <1>1, Zenon DEF Nth

LEMMA AtFinite ==
  ASSUME NEW s \in Seq(Entry)
  PROVE  /\ At(s) \in SUBSET Nat /\ At(s) \in SUBSET (1..Len(s))
         /\ IsFiniteSet(At(s)) /\ Cardinality(At(s)) \in Nat
<1>1. At(s) \in SUBSET (1..Len(s)) /\ Len(s) \in Nat
  BY DEF At
<1>2. IsFiniteSet(1..Len(s))
  BY <1>1, FS_Interval
<1> QED
  BY <1>1, <1>2, FS_Subset, FS_CardinalityType

LEMMA CommandsAre ==
  ASSUME NEW s \in Seq(Entry)
  PROVE  /\ Commands(s) = [k \in 1..Cardinality(At(s)) |-> s[Nth(At(s), k)].cmd]
         /\ Commands(s) \in Seq(Command) /\ Len(Commands(s)) = Cardinality(At(s))
         /\ \A i \in At(s) : Rank(At(s), i) \in 1..Len(Commands(s))
                             /\ Commands(s)[Rank(At(s), i)] = s[i].cmd
         /\ \A k \in 1..Len(Commands(s)) : \E i \in At(s) : Rank(At(s), i) = k
<1> DEFINE A == At(s)
           C == Commands(s)
<1>1. C = [k \in 1..Cardinality(A) |-> s[Nth(A, k)].cmd]
  BY DEF Commands, At, Nth, Rank
<1>2. A \in SUBSET Nat /\ IsFiniteSet(A) /\ Cardinality(A) \in Nat
  BY AtFinite
<1>3. \A i \in A : Nth(A, Rank(A, i)) = i
  BY <1>2, NthRank
<1>4. /\ \A i \in A : Rank(A, i) \in 1..Cardinality(A)
      /\ \A k \in 1..Cardinality(A) : \E i \in A : Rank(A, i) = k
  BY <1>2, Ranks
<1>5. \A i \in A : s[i].cmd \in Command
  BY DEF At, Entry
<1>6. \A i \in A : C[Rank(A, i)] = s[i].cmd
  BY <1>1, <1>3, <1>4
<1>7. \A k \in 1..Cardinality(A) : C[k] \in Command
  BY <1>4, <1>5, <1>6
<1>8. C \in Seq(Command) /\ Len(C) = Cardinality(A)
  BY <1>1, <1>2, <1>7
<1> QED
  BY <1>1, <1>4, <1>6, <1>8

LEMMA ShiftCardinality ==
  ASSUME NEW X \in SUBSET Nat, IsFiniteSet(X), NEW m \in Nat
  PROVE  /\ IsFiniteSet({m + k : k \in X})
         /\ Cardinality({m + k : k \in X}) = Cardinality(X)
<1> DEFINE Y == {m + k : k \in X}
           f == [k \in X |-> m + k]
<1>1. f \in [X -> Y] /\ \A k \in X : f[k] = m + k
  OBVIOUS
<1>2. \A k, l \in X : f[k] = f[l] => k = l
  BY <1>1
<1>3. \A y \in Y : \E k \in X : f[k] = y
  BY <1>1
<1>4. f \in Bijection(X, Y)
  BY <1>1, <1>2, <1>3 DEF Bijection, Injection, Surjection, IsInjective
<1>5. ExistsBijection(X, Y)
  BY <1>4 DEF ExistsBijection
<1> HIDE DEF Y
<1>6. IsFiniteSet(Y) /\ Cardinality(Y) = Cardinality(X)
  BY <1>5, FS_Bijection
<1> QED
  BY <1>6 DEF Y

(* What follows a batch of entries does not change its commands.           *)
LEMMA CommandsConcat ==
  ASSUME NEW s \in Seq(Entry), NEW t \in Seq(Entry)
  PROVE  Commands(s \o t) = Commands(s) \o Commands(t)
<1> DEFINE u == s \o t
           m == Len(s)
           A == At(s)
           B == At(t)
           U == At(u)
<1>1. /\ u \in Seq(Entry) /\ m \in Nat /\ Len(t) \in Nat /\ Len(u) = m + Len(t)
      /\ \A i \in 1..m : u[i] = s[i]
      /\ \A j \in 1..Len(t) : u[m + j] = t[j]
  OBVIOUS
<1> HIDE DEF u, m
<1>2. /\ A \in SUBSET Nat /\ IsFiniteSet(A) /\ Cardinality(A) \in Nat
      /\ B \in SUBSET Nat /\ IsFiniteSet(B) /\ Cardinality(B) \in Nat
  BY AtFinite
<1>3. \A i \in A : i \in 1..m /\ i \in U /\ u[i] = s[i]
  BY <1>1 DEF At, m
<1>4. \A j \in B : j \in 1..Len(t) /\ m + j \in U /\ u[m + j] = t[j]
  <2> SUFFICES ASSUME NEW j \in B
               PROVE  j \in 1..Len(t) /\ m + j \in U /\ u[m + j] = t[j]
    OBVIOUS
  <2>1. j \in 1..Len(t) /\ t[j].kind = "command"
    BY DEF At
  <2>2. m + j \in 1..Len(u) /\ u[m + j] = t[j]
    BY <1>1, <2>1
  <2> QED
    BY <2>1, <2>2 DEF At
<1>5. \A i \in U : i \in Nat /\ (i \in A \/ \E j \in B : i = m + j)
  <2> SUFFICES ASSUME NEW i \in U, i \notin A
               PROVE  i \in Nat /\ \E j \in B : i = m + j
    BY <1>2
  <2>1. i \in 1..Len(u) /\ u[i].kind = "command"
    BY DEF At
  <2>2. i > m
    BY <1>1, <2>1 DEF At, m
  <2>3. i - m \in 1..Len(t) /\ i = m + (i - m)
    BY <1>1, <2>1, <2>2
  <2>4. t[i - m].kind = "command"
    BY <1>1, <2>1, <2>3
  <2>5. i - m \in B
    BY <2>3, <2>4 DEF At
  <2> QED
    BY <2>1, <2>3, <2>5
<1> HIDE DEF A, B, U
<1>6. \A i \in A : Rank(U, i) = Rank(A, i)
  <2> SUFFICES ASSUME NEW i \in A PROVE {j \in U : j <= i} = {j \in A : j <= i}
    BY DEF Rank
  <2>1. \A j \in U : j <= i => j \in A
    <3> SUFFICES ASSUME NEW l \in B, m + l <= i PROVE FALSE
      BY <1>5
    <3>1. i \in 1..m /\ l \in 1..Len(t)
      BY <1>3, <1>4
    <3> QED
      BY <3>1, <1>1
  <2> QED
    BY <2>1, <1>3
<1>7. ASSUME NEW D \in SUBSET B
      PROVE  Cardinality(A \cup {m + k : k \in D}) = Cardinality(A) + Cardinality(D)
  <2> DEFINE E == {m + k : k \in D}
  <2>1. D \in SUBSET Nat /\ IsFiniteSet(D)
    BY <1>2, FS_Subset
  <2>2. IsFiniteSet(E) /\ Cardinality(E) = Cardinality(D)
    BY <2>1, <1>1, ShiftCardinality
  <2>3. A \cap E = {}
    <3> SUFFICES ASSUME NEW k \in D, m + k \in A PROVE FALSE
      OBVIOUS
    <3>1. m + k \in 1..m /\ k \in 1..Len(t)
      BY <1>3, <1>4
    <3> QED
      BY <3>1, <1>1
  <2> HIDE DEF E
  <2>4. Cardinality(A \cup E) = Cardinality(A) + Cardinality(E) - Cardinality(A \cap E)
    BY <1>2, <2>2, FS_Union
  <2>5. Cardinality(A \cap E) = 0 /\ Cardinality(D) \in Nat
    BY <2>1, <2>3, FS_EmptySet, FS_CardinalityType
  <2>6. Cardinality(A \cup E) = Cardinality(A) + Cardinality(D)
    BY <2>2, <2>4, <2>5, <1>2
  <2> QED
    BY <2>6 DEF E
<1>8. \A j \in B : Rank(U, m + j) = Cardinality(A) + Rank(B, j)
  <2> SUFFICES ASSUME NEW j \in B PROVE Rank(U, m + j) = Cardinality(A) + Rank(B, j)
    OBVIOUS
  <2> DEFINE D == {l \in B : l <= j}
  <2>1. \A l \in B : m + l <= m + j <=> l <= j
    BY <1>1, <1>4
  <2>2. \A i \in A : i <= m + j
    BY <1>1, <1>3, <1>4
  <2>3. {l \in U : l <= m + j} = A \cup {m + k : k \in D}
    BY <1>3, <1>4, <1>5, <2>1, <2>2
  <2>4. D \in SUBSET B
    OBVIOUS
  <2> QED
    BY <2>3, <2>4, <1>7 DEF Rank
<1>9. Cardinality(U) = Cardinality(A) + Cardinality(B)
  <2>1. U = A \cup {m + k : k \in B}
    BY <1>3, <1>4, <1>5
  <2> QED
    BY <2>1, <1>7
<1> DEFINE S == Commands(s)
           T == Commands(t)
           V == Commands(u)
<1>10. /\ S \in Seq(Command) /\ Len(S) = Cardinality(A)
       /\ \A i \in A : Rank(A, i) \in 1..Len(S) /\ S[Rank(A, i)] = s[i].cmd
  BY CommandsAre DEF A
<1>11. /\ T \in Seq(Command) /\ Len(T) = Cardinality(B)
       /\ \A j \in B : Rank(B, j) \in 1..Len(T) /\ T[Rank(B, j)] = t[j].cmd
  BY CommandsAre DEF B
<1>12. /\ V \in Seq(Command) /\ Len(V) = Cardinality(U)
       /\ \A i \in U : V[Rank(U, i)] = u[i].cmd
       /\ \A k \in 1..Len(V) : \E i \in U : Rank(U, i) = k
  BY <1>1, CommandsAre DEF U
<1> HIDE DEF S, T, V
<1>13. /\ S \o T \in Seq(Command) /\ Len(S \o T) = Len(S) + Len(T)
       /\ \A k \in 1..Len(S) : (S \o T)[k] = S[k]
       /\ \A k \in 1..Len(T) : (S \o T)[Len(S) + k] = T[k]
  <2>1. S \in Seq(Command) /\ T \in Seq(Command)
    BY <1>10, <1>11
  <2> QED
    BY <2>1
<1>14. \A k \in 1..Len(V) : V[k] = (S \o T)[k]
  <2> SUFFICES ASSUME NEW i \in U PROVE V[Rank(U, i)] = (S \o T)[Rank(U, i)]
    BY <1>12
  <2>1. CASE i \in A
    <3>1. Rank(U, i) = Rank(A, i) /\ V[Rank(U, i)] = s[i].cmd
      BY <2>1, <1>3, <1>6, <1>12
    <3>2. Rank(A, i) \in 1..Len(S) /\ S[Rank(A, i)] = s[i].cmd
      BY <2>1, <1>10
    <3> QED
      BY <3>1, <3>2, <1>13
  <2>2. ASSUME NEW j \in B, i = m + j PROVE V[Rank(U, i)] = (S \o T)[Rank(U, i)]
    <3>1. Rank(U, i) = Len(S) + Rank(B, j)
      BY <2>2, <1>8, <1>10
    <3>2. (S \o T)[Len(S) + Rank(B, j)] = t[j].cmd
      BY <1>11, <1>13
    <3>3. V[Rank(U, i)] = t[j].cmd
      BY <1>12, <1>4, <2>2
    <3> QED
      BY <3>1, <3>2, <3>3
  <2> QED
    BY <1>5, <2>1, <2>2
<1>15. Len(V) = Len(S \o T)
  BY <1>9, <1>10, <1>11, <1>12, <1>13
<1>16. V = S \o T
  BY <1>12, <1>13, <1>14, <1>15, SeqEqual
<1> QED
  BY <1>16 DEF V, S, T, u

-----------------------------------------------------------------------------
(* The inductive invariant.                                                *)

\* The commands among the first n entries.
Upto(n) == Commands(SubSeq(log, 1, n))

Types ==
  /\ TypeOK /\ stateChanges \in Nat
  /\ loop \in [pc : {"select", "publish", "failed", "stopped"}, data : Seq(Command),
               last : Nat, soft : RaftState \cup {Nil}]

(* The loop holds commands only while it publishes them, and they follow   *)
(* those of the applied entries.                                           *)
BatchOK ==
  /\ appliedIndex <= Len(log)
  /\ loop.pc # "publish" => loop.data = <<>>
  /\ loop.pc = "publish" => /\ loop.last <= Len(log)
                            /\ Upto(loop.last) = Upto(appliedIndex) \o loop.data

(* The rest of the way holds the commands of the applied entries.          *)
Delivered == received \o slowPath \o reader
DeliveredOK == ~ closing => Delivered = Upto(appliedIndex)

Inv == Types /\ BatchOK /\ DeliveredOK

(* Committing more entries does not change the commands of the first ones. *)
LEMMA UptoStable ==
  ASSUME NEW s \in Seq(Entry), NEW e \in Entry, NEW n \in Nat, n <= Len(s)
  PROVE  SubSeq(Append(s, e), 1, n) = SubSeq(s, 1, n)
OBVIOUS

(* What entriesToApply keeps of a batch are the entries after the applied  *)
(* ones, so that their commands follow on those of the applied entries.    *)
LEMMA BatchFollows ==
  ASSUME log \in Seq(Entry), appliedIndex \in Nat, appliedIndex <= Len(log),
         NEW first \in 1..appliedIndex + 1, NEW last \in 0..Len(log),
         EntriesToApply(first, last) # <<>>
  PROVE  /\ last > appliedIndex
         /\ EntriesToApply(first, last) \in Seq(Entry)
         /\ Commands(EntriesToApply(first, last)) \in Seq(Command)
         /\ Upto(last) = Upto(appliedIndex) \o Commands(EntriesToApply(first, last))
<1> DEFINE skip == appliedIndex - first + 1
           ents == SubSeq(log, first, last)
           a == appliedIndex
<1>1. /\ first \in Nat /\ first >= 1 /\ last \in Nat /\ last <= Len(log)
      /\ Len(log) \in Nat /\ skip \in Nat /\ skip = a + 1 - first
  OBVIOUS
<1>2. /\ ents \in Seq(Entry)
      /\ Len(ents) = IF first <= last THEN last - first + 1 ELSE 0
      /\ \A i \in 1..last - first + 1 : ents[i] = log[first + i - 1]
  <2>1. \A i \in first..last : log[i] \in Entry
    BY <1>1
  <2> QED
    BY <1>1, <2>1, SubSeqProperties
<1>3. skip < Len(ents) /\ EntriesToApply(first, last) = SubSeq(ents, skip + 1, Len(ents))
  BY DEF EntriesToApply
<1>4. first <= last /\ Len(ents) = last - first + 1 /\ last > a
  BY <1>1, <1>2, <1>3
<1> DEFINE nents == SubSeq(log, a + 1, last)
           mine  == SubSeq(ents, skip + 1, Len(ents))
<1>5. /\ nents \in Seq(Entry) /\ Len(nents) = last - a
      /\ \A i \in 1..last - a : nents[i] = log[a + i]
  <2>1. \A i \in a + 1..last : log[i] \in Entry
    BY <1>1
  <2>2. a + 1 \in Int /\ last \in Int /\ a + 1 <= last /\ last - (a + 1) + 1 = last - a
        /\ \A i \in Int : a + 1 + i - 1 = a + i
    BY <1>1, <1>4
  <2> QED
    BY <2>1, <2>2, SubSeqProperties
<1>6. /\ mine \in Seq(Entry) /\ Len(mine) = last - a
      /\ \A i \in 1..last - a : mine[i] = log[a + i]
  <2> HIDE DEF ents
  <2>1. \A i \in skip + 1..Len(ents) : ents[i] \in Entry
    BY <1>1, <1>2
  <2>2. skip + 1 \in Int /\ Len(ents) \in Int /\ skip + 1 <= Len(ents)
        /\ Len(ents) - (skip + 1) + 1 = last - a
    BY <1>1, <1>3, <1>4
  <2>3. /\ mine \in Seq(Entry) /\ Len(mine) = last - a
        /\ \A i \in 1..last - a : mine[i] = ents[skip + 1 + i - 1]
    BY <2>1, <2>2, SubSeqProperties
  <2>4. \A i \in 1..last - a : ents[skip + 1 + i - 1] = log[a + i]
    <3> SUFFICES ASSUME NEW i \in 1..last - a PROVE ents[skip + 1 + i - 1] = log[a + i]
      OBVIOUS
    <3>1. skip + 1 + i - 1 \in 1..last - first + 1 /\ first + (skip + 1 + i - 1) - 1 = a + i
      BY <1>1, <1>4
    <3> QED
      BY <3>1, <1>2
  <2> QED
    BY <2>3, <2>4
<1>7. EntriesToApply(first, last) = nents
  <2> HIDE DEF nents, mine
  <2>1. Len(mine) = Len(nents) /\ \A i \in 1..Len(mine) : mine[i] = nents[i]
    BY <1>5, <1>6
  <2>2. mine = nents
    BY <1>5, <1>6, <2>1, SeqEqual
  <2> QED
    BY <1>3, <2>2 DEF mine
<1>8. SubSeq(log, 1, last) = SubSeq(log, 1, a) \o nents
  BY <1>1, <1>4, ConcatAdjacentSubSeq
<1>9. SubSeq(log, 1, a) \in Seq(Entry)
  OBVIOUS
<1> HIDE DEF nents
<1>10. Commands(SubSeq(log, 1, last)) = Commands(SubSeq(log, 1, a)) \o Commands(nents)
  BY <1>5, <1>8, <1>9, CommandsConcat
<1>11. Commands(nents) \in Seq(Command)
  BY <1>5, CommandsAre
<1> QED
  BY <1>4, <1>5, <1>7, <1>10, <1>11 DEF Upto

-----------------------------------------------------------------------------
(* Init and the steps.                                                     *)

LEMMA UptoType ==
  ASSUME log \in Seq(Entry), NEW n \in Nat, n <= Len(log)
  PROVE  Upto(n) \in Seq(Command)
<1>1. SubSeq(log, 1, n) \in Seq(Entry)
  OBVIOUS
<1> QED
  BY <1>1, CommandsAre DEF Upto

LEMMA InitInv == Init => Inv
<1> SUFFICES ASSUME Init PROVE Inv
  OBVIOUS
<1>1. Types
  <2>1. Select \in [pc : {"select", "publish", "failed", "stopped"}, data : Seq(Command),
                    last : Nat, soft : RaftState \cup {Nil}]
    BY DEF Select
  <2>2. Len(slowPath) <= SlowPathCap
    BY NodeAssumption DEF Init
  <2>3. loop = Select /\ slowPath = <<>>
    BY DEF Init
  <2>4. /\ loop.pc \in {"select", "publish", "failed", "stopped"}
        /\ loop.data \in Seq(Command) /\ loop.last \in Nat /\ loop.soft \in RaftState \cup {Nil}
    BY <2>3 DEF Select
  <2>5. /\ log \in Seq(Entry) /\ sending \in SUBSET Proposal /\ proposeC \in Seq(Proposal)
        /\ proposer \in {"select", "proposing", "done"}
    BY DEF Init
  <2>6. hasLeader \in BOOLEAN /\ closing \in BOOLEAN /\ stopc \in BOOLEAN
    BY Zenon DEF Init
  <2>7. /\ appliedIndex \in Nat /\ reader \in Seq(Command) /\ slowPath \in Seq(Command)
        /\ received \in Seq(Command) /\ process \in {"running", "dead"}
    BY DEF Init
  <2>8. /\ nodeState \in RaftState /\ notices \in SUBSET (Nat \X RaftState)
        /\ stateChangeC \in Seq(RaftState) /\ raftState \in RaftState /\ stateChanges \in Nat
    BY DEF Init, RaftState
  <2> QED
    BY <2>1, <2>2, <2>3, <2>4, <2>5, <2>6, <2>7, <2>8 DEF Types, TypeOK
<1>2. SubSeq(log, 1, 0) = <<>> /\ <<>> \in Seq(Entry)
  BY DEF Init
<1>3. Len(Commands(<<>>)) = 0 /\ Commands(<<>>) \in Seq(Command)
  <2>1. At(<<>>) = {}
    BY DEF At
  <2> QED
    BY <1>2, <2>1, CommandsAre, FS_EmptySet
<1>4. Upto(appliedIndex) = <<>>
  <2>1. Commands(<<>>) = <<>>
    BY <1>3, EmptySeq
  <2> QED
    BY <1>2, <2>1 DEF Upto, Init
<1> QED
  BY <1>1, <1>4 DEF Init, Inv, BatchOK, DeliveredOK, Delivered, Select

(* Announce changes what it says of the state of the node, and no more.    *)
LEMMA AnnounceTypes ==
  ASSUME Types, NEW soft \in RaftState \cup {Nil}, Announce(soft)
  PROVE  /\ nodeState' \in RaftState /\ notices' \in SUBSET (Nat \X RaftState)
         /\ stateChangeC' \in Seq(RaftState) /\ raftState' \in RaftState
         /\ stateChanges' \in Nat
BY DEF Types, TypeOK, Announce, stateVars

(* The loop and what it has delivered depend on these variables only.      *)
LEMMA Unmoved ==
  ASSUME BatchOK, DeliveredOK, closing => closing',
         UNCHANGED <<log, commitVars>>
  PROVE  BatchOK' /\ DeliveredOK'
BY DEF BatchOK, DeliveredOK, Delivered, Upto, commitVars

(* The steps of the other goroutines leave the loop and its output alone.  *)
LEMMA AroundStep ==
  ASSUME Inv,
         \/ \E b \in BOOLEAN : RaftLeader(b)
         \/ \E c \in Proposal : StartSend(c) \/ SendProposal(c)
         \/ \E n \in notices : SendState(n)
         \/ ReceiveProposal \/ NodePropose \/ ProposerExit \/ ListenRaftState \/ Close
  PROVE  Inv'
<1> USE DEF raftVars, proposeVars, commitVars, stateVars
<1>1. UNCHANGED <<log, commitVars>> /\ (closing => closing')
  BY DEF RaftLeader, StartSend, SendProposal, ReceiveProposal, NodePropose, ProposerExit,
         SendState, ListenRaftState, Close
<1>2. Types'
  <2>1. ASSUME NEW b \in BOOLEAN, RaftLeader(b) PROVE Types'
    BY <2>1 DEF RaftLeader, Inv, Types, TypeOK
  <2>2. ASSUME NEW c \in Proposal, StartSend(c) PROVE Types'
    BY <2>2 DEF StartSend, Inv, Types, TypeOK
  <2>3. ASSUME NEW c \in Proposal, SendProposal(c) PROVE Types'
    BY <2>3 DEF SendProposal, Inv, Types, TypeOK
  <2>4. CASE ReceiveProposal
    BY <2>4 DEF ReceiveProposal, Inv, Types, TypeOK
  <2>5. CASE NodePropose
    BY <2>5 DEF NodePropose, Inv, Types, TypeOK
  <2>6. CASE ProposerExit
    BY <2>6 DEF ProposerExit, Inv, Types, TypeOK
  <2>7. ASSUME NEW n \in notices, SendState(n) PROVE Types'
    <3>1. n \in Nat \X RaftState
      BY DEF Inv, Types, TypeOK
    <3> QED
      BY <2>7, <3>1 DEF SendState, Inv, Types, TypeOK
  <2>8. CASE ListenRaftState
    BY <2>8 DEF ListenRaftState, Inv, Types, TypeOK
  <2>9. CASE Close
    BY <2>9 DEF Close, Inv, Types, TypeOK
  <2> QED
    BY <2>1, <2>2, <2>3, <2>4, <2>5, <2>6, <2>7, <2>8, <2>9
<1> QED
  BY <1>1, <1>2, Unmoved DEF Inv

LEMMA CommitStep ==
  ASSUME Inv, NEW e \in Entry, RaftCommit(e)
  PROVE  Inv'
<1>1. Types'
  BY DEF RaftCommit, Inv, Types, TypeOK, raftVars, proposeVars, commitVars, stateVars
<1>2. log \in Seq(Entry) /\ log' = Append(log, e) /\ Len(log') = Len(log) + 1 /\ Len(log) \in Nat
  BY DEF RaftCommit, Inv, Types, TypeOK
<1>3. \A n \in Nat : n <= Len(log) => Upto(n)' = Upto(n)
  BY <1>2, UptoStable DEF Upto
<1>4. UNCHANGED commitVars /\ closing' = closing
  BY DEF RaftCommit, proposeVars
<1>5. appliedIndex \in Nat /\ appliedIndex <= Len(log) /\ loop.last \in Nat
  BY DEF Inv, Types, TypeOK, BatchOK
<1>6. Upto(appliedIndex)' = Upto(appliedIndex)
  BY <1>3, <1>4, <1>5 DEF commitVars, Upto
<1>7. loop.last <= Len(log) => Upto(loop.last)' = Upto(loop.last)
  BY <1>3, <1>4, <1>5 DEF commitVars, Upto
<1>8. BatchOK'
  BY <1>2, <1>4, <1>5, <1>6, <1>7 DEF Inv, BatchOK, commitVars
<1>9. DeliveredOK'
  BY <1>4, <1>6 DEF Inv, DeliveredOK, Delivered, commitVars
<1> QED
  BY <1>1, <1>8, <1>9 DEF Inv

LEMMA ReadyStep ==
  ASSUME Inv, NEW first \in 1..appliedIndex + 1, NEW last \in 0..Len(log),
         NEW soft \in RaftState \cup {Nil}, Ready(first, last, soft)
  PROVE  Inv'
<1> DEFINE nents == EntriesToApply(first, last)
<1>1. /\ loop.pc = "select" /\ loop.data = <<>> /\ UNCHANGED <<log, reader, slowPath, received>>
      /\ UNCHANGED <<raftVars, proposeVars, process>> /\ closing' = closing
      /\ log \in Seq(Entry) /\ appliedIndex \in Nat /\ appliedIndex <= Len(log)
      /\ last \in Nat /\ last <= Len(log) /\ Len(log) \in Nat
      /\ Upto(appliedIndex) \in Seq(Command)
  BY UptoType DEF Ready, Inv, Types, TypeOK, BatchOK, raftVars, proposeVars
<1>2. \A n : Upto(n)' = Upto(n)
  BY <1>1 DEF Upto
<1>3. Delivered' = Delivered
  BY <1>1 DEF Delivered
<1>4. CASE Announce(soft) /\ nents = <<>> /\ UNCHANGED <<loop, appliedIndex>>
  <2>1. Types'
    BY <1>1, <1>4, AnnounceTypes DEF Inv, Types, TypeOK, raftVars, proposeVars
  <2>2. BatchOK' /\ DeliveredOK'
    BY <1>1, <1>4, Unmoved DEF Inv, commitVars
  <2> QED
    BY <2>1, <2>2 DEF Inv
<1>5. CASE Stop /\ UNCHANGED <<appliedIndex, stateVars>>
  <2>1. Types' /\ loop'.pc = "stopped" /\ loop'.data = <<>>
    BY <1>1, <1>5 DEF Stop, Select, Inv, Types, TypeOK, raftVars, proposeVars, stateVars
  <2>2. BatchOK'
    BY <1>1, <1>2, <1>5, <2>1 DEF Inv, BatchOK
  <2>3. DeliveredOK'
    BY <1>1, <1>3, <1>5 DEF Inv, DeliveredOK, Upto
  <2> QED
    BY <2>1, <2>2, <2>3 DEF Inv
<1>6. CASE nents # <<>> /\ Commands(nents) = <<>> /\ appliedIndex' = last /\ Announce(soft)
           /\ UNCHANGED loop
  <2>1. Types'
    BY <1>1, <1>6, AnnounceTypes DEF Inv, Types, TypeOK, raftVars, proposeVars
  <2>2. Upto(last) = Upto(appliedIndex) \o Commands(nents)
    BY <1>1, <1>6, BatchFollows
  <2>3. Upto(last) = Upto(appliedIndex)
    BY <1>1, <1>6, <2>2, ConcatEmptySeq
  <2>4. Upto(appliedIndex)' = Upto(appliedIndex)
    BY <1>1, <1>6, <2>3 DEF Upto
  <2>5. BatchOK'
    BY <1>1, <1>6 DEF BatchOK
  <2>6. DeliveredOK'
    BY <1>1, <1>3, <2>4 DEF Inv, DeliveredOK
  <2> QED
    BY <2>1, <2>5, <2>6 DEF Inv
<1>7. CASE /\ nents # <<>> /\ UNCHANGED <<appliedIndex, stateVars>>
           /\ loop' = [pc |-> "publish", data |-> Commands(nents), last |-> last, soft |-> soft]
  <2>1. Upto(last) = Upto(appliedIndex) \o Commands(nents) /\ Commands(nents) \in Seq(Command)
    BY <1>1, <1>7, BatchFollows
  <2>2. Types'
    BY <1>1, <1>7, <2>1 DEF Inv, Types, TypeOK, raftVars, proposeVars, stateVars
  <2>3. /\ loop'.pc = "publish" /\ loop'.data = Commands(nents) /\ loop'.last = last
        /\ Upto(loop.last)' = Upto(last) /\ Upto(appliedIndex)' = Upto(appliedIndex)
    BY <1>1, <1>7 DEF Upto
  <2>4. BatchOK'
    BY <1>1, <1>7, <2>1, <2>3 DEF BatchOK
  <2>5. DeliveredOK'
    BY <1>1, <1>3, <2>3 DEF Inv, DeliveredOK
  <2> QED
    BY <2>2, <2>4, <2>5 DEF Inv
<1> QED
  BY <1>4, <1>5, <1>6, <1>7 DEF Ready

LEMMA PublishStep ==
  ASSUME Inv, Publish
  PROVE  Inv'
<1>1. /\ loop.pc = "publish" /\ loop' = Select /\ appliedIndex' = loop.last
      /\ Announce(loop.soft) /\ closing' = closing
      /\ (reader = <<>> /\ reader' = loop.data) \/ (closing /\ reader' = reader)
      /\ UNCHANGED <<log, slowPath, received>>
      /\ UNCHANGED <<raftVars, proposeVars, process>>
  BY DEF Publish, raftVars, proposeVars
<1>2. /\ loop.data \in Seq(Command) /\ loop.last \in Nat /\ loop.soft \in RaftState \cup {Nil}
      /\ received \in Seq(Command) /\ slowPath \in Seq(Command)
      /\ loop.last <= Len(log) /\ Upto(loop.last) = Upto(appliedIndex) \o loop.data
  BY <1>1 DEF Inv, Types, TypeOK, BatchOK
<1>3. Types'
  <2>1. /\ nodeState' \in RaftState /\ notices' \in SUBSET (Nat \X RaftState)
        /\ stateChangeC' \in Seq(RaftState) /\ raftState' \in RaftState /\ stateChanges' \in Nat
    BY <1>1, <1>2, AnnounceTypes DEF Inv
  <2>2. loop' \in [pc : {"select", "publish", "failed", "stopped"}, data : Seq(Command),
                   last : Nat, soft : RaftState \cup {Nil}]
    BY <1>1 DEF Select
  <2>3. reader' \in Seq(Command) /\ appliedIndex' \in Nat
    BY <1>1, <1>2 DEF Inv, Types, TypeOK
  <2> QED
    BY <1>1, <2>1, <2>2, <2>3 DEF Inv, Types, TypeOK, raftVars, proposeVars
<1>4. BatchOK'
  BY <1>1, <1>2 DEF BatchOK, Select
<1>5. Upto(appliedIndex)' = Upto(loop.last)
  BY <1>1 DEF Upto
<1>6. DeliveredOK'
  <2> SUFFICES ASSUME ~ closing PROVE Delivered' = Upto(appliedIndex)'
    BY <1>1 DEF DeliveredOK
  <2>1. Delivered' = received \o slowPath \o loop.data /\ reader = <<>>
    BY <1>1 DEF Delivered
  <2>2. received \o slowPath = Upto(appliedIndex)
    BY <1>2, <2>1, ConcatEmptySeq, ConcatProperties DEF Inv, DeliveredOK, Delivered
  <2> QED
    BY <1>2, <1>5, <2>1, <2>2
<1> QED
  BY <1>3, <1>4, <1>6 DEF Inv

LEMMA StopStep ==
  ASSUME Inv, LoopStop \/ WriteError \/ ReadError
  PROVE  Inv'
<1>1. /\ UNCHANGED <<log, appliedIndex, reader, slowPath, received>> /\ closing' = closing
      /\ UNCHANGED <<raftVars, proposeVars, stateVars>> /\ process' \in {process, "dead"}
      /\ \E p \in {"failed", "stopped"} : loop' = [Select EXCEPT !.pc = p]
  BY DEF LoopStop, WriteError, ReadError, Stop, raftVars, proposeVars
<1>2. /\ loop'.pc \in {"failed", "stopped"} /\ loop'.data = <<>>
      /\ loop' \in [pc : {"select", "publish", "failed", "stopped"}, data : Seq(Command),
                   last : Nat, soft : RaftState \cup {Nil}]
  <2>1. PICK p \in {"failed", "stopped"} :
             loop' = [pc |-> p, data |-> <<>>, last |-> 0, soft |-> Nil]
    BY <1>1 DEF Select
  <2> QED
    BY <2>1
<1>3. Types'
  BY <1>1, <1>2 DEF Inv, Types, TypeOK, raftVars, proposeVars, stateVars
<1>4. BatchOK'
  BY <1>1, <1>2 DEF Inv, BatchOK
<1>5. DeliveredOK'
  BY <1>1 DEF Inv, DeliveredOK, Delivered, Upto
<1> QED
  BY <1>3, <1>4, <1>5 DEF Inv

LEMMA Regroup ==
  ASSUME NEW s \in Seq(Command), NEW t \in Seq(Command), NEW u \in Seq(Command)
  PROVE  (s \o t) \o u = s \o (t \o u)
BY ConcatAssociative

LEMMA MoveHead ==
  ASSUME NEW S, NEW s \in Seq(S), NEW t \in Seq(S), t # <<>>
  PROVE  Append(s, Head(t)) \o Tail(t) = s \o t
OBVIOUS

(* readCommits and cmd_worker only move the head of one queue to the end   *)
(* of the next.                                                            *)
LEMMA MoveStep ==
  ASSUME Inv, ReadCommits \/ WorkerReceive
  PROVE  Inv'
<1>1. UNCHANGED <<log, loop, appliedIndex>> /\ closing' = closing
      /\ UNCHANGED <<raftVars, proposeVars, stateVars, process>>
  BY DEF ReadCommits, WorkerReceive, raftVars, proposeVars
<1>2. reader \in Seq(Command) /\ slowPath \in Seq(Command) /\ received \in Seq(Command)
  BY DEF Inv, Types, TypeOK
<1>3. Types' /\ Delivered' = Delivered
  <2>1. CASE ReadCommits
    <3>1. /\ reader # <<>> /\ reader' = Tail(reader) /\ Len(slowPath) < SlowPathCap
          /\ slowPath' = Append(slowPath, Head(reader)) /\ received' = received
      BY <2>1 DEF ReadCommits
    <3>2. /\ reader' \in Seq(Command) /\ slowPath' \in Seq(Command)
          /\ Len(slowPath') <= SlowPathCap
      BY <1>2, <3>1, NodeAssumption
    <3>3. slowPath' \o reader' = slowPath \o reader
      BY <1>2, <3>1, MoveHead
    <3>4. Delivered = received \o (slowPath \o reader)
      BY <1>2, Regroup DEF Delivered
    <3>5. Delivered' = (received \o slowPath') \o reader'
      BY <3>1 DEF Delivered
    <3>6. Delivered' = received \o (slowPath' \o reader')
      BY <1>2, <3>2, <3>5, Regroup
    <3>7. Types'
      BY <1>1, <3>1, <3>2 DEF Inv, Types, TypeOK, raftVars, proposeVars, stateVars
    <3> QED
      BY <3>3, <3>4, <3>6, <3>7
  <2>2. CASE WorkerReceive
    <3>1. /\ slowPath # <<>> /\ slowPath' = Tail(slowPath) /\ reader' = reader
          /\ received' = Append(received, Head(slowPath))
      BY <2>2 DEF WorkerReceive
    <3>2. /\ received' \in Seq(Command) /\ slowPath' \in Seq(Command)
          /\ Len(slowPath') <= SlowPathCap
      BY <1>2, <3>1, NodeAssumption DEF Inv, Types, TypeOK
    <3>3. received' \o slowPath' = received \o slowPath
      BY <1>2, <3>1, MoveHead
    <3>4. Types'
      BY <1>1, <3>1, <3>2 DEF Inv, Types, TypeOK, raftVars, proposeVars, stateVars
    <3> QED
      BY <3>1, <3>3, <3>4 DEF Delivered
  <2> QED
    BY <2>1, <2>2
<1>4. BatchOK'
  BY <1>1 DEF Inv, BatchOK, Upto
<1>5. DeliveredOK'
  BY <1>1, <1>3 DEF Inv, DeliveredOK, Upto
<1> QED
  BY <1>3, <1>4, <1>5 DEF Inv

LEMMA NextInv == Inv /\ [Next]_nodeVars => Inv'
<1> SUFFICES ASSUME Inv, [Next]_nodeVars PROVE Inv'
  OBVIOUS
<1>1. CASE UNCHANGED nodeVars
  <2>1. UNCHANGED <<log, commitVars>> /\ closing' = closing
    BY <1>1 DEF nodeVars, raftVars, proposeVars
  <2>2. Types'
    BY <1>1 DEF Inv, Types, TypeOK, nodeVars, raftVars, proposeVars, commitVars, stateVars
  <2> QED
    BY <2>1, <2>2, Unmoved DEF Inv
<1>2. ASSUME NEW e \in Entry, RaftCommit(e) PROVE Inv'
  BY <1>2, CommitStep
<1>3. CASE LoopReady
  <2> PICK first \in 1..appliedIndex + 1, last \in 0..Len(log), soft \in RaftState \cup {Nil} :
             Ready(first, last, soft)
    BY <1>3 DEF LoopReady
  <2> QED
    BY ReadyStep
<1> QED
  BY <1>1, <1>2, <1>3, AroundStep, PublishStep, StopStep, MoveStep DEF Next

(***************************************************************************)
(* The theorems.                                                           *)
(***************************************************************************)

(* The loop holds the commands that follow on the applied ones, and the    *)
(* channels after it exactly those of the applied entries.                 *)
THEOREM NodeInvariant == NodeSpec => []Inv
BY InitInv, NextInv, PTL DEF NodeSpec

(* The node and its channels keep their types, and slowPath its capacity.  *)
THEOREM NodeTypeCorrect == NodeSpec => []TypeOK
<1>1. Inv => TypeOK
  BY DEF Inv, Types
<1> QED
  BY <1>1, NodeInvariant, PTL

(* publishEntries and readCommits lose, double and reorder no committed    *)
(* command, whichever batches Raft delivers and however often.             *)
THEOREM PipelineIsExact == NodeSpec => []PipelineExact
<1>1. Inv => PipelineExact
  <2> SUFFICES ASSUME Inv, ~ closing PROVE PipelineExact
    BY DEF PipelineExact
  <2>1. /\ Delivered = Upto(appliedIndex) /\ Delivered \in Seq(Command)
        /\ loop.data \in Seq(Command)
    BY DEF Inv, Types, TypeOK, DeliveredOK, Delivered
  <2>2. CASE loop.pc = "publish"
    BY <2>1, <2>2 DEF Inv, BatchOK, PipelineExact, Delivered, Upto
  <2>3. CASE loop.pc # "publish"
    <3>1. loop.data = <<>> /\ Delivered \o loop.data = Delivered
      BY <2>1, <2>3, ConcatEmptySeq DEF Inv, BatchOK
    <3> QED
      BY <2>1, <2>3, <3>1 DEF PipelineExact, Delivered, Upto
  <2> QED
    BY <2>2, <2>3
<1> QED
  BY <1>1, NodeInvariant, PTL
=============================================================================
