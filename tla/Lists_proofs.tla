---------------------------- MODULE Lists_proofs -----------------------------
(* What the operators of Lists return, for every list: positions have ranks, a
   comprehension keeps elements and their order, an insertion keeps a list of
   rules ordered, and a bounded log is the end of the whole one. *)
EXTENDS Lists, Integers, FiniteSetTheorems, SequenceTheorems, TLAPS

------------------------------------------------------------------------------
(* Positions and their ranks. *)

LEMMA Below ==
    ASSUME NEW P, IsFiniteSet(P), P \subseteq Int, NEW i \in P
    PROVE  /\ IsFiniteSet({j \in P : j <= i})
           /\ Rank(P, i) \in 1 .. Cardinality(P)
<1> DEFINE B == {j \in P : j <= i}
<1>1. B \in SUBSET P /\ {i} \in SUBSET B
  OBVIOUS
<1>2. IsFiniteSet(B) /\ Cardinality(B) <= Cardinality(P)
  <2> HIDE DEF B
  <2> QED BY <1>1, FS_Subset
<1>3. 1 <= Cardinality(B)
  <2> HIDE DEF B
  <2>1. Cardinality({i}) = 1
    BY FS_Singleton
  <2> QED BY <1>1, <1>2, <2>1, FS_Subset
<1>4. Cardinality(B) \in Nat /\ Cardinality(P) \in Nat
  <2> HIDE DEF B
  <2> QED BY <1>2, FS_CardinalityType
<1> QED BY <1>2, <1>3, <1>4 DEF Rank

(* A later position has a higher rank. *)
LEMMA RankRises ==
    ASSUME NEW P, IsFiniteSet(P), P \subseteq Int, NEW i \in P, NEW j \in P, i < j
    PROVE  Rank(P, i) < Rank(P, j)
<1> DEFINE B(x) == {k \in P : k <= x}
<1>1. B(i) \in SUBSET B(j) /\ B(i) # B(j)
  <2>1. j \in B(j) /\ j \notin B(i)
    OBVIOUS
  <2>2. \A k \in B(i) : k \in B(j)
    OBVIOUS
  <2> HIDE DEF B
  <2> QED BY <2>1, <2>2
<1>2. IsFiniteSet(B(i)) /\ IsFiniteSet(B(j))
  BY Below
<1>3. /\ Cardinality(B(i)) <= Cardinality(B(j))
      /\ Cardinality(B(i)) # Cardinality(B(j))
  <2> HIDE DEF B
  <2> QED BY <1>1, <1>2, FS_Subset
<1>4. Cardinality(B(i)) \in Nat /\ Cardinality(B(j)) \in Nat
  <2> HIDE DEF B
  <2> QED BY <1>2, FS_CardinalityType
<1> QED BY <1>3, <1>4 DEF Rank

(* Every rank is that of a position: ranks are an injection into as many. *)
LEMMA RankFills ==
    ASSUME NEW P, IsFiniteSet(P), P \subseteq Int
    PROVE  \A k \in 1 .. Cardinality(P) : \E i \in P : Rank(P, i) = k
<1> DEFINE n == Cardinality(P)
           r == [i \in P |-> Rank(P, i)]
<1>1. n \in Nat
  BY FS_CardinalityType
<1>2. r \in [P -> 1 .. n]
  BY Below
<1>3. \A i, j \in P : r[i] = r[j] => i = j
  <2> SUFFICES ASSUME NEW i \in P, NEW j \in P, r[i] = r[j], i # j
               PROVE  FALSE
    OBVIOUS
  <2>1. r[i] \in Int /\ r[j] \in Int
    BY <1>1, <1>2
  <2>2. i < j \/ j < i
    OBVIOUS
  <2>3. CASE i < j
    <3>1. r[i] < r[j]
      BY <2>3, RankRises
    <3> QED BY <3>1, <2>1
  <2>4. CASE j < i
    <3>1. r[j] < r[i]
      BY <2>4, RankRises
    <3> QED BY <3>1, <2>1
  <2> QED BY <2>2, <2>3, <2>4
<1>4. IsFiniteSet(1 .. n) /\ Cardinality(1 .. n) = n
  BY <1>1, FS_Interval
<1>5. r \in Surjection(P, 1 .. n)
  <2> HIDE DEF r
  <2>1. r \in Injection(P, 1 .. n)
    BY <1>2, <1>3 DEF Injection, IsInjective
  <2> QED BY <2>1, <1>4, FS_Injection
<1> QED
  <2>1. \A k \in 1 .. n : \E i \in P : r[i] = k
    <3> HIDE DEF r, n
    <3> QED BY <1>5 DEF Surjection
  <2> QED BY <2>1

(* A finite set of positions that is not empty has a first one. *)
LEMMA FirstPosition ==
    ASSUME NEW P, IsFiniteSet(P), P \subseteq Int, P # {}
    PROVE  \E i \in P : \A j \in P : i <= j
<1>1. Cardinality(P) \in Nat /\ Cardinality(P) # 0
  BY FS_CardinalityType, FS_EmptySet
<1>2. PICK i \in P : Rank(P, i) = 1
  <2>1. \A k \in 1 .. Cardinality(P) : \E i \in P : Rank(P, i) = k
    BY RankFills
  <2>2. 1 \in 1 .. Cardinality(P)
    BY <1>1
  <2> QED BY <2>1, <2>2
<1>3. ASSUME NEW j \in P, j < i
      PROVE  FALSE
  <2>1. Rank(P, j) < Rank(P, i)
    BY <1>3, RankRises
  <2>2. Rank(P, j) \in 1 .. Cardinality(P)
    BY Below
  <2> QED BY <1>1, <1>2, <2>1, <2>2
<1> QED BY <1>3

------------------------------------------------------------------------------
(* Comprehensions. *)

LEMMA Positions ==
    ASSUME NEW s, NEW S, s \in Seq(S), NEW P \in SUBSET DOMAIN s
    PROVE  IsFiniteSet(P) /\ P \subseteq Int /\ Cardinality(P) \in Nat
<1>1. DOMAIN s = 1 .. Len(s) /\ Len(s) \in Nat
  OBVIOUS
<1>2. IsFiniteSet(DOMAIN s)
  BY <1>1, FS_Interval
<1>3. IsFiniteSet(P)
  BY <1>2, FS_Subset
<1> QED BY <1>1, <1>3, FS_CardinalityType

(* The element at a position is the one at its rank. *)
LEMMA KeptAt ==
    ASSUME NEW P, IsFiniteSet(P), P \subseteq Int, NEW i \in P, NEW s
    PROVE  /\ Rank(P, i) \in 1 .. Cardinality(P)
           /\ Kept(s, P)[Rank(P, i)] = s[i]
<1> DEFINE c == CHOOSE j \in P : Rank(P, j) = Rank(P, i)
<1>1. Rank(P, i) \in 1 .. Cardinality(P)
  BY Below
<1>2. c \in P /\ Rank(P, c) = Rank(P, i)
  OBVIOUS
<1>3. c = i
  <2> HIDE DEF c
  <2> SUFFICES ASSUME c # i PROVE FALSE
    OBVIOUS
  <2>1. c < i \/ i < c
    BY <1>2
  <2>2. Rank(P, i) \in Int
    BY <1>1, FS_CardinalityType
  <2>3. Rank(P, c) < Rank(P, i) \/ Rank(P, i) < Rank(P, c)
    BY <2>1, <1>2, RankRises
  <2> QED BY <1>2, <2>2, <2>3
<1> QED BY <1>1, <1>3 DEF Kept

(* A comprehension is a list of elements of the list. *)
LEMMA KeptIsSeq ==
    ASSUME NEW S, NEW s \in Seq(S), NEW P \in SUBSET DOMAIN s
    PROVE  /\ Kept(s, P) \in Seq(S)
           /\ Len(Kept(s, P)) = Cardinality(P)
           /\ DOMAIN Kept(s, P) = 1 .. Cardinality(P)
<1>1. IsFiniteSet(P) /\ P \subseteq Int /\ Cardinality(P) \in Nat
  BY Positions
<1>2. ASSUME NEW k \in 1 .. Cardinality(P)
      PROVE  Kept(s, P)[k] \in S
  <2>1. PICK i \in P : Rank(P, i) = k
    BY <1>1, RankFills
  <2>2. Kept(s, P)[k] = s[i]
    BY <1>1, <2>1, KeptAt
  <2> QED BY <2>2
<1>3. Kept(s, P) \in [1 .. Cardinality(P) -> S]
  BY <1>2 DEF Kept
<1> QED BY <1>1, <1>3

(* Its elements come from increasing positions. *)
LEMMA KeptInOrder ==
    ASSUME NEW S, NEW s \in Seq(S), NEW P \in SUBSET DOMAIN s,
           NEW k \in DOMAIN Kept(s, P), NEW l \in DOMAIN Kept(s, P), k < l
    PROVE  \E i, j \in P : i < j /\ Kept(s, P)[k] = s[i] /\ Kept(s, P)[l] = s[j]
<1>1. IsFiniteSet(P) /\ P \subseteq Int /\ DOMAIN Kept(s, P) = 1 .. Cardinality(P)
  BY Positions, KeptIsSeq
<1>2. PICK i \in P : Rank(P, i) = k
  BY <1>1, RankFills
<1>3. PICK j \in P : Rank(P, j) = l
  BY <1>1, RankFills
<1>4. Kept(s, P)[k] = s[i] /\ Kept(s, P)[l] = s[j]
  BY <1>1, <1>2, <1>3, KeptAt
<1>5. i < j
  <2> SUFFICES ASSUME j <= i PROVE FALSE
    BY <1>1
  <2>1. j = i \/ j < i
    BY <1>1
  <2>2. Rank(P, j) = Rank(P, i) \/ Rank(P, j) < Rank(P, i)
    BY <1>1, <2>1, RankRises
  <2> QED BY <1>2, <1>3, <2>2, <1>1
<1> QED BY <1>4, <1>5

(* An element appended to the list comes last, if it is kept. *)
LEMMA KeptAppend ==
    ASSUME NEW S, NEW s \in Seq(S), NEW P \in SUBSET DOMAIN s, NEW x \in S
    PROVE  /\ Kept(Append(s, x), P) = Kept(s, P)
           /\ Kept(Append(s, x), P \cup {Len(s) + 1}) = Append(Kept(s, P), x)
<1> DEFINE n == Len(s) + 1
           t == Append(s, x)
           Q == P \cup {n}
           m == Cardinality(P)
<1>1. IsFiniteSet(P) /\ P \subseteq Int /\ m \in Nat
  BY Positions
<1>2. n \in Nat /\ n \notin P /\ t[n] = x /\ \A i \in P : i < n /\ t[i] = s[i]
  OBVIOUS
<1>3. IsFiniteSet(Q) /\ Q \subseteq Int /\ Cardinality(Q) = m + 1
  <2> HIDE DEF n
  <2> QED BY <1>1, <1>2, FS_AddElement
<1>4. \A i \in P : Rank(Q, i) = Rank(P, i)
  <2> TAKE i \in P
  <2>1. {j \in Q : j <= i} = {j \in P : j <= i}
    BY <1>1, <1>2
  <2> QED BY <2>1 DEF Rank
<1>5. Rank(Q, n) = m + 1
  <2>1. {j \in Q : j <= n} = Q
    BY <1>1, <1>2
  <2> QED BY <2>1, <1>3 DEF Rank
<1> HIDE DEF n, t, Q, m
<1>6. DOMAIN Kept(t, P) = 1 .. m /\ DOMAIN Kept(s, P) = 1 .. m
      /\ DOMAIN Kept(t, Q) = 1 .. m + 1
  BY <1>3 DEF Kept, m
<1>7. ASSUME NEW k \in 1 .. m
      PROVE  Kept(t, P)[k] = Kept(s, P)[k] /\ Kept(t, Q)[k] = Kept(s, P)[k]
  <2>1. PICK i \in P : Rank(P, i) = k
    BY <1>1, RankFills DEF m
  <2>2. Kept(t, P)[k] = t[i] /\ Kept(s, P)[k] = s[i]
    BY <1>1, <2>1, KeptAt
  <2>3. i \in Q
    BY DEF Q
  <2>4. Kept(t, Q)[Rank(Q, i)] = t[i]
    BY <1>3, <2>3, KeptAt
  <2>5. Kept(t, Q)[k] = t[i]
    BY <1>4, <2>1, <2>4
  <2> QED BY <2>2, <2>5, <1>2
<1>8. Kept(t, Q)[m + 1] = x
  <2>1. n \in Q
    BY DEF Q
  <2>2. Kept(t, Q)[Rank(Q, n)] = t[n]
    BY <1>3, <2>1, KeptAt
  <2> QED BY <1>2, <1>5, <2>2
<1>9. Kept(t, P) = Kept(s, P)
  BY <1>6, <1>7 DEF Kept, m
<1>10. Kept(s, P) \in Seq(S) /\ Len(Kept(s, P)) = m
  BY KeptIsSeq DEF m
<1>11. Kept(t, Q) = Append(Kept(s, P), x)
  <2> DEFINE u == Append(Kept(s, P), x)
  <2>1. DOMAIN u = 1 .. m + 1 /\ u[m + 1] = x /\ \A k \in 1 .. m : u[k] = Kept(s, P)[k]
    BY <1>10, <1>1
  <2>2. \A k \in 1 .. m + 1 : Kept(t, Q)[k] = u[k]
    <3> HIDE DEF u
    <3> QED BY <2>1, <1>7, <1>8, <1>1
  <2>3. u \in Seq(S) /\ Len(u) = m + 1
    BY <1>10
  <2>4. Kept(t, Q) \in Seq(S) /\ Len(Kept(t, Q)) = m + 1
    <3>1. t \in Seq(S) /\ Q \in SUBSET DOMAIN t
      BY <1>1, <1>2 DEF t, Q, n
    <3> QED BY <3>1, KeptIsSeq, <1>3
  <2>5. \A v, w \in Seq(S) : /\ Len(v) = Len(w)
                             /\ \A k \in 1 .. Len(v) : v[k] = w[k]
                             => v = w
    BY SeqEqual
  <2>6. Kept(t, Q) = u
    <3> HIDE DEF u
    <3> QED BY <2>2, <2>3, <2>4, <2>5
  <2> QED BY <2>6
<1> QED BY <1>9, <1>11 DEF t, Q, n

------------------------------------------------------------------------------
(* Bounded logs. *)

(* A bounded log is the end of the whole one. *)
LEMMA LatestIsEnd ==
    ASSUME NEW S, NEW s \in Seq(S), NEW n \in Nat \ {0}
    PROVE  /\ Latest(s, n) \in Seq(S)
           /\ Len(Latest(s, n)) = IF Len(s) < n THEN Len(s) ELSE n
           /\ \A i \in 1 .. Len(Latest(s, n)) :
                 Latest(s, n)[i] = s[Len(s) - Len(Latest(s, n)) + i]
<1>1. Len(s) \in Nat /\ DOMAIN s = 1 .. Len(s)
  OBVIOUS
<1>2. CASE Len(s) > n
  <2> DEFINE m == Len(s) - n + 1
  <2>1. Latest(s, n) = SubSeq(s, m, Len(s)) /\ m \in 1 .. Len(s)
    BY <1>1, <1>2 DEF Latest
  <2>2. /\ SubSeq(s, m, Len(s)) \in Seq(S)
        /\ Len(SubSeq(s, m, Len(s))) = Len(s) - m + 1
        /\ \A i \in 1 .. Len(s) - m + 1 : SubSeq(s, m, Len(s))[i] = s[m + i - 1]
    <3> HIDE DEF m
    <3> QED BY <1>1, <2>1, SubSeqProperties
  <2>3. Len(s) - m + 1 = n /\ \A i \in 1 .. n : m + i - 1 = Len(s) - n + i
    BY <1>1
  <2> HIDE DEF m
  <2> QED BY <1>2, <2>1, <2>2, <2>3
<1>3. CASE Len(s) <= n
  <2>1. Latest(s, n) = s
    BY <1>3 DEF Latest
  <2>2. Len(s) = IF Len(s) < n THEN Len(s) ELSE n
    <3>1. PICK k \in Nat : k = Len(s)
      BY <1>1
    <3>2. k < n \/ k = n
      BY <3>1, <1>3
    <3> QED BY <3>1, <3>2
  <2>3. \A i \in 1 .. Len(s) : Len(s) - Len(s) + i = i
    BY <1>1
  <2> QED BY <2>1, <2>2, <2>3
<1>4. Len(s) > n \/ Len(s) <= n
  <2>1. PICK k \in Nat : k = Len(s)
    BY <1>1
  <2> QED BY <2>1
<1> QED BY <1>2, <1>3, <1>4, Zenon

(* Bounding after each entry is bounding once. *)
LEMMA LatestAppend ==
    ASSUME NEW S, NEW s \in Seq(S), NEW n \in Nat \ {0}, NEW x \in S
    PROVE  Latest(Append(Latest(s, n), x), n) = Latest(Append(s, x), n)
<1> DEFINE l == Latest(s, n)
           t == Append(s, x)
           u == Append(l, x)
<1>1. /\ l \in Seq(S) /\ Len(l) \in Nat /\ Len(s) \in Nat
      /\ Len(l) = IF Len(s) < n THEN Len(s) ELSE n
      /\ \A i \in 1 .. Len(l) : l[i] = s[Len(s) - Len(l) + i]
  BY LatestIsEnd
<1> HIDE DEF l
<1>2. /\ t \in Seq(S) /\ Len(t) = Len(s) + 1 /\ t[Len(s) + 1] = x
      /\ \A i \in 1 .. Len(s) : t[i] = s[i]
  BY AppendProperties
<1>3. /\ u \in Seq(S) /\ Len(u) = Len(l) + 1 /\ u[Len(l) + 1] = x
      /\ \A i \in 1 .. Len(l) : u[i] = l[i]
  BY <1>1, AppendProperties
<1> HIDE DEF t, u
<1> DEFINE v == Latest(t, n)
           w == Latest(u, n)
<1>4. /\ v \in Seq(S) /\ Len(v) = IF Len(t) < n THEN Len(t) ELSE n
      /\ \A i \in 1 .. Len(v) : v[i] = t[Len(t) - Len(v) + i]
  BY <1>2, LatestIsEnd
<1>5. /\ w \in Seq(S) /\ Len(w) = IF Len(u) < n THEN Len(u) ELSE n
      /\ \A i \in 1 .. Len(w) : w[i] = u[Len(u) - Len(w) + i]
  BY <1>3, LatestIsEnd
<1> HIDE DEF v, w
<1>6. Len(v) = Len(w) /\ Len(v) \in Nat /\ Len(v) <= Len(l) + 1
  BY <1>1, <1>2, <1>3, <1>4, <1>5
<1>7. ASSUME NEW i \in 1 .. Len(v)
      PROVE  v[i] = w[i]
  <2> DEFINE a == Len(t) - Len(v) + i
             b == Len(u) - Len(w) + i
  <2>1. v[i] = t[a] /\ w[i] = u[b]
    BY <1>4, <1>5, <1>6
  <2>2. a = Len(s) - Len(l) + b /\ b \in 1 .. Len(l) + 1
    <3>1. PICK x1 \in Nat, x2 \in Nat, x3 \in Nat :
             x1 = Len(s) /\ x2 = Len(l) /\ x3 = Len(v)
      BY <1>1, <1>6
    <3>2. Len(t) = x1 + 1 /\ Len(u) = x2 + 1 /\ Len(w) = x3 /\ x3 <= x2 + 1 /\ i \in 1 .. x3
      BY <3>1, <1>2, <1>3, <1>6
    <3> QED BY <3>1, <3>2
  <2> HIDE DEF a, b
  <2>3. CASE b = Len(l) + 1
    <3>1. a = Len(s) + 1
      <4>1. PICK x1 \in Nat, x2 \in Nat : x1 = Len(s) /\ x2 = Len(l)
        BY <1>1
      <4> QED BY <4>1, <2>2, <2>3
    <3> QED BY <2>1, <2>3, <3>1, <1>2, <1>3
  <2>4. CASE b \in 1 .. Len(l)
    <3>1. a \in 1 .. Len(s)
      BY <2>2, <2>4, <1>1
    <3>2. u[b] = l[b] /\ t[a] = s[a]
      BY <2>4, <3>1, <1>2, <1>3
    <3>3. l[b] = s[Len(s) - Len(l) + b]
      BY <2>4, <1>1
    <3> QED BY <2>1, <2>2, <3>2, <3>3
  <2> QED BY <2>2, <2>3, <2>4, <1>1
<1>8. v = w
  BY <1>4, <1>5, <1>6, <1>7, SeqEqual
<1> QED BY <1>8 DEF v, w, u, t, l

(* Of nothing, nothing is kept. *)
LEMMA NothingKept ==
    ASSUME NEW n \in Nat
    PROVE  \A s : Latest(Kept(s, {}), n) = <<>>
<1>1. Cardinality({}) = 0
  BY FS_EmptySet
<1>2. \A s : Kept(s, {}) = <<>>
  BY <1>1 DEF Kept
<1>3. Latest(<<>>, n) = <<>>
  BY DEF Latest
<1> QED BY <1>2, <1>3

(* A bounded log of the elements that are kept grows with the list. *)
LogGrows(S) ==
    \A s \in Seq(S) : \A P \in SUBSET DOMAIN s : \A n \in Nat \ {0} : \A x \in S :
        /\ Latest(Kept(Append(s, x), P), n) = Latest(Kept(s, P), n)
        /\ Latest(Kept(Append(s, x), P \cup {Len(s) + 1}), n)
              = Latest(Append(Latest(Kept(s, P), n), x), n)

LEMMA LatestKeptAppend == \A S : LogGrows(S)
<1> TAKE S
<1> USE DEF LogGrows
<1> TAKE s \in Seq(S)
<1> TAKE P \in SUBSET DOMAIN s
<1> TAKE n \in Nat \ {0}
<1> TAKE x \in S
<1>1. Kept(s, P) \in Seq(S)
  BY KeptIsSeq
<1>2. /\ Kept(Append(s, x), P) = Kept(s, P)
      /\ Kept(Append(s, x), P \cup {Len(s) + 1}) = Append(Kept(s, P), x)
  <2>1. \A t \in Seq(S) : \A Q \in SUBSET DOMAIN t : \A y \in S :
           /\ Kept(Append(t, y), Q) = Kept(t, Q)
           /\ Kept(Append(t, y), Q \cup {Len(t) + 1}) = Append(Kept(t, Q), y)
    BY KeptAppend
  <2> QED BY <2>1
<1>3. \A k \in Seq(S) :
        Latest(Append(Latest(k, n), x), n) = Latest(Append(k, x), n)
  BY LatestAppend
<1>4. Latest(Append(Latest(Kept(s, P), n), x), n) = Latest(Append(Kept(s, P), x), n)
  BY <1>1, <1>3
<1> QED BY <1>2, <1>4, Zenon

------------------------------------------------------------------------------
(* Lists of rules: by descending priority, the older first among equals. *)
Precedes(r, q) == \/ r.priority > q.priority
                  \/ (r.priority = q.priority /\ r.age < q.age)

InOrder(s) == \A i, j \in DOMAIN s : i < j => Precedes(s[i], s[j])

LEMMA KeptStaysInOrder ==
    ASSUME NEW S, NEW s \in Seq(S), NEW P \in SUBSET DOMAIN s, InOrder(s)
    PROVE  InOrder(Kept(s, P))
<1> SUFFICES ASSUME NEW k \in DOMAIN Kept(s, P), NEW l \in DOMAIN Kept(s, P), k < l
             PROVE  Precedes(Kept(s, P)[k], Kept(s, P)[l])
  BY DEF InOrder
<1>1. PICK i \in P, j \in P : i < j /\ Kept(s, P)[k] = s[i] /\ Kept(s, P)[l] = s[j]
  BY KeptInOrder
<1> QED BY <1>1 DEF InOrder

(* Where a rule is inserted: after the rules that are not of lower priority. *)
LEMMA InsertedAt ==
    ASSUME NEW S, NEW s \in Seq(S), \A q \in S : q.priority \in Int,
           NEW r \in S, InOrder(s)
    PROVE  \E n \in 0 .. Len(s) :
              /\ \A i \in DOMAIN s : i <= n <=> s[i].priority >= r.priority
              /\ Inserted(s, r) = SubSeq(s, 1, n) \o <<r>> \o SubSeq(s, n + 1, Len(s))
<1> DEFINE H == {i \in DOMAIN s : s[i].priority >= r.priority}
           n == Cardinality(H)
<1>1. IsFiniteSet(H) /\ n \in Nat
  <2> HIDE DEF H
  <2> H \in SUBSET DOMAIN s
    BY DEF H
  <2> QED BY Positions
<1>2. H \subseteq 1 .. Len(s) /\ Len(s) \in Nat
  OBVIOUS
<1>3. ASSUME NEW i \in H
      PROVE  1 .. i \subseteq H
  <2> SUFFICES ASSUME NEW j \in 1 .. i
               PROVE  j \in H
    OBVIOUS
  <2>1. j \in DOMAIN s /\ i \in DOMAIN s /\ (j = i \/ j < i)
    OBVIOUS
  <2>2. s[j].priority >= s[i].priority
    <3>1. s[j] \in S /\ s[i] \in S
      BY <2>1
    <3>2. CASE j < i
      BY <3>1, <3>2, <2>1 DEF InOrder, Precedes
    <3> QED BY <3>1, <3>2, <2>1
  <2>3. s[j].priority \in Int /\ s[i].priority \in Int /\ r.priority \in Int
    BY <2>1
  <2> QED BY <2>1, <2>2, <2>3
<1>4. ASSUME NEW i \in H
      PROVE  i <= n
  <2>1. Cardinality(1 .. i) = i
    BY <1>2, FS_Interval
  <2>2. Cardinality(1 .. i) <= n
    <3> HIDE DEF H
    <3> QED BY <1>1, <1>3, FS_Subset
  <2> QED BY <2>1, <2>2
<1>5. H = 1 .. n
  <2>1. IsFiniteSet(1 .. n) /\ Cardinality(1 .. n) = n
    BY <1>1, FS_Interval
  <2>2. H \in SUBSET (1 .. n)
    BY <1>2, <1>4
  <2> HIDE DEF H
  <2>3. Cardinality(1 .. n) = Cardinality(H)
    BY <2>1
  <2> HIDE DEF n
  <2> QED BY <2>1, <2>2, <2>3, FS_Subset
<1>6. n <= Len(s)
  <2>1. Cardinality(1 .. Len(s)) = Len(s) /\ IsFiniteSet(1 .. Len(s))
    <3> HIDE DEF n, H
    <3>1. (Len(s) \in Int /\ 1 \in Int) /\ (~(1 > Len(s)) \/ Len(s) = 0)
      BY <1>2
    <3> QED BY <1>2, <3>1, FS_Interval
  <2> HIDE DEF H
  <2>2. n <= Cardinality(1 .. Len(s))
    BY <1>2, <2>1, FS_Subset
  <2> QED BY <2>1, <2>2
<1>7. \A i \in DOMAIN s : i <= n <=> s[i].priority >= r.priority
  <2> TAKE i \in DOMAIN s
  <2>1. i <= n <=> i \in 1 .. n
    <3> HIDE DEF n
    <3> QED BY <1>1
  <2> QED BY <2>1, <1>5
<1>8. Inserted(s, r) = SubSeq(s, 1, n) \o <<r>> \o SubSeq(s, n + 1, Len(s))
  BY DEF Inserted
<1>9. n \in 0 .. Len(s)
  <2> HIDE DEF n
  <2> QED BY <1>1, <1>2, <1>6
<1> HIDE DEF n
<1> QED BY <1>7, <1>8, <1>9

(* An insertion keeps every rule; a rule younger than all is put in order. *)
LEMMA InsertedStaysInOrder ==
    ASSUME NEW S, NEW s \in Seq(S), \A q \in S : q.priority \in Int,
           NEW r \in S, InOrder(s), \A i \in DOMAIN s : s[i].age < r.age
    PROVE  /\ Inserted(s, r) \in Seq(S)
           /\ InOrder(Inserted(s, r))
           /\ \A i \in DOMAIN Inserted(s, r) :
                 \/ Inserted(s, r)[i] = r
                 \/ \E j \in DOMAIN s : Inserted(s, r)[i] = s[j]
<1>1. PICK n \in 0 .. Len(s) :
              /\ \A i \in DOMAIN s : i <= n <=> s[i].priority >= r.priority
              /\ Inserted(s, r) = SubSeq(s, 1, n) \o <<r>> \o SubSeq(s, n + 1, Len(s))
  BY InsertedAt
<1> DEFINE before == SubSeq(s, 1, n)
           after == SubSeq(s, n + 1, Len(s))
           t == before \o <<r>> \o after
<1>2. before \in Seq(S) /\ Len(before) = n /\ \A i \in 1 .. n : before[i] = s[i]
  <2>1. 1 \in 1 .. Len(s) + 1 /\ n \in 0 .. Len(s)
    OBVIOUS
  <2> QED BY <2>1
<1>3. /\ after \in Seq(S) /\ Len(after) = Len(s) - n
      /\ \A i \in 1 .. Len(s) - n : after[i] = s[n + i]
  OBVIOUS
<1> HIDE DEF before, after
<1>4. /\ t \in Seq(S) /\ DOMAIN t = 1 .. Len(s) + 1
      /\ \A i \in 1 .. n : t[i] = s[i]
      /\ t[n + 1] = r
      /\ \A i \in n + 2 .. Len(s) + 1 : t[i] = s[i - 1]
  <2> DEFINE u == before \o <<r>>
  <2>1. /\ u \in Seq(S) /\ Len(u) = n + 1 /\ u[n + 1] = r
        /\ \A i \in 1 .. n : u[i] = s[i]
    BY <1>2
  <2> HIDE DEF u
  <2>2. /\ u \o after \in Seq(S) /\ Len(u \o after) = Len(s) + 1
        /\ \A i \in 1 .. n + 1 : (u \o after)[i] = u[i]
        /\ \A i \in n + 2 .. Len(s) + 1 : (u \o after)[i] = after[i - (n + 1)]
    BY <2>1, <1>3
  <2>3. \A i \in n + 2 .. Len(s) + 1 : after[i - (n + 1)] = s[i - 1]
    <3> TAKE i \in n + 2 .. Len(s) + 1
    <3>1. i - (n + 1) \in 1 .. Len(s) - n /\ n + (i - (n + 1)) = i - 1
      OBVIOUS
    <3> QED BY <3>1, <1>3
  <2>4. t = u \o after
    BY DEF u
  <2> QED
    <3> HIDE DEF t
    <3> QED BY <2>1, <2>2, <2>3, <2>4
<1> HIDE DEF t
<1>5. \A i \in DOMAIN t : t[i] = r \/ \E j \in DOMAIN s : t[i] = s[j]
  <2> TAKE i \in DOMAIN t
  <2>1. CASE i \in 1 .. n
    BY <2>1, <1>4
  <2>2. CASE i = n + 1
    BY <2>2, <1>4
  <2>3. CASE i \in n + 2 .. Len(s) + 1
    <3>1. i - 1 \in DOMAIN s
      BY <2>3
    <3> QED BY <2>3, <3>1, <1>4
  <2> QED BY <2>1, <2>2, <2>3, <1>4
<1>6. ASSUME NEW i \in DOMAIN t, NEW j \in DOMAIN t, i < j
      PROVE  Precedes(t[i], t[j])
  <2>1. CASE j \in 1 .. n
    BY <1>4, <1>6, <2>1 DEF InOrder
  <2>2. CASE j = n + 1
    <3>1. i \in 1 .. n /\ i \in DOMAIN s /\ t[i] = s[i]
      BY <1>4, <1>6, <2>2
    <3>2. s[i].priority >= r.priority /\ s[i].age < r.age
      BY <1>1, <3>1
    <3>3. s[i].priority \in Int /\ r.priority \in Int
      BY <3>1
    <3> QED BY <1>4, <2>2, <3>1, <3>2, <3>3 DEF Precedes
  <2>3. CASE j \in n + 2 .. Len(s) + 1
    <3>1. j - 1 \in DOMAIN s /\ t[j] = s[j - 1]
      BY <1>4, <2>3
    <3>2. CASE i \in 1 .. n
      BY <1>4, <2>3, <3>1, <3>2 DEF InOrder
    <3>3. CASE i = n + 1
      <4>1. ~(j - 1 <= n)
        BY <2>3
      <4>2. ~(s[j - 1].priority >= r.priority)
        BY <1>1, <3>1, <4>1
      <4>3. s[j - 1].priority \in Int /\ r.priority \in Int
        BY <3>1
      <4> QED BY <1>4, <3>1, <3>3, <4>2, <4>3 DEF Precedes
    <3>4. CASE i \in n + 2 .. Len(s) + 1
      <4>1. i - 1 \in DOMAIN s /\ i - 1 < j - 1 /\ t[i] = s[i - 1]
        BY <1>4, <1>6, <3>4
      <4> QED BY <3>1, <4>1 DEF InOrder
    <3> QED BY <1>4, <3>2, <3>3, <3>4
  <2> QED BY <1>4, <2>1, <2>2, <2>3
<1>7. Inserted(s, r) = t
  BY <1>1 DEF t, before, after
<1> QED BY <1>4, <1>5, <1>6, <1>7 DEF InOrder

(* The first of some rules in order precedes the others. *)
LEMMA FirstPrecedes ==
    ASSUME NEW S, NEW s \in Seq(S), InOrder(s),
           NEW P \in SUBSET DOMAIN s, P # {},
           NEW f, f = CHOOSE i \in P : \A j \in P : i <= j
    PROVE  f \in P /\ \A j \in P : j = f \/ Precedes(s[f], s[j])
<1>1. IsFiniteSet(P) /\ P \subseteq Int
  BY Positions
<1>2. \E i \in P : \A j \in P : i <= j
  BY <1>1, FirstPosition
<1>3. f \in P /\ \A j \in P : f <= j
  BY <1>2
<1>4. \A j \in P : j = f \/ f < j
  BY <1>1, <1>3
<1> QED BY <1>3, <1>4 DEF InOrder
===============================================================================
