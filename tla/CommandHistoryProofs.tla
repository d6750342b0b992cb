------------------------ MODULE CommandHistoryProofs ------------------------
(***************************************************************************)
(* For every set of sessions and commands and every limit: the types and   *)
(* limits of the command history, that no submitted command is lost, that  *)
(* none is counted twice, and that no change waits without a save under    *)
(* way.                                                                    *)
(*                                                                         *)
(* HInv is what the sessions and tasks look like.  Kept says who still     *)
(* holds a command that is owed; Books bounds what each copy of an entry   *)
(* counts and what is still to be counted by what may be.                  *)
(***************************************************************************)
EXTENDS CommandHistory, FiniteSetTheorems, SequenceTheorems, WellFoundedInduction, TLAPS

-----------------------------------------------------------------------------
(* Lists of commands, and how often a command is in one.                    *)

(* Every nonempty set of naturals has a least element.                      *)
LEMMA LeastNatural ==
    ASSUME NEW T \in SUBSET Nat, T # {}
    PROVE  \E m \in T : \A k \in T : m <= k
<1>1. PICK m \in T : \A k \in T : ~(<<k, m>> \in OpToRel(<, Nat))
  BY NatLessThanWellFounded, WFMin
<1>2. m \in T /\ \A k \in T : ~(k < m)
  BY <1>1, Zenon DEF OpToRel
<1>3. T \subseteq Int
  BY SMT
<1>4. \A k \in T : m <= k
  <2> HIDE <1>1
  <2> QED BY <1>2, <1>3, SMT
<1> QED BY <1>2, <1>4

LEMMA MinIs ==
    ASSUME NEW I \in SUBSET Nat, I # {}
    PROVE  Min(I) \in I
<1>1. \E m \in I : \A k \in I : m =< k
  BY LeastNatural
<1> QED BY <1>1 DEF Min

(* The positions of a sequence, and any of them, are finitely many.         *)
LEMMA Positions ==
    ASSUME NEW S, NEW q \in Seq(S), NEW I \in SUBSET DOMAIN q
    PROVE  /\ IsFiniteSet(I) /\ Cardinality(I) \in Nat /\ Cardinality(I) <= Len(q)
           /\ Len(q) \in Nat /\ DOMAIN q = 1 .. Len(q)
           /\ I # {} => Cardinality(I) >= 1
<1>1. Len(q) \in Nat /\ DOMAIN q = 1 .. Len(q)
  BY LenProperties
<1>2. IsFiniteSet(DOMAIN q) /\ Cardinality(DOMAIN q) = Len(q)
  <2>1. 1 \in Int /\ Len(q) \in Int
    BY <1>1
  <2>2. /\ IsFiniteSet(1 .. Len(q))
        /\ Cardinality(1 .. Len(q)) = IF 1 > Len(q) THEN 0 ELSE Len(q) - 1 + 1
    BY <2>1, FS_Interval
  <2> QED BY <1>1, <2>2
<1>3. IsFiniteSet(I) /\ Cardinality(I) <= Len(q)
  BY <1>2, FS_Subset
<1>4. Cardinality(I) \in Nat
  BY <1>3, FS_CardinalityType
<1>5. I # {} => Cardinality(I) # 0
  BY <1>3, FS_EmptySet
<1> QED BY <1>1, <1>3, <1>4, <1>5

LEMMA CountType ==
    ASSUME NEW S, NEW q \in Seq(S), NEW c
    PROVE  Count(c, q) \in Nat
BY Positions DEF Count

LEMMA CountEmpty ==
    ASSUME NEW c
    PROVE  Count(c, <<>>) = 0
<1>1. {i \in DOMAIN <<>> : <<>>[i] = c} = {}
  OBVIOUS
<1> QED BY <1>1, FS_EmptySet DEF Count

(* A list drawn from another counts no more of anything, and less of what   *)
(* it left out.                                                             *)
LEMMA CountDrawn ==
    ASSUME NEW S, NEW q \in Seq(S), NEW r \in Seq(S),
           NEW h \in Injection(DOMAIN r, DOMAIN q),
           \A i \in DOMAIN r : r[i] = q[h[i]], NEW c
    PROVE  /\ Count(c, r) <= Count(c, q)
           /\ \A x \in DOMAIN q :
                 q[x] = c /\ (\A i \in DOMAIN r : h[i] # x) => Count(c, r) + 1 <= Count(c, q)
<1> DEFINE A == {i \in DOMAIN r : r[i] = c}
           B == {i \in DOMAIN q : q[i] = c}
           g == [i \in A |-> h[i]]
<1>1. IsFiniteSet(A) /\ IsFiniteSet(B) /\ Cardinality(A) \in Nat /\ Cardinality(B) \in Nat
  BY Positions
<1>2. h \in [DOMAIN r -> DOMAIN q] /\ \A a, b \in DOMAIN r : h[a] = h[b] => a = b
  BY DEF Injection, IsInjective
<1>3. g \in Injection(A, B)
  BY <1>2 DEF Injection, IsInjective
<1>4. Count(c, r) = Cardinality(A) /\ Count(c, q) = Cardinality(B)
  BY DEF Count
<1>5. Cardinality(A) <= Cardinality(B)
  <2> HIDE DEF A, B, g
  <2> QED BY <1>1, <1>3, FS_Injection
<1>6. ASSUME NEW x \in DOMAIN q, q[x] = c, \A i \in DOMAIN r : h[i] # x
      PROVE  Cardinality(A) + 1 <= Cardinality(B)
  <2>1. g \in Injection(A, B \ {x})
    BY <1>3, <1>6 DEF Injection, IsInjective
  <2>2. x \in B
    BY <1>6
  <2> HIDE DEF A, B, g
  <2>3. IsFiniteSet(B \ {x}) /\ Cardinality(B \ {x}) = Cardinality(B) - 1
    BY <1>1, <2>2, FS_RemoveElement
  <2>4. Cardinality(A) <= Cardinality(B \ {x})
    BY <2>1, <2>3, FS_Injection
  <2> QED BY <1>1, <2>3, <2>4
<1> HIDE DEF A, B
<1> QED BY <1>4, <1>5, <1>6

LEMMA CountAppend ==
    ASSUME NEW S, NEW q \in Seq(S), NEW d \in S, NEW c
    PROVE  Count(c, Append(q, d)) <= Count(c, q) + (IF c = d THEN 1 ELSE 0)
<1> DEFINE r == Append(q, d)
           n == Len(q) + 1
           A == {i \in DOMAIN r : r[i] = c}
           B == {i \in DOMAIN q : q[i] = c}
<1>1. /\ r \in Seq(S) /\ DOMAIN r = 1 .. n /\ Len(q) \in Nat /\ DOMAIN q = 1 .. Len(q)
      /\ r[n] = d /\ \A i \in DOMAIN q : r[i] = q[i]
  OBVIOUS
<1>2. IsFiniteSet(A) /\ IsFiniteSet(B) /\ Cardinality(B) \in Nat
  BY <1>1, Positions
<1>3. A \subseteq IF c = d THEN B \cup {n} ELSE B
  BY <1>1
<1>4. Count(c, r) = Cardinality(A) /\ Count(c, q) = Cardinality(B)
  BY DEF Count
<1> HIDE DEF A, B, n, r
<1>5. /\ IsFiniteSet(B \cup {n})
      /\ Cardinality(B \cup {n}) \in Nat /\ Cardinality(B \cup {n}) <= Cardinality(B) + 1
  <2>1. /\ IsFiniteSet(B \cup {n})
        /\ Cardinality(B \cup {n}) =
              IF n \in B THEN Cardinality(B) ELSE Cardinality(B) + 1
    BY <1>2, FS_AddElement
  <2> QED BY <1>2, <2>1
<1>6. CASE c = d
  <2>1. Cardinality(A) <= Cardinality(B \cup {n}) /\ Cardinality(A) \in Nat
    BY <1>2, <1>3, <1>5, <1>6, FS_Subset, FS_CardinalityType
  <2> QED BY <1>2, <1>4, <1>5, <1>6, <2>1 DEF r
<1>7. CASE c # d
  <2>1. Cardinality(A) <= Cardinality(B)
    BY <1>2, <1>3, <1>7, FS_Subset
  <2> QED BY <1>2, <1>4, <1>7, <2>1 DEF r
<1> QED BY <1>6, <1>7

(* What is left after the first k commands.                                 *)
LEMMA CountRest ==
    ASSUME NEW S, NEW q \in Seq(S), NEW k \in DOMAIN q, NEW c
    PROVE  LET r == SubSeq(q, k + 1, Len(q)) IN
           /\ r \in Seq(S) /\ \A i \in DOMAIN r : r[i] \in ToSet(q)
           /\ Count(c, r) + (IF q[k] = c THEN 1 ELSE 0) <= Count(c, q)
<1> DEFINE r == SubSeq(q, k + 1, Len(q))
           h == [i \in DOMAIN r |-> i + k]
<1>1. Len(q) \in Nat /\ DOMAIN q = 1 .. Len(q) /\ k \in 1 .. Len(q)
  BY LenProperties
<1>2. \A i \in k + 1 .. Len(q) : q[i] \in S
  BY <1>1, ElementOfSeq
<1>3. /\ r \in Seq(S) /\ Len(r) = Len(q) - k
      /\ \A i \in 1 .. Len(q) - k : r[i] = q[i + k]
  BY <1>1, <1>2, SubSeqProperties
<1>4. DOMAIN r = 1 .. Len(q) - k
  BY <1>3, LenProperties
<1> HIDE DEF r
<1>5. h \in Injection(DOMAIN r, DOMAIN q) /\ \A i \in DOMAIN r : h[i] # k
  BY <1>1, <1>4 DEF Injection, IsInjective
<1>6. \A i \in DOMAIN r : r[i] = q[h[i]] /\ r[i] \in ToSet(q)
  BY <1>1, <1>3, <1>4 DEF ToSet
<1> HIDE DEF h
<1>7. Count(c, r) <= Count(c, q) /\ (q[k] = c => Count(c, r) + 1 <= Count(c, q))
  BY <1>3, <1>5, <1>6, CountDrawn
<1>8. Count(c, r) \in Nat /\ Count(c, q) \in Nat
  BY <1>3, CountType
<1> QED BY <1>3, <1>6, <1>7, <1>8 DEF r

LEMMA CountTail ==
    ASSUME NEW S, NEW q \in Seq(S), q # <<>>, NEW c
    PROVE  /\ Head(q) \in S /\ Tail(q) \in Seq(S)
           /\ ToSet(q) \subseteq {Head(q)} \cup ToSet(Tail(q))
           /\ Count(c, Tail(q)) + (IF Head(q) = c THEN 1 ELSE 0) <= Count(c, q)
<1>1. /\ Head(q) \in S /\ Tail(q) \in Seq(S) /\ Len(Tail(q)) = Len(q) - 1
      /\ \A i \in 1 .. Len(Tail(q)) : Tail(q)[i] = q[i + 1]
  BY HeadTailProperties
<1>2. Len(q) \in Nat \ {0} /\ DOMAIN q = 1 .. Len(q) /\ q[1] = Head(q)
  BY EmptySeq, LenProperties
<1>3. Tail(q) = SubSeq(q, 1 + 1, Len(q)) /\ 1 \in DOMAIN q
  BY <1>2, TailIsSubSeq
<1>4. Count(c, Tail(q)) + (IF Head(q) = c THEN 1 ELSE 0) <= Count(c, q)
  BY <1>2, <1>3, CountRest
<1>5. ToSet(q) \subseteq {Head(q)} \cup ToSet(Tail(q))
  <2> SUFFICES ASSUME NEW i \in 1 .. Len(q), i # 1
               PROVE  \E j \in DOMAIN Tail(q) : q[i] = Tail(q)[j]
    BY <1>2 DEF ToSet
  <2>1. i - 1 \in 1 .. Len(Tail(q)) /\ (i - 1) + 1 = i /\ DOMAIN Tail(q) = 1 .. Len(Tail(q))
    BY <1>1, <1>2, LenProperties
  <2> QED BY <1>1, <2>1
<1> QED BY <1>1, <1>4, <1>5
(* Vec::remove.                                                             *)
LEMMA RemoveAtDraws ==
    ASSUME NEW S, NEW q \in Seq(S), NEW m \in DOMAIN q
    PROVE  LET r == RemoveAt(q, m) IN
           /\ r \in Seq(S) /\ Len(r) = Len(q) - 1
           /\ \A i \in 1 .. Len(q) - 1 : r[i] = IF i < m THEN q[i] ELSE q[i + 1]
<1>1. Len(q) \in Nat /\ DOMAIN q = 1 .. Len(q) /\ m \in 1 .. Len(q)
  BY LenProperties
<1> DEFINE a == SubSeq(q, 1, m - 1)
           b == SubSeq(q, m + 1, Len(q))
<1>2. \A i \in 1 .. Len(q) : q[i] \in S
  BY ElementOfSeq
<1>3. /\ a \in Seq(S) /\ Len(a) = m - 1
      /\ \A i \in 1 .. m - 1 : a[i] = q[i]
  <2>1. \A i \in 1 .. m - 1 : q[i] \in S
    BY <1>1, <1>2
  <2>2. /\ a \in Seq(S) /\ Len(a) = IF 1 <= m - 1 THEN (m - 1) - 1 + 1 ELSE 0
        /\ \A i \in 1 .. (m - 1) - 1 + 1 : a[i] = q[1 + i - 1]
    BY <1>1, <2>1, SubSeqProperties
  <2> QED BY <1>1, <2>2
<1>4. /\ b \in Seq(S) /\ Len(b) = Len(q) - m
      /\ \A i \in 1 .. Len(q) - m : b[i] = q[i + m]
  <2>1. \A i \in m + 1 .. Len(q) : q[i] \in S
    BY <1>1, <1>2
  <2>2. /\ b \in Seq(S) /\ Len(b) = IF m + 1 <= Len(q) THEN Len(q) - (m + 1) + 1 ELSE 0
        /\ \A i \in 1 .. Len(q) - (m + 1) + 1 : b[i] = q[(m + 1) + i - 1]
    BY <1>1, <2>1, SubSeqProperties
  <2> QED BY <1>1, <2>2
<1> HIDE DEF a, b
<1>5. /\ a \o b \in Seq(S) /\ Len(a \o b) = Len(a) + Len(b)
      /\ \A i \in 1 .. Len(a) + Len(b) :
            (a \o b)[i] = IF i <= Len(a) THEN a[i] ELSE b[i - Len(a)]
  BY <1>3, <1>4, ConcatProperties
<1>6. RemoveAt(q, m) = a \o b
  BY DEF RemoveAt, a, b
<1>7. ASSUME NEW i \in 1 .. Len(q) - 1
      PROVE  (a \o b)[i] = IF i < m THEN q[i] ELSE q[i + 1]
  <2>1. CASE i < m
    <3>1. i \in 1 .. Len(a) + Len(b) /\ i <= Len(a) /\ i \in 1 .. m - 1
      BY <1>1, <1>3, <1>4, <2>1
    <3> QED BY <1>3, <1>5, <2>1, <3>1
  <2>2. CASE ~(i < m)
    <3>1. /\ i \in 1 .. Len(a) + Len(b) /\ ~(i <= Len(a)) /\ i - Len(a) \in 1 .. Len(q) - m
          /\ (i - Len(a)) + m = i + 1
      BY <1>1, <1>3, <1>4, <2>2
    <3> QED BY <1>4, <1>5, <2>2, <3>1
  <2> QED BY <2>1, <2>2
<1>8. Len(a \o b) = Len(q) - 1
  BY <1>1, <1>3, <1>4, <1>5
<1> QED BY <1>5, <1>6, <1>7, <1>8

(* A confirmed command leaves the queue once; the others stay.              *)
LEMMA FirstRemoved ==
    ASSUME NEW S, NEW q \in Seq(S), NEW d, NEW c
    PROVE  LET r == RemoveFirst(q, d) IN
           /\ r \in Seq(S) /\ Len(r) <= Len(q)
           /\ ToSet(q) \subseteq ToSet(r) \cup {d}
           /\ Count(c, r) <= Count(c, q)
           /\ d \in ToSet(q) => Count(d, r) + 1 <= Count(d, q)
           /\ d \notin ToSet(q) => r = q
<1> DEFINE r == RemoveFirst(q, d)
           I == {i \in 1 .. Len(q) : q[i] = d}
<1>1. Len(q) \in Nat /\ DOMAIN q = 1 .. Len(q)
  BY LenProperties
<1>2. CASE d \notin ToSet(q)
  <2>1. ~\E i \in 1 .. Len(q) : q[i] = d
    BY <1>1, <1>2 DEF ToSet
  <2>2. r = q
    BY <2>1 DEF RemoveFirst
  <2>3. Count(c, q) \in Nat
    BY CountType
  <2> HIDE DEF r
  <2> QED BY <1>1, <1>2, <2>2, <2>3 DEF r
<1>3. CASE d \in ToSet(q)
  <2>1. \E i \in 1 .. Len(q) : q[i] = d
    BY <1>1, <1>3 DEF ToSet
  <2>2. PICK m \in I : r = RemoveAt(q, m)
    <3>1. r = RemoveAt(q, SelectInSeq(q, LAMBDA v : v = d))
      BY <2>1 DEF RemoveFirst
    <3>2. SelectInSeq(q, LAMBDA v : v = d) = Min(I)
      BY <2>1 DEF SelectInSeq
    <3>3. I \in SUBSET Nat /\ I # {}
      BY <2>1
    <3> HIDE DEF I
    <3>4. Min(I) \in I
      BY <3>3, MinIs
    <3> QED BY <3>1, <3>2, <3>4
  <2>3. m \in 1 .. Len(q) /\ q[m] = d
    OBVIOUS
  <2> HIDE DEF r, I
  <2>4. /\ r \in Seq(S) /\ Len(r) = Len(q) - 1
        /\ \A i \in 1 .. Len(q) - 1 : r[i] = IF i < m THEN q[i] ELSE q[i + 1]
    <3> DEFINE w == RemoveAt(q, m)
    <3>0. m \in DOMAIN q
      BY <1>1, <2>3
    <3>1. /\ w \in Seq(S) /\ Len(w) = Len(q) - 1
          /\ \A i \in 1 .. Len(q) - 1 : w[i] = IF i < m THEN q[i] ELSE q[i + 1]
      BY <3>0, RemoveAtDraws, Zenon
    <3> HIDE DEF w
    <3>2. r = w
      BY <2>2 DEF w
    <3> QED BY <3>1, <3>2
  <2> DEFINE h == [i \in DOMAIN r |-> IF i < m THEN i ELSE i + 1]
  <2>5. DOMAIN r = 1 .. Len(q) - 1
    BY <2>4, LenProperties
  <2>6. h \in Injection(DOMAIN r, DOMAIN q) /\ \A i \in DOMAIN r : h[i] # m
    BY <1>1, <2>3, <2>5 DEF Injection, IsInjective
  <2>7. \A i \in DOMAIN r : r[i] = q[h[i]]
    BY <2>4, <2>5
  <2> HIDE DEF h
  <2>8. Count(c, r) <= Count(c, q) /\ Count(d, r) + 1 <= Count(d, q)
    <3>1. r \in Seq(S) /\ m \in DOMAIN q /\ q[m] = d /\ \A i \in DOMAIN r : h[i] # m
      BY <1>1, <2>3, <2>4, <2>6
    <3>2. Count(c, r) <= Count(c, q)
      BY <2>6, <2>7, <3>1, CountDrawn, Zenon
    <3>3. \A x \in DOMAIN q :
             q[x] = d /\ (\A i \in DOMAIN r : h[i] # x) => Count(d, r) + 1 <= Count(d, q)
      BY <2>6, <2>7, <3>1, CountDrawn, Zenon
    <3> QED BY <3>1, <3>2, <3>3, Zenon
  <2>9. ToSet(q) \subseteq ToSet(r) \cup {d}
    <3> SUFFICES ASSUME NEW i \in 1 .. Len(q), q[i] # d
                 PROVE  \E j \in 1 .. Len(q) - 1 : r[j] = q[i]
      BY <1>1, <2>5 DEF ToSet
    <3>1. CASE i < m
      <4>1. i \in 1 .. Len(q) - 1
        BY <1>1, <2>3, <3>1
      <4> QED BY <2>4, <3>1, <4>1
    <3>2. CASE i > m
      <4>1. i - 1 \in 1 .. Len(q) - 1 /\ ~(i - 1 < m) /\ (i - 1) + 1 = i
        BY <1>1, <2>3, <3>2
      <4> QED BY <2>4, <4>1
    <3> QED BY <2>3, <3>1, <3>2
  <2> QED BY <1>1, <1>3, <2>4, <2>8, <2>9 DEF r
<1> QED BY <1>2, <1>3

(* The rank of a position among those kept is a bijection onto 1 .. n.      *)
LEMMA RanksFit ==
    ASSUME NEW m \in Nat, NEW I \in SUBSET (1 .. m)
    PROVE  LET rank == [i \in I |-> Cardinality({j \in I : j <= i})] IN
           rank \in Bijection(I, 1 .. Cardinality(I))
<1> DEFINE low(i) == {j \in I : j <= i}
           n == Cardinality(I)
           rank == [i \in I |-> Cardinality(low(i))]
<1>1. IsFiniteSet(1 .. m)
  BY FS_Interval
<1>2. IsFiniteSet(I) /\ n \in Nat
  BY <1>1, FS_Subset, FS_CardinalityType
<1>3. ASSUME NEW i \in I
      PROVE  IsFiniteSet(low(i)) /\ Cardinality(low(i)) \in 1 .. n
  <2>1. low(i) \in SUBSET I /\ i \in low(i)
    OBVIOUS
  <2> HIDE DEF low
  <2>2. IsFiniteSet(low(i)) /\ Cardinality(low(i)) <= n
    BY <1>2, <2>1, FS_Subset
  <2>3. Cardinality(low(i)) \in Nat /\ Cardinality(low(i)) # 0
    BY <2>1, <2>2, FS_EmptySet, FS_CardinalityType
  <2> QED BY <1>2, <2>2, <2>3
<1>4. ASSUME NEW i \in I, NEW j \in I, i < j
      PROVE  Cardinality(low(i)) # Cardinality(low(j))
  <2>1. low(i) \in SUBSET low(j) /\ j \in low(j) /\ j \notin low(i)
    <3>1. j <= j /\ ~(j <= i) /\ \A k \in I : k <= i => k <= j
      BY <1>4
    <3> QED BY <3>1, Zenon
  <2>2. IsFiniteSet(low(j))
    BY <1>3
  <2> HIDE DEF low
  <2> QED BY <2>1, <2>2, FS_Subset
<1>5. rank \in Injection(I, 1 .. n)
  <2>1. rank \in [I -> 1 .. n]
    BY <1>3
  <2>2. \A i, j \in I : i # j => rank[i] # rank[j]
    <3> SUFFICES ASSUME NEW i \in I, NEW j \in I, i # j PROVE rank[i] # rank[j]
      OBVIOUS
    <3>1. rank[i] = Cardinality(low(i)) /\ rank[j] = Cardinality(low(j))
      OBVIOUS
    <3>2. i < j \/ j < i
      OBVIOUS
    <3> HIDE DEF low, rank
    <3> QED BY <1>4, <3>1, <3>2
  <2> HIDE DEF rank
  <2> QED BY <2>1, <2>2 DEF Injection, IsInjective
<1>6. IsFiniteSet(1 .. n) /\ Cardinality(1 .. n) = n
  <2>1. IsFiniteSet(1 .. n) /\ Cardinality(1 .. n) = IF 1 > n THEN 0 ELSE n - 1 + 1
    BY <1>2, FS_Interval
  <2> QED BY <1>2, <2>1
<1>7. rank \in Surjection(I, 1 .. n)
  <2> HIDE DEF rank
  <2> QED BY <1>5, <1>6, FS_Injection
<1> HIDE DEF rank
<1>8. rank \in Bijection(I, 1 .. n)
  BY <1>5, <1>7 DEF Bijection
<1> QED BY <1>8 DEF rank

(* Vec::retain keeps what stands at the given positions, once each.         *)
LEMMA Retained ==
    ASSUME NEW S, NEW q \in Seq(S), NEW I \in SUBSET DOMAIN q, NEW c
    PROVE  LET r == retain(q, I) IN
           /\ r \in Seq(S) /\ Len(r) = Cardinality(I) /\ Len(r) <= Len(q)
           /\ ToSet(r) = {q[i] : i \in I}
           /\ Count(c, r) <= Count(c, q)
           /\ c \notin {q[i] : i \in I} => Count(c, r) = 0
<1> DEFINE n == Cardinality(I)
           rank == [i \in I |-> Cardinality({j \in I : j <= i})]
           nth(k) == CHOOSE i \in I : Cardinality({j \in I : j <= i}) = k
           r == retain(q, I)
           h == [k \in 1 .. n |-> nth(k)]
<1>1. Len(q) \in Nat /\ DOMAIN q = 1 .. Len(q) /\ n \in Nat /\ n <= Len(q)
  BY Positions
<1>2. rank \in Bijection(I, 1 .. n)
  BY <1>1, RanksFit
<1>3. /\ \A k \in 1 .. n : \E i \in I : rank[i] = k
      /\ \A i, j \in I : rank[i] = rank[j] => i = j
      /\ \A i \in I : rank[i] \in 1 .. n
  <2> HIDE DEF rank, n
  <2>1. rank \in [I -> 1 .. n] /\ IsInjective(rank) /\ DOMAIN rank = I
    BY <1>2 DEF Bijection, Injection
  <2> QED BY <1>2, <2>1 DEF Bijection, Surjection, IsInjective
<1>4. ASSUME NEW k \in 1 .. n
      PROVE  nth(k) \in I /\ rank[nth(k)] = k
  <2>1. \E i \in I : Cardinality({j \in I : j <= i}) = k
    BY <1>3
  <2>2. nth(k) \in I /\ Cardinality({j \in I : j <= nth(k)}) = k
    BY <2>1
  <2> HIDE DEF nth
  <2> QED BY <2>2
<1>5. r = [k \in 1 .. n |-> q[nth(k)]]
  BY DEF retain
<1> HIDE DEF rank, nth, r, n
<1>6. \A k \in 1 .. n : nth(k) \in DOMAIN q /\ q[nth(k)] \in S
  BY <1>1, <1>4, ElementOfSeq
<1>7. r \in [1 .. n -> S]
  BY <1>5, <1>6
<1>8. r \in Seq(S) /\ Len(r) = n /\ DOMAIN r = 1 .. n
  BY <1>1, <1>7
<1>9. \A k \in 1 .. n : r[k] = q[nth(k)]
  BY <1>5
<1>10. ToSet(r) = {q[i] : i \in I}
  <2>1. ASSUME NEW i \in I
        PROVE  \E k \in 1 .. n : r[k] = q[i]
    <3>1. rank[i] \in 1 .. n /\ nth(rank[i]) \in I /\ rank[nth(rank[i])] = rank[i]
      BY <1>3, <1>4
    <3>2. nth(rank[i]) = i
      BY <1>3, <3>1
    <3> QED BY <1>9, <3>1, <3>2
  <2>2. ASSUME NEW k \in 1 .. n
        PROVE  \E i \in I : r[k] = q[i]
    BY <1>4, <1>9
  <2>3. ToSet(r) = {r[k] : k \in 1 .. n}
    BY <1>8 DEF ToSet
  <2> QED BY <2>1, <2>2, <2>3
<1>11. h \in Injection(DOMAIN r, DOMAIN q)
  <2>1. h \in [1 .. n -> DOMAIN q] /\ DOMAIN h = 1 .. n
    BY <1>6
  <2>2. ASSUME NEW a \in 1 .. n, NEW b \in 1 .. n, h[a] = h[b]
        PROVE  a = b
    BY <1>4, <2>2
  <2> HIDE DEF h
  <2> QED BY <1>8, <2>1, <2>2 DEF Injection, IsInjective
<1>12. \A k \in DOMAIN r : r[k] = q[h[k]]
  BY <1>8, <1>9
<1>13. Count(c, r) <= Count(c, q)
  <2> HIDE DEF h
  <2> QED BY <1>8, <1>11, <1>12, CountDrawn
<1>14. ASSUME c \notin {q[i] : i \in I}
       PROVE  Count(c, r) = 0
  <2>1. {i \in DOMAIN r : r[i] = c} = {}
    BY <1>10, <1>14 DEF ToSet
  <2> QED BY <2>1, FS_EmptySet DEF Count
<1> QED BY <1>1, <1>8, <1>10, <1>13, <1>14 DEF r, n

-----------------------------------------------------------------------------
(* f[i] is the concatenation of the first i members of s.                   *)
Joins(s, k, f) == f = [i \in 1 .. k |-> IF i = 1 THEN s[i] ELSE f[i - 1] \o s[i]]

LEMMA JoinExists ==
    ASSUME NEW s, NEW n \in Nat
    PROVE  \E f : Joins(s, n, f)
<1> DEFINE T == {k \in Nat : ~\E f : Joins(s, k, f)}
<1>1. SUFFICES T = {}
  OBVIOUS
<1>2. SUFFICES ASSUME T # {} PROVE FALSE
  OBVIOUS
<1>3. PICK k \in T : \A j \in T : k <= j
  <2>1. T \in SUBSET Nat
    OBVIOUS
  <2> HIDE DEF T
  <2> QED BY <1>2, <2>1, LeastNatural
<1>4. k \in Nat /\ ~\E f : Joins(s, k, f)
  OBVIOUS
<1>5. CASE k = 0
  <2> DEFINE f == [i \in 1 .. 0 |-> 0]
  <2>1. f = [i \in 1 .. 0 |-> IF i = 1 THEN s[i] ELSE f[i - 1] \o s[i]]
    <3>1. 1 .. 0 = {}
      OBVIOUS
    <3> QED BY <3>1
  <2> QED BY <1>4, <1>5, <2>1 DEF Joins
<1>6. CASE k # 0
  <2>1. k - 1 \in Nat /\ ~(k <= k - 1)
    BY <1>4, <1>6
  <2>2. PICK f : Joins(s, k - 1, f)
    BY <1>3, <2>1
  <2> DEFINE g == [i \in 1 .. k |-> IF i = 1 THEN s[i] ELSE f[i - 1] \o s[i]]
  <2>3. \A i \in 1 .. k - 1 : f[i] = IF i = 1 THEN s[i] ELSE f[i - 1] \o s[i]
    BY <2>2 DEF Joins
  <2>4. \A i \in 1 .. k - 1 : i \in 1 .. k
    BY <1>4
  <2>5. \A i \in 1 .. k - 1 : g[i] = f[i]
    BY <2>3, <2>4
  <2>6. \A i \in 1 .. k : i # 1 => i - 1 \in 1 .. k - 1
    BY <1>4
  <2>7. \A i \in 1 .. k : i # 1 => f[i - 1] = g[i - 1]
    BY <2>5, <2>6
  <2>8. g = [i \in 1 .. k |-> IF i = 1 THEN s[i] ELSE g[i - 1] \o s[i]]
    BY <2>7
  <2> HIDE DEF g
  <2> QED BY <1>4, <2>8 DEF Joins
<1> QED BY <1>5, <1>6

(* flat_map and collect: everything that is in one of the lists.            *)
LEMMA Flattened ==
    ASSUME NEW S, NEW s \in Seq(Seq(S))
    PROVE  /\ FlattenSeq(s) \in Seq(S)
           /\ \A i \in DOMAIN s : ToSet(s[i]) \subseteq ToSet(FlattenSeq(s))
<1> DEFINE k == Len(s)
<1>1. k \in Nat /\ DOMAIN s = 1 .. k /\ \A i \in 1 .. k : s[i] \in Seq(S)
  BY LenProperties, ElementOfSeq
<1> HIDE DEF k
<1>2. CASE k = 0
  <2>1. FlattenSeq(s) = s /\ s = <<>>
    BY <1>2, EmptySeq DEF FlattenSeq, k
  <2> QED BY <1>1, <1>2, <2>1
<1>3. CASE k # 0
  <2>1. PICK f : FlattenSeq(s) = f[k] /\ Joins(s, k, f)
    <3> DEFINE g == CHOOSE f : Joins(s, k, f)
    <3>1. Joins(s, k, g)
      BY <1>1, JoinExists
    <3>2. FlattenSeq(s) = g[k]
      BY <1>3 DEF FlattenSeq, Joins, k
    <3> QED BY <3>1, <3>2
  <2> DEFINE Holds(i) == /\ f[i] \in Seq(S)
                         /\ \A j \in 1 .. i : ToSet(s[j]) \subseteq ToSet(f[i])
             T == {i \in 1 .. k : ~Holds(i)}
  <2>2. T = {}
    <3> SUFFICES ASSUME T # {} PROVE FALSE
      OBVIOUS
    <3>1. PICK n \in T : \A i \in T : n <= i
      <4>1. T \in SUBSET Nat
        BY <1>1
      <4> HIDE DEF T
      <4> QED BY <4>1, LeastNatural
    <3>2. n \in 1 .. k /\ ~Holds(n)
      OBVIOUS
    <3>3. f[n] = IF n = 1 THEN s[n] ELSE f[n - 1] \o s[n]
      BY <2>1, <3>2 DEF Joins
    <3>4. CASE n = 1
      <4>1. f[1] \in Seq(S) /\ \A j \in 1 .. 1 : s[j] = f[1]
        BY <1>1, <3>2, <3>3, <3>4
      <4> QED BY <3>2, <3>4, <4>1
    <3>5. CASE n # 1
      <4>1. n - 1 \in 1 .. k /\ ~(n <= n - 1)
        BY <1>1, <3>2, <3>5
      <4>2. Holds(n - 1)
        BY <3>1, <4>1
      <4> DEFINE a == f[n - 1]
                 b == s[n]
      <4>3. /\ a \in Seq(S) /\ b \in Seq(S) /\ f[n] = a \o b
            /\ \A j \in 1 .. n - 1 : ToSet(s[j]) \subseteq ToSet(a)
        BY <1>1, <3>2, <3>3, <3>5, <4>2
      <4> HIDE DEF a
      <4>4. /\ a \o b \in Seq(S) /\ Len(a \o b) = Len(a) + Len(b)
            /\ \A i \in 1 .. Len(a) + Len(b) :
                  (a \o b)[i] = IF i <= Len(a) THEN a[i] ELSE b[i - Len(a)]
        BY <4>3, ConcatProperties
      <4>5. /\ Len(a) \in Nat /\ DOMAIN a = 1 .. Len(a) /\ Len(b) \in Nat
            /\ DOMAIN b = 1 .. Len(b) /\ DOMAIN (a \o b) = 1 .. Len(a) + Len(b)
        BY <4>3, <4>4, LenProperties
      <4>6. ToSet(a) \subseteq ToSet(a \o b)
        <5> SUFFICES ASSUME NEW i \in 1 .. Len(a)
                     PROVE  \E j \in 1 .. Len(a) + Len(b) : (a \o b)[j] = a[i]
          BY <4>5 DEF ToSet
        <5>1. i \in 1 .. Len(a) + Len(b) /\ i <= Len(a)
          BY <4>5
        <5> QED BY <4>4, <5>1
      <4>7. ToSet(b) \subseteq ToSet(a \o b)
        <5> SUFFICES ASSUME NEW i \in 1 .. Len(b)
                     PROVE  \E j \in 1 .. Len(a) + Len(b) : (a \o b)[j] = b[i]
          BY <4>5 DEF ToSet
        <5>1. /\ i + Len(a) \in 1 .. Len(a) + Len(b) /\ ~(i + Len(a) <= Len(a))
              /\ (i + Len(a)) - Len(a) = i
          BY <4>5
        <5> QED BY <4>4, <5>1
      <4>8. \A j \in 1 .. n : j \in 1 .. n - 1 \/ j = n
        BY <1>1, <3>2
      <4>9. ASSUME NEW j \in 1 .. n
            PROVE  ToSet(s[j]) \subseteq ToSet(f[n])
        BY <4>3, <4>6, <4>7, <4>8
      <4>10. f[n] \in Seq(S)
        BY <4>3, <4>4
      <4> QED BY <3>2, <4>9, <4>10
    <3> QED BY <3>4, <3>5
  <2>3. k \in 1 .. k
    BY <1>1, <1>3
  <2>4. Holds(k)
    BY <2>2, <2>3
  <2> QED BY <1>1, <2>1, <2>4
<1> QED BY <1>2, <1>3

(* A finite set of entries can be sorted by the time of their last use.     *)
Sorts(q, S) ==
    q \in SetToSeqs(S) /\ \A i, j \in DOMAIN q : i < j => q[i].at >= q[j].at

LEMMA Sortable ==
    ASSUME NEW S, IsFiniteSet(S), \A e \in S : e.at \in Nat
    PROVE  \E q : Sorts(q, S)
<1> DEFINE Bad(n) == \E T \in SUBSET S : Cardinality(T) = n /\ ~\E q : Sorts(q, T)
           B == {n \in Nat : Bad(n)}
<1>1. SUFFICES ASSUME ~\E q : Sorts(q, S) PROVE FALSE
  OBVIOUS
<1>2. Cardinality(S) \in B
  BY <1>1, FS_CardinalityType
<1>3. PICK n \in B : \A k \in B : n <= k
  <2>1. B \in SUBSET Nat
    OBVIOUS
  <2> HIDE DEF B
  <2> QED BY <1>2, <2>1, LeastNatural
<1>4. PICK T \in SUBSET S : Cardinality(T) = n /\ ~\E q : Sorts(q, T)
  OBVIOUS
<1>5. n \in Nat /\ IsFiniteSet(T)
  BY FS_Subset
<1>6. CASE n = 0
  <2> DEFINE q == [i \in 1 .. 0 |-> 0]
  <2>1. 1 .. 0 = {}
    OBVIOUS
  <2>2. q \in [1 .. 0 -> T]
    BY <2>1
  <2>3. q \in SetToSeqs(T) /\ DOMAIN q = {}
    BY <1>4, <1>6, <2>1, <2>2 DEF SetToSeqs
  <2> HIDE DEF q
  <2>4. Sorts(q, T)
    BY <2>3 DEF Sorts
  <2> QED BY <1>4, <2>4
<1>7. CASE n # 0
  <2> DEFINE A == {e.at : e \in T}
  <2>1. A \in SUBSET Nat
    OBVIOUS
  <2>2. A # {}
    BY <1>4, <1>5, <1>7, FS_EmptySet
  <2>3. PICK a \in A : \A b \in A : a <= b
    <3> HIDE DEF A
    <3> QED BY <2>1, <2>2, LeastNatural
  <2>4. PICK x \in T : x.at = a
    OBVIOUS
  <2>5. \A e \in T : x.at <= e.at
    BY <2>3, <2>4
  <2> DEFINE R == T \ {x}
  <2>6. Cardinality(R) = n - 1 /\ R \in SUBSET S
    BY <1>4, <1>5, FS_RemoveElement
  <2>7. n - 1 \in Nat /\ ~(n <= n - 1)
    BY <1>5, <1>7
  <2>8. PICK p : Sorts(p, R)
    <3>1. n - 1 \notin B
      BY <1>3, <2>7
    <3> QED BY <2>6, <2>7, <3>1
  <2>9. /\ p \in [1 .. n - 1 -> R] /\ DOMAIN p = 1 .. n - 1
        /\ \A i, j \in 1 .. n - 1 : i # j => p[i] # p[j]
        /\ \A i, j \in 1 .. n - 1 : i < j => p[i].at >= p[j].at
    <3> HIDE DEF R
    <3>1. p \in [1 .. n - 1 -> R]
      BY <2>6, <2>8 DEF Sorts, SetToSeqs
    <3> QED BY <2>6, <2>8, <3>1 DEF Sorts, SetToSeqs
  <2> DEFINE q == [i \in 1 .. n |-> IF i = n THEN x ELSE p[i]]
  <2>10. \A i \in 1 .. n : i = n \/ i \in 1 .. n - 1
    BY <1>5
  <2>11. q \in [1 .. n -> T] /\ DOMAIN q = 1 .. n
    BY <2>9, <2>10
  <2>12. \A i, j \in 1 .. n : i # j => q[i] # q[j]
    BY <2>9, <2>10
  <2>13. \A i, j \in 1 .. n : i < j => q[i].at >= q[j].at
    <3> SUFFICES ASSUME NEW i \in 1 .. n, NEW j \in 1 .. n, i < j
                 PROVE  q[i].at >= q[j].at
      OBVIOUS
    <3>1. i \in 1 .. n - 1 /\ i # n /\ p[i] \in T /\ q[i] = p[i]
      BY <1>5, <2>9
    <3>2. CASE j = n
      <4>1. q[j] = x /\ x.at <= p[i].at /\ x.at \in Nat /\ p[i].at \in Nat
        BY <2>5, <3>1, <3>2
      <4> QED BY <3>1, <4>1
    <3>3. CASE j # n
      <4>1. j \in 1 .. n - 1 /\ q[j] = p[j]
        BY <2>10, <3>3
      <4> QED BY <2>9, <3>1, <4>1
    <3> QED BY <3>2, <3>3
  <2> HIDE DEF q
  <2>14. q \in SetToSeqs(T)
    BY <1>4, <2>11, <2>12 DEF SetToSeqs
  <2>15. Sorts(q, T)
    BY <2>11, <2>13, <2>14 DEF Sorts
  <2> QED BY <1>4, <2>15
<1> QED BY <1>6, <1>7

(* What is loaded is part of what is stored, and within the limit.          *)
LEMMA StoredIs ==
    ASSUME disk \subseteq Entries, IsFiniteSet(disk)
    PROVE  Stored \in History /\ ToSet(Stored) \subseteq disk
<1> DEFINE all == Sorted(disk)
           m == IF Len(all) < MaxHistory THEN Len(all) ELSE MaxHistory
<1>1. all \in SetToSeqs(disk)
  <2>1. \A e \in disk : e.at \in Nat
    BY HistoryAssumption DEF Entries
  <2>2. \E q \in SetToSeqs(disk) : \A i, j \in DOMAIN q : i < j => q[i].at >= q[j].at
    BY <2>1, Sortable DEF Sorts
  <2> QED BY <2>2 DEF Sorted
<1> HIDE DEF all
<1>2. all \in [1 .. Cardinality(disk) -> disk] /\ Cardinality(disk) \in Nat
  BY <1>1, FS_CardinalityType DEF SetToSeqs
<1>3. all \in Seq(disk)
  BY <1>2
<1>4. Len(all) \in Nat /\ MaxHistory \in Nat \ {0} /\ m \in Nat /\ m <= Len(all) /\ m <= MaxHistory
  BY <1>3, LenProperties, HistoryAssumption
<1> HIDE DEF m
<1>5. \A i \in 1 .. m : all[i] \in disk
  BY <1>3, <1>4, ElementOfSeq
<1>6. /\ SubSeq(all, 1, m) \in Seq(disk)
      /\ Len(SubSeq(all, 1, m)) = IF 1 <= m THEN m - 1 + 1 ELSE 0
  BY <1>4, <1>5, SubSeqProperties
<1>7. Stored = SubSeq(all, 1, m)
  BY DEF Stored, all, m
<1>8. Stored \in Seq(disk) /\ Len(Stored) <= MaxHistory
  BY <1>4, <1>6, <1>7
<1>9. Stored \in Seq(Entries)
  BY <1>8, SeqMonotonic
<1>10. ToSet(Stored) \subseteq disk
  <2>1. \A i \in DOMAIN Stored : Stored[i] \in disk
    BY <1>8, LenProperties, ElementOfSeq
  <2> QED BY <2>1 DEF ToSet
<1> QED BY <1>8, <1>9, <1>10 DEF History

-----------------------------------------------------------------------------
(* Sums over finite sets.                                                   *)

Boxes(f) == UNION {{x} \X (1 .. f[x]) : x \in DOMAIN f}

LEMMA BoxesFinite ==
    ASSUME NEW S, IsFiniteSet(S), NEW f \in [S -> Nat]
    PROVE  IsFiniteSet(Boxes(f)) /\ Sum(f) = Cardinality(Boxes(f)) /\ Sum(f) \in Nat
<1> DEFINE B == {{x} \X (1 .. f[x]) : x \in S}
           g == [x \in S |-> {x} \X (1 .. f[x])]
<1>1. g \in Surjection(S, B)
  BY DEF Surjection
<1>2. IsFiniteSet(B)
  <2> HIDE DEF g, B
  <2> QED BY <1>1, FS_Surjection
<1>3. \A T \in B : IsFiniteSet(T)
  <2> SUFFICES ASSUME NEW x \in S PROVE IsFiniteSet({x} \X (1 .. f[x]))
    OBVIOUS
  <2>1. 1 \in Int /\ f[x] \in Int
    OBVIOUS
  <2>2. IsFiniteSet({x}) /\ IsFiniteSet(1 .. f[x])
    BY <2>1, FS_Singleton, FS_Interval
  <2> QED BY <2>2, FS_Product
<1>4. IsFiniteSet(UNION B)
  <2> HIDE DEF B
  <2> QED BY <1>2, <1>3, FS_UNION
<1>5. Boxes(f) = UNION B
  BY DEF Boxes
<1>6. Sum(f) = Cardinality(Boxes(f))
  BY DEF Sum, Boxes
<1> QED BY <1>4, <1>5, <1>6, FS_CardinalityType

LEMMA InBoxes ==
    ASSUME NEW S, NEW f \in [S -> Nat], NEW p
    PROVE  p \in Boxes(f) <=> \E x \in S : \E n \in 1 .. f[x] : p = <<x, n>>
BY DEF Boxes

LEMMA SumGrows ==
    ASSUME NEW S, IsFiniteSet(S), NEW f \in [S -> Nat], NEW g \in [S -> Nat],
           \A x \in S : f[x] <= g[x]
    PROVE  Sum(f) <= Sum(g)
<1>1. Boxes(f) \subseteq Boxes(g)
  <2> SUFFICES ASSUME NEW x \in S, NEW n \in 1 .. f[x]
               PROVE  \E y \in S : \E k \in 1 .. g[y] : <<x, n>> = <<y, k>>
    BY InBoxes
  <2>1. n \in 1 .. g[x]
    OBVIOUS
  <2> QED BY <2>1
<1> QED BY <1>1, BoxesFinite, FS_Subset

(* The functions differ, if at all, by one at the points of L.              *)
LEMMA SumGrowsBy ==
    ASSUME NEW S, IsFiniteSet(S), NEW f \in [S -> Nat], NEW g \in [S -> Nat],
           NEW L \in SUBSET S, \A x \in S : f[x] <= g[x] + (IF x \in L THEN 1 ELSE 0)
    PROVE  Sum(f) <= Sum(g) + Cardinality(L) /\ Cardinality(L) \in Nat
<1> DEFINE E == {<<x, g[x] + 1>> : x \in L}
           h == [x \in L |-> <<x, g[x] + 1>>]
<1>1. IsFiniteSet(L) /\ Cardinality(L) \in Nat
  BY FS_Subset, FS_CardinalityType
<1>2. h \in Surjection(L, E)
  BY DEF Surjection
<1>3. IsFiniteSet(E) /\ Cardinality(E) <= Cardinality(L) /\ Cardinality(E) \in Nat
  <2> HIDE DEF h, E
  <2> QED BY <1>1, <1>2, FS_Surjection, FS_CardinalityType
<1>4. Boxes(f) \subseteq Boxes(g) \cup E
  <2> SUFFICES ASSUME NEW x \in S, NEW n \in 1 .. f[x], ~(x \in L /\ n = g[x] + 1)
               PROVE  \E y \in S : \E k \in 1 .. g[y] : <<x, n>> = <<y, k>>
    BY InBoxes
  <2>1. n \in 1 .. g[x]
    OBVIOUS
  <2> QED BY <2>1
<1> HIDE DEF E
<1>5. /\ IsFiniteSet(Boxes(f)) /\ IsFiniteSet(Boxes(g))
      /\ Sum(f) = Cardinality(Boxes(f)) /\ Sum(g) = Cardinality(Boxes(g))
      /\ Sum(f) \in Nat /\ Sum(g) \in Nat
  BY BoxesFinite
<1>6. /\ IsFiniteSet(Boxes(g) \cup E)
      /\ Cardinality(Boxes(g) \cup E)
           = Cardinality(Boxes(g)) + Cardinality(E) - Cardinality(Boxes(g) \cap E)
      /\ Cardinality(Boxes(g) \cap E) \in Nat
  BY <1>3, <1>5, FS_Union, FS_Intersection, FS_CardinalityType
<1>7. Cardinality(Boxes(f)) <= Cardinality(Boxes(g) \cup E)
  BY <1>4, <1>6, FS_Subset
<1> QED BY <1>1, <1>3, <1>5, <1>6, <1>7

(* One summand taken out.                                                   *)
LEMMA SumSplit ==
    ASSUME NEW S, IsFiniteSet(S), NEW f \in [S -> Nat], NEW x \in S
    PROVE  Sum(f) = f[x] + Sum([y \in S \ {x} |-> f[y]])
<1> DEFINE R == S \ {x}
           g == [y \in R |-> f[y]]
           X == {x} \X (1 .. f[x])
<1>1. IsFiniteSet(R) /\ g \in [R -> Nat] /\ f[x] \in Nat
  BY FS_RemoveElement
<1>2. /\ IsFiniteSet(Boxes(f)) /\ Sum(f) = Cardinality(Boxes(f))
      /\ IsFiniteSet(Boxes(g)) /\ Sum(g) = Cardinality(Boxes(g)) /\ Sum(g) \in Nat
  BY <1>1, BoxesFinite
<1>3. IsFiniteSet(X) /\ Cardinality(X) = f[x]
  <2>1. IsFiniteSet({x}) /\ Cardinality({x}) = 1
    BY FS_Singleton
  <2>2. IsFiniteSet(1 .. f[x]) /\ Cardinality(1 .. f[x]) = IF 1 > f[x] THEN 0 ELSE f[x] - 1 + 1
    BY <1>1, FS_Interval
  <2>3. Cardinality(1 .. f[x]) = f[x]
    BY <1>1, <2>2
  <2>4. IsFiniteSet(X) /\ Cardinality(X) = Cardinality({x}) * Cardinality(1 .. f[x])
    BY <2>1, <2>2, FS_Product
  <2> QED BY <1>1, <2>1, <2>3, <2>4
<1>4. Boxes(f) = X \cup Boxes(g)
  <2>1. Boxes(f) = UNION {{y} \X (1 .. f[y]) : y \in S}
    BY DEF Boxes
  <2>2. Boxes(g) = UNION {{y} \X (1 .. f[y]) : y \in R}
    BY DEF Boxes
  <2> QED BY <2>1, <2>2
<1>5. X \cap Boxes(g) = {}
  <2>1. \A p \in Boxes(g) : p[1] # x
    BY DEF Boxes
  <2> QED BY <2>1
<1> HIDE DEF X, g
<1>6. Cardinality(X \cup Boxes(g)) = Cardinality(X) + Cardinality(Boxes(g)) - Cardinality({})
  BY <1>2, <1>3, <1>5, FS_Union
<1>7. Cardinality({}) = 0
  BY FS_EmptySet
<1>8. Sum(f) = f[x] + Sum(g)
  BY <1>1, <1>2, <1>3, <1>4, <1>6, <1>7
<1> QED BY <1>8 DEF g

(* At one point only.                                                       *)
LEMMA SumOnePoint ==
    ASSUME NEW S, IsFiniteSet(S), NEW f \in [S -> Nat], NEW g \in [S -> Nat], NEW x \in S,
           \A y \in S \ {x} : f[y] <= g[y]
    PROVE  Sum(f) + g[x] <= Sum(g) + f[x]
<1> DEFINE R == S \ {x}
           f1 == [y \in R |-> f[y]]
           g1 == [y \in R |-> g[y]]
<1>1. IsFiniteSet(R) /\ f1 \in [R -> Nat] /\ g1 \in [R -> Nat]
  BY FS_RemoveElement
<1>2. Sum(f) = f[x] + Sum(f1) /\ Sum(g) = g[x] + Sum(g1)
  BY SumSplit
<1>3. Sum(f1) <= Sum(g1)
  <2>1. \A y \in R : f1[y] <= g1[y]
    OBVIOUS
  <2> HIDE DEF f1, g1, R
  <2> QED BY <1>1, <2>1, SumGrows
<1>4. Sum(f1) \in Nat /\ Sum(g1) \in Nat
  <2> HIDE DEF f1, g1, R
  <2> QED BY <1>1, BoxesFinite
<1>5. f[x] \in Nat /\ g[x] \in Nat
  OBVIOUS
<1> HIDE DEF f1, g1
<1> QED BY <1>2, <1>3, <1>4, <1>5
-----------------------------------------------------------------------------
(* The history store.                                                       *)

LEMMA UsesType ==
    ASSUME NEW list \in Seq(Entries), NEW c
    PROVE  /\ Uses(c, list) \in Nat
           /\ \/ Uses(c, list) = 0
              \/ \E e \in ToSet(list) : e.command = c /\ e.uses = Uses(c, list)
<1> DEFINE I == Places(c, list)
<1>1. I \in SUBSET DOMAIN list /\ \A i \in I : list[i].command = c
  BY DEF Places
<1>2. Len(list) \in Nat /\ DOMAIN list = 1 .. Len(list)
  BY LenProperties
<1> HIDE DEF I
<1>3. CASE I = {}
  BY <1>3 DEF Uses, I
<1>4. CASE I # {}
  <2>1. Min(I) \in I
    BY <1>1, <1>2, <1>4, MinIs
  <2>2. Uses(c, list) = list[Min(I)].uses
    BY <1>4 DEF Uses, I
  <2>3. list[Min(I)] \in Entries /\ list[Min(I)] \in ToSet(list) /\ list[Min(I)].command = c
    BY <1>1, <1>2, <2>1, ElementOfSeq DEF ToSet
  <2> QED BY <2>2, <2>3 DEF Entries
<1> QED BY <1>3, <1>4

LEMMA OthersIn ==
    ASSUME NEW list \in Seq(Entries), NEW c
    PROVE  /\ Others(c, list) \in Seq(Entries) /\ Len(Others(c, list)) <= Len(list)
           /\ ToSet(Others(c, list)) \subseteq ToSet(list)
<1> DEFINE I == Places(c, list)
           m == Min(I)
           r == RemoveAt(list, m)
<1>1. I \in SUBSET DOMAIN list
  BY DEF Places
<1>2. Len(list) \in Nat /\ DOMAIN list = 1 .. Len(list)
  BY LenProperties
<1> HIDE DEF I
<1>3. CASE I = {}
  BY <1>2, <1>3 DEF Others, I
<1>4. CASE I # {}
  <2>1. m \in DOMAIN list
    BY <1>1, <1>2, <1>4, MinIs
  <2>2. Others(c, list) = r
    BY <1>4 DEF Others, I
  <2> HIDE DEF m
  <2>3. /\ r \in Seq(Entries) /\ Len(r) = Len(list) - 1
        /\ \A i \in 1 .. Len(list) - 1 : r[i] = IF i < m THEN list[i] ELSE list[i + 1]
    BY <2>1, RemoveAtDraws
  <2> HIDE DEF r
  <2>4. DOMAIN r = 1 .. Len(list) - 1
    BY <2>3, LenProperties
  <2>5. \A i \in 1 .. Len(list) - 1 : i \in DOMAIN list /\ i + 1 \in DOMAIN list
    BY <1>2
  <2>6. ToSet(r) \subseteq ToSet(list)
    BY <2>3, <2>4, <2>5 DEF ToSet
  <2> QED BY <1>2, <2>2, <2>3, <2>6
<1> QED BY <1>3, <1>4

(* An entry with another time of use.                                       *)
Alike(e, d) == e.command = d.command /\ e.uses = d.uses

Dated == [command : Command, at : Nat, uses : Nat \ {0}]

LEMMA RankedIs ==
    ASSUME NEW list \in Seq(Dated), Len(list) <= MaxHistory
    PROVE  /\ Ranked(list) \in History /\ Len(Ranked(list)) = Len(list)
           /\ DOMAIN Ranked(list) = DOMAIN list
           /\ \A i \in DOMAIN list : Alike(Ranked(list)[i], list[i])
<1> DEFINE r == Ranked(list)
           low(i) == {j \in DOMAIN list : list[j].at <= list[i].at}
<1>1. Len(list) \in Nat /\ DOMAIN list = 1 .. Len(list) /\ MaxHistory \in Nat
  BY LenProperties, HistoryAssumption
<1>2. ASSUME NEW i \in DOMAIN list
      PROVE  Cardinality(low(i)) \in 1 .. MaxHistory
  <2>1. list[i] \in Dated
    BY <1>1, ElementOfSeq
  <2>2. low(i) \in SUBSET DOMAIN list /\ i \in low(i)
    BY <2>1 DEF Dated
  <2> HIDE DEF low
  <2>3. Cardinality(low(i)) \in Nat /\ Cardinality(low(i)) >= 1 /\ Cardinality(low(i)) <= Len(list)
    BY <2>2, Positions
  <2> QED BY <1>1, <2>3
<1>3. r = [i \in DOMAIN list |-> [list[i] EXCEPT !.at = Cardinality(low(i))]]
  BY DEF Ranked
<1> HIDE DEF low, r
<1>4. ASSUME NEW i \in DOMAIN list
      PROVE  r[i] \in Entries /\ Alike(r[i], list[i])
  <2>1. list[i] \in Dated
    BY <1>1, ElementOfSeq
  <2>2. r[i] = [list[i] EXCEPT !.at = Cardinality(low(i))]
    BY <1>3
  <2> QED BY <1>2, <2>1, <2>2 DEF Dated, Entries, Alike
<1>5. r \in [1 .. Len(list) -> Entries]
  BY <1>1, <1>3, <1>4
<1>6. r \in Seq(Entries) /\ Len(r) = Len(list) /\ DOMAIN r = DOMAIN list
  BY <1>1, <1>5
<1> QED BY <1>4, <1>6 DEF History, r

(* CommandHistoryStore::add: within the limit, the command is there, once   *)
(* more used, and every other entry was there before.                       *)
LEMMA AddIs ==
    ASSUME NEW list \in History, NEW c \in Command
    PROVE  /\ add(list, c) \in History
           /\ c \in Commands(add(list, c))
           /\ \A e \in ToSet(add(list, c)) :
                 \/ e.command = c /\ e.uses = Uses(c, list) + 1
                 \/ \E d \in ToSet(list) : Alike(e, d)
<1> DEFINE o == Others(c, list)
           new == [command |-> c, at |-> MaxHistory + 1, uses |-> Uses(c, list) + 1]
           u == Used(list, c)
           t == trim_to_max_history(u)
           k == IF Len(u) <= MaxHistory THEN 0 ELSE Len(u) - MaxHistory
<1>1. list \in Seq(Entries) /\ MaxHistory \in Nat \ {0} /\ Entries \subseteq Dated
  BY HistoryAssumption DEF History, Entries, Dated
<1>2. o \in Seq(Entries) /\ ToSet(o) \subseteq ToSet(list)
  BY <1>1, OthersIn
<1>3. o \in Seq(Dated)
  BY <1>1, <1>2, SeqMonotonic
<1>4. new \in Dated
  BY <1>1, UsesType DEF Dated
<1>5. u = Append(o, new)
  BY DEF Used
<1>6. new.command = c /\ new.uses = Uses(c, list) + 1
  OBVIOUS
<1> HIDE DEF o, new, u
<1>7. /\ u \in Seq(Dated) /\ Len(u) = Len(o) + 1 /\ Len(o) \in Nat
      /\ u[Len(u)] = new /\ \A i \in 1 .. Len(o) : u[i] = o[i]
  BY <1>3, <1>4, <1>5
<1>8. \A i \in 1 .. Len(u) : u[i] \in Dated
  BY <1>7, ElementOfSeq
<1>9. \A i \in 1 .. Len(u) : u[i] = new \/ u[i] \in ToSet(list)
  <2> SUFFICES ASSUME NEW i \in 1 .. Len(u), i # Len(u) PROVE u[i] \in ToSet(list)
    BY <1>7
  <2>1. i \in 1 .. Len(o) /\ DOMAIN o = 1 .. Len(o)
    BY <1>3, <1>7, LenProperties
  <2>2. u[i] = o[i] /\ o[i] \in ToSet(o)
    BY <1>7, <2>1 DEF ToSet
  <2> QED BY <1>2, <2>2
<1>10. k \in Nat /\ k < Len(u) /\ Len(u) - k <= MaxHistory /\ Len(u) \in Nat
  BY <1>1, <1>7
<1>11. /\ t \in Seq(Dated) /\ Len(t) = Len(u) - k
       /\ \A i \in 1 .. Len(u) - k : t[i] = u[i + k]
  <2>1. CASE Len(u) <= MaxHistory
    <3>1. t = u /\ k = 0
      BY <2>1 DEF trim_to_max_history
    <3> QED BY <1>7, <3>1
  <2>2. CASE ~(Len(u) <= MaxHistory)
    <3>1. t = SubSeq(u, k + 1, Len(u)) /\ k = Len(u) - MaxHistory
      BY <2>2 DEF trim_to_max_history
    <3> HIDE DEF t, k
    <3>2. \A i \in k + 1 .. Len(u) : u[i] \in Dated
      BY <1>8, <1>10
    <3>3. /\ t \in Seq(Dated) /\ Len(t) = IF k + 1 <= Len(u) THEN Len(u) - (k + 1) + 1 ELSE 0
          /\ \A i \in 1 .. Len(u) - (k + 1) + 1 : t[i] = u[(k + 1) + i - 1]
      BY <1>10, <3>1, <3>2, SubSeqProperties
    <3> QED BY <1>10, <3>3
  <2> QED BY <2>1, <2>2
<1> HIDE DEF t, k
<1>12. /\ Ranked(t) \in History /\ Len(Ranked(t)) = Len(t)
       /\ DOMAIN Ranked(t) = DOMAIN t
       /\ \A i \in DOMAIN t : Alike(Ranked(t)[i], t[i])
  BY <1>10, <1>11, RankedIs
<1>13. DOMAIN t = 1 .. Len(u) - k
  BY <1>11, LenProperties
<1>14. add(list, c) = Ranked(t)
  BY DEF add, t, u
<1>15. c \in Commands(Ranked(t))
  <2>1. Len(u) - k \in DOMAIN t /\ (Len(u) - k) + k = Len(u)
    BY <1>10, <1>13
  <2>2. Ranked(t)[Len(u) - k].command = c
    BY <1>6, <1>7, <1>11, <1>12, <1>13, <2>1 DEF Alike
  <2> QED BY <1>12, <2>1, <2>2 DEF Commands
<1>16. ASSUME NEW e \in ToSet(Ranked(t))
       PROVE  \/ e.command = c /\ e.uses = Uses(c, list) + 1
              \/ \E d \in ToSet(list) : Alike(e, d)
  <2>1. PICK i \in DOMAIN t : e = Ranked(t)[i]
    BY <1>12 DEF ToSet
  <2>2. i \in 1 .. Len(u) - k /\ i + k \in 1 .. Len(u)
    BY <1>10, <1>13
  <2>3. Alike(e, u[i + k])
    BY <1>11, <1>12, <2>1, <2>2
  <2>4. u[i + k] = new \/ u[i + k] \in ToSet(list)
    BY <1>9, <2>2
  <2> QED BY <1>6, <2>3, <2>4 DEF Alike
<1> QED BY <1>12, <1>14, <1>15, <1>16

LEMMA DeletedIs ==
    ASSUME NEW list \in History, NEW c
    PROVE  LET r == Ranked(retain(list, DOMAIN list \ Places(c, list))) IN
           /\ r \in History
           /\ Commands(list) \subseteq Commands(r) \cup {c}
           /\ \A e \in ToSet(r) : \E d \in ToSet(list) : Alike(e, d)
<1> DEFINE I == DOMAIN list \ Places(c, list)
           q == retain(list, I)
           r == Ranked(q)
<1>1. /\ list \in Seq(Entries) /\ Len(list) <= MaxHistory /\ Entries \subseteq Dated
      /\ MaxHistory \in Nat /\ Len(list) \in Nat
  BY HistoryAssumption, LenProperties DEF History, Entries, Dated
<1>2. /\ q \in Seq(Entries) /\ Len(q) <= Len(list) /\ ToSet(q) = {list[i] : i \in I}
  BY <1>1, Retained
<1>3. \A i \in DOMAIN list : list[i].command # c => i \in I
  BY DEF Places
<1>4. I \subseteq DOMAIN list
  OBVIOUS
<1> HIDE DEF q, I
<1>5. q \in Seq(Dated) /\ Len(q) <= MaxHistory
  <2>1. Len(q) \in Nat
    BY <1>2, LenProperties
  <2> QED BY <1>1, <1>2, <2>1, SeqMonotonic
<1>6. /\ r \in History /\ DOMAIN r = DOMAIN q
      /\ \A i \in DOMAIN q : Alike(r[i], q[i])
  BY <1>5, RankedIs
<1> HIDE DEF r
<1>7. Commands(list) \subseteq Commands(r) \cup {c}
  <2> SUFFICES ASSUME NEW i \in DOMAIN list, list[i].command # c
               PROVE  \E j \in DOMAIN r : r[j].command = list[i].command
    BY DEF Commands
  <2>1. list[i] \in ToSet(q)
    BY <1>2, <1>3
  <2>2. PICK j \in DOMAIN q : q[j] = list[i]
    BY <2>1 DEF ToSet
  <2> QED BY <1>6, <2>2 DEF Alike
<1>8. ASSUME NEW e \in ToSet(r)
      PROVE  \E d \in ToSet(list) : Alike(e, d)
  <2>1. PICK j \in DOMAIN q : e = r[j]
    BY <1>6 DEF ToSet
  <2>2. q[j] \in ToSet(q) /\ Alike(e, q[j])
    BY <1>6, <2>1 DEF ToSet
  <2>3. q[j] \in ToSet(list)
    BY <1>2, <1>4, <2>2 DEF ToSet
  <2> QED BY <2>2, <2>3
<1> QED BY <1>6, <1>7, <1>8 DEF r, q, I

-----------------------------------------------------------------------------
(* The shapes of sessions and tasks.                                        *)

TaskOK(t) ==
    /\ t.pc \in {"add", "delete"} => t.todo # <<>>
    /\ t.op = "delete" => t.pc = "delete" \/ (t.pc = "request" /\ t.todo = <<>>)
    /\ t.pc = "delete" => t.op = "delete"
    /\ t.pc \in {"flush", "drop"} => t.op = "remove" /\ t.todo = <<>>
    /\ t.op = "remove" => /\ t.io \in Session
                          /\ sessions[t.io] = "closed" /\ submissions[t.io] # None

SessionOK(s) ==
    /\ sessions[s] = "open" => submissions[s] # None
    /\ sessions[s] = "new" => shell[s].running = <<>> /\ shell[s].reported = None
    /\ submissions[s] # None => ~(submissions[s].awaits /\ submissions[s].degraded)

(* A loop awaits at most one operation of the manager.                      *)
OneEach == \A t, u \in tasks : t.io \in Session /\ t.io = u.io => t = u

Linked ==
    /\ \A s \in Session : SessionOK(s)
    /\ \A t \in tasks : TaskOK(t)
    /\ OneEach
    /\ IsFiniteSet(tasks) /\ IsFiniteSet(disk)
    /\ main.pc # "add" => main.todo = <<>>

HInv == TypeOK /\ Linked

LEMMA Consts ==
    /\ IsFiniteSet(Session) /\ None \notin Session /\ None \notin Command
    /\ MaxPending \in Nat /\ MaxHistory \in Nat \ {0}
    /\ MaxSubmissions \in Nat /\ MaxEvents \in Nat
    /\ None \notin SubmissionStates
BY HistoryAssumption, NoneAssumption

(* The parts of the invariant, each with the variables it is about.         *)
TasksOK ==
    /\ tasks \subseteq Tasks /\ IsFiniteSet(tasks)
    /\ \A t \in tasks : TaskOK(t)
    /\ OneEach

SessionsOK ==
    /\ sessions \in [Session -> {"new", "open", "closed"}]
    /\ submissions \in [Session -> SubmissionStates \cup {None}]
    /\ shell \in [Session -> [running : Seq(Command), reported : Command \cup {None}]]
    /\ \A s \in Session : SessionOK(s)

StoreOK ==
    /\ entries \in History /\ dirty \in BOOLEAN
    /\ disk \subseteq Entries /\ IsFiniteSet(disk)

SavingOK ==
    /\ permit \in BOOLEAN
    /\ worker \in [pc : {"idle", "debounce", "write", "check"}, snapshot : History]
    /\ main \in [pc : {"idle", "add", "save", "write", "done"}, todo : Seq(Command),
                 snapshot : History]
    /\ main.pc # "add" => main.todo = <<>>

BudgetOK == budget \in [submissions : 0 .. MaxSubmissions, events : 0 .. MaxEvents]

GhostsOK == owed \subseteq Command /\ allowed \in [Command -> Nat]

LEMMA Parts ==
    HInv <=> SessionsOK /\ TasksOK /\ StoreOK /\ SavingOK /\ BudgetOK /\ GhostsOK
BY DEF HInv, TypeOK, Linked, SessionsOK, TasksOK, StoreOK, SavingOK, BudgetOK, GhostsOK

LEMMA PartsNext ==
    HInv' <=> SessionsOK' /\ TasksOK' /\ StoreOK' /\ SavingOK' /\ BudgetOK' /\ GhostsOK'
BY DEF HInv, TypeOK, Linked, SessionsOK, TasksOK, StoreOK, SavingOK, BudgetOK, GhostsOK

LEMMA SessionsStay ==
    ASSUME SessionsOK, UNCHANGED <<sessions, submissions, shell>>
    PROVE  SessionsOK'
BY DEF SessionsOK, SessionOK

LEMMA TasksStay ==
    ASSUME TasksOK, UNCHANGED <<sessions, submissions, tasks>>
    PROVE  TasksOK'
BY DEF TasksOK, TaskOK, OneEach

LEMMA StoreStays ==
    ASSUME StoreOK, UNCHANGED <<entries, dirty, disk>>
    PROVE  StoreOK'
BY DEF StoreOK

LEMMA SavingStays ==
    ASSUME SavingOK, UNCHANGED <<permit, worker, main>>
    PROVE  SavingOK'
BY DEF SavingOK

LEMMA BudgetStays ==
    ASSUME BudgetOK, UNCHANGED budget \/ Submit \/ Happens
    PROVE  BudgetOK'
BY Consts DEF BudgetOK, Submit, Happens

LEMMA GhostsStay ==
    ASSUME GhostsOK, owed' \subseteq Command, UNCHANGED allowed
    PROVE  GhostsOK'
BY DEF GhostsOK

(* What a session that is closed keeps while another step is taken.         *)
Steady ==
    \A s \in Session :
        sessions[s] = "closed" =>
            sessions'[s] = "closed" /\ (submissions[s] # None => submissions'[s] # None)

LEMMA TaskOKStays ==
    ASSUME Steady, NEW t, TaskOK(t)
    PROVE  TaskOK(t)'
BY DEF Steady, TaskOK

-----------------------------------------------------------------------------
(* There is a free identity for every new task.                             *)
LEMMA FreeIs ==
    ASSUME tasks \subseteq Tasks, IsFiniteSet(tasks)
    PROVE  Free \in Nat \ {0}
<1> DEFINE n == Cardinality(tasks)
           D == 1 .. n + 1
           X == {t.id : t \in tasks}
           f == [t \in tasks |-> t.id]
<1>1. n \in Nat
  BY FS_CardinalityType
<1>2. f \in Surjection(tasks, X)
  BY DEF Surjection
<1>3. IsFiniteSet(X) /\ Cardinality(X) <= n
  <2> HIDE DEF f, X
  <2> QED BY <1>2, FS_Surjection
<1>4. IsFiniteSet(D) /\ Cardinality(D) = n + 1
  <2>1. 1 \in Int /\ n + 1 \in Int
    BY <1>1
  <2>2. IsFiniteSet(D) /\ Cardinality(D) = IF 1 > n + 1 THEN 0 ELSE (n + 1) - 1 + 1
    BY <2>1, FS_Interval
  <2> QED BY <1>1, <2>2
<1>5. ~(D \subseteq X)
  <2>1. Cardinality(X) \in Nat
    BY <1>3, FS_CardinalityType
  <2> SUFFICES ASSUME D \in SUBSET X PROVE FALSE
    OBVIOUS
  <2> HIDE DEF X, D, n
  <2>2. Cardinality(D) <= Cardinality(X)
    BY <1>3, FS_Subset
  <2> QED BY <1>1, <1>3, <1>4, <2>1, <2>2
<1>6. \E k \in D : \A t \in tasks : t.id # k
  BY <1>5
<1>7. Free \in D
  BY <1>6 DEF Free
<1> QED BY <1>1, <1>7

LEMMA StartIs ==
    ASSUME TasksOK, NEW op \in {"add", "remove", "delete"}, NEW io \in Session \cup {None},
           NEW pc \in {"add", "request", "flush", "drop", "delete"}, NEW todo \in Seq(Command),
           Start(op, io, pc, todo)
    PROVE  \E t \in Tasks : /\ t.op = op /\ t.io = io /\ t.pc = pc /\ t.todo = todo
                            /\ tasks' = tasks \cup {t}
<1> DEFINE t == [id |-> Free, op |-> op, io |-> io, pc |-> pc, todo |-> todo]
<1>1. Free \in Nat \ {0}
  BY FreeIs DEF TasksOK
<1>2. t \in Tasks /\ t.op = op /\ t.io = io /\ t.pc = pc /\ t.todo = todo
  BY <1>1 DEF Tasks
<1>3. tasks' = tasks \cup {t}
  BY DEF Start
<1> HIDE DEF t
<1> QED BY <1>2, <1>3

LEMMA BecomesIs ==
    ASSUME TasksOK, NEW t \in tasks,
           NEW pc \in {"add", "request", "flush", "drop", "delete"}, NEW todo \in Seq(Command),
           Becomes(t, pc, todo)
    PROVE  \E u \in Tasks : /\ u.op = t.op /\ u.io = t.io /\ u.pc = pc /\ u.todo = todo
                            /\ tasks' = (tasks \ {t}) \cup {u}
<1> DEFINE u == [t EXCEPT !.pc = pc, !.todo = todo]
<1>1. t \in Tasks
  BY DEF TasksOK
<1>2. u \in Tasks /\ u.op = t.op /\ u.io = t.io /\ u.pc = pc /\ u.todo = todo
  BY <1>1 DEF Tasks
<1>3. tasks' = (tasks \ {t}) \cup {u}
  BY DEF Becomes
<1> HIDE DEF u
<1> QED BY <1>2, <1>3

(* One more task.                                                           *)
LEMMA StartKeeps ==
    ASSUME TasksOK, Steady, NEW t \in Tasks, TaskOK(t)', tasks' = tasks \cup {t},
           t.io \in Session => Loop(t.io)
    PROVE  TasksOK'
<1>1. IsFiniteSet(tasks')
  BY FS_AddElement DEF TasksOK
<1>2. \A u \in tasks' : TaskOK(u)'
  BY TaskOKStays DEF TasksOK
<1>3. OneEach'
  BY DEF OneEach, TasksOK, Loop
<1> QED BY <1>1, <1>2, <1>3 DEF TasksOK

(* A task replaced by its next step.                                        *)
LEMMA BecomesKeeps ==
    ASSUME TasksOK, Steady, NEW t \in tasks, NEW u \in Tasks, TaskOK(u)',
           tasks' = (tasks \ {t}) \cup {u}, u.io = t.io
    PROVE  TasksOK'
<1>1. IsFiniteSet(tasks')
  BY FS_AddElement, FS_RemoveElement DEF TasksOK
<1>2. \A v \in tasks' : TaskOK(v)'
  BY TaskOKStays DEF TasksOK
<1>3. OneEach'
  BY DEF OneEach, TasksOK
<1> QED BY <1>1, <1>2, <1>3 DEF TasksOK

LEMMA EndKeeps ==
    ASSUME TasksOK, Steady, NEW t \in tasks, tasks' = tasks \ {t}
    PROVE  TasksOK'
<1>1. IsFiniteSet(tasks')
  BY FS_RemoveElement DEF TasksOK
<1>2. \A v \in tasks' : TaskOK(v)'
  BY TaskOKStays DEF TasksOK
<1> QED BY <1>1, <1>2 DEF TasksOK, OneEach

(* The rest of a task: one step further with what it has left, or its end.  *)
LEMMA ContinueIs ==
    ASSUME TasksOK, NEW t \in tasks, NEW todo \in Seq(Command), Continue(t, todo)
    PROVE  \/ tasks' = tasks \ {t} /\ todo = <<>> /\ t.op # "remove"
           \/ \E u \in Tasks : /\ u.op = t.op /\ u.io = t.io /\ u.todo = todo
                               /\ \/ u.pc = "add" /\ todo # <<>>
                                  \/ u.pc = "drop" /\ todo = <<>> /\ t.op = "remove"
                               /\ tasks' = (tasks \ {t}) \cup {u}
<1>1. CASE todo # <<>> /\ Becomes(t, "add", todo)
  BY <1>1, BecomesIs
<1>2. CASE todo = <<>> /\ t.op = "remove" /\ Becomes(t, "drop", <<>>)
  <2>1. Becomes(t, "drop", todo)
    BY <1>2
  <2>2. \E u \in Tasks : /\ u.op = t.op /\ u.io = t.io /\ u.pc = "drop" /\ u.todo = todo
                         /\ tasks' = (tasks \ {t}) \cup {u}
    BY <2>1, BecomesIs
  <2> QED BY <1>2, <2>2
<1>3. CASE todo = <<>> /\ t.op # "remove" /\ tasks' = tasks \ {t}
  BY <1>3
<1> QED BY <1>1, <1>2, <1>3 DEF Continue

LEMMA ContinueKeeps ==
    ASSUME TasksOK, Steady, NEW t \in tasks, NEW todo \in Seq(Command), Continue(t, todo),
           t.op = "delete" => todo = <<>>
    PROVE  TasksOK'
<1>1. TaskOK(t)'
  BY TaskOKStays DEF TasksOK
<1>2. CASE tasks' = tasks \ {t}
  BY <1>2, EndKeeps
<1>3. ASSUME NEW u \in Tasks, u.op = t.op, u.io = t.io, u.todo = todo,
             \/ u.pc = "add" /\ todo # <<>>
             \/ u.pc = "drop" /\ todo = <<>> /\ t.op = "remove",
             tasks' = (tasks \ {t}) \cup {u}
      PROVE  TasksOK'
  <2>1. CASE u.pc = "add" /\ todo # <<>>
    <3>1. TaskOK(u)'
      BY <1>1, <1>3, <2>1 DEF TaskOK
    <3> QED BY <1>3, <3>1, BecomesKeeps
  <2>2. CASE u.pc = "drop" /\ todo = <<>> /\ t.op = "remove"
    <3>1. TaskOK(u)'
      BY <1>1, <1>3, <2>2 DEF TaskOK
    <3> QED BY <1>3, <3>1, BecomesKeeps
  <2> QED BY <1>3, <2>1, <2>2
<1> QED BY <1>2, <1>3, ContinueIs

-----------------------------------------------------------------------------
(* Every step keeps the types.                                              *)

LEMMA FreshState ==
    ASSUME NEW b \in BOOLEAN
    PROVE  SubmissionState(b) \in SubmissionStates /\ SubmissionState(b).candidates = <<>>
<1>1. <<>> \in {q \in Seq(Command) : Len(q) <= MaxPending}
  BY Consts, EmptySeq
<1> QED BY <1>1 DEF SubmissionState, SubmissionStates

LEMMA AddSessionTyped ==
    ASSUME HInv, NEW s \in Session, add_session(s)
    PROVE  HInv'
<1>1. SessionsOK /\ TasksOK /\ StoreOK /\ SavingOK /\ BudgetOK /\ GhostsOK
  BY Parts
<1>2. PICK b \in BOOLEAN : submissions' = [submissions EXCEPT ![s] = SubmissionState(b)]
  BY DEF add_session
<1>3. sessions[s] = "new" /\ sessions' = [sessions EXCEPT ![s] = "open"] /\ UNCHANGED shell
  BY DEF add_session
<1>4. SubmissionState(b) \in SubmissionStates /\ ~SubmissionState(b).degraded
  BY FreshState DEF SubmissionState
<1>5. SessionsOK'
  BY <1>1, <1>2, <1>3, <1>4, Consts DEF SessionsOK, SessionOK
<1>6. Steady
  BY <1>1, <1>2, <1>3 DEF Steady, SessionsOK
<1>7. UNCHANGED <<tasks, store, disk, saving, budget, ghosts>>
  BY DEF add_session
<1>8. TasksOK'
  BY <1>1, <1>6, <1>7, TaskOKStays DEF TasksOK, OneEach
<1> QED BY <1>1, <1>5, <1>7, <1>8, StoreStays, SavingStays, BudgetStays, GhostsStay, PartsNext
        DEF store, saving, ghosts, GhostsOK

(* An update of one session's state that keeps the session what it is.      *)
LEMMA StateUpdated ==
    ASSUME SessionsOK, NEW s \in Session, NEW v \in SubmissionStates,
           ~(v.awaits /\ v.degraded), submissions' = [submissions EXCEPT ![s] = v],
           UNCHANGED sessions,
           shell' \in [Session -> [running : Seq(Command), reported : Command \cup {None}]],
           \A x \in Session : sessions[x] = "new" => shell'[x] = shell[x]
    PROVE  SessionsOK' /\ Steady
<1>1. SessionsOK'
  BY Consts DEF SessionsOK, SessionOK
<1>2. Steady
  BY Consts DEF SessionsOK, Steady
<1> QED BY <1>1, <1>2

LEMMA ShellRuns ==
    ASSUME SessionsOK, UNCHANGED <<sessions, submissions>>,
           shell' \in [Session -> [running : Seq(Command), reported : Command \cup {None}]],
           \A x \in Session : sessions[x] = "new" => shell'[x] = shell[x]
    PROVE  SessionsOK' /\ Steady
BY DEF SessionsOK, SessionOK, Steady

LEMMA AddTask ==
    ASSUME TasksOK, Steady, NEW todo \in Seq(Command), todo # <<>>,
           NEW io \in Session \cup {None}, io \in Session => Loop(io),
           Start("add", io, "add", todo)
    PROVE  TasksOK'
<1>1. PICK t \in Tasks : /\ t.op = "add" /\ t.io = io /\ t.pc = "add" /\ t.todo = todo
                         /\ tasks' = tasks \cup {t}
  BY StartIs
<1>2. TaskOK(t)'
  BY <1>1 DEF TaskOK
<1> QED BY <1>1, <1>2, StartKeeps

LEMMA RegisterTyped ==
    ASSUME HInv, NEW s \in Session, NEW c \in Command, register_command_submission(s, c)
    PROVE  HInv'
<1> DEFINE state == submissions[s]
           queue == Append(state.candidates, c)
<1>1. SessionsOK /\ TasksOK /\ StoreOK /\ SavingOK /\ BudgetOK /\ GhostsOK
  BY Parts
<1>2. sessions[s] # "new" /\ Submit /\ UNCHANGED <<sessions, store, disk, saving>>
  BY DEF register_command_submission
<1>3. /\ shell' \in [Session -> [running : Seq(Command), reported : Command \cup {None}]]
      /\ \A x \in Session : sessions[x] = "new" => shell'[x] = shell[x]
  <2>1. shell' = shell \/ shell' = [shell EXCEPT ![s].running = Append(@, c)]
    BY DEF register_command_submission
  <2>2. shell[s] \in [running : Seq(Command), reported : Command \cup {None}]
    BY <1>1 DEF SessionsOK
  <2>3. Append(shell[s].running, c) \in Seq(Command)
    BY <2>2
  <2> DEFINE sh == [shell[s] EXCEPT !.running = Append(@, c)]
  <2>4. sh \in [running : Seq(Command), reported : Command \cup {None}]
    BY <2>2, <2>3
  <2>5. shell' = shell \/ shell' = [shell EXCEPT ![s] = sh]
    BY <2>1
  <2>6. shell \in [Session -> [running : Seq(Command), reported : Command \cup {None}]]
    BY <1>1 DEF SessionsOK
  <2> HIDE DEF sh
  <2>7. CASE shell' = shell
    BY <2>6, <2>7
  <2>8. CASE shell' = [shell EXCEPT ![s] = sh]
    BY <1>2, <2>4, <2>6, <2>8
  <2> QED BY <2>5, <2>7, <2>8
<1>4. GhostsOK'
  <2>1. /\ owed' = IF sessions[s] = "open" THEN owed \cup {c} ELSE owed
        /\ allowed' = [allowed EXCEPT ![c] = @ + 1]
    BY DEF register_command_submission
  <2> QED BY <1>1, <2>1 DEF GhostsOK
<1>5. CASE Start("add", None, "add", <<c>>) /\ UNCHANGED submissions
  <2>1. SessionsOK' /\ Steady
    BY <1>1, <1>2, <1>3, <1>5, ShellRuns
  <2>2. <<c>> \in Seq(Command) /\ <<c>> # <<>>
    OBVIOUS
  <2>3. TasksOK'
    BY <1>1, <1>5, <2>1, <2>2, AddTask, Consts
  <2> QED BY <1>1, <1>2, <1>4, <2>1, <2>3, StoreStays, SavingStays, BudgetStays, PartsNext
          DEF store, saving
<1>6. ASSUME Waits(state)
      PROVE  state \in SubmissionStates /\ ~state.degraded /\ queue \in Seq(Command)
  <2>1. state \in SubmissionStates /\ ~state.degraded
    BY <1>1, <1>6 DEF Waits, SessionsOK, SessionOK
  <2> QED BY <2>1 DEF SubmissionStates
<1>7. CASE /\ Waits(state) /\ Len(queue) <= MaxPending
           /\ submissions' = [submissions EXCEPT ![s].candidates = queue]
           /\ UNCHANGED tasks
  <2> DEFINE v == [state EXCEPT !.candidates = queue]
  <2>1. v \in SubmissionStates /\ ~v.degraded
    BY <1>6, <1>7 DEF SubmissionStates
  <2>2. submissions' = [submissions EXCEPT ![s] = v]
    BY <1>7
  <2> HIDE DEF v
  <2>3. SessionsOK' /\ Steady
    BY <1>1, <1>2, <1>3, <2>1, <2>2, StateUpdated
  <2>4. TasksOK'
    BY <1>1, <1>7, <2>3, TaskOKStays DEF TasksOK, OneEach
  <2> QED BY <1>1, <1>2, <1>4, <2>3, <2>4, StoreStays, SavingStays, BudgetStays, PartsNext
          DEF store, saving
<1>8. CASE /\ Waits(state) /\ Len(queue) > MaxPending
           /\ submissions' = [submissions EXCEPT
                                ![s] = [SubmissionState(FALSE) EXCEPT !.degraded = TRUE]]
           /\ Start("add", None, "add", queue)
  <2> DEFINE v == [SubmissionState(FALSE) EXCEPT !.degraded = TRUE]
  <2>1. v \in SubmissionStates /\ ~v.awaits
    <3>1. <<>> \in {q \in Seq(Command) : Len(q) <= MaxPending}
      BY Consts, EmptySeq
    <3> QED BY <3>1 DEF SubmissionStates, SubmissionState
  <2>2. submissions' = [submissions EXCEPT ![s] = v]
    BY <1>8
  <2> HIDE DEF v
  <2>3. SessionsOK' /\ Steady
    BY <1>1, <1>2, <1>3, <2>1, <2>2, StateUpdated
  <2>4. queue # <<>>
    <3>1. state.candidates \in Seq(Command)
      BY <1>6, <1>8 DEF SubmissionStates
    <3> QED BY <3>1
  <2>5. TasksOK'
    <3> HIDE DEF queue
    <3> QED BY <1>1, <1>6, <1>8, <2>3, <2>4, AddTask, Consts
  <2> QED BY <1>1, <1>2, <1>4, <2>3, <2>5, StoreStays, SavingStays, BudgetStays, PartsNext
          DEF store, saving
<1> QED BY <1>5, <1>7, <1>8 DEF register_command_submission

(* confirm_command_submission: nothing, or the queue and one more task.     *)
LEMMA ConfirmIs ==
    ASSUME SessionsOK, TasksOK, NEW s \in Session, sessions[s] = "open", Loop(s),
           NEW c \in Command, confirm_command_submission(s, c)
    PROVE  \/ /\ \/ submissions[s].degraded
                 \/ c \notin ToSet(submissions[s].candidates) /\ submissions[s].last = c
              /\ UNCHANGED <<submissions, tasks>>
           \/ \E v \in SubmissionStates :
                 /\ v.candidates = RemoveFirst(submissions[s].candidates, c)
                 /\ v.last = c /\ ~v.degraded /\ v.awaits = submissions[s].awaits
                 /\ ~submissions[s].degraded
                 /\ (c \in ToSet(submissions[s].candidates) \/ submissions[s].last # c)
                 /\ submissions' = [submissions EXCEPT ![s] = v]
                 /\ Start("add", s, "add", <<c>>)
<1> DEFINE state == submissions[s]
           r == RemoveFirst(state.candidates, c)
           v == [state EXCEPT !.candidates = r, !.last = c]
<1>1. state \in SubmissionStates
  BY DEF SessionsOK, SessionOK
<1>2. r \in Seq(Command) /\ Len(r) <= MaxPending
  <2>1. state.candidates \in Seq(Command) /\ Len(state.candidates) <= MaxPending
    BY <1>1 DEF SubmissionStates
  <2>2. r \in Seq(Command) /\ Len(r) <= Len(state.candidates)
    BY <2>1, FirstRemoved
  <2>3. Len(r) \in Nat /\ Len(state.candidates) \in Nat
    BY <2>1, <2>2, LenProperties
  <2> QED BY <2>1, <2>2, <2>3, Consts
<1> SUFFICES ASSUME ~(\/ submissions[s].degraded
                      \/ c \notin ToSet(submissions[s].candidates) /\ submissions[s].last = c)
             PROVE  \E w \in SubmissionStates :
                 /\ w.candidates = RemoveFirst(submissions[s].candidates, c)
                 /\ w.last = c /\ ~w.degraded /\ w.awaits = submissions[s].awaits
                 /\ ~submissions[s].degraded
                 /\ (c \in ToSet(submissions[s].candidates) \/ submissions[s].last # c)
                 /\ submissions' = [submissions EXCEPT ![s] = w]
                 /\ Start("add", s, "add", <<c>>)
  BY DEF confirm_command_submission
<1>3. /\ ~state.degraded /\ (c \in ToSet(state.candidates) \/ state.last # c)
      /\ submissions' = [submissions EXCEPT ![s].candidates = RemoveFirst(@, c), ![s].last = c]
      /\ Start("add", s, "add", <<c>>)
  BY DEF confirm_command_submission
<1> HIDE DEF r
<1>4. /\ v \in SubmissionStates /\ v.candidates = r /\ v.last = c
      /\ ~v.degraded /\ v.awaits = state.awaits
  BY <1>1, <1>2, <1>3 DEF SubmissionStates
<1>5. submissions' = [submissions EXCEPT ![s] = v]
  <2>1. submissions \in [Session -> SubmissionStates \cup {None}]
    BY DEF SessionsOK
  <2> QED BY <1>1, <1>3, <2>1 DEF r, SubmissionStates
<1> HIDE DEF v
<1> QED BY <1>3, <1>4, <1>5 DEF r

(* What a report is: of a running command, or again of the last one.        *)
Reports(s, c, sh) ==
    \/ \E k \in DOMAIN shell[s].running :
          /\ c = shell[s].running[k]
          /\ sh.running = SubSeq(shell[s].running, k + 1, Len(shell[s].running))
          /\ sh.reported = c
    \/ shell[s].reported = c /\ shell[s].running = <<>> /\ sh = shell[s]

LEMMA ReportIs ==
    ASSUME SessionsOK, NEW s \in Session, Report(s)
    PROVE  \E c \in Command :
              \E sh \in [running : Seq(Command), reported : Command \cup {None}] :
                 /\ confirm_command_submission(s, c)
                 /\ Reports(s, c, sh)
                 /\ shell' = [shell EXCEPT ![s] = sh]
<1> DEFINE run == shell[s].running
<1>1. shell[s] \in [running : Seq(Command), reported : Command \cup {None}]
  BY DEF SessionsOK
<1>2. run \in Seq(Command) /\ Len(run) \in Nat /\ DOMAIN run = 1 .. Len(run)
  BY <1>1, LenProperties
<1>3. ASSUME NEW k \in DOMAIN run, confirm_command_submission(s, run[k]),
             shell' = [shell EXCEPT ![s] = [running |-> SubSeq(@.running, k + 1, Len(@.running)),
                                            reported |-> @.running[k]]]
      PROVE  \E c \in Command :
              \E sh \in [running : Seq(Command), reported : Command \cup {None}] :
                 /\ confirm_command_submission(s, c)
                 /\ Reports(s, c, sh)
                 /\ shell' = [shell EXCEPT ![s] = sh]
  <2> DEFINE sh == [running |-> SubSeq(run, k + 1, Len(run)), reported |-> run[k]]
  <2>1. run[k] \in Command /\ SubSeq(run, k + 1, Len(run)) \in Seq(Command)
    BY <1>2, ElementOfSeq, CountRest
  <2>2. sh \in [running : Seq(Command), reported : Command \cup {None}]
    BY <2>1
  <2>3. shell' = [shell EXCEPT ![s] = sh]
    BY <1>3 DEF SessionsOK
  <2>4. Reports(s, run[k], sh)
    BY <2>1 DEF Reports
  <2> HIDE DEF sh
  <2> QED BY <1>3, <2>1, <2>2, <2>3, <2>4
<1>4. CASE /\ shell[s].reported # None /\ run = <<>>
           /\ confirm_command_submission(s, shell[s].reported)
           /\ UNCHANGED shell
  <2>1. shell[s].reported \in Command
    BY <1>1, <1>4
  <2>2. shell' = [shell EXCEPT ![s] = shell[s]]
    BY <1>4 DEF SessionsOK
  <2>3. Reports(s, shell[s].reported, shell[s])
    BY <1>4 DEF Reports
  <2> QED BY <1>1, <1>4, <2>1, <2>2, <2>3
<1> QED BY <1>3, <1>4 DEF Report

LEMMA ReportTyped ==
    ASSUME HInv, NEW s \in Session, Report(s)
    PROVE  HInv'
<1>1. SessionsOK /\ TasksOK /\ StoreOK /\ SavingOK /\ BudgetOK /\ GhostsOK
  BY Parts
<1>2. /\ sessions[s] = "open" /\ Loop(s)
      /\ UNCHANGED <<sessions, store, disk, saving, budget, ghosts>>
  BY DEF Report
<1>3. PICK c \in Command, sh \in [running : Seq(Command), reported : Command \cup {None}] :
             confirm_command_submission(s, c) /\ shell' = [shell EXCEPT ![s] = sh]
  BY <1>1, ReportIs
<1>4. /\ shell' \in [Session -> [running : Seq(Command), reported : Command \cup {None}]]
      /\ \A x \in Session : sessions[x] = "new" => shell'[x] = shell[x]
  BY <1>1, <1>2, <1>3 DEF SessionsOK
<1>5. CASE UNCHANGED <<submissions, tasks>>
  <2>1. SessionsOK' /\ Steady
    BY <1>1, <1>2, <1>4, <1>5, ShellRuns
  <2>2. TasksOK'
    BY <1>1, <1>2, <1>5, TasksStay
  <2> QED BY <1>1, <1>2, <2>1, <2>2, StoreStays, SavingStays, BudgetStays, GhostsStay, PartsNext
          DEF store, saving, ghosts, GhostsOK
<1>6. ASSUME NEW v \in SubmissionStates, ~v.degraded,
             submissions' = [submissions EXCEPT ![s] = v], Start("add", s, "add", <<c>>)
      PROVE  HInv'
  <2>1. SessionsOK' /\ Steady
    BY <1>1, <1>2, <1>4, <1>6, StateUpdated
  <2>2. <<c>> \in Seq(Command) /\ <<c>> # <<>>
    OBVIOUS
  <2>3. TasksOK'
    BY <1>1, <1>2, <1>6, <2>1, <2>2, AddTask
  <2> QED BY <1>1, <1>2, <2>1, <2>3, StoreStays, SavingStays, BudgetStays, GhostsStay, PartsNext
          DEF store, saving, ghosts, GhostsOK
<1> QED BY <1>1, <1>2, <1>3, <1>5, <1>6, ConfirmIs

LEMMA RemoveTyped ==
    ASSUME HInv, NEW s \in Session, remove_session(s)
    PROVE  HInv'
<1>1. SessionsOK /\ TasksOK /\ StoreOK /\ SavingOK /\ BudgetOK /\ GhostsOK
  BY Parts
<1>2. /\ sessions[s] = "open" /\ Loop(s) /\ sessions' = [sessions EXCEPT ![s] = "closed"]
      /\ Start("remove", s, "flush", <<>>)
      /\ UNCHANGED <<submissions, shell, store, disk, saving, budget, ghosts>>
  BY DEF remove_session
<1>3. SessionsOK' /\ Steady
  BY <1>1, <1>2 DEF SessionsOK, SessionOK, Steady
<1> DEFINE none == <<>>
<1>4. none \in Seq(Command) /\ Start("remove", s, "flush", none)
  BY <1>2, EmptySeq
<1>5. PICK t \in Tasks : /\ t.op = "remove" /\ t.io = s /\ t.pc = "flush" /\ t.todo = none
                         /\ tasks' = tasks \cup {t}
  <2> HIDE DEF none
  <2> QED BY <1>1, <1>4, StartIs
<1>6. TaskOK(t)'
  <2>1. sessions'[s] = "closed" /\ submissions'[s] # None
    BY <1>1, <1>2 DEF SessionsOK, SessionOK
  <2> QED BY <1>5, <2>1 DEF TaskOK
<1>7. TasksOK'
  BY <1>1, <1>2, <1>3, <1>5, <1>6, StartKeeps
<1> QED BY <1>1, <1>2, <1>3, <1>7, StoreStays, SavingStays, BudgetStays, GhostsStay, PartsNext
        DEF store, saving, ghosts, GhostsOK

LEMMA AddEntryTyped ==
    ASSUME HInv, NEW t \in tasks, AddEntry(t)
    PROVE  HInv'
<1>1. SessionsOK /\ TasksOK /\ StoreOK /\ SavingOK /\ BudgetOK /\ GhostsOK
  BY Parts
<1>2. /\ t.pc = "add" /\ entries' = add(entries, Head(t.todo)) /\ dirty' = TRUE
      /\ Becomes(t, "request", Tail(t.todo)) /\ owed' \subseteq owed
      /\ UNCHANGED <<sessions, submissions, shell, disk, saving, budget, allowed>>
  BY DEF AddEntry, Forget
<1>3. t \in Tasks /\ TaskOK(t)
  BY <1>1 DEF TasksOK
<1>4. t.todo \in Seq(Command) /\ t.todo # <<>> /\ t.op # "delete"
  BY <1>2, <1>3 DEF Tasks, TaskOK
<1>5. Head(t.todo) \in Command /\ Tail(t.todo) \in Seq(Command)
  BY <1>4, HeadTailProperties
<1>6. entries' \in History
  BY <1>1, <1>2, <1>5, AddIs DEF StoreOK
<1>7. StoreOK'
  BY <1>1, <1>2, <1>6 DEF StoreOK
<1>8. Steady
  BY <1>2 DEF Steady
<1> DEFINE rest == Tail(t.todo)
<1>9. PICK u \in Tasks : /\ u.op = t.op /\ u.io = t.io /\ u.pc = "request" /\ u.todo = rest
                         /\ tasks' = (tasks \ {t}) \cup {u}
  <2>1. rest \in Seq(Command) /\ Becomes(t, "request", rest)
    BY <1>2, <1>5
  <2> HIDE DEF rest
  <2> QED BY <1>1, <2>1, BecomesIs
<1>10. TaskOK(u)'
  BY <1>2, <1>3, <1>4, <1>9 DEF TaskOK
<1>11. TasksOK'
  BY <1>1, <1>8, <1>9, <1>10, BecomesKeeps
<1> QED BY <1>1, <1>2, <1>7, <1>11, SessionsStay, SavingStays, BudgetStays, GhostsStay, PartsNext
        DEF saving, GhostsOK

LEMMA RequestTyped ==
    ASSUME HInv, NEW t \in tasks, RequestSave(t)
    PROVE  HInv'
<1>1. SessionsOK /\ TasksOK /\ StoreOK /\ SavingOK /\ BudgetOK /\ GhostsOK
  BY Parts
<1>2. /\ t.pc = "request" /\ permit' = TRUE /\ Continue(t, t.todo)
      /\ UNCHANGED <<sessions, submissions, shell, store, disk, worker, main, budget, ghosts>>
  BY DEF RequestSave
<1>3. t \in Tasks /\ TaskOK(t)
  BY <1>1 DEF TasksOK
<1>4. t.todo \in Seq(Command) /\ (t.op = "delete" => t.todo = <<>>)
  BY <1>2, <1>3 DEF Tasks, TaskOK
<1>5. Steady
  BY <1>2 DEF Steady
<1>6. TasksOK'
  BY <1>1, <1>2, <1>4, <1>5, ContinueKeeps
<1>7. SavingOK'
  BY <1>1, <1>2 DEF SavingOK
<1> QED BY <1>1, <1>2, <1>6, <1>7, SessionsStay, StoreStays, BudgetStays, GhostsStay, PartsNext
        DEF store, ghosts, GhostsOK

LEMMA FlushIs ==
    ASSUME SessionsOK, TasksOK, NEW t \in tasks, flush_pending_submission(t)
    PROVE  /\ t.pc = "flush" /\ t.op = "remove" /\ t.todo = <<>>
           /\ t.io \in Session /\ sessions[t.io] = "closed"
           /\ submissions[t.io] \in SubmissionStates
           /\ \E v \in SubmissionStates :
                 /\ v = [submissions[t.io] EXCEPT !.candidates = <<>>]
                 /\ submissions' = [submissions EXCEPT ![t.io] = v]
           /\ Continue(t, submissions[t.io].candidates)
<1>1. t.pc = "flush" /\ Continue(t, submissions[t.io].candidates)
  BY DEF flush_pending_submission
<1>2. t \in Tasks /\ TaskOK(t)
  BY DEF TasksOK
<1>3. /\ t.op = "remove" /\ t.todo = <<>> /\ t.io \in Session /\ sessions[t.io] = "closed"
      /\ submissions[t.io] \in SubmissionStates
  BY <1>1, <1>2 DEF TaskOK, SessionsOK
<1> DEFINE v == [submissions[t.io] EXCEPT !.candidates = <<>>]
<1>4. v \in SubmissionStates
  <2>1. <<>> \in {q \in Seq(Command) : Len(q) <= MaxPending}
    BY Consts, EmptySeq
  <2> QED BY <1>3, <2>1 DEF SubmissionStates
<1>5. submissions' = [submissions EXCEPT ![t.io] = v]
  BY DEF flush_pending_submission
<1> HIDE DEF v
<1>6. \E w \in SubmissionStates :
                 /\ w = v
                 /\ submissions' = [submissions EXCEPT ![t.io] = w]
  BY <1>4, <1>5
<1> QED BY <1>1, <1>3, <1>6 DEF v

LEMMA FlushTyped ==
    ASSUME HInv, NEW t \in tasks, flush_pending_submission(t)
    PROVE  HInv'
<1>1. SessionsOK /\ TasksOK /\ StoreOK /\ SavingOK /\ BudgetOK /\ GhostsOK
  BY Parts
<1>2. UNCHANGED <<sessions, shell, store, disk, saving, budget, ghosts>>
  BY DEF flush_pending_submission
<1>3. /\ t.op = "remove" /\ t.io \in Session /\ submissions[t.io] \in SubmissionStates
      /\ Continue(t, submissions[t.io].candidates)
  BY <1>1, FlushIs
<1>4. PICK v \in SubmissionStates :
                 /\ v = [submissions[t.io] EXCEPT !.candidates = <<>>]
                 /\ submissions' = [submissions EXCEPT ![t.io] = v]
  BY <1>1, FlushIs
<1>5. ~(v.awaits /\ v.degraded)
  BY <1>1, <1>3, <1>4, Consts DEF SessionsOK, SessionOK, SubmissionStates
<1>6. SessionsOK' /\ Steady
  <2>1. /\ shell' \in [Session -> [running : Seq(Command), reported : Command \cup {None}]]
        /\ \A x \in Session : sessions[x] = "new" => shell'[x] = shell[x]
    BY <1>1, <1>2 DEF SessionsOK
  <2> QED BY <1>1, <1>2, <1>3, <1>4, <1>5, <2>1, StateUpdated
<1>7. submissions[t.io].candidates \in Seq(Command)
  BY <1>3 DEF SubmissionStates
<1>8. TasksOK'
  BY <1>1, <1>3, <1>6, <1>7, ContinueKeeps
<1> QED BY <1>1, <1>2, <1>6, <1>8, StoreStays, SavingStays, BudgetStays, GhostsStay, PartsNext
        DEF store, saving, ghosts, GhostsOK

LEMMA DropTyped ==
    ASSUME HInv, NEW t \in tasks, DropSubmissions(t)
    PROVE  HInv'
<1>1. SessionsOK /\ TasksOK /\ StoreOK /\ SavingOK /\ BudgetOK /\ GhostsOK
  BY Parts
<1>2. /\ t.pc = "drop" /\ submissions' = [submissions EXCEPT ![t.io] = None]
      /\ tasks' = tasks \ {t}
      /\ UNCHANGED <<sessions, shell, store, disk, saving, budget, ghosts>>
  BY DEF DropSubmissions
<1>3. t \in Tasks /\ TaskOK(t)
  BY <1>1 DEF TasksOK
<1>4. t.io \in Session /\ sessions[t.io] = "closed"
  BY <1>2, <1>3 DEF TaskOK
<1>5. SessionsOK'
  BY <1>1, <1>2, <1>4 DEF SessionsOK, SessionOK
<1>6. ASSUME NEW u \in tasks' PROVE TaskOK(u)'
  <2>1. u \in tasks /\ u # t /\ TaskOK(u)
    BY <1>1, <1>2 DEF TasksOK
  <2>2. u.io # t.io
    BY <1>1, <1>4, <2>1 DEF TasksOK, OneEach
  <2>3. u.op = "remove" => submissions'[u.io] = submissions[u.io]
    BY <1>1, <1>2, <2>1, <2>2 DEF TaskOK, SessionsOK
  <2> QED BY <1>2, <2>1, <2>3 DEF TaskOK
<1>7. TasksOK'
  <2>1. IsFiniteSet(tasks')
    BY <1>1, <1>2, FS_RemoveElement DEF TasksOK
  <2> QED BY <1>1, <1>2, <1>6, <2>1 DEF TasksOK, OneEach
<1> QED BY <1>1, <1>2, <1>5, <1>7, StoreStays, SavingStays, BudgetStays, GhostsStay, PartsNext
        DEF store, saving, ghosts, GhostsOK

LEMMA DeleteEntryTyped ==
    ASSUME HInv, NEW t \in tasks, DeleteEntry(t)
    PROVE  HInv'
<1> DEFINE c == Head(t.todo)
<1>1. SessionsOK /\ TasksOK /\ StoreOK /\ SavingOK /\ BudgetOK /\ GhostsOK
  BY Parts
<1>2. /\ t.pc = "delete" /\ owed' \subseteq owed
      /\ entries' = Ranked(retain(entries, DOMAIN entries \ Places(c, entries)))
      /\ \/ tasks' = tasks \ {t} /\ UNCHANGED dirty
         \/ Becomes(t, "request", <<>>) /\ dirty' = TRUE
      /\ UNCHANGED <<sessions, submissions, shell, disk, saving, budget, allowed>>
  BY DEF DeleteEntry
<1>3. entries' \in History
  BY <1>1, <1>2, DeletedIs DEF StoreOK
<1>4. StoreOK'
  BY <1>1, <1>2, <1>3 DEF StoreOK
<1>5. Steady
  BY <1>2 DEF Steady
<1>6. TasksOK'
  <2>1. CASE tasks' = tasks \ {t}
    BY <1>1, <1>5, <2>1, EndKeeps
  <2>2. CASE Becomes(t, "request", <<>>)
    <3> DEFINE none == <<>>
    <3>1. none \in Seq(Command) /\ Becomes(t, "request", none)
      BY <2>2, EmptySeq
    <3>2. PICK u \in Tasks : /\ u.op = t.op /\ u.io = t.io /\ u.pc = "request" /\ u.todo = none
                             /\ tasks' = (tasks \ {t}) \cup {u}
      <4> HIDE DEF none
      <4> QED BY <1>1, <3>1, BecomesIs
    <3>3. TaskOK(t) /\ t.op = "delete"
      BY <1>1, <1>2 DEF TasksOK, TaskOK
    <3>4. TaskOK(u)'
      BY <3>2, <3>3 DEF TaskOK
    <3> QED BY <1>1, <1>5, <3>2, <3>4, BecomesKeeps
  <2> QED BY <1>2, <2>1, <2>2
<1> QED BY <1>1, <1>2, <1>4, <1>6, SessionsStay, SavingStays, BudgetStays, GhostsStay, PartsNext
        DEF saving, GhostsOK

(* What a deletion leaves of a session's state.                             *)
Purged(state, c) ==
    [state EXCEPT !.candidates = retain(@, {i \in DOMAIN @ : @[i] # c}),
                  !.last = IF @ = c THEN None ELSE @]

LEMMA PurgedIs ==
    ASSUME NEW v \in SubmissionStates, NEW c
    PROVE  /\ Purged(v, c) \in SubmissionStates
           /\ Purged(v, c).awaits = v.awaits /\ Purged(v, c).degraded = v.degraded
           /\ Purged(v, c).last = IF v.last = c THEN None ELSE v.last
           /\ ToSet(v.candidates) \subseteq ToSet(Purged(v, c).candidates) \cup {c}
           /\ Purged(v, c).candidates \in Seq(Command)
           /\ Count(c, Purged(v, c).candidates) = 0
           /\ \A d \in Command : Count(d, Purged(v, c).candidates) <= Count(d, v.candidates)
<1> DEFINE q == v.candidates
           I == {i \in DOMAIN q : q[i] # c}
           r == retain(q, I)
<1>1. q \in Seq(Command) /\ Len(q) <= MaxPending /\ Len(q) \in Nat
  BY LenProperties DEF SubmissionStates
<1>2. /\ r \in Seq(Command) /\ Len(r) <= Len(q) /\ ToSet(r) = {q[i] : i \in I}
      /\ c \notin {q[i] : i \in I} => Count(c, r) = 0
      /\ \A d \in Command : Count(d, r) <= Count(d, q)
  BY <1>1, Retained
<1>3. ToSet(q) \subseteq ToSet(r) \cup {c} /\ Count(c, r) = 0
  BY <1>2 DEF ToSet
<1>4. Len(r) \in Nat /\ Len(r) <= MaxPending
  <2> HIDE DEF r, q
  <2>1. Len(r) \in Nat
    BY <1>2, LenProperties
  <2> QED BY <1>1, <1>2, <2>1, Consts
<1>5. Purged(v, c) = [v EXCEPT !.candidates = r, !.last = IF @ = c THEN None ELSE @]
  BY DEF Purged
<1> HIDE DEF r
<1>6. /\ Purged(v, c) \in SubmissionStates /\ Purged(v, c).candidates = r
      /\ Purged(v, c).awaits = v.awaits /\ Purged(v, c).degraded = v.degraded
      /\ Purged(v, c).last = IF v.last = c THEN None ELSE v.last
  BY <1>2, <1>4, <1>5 DEF SubmissionStates
<1> QED BY <1>2, <1>3, <1>6

LEMMA DeleteTyped ==
    ASSUME HInv, NEW c \in Command, delete_history_command(c)
    PROVE  HInv'
<1>1. SessionsOK /\ TasksOK /\ StoreOK /\ SavingOK /\ BudgetOK /\ GhostsOK
  BY Parts
<1>2. /\ Happens /\ Start("delete", None, "delete", <<c>>)
      /\ UNCHANGED <<sessions, shell, store, disk, saving>>
  BY DEF delete_history_command
<1>3. submissions' = [s \in Session |->
          IF submissions[s] = None THEN None ELSE Purged(submissions[s], c)]
  BY DEF delete_history_command, Purged
<1>4. ASSUME NEW s \in Session
      PROVE  /\ submissions[s] = None => submissions'[s] = None
             /\ submissions[s] # None =>
                   /\ submissions[s] \in SubmissionStates
                   /\ submissions'[s] \in SubmissionStates
                   /\ submissions'[s].awaits = submissions[s].awaits
                   /\ submissions'[s].degraded = submissions[s].degraded
  BY <1>1, <1>3, PurgedIs DEF SessionsOK
<1>5. submissions' \in [Session -> SubmissionStates \cup {None}]
  BY <1>3, <1>4
<1>6. SessionsOK' /\ Steady
  BY <1>1, <1>2, <1>4, <1>5, Consts DEF SessionsOK, SessionOK, Steady
<1> DEFINE one == <<c>>
<1>7. one \in Seq(Command) /\ one # <<>> /\ Start("delete", None, "delete", one)
  BY <1>2
<1>8. PICK t \in Tasks : /\ t.op = "delete" /\ t.io = None /\ t.pc = "delete" /\ t.todo = one
                         /\ tasks' = tasks \cup {t}
  <2> DEFINE d == [id |-> Free, op |-> "delete", io |-> None, pc |-> "delete", todo |-> one]
  <2>1. Free \in Nat \ {0}
    BY <1>1, FreeIs DEF TasksOK
  <2>2. tasks' = tasks \cup {d}
    BY <1>7 DEF Start
  <2> HIDE DEF one
  <2>3. d \in Tasks /\ d.op = "delete" /\ d.io = None /\ d.pc = "delete" /\ d.todo = one
    BY <1>7, <2>1 DEF Tasks
  <2> HIDE DEF d
  <2> QED BY <2>2, <2>3
<1>9. TaskOK(t)'
  BY <1>7, <1>8 DEF TaskOK
<1>10. TasksOK'
  BY <1>1, <1>6, <1>8, <1>9, StartKeeps, Consts
<1>11. GhostsOK'
  <2> DEFINE L == {s \in Session : submissions[s] # None /\ submissions[s].last = c}
  <2>1. /\ owed' = owed \ {c}
        /\ allowed' = [allowed EXCEPT ![c] = @ + Cardinality(L)]
    BY DEF delete_history_command
  <2>2. Cardinality(L) \in Nat
    BY Consts, FS_Subset, FS_CardinalityType
  <2> HIDE DEF L
  <2> QED BY <1>1, <2>1, <2>2 DEF GhostsOK
<1> QED BY <1>1, <1>2, <1>6, <1>10, <1>11, StoreStays, SavingStays, BudgetStays, PartsNext
        DEF store, saving

LEMMA TaskTyped ==
    ASSUME HInv, NEW t \in tasks, TaskStep(t)
    PROVE  HInv'
BY AddEntryTyped, RequestTyped, FlushTyped, DropTyped, DeleteEntryTyped DEF TaskStep

(* list[n] is the history with the first n commands of todo added.          *)
Adds(todo, k, f) ==
    f = [n \in 0 .. k |-> IF n = 0 THEN entries ELSE add(f[n - 1], todo[n])]

LEMMA AddsExist ==
    ASSUME NEW todo, NEW m \in Nat
    PROVE  \E f : Adds(todo, m, f)
<1> DEFINE T == {k \in Nat : ~\E f : Adds(todo, k, f)}
<1>1. SUFFICES T = {}
  OBVIOUS
<1>2. SUFFICES ASSUME T # {} PROVE FALSE
  OBVIOUS
<1>3. PICK k \in T : \A j \in T : k <= j
  <2>1. T \in SUBSET Nat
    OBVIOUS
  <2> HIDE DEF T
  <2> QED BY <1>2, <2>1, LeastNatural
<1>4. k \in Nat /\ ~\E f : Adds(todo, k, f)
  OBVIOUS
<1>5. CASE k = 0
  <2> DEFINE f == [n \in 0 .. 0 |-> entries]
  <2>1. f = [n \in 0 .. 0 |-> IF n = 0 THEN entries ELSE add(f[n - 1], todo[n])]
    <3>1. \A n \in 0 .. 0 : n = 0
      OBVIOUS
    <3> QED BY <3>1
  <2> QED BY <1>4, <1>5, <2>1 DEF Adds
<1>6. CASE k # 0
  <2>1. k - 1 \in Nat /\ ~(k <= k - 1)
    BY <1>4, <1>6
  <2>2. PICK f : Adds(todo, k - 1, f)
    BY <1>3, <2>1
  <2> DEFINE g == [n \in 0 .. k |-> IF n = 0 THEN entries ELSE add(f[n - 1], todo[n])]
  <2>3. \A n \in 0 .. k - 1 : f[n] = IF n = 0 THEN entries ELSE add(f[n - 1], todo[n])
    BY <2>2 DEF Adds
  <2>4. \A n \in 0 .. k - 1 : n \in 0 .. k
    BY <1>4
  <2>5. \A n \in 0 .. k - 1 : g[n] = f[n]
    BY <2>3, <2>4
  <2>6. \A n \in 0 .. k : n # 0 => n - 1 \in 0 .. k - 1
    BY <1>4
  <2>7. \A n \in 0 .. k : n # 0 => f[n - 1] = g[n - 1]
    BY <2>5, <2>6
  <2>8. g = [n \in 0 .. k |-> IF n = 0 THEN entries ELSE add(g[n - 1], todo[n])]
    BY <2>7
  <2> HIDE DEF g
  <2> QED BY <1>4, <2>8 DEF Adds
<1> QED BY <1>5, <1>6

(* The commands of the shutdown are added one after the other.              *)
LEMMA ShutdownAddIs ==
    ASSUME StoreOK, main.todo \in Seq(Command), ShutdownAdd
    PROVE  \E f : /\ f[0] = entries
                  /\ \A n \in 1 .. Len(main.todo) : f[n] = add(f[n - 1], main.todo[n])
                  /\ \A n \in 0 .. Len(main.todo) : f[n] \in History
                  /\ entries' = f[Len(main.todo)]
                  /\ owed' = owed \ ((UNION {Commands(f[n]) : n \in 0 .. Len(main.todo)})
                                     \ Commands(entries'))
<1> DEFINE todo == main.todo
           k == Len(todo)
           f == CHOOSE f : Adds(todo, k, f)
<1>1. k \in Nat /\ \A n \in 1 .. k : todo[n] \in Command
  BY LenProperties, ElementOfSeq
<1>2. Adds(todo, k, f)
  BY <1>1, AddsExist
<1>3. entries' = f[k] /\ owed' = owed \ ((UNION {Commands(f[n]) : n \in DOMAIN f}) \ Commands(entries'))
  BY DEF ShutdownAdd, Adds, Forget
<1> HIDE DEF f, k
<1>4. /\ DOMAIN f = 0 .. k
      /\ \A n \in 0 .. k : f[n] = IF n = 0 THEN entries ELSE add(f[n - 1], todo[n])
  BY <1>2 DEF Adds
<1>5. f[0] = entries /\ \A n \in 1 .. k : f[n] = add(f[n - 1], todo[n])
  <2>1. 0 \in 0 .. k /\ \A n \in 1 .. k : n \in 0 .. k /\ n # 0
    BY <1>1
  <2> QED BY <1>4, <2>1
<1> DEFINE T == {n \in 0 .. k : f[n] \notin History}
<1>6. T = {}
  <2> SUFFICES ASSUME T # {} PROVE FALSE
    OBVIOUS
  <2>1. PICK n \in T : \A i \in T : n <= i
    <3>1. T \in SUBSET Nat
      BY <1>1
    <3> HIDE DEF T
    <3> QED BY <3>1, LeastNatural
  <2>2. n \in 0 .. k /\ f[n] \notin History
    OBVIOUS
  <2>3. n # 0
    BY <1>5, <2>2 DEF StoreOK
  <2>4. n \in 1 .. k /\ n - 1 \in 0 .. k /\ ~(n <= n - 1)
    BY <1>1, <2>2, <2>3
  <2>5. f[n - 1] \in History
    BY <2>1, <2>4
  <2> QED BY <1>1, <1>5, <2>2, <2>4, <2>5, AddIs
<1>7. \A n \in 0 .. k : f[n] \in History
  BY <1>6
<1> QED BY <1>3, <1>4, <1>5, <1>7 DEF k

(* What the shutdown takes is everything that was pending.                  *)
LEMMA ShutdownTakeIs ==
    ASSUME SessionsOK, SavingOK, ShutdownTake
    PROVE  \E q \in Seq(Command) :
              /\ main' = [main EXCEPT !.pc = "add", !.todo = q]
              /\ \A s \in Session : ToSet(Candidates(s)) \subseteq ToSet(q)
<1>1. PICK order \in SetToSeqs(Session) :
         main' = [main EXCEPT !.pc = "add",
                     !.todo = FlattenSeq([i \in DOMAIN order |-> Candidates(order[i])])]
  BY DEF ShutdownTake
<1> DEFINE n == Cardinality(Session)
           p == [i \in DOMAIN order |-> Candidates(order[i])]
<1>2. n \in Nat /\ order \in Injection(1 .. n, Session) /\ DOMAIN order = 1 .. n
  BY Consts, FS_CardinalityType DEF SetToSeqs, Injection, IsInjective
<1>3. order \in Surjection(1 .. n, Session)
  <2>1. IsFiniteSet(1 .. n) /\ Cardinality(1 .. n) = IF 1 > n THEN 0 ELSE n - 1 + 1
    BY <1>2, FS_Interval
  <2>2. Cardinality(1 .. n) = n
    BY <1>2, <2>1
  <2> QED BY <1>2, <2>2, Consts, FS_Injection
<1>4. \A s \in Session : Candidates(s) \in Seq(Command)
  BY EmptySeq DEF Candidates, SessionsOK, SubmissionStates
<1>5. p \in [1 .. n -> Seq(Command)]
  BY <1>2, <1>4 DEF Injection
<1>6. p \in Seq(Seq(Command)) /\ DOMAIN p = 1 .. n
  BY <1>2, <1>5
<1> DEFINE q == FlattenSeq(p)
<1>7. q \in Seq(Command) /\ \A i \in 1 .. n : ToSet(p[i]) \subseteq ToSet(q)
  <2> HIDE DEF p
  <2> QED BY <1>6, Flattened
<1>8. \A s \in Session : ToSet(Candidates(s)) \subseteq ToSet(q)
  <2> SUFFICES ASSUME NEW s \in Session PROVE ToSet(Candidates(s)) \subseteq ToSet(q)
    OBVIOUS
  <2>1. PICK i \in 1 .. n : order[i] = s
    BY <1>3 DEF Surjection
  <2>2. p[i] = Candidates(s)
    BY <1>2, <2>1
  <2> HIDE DEF p, q
  <2> QED BY <1>7, <2>2
<1>9. main' = [main EXCEPT !.pc = "add", !.todo = q]
  BY <1>1
<1> HIDE DEF q
<1> QED BY <1>7, <1>8, <1>9

LEMMA EmptyHistory == <<>> \in History
BY Consts, EmptySeq DEF History

LEMMA SnapshotStored ==
    ASSUME NEW q \in History
    PROVE  ToSet(q) \subseteq Entries /\ IsFiniteSet(ToSet(q))
<1>1. q \in Seq(Entries) /\ Len(q) \in Nat /\ DOMAIN q = 1 .. Len(q)
  BY LenProperties DEF History
<1>2. IsFiniteSet(DOMAIN q)
  BY <1>1, FS_Interval
<1>3. q \in Surjection(DOMAIN q, ToSet(q))
  BY <1>1 DEF Surjection, ToSet
<1>4. IsFiniteSet(ToSet(q))
  BY <1>2, <1>3, FS_Surjection
<1>5. ToSet(q) \subseteq Entries
  BY <1>1, ElementOfSeq DEF ToSet
<1> QED BY <1>4, <1>5

LEMMA WriteKeeps ==
    ASSUME StoreOK, BudgetOK, NEW q \in History, NEW ok \in BOOLEAN, Write(q, ok),
           UNCHANGED <<entries, dirty>>
    PROVE  StoreOK' /\ BudgetOK'
<1>1. CASE disk' = ToSet(q) /\ UNCHANGED budget
  BY <1>1, SnapshotStored, BudgetStays DEF StoreOK
<1>2. CASE Happens /\ UNCHANGED disk
  BY <1>2, BudgetStays DEF StoreOK
<1> QED BY <1>1, <1>2 DEF Write

LEMMA WorkerTyped ==
    ASSUME HInv, Debounce \/ PrepareSave \/ WriteSnapshot \/ CheckDirty
    PROVE  HInv'
<1>1. SessionsOK /\ TasksOK /\ StoreOK /\ SavingOK /\ BudgetOK /\ GhostsOK
  BY Parts
<1>2. UNCHANGED <<manager, ghosts, main>>
  BY DEF Debounce, PrepareSave, WriteSnapshot, CheckDirty
<1>3. SessionsOK' /\ TasksOK' /\ GhostsOK'
  BY <1>1, <1>2, SessionsStay, TasksStay, GhostsStay DEF manager, ghosts, GhostsOK
<1>4. CASE Debounce
  <2>1. SavingOK'
    BY <1>1, <1>4 DEF Debounce, WorkerAt, SavingOK
  <2> QED BY <1>1, <1>3, <1>4, <2>1, StoreStays, BudgetStays, PartsNext DEF Debounce, store
<1>5. CASE PrepareSave
  <2>1. SavingOK'
    BY <1>1, <1>5 DEF PrepareSave, SavingOK, StoreOK
  <2>2. StoreOK' /\ UNCHANGED budget
    BY <1>1, <1>5 DEF PrepareSave, StoreOK
  <2> QED BY <1>1, <1>3, <2>1, <2>2, BudgetStays, PartsNext
<1>6. CASE WriteSnapshot
  <2>1. SavingOK'
    BY <1>1, <1>6, EmptyHistory DEF WriteSnapshot, SavingOK
  <2>2. PICK ok \in BOOLEAN : Write(worker.snapshot, ok)
    BY <1>6 DEF WriteSnapshot
  <2>3. worker.snapshot \in History /\ UNCHANGED <<entries, dirty>>
    BY <1>1, <1>6 DEF SavingOK, WriteSnapshot, store
  <2>4. StoreOK' /\ BudgetOK'
    BY <1>1, <2>2, <2>3, WriteKeeps
  <2> QED BY <1>3, <2>1, <2>4, PartsNext
<1>7. CASE CheckDirty
  <2>1. SavingOK'
    BY <1>1, <1>7 DEF CheckDirty, WorkerAt, SavingOK
  <2> QED BY <1>1, <1>3, <1>7, <2>1, StoreStays, BudgetStays, PartsNext DEF CheckDirty, store
<1> QED BY <1>4, <1>5, <1>6, <1>7

LEMMA TakeTyped ==
    ASSUME HInv, ShutdownTake
    PROVE  HInv'
<1>1. SessionsOK /\ TasksOK /\ StoreOK /\ SavingOK /\ BudgetOK /\ GhostsOK
  BY Parts
<1>2. /\ Happens /\ allowed' = [c \in Command |-> allowed[c] + Count(c, main'.todo)]
      /\ submissions' = [s \in Session |->
            IF submissions[s] = None THEN None ELSE [submissions[s] EXCEPT !.candidates = <<>>]]
      /\ UNCHANGED <<sessions, shell, tasks, store, disk, permit, worker, owed>>
  BY DEF ShutdownTake
<1>3. PICK q \in Seq(Command) : main' = [main EXCEPT !.pc = "add", !.todo = q]
  BY <1>1, ShutdownTakeIs
<1>4. SavingOK' /\ main'.todo = q
  BY <1>1, <1>2, <1>3 DEF SavingOK
<1>5. GhostsOK'
  <2>1. \A c \in Command : Count(c, q) \in Nat
    BY CountType
  <2> QED BY <1>1, <1>2, <1>4, <2>1 DEF GhostsOK
<1>6. ASSUME NEW s \in Session
      PROVE  /\ submissions[s] = None => submissions'[s] = None
             /\ submissions[s] # None =>
                   /\ submissions'[s] \in SubmissionStates
                   /\ submissions'[s].awaits = submissions[s].awaits
                   /\ submissions'[s].degraded = submissions[s].degraded
  <2>1. <<>> \in {x \in Seq(Command) : Len(x) <= MaxPending}
    BY Consts, EmptySeq
  <2>2. submissions[s] # None => submissions[s] \in SubmissionStates
    BY <1>1 DEF SessionsOK
  <2> QED BY <1>2, <2>1, <2>2 DEF SubmissionStates
<1>7. submissions' \in [Session -> SubmissionStates \cup {None}]
  BY <1>2, <1>6
<1>8. SessionsOK' /\ Steady
  BY <1>1, <1>2, <1>6, <1>7, Consts DEF SessionsOK, SessionOK, Steady
<1>9. TasksOK'
  BY <1>1, <1>2, <1>8, TaskOKStays DEF TasksOK, OneEach
<1> QED BY <1>1, <1>2, <1>4, <1>5, <1>8, <1>9, StoreStays, BudgetStays, PartsNext DEF store

LEMMA ShutdownTyped ==
    ASSUME HInv, ShutdownAdd \/ ShutdownSave \/ ShutdownWrite
    PROVE  HInv'
<1>1. SessionsOK /\ TasksOK /\ StoreOK /\ SavingOK /\ BudgetOK /\ GhostsOK
  BY Parts
<1>2. UNCHANGED <<manager, permit, worker, allowed>>
  BY DEF ShutdownAdd, ShutdownSave, ShutdownWrite, ghosts
<1>3. SessionsOK' /\ TasksOK'
  BY <1>1, <1>2, SessionsStay, TasksStay DEF manager
<1>4. CASE ShutdownAdd
  <2>1. main.todo \in Seq(Command) /\ Len(main.todo) \in Nat
    BY <1>1, LenProperties DEF SavingOK
  <2>2. PICK f : /\ \A n \in 0 .. Len(main.todo) : f[n] \in History
                 /\ entries' = f[Len(main.todo)]
                 /\ owed' = owed \ ((UNION {Commands(f[n]) : n \in 0 .. Len(main.todo)})
                                     \ Commands(entries'))
    BY <1>1, <1>4, <2>1, ShutdownAddIs
  <2>3. entries' \in History
    BY <2>1, <2>2
  <2>4. /\ dirty' \in BOOLEAN /\ main' = [main EXCEPT !.pc = "save", !.todo = <<>>]
        /\ UNCHANGED <<disk, budget>>
    BY <1>4 DEF ShutdownAdd
  <2>5. StoreOK'
    BY <1>1, <2>3, <2>4 DEF StoreOK
  <2>6. SavingOK'
    BY <1>1, <1>2, <2>4, EmptySeq DEF SavingOK
  <2>7. GhostsOK'
    BY <1>1, <1>2, <2>2 DEF GhostsOK
  <2> QED BY <1>1, <1>3, <2>4, <2>5, <2>6, <2>7, BudgetStays, PartsNext
<1>5. CASE ShutdownSave
  <2>1. SavingOK'
    BY <1>1, <1>5 DEF ShutdownSave, SavingOK, StoreOK
  <2>2. StoreOK' /\ UNCHANGED <<budget, owed>>
    BY <1>1, <1>5 DEF ShutdownSave, StoreOK, ghosts
  <2> QED BY <1>1, <1>2, <1>3, <2>1, <2>2, BudgetStays, GhostsStay, PartsNext DEF GhostsOK
<1>6. CASE ShutdownWrite
  <2>1. PICK ok \in BOOLEAN :
           /\ Write(main.snapshot, ok)
           /\ main' = [main EXCEPT !.pc = IF ok THEN "save" ELSE "done", !.snapshot = <<>>]
    BY <1>6 DEF ShutdownWrite
  <2>2. main.snapshot \in History /\ UNCHANGED <<entries, dirty, owed>>
    BY <1>1, <1>6 DEF SavingOK, ShutdownWrite, store, ghosts
  <2>3. StoreOK' /\ BudgetOK'
    BY <1>1, <2>1, <2>2, WriteKeeps
  <2>4. SavingOK'
    <3>1. main.pc = "write" /\ main.todo = <<>>
      BY <1>1, <1>6 DEF ShutdownWrite, SavingOK
    <3> QED BY <1>1, <1>2, <2>1, <3>1, EmptyHistory DEF SavingOK
  <2> QED BY <1>1, <1>2, <1>3, <2>2, <2>3, <2>4, GhostsStay, PartsNext DEF GhostsOK
<1> QED BY <1>4, <1>5, <1>6

LEMMA ReloadTyped ==
    ASSUME HInv, reload_history_from_storage
    PROVE  HInv'
<1>1. SessionsOK /\ TasksOK /\ StoreOK /\ SavingOK /\ BudgetOK /\ GhostsOK
  BY Parts
<1>2. /\ Happens /\ entries' = load.entries /\ dirty' = load.dirty /\ owed' \subseteq owed
      /\ UNCHANGED <<manager, disk, saving, allowed>>
  BY DEF reload_history_from_storage, Forget
<1>3. load.entries \in History /\ load.dirty \in BOOLEAN
  BY <1>1, StoredIs DEF load, StoreOK
<1>4. StoreOK'
  BY <1>1, <1>2, <1>3 DEF StoreOK
<1> QED BY <1>1, <1>2, <1>4, SessionsStay, TasksStay, SavingStays, BudgetStays, GhostsStay, PartsNext
        DEF manager, saving, GhostsOK

LEMMA RestartTyped ==
    ASSUME HInv, Restart
    PROVE  HInv'
<1>1. SessionsOK /\ TasksOK /\ StoreOK /\ SavingOK /\ BudgetOK /\ GhostsOK
  BY Parts
<1>2. SessionsOK'
  <2>1. /\ sessions' = [s \in Session |-> IF sessions[s] = "new" THEN "new" ELSE "closed"]
        /\ submissions' = [s \in Session |-> None]
        /\ shell' = [s \in Session |-> [running |-> <<>>, reported |-> None]]
    BY DEF Restart
  <2>2. <<>> \in Seq(Command)
    BY EmptySeq
  <2> QED BY <2>1, <2>2 DEF SessionsOK, SessionOK
<1>3. TasksOK'
  <2>1. tasks' = {}
    BY DEF Restart
  <2> QED BY <2>1, FS_EmptySet DEF TasksOK, OneEach
<1>4. StoreOK'
  BY <1>1, StoredIs DEF Restart, StoreOK
<1>5. SavingOK'
  BY EmptyHistory, EmptySeq DEF Restart, SavingOK, Idle
<1>6. BudgetOK' /\ GhostsOK'
  BY <1>1, BudgetStays DEF Restart, GhostsOK
<1> QED BY <1>2, <1>3, <1>4, <1>5, <1>6, PartsNext

LEMMA InitTyped ==
    ASSUME Init
    PROVE  HInv
<1>1. SessionsOK
  <2>1. <<>> \in Seq(Command)
    BY EmptySeq
  <2> QED BY <2>1 DEF Init, SessionsOK, SessionOK
<1>2. TasksOK
  BY FS_EmptySet DEF Init, TasksOK, OneEach
<1>3. StoreOK
  BY EmptyHistory, FS_EmptySet DEF Init, StoreOK
<1>4. SavingOK
  BY EmptyHistory, EmptySeq DEF Init, SavingOK, Idle
<1>5. BudgetOK /\ GhostsOK
  BY Consts DEF Init, BudgetOK, GhostsOK
<1> QED BY <1>1, <1>2, <1>3, <1>4, <1>5, Parts

LEMMA NextTyped ==
    ASSUME HInv, [Next]_vars
    PROVE  HInv'
<1>1. ASSUME NEW s \in Session,
             \/ add_session(s) \/ Report(s) \/ remove_session(s)
             \/ \E c \in Command : register_command_submission(s, c)
      PROVE  HInv'
  BY <1>1, AddSessionTyped, ReportTyped, RemoveTyped, RegisterTyped
<1>2. CASE \E c \in Command : delete_history_command(c)
  BY <1>2, DeleteTyped
<1>3. CASE \E t \in tasks : TaskStep(t)
  BY <1>3, TaskTyped
<1>4. CASE SaveStep
  BY <1>4, WorkerTyped, TakeTyped, ShutdownTyped DEF SaveStep
<1>5. CASE reload_history_from_storage \/ Restart
  BY <1>5, ReloadTyped, RestartTyped
<1>6. CASE UNCHANGED vars
  <2>1. SessionsOK /\ TasksOK /\ StoreOK /\ SavingOK /\ BudgetOK /\ GhostsOK
    BY Parts
  <2> QED BY <1>6, <2>1, SessionsStay, TasksStay, StoreStays, SavingStays, BudgetStays, GhostsStay,
             PartsNext DEF vars, manager, store, saving, ghosts, GhostsOK
<1> QED BY <1>1, <1>2, <1>3, <1>4, <1>5, <1>6 DEF Next

(* The shapes of sessions and tasks hold always.                            *)
LEMMA HistoryShapes == Spec => []HInv
<1>1. Init => HInv
  BY InitTyped
<1>2. HInv /\ [Next]_vars => HInv'
  BY NextTyped
<1> QED BY <1>1, <1>2, PTL DEF Spec

(* The variables keep their types, and CommandHistoryStore its limit: add,  *)
(* load, a deletion and the commands added at shutdown leave at most        *)
(* MaxHistory entries, register_command_submission at most MaxPending       *)
(* candidates.                                                              *)
THEOREM HistoryTypes == Spec => []TypeOK
<1>1. HInv => TypeOK
  BY DEF HInv
<1> QED BY <1>1, HistoryShapes, PTL

-----------------------------------------------------------------------------
(* No command is lost.                                                      *)

(* The candidates of this session will still be taken out of it.            *)
Attended(s) == sessions[s] = "open" \/ \E t \in tasks : t.pc = "flush" /\ t.io = s

InQueue(c) == \E s \in Session : Attended(s) /\ c \in ToSet(Candidates(s))
InTask(c)  == \E t \in tasks : c \in ToSet(Carried(t))
Held(c) == InQueue(c) \/ InTask(c) \/ c \in ToSet(main.todo) \/ c \in Commands(entries)

Kept == \A c \in owed : Held(c)

LEMMA Started ==
    ASSUME NEW op, NEW io, NEW pc, NEW todo, Start(op, io, pc, todo)
    PROVE  /\ tasks \subseteq tasks'
           /\ \E t \in tasks' : /\ t.op = op /\ t.io = io /\ t.pc = pc /\ t.todo = todo
                               /\ tasks' = tasks \cup {t}
<1> DEFINE t == [id |-> Free, op |-> op, io |-> io, pc |-> pc, todo |-> todo]
<1>1. t.op = op /\ t.io = io /\ t.pc = pc /\ t.todo = todo
  OBVIOUS
<1>2. tasks' = tasks \cup {t}
  BY DEF Start
<1> HIDE DEF t
<1> QED BY <1>1, <1>2

LEMMA QueueStays ==
    ASSUME NEW c, InQueue(c),
           \A s \in Session : sessions[s] = "open" =>
              sessions'[s] = "open" \/ \E t \in tasks' : t.pc = "flush" /\ t.io = s,
           \A t \in tasks : t.pc = "flush" => t \in tasks',
           \A s \in Session : Attended(s) /\ c \in ToSet(Candidates(s)) => c \in ToSet(Candidates(s)')
    PROVE  InQueue(c)'
<1>1. PICK s \in Session : Attended(s) /\ c \in ToSet(Candidates(s))
  BY DEF InQueue
<1>2. Attended(s)'
  BY <1>1 DEF Attended
<1> QED BY <1>1, <1>2 DEF InQueue

LEMMA SameQueues ==
    ASSUME UNCHANGED submissions
    PROVE  \A s : Candidates(s)' = Candidates(s)
BY DEF Candidates

LEMMA TasksHold ==
    ASSUME NEW c, tasks \subseteq tasks', InTask(c)
    PROVE  InTask(c)'
BY DEF InTask

LEMMA HeldStays ==
    ASSUME NEW c, Held(c), UNCHANGED <<sessions, submissions, tasks, entries>>, main'.todo = main.todo
    PROVE  Held(c)'
<1>1. InQueue(c) => InQueue(c)'
  BY SameQueues, QueueStays
<1>2. InTask(c) => InTask(c)'
  BY TasksHold
<1> QED BY <1>1, <1>2 DEF Held

(* A task's step, unless it flushes, leaves the queues attended.            *)
LEMMA TaskHeld ==
    ASSUME HInv, NEW c, Held(c), NEW t \in tasks, t.pc # "flush",
           UNCHANGED <<sessions, submissions, main>>,
           \A u \in tasks : u # t => u \in tasks',
           c \in ToSet(Carried(t)) => Held(c)',
           c \in Commands(entries) => Held(c)'
    PROVE  Held(c)'
<1>1. InQueue(c) => InQueue(c)'
  BY SameQueues, QueueStays
<1>2. InTask(c) => InTask(c)' \/ c \in ToSet(Carried(t))
  BY DEF InTask
<1> QED BY <1>1, <1>2 DEF Held

LEMMA EmptyHolds == ToSet(<<>>) = {}
BY DEF ToSet

LEMMA AddSessionKept ==
    ASSUME HInv, Kept, NEW s \in Session, add_session(s)
    PROVE  Kept'
<1>1. SessionsOK /\ TasksOK
  BY Parts
<1>2. /\ sessions[s] = "new" /\ sessions' = [sessions EXCEPT ![s] = "open"]
      /\ UNCHANGED <<tasks, entries, main, owed>>
  BY DEF add_session, store, saving, ghosts
<1>3. ~Attended(s)
  BY <1>1, <1>2 DEF Attended, TasksOK, TaskOK
<1>4. \A x \in Session : x # s => submissions'[x] = submissions[x] /\ sessions'[x] = sessions[x]
  BY <1>1 DEF add_session, SessionsOK
<1>5. ASSUME NEW c, InQueue(c) PROVE InQueue(c)'
  <2>1. \A x \in Session : Attended(x) => Candidates(x)' = Candidates(x)
    BY <1>3, <1>4 DEF Candidates
  <2>2. \A x \in Session : sessions[x] = "open" => sessions'[x] = "open"
    BY <1>2, <1>4
  <2> QED BY <1>2, <1>5, <2>1, <2>2, QueueStays
<1>6. ASSUME NEW c, InTask(c) PROVE InTask(c)'
  BY <1>2, <1>6, TasksHold
<1> QED BY <1>2, <1>5, <1>6 DEF Kept, Held

LEMMA RegisterKept ==
    ASSUME HInv, Kept, NEW s \in Session, NEW c \in Command, register_command_submission(s, c)
    PROVE  Kept'
<1> DEFINE state == submissions[s]
           queue == Append(state.candidates, c)
<1>1. SessionsOK /\ TasksOK
  BY Parts
<1>2. /\ owed' = IF sessions[s] = "open" THEN owed \cup {c} ELSE owed
      /\ UNCHANGED <<sessions, entries, main>>
  BY DEF register_command_submission, store, saving
<1>3. SUFFICES ASSUME NEW d \in owed', d # c => Held(d), d = c => sessions[s] = "open" \/ Held(c)
               PROVE  Held(d)'
  BY <1>2 DEF Kept
<1>4. CASE Start("add", None, "add", <<c>>) /\ UNCHANGED submissions
  <2> DEFINE one == <<c>>
  <2>1. PICK t \in tasks' : t.op = "add" /\ t.todo = one
    <3>1. Start("add", None, "add", one)
      BY <1>4
    <3> HIDE DEF one
    <3> QED BY <3>1, Started
  <2>2. tasks \subseteq tasks'
    BY <1>4 DEF Start
  <2>3. c \in ToSet(<<c>>)
    BY DEF ToSet
  <2>4. InTask(c)'
    BY <2>1, <2>3 DEF InTask, Carried
  <2>5. InQueue(d) => InQueue(d)'
    BY <1>2, <1>4, <2>2, SameQueues, QueueStays
  <2>6. InTask(d) => InTask(d)'
    BY <2>2, TasksHold
  <2> QED BY <1>2, <1>3, <2>4, <2>5, <2>6 DEF Held
<1>5. ASSUME Waits(state)
      PROVE  /\ Candidates(s) = state.candidates /\ state.candidates \in Seq(Command)
             /\ ToSet(queue) = ToSet(state.candidates) \cup {c}
  <2>1. state \in SubmissionStates /\ Candidates(s) = state.candidates
    BY <1>1, <1>5 DEF Waits, SessionsOK, Candidates
  <2>2. state.candidates \in Seq(Command)
    BY <2>1 DEF SubmissionStates
  <2>3. ToSet(queue) = ToSet(state.candidates) \cup {c}
    <3> DEFINE q == state.candidates
               r == Append(q, c)
    <3>1. /\ Len(q) \in Nat /\ DOMAIN q = 1 .. Len(q) /\ DOMAIN r = 1 .. Len(q) + 1
          /\ r[Len(q) + 1] = c /\ \A i \in 1 .. Len(q) : r[i] = q[i]
      BY <2>2
    <3>2. 1 .. Len(q) + 1 = (1 .. Len(q)) \cup {Len(q) + 1}
      BY <3>1
    <3> HIDE DEF q, r
    <3>3. ToSet(r) = ToSet(q) \cup {c}
      BY <3>1, <3>2 DEF ToSet
    <3> QED BY <3>3 DEF q, r
  <2> QED BY <2>1, <2>2, <2>3
<1>6. CASE /\ Waits(state) /\ Len(queue) <= MaxPending
           /\ submissions' = [submissions EXCEPT ![s].candidates = queue]
           /\ UNCHANGED tasks
  <2>1. submissions'[s].candidates = queue /\ submissions'[s] # None
    <3> DEFINE v == [state EXCEPT !.candidates = queue]
    <3>1. state \in SubmissionStates
      BY <1>1, <1>6 DEF Waits, SessionsOK
    <3>2. submissions'[s] = v
      BY <1>1, <1>6 DEF SessionsOK
    <3>3. queue \in Seq(Command)
      BY <1>5, <1>6
    <3> HIDE DEF queue
    <3>4. v.candidates = queue /\ v \in SubmissionStates
      BY <1>6, <3>1, <3>3 DEF SubmissionStates
    <3> HIDE DEF v
    <3> QED BY <3>2, <3>4, Consts
  <2>2. Candidates(s)' = queue
    BY <2>1 DEF Candidates
  <2>3. \A x \in Session : x # s => Candidates(x)' = Candidates(x)
    BY <1>1, <1>6 DEF Candidates, SessionsOK
  <2>4. \A x \in Session : ToSet(Candidates(x)) \subseteq ToSet(Candidates(x)')
    BY <1>5, <1>6, <2>2, <2>3
  <2>5. InQueue(d) => InQueue(d)'
    BY <1>2, <1>6, <2>4, QueueStays
  <2>6. sessions[s] = "open" => InQueue(c)'
    BY <1>2, <1>5, <1>6, <2>2 DEF InQueue, Attended
  <2>7. InTask(d) => InTask(d)'
    BY <1>6, TasksHold
  <2> QED BY <1>2, <1>3, <2>5, <2>6, <2>7 DEF Held
<1>7. CASE /\ Waits(state)
           /\ submissions' = [submissions EXCEPT
                                ![s] = [SubmissionState(FALSE) EXCEPT !.degraded = TRUE]]
           /\ Start("add", None, "add", queue)
  <2>1. PICK t \in tasks' : t.op = "add" /\ t.todo = queue
    <3> HIDE DEF queue
    <3> QED BY <1>7, Started
  <2>2. tasks \subseteq tasks'
    BY <1>7 DEF Start
  <2>3. \A x \in ToSet(queue) : InTask(x)'
    BY <2>1 DEF InTask, Carried
  <2>4. c \in ToSet(queue) /\ ToSet(Candidates(s)) \subseteq ToSet(queue)
    BY <1>5, <1>7
  <2> HIDE DEF queue
  <2>5. InTask(d) => InTask(d)'
    BY <2>2, TasksHold
  <2>6. \A x \in Session : x # s => Candidates(x)' = Candidates(x)
    BY <1>1, <1>7 DEF Candidates, SessionsOK
  <2>7. InQueue(d) /\ d \notin ToSet(queue) => InQueue(d)'
    <3> SUFFICES ASSUME InQueue(d), d \notin ToSet(queue) PROVE InQueue(d)'
      OBVIOUS
    <3>1. \A x \in Session : d \in ToSet(Candidates(x)) => x # s
      BY <2>4
    <3>2. \A x \in Session : d \in ToSet(Candidates(x)) => d \in ToSet(Candidates(x)')
      BY <2>6, <3>1
    <3> QED BY <1>2, <2>2, <3>2, QueueStays
  <2> QED BY <1>2, <1>3, <2>3, <2>4, <2>5, <2>7 DEF Held
<1> QED BY <1>4, <1>6, <1>7 DEF register_command_submission

LEMMA StateHeld ==
    ASSUME SessionsOK, NEW s \in Session, NEW v \in SubmissionStates,
           submissions' = [submissions EXCEPT ![s] = v]
    PROVE  /\ Candidates(s)' = v.candidates
           /\ \A x \in Session : x # s => Candidates(x)' = Candidates(x)
BY Consts DEF SessionsOK, Candidates

LEMMA ReportKept ==
    ASSUME HInv, Kept, NEW s \in Session, Report(s)
    PROVE  Kept'
<1>1. SessionsOK /\ TasksOK
  BY Parts
<1>2. sessions[s] = "open" /\ Loop(s) /\ UNCHANGED <<sessions, entries, main, owed>>
  BY DEF Report, store, saving, ghosts
<1>3. PICK c \in Command : confirm_command_submission(s, c)
  BY <1>1, ReportIs
<1>4. CASE UNCHANGED <<submissions, tasks>>
  BY <1>2, <1>4, HeldStays DEF Kept
<1>5. ASSUME NEW v \in SubmissionStates,
             v.candidates = RemoveFirst(submissions[s].candidates, c),
             submissions' = [submissions EXCEPT ![s] = v], Start("add", s, "add", <<c>>)
      PROVE  Kept'
  <2> DEFINE one == <<c>>
  <2>1. PICK t \in tasks' : t.op = "add" /\ t.todo = one
    <3>1. Start("add", s, "add", one)
      BY <1>5
    <3> HIDE DEF one
    <3> QED BY <3>1, Started
  <2>2. tasks \subseteq tasks'
    BY <1>5 DEF Start
  <2>3. InTask(c)'
    <3>1. c \in ToSet(one)
      BY DEF ToSet
    <3> QED BY <2>1, <3>1 DEF InTask, Carried
  <2>4. Candidates(s)' = v.candidates /\ \A x \in Session : x # s => Candidates(x)' = Candidates(x)
    BY <1>1, <1>5, StateHeld
  <2>5. ToSet(Candidates(s)) \subseteq ToSet(v.candidates) \cup {c}
    <3>1. submissions[s] \in SubmissionStates /\ submissions[s] # None
      BY <1>1, <1>2 DEF SessionsOK, SessionOK
    <3>2. submissions[s].candidates \in Seq(Command) /\ Candidates(s) = submissions[s].candidates
      BY <3>1 DEF SubmissionStates, Candidates
    <3> DEFINE q == submissions[s].candidates
    <3>3. q \in Seq(Command) /\ v.candidates = RemoveFirst(q, c) /\ Candidates(s) = q
      BY <1>5, <3>2
    <3> HIDE DEF q
    <3>4. ToSet(q) \subseteq ToSet(RemoveFirst(q, c)) \cup {c}
      BY <3>3, FirstRemoved
    <3> QED BY <3>3, <3>4
  <2>6. ASSUME NEW d \in owed, d # c, InQueue(d) PROVE InQueue(d)'
    <3>1. \A x \in Session : d \in ToSet(Candidates(x)) => d \in ToSet(Candidates(x)')
      BY <2>4, <2>5, <2>6
    <3> QED BY <1>2, <2>2, <2>6, <3>1, QueueStays
  <2>7. ASSUME NEW d, InTask(d) PROVE InTask(d)'
    BY <2>2, <2>7, TasksHold
  <2> QED BY <1>2, <2>3, <2>6, <2>7 DEF Kept, Held
<1> QED BY <1>1, <1>2, <1>3, <1>4, <1>5, ConfirmIs

LEMMA RemoveKept ==
    ASSUME HInv, Kept, NEW s \in Session, remove_session(s)
    PROVE  Kept'
<1>1. SessionsOK /\ TasksOK
  BY Parts
<1>2. /\ sessions' = [sessions EXCEPT ![s] = "closed"] /\ Start("remove", s, "flush", <<>>)
      /\ UNCHANGED <<submissions, entries, main, owed>>
  BY DEF remove_session, store, saving, ghosts
<1> DEFINE none == <<>>
<1>3. PICK t \in tasks' : t.pc = "flush" /\ t.io = s
  <2>1. Start("remove", s, "flush", none)
    BY <1>2
  <2> HIDE DEF none
  <2> QED BY <2>1, Started
<1>4. tasks \subseteq tasks'
  BY <1>2 DEF Start
<1>5. \A x \in Session : sessions[x] = "open" =>
          sessions'[x] = "open" \/ \E u \in tasks' : u.pc = "flush" /\ u.io = x
  BY <1>1, <1>2, <1>3 DEF SessionsOK
<1>6. ASSUME NEW c, InQueue(c) PROVE InQueue(c)'
  BY <1>2, <1>4, <1>5, <1>6, SameQueues, QueueStays
<1>7. ASSUME NEW c, InTask(c) PROVE InTask(c)'
  BY <1>4, <1>7, TasksHold
<1> QED BY <1>2, <1>6, <1>7 DEF Kept, Held

LEMMA FlushKept ==
    ASSUME HInv, Kept, NEW t \in tasks, flush_pending_submission(t)
    PROVE  Kept'
<1>1. SessionsOK /\ TasksOK
  BY Parts
<1> DEFINE io == t.io
           q == submissions[io].candidates
<1>2. UNCHANGED <<sessions, entries, main, owed>>
  BY DEF flush_pending_submission, store, saving, ghosts
<1>3. /\ t.op = "remove" /\ t.todo = <<>> /\ io \in Session
      /\ submissions[io] \in SubmissionStates /\ Continue(t, q)
  BY <1>1, FlushIs
<1>4. PICK v \in SubmissionStates : submissions' = [submissions EXCEPT ![io] = v]
  BY <1>1, FlushIs
<1>5. q \in Seq(Command) /\ Candidates(io) = q
  BY <1>3, Consts DEF SubmissionStates, Candidates
<1>6. PICK u \in Tasks : u.op = "remove" /\ u.todo = q /\ tasks' = (tasks \ {t}) \cup {u}
  BY <1>1, <1>3, <1>5, ContinueIs
<1>7. \A d \in ToSet(q) : InTask(d)'
  BY <1>6 DEF InTask, Carried
<1>8. ASSUME NEW d, InQueue(d), d \notin ToSet(q) PROVE InQueue(d)'
  <2>1. PICK x \in Session : Attended(x) /\ d \in ToSet(Candidates(x))
    BY <1>8 DEF InQueue
  <2>2. x # io
    BY <1>5, <1>8, <2>1
  <2>3. Candidates(x)' = Candidates(x)
    BY <1>1, <1>3, <1>4, <2>2, StateHeld
  <2>4. Attended(x)'
    BY <1>2, <1>6, <2>1, <2>2 DEF Attended
  <2> QED BY <2>1, <2>3, <2>4 DEF InQueue
<1>9. ASSUME NEW d, InTask(d) PROVE InTask(d)'
  <2>1. d \notin ToSet(Carried(t))
    BY <1>3, EmptyHolds DEF Carried
  <2> QED BY <1>6, <1>9, <2>1 DEF InTask
<1> QED BY <1>2, <1>7, <1>8, <1>9 DEF Kept, Held

LEMMA DropKept ==
    ASSUME HInv, Kept, NEW t \in tasks, DropSubmissions(t)
    PROVE  Kept'
<1>1. SessionsOK /\ TasksOK
  BY Parts
<1>2. /\ t.pc = "drop" /\ submissions' = [submissions EXCEPT ![t.io] = None]
      /\ tasks' = tasks \ {t} /\ UNCHANGED <<sessions, entries, main, owed>>
  BY DEF DropSubmissions, store, saving, ghosts
<1>3. t.io \in Session /\ sessions[t.io] = "closed" /\ t.todo = <<>>
  BY <1>1, <1>2 DEF TasksOK, TaskOK
<1>4. ~Attended(t.io)
  BY <1>1, <1>2, <1>3 DEF Attended, TasksOK, OneEach
<1>5. ASSUME NEW d, InQueue(d) PROVE InQueue(d)'
  <2>1. \A x \in Session : Attended(x) => Candidates(x)' = Candidates(x)
    BY <1>1, <1>2, <1>4 DEF Candidates, SessionsOK
  <2> QED BY <1>2, <1>5, <2>1, QueueStays
<1>6. ASSUME NEW d, InTask(d) PROVE InTask(d)'
  <2>1. d \notin ToSet(Carried(t))
    BY <1>3, EmptyHolds DEF Carried
  <2> QED BY <1>2, <1>6, <2>1 DEF InTask
<1> QED BY <1>2, <1>5, <1>6 DEF Kept, Held

LEMMA DeleteKept ==
    ASSUME HInv, Kept, NEW c \in Command, delete_history_command(c)
    PROVE  Kept'
<1>1. SessionsOK /\ TasksOK
  BY Parts
<1>2. /\ Start("delete", None, "delete", <<c>>) /\ owed' = owed \ {c}
      /\ UNCHANGED <<sessions, entries, main>>
  BY DEF delete_history_command, store, saving
<1>3. submissions' = [s \in Session |->
          IF submissions[s] = None THEN None ELSE Purged(submissions[s], c)]
  BY DEF delete_history_command, Purged
<1>4. tasks \subseteq tasks'
  BY <1>2 DEF Start
<1>5. ASSUME NEW s \in Session, NEW d \in ToSet(Candidates(s)), d # c
      PROVE  d \in ToSet(Candidates(s)')
  <2>1. submissions[s] # None
    BY <1>5, EmptyHolds DEF Candidates
  <2>2. submissions[s] \in SubmissionStates /\ Candidates(s) = submissions[s].candidates
    BY <1>1, <2>1 DEF SessionsOK, Candidates
  <2>3. submissions'[s] = Purged(submissions[s], c)
    BY <1>3, <2>1
  <2>4. /\ submissions'[s] \in SubmissionStates
        /\ ToSet(Candidates(s)) \subseteq ToSet(submissions'[s].candidates) \cup {c}
    <3> DEFINE v == submissions[s]
    <3>1. v \in SubmissionStates /\ submissions'[s] = Purged(v, c) /\ Candidates(s) = v.candidates
      BY <2>2, <2>3
    <3> HIDE DEF v
    <3>2. /\ Purged(v, c) \in SubmissionStates
          /\ ToSet(v.candidates) \subseteq ToSet(Purged(v, c).candidates) \cup {c}
      BY <3>1, PurgedIs
    <3> QED BY <3>1, <3>2
  <2>5. Candidates(s)' = submissions'[s].candidates
    BY <2>4, Consts DEF Candidates
  <2> QED BY <1>5, <2>4, <2>5
<1>6. ASSUME NEW d, d # c, InQueue(d) PROVE InQueue(d)'
  BY <1>2, <1>4, <1>5, <1>6, QueueStays
<1>7. ASSUME NEW d, InTask(d) PROVE InTask(d)'
  BY <1>4, <1>7, TasksHold
<1> QED BY <1>2, <1>6, <1>7 DEF Kept, Held

LEMMA DeleteEntryKept ==
    ASSUME HInv, Kept, NEW t \in tasks, DeleteEntry(t)
    PROVE  Kept'
<1> DEFINE c == Head(t.todo)
<1>1. TasksOK /\ StoreOK
  BY Parts
<1>2. /\ t.pc = "delete" /\ owed' = owed \ {c}
      /\ entries' = Ranked(retain(entries, DOMAIN entries \ Places(c, entries)))
      /\ UNCHANGED <<sessions, submissions, main>>
  BY DEF DeleteEntry, saving
<1>3. \A u \in tasks : u # t => u \in tasks'
  BY DEF DeleteEntry, Becomes
<1>4. ToSet(Carried(t)) = {}
  BY <1>1, <1>2, EmptyHolds DEF Carried, TasksOK, TaskOK
<1>5. Commands(entries) \subseteq Commands(entries') \cup {c}
  BY <1>1, <1>2, DeletedIs DEF StoreOK
<1>6. ASSUME NEW d \in owed' PROVE Held(d)'
  <2>1. Held(d) /\ d # c
    BY <1>2 DEF Kept
  <2>2. d \in Commands(entries) => Held(d)'
    BY <1>5, <2>1 DEF Held, Commands
  <2> QED BY <1>2, <1>3, <1>4, <2>1, <2>2, TaskHeld
<1> QED BY <1>6 DEF Kept

LEMMA AddEntryKept ==
    ASSUME HInv, Kept, NEW t \in tasks, AddEntry(t)
    PROVE  Kept'
<1>1. TasksOK /\ StoreOK
  BY Parts
<1>2. /\ t.pc = "add" /\ entries' = add(entries, Head(t.todo))
      /\ Becomes(t, "request", Tail(t.todo))
      /\ owed' = owed \ (Commands(entries) \ Commands(entries'))
      /\ UNCHANGED <<sessions, submissions, main>>
  BY DEF AddEntry, Forget, saving
<1>3. t \in Tasks /\ TaskOK(t)
  BY <1>1 DEF TasksOK
<1>4. t.todo \in Seq(Command) /\ t.todo # <<>> /\ t.op # "delete"
  BY <1>2, <1>3 DEF Tasks, TaskOK
<1> DEFINE rest == Tail(t.todo)
<1>5. Head(t.todo) \in Command /\ rest \in Seq(Command)
      /\ ToSet(t.todo) \subseteq {Head(t.todo)} \cup ToSet(rest)
  BY <1>4, CountTail
<1>6. PICK u \in Tasks : /\ u.op = t.op /\ u.todo = rest /\ tasks' = (tasks \ {t}) \cup {u}
  <2>1. Becomes(t, "request", rest)
    BY <1>2
  <2> HIDE DEF rest
  <2> QED BY <1>1, <1>5, <2>1, BecomesIs
<1>7. Head(t.todo) \in Commands(entries')
  BY <1>1, <1>2, <1>5, AddIs DEF StoreOK
<1>8. ASSUME NEW d \in ToSet(Carried(t)) PROVE Held(d)'
  <2>1. d = Head(t.todo) \/ d \in ToSet(rest)
    BY <1>4, <1>5, <1>8 DEF Carried
  <2>2. CASE d = Head(t.todo)
    BY <1>7, <2>2 DEF Held, Commands
  <2>3. CASE d \in ToSet(rest)
    <3>1. InTask(d)'
      BY <1>4, <1>6, <2>3 DEF InTask, Carried
    <3> QED BY <3>1 DEF Held
  <2> QED BY <2>1, <2>2, <2>3
<1>9. ASSUME NEW d \in owed' PROVE Held(d)'
  <2>1. Held(d)
    BY <1>2 DEF Kept
  <2>2. d \in Commands(entries) => Held(d)'
    BY <1>2 DEF Held, Commands
  <2> QED BY <1>2, <1>6, <1>8, <2>1, <2>2, TaskHeld
<1> QED BY <1>9 DEF Kept

LEMMA RequestKept ==
    ASSUME HInv, Kept, NEW t \in tasks, RequestSave(t)
    PROVE  Kept'
<1>1. TasksOK
  BY Parts
<1>2. t.pc = "request" /\ Continue(t, t.todo)
      /\ UNCHANGED <<sessions, submissions, entries, main, owed>>
  BY DEF RequestSave, store, ghosts
<1>3. t.todo \in Seq(Command)
  BY <1>1 DEF TasksOK, Tasks
<1>4. ASSUME NEW d \in ToSet(Carried(t)) PROVE Held(d)'
  <2>1. t.op # "delete" /\ d \in ToSet(t.todo) /\ t.todo # <<>>
    BY <1>4, EmptyHolds DEF Carried
  <2>2. PICK u \in Tasks : u.op = t.op /\ u.todo = t.todo /\ tasks' = (tasks \ {t}) \cup {u}
    BY <1>1, <1>2, <1>3, <2>1, ContinueIs
  <2>3. InTask(d)'
    BY <2>1, <2>2 DEF InTask, Carried
  <2> QED BY <2>3 DEF Held
<1>5. \A u \in tasks : u # t => u \in tasks'
  BY <1>2 DEF Continue, Becomes
<1>6. ASSUME NEW d \in owed' PROVE Held(d)'
  <2>1. Held(d)
    BY <1>2 DEF Kept
  <2>2. d \in Commands(entries) => Held(d)'
    BY <1>2 DEF Held, Commands
  <2> QED BY <1>2, <1>4, <1>5, <2>1, <2>2, TaskHeld
<1> QED BY <1>6 DEF Kept

LEMMA SaveKept ==
    ASSUME HInv, Kept,
           \/ Debounce \/ PrepareSave \/ WriteSnapshot \/ CheckDirty
           \/ ShutdownSave \/ ShutdownWrite
    PROVE  Kept'
<1>1. UNCHANGED <<sessions, submissions, tasks, entries, owed>>
  BY DEF Debounce, PrepareSave, WriteSnapshot, CheckDirty, ShutdownSave, ShutdownWrite, manager,
         store, ghosts
<1>2. SavingOK
  BY Parts
<1>3. main'.todo = main.todo
  BY <1>2 DEF Debounce, PrepareSave, WriteSnapshot, CheckDirty, ShutdownSave, ShutdownWrite, SavingOK
<1> QED BY <1>1, <1>3, HeldStays DEF Kept

LEMMA TakeKept ==
    ASSUME HInv, Kept, ShutdownTake
    PROVE  Kept'
<1>1. SessionsOK /\ SavingOK
  BY Parts
<1>2. main.pc = "idle" /\ UNCHANGED <<tasks, entries, owed>>
  BY DEF ShutdownTake, store
<1>3. PICK q \in Seq(Command) : /\ main' = [main EXCEPT !.pc = "add", !.todo = q]
                                /\ \A s \in Session : ToSet(Candidates(s)) \subseteq ToSet(q)
  BY <1>1, ShutdownTakeIs
<1>4. main'.todo = q /\ ToSet(main.todo) = {}
  BY <1>1, <1>2, <1>3, EmptyHolds DEF SavingOK
<1>5. ASSUME NEW d, InQueue(d) PROVE d \in ToSet(main'.todo)
  BY <1>3, <1>4, <1>5 DEF InQueue
<1>6. ASSUME NEW d, InTask(d) PROVE InTask(d)'
  BY <1>2, <1>6, TasksHold
<1> QED BY <1>2, <1>4, <1>5, <1>6 DEF Kept, Held

LEMMA ShutdownAddKept ==
    ASSUME HInv, Kept, ShutdownAdd
    PROVE  Kept'
<1>1. SessionsOK /\ SavingOK /\ StoreOK
  BY Parts
<1> DEFINE k == Len(main.todo)
<1>2. main.todo \in Seq(Command) /\ k \in Nat /\ DOMAIN main.todo = 1 .. k
  BY <1>1, LenProperties DEF SavingOK
<1>3. UNCHANGED <<sessions, submissions, tasks>>
  BY DEF ShutdownAdd, manager
<1>4. PICK f : /\ f[0] = entries
               /\ \A n \in 1 .. k : f[n] = add(f[n - 1], main.todo[n])
               /\ \A n \in 0 .. k : f[n] \in History
               /\ owed' = owed \ ((UNION {Commands(f[n]) : n \in 0 .. k}) \ Commands(entries'))
  BY <1>1, <1>2, ShutdownAddIs
<1>5. ASSUME NEW d \in ToSet(main.todo) PROVE \E n \in 0 .. k : d \in Commands(f[n])
  <2>1. PICK n \in 1 .. k : main.todo[n] = d
    BY <1>2, <1>5 DEF ToSet
  <2>2. n \in 0 .. k /\ n - 1 \in 0 .. k /\ main.todo[n] \in Command
    BY <1>2, ElementOfSeq
  <2>3. d \in Commands(add(f[n - 1], d))
    BY <1>4, <2>1, <2>2, AddIs
  <2> QED BY <1>4, <2>1, <2>2, <2>3
<1>6. \A d \in Commands(entries) : \E n \in 0 .. k : d \in Commands(f[n])
  BY <1>2, <1>4
<1>7. ASSUME NEW d, InQueue(d) PROVE InQueue(d)'
  BY <1>3, <1>7, SameQueues, QueueStays
<1>8. ASSUME NEW d, InTask(d) PROVE InTask(d)'
  BY <1>3, <1>8, TasksHold
<1>9. ASSUME NEW d \in owed' PROVE Held(d)'
  <2>1. d \in owed /\ ((\E n \in 0 .. k : d \in Commands(f[n])) => d \in Commands(entries'))
    BY <1>4
  <2>2. Held(d)
    BY <2>1 DEF Kept
  <2>3. d \in ToSet(main.todo) \/ d \in Commands(entries) => d \in Commands(entries')
    BY <1>5, <1>6, <2>1
  <2> QED BY <1>7, <1>8, <2>2, <2>3 DEF Held, Commands
<1> QED BY <1>9 DEF Kept

LEMMA LoadKept ==
    ASSUME HInv, Kept, reload_history_from_storage \/ Restart
    PROVE  Kept'
<1>1. CASE reload_history_from_storage
  <2>1. /\ owed' = owed \ (Commands(entries) \ Commands(entries'))
        /\ UNCHANGED <<sessions, submissions, tasks, main>>
    BY <1>1 DEF reload_history_from_storage, Forget, manager, saving
  <2>2. ASSUME NEW d, InQueue(d) PROVE InQueue(d)'
    BY <2>1, <2>2, SameQueues, QueueStays
  <2>3. ASSUME NEW d, InTask(d) PROVE InTask(d)'
    BY <2>1, <2>3, TasksHold
  <2>4. ASSUME NEW d \in owed' PROVE Held(d)'
    BY <2>1, <2>2, <2>3 DEF Kept, Held, Commands
  <2> QED BY <2>4 DEF Kept
<1>2. CASE Restart
  <2>1. owed' = owed \cap Commands(Stored) /\ entries' = Stored
    BY <1>2 DEF Restart
  <2>2. \A d \in owed' : d \in Commands(entries)'
    BY <2>1 DEF Commands
  <2> QED BY <2>2 DEF Kept, Held
<1> QED BY <1>1, <1>2

LEMMA NextKept ==
    ASSUME HInv, Kept, [Next]_vars
    PROVE  Kept'
<1>1. ASSUME NEW s \in Session,
             \/ add_session(s) \/ Report(s) \/ remove_session(s)
             \/ \E c \in Command : register_command_submission(s, c)
      PROVE  Kept'
  BY <1>1, AddSessionKept, ReportKept, RemoveKept, RegisterKept
<1>2. CASE \E c \in Command : delete_history_command(c)
  BY <1>2, DeleteKept
<1>3. CASE \E t \in tasks : TaskStep(t)
  BY <1>3, AddEntryKept, RequestKept, FlushKept, DropKept, DeleteEntryKept DEF TaskStep
<1>4. CASE SaveStep
  BY <1>4, SaveKept, TakeKept, ShutdownAddKept DEF SaveStep
<1>5. CASE reload_history_from_storage \/ Restart
  BY <1>5, LoadKept
<1>6. CASE UNCHANGED vars
  BY <1>6, HeldStays DEF vars, manager, store, saving, ghosts, Kept
<1> QED BY <1>1, <1>2, <1>3, <1>4, <1>5, <1>6 DEF Next

(* A command submitted in an open session is in the queue of a session,     *)
(* carried by a task or by the shutdown, or in the history: through every   *)
(* interleaving of confirm_command_submission, the overflow,                *)
(* remove_session, deletions, flush_history_before_shutdown and pulls.      *)
THEOREM NoCommandIsLost == Spec => []NoCommandLost
<1>1. Init => Kept
  BY DEF Init, Kept
<1>2. HInv /\ Kept /\ [Next]_vars => Kept'
  BY NextKept
<1>3. Kept => NoCommandLost
  <2> SUFFICES ASSUME Kept, NEW c \in owed PROVE c \in Waiting \cup InHand \cup Commands(entries)
    BY DEF NoCommandLost
  <2>1. Held(c)
    BY DEF Kept
  <2>2. InQueue(c) => c \in Waiting
    BY DEF InQueue, Waiting
  <2>3. InTask(c) \/ c \in ToSet(main.todo) => c \in InHand
    BY DEF InTask, InHand
  <2> QED BY <2>1, <2>2, <2>3 DEF Held
<1> QED BY <1>1, <1>2, <1>3, HistoryShapes, PTL DEF Spec

-----------------------------------------------------------------------------
(* No submission is counted twice.                                          *)

Shells == [running : Seq(Command), reported : Command \cup {None}]

Queue(state) == IF state = None THEN <<>> ELSE state.candidates

(* The reports of c that the shell may still make and that may be counted.  *)
Expected(status, state, sh, c) ==
    IF status = "open" /\ state # None /\ ~state.degraded
    THEN Count(c, sh.running) + (IF sh.reported = c /\ state.last # c THEN 1 ELSE 0)
    ELSE 0

(* How often c may still be counted for a session: a candidate is counted   *)
(* with its report or at the end of the session, not both.                  *)
Due(status, state, sh, c) ==
    IF Count(c, Queue(state)) < Expected(status, state, sh, c)
    THEN Expected(status, state, sh, c) ELSE Count(c, Queue(state))

CarriedIn(T, c) == Sum([t \in T |-> Count(c, Carried(t))])
DueIn(ss, su, sh, c) == Sum([s \in Session |-> Due(ss[s], su[s], sh[s], c)])

Out(c) == Count(c, main.todo) + CarriedIn(tasks, c) + DueIn(sessions, submissions, shell, c)

(* The entries in the store, being written, and stored.                     *)
Copies == ToSet(entries) \cup ToSet(worker.snapshot) \cup ToSet(main.snapshot) \cup disk

Balanced(c) ==
    /\ Out(c) <= allowed[c]
    /\ \A e \in Copies : e.command = c => e.uses + Out(c) <= allowed[c]

Books == \A c \in Command : Balanced(c)

LEMMA DueIs ==
    ASSUME NEW status, NEW state \in SubmissionStates \cup {None}, NEW sh \in Shells, NEW c
    PROVE  /\ Due(status, state, sh, c) \in Nat
           /\ Queue(state) \in Seq(Command)
           /\ Count(c, Queue(state)) \in Nat /\ Expected(status, state, sh, c) \in Nat
           /\ Count(c, sh.running) \in Nat
           /\ Count(c, Queue(state)) <= Due(status, state, sh, c)
           /\ Expected(status, state, sh, c) <= Due(status, state, sh, c)
<1>1. Queue(state) \in Seq(Command) /\ sh.running \in Seq(Command)
  BY EmptySeq DEF Queue, SubmissionStates, Shells
<1>2. Count(c, Queue(state)) \in Nat /\ Count(c, sh.running) \in Nat
  BY <1>1, CountType
<1>3. Expected(status, state, sh, c) \in Nat
  BY <1>2 DEF Expected
<1> QED BY <1>1, <1>2, <1>3 DEF Due

(* A bound of both parts bounds what is due.                                *)
LEMMA DueBelow ==
    ASSUME NEW status, NEW state, NEW sh, NEW c, NEW n,
           Count(c, Queue(state)) <= n, Expected(status, state, sh, c) <= n
    PROVE  Due(status, state, sh, c) <= n
BY DEF Due

Typed(su, sh) == su \in [Session -> SubmissionStates \cup {None}] /\ sh \in [Session -> Shells]

LEMMA DueInType ==
    ASSUME NEW ss, NEW su, NEW sh, Typed(su, sh), NEW c
    PROVE  /\ [s \in Session |-> Due(ss[s], su[s], sh[s], c)] \in [Session -> Nat]
           /\ DueIn(ss, su, sh, c) \in Nat
<1>1. [s \in Session |-> Due(ss[s], su[s], sh[s], c)] \in [Session -> Nat]
  BY DueIs DEF Typed
<1> QED BY <1>1, Consts, BoxesFinite DEF DueIn

LEMMA DueLess ==
    ASSUME NEW ss, NEW su, NEW sh, NEW st, NEW sv, NEW si, NEW c, Typed(su, sh), Typed(sv, si),
           \A s \in Session : Due(st[s], sv[s], si[s], c) <= Due(ss[s], su[s], sh[s], c)
    PROVE  DueIn(st, sv, si, c) <= DueIn(ss, su, sh, c)
<1> DEFINE f == [s \in Session |-> Due(st[s], sv[s], si[s], c)]
           g == [s \in Session |-> Due(ss[s], su[s], sh[s], c)]
<1>1. f \in [Session -> Nat] /\ g \in [Session -> Nat]
  <2>1. \A s \in Session : Due(st[s], sv[s], si[s], c) \in Nat
    BY DueIs DEF Typed
  <2>2. \A s \in Session : Due(ss[s], su[s], sh[s], c) \in Nat
    BY DueIs DEF Typed
  <2> QED BY <2>1, <2>2
<1>2. \A s \in Session : f[s] <= g[s]
  OBVIOUS
<1>3. Sum(f) <= Sum(g)
  <2> HIDE DEF f, g
  <2> QED BY <1>1, <1>2, Consts, SumGrows
<1> QED BY <1>3 DEF DueIn

LEMMA DueAtOne ==
    ASSUME NEW ss, NEW su, NEW sh, NEW st, NEW sv, NEW si, NEW c, Typed(su, sh), Typed(sv, si),
           NEW x \in Session,
           \A s \in Session : s # x => st[s] = ss[s] /\ sv[s] = su[s] /\ si[s] = sh[s]
    PROVE  DueIn(st, sv, si, c) + Due(ss[x], su[x], sh[x], c)
              <= DueIn(ss, su, sh, c) + Due(st[x], sv[x], si[x], c)
<1> DEFINE f == [s \in Session |-> Due(st[s], sv[s], si[s], c)]
           g == [s \in Session |-> Due(ss[s], su[s], sh[s], c)]
<1>1. f \in [Session -> Nat] /\ g \in [Session -> Nat]
  <2>1. \A s \in Session : Due(st[s], sv[s], si[s], c) \in Nat
    BY DueIs DEF Typed
  <2>2. \A s \in Session : Due(ss[s], su[s], sh[s], c) \in Nat
    BY DueIs DEF Typed
  <2> QED BY <2>1, <2>2
<1>2. \A s \in Session \ {x} : f[s] = g[s]
  OBVIOUS
<1>3. f[x] = Due(st[x], sv[x], si[x], c) /\ g[x] = Due(ss[x], su[x], sh[x], c)
  OBVIOUS
<1>4. Sum(f) + g[x] <= Sum(g) + f[x]
  <2> HIDE DEF f, g
  <2>1. \A s \in Session \ {x} : f[s] <= g[s]
    BY <1>1, <1>2
  <2> QED BY <1>1, <2>1, Consts, SumOnePoint
<1> QED BY <1>3, <1>4 DEF DueIn

(* Only the sessions of L may have one more due.                            *)
LEMMA DueMore ==
    ASSUME NEW ss, NEW su, NEW sh, NEW st, NEW sv, NEW si, NEW c, Typed(su, sh), Typed(sv, si),
           NEW L \in SUBSET Session,
           \A s \in Session : Due(st[s], sv[s], si[s], c)
                                <= Due(ss[s], su[s], sh[s], c) + (IF s \in L THEN 1 ELSE 0)
    PROVE  DueIn(st, sv, si, c) <= DueIn(ss, su, sh, c) + Cardinality(L) /\ Cardinality(L) \in Nat
<1> DEFINE f == [s \in Session |-> Due(st[s], sv[s], si[s], c)]
           g == [s \in Session |-> Due(ss[s], su[s], sh[s], c)]
<1>1. f \in [Session -> Nat] /\ g \in [Session -> Nat]
  <2>1. \A s \in Session : Due(st[s], sv[s], si[s], c) \in Nat
    BY DueIs DEF Typed
  <2>2. \A s \in Session : Due(ss[s], su[s], sh[s], c) \in Nat
    BY DueIs DEF Typed
  <2> QED BY <2>1, <2>2
<1>2. \A s \in Session : f[s] <= g[s] + (IF s \in L THEN 1 ELSE 0)
  OBVIOUS
<1>3. Sum(f) <= Sum(g) + Cardinality(L) /\ Cardinality(L) \in Nat
  <2> HIDE DEF f, g
  <2> QED BY <1>1, <1>2, Consts, SumGrowsBy
<1> QED BY <1>3 DEF DueIn

-----------------------------------------------------------------------------
LEMMA CarriedType ==
    ASSUME NEW T, T \subseteq Tasks, IsFiniteSet(T), NEW c
    PROVE  /\ [t \in T |-> Count(c, Carried(t))] \in [T -> Nat]
           /\ CarriedIn(T, c) \in Nat
<1>1. \A t \in T : Carried(t) \in Seq(Command)
  BY EmptySeq DEF Carried, Tasks
<1>2. [t \in T |-> Count(c, Carried(t))] \in [T -> Nat]
  BY <1>1, CountType
<1> QED BY <1>2, BoxesFinite DEF CarriedIn

LEMMA CarriedWithout ==
    ASSUME NEW T, T \subseteq Tasks, IsFiniteSet(T), NEW c, NEW t \in T
    PROVE  /\ CarriedIn(T, c) = Count(c, Carried(t)) + CarriedIn(T \ {t}, c)
           /\ CarriedIn(T \ {t}, c) \in Nat /\ Count(c, Carried(t)) \in Nat
<1> DEFINE f == [x \in T |-> Count(c, Carried(x))]
<1>1. f \in [T -> Nat] /\ f[t] = Count(c, Carried(t))
  BY CarriedType
<1>2. [x \in T \ {t} |-> f[x]] = [x \in T \ {t} |-> Count(c, Carried(x))]
  OBVIOUS
<1>3. Sum(f) = f[t] + Sum([x \in T \ {t} |-> f[x]])
  <2> HIDE DEF f
  <2> QED BY <1>1, SumSplit
<1>4. T \ {t} \subseteq Tasks /\ IsFiniteSet(T \ {t})
  BY FS_RemoveElement
<1>5. CarriedIn(T \ {t}, c) \in Nat
  BY <1>4, CarriedType
<1>6. f[t] \in Nat
  BY <1>1
<1> QED BY <1>1, <1>2, <1>3, <1>5, <1>6 DEF CarriedIn

LEMMA CarriedWith ==
    ASSUME NEW T, T \subseteq Tasks, IsFiniteSet(T), NEW c, NEW u \in Tasks
    PROVE  /\ CarriedIn(T \cup {u}, c) <= CarriedIn(T, c) + Count(c, Carried(u))
           /\ CarriedIn(T \cup {u}, c) \in Nat /\ Count(c, Carried(u)) \in Nat
<1> DEFINE U == T \cup {u}
<1>1. U \subseteq Tasks /\ IsFiniteSet(U) /\ u \in U
  BY FS_AddElement
<1>2. /\ CarriedIn(U, c) = Count(c, Carried(u)) + CarriedIn(U \ {u}, c)
      /\ CarriedIn(U \ {u}, c) \in Nat /\ Count(c, Carried(u)) \in Nat
  <2> HIDE DEF U
  <2> QED BY <1>1, CarriedWithout
<1>3. CarriedIn(T, c) \in Nat
  BY CarriedType
<1>4. CASE u \in T
  <2>1. U = T
    BY <1>4
  <2> QED BY <1>2, <1>3, <2>1
<1>5. CASE u \notin T
  <2>1. U \ {u} = T
    BY <1>5
  <2> QED BY <1>2, <1>3, <2>1
<1> QED BY <1>4, <1>5

(* A task with its next step in its place.                                  *)
LEMMA CarriedOn ==
    ASSUME NEW T, T \subseteq Tasks, IsFiniteSet(T), NEW c, NEW t \in T, NEW u \in Tasks
    PROVE  CarriedIn((T \ {t}) \cup {u}, c) + Count(c, Carried(t))
              <= CarriedIn(T, c) + Count(c, Carried(u))
<1> DEFINE R == T \ {t}
<1>1. R \subseteq Tasks /\ IsFiniteSet(R)
  BY FS_RemoveElement
<1>2. /\ CarriedIn(T, c) = Count(c, Carried(t)) + CarriedIn(R, c)
      /\ CarriedIn(R, c) \in Nat /\ Count(c, Carried(t)) \in Nat
  BY CarriedWithout
<1>3. /\ CarriedIn(R \cup {u}, c) <= CarriedIn(R, c) + Count(c, Carried(u))
      /\ CarriedIn(R \cup {u}, c) \in Nat /\ Count(c, Carried(u)) \in Nat
  <2> HIDE DEF R
  <2> QED BY <1>1, CarriedWith
<1> QED BY <1>2, <1>3

LEMMA CarriedNone ==
    ASSUME NEW c
    PROVE  CarriedIn({}, c) = 0
<1> DEFINE f == [t \in {} |-> Count(c, Carried(t))]
<1>1. f \in [{} -> Nat] /\ Sum(f) = Cardinality(Boxes(f)) /\ Boxes(f) = {}
  BY FS_EmptySet, BoxesFinite DEF Boxes
<1> QED BY <1>1, FS_EmptySet DEF CarriedIn

LEMMA CountOne ==
    ASSUME NEW c \in Command, NEW d
    PROVE  Count(d, <<c>>) = IF d = c THEN 1 ELSE 0
<1>1. DOMAIN <<c>> = {1} /\ <<c>>[1] = c
  OBVIOUS
<1>2. {i \in DOMAIN <<c>> : <<c>>[i] = d} = IF d = c THEN {1} ELSE {}
  BY <1>1
<1> QED BY <1>2, FS_EmptySet, FS_Singleton DEF Count

LEMMA BooksTyped ==
    ASSUME HInv, NEW c
    PROVE  /\ Typed(submissions, shell)
           /\ Count(c, main.todo) \in Nat /\ CarriedIn(tasks, c) \in Nat
           /\ DueIn(sessions, submissions, shell, c) \in Nat
           /\ Out(c) \in Nat /\ Copies \subseteq Entries
<1>1. SessionsOK /\ TasksOK /\ StoreOK /\ SavingOK
  BY Parts
<1>2. Typed(submissions, shell)
  BY <1>1 DEF SessionsOK, Typed, Shells
<1>3. Count(c, main.todo) \in Nat
  BY <1>1, CountType DEF SavingOK
<1>4. CarriedIn(tasks, c) \in Nat
  BY <1>1, CarriedType DEF TasksOK
<1>5. DueIn(sessions, submissions, shell, c) \in Nat
  BY <1>2, DueInType
<1>6. Copies \subseteq Entries
  BY <1>1, SnapshotStored DEF Copies, StoreOK, SavingOK
<1> QED BY <1>2, <1>3, <1>4, <1>5, <1>6 DEF Out

LEMMA BooksTypedNext ==
    ASSUME HInv', NEW c
    PROVE  /\ Typed(submissions', shell')
           /\ Count(c, main'.todo) \in Nat /\ CarriedIn(tasks', c) \in Nat
           /\ DueIn(sessions', submissions', shell', c) \in Nat
           /\ Out(c)' \in Nat /\ Copies' \subseteq Entries
           /\ Out(c)' = Count(c, main'.todo) + CarriedIn(tasks', c)
                           + DueIn(sessions', submissions', shell', c)
<1>1. SessionsOK' /\ TasksOK' /\ StoreOK' /\ SavingOK'
  BY PartsNext
<1>2. Typed(submissions', shell')
  BY <1>1 DEF SessionsOK, Typed, Shells
<1>3. Count(c, main'.todo) \in Nat
  BY <1>1, CountType DEF SavingOK
<1>4. CarriedIn(tasks', c) \in Nat
  BY <1>1, CarriedType DEF TasksOK
<1>5. DueIn(sessions', submissions', shell', c) \in Nat
  BY <1>2, DueInType
<1>6. Copies' \subseteq Entries
  BY <1>1, SnapshotStored DEF Copies, StoreOK, SavingOK
<1>7. Out(c)' = Count(c, main'.todo) + CarriedIn(tasks', c)
                           + DueIn(sessions', submissions', shell', c)
  BY DEF Out
<1> QED BY <1>2, <1>3, <1>4, <1>5, <1>6, <1>7

(* What is still to be counted grows no more than what may be.              *)
LEMMA BooksStay ==
    ASSUME HInv, HInv', Books,
           \A c \in Command : Out(c)' + allowed[c] <= Out(c) + allowed'[c],
           \A e \in Copies' : \E d \in Copies : Alike(e, d)
    PROVE  Books'
<1>1. /\ \A c \in Command : Out(c) \in Nat /\ Out(c)' \in Nat
      /\ Copies \subseteq Entries /\ Copies' \subseteq Entries
  BY BooksTyped, BooksTypedNext
<1>2. allowed \in [Command -> Nat] /\ allowed' \in [Command -> Nat]
  BY Parts, PartsNext DEF GhostsOK
<1>3. ASSUME NEW c \in Command PROVE Balanced(c)'
  <2>1. /\ Out(c) \in Nat /\ Out(c)' \in Nat /\ allowed[c] \in Nat /\ allowed'[c] \in Nat
        /\ Out(c) <= allowed[c] /\ Out(c)' + allowed[c] <= Out(c) + allowed'[c]
    BY <1>1, <1>2 DEF Books, Balanced
  <2>2. ASSUME NEW e \in Copies', e.command = c PROVE e.uses + Out(c)' <= allowed'[c]
    <3>1. PICK d \in Copies : Alike(e, d)
      OBVIOUS
    <3>2. d.command = c /\ d.uses = e.uses /\ d.uses + Out(c) <= allowed[c]
      BY <2>2, <3>1 DEF Alike, Books, Balanced
    <3>3. d.uses \in Nat
      BY <1>1 DEF Entries
    <3> QED BY <2>1, <3>2, <3>3
  <2> QED BY <2>1, <2>2 DEF Balanced
<1> QED BY <1>3 DEF Books

LEMMA SameCopies ==
    ASSUME UNCHANGED <<entries, disk, worker>>, main'.snapshot = main.snapshot
    PROVE  \A e \in Copies' : \E d \in Copies : Alike(e, d)
BY DEF Copies, Alike

LEMMA AddSessionBooks ==
    ASSUME HInv, HInv', Books, NEW s \in Session, add_session(s)
    PROVE  Books'
<1>1. SessionsOK
  BY Parts
<1>2. /\ sessions[s] = "new" /\ UNCHANGED <<shell, tasks, main, allowed, entries, disk, worker>>
      /\ sessions' = [sessions EXCEPT ![s] = "open"]
  BY DEF add_session, saving, store, ghosts
<1>3. PICK b \in BOOLEAN : submissions' = [submissions EXCEPT ![s] = SubmissionState(b)]
  BY DEF add_session
<1>4. \A x \in Session : x # s =>
         sessions'[x] = sessions[x] /\ submissions'[x] = submissions[x] /\ shell'[x] = shell[x]
  BY <1>1, <1>2, <1>3 DEF SessionsOK
<1>5. submissions'[s] = SubmissionState(b) /\ sessions'[s] = "open"
  BY <1>1, <1>2, <1>3 DEF SessionsOK
<1>6. ASSUME NEW c \in Command PROVE Out(c)' + allowed[c] <= Out(c) + allowed'[c]
  <2>1. /\ Typed(submissions, shell) /\ Typed(submissions', shell')
        /\ Out(c) \in Nat /\ Out(c)' \in Nat
        /\ DueIn(sessions', submissions', shell', c) \in Nat
        /\ DueIn(sessions, submissions, shell, c) \in Nat
        /\ Count(c, main.todo) \in Nat /\ CarriedIn(tasks, c) \in Nat
    BY BooksTyped, BooksTypedNext
  <2>2. DueIn(sessions', submissions', shell', c) + Due(sessions[s], submissions[s], shell[s], c)
          <= DueIn(sessions, submissions, shell, c)
               + Due(sessions'[s], submissions'[s], shell'[s], c)
    BY <1>4, <2>1, DueAtOne
  <2>3. Due(sessions'[s], submissions'[s], shell'[s], c) = 0
    <3>1. shell[s].running = <<>> /\ shell[s].reported = None /\ Queue(SubmissionState(b)) = <<>>
      BY <1>1, <1>2, FreshState DEF SessionsOK, SessionOK, Queue
    <3>2. Expected("open", SubmissionState(b), shell[s], c) = 0
      BY <3>1, CountEmpty, Consts DEF Expected
    <3> QED BY <1>2, <1>5, <3>1, <3>2, CountEmpty DEF Due
  <2>4. Due(sessions[s], submissions[s], shell[s], c) \in Nat
    BY <2>1, DueIs DEF Typed
  <2>5. DueIn(sessions', submissions', shell', c) <= DueIn(sessions, submissions, shell, c)
    BY <2>1, <2>2, <2>3, <2>4
  <2>6. Out(c)' <= Out(c) /\ allowed[c] \in Nat
    <3>1. allowed[c] \in Nat
      BY Parts DEF GhostsOK
    <3> QED BY <1>2, <2>1, <2>5, <3>1 DEF Out
  <2> QED BY <1>2, <2>1, <2>6
<1> QED BY <1>2, <1>6, SameCopies, BooksStay

LEMMA Terms ==
    ASSUME HInv, HInv', NEW c \in Command
    PROVE  /\ CarriedIn(tasks, c) \in Nat /\ CarriedIn(tasks', c) \in Nat
           /\ DueIn(sessions, submissions, shell, c) \in Nat
           /\ DueIn(sessions', submissions', shell', c) \in Nat
           /\ allowed[c] \in Nat /\ allowed'[c] \in Nat
           /\ Count(c, main.todo) \in Nat /\ Count(c, main'.todo) \in Nat
BY BooksTyped, BooksTypedNext, Parts, PartsNext DEF GhostsOK

LEMMA OutBy ==
    ASSUME HInv, HInv', NEW c \in Command, UNCHANGED main,
           CarriedIn(tasks', c) + DueIn(sessions', submissions', shell', c) + allowed[c]
             <= CarriedIn(tasks, c) + DueIn(sessions, submissions, shell, c) + allowed'[c]
    PROVE  Out(c)' + allowed[c] <= Out(c) + allowed'[c]
BY Terms DEF Out

LEMMA OutSteady ==
    ASSUME HInv, HInv', NEW c \in Command, UNCHANGED <<main, allowed>>,
           CarriedIn(tasks', c) + DueIn(sessions', submissions', shell', c)
             <= CarriedIn(tasks, c) + DueIn(sessions, submissions, shell, c)
    PROVE  Out(c)' + allowed[c] <= Out(c) + allowed'[c]
<1>1. allowed'[c] = allowed[c]
  OBVIOUS
<1>2. CarriedIn(tasks', c) + DueIn(sessions', submissions', shell', c) + allowed[c]
        <= CarriedIn(tasks, c) + DueIn(sessions, submissions, shell, c) + allowed'[c]
  BY <1>1, Terms
<1> QED BY <1>2, OutBy

(* The step is one of session s.                                            *)
LEMMA DueAt ==
    ASSUME HInv, HInv', NEW c \in Command, NEW s \in Session,
           \A x \in Session : x # s =>
             /\ sessions'[x] = sessions[x] /\ submissions'[x] = submissions[x]
             /\ shell'[x] = shell[x]
    PROVE  /\ DueIn(sessions', submissions', shell', c)
                  + Due(sessions[s], submissions[s], shell[s], c)
                <= DueIn(sessions, submissions, shell, c)
                     + Due(sessions'[s], submissions'[s], shell'[s], c)
           /\ Due(sessions[s], submissions[s], shell[s], c) \in Nat
           /\ Due(sessions'[s], submissions'[s], shell'[s], c) \in Nat
<1>1. Typed(submissions, shell) /\ Typed(submissions', shell')
  BY BooksTyped, BooksTypedNext
<1>2. DueIn(sessions', submissions', shell', c) + Due(sessions[s], submissions[s], shell[s], c)
        <= DueIn(sessions, submissions, shell, c)
             + Due(sessions'[s], submissions'[s], shell'[s], c)
  BY <1>1, DueAtOne
<1>3. /\ Due(sessions[s], submissions[s], shell[s], c) \in Nat
      /\ Due(sessions'[s], submissions'[s], shell'[s], c) \in Nat
  BY <1>1, DueIs DEF Typed
<1> QED BY <1>2, <1>3

(* A task that adds these commands.                                         *)
LEMMA StartCarries ==
    ASSUME TasksOK, NEW io \in Session \cup {None}, NEW todo \in Seq(Command),
           Start("add", io, "add", todo), NEW c
    PROVE  /\ CarriedIn(tasks', c) <= CarriedIn(tasks, c) + Count(c, todo)
           /\ Count(c, todo) \in Nat
<1>1. PICK t \in Tasks : t.op = "add" /\ t.todo = todo /\ tasks' = tasks \cup {t}
  BY StartIs
<1>2. Carried(t) = todo
  BY <1>1 DEF Carried
<1>3. /\ CarriedIn(tasks \cup {t}, c) <= CarriedIn(tasks, c) + Count(c, Carried(t))
      /\ Count(c, Carried(t)) \in Nat
  BY CarriedWith DEF TasksOK
<1> QED BY <1>1, <1>2, <1>3

LEMMA RegisterBooks ==
    ASSUME HInv, HInv', Books, NEW s \in Session, NEW c \in Command,
           register_command_submission(s, c)
    PROVE  Books'
<1> DEFINE state == submissions[s]
           queue == Append(state.candidates, c)
           grown(d) == IF d = c THEN 1 ELSE 0
<1>1. SessionsOK /\ TasksOK /\ GhostsOK
  BY Parts
<1>2. /\ UNCHANGED <<sessions, main, entries, disk, worker>>
      /\ allowed' = [allowed EXCEPT ![c] = @ + 1]
      /\ shell' = IF sessions[s] = "open" /\ Reporting(state)
                  THEN [shell EXCEPT ![s].running = Append(@, c)] ELSE shell
  BY DEF register_command_submission, saving, store
<1>3. \A d \in Command : allowed'[d] = allowed[d] + grown(d) /\ allowed[d] \in Nat
  BY <1>1, <1>2 DEF GhostsOK
<1>4. \A x \in Session : x # s => shell'[x] = shell[x] /\ submissions'[x] = submissions[x]
  BY <1>1, <1>2 DEF SessionsOK, register_command_submission
<1>5. /\ state \in SubmissionStates \cup {None} /\ shell[s] \in Shells /\ shell'[s] \in Shells
      /\ submissions'[s] \in SubmissionStates \cup {None}
  BY BooksTyped, BooksTypedNext DEF Typed
<1>6. ASSUME NEW d \in Command
      PROVE  /\ shell'[s].reported = shell[s].reported
             /\ Count(d, shell'[s].running) <= Count(d, shell[s].running) + grown(d)
  <2>1. CASE shell' = shell
    <3>1. Count(d, shell[s].running) \in Nat
      BY <1>5, DueIs
    <3> QED BY <2>1, <3>1
  <2>2. CASE shell' = [shell EXCEPT ![s].running = Append(@, c)]
    <3> DEFINE run == shell[s].running
    <3>1. /\ shell'[s].reported = shell[s].reported /\ shell'[s].running = Append(run, c)
          /\ run \in Seq(Command)
      BY <1>1, <1>5, <2>2 DEF SessionsOK, Shells
    <3> HIDE DEF run
    <3>2. Count(d, Append(run, c)) <= Count(d, run) + grown(d)
      BY <3>1, CountAppend
    <3> QED BY <3>1, <3>2 DEF run
  <2> QED BY <1>2, <2>1, <2>2
<1>7. SUFFICES ASSUME NEW d \in Command
               PROVE  CarriedIn(tasks', d) + DueIn(sessions', submissions', shell', d)
                        <= CarriedIn(tasks, d) + DueIn(sessions, submissions, shell, d) + grown(d)
  <2>1. ASSUME NEW d \in Command PROVE Out(d)' + allowed[d] <= Out(d) + allowed'[d]
    <3>1. CarriedIn(tasks', d) + DueIn(sessions', submissions', shell', d)
            <= CarriedIn(tasks, d) + DueIn(sessions, submissions, shell, d) + grown(d)
      BY <1>7
    <3>2. CarriedIn(tasks', d) + DueIn(sessions', submissions', shell', d) + allowed[d]
            <= CarriedIn(tasks, d) + DueIn(sessions, submissions, shell, d) + allowed'[d]
      BY <1>3, <3>1, Terms
    <3> QED BY <1>2, <3>2, OutBy
  <2> QED BY <1>2, <2>1, SameCopies, BooksStay
<1> DEFINE before == Due(sessions[s], submissions[s], shell[s], d)
           after == Due(sessions'[s], submissions'[s], shell'[s], d)
<1>8. /\ DueIn(sessions', submissions', shell', d) + before
           <= DueIn(sessions, submissions, shell, d) + after
      /\ before \in Nat /\ after \in Nat
  BY <1>2, <1>4, DueAt
<1>9. /\ Count(d, Queue(state)) \in Nat /\ Expected(sessions[s], state, shell[s], d) \in Nat
      /\ Count(d, Queue(state)) <= before /\ Expected(sessions[s], state, shell[s], d) <= before
      /\ Count(d, shell[s].running) \in Nat /\ Count(d, shell'[s].running) \in Nat
  BY <1>5, DueIs
<1>10. CASE ~Waits(state) /\ Start("add", None, "add", <<c>>) /\ UNCHANGED submissions
  <2> DEFINE one == <<c>>
  <2>1. CarriedIn(tasks', d) <= CarriedIn(tasks, d) + grown(d)
    <3>1. one \in Seq(Command) /\ Start("add", None, "add", one) /\ Count(d, one) = grown(d)
      BY <1>10, CountOne
    <3> HIDE DEF one
    <3> QED BY <1>1, <3>1, StartCarries
  <2>2. after = before
    <3>1. CASE shell' = shell
      BY <1>2, <1>10, <3>1
    <3>2. CASE Reporting(state)
      <4>1. state.degraded
        BY <1>10, <3>2 DEF Waits, Reporting
      <4> QED BY <1>2, <1>10, <4>1 DEF Due, Expected
    <3> QED BY <1>2, <3>1, <3>2
  <2> HIDE DEF before, after
  <2> QED BY <1>8, <2>1, <2>2, Terms
<1>11. ASSUME Waits(state)
       PROVE  /\ state \in SubmissionStates /\ state # None /\ Queue(state) = state.candidates
              /\ queue \in Seq(Command)
              /\ Count(d, queue) <= Count(d, Queue(state)) + grown(d)
  <2>1. state \in SubmissionStates /\ state # None /\ Queue(state) = state.candidates
    BY <1>5, <1>11 DEF Waits, Queue
  <2>2. state.candidates \in Seq(Command)
    BY <2>1 DEF SubmissionStates
  <2> DEFINE q == state.candidates
  <2>3. q \in Seq(Command) /\ Append(q, c) \in Seq(Command)
    BY <2>2
  <2>4. Count(d, Append(q, c)) <= Count(d, q) + grown(d)
    <3> HIDE DEF q
    <3> QED BY <2>3, CountAppend
  <2> QED BY <2>1, <2>3, <2>4
<1>12. CASE /\ Waits(state) /\ Len(queue) <= MaxPending
            /\ submissions' = [submissions EXCEPT ![s].candidates = queue]
            /\ UNCHANGED tasks
  <2> DEFINE v == [state EXCEPT !.candidates = queue]
  <2>1. submissions'[s] = v
    BY <1>1, <1>12 DEF SessionsOK
  <2>2. v \in SubmissionStates /\ v.candidates = queue /\ v.last = state.last
          /\ v.degraded = state.degraded
    <3> HIDE DEF queue
    <3> QED BY <1>11, <1>12 DEF SubmissionStates
  <2> HIDE DEF v
  <2>3. Queue(v) = queue /\ v # None
    BY <2>2, Consts DEF Queue
  <2>4. Count(d, Queue(v)) <= before + grown(d)
    <3> HIDE DEF before, queue
    <3>1. Count(d, queue) \in Nat
      BY <1>11, <1>12, CountType
    <3> QED BY <1>8, <1>9, <1>11, <1>12, <2>3, <3>1
  <2>5. Expected(sessions[s], v, shell'[s], d) <= before + grown(d)
    <3>1. Expected(sessions[s], v, shell'[s], d)
             <= Expected(sessions[s], state, shell[s], d) + grown(d)
      BY <1>6, <1>9, <1>11, <1>12, <2>2, <2>3 DEF Expected
    <3>2. Expected(sessions[s], v, shell'[s], d) \in Nat
      BY <1>5, <2>2, DueIs
    <3> HIDE DEF before
    <3> QED BY <1>8, <1>9, <3>1, <3>2
  <2>6. after <= before + grown(d)
    <3>1. Due(sessions[s], v, shell'[s], d) <= before + grown(d)
      <4> DEFINE n == before + grown(d)
      <4>1. Count(d, Queue(v)) <= n /\ Expected(sessions[s], v, shell'[s], d) <= n
        BY <2>4, <2>5
      <4> HIDE DEF n
      <4>2. Due(sessions[s], v, shell'[s], d) <= n
        BY <4>1, DueBelow
      <4> QED BY <4>2 DEF n
    <3> QED BY <1>2, <2>1, <3>1
  <2>7. CarriedIn(tasks', d) = CarriedIn(tasks, d)
    BY <1>12
  <2>8. grown(d) \in Nat
    OBVIOUS
  <2> HIDE DEF before, after, grown
  <2> QED BY <1>8, <2>6, <2>7, <2>8, Terms
<1>13. CASE /\ Waits(state)
            /\ submissions' = [submissions EXCEPT
                                 ![s] = [SubmissionState(FALSE) EXCEPT !.degraded = TRUE]]
            /\ Start("add", None, "add", queue)
  <2> DEFINE v == [SubmissionState(FALSE) EXCEPT !.degraded = TRUE]
  <2>1. submissions'[s] = v
    BY <1>1, <1>13 DEF SessionsOK
  <2>2. v.degraded /\ v.candidates = <<>>
    BY DEF SubmissionState
  <2> HIDE DEF v
  <2>3. after = 0
    <3>1. Queue(v) = <<>> /\ Expected(sessions'[s], v, shell'[s], d) = 0
      BY <2>2 DEF Queue, Expected
    <3> QED BY <2>1, <3>1, CountEmpty DEF Due
  <2>4. CarriedIn(tasks', d) <= CarriedIn(tasks, d) + Count(d, queue) /\ Count(d, queue) \in Nat
    <3> HIDE DEF queue
    <3> QED BY <1>1, <1>11, <1>13, StartCarries
  <2>5. Count(d, queue) <= before + grown(d)
    <3> HIDE DEF before, queue
    <3> QED BY <1>8, <1>9, <1>11, <1>13, <2>4
  <2> HIDE DEF before, after, queue
  <2> QED BY <1>8, <2>3, <2>4, <2>5, Terms
<1> QED BY <1>10, <1>12, <1>13 DEF register_command_submission

LEMMA CountAbsent ==
    ASSUME NEW q, NEW c, c \notin ToSet(q)
    PROVE  Count(c, q) = 0
<1>1. {i \in DOMAIN q : q[i] = c} = {}
  BY DEF ToSet
<1> QED BY <1>1, FS_EmptySet DEF Count

(* What a report leaves of the commands the shell runs.                     *)
LEMMA ReportLeaves ==
    ASSUME SessionsOK, NEW s \in Session, NEW c \in Command, NEW sh \in Shells,
           Reports(s, c, sh), NEW d
    PROVE  /\ sh.reported = c
           /\ Count(d, sh.running) \in Nat /\ Count(d, shell[s].running) \in Nat
           /\ Count(d, sh.running) <= Count(d, shell[s].running)
           /\ d = c => \/ Count(d, sh.running) + 1 <= Count(d, shell[s].running)
                       \/ Count(d, sh.running) = 0 /\ shell[s].reported = c
<1> DEFINE run == shell[s].running
<1>1. run \in Seq(Command) /\ sh.running \in Seq(Command)
  BY DEF SessionsOK, Shells
<1>2. Count(d, sh.running) \in Nat /\ Count(d, run) \in Nat
  BY <1>1, CountType
<1>3. ASSUME NEW k \in DOMAIN run, c = run[k], sh.running = SubSeq(run, k + 1, Len(run)),
             sh.reported = c
      PROVE  /\ sh.reported = c
             /\ Count(d, sh.running) + (IF d = c THEN 1 ELSE 0) <= Count(d, run)
  <2> HIDE DEF run
  <2>1. Count(d, SubSeq(run, k + 1, Len(run))) + (IF run[k] = d THEN 1 ELSE 0) <= Count(d, run)
    BY <1>1, <1>3, CountRest
  <2> QED BY <1>3, <2>1
<1>4. CASE shell[s].reported = c /\ run = <<>> /\ sh = shell[s]
  <2>1. Count(d, sh.running) = 0
    BY <1>4, CountEmpty
  <2> QED BY <1>2, <1>4, <2>1
<1>5. CASE \E k \in DOMAIN run :
             c = run[k] /\ sh.running = SubSeq(run, k + 1, Len(run)) /\ sh.reported = c
  <2>1. sh.reported = c /\ Count(d, sh.running) + (IF d = c THEN 1 ELSE 0) <= Count(d, run)
    BY <1>3, <1>5
  <2> HIDE DEF run
  <2>2. Count(d, sh.running) <= Count(d, run)
    BY <1>2, <2>1
  <2>3. d = c => Count(d, sh.running) + 1 <= Count(d, run)
    BY <2>1
  <2> QED BY <1>2, <2>1, <2>2, <2>3 DEF run
<1> QED BY <1>4, <1>5 DEF Reports

LEMMA ReportBooks ==
    ASSUME HInv, HInv', Books, NEW s \in Session, Report(s)
    PROVE  Books'
<1> DEFINE state == submissions[s]
           grown(d, c) == IF d = c THEN 1 ELSE 0
<1>1. SessionsOK /\ TasksOK
  BY Parts
<1>2. /\ sessions[s] = "open" /\ Loop(s)
      /\ UNCHANGED <<sessions, main, allowed, entries, disk, worker>>
  BY DEF Report, store, saving, ghosts
<1>3. PICK c \in Command, sh \in Shells :
         /\ confirm_command_submission(s, c) /\ Reports(s, c, sh)
         /\ shell' = [shell EXCEPT ![s] = sh]
  BY <1>1, ReportIs DEF Shells
<1>4. state \in SubmissionStates /\ state # None /\ shell[s] \in Shells /\ shell'[s] = sh
  BY <1>1, <1>2, <1>3 DEF SessionsOK, SessionOK, Shells
<1>5. SUFFICES ASSUME NEW d \in Command
               PROVE  CarriedIn(tasks', d) + DueIn(sessions', submissions', shell', d)
                        <= CarriedIn(tasks, d) + DueIn(sessions, submissions, shell, d)
  <2>1. ASSUME NEW d \in Command PROVE Out(d)' + allowed[d] <= Out(d) + allowed'[d]
    BY <1>2, <1>5, <2>1, OutSteady
  <2> QED BY <1>2, <2>1, SameCopies, BooksStay
<1> DEFINE before == Due(sessions[s], submissions[s], shell[s], d)
           after == Due(sessions'[s], submissions'[s], shell'[s], d)
           r == Count(d, sh.running)
           run == Count(d, shell[s].running)
           q == Count(d, Queue(state))
<1>6. /\ sh.reported = c /\ r \in Nat /\ run \in Nat /\ r <= run
      /\ d = c => r + 1 <= run \/ (r = 0 /\ shell[s].reported = c)
  BY <1>1, <1>3, ReportLeaves
<1>7. \A x \in Session : x # s =>
         sessions'[x] = sessions[x] /\ submissions'[x] = submissions[x] /\ shell'[x] = shell[x]
  <2>1. \A x \in Session : x # s => submissions'[x] = submissions[x]
    BY <1>1, <1>3 DEF SessionsOK, confirm_command_submission
  <2> QED BY <1>1, <1>2, <1>3, <2>1 DEF SessionsOK
<1>8. /\ DueIn(sessions', submissions', shell', d) + before
           <= DueIn(sessions, submissions, shell, d) + after
      /\ before \in Nat /\ after \in Nat
  BY <1>7, DueAt
<1>9. /\ q \in Nat /\ q <= before
      /\ Expected("open", state, shell[s], d) \in Nat
      /\ Expected("open", state, shell[s], d) <= before
  BY <1>2, <1>4, DueIs
<1>10. CASE /\ state.degraded \/ (c \notin ToSet(state.candidates) /\ state.last = c)
            /\ UNCHANGED <<submissions, tasks>>
  <2>1. Expected("open", state, sh, d) <= Expected("open", state, shell[s], d)
    BY <1>4, <1>6, <1>10 DEF Expected
  <2>2. Expected("open", state, sh, d) \in Nat
    BY <1>4, DueIs
  <2>3. after <= before
    <3>1. Expected("open", state, sh, d) <= before
      <4> HIDE DEF before
      <4> QED BY <1>8, <1>9, <2>1, <2>2
    <3>2. Due("open", state, sh, d) <= before
      <4> HIDE DEF before
      <4> QED BY <1>9, <3>1, DueBelow
    <3> QED BY <1>2, <1>4, <1>10, <3>2
  <2>4. CarriedIn(tasks', d) = CarriedIn(tasks, d)
    BY <1>10
  <2> HIDE DEF before, after
  <2> QED BY <1>8, <2>3, <2>4, Terms
<1>11. ASSUME NEW v \in SubmissionStates, v.candidates = RemoveFirst(state.candidates, c),
              v.last = c, ~v.degraded, ~state.degraded,
              c \in ToSet(state.candidates) \/ state.last # c,
              submissions' = [submissions EXCEPT ![s] = v], Start("add", s, "add", <<c>>)
       PROVE  CarriedIn(tasks', d) + DueIn(sessions', submissions', shell', d)
                <= CarriedIn(tasks, d) + DueIn(sessions, submissions, shell, d)
  <2> DEFINE one == <<c>>
             w == Count(d, Queue(v))
             next == Expected("open", v, sh, d)
             prev == Expected("open", state, shell[s], d)
             g == grown(d, c)
  <2>1. CarriedIn(tasks', d) <= CarriedIn(tasks, d) + g
    <3>1. one \in Seq(Command) /\ Start("add", s, "add", one) /\ Count(d, one) = g
      BY <1>11, CountOne
    <3> HIDE DEF one
    <3> QED BY <1>1, <3>1, StartCarries
  <2>2. v # None /\ Queue(v) = v.candidates /\ Queue(state) = state.candidates
        /\ submissions'[s] = v
    BY <1>1, <1>4, <1>11, Consts DEF Queue, SessionsOK
  <2>3. w \in Nat /\ next \in Nat
    BY <1>11, DueIs
  <2>4. /\ w <= q /\ (c \in ToSet(state.candidates) /\ d = c => w + 1 <= q)
    <3> DEFINE cand == state.candidates
    <3>1. cand \in Seq(Command) /\ v.candidates = RemoveFirst(cand, c)
      BY <1>4, <1>11 DEF SubmissionStates
    <3> HIDE DEF cand
    <3>2. /\ Count(d, RemoveFirst(cand, c)) <= Count(d, cand)
          /\ c \in ToSet(cand) => Count(c, RemoveFirst(cand, c)) + 1 <= Count(c, cand)
      BY <3>1, FirstRemoved
    <3> QED BY <2>2, <3>1, <3>2 DEF cand
  <2>5. c \notin ToSet(state.candidates) /\ d = c => w = 0
    <3> SUFFICES ASSUME c \notin ToSet(state.candidates), d = c PROVE w = 0
      OBVIOUS
    <3>1. q = 0
      BY <2>2, CountAbsent
    <3> HIDE DEF w, q
    <3> QED BY <2>3, <2>4, <3>1
  <2>6. next <= prev /\ (d = c => next = r)
    <3>1. /\ prev = run + (IF shell[s].reported = d /\ state.last # d THEN 1 ELSE 0)
          /\ next = r + (IF sh.reported = d /\ v.last # d THEN 1 ELSE 0)
      BY <1>4, <1>11, <2>2 DEF Expected
    <3> HIDE DEF prev, next, r, run
    <3> QED BY <1>6, <1>11, <3>1
  <2>7. d = c /\ c \notin ToSet(state.candidates) => next + 1 <= prev
    <3>1. prev = run + (IF shell[s].reported = d /\ state.last # d THEN 1 ELSE 0)
      BY <1>4, <1>11, <2>2 DEF Expected
    <3> HIDE DEF prev, next, r, run
    <3> QED BY <1>6, <1>11, <2>6, <3>1
  <2>8. d = c => next + 1 <= prev \/ next = 0
    <3>1. run <= prev /\ prev \in Nat
      BY <1>4, <1>6, <1>9, <1>11, <2>2 DEF Expected
    <3> HIDE DEF prev, next, r, run
    <3> QED BY <1>6, <2>6, <3>1
  <2>9. after = Due("open", v, sh, d)
    BY <1>2, <1>4, <2>2
  <2>10. q \in Nat /\ q <= before /\ prev \in Nat /\ prev <= before /\ before \in Nat
    BY <1>8, <1>9
  <2> HIDE DEF before, after, w, q, next, prev
  <2>11. w + g <= before /\ next + g <= before
    <3>1. CASE d # c
      <4>1. g = 0
        BY <3>1
      <4> HIDE DEF g
      <4> QED BY <2>3, <2>4, <2>6, <2>10, <4>1
    <3>2. CASE d = c /\ c \in ToSet(state.candidates)
      <4>1. g = 1
        BY <3>2
      <4> HIDE DEF g
      <4> QED BY <2>3, <2>4, <2>8, <2>10, <3>2, <4>1
    <3>3. CASE d = c /\ c \notin ToSet(state.candidates)
      <4>1. g = 1
        BY <3>3
      <4> HIDE DEF g
      <4> QED BY <2>3, <2>5, <2>7, <2>10, <3>3, <4>1
    <3> QED BY <3>1, <3>2, <3>3
  <2>12. after + g <= before
    <3> DEFINE n == before - g
    <3>1. g \in Nat
      OBVIOUS
    <3> HIDE DEF g
    <3>2. w <= n /\ next <= n
      BY <2>3, <2>10, <2>11, <3>1
    <3>3. Count(d, Queue(v)) <= n /\ Expected("open", v, sh, d) <= n
      BY <3>2 DEF w, next
    <3> HIDE DEF n
    <3>4. Due("open", v, sh, d) <= n
      BY <3>3, DueBelow
    <3>5. after <= n
      BY <2>9, <3>4
    <3> QED BY <1>8, <2>10, <3>1, <3>5 DEF n
  <2>13. g \in Nat
    OBVIOUS
  <2> HIDE DEF g
  <2> QED BY <1>8, <2>1, <2>12, <2>13, Terms
<1> HIDE DEF before, after, r, run, q
<1>12. CASE \E v \in SubmissionStates :
              /\ v.candidates = RemoveFirst(state.candidates, c)
              /\ v.last = c /\ ~v.degraded /\ ~state.degraded
              /\ (c \in ToSet(state.candidates) \/ state.last # c)
              /\ submissions' = [submissions EXCEPT ![s] = v]
              /\ Start("add", s, "add", <<c>>)
  BY <1>11, <1>12
<1>13. confirm_command_submission(s, c)
  BY <1>3
<1> QED BY <1>1, <1>2, <1>10, <1>12, <1>13, ConfirmIs

LEMMA RemoveBooks ==
    ASSUME HInv, HInv', Books, NEW s \in Session, remove_session(s)
    PROVE  Books'
<1>1. SessionsOK /\ TasksOK
  BY Parts
<1>2. /\ sessions' = [sessions EXCEPT ![s] = "closed"] /\ Start("remove", s, "flush", <<>>)
      /\ UNCHANGED <<submissions, shell, main, allowed, entries, disk, worker>>
  BY DEF remove_session, store, saving, ghosts
<1> DEFINE none == <<>>
<1>3. PICK t \in Tasks : /\ t.op = "remove" /\ t.todo = none /\ tasks' = tasks \cup {t}
  <2>1. none \in Seq(Command) /\ Start("remove", s, "flush", none)
    BY <1>2, EmptySeq
  <2> HIDE DEF none
  <2> QED BY <1>1, <2>1, StartIs
<1>4. ASSUME NEW c \in Command PROVE Out(c)' + allowed[c] <= Out(c) + allowed'[c]
  <2>1. CarriedIn(tasks', c) <= CarriedIn(tasks, c)
    <3>1. Count(c, Carried(t)) = 0
      BY <1>3, CountEmpty DEF Carried
    <3>2. CarriedIn(tasks \cup {t}, c) <= CarriedIn(tasks, c) + Count(c, Carried(t))
      BY <1>1, CarriedWith DEF TasksOK
    <3> QED BY <1>3, <3>1, <3>2, Terms
  <2>2. \A x \in Session : x # s =>
         sessions'[x] = sessions[x] /\ submissions'[x] = submissions[x] /\ shell'[x] = shell[x]
    BY <1>1, <1>2 DEF SessionsOK
  <2> DEFINE before == Due(sessions[s], submissions[s], shell[s], c)
             after == Due(sessions'[s], submissions'[s], shell'[s], c)
  <2>3. /\ DueIn(sessions', submissions', shell', c) + before
             <= DueIn(sessions, submissions, shell, c) + after
        /\ before \in Nat /\ after \in Nat
    BY <2>2, DueAt
  <2>4. after <= before
    <3>1. submissions[s] \in SubmissionStates \cup {None} /\ shell[s] \in Shells
      BY BooksTyped DEF Typed
    <3>2. sessions'[s] = "closed"
      BY <1>1, <1>2 DEF SessionsOK
    <3>3. Expected("closed", submissions[s], shell[s], c) = 0
      BY DEF Expected
    <3>4. /\ Count(c, Queue(submissions[s])) \in Nat /\ Count(c, Queue(submissions[s])) <= before
      BY <3>1, DueIs
    <3> QED BY <1>2, <3>2, <3>3, <3>4 DEF Due
  <2> HIDE DEF before, after
  <2>5. DueIn(sessions', submissions', shell', c) <= DueIn(sessions, submissions, shell, c)
    BY <2>3, <2>4, Terms
  <2>6. CarriedIn(tasks', c) + DueIn(sessions', submissions', shell', c)
          <= CarriedIn(tasks, c) + DueIn(sessions, submissions, shell, c)
    BY <2>1, <2>5, Terms
  <2> QED BY <1>2, <2>6, OutSteady
<1> QED BY <1>2, <1>4, SameCopies, BooksStay

LEMMA FlushBooks ==
    ASSUME HInv, HInv', Books, NEW t \in tasks, flush_pending_submission(t)
    PROVE  Books'
<1> DEFINE io == t.io
           q == submissions[io].candidates
<1>1. SessionsOK /\ TasksOK
  BY Parts
<1>2. UNCHANGED <<sessions, shell, main, allowed, entries, disk, worker>>
  BY DEF flush_pending_submission, store, saving, ghosts
<1>3. /\ t.op = "remove" /\ t.todo = <<>> /\ io \in Session /\ sessions[io] = "closed"
      /\ submissions[io] \in SubmissionStates /\ Continue(t, q)
  BY <1>1, FlushIs
<1>4. PICK v \in SubmissionStates : /\ v = [submissions[io] EXCEPT !.candidates = <<>>]
                                    /\ submissions' = [submissions EXCEPT ![io] = v]
  BY <1>1, FlushIs
<1>5. q \in Seq(Command) /\ Queue(submissions[io]) = q
  BY <1>3, Consts DEF SubmissionStates, Queue
<1>6. PICK u \in Tasks : u.op = "remove" /\ u.todo = q /\ tasks' = (tasks \ {t}) \cup {u}
  BY <1>1, <1>3, <1>5, ContinueIs
<1>7. submissions'[io] = v /\ Queue(v) = <<>>
  BY <1>1, <1>3, <1>4, Consts DEF SessionsOK, Queue, SubmissionStates
<1>8. \A x \in Session : x # io =>
         sessions'[x] = sessions[x] /\ submissions'[x] = submissions[x] /\ shell'[x] = shell[x]
  BY <1>1, <1>2, <1>4 DEF SessionsOK
<1>9. ASSUME NEW c \in Command PROVE Out(c)' + allowed[c] <= Out(c) + allowed'[c]
  <2> DEFINE before == Due(sessions[io], submissions[io], shell[io], c)
             after == Due(sessions'[io], submissions'[io], shell'[io], c)
  <2>1. CarriedIn(tasks', c) <= CarriedIn(tasks, c) + Count(c, q)
    <3>1. Carried(t) = <<>> /\ Carried(u) = q
      BY <1>3, <1>6 DEF Carried
    <3>2. CarriedIn((tasks \ {t}) \cup {u}, c) + Count(c, Carried(t))
            <= CarriedIn(tasks, c) + Count(c, Carried(u))
      BY <1>1, CarriedOn DEF TasksOK
    <3>3. Count(c, Carried(t)) = 0 /\ Count(c, Carried(u)) = Count(c, q)
      BY <3>1, CountEmpty
    <3>4. Count(c, q) \in Nat
      BY <1>5, CountType
    <3> HIDE DEF q
    <3>5. CarriedIn(tasks', c) + 0 <= CarriedIn(tasks, c) + Count(c, q)
      BY <1>6, <3>2, <3>3
    <3> QED BY <3>4, <3>5, Terms
  <2>2. /\ DueIn(sessions', submissions', shell', c) + before
             <= DueIn(sessions, submissions, shell, c) + after
        /\ before \in Nat /\ after \in Nat
    BY <1>3, <1>8, DueAt
  <2>3. after = 0
    <3>1. Expected("closed", v, shell[io], c) = 0
      BY DEF Expected
    <3> QED BY <1>2, <1>3, <1>7, <3>1, CountEmpty DEF Due
  <2>4. Count(c, q) \in Nat /\ Count(c, q) <= before
    <3>1. submissions[io] \in SubmissionStates \cup {None} /\ shell[io] \in Shells
      BY <1>3, BooksTyped DEF Typed
    <3>2. Count(c, Queue(submissions[io])) \in Nat /\ Count(c, Queue(submissions[io])) <= before
      BY <3>1, DueIs
    <3> QED BY <1>5, <3>2
  <2> HIDE DEF before, after, q
  <2>5. CarriedIn(tasks', c) + DueIn(sessions', submissions', shell', c)
          <= CarriedIn(tasks, c) + DueIn(sessions, submissions, shell, c)
    BY <2>1, <2>2, <2>3, <2>4, Terms
  <2> QED BY <1>2, <2>5, OutSteady
<1> QED BY <1>2, <1>9, SameCopies, BooksStay

LEMMA DropBooks ==
    ASSUME HInv, HInv', Books, NEW t \in tasks, DropSubmissions(t)
    PROVE  Books'
<1> DEFINE io == t.io
<1>1. SessionsOK /\ TasksOK
  BY Parts
<1>2. /\ t.pc = "drop" /\ submissions' = [submissions EXCEPT ![io] = None]
      /\ tasks' = tasks \ {t} /\ UNCHANGED <<sessions, shell, main, allowed, entries, disk, worker>>
  BY DEF DropSubmissions, store, saving, ghosts
<1>3. io \in Session /\ sessions[io] = "closed"
  BY <1>1, <1>2 DEF TasksOK, TaskOK
<1>4. \A x \in Session : x # io =>
         sessions'[x] = sessions[x] /\ submissions'[x] = submissions[x] /\ shell'[x] = shell[x]
  BY <1>1, <1>2 DEF SessionsOK
<1>5. ASSUME NEW c \in Command PROVE Out(c)' + allowed[c] <= Out(c) + allowed'[c]
  <2> DEFINE before == Due(sessions[io], submissions[io], shell[io], c)
             after == Due(sessions'[io], submissions'[io], shell'[io], c)
  <2>1. CarriedIn(tasks', c) <= CarriedIn(tasks, c)
    <3>1. /\ CarriedIn(tasks, c) = Count(c, Carried(t)) + CarriedIn(tasks \ {t}, c)
          /\ Count(c, Carried(t)) \in Nat
      BY <1>1, CarriedWithout DEF TasksOK
    <3> QED BY <1>2, <3>1, Terms
  <2>2. /\ DueIn(sessions', submissions', shell', c) + before
             <= DueIn(sessions, submissions, shell, c) + after
        /\ before \in Nat /\ after \in Nat
    BY <1>3, <1>4, DueAt
  <2>3. after = 0
    <3>1. submissions'[io] = None /\ Queue(None) = <<>> /\ Expected(sessions'[io], None, shell'[io], c) = 0
      BY <1>1, <1>2, <1>3 DEF Expected, Queue, SessionsOK
    <3> QED BY <3>1, CountEmpty DEF Due
  <2> HIDE DEF before, after
  <2>4. CarriedIn(tasks', c) + DueIn(sessions', submissions', shell', c)
          <= CarriedIn(tasks, c) + DueIn(sessions, submissions, shell, c)
    BY <2>1, <2>2, <2>3, Terms
  <2> QED BY <1>2, <2>4, OutSteady
<1> QED BY <1>2, <1>5, SameCopies, BooksStay

LEMMA DeleteBooks ==
    ASSUME HInv, HInv', Books, NEW c \in Command, delete_history_command(c)
    PROVE  Books'
<1> DEFINE L == {s \in Session : submissions[s] # None /\ submissions[s].last = c}
           one == <<c>>
<1>1. SessionsOK /\ TasksOK /\ GhostsOK
  BY Parts
<1>2. /\ Start("delete", None, "delete", one)
      /\ allowed' = [allowed EXCEPT ![c] = @ + Cardinality(L)]
      /\ UNCHANGED <<sessions, shell, main, entries, disk, worker>>
  BY DEF delete_history_command, store, saving
<1>3. submissions' = [s \in Session |->
          IF submissions[s] = None THEN None ELSE Purged(submissions[s], c)]
  BY DEF delete_history_command, Purged
<1>4. PICK t \in Tasks : t.op = "delete" /\ tasks' = tasks \cup {t}
  <2>1. one \in Seq(Command)
    OBVIOUS
  <2> HIDE DEF one
  <2> QED BY <1>1, <1>2, <2>1, StartIs
<1>5. \A d \in Command : CarriedIn(tasks', d) <= CarriedIn(tasks, d)
  <2> SUFFICES ASSUME NEW d \in Command PROVE CarriedIn(tasks', d) <= CarriedIn(tasks, d)
    OBVIOUS
  <2>1. Count(d, Carried(t)) = 0
    BY <1>4, CountEmpty DEF Carried
  <2>2. CarriedIn(tasks \cup {t}, d) <= CarriedIn(tasks, d) + Count(d, Carried(t))
    BY <1>1, CarriedWith DEF TasksOK
  <2> QED BY <1>4, <2>1, <2>2, Terms
<1>6. Typed(submissions, shell) /\ Typed(submissions', shell')
  BY BooksTyped, BooksTypedNext
<1>7. ASSUME NEW d \in Command, NEW s \in Session
      PROVE  Due(sessions'[s], submissions'[s], shell'[s], d)
               <= Due(sessions[s], submissions[s], shell[s], d)
                    + (IF s \in L /\ d = c THEN 1 ELSE 0)
  <2> DEFINE before == Due(sessions[s], submissions[s], shell[s], d)
             v == submissions[s]
             p == Purged(v, c)
             g == IF s \in L /\ d = c THEN 1 ELSE 0
             n == before + g
  <2>1. before \in Nat /\ v \in SubmissionStates \cup {None} /\ shell[s] \in Shells
    BY <1>6, DueIs DEF Typed
  <2>2. CASE v = None
    <3>1. submissions'[s] = submissions[s]
      BY <1>3, <2>2
    <3>2. Due(sessions'[s], submissions'[s], shell'[s], d) = before
      BY <1>2, <3>1
    <3> HIDE DEF before, v
    <3> QED BY <2>1, <3>2 DEF before
  <2>3. CASE v # None
    <3>1. submissions'[s] = p /\ v \in SubmissionStates
      BY <1>3, <2>1, <2>3
    <3>2. /\ p \in SubmissionStates /\ p.degraded = v.degraded
          /\ p.last = (IF v.last = c THEN None ELSE v.last)
          /\ Count(d, p.candidates) <= Count(d, v.candidates)
      <4> HIDE DEF v
      <4> QED BY <3>1, PurgedIs
    <3>3. Queue(p) = p.candidates /\ Queue(v) = v.candidates /\ p # None
      BY <2>3, <3>2, Consts DEF Queue
    <3>4. /\ Count(d, Queue(v)) \in Nat /\ Count(d, Queue(v)) <= before
          /\ Expected(sessions[s], v, shell[s], d) \in Nat
          /\ Expected(sessions[s], v, shell[s], d) <= before
          /\ Count(d, shell[s].running) \in Nat
      BY <2>1, DueIs
    <3>5. Count(d, Queue(p)) \in Nat /\ Expected(sessions[s], p, shell[s], d) \in Nat
      BY <2>1, <3>2, DueIs
    <3>6. s \in L <=> v.last = c
      BY <2>3
    <3> HIDE DEF v, p, L
    <3>7. Expected(sessions[s], p, shell[s], d) <= Expected(sessions[s], v, shell[s], d) + g
      BY <2>3, <3>2, <3>3, <3>4, <3>6 DEF Expected
    <3>8. g \in Nat
      OBVIOUS
    <3> HIDE DEF before, g
    <3>9. Count(d, Queue(p)) <= n /\ Expected(sessions[s], p, shell[s], d) <= n
      BY <2>1, <3>2, <3>3, <3>4, <3>5, <3>7, <3>8
    <3> HIDE DEF n
    <3>10. Due(sessions[s], p, shell[s], d) <= n
      BY <3>9, DueBelow
    <3> QED BY <1>2, <3>1, <3>10 DEF n, before, g, v, L
  <2> QED BY <2>2, <2>3
<1>8. ASSUME NEW d \in Command PROVE Out(d)' + allowed[d] <= Out(d) + allowed'[d]
  <2>1. CASE d = c
    <3>1. \A s \in Session : Due(sessions'[s], submissions'[s], shell'[s], d)
             <= Due(sessions[s], submissions[s], shell[s], d) + (IF s \in L THEN 1 ELSE 0)
      BY <1>7, <2>1
    <3>2. L \in SUBSET Session
      OBVIOUS
    <3> HIDE DEF L
    <3>3. /\ DueIn(sessions', submissions', shell', d)
               <= DueIn(sessions, submissions, shell, d) + Cardinality(L)
          /\ Cardinality(L) \in Nat
      BY <1>6, <3>1, <3>2, DueMore
    <3>4. allowed'[d] = allowed[d] + Cardinality(L)
      BY <1>1, <1>2, <2>1 DEF GhostsOK
    <3>5. CarriedIn(tasks', d) + DueIn(sessions', submissions', shell', d) + allowed[d]
            <= CarriedIn(tasks, d) + DueIn(sessions, submissions, shell, d) + allowed'[d]
      BY <1>5, <3>3, <3>4, Terms
    <3> QED BY <1>2, <3>5, OutBy
  <2>2. CASE d # c
    <3>1. \A s \in Session : Due(sessions'[s], submissions'[s], shell'[s], d)
             <= Due(sessions[s], submissions[s], shell[s], d)
      <4>1. \A s \in Session : Due(sessions[s], submissions[s], shell[s], d) \in Nat
        BY <1>6, DueIs DEF Typed
      <4> QED BY <1>7, <2>2, <4>1
    <3>2. DueIn(sessions', submissions', shell', d) <= DueIn(sessions, submissions, shell, d)
      BY <1>6, <3>1, DueLess
    <3>3. allowed'[d] = allowed[d]
      BY <1>1, <1>2, <2>2 DEF GhostsOK
    <3>4. CarriedIn(tasks', d) + DueIn(sessions', submissions', shell', d) + allowed[d]
            <= CarriedIn(tasks, d) + DueIn(sessions, submissions, shell, d) + allowed'[d]
      BY <1>5, <3>2, <3>3, Terms
    <3> QED BY <1>2, <3>4, OutBy
  <2> QED BY <2>1, <2>2
<1> QED BY <1>2, <1>8, SameCopies, BooksStay

(* An entry counts one more use, and one less is still to be counted.       *)
LEMMA AddCounts ==
    ASSUME NEW list \in History, NEW c \in Command,
           NEW A \in [Command -> Nat], NEW B \in [Command -> Nat], NEW C \in [Command -> Nat],
           C[c] + 1 <= B[c], \A d \in Command : C[d] <= B[d] /\ B[d] <= A[d],
           \A e \in ToSet(list) : e.uses + B[e.command] <= A[e.command]
    PROVE  \A e \in ToSet(add(list, c)) : e.uses + C[e.command] <= A[e.command]
<1> SUFFICES ASSUME NEW e \in ToSet(add(list, c)) PROVE e.uses + C[e.command] <= A[e.command]
  OBVIOUS
<1>1. add(list, c) \in History /\ list \in Seq(Entries)
  BY AddIs DEF History
<1>2. e \in Entries /\ ToSet(list) \subseteq Entries
  BY <1>1, SnapshotStored
<1>3. \/ e.command = c /\ e.uses = Uses(c, list) + 1
      \/ \E d \in ToSet(list) : Alike(e, d)
  BY AddIs
<1>4. CASE e.command = c /\ e.uses = Uses(c, list) + 1
  <2>1. A[c] \in Nat /\ B[c] \in Nat /\ C[c] \in Nat /\ B[c] <= A[c]
    OBVIOUS
  <2>2. CASE Uses(c, list) = 0
    BY <1>4, <2>1, <2>2
  <2>3. ASSUME NEW d \in ToSet(list), d.command = c, d.uses = Uses(c, list)
        PROVE  e.uses + C[e.command] <= A[e.command]
    <3>1. d.uses \in Nat /\ d.uses + B[c] <= A[c]
      BY <1>2, <2>3 DEF Entries
    <3> QED BY <1>4, <2>1, <2>3, <3>1
  <2> QED BY <1>1, <2>2, <2>3, UsesType
<1>5. ASSUME NEW d \in ToSet(list), Alike(e, d) PROVE e.uses + C[e.command] <= A[e.command]
  <2>1. /\ d.command \in Command /\ d.uses \in Nat /\ e.command = d.command /\ e.uses = d.uses
        /\ d.uses + B[d.command] <= A[d.command]
    BY <1>2, <1>5 DEF Alike, Entries
  <2>2. /\ A[d.command] \in Nat /\ B[d.command] \in Nat /\ C[d.command] \in Nat
        /\ C[d.command] <= B[d.command]
    BY <2>1
  <2> QED BY <2>1, <2>2
<1> QED BY <1>3, <1>4, <1>5

LEMMA NewCopies ==
    ASSUME UNCHANGED <<disk, worker>>, main'.snapshot = main.snapshot, NEW e \in Copies'
    PROVE  e \in ToSet(entries') \/ e \in Copies
BY DEF Copies

LEMMA AddEntryBooks ==
    ASSUME HInv, HInv', Books, NEW t \in tasks, AddEntry(t)
    PROVE  Books'
<1> DEFINE c == Head(t.todo)
           rest == Tail(t.todo)
<1>1. TasksOK /\ StoreOK /\ GhostsOK
  BY Parts
<1>2. /\ t.pc = "add" /\ entries' = add(entries, c) /\ Becomes(t, "request", rest)
      /\ UNCHANGED <<sessions, submissions, shell, main, allowed, disk, worker>>
  BY DEF AddEntry, saving
<1>3. t.todo \in Seq(Command) /\ t.todo # <<>> /\ t.op # "delete"
  BY <1>1, <1>2 DEF TasksOK, Tasks, TaskOK
<1>4. c \in Command /\ rest \in Seq(Command)
  BY <1>3, CountTail
<1>5. PICK u \in Tasks : u.op = t.op /\ u.todo = rest /\ tasks' = (tasks \ {t}) \cup {u}
  <2>1. Becomes(t, "request", rest)
    BY <1>2
  <2> HIDE DEF rest
  <2> QED BY <1>1, <1>4, <2>1, BecomesIs
<1>6. ASSUME NEW d \in Command
      PROVE  Out(d)' + (IF c = d THEN 1 ELSE 0) <= Out(d)
  <2>1. Carried(t) = t.todo /\ Carried(u) = rest
    BY <1>3, <1>5 DEF Carried
  <2>2. CarriedIn((tasks \ {t}) \cup {u}, d) + Count(d, Carried(t))
          <= CarriedIn(tasks, d) + Count(d, Carried(u))
    BY <1>1, CarriedOn DEF TasksOK
  <2>3. Count(d, rest) + (IF c = d THEN 1 ELSE 0) <= Count(d, t.todo)
    BY <1>3, CountTail
  <2>4. Count(d, rest) \in Nat /\ Count(d, t.todo) \in Nat
    BY <1>3, <1>4, CountType
  <2>5. CarriedIn(tasks', d) + Count(d, t.todo) <= CarriedIn(tasks, d) + Count(d, rest)
    BY <1>5, <2>1, <2>2
  <2> DEFINE g == IF c = d THEN 1 ELSE 0
  <2>6. g \in Nat
    OBVIOUS
  <2> HIDE DEF g, c, rest
  <2>7. CarriedIn(tasks', d) + g <= CarriedIn(tasks, d)
    <3>1. Count(d, rest) + g <= Count(d, t.todo)
      BY <2>3 DEF g
    <3> QED BY <2>4, <2>5, <2>6, <3>1, Terms
  <2>8. /\ Out(d)' = Count(d, main.todo) + CarriedIn(tasks', d)
                        + DueIn(sessions, submissions, shell, d)
        /\ Out(d) = Count(d, main.todo) + CarriedIn(tasks, d)
                        + DueIn(sessions, submissions, shell, d)
    BY <1>2 DEF Out
  <2>9. Out(d)' + g <= Out(d)
    BY <2>6, <2>7, <2>8, Terms
  <2> QED BY <2>9 DEF g
<1> HIDE DEF c, rest
<1> DEFINE B == [d \in Command |-> Out(d)]
           C == [d \in Command |-> Out(d)']
<1>7. /\ allowed \in [Command -> Nat] /\ B \in [Command -> Nat] /\ C \in [Command -> Nat]
      /\ \A d \in Command : B[d] = Out(d) /\ C[d] = Out(d)'
  BY <1>1, BooksTyped, BooksTypedNext DEF GhostsOK
<1>8. \A d \in Command : Out(d) \in Nat /\ Out(d)' \in Nat /\ Out(d)' <= Out(d)
  <2> SUFFICES ASSUME NEW d \in Command PROVE Out(d) \in Nat /\ Out(d)' \in Nat /\ Out(d)' <= Out(d)
    OBVIOUS
  <2>1. Out(d) \in Nat /\ Out(d)' \in Nat
    BY BooksTyped, BooksTypedNext
  <2> QED BY <1>6, <2>1
<1>9. Out(c)' + 1 <= Out(c)
  BY <1>4, <1>6
<1> HIDE DEF B, C
<1>10. /\ C[c] + 1 <= B[c]
       /\ \A d \in Command : C[d] <= B[d] /\ B[d] <= allowed[d]
  BY <1>4, <1>7, <1>8, <1>9 DEF Books, Balanced
<1>11. entries \in History /\ ToSet(entries) \subseteq Entries
  BY <1>1, SnapshotStored DEF StoreOK
<1>12. \A e \in ToSet(entries) : e.uses + B[e.command] <= allowed[e.command]
  <2>1. \A e \in ToSet(entries) : e \in Copies /\ e.command \in Command
    BY <1>11 DEF Copies, Entries
  <2> QED BY <1>7, <2>1 DEF Books, Balanced
<1>13. \A e \in ToSet(entries') : e.uses + C[e.command] <= allowed[e.command]
  BY <1>2, <1>4, <1>7, <1>10, <1>11, <1>12, AddCounts
<1>14. ASSUME NEW d \in Command PROVE Balanced(d)'
  <2>1. /\ Out(d) \in Nat /\ Out(d)' \in Nat /\ Out(d)' <= Out(d)
        /\ allowed[d] \in Nat /\ allowed'[d] = allowed[d]
    BY <1>2, <1>7, <1>8
  <2>2. Out(d) <= allowed[d]
    BY DEF Books, Balanced
  <2>3. ASSUME NEW e \in Copies', e.command = d PROVE e.uses + Out(d)' <= allowed'[d]
    <3>1. CASE e \in ToSet(entries')
      BY <1>7, <1>13, <2>1, <2>3, <3>1
    <3>2. CASE e \in Copies
      <4>1. e.uses \in Nat
        BY <3>2, BooksTyped DEF Entries
      <4>2. e.uses + Out(d) <= allowed[d]
        BY <2>3, <3>2 DEF Books, Balanced
      <4> QED BY <2>1, <4>1, <4>2
    <3>3. main'.snapshot = main.snapshot
      BY <1>2
    <3> QED BY <1>2, <3>1, <3>2, <3>3, NewCopies
  <2>4. Out(d)' <= allowed'[d]
    BY <2>1, <2>2
  <2> QED BY <2>3, <2>4 DEF Balanced
<1> QED BY <1>14 DEF Books

LEMMA SteadyDue ==
    ASSUME HInv, HInv', UNCHANGED <<sessions, submissions, shell, main, allowed>>,
           \A c \in Command : CarriedIn(tasks', c) <= CarriedIn(tasks, c)
    PROVE  \A c \in Command : Out(c)' + allowed[c] <= Out(c) + allowed'[c]
<1> SUFFICES ASSUME NEW c \in Command PROVE Out(c)' + allowed[c] <= Out(c) + allowed'[c]
  OBVIOUS
<1>1. DueIn(sessions', submissions', shell', c) = DueIn(sessions, submissions, shell, c)
  OBVIOUS
<1>2. CarriedIn(tasks', c) <= CarriedIn(tasks, c)
  OBVIOUS
<1>3. CarriedIn(tasks', c) + DueIn(sessions', submissions', shell', c)
         <= CarriedIn(tasks, c) + DueIn(sessions, submissions, shell, c)
  BY <1>1, <1>2, Terms
<1> QED BY <1>3, OutSteady

(* A task ends, or goes on with no more than it had.                        *)
LEMMA CarriesNoMore ==
    ASSUME TasksOK, NEW t \in tasks, NEW c,
           \/ tasks' = tasks \ {t}
           \/ \E u \in Tasks : Carried(u) = Carried(t) /\ tasks' = (tasks \ {t}) \cup {u}
    PROVE  CarriedIn(tasks', c) <= CarriedIn(tasks, c)
<1>1. /\ CarriedIn(tasks, c) = Count(c, Carried(t)) + CarriedIn(tasks \ {t}, c)
      /\ CarriedIn(tasks \ {t}, c) \in Nat /\ Count(c, Carried(t)) \in Nat
  BY CarriedWithout DEF TasksOK
<1>2. CASE tasks' = tasks \ {t}
  BY <1>1, <1>2
<1>3. ASSUME NEW u \in Tasks, Carried(u) = Carried(t), tasks' = (tasks \ {t}) \cup {u}
      PROVE  CarriedIn(tasks', c) <= CarriedIn(tasks, c)
  <2> DEFINE R == tasks \ {t}
  <2>1. R \subseteq Tasks /\ IsFiniteSet(R)
    BY FS_RemoveElement DEF TasksOK
  <2>2. CarriedIn(R \cup {u}, c) <= CarriedIn(R, c) + Count(c, Carried(u))
    <3> HIDE DEF R
    <3> QED BY <2>1, CarriedWith
  <2>3. CarriedIn(tasks', c) <= CarriedIn(R, c) + Count(c, Carried(t))
    BY <1>3, <2>2
  <2> QED BY <1>1, <2>3
<1> QED BY <1>2, <1>3

LEMMA RequestBooks ==
    ASSUME HInv, HInv', Books, NEW t \in tasks, RequestSave(t)
    PROVE  Books'
<1>1. TasksOK
  BY Parts
<1>2. /\ Continue(t, t.todo)
      /\ UNCHANGED <<sessions, submissions, shell, main, allowed, entries, disk, worker>>
  BY DEF RequestSave, store, ghosts
<1>3. t.todo \in Seq(Command)
  BY <1>1 DEF TasksOK, Tasks
<1>4. \/ tasks' = tasks \ {t}
      \/ \E u \in Tasks : u.op = t.op /\ u.todo = t.todo /\ tasks' = (tasks \ {t}) \cup {u}
  BY <1>1, <1>2, <1>3, ContinueIs
<1>5. \/ tasks' = tasks \ {t}
      \/ \E u \in Tasks : Carried(u) = Carried(t) /\ tasks' = (tasks \ {t}) \cup {u}
  BY <1>4 DEF Carried
<1>6. \A c \in Command : CarriedIn(tasks', c) <= CarriedIn(tasks, c)
  BY <1>1, <1>5, CarriesNoMore
<1> QED BY <1>2, <1>6, SteadyDue, SameCopies, BooksStay

LEMMA DeleteEntryBooks ==
    ASSUME HInv, HInv', Books, NEW t \in tasks, DeleteEntry(t)
    PROVE  Books'
<1> DEFINE c == Head(t.todo)
           none == <<>>
<1>1. TasksOK /\ StoreOK
  BY Parts
<1>2. /\ t.pc = "delete" /\ entries' = Ranked(retain(entries, DOMAIN entries \ Places(c, entries)))
      /\ tasks' = tasks \ {t} \/ Becomes(t, "request", none)
      /\ UNCHANGED <<sessions, submissions, shell, main, allowed, disk, worker>>
  BY DEF DeleteEntry, saving
<1>3. t.op = "delete"
  BY <1>1, <1>2 DEF TasksOK, TaskOK
<1>4. \/ tasks' = tasks \ {t}
      \/ \E u \in Tasks : u.op = t.op /\ tasks' = (tasks \ {t}) \cup {u}
  <2>1. none \in Seq(Command)
    BY EmptySeq
  <2> HIDE DEF none
  <2> QED BY <1>1, <1>2, <2>1, BecomesIs
<1>5. \/ tasks' = tasks \ {t}
      \/ \E u \in Tasks : Carried(u) = Carried(t) /\ tasks' = (tasks \ {t}) \cup {u}
  BY <1>3, <1>4 DEF Carried
<1>6. \A d \in Command : CarriedIn(tasks', d) <= CarriedIn(tasks, d)
  BY <1>1, <1>5, CarriesNoMore
<1>7. \A e \in ToSet(entries') : \E d \in ToSet(entries) : Alike(e, d)
  BY <1>1, <1>2, DeletedIs DEF StoreOK
<1>8. \A e \in Copies' : \E d \in Copies : Alike(e, d)
  <2>1. main'.snapshot = main.snapshot /\ ToSet(entries) \subseteq Copies
    BY <1>2 DEF Copies
  <2>2. \A e \in Copies : Alike(e, e)
    BY DEF Alike
  <2> QED BY <1>2, <1>7, <2>1, <2>2, NewCopies
<1> QED BY <1>2, <1>6, <1>8, SteadyDue, BooksStay

LEMMA SubsetAlike ==
    ASSUME Copies' \subseteq Copies
    PROVE  \A e \in Copies' : \E d \in Copies : Alike(e, d)
BY DEF Alike

LEMMA SaveBooks ==
    ASSUME HInv, HInv', Books,
           \/ Debounce \/ PrepareSave \/ WriteSnapshot \/ CheckDirty
           \/ ShutdownSave \/ ShutdownWrite
    PROVE  Books'
<1>1. UNCHANGED <<sessions, submissions, shell, tasks, entries, allowed>>
  BY DEF Debounce, PrepareSave, WriteSnapshot, CheckDirty, ShutdownSave, ShutdownWrite, manager,
         store, ghosts
<1>2. SavingOK
  BY Parts
<1>3. main'.todo = main.todo
  BY <1>2 DEF Debounce, PrepareSave, WriteSnapshot, CheckDirty, ShutdownSave, ShutdownWrite, SavingOK
<1>4. \A c \in Command : Out(c)' = Out(c)
  BY <1>1, <1>3 DEF Out
<1>5. \A c \in Command : Out(c)' + allowed[c] <= Out(c) + allowed'[c]
  <2> SUFFICES ASSUME NEW c \in Command PROVE Out(c)' + allowed[c] <= Out(c) + allowed'[c]
    OBVIOUS
  <2>1. Out(c) \in Nat /\ allowed[c] \in Nat /\ allowed'[c] = allowed[c]
    BY <1>1, BooksTyped, Terms
  <2> QED BY <1>4, <2>1
<1>6. /\ worker'.snapshot \in {worker.snapshot, entries, <<>>}
      /\ main'.snapshot \in {main.snapshot, entries, <<>>}
      /\ disk' \in {disk, ToSet(worker.snapshot), ToSet(main.snapshot)}
  <2>1. CASE Debounce \/ CheckDirty
    BY <1>2, <2>1 DEF Debounce, CheckDirty, WorkerAt, SavingOK
  <2>2. CASE PrepareSave
    BY <1>2, <2>2 DEF PrepareSave, SavingOK
  <2>3. CASE WriteSnapshot
    BY <1>2, <2>3 DEF WriteSnapshot, Write, SavingOK
  <2>4. CASE ShutdownSave
    BY <1>2, <2>4 DEF ShutdownSave, SavingOK
  <2>5. CASE ShutdownWrite
    BY <1>2, <2>5 DEF ShutdownWrite, Write, SavingOK
  <2> QED BY <2>1, <2>2, <2>3, <2>4, <2>5
<1>7. Copies' \subseteq Copies
  <2>1. Copies' = ToSet(entries) \cup ToSet(worker'.snapshot) \cup ToSet(main'.snapshot) \cup disk'
    BY <1>1 DEF Copies
  <2>2. ToSet(worker'.snapshot) \subseteq Copies
    BY <1>6, EmptyHolds DEF Copies
  <2>3. ToSet(main'.snapshot) \subseteq Copies
    BY <1>6, EmptyHolds DEF Copies
  <2>4. disk' \subseteq Copies /\ ToSet(entries) \subseteq Copies
    BY <1>6 DEF Copies
  <2> QED BY <2>1, <2>2, <2>3, <2>4
<1> QED BY <1>5, <1>7, SubsetAlike, BooksStay

LEMMA TakeBooks ==
    ASSUME HInv, HInv', Books, ShutdownTake
    PROVE  Books'
<1>1. SessionsOK /\ SavingOK /\ GhostsOK
  BY Parts
<1>2. /\ main.pc = "idle" /\ UNCHANGED <<sessions, shell, tasks, entries, disk, worker>>
      /\ allowed' = [c \in Command |-> allowed[c] + Count(c, main'.todo)]
      /\ submissions' = [s \in Session |->
            IF submissions[s] = None THEN None ELSE [submissions[s] EXCEPT !.candidates = <<>>]]
  BY DEF ShutdownTake, store
<1>3. PICK q \in Seq(Command) : main' = [main EXCEPT !.pc = "add", !.todo = q]
  BY <1>1, ShutdownTakeIs
<1>4. main'.snapshot = main.snapshot /\ main.todo = <<>>
  BY <1>1, <1>2, <1>3 DEF SavingOK
<1>5. Typed(submissions, shell) /\ Typed(submissions', shell')
  BY BooksTyped, BooksTypedNext
<1>6. ASSUME NEW c \in Command, NEW s \in Session
      PROVE  Due(sessions'[s], submissions'[s], shell'[s], c)
               <= Due(sessions[s], submissions[s], shell[s], c)
  <2> DEFINE v == submissions[s]
             p == [v EXCEPT !.candidates = <<>>]
             before == Due(sessions[s], submissions[s], shell[s], c)
  <2>1. before \in Nat /\ v \in SubmissionStates \cup {None} /\ shell[s] \in Shells
    BY <1>5, DueIs DEF Typed
  <2>2. CASE v = None
    <3>1. submissions'[s] = submissions[s]
      BY <1>2, <2>2
    <3>2. Due(sessions'[s], submissions'[s], shell'[s], c) = before
      BY <1>2, <3>1
    <3> HIDE DEF before, v
    <3> QED BY <2>1, <3>2 DEF before
  <2>3. CASE v # None
    <3>1. submissions'[s] = p /\ v \in SubmissionStates
      BY <1>2, <2>1, <2>3
    <3>2. p.candidates = <<>> /\ p.degraded = v.degraded /\ p.last = v.last
      <4> HIDE DEF v
      <4> QED BY <3>1 DEF SubmissionStates
    <3>3. Queue(p) = <<>>
      BY <3>2 DEF Queue
    <3>4. p # None
      <4>1. <<>> \in {x \in Seq(Command) : Len(x) <= MaxPending}
        BY Consts, EmptySeq
      <4> HIDE DEF v
      <4>2. p \in SubmissionStates
        BY <3>1, <4>1 DEF SubmissionStates
      <4> QED BY <4>2, Consts
    <3>5. /\ Expected(sessions[s], v, shell[s], c) \in Nat
          /\ Expected(sessions[s], v, shell[s], c) <= before
      BY <2>1, DueIs
    <3>6. Expected(sessions[s], p, shell[s], c) = Expected(sessions[s], v, shell[s], c)
      <4> HIDE DEF p, v
      <4> QED BY <2>3, <3>2, <3>4 DEF Expected
    <3>7. Count(c, Queue(p)) <= before /\ Expected(sessions[s], p, shell[s], c) <= before
      <4> HIDE DEF before, p, v
      <4> QED BY <2>1, <3>3, <3>5, <3>6, CountEmpty
    <3>8. Due(sessions[s], p, shell[s], c) <= before
      <4> HIDE DEF before, p, v
      <4> QED BY <3>7, DueBelow
    <3> HIDE DEF p, v
    <3> QED BY <1>2, <3>1, <3>8
  <2> QED BY <2>2, <2>3
<1>7. ASSUME NEW c \in Command PROVE Out(c)' + allowed[c] <= Out(c) + allowed'[c]
  <2>1. DueIn(sessions', submissions', shell', c) <= DueIn(sessions, submissions, shell, c)
    BY <1>5, <1>6, DueLess
  <2>2. allowed'[c] = allowed[c] + Count(c, main'.todo)
    BY <1>2
  <2>3. CarriedIn(tasks', c) = CarriedIn(tasks, c)
    BY <1>2
  <2>4. Out(c)' = Count(c, main'.todo) + CarriedIn(tasks', c)
                     + DueIn(sessions', submissions', shell', c)
    BY BooksTypedNext
  <2>5. Out(c) = Count(c, main.todo) + CarriedIn(tasks, c)
                     + DueIn(sessions, submissions, shell, c)
    BY DEF Out
  <2> DEFINE a == Count(c, main.todo)
             b == Count(c, main'.todo)
             k == CarriedIn(tasks, c)
             x == DueIn(sessions, submissions, shell, c)
             y == DueIn(sessions', submissions', shell', c)
             o == Out(c)
             n == Out(c)'
             u == allowed[c]
             w == allowed'[c]
  <2>6. a \in Nat /\ b \in Nat /\ k \in Nat /\ x \in Nat /\ y \in Nat /\ u \in Nat
    BY Terms
  <2>7. y <= x /\ w = u + b /\ n = b + k + y /\ o = a + k + x
    BY <2>1, <2>2, <2>3, <2>4, <2>5
  <2> HIDE DEF a, b, k, x, y, o, n, u, w
  <2>8. n + u <= o + w
    BY <2>6, <2>7
  <2> QED BY <2>8 DEF n, o, u, w
<1> QED BY <1>2, <1>4, <1>7, SameCopies, BooksStay

(* What the shutdown has still to add after its first n commands.           *)
Rest(todo, n, c) == Cardinality({i \in (n + 1) .. Len(todo) : todo[i] = c})

LEMMA RestIs ==
    ASSUME NEW todo \in Seq(Command), NEW c
    PROVE  /\ \A n \in 0 .. Len(todo) : Rest(todo, n, c) \in Nat /\ Rest(todo, n, c) <= Count(c, todo)
           /\ Rest(todo, 0, c) = Count(c, todo)
           /\ \A n \in 1 .. Len(todo) :
                 Rest(todo, n, c) + (IF todo[n] = c THEN 1 ELSE 0) <= Rest(todo, n - 1, c)
<1> DEFINE k == Len(todo)
           From(n) == {i \in (n + 1) .. k : todo[i] = c}
           All == {i \in DOMAIN todo : todo[i] = c}
<1>1. k \in Nat /\ DOMAIN todo = 1 .. k
  BY LenProperties
<1>2. IsFiniteSet(All) /\ Cardinality(All) = Count(c, todo) /\ Cardinality(All) \in Nat
  BY Positions DEF Count
<1>3. ASSUME NEW n \in 0 .. k
      PROVE  IsFiniteSet(From(n)) /\ Cardinality(From(n)) \in Nat
             /\ Cardinality(From(n)) <= Count(c, todo)
  <2>1. From(n) \in SUBSET All
    BY <1>1
  <2> HIDE DEF From, All
  <2>2. IsFiniteSet(From(n)) /\ Cardinality(From(n)) <= Cardinality(All)
    BY <1>2, <2>1, FS_Subset
  <2> QED BY <1>2, <2>2, FS_CardinalityType
<1>4. From(0) = All
  BY <1>1
<1>5. ASSUME NEW n \in 1 .. k
      PROVE  Rest(todo, n, c) + (IF todo[n] = c THEN 1 ELSE 0) <= Rest(todo, n - 1, c)
  <2>1. n \in 0 .. k /\ n - 1 \in 0 .. k
    BY <1>1
  <2>2. n \notin From(n)
    BY <2>1
  <2>3. From(n - 1) = IF todo[n] = c THEN From(n) \cup {n} ELSE From(n)
    BY <1>1, <2>1
  <2>4. IsFiniteSet(From(n)) /\ Cardinality(From(n)) \in Nat
    BY <1>3, <2>1
  <2>5. Rest(todo, n, c) = Cardinality(From(n)) /\ Rest(todo, n - 1, c) = Cardinality(From(n - 1))
    BY DEF Rest
  <2> HIDE DEF From
  <2>6. Cardinality(From(n) \cup {n}) = Cardinality(From(n)) + 1
    BY <2>2, <2>4, FS_AddElement
  <2> QED BY <2>3, <2>4, <2>5, <2>6
<1>6. \A n \in 0 .. k : Rest(todo, n, c) = Cardinality(From(n))
  BY DEF Rest
<1>7. 0 \in 0 .. k
  BY <1>1
<1> HIDE DEF From, All
<1> QED BY <1>2, <1>3, <1>4, <1>5, <1>6, <1>7

LEMMA ShutdownAddBooks ==
    ASSUME HInv, HInv', Books, ShutdownAdd
    PROVE  Books'
<1> DEFINE todo == main.todo
           k == Len(todo)
           other(d) == CarriedIn(tasks, d) + DueIn(sessions, submissions, shell, d)
<1>1. StoreOK /\ SavingOK /\ GhostsOK
  BY Parts
<1>2. /\ main' = [main EXCEPT !.pc = "save", !.todo = <<>>]
      /\ UNCHANGED <<sessions, submissions, shell, tasks, disk, worker, allowed>>
  BY DEF ShutdownAdd, manager
<1>3. todo \in Seq(Command) /\ k \in Nat
  BY <1>1, LenProperties DEF SavingOK
<1>4. main'.snapshot = main.snapshot /\ main'.todo = <<>>
  BY <1>1, <1>2 DEF SavingOK
<1>5. PICK f : /\ f[0] = entries
               /\ \A n \in 1 .. k : f[n] = add(f[n - 1], todo[n])
               /\ \A n \in 0 .. k : f[n] \in History
               /\ entries' = f[k]
  BY <1>1, <1>3, ShutdownAddIs
<1>6. \A d \in Command : other(d) \in Nat /\ allowed[d] \in Nat
  BY Terms
<1>7. \A d \in Command : Out(d) = Count(d, todo) + other(d) /\ Out(d) <= allowed[d]
  <2> SUFFICES ASSUME NEW d \in Command
               PROVE  Out(d) = Count(d, todo) + other(d) /\ Out(d) <= allowed[d]
    OBVIOUS
  <2>1. Out(d) = Count(d, todo) + other(d)
    BY Terms DEF Out
  <2> QED BY <2>1 DEF Books, Balanced
<1>8. \A d \in Command : Out(d)' = other(d)
  <2> SUFFICES ASSUME NEW d \in Command PROVE Out(d)' = other(d)
    OBVIOUS
  <2>1. Out(d)' = Count(d, <<>>) + CarriedIn(tasks, d) + DueIn(sessions, submissions, shell, d)
    BY <1>2, <1>4, BooksTypedNext
  <2> QED BY <2>1, CountEmpty, Terms
<1>9. \A d \in Command : Count(d, todo) \in Nat
  BY <1>3, CountType
<1> DEFINE Good(n) == \A e \in ToSet(f[n]) :
              e.uses + (Rest(todo, n, e.command) + other(e.command)) <= allowed[e.command]
           Bad == {n \in 0 .. k : ~Good(n)}
<1> HIDE DEF todo, other, k
<1>10. \A d \in Command :
         /\ \A n \in 0 .. k : Rest(todo, n, d) \in Nat /\ Rest(todo, n, d) <= Count(d, todo)
         /\ Rest(todo, 0, d) = Count(d, todo)
         /\ \A n \in 1 .. k :
               Rest(todo, n, d) + (IF todo[n] = d THEN 1 ELSE 0) <= Rest(todo, n - 1, d)
  BY <1>3, RestIs DEF k
<1>11. Good(0)
  <2> SUFFICES ASSUME NEW e \in ToSet(entries)
               PROVE  e.uses + (Rest(todo, 0, e.command) + other(e.command)) <= allowed[e.command]
    BY <1>5
  <2>1. e \in Copies /\ e.command \in Command
    BY <1>1, SnapshotStored DEF StoreOK, Copies, Entries
  <2>2. e.uses + Out(e.command) <= allowed[e.command]
    BY <2>1 DEF Books, Balanced
  <2> QED BY <1>7, <1>10, <2>1, <2>2
<1>12. ASSUME NEW n \in 1 .. k, Good(n - 1) PROVE Good(n)
  <2> DEFINE B == [d \in Command |-> Rest(todo, n - 1, d) + other(d)]
             C == [d \in Command |-> Rest(todo, n, d) + other(d)]
             list == f[n - 1]
             c == todo[n]
  <2>1. n \in 0 .. k /\ n - 1 \in 0 .. k
    BY <1>3
  <2>2. c \in Command /\ list \in History /\ f[n] = add(list, c)
    BY <1>3, <1>5, <2>1, ElementOfSeq DEF k
  <2>3. \A d \in Command :
          /\ B[d] \in Nat /\ C[d] \in Nat /\ C[d] + (IF c = d THEN 1 ELSE 0) <= B[d]
          /\ C[d] <= B[d] /\ B[d] <= allowed[d]
    <3> SUFFICES ASSUME NEW d \in Command
                 PROVE /\ B[d] \in Nat /\ C[d] \in Nat /\ C[d] + (IF c = d THEN 1 ELSE 0) <= B[d]
                       /\ C[d] <= B[d] /\ B[d] <= allowed[d]
      OBVIOUS
    <3> DEFINE now == Rest(todo, n, d)
               then == Rest(todo, n - 1, d)
               g == IF c = d THEN 1 ELSE 0
    <3>1. /\ now \in Nat /\ then \in Nat /\ other(d) \in Nat /\ allowed[d] \in Nat
          /\ now + g <= then /\ then <= Count(d, todo) /\ Count(d, todo) \in Nat
      BY <1>6, <1>9, <1>10, <2>1
    <3>2. Count(d, todo) + other(d) <= allowed[d]
      BY <1>7
    <3>3. B[d] = then + other(d) /\ C[d] = now + other(d)
      OBVIOUS
    <3> HIDE DEF B, C, now, then
    <3> QED BY <3>1, <3>2, <3>3
  <2>4. B \in [Command -> Nat] /\ C \in [Command -> Nat] /\ allowed \in [Command -> Nat]
    BY <1>1, <2>3 DEF GhostsOK
  <2>5. \A e \in ToSet(list) : e.uses + B[e.command] <= allowed[e.command]
    <3>1. \A e \in ToSet(list) : e.command \in Command
      BY <2>2, SnapshotStored DEF Entries
    <3> QED BY <1>12, <3>1
  <2>6. C[c] + 1 <= B[c]
    BY <2>2, <2>3
  <2>7. \A e \in ToSet(f[n]) : e.uses + C[e.command] <= allowed[e.command]
    <3> HIDE DEF B, C, list, c
    <3> QED BY <2>2, <2>3, <2>4, <2>5, <2>6, AddCounts
  <2>8. \A e \in ToSet(f[n]) : e.command \in Command
    BY <1>5, <2>1, SnapshotStored DEF Entries
  <2> QED BY <2>7, <2>8
<1>13. Bad = {}
  <2> SUFFICES ASSUME Bad # {} PROVE FALSE
    OBVIOUS
  <2>1. PICK n \in Bad : \A i \in Bad : n <= i
    <3>1. Bad \in SUBSET Nat
      BY <1>3
    <3> HIDE DEF Bad
    <3> QED BY <3>1, LeastNatural
  <2>2. n \in 0 .. k /\ ~Good(n)
    OBVIOUS
  <2> HIDE DEF Good
  <2>3. n # 0
    BY <1>11, <2>2
  <2>4. n \in 1 .. k /\ n - 1 \in 0 .. k /\ ~(n <= n - 1)
    BY <1>3, <2>2, <2>3
  <2>5. Good(n - 1)
    BY <2>1, <2>4
  <2> QED BY <1>12, <2>2, <2>4, <2>5
<1>14. Good(k)
  BY <1>3, <1>13
<1>15. \A e \in ToSet(entries') : e.command \in Command /\ e.uses \in Nat
         /\ e.uses + other(e.command) <= allowed[e.command]
  <2> SUFFICES ASSUME NEW e \in ToSet(entries')
               PROVE /\ e.command \in Command /\ e.uses \in Nat
                     /\ e.uses + other(e.command) <= allowed[e.command]
    OBVIOUS
  <2>1. k \in 0 .. k
    BY <1>3
  <2>2. e.command \in Command /\ e.uses \in Nat
    BY <1>5, <2>1, SnapshotStored DEF Entries
  <2>3. e.uses + (Rest(todo, k, e.command) + other(e.command)) <= allowed[e.command]
    BY <1>5, <1>14
  <2>4. Rest(todo, k, e.command) \in Nat /\ other(e.command) \in Nat /\ allowed[e.command] \in Nat
    BY <1>6, <1>10, <2>1, <2>2
  <2> QED BY <2>2, <2>3, <2>4
<1>16. ASSUME NEW d \in Command PROVE Balanced(d)'
  <2>1. /\ other(d) \in Nat /\ allowed[d] \in Nat /\ allowed'[d] = allowed[d]
        /\ Count(d, todo) \in Nat /\ Count(d, todo) + other(d) <= allowed[d] /\ Out(d)' = other(d)
    BY <1>2, <1>6, <1>7, <1>8, <1>9
  <2>2. Out(d)' <= allowed'[d]
    BY <2>1
  <2>3. ASSUME NEW e \in Copies', e.command = d PROVE e.uses + Out(d)' <= allowed'[d]
    <3>1. CASE e \in ToSet(entries')
      BY <1>15, <2>1, <2>3, <3>1
    <3>2. CASE e \in Copies
      <4>1. e.uses \in Nat
        BY <3>2, BooksTyped DEF Entries
      <4>2. e.uses + (Count(d, todo) + other(d)) <= allowed[d]
        BY <1>7, <2>3, <3>2 DEF Books, Balanced
      <4> QED BY <2>1, <4>1, <4>2
    <3> QED BY <1>2, <1>4, <3>1, <3>2, NewCopies
  <2> QED BY <2>2, <2>3 DEF Balanced
<1> QED BY <1>16 DEF Books

LEMMA ReloadBooks ==
    ASSUME HInv, HInv', Books, reload_history_from_storage
    PROVE  Books'
<1>1. StoreOK
  BY Parts
<1>2. /\ entries' = load.entries
      /\ UNCHANGED <<sessions, submissions, shell, tasks, disk, worker, main, allowed>>
  BY DEF reload_history_from_storage, manager, saving
<1>3. ToSet(entries') \subseteq Copies
  <2>1. ToSet(Stored) \subseteq disk
    BY <1>1, StoredIs DEF StoreOK
  <2>2. entries' = entries \/ entries' = Stored
    BY <1>2 DEF load
  <2> QED BY <2>1, <2>2 DEF Copies
<1>4. Copies' \subseteq Copies
  BY <1>2, <1>3, NewCopies
<1>5. \A c \in Command : CarriedIn(tasks', c) <= CarriedIn(tasks, c)
  BY <1>2, Terms
<1> QED BY <1>2, <1>4, <1>5, SubsetAlike, SteadyDue, BooksStay

LEMMA RestartBooks ==
    ASSUME HInv, HInv', Books, Restart
    PROVE  Books'
<1>1. StoreOK
  BY Parts
<1>2. /\ submissions' = [s \in Session |-> None]
      /\ shell' = [s \in Session |-> [running |-> <<>>, reported |-> None]]
      /\ tasks' = {} /\ entries' = Stored /\ worker'.snapshot = <<>>
      /\ main'.todo = <<>> /\ main'.snapshot = <<>>
      /\ UNCHANGED <<disk, allowed>>
  BY DEF Restart, Idle
<1>3. Copies' \subseteq Copies
  <2>1. ToSet(Stored) \subseteq disk
    BY <1>1, StoredIs DEF StoreOK
  <2>2. Copies' = ToSet(Stored) \cup {} \cup {} \cup disk
    BY <1>2, EmptyHolds DEF Copies
  <2> QED BY <2>1, <2>2 DEF Copies
<1>4. Typed(submissions, shell) /\ Typed(submissions', shell')
  BY BooksTyped, BooksTypedNext
<1>5. ASSUME NEW c \in Command PROVE Out(c)' + allowed[c] <= Out(c) + allowed'[c]
  <2>1. ASSUME NEW s \in Session
        PROVE  Due(sessions'[s], submissions'[s], shell'[s], c)
                 <= Due(sessions[s], submissions[s], shell[s], c)
    <3>1. submissions'[s] = None /\ Queue(None) = <<>> /\ Expected(sessions'[s], None, shell'[s], c) = 0
      BY <1>2 DEF Queue, Expected
    <3>2. Due(sessions'[s], submissions'[s], shell'[s], c) = 0
      BY <3>1, CountEmpty DEF Due
    <3>3. Due(sessions[s], submissions[s], shell[s], c) \in Nat
      BY <1>4, DueIs DEF Typed
    <3> QED BY <3>2, <3>3
  <2>2. DueIn(sessions', submissions', shell', c) <= DueIn(sessions, submissions, shell, c)
    BY <1>4, <2>1, DueLess
  <2>3. CarriedIn(tasks', c) = 0 /\ Count(c, main'.todo) = 0
    BY <1>2, CarriedNone, CountEmpty
  <2>4. Out(c)' = Count(c, main'.todo) + CarriedIn(tasks', c)
                     + DueIn(sessions', submissions', shell', c)
    BY BooksTypedNext
  <2>5. Out(c) = Count(c, main.todo) + CarriedIn(tasks, c)
                     + DueIn(sessions, submissions, shell, c)
    BY DEF Out
  <2>6. allowed'[c] = allowed[c]
    BY <1>2
  <2> QED BY <2>2, <2>3, <2>4, <2>5, <2>6, Terms
<1> QED BY <1>3, <1>5, SubsetAlike, BooksStay

LEMMA NextBooks ==
    ASSUME HInv, HInv', Books, [Next]_vars
    PROVE  Books'
<1>1. ASSUME NEW s \in Session,
             \/ add_session(s) \/ Report(s) \/ remove_session(s)
             \/ \E c \in Command : register_command_submission(s, c)
      PROVE  Books'
  BY <1>1, AddSessionBooks, ReportBooks, RemoveBooks, RegisterBooks
<1>2. CASE \E c \in Command : delete_history_command(c)
  BY <1>2, DeleteBooks
<1>3. CASE \E t \in tasks : TaskStep(t)
  BY <1>3, AddEntryBooks, RequestBooks, FlushBooks, DropBooks, DeleteEntryBooks DEF TaskStep
<1>4. CASE SaveStep
  BY <1>4, SaveBooks, TakeBooks, ShutdownAddBooks DEF SaveStep
<1>5. CASE reload_history_from_storage \/ Restart
  BY <1>5, ReloadBooks, RestartBooks
<1>6. CASE UNCHANGED vars
  <2>1. UNCHANGED <<sessions, submissions, shell, tasks, main, allowed, entries, disk, worker>>
    BY <1>6 DEF vars, manager, store, saving, ghosts
  <2>2. \A c \in Command : CarriedIn(tasks', c) <= CarriedIn(tasks, c)
    BY <2>1, Terms
  <2> QED BY <2>1, <2>2, SteadyDue, SameCopies, BooksStay
<1> QED BY <1>1, <1>2, <1>3, <1>4, <1>5, <1>6 DEF Next

LEMMA InitBooks ==
    ASSUME Init
    PROVE  Books
<1>1. HInv
  BY InitTyped
<1>2. Typed(submissions, shell)
  BY <1>1, BooksTyped
<1>3. Copies = {}
  BY EmptyHolds DEF Init, Copies, Idle
<1>4. ASSUME NEW c \in Command PROVE Out(c) = 0 /\ allowed[c] = 0
  <2> DEFINE f == [s \in Session |-> Due(sessions[s], submissions[s], shell[s], c)]
  <2>1. \A s \in Session : Due(sessions[s], submissions[s], shell[s], c) = 0
    <3> SUFFICES ASSUME NEW s \in Session
                 PROVE  Due(sessions[s], submissions[s], shell[s], c) = 0
      OBVIOUS
    <3>1. submissions[s] = None /\ Queue(None) = <<>> /\ Expected(sessions[s], None, shell[s], c) = 0
      BY DEF Init, Queue, Expected
    <3> QED BY <3>1, CountEmpty DEF Due
  <2>2. f \in [Session -> Nat] /\ \A s \in Session : f[s] = 0 /\ DOMAIN f = Session
    BY <2>1
  <2>3. Sum(f) = 0
    <3> HIDE DEF f
    <3>1. Sum(f) = Cardinality(Boxes(f)) /\ Boxes(f) = {}
      <4>1. Sum(f) = Cardinality(Boxes(f))
        BY <2>2, Consts, BoxesFinite
      <4>2. \A p : p \notin Boxes(f)
        BY <2>2, InBoxes
      <4> QED BY <4>1, <4>2
    <3> QED BY <3>1, FS_EmptySet
  <2>4. DueIn(sessions, submissions, shell, c) = 0
    BY <2>3 DEF DueIn
  <2>5. CarriedIn(tasks, c) = 0 /\ Count(c, main.todo) = 0 /\ allowed[c] = 0
    BY CarriedNone, CountEmpty DEF Init
  <2> QED BY <2>4, <2>5 DEF Out
<1> QED BY <1>3, <1>4 DEF Books, Balanced

LEMMA BooksClose ==
    ASSUME HInv, Books
    PROVE  CountedOnce
<1> SUFFICES ASSUME NEW c \in Command PROVE Counted(c) <= allowed[c]
  BY DEF CountedOnce
<1>1. SessionsOK /\ StoreOK /\ GhostsOK
  BY Parts
<1> DEFINE f == [s \in Session |-> Count(c, Candidates(s))]
           g == [s \in Session |-> Due(sessions[s], submissions[s], shell[s], c)]
           q == Sum(f)
<1>2. \A s \in Session : Candidates(s) = Queue(submissions[s])
  BY DEF Candidates, Queue
<1>3. \A s \in Session : /\ Count(c, Queue(submissions[s])) \in Nat
                         /\ Due(sessions[s], submissions[s], shell[s], c) \in Nat
                         /\ Count(c, Queue(submissions[s]))
                              <= Due(sessions[s], submissions[s], shell[s], c)
  BY BooksTyped, DueIs DEF Typed
<1>4. /\ f \in [Session -> Nat] /\ g \in [Session -> Nat] /\ \A s \in Session : f[s] <= g[s]
  BY <1>2, <1>3
<1>5. q \in Nat /\ q <= Sum(g)
  <2> HIDE DEF f, g
  <2> QED BY <1>4, Consts, SumGrows, BoxesFinite
<1>6. Sum(g) = DueIn(sessions, submissions, shell, c)
  BY DEF DueIn
<1>7. Counted(c) = Uses(c, entries) + Count(c, main.todo) + CarriedIn(tasks, c) + q
  BY DEF Counted, CarriedIn
<1>8. /\ Count(c, main.todo) \in Nat /\ CarriedIn(tasks, c) \in Nat /\ allowed[c] \in Nat
      /\ DueIn(sessions, submissions, shell, c) \in Nat
      /\ Out(c) = Count(c, main.todo) + CarriedIn(tasks, c) + DueIn(sessions, submissions, shell, c)
  BY <1>1, BooksTyped DEF Out, GhostsOK
<1> HIDE DEF f, g, q
<1>9. Uses(c, entries) \in Nat /\ Uses(c, entries) + Out(c) <= allowed[c]
  <2>1. entries \in Seq(Entries)
    BY <1>1 DEF StoreOK, History
  <2>2. Out(c) <= allowed[c] /\ Out(c) \in Nat
    BY <1>8 DEF Books, Balanced
  <2>3. \A e \in ToSet(entries) : e.command = c => e.uses + Out(c) <= allowed[c]
    BY DEF Books, Balanced, Copies
  <2>4. /\ Uses(c, entries) \in Nat
        /\ \/ Uses(c, entries) = 0
           \/ \E e \in ToSet(entries) : e.command = c /\ e.uses = Uses(c, entries)
    BY <2>1, UsesType
  <2> QED BY <2>2, <2>3, <2>4
<1> QED BY <1>5, <1>6, <1>7, <1>8, <1>9

(* What an entry counts, with what queues, tasks and the shutdown will      *)
(* still add to it, is never more than the submissions of its command (and  *)
(* the reports that come after a deletion or the start of the shutdown).    *)
THEOREM CommandsCountedOnce == Spec => []CountedOnce
<1>1. Init => Books
  BY InitBooks
<1>2. HInv /\ HInv' /\ Books /\ [Next]_vars => Books'
  BY NextBooks
<1>3. HInv /\ Books => CountedOnce
  BY BooksClose
<1> QED BY <1>1, <1>2, <1>3, HistoryShapes, PTL DEF Spec

-----------------------------------------------------------------------------
(* No change waits without a save under way.                                *)

(* Whoever takes part in saving has a program counter.                      *)
Shapes ==
    /\ "pc" \in DOMAIN worker
    /\ "pc" \in DOMAIN main
    /\ \A t \in tasks : "pc" \in DOMAIN t

IInv == Shapes /\ SaveUnderWay

(* A step of a task that is not the request of a save, or the start of a    *)
(* task, leaves the requests of the others.                                 *)
LEMMA OthersGoOn ==
    ASSUME IInv, NEW t \in tasks, t.pc # "request",
           \A u \in tasks : u # t => u \in tasks',
           \A u \in tasks' : "pc" \in DOMAIN u,
           dirty' = dirty, UNCHANGED saving
    PROVE  IInv'
BY SMT DEF IInv, Shapes, SaveUnderWay, saving

LEMMA TasksGrow ==
    ASSUME IInv, tasks \subseteq tasks', \A u \in tasks' : "pc" \in DOMAIN u,
           dirty' = dirty, UNCHANGED saving
    PROVE  IInv'
BY SMT DEF IInv, Shapes, SaveUnderWay, saving

LEMMA StartGrows ==
    ASSUME IInv, NEW op, NEW io, NEW pc, NEW todo, Start(op, io, pc, todo)
    PROVE  tasks \subseteq tasks' /\ \A u \in tasks' : "pc" \in DOMAIN u
BY SMT DEF IInv, Shapes, Start

(* What Becomes leaves: the other tasks, and this one at its new place.     *)
LEMMA BecomesShape ==
    ASSUME IInv, NEW t \in tasks, NEW pc, NEW todo, Becomes(t, pc, todo)
    PROVE  /\ \A u \in tasks : u # t => u \in tasks'
           /\ \A u \in tasks' : "pc" \in DOMAIN u
           /\ \E u \in tasks' : u.pc = pc
<1> DEFINE v == [t EXCEPT !.pc = pc, !.todo = todo]
<1>1. "pc" \in DOMAIN v /\ v.pc = pc
  BY SMT DEF IInv, Shapes
<1>2. tasks' = (tasks \ {t}) \cup {v}
  BY DEF Becomes
<1> HIDE DEF v
<1> QED BY <1>1, <1>2, SMT DEF IInv, Shapes

LEMMA ContinueShape ==
    ASSUME IInv, NEW t \in tasks, NEW todo, Continue(t, todo)
    PROVE  /\ \A u \in tasks : u # t => u \in tasks'
           /\ \A u \in tasks' : "pc" \in DOMAIN u
<1>1. CASE todo # <<>>
  <2>1. Becomes(t, "add", todo) BY <1>1, SMT DEF Continue
  <2> QED BY <2>1, BecomesShape
<1>2. CASE todo = <<>> /\ t.op = "remove"
  <2>1. Becomes(t, "drop", <<>>) BY <1>2, SMT DEF Continue
  <2> QED BY <2>1, BecomesShape
<1>3. CASE todo = <<>> /\ t.op # "remove"
  <2>1. tasks' = tasks \ {t} BY <1>3, SMT DEF Continue
  <2> QED BY <2>1, SMT DEF IInv, Shapes
<1> QED BY <1>1, <1>2, <1>3

(* The sessions and the submissions change nothing that is saved.           *)
LEMMA SessionStep ==
    ASSUME IInv, NEW s \in Session,
           \/ add_session(s) \/ Report(s) \/ remove_session(s)
           \/ \E c \in Command : register_command_submission(s, c)
    PROVE  IInv'
<1>1. CASE add_session(s)
  BY <1>1, TasksGrow, SMT DEF add_session, store, IInv, Shapes
<1>2. CASE Report(s)
  <2>1. ASSUME NEW c, confirm_command_submission(s, c)
        PROVE  tasks \subseteq tasks' /\ \A u \in tasks' : "pc" \in DOMAIN u
    <3>1. tasks' = tasks \/ Start("add", s, "add", <<c>>)
      BY <2>1, SMT DEF confirm_command_submission
    <3> QED BY <3>1, StartGrows, SMT DEF IInv, Shapes
  <2>2. PICK c : confirm_command_submission(s, c)
    BY <1>2 DEF Report
  <2>3. dirty' = dirty /\ UNCHANGED saving
    BY <1>2 DEF Report, store
  <2> QED BY <2>1, <2>2, <2>3, TasksGrow
<1>3. CASE remove_session(s)
  <2>1. Start("remove", s, "flush", <<>>) /\ dirty' = dirty /\ UNCHANGED saving
    BY <1>3 DEF remove_session, store
  <2> QED BY <2>1, StartGrows, TasksGrow
<1>4. ASSUME NEW c \in Command, register_command_submission(s, c)
      PROVE  IInv'
  <2>1. dirty' = dirty /\ UNCHANGED saving
    BY <1>4 DEF register_command_submission, store
  <2>2. \/ tasks' = tasks
        \/ \E todo : Start("add", None, "add", todo)
    BY <1>4 DEF register_command_submission
  <2>3. CASE tasks' = tasks
    BY <2>1, <2>3, TasksGrow, SMT DEF IInv, Shapes
  <2>4. CASE \E todo : Start("add", None, "add", todo)
    BY <2>1, <2>4, StartGrows, TasksGrow
  <2> QED BY <2>2, <2>3, <2>4
<1> QED BY <1>1, <1>2, <1>3, <1>4

(* A task that has changed the store goes on to its request; a request      *)
(* leaves a permit; the others touch neither.                               *)
LEMMA TaskKeeps ==
    ASSUME IInv, NEW t \in tasks, TaskStep(t)
    PROVE  IInv'
<1>1. CASE AddEntry(t)
  <2>1. Becomes(t, "request", Tail(t.todo)) /\ UNCHANGED saving
    BY <1>1 DEF AddEntry
  <2> QED BY <2>1, BecomesShape, SMT DEF IInv, Shapes, SaveUnderWay, saving
<1>2. CASE RequestSave(t)
  <2>1. permit' = TRUE /\ Continue(t, t.todo) /\ worker' = worker /\ main' = main
    BY <1>2 DEF RequestSave
  <2> QED BY <2>1, ContinueShape, SMT DEF IInv, Shapes, SaveUnderWay
<1>3. CASE flush_pending_submission(t)
  <2>1. /\ t.pc = "flush" /\ \E todo : Continue(t, todo)
        /\ dirty' = dirty /\ UNCHANGED saving
    BY <1>3 DEF flush_pending_submission, store
  <2> QED BY <2>1, ContinueShape, OthersGoOn
<1>4. CASE DropSubmissions(t)
  <2>1. /\ t.pc = "drop" /\ tasks' = tasks \ {t}
        /\ dirty' = dirty /\ UNCHANGED saving
    BY <1>4 DEF DropSubmissions, store
  <2>2. \A u \in tasks : u # t => u \in tasks'
    BY <2>1
  <2>3. \A u \in tasks' : "pc" \in DOMAIN u
    BY <2>1 DEF IInv, Shapes
  <2> QED BY <2>1, <2>2, <2>3, OthersGoOn
<1>5. CASE DeleteEntry(t)
  <2>1. t.pc = "delete" /\ UNCHANGED saving
    BY <1>5 DEF DeleteEntry
  <2>2. CASE Len(entries') = Len(entries)
    <3>1. tasks' = tasks \ {t} /\ dirty' = dirty
      BY <1>5, <2>2 DEF DeleteEntry
    <3>2. \A u \in tasks : u # t => u \in tasks'
      BY <3>1
    <3>3. \A u \in tasks' : "pc" \in DOMAIN u
      BY <3>1 DEF IInv, Shapes
    <3> QED BY <2>1, <3>1, <3>2, <3>3, OthersGoOn
  <2>3. CASE Len(entries') # Len(entries)
    <3>1. Becomes(t, "request", <<>>)
      BY <1>5, <2>3 DEF DeleteEntry
    <3> QED BY <2>1, <3>1, BecomesShape, SMT DEF IInv, Shapes, SaveUnderWay, saving
  <2> QED BY <2>2, <2>3
<1> QED BY <1>1, <1>2, <1>3, <1>4, <1>5 DEF TaskStep

(* Worker and main thread: what one of them takes over, it prepares.        *)
LEMMA SaveKeeps ==
    ASSUME IInv, SaveStep
    PROVE  IInv'
<1> USE DEF IInv, Shapes, SaveUnderWay, manager, store
<1>1. CASE Debounce
  BY <1>1, SMT DEF Debounce, WorkerAt
<1>2. CASE PrepareSave
  BY <1>2, SMT DEF PrepareSave
<1>3. CASE WriteSnapshot
  BY <1>3, SMT DEF WriteSnapshot
<1>4. CASE CheckDirty
  BY <1>4, SMT DEF CheckDirty, WorkerAt
<1>5. CASE ShutdownTake
  BY <1>5, SMT DEF ShutdownTake
<1>6. CASE ShutdownAdd
  BY <1>6, SMT DEF ShutdownAdd
<1>7. CASE ShutdownSave
  BY <1>7, SMT DEF ShutdownSave
<1>8. CASE ShutdownWrite
  BY <1>8, SMT DEF ShutdownWrite
<1> QED BY <1>1, <1>2, <1>3, <1>4, <1>5, <1>6, <1>7, <1>8 DEF SaveStep

(* Initially, and after every step of sessions, tasks, worker, main thread, *)
(* pulls and restarts, the invariant holds.                                 *)
THEOREM HistoryInductive == Spec => []IInv
<1>1. Init => IInv
  BY SMT DEF Init, Idle, IInv, Shapes, SaveUnderWay
<1>2. IInv /\ [Next]_vars => IInv'
  <2> SUFFICES ASSUME IInv, [Next]_vars PROVE IInv'
    OBVIOUS
  <2>1. CASE \E s \in Session :
               \/ add_session(s) \/ Report(s) \/ remove_session(s)
               \/ \E c \in Command : register_command_submission(s, c)
    BY <2>1, SessionStep
  <2>2. ASSUME NEW c \in Command, delete_history_command(c)
        PROVE  IInv'
    <3>1. Start("delete", None, "delete", <<c>>) /\ dirty' = dirty /\ UNCHANGED saving
      BY <2>2 DEF delete_history_command, store
    <3> QED BY <3>1, StartGrows, TasksGrow
  <2>3. CASE \E t \in tasks : TaskStep(t)
    BY <2>3, TaskKeeps
  <2>4. CASE SaveStep
    BY <2>4, SaveKeeps
  <2>5. CASE reload_history_from_storage
    <3>1. dirty' = dirty \/ dirty' = FALSE
      BY <2>5, SMT DEF reload_history_from_storage, load
    <3>2. UNCHANGED <<tasks, permit, worker, main>>
      BY <2>5 DEF reload_history_from_storage, manager, saving
    <3> QED BY <3>1, <3>2, SMT DEF IInv, Shapes, SaveUnderWay
  <2>6. CASE Restart
    BY <2>6, SMT DEF Restart, Idle, IInv, Shapes, SaveUnderWay
  <2>7. CASE UNCHANGED vars
    BY <2>7 DEF vars, manager, store, saving, IInv, Shapes, SaveUnderWay
  <2> QED BY <2>1, <2>2, <2>3, <2>4, <2>5, <2>6, <2>7 DEF Next
<1> QED BY <1>1, <1>2, PTL DEF Spec

(* request_history_save, the debouncing worker and the flush at shutdown:   *)
(* a history that differs from what was last prepared for saving is never   *)
(* left to itself.                                                          *)
THEOREM NoForgottenSave == Spec => []SaveUnderWay
<1>1. IInv => SaveUnderWay
  BY DEF IInv
<1> QED BY <1>1, HistoryInductive, PTL
=============================================================================
