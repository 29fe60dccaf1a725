---------------------------- MODULE OrderedProofs ----------------------------
(***************************************************************************)
(* Facts about the operators of Ordered: ascending sequences hold the set  *)
(* they are made of, are determined by it, and join when their sets do.    *)
(***************************************************************************)
EXTENDS Ordered, Sequences, FiniteSetTheorems, WellFoundedInduction, SequenceTheorems, TLAPS

\* The natural numbers are well-founded: a set of them has a least element.
LEMMA LeastNatural ==
  ASSUME NEW S \in SUBSET Nat, S # {}
  PROVE  \E n \in S : \A m \in S : n <= m
<1> DEFINE R == {p \in Nat \X Nat : p[1] < p[2]}
<1>1. IsWellFoundedOn(R, Nat)
  BY NatLessThanWellFounded DEF OpToRel
<1>2. ASSUME NEW m \in Nat, NEW n \in Nat, <<m, n>> \notin R PROVE n <= m
  BY <1>2
<1> HIDE DEF R
<1>3. PICK n \in S : \A m \in S : <<m, n>> \notin R
  BY <1>1, WFMin
<1> QED
  BY <1>2, <1>3

\* The rank of a member is among 1 to the size of the set, and grows with the member.
LEMMA RankGrows ==
  ASSUME NEW S \in SUBSET Nat, IsFiniteSet(S)
  PROVE  /\ \A x \in S : Rank(S, x) \in 1..Cardinality(S)
         /\ \A x, z \in S : x < z => Rank(S, x) < Rank(S, z)
<1> DEFINE To(x) == {y \in S : y <= x}
<1>1. Cardinality(S) \in Nat
  BY FS_CardinalityType
<1>2. \A x \in S : /\ IsFiniteSet(To(x)) /\ Cardinality(To(x)) \in Nat
                   /\ Cardinality(To(x)) <= Cardinality(S) /\ Rank(S, x) = Cardinality(To(x))
  <2> SUFFICES ASSUME NEW x \in S
               PROVE  /\ IsFiniteSet(To(x)) /\ Cardinality(To(x)) \in Nat
                      /\ Cardinality(To(x)) <= Cardinality(S) /\ Rank(S, x) = Cardinality(To(x))
    OBVIOUS
  <2>1. To(x) \subseteq S
    BY DEF To
  <2>2. Rank(S, x) = Cardinality(To(x))
    BY DEF Rank
  <2> HIDE DEF To
  <2>3. IsFiniteSet(To(x)) /\ Cardinality(To(x)) <= Cardinality(S)
    BY <2>1, FS_Subset
  <2> QED
    BY <2>2, <2>3, FS_CardinalityType
<1>3. \A x \in S : x \in To(x)
  OBVIOUS
<1>4. \A x, z \in S : x < z => To(x) \cup {z} \subseteq To(z) /\ z \notin To(x)
  <2> SUFFICES ASSUME NEW x \in S, NEW z \in S, x < z
               PROVE  To(x) \cup {z} \subseteq To(z) /\ z \notin To(x)
    OBVIOUS
  <2>1. \A y \in S : y \in Nat
    OBVIOUS
  <2>2. \A y \in S : y <= x => y <= z
    BY <2>1
  <2>3. z <= z /\ ~(z <= x)
    BY <2>1
  <2> QED
    BY <2>2, <2>3
<1> HIDE DEF To
<1>5. \A x \in S : Cardinality(To(x)) # 0
  BY <1>2, <1>3, FS_EmptySet
<1>6. ASSUME NEW x \in S, NEW z \in S, x < z
      PROVE  Rank(S, x) < Rank(S, z)
  <2>1. Cardinality(To(x) \cup {z}) = Cardinality(To(x)) + 1 /\ IsFiniteSet(To(x) \cup {z})
    BY <1>2, <1>4, <1>6, FS_AddElement
  <2>2. Cardinality(To(x) \cup {z}) <= Cardinality(To(z))
    BY <1>2, <1>4, <1>6, FS_Subset
  <2> QED
    BY <1>2, <2>1, <2>2
<1> QED
  BY <1>1, <1>2, <1>5, <1>6

\* An ascending sequence has the members of the set, each once, in order.
LEMMA AscendingFacts ==
  ASSUME NEW S \in SUBSET Nat, IsFiniteSet(S)
  PROVE  /\ Cardinality(S) \in Nat
         /\ Ascending(S) \in Seq(S) /\ Len(Ascending(S)) = Cardinality(S)
         /\ Ascending(S) \in [1..Cardinality(S) -> S]
         /\ \A x \in S : \E n \in 1..Cardinality(S) : Ascending(S)[n] = x
         /\ \A m, n \in 1..Cardinality(S) : m < n => Ascending(S)[m] < Ascending(S)[n]
<1> DEFINE r == [x \in S |-> Rank(S, x)]
           N == Cardinality(S)
           A == Ascending(S)
<1>0. \A x \in S : x \in Nat
  OBVIOUS
<1>1. N \in Nat
  BY FS_CardinalityType
<1>2. /\ r \in [S -> 1..N]
      /\ \A x \in S : r[x] = Rank(S, x)
      /\ \A x, z \in S : x < z => r[x] < r[z]
  BY RankGrows
<1>3. A = [n \in 1..N |-> CHOOSE x \in S : Rank(S, x) = n]
  BY DEF Ascending
<1>4. IsFiniteSet(1..N) /\ Cardinality(1..N) = N
  BY <1>1, FS_Interval
<1> HIDE DEF r, A
<1>5. r \in Injection(S, 1..N)
  <2>1. ASSUME NEW x \in S, NEW z \in S, r[x] = r[z] PROVE x = z
    <3>1. x \in Nat /\ z \in Nat /\ r[x] \in Nat /\ r[z] \in Nat
      BY <1>2
    <3>2. ~(x < z) /\ ~(z < x)
      BY <1>2, <2>1, <3>1
    <3> QED
      BY <3>1, <3>2
  <2> QED
    BY <1>2, <2>1 DEF Injection, IsInjective
<1>6. r \in Surjection(S, 1..N)
  BY <1>4, <1>5, FS_Injection
<1>7. \A n \in 1..N : \E x \in S : r[x] = n
  BY <1>6 DEF Surjection
<1> HIDE DEF N
<1>8. \A n \in 1..N : A[n] \in S /\ r[A[n]] = n
  <2> SUFFICES ASSUME NEW n \in 1..N PROVE A[n] \in S /\ r[A[n]] = n
    OBVIOUS
  <2>1. A[n] = CHOOSE x \in S : Rank(S, x) = n
    BY <1>3
  <2>2. \E x \in S : Rank(S, x) = n
    BY <1>2, <1>7
  <2>3. A[n] \in S /\ Rank(S, A[n]) = n
    BY <2>1, <2>2
  <2> QED
    BY <1>2, <2>3
<1>9. A \in [1..N -> S]
  BY <1>3, <1>8
<1>10. A \in Seq(S) /\ Len(A) = N
  BY <1>1, <1>9
<1>11. \A x \in S : \E n \in 1..N : A[n] = x
  <2> SUFFICES ASSUME NEW x \in S PROVE A[r[x]] = x /\ r[x] \in 1..N
    OBVIOUS
  <2>1. r[x] \in 1..N /\ A[r[x]] \in S /\ r[A[r[x]]] = r[x]
    BY <1>2, <1>8
  <2> QED
    BY <1>5, <2>1 DEF Injection, IsInjective
<1>12. \A m, n \in 1..N : m < n => A[m] < A[n]
  <2> SUFFICES ASSUME NEW m \in 1..N, NEW n \in 1..N, m < n PROVE A[m] < A[n]
    OBVIOUS
  <2>1. A[m] \in S /\ A[n] \in S /\ r[A[m]] = m /\ r[A[n]] = n
    BY <1>8
  <2>2. A[m] \in Nat /\ A[n] \in Nat
    BY <1>0, <2>1
  <2>3. ~(A[n] < A[m]) /\ A[m] # A[n]
    BY <1>2, <2>1, <2>2
  <2> QED
    BY <2>2, <2>3
<1> QED
  BY <1>1, <1>9, <1>10, <1>11, <1>12 DEF N, A

\* A sequence that ascends is that of its members.
LEMMA AscendingIsUnique ==
  ASSUME NEW n \in Nat, NEW s \in [1..n -> Nat], \A i, j \in 1..n : i < j => s[i] < s[j],
         NEW S, \A x : x \in S <=> \E i \in 1..n : x = s[i]
  PROVE  IsFiniteSet(S) /\ S \in SUBSET Nat /\ Cardinality(S) = n /\ Ascending(S) = s
<1>0. /\ S \in SUBSET Nat /\ s \in [1..n -> S] /\ \A i \in 1..n : s[i] \in Nat /\ i \in Nat
      /\ \A i, j \in 1..n : s[i] <= s[j] <=> i <= j
  <2>1. \A i \in 1..n : s[i] \in Nat /\ i \in Nat
    OBVIOUS
  <2>2. \A i, j \in 1..n : i = j => s[i] = s[j]
    OBVIOUS
  <2>3. ASSUME NEW i \in 1..n, NEW j \in 1..n PROVE s[i] <= s[j] <=> i <= j
    <3>1. s[i] \in Nat /\ s[j] \in Nat /\ i \in Nat /\ j \in Nat
      BY <2>1
    <3>2. (i < j => s[i] < s[j]) /\ (j < i => s[j] < s[i]) /\ (i = j => s[i] = s[j])
      BY <2>2
    <3> QED
      BY <3>1, <3>2
  <2> QED
    BY <2>1, <2>3
<1>1. \A m \in 0..n : IsFiniteSet(1..m) /\ Cardinality(1..m) = m
  BY FS_Interval
<1>2. ASSUME NEW m \in 0..n, NEW T, \A x : x \in T <=> \E i \in 1..m : x = s[i]
      PROVE  IsFiniteSet(T) /\ Cardinality(T) = m
  <2> DEFINE f == [i \in 1..m |-> s[i]]
  <2>1. \A i \in 1..m : i \in 1..n
    OBVIOUS
  <2>2. f \in [1..m -> T] /\ \A i \in 1..m : f[i] = s[i]
    BY <1>2
  <2>3. \A i, j \in 1..m : f[i] = f[j] => i = j
    <3> SUFFICES ASSUME NEW i \in 1..m, NEW j \in 1..m, s[i] = s[j] PROVE i = j
      OBVIOUS
    <3>1. i \in Nat /\ j \in Nat /\ s[i] \in Nat /\ s[i] <= s[j] /\ s[j] <= s[i]
      BY <1>0, <2>1
    <3>2. i <= j /\ j <= i
      BY <1>0, <2>1, <3>1
    <3> QED
      BY <3>1, <3>2
  <2>4. \A x \in T : \E i \in 1..m : f[i] = x
    BY <1>2
  <2> HIDE DEF f
  <2>5. f \in Bijection(1..m, T)
    BY <2>2, <2>3, <2>4 DEF Bijection, Injection, Surjection, IsInjective
  <2>6. ExistsBijection(1..m, T)
    BY <2>5 DEF ExistsBijection
  <2> QED
    BY <1>1, <2>6, FS_Bijection
<1>3. IsFiniteSet(S) /\ Cardinality(S) = n
  BY <1>2
<1>4. \A i \in 1..n : Rank(S, s[i]) = i
  <2> SUFFICES ASSUME NEW i \in 1..n PROVE Rank(S, s[i]) = i
    OBVIOUS
  <2> DEFINE T == {y \in S : y <= s[i]}
  <2>1. \A x : x \in T <=> \E j \in 1..i : x = s[j]
    <3>1. ASSUME NEW x \in T PROVE \E j \in 1..i : x = s[j]
      <4>1. PICK j \in 1..n : x = s[j]
        OBVIOUS
      <4>2. j <= i /\ j \in Nat /\ 1 <= j
        BY <1>0, <3>1, <4>1
      <4> QED
        BY <4>1, <4>2
    <3>2. ASSUME NEW j \in 1..i PROVE s[j] \in T
      BY <1>0
    <3> QED
      BY <3>1, <3>2
  <2>2. Rank(S, s[i]) = Cardinality(T)
    BY DEF Rank
  <2> HIDE DEF T
  <2> QED
    BY <1>2, <2>1, <2>2
<1>5. \A i \in 1..n : Ascending(S)[i] = s[i]
  <2> SUFFICES ASSUME NEW i \in 1..n PROVE Ascending(S)[i] = s[i]
    OBVIOUS
  <2>1. Ascending(S)[i] = CHOOSE x \in S : Rank(S, x) = i
    BY <1>3 DEF Ascending
  <2>2. s[i] \in S /\ Rank(S, s[i]) = i
    BY <1>0, <1>4
  <2>3. \A x \in S : Rank(S, x) = i => x = s[i]
    BY <1>4
  <2> QED
    BY <2>1, <2>2, <2>3
<1>6. Ascending(S) = [i \in 1..n |-> Ascending(S)[i]]
  BY <1>3 DEF Ascending
<1> QED
  BY <1>0, <1>3, <1>5, <1>6

LEMMA AscendingOfNone == Ascending({}) = <<>>
<1>1. Cardinality({}) = 0
  BY FS_EmptySet
<1> QED
  BY <1>1 DEF Ascending

\* Places in a sequence are finitely many.
LEMMA PlacesFinite ==
  \A n \in Nat : \A P \in SUBSET (1..n) : IsFiniteSet(P) /\ P \in SUBSET Nat
<1> SUFFICES ASSUME NEW n \in Nat, NEW P \in SUBSET (1..n)
             PROVE  IsFiniteSet(P) /\ P \in SUBSET Nat
  OBVIOUS
<1>1. IsFiniteSet(1..n) /\ \A i \in 1..n : i \in Nat
  BY FS_Interval
<1>2. IsFiniteSet(P)
  BY <1>1, FS_Subset
<1> QED
  BY <1>1, <1>2

\* What is kept of a sequence are the elements at the places, each place once.
LEMMA AtPlacesFacts ==
  ASSUME NEW X, NEW s \in Seq(X), NEW P \in SUBSET (1..Len(s))
  PROVE  /\ Cardinality(P) \in Nat
         /\ AtPlaces(s, P) \in Seq(X) /\ Len(AtPlaces(s, P)) = Cardinality(P)
         /\ \A n \in 1..Cardinality(P) : \E p \in P : AtPlaces(s, P)[n] = s[p]
         /\ \A p \in P : \E n \in 1..Cardinality(P) : AtPlaces(s, P)[n] = s[p]
<1>1. Len(s) \in Nat /\ \A i \in 1..Len(s) : s[i] \in X
  BY ElementOfSeq, LenProperties
<1>2. IsFiniteSet(P) /\ P \in SUBSET Nat
  BY <1>1, PlacesFinite
<1>3. /\ Cardinality(P) \in Nat /\ Ascending(P) \in [1..Cardinality(P) -> P]
      /\ \A p \in P : \E n \in 1..Cardinality(P) : Ascending(P)[n] = p
  BY <1>2, AscendingFacts
<1>4. AtPlaces(s, P) = [n \in 1..Cardinality(P) |-> s[Ascending(P)[n]]]
  BY DEF AtPlaces
<1>5. AtPlaces(s, P) \in [1..Cardinality(P) -> X]
  <2>1. \A n \in 1..Cardinality(P) : s[Ascending(P)[n]] \in X
    BY <1>1, <1>3
  <2> QED
    BY <1>4, <2>1
<1>6. AtPlaces(s, P) \in Seq(X) /\ Len(AtPlaces(s, P)) = Cardinality(P)
  BY <1>3, <1>5
<1>7. \A n \in 1..Cardinality(P) : Ascending(P)[n] \in P /\ AtPlaces(s, P)[n] = s[Ascending(P)[n]]
  BY <1>3, <1>4
<1>8. ASSUME NEW p \in P PROVE \E n \in 1..Cardinality(P) : AtPlaces(s, P)[n] = s[p]
  BY <1>3, <1>7
<1> QED
  BY <1>3, <1>6, <1>7, <1>8

\* Places that come after the first n.
Shifted(n, P) == {n + i : i \in P}

\* Concatenation under a name, by which the provers find instances of the lemma.
Joined(s, t) == s \o t

\* Filtering two sequences and joining what is left is filtering their concatenation.
LEMMA AtPlacesJoin ==
  ASSUME NEW X, NEW s \in Seq(X), NEW t \in Seq(X),
         NEW P \in SUBSET (1..Len(s)), NEW Q \in SUBSET (1..Len(t))
  PROVE  AtPlaces(Joined(s, t), P \cup Shifted(Len(s), Q))
           = Joined(AtPlaces(s, P), AtPlaces(t, Q))
<1> DEFINE PQ == P \cup Shifted(Len(s), Q)
           p == Cardinality(P)
           q == Cardinality(Q)
           A == Ascending(P)
           B == Ascending(Q)
           C == [i \in 1..(p + q) |-> IF i <= p THEN A[i] ELSE Len(s) + B[i - p]]
<1>0. ASSUME NEW x PROVE x \in PQ <=> x \in P \/ \E y \in Q : x = Len(s) + y
  BY DEF Shifted
<1> HIDE DEF PQ
<1>1. Len(s) \in Nat /\ Len(t) \in Nat
  BY LenProperties
<1>2. /\ p \in Nat /\ A \in [1..p -> P] /\ \A x \in P : \E n \in 1..p : A[n] = x
      /\ \A m, n \in 1..p : m < n => A[m] < A[n]
  BY <1>1, PlacesFinite, AscendingFacts
<1>3. /\ q \in Nat /\ B \in [1..q -> Q] /\ \A x \in Q : \E n \in 1..q : B[n] = x
      /\ \A m, n \in 1..q : m < n => B[m] < B[n]
  BY <1>1, PlacesFinite, AscendingFacts
<1>4. /\ \A n \in 1..p : A[n] \in P /\ A[n] \in 1..Len(s)
      /\ \A n \in 1..q : B[n] \in Q /\ B[n] \in 1..Len(t)
  BY <1>2, <1>3
<1>5. p + q \in Nat /\ \A i \in 1..(p + q) : IF i <= p THEN i \in 1..p ELSE i - p \in 1..q
  BY <1>2, <1>3
<1> HIDE DEF p, q, A, B
<1>6. \A i \in 1..(p + q) : C[i] = IF i <= p THEN A[i] ELSE Len(s) + B[i - p]
  OBVIOUS
<1>7. C \in [1..(p + q) -> Nat]
  <2>1. \A i \in 1..(p + q) : (IF i <= p THEN A[i] ELSE Len(s) + B[i - p]) \in Nat
    BY <1>1, <1>4, <1>5
  <2> QED
    BY <2>1
<1>8. ASSUME NEW i \in 1..(p + q), NEW j \in 1..(p + q), i < j PROVE C[i] < C[j]
  <2>1. CASE j <= p
    <3>1. i <= p /\ i \in 1..p /\ j \in 1..p
      BY <1>2, <1>3, <1>8, <2>1
    <3>2. A[i] < A[j]
      BY <1>2, <1>8, <3>1
    <3> QED
      BY <1>6, <2>1, <3>1, <3>2
  <2>2. CASE i <= p /\ ~(j <= p)
    <3>1. A[i] \in 1..Len(s) /\ B[j - p] \in 1..Len(t)
      BY <1>4, <1>5, <2>2
    <3>2. C[i] = A[i] /\ C[j] = Len(s) + B[j - p]
      BY <1>6, <2>2
    <3> QED
      BY <1>1, <3>1, <3>2
  <2>3. CASE ~(i <= p)
    <3>1. i - p \in 1..q /\ j - p \in 1..q /\ i - p < j - p /\ ~(j <= p)
      BY <1>2, <1>3, <1>8, <2>3
    <3>2. B[i - p] < B[j - p] /\ B[i - p] \in 1..Len(t) /\ B[j - p] \in 1..Len(t)
      BY <1>3, <1>4, <3>1
    <3>3. C[i] = Len(s) + B[i - p] /\ C[j] = Len(s) + B[j - p]
      BY <1>6, <2>3, <3>1
    <3> QED
      BY <1>1, <3>2, <3>3
  <2> QED
    BY <2>1, <2>2, <2>3
<1>9. ASSUME NEW x PROVE x \in PQ <=> \E i \in 1..(p + q) : x = C[i]
  <2>1. ASSUME x \in P PROVE \E i \in 1..(p + q) : x = C[i]
    <3>1. PICK n \in 1..p : A[n] = x
      BY <1>2, <2>1
    <3>2. n \in 1..(p + q) /\ n <= p
      BY <1>2, <1>3
    <3> QED
      BY <1>6, <3>1, <3>2
  <2>2. ASSUME NEW y \in Q, x = Len(s) + y PROVE \E i \in 1..(p + q) : x = C[i]
    <3>1. PICK n \in 1..q : B[n] = y
      BY <1>3
    <3>2. p + n \in 1..(p + q) /\ ~(p + n <= p) /\ (p + n) - p = n
      BY <1>2, <1>3
    <3> QED
      BY <1>6, <2>2, <3>1, <3>2
  <2>3. ASSUME NEW i \in 1..(p + q), x = C[i] PROVE x \in P \/ \E y \in Q : x = Len(s) + y
    BY <1>4, <1>5, <1>6, <2>3
  <2> QED
    BY <1>0, <2>1, <2>2, <2>3
<1>10. Cardinality(PQ) = p + q /\ Ascending(PQ) = C
  <2> HIDE DEF C
  <2> QED
    BY <1>5, <1>7, <1>8, <1>9, AscendingIsUnique
<1>11. \A i \in 1..(p + q) : (s \o t)[C[i]] = IF i <= p THEN s[A[i]] ELSE t[B[i - p]]
  <2> SUFFICES ASSUME NEW i \in 1..(p + q)
               PROVE  (s \o t)[C[i]] = IF i <= p THEN s[A[i]] ELSE t[B[i - p]]
    OBVIOUS
  <2>1. CASE i <= p
    <3>1. A[i] \in 1..Len(s) /\ C[i] = A[i]
      BY <1>4, <1>5, <1>6, <2>1
    <3> HIDE DEF C
    <3>2. (s \o t)[A[i]] = s[A[i]]
      BY <1>1, <3>1, ConcatProperties
    <3> QED
      BY <2>1, <3>1, <3>2
  <2>2. CASE ~(i <= p)
    <3>1. B[i - p] \in 1..Len(t) /\ C[i] = Len(s) + B[i - p]
      BY <1>4, <1>5, <1>6, <2>2
    <3> HIDE DEF C
    <3>2. (s \o t)[Len(s) + B[i - p]] = t[B[i - p]]
      <4> DEFINE b == B[i - p]
      <4>1. b \in 1..Len(t)
        BY <3>1
      <4> HIDE DEF b
      <4>2. Len(s) + b \in 1..(Len(s) + Len(t)) /\ ~(Len(s) + b <= Len(s)) /\ (Len(s) + b) - Len(s) = b
        BY <1>1, <4>1
      <4>3. (s \o t)[Len(s) + b] = t[(Len(s) + b) - Len(s)]
        BY <1>1, <4>2, ConcatProperties
      <4> QED
        BY <4>2, <4>3 DEF b
    <3> QED
      BY <2>2, <3>1, <3>2
  <2> QED
    BY <2>1, <2>2
<1> DEFINE S == AtPlaces(s, P)
           T == AtPlaces(t, Q)
<1>12. S \in Seq(X) /\ T \in Seq(X) /\ Len(S) = p /\ Len(T) = q
  BY AtPlacesFacts DEF p, q
<1>13. /\ \A i \in 1..p : S[i] = s[A[i]]
       /\ \A i \in 1..q : T[i] = t[B[i]]
  BY DEF AtPlaces, p, q, A, B
<1>14. AtPlaces(s \o t, PQ) = [i \in 1..(p + q) |-> (s \o t)[C[i]]]
  <2> HIDE DEF C
  <2> QED
    BY <1>10 DEF AtPlaces
<1> HIDE DEF C, S, T
<1>15. \A i \in 1..(p + q) : (s \o t)[C[i]] = IF i <= p THEN S[i] ELSE T[i - p]
  BY <1>5, <1>11, <1>13
<1>16. S \o T = [i \in 1..(p + q) |-> IF i <= p THEN S[i] ELSE T[i - p]]
  <2>1. /\ Len(S \o T) = p + q /\ S \o T \in Seq(X)
        /\ \A i \in 1..(p + q) : (S \o T)[i] = IF i <= p THEN S[i] ELSE T[i - p]
    BY <1>12, ConcatProperties
  <2>2. S \o T = [i \in 1..Len(S \o T) |-> (S \o T)[i]]
    BY <2>1, LenProperties
  <2> QED
    BY <2>1, <2>2
<1>17. AtPlaces(s \o t, PQ) = S \o T
  BY <1>14, <1>15, <1>16
<1> QED
  BY <1>17 DEF S, T, PQ, Joined
=============================================================================
