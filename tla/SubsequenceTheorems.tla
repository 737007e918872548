------------------------ MODULE SubsequenceTheorems ------------------------
(* What Picked returns, for every sequence and every set of its positions, and*)
(* the lemmas on induction and on recursion that this rests on: the property  *)
(* to be shown is given as the set of the numbers that have it.               *)
EXTENDS Subsequences, FiniteSetTheorems, SequenceTheorems, TLAPS

-----------------------------------------------------------------------------
(* A set of numbers that holds 0 and every successor holds all of them.       *)
LEMMA SetInduction ==
  ASSUME NEW S, 0 \in S, \A n \in Nat : n \in S => n + 1 \in S
  PROVE  Nat \subseteq S
<1>. DEFINE initials == {1..n : n \in Nat \ S}
<1>1. CASE Nat \ S # {}
  <2>1. initials # {} /\ initials \subseteq FiniteSubsetsOf(Nat)
    <3>1. \A n \in Nat : IsFiniteSet(1..n)
      BY FS_Interval
    <3>. QED  BY <1>1, <3>1 DEF FiniteSubsetsOf
  <2>. HIDE DEF initials
  <2>2. PICK x \in initials : \A y \in initials : <<y, x>> \notin StrictSubsetOrdering(Nat)
    BY <2>1, WFMin, FS_StrictSubsetOrderingWellFounded
  <2>. USE DEF initials
  <2>3. PICK m \in Nat \ S : x = 1..m
    OBVIOUS
  <2>4. m - 1 \in Nat
    OBVIOUS
  <2>5. m - 1 \in S
    <3>1. 1..(m - 1) \subseteq 1..m /\ m \in 1..m /\ m \notin 1..(m - 1) /\ 1..m \subseteq Nat
      BY <2>4
    <3>2. <<1..(m - 1), 1..m>> \in StrictSubsetOrdering(Nat)
      BY <3>1 DEF StrictSubsetOrdering
    <3>. QED  BY <2>2, <2>3, <2>4, <3>2
  <2>. QED  BY <2>4, <2>5
<1>. QED  BY <1>1

(* The same over an interval.                                                 *)
LEMMA IntervalInduction ==
  ASSUME NEW N \in Nat, NEW S, 0 \in S, \A n \in 1..N : n - 1 \in S => n \in S
  PROVE  0..N \subseteq S
<1>. DEFINE T == {n \in Nat : n <= N => n \in S}
<1>1. 0 \in T
  OBVIOUS
<1>2. ASSUME NEW n \in Nat, n \in T  PROVE  n + 1 \in T
  <2>1. CASE n + 1 <= N
    <3>1. n + 1 \in 1..N /\ (n + 1) - 1 = n /\ n <= N
      BY <2>1
    <3>. QED  BY <1>2, <3>1
  <2>. QED  BY <2>1
<1>3. Nat \subseteq T
  <2>. HIDE DEF T
  <2>. QED  BY <1>1, <1>2, SetInduction
<1>4. \A n \in 0..N : n \in Nat /\ n <= N
  OBVIOUS
<1>. QED  BY <1>3, <1>4

(* What a recursion computes, when each of its steps stays within a set D.    *)
Iterates(N, D, base, step) ==
  CHOOSE f \in [0..N -> D] : f[0] = base /\ \A n \in 1..N : f[n] = step[n][f[n - 1]]

(* Such a recursion has a result, which each step takes from the one          *)
(* before.                                                                    *)
LEMMA RecursionExists ==
  ASSUME NEW N \in Nat, NEW D, NEW base \in D, NEW step \in [1..N -> [D -> D]]
  PROVE  /\ Iterates(N, D, base, step) \in [0..N -> D]
         /\ Iterates(N, D, base, step)[0] = base
         /\ \A n \in 1..N : Iterates(N, D, base, step)[n]
                              = step[n][Iterates(N, D, base, step)[n - 1]]
<1>. DEFINE Runs(f, k) == f[0] = base /\ \A n \in 1..N : n <= k => f[n] = step[n][f[n - 1]]
            T == {k \in 0..N : \E f \in [0..N -> D] : Runs(f, k)}
<1>1. 0 \in T
  <2>. DEFINE f == [n \in 0..N |-> base]
  <2>1. f \in [0..N -> D] /\ 0 \in 0..N
    OBVIOUS
  <2>2. \A n \in 1..N : ~(n <= 0)
    OBVIOUS
  <2>. QED  BY <2>1, <2>2
<1>2. ASSUME NEW k \in 1..N, k - 1 \in T  PROVE  k \in T
  <2>1. PICK f \in [0..N -> D] : Runs(f, k - 1)
    BY <1>2
  <2>. DEFINE g == [f EXCEPT ![k] = step[k][f[k - 1]]]
  <2>2. k - 1 \in 0..N /\ k \in 0..N /\ k # 0
    OBVIOUS
  <2>3. g \in [0..N -> D]
    BY <2>2
  <2>4. g[0] = base
    BY <2>1, <2>2
  <2>5. ASSUME NEW n \in 1..N, n <= k  PROVE  g[n] = step[n][g[n - 1]]
    <3>1. n - 1 \in 0..N /\ n - 1 # k /\ n \in 0..N
      BY <2>5
    <3>2. g[n - 1] = f[n - 1]
      BY <3>1
    <3>3. CASE n = k
      BY <2>2, <3>2, <3>3
    <3>4. CASE n # k
      <4>1. n <= k - 1
        BY <2>5, <3>4
      <4>2. g[n] = f[n]
        BY <3>1, <3>4
      <4>. HIDE DEF g
      <4>. QED  BY <2>1, <3>2, <4>1, <4>2
    <3>. QED  BY <3>3, <3>4
  <2>. HIDE DEF g
  <2>. QED  BY <2>2, <2>3, <2>4, <2>5
<1>3. N \in T
  <2>. HIDE DEF T
  <2>1. 0..N \subseteq T
    BY <1>1, <1>2, IntervalInduction
  <2>. QED  BY <2>1
<1>4. PICK f \in [0..N -> D] : Runs(f, N)
  BY <1>3
<1>5. \A n \in 1..N : n <= N
  OBVIOUS
<1>6. f[0] = base /\ \A n \in 1..N : f[n] = step[n][f[n - 1]]
  BY <1>4, <1>5
<1>. QED  BY <1>6 DEF Iterates

(* A bounded set of numbers that is not empty has a largest one.              *)
LEMMA HasLargest ==
  ASSUME NEW b \in Nat, NEW S \in SUBSET (0..b), S # {}
  PROVE  \E m \in S : \A x \in S : x <= m
<1>. DEFINE T == {k \in Nat : (\E x \in S : x >= b - k) => \E m \in S : \A x \in S : x <= m}
<1>1. 0 \in T
  <2>1. \A x \in S : x >= b - 0 => x = b
    OBVIOUS
  <2>2. \A x \in S : x <= b
    OBVIOUS
  <2>. QED  BY <2>1, <2>2
<1>0. \A x \in S : x \in Nat /\ x <= b
  OBVIOUS
<1>2. ASSUME NEW k \in Nat, k \in T  PROVE  k + 1 \in T
  <2>1. CASE \E x \in S : x >= b - k
    BY <1>2, <2>1
  <2>2. CASE ~\E x \in S : x >= b - k
    <3>1. ASSUME NEW x \in S, x >= b - (k + 1)  PROVE  \A y \in S : y <= x
      BY <2>2, <3>1
    <3>. QED  BY <3>1
  <2>. QED  BY <2>1, <2>2
<1>3. b \in T
  <2>. HIDE DEF T
  <2>. QED  BY <1>1, <1>2, SetInduction
<1>4. \E x \in S : x >= b - b
  <2>1. PICK x \in S : TRUE
    OBVIOUS
  <2>2. x >= b - b
    BY <1>0
  <2>. QED  BY <2>2
<1>. QED  BY <1>3, <1>4

(* And a smallest one.                                                        *)
LEMMA HasSmallest ==
  ASSUME NEW b \in Nat, NEW S \in SUBSET (0..b), S # {}
  PROVE  \E m \in S : \A x \in S : m <= x
<1>. DEFINE M == {b - x : x \in S}
<1>0. \A x \in S : x \in Nat /\ x <= b
  OBVIOUS
<1>1. M \in SUBSET (0..b) /\ M # {}
  <2>1. \A x \in S : b - x \in 0..b
    BY <1>0
  <2>2. \A y \in M : y \in 0..b
    BY <2>1
  <2>3. PICK x \in S : TRUE
    OBVIOUS
  <2>4. b - x \in M
    OBVIOUS
  <2>. QED  BY <2>2, <2>4
<1>2. PICK n \in M : \A y \in M : y <= n
  <2>. HIDE DEF M
  <2>. QED  BY <1>1, HasLargest
<1>3. PICK m \in S : n = b - m
  OBVIOUS
<1>4. ASSUME NEW x \in S  PROVE  m <= x
  <2>1. b - x <= b - m
    BY <1>2, <1>3
  <2>2. x \in Nat /\ m \in Nat
    BY <1>0
  <2>. QED  BY ONLY <2>1, <2>2, b \in Nat
<1>. QED  BY <1>4

-----------------------------------------------------------------------------
(* The ranks of a finite set of positions are 1, 2, ... without a gap: a rank *)
(* belongs to one position, and there are as many ranks as positions.         *)
LEMMA RanksNumber ==
  ASSUME NEW I \in SUBSET Int, IsFiniteSet(I)
  PROVE  /\ Cardinality(I) \in Nat
         /\ \A i \in I : Rank(I, i) \in 1..Cardinality(I)
         /\ \A i, k \in I : Rank(I, i) = Rank(I, k) => i = k
         /\ \A i, k \in I : i < k => Rank(I, i) < Rank(I, k)
         /\ \A n \in 1..Cardinality(I) : \E i \in I : Rank(I, i) = n
<1>. DEFINE upTo(i) == {k \in I : k <= i}
<1>1. Cardinality(I) \in Nat
  BY FS_CardinalityType
<1>2. ASSUME NEW i \in I
      PROVE  /\ IsFiniteSet(upTo(i)) /\ Rank(I, i) = Cardinality(upTo(i))
             /\ Rank(I, i) \in 1..Cardinality(I)
  <2>1. upTo(i) \in SUBSET I /\ i \in upTo(i)
    OBVIOUS
  <2>2. /\ IsFiniteSet(upTo(i))
        /\ Cardinality(upTo(i)) <= Cardinality(I)
    BY <2>1, FS_Subset
  <2>3. Cardinality(upTo(i)) \in Nat /\ Cardinality(upTo(i)) # 0
    BY <2>1, <2>2, FS_CardinalityType, FS_EmptySet
  <2>. QED  BY <1>1, <2>2, <2>3 DEF Rank
<1>3. ASSUME NEW i \in I, NEW k \in I, i < k
      PROVE  Rank(I, i) < Rank(I, k)
  <2>0. \A j \in I : j \in Int
    OBVIOUS
  <2>1. upTo(i) \in SUBSET upTo(k) /\ k \in upTo(k) /\ k \notin upTo(i)
    <3>1. \A j \in I : j <= i => j <= k
      BY <1>3, <2>0
    <3>2. k <= k /\ ~(k <= i)
      BY <1>3, <2>0
    <3>. QED  BY <3>1, <3>2
  <2>. HIDE DEF upTo
  <2>2. Cardinality(upTo(i)) <= Cardinality(upTo(k)) /\ Cardinality(upTo(i)) # Cardinality(upTo(k))
    BY <2>1, <1>2, FS_Subset
  <2>. QED  BY <2>2, <1>2
<1>4. \A i, k \in I : Rank(I, i) = Rank(I, k) => i = k
  <2>. SUFFICES ASSUME NEW i \in I, NEW k \in I, i # k PROVE Rank(I, i) # Rank(I, k)
    OBVIOUS
  <2>. HIDE DEF upTo
  <2>1. \A j \in I : j \in Int /\ Rank(I, j) \in Int
    BY <1>2, <1>1
  <2>2. i < k \/ k < i
    BY <2>1
  <2>. QED  BY <1>3, <2>1, <2>2
<1>5. ASSUME NEW n \in 1..Cardinality(I)
      PROVE  \E i \in I : Rank(I, i) = n
  <2>. DEFINE ranks == [i \in I |-> Rank(I, i)]
              N == 1..Cardinality(I)
  <2>1. ranks \in Injection(I, N)
    BY <1>2, <1>4 DEF Injection, IsInjective
  <2>2. IsFiniteSet(N) /\ Cardinality(N) = Cardinality(I)
    BY <1>1, FS_Interval
  <2>. HIDE DEF N
  <2>3. ranks \in Surjection(I, N)
    BY <2>1, <2>2, FS_Injection
  <2>. QED  BY <2>3 DEF Surjection, N
<1>. QED  BY <1>1, <1>2, <1>3, <1>4, <1>5

(* Each place of Picked(s, I) is that of one position of I, in the same order, *)
(* and each position of I has its place.                                       *)
Place(I, n) == CHOOSE i \in I : Rank(I, i) = n

(* Where the elements that are picked come from: each place once, in order.   *)
LEMMA PickedPlaces ==
  ASSUME NEW S, NEW s \in Seq(S), NEW I \in SUBSET DOMAIN s
  PROVE  /\ IsFiniteSet(I) /\ Cardinality(I) \in Nat /\ Cardinality(I) <= Len(s)
         /\ Picked(s, I) \in Seq(S) /\ Len(Picked(s, I)) = Cardinality(I)
         /\ DOMAIN Picked(s, I) = 1..Cardinality(I)
         /\ \A n \in 1..Cardinality(I) :
              Place(I, n) \in I /\ Picked(s, I)[n] = s[Place(I, n)]
         /\ \A n, m \in 1..Cardinality(I) : Place(I, n) = Place(I, m) => n = m
         /\ \A n, m \in 1..Cardinality(I) : n < m => Place(I, n) < Place(I, m)
         /\ \A i \in I : \E n \in 1..Cardinality(I) : Place(I, n) = i
<1>. DEFINE N == 1..Cardinality(I)
            at == [n \in N |-> Place(I, n)]
<1>1. DOMAIN s = 1..Len(s) /\ Len(s) \in Nat
  OBVIOUS
<1>2. IsFiniteSet(I) /\ Cardinality(I) <= Len(s)
  <2>1. IsFiniteSet(1..Len(s)) /\ Cardinality(1..Len(s)) = Len(s)
    <3>1. 0 \in Int /\ 1 \in Int /\ Len(s) \in Int /\ (1 > Len(s) => Len(s) = 0)
      BY <1>1
    <3>. QED  BY <1>1, <3>1, FS_Interval
  <2>. QED  BY <1>1, <2>1, FS_Subset
<1>3. I \in SUBSET Int
  BY <1>1
<1>4. /\ Cardinality(I) \in Nat
      /\ \A i \in I : Rank(I, i) \in N
      /\ \A i, k \in I : Rank(I, i) = Rank(I, k) => i = k
      /\ \A i, k \in I : i < k => Rank(I, i) < Rank(I, k)
      /\ \A n \in N : \E i \in I : Rank(I, i) = n
  BY <1>2, <1>3, RanksNumber
<1>. HIDE DEF N
<1>5. \A n \in N : at[n] \in I /\ Rank(I, at[n]) = n
  BY <1>4 DEF Place
<1>6. at \in [N -> I]
  BY <1>5
<1>7. Picked(s, I) = [n \in N |-> s[at[n]]]
  BY DEF Picked, N, Place
<1>8. \A n, m \in N : at[n] = at[m] => n = m
  BY <1>5
<1>9. \A i \in I : \E n \in N : at[n] = i
  <2>. SUFFICES ASSUME NEW i \in I PROVE \E n \in N : at[n] = i
    OBVIOUS
  <2>1. Rank(I, i) \in N /\ at[Rank(I, i)] \in I /\ Rank(I, at[Rank(I, i)]) = Rank(I, i)
    BY <1>4, <1>5
  <2>. QED  BY <2>1, <1>4
<1>13. ASSUME NEW n \in N, NEW m \in N, n < m
       PROVE  at[n] < at[m]
  <2>1. at[n] \in I /\ at[m] \in I /\ Rank(I, at[n]) = n /\ Rank(I, at[m]) = m
    BY <1>5
  <2>2. at[n] \in Int /\ at[m] \in Int
    BY <1>3, <2>1
  <2>3. n \in Int /\ m \in Int
    BY <1>4 DEF N
  <2>. HIDE DEF at
  <2>4. at[n] # at[m]
    BY <1>13, <2>1, <2>3
  <2>5. ~(at[m] < at[n])
    BY <1>4, <1>13, <2>1, <2>3
  <2>. QED  BY <2>2, <2>4, <2>5
<1>14. \A n \in N : at[n] = Place(I, n)
  OBVIOUS
<1>. HIDE DEF at
<1>10. Picked(s, I) \in [N -> S]
  BY <1>6, <1>7
<1>11. Picked(s, I) \in Seq(S) /\ Len(Picked(s, I)) = Cardinality(I)
  BY <1>4, <1>10 DEF N
<1>12. DOMAIN Picked(s, I) = N /\ \A n \in N : Picked(s, I)[n] = s[at[n]]
  BY <1>7
<1>15. /\ \A n \in N : Place(I, n) \in I /\ Picked(s, I)[n] = s[Place(I, n)]
       /\ \A i \in I : \E n \in N : Place(I, n) = i
  BY <1>5, <1>9, <1>12, <1>14
<1>16. /\ \A n, m \in N : Place(I, n) = Place(I, m) => n = m
       /\ \A n, m \in N : n < m => Place(I, n) < Place(I, m)
  BY <1>8, <1>13, <1>14
<1>. QED
  BY <1>2, <1>4, <1>11, <1>12, <1>15, <1>16 DEF N

(* What is picked and what is left are together as long as the sequence.      *)
LEMMA PickedSplit ==
  ASSUME NEW S, NEW s \in Seq(S), NEW I \in SUBSET DOMAIN s
  PROVE  Len(Picked(s, I)) + Len(Picked(s, DOMAIN s \ I)) = Len(s)
<1>1. /\ Len(Picked(s, I)) = Cardinality(I) /\ Cardinality(I) \in Nat
      /\ Len(Picked(s, DOMAIN s \ I)) = Cardinality(DOMAIN s \ I)
  BY PickedPlaces
<1>. DEFINE D == DOMAIN s
<1>2. D = 1..Len(s) /\ Len(s) \in Nat
  OBVIOUS
<1>3. IsFiniteSet(D) /\ Cardinality(D) = Len(s)
  <2>1. IsFiniteSet(1..Len(s)) /\ Cardinality(1..Len(s)) = Len(s)
    <3>1. 1 \in Int /\ Len(s) \in Int /\ (1 > Len(s) => Len(s) = 0)
      BY <1>2
    <3>. QED  BY <1>2, <3>1, FS_Interval
  <2>. QED  BY <1>2, <2>1
<1>4. I \in SUBSET D /\ D \cap I = I
  OBVIOUS
<1>. HIDE DEF D
<1>5. Cardinality(D \ I) = Cardinality(D) - Cardinality(D \cap I)
  BY <1>3, FS_Difference
<1>6. Len(Picked(s, D \ I)) = Len(s) - Cardinality(I)
  BY <1>1, <1>3, <1>4, <1>5 DEF D
<1>. QED  BY <1>1, <1>2, <1>6 DEF D

(* The rank of a position counts those of the set up to it.                   *)
LEMMA RankSteps ==
  ASSUME NEW N \in Nat, NEW I \in SUBSET (1..N)
  PROVE  /\ Rank(I, 0) = 0 /\ Rank(I, N) = Cardinality(I)
         /\ \A n \in 0..N : Rank(I, n) \in Nat
         /\ \A n \in 1..N : Rank(I, n) = IF n \in I THEN Rank(I, n - 1) + 1
                                         ELSE Rank(I, n - 1)
<1>. DEFINE upTo(n) == {k \in I : k <= n}
<1>1. IsFiniteSet(I) /\ \A i \in I : i \in 1..N
  <2>1. IsFiniteSet(1..N)
    BY FS_Interval
  <2>. QED  BY <2>1, FS_Subset
<1>6. \A i \in I : i \in Int /\ i >= 1 /\ i <= N
  BY <1>1
<1>2. upTo(0) = {} /\ upTo(N) = I
  <2>1. \A i \in I : ~(i <= 0)
    BY <1>6
  <2>. QED  BY <1>6, <2>1
<1>3. \A n \in 0..N : IsFiniteSet(upTo(n)) /\ Cardinality(upTo(n)) \in Nat
  <2>. SUFFICES ASSUME NEW n \in 0..N
                PROVE  IsFiniteSet(upTo(n)) /\ Cardinality(upTo(n)) \in Nat
    OBVIOUS
  <2>1. upTo(n) \in SUBSET I
    OBVIOUS
  <2>. HIDE DEF upTo
  <2>. QED  BY <1>1, <2>1, FS_Subset, FS_CardinalityType
<1>4. ASSUME NEW n \in 1..N
      PROVE  Cardinality(upTo(n)) = IF n \in I THEN Cardinality(upTo(n - 1)) + 1
                                    ELSE Cardinality(upTo(n - 1))
  <2>1. n - 1 \in 0..N
    OBVIOUS
  <2>2. CASE n \notin I
    <3>1. \A i \in I : i <= n <=> i <= n - 1
      <4>1. \A i \in I : i # n
        BY <2>2
      <4>. QED  BY <1>6, <4>1
    <3>. QED  BY <2>2, <3>1
  <2>3. CASE n \in I
    <3>1. upTo(n) = upTo(n - 1) \cup {n} /\ n \notin upTo(n - 1)
      <4>1. \A i \in I : i <= n <=> i <= n - 1 \/ i = n
        BY <1>6
      <4>2. n <= n /\ ~(n <= n - 1)
        OBVIOUS
      <4>. QED  BY <2>3, <4>1, <4>2
    <3>. HIDE DEF upTo
    <3>2. Cardinality(upTo(n - 1) \cup {n}) = Cardinality(upTo(n - 1)) + 1
      BY <1>3, <2>1, <3>1, FS_AddElement
    <3>. QED  BY <2>3, <3>1, <3>2
  <2>. QED  BY <2>2, <2>3
<1>5. \A n : Rank(I, n) = Cardinality(upTo(n))
  BY DEF Rank
<1>. HIDE DEF upTo
<1>. QED  BY <1>2, <1>3, <1>4, <1>5, FS_EmptySet

(* A position of the set is picked at its rank.                               *)
LEMMA PickedAt ==
  ASSUME NEW S, NEW s \in Seq(S), NEW I \in SUBSET DOMAIN s, NEW i \in I
  PROVE  Rank(I, i) \in 1..Cardinality(I) /\ Picked(s, I)[Rank(I, i)] = s[i]
<1>1. IsFiniteSet(I) /\ I \in SUBSET Int
  BY PickedPlaces
<1>2. /\ Rank(I, i) \in 1..Cardinality(I)
      /\ \A j, k \in I : Rank(I, j) = Rank(I, k) => j = k
  BY <1>1, RanksNumber
<1>. DEFINE c == CHOOSE j \in I : Rank(I, j) = Rank(I, i)
<1>3. c = i
  <2>1. c \in I /\ Rank(I, c) = Rank(I, i)
    OBVIOUS
  <2>. HIDE DEF c
  <2>. QED  BY <1>2, <2>1
<1>4. Picked(s, I)[Rank(I, i)] = s[c]
  BY <1>2 DEF Picked
<1>. QED  BY <1>2, <1>3, <1>4
=============================================================================
