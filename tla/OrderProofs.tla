---------------------------- MODULE OrderProofs -----------------------------
(***************************************************************************)
(* What Order's operators return, for every finite set of numbers and      *)
(* every length of sequence; and the turns of a fold.  Induction on the    *)
(* natural numbers is by the least number at which a claim fails.          *)
(***************************************************************************)
EXTENDS Order, FiniteSetsExt, FiniteSetTheorems, WellFoundedInduction, TLAPS

(***************************************************************************)
(* Numbers                                                                 *)
(***************************************************************************)
\* Induction up to N.
LEMMA Upward ==
    ASSUME NEW N \in Nat, NEW S, 0 \in S, \A n \in 0 .. N - 1 : n \in S => n + 1 \in S
    PROVE  \A n \in 0 .. N : n \in S
  <1> DEFINE Less == OpToRel(<, Nat)
             T == {n \in 0 .. N : n \notin S}
  <1>1. SUFFICES ASSUME T # {} PROVE FALSE
    OBVIOUS
  <1>2. PICK n \in T : \A m \in T : <<m, n>> \notin Less
    <2> HIDE DEF Less
    <2>1. T \subseteq Nat
      OBVIOUS
    <2> HIDE DEF T
    <2> QED BY <1>1, <2>1, NatLessThanWellFounded, WFMin DEF Less
  <1>3. n \in 1 .. N
    OBVIOUS
  <1>4. n - 1 \in 0 .. N - 1 /\ n - 1 \in Nat /\ n \in Nat /\ n - 1 < n /\ (n - 1) + 1 = n
    BY <1>3
  <1>5. <<n - 1, n>> \in Less
    BY <1>4 DEF OpToRel
  <1>6. n - 1 \in S
    <2>1. n - 1 \notin T
      <3> HIDE DEF T, Less
      <3> QED BY <1>2, <1>5
    <2>2. n - 1 \in 0 .. N
      BY <1>3
    <2> QED BY <2>1, <2>2
  <1> QED BY <1>4, <1>6

\* A set of natural numbers has its least one.
LEMMA MinTaken ==
    ASSUME NEW J \in SUBSET Nat, J # {}
    PROVE  Min(J) \in J /\ \A j \in J : Min(J) <= j
  <1> DEFINE Less == OpToRel(<, Nat)
  <1>1. PICK k \in J : \A j \in J : <<j, k>> \notin Less
    <2> HIDE DEF Less
    <2> QED BY NatLessThanWellFounded, WFMin DEF Less
  <1>2. ASSUME NEW j \in J PROVE k <= j
    <2>1. j \in Nat /\ k \in Nat
      OBVIOUS
    <2>2. ~(j < k)
      BY <1>1, <2>1 DEF OpToRel
    <2> QED BY <2>1, <2>2
  <1> QED BY <1>2 DEF Min

LEMMA MaxTaken ==
    ASSUME NEW N \in Nat, NEW J \in SUBSET (0 .. N), J # {}
    PROVE  Max(J) \in J /\ \A j \in J : j <= Max(J)
  <1>1. PICK K : K = {N - j : j \in J}
    OBVIOUS
  <1>2. K \in SUBSET Nat /\ K # {}
    <2>1. ASSUME NEW j \in J PROVE N - j \in Nat
      OBVIOUS
    <2> QED BY <1>1, <2>1
  <1>3. Min(K) \in K /\ \A k \in K : Min(K) <= k
    BY <1>2, MinTaken
  <1>4. PICK m \in J : Min(K) = N - m
    BY <1>1, <1>3
  <1>5. ASSUME NEW j \in J PROVE m >= j
    <2>1. N - m <= N - j /\ m \in Int /\ j \in Int
      BY <1>1, <1>3, <1>4
    <2> QED BY <2>1
  <1>6. Max(J) \in J /\ \A j \in J : Max(J) >= j
    BY <1>5 DEF Max
  <1>7. PICK max : max = Max(J)
    OBVIOUS
  <1>8. max \in J /\ \A j \in J : j <= max
    <2>1. max \in J /\ \A j \in J : max >= j
      BY <1>6, <1>7
    <2>2. max \in Int /\ \A j \in J : j \in Int
      BY <2>1
    <2> QED BY <2>1, <2>2
  <1> QED BY <1>7, <1>8

\* The last turn of a fold, and the turns before it.
LEMMA LastOfRange ==
    ASSUME NEW n \in Nat, NEW t \in SUBSET (1 .. n + 1), n + 1 \in t
    PROVE  Max(t) = n + 1 /\ t \ {n + 1} \in SUBSET (1 .. n)
  <1>1. \A k \in t : n + 1 >= k
    OBVIOUS
  <1>2. \E x \in t : \A y \in t : x >= y
    BY <1>1
  <1>3. Max(t) \in t /\ \A y \in t : Max(t) >= y
    BY <1>2 DEF Max
  <1>4. Max(t) = n + 1
    <2>1. PICK m : m = Max(t)
      OBVIOUS
    <2>2. m \in t /\ \A y \in t : m >= y
      BY <1>3, <2>1
    <2>3. m \in 1 .. n + 1 /\ m >= n + 1
      BY <2>2
    <2> QED BY <2>1, <2>3
  <1>5. \A k \in t \ {n + 1} : k \in 1 .. n
    OBVIOUS
  <1> QED BY <1>4, <1>5

(***************************************************************************)
(* Ranks                                                                   *)
(***************************************************************************)
RankIn(S, k) == Cardinality({m \in S : m <= k})

\* The numbers of a finite set have the ranks 1, 2, ... in their order.
LEMMA RanksRise ==
    ASSUME NEW S \in SUBSET Nat, IsFiniteSet(S), NEW k \in S
    PROVE  /\ RankIn(S, k) \in 1 .. Cardinality(S)
           /\ \A l \in S : k < l => RankIn(S, k) < RankIn(S, l)
  <1>1. ASSUME NEW j \in S
        PROVE  /\ IsFiniteSet({m \in S : m <= j}) /\ RankIn(S, j) \in Nat
               /\ RankIn(S, j) <= Cardinality(S) /\ RankIn(S, j) # 0 /\ Cardinality(S) \in Nat
    <2>1. {m \in S : m <= j} \in SUBSET S /\ j \in {m \in S : m <= j}
      OBVIOUS
    <2>2. IsFiniteSet({m \in S : m <= j}) /\ RankIn(S, j) <= Cardinality(S)
      BY <2>1, FS_Subset DEF RankIn
    <2>3. RankIn(S, j) \in Nat /\ Cardinality(S) \in Nat
      BY <2>2, FS_CardinalityType DEF RankIn
    <2>4. {m \in S : m <= j} # {}
      BY <2>1
    <2>5. RankIn(S, j) # 0
      BY <2>2, <2>4, FS_EmptySet DEF RankIn
    <2> QED BY <2>2, <2>3, <2>5
  <1>2. RankIn(S, k) \in 1 .. Cardinality(S)
    <2>1. /\ RankIn(S, k) \in Nat /\ RankIn(S, k) <= Cardinality(S) /\ RankIn(S, k) # 0
          /\ Cardinality(S) \in Nat
      BY <1>1
    <2> QED BY <2>1
  <1>3. ASSUME NEW l \in S, k < l PROVE RankIn(S, k) < RankIn(S, l)
    <2> DEFINE K == {m \in S : m <= k}
               L == {m \in S : m <= l}
    <2>1. K \in SUBSET L /\ l \in L /\ l \notin K
      <3>1. k \in Nat /\ l \in Nat /\ l <= l /\ ~(l <= k)
        BY <1>3
      <3>2. \A m \in S : m <= k => m <= l
        BY <1>3, <3>1
      <3> QED BY <3>1, <3>2
    <2>2. IsFiniteSet(L) /\ RankIn(S, k) = Cardinality(K) /\ RankIn(S, l) = Cardinality(L)
      BY <1>1 DEF RankIn
    <2> HIDE DEF K, L
    <2>3. Cardinality(K) <= Cardinality(L) /\ (Cardinality(L) = Cardinality(K) => L = K)
      BY <2>1, <2>2, FS_Subset
    <2>4. Cardinality(L) # Cardinality(K)
      BY <2>1, <2>3
    <2>5. RankIn(S, k) \in Nat /\ RankIn(S, l) \in Nat
      BY <1>1
    <2> QED BY <2>2, <2>3, <2>4, <2>5
  <1> QED BY <1>2, <1>3

LEMMA RanksTaken ==
    ASSUME NEW S \in SUBSET Nat, IsFiniteSet(S), NEW n \in 1 .. Cardinality(S)
    PROVE  \E k \in S : RankIn(S, k) = n
  <1> DEFINE T == 1 .. Cardinality(S)
             rank == [k \in S |-> RankIn(S, k)]
  <1>1. Cardinality(S) \in Nat
    BY FS_CardinalityType
  <1>2. IsFiniteSet(T) /\ Cardinality(T) = Cardinality(S)
    <2>1. Cardinality(S) \in Int /\ 1 \in Int
      BY <1>1
    <2>2. IsFiniteSet(T) /\ Cardinality(T) = IF 1 > Cardinality(S) THEN 0 ELSE Cardinality(S) - 1 + 1
      BY <2>1, FS_Interval
    <2> QED BY <1>1, <2>2
  <1>3. rank \in [S -> T]
    BY RanksRise
  <1>4. ASSUME NEW k \in S, NEW l \in S, k # l PROVE rank[k] # rank[l]
    <2>1. k \in Nat /\ l \in Nat /\ RankIn(S, k) \in Nat /\ RankIn(S, l) \in Nat
      BY <1>1, RanksRise
    <2>2. CASE k < l
      BY <2>1, <2>2, RanksRise
    <2>3. CASE l < k
      BY <2>1, <2>3, RanksRise
    <2> QED BY <1>4, <2>1, <2>2, <2>3
  <1> HIDE DEF rank, T
  <1>5. rank \in Injection(S, T)
    BY <1>3, <1>4 DEF Injection, IsInjective
  <1>6. rank \in Surjection(S, T)
    BY <1>2, <1>5, FS_Injection
  <1>7. n \in T
    BY DEF T
  <1>8. PICK k \in S : rank[k] = n
    BY <1>6, <1>7 DEF Surjection
  <1> QED BY <1>8 DEF rank

LEMMA SortedAt ==
    ASSUME NEW S \in SUBSET Nat, IsFiniteSet(S)
    PROVE  /\ DOMAIN Sorted(S) = 1 .. Cardinality(S)
           /\ \A n \in 1 .. Cardinality(S) : Sorted(S)[n] \in S /\ RankIn(S, Sorted(S)[n]) = n
  <1>1. ASSUME NEW n \in 1 .. Cardinality(S)
        PROVE  Sorted(S)[n] \in S /\ RankIn(S, Sorted(S)[n]) = n
    <2>1. Sorted(S)[n] = CHOOSE k \in S : RankIn(S, k) = n
      BY DEF Sorted, RankIn
    <2> QED BY <2>1, RanksTaken
  <1> QED BY <1>1 DEF Sorted

\* As many values of an increasing function as arguments, in the same order.
LEMMA SortedImage ==
    ASSUME NEW S \in SUBSET Nat, IsFiniteSet(S), NEW f, \A i \in S : f[i] \in Nat,
           \A i, j \in S : i < j => f[i] < f[j],
           NEW T, \A t : t \in T <=> \E i \in S : t = f[i]
    PROVE  /\ DOMAIN Sorted(T) = 1 .. Cardinality(S)
           /\ \A n \in 1 .. Cardinality(S) : Sorted(T)[n] = f[Sorted(S)[n]]
  <1>1. ASSUME NEW U \in SUBSET S
        PROVE  Cardinality({f[i] : i \in U}) = Cardinality(U) /\ IsFiniteSet({f[i] : i \in U})
    <2> DEFINE V == {f[i] : i \in U}
               g == [i \in U |-> f[i]]
    <2>1. IsFiniteSet(U)
      BY FS_Subset
    <2>2. ASSUME NEW i \in U, NEW j \in U, f[i] = f[j] PROVE i = j
      <3>1. i \in Nat /\ j \in Nat /\ f[i] \in Nat
        OBVIOUS
      <3> QED BY <2>2, <3>1
    <2>3. g \in Bijection(U, V)
      BY <2>2 DEF Bijection, Injection, Surjection, IsInjective
    <2>4. ExistsBijection(U, V)
      BY <2>3 DEF ExistsBijection
    <2> QED BY <2>1, <2>4, FS_Bijection
  <1>2. T \in SUBSET Nat /\ IsFiniteSet(T) /\ Cardinality(T) = Cardinality(S)
    BY <1>1
  <1>3. ASSUME NEW k \in S PROVE RankIn(T, f[k]) = RankIn(S, k)
    <2> DEFINE U == {m \in S : m <= k}
    <2>1. ASSUME NEW i \in S PROVE f[i] <= f[k] <=> i <= k
      <3>1. i \in Nat /\ k \in Nat /\ f[i] \in Nat /\ f[k] \in Nat
        OBVIOUS
      <3>2. CASE i < k
        BY <3>1, <3>2
      <3>3. CASE i = k
        BY <3>1, <3>3
      <3>4. CASE k < i
        BY <3>1, <3>4
      <3> QED BY <3>1, <3>2, <3>3, <3>4
    <2>2. {m \in T : m <= f[k]} = {f[i] : i \in U}
      BY <2>1
    <2>3. U \in SUBSET S
      OBVIOUS
    <2>4. Cardinality({f[i] : i \in U}) = Cardinality(U)
      BY <1>1, <2>3
    <2> QED BY <2>2, <2>4 DEF RankIn
  <1>4. ASSUME NEW n \in 1 .. Cardinality(S)
        PROVE  Sorted(T)[n] = f[Sorted(S)[n]]
    <2>1. PICK k \in S : k = Sorted(S)[n] /\ RankIn(S, k) = n
      BY SortedAt
    <2>2. PICK t \in T : t = Sorted(T)[n] /\ RankIn(T, t) = n
      BY <1>2, SortedAt
    <2>3. PICK l \in S : t = f[l]
      BY <2>2
    <2>4. RankIn(S, l) = n
      BY <1>3, <2>2, <2>3
    <2>5. ~(k < l) /\ ~(l < k)
      <3>1. RankIn(S, k) \in Nat /\ RankIn(S, l) \in Nat
        BY RanksRise, FS_CardinalityType
      <3> QED BY <2>1, <2>4, <3>1, RanksRise
    <2>6. k = l
      BY <2>5
    <2> QED BY <2>1, <2>2, <2>3, <2>6
  <1>5. DOMAIN Sorted(T) = 1 .. Cardinality(S)
    BY <1>2, SortedAt
  <1> QED BY <1>4, <1>5

\* Every number has its place, and the places are in their order.
LEMMA SortedRises ==
    ASSUME NEW S \in SUBSET Nat, IsFiniteSet(S)
    PROVE  /\ \A m, n \in 1 .. Cardinality(S) : m < n => Sorted(S)[m] < Sorted(S)[n]
           /\ \A k \in S : \E n \in 1 .. Cardinality(S) : Sorted(S)[n] = k
  <1>1. ASSUME NEW k \in S, NEW l \in S, RankIn(S, k) <= RankIn(S, l) PROVE k <= l
    <2>1. RankIn(S, k) \in Nat /\ RankIn(S, l) \in Nat
      BY RanksRise, FS_CardinalityType
    <2>2. ~(l < k)
      BY <1>1, <2>1, RanksRise
    <2> QED BY <2>2
  <1>2. ASSUME NEW m \in 1 .. Cardinality(S), NEW n \in 1 .. Cardinality(S), m < n
        PROVE  Sorted(S)[m] < Sorted(S)[n]
    <2>1. PICK k \in S : k = Sorted(S)[m] /\ RankIn(S, k) = m
      BY SortedAt
    <2>2. PICK l \in S : l = Sorted(S)[n] /\ RankIn(S, l) = n
      BY SortedAt
    <2>3. m \in Nat /\ n \in Nat
      BY FS_CardinalityType
    <2>4. k <= l /\ k # l
      BY <1>1, <1>2, <2>1, <2>2, <2>3
    <2>5. k \in Nat /\ l \in Nat
      OBVIOUS
    <2> QED BY <2>1, <2>2, <2>4, <2>5
  <1>3. ASSUME NEW k \in S PROVE \E n \in 1 .. Cardinality(S) : Sorted(S)[n] = k
    <2>1. PICK n \in 1 .. Cardinality(S) : n = RankIn(S, k)
      BY RanksRise
    <2>2. PICK l \in S : l = Sorted(S)[n] /\ RankIn(S, l) = n
      BY SortedAt
    <2>3. n \in Nat
      BY FS_CardinalityType
    <2>4. k <= l /\ l <= k
      BY <1>1, <2>1, <2>2, <2>3
    <2> QED BY <2>2, <2>4
  <1> QED BY <1>2, <1>3

(***************************************************************************)
(* Parts of sequences                                                      *)
(***************************************************************************)
\* The M entries of seq at S, of which `at` has the positions, in order.
Part(at, M, seq, S) ==
    /\ at \in [1 .. M -> S]
    /\ At(seq, S) = [n \in 1 .. M |-> seq[at[n]]]
    /\ \A m, n \in 1 .. M : m < n => at[m] < at[n]
    /\ \A k \in S : \E n \in 1 .. M : at[n] = k

LEMMA AtPositions ==
    ASSUME NEW N \in Nat, NEW S \in SUBSET (1 .. N), NEW seq
    PROVE  \E M \in 0 .. N : \E at : Part(at, M, seq, S)
  <1>1. S \in SUBSET Nat /\ IsFiniteSet(1 .. N) /\ Cardinality(1 .. N) = N
    <2>1. 1 \in Int /\ N \in Int
      OBVIOUS
    <2>2. /\ IsFiniteSet(1 .. N)
          /\ Cardinality(1 .. N) = IF 1 > N THEN 0 ELSE N - 1 + 1
      BY <2>1, FS_Interval
    <2> QED BY <2>2
  <1>2. IsFiniteSet(S) /\ Cardinality(S) <= N
    BY <1>1, FS_Subset
  <1>3. PICK M \in Nat : M = Cardinality(S)
    BY <1>2, FS_CardinalityType
  <1>4. PICK at : at = Sorted(S)
    OBVIOUS
  <1>5. at = [n \in 1 .. M |-> at[n]] /\ \A n \in 1 .. M : at[n] \in S
    <2>1. at = [n \in 1 .. M |-> CHOOSE k \in S : RankIn(S, k) = n]
      BY <1>3, <1>4, Zenon DEF Sorted, RankIn
    <2>2. at = [n \in 1 .. M |-> at[n]]
      BY <2>1
    <2>3. \A n \in 1 .. M : at[n] \in S
      BY <1>1, <1>2, <1>3, <1>4, SortedAt
    <2> QED BY <2>2, <2>3
  <1>6. /\ \A m, n \in 1 .. M : m < n => at[m] < at[n]
        /\ \A k \in S : \E n \in 1 .. M : at[n] = k
    BY <1>1, <1>2, <1>3, <1>4, SortedRises
  <1>7. At(seq, S) = [n \in 1 .. M |-> seq[at[n]]]
    BY <1>4, <1>5 DEF At
  <1>8. at \in [1 .. M -> S] /\ M \in 0 .. N
    BY <1>2, <1>3, <1>5
  <1>9. Part(at, M, seq, S)
    BY <1>6, <1>7, <1>8 DEF Part
  <1> QED BY <1>8, <1>9

(***************************************************************************)
(* Sorting                                                                 *)
(***************************************************************************)
\* `before` puts any two positions in one order.
Orders(before, N) ==
    /\ \A i, j \in 1 .. N : i # j => (<<i, j>> \in before <=> <<j, i>> \notin before)
    /\ \A i \in 1 .. N : <<i, i>> \notin before
    /\ \A i, j, k \in 1 .. N : <<i, j>> \in before /\ <<j, k>> \in before => <<i, k>> \in before

Earlier(i, before, N) == {j \in 1 .. N : <<j, i>> \in before}

LEMMA EarlierRises ==
    ASSUME NEW N \in Nat, NEW before, Orders(before, N), NEW i \in 1 .. N
    PROVE  /\ Cardinality(Earlier(i, before, N)) \in 0 .. N - 1
           /\ \A k \in 1 .. N : <<i, k>> \in before =>
                Cardinality(Earlier(i, before, N)) < Cardinality(Earlier(k, before, N))
  <1>1. IsFiniteSet(1 .. N) /\ Cardinality(1 .. N) = N
    <2>1. 1 \in Int /\ N \in Int
      OBVIOUS
    <2>2. /\ IsFiniteSet(1 .. N)
          /\ Cardinality(1 .. N) = IF 1 > N THEN 0 ELSE N - 1 + 1
      BY <2>1, FS_Interval
    <2> QED BY <2>2
  <1>2. ASSUME NEW j \in 1 .. N
        PROVE  IsFiniteSet(Earlier(j, before, N)) /\ Cardinality(Earlier(j, before, N)) \in Nat
    <2>1. Earlier(j, before, N) \in SUBSET (1 .. N)
      BY DEF Earlier
    <2>2. IsFiniteSet(Earlier(j, before, N))
      BY <1>1, <2>1, FS_Subset
    <2> QED BY <2>2, FS_CardinalityType
  <1>3. ASSUME NEW T, IsFiniteSet(T), NEW x \in T, x \notin Earlier(i, before, N),
               Earlier(i, before, N) \in SUBSET T
        PROVE  Cardinality(Earlier(i, before, N)) < Cardinality(T)
    <2>1. /\ Cardinality(Earlier(i, before, N)) <= Cardinality(T)
          /\ Cardinality(Earlier(i, before, N)) = Cardinality(T) => Earlier(i, before, N) = T
      BY <1>3, FS_Subset
    <2>2. Cardinality(Earlier(i, before, N)) # Cardinality(T)
      BY <1>3, <2>1
    <2>3. Cardinality(Earlier(i, before, N)) \in Nat /\ Cardinality(T) \in Nat
      BY <1>2, <1>3, FS_CardinalityType
    <2> QED BY <2>1, <2>2, <2>3
  <1>4. i \notin Earlier(i, before, N) /\ Earlier(i, before, N) \in SUBSET (1 .. N)
    BY DEF Earlier, Orders
  <1>5. Cardinality(Earlier(i, before, N)) < N
    BY <1>1, <1>3, <1>4
  <1>6. ASSUME NEW k \in 1 .. N, <<i, k>> \in before
        PROVE  Cardinality(Earlier(i, before, N)) < Cardinality(Earlier(k, before, N))
    <2>1. i \in Earlier(k, before, N) /\ Earlier(i, before, N) \in SUBSET Earlier(k, before, N)
      BY <1>6 DEF Earlier, Orders
    <2>2. IsFiniteSet(Earlier(k, before, N))
      BY <1>2
    <2> QED BY <1>3, <1>4, <2>1, <2>2
  <1> QED BY <1>2, <1>5, <1>6

\* seq in that order: `at` has the positions its entries come from.
Arrangement(at, seq, before, N) ==
    /\ at \in [1 .. N -> 1 .. N]
    /\ Arranged(seq, before) = [n \in 1 .. N |-> seq[at[n]]]
    /\ \A m, n \in 1 .. N : m < n => <<at[m], at[n]>> \in before
    /\ \A k \in 1 .. N : \E n \in 1 .. N : at[n] = k

LEMMA ArrangedInOrder ==
    ASSUME NEW N \in Nat, NEW before, Orders(before, N), NEW seq, DOMAIN seq = 1 .. N
    PROVE  \E at : Arrangement(at, seq, before, N)
  <1> DEFINE place == [i \in 1 .. N |-> Cardinality(Earlier(i, before, N)) + 1]
             at == [n \in 1 .. N |-> CHOOSE i \in 1 .. N : place[i] = n]
  <1>1. IsFiniteSet(1 .. N)
    <2>1. 1 \in Int /\ N \in Int
      OBVIOUS
    <2> QED BY <2>1, FS_Interval
  <1>2. place \in [1 .. N -> 1 .. N]
    <2>1. ASSUME NEW i \in 1 .. N PROVE Cardinality(Earlier(i, before, N)) + 1 \in 1 .. N
      <3>1. Cardinality(Earlier(i, before, N)) \in 0 .. N - 1
        BY EarlierRises
      <3> QED BY <3>1
    <2> QED BY <2>1
  <1>3. ASSUME NEW i \in 1 .. N, NEW k \in 1 .. N, <<i, k>> \in before PROVE place[i] < place[k]
    <2>1. /\ Cardinality(Earlier(i, before, N)) < Cardinality(Earlier(k, before, N))
          /\ Cardinality(Earlier(i, before, N)) \in 0 .. N - 1
          /\ Cardinality(Earlier(k, before, N)) \in 0 .. N - 1
      BY <1>3, EarlierRises
    <2> QED BY <2>1
  <1>4. \A n \in 1 .. N : at[n] = CHOOSE i \in 1 .. N : place[i] = n
    OBVIOUS
  <1>5. Arranged(seq, before) = [n \in 1 .. N |-> seq[at[n]]]
    <2>1. ASSUME NEW n \in 1 .. N
          PROVE  at[n] = CHOOSE i \in 1 .. N : Cardinality(Earlier(i, before, N)) = n - 1
      <3>1. ASSUME NEW i \in 1 .. N
            PROVE  place[i] = n <=> Cardinality(Earlier(i, before, N)) = n - 1
        <4>1. Cardinality(Earlier(i, before, N)) \in 0 .. N - 1
          BY EarlierRises
        <4> QED BY <4>1
      <3> HIDE DEF place
      <3> QED BY <3>1
    <2>2. Arranged(seq, before) =
            [n \in DOMAIN seq |-> seq[CHOOSE i \in DOMAIN seq :
               Cardinality({j \in DOMAIN seq : <<j, i>> \in before}) = n - 1]]
      BY Zenon DEF Arranged
    <2>3. Arranged(seq, before) =
            [n \in 1 .. N |-> seq[CHOOSE i \in 1 .. N : Cardinality(Earlier(i, before, N)) = n - 1]]
      BY <2>2, Zenon DEF Earlier
    <2> HIDE DEF at
    <2> QED BY <2>1, <2>3
  <1> HIDE DEF place
  <1>6. place \in Injection(1 .. N, 1 .. N)
    <2>1. ASSUME NEW i \in 1 .. N, NEW k \in 1 .. N, i # k PROVE place[i] # place[k]
      <3>1. <<i, k>> \in before \/ <<k, i>> \in before
        BY <2>1 DEF Orders
      <3>2. place[i] < place[k] \/ place[k] < place[i]
        BY <1>3, <3>1
      <3>3. place[i] \in 1 .. N /\ place[k] \in 1 .. N
        BY <1>2
      <3> QED BY <3>2, <3>3
    <2> QED BY <1>2, <2>1 DEF Injection, IsInjective
  <1>7. place \in Surjection(1 .. N, 1 .. N)
    BY <1>1, <1>6, FS_Injection
  <1>8. ASSUME NEW n \in 1 .. N PROVE at[n] \in 1 .. N /\ place[at[n]] = n
    <2>1. \E i \in 1 .. N : place[i] = n
      BY <1>7 DEF Surjection
    <2> HIDE DEF at
    <2> QED BY <1>4, <2>1
  <1>9. at \in [1 .. N -> 1 .. N]
    BY <1>8
  <1> HIDE DEF at
  <1>10. ASSUME NEW m \in 1 .. N, NEW n \in 1 .. N, m < n PROVE <<at[m], at[n]>> \in before
    <2>1. at[m] # at[n]
      BY <1>8, <1>10
    <2>2. <<at[n], at[m]>> \notin before
      <3>1. SUFFICES ASSUME <<at[n], at[m]>> \in before PROVE FALSE
        OBVIOUS
      <3>2. n < m
        BY <1>3, <1>8, <3>1
      <3> QED BY <1>10, <3>2
    <2> QED BY <1>8, <2>1, <2>2 DEF Orders
  <1>11. ASSUME NEW k \in 1 .. N PROVE \E n \in 1 .. N : at[n] = k
    <2>1. place[k] \in 1 .. N
      BY <1>2
    <2>2. place[at[place[k]]] = place[k] /\ at[place[k]] \in 1 .. N
      BY <1>8, <2>1
    <2>3. at[place[k]] = k
      BY <1>6, <2>2 DEF Injection, IsInjective
    <2> QED BY <2>1, <2>3
  <1>12. Arrangement(at, seq, before, N)
    BY <1>5, <1>9, <1>10, <1>11 DEF Arrangement
  <1> QED BY <1>12

(***************************************************************************)
(* Folds                                                                   *)
(***************************************************************************)
\* FoldLeft over positions T: the turn of the last one comes after those of
\* the others.  `step` is the operator folded, on values of A.
Folded(iter, T, A, base, step) ==
    /\ iter = [t \in SUBSET T |-> IF t = {} THEN base
                                  ELSE step[<<iter[t \ {Max(t)}], Max(t)>>]]
    /\ \A t \in SUBSET T : iter[t] \in A

LEMMA FoldLonger ==
    ASSUME NEW N \in Nat, NEW A, NEW base \in A, NEW step \in [A \X (1 .. N) -> A],
           NEW k \in 0 .. N - 1, NEW iter, Folded(iter, 1 .. k, A, base, step)
    PROVE  \E longer : Folded(longer, 1 .. k + 1, A, base, step)
  <1>1. PICK n : n = k + 1
    OBVIOUS
  <1>2. k \in Nat /\ n \in 1 .. N /\ n \notin 1 .. k
    BY <1>1
  <1>3. PICK longer : longer = [t \in SUBSET (1 .. n) |->
                          IF n \in t THEN step[<<iter[t \ {n}], n>>] ELSE iter[t]]
    OBVIOUS
  <1>4. ASSUME NEW t \in SUBSET (1 .. n)
        PROVE  /\ longer[t] = IF t = {} THEN base ELSE step[<<longer[t \ {Max(t)}], Max(t)>>]
               /\ longer[t] \in A
    <2>1. CASE n \in t
      <3>1. Max(t) = n /\ t \ {n} \in SUBSET (1 .. k)
        BY <1>1, <1>2, <2>1, LastOfRange
      <3>2. t \ {n} \in SUBSET (1 .. n) /\ n \notin t \ {n}
        OBVIOUS
      <3>3. longer[t \ {n}] = iter[t \ {n}]
        BY <1>3, <3>2
      <3>4. longer[t] = step[<<iter[t \ {n}], n>>]
        BY <1>3, <2>1
      <3>5. iter[t \ {n}] \in A
        BY <3>1 DEF Folded
      <3>6. step[<<iter[t \ {n}], n>>] \in A
        BY <1>2, <3>5
      <3> QED BY <2>1, <3>1, <3>3, <3>4, <3>6
    <2>2. CASE n \notin t
      <3>1. t \in SUBSET (1 .. k) /\ t \ {Max(t)} \in SUBSET (1 .. n) /\ n \notin t \ {Max(t)}
        <4>1. \A i \in t : i \in 1 .. k
          BY <1>1, <2>2
        <4> QED BY <2>2, <4>1
      <3>2. longer[t] = iter[t] /\ longer[t \ {Max(t)}] = iter[t \ {Max(t)}]
        BY <1>3, <2>2, <3>1
      <3>3. iter[t] = IF t = {} THEN base ELSE step[<<iter[t \ {Max(t)}], Max(t)>>]
        BY <3>1 DEF Folded
      <3>4. iter[t] \in A
        BY <3>1 DEF Folded
      <3> QED BY <3>2, <3>3, <3>4
    <2> QED BY <2>1, <2>2
  <1>5. longer = [t \in SUBSET (1 .. n) |-> longer[t]]
    BY <1>3
  <1>6. Folded(longer, 1 .. n, A, base, step)
    BY <1>4, <1>5 DEF Folded
  <1> QED BY <1>1, <1>6

\* Every fold is defined.
LEMMA FoldExists ==
    ASSUME NEW N \in Nat, NEW A, NEW base \in A, NEW step \in [A \X (1 .. N) -> A]
    PROVE  \E iter : Folded(iter, 1 .. N, A, base, step)
  <1>1. PICK S : S = {n \in 0 .. N : \E iter : Folded(iter, 1 .. n, A, base, step)}
    OBVIOUS
  <1>2. 0 \in S
    <2>1. PICK iter : iter = [t \in SUBSET (1 .. 0) |-> base]
      OBVIOUS
    <2>2. \A t \in SUBSET (1 .. 0) : t = {}
      OBVIOUS
    <2>3. Folded(iter, 1 .. 0, A, base, step)
      BY <2>1, <2>2 DEF Folded
    <2> QED BY <1>1, <2>3
  <1>3. ASSUME NEW n \in 0 .. N - 1, n \in S PROVE n + 1 \in S
    <2>1. PICK iter : Folded(iter, 1 .. n, A, base, step)
      BY <1>1, <1>3
    <2>2. \E longer : Folded(longer, 1 .. n + 1, A, base, step)
      BY <2>1, FoldLonger
    <2> QED BY <1>1, <2>2
  <1>4. \A n \in 0 .. N : n \in S
    BY <1>2, <1>3, Upward
  <1> QED BY <1>1, <1>4

\* A fold's turns are those of the positions from 1 on.
LEMMA TurnOf ==
    ASSUME NEW N \in Nat, NEW n \in 0 .. N - 1
    PROVE  /\ 1 .. n + 1 \in SUBSET (1 .. N) /\ 1 .. n + 1 # {}
           /\ Max(1 .. n + 1) = n + 1 /\ (1 .. n + 1) \ {Max(1 .. n + 1)} = 1 .. n
  <1>1. n \in Nat /\ n + 1 \in 1 .. n + 1 /\ n + 1 \in 1 .. N
    OBVIOUS
  <1>2. Max(1 .. n + 1) = n + 1
    BY <1>1, LastOfRange
  <1>3. (1 .. n + 1) \ {n + 1} = 1 .. n
    BY <1>1
  <1> QED BY <1>1, <1>2, <1>3
=============================================================================
