------------------------------ MODULE ListProofs ------------------------------
(***************************************************************************)
(* Lemmas about lists: induction over their places, folds, sorting and     *)
(* choosing by rank.  On them rest the theorems about the two merges of    *)
(* profiles.json and about the user list, here, and DeployProofs.          *)
(***************************************************************************)
EXTENDS ProfilesMerge, UserList, FiniteSetTheorems, WellFoundedInduction,
        SequenceTheorems, TLAPS

------------------------------------------------------------------------------
(* Induction: subsets of finite sets are well-founded, and so are numbers.  *)

LEMMA HasLeast ==
  ASSUME NEW T, T \subseteq Nat, T # {}
  PROVE  \E m \in T : \A n \in T : m <= n
<1> DEFINE U == {0 .. t : t \in T}
<1>1. U \subseteq FiniteSubsetsOf(Nat) /\ U # {}
  <2>1. \A t \in T : IsFiniteSet(0 .. t) /\ 0 .. t \subseteq Nat
    BY FS_Interval
  <2>2. QED
    BY <2>1 DEF FiniteSubsetsOf
<1>2. \E x \in U : \A y \in U : <<y, x>> \notin StrictSubsetOrdering(Nat)
  <2> HIDE DEF U
  <2>1. QED
    BY <1>1, FS_StrictSubsetOrderingWellFounded, WFMin
<1>3. PICK m \in T : \A n \in T : <<0 .. n, 0 .. m>> \notin StrictSubsetOrdering(Nat)
  BY <1>2
<1>4. \A n \in T : m <= n
  <2> SUFFICES ASSUME NEW n \in T, n < m PROVE FALSE
    OBVIOUS
  <2>1. /\ 0 .. n \subseteq 0 .. m /\ 0 .. n # 0 .. m
        /\ 0 .. n \in SUBSET Nat /\ 0 .. m \in SUBSET Nat
    <3>1. m \in 0 .. m /\ m \notin 0 .. n
      OBVIOUS
    <3>2. QED
      BY <3>1
  <2>2. QED
    BY <1>3, <2>1 DEF StrictSubsetOrdering
<1>5. QED
  BY <1>4

LEMMA HasGreatest ==
  ASSUME NEW n \in Nat, NEW T, T \subseteq 0 .. n, T # {}
  PROVE  \E m \in T : \A i \in T : i <= m
<1> DEFINE D == {n - i : i \in T}
<1>1. D \subseteq Nat /\ D # {}
  <2>1. PICK i \in T : TRUE
    OBVIOUS
  <2>2. n - i \in D
    BY <2>1
  <2>3. \A j \in T : n - j \in Nat
    OBVIOUS
  <2>4. QED
    BY <2>2, <2>3
<1>2. PICK d \in D : \A e \in D : d <= e
  <2> HIDE DEF D
  <2>1. QED
    BY <1>1, HasLeast
<1>3. PICK m \in T : d = n - m
  OBVIOUS
<1>4. \A i \in T : n - m <= n - i
  BY <1>2, <1>3
<1>5. QED
  BY <1>4

------------------------------------------------------------------------------
(* Folds over a sequence, from left to right.                              *)

\* Induction over the places of a sequence.
LEMMA PrefixInduction ==
  ASSUME NEW n \in Nat, NEW T \in SUBSET (0 .. n), 0 \in T,
         \A k \in 1 .. n : k - 1 \in T => k \in T
  PROVE  T = 0 .. n
<1> SUFFICES ASSUME (0 .. n) \ T # {}
             PROVE  FALSE
  OBVIOUS
<1>1. (0 .. n) \ T \subseteq Nat
  OBVIOUS
<1>2. PICK m \in (0 .. n) \ T : \A k \in (0 .. n) \ T : m <= k
  BY <1>1, HasLeast
<1>3. m \in 1 .. n
  BY <1>2
<1>4. m - 1 \in 0 .. n /\ m - 1 < m
  BY <1>3
<1>5. m - 1 \in T
  BY <1>2, <1>4
<1>6. QED
  BY <1>2, <1>3, <1>5

LEMMA MaxIsGreatest ==
  ASSUME NEW n \in Nat, NEW s \in SUBSET (1 .. n), s # {}
  PROVE  Max(s) \in s /\ \A y \in s : y <= Max(s)
<1> DEFINE Top(x) == \A y \in s : x >= y
<1>1. \E x \in s : Top(x)
  <2>1. \E m \in s : \A i \in s : i <= m
    <3>1. s \subseteq 0 .. n
      OBVIOUS
    <3>2. QED
      BY <3>1, HasGreatest
  <2>2. QED
    BY <2>1
<1>2. Max(s) = CHOOSE x \in s : Top(x)
  BY DEF Max
<1> HIDE DEF Top
<1>3. Max(s) \in s /\ Top(Max(s))
  BY <1>1, <1>2
<1>4. QED
  BY <1>3 DEF Top

LEMMA SubsetsCounted ==
  ASSUME NEW S, IsFiniteSet(S), NEW s \in SUBSET S
  PROVE  /\ IsFiniteSet(s)
         /\ Cardinality(s) \in Nat /\ Cardinality(s) <= Cardinality(S)
         /\ Cardinality(s) = 0 <=> s = {}
         /\ \A x \in s : Cardinality(s \ {x}) = Cardinality(s) - 1
<1>1. IsFiniteSet(s) /\ Cardinality(s) <= Cardinality(S)
  BY FS_Subset
<1>2. Cardinality(s) \in Nat
  BY <1>1, FS_CardinalityType
<1>3. Cardinality(s) = 0 <=> s = {}
  BY <1>1, FS_EmptySet
<1>4. \A x \in s : Cardinality(s \ {x}) = Cardinality(s) - 1
  BY <1>1, FS_RemoveElement
<1>5. QED
  BY <1>1, <1>2, <1>3, <1>4

\* The value of a fold at a set of places, from its value without the last one.
FoldsBy(f, n, base, G) ==
  \A s \in SUBSET (1 .. n) :
    f[s] = IF s = {} THEN base ELSE G[<<f[s \ {Max(s)}], Max(s)>>]

\* A step function on values and places has the function that FoldLeft goes by.
LEMMA FoldExists ==
  ASSUME NEW n \in Nat, NEW Y, NEW base \in Y, NEW G \in [Y \X (1 .. n) -> Y]
  PROVE  \E f \in [SUBSET (1 .. n) -> Y] : FoldsBy(f, n, base, G)
<1> DEFINE D(k) == {s \in SUBSET (1 .. n) : Cardinality(s) <= k}
           Follows(f, k) == \A s \in D(k) :
             f[s] = IF s = {} THEN base ELSE G[<<f[s \ {Max(s)}], Max(s)>>]
           T == {k \in 0 .. n : \E f \in [D(k) -> Y] : Follows(f, k)}
<1>1. \A s \in SUBSET (1 .. n) :
        /\ Cardinality(s) \in Nat /\ Cardinality(s) <= n
        /\ Cardinality(s) = 0 <=> s = {}
        /\ \A x \in s : Cardinality(s \ {x}) = Cardinality(s) - 1
  <2>1. IsFiniteSet(1 .. n) /\ Cardinality(1 .. n) = n
    BY FS_Interval
  <2> DEFINE N == 1 .. n
  <2> HIDE DEF N
  <2>2. \A s \in SUBSET N :
          /\ Cardinality(s) \in Nat /\ Cardinality(s) <= Cardinality(N)
          /\ Cardinality(s) = 0 <=> s = {}
          /\ \A x \in s : Cardinality(s \ {x}) = Cardinality(s) - 1
    BY <2>1, SubsetsCounted DEF N
  <2>3. QED
    BY <2>1, <2>2 DEF N
<1>2. 0 \in T
  <2>1. \A s \in D(0) : s = {}
    BY <1>1
  <2> DEFINE f0 == [s \in D(0) |-> base]
  <2>2. f0 \in [D(0) -> Y]
    OBVIOUS
  <2>3. Follows(f0, 0)
    BY <2>1
  <2> HIDE DEF D, Follows, f0
  <2>4. QED
    BY <2>2, <2>3
<1>3. ASSUME NEW k \in 1 .. n, k - 1 \in T
      PROVE  k \in T
  <2>1. PICK f \in [D(k - 1) -> Y] : Follows(f, k - 1)
    BY <1>3
  <2> DEFINE g == [s \in D(k) |-> IF s = {} THEN base
                                  ELSE G[<<f[s \ {Max(s)}], Max(s)>>]]
  <2>2. ASSUME NEW s \in D(k), s # {}
        PROVE  s \ {Max(s)} \in D(k - 1) /\ s \ {Max(s)} \in D(k) /\ Max(s) \in 1 .. n
    <3>1. Max(s) \in s /\ s \in SUBSET (1 .. n)
      BY <2>2, MaxIsGreatest
    <3>2. Cardinality(s \ {Max(s)}) = Cardinality(s) - 1 /\ Cardinality(s) \in Nat
      BY <1>1, <3>1
    <3>3. Cardinality(s) <= k
      BY <2>2
    <3>4. s \ {Max(s)} \in SUBSET (1 .. n) /\ Max(s) \in 1 .. n
      BY <3>1
    <3>5. Cardinality(s \ {Max(s)}) <= k - 1 /\ Cardinality(s \ {Max(s)}) <= k
      BY <3>2, <3>3
    <3>6. QED
      BY <3>4, <3>5
  <2>3. D(k - 1) \subseteq D(k)
    BY <1>1
  <2>4. g \in [D(k) -> Y]
    <3>1. ASSUME NEW s \in D(k), s # {}
          PROVE  G[<<f[s \ {Max(s)}], Max(s)>>] \in Y
      <4>1. f[s \ {Max(s)}] \in Y /\ Max(s) \in 1 .. n
        BY <2>2, <3>1
      <4>2. QED
        BY <4>1
    <3>2. QED
      BY <3>1
  <2>5. \A s \in D(k - 1) : g[s] = f[s]
    BY <2>1, <2>3
  <2>6. Follows(g, k)
    BY <2>2, <2>5
  <2> HIDE DEF D, Follows, g
  <2>7. QED
    BY <2>4, <2>6
<1>4. n \in T
  <2>1. T \in SUBSET (0 .. n)
    OBVIOUS
  <2> HIDE DEF T
  <2>2. T = 0 .. n
    BY <1>2, <1>3, <2>1, PrefixInduction
  <2>3. QED
    BY <2>2
<1>5. D(n) = SUBSET (1 .. n)
  BY <1>1
<1>6. PICK f \in [D(n) -> Y] : Follows(f, n)
  BY <1>4
<1>7. QED
  BY <1>5, <1>6 DEF FoldsBy

\* It goes through the prefixes of the sequence.
LEMMA PrefixTop ==
  ASSUME NEW n \in Nat, NEW k \in 1 .. n
  PROVE  /\ 1 .. k \in SUBSET (1 .. n) /\ 1 .. k # {}
         /\ Max(1 .. k) = k /\ (1 .. k) \ {Max(1 .. k)} = 1 .. k - 1
<1>1. 1 .. k \in SUBSET (1 .. n) /\ 1 .. k # {} /\ k \in 1 .. k
  OBVIOUS
<1>2. Max(1 .. k) \in 1 .. k /\ k <= Max(1 .. k)
  BY <1>1, MaxIsGreatest
<1>3. Max(1 .. k) = k
  BY <1>2
<1>4. (1 .. k) \ {k} = 1 .. k - 1
  OBVIOUS
<1>5. QED
  BY <1>1, <1>3, <1>4
\* A sequence with the first elements of another one after it.
Extended(base, s, k) ==
  [i \in 1 .. Len(base) + k |-> IF i <= Len(base) THEN base[i] ELSE s[i - Len(base)]]

LEMMA Extends ==
  ASSUME NEW E, NEW base \in Seq(E), NEW s \in Seq(E)
  PROVE  /\ Extended(base, s, 0) = base
         /\ Extended(base, s, Len(s)) = base \o s
         /\ base \o s \in Seq(E)
         /\ \A k \in 0 .. Len(s) : Extended(base, s, k) \in Seq(E)
         /\ \A k \in 1 .. Len(s) :
              Extended(base, s, k) = Append(Extended(base, s, k - 1), s[k])
<1>1. Len(base) \in Nat /\ Len(s) \in Nat /\ base = [i \in 1 .. Len(base) |-> base[i]]
  OBVIOUS
<1>2. \A i \in 1 .. Len(base) : base[i] \in E
  OBVIOUS
<1>3. \A i \in 1 .. Len(s) : s[i] \in E
  OBVIOUS
<1>4. Extended(base, s, 0) = base
  BY <1>1 DEF Extended
<1>6. \A k \in 0 .. Len(s) :
        /\ Extended(base, s, k) \in Seq(E)
        /\ Len(Extended(base, s, k)) = Len(base) + k
  <2> TAKE k \in 0 .. Len(s)
  <2> DEFINE m == Len(base) + k
  <2>1. m \in Nat
    BY <1>1
  <2>2. \A i \in 1 .. m :
          (IF i <= Len(base) THEN base[i] ELSE s[i - Len(base)]) \in E
    BY <1>1, <1>2, <1>3
  <2>3. Extended(base, s, k) \in [1 .. m -> E]
    BY <2>2 DEF Extended
  <2> HIDE DEF m
  <2>4. Extended(base, s, k) \in Seq(E) /\ Len(Extended(base, s, k)) = m
    BY <2>1, <2>3
  <2>5. QED
    BY <2>4 DEF m
<1>7. ASSUME NEW k \in 1 .. Len(s)
      PROVE  Extended(base, s, k) = Append(Extended(base, s, k - 1), s[k])
  <2> DEFINE shorter == Extended(base, s, k - 1)
             m == Len(base) + k
  <2>1. shorter \in Seq(E) /\ Len(shorter) = m - 1
        /\ m \in Nat /\ m > 0 /\ m - Len(base) = k /\ m > Len(base)
    <3>1. k - 1 \in 0 .. Len(s) /\ k \in Nat /\ k > 0
      BY <1>1
    <3>2. shorter \in Seq(E) /\ Len(shorter) = Len(base) + (k - 1)
      BY <1>6, <3>1
    <3> HIDE DEF shorter
    <3>3. QED
      BY <1>1, <3>1, <3>2
  <2>2. \A i \in 1 .. m - 1 :
          shorter[i] = IF i <= Len(base) THEN base[i] ELSE s[i - Len(base)]
    BY <1>1 DEF Extended
  <2>3. Extended(base, s, k) =
          [i \in 1 .. m |-> IF i <= Len(base) THEN base[i] ELSE s[i - Len(base)]]
    BY DEF Extended
  <2> HIDE DEF shorter, m
  <2>4. Append(shorter, s[k]) = [i \in 1 .. m |-> IF i = m THEN s[k] ELSE shorter[i]]
    BY <2>1, <1>3
  <2>5. \A i \in 1 .. m :
          (IF i <= Len(base) THEN base[i] ELSE s[i - Len(base)]) =
             IF i = m THEN s[k] ELSE shorter[i]
    BY <1>1, <2>1, <2>2
  <2>6. QED
    BY <2>3, <2>4, <2>5 DEF shorter
<1>8. base \o s \in Seq(E) /\ Extended(base, s, Len(s)) = base \o s
  <2> DEFINE whole == Extended(base, s, Len(s))
             both == base \o s
  <2>1. both \in Seq(E) /\ Len(both) = Len(base) + Len(s)
        /\ \A i \in 1 .. Len(base) + Len(s) :
             both[i] = IF i <= Len(base) THEN base[i] ELSE s[i - Len(base)]
    BY ConcatProperties
  <2>2. whole \in Seq(E) /\ Len(whole) = Len(base) + Len(s)
    BY <1>1, <1>6
  <2>3. \A i \in 1 .. Len(base) + Len(s) :
          whole[i] = IF i <= Len(base) THEN base[i] ELSE s[i - Len(base)]
    BY DEF Extended
  <2> HIDE DEF whole, both
  <2>4. \A i \in 1 .. Len(whole) : whole[i] = both[i]
    BY <2>1, <2>2, <2>3
  <2>5. whole = both
    BY <2>1, <2>2, <2>4, SeqEqual
  <2>6. QED
    BY <2>1, <2>5 DEF whole, both
<1>9. QED
  BY <1>4, <1>6, <1>7, <1>8

------------------------------------------------------------------------------
(* Ranks.                                                                  *)

\* A strict total order on a finite set.
Sorts(S, R) ==
  /\ IsFiniteSet(S)
  /\ \A x, y \in S : ~(<<x, y>> \in R /\ <<y, x>> \in R)
  /\ \A x, y \in S : x # y => <<x, y>> \in R \/ <<y, x>> \in R
  /\ \A x, y, z \in S : <<x, y>> \in R /\ <<y, z>> \in R => <<x, z>> \in R

Below(S, R, x) == {y \in S : <<y, x>> \in R}

\* What comes before one element is less than what comes before a later one.
LEMMA LessBelow ==
  ASSUME NEW S, NEW R, Sorts(S, R), NEW x \in S
  PROVE  /\ Cardinality(Below(S, R, x)) \in 0 .. Cardinality(S) - 1
         /\ \A y \in S : <<y, x>> \in R =>
              Cardinality(Below(S, R, y)) < Cardinality(Below(S, R, x))
<1>1. IsFiniteSet(S)
  BY DEF Sorts
<1>2. \A y \in S : Below(S, R, y) \in SUBSET S /\ y \notin Below(S, R, y)
  BY DEF Below, Sorts
<1>3. /\ Cardinality(S) \in Nat
      /\ \A y \in S : /\ IsFiniteSet(Below(S, R, y))
                      /\ Cardinality(Below(S, R, y)) \in Nat
  BY <1>1, <1>2, FS_Subset, FS_CardinalityType
<1>4. ASSUME NEW T, NEW U \in SUBSET T, NEW y \in T, y \notin U, IsFiniteSet(T),
             Cardinality(T) \in Nat, Cardinality(U) \in Nat
      PROVE  Cardinality(U) <= Cardinality(T) - 1
  <2>1. Cardinality(U) <= Cardinality(T) /\ Cardinality(T) # Cardinality(U)
    BY <1>4, FS_Subset
  <2>2. QED
    BY <1>4, <2>1
<1>5. Cardinality(Below(S, R, x)) <= Cardinality(S) - 1
  BY <1>1, <1>2, <1>3, <1>4
<1>6. ASSUME NEW y \in S, <<y, x>> \in R
      PROVE  Cardinality(Below(S, R, y)) <= Cardinality(Below(S, R, x)) - 1
  <2>1. Below(S, R, y) \in SUBSET Below(S, R, x)
    BY <1>6 DEF Below, Sorts
  <2>2. y \in Below(S, R, x)
    BY <1>6 DEF Below
  <2>3. QED
    BY <1>2, <1>3, <1>4, <2>1, <2>2
<1>7. QED
  BY <1>3, <1>5, <1>6

\* Sorting gives each element once, in the order.
LEMMA RankedSorts ==
  ASSUME NEW S, NEW R, Sorts(S, R)
  PROVE  /\ Cardinality(S) \in Nat
         /\ Ranked(S, R) \in [1 .. Cardinality(S) -> S]
         /\ \A x \in S : \E n \in 1 .. Cardinality(S) : Ranked(S, R)[n] = x
         /\ \A m, n \in 1 .. Cardinality(S) :
              m < n => /\ Ranked(S, R)[m] # Ranked(S, R)[n]
                       /\ <<Ranked(S, R)[m], Ranked(S, R)[n]>> \in R
<1> DEFINE size == Cardinality(S)
           rank == [x \in S |-> Cardinality(Below(S, R, x)) + 1]
           order == Ranked(S, R)
<1>1. IsFiniteSet(S) /\ size \in Nat
  BY FS_CardinalityType DEF Sorts
<1>2. rank \in [S -> 1 .. size]
  BY <1>1, LessBelow
<1>3. \A x, y \in S : <<x, y>> \in R => rank[x] < rank[y]
  BY <1>1, LessBelow
<1>4. \A x, y \in S : rank[x] = rank[y] => x = y
  <2> HIDE DEF rank
  <2>1. \A x \in S : rank[x] \in Nat
    BY <1>1, <1>2
  <2>2. ASSUME NEW x \in S, NEW y \in S, <<x, y>> \in R
        PROVE  rank[x] # rank[y]
    <3>1. rank[x] < rank[y]
      BY <1>3, <2>2
    <3>2. QED
      BY <2>1, <3>1
  <2>3. \A x, y \in S : x # y => <<x, y>> \in R \/ <<y, x>> \in R
    BY DEF Sorts
  <2>4. QED
    BY <2>2, <2>3
<1>5. rank \in Injection(S, 1 .. size)
  BY <1>2, <1>4 DEF Injection, IsInjective
<1>6. IsFiniteSet(1 .. size) /\ Cardinality(1 .. size) = size
  BY <1>1, FS_Interval
<1>7. \A n \in 1 .. size : \E x \in S : rank[x] = n
  <2> HIDE DEF rank
  <2>1. rank \in Surjection(S, 1 .. size)
    BY <1>5, <1>6, FS_Injection
  <2>2. QED
    BY <2>1 DEF Surjection
<1>8. order = [n \in 1 .. size |->
                 CHOOSE x \in S : Cardinality(Below(S, R, x)) = n - 1]
  BY DEF Ranked, Below
<1>9. \A n \in 1 .. size : order[n] \in S /\ rank[order[n]] = n
  <2> TAKE n \in 1 .. size
  <2>1. PICK x \in S : rank[x] = n
    BY <1>7
  <2>2. Cardinality(Below(S, R, x)) = n - 1
    BY <2>1, <1>1, LessBelow
  <2>3. order[n] \in S /\ Cardinality(Below(S, R, order[n])) = n - 1
    BY <1>8, <2>2
  <2>4. QED
    BY <2>3
<1>10. order \in [1 .. size -> S]
  BY <1>8, <1>9
<1> HIDE DEF rank, order
<1>11. \A x \in S : \E n \in 1 .. size : order[n] = x
  BY <1>2, <1>4, <1>9
<1>12. \A m, n \in 1 .. size :
         m < n => order[m] # order[n] /\ <<order[m], order[n]>> \in R
  <2> TAKE m, n \in 1 .. size
  <2> HAVE m < n
  <2>1. rank[order[m]] = m /\ rank[order[n]] = n /\ order[m] \in S /\ order[n] \in S
    BY <1>9
  <2>2. order[m] # order[n] /\ <<order[n], order[m]>> \notin R
    BY <2>1, <1>3
  <2>3. QED
    BY <2>1, <2>2 DEF Sorts
<1>13. QED
  BY <1>1, <1>10, <1>11, <1>12 DEF order

\* Places in a list are ordered by their numbers.
LEMMA PlacesSort ==
  ASSUME NEW n \in Nat, NEW I \in SUBSET (1 .. n)
  PROVE  Sorts(I, {p \in I \X I : p[1] < p[2]})
<1>1. IsFiniteSet(1 .. n)
  BY FS_Interval
<1>2. IsFiniteSet(I)
  BY <1>1, FS_Subset
<1>3. \A i \in I : i \in Int
  OBVIOUS
<1>4. QED
  BY <1>2, <1>3 DEF Sorts

\* The chosen places, in their order.
InTurn(I) == Ranked(I, {p \in I \X I : p[1] < p[2]})

\* Each of them once.
LEMMA PlacesInTurn ==
  ASSUME NEW n \in Nat, NEW I \in SUBSET (1 .. n)
  PROVE  /\ Cardinality(I) \in Nat
         /\ InTurn(I) \in [1 .. Cardinality(I) -> I]
         /\ \A i \in I : \E k \in 1 .. Cardinality(I) : InTurn(I)[k] = i
         /\ \A k, l \in 1 .. Cardinality(I) :
              k # l => InTurn(I)[k] # InTurn(I)[l]
<1> DEFINE R == {p \in I \X I : p[1] < p[2]}
           order == Ranked(I, R)
           m == Cardinality(I)
<1>1. Sorts(I, R)
  BY PlacesSort
<1> HIDE DEF R
<1>2. /\ m \in Nat
      /\ order \in [1 .. m -> I]
      /\ \A i \in I : \E k \in 1 .. m : order[k] = i
      /\ \A k, l \in 1 .. m :
           k < l => order[k] # order[l] /\ <<order[k], order[l]>> \in R
  BY <1>1, RankedSorts
<1>3. \A k, l \in 1 .. m : k # l => order[k] # order[l]
  <2> TAKE k, l \in 1 .. m
  <2>1. k # l => k < l \/ l < k
    BY <1>2
  <2>2. QED
    BY <1>2, <2>1
<1>4. InTurn(I) = order
  BY DEF InTurn, R
<1>5. QED
  BY <1>2, <1>3, <1>4

\* Choosing entries by their places.
LEMMA EntriesChosen ==
  ASSUME NEW n \in Nat, NEW f, NEW I \in SUBSET (1 .. n)
  PROVE  /\ DOMAIN EntriesAt(f, I) = 1 .. Cardinality(I)
         /\ \A k \in 1 .. Cardinality(I) : EntriesAt(f, I)[k] = f[InTurn(I)[k]]
         /\ \A S : (\A i \in I : f[i] \in S) =>
              EntriesAt(f, I) \in Seq(S) /\ Len(EntriesAt(f, I)) = Cardinality(I)
<1> DEFINE order == InTurn(I)
           m == Cardinality(I)
<1>1. m \in Nat /\ order \in [1 .. m -> I]
  BY PlacesInTurn
<1>2. EntriesAt(f, I) = [k \in DOMAIN order |-> f[order[k]]]
  BY DEF EntriesAt, InTurn
<1> HIDE DEF order, m
<1>3. EntriesAt(f, I) = [k \in 1 .. m |-> f[order[k]]]
  BY <1>1, <1>2
<1>4. ASSUME NEW S, \A i \in I : f[i] \in S
      PROVE  EntriesAt(f, I) \in Seq(S) /\ Len(EntriesAt(f, I)) = m
  <2>1. EntriesAt(f, I) \in [1 .. m -> S]
    BY <1>1, <1>3, <1>4
  <2>2. QED
    BY <1>1, <2>1
<1>5. QED
  BY <1>3, <1>4 DEF order, m

\* All of the first places.
LEMMA FirstPlaces ==
  ASSUME NEW n \in Nat, NEW f
  PROVE  EntriesAt(f, 1 .. n) = [k \in 1 .. n |-> f[k]]
<1> DEFINE I == 1 .. n
           R == {p \in I \X I : p[1] < p[2]}
           order == Ranked(I, R)
<1>1. Cardinality(I) = n
  BY FS_Interval
<1>2. order = [k \in 1 .. n |-> CHOOSE x \in I : Cardinality(Below(I, R, x)) = k - 1]
  BY <1>1 DEF Ranked, Below
<1>3. \A x \in I : Cardinality(Below(I, R, x)) = x - 1
  <2> TAKE x \in I
  <2>1. Below(I, R, x) = 1 .. x - 1
    BY DEF Below
  <2>2. Cardinality(1 .. x - 1) = x - 1
    BY FS_Interval
  <2>3. QED
    BY <2>1, <2>2
<1>4. \A k \in 1 .. n : order[k] = k
  <2> TAKE k \in 1 .. n
  <2>1. order[k] = CHOOSE x \in I : Cardinality(Below(I, R, x)) = k - 1
    BY <1>2
  <2>2. \A x \in I : Cardinality(Below(I, R, x)) = k - 1 <=> x = k
    BY <1>3
  <2>3. k \in I
    OBVIOUS
  <2> HIDE DEF I, R, order
  <2>4. QED
    BY <2>1, <2>2, <2>3
<1>5. DOMAIN order = 1 .. n
  BY <1>2
<1>6. EntriesAt(f, I) = [k \in DOMAIN order |-> f[order[k]]]
  BY DEF EntriesAt
<1>7. QED
  BY <1>4, <1>5, <1>6
------------------------------------------------------------------------------
(* The merges of profiles.json.                                            *)

\* AddProfile refuses what would repeat a name or a secret.
LEMMA AddRefuses ==
  ASSUME NEW f \in Seq(Entry), NEW p \in Entry
  PROVE  /\ Unrepeated(f) => AddProfile(f, p) =
              IF Unrepeated(Append(f, p)) THEN Append(f, p) ELSE None
         /\ ~Unrepeated(f) => ~Unrepeated(Append(f, p))
         /\ AddProfile(None, p) = None
<1> DEFINE n == Len(f)
           g == Append(f, p)
           Repeats == \E i \in 1 .. n : f[i].name = p.name \/ f[i].secret = p.secret
<1>1. n \in Nat /\ DOMAIN f = 1 .. n /\ DOMAIN g = 1 .. n + 1
  OBVIOUS
<1>2. (\A i \in 1 .. n : g[i] = f[i]) /\ g[n + 1] = p
  OBVIOUS
<1>3. f # None
  BY MergeAssumption DEF MergeAssumption
<1> HIDE DEF n, g
<1>4. Unrepeated(g) => Unrepeated(f)
  BY <1>1, <1>2 DEF Unrepeated
<1>5. Unrepeated(g) => ~Repeats
  <2> SUFFICES ASSUME Unrepeated(g), NEW i \in 1 .. n
               PROVE  f[i].name # p.name /\ f[i].secret # p.secret
    OBVIOUS
  <2>1. i \in DOMAIN g /\ n + 1 \in DOMAIN g /\ i # n + 1
    BY <1>1
  <2>2. QED
    BY <1>2, <2>1 DEF Unrepeated
<1>6. Unrepeated(f) /\ ~Repeats => Unrepeated(g)
  <2> SUFFICES ASSUME Unrepeated(f), ~Repeats, NEW i \in DOMAIN g, NEW j \in DOMAIN g,
                      i # j
               PROVE  g[i].name # g[j].name /\ g[i].secret # g[j].secret
    BY DEF Unrepeated
  <2>1. (i \in 1 .. n \/ i = n + 1) /\ (j \in 1 .. n \/ j = n + 1)
    BY <1>1
  <2>2. CASE i \in 1 .. n /\ j \in 1 .. n
    BY <1>1, <1>2, <2>2 DEF Unrepeated
  <2>3. CASE i = n + 1 \/ j = n + 1
    BY <1>2, <2>1, <2>3
  <2>4. QED
    BY <2>1, <2>2, <2>3
<1>7. AddProfile(f, p) = IF Repeats THEN None ELSE g
  BY <1>1, <1>3 DEF AddProfile, g
<1>8. AddProfile(None, p) = None
  BY DEF AddProfile
<1>9. QED
  BY <1>4, <1>5, <1>6, <1>7, <1>8 DEF g
\* Adding one entry after the other gives both lists, or an error.
LEMMA AddAll ==
  ASSUME NEW base \in Seq(Entry), NEW s \in Seq(Entry), Unrepeated(base)
  PROVE  FoldLeft(AddProfile, base, s) =
           IF Unrepeated(base \o s) THEN base \o s ELSE None
<1> DEFINE n == Len(s)
           Y == Seq(Entry) \cup {None}
           Folds(f) == f = [t \in SUBSET DOMAIN s |->
                              IF t = {} THEN base
                              ELSE AddProfile(f[t \ {Max(t)}], s[Max(t)])]
           fold == CHOOSE f : Folds(f)
<1>1. n \in Nat /\ DOMAIN s = 1 .. n /\ \A i \in 1 .. n : s[i] \in Entry
  BY LenProperties, ElementOfSeq
<1>2. FoldLeft(AddProfile, base, s) = fold[1 .. n]
  <2>1. FoldLeft(AddProfile, base, s) = fold[DOMAIN s]
    BY DEF FoldLeft, MapThenFoldSet
  <2>2. QED
    BY <1>1, <2>1
<1>3. \A st \in Y, p \in Entry : AddProfile(st, p) \in Y
  <2> SUFFICES ASSUME NEW st \in Y, NEW p \in Entry
               PROVE  AddProfile(st, p) \in Y
    OBVIOUS
  <2>1. CASE st = None
    BY <2>1 DEF AddProfile
  <2>2. CASE st \in Seq(Entry)
    <3>1. Append(st, p) \in Seq(Entry)
      BY <2>2
    <3>2. QED
      BY <3>1 DEF AddProfile
  <2>3. QED
    BY <2>1, <2>2
<1>4. \E f : Folds(f)
  <2> DEFINE G == [q \in Y \X (1 .. n) |-> AddProfile(q[1], s[q[2]])]
  <2>1. G \in [Y \X (1 .. n) -> Y]
    BY <1>1, <1>3
  <2>2. \A st \in Y, i \in 1 .. n : G[<<st, i>>] = AddProfile(st, s[i])
    OBVIOUS
  <2>3. base \in Y
    OBVIOUS
  <2> HIDE DEF G, Y, n
  <2>4. PICK f \in [SUBSET (1 .. n) -> Y] : FoldsBy(f, n, base, G)
    BY <1>1, <2>1, <2>3, FoldExists
  <2>5. ASSUME NEW t \in SUBSET (1 .. n), t # {}
        PROVE  f[t] = AddProfile(f[t \ {Max(t)}], s[Max(t)])
    <3>1. Max(t) \in 1 .. n
      BY <1>1, <2>5, MaxIsGreatest
    <3>2. f[t \ {Max(t)}] \in Y
      BY <2>4
    <3>3. QED
      BY <2>2, <2>4, <2>5, <3>1, <3>2 DEF FoldsBy
  <2>6. f = [t \in SUBSET (1 .. n) |->
               IF t = {} THEN base ELSE AddProfile(f[t \ {Max(t)}], s[Max(t)])]
    BY <2>4, <2>5 DEF FoldsBy
  <2>7. QED
    BY <1>1, <2>6
<1>5. fold = [t \in SUBSET (1 .. n) |->
                IF t = {} THEN base ELSE AddProfile(fold[t \ {Max(t)}], s[Max(t)])]
  <2>1. Folds(fold)
    <3> HIDE DEF Folds
    <3>1. QED
      BY <1>4
  <2>2. QED
    BY <1>1, <2>1
<1> HIDE DEF fold, n
<1>6. /\ fold[1 .. 0] = base
      /\ \A k \in 1 .. n : fold[1 .. k] = AddProfile(fold[1 .. k - 1], s[k])
  <2>1. fold[{}] = base
    BY <1>5
  <2>2. \A t \in SUBSET (1 .. n) :
          t # {} => fold[t] = AddProfile(fold[t \ {Max(t)}], s[Max(t)])
    BY <1>5
  <2>3. \A k \in 1 .. n : fold[1 .. k] = AddProfile(fold[1 .. k - 1], s[k])
    BY <1>1, <2>2, PrefixTop
  <2>4. QED
    BY <2>1, <2>3, 1 .. 0 = {}
<1>7. /\ Extended(base, s, 0) = base /\ Extended(base, s, Len(s)) = base \o s
      /\ \A k \in 0 .. Len(s) : Extended(base, s, k) \in Seq(Entry)
      /\ \A k \in 1 .. Len(s) :
           Extended(base, s, k) = Append(Extended(base, s, k - 1), s[k])
  BY Extends
<1> DEFINE Reached(k) == IF Unrepeated(Extended(base, s, k))
                           THEN Extended(base, s, k) ELSE None
           T == {k \in 0 .. n : fold[1 .. k] = Reached(k)}
<1>8. T = 0 .. n
  <2>1. T \in SUBSET (0 .. n)
    OBVIOUS
  <2>2. 0 \in T
    BY <1>1, <1>6, <1>7
  <2>3. ASSUME NEW k \in 1 .. n, k - 1 \in T
        PROVE  k \in T
    <3> DEFINE shorter == Extended(base, s, k - 1)
    <3>1. shorter \in Seq(Entry) /\ s[k] \in Entry
          /\ Extended(base, s, k) = Append(shorter, s[k])
      <4>1. k \in 1 .. Len(s) /\ k - 1 \in 0 .. Len(s)
        BY <1>1 DEF n
      <4>2. QED
        BY <1>1, <4>1, <1>7
    <3>2. fold[1 .. k - 1] = Reached(k - 1)
          /\ fold[1 .. k] = AddProfile(fold[1 .. k - 1], s[k])
      BY <1>6, <2>3
    <3> HIDE DEF shorter
    <3>3. fold[1 .. k] = IF Unrepeated(Append(shorter, s[k]))
                           THEN Append(shorter, s[k]) ELSE None
      BY <3>1, <3>2, AddRefuses DEF shorter
    <3>4. k \in 0 .. n
      BY <1>1
    <3>5. QED
      BY <3>1, <3>3, <3>4
  <2> HIDE DEF T
  <2>4. QED
    BY <1>1, <2>1, <2>2, <2>3, PrefixInduction
<1>9. fold[1 .. n] = Reached(n)
  BY <1>1, <1>8
<1>10. QED
  BY <1>2, <1>9, <1>7 DEF n

\* What the foreign entries of a file are.
LEMMA ForeignEntries ==
  ASSUME NEW f \in Seq(Entry)
  PROVE  /\ Foreign(f) \in Seq(Entry)
         /\ \A i \in DOMAIN Foreign(f) :
              ~IsPanel(Foreign(f)[i]) /\ \E j \in DOMAIN f : Foreign(f)[i] = f[j]
         /\ \A j \in DOMAIN f :
              ~IsPanel(f[j]) => \E i \in DOMAIN Foreign(f) : Foreign(f)[i] = f[j]
         /\ Unrepeated(f) => Unrepeated(Foreign(f))
<1> DEFINE n == Len(f)
           I == {i \in DOMAIN f : ~IsPanel(f[i])}
           m == Cardinality(I)
           order == InTurn(I)
<1>1. n \in Nat /\ DOMAIN f = 1 .. n /\ \A i \in 1 .. n : f[i] \in Entry
  BY LenProperties, ElementOfSeq
<1>2. I \in SUBSET (1 .. n)
  BY <1>1
<1>3. \A i \in I : f[i] \in Entry /\ i \in DOMAIN f /\ ~IsPanel(f[i])
  BY <1>1
<1>4. \A j \in DOMAIN f : ~IsPanel(f[j]) => j \in I
  OBVIOUS
<1>5. Foreign(f) = EntriesAt(f, I)
  BY DEF Foreign
<1> HIDE DEF I, n, m, order
<1>6. /\ m \in Nat /\ order \in [1 .. m -> I]
      /\ \A i \in I : \E k \in 1 .. m : order[k] = i
      /\ \A k, l \in 1 .. m : k # l => order[k] # order[l]
  BY <1>1, <1>2, PlacesInTurn DEF m, order
<1>7. /\ DOMAIN Foreign(f) = 1 .. m
      /\ \A k \in 1 .. m : Foreign(f)[k] = f[order[k]]
  <2>1. n \in Nat
    BY <1>1
  <2>2. DOMAIN EntriesAt(f, I) = 1 .. Cardinality(I)
    BY <2>1, <1>2, EntriesChosen, Zenon
  <2>3. \A k \in 1 .. Cardinality(I) : EntriesAt(f, I)[k] = f[InTurn(I)[k]]
    BY <2>1, <1>2, EntriesChosen, Zenon
  <2>4. QED
    BY <1>5, <2>2, <2>3 DEF m, order
<1>8. \A k \in 1 .. m : order[k] \in I
  BY <1>6
<1>9. Foreign(f) \in Seq(Entry)
  <2>1. n \in Nat /\ \A i \in I : f[i] \in Entry
    BY <1>1, <1>3
  <2>2. EntriesAt(f, I) \in Seq(Entry)
    BY <2>1, <1>2, EntriesChosen, Zenon
  <2>3. QED
    BY <1>5, <2>2
<1>10. Unrepeated(f) => Unrepeated(Foreign(f))
  BY <1>3, <1>6, <1>7, <1>8 DEF Unrepeated
<1>11. \A j \in DOMAIN f :
         ~IsPanel(f[j]) => \E i \in DOMAIN Foreign(f) : Foreign(f)[i] = f[j]
  BY <1>4, <1>6, <1>7
<1>12. \A i \in DOMAIN Foreign(f) :
         ~IsPanel(Foreign(f)[i]) /\ \E j \in DOMAIN f : Foreign(f)[i] = f[j]
  BY <1>3, <1>7, <1>8
<1>13. QED
  BY <1>9, <1>10, <1>11, <1>12
\* The foreign entries of a file that begins with them are that beginning.
LEMMA ForeignFirst ==
  ASSUME NEW a \in Seq(Entry), NEW b \in Seq(Entry),
         \A i \in DOMAIN a : ~IsPanel(a[i]), \A i \in DOMAIN b : IsPanel(b[i])
  PROVE  Foreign(a \o b) = a
<1> DEFINE f == a \o b
           n == Len(a)
<1>1. n \in Nat /\ Len(b) \in Nat /\ DOMAIN a = 1 .. n /\ DOMAIN b = 1 .. Len(b)
  BY LenProperties
<1>2. /\ f \in Seq(Entry) /\ Len(f) = n + Len(b)
      /\ \A i \in 1 .. n + Len(b) : f[i] = IF i <= n THEN a[i] ELSE b[i - n]
  BY ConcatProperties
<1>3. DOMAIN f = 1 .. n + Len(b)
  BY <1>2, LenProperties
<1> HIDE DEF f, n
<1>4. \A i \in DOMAIN f : ~IsPanel(f[i]) <=> i <= n
  <2> TAKE i \in DOMAIN f
  <2>1. CASE i <= n
    <3>1. i \in DOMAIN a /\ f[i] = a[i]
      BY <1>1, <1>2, <1>3, <2>1
    <3>2. QED
      BY <2>1, <3>1
  <2>2. CASE ~(i <= n)
    <3>1. i - n \in DOMAIN b /\ f[i] = b[i - n]
      BY <1>1, <1>2, <1>3, <2>2
    <3>2. QED
      BY <2>2, <3>1
  <2>3. QED
    BY <2>1, <2>2
<1>5. {i \in DOMAIN f : ~IsPanel(f[i])} = 1 .. n
  BY <1>1, <1>3, <1>4
<1>6. Foreign(f) = EntriesAt(f, 1 .. n)
  BY <1>5 DEF Foreign
<1>7. EntriesAt(f, 1 .. n) = [k \in 1 .. n |-> f[k]]
  BY <1>1, FirstPlaces, Zenon
<1>8. \A k \in 1 .. n : f[k] = a[k]
  BY <1>1, <1>2
<1>9. [k \in 1 .. n |-> f[k]] = a
  BY <1>1, <1>8
<1>10. QED
  BY <1>6, <1>7, <1>9 DEF f

\* A candidate of the panel has its own profiles only, each of them once.
LEMMA Candidates ==
  ASSUME NEW c \in PanelFiles
  PROVE  /\ c \in Seq(Entry) /\ c # None
         /\ Unrepeated(c)
         /\ \A i \in DOMAIN c : IsPanel(c[i])
         /\ PanelOnly(c) = c
<1>1. PICK m \in 0 .. MaxEntries :
        c \in [1 .. m -> [name : User, secret : Secret, backend : {PanelBackend},
                          carrier : {PanelCarrier}]]
  BY DEF PanelFiles, SeqOf
<1>2. Unrepeated(c)
  BY DEF PanelFiles
<1>3. m \in Nat /\ DOMAIN c = 1 .. m
  BY <1>1, MergeAssumption DEF MergeAssumption
<1>4. \A i \in 1 .. m : c[i] \in Entry /\ IsPanel(c[i])
  BY <1>1, MergeAssumption DEF MergeAssumption, Entry, IsPanel
<1>5. c \in Seq(Entry)
  <2>1. c \in [1 .. m -> Entry]
    BY <1>1, <1>4
  <2>2. QED
    BY <1>3, <2>1
<1>6. c # None
  BY <1>5, MergeAssumption DEF MergeAssumption
<1>7. PanelOnly(c) = EntriesAt(c, 1 .. m)
  <2>1. {i \in DOMAIN c : IsPanel(c[i])} = 1 .. m
    BY <1>3, <1>4
  <2>2. QED
    BY <2>1 DEF PanelOnly
<1>8. EntriesAt(c, 1 .. m) = [k \in 1 .. m |-> c[k]]
  BY <1>3, FirstPlaces, Zenon
<1>9. [k \in 1 .. m |-> c[k]] = c
  BY <1>1
<1>10. QED
  BY <1>2, <1>3, <1>4, <1>5, <1>6, <1>7, <1>8, <1>9

\* Copying a template keeps the names and the secrets.
LEMMA SyncKeepsProfiles ==
  ASSUME NEW f \in Seq(Entry), NEW c \in PanelFiles
  PROVE  /\ Synced(f, c) \in Seq(Entry) /\ DOMAIN Synced(f, c) = DOMAIN c
         /\ \A i \in DOMAIN c : /\ Synced(f, c)[i].name = c[i].name
                                /\ Synced(f, c)[i].secret = c[i].secret
<1> DEFINE foreign == Foreign(f)
           n == Len(c)
<1>1. c \in Seq(Entry) /\ foreign \in Seq(Entry)
  BY Candidates, ForeignEntries
<1>2. n \in Nat /\ DOMAIN c = 1 .. n /\ \A i \in 1 .. n : c[i] \in Entry
  BY <1>1, LenProperties, ElementOfSeq
<1>3. CASE foreign = <<>>
  BY <1>1, <1>3 DEF Synced
<1>4. CASE foreign # <<>>
  <2> DEFINE Copy(p) ==
        [p EXCEPT !.backend = IF foreign[1].backend = None THEN p.backend
                              ELSE foreign[1].backend,
                  !.carrier = IF foreign[1].carrier = None THEN Https
                              ELSE foreign[1].carrier]
  <2>1. foreign[1] \in Entry
    <3>1. 1 \in 1 .. Len(foreign)
      BY <1>1, <1>4, EmptySeq
    <3>2. QED
      BY <1>1, <3>1, ElementOfSeq
  <2> HIDE DEF foreign
  <2>2. \A p \in Entry :
          Copy(p) \in Entry /\ Copy(p).name = p.name /\ Copy(p).secret = p.secret
    <3> SUFFICES ASSUME NEW p \in Entry
                 PROVE  Copy(p) \in Entry /\ Copy(p).name = p.name
                        /\ Copy(p).secret = p.secret
      OBVIOUS
    <3>1. /\ p.name \in User \cup ForeignName /\ p.secret \in Secret
          /\ p.backend \in Backend \cup {None}
          /\ foreign[1].backend \in Backend \cup {None}
          /\ foreign[1].carrier \in Carrier \cup {None}
          /\ Https \in Carrier
      BY <2>1, MergeAssumption DEF Entry, MergeAssumption
    <3>2. QED
      BY <3>1 DEF Entry
  <2>3. Synced(f, c) = [i \in 1 .. n |-> Copy(c[i])]
    BY <1>2, <1>4 DEF Synced, foreign
  <2> HIDE DEF Copy, n
  <2>4. Synced(f, c) \in [1 .. n -> Entry]
    BY <1>2, <2>2, <2>3
  <2>5. Synced(f, c) \in Seq(Entry)
    BY <1>2, <2>4
  <2>6. QED
    BY <1>2, <2>2, <2>3, <2>5
<1>5. QED
  BY <1>3, <1>4

\* The script's merge is the foreign entries, then the candidate's.
LEMMA Merged ==
  ASSUME NEW f \in Seq(Entry), NEW c \in PanelFiles
  PROVE  LET merged == Foreign(f) \o Synced(f, c)
         IN /\ merged \in Seq(Entry) /\ merged # None
            /\ ScriptMerge(f, c) = IF Unrepeated(merged) THEN merged ELSE None
            /\ Foreign(merged) = Foreign(f)
<1> DEFINE merged == Foreign(f) \o Synced(f, c)
<1>1. /\ Foreign(f) \in Seq(Entry)
      /\ \A i \in DOMAIN Foreign(f) : ~IsPanel(Foreign(f)[i])
  BY ForeignEntries
<1>2. /\ Synced(f, c) \in Seq(Entry)
      /\ \A i \in DOMAIN Synced(f, c) : IsPanel(Synced(f, c)[i])
  BY Candidates, SyncKeepsProfiles DEF IsPanel
<1>3. merged \in Seq(Entry)
  BY <1>1, <1>2, ConcatProperties
<1>4. merged # None
  BY <1>3, MergeAssumption DEF MergeAssumption
<1>5. ScriptMerge(f, c) = IF Unrepeated(merged) THEN merged ELSE None
  BY Candidates DEF ScriptMerge
<1>6. Foreign(merged) = Foreign(f)
  BY <1>1, <1>2, ForeignFirst
<1>7. QED
  BY <1>3, <1>4, <1>5, <1>6
\* The profiles of two lists, one after the other.
LEMMA EntrySetJoins ==
  ASSUME NEW a \in Seq(Entry), NEW b \in Seq(Entry)
  PROVE  EntrySet(a \o b) = EntrySet(a) \cup EntrySet(b)
<1> DEFINE f == a \o b
           P(e) == [name |-> e.name, secret |-> e.secret]
           n == Len(a)
           m == Len(b)
<1>1. n \in Nat /\ m \in Nat /\ DOMAIN a = 1 .. n /\ DOMAIN b = 1 .. m
  BY LenProperties
<1>2. /\ DOMAIN f = 1 .. n + m
      /\ \A i \in 1 .. n + m : f[i] = IF i <= n THEN a[i] ELSE b[i - n]
  BY ConcatProperties, LenProperties
<1> HIDE DEF f, n, m
<1>3. /\ \A i \in 1 .. n : i \in 1 .. n + m /\ f[i] = a[i]
      /\ \A i \in 1 .. m : n + i \in 1 .. n + m /\ f[n + i] = b[i]
  <2>1. \A i \in 1 .. m : n + i \in 1 .. n + m /\ ~(n + i <= n) /\ (n + i) - n = i
    BY <1>1
  <2>2. QED
    BY <1>1, <1>2, <2>1
<1>4. \A i \in 1 .. n + m : (i \in 1 .. n /\ f[i] = a[i])
                            \/ (i - n \in 1 .. m /\ f[i] = b[i - n])
  BY <1>1, <1>2
<1> HIDE DEF P
<1>5. {P(f[i]) : i \in DOMAIN f} =
        {P(a[i]) : i \in DOMAIN a} \cup {P(b[i]) : i \in DOMAIN b}
  <2>1. ASSUME NEW i \in DOMAIN f
        PROVE  (\E j \in DOMAIN a : P(f[i]) = P(a[j]))
               \/ (\E j \in DOMAIN b : P(f[i]) = P(b[j]))
    BY <1>1, <1>2, <1>4
  <2>2. \A i \in DOMAIN a : \E j \in DOMAIN f : P(a[i]) = P(f[j])
    BY <1>1, <1>2, <1>3
  <2>3. \A i \in DOMAIN b : \E j \in DOMAIN f : P(b[i]) = P(f[j])
    BY <1>1, <1>2, <1>3
  <2>4. QED
    BY <2>1, <2>2, <2>3
<1>6. QED
  BY <1>5 DEF EntrySet, P, f

\* What the set merge gives is what the entries merged have.
LEMMA SameSet ==
  ASSUME NEW f \in Seq(Entry), NEW c \in PanelFiles
  PROVE  EntrySet(Foreign(f) \o Synced(f, c)) =
           MergedProfiles(EntrySet(f), EntrySet(c))
<1> DEFINE P(e) == [name |-> e.name, secret |-> e.secret]
           own == EntrySet(Foreign(f))
<1>1. Foreign(f) \in Seq(Entry) /\ Synced(f, c) \in Seq(Entry)
  BY ForeignEntries, SyncKeepsProfiles
<1>2. EntrySet(Foreign(f) \o Synced(f, c)) = own \cup EntrySet(Synced(f, c))
  BY <1>1, EntrySetJoins
<1>3. EntrySet(Synced(f, c)) = EntrySet(c)
  BY SyncKeepsProfiles DEF EntrySet
<1>4. EntrySet(f) # None
  <2>1. \A i \in DOMAIN f : P(f[i]) \in Profile
    <3> TAKE i \in DOMAIN f
    <3>1. f[i] \in Entry
      BY LenProperties, ElementOfSeq
    <3>2. QED
      BY <3>1 DEF Entry, Profile
  <2>2. EntrySet(f) \in SUBSET Profile
    BY <2>1 DEF EntrySet
  <2>3. QED
    BY <2>2, ProfileAssumption DEF ProfileAssumption
<1>5. own = {p \in EntrySet(f) : ~IsPanel(p)}
  <2>1. \A e : P(e).name = e.name
    OBVIOUS
  <2>2. \A i \in DOMAIN Foreign(f) :
          \E j \in DOMAIN f : ~IsPanel(f[j]) /\ P(Foreign(f)[i]) = P(f[j])
    BY ForeignEntries
  <2>3. \A j \in DOMAIN f : ~IsPanel(f[j]) =>
          \E i \in DOMAIN Foreign(f) : P(Foreign(f)[i]) = P(f[j])
    BY ForeignEntries
  <2>4. \A j \in DOMAIN f : IsPanel(P(f[j])) <=> IsPanel(f[j])
    BY <2>1 DEF IsPanel
  <2> HIDE DEF P
  <2>5. {P(Foreign(f)[i]) : i \in DOMAIN Foreign(f)} =
          {p \in {P(f[j]) : j \in DOMAIN f} : ~IsPanel(p)}
    BY <2>2, <2>3, <2>4
  <2>6. QED
    BY <2>5 DEF EntrySet, P
<1>6. QED
  BY <1>2, <1>3, <1>4, <1>5 DEF MergedProfiles, Profiles

\* A merged list repeats a name or a secret where its set of profiles does: no
\* two of its entries agree in both.
LEMMA SameRefusal ==
  ASSUME NEW f \in Seq(Entry), NEW c \in PanelFiles, Unrepeated(f)
  PROVE  LET merged == Foreign(f) \o Synced(f, c)
         IN Unique(EntrySet(merged)) <=> Unrepeated(merged)
<1> DEFINE a == Foreign(f)
           b == Synced(f, c)
           g == a \o b
           n == Len(a)
           m == Len(b)
           P(e) == [name |-> e.name, secret |-> e.secret]
<1>1. /\ a \in Seq(Entry) /\ Unrepeated(a)
      /\ \A i \in DOMAIN a : ~IsPanel(a[i])
  BY ForeignEntries
<1>2. b \in Seq(Entry) /\ \A i \in DOMAIN b : IsPanel(b[i])
  <2>1. /\ b \in Seq(Entry) /\ DOMAIN b = DOMAIN c
        /\ \A i \in DOMAIN c : b[i].name = c[i].name
    BY SyncKeepsProfiles
  <2>2. \A i \in DOMAIN c : IsPanel(c[i])
    BY Candidates
  <2> HIDE DEF b
  <2>3. QED
    BY <2>1, <2>2 DEF IsPanel
<1>3. Unrepeated(b)
  BY Candidates, SyncKeepsProfiles DEF Unrepeated
<1> HIDE DEF a, b
<1>4. n \in Nat /\ m \in Nat /\ DOMAIN a = 1 .. n /\ DOMAIN b = 1 .. m
  BY <1>1, <1>2, LenProperties
<1>5. /\ DOMAIN g = 1 .. n + m
      /\ \A i \in 1 .. n + m : g[i] = IF i <= n THEN a[i] ELSE b[i - n]
  BY <1>1, <1>2, ConcatProperties, LenProperties
<1> HIDE DEF g, n, m
<1>6. ASSUME NEW i \in DOMAIN g, NEW j \in DOMAIN g, i # j
      PROVE  g[i].name # g[j].name \/ g[i].secret # g[j].secret
  <2>1. \/ i \in 1 .. n /\ g[i] = a[i]
        \/ i - n \in 1 .. m /\ g[i] = b[i - n]
    BY <1>4, <1>5
  <2>2. \/ j \in 1 .. n /\ g[j] = a[j]
        \/ j - n \in 1 .. m /\ g[j] = b[j - n]
    BY <1>4, <1>5
  <2>3. CASE i \in 1 .. n /\ g[i] = a[i] /\ j \in 1 .. n /\ g[j] = a[j]
    BY <1>1, <1>4, <1>6, <2>3 DEF Unrepeated
  <2>4. CASE i - n \in 1 .. m /\ g[i] = b[i - n] /\ j - n \in 1 .. m /\ g[j] = b[j - n]
    <3>1. i - n # j - n
      BY <1>4, <1>5, <1>6
    <3>2. QED
      BY <1>3, <1>4, <2>4, <3>1 DEF Unrepeated
  <2>5. CASE i \in 1 .. n /\ g[i] = a[i] /\ j - n \in 1 .. m /\ g[j] = b[j - n]
    BY <1>1, <1>2, <1>4, <2>5 DEF IsPanel
  <2>6. CASE i - n \in 1 .. m /\ g[i] = b[i - n] /\ j \in 1 .. n /\ g[j] = a[j]
    BY <1>1, <1>2, <1>4, <2>6 DEF IsPanel
  <2>7. QED
    BY <2>1, <2>2, <2>3, <2>4, <2>5, <2>6
<1>7. \A e, d : /\ P(e).name = e.name /\ P(e).secret = e.secret
                /\ P(e) = P(d) <=> e.name = d.name /\ e.secret = d.secret
  OBVIOUS
<1> HIDE DEF P
<1>8. Unique({P(g[i]) : i \in DOMAIN g}) => Unrepeated(g)
  <2> SUFFICES ASSUME Unique({P(g[i]) : i \in DOMAIN g}),
                      NEW i \in DOMAIN g, NEW j \in DOMAIN g, i # j
               PROVE  g[i].name # g[j].name /\ g[i].secret # g[j].secret
    BY DEF Unrepeated
  <2>1. P(g[i]) # P(g[j])
    BY <1>6, <1>7
  <2>2. QED
    BY <1>7, <2>1 DEF Unique
<1>9. Unrepeated(g) => Unique({P(g[i]) : i \in DOMAIN g})
  BY <1>7 DEF Unrepeated, Unique
<1>10. QED
  BY <1>8, <1>9 DEF EntrySet, P, a, b, g
\* The inductive invariant of the merges.
MergeInv ==
  /\ profilesFile \in Seq(Entry) /\ Unrepeated(profilesFile)
  /\ candidateFile \in PanelFiles \cup {None}

\* The file is one that can be read, whatever was merged into it.
THEOREM MergeInvariant == MergeSpec => []MergeInv
<1>1. MergeInit => MergeInv
  <2> SUFFICES ASSUME MergeInit
               PROVE  MergeInv
    OBVIOUS
  <2>1. PICK m \in 0 .. MaxEntries : profilesFile \in [1 .. m -> Entry]
    BY DEF MergeInit, SeqOf
  <2>2. m \in Nat
    BY MergeAssumption DEF MergeAssumption
  <2>3. profilesFile \in Seq(Entry)
    BY <2>1, <2>2
  <2>4. QED
    BY <2>3 DEF MergeInit, MergeInv
<1>2. MergeInv /\ [MergeNext]_mergeVars => MergeInv'
  <2> SUFFICES ASSUME MergeInv, [MergeNext]_mergeVars
               PROVE  MergeInv'
    OBVIOUS
  <2>1. CASE UNCHANGED mergeVars
    BY <2>1 DEF mergeVars, MergeInv
  <2>2. ASSUME NEW c \in PanelFiles, TakeCandidate(c)
        PROVE  MergeInv'
    BY <2>2 DEF TakeCandidate, MergeInv
  <2>3. CASE MergeAndInstall
    <3>1. candidateFile \in PanelFiles /\ profilesFile \in Seq(Entry)
      BY <2>3 DEF MergeAndInstall, MergeInv
    <3> DEFINE merged == Foreign(profilesFile) \o Synced(profilesFile, candidateFile)
    <3>2. /\ merged \in Seq(Entry) /\ merged # None
          /\ ScriptMerge(profilesFile, candidateFile) =
               IF Unrepeated(merged) THEN merged ELSE None
      BY <3>1, Merged
    <3> HIDE DEF merged
    <3>3. profilesFile' = IF Unrepeated(merged) THEN merged ELSE profilesFile
      BY <2>3, <3>2 DEF MergeAndInstall
    <3>4. candidateFile' = None
      BY <2>3 DEF MergeAndInstall
    <3>5. QED
      BY <3>1, <3>2, <3>3, <3>4 DEF MergeInv, Unrepeated
  <2>4. QED
    BY <2>1, <2>2, <2>3 DEF MergeNext
<1>3. QED
  BY <1>1, <1>2, PTL DEF MergeSpec

\* The merge of sets that HostApply works with is the merge of entries that
\* apply-profiles.sh does, in what it gives and in what it refuses.
THEOREM SetMergeIsSound == MergeSpec => []SetMergeSound
<1>1. MergeInv => SetMergeSound
  <2> SUFFICES ASSUME MergeInv, candidateFile # None
               PROVE  SetMergeSound
    BY DEF SetMergeSound
  <2> DEFINE merged == Foreign(profilesFile) \o Synced(profilesFile, candidateFile)
  <2>1. candidateFile \in PanelFiles /\ profilesFile \in Seq(Entry)
        /\ Unrepeated(profilesFile)
    BY DEF MergeInv
  <2>2. /\ merged # None
        /\ ScriptMerge(profilesFile, candidateFile) =
             IF Unrepeated(merged) THEN merged ELSE None
    BY <2>1, Merged
  <2>3. EntrySet(merged) =
          MergedProfiles(EntrySet(profilesFile), EntrySet(candidateFile))
    BY <2>1, SameSet
  <2>4. Unique(EntrySet(merged)) <=> Unrepeated(merged)
    BY <2>1, SameRefusal
  <2> HIDE DEF merged
  <2>5. QED
    BY <2>2, <2>3, <2>4 DEF SetMergeSound
<1>2. QED
  BY <1>1, MergeInvariant, PTL

\* MergePanelProfiles, which the package's tests run, and merge_profiles of the
\* script, which runs in production, give the same file or both refuse.
THEOREM MergesAreOne == MergeSpec => []MergesAgree
<1>1. MergeInv => MergesAgree
  <2> DEFINE f == profilesFile
             c == candidateFile
             foreign == Foreign(f)
  <2> SUFFICES ASSUME MergeInv, c # None,
                      foreign = <<>> \/ foreign[1].carrier # None
               PROVE  MergePanelProfiles(f, c) = ScriptMerge(f, c)
    BY DEF MergesAgree
  <2>1. c \in PanelFiles /\ f \in Seq(Entry) /\ Unrepeated(f)
    BY DEF MergeInv
  <2>2. foreign \in Seq(Entry) /\ Unrepeated(foreign)
    BY <2>1, ForeignEntries
  <2>3. c \in Seq(Entry) /\ Synced(f, c) \in Seq(Entry)
    BY <2>1, Candidates, SyncKeepsProfiles
  <2>4. FoldLeft(AddProfile, <<>>, foreign) = foreign
    <3>1. <<>> \in Seq(Entry) /\ Unrepeated(<<>>)
      BY EmptySeq DEF Unrepeated
    <3>2. <<>> \o foreign = foreign
      BY <2>2, ConcatEmptySeq
    <3> HIDE DEF foreign
    <3>3. QED
      BY <2>2, <3>1, <3>2, AddAll
  <2>5. foreign # None
    BY <2>2, MergeAssumption DEF MergeAssumption
  <2> DEFINE synced == IF foreign \in {None, <<>>} THEN c
                       ELSE [i \in DOMAIN c |-> SyncProfileBackend(c[i], foreign[1])]
  <2>6. synced = Synced(f, c)
    <3>1. CASE foreign = <<>>
      BY <3>1 DEF Synced
    <3>2. CASE foreign # <<>>
      BY <2>5, <3>2 DEF Synced, SyncProfileBackend
    <3>3. QED
      BY <3>1, <3>2
  <2>7. MergePanelProfiles(f, c) = FoldLeft(AddProfile, foreign, Synced(f, c))
    <3>1. MergePanelProfiles(f, c) = FoldLeft(AddProfile, foreign, synced)
      BY <2>4 DEF MergePanelProfiles
    <3> HIDE DEF synced, foreign
    <3>2. QED
      BY <2>6, <3>1
  <2>8. FoldLeft(AddProfile, foreign, Synced(f, c)) =
          IF Unrepeated(foreign \o Synced(f, c)) THEN foreign \o Synced(f, c) ELSE None
    BY <2>2, <2>3, AddAll
  <2>9. ScriptMerge(f, c) =
          IF Unrepeated(foreign \o Synced(f, c)) THEN foreign \o Synced(f, c) ELSE None
    BY <2>1, Merged
  <2>10. QED
    BY <2>7, <2>8, <2>9
<1>2. QED
  BY <1>1, MergeInvariant, PTL

\* What an apply has installed makes no difference to a later one: neither its
\* entries nor the template that it copied are read again.
THEOREM LastMergeDecides == MergeSpec => LastMergeWins
<1> DEFINE Same == profilesFile' # profilesFile =>
                     \A c \in PanelFiles :
                       ScriptMerge(profilesFile', c) = ScriptMerge(profilesFile, c)
<1>1. MergeInv /\ [MergeNext]_mergeVars => [Same]_mergeVars
  <2> SUFFICES ASSUME MergeInv, MergeNext, profilesFile' # profilesFile,
                      NEW c \in PanelFiles
               PROVE  ScriptMerge(profilesFile', c) = ScriptMerge(profilesFile, c)
    OBVIOUS
  <2>1. MergeAndInstall
    BY DEF MergeNext, TakeCandidate
  <2>2. candidateFile \in PanelFiles /\ profilesFile \in Seq(Entry)
    BY <2>1 DEF MergeAndInstall, MergeInv
  <2> DEFINE merged == Foreign(profilesFile) \o Synced(profilesFile, candidateFile)
  <2>3. ScriptMerge(profilesFile, candidateFile) \in {merged, None}
        /\ Foreign(merged) = Foreign(profilesFile)
    BY <2>2, Merged
  <2>4. profilesFile' = merged
    BY <2>1, <2>3 DEF MergeAndInstall
  <2>5. Foreign(profilesFile') = Foreign(profilesFile)
    BY <2>3, <2>4
  <2>6. \A e : Synced(profilesFile', e) = Synced(profilesFile, e)
    BY <2>5 DEF Synced
  <2>7. QED
    BY <2>5, <2>6 DEF ScriptMerge
<1>2. MergeSpec => [][Same]_mergeVars
  BY <1>1, MergeInvariant, PTL DEF MergeSpec
<1>3. QED
  BY <1>2 DEF LastMergeWins

------------------------------------------------------------------------------
(* The order of texts.                                                     *)

\* Two texts of which neither is the beginning of the other one.
Comparable(s, t) ==
  s = t \/ s = Null \/ t = Null \/ \E i \in DOMAIN s \cap DOMAIN t : s[i] # t[i]

LEMMA TextsDiffer ==
  ASSUME NEW s \in Seq(Nat), NEW t \in Seq(Nat), Comparable(s, t), s # t
  PROVE  TextLess(s, t) \/ TextLess(t, s)
<1>1. CASE s = Null \/ t = Null
  BY <1>1 DEF TextLess
<1>2. CASE s # Null /\ t # Null
  <2> DEFINE D == {i \in DOMAIN s \cap DOMAIN t : s[i] # t[i]}
  <2>1. /\ DOMAIN s = 1 .. Len(s) /\ DOMAIN t = 1 .. Len(t)
        /\ Len(s) \in Nat /\ Len(t) \in Nat
    BY LenProperties
  <2>2. /\ \A i \in DOMAIN s : s[i] \in Nat
        /\ \A i \in DOMAIN t : t[i] \in Nat
    BY <2>1, ElementOfSeq
  <2>3. D \subseteq Nat /\ D # {}
    BY <1>2, <2>1 DEF Comparable
  <2>4. PICK i \in D : \A j \in D : i <= j
    <3> HIDE DEF D
    <3>1. QED
      BY <2>3, HasLeast
  <2>5. \A j \in 1 .. i - 1 : s[j] = t[j]
    <3> TAKE j \in 1 .. i - 1
    <3>1. j \in DOMAIN s \cap DOMAIN t /\ j < i
      BY <2>1
    <3>2. QED
      BY <2>1, <2>4, <3>1
  <2>6. s[i] < t[i] \/ t[i] < s[i]
    BY <2>2, <2>4
  <2>7. i \in DOMAIN s \cap DOMAIN t
    BY <2>4
  <2>8. QED
    BY <2>5, <2>6, <2>7 DEF TextLess
<1>3. QED
  BY <1>1, <1>2

LEMMA TextsAsymmetric ==
  ASSUME NEW s \in Seq(Nat), NEW t \in Seq(Nat), TextLess(s, t)
  PROVE  ~TextLess(t, s)
<1> SUFFICES ASSUME TextLess(t, s) PROVE FALSE
  OBVIOUS
<1>1. /\ DOMAIN s = 1 .. Len(s) /\ DOMAIN t = 1 .. Len(t)
      /\ Len(s) \in Nat /\ Len(t) \in Nat
  BY LenProperties
<1>2. /\ \A i \in DOMAIN s : s[i] \in Nat
      /\ \A i \in DOMAIN t : t[i] \in Nat
  BY <1>1, ElementOfSeq
<1>3. DOMAIN Null = {}
  BY DEF Null
<1>4. s # Null /\ t # Null
  BY <1>3 DEF TextLess
<1>5. PICK i \in DOMAIN s \cap DOMAIN t :
        s[i] < t[i] /\ \A j \in 1 .. i - 1 : s[j] = t[j]
  BY <1>4 DEF TextLess
<1>6. PICK k \in DOMAIN s \cap DOMAIN t :
        t[k] < s[k] /\ \A j \in 1 .. k - 1 : t[j] = s[j]
  BY <1>4 DEF TextLess
<1>7. i \in Nat /\ k \in Nat /\ i >= 1 /\ k >= 1
  BY <1>1
<1>8. i < k \/ k < i \/ i = k
  BY <1>7
<1>9. i < k => s[i] = t[i]
  BY <1>6, <1>7
<1>10. k < i => s[k] = t[k]
  BY <1>5, <1>7
<1>11. QED
  BY <1>2, <1>5, <1>6, <1>8, <1>9, <1>10

LEMMA TextsTransitive ==
  ASSUME NEW s \in Seq(Nat), NEW t \in Seq(Nat), NEW u \in Seq(Nat),
         TextLess(s, t), TextLess(t, u)
  PROVE  TextLess(s, u)
<1>1. /\ DOMAIN s = 1 .. Len(s) /\ DOMAIN t = 1 .. Len(t) /\ DOMAIN u = 1 .. Len(u)
      /\ Len(s) \in Nat /\ Len(t) \in Nat /\ Len(u) \in Nat
  BY LenProperties
<1>2. /\ \A i \in DOMAIN s : s[i] \in Nat
      /\ \A i \in DOMAIN t : t[i] \in Nat
      /\ \A i \in DOMAIN u : u[i] \in Nat
  BY <1>1, ElementOfSeq
<1>3. DOMAIN Null = {}
  BY DEF Null
<1>4. t # Null /\ u # Null
  BY <1>3 DEF TextLess
<1>5. CASE s = Null
  BY <1>4, <1>5 DEF TextLess
<1>6. CASE s # Null
  <2>1. PICK i \in DOMAIN s \cap DOMAIN t :
          s[i] < t[i] /\ \A j \in 1 .. i - 1 : s[j] = t[j]
    BY <1>6 DEF TextLess
  <2>2. PICK k \in DOMAIN t \cap DOMAIN u :
          t[k] < u[k] /\ \A j \in 1 .. k - 1 : t[j] = u[j]
    BY <1>4 DEF TextLess
  <2>3. i \in 1 .. Len(s) /\ i \in 1 .. Len(t) /\ k \in 1 .. Len(t) /\ k \in 1 .. Len(u)
    BY <1>1
  <2>4. CASE i <= k
    <3>1. i \in DOMAIN s \cap DOMAIN u
      BY <1>1, <2>3, <2>4
    <3>2. t[i] <= u[i]
      <4>1. CASE i = k
        BY <1>2, <2>2, <4>1
      <4>2. CASE i < k
        <5>1. i \in 1 .. k - 1
          BY <2>3, <4>2
        <5>2. t[i] = u[i] /\ t[i] \in Nat
          BY <1>2, <2>1, <2>2, <5>1
        <5>3. QED
          BY <5>2
      <4>3. QED
        BY <2>3, <2>4, <4>1, <4>2
    <3>3. s[i] < u[i]
      BY <1>2, <2>1, <3>1, <3>2
    <3>4. \A j \in 1 .. i - 1 : s[j] = u[j]
      <4> TAKE j \in 1 .. i - 1
      <4>1. j \in 1 .. k - 1
        BY <2>3, <2>4
      <4>2. QED
        BY <2>1, <2>2, <4>1
    <3>5. QED
      BY <3>1, <3>3, <3>4 DEF TextLess
  <2>5. CASE k < i
    <3>1. k \in DOMAIN s \cap DOMAIN u
      BY <1>1, <2>3, <2>5
    <3>2. k \in 1 .. i - 1
      BY <2>3, <2>5
    <3>3. s[k] < u[k]
      BY <2>1, <2>2, <3>2
    <3>4. \A j \in 1 .. k - 1 : s[j] = u[j]
      <4> TAKE j \in 1 .. k - 1
      <4>1. j \in 1 .. i - 1
        BY <2>3, <2>5
      <4>2. QED
        BY <2>1, <2>2, <4>1
    <3>5. QED
      BY <3>1, <3>3, <3>4 DEF TextLess
  <2>6. QED
    BY <2>3, <2>4, <2>5
<1>7. QED
  BY <1>5, <1>6

\* A page in the order of a text column, or the other way round, and where two
\* of the texts are equal in another order.
Goes(key, desc, x, y) ==
  IF desc THEN TextLess(key[y], key[x]) ELSE TextLess(key[x], key[y])

KeyOrder(S, key, desc, Tie) ==
  {p \in S \X S :
     \/ Goes(key, desc, p[1], p[2])
     \/ ~Goes(key, desc, p[2], p[1]) /\ <<p[1], p[2]>> \in Tie}

LEMMA KeysSort ==
  ASSUME NEW S, NEW Tie, Sorts(S, Tie), NEW desc \in BOOLEAN,
         NEW key \in [S -> Seq(Nat)],
         \A x, y \in S : Comparable(key[x], key[y])
  PROVE  /\ Sorts(S, KeyOrder(S, key, desc, Tie))
         /\ \A x, y \in S : <<x, y>> \in KeyOrder(S, key, desc, Tie) =>
              ~Goes(key, desc, y, x)
<1> DEFINE Before(x, y) == Goes(key, desc, x, y)
           R == KeyOrder(S, key, desc, Tie)
<1>1. \A x, y \in S :
        <<x, y>> \in R <=> Before(x, y) \/ (~Before(y, x) /\ <<x, y>> \in Tie)
  BY DEF KeyOrder
<1>2. \A x, y \in S : Before(x, y) => ~Before(y, x)
  <2> TAKE x, y \in S
  <2>1. key[x] \in Seq(Nat) /\ key[y] \in Seq(Nat)
    OBVIOUS
  <2>2. QED
    BY <2>1, TextsAsymmetric DEF Goes
<1>3. \A x, y, z \in S : Before(x, y) /\ Before(y, z) => Before(x, z)
  <2> TAKE x, y, z \in S
  <2>1. key[x] \in Seq(Nat) /\ key[y] \in Seq(Nat) /\ key[z] \in Seq(Nat)
    OBVIOUS
  <2>2. QED
    BY <2>1, TextsTransitive DEF Goes
<1>4. \A x, y \in S : ~Before(x, y) /\ ~Before(y, x) => key[x] = key[y]
  <2> TAKE x, y \in S
  <2>1. key[x] \in Seq(Nat) /\ key[y] \in Seq(Nat) /\ Comparable(key[x], key[y])
    OBVIOUS
  <2>2. QED
    BY <2>1, TextsDiffer DEF Goes
<1>5. \A x, y, z \in S :
        key[x] = key[y] => (Before(x, z) <=> Before(y, z)) /\ (Before(z, x) <=> Before(z, y))
  BY DEF Goes
<1>6. \A x \in S : ~Before(x, x)
  BY <1>2
<1> HIDE DEF Before, R
<1>7. Sorts(S, R)
  <2>1. \A x, y \in S : ~(<<x, y>> \in R /\ <<y, x>> \in R)
    BY <1>1, <1>2 DEF Sorts
  <2>2. \A x, y \in S : x # y => <<x, y>> \in R \/ <<y, x>> \in R
    BY <1>1 DEF Sorts
  <2>3. ASSUME NEW x \in S, NEW y \in S, NEW z \in S, <<x, y>> \in R, <<y, z>> \in R
        PROVE  <<x, z>> \in R
    <3>1. CASE Before(x, y) /\ Before(y, z)
      BY <1>1, <1>3, <3>1
    <3>2. CASE Before(x, y) /\ ~Before(y, z)
      <4>1. key[y] = key[z]
        BY <1>1, <1>4, <2>3, <3>2
      <4>2. QED
        BY <1>1, <1>5, <3>2, <4>1
    <3>3. CASE ~Before(x, y) /\ Before(y, z)
      <4>1. key[x] = key[y]
        BY <1>1, <1>4, <2>3, <3>3
      <4>2. QED
        BY <1>1, <1>5, <3>3, <4>1
    <3>4. CASE ~Before(x, y) /\ ~Before(y, z)
      <4>1. key[x] = key[y] /\ key[y] = key[z]
        BY <1>1, <1>4, <2>3, <3>4
      <4>2. <<x, y>> \in Tie /\ <<y, z>> \in Tie
        BY <1>1, <2>3, <3>4
      <4>3. <<x, z>> \in Tie
        BY <4>2 DEF Sorts
      <4>4. ~Before(z, x)
        BY <1>5, <1>6, <4>1
      <4>5. QED
        BY <1>1, <4>3, <4>4
    <3>5. QED
      BY <3>1, <3>2, <3>3, <3>4
  <2>4. QED
    BY <2>1, <2>2, <2>3 DEF Sorts
<1>8. \A x, y \in S : <<x, y>> \in R => ~Before(y, x)
  BY <1>1, <1>2
<1>9. QED
  BY <1>7, <1>8 DEF Before, R

------------------------------------------------------------------------------
(* What rows are sorted by.                                                *)

LEMMA SameLength ==
  ASSUME NEW s \in Seq(Nat), NEW t \in Seq(Nat), Len(s) = Len(t)
  PROVE  Comparable(s, t)
<1> SUFFICES ASSUME ~\E i \in DOMAIN s \cap DOMAIN t : s[i] # t[i]
             PROVE  s = t
  BY DEF Comparable
<1>1. DOMAIN s = 1 .. Len(s) /\ DOMAIN t = 1 .. Len(t)
  BY LenProperties
<1>2. \A i \in 1 .. Len(s) : s[i] = t[i]
  BY <1>1
<1>3. QED
  BY <1>2, SeqEqual

LEMMA OneNumber ==
  ASSUME NEW a \in Nat, NEW b \in Nat
  PROVE  /\ <<a>> \in Seq(Nat) /\ Len(<<a>>) = 1
         /\ TextLess(<<a>>, <<b>>) <=> a < b
<1>1. <<a>> # Null /\ <<b>> # Null
  BY DEF Null
<1>2. DOMAIN <<a>> \cap DOMAIN <<b>> = {1}
  OBVIOUS
<1>3. <<a>>[1] = a /\ <<b>>[1] = b
  OBVIOUS
<1>4. TextLess(<<a>>, <<b>>) <=> a < b
  <2>1. \A j \in 1 .. 1 - 1 : <<a>>[j] = <<b>>[j]
    OBVIOUS
  <2>2. QED
    BY <1>1, <1>2, <1>3, <2>1 DEF TextLess
<1>5. QED
  BY <1>4

LEMMA TwoNumbers ==
  ASSUME NEW a \in Nat, NEW b \in Nat, NEW c \in Nat, NEW d \in Nat
  PROVE  /\ <<a, b>> \in Seq(Nat) /\ Len(<<a, b>>) = 2
         /\ TextLess(<<a, b>>, <<c, d>>) <=> a < c \/ (a = c /\ b < d)
<1> DEFINE s == <<a, b>>
           t == <<c, d>>
<1>1. s # Null /\ t # Null
  BY DEF Null
<1>2. DOMAIN s \cap DOMAIN t = {1, 2}
  OBVIOUS
<1>3. s[1] = a /\ t[1] = c /\ s[2] = b /\ t[2] = d
  OBVIOUS
<1>4. 1 .. 1 - 1 = {} /\ 1 .. 2 - 1 = {1}
  OBVIOUS
<1>5. s \in Seq(Nat) /\ Len(s) = 2
  OBVIOUS
<1> HIDE DEF s, t
<1>6. TextLess(s, t) <=> \E i \in {1, 2} : s[i] < t[i] /\ \A j \in 1 .. i - 1 : s[j] = t[j]
  BY <1>1, <1>2 DEF TextLess
<1>7. TextLess(s, t) <=> s[1] < t[1] \/ (s[1] = t[1] /\ s[2] < t[2])
  <2>1. TextLess(s, t) <=> \/ s[1] < t[1] /\ \A j \in 1 .. 1 - 1 : s[j] = t[j]
                           \/ s[2] < t[2] /\ \A j \in 1 .. 2 - 1 : s[j] = t[j]
    BY <1>6
  <2>2. (\A j \in 1 .. 1 - 1 : s[j] = t[j]) /\ ((\A j \in 1 .. 2 - 1 : s[j] = t[j]) <=> s[1] = t[1])
    BY <1>4
  <2>3. QED
    BY <2>1, <2>2
<1>8. QED
  BY <1>3, <1>5, <1>7 DEF s, t

\* Texts that differ in the first place are in the order of these two.
LEMMA FirstDecides ==
  ASSUME NEW s \in Seq(Nat), NEW t \in Seq(Nat), s # Null, t # Null, s[1] # t[1]
  PROVE  TextLess(s, t) <=> s[1] < t[1]
<1>1. /\ DOMAIN s = 1 .. Len(s) /\ DOMAIN t = 1 .. Len(t)
      /\ Len(s) \in Nat /\ Len(t) \in Nat
  BY LenProperties
<1>2. Len(s) > 0 /\ Len(t) > 0
  BY <1>1, EmptySeq DEF Null
<1>3. 1 \in DOMAIN s \cap DOMAIN t
  BY <1>1, <1>2
<1>4. 1 .. 1 - 1 = {}
  OBVIOUS
<1>5. s[1] < t[1] => TextLess(s, t)
  BY <1>3, <1>4 DEF TextLess
<1>6. TextLess(s, t) => s[1] < t[1]
  <2> SUFFICES ASSUME TextLess(s, t) PROVE s[1] < t[1]
    OBVIOUS
  <2>1. PICK i \in DOMAIN s \cap DOMAIN t :
          s[i] < t[i] /\ \A j \in 1 .. i - 1 : s[j] = t[j]
    BY DEF TextLess
  <2>2. i = 1 \/ 1 \in 1 .. i - 1
    BY <1>1
  <2>3. QED
    BY <2>1, <2>2
<1>7. QED
  BY <1>5, <1>6

LEMMA Formatted ==
  ASSUME NEW t \in Time
  PROVE  LET s == <<t.sec>> \o t.frac \o <<Z>>
         IN /\ s \in Seq(Nat) /\ s # Null
            /\ t.frac \in Seq(0 .. 9) /\ Len(t.frac) \in Nat
            /\ Len(s) = Len(t.frac) + 2
            /\ s[1] = t.sec /\ s[Len(t.frac) + 2] = Z
            /\ \A i \in 2 .. Len(t.frac) + 1 : s[i] \in 0 .. 9
<1>1. t.sec \in Nat /\ t.frac \in Seq(0 .. 9) /\ Z \in Nat
  BY DEF Time, Z
<1> DEFINE f == t.frac
           n == Len(f)
           h == <<t.sec>>
           hf == h \o f
           s == hf \o <<Z>>
<1>2. f \in Seq(0 .. 9) /\ n \in Nat /\ f \in Seq(Nat)
      /\ \A i \in 1 .. n : f[i] \in 0 .. 9
  <2>1. f \in Seq(0 .. 9) /\ n \in Nat
    BY <1>1, LenProperties
  <2>2. \A i \in 1 .. n : f[i] \in 0 .. 9
    BY <1>1, LenProperties, ElementOfSeq
  <2>3. f \in Seq(Nat)
    BY <1>1, <2>1
  <2>4. QED
    BY <2>1, <2>2, <2>3
<1>3. h \in Seq(Nat) /\ Len(h) = 1 /\ h[1] = t.sec
  BY <1>1
<1>4. <<Z>> \in Seq(Nat) /\ Len(<<Z>>) = 1 /\ <<Z>>[1] = Z
  BY <1>1
<1> HIDE DEF h, f, n
<1>5. hf \in Seq(Nat) /\ Len(hf) = 1 + n
      /\ \A i \in 1 .. 1 + n : hf[i] = IF i <= 1 THEN h[i] ELSE f[i - 1]
  <2>1. hf \in Seq(Nat) /\ Len(hf) = Len(h) + Len(f)
    BY <1>2, <1>3, ConcatProperties
  <2>2. \A i \in 1 .. Len(h) + Len(f) : hf[i] = IF i <= Len(h) THEN h[i] ELSE f[i - Len(h)]
    BY <1>2, <1>3, ConcatProperties
  <2>3. Len(f) = n
    BY DEF n
  <2> HIDE DEF hf
  <2>4. QED
    BY <1>3, <2>1, <2>2, <2>3
<1> HIDE DEF hf
<1>6. s \in Seq(Nat) /\ Len(s) = n + 2
      /\ \A i \in 1 .. n + 2 : s[i] = IF i <= 1 + n THEN hf[i] ELSE <<Z>>[i - (1 + n)]
  <2>1. s \in Seq(Nat) /\ Len(s) = Len(hf) + Len(<<Z>>)
    BY <1>4, <1>5, ConcatProperties
  <2>2. \A i \in 1 .. Len(hf) + Len(<<Z>>) :
          s[i] = IF i <= Len(hf) THEN hf[i] ELSE <<Z>>[i - Len(hf)]
    BY <1>4, <1>5, ConcatProperties
  <2>3. Len(hf) + Len(<<Z>>) = n + 2
    BY <1>2, <1>4, <1>5
  <2> HIDE DEF s
  <2>4. QED
    BY <1>5, <2>1, <2>2, <2>3
<1> HIDE DEF s
<1>7. s[1] = t.sec
  <2>1. s[1] = hf[1]
    BY <1>2, <1>6
  <2>2. hf[1] = h[1]
    BY <1>2, <1>5
  <2>3. QED
    BY <1>3, <2>1, <2>2
<1>8. s[n + 2] = Z
  <2>1. n + 2 \in 1 .. n + 2 /\ ~(n + 2 <= 1 + n) /\ (n + 2) - (1 + n) = 1
    BY <1>2
  <2>2. QED
    BY <1>4, <1>6, <2>1
<1>9. \A i \in 2 .. n + 1 : s[i] \in 0 .. 9
  <2> TAKE i \in 2 .. n + 1
  <2>1. i \in 1 .. n + 2 /\ i <= 1 + n /\ i \in 1 .. 1 + n /\ ~(i <= 1) /\ i - 1 \in 1 .. n
    BY <1>2
  <2>2. s[i] = f[i - 1]
    BY <1>5, <1>6, <2>1
  <2>3. QED
    BY <1>2, <2>1, <2>2
<1>10. s # Null
  <2>1. Len(<<>>) = 0
    BY EmptySeq
  <2>2. QED
    BY <1>2, <1>6, <2>1 DEF Null
<1>11. s = <<t.sec>> \o t.frac \o <<Z>>
  BY DEF s, hf, h, f
<1>12. QED
  BY <1>2, <1>6, <1>7, <1>8, <1>9, <1>10, <1>11 DEF f, n

\* RFC3339Nano in SQL: no text is the beginning of another one, because of the Z.
LEMMA FormattedTimes ==
  ASSUME NEW s \in Time \cup {Null}, NEW t \in Time \cup {Null}
  PROVE  /\ formatTime(s) \in Seq(Nat)
         /\ Comparable(formatTime(s), formatTime(t))
<1> DEFINE Text(u) == <<u.sec>> \o u.frac \o <<Z>>
<1>1. ASSUME NEW u \in Time \cup {Null}
      PROVE  /\ formatTime(u) \in Seq(Nat)
             /\ u # Null => u \in Time /\ formatTime(u) = Text(u)
             /\ u = Null => formatTime(u) = Null
  <2>1. CASE u = Null
    <3>1. formatTime(u) = Null /\ Null \in Seq(Nat)
      BY <2>1, EmptySeq DEF formatTime, Null
    <3>2. QED
      BY <2>1, <3>1
  <2>2. CASE u # Null
    <3>1. u \in Time /\ formatTime(u) = Text(u)
      BY <1>1, <2>2 DEF formatTime
    <3>2. Text(u) \in Seq(Nat)
      BY <3>1, Formatted
    <3>3. QED
      BY <2>2, <3>1, <3>2
  <2>3. QED
    BY <2>1, <2>2
<1>2. formatTime(s) \in Seq(Nat) /\ formatTime(t) \in Seq(Nat)
  BY <1>1
<1>3. CASE s = Null \/ t = Null
  BY <1>1, <1>3 DEF Comparable
<1>4. CASE s # Null /\ t # Null
  <2>1. s \in Time /\ t \in Time /\ formatTime(s) = Text(s) /\ formatTime(t) = Text(t)
    BY <1>1, <1>4
  <2> DEFINE a == formatTime(s)
             b == formatTime(t)
             m == Len(s.frac)
             n == Len(t.frac)
  <2>2. /\ m \in Nat /\ Len(a) = m + 2 /\ a[m + 2] = Z
        /\ \A i \in 2 .. m + 1 : a[i] \in 0 .. 9
    BY <2>1, Formatted
  <2>3. /\ n \in Nat /\ Len(b) = n + 2 /\ b[n + 2] = Z
        /\ \A i \in 2 .. n + 1 : b[i] \in 0 .. 9
    BY <2>1, Formatted
  <2>4. a \in Seq(Nat) /\ b \in Seq(Nat) /\ DOMAIN a = 1 .. Len(a) /\ DOMAIN b = 1 .. Len(b)
    BY <1>2, LenProperties
  <2> HIDE DEF a, b, m, n
  <2>5. CASE m = n
    BY <2>2, <2>3, <2>4, <2>5, SameLength DEF a, b
  <2>6. CASE m < n
    <3>1. m + 2 \in 2 .. n + 1
      BY <2>2, <2>3, <2>6
    <3>2. m + 2 \in DOMAIN a /\ m + 2 \in DOMAIN b
      BY <2>2, <2>3, <2>4, <2>6
    <3>3. b[m + 2] \in 0 .. 9 /\ a[m + 2] = 10
      BY <2>2, <2>3, <3>1 DEF Z
    <3>4. b[m + 2] # a[m + 2]
      BY <3>3
    <3>5. QED
      BY <1>2, <3>2, <3>4 DEF Comparable, a, b
  <2>7. CASE n < m
    <3>1. n + 2 \in 2 .. m + 1
      BY <2>2, <2>3, <2>7
    <3>2. n + 2 \in DOMAIN a /\ n + 2 \in DOMAIN b
      BY <2>2, <2>3, <2>4, <2>7
    <3>3. a[n + 2] \in 0 .. 9 /\ b[n + 2] = 10
      BY <2>2, <2>3, <3>1 DEF Z
    <3>4. a[n + 2] # b[n + 2]
      BY <3>3
    <3>5. QED
      BY <1>2, <3>2, <3>4 DEF Comparable, a, b
  <2>8. QED
    BY <2>2, <2>3, <2>5, <2>6, <2>7
<1>5. QED
  BY <1>2, <1>3, <1>4

\* sortUsers compares the times themselves.
LEMMA Instants ==
  ASSUME NEW t \in Time, t # Null
  PROVE  /\ Instant(t) \in Seq(Nat) /\ Instant(t) # Null
         /\ Len(Instant(t)) = Digits + 1
         /\ Instant(t)[1] = t.sec
<1> DEFINE d == [i \in 1 .. Digits |-> IF i \in DOMAIN t.frac THEN t.frac[i] ELSE 0]
           h == <<t.sec>>
<1>1. t.sec \in Nat /\ t.frac \in Seq(0 .. 9) /\ Digits \in Nat
  BY DEF Time, Digits
<1>2. \A i \in DOMAIN t.frac : t.frac[i] \in Nat
  <2>1. \A i \in DOMAIN t.frac : t.frac[i] \in 0 .. 9
    BY <1>1, LenProperties, ElementOfSeq
  <2>2. QED
    BY <2>1
<1>3. d \in Seq(Nat) /\ Len(d) = Digits
  <2>1. d \in [1 .. Digits -> Nat]
    BY <1>2
  <2> HIDE DEF d
  <2>2. QED
    BY <1>1, <2>1
<1>4. h \in Seq(Nat) /\ Len(h) = 1 /\ h[1] = t.sec
  BY <1>1
<1>5. Instant(t) = h \o d
  BY DEF Instant
<1> HIDE DEF h, d
<1>6. Instant(t) \in Seq(Nat) /\ Len(Instant(t)) = 1 + Digits
  <2>1. h \o d \in Seq(Nat) /\ Len(h \o d) = Len(h) + Len(d)
    BY <1>3, <1>4, ConcatProperties
  <2>2. QED
    BY <1>3, <1>4, <1>5, <2>1
<1>7. Instant(t)[1] = t.sec
  <2>1. \A i \in 1 .. Len(h) + Len(d) :
          (h \o d)[i] = IF i <= Len(h) THEN h[i] ELSE d[i - Len(h)]
    BY <1>3, <1>4, ConcatProperties
  <2>2. (h \o d)[1] = h[1]
    <3>1. 1 \in 1 .. Len(h) + Len(d) /\ 1 <= Len(h)
      BY <1>1, <1>3, <1>4
    <3>2. QED
      BY <2>1, <3>1
  <2>3. QED
    BY <1>4, <1>5, <2>2
<1>8. Instant(t) # Null
  <2>1. Len(<<>>) = 0
    BY EmptySeq
  <2>2. QED
    BY <1>1, <1>6, <2>1 DEF Null
<1>9. QED
  BY <1>1, <1>6, <1>7, <1>8

LEMMA InstantsCompare ==
  ASSUME NEW s \in Time \cup {Null}, NEW t \in Time \cup {Null}
  PROVE  /\ Instant(s) \in Seq(Nat)
         /\ Comparable(Instant(s), Instant(t))
<1>1. ASSUME NEW u \in Time \cup {Null}
      PROVE  /\ Instant(u) \in Seq(Nat)
             /\ u # Null => Len(Instant(u)) = Digits + 1
             /\ u = Null => Instant(u) = Null
  <2>1. CASE u = Null
    <3>1. Instant(u) = Null /\ Null \in Seq(Nat)
      BY <2>1, EmptySeq DEF Instant, Null
    <3>2. QED
      BY <2>1, <3>1
  <2>2. CASE u # Null
    BY <1>1, <2>2, Instants
  <2>3. QED
    BY <2>1, <2>2
<1>2. CASE s = Null \/ t = Null
  BY <1>1, <1>2 DEF Comparable
<1>3. CASE s # Null /\ t # Null
  BY <1>1, <1>3, SameLength
<1>4. QED
  BY <1>1, <1>2, <1>3

\* Times of two seconds have one order, as texts and as times.
LEMMA SecondsDecide ==
  ASSUME NEW s \in Time \cup {Null}, NEW t \in Time \cup {Null},
         lessTimePtr(s, t), s # Null => t # Null /\ s.sec # t.sec
  PROVE  TextLess(formatTime(s), formatTime(t))
<1>1. CASE s = Null
  <2>1. t # Null
    <3> SUFFICES ASSUME t = Null PROVE FALSE
      OBVIOUS
    <3>1. Instant(s) = Null /\ Instant(t) = Null
      BY <1>1 DEF Instant
    <3>2. DOMAIN Null = {}
      BY DEF Null
    <3>3. QED
      BY <3>1, <3>2 DEF lessTimePtr, TextLess
  <2>2. t \in Time
    BY <2>1
  <2>3. formatTime(t) = <<t.sec>> \o t.frac \o <<Z>>
    BY <2>1 DEF formatTime
  <2>4. formatTime(t) # Null
    BY <2>2, <2>3, Formatted
  <2>5. formatTime(s) = Null
    BY <1>1 DEF formatTime
  <2>6. QED
    BY <2>4, <2>5 DEF TextLess
<1>2. CASE s # Null
  <2>1. s \in Time /\ t \in Time /\ t # Null /\ s.sec # t.sec
    BY <1>2
  <2>2. /\ Instant(s) \in Seq(Nat) /\ Instant(s) # Null /\ Instant(s)[1] = s.sec
        /\ Instant(t) \in Seq(Nat) /\ Instant(t) # Null /\ Instant(t)[1] = t.sec
    BY <1>2, <2>1, Instants
  <2>3. s.sec < t.sec
    BY <2>1, <2>2, FirstDecides DEF lessTimePtr
  <2>4. /\ formatTime(s) = <<s.sec>> \o s.frac \o <<Z>>
        /\ formatTime(t) = <<t.sec>> \o t.frac \o <<Z>>
    BY <1>2, <2>1 DEF formatTime
  <2>5. /\ formatTime(s) \in Seq(Nat) /\ formatTime(s) # Null /\ formatTime(s)[1] = s.sec
        /\ formatTime(t) \in Seq(Nat) /\ formatTime(t) # Null /\ formatTime(t)[1] = t.sec
    BY <2>1, <2>4, Formatted
  <2>6. QED
    BY <2>1, <2>3, <2>5, FirstDecides
<1>3. QED
  BY <1>1, <1>2

LEMMA RowsAre ==
  ASSUME NEW r \in ListRow
  PROVE  /\ r.id \in Nat /\ r.telegram_id \in Nat /\ r.username \in Nat /\ r.name \in Nat
         /\ r.status \in {"active", "denied", "pending", "revoked"}
         /\ r.requested_at \in Time \cup {Null} /\ r.issued_at \in Time \cup {Null}
         /\ \A c \in Searched : r.text[c] \in Seq(Letter)
BY DEF ListRow

LEMMA StatusTexts ==
  ASSUME NEW a \in {"active", "denied", "pending", "revoked"},
         NEW b \in {"active", "denied", "pending", "revoked"}
  PROVE  /\ StatusText[a] = <<StatusText[a][1]>> /\ StatusText[a][1] \in 1 .. 4
         /\ StatusText[a][1] = StatusText[b][1] <=> a = b
         /\ a \in DOMAIN StatusText
BY DEF StatusText

LEMMA SqlKeys ==
  ASSUME NEW col \in Column, NEW r \in ListRow, NEW s \in ListRow
  PROVE  SqlKey(col, r) \in Seq(Nat) /\ Comparable(SqlKey(col, r), SqlKey(col, s))
<1>1. ASSUME NEW a \in Nat, NEW b \in Nat
      PROVE  <<a>> \in Seq(Nat) /\ Comparable(<<a>>, <<b>>)
  <2>1. <<a>> \in Seq(Nat) /\ <<b>> \in Seq(Nat) /\ Len(<<a>>) = Len(<<b>>)
    OBVIOUS
  <2>2. QED
    BY <2>1, SameLength
<1>2. CASE col = "telegram_id"
  BY <1>1, <1>2, RowsAre DEF SqlKey
<1>3. CASE col = "name"
  BY <1>1, <1>3, RowsAre DEF SqlKey
<1>4. CASE col = "status"
  <2>1. r.status \in DOMAIN StatusText /\ s.status \in DOMAIN StatusText
        /\ StatusText[r.status] = <<StatusText[r.status][1]>>
        /\ StatusText[s.status] = <<StatusText[s.status][1]>>
        /\ StatusText[r.status][1] \in Nat /\ StatusText[s.status][1] \in Nat
    <3>1. r.status \in {"active", "denied", "pending", "revoked"}
          /\ s.status \in {"active", "denied", "pending", "revoked"}
      BY RowsAre
    <3>2. \A n \in 1 .. 4 : n \in Nat
      OBVIOUS
    <3>3. QED
      BY <3>1, <3>2, StatusTexts
  <2>2. SqlKey(col, r) = StatusText[r.status] /\ SqlKey(col, s) = StatusText[s.status]
    BY <1>4 DEF SqlKey
  <2>3. StatusText[r.status] \in Seq(Nat)
        /\ Comparable(StatusText[r.status], StatusText[s.status])
    BY <1>1, <2>1, Zenon
  <2>4. QED
    BY <2>2, <2>3
<1>5. CASE col = "issued_at"
  BY <1>5, RowsAre, FormattedTimes DEF SqlKey
<1>6. CASE col = "requested_at"
  BY <1>6, RowsAre, FormattedTimes DEF SqlKey
<1>7. QED
  BY <1>2, <1>3, <1>4, <1>5, <1>6 DEF Column

\* What sortUsers compares, as a text.
SortKey(col, r) ==
  CASE col = "telegram_id" -> <<r.telegram_id>>
    [] col = "name" -> <<r.name>>
    [] col = "status" -> <<StatusText[r.status][1], r.telegram_id>>
    [] col = "issued_at" -> Instant(r.issued_at)
    [] col = "requested_at" -> Instant(r.requested_at)

LEMMA SortKeys ==
  ASSUME NEW col \in Column, NEW r \in ListRow, NEW s \in ListRow
  PROVE  /\ SortKey(col, r) \in Seq(Nat)
         /\ Comparable(SortKey(col, r), SortKey(col, s))
         /\ Less(col, r, s) <=> TextLess(SortKey(col, r), SortKey(col, s))
<1>1. ASSUME NEW a \in Nat, NEW b \in Nat
      PROVE  /\ <<a>> \in Seq(Nat) /\ Comparable(<<a>>, <<b>>)
             /\ TextLess(<<a>>, <<b>>) <=> a < b
  <2>1. <<a>> \in Seq(Nat) /\ <<b>> \in Seq(Nat) /\ Len(<<a>>) = Len(<<b>>)
    OBVIOUS
  <2>2. QED
    BY <2>1, SameLength, OneNumber
<1>2. CASE col = "telegram_id"
  <2>1. r.telegram_id \in Nat /\ s.telegram_id \in Nat
    BY RowsAre
  <2>2. SortKey(col, r) = <<r.telegram_id>> /\ SortKey(col, s) = <<s.telegram_id>>
        /\ (Less(col, r, s) <=> r.telegram_id < s.telegram_id)
    BY <1>2 DEF SortKey, Less
  <2>3. QED
    BY <1>1, <2>1, <2>2
<1>3. CASE col = "name"
  <2>1. r.name \in Nat /\ s.name \in Nat
    BY RowsAre
  <2>2. SortKey(col, r) = <<r.name>> /\ SortKey(col, s) = <<s.name>>
        /\ (Less(col, r, s) <=> r.name < s.name)
    BY <1>3 DEF SortKey, Less
  <2>3. QED
    BY <1>1, <2>1, <2>2
<1>4. CASE col = "status"
  <2> DEFINE a == StatusText[r.status][1]
             b == StatusText[s.status][1]
             x == r.telegram_id
             y == s.telegram_id
  <2>1. /\ a \in Nat /\ b \in Nat /\ x \in Nat /\ y \in Nat
        /\ StatusText[r.status] = <<a>> /\ StatusText[s.status] = <<b>>
        /\ a = b <=> r.status = s.status
    <3>1. r.status \in {"active", "denied", "pending", "revoked"}
          /\ s.status \in {"active", "denied", "pending", "revoked"}
          /\ x \in Nat /\ y \in Nat
      BY RowsAre
    <3>2. \A n \in 1 .. 4 : n \in Nat
      OBVIOUS
    <3>3. a \in 1 .. 4 /\ b \in 1 .. 4
      BY <3>1, StatusTexts
    <3>4. StatusText[r.status] = <<a>> /\ StatusText[s.status] = <<b>>
          /\ (a = b <=> r.status = s.status)
      BY <3>1, StatusTexts
    <3>5. QED
      BY <3>1, <3>2, <3>3, <3>4
  <2>2. SortKey(col, r) = <<a, x>> /\ SortKey(col, s) = <<b, y>>
    BY <1>4 DEF SortKey
  <2>3. Less(col, r, s) <=> TextLess(StatusText[r.status], StatusText[s.status])
                            \/ (r.status = s.status /\ x < y)
    BY <1>4 DEF Less
  <2> HIDE DEF a, b, x, y
  <2>4. <<a, x>> \in Seq(Nat) /\ <<b, y>> \in Seq(Nat) /\ Len(<<a, x>>) = Len(<<b, y>>)
    BY <2>1
  <2>5. TextLess(<<a, x>>, <<b, y>>) <=> a < b \/ (a = b /\ x < y)
    BY <2>1, TwoNumbers
  <2>6. TextLess(<<a>>, <<b>>) <=> a < b
    BY <2>1, OneNumber
  <2>7. QED
    BY <2>1, <2>2, <2>3, <2>4, <2>5, <2>6, SameLength
<1>5. CASE col = "issued_at"
  BY <1>5, RowsAre, InstantsCompare DEF SortKey, Less, lessTimePtr
<1>6. CASE col = "requested_at"
  BY <1>6, RowsAre, InstantsCompare DEF SortKey, Less, lessTimePtr
<1>7. QED
  BY <1>2, <1>3, <1>4, <1>5, <1>6 DEF Column

\* Where the two orders agree.  The names are not what SQL sorts by.
LEMMA OrdersAgree ==
  ASSUME NEW col \in Column, col # "name", NEW r \in ListRow, NEW s \in ListRow,
         Less(col, r, s), ~(col = "status" /\ r.status = s.status),
         ~InOneSecond(col, r, s)
  PROVE  TextLess(SqlKey(col, r), SqlKey(col, s))
<1>1. CASE col = "telegram_id"
  <2>1. r.telegram_id \in Nat /\ s.telegram_id \in Nat
    BY RowsAre
  <2>2. QED
    BY <1>1, <2>1, OneNumber DEF SqlKey, Less
<1>2. CASE col = "status"
  BY <1>2 DEF SqlKey, Less
<1>3. ASSUME NEW u \in Time \cup {Null}, NEW v \in Time \cup {Null}, lessTimePtr(u, v),
             ~(u # Null /\ v # Null /\ u.sec = v.sec)
      PROVE  TextLess(formatTime(u), formatTime(v))
  <2>1. u # Null => v # Null
    <3> SUFFICES ASSUME u # Null, v = Null PROVE FALSE
      OBVIOUS
    <3>1. Instant(v) = Null /\ DOMAIN Null = {}
      BY DEF Instant, Null
    <3>2. Instant(u) # Null
      <4>1. u \in Time
        OBVIOUS
      <4>2. QED
        BY <4>1, Instants
    <3>3. QED
      BY <1>3, <3>1, <3>2 DEF lessTimePtr, TextLess
  <2>2. QED
    BY <1>3, <2>1, SecondsDecide
<1>4. CASE col = "issued_at"
  <2>1. /\ r.issued_at \in Time \cup {Null} /\ s.issued_at \in Time \cup {Null}
        /\ lessTimePtr(r.issued_at, s.issued_at)
        /\ SqlKey(col, r) = formatTime(r.issued_at)
        /\ SqlKey(col, s) = formatTime(s.issued_at)
    BY <1>4, RowsAre DEF Less, SqlKey
  <2>2. ~(r.issued_at # Null /\ s.issued_at # Null /\ r.issued_at.sec = s.issued_at.sec)
    BY <1>4 DEF InOneSecond
  <2>3. QED
    BY <1>3, <2>1, <2>2
<1>5. CASE col = "requested_at"
  <2>1. /\ r.requested_at \in Time \cup {Null} /\ s.requested_at \in Time \cup {Null}
        /\ lessTimePtr(r.requested_at, s.requested_at)
        /\ SqlKey(col, r) = formatTime(r.requested_at)
        /\ SqlKey(col, s) = formatTime(s.requested_at)
    BY <1>5, RowsAre DEF Less, SqlKey
  <2>2. ~(r.requested_at # Null /\ s.requested_at # Null
          /\ r.requested_at.sec = s.requested_at.sec)
    BY <1>5 DEF InOneSecond
  <2>3. QED
    BY <1>3, <2>1, <2>2
<1>6. QED
  BY <1>1, <1>2, <1>4, <1>5 DEF Column

------------------------------------------------------------------------------
(* Lists of rows: each row of a set once.                                  *)

Lists(seq, S) ==
  /\ seq \in Seq(S)
  /\ \A x \in S : \E i \in DOMAIN seq : seq[i] = x
  /\ \A i, j \in DOMAIN seq : i # j => seq[i] # seq[j]

LEMMA ListsCount ==
  ASSUME NEW S, NEW seq, Lists(seq, S)
  PROVE  /\ IsFiniteSet(S) /\ Len(seq) = Cardinality(S) /\ ToSet(seq) = S
         /\ Len(seq) \in Nat /\ DOMAIN seq = 1 .. Len(seq)
         /\ \A i \in DOMAIN seq : seq[i] \in S
<1> DEFINE n == Len(seq)
<1>1. seq \in Seq(S)
  BY DEF Lists
<1>2. n \in Nat /\ DOMAIN seq = 1 .. n /\ seq \in [1 .. n -> S]
  BY <1>1, LenProperties
<1>3. \A i \in DOMAIN seq : seq[i] \in S
  BY <1>2
<1>4. ToSet(seq) = S
  BY <1>3 DEF ToSet, Lists
<1> HIDE DEF n
<1>5. seq \in Surjection(1 .. n, S)
  BY <1>2 DEF Surjection, Lists
<1>6. seq \in Injection(1 .. n, S)
  BY <1>2 DEF Injection, IsInjective, Lists
<1>7. IsFiniteSet(1 .. n) /\ Cardinality(1 .. n) = n
  BY <1>2, FS_Interval
<1>8. IsFiniteSet(S) /\ Cardinality(S) = n
  BY <1>5, <1>6, <1>7, FS_Surjection
<1>9. QED
  BY <1>2, <1>3, <1>4, <1>8 DEF n

\* SetToSeq lists a finite set.
LEMMA AllListed ==
  ASSUME NEW S, IsFiniteSet(S)
  PROVE  Lists(SetToSeq(S), S)
<1> DEFINE n == Cardinality(S)
           Once(f) == \A a, b \in DOMAIN f : f[a] = f[b] => a = b
           seq == SetToSeq(S)
<1>1. n \in Nat
  BY FS_CardinalityType
<1>2. PICK f \in Bijection(1 .. n, S) : TRUE
  BY FS_CardinalityType DEF ExistsBijection
<1>3. f \in [1 .. n -> S] /\ \A a, b \in 1 .. n : f[a] = f[b] => a = b
  BY <1>2 DEF Bijection, Injection, IsInjective
<1>4. f \in [1 .. n -> S] /\ Once(f)
  BY <1>3
<1>5. seq = CHOOSE g \in [1 .. n -> S] : Once(g)
  BY DEF SetToSeq, IsInjective
<1> HIDE DEF n, seq, Once
<1>6. seq \in [1 .. n -> S] /\ Once(seq)
  BY <1>4, <1>5
<1>7. seq \in [1 .. n -> S] /\ DOMAIN seq = 1 .. n
      /\ \A a, b \in 1 .. n : seq[a] = seq[b] => a = b
  BY <1>6 DEF Once
<1>8. seq \in Injection(1 .. n, S)
  BY <1>7 DEF Injection, IsInjective
<1>9. IsFiniteSet(1 .. n) /\ Cardinality(1 .. n) = n
  BY <1>1, FS_Interval
<1>10. seq \in Surjection(1 .. n, S)
  <2>1. Cardinality(S) = n
    BY DEF n
  <2>2. QED
    BY <1>8, <1>9, <2>1, FS_Injection
<1>11. seq \in Seq(S)
  BY <1>1, <1>7
<1>12. QED
  BY <1>7, <1>10, <1>11 DEF Lists, Surjection, seq

\* A choice from a list lists what was chosen.
LEMMA ChoiceLists ==
  ASSUME NEW S, NEW seq, Lists(seq, S), NEW T \in SUBSET S
  PROVE  Lists(EntriesAt(seq, {i \in DOMAIN seq : seq[i] \in T}), T)
<1> DEFINE n == Len(seq)
           I == {i \in DOMAIN seq : seq[i] \in T}
           m == Cardinality(I)
           order == InTurn(I)
           chosen == EntriesAt(seq, I)
<1>1. n \in Nat /\ DOMAIN seq = 1 .. n
  BY ListsCount
<1>2. I \in SUBSET (1 .. n)
  BY <1>1
<1>3. (\A i \in I : seq[i] \in T) /\ \A i \in DOMAIN seq : seq[i] \in T => i \in I
  OBVIOUS
<1> HIDE DEF n, I
<1>4. /\ m \in Nat /\ order \in [1 .. m -> I]
      /\ \A i \in I : \E k \in 1 .. m : order[k] = i
      /\ \A k, l \in 1 .. m : k # l => order[k] # order[l]
  BY <1>1, <1>2, PlacesInTurn
<1>5. DOMAIN chosen = 1 .. m
  BY <1>1, <1>2, EntriesChosen, Zenon
<1>6. \A k \in 1 .. m : chosen[k] = seq[order[k]]
  <2>1. n \in Nat
    BY <1>1
  <2> HIDE DEF m, order, chosen
  <2>2. \A k \in 1 .. Cardinality(I) : EntriesAt(seq, I)[k] = seq[InTurn(I)[k]]
    BY <2>1, <1>2, EntriesChosen, Zenon
  <2>3. QED
    BY <2>2 DEF m, order, chosen
<1>7. chosen \in Seq(T)
  BY <1>1, <1>2, <1>3, EntriesChosen, Zenon
<1> HIDE DEF m, order, chosen
<1>8. \A x \in T : \E k \in DOMAIN chosen : chosen[k] = x
  <2> TAKE x \in T
  <2>1. PICK i \in DOMAIN seq : seq[i] = x
    BY DEF Lists
  <2>2. i \in I
    BY <1>3, <2>1
  <2>3. QED
    BY <1>4, <1>5, <1>6, <2>1, <2>2
<1>9. \A k, l \in DOMAIN chosen : k # l => chosen[k] # chosen[l]
  <2> TAKE k, l \in DOMAIN chosen
  <2> HAVE k # l
  <2>1. order[k] \in DOMAIN seq /\ order[l] \in DOMAIN seq /\ order[k] # order[l]
    BY <1>1, <1>2, <1>4, <1>5
  <2>2. QED
    BY <1>5, <1>6, <2>1 DEF Lists
<1>10. QED
  BY <1>7, <1>8, <1>9 DEF Lists, chosen, I

\* A set in an order is listed, and no later row comes before an earlier one.
LEMMA RankedLists ==
  ASSUME NEW S, NEW R, Sorts(S, R)
  PROVE  /\ Lists(Ranked(S, R), S)
         /\ \A i, j \in DOMAIN Ranked(S, R) :
              i < j => <<Ranked(S, R)[i], Ranked(S, R)[j]>> \in R
<1> DEFINE seq == Ranked(S, R)
           n == Cardinality(S)
<1>1. /\ n \in Nat /\ seq \in [1 .. n -> S]
      /\ \A x \in S : \E i \in 1 .. n : seq[i] = x
      /\ \A i, j \in 1 .. n : i < j => seq[i] # seq[j] /\ <<seq[i], seq[j]>> \in R
  BY RankedSorts
<1> HIDE DEF seq, n
<1>2. DOMAIN seq = 1 .. n /\ seq \in Seq(S)
  BY <1>1
<1>3. \A i, j \in 1 .. n : i # j => seq[i] # seq[j]
  <2> TAKE i, j \in 1 .. n
  <2>1. i # j => i < j \/ j < i
    BY <1>1
  <2>2. QED
    BY <1>1, <2>1
<1>4. Lists(seq, S) /\ \A i, j \in DOMAIN seq : i < j => <<seq[i], seq[j]>> \in R
  BY <1>1, <1>2, <1>3 DEF Lists
<1>5. QED
  BY <1>4 DEF seq

\* sortUsers returns the rows it was given, in the order of Less.
LEMMA UsersSorted ==
  ASSUME NEW S \in SUBSET ListRow, NEW rows, Lists(rows, S),
         NEW col \in Column, NEW desc \in BOOLEAN
  PROVE  LET page1 == sortUsers(rows, col, desc)
         IN /\ Lists(page1, S)
            /\ \A i, j \in DOMAIN page1 : i < j =>
                 ~(IF desc THEN Less(col, page1[i], page1[j])
                   ELSE Less(col, page1[j], page1[i]))
<1> DEFINE P == DOMAIN rows
           n == Len(rows)
           key == [i \in P |-> SortKey(col, rows[i])]
           Tie == {p \in P \X P : p[1] < p[2]}
           R == KeyOrder(P, key, desc, Tie)
           order == Ranked(P, R)
           sorted == [k \in P |-> rows[order[k]]]
<1>1. n \in Nat /\ P = 1 .. n /\ \A i \in P : rows[i] \in S /\ rows[i] \in ListRow
  BY ListsCount
<1>2. Sorts(P, Tie)
  <2>1. 1 .. n \in SUBSET (1 .. n) /\ n \in Nat
    BY <1>1
  <2>2. Sorts(1 .. n, {p \in (1 .. n) \X (1 .. n) : p[1] < p[2]})
    BY <2>1, PlacesSort
  <2>3. QED
    BY <1>1, <2>2
<1>3. /\ key \in [P -> Seq(Nat)]
      /\ \A i, j \in P : Comparable(key[i], key[j])
      /\ \A i, j \in P : Less(col, rows[i], rows[j]) <=> TextLess(key[i], key[j])
  <2>1. \A i, j \in P : /\ SortKey(col, rows[i]) \in Seq(Nat)
                        /\ Comparable(SortKey(col, rows[i]), SortKey(col, rows[j]))
                        /\ Less(col, rows[i], rows[j])
                             <=> TextLess(SortKey(col, rows[i]), SortKey(col, rows[j]))
    BY <1>1, SortKeys
  <2>2. QED
    BY <2>1
<1>4. sortUsers(rows, col, desc) = sorted
  <2> DEFINE Before(i, j) ==
               IF desc THEN Less(col, rows[j], rows[i]) ELSE Less(col, rows[i], rows[j])
             Q == {p \in P \X P : \/ Before(p[1], p[2])
                                  \/ ~Before(p[2], p[1]) /\ p[1] < p[2]}
  <2>1. sortUsers(rows, col, desc) = [k \in P |-> rows[Ranked(P, Q)[k]]]
    BY DEF sortUsers
  <2>2. \A i, j \in P : Before(i, j) <=> Goes(key, desc, i, j)
    BY <1>3 DEF Goes
  <2>3. \A p \in P \X P : <<p[1], p[2]>> \in Tie <=> p[1] < p[2]
    OBVIOUS
  <2> HIDE DEF Before, key, Tie
  <2>4. Q = R
    BY <2>2, <2>3 DEF KeyOrder
  <2>5. QED
    BY <2>1, <2>4
<1> HIDE DEF key, Tie, R
<1>5. Sorts(P, R) /\ \A i, j \in P : <<i, j>> \in R => ~Goes(key, desc, j, i)
  BY <1>2, <1>3, KeysSort DEF R
<1>6. /\ Lists(order, P)
      /\ \A i, j \in DOMAIN order : i < j => <<order[i], order[j]>> \in R
  BY <1>5, RankedLists
<1> HIDE DEF order
<1>7. DOMAIN order = P /\ \A k \in P : order[k] \in P
  <2>1. Cardinality(P) = n
    BY <1>1, FS_Interval
  <2>2. DOMAIN order = 1 .. Len(order) /\ Len(order) = Cardinality(P)
        /\ \A k \in DOMAIN order : order[k] \in P
    BY <1>6, ListsCount
  <2>3. QED
    BY <1>1, <2>1, <2>2
<1>8. sorted \in Seq(S) /\ DOMAIN sorted = P
  <2>1. \A k \in P : rows[order[k]] \in S
    BY <1>1, <1>7
  <2>2. sorted \in [1 .. n -> S]
    BY <1>1, <2>1
  <2>3. QED
    BY <1>1, <2>2
<1>9. \A x \in S : \E k \in P : sorted[k] = x
  <2> TAKE x \in S
  <2>1. PICK i \in P : rows[i] = x
    BY DEF Lists
  <2>2. PICK k \in P : order[k] = i
    BY <1>6, <1>7 DEF Lists
  <2>3. QED
    BY <2>1, <2>2
<1>10. \A k, l \in P : k # l => sorted[k] # sorted[l]
  BY <1>6, <1>7 DEF Lists
<1>11. \A k, l \in P : k < l =>
         ~(IF desc THEN Less(col, sorted[k], sorted[l])
           ELSE Less(col, sorted[l], sorted[k]))
  <2> TAKE k, l \in P
  <2> HAVE k < l
  <2>1. ~Goes(key, desc, order[l], order[k])
    BY <1>5, <1>6, <1>7
  <2>2. QED
    BY <1>3, <1>7, <2>1 DEF Goes
<1>12. Lists(sorted, S)
  BY <1>8, <1>9, <1>10 DEF Lists
<1> HIDE DEF sorted
<1>13. QED
  BY <1>4, <1>8, <1>11, <1>12

------------------------------------------------------------------------------
(* The user list.                                                          *)

Rows(t) ==
  t \subseteq ListRow /\ IsFiniteSet(t) /\ \A r, s \in t : r.id = s.id => r = s

Matching(t, q) ==
  {r \in t : /\ q.pending => r.status = "pending"
             /\ q.search # <<>> =>
                  \E c \in Searched : Like(r.text[c], Pattern(q.search))}

Pending(t) == {r \in t : r.status = "pending"}

LEMMA RequestsAre ==
  ASSUME NEW q \in Request
  PROVE  /\ q.desc \in BOOLEAN /\ q.pending \in BOOLEAN /\ q.search \in Seq(Letter)
         /\ parseSortColumn(q.sort) \in Column
         /\ q.sort # "name" => parseSortColumn(q.sort) # "name"
<1>1. Queries \subseteq Seq(Letter) /\ <<>> \in Seq(Letter)
  BY ListAssumption DEF ListAssumption
<1>2. q.search \in Queries \cup {<<>>} /\ q.desc \in BOOLEAN /\ q.pending \in BOOLEAN
  BY DEF Request
<1>3. q.search \in Seq(Letter)
  BY <1>1, <1>2
<1>4. QED
  BY <1>2, <1>3 DEF Request, parseSortColumn, Column

\* The query lists the rows that match, in the order of SQL.
LEMMA Queried ==
  ASSUME Rows(table), NEW q \in Request
  PROVE  LET col == parseSortColumn(q.sort)
             rows == ListUsers(q)
         IN /\ Lists(rows, Matching(table, q))
            /\ \A i, j \in DOMAIN rows : i < j =>
                 ~(IF q.desc THEN TextLess(SqlKey(col, rows[i]), SqlKey(col, rows[j]))
                   ELSE TextLess(SqlKey(col, rows[j]), SqlKey(col, rows[i])))
<1> DEFINE S == Matching(table, q)
           col == parseSortColumn(q.sort)
           key == [r \in S |-> SqlKey(col, r)]
           Tie == {p \in S \X S : p[1].id > p[2].id}
           R == KeyOrder(S, key, q.desc, Tie)
           rows == Ranked(S, R)
<1>1. S \subseteq table /\ S \subseteq ListRow
  BY DEF Matching, Rows
<1>2. col \in Column /\ q.desc \in BOOLEAN
  BY RequestsAre
<1> HIDE DEF S, col
<1>3. IsFiniteSet(S)
  BY <1>1, FS_Subset DEF Rows
<1>4. Sorts(S, Tie)
  <2>1. \A r \in S : r.id \in Nat
    BY <1>1, RowsAre
  <2>2. \A r, s \in S : r.id = s.id => r = s
    BY <1>1 DEF Rows
  <2>3. \A r, s \in S : <<r, s>> \in Tie <=> r.id > s.id
    OBVIOUS
  <2> HIDE DEF Tie
  <2>4. \A r, s \in S : ~(<<r, s>> \in Tie /\ <<s, r>> \in Tie)
    <3> TAKE r, s \in S
    <3>1. r.id \in Nat /\ s.id \in Nat
      BY <2>1
    <3>2. ~(r.id > s.id /\ s.id > r.id)
      BY <3>1
    <3>3. QED
      BY <2>3, <3>2
  <2>5. \A r, s \in S : r # s => <<r, s>> \in Tie \/ <<s, r>> \in Tie
    BY <2>1, <2>2, <2>3
  <2>6. \A r, s, u \in S : <<r, s>> \in Tie /\ <<s, u>> \in Tie => <<r, u>> \in Tie
    BY <2>1, <2>3
  <2>7. QED
    BY <1>3, <2>4, <2>5, <2>6 DEF Sorts
<1>5. key \in [S -> Seq(Nat)] /\ \A r, s \in S : Comparable(key[r], key[s])
  <2>1. \A r, s \in S : SqlKey(col, r) \in Seq(Nat)
                        /\ Comparable(SqlKey(col, r), SqlKey(col, s))
    BY <1>1, <1>2, SqlKeys
  <2>2. QED
    BY <2>1
<1>6. ListUsers(q) = rows
  <2> DEFINE Before(r, s) == IF q.desc THEN TextLess(SqlKey(col, s), SqlKey(col, r))
                             ELSE TextLess(SqlKey(col, r), SqlKey(col, s))
             Q == {p \in S \X S : \/ Before(p[1], p[2])
                                  \/ ~Before(p[2], p[1]) /\ p[1].id > p[2].id}
  <2>1. Selected(q) = S
    BY DEF Selected, Matching, S
  <2>2. ListUsers(q) = Ranked(S, Q)
    BY <2>1 DEF ListUsers, col
  <2>3. \A r, s \in S : Before(r, s) <=> Goes(key, q.desc, r, s)
    BY DEF Goes
  <2>4. \A p \in S \X S : <<p[1], p[2]>> \in Tie <=> p[1].id > p[2].id
    OBVIOUS
  <2> HIDE DEF Before, key, Tie
  <2>5. Q = R
    BY <2>3, <2>4 DEF KeyOrder
  <2>6. QED
    BY <2>2, <2>5
<1>7. \A r, s \in S : Goes(key, q.desc, s, r) <=>
                        IF q.desc THEN TextLess(SqlKey(col, r), SqlKey(col, s))
                        ELSE TextLess(SqlKey(col, s), SqlKey(col, r))
  BY DEF Goes
<1> HIDE DEF key, Tie, R
<1>8. Sorts(S, R) /\ \A r, s \in S : <<r, s>> \in R => ~Goes(key, q.desc, s, r)
  BY <1>2, <1>4, <1>5, KeysSort DEF R
<1>9. Lists(rows, S) /\ \A i, j \in DOMAIN rows : i < j => <<rows[i], rows[j]>> \in R
  BY <1>8, RankedLists
<1> HIDE DEF rows
<1>10. \A i \in DOMAIN rows : rows[i] \in S
  BY <1>9, ListsCount
<1>11. \A i, j \in DOMAIN rows : i < j =>
         ~(IF q.desc THEN TextLess(SqlKey(col, rows[i]), SqlKey(col, rows[j]))
           ELSE TextLess(SqlKey(col, rows[j]), SqlKey(col, rows[i])))
  BY <1>7, <1>8, <1>9, <1>10
<1>12. QED
  BY <1>6, <1>9, <1>11 DEF S, col

\* The pattern of a query that has no wildcard of its own, or one that has.
LEMMA PatternLetters ==
  ASSUME NEW q \in Seq(Letter)
  PROVE  /\ Pattern(q) \in Seq(Letter) /\ Len(Pattern(q)) = Len(q) + 2
         /\ Pattern(q)[1] = "%" /\ Pattern(q)[Len(q) + 2] = "%"
         /\ \A i \in 1 .. Len(q) : Pattern(q)[i + 1] = q[i]
<1>1. <<"%">> \in Seq(Letter) /\ Len(<<"%">>) = 1 /\ <<"%">>[1] = "%"
  <2>1. "%" \in Letter
    BY DEF Letter
  <2>2. QED
    BY <2>1
<1> DEFINE mark == <<"%">>
<1> HIDE DEF mark
<1> DEFINE front == mark \o q
<1>2. front \in Seq(Letter) /\ Len(front) = Len(q) + 1 /\ front[1] = "%"
      /\ \A i \in 1 .. Len(q) : front[i + 1] = q[i]
  BY <1>1 DEF mark
<1>3. Pattern(q) = front \o mark
  BY DEF Pattern, mark
<1> HIDE DEF front
<1>4. Len(q) \in Nat
  OBVIOUS
<1> DEFINE whole == front \o mark
<1>5. whole \in Seq(Letter) /\ Len(whole) = Len(q) + 2 /\ whole[Len(q) + 2] = "%"
      /\ \A i \in 1 .. Len(q) + 1 : whole[i] = front[i]
  BY <1>1, <1>2, <1>4 DEF mark
<1> HIDE DEF whole
<1>6. \A i \in 1 .. Len(q) : i + 1 \in 1 .. Len(q) + 1
  BY <1>4
<1>7. 1 \in 1 .. Len(q) + 1
  BY <1>4
<1>8. QED
  BY <1>2, <1>3, <1>5, <1>6, <1>7 DEF whole

\* Letters that LIKE takes for the same ToLower does too, and the other way round
\* unless one of them is a capital that is not ASCII.
LEMMA LettersFold ==
  ASSUME NEW a \in Letter, NEW b \in Letter
  PROVE  /\ AsciiLower(a) = AsciiLower(b) => ToLower(a) = ToLower(b)
         /\ (/\ ToLower(a) = AsciiLower(a) /\ ToLower(b) = AsciiLower(b)
             /\ ToLower(a) = ToLower(b)) => AsciiLower(a) = AsciiLower(b)
BY DEF Letter, ToLower, AsciiLower

\* What contains a text is LIKE its pattern.
LEMMA ContainedIsLike ==
  ASSUME NEW t \in Seq(Letter), NEW q \in Seq(Letter), FoldsAlike(t), FoldsAlike(q),
         LowerContains(t, q)
  PROVE  Like(t, Pattern(q))
<1> DEFINE p == Pattern(q)
<1>1. p \in Seq(Letter) /\ Len(p) = Len(q) + 2 /\ p[1] = "%" /\ p[Len(q) + 2] = "%"
      /\ \A i \in 1 .. Len(q) : p[i + 1] = q[i]
  BY PatternLetters
<1> HIDE DEF p
<1>2. Len(t) \in Nat /\ Len(q) \in Nat
  OBVIOUS
<1>3. PICK n \in 0 .. Len(t) - Len(q) :
        \A i \in DOMAIN q : ToLower(t[n + i]) = ToLower(q[i])
  BY DEF LowerContains
<1>4. n \in Nat /\ n + Len(q) <= Len(t)
  BY <1>2, <1>3
<1> DEFINE end == [i \in 0 .. Len(p) |-> IF i = 0 THEN 0
                                       ELSE IF i = Len(p) THEN Len(t) ELSE n + i - 1]
<1>5. end \in [0 .. Len(p) -> 0 .. Len(t)]
  BY <1>1, <1>2, <1>4
<1>6. end[0] = 0 /\ end[Len(p)] = Len(t)
  BY <1>1, <1>2
<1>7. ASSUME NEW i \in DOMAIN p
      PROVE  IF p[i] = "%" THEN end[i - 1] <= end[i]
             ELSE /\ end[i] = end[i - 1] + 1
                  /\ p[i] = "_" \/ AsciiLower(t[end[i]]) = AsciiLower(p[i])
  <2>1. i \in 1 .. Len(q) + 2
    BY <1>1
  <2>2. CASE i = 1
    <3>1. p[i] = "%" /\ end[i - 1] = 0 /\ end[i] \in 0 .. Len(t)
      BY <1>1, <1>2, <1>5, <1>6, <2>2
    <3>2. end[i - 1] <= end[i]
      BY <1>2, <3>1
    <3>3. QED
      BY <3>1, <3>2
  <2>3. CASE i = Len(q) + 2
    <3>1. p[i] = "%" /\ end[i] = Len(t) /\ end[i - 1] \in 0 .. Len(t)
      BY <1>1, <1>2, <1>5, <1>6, <2>3
    <3>2. end[i - 1] <= end[i]
      BY <1>2, <3>1
    <3>3. QED
      BY <3>1, <3>2
  <2>4. CASE i \in 2 .. Len(q) + 1
    <3>1. /\ i - 1 \in 1 .. Len(q) /\ p[i] = q[i - 1]
          /\ i # 0 /\ i # Len(p) /\ i \in 0 .. Len(p)
          /\ i - 1 # 0 /\ i - 1 # Len(p) /\ i - 1 \in 0 .. Len(p)
      <4>1. i - 1 \in 1 .. Len(q) /\ (i - 1) + 1 = i
        BY <1>2, <2>4
      <4>2. QED
        BY <1>1, <1>2, <2>4, <4>1
    <3>2. end[i] = n + (i - 1) /\ end[i - 1] = n + (i - 1) - 1
      BY <3>1, <1>4
    <3>3. n + (i - 1) \in DOMAIN t /\ i - 1 \in DOMAIN q
      BY <1>2, <1>4, <3>1
    <3>4. /\ ToLower(t[n + (i - 1)]) = ToLower(q[i - 1])
          /\ t[n + (i - 1)] \in Letter /\ q[i - 1] \in Letter
      BY <1>3, <3>3
    <3>5. AsciiLower(t[n + (i - 1)]) = AsciiLower(q[i - 1])
      BY <3>3, <3>4, LettersFold DEF FoldsAlike
    <3>6. end[i] = end[i - 1] + 1 /\ end[i - 1] <= end[i]
      BY <3>1, <3>2, <1>4
    <3>7. AsciiLower(t[end[i]]) = AsciiLower(p[i])
      BY <3>1, <3>2, <3>5
    <3>8. QED
      BY <3>6, <3>7
  <2>5. i = 1 \/ i = Len(q) + 2 \/ i \in 2 .. Len(q) + 1
    BY <1>2, <2>1
  <2> HIDE DEF end
  <2>6. QED
    BY <2>2, <2>3, <2>4, <2>5
<1> HIDE DEF end
<1>8. Like(t, p)
  BY <1>5, <1>6, <1>7 DEF Like
<1>9. QED
  BY <1>8 DEF p

Literal(q) == \A i \in DOMAIN q : q[i] # "%" /\ q[i] # "_"

\* What is LIKE the pattern of a text without wildcards contains that text.
LEMMA LikeIsContained ==
  ASSUME NEW t \in Seq(Letter), NEW q \in Seq(Letter), Literal(q), Like(t, Pattern(q))
  PROVE  LowerContains(t, q)
<1> DEFINE p == Pattern(q)
<1>1. p \in Seq(Letter) /\ Len(p) = Len(q) + 2 /\ p[1] = "%" /\ p[Len(q) + 2] = "%"
      /\ \A i \in 1 .. Len(q) : p[i + 1] = q[i]
  BY PatternLetters
<1>2. Like(t, p)
  OBVIOUS
<1> HIDE DEF p
<1>3. Len(t) \in Nat /\ Len(q) \in Nat
  OBVIOUS
<1>4. PICK end \in [0 .. Len(p) -> 0 .. Len(t)] :
        /\ end[0] = 0 /\ end[Len(p)] = Len(t)
        /\ \A i \in DOMAIN p :
             IF p[i] = "%" THEN end[i - 1] <= end[i]
             ELSE /\ end[i] = end[i - 1] + 1
                  /\ p[i] = "_" \/ AsciiLower(t[end[i]]) = AsciiLower(p[i])
  BY <1>2 DEF Like
<1>5. \A i \in 1 .. Len(q) :
        end[i + 1] = end[i] + 1 /\ AsciiLower(t[end[i + 1]]) = AsciiLower(q[i])
  <2> TAKE i \in 1 .. Len(q)
  <2>1. i + 1 \in DOMAIN p /\ p[i + 1] = q[i] /\ (i + 1) - 1 = i
    BY <1>1, <1>3
  <2>2. q[i] # "%" /\ q[i] # "_"
    <3>1. i \in DOMAIN q
      BY <1>3
    <3>2. QED
      BY <3>1 DEF Literal
  <2>3. QED
    BY <1>4, <2>1, <2>2
<1>6. \A i \in 0 .. Len(p) : end[i] \in 0 .. Len(t)
  BY <1>4
<1> DEFINE n == end[1]
           T == {k \in 0 .. Len(q) : end[k + 1] = n + k}
<1>7. n \in 0 .. Len(t)
  BY <1>1, <1>3, <1>6
<1>8. T = 0 .. Len(q)
  <2>1. 0 \in T
    BY <1>3, <1>7
  <2>2. ASSUME NEW k \in 1 .. Len(q), k - 1 \in T
        PROVE  k \in T
    <3>1. end[k] = n + (k - 1)
      <4>1. (k - 1) + 1 = k
        BY <1>3
      <4>2. end[(k - 1) + 1] = n + (k - 1)
        BY <2>2
      <4>3. QED
        BY <4>1, <4>2
    <3>2. end[k + 1] = end[k] + 1
      BY <1>5
    <3>3. QED
      BY <1>3, <1>7, <3>1, <3>2
  <2>3. T \in SUBSET (0 .. Len(q))
    OBVIOUS
  <2> HIDE DEF T
  <2>4. QED
    BY <1>3, <2>1, <2>2, <2>3, PrefixInduction
<1>9. \A k \in 0 .. Len(q) : end[k + 1] = n + k
  BY <1>8
<1> HIDE DEF n, T
<1>10. n \in 0 .. Len(t) - Len(q)
  <2>1. Len(q) \in 0 .. Len(q) /\ Len(q) + 1 \in 0 .. Len(p)
    BY <1>1, <1>3
  <2>2. end[Len(q) + 1] = n + Len(q) /\ end[Len(q) + 1] \in 0 .. Len(t)
    BY <1>6, <1>9, <2>1
  <2>3. QED
    BY <1>3, <1>7, <2>2
<1>11. \A i \in DOMAIN q : ToLower(t[n + i]) = ToLower(q[i])
  <2> TAKE i \in DOMAIN q
  <2>1. i \in 1 .. Len(q) /\ i \in 0 .. Len(q) /\ n + i \in 1 .. Len(t)
    BY <1>3, <1>10
  <2>2. end[i + 1] = n + i /\ AsciiLower(t[end[i + 1]]) = AsciiLower(q[i])
    BY <1>5, <1>9, <2>1
  <2>3. t[n + i] \in Letter /\ q[i] \in Letter
    BY <2>1
  <2>4. QED
    BY <2>2, <2>3, LettersFold
<1>12. QED
  BY <1>10, <1>11 DEF LowerContains

\* The page lists these rows, in the order of sortUsers.
LEMMA Shown ==
  ASSUME Rows(table), NEW q \in Request, NEW rows,
         rows = IF q.sort = "name" THEN sortUsers(ListUsers(q), "name", q.desc)
                ELSE ListUsers(q)
  PROVE  /\ Lists(rows, Matching(table, q))
         /\ \A i, j \in DOMAIN rows : i < j =>
              LET col == parseSortColumn(q.sort)
              IN \/ ~(IF q.desc THEN Less(col, rows[i], rows[j])
                      ELSE Less(col, rows[j], rows[i]))
                 \/ col = "status" /\ rows[i].status = rows[j].status
                 \/ InOneSecond(col, rows[i], rows[j])
<1> DEFINE S == Matching(table, q)
           col == parseSortColumn(q.sort)
<1>1. S \in SUBSET ListRow
  BY DEF Matching, Rows
<1>2. q.desc \in BOOLEAN /\ col \in Column /\ (q.sort # "name" => col # "name")
  BY RequestsAre
<1>3. CASE q.sort = "name"
  <2>1. "name" \in Column /\ col = "name"
    BY <1>3 DEF Column, parseSortColumn
  <2>2. Lists(ListUsers(q), S)
    BY Queried
  <2> HIDE DEF S
  <2>3. Lists(rows, S)
    BY <1>1, <1>2, <1>3, <2>1, <2>2, UsersSorted
  <2>4. \A i, j \in DOMAIN rows : i < j =>
          ~(IF q.desc THEN Less("name", rows[i], rows[j])
            ELSE Less("name", rows[j], rows[i]))
    BY <1>1, <1>2, <1>3, <2>1, <2>2, UsersSorted
  <2>5. QED
    BY <2>1, <2>3, <2>4 DEF S
<1>4. CASE q.sort # "name"
  <2>1. rows = ListUsers(q)
    BY <1>4
  <2>2. Lists(rows, S)
    BY <2>1, Queried
  <2>3. \A i, j \in DOMAIN rows : i < j =>
          ~(IF q.desc THEN TextLess(SqlKey(col, rows[i]), SqlKey(col, rows[j]))
            ELSE TextLess(SqlKey(col, rows[j]), SqlKey(col, rows[i])))
    BY <2>1, Queried
  <2> HIDE DEF S, col
  <2>4. \A i \in DOMAIN rows : rows[i] \in ListRow
    BY <1>1, <2>2, ListsCount
  <2>5. ASSUME NEW i \in DOMAIN rows, NEW j \in DOMAIN rows, i < j,
               ~(col = "status" /\ rows[i].status = rows[j].status),
               ~InOneSecond(col, rows[i], rows[j])
        PROVE  ~(IF q.desc THEN Less(col, rows[i], rows[j])
                 ELSE Less(col, rows[j], rows[i]))
    <3>1. rows[i] \in ListRow /\ rows[j] \in ListRow /\ col \in Column /\ col # "name"
      BY <1>2, <1>4, <2>4
    <3>2. ~InOneSecond(col, rows[j], rows[i])
          /\ ~(col = "status" /\ rows[j].status = rows[i].status)
      BY <2>5 DEF InOneSecond
    <3>3. CASE q.desc
      <4>1. ~TextLess(SqlKey(col, rows[i]), SqlKey(col, rows[j]))
        BY <2>3, <2>5, <3>3
      <4>2. ~Less(col, rows[i], rows[j])
        BY <2>5, <3>1, <4>1, OrdersAgree
      <4>3. QED
        BY <3>3, <4>2
    <3>4. CASE ~q.desc
      <4>1. ~TextLess(SqlKey(col, rows[j]), SqlKey(col, rows[i]))
        BY <2>3, <2>5, <3>4
      <4>2. ~Less(col, rows[j], rows[i])
        BY <3>1, <3>2, <4>1, OrdersAgree
      <4>3. QED
        BY <3>4, <4>2
    <3>5. QED
      BY <3>3, <3>4
  <2>6. QED
    BY <2>2, <2>5 DEF S, col
<1>5. QED
  BY <1>3, <1>4

\* What holds in every state: the tables are tables, the page is empty or lists
\* the rows that matched, in order, and a table that nobody wrote to between the
\* queries is the one that was counted.
ListInv ==
  /\ Rows(table) /\ Rows(listed)
  /\ request \in Request /\ badge \in Nat /\ writes \in 0 .. MaxWrites
  /\ listAt \in {"idle", "list", "count", "shown"} /\ overtaken \in BOOLEAN
  /\ listAt \in {"idle", "list"} => page = <<>>
  /\ listAt \in {"count", "shown"} =>
       Lists(page, Matching(listed, request)) /\ PageSorted
  /\ listAt = "count" /\ ~overtaken => table = listed
  /\ listAt = "shown" /\ ~overtaken => badge = Cardinality(Pending(listed))

LEMMA WrittenRow ==
  ASSUME NEW r \in ListRow, NEW status \in {"active", "denied", "pending", "revoked"}
  PROVE  Written(r, status) \in ListRow /\ Written(r, status).id = r.id
<1>1. Later \in Time
  BY ListAssumption DEF ListAssumption
<1>2. QED
  BY <1>1 DEF Written, ListRow

LEMMA NoRequestIsOne == NoRequest \in Request
BY DEF NoRequest, Request, Column

LEMMA EmptyPage ==
  ASSUME page = <<>>
  PROVE  PageSorted
<1>1. DOMAIN page = {}
  OBVIOUS
<1>2. QED
  BY <1>1 DEF PageSorted

LEMMA PendingCounted ==
  ASSUME NEW t, Rows(t)
  PROVE  IsFiniteSet(Pending(t)) /\ Cardinality(Pending(t)) \in Nat
<1>1. Pending(t) \subseteq t /\ IsFiniteSet(t)
  BY DEF Pending, Rows
<1>2. QED
  BY <1>1, FS_Subset, FS_CardinalityType

\* The invariant of the user list, that of every step of a request and of every
\* write of another one meanwhile.
THEOREM ListInvariant == ListSpec => []ListInv
<1>1. ListInit => ListInv
  <2> SUFFICES ASSUME ListInit PROVE ListInv
    OBVIOUS
  <2>1. Rows(table)
    BY ListAssumption DEF ListInit, ListAssumption, Rows
  <2>2. MaxWrites \in Nat /\ 0 \in 0 .. MaxWrites
    BY ListAssumption DEF ListAssumption
  <2>3. QED
    BY <2>1, <2>2, NoRequestIsOne DEF ListInit, ListInv
<1>2. ListInv /\ [ListNext]_listVars => ListInv'
  <2> SUFFICES ASSUME ListInv, [ListNext]_listVars PROVE ListInv'
    OBVIOUS
  <2>1. CASE Get
    BY <2>1 DEF Get, ListInv
  <2>2. CASE List
    <3>1. /\ page' = IF request.sort = "name"
                     THEN sortUsers(ListUsers(request), "name", request.desc)
                     ELSE ListUsers(request)
          /\ listed' = table /\ listAt' = "count"
          /\ UNCHANGED <<table, request, badge, overtaken, writes>>
      BY <2>2 DEF List
    <3>2. Rows(table) /\ request \in Request
      BY DEF ListInv
    <3>3. Lists(page', Matching(table, request))
      BY <3>1, <3>2, Shown
    <3>4. PageSorted'
      <4>1. \A i, j \in DOMAIN page' : i < j =>
              LET col == parseSortColumn(request.sort)
              IN \/ ~(IF request.desc THEN Less(col, page'[i], page'[j])
                      ELSE Less(col, page'[j], page'[i]))
                 \/ col = "status" /\ page'[i].status = page'[j].status
                 \/ InOneSecond(col, page'[i], page'[j])
        BY <3>1, <3>2, Shown
      <4>2. request' = request
        BY <3>1
      <4>3. QED
        BY <4>1, <4>2 DEF PageSorted
    <3>5. Lists(page', Matching(listed', request'))
      BY <3>1, <3>3
    <3>6. QED
      BY <3>1, <3>4, <3>5 DEF ListInv
  <2>3. CASE Count
    <3>1. /\ badge' = Cardinality(Pending(table)) /\ listAt = "count" /\ listAt' = "shown"
          /\ UNCHANGED <<table, request, page, listed, overtaken, writes>>
      BY <2>3 DEF Count, CountPendingUsers, Pending
    <3>2. badge' \in Nat
      BY <3>1, PendingCounted DEF ListInv
    <3>3. PageSorted'
      BY <3>1 DEF ListInv, PageSorted
    <3>4. Lists(page', Matching(listed', request'))
      BY <3>1 DEF ListInv
    <3>5. ~overtaken' => badge' = Cardinality(Pending(listed'))
      BY <3>1 DEF ListInv
    <3>6. QED
      BY <3>1, <3>2, <3>3, <3>4, <3>5 DEF ListInv
  <2>4. CASE Render
    BY <2>4, NoRequestIsOne DEF Render, ListInv
  <2>5. CASE Write
    <3>1. /\ writes < MaxWrites /\ writes' = writes + 1
          /\ overtaken' = (overtaken \/ listAt = "count")
          /\ UNCHANGED <<request, page, badge, listAt, listed>>
      BY <2>5 DEF Write
    <3>2. writes' \in 0 .. MaxWrites
      <4>1. MaxWrites \in Nat
        BY ListAssumption DEF ListAssumption
      <4>2. QED
        BY <3>1, <4>1 DEF ListInv
    <3>3. Rows(table)'
      <4>1. PICK r \in table :
              \/ table' = table \ {r}
              \/ \E status \in {"active", "denied", "pending", "revoked"} \ {r.status} :
                   table' = (table \ {r}) \cup {Written(r, status)}
        BY <2>5 DEF Write
      <4>2. Rows(table) /\ r \in ListRow /\ IsFiniteSet(table \ {r})
        <5>1. Rows(table) /\ r \in ListRow
          BY <4>1 DEF ListInv, Rows
        <5>2. QED
          BY <5>1, FS_RemoveElement DEF Rows
      <4>3. CASE table' = table \ {r}
        BY <4>2, <4>3 DEF Rows
      <4>4. ASSUME NEW status \in {"active", "denied", "pending", "revoked"},
                   table' = (table \ {r}) \cup {Written(r, status)}
            PROVE  Rows(table')
        <5>1. Written(r, status) \in ListRow /\ Written(r, status).id = r.id
          BY <4>2, WrittenRow
        <5>2. IsFiniteSet(table')
          BY <4>2, <4>4, FS_AddElement
        <5>3. table' \subseteq ListRow
          BY <4>2, <4>4, <5>1 DEF Rows
        <5>4. \A a, b \in table' : a.id = b.id => a = b
          BY <4>1, <4>2, <4>4, <5>1 DEF Rows
        <5>5. QED
          BY <5>2, <5>3, <5>4 DEF Rows
      <4>5. QED
        BY <4>1, <4>3, <4>4
    <3>4. listAt \in {"count", "shown"} =>
            Lists(page', Matching(listed', request')) /\ PageSorted'
      BY <3>1 DEF ListInv, PageSorted
    <3>5. listAt' = "count" => overtaken'
      BY <3>1
    <3>6. listAt' = "shown" /\ ~overtaken' => badge' = Cardinality(Pending(listed'))
      BY <3>1 DEF ListInv
    <3>7. overtaken' \in BOOLEAN
      BY <3>1 DEF ListInv
    <3>8. QED
      BY <3>1, <3>2, <3>3, <3>4, <3>5, <3>6, <3>7 DEF ListInv
  <2>6. CASE UNCHANGED listVars
    <3>1. UNCHANGED <<table, request, page, badge, listAt, listed, overtaken, writes>>
      BY <2>6 DEF listVars
    <3>2. PageSorted' <=> PageSorted
      BY <3>1 DEF PageSorted
    <3>3. QED
      BY <3>1, <3>2 DEF ListInv
  <2>7. QED
    BY <2>1, <2>2, <2>3, <2>4, <2>5, <2>6 DEF ListNext
<1>3. QED
  BY <1>1, <1>2, PTL DEF ListSpec

\* Rows keep a primary key and a status that exists, requests their ranges.
THEOREM ListTypes == ListSpec => []ListTypeOK
<1>1. ListInv => ListTypeOK
  <2> SUFFICES ASSUME ListInv PROVE ListTypeOK
    OBVIOUS
  <2>1. ToSet(page) \subseteq ListRow
    <3>1. CASE listAt \in {"idle", "list"}
      <4>1. page = <<>>
        BY <3>1 DEF ListInv
      <4>2. DOMAIN page = {}
        BY <4>1
      <4>3. QED
        BY <4>2 DEF ToSet
    <3>2. CASE listAt \in {"count", "shown"}
      <4>1. Lists(page, Matching(listed, request))
        BY <3>2 DEF ListInv
      <4>2. ToSet(page) = Matching(listed, request)
        BY <4>1, ListsCount
      <4>3. QED
        BY <4>2 DEF ListInv, Rows, Matching
    <3>3. QED
      BY <3>1, <3>2 DEF ListInv
  <2>2. table \subseteq ListRow
    BY DEF ListInv, Rows
  <2>3. \A r \in table \cup ToSet(page) : r.status \in DOMAIN StatusText
    <3> TAKE r \in table \cup ToSet(page)
    <3>1. r.status \in {"active", "denied", "pending", "revoked"}
      BY <2>1, <2>2, RowsAre
    <3>2. QED
      BY <3>1, StatusTexts
  <2>4. QED
    BY <2>3 DEF ListInv, ListTypeOK, Rows
<1>2. QED
  BY <1>1, ListInvariant, PTL

\* The query in SQL selects what the filter in memory does, each row once, but
\* for a status, a capital that is not ASCII and a wildcard, and the badge counts
\* the requests of the same table.
THEOREM PageIsTheFilter == ListSpec => []PageMirrorsFilter
<1>1. ListInv => PageMirrorsFilter
  <2> DEFINE all == SetToSeq(listed)
             q == request.search
             T == IF request.pending THEN Pending(listed) ELSE listed
             shown == IF request.pending THEN FilterPending(all) ELSE all
             U == {r \in T : q # <<>> => userMatches(r, q)}
             I == {i \in DOMAIN shown : q # <<>> => userMatches(shown[i], q)}
             matching == EntriesAt(shown, I)
             reference == FilterAndSort(shown, request)
  <2> SUFFICES ASSUME ListInv, listAt \in {"count", "shown"}
               PROVE  /\ {r \in ToSet(reference) : Shows(r, q)} \subseteq ToSet(page)
                      /\ ToSet(page) \subseteq
                           IF ToSet(q) \cap {"%", "_"} = {} THEN ToSet(reference)
                           ELSE ToSet(shown)
                      /\ Len(page) = Cardinality(ToSet(page))
                      /\ (listAt = "shown" /\ ~overtaken) =>
                           badge = Len(FilterPending(all))
    BY DEF PageMirrorsFilter
  <2>1. Rows(listed) /\ request \in Request
    BY DEF ListInv
  <2>2. Lists(all, listed)
    BY <2>1, AllListed DEF Rows
  <2>3. Lists(FilterPending(all), Pending(listed))
    <3>1. \A i \in DOMAIN all : all[i] \in listed
      BY <2>2, ListsCount
    <3> HIDE DEF all
    <3>2. {i \in DOMAIN all : all[i].status = "pending"}
            = {i \in DOMAIN all : all[i] \in Pending(listed)}
      BY <3>1 DEF Pending
    <3>3. Pending(listed) \in SUBSET listed
      BY DEF Pending
    <3>4. QED
      BY <2>2, <3>2, <3>3, ChoiceLists DEF FilterPending
  <2>4. Lists(shown, T)
    BY <2>2, <2>3
  <2>5. T \subseteq listed /\ U \subseteq T /\ U \subseteq ListRow
    BY <2>1 DEF Pending, Rows
  <2>6. q \in Seq(Letter)
    BY <2>1, RequestsAre
  <2>7. \A r : r \in T <=> r \in listed /\ (request.pending => r.status = "pending")
    BY DEF Pending
  <2> HIDE DEF all, shown, T, q
  <2>8. Lists(matching, U)
    <3>1. \A i \in DOMAIN shown : shown[i] \in T
      BY <2>4, ListsCount
    <3>2. I = {i \in DOMAIN shown : shown[i] \in U}
      BY <3>1
    <3> HIDE DEF U, I
    <3>3. QED
      BY <2>4, <2>5, <3>2, ChoiceLists
  <2>9. Lists(reference, U)
    <3>1. reference = sortUsers(matching, parseSortColumn(request.sort), request.desc)
      BY DEF FilterAndSort, q
    <3>2. parseSortColumn(request.sort) \in Column /\ request.desc \in BOOLEAN
      BY <2>1, RequestsAre
    <3> HIDE DEF matching, reference, U
    <3>3. QED
      BY <2>5, <2>8, <3>1, <3>2, UsersSorted
  <2>10. ToSet(reference) = U
    <3> HIDE DEF reference, U
    <3>1. QED
      BY <2>9, ListsCount
  <2>11. ToSet(shown) = T
    BY <2>4, ListsCount
  <2>12. Lists(page, Matching(listed, request))
    BY DEF ListInv
  <2>13. ToSet(page) = Matching(listed, request)
         /\ Len(page) = Cardinality(Matching(listed, request))
    BY <2>12, ListsCount
  <2>14. \A r : r \in Matching(listed, request) <=>
           /\ r \in T
           /\ q # <<>> => \E c \in Searched : Like(r.text[c], Pattern(q))
    BY <2>7 DEF Matching, q
  <2>15. ASSUME NEW r \in U, Shows(r, q)
         PROVE  r \in Matching(listed, request)
    <3>1. r \in T /\ r \in ListRow
      BY <2>5
    <3>2. ASSUME q # <<>>
          PROVE  \E c \in Searched : Like(r.text[c], Pattern(q))
      <4>1. PICK c \in Searched : LowerContains(r.text[c], q)
        BY <2>15, <3>2 DEF Shows, HasText
      <4>2. r.text[c] \in Seq(Letter) /\ FoldsAlike(r.text[c]) /\ FoldsAlike(q)
        BY <2>15, <3>1, RowsAre DEF Shows
      <4>3. QED
        BY <2>6, <4>1, <4>2, ContainedIsLike
    <3>3. QED
      BY <2>14, <3>1, <3>2
  <2>16. ASSUME NEW r \in Matching(listed, request), ToSet(q) \cap {"%", "_"} = {}
         PROVE  r \in U
    <3>1. r \in T /\ r \in ListRow
      BY <2>1, <2>5, <2>14 DEF Rows
    <3>2. Literal(q)
      BY <2>6, <2>16 DEF Literal, ToSet
    <3>3. ASSUME q # <<>>
          PROVE  userMatches(r, q)
      <4>1. PICK c \in Searched : Like(r.text[c], Pattern(q))
        BY <2>14, <3>3
      <4>2. r.text[c] \in Seq(Letter)
        BY <3>1, RowsAre
      <4>3. LowerContains(r.text[c], q)
        BY <2>6, <3>2, <4>1, <4>2, LikeIsContained
      <4>4. QED
        BY <4>3 DEF userMatches, HasText
    <3>4. QED
      BY <3>1, <3>3
  <2>17. listAt = "shown" /\ ~overtaken => badge = Len(FilterPending(all))
    <3>1. Len(FilterPending(all)) = Cardinality(Pending(listed))
      BY <2>3, ListsCount
    <3>2. QED
      BY <3>1 DEF ListInv
  <2> HIDE DEF reference, U
  <2>18. {r \in ToSet(reference) : Shows(r, q)} \subseteq ToSet(page)
    BY <2>10, <2>13, <2>15
  <2>19. ToSet(page) \subseteq IF ToSet(q) \cap {"%", "_"} = {} THEN ToSet(reference)
                              ELSE ToSet(shown)
    BY <2>10, <2>11, <2>13, <2>14, <2>16
  <2>20. QED
    BY <2>13, <2>17, <2>18, <2>19
<1>2. QED
  BY <1>1, ListInvariant, PTL

\* The page is in the order that was asked for, whichever of SQL and sortUsers
\* sorted it, but for two times in one second.
THEOREM PageIsSorted == ListSpec => []PageSorted
<1>1. ListInv => PageSorted
  BY EmptyPage DEF ListInv
<1>2. QED
  BY <1>1, ListInvariant, PTL
==============================================================================
