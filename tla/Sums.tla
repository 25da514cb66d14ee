-------------------------------- MODULE Sums --------------------------------
(***************************************************************************)
(* Lemmas about SumFunction of the community module Functions, by which    *)
(* the specifications add up what flows and connections have counted.      *)
(*                                                                         *)
(* SumFunction is a recursion over the subsets of a finite domain.  The    *)
(* induction principles below are about a set of good values instead of a  *)
(* predicate, so that they can be used like any other fact.                *)
(***************************************************************************)
EXTENDS Functions, FiniteSetTheorems, WellFoundedInduction, TLAPS

-----------------------------------------------------------------------------
(* Induction.                                                              *)

LEMMA LeastNatural ==
  ASSUME NEW T \in SUBSET Nat, T # {}
  PROVE  \E n \in T : \A m \in T : n <= m
<1> DEFINE R == {ss \in Nat \X Nat : ss[1] < ss[2]}
<1>1. IsWellFoundedOn(R, Nat)
  BY NatLessThanWellFounded DEF OpToRel
<1> HIDE DEF R
<1>2. PICK n \in T : \A m \in T : ~(<<m, n>> \in R)
  BY <1>1, WFMin
<1>3. ASSUME NEW m \in T PROVE n <= m
  <2>1. n \in Nat /\ m \in Nat
    OBVIOUS
  <2>2. ~(m < n)
    BY <1>2, <2>1 DEF R
  <2> QED
    BY <2>1, <2>2
<1> QED
  BY <1>3

(* A set of numbers with 0, and with the successor of each member.         *)
LEMMA AllNaturals ==
  ASSUME NEW G, 0 \in G, \A n \in Nat : n \in G => n + 1 \in G
  PROVE  \A n \in Nat : n \in G
<1> DEFINE Bad == {n \in Nat : n \notin G}
<1> SUFFICES ASSUME Bad # {} PROVE FALSE
  OBVIOUS
<1>1. PICK n \in Bad : \A m \in Bad : n <= m
  BY LeastNatural
<1>2. n \in Nat /\ n # 0 /\ n \notin G
  OBVIOUS
<1>3. n - 1 \in Nat /\ n - 1 \notin Bad
  BY <1>1, <1>2
<1>4. n - 1 \in G
  BY <1>3
<1> QED
  BY <1>2, <1>3, <1>4

(* The element that the fold takes next. *)
Pick(T) == CHOOSE x \in T : TRUE

LEMMA Picked == ASSUME NEW T, T # {} PROVE Pick(T) \in T
  BY DEF Pick

(* A set of subsets that the fold cannot leave on its way up.              *)
LEMMA AllSubsets ==
  ASSUME NEW S, IsFiniteSet(S), NEW G, {} \in G,
         \A T \in SUBSET S : T # {} /\ T \ {Pick(T)} \in G => T \in G
  PROVE  S \in G
<1> DEFINE N == {n \in Nat : \A T \in SUBSET S : Cardinality(T) = n => T \in G}
<1>1. \A T \in SUBSET S : IsFiniteSet(T) /\ Cardinality(T) \in Nat
  BY FS_Subset, FS_CardinalityType
<1>2. 0 \in N
  <2>1. \A T \in SUBSET S : Cardinality(T) = 0 => T = {}
    BY <1>1, FS_EmptySet
  <2> QED
    BY <2>1
<1>3. ASSUME NEW n \in Nat, n \in N PROVE n + 1 \in N
  <2> SUFFICES ASSUME NEW T \in SUBSET S, Cardinality(T) = n + 1 PROVE T \in G
    OBVIOUS
  <2>1. T # {}
    BY FS_EmptySet
  <2>2. Pick(T) \in T /\ T \ {Pick(T)} \in SUBSET S
    BY <2>1, Picked
  <2>3. Cardinality(T \ {Pick(T)}) = n
    BY <1>1, <2>2, FS_RemoveElement
  <2> QED
    BY <1>3, <2>1, <2>2, <2>3
<1> HIDE DEF N
<1>4. Cardinality(S) \in N
  BY <1>1, <1>2, <1>3, AllNaturals
<1> QED
  BY <1>4 DEF N

-----------------------------------------------------------------------------
(* The recursion.                                                          *)

Unfolds(f, S, g) ==
  g = [T \in SUBSET S |-> IF T = {} THEN 0 ELSE f[Pick(T)] + g[T \ {Pick(T)}]]

LEMMA SumIsUnfolded ==
  ASSUME NEW f, NEW S
  PROVE  SumFunctionOnSet(f, S) = (CHOOSE g : Unfolds(f, S, g))[S]
BY DEF SumFunctionOnSet, FoldFunctionOnSet, MapThenFoldSet, Unfolds, Pick

(* The function exists: it is built up by the size of the subsets.         *)
LEMMA UnfoldingExists ==
  ASSUME NEW f, NEW S, IsFiniteSet(S)
  PROVE  \E g : Unfolds(f, S, g)
<1> DEFINE Small(n) == {T \in SUBSET S : Cardinality(T) <= n}
           Body(g, T) == IF T = {} THEN 0 ELSE f[Pick(T)] + g[T \ {Pick(T)}]
           P(n) == \E g : g = [T \in Small(n) |-> Body(g, T)]
           N == {n \in Nat : P(n)}
<1>1. ASSUME NEW T \in SUBSET S
      PROVE  /\ IsFiniteSet(T) /\ Cardinality(T) \in Nat
             /\ T # {} => /\ T \ {Pick(T)} \in SUBSET S
                          /\ Cardinality(T \ {Pick(T)}) = Cardinality(T) - 1
  BY FS_Subset, FS_CardinalityType, FS_RemoveElement, Picked
<1>2. 0 \in N
  <2>1. \A T \in Small(0) : T = {}
    <3> SUFFICES ASSUME NEW T \in Small(0) PROVE T = {}
      OBVIOUS
    <3>1. T \in SUBSET S /\ Cardinality(T) <= 0
      OBVIOUS
    <3>2. IsFiniteSet(T) /\ Cardinality(T) \in Nat
      BY <1>1, <3>1
    <3> QED
      BY <3>1, <3>2, FS_EmptySet
  <2> DEFINE g == [T \in Small(0) |-> 0]
  <2>2. g = [T \in Small(0) |-> Body(g, T)]
    BY <2>1
  <2> HIDE DEF g
  <2> QED
    BY <2>2
<1>3. ASSUME NEW n \in Nat, n \in N PROVE n + 1 \in N
  <2>1. PICK g : g = [T \in Small(n) |-> Body(g, T)]
    BY <1>3
  <2> DEFINE h == [T \in Small(n + 1) |-> Body(g, T)]
  <2>2. ASSUME NEW T \in Small(n + 1) PROVE Body(g, T) = Body(h, T)
    <3>1. CASE T = {}
      BY <3>1
    <3>2. CASE T # {}
      <4> DEFINE U == T \ {Pick(T)}
      <4>1. U \in Small(n) /\ U \in Small(n + 1)
        BY <1>1, <3>2
      <4>2. g[U] = Body(g, U) /\ h[U] = Body(g, U)
        BY <2>1, <4>1
      <4> QED
        BY <4>2, <3>2
    <3> QED
      BY <3>1, <3>2
  <2>3. h = [T \in Small(n + 1) |-> Body(h, T)]
    BY <2>2
  <2> HIDE DEF h
  <2>4. P(n + 1)
    BY <2>3
  <2> HIDE DEF P
  <2> QED
    BY <2>4
<1> HIDE DEF N
<1>4. Cardinality(S) \in N
  BY <1>1, <1>2, <1>3, AllNaturals
<1>5. Small(Cardinality(S)) = SUBSET S
  BY <1>1, FS_Subset
<1>6. PICK g : g = [T \in SUBSET S |-> Body(g, T)]
  BY <1>4, <1>5 DEF N
<1> QED
  BY <1>6 DEF Unfolds

(* ... and does not depend on the set in which its subsets are taken.      *)
LEMMA UnfoldingUnique ==
  ASSUME NEW f, NEW S, IsFiniteSet(S), NEW U, S \subseteq U,
         NEW g, Unfolds(f, S, g), NEW h, Unfolds(f, U, h)
  PROVE  g[S] = h[S]
<1> DEFINE G == {T \in SUBSET S : g[T] = h[T]}
<1>1. {} \in G
  BY DEF Unfolds
<1>2. ASSUME NEW T \in SUBSET S, T # {}, T \ {Pick(T)} \in G PROVE T \in G
  <2>1. g[T] = f[Pick(T)] + g[T \ {Pick(T)}]
    BY <1>2 DEF Unfolds
  <2>2. h[T] = f[Pick(T)] + h[T \ {Pick(T)}]
    BY <1>2 DEF Unfolds
  <2> QED
    BY <1>2, <2>1, <2>2
<1> HIDE DEF G
<1>3. S \in G
  BY <1>1, <1>2, AllSubsets
<1> QED
  BY <1>3 DEF G

LEMMA SumStep ==
  ASSUME NEW f, NEW S, IsFiniteSet(S)
  PROVE  SumFunctionOnSet(f, S)
           = IF S = {} THEN 0 ELSE f[Pick(S)] + SumFunctionOnSet(f, S \ {Pick(S)})
<1> DEFINE g == CHOOSE u : Unfolds(f, S, u)
           T == S \ {Pick(S)}
           h == CHOOSE u : Unfolds(f, T, u)
<1>1. IsFiniteSet(T) /\ T \subseteq S
  BY FS_RemoveElement
<1>2. Unfolds(f, S, g) /\ Unfolds(f, T, h)
  BY <1>1, UnfoldingExists
<1>3. SumFunctionOnSet(f, S) = g[S] /\ SumFunctionOnSet(f, T) = h[T]
  BY SumIsUnfolded
<1> HIDE DEF g, h
<1>4. h[T] = g[T]
  BY <1>1, <1>2, UnfoldingUnique
<1>5. g[S] = IF S = {} THEN 0 ELSE f[Pick(S)] + g[T]
  BY <1>2 DEF Unfolds
<1> QED
  BY <1>3, <1>4, <1>5

-----------------------------------------------------------------------------
(* Sums over a finite set.                                                 *)

LEMMA SumOfNothing == ASSUME NEW f PROVE SumFunctionOnSet(f, {}) = 0
  BY SumStep, FS_EmptySet

(* What the summands decide: the type of the sum, and the sum itself.      *)
LEMMA SumType ==
  ASSUME NEW f, NEW S, IsFiniteSet(S), \A x \in S : f[x] \in Int
  PROVE  /\ SumFunctionOnSet(f, S) \in Int
         /\ (\A x \in S : f[x] >= 0) => SumFunctionOnSet(f, S) >= 0
<1> DEFINE G == {T \in SUBSET S :
                   /\ SumFunctionOnSet(f, T) \in Int
                   /\ (\A x \in S : f[x] >= 0) => SumFunctionOnSet(f, T) >= 0}
<1>1. {} \in G
  BY SumOfNothing
<1>2. ASSUME NEW T \in SUBSET S, T # {}, T \ {Pick(T)} \in G PROVE T \in G
  <2>1. IsFiniteSet(T) /\ Pick(T) \in S
    BY <1>2, Picked, FS_Subset
  <2>2. SumFunctionOnSet(f, T) = f[Pick(T)] + SumFunctionOnSet(f, T \ {Pick(T)})
    BY <1>2, <2>1, SumStep
  <2> QED
    BY <1>2, <2>1, <2>2
<1> HIDE DEF G
<1>3. S \in G
  BY <1>1, <1>2, AllSubsets
<1> QED
  BY <1>3 DEF G

(* Sums add up: c = a + b, summand by summand.                             *)
LEMMA SumAdds ==
  ASSUME NEW S, IsFiniteSet(S), NEW a, NEW b, NEW c,
         \A x \in S : a[x] \in Int /\ b[x] \in Int /\ c[x] = a[x] + b[x]
  PROVE  SumFunctionOnSet(c, S) = SumFunctionOnSet(a, S) + SumFunctionOnSet(b, S)
<1> DEFINE G == {T \in SUBSET S :
                   SumFunctionOnSet(c, T) = SumFunctionOnSet(a, T) + SumFunctionOnSet(b, T)}
<1>1. {} \in G
  BY SumOfNothing
<1>2. ASSUME NEW T \in SUBSET S, T # {}, T \ {Pick(T)} \in G PROVE T \in G
  <2> DEFINE U == T \ {Pick(T)}
  <2>1. IsFiniteSet(T) /\ IsFiniteSet(U) /\ Pick(T) \in S
    BY <1>2, Picked, FS_Subset
  <2>2. SumFunctionOnSet(a, U) \in Int /\ SumFunctionOnSet(b, U) \in Int
    BY <2>1, SumType
  <2>3. /\ SumFunctionOnSet(a, T) = a[Pick(T)] + SumFunctionOnSet(a, U)
        /\ SumFunctionOnSet(b, T) = b[Pick(T)] + SumFunctionOnSet(b, U)
        /\ SumFunctionOnSet(c, T) = c[Pick(T)] + SumFunctionOnSet(c, U)
    BY <1>2, <2>1, SumStep
  <2>4. SumFunctionOnSet(c, U) = SumFunctionOnSet(a, U) + SumFunctionOnSet(b, U)
    BY <1>2
  <2> QED
    BY <2>1, <2>2, <2>3, <2>4
<1> HIDE DEF G
<1>3. S \in G
  BY <1>1, <1>2, AllSubsets
<1> QED
  BY <1>3 DEF G

(* One summand changes. *)
LEMMA SumChanges ==
  ASSUME NEW S, IsFiniteSet(S), NEW a, NEW b, NEW i \in S,
         \A x \in S : a[x] \in Int /\ b[x] \in Int,
         \A x \in S : x # i => b[x] = a[x]
  PROVE  SumFunctionOnSet(b, S) = SumFunctionOnSet(a, S) - a[i] + b[i]
<1> DEFINE G == {T \in SUBSET S :
                   SumFunctionOnSet(b, T)
                     = SumFunctionOnSet(a, T) + (IF i \in T THEN b[i] - a[i] ELSE 0)}
<1>1. {} \in G
  BY SumOfNothing
<1>2. ASSUME NEW T \in SUBSET S, T # {}, T \ {Pick(T)} \in G PROVE T \in G
  <2> DEFINE U == T \ {Pick(T)}
  <2>1. IsFiniteSet(T) /\ IsFiniteSet(U) /\ Pick(T) \in T /\ Pick(T) \in S
    BY <1>2, Picked, FS_Subset
  <2>2. SumFunctionOnSet(a, U) \in Int
    BY <2>1, SumType
  <2>3. /\ SumFunctionOnSet(a, T) = a[Pick(T)] + SumFunctionOnSet(a, U)
        /\ SumFunctionOnSet(b, T) = b[Pick(T)] + SumFunctionOnSet(b, U)
    BY <1>2, <2>1, SumStep
  <2>4. SumFunctionOnSet(b, U)
          = SumFunctionOnSet(a, U) + (IF i \in U THEN b[i] - a[i] ELSE 0)
    BY <1>2
  <2>5. CASE i = Pick(T)
    BY <2>1, <2>2, <2>3, <2>4, <2>5
  <2>6. CASE i # Pick(T)
    BY <2>1, <2>2, <2>3, <2>4, <2>6
  <2> QED
    BY <2>5, <2>6
<1> HIDE DEF G
<1>3. S \in G
  BY <1>1, <1>2, AllSubsets
<1>4. SumFunctionOnSet(a, S) \in Int
  BY SumType
<1> QED
  BY <1>3, <1>4 DEF G

(* One term grows from 0 to 1, as when a further worker gets one more.     *)
LEMMA SumGrows ==
  ASSUME NEW S, IsFiniteSet(S), NEW i \in S, NEW a, NEW b, a[i] = 0, b[i] = 1,
         \A x \in S : x # i => b[x] = a[x], \A x \in S : a[x] \in Int /\ b[x] \in Int
  PROVE  SumFunctionOnSet(b, S) = SumFunctionOnSet(a, S) + 1
<1>1. SumFunctionOnSet(b, S) = SumFunctionOnSet(a, S) - a[i] + b[i]
  BY SumChanges
<1>2. SumFunctionOnSet(a, S) \in Int
  BY SumType
<1> QED
  BY <1>1, <1>2

(* The summands are the same.                                              *)
LEMMA SumAgrees ==
  ASSUME NEW S, IsFiniteSet(S), NEW a, NEW b, \A x \in S : a[x] \in Int /\ b[x] = a[x]
  PROVE  SumFunctionOnSet(b, S) = SumFunctionOnSet(a, S)
<1> DEFINE zero == [x \in S |-> 0]
<1>1. SumFunctionOnSet(b, S) = SumFunctionOnSet(a, S) + SumFunctionOnSet(zero, S)
  BY SumAdds
<1>2. SumFunctionOnSet(a, S) = SumFunctionOnSet(a, S) + SumFunctionOnSet(zero, S)
  BY SumAdds
<1>3. SumFunctionOnSet(a, S) \in Int /\ SumFunctionOnSet(zero, S) \in Int
  BY SumType
<1> QED
  BY <1>1, <1>2, <1>3

(* A constant summand. *)
LEMMA SumOfConstant ==
  ASSUME NEW S, IsFiniteSet(S), NEW a, NEW k \in Int, \A x \in S : a[x] = k
  PROVE  SumFunctionOnSet(a, S) = k * Cardinality(S)
<1> DEFINE G == {T \in SUBSET S : SumFunctionOnSet(a, T) = k * Cardinality(T)}
<1>1. {} \in G
  BY SumOfNothing, FS_EmptySet
<1>2. ASSUME NEW T \in SUBSET S, T # {}, T \ {Pick(T)} \in G PROVE T \in G
  <2> DEFINE U == T \ {Pick(T)}
  <2>1. IsFiniteSet(T) /\ Pick(T) \in T /\ Pick(T) \in S
    BY <1>2, Picked, FS_Subset
  <2>2. Cardinality(T) \in Nat /\ Cardinality(U) = Cardinality(T) - 1
    BY <2>1, FS_CardinalityType, FS_RemoveElement
  <2>3. SumFunctionOnSet(a, T) = k + k * (Cardinality(T) - 1)
    BY <1>2, <2>1, <2>2, SumStep
  <2> QED
    BY <2>2, <2>3
<1> HIDE DEF G
<1>3. S \in G
  BY <1>1, <1>2, AllSubsets
<1> QED
  BY <1>3 DEF G

(* A sum of natural numbers is 0 only when all of them are.                *)
LEMMA SumIsNothing ==
  ASSUME NEW S, IsFiniteSet(S), NEW a, \A x \in S : a[x] \in Nat,
         SumFunctionOnSet(a, S) = 0
  PROVE  \A x \in S : a[x] = 0
<1> SUFFICES ASSUME NEW i \in S PROVE a[i] = 0
  OBVIOUS
<1> DEFINE b == [x \in S |-> IF x = i THEN 0 ELSE a[x]]
<1>1. b[i] = 0 /\ \A x \in S : b[x] \in Nat /\ (x # i => b[x] = a[x])
  OBVIOUS
<1> HIDE DEF b
<1>2. SumFunctionOnSet(b, S) = SumFunctionOnSet(a, S) - a[i] + b[i]
  BY <1>1, SumChanges
<1>3. SumFunctionOnSet(b, S) >= 0 /\ SumFunctionOnSet(b, S) \in Int
  BY <1>1, SumType
<1> QED
  BY <1>1, <1>2, <1>3

-----------------------------------------------------------------------------
(* What is dealt to n workers in turn (perWorkerRequests).                 *)

LEMMA Quotient ==
  ASSUME NEW i \in Nat, NEW n \in Nat \ {0}
  PROVE  i = n * (i \div n) + (i % n) /\ i \div n \in Nat /\ i % n \in 0 .. n - 1
OBVIOUS

LEMMA Workers ==
  ASSUME NEW n \in Nat
  PROVE  IsFiniteSet(0 .. n - 1) /\ Cardinality(0 .. n - 1) = n
<1>1. 0 \in Int /\ n - 1 \in Int
  OBVIOUS
<1> QED
  BY <1>1, FS_Interval

(* The first r of them have one more.                                      *)
LEMMA SumOfRemainders ==
  ASSUME NEW n \in Nat, NEW r \in 0 .. n
  PROVE  SumFunctionOnSet([w \in 0 .. n - 1 |-> IF w < r THEN 1 ELSE 0], 0 .. n - 1) = r
<1> DEFINE S == 0 .. n - 1
           More(k) == [w \in S |-> IF w < k THEN 1 ELSE 0]
           G == {k \in Nat : k <= n => SumFunctionOnSet(More(k), S) = k}
<1>1. IsFiniteSet(S) /\ \A k \in Nat : \A w \in S : More(k)[w] \in Int
  BY Workers
<1>2. 0 \in G
  <2>1. \A w \in S : More(0)[w] = 0
    OBVIOUS
  <2>2. SumFunctionOnSet(More(0), S) = 0 * Cardinality(S)
    BY <1>1, <2>1, SumOfConstant
  <2> QED
    BY <2>2, Workers
<1>3. ASSUME NEW k \in Nat, k \in G PROVE k + 1 \in G
  <2> SUFFICES ASSUME k + 1 <= n PROVE SumFunctionOnSet(More(k + 1), S) = k + 1
    OBVIOUS
  <2> DEFINE a == More(k)
             b == More(k + 1)
  <2>1. k \in S /\ a[k] = 0 /\ b[k] = 1 /\ IsFiniteSet(S)
    BY <1>1
  <2>2. \A w \in S : w # k => b[w] = a[w]
    OBVIOUS
  <2>3. \A w \in S : a[w] \in Int /\ b[w] \in Int
    OBVIOUS
  <2>4. SumFunctionOnSet(a, S) = k
    BY <1>3
  <2> HIDE DEF S, a, b
  <2>5. SumFunctionOnSet(b, S) = SumFunctionOnSet(a, S) + 1
    BY <2>1, <2>2, <2>3, SumGrows
  <2>6. SumFunctionOnSet(b, S) = k + 1
    BY <2>4, <2>5
  <2> QED
    BY <2>6 DEF b
<1> HIDE DEF G
<1>4. \A k \in Nat : k \in G
  BY <1>2, <1>3, AllNaturals
<1> QED
  BY <1>4 DEF G

(* The shares of the workers make up the total.                            *)
LEMMA SumOfShares ==
  ASSUME NEW k \in Nat, NEW n \in Nat \ {0}, NEW share,
         \A w \in 0 .. n - 1 : share[w] = k \div n + (IF w < k % n THEN 1 ELSE 0)
  PROVE  SumFunctionOnSet(share, 0 .. n - 1) = k
<1> DEFINE S == 0 .. n - 1
           q == k \div n
           r == k % n
           even == [w \in S |-> q]
           rest == [w \in S |-> IF w < r THEN 1 ELSE 0]
<1>1. q \in Nat /\ r \in S /\ k = n * q + r
  BY Quotient
<1>2. IsFiniteSet(S) /\ Cardinality(S) = n
  BY Workers
<1>3. SumFunctionOnSet(rest, S) = r
  <2>1. r \in 0 .. n
    BY <1>1
  <2> HIDE DEF r
  <2> QED
    BY <2>1, SumOfRemainders
<1>4. \A w \in S : share[w] = even[w] + rest[w]
  OBVIOUS
<1>5. \A w \in S : even[w] \in Int /\ rest[w] \in Int
  BY <1>1
<1>6. \A w \in S : even[w] = q
  OBVIOUS
<1> HIDE DEF S, q, r, even, rest
<1>7. SumFunctionOnSet(even, S) = q * n
  BY <1>1, <1>2, <1>6, SumOfConstant
<1>8. SumFunctionOnSet(share, S) = SumFunctionOnSet(even, S) + SumFunctionOnSet(rest, S)
  <2>1. \A w \in S : even[w] \in Int /\ rest[w] \in Int /\ share[w] = even[w] + rest[w]
    BY <1>4, <1>5
  <2> QED
    BY <1>2, <2>1, SumAdds
<1>9. q * n = n * q
  BY <1>1
<1> QED
  BY <1>1, <1>3, <1>7, <1>8, <1>9 DEF S
=============================================================================
