-------------------------------- MODULE Sums --------------------------------
(***************************************************************************)
(* What SumFunction returns, for the proofs about sums over requests and    *)
(* over the slots of a tracker.  The induction theorems of the library take *)
(* operators; those here take sets.                                         *)
(***************************************************************************)
EXTENDS Integers, FiniteSetsExt, FiniteSetTheorems, WellFoundedInduction, TLAPS

LEMMA CountingUp ==
  ASSUME NEW G, 0 \in G, \A n \in Nat : n \in G => n + 1 \in G
  PROVE  Nat \subseteq G
<1> SUFFICES ASSUME Nat \ G # {} PROVE FALSE
  OBVIOUS
<1>1. PICK n \in Nat \ G : \A m \in Nat \ G : <<m, n>> \notin OpToRel(<, Nat)
  BY NatLessThanWellFounded, WFMin, Nat \ G \subseteq Nat
<1>2. n # 0 /\ n \in Nat
  OBVIOUS
<1>3. n - 1 \in Nat /\ n - 1 < n
  BY <1>2
<1>4. <<n - 1, n>> \in OpToRel(<, Nat)
  BY <1>2, <1>3 DEF OpToRel
<1>5. n - 1 \in G
  BY <1>1, <1>3, <1>4
<1> QED
  BY <1>2, <1>3, <1>5

LEMMA Sizes ==
  ASSUME NEW S, IsFiniteSet(S), NEW T \in SUBSET S
  PROVE  /\ IsFiniteSet(T) /\ Cardinality(T) \in Nat /\ Cardinality(T) <= Cardinality(S)
         /\ Cardinality(T) = 0 <=> T = {}
         /\ \A x \in T : Cardinality(T \ {x}) = Cardinality(T) - 1
<1>1. IsFiniteSet(T) /\ Cardinality(T) <= Cardinality(S)
  BY FS_Subset
<1> QED
  BY <1>1, FS_CardinalityType, FS_EmptySet, FS_RemoveElement

LEMMA GrowingSubsets ==
  ASSUME NEW S, IsFiniteSet(S), NEW G, {} \in G,
         \A T \in SUBSET S : T # {} /\ (\A x \in T : T \ {x} \in G) => T \in G
  PROVE  SUBSET S \subseteq G
<1> DEFINE Fits == {n \in Nat : \A T \in SUBSET S : Cardinality(T) = n => T \in G}
<1>1. \A T \in SUBSET S : Cardinality(T) \in Nat /\ (Cardinality(T) = 0 => T = {})
  BY Sizes
<1>2. 0 \in Fits
  BY <1>1
<1>3. ASSUME NEW n \in Nat, n \in Fits PROVE n + 1 \in Fits
  <2> SUFFICES ASSUME NEW T \in SUBSET S, Cardinality(T) = n + 1 PROVE T \in G
    OBVIOUS
  <2>1. T # {}
    BY Sizes
  <2>2. \A x \in T : Cardinality(T \ {x}) = n /\ T \ {x} \in SUBSET S
    BY <1>1, <2>1, Sizes
  <2> QED
    BY <1>3, <2>1, <2>2
<1>4. Nat \subseteq Fits
  <2> HIDE DEF Fits
  <2> QED BY <1>2, <1>3, CountingUp
<1> QED
  BY <1>1, <1>4

-----------------------------------------------------------------------------
(* The sums of f over the subsets of its domain. *)
Summing(g, f) ==
  g = [T \in SUBSET DOMAIN f |->
         IF T = {} THEN 0 ELSE LET x == CHOOSE x \in T : TRUE IN f[x] + g[T \ {x}]]
Part(f) == CHOOSE g : Summing(g, f)

LEMMA SumIsWholePart == ASSUME NEW f PROVE SumFunction(f) = Part(f)[DOMAIN f]
BY DEF SumFunction, SumFunctionOnSet, FoldFunctionOnSet, MapThenFoldSet, Part, Summing

(* The recursion of MapThenFoldSet is well founded on a finite set. *)
LEMMA PartIsSumming ==
  ASSUME NEW S, IsFiniteSet(S), NEW f \in [S -> Int]
  PROVE  /\ Part(f) \in [SUBSET S -> Int]
         /\ Part(f)[{}] = 0
         /\ \A T \in SUBSET S : T # {} =>
              LET x == CHOOSE x \in T : TRUE IN Part(f)[T] = f[x] + Part(f)[T \ {x}]
<1> DEFINE UpTo(n) == {T \in SUBSET S : Cardinality(T) <= n}
           Next(g, T) == IF T = {} THEN 0 ELSE f[CHOOSE x \in T : TRUE] + g[T \ {CHOOSE x \in T : TRUE}]
           Fits == {n \in Nat : \E g \in [UpTo(n) -> Int] : \A T \in UpTo(n) : g[T] = Next(g, T)}
<1>1. \A T \in SUBSET S : IsFiniteSet(T) /\ Cardinality(T) \in Nat /\ (Cardinality(T) = 0 => T = {})
  BY Sizes
<1>2. 0 \in Fits
  <2> DEFINE g == [T \in UpTo(0) |-> 0]
  <2>1. \A T \in UpTo(0) : T = {}
    BY <1>1
  <2>2. g \in [UpTo(0) -> Int] /\ \A T \in UpTo(0) : g[T] = Next(g, T)
    BY <2>1
  <2> QED BY <2>2
<1>3. ASSUME NEW n \in Nat, n \in Fits PROVE n + 1 \in Fits
  <2>1. PICK g \in [UpTo(n) -> Int] : \A T \in UpTo(n) : g[T] = Next(g, T)
    BY <1>3
  <2> DEFINE h == [T \in UpTo(n + 1) |-> Next(g, T)]
  <2>2. \A T \in UpTo(n + 1) : T # {} =>
          (CHOOSE x \in T : TRUE) \in T /\ T \ {CHOOSE x \in T : TRUE} \in UpTo(n)
    BY <1>1, Sizes
  <2>3. \A T \in UpTo(n) : T \in UpTo(n + 1) /\ h[T] = g[T]
    BY <1>1, <2>1
  <2>4. \A T \in UpTo(n + 1) : Next(g, T) \in Int /\ Next(h, T) = Next(g, T)
    <3> HIDE DEF h, UpTo
    <3> SUFFICES ASSUME NEW T \in UpTo(n + 1), T # {}
                 PROVE  Next(g, T) \in Int /\ Next(h, T) = Next(g, T)
      OBVIOUS
    <3> DEFINE x == CHOOSE x \in T : TRUE
    <3>1. x \in T /\ T \ {x} \in UpTo(n) /\ h[T \ {x}] = g[T \ {x}] /\ g[T \ {x}] \in Int
      BY <2>2, <2>3
    <3>2. x \in S
      BY <3>1 DEF UpTo
    <3> QED BY <3>1, <3>2
  <2>5. h \in [UpTo(n + 1) -> Int] /\ \A T \in UpTo(n + 1) : h[T] = Next(h, T)
    <3> HIDE DEF UpTo, Next
    <3> QED BY <2>4
  <2> QED
    <3> HIDE DEF h, UpTo, Next
    <3> QED BY <2>5
<1>4. Cardinality(S) \in Nat /\ UpTo(Cardinality(S)) = SUBSET S
  BY FS_CardinalityType, Sizes
<1>5. Nat \subseteq Fits
  <2> HIDE DEF Fits
  <2> QED BY <1>2, <1>3, CountingUp
<1>6. PICK g \in [SUBSET S -> Int] : \A T \in SUBSET S : g[T] = Next(g, T)
  <2> HIDE DEF UpTo, Next
  <2> QED BY <1>4, <1>5
<1>7. Summing(g, f)
  BY <1>6 DEF Summing
<1>8. Summing(Part(f), f)
  BY <1>7 DEF Part
<1>9. \A T \in SUBSET S : Part(f)[T] = Next(Part(f), T)
  BY <1>8 DEF Summing
<1>10. Part(f) \in [SUBSET S -> Int]
  <2> DEFINE G == {T \in SUBSET S : Part(f)[T] \in Int}
  <2>1. {} \in G
    <3>1. {} \in SUBSET S /\ Part(f)[{}] = 0
      BY <1>9
    <3> QED BY <3>1
  <2>2. ASSUME NEW T \in SUBSET S, T # {}, \A x \in T : T \ {x} \in G
        PROVE  T \in G
    <3> DEFINE x == CHOOSE x \in T : TRUE
    <3>1. x \in T /\ x \in S
      BY <2>2
    <3>2. Part(f)[T \ {x}] \in Int /\ f[x] \in Int
      BY <2>2, <3>1
    <3>3. Part(f)[T] = f[x] + Part(f)[T \ {x}]
      BY <1>9, <2>2
    <3> QED BY <3>2, <3>3
  <2>3. SUBSET S \subseteq G
    <3> HIDE DEF G
    <3> QED BY <2>1, <2>2, GrowingSubsets
  <2>4. Part(f) = [T \in SUBSET S |-> Part(f)[T]]
    BY <1>8 DEF Summing
  <2> QED BY <2>3, <2>4
<1> QED
  BY <1>9, <1>10

-----------------------------------------------------------------------------
LEMMA SumOfSums ==
  ASSUME NEW S, IsFiniteSet(S), NEW f \in [S -> Int], NEW h \in [S -> Int]
  PROVE  SumFunction([s \in S |-> f[s] + h[s]]) = SumFunction(f) + SumFunction(h)
<1> DEFINE k == [s \in S |-> f[s] + h[s]]
           G == {T \in SUBSET S : Part(k)[T] = Part(f)[T] + Part(h)[T]}
<1>1. k \in [S -> Int] /\ \A s \in S : k[s] = f[s] + h[s]
  OBVIOUS
<1>2. DOMAIN f = S /\ DOMAIN h = S /\ DOMAIN k = S
  OBVIOUS
<1> HIDE DEF k
<1>3. {} \in G
  <2>1. Part(k)[{}] = 0 /\ Part(f)[{}] = 0 /\ Part(h)[{}] = 0
    BY <1>1, PartIsSumming
  <2> QED BY <2>1
<1>4. ASSUME NEW T \in SUBSET S, T # {}, \A x \in T : T \ {x} \in G
      PROVE  T \in G
  <2> DEFINE x == CHOOSE x \in T : TRUE
             U == T \ {x}
  <2>1. x \in T /\ x \in S /\ U \in SUBSET S
    BY <1>4
  <2>2. /\ Part(k)[T] = k[x] + Part(k)[U]
        /\ Part(f)[T] = f[x] + Part(f)[U]
        /\ Part(h)[T] = h[x] + Part(h)[U]
    BY <1>1, <1>4, PartIsSumming
  <2>3. Part(k)[U] = Part(f)[U] + Part(h)[U] /\ k[x] = f[x] + h[x]
    BY <1>1, <1>4, <2>1
  <2>4. Part(f)[U] \in Int /\ Part(h)[U] \in Int /\ f[x] \in Int /\ h[x] \in Int
    <3>1. Part(f) \in [SUBSET S -> Int] /\ Part(h) \in [SUBSET S -> Int]
      BY PartIsSumming
    <3> QED BY <2>1, <3>1
  <2> HIDE DEF x, U
  <2>5. Part(k)[T] = Part(f)[T] + Part(h)[T]
    BY <2>2, <2>3, <2>4
  <2> QED BY <2>5
<1>5. SUBSET S \subseteq G
  <2> HIDE DEF G
  <2> QED BY <1>3, <1>4, GrowingSubsets
<1>6. Part(k)[S] = Part(f)[S] + Part(h)[S]
  BY <1>5
<1> QED
  BY <1>2, <1>6, SumIsWholePart DEF k

LEMMA SumOfNats ==
  ASSUME NEW S, IsFiniteSet(S), NEW f \in [S -> Nat]
  PROVE  SumFunction(f) \in Nat
<1> DEFINE G == {T \in SUBSET S : Part(f)[T] \in Nat}
<1>1. f \in [S -> Int] /\ DOMAIN f = S
  OBVIOUS
<1>2. {} \in G
  <2>1. Part(f)[{}] = 0
    BY <1>1, PartIsSumming
  <2> QED BY <2>1
<1>3. ASSUME NEW T \in SUBSET S, T # {}, \A x \in T : T \ {x} \in G
      PROVE  T \in G
  <2> DEFINE x == CHOOSE x \in T : TRUE
  <2>1. x \in T /\ f[x] \in Nat /\ Part(f)[T \ {x}] \in Nat
    BY <1>3
  <2>2. Part(f)[T] = f[x] + Part(f)[T \ {x}]
    BY <1>1, <1>3, PartIsSumming
  <2> QED BY <2>1, <2>2
<1>4. SUBSET S \subseteq G
  <2> HIDE DEF G
  <2> QED BY <1>2, <1>3, GrowingSubsets
<1> QED
  BY <1>1, <1>4, SumIsWholePart

LEMMA SumOfInts ==
  ASSUME NEW S, IsFiniteSet(S), NEW f \in [S -> Int]
  PROVE  SumFunction(f) \in Int
<1>1. DOMAIN f = S /\ S \in SUBSET S
  OBVIOUS
<1>2. Part(f) \in [SUBSET S -> Int]
  BY PartIsSumming
<1> QED
  BY <1>1, <1>2, SumIsWholePart

LEMMA SumOfOne ==
  ASSUME NEW S, IsFiniteSet(S), NEW f \in [S -> Int], NEW s \in S,
         \A t \in S : t # s => f[t] = 0
  PROVE  SumFunction(f) = f[s]
<1> DEFINE G == {T \in SUBSET S : Part(f)[T] = IF s \in T THEN f[s] ELSE 0}
<1>1. DOMAIN f = S
  OBVIOUS
<1>2. {} \in G
  BY PartIsSumming
<1>3. ASSUME NEW T \in SUBSET S, T # {}, \A x \in T : T \ {x} \in G
      PROVE  T \in G
  <2> DEFINE x == CHOOSE x \in T : TRUE
             U == T \ {x}
  <2>1. x \in T /\ x \in S /\ f[x] \in Int /\ f[s] \in Int
    BY <1>3
  <2>2. Part(f)[U] = IF s \in U THEN f[s] ELSE 0
    BY <1>3, <2>1
  <2>3. Part(f)[T] = f[x] + Part(f)[U]
    BY <1>3, PartIsSumming
  <2>4. CASE x = s
    <3>1. s \in T /\ s \notin U
      BY <2>1, <2>4
    <3>2. Part(f)[T] = f[s] + 0
      BY <2>2, <2>3, <2>4, <3>1
    <3> QED BY <2>1, <3>1, <3>2
  <2>5. CASE x # s
    BY <2>1, <2>2, <2>3, <2>5
  <2> QED BY <2>4, <2>5
<1>4. SUBSET S \subseteq G
  <2> HIDE DEF G
  <2> QED BY <1>2, <1>3, GrowingSubsets
<1> QED
  BY <1>1, <1>4, SumIsWholePart

LEMMA SumOfNothing ==
  ASSUME NEW S, IsFiniteSet(S), NEW f \in [S -> Int], \A s \in S : f[s] = 0
  PROVE  SumFunction(f) = 0
<1>1. CASE S = {}
  <2>1. DOMAIN f = {} /\ {} \in SUBSET S
    BY <1>1
  <2> QED BY <2>1, PartIsSumming, SumIsWholePart
<1>2. CASE S # {}
  <2>1. PICK s \in S : TRUE
    BY <1>2
  <2>2. SumFunction(f) = f[s]
    BY SumOfOne
  <2> QED BY <2>1, <2>2
<1> QED
  BY <1>1, <1>2

(* A sum moves with the one value that changes, *)
LEMMA SumChanges ==
  ASSUME NEW S, IsFiniteSet(S), NEW f \in [S -> Int], NEW h \in [S -> Int], NEW s \in S,
         \A t \in S : t # s => h[t] = f[t]
  PROVE  SumFunction(h) = SumFunction(f) + (h[s] - f[s])
<1> DEFINE d == [t \in S |-> h[t] - f[t]]
<1>1. d \in [S -> Int] /\ d[s] = h[s] - f[s] /\ \A t \in S : t # s => d[t] = 0
  OBVIOUS
<1>2. h = [t \in S |-> f[t] + d[t]]
  OBVIOUS
<1> HIDE DEF d
<1>3. SumFunction(d) = d[s]
  BY <1>1, SumOfOne
<1>4. SumFunction([t \in S |-> f[t] + d[t]]) = SumFunction(f) + SumFunction(d)
  BY <1>1, SumOfSums
<1> QED
  BY <1>1, <1>2, <1>3, <1>4

(* and keeps the order of its functions. *)
LEMMA SumGrows ==
  ASSUME NEW S, IsFiniteSet(S), NEW f \in [S -> Int], NEW h \in [S -> Int],
         \A s \in S : f[s] <= h[s]
  PROVE  SumFunction(f) <= SumFunction(h)
<1> DEFINE d == [t \in S |-> h[t] - f[t]]
<1>1. d \in [S -> Nat] /\ d \in [S -> Int]
  OBVIOUS
<1>2. h = [t \in S |-> f[t] + d[t]]
  OBVIOUS
<1> HIDE DEF d
<1>3. SumFunction(d) \in Nat /\ SumFunction(f) \in Int
  BY <1>1, SumOfNats, SumOfInts
<1>4. SumFunction([t \in S |-> f[t] + d[t]]) = SumFunction(f) + SumFunction(d)
  BY <1>1, SumOfSums
<1> QED
  BY <1>2, <1>3, <1>4
=============================================================================
