----------------------------- MODULE MoneyProofs -----------------------------
(***************************************************************************)
(* Where the amounts are: what a run of the bucket strategy keeps, for any *)
(* universe, any buckets, slots and weights, any ranking and any setting   *)
(* of the parameters; and the books of the backtest, for any signals,      *)
(* prices and calendar.                                                    *)
(***************************************************************************)
EXTENDS Buckets, Backtest, WellFoundedInduction, FiniteSetTheorems, TLAPS

-----------------------------------------------------------------------------
(* Sums over finite sets, which the definition of Total takes apart one     *)
(* element at a time. *)

\* There is a well-founded relation that has every pair of ascending numbers.
LEMMA LessThan ==
  \E R : IsWellFoundedOn(R, Nat) /\ \A x, y \in Nat : x < y => <<x, y>> \in R
<1>1. \A x, y \in Nat : x < y => <<x, y>> \in OpToRel(<, Nat)
  BY Zenon DEF OpToRel
<1>. QED  BY <1>1, NatLessThanWellFounded, Zenon

\* Some elements have a minimal one under a well-founded relation.
LEMMA HasMinimal ==
  \A R, S, T : IsWellFoundedOn(R, S) /\ T \subseteq S /\ T # {}
                 => \E x \in T : \A y \in T : <<y, x>> \notin R
  BY WFMin, Zenon

\* Some natural numbers have a least one.
LEMMA NatHasLeast ==
  ASSUME NEW T, T \subseteq Nat, T # {}
  PROVE  \E m \in T : \A n \in T : m <= n
<1>1. PICK R : IsWellFoundedOn(R, Nat) /\ \A x, y \in Nat : x < y => <<x, y>> \in R
  BY LessThan
<1>2. IsWellFoundedOn(R, Nat)
  BY <1>1
<1>3. \E x \in T : \A y \in T : <<y, x>> \notin R
  BY <1>2, HasMinimal, Zenon
<1>4. PICK x \in T : \A y \in T : <<y, x>> \notin R
  BY <1>3
<1>5. ASSUME NEW y \in T
      PROVE  x <= y
  <2>1. x \in Nat /\ y \in Nat /\ ~(y < x)
    BY <1>1, <1>4
  <2>. QED  BY <2>1
<1>. QED  BY <1>5

\* The element that Total takes next.
Any(S) == CHOOSE x \in S : TRUE

\* A subset of a finite set has a size, which is one less without any of its elements.
LEMMA Sizes ==
  ASSUME NEW D, IsFiniteSet(D), NEW S \in SUBSET D
  PROVE  /\ IsFiniteSet(S) /\ Cardinality(S) \in Nat /\ Cardinality(S) <= Cardinality(D)
         /\ Cardinality(D) \in Nat
         /\ Cardinality(S) = 0 <=> S = {}
         /\ \A x \in S : /\ S \ {x} \in SUBSET D
                         /\ Cardinality(S \ {x}) = Cardinality(S) - 1
<1>1. IsFiniteSet(S) /\ Cardinality(S) <= Cardinality(D)
  BY FS_Subset
<1>2. Cardinality(S) \in Nat /\ Cardinality(D) \in Nat
  BY <1>1, FS_CardinalityType
<1>3. Cardinality(S) = 0 <=> S = {}
  BY <1>1, FS_EmptySet
<1>4. \A x \in S : Cardinality(S \ {x}) = Cardinality(S) - 1
  BY <1>1, FS_RemoveElement
<1>. QED  BY <1>1, <1>2, <1>3, <1>4

\* What is true of the empty set, and of a set when it is true of the set without the
\* element that Total takes next, is true of all subsets of a finite set.
LEMMA SubsetInduction ==
  ASSUME NEW D, IsFiniteSet(D), NEW Good, {} \in Good,
         \A S \in SUBSET D : S # {} /\ S \ {Any(S)} \in Good => S \in Good
  PROVE  SUBSET D \subseteq Good
<1> DEFINE Bad == {S \in SUBSET D : S \notin Good}
           Card == {Cardinality(S) : S \in Bad}
<1> SUFFICES ASSUME Bad # {} PROVE FALSE
  OBVIOUS
<1>1. Card \subseteq Nat /\ Card # {}
  BY Sizes
<1>2. PICK k \in Card : \A n \in Card : k <= n
  <2> HIDE DEF Card
  <2>. QED  BY <1>1, NatHasLeast
<1>3. PICK S \in Bad : k = Cardinality(S)
  OBVIOUS
<1>4. S \in SUBSET D /\ S \notin Good /\ S # {} /\ k \in Nat
  BY <1>1, <1>2, <1>3
<1>5. Any(S) \in S
  BY <1>4 DEF Any
<1>6. S \ {Any(S)} \in SUBSET D /\ Cardinality(S \ {Any(S)}) = k - 1
  BY <1>3, <1>4, <1>5, Sizes
<1>7. S \ {Any(S)} \notin Bad
  <2>1. ASSUME S \ {Any(S)} \in Bad PROVE FALSE
    <3>1. k - 1 \in Card
      BY <1>6, <2>1
    <3>2. k <= k - 1
      BY <1>2, <3>1
    <3>. QED  BY <1>4, <3>2
  <2>. QED  BY <2>1
<1>. QED  BY <1>4, <1>6, <1>7

\* The sums of f over the subsets of its domain, given the sums over smaller ones:
\* Total's own recursion.
Sums(f, g) ==
  [S \in SUBSET DOMAIN f |->
     IF S = {} THEN 0 ELSE LET x == CHOOSE x \in S : TRUE IN f[x] + g[S \ {x}]]

Sigma(f) == CHOOSE g : g = Sums(f, g)

\* There is a function that it defines.
LEMMA SumsExist ==
  ASSUME NEW f, IsFiniteSet(DOMAIN f)
  PROVE  \E g : g = Sums(f, g)
<1> DEFINE D == DOMAIN f
           Upto(k) == {S \in SUBSET D : Cardinality(S) <= k}
           Step(g, S) == IF S = {} THEN 0 ELSE f[Any(S)] + g[S \ {Any(S)}]
           P(k) == \E g : g = [S \in Upto(k) |-> Step(g, S)]
           n == Cardinality(D)
           Bad == {k \in 0..n : ~P(k)}
<1>0. n \in Nat /\ \A S \in SUBSET D : Cardinality(S) \in Nat /\ Cardinality(S) <= n
  BY Sizes
<1>1. P(0)
  <2> DEFINE g == [S \in Upto(0) |-> 0]
  <2>1. \A S \in Upto(0) : S = {}
    <3>1. TAKE S \in Upto(0)
    <3>2. S \in SUBSET D /\ Cardinality(S) <= 0 /\ Cardinality(S) \in Nat
      BY <1>0
    <3>3. Cardinality(S) = 0
      BY <3>2
    <3>. QED  BY <3>2, <3>3, Sizes
  <2>2. g = [S \in Upto(0) |-> Step(g, S)]
    BY <2>1
  <2>. QED  BY <2>2
<1>2. ASSUME NEW k \in Nat \ {0}, P(k - 1) PROVE P(k)
  <2>1. PICK g : g = [S \in Upto(k - 1) |-> Step(g, S)]
    BY <1>2
  <2> DEFINE h == [S \in Upto(k) |-> Step(g, S)]
  <2>2. ASSUME NEW S \in Upto(k - 1) PROVE S \in Upto(k) /\ h[S] = g[S]
    <3>1. S \in Upto(k)
      <4>1. S \in SUBSET D /\ Cardinality(S) <= k - 1 /\ Cardinality(S) \in Nat
        BY <1>0
      <4>2. Cardinality(S) <= k
        BY <4>1
      <4>. QED  BY <4>1, <4>2
    <3>2. h[S] = Step(g, S)
      <4> HIDE DEF Step, Upto
      <4>. QED  BY <3>1
    <3>3. g[S] = Step(g, S)
      <4> HIDE DEF Step, Upto
      <4>. QED  BY <2>1
    <3>. QED  BY <3>1, <3>2, <3>3
  <2>3. ASSUME NEW S \in Upto(k) PROVE Step(g, S) = Step(h, S)
    <3>1. CASE S = {}
      BY <3>1
    <3>2. CASE S # {}
      <4>1. Any(S) \in S
        BY <3>2 DEF Any
      <4>2. S \in SUBSET D /\ Cardinality(S) <= k /\ Cardinality(S) \in Nat
        BY <1>0
      <4>3. S \ {Any(S)} \in SUBSET D /\ Cardinality(S \ {Any(S)}) = Cardinality(S) - 1
        BY <4>1, <4>2, Sizes
      <4>4. Cardinality(S \ {Any(S)}) <= k - 1
        BY <4>2, <4>3
      <4>5. S \ {Any(S)} \in Upto(k - 1)
        BY <4>3, <4>4
      <4>6. h[S \ {Any(S)}] = g[S \ {Any(S)}]
        <5> HIDE DEF h, Upto
        <5>. QED  BY <2>2, <4>5
      <4> HIDE DEF h
      <4>. QED  BY <3>2, <4>6
    <3>. QED  BY <3>1, <3>2
  <2>4. h = [S \in Upto(k) |-> Step(h, S)]
    <3>1. h = [S \in Upto(k) |-> h[S]] /\ \A S \in Upto(k) : h[S] = Step(g, S)
      <4> HIDE DEF Step, Upto
      <4>. QED  OBVIOUS
    <3> HIDE DEF h, Step, Upto
    <3>. QED  BY <2>3, <3>1
  <2>. QED  BY <2>4
<1> HIDE DEF P
<1>3. Bad = {}
  <2>0. Bad \subseteq Nat
    OBVIOUS
  <2>1. ASSUME Bad # {} PROVE FALSE
    <3>1. PICK k \in Bad : \A j \in Bad : k <= j
      <4> HIDE DEF Bad
      <4>. QED  BY <2>0, <2>1, NatHasLeast
    <3>2. k \in 0..n /\ ~P(k)
      OBVIOUS
    <3>3. k \in Nat \ {0}
      BY <1>0, <1>1, <3>2
    <3>4. k - 1 \in 0..n /\ k - 1 \notin Bad
      <4> HIDE DEF Bad, n
      <4>. QED  BY <1>0, <3>1, <3>2, <3>3
    <3>5. P(k - 1)
      BY <3>4
    <3>. QED  BY <1>2, <3>2, <3>3, <3>5
  <2>. QED  BY <2>1
<1>4. P(n)
  <2>1. n \in 0..n
    <3> HIDE DEF n
    <3>. QED  BY <1>0
  <2>. QED  BY <1>3, <2>1
<1>5. PICK g : g = [S \in Upto(n) |-> Step(g, S)]
  BY <1>4 DEF P
<1>6. Upto(n) = SUBSET D
  <2> HIDE DEF n
  <2>. QED  BY <1>0
<1>7. g = [S \in SUBSET D |-> Step(g, S)]
  <2> HIDE DEF Step, Upto
  <2>. QED  BY <1>5, <1>6
<1>. QED  BY <1>7 DEF Sums, Any

\* Total adds up, whichever element comes next.
LEMMA SigmaIs ==
  ASSUME NEW f, IsFiniteSet(DOMAIN f)
  PROVE  /\ Total(f) = Sigma(f)[DOMAIN f]
         /\ Sigma(f)[{}] = 0
         /\ \A S \in SUBSET DOMAIN f : S # {} =>
              /\ Any(S) \in S /\ S \ {Any(S)} \in SUBSET DOMAIN f
              /\ Sigma(f)[S] = f[Any(S)] + Sigma(f)[S \ {Any(S)}]
<1>1. Total(f) = Sigma(f)[DOMAIN f]
  BY DEF Total, Sigma, Sums
<1>2. Sigma(f) = Sums(f, Sigma(f))
  BY SumsExist DEF Sigma
<1>3. \A S \in SUBSET DOMAIN f :
        Sigma(f)[S] = IF S = {} THEN 0 ELSE f[Any(S)] + Sigma(f)[S \ {Any(S)}]
  <2>1. PICK g : g = Sigma(f)
    OBVIOUS
  <2>2. g = Sums(f, g)
    BY <1>2, <2>1
  <2>3. \A S \in SUBSET DOMAIN f :
          g[S] = IF S = {} THEN 0 ELSE f[Any(S)] + g[S \ {Any(S)}]
    BY <2>2 DEF Sums, Any
  <2>. QED  BY <2>1, <2>3
<1>4. \A S : S # {} => Any(S) \in S
  BY DEF Any
<1>. QED  BY <1>1, <1>3, <1>4

\* Sums of whole numbers are whole numbers, ...
LEMMA SumInt ==
  ASSUME NEW D, IsFiniteSet(D), NEW f \in [D -> Int]
  PROVE  \A S \in SUBSET D : Sigma(f)[S] \in Int
<1> DEFINE Good == {S \in SUBSET D : Sigma(f)[S] \in Int}
<1>1. DOMAIN f = D
  OBVIOUS
<1>2. {} \in Good
  BY <1>1, SigmaIs
<1>3. ASSUME NEW S \in SUBSET D, S # {}, S \ {Any(S)} \in Good PROVE S \in Good
  <2>1. Any(S) \in D /\ Sigma(f)[S] = f[Any(S)] + Sigma(f)[S \ {Any(S)}]
    BY <1>1, <1>3, SigmaIs
  <2>. QED  BY <1>3, <2>1
<1>4. SUBSET D \subseteq Good
  <2> HIDE DEF Good
  <2>. QED  BY <1>2, <1>3, SubsetInduction
<1>. QED  BY <1>4

\* ... of natural numbers natural numbers.
LEMMA SumNat ==
  ASSUME NEW D, IsFiniteSet(D), NEW f \in [D -> Nat]
  PROVE  \A S \in SUBSET D : Sigma(f)[S] \in Nat
<1> DEFINE Good == {S \in SUBSET D : Sigma(f)[S] \in Nat}
<1>1. DOMAIN f = D
  OBVIOUS
<1>2. {} \in Good
  BY <1>1, SigmaIs
<1>3. ASSUME NEW S \in SUBSET D, S # {}, S \ {Any(S)} \in Good PROVE S \in Good
  <2>1. Any(S) \in D /\ Sigma(f)[S] = f[Any(S)] + Sigma(f)[S \ {Any(S)}]
    BY <1>1, <1>3, SigmaIs
  <2>. QED  BY <1>3, <2>1
<1>4. SUBSET D \subseteq Good
  <2> HIDE DEF Good
  <2>. QED  BY <1>2, <1>3, SubsetInduction
<1>. QED  BY <1>4

\* Total is one of them.
LEMMA TotalTyped ==
  ASSUME NEW D, IsFiniteSet(D), NEW f \in [D -> Int]
  PROVE  /\ Total(f) = Sigma(f)[D] /\ Total(f) \in Int
         /\ f \in [D -> Nat] => Total(f) \in Nat
<1>1. Total(f) = Sigma(f)[D]
  BY SigmaIs
<1>2. D \in SUBSET D
  OBVIOUS
<1>3. Sigma(f)[D] \in Int
  BY <1>2, SumInt
<1>4. f \in [D -> Nat] => Sigma(f)[D] \in Nat
  BY <1>2, SumNat
<1>. QED  BY <1>1, <1>3, <1>4

\* Added up element by element, two sums make the sum.
LEMMA TotalPlus ==
  ASSUME NEW D, IsFiniteSet(D), NEW f \in [D -> Int], NEW g \in [D -> Int], NEW h \in [D -> Int],
         \A x \in D : h[x] = f[x] + g[x]
  PROVE  Total(h) = Total(f) + Total(g)
<1> DEFINE Good == {S \in SUBSET D : Sigma(h)[S] = Sigma(f)[S] + Sigma(g)[S]}
<1>1. DOMAIN f = D /\ DOMAIN g = D /\ DOMAIN h = D
  OBVIOUS
<1>2. {} \in Good
  BY <1>1, SigmaIs
<1>3. ASSUME NEW S \in SUBSET D, S # {}, S \ {Any(S)} \in Good PROVE S \in Good
  <2>1. /\ Any(S) \in D /\ S \ {Any(S)} \in SUBSET D
        /\ Sigma(f)[S] = f[Any(S)] + Sigma(f)[S \ {Any(S)}]
        /\ Sigma(g)[S] = g[Any(S)] + Sigma(g)[S \ {Any(S)}]
        /\ Sigma(h)[S] = h[Any(S)] + Sigma(h)[S \ {Any(S)}]
    BY <1>1, <1>3, SigmaIs
  <2>2. Sigma(f)[S \ {Any(S)}] \in Int /\ Sigma(g)[S \ {Any(S)}] \in Int
    BY <2>1, SumInt
  <2>3. Sigma(h)[S \ {Any(S)}] = Sigma(f)[S \ {Any(S)}] + Sigma(g)[S \ {Any(S)}]
    BY <1>3
  <2>4. f[Any(S)] \in Int /\ g[Any(S)] \in Int /\ h[Any(S)] = f[Any(S)] + g[Any(S)]
    BY <2>1
  <2>5. Sigma(h)[S] = Sigma(f)[S] + Sigma(g)[S]
    BY <2>1, <2>2, <2>3, <2>4
  <2>. QED  BY <2>5
<1>4. SUBSET D \subseteq Good
  <2> HIDE DEF Good
  <2>. QED  BY <1>2, <1>3, SubsetInduction
<1>5. D \in SUBSET D
  OBVIOUS
<1>. QED  BY <1>4, <1>5, TotalTyped

\* The larger the numbers, the larger the sum.
LEMMA TotalMonotone ==
  ASSUME NEW D, IsFiniteSet(D), NEW f \in [D -> Int], NEW g \in [D -> Int],
         \A x \in D : f[x] <= g[x]
  PROVE  Total(f) <= Total(g)
<1> DEFINE h == [x \in D |-> g[x] - f[x]]
<1>1. \A x \in D : f[x] \in Int /\ g[x] \in Int /\ g[x] - f[x] \in Nat /\ g[x] = f[x] + (g[x] - f[x])
  <2>1. TAKE x \in D
  <2>2. f[x] \in Int /\ g[x] \in Int /\ f[x] <= g[x]
    OBVIOUS
  <2>. QED  BY <2>2
<1>2. h \in [D -> Nat] /\ \A x \in D : g[x] = f[x] + h[x]
  BY <1>1
<1> HIDE DEF h
<1>3. h \in [D -> Int]
  BY <1>2
<1>4. Total(g) = Total(f) + Total(h)
  BY <1>2, <1>3, TotalPlus
<1>6. Total(h) \in Nat
  BY <1>2, <1>3, TotalTyped
<1>5. Total(f) \in Int
  BY TotalTyped
<1>. QED  BY <1>4, <1>5, <1>6

\* A factor of all numbers is one of the sum.
LEMMA TotalScaled ==
  ASSUME NEW D, IsFiniteSet(D), NEW f \in [D -> Int], NEW g \in [D -> Int], NEW c \in Int,
         \A x \in D : g[x] = f[x] * c
  PROVE  Total(g) = Total(f) * c
<1> DEFINE Good == {S \in SUBSET D : Sigma(g)[S] = Sigma(f)[S] * c}
<1>1. DOMAIN f = D /\ DOMAIN g = D
  OBVIOUS
<1>2. {} \in Good
  <2>1. Sigma(f)[{}] = 0 /\ Sigma(g)[{}] = 0
    BY <1>1, SigmaIs
  <2>2. 0 * c = 0
    OBVIOUS
  <2>. QED  BY <2>1, <2>2
<1>3. ASSUME NEW S \in SUBSET D, S # {}, S \ {Any(S)} \in Good PROVE S \in Good
  <2>1. /\ Any(S) \in D /\ S \ {Any(S)} \in SUBSET D
        /\ Sigma(f)[S] = f[Any(S)] + Sigma(f)[S \ {Any(S)}]
        /\ Sigma(g)[S] = g[Any(S)] + Sigma(g)[S \ {Any(S)}]
    BY <1>1, <1>3, SigmaIs
  <2>2. Sigma(f)[S \ {Any(S)}] \in Int
    BY <2>1, SumInt
  <2>3. Sigma(g)[S \ {Any(S)}] = Sigma(f)[S \ {Any(S)}] * c
    BY <1>3
  <2>4. f[Any(S)] \in Int /\ g[Any(S)] = f[Any(S)] * c
    BY <2>1
  <2>5. \A a, b \in Int : a * c + b * c = (a + b) * c
    OBVIOUS
  <2>6. Sigma(g)[S] = Sigma(f)[S] * c
    BY <2>1, <2>2, <2>3, <2>4, <2>5
  <2>. QED  BY <2>6
<1>4. SUBSET D \subseteq Good
  <2> HIDE DEF Good
  <2>. QED  BY <1>2, <1>3, SubsetInduction
<1>5. D \in SUBSET D
  OBVIOUS
<1>. QED  BY <1>4, <1>5, TotalTyped

\* One number among zeros is the sum.
LEMMA TotalOfOne ==
  ASSUME NEW D, IsFiniteSet(D), NEW x \in D, NEW f \in [D -> Int], \A y \in D \ {x} : f[y] = 0
  PROVE  Total(f) = f[x]
<1> DEFINE Good == {S \in SUBSET D : Sigma(f)[S] = IF x \in S THEN f[x] ELSE 0}
<1>1. DOMAIN f = D
  OBVIOUS
<1>2. {} \in Good
  BY <1>1, SigmaIs
<1>3. ASSUME NEW S \in SUBSET D, S # {}, S \ {Any(S)} \in Good PROVE S \in Good
  <2>1. /\ Any(S) \in S /\ Any(S) \in D
        /\ Sigma(f)[S] = f[Any(S)] + Sigma(f)[S \ {Any(S)}]
    BY <1>1, <1>3, SigmaIs
  <2>2. Sigma(f)[S \ {Any(S)}] = IF x \in S \ {Any(S)} THEN f[x] ELSE 0
    BY <1>3
  <2>3. f[x] \in Int
    OBVIOUS
  <2>4. CASE x = Any(S)
    <3>1. Sigma(f)[S \ {Any(S)}] = 0
      BY <2>2, <2>4
    <3>. QED  BY <2>1, <2>3, <2>4, <3>1
  <2>5. CASE x # Any(S)
    <3>1. f[Any(S)] = 0 /\ (x \in S \ {Any(S)} <=> x \in S)
      BY <2>1, <2>5
    <3>. QED  BY <2>1, <2>2, <2>3, <3>1
  <2>. QED  BY <2>4, <2>5
<1>4. SUBSET D \subseteq Good
  <2> HIDE DEF Good
  <2>. QED  BY <1>2, <1>3, SubsetInduction
<1>5. D \in SUBSET D
  OBVIOUS
<1>. QED  BY <1>4, <1>5, TotalTyped

\* None of some natural numbers is larger than their sum.
LEMMA PartOfTotal ==
  ASSUME NEW D, IsFiniteSet(D), NEW f \in [D -> Nat], NEW x \in D
  PROVE  f[x] <= Total(f)
<1> DEFINE g == [y \in D |-> IF y = x THEN f[x] ELSE 0]
<1>1. g \in [D -> Int] /\ f \in [D -> Int] /\ g[x] = f[x]
      /\ (\A y \in D \ {x} : g[y] = 0) /\ \A y \in D : g[y] <= f[y]
  OBVIOUS
<1> HIDE DEF g
<1>2. Total(g) = f[x]
  BY <1>1, TotalOfOne
<1>. QED  BY <1>1, <1>2, TotalMonotone

\* Where one number changes, the sum changes by as much.
LEMMA TotalChange ==
  ASSUME NEW D, IsFiniteSet(D), NEW f \in [D -> Int], NEW g \in [D -> Int], NEW x \in D,
         \A y \in D \ {x} : g[y] = f[y]
  PROVE  Total(g) = Total(f) + (g[x] - f[x])
<1> DEFINE h == [y \in D |-> IF y = x THEN g[x] - f[x] ELSE 0]
<1>1. h \in [D -> Int] /\ h[x] = g[x] - f[x]
      /\ (\A y \in D \ {x} : h[y] = 0) /\ \A y \in D : g[y] = f[y] + h[y]
  OBVIOUS
<1> HIDE DEF h
<1>2. Total(h) = g[x] - f[x]
  BY <1>1, TotalOfOne
<1>3. h \in [D -> Int] /\ \A y \in D : g[y] = f[y] + h[y]
  BY <1>1
<1>4. Total(g) = Total(f) + Total(h)
  BY <1>3, TotalPlus
<1>. QED  BY <1>2, <1>4

-----------------------------------------------------------------------------
(* Selection.  The rows of a bucket are in an order, so that a row's place  *)
(* is the number of rows before it. *)

Members(b) == {s \in Symbols : Bucket[s] = b}

\* The rows of a bucket are ordered one after another.
LEMMA BeforeOrders ==
  ASSUME NEW r \in Reading, NEW b, NEW S \in SUBSET Members(b)
  PROVE  /\ \A s \in S : ~Before(s, s, r)
         /\ \A s, t \in S : s # t => Before(s, t, r) \/ Before(t, s, r)
         /\ \A s, t, u \in S : Before(s, t, r) /\ Before(t, u, r) => Before(s, u, r)
<1>1. \A s \in S : s \in Symbols /\ Bucket[s] = b /\ Order[s] \in Nat /\ r.score[s] \in Nat
  BY UniverseAssumption DEF Members, Reading
<1>2. \A s, t \in S : Order[s] = Order[t] => s = t
  BY <1>1, UniverseAssumption
<1>3. CASE b = SAFE
  <2>1. \A s, t \in S : Before(s, t, r) <=> Order[s] < Order[t]
    BY <1>1, <1>3 DEF Before
  <2>. QED  BY <1>1, <1>2, <2>1
<1>4. CASE b # SAFE
  <2>1. \A s, t \in S : Before(s, t, r) <=>
          r.score[s] > r.score[t] \/ (r.score[s] = r.score[t] /\ Order[s] < Order[t])
    BY <1>1, <1>4 DEF Before
  <2>. QED  BY <1>1, <1>2, <2>1
<1>. QED  BY <1>3, <1>4

Ahead(S, s, r) == {t \in S : Before(t, s, r)}

\* Later rows have more rows before them, and none has all of them.
LEMMA Places ==
  ASSUME NEW r \in Reading, NEW b, NEW S \in SUBSET Members(b)
  PROVE  /\ IsFiniteSet(S) /\ Cardinality(S) \in Nat
         /\ \A s \in S : Cardinality(Ahead(S, s, r)) \in Nat
                         /\ Cardinality(Ahead(S, s, r)) < Cardinality(S)
         /\ \A s, t \in S : Before(s, t, r) =>
              Cardinality(Ahead(S, s, r)) < Cardinality(Ahead(S, t, r))
<1>1. S \in SUBSET Symbols /\ IsFiniteSet(Symbols)
  BY UniverseAssumption DEF Members
<1>2. IsFiniteSet(S) /\ Cardinality(S) \in Nat
  BY <1>1, Sizes
<1>3. ASSUME NEW T \in SUBSET S, NEW s \in T, NEW A \in SUBSET (T \ {s})
      PROVE  Cardinality(A) \in Nat /\ Cardinality(A) < Cardinality(T)
  <2>1. IsFiniteSet(T) /\ Cardinality(T) \in Nat /\ Cardinality(T \ {s}) = Cardinality(T) - 1
    BY <1>2, Sizes
  <2>2. IsFiniteSet(T \ {s})
    BY <2>1, FS_Subset
  <2>3. Cardinality(A) \in Nat /\ Cardinality(A) <= Cardinality(T \ {s})
    BY <2>2, Sizes
  <2>. QED  BY <2>1, <2>3
<1>4. \A s \in S : Ahead(S, s, r) \in SUBSET (S \ {s})
  BY BeforeOrders DEF Ahead
<1>5. \A s \in S : Cardinality(Ahead(S, s, r)) \in Nat /\ Cardinality(Ahead(S, s, r)) < Cardinality(S)
  <2>1. S \in SUBSET S
    OBVIOUS
  <2>. QED  BY <1>3, <1>4, <2>1
<1>6. ASSUME NEW s \in S, NEW t \in S, Before(s, t, r)
      PROVE  Cardinality(Ahead(S, s, r)) < Cardinality(Ahead(S, t, r))
  <2>1. s \in Ahead(S, t, r) /\ Ahead(S, t, r) \in SUBSET S
    BY <1>6 DEF Ahead
  <2>2. Ahead(S, s, r) \in SUBSET (Ahead(S, t, r) \ {s})
    <3>1. \A u \in Ahead(S, s, r) : u \in S /\ Before(u, s, r)
      BY DEF Ahead
    <3>2. \A u \in Ahead(S, s, r) : Before(u, t, r) /\ u # s
      BY <1>6, <3>1, BeforeOrders
    <3>. QED  BY <3>1, <3>2 DEF Ahead
  <2>. QED  BY <1>3, <2>1, <2>2
<1>. QED  BY <1>2, <1>5, <1>6

\* First takes the first n rows, or all there are; and of some rows the first.
LEMMA FirstIs ==
  ASSUME NEW r \in Reading, NEW b, NEW S \in SUBSET Members(b), NEW n \in Nat
  PROVE  /\ First(S, n, r) \in SUBSET S
         /\ Cardinality(First(S, n, r)) \in Nat /\ Cardinality(First(S, n, r)) <= n
         /\ Cardinality(S) <= n => First(S, n, r) = S
         /\ S # {} => First(S, 1, r) # {}
<1>1. First(S, n, r) = {s \in S : Cardinality(Ahead(S, s, r)) < n}
      /\ First(S, 1, r) = {s \in S : Cardinality(Ahead(S, s, r)) < 1}
  BY DEF First, Ahead
<1>2. \A s \in S : Cardinality(Ahead(S, s, r)) \in Nat
                   /\ Cardinality(Ahead(S, s, r)) < Cardinality(S)
  BY Places
<1>3. IsFiniteSet(S) /\ Cardinality(S) \in Nat
  BY Places
<1>4. First(S, n, r) \in SUBSET S
  BY <1>1
<1>5. Cardinality(First(S, n, r)) \in Nat
  BY <1>3, <1>4, Sizes
<1>6. Cardinality(First(S, n, r)) <= n
  <2> DEFINE F == First(S, n, r)
             f == [s \in F |-> Cardinality(Ahead(S, s, r))]
  <2>1. \A s \in F : s \in S /\ Cardinality(Ahead(S, s, r)) \in 0..(n - 1)
    BY <1>1, <1>2
  <2>2. \A s, t \in F : s # t => f[s] # f[t]
    <3>1. ASSUME NEW s \in F, NEW t \in F, s # t PROVE f[s] # f[t]
      <4>1. s \in S /\ t \in S
        BY <2>1
      <4>2. Before(s, t, r) \/ Before(t, s, r)
        BY <3>1, <4>1, BeforeOrders
      <4>3. \/ Cardinality(Ahead(S, s, r)) < Cardinality(Ahead(S, t, r))
            \/ Cardinality(Ahead(S, t, r)) < Cardinality(Ahead(S, s, r))
        BY <4>1, <4>2, Places
      <4>4. f[s] = Cardinality(Ahead(S, s, r)) /\ f[t] = Cardinality(Ahead(S, t, r))
        BY DEF f
      <4>5. f[s] \in Nat /\ f[t] \in Nat
        BY <1>2, <4>1, <4>4
      <4>. QED  BY <4>3, <4>4, <4>5
    <3>. QED  BY <3>1
  <2>3. f \in [F -> 0..(n - 1)]
    BY <2>1
  <2>4. f \in Injection(F, 0..(n - 1))
    <3> HIDE DEF f, F
    <3>. QED  BY <2>2, <2>3 DEF Injection, IsInjective
  <2>5. IsFiniteSet(0..(n - 1)) /\ Cardinality(0..(n - 1)) = n
    <3>1. 0 \in Int /\ n - 1 \in Int
      OBVIOUS
    <3>2. IsFiniteSet(0..(n - 1)) /\ Cardinality(0..(n - 1)) = IF 0 > n - 1 THEN 0 ELSE (n - 1) - 0 + 1
      BY <3>1, FS_Interval
    <3>. QED  BY <3>2
  <2>6. Cardinality(F) <= Cardinality(0..(n - 1))
    <3> HIDE DEF f, F
    <3>. QED  BY <2>4, <2>5, FS_Injection
  <2>. QED  BY <2>5, <2>6
<1>7. Cardinality(S) <= n => First(S, n, r) = S
  <2>1. ASSUME Cardinality(S) <= n, NEW s \in S PROVE Cardinality(Ahead(S, s, r)) < n
    BY <1>2, <1>3, <2>1
  <2>. QED  BY <1>1, <2>1
<1>8. S # {} => First(S, 1, r) # {}
  <2> SUFFICES ASSUME S # {} PROVE First(S, 1, r) # {}
    OBVIOUS
  <2> DEFINE P == {Cardinality(Ahead(S, s, r)) : s \in S}
  <2>1. P \subseteq Nat /\ P # {}
    BY <1>2
  <2>2. PICK k \in P : \A j \in P : k <= j
    <3> HIDE DEF P
    <3>. QED  BY <2>1, NatHasLeast
  <2>3. PICK s \in S : k = Cardinality(Ahead(S, s, r))
    OBVIOUS
  <2>4. Ahead(S, s, r) = {}
    <3>1. ASSUME NEW t \in Ahead(S, s, r) PROVE FALSE
      <4>1. t \in S /\ Before(t, s, r)
        BY DEF Ahead
      <4>2. Cardinality(Ahead(S, t, r)) < k
        BY <2>3, <4>1, Places
      <4>3. Cardinality(Ahead(S, t, r)) \in P /\ Cardinality(Ahead(S, t, r)) \in Nat /\ k \in Nat
        BY <1>2, <2>3, <4>1
      <4>4. k <= Cardinality(Ahead(S, t, r))
        BY <2>2, <4>3
      <4>. QED  BY <4>2, <4>3, <4>4
    <3>. QED  BY <3>1
  <2>5. Cardinality(Ahead(S, s, r)) = 0
    BY <2>4, FS_EmptySet
  <2>. QED  BY <1>1, <2>5
<1>. QED  BY <1>4, <1>5, <1>6, <1>7, <1>8

\* More rows, if more may be taken.
LEMMA FirstGrows ==
  ASSUME NEW r \in Reading, NEW b, NEW S \in SUBSET Members(b), NEW m \in Nat, NEW n \in Nat, m <= n
  PROVE  First(S, m, r) \subseteq First(S, n, r)
<1>1. \A s \in S : Cardinality(Ahead(S, s, r)) \in Nat
  BY Places
<1>. QED  BY <1>1 DEF First, Ahead

\* Rows are the bucket's own.
LEMMA RowsAreMembers ==
  \A b, r : Ranked(b, r) \in SUBSET Members(b) /\ Held \in SUBSET Symbols
  BY DEF Ranked, Members, Held

\* Some incumbents have a weakest one.
LEMMA WeakestExists ==
  ASSUME NEW r \in Reading, NEW S \in SUBSET Symbols, S # {}
  PROVE  \E s \in S : \A t \in S \ {s} :
           r.score[s] < r.score[t] \/ (r.score[s] = r.score[t] /\ Order[s] < Order[t])
<1> DEFINE Scores == {r.score[s] : s \in S}
<1>0. \A s \in S : r.score[s] \in Nat /\ Order[s] \in Nat
  BY UniverseAssumption DEF Reading
<1>1. Scores \subseteq Nat /\ Scores # {}
  BY <1>0
<1>2. PICK k \in Scores : \A j \in Scores : k <= j
  <2> HIDE DEF Scores
  <2>. QED  BY <1>1, NatHasLeast
<1> DEFINE T == {s \in S : r.score[s] = k}
           Orders == {Order[s] : s \in T}
<1>3. Orders \subseteq Nat /\ Orders # {}
  BY <1>0, <1>2
<1>4. PICK o \in Orders : \A j \in Orders : o <= j
  <2> HIDE DEF Orders
  <2>. QED  BY <1>3, NatHasLeast
<1>5. PICK s \in T : o = Order[s]
  OBVIOUS
<1>6. ASSUME NEW t \in S \ {s}
      PROVE  r.score[s] < r.score[t] \/ (r.score[s] = r.score[t] /\ Order[s] < Order[t])
  <2>1. s \in S /\ r.score[s] = k /\ k <= r.score[t]
    BY <1>2
  <2>2. CASE r.score[t] = k
    <3>1. Order[t] \in Orders
      BY <2>2
    <3>2. o <= Order[t]
      BY <1>4, <3>1
    <3>3. Order[s] # Order[t]
      BY <2>1, UniverseAssumption
    <3>. QED  BY <1>0, <1>5, <2>1, <2>2, <3>2, <3>3
  <2>3. CASE r.score[t] # k
    BY <1>0, <2>1, <2>3
  <2>. QED  BY <2>2, <2>3
<1>. QED  BY <1>6

\* Incumbents and challengers are ranked, and no more than there are slots.  Incumbents
\* that fit into the slots all have one.
LEMMA PickedIs ==
  ASSUME NEW r \in Reading, NEW b \in Buckets
  PROVE  /\ Picked(b, r) \in SUBSET Ranked(b, r)
         /\ Cardinality(Picked(b, r)) \in Nat /\ Cardinality(Picked(b, r)) <= Slots[b]
         /\ p.incumbents /\ Cardinality(Held \cap Members(b)) <= Slots[b] =>
              Ranked(b, r) \cap Held \subseteq Picked(b, r)
<1> DEFINE rows == Ranked(b, r)
           held == First(rows \cap Held, Slots[b], r)
           rest == First(rows \ Held, Slots[b] - Cardinality(held), r)
<1>1. /\ rows \in SUBSET Members(b) /\ rows \cap Held \in SUBSET Members(b)
      /\ rows \ Held \in SUBSET Members(b) /\ Slots[b] \in Nat
  BY RowsAreMembers, ShapeAssumption
<1>2. Picked(b, r) = IF p.incumbents THEN held \cup rest ELSE First(rows, Slots[b], r)
  BY DEF Picked
<1>3. held \in SUBSET (rows \cap Held) /\ Cardinality(held) \in Nat /\ Cardinality(held) <= Slots[b]
      /\ (Cardinality(rows \cap Held) <= Slots[b] => held = rows \cap Held)
  <2> HIDE DEF rows
  <2>. QED  BY <1>1, FirstIs
<1>4. PICK n \in Nat : n = Slots[b] - Cardinality(held)
  <2> HIDE DEF held
  <2>. QED  BY <1>1, <1>3
<1>5. rest \in SUBSET (rows \ Held) /\ Cardinality(rest) \in Nat /\ Cardinality(rest) <= n
  <2>1. rest = First(rows \ Held, n, r)
    BY <1>4
  <2> HIDE DEF rows, held, rest
  <2>. QED  BY <1>1, <2>1, FirstIs
<1>6. First(rows, Slots[b], r) \in SUBSET rows /\ Cardinality(First(rows, Slots[b], r)) \in Nat
      /\ Cardinality(First(rows, Slots[b], r)) <= Slots[b]
  <2> HIDE DEF rows
  <2>. QED  BY <1>1, FirstIs
<1>7. IsFiniteSet(Symbols) /\ rows \in SUBSET Symbols /\ held \in SUBSET Symbols /\ rest \in SUBSET Symbols
  <2>1. IsFiniteSet(Symbols) /\ rows \in SUBSET Symbols
    BY <1>1, UniverseAssumption DEF Members
  <2> HIDE DEF rows, held, rest
  <2>. QED  BY <1>3, <1>5, <2>1
<1>8. Cardinality(held \cup rest) \in Nat /\ Cardinality(held \cup rest) <= Slots[b]
  <2> HIDE DEF rows, held, rest
  <2>1. IsFiniteSet(held) /\ IsFiniteSet(rest) /\ held \cap rest = {}
    BY <1>3, <1>5, <1>7, FS_Subset
  <2>2. Cardinality(held \cap rest) = 0
    BY <2>1, FS_EmptySet
  <2>3. Cardinality(held \cup rest) = Cardinality(held) + Cardinality(rest) - Cardinality(held \cap rest)
    BY <2>1, FS_Union
  <2>. QED  BY <1>1, <1>3, <1>4, <1>5, <2>2, <2>3
<1>9. Cardinality(Held \cap Members(b)) <= Slots[b] => Cardinality(rows \cap Held) <= Slots[b]
  <2>1. rows \cap Held \subseteq Held \cap Members(b) /\ Held \cap Members(b) \in SUBSET Symbols
    BY <1>1 DEF Members
  <2>2. IsFiniteSet(Held \cap Members(b)) /\ Cardinality(Held \cap Members(b)) \in Nat
    BY <1>7, <2>1, Sizes
  <2>3. rows \cap Held \in SUBSET (Held \cap Members(b))
    BY <2>1
  <2>4. Cardinality(rows \cap Held) \in Nat /\ Cardinality(rows \cap Held) <= Cardinality(Held \cap Members(b))
    <3> HIDE DEF rows
    <3>. QED  BY <2>2, <2>3, Sizes
  <2>. QED  BY <1>1, <2>2, <2>4
<1> HIDE DEF rows, held, rest
<1>10. Picked(b, r) \in SUBSET rows /\ Cardinality(Picked(b, r)) \in Nat
       /\ Cardinality(Picked(b, r)) <= Slots[b]
  <2>1. CASE p.incumbents
    BY <1>2, <1>3, <1>5, <1>8, <2>1
  <2>2. CASE ~p.incumbents
    BY <1>2, <1>6, <2>2
  <2>. QED  BY <2>1, <2>2
<1>11. p.incumbents /\ Cardinality(Held \cap Members(b)) <= Slots[b] => rows \cap Held \subseteq Picked(b, r)
  BY <1>2, <1>3, <1>9
<1>. QED  BY <1>10, <1>11 DEF rows

\* So are the names with a slot, when a challenger has taken one.
LEMMA SelectedIs ==
  ASSUME NEW r \in Reading, NEW b \in Buckets
  PROVE  /\ Selected(b, r) \in SUBSET Ranked(b, r)
         /\ Cardinality(Selected(b, r)) \in Nat /\ Cardinality(Selected(b, r)) <= Slots[b]
         /\ ~p.incumbents \/ p.margin = NoMargin => Selected(b, r) = Picked(b, r)
<1> DEFINE inc == Picked(b, r) \cap Held
           out == Ranked(b, r) \ (Held \cup Picked(b, r))
           weakest == CHOOSE s \in inc : \A t \in inc \ {s} :
                        r.score[s] < r.score[t] \/ (r.score[s] = r.score[t] /\ Order[s] < Order[t])
           best == CHOOSE s \in First(out, 1, r) : TRUE
           swapped == (Picked(b, r) \ {weakest}) \cup {best}
<1>1. /\ Picked(b, r) \in SUBSET Ranked(b, r) /\ Ranked(b, r) \in SUBSET Symbols
      /\ Cardinality(Picked(b, r)) \in Nat /\ Cardinality(Picked(b, r)) <= Slots[b]
  BY PickedIs, RowsAreMembers DEF Members
<1>2. ASSUME Contested(b, r) PROVE weakest \in Picked(b, r) /\ best \in Ranked(b, r)
  <2>1. inc # {} /\ inc \in SUBSET Symbols /\ out # {} /\ out \in SUBSET Members(b)
    BY <1>1, <1>2, RowsAreMembers DEF Contested
  <2>2. weakest \in inc
    <3> HIDE DEF inc
    <3>1. \E s \in inc : \A t \in inc \ {s} :
            r.score[s] < r.score[t] \/ (r.score[s] = r.score[t] /\ Order[s] < Order[t])
      BY <2>1, WeakestExists
    <3>. QED  BY <3>1
  <2>3. best \in out
    <3> HIDE DEF out
    <3>1. First(out, 1, r) # {} /\ First(out, 1, r) \in SUBSET out
      BY <2>1, FirstIs
    <3>. QED  BY <3>1
  <2> HIDE DEF weakest, best
  <2>. QED  BY <2>2, <2>3
<1>3. Selected(b, r) = Picked(b, r) \/ (Contested(b, r) /\ Selected(b, r) = swapped)
  BY DEF Selected, Displace
<1>4. ASSUME Contested(b, r)
      PROVE  /\ swapped \in SUBSET Ranked(b, r)
             /\ Cardinality(swapped) \in Nat /\ Cardinality(swapped) <= Slots[b]
  <2> HIDE DEF weakest, best
  <2>1. weakest \in Picked(b, r) /\ best \in Ranked(b, r)
    BY <1>2, <1>4
  <2>2. IsFiniteSet(Picked(b, r)) /\ IsFiniteSet(Symbols)
    <3>1. Picked(b, r) \in SUBSET Symbols /\ IsFiniteSet(Symbols)
      BY <1>1, UniverseAssumption
    <3>. QED  BY <3>1, Sizes
  <2>3. IsFiniteSet(Picked(b, r) \ {weakest})
        /\ Cardinality(Picked(b, r) \ {weakest}) = Cardinality(Picked(b, r)) - 1
    BY <2>1, <2>2, FS_RemoveElement
  <2>4. Cardinality(swapped) <= Cardinality(Picked(b, r)) - 1 + 1 /\ Cardinality(swapped) \in Nat
    <3>1. Cardinality(swapped) = IF best \in Picked(b, r) \ {weakest}
                                 THEN Cardinality(Picked(b, r) \ {weakest})
                                 ELSE Cardinality(Picked(b, r) \ {weakest}) + 1
      BY <2>3, FS_AddElement
    <3>2. Cardinality(Picked(b, r) \ {weakest}) \in Nat
      BY <2>3, FS_CardinalityType
    <3> HIDE DEF swapped
    <3>. QED  BY <1>1, <2>3, <3>1, <3>2
  <2>5. swapped \in SUBSET Ranked(b, r)
    BY <1>1, <2>1
  <2> HIDE DEF swapped
  <2>. QED  BY <1>1, <2>4, <2>5, ShapeAssumption
<1>5. ~p.incumbents \/ p.margin = NoMargin => Selected(b, r) = Picked(b, r)
  BY DEF Selected, Contested
<1> HIDE DEF swapped
<1>. QED  BY <1>1, <1>3, <1>4, <1>5

-----------------------------------------------------------------------------
(* Sizing. *)

\* Quotients are rounded down.
LEMMA RoundedDown ==
  ASSUME NEW a \in Nat, NEW m \in Nat \ {0}
  PROVE  a \div m \in Nat /\ (a \div m) * m <= a
  OBVIOUS

\* Products grow with their factors, and a common factor may be left out.
LEMMA Products ==
  /\ \A a, b \in Nat : a * b \in Nat /\ a * b = b * a
  /\ \A a, b, c \in Nat : a <= b => a * c <= b * c
  /\ \A a, b, c \in Nat : c > 0 /\ a * c <= b * c => a <= b
  /\ \A a, b, c \in Nat : (a * b) * c = a * (b * c)
<1>1. \A a, b \in Nat : a * b \in Nat /\ a * b = b * a
  OBVIOUS
<1>2. \A a, b, c \in Nat : a <= b => a * c <= b * c
  <2>1. \A a, c, d \in Nat : (a + d) * c = a * c + d * c /\ d * c \in Nat /\ a * c \in Nat
    OBVIOUS
  <2>2. TAKE a, b, c \in Nat
  <2>3. HAVE a <= b
  <2>4. b - a \in Nat /\ b = a + (b - a)
    BY <2>3
  <2>5. b * c = a * c + (b - a) * c /\ (b - a) * c \in Nat /\ a * c \in Nat
    BY <2>1, <2>4
  <2>. QED  BY <2>5
<1>3. \A a, b, c \in Nat : c > 0 /\ a * c <= b * c => a <= b
  <2>1. TAKE a, b, c \in Nat
  <2>2. HAVE c > 0 /\ a * c <= b * c
  <2>3. ASSUME b < a PROVE FALSE
    <3>1. b + 1 <= a /\ b + 1 \in Nat
      BY <2>3
    <3>2. (b + 1) * c <= a * c
      BY <1>2, <3>1
    <3>3. (b + 1) * c = b * c + c /\ b * c \in Nat /\ a * c \in Nat
      OBVIOUS
    <3>. QED  BY <2>2, <3>2, <3>3
  <2>. QED  BY <2>3
<1>4. \A a, b, c \in Nat : (a * b) * c = a * (b * c)
  OBVIOUS
<1>. QED  BY <1>1, <1>2, <1>3, <1>4

\* Nothing adds up to nothing.
LEMMA TotalOfNone ==
  ASSUME NEW D, IsFiniteSet(D), NEW f \in [D -> Int], \A x \in D : f[x] = 0
  PROVE  Total(f) = 0
<1>1. \A x \in D : f[x] = f[x] * 0
  OBVIOUS
<1>2. Total(f) = Total(f) * 0
  BY <1>1, TotalScaled
<1>3. Total(f) \in Int
  BY TotalTyped
<1>. QED  BY <1>2, <1>3

\* Numbers in proportion to their share of a total, each rounded down, come to no more
\* than what there is to share.
LEMMA ProRata ==
  ASSUME NEW D, IsFiniteSet(D), NEW gap \in [D -> Nat], NEW budget \in Nat,
         NEW f \in [D -> Nat],
         \A x \in D : f[x] <= IF gap[x] = 0 THEN 0 ELSE (gap[x] * budget) \div Total(gap)
  PROVE  Total(f) <= budget
<1>1. gap \in [D -> Int] /\ f \in [D -> Int] /\ \A x \in D : gap[x] \in Nat /\ f[x] \in Nat
  OBVIOUS
<1>2. PICK t : t = Total(gap)
  OBVIOUS
<1>3. t \in Nat /\ \A x \in D : gap[x] <= t
  BY <1>1, <1>2, TotalTyped, PartOfTotal
<1>4. CASE t = 0
  <2>1. \A x \in D : f[x] = 0
    <3>1. \A x \in D : gap[x] = 0
      BY <1>1, <1>3, <1>4
    <3>. QED  BY <1>1, <3>1
  <2>2. Total(f) = 0
    BY <1>1, <2>1, TotalOfNone
  <2>. QED  BY <2>2
<1>5. CASE t # 0
  <2> DEFINE h == [x \in D |-> f[x] * t]
             k == [x \in D |-> gap[x] * budget]
  <2>1. h \in [D -> Int] /\ k \in [D -> Int]
    BY <1>1, <1>3, Products
  <2>2. ASSUME NEW x \in D PROVE h[x] <= k[x]
    <3>1. f[x] \in Nat /\ gap[x] \in Nat /\ gap[x] * budget \in Nat /\ t \in Nat \ {0}
      BY <1>1, <1>3, <1>5, Products
    <3>2. CASE gap[x] = 0
      <4>1. f[x] = 0
        BY <3>1, <3>2
      <4>. QED  BY <1>3, <3>1, <3>2, <4>1
    <3>3. CASE gap[x] # 0
      <4>1. f[x] <= (gap[x] * budget) \div t
        BY <1>2, <3>3
      <4>2. (gap[x] * budget) \div t \in Nat /\ ((gap[x] * budget) \div t) * t <= gap[x] * budget
        BY <3>1, RoundedDown
      <4>3. f[x] * t <= ((gap[x] * budget) \div t) * t
        BY <3>1, <4>1, <4>2, Products
      <4>4. f[x] * t \in Nat /\ ((gap[x] * budget) \div t) * t \in Nat
        BY <3>1, <4>2, Products
      <4>5. f[x] * t <= gap[x] * budget
        BY <3>1, <4>2, <4>3, <4>4
      <4>. QED  BY <4>5
    <3>. QED  BY <3>2, <3>3
  <2>3. Total(h) = Total(f) * t
    <3>1. \A x \in D : h[x] = f[x] * t
      OBVIOUS
    <3> HIDE DEF h
    <3>. QED  BY <1>1, <1>3, <2>1, <3>1, TotalScaled
  <2>4. Total(k) = t * budget
    <3>1. \A x \in D : k[x] = gap[x] * budget
      OBVIOUS
    <3> HIDE DEF k
    <3>2. Total(k) = Total(gap) * budget
      BY <1>1, <2>1, <3>1, TotalScaled
    <3>. QED  BY <1>2, <3>2
  <2>5. Total(h) <= Total(k)
    <3> HIDE DEF h, k
    <3>. QED  BY <2>1, <2>2, TotalMonotone
  <2>6. PICK u \in Nat : u = Total(f)
    BY <1>1, TotalTyped
  <2>7. u * t <= budget * t
    BY <1>3, <2>3, <2>4, <2>5, <2>6, Products
  <2>8. t > 0
    BY <1>3, <1>5
  <2>. QED  BY <1>3, <2>6, <2>7, <2>8, Products
<1>. QED  BY <1>4, <1>5

Typed == p \in Params /\ value \in [Symbols -> Nat] /\ cash \in Nat

\* What a run selects: names of each bucket, as many as there are slots.
Fits(chosen) ==
  \A b \in Buckets : /\ chosen[b] \in SUBSET Members(b)
                     /\ Cardinality(chosen[b]) \in Nat /\ Cardinality(chosen[b]) <= Slots[b]

\* A purchase of the run: what it comes to, and for whom.
Bounded(f, chosen, budget) ==
  /\ f \in [Symbols -> Nat]
  /\ Total(f) <= budget
  /\ \A s \in Symbols : f[s] > 0 => /\ s \in chosen[Bucket[s]]
                                    /\ value[s] + f[s] <= MaxValue(s)

\* The limits are natural numbers, rounded down.
LEMMA LimitsTyped ==
  ASSUME Typed
  PROVE  /\ Equity \in Nat
         /\ \A mode : /\ Budget(mode) \in Nat /\ Cap(mode) \in Nat /\ Budget(mode) <= Cap(mode)
                      /\ Budget(mode) * 100 <= cash * (100 - Reserve)
         /\ \A s \in Symbols : MaxValue(s) \in Nat /\ MaxValue(s) * 100 <= MaxWeight[s] * Equity
<1>1. /\ cash \in Nat /\ Reserve \in Nat /\ 100 - Reserve \in Nat /\ PctCap \in Nat /\ UsdCap \in Nat
      /\ Multiple \in Nat /\ IsFiniteSet(Symbols)
  BY SizingAssumption, UniverseAssumption DEF Typed
<1>2. Equity \in Nat
  <2>1. value \in [Symbols -> Nat] /\ value \in [Symbols -> Int]
    BY DEF Typed
  <2>2. Total(value) \in Nat
    BY <1>1, <2>1, TotalTyped
  <2>. QED  BY <1>1, <2>2 DEF Equity
<1>3. ASSUME NEW mode
      PROVE  /\ Budget(mode) \in Nat /\ Cap(mode) \in Nat /\ Budget(mode) <= Cap(mode)
             /\ Budget(mode) * 100 <= cash * (100 - Reserve)
  <2>1. PICK e \in Nat : e = (PctCap * Equity) \div 100
    <3>1. PctCap * Equity \in Nat
      BY <1>1, <1>2, Products
    <3>. QED  BY <3>1, RoundedDown
  <2>2. PICK m \in Nat : m = Most(UsdCap, e)
    BY <1>1, <2>1 DEF Most
  <2>3. m * Multiple \in Nat /\ m * 1 = m
    BY <1>1, <2>2, Products
  <2>4. Cap(mode) \in Nat
    BY <2>1, <2>2, <2>3 DEF Cap
  <2>5. PICK c \in Nat : c = cash * (100 - Reserve)
    BY <1>1, Products
  <2>6. PICK d \in Nat : d = c \div 100 /\ d * 100 <= c
    BY <2>5, RoundedDown
  <2>7. Budget(mode) = IF d < Cap(mode) THEN d ELSE Cap(mode)
    BY <2>5, <2>6 DEF Budget, Least
  <2>. QED  BY <2>4, <2>5, <2>6, <2>7
<1>4. ASSUME NEW s \in Symbols
      PROVE  MaxValue(s) \in Nat /\ MaxValue(s) * 100 <= MaxWeight[s] * Equity
  <2>1. MaxWeight[s] \in Nat
    BY UniverseAssumption
  <2>2. PICK a \in Nat : a = MaxWeight[s] * Equity
    BY <1>2, <2>1, Products
  <2>3. a \div 100 \in Nat /\ (a \div 100) * 100 <= a
    BY <2>2, RoundedDown
  <2>. QED  BY <2>2, <2>3 DEF MaxValue
<1>. QED  BY <1>2, <1>3, <1>4

\* Money goes to names that hold a slot.
LEMMA ChosenHaveSlots ==
  ASSUME NEW chosen, Fits(chosen), NEW s \in Symbols
  PROVE  s \in Chosen(chosen) <=> Bucket[s] \in Filled(chosen) /\ s \in chosen[Bucket[s]]
<1>1. Bucket[s] \in Buckets
  BY UniverseAssumption
<1>2. \A b \in Filled(chosen) : b \in Buckets /\ \A t \in chosen[b] : Bucket[t] = b
  BY DEF Filled, Fits, Members
<1>. QED  BY <1>2 DEF Chosen

\* _target_buys keeps to the budget, and to each name's max_weight.
LEMMA TargetBuysBounded ==
  ASSUME Typed, NEW mode, NEW chosen, Fits(chosen),
         \A s \in Chosen(chosen) : Target(s, chosen) \in Int
  PROVE  Bounded(TargetBuys(mode, chosen), chosen, Budget(mode))
<1> DEFINE gap == [s \in Symbols |->
                     IF s \in Chosen(chosen) THEN Most(Target(s, chosen) - value[s], 0) ELSE 0]
           f == TargetBuys(mode, chosen)
<1>1. Budget(mode) \in Nat /\ MinOrder \in Nat /\ IsFiniteSet(Symbols)
  BY LimitsTyped, SizingAssumption, UniverseAssumption
<1>2. \A s \in Symbols : value[s] \in Nat /\ MaxValue(s) \in Nat
  BY LimitsTyped DEF Typed
<1>3. gap \in [Symbols -> Nat]
  BY <1>2 DEF Most
<1>4. PICK t \in Nat : t = Total(gap)
  <2>1. gap \in [Symbols -> Int]
    BY <1>3
  <2> HIDE DEF gap
  <2>. QED  BY <1>1, <1>3, <2>1, TotalTyped
<1>5. f = [s \in Symbols |->
             IF gap[s] = 0 \/ Budget(mode) < MinOrder THEN 0
             ELSE Placed(Least((gap[s] * Budget(mode)) \div t, gap[s]))]
  BY <1>4 DEF TargetBuys
<1>6. ASSUME NEW s \in Symbols, NEW g \in Nat, g = gap[s]
      PROVE  /\ f[s] \in Nat /\ f[s] <= g
             /\ f[s] <= IF g = 0 THEN 0 ELSE (g * Budget(mode)) \div t
  <2>1. f[s] = IF g = 0 \/ Budget(mode) < MinOrder THEN 0
               ELSE Placed(Least((g * Budget(mode)) \div t, g))
    <3> HIDE DEF gap, f
    <3>. QED  BY <1>5, <1>6
  <2>2. CASE g = 0
    BY <2>1, <2>2
  <2>3. CASE g # 0
    <3>1. g <= t
      <4> HIDE DEF gap
      <4>. QED  BY <1>1, <1>3, <1>4, <1>6, PartOfTotal
    <3>2. PICK q \in Nat : q = (g * Budget(mode)) \div t
      <4>1. g * Budget(mode) \in Nat /\ t \in Nat \ {0}
        BY <1>1, <2>3, <3>1, Products
      <4>. QED  BY <4>1, RoundedDown
    <3> HIDE DEF f, gap
    <3>. QED  BY <1>1, <2>1, <2>3, <3>2 DEF Placed, Least
  <2>. QED  BY <2>2, <2>3
<1>7. f \in [Symbols -> Nat]
  <2>1. \A s \in Symbols : f[s] \in Nat
    <3> HIDE DEF f, gap
    <3>. QED  BY <1>3, <1>6
  <2>2. f = [s \in Symbols |-> f[s]]
    <3> HIDE DEF gap
    <3>. QED  BY <1>5
  <2> HIDE DEF f, gap
  <2>. QED  BY <2>1, <2>2
<1>8. Total(f) <= Budget(mode)
  <2>1. \A s \in Symbols : f[s] <= IF gap[s] = 0 THEN 0 ELSE (gap[s] * Budget(mode)) \div Total(gap)
    <3> HIDE DEF f, gap
    <3>. QED  BY <1>3, <1>4, <1>6
  <2> HIDE DEF f, gap
  <2>2. \A B \in Nat : (\A s \in Symbols : f[s] <= IF gap[s] = 0 THEN 0 ELSE (gap[s] * B) \div Total(gap))
           => Total(f) <= B
    BY <1>1, <1>3, <1>7, ProRata
  <2>. QED  BY <1>1, <2>1, <2>2
<1>9. ASSUME NEW s \in Symbols, f[s] > 0
      PROVE  s \in chosen[Bucket[s]] /\ value[s] + f[s] <= MaxValue(s)
  <2>1. PICK g \in Nat : g = gap[s]
    <3> HIDE DEF gap
    <3>. QED  BY <1>3
  <2>2. f[s] \in Nat /\ f[s] <= g
    <3> HIDE DEF gap, f
    <3>. QED  BY <1>6, <2>1
  <2>3. g > 0
    <3> HIDE DEF gap, f
    <3>. QED  BY <1>9, <2>2
  <2>4. s \in Chosen(chosen) /\ g = Most(Target(s, chosen) - value[s], 0)
    BY <2>1, <2>3
  <2>5. Target(s, chosen) \in Int /\ Target(s, chosen) <= MaxValue(s)
    <3>1. Target(s, chosen) \in Int
      BY <2>4
    <3>2. \E a : Target(s, chosen) = Least(a, MaxValue(s))
      BY DEF Target
    <3>. QED  BY <1>2, <3>1, <3>2 DEF Least
  <2> HIDE DEF gap, f
  <2>6. value[s] + f[s] <= MaxValue(s)
    BY <1>2, <2>2, <2>3, <2>4, <2>5 DEF Most
  <2>. QED  BY <2>4, <2>6, ChosenHaveSlots
<1> HIDE DEF f
<1>. QED  BY <1>7, <1>8, <1>9 DEF Bounded, f

\* What each name gets of its bucket, summed over the names, is what the buckets give.
LEMMA TotalByBucket ==
  ASSUME NEW chosen, Fits(chosen), NEW per \in [Buckets -> Nat], NEW w \in [Symbols -> Nat],
         \A s \in Symbols : w[s] = IF s \in chosen[Bucket[s]] THEN per[Bucket[s]] ELSE 0
  PROVE  Total(w) = Total([b \in Buckets |-> Cardinality(chosen[b]) * per[b]])
<1> DEFINE G(S) == [b \in Buckets |-> Cardinality(chosen[b] \cap S) * per[b]]
           Good == {S \in SUBSET Symbols : Sigma(w)[S] = Total(G(S))}
<1>1. /\ IsFiniteSet(Symbols) /\ IsFiniteSet(Buckets) /\ DOMAIN w = Symbols
      /\ \A s \in Symbols : Bucket[s] \in Buckets
  BY UniverseAssumption, ShapeAssumption
<1>2. \A S \in SUBSET Symbols : \A b \in Buckets :
        IsFiniteSet(chosen[b] \cap S) /\ Cardinality(chosen[b] \cap S) \in Nat
  <2>1. \A S \in SUBSET Symbols : \A b \in Buckets : chosen[b] \cap S \in SUBSET Symbols
    OBVIOUS
  <2>. QED  BY <1>1, <2>1, Sizes
<1>3. \A S \in SUBSET Symbols : G(S) \in [Buckets -> Int]
  <2>1. \A S \in SUBSET Symbols : \A b \in Buckets : Cardinality(chosen[b] \cap S) * per[b] \in Nat
    <3>0. TAKE S \in SUBSET Symbols
    <3>1. TAKE b \in Buckets
    <3>2. PICK c \in Nat : c = Cardinality(chosen[b] \cap S)
      BY <1>2
    <3>3. PICK v \in Nat : v = per[b]
      OBVIOUS
    <3>4. c * v \in Nat
      BY Products
    <3>. QED  BY <3>2, <3>3, <3>4
  <2>2. TAKE S \in SUBSET Symbols
  <2> DEFINE e(b) == Cardinality(chosen[b] \cap S) * per[b]
  <2>3. \A b \in Buckets : e(b) \in Int
    <3>1. \A b \in Buckets : e(b) \in Nat
      BY <2>1, Zenon
    <3> HIDE DEF e
    <3>. QED  BY <3>1
  <2>4. G(S) = [b \in Buckets |-> e(b)]
    OBVIOUS
  <2> HIDE DEF e, G
  <2>. QED  BY <2>3, <2>4
<1>4. {} \in Good
  <2>1. \A b \in Buckets : Cardinality(chosen[b] \cap {}) = 0
    <3>1. \A b \in Buckets : chosen[b] \cap {} = {}
      OBVIOUS
    <3>. QED  BY <3>1, FS_EmptySet
  <2>2. \A b \in Buckets : G({})[b] = 0
    <3>1. \A b \in Buckets : 0 * per[b] = 0
      OBVIOUS
    <3>. QED  BY <2>1, <3>1
  <2>3. {} \in SUBSET Symbols /\ G({}) \in [Buckets -> Int]
    <3>1. {} \in SUBSET Symbols
      OBVIOUS
    <3> HIDE DEF G
    <3>. QED  BY <1>3, <3>1
  <2>4. Total(G({})) = 0
    <3> HIDE DEF G
    <3>. QED  BY <1>1, <2>2, <2>3, TotalOfNone
  <2>5. Sigma(w)[{}] = 0
    BY <1>1, SigmaIs
  <2> HIDE DEF G
  <2>. QED  BY <2>3, <2>4, <2>5
<1>5. ASSUME NEW S \in SUBSET Symbols, S # {}, S \ {Any(S)} \in Good PROVE S \in Good
  <2> DEFINE x == Any(S)
             T == S \ {x}
             home == Bucket[x]
  <2>1. /\ x \in S /\ x \in Symbols /\ T \in SUBSET Symbols /\ home \in Buckets
        /\ Sigma(w)[S] = w[x] + Sigma(w)[T]
    BY <1>1, <1>5, SigmaIs
  <2>2. Sigma(w)[T] = Total(G(T))
    <3> HIDE DEF G
    <3>. QED  BY <1>5
  <2>3. ASSUME NEW b \in Buckets \ {home} PROVE G(S)[b] = G(T)[b]
    <3>1. x \notin chosen[b]
      BY DEF Fits, Members
    <3>2. chosen[b] \cap S = chosen[b] \cap T
      BY <3>1
    <3>. QED  BY <3>2
  <2>4. G(S)[home] = G(T)[home] + w[x]
    <3>1. G(S)[home] = Cardinality(chosen[home] \cap S) * per[home]
          /\ G(T)[home] = Cardinality(chosen[home] \cap T) * per[home]
      BY <2>1
    <3>2. w[x] = IF x \in chosen[home] THEN per[home] ELSE 0
      BY <2>1
    <3>3. CASE x \in chosen[home]
      <4>1. chosen[home] \cap T = (chosen[home] \cap S) \ {x} /\ x \in chosen[home] \cap S
        BY <2>1, <3>3
      <4>2. /\ IsFiniteSet(chosen[home] \cap S)
            /\ Cardinality(chosen[home] \cap S) \in Nat /\ Cardinality(chosen[home] \cap T) \in Nat
        <5> HIDE DEF T, home, x
        <5>. QED  BY <1>2, <2>1
      <4>3. PICK c \in Nat : c = Cardinality(chosen[home] \cap T)
        BY <4>2
      <4>4. Cardinality(chosen[home] \cap S) = c + 1
        <5> HIDE DEF T, home, x
        <5>1. PICK A : A = chosen[home] \cap S
          OBVIOUS
        <5>2. IsFiniteSet(A) /\ x \in A /\ Cardinality(A) \in Nat
          BY <4>1, <4>2, <5>1
        <5>3. Cardinality(A \ {x}) = Cardinality(A) - 1
          BY <5>2, FS_RemoveElement
        <5>4. Cardinality(A \ {x}) = c
          BY <4>1, <4>3, <5>1
        <5>5. Cardinality(A) = c + 1
          BY <5>2, <5>3, <5>4
        <5>. QED  BY <5>1, <5>5
      <4>5. PICK v \in Nat : v = per[home]
        BY <2>1
      <4>6. (c + 1) * v = c * v + v
        OBVIOUS
      <4>. QED  BY <3>1, <3>2, <3>3, <4>3, <4>4, <4>5, <4>6
    <3>4. CASE x \notin chosen[home]
      <4>1. chosen[home] \cap T = chosen[home] \cap S
        BY <3>4
      <4>2. G(T)[home] \in Int
        <5> HIDE DEF G
        <5>. QED  BY <1>3, <2>1
      <4>3. G(S)[home] = G(T)[home]
        BY <3>1, <4>1
      <4> HIDE DEF G
      <4>. QED  BY <3>2, <3>4, <4>2, <4>3
    <3>. QED  BY <3>3, <3>4
  <2> HIDE DEF G, T, home, x
  <2>5. G(S) \in [Buckets -> Int] /\ G(T) \in [Buckets -> Int]
    BY <1>3, <2>1
  <2>6. Total(G(S)) = Total(G(T)) + (G(S)[home] - G(T)[home])
    BY <1>1, <2>1, <2>3, <2>5, TotalChange
  <2>7. G(S)[home] \in Int /\ G(T)[home] \in Int /\ Total(G(T)) \in Int /\ w[x] \in Int
    BY <1>1, <2>1, <2>5, TotalTyped
  <2>8. Sigma(w)[S] = Total(G(S))
    BY <2>1, <2>2, <2>4, <2>6, <2>7
  <2>. QED  BY <2>8
<1>6. SUBSET Symbols \subseteq Good
  <2> HIDE DEF Good
  <2>. QED  BY <1>1, <1>4, <1>5, SubsetInduction
<1>7. Total(w) = Total(G(Symbols))
  <2>1. Symbols \in SUBSET Symbols
    OBVIOUS
  <2>2. Sigma(w)[Symbols] = Total(G(Symbols))
    <3> HIDE DEF G
    <3>. QED  BY <1>6, <2>1
  <2>3. Total(w) = Sigma(w)[Symbols]
    BY <1>1, SigmaIs
  <2> HIDE DEF G
  <2>. QED  BY <2>2, <2>3
<1>8. G(Symbols) = [b \in Buckets |-> Cardinality(chosen[b]) * per[b]]
  <2>1. \A b \in Buckets : chosen[b] \cap Symbols = chosen[b]
    BY DEF Fits, Members
  <2>. QED  BY <2>1
<1> HIDE DEF G
<1>. QED  BY <1>7, <1>8

\* _bucket_shares: the shares of the buckets that fill come to no more than the whole,
\* whoever gets the share of empty slots.
LEMMA SharesFit ==
  ASSUME Typed, NEW chosen, Fits(chosen)
  PROVE  /\ \A b \in Buckets : Share(b, chosen) \in Nat
         /\ Total([b \in Buckets |-> IF b \in Filled(chosen) THEN Share(b, chosen) ELSE 0]) <= Whole
<1> DEFINE part == [b \in Buckets |-> SlotPart(b)]
           count == [b \in Buckets |-> Cardinality(chosen[b])]
           taken == [b \in Buckets |-> SlotPart(b) * Cardinality(chosen[b])]
           left == [b \in Buckets |-> SlotPart(b) * (Slots[b] - Cardinality(chosen[b]))]
           full == [b \in Buckets |-> SlotPart(b) * Slots[b]]
           extra == [b \in Buckets |-> IF b = p.unfilled THEN Spare(chosen) ELSE 0]
           both == [b \in Buckets |-> taken[b] + extra[b]]
           shares == [b \in Buckets |-> IF b \in Filled(chosen) THEN Share(b, chosen) ELSE 0]
           w == Whole \div 100
<1>1. /\ IsFiniteSet(Buckets) /\ p.unfilled \in Buckets /\ Whole \in Nat
      /\ w \in Nat /\ w * 100 <= Whole
      /\ Weight \in [Buckets -> Nat] /\ Total(Weight) = 100
      /\ \A b \in Buckets : Slots[b] \in Nat /\ Weight[b] \in Nat
  <2>1. Whole \in Nat /\ 100 \in Nat \ {0}
    BY ShapeAssumption
  <2>2. w \in Nat /\ w * 100 <= Whole
    BY <2>1, RoundedDown
  <2>3. Weight \in [Buckets -> Nat] /\ Total(Weight) = 100 /\ IsFiniteSet(Buckets)
        /\ \A b \in Buckets : Slots[b] \in Nat /\ Weight[b] \in Nat
    <3>1. \A n \in 0..100 : n \in Nat
      OBVIOUS
    <3>. QED  BY <3>1, ShapeAssumption
  <2>4. p.unfilled \in Buckets
    BY DEF Typed, Params
  <2>. QED  BY <2>1, <2>2, <2>3, <2>4
<1>2. ASSUME NEW b \in Buckets
      PROVE  /\ SlotPart(b) \in Nat /\ SlotPart(b) * Slots[b] \in Nat
             /\ SlotPart(b) * Slots[b] <= Weight[b] * w /\ Weight[b] * w \in Nat
  <2>1. PICK a \in Nat : a = Weight[b] * w
    <3> HIDE DEF w
    <3>. QED  BY <1>1, Products
  <2>2. PICK m \in Nat \ {0} : m = Most(Slots[b], 1) /\ (Slots[b] = 0 \/ m = Slots[b])
    BY <1>1 DEF Most
  <2>3. PICK q \in Nat : q = a \div m /\ q * m <= a
    BY <2>1, <2>2, RoundedDown
  <2>4. SlotPart(b) = q
    BY <2>1, <2>2, <2>3 DEF SlotPart
  <2>5. q * Slots[b] \in Nat /\ q * Slots[b] <= a
    <3>1. CASE Slots[b] = 0
      BY <2>1, <2>3, <3>1
    <3>2. CASE m = Slots[b]
      BY <2>2, <2>3, <3>2, Products
    <3>. QED  BY <2>2, <3>1, <3>2
  <2> HIDE DEF w
  <2>. QED  BY <2>1, <2>3, <2>4, <2>5
<1>3. ASSUME NEW b \in Buckets
      PROVE  /\ SlotPart(b) * Cardinality(chosen[b]) \in Nat
             /\ SlotPart(b) * (Slots[b] - Cardinality(chosen[b])) \in Nat
             /\ SlotPart(b) * Slots[b] = SlotPart(b) * Cardinality(chosen[b])
                                         + SlotPart(b) * (Slots[b] - Cardinality(chosen[b]))
  <2>1. PICK q \in Nat : q = SlotPart(b)
    BY <1>2
  <2>2. PICK c \in Nat : c = Cardinality(chosen[b])
    BY DEF Fits
  <2>3. PICK d \in Nat : d = Slots[b] - c /\ Slots[b] = c + d
    BY <1>1, <2>2 DEF Fits
  <2>4. q * c \in Nat /\ q * d \in Nat /\ q * (c + d) = q * c + q * d
    <3>1. q * c \in Nat /\ q * d \in Nat
      BY Products
    <3>. QED  BY <3>1
  <2>. QED  BY <2>1, <2>2, <2>3, <2>4
<1>4. taken \in [Buckets -> Nat] /\ left \in [Buckets -> Nat] /\ full \in [Buckets -> Nat]
      /\ \A b \in Buckets : full[b] = taken[b] + left[b]
  BY <1>2, <1>3
<1>5. Spare(chosen) = Total(left)
  BY DEF Spare
<1> HIDE DEF w
<1>6. PICK spare \in Nat : spare = Spare(chosen)
  <2>1. left \in [Buckets -> Int]
    BY <1>4
  <2> HIDE DEF left
  <2>. QED  BY <1>1, <1>4, <1>5, <2>1, TotalTyped
<1>7. Total(full) = Total(taken) + spare
  <2>1. full \in [Buckets -> Int] /\ taken \in [Buckets -> Int] /\ left \in [Buckets -> Int]
    BY <1>4
  <2> HIDE DEF full, taken, left
  <2>2. Total(full) = Total(taken) + Total(left)
    BY <1>1, <1>4, <2>1, TotalPlus
  <2>. QED  BY <1>5, <1>6, <2>2
<1>8. Total(full) <= Whole
  <2> DEFINE weighted == [b \in Buckets |-> Weight[b] * w]
  <2>1. weighted \in [Buckets -> Int] /\ full \in [Buckets -> Int] /\ Weight \in [Buckets -> Int]
        /\ (\A b \in Buckets : full[b] <= weighted[b])
        /\ (\A b \in Buckets : weighted[b] = Weight[b] * w)
    BY <1>1, <1>2
  <2> HIDE DEF full, weighted
  <2>2. Total(full) <= Total(weighted)
    BY <1>1, <2>1, TotalMonotone
  <2>3. Total(weighted) = Total(Weight) * w
    <3>1. PICK c \in Int : c = w
      BY <1>1
    <3>2. weighted \in [Buckets -> Int]
      BY <2>1
    <3>3. Weight \in [Buckets -> Int]
      BY <2>1
    <3>4. \A b \in Buckets : weighted[b] = Weight[b] * c
      BY <2>1, <3>1
    <3>5. Total(weighted) = Total(Weight) * c
      BY <1>1, <3>2, <3>3, <3>4, TotalScaled
    <3>. QED  BY <3>1, <3>5
  <2>4. Total(weighted) = w * 100
    BY <1>1, <2>3
  <2>5. Total(full) \in Int
    BY <1>1, <2>1, TotalTyped
  <2>. QED  BY <1>1, <2>2, <2>4, <2>5
<1>9. ASSUME NEW b \in Buckets
      PROVE  /\ Share(b, chosen) \in Nat
             /\ Share(b, chosen) = both[b] /\ both[b] = taken[b] + extra[b]
             /\ extra[b] \in Nat /\ both[b] \in Nat
  <2>1. PICK t \in Nat : t = SlotPart(b) * Cardinality(chosen[b]) /\ t = taken[b]
    BY <1>3
  <2>2. extra[b] = IF b = p.unfilled THEN spare ELSE 0
    BY <1>6
  <2>3. Share(b, chosen) = t + (IF b = p.unfilled THEN spare ELSE 0)
    BY <1>6, <2>1 DEF Share
  <2>. QED  BY <2>1, <2>2, <2>3
<1>10. Total(extra) = spare
  <2>1. extra \in [Buckets -> Int] /\ extra[p.unfilled] = spare
        /\ \A b \in Buckets \ {p.unfilled} : extra[b] = 0
    BY <1>1, <1>6
  <2> HIDE DEF extra
  <2>. QED  BY <1>1, <2>1, TotalOfOne
<1>11. Total(both) = Total(taken) + spare
  <2>1. both \in [Buckets -> Int] /\ extra \in [Buckets -> Int] /\ taken \in [Buckets -> Int]
    BY <1>4, <1>6
  <2>2. \A b \in Buckets : both[b] = taken[b] + extra[b]
    BY <1>9
  <2> HIDE DEF both, extra, taken
  <2>3. Total(both) = Total(taken) + Total(extra)
    BY <1>1, <2>1, <2>2, TotalPlus
  <2>. QED  BY <1>10, <2>3
<1>12. Total(shares) <= Total(both)
  <2>1. shares \in [Buckets -> Int] /\ both \in [Buckets -> Int]
        /\ \A b \in Buckets : shares[b] <= both[b]
    <3>1. \A b \in Buckets : shares[b] \in Int /\ both[b] \in Int /\ shares[b] <= both[b]
      <4>1. TAKE b \in Buckets
      <4>2. shares[b] = (IF b \in Filled(chosen) THEN Share(b, chosen) ELSE 0)
        OBVIOUS
      <4> HIDE DEF shares, both
      <4>. QED  BY <1>9, <4>2
    <3>2. shares = [b \in Buckets |-> shares[b]] /\ both = [b \in Buckets |-> both[b]]
      OBVIOUS
    <3> HIDE DEF shares, both
    <3>. QED  BY <3>1, <3>2
  <2> HIDE DEF shares, both
  <2>. QED  BY <1>1, <2>1, TotalMonotone
<1>13. Total(shares) <= Whole
  <2>1. Total(both) = Total(full)
    BY <1>7, <1>11
  <2>2. Total(shares) \in Int /\ Total(full) \in Int
    <3>1. shares \in [Buckets -> Int] /\ full \in [Buckets -> Int]
      BY <1>4, <1>9
    <3> HIDE DEF shares, full
    <3>. QED  BY <1>1, <3>1, TotalTyped
  <2> HIDE DEF shares, both, full
  <2>. QED  BY <1>1, <1>8, <1>12, <2>1, <2>2
<1>. QED  BY <1>9, <1>13


\* A name's part of what its bucket gets, and what the bucket's names get together.
LEMMA PartsFit ==
  ASSUME Typed, NEW chosen, Fits(chosen), NEW b \in Filled(chosen), NEW x \in Nat
  PROVE  LET part == (Share(b, chosen) * x) \div (Whole * Cardinality(chosen[b])) IN
         /\ part \in Nat
         /\ Cardinality(chosen[b]) * part \in Nat
         /\ (Cardinality(chosen[b]) * part) * Whole <= Share(b, chosen) * x
<1> DEFINE part == (Share(b, chosen) * x) \div (Whole * Cardinality(chosen[b]))
<1>1. b \in Buckets /\ chosen[b] # {} /\ chosen[b] \in SUBSET Symbols
  BY DEF Filled, Fits, Members
<1>2. PICK c \in Nat \ {0} : c = Cardinality(chosen[b])
  <2>1. IsFiniteSet(chosen[b])
    BY <1>1, UniverseAssumption, FS_Subset
  <2>2. Cardinality(chosen[b]) # 0
    BY <1>1, <2>1, FS_EmptySet
  <2>3. Cardinality(chosen[b]) \in Nat
    BY <1>1 DEF Fits
  <2>. QED  BY <2>2, <2>3
<1>3. PICK k \in Nat : k = Share(b, chosen)
  BY <1>1, SharesFit
<1>4. PICK n \in Nat \ {0} : n = Whole
  BY ShapeAssumption
<1>5. PICK a \in Nat : a = k * x
  BY Products
<1>6. PICK m \in Nat \ {0} : m = n * c
  <2>1. n * c \in Nat
    BY Products
  <2>2. 1 * c <= n * c
    <3>1. 1 \in Nat /\ 1 <= n
      OBVIOUS
    <3>. QED  BY <3>1, Products
  <2>3. 1 * c = c
    OBVIOUS
  <2>. QED  BY <2>1, <2>2, <2>3
<1>7. PICK q \in Nat : q = a \div m /\ q * m <= a
  BY RoundedDown
<1>8. part = q
  BY <1>2, <1>3, <1>4, <1>5, <1>6, <1>7
<1>9. c * q \in Nat
  BY Products
<1>10. (c * q) * n = q * m
  <2>1. (c * q) * n = c * (q * n)
    BY Products
  <2>2. q * (n * c) = (q * n) * c
    BY Products
  <2>3. q * n \in Nat
    BY Products
  <2>4. (q * n) * c = c * (q * n)
    BY <2>3, Products
  <2>. QED  BY <1>6, <2>1, <2>2, <2>4
<1>11. (c * q) * n <= a
  BY <1>7, <1>10
<1> HIDE DEF part
<1>12. part \in Nat /\ Cardinality(chosen[b]) * part \in Nat
       /\ (Cardinality(chosen[b]) * part) * Whole <= Share(b, chosen) * x
  BY <1>2, <1>3, <1>4, <1>5, <1>8, <1>9, <1>11
<1>. QED  BY <1>12 DEF part

\* _flow_buys keeps to the budget too: what the buckets get of it, by their shares, is
\* no more than all of it.
LEMMA FlowBuysBounded ==
  ASSUME Typed, NEW mode, NEW chosen, Fits(chosen)
  PROVE  Bounded(FlowBuys(mode, chosen), chosen, Budget(mode))
<1> DEFINE budget == Budget(mode)
           part(b) == (Share(b, chosen) * budget) \div (Whole * Cardinality(chosen[b]))
           per == [b \in Buckets |-> IF b \in Filled(chosen) THEN part(b) ELSE 0]
           w == [s \in Symbols |-> IF s \in chosen[Bucket[s]] THEN per[Bucket[s]] ELSE 0]
           given == [b \in Buckets |-> Cardinality(chosen[b]) * per[b]]
           shares == [b \in Buckets |-> IF b \in Filled(chosen) THEN Share(b, chosen) ELSE 0]
           f == FlowBuys(mode, chosen)
<1>1. /\ IsFiniteSet(Symbols) /\ IsFiniteSet(Buckets) /\ MinOrder \in Nat
      /\ \A s \in Symbols : Bucket[s] \in Buckets
  BY UniverseAssumption, ShapeAssumption, SizingAssumption
<1>2. PICK B \in Nat : B = budget
  BY LimitsTyped
<1>3. PICK n \in Nat \ {0} : n = Whole
  BY ShapeAssumption
<1>4. ASSUME NEW b \in Filled(chosen)
      PROVE  part(b) \in Nat /\ Cardinality(chosen[b]) * part(b) \in Nat
             /\ (Cardinality(chosen[b]) * part(b)) * n <= Share(b, chosen) * B
  BY <1>2, <1>3, PartsFit
<1> HIDE DEF part, budget
<1>5. per \in [Buckets -> Nat]
  BY <1>4
<1>6. w \in [Symbols -> Nat]
  BY <1>1, <1>5
<1>7. ASSUME NEW b \in Buckets
      PROVE  given[b] \in Nat /\ shares[b] \in Nat /\ given[b] * n <= shares[b] * B
  <2>1. CASE b \in Filled(chosen)
    <3>1. given[b] = Cardinality(chosen[b]) * part(b) /\ shares[b] = Share(b, chosen)
      BY <2>1
    <3>2. Share(b, chosen) \in Nat
      BY SharesFit
    <3> HIDE DEF given, shares
    <3>. QED  BY <1>4, <2>1, <3>1, <3>2
  <2>2. CASE b \notin Filled(chosen)
    <3>1. given[b] = Cardinality(chosen[b]) * 0 /\ shares[b] = 0
      BY <2>2
    <3>2. PICK c \in Nat : c = Cardinality(chosen[b])
      BY DEF Fits
    <3>3. c * 0 = 0 /\ 0 * n = 0 /\ 0 * B = 0
      OBVIOUS
    <3> HIDE DEF given, shares
    <3>. QED  BY <3>1, <3>2, <3>3
  <2>. QED  BY <2>1, <2>2
<1>8. given \in [Buckets -> Nat] /\ shares \in [Buckets -> Nat]
  <2>1. given = [b \in Buckets |-> given[b]] /\ shares = [b \in Buckets |-> shares[b]]
    OBVIOUS
  <2> HIDE DEF given, shares
  <2>. QED  BY <1>7, <2>1
<1>9. Total(w) = Total(given)
  <2>1. \A s \in Symbols : w[s] = IF s \in chosen[Bucket[s]] THEN per[Bucket[s]] ELSE 0
    OBVIOUS
  <2> HIDE DEF w, per
  <2>. QED  BY <1>5, <1>6, <2>1, TotalByBucket
<1>10. PICK g \in Nat : g = Total(given)
  <2>1. given \in [Buckets -> Int]
    BY <1>8
  <2> HIDE DEF given
  <2>. QED  BY <1>1, <1>8, <2>1, TotalTyped
<1>11. PICK h \in Nat : h = Total(shares) /\ h <= n
  <2>1. shares \in [Buckets -> Int]
    BY <1>8
  <2>2. Total(shares) <= Whole
    BY SharesFit
  <2> HIDE DEF shares
  <2>. QED  BY <1>1, <1>3, <1>8, <2>1, <2>2, TotalTyped
<1>12. g <= B
  <2> HIDE DEF given, shares
  <2> DEFINE e1(b) == given[b] * n
             e2(b) == shares[b] * B
             scaled == [b \in Buckets |-> e1(b)]
             claims == [b \in Buckets |-> e2(b)]
  <2>1. \A b \in Buckets : e1(b) \in Nat /\ e2(b) \in Nat /\ e1(b) <= e2(b)
    <3>1. TAKE b \in Buckets
    <3>2. PICK u \in Nat : u = given[b]
      BY <1>7
    <3>3. PICK v \in Nat : v = shares[b]
      BY <1>7
    <3>4. u * n \in Nat /\ v * B \in Nat
      BY Products
    <3>. QED  BY <1>7, <3>2, <3>3, <3>4
  <2>2. /\ \A b \in Buckets : scaled[b] = given[b] * n
        /\ \A b \in Buckets : claims[b] = shares[b] * B
    OBVIOUS
  <2> HIDE DEF e1, e2
  <2>3. /\ scaled \in [Buckets -> Int] /\ claims \in [Buckets -> Int]
        /\ \A b \in Buckets : scaled[b] <= claims[b]
    BY <2>1
  <2>4. given \in [Buckets -> Int] /\ shares \in [Buckets -> Int] /\ n \in Int /\ B \in Int
    BY <1>8
  <2> HIDE DEF scaled, claims
  <2>5. Total(scaled) = g * n
    BY <1>1, <1>10, <2>2, <2>3, <2>4, TotalScaled
  <2>6. Total(claims) = h * B
    BY <1>1, <1>11, <2>2, <2>3, <2>4, TotalScaled
  <2>7. Total(scaled) <= Total(claims)
    BY <1>1, <2>3, TotalMonotone
  <2>8. h * B <= n * B /\ n * B = B * n /\ g * n \in Nat /\ h * B \in Nat /\ n * B \in Nat
    BY <1>11, Products
  <2>9. g * n <= B * n
    BY <2>5, <2>6, <2>7, <2>8
  <2>. QED  BY <2>9, Products
<1>13. ASSUME NEW s \in Symbols
       PROVE  /\ f[s] \in Nat /\ f[s] <= w[s]
              /\ f[s] > 0 => s \in chosen[Bucket[s]] /\ value[s] + f[s] <= MaxValue(s)
  <2>1. value[s] \in Nat /\ MaxValue(s) \in Nat /\ w[s] \in Nat
    BY <1>6, LimitsTyped DEF Typed
  <2>2. f[s] = IF s \notin Chosen(chosen) \/ budget < MinOrder THEN 0
               ELSE IF [b \in Filled(chosen) |-> part(b)][Bucket[s]] < MinOrder THEN 0
               ELSE Placed(Most(Least([b \in Filled(chosen) |-> part(b)][Bucket[s]],
                                      MaxValue(s) - value[s]), 0))
    BY DEF FlowBuys, part, budget
  <2>3. CASE s \notin Chosen(chosen)
    <3>1. f[s] = 0
      BY <2>2, <2>3
    <3> HIDE DEF f, w
    <3>. QED  BY <2>1, <3>1
  <2>4. CASE s \in Chosen(chosen)
    <3>1. Bucket[s] \in Filled(chosen) /\ s \in chosen[Bucket[s]]
      BY <2>4, ChosenHaveSlots
    <3>2. w[s] = part(Bucket[s]) /\ [b \in Filled(chosen) |-> part(b)][Bucket[s]] = part(Bucket[s])
      BY <1>1, <3>1
    <3>3. PICK v \in Nat : v = w[s]
      BY <2>1
    <3>4. f[s] = IF budget < MinOrder \/ v < MinOrder THEN 0
                 ELSE Placed(Most(Least(v, MaxValue(s) - value[s]), 0))
      <4> HIDE DEF f, w
      <4>. QED  BY <2>2, <2>4, <3>2, <3>3
    <3> HIDE DEF f, w
    <3>. QED  BY <1>1, <2>1, <3>1, <3>3, <3>4 DEF Placed, Most, Least
  <2>. QED  BY <2>3, <2>4
<1>14. f \in [Symbols -> Nat]
  <2>1. \A s \in Symbols : f[s] \in Nat
    <3> HIDE DEF f, w
    <3>. QED  BY <1>13
  <2>2. f = [s \in Symbols |-> f[s]]
    BY DEF FlowBuys
  <2> HIDE DEF f
  <2>. QED  BY <2>1, <2>2
<1>15. Total(f) <= budget
  <2>1. f \in [Symbols -> Int] /\ w \in [Symbols -> Int] /\ \A s \in Symbols : f[s] <= w[s]
    <3> HIDE DEF f, w
    <3>. QED  BY <1>6, <1>13, <1>14
  <2> HIDE DEF f, w, given
  <2>2. Total(f) <= Total(w)
    BY <1>1, <2>1, TotalMonotone
  <2>3. Total(f) \in Int
    BY <1>1, <2>1, TotalTyped
  <2>. QED  BY <1>2, <1>9, <1>10, <1>12, <2>2, <2>3
<1> HIDE DEF f, w
<1>. QED  BY <1>13, <1>14, <1>15 DEF Bounded, f, budget

\* Either way.
LEMMA PurchasesBounded ==
  ASSUME Typed, NEW mode, NEW chosen, Fits(chosen)
  PROVE  Bounded(Purchases(mode, chosen), chosen, Budget(mode))
<1>1. ASSUME NEW s \in Chosen(chosen) PROVE Target(s, chosen) \in Int
  <2>1. Bucket[s] \in Filled(chosen) /\ s \in Symbols
    <3>1. s \in Symbols
      BY DEF Chosen, Filled, Fits, Members
    <3>. QED  BY <3>1, ChosenHaveSlots
  <2>2. PICK e \in Nat : e = Equity
    BY LimitsTyped
  <2>3. (Share(Bucket[s], chosen) * e) \div (Whole * Cardinality(chosen[Bucket[s]])) \in Nat
    BY <2>1, PartsFit
  <2>4. MaxValue(s) \in Nat
    BY <2>1, LimitsTyped
  <2>5. PICK a \in Nat : a = (Share(Bucket[s], chosen) * Equity)
                               \div (Whole * Cardinality(chosen[Bucket[s]]))
    BY <2>2, <2>3
  <2>6. Target(s, chosen) = Least(a, MaxValue(s))
    BY <2>5 DEF Target
  <2>. QED  BY <2>4, <2>6 DEF Least
<1>2. Bounded(TargetBuys(mode, chosen), chosen, Budget(mode))
  BY <1>1, TargetBuysBounded
<1>. QED  BY <1>2, FlowBuysBounded DEF Purchases

\* A run sells what it has, no more.
LEMMA SalesTyped ==
  ASSUME Typed, NEW r, NEW mode, NEW chosen
  PROVE  /\ Sales(r, mode, chosen) \in [Symbols -> Nat]
         /\ \A s \in Symbols : Sales(r, mode, chosen)[s] <= value[s]
<1>1. ASSUME NEW s \in Symbols
      PROVE  Sales(r, mode, chosen)[s] \in Nat /\ Sales(r, mode, chosen)[s] <= value[s]
  <2>1. PICK v \in Nat : v = value[s]
    BY DEF Typed
  <2>2. PICK k \in Nat : k = p.fraction /\ k <= 100
    BY DEF Typed, Params
  <2>3. PICK a \in Nat : a = v * k
    BY Products
  <2>4. a <= v * 100
    <3>1. k * v <= 100 * v /\ v * k = k * v
      BY <2>2, Products
    <3>. QED  BY <2>3, <3>1
  <2>5. a \div 100 \in Nat /\ a \div 100 <= v
    BY <2>3, <2>4
  <2>6. \/ Sales(r, mode, chosen)[s] = v
        \/ Sales(r, mode, chosen)[s] = a \div 100
        \/ Sales(r, mode, chosen)[s] = 0
    BY <2>1, <2>2, <2>3 DEF Sales
  <2>. QED  BY <2>1, <2>5, <2>6
<1>2. Sales(r, mode, chosen) = [s \in Symbols |-> Sales(r, mode, chosen)[s]]
  BY DEF Sales
<1>. QED  BY <1>1, <1>2

-----------------------------------------------------------------------------
(* The behaviour.  A run places its sales and its buys against one state of *)
(* the account, and what it says of them holds until they are settled.     *)

\* What a run selects fits into the slots.
LEMMA SelectionFits ==
  ASSUME NEW r \in Reading
  PROVE  Fits([b \in Buckets |-> Selected(b, r)])
BY SelectedIs, RowsAreMembers DEF Fits

\* What a run finds held by a rule to keep it, it does not buy: of what it sells, nothing
\* is among the names it has picked.
LEMMA SoldOrChosen ==
  ASSUME Typed, p.absolute \/ ~p.incumbents, NEW r \in Reading, NEW mode, NEW s \in Symbols,
         s \in Selected(Bucket[s], r)
  PROVE  Sales(r, mode, [b \in Buckets |-> Selected(b, r)])[s] = 0
<1> DEFINE chosen == [b \in Buckets |-> Selected(b, r)]
           home == Bucket[s]
<1>1. home \in Buckets /\ chosen[home] = Selected(home, r) /\ p.buffer \in Nat
      /\ Slots[home] \in Nat /\ p.absolute \in BOOLEAN /\ p.incumbents \in BOOLEAN
  BY UniverseAssumption, ShapeAssumption DEF Typed, Params
<1>2. s \in Ranked(home, r)
  BY <1>1, SelectedIs
<1>3. ~(s \in Leveraged /\ ~r.up)
  BY <1>2 DEF Ranked
<1>4. s \in Keep(home, r, chosen[home])
  <2>1. CASE p.absolute
    BY <1>1, <1>2, <2>1 DEF Keep
  <2>2. CASE ~p.absolute
    <3>1. ~p.incumbents
      BY <2>2
    <3>2. Selected(home, r) = First(Ranked(home, r), Slots[home], r)
      BY <1>1, <3>1, SelectedIs DEF Picked
    <3>3. First(Ranked(home, r), Slots[home], r)
            \subseteq First(Ranked(home, r), Slots[home] + p.buffer, r)
      <4>1. Ranked(home, r) \in SUBSET Members(home)
        BY RowsAreMembers
      <4>2. PICK m \in Nat : m = Slots[home]
        BY <1>1
      <4>3. PICK n \in Nat : n = Slots[home] + p.buffer /\ m <= n
        BY <1>1, <4>2
      <4>. QED  BY <4>1, <4>2, <4>3, FirstGrows
    <3>. QED  BY <3>1, <3>2, <3>3, <2>2 DEF Keep
  <2>. QED  BY <2>1, <2>2
<1>5. s \notin Rotated(r, chosen)
  BY <1>4 DEF Rotated
<1> HIDE DEF chosen
<1>6. Sales(r, mode, chosen)[s] = 0
  BY <1>3, <1>5 DEF Sales
<1>. QED  BY <1>6 DEF chosen

\* Exits that wait for nothing: the params of RosterWithinSlots.
RotatesWhole == p.incumbents /\ p.absolute /\ p.rotation /\ ~p.broken /\ p.fraction = 100

HeldOf(b) == {s \in Held : Bucket[s] = b}

\* Such exits leave of a bucket within its slots the names with a slot.
LEMMA KeptAreChosen ==
  ASSUME Typed, RotatesWhole,
         NEW r \in Reading, NEW b \in Buckets \ {SAFE},
         Cardinality(HeldOf(b)) <= Slots[b],
         NEW s \in Held, Bucket[s] = b,
         Sales(r, "weekly", [c \in Buckets |-> Selected(c, r)])[s] < value[s]
  PROVE  s \in Selected(b, r)
<1> DEFINE chosen == [c \in Buckets |-> Selected(c, r)]
<1>0. /\ p.incumbents /\ p.absolute /\ p.rotation /\ ~p.broken /\ p.fraction = 100
  BY DEF RotatesWhole
<1>1. s \in Symbols /\ value[s] \in Nat /\ chosen[b] = Selected(b, r)
  BY DEF Held, Typed
<1>2. Sales(r, "weekly", chosen)[s] =
        IF s \in Leveraged \cap Held /\ ~r.up THEN value[s]
        ELSE IF s \in Rotated(r, chosen) THEN (value[s] * p.fraction) \div 100
        ELSE 0
  <2> HIDE DEF chosen
  <2>. QED  BY <1>1 DEF Sales
<1>3. (value[s] * p.fraction) \div 100 = value[s]
  <2>1. PICK v \in Nat : v = value[s]
    BY <1>1
  <2>2. (v * 100) \div 100 = v
    OBVIOUS
  <2>. QED  BY <1>0, <2>1, <2>2
<1>4. s \notin Rotated(r, chosen)
  <2> HIDE DEF chosen
  <2>1. Sales(r, "weekly", chosen)[s] < value[s]
    BY DEF chosen
  <2>. QED  BY <1>1, <1>2, <1>3, <2>1
<1>5. s \in Keep(b, r, chosen[b])
  <2> HIDE DEF chosen
  <2>. QED  BY <1>0, <1>4 DEF Rotated
<1>6. s \in Ranked(b, r) /\ (p.margin # NoMargin => s \in Selected(b, r))
  <2>1. s \in Keep(b, r, Selected(b, r))
    BY <1>1, <1>5
  <2>. QED  BY <1>0, <2>1 DEF Keep
<1>7. CASE p.margin = NoMargin
  <2>1. HeldOf(b) = Held \cap Members(b)
    BY DEF Held, Members, HeldOf
  <2>2. Cardinality(Held \cap Members(b)) <= Slots[b]
    BY <2>1
  <2>3. Ranked(b, r) \cap Held \subseteq Picked(b, r)
    BY <1>0, <2>2, PickedIs
  <2>. QED  BY <1>6, <1>7, <2>3, SelectedIs
<1>. QED  BY <1>6, <1>7

\* Orders are out only during a run.
IInv == /\ TypeOK
        /\ run = "none" => sells = None /\ buys = None
        /\ BuysKeepTheirLimits /\ NoRoundTrip /\ RosterWithinSlots

\* Types, as the lemmas ask for them.
LEMMA TypeGives ==
  ASSUME TypeOK PROVE Typed
BY ParamSetsAreParams DEF TypeOK, Typed

\* Nothing is on order at first.
LEMMA InitHolds ==
  Init => IInv
<1> SUFFICES ASSUME Init PROVE IInv
  OBVIOUS
<1>1. None \in [Symbols -> Nat] /\ \A s \in Symbols : None[s] = 0
  BY DEF None
<1>2. value \in [Symbols -> Nat] /\ cash \in Nat
  BY PortfoliosAreValues, SizingAssumption DEF Init
<1>3. TypeOK
  BY <1>1, <1>2, SizingAssumption DEF Init, TypeOK
<1>4. run = "none" /\ sells = None /\ buys = None
  BY DEF Init
<1>5. BuysKeepTheirLimits
  BY <1>1, <1>4 DEF BuysKeepTheirLimits
<1>6. NoRoundTrip
  BY <1>1, <1>4 DEF NoRoundTrip
<1>7. RosterWithinSlots
  BY <1>4 DEF RosterWithinSlots
<1>. QED  BY <1>3, <1>4, <1>5, <1>6, <1>7 DEF IInv

\* A run sells and buys within what it has.
LEMMA EvaluateKeeps ==
  ASSUME IInv, NEW mode \in {"weekly", "dislocation"}, NEW r \in Readings, Evaluate(mode, r)
  PROVE  IInv'
<1> DEFINE chosen == [b \in Buckets |-> Selected(b, r)]
<1>1. r \in Reading /\ Typed /\ TypeOK
  BY ReadingsAreReadings, TypeGives DEF IInv
<1>2. Fits(chosen)
  BY <1>1, SelectionFits
<1>3. /\ sells' = Sales(r, mode, chosen) /\ buys' = Purchases(mode, chosen)
      /\ run' = mode /\ runs' = runs + 1 /\ runs < MaxRuns
      /\ p' = p /\ value' = value /\ cash' = cash
  BY DEF Evaluate
<1> HIDE DEF chosen
<1>4. Bounded(buys', chosen, Budget(mode))
  BY <1>1, <1>2, <1>3, PurchasesBounded
<1>5. sells' \in [Symbols -> Nat] /\ \A s \in Symbols : sells'[s] <= value[s]
  BY <1>1, <1>3, SalesTyped
<1>6. TypeOK'
  <2>1. buys' \in [Symbols -> Nat]
    BY <1>4 DEF Bounded
  <2>2. runs' \in 0..MaxRuns
    BY <1>1, <1>3, SizingAssumption DEF TypeOK
  <2>. QED  BY <1>1, <1>3, <1>5, <2>1, <2>2 DEF TypeOK
<1>7. Equity' = Equity
  BY <1>3 DEF Equity
<1>8. BuysKeepTheirLimits'
  <2>1. PICK t \in Nat : t = Total(buys') /\ t <= Budget(mode)
    <3>1. buys' \in [Symbols -> Nat] /\ buys' \in [Symbols -> Int]
          /\ Total(buys') <= Budget(mode)
      BY <1>4 DEF Bounded
    <3>2. IsFiniteSet(Symbols)
      BY UniverseAssumption
    <3>3. PICK h : h = buys'
      OBVIOUS
    <3>4. Total(h) \in Nat
      BY <3>1, <3>2, <3>3, TotalTyped
    <3>. QED  BY <3>1, <3>3, <3>4
  <2>2. /\ Budget(mode) \in Nat /\ Cap(mode) \in Nat /\ Budget(mode) <= Cap(mode)
        /\ Budget(mode) * 100 <= cash * (100 - Reserve)
    BY <1>1, LimitsTyped
  <2>3. 100 * t <= cash * (100 - Reserve) /\ t <= Cap(mode)
    <3>1. PICK c \in Nat : c = cash * (100 - Reserve)
      <4>1. cash \in Nat /\ 100 - Reserve \in Nat
        BY <1>1, SizingAssumption DEF Typed
      <4>. QED  BY <4>1, Products
    <3>. QED  BY <2>1, <2>2, <3>1
  <2>4. Cap(run)' = Cap(mode)
    BY <1>3, <1>7 DEF Cap
  <2>5. ASSUME NEW s \in Symbols, buys'[s] > 0
        PROVE  100 * (value'[s] + buys'[s]) <= MaxWeight[s] * Equity'
    <3>1. PICK n \in Nat : n = value[s] + buys'[s] /\ n <= MaxValue(s)
      BY <1>1, <1>4, <2>5 DEF Bounded, Typed
    <3>2. MaxValue(s) \in Nat /\ MaxValue(s) * 100 <= MaxWeight[s] * Equity
      BY <1>1, LimitsTyped
    <3>3. PICK a \in Nat : a = MaxWeight[s] * Equity
      <4>1. MaxWeight[s] \in Nat /\ Equity \in Nat
        BY <1>1, LimitsTyped, UniverseAssumption
      <4>. QED  BY <4>1, Products
    <3>4. 100 * n <= a
      BY <3>1, <3>2, <3>3
    <3>. QED  BY <1>3, <1>7, <3>1, <3>3, <3>4
  <2>6. 100 * Total(buys') <= cash' * (100 - Reserve) /\ Total(buys') <= Cap(run)'
    BY <1>3, <2>1, <2>3, <2>4
  <2>. QED  BY <2>5, <2>6 DEF BuysKeepTheirLimits
<1>9. NoRoundTrip'
  <2>1. ASSUME p.absolute \/ ~p.incumbents, NEW s \in Symbols, buys'[s] # 0
        PROVE  sells'[s] = 0
    <3>1. s \in chosen[Bucket[s]]
      BY <1>4, <2>1 DEF Bounded
    <3>2. s \in Selected(Bucket[s], r)
      BY <3>1, UniverseAssumption DEF chosen
    <3>. QED  BY <1>1, <1>3, <2>1, <3>2, SoldOrChosen DEF chosen
  <2>. QED  BY <1>3, <2>1 DEF NoRoundTrip
<1>10. RosterWithinSlots'
  <2> SUFFICES ASSUME mode = "weekly", RotatesWhole, NEW b \in Buckets \ {SAFE},
                      Cardinality(HeldOf(b)) <= Slots[b]
               PROVE  Cardinality(Roster(b)') <= Slots[b]
    <3>1. Held' = Held
      BY <1>3 DEF Held
    <3>. QED  BY <1>3, <3>1 DEF RosterWithinSlots, RotatesWhole, HeldOf
  <2>1. Roster(b)' \subseteq Selected(b, r)
    <3>1. Held' = Held
      BY <1>3 DEF Held
    <3>2. ASSUME NEW s \in Held, Bucket[s] = b, sells'[s] < value[s]
          PROVE  s \in Selected(b, r)
      <4>2. Sales(r, "weekly", [c \in Buckets |-> Selected(c, r)])[s] < value[s]
        BY <1>3, <3>2 DEF chosen
      <4>. QED  BY <1>1, <3>2, <4>2, KeptAreChosen
    <3>3. ASSUME NEW s \in Symbols, Bucket[s] = b, buys'[s] > 0
          PROVE  s \in Selected(b, r)
      BY <1>4, <3>3 DEF Bounded, chosen
    <3>4. Roster(b)' = {s \in Held : Bucket[s] = b /\ sells'[s] < value[s]} \cup
                       {s \in Symbols : Bucket[s] = b /\ buys'[s] > 0}
      BY <1>3, <3>1 DEF Roster
    <3>. QED  BY <3>2, <3>3, <3>4
  <2>2. /\ Selected(b, r) \in SUBSET Symbols
        /\ Cardinality(Selected(b, r)) \in Nat /\ Cardinality(Selected(b, r)) <= Slots[b]
    BY <1>1, SelectedIs, RowsAreMembers DEF Members
  <2>3. IsFiniteSet(Selected(b, r))
    BY <2>2, UniverseAssumption, FS_Subset
  <2>4. PICK R : R = Roster(b)'
    OBVIOUS
  <2>5. Cardinality(R) \in Nat /\ Cardinality(R) <= Cardinality(Selected(b, r))
    BY <2>1, <2>3, <2>4, FS_Subset, FS_CardinalityType
  <2>6. Slots[b] \in Nat
    BY ShapeAssumption
  <2>. QED  BY <2>2, <2>4, <2>5, <2>6
<1>11. run' # "none"
  BY <1>3
<1>. QED  BY <1>6, <1>8, <1>9, <1>10, <1>11 DEF IInv

\* An account that settles is one between runs; what a run buys it has the cash for.
LEMMA SettleKeeps ==
  ASSUME IInv, NEW refused \in SUBSET Symbols, NEW doubled, Settle(refused, doubled)
  PROVE  IInv'
<1> DEFINE sold == [s \in Symbols |-> IF s \in refused THEN 0 ELSE sells[s]]
           bought == [s \in Symbols |-> IF s \in refused THEN 0 ELSE buys[s]]
<1>1. /\ run # "none" /\ run' = "none" /\ sells' = None /\ buys' = None
      /\ p' = p /\ runs' = runs /\ cash' = cash + Total(sold) - Total(bought) + Deposit
      /\ value' = [s \in Symbols |->
                     (value[s] - sold[s] + bought[s]) * (IF s \in doubled THEN 2 ELSE 1)]
  BY DEF Settle
<1>2. /\ TypeOK /\ BuysKeepTheirLimits /\ cash \in Nat /\ Deposit \in Nat /\ IsFiniteSet(Symbols)
      /\ Reserve \in 0..100
  BY SizingAssumption, UniverseAssumption DEF IInv, TypeOK
<1>3. /\ sold \in [Symbols -> Nat] /\ bought \in [Symbols -> Nat]
      /\ \A s \in Symbols : sold[s] <= value[s] /\ bought[s] <= buys[s]
  BY <1>2 DEF TypeOK
<1>4. value' \in [Symbols -> Nat]
  <2>1. ASSUME NEW s \in Symbols
        PROVE  (value[s] - sold[s] + bought[s]) * (IF s \in doubled THEN 2 ELSE 1) \in Nat
    <3>1. value[s] \in Nat /\ sold[s] \in Nat /\ bought[s] \in Nat /\ sold[s] <= value[s]
      BY <1>2, <1>3 DEF TypeOK
    <3> HIDE DEF sold, bought
    <3>. QED  BY <3>1
  <2> HIDE DEF sold, bought
  <2>. QED  BY <1>1, <2>1
<1>5. cash' \in Nat
  <2>1. /\ sold \in [Symbols -> Int] /\ bought \in [Symbols -> Int]
        /\ buys \in [Symbols -> Nat] /\ buys \in [Symbols -> Int]
        /\ \A s \in Symbols : bought[s] <= buys[s]
    BY <1>2, <1>3 DEF TypeOK
  <2> HIDE DEF sold, bought
  <2>2. Total(sold) \in Nat /\ Total(bought) \in Nat /\ Total(buys) \in Nat
    BY <1>2, <1>3, <2>1, TotalTyped
  <2>3. Total(bought) <= Total(buys)
    BY <1>2, <2>1, TotalMonotone
  <2>4. Total(buys) <= cash
    <3>1. 100 * Total(buys) <= cash * (100 - Reserve)
      BY <1>1, <1>2 DEF BuysKeepTheirLimits
    <3>2. cash * (100 - Reserve) <= 100 * cash /\ cash * (100 - Reserve) \in Nat
      <4>1. 100 - Reserve \in Nat /\ 100 - Reserve <= 100 /\ 100 \in Nat
        BY <1>2
      <4>2. (100 - Reserve) * cash <= 100 * cash /\ (100 - Reserve) * cash = cash * (100 - Reserve)
            /\ cash * (100 - Reserve) \in Nat
        BY <1>2, <4>1, Products
      <4>. QED  BY <4>2
    <3>3. PICK a \in Nat : a = cash * (100 - Reserve)
      BY <3>2
    <3>. QED  BY <1>2, <2>2, <3>1, <3>2, <3>3
  <2>. QED  BY <1>1, <1>2, <2>2, <2>3, <2>4
<1>6. None \in [Symbols -> Nat] /\ \A s \in Symbols : None[s] = 0
  BY DEF None
<1>7. TypeOK'
  BY <1>1, <1>2, <1>4, <1>5, <1>6 DEF TypeOK
<1>8. BuysKeepTheirLimits'
  BY <1>1, <1>6 DEF BuysKeepTheirLimits
<1>9. NoRoundTrip'
  BY <1>1, <1>6 DEF NoRoundTrip
<1>10. RosterWithinSlots'
  BY <1>1 DEF RosterWithinSlots
<1>11. None' = None
  BY DEF None
<1>. QED  BY <1>1, <1>7, <1>8, <1>9, <1>10, <1>11 DEF IInv

\* A run that raises changes nothing; nor does a stutter.
LEMMA NothingChanges ==
  ASSUME IInv, UNCHANGED <<p, value, cash, run, sells, buys>>, runs' \in 0..MaxRuns
  PROVE  IInv'
<1>1. TypeOK'
  BY DEF IInv, TypeOK
<1>2. Equity' = Equity /\ Held' = Held
  BY DEF Equity, Held
<1>3. BuysKeepTheirLimits'
  BY <1>2 DEF IInv, BuysKeepTheirLimits, Cap
<1>4. NoRoundTrip'
  BY DEF IInv, NoRoundTrip
<1>5. RosterWithinSlots'
  <2>1. \A b : Roster(b)' = Roster(b)
    BY <1>2 DEF Roster
  <2>. QED  BY <1>2, <2>1 DEF IInv, RosterWithinSlots
<1>6. None' = None
  BY DEF None
<1>. QED  BY <1>1, <1>3, <1>4, <1>5, <1>6 DEF IInv

\* Every step keeps it.
LEMMA StepKeeps ==
  IInv /\ [Next]_vars => IInv'
<1> SUFFICES ASSUME IInv, [Next]_vars PROVE IInv'
  OBVIOUS
<1>1. runs \in 0..MaxRuns /\ MaxRuns \in Nat
  BY SizingAssumption DEF IInv, TypeOK
<1>2. ASSUME NEW mode \in {"weekly", "dislocation"}, NEW r \in Readings, Evaluate(mode, r)
      PROVE  IInv'
  BY <1>2, EvaluateKeeps
<1>3. ASSUME NEW mode, NEW r, EvaluateRaises(mode, r) PROVE IInv'
  <2>1. UNCHANGED <<p, value, cash, run, sells, buys>> /\ runs' \in 0..MaxRuns
    BY <1>1, <1>3 DEF EvaluateRaises
  <2>. QED  BY <2>1, NothingChanges
<1>4. ASSUME NEW refused \in {R \in SUBSET Ordered : Cardinality(R) <= MaxRefused},
             NEW doubled \in SUBSET Movers, Settle(refused, doubled)
      PROVE  IInv'
  <2>1. refused \in SUBSET Symbols
    BY DEF Ordered
  <2>. QED  BY <1>4, <2>1, SettleKeeps
<1>5. CASE UNCHANGED vars
  BY <1>1, <1>5, NothingChanges DEF vars
<1>. QED  BY <1>2, <1>3, <1>4, <1>5 DEF Next

\* What a run may say of its orders holds in every state.
LEMMA Invariance ==
  Spec => []IInv
BY InitHolds, StepKeeps, PTL DEF Spec

\* Positions, cash and amounts are natural numbers: a run neither sells what is not held
\* nor spends what is not there, whatever of it is refused.
THEOREM AmountsTyped ==
  Spec => []TypeOK
<1>1. IInv => TypeOK
  BY DEF IInv
<1>. QED  BY <1>1, Invariance, PTL

\* Buys leave the reserve alone, keep to the deployment cap and to each name's max_weight,
\* in either sizing and on a dislocation day too.
THEOREM LimitsKept ==
  Spec => []BuysKeepTheirLimits
<1>1. IInv => BuysKeepTheirLimits
  BY DEF IInv
<1>. QED  BY <1>1, Invariance, PTL

\* No run buys the symbol it sells, unless exits go by rank and slots by incumbency.
THEOREM NeverBothWays ==
  Spec => []NoRoundTrip
<1>1. IInv => NoRoundTrip
  BY DEF IInv
<1>. QED  BY <1>1, Invariance, PTL

\* Exits that wait for nothing keep a ranked bucket within its slots.
THEOREM SlotsKept ==
  Spec => []RosterWithinSlots
<1>1. IInv => RosterWithinSlots
  BY DEF IInv
<1>. QED  BY <1>1, Invariance, PTL
-----------------------------------------------------------------------------
(* Sums of which a part is taken, or to which a term is added.              *)

\* f on S, and nothing elsewhere.
Only(f, S) == [x \in DOMAIN f |-> IF x \in S THEN f[x] ELSE 0]

\* The sum over a part of the domain.
LEMMA SigmaIsTotal ==
  ASSUME NEW D, IsFiniteSet(D), NEW f \in [D -> Int]
  PROVE  \A S \in SUBSET D : Only(f, S) \in [D -> Int] /\ Sigma(f)[S] = Total(Only(f, S))
<1> DEFINE Good == {S \in SUBSET D : Sigma(f)[S] = Total(Only(f, S))}
<1>1. DOMAIN f = D
  OBVIOUS
<1>2. \A S : Only(f, S) \in [D -> Int] /\ \A x \in D : Only(f, S)[x] = IF x \in S THEN f[x] ELSE 0
  BY <1>1 DEF Only
<1>3. {} \in Good
  <2>1. Total(Only(f, {})) = 0
    BY <1>2, TotalOfNone
  <2>. QED  BY <1>1, <2>1, SigmaIs
<1>4. ASSUME NEW S \in SUBSET D, S # {}, S \ {Any(S)} \in Good PROVE S \in Good
  <2>1. PICK a : a = Any(S)
    OBVIOUS
  <2>2. a \in S /\ a \in D /\ Sigma(f)[S] = f[a] + Sigma(f)[S \ {a}]
    BY <1>1, <1>4, <2>1, SigmaIs
  <2>3. Sigma(f)[S \ {a}] = Total(Only(f, S \ {a}))
    BY <1>4, <2>1
  <2>4. \A y \in D \ {a} : Only(f, S)[y] = Only(f, S \ {a})[y]
    BY <1>2
  <2>5. Only(f, S)[a] = f[a] /\ Only(f, S \ {a})[a] = 0
    BY <1>2, <2>2
  <2>6. Total(Only(f, S)) = Total(Only(f, S \ {a})) + (f[a] - 0)
    BY <1>2, <2>2, <2>4, <2>5, TotalChange
  <2>7. Total(Only(f, S \ {a})) \in Int /\ f[a] \in Int
    BY <1>2, <2>2, TotalTyped
  <2>. QED  BY <2>2, <2>3, <2>6, <2>7
<1>5. SUBSET D \subseteq Good
  <2> HIDE DEF Good
  <2>. QED  BY <1>3, <1>4, SubsetInduction
<1>. QED  BY <1>2, <1>5

\* Numbers that are 0 may be left out of the domain.
LEMMA TotalOfPart ==
  ASSUME NEW D, IsFiniteSet(D), NEW E \in SUBSET D, NEW f \in [D -> Int], NEW g \in [E -> Int],
         \A x \in E : f[x] = g[x], \A x \in D \ E : f[x] = 0
  PROVE  Total(f) = Total(g)
<1> DEFINE Good == {S \in SUBSET E : Sigma(f)[S] = Sigma(g)[S]}
<1>1. DOMAIN f = D /\ DOMAIN g = E /\ IsFiniteSet(E)
  BY FS_Subset
<1>2. {} \in Good
  BY <1>1, SigmaIs
<1>3. ASSUME NEW S \in SUBSET E, S # {}, S \ {Any(S)} \in Good PROVE S \in Good
  <2>1. /\ Any(S) \in S /\ Any(S) \in E
        /\ Sigma(f)[S] = f[Any(S)] + Sigma(f)[S \ {Any(S)}]
        /\ Sigma(g)[S] = g[Any(S)] + Sigma(g)[S \ {Any(S)}]
    BY <1>1, <1>3, SigmaIs
  <2>. QED  BY <1>3, <2>1
<1>4. SUBSET E \subseteq Good
  <2> HIDE DEF Good
  <2>. QED  BY <1>1, <1>2, <1>3, SubsetInduction
<1>5. Sigma(f)[E] = Sigma(g)[E] /\ Sigma(g)[E] = Total(g)
  BY <1>1, <1>4, TotalTyped
<1>6. Only(f, E) = f
  <2>1. \A x \in D : Only(f, E)[x] = f[x]
    BY <1>1 DEF Only
  <2>2. Only(f, E) \in [D -> Int]
    BY <1>1, SigmaIsTotal
  <2>. QED  BY <2>1, <2>2
<1>7. Sigma(f)[E] = Total(Only(f, E))
  BY SigmaIsTotal
<1>. QED  BY <1>5, <1>6, <1>7

\* The domain C is D and one more.
Grown(D, C, z, g, f) ==
  /\ IsFiniteSet(C) /\ z \in C /\ D \in SUBSET C /\ z \notin D /\ \A y \in C \ {z} : y \in D
  /\ g \in [D -> Int] /\ f \in [C -> Int] /\ \A x \in D : f[x] = g[x]

\* One more term adds to the sum.
LEMMA TotalGrows ==
  ASSUME NEW D, NEW C, NEW z, NEW g, NEW f, Grown(D, C, z, g, f)
  PROVE  Total(f) = Total(g) + f[z]
<1> DEFINE h == [x \in C |-> IF x = z THEN 0 ELSE f[x]]
<1>1. /\ IsFiniteSet(C) /\ z \in C /\ D \in SUBSET C /\ z \notin D /\ \A y \in C \ {z} : y \in D
      /\ g \in [D -> Int] /\ f \in [C -> Int] /\ \A x \in D : f[x] = g[x]
  BY DEF Grown
<1>2. h \in [C -> Int] /\ h[z] = 0 /\ (\A y \in C \ {z} : f[y] = h[y]) /\ z \in C
  BY <1>1
<1>3. (\A y \in D : h[y] = g[y]) /\ (\A y \in C \ D : h[y] = 0) /\ D \in SUBSET C
  BY <1>1
<1> HIDE DEF h
<1>5. Total(f) = Total(h) + (f[z] - h[z])
  BY <1>1, <1>2, TotalChange
<1>6. Total(h) = Total(g)
  BY <1>1, <1>2, <1>3, TotalOfPart
<1>7. Total(g) \in Int /\ f[z] \in Int
  BY <1>1, FS_Subset, TotalTyped
<1>. QED  BY <1>2, <1>5, <1>6, <1>7

\* The sum over two parts is the sum of the two sums.
LEMMA TotalSplit ==
  ASSUME NEW D, IsFiniteSet(D), NEW E, IsFiniteSet(E), D \cap E = {}, NEW C, C = D \cup E,
         NEW f \in [C -> Int], NEW g \in [D -> Int], NEW h \in [E -> Int],
         \A x \in D : f[x] = g[x], \A x \in E : f[x] = h[x]
  PROVE  Total(f) = Total(g) + Total(h)
<1> DEFINE a == [x \in C |-> IF x \in D THEN f[x] ELSE 0]
           b == [x \in C |-> IF x \in D THEN 0 ELSE f[x]]
<1>1. IsFiniteSet(C)
  BY FS_Union
<1>2. a \in [C -> Int] /\ b \in [C -> Int] /\ \A x \in C : f[x] = a[x] + b[x]
  OBVIOUS
<1>3. (\A x \in D : a[x] = g[x]) /\ (\A x \in C \ D : a[x] = 0) /\ D \in SUBSET C
  OBVIOUS
<1>4. (\A x \in E : b[x] = h[x]) /\ (\A x \in C \ E : b[x] = 0) /\ E \in SUBSET C
  OBVIOUS
<1> HIDE DEF a, b
<1>6. Total(f) = Total(a) + Total(b)
  BY <1>1, <1>2, TotalPlus
<1>7. Total(a) = Total(g)
  <2>1. a \in [C -> Int] /\ g \in [D -> Int]
    BY <1>2
  <2>. QED  BY <1>1, <1>3, <2>1, TotalOfPart
<1>8. Total(b) = Total(h)
  <2>1. b \in [C -> Int] /\ h \in [E -> Int]
    BY <1>2
  <2>. QED  BY <1>1, <1>4, <2>1, TotalOfPart
<1>. QED  BY <1>6, <1>7, <1>8

\* What is true of 0, and of a number when it is true of the one before, is true up to n.
LEMMA Chain ==
  ASSUME NEW n \in Nat, NEW Good, 0 \in Good, \A k \in 1..n : k - 1 \in Good => k \in Good
  PROVE  0..n \subseteq Good
<1> DEFINE Bad == {k \in 0..n : k \notin Good}
<1>1. Bad \subseteq Nat
  OBVIOUS
<1>2. ASSUME Bad # {} PROVE FALSE
  <2>1. PICK k \in Bad : \A j \in Bad : k <= j
    <3> HIDE DEF Bad
    <3>. QED  BY <1>1, <1>2, NatHasLeast
  <2>2. k \in 0..n /\ k \notin Good
    OBVIOUS
  <2>3. k \in 1..n
    BY <2>2
  <2>4. k - 1 \in 0..n /\ k - 1 \notin Bad
    <3> HIDE DEF Bad
    <3>. QED  BY <1>1, <2>1, <2>3
  <2>. QED  BY <2>2, <2>3, <2>4
<1>. QED  BY <1>2
-----------------------------------------------------------------------------
(* Purchases and sales. *)

\* A lot of no shares has cost nothing.
Lots     == {l \in [quantity : Nat, cost : Nat] : l.quantity = 0 => l.cost = 0}
Accounts == [cash : Int, lots : [Universe -> Lots], realised : Int, gains : [Years -> Int],
             fees : Nat, over : Int]

CostOf(a) == Total([x \in Universe |-> a.lots[x].cost])

\* What has come into the account and has not left it, as its entries have it.
Book(a) == a.cash + CostOf(a) + a.fees - a.realised - a.over

\* A quotient is at most what its divisor reaches, and exact when it divides.
LEMMA Quotients ==
  /\ \A a \in Nat : \A m \in Nat \ {0} : a \div m \in Nat /\ (a \div m) * m <= a
  /\ \A a, b \in Nat : \A m \in Nat \ {0} : a <= b * m => a \div m <= b
  /\ \A b \in Nat : \A m \in Nat \ {0} : (m * b) \div m = b
<1>1. \A a \in Nat : \A m \in Nat \ {0} : a \div m \in Nat /\ (a \div m) * m <= a /\ a < (a \div m) * m + m
  OBVIOUS
<1>2. \A a, b \in Nat : \A m \in Nat \ {0} : a <= b * m => a \div m <= b
  <2>1. TAKE a, b \in Nat
  <2>2. TAKE m \in Nat \ {0}
  <2>3. HAVE a <= b * m
  <2>4. PICK d \in Nat : d = a \div m /\ d * m <= a
    BY <1>1
  <2>5. d * m \in Nat /\ b * m \in Nat /\ d * m <= b * m /\ m \in Nat /\ m > 0
    BY <2>3, <2>4, Products
  <2>. QED  BY <2>4, <2>5, Products
<1>3. \A b \in Nat : \A m \in Nat \ {0} : (m * b) \div m = b
  <2>1. TAKE b \in Nat
  <2>2. TAKE m \in Nat \ {0}
  <2>3. PICK n \in Nat : n = m * b /\ n = b * m
    BY Products
  <2>4. PICK d \in Nat : d = n \div m /\ d * m <= n /\ n < d * m + m
    BY <1>1
  <2>5. d <= b
    BY <1>2, <2>3, <2>4
  <2>6. ASSUME d < b PROVE FALSE
    <3>1. d + 1 \in Nat /\ d + 1 <= b /\ m \in Nat
      BY <2>6
    <3>2. (d + 1) * m <= b * m
      BY <3>1, Products
    <3>3. (d + 1) * m = d * m + m /\ d * m \in Nat
      OBVIOUS
    <3>. QED  BY <2>3, <2>4, <3>2, <3>3
  <2>. QED  BY <2>3, <2>4, <2>5, <2>6
<1>. QED  BY <1>1, <1>2, <1>3

\* Percentages of up to a hundred are a part of what they are taken of.
LEMMA Fees ==
  ASSUME NEW n \in Nat
  PROVE  /\ Slippage(n) \in Nat /\ Slippage(n) <= n
         /\ Commission(n) \in Nat /\ Commission(n) <= n
<1>1. ASSUME NEW pct \in Nat, pct <= 100
      PROVE  (n * pct) \div 100 \in Nat /\ (n * pct) \div 100 <= n
  <2>1. pct * n <= 100 * n /\ pct * n = n * pct /\ 100 * n = n * 100 /\ n * pct \in Nat
    BY <1>1, Products
  <2>. QED  BY <2>1, Quotients
<1>2. SlipPct \in Nat /\ SlipPct <= 100 /\ FeePct \in Nat /\ FeePct <= 100
  BY BacktestParameters
<1>. QED  BY <1>1, <1>2 DEF Slippage, Commission

\* What a signal is: a purchase for an amount, or a sale of some shares.
LEMMA SignalIs ==
  ASSUME NEW s \in Signals
  PROVE  /\ s.symbol \in Universe /\ s.buy \in BOOLEAN /\ s.limit \in Nat \cup {Unknown}
         /\ s.buy  => s.amount \in Nat /\ s.quantity = Unknown
         /\ ~s.buy => s.quantity \in Nat /\ s.amount = Unknown
BY SignalsAreOrders

\* Prices of fills are natural numbers.
LEMMA FillPriceTyped ==
  ASSUME NEW s \in Signals, NEW bar \in Bar
  PROVE  FillPrice(s, bar) \in Nat
<1> DEFINE base == IF s.limit = Unknown THEN bar.open
                   ELSE IF s.buy THEN IF s.limit < bar.low  THEN 0 ELSE Least(s.limit, bar.open)
                   ELSE               IF s.limit > bar.high THEN 0 ELSE Most(s.limit, bar.open)
<1>1. base \in Nat
  <2>1. bar.open \in Nat /\ (s.limit \in Nat \/ s.limit = Unknown)
    BY SignalIs DEF Bar
  <2>. QED  BY <2>1 DEF Least, Most
<1>2. FillPrice(s, bar) = IF s.buy THEN base + Slippage(base) ELSE base - Slippage(base)
  BY DEF FillPrice
<1> HIDE DEF base
<1>. QED  BY <1>1, <1>2, Fees

\* The cost of the lots, when that of one of them changes.
LEMMA CostChange ==
  ASSUME NEW a \in Accounts, NEW x \in Universe, NEW lot \in Lots, NEW b,
         b.lots = [a.lots EXCEPT ![x] = lot]
  PROVE  CostOf(b) = CostOf(a) + (lot.cost - a.lots[x].cost) /\ CostOf(a) \in Int /\ CostOf(b) \in Int
<1> DEFINE f == [y \in Universe |-> a.lots[y].cost]
           g == [y \in Universe |-> b.lots[y].cost]
<1>1. a.lots \in [Universe -> Lots] /\ b.lots \in [Universe -> Lots]
      /\ b.lots[x] = lot /\ \A y \in Universe \ {x} : b.lots[y] = a.lots[y]
  BY DEF Accounts
<1>2. \A l \in Lots : l.cost \in Int
  BY DEF Lots
<1>3. f \in [Universe -> Int] /\ g \in [Universe -> Int] /\ g[x] = lot.cost /\ f[x] = a.lots[x].cost
      /\ \A y \in Universe \ {x} : g[y] = f[y]
  BY <1>1, <1>2
<1>4. IsFiniteSet(Universe)
  BY BacktestParameters
<1>5. CostOf(a) = Total(f) /\ CostOf(b) = Total(g)
  BY DEF CostOf
<1> HIDE DEF f, g
<1>. QED  BY <1>3, <1>4, <1>5, TotalChange, TotalTyped

\* A purchase takes its price and the commission out of the cash.
LEMMA BoughtIs ==
  ASSUME NEW a \in Accounts, NEW x \in Universe, NEW q \in Nat, NEW price \in Nat \ {0},
         NEW b, b = Bought(a, x, q, price)
  PROVE  /\ b \in Accounts /\ Book(b) = Book(a)
         /\ b.gains = a.gains /\ b.over = a.over
         /\ b.cash + b.fees = a.cash + a.fees - q * price
         /\ \A y \in Universe : b.lots[y].quantity >= a.lots[y].quantity
<1> DEFINE lot == [quantity |-> a.lots[x].quantity + q, cost |-> a.lots[x].cost + q * price]
<1>1. PICK n \in Nat : n = q * price /\ (q = 0 => n = 0)
  BY Products
<1>2. PICK fee \in Nat : fee = Commission(n)
  BY Fees
<1>3. a.cash \in Int /\ a.lots \in [Universe -> Lots] /\ a.realised \in Int /\ a.gains \in [Years -> Int]
      /\ a.fees \in Nat /\ a.over \in Int
  BY DEF Accounts
<1>4. a.lots[x] \in Lots /\ a.lots[x].quantity \in Nat /\ a.lots[x].cost \in Nat
      /\ (a.lots[x].quantity = 0 => a.lots[x].cost = 0)
  BY <1>3 DEF Lots
<1>5. lot \in Lots
  BY <1>1, <1>4 DEF Lots
<1>6. /\ b = [a EXCEPT !.cash = a.cash - n - fee, !.lots = [a.lots EXCEPT ![x] = lot],
                       !.fees = a.fees + fee]
  BY <1>1, <1>2 DEF Bought
<1>7. lot.cost = a.lots[x].cost + n /\ lot.quantity = a.lots[x].quantity + q
  BY <1>1
<1> HIDE DEF lot
<1>8. /\ b.cash = a.cash - n - fee /\ b.lots = [a.lots EXCEPT ![x] = lot] /\ b.fees = a.fees + fee
      /\ b.gains = a.gains /\ b.over = a.over /\ b.realised = a.realised
  BY <1>6 DEF Accounts
<1>9. b \in Accounts
  <2>1. [a.lots EXCEPT ![x] = lot] \in [Universe -> Lots]
    BY <1>3, <1>5
  <2>2. a.cash - n - fee \in Int /\ a.fees + fee \in Nat
    BY <1>3
  <2>. QED  BY <1>6, <2>1, <2>2 DEF Accounts
<1>10. Book(b) = Book(a)
  <2>1. CostOf(b) = CostOf(a) + (lot.cost - a.lots[x].cost) /\ CostOf(a) \in Int /\ CostOf(b) \in Int
    BY <1>5, <1>8, CostChange
  <2>. QED  BY <1>3, <1>4, <1>7, <1>8, <2>1 DEF Book
<1>11. \A y \in Universe : b.lots[y].quantity >= a.lots[y].quantity
  <2>1. TAKE y \in Universe
  <2>2. a.lots[y].quantity \in Nat
    BY <1>3 DEF Lots
  <2>. QED  BY <1>3, <1>4, <1>7, <1>8, <2>2
<1>12. b.cash + b.fees = a.cash + a.fees - n
  BY <1>3, <1>8
<1>. QED  BY <1>1, <1>8, <1>9, <1>10, <1>11, <1>12

\* A sale brings its price less the commission, and what it makes or loses goes to the
\* year's gains; a sale of no more than the lot has leaves `over` as it is.
LEMMA SoldIs ==
  ASSUME NEW a \in Accounts, NEW x \in Universe, NEW q \in Nat, NEW price \in Nat,
         Year(day) \in Years, rate \in Nat, NEW b, b = Sold(a, x, q, price)
  PROVE  /\ b \in Accounts /\ Book(b) = Book(a) /\ b.fees = a.fees
         /\ \A y \in Years \ {Year(day)} : b.gains[y] = a.gains[y]
         /\ q <= a.lots[x].quantity =>
              /\ b.over = a.over /\ b.cash >= a.cash
              /\ b.lots[x].quantity = a.lots[x].quantity - q
         /\ \A y \in Universe \ {x} : b.lots[y].quantity = a.lots[y].quantity
<1> DEFINE entry == IF a.lots[x].quantity = 0 THEN q * price
                    ELSE (q * a.lots[x].cost) \div a.lots[x].quantity
           all   == q >= a.lots[x].quantity
           lot   == IF all THEN NoLot
                    ELSE [quantity |-> a.lots[x].quantity - q, cost |-> a.lots[x].cost - entry]
<1>1. PICK n \in Nat : n = q * price /\ (q = 0 => n = 0)
  BY Products
<1>2. PICK net \in Nat : net = n - Commission(n)
  <2>1. Commission(n) \in Nat /\ Commission(n) <= n
    BY Fees
  <2>2. n - Commission(n) \in Nat
    BY <2>1
  <2>. QED  BY <2>2
<1>3. a.cash \in Int /\ a.lots \in [Universe -> Lots] /\ a.realised \in Int /\ a.gains \in [Years -> Int]
      /\ a.fees \in Nat /\ a.over \in Int
  BY DEF Accounts
<1>4. PICK h \in Nat, c \in Nat : h = a.lots[x].quantity /\ c = a.lots[x].cost /\ (h = 0 => c = 0)
  BY <1>3 DEF Lots
<1>5. PICK e \in Nat : e = entry /\ (q = h => e = c) /\ (q < h => e <= c)
  <2>1. CASE h = 0
    BY <1>1, <1>4, <2>1
  <2>2. CASE h # 0
    <3>1. PICK m \in Nat : m = q * c
      BY Products
    <3>2. entry = m \div h
      BY <1>4, <2>2, <3>1
    <3>3. m \div h \in Nat
      BY <2>2, Quotients
    <3>4. q = h => m \div h = c
      BY <2>2, <3>1, Quotients
    <3>5. q < h => m \div h <= c
      <4>1. HAVE q < h
      <4>2. q <= h
        BY <4>1
      <4>3. q * c <= h * c /\ h * c = c * h
        BY <4>2, Products
      <4>4. m <= c * h
        BY <3>1, <4>3
      <4>. QED  BY <2>2, <4>4, Quotients
    <3>. QED  BY <3>2, <3>3, <3>4, <3>5
  <2>. QED  BY <2>1, <2>2
<1>6. lot \in Lots /\ lot.cost = (IF q >= h THEN 0 ELSE c - e)
      /\ lot.quantity = (IF q >= h THEN 0 ELSE h - q)
  BY <1>4, <1>5 DEF Lots, NoLot
<1> HIDE DEF entry
<1>7. b = [a EXCEPT !.cash = a.cash + net, !.lots = [a.lots EXCEPT ![x] = lot],
                    !.realised = a.realised + (net - e),
                    !.gains = [a.gains EXCEPT ![Year(day)] = a.gains[Year(day)] + (net - e) * rate],
                    !.over = a.over + (IF q >= h THEN e - c ELSE 0)]
  BY <1>1, <1>2, <1>4, <1>5 DEF Sold, entry
<1> HIDE DEF lot
<1>8. PICK g \in Int : g = (net - e) * rate
  OBVIOUS
<1>9. /\ b.cash = a.cash + net /\ b.lots = [a.lots EXCEPT ![x] = lot] /\ b.fees = a.fees
      /\ b.realised = a.realised + (net - e)
      /\ b.gains = [a.gains EXCEPT ![Year(day)] = a.gains[Year(day)] + g]
      /\ b.over = a.over + (IF q >= h THEN e - c ELSE 0)
  BY <1>7, <1>8 DEF Accounts
<1>10. b \in Accounts
  <2>1. [a.lots EXCEPT ![x] = lot] \in [Universe -> Lots]
    BY <1>3, <1>6
  <2>2. a.cash + net \in Int /\ a.realised + (net - e) \in Int
        /\ a.over + (IF q >= h THEN e - c ELSE 0) \in Int
    BY <1>3
  <2>3. [a.gains EXCEPT ![Year(day)] = a.gains[Year(day)] + g] \in [Years -> Int]
    <3>1. a.gains[Year(day)] + g \in Int
      BY <1>3
    <3>. QED  BY <1>3, <3>1
  <2>. QED  BY <1>7, <1>8, <2>1, <2>2, <2>3 DEF Accounts
<1>11. Book(b) = Book(a)
  <2>1. CostOf(b) = CostOf(a) + (lot.cost - a.lots[x].cost) /\ CostOf(a) \in Int /\ CostOf(b) \in Int
    BY <1>6, <1>9, CostChange
  <2>. QED  BY <1>3, <1>4, <1>6, <1>9, <2>1 DEF Book
<1>12. \A y \in Years \ {Year(day)} : b.gains[y] = a.gains[y]
  BY <1>3, <1>9
<1>13. ASSUME q <= a.lots[x].quantity
       PROVE  /\ b.over = a.over /\ b.cash >= a.cash
              /\ b.lots[x].quantity = a.lots[x].quantity - q
  <2>1. b.lots[x] = lot
    BY <1>3, <1>9
  <2>2. a.over + (IF q >= h THEN e - c ELSE 0) = a.over
    BY <1>3, <1>4, <1>5, <1>13
  <2>3. (IF q >= h THEN 0 ELSE h - q) = h - q
    BY <1>4, <1>13
  <2>. QED  BY <1>3, <1>4, <1>6, <1>9, <2>1, <2>2, <2>3
<1>14. \A y \in Universe \ {x} : b.lots[y].quantity = a.lots[y].quantity
  BY <1>3, <1>9
<1>. QED  BY <1>9, <1>10, <1>11, <1>12, <1>13, <1>14
-----------------------------------------------------------------------------
(* The calendar. *)

\* Quotients grow with what is divided.
LEMMA QuotientGrows ==
  ASSUME NEW a \in Nat, NEW b \in Nat, a <= b, NEW m \in Nat \ {0}
  PROVE  a \div m <= b \div m
<1>1. PICK d \in Nat : d = b \div m /\ b < d * m + m
  BY \A c \in Nat : \A k \in Nat \ {0} : c \div k \in Nat /\ c < (c \div k) * k + k
<1>2. PICK c \in Nat : c = a \div m /\ c * m <= a
  BY Quotients
<1>3. ASSUME d < c PROVE FALSE
  <2>1. d + 1 \in Nat /\ d + 1 <= c /\ m \in Nat
    BY <1>3
  <2>2. (d + 1) * m <= c * m
    BY <2>1, Products
  <2>3. (d + 1) * m = d * m + m /\ d * m \in Nat /\ c * m \in Nat
    OBVIOUS
  <2>. QED  BY <1>1, <1>2, <2>2, <2>3
<1>. QED  BY <1>1, <1>2, <1>3

\* Months and years are counted from 0 and never go back.
LEMMA Calendar ==
  ASSUME NEW d \in Nat \ {0}
  PROVE  /\ Month(d) \in Nat /\ Year(d) \in Nat
         /\ d <= MonthDays => Month(d) = 0
         /\ \A e \in Nat : d <= e => Month(d) <= Month(e) /\ Year(d) <= Year(e)
<1>1. MonthDays \in Nat \ {0} /\ YearMonths \in Nat \ {0}
  BY BacktestParameters
<1>2. \A e \in Nat \ {0} : Month(e) \in Nat /\ Year(e) \in Nat
  <2>1. TAKE e \in Nat \ {0}
  <2>2. e - 1 \in Nat
    OBVIOUS
  <2>3. Month(e) \in Nat
    BY <1>1, <2>2, Quotients DEF Month
  <2>. QED  BY <1>1, <2>3, Quotients DEF Year
<1>3. ASSUME d <= MonthDays PROVE Month(d) = 0
  <2>1. PICK n \in Nat : n = d - 1
    OBVIOUS
  <2>2. n < MonthDays
    BY <1>1, <1>3, <2>1
  <2>3. n \div MonthDays = 0
    BY <1>1, <2>2
  <2>. QED  BY <2>1, <2>3 DEF Month
<1>4. ASSUME NEW e \in Nat, d <= e PROVE Month(d) <= Month(e) /\ Year(d) <= Year(e)
  <2>1. d - 1 \in Nat /\ e - 1 \in Nat /\ d - 1 <= e - 1 /\ e \in Nat \ {0}
    BY <1>4
  <2>2. Month(d) <= Month(e)
    BY <1>1, <2>1, QuotientGrows DEF Month
  <2>3. Month(d) \in Nat /\ Month(e) \in Nat
    BY <1>2, <2>1
  <2>4. Year(d) <= Year(e)
    BY <1>1, <2>2, <2>3, QuotientGrows DEF Year
  <2>. QED  BY <2>2, <2>4
<1>. QED  BY <1>2, <1>3, <1>4

\* The ledger has a page for every year that a session may fall in.
LEMMA YearInLedger ==
  ASSUME NEW d \in Nat \ {0}, d <= MaxSessions * MaxGap
  PROVE  Year(d) \in Years
<1>1. MaxSessions \in Nat /\ MaxGap \in Nat
  BY BacktestParameters
<1>2. PICK n \in Nat : n = MaxSessions * MaxGap
  BY <1>1, Products
<1>3. 1 + n \in Nat \ {0} /\ d <= 1 + n
  BY <1>2
<1>4. Year(d) <= Year(1 + n) /\ Year(d) \in Nat /\ Year(1 + n) \in Nat
  BY <1>3, Calendar
<1>. QED  BY <1>2, <1>4 DEF Years

-----------------------------------------------------------------------------
(* What queued orders ask for. *)

\* What the signals of q after the n-th come to, counted by f.
Left(q, f, n) == Total([i \in 1..Len(q) |-> IF i > n THEN f[q[i]] ELSE 0])

SharesOf(x) == [s \in Signals |-> IF ~s.buy /\ s.symbol = x THEN s.quantity ELSE 0]
Bids        == [s \in Signals |-> IF s.buy THEN s.amount ELSE 0]

\* Shares and amounts are natural numbers.
LEMMA AsksTyped ==
  Bids \in [Signals -> Nat] /\ \A x : SharesOf(x) \in [Signals -> Nat]
BY SignalIs DEF Bids, SharesOf

\* What is left is a natural number, less by the signal passed, and nothing of no signals.
LEMMA LeftIs ==
  ASSUME NEW q \in Seq(Signals), NEW f \in [Signals -> Nat]
  PROVE  /\ \A n \in Nat : Left(q, f, n) \in Nat
         /\ \A n \in 1..Len(q) : Left(q, f, n - 1) = Left(q, f, n) + f[q[n]]
         /\ Left(<<>>, f, 0) = 0
         /\ \A s \in Signals : Left(Append(q, s), f, 0) = Left(q, f, 0) + f[s]
<1> DEFINE T(n) == [i \in 1..Len(q) |-> IF i > n THEN f[q[i]] ELSE 0]
<1>1. PICK l \in Nat : l = Len(q)
  OBVIOUS
<1>2. IsFiniteSet(1..l) /\ \A i \in 1..l : q[i] \in Signals
  <2>1. 1 \in Int /\ l \in Int
    OBVIOUS
  <2>2. IsFiniteSet(1..l)
    BY <2>1, FS_Interval
  <2>. QED  BY <1>1, <2>2
<1>3. ASSUME NEW n \in Nat
      PROVE  /\ T(n) \in [1..l -> Nat] /\ Left(q, f, n) = Total(T(n)) /\ Left(q, f, n) \in Nat
             /\ \A i \in 1..l : T(n)[i] = IF i > n THEN f[q[i]] ELSE 0
  <2>1. T(n) \in [1..l -> Nat] /\ \A i \in 1..l : T(n)[i] = IF i > n THEN f[q[i]] ELSE 0
    BY <1>1, <1>2
  <2>2. Left(q, f, n) = Total(T(n))
    BY DEF Left
  <2>3. T(n) \in [1..l -> Int]
    BY <2>1
  <2> HIDE DEF T
  <2>4. Total(T(n)) \in Nat
    BY <1>2, <2>1, <2>3, TotalTyped
  <2>. QED  BY <2>1, <2>2, <2>4
<1> HIDE DEF T
<1>4. ASSUME NEW n \in 1..l PROVE Left(q, f, n - 1) = Left(q, f, n) + f[q[n]]
  <2>1. n - 1 \in Nat /\ n \in Nat
    OBVIOUS
  <2>2. T(n) \in [1..l -> Int] /\ T(n - 1) \in [1..l -> Int]
    <3>1. T(n) \in [1..l -> Nat] /\ T(n - 1) \in [1..l -> Nat]
      BY <1>3, <2>1
    <3>. QED  BY <3>1
  <2>3. \A i \in (1..l) \ {n} : T(n - 1)[i] = T(n)[i]
    <3>1. TAKE i \in (1..l) \ {n}
    <3>2. T(n - 1)[i] = (IF i > n - 1 THEN f[q[i]] ELSE 0) /\ T(n)[i] = (IF i > n THEN f[q[i]] ELSE 0)
      BY <1>3, <2>1
    <3>3. i > n - 1 <=> i > n
      OBVIOUS
    <3>. QED  BY <3>2, <3>3
  <2>4. T(n - 1)[n] = f[q[n]] /\ T(n)[n] = 0 /\ f[q[n]] \in Nat
    <3>1. T(n - 1)[n] = (IF n > n - 1 THEN f[q[n]] ELSE 0) /\ T(n)[n] = (IF n > n THEN f[q[n]] ELSE 0)
      BY <1>3, <2>1
    <3>. QED  BY <1>2, <2>1, <3>1
  <2>5. Total(T(n - 1)) = Total(T(n)) + (T(n - 1)[n] - T(n)[n])
    BY <1>2, <2>2, <2>3, TotalChange
  <2>6. Left(q, f, n) = Total(T(n)) /\ Left(q, f, n - 1) = Total(T(n - 1)) /\ Left(q, f, n) \in Nat
    BY <1>3, <2>1
  <2>. QED  BY <2>4, <2>5, <2>6
<1>5. Left(<<>>, f, 0) = 0
  <2> DEFINE g == [i \in 1..Len(<<>>) |-> IF i > 0 THEN f[<<>>[i]] ELSE 0]
  <2>1. g \in [{} -> Int] /\ \A i \in {} : g[i] = 0
    OBVIOUS
  <2>2. IsFiniteSet({})
    BY FS_EmptySet
  <2>3. Left(<<>>, f, 0) = Total(g)
    BY DEF Left
  <2> HIDE DEF g
  <2>. QED  BY <2>1, <2>2, <2>3, TotalOfNone
<1>6. ASSUME NEW s \in Signals PROVE Left(Append(q, s), f, 0) = Left(q, f, 0) + f[s]
  <2> DEFINE w == Append(q, s)
             g == [i \in 1..Len(w) |-> IF i > 0 THEN f[w[i]] ELSE 0]
  <2>1. Len(w) = l + 1 /\ (\A i \in 1..l : w[i] = q[i]) /\ w[l + 1] = s
    BY <1>1
  <2> HIDE DEF w
  <2>2. \A i \in 1..(l + 1) : w[i] \in Signals
    BY <1>2, <2>1
  <2>3. g \in [1..(l + 1) -> Int] /\ g[l + 1] = f[s] /\ \A i \in 1..l : g[i] = f[q[i]]
    BY <2>1, <2>2
  <2>4. 1..(l + 1) = (1..l) \cup {l + 1} /\ l + 1 \notin 1..l
    OBVIOUS
  <2>5. T(0) \in [1..l -> Int] /\ (\A i \in 1..l : T(0)[i] = f[q[i]]) /\ Left(q, f, 0) = Total(T(0))
    <3>1. T(0) \in [1..l -> Nat] /\ (\A i \in 1..l : T(0)[i] = IF i > 0 THEN f[q[i]] ELSE 0)
          /\ Left(q, f, 0) = Total(T(0))
      BY <1>3
    <3>. QED  BY <3>1
  <2>6. Left(w, f, 0) = Total(g)
    BY DEF Left
  <2> HIDE DEF g
  <2>7. g \in [(1..l) \cup {l + 1} -> Int] /\ \A i \in 1..l : g[i] = T(0)[i]
    BY <2>3, <2>4, <2>5
  <2>8. Total(g) = Total(T(0)) + g[l + 1]
    <3>1. PICK D, C, z : D = 1..l /\ z = l + 1 /\ C = 1..(l + 1)
      OBVIOUS
    <3>2. z \in C /\ D \in SUBSET C /\ z \notin D /\ \A y \in C \ {z} : y \in D
      BY <2>4, <3>1
    <3>3. IsFiniteSet(C)
      <4>1. C = D \cup {z} /\ IsFiniteSet(D)
        BY <1>2, <2>4, <3>1
      <4>. QED  BY <4>1, FS_AddElement
    <3>4. PICK h \in [D -> Int], k \in [C -> Int] : h = T(0) /\ k = g
      BY <2>3, <2>5, <3>1
    <3>5. \A i \in D : k[i] = h[i]
      BY <2>7, <3>1, <3>4
    <3>6. Grown(D, C, z, h, k)
      BY <3>2, <3>3, <3>5 DEF Grown
    <3>7. Total(k) = Total(h) + k[z]
      BY <3>6, TotalGrows
    <3>. QED  BY <3>1, <3>4, <3>7
  <2>. QED  BY <2>3, <2>5, <2>6, <2>8 DEF w
<1>. QED  BY <1>1, <1>3, <1>4, <1>5, <1>6
-----------------------------------------------------------------------------
(* What fills and stops do to the account. *)

\* A session that has opened.
Opened == /\ Year(day) \in Years /\ rate \in Nat \ {0}
          /\ bars \in [Universe -> Bar \cup {NoBar}]

\* b is an account with the books of a, and its gains except this year's.
Keeps(a, b) == /\ b \in Accounts /\ Book(b) = Book(a)
               /\ \A y \in Years \ {Year(day)} : b.gains[y] = a.gains[y]

\* One fill, with the shares and the cash that it is short of at most what it asks for.
LEMMA FillIs ==
  ASSUME NEW a \in Accounts, NEW s \in Signals, Opened, bars[s.symbol] # NoBar,
         NEW b, b = Fill(a, s)
  PROVE  /\ Keeps(a, b)
         /\ s.buy \/ s.quantity <= a.lots[s.symbol].quantity =>
              /\ b.over = a.over
              /\ b.cash + b.fees >= a.cash + a.fees - Bids[s]
              /\ \A x \in Universe : b.lots[x].quantity >= a.lots[x].quantity - SharesOf(x)[s]
<1> DEFINE price == FillPrice(s, bars[s.symbol])
<1>1. /\ s.symbol \in Universe /\ s.buy \in BOOLEAN
      /\ s.buy  => s.amount \in Nat
      /\ ~s.buy => s.quantity \in Nat
  BY SignalIs
<1>2. price \in Nat
  <2>1. bars[s.symbol] \in Bar
    BY <1>1 DEF Opened
  <2>. QED  BY <2>1, FillPriceTyped
<1>3. b = IF price = 0 THEN a
          ELSE IF s.buy THEN Bought(a, s.symbol, s.amount \div price, price)
          ELSE Sold(a, s.symbol, s.quantity, price)
  BY DEF Fill
<1>4. Bids[s] \in Nat /\ \A x \in Universe : SharesOf(x)[s] \in Nat /\ a.lots[x].quantity \in Nat
  <2>1. \A x \in Universe : a.lots[x].quantity \in Nat
    BY DEF Accounts, Lots
  <2>. QED  BY <2>1, AsksTyped
<1>5. a.cash \in Int /\ a.fees \in Nat
  BY DEF Accounts
<1>6. Year(day) \in Years /\ rate \in Nat
  BY DEF Opened
<1> HIDE DEF price
<1>7. CASE price = 0
  <2>1. b = a
    BY <1>3, <1>7
  <2>2. Keeps(a, b)
    BY <2>1 DEF Keeps
  <2>3. a.cash + a.fees >= a.cash + a.fees - Bids[s]
    BY <1>4, <1>5
  <2>4. \A x \in Universe : a.lots[x].quantity >= a.lots[x].quantity - SharesOf(x)[s]
    BY <1>4
  <2>. QED  BY <2>1, <2>2, <2>3, <2>4
<1>8. CASE price # 0 /\ s.buy
  <2>1. PICK q \in Nat : q = s.amount \div price /\ q * price <= s.amount
    BY <1>1, <1>2, <1>8, Quotients
  <2>2. b = Bought(a, s.symbol, q, price)
    BY <1>3, <1>8, <2>1
  <2>3. /\ b \in Accounts /\ Book(b) = Book(a)
        /\ b.gains = a.gains /\ b.over = a.over
        /\ b.cash + b.fees = a.cash + a.fees - q * price
        /\ \A y \in Universe : b.lots[y].quantity >= a.lots[y].quantity
    BY <1>1, <1>2, <1>8, <2>1, <2>2, BoughtIs
  <2>4. Keeps(a, b)
    BY <2>3 DEF Keeps
  <2>5. Bids[s] = s.amount
    BY <1>8 DEF Bids
  <2>6. b.cash + b.fees >= a.cash + a.fees - Bids[s]
    <3>1. PICK n \in Nat : n = q * price
      BY <1>2, Products
    <3>2. n <= Bids[s] /\ b.cash + b.fees = a.cash + a.fees - n
      BY <2>1, <2>3, <2>5, <3>1
    <3>3. b.cash \in Int /\ b.fees \in Nat
      BY <2>3 DEF Accounts
    <3>. QED  BY <1>4, <1>5, <3>2, <3>3
  <2>7. \A x \in Universe : b.lots[x].quantity >= a.lots[x].quantity - SharesOf(x)[s]
    <3>1. TAKE x \in Universe
    <3>2. b.lots[x].quantity \in Nat
      BY <2>3 DEF Accounts, Lots
    <3>3. b.lots[x].quantity >= a.lots[x].quantity
      BY <2>3
    <3>. QED  BY <1>4, <3>2, <3>3
  <2>. QED  BY <2>3, <2>4, <2>6, <2>7
<1>9. CASE price # 0 /\ ~s.buy
  <2>1. b = Sold(a, s.symbol, s.quantity, price)
    BY <1>3, <1>9
  <2>2. /\ b \in Accounts /\ Book(b) = Book(a) /\ b.fees = a.fees
        /\ \A y \in Years \ {Year(day)} : b.gains[y] = a.gains[y]
        /\ s.quantity <= a.lots[s.symbol].quantity =>
             /\ b.over = a.over /\ b.cash >= a.cash
             /\ b.lots[s.symbol].quantity = a.lots[s.symbol].quantity - s.quantity
        /\ \A y \in Universe \ {s.symbol} : b.lots[y].quantity = a.lots[y].quantity
    <3>1. PICK x \in Universe, q \in Nat, c \in Nat : x = s.symbol /\ q = s.quantity /\ c = price
      BY <1>1, <1>2, <1>9
    <3>2. b = Sold(a, x, q, c)
      BY <2>1, <3>1
    <3>3. b \in Accounts /\ Book(b) = Book(a) /\ b.fees = a.fees
      BY <1>6, <3>2, SoldIs
    <3>4. \A y \in Years \ {Year(day)} : b.gains[y] = a.gains[y]
      BY <1>6, <3>2, SoldIs
    <3>5. q <= a.lots[x].quantity =>
            /\ b.over = a.over /\ b.cash >= a.cash
            /\ b.lots[x].quantity = a.lots[x].quantity - q
      BY <1>6, <3>2, SoldIs
    <3>6. \A y \in Universe \ {x} : b.lots[y].quantity = a.lots[y].quantity
      BY <1>6, <3>2, SoldIs
    <3>. QED  BY <3>1, <3>3, <3>4, <3>5, <3>6
  <2>3. Keeps(a, b)
    BY <2>2 DEF Keeps
  <2>4. ASSUME s.quantity <= a.lots[s.symbol].quantity
        PROVE  /\ b.over = a.over
               /\ b.cash + b.fees >= a.cash + a.fees - Bids[s]
               /\ \A x \in Universe : b.lots[x].quantity >= a.lots[x].quantity - SharesOf(x)[s]
    <3>1. b.cash \in Int
      BY <2>2 DEF Accounts
    <3>2. b.cash + b.fees >= a.cash + a.fees - Bids[s]
      BY <1>4, <1>5, <2>2, <2>4, <3>1
    <3>3. ASSUME NEW x \in Universe
          PROVE  b.lots[x].quantity >= a.lots[x].quantity - SharesOf(x)[s]
      <4>1. CASE x = s.symbol
        <5>1. SharesOf(x)[s] = s.quantity
          BY <1>9, <4>1 DEF SharesOf
        <5>2. b.lots[x].quantity = a.lots[x].quantity - SharesOf(x)[s]
          BY <2>2, <2>4, <4>1, <5>1
        <5>. QED  BY <1>4, <5>2
      <4>2. CASE x # s.symbol
        <5>1. b.lots[x].quantity = a.lots[x].quantity
          BY <2>2, <4>2
        <5>. QED  BY <1>4, <5>1
      <4>. QED  BY <4>1, <4>2
    <3>. QED  BY <2>2, <2>4, <3>2, <3>3
  <2>. QED  BY <1>9, <2>3, <2>4
<1>. QED  BY <1>1, <1>7, <1>8, <1>9
\* The account and the waiting signals after each of the pending ones: Executed's own
\* recursion, up to the n-th.
Fills(d, n) ==
  [k \in 0..n |->
     IF k = 0 THEN [account |-> account, waiting |-> <<>>]
     ELSE IF bars[pending[k].symbol] = NoBar
          THEN [d[k - 1] EXCEPT !.waiting = Append(@, pending[k])]
          ELSE [d[k - 1] EXCEPT !.account = Fill(@, pending[k])]]

\* There is a function that it defines.
LEMMA FillsExist ==
  ASSUME NEW n \in Nat
  PROVE  \E d : d = Fills(d, n)
<1> DEFINE Step(d, k) == IF bars[pending[k].symbol] = NoBar
                         THEN [d EXCEPT !.waiting = Append(@, pending[k])]
                         ELSE [d EXCEPT !.account = Fill(@, pending[k])]
           Start == [account |-> account, waiting |-> <<>>]
           Good == {k \in 0..n : \E d : d = Fills(d, k)}
<1>1. \A d, k : Fills(d, k) = [i \in 0..k |-> IF i = 0 THEN Start ELSE Step(d[i - 1], i)]
  BY DEF Fills
<1> HIDE DEF Step, Start
<1>2. 0 \in Good
  <2> DEFINE d == [i \in 0..0 |-> Start]
  <2>1. \A i \in 0..0 : i = 0
    OBVIOUS
  <2>2. d = [i \in 0..0 |-> IF i = 0 THEN Start ELSE Step(d[i - 1], i)]
    BY <2>1
  <2>3. \E e : e = Fills(e, 0)
    BY <1>1, <2>2
  <2>. QED  BY <2>3
<1>3. ASSUME NEW k \in 1..n, k - 1 \in Good PROVE k \in Good
  <2>1. PICK g : g = Fills(g, k - 1)
    BY <1>3
  <2> DEFINE h == [i \in 0..k |-> IF i = k THEN Step(g[k - 1], k) ELSE g[i]]
  <2>2. \A i \in 0..(k - 1) : g[i] = IF i = 0 THEN Start ELSE Step(g[i - 1], i)
    BY <1>1, <2>1
  <2>3. \A i \in 0..k : h[i] = IF i = 0 THEN Start ELSE Step(h[i - 1], i)
    <3>1. TAKE i \in 0..k
    <3>2. CASE i = k
      <4>1. h[k - 1] = g[k - 1] /\ h[k] = Step(g[k - 1], k)
        OBVIOUS
      <4>. QED  BY <3>2, <4>1
    <3>3. CASE i # k
      <4>1. i \in 0..(k - 1) /\ h[i] = g[i] /\ (i # 0 => h[i - 1] = g[i - 1])
        BY <3>3
      <4>. QED  BY <2>2, <4>1
    <3>. QED  BY <3>2, <3>3
  <2>4. h = [i \in 0..k |-> h[i]]
    OBVIOUS
  <2> HIDE DEF h
  <2>5. h = [i \in 0..k |-> IF i = 0 THEN Start ELSE Step(h[i - 1], i)]
    BY <2>3, <2>4
  <2>6. h = Fills(h, k)
    BY <1>1, <2>5
  <2>7. k \in 0..n
    OBVIOUS
  <2>. QED  BY <2>6, <2>7
<1>4. 0..n \subseteq Good
  <2> HIDE DEF Good
  <2>. QED  BY <1>2, <1>3, Chain
<1>5. n \in Good
  BY <1>4
<1>. QED  BY <1>5

\* ... and Executed takes its last value.
LEMMA ExecutedStep ==
  ASSUME pending \in Seq(Signals)
  PROVE  \E d : /\ Executed = d[Len(pending)]
                /\ d[0] = [account |-> account, waiting |-> <<>>]
                /\ \A k \in 1..Len(pending) :
                     d[k] = IF bars[pending[k].symbol] = NoBar
                            THEN [d[k - 1] EXCEPT !.waiting = Append(@, pending[k])]
                            ELSE [d[k - 1] EXCEPT !.account = Fill(@, pending[k])]
<1>1. PICK n \in Nat : n = Len(pending)
  OBVIOUS
<1> DEFINE d == CHOOSE d : d = Fills(d, n)
<1>2. Executed = d[n]
  BY <1>1 DEF Executed, Fills
<1>3. d = Fills(d, n)
  BY FillsExist
<1> HIDE DEF d
<1>4. d[0] = [account |-> account, waiting |-> <<>>]
  BY <1>3 DEF Fills
<1>5. ASSUME NEW k \in 1..n
      PROVE  d[k] = IF bars[pending[k].symbol] = NoBar
                    THEN [d[k - 1] EXCEPT !.waiting = Append(@, pending[k])]
                    ELSE [d[k - 1] EXCEPT !.account = Fill(@, pending[k])]
  <2> DEFINE Step(e, i) == IF bars[pending[i].symbol] = NoBar
                           THEN [e EXCEPT !.waiting = Append(@, pending[i])]
                           ELSE [e EXCEPT !.account = Fill(@, pending[i])]
             Start == [account |-> account, waiting |-> <<>>]
  <2>1. d = [i \in 0..n |-> IF i = 0 THEN Start ELSE Step(d[i - 1], i)]
    BY <1>3 DEF Fills
  <2> HIDE DEF Step, Start
  <2>2. PICK f : f = d
    OBVIOUS
  <2>3. f = [i \in 0..n |-> IF i = 0 THEN Start ELSE Step(f[i - 1], i)]
    BY <2>1, <2>2
  <2>4. k \in 0..n /\ k # 0
    OBVIOUS
  <2>5. f[k] = Step(f[k - 1], k)
    BY <2>3, <2>4
  <2>. QED  BY <2>2, <2>5 DEF Step
<1>. QED  BY <1>1, <1>2, <1>4, <1>5

\* The books agree after the fills as they did before.
LEMMA ExecutedKeeps ==
  ASSUME account \in Accounts, pending \in Seq(Signals), Opened
  PROVE  Keeps(account, Executed.account) /\ Executed.waiting \in Seq(Signals)
<1>1. PICK n \in Nat : n = Len(pending)
  OBVIOUS
<1>2. PICK d : /\ Executed = d[n]
               /\ d[0] = [account |-> account, waiting |-> <<>>]
               /\ \A k \in 1..n :
                    d[k] = IF bars[pending[k].symbol] = NoBar
                           THEN [d[k - 1] EXCEPT !.waiting = Append(@, pending[k])]
                           ELSE [d[k - 1] EXCEPT !.account = Fill(@, pending[k])]
  BY <1>1, ExecutedStep
<1> DEFINE State == [account : Accounts, waiting : Seq(Signals)]
           Good == {k \in 0..n : d[k] \in State /\ Keeps(account, d[k].account)}
<1>3. 0 \in Good
  <2>1. Keeps(account, account)
    BY DEF Keeps
  <2>2. <<>> \in Seq(Signals)
    OBVIOUS
  <2>3. d[0] \in State /\ d[0].account = account
    BY <1>2, <2>2
  <2>4. 0 \in 0..n
    OBVIOUS
  <2>. QED  BY <2>1, <2>3, <2>4
<1>4. ASSUME NEW k \in 1..n, k - 1 \in Good PROVE k \in Good
  <2>1. PICK s \in Signals : s = pending[k]
    BY <1>1
  <2>2. PICK e \in State : e = d[k - 1] /\ Keeps(account, e.account)
    BY <1>4
  <2>3. d[k] = IF bars[s.symbol] = NoBar THEN [e EXCEPT !.waiting = Append(@, s)]
               ELSE [e EXCEPT !.account = Fill(@, s)]
    BY <1>2, <2>1, <2>2
  <2>4. e.account \in Accounts /\ e.waiting \in Seq(Signals)
    BY <2>2
  <2>5. CASE bars[s.symbol] = NoBar
    <3>1. PICK w \in Seq(Signals) : w = Append(e.waiting, s)
      <4>1. \A v \in Seq(Signals) : Append(v, s) \in Seq(Signals)
        OBVIOUS
      <4>. QED  BY <2>4, <4>1
    <3>2. d[k] = [account |-> e.account, waiting |-> w]
      BY <2>3, <2>5, <3>1
    <3>3. d[k] \in State /\ d[k].account = e.account
      BY <2>4, <3>2
    <3>4. k \in 0..n
      OBVIOUS
    <3>. QED  BY <2>2, <3>3, <3>4
  <2>6. CASE bars[s.symbol] # NoBar
    <3>1. PICK a \in Accounts : a = e.account
      BY <2>4
    <3>2. PICK b : b = Fill(a, s)
      OBVIOUS
    <3>3. Keeps(a, b)
      BY <2>6, <3>2, FillIs
    <3>4. d[k] = [account |-> b, waiting |-> e.waiting]
      BY <2>3, <2>6, <3>1, <3>2
    <3>5. Keeps(account, b)
      BY <2>2, <3>1, <3>3 DEF Keeps
    <3>6. b \in Accounts
      BY <3>3 DEF Keeps
    <3>. QED  BY <2>4, <3>4, <3>5, <3>6
  <2>. QED  BY <2>5, <2>6
<1>5. 0..n \subseteq Good
  <2> HIDE DEF Good
  <2>. QED  BY <1>3, <1>4, Chain
<1>6. n \in Good
  BY <1>5
<1>. QED  BY <1>2, <1>6

\* What the queue asks for is there: the shares of each symbol, and the cash, but for
\* what tax and commissions have taken.
Backed(a, n) ==
  /\ a.over = 0
  /\ a.cash + taxes + a.fees >= Left(pending, Bids, n)
  /\ \A x \in Universe : Left(pending, SharesOf(x), n) <= a.lots[x].quantity

\* Cash i and commissions f become j and g for no more than c, of l + c that were there.
Pays(i, f, j, g, t, l, c) ==
  /\ i \in Int /\ f \in Nat /\ j \in Int /\ g \in Nat /\ t \in Nat /\ l \in Nat /\ c \in Nat
  /\ i + t + f >= l + c /\ j + g >= i + f - c

\* Then l is left.
LEMMA PaysEnough ==
  ASSUME NEW i, NEW f, NEW j, NEW g, NEW t, NEW l, NEW c, Pays(i, f, j, g, t, l, c)
  PROVE  j + t + g >= l
BY DEF Pays

\* A queue that is backed is filled out of what is there, when all of it is filled.
LEMMA ExecutedIsBacked ==
  ASSUME account \in Accounts, pending \in Seq(Signals), Opened, taxes \in Nat,
         Backed(account, 0), Executed.waiting = <<>>
  PROVE  Executed.account.over = 0 /\ Executed.account.cash + taxes + Executed.account.fees >= 0
<1>1. PICK n \in Nat : n = Len(pending)
  OBVIOUS
<1>2. PICK d : /\ Executed = d[n]
               /\ d[0] = [account |-> account, waiting |-> <<>>]
               /\ \A k \in 1..n :
                    d[k] = IF bars[pending[k].symbol] = NoBar
                           THEN [d[k - 1] EXCEPT !.waiting = Append(@, pending[k])]
                           ELSE [d[k - 1] EXCEPT !.account = Fill(@, pending[k])]
  BY <1>1, ExecutedStep
<1> DEFINE State == [account : Accounts, waiting : Seq(Signals)]
           Good == {k \in 0..n : d[k] \in State /\ (d[k].waiting = <<>> => Backed(d[k].account, k))}
<1>3. 0 \in Good
  <2>1. <<>> \in Seq(Signals)
    OBVIOUS
  <2>2. d[0] \in State /\ d[0].account = account
    BY <1>2, <2>1
  <2>3. 0 \in 0..n
    OBVIOUS
  <2>. QED  BY <2>2, <2>3
<1>4. ASSUME NEW k \in 1..n, k - 1 \in Good PROVE k \in Good
  <2>1. PICK s \in Signals : s = pending[k]
    BY <1>1
  <2>2. PICK e \in State : e = d[k - 1] /\ (e.waiting = <<>> => Backed(e.account, k - 1))
    BY <1>4
  <2>3. d[k] = IF bars[s.symbol] = NoBar THEN [e EXCEPT !.waiting = Append(@, s)]
               ELSE [e EXCEPT !.account = Fill(@, s)]
    BY <1>2, <2>1, <2>2
  <2>4. e.account \in Accounts /\ e.waiting \in Seq(Signals)
    BY <2>2
  <2>5. CASE bars[s.symbol] = NoBar
    <3>1. PICK w \in Seq(Signals) : w = Append(e.waiting, s) /\ w # <<>>
      <4>1. \A v \in Seq(Signals) : Append(v, s) \in Seq(Signals) /\ Append(v, s) # <<>>
        OBVIOUS
      <4>. QED  BY <2>4, <4>1
    <3>2. d[k] = [account |-> e.account, waiting |-> w]
      BY <2>3, <2>5, <3>1
    <3>3. d[k] \in State /\ d[k].waiting # <<>>
      BY <2>4, <3>1, <3>2
    <3>4. k \in 0..n
      OBVIOUS
    <3>. QED  BY <3>3, <3>4
  <2>6. CASE bars[s.symbol] # NoBar
    <3>1. PICK a \in Accounts : a = e.account
      BY <2>4
    <3>2. PICK b : b = Fill(a, s)
      OBVIOUS
    <3>3. /\ Keeps(a, b)
          /\ s.buy \/ s.quantity <= a.lots[s.symbol].quantity =>
               /\ b.over = a.over
               /\ b.cash + b.fees >= a.cash + a.fees - Bids[s]
               /\ \A x \in Universe : b.lots[x].quantity >= a.lots[x].quantity - SharesOf(x)[s]
      BY <2>6, <3>2, FillIs
    <3>4. d[k] = [account |-> b, waiting |-> e.waiting]
      BY <2>3, <2>6, <3>1, <3>2
    <3>5. b \in Accounts
      BY <3>3 DEF Keeps
    <3>6. ASSUME e.waiting = <<>> PROVE Backed(b, k)
      <4> HIDE DEF State, Good
      <4>1. /\ a.over = 0
            /\ a.cash + taxes + a.fees >= Left(pending, Bids, k - 1)
            /\ \A x \in Universe : Left(pending, SharesOf(x), k - 1) <= a.lots[x].quantity
        BY <2>2, <3>1, <3>6 DEF Backed
      <4>2. k \in Nat /\ k \in 1..Len(pending)
        BY <1>1
      <4>3. /\ Left(pending, Bids, k) \in Nat
            /\ Left(pending, Bids, k - 1) = Left(pending, Bids, k) + Bids[s]
        BY <2>1, <4>2, AsksTyped, LeftIs
      <4>4. \A x \in Universe :
              /\ Left(pending, SharesOf(x), k) \in Nat
              /\ Left(pending, SharesOf(x), k - 1) = Left(pending, SharesOf(x), k) + SharesOf(x)[s]
        <5>1. TAKE x \in Universe
        <5>2. SharesOf(x) \in [Signals -> Nat]
          BY AsksTyped
        <5>. QED  BY <2>1, <4>2, <5>2, LeftIs
      <4>5. Bids[s] \in Nat /\ \A x \in Universe : SharesOf(x)[s] \in Nat
        BY AsksTyped
      <4>6. a.cash \in Int /\ a.fees \in Nat /\ b.cash \in Int /\ b.fees \in Nat
        BY <3>5 DEF Accounts
      <4>7. \A x \in Universe : a.lots[x].quantity \in Nat /\ b.lots[x].quantity \in Nat
        BY <3>5 DEF Accounts, Lots
      <4>8. s.buy \/ s.quantity <= a.lots[s.symbol].quantity
        <5>1. s.buy \/ (s.symbol \in Universe /\ s.quantity \in Nat)
          BY SignalIs
        <5>2. CASE ~s.buy
          <6>1. PICK x \in Universe : x = s.symbol
            BY <5>1, <5>2
          <6>2. SharesOf(x)[s] = s.quantity
            BY <5>2, <6>1 DEF SharesOf
          <6>3. Left(pending, SharesOf(x), k) + SharesOf(x)[s] <= a.lots[x].quantity
            BY <4>1, <4>4
          <6>4. Left(pending, SharesOf(x), k) \in Nat /\ SharesOf(x)[s] \in Nat /\ a.lots[x].quantity \in Nat
            BY <4>4, <4>5, <4>7
          <6>5. SharesOf(x)[s] <= a.lots[x].quantity
            BY <6>3, <6>4
          <6>. QED  BY <6>1, <6>2, <6>5
        <5>. QED  BY <5>2
      <4>9. b.over = 0
        BY <3>3, <4>1, <4>8
      <4>10. b.cash + taxes + b.fees >= Left(pending, Bids, k)
        <5>1. b.cash + b.fees >= a.cash + a.fees - Bids[s]
          BY <3>3, <4>8
        <5>2. PICK c \in Nat, l \in Nat, m \in Nat :
                c = Bids[s] /\ l = Left(pending, Bids, k) /\ m = Left(pending, Bids, k - 1) /\ m = l + c
          BY <4>3, <4>5
        <5>3. a.cash + taxes + a.fees >= l + c /\ b.cash + b.fees >= a.cash + a.fees - c
          BY <4>1, <5>1, <5>2
        <5>4. Pays(a.cash, a.fees, b.cash, b.fees, taxes, l, c)
          BY <4>6, <5>3 DEF Pays
        <5>5. b.cash + taxes + b.fees >= l
          BY <5>4, PaysEnough
        <5>. QED  BY <5>2, <5>5
      <4>11. ASSUME NEW x \in Universe PROVE Left(pending, SharesOf(x), k) <= b.lots[x].quantity
        <5>1. b.lots[x].quantity >= a.lots[x].quantity - SharesOf(x)[s]
          BY <3>3, <4>8
        <5>2. Left(pending, SharesOf(x), k) + SharesOf(x)[s] <= a.lots[x].quantity
          BY <4>1, <4>4
        <5>3. Left(pending, SharesOf(x), k) \in Nat /\ SharesOf(x)[s] \in Nat
              /\ a.lots[x].quantity \in Nat /\ b.lots[x].quantity \in Nat
          BY <4>4, <4>5, <4>7
        <5>. QED  BY <5>1, <5>2, <5>3
      <4>. QED  BY <4>9, <4>10, <4>11 DEF Backed
    <3>. QED  BY <2>4, <3>4, <3>5, <3>6
  <2>. QED  BY <2>5, <2>6
<1>5. 0..n \subseteq Good
  <2> HIDE DEF Good
  <2>. QED  BY <1>3, <1>4, Chain
<1>6. n \in Good
  BY <1>5
<1>7. PICK a \in Accounts : a = Executed.account /\ Backed(a, n)
  BY <1>2, <1>6
<1>8. Left(pending, Bids, n) \in Nat /\ a.cash \in Int /\ a.fees \in Nat
  BY AsksTyped, LeftIs DEF Accounts
<1>9. a.over = 0 /\ a.cash + taxes + a.fees >= Left(pending, Bids, n)
  BY <1>7 DEF Backed
<1>. QED  BY <1>7, <1>8, <1>9
\* A stop sells all of one lot, or nothing.
LEMMA StopIs ==
  ASSUME NEW a \in Accounts, NEW x \in Universe, Opened, NEW b, b = Stop(x, a)
  PROVE  Keeps(a, b) /\ b.over = a.over /\ b.cash >= a.cash /\ b.fees = a.fees
<1> DEFINE price == (a.lots[x].cost * (100 - StopPct)) \div (100 * a.lots[x].quantity)
           hit   == x \notin Safe /\ a.lots[x].quantity > 0 /\ bars[x] # NoBar /\ bars[x].low <= price
<1>1. PICK h \in Nat, c \in Nat : h = a.lots[x].quantity /\ c = a.lots[x].cost
  BY DEF Accounts, Lots
<1>2. b = IF hit THEN Sold(a, x, a.lots[x].quantity, price - Slippage(price)) ELSE a
  BY DEF Stop
<1>3. Year(day) \in Years /\ rate \in Nat
  BY DEF Opened
<1>4. CASE hit
  <2>1. h \in Nat \ {0}
    BY <1>1, <1>4
  <2>2. 100 - StopPct \in Nat
    BY BacktestParameters
  <2>3. c * (100 - StopPct) \in Nat /\ 100 * h \in Nat \ {0}
    BY <2>1, <2>2, Products
  <2>4. price \in Nat
    BY <1>1, <2>3, Quotients
  <2> HIDE DEF price
  <2>5. PICK m \in Nat : m = price - Slippage(price)
    <3>1. Slippage(price) \in Nat /\ Slippage(price) <= price
      BY <2>4, Fees
    <3>. QED  BY <2>4, <3>1
  <2>6. b = Sold(a, x, h, m)
    BY <1>1, <1>2, <1>4, <2>5
  <2>7. /\ b \in Accounts /\ Book(b) = Book(a) /\ b.fees = a.fees
        /\ \A y \in Years \ {Year(day)} : b.gains[y] = a.gains[y]
        /\ h <= a.lots[x].quantity => b.over = a.over /\ b.cash >= a.cash
    BY <1>3, <2>6, SoldIs
  <2>8. h <= a.lots[x].quantity
    BY <1>1
  <2>. QED  BY <2>7, <2>8 DEF Keeps
<1>5. CASE ~hit
  <2>1. b = a
    BY <1>2, <1>5
  <2>2. a.cash \in Int
    BY DEF Accounts
  <2>. QED  BY <2>1, <2>2 DEF Keeps
<1>. QED  BY <1>4, <1>5

\* The account after the stops of each set of positions: Stopped's own recursion.
Stops(g) ==
  [S \in SUBSET Universe |->
     IF S = {} THEN account
     ELSE LET x == CHOOSE x \in S : TRUE IN Stop(x, g[S \ {x}])]

\* There is a function that it defines.
LEMMA StopsExist ==
  \E g : g = Stops(g)
<1> DEFINE D == Universe
           Upto(k) == {S \in SUBSET D : Cardinality(S) <= k}
           Step(g, S) == IF S = {} THEN account ELSE Stop(Any(S), g[S \ {Any(S)}])
           P(k) == \E g : g = [S \in Upto(k) |-> Step(g, S)]
           n == Cardinality(D)
           Bad == {k \in 0..n : ~P(k)}
<1>0. n \in Nat /\ \A S \in SUBSET D : Cardinality(S) \in Nat /\ Cardinality(S) <= n
  BY BacktestParameters, Sizes
<1>1. P(0)
  <2> DEFINE g == [S \in Upto(0) |-> account]
  <2>1. \A S \in Upto(0) : S = {}
    <3>1. TAKE S \in Upto(0)
    <3>2. S \in SUBSET D /\ Cardinality(S) <= 0 /\ Cardinality(S) \in Nat
      BY <1>0
    <3>3. Cardinality(S) = 0
      BY <3>2
    <3>. QED  BY <3>2, <3>3, BacktestParameters, Sizes
  <2>2. g = [S \in Upto(0) |-> Step(g, S)]
    BY <2>1
  <2>. QED  BY <2>2
<1>2. ASSUME NEW k \in Nat \ {0}, P(k - 1) PROVE P(k)
  <2>1. PICK g : g = [S \in Upto(k - 1) |-> Step(g, S)]
    BY <1>2
  <2> DEFINE h == [S \in Upto(k) |-> Step(g, S)]
  <2>2. ASSUME NEW S \in Upto(k - 1) PROVE S \in Upto(k) /\ h[S] = g[S]
    <3>1. S \in Upto(k)
      <4>1. S \in SUBSET D /\ Cardinality(S) <= k - 1 /\ Cardinality(S) \in Nat
        BY <1>0
      <4>2. Cardinality(S) <= k
        BY <4>1
      <4>. QED  BY <4>1, <4>2
    <3>2. h[S] = Step(g, S)
      <4> HIDE DEF Step, Upto
      <4>. QED  BY <3>1
    <3>3. g[S] = Step(g, S)
      <4> HIDE DEF Step, Upto
      <4>. QED  BY <2>1
    <3>. QED  BY <3>1, <3>2, <3>3
  <2>3. ASSUME NEW S \in Upto(k) PROVE Step(g, S) = Step(h, S)
    <3>1. CASE S = {}
      BY <3>1
    <3>2. CASE S # {}
      <4>1. Any(S) \in S
        BY <3>2 DEF Any
      <4>2. S \in SUBSET D /\ Cardinality(S) <= k /\ Cardinality(S) \in Nat
        BY <1>0
      <4>3. S \ {Any(S)} \in SUBSET D /\ Cardinality(S \ {Any(S)}) = Cardinality(S) - 1
        BY <4>1, <4>2, BacktestParameters, Sizes
      <4>4. Cardinality(S \ {Any(S)}) <= k - 1
        BY <4>2, <4>3
      <4>5. S \ {Any(S)} \in Upto(k - 1)
        BY <4>3, <4>4
      <4>6. h[S \ {Any(S)}] = g[S \ {Any(S)}]
        <5> HIDE DEF h, Upto
        <5>. QED  BY <2>2, <4>5
      <4> HIDE DEF h
      <4>. QED  BY <3>2, <4>6
    <3>. QED  BY <3>1, <3>2
  <2>4. h = [S \in Upto(k) |-> Step(h, S)]
    <3>1. h = [S \in Upto(k) |-> h[S]] /\ \A S \in Upto(k) : h[S] = Step(g, S)
      <4> HIDE DEF Step, Upto
      <4>. QED  OBVIOUS
    <3> HIDE DEF h, Step, Upto
    <3>. QED  BY <2>3, <3>1
  <2>. QED  BY <2>4
<1> HIDE DEF P
<1>3. Bad = {}
  <2>0. Bad \subseteq Nat
    OBVIOUS
  <2>1. ASSUME Bad # {} PROVE FALSE
    <3>1. PICK k \in Bad : \A j \in Bad : k <= j
      <4> HIDE DEF Bad
      <4>. QED  BY <2>0, <2>1, NatHasLeast
    <3>2. k \in 0..n /\ ~P(k)
      OBVIOUS
    <3>3. k \in Nat \ {0}
      BY <1>0, <1>1, <3>2
    <3>4. k - 1 \in 0..n /\ k - 1 \notin Bad
      <4> HIDE DEF Bad, n
      <4>. QED  BY <1>0, <3>1, <3>2, <3>3
    <3>5. P(k - 1)
      BY <3>4
    <3>. QED  BY <1>2, <3>2, <3>3, <3>5
  <2>. QED  BY <2>1
<1>4. P(n)
  <2>1. n \in 0..n
    <3> HIDE DEF n
    <3>. QED  BY <1>0
  <2>. QED  BY <1>3, <2>1
<1>5. PICK g : g = [S \in Upto(n) |-> Step(g, S)]
  BY <1>4 DEF P
<1>6. Upto(n) = SUBSET D
  <2> HIDE DEF n
  <2>. QED  BY <1>0
<1>7. g = [S \in SUBSET D |-> Step(g, S)]
  <2> HIDE DEF Step, Upto
  <2>. QED  BY <1>5, <1>6
<1>. QED  BY <1>7 DEF Stops, Any

\* The books agree after the stops as before, nothing is sold that is not there, and
\* no cash is lost.
LEMMA StoppedKeeps ==
  ASSUME account \in Accounts, Opened
  PROVE  /\ Keeps(account, Stopped) /\ Stopped.over = account.over
         /\ Stopped.cash >= account.cash /\ Stopped.fees = account.fees
<1> DEFINE d == CHOOSE g : g = Stops(g)
<1>1. Stopped = d[Universe]
  BY DEF Stopped, Stops
<1>2. d = Stops(d)
  BY StopsExist
<1> HIDE DEF d
<1>3. PICK g : g = d
  OBVIOUS
<1>4. g = Stops(g)
  BY <1>2, <1>3
<1>5. \A S \in SUBSET Universe :
        g[S] = IF S = {} THEN account ELSE Stop(Any(S), g[S \ {Any(S)}])
  BY <1>4 DEF Stops, Any
<1>6. PICK u \in Accounts : u = account
  OBVIOUS
<1> DEFINE Fine(a) == Keeps(u, a) /\ a.over = u.over /\ a.cash >= u.cash /\ a.fees = u.fees
           Good == {S \in SUBSET Universe : Fine(g[S])}
<1>7. {} \in Good
  <2>1. u.cash \in Int
    BY DEF Accounts
  <2>2. Fine(u)
    BY <2>1 DEF Keeps
  <2> HIDE DEF Fine
  <2>. QED  BY <1>5, <1>6, <2>2
<1>8. ASSUME NEW S \in SUBSET Universe, S # {}, S \ {Any(S)} \in Good PROVE S \in Good
  <2>1. PICK x \in Universe : x = Any(S)
    BY <1>8 DEF Any
  <2>2. PICK a : a = g[S \ {x}]
    OBVIOUS
  <2>3. Fine(a)
    BY <1>8, <2>1, <2>2
  <2>4. PICK b : b = Stop(x, a)
    OBVIOUS
  <2>5. g[S] = b
    <3> HIDE DEF Fine, Good
    <3>. QED  BY <1>5, <1>8, <2>1, <2>2, <2>4
  <2>6. a \in Accounts
    BY <2>3 DEF Keeps
  <2>7. Keeps(a, b) /\ b.over = a.over /\ b.cash >= a.cash /\ b.fees = a.fees
    <3> HIDE DEF Fine, Good
    <3>. QED  BY <2>4, <2>6, StopIs
  <2>8. Keeps(u, b)
    BY <2>3, <2>7 DEF Keeps
  <2>9. b.cash >= u.cash
    <3>1. a.cash \in Int /\ u.cash \in Int
      BY <2>6 DEF Accounts
    <3>2. b.cash \in Int
      BY <2>7 DEF Keeps, Accounts
    <3>. QED  BY <2>3, <2>7, <3>1, <3>2
  <2>10. Fine(b)
    BY <2>3, <2>7, <2>8, <2>9
  <2> HIDE DEF Fine
  <2>. QED  BY <2>5, <2>10
<1>9. SUBSET Universe \subseteq Good
  <2> HIDE DEF Good
  <2>. QED  BY <1>7, <1>8, BacktestParameters, SubsetInduction
<1>10. Fine(g[Universe])
  <2>1. Universe \in SUBSET Universe
    OBVIOUS
  <2> HIDE DEF Fine
  <2>. QED  BY <1>9, <2>1
<1>. QED  BY <1>1, <1>3, <1>6, <1>10
-----------------------------------------------------------------------------
(* The invariant. *)

\* The day lies within the sessions so far, and accounts and bars are what they should be.
Dated ==
  /\ bars \in [Universe -> Bar \cup {NoBar}] /\ account \in Accounts
  /\ session = 0 => step = "night" /\ day = 0
  /\ session > 0 => day \in Nat \ {0}
  /\ day <= session * MaxGap

\* Years before this one are settled once a session has come past its tax.
Taxed ==
  /\ paid = Total([y \in settled |-> Bill(account.gains[y])])
  /\ session = 0 => settled = {}
  /\ session > 0 => settled \subseteq {y \in Years : y < Year(day)}
  /\ step \notin {"night", "fill", "stop", "tax"} => settled = {y \in Years : y < Year(day)}

\* The session is past its deposit; otherwise the month may still wait for one.
AtRest  == step \in {"context", "judge", "night"}
Awaited == IF funded = Month(day) THEN {0} ELSE {0, Month(day)}

\* Months that are due have their deposit, but for the one awaited.
Funded ==
  /\ session = 0 => due = {} /\ funded = -1 /\ deposited = 0
  /\ session > 0 => /\ due \subseteq 0..Month(day)
                    /\ DayOfMonth(day) >= DueDay => Month(day) \in due
  /\ session = 1 => Month(day) = 0
  /\ session = 1 /\ ~AtRest => funded = -1 /\ deposited = 0
  /\ session > 0 /\ AtRest => /\ funded \in due \cup {0}
                              /\ deposited = Seed + Monthly * Cardinality(due \ {0})
                              /\ Month(day) \in due => funded = Month(day)
  /\ session > 1 /\ ~AtRest =>
       /\ funded \in due \cup {0}
       /\ deposited = Seed + Monthly * Cardinality(due \ Awaited)
       /\ Month(day) \in due /\ funded # Month(day) => DayOfMonth(day) >= DueDay

\* As long as nothing has had to wait, the account backs the queue, which is empty
\* between the fills and the signals.
Covered ==
  ~waited => /\ Backed(account, 0)
             /\ step \in {"stop", "tax", "deposit", "context"} => pending = <<>>

\* The gate judges by the account as it is and by what the session has queued.
Snapshot ==
  ~waited /\ step = "judge" =>
    /\ ctx.power["USD"] = account.cash
    /\ \A x \in Universe : ctx.sellable[x] = IF Owned(x) = 0 THEN Unknown ELSE Owned(x)
    /\ committed.spent = [c \in {"USD"} |-> Left(pending, Bids, 0)]
    /\ committed.sold = [x \in Universe |-> Left(pending, SharesOf(x), 0)]

BooksInv == BacktestTypeOK /\ Dated /\ BooksBalance /\ Taxed /\ Funded /\ Covered /\ Snapshot

\* Accounts have the types of BacktestTypeOK.
LEMMA AccountTyped ==
  ASSUME NEW a \in Accounts
  PROVE  /\ a.cash \in Int /\ a.realised \in Int /\ a.gains \in [Years -> Int]
         /\ a.fees \in Nat /\ a.over \in Int /\ a.lots \in [Universe -> Lots]
         /\ \A x \in Universe : a.lots[x] \in [quantity : Nat, cost : Nat]
         /\ CostOf(a) \in Int
<1>1. /\ a.cash \in Int /\ a.realised \in Int /\ a.gains \in [Years -> Int]
      /\ a.fees \in Nat /\ a.over \in Int /\ a.lots \in [Universe -> Lots]
  BY DEF Accounts
<1>2. \A x \in Universe : a.lots[x] \in [quantity : Nat, cost : Nat] /\ a.lots[x].cost \in Int
  BY <1>1 DEF Lots
<1> DEFINE f == [x \in Universe |-> a.lots[x].cost]
<1>3. f \in [Universe -> Int]
  BY <1>2
<1>4. IsFiniteSet(Universe)
  BY BacktestParameters
<1>5. CostOf(a) = Total(f)
  BY DEF CostOf
<1> HIDE DEF f
<1>6. CostOf(a) \in Int
  BY <1>3, <1>4, <1>5, TotalTyped
<1>. QED  BY <1>1, <1>2, <1>6

\* The books balance when the entries come to what was put in less what tax took.
LEMMA Balanced ==
  ASSUME NEW a \in Accounts, NEW f \in Nat, NEW t \in Nat
  PROVE  a.cash + Total([x \in Universe |-> a.lots[x].cost]) = f - t - a.fees + a.realised + a.over
           <=> Book(a) = f - t
<1>1. PICK c \in Int : c = CostOf(a) /\ c = Total([x \in Universe |-> a.lots[x].cost])
  BY AccountTyped DEF CostOf
<1>2. PICK i \in Int, r \in Int, h \in Nat, o \in Int :
        i = a.cash /\ r = a.realised /\ h = a.fees /\ o = a.over
  BY AccountTyped, Zenon
<1>3. Book(a) = i + c + h - r - o
  BY <1>1, <1>2 DEF Book
<1>4. i + c = f - t - h + r + o <=> i + c + h - r - o = f - t
  OBVIOUS
<1>. QED  BY <1>1, <1>2, <1>3, <1>4

\* Session, day, year and month of a state that has opened.
LEMMA OpenedIs ==
  ASSUME BacktestTypeOK, Dated, session > 0
  PROVE  /\ Opened /\ session \in Nat \ {0} /\ day \in Nat \ {0}
         /\ Month(day) \in Nat /\ Year(day) \in Nat
<1>1. session \in Nat \ {0} /\ session <= MaxSessions /\ day \in Nat \ {0} /\ MaxSessions \in Nat /\ MaxGap \in Nat
  BY BacktestParameters DEF BacktestTypeOK, Dated
<1>2. session * MaxGap <= MaxSessions * MaxGap /\ session * MaxGap \in Nat /\ MaxSessions * MaxGap \in Nat
  BY <1>1, Products
<1>3. day <= MaxSessions * MaxGap
  BY <1>1, <1>2 DEF Dated
<1>4. Year(day) \in Years
  BY <1>1, <1>3, YearInLedger
<1>. QED  BY <1>1, <1>4, Calendar DEF Opened, Dated, BacktestTypeOK

\* What is due stays due while no deposit is made.
LEMMA FundedSame ==
  ASSUME Funded, UNCHANGED <<session, day, deposited, funded, due>>, AtRest' <=> AtRest
  PROVE  Funded'
<1>1. Awaited' = Awaited
  BY DEF Awaited
<1>. QED  BY <1>1 DEF Funded

\* Tax stays as it is while only gains of this year change.
LEMMA TaxedSame ==
  ASSUME Taxed, UNCHANGED <<session, day, settled, paid>>, session > 0,
         \A y \in Years \ {Year(day)} : account'.gains[y] = account.gains[y],
         step' \notin {"night", "fill", "stop", "tax"} => step \notin {"night", "fill", "stop", "tax"},
         Year(day) \in Nat
  PROVE  Taxed'
<1>1. \A y \in settled : account'.gains[y] = account.gains[y]
  <2>1. TAKE y \in settled
  <2>2. y \in Years /\ y < Year(day)
    BY DEF Taxed
  <2>3. y # Year(day)
    BY <2>2
  <2>. QED  BY <2>2, <2>3
<1>2. [y \in settled |-> Bill(account'.gains[y])] = [y \in settled |-> Bill(account.gains[y])]
  BY <1>1
<1>3. paid' = Total([y \in settled' |-> Bill(account'.gains[y])])
  BY <1>2 DEF Taxed
<1>. QED  BY <1>3 DEF Taxed, Bill
-----------------------------------------------------------------------------
(* Every step keeps the invariant. *)

\* Before the first session.
LEMMA BacktestInitHolds ==
  BacktestInit => BooksInv
<1> SUFFICES ASSUME BacktestInit PROVE BooksInv
  OBVIOUS
<1>1. /\ step = "night" /\ session = 0 /\ day = 0 /\ account = Account
      /\ settled = {} /\ paid = 0 /\ taxes = 0 /\ funds = 0 /\ pending = <<>>
      /\ bars = [x \in Universe |-> NoBar] /\ rate = 1
      /\ DOMAIN last = Universe /\ deposited = 0 /\ funded = -1 /\ due = {} /\ waited = FALSE
  BY DEF BacktestInit
<1>2. NoLot \in Lots /\ NoLot.quantity = 0 /\ NoLot.cost = 0
  BY DEF Lots, NoLot
<1>3. Account \in Accounts
  BY <1>2 DEF Accounts, Account
<1>4. MaxSessions \in Nat /\ MaxGap \in Nat /\ MaxSessions * MaxGap \in Nat /\ 0 * MaxGap = 0
  BY BacktestParameters, Products
<1>5. BacktestTypeOK
  <2>1. day \in 0..(MaxSessions * MaxGap) /\ session \in 0..MaxSessions
    BY <1>1, <1>4
  <2>2. pending \in Seq(Signals)
    BY <1>1
  <2>3. /\ \A x \in Universe : account.lots[x] \in [quantity : Nat, cost : Nat]
        /\ account.cash \in Int /\ account.realised \in Int
        /\ account.gains \in [Years -> Int] /\ account.fees \in Nat
    BY <1>1, <1>3, AccountTyped
  <2>4. {paid, taxes, deposited, funds} \subseteq Nat /\ settled \subseteq Years
    BY <1>1
  <2>5. DOMAIN bars = Universe /\ DOMAIN last = Universe /\ waited \in BOOLEAN
    BY <1>1, Zenon
  <2>6. step \in {"night", "fill", "stop", "tax", "deposit", "context", "judge"}
    BY <1>1
  <2>7. rate \in Nat \ {0}
    BY <1>1
  <2>. QED  BY <2>1, <2>2, <2>3, <2>4, <2>5, <2>6, <2>7 DEF BacktestTypeOK
<1>6. Dated
  BY <1>1, <1>3, <1>4 DEF Dated
<1>7. BooksBalance
  <2> DEFINE f == [x \in Universe |-> account.lots[x].cost]
  <2>1. f \in [Universe -> Int] /\ \A x \in Universe : f[x] = 0
    BY <1>1, <1>2 DEF Account
  <2>2. IsFiniteSet(Universe)
    BY BacktestParameters
  <2> HIDE DEF f
  <2>3. Total(f) = 0
    BY <2>1, <2>2, TotalOfNone
  <2>4. account.cash = 0 /\ account.fees = 0 /\ account.realised = 0 /\ account.over = 0
    BY <1>1 DEF Account
  <2>. QED  BY <1>1, <2>3, <2>4 DEF BooksBalance, f
<1>8. Taxed
  <2> DEFINE f == [y \in settled |-> Bill(account.gains[y])]
  <2>1. f \in [{} -> Int] /\ \A y \in {} : f[y] = 0
    BY <1>1
  <2>2. IsFiniteSet({})
    BY FS_EmptySet
  <2> HIDE DEF f
  <2>3. Total(f) = 0
    BY <2>1, <2>2, TotalOfNone
  <2>. QED  BY <1>1, <2>3 DEF Taxed, f
<1>9. Funded
  BY <1>1 DEF Funded
<1>10. Covered
  <2>1. Left(pending, Bids, 0) = 0 /\ \A x \in Universe : Left(pending, SharesOf(x), 0) = 0
    <3>1. <<>> \in Seq(Signals)
      OBVIOUS
    <3>. QED  BY <1>1, <3>1, AsksTyped, LeftIs
  <2>2. account.cash = 0 /\ account.fees = 0 /\ account.over = 0
        /\ \A x \in Universe : account.lots[x].quantity = 0
    BY <1>1, <1>2 DEF Account
  <2>. QED  BY <1>1, <2>1, <2>2 DEF Covered, Backed
<1>11. Snapshot
  BY <1>1 DEF Snapshot
<1>. QED  BY <1>5, <1>6, <1>7, <1>8, <1>9, <1>10, <1>11 DEF BooksInv

\* A subset of the months without the first is finite, and counts one more with a month more.
LEMMA Months ==
  ASSUME NEW S, NEW m \in Nat, S \subseteq 0..m
  PROVE  /\ IsFiniteSet(S) /\ Cardinality(S \ {0}) \in Nat
         /\ \A k \in S \ {0} : Cardinality(S \ {0}) = Cardinality(S \ {0, k}) + 1
<1>1. IsFiniteSet(0..m)
  BY FS_Interval
<1>2. IsFiniteSet(S) /\ IsFiniteSet(S \ {0})
  BY <1>1, FS_Subset
<1>3. Cardinality(S \ {0}) \in Nat
  BY <1>2, FS_CardinalityType
<1>4. ASSUME NEW k \in S \ {0}
      PROVE  Cardinality(S \ {0}) = Cardinality(S \ {0, k}) + 1
  <2>1. (S \ {0}) \ {k} = S \ {0, k}
    OBVIOUS
  <2>2. Cardinality((S \ {0}) \ {k}) = Cardinality(S \ {0}) - 1
    BY <1>2, FS_RemoveElement
  <2>. QED  BY <1>3, <2>1, <2>2
<1>. QED  BY <1>2, <1>3, <1>4

\* A session opens on a later day, which may be the month's first on or after the due day.
LEMMA OpenFunds ==
  ASSUME BooksInv, Open
  PROVE  Funded'
<1>1. /\ session' = session + 1 /\ step' = "fill" /\ step = "night" /\ UNCHANGED <<deposited, funded>>
      /\ due' = IF DayOfMonth(day') >= DueDay THEN due \cup {Month(day')} ELSE due
  BY DEF Open
<1>2. PICK n \in 1..MaxGap : day' = day + n
  BY DEF Open
<1>3. session \in Nat /\ MaxGap \in Nat /\ MonthDays \in Nat /\ MaxGap <= MonthDays
  BY BacktestParameters DEF BooksInv, BacktestTypeOK
<1>4. ~AtRest' /\ AtRest
  BY <1>1 DEF AtRest
<1>5. PICK M \in Nat, d \in Nat \ {0} : d = day' /\ M = Month(day')
  <2>1. day' \in Nat \ {0}
    BY <1>2, <1>3 DEF BooksInv, Dated
  <2>. QED  BY <2>1, Calendar
<1>6. CASE session = 0
  <2>1. d <= MonthDays /\ session' = 1
    BY <1>1, <1>2, <1>3, <1>5, <1>6 DEF BooksInv, Dated
  <2>2. M = 0
    BY <1>5, <2>1, Calendar
  <2>3. due = {} /\ funded = -1 /\ deposited = 0
    BY <1>6 DEF BooksInv, Funded
  <2>4. due' \subseteq 0..M /\ (DayOfMonth(day') >= DueDay => M \in due')
    BY <1>1, <1>5, <2>2, <2>3
  <2>. QED  BY <1>1, <1>4, <1>5, <2>1, <2>2, <2>3, <2>4 DEF Funded
<1>7. CASE session # 0
  <2>1. PICK O \in Nat, e \in Nat \ {0} : e = day /\ O = Month(day)
    BY <1>3, <1>7, Calendar DEF BooksInv, Dated
  <2>2. O <= M
    <3>1. e <= d
      BY <1>2, <1>3, <1>5, <2>1
    <3>. QED  BY <1>5, <2>1, <3>1, Calendar
  <2>3. /\ due \subseteq 0..O /\ funded \in due \cup {0}
        /\ deposited = Seed + Monthly * Cardinality(due \ {0})
        /\ O \in due => funded = O
    BY <1>3, <1>4, <1>7, <2>1 DEF BooksInv, Funded
  <2>4. due \subseteq 0..M /\ due' \subseteq 0..M /\ (DayOfMonth(day') >= DueDay => M \in due')
        /\ (M \in due' => M \in due \/ DayOfMonth(day') >= DueDay)
    <3>1. \A k \in due : k \in 0..M
      BY <2>1, <2>2, <2>3
    <3>2. M \in 0..M
      OBVIOUS
    <3>3. due' = IF DayOfMonth(day') >= DueDay THEN due \cup {M} ELSE due
      BY <1>1, <1>5
    <3>. QED  BY <3>1, <3>2, <3>3
  <2>5. session' > 1 /\ session' # 1 /\ session' # 0
    BY <1>1, <1>3, <1>7
  <2>6. M \in due => funded = M
    BY <2>1, <2>2, <2>3
  <2>7. Awaited' = IF funded = M THEN {0} ELSE {0, M}
    BY <1>1, <1>5 DEF Awaited
  <2>8. due' \ Awaited' = due \ {0}
    <3>1. CASE funded = M
      <4>1. M \in due \/ M = 0
        BY <2>3, <3>1
      <4>2. due' \ {0} = due \ {0}
        BY <1>1, <1>5, <4>1
      <4>. QED  BY <2>7, <3>1, <4>2
    <3>2. CASE funded # M
      <4>1. M \notin due
        BY <2>6, <3>2
      <4>2. due' \ {0, M} = due \ {0}
        BY <1>1, <1>5, <4>1
      <4>. QED  BY <2>7, <3>2, <4>2
    <3>. QED  BY <3>1, <3>2
  <2>9. funded' \in due' \cup {0}
    BY <1>1, <2>3
  <2>10. deposited' = Seed + Monthly * Cardinality(due' \ Awaited')
    BY <1>1, <2>3, <2>8
  <2>11. Month(day)' \in due' /\ funded' # Month(day)' => DayOfMonth(day)' >= DueDay
    BY <1>1, <1>5, <2>4, <2>6
  <2>. QED  BY <1>4, <1>5, <2>4, <2>5, <2>9, <2>10, <2>11 DEF Funded
<1>. QED  BY <1>6, <1>7

\* A session opens on a later day, with its bars and rate, and nothing else has moved.
LEMMA OpenKeeps ==
  ASSUME BooksInv, Open
  PROVE  BooksInv'
<1>1. /\ session' = session + 1 /\ session < MaxSessions /\ step' = "fill" /\ step = "night"
      /\ UNCHANGED <<account, settled, paid, taxes, deposited, funded, funds, pending, ctx, committed, batch, waited>>
      /\ last' = [x \in Universe |-> IF bars'[x] = NoBar THEN last[x] ELSE bars'[x].close]
  BY DEF Open, tax, gate
<1>2. PICK n \in 1..MaxGap : day' = day + n
  BY DEF Open
<1>3. session \in Nat /\ MaxGap \in Nat /\ MaxSessions \in Nat /\ day \in Nat /\ day <= session * MaxGap
  BY BacktestParameters DEF BooksInv, BacktestTypeOK, Dated
<1>4. bars' \in [Universe -> Bar \cup {NoBar}] /\ rate' \in Nat \ {0}
  BY BacktestParameters DEF Open
<1>5. day' \in Nat \ {0} /\ day' <= session' * MaxGap /\ day' \in 0..(MaxSessions * MaxGap)
      /\ session' \in 1..MaxSessions
  <2>1. PICK a \in Nat, b \in Nat, c \in Nat :
          a = session * MaxGap /\ b = (session + 1) * MaxGap /\ c = MaxSessions * MaxGap
    BY <1>3, Products
  <2>2. session + 1 \in Nat /\ session + 1 <= MaxSessions
    BY <1>1, <1>3
  <2>3. b = a + MaxGap
    BY <1>3, <2>1
  <2>4. b <= c
    BY <1>3, <2>1, <2>2, Products
  <2>5. day' \in Nat \ {0} /\ day' <= b
    BY <1>2, <1>3, <2>1, <2>3
  <2>. QED  BY <1>1, <1>3, <2>1, <2>2, <2>4, <2>5
<1>6. BacktestTypeOK'
  <2>1. DOMAIN bars' = Universe /\ DOMAIN last' = Universe
    BY <1>1, <1>4
  <2>2. step' \in {"night", "fill", "stop", "tax", "deposit", "context", "judge"}
        /\ session' \in 0..MaxSessions
    BY <1>1, <1>3, <1>5
  <2>. QED  BY <1>1, <1>4, <1>5, <2>1, <2>2 DEF BooksInv, BacktestTypeOK
<1>7. Dated'
  BY <1>1, <1>4, <1>5 DEF BooksInv, Dated
<1>8. BooksBalance'
  BY <1>1 DEF BooksInv, BooksBalance
<1>9. Taxed'
  <2>1. [y \in settled' |-> Bill(account'.gains[y])] = [y \in settled |-> Bill(account.gains[y])]
    BY <1>1
  <2>2. ASSUME NEW y \in settled PROVE y \in Years /\ y < Year(day')
    <3>1. session > 0 /\ day \in Nat \ {0} /\ y \in Years /\ y < Year(day)
      BY <1>3, <2>2 DEF BooksInv, Taxed, Dated
    <3>2. day <= day' /\ day' \in Nat \ {0}
      BY <1>2, <1>3, <1>5
    <3>3. Year(day) <= Year(day') /\ Year(day) \in Nat /\ Year(day') \in Nat
      BY <3>1, <3>2, Calendar
    <3>4. y \in Int
      BY <3>1 DEF Years
    <3>. QED  BY <3>1, <3>3, <3>4
  <2>3. session' # 0
    BY <1>5
  <2>4. settled' \subseteq {y \in Years : y < Year(day')}
    BY <1>1, <2>2
  <2>5. paid' = Total([y \in settled' |-> Bill(account'.gains[y])])
    BY <1>1, <2>1 DEF BooksInv, Taxed
  <2>. QED  BY <1>1, <2>3, <2>4, <2>5 DEF Taxed, Bill
<1>10. Funded'
  BY OpenFunds
<1>11. Covered'
  BY <1>1 DEF BooksInv, Covered, Backed
<1>12. Snapshot'
  BY <1>1 DEF Snapshot
<1>. QED  BY <1>6, <1>7, <1>8, <1>9, <1>10, <1>11, <1>12 DEF BooksInv
\* Fills move cash and shares about.
LEMMA FillKeeps ==
  ASSUME BooksInv, FillPending
  PROVE  BooksInv'
<1>1. /\ step = "fill" /\ step' = "stop" /\ account' = Executed.account /\ pending' = Executed.waiting
      /\ waited' = (waited \/ pending' # <<>>)
      /\ UNCHANGED <<session, day, bars, rate, last, settled, paid, taxes, deposited, funded, funds, due>>
  BY DEF FillPending, market, tax, money
<1>2. session > 0 /\ session \in Nat
  BY <1>1 DEF BooksInv, Dated, BacktestTypeOK
<1>3. Opened /\ Year(day) \in Nat
  BY <1>2, OpenedIs DEF BooksInv
<1>4. account \in Accounts /\ pending \in Seq(Signals)
  BY DEF BooksInv, Dated, BacktestTypeOK
<1>5. Keeps(account, Executed.account) /\ Executed.waiting \in Seq(Signals)
  BY <1>3, <1>4, ExecutedKeeps
<1>6. PICK a \in Accounts, b \in Accounts :
        a = account /\ b = account' /\ Book(b) = Book(a) /\ \A y \in Years \ {Year(day)} : b.gains[y] = a.gains[y]
  BY <1>1, <1>4, <1>5 DEF Keeps
<1>7. BacktestTypeOK'
  <2>1. /\ b.cash \in Int /\ b.realised \in Int /\ b.gains \in [Years -> Int] /\ b.fees \in Nat
        /\ \A x \in Universe : b.lots[x] \in [quantity : Nat, cost : Nat]
    BY AccountTyped
  <2>2. pending' \in Seq(Signals) /\ waited' \in BOOLEAN
    BY <1>1, <1>5 DEF BooksInv, BacktestTypeOK
  <2>. QED  BY <1>1, <1>6, <2>1, <2>2 DEF BooksInv, BacktestTypeOK
<1>8. Dated'
  BY <1>1, <1>2, <1>6 DEF BooksInv, Dated
<1>9. BooksBalance'
  <2>1. PICK f \in Nat, t \in Nat : f = funds /\ t = taxes
    BY DEF BooksInv, BacktestTypeOK
  <2>2. Book(a) = f - t
    BY <1>6, <2>1, Balanced DEF BooksInv, BooksBalance
  <2>3. b.cash + Total([x \in Universe |-> b.lots[x].cost]) = f - t - b.fees + b.realised + b.over
    <3>1. Book(b) = f - t
      BY <1>6, <2>2
    <3>. QED  BY <3>1, Balanced
  <2>. QED  BY <1>1, <1>6, <2>1, <2>3 DEF BooksBalance
<1>10. Taxed'
  <2>1. \A y \in Years \ {Year(day)} : account'.gains[y] = account.gains[y]
    BY <1>6
  <2>. QED  BY <1>1, <1>2, <1>3, <2>1, TaxedSame DEF BooksInv
<1>11. Funded'
  <2>1. AtRest' <=> AtRest
    BY <1>1 DEF AtRest
  <2>. QED  BY <1>1, <2>1, FundedSame DEF BooksInv
<1>12. Covered'
  <2>1. ASSUME ~waited' PROVE Backed(account, 0)' /\ pending' = <<>>
    <3>1. ~waited /\ pending' = <<>> /\ Executed.waiting = <<>>
      BY <1>1, <2>1
    <3>2. Backed(account, 0)
      BY <3>1 DEF BooksInv, Covered
    <3>3. taxes \in Nat
      BY DEF BooksInv, BacktestTypeOK
    <3>4. b.over = 0 /\ b.cash + taxes + b.fees >= 0
      BY <1>1, <1>3, <1>4, <1>6, <3>1, <3>2, <3>3, ExecutedIsBacked
    <3>5. Left(<<>>, Bids, 0) = 0 /\ \A x \in Universe : Left(<<>>, SharesOf(x), 0) = 0
      <4>1. <<>> \in Seq(Signals)
        OBVIOUS
      <4>. QED  BY <4>1, AsksTyped, LeftIs
    <3>6. \A x \in Universe : b.lots[x].quantity \in Nat
      BY AccountTyped
    <3>7. \A x \in Universe : Left(<<>>, SharesOf(x), 0) <= b.lots[x].quantity
      BY <3>5, <3>6
    <3>. QED  BY <1>1, <1>6, <3>1, <3>4, <3>5, <3>7 DEF Backed
  <2>. QED  BY <2>1 DEF Covered
<1>13. Snapshot'
  BY <1>1 DEF Snapshot
<1>. QED  BY <1>7, <1>8, <1>9, <1>10, <1>11, <1>12, <1>13 DEF BooksInv

\* Nothing is queued, and the account has no less cash than before and has sold nothing
\* twice.
LEMMA CoveredSame ==
  ASSUME Covered, waited' = waited, pending' = pending, step \in {"stop", "tax", "deposit"},
         account \in Accounts, account' \in Accounts, taxes \in Nat, taxes' \in Nat,
         account'.over = account.over,
         account'.cash + taxes' + account'.fees >= account.cash + taxes + account.fees
  PROVE  Covered'
<1>1. PICK a \in Accounts, b \in Accounts : a = account /\ b = account'
  OBVIOUS
<1>2. Left(<<>>, Bids, 0) = 0 /\ \A x \in Universe : Left(<<>>, SharesOf(x), 0) = 0
  <2>1. <<>> \in Seq(Signals)
    OBVIOUS
  <2>. QED  BY <2>1, AsksTyped, LeftIs
<1>3. \A x \in Universe : b.lots[x].quantity \in Nat
  BY AccountTyped
<1>4. ASSUME ~waited' PROVE Backed(account, 0)' /\ pending' = <<>>
  <2>1. pending = <<>> /\ a.over = 0 /\ a.cash + taxes + a.fees >= 0
    BY <1>1, <1>2, <1>4 DEF Covered, Backed
  <2>2. PICK i \in Int, j \in Int : i = a.cash + taxes + a.fees /\ j = b.cash + taxes' + b.fees
    <3>1. a.cash \in Int /\ b.cash \in Int /\ a.fees \in Nat /\ b.fees \in Nat
      BY AccountTyped
    <3>2. a.cash + taxes + a.fees \in Int
      BY <3>1
    <3>3. b.cash + taxes' + b.fees \in Int
      BY <3>1
    <3>. QED  BY <3>2, <3>3
  <2>3. j >= i /\ i >= 0
    BY <1>1, <2>1, <2>2
  <2>4. j >= 0
    BY <2>3
  <2>5. b.over = 0
    BY <1>1, <2>1
  <2>6. \A x \in Universe : Left(<<>>, SharesOf(x), 0) <= b.lots[x].quantity
    BY <1>2, <1>3
  <2>. QED  BY <1>1, <1>2, <2>1, <2>2, <2>4, <2>5, <2>6 DEF Backed
<1>. QED  BY <1>4 DEF Covered

\* The stop-loss sells whole lots.
LEMMA StopsKeep ==
  ASSUME BooksInv, WorkStops
  PROVE  BooksInv'
<1>1. /\ step = "stop" /\ step' = "tax" /\ account' = Stopped
      /\ UNCHANGED <<session, day, bars, rate, last, settled, paid, taxes, deposited, funded, funds,
                     due, pending, waited>>
  BY DEF WorkStops, market, tax, money
<1>2. session > 0 /\ session \in Nat
  BY <1>1 DEF BooksInv, Dated, BacktestTypeOK
<1>3. Opened /\ Year(day) \in Nat
  BY <1>2, OpenedIs DEF BooksInv
<1>4. account \in Accounts /\ taxes \in Nat
  BY DEF BooksInv, Dated, BacktestTypeOK
<1>5. /\ Keeps(account, Stopped) /\ Stopped.over = account.over
      /\ Stopped.cash >= account.cash /\ Stopped.fees = account.fees
  BY <1>3, <1>4, StoppedKeeps
<1>6. PICK a \in Accounts, b \in Accounts :
        /\ a = account /\ b = account' /\ Book(b) = Book(a) /\ b.over = a.over /\ b.cash >= a.cash
        /\ b.fees = a.fees /\ \A y \in Years \ {Year(day)} : b.gains[y] = a.gains[y]
  BY <1>1, <1>4, <1>5 DEF Keeps
<1>7. BacktestTypeOK'
  <2>1. /\ b.cash \in Int /\ b.realised \in Int /\ b.gains \in [Years -> Int] /\ b.fees \in Nat
        /\ \A x \in Universe : b.lots[x] \in [quantity : Nat, cost : Nat]
    BY AccountTyped
  <2>2. /\ account'.cash \in Int /\ account'.realised \in Int
        /\ account'.gains \in [Years -> Int] /\ account'.fees \in Nat
        /\ \A x \in Universe : account'.lots[x] \in [quantity : Nat, cost : Nat]
    BY <1>6, <2>1
  <2>3. /\ session' \in 0..MaxSessions /\ day' \in 0..(MaxSessions * MaxGap)
        /\ DOMAIN bars' = Universe /\ rate' \in Nat \ {0} /\ DOMAIN last' = Universe
        /\ settled' \subseteq Years /\ {paid', taxes', deposited', funds'} \subseteq Nat
        /\ pending' \in Seq(Signals) /\ waited' \in BOOLEAN
    BY <1>1 DEF BooksInv, BacktestTypeOK
  <2>4. step' \in {"night", "fill", "stop", "tax", "deposit", "context", "judge"}
    BY <1>1
  <2>. QED  BY <2>2, <2>3, <2>4 DEF BacktestTypeOK
<1>8. Dated'
  BY <1>1, <1>2, <1>6 DEF BooksInv, Dated
<1>9. BooksBalance'
  <2>1. PICK f \in Nat, t \in Nat : f = funds /\ t = taxes
    BY DEF BooksInv, BacktestTypeOK
  <2>2. Book(a) = f - t
    BY <1>6, <2>1, Balanced DEF BooksInv, BooksBalance
  <2>3. b.cash + Total([x \in Universe |-> b.lots[x].cost]) = f - t - b.fees + b.realised + b.over
    <3>1. Book(b) = f - t
      BY <1>6, <2>2
    <3>. QED  BY <3>1, Balanced
  <2>. QED  BY <1>1, <1>6, <2>1, <2>3 DEF BooksBalance
<1>10. Taxed'
  <2>1. \A y \in Years \ {Year(day)} : account'.gains[y] = account.gains[y]
    BY <1>6
  <2>. QED  BY <1>1, <1>2, <1>3, <2>1, TaxedSame DEF BooksInv
<1>11. Funded'
  <2>1. AtRest' <=> AtRest
    BY <1>1 DEF AtRest
  <2>. QED  BY <1>1, <2>1, FundedSame DEF BooksInv
<1>12. Covered'
  <2>1. PICK i \in Int, j \in Int, h \in Nat, t \in Nat :
          i = a.cash /\ j = b.cash /\ h = a.fees /\ h = b.fees /\ t = taxes
    BY <1>4, <1>6, AccountTyped, Zenon
  <2>2. j >= i
    BY <1>6, <2>1
  <2>3. j + t + h >= i + t + h
    BY <2>2
  <2>4. account'.cash + taxes' + account'.fees >= account.cash + taxes + account.fees
    BY <1>1, <1>6, <2>1, <2>3
  <2>. QED  BY <1>1, <1>4, <1>6, <2>4, CoveredSame DEF BooksInv
<1>13. Snapshot'
  BY <1>1 DEF Snapshot
<1>. QED  BY <1>7, <1>8, <1>9, <1>10, <1>11, <1>12, <1>13 DEF BooksInv
\* Completed years are settled out of the cash.
LEMMA TaxKeeps ==
  ASSUME BooksInv, SettleTax
  PROVE  BooksInv'
<1> DEFINE bills == [y \in Unsettled |-> Bill(account.gains[y])]
<1>1. /\ step = "tax" /\ step' = "deposit"
      /\ paid' = paid + Total(bills) /\ taxes' = taxes + Total(bills) \div rate
      /\ account' = [account EXCEPT !.cash = @ - Total(bills) \div rate]
      /\ settled' = settled \cup Unsettled
      /\ UNCHANGED <<session, day, bars, rate, last, deposited, funded, funds, due, pending, waited>>
  BY DEF SettleTax, market, money
<1>2. session > 0 /\ session \in Nat
  BY <1>1 DEF BooksInv, Dated, BacktestTypeOK
<1>3. Opened /\ Year(day) \in Nat /\ rate \in Nat \ {0}
  BY <1>2, OpenedIs DEF BooksInv, Opened
<1>4. PICK a \in Accounts : a = account
  BY DEF BooksInv, Dated
<1>5. \A n \in Int : Bill(n) \in Nat
  <2>1. TAKE n \in Int
  <2>2. TaxFree \in Nat /\ TaxPct \in Nat
    BY BacktestParameters
  <2>3. CASE n <= TaxFree
    BY <2>3 DEF Bill
  <2>4. CASE ~(n <= TaxFree)
    <3>1. n - TaxFree \in Nat
      BY <2>2, <2>4
    <3>2. (n - TaxFree) * TaxPct \in Nat
      BY <2>2, <3>1, Products
    <3>3. ((n - TaxFree) * TaxPct) \div 100 \in Nat
      BY <3>2, Quotients
    <3>. QED  BY <2>4, <3>3 DEF Bill
  <2>. QED  BY <2>3, <2>4
<1>6. IsFiniteSet(settled) /\ IsFiniteSet(Unsettled) /\ settled \cap Unsettled = {}
      /\ settled \subseteq Years /\ Unsettled \subseteq Years
  <2>1. IsFiniteSet(Years)
    <3>1. Year(1 + MaxSessions * MaxGap) \in Nat
      <4>1. MaxSessions \in Nat /\ MaxGap \in Nat
        BY BacktestParameters
      <4>2. PICK n \in Nat : n = MaxSessions * MaxGap
        BY <4>1, Products
      <4>3. 1 + n \in Nat \ {0}
        OBVIOUS
      <4>. QED  BY <4>2, <4>3, Calendar
    <3>. QED  BY <3>1, FS_Interval DEF Years
  <2>2. settled \subseteq Years /\ Unsettled \subseteq Years /\ settled \cap Unsettled = {}
    BY DEF BooksInv, BacktestTypeOK, Unsettled
  <2>. QED  BY <2>1, <2>2, FS_Subset
<1>7. \A y \in Years : Bill(account.gains[y]) \in Nat
  <2>1. \A y \in Years : account.gains[y] \in Int
    BY <1>4, AccountTyped
  <2>. QED  BY <1>5, <2>1
<1>8. bills \in [Unsettled -> Nat] /\ bills \in [Unsettled -> Int]
  BY <1>6, <1>7
<1>9. PICK owed \in Nat : owed = Total(bills)
  <2> HIDE DEF bills
  <2>. QED  BY <1>6, <1>8, TotalTyped
<1> HIDE DEF bills
<1>10. PICK usd \in Nat : usd = owed \div rate
  BY <1>3, Quotients
<1>11. PICK b : b = account' /\ b = [a EXCEPT !.cash = a.cash - usd]
  BY <1>1, <1>4, <1>9, <1>10
<1>12. /\ b.cash = a.cash - usd /\ b.gains = a.gains /\ b.lots = a.lots /\ b.fees = a.fees
       /\ b.realised = a.realised /\ b.over = a.over /\ b \in Accounts
  <2>1. a.cash - usd \in Int
    BY AccountTyped
  <2>. QED  BY <1>11, <2>1 DEF Accounts
<1>13. PICK f \in Nat, t \in Nat : f = funds /\ t = taxes /\ f = funds' /\ t + usd = taxes'
  BY <1>1, <1>9, <1>10 DEF BooksInv, BacktestTypeOK
<1>14. settled' = {y \in Years : y < Year(day)}
  <2>1. settled \subseteq {y \in Years : y < Year(day)}
    BY <1>2 DEF BooksInv, Taxed
  <2>. QED  BY <1>1, <2>1 DEF Unsettled
<1>15. BacktestTypeOK'
  <2>1. /\ b.cash \in Int /\ b.realised \in Int /\ b.gains \in [Years -> Int] /\ b.fees \in Nat
        /\ \A x \in Universe : b.lots[x] \in [quantity : Nat, cost : Nat]
    BY <1>12, AccountTyped
  <2>2. paid' \in Nat /\ taxes' \in Nat /\ settled' \subseteq Years
    <3>1. paid \in Nat
      BY DEF BooksInv, BacktestTypeOK
    <3>2. paid + owed \in Nat /\ t + usd \in Nat
      BY <3>1
    <3>. QED  BY <1>1, <1>9, <1>13, <1>14, <3>2
  <2>. QED  BY <1>1, <1>11, <2>1, <2>2 DEF BooksInv, BacktestTypeOK
<1>16. Dated'
  BY <1>1, <1>2, <1>11, <1>12 DEF BooksInv, Dated
<1>17. BooksBalance'
  <2>1. Book(a) = f - t
    BY <1>4, <1>13, Balanced DEF BooksInv, BooksBalance
  <2>2. CostOf(b) = CostOf(a)
    BY <1>12 DEF CostOf
  <2>3. Book(b) = Book(a) - usd
    <3>1. CostOf(a) \in Int /\ a.cash \in Int /\ a.fees \in Nat /\ a.realised \in Int /\ a.over \in Int
      BY AccountTyped
    <3>. QED  BY <1>12, <2>2, <3>1 DEF Book
  <2>4. Book(b) = f - (t + usd) /\ t + usd \in Nat
    BY <2>1, <2>3
  <2>5. b.cash + Total([x \in Universe |-> b.lots[x].cost]) = f - (t + usd) - b.fees + b.realised + b.over
    BY <1>12, <2>4, Balanced
  <2>. QED  BY <1>11, <1>13, <2>5 DEF BooksBalance
<1>18. Taxed'
  <2> DEFINE old == [y \in settled |-> Bill(account.gains[y])]
             all == [y \in settled' |-> Bill(account'.gains[y])]
  <2>1. settled' = settled \cup Unsettled /\ account'.gains = account.gains
    BY <1>1, <1>4, <1>11, <1>12
  <2>2. old \in [settled -> Int] /\ all \in [settled' -> Int]
    BY <1>6, <1>7, <2>1
  <2>3. (\A y \in settled : all[y] = old[y]) /\ (\A y \in Unsettled : all[y] = bills[y])
    BY <2>1 DEF bills
  <2>4. paid = Total(old)
    BY DEF BooksInv, Taxed
  <2> HIDE DEF old, all
  <2>5. PICK C : C = settled'
    OBVIOUS
  <2>6. C = settled \cup Unsettled /\ all \in [C -> Int]
    BY <2>1, <2>2, <2>5
  <2>7. Total(all) = Total(old) + Total(bills)
    BY <1>6, <1>8, <2>2, <2>3, <2>6, TotalSplit
  <2>8. paid' = Total(all)
    BY <1>1, <2>4, <2>7
  <2>. QED  BY <1>1, <1>2, <1>14, <2>8 DEF Taxed, all, Bill
<1>19. Funded'
  <2>1. AtRest' <=> AtRest
    BY <1>1 DEF AtRest
  <2>. QED  BY <1>1, <2>1, FundedSame DEF BooksInv
<1>20. Covered'
  <2>1. PICK i \in Int, h \in Nat : i = a.cash /\ h = a.fees
    BY AccountTyped, Zenon
  <2>2. (i - usd) + (t + usd) + h >= i + t + h
    OBVIOUS
  <2>3. account'.cash + taxes' + account'.fees >= account.cash + taxes + account.fees
    BY <1>4, <1>11, <1>12, <1>13, <2>1, <2>2
  <2>4. account' \in Accounts /\ account'.over = account.over /\ taxes \in Nat /\ taxes' \in Nat
    BY <1>4, <1>11, <1>12, <1>13
  <2>. QED  BY <1>1, <1>4, <2>3, <2>4, CoveredSame DEF BooksInv
<1>21. Snapshot'
  BY <1>1 DEF Snapshot
<1>. QED  BY <1>15, <1>16, <1>17, <1>18, <1>19, <1>20, <1>21 DEF BooksInv
\* Each month that is due gets its deposit.
LEMMA DepositFunds ==
  ASSUME BooksInv, TakeDeposit
  PROVE  Funded'
<1>1. step = "deposit" /\ step' = "context" /\ UNCHANGED <<session, day, due>>
  BY DEF TakeDeposit, market
<1>2. session > 0 /\ session \in Nat
  BY <1>1 DEF BooksInv, Dated, BacktestTypeOK
<1>3. PICK M \in Nat : M = Month(day)
  BY <1>2, OpenedIs DEF BooksInv
<1>4. AtRest' /\ ~AtRest
  BY <1>1 DEF AtRest
<1>5. due \subseteq 0..M /\ (DayOfMonth(day) >= DueDay => M \in due) /\ due' = due
      /\ M = Month(day)' /\ DayOfMonth(day)' = DayOfMonth(day) /\ session' = session
  BY <1>1, <1>2, <1>3 DEF BooksInv, Funded, Month, DayOfMonth
<1>6. Cardinality(due \ {0}) \in Nat /\ \A k \in due \ {0} : Cardinality(due \ {0}) = Cardinality(due \ {0, k}) + 1
  BY <1>5, Months
<1>7. Monthly \in Nat /\ Seed \in Nat
  BY BacktestParameters
<1>8. /\ funded' \in due \cup {0}
      /\ deposited' = Seed + Monthly * Cardinality(due \ {0})
      /\ M \in due => funded' = M
  <2>1. CASE session = 1 /\ Contribute(Seed)
    <3>1. M = 0 /\ deposited = 0
      BY <1>3, <1>4, <2>1 DEF BooksInv, Funded
    <3>2. due \ {0} = {}
      BY <1>5, <3>1
    <3>3. Cardinality(due \ {0}) = 0
      BY <3>2, FS_EmptySet
    <3>4. deposited' = 0 + Seed /\ funded' = M
      BY <1>3, <2>1, <3>1 DEF Contribute
    <3>5. Monthly * 0 = 0
      BY <1>7
    <3>. QED  BY <1>7, <3>1, <3>3, <3>4, <3>5
  <2>2. ASSUME session > 1
        PROVE  /\ funded \in due \cup {0}
               /\ deposited = Seed + Monthly * Cardinality(due \ Awaited)
               /\ M \in due /\ funded # M => DayOfMonth(day) >= DueDay
               /\ Awaited = IF funded = M THEN {0} ELSE {0, M}
    BY <1>3, <1>4, <2>2 DEF BooksInv, Funded, Awaited
  <2>3. CASE session > 1 /\ Due /\ Contribute(Monthly)
    <3>1. M \in due /\ funded # M
      BY <1>3, <1>5, <2>3 DEF Due
    <3>2. M # 0
      <4>1. ASSUME M = 0 PROVE FALSE
        <5>1. due \subseteq {0}
          BY <1>5, <4>1
        <5>2. funded = 0
          BY <2>2, <2>3, <5>1
        <5>. QED  BY <3>1, <4>1, <5>2
      <4>. QED  BY <4>1
    <3>3. PICK c \in Nat : c = Cardinality(due \ {0, M}) /\ Cardinality(due \ {0}) = c + 1
      <4>1. M \in due \ {0}
        BY <3>1, <3>2
      <4>2. Cardinality(due \ {0}) = Cardinality(due \ {0, M}) + 1
        BY <1>6, <4>1
      <4>3. IsFiniteSet(due) /\ IsFiniteSet(due \ {0, M})
        BY <1>5, Months, FS_Subset
      <4>4. Cardinality(due \ {0, M}) \in Nat
        BY <4>3, FS_CardinalityType
      <4>. QED  BY <4>2, <4>4
    <3>4. deposited = Seed + Monthly * c
      <4>1. Awaited = {0, M}
        BY <2>2, <2>3, <3>1
      <4>. QED  BY <2>2, <2>3, <3>3, <4>1
    <3>5. deposited' = deposited + Monthly /\ funded' = M
      BY <1>3, <2>3 DEF Contribute
    <3>6. Monthly * (c + 1) = Monthly * c + Monthly /\ Monthly * c \in Nat
      BY <1>7
    <3>7. deposited' = Seed + Monthly * (c + 1)
      <4>1. PICK m \in Nat, n \in Nat : m = Monthly * c /\ n = Monthly * (c + 1) /\ n = m + Monthly
        BY <1>7, <3>6
      <4>. QED  BY <1>7, <3>4, <3>5, <4>1
    <3>. QED  BY <3>1, <3>3, <3>5, <3>7
  <2>4. CASE session > 1 /\ ~Due /\ UNCHANGED <<account, deposited, funds, funded>>
    <3>1. funded = M \/ ~(DayOfMonth(day) >= DueDay)
      BY <1>3, <2>4 DEF Due
    <3>2. M \in due => funded = M
      BY <2>2, <2>4, <3>1
    <3>3. due \ Awaited = due \ {0}
      BY <2>2, <2>4, <3>2
    <3>. QED  BY <2>2, <2>4, <3>2, <3>3
  <2>. QED  BY <2>1, <2>3, <2>4 DEF TakeDeposit
<1>9. session = 1 => M = 0
  BY <1>3 DEF BooksInv, Funded
<1>. QED  BY <1>1, <1>2, <1>4, <1>5, <1>8, <1>9 DEF Funded

\* A month's deposit is taken once, and its cash is in the account before the gate looks.
LEMMA DepositKeeps ==
  ASSUME BooksInv, TakeDeposit
  PROVE  BooksInv'
<1>1. /\ step = "deposit" /\ step' = "context"
      /\ UNCHANGED <<session, day, bars, rate, last, settled, paid, taxes, due, pending, waited>>
  BY DEF TakeDeposit, market, tax
<1>2. session > 0 /\ session \in Nat
  BY <1>1 DEF BooksInv, Dated, BacktestTypeOK
<1>3. rate \in Nat \ {0} /\ Year(day) \in Nat
  BY <1>2, OpenedIs DEF BooksInv, Opened
<1>4. PICK a \in Accounts : a = account
  BY DEF BooksInv, Dated
<1>5. PICK krw \in Nat, usd \in Nat :
        /\ deposited' = deposited + krw /\ funds' = funds + usd
        /\ account' = [account EXCEPT !.cash = @ + usd]
  <2>1. ASSUME NEW k \in Nat, Contribute(k)
        PROVE  \E krw \in Nat, usd \in Nat :
                 /\ deposited' = deposited + krw /\ funds' = funds + usd
                 /\ account' = [account EXCEPT !.cash = @ + usd]
    <3>1. k \div rate \in Nat
      BY <1>3, Quotients
    <3>2. PICK usd \in Nat : usd = k \div rate
      BY <3>1
    <3>3. deposited' = deposited + k /\ funds' = funds + usd /\ account' = [account EXCEPT !.cash = @ + usd]
      BY <2>1, <3>2 DEF Contribute
    <3>. QED  BY <3>3
  <2>2. Seed \in Nat /\ Monthly \in Nat
    BY BacktestParameters
  <2>3. CASE UNCHANGED <<account, deposited, funds, funded>>
    <3>1. deposited \in Nat /\ funds \in Nat
      BY DEF BooksInv, BacktestTypeOK
    <3>2. deposited' = deposited + 0 /\ funds' = funds + 0
      BY <2>3, <3>1
    <3>3. a.cash + 0 = a.cash
      BY AccountTyped
    <3>4. a = [a EXCEPT !.cash = a.cash + 0]
      BY <3>3 DEF Accounts
    <3>5. account' = [account EXCEPT !.cash = @ + 0]
      BY <1>4, <2>3, <3>4
    <3>. QED  BY <3>2, <3>5
  <2>. QED  BY <2>1, <2>2, <2>3 DEF TakeDeposit
<1>6. PICK b : b = account' /\ b = [a EXCEPT !.cash = a.cash + usd]
  BY <1>4, <1>5
<1>7. /\ b.cash = a.cash + usd /\ b.gains = a.gains /\ b.lots = a.lots /\ b.fees = a.fees
      /\ b.realised = a.realised /\ b.over = a.over /\ b \in Accounts
  <2>1. a.cash + usd \in Int
    BY AccountTyped
  <2>. QED  BY <1>6, <2>1 DEF Accounts
<1>8. PICK f \in Nat, t \in Nat : f = funds /\ t = taxes /\ f + usd = funds' /\ t = taxes'
  BY <1>1, <1>5 DEF BooksInv, BacktestTypeOK
<1>9. BacktestTypeOK'
  <2>1. /\ b.cash \in Int /\ b.realised \in Int /\ b.gains \in [Years -> Int] /\ b.fees \in Nat
        /\ \A x \in Universe : b.lots[x] \in [quantity : Nat, cost : Nat]
    BY <1>7, AccountTyped
  <2>2. deposited' \in Nat /\ funds' \in Nat
    <3>1. deposited \in Nat
      BY DEF BooksInv, BacktestTypeOK
    <3>. QED  BY <1>5, <1>8, <3>1
  <2>. QED  BY <1>1, <1>6, <2>1, <2>2 DEF BooksInv, BacktestTypeOK
<1>10. Dated'
  BY <1>1, <1>2, <1>6, <1>7 DEF BooksInv, Dated
<1>11. BooksBalance'
  <2>1. a.cash + Total([x \in Universe |-> a.lots[x].cost]) = f - t - a.fees + a.realised + a.over
    BY <1>4, <1>8 DEF BooksInv, BooksBalance
  <2>2. Book(a) = f - t
    BY <2>1, Balanced
  <2>3. CostOf(b) = CostOf(a)
    BY <1>7 DEF CostOf
  <2>4. Book(b) = Book(a) + usd
    <3>1. CostOf(a) \in Int /\ a.cash \in Int /\ a.fees \in Nat /\ a.realised \in Int /\ a.over \in Int
      BY AccountTyped
    <3>. QED  BY <1>7, <2>3, <3>1 DEF Book
  <2>5. PICK g \in Nat : g = f + usd /\ g = funds' /\ Book(b) = g - t
    BY <1>8, <2>2, <2>4
  <2>6. b.cash + Total([x \in Universe |-> b.lots[x].cost]) = g - t - b.fees + b.realised + b.over
    BY <1>7, <2>5, Balanced
  <2>7. t = taxes'
    BY <1>8
  <2>. QED  BY <1>6, <2>5, <2>6, <2>7 DEF BooksBalance
<1>12. Taxed'
  <2>1. \A y \in Years \ {Year(day)} : account'.gains[y] = account.gains[y]
    BY <1>4, <1>6, <1>7
  <2>. QED  BY <1>1, <1>2, <1>3, <2>1, TaxedSame DEF BooksInv
<1>13. Funded'
  BY DepositFunds
<1>14. Covered'
  <2>1. PICK i \in Int, h \in Nat : i = a.cash /\ h = a.fees
    BY AccountTyped, Zenon
  <2>2. (i + usd) + t + h >= i + t + h
    OBVIOUS
  <2>3. account'.cash + taxes' + account'.fees >= account.cash + taxes + account.fees
    BY <1>4, <1>6, <1>7, <1>8, <2>1, <2>2
  <2>4. account' \in Accounts /\ account'.over = account.over /\ taxes \in Nat /\ taxes' \in Nat
    BY <1>4, <1>6, <1>7, <1>8
  <2>. QED  BY <1>1, <1>4, <2>3, <2>4, CoveredSame DEF BooksInv
<1>15. Snapshot'
  BY <1>1 DEF Snapshot
<1>. QED  BY <1>9, <1>10, <1>11, <1>12, <1>13, <1>14, <1>15 DEF BooksInv

\* Steps that leave the account and the ledger as they are.
LEMMA BooksSame ==
  ASSUME BooksInv,
         UNCHANGED <<session, day, bars, rate, last, account, settled, paid, taxes,
                     deposited, funded, funds, due, waited>>,
         step \in {"context", "judge", "night"}, step' \in {"judge", "night"},
         session = 0 => step' = "night",
         step = "night" => step' = "night",
         pending' \in Seq(Signals), Covered', Snapshot'
  PROVE  BooksInv'
<1>1. BacktestTypeOK'
  BY DEF BooksInv, BacktestTypeOK
<1>2. Dated'
  BY DEF BooksInv, Dated
<1>3. BooksBalance'
  BY DEF BooksInv, BooksBalance
<1>4. Taxed'
  BY DEF BooksInv, Taxed, Bill
<1>5. Funded'
  <2>1. AtRest' <=> AtRest
    BY DEF AtRest
  <2>. QED  BY <2>1, FundedSame DEF BooksInv
<1>. QED  BY <1>1, <1>2, <1>3, <1>4, <1>5 DEF BooksInv
\* The gate is shown the account as it is, with nothing queued.
LEMMA ContextKeeps ==
  ASSUME BooksInv, BuildContext
  PROVE  BooksInv'
<1>1. /\ step = "context" /\ step' = "judge" /\ committed' = Gate!Nothing
      /\ UNCHANGED <<session, day, bars, rate, last, account, settled, paid, taxes, deposited, funded,
                     funds, due, pending, waited>>
  BY DEF BuildContext, market, tax, money
<1>2. /\ ctx'.power = [c \in {"USD"} |-> account.cash]
      /\ ctx'.sellable = [x \in Universe |-> IF Owned(x) = 0 THEN Unknown ELSE Owned(x)]
  BY DEF BuildContext
<1>3. /\ Gate!Nothing.spent = [c \in {"USD"} |-> 0]
      /\ Gate!Nothing.sold = [x \in Universe |-> 0]
  BY DEF Gate!Nothing
<1>4. \A x \in Universe : Owned(x)' = Owned(x)
  BY <1>1 DEF Owned
<1>5. Snapshot'
  <2>1. ASSUME ~waited
        PROVE  /\ committed'.spent = [c \in {"USD"} |-> Left(pending, Bids, 0)]
               /\ committed'.sold = [x \in Universe |-> Left(pending, SharesOf(x), 0)]
    <3>1. pending = <<>>
      BY <1>1, <2>1 DEF BooksInv, Covered
    <3>2. Left(pending, Bids, 0) = 0 /\ \A x \in Universe : Left(pending, SharesOf(x), 0) = 0
      <4>1. <<>> \in Seq(Signals)
        OBVIOUS
      <4>. QED  BY <3>1, <4>1, AsksTyped, LeftIs
    <3>3. committed'.spent = [c \in {"USD"} |-> 0] /\ committed'.sold = [x \in Universe |-> 0]
      BY <1>1, <1>3
    <3>. QED  BY <3>2, <3>3
  <2>2. ctx'.power["USD"] = account'.cash
    BY <1>1, <1>2
  <2>3. \A x \in Universe : ctx'.sellable[x] = IF Owned(x)' = 0 THEN Unknown ELSE Owned(x)'
    BY <1>2, <1>4
  <2>. QED  BY <1>1, <2>1, <2>2, <2>3 DEF Snapshot
<1>6. Covered'
  BY <1>1 DEF BooksInv, Covered, Backed
<1>7. session # 0 /\ pending' \in Seq(Signals)
  BY <1>1 DEF BooksInv, Dated, BacktestTypeOK
<1>. QED  BY <1>1, <1>5, <1>6, <1>7, BooksSame

\* What the gate approves is within what is left of cash and shares.
LEMMA ApprovedFits ==
  ASSUME BooksInv, step = "judge", ~waited, NEW s \in Signals, Gate!Approves(s, committed),
         ~s.buy => s.quantity <= Owned(s.symbol)
  PROVE  /\ s.buy  => Left(pending, Bids, 0) + s.amount <= account.cash
         /\ ~s.buy => Left(pending, SharesOf(s.symbol), 0) + s.quantity <= Owned(s.symbol)
         /\ Gate!Plus(committed, s).spent =
              [c \in {"USD"} |-> Left(pending, Bids, 0) + Bids[s]]
         /\ Gate!Plus(committed, s).sold =
              [x \in Universe |-> Left(pending, SharesOf(x), 0) + SharesOf(x)[s]]
<1>1. /\ ctx.power["USD"] = account.cash
      /\ \A x \in Universe : ctx.sellable[x] = IF Owned(x) = 0 THEN Unknown ELSE Owned(x)
      /\ committed.spent = [c \in {"USD"} |-> Left(pending, Bids, 0)]
      /\ committed.sold = [x \in Universe |-> Left(pending, SharesOf(x), 0)]
  BY DEF BooksInv, Snapshot
<1>2. /\ s.symbol \in Universe /\ s.buy \in BOOLEAN
      /\ s.buy  => s.amount \in Nat /\ s.quantity = Unknown
      /\ ~s.buy => s.quantity \in Nat /\ s.amount = Unknown
  BY SignalIs
<1>3. Unknown \notin Int
  BY BacktestParameters
<1>4. account \in Accounts /\ pending \in Seq(Signals)
  BY DEF BooksInv, Dated, BacktestTypeOK
<1>5. account.cash \in Int /\ \A x \in Universe : Owned(x) \in Nat
  BY <1>4, AccountTyped DEF Owned
<1>6. Left(pending, Bids, 0) \in Nat /\ \A x \in Universe : Left(pending, SharesOf(x), 0) \in Nat
  BY <1>4, AsksTyped, LeftIs
<1>7. \A x \in Universe : Left(pending, SharesOf(x), 0) <= Owned(x)
  BY DEF BooksInv, Covered, Backed, Owned
<1>8. [x \in Universe |-> "USD"][s.symbol] = "USD"
  BY <1>2
<1>9. ASSUME s.buy PROVE Left(pending, Bids, 0) + s.amount <= account.cash
  <2>1. Gate!Affordable(s, committed)
    BY DEF Gate!Approves
  <2>2. Gate!Notional(s) = s.amount /\ s.amount # Unknown
    BY <1>2, <1>3, <1>9 DEF Gate!Notional
  <2>3. Gate!Priced(s)
    BY <2>2 DEF Gate!Priced
  <2>4. ctx.power["USD"] # Unknown
    BY <1>1, <1>3, <1>5
  <2>5. s.amount <= ctx.power["USD"] - committed.spent["USD"]
    BY <1>8, <1>9, <2>1, <2>2, <2>3, <2>4 DEF Gate!Affordable
  <2>6. s.amount <= account.cash - Left(pending, Bids, 0)
    BY <1>1, <2>5
  <2>7. s.amount \in Nat
    BY <1>2, <1>9
  <2>. QED  BY <1>5, <1>6, <2>6, <2>7
<1>10. ASSUME ~s.buy PROVE Left(pending, SharesOf(s.symbol), 0) + s.quantity <= Owned(s.symbol)
  <2>1. Gate!Sellable(s, committed)
    BY DEF Gate!Approves
  <2>2. PICK x \in Universe, q \in Nat, h \in Nat, l \in Nat :
          x = s.symbol /\ q = s.quantity /\ h = Owned(x) /\ l = Left(pending, SharesOf(x), 0)
    BY <1>2, <1>5, <1>6, <1>10
  <2>3. q <= h /\ l <= h
    BY <1>7, <1>10, <2>2
  <2>4. CASE h = 0
    <3>1. l + q <= h
      BY <2>3, <2>4
    <3>. QED  BY <2>2, <3>1
  <2>5. CASE h # 0
    <3>1. ctx.sellable[x] = h /\ h # Unknown /\ q # Unknown
      BY <1>1, <1>3, <2>2, <2>5
    <3>2. q <= ctx.sellable[x] - committed.sold[x]
      BY <1>10, <2>1, <2>2, <3>1 DEF Gate!Sellable
    <3>3. q <= h - l
      BY <1>1, <2>2, <3>1, <3>2
    <3>4. l + q <= h
      BY <3>3
    <3>. QED  BY <2>2, <3>4
  <2>. QED  BY <2>4, <2>5
<1>11. Gate!Plus(committed, s).spent = [c \in {"USD"} |-> Left(pending, Bids, 0) + Bids[s]]
  <2>1. Gate!Plus(committed, s).spent =
          IF s.buy /\ Gate!Priced(s)
          THEN [committed.spent EXCEPT !["USD"] = @ + Gate!Notional(s)] ELSE committed.spent
    BY <1>8 DEF Gate!Plus
  <2>2. CASE s.buy
    <3>1. Gate!Notional(s) = s.amount /\ s.amount # Unknown /\ Bids[s] = s.amount
      BY <1>2, <1>3, <2>2 DEF Gate!Notional, Bids
    <3>2. Gate!Priced(s)
      BY <3>1 DEF Gate!Priced
    <3>. QED  BY <1>1, <2>1, <2>2, <3>1, <3>2
  <2>3. CASE ~s.buy
    <3>1. Bids[s] = 0
      BY <2>3 DEF Bids
    <3>2. Left(pending, Bids, 0) + Bids[s] = Left(pending, Bids, 0)
      BY <1>6, <3>1
    <3>. QED  BY <1>1, <2>1, <2>3, <3>2
  <2>. QED  BY <2>2, <2>3
<1>12. Gate!Plus(committed, s).sold = [x \in Universe |-> Left(pending, SharesOf(x), 0) + SharesOf(x)[s]]
  <2>1. Gate!Plus(committed, s).sold =
          IF ~s.buy /\ s.quantity # Unknown
          THEN [committed.sold EXCEPT ![s.symbol] = @ + s.quantity] ELSE committed.sold
    BY DEF Gate!Plus
  <2>2. CASE ~s.buy
    <3>1. s.quantity # Unknown
      BY <1>2, <1>3, <2>2
    <3>2. \A x \in Universe : SharesOf(x)[s] = IF x = s.symbol THEN s.quantity ELSE 0
      BY <2>2 DEF SharesOf
    <3>3. \A x \in Universe : x # s.symbol => Left(pending, SharesOf(x), 0) + SharesOf(x)[s] = Left(pending, SharesOf(x), 0)
      BY <1>6, <3>2
    <3>. QED  BY <1>1, <1>2, <2>1, <2>2, <3>1, <3>2, <3>3
  <2>3. CASE s.buy
    <3>1. \A x \in Universe : SharesOf(x)[s] = 0
      BY <2>3 DEF SharesOf
    <3>2. \A x \in Universe : Left(pending, SharesOf(x), 0) + SharesOf(x)[s] = Left(pending, SharesOf(x), 0)
      BY <1>6, <3>1
    <3>. QED  BY <1>1, <2>1, <2>3, <3>2
  <2>. QED  BY <1>2, <2>2, <2>3
<1>. QED  BY <1>9, <1>10, <1>11, <1>12

\* A verdict queues what it approves.
LEMMA JudgeKeeps ==
  ASSUME BooksInv, NEW s \in Signals, Judge(s)
  PROVE  BooksInv'
<1>1. /\ step = "judge" /\ (~s.buy => s.quantity <= Owned(s.symbol)) /\ ctx' = ctx
      /\ committed' = (IF Gate!Approves(s, committed) THEN Gate!Plus(committed, s) ELSE committed)
      /\ pending' = (IF Gate!Approves(s, committed) THEN Append(pending, s) ELSE pending)
      /\ UNCHANGED <<step, session, day, bars, rate, last, account, settled, paid, taxes, deposited, funded,
                     funds, due, waited>>
  BY DEF Judge, market, tax, money, Gate!Evaluate
<1>2. account \in Accounts /\ pending \in Seq(Signals) /\ taxes \in Nat
  BY DEF BooksInv, Dated, BacktestTypeOK
<1>3. session # 0 /\ pending' \in Seq(Signals)
  <2>1. session # 0
    BY <1>1 DEF BooksInv, Dated
  <2>2. \A q \in Seq(Signals) : Append(q, s) \in Seq(Signals)
    OBVIOUS
  <2>. QED  BY <1>1, <1>2, <2>1, <2>2
<1>4. CASE ~Gate!Approves(s, committed)
  <2>1. committed' = committed /\ pending' = pending
    BY <1>1, <1>4
  <2>2. \A x \in Universe : Owned(x)' = Owned(x)
    BY <1>1 DEF Owned
  <2>3. Covered'
    BY <1>1, <2>1 DEF BooksInv, Covered, Backed
  <2>4. Snapshot'
    BY <1>1, <2>1, <2>2 DEF BooksInv, Snapshot
  <2>. QED  BY <1>1, <1>3, <2>3, <2>4, BooksSame
<1>5. CASE Gate!Approves(s, committed)
  <2>1. committed' = Gate!Plus(committed, s) /\ pending' = Append(pending, s)
    BY <1>1, <1>5
  <2>2. \A x \in Universe : Owned(x)' = Owned(x)
    BY <1>1 DEF Owned
  <2>3. /\ Left(pending', Bids, 0) = Left(pending, Bids, 0) + Bids[s]
        /\ \A x \in Universe : Left(pending', SharesOf(x), 0) = Left(pending, SharesOf(x), 0) + SharesOf(x)[s]
    BY <1>2, <2>1, AsksTyped, LeftIs
  <2>4. ASSUME ~waited
        PROVE  Backed(account, 0)' /\ Snapshot'
    <3>1. /\ s.buy  => Left(pending, Bids, 0) + s.amount <= account.cash
          /\ ~s.buy => Left(pending, SharesOf(s.symbol), 0) + s.quantity <= Owned(s.symbol)
          /\ Gate!Plus(committed, s).spent =
               [c \in {"USD"} |-> Left(pending, Bids, 0) + Bids[s]]
          /\ Gate!Plus(committed, s).sold =
               [x \in Universe |-> Left(pending, SharesOf(x), 0) + SharesOf(x)[s]]
      BY <1>1, <1>5, <2>4, ApprovedFits
    <3>2. /\ account.over = 0
          /\ account.cash + taxes + account.fees >= Left(pending, Bids, 0)
          /\ \A x \in Universe : Left(pending, SharesOf(x), 0) <= account.lots[x].quantity
      BY <2>4 DEF BooksInv, Covered, Backed
    <3>3. PICK i \in Int, h \in Nat, t \in Nat : i = account.cash /\ h = account.fees /\ t = taxes
      BY <1>2, AccountTyped, Zenon
    <3>4. PICK l \in Nat, n \in Nat : l = Left(pending, Bids, 0) /\ n = Bids[s]
      BY <1>2, AsksTyped, LeftIs
    <3>5. l + n <= i + t + h
      <4>1. l <= i + t + h
        BY <3>2, <3>3, <3>4
      <4>2. s.buy => n = s.amount
        BY <3>4 DEF Bids
      <4>3. ~s.buy => n = 0
        BY <3>4 DEF Bids
      <4>4. s.buy => l + n <= i
        BY <3>1, <3>3, <3>4, <4>2
      <4>5. l + n <= i \/ n = 0
        BY <4>3, <4>4
      <4>. QED  BY <4>1, <4>5
    <3>6. account'.cash + taxes' + account'.fees >= Left(pending', Bids, 0)
      BY <1>1, <2>3, <3>3, <3>4, <3>5
    <3>7. ASSUME NEW x \in Universe PROVE Left(pending', SharesOf(x), 0) <= account'.lots[x].quantity
      <4>1. PICK m \in Nat, o \in Nat : m = Left(pending, SharesOf(x), 0) /\ o = account.lots[x].quantity /\ m <= o
        <5>1. SharesOf(x) \in [Signals -> Nat]
          BY AsksTyped
        <5>2. Left(pending, SharesOf(x), 0) \in Nat
          BY <1>2, <5>1, LeftIs
        <5>3. account.lots[x].quantity \in Nat
          BY <1>2, AccountTyped
        <5>. QED  BY <3>2, <5>2, <5>3
      <4>2. Left(pending', SharesOf(x), 0) = m + SharesOf(x)[s]
        BY <2>3, <4>1
      <4>3. CASE ~s.buy /\ s.symbol = x
        <5>1. SharesOf(x)[s] = s.quantity
          BY <4>3 DEF SharesOf
        <5>2. m + s.quantity <= o
          BY <3>1, <4>1, <4>3 DEF Owned
        <5>. QED  BY <1>1, <4>1, <4>2, <5>1, <5>2
      <4>4. CASE ~(~s.buy /\ s.symbol = x)
        <5>1. SharesOf(x)[s] = 0
          BY <4>4 DEF SharesOf
        <5>2. Left(pending', SharesOf(x), 0) = m
          BY <4>2, <5>1
        <5>. QED  BY <1>1, <4>1, <5>2
      <4>. QED  BY <4>3, <4>4
    <3>8. Backed(account, 0)'
      BY <1>1, <3>2, <3>6, <3>7 DEF Backed
    <3>9. Snapshot'
      <4>1. /\ ctx.power["USD"] = account.cash
            /\ \A x \in Universe : ctx.sellable[x] = IF Owned(x) = 0 THEN Unknown ELSE Owned(x)
        BY <1>1, <2>4 DEF BooksInv, Snapshot
      <4>2. committed'.spent = [c \in {"USD"} |-> Left(pending', Bids, 0)]
        BY <2>1, <2>3, <3>1
      <4>3. committed'.sold = [x \in Universe |-> Left(pending', SharesOf(x), 0)]
        BY <2>1, <2>3, <3>1
      <4>. QED  BY <1>1, <2>2, <4>1, <4>2, <4>3 DEF Snapshot
    <3>. QED  BY <3>8, <3>9
  <2>5. Covered'
    BY <1>1, <2>4 DEF Covered
  <2>6. Snapshot'
    BY <1>1, <2>4 DEF Snapshot
  <2>. QED  BY <1>1, <1>3, <2>5, <2>6, BooksSame
<1>. QED  BY <1>4, <1>5

\* The session ends with its queue.
LEMMA CloseKeeps ==
  ASSUME BooksInv, Close
  PROVE  BooksInv'
<1>1. /\ step = "judge" /\ step' = "night"
      /\ UNCHANGED <<session, day, bars, rate, last, account, settled, paid, taxes, deposited, funded,
                     funds, due, pending, waited>>
  BY DEF Close, market, tax, money
<1>2. Covered'
  BY <1>1 DEF BooksInv, Covered, Backed
<1>3. Snapshot'
  BY <1>1 DEF Snapshot
<1>4. pending' \in Seq(Signals)
  BY <1>1 DEF BooksInv, BacktestTypeOK
<1>. QED  BY <1>1, <1>2, <1>3, <1>4, BooksSame

\* Every step keeps it.
LEMMA BacktestStepKeeps ==
  BooksInv /\ [BacktestNext]_backtestVars => BooksInv'
<1> SUFFICES ASSUME BooksInv, [BacktestNext]_backtestVars PROVE BooksInv'
  OBVIOUS
<1>1. CASE Open
  BY <1>1, OpenKeeps
<1>2. CASE FillPending
  BY <1>2, FillKeeps
<1>3. CASE WorkStops
  BY <1>3, StopsKeep
<1>4. CASE SettleTax
  BY <1>4, TaxKeeps
<1>5. CASE TakeDeposit
  BY <1>5, DepositKeeps
<1>6. CASE BuildContext
  BY <1>6, ContextKeeps
<1>7. ASSUME NEW s \in Signals, Judge(s) PROVE BooksInv'
  BY <1>7, JudgeKeeps
<1>8. CASE Close
  BY <1>8, CloseKeeps
<1>9. CASE UNCHANGED backtestVars
  <2>1. UNCHANGED <<step, session, day, bars, rate, last, account, settled, paid, taxes, deposited, funded,
                    funds, due, pending, ctx, committed, batch, waited>>
    BY <1>9 DEF backtestVars, market, tax, money, gate
  <2>2. Covered'
    BY <2>1 DEF BooksInv, Covered, Backed
  <2>3. \A x \in Universe : Owned(x)' = Owned(x)
    BY <2>1 DEF Owned
  <2>4. Snapshot'
    BY <2>1, <2>3 DEF BooksInv, Snapshot
  <2>5. AtRest' <=> AtRest
    BY <2>1 DEF AtRest
  <2>6. Funded'
    BY <2>1, <2>5, FundedSame DEF BooksInv
  <2>7. BacktestTypeOK'
    BY <2>1 DEF BooksInv, BacktestTypeOK
  <2>8. Dated'
    BY <2>1 DEF BooksInv, Dated
  <2>9. BooksBalance'
    BY <2>1 DEF BooksInv, BooksBalance
  <2>10. Taxed'
    BY <2>1 DEF BooksInv, Taxed, Bill
  <2>. QED  BY <2>2, <2>4, <2>6, <2>7, <2>8, <2>9, <2>10 DEF BooksInv
<1>. QED  BY <1>1, <1>2, <1>3, <1>4, <1>5, <1>6, <1>7, <1>8, <1>9 DEF BacktestNext

\* The books hold in every state.
LEMMA BacktestInvariance ==
  BacktestSpec => []BooksInv
BY BacktestInitHolds, BacktestStepKeeps, PTL DEF BacktestSpec

\* The simulated account has whole shares and costs, and the ledger natural sums.
THEOREM BacktestTyped ==
  BacktestSpec => []BacktestTypeOK
<1>1. BooksInv => BacktestTypeOK
  BY DEF BooksInv
<1>. QED  BY <1>1, BacktestInvariance, PTL

\* No money appears or vanishes: fills, stops, tax and deposits keep cash and cost to what
\* was put in and what trades made.
THEOREM MoneyConserved ==
  BacktestSpec => []BooksBalance
<1>1. BooksInv => BooksBalance
  BY DEF BooksInv
<1>. QED  BY <1>1, BacktestInvariance, PTL

\* The gate's view of one day keeps lots and cash from being spent twice, for any signals
\* and prices, as long as no order waits for a bar.
THEOREM NothingTwice ==
  BacktestSpec => []NothingSpentTwice
<1>1. BooksInv => NothingSpentTwice
  <2> SUFFICES ASSUME BooksInv, ~waited
                PROVE  account.over = 0 /\ account.cash + taxes + account.fees >= 0
    BY DEF NothingSpentTwice
  <2>2. PICK a \in Accounts : a = account
    BY DEF BooksInv, Dated
  <2>3. a.over = 0 /\ a.cash + taxes + a.fees >= Left(pending, Bids, 0)
    BY <2>2 DEF BooksInv, Covered, Backed
  <2>4. Left(pending, Bids, 0) \in Nat
    BY AsksTyped, LeftIs DEF BooksInv, BacktestTypeOK
  <2>5. a.cash + taxes + a.fees \in Int
    <3>1. a.cash \in Int /\ a.fees \in Nat
      BY AccountTyped
    <3>2. taxes \in Nat
      BY DEF BooksInv, BacktestTypeOK
    <3>. QED  BY <3>1, <3>2
  <2>6. a.cash + taxes + a.fees >= 0
    <3>1. PICK u \in Int, v \in Nat : u = a.cash + taxes + a.fees /\ v = Left(pending, Bids, 0)
      BY <2>4, <2>5
    <3>2. u >= v
      BY <2>3, <3>1
    <3>3. u >= 0
      BY <3>2
    <3>. QED  BY <3>1, <3>3
  <2>. QED  BY <2>2, <2>3, <2>6
<1>. QED  BY <1>1, BacktestInvariance, PTL

\* Each completed year is billed once and in the first session of the next, and each month
\* that has a session on or after the due day has one deposit.
THEOREM BilledAndFundedOnce ==
  BacktestSpec => []YearsAndMonthsOnce
<1>1. BooksInv => YearsAndMonthsOnce
  <2> SUFFICES ASSUME BooksInv PROVE YearsAndMonthsOnce
    OBVIOUS
  <2>2. paid = Total([y \in settled |-> Bill(account.gains[y])])
    BY DEF BooksInv, Taxed
  <2>3. step \notin {"night", "fill", "stop", "tax"} => settled = {y \in Years : y < Year(day)}
    BY DEF BooksInv, Taxed
  <2>4. step \in {"context", "judge", "night"} /\ session > 0 =>
          deposited = Seed + Monthly * Cardinality(due \ {0})
    BY DEF BooksInv, Funded, AtRest
  <2>. QED  BY <2>2, <2>3, <2>4 DEF YearsAndMonthsOnce
<1>. QED  BY <1>1, BacktestInvariance, PTL
=============================================================================
