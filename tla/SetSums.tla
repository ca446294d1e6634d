------------------------------- MODULE SetSums -------------------------------
(***************************************************************************)
(* The sum of a function over a finite set, as MapThenSumSet defines it,   *)
(* and the laws that the proofs about amounts of money rest on. The library*)
(* states induction over finite sets for an operator, which no backend can *)
(* instantiate; StrictSubsets states it for a set of sets. From it comes   *)
(* also what the greatest and the least element of a finite set are.       *)
(***************************************************************************)
EXTENDS Integers, FiniteSets, FiniteSetsExt, FiniteSetTheorems, TLAPS

SumOver(f, S) == MapThenSumSet(LAMBDA x : f[x], S)

One(S) == CHOOSE x \in S : TRUE

\* The recursion that the sum over the subsets of S is the solution of.
IsSum(g, f, S) ==
    g = [T \in SUBSET S |-> IF T = {} THEN 0 ELSE f[One(T)] + g[T \ {One(T)}]]

-----------------------------------------------------------------------------
(* Induction on the strict subsets of a finite set.                        *)
LEMMA StrictSubsets ==
    ASSUME NEW S, IsFiniteSet(S), NEW Good,
           \A T \in SUBSET S : (\A U \in SUBSET T : U # T => U \in Good) => T \in Good
    PROVE  \A T \in SUBSET S : T \in Good
<1> DEFINE Bad == {T \in SUBSET S : T \notin Good}
           Smaller == StrictSubsetOrdering(S)
<1> SUFFICES ASSUME Bad # {} PROVE FALSE
  OBVIOUS
<1>1. IsWellFoundedOn(Smaller, SUBSET S)
  <2>1. FiniteSubsetsOf(S) = SUBSET S
    BY FS_FiniteSubsetsOfFinite
  <2>2. IsWellFoundedOn(StrictSubsetOrdering(S), FiniteSubsetsOf(S))
    BY FS_StrictSubsetOrderingWellFounded
  <2> QED
    BY <2>1, <2>2
<1>2. PICK T \in Bad : \A U \in Bad : <<U, T>> \notin Smaller
  <2> Bad \subseteq SUBSET S
    OBVIOUS
  <2> HIDE DEF Bad, Smaller
  <2> QED
    BY <1>1, WFMin
<1>3. ASSUME NEW U \in SUBSET T, U # T PROVE U \in Good
  BY <1>2, <1>3 DEF StrictSubsetOrdering
<1> QED
  BY <1>3

(* Two solutions of the recursion agree where both are defined.            *)
LEMMA SumIsUnique ==
    ASSUME NEW S, IsFiniteSet(S), NEW U, S \subseteq U, NEW f, NEW g, NEW h,
           IsSum(g, f, S), IsSum(h, f, U)
    PROVE  \A T \in SUBSET S : g[T] = h[T]
<1> DEFINE Good == {T \in SUBSET S : g[T] = h[T]}
<1>1. ASSUME NEW T \in SUBSET S, \A V \in SUBSET T : V # T => V \in Good
      PROVE  T \in Good
  <2>1. CASE T = {}
    <3>1. g[T] = 0 /\ h[T] = 0
      BY <2>1 DEF IsSum
    <3> QED
      BY <3>1
  <2>2. CASE T # {}
    <3> DEFINE V == T \ {One(T)}
    <3>1. One(T) \in T
      BY <2>2 DEF One
    <3>2. g[V] = h[V]
      BY <1>1, <3>1
    <3>3. g[T] = f[One(T)] + g[V]
      BY <2>2 DEF IsSum
    <3>4. h[T] = f[One(T)] + h[V]
      BY <2>2 DEF IsSum
    <3> QED
      BY <3>2, <3>3, <3>4
  <2> QED
    BY <2>1, <2>2
<1> HIDE DEF Good
<1>2. \A T \in SUBSET S : T \in Good
  BY <1>1, StrictSubsets
<1> QED
  BY <1>2 DEF Good

(* The recursion has a solution over every finite set.                     *)
LEMMA SumExists ==
    ASSUME NEW S, IsFiniteSet(S), NEW f
    PROVE  \E g : IsSum(g, f, S)
<1> DEFINE Good == {T \in SUBSET S : \E g : IsSum(g, f, T)}
<1>1. ASSUME NEW T \in SUBSET S, \A V \in SUBSET T : V # T => V \in Good
      PROVE  T \in Good
  <2> DEFINE sub(V) == CHOOSE g : IsSum(g, f, V)
             V1 == T \ {One(T)}
             g == [V \in SUBSET T |->
                      IF V = T THEN IF T = {} THEN 0 ELSE f[One(T)] + sub(V1)[V1]
                      ELSE sub(V)[V]]
  <2>1. \A V \in SUBSET T : V # T => IsSum(sub(V), f, V)
    BY <1>1
  <2>2. T # {} => One(T) \in T
    BY DEF One
  <2>3. ASSUME NEW V \in SUBSET T
        PROVE  g[V] = IF V = {} THEN 0 ELSE f[One(V)] + g[V \ {One(V)}]
    <3>1. CASE V = T
      BY <2>2, <3>1
    <3>2. CASE V # T
      <4> DEFINE W == V \ {One(V)}
      <4>1. IsSum(sub(V), f, V)
        BY <2>1, <3>2
      <4>2. sub(V)[V] = IF V = {} THEN 0 ELSE f[One(V)] + sub(V)[W]
        <5> HIDE DEF sub
        <5> QED
          BY <4>1 DEF IsSum
      <4>3. ASSUME V # {} PROVE sub(V)[W] = sub(W)[W]
        <5>1. W \in SUBSET V /\ W # V
          BY <4>3 DEF One
        <5>2. IsSum(sub(W), f, W)
          BY <2>1, <5>1, <3>2
        <5>3. IsFiniteSet(W)
          BY FS_Subset
        <5> HIDE DEF sub, W
        <5> QED
          BY <4>1, <5>1, <5>2, <5>3, SumIsUnique
      <4>4. V # {} => W \in SUBSET T /\ W # T
        BY DEF One
      <4> QED
        BY <3>2, <4>2, <4>3, <4>4
    <3> QED
      BY <3>1, <3>2
  <2>4. IsSum(g, f, T)
    <3>1. g = [V \in SUBSET T |-> g[V]]
      OBVIOUS
    <3> HIDE DEF g
    <3> QED
      BY <2>3, <3>1, Zenon DEF IsSum
  <2> QED
    BY <2>4
<1> HIDE DEF Good
<1>2. \A T \in SUBSET S : T \in Good
  BY <1>1, StrictSubsets
<1> QED
  BY <1>2 DEF Good

(* MapThenSumSet is a solution of the recursion.                           *)
LEMMA SumOverIsSum ==
    ASSUME NEW S, IsFiniteSet(S), NEW f
    PROVE  \E g : IsSum(g, f, S) /\ SumOver(f, S) = g[S]
<1> DEFINE g == CHOOSE h : IsSum(h, f, S)
<1>1. IsSum(g, f, S)
  BY SumExists
<1>2. SumOver(f, S) = g[S]
  BY DEF SumOver, MapThenSumSet, MapThenFoldSet, IsSum, One
<1> QED
  BY <1>1, <1>2

-----------------------------------------------------------------------------
(* The empty sum, and the sum as the value of one element and of the rest. *)
LEMMA SumEmpty ==
    ASSUME NEW f
    PROVE  SumOver(f, {}) = 0
  BY SumOverIsSum, FS_EmptySet DEF IsSum

LEMMA SumOne ==
    ASSUME NEW S, IsFiniteSet(S), S # {}, NEW f
    PROVE  SumOver(f, S) = f[One(S)] + SumOver(f, S \ {One(S)})
<1> DEFINE R == S \ {One(S)}
<1>1. PICK g : IsSum(g, f, S) /\ SumOver(f, S) = g[S]
  BY SumOverIsSum
<1>2. IsFiniteSet(R)
  BY FS_Subset
<1>3. PICK h : IsSum(h, f, R) /\ SumOver(f, R) = h[R]
  BY <1>2, SumOverIsSum
<1>4. h[R] = g[R]
  BY <1>1, <1>2, <1>3, SumIsUnique
<1>5. g[S] = f[One(S)] + g[R]
  BY <1>1 DEF IsSum
<1> QED
  BY <1>1, <1>3, <1>4, <1>5

(* The sum of integers is an integer, that of naturals a natural.          *)
LEMMA SumInt ==
    ASSUME NEW S, IsFiniteSet(S), NEW f, \A x \in S : f[x] \in Int
    PROVE  SumOver(f, S) \in Int
<1> DEFINE Good == {T \in SUBSET S : SumOver(f, T) \in Int}
<1>1. ASSUME NEW T \in SUBSET S, \A U \in SUBSET T : U # T => U \in Good
      PROVE  T \in Good
  <2>1. CASE T = {}
    BY <2>1, SumEmpty
  <2>2. CASE T # {}
    <3>1. One(T) \in T
      BY <2>2 DEF One
    <3>2. SumOver(f, T \ {One(T)}) \in Int
      BY <1>1, <3>1
    <3>3. SumOver(f, T) = f[One(T)] + SumOver(f, T \ {One(T)})
      BY <2>2, SumOne, FS_Subset
    <3>4. f[One(T)] \in Int
      BY <3>1
    <3> QED
      BY <3>2, <3>3, <3>4
  <2> QED
    BY <2>1, <2>2
<1> HIDE DEF Good
<1>2. \A T \in SUBSET S : T \in Good
  BY <1>1, StrictSubsets
<1> QED
  BY <1>2 DEF Good

LEMMA SumNat ==
    ASSUME NEW S, IsFiniteSet(S), NEW f, \A x \in S : f[x] \in Nat
    PROVE  SumOver(f, S) \in Nat
<1> DEFINE Good == {T \in SUBSET S : SumOver(f, T) \in Nat}
<1>1. ASSUME NEW T \in SUBSET S, \A U \in SUBSET T : U # T => U \in Good
      PROVE  T \in Good
  <2>1. CASE T = {}
    BY <2>1, SumEmpty
  <2>2. CASE T # {}
    <3>1. One(T) \in T
      BY <2>2 DEF One
    <3>2. SumOver(f, T \ {One(T)}) \in Nat
      BY <1>1, <3>1
    <3>3. SumOver(f, T) = f[One(T)] + SumOver(f, T \ {One(T)})
      BY <2>2, SumOne, FS_Subset
    <3>4. f[One(T)] \in Nat
      BY <3>1
    <3> QED
      BY <3>2, <3>3, <3>4
  <2> QED
    BY <2>1, <2>2
<1> HIDE DEF Good
<1>2. \A T \in SUBSET S : T \in Good
  BY <1>1, StrictSubsets
<1> QED
  BY <1>2 DEF Good

(* Any element may be the one: the order of the fold does not matter.      *)
LEMMA SumRemove ==
    ASSUME NEW S, IsFiniteSet(S), NEW f, \A y \in S : f[y] \in Int, NEW x \in S
    PROVE  SumOver(f, S) = f[x] + SumOver(f, S \ {x})
<1> DEFINE Good == {T \in SUBSET S :
                        \A z \in T : SumOver(f, T) = f[z] + SumOver(f, T \ {z})}
<1>1. ASSUME NEW T \in SUBSET S, \A U \in SUBSET T : U # T => U \in Good
      PROVE  T \in Good
  <2> SUFFICES ASSUME NEW z \in T
               PROVE  SumOver(f, T) = f[z] + SumOver(f, T \ {z})
    OBVIOUS
  <2> DEFINE y == One(T)
             R == T \ {y, z}
  <2>1. y \in T
    BY DEF One
  <2>2. SumOver(f, T) = f[y] + SumOver(f, T \ {y})
    BY SumOne, FS_Subset
  <2>3. CASE y = z
    BY <2>2, <2>3
  <2>4. CASE y # z
    <3>1. SumOver(f, T \ {y}) = f[z] + SumOver(f, (T \ {y}) \ {z})
      <4>1. T \ {y} \in Good
        BY <1>1, <2>1
      <4> QED
        BY <4>1, <2>4
    <3>2. SumOver(f, T \ {z}) = f[y] + SumOver(f, (T \ {z}) \ {y})
      <4>1. T \ {z} \in Good
        BY <1>1
      <4> QED
        BY <4>1, <2>1, <2>4
    <3>3. (T \ {y}) \ {z} = R /\ (T \ {z}) \ {y} = R
      OBVIOUS
    <3>4. SumOver(f, R) \in Int
      BY FS_Subset, SumInt
    <3>5. f[y] \in Int /\ f[z] \in Int
      BY <2>1
    <3>6. SumOver(f, T) = f[y] + (f[z] + SumOver(f, R))
      BY <2>2, <3>1, <3>3, Zenon
    <3>7. SumOver(f, T \ {z}) = f[y] + SumOver(f, R)
      BY <3>2, <3>3, Zenon
    <3> HIDE DEF R, y
    <3> QED
      BY <3>4, <3>5, <3>6, <3>7
  <2> QED
    BY <2>3, <2>4
<1> HIDE DEF Good
<1>2. \A T \in SUBSET S : T \in Good
  BY <1>1, StrictSubsets
<1> QED
  BY <1>2 DEF Good

(* A sum depends on the values over its set only.                          *)
LEMMA SumSame ==
    ASSUME NEW S, IsFiniteSet(S), NEW f, NEW g, \A x \in S : f[x] = g[x]
    PROVE  SumOver(f, S) = SumOver(g, S)
<1> DEFINE Good == {T \in SUBSET S : SumOver(f, T) = SumOver(g, T)}
<1>1. ASSUME NEW T \in SUBSET S, \A U \in SUBSET T : U # T => U \in Good
      PROVE  T \in Good
  <2>1. CASE T = {}
    BY <2>1, SumEmpty
  <2>2. CASE T # {}
    <3>1. One(T) \in T
      BY <2>2 DEF One
    <3>2. SumOver(f, T \ {One(T)}) = SumOver(g, T \ {One(T)})
      BY <1>1, <3>1
    <3>3. /\ SumOver(f, T) = f[One(T)] + SumOver(f, T \ {One(T)})
          /\ SumOver(g, T) = g[One(T)] + SumOver(g, T \ {One(T)})
      BY <2>2, SumOne, FS_Subset
    <3> QED
      BY <3>1, <3>2, <3>3
  <2> QED
    BY <2>1, <2>2
<1> HIDE DEF Good
<1>2. \A T \in SUBSET S : T \in Good
  BY <1>1, StrictSubsets
<1> QED
  BY <1>2 DEF Good

(* The sum over two sets without a common element.                         *)
LEMMA SumUnion ==
    ASSUME NEW S, IsFiniteSet(S), NEW R, IsFiniteSet(R), S \cap R = {},
           NEW f, \A x \in S \cup R : f[x] \in Int
    PROVE  SumOver(f, S \cup R) = SumOver(f, S) + SumOver(f, R)
<1> DEFINE Good == {T \in SUBSET S : SumOver(f, T \cup R) = SumOver(f, T) + SumOver(f, R)}
<1>0. SumOver(f, R) \in Int
  BY SumInt
<1>1. ASSUME NEW T \in SUBSET S, \A U \in SUBSET T : U # T => U \in Good
      PROVE  T \in Good
  <2>1. CASE T = {}
    <3>1. T \cup R = R
      BY <2>1
    <3> QED
      BY <2>1, <3>1, <1>0, SumEmpty
  <2>2. CASE T # {}
    <3> DEFINE x == One(T)
               V == T \ {x}
    <3>1. x \in T
      BY <2>2 DEF One
    <3>2. SumOver(f, V \cup R) = SumOver(f, V) + SumOver(f, R)
      BY <1>1, <3>1
    <3>3. SumOver(f, T) = f[x] + SumOver(f, V)
      BY <2>2, SumOne, FS_Subset
    <3>4. SumOver(f, T \cup R) = f[x] + SumOver(f, V \cup R)
      <4>1. IsFiniteSet(T \cup R)
        BY FS_Subset, FS_Union
      <4>2. SumOver(f, T \cup R) = f[x] + SumOver(f, (T \cup R) \ {x})
        BY <3>1, <4>1, SumRemove
      <4>3. (T \cup R) \ {x} = V \cup R
        BY <3>1
      <4> QED
        BY <4>2, <4>3
    <3>5. SumOver(f, V) \in Int /\ f[x] \in Int
      BY <3>1, FS_Subset, SumInt
    <3> HIDE DEF x, V
    <3> QED
      BY <3>2, <3>3, <3>4, <3>5, <1>0
  <2> QED
    BY <2>1, <2>2
<1> HIDE DEF Good
<1>2. \A T \in SUBSET S : T \in Good
  BY <1>1, StrictSubsets
<1> QED
  BY <1>2 DEF Good

(* More amounts, none of them negative, are no smaller a sum.              *)
LEMMA SumMonotone ==
    ASSUME NEW S, IsFiniteSet(S), NEW T \in SUBSET S, NEW f, \A x \in S : f[x] \in Nat
    PROVE  SumOver(f, T) <= SumOver(f, S)
<1>1. IsFiniteSet(T) /\ IsFiniteSet(S \ T)
  BY FS_Subset
<1>2. SumOver(f, T \cup (S \ T)) = SumOver(f, T) + SumOver(f, S \ T)
  BY <1>1, SumUnion
<1>3. T \cup (S \ T) = S
  OBVIOUS
<1>4. SumOver(f, T) \in Nat /\ SumOver(f, S \ T) \in Nat
  BY <1>1, SumNat
<1>5. SumOver(f, S) = SumOver(f, T) + SumOver(f, S \ T)
  BY <1>2, <1>3, Zenon
<1> QED
  BY <1>4, <1>5

(* One value that grows makes the sum grow as much.                        *)
LEMMA SumGrows ==
    ASSUME NEW S, IsFiniteSet(S), NEW f, NEW g, NEW x \in S, NEW a \in Int,
           \A y \in S : f[y] \in Int,
           \A y \in S \ {x} : g[y] = f[y],
           g[x] = f[x] + a
    PROVE  SumOver(g, S) = SumOver(f, S) + a
<1>1. IsFiniteSet(S \ {x})
  BY FS_Subset
<1>2. SumOver(f, S \ {x}) = SumOver(g, S \ {x})
  BY <1>1, SumSame
<1>3. SumOver(f, S) = f[x] + SumOver(f, S \ {x})
  BY SumRemove
<1>4. \A y \in S : g[y] \in Int
  OBVIOUS
<1>5. SumOver(g, S) = g[x] + SumOver(g, S \ {x})
  BY <1>4, SumRemove
<1>6. SumOver(f, S \ {x}) \in Int
  BY <1>1, SumInt
<1> QED
  BY <1>2, <1>3, <1>5, <1>6

(* A sum of zeros.                                                         *)
LEMMA SumZero ==
    ASSUME NEW S, IsFiniteSet(S), NEW f, \A x \in S : f[x] = 0
    PROVE  SumOver(f, S) = 0
<1> DEFINE Good == {T \in SUBSET S : SumOver(f, T) = 0}
<1>1. ASSUME NEW T \in SUBSET S, \A U \in SUBSET T : U # T => U \in Good
      PROVE  T \in Good
  <2>1. CASE T = {}
    BY <2>1, SumEmpty
  <2>2. CASE T # {}
    <3>1. One(T) \in T
      BY <2>2 DEF One
    <3>2. SumOver(f, T \ {One(T)}) = 0
      BY <1>1, <3>1
    <3>3. SumOver(f, T) = f[One(T)] + SumOver(f, T \ {One(T)})
      BY <2>2, SumOne, FS_Subset
    <3> QED
      BY <3>1, <3>2, <3>3
  <2> QED
    BY <2>1, <2>2
<1> HIDE DEF Good
<1>2. \A T \in SUBSET S : T \in Good
  BY <1>1, StrictSubsets
<1> QED
  BY <1>2 DEF Good

-----------------------------------------------------------------------------
(* A finite set has an element that no other exceeds, by any measure.      *)
LEMMA Greatest ==
    ASSUME NEW S, IsFiniteSet(S), NEW f, \A x \in S : f[x] \in Int
    PROVE  S # {} => \E x \in S : \A y \in S : f[y] <= f[x]
<1> DEFINE Good == {T \in SUBSET S : T # {} => \E x \in T : \A y \in T : f[y] <= f[x]}
<1>1. ASSUME NEW T \in SUBSET S, \A V \in SUBSET T : V # T => V \in Good
      PROVE  T \in Good
  <2> SUFFICES ASSUME T # {} PROVE \E x \in T : \A y \in T : f[y] <= f[x]
    OBVIOUS
  <2>1. PICK z \in T : TRUE
    OBVIOUS
  <2>2. CASE T = {z}
    BY <2>2
  <2>3. CASE T # {z}
    <3>1. T \ {z} \in Good /\ T \ {z} # {}
      BY <1>1, <2>1, <2>3
    <3>2. PICK x \in T \ {z} : \A y \in T \ {z} : f[y] <= f[x]
      BY <3>1
    <3>3. CASE f[z] <= f[x]
      BY <2>1, <3>2, <3>3
    <3>4. CASE ~(f[z] <= f[x])
      BY <2>1, <3>2, <3>4
    <3> QED
      BY <3>3, <3>4
  <2> QED
    BY <2>2, <2>3
<1> HIDE DEF Good
<1>2. S \in Good
  BY <1>1, StrictSubsets
<1> QED
  BY <1>2 DEF Good

LEMMA Least ==
    ASSUME NEW S, IsFiniteSet(S), NEW f, \A x \in S : f[x] \in Int
    PROVE  S # {} => \E x \in S : \A y \in S : f[x] <= f[y]
<1> DEFINE g == [x \in S |-> -f[x]]
<1>1. \A x \in S : g[x] \in Int /\ g[x] = -f[x]
  OBVIOUS
<1> HIDE DEF g
<1>2. S # {} => \E x \in S : \A y \in S : g[y] <= g[x]
  BY <1>1, Greatest
<1> QED
  BY <1>1, <1>2

LEMMA MaxIs ==
    ASSUME NEW S, IsFiniteSet(S), S # {}, S \subseteq Int
    PROVE  Max(S) \in S /\ \A x \in S : x <= Max(S)
<1> DEFINE f == [x \in S |-> x]
<1>1. \A x \in S : f[x] = x
  OBVIOUS
<1> HIDE DEF f
<1>2. \A x \in S : f[x] \in Int
  BY <1>1
<1>3. \E x \in S : \A y \in S : f[y] <= f[x]
  BY <1>2, Greatest
<1>4. \E x \in S : \A y \in S : x >= y
  BY <1>1, <1>3
<1> QED
  BY <1>4 DEF Max

LEMMA MinIs ==
    ASSUME NEW S, IsFiniteSet(S), S # {}, S \subseteq Int
    PROVE  Min(S) \in S /\ \A x \in S : Min(S) <= x
<1> DEFINE f == [x \in S |-> x]
<1>1. \A x \in S : f[x] = x
  OBVIOUS
<1> HIDE DEF f
<1>2. \A x \in S : f[x] \in Int
  BY <1>1
<1>3. \E x \in S : \A y \in S : f[x] <= f[y]
  BY <1>2, Least
<1>4. \E x \in S : \A y \in S : x <= y
  BY <1>1, <1>3
<1> QED
  BY <1>4 DEF Min

-----------------------------------------------------------------------------
(* How far one of n numbers can lie from their mean: the square of a sum is *)
(* at most n times the sum of the squares, so that a deviation from the    *)
(* mean is at most n - 1 times the variance, all of it in whole numbers.   *)
LEMMA CauchyStep ==
    ASSUME NEW m \in Nat, NEW s \in Int, NEW q \in Nat, NEW y \in Int, s * s <= m * q
    PROVE  (y + s) * (y + s) <= (m + 1) * (y * y + q)
<1>1. 2 * (s * y) <= q + m * (y * y)
  <2>1. CASE m = 0
    <3>1. s * s <= 0
      BY <2>1
    <3>2. s = 0
      BY <3>1
    <3> QED
      BY <2>1, <3>2
  <2>2. CASE m > 0
    <3> DEFINE d == s - m * y
               e == q + m * (y * y) - 2 * (s * y)
    <3>1. d * d = s * s - 2 * (m * (s * y)) + m * (m * (y * y))
      OBVIOUS
    <3>2. m * e = m * q + m * (m * (y * y)) - 2 * (m * (s * y))
      OBVIOUS
    <3>3. d * d >= 0
      OBVIOUS
    <3>4. m * e >= 0
      BY <3>1, <3>2, <3>3
    <3>5. e \in Int
      OBVIOUS
    <3>6. e >= 0
      <4> HIDE DEF e
      <4> QED
        BY <3>4, <3>5, <2>2
    <3> QED
      BY <3>6
  <2> QED
    BY <2>1, <2>2
<1>2. (y + s) * (y + s) = y * y + 2 * (s * y) + s * s
  OBVIOUS
<1>3. (m + 1) * (y * y + q) = m * (y * y) + y * y + m * q + q
  OBVIOUS
<1> QED
  BY <1>1, <1>2, <1>3

LEMMA DeviationStep ==
    ASSUME NEW m \in Nat, NEW s \in Int, NEW q \in Nat, NEW x \in Int, s * s <= m * q
    PROVE  LET n == m + 1
               sum == x + s
               spread == n * (x * x + q) - sum * sum
           IN  (n * x - sum) * (n * x - sum) <= m * spread
<1> DEFINE n == m + 1
           sum == x + s
           spread == n * (x * x + q) - sum * sum
           dev == n * x - sum
<1>1. dev = m * x - s
  OBVIOUS
<1>2. dev * dev = m * (m * (x * x)) - 2 * (m * (x * s)) + s * s
  BY <1>1
<1>3. spread = m * (x * x) + m * q + q - 2 * (x * s) - s * s
  OBVIOUS
<1>4. m * spread = m * (m * (x * x)) + m * (m * q) + m * q - 2 * (m * (x * s)) - m * (s * s)
  BY <1>3
<1>5. m * (m * q - s * s) >= 0
  <2>1. \A a, b \in Nat : a * b >= 0
    OBVIOUS
  <2>2. m * q - s * s \in Nat
    OBVIOUS
  <2> QED
    BY <2>1, <2>2
<1>6. m * (m * q - s * s) = m * (m * q) - m * (s * s)
  OBVIOUS
<1>7. m * spread - dev * dev = m * (m * q - s * s) + (m * q - s * s)
  BY <1>2, <1>4, <1>6
<1> QED
  BY <1>5, <1>7

LEMMA SquareOfSum ==
    ASSUME NEW S, IsFiniteSet(S), NEW f, NEW g,
           \A x \in S : f[x] \in Int /\ g[x] = f[x] * f[x]
    PROVE  /\ SumOver(f, S) \in Int /\ SumOver(g, S) \in Nat
           /\ SumOver(f, S) * SumOver(f, S) <= Cardinality(S) * SumOver(g, S)
<1> DEFINE Bounded(T) == SumOver(f, T) * SumOver(f, T) <= Cardinality(T) * SumOver(g, T)
           Good == {T \in SUBSET S : Bounded(T)}
<1>1. ASSUME NEW T \in SUBSET S
      PROVE  IsFiniteSet(T) /\ Cardinality(T) \in Nat /\ SumOver(f, T) \in Int /\ SumOver(g, T) \in Nat
  <2>1. IsFiniteSet(T) /\ Cardinality(T) \in Nat
    BY FS_Subset, FS_CardinalityType
  <2>2. \A a \in Int : a * a \in Nat
    OBVIOUS
  <2>3. \A x \in T : f[x] \in Int /\ g[x] \in Nat
    BY <2>2
  <2> QED
    BY <2>1, <2>3, SumInt, SumNat
<1>2. ASSUME NEW T \in SUBSET S, \A V \in SUBSET T : V # T => V \in Good
      PROVE  T \in Good
  <2>1. CASE T = {}
    <3>1. SumOver(f, T) = 0 /\ SumOver(g, T) = 0 /\ Cardinality(T) = 0
      BY <2>1, SumEmpty, FS_EmptySet
    <3>2. Bounded(T)
      BY <3>1
    <3> QED
      BY <3>2
  <2>2. CASE T # {}
    <3> DEFINE x == One(T)
               V == T \ {x}
    <3>1. x \in T /\ V \in SUBSET T /\ V # T /\ V \in SUBSET S
      BY <2>2 DEF One
    <3>2. Bounded(V)
      BY <1>2, <3>1
    <3>3. SumOver(f, T) = f[x] + SumOver(f, V) /\ SumOver(g, T) = g[x] + SumOver(g, V)
      BY <1>1, <2>2, SumOne
    <3>4. Cardinality(T) = Cardinality(V) + 1
      <4>1. Cardinality(V) = Cardinality(T) - 1
        BY <1>1, <3>1, FS_RemoveElement
      <4> QED
        BY <4>1, <1>1
    <3>5. /\ Cardinality(V) \in Nat /\ SumOver(f, V) \in Int /\ SumOver(g, V) \in Nat
          /\ f[x] \in Int /\ g[x] = f[x] * f[x]
      BY <1>1, <3>1
    <3> HIDE DEF x, V
    <3>6. (f[x] + SumOver(f, V)) * (f[x] + SumOver(f, V)) <=
              (Cardinality(V) + 1) * (f[x] * f[x] + SumOver(g, V))
      BY <3>2, <3>5, CauchyStep
    <3>7. Bounded(T)
      BY <3>3, <3>4, <3>5, <3>6
    <3> QED
      BY <3>7
  <2> QED
    BY <2>1, <2>2
<1>3. S \in Good
  <2> HIDE DEF Good
  <2> QED
    BY <1>2, StrictSubsets
<1> QED
  BY <1>1, <1>3

LEMMA DeviationBound ==
    ASSUME NEW S, IsFiniteSet(S), NEW f, NEW g,
           \A y \in S : f[y] \in Int /\ g[y] = f[y] * f[y],
           NEW x \in S
    PROVE  LET n == Cardinality(S)
               sum == SumOver(f, S)
               spread == n * SumOver(g, S) - sum * sum
           IN  (n * f[x] - sum) * (n * f[x] - sum) <= (n - 1) * spread
<1> DEFINE R == S \ {x}
           m == Cardinality(R)
           s == SumOver(f, R)
           q == SumOver(g, R)
<1>1. IsFiniteSet(R) /\ m \in Nat
  BY FS_Subset, FS_CardinalityType
<1>2. Cardinality(S) = m + 1
  <2>1. m = Cardinality(S) - 1
    BY FS_RemoveElement
  <2>2. Cardinality(S) \in Nat
    BY FS_CardinalityType
  <2> QED
    BY <2>1, <2>2
<1>3. \A y \in S : g[y] \in Int
  OBVIOUS
<1>4. SumOver(f, S) = f[x] + s /\ SumOver(g, S) = f[x] * f[x] + q
  BY <1>3, SumRemove
<1>5. s \in Int /\ q \in Nat /\ s * s <= m * q
  BY <1>1, SquareOfSum
<1>6. f[x] \in Int
  OBVIOUS
<1> HIDE DEF R, m, s, q
<1>7. LET n == m + 1
          sum == f[x] + s
          spread == n * (f[x] * f[x] + q) - sum * sum
      IN  (n * f[x] - sum) * (n * f[x] - sum) <= m * spread
  BY <1>1, <1>5, <1>6, DeviationStep
<1>8. (m + 1) - 1 = m
  BY <1>1
<1> QED
  BY <1>2, <1>4, <1>7, <1>8
=============================================================================
