----------------------------- MODULE DataLemmas -----------------------------
(***************************************************************************)
(* Induction over natural numbers and finite sets, for sets in place of    *)
(* predicates, and what it says of the folds the models use: that they are *)
(* defined, and that a sum takes its summands in any order.                *)
(***************************************************************************)
EXTENDS Integers, FiniteSets, Functions, FiniteSetTheorems, WellFoundedInduction, TLAPS

(* A set of natural numbers has a least member: the well-founded order of  *)
(* the library, with a set for the predicate.                              *)
LEMMA LeastNat ==
    ASSUME NEW S \in SUBSET Nat, S # {}
    PROVE  \E n \in S : \A k \in S : n <= k
<1> DEFINE R == OpToRel(<, Nat)
<1>1. IsWellFoundedOn(R, Nat)
  BY NatLessThanWellFounded
<1>2. \A x, y \in Nat : x < y => <<x, y>> \in R
  BY DEF OpToRel
<1> HIDE DEF R
<1>3. \E n \in S : \A k \in S : ~ (<<k, n>> \in R)
  BY <1>1, WFMin
<1>4. \A n, k \in S : ~ (<<k, n>> \in R) => n <= k
  BY <1>2
<1> QED BY <1>3, <1>4

(* Induction over the natural numbers.                                     *)
LEMMA NatInduct ==
    ASSUME NEW S \in SUBSET Nat, 0 \in S, \A n \in S : n + 1 \in S
    PROVE  S = Nat
<1> SUFFICES ASSUME Nat \ S # {} PROVE FALSE
  OBVIOUS
<1>1. PICK n \in Nat \ S : \A k \in Nat \ S : n <= k
  BY LeastNat
<1>2. n # 0 /\ n - 1 \in Nat /\ n - 1 \notin Nat \ S
  BY <1>1
<1> QED BY <1>1, <1>2

(* A property of subsets that holds of none and is kept by one more        *)
(* element holds of a finite set.                                          *)
LEMMA SetInduct ==
    ASSUME NEW S, IsFiniteSet(S), NEW Good \in SUBSET (SUBSET S),
           {} \in Good, \A T \in Good, x \in S : T \cup {x} \in Good
    PROVE  S \in Good
<1> DEFINE N == {n \in Nat : \A T \in SUBSET S : Cardinality(T) = n => T \in Good}
<1>1. \A T \in SUBSET S : IsFiniteSet(T) /\ Cardinality(T) \in Nat
  BY FS_Subset, FS_CardinalityType
<1>2. 0 \in N
  BY <1>1, FS_EmptySet
<1>3. ASSUME NEW n \in N, NEW T \in SUBSET S, Cardinality(T) = n + 1
      PROVE  T \in Good
  <2>1. PICK x \in T : TRUE
    BY <1>1, <1>3, FS_EmptySet
  <2>2. Cardinality(T \ {x}) = n
    BY <1>1, <1>3, <2>1, FS_RemoveElement
  <2>3. T \ {x} \in Good
    BY <2>2
  <2>4. (T \ {x}) \cup {x} = T
    BY <2>1
  <2> QED BY <2>3, <2>4
<1>4. \A n \in N : n + 1 \in N
  BY <1>3
<1>5. N \in SUBSET Nat
  OBVIOUS
<1> HIDE DEF N
<1>6. N = Nat
  BY <1>2, <1>4, <1>5, NatInduct
<1> QED BY <1>1, <1>6 DEF N

----------------------------------------------------------------------------
(* Recursion over the subsets of a finite set, one element at a time.      *)

Recursion(g, D, base, pick, step) ==
    \A s \in D : g[s] = IF s = {} THEN base ELSE step[<<pick[s], g[s \ {pick[s]}]>>]

(* Such a recursion has a solution,                                        *)
LEMMA RecursionExists ==
    ASSUME NEW S, IsFiniteSet(S), NEW V, NEW base \in V,
           NEW pick, \A s \in SUBSET S : s # {} => pick[s] \in s,
           NEW step, \A x \in S, v \in V : step[<<x, v>>] \in V
    PROVE  \E g \in [SUBSET S -> V] : Recursion(g, SUBSET S, base, pick, step)
<1> DEFINE Upto(n) == {s \in SUBSET S : Cardinality(s) <= n}
           N == {n \in Nat : \E g \in [Upto(n) -> V] :
                    Recursion(g, Upto(n), base, pick, step)}
<1>1. \A s \in SUBSET S : IsFiniteSet(s) /\ Cardinality(s) \in Nat
  BY FS_Subset, FS_CardinalityType
<1>2. 0 \in N
  <2> DEFINE g == [s \in Upto(0) |-> base]
  <2>1. \A s \in Upto(0) : s = {}
    BY <1>1, FS_EmptySet
  <2>2. g \in [Upto(0) -> V] /\ Recursion(g, Upto(0), base, pick, step)
    BY <2>1 DEF Recursion
  <2> QED BY <2>2
<1>3. ASSUME NEW n \in N PROVE n + 1 \in N
  <2>1. PICK g \in [Upto(n) -> V] : Recursion(g, Upto(n), base, pick, step)
    OBVIOUS
  <2> DEFINE rest(s) == s \ {pick[s]}
             h == [s \in Upto(n + 1) |-> IF s = {} THEN base ELSE step[<<pick[s], g[rest(s)]>>]]
  <2>2. ASSUME NEW s \in Upto(n + 1), s # {}
        PROVE  pick[s] \in S /\ rest(s) \in Upto(n)
    <3>1. Cardinality(rest(s)) = Cardinality(s) - 1
      BY <1>1, <2>2, FS_RemoveElement
    <3> QED BY <1>1, <2>2, <3>1
  <2>3. h \in [Upto(n + 1) -> V]
    BY <2>2
  <2>4. \A s \in Upto(n) : s \in Upto(n + 1) /\ h[s] = g[s]
    BY <1>1, <2>1 DEF Recursion
  <2> HIDE DEF Upto
  <2>5. ASSUME NEW s \in Upto(n + 1)
        PROVE  h[s] = IF s = {} THEN base ELSE step[<<pick[s], h[rest(s)]>>]
    BY <2>2, <2>4
  <2> HIDE DEF h
  <2>6. Recursion(h, Upto(n + 1), base, pick, step)
    BY <2>5 DEF Recursion
  <2> QED BY <2>3, <2>6
<1> DEFINE c == Cardinality(S)
<1>4. \A n \in N : n + 1 \in N
  BY <1>3
<1>5. N \in SUBSET Nat
  OBVIOUS
<1>6. Upto(c) = SUBSET S
  BY <1>1, FS_Subset
<1>7. \A n \in N : \E g \in [Upto(n) -> V] : Recursion(g, Upto(n), base, pick, step)
  OBVIOUS
<1> HIDE DEF N
<1>8. c \in N
  BY <1>1, <1>2, <1>4, <1>5, NatInduct
<1> HIDE DEF Upto, c
<1>9. \E g \in [Upto(c) -> V] : Recursion(g, Upto(c), base, pick, step)
  BY <1>7, <1>8
<1> QED BY <1>6, <1>9

(* and only one.                                                           *)
LEMMA RecursionUnique ==
    ASSUME NEW S, IsFiniteSet(S), NEW base,
           NEW pick, \A s \in SUBSET S : s # {} => pick[s] \in s, NEW step,
           NEW D, SUBSET S \subseteq D, NEW g, Recursion(g, D, base, pick, step),
           NEW E, SUBSET S \subseteq E, NEW h, Recursion(h, E, base, pick, step)
    PROVE  g[S] = h[S]
<1> DEFINE N == {n \in Nat : \A s \in SUBSET S : Cardinality(s) = n => g[s] = h[s]}
<1>1. \A s \in SUBSET S : IsFiniteSet(s) /\ Cardinality(s) \in Nat
  BY FS_Subset, FS_CardinalityType
<1>2. 0 \in N
  BY <1>1, FS_EmptySet DEF Recursion
<1>3. ASSUME NEW n \in N, NEW s \in SUBSET S, Cardinality(s) = n + 1
      PROVE  g[s] = h[s]
  <2>1. s # {} /\ pick[s] \in s
    BY <1>1, <1>3, FS_EmptySet
  <2>2. Cardinality(s \ {pick[s]}) = n
    <3>1. Cardinality(s \ {pick[s]}) = Cardinality(s) - 1
      BY <1>1, <2>1, FS_RemoveElement
    <3> QED BY <1>3, <3>1
  <2>3. g[s \ {pick[s]}] = h[s \ {pick[s]}]
    BY <2>2
  <2> QED BY <2>1, <2>3 DEF Recursion
<1>4. \A n \in N : n + 1 \in N
  BY <1>3
<1>5. N \in SUBSET Nat
  OBVIOUS
<1> HIDE DEF N
<1>6. N = Nat
  BY <1>2, <1>4, <1>5, NatInduct
<1> QED BY <1>1, <1>6 DEF N

(* A set of numbers up to a bound has a greatest member.                   *)
LEMMA GreatestBelow ==
    ASSUME NEW n \in Nat, NEW S \in SUBSET (1 .. n), S # {}
    PROVE  \E m \in S : \A i \in S : m >= i
<1> DEFINE R == {n - i : i \in S}
<1>1. \A i \in S : i \in Int /\ n - i \in Nat /\ n - i \in R
  OBVIOUS
<1>2. R \in SUBSET Nat /\ R # {}
  BY <1>1
<1>3. \A r \in R : \E i \in S : r = n - i
  OBVIOUS
<1> HIDE DEF R
<1>4. PICK r \in R : \A k \in R : r <= k
  BY <1>2, LeastNat
<1>5. PICK m \in S : r = n - m
  BY <1>3
<1>6. ASSUME NEW i \in S PROVE m >= i
  BY <1>1, <1>4, <1>5
<1> QED BY <1>6

(* Recursion that takes the greatest member out is iteration from the      *)
(* first one on.                                                           *)
PicksGreatest(pick, n) ==
    \A s \in SUBSET (1 .. n) : s # {} => pick[s] \in s /\ \A i \in s : pick[s] >= i

StaysIn(step, n, V) == \A i \in 1 .. n, v \in V : step[<<i, v>>] \in V

Iterates(g, n, base, step) ==
    /\ g[1 .. 0] = base
    /\ \A i \in 1 .. n : g[1 .. i] = step[<<i, g[1 .. (i - 1)]>>]

(* It has a solution that iterates the step.                               *)
LEMMA Iteration ==
    ASSUME NEW n \in Nat, NEW V, NEW base \in V,
           NEW step, StaysIn(step, n, V), NEW pick, PicksGreatest(pick, n)
    PROVE  \E g \in [SUBSET (1 .. n) -> V] :
               Recursion(g, SUBSET (1 .. n), base, pick, step) /\ Iterates(g, n, base, step)
<1> DEFINE S == 1 .. n
<1>1. IsFiniteSet(S)
  BY FS_Interval
<1>2. PICK g \in [SUBSET S -> V] : Recursion(g, SUBSET S, base, pick, step)
  BY <1>1, RecursionExists DEF StaysIn, PicksGreatest
<1>3. g[1 .. 0] = base
  <2>1. 1 .. 0 = {} /\ {} \in SUBSET S
    OBVIOUS
  <2> HIDE DEF S
  <2> QED BY <1>2, <2>1 DEF Recursion
<1>4. ASSUME NEW i \in 1 .. n PROVE g[1 .. i] = step[<<i, g[1 .. (i - 1)]>>]
  <2>1. (1 .. i) \in SUBSET S /\ i \in 1 .. i /\ 1 .. i # {}
    OBVIOUS
  <2>2. pick[1 .. i] = i
    <3>1. pick[1 .. i] \in 1 .. i /\ pick[1 .. i] >= i
      BY <2>1 DEF PicksGreatest
    <3> QED BY <3>1
  <2>3. (1 .. i) \ {i} = 1 .. (i - 1)
    OBVIOUS
  <2> QED BY <1>2, <2>1, <2>2, <2>3 DEF Recursion
<1> QED BY <1>2, <1>3, <1>4 DEF Iterates

----------------------------------------------------------------------------
(* Sums.                                                                   *)

Sums(g, D, f) ==
    \A s \in D : g[s] = IF s = {} THEN 0
                        ELSE LET x == CHOOSE x \in s : TRUE IN f[x] + g[s \ {x}]

(* Two sums of the same summands agree.                                    *)
LEMMA SumUnique ==
    ASSUME NEW S, IsFiniteSet(S), NEW f,
           NEW D, SUBSET S \subseteq D, NEW g, Sums(g, D, f),
           NEW E, SUBSET S \subseteq E, NEW h, Sums(h, E, f)
    PROVE  g[S] = h[S]
<1> DEFINE W == {g[s] : s \in SUBSET S} \cup {h[s] : s \in SUBSET S}
           pick == [s \in SUBSET S |-> CHOOSE x \in s : TRUE]
           step == [p \in S \X W |-> f[p[1]] + p[2]]
<1>1. \A s \in SUBSET S : s # {} => pick[s] \in s
  OBVIOUS
<1>2. \A x \in S, w \in W : step[<<x, w>>] = f[x] + w
  OBVIOUS
<1>3. \A s \in SUBSET S : g[s] \in W /\ h[s] \in W
  OBVIOUS
<1>4. \A s \in SUBSET S : s # {} => pick[s] = CHOOSE x \in s : TRUE
  OBVIOUS
<1> HIDE DEF W, pick, step
<1>5. ASSUME NEW k \in {g, h}, NEW s \in SUBSET S, s # {}
      PROVE  step[<<pick[s], k[s \ {pick[s]}]>>] = f[pick[s]] + k[s \ {pick[s]}]
  BY <1>1, <1>2, <1>3, <1>5
<1>6. ASSUME NEW s \in SUBSET S
      PROVE  /\ g[s] = IF s = {} THEN 0 ELSE f[pick[s]] + g[s \ {pick[s]}]
             /\ h[s] = IF s = {} THEN 0 ELSE f[pick[s]] + h[s \ {pick[s]}]
  <2>1. s \in D /\ s \in E
    OBVIOUS
  <2>2. g[s] = IF s = {} THEN 0 ELSE f[pick[s]] + g[s \ {pick[s]}]
    BY <1>4, <2>1 DEF Sums
  <2>3. h[s] = IF s = {} THEN 0 ELSE f[pick[s]] + h[s \ {pick[s]}]
    BY <1>4, <2>1 DEF Sums
  <2> QED BY <2>2, <2>3
<1>7. Recursion(g, SUBSET S, 0, pick, step) /\ Recursion(h, SUBSET S, 0, pick, step)
  BY <1>5, <1>6 DEF Recursion
<1> QED BY <1>1, <1>7, RecursionUnique

(* The sum over a finite set exists.                                       *)
LEMMA SumDefined ==
    ASSUME NEW S, IsFiniteSet(S), NEW f, \A x \in S : f[x] \in Nat
    PROVE  \E g \in [SUBSET S -> Nat] :
               Sums(g, SUBSET S, f) /\ g[S] = SumFunctionOnSet(f, S)
<1> DEFINE Solves(g) == g = [s \in SUBSET S |->
               IF s = {} THEN 0
               ELSE LET x == CHOOSE x \in s : TRUE IN f[x] + g[s \ {x}]]
           pick == [s \in SUBSET S |-> CHOOSE x \in s : TRUE]
           step == [p \in S \X Nat |-> f[p[1]] + p[2]]
<1>1. /\ \A s \in SUBSET S : s # {} => pick[s] \in s
      /\ \A s \in SUBSET S : pick[s] = CHOOSE x \in s : TRUE
      /\ \A x \in S, v \in Nat : step[<<x, v>>] \in Nat /\ step[<<x, v>>] = f[x] + v
  OBVIOUS
<1> HIDE DEF pick, step
<1>2. PICK g \in [SUBSET S -> Nat] : Recursion(g, SUBSET S, 0, pick, step)
  BY <1>1, RecursionExists
<1>3. Sums(g, SUBSET S, f)
  <2>1. ASSUME NEW s \in SUBSET S
        PROVE  g[s] = IF s = {} THEN 0 ELSE f[pick[s]] + g[s \ {pick[s]}]
    <3>1. s # {} => pick[s] \in S /\ g[s \ {pick[s]}] \in Nat
      BY <1>1
    <3> QED BY <1>1, <1>2, <3>1 DEF Recursion
  <2> QED BY <1>1, <2>1 DEF Sums
<1>4. Solves(g)
  BY <1>3 DEF Sums
<1> DEFINE h == CHOOSE h : Solves(h)
<1>5. Solves(h)
  BY <1>4
<1>6. SumFunctionOnSet(f, S) = h[S]
  BY DEF SumFunctionOnSet, FoldFunctionOnSet, MapThenFoldSet
<1> HIDE DEF h
<1>7. Sums(h, SUBSET S, f)
  BY <1>5 DEF Sums
<1>8. g[S] = h[S]
  BY <1>3, <1>7, SumUnique
<1> QED BY <1>3, <1>6, <1>8

(* A sum over nothing is 0, and one more element adds its summand.         *)
LEMMA SumStep ==
    ASSUME NEW S, IsFiniteSet(S), NEW f, \A x \in S : f[x] \in Nat
    PROVE  /\ SumFunctionOnSet(f, S) \in Nat
           /\ S = {} => SumFunctionOnSet(f, S) = 0
           /\ S # {} => \E x \in S : SumFunctionOnSet(f, S) =
                                         f[x] + SumFunctionOnSet(f, S \ {x})
<1>1. PICK g \in [SUBSET S -> Nat] : Sums(g, SUBSET S, f) /\ g[S] = SumFunctionOnSet(f, S)
  BY SumDefined
<1>2. ASSUME S # {}
      PROVE  \E x \in S : SumFunctionOnSet(f, S) = f[x] + SumFunctionOnSet(f, S \ {x})
  <2> DEFINE x == CHOOSE x \in S : TRUE
             T == S \ {x}
  <2>1. x \in S /\ IsFiniteSet(T) /\ T \in SUBSET S
    BY <1>2, FS_Subset
  <2>2. SumFunctionOnSet(f, S) = f[x] + g[T]
    BY <1>1, <1>2 DEF Sums
  <2> HIDE DEF x
  <2>3. PICK h \in [SUBSET T -> Nat] : Sums(h, SUBSET T, f) /\ h[T] = SumFunctionOnSet(f, T)
    BY <2>1, SumDefined
  <2>4. SUBSET T \subseteq SUBSET S
    BY <2>1
  <2> HIDE DEF T
  <2>5. g[T] = h[T]
    BY <1>1, <2>1, <2>3, <2>4, SumUnique
  <2> QED BY <2>1, <2>2, <2>3, <2>5 DEF T
<1> QED BY <1>1, <1>2 DEF Sums

(* Any summand may be taken out.                                           *)
LEMMA SumRemove ==
    ASSUME NEW S, IsFiniteSet(S), NEW f, \A x \in S : f[x] \in Nat, NEW y \in S
    PROVE  SumFunctionOnSet(f, S) = f[y] + SumFunctionOnSet(f, S \ {y})
<1> DEFINE Total(T) == SumFunctionOnSet(f, T)
           N == {n \in Nat : \A T \in SUBSET S : Cardinality(T) = n =>
                    \A x \in T : Total(T) = f[x] + Total(T \ {x})}
<1>1. \A T \in SUBSET S : IsFiniteSet(T) /\ Cardinality(T) \in Nat
  BY FS_Subset, FS_CardinalityType
<1>2. \A T \in SUBSET S : /\ Total(T) \in Nat
                          /\ T # {} => \E x \in T : Total(T) = f[x] + Total(T \ {x})
  BY <1>1, SumStep
<1>3. 0 \in N
  BY <1>1, FS_EmptySet
<1> HIDE DEF Total
<1>4. ASSUME NEW n \in N, NEW T \in SUBSET S, Cardinality(T) = n + 1, NEW x \in T
      PROVE  Total(T) = f[x] + Total(T \ {x})
  <2>1. PICK z \in T : Total(T) = f[z] + Total(T \ {z})
    BY <1>2
  <2>2. ASSUME z # x PROVE Total(T) = f[x] + Total(T \ {x})
    <3>1. /\ Cardinality(T \ {z}) = Cardinality(T) - 1
          /\ Cardinality(T \ {x}) = Cardinality(T) - 1
      BY <1>1, FS_RemoveElement
    <3>2. Cardinality(T \ {z}) = n /\ Cardinality(T \ {x}) = n
      BY <1>4, <3>1
    <3>3. /\ Total(T \ {z}) = f[x] + Total((T \ {z}) \ {x})
          /\ Total(T \ {x}) = f[z] + Total((T \ {x}) \ {z})
      BY <2>2, <3>2
    <3>4. (T \ {z}) \ {x} = (T \ {x}) \ {z}
      OBVIOUS
    <3>5. f[x] \in Nat /\ f[z] \in Nat /\ Total((T \ {x}) \ {z}) \in Nat
      BY <1>2
    <3> DEFINE r == Total((T \ {x}) \ {z})
    <3>6. Total(T) = f[z] + (f[x] + r) /\ Total(T \ {x}) = f[z] + r
      BY <2>1, <3>3, <3>4
    <3> HIDE DEF r
    <3>7. f[z] + (f[x] + r) = f[x] + (f[z] + r)
      BY <3>5 DEF r
    <3> QED BY <3>6, <3>7
  <2> QED BY <2>1, <2>2
<1>5. \A n \in N : n + 1 \in N
  <2> SUFFICES ASSUME NEW n \in N PROVE n + 1 \in N
    OBVIOUS
  <2>1. \A T \in SUBSET S : Cardinality(T) = n + 1 =>
            \A x \in T : Total(T) = f[x] + Total(T \ {x})
    BY <1>4
  <2> QED BY <2>1
<1>6. N \in SUBSET Nat
  OBVIOUS
<1>7. \A n \in N : \A T \in SUBSET S : Cardinality(T) = n =>
          \A x \in T : Total(T) = f[x] + Total(T \ {x})
  OBVIOUS
<1> HIDE DEF N
<1>8. N = Nat
  BY <1>3, <1>5, <1>6, NatInduct
<1>9. Total(S) = f[y] + Total(S \ {y})
  BY <1>1, <1>7, <1>8
<1> QED BY <1>9 DEF Total

(* The sum over a set with one element more.                               *)
LEMMA SumAdd ==
    ASSUME NEW S, IsFiniteSet(S), NEW y, y \notin S,
           NEW f, \A x \in S \cup {y} : f[x] \in Nat
    PROVE  SumFunctionOnSet(f, S \cup {y}) = f[y] + SumFunctionOnSet(f, S)
<1>1. IsFiniteSet(S \cup {y}) /\ (S \cup {y}) \ {y} = S
  BY FS_AddElement
<1> QED BY <1>1, SumRemove

(* Fewer and smaller summands make no larger sum.                          *)
LEMMA SumMonotone ==
    ASSUME NEW S, IsFiniteSet(S), NEW T \in SUBSET S,
           NEW f, \A x \in S : f[x] \in Nat,
           NEW g, \A x \in T : g[x] \in Nat /\ g[x] <= f[x]
    PROVE  SumFunctionOnSet(g, T) <= SumFunctionOnSet(f, S)
<1> DEFINE Good == {U \in SUBSET S :
               SumFunctionOnSet(g, U \cap T) <= SumFunctionOnSet(f, U)}
<1>1. \A U \in SUBSET S : IsFiniteSet(U)
  BY FS_Subset
<1>2. {} \in Good
  <2>1. SumFunctionOnSet(g, {}) = 0 /\ SumFunctionOnSet(f, {}) = 0
    BY SumStep, FS_EmptySet
  <2>2. {} \cap T = {}
    OBVIOUS
  <2> QED BY <2>1, <2>2
<1>3. ASSUME NEW U \in Good, NEW y \in S, y \notin U
      PROVE  U \cup {y} \in Good
  <2>1. SumFunctionOnSet(f, U \cup {y}) = f[y] + SumFunctionOnSet(f, U)
    BY <1>1, <1>3, SumAdd
  <2>2. /\ IsFiniteSet(U \cap T)
        /\ SumFunctionOnSet(f, U) \in Nat
        /\ SumFunctionOnSet(g, U \cap T) \in Nat
    BY <1>1, SumStep
  <2>3. CASE y \notin T
    <3>1. (U \cup {y}) \cap T = U \cap T
      BY <2>3
    <3>2. SumFunctionOnSet(g, U \cap T) <= SumFunctionOnSet(f, U)
      OBVIOUS
    <3> HIDE DEF Good
    <3>3. SumFunctionOnSet(g, U \cap T) <= f[y] + SumFunctionOnSet(f, U)
      BY <2>2, <3>2
    <3> QED BY <2>1, <3>1, <3>3 DEF Good
  <2>4. CASE y \in T
    <3>1. (U \cup {y}) \cap T = (U \cap T) \cup {y}
      BY <2>4
    <3>2. SumFunctionOnSet(g, (U \cap T) \cup {y}) = g[y] + SumFunctionOnSet(g, U \cap T)
      BY <1>3, <2>2, <2>4, SumAdd
    <3>3. SumFunctionOnSet(g, U \cap T) <= SumFunctionOnSet(f, U)
      OBVIOUS
    <3>4. g[y] \in Nat /\ f[y] \in Nat /\ g[y] <= f[y]
      BY <2>4
    <3> HIDE DEF Good
    <3>5. g[y] + SumFunctionOnSet(g, U \cap T) <= f[y] + SumFunctionOnSet(f, U)
      BY <2>2, <3>3, <3>4
    <3> QED BY <2>1, <3>1, <3>2, <3>5 DEF Good
  <2> QED BY <2>3, <2>4
<1>4. \A U \in Good, y \in S : U \cup {y} \in Good
  <2> SUFFICES ASSUME NEW U \in Good, NEW y \in S PROVE U \cup {y} \in Good
    OBVIOUS
  <2>1. CASE y \in U
    <3>1. U \cup {y} = U
      BY <2>1
    <3> QED BY <3>1
  <2> QED BY <1>3, <2>1
<1>5. Good \in SUBSET (SUBSET S)
  OBVIOUS
<1>6. \A U \in Good : SumFunctionOnSet(g, U \cap T) <= SumFunctionOnSet(f, U)
  OBVIOUS
<1> HIDE DEF Good
<1>7. S \in Good
  BY <1>2, <1>4, <1>5, SetInduct
<1>8. S \cap T = T
  OBVIOUS
<1> QED BY <1>6, <1>7, <1>8

(* Equal summands have equal sums.                                         *)
LEMMA SumSame ==
    ASSUME NEW S, IsFiniteSet(S), NEW f, NEW g, \A x \in S : f[x] \in Nat /\ g[x] = f[x]
    PROVE  SumFunctionOnSet(g, S) = SumFunctionOnSet(f, S)
<1>1. /\ SumFunctionOnSet(g, S) <= SumFunctionOnSet(f, S)
      /\ SumFunctionOnSet(f, S) <= SumFunctionOnSet(g, S)
  BY SumMonotone
<1>2. SumFunctionOnSet(f, S) \in Nat /\ SumFunctionOnSet(g, S) \in Nat
  BY SumStep
<1> QED BY <1>1, <1>2

============================================================================
