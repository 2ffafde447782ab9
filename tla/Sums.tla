-------------------------------- MODULE Sums --------------------------------
(***************************************************************************)
(* What the SUM queries of the repositories compute: facts about           *)
(* SumFunctionOnSet(f, S), the sum of f[x] for x in a finite set S, that   *)
(* the proofs about stock and reservations cite.                           *)
(*                                                                         *)
(* The sum is a recursive function on the subsets of S, which takes the    *)
(* elements in an order that CHOOSE fixes. Its existence, and that the     *)
(* order does not matter, are shown by a least counterexample among the    *)
(* cardinalities: the induction needs no operator as a parameter.          *)
(***************************************************************************)
EXTENDS Integers, FiniteSets, Functions, FiniteSetTheorems, WellFoundedInduction, TLAPS

Sum(f, S) == SumFunctionOnSet(f, S)

\* A nonempty set of naturals has a least element.
LEMMA LeastNat ==
    ASSUME NEW T \in SUBSET Nat, T # {}
    PROVE  \E n \in T : \A k \in T : n <= k
<1> DEFINE R == {ss \in Nat \X Nat : ss[1] < ss[2]}
<1>1. IsWellFoundedOn(R, Nat)
  <2>1. IsWellFoundedOn(OpToRel(<, Nat), Nat)
      BY NatLessThanWellFounded
  <2>2. R = OpToRel(<, Nat)
      BY DEF OpToRel
  <2> QED
      BY <2>1, <2>2
<1>2. PICK n \in T : \A k \in T : ~ (<<k, n>> \in R)
  <2> HIDE DEF R
  <2> QED
      BY <1>1, WFMin, Zenon
<1>3. ASSUME NEW k \in T
      PROVE  n <= k
  <2>1. <<k, n>> \in Nat \X Nat /\ <<k, n>>[1] = k /\ <<k, n>>[2] = n
      OBVIOUS
  <2>2. ~ (k < n)
      BY <1>2, <2>1
  <2> QED
      BY <2>2
<1> QED
    BY <1>3

\* Induction on the size of the subsets of S: if one of them is in Bad, one of
\* least size is.
LEMMA LeastSubset ==
    ASSUME NEW S, IsFiniteSet(S), NEW Bad \in SUBSET SUBSET S, Bad # {}
    PROVE  \E s \in Bad : /\ IsFiniteSet(s)
                          /\ \A x \in s : s \ {x} \notin Bad
<1> DEFINE Sizes == {Cardinality(s) : s \in Bad}
<1>1. \A s \in Bad : IsFiniteSet(s) /\ Cardinality(s) \in Nat
    BY FS_Subset, FS_CardinalityType
<1>2. Sizes \in SUBSET Nat /\ Sizes # {}
    BY <1>1
<1>3. PICK n \in Sizes : \A k \in Sizes : n <= k
  <2> HIDE DEF Sizes
  <2> QED
      BY <1>2, LeastNat
<1>4. PICK s \in Bad : Cardinality(s) = n
    OBVIOUS
<1>5. ASSUME NEW x \in s, s \ {x} \in Bad
      PROVE  FALSE
  <2>1. Cardinality(s \ {x}) = Cardinality(s) - 1
      BY <1>1, FS_RemoveElement
  <2>2. n <= Cardinality(s \ {x})
      BY <1>3, <1>5
  <2> QED
      BY <1>1, <1>4, <2>1, <2>2
<1> QED
    BY <1>1, <1>5

-----------------------------------------------------------------------------
(* The recursive function behind the sum.                                  *)

Picked(s) == CHOOSE x \in s : TRUE
Partial(g, f, s) == IF s = {} THEN 0 ELSE f[Picked(s)] + g[s \ {Picked(s)}]
IsPartial(g, f, S) == g = [s \in SUBSET S |-> Partial(g, f, s)]

\* The definition of the sum, without its operator parameters.
LEMMA SumIsChosen == \A f, S : Sum(f, S) = (CHOOSE k : IsPartial(k, f, S))[S]
BY Zenon DEF Sum, SumFunctionOnSet, FoldFunctionOnSet, MapThenFoldSet, IsPartial, Partial, Picked

\* The element a sum takes next is one of the set.
LEMMA PickedIn == ASSUME NEW s, s # {} PROVE Picked(s) \in s
BY DEF Picked

\* The partial sums of f over a finite set are determined.
LEMMA PartialUnique ==
    ASSUME NEW f, NEW S, NEW T, IsFiniteSet(S), NEW g, NEW h,
           IsPartial(g, f, S), IsPartial(h, f, T), NEW s \in SUBSET S, s \in SUBSET T
    PROVE  g[s] = h[s]
<1> DEFINE Bad == {r \in SUBSET S : r \in SUBSET T /\ g[r] # h[r]}
<1>1. ASSUME Bad # {} PROVE FALSE
  <2>1. PICK r \in Bad : \A x \in r : r \ {x} \notin Bad
    <3>1. Bad \in SUBSET SUBSET S
        OBVIOUS
    <3> HIDE DEF Bad
    <3> QED
        BY <1>1, <3>1, LeastSubset
  <2>2. r # {}
      BY DEF IsPartial, Partial
  <2> DEFINE q == r \ {Picked(r)}
  <2>3. g[q] = h[q]
      BY <2>1, <2>2, PickedIn
  <2>4. g[r] = f[Picked(r)] + g[q] /\ h[r] = f[Picked(r)] + h[q]
    <3>1. r \in SUBSET S /\ r \in SUBSET T
        OBVIOUS
    <3>2. g[r] = Partial(g, f, r) /\ h[r] = Partial(h, f, r)
        BY <3>1 DEF IsPartial
    <3> QED
        BY <2>2, <3>2 DEF Partial
  <2> QED
      BY <2>3, <2>4
<1> QED
    BY <1>1

\* The partial sums of f over a finite set exist.
LEMMA PartialExists ==
    ASSUME NEW f, NEW S, IsFiniteSet(S)
    PROVE  \E g : IsPartial(g, f, S)
<1> DEFINE Bad == {s \in SUBSET S : ~ \E g : IsPartial(g, f, s)}
<1>1. ASSUME Bad # {} PROVE FALSE
  <2>1. PICK s \in Bad : IsFiniteSet(s) /\ \A x \in s : s \ {x} \notin Bad
    <3>1. Bad \in SUBSET SUBSET S
        OBVIOUS
    <3> HIDE DEF Bad
    <3> QED
        BY <1>1, <3>1, LeastSubset
  <2> DEFINE part(x) == CHOOSE g : IsPartial(g, f, s \ {x})
             whole == [r \in SUBSET s |->
                         IF r = {} THEN 0
                         ELSE f[Picked(r)] + part(Picked(r))[r \ {Picked(r)}]]
  <2>2. ASSUME NEW x \in s PROVE IsPartial(part(x), f, s \ {x})
    <3>1. \E g : IsPartial(g, f, s \ {x})
        BY <2>1
    <3> QED
        BY <3>1
  <2>3. ASSUME NEW x \in s, NEW r \in SUBSET (s \ {x})
        PROVE  part(x)[r] = whole[r]
    <3>1. part(x)[r] = Partial(part(x), f, r)
      <4>1. IsPartial(part(x), f, s \ {x})
          BY <2>2
      <4> HIDE DEF part
      <4> QED
          BY <4>1 DEF IsPartial
    <3>2. CASE r = {}
        BY <3>1, <3>2 DEF Partial
    <3>3. CASE r # {}
      <4> DEFINE y == Picked(r)
                 q == r \ {y}
      <4>1. y \in s /\ q \in SUBSET (s \ {x}) /\ q \in SUBSET (s \ {y})
          BY <3>3, PickedIn
      <4>2. IsPartial(part(x), f, s \ {x}) /\ IsPartial(part(y), f, s \ {y})
        <5> HIDE DEF part, y
        <5> QED
            BY <2>2, <4>1
      <4>3. part(x)[q] = part(y)[q]
        <5>1. IsFiniteSet(s \ {x})
            BY <2>1, FS_Subset
        <5> HIDE DEF part, y, q
        <5> QED
            BY <4>1, <4>2, <5>1, PartialUnique
      <4>4. part(x)[r] = f[y] + part(x)[q]
        <5> HIDE DEF part
        <5> QED
            BY <3>1, <3>3 DEF Partial
      <4>5. whole[r] = f[y] + part(y)[q]
        <5> HIDE DEF part
        <5> QED
            BY <3>3
      <4> QED
          BY <4>3, <4>4, <4>5
    <3> QED
        BY <3>2, <3>3
  <2>4. ASSUME NEW r \in SUBSET s
        PROVE  whole[r] = Partial(whole, f, r)
    <3>1. CASE r = {}
        BY <3>1 DEF Partial
    <3>2. CASE r # {}
      <4> DEFINE y == Picked(r)
                 q == r \ {y}
      <4>1. y \in s /\ q \in SUBSET (s \ {y})
          BY <3>2, PickedIn
      <4>2. part(y)[q] = whole[q]
        <5> HIDE DEF part, whole, y, q
        <5> QED
            BY <2>3, <4>1
      <4>3. whole[r] = f[y] + part(y)[q]
        <5> HIDE DEF part
        <5> QED
            BY <3>2
      <4> HIDE DEF part, whole
      <4> QED
          BY <3>2, <4>2, <4>3 DEF Partial
    <3> QED
        BY <3>1, <3>2
  <2>5. IsPartial(whole, f, s)
    <3>1. whole = [r \in SUBSET s |-> whole[r]]
        OBVIOUS
    <3> HIDE DEF whole
    <3> QED
        BY <2>4, <3>1 DEF IsPartial
  <2> HIDE DEF whole
  <2> QED
      BY <2>5
<1>2. S \notin Bad
    BY <1>1
<1> QED
    BY <1>2

-----------------------------------------------------------------------------
(* Facts about sums.                                                       *)

\* The sum over no element.
LEMMA SumEmpty ==
    ASSUME NEW f
    PROVE  Sum(f, {}) = 0
<1> DEFINE g == CHOOSE k : IsPartial(k, f, {})
<1>1. IsPartial(g, f, {})
    BY PartialExists, FS_EmptySet
<1>2. g[{}] = 0
  <2> HIDE DEF g
  <2> QED
      BY <1>1 DEF IsPartial, Partial
<1> QED
    BY <1>2, SumIsChosen

\* The sum over a set is some element more than the sum over the others.
LEMMA SumUnfold ==
    ASSUME NEW f, NEW S, IsFiniteSet(S), S # {}
    PROVE  \E x \in S : Sum(f, S) = f[x] + Sum(f, S \ {x})
<1> DEFINE x == Picked(S)
           T == S \ {x}
           g == CHOOSE k : IsPartial(k, f, S)
           h == CHOOSE k : IsPartial(k, f, T)
<1>1. x \in S /\ T \in SUBSET S /\ IsFiniteSet(T)
    BY PickedIn, FS_Subset
<1>2. IsPartial(g, f, S)
    BY PartialExists
<1>3. IsPartial(h, f, T)
  <2> HIDE DEF T
  <2> QED
      BY <1>1, PartialExists
<1>4. Sum(f, S) = g[S] /\ Sum(f, T) = h[T]
    BY SumIsChosen
<1>5. g[T] = h[T]
  <2> HIDE DEF T, g, h
  <2> QED
      BY <1>1, <1>2, <1>3, PartialUnique
<1>6. g[S] = f[x] + g[T]
  <2>1. g[S] = Partial(g, f, S)
    <3> HIDE DEF g
    <3> QED
        BY <1>2 DEF IsPartial
  <2> HIDE DEF g
  <2> QED
      BY <2>1 DEF Partial
<1> HIDE DEF g, h, x
<1> QED
    BY <1>1, <1>4, <1>5, <1>6

\* A sum of integers is an integer.
LEMMA SumType ==
    ASSUME NEW f, NEW S, IsFiniteSet(S), \A x \in S : f[x] \in Int
    PROVE  Sum(f, S) \in Int
<1> DEFINE Bad == {s \in SUBSET S : Sum(f, s) \notin Int}
<1>1. ASSUME Bad # {} PROVE FALSE
  <2>1. PICK s \in Bad : IsFiniteSet(s) /\ \A x \in s : s \ {x} \notin Bad
    <3>1. Bad \in SUBSET SUBSET S
        OBVIOUS
    <3> HIDE DEF Bad
    <3> QED
        BY <1>1, <3>1, LeastSubset
  <2>2. s # {}
      BY SumEmpty
  <2>3. PICK x \in s : Sum(f, s) = f[x] + Sum(f, s \ {x})
      BY <2>1, <2>2, SumUnfold
  <2> QED
      BY <2>1, <2>3
<1> QED
    BY <1>1

\* The element taken first does not matter.
LEMMA SumRemove ==
    ASSUME NEW f, NEW S, IsFiniteSet(S), \A x \in S : f[x] \in Int, NEW e \in S
    PROVE  Sum(f, S) = f[e] + Sum(f, S \ {e})
<1> DEFINE Bad == {s \in SUBSET S : \E x \in s : Sum(f, s) # f[x] + Sum(f, s \ {x})}
<1>1. ASSUME Bad # {} PROVE FALSE
  <2>1. PICK s \in Bad : IsFiniteSet(s) /\ \A x \in s : s \ {x} \notin Bad
    <3>1. Bad \in SUBSET SUBSET S
        OBVIOUS
    <3> HIDE DEF Bad
    <3> QED
        BY <1>1, <3>1, LeastSubset
  <2>2. PICK x \in s : Sum(f, s) # f[x] + Sum(f, s \ {x})
      OBVIOUS
  <2>3. PICK y \in s : Sum(f, s) = f[y] + Sum(f, s \ {y})
      BY <2>1, SumUnfold
  <2>4. x # y
      BY <2>2, <2>3
  <2> DEFINE rest == s \ {x, y}
  <2>5. /\ x \in s \ {y} /\ (s \ {y}) \ {x} = rest
        /\ y \in s \ {x} /\ (s \ {x}) \ {y} = rest
        /\ rest \in SUBSET S
      BY <2>4
  <2>6. Sum(f, s \ {y}) = f[x] + Sum(f, rest)
    <3> HIDE DEF rest
    <3> QED
        BY <2>1, <2>5
  <2>7. Sum(f, s \ {x}) = f[y] + Sum(f, rest)
    <3> HIDE DEF rest
    <3> QED
        BY <2>1, <2>5
  <2>8. Sum(f, rest) \in Int /\ f[x] \in Int /\ f[y] \in Int
    <3>1. IsFiniteSet(rest)
        BY <2>1, FS_Subset
    <3> HIDE DEF rest
    <3> QED
        BY <2>5, <3>1, SumType
  <2> HIDE DEF rest
  <2> QED
      BY <2>2, <2>3, <2>6, <2>7, <2>8
<1> QED
    BY <1>1

\* One element more adds its term.
LEMMA SumAdd ==
    ASSUME NEW f, NEW S, IsFiniteSet(S), NEW e, e \notin S, \A x \in S \union {e} : f[x] \in Int
    PROVE  Sum(f, S \union {e}) = Sum(f, S) + f[e]
<1> DEFINE U == S \union {e}
<1>1. IsFiniteSet(U)
    BY FS_AddElement
<1>2. U \ {e} = S /\ e \in U
    OBVIOUS
<1>3. Sum(f, U) = f[e] + Sum(f, S)
  <2> HIDE DEF U
  <2>1. \A x \in U : f[x] \in Int
      BY DEF U
  <2> QED
      BY <1>1, <1>2, <2>1, SumRemove
<1>4. Sum(f, S) \in Int /\ f[e] \in Int
    BY SumType
<1> HIDE DEF U
<1>5. Sum(f, U) = Sum(f, S) + f[e]
    BY <1>3, <1>4
<1> QED
    BY <1>5, Zenon DEF U

\* The terms renamed by a bijection b from S to T.
LEMMA SumRenamed ==
    ASSUME NEW f, NEW g, NEW S, IsFiniteSet(S), NEW T, IsFiniteSet(T), NEW b \in [S -> T],
           \A x, y \in S : b[x] = b[y] => x = y,
           \A z \in T : \E x \in S : z = b[x],
           \A x \in S : f[x] \in Int /\ g[b[x]] = f[x]
    PROVE  Sum(g, T) = Sum(f, S)
<1> DEFINE Image(s) == {b[x] : x \in s}
           Bad == {s \in SUBSET S : Sum(g, Image(s)) # Sum(f, s)}
<1>1. ASSUME Bad # {} PROVE FALSE
  <2>1. PICK s \in Bad : IsFiniteSet(s) /\ \A x \in s : s \ {x} \notin Bad
    <3>1. Bad \in SUBSET SUBSET S
        OBVIOUS
    <3> HIDE DEF Bad
    <3> QED
        BY <1>1, <3>1, LeastSubset
  <2>2. s # {}
    <3>1. CASE s = {}
      <4>1. Image(s) = {}
          BY <3>1
      <4> HIDE DEF Image
      <4> QED
          BY <3>1, <4>1, SumEmpty
    <3> QED
        BY <3>1
  <2>3. PICK x \in s : TRUE
      BY <2>2
  <2>4. Image(s \ {x}) = Image(s) \ {b[x]} /\ b[x] \in Image(s)
      OBVIOUS
  <2>5. Image(s) \in SUBSET T /\ IsFiniteSet(Image(s))
      BY FS_Subset
  <2>6. \A z \in Image(s) : g[z] \in Int
      OBVIOUS
  <2>7. Sum(g, Image(s)) = g[b[x]] + Sum(g, Image(s \ {x}))
    <3> HIDE DEF Image
    <3>1. Sum(g, Image(s)) = g[b[x]] + Sum(g, Image(s) \ {b[x]})
        BY <2>4, <2>5, <2>6, SumRemove
    <3> QED
        BY <2>4, <3>1
  <2>8. Sum(f, s) = f[x] + Sum(f, s \ {x})
      BY <2>1, SumRemove
  <2>9. Sum(g, Image(s \ {x})) = Sum(f, s \ {x})
    <3> HIDE DEF Image
    <3> QED
        BY <2>1
  <2> HIDE DEF Image
  <2> QED
      BY <2>7, <2>8, <2>9
<1>2. Image(S) = T
    OBVIOUS
<1> HIDE DEF Image
<1> QED
    BY <1>1, <1>2

\* Equal terms have equal sums.
LEMMA SumSame ==
    ASSUME NEW f, NEW g, NEW S, IsFiniteSet(S), \A x \in S : f[x] \in Int /\ g[x] = f[x]
    PROVE  Sum(g, S) = Sum(f, S)
<1> DEFINE b == [x \in S |-> x]
<1>1. b \in [S -> S] /\ \A x \in S : b[x] = x
    OBVIOUS
<1> HIDE DEF b
<1> QED
    BY <1>1, SumRenamed

\* The sum of the sums of two terms.
LEMMA SumOfSums ==
    ASSUME NEW f, NEW g, NEW h, NEW S, IsFiniteSet(S),
           \A x \in S : f[x] \in Int /\ g[x] \in Int /\ h[x] = f[x] + g[x]
    PROVE  Sum(h, S) = Sum(f, S) + Sum(g, S)
<1> DEFINE Bad == {s \in SUBSET S : Sum(h, s) # Sum(f, s) + Sum(g, s)}
<1>1. ASSUME Bad # {} PROVE FALSE
  <2>1. PICK s \in Bad : IsFiniteSet(s) /\ \A x \in s : s \ {x} \notin Bad
    <3>1. Bad \in SUBSET SUBSET S
        OBVIOUS
    <3> HIDE DEF Bad
    <3> QED
        BY <1>1, <3>1, LeastSubset
  <2>2. s # {}
    <3>1. Sum(f, {}) = 0 /\ Sum(g, {}) = 0 /\ Sum(h, {}) = 0
        BY SumEmpty
    <3>2. Sum(h, {}) = Sum(f, {}) + Sum(g, {})
        BY <3>1
    <3> QED
        BY <3>2, Zenon
  <2>3. PICK x \in s : TRUE
      BY <2>2
  <2> DEFINE r == s \ {x}
  <2>4. IsFiniteSet(r) /\ r \in SUBSET S /\ r \notin Bad
      BY <2>1, FS_Subset
  <2>5. \A y \in S : h[y] \in Int
      OBVIOUS
  <2>6. /\ Sum(h, s) = h[x] + Sum(h, r)
        /\ Sum(f, s) = f[x] + Sum(f, r)
        /\ Sum(g, s) = g[x] + Sum(g, r)
      BY <2>1, <2>5, SumRemove
  <2>7. Sum(f, r) \in Int /\ Sum(g, r) \in Int /\ f[x] \in Int /\ g[x] \in Int
    <3> HIDE DEF r
    <3> QED
        BY <2>4, SumType
  <2>8. Sum(h, r) = Sum(f, r) + Sum(g, r)
      BY <2>4
  <2> HIDE DEF r
  <2> QED
      BY <2>6, <2>7, <2>8
<1> QED
    BY <1>1

\* A sum of zeroes.
LEMMA SumZero ==
    ASSUME NEW f, NEW S, IsFiniteSet(S), \A x \in S : f[x] = 0
    PROVE  Sum(f, S) = 0
<1>1. Sum(f, S) = Sum(f, S) + Sum(f, S)
    BY SumOfSums
<1> QED
    BY <1>1, SumType

\* A sum over S and T that have no element in common.
LEMMA SumUnion ==
    ASSUME NEW f, NEW S, IsFiniteSet(S), NEW T, IsFiniteSet(T), S \cap T = {},
           \A x \in S \union T : f[x] \in Int
    PROVE  Sum(f, S \union T) = Sum(f, S) + Sum(f, T)
<1> DEFINE Bad == {s \in SUBSET T : Sum(f, S \union s) # Sum(f, S) + Sum(f, s)}
<1>1. ASSUME Bad # {} PROVE FALSE
  <2>1. PICK s \in Bad : IsFiniteSet(s) /\ \A x \in s : s \ {x} \notin Bad
    <3>1. Bad \in SUBSET SUBSET T
        OBVIOUS
    <3> HIDE DEF Bad
    <3> QED
        BY <1>1, <3>1, LeastSubset
  <2>2. s # {}
    <3>1. Sum(f, {}) = 0 /\ Sum(f, S) \in Int
        BY SumEmpty, SumType
    <3>2. Sum(f, S) = Sum(f, S) + Sum(f, {})
        BY <3>1
    <3>3. CASE s = {}
      <4>1. S \union s = S
          BY <3>3
      <4> QED
          BY <3>2, <3>3, <4>1
    <3> QED
        BY <3>3
  <2>3. PICK x \in s : TRUE
      BY <2>2
  <2> DEFINE r == s \ {x}
  <2>4. Sum(f, S \union s) = f[x] + Sum(f, S \union r)
    <3>1. (S \union s) \ {x} = S \union r /\ x \in S \union s
        OBVIOUS
    <3>2. IsFiniteSet(S \union s)
        BY <2>1, FS_Union
    <3> HIDE DEF r
    <3> QED
        BY <3>1, <3>2, SumRemove
  <2>5. Sum(f, s) = f[x] + Sum(f, r)
      BY <2>1, SumRemove
  <2>6. Sum(f, S \union r) = Sum(f, S) + Sum(f, r)
      BY <2>1
  <2>7. Sum(f, S) \in Int /\ Sum(f, r) \in Int /\ f[x] \in Int
    <3>1. IsFiniteSet(r)
        BY <2>1, FS_Subset
    <3> QED
        BY <3>1, SumType
  <2> HIDE DEF r
  <2> QED
      BY <2>4, <2>5, <2>6, <2>7
<1>2. Sum(f, S \union T) = Sum(f, S) + Sum(f, T)
    BY <1>1
<1> QED
    BY <1>2

\* Terms that are zero do not count.
LEMMA SumFiltered ==
    ASSUME NEW f, NEW S, IsFiniteSet(S), NEW T \in SUBSET S,
           \A x \in T : f[x] \in Int, \A x \in S \ T : f[x] = 0
    PROVE  Sum(f, S) = Sum(f, T)
<1>1. IsFiniteSet(T) /\ IsFiniteSet(S \ T)
    BY FS_Subset
<1>2. Sum(f, S \ T) = 0
    BY <1>1, SumZero
<1>3. T \union (S \ T) = S /\ T \cap (S \ T) = {}
    OBVIOUS
<1> DEFINE U == S \ T
<1>4. Sum(f, T \union U) = Sum(f, T) + Sum(f, U)
  <2>1. \A x \in T \union U : f[x] \in Int
      OBVIOUS
  <2> HIDE DEF U
  <2> QED
      BY <1>1, <1>3, <2>1, SumUnion DEF U
<1>5. Sum(f, T) \in Int
    BY <1>1, SumType
<1>6. T \union U = S /\ Sum(f, U) = 0
    BY <1>2, <1>3
<1> HIDE DEF U
<1> QED
    BY <1>4, <1>5, <1>6

\* One term changes.
LEMMA SumChange ==
    ASSUME NEW f, NEW g, NEW S, IsFiniteSet(S), NEW e \in S,
           \A x \in S : f[x] \in Int /\ g[x] \in Int, \A x \in S \ {e} : g[x] = f[x]
    PROVE  Sum(g, S) = Sum(f, S) - f[e] + g[e]
<1>1. Sum(g, S) = g[e] + Sum(g, S \ {e}) /\ Sum(f, S) = f[e] + Sum(f, S \ {e})
    BY SumRemove
<1>2. IsFiniteSet(S \ {e})
    BY FS_Subset
<1>3. Sum(g, S \ {e}) = Sum(f, S \ {e}) /\ Sum(f, S \ {e}) \in Int
    BY <1>2, SumSame, SumType
<1> QED
    BY <1>1, <1>3

\* A sum of naturals is a natural.
LEMMA SumNat ==
    ASSUME NEW f, NEW S, IsFiniteSet(S), \A x \in S : f[x] \in Nat
    PROVE  Sum(f, S) \in Nat
<1> DEFINE Bad == {s \in SUBSET S : Sum(f, s) \notin Nat}
<1>1. ASSUME Bad # {} PROVE FALSE
  <2>1. PICK s \in Bad : IsFiniteSet(s) /\ \A x \in s : s \ {x} \notin Bad
    <3>1. Bad \in SUBSET SUBSET S
        OBVIOUS
    <3> HIDE DEF Bad
    <3> QED
        BY <1>1, <3>1, LeastSubset
  <2>2. s # {}
      BY SumEmpty
  <2>3. PICK x \in s : Sum(f, s) = f[x] + Sum(f, s \ {x})
      BY <2>1, <2>2, SumUnfold
  <2> QED
      BY <2>1, <2>3
<1> QED
    BY <1>1

\* The sum over one element.
LEMMA SumOne ==
    ASSUME NEW f, NEW e, f[e] \in Int
    PROVE  Sum(f, {e}) = f[e]
<1>1. IsFiniteSet({e}) /\ {e} \ {e} = {}
    BY FS_Singleton
<1>2. Sum(f, {e}) = f[e] + Sum(f, {e} \ {e})
    BY <1>1, SumRemove
<1> QED
    BY <1>1, <1>2, SumEmpty

\* The sum over T, as a sum over S of terms that are zero outside T: a SUM with
\* a WHERE clause.
LEMMA SumWhere ==
    ASSUME NEW f, NEW g, NEW S, NEW T, IsFiniteSet(S), T \in SUBSET S,
           \A x \in T : f[x] \in Int /\ g[x] = f[x], \A x \in S \ T : g[x] = 0
    PROVE  Sum(g, S) = Sum(f, T)
<1>1. IsFiniteSet(T)
    BY FS_Subset
<1>2. Sum(g, T) = Sum(f, T)
    BY <1>1, SumSame
<1>3. Sum(g, S) = Sum(g, T)
    BY SumFiltered
<1> QED
    BY <1>2, <1>3

\* A sum over more elements, none of them less than before or negative.
LEMMA SumGrows ==
    ASSUME NEW f, NEW g, NEW S, NEW T, IsFiniteSet(T), S \in SUBSET T,
           \A x \in S : f[x] \in Int, \A x \in T : g[x] \in Int,
           \A x \in S : f[x] <= g[x], \A x \in T \ S : g[x] >= 0
    PROVE  Sum(f, S) <= Sum(g, T) /\ Sum(f, S) \in Int /\ Sum(g, T) \in Int
<1> DEFINE k == [x \in T |-> IF x \in S THEN f[x] ELSE 0]
           h == [x \in T |-> g[x] - k[x]]
<1>1. \A x \in T : /\ k[x] \in Int /\ h[x] \in Nat /\ g[x] = k[x] + h[x]
  <2> SUFFICES ASSUME NEW x \in T PROVE k[x] \in Int /\ h[x] \in Nat /\ g[x] = k[x] + h[x]
    OBVIOUS
  <2>1. CASE x \in S
    BY <2>1
  <2>2. CASE x \notin S
    BY <2>2
  <2> QED
    BY <2>1, <2>2
<1>2. (\A x \in S : k[x] = f[x]) /\ \A x \in T \ S : k[x] = 0
  OBVIOUS
<1> HIDE DEF k, h
<1>3. Sum(k, T) = Sum(f, S)
  BY <1>2, SumWhere
<1>4. Sum(g, T) = Sum(k, T) + Sum(h, T)
  BY <1>1, SumOfSums
<1>5. Sum(h, T) \in Nat
  BY <1>1, SumNat
<1>6. Sum(k, T) \in Int
  BY <1>1, SumType
<1> QED
  BY <1>3, <1>4, <1>5, <1>6

\* The sum over A followed by B: s says where the elements of B come.
LEMMA SumJoined ==
    ASSUME NEW f, NEW g, NEW h, NEW A, NEW B, NEW C, NEW s,
           IsFiniteSet(A), IsFiniteSet(B), IsFiniteSet(C), A \subseteq C,
           s \in [B -> C \ A],
           \A i, j \in B : s[i] = s[j] => i = j,
           \A z \in C \ A : \E i \in B : z = s[i],
           \A i \in A : f[i] \in Int /\ h[i] = f[i],
           \A i \in B : g[i] \in Int /\ h[s[i]] = g[i]
    PROVE  Sum(h, C) = Sum(f, A) + Sum(g, B)
<1> DEFINE D == C \ A
<1>1. IsFiniteSet(D) /\ A \cap D = {} /\ A \union D = C
    BY FS_Subset
<1>2. \A x \in A \union D : h[x] \in Int
    OBVIOUS
<1>3. s \in [B -> D] /\ \A z \in D : \E i \in B : z = s[i]
    OBVIOUS
<1> HIDE DEF D
<1>4. Sum(h, D) = Sum(g, B)
    BY <1>1, <1>3, SumRenamed
<1>5. Sum(h, A) = Sum(f, A)
    BY SumSame
<1>6. Sum(h, A \union D) = Sum(h, A) + Sum(h, D)
    BY <1>1, <1>2, SumUnion
<1> QED
    BY <1>1, <1>4, <1>5, <1>6

\* A WHERE clause again, with the terms of f spelt out.
LEMMA RowsWhere ==
    ASSUME NEW T, NEW S, NEW f, NEW g, IsFiniteSet(S), T \in SUBSET S,
           \A l \in S : f[l] \in Int /\ g[l] = IF l \in T THEN f[l] ELSE 0
    PROVE  Sum(f, T) = Sum(g, S)
<1>1. /\ \A l \in T : f[l] \in Int /\ g[l] = f[l]
      /\ \A l \in S \ T : g[l] = 0
  OBVIOUS
<1> QED
  BY <1>1, SumWhere

\* The rows of a table that are numbered from 1 are finitely many.
LEMMA IntervalFinite ==
    ASSUME NEW n \in Nat
    PROVE  IsFiniteSet(1 .. n)
<1>1. 1 \in Int /\ n \in Int
  OBVIOUS
<1> QED
  BY <1>1, FS_Interval

\* A sum of equal terms.
LEMMA SumConstant ==
    ASSUME NEW f, NEW S, IsFiniteSet(S), NEW c \in Int, \A x \in S : f[x] = c
    PROVE  Sum(f, S) = Cardinality(S) * c
<1> DEFINE Bad == {s \in SUBSET S : Sum(f, s) # Cardinality(s) * c}
<1>1. ASSUME Bad # {} PROVE FALSE
  <2>1. PICK s \in Bad : IsFiniteSet(s) /\ \A x \in s : s \ {x} \notin Bad
    <3>1. Bad \in SUBSET SUBSET S
      OBVIOUS
    <3> HIDE DEF Bad
    <3> QED
      BY <1>1, <3>1, LeastSubset
  <2>2. s # {}
    <3>1. Sum(f, {}) = 0 /\ Cardinality({}) = 0
      BY SumEmpty, FS_EmptySet
    <3>2. Sum(f, {}) = Cardinality({}) * c
      BY <3>1
    <3> QED
      BY <3>2, Zenon
  <2>3. PICK x \in s : TRUE
    BY <2>2
  <2> DEFINE r == s \ {x}
  <2>4. IsFiniteSet(r) /\ r \in SUBSET S /\ r \notin Bad
    BY <2>1, FS_Subset
  <2>5. \A y \in s : f[y] \in Int
    OBVIOUS
  <2>6. Sum(f, s) = f[x] + Sum(f, r)
    BY <2>1, <2>5, SumRemove
  <2>7. Sum(f, r) = Cardinality(r) * c
    BY <2>4
  <2>8. Cardinality(r) = Cardinality(s) - 1 /\ Cardinality(s) \in Nat
    BY <2>1, <2>3, FS_RemoveElement, FS_CardinalityType
  <2>9. f[x] = c
    OBVIOUS
  <2> DEFINE n == Cardinality(s)
  <2>10. Sum(f, s) = c + (n - 1) * c /\ n \in Nat
    BY <2>6, <2>7, <2>8, <2>9
  <2>11. Sum(f, s) # n * c
    OBVIOUS
  <2> HIDE DEF n
  <2>12. c + (n - 1) * c = n * c
    BY <2>10
  <2> QED
    BY <2>10, <2>11, <2>12
<1> QED
  BY <1>1
=============================================================================
