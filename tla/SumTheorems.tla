---------------------------- MODULE SumTheorems ----------------------------
(***************************************************************************)
(* Facts about SumFunction, the sum of the values of a function with a     *)
(* finite domain.  It folds over the domain, one element after another.    *)
(* Each fact is an induction, done by looking at a least counterexample.   *)
(***************************************************************************)
EXTENDS FiniteSetTheorems, TLAPS

\* The element the fold takes next.
Any(s) == CHOOSE x \in s : TRUE

\* g[s] is the sum of f over s, for every s in D.
SumsOf(f, D, g) == g = [s \in D |-> IF s = {} THEN 0 ELSE f[Any(s)] + g[s \ {Any(s)}]]

Small(S, n) == {s \in SUBSET S : Cardinality(s) <= n}

\* A set of natural numbers that is not empty has a least element.
LEMMA LeastNumber ==
  ASSUME NEW T \in SUBSET Nat, T # {}
  PROVE  \E n \in T : \A m \in T : n <= m
<1>1. PICK n \in T : \A m \in T : ~(<<m, n>> \in OpToRel(<, Nat))
  BY NatLessThanWellFounded, WFMin
<1>2. ASSUME NEW m \in T PROVE n <= m
  <2>1. m \in Nat /\ n \in Nat
    OBVIOUS
  <2>2. <<m, n>> \notin {ss \in Nat \X Nat : ss[1] < ss[2]}
    BY <1>1 DEF OpToRel
  <2>. QED BY <2>1, <2>2
<1>. QED BY <1>2

\* Of the subsets of a finite set that are in a family, one is least.
LEMMA LeastSet ==
  ASSUME NEW S, IsFiniteSet(S), NEW Bad \in SUBSET SUBSET S, Bad # {}
  PROVE  \E s \in Bad : \A r \in Bad : Cardinality(s) <= Cardinality(r)
<1>. DEFINE Sizes == {n \in Nat : \E s \in Bad : Cardinality(s) = n}
<1>1. \A s \in Bad : Cardinality(s) \in Nat
  BY FS_Subset, FS_CardinalityType
<1>2. PICK n \in Sizes : \A m \in Sizes : n <= m
  <2>1. Sizes \in SUBSET Nat /\ Sizes # {}
    BY <1>1
  <2>. HIDE DEF Sizes
  <2>. QED BY <2>1, LeastNumber
<1>. QED BY <1>1, <1>2

\* Taking one element leaves a smaller set.
LEMMA LessOne ==
  ASSUME NEW S, IsFiniteSet(S), NEW s \in SUBSET S, s # {}
  PROVE  /\ Any(s) \in s /\ s \ {Any(s)} \in SUBSET S
         /\ Cardinality(s) \in Nat /\ Cardinality(s) # 0
         /\ Cardinality(s \ {Any(s)}) = Cardinality(s) - 1
<1>1. Any(s) \in s
  BY DEF Any
<1>2. IsFiniteSet(s) /\ Cardinality(s) \in Nat
  BY FS_Subset, FS_CardinalityType
<1>3. Cardinality(s) # 0
  BY <1>2, FS_EmptySet
<1>4. Cardinality(s \ {Any(s)}) = Cardinality(s) - 1
  BY <1>1, <1>2, FS_RemoveElement
<1>. QED BY <1>1, <1>2, <1>3, <1>4

\* The recursion that the fold follows has a solution.
LEMMA SumsExist ==
  ASSUME NEW S, IsFiniteSet(S), NEW f
  PROVE  \E g : SumsOf(f, SUBSET S, g)
<1>. DEFINE Bad == {n \in Nat : ~ \E g : SumsOf(f, Small(S, n), g)}
<1>1. ASSUME Bad # {} PROVE FALSE
  <2>1. PICK n \in Bad : \A m \in Bad : n <= m
    BY <1>1, LeastNumber
  <2>2. CASE n = 0
    <3>1. Small(S, n) = {{}}
      <4>1. ASSUME NEW s \in SUBSET S PROVE Cardinality(s) <= 0 <=> s = {}
        BY FS_Subset, FS_CardinalityType, FS_EmptySet
      <4>. QED BY <2>2, <4>1 DEF Small
    <3>2. SumsOf(f, Small(S, n), [s \in Small(S, n) |-> 0])
      BY <3>1 DEF SumsOf
    <3>. QED BY <3>2
  <2>3. CASE n # 0
    <3>1. n \in Nat /\ n - 1 \in Nat /\ n - 1 \notin Bad
      BY <2>1, <2>3
    <3>2. PICK g : SumsOf(f, Small(S, n - 1), g)
      BY <3>1
    <3>. DEFINE h == [s \in Small(S, n) |-> IF s = {} THEN 0 ELSE f[Any(s)] + g[s \ {Any(s)}]]
    <3>3. ASSUME NEW s \in Small(S, n), s # {}
          PROVE  h[s \ {Any(s)}] = g[s \ {Any(s)}]
      <4>. DEFINE r == s \ {Any(s)}
      <4>1. r \in SUBSET S /\ Cardinality(r) = Cardinality(s) - 1 /\ Cardinality(s) \in Nat
        BY <3>3, LessOne DEF Small
      <4>2. r \in Small(S, n - 1) /\ r \in Small(S, n)
        BY <3>1, <4>1 DEF Small
      <4>. HIDE DEF r
      <4>3. g[r] = IF r = {} THEN 0 ELSE f[Any(r)] + g[r \ {Any(r)}]
        BY <3>2, <4>2 DEF SumsOf
      <4>4. h[r] = IF r = {} THEN 0 ELSE f[Any(r)] + g[r \ {Any(r)}]
        BY <4>2
      <4>. QED BY <4>3, <4>4 DEF r
    <3>4. SumsOf(f, Small(S, n), h)
      <4>1. ASSUME NEW s \in Small(S, n)
            PROVE  h[s] = IF s = {} THEN 0 ELSE f[Any(s)] + h[s \ {Any(s)}]
        BY <3>3
      <4>. QED BY <4>1 DEF SumsOf
    <3>. HIDE DEF h
    <3>. QED BY <3>4
  <2>. QED BY <2>2, <2>3
<1>2. Cardinality(S) \in Nat /\ Small(S, Cardinality(S)) = SUBSET S
  BY FS_Subset, FS_CardinalityType DEF Small
<1>3. \E g : SumsOf(f, Small(S, Cardinality(S)), g)
  BY <1>1, <1>2
<1>. QED BY <1>2, <1>3

\* SumFunction computes such a g, at the whole domain.
LEMMA SumIs ==
  ASSUME NEW S, IsFiniteSet(S), NEW f, DOMAIN f = S
  PROVE  \E g : SumsOf(f, SUBSET S, g) /\ SumFunction(f) = g[S]
<1>. DEFINE g == CHOOSE h : SumsOf(f, SUBSET S, h)
<1>1. SumsOf(f, SUBSET S, g)
  BY SumsExist
<1>2. SumFunction(f) = g[S]
  BY Zenon DEF SumFunction, SumFunctionOnSet, FoldFunctionOnSet, MapThenFoldSet, SumsOf, Any
<1>. HIDE DEF g
<1>. QED BY <1>1, <1>2

\* What SumsOf says of one set.
Unfolds(S, f, g) == /\ g[{}] = 0
                    /\ \A s \in SUBSET S : s # {} => g[s] = f[Any(s)] + g[s \ {Any(s)}]
                    /\ \A s \in SUBSET S : g[s] \in Int

\* Every partial sum is an integer, and takes one element more than the next.
LEMMA OneStep ==
  ASSUME NEW S, IsFiniteSet(S), NEW f \in [S -> Int], NEW g, SumsOf(f, SUBSET S, g)
  PROVE  Unfolds(S, f, g)
<1>1. ASSUME NEW s \in SUBSET S PROVE g[s] = IF s = {} THEN 0 ELSE f[Any(s)] + g[s \ {Any(s)}]
  BY DEF SumsOf
<1>2. g[{}] = 0
  BY <1>1
<1>. DEFINE Bad == {s \in SUBSET S : g[s] \notin Int}
<1>3. ASSUME Bad # {} PROVE FALSE
  <2>1. PICK s \in Bad : \A r \in Bad : Cardinality(s) <= Cardinality(r)
    BY <1>3, LeastSet
  <2>2. s \in SUBSET S /\ s # {} /\ g[s] \notin Int
    <3>1. s = {} => g[s] = 0
      BY <1>2, Zenon
    <3>. QED BY <2>1, <3>1
  <2>3. /\ Any(s) \in s /\ s \ {Any(s)} \in SUBSET S /\ Cardinality(s) \in Nat
        /\ Cardinality(s \ {Any(s)}) = Cardinality(s) - 1
    BY <2>2, LessOne
  <2>4. s \ {Any(s)} \notin Bad
    BY <2>1, <2>3
  <2>5. g[s \ {Any(s)}] \in Int /\ f[Any(s)] \in Int
    BY <2>2, <2>3, <2>4
  <2>. QED BY <1>1, <2>2, <2>5
<1>. QED BY <1>1, <1>2, <1>3 DEF Unfolds

\* The sum of integers is an integer.
THEOREM SumType ==
  ASSUME NEW S, IsFiniteSet(S), NEW f \in [S -> Int]
  PROVE  SumFunction(f) \in Int
<1>1. PICK g : SumsOf(f, SUBSET S, g) /\ SumFunction(f) = g[S]
  BY SumIs
<1>. QED BY <1>1, OneStep DEF Unfolds

\* A sum of zeros is zero.
THEOREM SumZero ==
  ASSUME NEW S, IsFiniteSet(S), NEW f \in [S -> Int], \A x \in S : f[x] = 0
  PROVE  SumFunction(f) = 0
<1>1. PICK g : SumsOf(f, SUBSET S, g) /\ SumFunction(f) = g[S]
  BY SumIs
<1>. DEFINE Bad == {s \in SUBSET S : g[s] # 0}
<1>2. ASSUME Bad # {} PROVE FALSE
  <2>1. PICK s \in Bad : \A r \in Bad : Cardinality(s) <= Cardinality(r)
    BY <1>2, LeastSet
  <2>2. s \in SUBSET S /\ s # {} /\ g[s] # 0
    BY <1>1, <2>1, OneStep DEF Unfolds
  <2>3. /\ Any(s) \in s /\ s \ {Any(s)} \in SUBSET S /\ Cardinality(s) \in Nat
        /\ Cardinality(s \ {Any(s)}) = Cardinality(s) - 1
    BY <2>2, LessOne
  <2>4. g[s \ {Any(s)}] = 0 /\ f[Any(s)] = 0
    BY <2>1, <2>2, <2>3
  <2>5. g[s] = f[Any(s)] + g[s \ {Any(s)}]
    BY <1>1, <2>2, OneStep DEF Unfolds
  <2>. QED BY <2>2, <2>4, <2>5
<1>. QED BY <1>1, <1>2

\* Changing the value at one place changes the sum by as much.
THEOREM SumChange ==
  ASSUME NEW S, IsFiniteSet(S), NEW f \in [S -> Int], NEW x \in S, NEW h \in [S -> Int],
         \A y \in S \ {x} : h[y] = f[y]
  PROVE  SumFunction(h) = SumFunction(f) + (h[x] - f[x])
<1>1. PICK g : SumsOf(f, SUBSET S, g) /\ SumFunction(f) = g[S]
  BY SumIs
<1>2. PICK k : SumsOf(h, SUBSET S, k) /\ SumFunction(h) = k[S]
  BY SumIs
<1>3. /\ g[{}] = 0 /\ k[{}] = 0
      /\ \A s \in SUBSET S : g[s] \in Int /\ k[s] \in Int
      /\ \A s \in SUBSET S : s # {} => /\ g[s] = f[Any(s)] + g[s \ {Any(s)}]
                                      /\ k[s] = h[Any(s)] + k[s \ {Any(s)}]
  <2>1. Unfolds(S, f, g) /\ Unfolds(S, h, k)
    BY <1>1, <1>2, OneStep
  <2>. QED BY <2>1, Zenon DEF Unfolds
<1>. DEFINE d   == h[x] - f[x]
            Bad == {s \in SUBSET S : k[s] # g[s] + (IF x \in s THEN d ELSE 0)}
<1>4. ASSUME Bad # {} PROVE FALSE
  <2>1. PICK s \in Bad : \A r \in Bad : Cardinality(s) <= Cardinality(r)
    BY <1>4, LeastSet
  <2>2. s \in SUBSET S /\ s # {}
    <3>1. s = {} => k[s] = 0 /\ g[s] = 0 /\ x \notin s
      BY <1>3, Zenon
    <3>. QED BY <2>1, <3>1
  <2>3. /\ Any(s) \in s /\ s \ {Any(s)} \in SUBSET S /\ Cardinality(s) \in Nat
        /\ Cardinality(s \ {Any(s)}) = Cardinality(s) - 1
    BY <2>2, LessOne
  <2>. DEFINE a == Any(s)
              r == s \ {a}
  <2>4. r \notin Bad
    BY <2>1, <2>3
  <2>5. k[r] = g[r] + (IF x \in r THEN d ELSE 0)
    BY <2>3, <2>4
  <2>6. /\ k[s] = h[a] + k[r] /\ g[s] = f[a] + g[r] /\ g[r] \in Int /\ k[r] \in Int
        /\ k[s] # g[s] + (IF x \in s THEN d ELSE 0)
    BY <1>3, <2>1, <2>2, <2>3
  <2>7. a \in S /\ h[a] \in Int /\ f[a] \in Int /\ h[x] \in Int /\ f[x] \in Int
    BY <2>2, <2>3
  <2>8. CASE a = x
    <3>1. x \in s /\ x \notin r
      BY <2>3, <2>8
    <3>. QED BY <2>5, <2>6, <2>7, <2>8, <3>1
  <2>9. CASE a # x
    <3>1. h[a] = f[a] /\ (x \in s <=> x \in r)
      BY <2>7, <2>9
    <3>. QED BY <2>5, <2>6, <2>7, <3>1
  <2>. QED BY <2>8, <2>9
<1>. QED BY <1>1, <1>2, <1>3, <1>4

\* No term is larger than a sum of natural numbers.
THEOREM SumBound ==
  ASSUME NEW S, IsFiniteSet(S), NEW f \in [S -> Nat], NEW x \in S
  PROVE  SumFunction(f) \in Nat /\ f[x] <= SumFunction(f)
<1>0. f \in [S -> Int]
  OBVIOUS
<1>1. PICK g : SumsOf(f, SUBSET S, g) /\ SumFunction(f) = g[S]
  BY SumIs
<1>2. /\ g[{}] = 0
      /\ \A s \in SUBSET S : g[s] \in Int
      /\ \A s \in SUBSET S : s # {} => g[s] = f[Any(s)] + g[s \ {Any(s)}]
  <2>1. Unfolds(S, f, g)
    BY <1>0, <1>1, OneStep
  <2>. QED BY <2>1, Zenon DEF Unfolds
<1>. DEFINE Fine(s) == g[s] >= 0 /\ (x \in s => f[x] <= g[s])
            Bad == {s \in SUBSET S : ~Fine(s)}
<1>3. ASSUME Bad # {} PROVE FALSE
  <2>1. PICK s \in Bad : \A r \in Bad : Cardinality(s) <= Cardinality(r)
    BY <1>3, LeastSet
  <2>2. s \in SUBSET S /\ s # {}
    <3>1. s = {} => g[s] = 0 /\ x \notin s
      BY <1>2, Zenon
    <3>. QED BY <2>1, <3>1
  <2>3. /\ Any(s) \in s /\ s \ {Any(s)} \in SUBSET S /\ Cardinality(s) \in Nat
        /\ Cardinality(s \ {Any(s)}) = Cardinality(s) - 1
    BY <2>2, LessOne
  <2>. DEFINE a == Any(s)
              r == s \ {a}
  <2>4. r \notin Bad
    BY <2>1, <2>3
  <2>5. Fine(r)
    BY <2>3, <2>4
  <2>6. g[s] = f[a] + g[r] /\ g[r] \in Int /\ f[a] \in Nat /\ f[x] \in Nat
    BY <1>2, <2>2, <2>3
  <2>7. Fine(s)
    <3>1. CASE a = x
      BY <2>5, <2>6, <3>1
    <3>2. CASE a # x
      BY <2>5, <2>6, <3>2
    <3>. QED BY <3>1, <3>2
  <2>. QED BY <2>1, <2>7
<1>. QED BY <1>1, <1>2, <1>3

\* The sum of natural numbers is one.
THEOREM SumNat ==
  ASSUME NEW S, IsFiniteSet(S), NEW f \in [S -> Nat]
  PROVE  SumFunction(f) \in Nat
<1>1. CASE S = {}
  <2>1. f \in [S -> Int] /\ \A x \in S : f[x] = 0
    BY <1>1
  <2>. QED BY <2>1, SumZero
<1>2. CASE S # {}
  BY <1>2, SumBound
<1>. QED BY <1>1, <1>2
=============================================================================
