---------------------------- MODULE ReportsProofs ----------------------------
(***************************************************************************)
(* The paged list and the estimate, for any number of machines, any        *)
(* catalogue, any page size and any length of the walk.                    *)
(***************************************************************************)
EXTENDS Reports, FiniteSetTheorems, TLAPS

-----------------------------------------------------------------------------
(***************************************************************************)
(* Sums over finite sets.  TotalOf is a fold of the community modules; the *)
(* fold is a choice among the functions on the subsets of its domain that  *)
(* add elements up one at a time.  That one exists, and what it adds up    *)
(* to, follows by looking at a least set for which it fails: a finite set  *)
(* has no endless chain of smaller ones.                                   *)
(***************************************************************************)
(* Of a family of subsets of a finite set, one has no other of the family below it. *)
LEMMA LeastSubset ==
    ASSUME NEW S, IsFiniteSet(S), NEW F \in SUBSET (SUBSET S), F # {}
    PROVE  \E s \in F : \A u \in SUBSET s : u # s => u \notin F
<1> DEFINE R == StrictSubsetOrdering(S)
<1>1. IsWellFoundedOn(R, SUBSET S)
  BY FS_StrictSubsetOrderingWellFounded, FS_FiniteSubsetsOfFinite
<1>2. PICK s \in F : \A u \in F : <<u, s>> \notin R
  <2> HIDE DEF R
  <2> QED BY <1>1, WFMin
<1>3. \A u \in SUBSET s : u # s => u \notin F
  BY <1>2 DEF StrictSubsetOrdering
<1> QED BY <1>3

Any(s) == CHOOSE x \in s : TRUE

IsSum(a, S, g) ==
    g = [s \in SUBSET S |-> IF s = {} THEN 0 ELSE a[Any(s)] + g[s \ {Any(s)}]]

Sums(a, S) == CHOOSE g : IsSum(a, S, g)

Sum(a, S) == Sums(a, S)[S]

(* Of a set that is not empty, an element is chosen. *)
LEMMA AnyIn == \A s : s # {} => Any(s) \in s
BY DEF Any

(* The sums over the subsets of a part of a set are those over the subsets of the whole. *)
LEMMA SumsAgree ==
    ASSUME NEW a, NEW S, IsFiniteSet(S), NEW W \in SUBSET S,
           NEW g, IsSum(a, S, g), NEW h, IsSum(a, W, h)
    PROVE  \A s \in SUBSET W : g[s] = h[s]
<1> DEFINE F == {s \in SUBSET W : g[s] # h[s]}
<1>1. SUFFICES ASSUME F # {}
               PROVE  FALSE
  OBVIOUS
<1>2. PICK s \in F : \A u \in SUBSET s : u # s => u \notin F
  <2>1. IsFiniteSet(W) /\ F \in SUBSET (SUBSET W)
    BY FS_Subset
  <2> HIDE DEF F
  <2> QED BY <1>1, <2>1, LeastSubset
<1>3. s # {}
  BY <1>2 DEF IsSum
<1>4. s \ {Any(s)} \in SUBSET W /\ s \ {Any(s)} # s
  BY <1>2, <1>3, AnyIn
<1>5. g[s \ {Any(s)}] = h[s \ {Any(s)}]
  BY <1>2, <1>4
<1> QED BY <1>2, <1>5 DEF IsSum

(* A finite set has sums over its subsets: a least set without them could be given some. *)
LEMMA SumsExist ==
    ASSUME NEW a, NEW S, IsFiniteSet(S)
    PROVE  IsSum(a, S, Sums(a, S))
<1> DEFINE F == {s \in SUBSET S : ~ \E g : IsSum(a, s, g)}
<1>0. \A s : (\E g : IsSum(a, s, g)) => IsSum(a, s, Sums(a, s))
  BY DEF Sums
<1>1. SUFFICES ASSUME F # {}
               PROVE  FALSE
  BY <1>0
<1>2. PICK T \in F : \A u \in SUBSET T : u # T => u \notin F
  <2>1. F \in SUBSET (SUBSET S)
    OBVIOUS
  <2> HIDE DEF F
  <2> QED BY <1>1, <2>1, LeastSubset
<1>3. \A u \in SUBSET T : u # T => IsSum(a, u, Sums(a, u))
  BY <1>0, <1>2
<1> DEFINE below(s) == s \ {Any(s)}
           g == [s \in SUBSET T |-> IF s = {} THEN 0 ELSE a[Any(s)] + Sum(a, below(s))]
<1>4. ASSUME NEW s \in SUBSET T, s # {}
      PROVE  g[below(s)] = Sum(a, below(s))
  <2> DEFINE u == below(s)
  <2>1. u \in SUBSET T /\ u # T
    BY <1>4, AnyIn
  <2>2. IsSum(a, u, Sums(a, u)) /\ IsFiniteSet(u)
    BY <1>3, <2>1, FS_Subset
  <2>3. CASE u = {}
    <3>1. Sums(a, u)[u] = 0
      BY <2>2, <2>3 DEF IsSum
    <3> QED BY <2>1, <2>3, <3>1 DEF Sum
  <2>4. CASE u # {}
    <3> DEFINE v == below(u)
    <3>1. v \in SUBSET u /\ v \in SUBSET T /\ v # T
      BY <2>1, <2>4, AnyIn
    <3>2. IsSum(a, v, Sums(a, v))
      BY <1>3, <3>1
    <3>3. Sums(a, u)[v] = Sums(a, v)[v]
      BY <2>2, <3>1, <3>2, SumsAgree
    <3>4. Sums(a, u)[u] = a[Any(u)] + Sums(a, u)[v]
      BY <2>2, <2>4 DEF IsSum
    <3>5. g[u] = a[Any(u)] + Sum(a, v)
      BY <2>1, <2>4
    <3> QED BY <3>3, <3>4, <3>5 DEF Sum
  <2> QED BY <2>3, <2>4
<1>5. IsSum(a, T, g)
  BY <1>4 DEF IsSum
<1> QED BY <1>2, <1>5

(* What a sum is, an element at a time. *)
LEMMA SumDef ==
    ASSUME NEW a, NEW S, IsFiniteSet(S)
    PROVE  Sum(a, S) = IF S = {} THEN 0 ELSE a[Any(S)] + Sum(a, S \ {Any(S)})
<1>1. IsSum(a, S, Sums(a, S))
  BY SumsExist
<1>2. CASE S = {}
  BY <1>1, <1>2 DEF Sum, IsSum
<1>3. CASE S # {}
  <2> DEFINE u == S \ {Any(S)}
  <2>1. u \in SUBSET S /\ IsFiniteSet(u)
    BY FS_Subset
  <2>2. Sums(a, S)[u] = Sums(a, u)[u]
    <3> HIDE DEF u
    <3>1. IsSum(a, u, Sums(a, u))
      BY <2>1, SumsExist
    <3> QED BY <1>1, <2>1, <3>1, SumsAgree
  <2>3. Sums(a, S)[S] = a[Any(S)] + Sums(a, S)[u]
    BY <1>1, <1>3 DEF IsSum
  <2> QED BY <1>3, <2>2, <2>3 DEF Sum
<1> QED BY <1>2, <1>3

(* Nothing adds up to 0. *)
LEMMA SumOfNothing == \A a : Sum(a, {}) = 0
BY SumDef, FS_EmptySet

(* Integers add up to an integer, *)
LEMMA SumIsInt ==
    ASSUME NEW a, NEW S, IsFiniteSet(S), \A x \in S : a[x] \in Int
    PROVE  Sum(a, S) \in Int
<1> DEFINE F == {s \in SUBSET S : Sum(a, s) \notin Int}
<1>1. SUFFICES ASSUME F # {}
               PROVE  FALSE
  OBVIOUS
<1>2. PICK s \in F : \A u \in SUBSET s : u # s => u \notin F
  <2>1. F \in SUBSET (SUBSET S)
    OBVIOUS
  <2> HIDE DEF F
  <2> QED BY <1>1, <2>1, LeastSubset
<1>3. Sum(a, s) = IF s = {} THEN 0 ELSE a[Any(s)] + Sum(a, s \ {Any(s)})
  BY <1>2, SumDef, FS_Subset
<1>4. s # {} => Any(s) \in S /\ Sum(a, s \ {Any(s)}) \in Int
  BY <1>2, AnyIn
<1> QED BY <1>2, <1>3, <1>4

(* and natural numbers to a natural number. *)
LEMMA SumIsNat ==
    ASSUME NEW a, NEW S, IsFiniteSet(S), \A x \in S : a[x] \in Nat
    PROVE  Sum(a, S) \in Nat
<1> DEFINE F == {s \in SUBSET S : Sum(a, s) \notin Nat}
<1>1. SUFFICES ASSUME F # {}
               PROVE  FALSE
  OBVIOUS
<1>2. PICK s \in F : \A u \in SUBSET s : u # s => u \notin F
  <2>1. F \in SUBSET (SUBSET S)
    OBVIOUS
  <2> HIDE DEF F
  <2> QED BY <1>1, <2>1, LeastSubset
<1>3. Sum(a, s) = IF s = {} THEN 0 ELSE a[Any(s)] + Sum(a, s \ {Any(s)})
  BY <1>2, SumDef, FS_Subset
<1>4. s # {} => Any(s) \in S /\ Sum(a, s \ {Any(s)}) \in Nat
  BY <1>2, AnyIn
<1> QED BY <1>2, <1>3, <1>4

(* A sum does not depend on which element comes first. *)
LEMMA SumOfOneMore ==
    ASSUME NEW a, NEW S, IsFiniteSet(S), \A x \in S : a[x] \in Int, NEW y \in S
    PROVE  Sum(a, S) = a[y] + Sum(a, S \ {y})
<1> DEFINE Ok(s) == \A x \in s : Sum(a, s) = a[x] + Sum(a, s \ {x})
           F == {s \in SUBSET S : ~Ok(s)}
<1>1. SUFFICES ASSUME F # {}
               PROVE  FALSE
  OBVIOUS
<1>2. PICK s \in F : \A u \in SUBSET s : u # s => u \notin F
  <2>1. F \in SUBSET (SUBSET S)
    OBVIOUS
  <2> HIDE DEF F
  <2> QED BY <1>1, <2>1, LeastSubset
<1>3. PICK x \in s : Sum(a, s) # a[x] + Sum(a, s \ {x})
  BY <1>2
<1> DEFINE c == Any(s)
<1>4. c \in s /\ Sum(a, s) = a[c] + Sum(a, s \ {c})
  BY <1>2, <1>3, SumDef, AnyIn, FS_Subset
<1>5. x # c
  BY <1>3, <1>4
<1>6. Ok(s \ {c}) /\ Ok(s \ {x})
  BY <1>2, <1>3, <1>4
<1>7. Sum(a, s \ {c}) = a[x] + Sum(a, (s \ {c}) \ {x})
  BY <1>3, <1>5, <1>6
<1>8. Sum(a, s \ {x}) = a[c] + Sum(a, (s \ {x}) \ {c})
  BY <1>4, <1>5, <1>6
<1>9. (s \ {c}) \ {x} = (s \ {x}) \ {c}
  OBVIOUS
<1> DEFINE rest == Sum(a, (s \ {c}) \ {x})
<1>10. rest \in Int /\ a[x] \in Int /\ a[c] \in Int
  <2>1. (s \ {c}) \ {x} \in SUBSET S
    BY <1>2
  <2> QED BY <1>2, <1>3, <1>4, <2>1, SumIsInt, FS_Subset
<1>11. Sum(a, s) = a[c] + (a[x] + rest) /\ Sum(a, s \ {x}) = a[c] + rest
  BY <1>4, <1>7, <1>8, <1>9
<1> HIDE DEF c, rest
<1>12. a[c] + (a[x] + rest) = a[x] + (a[c] + rest)
  BY <1>10
<1> QED BY <1>3, <1>11, <1>12

(* A sum depends on the amounts of its elements and nothing else. *)
LEMMA SumDepends ==
    ASSUME NEW a, NEW b, NEW S, IsFiniteSet(S), \A x \in S : a[x] = b[x]
    PROVE  Sum(a, S) = Sum(b, S)
<1> DEFINE F == {s \in SUBSET S : Sum(a, s) # Sum(b, s)}
<1>1. SUFFICES ASSUME F # {}
               PROVE  FALSE
  OBVIOUS
<1>2. PICK s \in F : \A u \in SUBSET s : u # s => u \notin F
  <2>1. F \in SUBSET (SUBSET S)
    OBVIOUS
  <2> HIDE DEF F
  <2> QED BY <1>1, <2>1, LeastSubset
<1>3. Sum(a, s) = IF s = {} THEN 0 ELSE a[Any(s)] + Sum(a, s \ {Any(s)})
  BY <1>2, SumDef, FS_Subset
<1>4. Sum(b, s) = IF s = {} THEN 0 ELSE b[Any(s)] + Sum(b, s \ {Any(s)})
  BY <1>2, SumDef, FS_Subset
<1>5. s # {} => Any(s) \in S /\ Sum(a, s \ {Any(s)}) = Sum(b, s \ {Any(s)})
  BY <1>2, AnyIn
<1> QED BY <1>2, <1>3, <1>4, <1>5

(* TotalOf folds over its domain, element by element: it is such a sum. *)
LEMMA TotalIsSum == \A a : TotalOf(a) = Sum(a, DOMAIN a)
BY DEF TotalOf, MapThenSumSet, MapThenFoldSet, Sum, Sums, IsSum, Any

(* Zeros add up to 0. *)
LEMMA SumOfZeros ==
    ASSUME NEW S, IsFiniteSet(S), NEW a, \A x \in S : a[x] = 0
    PROVE  Sum(a, S) = 0
<1> DEFINE F == {s \in SUBSET S : Sum(a, s) # 0}
<1>1. SUFFICES ASSUME F # {}
               PROVE  FALSE
  OBVIOUS
<1>2. PICK s \in F : \A u \in SUBSET s : u # s => u \notin F
  <2>1. F \in SUBSET (SUBSET S)
    OBVIOUS
  <2> HIDE DEF F
  <2> QED BY <1>1, <2>1, LeastSubset
<1>3. Sum(a, s) = IF s = {} THEN 0 ELSE a[Any(s)] + Sum(a, s \ {Any(s)})
  BY <1>2, SumDef, FS_Subset
<1>4. s # {} => Any(s) \in S /\ Sum(a, s \ {Any(s)}) = 0
  BY <1>2, AnyIn
<1> QED BY <1>2, <1>3, <1>4

(* If one amount changes, the sum changes by as much. *)
LEMMA SumChange ==
    ASSUME NEW S, IsFiniteSet(S), NEW a, NEW b, NEW x \in S,
           \A y \in S : a[y] \in Int /\ b[y] \in Int,
           \A y \in S \ {x} : a[y] = b[y]
    PROVE  Sum(b, S) = Sum(a, S) - a[x] + b[x]
<1>1. IsFiniteSet(S \ {x})
  BY FS_Subset
<1>2. Sum(a, S \ {x}) = Sum(b, S \ {x}) /\ Sum(a, S \ {x}) \in Int
  BY <1>1, SumDepends, SumIsInt
<1>3. Sum(a, S) = a[x] + Sum(a, S \ {x}) /\ Sum(b, S) = b[x] + Sum(b, S \ {x})
  BY SumOfOneMore
<1> QED BY <1>2, <1>3

(* If some amounts grow by one, the sum grows by how many they are. *)
LEMMA SumBump ==
    ASSUME NEW S, IsFiniteSet(S), NEW a, NEW b, NEW X \in SUBSET S,
           \A y \in S : a[y] \in Int,
           \A y \in S : b[y] = IF y \in X THEN a[y] + 1 ELSE a[y]
    PROVE  Sum(b, S) = Sum(a, S) + Cardinality(X)
<1> DEFINE F == {s \in SUBSET S : Sum(b, s) # Sum(a, s) + Cardinality(X \cap s)}
<1>1. SUFFICES ASSUME F # {}
               PROVE  FALSE
  <2>1. X \cap S = X
    OBVIOUS
  <2> QED BY <2>1
<1>2. PICK s \in F : \A u \in SUBSET s : u # s => u \notin F
  <2>1. F \in SUBSET (SUBSET S)
    OBVIOUS
  <2> HIDE DEF F
  <2> QED BY <1>1, <2>1, LeastSubset
<1>3. IsFiniteSet(s) /\ IsFiniteSet(X \cap s)
  BY <1>2, FS_Subset
<1>4. s # {}
  <2>1. SUFFICES ASSUME s = {}
                 PROVE  Sum(b, s) = Sum(a, s) + Cardinality(X \cap s)
    BY <1>2
  <2>2. X \cap s = {}
    BY <2>1
  <2>3. Sum(b, s) = 0 /\ Sum(a, s) = 0 /\ Cardinality(X \cap s) = 0
    BY <2>1, <2>2, SumOfNothing, FS_EmptySet
  <2> QED BY <2>3
<1> DEFINE c == Any(s)
           u == s \ {c}
<1>5. c \in s /\ c \in S
  BY <1>2, <1>4, AnyIn
<1>6. Sum(b, u) = Sum(a, u) + Cardinality(X \cap u)
  BY <1>2, <1>5
<1>7. Sum(a, s) = a[c] + Sum(a, u) /\ Sum(b, s) = b[c] + Sum(b, u)
  BY <1>3, <1>4, SumDef
<1>8. Sum(a, u) \in Int /\ a[c] \in Int
  <2>1. IsFiniteSet(u) /\ u \in SUBSET S
    BY <1>2, <1>3, FS_Subset
  <2> HIDE DEF u
  <2> QED BY <2>1, <1>5, SumIsInt
<1>9. Cardinality(X \cap s) = Cardinality(X \cap u) + (b[c] - a[c])
  <2>0. Cardinality(X \cap s) \in Nat
    BY <1>3, FS_CardinalityType
  <2>1. CASE c \in X
    <3>1. Cardinality((X \cap s) \ {c}) = Cardinality(X \cap s) - 1
      BY <1>3, <1>5, <2>1, FS_RemoveElement
    <3>2. (X \cap s) \ {c} = X \cap u
      OBVIOUS
    <3>3. Cardinality(X \cap u) = Cardinality(X \cap s) - 1
      BY <3>1, <3>2
    <3>4. b[c] = a[c] + 1
      BY <1>5, <2>1
    <3> HIDE DEF c, u
    <3> QED BY <1>8, <2>0, <3>3, <3>4
  <2>2. CASE c \notin X
    <3>1. X \cap s = X \cap u
      BY <2>2
    <3>2. b[c] = a[c]
      BY <1>5, <2>2
    <3> HIDE DEF c, u
    <3> QED BY <1>8, <2>0, <3>1, <3>2
  <2> QED BY <2>1, <2>2
<1>10. b[c] \in Int /\ Cardinality(X \cap u) \in Int
  <2>1. b[c] = a[c] \/ b[c] = a[c] + 1
    BY <1>5
  <2>2. IsFiniteSet(X \cap u)
    BY <1>3, FS_Subset
  <2> HIDE DEF c, u
  <2> QED BY <1>8, <2>1, <2>2, FS_CardinalityType
<1>11. Sum(b, s) # Sum(a, s) + Cardinality(X \cap s)
  BY <1>2
<1> HIDE DEF c, u
<1> QED BY <1>6, <1>7, <1>8, <1>9, <1>10, <1>11

(* The prices of things of several kinds: added up one by one, or kind by kind. *)
LEMMA SumByKind ==
    ASSUME NEW L, IsFiniteSet(L), NEW K, IsFiniteSet(K), NEW kind, NEW price,
           \A p \in K : price[p] \in Nat,
           NEW a, \A m \in L : a[m] = IF kind[m] \in K THEN price[kind[m]] ELSE 0
    PROVE  Sum(a, L) =
             Sum([p \in K |-> price[p] * Cardinality({m \in L : kind[m] = p})], K)
<1> DEFINE have(s, p) == Cardinality({m \in s : kind[m] = p})
           by(s) == [p \in K |-> price[p] * have(s, p)]
           F == {s \in SUBSET L : Sum(a, s) # Sum(by(s), K)}
<1>0. ASSUME NEW s \in SUBSET L, NEW p \in K
      PROVE  have(s, p) \in Nat /\ by(s)[p] = price[p] * have(s, p) /\ by(s)[p] \in Int
  <2>1. have(s, p) \in Nat
    BY FS_Subset, FS_CardinalityType
  <2> QED BY <2>1
<1>1. SUFFICES ASSUME F # {}
               PROVE  FALSE
  OBVIOUS
<1>2. PICK s \in F : \A u \in SUBSET s : u # s => u \notin F
  <2>1. F \in SUBSET (SUBSET L)
    OBVIOUS
  <2> HIDE DEF F
  <2> QED BY <1>1, <2>1, LeastSubset
<1>3. IsFiniteSet(s) /\ s \in SUBSET L /\ Sum(a, s) # Sum(by(s), K)
  BY <1>2, FS_Subset
<1>4. s # {}
  <2>1. SUFFICES ASSUME s = {}
                 PROVE  Sum(by(s), K) = 0
    BY <1>3, SumOfNothing
  <2>2. \A p \in K : by(s)[p] = 0
    BY <2>1, FS_EmptySet
  <2> HIDE DEF by
  <2> QED BY <2>2, SumOfZeros
<1> DEFINE c == Any(s)
           u == s \ {c}
<1>5. c \in s /\ c \in L /\ u \in SUBSET s /\ u \in SUBSET L /\ u # s /\ IsFiniteSet(u)
  BY <1>3, <1>4, AnyIn, FS_Subset
<1>6. Sum(a, u) = Sum(by(u), K)
  BY <1>2, <1>5
<1>7. Sum(a, s) = a[c] + Sum(a, u)
  BY <1>3, <1>4, SumDef
<1>8. \A p \in K : p # kind[c] => have(s, p) = have(u, p)
  <2>1. ASSUME NEW p \in K, p # kind[c]
        PROVE  {m \in s : kind[m] = p} = {m \in u : kind[m] = p}
    BY <2>1
  <2> QED BY <2>1
<1>10. Sum(by(u), K) \in Int
  <2>1. \A p \in K : by(u)[p] \in Int
    BY <1>0, <1>5
  <2> HIDE DEF by, u
  <2> QED BY <2>1, SumIsInt
<1>11. CASE kind[c] \notin K
  <2>1. \A p \in K : by(s)[p] = by(u)[p]
    BY <1>8, <1>11
  <2>2. Sum(by(s), K) = Sum(by(u), K)
    <3> HIDE DEF by, u
    <3> QED BY <2>1, SumDepends
  <2>3. a[c] = 0
    BY <1>5, <1>11
  <2> HIDE DEF by, u, c
  <2> QED BY <1>3, <1>6, <1>7, <1>10, <2>2, <2>3
<1>12. CASE kind[c] \in K
  <2> DEFINE q == kind[c]
             S1 == {m \in s : kind[m] = q}
  <2>1. have(s, q) = have(u, q) + 1
    <3>1. S1 \in SUBSET s /\ c \in S1 /\ S1 \ {c} = {m \in u : kind[m] = q}
      BY <1>5
    <3>2. IsFiniteSet(S1) /\ Cardinality(S1) \in Nat
      BY <1>3, <3>1, FS_Subset, FS_CardinalityType
    <3>3. Cardinality(S1 \ {c}) = Cardinality(S1) - 1
      <4> HIDE DEF S1
      <4> QED BY <3>1, <3>2, FS_RemoveElement
    <3>4. have(s, q) = Cardinality(S1) /\ have(u, q) = Cardinality(S1 \ {c})
      BY <3>1
    <3> HIDE DEF have, S1, q, c, u
    <3> QED BY <3>2, <3>3, <3>4
  <2>2. \A p \in K \ {q} : by(u)[p] = by(s)[p]
    BY <1>8
  <2>3. \A p \in K : by(u)[p] \in Int /\ by(s)[p] \in Int
    BY <1>0, <1>3, <1>5
  <2>4. by(s)[q] = by(u)[q] + price[q]
    <3> DEFINE n == have(u, q)
               z == price[q]
    <3>1. n \in Nat /\ z \in Nat /\ by(s)[q] = z * have(s, q) /\ by(u)[q] = z * n
      BY <1>0, <1>3, <1>5, <1>12
    <3>2. z * (n + 1) = z * n + z
      <4> HIDE DEF n, z
      <4> QED BY <3>1
    <3> QED BY <2>1, <3>1, <3>2
  <2>5. Sum(by(s), K) = Sum(by(u), K) - by(u)[q] + by(s)[q]
    <3>1. q \in K
      BY <1>12
    <3> HIDE DEF by, u, q
    <3> QED BY <2>2, <2>3, <3>1, SumChange
  <2>6. a[c] = price[q] /\ price[q] \in Nat /\ by(u)[q] \in Int
    BY <1>5, <1>12, <2>3
  <2> HIDE DEF by, u, c, q
  <2> QED BY <1>3, <1>6, <1>7, <1>10, <2>4, <2>5, <2>6
<1> QED BY <1>11, <1>12

-----------------------------------------------------------------------------
(***************************************************************************)
(* The place of a machine in the list: how many rows come before it.       *)
(***************************************************************************)
Below(m) == {n \in Present : Before(n, m)}

Rank(m) == Cardinality(Below(m))

(* The rows, and those before one of them, are finitely many. *)
LEMMA FinitelyMany ==
    /\ IsFiniteSet(Present)
    /\ \A m : IsFiniteSet(Below(m)) /\ Rank(m) \in Nat
<1>1. IsFiniteSet(Present)
  BY MachinesAssumption, FS_Subset DEF Present
<1>2. ASSUME NEW m
      PROVE  IsFiniteSet(Below(m)) /\ Rank(m) \in Nat
  <2>1. Below(m) \in SUBSET Present
    BY DEF Below
  <2> QED BY <1>1, <2>1, FS_Subset, FS_CardinalityType DEF Rank
<1> QED BY <1>1, <1>2

(* created_at and id order the rows. *)
LEMMA RowsOrdered ==
    ASSUME TypeOK, NEW m \in Present, NEW n \in Present
    PROVE  /\ ~Before(m, m)
           /\ m # n => Before(m, n) \/ Before(n, m)
           /\ \A k \in Present : Before(k, m) /\ Before(m, n) => Before(k, n)
<1>1. \A k \in Present : k \in Nat /\ rows[k].created \in Nat
  BY MachinesAssumption, BoundsAssumption DEF TypeOK, Present, Row, Time
<1> QED BY <1>1 DEF Before

(* Every row has a place in the list. *)
LEMMA RankInList ==
    ASSUME TypeOK, NEW m \in Present
    PROVE  Rank(m) < Cardinality(Present)
<1>1. Below(m) \in SUBSET Present /\ Below(m) # Present
  BY RowsOrdered DEF Below
<1>2. Cardinality(Below(m)) <= Cardinality(Present)
      /\ Cardinality(Below(m)) # Cardinality(Present)
  BY <1>1, FinitelyMany, FS_Subset
<1>3. Cardinality(Present) \in Nat
  BY FinitelyMany, FS_CardinalityType
<1> QED BY <1>2, <1>3, FinitelyMany DEF Rank

(* No two rows have the same place. *)
LEMMA RanksDiffer ==
    ASSUME TypeOK, NEW m \in Present, NEW n \in Present, Rank(m) = Rank(n)
    PROVE  m = n
<1>1. ASSUME NEW j \in Present, NEW k \in Present, Before(j, k)
      PROVE  Rank(j) # Rank(k)
  <2>1. Below(j) \in SUBSET Below(k) /\ j \in Below(k) /\ j \notin Below(j)
    BY <1>1, RowsOrdered DEF Below
  <2> QED BY <2>1, FinitelyMany, FS_Subset DEF Rank
<1> QED BY <1>1, RowsOrdered

-----------------------------------------------------------------------------
(***************************************************************************)
(* The pages read so far cover the first places of the list.  Of the       *)
(* machines there all the time that hold one of them now, no more have     *)
(* been missed than rows were deleted: an insertion moves machines only    *)
(* away from the covered places, and a deletion moves one of them in.      *)
(***************************************************************************)
Covered == IF reader.step = "list" THEN (reader.page - 1) * reader.limit
           ELSE reader.page * reader.limit

Unlisted == {m \in reader.there : reader.listed[m] = 0}

Missed(k) == {m \in Unlisted : Rank(m) < k}

WalkInv ==
    reader.report = "list" =>
        /\ reader.step \in {"idle", "list", "count", "turn", "done"}
        /\ Walking =>
             /\ reader.page >= 1
             /\ reader.there \subseteq Present
             /\ Cardinality(Missed(Covered)) <= reader.deleted
        /\ reader.step = "done" => Cardinality(Unlisted) <= reader.deleted

\* An id is drawn once: the row that a create inserts is not there yet.
DrawnOnce ==
    \A m \in Machines :
        /\ drawn[m] # None => m \in spent /\ rows[m] = None
        /\ rows[m] # None => m \in spent

(* A page size of the code is a natural number up to the maximum. *)
LEMMA LimitInRange == \A n \in PerPage : Limit(n) \in 0 .. MaxPerPage
BY PagesAssumption DEF Limit, AtMost, AtLeast

(* What the reader's history notes are sets of machines and numbers of rows. *)
LEMMA NotedFields ==
    ASSUME reader \in Reader, NEW T \in SUBSET Machines, NEW d \in Nat, NEW c \in Nat
    PROVE  LET n == Noted(T, d, c) IN
           /\ n \in Reader
           /\ n.report = reader.report /\ n.step = reader.step /\ n.page = reader.page
           /\ n.limit = reader.limit /\ n.listed = reader.listed
           /\ n.book = reader.book /\ n.recurring = reader.recurring
           /\ n.onboarding = reader.onboarding
           /\ Walking => /\ n.there = T /\ n.deleted = reader.deleted + d
                         /\ n.created = reader.created + c
           /\ ~Walking => n = reader
<1> DEFINE a == reader.deleted + d
           b == reader.created + c
           n == [reader EXCEPT !.there = T, !.deleted = a, !.created = b]
<1>1. a \in Nat /\ b \in Nat
  BY DEF Reader
<1>2. CASE ~Walking
  BY <1>2 DEF Noted
<1>3. CASE Walking
  <2>1. Noted(T, d, c) = n
    BY <1>3 DEF Noted, Reader
  <2> HIDE DEF a, b
  <2>2. /\ n \in Reader
        /\ n.report = reader.report /\ n.step = reader.step /\ n.page = reader.page
        /\ n.limit = reader.limit /\ n.listed = reader.listed
        /\ n.book = reader.book /\ n.recurring = reader.recurring
        /\ n.onboarding = reader.onboarding
        /\ n.there = T /\ n.deleted = a /\ n.created = b
    BY <1>1 DEF Reader
  <2> QED BY <1>3, <2>1, <2>2 DEF a, b
<1> QED BY <1>2, <1>3

(* The clock and the writers keep the types. *)
LEMMA WriteTypes ==
    ASSUME TypeOK, Write
    PROVE  TypeOK'
<1>1. reader \in Reader
  BY DEF TypeOK
<1>2. CASE Tick \/ BeginCreate
  BY <1>2, BoundsAssumption DEF Tick, BeginCreate, TypeOK, Time
<1>3. ASSUME NEW m \in Machines, Insert(m)
      PROVE  TypeOK'
  <2>1. PICK s \in Statuses :
          rows' = [rows EXCEPT ![m] = [created |-> drawn[m], status |-> s, plan |-> None]]
    BY <1>3 DEF Insert
  <2> DEFINE r == [created |-> drawn[m], status |-> s, plan |-> None]
  <2>2. r \in Row
    BY <1>3 DEF Insert, TypeOK, Row
  <2> HIDE DEF r
  <2>3. rows' \in [Machines -> Row \cup {None}]
    BY <2>1, <2>2 DEF TypeOK, r
  <2>4. reader' \in Reader
    <3>1. reader.there \in SUBSET Machines
      BY <1>1 DEF Reader
    <3> QED BY <1>1, <1>3, <3>1, NotedFields DEF Insert
  <2> QED BY <1>3, <2>3, <2>4 DEF Insert, TypeOK
<1>4. ASSUME NEW m \in Machines, Abandon(m)
      PROVE  TypeOK'
  BY <1>4 DEF Abandon, TypeOK
<1>5. ASSUME NEW m \in Machines, Edit(m)
      PROVE  TypeOK'
  <2>1. PICK s \in Statuses, p \in Plans \cup {None} :
          rows' = [rows EXCEPT ![m] = [[rows[m] EXCEPT !.status = s] EXCEPT !.plan = p]]
    BY <1>5 DEF Edit, TypeOK
  <2> DEFINE r == [[rows[m] EXCEPT !.status = s] EXCEPT !.plan = p]
  <2>2. rows[m] \in Row
    BY <1>5 DEF Edit, Present, TypeOK
  <2>3. r \in Row
    BY <2>2 DEF Row
  <2> HIDE DEF r
  <2>4. rows' \in [Machines -> Row \cup {None}]
    BY <2>1, <2>3 DEF TypeOK, r
  <2> QED BY <1>5, <2>4, BoundsAssumption DEF Edit, TypeOK
<1>6. ASSUME NEW m \in Machines, Erase(m)
      PROVE  TypeOK'
  <2>1. reader' \in Reader
    <3>1. reader.there \ {m} \in SUBSET Machines
      BY <1>1 DEF Reader
    <3> QED BY <1>1, <1>6, <3>1, NotedFields DEF Erase
  <2> QED BY <1>6, <2>1 DEF Erase, TypeOK
<1> QED BY <1>2, <1>3, <1>4, <1>5, <1>6 DEF Write

(* What the machines in the estimate's book are charged are natural numbers, and so are *)
(* the totals. *)
LEMMA ChargesAddUp ==
    ASSUME TypeOK
    PROVE  LET lines == {m \in Machines : reader.book[m] # None} IN
           /\ TotalOf([m \in lines |-> Recurring(reader.book[m])]) \in Nat
           /\ TotalOf([m \in lines |-> Onboarding(reader.book[m])]) \in Nat
<1> DEFINE lines == {m \in Machines : reader.book[m] # None}
           a == [m \in lines |-> Recurring(reader.book[m])]
           b == [m \in lines |-> Onboarding(reader.book[m])]
<1>1. IsFiniteSet(lines)
  BY MachinesAssumption, FS_Subset
<1>2. \A m \in lines : reader.book[m] \in Row
  BY DEF TypeOK, Reader
<1>3. \A m \in lines : Recurring(reader.book[m]) \in Nat /\ Onboarding(reader.book[m]) \in Nat
  BY <1>2, CatalogueAssumption DEF Recurring, Onboarding, Row
<1>4. /\ \A m \in lines : a[m] \in Nat /\ b[m] \in Nat
      /\ DOMAIN a = lines /\ DOMAIN b = lines
  BY <1>3
<1> HIDE DEF lines, a, b
<1>5. Sum(a, lines) \in Nat /\ Sum(b, lines) \in Nat
  BY <1>1, <1>4, SumIsNat
<1>6. TotalOf(a) \in Nat /\ TotalOf(b) \in Nat
  BY <1>4, <1>5, TotalIsSum
<1> QED BY <1>6 DEF a, b, lines

(* The reader keeps them too. *)
LEMMA ReadTypes ==
    ASSUME TypeOK, Read
    PROVE  TypeOK'
<1>1. reader \in Reader
  BY DEF TypeOK
<1>2. UNCHANGED <<rows, drawn, spent, now, edits, period>>
  BY DEF Read, BeginWalk, ListPage, CountAll, TurnPage, BeginEstimate, ReadMachines,
         ReadPlans, Compute, Leave
<1>3. SUFFICES reader' \in Reader
  BY <1>2 DEF TypeOK
<1>4. CASE BeginWalk
  <2>1. PICK n \in PerPage :
          reader' = [reader EXCEPT !.step = "list", !.page = 1, !.limit = Limit(n),
                                   !.there = Present]
    BY <1>4 DEF BeginWalk
  <2>2. Limit(n) \in 0 .. MaxPerPage /\ Present \in SUBSET Machines
    BY LimitInRange DEF Present
  <2>3. reader' \in Reader
    BY <1>1, <2>1, <2>2 DEF Reader, Steps
  <2> QED BY <2>3
<1>5. CASE ListPage
  <2> DEFINE data == Slice(reader.limit, Offset(reader.page, reader.limit))
             f == [m \in Machines |-> IF m \in data THEN reader.listed[m] + 1
                                      ELSE reader.listed[m]]
  <2>1. f \in [Machines -> Nat]
    <3> HIDE DEF data
    <3> QED BY <1>1 DEF Reader
  <2>2. reader' = [reader EXCEPT !.step = "count", !.listed = f]
    BY <1>1, <1>5 DEF ListPage, Reader
  <2> HIDE DEF f
  <2>3. reader' \in Reader
    BY <1>1, <2>1, <2>2 DEF Reader, Steps
  <2> QED BY <2>3
<1>6. CASE CountAll
  <2> DEFINE s == IF reader.page * reader.limit < Cardinality(Present) THEN "turn" ELSE "done"
  <2>1. reader' = [reader EXCEPT !.step = s] /\ s \in Steps
    BY <1>6 DEF CountAll, Steps
  <2> HIDE DEF s
  <2>2. reader' \in Reader
    BY <1>1, <2>1 DEF Reader
  <2> QED BY <2>2
<1>7. CASE TurnPage
  <2> DEFINE next == reader.page + 1
  <2>1. next \in Nat
    BY <1>1 DEF Reader
  <2>2. reader' = [reader EXCEPT !.step = "list", !.page = next]
    BY <1>1, <1>7 DEF TurnPage, Reader
  <2> HIDE DEF next
  <2>3. reader' \in Reader
    BY <1>1, <2>1, <2>2 DEF Reader, Steps
  <2> QED BY <2>3
<1>11. CASE BeginEstimate \/ ReadPlans
  <2>1. PICK s \in Steps : reader' = [reader EXCEPT !.step = s]
    BY <1>11 DEF BeginEstimate, ReadPlans, Steps
  <2>2. reader' \in Reader
    BY <1>1, <2>1 DEF Reader
  <2> QED BY <2>2
<1>8. CASE ReadMachines
  <2>1. reader' \in Reader
    BY <1>1, <1>8 DEF ReadMachines, Reader, Steps, TypeOK
  <2> QED BY <2>1
<1>9. CASE Compute
  <2> DEFINE lines == {m \in Machines : reader.book[m] # None}
             u == TotalOf([m \in lines |-> Recurring(reader.book[m])])
             v == TotalOf([m \in lines |-> Onboarding(reader.book[m])])
  <2>1. reader' = [reader EXCEPT !.step = "done", !.recurring = u, !.onboarding = v]
    BY <1>9 DEF Compute
  <2>2. u \in Nat /\ v \in Nat
    BY ChargesAddUp
  <2> HIDE DEF u, v
  <2>3. reader' \in Reader
    BY <1>1, <2>1, <2>2 DEF Reader, Steps
  <2> QED BY <2>3
<1>10. CASE Leave
  <2>1. reader' \in Reader
    BY <1>1, <1>10, PagesAssumption DEF Leave, Resting, Reader, Steps
  <2> QED BY <2>1
<1> QED
  BY <1>4, <1>5, <1>6, <1>7, <1>8, <1>9, <1>10, <1>11 DEF Read

-----------------------------------------------------------------------------
(* Sets of machines are finite; two that differ by one element at most.    *)
LEMMA OneMore ==
    ASSUME NEW S \in SUBSET Machines, NEW T \in SUBSET Machines, NEW x, T \subseteq S \cup {x}
    PROVE  /\ Cardinality(S) \in Nat /\ Cardinality(T) \in Nat
           /\ Cardinality(T) <= Cardinality(S) + 1
<1>1. IsFiniteSet(S) /\ IsFiniteSet(T)
  BY MachinesAssumption, FS_Subset
<1>2. Cardinality(S) \in Nat /\ Cardinality(T) \in Nat
  BY <1>1, FS_CardinalityType
<1>3. IsFiniteSet(S \cup {x}) /\ Cardinality(S \cup {x}) <= Cardinality(S) + 1
      /\ Cardinality(S \cup {x}) \in Nat
  BY <1>1, <1>2, FS_AddElement
<1>4. Cardinality(T) <= Cardinality(S \cup {x})
  BY <1>3, FS_Subset
<1> QED BY <1>2, <1>3, <1>4

(* Of two sets of machines the larger has more. *)
LEMMA NoMore ==
    ASSUME NEW S \in SUBSET Machines, NEW T \in SUBSET S
    PROVE  /\ Cardinality(S) \in Nat /\ Cardinality(T) \in Nat
           /\ Cardinality(T) <= Cardinality(S)
<1>1. IsFiniteSet(S)
  BY MachinesAssumption, FS_Subset
<1>2. IsFiniteSet(T) /\ Cardinality(T) <= Cardinality(S)
  BY <1>1, FS_Subset
<1> QED BY <1>1, <1>2, FS_CardinalityType

(* The places that the pages cover, in numbers. *)
LEMMA CoveredPlaces ==
    ASSUME NEW page \in Nat, NEW limit \in Nat, page >= 1
    PROVE  /\ page * limit \in Nat
           /\ (page - 1) * limit \in Nat
           /\ (page - 1) * limit + limit = page * limit
           /\ (page + 1 - 1) * limit = page * limit
<1> QED BY SMTT(30)

(* The reader's numbers, and its page's end. *)
LEMMA ReaderNumbers ==
    ASSUME TypeOK
    PROVE  /\ reader.page \in Nat /\ reader.limit \in Nat /\ reader.deleted \in Nat
           /\ reader.created \in Nat
           /\ reader.there \in SUBSET Machines /\ reader.listed \in [Machines -> Nat]
           /\ reader.report \in {"list", "estimate"} /\ reader.step \in Steps
           /\ reader.page >= 1 => Covered \in Nat
<1>1. reader \in Reader
  BY DEF TypeOK
<1>2. /\ reader.page \in Nat /\ reader.limit \in Nat /\ reader.deleted \in Nat
      /\ reader.created \in Nat
      /\ reader.there \in SUBSET Machines /\ reader.listed \in [Machines -> Nat]
      /\ reader.report \in {"list", "estimate"} /\ reader.step \in Steps
  BY <1>1, PagesAssumption DEF Reader
<1> QED BY <1>2, CoveredPlaces DEF Covered

\* The row stays, at its place in the order.
RowStays(k) == rows'[k] # None /\ rows'[k].created = rows[k].created

(* If all rows stay but one, a row moves up by one place at most. *)
LEMMA RankFalls ==
    ASSUME TypeOK, NEW gone, \A k \in Present \ {gone} : RowStays(k),
           NEW n \in Present \ {gone}
    PROVE  Rank(n)' \in Nat /\ Rank(n) <= Rank(n)' + 1
<1>1. Below(n) \in SUBSET Machines /\ Below(n)' \in SUBSET Machines
  BY DEF Below, Present
<1>2. Below(n) \subseteq Below(n)' \cup {gone}
  BY DEF Below, Present, Before, RowStays
<1> QED BY <1>1, <1>2, OneMore DEF Rank

(* If all rows stay, none moves up. *)
LEMMA RankGrows ==
    ASSUME TypeOK, \A k \in Present : RowStays(k), NEW n \in Present
    PROVE  Rank(n)' \in Nat /\ Rank(n) <= Rank(n)'
<1>1. Below(n)' \in SUBSET Machines
  BY DEF Below, Present
<1>2. Below(n) \in SUBSET Below(n)'
  BY DEF Below, Present, Before, RowStays
<1> QED BY <1>1, <1>2, NoMore DEF Rank

(* An insertion adds nothing to what a walk has missed. *)
LEMMA InsertMisses ==
    ASSUME TypeOK, TypeOK', WalkInv, NEW m \in Machines, Insert(m), rows[m] = None,
           reader.report = "list"
    PROVE  WalkInv'
<1>1. reader \in Reader
  BY DEF TypeOK
<1>2. /\ reader'.report = reader.report /\ reader'.step = reader.step
      /\ reader'.page = reader.page /\ reader'.limit = reader.limit
      /\ reader'.listed = reader.listed
      /\ Walking => reader'.there = reader.there /\ reader'.deleted = reader.deleted
      /\ ~Walking => reader' = reader
  <2>1. reader' = Noted(reader.there, 0, 1) /\ reader.there \in SUBSET Machines
        /\ reader.deleted + 0 = reader.deleted
    BY <1>1 DEF Insert, Reader
  <2> QED BY <1>1, <2>1, NotedFields
<1>3. \A k \in Present : RowStays(k)
  BY DEF Insert, Present, RowStays, TypeOK
<1>4. Present \subseteq Present'
  BY <1>3 DEF Present, RowStays
<1>5. CASE ~Walking
  BY <1>2, <1>5 DEF WalkInv, Walking, Unlisted
<1>6. CASE Walking
  <2>1. /\ reader.page >= 1 /\ reader.there \subseteq Present
        /\ Cardinality(Missed(Covered)) <= reader.deleted
        /\ Covered \in Nat /\ Covered' = Covered
    BY <1>2, <1>6, ReaderNumbers DEF WalkInv, Covered
  <2> DEFINE K == Covered
  <2>2. Missed(K)' \in SUBSET Missed(K)
    <3>1. ASSUME NEW n \in Missed(K)'
          PROVE  n \in Missed(K)
      <4>1. n \in Unlisted /\ n \in Present
        BY <1>2, <1>6, <2>1 DEF Missed, Unlisted
      <4>2. Rank(n) \in Nat /\ Rank(n)' \in Nat /\ Rank(n) <= Rank(n)' /\ Rank(n)' < K
        BY <1>3, <2>1, <4>1, RankGrows, FinitelyMany DEF Missed
      <4> QED BY <2>1, <4>1, <4>2 DEF Missed
    <3> QED BY <3>1
  <2>3. Missed(K) \in SUBSET Machines
    BY ReaderNumbers DEF Missed, Unlisted
  <2>4. Cardinality(Missed(K)') <= reader.deleted
    BY <2>1, <2>2, <2>3, NoMore, ReaderNumbers
  <2> QED BY <1>2, <1>4, <1>6, <2>1, <2>4 DEF WalkInv, Walking
<1> QED BY <1>5, <1>6

(* A deletion adds one machine at most, and is counted. *)
LEMMA EraseMisses ==
    ASSUME TypeOK, TypeOK', WalkInv, NEW m \in Machines, Erase(m),
           reader.report = "list"
    PROVE  WalkInv'
<1>1. reader \in Reader
  BY DEF TypeOK
<1>2. /\ reader'.report = reader.report /\ reader'.step = reader.step
      /\ reader'.page = reader.page /\ reader'.limit = reader.limit
      /\ reader'.listed = reader.listed
      /\ Walking => reader'.there = reader.there \ {m} /\ reader'.deleted = reader.deleted + 1
      /\ ~Walking => reader' = reader
  <2>1. reader' = Noted(reader.there \ {m}, 1, 0) /\ reader.there \ {m} \in SUBSET Machines
    BY <1>1 DEF Erase, Reader
  <2> QED BY <1>1, <2>1, NotedFields
<1>3. \A k \in Present \ {m} : RowStays(k)
  BY DEF Erase, Present, RowStays, TypeOK
<1>4. Present \ {m} \subseteq Present'
  BY <1>3 DEF Present, RowStays
<1>5. CASE ~Walking
  BY <1>2, <1>5 DEF WalkInv, Walking, Unlisted
<1>6. CASE Walking
  <2>1. /\ reader.page >= 1 /\ reader.there \subseteq Present
        /\ Cardinality(Missed(Covered)) <= reader.deleted
        /\ Covered \in Nat /\ Covered' = Covered
    BY <1>2, <1>6, ReaderNumbers DEF WalkInv, Covered
  <2> DEFINE K == Covered
             Edge == {n \in Present : Rank(n) = K}
  <2>2. PICK e : Edge \subseteq {e}
    BY RanksDiffer
  <2>3. Missed(K)' \subseteq Missed(K) \cup {e}
    <3>1. ASSUME NEW n \in Missed(K)'
          PROVE  n \in Missed(K) \cup {e}
      <4>1. n \in Unlisted /\ n \in Present \ {m}
        BY <1>2, <1>6, <2>1 DEF Missed, Unlisted
      <4>2. Rank(n) \in Nat /\ Rank(n)' \in Nat /\ Rank(n) <= Rank(n)' + 1 /\ Rank(n)' < K
        BY <1>3, <2>1, <4>1, RankFalls, FinitelyMany DEF Missed
      <4>3. CASE Rank(n) = K
        BY <2>2, <4>1, <4>3
      <4>4. CASE Rank(n) # K
        BY <2>1, <4>1, <4>2, <4>4 DEF Missed
      <4> QED BY <4>3, <4>4
    <3> QED BY <3>1
  <2>4. Missed(K) \in SUBSET Machines /\ Missed(K)' \in SUBSET Machines
    <3>1. reader'.there \in SUBSET Machines
      BY <1>2, <1>6, ReaderNumbers
    <3> QED BY <3>1, ReaderNumbers DEF Missed, Unlisted
  <2>5. Cardinality(Missed(K)') <= reader.deleted + 1
    <3>1. reader.deleted \in Nat
      BY ReaderNumbers
    <3> QED BY <2>1, <2>3, <2>4, <3>1, OneMore
  <2> QED BY <1>2, <1>4, <1>6, <2>1, <2>5 DEF WalkInv, Walking
<1> QED BY <1>5, <1>6

(* A walk begins with nothing covered. *)
LEMMA BeginMisses ==
    ASSUME TypeOK, BeginWalk
    PROVE  WalkInv'
<1>1. reader \in Reader
  BY DEF TypeOK
<1>2. PICK n \in PerPage :
        reader' = [reader EXCEPT !.step = "list", !.page = 1, !.limit = Limit(n),
                                 !.there = Present]
  BY DEF BeginWalk
<1>3. Limit(n) \in Nat
  BY LimitInRange, PagesAssumption
<1>4. /\ reader'.step = "list" /\ reader'.page = 1 /\ reader'.limit = Limit(n)
      /\ reader'.there = Present /\ reader'.deleted = reader.deleted /\ rows' = rows
  BY <1>1, <1>2 DEF BeginWalk, Reader
<1>5. Covered' = 0
  BY <1>3, <1>4, CoveredPlaces DEF Covered
<1>6. \A k \in Machines : Rank(k)' \in Nat
  <2>1. \A k \in Machines : Below(k)' \in SUBSET Machines
    BY DEF Below, Present
  <2> QED BY <2>1, NoMore DEF Rank
<1>7. Missed(Covered)' = {}
  BY <1>4, <1>5, <1>6 DEF Missed, Unlisted, Present
<1>8. Cardinality(Missed(Covered)') = 0
  BY <1>7, FS_EmptySet
<1> QED BY <1>4, <1>8, ReaderNumbers DEF WalkInv, Walking, Present

(* A page shows what holds the places it covers. *)
LEMMA PageMisses ==
    ASSUME TypeOK, WalkInv, ListPage, reader.report = "list"
    PROVE  WalkInv'
<1> DEFINE data == Slice(reader.limit, Offset(reader.page, reader.limit))
           f == [k \in Machines |-> IF k \in data THEN reader.listed[k] + 1
                                    ELSE reader.listed[k]]
           K == (reader.page - 1) * reader.limit
<1>1. reader \in Reader
  BY DEF TypeOK
<1>2. /\ reader.step = "list" /\ reader.page \in Nat /\ reader.limit \in Nat
      /\ reader.page >= 1 /\ reader.there \subseteq Present /\ reader.deleted \in Nat
      /\ Cardinality(Missed(K)) <= reader.deleted
      /\ K \in Nat /\ reader.page * reader.limit = K + reader.limit
      /\ reader.listed \in [Machines -> Nat]
  BY ReaderNumbers, CoveredPlaces DEF WalkInv, ListPage, Walking, Covered
<1>3. reader' = [reader EXCEPT !.step = "count", !.listed = f] /\ rows' = rows
  BY <1>1 DEF ListPage, Reader
<1>4. /\ reader'.step = "count" /\ reader'.listed = f /\ reader'.page = reader.page
      /\ reader'.limit = reader.limit /\ reader'.there = reader.there
      /\ reader'.deleted = reader.deleted
  <2> HIDE DEF f
  <2> QED BY <1>1, <1>3 DEF Reader
<1>5. Covered' = K + reader.limit
  BY <1>2, <1>4 DEF Covered
<1>6. \A k : Rank(k)' = Rank(k) /\ (k \in Present' <=> k \in Present)
  BY <1>3 DEF Rank, Below, Before, Present
<1>7. Missed(Covered)' \in SUBSET Missed(K)
  <2>1. ASSUME NEW k \in Missed(Covered)'
        PROVE  k \in Missed(K)
    <3>1. k \in reader.there /\ k \in Present /\ k \in Machines /\ f[k] = 0
          /\ Rank(k) < K + reader.limit
      BY <1>2, <1>4, <1>5, <1>6, <2>1 DEF Missed, Unlisted, Present
    <3>2. k \notin data /\ reader.listed[k] = 0
      BY <1>2, <3>1
    <3>3. Rank(k) \in Nat /\ Rank(k) \notin K .. K + reader.limit - 1
      BY <3>1, <3>2, FinitelyMany DEF Slice, Offset, Rank, Below
    <3> QED BY <1>2, <3>1, <3>2, <3>3 DEF Missed, Unlisted
  <2> QED BY <2>1
<1>8. Cardinality(Missed(Covered)') <= reader.deleted
  <2>1. Missed(K) \in SUBSET Machines
    BY ReaderNumbers DEF Missed, Unlisted
  <2> HIDE DEF K
  <2> QED BY <1>2, <1>7, <2>1, NoMore
<1> QED BY <1>2, <1>4, <1>6, <1>8 DEF WalkInv, Walking

(* The walk ends when the pages cover every place. *)
LEMMA CountMisses ==
    ASSUME TypeOK, WalkInv, CountAll, reader.report = "list"
    PROVE  WalkInv'
<1> DEFINE K == reader.page * reader.limit
           s == IF K < Cardinality(Present) THEN "turn" ELSE "done"
<1>1. reader \in Reader
  BY DEF TypeOK
<1>2. /\ reader.step = "count" /\ reader.page \in Nat /\ reader.page >= 1
      /\ reader.there \subseteq Present /\ reader.deleted \in Nat
      /\ Cardinality(Missed(K)) <= reader.deleted /\ K \in Nat
  BY ReaderNumbers, CoveredPlaces DEF WalkInv, CountAll, Walking, Covered
<1>3. reader' = [reader EXCEPT !.step = s] /\ rows' = rows
  BY DEF CountAll
<1>4. /\ reader'.step = s /\ reader'.listed = reader.listed /\ reader'.page = reader.page
      /\ reader'.limit = reader.limit /\ reader'.there = reader.there
      /\ reader'.deleted = reader.deleted
  <2> HIDE DEF s
  <2> QED BY <1>1, <1>3 DEF Reader
<1>5. /\ Covered' = K /\ Unlisted' = Unlisted
      /\ \A k : Rank(k)' = Rank(k) /\ (k \in Present' <=> k \in Present)
  BY <1>3, <1>4 DEF Covered, Unlisted, Rank, Below, Before, Present
<1>6. Missed(Covered)' = Missed(K)
  BY <1>5 DEF Missed
<1>7. s = "done" => Unlisted = Missed(K)
  <2>1. ASSUME s = "done", NEW k \in Unlisted
        PROVE  Rank(k) < K
    <3>1. k \in Present /\ Rank(k) \in Nat /\ Cardinality(Present) \in Nat
      BY <1>2, FinitelyMany, FS_CardinalityType DEF Unlisted
    <3>2. Rank(k) < Cardinality(Present)
      BY <3>1, RankInList
    <3> QED BY <1>2, <2>1, <3>1, <3>2
  <2> QED BY <2>1 DEF Missed
<1> HIDE DEF K
<1> QED BY <1>2, <1>4, <1>5, <1>6, <1>7 DEF WalkInv, Walking

(* Turning the page covers no more than before. *)
LEMMA TurnMisses ==
    ASSUME TypeOK, WalkInv, TurnPage, reader.report = "list"
    PROVE  WalkInv'
<1> DEFINE K == reader.page * reader.limit
           next == reader.page + 1
<1>1. reader \in Reader
  BY DEF TypeOK
<1>2. /\ reader.step = "turn" /\ reader.page \in Nat /\ reader.page >= 1
      /\ reader.limit \in Nat /\ reader.there \subseteq Present
      /\ Cardinality(Missed(K)) <= reader.deleted
  BY ReaderNumbers DEF WalkInv, TurnPage, Walking, Covered
<1>3. reader' = [reader EXCEPT !.step = "list", !.page = next] /\ rows' = rows
  BY <1>1 DEF TurnPage, Reader
<1>4. /\ reader'.step = "list" /\ reader'.listed = reader.listed /\ reader'.page = next
      /\ reader'.limit = reader.limit /\ reader'.there = reader.there
      /\ reader'.deleted = reader.deleted
  <2> HIDE DEF next
  <2> QED BY <1>1, <1>3 DEF Reader
<1>5. Covered' = K
  BY <1>2, <1>4, CoveredPlaces DEF Covered
<1>6. /\ Unlisted' = Unlisted
      /\ \A k : Rank(k)' = Rank(k) /\ (k \in Present' <=> k \in Present)
  BY <1>3, <1>4 DEF Unlisted, Rank, Below, Before, Present
<1>7. Missed(Covered)' = Missed(K)
  BY <1>5, <1>6 DEF Missed
<1>8. next >= 1
  BY <1>2
<1> HIDE DEF K, next
<1> QED BY <1>2, <1>4, <1>6, <1>7, <1>8 DEF WalkInv, Walking

(* Every step keeps the ids of creates under way to themselves. *)
LEMMA NextDrawn ==
    ASSUME TypeOK, DrawnOnce, Next
    PROVE  DrawnOnce'
<1>1. CASE Read
  BY <1>1 DEF Read, BeginWalk, ListPage, CountAll, TurnPage, BeginEstimate, ReadMachines,
              ReadPlans, Compute, Leave, DrawnOnce
<1>2. CASE Tick \/ BeginCreate
  BY <1>2 DEF Tick, BeginCreate, DrawnOnce, TypeOK
<1>3. ASSUME NEW m \in Machines, Insert(m) \/ Abandon(m) \/ Erase(m)
      PROVE  DrawnOnce'
  BY <1>3 DEF Insert, Abandon, Erase, DrawnOnce, TypeOK
<1>4. ASSUME NEW m \in Machines, Edit(m)
      PROVE  DrawnOnce'
  BY <1>4 DEF Edit, Present, DrawnOnce, TypeOK
<1> QED BY <1>1, <1>2, <1>3, <1>4 DEF Next, Write

(* A reader stays with its report. *)
LEMMA ReportStays ==
    ASSUME TypeOK, Next
    PROVE  reader'.report = reader.report
<1>0. reader \in Reader
  BY DEF TypeOK
<1>1. CASE Write
  BY <1>0, <1>1 DEF Write, Tick, BeginCreate, Insert, Abandon, Edit, Erase, Noted, Reader
<1>2. CASE BeginWalk \/ CountAll \/ TurnPage \/ BeginEstimate \/ ReadMachines \/ ReadPlans
  BY <1>0, <1>2 DEF BeginWalk, CountAll, TurnPage, BeginEstimate, ReadMachines, ReadPlans,
                    Reader
<1>3. CASE ListPage
  <2>1. PICK f : reader' = [reader EXCEPT !.step = "count", !.listed = f]
    BY <1>0, <1>3 DEF ListPage, Reader
  <2> QED BY <1>0, <2>1 DEF Reader
<1>4. CASE Compute
  <2>1. PICK u, v : reader' = [reader EXCEPT !.step = "done", !.recurring = u, !.onboarding = v]
    BY <1>4 DEF Compute
  <2> QED BY <1>0, <2>1 DEF Reader
<1>5. CASE Leave
  BY <1>5 DEF Leave, Resting
<1> QED BY <1>1, <1>2, <1>3, <1>4, <1>5 DEF Next, Read

(* Every step keeps the walk's account of what it has missed. *)
LEMMA NextWalk ==
    ASSUME TypeOK, TypeOK', DrawnOnce, WalkInv, Next
    PROVE  WalkInv'
<1>0. reader \in Reader
  BY DEF TypeOK
<1>1. ASSUME rows' = rows, reader' = reader
      PROVE  WalkInv'
  BY <1>1 DEF WalkInv, Walking, Covered, Missed, Unlisted, Rank, Below, Before, Present
<1>2. CASE Tick \/ BeginCreate
  BY <1>1, <1>2 DEF Tick, BeginCreate
<1>3. reader'.report = reader.report
  BY ReportStays
<1>4. CASE reader.report # "list"
  BY <1>3, <1>4 DEF WalkInv
<1>5. ASSUME reader.report = "list", NEW m \in Machines, Insert(m) \/ Abandon(m) \/ Edit(m) \/ Erase(m)
      PROVE  WalkInv'
  BY <1>1, <1>5, InsertMisses, EraseMisses DEF Insert, Abandon, Edit, DrawnOnce
<1>6. CASE reader.report = "list" /\ Read
  <2>1. CASE BeginWalk \/ ListPage \/ CountAll \/ TurnPage
    BY <1>6, <2>1, BeginMisses, PageMisses, CountMisses, TurnMisses
  <2>2. ~(BeginEstimate \/ ReadMachines \/ ReadPlans \/ Compute)
    BY <1>6 DEF BeginEstimate, ReadMachines, ReadPlans, Compute, WalkInv
  <2>3. CASE Leave
    <3>1. reader'.step = "idle"
      BY <2>3 DEF Leave, Resting
    <3> QED BY <3>1 DEF WalkInv, Walking
  <2> QED BY <1>6, <2>1, <2>2, <2>3 DEF Read
<1> QED BY <1>2, <1>4, <1>5, <1>6 DEF Next, Write

-----------------------------------------------------------------------------
(***************************************************************************)
(* A machine that was listed already may be shown again as long as its     *)
(* place is not covered.  Those that may be, and those that have been, are *)
(* no more than the rows inserted during the walk: an insertion moves one  *)
(* listed machine out of the covered places at most, a deletion moves none *)
(* out, and a page shows again only machines that it then covers.          *)
(***************************************************************************)
Repeats == [m \in Machines |-> AtLeast(reader.listed[m] - 1, 0)]

Pending(k) == {m \in Present : reader.listed[m] > 0 /\ Rank(m) >= k}

RepeatInv ==
    reader.report = "list" =>
        /\ \A m \in Machines : reader.listed[m] > 0 => m \in spent /\ drawn[m] = None
        /\ reader.step = "idle" => \A m \in Machines : reader.listed[m] = 0
        /\ Walking => Sum(Repeats, Machines) + Cardinality(Pending(Covered)) <= reader.created
        /\ reader.step = "done" => Sum(Repeats, Machines) <= reader.created

\* The row was there, at its place in the order.
RowWas(k) == rows[k] # None /\ rows'[k].created = rows[k].created

(* If all rows but one were there, a row moves down by one place at most. *)
LEMMA RankRises ==
    ASSUME TypeOK, NEW new, \A k \in Present' \ {new} : RowWas(k),
           NEW n \in Present' \ {new}
    PROVE  Rank(n) \in Nat /\ Rank(n)' \in Nat /\ Rank(n)' <= Rank(n) + 1
<1>1. Below(n) \in SUBSET Machines /\ Below(n)' \in SUBSET Machines
  BY DEF Below, Present
<1>2. Below(n)' \subseteq Below(n) \cup {new}
  BY DEF Below, Present, Before, RowWas
<1> QED BY <1>1, <1>2, OneMore DEF Rank

(* If all rows were there, none moves down. *)
LEMMA RankStays ==
    ASSUME TypeOK, \A k \in Present' : RowWas(k), NEW n \in Present'
    PROVE  Rank(n) \in Nat /\ Rank(n)' \in Nat /\ Rank(n)' <= Rank(n)
<1>1. Below(n) \in SUBSET Machines
  BY DEF Below, Present
<1>2. Below(n)' \in SUBSET Below(n)
  BY DEF Below, Present, Before, RowWas
<1> QED BY <1>1, <1>2, NoMore DEF Rank

(* How often machines were shown again adds up to a natural number. *)
LEMMA RepeatsAddUp ==
    ASSUME TypeOK
    PROVE  /\ \A m \in Machines : Repeats[m] \in Nat
           /\ Sum(Repeats, Machines) \in Nat
<1>1. \A m \in Machines : Repeats[m] \in Nat
  BY ReaderNumbers DEF Repeats, AtLeast
<1> QED BY <1>1, MachinesAssumption, SumIsNat

(* An insertion adds one machine at most that may be shown again, and is counted. *)
LEMMA InsertRepeats ==
    ASSUME TypeOK, TypeOK', WalkInv, RepeatInv, NEW m \in Machines, Insert(m),
           rows[m] = None, reader.report = "list"
    PROVE  RepeatInv'
<1>1. reader \in Reader
  BY DEF TypeOK
<1>2. /\ reader'.report = reader.report /\ reader'.step = reader.step
      /\ reader'.page = reader.page /\ reader'.limit = reader.limit
      /\ reader'.listed = reader.listed
      /\ Walking => reader'.created = reader.created + 1
      /\ ~Walking => reader' = reader
  <2>1. reader' = Noted(reader.there, 0, 1) /\ reader.there \in SUBSET Machines
    BY <1>1 DEF Insert, Reader
  <2> QED BY <1>1, <2>1, NotedFields
<1>3. Repeats' = Repeats
  BY <1>2 DEF Repeats
<1>4. /\ \A k \in Machines : reader'.listed[k] > 0 => k \in spent' /\ drawn'[k] = None
      /\ reader'.step = "idle" => \A k \in Machines : reader'.listed[k] = 0
  BY <1>2 DEF RepeatInv, Insert, TypeOK
<1>5. CASE ~Walking
  BY <1>2, <1>3, <1>4, <1>5 DEF RepeatInv, Walking
<1>6. CASE Walking
  <2>1. /\ reader.page >= 1
        /\ Sum(Repeats, Machines) + Cardinality(Pending(Covered)) <= reader.created
        /\ Covered \in Nat /\ Covered' = Covered
    BY <1>2, <1>6, ReaderNumbers DEF WalkInv, RepeatInv, Covered
  <2> DEFINE K == Covered
             Edge == {n \in Present : Rank(n) = K - 1}
  <2>2. PICK e : Edge \subseteq {e}
    BY RanksDiffer
  <2>3. \A k \in Present' \ {m} : RowWas(k)
    BY DEF Insert, Present, RowWas, TypeOK
  <2>4. ~(reader'.listed[m] > 0)
    BY <1>2 DEF Insert, RepeatInv
  <2>5. Pending(K)' \subseteq Pending(K) \cup {e}
    <3>1. ASSUME NEW n \in Pending(K)'
          PROVE  n \in Pending(K) \cup {e}
      <4>1. n \in Present' \ {m} /\ n \in Present /\ reader.listed[n] > 0 /\ Rank(n)' >= K
        BY <1>2, <2>1, <2>3, <2>4 DEF Pending, Present, RowWas
      <4>2. Rank(n) \in Nat /\ Rank(n)' \in Nat /\ Rank(n)' <= Rank(n) + 1
        BY <2>3, <4>1, RankRises
      <4>3. CASE Rank(n) = K - 1
        BY <2>2, <4>1, <4>3
      <4>4. CASE Rank(n) # K - 1
        <5>1. Rank(n) >= K
          BY <2>1, <4>1, <4>2, <4>4
        <5> QED BY <4>1, <5>1 DEF Pending
      <4> QED BY <4>3, <4>4
    <3> QED BY <3>1
  <2>6. Pending(K) \in SUBSET Machines /\ Pending(K)' \in SUBSET Machines
    BY DEF Pending, Present
  <2>7. /\ Cardinality(Pending(K)) \in Nat /\ Cardinality(Pending(K)') \in Nat
        /\ Cardinality(Pending(K)') <= Cardinality(Pending(K)) + 1
    BY <2>5, <2>6, OneMore
  <2>8. Sum(Repeats, Machines) \in Nat /\ reader.created \in Nat
    BY RepeatsAddUp, ReaderNumbers
  <2>9. Sum(Repeats, Machines) + Cardinality(Pending(K)') <= reader.created + 1
    BY <2>1, <2>7, <2>8
  <2>10. Sum(Repeats, Machines)' = Sum(Repeats, Machines)
    BY <1>3
  <2>11. Pending(Covered)' = Pending(K)'
    BY <2>1
  <2> QED BY <1>2, <1>4, <1>6, <2>9, <2>10, <2>11 DEF RepeatInv, Walking
<1> QED BY <1>5, <1>6

(* A deletion adds none. *)
LEMMA EraseRepeats ==
    ASSUME TypeOK, TypeOK', WalkInv, RepeatInv, NEW m \in Machines, Erase(m),
           reader.report = "list"
    PROVE  RepeatInv'
<1>1. reader \in Reader
  BY DEF TypeOK
<1>2. /\ reader'.report = reader.report /\ reader'.step = reader.step
      /\ reader'.page = reader.page /\ reader'.limit = reader.limit
      /\ reader'.listed = reader.listed
      /\ Walking => reader'.created = reader.created
      /\ ~Walking => reader' = reader
  <2>1. reader' = Noted(reader.there \ {m}, 1, 0) /\ reader.there \ {m} \in SUBSET Machines
        /\ reader.created + 0 = reader.created
    BY <1>1 DEF Erase, Reader
  <2> QED BY <1>1, <2>1, NotedFields
<1>3. Repeats' = Repeats
  BY <1>2 DEF Repeats
<1>4. /\ \A k \in Machines : reader'.listed[k] > 0 => k \in spent' /\ drawn'[k] = None
      /\ reader'.step = "idle" => \A k \in Machines : reader'.listed[k] = 0
  BY <1>2 DEF RepeatInv, Erase
<1>5. CASE ~Walking
  BY <1>2, <1>3, <1>4, <1>5 DEF RepeatInv, Walking
<1>6. CASE Walking
  <2>1. /\ reader.page >= 1
        /\ Sum(Repeats, Machines) + Cardinality(Pending(Covered)) <= reader.created
        /\ Covered \in Nat /\ Covered' = Covered
    BY <1>2, <1>6, ReaderNumbers DEF WalkInv, RepeatInv, Covered
  <2> DEFINE K == Covered
  <2>2. \A k \in Present' : RowWas(k)
    BY DEF Erase, Present, RowWas, TypeOK
  <2>3. Pending(K)' \in SUBSET Pending(K)
    <3>1. ASSUME NEW n \in Pending(K)'
          PROVE  n \in Pending(K)
      <4>1. n \in Present' /\ n \in Present /\ reader.listed[n] > 0 /\ Rank(n)' >= K
        BY <1>2, <2>1, <2>2 DEF Pending, Present, RowWas
      <4>2. Rank(n) \in Nat /\ Rank(n)' \in Nat /\ Rank(n)' <= Rank(n)
        BY <2>2, <4>1, RankStays
      <4>3. Rank(n) >= K
        BY <2>1, <4>1, <4>2
      <4> QED BY <4>1, <4>3 DEF Pending
    <3> QED BY <3>1
  <2>4. Pending(K) \in SUBSET Machines
    BY DEF Pending, Present
  <2>5. /\ Cardinality(Pending(K)) \in Nat /\ Cardinality(Pending(K)') \in Nat
        /\ Cardinality(Pending(K)') <= Cardinality(Pending(K))
    BY <2>3, <2>4, NoMore
  <2>6. Sum(Repeats, Machines) \in Nat /\ reader.created \in Nat
    BY RepeatsAddUp, ReaderNumbers
  <2>7. Sum(Repeats, Machines) + Cardinality(Pending(K)') <= reader.created
    BY <2>1, <2>5, <2>6
  <2>8. Sum(Repeats, Machines)' = Sum(Repeats, Machines)
    BY <1>3
  <2>9. Pending(Covered)' = Pending(K)'
    BY <2>1
  <2> QED BY <1>2, <1>4, <1>6, <2>7, <2>8, <2>9 DEF RepeatInv, Walking
<1> QED BY <1>5, <1>6

(* A walk begins with nothing listed. *)
LEMMA BeginRepeats ==
    ASSUME TypeOK, RepeatInv, BeginWalk
    PROVE  RepeatInv'
<1>1. reader \in Reader
  BY DEF TypeOK
<1>2. PICK n \in PerPage :
        reader' = [reader EXCEPT !.step = "list", !.page = 1, !.limit = Limit(n),
                                 !.there = Present]
  BY DEF BeginWalk
<1>3. /\ reader'.step = "list" /\ reader'.listed = reader.listed
      /\ reader'.created = reader.created /\ spent' = spent /\ drawn' = drawn
  BY <1>1, <1>2 DEF BeginWalk, Reader
<1>4. \A m \in Machines : reader.listed[m] = 0
  BY DEF BeginWalk, RepeatInv
<1>5. \A m \in Machines : Repeats'[m] = 0
  BY <1>3, <1>4 DEF Repeats, AtLeast
<1>6. Sum(Repeats', Machines) = 0
  BY <1>5, MachinesAssumption, SumOfZeros
<1>7. Pending(Covered)' = {}
  BY <1>3, <1>4 DEF Pending, Present
<1>8. Cardinality(Pending(Covered)') = 0
  BY <1>7, FS_EmptySet
<1> QED BY <1>3, <1>4, <1>6, <1>8, ReaderNumbers DEF RepeatInv, Walking

(* A page shows again machines that might have been, and covers them. *)
LEMMA PageRepeats ==
    ASSUME TypeOK, TypeOK', DrawnOnce, WalkInv, RepeatInv, ListPage, reader.report = "list"
    PROVE  RepeatInv'
<1> DEFINE data == Slice(reader.limit, Offset(reader.page, reader.limit))
           f == [k \in Machines |-> IF k \in data THEN reader.listed[k] + 1
                                    ELSE reader.listed[k]]
           K == (reader.page - 1) * reader.limit
           X == {k \in data : reader.listed[k] > 0}
<1>1. reader \in Reader
  BY DEF TypeOK
<1>2. /\ reader.step = "list" /\ reader.page \in Nat /\ reader.limit \in Nat
      /\ reader.page >= 1 /\ reader.created \in Nat
      /\ Sum(Repeats, Machines) + Cardinality(Pending(K)) <= reader.created
      /\ K \in Nat /\ reader.page * reader.limit = K + reader.limit
      /\ reader.listed \in [Machines -> Nat]
  BY ReaderNumbers, CoveredPlaces DEF WalkInv, RepeatInv, ListPage, Walking, Covered
<1>3. reader' = [reader EXCEPT !.step = "count", !.listed = f] /\ rows' = rows
      /\ spent' = spent /\ drawn' = drawn
  BY <1>1 DEF ListPage, Reader
<1>4. /\ reader'.step = "count" /\ reader'.listed = f /\ reader'.page = reader.page
      /\ reader'.limit = reader.limit /\ reader'.created = reader.created
  <2> HIDE DEF f
  <2> QED BY <1>1, <1>3 DEF Reader
<1>5. Covered' = K + reader.limit
  BY <1>2, <1>4 DEF Covered
<1>6. \A k : Rank(k)' = Rank(k) /\ (k \in Present' <=> k \in Present)
  BY <1>3 DEF Rank, Below, Before, Present
<1>7. /\ data \in SUBSET Present
      /\ \A k \in data : Rank(k) \in Nat /\ Rank(k) >= K /\ Rank(k) < K + reader.limit
  BY <1>2, FinitelyMany DEF Slice, Offset, Rank, Below
<1>8. \A k \in Machines : f[k] > 0 => k \in spent /\ drawn[k] = None
  <2> HIDE DEF data
  <2> QED BY <1>2, <1>7 DEF RepeatInv, DrawnOnce, Present
<1>9. Sum(Repeats', Machines) = Sum(Repeats, Machines) + Cardinality(X)
  <2>1. X \in SUBSET Machines
    BY <1>7 DEF Present
  <2>2. \A k \in Machines : Repeats'[k] = IF k \in X THEN Repeats[k] + 1 ELSE Repeats[k]
    <3>1. \A k \in Machines : /\ Repeats'[k] = AtLeast(f[k] - 1, 0)
                              /\ Repeats[k] = AtLeast(reader.listed[k] - 1, 0)
                              /\ reader.listed[k] \in Nat
                              /\ k \in data => f[k] = reader.listed[k] + 1
                              /\ k \notin data => f[k] = reader.listed[k]
                              /\ k \in X <=> (k \in data /\ reader.listed[k] > 0)
      BY <1>2, <1>4 DEF Repeats
    <3> HIDE DEF f, X, data
    <3> QED BY <3>1 DEF AtLeast
  <2>3. \A k \in Machines : Repeats[k] \in Int
    BY RepeatsAddUp
  <2> DEFINE a == Repeats
             b == Repeats'
  <2>4. IsFiniteSet(Machines)
    BY MachinesAssumption
  <2> HIDE DEF X, a, b
  <2>5. Sum(b, Machines) = Sum(a, Machines) + Cardinality(X)
    <3>1. /\ \A k \in Machines : a[k] \in Int
          /\ \A k \in Machines : b[k] = IF k \in X THEN a[k] + 1 ELSE a[k]
      BY <2>2, <2>3 DEF a, b
    <3> QED BY <2>1, <2>4, <3>1, SumBump
  <2> QED BY <2>5 DEF a, b
<1>10. Cardinality(X) + Cardinality(Pending(Covered)') <= Cardinality(Pending(K))
       /\ Cardinality(X) \in Nat /\ Cardinality(Pending(Covered)') \in Nat
       /\ Cardinality(Pending(K)) \in Nat
  <2> DEFINE Y == Pending(Covered)'
             P == Pending(K)
  <2>1. X \subseteq P
    BY <1>7 DEF Pending
  <2>2. \A k \in Y : k \in Present /\ Rank(k) \in Nat /\ Rank(k) >= K + reader.limit /\ f[k] > 0
    BY <1>4, <1>5, <1>6, FinitelyMany DEF Pending
  <2>3. Y \subseteq P /\ Y \cap X = {}
    <3>1. ASSUME NEW k \in Y
          PROVE  k \in P /\ k \notin data
      <4>1. k \in Present /\ Rank(k) \in Nat /\ Rank(k) >= K + reader.limit /\ f[k] > 0
        BY <2>2, <3>1
      <4>2. k \notin data /\ Rank(k) >= K
        <5> HIDE DEF data, K, f
        <5> QED BY <1>2, <1>7, <4>1
      <4>3. f[k] = reader.listed[k]
        <5>1. k \in Machines
          BY <4>1 DEF Present
        <5> HIDE DEF data
        <5> QED BY <4>2, <5>1
      <4> QED BY <4>1, <4>2, <4>3 DEF Pending
    <3> QED BY <3>1
  <2>4. IsFiniteSet(P)
    BY FinitelyMany, FS_Subset DEF Pending
  <2> HIDE DEF X, Y, P
  <2>5. IsFiniteSet(X) /\ IsFiniteSet(Y) /\ X \cup Y \in SUBSET P
    BY <2>1, <2>3, <2>4, FS_Subset
  <2>6. Cardinality(X \cup Y) = Cardinality(X) + Cardinality(Y)
    <3>1. Cardinality(X \cap Y) = 0
      BY <2>3, FS_EmptySet
    <3>2. Cardinality(X) \in Nat /\ Cardinality(Y) \in Nat
      BY <2>5, FS_CardinalityType
    <3>3. Cardinality(X \cup Y) = Cardinality(X) + Cardinality(Y) - Cardinality(X \cap Y)
      BY <2>5, FS_Union
    <3>4. X \cap Y = Y \cap X
      OBVIOUS
    <3> QED BY <3>1, <3>2, <3>3, <3>4
  <2>7. Cardinality(X \cup Y) <= Cardinality(P)
    BY <2>4, <2>5, FS_Subset
  <2>8. Cardinality(X) \in Nat /\ Cardinality(Y) \in Nat /\ Cardinality(P) \in Nat
    BY <2>4, <2>5, FS_CardinalityType
  <2> QED BY <2>6, <2>7, <2>8 DEF Y, P
<1>11. Sum(Repeats', Machines) + Cardinality(Pending(Covered)') <= reader.created
  <2>1. Sum(Repeats, Machines) \in Nat
    BY RepeatsAddUp
  <2> HIDE DEF X, K
  <2> QED BY <1>2, <1>9, <1>10, <2>1
<1> HIDE DEF f
<1> QED BY <1>3, <1>4, <1>8, <1>11 DEF RepeatInv, Walking

(* Counting the rows and turning the page list nothing, and cover no less than before. *)
LEMMA TurnRepeats ==
    ASSUME TypeOK, WalkInv, RepeatInv, CountAll \/ TurnPage, reader.report = "list"
    PROVE  RepeatInv'
<1> DEFINE K == reader.page * reader.limit
<1>1. reader \in Reader
  BY DEF TypeOK
<1>2. /\ reader.step \in {"count", "turn"} /\ reader.page \in Nat /\ reader.page >= 1
      /\ reader.limit \in Nat /\ reader.created \in Nat
      /\ Sum(Repeats, Machines) + Cardinality(Pending(K)) <= reader.created
      /\ \A m \in Machines : reader.listed[m] > 0 => m \in spent /\ drawn[m] = None
  BY ReaderNumbers DEF WalkInv, RepeatInv, CountAll, TurnPage, Walking, Covered
<1>3. /\ rows' = rows /\ spent' = spent /\ drawn' = drawn
      /\ reader'.listed = reader.listed /\ reader'.created = reader.created
      /\ reader'.limit = reader.limit
      /\ \/ reader'.step \in {"turn", "done"} /\ reader'.page = reader.page
         \/ reader'.step = "list" /\ reader'.page = reader.page + 1
  <2>1. CASE CountAll
    <3>1. PICK s \in {"turn", "done"} : reader' = [reader EXCEPT !.step = s]
      BY <2>1 DEF CountAll
    <3> QED BY <1>1, <2>1, <3>1 DEF CountAll, Reader
  <2>2. CASE TurnPage
    <3> DEFINE next == reader.page + 1
    <3>1. reader' = [reader EXCEPT !.step = "list", !.page = next]
      BY <1>1, <2>2 DEF TurnPage, Reader
    <3> HIDE DEF next
    <3>2. /\ reader'.listed = reader.listed /\ reader'.created = reader.created
          /\ reader'.limit = reader.limit /\ reader'.step = "list" /\ reader'.page = next
      BY <1>1, <3>1 DEF Reader
    <3> QED BY <2>2, <3>2 DEF TurnPage, next
  <2> QED BY <2>1, <2>2
<1>4. Covered' = K
  BY <1>2, <1>3, CoveredPlaces DEF Covered
<1>5. /\ Repeats' = Repeats
      /\ \A k : Rank(k)' = Rank(k) /\ (k \in Present' <=> k \in Present)
  BY <1>3 DEF Repeats, Rank, Below, Before, Present
<1>6. Pending(Covered)' = Pending(K)
  BY <1>3, <1>4, <1>5 DEF Pending
<1>7. Sum(Repeats, Machines) \in Nat /\ Cardinality(Pending(K)) \in Nat
  <2>1. Pending(K) \in SUBSET Machines
    BY DEF Pending, Present
  <2> QED BY <2>1, NoMore, RepeatsAddUp
<1>8. Sum(Repeats, Machines) <= reader.created
  <2> HIDE DEF K
  <2> QED BY <1>2, <1>7
<1> HIDE DEF K
<1> QED BY <1>2, <1>3, <1>5, <1>6, <1>8 DEF RepeatInv, Walking

(* Every step keeps the account of what has been shown again. *)
LEMMA NextRepeats ==
    ASSUME TypeOK, TypeOK', DrawnOnce, WalkInv, RepeatInv, Next
    PROVE  RepeatInv'
<1>1. ASSUME rows' = rows, reader' = reader, Tick \/ BeginCreate \/ \E m \in Machines : Abandon(m)
      PROVE  RepeatInv'
  <2>1. /\ Repeats' = Repeats /\ Covered' = Covered /\ (Walking' <=> Walking)
        /\ \A k : Rank(k)' = Rank(k) /\ (k \in Present' <=> k \in Present)
    BY <1>1 DEF Repeats, Covered, Walking, Rank, Below, Before, Present
  <2>2. Pending(Covered)' = Pending(Covered)
    BY <1>1, <2>1 DEF Pending
  <2>3. \A m \in Machines : m \in spent /\ drawn[m] = None => m \in spent' /\ drawn'[m] = None
    BY <1>1 DEF Tick, BeginCreate, Abandon, TypeOK
  <2> QED BY <1>1, <2>1, <2>2, <2>3 DEF RepeatInv
<1>2. CASE reader.report # "list"
  BY <1>2, ReportStays DEF RepeatInv
<1>3. CASE Tick \/ BeginCreate
  BY <1>1, <1>3 DEF Tick, BeginCreate
<1>4. ASSUME reader.report = "list", NEW m \in Machines,
             Insert(m) \/ Abandon(m) \/ Edit(m) \/ Erase(m)
      PROVE  RepeatInv'
  BY <1>1, <1>4, InsertRepeats, EraseRepeats DEF Insert, Abandon, Edit, DrawnOnce
<1>5. CASE reader.report = "list" /\ Read
  <2>1. CASE BeginWalk \/ ListPage \/ CountAll \/ TurnPage
    BY <1>5, <2>1, BeginRepeats, PageRepeats, TurnRepeats
  <2>2. ~(BeginEstimate \/ ReadMachines \/ ReadPlans \/ Compute)
    BY <1>5 DEF BeginEstimate, ReadMachines, ReadPlans, Compute, WalkInv
  <2>3. CASE Leave
    <3>1. reader'.step = "idle" /\ \A m \in Machines : reader'.listed[m] = 0
      BY <2>3 DEF Leave, Resting
    <3> QED BY <3>1 DEF RepeatInv, Walking
  <2> QED BY <1>5, <2>1, <2>2, <2>3 DEF Read
<1> QED BY <1>2, <1>3, <1>4, <1>5 DEF Next, Write

-----------------------------------------------------------------------------
(***************************************************************************)
(* The totals of an estimate that is done are those of the machines in its *)
(* book, one by one; plan by plan they come to the same.                   *)
(***************************************************************************)
Lines == {m \in Machines : reader.book[m] # None}

ByMachine ==
    /\ reader.recurring = TotalOf([m \in Lines |-> Recurring(reader.book[m])])
    /\ reader.onboarding = TotalOf([m \in Lines |-> Onboarding(reader.book[m])])

EstimateInv ==
    reader.report = "estimate" =>
        /\ reader.step \in {"idle", "machines", "plans", "subscription", "done"}
        /\ reader.step = "done" => ByMachine

(* Every step keeps the totals of an estimate that is done. *)
LEMMA NextEstimate ==
    ASSUME TypeOK, EstimateInv, Next
    PROVE  EstimateInv'
<1>1. reader \in Reader
  BY DEF TypeOK
<1>2. SUFFICES ASSUME reader.report = "estimate"
               PROVE  EstimateInv'
  BY ReportStays DEF EstimateInv
<1>3. ASSUME reader'.book = reader.book, reader'.recurring = reader.recurring,
             reader'.onboarding = reader.onboarding, reader'.step = reader.step,
             period' = period
      PROVE  EstimateInv'
  <2>1. Lines' = Lines
    BY <1>3 DEF Lines
  <2>2. ByMachine => ByMachine'
    BY <1>3, <2>1 DEF ByMachine, Recurring, Onboarding, InPeriod
  <2> QED BY <1>2, <1>3, <2>2 DEF EstimateInv
<1>4. CASE Write
  <2>1. CASE reader' = reader /\ period' = period
    BY <1>3, <2>1
  <2>2. ~Walking
    BY <1>2 DEF EstimateInv, Walking
  <2>3. reader' = reader /\ period' = period
    BY <1>4, <2>2 DEF Write, Tick, BeginCreate, Insert, Abandon, Edit, Erase, Noted
  <2> QED BY <2>1, <2>3
<1>5. CASE BeginEstimate \/ ReadMachines \/ ReadPlans
  <2>1. reader'.step \in {"machines", "plans", "subscription"}
    BY <1>1, <1>5 DEF BeginEstimate, ReadMachines, ReadPlans, Reader
  <2> QED BY <2>1 DEF EstimateInv
<1>6. ~(BeginWalk \/ ListPage \/ CountAll \/ TurnPage)
  BY <1>2 DEF BeginWalk, ListPage, CountAll, TurnPage, EstimateInv
<1>7. CASE Compute
  <2> DEFINE u == TotalOf([m \in Lines |-> Recurring(reader.book[m])])
             v == TotalOf([m \in Lines |-> Onboarding(reader.book[m])])
  <2>1. reader' = [reader EXCEPT !.step = "done", !.recurring = u, !.onboarding = v]
        /\ period' = period
    BY <1>7 DEF Compute, Lines
  <2> HIDE DEF u, v
  <2>2. /\ reader'.step = "done" /\ reader'.recurring = u /\ reader'.onboarding = v
        /\ reader'.book = reader.book
    BY <1>1, <2>1 DEF Reader
  <2>3. Lines' = Lines
    BY <2>2 DEF Lines
  <2>4. ByMachine'
    BY <2>1, <2>2, <2>3 DEF ByMachine, Recurring, Onboarding, InPeriod, u, v
  <2> QED BY <2>2, <2>4 DEF EstimateInv
<1>8. CASE Leave
  <2>1. reader'.step = "idle"
    BY <1>8 DEF Leave, Resting
  <2> QED BY <2>1 DEF EstimateInv
<1> QED BY <1>4, <1>5, <1>6, <1>7, <1>8 DEF Next, Read

(* One by one or plan by plan: the yearly prices, and the fees. *)
LEMMA PlanByPlan ==
    ASSUME TypeOK
    PROVE  /\ TotalOf([m \in Lines |-> Recurring(reader.book[m])]) =
                TotalOf([p \in Offered |-> Price[p] * Counted(p, Charged)])
           /\ TotalOf([m \in Lines |-> Onboarding(reader.book[m])]) =
                TotalOf([p \in Plans |-> Fee[p] * Counted(p, Welcomed)])
<1>1. IsFiniteSet(Lines)
  BY MachinesAssumption, FS_Subset DEF Lines
<1>2. IsFiniteSet(Plans) /\ IsFiniteSet(Offered) /\ Offered \subseteq Plans /\ None \notin Plans
  BY CatalogueAssumption, NoneAssumption, FS_Subset
<1>3. \A m \in Lines : reader.book[m].plan \in Plans \cup {None}
  BY DEF Lines, TypeOK, Reader, Row
<1>4. TotalOf([m \in Lines |-> Recurring(reader.book[m])]) =
        TotalOf([p \in Offered |-> Price[p] * Counted(p, Charged)])
  <2> DEFINE kind == [m \in Lines |-> IF reader.book[m].status = "active"
                                      THEN reader.book[m].plan ELSE None]
             a == [m \in Lines |-> Recurring(reader.book[m])]
             b == [p \in Offered |-> Price[p] * Cardinality({m \in Lines : kind[m] = p})]
             c == [p \in Offered |-> Price[p] * Counted(p, Charged)]
  <2>1. \A m \in Lines : a[m] = IF kind[m] \in Offered THEN Price[kind[m]] ELSE 0
    BY <1>2 DEF Recurring
  <2>2. \A p \in Offered : Price[p] \in Nat
    BY <1>2, CatalogueAssumption
  <2>3. Sum(a, Lines) = Sum(b, Offered)
    <3> HIDE DEF a, kind
    <3> QED BY <1>1, <1>2, <2>1, <2>2, SumByKind
  <2>4. \A p \in Offered : {m \in Lines : kind[m] = p} = {m \in Charged : reader.book[m].plan = p}
    BY <1>2 DEF Lines, Charged
  <2>5. b = c
    BY <2>4 DEF Counted
  <2>6. TotalOf(a) = Sum(a, Lines) /\ TotalOf(c) = Sum(c, Offered)
    <3>1. DOMAIN a = Lines /\ DOMAIN c = Offered
      OBVIOUS
    <3> HIDE DEF a, c
    <3> QED BY <3>1, TotalIsSum
  <2> HIDE DEF b
  <2> QED BY <2>3, <2>5, <2>6
<1>5. TotalOf([m \in Lines |-> Onboarding(reader.book[m])]) =
        TotalOf([p \in Plans |-> Fee[p] * Counted(p, Welcomed)])
  <2> DEFINE kind == [m \in Lines |-> IF InPeriod(reader.book[m])
                                      THEN reader.book[m].plan ELSE None]
             a == [m \in Lines |-> Onboarding(reader.book[m])]
             b == [p \in Plans |-> Fee[p] * Cardinality({m \in Lines : kind[m] = p})]
             c == [p \in Plans |-> Fee[p] * Counted(p, Welcomed)]
  <2>1. \A m \in Lines : a[m] = IF kind[m] \in Plans THEN Fee[kind[m]] ELSE 0
    BY <1>2, <1>3 DEF Onboarding
  <2>2. \A p \in Plans : Fee[p] \in Nat
    BY CatalogueAssumption
  <2>3. Sum(a, Lines) = Sum(b, Plans)
    <3>1. IsFiniteSet(Plans)
      BY <1>2
    <3> HIDE DEF a, c, kind
    <3> QED BY <1>1, <2>1, <2>2, <3>1, SumByKind
  <2>4. \A p \in Plans : {m \in Lines : kind[m] = p} = {m \in Welcomed : reader.book[m].plan = p}
    BY <1>2 DEF Lines, Welcomed
  <2>5. b = c
    BY <2>4 DEF Counted
  <2>6. TotalOf(a) = Sum(a, Lines) /\ TotalOf(c) = Sum(c, Plans)
    <3>1. DOMAIN a = Lines /\ DOMAIN c = Plans
      OBVIOUS
    <3> HIDE DEF a, c
    <3> QED BY <3>1, TotalIsSum
  <2> HIDE DEF b
  <2> QED BY <2>3, <2>5, <2>6
<1> QED BY <1>4, <1>5

-----------------------------------------------------------------------------
IInv == TypeOK /\ DrawnOnce /\ WalkInv /\ RepeatInv /\ EstimateInv

(* At the start nothing has been listed, missed or computed. *)
LEMMA InitReports == Init => IInv
<1> SUFFICES ASSUME Init PROVE IInv
  OBVIOUS
<1>1. reader \in Reader /\ reader.step = "idle" /\ \A m \in Machines : reader.listed[m] = 0
  BY PagesAssumption DEF Init, Resting, Reader, Steps
<1>2. TypeOK
  BY <1>1, BoundsAssumption DEF Init, TypeOK, Time
<1>3. DrawnOnce
  BY DEF Init, DrawnOnce
<1>4. WalkInv /\ RepeatInv /\ EstimateInv
  BY <1>1 DEF WalkInv, RepeatInv, EstimateInv, Walking
<1> QED BY <1>2, <1>3, <1>4 DEF IInv

(* The inductive invariant holds throughout. *)
THEOREM ReportsHold == Spec => []IInv
<1>1. ASSUME IInv, [Next]_vars
      PROVE  IInv'
  <2>1. CASE Next
    <3>1. TypeOK'
      BY <1>1, <2>1, WriteTypes, ReadTypes DEF IInv, Next
    <3> QED
      BY <1>1, <2>1, <3>1, NextDrawn, NextWalk, NextRepeats, NextEstimate DEF IInv
  <2>2. CASE UNCHANGED vars
    <3>1. TypeOK' /\ DrawnOnce' /\ WalkInv'
      BY <1>1, <2>2 DEF vars, IInv, TypeOK, DrawnOnce, WalkInv, Walking, Covered, Missed,
                        Unlisted, Rank, Below, Before, Present
    <3>2. RepeatInv'
      BY <1>1, <2>2 DEF vars, IInv, RepeatInv, Walking, Covered, Pending, Repeats,
                        Rank, Below, Before, Present
    <3>3. EstimateInv'
      BY <1>1, <2>2 DEF vars, IInv, EstimateInv, ByMachine, Lines, Recurring, Onboarding,
                        InPeriod
    <3> QED BY <3>1, <3>2, <3>3 DEF IInv
  <2> QED BY <1>1, <2>1, <2>2
<1> QED BY <1>1, InitReports, PTL DEF Spec

(***************************************************************************)
(* The table, creates under way, pages and totals keep their types: a page *)
(* is within the maximum, and what an estimate charges is never negative.  *)
(***************************************************************************)
THEOREM TypeCorrect == Spec => []TypeOK
<1>1. IInv => TypeOK
  BY DEF IInv
<1> QED BY <1>1, ReportsHold, PTL

(***************************************************************************)
(* Of the machines that were there all the time, a walk over all pages     *)
(* leaves out no more than were deleted meanwhile.                         *)
(***************************************************************************)
THEOREM WalksMissFew == Spec => []WalkMissesFew
<1>1. IInv => WalkMissesFew
  BY DEF IInv, WalkInv, WalkMissesFew, Walked, Unlisted
<1> QED BY <1>1, ReportsHold, PTL

(***************************************************************************)
(* A walk over all pages shows machines again no more often than machines  *)
(* were inserted meanwhile.                                                *)
(***************************************************************************)
THEOREM WalksRepeatFew == Spec => []WalkRepeatsFew
<1>1. IInv => WalkRepeatsFew
  <2>1. TotalOf(Repeats) = Sum(Repeats, Machines)
    BY TotalIsSum DEF Repeats
  <2> QED BY <2>1 DEF IInv, RepeatInv, WalkRepeatsFew, Walked, Repeats
<1> QED BY <1>1, ReportsHold, PTL

(***************************************************************************)
(* The totals of the estimate, computed machine by machine, are those of   *)
(* the catalogue: for each plan its price times the active machines on it, *)
(* and its fee times the machines created within the billing period.       *)
(***************************************************************************)
THEOREM EstimatesAddUp == Spec => []EstimateAddsUp
<1>1. IInv => EstimateAddsUp
  BY PlanByPlan DEF IInv, EstimateInv, ByMachine, EstimateAddsUp
<1> QED BY <1>1, ReportsHold, PTL
===============================================================================
