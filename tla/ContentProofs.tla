----------------------------- MODULE ContentProofs -----------------------------
(***************************************************************************)
(* What the rules of the build guarantee of every content that passes      *)
(* them, however large: the guidance can be finished, every encounter can  *)
(* begin, a new pilot can fight, a lost ship can be bought back, and what  *)
(* is played can be saved and loaded again.                                *)
(***************************************************************************)
EXTENDS ContentRelease, FiniteSetTheorems, WellFoundedInduction, TLAPS

-----------------------------------------------------------------------------
(* Numbers and sums. *)

\* Every inhabited set of natural numbers has a least element: the intervals up
\* to its elements have a least one, for finite sets are well founded.
LEMMA LeastExists ==
  ASSUME NEW T, T \subseteq Nat, T # {}
  PROVE  \E x \in T : \A y \in T : x <= y
<1> DEFINE upTo(n) == 1..n
           I == {upTo(n) : n \in T}
<1>1. IsWellFoundedOn(StrictSubsetOrdering(Nat), FiniteSubsetsOf(Nat))
  BY FS_StrictSubsetOrderingWellFounded
<1>2. I \subseteq FiniteSubsetsOf(Nat)
  <2> SUFFICES ASSUME NEW n \in T PROVE upTo(n) \in FiniteSubsetsOf(Nat)
    OBVIOUS
  <2>1. IsFiniteSet(1..n)
    BY FS_Interval
  <2>2. 1..n \subseteq Nat
    OBVIOUS
  <2> QED BY <2>1, <2>2 DEF FiniteSubsetsOf
<1>3. I # {}
  OBVIOUS
<1>4. PICK X \in I : \A Y \in I : ~ <<Y, X>> \in StrictSubsetOrdering(Nat)
  BY <1>1, <1>2, <1>3, WFMin
<1>5. PICK x \in T : X = 1..x
  OBVIOUS
<1>6. ASSUME NEW y \in T, ~ (x <= y) PROVE FALSE
  <2>1. 1..y \in I OBVIOUS
  <2>2. 1..y \subseteq X /\ 1..y # X /\ X \subseteq Nat
    BY <1>5, <1>6
  <2> QED BY <2>1, <2>2, <1>4 DEF StrictSubsetOrdering
<1> QED BY <1>6

\* Induction up to a bound: no number is the first to be wrong.
LEMMA UpTo ==
  ASSUME NEW L \in Nat, NEW W, W \subseteq 0..L, 0 \notin W,
         \A n \in 1..L : n \in W => n - 1 \in W
  PROVE  W = {}
<1> SUFFICES ASSUME W # {} PROVE FALSE
  OBVIOUS
<1>1. W \subseteq Nat
  OBVIOUS
<1>2. PICK n \in W : \A m \in W : n <= m
  BY <1>1, LeastExists
<1>3. n \in 1..L
  OBVIOUS
<1>4. n - 1 \in W
  BY <1>3
<1>5. n <= n - 1
  BY <1>2, <1>4
<1> QED BY <1>3, <1>5

\* Induction over the parts of a finite set: no part is the least to be wrong.
LEMMA PartsUpTo ==
  ASSUME NEW T, IsFiniteSet(T), NEW W, W \subseteq SUBSET T,
         \A s \in W : \E u \in W : u \subseteq s /\ u # s
  PROVE  W = {}
<1> SUFFICES ASSUME W # {} PROVE FALSE
  OBVIOUS
<1>1. IsWellFoundedOn(StrictSubsetOrdering(T), FiniteSubsetsOf(T))
  BY FS_StrictSubsetOrderingWellFounded
<1>2. W \subseteq FiniteSubsetsOf(T)
  BY FS_FiniteSubsetsOfFinite
<1>3. PICK s \in W : \A u \in W : ~ <<u, s>> \in StrictSubsetOrdering(T)
  BY <1>1, <1>2, WFMin
<1>4. PICK u \in W : u \subseteq s /\ u # s
  OBVIOUS
<1>5. <<u, s>> \in StrictSubsetOrdering(T)
  BY <1>4 DEF StrictSubsetOrdering
<1> QED BY <1>3, <1>5

\* The function a sum is read from.
AddsUp(g, r, T) ==
  /\ g[{}] = 0
  /\ \A s \in SUBSET T : s # {} =>
       g[s] = r[CHOOSE x \in s : TRUE] + g[s \ {CHOOSE x \in s : TRUE}]

LEMMA SumUnfolds ==
  ASSUME NEW r, NEW T, T = DOMAIN r, IsFiniteSet(T)
  PROVE  \E g : SumFunction(r) = g[T] /\ AddsUp(g, r, T)
<1> DEFINE L == Cardinality(T)
           Part(n) == {s \in SUBSET T : Cardinality(s) <= n}
           Body(g, s) ==
             IF s = {} THEN 0
             ELSE r[CHOOSE x \in s : TRUE] + g[s \ {CHOOSE x \in s : TRUE}]
           Solves(g, n) == g = [s \in Part(n) |-> Body(g, s)]
           Unsolved == {n \in 0..L : ~ \E g : Solves(g, n)}
           made == CHOOSE g : g = [s \in SUBSET T |-> Body(g, s)]
<1>1. SumFunction(r) = made[T]
  BY DEF SumFunction, SumFunctionOnSet, FoldFunctionOnSet, MapThenFoldSet
<1>2. L \in Nat /\ \A s \in SUBSET T : IsFiniteSet(s) /\ Cardinality(s) \in Nat /\ Cardinality(s) <= L
  BY FS_CardinalityType, FS_Subset
<1>3. Part(L) = SUBSET T
  BY <1>2
<1>4. ASSUME NEW n \in 0..L, NEW s \in Part(n), s # {}
      PROVE  /\ n - 1 \in 0..L
             /\ s \ {CHOOSE x \in s : TRUE} \in Part(n - 1)
  <2> DEFINE x == CHOOSE x \in s : TRUE
  <2>1. x \in s
    BY <1>4
  <2> HIDE DEF x
  <2>2. Cardinality(s \ {x}) = Cardinality(s) - 1 /\ Cardinality(s \ {x}) \in Nat /\ s \ {x} \in SUBSET T
    BY <1>2, <2>1, FS_RemoveElement
  <2>3. Cardinality(s) <= n /\ Cardinality(s) \in Nat /\ n \in Nat /\ n <= L
    BY <1>2
  <2> HIDE DEF L
  <2>4. n - 1 \in 0..L /\ Cardinality(s \ {x}) <= n - 1
    BY <1>2, <2>2, <2>3
  <2> QED BY <2>2, <2>4 DEF x
<1>5. ASSUME NEW g, NEW h, NEW s, s = {} \/ g[s \ {CHOOSE x \in s : TRUE}] = h[s \ {CHOOSE x \in s : TRUE}]
      PROVE  Body(g, s) = Body(h, s)
  <2>1. CASE s = {}
    BY <2>1
  <2>2. CASE s # {}
    <3>1. g[s \ {CHOOSE x \in s : TRUE}] = h[s \ {CHOOSE x \in s : TRUE}]
      BY <1>5, <2>2
    <3>2. Body(g, s) = Body(h, s)
      BY <3>1, <2>2
    <3> QED BY <3>2
  <2> QED BY <2>1, <2>2
<1>6. ASSUME NEW g PROVE /\ Body(g, {}) = 0
                         /\ \A s : s # {} => Body(g, s) = r[CHOOSE x \in s : TRUE] + g[s \ {CHOOSE x \in s : TRUE}]
  OBVIOUS
<1>7. \A s \in Part(0) : s = {}
  BY <1>2, FS_EmptySet
<1> HIDE DEF Body, L
<1>8. 0 \notin Unsolved
  <2> DEFINE g == [s \in Part(0) |-> Body(<<>>, s)]
  <2>1. \A s \in Part(0) : Body(<<>>, s) = Body(g, s)
    <3> HIDE DEF g, Part
    <3> QED BY <1>5, <1>7
  <2>2. Solves(g, 0)
    BY <2>1
  <2> HIDE DEF g, Solves
  <2> QED BY <2>2
<1>9. ASSUME NEW n \in 1..L, n \in Unsolved PROVE n - 1 \in Unsolved
  <2>1. n - 1 \in 0..L
    BY <1>2
  <2> SUFFICES ASSUME NEW f, Solves(f, n - 1) PROVE FALSE
    BY <2>1
  <2> DEFINE g == [s \in Part(n) |-> Body(f, s)]
  <2>2. ASSUME NEW s \in Part(n - 1) PROVE s \in Part(n) /\ f[s] = Body(f, s)
    <3>1. f = [u \in Part(n - 1) |-> Body(f, u)]
      OBVIOUS
    <3>2. s \in SUBSET T /\ Cardinality(s) <= n - 1
      OBVIOUS
    <3>3. Cardinality(s) \in Nat
      BY <1>2, <3>2
    <3>4. Cardinality(s) <= n
      BY <1>2, <3>2, <3>3
    <3>5. s \in Part(n)
      BY <3>2, <3>4
    <3> HIDE DEF Solves, Part
    <3> QED BY <3>1, <3>5
  <2>3. \A s \in Part(n - 1) : g[s] = f[s]
    <3> HIDE DEF Solves, Part
    <3> QED BY <2>2
  <2>4. ASSUME NEW s \in Part(n) PROVE Body(f, s) = Body(g, s)
    <3>1. n \in 0..L
      BY <1>2
    <3>2. s # {} => s \ {CHOOSE x \in s : TRUE} \in Part(n - 1)
      BY <1>4, <3>1
    <3> HIDE DEF Solves, Part, g
    <3>3. s # {} => f[s \ {CHOOSE x \in s : TRUE}] = g[s \ {CHOOSE x \in s : TRUE}]
      BY <2>3, <3>2
    <3> QED BY <1>5, <3>3
  <2>5. Solves(g, n)
    <3>1. g = [s \in Part(n) |-> Body(f, s)]
      OBVIOUS
    <3> HIDE DEF Part, g
    <3> QED BY <2>4, <3>1
  <2> HIDE DEF g, Solves
  <2> QED BY <2>5, <1>9
<1>10. \E g : Solves(g, L)
  <2>1. Unsolved \subseteq 0..L
    OBVIOUS
  <2>2. L \in Unsolved \/ \E g : Solves(g, L)
    <3> HIDE DEF Solves
    <3> QED BY <1>2
  <2> HIDE DEF Unsolved, Solves
  <2>3. Unsolved = {}
    BY <1>2, <1>8, <1>9, <2>1, UpTo
  <2> QED BY <2>2, <2>3
<1>11. \E g : g = [s \in SUBSET T |-> Body(g, s)]
  <2> HIDE DEF Part
  <2> QED BY <1>3, <1>10
<1>12. made = [s \in SUBSET T |-> Body(made, s)]
  BY <1>11
<1> HIDE DEF made
<1>13. \A s \in SUBSET T : made[s] = Body(made, s)
  BY <1>12
<1>14. AddsUp(made, r, T)
  BY <1>6, <1>13 DEF AddsUp
<1> QED BY <1>1, <1>14

\* Two sums of the same numbers.
LEMMA SameSums ==
  ASSUME NEW r, NEW q, NEW S, NEW T, NEW U, IsFiniteSet(U), U \subseteq S, U \subseteq T,
         \A k \in U : r[k] = q[k],
         NEW g, AddsUp(g, r, S), NEW h, AddsUp(h, q, T)
  PROVE  \A s \in SUBSET U : g[s] = h[s]
<1> DEFINE W == {s \in SUBSET U : g[s] # h[s]}
<1>1. W \subseteq SUBSET U
  OBVIOUS
<1>2. ASSUME NEW s \in W PROVE \E u \in W : u \subseteq s /\ u # s
  <2>1. s # {}
    BY DEF AddsUp
  <2>2. PICK x \in s : x = CHOOSE y \in s : TRUE
    BY <2>1
  <2>3. g[s] = r[x] + g[s \ {x}] /\ h[s] = q[x] + h[s \ {x}]
    BY <2>1, <2>2 DEF AddsUp
  <2>4. r[x] = q[x]
    OBVIOUS
  <2>5. g[s \ {x}] # h[s \ {x}]
    BY <2>3, <2>4
  <2>6. s \ {x} \in W
    BY <2>5
  <2> QED BY <2>6
<1> HIDE DEF W
<1>3. W = {}
  BY <1>1, <1>2, PartsUpTo
<1> QED BY <1>3 DEF W

\* Sums are numbers, and each of the numbers is one summand.
LEMMA SumsAdd ==
  ASSUME NEW r, NEW T, IsFiniteSet(T), \A k \in T : r[k] \in Int,
         NEW g, AddsUp(g, r, T)
  PROVE  /\ \A s \in SUBSET T : g[s] \in Int
         /\ \A s \in SUBSET T : \A x \in s : g[s] = r[x] + g[s \ {x}]
<1> DEFINE W == {s \in SUBSET T : g[s] \notin Int}
           V == {s \in SUBSET T : \E x \in s : g[s] # r[x] + g[s \ {x}]}
<1>1. ASSUME NEW s \in SUBSET T, s # {}
      PROVE  \E p \in s : g[s] = r[p] + g[s \ {p}]
  <2>1. PICK p \in s : p = CHOOSE y \in s : TRUE
    BY <1>1
  <2> QED BY <1>1, <2>1 DEF AddsUp
<1>2. ASSUME NEW s \in W PROVE \E u \in W : u \subseteq s /\ u # s
  <2>1. s # {}
    <3>1. g[{}] = 0 /\ g[s] \notin Int
      BY DEF AddsUp
    <3>2. 0 \in Int
      OBVIOUS
    <3>3. g[s] # g[{}]
      BY <3>1, <3>2
    <3> QED BY <3>3
  <2>2. PICK p \in s : g[s] = r[p] + g[s \ {p}]
    BY <1>1, <2>1
  <2>3. r[p] \in Int
    OBVIOUS
  <2>4. g[s \ {p}] \notin Int
    BY <2>2, <2>3
  <2>5. s \ {p} \in W
    BY <2>4
  <2> QED BY <2>5
<1>3. W = {}
  <2>1. W \subseteq SUBSET T
    OBVIOUS
  <2> HIDE DEF W
  <2> QED BY <1>2, <2>1, PartsUpTo
<1>4. ASSUME NEW s \in SUBSET T PROVE g[s] \in Int
  BY <1>3
<1>5. ASSUME NEW s \in V PROVE \E u \in V : u \subseteq s /\ u # s
  <2>1. PICK x \in s : g[s] # r[x] + g[s \ {x}]
    OBVIOUS
  <2>2. PICK p \in s : g[s] = r[p] + g[s \ {p}]
    BY <1>1, <2>1
  <2>3. p # x
    BY <2>1, <2>2
  <2> SUFFICES ASSUME s \ {p} \notin V, s \ {x} \notin V PROVE FALSE
    <3>1. s \ {p} \subseteq s /\ s \ {p} # s /\ s \ {x} \subseteq s /\ s \ {x} # s
      OBVIOUS
    <3> HIDE DEF V
    <3> QED BY <3>1
  <2>4. g[s \ {p}] = r[x] + g[(s \ {p}) \ {x}]
    BY <2>3
  <2>5. g[s \ {x}] = r[p] + g[(s \ {x}) \ {p}]
    BY <2>3
  <2>6. (s \ {p}) \ {x} = (s \ {x}) \ {p}
    OBVIOUS
  <2>7. r[x] \in Int /\ r[p] \in Int /\ g[(s \ {x}) \ {p}] \in Int
    BY <1>4
  <2>8. g[s] = r[p] + (r[x] + g[(s \ {x}) \ {p}])
    BY <2>2, <2>4, <2>6
  <2>9. r[p] + (r[x] + g[(s \ {x}) \ {p}]) = r[x] + (r[p] + g[(s \ {x}) \ {p}])
    BY <2>7
  <2> QED BY <2>1, <2>5, <2>8, <2>9
<1>6. V = {}
  <2>1. V \subseteq SUBSET T
    OBVIOUS
  <2> HIDE DEF V
  <2> QED BY <1>5, <2>1, PartsUpTo
<1> QED BY <1>4, <1>6

\* One-to-one on D.
OneToOne(b, D) == \A x, y \in D : b[x] = b[y] => x = y

LEMMA CountRelabelled ==
  ASSUME NEW D, IsFiniteSet(D), NEW b, OneToOne(b, D)
  PROVE  /\ IsFiniteSet({b[x] : x \in D})
         /\ Cardinality({b[x] : x \in D}) = Cardinality(D)
<1> DEFINE E == {b[x] : x \in D}
           r == [x \in D |-> b[x]]
<1>1. r \in [D -> E] /\ \A x, y \in D : r[x] = r[y] => x = y
  BY DEF OneToOne
<1>2. \A e \in E : \E x \in D : r[x] = e
  OBVIOUS
<1> HIDE DEF E, r
<1>3. r \in Bijection(D, E)
  BY <1>1, <1>2 DEF Bijection, Injection, Surjection, IsInjective
<1>4. ExistsBijection(D, E)
  BY <1>3 DEF ExistsBijection
<1> QED BY <1>4, FS_Bijection DEF E

LEMMA SumOfNone ==
  ASSUME NEW r, DOMAIN r = {}
  PROVE  SumFunction(r) = 0
<1>1. PICK g : SumFunction(r) = g[{}] /\ AddsUp(g, r, {})
  BY FS_EmptySet, SumUnfolds
<1> QED BY <1>1 DEF AddsUp

LEMMA SumOfOne ==
  ASSUME NEW r, NEW x, DOMAIN r = {x}, r[x] \in Int
  PROVE  SumFunction(r) = r[x]
<1>1. IsFiniteSet({x})
  BY FS_Singleton
<1>2. PICK g : SumFunction(r) = g[{x}] /\ AddsUp(g, r, {x})
  BY <1>1, SumUnfolds
<1>3. {x} \ {x} = {} /\ (CHOOSE y \in {x} : TRUE) = x
  OBVIOUS
<1>4. g[{x}] = r[x] + 0
  BY <1>2, <1>3 DEF AddsUp
<1> QED BY <1>2, <1>4

LEMMA SumType ==
  ASSUME NEW r, IsFiniteSet(DOMAIN r), \A x \in DOMAIN r : r[x] \in Nat
  PROVE  SumFunction(r) \in Nat
<1> DEFINE D == DOMAIN r
<1>1. PICK g : SumFunction(r) = g[D] /\ AddsUp(g, r, D)
  BY SumUnfolds
<1>2. \A s \in SUBSET D : g[s] \in Int /\ \A x \in s : g[s] = r[x] + g[s \ {x}]
  <2>1. \A x \in D : r[x] \in Int
    OBVIOUS
  <2> QED BY <1>1, <2>1, SumsAdd
<1> DEFINE W == {s \in SUBSET D : g[s] \notin Nat}
<1>3. ASSUME NEW s \in W PROVE \E u \in W : u \subseteq s /\ u # s
  <2>1. g[{}] = 0
    BY <1>1 DEF AddsUp
  <2>2. s # {}
    <3>1. 0 \in Nat /\ g[s] \notin Nat
      OBVIOUS
    <3>2. g[s] # g[{}]
      BY <2>1, <3>1
    <3> QED BY <3>2
  <2>3. PICK x \in s : TRUE
    BY <2>2
  <2>4. g[s] = r[x] + g[s \ {x}] /\ r[x] \in Nat
    BY <1>2
  <2>5. s \ {x} \in W
    BY <2>4
  <2> QED BY <2>3, <2>5
<1>4. W = {}
  <2>1. W \subseteq SUBSET D
    OBVIOUS
  <2> HIDE DEF W
  <2> QED BY <1>3, <2>1, PartsUpTo
<1> QED BY <1>1, <1>4

LEMMA SumAtMost ==
  ASSUME NEW r, NEW q, DOMAIN q = DOMAIN r, IsFiniteSet(DOMAIN r),
         \A x \in DOMAIN r : r[x] \in Int /\ q[x] \in Int /\ r[x] <= q[x]
  PROVE  SumFunction(r) <= SumFunction(q)
<1> DEFINE D == DOMAIN r
<1>1. PICK g : SumFunction(r) = g[D] /\ AddsUp(g, r, D)
  BY SumUnfolds
<1>2. PICK h : SumFunction(q) = h[D] /\ AddsUp(h, q, D)
  BY SumUnfolds
<1>3. \A s \in SUBSET D : g[s] \in Int /\ \A x \in s : g[s] = r[x] + g[s \ {x}]
  BY <1>1, SumsAdd
<1>4. \A s \in SUBSET D : h[s] \in Int /\ \A x \in s : h[s] = q[x] + h[s \ {x}]
  BY <1>2, SumsAdd
<1> DEFINE W == {s \in SUBSET D : ~ g[s] <= h[s]}
<1>5. ASSUME NEW s \in W PROVE \E u \in W : u \subseteq s /\ u # s
  <2>1. g[{}] = 0 /\ h[{}] = 0
    BY <1>1, <1>2 DEF AddsUp
  <2>2. s # {}
    BY <2>1
  <2>3. PICK x \in s : TRUE
    BY <2>2
  <2>4. g[s] = r[x] + g[s \ {x}] /\ h[s] = q[x] + h[s \ {x}]
    BY <1>3, <1>4
  <2>5. g[s \ {x}] \in Int /\ h[s \ {x}] \in Int /\ r[x] \in Int /\ q[x] \in Int /\ r[x] <= q[x]
    BY <1>3, <1>4
  <2>6. ~ g[s \ {x}] <= h[s \ {x}]
    BY <2>4, <2>5
  <2>7. s \ {x} \in W
    BY <2>6
  <2> QED BY <2>3, <2>7
<1>6. W = {}
  <2>1. W \subseteq SUBSET D
    OBVIOUS
  <2> HIDE DEF W
  <2> QED BY <1>5, <2>1, PartsUpTo
<1> QED BY <1>1, <1>2, <1>6

\* A sum does not depend on what its summands are called.
LEMMA SumRelabelled ==
  ASSUME NEW r, NEW q, NEW b, IsFiniteSet(DOMAIN r), OneToOne(b, DOMAIN r),
         DOMAIN q = {b[x] : x \in DOMAIN r},
         \A x \in DOMAIN r : r[x] \in Int /\ q[b[x]] = r[x]
  PROVE  SumFunction(q) = SumFunction(r)
<1> DEFINE D == DOMAIN r
           E == DOMAIN q
           Image(s) == {b[x] : x \in s}
<1>1. PICK g : SumFunction(r) = g[D] /\ AddsUp(g, r, D)
  BY SumUnfolds
<1>2. IsFiniteSet(E)
  BY CountRelabelled
<1>3. PICK h : SumFunction(q) = h[E] /\ AddsUp(h, q, E)
  BY <1>2, SumUnfolds
<1>4. \A s \in SUBSET D : g[s] \in Int /\ \A x \in s : g[s] = r[x] + g[s \ {x}]
  BY <1>1, SumsAdd
<1>5. \A s \in SUBSET E : h[s] \in Int /\ \A x \in s : h[s] = q[x] + h[s \ {x}]
  BY <1>2, <1>3, SumsAdd
<1> DEFINE W == {s \in SUBSET D : g[s] # h[Image(s)]}
<1>6. ASSUME NEW s \in W PROVE \E u \in W : u \subseteq s /\ u # s
  <2>1. g[{}] = 0 /\ h[{}] = 0 /\ Image({}) = {}
    BY <1>1, <1>3 DEF AddsUp
  <2>2. s # {}
    <3> HIDE DEF Image
    <3> QED BY <2>1
  <2>3. PICK x \in s : TRUE
    BY <2>2
  <2>4. g[s] = r[x] + g[s \ {x}]
    BY <1>4
  <2>5. Image(s) \in SUBSET E /\ b[x] \in Image(s)
    OBVIOUS
  <2>6. Image(s) \ {b[x]} = Image(s \ {x})
    BY DEF OneToOne
  <2> HIDE DEF Image
  <2>7. h[Image(s)] = q[b[x]] + h[Image(s) \ {b[x]}]
    BY <1>5, <2>5
  <2>8. g[s \ {x}] # h[Image(s \ {x})]
    BY <2>4, <2>6, <2>7
  <2>9. s \ {x} \in W
    BY <2>8
  <2> QED BY <2>3, <2>9
<1>7. W = {}
  <2>1. W \subseteq SUBSET D
    OBVIOUS
  <2> HIDE DEF W
  <2> QED BY <1>6, <2>1, PartsUpTo
<1>8. Image(D) = E
  OBVIOUS
<1>9. g[D] = h[Image(D)]
  BY <1>7
<1> HIDE DEF Image
<1> QED BY <1>1, <1>3, <1>8, <1>9

-----------------------------------------------------------------------------
(* Guidance. *)

\* The first step of a chain that is not done requires earlier ones only.
LEMMA ChainCanBeFinished ==
  ASSUME NEW c, NEW chain, IsList(chain), \A i \in DOMAIN chain : StepIsValid(c, chain, i),
         NEW done, done \subseteq {chain[i].id : i \in DOMAIN chain}, done # {chain[i].id : i \in DOMAIN chain}
  PROVE  \E i \in DOMAIN chain :
           /\ chain[i].id \notin done /\ chain[i].requires \subseteq done
           /\ chain[i].skippable \/ chain[i].predicate \in AlwaysSatisfiable
<1> DEFINE T == {i \in DOMAIN chain : chain[i].id \notin done}
<1>1. T \subseteq Nat /\ T # {} /\ DOMAIN chain = 1..Len(chain) /\ Len(chain) \in Nat
  BY DEF IsList
<1>2. PICK i \in T : \A j \in T : i <= j
  BY <1>1, LeastExists
<1>3. \A j \in 1..(i - 1) : chain[j].id \in done
  <2> SUFFICES ASSUME NEW j \in 1..(i - 1) PROVE chain[j].id \in done
    OBVIOUS
  <2>1. j \in DOMAIN chain /\ ~ i <= j
    BY <1>1
  <2> QED BY <1>2, <2>1
<1>4. chain[i].requires \subseteq RequiresEarlier(chain, i)
  BY DEF StepIsValid
<1>5. chain[i].requires \subseteq done
  BY <1>3, <1>4 DEF RequiresEarlier
<1> QED BY <1>5 DEF StepIsValid

LEMMA ChainsCanBeFinished ==
  ASSUME NEW c, Accepted(c), NEW g \in DOMAIN c.guidance
  PROVE  IsList(c.guidance[g]) /\ \A i \in DOMAIN c.guidance[g] : StepIsValid(c, c.guidance[g], i)
<1>1. SchemasHold(c) /\ GuidanceIsValid(c)
  BY DEF Accepted
<1>2. IsList(c.guidance[g])
  BY <1>1 DEF SchemasHold
<1>3. ASSUME NEW i \in DOMAIN c.guidance[g] PROVE StepIsValid(c, c.guidance[g], i)
  <2> DEFINE steps == UNION {{<<h, j>> : j \in DOMAIN c.guidance[h]} : h \in DOMAIN c.guidance}
  <2>1. <<g, i>> \in steps
    OBVIOUS
  <2>2. \A p \in steps : StepIsValid(c, c.guidance[p[1]], p[2])
    BY <1>1 DEF GuidanceIsValid
  <2>3. StepIsValid(c, c.guidance[<<g, i>>[1]], <<g, i>>[2])
    BY <2>1, <2>2
  <2> QED BY <2>3
<1> QED BY <1>2, <1>3

-----------------------------------------------------------------------------
(* What is installed has passed the rules. *)

InstalledIsAccepted == Built => Accepted(installed)

LEMMA InstalledInit == Init => InstalledIsAccepted
BY DEF Init, InstalledIsAccepted, Built

LEMMA InstalledStep == InstalledIsAccepted /\ [Next]_vars => InstalledIsAccepted'
<1> SUFFICES ASSUME InstalledIsAccepted, [Next]_vars PROVE InstalledIsAccepted'
  OBVIOUS
<1>1. CASE Release
  BY <1>1 DEF Release, InstalledIsAccepted, Built
<1>2. CASE UNCHANGED installed
  BY <1>2 DEF InstalledIsAccepted, Built
<1>3. ASSUME NEW m, Plays(m) PROVE UNCHANGED installed
  BY <1>3 DEF Plays
<1>4. ASSUME Docked /\ (EnterSite \/ Buy) PROVE UNCHANGED installed
  BY <1>3, <1>4 DEF EnterSite, Buy
<1>5. ASSUME Flying /\ (Dock \/ TakeDamage \/ Fire \/ TakeLoot \/ LoseShip) PROVE UNCHANGED installed
  BY <1>3, <1>5 DEF Dock, TakeDamage, Fire, TakeLoot, LoseShip
<1>6. ASSUME Edit \/ NewCampaign \/ Save \/ Load \/ UNCHANGED vars PROVE UNCHANGED installed
  BY <1>6 DEF Edit, NewCampaign, Save, Load, vars
<1> QED BY <1>1, <1>2, <1>4, <1>5, <1>6 DEF Next

LEMMA InstalledHolds == Spec => []InstalledIsAccepted
<1> QED BY InstalledInit, InstalledStep, PTL DEF Spec

\* Whatever is done of a chain of guidance, it can be finished: the least step
\* that is not done requires earlier ones only, and checkGuidance() holds every
\* step to be skippable or within reach of any play.
THEOREM GuidanceIsFinite == Spec => []GuidanceCanBeFinished
<1>1. InstalledIsAccepted => GuidanceCanBeFinished
  <2> SUFFICES ASSUME InstalledIsAccepted, Built, NEW g \in DOMAIN installed.guidance,
                      NEW done \in (SUBSET {installed.guidance[g][i].id : i \in DOMAIN installed.guidance[g]})
                                     \ {{installed.guidance[g][i].id : i \in DOMAIN installed.guidance[g]}}
               PROVE  \E i \in DOMAIN installed.guidance[g] :
                        /\ installed.guidance[g][i].id \notin done
                        /\ installed.guidance[g][i].requires \subseteq done
                        /\ \/ installed.guidance[g][i].skippable
                           \/ installed.guidance[g][i].predicate \in AlwaysSatisfiable
    BY DEF GuidanceCanBeFinished
  <2>1. Accepted(installed)
    BY DEF InstalledIsAccepted
  <2> DEFINE chain == installed.guidance[g]
  <2>2. IsList(chain) /\ \A i \in DOMAIN chain : StepIsValid(installed, chain, i)
    BY <2>1, ChainsCanBeFinished
  <2>3. done \subseteq {chain[i].id : i \in DOMAIN chain} /\ done # {chain[i].id : i \in DOMAIN chain}
    OBVIOUS
  <2> HIDE DEF chain
  <2>4. \E i \in DOMAIN chain : /\ chain[i].id \notin done /\ chain[i].requires \subseteq done
                                /\ chain[i].skippable \/ chain[i].predicate \in AlwaysSatisfiable
    BY <2>2, <2>3, ChainCanBeFinished
  <2> QED BY <2>4 DEF chain
<1> QED BY <1>1, InstalledHolds, PTL

-----------------------------------------------------------------------------
(* Fits. *)

\* In every slot is what may be there.
SlotIsRight(c, hull, fit, s) ==
  /\ c.modules[fit[s].module].slot = s[1] /\ ~ s[2] >= c.hulls[hull].slots[s[1]]
  /\ fit[s].rounds > 0 => Loads(c, fit[s].module, fit[s].ammunition)
  /\ ~ fit[s].rounds > c.modules[fit[s].module].magazine

Hardpoints(c, fit, kind) ==
  Cardinality({s \in DOMAIN fit : c.modules[fit[s].module].hardpoint = kind})

Draws(c, fit, r) ==
  SumFunction([s \in {x \in DOMAIN fit : fit[x].online} |-> c.modules[fit[s].module].use[r]])

LEMMA NothingBreaks ==
  ASSUME NEW c, NEW hull, NEW fit
  PROVE  /\ StructuralViolations(c, hull, fit) = {} <=>
              /\ \A s \in DOMAIN fit : SlotIsRight(c, hull, fit, s)
              /\ \A kind \in HardpointKinds : ~ Hardpoints(c, fit, kind) > c.hulls[hull].hardpoints[kind]
         /\ ResourceViolations(c, hull, fit) = {} <=>
              \A r \in Resources : ~ Draws(c, fit, r) > c.hulls[hull].output[r]
         /\ FitBreaks(c, hull, fit) = {} <=>
              StructuralViolations(c, hull, fit) = {} /\ ResourceViolations(c, hull, fit) = {}
<1> DEFINE Bad == {s \in DOMAIN fit : ~ SlotIsRight(c, hull, fit, s)}
           Over == {kind \in HardpointKinds : Hardpoints(c, fit, kind) > c.hulls[hull].hardpoints[kind]}
<1>1. StructuralViolations(c, hull, fit) = Bad \cup Over
  <2>1. Bad = {s \in DOMAIN fit :
                 \/ c.modules[fit[s].module].slot # s[1] \/ s[2] >= c.hulls[hull].slots[s[1]]
                 \/ fit[s].rounds > 0 /\ ~Loads(c, fit[s].module, fit[s].ammunition)
                 \/ fit[s].rounds > c.modules[fit[s].module].magazine}
    BY Zenon DEF SlotIsRight
  <2>2. Over = {kind \in HardpointKinds :
                  Cardinality({s \in DOMAIN fit : c.modules[fit[s].module].hardpoint = kind})
                    > c.hulls[hull].hardpoints[kind]}
    BY DEF Hardpoints
  <2> HIDE DEF Bad, Over
  <2> QED BY <2>1, <2>2 DEF StructuralViolations
<1>2. Bad \cup Over = {} <=> Bad = {} /\ Over = {}
  <2> HIDE DEF Bad, Over
  <2> QED OBVIOUS
<1>3. Bad = {} <=> \A s \in DOMAIN fit : SlotIsRight(c, hull, fit, s)
  OBVIOUS
<1>4. Over = {} <=> \A kind \in HardpointKinds : ~ Hardpoints(c, fit, kind) > c.hulls[hull].hardpoints[kind]
  OBVIOUS
<1>5. ResourceViolations(c, hull, fit) = {r \in Resources : Draws(c, fit, r) > c.hulls[hull].output[r]}
  BY DEF ResourceViolations, Draws
<1>6. FitBreaks(c, hull, fit) = {} <=>
        StructuralViolations(c, hull, fit) = {} /\ ResourceViolations(c, hull, fit) = {}
  BY DEF FitBreaks
<1> HIDE DEF Bad, Over
<1>7. StructuralViolations(c, hull, fit) = {} <=> Bad = {} /\ Over = {}
  BY <1>1, <1>2
<1>8. ResourceViolations(c, hull, fit) = {} <=> \A r \in Resources : ~ Draws(c, fit, r) > c.hulls[hull].output[r]
  BY <1>5
<1> QED BY <1>3, <1>4, <1>6, <1>7, <1>8

\* A fit whose slots are those of the numbers in I, and counts as they do.
Numbers(fit, I, b, modules, on) ==
  /\ IsFiniteSet(I) /\ OneToOne(b, I) /\ DOMAIN fit = {b[i] : i \in I}
  /\ \A i \in I : fit[b[i]].module = modules[i] /\ fit[b[i]].online = on[i] /\ on[i] \in BOOLEAN

CountsAs(c, fit, I, modules) ==
  /\ IsFiniteSet(DOMAIN fit) /\ Cardinality(DOMAIN fit) = Cardinality(I)
  /\ \A kind : Hardpoints(c, fit, kind) = Cardinality({i \in I : c.modules[modules[i]].hardpoint = kind})

LEMMA NumbersCount ==
  ASSUME NEW c, NEW fit, NEW I, NEW b, NEW modules, NEW on, Numbers(fit, I, b, modules, on)
  PROVE  CountsAs(c, fit, I, modules)
<1>1. IsFiniteSet(DOMAIN fit) /\ Cardinality(DOMAIN fit) = Cardinality(I)
  BY CountRelabelled DEF Numbers
<1>2. ASSUME NEW kind
      PROVE  Hardpoints(c, fit, kind) = Cardinality({i \in I : c.modules[modules[i]].hardpoint = kind})
  <2> DEFINE J == {i \in I : c.modules[modules[i]].hardpoint = kind}
  <2>1. {s \in DOMAIN fit : c.modules[fit[s].module].hardpoint = kind} = {b[i] : i \in J}
    BY DEF Numbers
  <2>2. IsFiniteSet(J) /\ OneToOne(b, J)
    BY FS_Subset DEF Numbers, OneToOne
  <2> HIDE DEF J
  <2>3. Cardinality({b[i] : i \in J}) = Cardinality(J)
    BY <2>2, CountRelabelled
  <2> QED BY <2>1, <2>3 DEF Hardpoints, J
<1> QED BY <1>1, <1>2 DEF CountsAs

DrawsAs(c, fit, I, modules, on, r) ==
  Draws(c, fit, r) = SumFunction([i \in {j \in I : on[j]} |-> c.modules[modules[i]].use[r]])

LEMMA NumbersDraw ==
  ASSUME NEW c, NEW fit, NEW I, NEW b, NEW modules, NEW on, Numbers(fit, I, b, modules, on),
         NEW r, \A i \in I : c.modules[modules[i]].use[r] \in Int
  PROVE  DrawsAs(c, fit, I, modules, on, r)
<1> DEFINE J == {j \in I : on[j]}
           S == {x \in DOMAIN fit : fit[x].online}
           p == [i \in J |-> c.modules[modules[i]].use[r]]
           q == [s \in S |-> c.modules[fit[s].module].use[r]]
<1>1. DOMAIN p = J /\ \A i \in J : p[i] \in Int /\ p[i] = c.modules[modules[i]].use[r]
  OBVIOUS
<1>2. DOMAIN q = S /\ \A s \in S : q[s] = c.modules[fit[s].module].use[r]
  OBVIOUS
<1>3. IsFiniteSet(J) /\ OneToOne(b, J)
  BY FS_Subset DEF Numbers, OneToOne
<1>4. S = {b[i] : i \in J} /\ \A i \in J : fit[b[i]].module = modules[i]
  BY DEF Numbers
<1>5. Draws(c, fit, r) = SumFunction(q)
  BY DEF Draws
<1> HIDE DEF p, q, J, S
<1>6. \A i \in J : b[i] \in S
  BY <1>4
<1>7. \A i \in J : q[b[i]] = p[i]
  BY <1>1, <1>2, <1>4, <1>6
<1>8. SumFunction(q) = SumFunction(p)
  BY <1>1, <1>2, <1>3, <1>4, <1>7, SumRelabelled
<1> QED BY <1>5, <1>8 DEF DrawsAs, p, J

-----------------------------------------------------------------------------
(* Opponents. *)

KindOf(c, p, i) == c.modules[c.profiles[p].modules[i]].slot
IndexOf(c, p, i) == Cardinality({j \in 1..(i - 1) : KindOf(c, p, j) = KindOf(c, p, i)})
Armed(c, p, i) ==
  c.modules[c.profiles[p].modules[i]].category = "turret" /\ c.profiles[p].ammunition # None

NpcEntry(c, p, i) ==
  [module |-> c.profiles[p].modules[i], online |-> TRUE,
   ammunition |-> IF Armed(c, p, i) THEN c.profiles[p].ammunition ELSE None,
   rounds |-> IF Armed(c, p, i) THEN c.modules[c.profiles[p].modules[i]].magazine ELSE 0]

\* What the rules say of a profile and of what it is made of.
ProfileIsSound(c, p) ==
  LET profile == c.profiles[p]
  IN  /\ IsList(profile.modules) /\ profile.reserve \in Nat
      /\ profile.hull \in DOMAIN c.hulls /\ profile.loot \in DOMAIN c.loot /\ HullFits(c.hulls[profile.hull])
      /\ \A i \in DOMAIN profile.modules :
           profile.modules[i] \in DOMAIN c.modules /\ ModuleFits(c.modules[profile.modules[i]])
      /\ profile.ammunition \in DOMAIN c.ammunition \cup {None}
      /\ NpcProfileIsValid(c, p)

LEMMA ProfilesAreSound ==
  ASSUME NEW c, Accepted(c), NEW p \in DOMAIN c.profiles
  PROVE  ProfileIsSound(c, p)
<1>1. SchemasHold(c) /\ NpcProfileResolves(c, p) /\ NpcProfileIsValid(c, p)
  BY DEF Accepted, ReferencesResolve
<1>2. /\ c.profiles[p].hull \in DOMAIN c.hulls /\ c.profiles[p].loot \in DOMAIN c.loot
      /\ \A i \in DOMAIN c.profiles[p].modules : c.profiles[p].modules[i] \in DOMAIN c.modules
      /\ c.profiles[p].ammunition \in DOMAIN c.ammunition \cup {None}
  BY <1>1 DEF NpcProfileResolves
<1>3. IsList(c.profiles[p].modules) /\ c.profiles[p].reserve \in Nat
  BY <1>1 DEF SchemasHold
<1>4. HullFits(c.hulls[c.profiles[p].hull])
  BY <1>1, <1>2 DEF SchemasHold
<1>5. \A i \in DOMAIN c.profiles[p].modules : ModuleFits(c.modules[c.profiles[p].modules[i]])
  BY <1>1, <1>2 DEF SchemasHold
<1> QED BY <1>1, <1>2, <1>3, <1>4, <1>5 DEF ProfileIsSound

\* A module that comes later in its kind has a greater index.
LEMMA IndexesGrow ==
  ASSUME NEW c, NEW p, NEW i \in Nat \ {0}, NEW j \in Nat, i < j, KindOf(c, p, i) = KindOf(c, p, j)
  PROVE  IndexOf(c, p, i) \in Nat /\ IndexOf(c, p, j) \in Nat /\ IndexOf(c, p, i) < IndexOf(c, p, j)
<1> DEFINE A == {k \in 1..(i - 1) : KindOf(c, p, k) = KindOf(c, p, i)}
           B == {k \in 1..(j - 1) : KindOf(c, p, k) = KindOf(c, p, j)}
<1>1. A \cup {i} \in SUBSET B /\ i \notin A
  OBVIOUS
<1>2. IsFiniteSet(A) /\ IsFiniteSet(B)
  <2>1. IsFiniteSet(1..(i - 1)) /\ IsFiniteSet(1..(j - 1))
    BY FS_Interval
  <2> QED BY <2>1, FS_Subset
<1>3. IndexOf(c, p, i) = Cardinality(A) /\ IndexOf(c, p, j) = Cardinality(B)
  BY DEF IndexOf
<1> HIDE DEF A, B
<1>4. Cardinality(A \cup {i}) = Cardinality(A) + 1 /\ Cardinality(A \cup {i}) <= Cardinality(B)
  BY <1>1, <1>2, FS_AddElement, FS_Subset
<1>5. Cardinality(A) \in Nat /\ Cardinality(B) \in Nat
  BY <1>2, FS_CardinalityType
<1> QED BY <1>3, <1>4, <1>5

\* Every module finds a slot of its kind, and no two the same.
LEMMA IndexesFit ==
  ASSUME NEW c, NEW p, ProfileIsSound(c, p), NEW i \in DOMAIN c.profiles[p].modules
  PROVE  /\ IndexOf(c, p, i) < c.hulls[c.profiles[p].hull].slots[KindOf(c, p, i)]
         /\ IndexOf(c, p, i) \in Nat
<1> DEFINE mods == c.profiles[p].modules
           kind == KindOf(c, p, i)
           A == {k \in 1..(i - 1) : KindOf(c, p, k) = kind}
           B == {k \in DOMAIN mods : KindOf(c, p, k) = kind}
<1>1. DOMAIN mods = 1..Len(mods) /\ Len(mods) \in Nat
  BY DEF ProfileIsSound, IsList
<1>2. A \cup {i} \in SUBSET B /\ i \notin A
  BY <1>1
<1>3. IsFiniteSet(A) /\ IsFiniteSet(B)
  <2>1. i - 1 \in Int /\ Len(mods) \in Int /\ 1 \in Int
    BY <1>1
  <2>2. IsFiniteSet(1..(i - 1)) /\ IsFiniteSet(1..Len(mods))
    BY <2>1, FS_Interval
  <2> QED BY <1>1, <2>2, FS_Subset
<1>4. Cardinality(B) <= c.hulls[c.profiles[p].hull].slots[kind]
  <2>1. kind \in SlotKinds
    BY DEF ProfileIsSound, ModuleFits, KindOf
  <2>2. FitIsValid(c, c.profiles[p].hull, mods)
    BY DEF ProfileIsSound, NpcProfileIsValid
  <2>3. CountOf(mods, LAMBDA m : c.modules[m].slot = kind) <= c.hulls[c.profiles[p].hull].slots[kind]
    <3> HIDE DEF kind, mods
    <3> QED BY <2>1, <2>2 DEF FitIsValid
  <2> QED BY <2>3 DEF CountOf, KindOf
<1>5. c.hulls[c.profiles[p].hull].slots[kind] \in Nat
  BY DEF ProfileIsSound, HullFits, ModuleFits, KindOf
<1>6. IndexOf(c, p, i) = Cardinality(A)
  BY DEF IndexOf
<1> HIDE DEF A, B
<1>7. Cardinality(A \cup {i}) = Cardinality(A) + 1 /\ Cardinality(A \cup {i}) <= Cardinality(B)
  BY <1>2, <1>3, FS_AddElement, FS_Subset
<1>8. Cardinality(A) \in Nat /\ Cardinality(B) \in Nat
  BY <1>3, FS_CardinalityType
<1> QED BY <1>4, <1>5, <1>6, <1>7, <1>8

NpcSlots(c, p) == [i \in DOMAIN c.profiles[p].modules |-> Slot(KindOf(c, p, i), IndexOf(c, p, i))]

LEMMA NpcSlotsAreApart ==
  ASSUME NEW c, NEW p, IsList(c.profiles[p].modules)
  PROVE  OneToOne(NpcSlots(c, p), DOMAIN c.profiles[p].modules)
<1> SUFFICES ASSUME NEW i \in DOMAIN c.profiles[p].modules, NEW j \in DOMAIN c.profiles[p].modules,
                    NpcSlots(c, p)[i] = NpcSlots(c, p)[j], i # j
             PROVE  FALSE
  BY DEF OneToOne
<1>1. KindOf(c, p, i) = KindOf(c, p, j) /\ IndexOf(c, p, i) = IndexOf(c, p, j)
  BY DEF NpcSlots, Slot
<1>2. i \in Nat \ {0} /\ j \in Nat \ {0}
  BY DEF IsList
<1>3. CASE i < j
  BY <1>1, <1>2, <1>3, IndexesGrow
<1>4. CASE j < i
  BY <1>1, <1>2, <1>4, IndexesGrow
<1> QED BY <1>2, <1>3, <1>4

WearsAll(c, p) ==
  /\ DOMAIN NpcFit(c, p) = {NpcSlots(c, p)[i] : i \in DOMAIN c.profiles[p].modules}
  /\ \A i \in DOMAIN c.profiles[p].modules : NpcFit(c, p)[NpcSlots(c, p)[i]] = NpcEntry(c, p, i)

\* planNpcFit() leaves no module of an accepted profile aside.
LEMMA NpcWears ==
  ASSUME NEW c, NEW p, ProfileIsSound(c, p)
  PROVE  WearsAll(c, p)
<1> DEFINE I == DOMAIN c.profiles[p].modules
           worn == {i \in I : IndexOf(c, p, i) < c.hulls[c.profiles[p].hull].slots[KindOf(c, p, i)]}
           at(s) == CHOOSE i \in worn : Slot(KindOf(c, p, i), IndexOf(c, p, i)) = s
<1>1. NpcFit(c, p) = [s \in {Slot(KindOf(c, p, i), IndexOf(c, p, i)) : i \in worn} |-> NpcEntry(c, p, at(s))]
  BY DEF NpcFit, KindOf, IndexOf, NpcEntry, Armed
<1>2. worn = I
  BY IndexesFit
<1>3. \A i \in I : NpcSlots(c, p)[i] = Slot(KindOf(c, p, i), IndexOf(c, p, i))
  BY DEF NpcSlots
<1>4. OneToOne(NpcSlots(c, p), I)
  BY NpcSlotsAreApart DEF ProfileIsSound
<1>5. ASSUME NEW i \in I PROVE at(NpcSlots(c, p)[i]) = i
  <2> HIDE DEF worn, I
  <2>1. i \in worn /\ Slot(KindOf(c, p, i), IndexOf(c, p, i)) = NpcSlots(c, p)[i]
    BY <1>2, <1>3
  <2>2. \A j \in worn : Slot(KindOf(c, p, j), IndexOf(c, p, j)) = NpcSlots(c, p)[i] => j = i
    BY <1>2, <1>3, <1>4 DEF OneToOne
  <2> QED BY <2>1, <2>2
<1> HIDE DEF worn, I, at
<1>6. DOMAIN NpcFit(c, p) = {NpcSlots(c, p)[i] : i \in I}
  BY <1>1, <1>2, <1>3
<1>7. \A i \in I : NpcFit(c, p)[NpcSlots(c, p)[i]] = NpcEntry(c, p, i)
  BY <1>1, <1>2, <1>3, <1>5
<1> QED BY <1>6, <1>7 DEF I, WearsAll

LEMMA NpcNumbers ==
  ASSUME NEW c, NEW p, ProfileIsSound(c, p)
  PROVE  Numbers(NpcFit(c, p), DOMAIN c.profiles[p].modules, NpcSlots(c, p), c.profiles[p].modules,
                 [i \in DOMAIN c.profiles[p].modules |-> TRUE])
<1> DEFINE I == DOMAIN c.profiles[p].modules
           all == [i \in I |-> TRUE]
<1>1. IsList(c.profiles[p].modules)
  BY DEF ProfileIsSound
<1>2. IsFiniteSet(I)
  <2>1. I = 1..Len(c.profiles[p].modules) /\ Len(c.profiles[p].modules) \in Int /\ 1 \in Int
    BY <1>1 DEF IsList
  <2> QED BY <2>1, FS_Interval
<1>3. OneToOne(NpcSlots(c, p), I)
  BY <1>1, NpcSlotsAreApart
<1>0. WearsAll(c, p)
  BY NpcWears
<1>4. \A i \in I : NpcFit(c, p)[NpcSlots(c, p)[i]] = NpcEntry(c, p, i)
  BY <1>0 DEF WearsAll
<1>5. DOMAIN NpcFit(c, p) = {NpcSlots(c, p)[i] : i \in I}
  BY <1>0 DEF WearsAll
<1>6. \A i \in I : /\ NpcFit(c, p)[NpcSlots(c, p)[i]].module = c.profiles[p].modules[i]
                   /\ NpcFit(c, p)[NpcSlots(c, p)[i]].online = all[i] /\ all[i] \in BOOLEAN
  <2>1. \A i \in I : all[i] = TRUE
    OBVIOUS
  <2>2. \A i \in I : NpcEntry(c, p, i).module = c.profiles[p].modules[i] /\ NpcEntry(c, p, i).online = TRUE
    BY DEF NpcEntry
  <2> HIDE DEF all, I
  <2> QED BY <1>4, <2>1, <2>2
<1> HIDE DEF all, I
<1>7. Numbers(NpcFit(c, p), I, NpcSlots(c, p), c.profiles[p].modules, all)
  BY <1>2, <1>3, <1>5, <1>6 DEF Numbers
<1> QED BY <1>7 DEF all, I

LEMMA NpcSlotsAreRight ==
  ASSUME NEW c, NEW p, ProfileIsSound(c, p), NEW s \in DOMAIN NpcFit(c, p)
  PROVE  /\ SlotIsRight(c, c.profiles[p].hull, NpcFit(c, p), s)
         /\ c.modules[NpcFit(c, p)[s].module].category = "turret" => NpcFit(c, p)[s].rounds > 0
         /\ \E i \in DOMAIN c.profiles[p].modules : s = NpcSlots(c, p)[i] /\ NpcFit(c, p)[s] = NpcEntry(c, p, i)
<1>1. PICK i \in DOMAIN c.profiles[p].modules : s = NpcSlots(c, p)[i] /\ NpcFit(c, p)[s] = NpcEntry(c, p, i)
  <2>0. WearsAll(c, p)
    BY NpcWears
  <2>1. s \in {NpcSlots(c, p)[j] : j \in DOMAIN c.profiles[p].modules}
    BY <2>0 DEF WearsAll
  <2>2. PICK j \in DOMAIN c.profiles[p].modules : s = NpcSlots(c, p)[j]
    BY <2>1
  <2> QED BY <2>0, <2>2 DEF WearsAll
<1> DEFINE m == c.modules[c.profiles[p].modules[i]]
           a == c.profiles[p].ammunition
<1>2. s[1] = m.slot /\ s[2] = IndexOf(c, p, i)
  BY <1>1 DEF NpcSlots, Slot, KindOf
<1>3. /\ NpcFit(c, p)[s].module = c.profiles[p].modules[i]
      /\ NpcFit(c, p)[s].ammunition = IF Armed(c, p, i) THEN a ELSE None
      /\ NpcFit(c, p)[s].rounds = IF Armed(c, p, i) THEN m.magazine ELSE 0
  BY <1>1 DEF NpcEntry
<1>4. /\ IndexOf(c, p, i) < c.hulls[c.profiles[p].hull].slots[m.slot]
      /\ IndexOf(c, p, i) \in Nat
  BY IndexesFit DEF KindOf
<1>5. ModuleFits(m) /\ HullFits(c.hulls[c.profiles[p].hull]) /\ NpcProfileIsValid(c, p)
  BY DEF ProfileIsSound
<1>6. m.category = "turret" => a # None /\ Loads(c, c.profiles[p].modules[i], a)
  BY <1>5 DEF NpcProfileIsValid, Turrets
<1>7. /\ m.magazine \in Nat
      /\ m.category = "turret" => m.magazine > 0
      /\ c.hulls[c.profiles[p].hull].slots[m.slot] \in Nat
  BY <1>5 DEF ModuleFits, HullFits
<1> DEFINE room == c.hulls[c.profiles[p].hull].slots[m.slot]
           rounds == NpcFit(c, p)[s].rounds
           full == m.magazine
           category == m.category
           armed == Armed(c, p, i)
<1>a. room \in Nat /\ full \in Nat /\ (category = "turret" => full > 0) /\ rounds = IF armed THEN full ELSE 0
  <2>1. room \in Nat /\ full \in Nat /\ (category = "turret" => full > 0)
    BY <1>7
  <2>2. rounds = IF armed THEN full ELSE 0
    BY <1>3
  <2> QED BY <2>1, <2>2
<1>b. armed <=> category = "turret" /\ a # None
  BY DEF Armed
<1>8. ~ s[2] >= c.hulls[c.profiles[p].hull].slots[s[1]]
  <2>1. IndexOf(c, p, i) < room /\ IndexOf(c, p, i) \in Nat
    BY <1>4
  <2> HIDE DEF room
  <2>2. ~ IndexOf(c, p, i) >= room
    BY <1>a, <2>1
  <2> QED BY <1>2, <2>2 DEF room
<1>9. ~ NpcFit(c, p)[s].rounds > m.magazine
  <2> HIDE DEF rounds, full, armed, category, room
  <2>1. ~ rounds > full
    BY <1>a
  <2> QED BY <2>1 DEF rounds, full
<1>10. NpcFit(c, p)[s].rounds > 0 => Loads(c, NpcFit(c, p)[s].module, NpcFit(c, p)[s].ammunition)
  BY <1>3, <1>6 DEF Armed
<1>11. m.category = "turret" => NpcFit(c, p)[s].rounds > 0
  <2> HIDE DEF rounds, full, armed, category
  <2>1. category = "turret" => a # None
    BY <1>6 DEF category
  <2>2. category = "turret" => rounds > 0
    BY <1>a, <1>b, <2>1
  <2> QED BY <2>2 DEF rounds, category
<1> QED BY <1>1, <1>2, <1>3, <1>8, <1>9, <1>10, <1>11 DEF SlotIsRight

LEMMA NpcFits ==
  ASSUME NEW c, NEW p, ProfileIsSound(c, p)
  PROVE  /\ Cardinality(DOMAIN NpcFit(c, p)) = Len(c.profiles[p].modules)
         /\ FitBreaks(c, c.profiles[p].hull, NpcFit(c, p)) = {}
<1> DEFINE mods == c.profiles[p].modules
           I == DOMAIN mods
           fit == NpcFit(c, p)
           hull == c.hulls[c.profiles[p].hull]
           all == [i \in I |-> TRUE]
<1>1. Numbers(fit, I, NpcSlots(c, p), mods, all)
  BY NpcNumbers
<1>2. I = 1..Len(mods) /\ Len(mods) \in Nat
  BY DEF ProfileIsSound, IsList
<1>3. /\ HullFits(hull) /\ FitIsValid(c, c.profiles[p].hull, mods)
      /\ \A i \in I : ModuleFits(c.modules[mods[i]])
  BY DEF ProfileIsSound, NpcProfileIsValid
<1>4. \A s \in DOMAIN fit : SlotIsRight(c, c.profiles[p].hull, fit, s)
  BY NpcSlotsAreRight
<1> HIDE DEF fit, all
<1>5. Cardinality(DOMAIN fit) = Len(mods)
  <2>1. Cardinality(DOMAIN fit) = Cardinality(I)
    BY <1>1, NumbersCount DEF CountsAs
  <2>2. Cardinality(1..Len(mods)) = Len(mods)
    <3> DEFINE n == Len(mods)
    <3>1. n \in Nat
      BY <1>2
    <3> HIDE DEF n
    <3>2. n \in Int /\ 1 \in Int /\ (IF 1 > n THEN 0 ELSE n - 1 + 1) = n
      BY <3>1
    <3>3. Cardinality(1..n) = IF 1 > n THEN 0 ELSE n - 1 + 1
      BY <3>2, FS_Interval
    <3> QED BY <3>2, <3>3 DEF n
  <2> QED BY <1>2, <2>1, <2>2
<1>6. ASSUME NEW kind \in HardpointKinds PROVE ~ Hardpoints(c, fit, kind) > hull.hardpoints[kind]
  <2> DEFINE J == {i \in I : c.modules[mods[i]].hardpoint = kind}
  <2>1. Hardpoints(c, fit, kind) = Cardinality(J)
    <3> DEFINE b == NpcSlots(c, p)
    <3>1. Numbers(fit, I, b, mods, all)
      BY <1>1
    <3> HIDE DEF mods, I, b
    <3>2. CountsAs(c, fit, I, mods)
      BY <3>1, NumbersCount
    <3> QED BY <3>2 DEF CountsAs
  <2>2. CountOf(mods, LAMBDA m : c.modules[m].hardpoint = kind) <= hull.hardpoints[kind]
    BY <1>3 DEF FitIsValid
  <2>3. Cardinality(J) <= hull.hardpoints[kind]
    BY <2>2 DEF CountOf
  <2>4. Cardinality(J) \in Nat
    <3>1. IsFiniteSet(J)
      BY <1>1, FS_Subset DEF Numbers
    <3> HIDE DEF J
    <3> QED BY <3>1, FS_CardinalityType
  <2>5. hull.hardpoints[kind] \in Nat
    BY <1>3 DEF HullFits
  <2> HIDE DEF J, hull
  <2> QED BY <2>1, <2>3, <2>4, <2>5
<1>7. ASSUME NEW r \in Resources PROVE ~ Draws(c, fit, r) > hull.output[r]
  <2>1. \A i \in I : c.modules[mods[i]].use[r] \in Nat
    BY <1>3 DEF ModuleFits
  <2> DEFINE use == [i \in I |-> c.modules[mods[i]].use[r]]
  <2>2. {j \in I : all[j]} = I
    BY DEF all
  <2>3. Draws(c, fit, r) = SumFunction(use)
    <3>1. \A i \in I : c.modules[mods[i]].use[r] \in Int
      BY <2>1
    <3>2. Draws(c, fit, r) = SumFunction([i \in {j \in I : all[j]} |-> c.modules[mods[i]].use[r]])
      <4> DEFINE b == NpcSlots(c, p)
      <4>1. Numbers(fit, I, b, mods, all)
        BY <1>1
      <4> HIDE DEF mods, I, b
      <4>2. DrawsAs(c, fit, I, mods, all, r)
        BY <3>1, <4>1, NumbersDraw
      <4> QED BY <4>2 DEF DrawsAs
    <3> QED BY <2>2, <3>2
  <2>4. TotalOf(mods, LAMBDA m : c.modules[m].use[r]) <= hull.output[r]
    BY <1>3 DEF FitIsValid
  <2>5. SumFunction(use) <= hull.output[r]
    BY <2>4 DEF TotalOf
  <2>6. SumFunction(use) \in Nat
    <3>1. IsFiniteSet(DOMAIN use) /\ \A i \in DOMAIN use : use[i] \in Nat
      BY <1>1, <2>1 DEF Numbers
    <3> HIDE DEF use
    <3> QED BY <3>1, SumType
  <2>7. hull.output[r] \in Nat
    BY <1>3 DEF HullFits
  <2> HIDE DEF use, hull
  <2> QED BY <2>3, <2>5, <2>6, <2>7
<1> HIDE DEF mods
<1> QED BY <1>4, <1>5, <1>6, <1>7, NothingBreaks DEF fit, mods

-----------------------------------------------------------------------------
(* Goods and their volume. *)

LEMMA VolumeOfNothing == ASSUME NEW c PROVE VolumeIn(c, NoGoods) = 0
<1> DEFINE r == [id \in DOMAIN NoGoods |-> NoGoods[id] * VolumeOf(c, id)]
<1>1. DOMAIN r = {}
  BY DEF NoGoods
<1> HIDE DEF r
<1>2. SumFunction(r) = 0
  BY <1>1, SumOfNone
<1> QED BY <1>2 DEF VolumeIn, r

LEMMA VolumeOfOneKind ==
  ASSUME NEW c, NEW id, NEW n \in Nat, VolumeOf(c, id) \in Nat
  PROVE  /\ With(NoGoods, id, n) = [x \in {id} |-> n]
         /\ VolumeIn(c, With(NoGoods, id, n)) = n * VolumeOf(c, id)
<1> DEFINE goods == With(NoGoods, id, n)
           r == [x \in DOMAIN goods |-> goods[x] * VolumeOf(c, x)]
<1>1. goods = [x \in {id} |-> n]
  <2>1. DOMAIN NoGoods \cup {id} = {id} /\ \A x : Of(NoGoods, x) = 0
    BY DEF NoGoods, Of
  <2>2. \A x \in {id} : Of(NoGoods, x) + (IF x = id THEN n ELSE 0) = n
    BY <2>1
  <2> QED BY <2>1, <2>2 DEF With
<1>2. VolumeIn(c, goods) = SumFunction(r)
  BY DEF VolumeIn
<1>3. DOMAIN r = {id} /\ r[id] = n * VolumeOf(c, id)
  BY <1>1
<1>4. n * VolumeOf(c, id) \in Int
  OBVIOUS
<1> HIDE DEF r
<1>5. SumFunction(r) = r[id]
  BY <1>3, <1>4, SumOfOne
<1> QED BY <1>1, <1>2, <1>3, <1>5

\* An identifier names a definition of one kind at most.
LEMMA KindsAreApart ==
  ASSUME NEW c, SchemasHold(c), NEW k \in Kinds, NEW id, id \in DOMAIN Definitions(c)[k]
  PROVE  /\ id \in Ids[k] /\ id # None
         /\ \A l \in Kinds \ {k} : id \notin Ids[l] /\ id \notin DOMAIN Definitions(c)[l]
<1>1. \A l \in Kinds : DOMAIN Definitions(c)[l] \subseteq Ids[l]
  BY DEF SchemasHold
<1> QED BY <1>1, IdsAssumption

\* What the schemas say of goods.
LEMMA GoodsAreSound ==
  ASSUME NEW c, SchemasHold(c)
  PROVE  /\ \A id \in Physical(c) : VolumeOf(c, id) \in Nat /\ id # None
         /\ \A id \in DOMAIN c.hulls : id \notin Physical(c) /\ Value(c, id) = c.hulls[id].value /\ id # None
         /\ \A id \in DOMAIN c.modules : Value(c, id) = c.modules[id].value /\ id \notin DOMAIN c.ammunition
         /\ \A id \in DOMAIN c.ammunition : Value(c, id) = c.ammunition[id].value
<1>1. /\ \A id \in DOMAIN c.items : id # None /\ id \notin DOMAIN c.modules /\ id \notin DOMAIN c.ammunition
      /\ \A id \in DOMAIN c.modules : id # None /\ id \notin DOMAIN c.items /\ id \notin DOMAIN c.ammunition
      /\ \A id \in DOMAIN c.ammunition : id # None /\ id \notin DOMAIN c.items /\ id \notin DOMAIN c.modules
      /\ \A id \in DOMAIN c.hulls : /\ id # None /\ id \notin DOMAIN c.items
                                    /\ id \notin DOMAIN c.modules /\ id \notin DOMAIN c.ammunition
  <2>1. /\ {"item", "module", "ammunition", "hull"} \subseteq Kinds
        /\ Definitions(c)["item"] = c.items /\ Definitions(c)["module"] = c.modules
        /\ Definitions(c)["ammunition"] = c.ammunition /\ Definitions(c)["hull"] = c.hulls
    BY DEF Kinds, Definitions
  <2>2. \A k \in Kinds : \A id \in DOMAIN Definitions(c)[k] :
          id # None /\ \A l \in Kinds \ {k} : id \notin DOMAIN Definitions(c)[l]
    BY KindsAreApart
  <2>3. \A id \in DOMAIN Definitions(c)["item"] : id # None /\ \A l \in Kinds \ {"item"} : id \notin DOMAIN Definitions(c)[l]
    BY <2>1, <2>2
  <2>4. \A id \in DOMAIN Definitions(c)["module"] : id # None /\ \A l \in Kinds \ {"module"} : id \notin DOMAIN Definitions(c)[l]
    BY <2>1, <2>2
  <2>5. \A id \in DOMAIN Definitions(c)["ammunition"] : id # None /\ \A l \in Kinds \ {"ammunition"} : id \notin DOMAIN Definitions(c)[l]
    BY <2>1, <2>2
  <2>6. \A id \in DOMAIN Definitions(c)["hull"] : id # None /\ \A l \in Kinds \ {"hull"} : id \notin DOMAIN Definitions(c)[l]
    BY <2>1, <2>2
  <2> QED BY <2>1, <2>3, <2>4, <2>5, <2>6
<1>2. /\ \A id \in DOMAIN c.items : c.items[id].volume \in Nat
      /\ \A id \in DOMAIN c.modules : c.modules[id].volume \in Nat
      /\ \A id \in DOMAIN c.ammunition : c.ammunition[id].volume \in Nat
  BY DEF SchemasHold, ModuleFits
<1>3. ASSUME NEW id \in Physical(c) PROVE VolumeOf(c, id) \in Nat /\ id # None
  <2>1. CASE id \in DOMAIN c.items
    BY <1>1, <1>2, <2>1 DEF VolumeOf
  <2>2. CASE id \in DOMAIN c.modules
    BY <1>1, <1>2, <2>2 DEF VolumeOf
  <2>3. CASE id \in DOMAIN c.ammunition
    BY <1>1, <1>2, <2>3 DEF VolumeOf
  <2> QED BY <2>1, <2>2, <2>3 DEF Physical
<1>4. ASSUME NEW id \in DOMAIN c.hulls PROVE id \notin Physical(c) /\ Value(c, id) = c.hulls[id].value
  BY <1>1 DEF Physical, Value
<1>5. ASSUME NEW id \in DOMAIN c.modules PROVE Value(c, id) = c.modules[id].value
  BY <1>1 DEF Value
<1>6. ASSUME NEW id \in DOMAIN c.ammunition PROVE Value(c, id) = c.ammunition[id].value
  BY <1>1 DEF Value
<1> QED BY <1>1, <1>3, <1>4, <1>5, <1>6

LEMMA ReservesFit ==
  ASSUME NEW c, Accepted(c), NEW p \in DOMAIN c.profiles
  PROVE  CanBeSpawned(c, p)
<1> DEFINE profile == c.profiles[p]
           hold == c.hulls[profile.hull].hold
<1>1. ProfileIsSound(c, p) /\ SchemasHold(c)
  BY ProfilesAreSound DEF Accepted
<1>2. hold \in Nat /\ profile.reserve \in Nat
  BY <1>1 DEF ProfileIsSound, HullFits
<1>3. CASE profile.reserve > 0 /\ profile.ammunition # None
  <2> DEFINE a == profile.ammunition
             n == profile.reserve
  <2>1. a \in DOMAIN c.ammunition /\ n * VolumeOf(c, a) <= hold
    BY <1>1, <1>3 DEF ProfileIsSound, NpcProfileIsValid, ReserveRoundsFit
  <2>2. VolumeOf(c, a) \in Nat
    BY <1>1, <2>1, GoodsAreSound DEF Physical
  <2>3. ReserveOf(c, p) = With(NoGoods, a, n)
    BY <1>3 DEF ReserveOf
  <2>4. n \in Nat
    BY <1>2
  <2> HIDE DEF a, n
  <2>5. VolumeIn(c, With(NoGoods, a, n)) = n * VolumeOf(c, a)
    BY <2>2, <2>4, VolumeOfOneKind
  <2> QED BY <2>1, <2>3, <2>5 DEF CanBeSpawned
<1>4. CASE ~ (profile.reserve > 0 /\ profile.ammunition # None)
  <2>1. ReserveOf(c, p) = NoGoods
    BY <1>4 DEF ReserveOf
  <2>2. VolumeIn(c, ReserveOf(c, p)) = 0
    BY <2>1, VolumeOfNothing
  <2> HIDE DEF hold
  <2>3. 0 <= hold
    BY <1>2
  <2> QED BY <2>2, <2>3 DEF CanBeSpawned, hold
<1> QED BY <1>3, <1>4

\* Every encounter of accepted content can begin: checkReserveRounds() and
\* checkFitValidity() hold what planNpcFit() and createNpcShip() need, so no
\* arrival at a site abandons the advance of time.
THEOREM FightsCanBegin == Spec => []EveryFightCanBegin
<1>1. InstalledIsAccepted => EveryFightCanBegin
  <2> SUFFICES ASSUME InstalledIsAccepted, Built,
                      NEW e \in DOMAIN installed.encounters, NEW spawn \in installed.encounters[e].spawns
               PROVE  /\ CanBeSpawned(installed, spawn.profile)
                      /\ Cardinality(DOMAIN NpcFit(installed, spawn.profile))
                           = Len(installed.profiles[spawn.profile].modules)
                      /\ FitBreaks(installed, installed.profiles[spawn.profile].hull,
                                   NpcFit(installed, spawn.profile)) = {}
                      /\ \A s \in DOMAIN NpcFit(installed, spawn.profile) :
                           installed.modules[NpcFit(installed, spawn.profile)[s].module].category = "turret"
                             => NpcFit(installed, spawn.profile)[s].rounds > 0
    BY DEF EveryFightCanBegin
  <2> DEFINE c == installed
             p == spawn.profile
  <2>1. Accepted(c)
    BY DEF InstalledIsAccepted
  <2>2. p \in DOMAIN c.profiles
    BY <2>1 DEF Accepted, ReferencesResolve, EncounterResolves
  <2> HIDE DEF c, p
  <2>3. ProfileIsSound(c, p)
    BY <2>1, <2>2, ProfilesAreSound
  <2>4. CanBeSpawned(c, p)
    BY <2>1, <2>2, ReservesFit
  <2>5. Cardinality(DOMAIN NpcFit(c, p)) = Len(c.profiles[p].modules)
        /\ FitBreaks(c, c.profiles[p].hull, NpcFit(c, p)) = {}
    BY <2>3, NpcFits
  <2>6. \A s \in DOMAIN NpcFit(c, p) :
          c.modules[NpcFit(c, p)[s].module].category = "turret" => NpcFit(c, p)[s].rounds > 0
    BY <2>3, NpcSlotsAreRight
  <2> QED BY <2>4, <2>5, <2>6 DEF c, p
<1> QED BY <1>1, InstalledHolds, PTL

-----------------------------------------------------------------------------
(* The ship a campaign starts with, and the one a pilot is granted. *)

StartSlots(c) == [i \in DOMAIN c.economy.fit |-> Slot(c.economy.fit[i].slot, c.economy.fit[i].index)]

\* What the rules say of the start and of what it names.
StartIsSound(c) ==
  LET fit == c.economy.fit
  IN  /\ IsList(fit) /\ IsFiniteSet(DOMAIN fit)
      /\ c.economy.hull \in DOMAIN c.hulls /\ HullFits(c.hulls[c.economy.hull]) /\ c.hulls[c.economy.hull].usable
      /\ \A i \in DOMAIN fit :
           /\ fit[i].module \in DOMAIN c.modules /\ ModuleFits(c.modules[fit[i].module])
           /\ fit[i].ammunition \in DOMAIN c.ammunition \cup {None}
           /\ fit[i].slot \in SlotKinds /\ fit[i].index \in 0..15 /\ fit[i].online \in BOOLEAN
      /\ OneToOne(StartSlots(c), DOMAIN fit)
      /\ StartingFitIsValid(c)

LEMMA StartsAreSound ==
  ASSUME NEW c, Accepted(c)
  PROVE  StartIsSound(c)
<1> DEFINE fit == c.economy.fit
<1>1. SchemasHold(c) /\ EconomyFits(c.economy) /\ StartResolves(c) /\ StartIsValid(c) /\ StartingFitIsValid(c)
  BY DEF Accepted, ReferencesResolve, SchemasHold
<1>2. IsList(fit) /\ \A i \in DOMAIN fit :
        fit[i].slot \in SlotKinds /\ fit[i].index \in 0..15 /\ fit[i].online \in BOOLEAN
  BY <1>1 DEF EconomyFits
<1>3. IsFiniteSet(DOMAIN fit)
  <2>1. DOMAIN fit = 1..Len(fit) /\ Len(fit) \in Int /\ 1 \in Int
    BY <1>2 DEF IsList
  <2> QED BY <2>1, FS_Interval
<1>4. c.economy.hull \in DOMAIN c.hulls /\ c.hulls[c.economy.hull].usable
  BY <1>1 DEF StartResolves, StartIsValid
<1>5. HullFits(c.hulls[c.economy.hull])
  BY <1>1, <1>4 DEF SchemasHold
<1>6. \A i \in DOMAIN fit : fit[i].module \in DOMAIN c.modules /\ fit[i].ammunition \in DOMAIN c.ammunition \cup {None}
  BY <1>1 DEF StartResolves
<1>7. \A i \in DOMAIN fit : ModuleFits(c.modules[fit[i].module])
  BY <1>1, <1>6 DEF SchemasHold
<1>8. OneToOne(StartSlots(c), DOMAIN fit)
  <2>1. \A i, j \in DOMAIN fit : i # j => <<fit[i].slot, fit[i].index>> # <<fit[j].slot, fit[j].index>>
    BY <1>1 DEF StartingFitIsValid
  <2>2. \A i \in DOMAIN fit : StartSlots(c)[i] = <<fit[i].slot, fit[i].index>>
    BY DEF StartSlots, Slot
  <2> HIDE DEF fit
  <2> QED BY <2>1, <2>2 DEF OneToOne
<1> QED BY <1>1, <1>2, <1>3, <1>4, <1>5, <1>6, <1>7, <1>8 DEF StartIsSound

PlannedIs(c) ==
  /\ DOMAIN PlannedFit(c) = {StartSlots(c)[i] : i \in DOMAIN c.economy.fit}
  /\ \A i \in DOMAIN c.economy.fit : PlannedFit(c)[StartSlots(c)[i]] = c.economy.fit[i]

LEMMA PlannedAsAuthored ==
  ASSUME NEW c, StartIsSound(c)
  PROVE  PlannedIs(c)
<1> DEFINE fit == c.economy.fit
           I == DOMAIN fit
           entry(s) == CHOOSE i \in I : Slot(fit[i].slot, fit[i].index) = s
<1>1. PlannedFit(c) = [s \in {Slot(fit[i].slot, fit[i].index) : i \in I} |-> fit[entry(s)]]
  BY DEF PlannedFit
<1>2. \A i \in I : StartSlots(c)[i] = Slot(fit[i].slot, fit[i].index)
  BY DEF StartSlots
<1>3. OneToOne(StartSlots(c), I)
  BY DEF StartIsSound
<1>4. ASSUME NEW i \in I PROVE entry(StartSlots(c)[i]) = i
  <2>1. \A j \in I : Slot(fit[j].slot, fit[j].index) = StartSlots(c)[i] => j = i
    <3> HIDE DEF fit, I
    <3> QED BY <1>2, <1>3 DEF OneToOne
  <2> HIDE DEF fit, I
  <2> QED BY <1>2, <2>1
<1> HIDE DEF entry, fit, I
<1>5. DOMAIN PlannedFit(c) = {StartSlots(c)[i] : i \in I}
  BY <1>1, <1>2
<1>6. \A i \in I : PlannedFit(c)[StartSlots(c)[i]] = fit[i]
  BY <1>1, <1>2, <1>4
<1> QED BY <1>5, <1>6 DEF PlannedIs, fit, I

\* A fit as the content plans it, whatever is left in its magazines.
AsPlanned(c, fit) ==
  /\ DOMAIN fit = DOMAIN PlannedFit(c)
  /\ \A s \in DOMAIN fit :
       /\ fit[s] = [module |-> PlannedFit(c)[s].module, online |-> PlannedFit(c)[s].online,
                    ammunition |-> PlannedFit(c)[s].ammunition, rounds |-> fit[s].rounds]
       /\ fit[s].rounds \in Nat /\ fit[s].rounds <= Magazine(c, PlannedFit(c)[s])

LEMMA PlannedNumbers ==
  ASSUME NEW c, StartIsSound(c), NEW fit, AsPlanned(c, fit)
  PROVE  Numbers(fit, DOMAIN c.economy.fit, StartSlots(c), [i \in DOMAIN c.economy.fit |-> c.economy.fit[i].module],
                 [i \in DOMAIN c.economy.fit |-> c.economy.fit[i].online])
<1> DEFINE I == DOMAIN c.economy.fit
           modules == [i \in I |-> c.economy.fit[i].module]
           on == [i \in I |-> c.economy.fit[i].online]
           b == StartSlots(c)
<1>1. PlannedIs(c)
  BY PlannedAsAuthored
<1>2. IsFiniteSet(I) /\ OneToOne(b, I) /\ \A i \in I : c.economy.fit[i].online \in BOOLEAN
  BY DEF StartIsSound
<1>3. DOMAIN fit = {b[i] : i \in I}
  BY <1>1 DEF PlannedIs, AsPlanned
<1>4. ASSUME NEW i \in I PROVE fit[b[i]].module = modules[i] /\ fit[b[i]].online = on[i] /\ on[i] \in BOOLEAN
  <2>1. PlannedFit(c)[b[i]] = c.economy.fit[i] /\ b[i] \in DOMAIN fit
    BY <1>1, <1>3 DEF PlannedIs
  <2>2. fit[b[i]].module = PlannedFit(c)[b[i]].module /\ fit[b[i]].online = PlannedFit(c)[b[i]].online
    BY <2>1 DEF AsPlanned
  <2>3. modules[i] = c.economy.fit[i].module /\ on[i] = c.economy.fit[i].online
    OBVIOUS
  <2> QED BY <1>2, <2>1, <2>2, <2>3
<1> HIDE DEF I, modules, on, b
<1> QED BY <1>2, <1>3, <1>4 DEF Numbers, I, modules, on, b

LEMMA PlannedSlotsAreRight ==
  ASSUME NEW c, StartIsSound(c), NEW fit, AsPlanned(c, fit), NEW s \in DOMAIN fit
  PROVE  SlotIsRight(c, c.economy.hull, fit, s)
<1>1. PlannedIs(c)
  BY PlannedAsAuthored
<1>2. PICK i \in DOMAIN c.economy.fit : s = StartSlots(c)[i] /\ PlannedFit(c)[s] = c.economy.fit[i]
  BY <1>1 DEF PlannedIs, AsPlanned
<1> DEFINE e == c.economy.fit[i]
           hull == c.hulls[c.economy.hull]
<1>3. s[1] = e.slot /\ s[2] = e.index
  BY <1>2 DEF StartSlots, Slot
<1>4. e.slot = c.modules[e.module].slot /\ e.index < hull.slots[e.slot]
      /\ (e.ammunition # None => Loads(c, e.module, e.ammunition))
  BY DEF StartIsSound, StartingFitIsValid
<1>5. e.index \in Nat /\ hull.slots[e.slot] \in Nat /\ ModuleFits(c.modules[e.module])
  BY DEF StartIsSound, HullFits
<1>6. fit[s].module = e.module /\ fit[s].ammunition = e.ammunition /\ fit[s].rounds \in Nat /\ fit[s].rounds <= Magazine(c, e)
  BY <1>2 DEF AsPlanned
<1>7. ~ s[2] >= hull.slots[s[1]]
  <2> DEFINE room == hull.slots[e.slot]
             index == e.index
  <2>1. index \in Nat /\ room \in Nat /\ index < room
    BY <1>4, <1>5
  <2> HIDE DEF index, room
  <2>2. ~ index >= room
    BY <2>1
  <2> QED BY <1>3, <2>2 DEF index, room
<1>8. ~ fit[s].rounds > c.modules[fit[s].module].magazine /\ (fit[s].rounds > 0 => e.ammunition # None)
  <2> DEFINE rounds == fit[s].rounds
             full == c.modules[e.module].magazine
  <2>1. full \in Nat /\ Magazine(c, e) = IF e.ammunition = None THEN 0 ELSE full
    BY <1>5 DEF ModuleFits, Magazine
  <2>2. rounds \in Nat /\ rounds <= Magazine(c, e)
    BY <1>6
  <2> HIDE DEF rounds, full
  <2>3. ~ rounds > full /\ (rounds > 0 => e.ammunition # None)
    BY <2>1, <2>2
  <2> QED BY <1>6, <2>3 DEF rounds, full
<1> QED BY <1>3, <1>4, <1>6, <1>7, <1>8 DEF SlotIsRight

LEMMA PlannedFits ==
  ASSUME NEW c, StartIsSound(c), NEW fit, AsPlanned(c, fit)
  PROVE  /\ Cardinality(DOMAIN fit) = Len(c.economy.fit)
         /\ StructuralViolations(c, c.economy.hull, fit) = {}
         /\ FitBreaks(c, c.economy.hull, fit) = {}
<1> DEFINE plan == c.economy.fit
           I == DOMAIN plan
           mods == [i \in I |-> plan[i].module]
           on == [i \in I |-> plan[i].online]
           b == StartSlots(c)
           hull == c.hulls[c.economy.hull]
<1>1. Numbers(fit, I, b, mods, on)
  BY PlannedNumbers
<1>2. I = 1..Len(plan) /\ Len(plan) \in Nat /\ IsFiniteSet(I)
  BY DEF StartIsSound, IsList
<1>3. HullFits(hull) /\ StartingFitIsValid(c) /\ \A i \in I : ModuleFits(c.modules[plan[i].module])
  BY DEF StartIsSound
<1>4. \A s \in DOMAIN fit : SlotIsRight(c, c.economy.hull, fit, s)
  BY PlannedSlotsAreRight
<1>5. \A i \in I : mods[i] = plan[i].module /\ on[i] = plan[i].online
  OBVIOUS
<1> HIDE DEF mods, on, b
<1>6. CountsAs(c, fit, I, mods)
  <2> HIDE DEF I
  <2> QED BY <1>1, NumbersCount
<1>7. Cardinality(DOMAIN fit) = Len(plan)
  <2> DEFINE n == Len(plan)
  <2>1. n \in Nat /\ I = 1..n
    BY <1>2
  <2> HIDE DEF n, I
  <2>2. n \in Int /\ 1 \in Int /\ (IF 1 > n THEN 0 ELSE n - 1 + 1) = n
    BY <2>1
  <2>3. Cardinality(1..n) = IF 1 > n THEN 0 ELSE n - 1 + 1
    BY <2>2, FS_Interval
  <2> QED BY <1>6, <2>1, <2>2, <2>3 DEF n, CountsAs
<1>8. ASSUME NEW kind \in HardpointKinds PROVE ~ Hardpoints(c, fit, kind) > hull.hardpoints[kind]
  <2> DEFINE J == {i \in I : c.modules[mods[i]].hardpoint = kind}
  <2>1. Hardpoints(c, fit, kind) = Cardinality(J)
    BY <1>6 DEF CountsAs
  <2>2. CountOf(plan, LAMBDA e : c.modules[e.module].hardpoint = kind) <= hull.hardpoints[kind]
    BY <1>3 DEF StartingFitIsValid
  <2>3. J = {i \in I : c.modules[plan[i].module].hardpoint = kind}
    BY <1>5
  <2>4. Cardinality(J) <= hull.hardpoints[kind]
    BY <2>2, <2>3 DEF CountOf
  <2>5. Cardinality(J) \in Nat
    <3>1. IsFiniteSet(J)
      BY <1>2, FS_Subset
    <3> HIDE DEF J
    <3> QED BY <3>1, FS_CardinalityType
  <2>6. hull.hardpoints[kind] \in Nat
    BY <1>3 DEF HullFits
  <2> HIDE DEF J, hull
  <2> QED BY <2>1, <2>4, <2>5, <2>6
<1>9. ASSUME NEW r \in Resources PROVE ~ Draws(c, fit, r) > hull.output[r]
  <2> DEFINE J == {j \in I : on[j]}
             use == [i \in J |-> c.modules[mods[i]].use[r]]
             told == [i \in Online(plan) |-> c.modules[plan[i].module].use[r]]
  <2>1. \A i \in I : c.modules[mods[i]].use[r] \in Nat
    BY <1>3, <1>5 DEF ModuleFits
  <2>2. Draws(c, fit, r) = SumFunction(use)
    <3>1. \A i \in I : c.modules[mods[i]].use[r] \in Int
      BY <2>1
    <3> HIDE DEF I
    <3>2. DrawsAs(c, fit, I, mods, on, r)
      BY <1>1, <3>1, NumbersDraw
    <3> QED BY <3>2 DEF DrawsAs
  <2>3. use = told
    <3>1. Online(plan) = J
      BY <1>5 DEF Online
    <3>2. \A i \in J : c.modules[mods[i]].use[r] = c.modules[plan[i].module].use[r]
      BY <1>5
    <3> HIDE DEF J, I
    <3> QED BY <3>1, <3>2
  <2>4. SumFunction(told) <= hull.output[r]
    BY <1>3 DEF StartingFitIsValid
  <2>5. SumFunction(use) \in Nat
    <3>1. IsFiniteSet(DOMAIN use) /\ \A i \in DOMAIN use : use[i] \in Nat
      BY <1>2, <2>1, FS_Subset
    <3> HIDE DEF use
    <3> QED BY <3>1, SumType
  <2>6. hull.output[r] \in Nat
    BY <1>3 DEF HullFits
  <2> HIDE DEF use, told, hull
  <2> QED BY <2>2, <2>3, <2>4, <2>5, <2>6
<1> QED BY <1>4, <1>7, <1>8, <1>9, NothingBreaks

\* grantRecoveryShip() fills every magazine.
LEMMA GrantIsPlanned ==
  ASSUME NEW c, StartIsSound(c)
  PROVE  AsPlanned(c, GrantedFit(c))
<1> DEFINE planned == PlannedFit(c)
<1>1. PlannedIs(c)
  BY PlannedAsAuthored
<1>2. DOMAIN GrantedFit(c) = DOMAIN planned
  BY DEF GrantedFit
<1>3. ASSUME NEW s \in DOMAIN planned
      PROVE  /\ GrantedFit(c)[s] = [module |-> planned[s].module, online |-> planned[s].online,
                                    ammunition |-> planned[s].ammunition, rounds |-> Magazine(c, planned[s])]
             /\ Magazine(c, planned[s]) \in Nat
  <2>1. GrantedFit(c)[s] = [module |-> planned[s].module, online |-> planned[s].online,
                            ammunition |-> planned[s].ammunition, rounds |-> Magazine(c, planned[s])]
    BY DEF GrantedFit
  <2>2. PICK i \in DOMAIN c.economy.fit : planned[s] = c.economy.fit[i]
    BY <1>1 DEF PlannedIs
  <2>3. Magazine(c, planned[s]) \in Nat
    BY <2>2 DEF StartIsSound, ModuleFits, Magazine
  <2> QED BY <2>1, <2>3
<1>4. ASSUME NEW s \in DOMAIN GrantedFit(c)
      PROVE  /\ GrantedFit(c)[s] = [module |-> planned[s].module, online |-> planned[s].online,
                                    ammunition |-> planned[s].ammunition, rounds |-> GrantedFit(c)[s].rounds]
             /\ GrantedFit(c)[s].rounds \in Nat /\ GrantedFit(c)[s].rounds <= Magazine(c, planned[s])
  <2>1. s \in DOMAIN planned
    BY <1>2
  <2> HIDE DEF planned
  <2>2. /\ GrantedFit(c)[s] = [module |-> planned[s].module, online |-> planned[s].online,
                               ammunition |-> planned[s].ammunition, rounds |-> Magazine(c, planned[s])]
        /\ Magazine(c, planned[s]) \in Nat
    BY <1>3, <2>1
  <2>a. GrantedFit(c)[s].rounds = Magazine(c, planned[s])
    BY ONLY <2>2
  <2>3. \A n \in Nat : n <= n
    OBVIOUS
  <2> QED BY <2>2, <2>a, <2>3
<1> QED BY <1>2, <1>4 DEF AsPlanned

-----------------------------------------------------------------------------
(* The order in which the planned fit is applied. *)

IsSlot(s) == s = <<s[1], s[2]>> /\ s[1] \in SlotKinds /\ s[2] \in 0..15
Earlier(S, s) == {t \in S : SlotBefore(t, s)}
Rank(S, s) == Cardinality(Earlier(S, s))

LEMMA SlotsAreOrdered ==
  ASSUME NEW s, NEW t, NEW u, IsSlot(s), IsSlot(t), IsSlot(u)
  PROVE  /\ ~ SlotBefore(s, s)
         /\ s = t \/ SlotBefore(s, t) \/ SlotBefore(t, s)
         /\ SlotBefore(s, t) /\ SlotBefore(t, u) => SlotBefore(s, u)
<1> DEFINE rank == [engineering |-> 1, system |-> 2, utility |-> 3, weapon |-> 4]
           at(x) == KeyOrder(x[2])
<1>1. \A x, y : SlotBefore(x, y) <=> rank[x[1]] < rank[y[1]] \/ (x[1] = y[1] /\ at(x) < at(y))
  BY Zenon DEF SlotBefore
<1>2. \A k \in SlotKinds : rank[k] \in Nat /\ \A l \in SlotKinds : rank[k] = rank[l] => k = l
  BY DEF SlotKinds
<1> HIDE DEF rank
<1>7. \A i, j \in 0..15 : KeyOrder(i) \in Nat /\ (KeyOrder(i) = KeyOrder(j) => i = j)
  BY DEF KeyOrder
<1>8. at(s) \in Nat /\ at(t) \in Nat /\ at(u) \in Nat /\ (at(s) = at(t) => s[2] = t[2])
  BY <1>7 DEF IsSlot
<1> HIDE DEF at
<1>3. /\ rank[s[1]] \in Nat /\ rank[t[1]] \in Nat /\ rank[u[1]] \in Nat
      /\ at(s) \in Nat /\ at(t) \in Nat /\ at(u) \in Nat
      /\ rank[s[1]] = rank[t[1]] => s[1] = t[1]
  BY <1>2, <1>8 DEF IsSlot
<1>4. ~ SlotBefore(s, s)
  BY <1>1, <1>3
<1>5. SlotBefore(s, t) /\ SlotBefore(t, u) => SlotBefore(s, u)
  BY <1>1, <1>3
<1>6. s = t \/ SlotBefore(s, t) \/ SlotBefore(t, s)
  <2>1. s[1] = t[1] /\ s[2] = t[2] => s = t
    BY DEF IsSlot
  <2> QED BY <1>1, <1>3, <1>8, <2>1
<1> QED BY <1>4, <1>5, <1>6

\* The order is a numbering of the slots.
InOrder(S, order) ==
  /\ Cardinality(S) \in Nat /\ DOMAIN order = 1..Cardinality(S) /\ Len(order) = Cardinality(S)
  /\ OneToOne(order, DOMAIN order) /\ S = {order[n] : n \in DOMAIN order}

LEMMA SlotsAreNumbered ==
  ASSUME NEW S, IsFiniteSet(S), \A s \in S : IsSlot(s)
  PROVE  InOrder(S, OrderedSlots(S))
<1> DEFINE L == Cardinality(S)
           rank == [s \in S |-> Rank(S, s) + 1]
           order == OrderedSlots(S)
<1>1. L \in Nat
  BY FS_CardinalityType
<1>2. ASSUME NEW s \in S PROVE Rank(S, s) \in Nat /\ Rank(S, s) < L
  <2>1. Earlier(S, s) \in SUBSET S /\ s \notin Earlier(S, s)
    BY SlotsAreOrdered DEF Earlier
  <2>2. IsFiniteSet(Earlier(S, s)) /\ Rank(S, s) <= L /\ Rank(S, s) # L
    <3>1. IsFiniteSet(Earlier(S, s)) /\ Cardinality(Earlier(S, s)) <= Cardinality(S)
          /\ (Cardinality(S) = Cardinality(Earlier(S, s)) => S = Earlier(S, s))
      BY <2>1, FS_Subset
    <3> QED BY <2>1, <3>1 DEF Rank
  <2>3. Rank(S, s) \in Nat
    BY <2>2, FS_CardinalityType DEF Rank
  <2> HIDE DEF L
  <2> QED BY <1>1, <2>2, <2>3
<1>3. ASSUME NEW s \in S, NEW t \in S, SlotBefore(s, t) PROVE Rank(S, s) < Rank(S, t)
  <2>1. Earlier(S, s) \cup {s} \in SUBSET Earlier(S, t)
    BY <1>3, SlotsAreOrdered DEF Earlier
  <2>2. s \notin Earlier(S, s) /\ IsFiniteSet(Earlier(S, s)) /\ IsFiniteSet(Earlier(S, t))
    BY SlotsAreOrdered, FS_Subset DEF Earlier
  <2>3. Cardinality(Earlier(S, s) \cup {s}) = Rank(S, s) + 1
    BY <2>2, FS_AddElement DEF Rank
  <2>4. Cardinality(Earlier(S, s) \cup {s}) <= Rank(S, t)
    BY <2>1, <2>2, FS_Subset DEF Rank
  <2>5. Rank(S, s) \in Nat /\ Rank(S, t) \in Nat
    BY <1>2
  <2> QED BY <2>3, <2>4, <2>5
<1>4. ASSUME NEW s \in S, NEW t \in S, Rank(S, s) = Rank(S, t) PROVE s = t
  <2>1. ~ Rank(S, s) < Rank(S, t) /\ ~ Rank(S, t) < Rank(S, s)
    BY <1>2, <1>4
  <2>2. ~ SlotBefore(s, t) /\ ~ SlotBefore(t, s)
    BY <1>3, <2>1
  <2> QED BY <2>2, SlotsAreOrdered
<1>5. rank \in [S -> 1..L]
  <2> SUFFICES ASSUME NEW s \in S PROVE Rank(S, s) + 1 \in 1..L
    OBVIOUS
  <2> HIDE DEF L
  <2> QED BY <1>1, <1>2
<1>6. \A s, t \in S : rank[s] = rank[t] => s = t
  BY <1>2, <1>4
<1>7. IsFiniteSet(1..L) /\ Cardinality(1..L) = L
  <2> HIDE DEF L
  <2>1. L \in Int /\ 1 \in Int /\ (IF 1 > L THEN 0 ELSE L - 1 + 1) = L
    BY <1>1
  <2>2. IsFiniteSet(1..L) /\ Cardinality(1..L) = IF 1 > L THEN 0 ELSE L - 1 + 1
    BY <2>1, FS_Interval
  <2> QED BY <2>1, <2>2
<1>8. ASSUME NEW n \in 1..L PROVE \E s \in S : Rank(S, s) = n - 1
  <2>1. rank \in Injection(S, 1..L)
    BY <1>5, <1>6 DEF Injection, IsInjective
  <2>2. Cardinality(S) = Cardinality(1..L)
    BY <1>7
  <2>3. rank \in Surjection(S, 1..L)
    <3> HIDE DEF L, rank
    <3> QED BY <1>7, <2>1, <2>2, FS_Injection
  <2>4. PICK s \in S : rank[s] = n
    BY <2>3 DEF Surjection
  <2>5. Rank(S, s) + 1 = n
    BY <2>4
  <2> QED BY <1>2, <2>5
<1>9. order = [n \in 1..L |-> CHOOSE s \in S : Rank(S, s) = n - 1]
  BY DEF OrderedSlots, Rank, Earlier
<1> HIDE DEF order, rank
<1>10. ASSUME NEW n \in 1..L PROVE order[n] \in S /\ Rank(S, order[n]) = n - 1
  <2> HIDE DEF L
  <2> QED BY <1>8, <1>9
<1>11. DOMAIN order = 1..L
  <2> HIDE DEF L
  <2> QED BY <1>9
<1>12. OneToOne(order, DOMAIN order)
  <2> SUFFICES ASSUME NEW n \in 1..L, NEW k \in 1..L, order[n] = order[k] PROVE n = k
    BY <1>11 DEF OneToOne
  <2>1. n - 1 = k - 1
    BY <1>10
  <2> HIDE DEF L
  <2> QED BY <1>1, <2>1
<1>13. ASSUME NEW s \in S PROVE \E n \in 1..L : order[n] = s
  <2> DEFINE n == Rank(S, s) + 1
  <2>1. n \in 1..L /\ n - 1 = Rank(S, s)
    <3> HIDE DEF L
    <3> QED BY <1>1, <1>2
  <2> HIDE DEF n
  <2>2. order[n] \in S /\ Rank(S, order[n]) = Rank(S, s)
    BY <1>10, <2>1
  <2>3. order[n] = s
    BY <1>4, <2>2
  <2> QED BY <2>1, <2>3
<1>14. S = {order[n] : n \in DOMAIN order}
  BY <1>10, <1>11, <1>13
<1>15. Len(order) = L
  <2>1. order \in Seq(S)
    <3> HIDE DEF L
    <3> QED BY <1>1, <1>10, <1>11, <1>9
  <2> HIDE DEF L
  <2> QED BY <1>1, <1>11, <2>1
<1>16. InOrder(S, order)
  BY <1>1, <1>11, <1>12, <1>14, <1>15 DEF InOrder
<1> QED BY <1>16 DEF order

\* The recursion that applies the planned fit, one slot after another.
Started(c) ==
  [left |-> [id \in DOMAIN c.economy.items |-> c.economy.items[id].quantity],
   fit |-> [s \in {} |-> <<>>], missing |-> {}]

Applies(c, applied, order, L) ==
  /\ applied[0] = Started(c)
  /\ \A n \in 1..L : applied[n] = FitSlot(c, applied[n - 1], order[n], PlannedFit(c)[order[n]])

LEMMA AppliedUnfolds ==
  ASSUME NEW c, NEW order, order = OrderedSlots(DOMAIN PlannedFit(c)), NEW L \in Nat, L = Len(order)
  PROVE  \E applied : AppliedStart(c) = applied[L] /\ Applies(c, applied, order, L)
<1> DEFINE Body(f, n) ==
             IF n = 0 THEN Started(c) ELSE FitSlot(c, f[n - 1], order[n], PlannedFit(c)[order[n]])
           Solves(f, m) == f = [n \in 0..m |-> Body(f, n)]
           Unsolved == {m \in 0..L : ~ \E f : Solves(f, m)}
           made == CHOOSE f : f = [n \in 0..L |-> Body(f, n)]
<1>1. AppliedStart(c) = made[L]
  BY DEF AppliedStart, Started
<1>2. ASSUME NEW f, NEW g, NEW n, n = 0 \/ f[n - 1] = g[n - 1] PROVE Body(f, n) = Body(g, n)
  <2>1. CASE n = 0
    BY <2>1
  <2>2. CASE n # 0
    <3>1. f[n - 1] = g[n - 1]
      BY <1>2, <2>2
    <3> QED BY <2>2, <3>1
  <2> QED BY <2>1, <2>2
<1>3. ASSUME NEW f PROVE /\ Body(f, 0) = Started(c)
                         /\ \A n : n # 0 => Body(f, n) = FitSlot(c, f[n - 1], order[n], PlannedFit(c)[order[n]])
  OBVIOUS
<1> HIDE DEF Body
<1>4. 0 \notin Unsolved
  <2> DEFINE f == [n \in 0..0 |-> Body(<<>>, n)]
  <2>1. \A n \in 0..0 : Body(<<>>, n) = Body(f, n)
    <3>1. \A n \in 0..0 : n = 0
      OBVIOUS
    <3> HIDE DEF f
    <3> QED BY <1>2, <3>1
  <2>2. Solves(f, 0)
    BY <2>1
  <2> HIDE DEF f, Solves
  <2> QED BY <2>2
<1>5. ASSUME NEW m \in 1..L, m \in Unsolved PROVE m - 1 \in Unsolved
  <2>1. m - 1 \in 0..L
    OBVIOUS
  <2> SUFFICES ASSUME NEW f, Solves(f, m - 1) PROVE FALSE
    BY <2>1
  <2> DEFINE g == [n \in 0..m |-> Body(f, n)]
  <2>2. \A n \in 0..(m - 1) : n \in 0..m /\ f[n] = Body(f, n)
    <3>1. f = [n \in 0..(m - 1) |-> Body(f, n)]
      OBVIOUS
    <3>2. \A n \in 0..(m - 1) : n \in 0..m
      OBVIOUS
    <3> HIDE DEF Solves
    <3> QED BY <3>1, <3>2
  <2>3. \A n \in 0..(m - 1) : g[n] = f[n]
    <3> HIDE DEF Solves
    <3> QED BY <2>2
  <2>4. ASSUME NEW n \in 0..m PROVE Body(f, n) = Body(g, n)
    <3>1. n = 0 \/ n - 1 \in 0..(m - 1)
      OBVIOUS
    <3> HIDE DEF Solves, g
    <3>2. n = 0 \/ f[n - 1] = g[n - 1]
      BY <2>3, <3>1
    <3> QED BY <1>2, <3>2
  <2>5. Solves(g, m)
    <3>1. g = [n \in 0..m |-> Body(f, n)]
      OBVIOUS
    <3> HIDE DEF g
    <3> QED BY <2>4, <3>1
  <2> HIDE DEF g, Solves
  <2> QED BY <2>5, <1>5
<1>6. \E f : Solves(f, L)
  <2>1. Unsolved \subseteq 0..L
    OBVIOUS
  <2>2. L \in Unsolved \/ \E f : Solves(f, L)
    <3> HIDE DEF Solves
    <3> QED OBVIOUS
  <2> HIDE DEF Unsolved, Solves
  <2>3. Unsolved = {}
    BY <1>4, <1>5, <2>1, UpTo
  <2> QED BY <2>2, <2>3
<1>7. made = [n \in 0..L |-> Body(made, n)]
  BY <1>6
<1> HIDE DEF made
<1>8. \A n \in 0..L : made[n] = Body(made, n)
  BY <1>7
<1>9. Applies(c, made, order, L)
  <2>1. made[0] = Started(c)
    BY <1>3, <1>8
  <2>2. ASSUME NEW n \in 1..L PROVE made[n] = FitSlot(c, made[n - 1], order[n], PlannedFit(c)[order[n]])
    <3>1. n \in 0..L /\ n # 0
      OBVIOUS
    <3> QED BY <1>3, <1>8, <3>1
  <2> QED BY <2>1, <2>2 DEF Applies
<1> QED BY <1>1, <1>9

-----------------------------------------------------------------------------
(* What is left of the starting items while the planned fit is applied. *)

LEMMA TheLesser ==
  ASSUME NEW m \in Nat, NEW n \in Nat
  PROVE  /\ Min({m, n}) \in Nat /\ Min({m, n}) <= m /\ Min({m, n}) <= n
         /\ Min({m, n}) = m \/ Min({m, n}) = n
<1>1. \E x \in {m, n} : \A y \in {m, n} : x <= y
  <2>1. m <= n \/ n <= m
    OBVIOUS
  <2>2. m <= m /\ n <= n
    OBVIOUS
  <2> QED BY <2>1, <2>2
<1>2. Min({m, n}) \in {m, n} /\ \A y \in {m, n} : Min({m, n}) <= y
  BY <1>1 DEF Min
<1> QED BY <1>2

IsStock(goods) == \A id \in DOMAIN goods : goods[id] \in Nat

Takes(goods, id, n, rest) ==
  /\ DOMAIN rest = DOMAIN goods
  /\ \A x \in DOMAIN goods : rest[x] = (IF x = id THEN goods[x] + n ELSE goods[x])

LEMMA WithTakes ==
  ASSUME NEW goods, IsStock(goods), NEW id \in DOMAIN goods, NEW n \in Int
  PROVE  Takes(goods, id, n, With(goods, id, n))
<1>1. DOMAIN goods \cup {id} = DOMAIN goods
  OBVIOUS
<1>2. \A x \in DOMAIN goods : Of(goods, x) = goods[x] /\ goods[x] \in Nat
  BY DEF Of, IsStock
<1>3. DOMAIN With(goods, id, n) = DOMAIN goods
  BY <1>1 DEF With
<1>4. ASSUME NEW x \in DOMAIN goods
      PROVE  With(goods, id, n)[x] = IF x = id THEN goods[x] + n ELSE goods[x]
  <2>1. With(goods, id, n)[x] = Of(goods, x) + IF x = id THEN n ELSE 0
    BY <1>1 DEF With
  <2> QED BY <1>2, <2>1
<1> QED BY <1>3, <1>4 DEF Takes

RoundsFor(c, left, e) ==
  IF e.ammunition = None THEN 0 ELSE Min({c.modules[e.module].magazine, Of(left, e.ammunition)})

Spent(left, e, rounds) ==
  IF rounds = 0 THEN With(left, e.module, -1)
  ELSE With(With(left, e.module, -1), e.ammunition, -rounds)

Missing(left, e, rounds) ==
  (IF Of(left, e.module) = 0 THEN {e.module} ELSE {}) \cup
  (IF e.ammunition # None /\ rounds = 0 THEN {e.ammunition} ELSE {})

FittedAs(e, rounds) ==
  [module |-> e.module, online |-> e.online, ammunition |-> e.ammunition, rounds |-> rounds]

SlotDone(a, s, e, rounds, b) ==
  /\ b.left = Spent(a.left, e, rounds)
  /\ b.fit = [x \in DOMAIN a.fit \cup {s} |-> IF x = s THEN FittedAs(e, rounds) ELSE a.fit[x]]
  /\ b.missing = a.missing \cup Missing(a.left, e, rounds)

LEMMA FitSlotDoes ==
  ASSUME NEW c, NEW a, NEW s, NEW e, NEW rounds, rounds = RoundsFor(c, a.left, e)
  PROVE  SlotDone(a, s, e, rounds, FitSlot(c, a, s, e))
<1> DEFINE fit == [x \in DOMAIN a.fit \cup {s} |-> IF x = s THEN FittedAs(e, rounds) ELSE a.fit[x]]
           left == Spent(a.left, e, rounds)
           missing == a.missing \cup Missing(a.left, e, rounds)
<1>1. FitSlot(c, a, s, e) = [left |-> left, fit |-> fit, missing |-> missing]
  <2>1. fit = [x \in DOMAIN a.fit \cup {s} |->
                 IF x = s THEN [module |-> e.module, online |-> e.online, ammunition |-> e.ammunition,
                                rounds |-> RoundsFor(c, a.left, e)]
                 ELSE a.fit[x]]
    BY DEF FittedAs
  <2>2. left = IF RoundsFor(c, a.left, e) = 0 THEN With(a.left, e.module, -1)
               ELSE With(With(a.left, e.module, -1), e.ammunition, -RoundsFor(c, a.left, e))
    BY DEF Spent
  <2>3. missing = a.missing \cup (IF Of(a.left, e.module) = 0 THEN {e.module} ELSE {}) \cup
                    (IF e.ammunition # None /\ RoundsFor(c, a.left, e) = 0 THEN {e.ammunition} ELSE {})
    BY DEF Missing
  <2> HIDE DEF left, fit, missing
  <2> QED BY <2>1, <2>2, <2>3 DEF FitSlot, RoundsFor
<1> HIDE DEF left, fit, missing
<1>2. /\ FitSlot(c, a, s, e).left = left /\ FitSlot(c, a, s, e).fit = fit
      /\ FitSlot(c, a, s, e).missing = missing
  BY <1>1
<1> QED BY <1>2 DEF left, fit, missing, SlotDone

\* When a module and a round are there, what is left is a unit and the rounds fewer.
LEMMA SpentIs ==
  ASSUME NEW left, IsStock(left), NEW e, e.module # e.ammunition, Of(left, e.module) # 0,
         NEW rounds \in Nat, e.ammunition # None \/ rounds = 0,
         e.ammunition # None => rounds <= Of(left, e.ammunition)
  PROVE  /\ IsStock(Spent(left, e, rounds)) /\ DOMAIN Spent(left, e, rounds) = DOMAIN left
         /\ \A x \in DOMAIN left :
              /\ Spent(left, e, rounds)[x] <= left[x]
              /\ x = e.module => Spent(left, e, rounds)[x] = left[x] - 1
              /\ x # e.module /\ x # e.ammunition => Spent(left, e, rounds)[x] = left[x]
<1> DEFINE taken == With(left, e.module, -1)
<1>1. e.module \in DOMAIN left /\ left[e.module] \in Nat /\ left[e.module] # 0
  BY DEF Of, IsStock
<1>2. Takes(left, e.module, -1, taken)
  <2>1. -1 \in Int
    OBVIOUS
  <2> QED BY <1>1, <2>1, WithTakes
<1>3. \A x \in DOMAIN left : left[x] \in Nat
  BY DEF IsStock
<1>4. DOMAIN taken = DOMAIN left /\ \A x \in DOMAIN left :
        taken[x] = (IF x = e.module THEN left[x] + (-1) ELSE left[x])
  BY <1>2 DEF Takes
<1> HIDE DEF taken
<1>5. \A x \in DOMAIN left : /\ taken[x] \in Nat /\ taken[x] <= left[x]
                             /\ x = e.module => taken[x] = left[x] - 1
                             /\ x # e.module => taken[x] = left[x]
  BY <1>1, <1>3, <1>4
<1>6. CASE rounds = 0
  <2>1. Spent(left, e, rounds) = taken
    BY <1>6 DEF Spent, taken
  <2> QED BY <1>4, <1>5, <2>1 DEF IsStock
<1>7. CASE rounds # 0
  <2> DEFINE rest == With(taken, e.ammunition, -rounds)
  <2>1. Spent(left, e, rounds) = rest
    BY <1>7 DEF Spent, taken
  <2>2. e.ammunition # None /\ rounds <= Of(left, e.ammunition)
    BY <1>7
  <2>3. e.ammunition \in DOMAIN left /\ left[e.ammunition] >= rounds
    BY <1>3, <1>7, <2>2 DEF Of
  <2>4. taken[e.ammunition] = left[e.ammunition] /\ e.ammunition \in DOMAIN taken
    BY <1>4, <1>5, <2>3
  <2>5. Takes(taken, e.ammunition, -rounds, rest)
    <3>1. -rounds \in Int /\ IsStock(taken)
      BY <1>4, <1>5 DEF IsStock
    <3> QED BY <2>4, <3>1, WithTakes
  <2> HIDE DEF rest
  <2>6. DOMAIN rest = DOMAIN left /\ \A x \in DOMAIN left :
          rest[x] = (IF x = e.ammunition THEN taken[x] + (-rounds) ELSE taken[x])
    BY <1>4, <2>5 DEF Takes
  <2>7. ASSUME NEW x \in DOMAIN left
        PROVE  /\ rest[x] \in Nat /\ rest[x] <= left[x]
               /\ x = e.module => rest[x] = left[x] - 1
               /\ x # e.module /\ x # e.ammunition => rest[x] = left[x]
    <3>1. taken[x] \in Nat /\ left[x] \in Nat /\ taken[x] <= left[x]
          /\ (x = e.module => taken[x] = left[x] - 1) /\ (x # e.module => taken[x] = left[x])
      BY <1>3, <1>5
    <3>2. CASE x = e.ammunition
      <4>1. x # e.module /\ rest[x] = taken[x] + (-rounds) /\ taken[x] >= rounds
        BY <2>3, <2>4, <2>6, <3>2
      <4> QED BY <3>1, <3>2, <4>1
    <3>3. CASE x # e.ammunition
      <4>1. rest[x] = taken[x]
        BY <2>6, <3>3
      <4> QED BY <3>1, <3>3, <4>1
    <3> QED BY <3>2, <3>3
  <2> QED BY <2>1, <2>6, <2>7 DEF IsStock
<1> QED BY <1>6, <1>7

\* While nothing was missing: what is left was granted, and what is fitted is planned.
FittedWell(c, fit, s) ==
  /\ fit[s] = [module |-> PlannedFit(c)[s].module, online |-> PlannedFit(c)[s].online,
               ammunition |-> PlannedFit(c)[s].ammunition, rounds |-> fit[s].rounds]
  /\ fit[s].rounds \in Nat /\ fit[s].rounds <= Magazine(c, PlannedFit(c)[s])
  /\ PlannedFit(c)[s].ammunition # None => fit[s].rounds > 0

AppliedWell(c, a, D) ==
  /\ IsStock(a.left) /\ DOMAIN a.left = DOMAIN c.economy.items
  /\ \A id \in DOMAIN a.left : a.left[id] <= c.economy.items[id].quantity
  /\ DOMAIN a.fit = D /\ \A s \in D : FittedWell(c, a.fit, s)

PlannedEntry(c, e) ==
  /\ e.module \in DOMAIN c.modules /\ c.modules[e.module].magazine \in Nat
  /\ e.ammunition \in DOMAIN c.ammunition \cup {None} /\ e.module # e.ammunition
  /\ e.ammunition # None => c.modules[e.module].magazine > 0

LEMMA PlannedEntries ==
  ASSUME NEW c, Accepted(c), NEW s \in DOMAIN PlannedFit(c)
  PROVE  PlannedEntry(c, PlannedFit(c)[s])
<1>1. StartIsSound(c) /\ PlannedIs(c) /\ SchemasHold(c)
  BY StartsAreSound, PlannedAsAuthored DEF Accepted
<1>2. PICK i \in DOMAIN c.economy.fit : PlannedFit(c)[s] = c.economy.fit[i]
  BY <1>1 DEF PlannedIs
<1> DEFINE e == c.economy.fit[i]
<1>3. /\ e.module \in DOMAIN c.modules /\ ModuleFits(c.modules[e.module])
      /\ e.ammunition \in DOMAIN c.ammunition \cup {None} /\ StartingFitIsValid(c)
  BY <1>1 DEF StartIsSound
<1>4. e.module # e.ammunition
  <2>1. e.module \notin DOMAIN c.ammunition /\ e.module # None
    BY <1>1, <1>3, GoodsAreSound DEF Physical
  <2> QED BY <1>3, <2>1
<1>5. e.ammunition # None => Loads(c, e.module, e.ammunition)
  BY <1>3 DEF StartingFitIsValid
<1>6. e.ammunition # None => c.modules[e.module].magazine > 0
  BY <1>3, <1>5 DEF Loads, ModuleFits
<1>7. c.modules[e.module].magazine \in Nat
  BY <1>3 DEF ModuleFits
<1> QED BY <1>2, <1>3, <1>4, <1>6, <1>7 DEF PlannedEntry

LEMMA RoundsAreThere ==
  ASSUME NEW c, NEW left, IsStock(left), NEW e, PlannedEntry(c, e), NEW rounds, rounds = RoundsFor(c, left, e)
  PROVE  /\ rounds \in Nat /\ rounds <= Magazine(c, e)
         /\ e.ammunition # None \/ rounds = 0
         /\ e.ammunition # None => rounds <= Of(left, e.ammunition)
         /\ e.ammunition # None /\ Of(left, e.ammunition) > 0 => rounds > 0
<1> DEFINE full == c.modules[e.module].magazine
           there == Of(left, e.ammunition)
<1>1. full \in Nat /\ there \in Nat /\ (e.ammunition # None => full > 0)
  BY DEF PlannedEntry, Of, IsStock
<1>2. rounds = (IF e.ammunition = None THEN 0 ELSE Min({full, there}))
      /\ Magazine(c, e) = (IF e.ammunition = None THEN 0 ELSE full)
  BY DEF RoundsFor, Magazine
<1> HIDE DEF full, there
<1>3. /\ Min({full, there}) \in Nat /\ Min({full, there}) <= full /\ Min({full, there}) <= there
      /\ Min({full, there}) = full \/ Min({full, there}) = there
  BY <1>1, TheLesser
<1>4. /\ rounds \in Nat /\ rounds <= Magazine(c, e)
      /\ e.ammunition # None \/ rounds = 0
  BY <1>1, <1>2, <1>3
<1>5. e.ammunition # None => rounds <= there
  BY <1>2, <1>3
<1>6. e.ammunition # None /\ there > 0 => rounds > 0
  BY <1>1, <1>2, <1>3
<1> QED BY <1>4, <1>5, <1>6 DEF there

LEMMA SlotIsApplied ==
  ASSUME NEW c, Accepted(c), NEW a, NEW D, AppliedWell(c, a, D), NEW s \in DOMAIN PlannedFit(c), NEW b,
         b = FitSlot(c, a, s, PlannedFit(c)[s]), b.missing = {}
  PROVE  AppliedWell(c, b, D \cup {s})
<1> DEFINE e == PlannedFit(c)[s]
           rounds == RoundsFor(c, a.left, e)
<1>1. PlannedEntry(c, e) /\ IsStock(a.left)
  BY PlannedEntries DEF AppliedWell
<1>2. /\ rounds \in Nat /\ rounds <= Magazine(c, e)
      /\ e.ammunition # None \/ rounds = 0
      /\ e.ammunition # None => rounds <= Of(a.left, e.ammunition)
  <2> HIDE DEF rounds, e
  <2>1. PlannedEntry(c, e) /\ IsStock(a.left) /\ rounds = RoundsFor(c, a.left, e)
    BY <1>1 DEF rounds
  <2> QED BY <2>1, RoundsAreThere
<1>3. /\ b.left = Spent(a.left, e, rounds)
      /\ b.fit = [x \in DOMAIN a.fit \cup {s} |-> IF x = s THEN FittedAs(e, rounds) ELSE a.fit[x]]
      /\ b.missing = a.missing \cup Missing(a.left, e, rounds)
  <2>1. b = FitSlot(c, a, s, e) /\ rounds = RoundsFor(c, a.left, e)
    OBVIOUS
  <2> HIDE DEF e, rounds
  <2>2. SlotDone(a, s, e, rounds, FitSlot(c, a, s, e))
    BY <2>1, FitSlotDoes
  <2> QED BY <2>1, <2>2 DEF SlotDone
<1>4. e.module # e.ammunition /\ Of(a.left, e.module) # 0 /\ (e.ammunition # None => rounds # 0)
  <2>1. Missing(a.left, e, rounds) = {}
    BY <1>3
  <2> HIDE DEF rounds, e
  <2> QED BY <1>1, <2>1 DEF Missing, PlannedEntry
<1> HIDE DEF rounds
<1>5. /\ IsStock(b.left) /\ DOMAIN b.left = DOMAIN a.left
      /\ \A x \in DOMAIN a.left : b.left[x] <= a.left[x]
  <2> HIDE DEF e
  <2> QED BY <1>1, <1>2, <1>3, <1>4, SpentIs
<1>6. /\ DOMAIN b.left = DOMAIN c.economy.items
      /\ \A id \in DOMAIN b.left : b.left[id] <= c.economy.items[id].quantity
  <2>1. DOMAIN b.left = DOMAIN c.economy.items
    BY <1>5 DEF AppliedWell
  <2>2. ASSUME NEW id \in DOMAIN b.left PROVE b.left[id] <= c.economy.items[id].quantity
    <3>1. b.left[id] <= a.left[id] /\ a.left[id] <= c.economy.items[id].quantity
      BY <1>5 DEF AppliedWell
    <3>2. b.left[id] \in Nat /\ a.left[id] \in Nat
      BY <1>5 DEF AppliedWell, IsStock
    <3>3. c.economy.items[id].quantity \in Nat
      BY <2>1 DEF Accepted, SchemasHold, EconomyFits
    <3> QED BY <3>1, <3>2, <3>3
  <2> QED BY <2>1, <2>2
<1>7. DOMAIN b.fit = D \cup {s}
  BY <1>3 DEF AppliedWell
<1>8. ASSUME NEW x \in D \cup {s} PROVE FittedWell(c, b.fit, x)
  <2>1. CASE x = s
    <3>1. b.fit[s] = FittedAs(e, rounds)
      BY <1>3
    <3>2. b.fit[s].rounds = rounds
      BY <3>1 DEF FittedAs
    <3>3. b.fit[s] = [module |-> e.module, online |-> e.online, ammunition |-> e.ammunition,
                      rounds |-> b.fit[s].rounds]
      BY <3>1, <3>2 DEF FittedAs
    <3>4. e.ammunition # None => rounds > 0
      BY <1>2, <1>4
    <3> HIDE DEF e
    <3>5. /\ b.fit[s].rounds \in Nat /\ b.fit[s].rounds <= Magazine(c, e)
          /\ e.ammunition # None => b.fit[s].rounds > 0
      BY <1>2, <3>2, <3>4
    <3> QED BY <2>1, <3>3, <3>5 DEF FittedWell, e
  <2>2. CASE x # s
    <3>1. x \in D /\ x \in DOMAIN a.fit
      BY <2>2 DEF AppliedWell
    <3>2. b.fit[x] = a.fit[x]
      BY <1>3, <2>2, <3>1
    <3>3. FittedWell(c, a.fit, x)
      BY <3>1 DEF AppliedWell
    <3> QED BY <3>2, <3>3 DEF FittedWell
  <2> QED BY <2>1, <2>2
<1> QED BY <1>5, <1>6, <1>7, <1>8 DEF AppliedWell

Done(order, n) == {order[k] : k \in 1..n}

LEMMA DoneGrows ==
  ASSUME NEW order, NEW L \in Nat, NEW n \in 1..L
  PROVE  Done(order, n) = Done(order, n - 1) \cup {order[n]} /\ Done(order, 0) = {}
<1>1. 1..n = 1..(n - 1) \cup {n} /\ 1..0 = {}
  OBVIOUS
<1> QED BY <1>1 DEF Done

\* What applying the planned fit is about, for a proof that follows it.
StartOrder(c, order, L, applied) ==
  /\ L \in Nat /\ InOrder(DOMAIN PlannedFit(c), order) /\ L = Cardinality(DOMAIN PlannedFit(c))
  /\ IsFiniteSet(DOMAIN PlannedFit(c))
  /\ AppliedStart(c) = applied[L] /\ Applies(c, applied, order, L)

LEMMA StartIsOrdered ==
  ASSUME NEW c, Accepted(c)
  PROVE  \E order, L, applied : StartOrder(c, order, L, applied)
<1> DEFINE S == DOMAIN PlannedFit(c)
           order == OrderedSlots(S)
           L == Cardinality(S)
<1>1. StartIsSound(c) /\ PlannedIs(c)
  BY StartsAreSound, PlannedAsAuthored
<1>2. IsFiniteSet(S)
  <2>1. IsFiniteSet(DOMAIN c.economy.fit) /\ OneToOne(StartSlots(c), DOMAIN c.economy.fit)
    BY <1>1 DEF StartIsSound
  <2>2. S = {StartSlots(c)[i] : i \in DOMAIN c.economy.fit}
    BY <1>1 DEF PlannedIs
  <2> HIDE DEF S
  <2> QED BY <2>1, <2>2, CountRelabelled
<1>3. ASSUME NEW s \in S PROVE IsSlot(s)
  <2>1. PICK i \in DOMAIN c.economy.fit : s = StartSlots(c)[i]
    BY <1>1 DEF PlannedIs
  <2>2. s = <<c.economy.fit[i].slot, c.economy.fit[i].index>>
    BY <2>1 DEF StartSlots, Slot
  <2>3. c.economy.fit[i].slot \in SlotKinds /\ c.economy.fit[i].index \in 0..15
    BY <1>1 DEF StartIsSound
  <2> QED BY <2>2, <2>3 DEF IsSlot
<1> HIDE DEF S
<1>4. InOrder(S, order)
  BY <1>2, <1>3, SlotsAreNumbered
<1>5. L \in Nat /\ L = Len(order)
  BY <1>4 DEF InOrder
<1>6. order = OrderedSlots(DOMAIN PlannedFit(c))
  BY DEF S
<1> HIDE DEF order, L
<1>7. PICK applied : AppliedStart(c) = applied[L] /\ Applies(c, applied, order, L)
  BY <1>5, <1>6, AppliedUnfolds
<1>8. StartOrder(c, order, L, applied)
  BY <1>2, <1>4, <1>5, <1>7 DEF StartOrder, S, L
<1> QED BY <1>8

LEMMA StartsWell ==
  ASSUME NEW c, Accepted(c)
  PROVE  AppliedWell(c, Started(c), {}) /\ Started(c).missing = {}
<1> DEFINE left == [id \in DOMAIN c.economy.items |-> c.economy.items[id].quantity]
           fit == [s \in {} |-> <<>>]
<1>1. Started(c) = [left |-> left, fit |-> fit, missing |-> {}]
  BY DEF Started
<1>2. \A id \in DOMAIN c.economy.items : c.economy.items[id].quantity \in Nat
  BY DEF Accepted, SchemasHold, EconomyFits
<1>3. \A id \in DOMAIN left : left[id] \in Nat /\ left[id] <= c.economy.items[id].quantity
  BY <1>2
<1>4. DOMAIN left = DOMAIN c.economy.items /\ DOMAIN fit = {}
  OBVIOUS
<1> HIDE DEF left, fit
<1>5. Started(c).left = left /\ Started(c).fit = fit /\ Started(c).missing = {}
  BY <1>1
<1> QED BY <1>3, <1>4, <1>5 DEF AppliedWell, IsStock

\* A start that misses nothing wears all that was planned.
LEMMA StartIsApplied ==
  ASSUME NEW c, Accepted(c), CanBeCreated(c)
  PROVE  AppliedWell(c, AppliedStart(c), DOMAIN PlannedFit(c))
<1>1. PICK order, L, applied : StartOrder(c, order, L, applied)
  BY StartIsOrdered
<1> DEFINE W == {n \in 0..L : applied[n].missing = {} /\ ~ AppliedWell(c, applied[n], Done(order, n))}
<1>2. L \in Nat /\ Applies(c, applied, order, L) /\ AppliedStart(c) = applied[L]
  BY <1>1 DEF StartOrder
<1>3. DOMAIN order = 1..L /\ DOMAIN PlannedFit(c) = {order[n] : n \in 1..L}
  BY <1>1 DEF StartOrder, InOrder
<1>4. 0 \notin W
  <2>1. AppliedWell(c, applied[0], {})
    BY <1>2, StartsWell DEF Applies
  <2>2. Done(order, 0) = {}
    BY DEF Done
  <2> QED BY <2>1, <2>2
<1>5. ASSUME NEW n \in 1..L, n \in W PROVE n - 1 \in W
  <2> DEFINE a == applied[n - 1]
             b == applied[n]
             s == order[n]
  <2>1. s \in DOMAIN PlannedFit(c) /\ b = FitSlot(c, a, s, PlannedFit(c)[s])
    BY <1>2, <1>3 DEF Applies
  <2>2. b.missing = {} /\ ~ AppliedWell(c, b, Done(order, n)) /\ n - 1 \in 0..L
    BY <1>2, <1>5
  <2>3. Done(order, n) = Done(order, n - 1) \cup {s}
    BY <1>2, DoneGrows
  <2> HIDE DEF a, b, s
  <2>4. a.missing = {}
    <3> DEFINE e == PlannedFit(c)[s]
               rounds == RoundsFor(c, a.left, e)
    <3>1. b = FitSlot(c, a, s, e) /\ rounds = RoundsFor(c, a.left, e)
      BY <2>1
    <3> HIDE DEF e, rounds
    <3>2. SlotDone(a, s, e, rounds, FitSlot(c, a, s, e))
      BY <3>1, FitSlotDoes
    <3>3. b.missing = a.missing \cup Missing(a.left, e, rounds)
      BY <3>1, <3>2 DEF SlotDone
    <3> QED BY <2>2, <3>3
  <2>5. ~ AppliedWell(c, a, Done(order, n - 1))
    <3> SUFFICES ASSUME AppliedWell(c, a, Done(order, n - 1)) PROVE FALSE
      OBVIOUS
    <3> DEFINE D == Done(order, n - 1)
    <3> HIDE DEF D
    <3>1. AppliedWell(c, a, D)
      BY DEF D
    <3>2. AppliedWell(c, b, D \cup {s})
      BY <2>1, <2>2, <3>1, SlotIsApplied
    <3> QED BY <2>2, <2>3, <3>2 DEF D
  <2> QED BY <2>2, <2>4, <2>5 DEF a
<1>6. W = {}
  <2>1. W \subseteq 0..L
    OBVIOUS
  <2> HIDE DEF W
  <2> QED BY <1>2, <1>4, <1>5, <2>1, UpTo
<1>7. applied[L].missing = {} /\ L \in 0..L
  BY <1>2 DEF CanBeCreated
<1>8. AppliedWell(c, applied[L], Done(order, L))
  BY <1>6, <1>7
<1>9. Done(order, L) = DOMAIN PlannedFit(c)
  BY <1>3 DEF Done
<1> QED BY <1>2, <1>8, <1>9

LEMMA StartIsPlanned ==
  ASSUME NEW c, NEW a, AppliedWell(c, a, DOMAIN PlannedFit(c))
  PROVE  AsPlanned(c, a.fit)
BY DEF AppliedWell, FittedWell, AsPlanned

-----------------------------------------------------------------------------
(* A new pilot. *)

Wearing(c, D, id) == Cardinality({s \in D : PlannedFit(c)[s].module = id})
Mentioned(c, D, id) == \E s \in D : PlannedFit(c)[s].ammunition = id

\* While the fit is applied, no module and no round is missing.
Supplied(c, a, D) ==
  /\ a.missing = {} /\ AppliedWell(c, a, D)
  /\ \A id \in DOMAIN c.modules : Of(a.left, id) = Granted(c, id) - Wearing(c, D, id)
  /\ \A id \in DOMAIN c.ammunition : ~ Mentioned(c, D, id) => Of(a.left, id) = Granted(c, id)

NoneShares(c) == \A i \in DOMAIN c.economy.fit : ~ SharesItsRounds(c, i)

LEMMA GrantedIsNat ==
  ASSUME NEW c, Accepted(c), NEW id
  PROVE  Granted(c, id) \in Nat
BY DEF Accepted, SchemasHold, EconomyFits, Granted

\* checkStartingFit() counts a module for every slot that wants it.
LEMMA ModulesAreSupplied ==
  ASSUME NEW c, Accepted(c), NEW D \in SUBSET DOMAIN PlannedFit(c), NEW s \in DOMAIN PlannedFit(c) \ D,
         NEW id, id = PlannedFit(c)[s].module
  PROVE  /\ Wearing(c, D, id) \in Nat /\ Granted(c, id) \in Nat /\ Wearing(c, D, id) < Granted(c, id)
         /\ Wearing(c, D \cup {s}, id) = Wearing(c, D, id) + 1
<1> DEFINE S == DOMAIN PlannedFit(c)
           I == DOMAIN c.economy.fit
           b == StartSlots(c)
           A == {t \in D : PlannedFit(c)[t].module = id}
           B == {t \in S : PlannedFit(c)[t].module = id}
           J == {i \in I : c.economy.fit[i].module = id}
           K == {i \in I : c.economy.fit[i].ammunition = id}
<1>1. StartIsSound(c) /\ PlannedIs(c)
  BY StartsAreSound, PlannedAsAuthored
<1>2. IsFiniteSet(I) /\ OneToOne(b, I) /\ StartingFitIsValid(c)
  BY <1>1 DEF StartIsSound
<1>3. S = {b[i] : i \in I} /\ \A i \in I : PlannedFit(c)[b[i]] = c.economy.fit[i]
  BY <1>1 DEF PlannedIs
<1>4. IsFiniteSet(J) /\ IsFiniteSet(K) /\ OneToOne(b, J)
  BY <1>2, FS_Subset DEF OneToOne
<1>5. B = {b[i] : i \in J}
  <2> HIDE DEF b, I, S
  <2> QED BY <1>3
<1>6. IsFiniteSet(B) /\ Cardinality(B) = Cardinality(J)
  <2> HIDE DEF J, B, b
  <2> QED BY <1>4, <1>5, CountRelabelled
<1>7. A \cup {s} \in SUBSET B /\ s \notin A /\ {t \in D \cup {s} : PlannedFit(c)[t].module = id} = A \cup {s}
  OBVIOUS
<1>8. Wearing(c, D, id) = Cardinality(A) /\ Wearing(c, D \cup {s}, id) = Cardinality(A \cup {s})
  BY <1>7 DEF Wearing
<1>9. Cardinality(J) + Cardinality(K) <= Granted(c, id)
  <2>1. PICK i \in I : PlannedFit(c)[s] = c.economy.fit[i]
    BY <1>3
  <2>2. id # None
    <3>1. SchemasHold(c) /\ id \in DOMAIN c.modules
      BY <1>1, <2>1 DEF Accepted, StartIsSound
    <3> QED BY <3>1, GoodsAreSound DEF Physical
  <2>3. UsedByFit(c, id) <= Granted(c, id)
    BY <1>2, <2>1, <2>2 DEF StartingFitIsValid
  <2> QED BY <2>3 DEF UsedByFit, CountOf
<1> HIDE DEF A, B, J, K
<1>10. IsFiniteSet(A) /\ Cardinality(A \cup {s}) <= Cardinality(B)
  <2>1. A \in SUBSET B
    BY <1>7
  <2> QED BY <1>6, <1>7, <2>1, FS_Subset
<1>11. Cardinality(A \cup {s}) = Cardinality(A) + 1
  BY <1>7, <1>10, FS_AddElement
<1>12. Cardinality(A) \in Nat /\ Cardinality(J) \in Nat /\ Cardinality(K) \in Nat /\ Granted(c, id) \in Nat
  BY <1>4, <1>10, FS_CardinalityType, GrantedIsNat
<1> QED BY <1>6, <1>8, <1>9, <1>10, <1>11, <1>12

\* A charge that one slot loads was granted.
LEMMA RoundsAreSupplied ==
  ASSUME NEW c, Accepted(c), NEW s \in DOMAIN PlannedFit(c), NEW id, id = PlannedFit(c)[s].ammunition, id # None
  PROVE  Granted(c, id) > 0
<1> DEFINE I == DOMAIN c.economy.fit
           J == {i \in I : c.economy.fit[i].module = id}
           K == {i \in I : c.economy.fit[i].ammunition = id}
<1>1. StartIsSound(c) /\ PlannedIs(c)
  BY StartsAreSound, PlannedAsAuthored
<1>2. PICK i \in I : PlannedFit(c)[s] = c.economy.fit[i]
  BY <1>1 DEF PlannedIs
<1>3. UsedByFit(c, id) <= Granted(c, id)
  BY <1>1, <1>2 DEF StartIsSound, StartingFitIsValid
<1>4. Cardinality(J) + Cardinality(K) <= Granted(c, id)
  BY <1>3 DEF UsedByFit, CountOf
<1>5. IsFiniteSet(J) /\ IsFiniteSet(K) /\ i \in K
  <2>1. IsFiniteSet(I)
    BY <1>1 DEF StartIsSound
  <2> QED BY <1>2, <2>1, FS_Subset
<1> HIDE DEF J, K
<1>6. Cardinality(K) # 0
  BY <1>5, FS_EmptySet
<1>7. Cardinality(J) \in Nat /\ Cardinality(K) \in Nat /\ Granted(c, id) \in Nat
  BY <1>5, FS_CardinalityType, GrantedIsNat
<1> QED BY <1>4, <1>6, <1>7

LEMMA ChargesAreApart ==
  ASSUME NEW c, Accepted(c), NoneShares(c), NEW s \in DOMAIN PlannedFit(c), NEW t \in DOMAIN PlannedFit(c),
         s # t, PlannedFit(c)[s].ammunition # None
  PROVE  PlannedFit(c)[t].ammunition # PlannedFit(c)[s].ammunition
<1>1. StartIsSound(c) /\ PlannedIs(c)
  BY StartsAreSound, PlannedAsAuthored
<1>2. PICK i \in DOMAIN c.economy.fit : s = StartSlots(c)[i] /\ PlannedFit(c)[s] = c.economy.fit[i]
  BY <1>1 DEF PlannedIs
<1>3. PICK j \in DOMAIN c.economy.fit : t = StartSlots(c)[j] /\ PlannedFit(c)[t] = c.economy.fit[j]
  BY <1>1 DEF PlannedIs
<1>4. i # j
  BY <1>2, <1>3
<1>5. ~ SharesItsRounds(c, i)
  BY DEF NoneShares
<1> QED BY <1>2, <1>3, <1>4, <1>5 DEF SharesItsRounds

LEMMA SlotIsSupplied ==
  ASSUME NEW c, Accepted(c), NoneShares(c), NEW D \in SUBSET DOMAIN PlannedFit(c),
         NEW a, Supplied(c, a, D), NEW s \in DOMAIN PlannedFit(c) \ D, NEW b,
         b = FitSlot(c, a, s, PlannedFit(c)[s])
  PROVE  Supplied(c, b, D \cup {s})
<1> DEFINE e == PlannedFit(c)[s]
           rounds == RoundsFor(c, a.left, e)
           E == D \cup {s}
<1>1. PlannedEntry(c, e) /\ IsStock(a.left) /\ a.missing = {} /\ SchemasHold(c)
  BY PlannedEntries DEF Supplied, AppliedWell, Accepted
<1>2. SlotDone(a, s, e, rounds, b)
  <2>1. b = FitSlot(c, a, s, e) /\ rounds = RoundsFor(c, a.left, e)
    OBVIOUS
  <2> HIDE DEF e, rounds
  <2> QED BY <2>1, FitSlotDoes
<1>3. Of(a.left, e.module) # 0 /\ Wearing(c, E, e.module) = Wearing(c, D, e.module) + 1
      /\ Wearing(c, D, e.module) \in Nat /\ Granted(c, e.module) \in Nat
  <2> DEFINE id == e.module
  <2>1. id = PlannedFit(c)[s].module /\ id \in DOMAIN c.modules
    BY <1>1 DEF PlannedEntry
  <2> HIDE DEF id
  <2>2. /\ Wearing(c, D, id) \in Nat /\ Granted(c, id) \in Nat /\ Wearing(c, D, id) < Granted(c, id)
        /\ Wearing(c, D \cup {s}, id) = Wearing(c, D, id) + 1
    BY <2>1, ModulesAreSupplied
  <2>3. Of(a.left, id) = Granted(c, id) - Wearing(c, D, id)
    BY <2>1 DEF Supplied
  <2>4. Of(a.left, id) # 0
    BY <2>2, <2>3
  <2> QED BY <2>2, <2>4 DEF id
<1>4. e.ammunition # None => Of(a.left, e.ammunition) > 0
  <2> SUFFICES ASSUME e.ammunition # None PROVE Of(a.left, e.ammunition) > 0
    OBVIOUS
  <2>1. ~ Mentioned(c, D, e.ammunition)
    BY ChargesAreApart DEF Mentioned
  <2>2. e.ammunition \in DOMAIN c.ammunition
    BY <1>1 DEF PlannedEntry
  <2>3. Of(a.left, e.ammunition) = Granted(c, e.ammunition)
    BY <2>1, <2>2 DEF Supplied
  <2> QED BY <2>3, RoundsAreSupplied
<1>5. /\ rounds \in Nat
      /\ e.ammunition # None \/ rounds = 0
      /\ e.ammunition # None => rounds <= Of(a.left, e.ammunition)
      /\ e.ammunition # None => rounds > 0
  <2>1. rounds = RoundsFor(c, a.left, e)
    OBVIOUS
  <2> HIDE DEF rounds, e
  <2> QED BY <1>1, <1>4, <2>1, RoundsAreThere
<1> HIDE DEF rounds
<1>6. b.missing = {}
  <2>1. Missing(a.left, e, rounds) = {}
    <3> HIDE DEF e
    <3> QED BY <1>3, <1>5 DEF Missing
  <2> QED BY <1>1, <1>2, <2>1 DEF SlotDone
<1>7. AppliedWell(c, b, E)
  <2>1. AppliedWell(c, a, D)
    BY DEF Supplied
  <2> QED BY <1>6, <2>1, SlotIsApplied
<1>8. /\ DOMAIN b.left = DOMAIN a.left /\ IsStock(b.left)
      /\ \A x \in DOMAIN a.left :
           /\ x = e.module => b.left[x] = a.left[x] - 1
           /\ x # e.module /\ x # e.ammunition => b.left[x] = a.left[x]
  <2>1. b.left = Spent(a.left, e, rounds)
    BY <1>2 DEF SlotDone
  <2>2. e.module # e.ammunition
    BY <1>1 DEF PlannedEntry
  <2> HIDE DEF e
  <2> QED BY <1>1, <1>3, <1>5, <2>1, <2>2, SpentIs
<1>9. ASSUME NEW id \in DOMAIN c.modules PROVE Of(b.left, id) = Granted(c, id) - Wearing(c, E, id)
  <2>1. id # e.ammunition
    <3>1. id \notin DOMAIN c.ammunition /\ id # None
      BY <1>1, GoodsAreSound DEF Physical
    <3> QED BY <1>1, <3>1 DEF PlannedEntry
  <2>2. Of(a.left, id) = Granted(c, id) - Wearing(c, D, id)
    BY DEF Supplied
  <2>3. CASE id = e.module
    <3>1. id \in DOMAIN a.left
      BY <1>3, <2>3 DEF Of
    <3>2. Of(b.left, id) = Of(a.left, id) - 1
      BY <1>8, <2>3, <3>1 DEF Of
    <3> HIDE DEF e, E
    <3> QED BY <1>3, <2>2, <2>3, <3>2
  <2>4. CASE id # e.module
    <3>1. Of(b.left, id) = Of(a.left, id)
      <4> HIDE DEF e
      <4> QED BY <1>8, <2>1, <2>4 DEF Of
    <3>2. {t \in E : PlannedFit(c)[t].module = id} = {t \in D : PlannedFit(c)[t].module = id}
      BY <2>4
    <3>3. Wearing(c, E, id) = Wearing(c, D, id)
      BY <3>2 DEF Wearing
    <3> QED BY <2>2, <3>1, <3>3
  <2> QED BY <2>3, <2>4
<1>10. ASSUME NEW id \in DOMAIN c.ammunition, ~ Mentioned(c, E, id) PROVE Of(b.left, id) = Granted(c, id)
  <2>1. id # e.ammunition /\ ~ Mentioned(c, D, id)
    BY <1>10 DEF Mentioned
  <2>2. id # e.module
    <3>1. e.module \notin DOMAIN c.ammunition
      BY <1>1, GoodsAreSound DEF PlannedEntry
    <3> QED BY <3>1
  <2>3. Of(b.left, id) = Of(a.left, id)
    <3> HIDE DEF e
    <3> QED BY <1>8, <2>1, <2>2 DEF Of
  <2> QED BY <2>1, <2>3 DEF Supplied
<1> HIDE DEF E
<1>11. Supplied(c, b, E)
  BY <1>6, <1>7, <1>9, <1>10 DEF Supplied
<1> QED BY <1>11 DEF E

LEMMA StartsSupplied ==
  ASSUME NEW c, Accepted(c)
  PROVE  Supplied(c, Started(c), {})
<1> DEFINE left == [id \in DOMAIN c.economy.items |-> c.economy.items[id].quantity]
<1>1. Started(c).left = left
  BY DEF Started
<1>2. \A id : Of(left, id) = Granted(c, id)
  BY DEF Of, Granted
<1>3. \A id : Wearing(c, {}, id) = 0
  <2>1. \A id : {s \in {} : PlannedFit(c)[s].module = id} = {}
    OBVIOUS
  <2> QED BY <2>1, FS_EmptySet DEF Wearing
<1>4. \A id : Granted(c, id) \in Nat
  BY GrantedIsNat
<1> HIDE DEF left
<1>5. AppliedWell(c, Started(c), {}) /\ Started(c).missing = {}
  BY StartsWell
<1>6. \A id : Of(Started(c).left, id) = Granted(c, id) - Wearing(c, {}, id)
  BY <1>1, <1>2, <1>3, <1>4
<1> QED BY <1>1, <1>2, <1>5, <1>6 DEF Supplied

LEMMA StartIsSupplied ==
  ASSUME NEW c, Accepted(c), NoneShares(c)
  PROVE  Supplied(c, AppliedStart(c), DOMAIN PlannedFit(c))
<1>1. PICK order, L, applied : StartOrder(c, order, L, applied)
  BY StartIsOrdered
<1> DEFINE W == {n \in 0..L : ~ Supplied(c, applied[n], Done(order, n))}
<1>2. L \in Nat /\ Applies(c, applied, order, L) /\ AppliedStart(c) = applied[L]
  BY <1>1 DEF StartOrder
<1>3. DOMAIN order = 1..L /\ DOMAIN PlannedFit(c) = {order[n] : n \in 1..L} /\ OneToOne(order, 1..L)
  BY <1>1 DEF StartOrder, InOrder
<1>4. 0 \notin W
  <2>1. Supplied(c, applied[0], {})
    BY <1>2, StartsSupplied DEF Applies
  <2>2. Done(order, 0) = {}
    BY DEF Done
  <2> QED BY <2>1, <2>2
<1>5. ASSUME NEW n \in 1..L, n \in W PROVE n - 1 \in W
  <2> DEFINE a == applied[n - 1]
             b == applied[n]
             s == order[n]
             D == Done(order, n - 1)
  <2>1. s \in DOMAIN PlannedFit(c) /\ b = FitSlot(c, a, s, PlannedFit(c)[s])
    BY <1>2, <1>3 DEF Applies
  <2>2. ~ Supplied(c, b, Done(order, n)) /\ n - 1 \in 0..L
    BY <1>2, <1>5
  <2>3. Done(order, n) = D \cup {s}
    BY <1>2, DoneGrows
  <2>4. D \in SUBSET DOMAIN PlannedFit(c)
    <3>1. 1..(n - 1) \subseteq 1..L
      BY <1>2
    <3> QED BY <1>3, <3>1 DEF Done
  <2>5. s \notin D
    <3> SUFFICES ASSUME NEW k \in 1..(n - 1), order[k] = order[n] PROVE FALSE
      BY DEF Done
    <3>1. k \in 1..L /\ n \in 1..L /\ k # n
      BY <1>2
    <3> QED BY <1>3, <3>1 DEF OneToOne
  <2> HIDE DEF a, b, s, D
  <2>6. ~ Supplied(c, a, D)
    <3> SUFFICES ASSUME Supplied(c, a, D) PROVE FALSE
      OBVIOUS
    <3>1. s \in DOMAIN PlannedFit(c) \ D
      BY <2>1, <2>5
    <3>2. Supplied(c, b, D \cup {s})
      BY <2>1, <2>4, <3>1, SlotIsSupplied
    <3> QED BY <2>2, <2>3, <3>2
  <2> QED BY <2>2, <2>6 DEF a, D
<1>6. W = {}
  <2>1. W \subseteq 0..L
    OBVIOUS
  <2> HIDE DEF W
  <2> QED BY <1>2, <1>4, <1>5, <2>1, UpTo
<1>7. Supplied(c, applied[L], Done(order, L))
  BY <1>2, <1>6
<1>8. Done(order, L) = DOMAIN PlannedFit(c)
  BY <1>3 DEF Done
<1> QED BY <1>2, <1>7, <1>8

\* A new pilot can fight: checkStartingFit() counts a module and a round for
\* every slot that wants one, which is what applyDraftTo() takes slot by slot,
\* and what it leaves on the ship is the authored fit with a loaded gun online.
THEOREM NewPilotsAreReady == Spec => []NewPilotIsReady
<1>1. InstalledIsAccepted => NewPilotIsReady
  <2> DEFINE c == installed
             a == AppliedStart(c)
  <2> SUFFICES ASSUME InstalledIsAccepted, Built, \A i \in DOMAIN c.economy.fit : ~ SharesItsRounds(c, i)
               PROVE  /\ CanBeCreated(c)
                      /\ Cardinality(DOMAIN a.fit) = Len(c.economy.fit)
                      /\ FitBreaks(c, c.economy.hull, a.fit) = {}
                      /\ c.economy.fit # <<>> =>
                           \E s \in DOMAIN a.fit : a.fit[s].online /\ a.fit[s].rounds > 0
    BY DEF NewPilotIsReady
  <2>1. Accepted(c) /\ NoneShares(c)
    BY DEF InstalledIsAccepted, NoneShares
  <2> HIDE DEF c
  <2>2. Supplied(c, a, DOMAIN PlannedFit(c))
    BY <2>1, StartIsSupplied
  <2>3. CanBeCreated(c)
    BY <2>2 DEF Supplied, CanBeCreated
  <2>4. AppliedWell(c, a, DOMAIN PlannedFit(c)) /\ StartIsSound(c) /\ PlannedIs(c)
    BY <2>1, <2>2, StartsAreSound, PlannedAsAuthored DEF Supplied
  <2>5. Cardinality(DOMAIN a.fit) = Len(c.economy.fit) /\ FitBreaks(c, c.economy.hull, a.fit) = {}
    <3>1. AsPlanned(c, a.fit)
      BY <2>4, StartIsPlanned
    <3> HIDE DEF a
    <3> QED BY <2>4, <3>1, PlannedFits
  <2>6. ASSUME c.economy.fit # <<>> PROVE \E s \in DOMAIN a.fit : a.fit[s].online /\ a.fit[s].rounds > 0
    <3>1. PICK i \in Online(c.economy.fit) : c.economy.fit[i].ammunition # None
      BY <2>4, <2>6 DEF StartIsSound, StartingFitIsValid
    <3> DEFINE s == StartSlots(c)[i]
    <3>2. i \in DOMAIN c.economy.fit /\ c.economy.fit[i].online
      BY <3>1 DEF Online
    <3>3. s \in DOMAIN PlannedFit(c) /\ PlannedFit(c)[s] = c.economy.fit[i]
      BY <2>4, <3>2 DEF PlannedIs
    <3> HIDE DEF a, s
    <3>4. s \in DOMAIN a.fit /\ FittedWell(c, a.fit, s)
      BY <2>4, <3>3 DEF AppliedWell
    <3>5. a.fit[s].rounds > 0 /\ a.fit[s].online
      BY <3>1, <3>2, <3>3, <3>4 DEF FittedWell
    <3> QED BY <3>4, <3>5
  <2> HIDE DEF a
  <2> QED BY <2>3, <2>5, <2>6
<1> QED BY <1>1, InstalledHolds, PTL

-----------------------------------------------------------------------------
(* What a campaign must be to be played: a shape, and what a load checks. *)

CampaignFields == {"credits", "station", "encounter", "ship", "hangar", "hold", "opponents", "stock",
                   "markets", "known"}
ShipFields == {"hull", "capacity", "fit", "damage", "marked"}
EntryFields == {"module", "online", "ammunition", "rounds"}

IsShip(ship) ==
  /\ DOMAIN ship = ShipFields /\ ship.hull \in Ids["hull"] /\ ship.damage \in Nat
  /\ \A s \in DOMAIN ship.fit :
       /\ DOMAIN ship.fit[s] = EntryFields /\ ship.fit[s].module \in Ids["module"]
       /\ ship.fit[s].rounds \in Nat

\* The shape every campaign has, under whatever content it was played.
IsCampaign(m) ==
  /\ DOMAIN m = CampaignFields /\ m.credits \in Int /\ m.station \in Ids["station"]
  /\ m.ship = NoShip => m.hold = NoGoods
  /\ m.ship # NoShip => IsShip(m.ship)
  /\ m.markets \subseteq DOMAIN m.stock
  /\ \A s \in DOMAIN m.stock : \A id \in DOMAIN m.stock[s] : m.stock[s][id] \in Int
  /\ \A x \in DOMAIN m.opponents : m.opponents[x].loot \in Ids["loot"]

\* The same with the checks of a load, part by part.
PlacesAreGood(m, c) ==
  /\ DOMAIN m = CampaignFields /\ m.credits \in Int
  /\ m.station \in Ids["station"] /\ m.station \in IdsOf(c) /\ m.known \subseteq IdsOf(c)
  /\ m.encounter # NoEncounter => m.encounter \in DOMAIN c.encounters
  /\ DOMAIN m.hangar \subseteq IdsOf(c) /\ DOMAIN m.hold \subseteq IdsOf(c)

ShipIsGood(ship, c) == IsShip(ship) /\ IdsInShip(ship) \subseteq IdsOf(c) /\ ShipIsValid(ship, c)

PilotIsGood(m, c) ==
  /\ m.ship = NoShip => m.encounter = NoEncounter /\ m.credits >= StarterValue(c) /\ m.hold = NoGoods
  /\ m.ship # NoShip => /\ ShipIsGood(m.ship, c) /\ c.hulls[m.ship.hull].usable
                        /\ VolumeIn(c, m.hold) <= m.ship.capacity

StockIsGood(m, c) ==
  /\ DOMAIN m.stock \subseteq IdsOf(c) /\ m.markets \subseteq DOMAIN m.stock
  /\ \A s \in DOMAIN m.stock : DOMAIN m.stock[s] \subseteq IdsOf(c) /\ DOMAIN m.stock[s] = DOMAIN ShelfAt(c, s)
  /\ \A s \in DOMAIN m.stock : \A id \in DOMAIN m.stock[s] :
       m.stock[s][id] \in Int /\ (c.listings[s][id].fixed => m.stock[s][id] = c.listings[s][id].initial)

OpponentsAreGood(opponents, c) ==
  \A x \in DOMAIN opponents :
    /\ opponents[x].loot \in Ids["loot"] /\ IdsInOpponent(opponents[x]) \subseteq IdsOf(c)
    /\ ShipIsValid(opponents[x].ship, c) /\ VolumeIn(c, opponents[x].hold) <= opponents[x].ship.capacity

IsGood(m, c) ==
  PlacesAreGood(m, c) /\ PilotIsGood(m, c) /\ StockIsGood(m, c) /\ OpponentsAreGood(m.opponents, c)

ReferencesAre(m, c) ==
  /\ m.station \in IdsOf(c) /\ m.known \subseteq IdsOf(c) /\ IdsInShip(m.ship) \subseteq IdsOf(c)
  /\ DOMAIN m.hangar \subseteq IdsOf(c) /\ DOMAIN m.hold \subseteq IdsOf(c) /\ DOMAIN m.stock \subseteq IdsOf(c)
  /\ \A s \in DOMAIN m.stock : DOMAIN m.stock[s] \subseteq IdsOf(c)
  /\ \A x \in DOMAIN m.opponents : IdsInOpponent(m.opponents[x]) \subseteq IdsOf(c)

LEMMA ReferencesApart ==
  ASSUME NEW m, NEW c
  PROVE  References(m) \subseteq IdsOf(c) <=> ReferencesAre(m, c)
<1> DEFINE I == IdsOf(c)
           A == UNION {DOMAIN m.stock[s] : s \in DOMAIN m.stock}
           B == UNION {IdsInOpponent(m.opponents[x]) : x \in DOMAIN m.opponents}
<1>1. A \subseteq I <=> \A s \in DOMAIN m.stock : DOMAIN m.stock[s] \subseteq I
  BY Zenon
<1>2. B \subseteq I <=> \A x \in DOMAIN m.opponents : IdsInOpponent(m.opponents[x]) \subseteq I
  BY Zenon
<1>3. References(m) = {m.station} \cup m.known \cup IdsInShip(m.ship) \cup DOMAIN m.hangar \cup DOMAIN m.hold
                        \cup DOMAIN m.stock \cup A \cup B
  BY Zenon DEF References
<1> HIDE DEF I, A, B
<1>4. References(m) \subseteq I <=>
        /\ m.station \in I /\ m.known \subseteq I /\ IdsInShip(m.ship) \subseteq I
        /\ DOMAIN m.hangar \subseteq I /\ DOMAIN m.hold \subseteq I /\ DOMAIN m.stock \subseteq I
        /\ A \subseteq I /\ B \subseteq I
  BY <1>3
<1> QED BY <1>1, <1>2, <1>4 DEF ReferencesAre, I

LEMMA GoodIs ==
  ASSUME NEW m, NEW c
  PROVE  IsGood(m, c) <=> IsCampaign(m) /\ CanBeLoaded(m, c)
<1>1. References(m) \subseteq IdsOf(c) <=> ReferencesAre(m, c)
  BY ReferencesApart
<1>2. IdsInShip(NoShip) = {}
  BY DEF IdsInShip
<1>3. ASSUME IsGood(m, c) PROVE IsCampaign(m) /\ CanBeLoaded(m, c)
  <2>1. PlacesAreGood(m, c) /\ PilotIsGood(m, c) /\ StockIsGood(m, c) /\ OpponentsAreGood(m.opponents, c)
    BY <1>3 DEF IsGood
  <2>2. IsCampaign(m)
    BY <2>1 DEF PlacesAreGood, PilotIsGood, StockIsGood, OpponentsAreGood, ShipIsGood, IsCampaign
  <2>3. IdsInShip(m.ship) \subseteq IdsOf(c)
    <3>1. CASE m.ship = NoShip
      BY <1>2, <3>1
    <3>2. CASE m.ship # NoShip
      BY <2>1, <3>2 DEF PilotIsGood, ShipIsGood
    <3> QED BY <3>1, <3>2
  <2>4. ReferencesAre(m, c)
    BY <2>1, <2>3 DEF PlacesAreGood, StockIsGood, OpponentsAreGood, ReferencesAre
  <2>5. PilotIsValid(m, c) /\ HoldsAreValid(m, c)
    BY <2>1 DEF PilotIsGood, ShipIsGood, OpponentsAreGood, PilotIsValid, HoldsAreValid
  <2>6. ListingsAreValid(m, c) /\ \A x \in DOMAIN m.opponents : ShipIsValid(m.opponents[x].ship, c)
    BY <2>1 DEF StockIsGood, OpponentsAreGood, ListingsAreValid
  <2>7. m.encounter # NoEncounter => m.encounter \in DOMAIN c.encounters
    BY <2>1 DEF PlacesAreGood
  <2> QED BY <1>1, <2>2, <2>4, <2>5, <2>6, <2>7 DEF CanBeLoaded, Resolves, CampaignIsValid
<1>4. ASSUME IsCampaign(m), CanBeLoaded(m, c) PROVE IsGood(m, c)
  <2>1. /\ ReferencesAre(m, c) /\ PilotIsValid(m, c) /\ HoldsAreValid(m, c) /\ ListingsAreValid(m, c)
        /\ \A x \in DOMAIN m.opponents : ShipIsValid(m.opponents[x].ship, c)
        /\ m.encounter # NoEncounter => m.encounter \in DOMAIN c.encounters
    BY <1>1, <1>4 DEF CanBeLoaded, Resolves, CampaignIsValid
  <2>2. PlacesAreGood(m, c)
    BY <1>4, <2>1 DEF IsCampaign, ReferencesAre, PlacesAreGood
  <2>3. PilotIsGood(m, c)
    BY <1>4, <2>1 DEF IsCampaign, ReferencesAre, PilotIsValid, HoldsAreValid, PilotIsGood, ShipIsGood
  <2>4. StockIsGood(m, c)
    BY <1>4, <2>1 DEF IsCampaign, ReferencesAre, ListingsAreValid, StockIsGood
  <2>5. OpponentsAreGood(m.opponents, c)
    BY <1>4, <2>1 DEF IsCampaign, ReferencesAre, HoldsAreValid, OpponentsAreGood
  <2> QED BY <2>2, <2>3, <2>4, <2>5 DEF IsGood
<1> QED BY <1>3, <1>4

-----------------------------------------------------------------------------
(* Identifiers and numbers of accepted content. *)

LEMMA KindIsKnown ==
  ASSUME NEW c, SchemasHold(c), NEW k \in Kinds, NEW id
  PROVE  /\ id \in DOMAIN Definitions(c)[k] => id \in IdsOf(c) /\ id \in Ids[k]
         /\ id \in IdsOf(c) /\ id \in Ids[k] => id \in DOMAIN Definitions(c)[k]
<1>1. \A l \in Kinds : DOMAIN Definitions(c)[l] \subseteq Ids[l]
  BY DEF SchemasHold
<1>2. id \in DOMAIN Definitions(c)[k] => id \in IdsOf(c) /\ id \in Ids[k]
  BY <1>1 DEF IdsOf
<1>3. ASSUME id \in IdsOf(c), id \in Ids[k] PROVE id \in DOMAIN Definitions(c)[k]
  <2>1. PICK l \in Kinds : id \in DOMAIN Definitions(c)[l]
    BY <1>3 DEF IdsOf
  <2>2. l = k
    BY <1>1, <1>3, <2>1, IdsAssumption
  <2> QED BY <2>1, <2>2
<1> QED BY <1>2, <1>3

Known(c, ids, kind) == \A id : id \in ids <=> id \in IdsOf(c) /\ id \in Ids[kind]

LEMMA KindsAreKnown ==
  ASSUME NEW c, SchemasHold(c)
  PROVE  /\ Known(c, DOMAIN c.items, "item") /\ Known(c, DOMAIN c.modules, "module")
         /\ Known(c, DOMAIN c.ammunition, "ammunition") /\ Known(c, DOMAIN c.hulls, "hull")
         /\ Known(c, DOMAIN c.sites, "site") /\ Known(c, DOMAIN c.stations, "station")
         /\ Known(c, DOMAIN c.profiles, "profile") /\ Known(c, DOMAIN c.loot, "loot")
<1>1. /\ {"item", "module", "ammunition", "hull", "site", "station", "profile", "loot"} \subseteq Kinds
      /\ Definitions(c)["item"] = c.items /\ Definitions(c)["module"] = c.modules
      /\ Definitions(c)["ammunition"] = c.ammunition /\ Definitions(c)["hull"] = c.hulls
      /\ Definitions(c)["site"] = c.sites /\ Definitions(c)["station"] = c.stations
      /\ Definitions(c)["profile"] = c.profiles /\ Definitions(c)["loot"] = c.loot
  BY DEF Kinds, Definitions
<1>2. ASSUME NEW k \in Kinds PROVE Known(c, DOMAIN Definitions(c)[k], k)
  BY KindIsKnown DEF Known
<1> HIDE DEF Known
<1>3. /\ Known(c, DOMAIN Definitions(c)["item"], "item") /\ Known(c, DOMAIN Definitions(c)["module"], "module")
      /\ Known(c, DOMAIN Definitions(c)["ammunition"], "ammunition")
      /\ Known(c, DOMAIN Definitions(c)["hull"], "hull") /\ Known(c, DOMAIN Definitions(c)["site"], "site")
      /\ Known(c, DOMAIN Definitions(c)["station"], "station")
      /\ Known(c, DOMAIN Definitions(c)["profile"], "profile") /\ Known(c, DOMAIN Definitions(c)["loot"], "loot")
  BY <1>1, <1>2
<1> QED BY <1>1, <1>3

LEMMA GoodsAreKnown ==
  ASSUME NEW c, SchemasHold(c)
  PROVE  Sellable(c) \subseteq IdsOf(c) /\ Physical(c) \subseteq IdsOf(c)
BY KindsAreKnown DEF Sellable, Physical, Known

LEMMA ProductIsNat == ASSUME NEW m \in Nat, NEW n \in Nat PROVE m * n \in Nat
OBVIOUS

LEMMA ProductGrows == ASSUME NEW m \in Nat, NEW n \in Int, NEW k \in Int, n <= k PROVE m * n <= m * k
OBVIOUS

LEMMA TheGreater ==
  ASSUME NEW m \in Int, NEW n \in Int
  PROVE  Max({m, n}) \in Int
<1>1. \E x \in {m, n} : \A y \in {m, n} : x >= y
  <2>1. m >= n \/ n >= m
    OBVIOUS
  <2>2. m >= m /\ n >= n
    OBVIOUS
  <2> QED BY <2>1, <2>2
<1>2. Max({m, n}) \in {m, n}
  BY <1>1 DEF Max
<1> QED BY <1>2

LEMMA QuotientIsInt ==
  ASSUME NEW m \in Int, NEW n \in Nat, n > 0
  PROVE  RoundDiv(m, n) \in Int
<1>1. n \div 2 \in Int
  OBVIOUS
<1>2. m + n \div 2 \in Int
  BY <1>1
<1> DEFINE k == m + n \div 2
<1> HIDE DEF k
<1>3. k \in Int => k \div n \in Int
  OBVIOUS
<1> QED BY <1>2, <1>3 DEF RoundDiv, k

LEMMA PriceIsInt ==
  ASSUME NEW c, SchemasHold(c), NEW l, ListingFits(l)
  PROVE  Price(c, l) \in Int
<1> DEFINE low == c.bounds.effectiveSpread[1]
           high == c.bounds.effectiveSpread[2]
           spread == Clamp(low, high, l.spread)
<1>1. low \in Nat /\ high \in Nat
  BY DEF SchemasHold
<1>2. l.spread \in Nat /\ l.base \in Nat
  BY DEF ListingFits
<1> HIDE DEF low, high
<1>3. spread \in Nat
  BY <1>1, <1>2 DEF Clamp
<1>4. Price(c, l) = Max({1, RoundDiv(l.base * (100 + spread), 100)})
  BY DEF Price, low, high
<1> HIDE DEF spread
<1>5. l.base * (100 + spread) \in Int
  BY <1>2, <1>3
<1>6. RoundDiv(l.base * (100 + spread), 100) \in Int
  BY <1>5, QuotientIsInt
<1> QED BY <1>4, <1>6, TheGreater

LEMMA QuoteIsInt ==
  ASSUME NEW l, ListingFits(l), NEW stock \in Int
  PROVE  UnitQuote(l, stock, "stationSells") \in Int
<1> DEFINE spread == Clamp(2, 25, l.spread)
           m == ScarcityMultiplier(l, stock)
           T == l.target
           scarcity == Clamp(-T, 2 * T, T - stock)
<1>1. l.spread \in Nat /\ l.base \in Nat /\ T \in Nat /\ T > 0 /\ l.elasticity \in Nat /\ l.fixed \in BOOLEAN
  BY DEF ListingFits
<1>2. spread \in Int
  BY <1>1 DEF Clamp
<1>3. m = IF l.fixed THEN 100 * T ELSE Clamp(40 * T, 250 * T, 100 * T + l.elasticity * scarcity)
  BY DEF ScarcityMultiplier
<1>4. UnitQuote(l, stock, "stationSells") = Max({1, RoundDiv(l.base * m * (100 + spread), 10000 * T)})
  BY DEF UnitQuote
<1> HIDE DEF spread, m, T
<1>5. scarcity \in Int
  BY <1>1 DEF Clamp
<1> HIDE DEF scarcity
<1>6. l.elasticity * scarcity \in Int
  BY <1>1, <1>5
<1>7. m \in Int
  BY <1>1, <1>3, <1>6 DEF Clamp
<1>8. l.base * m \in Int
  BY <1>1, <1>7
<1>9. l.base * m * (100 + spread) \in Int
  BY <1>2, <1>8
<1>10. 10000 * T \in Nat /\ 10000 * T > 0
  BY <1>1
<1>11. RoundDiv(l.base * m * (100 + spread), 10000 * T) \in Int
  BY <1>9, <1>10, QuotientIsInt
<1> QED BY <1>4, <1>11, TheGreater

\* The reference value of the starter ship, and what its parts are worth.
PartValue(c, e) ==
  c.modules[e.module].value +
    IF e.ammunition = None THEN 0 ELSE Magazine(c, e) * c.ammunition[e.ammunition].value

LEMMA PartsHaveValue ==
  ASSUME NEW c, Accepted(c), NEW i \in DOMAIN c.economy.fit
  PROVE  PartValue(c, c.economy.fit[i]) \in Nat
<1> DEFINE e == c.economy.fit[i]
           full == c.modules[e.module].magazine
           value == c.ammunition[e.ammunition].value
           module == c.modules[e.module].value
<1>1. StartIsSound(c) /\ SchemasHold(c)
  BY StartsAreSound DEF Accepted
<1>2. full \in Nat /\ module \in Nat
  BY <1>1 DEF StartIsSound, ModuleFits
<1>3. e.ammunition # None => value \in Nat
  BY <1>1 DEF StartIsSound, SchemasHold
<1>4. Magazine(c, e) = IF e.ammunition = None THEN 0 ELSE full
  BY DEF Magazine
<1>5. PartValue(c, e) = module + IF e.ammunition = None THEN 0 ELSE Magazine(c, e) * value
  BY DEF PartValue
<1> HIDE DEF full, value, module
<1>6. CASE e.ammunition = None
  BY <1>2, <1>5, <1>6
<1>7. CASE e.ammunition # None
  <2>1. full * value \in Nat
    BY <1>2, <1>3, <1>7, ProductIsNat
  <2> QED BY <1>2, <1>4, <1>5, <1>7, <2>1
<1> QED BY <1>6, <1>7

LEMMA StarterHasValue ==
  ASSUME NEW c, Accepted(c)
  PROVE  /\ StarterValue(c) = c.hulls[c.economy.hull].value
                                + SumFunction([i \in DOMAIN c.economy.fit |-> PartValue(c, c.economy.fit[i])])
         /\ StarterValue(c) \in Nat
<1> DEFINE r == [i \in DOMAIN c.economy.fit |-> PartValue(c, c.economy.fit[i])]
<1>1. StartIsSound(c)
  BY StartsAreSound
<1>2. IsFiniteSet(DOMAIN r) /\ \A i \in DOMAIN r : r[i] \in Nat
  BY <1>1, PartsHaveValue DEF StartIsSound
<1>3. StarterValue(c) = c.hulls[c.economy.hull].value + SumFunction(r)
  BY DEF StarterValue, TotalOf, PartValue
<1>4. c.hulls[c.economy.hull].value \in Nat
  BY <1>1 DEF StartIsSound, HullFits
<1>5. SumFunction(r) \in Nat
  <2> HIDE DEF r
  <2> QED BY <1>2, SumType
<1> QED BY <1>3, <1>4, <1>5

-----------------------------------------------------------------------------
(* Ships. *)

\* A fit of modules and charges there are, which breaks no rule of structure.
FitIsGood(c, hull, fit) ==
  /\ \A s \in DOMAIN fit :
       /\ DOMAIN fit[s] = EntryFields /\ fit[s].module \in DOMAIN c.modules
       /\ fit[s].ammunition \in DOMAIN c.ammunition \cup {None} /\ fit[s].rounds \in Nat
  /\ StructuralViolations(c, hull, fit) = {}

ShipIs(ship, hull, capacity, fit) ==
  ship # NoShip /\ ship.hull = hull /\ ship.capacity = capacity /\ ship.fit = fit

LEMMA FreshShipIsGood ==
  ASSUME NEW c, Accepted(c), NEW hull \in DOMAIN c.hulls, NEW fit, FitIsGood(c, hull, fit), NEW marked
  PROVE  /\ ShipIsGood(Ship(c, hull, fit, marked), c)
         /\ ShipIs(Ship(c, hull, fit, marked), hull, c.hulls[hull].hold, fit)
<1> DEFINE ship == Ship(c, hull, fit, marked)
<1>1. SchemasHold(c)
  BY DEF Accepted
<1>2. /\ Known(c, DOMAIN c.modules, "module") /\ Known(c, DOMAIN c.ammunition, "ammunition")
      /\ Known(c, DOMAIN c.hulls, "hull")
  BY <1>1, KindsAreKnown
<1>3. /\ DOMAIN ship = ShipFields /\ ship.hull = hull /\ ship.capacity = c.hulls[hull].hold
      /\ ship.fit = fit /\ ship.damage = 0
  BY DEF Ship, ShipFields
<1>4. ship # NoShip
  <2>1. DOMAIN NoShip = {} /\ ShipFields # {}
    BY DEF NoShip, ShipFields
  <2> QED BY <1>3, <2>1
<1> HIDE DEF ship
<1>5. IsShip(ship)
  BY <1>2, <1>3 DEF FitIsGood, IsShip, Known
<1>6. IdsInShip(ship) \subseteq IdsOf(c)
  BY <1>2, <1>3, <1>4 DEF FitIsGood, IdsInShip, IdsInFit, Known
<1>7. ShipIsValid(ship, c)
  <2>1. c.hulls[hull].hitPoints \in Nat
    BY <1>1 DEF SchemasHold, HullFits
  <2> QED BY <1>3, <2>1 DEF FitIsGood, ShipIsValid
<1> QED BY <1>3, <1>4, <1>5, <1>6, <1>7 DEF ShipIsGood, ShipIs, ship

LEMMA PlannedIsGood ==
  ASSUME NEW c, Accepted(c), NEW fit, AsPlanned(c, fit)
  PROVE  FitIsGood(c, c.economy.hull, fit)
<1>1. StructuralViolations(c, c.economy.hull, fit) = {}
  BY StartsAreSound, PlannedFits
<1>2. ASSUME NEW s \in DOMAIN fit
      PROVE  /\ DOMAIN fit[s] = EntryFields /\ fit[s].module \in DOMAIN c.modules
             /\ fit[s].ammunition \in DOMAIN c.ammunition \cup {None} /\ fit[s].rounds \in Nat
  <2> DEFINE e == PlannedFit(c)[s]
  <2>1. PlannedEntry(c, e)
    BY PlannedEntries DEF AsPlanned
  <2>2. /\ fit[s] = [module |-> e.module, online |-> e.online, ammunition |-> e.ammunition, rounds |-> fit[s].rounds]
        /\ fit[s].rounds \in Nat
    BY DEF AsPlanned
  <2> HIDE DEF e
  <2>3. DOMAIN fit[s] = EntryFields /\ fit[s].module = e.module /\ fit[s].ammunition = e.ammunition
    BY ONLY <2>2 DEF EntryFields
  <2> QED BY <2>1, <2>2, <2>3 DEF PlannedEntry
<1> QED BY <1>1, <1>2 DEF FitIsGood

NoFit == [s \in {} |-> <<>>]

LEMMA NoFitIsGood ==
  ASSUME NEW c, Accepted(c), NEW hull \in DOMAIN c.hulls
  PROVE  FitIsGood(c, hull, NoFit)
<1>1. DOMAIN NoFit = {}
  BY DEF NoFit
<1> HIDE DEF NoFit
<1>2. ASSUME NEW kind \in HardpointKinds PROVE ~ Hardpoints(c, NoFit, kind) > c.hulls[hull].hardpoints[kind]
  <2> DEFINE room == c.hulls[hull].hardpoints[kind]
  <2>1. room \in Nat
    BY DEF Accepted, SchemasHold, HullFits
  <2>2. {s \in DOMAIN NoFit : c.modules[NoFit[s].module].hardpoint = kind} = {}
    BY <1>1
  <2>3. Hardpoints(c, NoFit, kind) = 0
    BY <2>2, FS_EmptySet DEF Hardpoints
  <2> HIDE DEF room
  <2>4. ~ Hardpoints(c, NoFit, kind) > room
    BY <2>1, <2>3
  <2> QED BY <2>4 DEF room
<1>3. StructuralViolations(c, hull, NoFit) = {}
  BY <1>1, <1>2, NothingBreaks
<1> QED BY <1>1, <1>3 DEF FitIsGood

\* createNpcShip()
LEMMA OpponentIsGood ==
  ASSUME NEW c, Accepted(c), NEW p \in DOMAIN c.profiles
  PROVE  LET o == Opponent(c, p)
         IN  /\ o.loot \in Ids["loot"] /\ IdsInOpponent(o) \subseteq IdsOf(c)
             /\ ShipIsValid(o.ship, c) /\ VolumeIn(c, o.hold) <= o.ship.capacity
<1> DEFINE o == Opponent(c, p)
           profile == c.profiles[p]
           fit == NpcFit(c, p)
           ship == Ship(c, profile.hull, fit, FALSE)
<1>1. SchemasHold(c) /\ ProfileIsSound(c, p)
  BY ProfilesAreSound DEF Accepted
<1>2. /\ Known(c, DOMAIN c.modules, "module") /\ Known(c, DOMAIN c.ammunition, "ammunition")
      /\ Known(c, DOMAIN c.profiles, "profile") /\ Known(c, DOMAIN c.loot, "loot")
  BY <1>1, KindsAreKnown
<1>3. profile.hull \in DOMAIN c.hulls /\ profile.loot \in DOMAIN c.loot
      /\ profile.ammunition \in DOMAIN c.ammunition \cup {None}
  BY <1>1 DEF ProfileIsSound
<1>4. FitIsGood(c, profile.hull, fit)
  <2>1. StructuralViolations(c, profile.hull, fit) = {}
    BY <1>1, NpcFits, NothingBreaks
  <2>2. ASSUME NEW s \in DOMAIN fit
        PROVE  /\ DOMAIN fit[s] = EntryFields /\ fit[s].module \in DOMAIN c.modules
               /\ fit[s].ammunition \in DOMAIN c.ammunition \cup {None} /\ fit[s].rounds \in Nat
    <3>1. PICK i \in DOMAIN profile.modules : fit[s] = NpcEntry(c, p, i)
      BY <1>1, NpcSlotsAreRight
    <3>2. profile.modules[i] \in DOMAIN c.modules /\ c.modules[profile.modules[i]].magazine \in Nat
      BY <1>1 DEF ProfileIsSound, ModuleFits
    <3> QED BY <1>3, <3>1, <3>2 DEF NpcEntry, EntryFields
  <2> QED BY <2>1, <2>2 DEF FitIsGood
<1>5. ShipIsGood(ship, c) /\ ShipIs(ship, profile.hull, c.hulls[profile.hull].hold, fit)
  <2> HIDE DEF fit, profile
  <2> QED BY <1>3, <1>4, FreshShipIsGood
<1>6. o.profile = p /\ o.loot = profile.loot /\ o.hold = ReserveOf(c, p) /\ o.ship = ship
  BY DEF Opponent
<1> HIDE DEF o, ship, fit
<1>7. DOMAIN o.hold \subseteq IdsOf(c)
  <2>1. DOMAIN ReserveOf(c, p) \subseteq DOMAIN c.ammunition
    <3>1. CASE profile.reserve > 0 /\ profile.ammunition # None
      <4>1. ReserveOf(c, p) = With(NoGoods, profile.ammunition, profile.reserve)
        BY <3>1 DEF ReserveOf
      <4>2. DOMAIN ReserveOf(c, p) = {profile.ammunition}
        BY <4>1 DEF With, NoGoods
      <4> QED BY <1>3, <3>1, <4>2
    <3>2. CASE ~ (profile.reserve > 0 /\ profile.ammunition # None)
      <4>1. ReserveOf(c, p) = NoGoods
        BY <3>2 DEF ReserveOf
      <4> QED BY <4>1 DEF NoGoods
    <3> QED BY <3>1, <3>2
  <2> QED BY <1>2, <1>6, <2>1 DEF Known
<1>8. IdsInOpponent(o) \subseteq IdsOf(c)
  BY <1>2, <1>3, <1>5, <1>6, <1>7 DEF IdsInOpponent, Known, ShipIsGood
<1>9. VolumeIn(c, o.hold) <= o.ship.capacity
  BY <1>5, <1>6, ReservesFit DEF CanBeSpawned, ShipIs
<1>10. o.loot \in Ids["loot"] /\ ShipIsValid(o.ship, c)
  BY <1>2, <1>3, <1>5, <1>6 DEF Known, ShipIsGood
<1> QED BY <1>8, <1>9, <1>10 DEF o

-----------------------------------------------------------------------------
(* What every step of play leaves. *)

LEMMA DockKeeps ==
  ASSUME NEW c, Accepted(c), NEW m, IsGood(m, c), NEW s \in DOMAIN c.stations, NEW n,
         n = [m EXCEPT !.encounter = NoEncounter, !.opponents = NoOpponents, !.station = s]
  PROVE  IsGood(n, c)
<1>1. PlacesAreGood(m, c) /\ PilotIsGood(m, c) /\ StockIsGood(m, c)
  BY DEF IsGood
<1>2. /\ DOMAIN n = CampaignFields /\ n.encounter = NoEncounter /\ n.opponents = NoOpponents /\ n.station = s
      /\ n.credits = m.credits /\ n.ship = m.ship /\ n.hangar = m.hangar /\ n.hold = m.hold
      /\ n.stock = m.stock /\ n.markets = m.markets /\ n.known = m.known
  BY <1>1 DEF PlacesAreGood, CampaignFields
<1>3. s \in IdsOf(c) /\ s \in Ids["station"]
  BY KindsAreKnown DEF Accepted, Known
<1>4. PlacesAreGood(n, c)
  BY <1>1, <1>2, <1>3 DEF PlacesAreGood
<1>5. PilotIsGood(n, c)
  BY <1>1, <1>2 DEF PilotIsGood
<1>6. StockIsGood(n, c)
  BY <1>1, <1>2 DEF StockIsGood
<1>7. OpponentsAreGood(n.opponents, c)
  BY <1>2 DEF OpponentsAreGood, NoOpponents
<1> QED BY <1>4, <1>5, <1>6, <1>7 DEF IsGood

LEMMA DamageKeeps ==
  ASSUME NEW c, Accepted(c), NEW m, IsGood(m, c), m.ship # NoShip,
         m.ship.damage < c.hulls[m.ship.hull].hitPoints, NEW n,
         n = [m EXCEPT !.ship.damage = @ + 1]
  PROVE  IsGood(n, c)
<1> DEFINE ship == [m.ship EXCEPT !.damage = @ + 1]
<1>1. /\ PlacesAreGood(m, c) /\ PilotIsGood(m, c) /\ StockIsGood(m, c) /\ OpponentsAreGood(m.opponents, c)
      /\ ShipIsGood(m.ship, c) /\ IsShip(m.ship) /\ ShipIsValid(m.ship, c)
  BY DEF IsGood, PilotIsGood, ShipIsGood
<1>2. /\ DOMAIN n = CampaignFields /\ n.encounter = m.encounter /\ n.opponents = m.opponents /\ n.station = m.station
      /\ n.credits = m.credits /\ n.ship = ship /\ n.hangar = m.hangar /\ n.hold = m.hold
      /\ n.stock = m.stock /\ n.markets = m.markets /\ n.known = m.known
  BY <1>1 DEF PlacesAreGood, CampaignFields
<1>3. /\ DOMAIN ship = ShipFields /\ ship.hull = m.ship.hull /\ ship.fit = m.ship.fit
      /\ ship.capacity = m.ship.capacity /\ ship.damage = m.ship.damage + 1
  BY <1>1 DEF IsShip, ShipFields
<1>4. ship # NoShip
  BY <1>3 DEF NoShip, ShipFields
<1> HIDE DEF ship
<1>5. c.hulls[m.ship.hull].hitPoints \in Nat
  <2>1. m.ship.hull \in IdsOf(c) /\ m.ship.hull \in Ids["hull"]
    BY <1>1 DEF ShipIsGood, IdsInShip, IsShip
  <2>2. m.ship.hull \in DOMAIN c.hulls
    BY <2>1, KindsAreKnown DEF Accepted, Known
  <2> QED BY <2>2 DEF Accepted, SchemasHold, HullFits
<1>6. ship.damage \in Nat /\ ship.damage <= c.hulls[ship.hull].hitPoints
  <2> DEFINE limit == c.hulls[m.ship.hull].hitPoints
             damage == m.ship.damage
  <2>1. limit \in Nat /\ damage \in Nat /\ damage < limit
    BY <1>1, <1>5 DEF IsShip
  <2> HIDE DEF limit, damage
  <2>2. damage + 1 \in Nat /\ damage + 1 <= limit
    BY <2>1
  <2> QED BY <1>3, <2>2 DEF limit, damage
<1>7. ShipIsGood(ship, c)
  <2>1. IsShip(ship)
    BY <1>1, <1>3, <1>6 DEF IsShip
  <2>2. IdsInShip(ship) = IdsInShip(m.ship)
    BY <1>3, <1>4 DEF IdsInShip
  <2>3. ShipIsValid(ship, c)
    BY <1>1, <1>3, <1>6 DEF ShipIsValid
  <2> QED BY <1>1, <2>1, <2>2, <2>3 DEF ShipIsGood
<1>8. PlacesAreGood(n, c) /\ StockIsGood(n, c) /\ OpponentsAreGood(n.opponents, c)
  BY <1>1, <1>2 DEF PlacesAreGood, StockIsGood
<1>9. PilotIsGood(n, c)
  BY <1>1, <1>2, <1>3, <1>4, <1>7 DEF PilotIsGood
<1> QED BY <1>8, <1>9 DEF IsGood

LEMMA FireKeeps ==
  ASSUME NEW c, Accepted(c), NEW m, IsGood(m, c), m.ship # NoShip,
         NEW s \in DOMAIN m.ship.fit, m.ship.fit[s].rounds > 0, NEW n,
         n = [m EXCEPT !.ship.fit[s].rounds = @ - 1]
  PROVE  IsGood(n, c)
<1> DEFINE old == m.ship.fit
           entry == [old[s] EXCEPT !.rounds = @ - 1]
           fit == [old EXCEPT ![s] = entry]
           ship == [m.ship EXCEPT !.fit = fit]
           hull == m.ship.hull
<1>1. /\ PlacesAreGood(m, c) /\ PilotIsGood(m, c) /\ StockIsGood(m, c) /\ OpponentsAreGood(m.opponents, c)
      /\ ShipIsGood(m.ship, c) /\ IsShip(m.ship) /\ ShipIsValid(m.ship, c) /\ SchemasHold(c)
  BY DEF IsGood, PilotIsGood, ShipIsGood, Accepted
<1>2. /\ DOMAIN n = CampaignFields /\ n.encounter = m.encounter /\ n.opponents = m.opponents /\ n.station = m.station
      /\ n.credits = m.credits /\ n.ship = ship /\ n.hangar = m.hangar /\ n.hold = m.hold
      /\ n.stock = m.stock /\ n.markets = m.markets /\ n.known = m.known
  BY <1>1 DEF PlacesAreGood, CampaignFields
<1>3. /\ DOMAIN ship = ShipFields /\ ship.hull = hull /\ ship.fit = fit
      /\ ship.capacity = m.ship.capacity /\ ship.damage = m.ship.damage
  BY <1>1 DEF IsShip, ShipFields
<1>4. ship # NoShip
  BY <1>3 DEF NoShip, ShipFields
<1>5. /\ DOMAIN entry = EntryFields /\ entry.module = old[s].module /\ entry.ammunition = old[s].ammunition
      /\ entry.rounds = old[s].rounds - 1 /\ entry.rounds \in Nat
  <2>1. DOMAIN old[s] = EntryFields /\ old[s].rounds \in Nat /\ old[s].rounds > 0
    BY <1>1 DEF IsShip
  <2> HIDE DEF old
  <2>2. /\ DOMAIN entry = EntryFields /\ entry.module = old[s].module /\ entry.ammunition = old[s].ammunition
        /\ entry.rounds = old[s].rounds - 1
    BY <2>1 DEF EntryFields
  <2> HIDE DEF entry
  <2>3. old[s].rounds - 1 \in Nat
    BY <2>1
  <2> QED BY <2>2, <2>3
<1>6. DOMAIN fit = DOMAIN old /\ fit[s] = entry /\ \A x \in DOMAIN old : x # s => fit[x] = old[x]
  OBVIOUS
<1> HIDE DEF ship, fit, entry, old
<1>7. \A x \in DOMAIN old : fit[x].module = old[x].module /\ fit[x].ammunition = old[x].ammunition
  BY <1>5, <1>6
<1>8. IdsInShip(ship) = IdsInShip(m.ship)
  <2>1. IdsInFit(fit) = IdsInFit(old)
    BY <1>6, <1>7 DEF IdsInFit
  <2> QED BY <1>3, <1>4, <2>1 DEF IdsInShip, old
<1>9. IsShip(ship)
  BY <1>1, <1>3, <1>5, <1>6 DEF IsShip, old
<1>10. /\ \A x \in DOMAIN old : SlotIsRight(c, hull, old, x)
       /\ \A kind \in HardpointKinds : ~ Hardpoints(c, old, kind) > c.hulls[hull].hardpoints[kind]
  <2>1. StructuralViolations(c, hull, old) = {}
    BY <1>1 DEF ShipIsValid, old
  <2> QED BY <2>1, NothingBreaks
<1>11. SlotIsRight(c, hull, fit, s)
  <2> DEFINE full == c.modules[old[s].module].magazine
  <2>1. full \in Nat
    <3>1. old[s].module \in Ids["module"] /\ old[s].module \in IdsOf(c)
      BY <1>1 DEF IsShip, ShipIsGood, IdsInShip, IdsInFit, old
    <3>2. old[s].module \in DOMAIN c.modules
      BY <1>1, <3>1, KindsAreKnown DEF Known
    <3> QED BY <1>1, <3>2 DEF SchemasHold, ModuleFits
  <2>2. SlotIsRight(c, hull, old, s) /\ old[s].rounds > 0 /\ old[s].rounds \in Nat
    BY <1>1, <1>10 DEF IsShip, old
  <2>3. ~ old[s].rounds > full
    BY <2>2 DEF SlotIsRight
  <2> HIDE DEF full
  <2>4. ~ old[s].rounds - 1 > full
    BY <2>1, <2>2, <2>3
  <2> QED BY <1>5, <1>6, <2>2, <2>4 DEF SlotIsRight, full
<1>12. StructuralViolations(c, hull, fit) = {}
  <2>1. ASSUME NEW x \in DOMAIN fit PROVE SlotIsRight(c, hull, fit, x)
    <3>1. CASE x = s
      BY <1>11, <3>1
    <3>2. CASE x # s
      BY <1>6, <1>10, <3>2 DEF SlotIsRight
    <3> QED BY <3>1, <3>2
  <2>2. ASSUME NEW kind \in HardpointKinds PROVE ~ Hardpoints(c, fit, kind) > c.hulls[hull].hardpoints[kind]
    <3>1. {x \in DOMAIN fit : c.modules[fit[x].module].hardpoint = kind}
            = {x \in DOMAIN old : c.modules[old[x].module].hardpoint = kind}
      BY <1>6, <1>7
    <3>2. Hardpoints(c, fit, kind) = Hardpoints(c, old, kind)
      BY <3>1 DEF Hardpoints
    <3> QED BY <1>10, <3>2
  <2> QED BY <2>1, <2>2, NothingBreaks
<1>13. ShipIsGood(ship, c)
  BY <1>1, <1>3, <1>8, <1>9, <1>12 DEF ShipIsGood, ShipIsValid
<1>14. PlacesAreGood(n, c) /\ StockIsGood(n, c) /\ OpponentsAreGood(n.opponents, c)
  BY <1>1, <1>2 DEF PlacesAreGood, StockIsGood
<1>15. PilotIsGood(n, c)
  BY <1>1, <1>2, <1>3, <1>4, <1>13 DEF PilotIsGood
<1> QED BY <1>14, <1>15 DEF IsGood

LEMMA LootKeeps ==
  ASSUME NEW c, Accepted(c), NEW m, IsGood(m, c), m.ship # NoShip,
         NEW i \in DOMAIN m.opponents, NEW e \in c.loot[m.opponents[i].loot], NEW hold, NEW k,
         hold = With(m.hold, e.item, k), VolumeIn(c, hold) <= m.ship.capacity, NEW n,
         n = [m EXCEPT !.hold = hold, !.opponents = Restrict(@, DOMAIN @ \ {i})]
  PROVE  IsGood(n, c)
<1> DEFINE rest == Restrict(m.opponents, DOMAIN m.opponents \ {i})
<1>1. /\ PlacesAreGood(m, c) /\ PilotIsGood(m, c) /\ StockIsGood(m, c) /\ OpponentsAreGood(m.opponents, c)
  BY DEF IsGood
<1>2. /\ DOMAIN n = CampaignFields /\ n.encounter = m.encounter /\ n.opponents = rest /\ n.station = m.station
      /\ n.credits = m.credits /\ n.ship = m.ship /\ n.hangar = m.hangar /\ n.hold = hold
      /\ n.stock = m.stock /\ n.markets = m.markets /\ n.known = m.known
  BY <1>1 DEF PlacesAreGood, CampaignFields
<1>3. DOMAIN rest \subseteq DOMAIN m.opponents /\ \A x \in DOMAIN rest : rest[x] = m.opponents[x]
  BY DEF Restrict
<1> HIDE DEF rest
<1>4. e.item \in IdsOf(c)
  <2>1. m.opponents[i].loot \in IdsOf(c) /\ m.opponents[i].loot \in Ids["loot"]
    BY <1>1 DEF OpponentsAreGood, IdsInOpponent
  <2>2. m.opponents[i].loot \in DOMAIN c.loot
    BY <2>1, KindsAreKnown DEF Accepted, Known
  <2>3. e.item \in Physical(c)
    BY <2>2 DEF Accepted, ReferencesResolve, LootResolves
  <2> QED BY <2>3, GoodsAreKnown DEF Accepted
<1>5. PlacesAreGood(n, c)
  <2>1. DOMAIN hold = DOMAIN m.hold \cup {e.item}
    BY DEF With
  <2> QED BY <1>1, <1>2, <1>4, <2>1 DEF PlacesAreGood
<1>6. PilotIsGood(n, c)
  BY <1>1, <1>2 DEF PilotIsGood
<1>7. StockIsGood(n, c)
  BY <1>1, <1>2 DEF StockIsGood
<1>8. OpponentsAreGood(n.opponents, c)
  BY <1>1, <1>2, <1>3 DEF OpponentsAreGood
<1> QED BY <1>5, <1>6, <1>7, <1>8 DEF IsGood

\* A pilot who has no ship is granted one, or has the credits for one.
LEMMA RouteKeeps ==
  ASSUME NEW c, Accepted(c), NEW m, PlacesAreGood(m, c), StockIsGood(m, c), OpponentsAreGood(m.opponents, c),
         PilotIsGood(m, c) \/ (m.ship = NoShip /\ m.hold = NoGoods /\ m.encounter = NoEncounter)
  PROVE  IsGood(EnsureRecoveryRoute(c, m), c)
<1>1. StarterValue(c) \in Nat /\ m.credits \in Int /\ StartIsSound(c)
  BY StarterHasValue, StartsAreSound DEF PlacesAreGood
<1>2. CASE m.ship = NoShip /\ m.credits < StarterValue(c)
  <2> DEFINE hull == c.economy.hull
             fit == GrantedFit(c)
             ship == Ship(c, hull, fit, TRUE)
             n == [m EXCEPT !.ship = ship]
  <2>1. EnsureRecoveryRoute(c, m) = n
    BY <1>2 DEF EnsureRecoveryRoute, GrantRecoveryShip
  <2>2. /\ DOMAIN n = CampaignFields /\ n.encounter = m.encounter /\ n.opponents = m.opponents /\ n.station = m.station
        /\ n.credits = m.credits /\ n.ship = ship /\ n.hangar = m.hangar /\ n.hold = m.hold
        /\ n.stock = m.stock /\ n.markets = m.markets /\ n.known = m.known
    BY DEF PlacesAreGood, CampaignFields
  <2>3. hull \in DOMAIN c.hulls /\ HullFits(c.hulls[hull]) /\ c.hulls[hull].usable
    BY <1>1 DEF StartIsSound
  <2>4. FitIsGood(c, hull, fit)
    BY <1>1, GrantIsPlanned, PlannedIsGood
  <2> HIDE DEF fit, n
  <2>5. ShipIsGood(ship, c) /\ ShipIs(ship, hull, c.hulls[hull].hold, fit)
    BY <2>3, <2>4, FreshShipIsGood
  <2> HIDE DEF ship
  <2>6. m.hold = NoGoods
    BY <1>2 DEF PilotIsGood
  <2>7. VolumeIn(c, n.hold) <= ship.capacity
    <3>1. VolumeIn(c, n.hold) = 0
      BY <2>2, <2>6, VolumeOfNothing
    <3>2. ship.capacity \in Nat
      BY <2>3, <2>5 DEF ShipIs, HullFits
    <3> QED BY <3>1, <3>2
  <2>8. PilotIsGood(n, c)
    BY <2>2, <2>3, <2>5, <2>7 DEF PilotIsGood, ShipIs
  <2>9. PlacesAreGood(n, c) /\ StockIsGood(n, c) /\ OpponentsAreGood(n.opponents, c)
    BY <2>2 DEF PlacesAreGood, StockIsGood
  <2> QED BY <2>1, <2>8, <2>9 DEF IsGood
<1>3. CASE m.ship = NoShip /\ ~ m.credits < StarterValue(c)
  <2>1. EnsureRecoveryRoute(c, m) = m
    BY <1>3 DEF EnsureRecoveryRoute
  <2>2. m.credits >= StarterValue(c) /\ m.hold = NoGoods /\ m.encounter = NoEncounter
    BY <1>1, <1>3 DEF PilotIsGood
  <2> QED BY <1>3, <2>1, <2>2 DEF IsGood, PilotIsGood
<1>4. CASE m.ship # NoShip
  <2>1. EnsureRecoveryRoute(c, m) = m
    BY <1>4 DEF EnsureRecoveryRoute
  <2> QED BY <1>4, <2>1 DEF IsGood
<1> QED BY <1>2, <1>3, <1>4

LEMMA LossKeeps ==
  ASSUME NEW c, Accepted(c), NEW m, IsGood(m, c), NEW credits \in Int, NEW n,
         n = [m EXCEPT !.encounter = NoEncounter, !.opponents = NoOpponents, !.ship = NoShip,
                !.hold = NoGoods, !.credits = credits]
  PROVE  IsGood(EnsureRecoveryRoute(c, n), c)
<1>1. PlacesAreGood(m, c) /\ StockIsGood(m, c)
  BY DEF IsGood
<1>2. /\ DOMAIN n = CampaignFields /\ n.encounter = NoEncounter /\ n.opponents = NoOpponents /\ n.station = m.station
      /\ n.credits = credits /\ n.ship = NoShip /\ n.hangar = m.hangar /\ n.hold = NoGoods
      /\ n.stock = m.stock /\ n.markets = m.markets /\ n.known = m.known
  BY <1>1 DEF PlacesAreGood, CampaignFields
<1>3. DOMAIN n.hold = {}
  BY <1>2 DEF NoGoods
<1>4. PlacesAreGood(n, c)
  BY <1>1, <1>2, <1>3 DEF PlacesAreGood
<1>5. StockIsGood(n, c)
  BY <1>1, <1>2 DEF StockIsGood
<1>6. OpponentsAreGood(n.opponents, c)
  BY <1>2 DEF OpponentsAreGood, NoOpponents
<1> QED BY <1>2, <1>4, <1>5, <1>6, RouteKeeps

LEMMA EncounterIsThere ==
  ASSUME NEW c, SchemasHold(c), NEW e \in DOMAIN c.encounters
  PROVE  EncounterAt(c, c.encounters[e].site) \in DOMAIN c.encounters
<1> DEFINE T == {f \in DOMAIN c.encounters : c.encounters[f].site = c.encounters[e].site}
<1>1. T \subseteq Nat /\ T # {}
  BY DEF SchemasHold, IsList
<1>2. \E x \in T : \A y \in T : x <= y
  <2> HIDE DEF T
  <2> QED BY <1>1, LeastExists
<1>3. Min(T) \in T
  <2> HIDE DEF T
  <2> QED BY <1>2 DEF Min
<1> QED BY <1>3 DEF EncounterAt

LEMMA EncounterKeeps ==
  ASSUME NEW c, Accepted(c), NEW m, IsGood(m, c), m.ship # NoShip, NEW e \in DOMAIN c.encounters, NEW n,
         n = [m EXCEPT !.encounter = e, !.opponents = Opponents(c, e)]
  PROVE  IsGood(n, c)
<1> DEFINE opponents == Opponents(c, e)
<1>1. PlacesAreGood(m, c) /\ PilotIsGood(m, c) /\ StockIsGood(m, c)
  BY DEF IsGood
<1>2. /\ DOMAIN n = CampaignFields /\ n.encounter = e /\ n.opponents = opponents /\ n.station = m.station
      /\ n.credits = m.credits /\ n.ship = m.ship /\ n.hangar = m.hangar /\ n.hold = m.hold
      /\ n.stock = m.stock /\ n.markets = m.markets /\ n.known = m.known
  BY <1>1 DEF PlacesAreGood, CampaignFields
<1>3. ASSUME NEW x \in DOMAIN opponents
      PROVE  /\ opponents[x].loot \in Ids["loot"] /\ IdsInOpponent(opponents[x]) \subseteq IdsOf(c)
             /\ ShipIsValid(opponents[x].ship, c) /\ VolumeIn(c, opponents[x].hold) <= opponents[x].ship.capacity
  <2>1. PICK spawn \in c.encounters[e].spawns : x \in {spawn} \X (1..spawn.count)
    BY DEF Opponents
  <2>2. x[1] = spawn /\ opponents[x] = Opponent(c, x[1].profile)
    BY <2>1 DEF Opponents
  <2> DEFINE p == spawn.profile
  <2>3. p \in DOMAIN c.profiles
    BY DEF Accepted, ReferencesResolve, EncounterResolves
  <2> HIDE DEF p
  <2>4. LET o == Opponent(c, p)
        IN  /\ o.loot \in Ids["loot"] /\ IdsInOpponent(o) \subseteq IdsOf(c)
            /\ ShipIsValid(o.ship, c) /\ VolumeIn(c, o.hold) <= o.ship.capacity
    BY <2>3, OpponentIsGood
  <2>5. opponents[x] = Opponent(c, p)
    BY <2>2 DEF p
  <2> HIDE DEF opponents
  <2> QED BY <2>4, <2>5
<1> HIDE DEF opponents
<1>4. OpponentsAreGood(n.opponents, c)
  BY <1>2, <1>3 DEF OpponentsAreGood
<1>5. PlacesAreGood(n, c)
  BY <1>1, <1>2 DEF PlacesAreGood
<1>6. PilotIsGood(n, c)
  BY <1>1, <1>2 DEF PilotIsGood
<1>7. StockIsGood(n, c)
  BY <1>1, <1>2 DEF StockIsGood
<1> QED BY <1>4, <1>5, <1>6, <1>7 DEF IsGood

\* What is paid for a unit, and the stock it leaves.
Paid(c, m, n, id, price) ==
  n = [m EXCEPT !.credits = @ - price,
         !.stock[m.station][id] = IF ShelfAt(c, m.station)[id].fixed THEN @ ELSE @ - 1]

LEMMA PaymentKeeps ==
  ASSUME NEW c, Accepted(c), NEW m, IsGood(m, c), m.station \in m.markets,
         NEW id \in DOMAIN ShelfAt(c, m.station), NEW price \in Int, NEW n, Paid(c, m, n, id, price)
  PROVE  /\ PlacesAreGood(n, c) /\ StockIsGood(n, c) /\ OpponentsAreGood(n.opponents, c)
         /\ n.ship = m.ship /\ n.hold = m.hold /\ n.encounter = m.encounter
         /\ n.hangar = m.hangar /\ id \in IdsOf(c)
<1> DEFINE s == m.station
           fixed == ShelfAt(c, s)[id].fixed
           listed == [m.stock[s] EXCEPT ![id] = IF fixed THEN @ ELSE @ - 1]
           stock == [m.stock EXCEPT ![s] = listed]
<1>1. PlacesAreGood(m, c) /\ StockIsGood(m, c) /\ OpponentsAreGood(m.opponents, c)
  BY DEF IsGood
<1>2. /\ DOMAIN n = CampaignFields /\ n.encounter = m.encounter /\ n.opponents = m.opponents /\ n.station = m.station
      /\ n.credits = m.credits - price /\ n.ship = m.ship /\ n.hangar = m.hangar /\ n.hold = m.hold
      /\ n.stock = stock /\ n.markets = m.markets /\ n.known = m.known
  <2>1. DOMAIN m = CampaignFields
    BY <1>1 DEF PlacesAreGood
  <2> QED BY <2>1 DEF Paid, CampaignFields
<1>3. s \in DOMAIN m.stock /\ DOMAIN m.stock[s] = DOMAIN ShelfAt(c, s) /\ id \in DOMAIN m.stock[s] /\ id \in IdsOf(c)
  BY <1>1 DEF StockIsGood
<1>4. ShelfAt(c, s) = c.listings[s]
  BY DEF ShelfAt
<1>5. /\ DOMAIN stock = DOMAIN m.stock /\ stock[s] = listed /\ DOMAIN listed = DOMAIN m.stock[s]
      /\ listed[id] = (IF fixed THEN m.stock[s][id] ELSE m.stock[s][id] - 1)
      /\ \A x \in DOMAIN m.stock[s] : x # id => listed[x] = m.stock[s][x]
      /\ \A t \in DOMAIN m.stock : t # s => stock[t] = m.stock[t]
  BY <1>3
<1> HIDE DEF stock, listed
<1>6. ASSUME NEW t \in DOMAIN stock, NEW x \in DOMAIN stock[t]
      PROVE  stock[t][x] \in Int /\ (c.listings[t][x].fixed => stock[t][x] = c.listings[t][x].initial)
  <2>1. t \in DOMAIN m.stock /\ x \in DOMAIN m.stock[t]
    BY <1>5
  <2>2. m.stock[t][x] \in Int /\ (c.listings[t][x].fixed => m.stock[t][x] = c.listings[t][x].initial)
    BY <1>1, <2>1 DEF StockIsGood
  <2>3. CASE t = s /\ x = id
    <3>1. stock[t][x] = IF c.listings[t][x].fixed THEN m.stock[t][x] ELSE m.stock[t][x] - 1
      BY <1>4, <1>5, <2>3
    <3> QED BY <2>2, <3>1
  <2>4. CASE ~ (t = s /\ x = id)
    <3>1. stock[t][x] = m.stock[t][x]
      BY <1>5, <2>1, <2>4
    <3> QED BY <2>2, <3>1
  <2> QED BY <2>3, <2>4
<1>7. \A t \in DOMAIN stock : DOMAIN stock[t] = DOMAIN m.stock[t]
  BY <1>5
<1>8. StockIsGood(n, c)
  BY <1>1, <1>2, <1>5, <1>6, <1>7 DEF StockIsGood
<1>9. PlacesAreGood(n, c)
  BY <1>1, <1>2 DEF PlacesAreGood
<1> QED BY <1>1, <1>2, <1>3, <1>8, <1>9

\* A hull that is bought replaces the ship a pilot does not have.
LEMMA HullKeeps ==
  ASSUME NEW c, Accepted(c), NEW m, PlacesAreGood(m, c), StockIsGood(m, c), OpponentsAreGood(m.opponents, c),
         m.hold = NoGoods, NEW id \in DOMAIN c.hulls, c.hulls[id].usable, NEW n,
         n = [m EXCEPT !.ship = Ship(c, id, [s \in {} |-> <<>>], FALSE)]
  PROVE  IsGood(n, c)
<1> DEFINE ship == Ship(c, id, [s \in {} |-> <<>>], FALSE)
<1>1. /\ DOMAIN n = CampaignFields /\ n.encounter = m.encounter /\ n.opponents = m.opponents /\ n.station = m.station
      /\ n.credits = m.credits /\ n.ship = ship /\ n.hangar = m.hangar /\ n.hold = m.hold
      /\ n.stock = m.stock /\ n.markets = m.markets /\ n.known = m.known
  BY DEF PlacesAreGood, CampaignFields
<1>2. ship = Ship(c, id, NoFit, FALSE)
  BY DEF NoFit
<1> HIDE DEF ship
<1>3. ShipIsGood(ship, c) /\ ShipIs(ship, id, c.hulls[id].hold, NoFit)
  BY <1>2, NoFitIsGood, FreshShipIsGood
<1>4. VolumeIn(c, n.hold) <= ship.capacity
  <2>1. VolumeIn(c, n.hold) = 0
    BY <1>1, VolumeOfNothing
  <2>2. ship.capacity \in Nat
    BY <1>3 DEF ShipIs, Accepted, SchemasHold, HullFits
  <2> QED BY <2>1, <2>2
<1>5. PilotIsGood(n, c)
  BY <1>1, <1>3, <1>4 DEF PilotIsGood, ShipIs
<1>6. PlacesAreGood(n, c) /\ StockIsGood(n, c) /\ OpponentsAreGood(n.opponents, c)
  BY <1>1 DEF PlacesAreGood, StockIsGood
<1> QED BY <1>5, <1>6 DEF IsGood

\* Anything else that is bought goes into the hangar.
LEMMA GoodsKeep ==
  ASSUME NEW c, Accepted(c), NEW m, PlacesAreGood(m, c), StockIsGood(m, c), OpponentsAreGood(m.opponents, c),
         m.ship = NoShip => m.hold = NoGoods /\ m.encounter = NoEncounter,
         m.ship # NoShip => /\ ShipIsGood(m.ship, c) /\ c.hulls[m.ship.hull].usable
                            /\ VolumeIn(c, m.hold) <= m.ship.capacity,
         NEW id \in IdsOf(c), NEW n, n = [m EXCEPT !.hangar = With(@, id, 1)]
  PROVE  IsGood(EnsureRecoveryRoute(c, n), c)
<1> DEFINE hangar == With(m.hangar, id, 1)
<1>1. /\ DOMAIN n = CampaignFields /\ n.encounter = m.encounter /\ n.opponents = m.opponents /\ n.station = m.station
      /\ n.credits = m.credits /\ n.ship = m.ship /\ n.hangar = hangar /\ n.hold = m.hold
      /\ n.stock = m.stock /\ n.markets = m.markets /\ n.known = m.known
  BY DEF PlacesAreGood, CampaignFields
<1>2. DOMAIN hangar = DOMAIN m.hangar \cup {id}
  BY DEF With
<1> HIDE DEF hangar
<1>3. PlacesAreGood(n, c)
  BY <1>1, <1>2 DEF PlacesAreGood
<1>4. StockIsGood(n, c) /\ OpponentsAreGood(n.opponents, c)
  BY <1>1 DEF StockIsGood
<1>5. CASE m.ship = NoShip
  BY <1>1, <1>3, <1>4, <1>5, RouteKeeps
<1>6. CASE m.ship # NoShip
  <2>1. PilotIsGood(n, c)
    BY <1>1, <1>6 DEF PilotIsGood
  <2>2. PilotIsGood(n, c) \/ (n.ship = NoShip /\ n.hold = NoGoods /\ n.encounter = NoEncounter)
    BY <2>1
  <2> QED BY <1>3, <1>4, <2>2, RouteKeeps
<1> QED BY <1>5, <1>6

\* What a listing costs is a number.
LEMMA CostIsInt ==
  ASSUME NEW c, Accepted(c), NEW m, IsGood(m, c), m.station \in m.markets,
         NEW id \in DOMAIN ShelfAt(c, m.station), NEW price,
         price = IF ShelfAt(c, m.station)[id].fixed THEN Price(c, ShelfAt(c, m.station)[id])
                 ELSE UnitQuote(ShelfAt(c, m.station)[id], m.stock[m.station][id], "stationSells")
  PROVE  price \in Int
<1> DEFINE l == ShelfAt(c, m.station)[id]
           stock == m.stock[m.station][id]
<1>1. StockIsGood(m, c) /\ SchemasHold(c)
  BY DEF IsGood, Accepted
<1>2. stock \in Int
  BY <1>1 DEF StockIsGood
<1>3. ListingFits(l)
  BY <1>1 DEF ShelfAt, SchemasHold
<1> HIDE DEF l, stock
<1>4. Price(c, l) \in Int /\ UnitQuote(l, stock, "stationSells") \in Int
  BY <1>1, <1>2, <1>3, PriceIsInt, QuoteIsInt
<1> QED BY <1>4 DEF l, stock

\* A purchase, of a hull or of goods.
LEMMA PurchaseKeeps ==
  ASSUME InstalledIsAccepted, Built, IsGood(campaign, installed), Buy
  PROVE  IsGood(campaign', installed) /\ UNCHANGED <<installed, saved>>
<1> DEFINE c == installed
           m == campaign
           shelf == ShelfAt(c, m.station)
           Cost(id) == IF shelf[id].fixed THEN Price(c, shelf[id])
                       ELSE UnitQuote(shelf[id], m.stock[m.station][id], "stationSells")
           Left(id) == [m EXCEPT !.credits = @ - Cost(id),
                          !.stock[m.station][id] = IF shelf[id].fixed THEN @ ELSE @ - 1]
<1>1. PICK id \in DOMAIN shelf :
        /\ m.station \in m.markets
        /\ IF id \in DOMAIN c.hulls
           THEN /\ m.ship = NoShip /\ c.hulls[id].usable
                /\ Plays([Left(id) EXCEPT !.ship = Ship(c, id, [s \in {} |-> <<>>], FALSE)])
           ELSE Plays(EnsureRecoveryRoute(c, [Left(id) EXCEPT !.hangar = With(@, id, 1)]))
  BY Zenon DEF Buy
<1> DEFINE price == Cost(id)
           left == Left(id)
           bought == [left EXCEPT !.ship = Ship(c, id, [s \in {} |-> <<>>], FALSE)]
           stored == [left EXCEPT !.hangar = With(@, id, 1)]
<1>2. Accepted(c) /\ PilotIsGood(m, c)
  BY DEF InstalledIsAccepted, IsGood
<1>3. price \in Int
  <2>1. price = IF shelf[id].fixed THEN Price(c, shelf[id])
                ELSE UnitQuote(shelf[id], m.stock[m.station][id], "stationSells")
    OBVIOUS
  <2> HIDE DEF price, c, m
  <2> QED BY <1>1, <1>2, <2>1, CostIsInt DEF c, m
<1>4. Paid(c, m, left, id, price)
  BY DEF Paid
<1>5. /\ PlacesAreGood(left, c) /\ StockIsGood(left, c) /\ OpponentsAreGood(left.opponents, c)
      /\ left.ship = m.ship /\ left.hold = m.hold /\ left.encounter = m.encounter /\ id \in IdsOf(c)
  <2> HIDE DEF price, left
  <2> QED BY <1>1, <1>2, <1>3, <1>4, PaymentKeeps
<1>6. CASE id \in DOMAIN c.hulls
  <2>1. m.ship = NoShip /\ c.hulls[id].usable /\ Plays(bought)
    BY <1>1, <1>6
  <2>2. left.hold = NoGoods
    BY <1>2, <1>5, <2>1 DEF PilotIsGood
  <2> HIDE DEF left
  <2>3. IsGood(bought, c)
    BY <1>2, <1>5, <1>6, <2>1, <2>2, HullKeeps
  <2> HIDE DEF bought
  <2> QED BY <2>1, <2>3 DEF Plays
<1>7. CASE id \notin DOMAIN c.hulls
  <2>1. Plays(EnsureRecoveryRoute(c, stored))
    BY <1>1, <1>7
  <2>2. left.ship = NoShip => left.hold = NoGoods /\ left.encounter = NoEncounter
    BY <1>2, <1>5 DEF PilotIsGood
  <2>3. left.ship # NoShip => /\ ShipIsGood(left.ship, c) /\ c.hulls[left.ship.hull].usable
                              /\ VolumeIn(c, left.hold) <= left.ship.capacity
    BY <1>2, <1>5 DEF PilotIsGood
  <2> HIDE DEF left
  <2>4. IsGood(EnsureRecoveryRoute(c, stored), c)
    BY <1>2, <1>5, <2>2, <2>3, GoodsKeep
  <2> HIDE DEF stored
  <2> QED BY <2>1, <2>4 DEF Plays
<1> QED BY <1>6, <1>7

-----------------------------------------------------------------------------
(* A campaign that is created. *)

\* The goods the start puts into one place.
LeftAt(c, place) ==
  [id \in {x \in DOMAIN AppliedStart(c).left : c.economy.items[x].place = place} |-> AppliedStart(c).left[id]]

\* What is in the hold is some of what the content puts there.
LEMMA HoldAtStart ==
  ASSUME NEW c, Accepted(c), CanBeCreated(c)
  PROVE  VolumeIn(c, LeftAt(c, "hold")) <= c.hulls[c.economy.hull].hold
<1> DEFINE left == AppliedStart(c).left
           items == c.economy.items
           H == {x \in DOMAIN items : items[x].place = "hold"}
           r == [id \in H |-> left[id] * VolumeOf(c, id)]
           q == [id \in H |-> items[id].quantity * VolumeOf(c, id)]
           goods == LeftAt(c, "hold")
<1>1. AppliedWell(c, AppliedStart(c), DOMAIN PlannedFit(c)) /\ SchemasHold(c)
  BY StartIsApplied DEF Accepted
<1>2. IsStock(left) /\ DOMAIN left = DOMAIN items /\ \A id \in DOMAIN left : left[id] <= items[id].quantity
  BY <1>1 DEF AppliedWell
<1>3. goods = [id \in H |-> left[id]]
  BY <1>2 DEF LeftAt
<1>4. VolumeIn(c, goods) = SumFunction(r)
  <2>1. DOMAIN goods = H /\ \A id \in H : goods[id] = left[id]
    BY <1>3
  <2> HIDE DEF goods, left, items, H
  <2>2. [id \in DOMAIN goods |-> goods[id] * VolumeOf(c, id)] = r
    BY <2>1
  <2> QED BY <2>2 DEF VolumeIn
<1>5. SumFunction(q) <= c.hulls[c.economy.hull].hold
  BY DEF Accepted, StartIsValid, HeldAtStart
<1>6. IsFiniteSet(H)
  <2>1. IsFiniteSet(DOMAIN items)
    BY <1>1 DEF SchemasHold, EconomyFits
  <2>2. H \subseteq DOMAIN items
    OBVIOUS
  <2> HIDE DEF H, items
  <2> QED BY <2>1, <2>2, FS_Subset
<1>7. ASSUME NEW id \in H PROVE r[id] \in Nat /\ q[id] \in Nat /\ r[id] <= q[id]
  <2> DEFINE v == VolumeOf(c, id)
             k == left[id]
             n == items[id].quantity
  <2>1. id \in Physical(c)
    BY DEF Accepted, ReferencesResolve, StartResolves
  <2>2. v \in Nat
    BY <1>1, <2>1, GoodsAreSound
  <2>3. k \in Nat /\ k <= n
    BY <1>2 DEF IsStock
  <2>4. n \in Nat
    BY <1>1 DEF SchemasHold, EconomyFits
  <2>5. r[id] = k * v /\ q[id] = n * v
    OBVIOUS
  <2> HIDE DEF v, k, n, r, q
  <2>6. v * k <= v * n /\ v * k = k * v /\ v * n = n * v
    BY <2>2, <2>3, <2>4, ProductGrows
  <2>7. k * v \in Nat /\ n * v \in Nat
    BY <2>2, <2>3, <2>4, ProductIsNat
  <2> QED BY <2>5, <2>6, <2>7
<1>8. DOMAIN r = H /\ DOMAIN q = H
  OBVIOUS
<1>9. SumFunction(r) \in Nat /\ SumFunction(q) \in Nat /\ SumFunction(r) <= SumFunction(q)
  <2> HIDE DEF r, q, H
  <2>1. \A id \in DOMAIN r : r[id] \in Nat /\ q[id] \in Nat /\ r[id] \in Int /\ q[id] \in Int /\ r[id] <= q[id]
    BY <1>7, <1>8
  <2>2. SumFunction(r) <= SumFunction(q)
    BY <1>6, <1>8, <2>1, SumAtMost
  <2>3. SumFunction(r) \in Nat
    BY <1>6, <1>8, <2>1, SumType
  <2>4. SumFunction(q) \in Nat
    <3>1. \A id \in DOMAIN q : q[id] \in Nat
      BY <1>8, <2>1
    <3> QED BY <1>6, <1>8, <3>1, SumType
  <2> QED BY <2>2, <2>3, <2>4
<1>10. c.hulls[c.economy.hull].hold \in Nat
  BY StartsAreSound DEF StartIsSound, HullFits
<1> HIDE DEF r, q, goods
<1>11. VolumeIn(c, goods) <= c.hulls[c.economy.hull].hold
  BY <1>4, <1>5, <1>9, <1>10
<1> QED BY <1>11 DEF goods

LEMMA CreationIsGood ==
  ASSUME NEW c, Accepted(c), CanBeCreated(c)
  PROVE  IsGood(CampaignOf(c), c)
<1> DEFINE n == CampaignOf(c)
           fit == AppliedStart(c).fit
           hull == c.economy.hull
           ship == Ship(c, hull, fit, FALSE)
<1>1. /\ DOMAIN n = CampaignFields /\ n.encounter = NoEncounter /\ n.opponents = NoOpponents
      /\ n.station = c.economy.station /\ n.credits = c.economy.credits /\ n.ship = ship
      /\ n.hangar = LeftAt(c, "hangar") /\ n.hold = LeftAt(c, "hold")
      /\ n.stock = StartingStock(c) /\ n.markets = Markets(c) /\ n.known = KnownSites(c)
  BY DEF CampaignOf, LeftAt, CampaignFields
<1>2. SchemasHold(c) /\ StartIsSound(c) /\ StartResolves(c) /\ ListingsResolve(c)
  BY StartsAreSound DEF Accepted, ReferencesResolve
<1>3. AppliedWell(c, AppliedStart(c), DOMAIN PlannedFit(c))
  BY StartIsApplied
<1> HIDE DEF n, ship, fit
<1>4. Physical(c) \subseteq IdsOf(c) /\ Sellable(c) \subseteq IdsOf(c)
  BY <1>2, GoodsAreKnown
<1>5. PlacesAreGood(n, c)
  <2>1. n.credits \in Int
    BY <1>1, <1>2 DEF SchemasHold, EconomyFits
  <2>2. n.station \in IdsOf(c) /\ n.station \in Ids["station"]
    BY <1>1, <1>2, KindsAreKnown DEF StartResolves, Known
  <2>3. n.known \subseteq IdsOf(c)
    BY <1>1, <1>2, KindsAreKnown DEF KnownSites, Known
  <2>4. DOMAIN n.hangar \subseteq DOMAIN AppliedStart(c).left /\ DOMAIN n.hold \subseteq DOMAIN AppliedStart(c).left
    BY <1>1 DEF LeftAt
  <2>5. DOMAIN AppliedStart(c).left \subseteq IdsOf(c)
    BY <1>2, <1>3, <1>4 DEF AppliedWell, StartResolves
  <2> QED BY <1>1, <2>1, <2>2, <2>3, <2>4, <2>5 DEF PlacesAreGood
<1>6. PilotIsGood(n, c)
  <2>1. hull \in DOMAIN c.hulls /\ c.hulls[hull].usable
    BY <1>2 DEF StartIsSound
  <2>2. FitIsGood(c, hull, fit)
    <3>1. AsPlanned(c, fit)
      BY <1>3, StartIsPlanned DEF fit
    <3> QED BY <3>1, PlannedIsGood
  <2>3. ShipIsGood(ship, c) /\ ShipIs(ship, hull, c.hulls[hull].hold, fit)
    BY <2>1, <2>2, FreshShipIsGood DEF ship
  <2>4. VolumeIn(c, n.hold) <= ship.capacity
    BY <1>1, <2>3, HoldAtStart DEF ShipIs
  <2> QED BY <1>1, <2>1, <2>3, <2>4 DEF PilotIsGood, ShipIs
<1>7. StockIsGood(n, c)
  <2>1. DOMAIN n.stock = DOMAIN c.stations /\ n.markets \subseteq DOMAIN c.stations
    BY <1>1 DEF StartingStock, Markets
  <2>2. DOMAIN c.stations \subseteq IdsOf(c)
    BY <1>2, KindsAreKnown DEF Known
  <2>3. ASSUME NEW s \in DOMAIN c.stations
        PROVE  /\ n.stock[s] = [id \in DOMAIN ShelfAt(c, s) |-> ShelfAt(c, s)[id].initial]
               /\ DOMAIN ShelfAt(c, s) \subseteq IdsOf(c)
    <3>1. n.stock[s] = [id \in DOMAIN ShelfAt(c, s) |-> ShelfAt(c, s)[id].initial]
      BY <1>1 DEF StartingStock
    <3>2. DOMAIN ShelfAt(c, s) \subseteq Sellable(c)
      BY <1>2 DEF ShelfAt, ListingsResolve
    <3> QED BY <1>4, <3>1, <3>2
  <2>4. ASSUME NEW s \in DOMAIN c.stations, NEW id \in DOMAIN ShelfAt(c, s)
        PROVE  n.stock[s][id] \in Int /\ n.stock[s][id] = c.listings[s][id].initial
    <3>1. ShelfAt(c, s) = c.listings[s] /\ s \in DOMAIN c.listings
      BY DEF ShelfAt
    <3>2. n.stock[s][id] = ShelfAt(c, s)[id].initial
      BY <2>3
    <3>4. n.stock[s][id] = c.listings[s][id].initial
      BY <3>1, <3>2
    <3>3. c.listings[s][id].initial \in Nat
      BY <1>2, <3>1 DEF SchemasHold, ListingFits
    <3> QED BY <3>3, <3>4
  <2>5. \A s \in DOMAIN c.stations : DOMAIN n.stock[s] = DOMAIN ShelfAt(c, s)
    BY <2>3
  <2> QED BY <2>1, <2>2, <2>3, <2>4, <2>5 DEF StockIsGood
<1>8. OpponentsAreGood(n.opponents, c)
  BY <1>1 DEF OpponentsAreGood, NoOpponents
<1> QED BY <1>5, <1>6, <1>7, <1>8 DEF IsGood, n

-----------------------------------------------------------------------------
(* What is played can be saved and loaded again. *)

GoodInv ==
  /\ Playing => Built /\ IsGood(campaign, installed)
  /\ saved # NoCampaign => IsCampaign(saved)

PlayInv == InstalledIsAccepted /\ GoodInv

LEMMA PlayInit == Init => PlayInv
BY InstalledInit DEF Init, PlayInv, GoodInv, Playing

LEMMA PlaysKeeps ==
  ASSUME PlayInv, Built, NEW m, Plays(m), IsGood(m, installed)
  PROVE  GoodInv'
<1>1. campaign' = m /\ installed' = installed /\ saved' = saved
  BY DEF Plays
<1>2. saved # NoCampaign => IsCampaign(saved)
  BY DEF PlayInv, GoodInv
<1>3. IsGood(campaign', installed')
  BY <1>1
<1>4. Built' /\ (saved' # NoCampaign => IsCampaign(saved'))
  BY <1>1, <1>2 DEF Built
<1> QED BY <1>3, <1>4 DEF GoodInv

\* A ship that is lost, and what is paid for it.
LEMMA PayoutIsInt ==
  ASSUME NEW c, Accepted(c), NEW m, IsGood(m, c), m.ship # NoShip
  PROVE  m.credits + (IF m.ship.marked THEN 0 ELSE (c.hulls[m.ship.hull].value * c.economy.payout) \div 100) \in Int
<1> DEFINE value == c.hulls[m.ship.hull].value
           payout == c.economy.payout
           credits == m.credits
<1>1. SchemasHold(c) /\ PlacesAreGood(m, c) /\ ShipIsGood(m.ship, c)
  BY DEF Accepted, IsGood, PilotIsGood
<1>2. m.ship.hull \in IdsOf(c) /\ m.ship.hull \in Ids["hull"]
  BY <1>1 DEF ShipIsGood, IdsInShip, IsShip
<1>3. m.ship.hull \in DOMAIN c.hulls
  BY <1>1, <1>2, KindsAreKnown DEF Known
<1>4. value \in Nat /\ payout \in Nat /\ credits \in Int
  BY <1>1, <1>3 DEF SchemasHold, HullFits, EconomyFits, PlacesAreGood
<1> HIDE DEF value, payout, credits
<1>5. value * payout \in Nat
  BY <1>4, ProductIsNat
<1>6. (value * payout) \div 100 \in Int
  <2> DEFINE k == value * payout
  <2>1. k \in Nat
    BY <1>5
  <2> HIDE DEF k
  <2>2. k \div 100 \in Int
    BY <2>1
  <2> QED BY <2>2 DEF k
<1>7. credits + (IF m.ship.marked THEN 0 ELSE (value * payout) \div 100) \in Int
  <2> DEFINE k == (value * payout) \div 100
  <2>1. k \in Int
    BY <1>6
  <2> HIDE DEF k
  <2>2. CASE m.ship.marked
    BY <1>4, <2>2
  <2>3. CASE ~ m.ship.marked
    <3>1. credits + k \in Int
      BY <1>4, <2>1
    <3> QED BY <2>3, <3>1 DEF k
  <2> QED BY <2>2, <2>3
<1> QED BY <1>7 DEF value, payout, credits

LEMMA FlightKeeps ==
  ASSUME PlayInv, Flying, Dock \/ TakeDamage \/ Fire \/ TakeLoot \/ LoseShip
  PROVE  GoodInv'
<1> DEFINE c == installed
           m == campaign
<1>1. Built /\ Accepted(c) /\ IsGood(m, c)
  BY DEF PlayInv, GoodInv, InstalledIsAccepted, Flying
<1>2. m.ship # NoShip
  BY <1>1 DEF IsGood, PilotIsGood, Flying
<1>3. CASE Dock
  <2>1. PICK s \in DOMAIN c.stations :
          Plays([m EXCEPT !.encounter = NoEncounter, !.opponents = NoOpponents, !.station = s])
    BY <1>3 DEF Dock
  <2> DEFINE n == [m EXCEPT !.encounter = NoEncounter, !.opponents = NoOpponents, !.station = s]
  <2>2. Plays(n) /\ n = [m EXCEPT !.encounter = NoEncounter, !.opponents = NoOpponents, !.station = s]
    BY <2>1
  <2> HIDE DEF n, m, c
  <2>3. IsGood(n, c)
    BY <1>1, <2>2, DockKeeps
  <2> QED BY <1>1, <2>2, <2>3, PlaysKeeps DEF c
<1>4. CASE TakeDamage
  <2> DEFINE n == [m EXCEPT !.ship.damage = @ + 1]
  <2>1. m.ship.damage < c.hulls[m.ship.hull].hitPoints /\ Plays(n) /\ n = [m EXCEPT !.ship.damage = @ + 1]
    BY <1>4 DEF TakeDamage
  <2> HIDE DEF n, m, c
  <2>2. IsGood(n, c)
    BY <1>1, <1>2, <2>1, DamageKeeps
  <2> QED BY <1>1, <2>1, <2>2, PlaysKeeps DEF c
<1>5. CASE Fire
  <2>1. PICK s \in DOMAIN m.ship.fit : m.ship.fit[s].rounds > 0 /\ Plays([m EXCEPT !.ship.fit[s].rounds = @ - 1])
    BY <1>5 DEF Fire
  <2> DEFINE n == [m EXCEPT !.ship.fit[s].rounds = @ - 1]
  <2>2. Plays(n) /\ n = [m EXCEPT !.ship.fit[s].rounds = @ - 1]
    BY <2>1
  <2> HIDE DEF n, m, c
  <2>3. IsGood(n, c)
    BY <1>1, <1>2, <2>1, <2>2, FireKeeps
  <2> QED BY <1>1, <2>2, <2>3, PlaysKeeps DEF c
<1>6. CASE TakeLoot
  <2>0. PICK i \in DOMAIN m.opponents : \E e \in c.loot[m.opponents[i].loot] : \E k :
          /\ VolumeIn(c, With(m.hold, e.item, k)) <= m.ship.capacity
          /\ Plays([m EXCEPT !.hold = With(m.hold, e.item, k), !.opponents = Restrict(@, DOMAIN @ \ {i})])
    BY <1>6 DEF TakeLoot, Room
  <2>1. PICK e \in c.loot[m.opponents[i].loot] : \E k :
          /\ VolumeIn(c, With(m.hold, e.item, k)) <= m.ship.capacity
          /\ Plays([m EXCEPT !.hold = With(m.hold, e.item, k), !.opponents = Restrict(@, DOMAIN @ \ {i})])
    BY <2>0
  <2>2. PICK k :
          /\ VolumeIn(c, With(m.hold, e.item, k)) <= m.ship.capacity
          /\ Plays([m EXCEPT !.hold = With(m.hold, e.item, k), !.opponents = Restrict(@, DOMAIN @ \ {i})])
    BY <2>1
  <2> DEFINE hold == With(m.hold, e.item, k)
             n == [m EXCEPT !.hold = hold, !.opponents = Restrict(@, DOMAIN @ \ {i})]
  <2>3. /\ Plays(n) /\ n = [m EXCEPT !.hold = hold, !.opponents = Restrict(@, DOMAIN @ \ {i})]
        /\ hold = With(m.hold, e.item, k) /\ VolumeIn(c, hold) <= m.ship.capacity
    BY <2>2
  <2> HIDE DEF n, m, c, hold
  <2>4. IsGood(n, c)
    BY <1>1, <1>2, <2>3, LootKeeps
  <2> QED BY <1>1, <2>3, <2>4, PlaysKeeps DEF c
<1>7. CASE LoseShip
  <2> DEFINE credits == m.credits + (IF m.ship.marked THEN 0
                                     ELSE (c.hulls[m.ship.hull].value * c.economy.payout) \div 100)
             n == [m EXCEPT !.encounter = NoEncounter, !.opponents = NoOpponents, !.ship = NoShip,
                     !.hold = NoGoods, !.credits = credits]
  <2>1. Plays(EnsureRecoveryRoute(c, n))
    BY <1>7 DEF LoseShip
  <2>2. n = [m EXCEPT !.encounter = NoEncounter, !.opponents = NoOpponents, !.ship = NoShip,
               !.hold = NoGoods, !.credits = credits]
    OBVIOUS
  <2> HIDE DEF n, m, c
  <2>3. credits \in Int
    BY <1>1, <1>2, PayoutIsInt
  <2> HIDE DEF credits
  <2>4. IsGood(EnsureRecoveryRoute(c, n), c)
    BY <1>1, <2>2, <2>3, LossKeeps
  <2> QED BY <1>1, <2>1, <2>4, PlaysKeeps DEF c
<1> QED BY <1>3, <1>4, <1>5, <1>6, <1>7

LEMMA StayKeeps ==
  ASSUME PlayInv, Docked, EnterSite \/ Buy
  PROVE  GoodInv'
<1> DEFINE c == installed
           m == campaign
<1>1. Built /\ Accepted(c) /\ IsGood(m, c) /\ InstalledIsAccepted
  BY DEF PlayInv, GoodInv, InstalledIsAccepted, Docked
<1>2. CASE Buy
  <2>1. IsGood(campaign', installed) /\ UNCHANGED <<installed, saved>>
    BY <1>1, <1>2, PurchaseKeeps
  <2>2. IsGood(campaign', installed')
    BY <2>1
  <2> QED BY <1>1, <2>1, <2>2 DEF PlayInv, GoodInv, Built
<1>3. CASE EnterSite
  <2>1. PICK f \in DOMAIN c.encounters :
          LET e == EncounterAt(c, c.encounters[f].site)
          IN  m.ship # NoShip /\ Plays([m EXCEPT !.encounter = e, !.opponents = Opponents(c, e)])
    BY <1>3, Zenon DEF EnterSite
  <2> DEFINE e == EncounterAt(c, c.encounters[f].site)
             n == [m EXCEPT !.encounter = e, !.opponents = Opponents(c, e)]
  <2>2. m.ship # NoShip /\ Plays(n) /\ n = [m EXCEPT !.encounter = e, !.opponents = Opponents(c, e)]
    BY <2>1
  <2> HIDE DEF n, m, c
  <2>3. e \in DOMAIN c.encounters
    BY <1>1, <2>1, EncounterIsThere DEF Accepted
  <2> HIDE DEF e
  <2>4. IsGood(n, c)
    BY <1>1, <2>2, <2>3, EncounterKeeps
  <2> QED BY <1>1, <2>2, <2>4, PlaysKeeps DEF c
<1> QED BY <1>2, <1>3

LEMMA PlayStep == PlayInv /\ [Next]_vars => PlayInv'
<1> SUFFICES ASSUME PlayInv, [Next]_vars PROVE PlayInv'
  OBVIOUS
<1>1. InstalledIsAccepted' /\ GoodInv
  BY InstalledStep DEF PlayInv
<1>2. CASE Edit
  BY <1>1, <1>2 DEF Edit, GoodInv, Playing, PlayInv
<1>3. CASE Release
  BY <1>1, <1>3 DEF Release, GoodInv, Playing, PlayInv
<1>4. CASE NewCampaign
  <2>1. /\ Built /\ Accepted(installed) /\ CanBeCreated(installed) /\ campaign' = CampaignOf(installed)
        /\ installed' = installed /\ saved' = saved
    BY <1>4 DEF NewCampaign, PlayInv, InstalledIsAccepted, Built
  <2>2. IsGood(CampaignOf(installed), installed)
    BY <2>1, CreationIsGood
  <2>3. IsGood(campaign', installed')
    BY <2>1, <2>2
  <2> QED BY <1>1, <2>1, <2>3 DEF GoodInv, Built, PlayInv
<1>5. CASE Save
  <2>1. saved' = campaign /\ campaign' = NoCampaign /\ IsGood(campaign, installed)
    BY <1>1, <1>5 DEF Save, GoodInv, Playing
  <2>2. IsCampaign(campaign)
    BY <2>1, GoodIs
  <2>3. IsCampaign(saved')
    BY <2>1, <2>2
  <2> QED BY <1>1, <2>1, <2>3 DEF GoodInv, Playing, PlayInv
<1>6. CASE Load
  <2>1. /\ Built /\ CanBeLoaded(saved, installed) /\ IsCampaign(saved)
        /\ campaign' = saved /\ installed' = installed /\ saved' = saved
    BY <1>1, <1>6 DEF Load, GoodInv, Built
  <2>2. IsGood(saved, installed)
    BY <2>1, GoodIs
  <2>3. IsGood(campaign', installed')
    BY <2>1, <2>2
  <2> QED BY <1>1, <2>1, <2>3 DEF GoodInv, Built, PlayInv
<1>7. CASE Docked /\ (EnterSite \/ Buy)
  BY <1>1, <1>7, StayKeeps DEF PlayInv
<1>8. CASE Flying /\ (Dock \/ TakeDamage \/ Fire \/ TakeLoot \/ LoseShip)
  BY <1>1, <1>8, FlightKeeps DEF PlayInv
<1>9. CASE UNCHANGED vars
  <2>1. campaign' = campaign /\ installed' = installed /\ saved' = saved
    BY <1>9 DEF vars
  <2> QED BY <1>1, <2>1 DEF GoodInv, Playing, Built, PlayInv
<1> QED BY <1>2, <1>3, <1>4, <1>5, <1>6, <1>7, <1>8, <1>9 DEF Next

LEMMA PlayHolds == Spec => []PlayInv
<1> QED BY PlayInit, PlayStep, PTL DEF Spec

\* Every campaign that is played, on the content it began on or on a later one
\* that took it over, is one that loadSave() takes: what loadSave() refuses is
\* never saved.  The checks of a load do not hold by themselves from step to
\* step: they need that what is installed passed the rules, that identifiers
\* tell their kinds, and that a pilot without a ship has an empty hold.
THEOREM PlayIsLoadable == Spec => []SavesReload
<1>1. PlayInv => SavesReload
  BY GoodIs DEF PlayInv, GoodInv, SavesReload
<1> QED BY <1>1, PlayHolds, PTL

-----------------------------------------------------------------------------
(* A lost ship can be bought back. *)

LEMMA PriceIsNat ==
  ASSUME NEW c, SchemasHold(c), NEW l, ListingFits(l)
  PROVE  Price(c, l) \in Nat
<1> DEFINE n == RoundDiv(l.base * (100 + Clamp(c.bounds.effectiveSpread[1], c.bounds.effectiveSpread[2], l.spread)), 100)
<1>1. Price(c, l) = Max({1, n})
  BY DEF Price
<1>2. n \in Int
  <2> DEFINE low == c.bounds.effectiveSpread[1]
             high == c.bounds.effectiveSpread[2]
             spread == Clamp(low, high, l.spread)
  <2>1. low \in Nat /\ high \in Nat
    BY DEF SchemasHold
  <2>2. l.spread \in Nat /\ l.base \in Nat
    BY DEF ListingFits
  <2>3. n = RoundDiv(l.base * (100 + spread), 100)
    OBVIOUS
  <2> HIDE DEF low, high, n
  <2>4. spread \in Nat
    BY <2>1, <2>2 DEF Clamp
  <2> HIDE DEF spread
  <2>5. l.base * (100 + spread) \in Int
    BY <2>2, <2>4
  <2> QED BY <2>3, <2>5, QuotientIsInt
<1> HIDE DEF n
<1>3. \E x \in {1, n} : \A y \in {1, n} : x >= y
  <2>1. 1 >= n \/ n >= 1
    BY <1>2
  <2>2. 1 >= 1 /\ n >= n
    BY <1>2
  <2> QED BY <2>1, <2>2
<1>4. Max({1, n}) \in {1, n} /\ Max({1, n}) >= 1
  BY <1>3 DEF Max
<1> QED BY <1>1, <1>2, <1>4

\* What a module of the starter ship costs at a station, with a full magazine.
PartCost(c, s, e) ==
  Price(c, c.listings[s][e.module]) +
    IF e.ammunition = None THEN 0 ELSE Magazine(c, e) * Price(c, c.listings[s][e.ammunition])

InReachAt(c, s) == s \in DOMAIN c.listings /\ RecoveryInReach(c, s)

\* checkRecoveryReach() holds every part against its value.
LEMMA PartIsInReach ==
  ASSUME NEW c, Accepted(c), NEW s, InReachAt(c, s), NEW id \in StarterParts(c)
  PROVE  /\ id \in DOMAIN c.listings[s] /\ Price(c, c.listings[s][id]) \in Nat
         /\ Price(c, c.listings[s][id]) <= Value(c, id)
<1>1. id \in FixedAt(c, s) /\ Price(c, c.listings[s][id]) <= Value(c, id)
  BY DEF InReachAt, RecoveryInReach
<1>2. id \in DOMAIN c.listings[s]
  BY <1>1 DEF FixedAt
<1>3. ListingFits(c.listings[s][id]) /\ SchemasHold(c)
  BY <1>2 DEF InReachAt, Accepted, SchemasHold
<1> QED BY <1>1, <1>2, <1>3, PriceIsNat

LEMMA PartCostsItsValue ==
  ASSUME NEW c, Accepted(c), NEW s, InReachAt(c, s), NEW i \in DOMAIN c.economy.fit
  PROVE  PartCost(c, s, c.economy.fit[i]) \in Nat /\ PartCost(c, s, c.economy.fit[i]) <= PartValue(c, c.economy.fit[i])
<1> DEFINE e == c.economy.fit[i]
           cost == Price(c, c.listings[s][e.module])
           value == c.modules[e.module].value
           full == Magazine(c, e)
           each == Price(c, c.listings[s][e.ammunition])
           worth == c.ammunition[e.ammunition].value
<1>1. StartIsSound(c) /\ SchemasHold(c)
  BY StartsAreSound DEF Accepted
<1>2. /\ e.module \in DOMAIN c.modules /\ c.modules[e.module].magazine \in Nat /\ value \in Nat
      /\ e.ammunition \in DOMAIN c.ammunition \cup {None}
  BY <1>1 DEF StartIsSound, ModuleFits
<1>3. cost \in Nat /\ cost <= value
  <2>1. e.module \in StarterParts(c)
    BY DEF StarterParts
  <2>2. Value(c, e.module) = value
    BY <1>1, <1>2, GoodsAreSound
  <2> QED BY <2>1, <2>2, PartIsInReach
<1>4. PartCost(c, s, e) = cost + (IF e.ammunition = None THEN 0 ELSE full * each)
  BY DEF PartCost
<1>5. PartValue(c, e) = value + (IF e.ammunition = None THEN 0 ELSE full * worth)
  BY DEF PartValue
<1>6. full \in Nat
  BY <1>2 DEF Magazine
<1>7. ASSUME e.ammunition # None PROVE each \in Nat /\ worth \in Nat /\ each <= worth
  <2>1. e.ammunition \in DOMAIN c.ammunition /\ e.ammunition \in StarterParts(c)
    BY <1>2, <1>7 DEF StarterParts
  <2>2. Value(c, e.ammunition) = worth
    BY <1>1, <2>1, GoodsAreSound
  <2>3. worth \in Nat
    BY <1>1, <2>1 DEF SchemasHold
  <2> QED BY <2>1, <2>2, <2>3, PartIsInReach
<1> HIDE DEF cost, value, full, each, worth
<1>8. CASE e.ammunition = None
  BY <1>2, <1>3, <1>4, <1>5, <1>8
<1>9. CASE e.ammunition # None
  <2>1. full * each \in Nat /\ full * worth \in Nat /\ full * each <= full * worth
    BY <1>6, <1>7, <1>9, ProductIsNat, ProductGrows
  <2>2. PartCost(c, s, e) = cost + full * each /\ PartValue(c, e) = value + full * worth
    BY <1>4, <1>5, <1>9
  <2> DEFINE k == full * each
             m == full * worth
  <2>3. k \in Nat /\ m \in Nat /\ k <= m /\ PartCost(c, s, e) = cost + k /\ PartValue(c, e) = value + m
    BY <2>1, <2>2
  <2> HIDE DEF k, m
  <2> QED BY <1>2, <1>3, <2>3
<1> QED BY <1>8, <1>9

LEMMA StarterCostsItsValue ==
  ASSUME NEW c, Accepted(c), NEW s, InReachAt(c, s)
  PROVE  StarterCost(c, s) \in Nat /\ StarterCost(c, s) <= StarterValue(c)
<1> DEFINE I == DOMAIN c.economy.fit
           r == [i \in I |-> PartCost(c, s, c.economy.fit[i])]
           q == [i \in I |-> PartValue(c, c.economy.fit[i])]
           cost == Price(c, c.listings[s][c.economy.hull])
           value == c.hulls[c.economy.hull].value
<1>1. StartIsSound(c) /\ SchemasHold(c)
  BY StartsAreSound DEF Accepted
<1>2. StarterCost(c, s) = cost + SumFunction(r)
  BY DEF StarterCost, TotalOf, PartCost
<1>3. StarterValue(c) = value + SumFunction(q)
  BY StarterHasValue
<1>4. \A i \in I : r[i] \in Nat /\ q[i] \in Nat /\ r[i] \in Int /\ q[i] \in Int /\ r[i] <= q[i]
  BY PartCostsItsValue, PartsHaveValue
<1>5. DOMAIN r = I /\ DOMAIN q = I
  OBVIOUS
<1>6. IsFiniteSet(I) /\ value \in Nat /\ c.economy.hull \in DOMAIN c.hulls
  BY <1>1 DEF StartIsSound, HullFits
<1>7. cost \in Nat /\ cost <= value
  <2>1. c.economy.hull \in StarterParts(c)
    BY DEF StarterParts
  <2>2. Value(c, c.economy.hull) = value
    BY <1>1, <1>6, GoodsAreSound
  <2> QED BY <2>1, <2>2, PartIsInReach
<1> HIDE DEF r, q, cost, value, I
<1>8. SumFunction(r) <= SumFunction(q)
  BY <1>4, <1>5, <1>6, SumAtMost
<1>9. SumFunction(r) \in Nat
  BY <1>4, <1>5, <1>6, SumType
<1>10. SumFunction(q) \in Nat
  <2>1. IsFiniteSet(DOMAIN q) /\ \A i \in DOMAIN q : q[i] \in Nat
    BY <1>4, <1>5, <1>6
  <2> QED BY <2>1, SumType
<1> QED BY <1>2, <1>3, <1>6, <1>7, <1>8, <1>9, <1>10

\* A pilot who was not granted a ship has the credits for one: the reference
\* value a load and ensureRecoveryRoute() go by covers what the whole starter
\* ship costs at any neutral station that has a market, since checkRecoveryReach()
\* holds the price of every part, with the spread on it, against its value.
THEOREM LostShipsAreReplaced == Spec => []ShiplessCanFlyAgain
<1>1. PlayInv => ShiplessCanFlyAgain
  <2> DEFINE c == installed
             m == campaign
             s == campaign.station
  <2> SUFFICES ASSUME PlayInv, Playing, m.ship = NoShip, s \in m.markets, c.stations[s].neutral
               PROVE  StarterParts(c) \subseteq DOMAIN m.stock[s] /\ StarterCost(c, s) <= m.credits
    BY DEF ShiplessCanFlyAgain
  <2>1. Built /\ Accepted(c) /\ IsGood(m, c) /\ SchemasHold(c)
    BY DEF PlayInv, GoodInv, InstalledIsAccepted, Accepted
  <2>2. m.credits \in Int /\ m.credits >= StarterValue(c) /\ s \in DOMAIN c.stations
    BY <2>1, KindsAreKnown DEF IsGood, PlacesAreGood, PilotIsGood, Known
  <2>3. InReachAt(c, s)
    BY <2>1, <2>2 DEF Accepted, StarterInReach, InReachAt
  <2>4. DOMAIN m.stock[s] = DOMAIN c.listings[s]
    BY <2>1, <2>3 DEF IsGood, StockIsGood, ShelfAt, InReachAt
  <2> HIDE DEF c, s, m
  <2>5. StarterParts(c) \subseteq DOMAIN c.listings[s]
    BY <2>1, <2>3, PartIsInReach
  <2>6. StarterCost(c, s) \in Nat /\ StarterCost(c, s) <= StarterValue(c) /\ StarterValue(c) \in Nat
    BY <2>1, <2>3, StarterCostsItsValue, StarterHasValue
  <2>7. StarterCost(c, s) <= m.credits
    BY <2>2, <2>6
  <2> QED BY <2>4, <2>5, <2>7
<1> QED BY <1>1, PlayHolds, PTL

=============================================================================
