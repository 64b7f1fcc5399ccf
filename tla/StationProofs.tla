----------------------------- MODULE StationProofs -----------------------------
(***************************************************************************)
(* What holds at a station for every listing, every ship, every stock and  *)
(* every bound: quotes are fair; nobody is left without a ship and without *)
(* the money for one; goods are conserved, granted ones bring no money,    *)
(* and a confirmed preview does what it showed.                            *)
(***************************************************************************)
EXTENDS Station, FiniteSetTheorems, SequenceTheorems, WellFoundedInduction, TLAPS

-----------------------------------------------------------------------------
(* Least numbers. *)

\* Every inhabited set of natural numbers has a least element: the intervals up
\* to its elements have a least one, for finite sets are well founded.
LEMMA LeastExists ==
  ASSUME NEW T, T \subseteq Nat, T # {}
  PROVE  \E x \in T : \A y \in T : x <= y
<1> DEFINE upTo(n) == 1..n
           I == {upTo(n) : n \in T}
<1>1. IsWellFoundedOn(StrictSubsetOrdering(Nat), FiniteSubsetsOf(Nat))
  BY FS_StrictSubsetOrderingWellFounded
<1>2. I \subseteq FiniteSubsetsOf(Nat)
  <2> SUFFICES ASSUME NEW n \in T PROVE upTo(n) \in FiniteSubsetsOf(Nat)
    OBVIOUS
  <2>1. IsFiniteSet(1..n)
    BY FS_Interval
  <2>2. 1..n \subseteq Nat
    OBVIOUS
  <2> QED BY <2>1, <2>2 DEF FiniteSubsetsOf
<1>3. I # {}
  OBVIOUS
<1>4. PICK X \in I : \A Y \in I : ~ <<Y, X>> \in StrictSubsetOrdering(Nat)
  BY <1>1, <1>2, <1>3, WFMin
<1>5. PICK x \in T : X = 1..x
  OBVIOUS
<1>6. ASSUME NEW y \in T, ~ (x <= y) PROVE FALSE
  <2>1. 1..y \in I OBVIOUS
  <2>2. 1..y \subseteq X /\ 1..y # X /\ X \subseteq Nat
    BY <1>5, <1>6
  <2> QED BY <2>1, <2>2, <1>4 DEF StrictSubsetOrdering
<1> QED BY <1>6

LEMMA MinOfNaturals ==
  ASSUME NEW T, T \subseteq Nat, T # {}
  PROVE  Min(T) \in T /\ \A y \in T : Min(T) <= y
<1>1. \E x \in T : \A y \in T : x <= y
  BY LeastExists
<1> QED BY <1>1 DEF Min

LEMMA MaxOfTwo ==
  ASSUME NEW a \in Int, NEW b \in Int
  PROVE  Max({a, b}) = IF a <= b THEN b ELSE a
<1>1. \E x \in {a, b} : \A y \in {a, b} : x >= y
  <2>1. CASE a <= b
    BY <2>1
  <2>2. CASE b <= a
    BY <2>2
  <2> QED BY <2>1, <2>2
<1>2. Max({a, b}) \in {a, b} /\ \A y \in {a, b} : Max({a, b}) >= y
  BY <1>1 DEF Max
<1> QED BY <1>2

LEMMA MinOfTwo ==
  ASSUME NEW a \in Int, NEW b \in Int
  PROVE  Min({a, b}) = IF a <= b THEN a ELSE b
<1>1. \E x \in {a, b} : \A y \in {a, b} : x <= y
  <2>1. CASE a <= b
    BY <2>1
  <2>2. CASE b <= a
    BY <2>2
  <2> QED BY <2>1, <2>2
<1>2. Min({a, b}) \in {a, b} /\ \A y \in {a, b} : Min({a, b}) <= y
  BY <1>1 DEF Min
<1> QED BY <1>2

\* Induction up to a bound: no number is the first to be wrong.
LEMMA UpTo ==
  ASSUME NEW L \in Nat, NEW W, W \subseteq 0..L, 0 \notin W,
         \A n \in 1..L : n \in W => n - 1 \in W
  PROVE  W = {}
<1> SUFFICES ASSUME W # {} PROVE FALSE
  OBVIOUS
<1>1. W \subseteq Nat
  OBVIOUS
<1>2. PICK n \in W : \A m \in W : n <= m
  BY <1>1, LeastExists
<1>3. n \in 1..L
  OBVIOUS
<1>4. n - 1 \in W
  BY <1>3
<1>5. n <= n - 1
  BY <1>2, <1>4
<1> QED BY <1>3, <1>5

-----------------------------------------------------------------------------
(* Sums of sequences of integers. *)

\* A sum is what its steps make of it.
LEMMA TotalUnfolds ==
  ASSUME NEW numbers, Len(numbers) \in Nat
  PROVE  \E g : /\ Total(numbers) = g[Len(numbers)]
                /\ g[0] = 0
                /\ \A i \in 1..Len(numbers) : g[i] = g[i - 1] + numbers[i]
<1> DEFINE L == Len(numbers)
           Body(g, n) ==
             IF n = 0 THEN 0
             ELSE g[n - 1] + numbers[n]
           Solves(g, n) == g = [m \in 0..n |-> Body(g, m)]
           Unsolved == {n \in 0..L : ~ \E g : Solves(g, n)}
           made == CHOOSE g : Solves(g, L)
<1>1. L \in Nat
  OBVIOUS
<1>2. Total(numbers) = made[L]
  BY DEF Total
<1>3. ASSUME NEW g PROVE Body(g, 0) = 0
  OBVIOUS
<1>4. ASSUME NEW g, NEW n \in 1..L
      PROVE  Body(g, n) = g[n - 1] + numbers[n]
  OBVIOUS
<1>5. ASSUME NEW g, NEW h, NEW n \in 0..L, n = 0 \/ g[n - 1] = h[n - 1]
      PROVE  Body(g, n) = Body(h, n)
  <2>1. CASE n = 0
    BY <2>1
  <2>2. CASE n # 0
    <3>1. g[n - 1] = h[n - 1]
      BY <1>5, <2>2
    <3>2. Body(g, n) = Body(h, n)
      BY <3>1, <2>2
    <3> QED BY <3>2
  <2> QED BY <2>1, <2>2
<1> HIDE DEF Body, L
<1>6. 0 \notin Unsolved
  <2> DEFINE g == [m \in 0..0 |-> Body(<<>>, m)]
  <2>1. Body(<<>>, 0) = Body(g, 0)
    BY <1>1, <1>5
  <2>2. Solves(g, 0)
    BY <2>1
  <2> HIDE DEF g, Solves
  <2> QED BY <2>2
<1>7. ASSUME NEW n \in 1..L, n \in Unsolved PROVE n - 1 \in Unsolved
  <2>1. n - 1 \in 0..L
    BY <1>1
  <2> SUFFICES ASSUME NEW f, Solves(f, n - 1) PROVE FALSE
    BY <2>1
  <2>2. ASSUME NEW m \in 0..(n - 1) PROVE f[m] = Body(f, m)
    <3>1. f = [k \in 0..(n - 1) |-> Body(f, k)]
      OBVIOUS
    <3> HIDE DEF Solves
    <3> QED BY <3>1
  <2> DEFINE g == [m \in 0..n |-> IF m = n THEN Body(f, n) ELSE f[m]]
  <2>3. ASSUME NEW m \in 0..n PROVE g[m] = Body(f, m)
    <3>1. m # n => m \in 0..(n - 1)
      BY <1>1
    <3> HIDE DEF Solves
    <3> QED BY <2>2, <3>1
  <2>4. ASSUME NEW m \in 0..n, m # 0 PROVE g[m - 1] = f[m - 1]
    <3>1. m - 1 \in 0..n /\ m - 1 # n
      BY <2>4, <1>1
    <3> QED BY <3>1
  <2>5. g = [m \in 0..n |-> g[m]]
    OBVIOUS
  <2> HIDE DEF g, Solves
  <2>6. ASSUME NEW m \in 0..n PROVE g[m] = Body(g, m)
    <3>1. m \in 0..L
      BY <1>1
    <3> QED BY <2>3, <2>4, <3>1, <1>5
  <2>7. Solves(g, n)
    BY <2>5, <2>6 DEF Solves
  <2> QED BY <2>7, <1>7
<1>8. \E g : Solves(g, L)
  <2>1. Unsolved \subseteq 0..L
    OBVIOUS
  <2>2. L \in Unsolved \/ \E g : Solves(g, L)
    <3> HIDE DEF Solves
    <3> QED BY <1>1
  <2> HIDE DEF Unsolved, Solves
  <2>3. Unsolved = {}
    BY <1>1, <1>6, <1>7, <2>1, UpTo
  <2> QED BY <2>2, <2>3
<1>9. Solves(made, L)
  <2> HIDE DEF Solves
  <2> QED BY <1>8
<1>10. ASSUME NEW m \in 0..L PROVE made[m] = Body(made, m)
  <2> HIDE DEF made
  <2> QED BY <1>9
<1> HIDE DEF made, Solves
<1>11. made[0] = 0
  BY <1>1, <1>3, <1>10
<1>12. ASSUME NEW i \in 1..L PROVE made[i] = made[i - 1] + numbers[i]
  <2>1. i \in 0..L
    BY <1>1
  <2> QED BY <2>1, <1>4, <1>10
<1>13. /\ Total(numbers) = made[Len(numbers)]
       /\ \A i \in 1..Len(numbers) : made[i] = made[i - 1] + numbers[i]
  BY <1>2, <1>12 DEF L
<1> QED BY <1>11, <1>13

\* g has the sums of all beginnings of a sequence.
Runs(g, numbers) ==
  g[0] = 0 /\ \A i \in 1..Len(numbers) : g[i] = g[i - 1] + numbers[i]

LEMMA TotalRuns ==
  ASSUME NEW numbers, Len(numbers) \in Nat
  PROVE  \E g : Runs(g, numbers) /\ Total(numbers) = g[Len(numbers)]
BY TotalUnfolds DEF Runs

LEMMA RunsAreIntegers ==
  ASSUME NEW q \in Seq(Int), NEW g, Runs(g, q), NEW k \in 0..Len(q)
  PROVE  g[k] \in Int
<1> DEFINE W == {n \in 0..Len(q) : g[n] \notin Int}
<1>1. Len(q) \in Nat /\ \A i \in 1..Len(q) : q[i] \in Int
  OBVIOUS
<1>2. 0 \notin W
  BY DEF Runs
<1>3. ASSUME NEW n \in 1..Len(q), n \in W PROVE n - 1 \in W
  <2>1. g[n] = g[n - 1] + q[n] /\ n - 1 \in 0..Len(q)
    BY <1>1 DEF Runs
  <2> QED BY <2>1, <1>1, <1>3
<1>4. W \subseteq 0..Len(q)
  OBVIOUS
<1> HIDE DEF W
<1>5. W = {}
  BY <1>1, <1>2, <1>3, <1>4, UpTo
<1> QED BY <1>5 DEF W

\* Two sequences that agree on a segment add the same over it.
SameOver(p, a, q, b, k) ==
  /\ a + k <= Len(p) /\ b + k <= Len(q)
  /\ \A i \in 1..k : p[a + i] = q[b + i]

LEMMA SameSegment ==
  ASSUME NEW p \in Seq(Int), NEW q \in Seq(Int), NEW g, NEW h, Runs(g, p), Runs(h, q),
         NEW a \in Nat, NEW b \in Nat, NEW k \in Nat, SameOver(p, a, q, b, k)
  PROVE  g[a + k] - g[a] = h[b + k] - h[b]
<1> DEFINE W == {n \in 0..k : g[a + n] - g[a] # h[b + n] - h[b]}
<1>1. Len(p) \in Nat /\ Len(q) \in Nat
  OBVIOUS
<1>2. ASSUME NEW n \in 0..k
      PROVE g[a + n] \in Int /\ g[a] \in Int /\ h[b + n] \in Int /\ h[b] \in Int
  <2>1. a + n \in 0..Len(p) /\ a \in 0..Len(p) /\ b + n \in 0..Len(q) /\ b \in 0..Len(q)
    BY <1>1 DEF SameOver
  <2> QED BY <2>1, RunsAreIntegers
<1>3. 0 \notin W
  <2>1. g[a + 0] = g[a] /\ h[b + 0] = h[b]
    OBVIOUS
  <2>2. 0 \in 0..k
    OBVIOUS
  <2>3. g[a] \in Int /\ h[b] \in Int
    BY <1>2, <2>2
  <2> QED BY <2>1, <2>3
<1>4. ASSUME NEW n \in 1..k, n \in W PROVE n - 1 \in W
  <2>1. a + n \in 1..Len(p) /\ b + n \in 1..Len(q) /\ (a + n) - 1 = a + (n - 1)
        /\ (b + n) - 1 = b + (n - 1) /\ n - 1 \in 0..k /\ n \in 0..k
    BY <1>1 DEF SameOver
  <2>2. g[a + n] = g[a + (n - 1)] + p[a + n] /\ h[b + n] = h[b + (n - 1)] + q[b + n]
    BY <2>1 DEF Runs
  <2>3. p[a + n] = q[b + n] /\ p[a + n] \in Int /\ q[b + n] \in Int
    BY <2>1 DEF SameOver
  <2>4. g[a + (n - 1)] \in Int /\ h[b + (n - 1)] \in Int /\ g[a] \in Int /\ h[b] \in Int
    BY <2>1, <1>2
  <2>5. g[a + n] - g[a] # h[b + n] - h[b]
    BY <1>4
  <2>6. g[a + (n - 1)] - g[a] # h[b + (n - 1)] - h[b]
    <3> DEFINE x == g[a + (n - 1)]
               y == h[b + (n - 1)]
               c == p[a + n]
               d == g[a]
               e == h[b]
    <3>1. (x + c) - d # (y + c) - e
      BY <2>2, <2>3, <2>5
    <3>2. x \in Int /\ y \in Int /\ c \in Int /\ d \in Int /\ e \in Int
      BY <2>3, <2>4
    <3> HIDE DEF x, y, c, d, e, W
    <3>3. x - d # y - e
      BY <3>1, <3>2
    <3> QED BY <3>3 DEF x, y, d, e
  <2> QED BY <2>1, <2>6
<1>5. W \subseteq 0..k
  OBVIOUS
<1> HIDE DEF W
<1>6. W = {}
  BY <1>3, <1>4, <1>5, UpTo
<1>7. k \in 0..k
  OBVIOUS
<1> QED BY <1>6, <1>7 DEF W

LEMMA TotalType ==
  ASSUME NEW q \in Seq(Int)
  PROVE  Total(q) \in Int
<1>1. PICK g : Runs(g, q) /\ Total(q) = g[Len(q)]
  BY TotalRuns
<1> QED BY <1>1, RunsAreIntegers

\* One more number.
LEMMA TotalOfOneMore ==
  ASSUME NEW p \in Seq(Int), NEW q \in Seq(Int), Len(q) = Len(p) + 1,
         \A i \in 1..Len(p) : q[i] = p[i]
  PROVE  Total(q) = Total(p) + q[Len(q)]
<1>1. PICK g : Runs(g, p) /\ Total(p) = g[Len(p)]
  BY TotalRuns
<1>2. PICK h : Runs(h, q) /\ Total(q) = h[Len(q)]
  BY TotalRuns
<1>3. g[0 + Len(p)] - g[0] = h[0 + Len(p)] - h[0]
  <2>1. SameOver(p, 0, q, 0, Len(p))
    BY DEF SameOver
  <2> QED BY <1>1, <1>2, <2>1, SameSegment
<1>4. g[Len(p)] \in Int /\ h[Len(p)] \in Int /\ q[Len(q)] \in Int
  BY <1>1, <1>2, RunsAreIntegers
<1>5. g[Len(p)] = h[Len(p)]
  BY <1>1, <1>2, <1>3, <1>4 DEF Runs
<1>6. h[Len(q)] = h[Len(p)] + q[Len(q)]
  BY <1>2 DEF Runs
<1> QED BY <1>1, <1>2, <1>5, <1>6

\* No number is zero.
LEMMA TotalOfNone ==
  ASSUME NEW q, Len(q) = 0
  PROVE  Total(q) = 0
<1>1. PICK g : Runs(g, q) /\ Total(q) = g[Len(q)]
  BY TotalRuns
<1> QED BY <1>1 DEF Runs

\* One number less, the others in their order.
LEMMA TotalOfOneLess ==
  ASSUME NEW p \in Seq(Int), NEW q \in Seq(Int), NEW i \in 1..Len(p), Len(q) + 1 = Len(p),
         \A j \in 1..(i - 1) : q[j] = p[j], \A j \in i..Len(q) : q[j] = p[j + 1]
  PROVE  Total(p) = Total(q) + p[i]
<1>1. PICK g : Runs(g, p) /\ Total(p) = g[Len(p)]
  BY TotalRuns
<1>2. PICK h : Runs(h, q) /\ Total(q) = h[Len(q)]
  BY TotalRuns
<1> DEFINE rest == Len(p) - i
<1>3. rest \in Nat /\ i - 1 \in Nat /\ Len(p) \in Nat /\ Len(q) \in Nat
  OBVIOUS
<1>4. SameOver(p, 0, q, 0, i - 1)
  BY <1>3 DEF SameOver
<1>5. SameOver(p, i, q, i - 1, rest)
  <2>1. i + rest <= Len(p) /\ (i - 1) + rest <= Len(q)
    BY <1>3
  <2>2. ASSUME NEW k \in 1..rest PROVE p[i + k] = q[(i - 1) + k]
    <3>1. (i - 1) + k \in i..Len(q) /\ ((i - 1) + k) + 1 = i + k
      BY <1>3
    <3> QED BY <3>1
  <2> HIDE DEF rest
  <2> QED BY <2>1, <2>2 DEF SameOver
<1>6. g[0 + (i - 1)] - g[0] = h[0 + (i - 1)] - h[0]
  BY <1>1, <1>2, <1>3, <1>4, SameSegment
<1>7. g[i + rest] - g[i] = h[(i - 1) + rest] - h[i - 1]
  <2> HIDE DEF rest
  <2> QED BY <1>1, <1>2, <1>3, <1>5, SameSegment
<1>8. g[i] = g[i - 1] + p[i] /\ g[0] = 0 /\ h[0] = 0
  BY <1>1, <1>2 DEF Runs
<1>9. /\ i + rest = Len(p) /\ (i - 1) + rest = Len(q)
      /\ 0 + (i - 1) = i - 1
  BY <1>3
<1>10. /\ g[i] \in Int /\ g[i - 1] \in Int /\ h[i - 1] \in Int
       /\ g[Len(p)] \in Int /\ h[Len(q)] \in Int /\ p[i] \in Int
  <2>1. /\ i \in 0..Len(p) /\ i - 1 \in 0..Len(p) /\ i - 1 \in 0..Len(q)
        /\ Len(p) \in 0..Len(p) /\ Len(q) \in 0..Len(q)
    BY <1>3
  <2> QED BY <2>1, <1>1, <1>2, RunsAreIntegers
<1> DEFINE gi == g[i]
           gj == g[i - 1]
           hj == h[i - 1]
           gl == g[Len(p)]
           hl == h[Len(q)]
           x == p[i]
<1>11. gj = hj
  BY <1>6, <1>8, <1>9, <1>10
<1>12. gl - gi = hl - hj /\ gi = gj + x
  BY <1>7, <1>8, <1>9
<1>13. gi \in Int /\ gj \in Int /\ hj \in Int /\ gl \in Int /\ hl \in Int /\ x \in Int
  BY <1>10
<1>14. Total(p) = gl /\ Total(q) = hl
  BY <1>1, <1>2
<1> HIDE DEF gi, gj, hj, gl, hl, x, rest
<1>15. Total(p) = Total(q) + x
  BY <1>11, <1>12, <1>13, <1>14
<1> QED BY <1>15 DEF x

\* A sum of numbers none of which is negative.
LEMMA TotalOfNaturals ==
  ASSUME NEW q \in Seq(Nat)
  PROVE  Total(q) \in Nat
<1>1. PICK g : Runs(g, q) /\ Total(q) = g[Len(q)]
  BY TotalRuns
<1> DEFINE W == {n \in 0..Len(q) : g[n] \notin Nat}
<1>2. Len(q) \in Nat /\ \A i \in 1..Len(q) : q[i] \in Nat
  OBVIOUS
<1>3. 0 \notin W
  BY <1>1 DEF Runs
<1>4. ASSUME NEW n \in 1..Len(q), n \in W PROVE n - 1 \in W
  <2>1. g[n] = g[n - 1] + q[n] /\ n - 1 \in 0..Len(q)
    BY <1>1, <1>2 DEF Runs
  <2> QED BY <2>1, <1>2, <1>4
<1>5. W \subseteq 0..Len(q)
  OBVIOUS
<1> HIDE DEF W
<1>6. W = {}
  BY <1>2, <1>3, <1>4, <1>5, UpTo
<1>7. Len(q) \in 0..Len(q)
  BY <1>2
<1> QED BY <1>1, <1>6, <1>7 DEF W

-----------------------------------------------------------------------------
(* Quotes. *)

LEMMA ClampType ==
  ASSUME NEW low \in Int, NEW high \in Int, NEW x \in Int, low <= high
  PROVE  Clamp(low, high, x) \in Int /\ low <= Clamp(low, high, x) /\ Clamp(low, high, x) <= high
BY DEF Clamp

\* The spread in percent.
Spread(l) == Clamp(2, 25, l.spread)

LEMMA ListingType ==
  ASSUME NEW l \in Listings
  PROVE  /\ l.fixed \in BOOLEAN /\ l.base \in Nat /\ l.base > 0 /\ l.target \in Nat /\ l.target > 0
         /\ l.elasticity \in Nat /\ l.spread \in Nat /\ l.production \in Nat /\ l.consumption \in Nat
BY DEF Listings

LEMMA SpreadType ==
  ASSUME NEW l \in Listings
  PROVE  Spread(l) \in 2..25
<1>1. l.spread \in Int
  BY ListingType
<1> QED BY <1>1 DEF Spread, Clamp

LEMMA Products ==
  ASSUME NEW a \in Nat, NEW b \in Nat
  PROVE  a * b \in Nat
OBVIOUS

LEMMA ProductsGrow ==
  ASSUME NEW a \in Int, NEW b \in Int, NEW c \in Nat, a <= b
  PROVE  a * c <= b * c /\ c * a <= c * b
OBVIOUS

Scarcity(l, stock) == Clamp(-l.target, 2 * l.target, l.target - stock)

LEMMA ScarcityType ==
  ASSUME NEW l \in Listings, NEW stock \in Int
  PROVE  /\ Scarcity(l, stock) \in Int /\ -l.target <= Scarcity(l, stock)
         /\ Scarcity(l, stock - 1) \in Int
         /\ Scarcity(l, stock - 1) <= Scarcity(l, stock) + 1
         /\ stock >= 2 * l.target => Scarcity(l, stock) = -l.target
<1> DEFINE T == l.target
<1>1. T \in Nat /\ T > 0
  BY ListingType
<1> HIDE DEF T
<1> QED BY <1>1 DEF Scarcity, Clamp, T

LEMMA MultiplierUnfolds ==
  ASSUME NEW l \in Listings, NEW stock \in Int
  PROVE  ScarcityMultiplier(l, stock) =
           IF l.fixed THEN 100 * l.target
           ELSE Clamp(40 * l.target, 250 * l.target,
                      100 * l.target + l.elasticity * Scarcity(l, stock))
BY DEF ScarcityMultiplier, Scarcity

\* The multiplier in hundredths of the target: it is at least forty, it falls
\* with the stock, a unit changes it by no more than the elasticity, and it
\* stands still from twice the target on.
LEMMA MultiplierMoves ==
  ASSUME NEW l \in Listings, NEW stock \in Int
  PROVE  /\ ScarcityMultiplier(l, stock) \in Nat
         /\ ScarcityMultiplier(l, stock) >= 40 * l.target
         /\ ScarcityMultiplier(l, stock) >= (100 - l.elasticity) * l.target
         /\ ScarcityMultiplier(l, stock - 1) \in Nat
         /\ ScarcityMultiplier(l, stock - 1) <= ScarcityMultiplier(l, stock) + l.elasticity
<1> DEFINE T == l.target
           e == l.elasticity
           c == Scarcity(l, stock)
           d == Scarcity(l, stock - 1)
           ec == e * c
           ed == e * d
<1>1. T \in Nat /\ T > 0 /\ e \in Nat
  BY ListingType
<1>2. c \in Int /\ d \in Int /\ -T <= c /\ d <= c + 1
  BY ScarcityType
<1>3. /\ ScarcityMultiplier(l, stock) =
           IF l.fixed THEN 100 * T ELSE Clamp(40 * T, 250 * T, 100 * T + ec)
      /\ ScarcityMultiplier(l, stock - 1) =
           IF l.fixed THEN 100 * T ELSE Clamp(40 * T, 250 * T, 100 * T + ed)
  BY MultiplierUnfolds
<1> HIDE DEF T, e, c, d
<1>4. ec \in Int /\ ed \in Int /\ e * T \in Nat
  BY <1>1, <1>2
<1>5. e * (-T) <= ec /\ e * (-T) = -(e * T)
  BY <1>1, <1>2, ProductsGrow
<1>6. ed <= e * (c + 1) /\ e * (c + 1) = ec + e
  BY <1>1, <1>2, ProductsGrow
<1>7. (100 - e) * T = 100 * T - e * T
  BY <1>1
<1> DEFINE et == e * T
<1>8. -et <= ec /\ ed <= ec + e /\ (100 - e) * T = 100 * T - et /\ et \in Nat
  BY <1>4, <1>5, <1>6, <1>7
<1> HIDE DEF ec, ed, et
<1>9. CASE l.fixed
  <2>1. 100 * T - et <= 100 * T
    BY <1>1, <1>8
  <2> QED BY <1>1, <1>3, <1>8, <1>9, <2>1 DEF T, e
<1>10. CASE ~l.fixed
  <2> DEFINE m == Clamp(40 * T, 250 * T, 100 * T + ec)
             n == Clamp(40 * T, 250 * T, 100 * T + ed)
  <2>1. ScarcityMultiplier(l, stock) = m /\ ScarcityMultiplier(l, stock - 1) = n
    BY <1>3, <1>10
  <2>2. /\ m \in Nat /\ n \in Nat /\ m >= 40 * T /\ m >= 100 * T - et /\ n <= m + e
    BY <1>1, <1>4, <1>8 DEF Clamp, ec, ed
  <2> HIDE DEF m, n
  <2> QED BY <2>1, <2>2, <1>8 DEF T, e
<1> QED BY <1>9, <1>10

\* Rounding a quotient.
LEMMA RoundDivType ==
  ASSUME NEW m \in Nat, NEW n \in Nat, m <= n, NEW d \in Nat \ {0}
  PROVE  RoundDiv(m, d) \in Nat /\ RoundDiv(m, d) <= RoundDiv(n, d)
<1> DEFINE h == d \div 2
<1>1. h \in Nat
  OBVIOUS
<1> HIDE DEF h
<1>2. m + h \in Nat /\ n + h \in Nat /\ m + h <= n + h
  BY <1>1
<1>3. ASSUME NEW a \in Nat, NEW b \in Nat, a <= b
      PROVE  (a \div d) \in Nat /\ (a \div d) <= (b \div d)
  BY <1>3
<1> QED BY <1>2, <1>3 DEF RoundDiv, h

\* What a quote is before it is rounded, and rounded before it is one at least.
Factor(l, side) == IF side = "stationSells" THEN 100 + Spread(l) ELSE 100 - Spread(l)
Unrounded(l, stock, side) == l.base * ScarcityMultiplier(l, stock) * Factor(l, side)
Rounded(l, stock, side) == RoundDiv(Unrounded(l, stock, side), 10000 * l.target)

LEMMA QuoteUnfolds ==
  ASSUME NEW l \in Listings, NEW stock \in Int, NEW side
  PROVE  UnitQuote(l, stock, side) = Max({1, Rounded(l, stock, side)})
BY DEF UnitQuote, Rounded, Unrounded, Factor, Spread

LEMMA UnroundedType ==
  ASSUME NEW l \in Listings, NEW stock \in Int, NEW side
  PROVE  Unrounded(l, stock, side) \in Nat
<1> DEFINE m == ScarcityMultiplier(l, stock)
           f == Factor(l, side)
<1>1. m \in Nat /\ l.base \in Nat
  BY MultiplierMoves, ListingType
<1>2. f \in Nat
  BY SpreadType DEF Factor
<1> HIDE DEF m, f
<1>3. l.base * m \in Nat
  BY <1>1
<1>4. (l.base * m) * f \in Nat
  BY <1>2, <1>3
<1> QED BY <1>4 DEF Unrounded, m, f

LEMMA DivisorType ==
  ASSUME NEW l \in Listings
  PROVE  10000 * l.target \in Nat \ {0}
BY ListingType

\* A unit is never free and its price is a whole number.
LEMMA QuoteType ==
  ASSUME NEW l \in Listings, NEW stock \in Int, NEW side
  PROVE  UnitQuote(l, stock, side) \in Nat \ {0}
<1>1. Rounded(l, stock, side) \in Nat
  BY UnroundedType, DivisorType, RoundDivType DEF Rounded
<1>2. Max({1, Rounded(l, stock, side)}) \in Nat \ {0}
  BY <1>1, MaxOfTwo
<1> QED BY <1>2, QuoteUnfolds

\* Selling a unit back right after it was bought does not pay.
LEMMA NoProfitOnOne ==
  ASSUME NEW l \in Listings, IsHedged(l), NEW stock \in Int
  PROVE  UnitQuote(l, stock - 1, "stationBuys") <= UnitQuote(l, stock, "stationSells")
<1> DEFINE T == l.target
           e == l.elasticity
           s == Spread(l)
           m == ScarcityMultiplier(l, stock)
           n == ScarcityMultiplier(l, stock - 1)
<1>1. T \in Nat /\ T > 0 /\ e \in Nat /\ l.base \in Nat /\ s \in 2..25
  BY ListingType, SpreadType
<1>2. /\ m \in Nat /\ n \in Nat /\ n <= m + e
      /\ m >= 40 * T /\ m >= (100 - e) * T
  BY MultiplierMoves
<1>3. l.fixed => n = m
  BY MultiplierUnfolds
<1>4. l.fixed \/ e * (100 - s) <= 2 * s * T * Max({40, 100 - e})
  BY DEF IsHedged, Spread
<1>5. Max({40, 100 - e}) = IF 40 <= 100 - e THEN 100 - e ELSE 40
  BY <1>1, MaxOfTwo
<1> HIDE DEF T, e, s, m, n
<1>6. n * (100 - s) <= m * (100 + s)
  <2>1. CASE l.fixed
    <3>1. 100 - s <= 100 + s /\ 100 - s \in Nat /\ 100 + s \in Nat
      BY <1>1
    <3>2. m * (100 - s) <= m * (100 + s)
      BY <3>1, <1>2, ProductsGrow
    <3> QED BY <3>2, <2>1, <1>3
  <2>2. CASE ~l.fixed
    <3> DEFINE k == Max({40, 100 - e})
               b == 100 - s
    <3>1. k \in Nat /\ b \in Nat
      BY <1>1, <1>5
    <3>2. T * k <= m
      <4>1. CASE 40 <= 100 - e
        BY <4>1, <1>1, <1>2, <1>5
      <4>2. CASE ~(40 <= 100 - e)
        BY <4>2, <1>1, <1>2, <1>5
      <4> QED BY <4>1, <4>2
    <3>3. e * b <= 2 * s * T * k
      BY <1>4, <2>2
    <3> HIDE DEF k
    <3>4. 2 * s * T * k = (2 * s) * (T * k)
      BY <1>1, <3>1
    <3>5. T * k \in Nat /\ 2 * s \in Nat
      BY <1>1, <3>1
    <3>6. (2 * s) * (T * k) <= (2 * s) * m
      BY <3>2, <3>5, <1>2, ProductsGrow
    <3>7. e * b <= (2 * s) * m
      BY <3>3, <3>4, <3>5, <3>6, <1>1, <1>2, <3>1
    <3>8. n * b <= (m + e) * b
      BY <1>1, <1>2, <3>1, ProductsGrow
    <3>9. (m + e) * b = m * b + e * b
      BY <1>1, <1>2, <3>1
    <3>10. m * b + (2 * s) * m = m * (100 + s)
      BY <1>1, <1>2
    <3>11. /\ n * b \in Int /\ m * b \in Int /\ e * b \in Int /\ (2 * s) * m \in Int
           /\ (m + e) * b \in Int
      BY <1>1, <1>2, <3>1
    <3>12. n * b <= m * (100 + s)
      BY <3>7, <3>8, <3>9, <3>10, <3>11
    <3> QED BY <3>12
  <2> QED BY <2>1, <2>2
<1>7. Unrounded(l, stock - 1, "stationBuys") = l.base * (n * (100 - s))
  <2>1. Unrounded(l, stock - 1, "stationBuys") = l.base * n * (100 - s)
    BY DEF Unrounded, Factor, n, s
  <2>2. ASSUME NEW x \in Int, NEW y \in Int, NEW z \in Int PROVE x * y * z = x * (y * z)
    OBVIOUS
  <2> DEFINE b == 100 - s
  <2>3. b \in Int /\ l.base \in Int /\ n \in Int
    BY <1>1, <1>2
  <2>4. Unrounded(l, stock - 1, "stationBuys") = l.base * n * b
    BY <2>1
  <2> HIDE DEF b
  <2>5. Unrounded(l, stock - 1, "stationBuys") = l.base * (n * b)
    BY <2>2, <2>3, <2>4
  <2> QED BY <2>5 DEF b
<1>8. Unrounded(l, stock, "stationSells") = l.base * (m * (100 + s))
  <2>1. Unrounded(l, stock, "stationSells") = l.base * m * (100 + s)
    BY DEF Unrounded, Factor, m, s
  <2> QED BY <2>1, <1>1, <1>2
<1>9. n * (100 - s) \in Int /\ m * (100 + s) \in Int
  BY <1>1, <1>2
<1>10. l.base * (n * (100 - s)) <= l.base * (m * (100 + s))
  BY <1>1, <1>6, <1>9, ProductsGrow
<1>11. Unrounded(l, stock - 1, "stationBuys") <= Unrounded(l, stock, "stationSells")
  BY <1>7, <1>8, <1>10
<1> DEFINE p == Rounded(l, stock - 1, "stationBuys")
           r == Rounded(l, stock, "stationSells")
<1>12. p \in Nat /\ r \in Nat /\ p <= r
  <2>1. stock - 1 \in Int
    OBVIOUS
  <2> QED BY <1>11, <2>1, UnroundedType, DivisorType, RoundDivType DEF Rounded
<1>13. stock - 1 \in Int
  OBVIOUS
<1> HIDE DEF p, r
<1>14. Max({1, p}) <= Max({1, r})
  BY <1>12, MaxOfTwo
<1> QED BY <1>13, <1>14, QuoteUnfolds DEF p, r

\* The price of a fixed listing does not depend on the stock, and that of any
\* listing stands still from twice its target on.
LEMMA PriceStandsStill ==
  ASSUME NEW l \in Listings, NEW stock \in Int, NEW other \in Int, NEW side,
         l.fixed \/ (stock >= 2 * l.target /\ other >= 2 * l.target)
  PROVE  UnitQuote(l, stock, side) = UnitQuote(l, other, side)
<1>1. ScarcityMultiplier(l, stock) = ScarcityMultiplier(l, other)
  <2>1. CASE l.fixed
    BY <2>1, MultiplierUnfolds
  <2>2. CASE ~l.fixed
    <3>1. Scarcity(l, stock) = Scarcity(l, other)
      BY <2>2, ScarcityType
    <3> QED BY <2>2, <3>1, MultiplierUnfolds
  <2> QED BY <2>1, <2>2
<1>2. Rounded(l, stock, side) = Rounded(l, other, side)
  BY <1>1 DEF Rounded, Unrounded
<1>3. UnitQuote(l, stock, side) = Max({1, Rounded(l, stock, side)})
  BY QuoteUnfolds
<1>4. UnitQuote(l, other, side) = Max({1, Rounded(l, other, side)})
  BY QuoteUnfolds
<1> QED BY <1>2, <1>3, <1>4

-----------------------------------------------------------------------------
(* Bulk quotes. *)

Prices(l, stock, side, q) == [n \in 1..q |-> QuoteAfter(l, stock, side, n - 1)]

LEMMA PricesType ==
  ASSUME NEW l \in Listings, NEW stock \in Int, NEW side, NEW q \in Nat
  PROVE  /\ Prices(l, stock, side, q) \in Seq(Nat) /\ Prices(l, stock, side, q) \in Seq(Int)
         /\ Len(Prices(l, stock, side, q)) = q
         /\ \A n \in 1..q : /\ Prices(l, stock, side, q)[n] = QuoteAfter(l, stock, side, n - 1)
                            /\ QuoteAfter(l, stock, side, n - 1) \in Nat
<1>1. ASSUME NEW n \in 1..q PROVE QuoteAfter(l, stock, side, n - 1) \in Nat
  <2>1. stock - (n - 1) \in Int /\ stock + (n - 1) \in Int
    OBVIOUS
  <2> QED BY <2>1, QuoteType DEF QuoteAfter
<1>2. /\ Prices(l, stock, side, q) \in [1..q -> Nat]
      /\ \A n \in 1..q : Prices(l, stock, side, q)[n] = QuoteAfter(l, stock, side, n - 1)
  BY <1>1 DEF Prices
<1> DEFINE p == Prices(l, stock, side, q)
<1> HIDE DEF p
<1>3. p \in Seq(Nat) /\ Len(p) = q
  BY <1>2 DEF p
<1>4. p \in Seq(Int)
  BY <1>3
<1> QED BY <1>1, <1>2, <1>3, <1>4 DEF p

LEMMA UnitByUnitType ==
  ASSUME NEW l \in Listings, NEW stock \in Int, NEW side, NEW q \in Nat
  PROVE  UnitByUnit(l, stock, side, q) \in Nat
<1>1. UnitByUnit(l, stock, side, q) = Total(Prices(l, stock, side, q))
  BY DEF UnitByUnit, Prices
<1> QED BY <1>1, PricesType, TotalOfNaturals

\* No unit, and one more unit after the others.
LEMMA UnitByUnitGrows ==
  ASSUME NEW l \in Listings, NEW stock \in Int, NEW side, NEW q \in Nat
  PROVE  /\ UnitByUnit(l, stock, side, 0) = 0
         /\ UnitByUnit(l, stock, side, q + 1) =
              UnitByUnit(l, stock, side, q) + QuoteAfter(l, stock, side, q)
<1> DEFINE p == Prices(l, stock, side, q)
           r == Prices(l, stock, side, q + 1)
           z == Prices(l, stock, side, 0)
<1>1. /\ UnitByUnit(l, stock, side, q) = Total(p)
      /\ UnitByUnit(l, stock, side, q + 1) = Total(r)
      /\ UnitByUnit(l, stock, side, 0) = Total(z)
  BY DEF UnitByUnit, Prices
<1>2. q + 1 \in Nat
  OBVIOUS
<1>3. /\ p \in Seq(Int) /\ Len(p) = q /\ r \in Seq(Int) /\ Len(r) = q + 1
      /\ Len(z) = 0
      /\ \A n \in 1..q : p[n] = QuoteAfter(l, stock, side, n - 1)
      /\ \A n \in 1..(q + 1) : r[n] = QuoteAfter(l, stock, side, n - 1)
  BY <1>2, PricesType
<1> HIDE DEF p, r, z
<1>4. \A i \in 1..Len(p) : r[i] = p[i]
  BY <1>3
<1>5. r[Len(r)] = QuoteAfter(l, stock, side, q)
  <2>1. q + 1 \in 1..(q + 1) /\ (q + 1) - 1 = q
    OBVIOUS
  <2> QED BY <1>3, <2>1
<1>6. Total(r) = Total(p) + r[Len(r)]
  BY <1>3, <1>4, TotalOfOneMore
<1>7. Total(z) = 0
  BY <1>3, TotalOfNone
<1> QED BY <1>1, <1>5, <1>6, <1>7

\* The first unit, and the others at the stock it leaves.
LEMMA UnitByUnitStarts ==
  ASSUME NEW l \in Listings, NEW stock \in Int, NEW q \in Nat
  PROVE  UnitByUnit(l, stock, "stationBuys", q + 1) =
           UnitByUnit(l, stock + 1, "stationBuys", q) + UnitQuote(l, stock, "stationBuys")
<1> DEFINE p == Prices(l, stock, "stationBuys", q + 1)
           r == Prices(l, stock + 1, "stationBuys", q)
<1>1. /\ UnitByUnit(l, stock, "stationBuys", q + 1) = Total(p)
      /\ UnitByUnit(l, stock + 1, "stationBuys", q) = Total(r)
  BY DEF UnitByUnit, Prices
<1>2. q + 1 \in Nat /\ stock + 1 \in Int
  OBVIOUS
<1>3. /\ p \in Seq(Int) /\ Len(p) = q + 1 /\ r \in Seq(Int) /\ Len(r) = q
      /\ \A n \in 1..q : r[n] = QuoteAfter(l, stock + 1, "stationBuys", n - 1)
      /\ \A n \in 1..(q + 1) : p[n] = QuoteAfter(l, stock, "stationBuys", n - 1)
  BY <1>2, PricesType
<1> HIDE DEF p, r
<1>4. ASSUME NEW j \in 1..Len(r) PROVE r[j] = p[j + 1]
  <2>1. /\ j \in 1..q /\ j + 1 \in 1..(q + 1)
        /\ (stock + 1) + (j - 1) = stock + ((j + 1) - 1)
    BY <1>3
  <2>2. /\ r[j] = UnitQuote(l, (stock + 1) + (j - 1), "stationBuys")
        /\ p[j + 1] = UnitQuote(l, stock + ((j + 1) - 1), "stationBuys")
    BY <1>3, <2>1 DEF QuoteAfter
  <2> QED BY <2>1, <2>2
<1>5. p[1] = UnitQuote(l, stock, "stationBuys")
  <2>1. 1 \in 1..(q + 1) /\ stock + (1 - 1) = stock
    OBVIOUS
  <2> QED BY <1>3, <2>1 DEF QuoteAfter
<1>6. Total(p) = Total(r) + p[1]
  <2>1. 1 \in 1..Len(p) /\ Len(r) + 1 = Len(p) /\ \A j \in 1..(1 - 1) : r[j] = p[j]
    BY <1>3
  <2> QED BY <1>3, <1>4, <2>1, TotalOfOneLess
<1> QED BY <1>1, <1>5, <1>6

\* Units of one price.
LEMMA UnitByUnitOfOnePrice ==
  ASSUME NEW l \in Listings, NEW stock \in Int, NEW side, NEW q \in Nat,
         \A n \in 0..(q - 1) : QuoteAfter(l, stock, side, n) = UnitQuote(l, stock, side)
  PROVE  UnitByUnit(l, stock, side, q) = q * UnitQuote(l, stock, side)
<1> DEFINE u == UnitQuote(l, stock, side)
           W == {n \in 0..q : UnitByUnit(l, stock, side, n) # n * u}
<1>1. u \in Nat
  BY QuoteType
<1>2. 0 \notin W
  BY <1>1, UnitByUnitGrows
<1>3. ASSUME NEW n \in 1..q, n \in W PROVE n - 1 \in W
  <2>1. n - 1 \in Nat /\ (n - 1) + 1 = n /\ n - 1 \in 0..(q - 1) /\ n - 1 \in 0..q
    OBVIOUS
  <2>2. UnitByUnit(l, stock, side, (n - 1) + 1) = UnitByUnit(l, stock, side, n - 1) + u
    BY <2>1, UnitByUnitGrows
  <2>3. (n - 1) * u + u = n * u
    BY <1>1
  <2>4. UnitByUnit(l, stock, side, n) # n * u
    BY <1>3
  <2>5. UnitByUnit(l, stock, side, n) = UnitByUnit(l, stock, side, n - 1) + u
    BY <2>1, <2>2
  <2> HIDE DEF u, W
  <2>6. UnitByUnit(l, stock, side, n - 1) # (n - 1) * u
    BY <2>3, <2>4, <2>5
  <2> QED BY <2>1, <2>6 DEF W
<1>4. W \subseteq 0..q
  OBVIOUS
<1> HIDE DEF u, W
<1>5. W = {}
  BY <1>2, <1>3, <1>4, UpTo
<1>6. q \in 0..q
  OBVIOUS
<1> QED BY <1>5, <1>6 DEF W, u

\* What a station sells for one price before it is no longer flooded, and then
\* the others.
LEMMA SalesSplit ==
  ASSUME NEW l \in Listings, NEW stock \in Nat, NEW q \in Nat, NEW k \in 0..q,
         \A n \in 0..(k - 1) :
           QuoteAfter(l, stock, "stationSells", n) = UnitQuote(l, stock, "stationSells")
  PROVE  UnitByUnit(l, stock, "stationSells", q) =
           k * UnitQuote(l, stock, "stationSells") + UnitByUnit(l, stock - k, "stationSells", q - k)
<1> DEFINE u == UnitQuote(l, stock, "stationSells")
           Sum(n) == UnitByUnit(l, stock, "stationSells", n)
           Rest(n) == UnitByUnit(l, stock - k, "stationSells", n)
           L == q - k
           W == {n \in 0..L : Sum(k + n) # k * u + Rest(n)}
<1>1. u \in Nat /\ k \in Nat /\ L \in Nat /\ stock - k \in Int
  BY QuoteType
<1>2. Sum(k) = k * u
  BY <1>1, UnitByUnitOfOnePrice
<1>3. ASSUME NEW n \in Nat PROVE Sum(k + n) \in Nat /\ Rest(n) \in Nat
  <2>1. k + n \in Nat
    BY <1>1
  <2> QED BY <1>1, <2>1, UnitByUnitType
<1>4. k * u \in Nat
  BY <1>1, Products
<1>5. 0 \notin W
  <2>1. Rest(0) = 0
    BY <1>1, UnitByUnitGrows
  <2>2. k + 0 = k
    BY <1>1
  <2> QED BY <1>2, <1>4, <2>1, <2>2
<1>6. ASSUME NEW n \in 1..L, n \in W PROVE n - 1 \in W
  <2>1. /\ n - 1 \in Nat /\ (n - 1) + 1 = n /\ n - 1 \in 0..L
        /\ k + (n - 1) \in Nat /\ (k + (n - 1)) + 1 = k + n
        /\ stock - (k + (n - 1)) = (stock - k) - (n - 1)
    BY <1>1
  <2>2. Sum((k + (n - 1)) + 1) = Sum(k + (n - 1)) + QuoteAfter(l, stock, "stationSells", k + (n - 1))
    BY <2>1, UnitByUnitGrows
  <2>3. Rest((n - 1) + 1) = Rest(n - 1) + QuoteAfter(l, stock - k, "stationSells", n - 1)
    BY <1>1, <2>1, UnitByUnitGrows
  <2> DEFINE c == QuoteAfter(l, stock, "stationSells", k + (n - 1))
             d == QuoteAfter(l, stock - k, "stationSells", n - 1)
  <2>4. c = d
    BY <2>1 DEF QuoteAfter
  <2>5. c \in Nat
    <3>1. stock - (k + (n - 1)) \in Int
      BY <2>1
    <3> QED BY <3>1, QuoteType DEF QuoteAfter
  <2>6. Sum(k + n) # k * u + Rest(n)
    BY <1>6
  <2>7. Sum(k + n) = Sum(k + (n - 1)) + c /\ Rest(n) = Rest(n - 1) + c
    BY <2>1, <2>2, <2>3, <2>4
  <2>8. Sum(k + (n - 1)) \in Nat /\ Rest(n - 1) \in Nat
    BY <2>1, <1>3
  <2> DEFINE x == Sum(k + (n - 1))
             y == Rest(n - 1)
             z == k * u
  <2>9. x + c # z + (y + c) /\ x \in Nat /\ y \in Nat /\ z \in Nat
    BY <1>4, <2>6, <2>7, <2>8
  <2> HIDE DEF c, d, x, y, z, W
  <2>10. x # z + y
    BY <2>5, <2>9
  <2> QED BY <2>1, <2>10 DEF x, y, z, W
<1>7. W \subseteq 0..L
  OBVIOUS
<1> HIDE DEF W
<1>8. W = {}
  BY <1>1, <1>5, <1>6, <1>7, UpTo
<1>9. L \in 0..L /\ k + L = q
  BY <1>1
<1>10. Sum(k + L) = k * u + Rest(L)
  BY <1>8, <1>9 DEF W
<1> QED BY <1>9, <1>10

\* What a station buys one by one until it is flooded, and then for one price.
LEMMA PurchasesSplit ==
  ASSUME NEW l \in Listings, NEW stock \in Nat, NEW q \in Nat, NEW k \in 0..q,
         \A n \in k..(q - 1) :
           QuoteAfter(l, stock, "stationBuys", n) = UnitQuote(l, stock + k, "stationBuys")
  PROVE  UnitByUnit(l, stock, "stationBuys", q) =
           UnitByUnit(l, stock, "stationBuys", k) + (q - k) * UnitQuote(l, stock + k, "stationBuys")
<1> DEFINE u == UnitQuote(l, stock + k, "stationBuys")
           Sum(n) == UnitByUnit(l, stock, "stationBuys", n)
           L == q - k
           W == {n \in 0..L : Sum(k + n) # Sum(k) + n * u}
<1>1. k \in Nat /\ L \in Nat /\ stock + k \in Int
  OBVIOUS
<1>2. u \in Nat
  BY <1>1, QuoteType
<1>3. ASSUME NEW n \in Nat PROVE Sum(k + n) \in Nat
  <2>1. k + n \in Nat
    BY <1>1
  <2> QED BY <2>1, UnitByUnitType
<1>4. Sum(k) \in Nat
  BY <1>1, UnitByUnitType
<1>5. 0 \notin W
  <2>1. k + 0 = k /\ 0 * u = 0
    BY <1>1, <1>2
  <2> HIDE DEF u
  <2> QED BY <1>4, <2>1
<1>6. ASSUME NEW n \in 1..L, n \in W PROVE n - 1 \in W
  <2>1. /\ n - 1 \in Nat /\ n - 1 \in 0..L
        /\ k + (n - 1) \in Nat /\ (k + (n - 1)) + 1 = k + n
        /\ k + (n - 1) \in k..(q - 1)
    BY <1>1
  <2>2. Sum((k + (n - 1)) + 1) = Sum(k + (n - 1)) + QuoteAfter(l, stock, "stationBuys", k + (n - 1))
    BY <2>1, UnitByUnitGrows
  <2>3. QuoteAfter(l, stock, "stationBuys", k + (n - 1)) = u
    BY <2>1
  <2>4. Sum(k + n) # Sum(k) + n * u
    BY <1>6
  <2>5. Sum(k + n) = Sum(k + (n - 1)) + u
    BY <2>1, <2>2, <2>3
  <2>6. Sum(k + (n - 1)) \in Nat
    BY <2>1, <1>3
  <2>7. n * u = (n - 1) * u + u /\ (n - 1) * u \in Int
    BY <1>2
  <2> DEFINE x == Sum(k + (n - 1))
             y == Sum(k)
             z == (n - 1) * u
  <2>8. x + u # y + (z + u) /\ x \in Nat /\ y \in Nat /\ z \in Int
    BY <1>4, <2>4, <2>5, <2>6, <2>7
  <2> HIDE DEF u, x, y, z, W
  <2>9. x # y + z
    BY <1>2, <2>8
  <2> QED BY <2>1, <2>9 DEF x, y, z, W
<1>7. W \subseteq 0..L
  OBVIOUS
<1> HIDE DEF W
<1>8. W = {}
  BY <1>1, <1>5, <1>6, <1>7, UpTo
<1>9. L \in 0..L /\ k + L = q
  BY <1>1
<1>10. Sum(k + L) = Sum(k) + L * u
  BY <1>8, <1>9 DEF W
<1> QED BY <1>9, <1>10

\* The blocks of one price are priced as their units are.
LEMMA BulkIsUnitByUnit ==
  ASSUME NEW l \in Listings, NEW stock \in Nat, NEW q \in Nat
  PROVE  /\ BulkQuote(l, stock, "stationBuys", q) = UnitByUnit(l, stock, "stationBuys", q)
         /\ BulkQuote(l, stock, "stationSells", q) = UnitByUnit(l, stock, "stationSells", q)
<1>1. l.target \in Nat /\ l.target > 0 /\ l.fixed \in BOOLEAN
  BY ListingType
<1>2. "stationSells" # "stationBuys"
  OBVIOUS
<1>3. CASE l.fixed
  <2>1. ASSUME NEW side
        PROVE  /\ BulkQuote(l, stock, side, q) = q * UnitQuote(l, stock, side)
               /\ UnitByUnit(l, stock, side, q) = q * UnitQuote(l, stock, side)
    <3>1. BulkQuote(l, stock, side, q) = q * UnitQuote(l, stock, side)
      BY <1>3 DEF BulkQuote
    <3>2. ASSUME NEW n \in 0..(q - 1)
          PROVE  QuoteAfter(l, stock, side, n) = UnitQuote(l, stock, side)
      <4>1. stock - n \in Int /\ stock + n \in Int /\ stock \in Int
        OBVIOUS
      <4> QED BY <1>3, <4>1, PriceStandsStill DEF QuoteAfter
    <3>3. UnitByUnit(l, stock, side, q) = q * UnitQuote(l, stock, side)
      BY <3>2, UnitByUnitOfOnePrice
    <3> QED BY <3>1, <3>3
  <2> QED BY <2>1
<1>4. CASE ~l.fixed
  <2> DEFINE k == FloodedUnits(l, stock, q)
             j == UnitsToFlood(l, stock, q)
  <2>1. BulkQuote(l, stock, "stationSells", q) =
          k * UnitQuote(l, stock, "stationSells") + UnitByUnit(l, stock - k, "stationSells", q - k)
    BY <1>2, <1>4 DEF BulkQuote
  <2>2. BulkQuote(l, stock, "stationBuys", q) =
          UnitByUnit(l, stock, "stationBuys", j) + (q - j) * UnitQuote(l, stock + j, "stationBuys")
    BY <1>2, <1>4 DEF BulkQuote
  <2>3. k \in 0..q /\ (k > 0 => k <= stock - 2 * l.target + 1)
    <3> DEFINE t == stock - 2 * l.target + 1
               m == Min({q, t})
    <3>1. t \in Int
      BY <1>1
    <3>2. k = Max({0, m})
      BY DEF FloodedUnits
    <3> HIDE DEF t
    <3>3. m = IF q <= t THEN q ELSE t
      BY <3>1, MinOfTwo
    <3> HIDE DEF m, k
    <3>4. Max({0, m}) = IF 0 <= m THEN m ELSE 0
      BY <3>1, <3>3, MaxOfTwo
    <3> QED BY <3>1, <3>2, <3>3, <3>4 DEF t
  <2>4. j \in 0..q /\ (j < q => j >= 2 * l.target - stock)
    <3> DEFINE t == 2 * l.target - stock
               m == Min({q, t})
    <3>1. t \in Int
      BY <1>1
    <3>2. j = Max({0, m})
      BY DEF UnitsToFlood
    <3> HIDE DEF t
    <3>3. m = IF q <= t THEN q ELSE t
      BY <3>1, MinOfTwo
    <3> HIDE DEF m, j
    <3>4. Max({0, m}) = IF 0 <= m THEN m ELSE 0
      BY <3>1, <3>3, MaxOfTwo
    <3> QED BY <3>1, <3>2, <3>3, <3>4 DEF t
  <2> HIDE DEF k, j
  <2>5. ASSUME NEW n \in 0..(k - 1)
        PROVE  QuoteAfter(l, stock, "stationSells", n) = UnitQuote(l, stock, "stationSells")
    <3>1. stock - n \in Int /\ stock \in Int /\ stock >= 2 * l.target /\ stock - n >= 2 * l.target
      BY <1>1, <2>3
    <3> QED BY <3>1, PriceStandsStill DEF QuoteAfter
  <2>6. ASSUME NEW n \in j..(q - 1)
        PROVE  QuoteAfter(l, stock, "stationBuys", n) = UnitQuote(l, stock + j, "stationBuys")
    <3>1. /\ stock + n \in Int /\ stock + j \in Int
          /\ stock + n >= 2 * l.target /\ stock + j >= 2 * l.target
      BY <1>1, <2>4
    <3> QED BY <1>2, <3>1, PriceStandsStill DEF QuoteAfter
  <2>7. UnitByUnit(l, stock, "stationSells", q) =
          k * UnitQuote(l, stock, "stationSells") + UnitByUnit(l, stock - k, "stationSells", q - k)
    BY <2>3, <2>5, SalesSplit
  <2>8. UnitByUnit(l, stock, "stationBuys", q) =
          UnitByUnit(l, stock, "stationBuys", j) + (q - j) * UnitQuote(l, stock + j, "stationBuys")
    BY <2>4, <2>6, PurchasesSplit
  <2> QED BY <2>1, <2>2, <2>7, <2>8
<1> QED BY <1>1, <1>3, <1>4

\* Units bought and sold back, the last one first.
LEMMA NoProfitOnMany ==
  ASSUME NEW l \in Listings, IsHedged(l), NEW stock \in Nat, NEW q \in 0..stock
  PROVE  UnitByUnit(l, stock - q, "stationBuys", q) <= UnitByUnit(l, stock, "stationSells", q)
<1> DEFINE Back(n) == UnitByUnit(l, stock - n, "stationBuys", n)
           Sold(n) == UnitByUnit(l, stock, "stationSells", n)
           W == {n \in 0..q : ~(Back(n) <= Sold(n))}
<1>1. ASSUME NEW n \in 0..q PROVE Back(n) \in Nat /\ Sold(n) \in Nat
  <2>1. n \in Nat /\ stock - n \in Int /\ stock \in Int
    OBVIOUS
  <2> QED BY <2>1, UnitByUnitType
<1>2. 0 \notin W
  <2>1. stock - 0 = stock /\ stock \in Int /\ 0 \in Nat
    OBVIOUS
  <2>2. UnitByUnit(l, stock, "stationBuys", 0) = 0 /\ UnitByUnit(l, stock, "stationSells", 0) = 0
    BY <2>1, UnitByUnitGrows
  <2>3. Back(0) = 0 /\ Sold(0) = 0
    BY <2>1, <2>2
  <2> QED BY <2>3
<1>3. ASSUME NEW n \in 1..q, n \in W PROVE n - 1 \in W
  <2> DEFINE m == n - 1
  <2>1. /\ m \in Nat /\ m \in 0..q /\ m + 1 = n /\ n \in 0..q
        /\ stock - n \in Int /\ (stock - n) + 1 = stock - m /\ stock - m \in Int
        /\ (stock - m) - 1 = stock - n
    OBVIOUS
  <2>2. ~(Back(n) <= Sold(n))
    BY <1>3
  <2> HIDE DEF m
  <2>3. UnitByUnit(l, stock - n, "stationBuys", m + 1) =
          UnitByUnit(l, (stock - n) + 1, "stationBuys", m) + UnitQuote(l, stock - n, "stationBuys")
    BY <2>1, UnitByUnitStarts
  <2>4. Back(n) = Back(m) + UnitQuote(l, stock - n, "stationBuys")
    BY <2>1, <2>3
  <2>5. UnitByUnit(l, stock, "stationSells", m + 1) =
          UnitByUnit(l, stock, "stationSells", m) + QuoteAfter(l, stock, "stationSells", m)
    BY <2>1, UnitByUnitGrows
  <2>6. Sold(n) = Sold(m) + UnitQuote(l, stock - m, "stationSells")
    BY <2>1, <2>5 DEF QuoteAfter
  <2>7. UnitQuote(l, stock - n, "stationBuys") <= UnitQuote(l, stock - m, "stationSells")
    BY <2>1, NoProfitOnOne
  <2>8. UnitQuote(l, stock - n, "stationBuys") \in Nat /\ UnitQuote(l, stock - m, "stationSells") \in Nat
    BY <2>1, QuoteType
  <2>9. Back(m) \in Nat /\ Sold(m) \in Nat
    BY <2>1, <1>1
  <2> DEFINE a == Back(m)
             b == Sold(m)
             x == UnitQuote(l, stock - n, "stationBuys")
             y == UnitQuote(l, stock - m, "stationSells")
  <2>10. /\ ~(a + x <= b + y) /\ x <= y /\ a \in Nat /\ b \in Nat /\ x \in Nat /\ y \in Nat
    BY <2>2, <2>4, <2>6, <2>7, <2>8, <2>9
  <2> HIDE DEF a, b, x, y, W
  <2>11. ~(a <= b)
    BY <2>10
  <2>12. m \in W
    BY <2>1, <2>11 DEF W, a, b
  <2> QED BY <2>12 DEF m
<1>4. W \subseteq 0..q
  OBVIOUS
<1> HIDE DEF W
<1>5. q \in Nat /\ q \in 0..q
  OBVIOUS
<1>6. W = {}
  BY <1>2, <1>3, <1>4, <1>5, UpTo
<1> QED BY <1>5, <1>6 DEF W

\* Every hedged listing is fair, whatever its stock and however much is traded.
THEOREM HedgedIsFair ==
  ASSUME NEW l \in Listings, IsHedged(l), NEW stock \in Nat, NEW q \in Nat
  PROVE  IsFair(l, stock, q)
<1>1. BulkQuote(l, stock, "stationBuys", q) = UnitByUnit(l, stock, "stationBuys", q)
  BY BulkIsUnitByUnit
<1>2. ASSUME q <= stock
      PROVE  /\ BulkQuote(l, stock, "stationSells", q) = UnitByUnit(l, stock, "stationSells", q)
             /\ BulkQuote(l, stock - q, "stationBuys", q) <= BulkQuote(l, stock, "stationSells", q)
  <2>1. stock - q \in Nat /\ q \in 0..stock
    BY <1>2
  <2>2. BulkQuote(l, stock, "stationSells", q) = UnitByUnit(l, stock, "stationSells", q)
    BY BulkIsUnitByUnit
  <2>3. BulkQuote(l, stock - q, "stationBuys", q) = UnitByUnit(l, stock - q, "stationBuys", q)
    BY <2>1, BulkIsUnitByUnit
  <2>4. UnitByUnit(l, stock - q, "stationBuys", q) <= UnitByUnit(l, stock, "stationSells", q)
    BY <2>1, NoProfitOnMany
  <2> QED BY <2>2, <2>3, <2>4
<1> QED BY <1>1, <1>2 DEF IsFair

-----------------------------------------------------------------------------
(* Stacks. *)

LEMMA StackType ==
  ASSUME NEW s \in Stacks
  PROVE  /\ s.item \in Items /\ s.qty \in Nat /\ s.qty > 0 /\ s.inv \in Places
         /\ s.state \in States /\ s.marked \in BOOLEAN
         /\ s = [item |-> s.item, qty |-> s.qty, inv |-> s.inv, state |-> s.state,
                 marked |-> s.marked]
BY DEF Stacks

LEMMA LeastPlace ==
  ASSUME NEW stacks \in Seq(Stacks), NEW T, T \subseteq DOMAIN stacks, T # {}
  PROVE  Min(T) \in T /\ Min(T) \in DOMAIN stacks /\ Min(T) \in Nat /\ Min(T) > 0
<1>1. DOMAIN stacks = 1..Len(stacks)
  OBVIOUS
<1>2. T \subseteq Nat
  BY <1>1
<1>3. Min(T) \in T
  BY <1>2, MinOfNaturals
<1> QED BY <1>1, <1>3

LEMMA RemovedType ==
  ASSUME NEW stacks \in Seq(Stacks), NEW i \in DOMAIN stacks
  PROVE  /\ RemoveAt(stacks, i) \in Seq(Stacks)
         /\ Len(RemoveAt(stacks, i)) + 1 = Len(stacks)
         /\ \A j \in 1..(i - 1) : RemoveAt(stacks, i)[j] = stacks[j]
         /\ \A j \in i..(Len(stacks) - 1) : RemoveAt(stacks, i)[j] = stacks[j + 1]
<1> DEFINE p == SubSeq(stacks, 1, i - 1)
           r == SubSeq(stacks, i + 1, Len(stacks))
<1>1. i \in 1..Len(stacks) /\ Len(stacks) \in Nat
  OBVIOUS
<1>2. /\ p \in Seq(Stacks) /\ Len(p) = i - 1 /\ \A j \in 1..(i - 1) : p[j] = stacks[j]
  BY <1>1, SubSeqProperties
<1>3. /\ r \in Seq(Stacks) /\ Len(r) = Len(stacks) - i
      /\ \A j \in 1..(Len(stacks) - i) : r[j] = stacks[(i + 1) + j - 1]
  BY <1>1, SubSeqProperties
<1>4. RemoveAt(stacks, i) = p \o r
  BY DEF RemoveAt
<1> HIDE DEF p, r
<1>5. /\ p \o r \in Seq(Stacks) /\ Len(p \o r) = Len(p) + Len(r)
      /\ \A j \in 1..(Len(p) + Len(r)) : (p \o r)[j] = IF j <= Len(p) THEN p[j] ELSE r[j - Len(p)]
  BY <1>2, <1>3, ConcatProperties
<1>6. ASSUME NEW j \in i..(Len(stacks) - 1) PROVE (p \o r)[j] = stacks[j + 1]
  <2> DEFINE n == Len(stacks)
             k == Len(p)
             m == Len(r)
  <2>0. n \in Nat /\ i \in 1..n /\ k = i - 1 /\ m = n - i /\ j \in i..(n - 1)
    BY <1>1, <1>2, <1>3
  <2> HIDE DEF n, k, m
  <2>1. /\ j \in 1..(k + m) /\ ~(j <= k) /\ j - k \in 1..(n - i)
        /\ (i + 1) + (j - k) - 1 = j + 1
    <3>1. /\ n \in Nat /\ i \in Int /\ j \in Int /\ 1 <= i /\ i <= n /\ i <= j /\ j <= n - 1
          /\ k = i - 1 /\ m = n - i
      BY <2>0
    <3>2. j - k = j - i + 1 /\ k + m = n - 1
      BY SMTT(30), <3>1
    <3>3. (i + 1) + (j - k) - 1 = j + 1
      BY SMTT(30), <3>1
    <3>4. j \in 1..(k + m) /\ j - k \in 1..(n - i)
      BY <3>1
    <3> QED BY <3>1, <3>3, <3>4
  <2> USE DEF n, k, m
  <2>2. (p \o r)[j] = r[j - Len(p)]
    BY <1>5, <2>1
  <2> QED BY <1>3, <2>1, <2>2
<1>7. ASSUME NEW j \in 1..(i - 1) PROVE (p \o r)[j] = stacks[j]
  <2>1. j \in 1..(Len(p) + Len(r)) /\ j <= Len(p)
    BY <1>1, <1>2, <1>3
  <2> QED BY <1>2, <1>5, <2>1
<1>8. Len(p \o r) + 1 = Len(stacks)
  <2> DEFINE n == Len(stacks)
             k == Len(p)
             m == Len(r)
             c == Len(p \o r)
  <2>1. n \in Nat /\ i \in 1..n /\ k = i - 1 /\ m = n - i /\ c = k + m
    BY <1>1, <1>2, <1>3, <1>5
  <2> HIDE DEF n, k, m, c
  <2>2. c + 1 = n
    BY <2>1
  <2> QED BY <2>2 DEF c, n
<1> QED BY <1>4, <1>5, <1>6, <1>7, <1>8

\* A stack with another quantity.
LEMMA OtherQuantity ==
  ASSUME NEW s \in Stacks, NEW q \in Nat \ {0}
  PROVE  [s EXCEPT !.qty = q] \in Stacks
BY StackType DEF Stacks

LEMMA ReplacedType ==
  ASSUME NEW stacks \in Seq(Stacks), NEW i, NEW s \in Stacks
  PROVE  [stacks EXCEPT ![i] = s] \in Seq(Stacks)
<1> DEFINE n == Len(stacks)
<1>1. n \in Nat /\ stacks \in [1..n -> Stacks]
  OBVIOUS
<1> HIDE DEF n
<1>2. [stacks EXCEPT ![i] = s] \in [1..n -> Stacks]
  BY <1>1
<1> QED BY <1>1, <1>2, SeqDef

LEMMA TakeType ==
  ASSUME NEW stacks \in Seq(Stacks), NEW i \in DOMAIN stacks, NEW q \in Nat \ {0}, q <= stacks[i].qty
  PROVE  Take(stacks, i, q) \in Seq(Stacks)
<1>1. CASE q = stacks[i].qty
  BY <1>1, RemovedType DEF Take
<1>2. CASE q # stacks[i].qty
  <2> DEFINE s == stacks[i]
             left == [s EXCEPT !.qty = s.qty - q]
  <2>1. s \in Stacks
    OBVIOUS
  <2>2. s.qty \in Nat /\ q <= s.qty /\ q # s.qty
    BY <1>2, <2>1, StackType
  <2>3. s.qty - q \in Nat \ {0}
    BY <2>2
  <2>4. Take(stacks, i, q) = [stacks EXCEPT ![i] = left]
    BY <1>2 DEF Take
  <2> HIDE DEF s
  <2>5. left \in Stacks
    BY <2>1, <2>3, OtherQuantity
  <2> HIDE DEF left
  <2> QED BY <2>4, <2>5, ReplacedType
<1> QED BY <1>1, <1>2

LEMMA JoinedType ==
  ASSUME NEW s \in Stacks, NEW t \in Stacks
  PROVE  /\ Joined(s, t) \in Stacks /\ Joined(s, t).item = s.item /\ Joined(s, t).inv = s.inv
         /\ Joined(s, t).state = s.state /\ Joined(s, t).qty = s.qty + t.qty
         /\ Joined(s, t).marked = (s.marked \/ t.marked)
<1>1. s.qty + t.qty \in Nat \ {0} /\ (s.marked \/ t.marked) \in BOOLEAN
  BY StackType
<1> DEFINE j == [item |-> s.item, qty |-> s.qty + t.qty, inv |-> s.inv, state |-> s.state,
                 marked |-> s.marked \/ t.marked]
<1>2. Joined(s, t) = j
  <2> DEFINE more == [s EXCEPT !.qty = @ + t.qty]
             k == [item |-> s.item, qty |-> s.qty + t.qty, inv |-> s.inv, state |-> s.state,
                   marked |-> s.marked]
  <2>1. more = k
    BY StackType
  <2>2. Joined(s, t) = [more EXCEPT !.marked = MergedMark(s, t)]
    BY DEF Joined
  <2>3. [k EXCEPT !.marked = s.marked \/ t.marked] = j
    OBVIOUS
  <2> HIDE DEF more, k, j
  <2> QED BY <2>1, <2>2, <2>3 DEF MergedMark
<1>3. j \in Stacks
  BY <1>1, StackType DEF Stacks
<1> QED BY <1>2, <1>3

\* What put() does: it joins the first partner, or comes last.
LEMMA PutCases ==
  ASSUME NEW stacks \in Seq(Stacks), NEW s \in Stacks
  PROVE  \/ /\ Partners(stacks, s) = {}
            /\ Put(stacks, s) = Append(stacks, s)
         \/ \E i \in Partners(stacks, s) :
              /\ i \in DOMAIN stacks
              /\ Put(stacks, s) = [stacks EXCEPT ![i] = Joined(stacks[i], s)]
<1>1. CASE Partners(stacks, s) = {}
  BY <1>1 DEF Put
<1>2. CASE Partners(stacks, s) # {}
  <2>1. Min(Partners(stacks, s)) \in Partners(stacks, s) /\ Min(Partners(stacks, s)) \in DOMAIN stacks
    BY <1>2, LeastPlace DEF Partners
  <2>2. Put(stacks, s) = [stacks EXCEPT ![Min(Partners(stacks, s))] =
                            Joined(stacks[Min(Partners(stacks, s))], s)]
    BY <1>2 DEF Put
  <2> QED BY <2>1, <2>2
<1> QED BY <1>1, <1>2

LEMMA PutType ==
  ASSUME NEW stacks \in Seq(Stacks), NEW s \in Stacks
  PROVE  Put(stacks, s) \in Seq(Stacks)
<1>1. CASE Put(stacks, s) = Append(stacks, s)
  BY <1>1
<1>2. ASSUME NEW i \in DOMAIN stacks, Put(stacks, s) = [stacks EXCEPT ![i] = Joined(stacks[i], s)]
      PROVE  Put(stacks, s) \in Seq(Stacks)
  <2>1. stacks[i] \in Stacks
    OBVIOUS
  <2>2. Joined(stacks[i], s) \in Stacks
    BY <2>1, JoinedType
  <2> QED BY <1>2, <2>2, ReplacedType
<1> QED BY <1>1, <1>2, PutCases

-----------------------------------------------------------------------------
(* Assets. *)

AssetsShape(a) ==
  a = [credits |-> a.credits, active |-> a.active, out |-> a.out, wreck |-> a.wreck,
       ships |-> a.ships, stacks |-> a.stacks]

LEMMA AssetsType ==
  ASSUME NEW a \in Assets
  PROVE  /\ AssetsShape(a) /\ a.credits \in Nat /\ a.active \in Ships \cup {NoOne}
         /\ a.out \in BOOLEAN /\ a.wreck \in BOOLEAN /\ a.ships \in Fleets /\ a.stacks \in Seq(Stacks)
BY DEF Assets, AssetsShape

LEMMA AssetsFromFields ==
  ASSUME NEW a, AssetsShape(a), a.credits \in Nat, a.active \in Ships \cup {NoOne},
         a.out \in BOOLEAN, a.wreck \in BOOLEAN, a.ships \in Fleets, a.stacks \in Seq(Stacks)
  PROVE  a \in Assets
<1> DEFINE b == [credits |-> a.credits, active |-> a.active, out |-> a.out, wreck |-> a.wreck,
                 ships |-> a.ships, stacks |-> a.stacks]
<1>1. b \in Assets
  BY DEF Assets
<1> QED BY <1>1 DEF AssetsShape

\* The same assets but for their stacks.
Restacked(a, b) ==
  /\ b \in Assets /\ b.credits = a.credits /\ b.active = a.active /\ b.out = a.out
  /\ b.wreck = a.wreck /\ b.ships = a.ships

LEMMA OtherStacks ==
  ASSUME NEW a \in Assets, NEW stacks \in Seq(Stacks)
  PROVE  Restacked(a, [a EXCEPT !.stacks = stacks]) /\ [a EXCEPT !.stacks = stacks].stacks = stacks
<1> DEFINE b == [a EXCEPT !.stacks = stacks]
           c == [credits |-> a.credits, active |-> a.active, out |-> a.out, wreck |-> a.wreck,
                 ships |-> a.ships, stacks |-> stacks]
<1>1. b = c
  BY AssetsType DEF AssetsShape
<1>2. c \in Assets
  BY AssetsType DEF Assets
<1> QED BY <1>1, <1>2 DEF Restacked

LEMMA RestackedTwice ==
  ASSUME NEW a, NEW b, NEW c, Restacked(a, b), Restacked(b, c)
  PROVE  Restacked(a, c)
BY DEF Restacked

LEMMA AddType ==
  ASSUME NEW a \in Assets, NEW inv \in Places, NEW item \in Items, NEW q \in Nat \ {0},
         NEW state \in States, NEW marked \in BOOLEAN
  PROVE  Restacked(a, Add(a, inv, item, q, state, marked))
<1> DEFINE s == [item |-> item, qty |-> q, inv |-> inv, state |-> state, marked |-> marked]
           stacks == Put(a.stacks, s)
<1>1. s \in Stacks
  BY DEF Stacks
<1>2. stacks \in Seq(Stacks)
  BY <1>1, AssetsType, PutType
<1>3. Add(a, inv, item, q, state, marked) = [a EXCEPT !.stacks = stacks]
  BY DEF Add
<1> HIDE DEF s, stacks
<1> QED BY <1>2, <1>3, OtherStacks

LEMMA ConsumeType ==
  ASSUME NEW a \in Assets, NEW i \in DOMAIN a.stacks, NEW q \in Nat \ {0}, q <= a.stacks[i].qty
  PROVE  Restacked(a, Consume(a, i, q))
<1> DEFINE stacks == Take(a.stacks, i, q)
<1>1. stacks \in Seq(Stacks)
  BY AssetsType, TakeType
<1>2. Consume(a, i, q) = [a EXCEPT !.stacks = stacks]
  BY DEF Consume
<1> HIDE DEF stacks
<1> QED BY <1>1, <1>2, OtherStacks

\* A stack somewhere else, of another quantity and in another state.
Elsewhere(s, q, inv, state) ==
  [item |-> s.item, qty |-> q, inv |-> inv, state |-> state, marked |-> s.marked]

LEMMA ElsewhereType ==
  ASSUME NEW s \in Stacks, NEW q \in Nat \ {0}, NEW inv \in Places, NEW state \in States
  PROVE  /\ Elsewhere(s, q, inv, state) \in Stacks
         /\ [s EXCEPT !.qty = q, !.inv = inv, !.state = state] = Elsewhere(s, q, inv, state)
<1>1. Elsewhere(s, q, inv, state) \in Stacks
  BY StackType DEF Stacks, Elsewhere
<1> DEFINE b == [s EXCEPT !.qty = q]
           c == [item |-> s.item, qty |-> q, inv |-> s.inv, state |-> s.state, marked |-> s.marked]
           d == [c EXCEPT !.inv = inv]
           e == [item |-> s.item, qty |-> q, inv |-> inv, state |-> s.state, marked |-> s.marked]
<1>2. b = c
  BY StackType
<1>3. d = e
  OBVIOUS
<1>4. [e EXCEPT !.state = state] = Elsewhere(s, q, inv, state)
  BY DEF Elsewhere
<1>5. [s EXCEPT !.qty = q, !.inv = inv, !.state = state] = [[b EXCEPT !.inv = inv] EXCEPT !.state = state]
  OBVIOUS
<1> HIDE DEF b, e
<1> QED BY <1>1, <1>2, <1>3, <1>4, <1>5

\* What move() does: the stack itself goes when it goes whole and meets no
\* partner; else what is taken from it is put there.
LEMMA MoveCases ==
  ASSUME NEW a \in Assets, NEW i \in DOMAIN a.stacks, NEW q \in Nat \ {0}, q <= a.stacks[i].qty,
         NEW inv \in Places, NEW state \in States
  PROVE  /\ Restacked(a, Move(a, i, inv, q, state))
         /\ LET moved == Elsewhere(a.stacks[i], q, inv, state)
                left == Take(a.stacks, i, q)
                b == Move(a, i, inv, q, state)
            IN  /\ moved \in Stacks /\ left \in Seq(Stacks)
                /\ \/ b.stacks = [a.stacks EXCEPT ![i] = moved] /\ q = a.stacks[i].qty
                        /\ Partners(left, moved) = {}
                   \/ b.stacks = Put(left, moved)
<1> DEFINE moved == Elsewhere(a.stacks[i], q, inv, state)
           left == Take(a.stacks, i, q)
           here == [a.stacks EXCEPT ![i] = moved]
           there == Put(left, moved)
           stays == q = a.stacks[i].qty /\ Partners(left, moved) = {}
<1>1. a.stacks \in Seq(Stacks) /\ a.stacks[i] \in Stacks
  BY AssetsType
<1>2. /\ moved \in Stacks
      /\ [a.stacks[i] EXCEPT !.qty = q, !.inv = inv, !.state = state] = moved
  BY ZenonT(60), <1>1, ElsewhereType
<1>3. Move(a, i, inv, q, state) = [a EXCEPT !.stacks = IF stays THEN here ELSE there]
  BY <1>2 DEF Move
<1>4. left \in Seq(Stacks)
  BY <1>1, TakeType
<1> HIDE DEF moved, left
<1>5. here \in Seq(Stacks) /\ there \in Seq(Stacks)
  BY <1>1, <1>2, <1>4, ReplacedType, PutType
<1> HIDE DEF here, there
<1>6. CASE stays
  <2>1. Move(a, i, inv, q, state) = [a EXCEPT !.stacks = here]
    BY <1>3, <1>6
  <2>2. Restacked(a, Move(a, i, inv, q, state)) /\ Move(a, i, inv, q, state).stacks = here
    BY <1>5, <2>1, OtherStacks
  <2> QED BY <1>2, <1>4, <1>6, <2>2 DEF moved, left, here, there
<1>7. CASE ~stays
  <2>1. Move(a, i, inv, q, state) = [a EXCEPT !.stacks = there]
    BY <1>3, <1>7
  <2>2. Restacked(a, Move(a, i, inv, q, state)) /\ Move(a, i, inv, q, state).stacks = there
    BY <1>5, <2>1, OtherStacks
  <2> QED BY <1>2, <1>4, <2>2 DEF moved, left, here, there
<1> QED BY <1>6, <1>7

LEMMA MoveType ==
  ASSUME NEW a \in Assets, NEW i \in DOMAIN a.stacks, NEW q \in Nat \ {0}, q <= a.stacks[i].qty,
         NEW inv \in Places, NEW state \in States
  PROVE  Restacked(a, Move(a, i, inv, q, state))
BY MoveCases

LEMMA SplitType ==
  ASSUME NEW a \in Assets, NEW i \in DOMAIN a.stacks, NEW q \in Nat \ {0}, q < a.stacks[i].qty
  PROVE  Restacked(a, Split(a, i, q))
<1> DEFINE s == [a.stacks[i] EXCEPT !.qty = q]
           left == Take(a.stacks, i, q)
           stacks == Append(left, s)
<1>1. a.stacks \in Seq(Stacks) /\ a.stacks[i] \in Stacks
  BY AssetsType
<1>2. s \in Stacks
  BY <1>1, OtherQuantity
<1>3. a.stacks[i].qty \in Nat
  BY <1>1, StackType
<1>4. left \in Seq(Stacks)
  BY <1>1, <1>3, TakeType
<1>5. Split(a, i, q) = [a EXCEPT !.stacks = stacks]
  BY DEF Split
<1> HIDE DEF s, left
<1>6. stacks \in Seq(Stacks)
  BY <1>2, <1>4
<1> HIDE DEF stacks
<1> QED BY <1>5, <1>6, OtherStacks

LEMMA MergeType ==
  ASSUME NEW a \in Assets, NEW i \in DOMAIN a.stacks, NEW j \in DOMAIN a.stacks
  PROVE  Restacked(a, Merge(a, i, j))
<1> DEFINE s == Joined(a.stacks[j], a.stacks[i])
           both == [a.stacks EXCEPT ![j] = s]
           stacks == RemoveAt(both, i)
<1>1. a.stacks \in Seq(Stacks) /\ a.stacks[i] \in Stacks /\ a.stacks[j] \in Stacks
  BY AssetsType
<1>2. s \in Stacks
  BY <1>1, JoinedType
<1>3. Merge(a, i, j) = [a EXCEPT !.stacks = stacks]
  BY DEF Merge
<1> HIDE DEF s
<1>4. both \in Seq(Stacks) /\ i \in DOMAIN both
  BY <1>1, <1>2, ReplacedType
<1> HIDE DEF both
<1>5. stacks \in Seq(Stacks)
  BY <1>4, RemovedType
<1> HIDE DEF stacks
<1> QED BY <1>3, <1>5, OtherStacks

-----------------------------------------------------------------------------
(* What the operations on goods keep. *)

\* What tells the units of two stacks apart.
Kind(s) == <<s.item, s.inv, s.state, s.marked>>
Kinds == Items \X Places \X States \X BOOLEAN

\* How many units of some kinds there are.
Weight(s, K) == IF Kind(s) \in K THEN s.qty ELSE 0
Weights(stacks, K) == [i \in DOMAIN stacks |-> Weight(stacks[i], K)]
Weigh(stacks, K) == Total(Weights(stacks, K))

LEMMA WeightType ==
  ASSUME NEW s \in Stacks, NEW K
  PROVE  Weight(s, K) \in Nat /\ Weight(s, K) <= s.qty /\ Kind(s) \in Kinds
BY StackType DEF Weight, Kind, Kinds

LEMMA WeightsType ==
  ASSUME NEW stacks \in Seq(Stacks), NEW K
  PROVE  /\ Weights(stacks, K) \in Seq(Nat) /\ Weights(stacks, K) \in Seq(Int)
         /\ Len(Weights(stacks, K)) = Len(stacks)
         /\ \A i \in 1..Len(stacks) : /\ Weights(stacks, K)[i] = Weight(stacks[i], K)
                                      /\ Weight(stacks[i], K) \in Nat
<1> DEFINE n == Len(stacks)
           w == Weights(stacks, K)
<1>1. n \in Nat /\ DOMAIN stacks = 1..n /\ \A i \in 1..n : stacks[i] \in Stacks
  OBVIOUS
<1>2. \A i \in 1..n : w[i] = Weight(stacks[i], K) /\ Weight(stacks[i], K) \in Nat
  BY <1>1, WeightType DEF Weights
<1>3. w \in [1..n -> Nat] /\ w \in [1..n -> Int]
  BY <1>1, <1>2 DEF Weights
<1>4. DOMAIN w = 1..n
  BY <1>1 DEF Weights
<1> HIDE DEF w, n
<1>5. w \in Seq(Nat) /\ w \in Seq(Int)
  BY <1>1, <1>3, SeqDef
<1>6. Len(w) = n
  BY <1>1, <1>4, <1>5
<1> QED BY <1>2, <1>5, <1>6 DEF w, n

LEMMA WeighType ==
  ASSUME NEW stacks \in Seq(Stacks), NEW K
  PROVE  Weigh(stacks, K) \in Nat
BY WeightsType, TotalOfNaturals DEF Weigh

LEMMA WeighAppended ==
  ASSUME NEW stacks \in Seq(Stacks), NEW s \in Stacks, NEW K
  PROVE  Weigh(Append(stacks, s), K) = Weigh(stacks, K) + Weight(s, K)
<1> DEFINE more == Append(stacks, s)
           p == Weights(stacks, K)
           q == Weights(more, K)
           n == Len(stacks)
<1>1. /\ more \in Seq(Stacks) /\ Len(more) = n + 1 /\ n \in Nat
      /\ more[n + 1] = s /\ \A i \in 1..n : more[i] = stacks[i]
  BY AppendProperties
<1> HIDE DEF more
<1>2. /\ p \in Seq(Int) /\ Len(p) = n /\ \A i \in 1..n : p[i] = Weight(stacks[i], K)
  BY WeightsType
<1>3. /\ q \in Seq(Int) /\ Len(q) = n + 1 /\ \A i \in 1..(n + 1) : q[i] = Weight(more[i], K)
  BY <1>1, WeightsType
<1>4. (\A i \in 1..n : q[i] = p[i]) /\ q[n + 1] = Weight(s, K)
  BY <1>1, <1>2, <1>3
<1> HIDE DEF p, q, n
<1>5. Total(q) = Total(p) + q[Len(q)]
  BY <1>2, <1>3, <1>4, TotalOfOneMore
<1> QED BY <1>3, <1>4, <1>5 DEF Weigh, p, q, more

LEMMA WeighRemoved ==
  ASSUME NEW stacks \in Seq(Stacks), NEW i \in DOMAIN stacks, NEW K
  PROVE  Weigh(stacks, K) = Weigh(RemoveAt(stacks, i), K) + Weight(stacks[i], K)
<1> DEFINE less == RemoveAt(stacks, i)
           p == Weights(stacks, K)
           q == Weights(less, K)
           n == Len(less)
<1>1. /\ less \in Seq(Stacks) /\ n + 1 = Len(stacks) /\ n \in Nat
      /\ \A j \in 1..(i - 1) : less[j] = stacks[j]
      /\ \A j \in i..n : less[j] = stacks[j + 1]
  <2>1. n = Len(stacks) - 1
    BY RemovedType
  <2> QED BY <2>1, RemovedType
<1>2. i \in 1..(n + 1)
  BY <1>1
<1>3. /\ p \in Seq(Int) /\ Len(p) = n + 1 /\ \A j \in 1..(n + 1) : p[j] = Weight(stacks[j], K)
  BY <1>1, WeightsType
<1> HIDE DEF less
<1>4. /\ q \in Seq(Int) /\ Len(q) = n /\ \A j \in 1..n : q[j] = Weight(less[j], K)
  BY <1>1, WeightsType
<1>5. \A j \in 1..(i - 1) : q[j] = p[j]
  <2> SUFFICES ASSUME NEW j \in 1..(i - 1) PROVE q[j] = p[j]
    OBVIOUS
  <2>1. j \in 1..n /\ j \in 1..(n + 1)
    BY <1>1, <1>2
  <2> QED BY <1>1, <1>3, <1>4, <2>1
<1>6. \A j \in i..n : q[j] = p[j + 1]
  <2> SUFFICES ASSUME NEW j \in i..n PROVE q[j] = p[j + 1]
    OBVIOUS
  <2>1. j \in 1..n /\ j + 1 \in 1..(n + 1)
    BY <1>1, <1>2
  <2> QED BY <1>1, <1>3, <1>4, <2>1
<1>7. p[i] = Weight(stacks[i], K)
  BY <1>2, <1>3
<1> HIDE DEF p, q, n
<1>8. Total(p) = Total(q) + p[i]
  BY <1>1, <1>2, <1>3, <1>4, <1>5, <1>6, TotalOfOneLess
<1> QED BY <1>7, <1>8 DEF Weigh, p, q, less

LEMMA WeighReplaced ==
  ASSUME NEW stacks \in Seq(Stacks), NEW i \in DOMAIN stacks, NEW s \in Stacks, NEW K
  PROVE  Weigh([stacks EXCEPT ![i] = s], K) + Weight(stacks[i], K) = Weigh(stacks, K) + Weight(s, K)
<1> DEFINE other == [stacks EXCEPT ![i] = s]
           rest == RemoveAt(stacks, i)
           otherRest == RemoveAt(other, i)
<1>1. stacks \in Seq(Stacks) /\ DOMAIN stacks = 1..Len(stacks) /\ Len(stacks) \in Nat
  OBVIOUS
<1>2. /\ other \in Seq(Stacks) /\ DOMAIN other = DOMAIN stacks /\ Len(other) = Len(stacks)
      /\ other[i] = s /\ \A j \in DOMAIN stacks : j # i => other[j] = stacks[j]
  BY <1>1, ReplacedType
<1> HIDE DEF other
<1>3. /\ rest \in Seq(Stacks) /\ Len(rest) + 1 = Len(stacks)
      /\ \A j \in 1..(i - 1) : rest[j] = stacks[j]
      /\ \A j \in i..(Len(stacks) - 1) : rest[j] = stacks[j + 1]
  BY RemovedType
<1>4. /\ otherRest \in Seq(Stacks) /\ Len(otherRest) + 1 = Len(stacks)
      /\ \A j \in 1..(i - 1) : otherRest[j] = other[j]
      /\ \A j \in i..(Len(stacks) - 1) : otherRest[j] = other[j + 1]
  <2>1. i \in DOMAIN other
    BY <1>2
  <2>2. /\ otherRest \in Seq(Stacks) /\ Len(otherRest) + 1 = Len(other)
        /\ \A j \in 1..(i - 1) : otherRest[j] = other[j]
        /\ \A j \in i..(Len(other) - 1) : otherRest[j] = other[j + 1]
    BY <1>2, <2>1, RemovedType
  <2> QED BY <1>2, <2>2
<1> HIDE DEF rest, otherRest
<1>5. otherRest = rest
  <2>1. Len(otherRest) = Len(rest) /\ Len(rest) = Len(stacks) - 1
    <3> DEFINE x == Len(rest)
               y == Len(otherRest)
               z == Len(stacks)
    <3>1. x \in Nat /\ y \in Nat /\ z \in Nat /\ x + 1 = z /\ y + 1 = z
      <4>1. x \in Nat
        BY <1>3
      <4>2. y \in Nat
        BY <1>4
      <4> HIDE DEF x, y
      <4> QED BY <1>1, <1>3, <1>4, <4>1, <4>2 DEF x, y
    <3> HIDE DEF x, y, z
    <3>2. y = x /\ x = z - 1
      BY <3>1
    <3> QED BY <3>2 DEF x, y, z
  <2>2. ASSUME NEW j \in 1..Len(rest) PROVE otherRest[j] = rest[j]
    <3>1. CASE j < i
      <4>1. j \in 1..(i - 1) /\ j \in DOMAIN stacks /\ j # i
        BY <1>1, <2>1, <3>1
      <4> QED BY <1>2, <1>3, <1>4, <4>1
    <3>2. CASE ~(j < i)
      <4>1. j \in i..(Len(stacks) - 1) /\ j + 1 \in DOMAIN stacks /\ j + 1 # i
        BY <1>1, <2>1, <3>2
      <4> QED BY <1>2, <1>3, <1>4, <4>1
    <3> QED BY <3>1, <3>2
  <2> QED BY <1>3, <1>4, <2>1, <2>2
<1>6. Weigh(stacks, K) = Weigh(rest, K) + Weight(stacks[i], K)
  BY WeighRemoved DEF rest
<1>7. Weigh(other, K) = Weigh(rest, K) + Weight(s, K)
  BY <1>2, <1>5, WeighRemoved DEF otherRest
<1>8. Weigh(rest, K) \in Nat /\ Weight(stacks[i], K) \in Nat /\ Weight(s, K) \in Nat
  BY <1>3, WeighType, WeightType
<1> QED BY <1>6, <1>7, <1>8 DEF other

\* Kinds that the mark of a recovery grant does not tell apart, and the kinds of
\* an item without it.
IsBlind(K) ==
  \A item \in Items, inv \in Places, state \in States :
    <<item, inv, state, TRUE>> \in K <=> <<item, inv, state, FALSE>> \in K
OfItem(item) == {k \in Kinds : k[1] = item}
Unmarked(item) == {k \in Kinds : k[1] = item /\ k[4] = FALSE}
Marked(item) == {k \in Kinds : k[1] = item /\ k[4] = TRUE}

LEMMA ItemsAreBlind ==
  ASSUME NEW item
  PROVE  IsBlind(OfItem(item))
BY DEF IsBlind, OfItem, Kinds

LEMMA KindOf ==
  ASSUME NEW s \in Stacks, NEW item
  PROVE  /\ Kind(s) \in OfItem(item) <=> s.item = item
         /\ Kind(s) \in Unmarked(item) <=> s.item = item /\ ~s.marked
         /\ Kind(s) \in Marked(item) <=> s.item = item /\ s.marked
<1>1. Kind(s) \in Kinds /\ s.marked \in BOOLEAN
  BY WeightType, StackType
<1>2. Kind(s)[1] = s.item /\ Kind(s)[4] = s.marked
  BY DEF Kind
<1> QED BY <1>1, <1>2 DEF OfItem, Unmarked, Marked

\* Two stacks that may become one, and the units of the one.
MayJoin(s, t) == s.item = t.item /\ s.state = t.state /\ s.inv = t.inv

LEMMA JoinedWeighs ==
  ASSUME NEW s \in Stacks, NEW t \in Stacks, MayJoin(s, t), NEW K, IsBlind(K)
  PROVE  Weight(Joined(s, t), K) = Weight(s, K) + Weight(t, K)
<1> DEFINE j == Joined(s, t)
<1>1. /\ j \in Stacks /\ j.item = s.item /\ j.inv = s.inv /\ j.state = s.state
      /\ j.qty = s.qty + t.qty
  BY JoinedType
<1> HIDE DEF j
<1>2. /\ s.item \in Items /\ s.inv \in Places /\ s.state \in States
      /\ s.marked \in BOOLEAN /\ t.marked \in BOOLEAN /\ j.marked \in BOOLEAN
      /\ s.qty \in Nat /\ t.qty \in Nat
  BY <1>1, StackType
<1>3. /\ Kind(s) = <<s.item, s.inv, s.state, s.marked>>
      /\ Kind(t) = <<s.item, s.inv, s.state, t.marked>>
      /\ Kind(j) = <<s.item, s.inv, s.state, j.marked>>
  BY <1>1 DEF Kind, MayJoin
<1>4. (Kind(j) \in K <=> Kind(s) \in K) /\ (Kind(t) \in K <=> Kind(s) \in K)
  <2>1. ASSUME NEW x \in BOOLEAN
        PROVE  <<s.item, s.inv, s.state, x>> \in K <=> <<s.item, s.inv, s.state, TRUE>> \in K
    <3>1. CASE x = TRUE  BY <3>1
    <3>2. CASE x = FALSE  BY <3>2, <1>2 DEF IsBlind
    <3> QED BY <3>1, <3>2
  <2> QED BY <1>2, <1>3, <2>1
<1>5. Weight(j, K) = Weight(s, K) + Weight(t, K)
  <2>1. CASE Kind(s) \in K
    BY <1>1, <1>4, <2>1 DEF Weight
  <2>2. CASE Kind(s) \notin K
    BY <1>4, <2>2 DEF Weight
  <2> QED BY <2>1, <2>2
<1> QED BY <1>5 DEF j

\* The mark spreads over what is joined: no unit loses it.
LEMMA JoinedKeepsMarks ==
  ASSUME NEW s \in Stacks, NEW t \in Stacks, MayJoin(s, t), NEW item
  PROVE  Weight(Joined(s, t), Unmarked(item)) <= Weight(s, Unmarked(item)) + Weight(t, Unmarked(item))
<1> DEFINE j == Joined(s, t)
           K == Unmarked(item)
<1>1. /\ j \in Stacks /\ j.item = s.item /\ j.qty = s.qty + t.qty
      /\ j.marked = (s.marked \/ t.marked)
  BY JoinedType
<1> HIDE DEF j
<1>2. /\ s.marked \in BOOLEAN /\ t.marked \in BOOLEAN /\ s.qty \in Nat /\ t.qty \in Nat
      /\ s.item = t.item
  BY StackType DEF MayJoin
<1>3. /\ Kind(s) \in K <=> s.item = item /\ ~s.marked
      /\ Kind(t) \in K <=> s.item = item /\ ~t.marked
      /\ Kind(j) \in K <=> s.item = item /\ ~j.marked
  BY <1>1, <1>2, KindOf
<1> HIDE DEF K
<1>4. /\ Weight(s, K) = IF Kind(s) \in K THEN s.qty ELSE 0
      /\ Weight(t, K) = IF Kind(t) \in K THEN t.qty ELSE 0
      /\ Weight(j, K) = IF Kind(j) \in K THEN s.qty + t.qty ELSE 0
  BY <1>1 DEF Weight
<1>5. Weight(j, K) <= Weight(s, K) + Weight(t, K)
  <2>1. CASE Kind(j) \in K
    <3>1. Kind(s) \in K /\ Kind(t) \in K
      BY <1>1, <1>3, <2>1
    <3> QED BY <1>2, <1>4, <2>1, <3>1
  <2>2. CASE Kind(j) \notin K
    <3>1. Weight(s, K) \in Nat /\ Weight(t, K) \in Nat
      BY WeightType
    <3> QED BY <1>4, <2>2, <3>1
  <2> QED BY <2>1, <2>2
<1> QED BY <1>5 DEF j, K

\* What is put anywhere is there.
LEMMA PutWeighs ==
  ASSUME NEW stacks \in Seq(Stacks), NEW s \in Stacks
  PROVE  /\ \A K : IsBlind(K) => Weigh(Put(stacks, s), K) = Weigh(stacks, K) + Weight(s, K)
         /\ \A item : Weigh(Put(stacks, s), Unmarked(item)) <=
                        Weigh(stacks, Unmarked(item)) + Weight(s, Unmarked(item))
<1>1. CASE Put(stacks, s) = Append(stacks, s)
  <2>1. \A K : Weigh(Put(stacks, s), K) = Weigh(stacks, K) + Weight(s, K)
    BY <1>1, WeighAppended
  <2>2. \A K : Weigh(stacks, K) \in Nat /\ Weight(s, K) \in Nat
    BY WeighType, WeightType
  <2>3. ASSUME NEW item
        PROVE  Weigh(Put(stacks, s), Unmarked(item)) <=
                 Weigh(stacks, Unmarked(item)) + Weight(s, Unmarked(item))
    <3> DEFINE x == Weigh(Put(stacks, s), Unmarked(item))
               y == Weigh(stacks, Unmarked(item))
               z == Weight(s, Unmarked(item))
    <3>1. x = y + z /\ y \in Nat /\ z \in Nat
      BY <2>1, <2>2
    <3> HIDE DEF x, y, z
    <3>2. x <= y + z
      BY <3>1
    <3> QED BY <3>2 DEF x, y, z
  <2> QED BY <2>1, <2>3
<1>2. ASSUME NEW i \in Partners(stacks, s), i \in DOMAIN stacks,
             Put(stacks, s) = [stacks EXCEPT ![i] = Joined(stacks[i], s)]
      PROVE  /\ \A K : IsBlind(K) => Weigh(Put(stacks, s), K) = Weigh(stacks, K) + Weight(s, K)
             /\ \A item : Weigh(Put(stacks, s), Unmarked(item)) <=
                            Weigh(stacks, Unmarked(item)) + Weight(s, Unmarked(item))
  <2> DEFINE t == stacks[i]
             j == Joined(t, s)
  <2>1. t \in Stacks /\ MayJoin(t, s)
    BY <1>2 DEF Partners, Compatible, MayJoin
  <2>2. j \in Stacks
    BY <2>1, JoinedType
  <2>3. ASSUME NEW K
        PROVE  /\ Weigh(Put(stacks, s), K) + Weight(t, K) = Weigh(stacks, K) + Weight(j, K)
               /\ Weigh(Put(stacks, s), K) \in Nat /\ Weigh(stacks, K) \in Nat
               /\ Weight(t, K) \in Nat /\ Weight(s, K) \in Nat /\ Weight(j, K) \in Nat
    <3>1. Weigh(Put(stacks, s), K) + Weight(t, K) = Weigh(stacks, K) + Weight(j, K)
      <4> HIDE DEF j
      <4>1. Put(stacks, s) = [stacks EXCEPT ![i] = j]
        BY <1>2 DEF j
      <4>2. Weigh([stacks EXCEPT ![i] = j], K) + Weight(stacks[i], K) = Weigh(stacks, K) + Weight(j, K)
        <5>1. i \in DOMAIN stacks
          BY <1>2
        <5> HIDE DEF t
        <5> QED BY <2>2, <5>1, WeighReplaced
      <4> QED BY <4>1, <4>2
    <3>2. Put(stacks, s) \in Seq(Stacks)
      BY PutType
    <3> HIDE DEF t, j
    <3> QED BY <2>1, <2>2, <3>1, <3>2, WeighType, WeightType
  <2>4. ASSUME NEW K, IsBlind(K)
        PROVE  Weigh(Put(stacks, s), K) = Weigh(stacks, K) + Weight(s, K)
    <3>1. Weight(j, K) = Weight(t, K) + Weight(s, K)
      BY <2>1, <2>4, JoinedWeighs
    <3> HIDE DEF t, j
    <3> DEFINE p == Weigh(Put(stacks, s), K)
               x == Weigh(stacks, K)
               y == Weight(s, K)
               z == Weight(t, K)
               w == Weight(j, K)
    <3>2. p + z = x + w /\ w = z + y /\ p \in Nat /\ x \in Nat /\ y \in Nat /\ z \in Nat
      BY <2>3, <3>1
    <3> HIDE DEF p, x, y, z, w
    <3>3. p = x + y
      BY <3>2
    <3> QED BY <3>3 DEF p, x, y
  <2>5. ASSUME NEW item
        PROVE  Weigh(Put(stacks, s), Unmarked(item)) <=
                 Weigh(stacks, Unmarked(item)) + Weight(s, Unmarked(item))
    <3> DEFINE K == Unmarked(item)
    <3>1. Weight(j, K) <= Weight(t, K) + Weight(s, K)
      BY <2>1, JoinedKeepsMarks
    <3> HIDE DEF t, j, K
    <3> DEFINE p == Weigh(Put(stacks, s), K)
               x == Weigh(stacks, K)
               y == Weight(s, K)
               z == Weight(t, K)
               w == Weight(j, K)
    <3>2. /\ p + z = x + w /\ w <= z + y
          /\ p \in Nat /\ x \in Nat /\ y \in Nat /\ z \in Nat /\ w \in Nat
      BY <2>3, <3>1
    <3> HIDE DEF p, x, y, z, w
    <3>3. p <= x + y
      BY <3>2
    <3> QED BY <3>3 DEF p, x, y, K
  <2> QED BY <2>4, <2>5
<1> QED BY <1>1, <1>2, PutCases

\* A part of a stack.
Part(s, q) == [s EXCEPT !.qty = q]

LEMMA PartType ==
  ASSUME NEW s \in Stacks, NEW q \in Nat \ {0}
  PROVE  /\ Part(s, q) \in Stacks /\ Kind(Part(s, q)) = Kind(s)
         /\ \A K : Weight(Part(s, q), K) = IF Kind(s) \in K THEN q ELSE 0
<1>1. /\ Part(s, q) \in Stacks /\ Part(s, q).item = s.item /\ Part(s, q).inv = s.inv
      /\ Part(s, q).state = s.state /\ Part(s, q).marked = s.marked /\ Part(s, q).qty = q
  BY OtherQuantity, StackType DEF Part
<1>2. Kind(Part(s, q)) = Kind(s)
  BY <1>1 DEF Kind
<1> QED BY <1>1, <1>2 DEF Weight

\* What is taken is gone.
LEMMA TakeWeighs ==
  ASSUME NEW stacks \in Seq(Stacks), NEW i \in DOMAIN stacks, NEW q \in Nat \ {0}, q <= stacks[i].qty,
         NEW K
  PROVE  Weigh(Take(stacks, i, q), K) + Weight(Part(stacks[i], q), K) = Weigh(stacks, K)
<1> DEFINE s == stacks[i]
<1>1. s \in Stacks /\ s.qty \in Nat
  BY StackType
<1>2. CASE q = s.qty
  <2>1. Part(s, q) = s
    BY <1>1, <1>2, StackType DEF Part
  <2>2. Take(stacks, i, q) = RemoveAt(stacks, i)
    BY <1>2 DEF Take
  <2>3. Weigh(stacks, K) = Weigh(RemoveAt(stacks, i), K) + Weight(s, K)
    BY WeighRemoved
  <2> QED BY <2>1, <2>2, <2>3
<1>3. CASE q # s.qty
  <2> DEFINE n == s.qty - q
             left == Part(s, n)
  <2>1. n \in Nat \ {0}
    BY <1>1, <1>3
  <2>2. Take(stacks, i, q) = [stacks EXCEPT ![i] = left]
    BY <1>3 DEF Take, Part
  <2>3. left \in Stacks
    BY <1>1, <2>1, PartType
  <2> HIDE DEF left
  <2>5. Weigh([stacks EXCEPT ![i] = left], K) + Weight(stacks[i], K) = Weigh(stacks, K) + Weight(left, K)
    BY <2>3, WeighReplaced
  <2> USE DEF left
  <2> HIDE DEF s
  <2>4. /\ Weight(left, K) = IF Kind(s) \in K THEN n ELSE 0
        /\ Weight(Part(s, q), K) = IF Kind(s) \in K THEN q ELSE 0
        /\ Weight(s, K) = IF Kind(s) \in K THEN s.qty ELSE 0
    BY <1>1, <2>1, PartType DEF Weight
  <2> HIDE DEF left
  <2>9. Weigh(Take(stacks, i, q), K) + Weight(s, K) = Weigh(stacks, K) + Weight(left, K)
    BY <2>2, <2>5 DEF s
  <2>6. Take(stacks, i, q) \in Seq(Stacks)
    BY TakeType
  <2>7. Weigh(Take(stacks, i, q), K) \in Nat /\ Weigh(stacks, K) \in Nat
    BY <2>6, WeighType
  <2>8. Weigh(Take(stacks, i, q), K) + Weight(Part(s, q), K) = Weigh(stacks, K)
    BY SMTT(30), <1>1, <2>4, <2>9, <2>7
  <2> QED BY <2>8 DEF s
<1> QED BY <1>2, <1>3

\* What is added is there.
LEMMA AddWeighs ==
  ASSUME NEW a \in Assets, NEW inv \in Places, NEW item \in Items, NEW q \in Nat \ {0},
         NEW state \in States, NEW marked \in BOOLEAN,
         NEW b, b = Add(a, inv, item, q, state, marked),
         NEW s, s = [item |-> item, qty |-> q, inv |-> inv, state |-> state, marked |-> marked]
  PROVE  /\ Restacked(a, b) /\ s \in Stacks
         /\ \A K : IsBlind(K) => Weigh(b.stacks, K) = Weigh(a.stacks, K) + Weight(s, K)
         /\ \A other : Weigh(b.stacks, Unmarked(other)) <=
                         Weigh(a.stacks, Unmarked(other)) + Weight(s, Unmarked(other))
<1> DEFINE stacks == Put(a.stacks, s)
<1>1. s \in Stacks
  BY DEF Stacks
<1>2. a.stacks \in Seq(Stacks)
  BY AssetsType
<1>3. b = [a EXCEPT !.stacks = stacks]
  BY DEF Add
<1>4. stacks \in Seq(Stacks)
  BY <1>1, <1>2, PutType
<1> HIDE DEF stacks
<1>5. Restacked(a, b) /\ b.stacks = stacks
  BY <1>3, <1>4, OtherStacks
<1>6. /\ \A K : IsBlind(K) => Weigh(stacks, K) = Weigh(a.stacks, K) + Weight(s, K)
      /\ \A other : Weigh(stacks, Unmarked(other)) <=
                      Weigh(a.stacks, Unmarked(other)) + Weight(s, Unmarked(other))
  BY <1>1, <1>2, PutWeighs DEF stacks
<1> QED BY <1>1, <1>5, <1>6

\* What is consumed is gone.
LEMMA ConsumeWeighs ==
  ASSUME NEW a \in Assets, NEW i \in DOMAIN a.stacks, NEW q \in Nat \ {0}, q <= a.stacks[i].qty,
         NEW K
  PROVE  LET b == Consume(a, i, q)
         IN  /\ Restacked(a, b)
             /\ Weigh(b.stacks, K) + Weight(Part(a.stacks[i], q), K) = Weigh(a.stacks, K)
<1> DEFINE b == Consume(a, i, q)
           stacks == Take(a.stacks, i, q)
<1>1. a.stacks \in Seq(Stacks)
  BY AssetsType
<1>2. b = [a EXCEPT !.stacks = stacks]
  BY DEF Consume
<1>3. stacks \in Seq(Stacks)
  BY <1>1, TakeType
<1>4. Weigh(stacks, K) + Weight(Part(a.stacks[i], q), K) = Weigh(a.stacks, K)
  BY <1>1, TakeWeighs
<1> HIDE DEF stacks, b
<1>5. Restacked(a, b) /\ b.stacks = stacks
  BY <1>2, <1>3, OtherStacks
<1> QED BY <1>4, <1>5 DEF b

\* What is moved is no longer where it was and is where it goes.
LEMMA MoveWeighs ==
  ASSUME NEW a \in Assets, NEW i \in DOMAIN a.stacks, NEW q \in Nat \ {0}, q <= a.stacks[i].qty,
         NEW inv \in Places, NEW state \in States
  PROVE  LET b == Move(a, i, inv, q, state)
             part == Part(a.stacks[i], q)
             moved == Elsewhere(a.stacks[i], q, inv, state)
         IN  /\ Restacked(a, b) /\ part \in Stacks /\ moved \in Stacks
             /\ \A K : IsBlind(K) =>
                  Weigh(b.stacks, K) + Weight(part, K) = Weigh(a.stacks, K) + Weight(moved, K)
             /\ \A item : Weigh(b.stacks, Unmarked(item)) <= Weigh(a.stacks, Unmarked(item))
<1> DEFINE b == Move(a, i, inv, q, state)
           s == a.stacks[i]
           part == Part(s, q)
           moved == Elsewhere(s, q, inv, state)
           left == Take(a.stacks, i, q)
<1>1. a.stacks \in Seq(Stacks) /\ s \in Stacks
  BY AssetsType
<1>2. /\ Restacked(a, b) /\ moved \in Stacks /\ left \in Seq(Stacks)
      /\ \/ b.stacks = [a.stacks EXCEPT ![i] = moved] /\ q = a.stacks[i].qty
         \/ b.stacks = Put(left, moved)
  BY MoveCases
<1>3. part \in Stacks /\ b.stacks \in Seq(Stacks)
  <2>1. part \in Stacks
    BY <1>1, PartType
  <2>2. b \in Assets
    BY <1>2 DEF Restacked
  <2> QED BY <2>1, <2>2, AssetsType
<1>4. ASSUME NEW K
      PROVE  /\ Weigh(left, K) + Weight(part, K) = Weigh(a.stacks, K)
             /\ Weigh(left, K) \in Nat /\ Weigh(a.stacks, K) \in Nat /\ Weigh(b.stacks, K) \in Nat
             /\ Weight(part, K) \in Nat /\ Weight(moved, K) \in Nat
  <2>1. Weigh(left, K) + Weight(part, K) = Weigh(a.stacks, K)
    BY <1>1, TakeWeighs
  <2> HIDE DEF b, part, moved, left
  <2> QED BY <1>1, <1>2, <1>3, <2>1, WeighType, WeightType
<1>5. ASSUME NEW item
      PROVE  Weight(moved, Unmarked(item)) = Weight(part, Unmarked(item))
  <2>1. /\ moved.item = s.item /\ moved.marked = s.marked /\ moved.qty = q
    BY DEF Elsewhere
  <2>2. /\ part.item = s.item /\ part.marked = s.marked /\ part.qty = q
    BY <1>1, StackType DEF Part
  <2> HIDE DEF moved, part, s
  <2>3. /\ Kind(moved) \in Unmarked(item) <=> moved.item = item /\ ~moved.marked
        /\ Kind(part) \in Unmarked(item) <=> part.item = item /\ ~part.marked
    BY <1>2, <1>3, KindOf
  <2> QED BY <2>1, <2>2, <2>3 DEF Weight
<1>6. CASE b.stacks = [a.stacks EXCEPT ![i] = moved] /\ q = s.qty
  <2>1. part = s
    BY <1>1, <1>6, StackType DEF Part
  <2>2. ASSUME NEW K
        PROVE  Weigh(b.stacks, K) + Weight(part, K) = Weigh(a.stacks, K) + Weight(moved, K)
    <3> HIDE DEF b, part, moved, left
    <3>1. Weigh([a.stacks EXCEPT ![i] = moved], K) + Weight(a.stacks[i], K) =
            Weigh(a.stacks, K) + Weight(moved, K)
      BY <1>1, <1>2, WeighReplaced
    <3> QED BY <1>6, <2>1, <3>1
  <2>3. ASSUME NEW item
        PROVE  Weigh(b.stacks, Unmarked(item)) <= Weigh(a.stacks, Unmarked(item))
    <3> DEFINE x == Weigh(b.stacks, Unmarked(item))
               y == Weigh(a.stacks, Unmarked(item))
               z == Weight(part, Unmarked(item))
               w == Weight(moved, Unmarked(item))
    <3>1. x + z = y + w /\ w = z /\ x \in Nat /\ y \in Nat /\ z \in Nat
      BY <1>4, <1>5, <2>2
    <3> HIDE DEF x, y, z, w
    <3>2. x <= y
      BY <3>1
    <3> QED BY <3>2 DEF x, y
  <2> HIDE DEF b, part, moved
  <2> QED BY <1>2, <1>3, <2>2, <2>3 DEF b, part, moved
<1>7. CASE b.stacks = Put(left, moved)
  <2> HIDE DEF b, part, moved, left
  <2>1. ASSUME NEW K, IsBlind(K)
        PROVE  Weigh(b.stacks, K) + Weight(part, K) = Weigh(a.stacks, K) + Weight(moved, K)
    <3> DEFINE x == Weigh(b.stacks, K)
               y == Weigh(a.stacks, K)
               z == Weight(part, K)
               w == Weight(moved, K)
               v == Weigh(left, K)
    <3>1. Weigh(Put(left, moved), K) = Weigh(left, K) + Weight(moved, K)
      BY <1>2, <2>1, PutWeighs
    <3>2. x = v + w /\ v + z = y /\ v \in Nat /\ z \in Nat /\ w \in Nat
      BY <1>4, <1>7, <3>1
    <3> HIDE DEF x, y, z, w, v
    <3>3. x + z = y + w
      BY <3>2
    <3> QED BY <3>3 DEF x, y, z, w
  <2>2. ASSUME NEW item
        PROVE  Weigh(b.stacks, Unmarked(item)) <= Weigh(a.stacks, Unmarked(item))
    <3> DEFINE K == Unmarked(item)
               x == Weigh(b.stacks, K)
               y == Weigh(a.stacks, K)
               z == Weight(part, K)
               w == Weight(moved, K)
               v == Weigh(left, K)
    <3>1. Weigh(Put(left, moved), K) <= Weigh(left, K) + Weight(moved, K)
      BY <1>2, PutWeighs
    <3> HIDE DEF K
    <3>2. x <= v + w /\ v + z = y /\ v \in Nat /\ z \in Nat /\ x \in Nat
      BY <1>4, <1>7, <3>1
    <3>3. w = z
      BY <1>5 DEF K
    <3> HIDE DEF x, y, z, w, v
    <3>4. x <= y
      BY <3>2, <3>3
    <3> QED BY <3>4 DEF x, y, K
  <2> QED BY <1>2, <1>3, <2>1, <2>2 DEF b, part, moved
<1> QED BY <1>2, <1>6, <1>7

\* What is split lies in two stacks.
LEMMA SplitWeighs ==
  ASSUME NEW a \in Assets, NEW i \in DOMAIN a.stacks, NEW q \in Nat \ {0}, q < a.stacks[i].qty, NEW K
  PROVE  Weigh(Split(a, i, q).stacks, K) = Weigh(a.stacks, K)
<1> DEFINE s == Part(a.stacks[i], q)
           left == Take(a.stacks, i, q)
           stacks == Append(left, s)
<1>1. a.stacks \in Seq(Stacks) /\ a.stacks[i] \in Stacks
  BY AssetsType
<1>2. s \in Stacks
  BY <1>1, PartType
<1>3. a.stacks[i].qty \in Nat /\ q <= a.stacks[i].qty
  BY <1>1, StackType
<1>4. left \in Seq(Stacks)
  BY <1>1, <1>3, TakeType
<1>5. Split(a, i, q) = [a EXCEPT !.stacks = stacks]
  BY DEF Split, Part
<1>6. Weigh(left, K) + Weight(s, K) = Weigh(a.stacks, K)
  BY <1>1, <1>3, TakeWeighs
<1> HIDE DEF s, left
<1>7. Weigh(stacks, K) = Weigh(left, K) + Weight(s, K)
  BY <1>2, <1>4, WeighAppended
<1>8. stacks \in Seq(Stacks)
  BY <1>2, <1>4
<1> HIDE DEF stacks
<1>9. Split(a, i, q).stacks = stacks
  BY <1>5, <1>8, OtherStacks
<1> QED BY <1>6, <1>7, <1>9

\* What is merged lies in one stack, and no unit of it loses its mark.
LEMMA MergeWeighs ==
  ASSUME NEW a \in Assets, NEW i \in DOMAIN a.stacks, NEW j \in DOMAIN a.stacks, i # j,
         MayJoin(a.stacks[j], a.stacks[i])
  PROVE  /\ \A K : IsBlind(K) => Weigh(Merge(a, i, j).stacks, K) = Weigh(a.stacks, K)
         /\ \A item : Weigh(Merge(a, i, j).stacks, Unmarked(item)) <= Weigh(a.stacks, Unmarked(item))
<1> DEFINE s == a.stacks[i]
           t == a.stacks[j]
           u == Joined(t, s)
           both == [a.stacks EXCEPT ![j] = u]
           stacks == RemoveAt(both, i)
<1>1. a.stacks \in Seq(Stacks) /\ s \in Stacks /\ t \in Stacks
  BY AssetsType
<1>2. u \in Stacks
  BY <1>1, JoinedType
<1>3. Merge(a, i, j) = [a EXCEPT !.stacks = stacks]
  BY DEF Merge
<1>4. both[i] = s
  BY <1>1
<1>5. ASSUME NEW K, IsBlind(K)
      PROVE  Weight(u, K) = Weight(t, K) + Weight(s, K)
  BY <1>1, <1>5, JoinedWeighs
<1>6. ASSUME NEW item
      PROVE  Weight(u, Unmarked(item)) <= Weight(t, Unmarked(item)) + Weight(s, Unmarked(item))
  BY <1>1, JoinedKeepsMarks
<1> HIDE DEF u
<1>7. both \in Seq(Stacks) /\ i \in DOMAIN both
  BY <1>1, <1>2, ReplacedType
<1>8. ASSUME NEW K
      PROVE  Weigh(both, K) + Weight(t, K) = Weigh(a.stacks, K) + Weight(u, K)
  BY <1>1, <1>2, WeighReplaced
<1> HIDE DEF both
<1>9. stacks \in Seq(Stacks)
  BY <1>7, RemovedType
<1>10. ASSUME NEW K
       PROVE  Weigh(both, K) = Weigh(stacks, K) + Weight(s, K)
  <2>1. Weigh(both, K) = Weigh(RemoveAt(both, i), K) + Weight(both[i], K)
    BY <1>7, WeighRemoved
  <2> QED BY <1>4, <2>1
<1> HIDE DEF stacks, s, t
<1>11. Merge(a, i, j).stacks = stacks
  BY <1>3, <1>9, OtherStacks
<1>12. ASSUME NEW K
       PROVE  /\ Weigh(both, K) \in Nat /\ Weigh(stacks, K) \in Nat /\ Weigh(a.stacks, K) \in Nat
              /\ Weight(s, K) \in Nat /\ Weight(t, K) \in Nat /\ Weight(u, K) \in Nat
  BY <1>1, <1>2, <1>7, <1>9, WeighType, WeightType
<1>13. ASSUME NEW K, IsBlind(K)
       PROVE  Weigh(stacks, K) = Weigh(a.stacks, K)
  <2> DEFINE x == Weigh(stacks, K)
             y == Weigh(a.stacks, K)
             z == Weigh(both, K)
             ws == Weight(s, K)
             wt == Weight(t, K)
             wu == Weight(u, K)
  <2>1. /\ z + wt = y + wu /\ z = x + ws /\ wu = wt + ws
        /\ x \in Nat /\ y \in Nat /\ ws \in Nat /\ wt \in Nat
    BY <1>5, <1>8, <1>10, <1>12, <1>13
  <2> HIDE DEF x, y, z, ws, wt, wu
  <2>2. x = y
    BY <2>1
  <2> QED BY <2>2 DEF x, y
<1>14. ASSUME NEW item
       PROVE  Weigh(stacks, Unmarked(item)) <= Weigh(a.stacks, Unmarked(item))
  <2> DEFINE K == Unmarked(item)
             x == Weigh(stacks, K)
             y == Weigh(a.stacks, K)
             z == Weigh(both, K)
             ws == Weight(s, K)
             wt == Weight(t, K)
             wu == Weight(u, K)
  <2>1. wu <= wt + ws
    BY <1>6
  <2> HIDE DEF K
  <2>2. /\ z + wt = y + wu /\ z = x + ws
        /\ x \in Nat /\ y \in Nat /\ ws \in Nat /\ wt \in Nat /\ wu \in Nat
    BY <1>8, <1>10, <1>12
  <2> HIDE DEF x, y, z, ws, wt, wu
  <2>3. x <= y
    BY <2>1, <2>2
  <2> QED BY <2>3 DEF x, y, K
<1> QED BY <1>11, <1>13, <1>14

\* Rearranged goods: nothing but the stacks may differ, there are as many units
\* of every item, and no more of them without the mark.
Rearranged(a, b) ==
  /\ Restacked(a, b)
  /\ \A item : /\ Weigh(b.stacks, OfItem(item)) = Weigh(a.stacks, OfItem(item))
               /\ Weigh(b.stacks, Unmarked(item)) <= Weigh(a.stacks, Unmarked(item))

LEMMA RearrangedTwice ==
  ASSUME NEW a \in Assets, NEW b, NEW c, Rearranged(a, b), Rearranged(b, c)
  PROVE  Rearranged(a, c)
<1>1. Restacked(a, c) /\ b \in Assets /\ c \in Assets
  BY RestackedTwice DEF Rearranged, Restacked
<1>2. ASSUME NEW item
      PROVE  /\ Weigh(c.stacks, OfItem(item)) = Weigh(a.stacks, OfItem(item))
             /\ Weigh(c.stacks, Unmarked(item)) <= Weigh(a.stacks, Unmarked(item))
  <2> DEFINE x == Weigh(a.stacks, Unmarked(item))
             y == Weigh(b.stacks, Unmarked(item))
             z == Weigh(c.stacks, Unmarked(item))
  <2>1. x \in Nat /\ y \in Nat /\ z \in Nat
    BY <1>1, AssetsType, WeighType
  <2>2. y <= x /\ z <= y
    BY DEF Rearranged
  <2>3. Weigh(c.stacks, OfItem(item)) = Weigh(a.stacks, OfItem(item))
    BY DEF Rearranged
  <2> HIDE DEF x, y, z
  <2>4. z <= x
    BY <2>1, <2>2
  <2> QED BY <2>3, <2>4 DEF x, z
<1> QED BY <1>1, <1>2 DEF Rearranged

LEMMA NothingRearranged ==
  ASSUME NEW a \in Assets
  PROVE  Rearranged(a, a)
<1>1. a.stacks \in Seq(Stacks)
  BY AssetsType
<1>2. ASSUME NEW item PROVE Weigh(a.stacks, Unmarked(item)) <= Weigh(a.stacks, Unmarked(item))
  <2> DEFINE x == Weigh(a.stacks, Unmarked(item))
  <2>1. x \in Nat
    BY <1>1, WeighType
  <2> HIDE DEF x
  <2>2. x <= x
    BY <2>1
  <2> QED BY <2>2 DEF x
<1> QED BY <1>2 DEF Rearranged, Restacked

LEMMA MoveRearranges ==
  ASSUME NEW a \in Assets, NEW i \in DOMAIN a.stacks, NEW q \in Nat \ {0}, q <= a.stacks[i].qty,
         NEW inv \in Places, NEW state \in States
  PROVE  Rearranged(a, Move(a, i, inv, q, state))
<1> DEFINE b == Move(a, i, inv, q, state)
           s == a.stacks[i]
           part == Part(s, q)
           moved == Elsewhere(s, q, inv, state)
<1>1. s \in Stacks
  BY AssetsType
<1>2. /\ Restacked(a, b) /\ part \in Stacks /\ moved \in Stacks
      /\ \A K : IsBlind(K) =>
           Weigh(b.stacks, K) + Weight(part, K) = Weigh(a.stacks, K) + Weight(moved, K)
      /\ \A item : Weigh(b.stacks, Unmarked(item)) <= Weigh(a.stacks, Unmarked(item))
  BY MoveWeighs
<1>3. /\ moved.item = s.item /\ moved.qty = q /\ part.item = s.item /\ part.qty = q
  BY <1>1, StackType DEF Elsewhere, Part
<1> HIDE DEF b, s, part, moved
<1>4. ASSUME NEW item
      PROVE  Weigh(b.stacks, OfItem(item)) = Weigh(a.stacks, OfItem(item))
  <2> DEFINE K == OfItem(item)
             x == Weigh(b.stacks, K)
             y == Weigh(a.stacks, K)
             z == Weight(part, K)
             w == Weight(moved, K)
  <2>1. IsBlind(K)
    BY ItemsAreBlind
  <2>2. Kind(moved) \in K <=> Kind(part) \in K
    BY <1>2, <1>3, KindOf
  <2> HIDE DEF K
  <2>3. z = w
    BY <1>3, <2>2 DEF Weight
  <2>4. x + z = y + w
    BY <1>2, <2>1
  <2>5. x \in Nat /\ y \in Nat /\ z \in Nat
    <3>1. b \in Assets
      BY <1>2 DEF Restacked
    <3> QED BY <1>2, <3>1, AssetsType, WeighType, WeightType
  <2> HIDE DEF x, y, z, w
  <2>6. x = y
    BY <2>3, <2>4, <2>5
  <2> QED BY <2>6 DEF x, y, K
<1> QED BY <1>2, <1>4 DEF Rearranged, b

LEMMA SplitRearranges ==
  ASSUME NEW a \in Assets, NEW i \in DOMAIN a.stacks, NEW q \in Nat \ {0}, q < a.stacks[i].qty
  PROVE  Rearranged(a, Split(a, i, q))
<1> DEFINE b == Split(a, i, q)
<1>1. Restacked(a, b)
  BY SplitType
<1>2. \A K : Weigh(b.stacks, K) = Weigh(a.stacks, K)
  BY SplitWeighs
<1> HIDE DEF b
<1>3. ASSUME NEW item
      PROVE  /\ Weigh(b.stacks, OfItem(item)) = Weigh(a.stacks, OfItem(item))
             /\ Weigh(b.stacks, Unmarked(item)) <= Weigh(a.stacks, Unmarked(item))
  BY <1>2, NothingRearranged DEF Rearranged
<1> QED BY <1>1, <1>3 DEF Rearranged, b

LEMMA MergeRearranges ==
  ASSUME NEW a \in Assets, NEW i \in DOMAIN a.stacks, NEW j \in DOMAIN a.stacks, i # j,
         a.stacks[i].inv = a.stacks[j].inv, Compatible(a.stacks[i], a.stacks[j])
  PROVE  Rearranged(a, Merge(a, i, j))
<1> DEFINE b == Merge(a, i, j)
<1>1. Restacked(a, b)
  BY MergeType
<1>2. MayJoin(a.stacks[j], a.stacks[i])
  BY DEF MayJoin, Compatible
<1>3. /\ \A K : IsBlind(K) => Weigh(b.stacks, K) = Weigh(a.stacks, K)
      /\ \A item : Weigh(b.stacks, Unmarked(item)) <= Weigh(a.stacks, Unmarked(item))
  BY <1>2, MergeWeighs
<1> HIDE DEF b
<1> QED BY <1>1, <1>3, ItemsAreBlind DEF Rearranged, b

\* All that these assets may be rearranged to.
Rearrangements(a) == {b \in Assets : Rearranged(a, b)}

LEMMA RearrangementsOfRearrangements ==
  ASSUME NEW a \in Assets
  PROVE  /\ a \in Rearrangements(a)
         /\ \A b \in Rearrangements(a) : \A c : Rearranged(b, c) => c \in Rearrangements(a)
<1>1. a \in Rearrangements(a)
  BY NothingRearranged DEF Rearrangements
<1>2. ASSUME NEW b \in Rearrangements(a), NEW c, Rearranged(b, c) PROVE c \in Rearrangements(a)
  <2>1. Rearranged(a, c)
    BY <1>2, RearrangedTwice DEF Rearrangements
  <2> QED BY <2>1 DEF Rearrangements, Rearranged, Restacked
<1> QED BY <1>1, <1>2

-----------------------------------------------------------------------------
(* Where goods come from. *)

LEMMA PlainPlaces ==
  ASSUME NEW a \in Assets, NEW inv, NEW item
  PROVE  PlainStacks(a, inv, item) \subseteq DOMAIN a.stacks
BY DEF PlainStacks, StacksIn

\* What is found is a stack of the item in one of the stores.
LEMMA SourceType ==
  ASSUME NEW a \in Assets, NEW stores, Len(stores) \in Nat, DOMAIN stores = 1..Len(stores), NEW item,
         SourceIn(a, stores, item) # 0
  PROVE  \E k \in DOMAIN stores : /\ SourceIn(a, stores, item) \in PlainStacks(a, stores[k], item)
                                  /\ SourceIn(a, stores, item) \in DOMAIN a.stacks
<1> DEFINE Have == {k \in DOMAIN stores : PlainStacks(a, stores[k], item) # {}}
           first == CHOOSE k \in DOMAIN stores :
                      /\ PlainStacks(a, stores[k], item) # {}
                      /\ \A j \in 1..(k - 1) : ~(PlainStacks(a, stores[j], item) # {})
           places == PlainStacks(a, stores[first], item)
<1>1. /\ Have # {}
      /\ SourceIn(a, stores, item) = Min(places)
  BY DEF SourceIn
<1>2. Have \subseteq Nat
  OBVIOUS
<1>3. PICK k \in Have : \A j \in Have : k <= j
  BY <1>1, <1>2, LeastExists
<1>4. /\ k \in DOMAIN stores /\ PlainStacks(a, stores[k], item) # {}
      /\ \A j \in 1..(k - 1) : ~(PlainStacks(a, stores[j], item) # {})
  <2>1. ASSUME NEW j \in 1..(k - 1) PROVE ~(PlainStacks(a, stores[j], item) # {})
    <3>1. j \in DOMAIN stores /\ ~(k <= j)
      OBVIOUS
    <3> QED BY <1>3, <3>1
  <2> QED BY <2>1
<1>5. first \in DOMAIN stores /\ places # {}
  BY <1>4
<1> HIDE DEF first
<1>6. Min(places) \in places /\ Min(places) \in DOMAIN a.stacks
  BY <1>5, PlainPlaces, AssetsType, LeastPlace
<1> QED BY <1>1, <1>5, <1>6

LEMMA QuantityType ==
  ASSUME NEW a \in Assets, NEW places
  PROVE  Quantity(a, places) \in Nat
<1> DEFINE q == [i \in DOMAIN a.stacks |-> IF i \in places THEN a.stacks[i].qty ELSE 0]
<1>1. a.stacks \in Seq(Stacks) /\ DOMAIN a.stacks = 1..Len(a.stacks) /\ Len(a.stacks) \in Nat
  BY AssetsType
<1>2. ASSUME NEW i \in DOMAIN a.stacks PROVE a.stacks[i].qty \in Nat
  <2>1. a.stacks[i] \in Stacks
    BY <1>1
  <2> QED BY <2>1, StackType
<1>3. q \in [1..Len(a.stacks) -> Nat]
  BY <1>1, <1>2
<1> HIDE DEF q
<1>4. q \in Seq(Nat)
  BY <1>1, <1>3, SeqDef
<1> QED BY <1>4, TotalOfNaturals DEF Quantity, q

-----------------------------------------------------------------------------
(* The loops. *)

\* What is in a set after every step from within it is in it at the end.
LEMMA StaysIn ==
  ASSUME NEW g, NEW n \in Nat, NEW G, g[0] \in G, \A i \in 1..n : g[i - 1] \in G => g[i] \in G
  PROVE  g[n] \in G
<1> DEFINE W == {i \in 0..n : g[i] \notin G}
<1>1. 0 \notin W
  OBVIOUS
<1>2. ASSUME NEW i \in 1..n, i \in W PROVE i - 1 \in W
  <2>1. i - 1 \in 0..n
    OBVIOUS
  <2> QED BY <1>2, <2>1
<1>3. W \subseteq 0..n
  OBVIOUS
<1> HIDE DEF W
<1>4. W = {}
  BY <1>1, <1>2, <1>3, UpTo
<1>5. n \in 0..n
  OBVIOUS
<1> QED BY <1>4, <1>5 DEF W

\* All assets that differ from these in their stacks.
Restackings(a) == {b \in Assets : Restacked(a, b)}

LEMMA RestackingsOfRestackings ==
  ASSUME NEW a \in Assets
  PROVE  /\ a \in Restackings(a)
         /\ \A b \in Restackings(a) : \A c : Restacked(b, c) => c \in Restackings(a)
<1>1. a \in Restackings(a)
  BY DEF Restackings, Restacked
<1>2. ASSUME NEW b \in Restackings(a), NEW c, Restacked(b, c) PROVE c \in Restackings(a)
  BY <1>2 DEF Restackings, Restacked
<1> QED BY <1>1, <1>2

\* Rounds, one after the other.
LEMMA LoadRoundsUnfolds ==
  ASSUME NEW stores, NEW a, NEW s, NEW slot, NEW rounds \in Nat
  PROVE  \E g : /\ LoadRounds(stores, a, s, slot, rounds) = g[rounds]
                /\ g[0] = a
                /\ \A i \in 1..rounds : g[i] = LoadFrom(stores, g[i - 1], s, slot)
<1> DEFINE L == rounds
           Body(g, n) ==
             IF n = 0 THEN a
             ELSE LoadFrom(stores, g[n - 1], s, slot)
           Solves(g, n) == g = [m \in 0..n |-> Body(g, m)]
           Unsolved == {n \in 0..L : ~ \E g : Solves(g, n)}
           made == CHOOSE g : Solves(g, L)
<1>1. L \in Nat
  OBVIOUS
<1>2. LoadRounds(stores, a, s, slot, rounds) = made[L]
  BY DEF LoadRounds, Repeat
<1>3. ASSUME NEW g PROVE Body(g, 0) = a
  OBVIOUS
<1>4. ASSUME NEW g, NEW n \in 1..L
      PROVE  Body(g, n) = LoadFrom(stores, g[n - 1], s, slot)
  OBVIOUS
<1>5. ASSUME NEW g, NEW h, NEW n \in 0..L, n = 0 \/ g[n - 1] = h[n - 1]
      PROVE  Body(g, n) = Body(h, n)
  <2>1. CASE n = 0
    BY <2>1
  <2>2. CASE n # 0
    <3>1. g[n - 1] = h[n - 1]
      BY <1>5, <2>2
    <3>2. Body(g, n) = Body(h, n)
      BY <3>1, <2>2
    <3> QED BY <3>2
  <2> QED BY <2>1, <2>2
<1> HIDE DEF Body, L
<1>6. 0 \notin Unsolved
  <2> DEFINE g == [m \in 0..0 |-> Body(<<>>, m)]
  <2>1. Body(<<>>, 0) = Body(g, 0)
    BY <1>1, <1>5
  <2>2. Solves(g, 0)
    BY <2>1
  <2> HIDE DEF g, Solves
  <2> QED BY <2>2
<1>7. ASSUME NEW n \in 1..L, n \in Unsolved PROVE n - 1 \in Unsolved
  <2>1. n - 1 \in 0..L
    BY <1>1
  <2> SUFFICES ASSUME NEW f, Solves(f, n - 1) PROVE FALSE
    BY <2>1
  <2>2. ASSUME NEW m \in 0..(n - 1) PROVE f[m] = Body(f, m)
    <3>1. f = [k \in 0..(n - 1) |-> Body(f, k)]
      OBVIOUS
    <3> HIDE DEF Solves
    <3> QED BY <3>1
  <2> DEFINE g == [m \in 0..n |-> IF m = n THEN Body(f, n) ELSE f[m]]
  <2>3. ASSUME NEW m \in 0..n PROVE g[m] = Body(f, m)
    <3>1. m # n => m \in 0..(n - 1)
      BY <1>1
    <3> HIDE DEF Solves
    <3> QED BY <2>2, <3>1
  <2>4. ASSUME NEW m \in 0..n, m # 0 PROVE g[m - 1] = f[m - 1]
    <3>1. m - 1 \in 0..n /\ m - 1 # n
      BY <2>4, <1>1
    <3> QED BY <3>1
  <2>5. g = [m \in 0..n |-> g[m]]
    OBVIOUS
  <2> HIDE DEF g, Solves
  <2>6. ASSUME NEW m \in 0..n PROVE g[m] = Body(g, m)
    <3>1. m \in 0..L
      BY <1>1
    <3> QED BY <2>3, <2>4, <3>1, <1>5
  <2>7. Solves(g, n)
    BY <2>5, <2>6 DEF Solves
  <2> QED BY <2>7, <1>7
<1>8. \E g : Solves(g, L)
  <2>1. Unsolved \subseteq 0..L
    OBVIOUS
  <2>2. L \in Unsolved \/ \E g : Solves(g, L)
    <3> HIDE DEF Solves
    <3> QED BY <1>1
  <2> HIDE DEF Unsolved, Solves
  <2>3. Unsolved = {}
    BY <1>1, <1>6, <1>7, <2>1, UpTo
  <2> QED BY <2>2, <2>3
<1>9. Solves(made, L)
  <2> HIDE DEF Solves
  <2> QED BY <1>8
<1>10. ASSUME NEW m \in 0..L PROVE made[m] = Body(made, m)
  <2> HIDE DEF made
  <2> QED BY <1>9
<1> HIDE DEF made, Solves
<1>11. made[0] = a
  BY <1>1, <1>3, <1>10
<1>12. ASSUME NEW i \in 1..L PROVE made[i] = LoadFrom(stores, made[i - 1], s, slot)
  <2>1. i \in 0..L
    BY <1>1
  <2> QED BY <2>1, <1>4, <1>10
<1>13. /\ LoadRounds(stores, a, s, slot, rounds) = made[rounds]
       /\ \A i \in 1..rounds : made[i] = LoadFrom(stores, made[i - 1], s, slot)
  BY <1>2, <1>12 DEF L
<1> QED BY <1>11, <1>13

LEMMA LoadFromType ==
  ASSUME NEW stores, Len(stores) \in Nat, DOMAIN stores = 1..Len(stores), NEW a \in Assets,
         NEW s \in Ships, NEW slot \in Slots
  PROVE  Rearranged(a, LoadFrom(stores, a, s, slot))
<1> DEFINE i == SourceIn(a, stores, Ammo)
<1>1. CASE i = 0
  BY <1>1, NothingRearranged DEF LoadFrom
<1>2. CASE i # 0
  <2>1. i \in DOMAIN a.stacks
    BY <1>2, SourceType
  <2>2. a.stacks[i] \in Stacks
    BY <2>1, AssetsType
  <2>3. 1 \in Nat \ {0} /\ 1 <= a.stacks[i].qty
    BY <2>2, StackType
  <2>4. FittingStore(s) \in Places /\ Charge(slot) \in States
    BY DEF Places, States
  <2>5. LoadFrom(stores, a, s, slot) = Move(a, i, FittingStore(s), 1, Charge(slot))
    BY <1>2 DEF LoadFrom
  <2> HIDE DEF i
  <2> QED BY <2>1, <2>3, <2>4, <2>5, MoveRearranges
<1> QED BY <1>1, <1>2

LEMMA LoadRoundsType ==
  ASSUME NEW stores, Len(stores) \in Nat, DOMAIN stores = 1..Len(stores), NEW a \in Assets,
         NEW s \in Ships, NEW slot \in Slots, NEW rounds \in Nat
  PROVE  Rearranged(a, LoadRounds(stores, a, s, slot, rounds))
<1>1. PICK g : /\ LoadRounds(stores, a, s, slot, rounds) = g[rounds] /\ g[0] = a
               /\ \A i \in 1..rounds : g[i] = LoadFrom(stores, g[i - 1], s, slot)
  BY LoadRoundsUnfolds
<1> DEFINE G == Rearrangements(a)
<1>2. g[0] \in G
  BY <1>1, RearrangementsOfRearrangements
<1>3. ASSUME NEW i \in 1..rounds, g[i - 1] \in G PROVE g[i] \in G
  <2>1. g[i - 1] \in Assets
    BY <1>3 DEF Rearrangements
  <2>2. Rearranged(g[i - 1], g[i])
    BY <1>1, <2>1, LoadFromType
  <2> QED BY <1>3, <2>2, RearrangementsOfRearrangements
<1> HIDE DEF G
<1>4. g[rounds] \in G
  BY <1>2, <1>3, StaysIn
<1> QED BY <1>1, <1>4 DEF G, Rearrangements

LEMMA LoadRoundType ==
  ASSUME NEW a \in Assets, NEW s \in Ships, NEW slot \in Slots
  PROVE  Restacked(a, LoadRound(a, s, slot))
<1>1. FittingStore(s) \in Places /\ Charge(slot) \in States /\ 1 \in Nat \ {0} /\ Ammo \in Items
  BY StationAssumption DEF Places, States
<1>2. CASE OwnedRounds(a) = {}
  <2>1. LoadRound(a, s, slot) = Add(a, FittingStore(s), Ammo, 1, Charge(slot), FALSE)
    BY <1>2 DEF LoadRound
  <2> QED BY <1>1, <2>1, AddType
<1>3. CASE OwnedRounds(a) # {}
  <2> DEFINE i == Min(OwnedRounds(a))
  <2>1. i \in DOMAIN a.stacks
    <3>1. OwnedRounds(a) \subseteq DOMAIN a.stacks
      BY DEF OwnedRounds
    <3> QED BY <1>3, <3>1, AssetsType, LeastPlace
  <2>2. a.stacks[i] \in Stacks
    BY <2>1, AssetsType
  <2>3. 1 <= a.stacks[i].qty
    BY <2>2, StackType
  <2>4. LoadRound(a, s, slot) = Move(a, i, FittingStore(s), 1, Charge(slot))
    BY <1>3 DEF LoadRound
  <2> HIDE DEF i
  <2> QED BY <1>1, <2>1, <2>3, <2>4, MoveType
<1> QED BY <1>2, <1>3

LEMMA SlotsAreCounted ==
  Cardinality(Slots) \in Nat /\ Slots = 1..Cardinality(Slots)
<1>1. IsFiniteSet(Slots)
  BY InventoryAssumption
<1>2. Cardinality(Slots) \in Nat
  BY <1>1, FS_CardinalityType
<1> QED BY <1>2, StationAssumption

\* One magazine.
LEMMA FillUnfolds ==
  ASSUME NEW a, NEW s, NEW slot, NEW rounds \in Nat
  PROVE  \E g : /\ Fill(a, s, slot, rounds) = g[rounds]
                /\ g[0] = a
                /\ \A i \in 1..rounds : g[i] = LoadRound(g[i - 1], s, slot)
<1> DEFINE L == rounds
           Body(g, n) ==
             IF n = 0 THEN a
             ELSE LoadRound(g[n - 1], s, slot)
           Solves(g, n) == g = [m \in 0..n |-> Body(g, m)]
           Unsolved == {n \in 0..L : ~ \E g : Solves(g, n)}
           made == CHOOSE g : Solves(g, L)
<1>1. L \in Nat
  OBVIOUS
<1>2. Fill(a, s, slot, rounds) = made[L]
  BY DEF Fill, Repeat
<1>3. ASSUME NEW g PROVE Body(g, 0) = a
  OBVIOUS
<1>4. ASSUME NEW g, NEW n \in 1..L
      PROVE  Body(g, n) = LoadRound(g[n - 1], s, slot)
  OBVIOUS
<1>5. ASSUME NEW g, NEW h, NEW n \in 0..L, n = 0 \/ g[n - 1] = h[n - 1]
      PROVE  Body(g, n) = Body(h, n)
  <2>1. CASE n = 0
    BY <2>1
  <2>2. CASE n # 0
    <3>1. g[n - 1] = h[n - 1]
      BY <1>5, <2>2
    <3>2. Body(g, n) = Body(h, n)
      BY <3>1, <2>2
    <3> QED BY <3>2
  <2> QED BY <2>1, <2>2
<1> HIDE DEF Body, L
<1>6. 0 \notin Unsolved
  <2> DEFINE g == [m \in 0..0 |-> Body(<<>>, m)]
  <2>1. Body(<<>>, 0) = Body(g, 0)
    BY <1>1, <1>5
  <2>2. Solves(g, 0)
    BY <2>1
  <2> HIDE DEF g, Solves
  <2> QED BY <2>2
<1>7. ASSUME NEW n \in 1..L, n \in Unsolved PROVE n - 1 \in Unsolved
  <2>1. n - 1 \in 0..L
    BY <1>1
  <2> SUFFICES ASSUME NEW f, Solves(f, n - 1) PROVE FALSE
    BY <2>1
  <2>2. ASSUME NEW m \in 0..(n - 1) PROVE f[m] = Body(f, m)
    <3>1. f = [k \in 0..(n - 1) |-> Body(f, k)]
      OBVIOUS
    <3> HIDE DEF Solves
    <3> QED BY <3>1
  <2> DEFINE g == [m \in 0..n |-> IF m = n THEN Body(f, n) ELSE f[m]]
  <2>3. ASSUME NEW m \in 0..n PROVE g[m] = Body(f, m)
    <3>1. m # n => m \in 0..(n - 1)
      BY <1>1
    <3> HIDE DEF Solves
    <3> QED BY <2>2, <3>1
  <2>4. ASSUME NEW m \in 0..n, m # 0 PROVE g[m - 1] = f[m - 1]
    <3>1. m - 1 \in 0..n /\ m - 1 # n
      BY <2>4, <1>1
    <3> QED BY <3>1
  <2>5. g = [m \in 0..n |-> g[m]]
    OBVIOUS
  <2> HIDE DEF g, Solves
  <2>6. ASSUME NEW m \in 0..n PROVE g[m] = Body(g, m)
    <3>1. m \in 0..L
      BY <1>1
    <3> QED BY <2>3, <2>4, <3>1, <1>5
  <2>7. Solves(g, n)
    BY <2>5, <2>6 DEF Solves
  <2> QED BY <2>7, <1>7
<1>8. \E g : Solves(g, L)
  <2>1. Unsolved \subseteq 0..L
    OBVIOUS
  <2>2. L \in Unsolved \/ \E g : Solves(g, L)
    <3> HIDE DEF Solves
    <3> QED BY <1>1
  <2> HIDE DEF Unsolved, Solves
  <2>3. Unsolved = {}
    BY <1>1, <1>6, <1>7, <2>1, UpTo
  <2> QED BY <2>2, <2>3
<1>9. Solves(made, L)
  <2> HIDE DEF Solves
  <2> QED BY <1>8
<1>10. ASSUME NEW m \in 0..L PROVE made[m] = Body(made, m)
  <2> HIDE DEF made
  <2> QED BY <1>9
<1> HIDE DEF made, Solves
<1>11. made[0] = a
  BY <1>1, <1>3, <1>10
<1>12. ASSUME NEW i \in 1..L PROVE made[i] = LoadRound(made[i - 1], s, slot)
  <2>1. i \in 0..L
    BY <1>1
  <2> QED BY <2>1, <1>4, <1>10
<1>13. /\ Fill(a, s, slot, rounds) = made[rounds]
       /\ \A i \in 1..rounds : made[i] = LoadRound(made[i - 1], s, slot)
  BY <1>2, <1>12 DEF L
<1> QED BY <1>11, <1>13

\* All magazines.
LEMMA ResupplyUnfolds ==
  ASSUME NEW a, NEW s
  PROVE  \E g : /\ ApplyResupply(a, s) = g[Cardinality(Slots)]
                /\ g[0] = a
                /\ \A i \in 1..Cardinality(Slots) : g[i] = Fill(g[i - 1], s, i, Missing(a, s, i))
<1> DEFINE L == Cardinality(Slots)
           Body(g, n) ==
             IF n = 0 THEN a
             ELSE Fill(g[n - 1], s, n, Missing(a, s, n))
           Solves(g, n) == g = [m \in 0..n |-> Body(g, m)]
           Unsolved == {n \in 0..L : ~ \E g : Solves(g, n)}
           made == CHOOSE g : Solves(g, L)
<1>1. L \in Nat
  BY SlotsAreCounted
<1>2. ApplyResupply(a, s) = made[L]
  BY DEF ApplyResupply
<1>3. ASSUME NEW g PROVE Body(g, 0) = a
  OBVIOUS
<1>4. ASSUME NEW g, NEW n \in 1..L
      PROVE  Body(g, n) = Fill(g[n - 1], s, n, Missing(a, s, n))
  OBVIOUS
<1>5. ASSUME NEW g, NEW h, NEW n \in 0..L, n = 0 \/ g[n - 1] = h[n - 1]
      PROVE  Body(g, n) = Body(h, n)
  <2>1. CASE n = 0
    BY <2>1
  <2>2. CASE n # 0
    <3>1. g[n - 1] = h[n - 1]
      BY <1>5, <2>2
    <3>2. Body(g, n) = Body(h, n)
      BY <3>1, <2>2
    <3> QED BY <3>2
  <2> QED BY <2>1, <2>2
<1> HIDE DEF Body, L
<1>6. 0 \notin Unsolved
  <2> DEFINE g == [m \in 0..0 |-> Body(<<>>, m)]
  <2>1. Body(<<>>, 0) = Body(g, 0)
    BY <1>1, <1>5
  <2>2. Solves(g, 0)
    BY <2>1
  <2> HIDE DEF g, Solves
  <2> QED BY <2>2
<1>7. ASSUME NEW n \in 1..L, n \in Unsolved PROVE n - 1 \in Unsolved
  <2>1. n - 1 \in 0..L
    BY <1>1
  <2> SUFFICES ASSUME NEW f, Solves(f, n - 1) PROVE FALSE
    BY <2>1
  <2>2. ASSUME NEW m \in 0..(n - 1) PROVE f[m] = Body(f, m)
    <3>1. f = [k \in 0..(n - 1) |-> Body(f, k)]
      OBVIOUS
    <3> HIDE DEF Solves
    <3> QED BY <3>1
  <2> DEFINE g == [m \in 0..n |-> IF m = n THEN Body(f, n) ELSE f[m]]
  <2>3. ASSUME NEW m \in 0..n PROVE g[m] = Body(f, m)
    <3>1. m # n => m \in 0..(n - 1)
      BY <1>1
    <3> HIDE DEF Solves
    <3> QED BY <2>2, <3>1
  <2>4. ASSUME NEW m \in 0..n, m # 0 PROVE g[m - 1] = f[m - 1]
    <3>1. m - 1 \in 0..n /\ m - 1 # n
      BY <2>4, <1>1
    <3> QED BY <3>1
  <2>5. g = [m \in 0..n |-> g[m]]
    OBVIOUS
  <2> HIDE DEF g, Solves
  <2>6. ASSUME NEW m \in 0..n PROVE g[m] = Body(g, m)
    <3>1. m \in 0..L
      BY <1>1
    <3> QED BY <2>3, <2>4, <3>1, <1>5
  <2>7. Solves(g, n)
    BY <2>5, <2>6 DEF Solves
  <2> QED BY <2>7, <1>7
<1>8. \E g : Solves(g, L)
  <2>1. Unsolved \subseteq 0..L
    OBVIOUS
  <2>2. L \in Unsolved \/ \E g : Solves(g, L)
    <3> HIDE DEF Solves
    <3> QED BY <1>1
  <2> HIDE DEF Unsolved, Solves
  <2>3. Unsolved = {}
    BY <1>1, <1>6, <1>7, <2>1, UpTo
  <2> QED BY <2>2, <2>3
<1>9. Solves(made, L)
  <2> HIDE DEF Solves
  <2> QED BY <1>8
<1>10. ASSUME NEW m \in 0..L PROVE made[m] = Body(made, m)
  <2> HIDE DEF made
  <2> QED BY <1>9
<1> HIDE DEF made, Solves
<1>11. made[0] = a
  BY <1>1, <1>3, <1>10
<1>12. ASSUME NEW i \in 1..L PROVE made[i] = Fill(made[i - 1], s, i, Missing(a, s, i))
  <2>1. i \in 0..L
    BY <1>1
  <2> QED BY <2>1, <1>4, <1>10
<1>13. /\ ApplyResupply(a, s) = made[Cardinality(Slots)]
       /\ \A i \in 1..Cardinality(Slots) : made[i] = Fill(made[i - 1], s, i, Missing(a, s, i))
  BY <1>2, <1>12 DEF L
<1> QED BY <1>11, <1>13

\* What comes off.
LEMMA StripUnfolds ==
  ASSUME NEW a, NEW d
  PROVE  \E g : /\ Strip(a, d) = g[(2 * Cardinality(Slots))]
                /\ g[0] = a
                /\ \A i \in 1..(2 * Cardinality(Slots)) : g[i] = StripOne(g[i - 1], d)
<1> DEFINE L == (2 * Cardinality(Slots))
           Body(g, n) ==
             IF n = 0 THEN a
             ELSE StripOne(g[n - 1], d)
           Solves(g, n) == g = [m \in 0..n |-> Body(g, m)]
           Unsolved == {n \in 0..L : ~ \E g : Solves(g, n)}
           made == CHOOSE g : Solves(g, L)
<1>1. L \in Nat
  BY SlotsAreCounted
<1>2. Strip(a, d) = made[L]
  BY DEF Strip, Repeat
<1>3. ASSUME NEW g PROVE Body(g, 0) = a
  OBVIOUS
<1>4. ASSUME NEW g, NEW n \in 1..L
      PROVE  Body(g, n) = StripOne(g[n - 1], d)
  OBVIOUS
<1>5. ASSUME NEW g, NEW h, NEW n \in 0..L, n = 0 \/ g[n - 1] = h[n - 1]
      PROVE  Body(g, n) = Body(h, n)
  <2>1. CASE n = 0
    BY <2>1
  <2>2. CASE n # 0
    <3>1. g[n - 1] = h[n - 1]
      BY <1>5, <2>2
    <3>2. Body(g, n) = Body(h, n)
      BY <3>1, <2>2
    <3> QED BY <3>2
  <2> QED BY <2>1, <2>2
<1> HIDE DEF Body, L
<1>6. 0 \notin Unsolved
  <2> DEFINE g == [m \in 0..0 |-> Body(<<>>, m)]
  <2>1. Body(<<>>, 0) = Body(g, 0)
    BY <1>1, <1>5
  <2>2. Solves(g, 0)
    BY <2>1
  <2> HIDE DEF g, Solves
  <2> QED BY <2>2
<1>7. ASSUME NEW n \in 1..L, n \in Unsolved PROVE n - 1 \in Unsolved
  <2>1. n - 1 \in 0..L
    BY <1>1
  <2> SUFFICES ASSUME NEW f, Solves(f, n - 1) PROVE FALSE
    BY <2>1
  <2>2. ASSUME NEW m \in 0..(n - 1) PROVE f[m] = Body(f, m)
    <3>1. f = [k \in 0..(n - 1) |-> Body(f, k)]
      OBVIOUS
    <3> HIDE DEF Solves
    <3> QED BY <3>1
  <2> DEFINE g == [m \in 0..n |-> IF m = n THEN Body(f, n) ELSE f[m]]
  <2>3. ASSUME NEW m \in 0..n PROVE g[m] = Body(f, m)
    <3>1. m # n => m \in 0..(n - 1)
      BY <1>1
    <3> HIDE DEF Solves
    <3> QED BY <2>2, <3>1
  <2>4. ASSUME NEW m \in 0..n, m # 0 PROVE g[m - 1] = f[m - 1]
    <3>1. m - 1 \in 0..n /\ m - 1 # n
      BY <2>4, <1>1
    <3> QED BY <3>1
  <2>5. g = [m \in 0..n |-> g[m]]
    OBVIOUS
  <2> HIDE DEF g, Solves
  <2>6. ASSUME NEW m \in 0..n PROVE g[m] = Body(g, m)
    <3>1. m \in 0..L
      BY <1>1
    <3> QED BY <2>3, <2>4, <3>1, <1>5
  <2>7. Solves(g, n)
    BY <2>5, <2>6 DEF Solves
  <2> QED BY <2>7, <1>7
<1>8. \E g : Solves(g, L)
  <2>1. Unsolved \subseteq 0..L
    OBVIOUS
  <2>2. L \in Unsolved \/ \E g : Solves(g, L)
    <3> HIDE DEF Solves
    <3> QED BY <1>1
  <2> HIDE DEF Unsolved, Solves
  <2>3. Unsolved = {}
    BY <1>1, <1>6, <1>7, <2>1, UpTo
  <2> QED BY <2>2, <2>3
<1>9. Solves(made, L)
  <2> HIDE DEF Solves
  <2> QED BY <1>8
<1>10. ASSUME NEW m \in 0..L PROVE made[m] = Body(made, m)
  <2> HIDE DEF made
  <2> QED BY <1>9
<1> HIDE DEF made, Solves
<1>11. made[0] = a
  BY <1>1, <1>3, <1>10
<1>12. ASSUME NEW i \in 1..L PROVE made[i] = StripOne(made[i - 1], d)
  <2>1. i \in 0..L
    BY <1>1
  <2> QED BY <2>1, <1>4, <1>10
<1>13. /\ Strip(a, d) = made[(2 * Cardinality(Slots))]
       /\ \A i \in 1..(2 * Cardinality(Slots)) : made[i] = StripOne(made[i - 1], d)
  BY <1>2, <1>12 DEF L
<1> QED BY <1>11, <1>13

\* All slots.
LEMMA DraftUnfolds ==
  ASSUME NEW a, NEW d
  PROVE  \E g : /\ ApplyDraftTo(a, d) = g[Cardinality(Slots)]
                /\ g[0] = Strip(a, d)
                /\ \A i \in 1..Cardinality(Slots) : g[i] = FitSlot(g[i - 1], d, i)
<1> DEFINE L == Cardinality(Slots)
           Body(g, n) ==
             IF n = 0 THEN Strip(a, d)
             ELSE FitSlot(g[n - 1], d, n)
           Solves(g, n) == g = [m \in 0..n |-> Body(g, m)]
           Unsolved == {n \in 0..L : ~ \E g : Solves(g, n)}
           made == CHOOSE g : Solves(g, L)
<1>1. L \in Nat
  BY SlotsAreCounted
<1>2. ApplyDraftTo(a, d) = made[L]
  BY DEF ApplyDraftTo
<1>3. ASSUME NEW g PROVE Body(g, 0) = Strip(a, d)
  OBVIOUS
<1>4. ASSUME NEW g, NEW n \in 1..L
      PROVE  Body(g, n) = FitSlot(g[n - 1], d, n)
  OBVIOUS
<1>5. ASSUME NEW g, NEW h, NEW n \in 0..L, n = 0 \/ g[n - 1] = h[n - 1]
      PROVE  Body(g, n) = Body(h, n)
  <2>1. CASE n = 0
    BY <2>1
  <2>2. CASE n # 0
    <3>1. g[n - 1] = h[n - 1]
      BY <1>5, <2>2
    <3>2. Body(g, n) = Body(h, n)
      BY <3>1, <2>2
    <3> QED BY <3>2
  <2> QED BY <2>1, <2>2
<1> HIDE DEF Body, L
<1>6. 0 \notin Unsolved
  <2> DEFINE g == [m \in 0..0 |-> Body(<<>>, m)]
  <2>1. Body(<<>>, 0) = Body(g, 0)
    BY <1>1, <1>5
  <2>2. Solves(g, 0)
    BY <2>1
  <2> HIDE DEF g, Solves
  <2> QED BY <2>2
<1>7. ASSUME NEW n \in 1..L, n \in Unsolved PROVE n - 1 \in Unsolved
  <2>1. n - 1 \in 0..L
    BY <1>1
  <2> SUFFICES ASSUME NEW f, Solves(f, n - 1) PROVE FALSE
    BY <2>1
  <2>2. ASSUME NEW m \in 0..(n - 1) PROVE f[m] = Body(f, m)
    <3>1. f = [k \in 0..(n - 1) |-> Body(f, k)]
      OBVIOUS
    <3> HIDE DEF Solves
    <3> QED BY <3>1
  <2> DEFINE g == [m \in 0..n |-> IF m = n THEN Body(f, n) ELSE f[m]]
  <2>3. ASSUME NEW m \in 0..n PROVE g[m] = Body(f, m)
    <3>1. m # n => m \in 0..(n - 1)
      BY <1>1
    <3> HIDE DEF Solves
    <3> QED BY <2>2, <3>1
  <2>4. ASSUME NEW m \in 0..n, m # 0 PROVE g[m - 1] = f[m - 1]
    <3>1. m - 1 \in 0..n /\ m - 1 # n
      BY <2>4, <1>1
    <3> QED BY <3>1
  <2>5. g = [m \in 0..n |-> g[m]]
    OBVIOUS
  <2> HIDE DEF g, Solves
  <2>6. ASSUME NEW m \in 0..n PROVE g[m] = Body(g, m)
    <3>1. m \in 0..L
      BY <1>1
    <3> QED BY <2>3, <2>4, <3>1, <1>5
  <2>7. Solves(g, n)
    BY <2>5, <2>6 DEF Solves
  <2> QED BY <2>7, <1>7
<1>8. \E g : Solves(g, L)
  <2>1. Unsolved \subseteq 0..L
    OBVIOUS
  <2>2. L \in Unsolved \/ \E g : Solves(g, L)
    <3> HIDE DEF Solves
    <3> QED BY <1>1
  <2> HIDE DEF Unsolved, Solves
  <2>3. Unsolved = {}
    BY <1>1, <1>6, <1>7, <2>1, UpTo
  <2> QED BY <2>2, <2>3
<1>9. Solves(made, L)
  <2> HIDE DEF Solves
  <2> QED BY <1>8
<1>10. ASSUME NEW m \in 0..L PROVE made[m] = Body(made, m)
  <2> HIDE DEF made
  <2> QED BY <1>9
<1> HIDE DEF made, Solves
<1>11. made[0] = Strip(a, d)
  BY <1>1, <1>3, <1>10
<1>12. ASSUME NEW i \in 1..L PROVE made[i] = FitSlot(made[i - 1], d, i)
  <2>1. i \in 0..L
    BY <1>1
  <2> QED BY <2>1, <1>4, <1>10
<1>13. /\ ApplyDraftTo(a, d) = made[Cardinality(Slots)]
       /\ \A i \in 1..Cardinality(Slots) : made[i] = FitSlot(made[i - 1], d, i)
  BY <1>2, <1>12 DEF L
<1> QED BY <1>11, <1>13

\* What a lost ship carried.
LEMMA SettledUnfolds ==
  ASSUME NEW a, NEW s, NEW survivors, Len(a.stacks) \in Nat
  PROVE  \E g : /\ SettledStacks(a, s, survivors) = g[Len(a.stacks)]
                /\ g[0] = <<>>
                /\ \A i \in 1..Len(a.stacks) : g[i] = Settle(a, s, survivors, g[i - 1], i)
<1> DEFINE L == Len(a.stacks)
           Body(g, n) ==
             IF n = 0 THEN <<>>
             ELSE Settle(a, s, survivors, g[n - 1], n)
           Solves(g, n) == g = [m \in 0..n |-> Body(g, m)]
           Unsolved == {n \in 0..L : ~ \E g : Solves(g, n)}
           made == CHOOSE g : Solves(g, L)
<1>1. L \in Nat
  OBVIOUS
<1>2. SettledStacks(a, s, survivors) = made[L]
  BY DEF SettledStacks
<1>3. ASSUME NEW g PROVE Body(g, 0) = <<>>
  OBVIOUS
<1>4. ASSUME NEW g, NEW n \in 1..L
      PROVE  Body(g, n) = Settle(a, s, survivors, g[n - 1], n)
  OBVIOUS
<1>5. ASSUME NEW g, NEW h, NEW n \in 0..L, n = 0 \/ g[n - 1] = h[n - 1]
      PROVE  Body(g, n) = Body(h, n)
  <2>1. CASE n = 0
    BY <2>1
  <2>2. CASE n # 0
    <3>1. g[n - 1] = h[n - 1]
      BY <1>5, <2>2
    <3>2. Body(g, n) = Body(h, n)
      BY <3>1, <2>2
    <3> QED BY <3>2
  <2> QED BY <2>1, <2>2
<1> HIDE DEF Body, L
<1>6. 0 \notin Unsolved
  <2> DEFINE g == [m \in 0..0 |-> Body(<<>>, m)]
  <2>1. Body(<<>>, 0) = Body(g, 0)
    BY <1>1, <1>5
  <2>2. Solves(g, 0)
    BY <2>1
  <2> HIDE DEF g, Solves
  <2> QED BY <2>2
<1>7. ASSUME NEW n \in 1..L, n \in Unsolved PROVE n - 1 \in Unsolved
  <2>1. n - 1 \in 0..L
    BY <1>1
  <2> SUFFICES ASSUME NEW f, Solves(f, n - 1) PROVE FALSE
    BY <2>1
  <2>2. ASSUME NEW m \in 0..(n - 1) PROVE f[m] = Body(f, m)
    <3>1. f = [k \in 0..(n - 1) |-> Body(f, k)]
      OBVIOUS
    <3> HIDE DEF Solves
    <3> QED BY <3>1
  <2> DEFINE g == [m \in 0..n |-> IF m = n THEN Body(f, n) ELSE f[m]]
  <2>3. ASSUME NEW m \in 0..n PROVE g[m] = Body(f, m)
    <3>1. m # n => m \in 0..(n - 1)
      BY <1>1
    <3> HIDE DEF Solves
    <3> QED BY <2>2, <3>1
  <2>4. ASSUME NEW m \in 0..n, m # 0 PROVE g[m - 1] = f[m - 1]
    <3>1. m - 1 \in 0..n /\ m - 1 # n
      BY <2>4, <1>1
    <3> QED BY <3>1
  <2>5. g = [m \in 0..n |-> g[m]]
    OBVIOUS
  <2> HIDE DEF g, Solves
  <2>6. ASSUME NEW m \in 0..n PROVE g[m] = Body(g, m)
    <3>1. m \in 0..L
      BY <1>1
    <3> QED BY <2>3, <2>4, <3>1, <1>5
  <2>7. Solves(g, n)
    BY <2>5, <2>6 DEF Solves
  <2> QED BY <2>7, <1>7
<1>8. \E g : Solves(g, L)
  <2>1. Unsolved \subseteq 0..L
    OBVIOUS
  <2>2. L \in Unsolved \/ \E g : Solves(g, L)
    <3> HIDE DEF Solves
    <3> QED BY <1>1
  <2> HIDE DEF Unsolved, Solves
  <2>3. Unsolved = {}
    BY <1>1, <1>6, <1>7, <2>1, UpTo
  <2> QED BY <2>2, <2>3
<1>9. Solves(made, L)
  <2> HIDE DEF Solves
  <2> QED BY <1>8
<1>10. ASSUME NEW m \in 0..L PROVE made[m] = Body(made, m)
  <2> HIDE DEF made
  <2> QED BY <1>9
<1> HIDE DEF made, Solves
<1>11. made[0] = <<>>
  BY <1>1, <1>3, <1>10
<1>12. ASSUME NEW i \in 1..L PROVE made[i] = Settle(a, s, survivors, made[i - 1], i)
  <2>1. i \in 0..L
    BY <1>1
  <2> QED BY <2>1, <1>4, <1>10
<1>13. /\ SettledStacks(a, s, survivors) = made[Len(a.stacks)]
       /\ \A i \in 1..Len(a.stacks) : made[i] = Settle(a, s, survivors, made[i - 1], i)
  BY <1>2, <1>12 DEF L
<1> QED BY <1>11, <1>13

\* What was not in the wreck.
LEMMA KeptUnfolds ==
  ASSUME NEW a, Len(a.stacks) \in Nat
  PROVE  \E g : /\ KeptStacks(a) = g[Len(a.stacks)]
                /\ g[0] = <<>>
                /\ \A i \in 1..Len(a.stacks) : g[i] = KeepUnlessWrecked(g[i - 1], a.stacks[i])
<1> DEFINE L == Len(a.stacks)
           Body(g, n) ==
             IF n = 0 THEN <<>>
             ELSE KeepUnlessWrecked(g[n - 1], a.stacks[n])
           Solves(g, n) == g = [m \in 0..n |-> Body(g, m)]
           Unsolved == {n \in 0..L : ~ \E g : Solves(g, n)}
           made == CHOOSE g : Solves(g, L)
<1>1. L \in Nat
  OBVIOUS
<1>2. KeptStacks(a) = made[L]
  BY DEF KeptStacks
<1>3. ASSUME NEW g PROVE Body(g, 0) = <<>>
  OBVIOUS
<1>4. ASSUME NEW g, NEW n \in 1..L
      PROVE  Body(g, n) = KeepUnlessWrecked(g[n - 1], a.stacks[n])
  OBVIOUS
<1>5. ASSUME NEW g, NEW h, NEW n \in 0..L, n = 0 \/ g[n - 1] = h[n - 1]
      PROVE  Body(g, n) = Body(h, n)
  <2>1. CASE n = 0
    BY <2>1
  <2>2. CASE n # 0
    <3>1. g[n - 1] = h[n - 1]
      BY <1>5, <2>2
    <3>2. Body(g, n) = Body(h, n)
      BY <3>1, <2>2
    <3> QED BY <3>2
  <2> QED BY <2>1, <2>2
<1> HIDE DEF Body, L
<1>6. 0 \notin Unsolved
  <2> DEFINE g == [m \in 0..0 |-> Body(<<>>, m)]
  <2>1. Body(<<>>, 0) = Body(g, 0)
    BY <1>1, <1>5
  <2>2. Solves(g, 0)
    BY <2>1
  <2> HIDE DEF g, Solves
  <2> QED BY <2>2
<1>7. ASSUME NEW n \in 1..L, n \in Unsolved PROVE n - 1 \in Unsolved
  <2>1. n - 1 \in 0..L
    BY <1>1
  <2> SUFFICES ASSUME NEW f, Solves(f, n - 1) PROVE FALSE
    BY <2>1
  <2>2. ASSUME NEW m \in 0..(n - 1) PROVE f[m] = Body(f, m)
    <3>1. f = [k \in 0..(n - 1) |-> Body(f, k)]
      OBVIOUS
    <3> HIDE DEF Solves
    <3> QED BY <3>1
  <2> DEFINE g == [m \in 0..n |-> IF m = n THEN Body(f, n) ELSE f[m]]
  <2>3. ASSUME NEW m \in 0..n PROVE g[m] = Body(f, m)
    <3>1. m # n => m \in 0..(n - 1)
      BY <1>1
    <3> HIDE DEF Solves
    <3> QED BY <2>2, <3>1
  <2>4. ASSUME NEW m \in 0..n, m # 0 PROVE g[m - 1] = f[m - 1]
    <3>1. m - 1 \in 0..n /\ m - 1 # n
      BY <2>4, <1>1
    <3> QED BY <3>1
  <2>5. g = [m \in 0..n |-> g[m]]
    OBVIOUS
  <2> HIDE DEF g, Solves
  <2>6. ASSUME NEW m \in 0..n PROVE g[m] = Body(g, m)
    <3>1. m \in 0..L
      BY <1>1
    <3> QED BY <2>3, <2>4, <3>1, <1>5
  <2>7. Solves(g, n)
    BY <2>5, <2>6 DEF Solves
  <2> QED BY <2>7, <1>7
<1>8. \E g : Solves(g, L)
  <2>1. Unsolved \subseteq 0..L
    OBVIOUS
  <2>2. L \in Unsolved \/ \E g : Solves(g, L)
    <3> HIDE DEF Solves
    <3> QED BY <1>1
  <2> HIDE DEF Unsolved, Solves
  <2>3. Unsolved = {}
    BY <1>1, <1>6, <1>7, <2>1, UpTo
  <2> QED BY <2>2, <2>3
<1>9. Solves(made, L)
  <2> HIDE DEF Solves
  <2> QED BY <1>8
<1>10. ASSUME NEW m \in 0..L PROVE made[m] = Body(made, m)
  <2> HIDE DEF made
  <2> QED BY <1>9
<1> HIDE DEF made, Solves
<1>11. made[0] = <<>>
  BY <1>1, <1>3, <1>10
<1>12. ASSUME NEW i \in 1..L PROVE made[i] = KeepUnlessWrecked(made[i - 1], a.stacks[i])
  <2>1. i \in 0..L
    BY <1>1
  <2> QED BY <2>1, <1>4, <1>10
<1>13. /\ KeptStacks(a) = made[Len(a.stacks)]
       /\ \A i \in 1..Len(a.stacks) : made[i] = KeepUnlessWrecked(made[i - 1], a.stacks[i])
  BY <1>2, <1>12 DEF L
<1> QED BY <1>11, <1>13

-----------------------------------------------------------------------------
(* What the loops leave. *)

LEMMA LoadedType ==
  ASSUME NEW a \in Assets, NEW s, NEW slot
  PROVE  Loaded(a, s, slot) \in Nat /\ Missing(a, s, slot) \in Nat
<1>1. Loaded(a, s, slot) \in Nat
  BY QuantityType DEF Loaded
<1>2. MagazineSize \in Nat
  BY StationAssumption
<1>3. MagazineSize - Loaded(a, s, slot) \in Int
  BY <1>1, <1>2
<1>4. Max({0, MagazineSize - Loaded(a, s, slot)}) \in Nat
  BY <1>3, MaxOfTwo
<1> QED BY <1>1, <1>4 DEF Missing

LEMMA FillType ==
  ASSUME NEW a \in Assets, NEW s \in Ships, NEW slot \in Slots, NEW rounds \in Nat
  PROVE  Restacked(a, Fill(a, s, slot, rounds))
<1>1. PICK g : /\ Fill(a, s, slot, rounds) = g[rounds] /\ g[0] = a
               /\ \A i \in 1..rounds : g[i] = LoadRound(g[i - 1], s, slot)
  BY FillUnfolds
<1> DEFINE G == Restackings(a)
<1>2. g[0] \in G
  BY <1>1, RestackingsOfRestackings
<1>3. ASSUME NEW i \in 1..rounds, g[i - 1] \in G PROVE g[i] \in G
  <2>1. g[i - 1] \in Assets
    BY <1>3 DEF Restackings
  <2>2. Restacked(g[i - 1], g[i])
    BY <1>1, <2>1, LoadRoundType
  <2> QED BY <1>3, <2>2, RestackingsOfRestackings
<1> HIDE DEF G
<1>4. g[rounds] \in G
  BY <1>2, <1>3, StaysIn
<1> QED BY <1>1, <1>4 DEF G, Restackings

LEMMA ResupplyType ==
  ASSUME NEW a \in Assets, NEW s \in Ships
  PROVE  Restacked(a, ApplyResupply(a, s))
<1> DEFINE last == Cardinality(Slots)
<1>1. PICK g : /\ ApplyResupply(a, s) = g[last] /\ g[0] = a
               /\ \A i \in 1..last : g[i] = Fill(g[i - 1], s, i, Missing(a, s, i))
  BY ResupplyUnfolds
<1>2. last \in Nat /\ Slots = 1..last
  BY SlotsAreCounted
<1> DEFINE G == Restackings(a)
<1>3. g[0] \in G
  BY <1>1, RestackingsOfRestackings
<1>4. ASSUME NEW i \in 1..last, g[i - 1] \in G PROVE g[i] \in G
  <2>1. g[i - 1] \in Assets
    BY <1>4 DEF Restackings
  <2>2. Restacked(g[i - 1], g[i])
    <3>1. i \in Slots /\ Missing(a, s, i) \in Nat
      BY <1>2, LoadedType
    <3>2. g[i] = Fill(g[i - 1], s, i, Missing(a, s, i))
      BY <1>1
    <3> QED BY <2>1, <3>1, <3>2, FillType
  <2> QED BY <1>4, <2>2, RestackingsOfRestackings
<1> HIDE DEF G, last
<1>5. g[last] \in G
  BY <1>2, <1>3, <1>4, StaysIn
<1> QED BY <1>1, <1>5 DEF G, Restackings

LEMMA StripOneType ==
  ASSUME NEW a \in Assets, NEW d
  PROVE  Rearranged(a, StripOne(a, d))
<1>1. CASE Unwanted(a, d) = {}
  BY <1>1, NothingRearranged DEF StripOne
<1>2. CASE Unwanted(a, d) # {}
  <2> DEFINE i == Min(Unwanted(a, d))
  <2>1. Unwanted(a, d) \subseteq DOMAIN a.stacks
    BY DEF Unwanted, StacksIn
  <2>2. i \in DOMAIN a.stacks
    BY <1>2, <2>1, AssetsType, LeastPlace
  <2>3. a.stacks[i] \in Stacks
    BY <2>2, AssetsType
  <2>4. a.stacks[i].qty \in Nat \ {0} /\ a.stacks[i].qty <= a.stacks[i].qty
    BY <2>3, StackType
  <2>5. Hangar \in Places /\ Plain \in States
    BY DEF Places, States
  <2>6. StripOne(a, d) = Move(a, i, Hangar, a.stacks[i].qty, Plain)
    BY <1>2 DEF StripOne
  <2> HIDE DEF i
  <2> QED BY <2>2, <2>4, <2>5, <2>6, MoveRearranges
<1> QED BY <1>1, <1>2

LEMMA StripType ==
  ASSUME NEW a \in Assets, NEW d
  PROVE  Rearranged(a, Strip(a, d))
<1> DEFINE last == 2 * Cardinality(Slots)
<1>1. PICK g : /\ Strip(a, d) = g[last] /\ g[0] = a
               /\ \A i \in 1..last : g[i] = StripOne(g[i - 1], d)
  BY StripUnfolds
<1>2. last \in Nat
  BY SlotsAreCounted
<1> DEFINE G == Rearrangements(a)
<1>3. g[0] \in G
  BY <1>1, RearrangementsOfRearrangements
<1>4. ASSUME NEW i \in 1..last, g[i - 1] \in G PROVE g[i] \in G
  <2>1. g[i - 1] \in Assets
    BY <1>4 DEF Rearrangements
  <2>2. Rearranged(g[i - 1], g[i])
    BY <1>1, <2>1, StripOneType
  <2> QED BY <1>4, <2>2, RearrangementsOfRearrangements
<1> HIDE DEF G, last
<1>5. g[last] \in G
  BY <1>2, <1>3, <1>4, StaysIn
<1> QED BY <1>1, <1>5 DEF G, Rearrangements

LEMMA StoresAreTwo ==
  ASSUME NEW d
  PROVE  Len(Stores(d)) \in Nat /\ DOMAIN Stores(d) = 1..Len(Stores(d))
BY DEF Stores

LEMMA FitModuleType ==
  ASSUME NEW a \in Assets, NEW d \in Drafts, NEW slot \in Slots
  PROVE  FitModule(a, d, slot) = NoOne \/ Rearranged(a, FitModule(a, d, slot))
<1> DEFINE i == SourceIn(a, Stores(d), Gun)
<1>1. CASE ~d.slots[slot].weapon \/ ModuleAt(a, d.ship, slot) # {}
  <2>1. FitModule(a, d, slot) = a
    BY <1>1 DEF FitModule
  <2> QED BY <2>1, NothingRearranged
<1>2. CASE i = 0 /\ ~(~d.slots[slot].weapon \/ ModuleAt(a, d.ship, slot) # {})
  BY <1>2 DEF FitModule
<1>3. CASE i # 0 /\ ~(~d.slots[slot].weapon \/ ModuleAt(a, d.ship, slot) # {})
  <2>1. i \in DOMAIN a.stacks
    BY <1>3, StoresAreTwo, SourceType
  <2>2. a.stacks[i] \in Stacks
    BY <2>1, AssetsType
  <2>3. 1 \in Nat \ {0} /\ 1 <= a.stacks[i].qty
    BY <2>2, StackType
  <2>4. FittingStore(d.ship) \in Places /\ Fitted(slot) \in States
    BY DEF Places, States, Drafts
  <2>5. FitModule(a, d, slot) = Move(a, i, FittingStore(d.ship), 1, Fitted(slot))
    BY <1>3 DEF FitModule
  <2> HIDE DEF i
  <2> QED BY <2>1, <2>3, <2>4, <2>5, MoveRearranges
<1> QED BY <1>1, <1>2, <1>3

LEMMA FitChargeType ==
  ASSUME NEW a \in Assets, NEW d \in Drafts, NEW slot \in Slots
  PROVE  FitCharge(a, d, slot) = NoOne \/ Rearranged(a, FitCharge(a, d, slot))
<1> DEFINE rounds == Min({MagazineSize, Available(a, Stores(d), Ammo)})
           kept == ~d.slots[slot].loaded \/ ChargeAt(a, d.ship, slot) # {}
<1>1. FitCharge(a, d, slot) =
        IF kept THEN a ELSE IF rounds = 0 THEN NoOne
        ELSE LoadRounds(Stores(d), a, d.ship, slot, rounds)
  BY DEF FitCharge
<1>2. rounds \in Nat
  <2>1. Available(a, Stores(d), Ammo) \in Nat /\ MagazineSize \in Nat
    BY QuantityType, StationAssumption DEF Available
  <2> QED BY <2>1, MinOfTwo
<1>3. Rearranged(a, LoadRounds(Stores(d), a, d.ship, slot, rounds))
  <2>1. d.ship \in Ships
    BY DEF Drafts
  <2> HIDE DEF rounds
  <2> QED BY <1>2, <2>1, StoresAreTwo, LoadRoundsType
<1>4. Rearranged(a, a)
  BY NothingRearranged
<1> HIDE DEF rounds, kept
<1> QED BY <1>1, <1>3, <1>4

LEMMA FitSlotType ==
  ASSUME NEW a, NEW b \in Rearrangements(a), NEW d \in Drafts, NEW slot \in Slots, a \in Assets
  PROVE  FitSlot(b, d, slot) \in Rearrangements(a) \cup {NoOne}
<1> DEFINE c == FitModule(b, d, slot)
<1>1. b \in Assets
  BY DEF Rearrangements
<1>2. c = NoOne \/ Rearranged(b, c)
  BY <1>1, FitModuleType
<1>3. FitSlot(b, d, slot) \in {NoOne, FitCharge(c, d, slot)}
  BY DEF FitSlot
<1>4. FitSlot(b, d, slot) = NoOne \/ c # NoOne
  BY DEF FitSlot
<1> HIDE DEF c
<1>5. ASSUME c # NoOne PROVE FitCharge(c, d, slot) \in Rearrangements(a) \cup {NoOne}
  <2>1. Rearranged(b, c) /\ c \in Assets
    BY <1>2, <1>5 DEF Rearranged, Restacked
  <2>2. c \in Rearrangements(a)
    BY <2>1, RearrangementsOfRearrangements
  <2>3. FitCharge(c, d, slot) = NoOne \/ Rearranged(c, FitCharge(c, d, slot))
    BY <2>1, FitChargeType
  <2> QED BY <2>2, <2>3, RearrangementsOfRearrangements
<1> QED BY <1>3, <1>4, <1>5

LEMMA DraftType ==
  ASSUME NEW a \in Assets, NEW d \in Drafts
  PROVE  ApplyDraftTo(a, d) = NoOne \/ Rearranged(a, ApplyDraftTo(a, d))
<1> DEFINE last == Cardinality(Slots)
<1>1. PICK g : /\ ApplyDraftTo(a, d) = g[last] /\ g[0] = Strip(a, d)
               /\ \A i \in 1..last : g[i] = FitSlot(g[i - 1], d, i)
  BY DraftUnfolds
<1>2. last \in Nat /\ Slots = 1..last
  BY SlotsAreCounted
<1> DEFINE G == Rearrangements(a) \cup {NoOne}
<1>3. g[0] \in G
  <2>1. Rearranged(a, Strip(a, d))
    BY StripType
  <2> QED BY <1>1, <2>1, RearrangementsOfRearrangements
<1>4. ASSUME NEW i \in 1..last, g[i - 1] \in G PROVE g[i] \in G
  <2>1. i \in Slots /\ g[i] = FitSlot(g[i - 1], d, i)
    BY <1>1, <1>2
  <2>2. CASE g[i - 1] = NoOne
    <3>1. FitSlot(g[i - 1], d, i) = NoOne
      BY <2>2 DEF FitSlot
    <3> QED BY <2>1, <3>1
  <2>3. CASE g[i - 1] \in Rearrangements(a)
    BY <2>1, <2>3, FitSlotType
  <2> QED BY <1>4, <2>2, <2>3
<1> HIDE DEF G, last
<1>5. g[last] \in G
  BY <1>2, <1>3, <1>4, StaysIn
<1> QED BY <1>1, <1>5 DEF G, Rearrangements

LEMMA SettleType ==
  ASSUME NEW a \in Assets, NEW s, NEW survivors, NEW stacks \in Seq(Stacks), NEW i \in DOMAIN a.stacks
  PROVE  Settle(a, s, survivors, stacks, i) \in Seq(Stacks)
<1> DEFINE t == a.stacks[i]
           w == [t EXCEPT !.inv = Wreck, !.state = Plain]
<1>1. t \in Stacks
  BY AssetsType
<1>2. w \in Stacks
  <2> DEFINE u == [t EXCEPT !.inv = Wreck]
             v == [item |-> t.item, qty |-> t.qty, inv |-> Wreck, state |-> t.state, marked |-> t.marked]
             x == [item |-> t.item, qty |-> t.qty, inv |-> Wreck, state |-> Plain, marked |-> t.marked]
  <2> HIDE DEF t
  <2>1. u = v
    BY <1>1, StackType
  <2>2. [v EXCEPT !.state = Plain] = x
    OBVIOUS
  <2>3. w = [u EXCEPT !.state = Plain]
    OBVIOUS
  <2>4. x \in Stacks
    BY <1>1, StackType DEF Stacks, Places, States
  <2> HIDE DEF u, v, w, x
  <2> QED BY <2>1, <2>2, <2>3, <2>4
<1>3. Settle(a, s, survivors, stacks, i) \in {Put(stacks, w), stacks, Append(stacks, t)}
  BY DEF Settle
<1> HIDE DEF t, w
<1>4. Append(stacks, t) \in Seq(Stacks) /\ Put(stacks, w) \in Seq(Stacks)
  BY <1>1, <1>2, AppendProperties, PutType
<1> QED BY <1>3, <1>4

LEMMA SettledType ==
  ASSUME NEW a \in Assets, NEW s, NEW survivors
  PROVE  SettledStacks(a, s, survivors) \in Seq(Stacks)
<1> DEFINE last == Len(a.stacks)
<1>1. a.stacks \in Seq(Stacks) /\ last \in Nat /\ DOMAIN a.stacks = 1..last
  BY AssetsType
<1>2. PICK g : /\ SettledStacks(a, s, survivors) = g[last] /\ g[0] = <<>>
               /\ \A i \in 1..last : g[i] = Settle(a, s, survivors, g[i - 1], i)
  BY <1>1, SettledUnfolds
<1> DEFINE G == Seq(Stacks)
<1>3. g[0] \in G
  BY <1>2
<1>4. ASSUME NEW i \in 1..last, g[i - 1] \in G PROVE g[i] \in G
  BY <1>1, <1>2, <1>4, SettleType
<1> HIDE DEF G, last
<1>5. g[last] \in G
  BY <1>1, <1>3, <1>4, StaysIn
<1> QED BY <1>2, <1>5 DEF G

LEMMA KeptType ==
  ASSUME NEW a \in Assets
  PROVE  KeptStacks(a) \in Seq(Stacks)
<1> DEFINE last == Len(a.stacks)
<1>1. a.stacks \in Seq(Stacks) /\ last \in Nat /\ DOMAIN a.stacks = 1..last
  BY AssetsType
<1>2. PICK g : /\ KeptStacks(a) = g[last] /\ g[0] = <<>>
               /\ \A i \in 1..last : g[i] = KeepUnlessWrecked(g[i - 1], a.stacks[i])
  BY <1>1, KeptUnfolds
<1> DEFINE G == Seq(Stacks)
<1>3. g[0] \in G
  BY <1>2
<1>4. ASSUME NEW i \in 1..last, g[i - 1] \in G PROVE g[i] \in G
  <2>1. a.stacks[i] \in Stacks /\ g[i] = KeepUnlessWrecked(g[i - 1], a.stacks[i])
    BY <1>1, <1>2
  <2>2. g[i] \in {g[i - 1], Append(g[i - 1], a.stacks[i])}
    BY <2>1 DEF KeepUnlessWrecked
  <2>3. Append(g[i - 1], a.stacks[i]) \in Seq(Stacks)
    BY <1>4, <2>1, AppendProperties
  <2> QED BY <1>4, <2>2, <2>3
<1> HIDE DEF G, last
<1>5. g[last] \in G
  BY <1>1, <1>3, <1>4, StaysIn
<1> QED BY <1>2, <1>5 DEF G

-----------------------------------------------------------------------------
(* One field of the assets. *)

ShipRecords == [marked : BOOLEAN, enhanced : BOOLEAN, hurt : BOOLEAN]

LEMMA FleetType ==
  ASSUME NEW f
  PROVE  f \in Fleets <=> DOMAIN f \subseteq Ships /\ f \in [DOMAIN f -> ShipRecords]
BY DEF Fleets, ShipRecords

LEMMA WithCredits ==
  ASSUME NEW a \in Assets, NEW v \in Nat, NEW b, b = [a EXCEPT !.credits = v]
  PROVE  /\ b \in Assets /\ b.credits = v /\ b.active = a.active /\ b.out = a.out
         /\ b.wreck = a.wreck /\ b.ships = a.ships /\ b.stacks = a.stacks
<1> DEFINE c == [credits |-> v, active |-> a.active, out |-> a.out, wreck |-> a.wreck,
                 ships |-> a.ships, stacks |-> a.stacks]
<1>1. b = c
  BY AssetsType DEF AssetsShape
<1>2. c \in Assets
  BY AssetsType DEF Assets
<1> QED BY <1>1, <1>2

LEMMA WithActive ==
  ASSUME NEW a \in Assets, NEW v \in Ships \cup {NoOne}, NEW b, b = [a EXCEPT !.active = v]
  PROVE  /\ b \in Assets /\ b.credits = a.credits /\ b.active = v /\ b.out = a.out
         /\ b.wreck = a.wreck /\ b.ships = a.ships /\ b.stacks = a.stacks
<1> DEFINE c == [credits |-> a.credits, active |-> v, out |-> a.out, wreck |-> a.wreck,
                 ships |-> a.ships, stacks |-> a.stacks]
<1>1. b = c
  BY AssetsType DEF AssetsShape
<1>2. c \in Assets
  BY AssetsType DEF Assets
<1> QED BY <1>1, <1>2

LEMMA WithOut ==
  ASSUME NEW a \in Assets, NEW v \in BOOLEAN, NEW b, b = [a EXCEPT !.out = v]
  PROVE  /\ b \in Assets /\ b.credits = a.credits /\ b.active = a.active /\ b.out = v
         /\ b.wreck = a.wreck /\ b.ships = a.ships /\ b.stacks = a.stacks
<1> DEFINE c == [credits |-> a.credits, active |-> a.active, out |-> v, wreck |-> a.wreck,
                 ships |-> a.ships, stacks |-> a.stacks]
<1>1. b = c
  BY AssetsType DEF AssetsShape
<1>2. c \in Assets
  BY AssetsType DEF Assets
<1> QED BY <1>1, <1>2

LEMMA WithWreck ==
  ASSUME NEW a \in Assets, NEW v \in BOOLEAN, NEW b, b = [a EXCEPT !.wreck = v]
  PROVE  /\ b \in Assets /\ b.credits = a.credits /\ b.active = a.active /\ b.out = a.out
         /\ b.wreck = v /\ b.ships = a.ships /\ b.stacks = a.stacks
<1> DEFINE c == [credits |-> a.credits, active |-> a.active, out |-> a.out, wreck |-> v,
                 ships |-> a.ships, stacks |-> a.stacks]
<1>1. b = c
  BY AssetsType DEF AssetsShape
<1>2. c \in Assets
  BY AssetsType DEF Assets
<1> QED BY <1>1, <1>2

LEMMA WithShips ==
  ASSUME NEW a \in Assets, NEW v \in Fleets, NEW b, b = [a EXCEPT !.ships = v]
  PROVE  /\ b \in Assets /\ b.credits = a.credits /\ b.active = a.active /\ b.out = a.out
         /\ b.wreck = a.wreck /\ b.ships = v /\ b.stacks = a.stacks
<1> DEFINE c == [credits |-> a.credits, active |-> a.active, out |-> a.out, wreck |-> a.wreck,
                 ships |-> v, stacks |-> a.stacks]
<1>1. b = c
  BY AssetsType DEF AssetsShape
<1>2. c \in Assets
  BY AssetsType DEF Assets
<1> QED BY <1>1, <1>2

-----------------------------------------------------------------------------
(* Ships. *)

\* The ship a grant or a purchase adds is one that was not there.
LEMMA FreeShipType ==
  ASSUME NEW a \in Assets, DOMAIN a.ships # Ships
  PROVE  FreeShip(a) \in Ships /\ FreeShip(a) \notin DOMAIN a.ships
<1>1. DOMAIN a.ships \subseteq Ships
  BY AssetsType, FleetType
<1>2. \E s \in Ships : s \notin DOMAIN a.ships
  BY <1>1
<1> QED BY <1>2 DEF FreeShip

LEMMA WithShipType ==
  ASSUME NEW a \in Assets, NEW s \in Ships, NEW marked \in BOOLEAN
  PROVE  LET b == WithShip(a, s, marked)
         IN  /\ b \in Assets /\ b.credits = a.credits /\ b.active = a.active /\ b.out = a.out
             /\ b.wreck = a.wreck /\ b.stacks = a.stacks
             /\ DOMAIN b.ships = DOMAIN a.ships \cup {s}
<1> DEFINE f == [x \in DOMAIN a.ships \cup {s} |-> IF x = s THEN NewShip(marked) ELSE a.ships[x]]
<1>1. DOMAIN a.ships \subseteq Ships /\ a.ships \in [DOMAIN a.ships -> ShipRecords]
  BY AssetsType, FleetType
<1>2. NewShip(marked) \in ShipRecords
  BY DEF NewShip, ShipRecords
<1>3. f \in [DOMAIN a.ships \cup {s} -> ShipRecords] /\ DOMAIN f = DOMAIN a.ships \cup {s}
  BY <1>1, <1>2
<1>4. WithShip(a, s, marked) = [a EXCEPT !.ships = f]
  BY DEF WithShip
<1> HIDE DEF f
<1>5. f \in Fleets
  BY <1>1, <1>3, FleetType
<1> QED BY <1>3, <1>4, <1>5, WithShips

LEMMA HullType ==
  ASSUME NEW a \in Assets, DOMAIN a.ships # Ships
  PROVE  LET b == AddPurchasedHull(a)
         IN  /\ b \in Assets /\ b.credits = a.credits /\ b.out = a.out /\ b.wreck = a.wreck
             /\ DOMAIN a.ships \subseteq DOMAIN b.ships
             /\ b.active # NoOne
             /\ b.active = a.active \/ (a.active = NoOne /\ b.active \in DOMAIN b.ships)
<1> DEFINE s == FreeShip(a)
           owned == WithShip(a, s, FALSE)
<1>1. s \in Ships
  BY FreeShipType
<1>2. /\ owned \in Assets /\ owned.credits = a.credits /\ owned.active = a.active
      /\ owned.out = a.out /\ owned.wreck = a.wreck
      /\ DOMAIN owned.ships = DOMAIN a.ships \cup {s}
  BY <1>1, WithShipType
<1>3. AddPurchasedHull(a) = IF a.active = NoOne THEN [owned EXCEPT !.active = s] ELSE owned
  BY DEF AddPurchasedHull
<1> HIDE DEF s, owned
<1>4. s # NoOne
  BY <1>1, StationAssumption
<1>5. CASE a.active = NoOne
  <2> DEFINE b == [owned EXCEPT !.active = s]
  <2>1. /\ b \in Assets /\ b.credits = owned.credits /\ b.active = s /\ b.out = owned.out
        /\ b.wreck = owned.wreck /\ b.ships = owned.ships
    BY <1>1, <1>2, WithActive
  <2>2. AddPurchasedHull(a) = b
    BY <1>3, <1>5
  <2> HIDE DEF b
  <2> QED BY <1>2, <1>4, <1>5, <2>1, <2>2
<1>6. CASE a.active # NoOne
  BY <1>2, <1>3, <1>6
<1> QED BY <1>5, <1>6

LEMMA LeastSlot ==
  (CHOOSE k \in Slots : \A j \in Slots : k <= j) \in Slots
<1>1. Slots \subseteq Nat /\ Slots # {}
  BY SlotsAreCounted, StationAssumption
<1>2. \E k \in Slots : \A j \in Slots : k <= j
  BY <1>1, LeastExists
<1> QED BY <1>2

\* A granted ship is active, and costs nothing.
LEMMA GrantType ==
  ASSUME NEW a \in Assets, DOMAIN a.ships # Ships
  PROVE  LET b == GrantRecoveryShip(a)
         IN  /\ b \in Assets /\ b.credits = a.credits /\ b.out = a.out /\ b.wreck = a.wreck
             /\ DOMAIN a.ships \subseteq DOMAIN b.ships
             /\ b.active \in DOMAIN b.ships /\ b.active # NoOne
<1> DEFINE s == FreeShip(a)
           slot == CHOOSE k \in Slots : \A j \in Slots : k <= j
           owned == WithShip(a, s, TRUE)
           armed == Add(owned, FittingStore(s), Gun, 1, Fitted(slot), TRUE)
           loaded == Add(armed, FittingStore(s), Ammo, MagazineSize, Charge(slot), TRUE)
<1>1. s \in Ships /\ s # NoOne
  BY FreeShipType, StationAssumption
<1>2. slot \in Slots
  BY LeastSlot
<1>3. GrantRecoveryShip(a) = [loaded EXCEPT !.active = s]
  BY DEF GrantRecoveryShip
<1> HIDE DEF s, slot
<1>4. /\ owned \in Assets /\ owned.credits = a.credits /\ owned.out = a.out
      /\ owned.wreck = a.wreck /\ DOMAIN owned.ships = DOMAIN a.ships \cup {s}
  BY <1>1, WithShipType
<1>5. /\ FittingStore(s) \in Places /\ Fitted(slot) \in States /\ Charge(slot) \in States
      /\ Gun \in Items /\ Ammo \in Items /\ 1 \in Nat \ {0} /\ MagazineSize \in Nat \ {0}
      /\ TRUE \in BOOLEAN
  BY <1>1, <1>2, StationAssumption DEF Places, States
<1> HIDE DEF owned
<1>6. Restacked(owned, armed)
  BY <1>4, <1>5, AddType
<1>7. armed \in Assets
  BY <1>6 DEF Restacked
<1> HIDE DEF armed
<1>8. Restacked(armed, loaded)
  BY <1>5, <1>7, AddType
<1> HIDE DEF loaded
<1>9. /\ loaded \in Assets /\ loaded.credits = a.credits /\ loaded.out = a.out
      /\ loaded.wreck = a.wreck /\ DOMAIN loaded.ships = DOMAIN a.ships \cup {s}
  BY <1>4, <1>6, <1>8 DEF Restacked
<1> DEFINE b == [loaded EXCEPT !.active = s]
<1>10. /\ b \in Assets /\ b.credits = loaded.credits /\ b.active = s /\ b.out = loaded.out
       /\ b.wreck = loaded.wreck /\ b.ships = loaded.ships
  BY <1>1, <1>9, WithActive
<1> HIDE DEF b
<1> QED BY <1>1, <1>3, <1>9, <1>10 DEF b

-----------------------------------------------------------------------------
(* Recovery. *)

HullPrice == UnitQuote(Listing[Hull], 0, "stationSells")

\* The listing of the hull never runs out and never moves its price, and a pilot
\* who is not granted a ship has that price.
LEMMA HullPriceIsFixed ==
  /\ HullPrice \in Nat /\ HullPrice <= StarterValue /\ StarterValue \in Nat
  /\ \A stock \in Nat : UnitQuote(Listing[Hull], stock, "stationSells") = HullPrice
<1>1. Listing[Hull] \in Listings /\ Listing[Hull].fixed
  BY ListingAssumption, RecoveryAssumption
<1>2. HullPrice \in Nat
  BY <1>1, QuoteType DEF HullPrice
<1>3. StarterValue \in Nat /\ HullPrice <= StarterValue
  BY <1>2, StationAssumption, RecoveryAssumption DEF HullPrice
<1>4. ASSUME NEW stock \in Nat
      PROVE  UnitQuote(Listing[Hull], stock, "stationSells") = HullPrice
  BY <1>1, PriceStandsStill DEF HullPrice
<1> QED BY <1>2, <1>3, <1>4

\* Where a pilot may stand: with an owned ship, or docked without any.
IsPlaced(a) ==
  /\ a \in Assets /\ a.active \in DOMAIN a.ships \cup {NoOne}
  /\ a.out => a.active # NoOne
  /\ a.active = NoOne => DOMAIN a.ships = {}

\* And with the price of a hull whenever there is none.
IsServed(a) == IsPlaced(a) /\ (a.active = NoOne => a.credits >= HullPrice)

LEMMA ServedWithOtherStacks ==
  ASSUME NEW a, NEW b, IsServed(a), Restacked(a, b)
  PROVE  IsServed(b)
BY DEF IsServed, IsPlaced, Restacked

LEMMA NotEveryShip ==
  ASSUME NEW a, IsPlaced(a), a.active = NoOne
  PROVE  DOMAIN a.ships # Ships
BY StationAssumption DEF IsPlaced

LEMMA GrantServes ==
  ASSUME NEW a \in Assets, DOMAIN a.ships # Ships, ~a.out
  PROVE  IsServed(GrantRecoveryShip(a)) /\ ~GrantRecoveryShip(a).out
<1> DEFINE b == GrantRecoveryShip(a)
<1>1. b \in Assets /\ b.out = a.out /\ b.active \in DOMAIN b.ships /\ b.active # NoOne
  BY GrantType
<1> HIDE DEF b
<1>2. IsServed(b) /\ ~b.out
  BY <1>1 DEF IsServed, IsPlaced
<1> QED BY <1>2 DEF b

\* Whoever has no ship after a purchase can pay for one, or is granted one.
LEMMA RouteServes ==
  ASSUME NEW a, IsPlaced(a)
  PROVE  LET b == EnsureRecoveryRoute(a)
         IN  IsServed(b) /\ b.out = a.out /\ DOMAIN a.ships \subseteq DOMAIN b.ships
<1> DEFINE b == EnsureRecoveryRoute(a)
<1>1. a \in Assets /\ a.credits \in Nat /\ a.out \in BOOLEAN
  BY AssetsType DEF IsPlaced
<1>2. CASE a.active = NoOne /\ ~a.out /\ RecoveryGrantDue(a)
  <2>1. DOMAIN a.ships # Ships
    BY <1>2, NotEveryShip
  <2>2. IsServed(GrantRecoveryShip(a))
    BY <1>1, <1>2, <2>1, GrantServes
  <2>3. GrantRecoveryShip(a).out = a.out /\ DOMAIN a.ships \subseteq DOMAIN GrantRecoveryShip(a).ships
    BY <1>1, <2>1, GrantType
  <2>4. b = GrantRecoveryShip(a)
    BY <1>2 DEF EnsureRecoveryRoute
  <2> HIDE DEF b
  <2> QED BY <2>2, <2>3, <2>4 DEF b
<1>3. CASE ~(a.active = NoOne /\ ~a.out /\ RecoveryGrantDue(a))
  <2>1. b = a
    BY <1>3 DEF EnsureRecoveryRoute
  <2>2. ASSUME a.active = NoOne PROVE a.credits >= HullPrice
    <3>1. ~a.out /\ DOMAIN a.ships = {}
      BY <2>2 DEF IsPlaced
    <3>2. ~(a.credits < StarterValue)
      BY <1>3, <2>2, <3>1 DEF RecoveryGrantDue, Docked
    <3> QED BY <1>1, <3>2, HullPriceIsFixed
  <2>3. IsServed(a)
    BY <2>2 DEF IsServed
  <2> HIDE DEF b
  <2> QED BY <2>1, <2>3 DEF b
<1> QED BY <1>2, <1>3

LEMMA PayoutType ==
  ASSUME NEW ship
  PROVE  Payout(ship) \in Nat
BY StationAssumption DEF Payout

\* The ship that takes the place of a lost one is one that is docked there; only
\* a pilot without any has none.
LEMMA ReplacementType ==
  ASSUME NEW a \in Assets
  PROVE  /\ Replacement(a) \in Docked(a) \cup {NoOne}
         /\ Replacement(a) = NoOne => Docked(a) = {}
<1> DEFINE ready == {s \in Docked(a) : IsFlightReady(a, s)}
           choices == IF ready # {} THEN ready ELSE Docked(a)
<1>1. DOMAIN a.ships \subseteq Ships
  BY AssetsType, FleetType
<1>2. Docked(a) \subseteq Ships
  BY <1>1 DEF Docked
<1>3. choices \subseteq Docked(a) /\ (choices = {} => Docked(a) = {})
  OBVIOUS
<1>4. Replacement(a) = IF choices = {} THEN NoOne ELSE Min(choices)
  BY DEF Replacement
<1> HIDE DEF choices
<1>5. CASE choices = {}
  BY <1>3, <1>4, <1>5
<1>6. CASE choices # {}
  <2>1. Min(choices) \in choices
    BY <1>2, <1>3, <1>6, MinOfNaturals, StationAssumption
  <2>2. Min(choices) \in Ships
    BY <1>2, <1>3, <2>1
  <2> QED BY <1>3, <1>4, <1>6, <2>1, <2>2, StationAssumption
<1> QED BY <1>5, <1>6

\* The assets as the loss leaves them, before a ship takes the place of the lost.
Bereft(a, s, survivors) ==
  [Settled(a, s, survivors) EXCEPT
     !.ships = [x \in DOMAIN @ \ {s} |-> @[x]], !.out = FALSE, !.active = NoOne,
     !.wreck = TRUE, !.credits = @ + Payout(a.ships[s])]

LEMMA BereftType ==
  ASSUME NEW a \in Assets, NEW s \in DOMAIN a.ships, NEW survivors
  PROVE  LET b == Bereft(a, s, survivors)
         IN  /\ b \in Assets /\ b.active = NoOne /\ b.out = FALSE
             /\ b.credits = a.credits + Payout(a.ships[s])
             /\ DOMAIN b.ships = DOMAIN a.ships \ {s}
             /\ b.wreck = TRUE /\ b.stacks = SettledStacks(a, s, survivors)
<1> DEFINE stacks == SettledStacks(a, s, survivors)
           f == [x \in DOMAIN a.ships \ {s} |-> a.ships[x]]
           p == Payout(a.ships[s])
           t == [credits |-> a.credits, active |-> a.active, out |-> a.out, wreck |-> a.wreck,
                 ships |-> a.ships, stacks |-> stacks]
           c == [credits |-> a.credits + p, active |-> NoOne, out |-> FALSE, wreck |-> TRUE,
                 ships |-> f, stacks |-> stacks]
<1>1. AssetsShape(a) /\ stacks \in Seq(Stacks) /\ p \in Nat /\ a.credits \in Nat
  BY AssetsType, SettledType, PayoutType
<1>2. DOMAIN a.ships \subseteq Ships /\ a.ships \in [DOMAIN a.ships -> ShipRecords]
  BY AssetsType, FleetType
<1>3. f \in [DOMAIN a.ships \ {s} -> ShipRecords] /\ DOMAIN f = DOMAIN a.ships \ {s}
  BY <1>2
<1>4. f \in Fleets
  <2> HIDE DEF f
  <2> QED BY <1>2, <1>3, FleetType
<1>5. Bereft(a, s, survivors) = c
  <2>1. Settled(a, s, survivors) = t
    <3> HIDE DEF stacks
    <3>1. [a EXCEPT !.stacks = stacks] = t
      BY <1>1 DEF AssetsShape
    <3> QED BY <3>1 DEF Settled, stacks
  <2>2. Bereft(a, s, survivors) =
          [t EXCEPT !.ships = [x \in DOMAIN t.ships \ {s} |-> t.ships[x]], !.out = FALSE,
                    !.active = NoOne, !.wreck = TRUE, !.credits = t.credits + p]
    BY <2>1 DEF Bereft
  <2>3. [x \in DOMAIN t.ships \ {s} |-> t.ships[x]] = f
    OBVIOUS
  <2>4. t.credits + p = a.credits + p
    OBVIOUS
  <2> HIDE DEF p, stacks, f
  <2>5. Bereft(a, s, survivors) = [t EXCEPT !.ships = f, !.out = FALSE, !.active = NoOne,
                                            !.wreck = TRUE, !.credits = a.credits + p]
    BY <2>2, <2>3, <2>4
  <2> QED BY <2>5
<1> HIDE DEF f, p, stacks
<1>6. c \in Assets
  BY <1>1, <1>4 DEF Assets
<1> QED BY <1>3, <1>5, <1>6 DEF p, stacks

\* A loss leaves the pilot docked, with a ship or with the price of one.
LEMMA LossServes ==
  ASSUME NEW a, IsServed(a), a.out, NEW survivors
  PROVE  LET b == ResolveLoss(a, a.active, survivors)
         IN  IsServed(b) /\ ~b.out
<1> DEFINE s == a.active
           l == Bereft(a, s, survivors)
           b == ResolveLoss(a, s, survivors)
<1>1. a \in Assets /\ s \in DOMAIN a.ships /\ s # NoOne
  BY DEF IsServed, IsPlaced
<1>2. /\ l \in Assets /\ l.active = NoOne /\ l.out = FALSE
      /\ DOMAIN l.ships = DOMAIN a.ships \ {s}
  <2> HIDE DEF b, s
  <2>1. LET x == Bereft(a, s, survivors)
        IN  /\ x \in Assets /\ x.active = NoOne /\ x.out = FALSE
            /\ x.credits = a.credits + Payout(a.ships[s])
            /\ DOMAIN x.ships = DOMAIN a.ships \ {s}
    BY <1>1, BereftType
  <2> QED BY <2>1
<1>3. DOMAIN a.ships \subseteq Ships /\ l.credits \in Nat
  BY <1>1, <1>2, AssetsType, FleetType
<1>4. DOMAIN l.ships # Ships
  BY <1>1, <1>2, <1>3
<1>5. b = IF RecoveryGrantDue(l) THEN GrantRecoveryShip(l) ELSE [l EXCEPT !.active = Replacement(l)]
  BY DEF ResolveLoss, Bereft
<1> HIDE DEF l, b, s
<1>6. CASE RecoveryGrantDue(l)
  <2>1. IsServed(GrantRecoveryShip(l)) /\ ~GrantRecoveryShip(l).out
    BY <1>2, <1>4, GrantServes
  <2> QED BY <1>5, <1>6, <2>1 DEF b, s
<1>7. CASE ~RecoveryGrantDue(l)
  <2> DEFINE r == Replacement(l)
             c == [l EXCEPT !.active = r]
  <2>1. /\ r \in Docked(l) \cup {NoOne}
        /\ r = NoOne => Docked(l) = {}
    BY <1>2, ReplacementType
  <2>2. Docked(l) = DOMAIN l.ships
    BY <1>2 DEF Docked
  <2>3. r \in Ships \cup {NoOne}
    BY <1>2, <1>3, <2>1, <2>2
  <2> HIDE DEF r
  <2>4. /\ c \in Assets /\ c.credits = l.credits /\ c.active = r /\ c.out = l.out
        /\ c.ships = l.ships
    BY <1>2, <2>3, WithActive
  <2>5. ASSUME r = NoOne PROVE DOMAIN l.ships = {} /\ l.credits >= HullPrice
    <3>1. Docked(l) = {}
      BY <2>1, <2>5
    <3>2. ~(l.credits < StarterValue)
      BY <1>7, <3>1 DEF RecoveryGrantDue
    <3> QED BY <1>3, <2>2, <3>1, <3>2, HullPriceIsFixed
  <2>6. c = b
    BY <1>5, <1>7 DEF r
  <2> HIDE DEF c
  <2>7. IsServed(c) /\ ~c.out
    BY <1>2, <2>1, <2>2, <2>4, <2>5 DEF IsServed, IsPlaced
  <2> QED BY <2>6, <2>7 DEF b, s
<1> QED BY <1>6, <1>7

-----------------------------------------------------------------------------
(* The market. *)

ListingStates == [stock : Nat, half : Int]

\* What is bought was in stock.
LEMMA MovementType ==
  ASSUME NEW l, NEW state \in ListingStates, NEW side, NEW q \in Nat,
         side = "stationSells" => InStock(l, state, q)
  PROVE  ApplyStockMovement(l, state, side, q) \in ListingStates
BY DEF ApplyStockMovement, InStock, ListingStates

\* An hour of production and consumption leaves a stock between none and twice
\* the target, and at most half a unit over.
LEMMA HourType ==
  ASSUME NEW l \in Listings, NEW state \in ListingStates
  PROVE  AdvanceListing(l, state) \in ListingStates
<1> DEFINE sum == state.half + l.production - l.consumption
           whole == IF sum < 0 THEN -((-sum) \div 2) ELSE sum \div 2
           rest == sum - 2 * whole
           stock == Clamp(0, 2 * l.target, state.stock + whole)
           stuck == (stock = 0 /\ rest < 0) \/ (stock = 2 * l.target /\ rest > 0)
<1>1. sum \in Int /\ state.stock \in Nat /\ l.target \in Nat
  BY ListingType DEF ListingStates
<1>2. AdvanceListing(l, state) =
        IF l.fixed THEN state ELSE [stock |-> stock, half |-> IF stuck THEN 0 ELSE rest]
  BY DEF AdvanceListing
<1> HIDE DEF sum
<1>3. whole \in Int
  BY <1>1
<1> HIDE DEF whole
<1>4. rest \in Int
  BY <1>1, <1>3
<1>5. stock \in Int /\ 0 <= stock
  <2> DEFINE high == 2 * l.target
             x == state.stock + whole
  <2>1. high \in Int /\ 0 <= high /\ x \in Int
    BY <1>1, <1>3
  <2> HIDE DEF high, x
  <2>2. Clamp(0, high, x) \in Int /\ 0 <= Clamp(0, high, x)
    BY <2>1, ClampType
  <2> QED BY <2>2 DEF high, x
<1> HIDE DEF rest, stock
<1> QED BY <1>2, <1>4, <1>5 DEF ListingStates

LEMMA TradeType ==
  ASSUME NEW item \in Items \cup {Hull}, NEW side \in {"stationSells", "stationBuys"}, NEW q \in Nat,
         market \in [DOMAIN Listing -> ListingStates]
  PROVE  Trade(item, side, q) \in Nat
<1> DEFINE l == Listing[item]
           stock == market[item].stock
<1>1. l \in Listings /\ stock \in Nat
  BY ListingAssumption DEF ListingStates
<1>2. Trade(item, side, q) = BulkQuote(l, stock, side, q)
  BY DEF Trade
<1> HIDE DEF l, stock
<1> QED BY SMTT(30), <1>1, <1>2, BulkIsUnitByUnit, UnitByUnitType

LEMMA RoundsToBuyType ==
  ASSUME NEW a \in Assets, NEW s
  PROVE  RoundsToBuy(a, s) \in Nat
<1> DEFINE f == [slot \in Slots |-> Missing(a, s, slot)]
<1>1. f \in Seq(Nat)
  <2>1. f \in [1..Cardinality(Slots) -> Nat]
    BY SlotsAreCounted, LoadedType
  <2> HIDE DEF f
  <2> QED BY <2>1, SlotsAreCounted, SeqDef
<1> HIDE DEF f
<1>2. Total(f) \in Nat
  BY <1>1, TotalOfNaturals
<1>3. MissingRounds(a, s) \in Nat
  BY <1>2 DEF MissingRounds, f
<1>4. Quantity(a, OwnedRounds(a)) \in Nat
  BY QuantityType
<1>5. RoundsToBuy(a, s) = Max({0, MissingRounds(a, s) - Quantity(a, OwnedRounds(a))})
  BY DEF RoundsToBuy
<1> QED BY <1>3, <1>4, <1>5, MaxOfTwo

-----------------------------------------------------------------------------
(* One step. *)

\* The invariant, as a condition on the values the variables have.
Sound(a, m, f, h) ==
  /\ IsServed(a)
  /\ m \in [DOMAIN Listing -> ListingStates]
  /\ f = NoOne \/ f \in Drafts
  /\ h \in Previews \cup {NoOne}
  /\ a.out => f = NoOne
  /\ f # NoOne => f.ship \in DOMAIN a.ships

LEMMA InvIsSound ==
  StationInv <=> Sound(assets, market, fitting, held)
<1>1. market \in [DOMAIN Listing -> ListingStates] =>
        UnitQuote(Listing[Hull], market[Hull].stock, "stationSells") = HullPrice
  BY HullPriceIsFixed, ListingAssumption DEF ListingStates
<1> QED BY <1>1 DEF StationInv, StationTypes, PilotIsPlaced, RecoveryRouteStaysOpen, Sound, IsServed,
     IsPlaced, ListingStates

LEMMA NextInvIsSound ==
  StationInv' <=> Sound(assets', market', fitting', held')
<1>1. market' \in [DOMAIN Listing -> ListingStates] =>
        UnitQuote(Listing[Hull], market'[Hull].stock, "stationSells") = HullPrice
  BY HullPriceIsFixed, ListingAssumption DEF ListingStates
<1> QED BY <1>1 DEF StationInv, StationTypes, PilotIsPlaced, RecoveryRouteStaysOpen, Sound, IsServed,
     IsPlaced, ListingStates

LEMMA StaleType ==
  ASSUME held \in Previews \cup {NoOne}
  PROVE  /\ Stale \in Previews \cup {NoOne}
         /\ Stale = NoOne <=> held = NoOne
<1>1. CASE held = NoOne
  BY <1>1 DEF Stale
<1>2. CASE held # NoOne
  <2> DEFINE h == [request |-> held.request, shown |-> held.shown, fresh |-> FALSE]
  <2>1. /\ held = [request |-> held.request, shown |-> held.shown, fresh |-> held.fresh]
        /\ held.request \in RequestTypes /\ held.shown \in [credits : Nat, units : Nat]
    BY <1>2 DEF Previews
  <2>2. Stale = h
    BY <1>2, <2>1 DEF Stale
  <2>3. h \in Previews
    BY <2>1 DEF Previews
  <2> QED BY <1>2, <2>2, <2>3, PreviewAssumption
<1> QED BY <1>1, <1>2

\* Assets that are adopted leave the rest as sound as it was.
LEMMA AdoptedIsSound ==
  ASSUME StationInv, NEW b, IsServed(b), Adopt(b), market' = market,
         \/ fitting' = NoOne
         \/ fitting' = fitting /\ ~b.out /\ DOMAIN assets.ships \subseteq DOMAIN b.ships
  PROVE  StationInv'
<1>1. Sound(assets, market, fitting, held)
  BY InvIsSound
<1>2. assets' = b /\ held' = Stale
  BY DEF Adopt
<1>3. held' \in Previews \cup {NoOne}
  BY <1>1, <1>2, StaleType DEF Sound
<1>4. Sound(assets', market', fitting', held')
  BY <1>1, <1>2, <1>3 DEF Sound
<1> QED BY <1>4, NextInvIsSound

LEMMA RestackedIsSound ==
  ASSUME StationInv, NEW b, Restacked(assets, b), Adopt(b), market' = market, fitting' = fitting
  PROVE  StationInv'
<1>1. Sound(assets, market, fitting, held)
  BY InvIsSound
<1>2. IsServed(b) /\ b.out = assets.out /\ b.ships = assets.ships
  BY <1>1, ServedWithOtherStacks DEF Sound, Restacked
<1>3. fitting' = NoOne \/ ~b.out
  BY <1>1, <1>2 DEF Sound
<1> QED BY <1>2, <1>3, AdoptedIsSound

LEMMA InvTypes ==
  ASSUME StationInv
  PROVE  /\ assets \in Assets /\ IsServed(assets) /\ DOMAIN assets.ships \subseteq Ships
         /\ assets.active \in Ships \cup {NoOne} /\ (assets.out => assets.active \in Ships)
         /\ assets.credits \in Nat /\ assets.stacks \in Seq(Stacks)
         /\ DOMAIN assets.stacks = 1..Len(assets.stacks)
         /\ \A i \in DOMAIN assets.stacks : assets.stacks[i] \in Stacks /\ assets.stacks[i].qty \in Nat
<1>1. Sound(assets, market, fitting, held)
  BY InvIsSound
<1>2. assets \in Assets /\ IsServed(assets)
  BY <1>1 DEF Sound, IsServed, IsPlaced
<1>3. /\ DOMAIN assets.ships \subseteq Ships /\ assets.active \in Ships \cup {NoOne}
      /\ assets.credits \in Nat /\ assets.stacks \in Seq(Stacks)
  BY <1>2, AssetsType, FleetType
<1>4. assets.out => assets.active \in Ships
  BY <1>2, <1>3 DEF IsServed, IsPlaced
<1>5. \A i \in DOMAIN assets.stacks : assets.stacks[i] \in Stacks /\ assets.stacks[i].qty \in Nat
  BY <1>3, StackType
<1> QED BY <1>2, <1>3, <1>4, <1>5

LEMMA LocalType ==
  ASSUME StationInv
  PROVE  Local(assets) \subseteq Places
BY InvTypes DEF Local, Places

LEMMA DealTypes ==
  DealSizes \subseteq Nat \ {0} /\ Plain \in States
BY StationAssumption DEF States

LEMMA TransferIsSound ==
  ASSUME StationInv, Transfer
  PROVE  StationInv'
<1>1. PICK i \in AtHand, inv \in Local(assets), q \in DealSizes :
        /\ q <= assets.stacks[i].qty
        /\ Adopt(Move(assets, i, inv, q, Plain))
        /\ UNCHANGED <<market, fitting>>
  BY DEF Transfer
<1>2. i \in DOMAIN assets.stacks /\ inv \in Places /\ q \in Nat \ {0} /\ Plain \in States
  BY LocalType, DealTypes DEF AtHand
<1>3. Restacked(assets, Move(assets, i, inv, q, Plain))
  BY <1>1, <1>2, InvTypes, MoveType
<1> QED BY <1>1, <1>3, RestackedIsSound

LEMMA SplitIsSound ==
  ASSUME StationInv, SplitStack
  PROVE  StationInv'
<1>1. PICK i \in AtHand, q \in DealSizes :
        /\ q < assets.stacks[i].qty
        /\ Adopt(Split(assets, i, q))
        /\ UNCHANGED <<market, fitting>>
  BY DEF SplitStack
<1>2. i \in DOMAIN assets.stacks /\ q \in Nat \ {0}
  BY DealTypes DEF AtHand
<1>3. Restacked(assets, Split(assets, i, q))
  BY <1>1, <1>2, InvTypes, SplitType
<1> QED BY <1>1, <1>3, RestackedIsSound

LEMMA MergeIsSound ==
  ASSUME StationInv, MergeStacks
  PROVE  StationInv'
<1>1. PICK i \in AtHand, j \in AtHand :
        Adopt(Merge(assets, i, j)) /\ UNCHANGED <<market, fitting>>
  BY DEF MergeStacks
<1>2. i \in DOMAIN assets.stacks /\ j \in DOMAIN assets.stacks
  BY DEF AtHand
<1>3. Restacked(assets, Merge(assets, i, j))
  BY <1>2, InvTypes, MergeType
<1> QED BY <1>1, <1>3, RestackedIsSound

\* The planning of a fit leaves everything else alone.
LEMMA DraftedIsSound ==
  ASSUME StationInv, UNCHANGED <<assets, market, held>>,
         \/ fitting' = NoOne
         \/ fitting' \in Drafts /\ ~assets.out /\ fitting'.ship \in DOMAIN assets.ships
  PROVE  StationInv'
BY InvIsSound, NextInvIsSound DEF Sound

LEMMA BeginIsSound ==
  ASSUME StationInv, BeginFitting
  PROVE  StationInv'
<1>1. PICK s \in DOMAIN assets.ships :
        /\ ~assets.out /\ fitting' = DraftFromFit(assets, s) /\ UNCHANGED <<assets, market, held>>
  BY DEF BeginFitting, HasFittingService
<1>2. s \in Ships
  BY InvTypes
<1>3. DraftFromFit(assets, s) \in Drafts /\ DraftFromFit(assets, s).ship = s
  BY <1>2 DEF DraftFromFit, Drafts, Planned
<1> QED BY <1>1, <1>3, DraftedIsSound

LEMMA PlanIsSound ==
  ASSUME StationInv, SetSlot \/ ClearSlot \/ RevertFitting
  PROVE  StationInv'
<1>1. Sound(assets, market, fitting, held)
  BY InvIsSound
<1>2. ASSUME fitting # NoOne, NEW slot \in Slots, NEW plan \in [weapon : BOOLEAN, loaded : BOOLEAN],
             fitting' = [fitting EXCEPT !.slots[slot] = plan], UNCHANGED <<assets, market, held>>
      PROVE  StationInv'
  <2>1. fitting \in Drafts /\ fitting.ship \in DOMAIN assets.ships /\ ~assets.out
    BY <1>1, <1>2 DEF Sound
  <2> DEFINE slots == [fitting.slots EXCEPT ![slot] = plan]
             d == [ship |-> fitting.ship, slots |-> slots]
  <2>2. slots \in [Slots -> [weapon : BOOLEAN, loaded : BOOLEAN]]
    BY <2>1, <1>2 DEF Drafts
  <2>3. fitting' = d
    BY <1>2, <2>1 DEF Drafts
  <2> HIDE DEF slots
  <2>4. d \in Drafts /\ d.ship \in DOMAIN assets.ships
    BY <2>1, <2>2 DEF Drafts
  <2> QED BY <1>2, <2>1, <2>3, <2>4, DraftedIsSound
<1>3. \A weapon, loaded \in BOOLEAN :
        Planned(weapon, loaded) \in [weapon : BOOLEAN, loaded : BOOLEAN]
  BY DEF Planned
<1>4. CASE SetSlot
  BY <1>2, <1>3, <1>4 DEF SetSlot
<1>5. CASE ClearSlot
  BY <1>2, <1>3, <1>5 DEF ClearSlot
<1>6. CASE RevertFitting
  BY <1>6, DraftedIsSound DEF RevertFitting
<1> QED BY <1>4, <1>5, <1>6

LEMMA CommitIsSound ==
  ASSUME StationInv, CommitFitting
  PROVE  StationInv'
<1>1. Sound(assets, market, fitting, held)
  BY InvIsSound
<1> DEFINE b == ApplyDraftTo(assets, fitting)
<1>2. fitting # NoOne /\ b # NoOne /\ Adopt(b) /\ fitting' = NoOne /\ market' = market
  BY DEF CommitFitting
<1>3. fitting \in Drafts /\ assets \in Assets
  BY <1>1, <1>2, InvTypes DEF Sound
<1>4. Restacked(assets, b)
  BY <1>2, <1>3, DraftType DEF Rearranged
<1> HIDE DEF b
<1>5. IsServed(b)
  BY <1>1, <1>4, ServedWithOtherStacks DEF Sound
<1> QED BY <1>2, <1>5, AdoptedIsSound

LEMMA HourIsSound ==
  ASSUME StationInv, EconomyHour
  PROVE  StationInv'
<1>1. Sound(assets, market, fitting, held)
  BY InvIsSound
<1>2. market \in [DOMAIN Listing -> ListingStates] /\ held \in Previews \cup {NoOne}
  BY <1>1 DEF Sound
<1>3. /\ market' = [item \in DOMAIN market |-> AdvanceListing(Listing[item], market[item])]
      /\ held' \in {Stale, held} /\ UNCHANGED <<assets, fitting>>
  BY DEF EconomyHour
<1>4. \A item \in DOMAIN Listing : AdvanceListing(Listing[item], market[item]) \in ListingStates
  BY <1>2, ListingAssumption, HourType
<1>5. market' \in [DOMAIN Listing -> ListingStates]
  BY <1>2, <1>3, <1>4
<1>6. held' \in Previews \cup {NoOne}
  BY <1>2, <1>3, StaleType
<1> QED BY <1>1, <1>3, <1>5, <1>6, NextInvIsSound DEF Sound

\* In space there is no fitting open, so only the assets matter.
LEMMA FlownIsSound ==
  ASSUME StationInv, assets.out, NEW b, IsServed(b), Adopt(b), UNCHANGED <<market, fitting>>
  PROVE  StationInv'
<1>1. fitting' = NoOne
  BY InvIsSound DEF Sound
<1> QED BY <1>1, AdoptedIsSound

LEMMA LeaveIsSound ==
  ASSUME StationInv, Undock \/ Dock
  PROVE  StationInv'
<1>1. assets \in Assets /\ IsServed(assets)
  BY InvTypes
<1>2. CASE Undock
  <2> DEFINE b == [assets EXCEPT !.out = TRUE]
  <2>1. /\ b \in Assets /\ b.credits = assets.credits /\ b.active = assets.active /\ b.out = TRUE
        /\ b.ships = assets.ships
    BY <1>1, WithOut
  <2>2. assets.active # NoOne /\ fitting = NoOne /\ Adopt(b) /\ UNCHANGED <<market, fitting>>
    BY <1>2 DEF Undock
  <2> HIDE DEF b
  <2>3. IsServed(b)
    BY <1>1, <2>1, <2>2 DEF IsServed, IsPlaced
  <2> QED BY <2>2, <2>3, AdoptedIsSound
<1>3. CASE Dock
  <2> DEFINE b == [assets EXCEPT !.out = FALSE]
  <2>1. /\ b \in Assets /\ b.credits = assets.credits /\ b.active = assets.active /\ b.out = FALSE
        /\ b.ships = assets.ships
    BY <1>1, WithOut
  <2>2. assets.out /\ Adopt(b) /\ UNCHANGED <<market, fitting>>
    BY <1>3 DEF Dock
  <2> HIDE DEF b
  <2>3. IsServed(b)
    BY <1>1, <2>1 DEF IsServed, IsPlaced
  <2> QED BY <2>2, <2>3, FlownIsSound
<1> QED BY <1>2, <1>3

\* A ship that takes a hit, or is mended or insured, stays where it is.
LEMMA ShipRecordType ==
  ASSUME NEW a \in Assets, NEW s \in DOMAIN a.ships, NEW r \in ShipRecords,
         NEW b, b = [a EXCEPT !.ships = [a.ships EXCEPT ![s] = r]]
  PROVE  /\ b \in Assets /\ b.credits = a.credits /\ b.active = a.active /\ b.out = a.out
         /\ DOMAIN b.ships = DOMAIN a.ships /\ b.wreck = a.wreck /\ b.stacks = a.stacks
<1> DEFINE f == [a.ships EXCEPT ![s] = r]
<1>1. DOMAIN a.ships \subseteq Ships /\ a.ships \in [DOMAIN a.ships -> ShipRecords]
  BY AssetsType, FleetType
<1>2. f \in [DOMAIN a.ships -> ShipRecords] /\ DOMAIN f = DOMAIN a.ships
  BY <1>1
<1> HIDE DEF f
<1>3. f \in Fleets
  BY <1>1, <1>2, FleetType
<1>4. b = [a EXCEPT !.ships = f]
  BY DEF f
<1> QED BY <1>2, <1>3, <1>4, WithShips

LEMMA HurtType ==
  ASSUME NEW a \in Assets, NEW s \in DOMAIN a.ships, NEW v \in BOOLEAN,
         NEW b, b = [a EXCEPT !.ships[s].hurt = v] \/ b = [a EXCEPT !.ships[s].enhanced = v]
  PROVE  /\ b \in Assets /\ b.credits = a.credits /\ b.active = a.active /\ b.out = a.out
         /\ DOMAIN b.ships = DOMAIN a.ships /\ b.wreck = a.wreck /\ b.stacks = a.stacks
<1> DEFINE hurt == [a.ships[s] EXCEPT !.hurt = v]
           enhanced == [a.ships[s] EXCEPT !.enhanced = v]
<1>1. a.ships[s] \in ShipRecords
  BY AssetsType, FleetType
<1>2. hurt \in ShipRecords /\ enhanced \in ShipRecords
  BY <1>1 DEF ShipRecords
<1>3. PICK r \in {hurt, enhanced} : b = [a EXCEPT !.ships = [a.ships EXCEPT ![s] = r]]
  OBVIOUS
<1> HIDE DEF hurt, enhanced
<1> QED BY <1>2, <1>3, ShipRecordType

LEMMA DamageIsSound ==
  ASSUME StationInv, TakeDamage
  PROVE  StationInv'
<1> DEFINE s == assets.active
           b == [assets EXCEPT !.ships[s].hurt = TRUE]
<1>1. assets.out /\ Adopt(b) /\ UNCHANGED <<market, fitting>>
  BY DEF TakeDamage
<1>2. assets \in Assets /\ IsServed(assets) /\ s \in DOMAIN assets.ships
  BY <1>1, InvTypes DEF IsServed, IsPlaced
<1> HIDE DEF s
<1>5. PICK v \in BOOLEAN : v = TRUE
  OBVIOUS
<1>6. b = [assets EXCEPT !.ships[s].hurt = v]
  BY <1>5
<1> HIDE DEF b
<1>3. /\ b \in Assets /\ b.credits = assets.credits /\ b.active = assets.active
      /\ b.out = assets.out /\ DOMAIN b.ships = DOMAIN assets.ships
  BY <1>2, <1>6, HurtType
<1>4. IsServed(b)
  BY <1>2, <1>3 DEF IsServed, IsPlaced
<1> QED BY <1>1, <1>4, FlownIsSound

LEMMA FireIsSound ==
  ASSUME StationInv, Fire
  PROVE  StationInv'
<1>1. PICK slot \in Slots :
        /\ ChargeAt(assets, assets.active, slot) # {}
        /\ Adopt(Consume(assets, Min(ChargeAt(assets, assets.active, slot)), 1))
        /\ UNCHANGED <<market, fitting>>
  BY DEF Fire
<1> DEFINE T == ChargeAt(assets, assets.active, slot)
<1>2. T \subseteq DOMAIN assets.stacks
  BY DEF ChargeAt, StacksIn
<1> HIDE DEF T
<1>3. Min(T) \in DOMAIN assets.stacks
  BY <1>1, <1>2, InvTypes, LeastPlace DEF T
<1>4. 1 <= assets.stacks[Min(T)].qty
  BY <1>3, InvTypes, StackType
<1>5. Restacked(assets, Consume(assets, Min(T), 1))
  BY <1>3, <1>4, InvTypes, ConsumeType
<1> QED BY <1>1, <1>5, RestackedIsSound DEF T

LEMMA ReloadIsSound ==
  ASSUME StationInv, Reload
  PROVE  StationInv'
<1> DEFINE s == assets.active
           stores == <<Hold(s)>>
           missing(slot) == MagazineSize - Loaded(assets, s, slot)
           spare == Available(assets, stores, Ammo)
<1>1. PICK slot \in Slots :
        /\ assets.out
        /\ Min({missing(slot), spare}) > 0
        /\ Adopt(LoadRounds(stores, assets, s, slot, Min({missing(slot), spare})))
        /\ UNCHANGED <<market, fitting>>
  BY DEF Reload
<1>2. assets \in Assets /\ s \in Ships
  BY <1>1, InvTypes
<1>3. Len(stores) \in Nat /\ DOMAIN stores = 1..Len(stores)
  OBVIOUS
<1>4. missing(slot) \in Int
  BY <1>2, LoadedType, StationAssumption
<1>5. spare \in Nat
  BY <1>2, QuantityType DEF Available
<1> HIDE DEF stores, spare, missing, s
<1>6. Min({missing(slot), spare}) \in Nat
  BY <1>1, <1>4, <1>5, MinOfTwo
<1>7. Restacked(assets, LoadRounds(stores, assets, s, slot, Min({missing(slot), spare})))
  BY <1>2, <1>3, <1>6, LoadRoundsType DEF Rearranged
<1> QED BY <1>1, <1>7, RestackedIsSound

LEMMA LootIsSound ==
  ASSUME StationInv, TakeLoot
  PROVE  StationInv'
<1>1. PICK i \in StacksIn(assets, Wreck), q \in DealSizes :
        /\ assets.out /\ q <= assets.stacks[i].qty
        /\ Adopt(Move(assets, i, Hold(assets.active), q, Plain))
        /\ UNCHANGED <<market, fitting>>
  BY DEF TakeLoot
<1>2. i \in DOMAIN assets.stacks /\ q \in Nat \ {0} /\ Plain \in States
  BY DealTypes DEF StacksIn
<1>3. Hold(assets.active) \in Places
  BY <1>1, InvTypes DEF Places
<1>4. Restacked(assets, Move(assets, i, Hold(assets.active), q, Plain))
  BY <1>1, <1>2, <1>3, InvTypes, MoveType
<1> QED BY <1>1, <1>4, RestackedIsSound

LEMMA ExpiryIsSound ==
  ASSUME StationInv, WreckExpires
  PROVE  StationInv'
<1> DEFINE a == [assets EXCEPT !.wreck = FALSE]
           b == [a EXCEPT !.stacks = KeptStacks(assets)]
<1>1. Adopt(b) /\ UNCHANGED <<market, fitting>>
  BY DEF WreckExpires, WithoutWreck
<1>2. Sound(assets, market, fitting, held) /\ assets \in Assets /\ IsServed(assets)
  BY InvTypes, InvIsSound
<1>3. /\ a \in Assets /\ a.credits = assets.credits /\ a.active = assets.active
      /\ a.out = assets.out /\ a.ships = assets.ships
  BY <1>2, WithWreck
<1>4. KeptStacks(assets) \in Seq(Stacks)
  BY <1>2, KeptType
<1> HIDE DEF a
<1>5. Restacked(a, b)
  BY <1>3, <1>4, OtherStacks
<1> HIDE DEF b
<1>6. IsServed(b) /\ b.out = assets.out /\ b.ships = assets.ships
  BY <1>2, <1>3, <1>5 DEF IsServed, IsPlaced, Restacked
<1>7. fitting' = NoOne \/ ~b.out
  BY <1>1, <1>2, <1>6 DEF Sound
<1> QED BY <1>1, <1>6, <1>7, AdoptedIsSound

LEMMA LossIsSound ==
  ASSUME StationInv, LoseShip
  PROVE  StationInv'
<1>1. PICK survivors \in SUBSET MaySurvive(assets, assets.active) :
        /\ assets.out /\ Adopt(ResolveLoss(assets, assets.active, survivors))
        /\ UNCHANGED <<market, fitting>>
  BY DEF LoseShip
<1>2. IsServed(ResolveLoss(assets, assets.active, survivors))
  BY <1>1, InvTypes, LossServes
<1> QED BY <1>1, <1>2, FlownIsSound

-----------------------------------------------------------------------------
(* A confirmed preview. *)

\* A request, by what it asks for.
IsRequest(r) ==
  \/ r.action = "market.buy" /\ r.item = Hull /\ r.q = 1
  \/ r.action = "market.buy" /\ r.item \in Items /\ r.q \in DealSizes /\ r.inv \in Places
  \/ r.action = "market.sell" /\ r.q \in DealSizes
  \/ r.action \in {"repair", "resupply", "insurance.enhance"}

LEMMA RequestIsRequest ==
  ASSUME NEW r \in RequestTypes
  PROVE  IsRequest(r)
<1>1. CASE r \in [action : {"market.buy"}, item : {Hull}, q : {1}, inv : {NoOne}]
  BY <1>1 DEF IsRequest
<1>2. CASE r \in [action : {"market.buy"}, item : Items, q : DealSizes, inv : Places]
  BY <1>2 DEF IsRequest
<1>3. CASE r \in [action : {"market.sell"}, stack : Nat, q : DealSizes]
  BY <1>3 DEF IsRequest
<1>4. CASE r \in [action : {"repair", "resupply", "insurance.enhance"}, ship : Ships]
  BY <1>4 DEF IsRequest
<1> QED BY <1>1, <1>2, <1>3, <1>4 DEF RequestTypes

\* What a preview shows: a price of whole credits, and what is traded.
LEMMA ShownType ==
  ASSUME StationInv, NEW r, IsRequest(r), Offered(r)
  PROVE  /\ Shown(r).credits \in Nat /\ Shown(r).units \in Nat
         /\ Shown(r) \in [credits : Nat, units : Nat]
         /\ r.action \in {"market.buy", "market.sell"} => Shown(r).units = r.q
         /\ r.action = "resupply" => Shown(r).units = RoundsToBuy(assets, r.ship)
<1>1. market \in [DOMAIN Listing -> ListingStates] /\ assets \in Assets
  BY InvIsSound, InvTypes DEF Sound
<1>2. CASE r.action = "market.buy"
  <2> DEFINE c == Trade(r.item, "stationSells", r.q)
  <2>1. r.item \in Items \cup {Hull} /\ r.q \in Nat
    <3>1. (r.item = Hull /\ r.q = 1) \/ (r.item \in Items /\ r.q \in DealSizes)
      BY <1>2 DEF IsRequest
    <3>2. DealSizes \subseteq Nat
      BY DealTypes
    <3>3. CASE r.item = Hull /\ r.q = 1
      <4>1. r.q \in Nat
        BY <3>3
      <4> QED BY <3>3, <4>1
    <3>4. CASE r.item \in Items /\ r.q \in DealSizes
      BY <3>2, <3>4
    <3> QED BY <3>1, <3>3, <3>4
  <2>2. c \in Nat
    BY <1>1, <2>1, TradeType
  <2>3. Shown(r) = [credits |-> c, units |-> r.q]
    BY <1>2 DEF Shown
  <2> HIDE DEF c
  <2> QED BY <1>2, <2>1, <2>2, <2>3
<1>3. CASE r.action = "market.sell"
  <2> DEFINE item == assets.stacks[r.stack].item
             c == Trade(item, "stationBuys", r.q)
  <2>1. r.stack \in DOMAIN assets.stacks /\ r.q \in Nat
    BY <1>3, DealTypes DEF IsRequest, Offered
  <2>2. item \in Items \cup {Hull}
    BY <2>1, InvTypes, StackType
  <2>3. Shown(r) = [credits |-> c, units |-> r.q]
    BY <1>3 DEF Shown
  <2> HIDE DEF item
  <2>4. c \in Nat
    BY <1>1, <2>1, <2>2, TradeType
  <2> HIDE DEF c
  <2> QED BY <1>3, <2>1, <2>3, <2>4
<1>4. CASE r.action = "resupply"
  <2> DEFINE n == RoundsToBuy(assets, r.ship)
             c == IF n = 0 THEN 0 ELSE Trade(Ammo, "stationSells", n)
  <2>1. n \in Nat /\ Ammo \in Items \cup {Hull}
    BY <1>1, RoundsToBuyType, StationAssumption
  <2>2. Shown(r) = [credits |-> c, units |-> n]
    BY <1>4 DEF Shown
  <2> HIDE DEF n
  <2>3. c \in Nat
    BY <1>1, <2>1, TradeType
  <2> HIDE DEF c
  <2> QED BY <1>4, <2>1, <2>2, <2>3 DEF n
<1>5. CASE r.action = "repair"
  <2>1. Shown(r) = [credits |-> RepairPrice, units |-> 0]
    BY <1>5 DEF Shown
  <2> QED BY <1>5, <2>1, StationAssumption
<1>6. CASE r.action = "insurance.enhance"
  <2>1. Shown(r) = [credits |-> Premium, units |-> 0]
    BY <1>6 DEF Shown
  <2> QED BY <1>6, <2>1, StationAssumption
<1> QED BY <1>2, <1>3, <1>4, <1>5, <1>6 DEF IsRequest

\* What the client can ask for is a request, and so is whatever it holds a
\* preview of.
LEMMA RequestType ==
  ASSUME StationInv, NEW r \in Requests
  PROVE  r \in RequestTypes
<1>1. Local(assets) \subseteq Places /\ DOMAIN assets.ships \subseteq Ships
      /\ DOMAIN assets.stacks \subseteq Nat
  BY LocalType, InvTypes
<1>2. CASE r \in {Buying(Hull, q, NoOne) : q \in {1}}
  BY <1>2 DEF Buying, RequestTypes
<1>3. CASE r \in {Buying(item, q, inv) : item \in Items, q \in DealSizes, inv \in Local(assets)}
  BY <1>1, <1>3 DEF Buying, RequestTypes
<1>4. CASE r \in {Selling(i, q) : i \in DOMAIN assets.stacks, q \in DealSizes}
  BY <1>1, <1>4 DEF Selling, RequestTypes
<1>5. CASE r \in {Service(action, s) : action \in {"repair", "resupply", "insurance.enhance"},
                                       s \in DOMAIN assets.ships}
  BY <1>1, <1>5 DEF Service, RequestTypes
<1> QED BY <1>2, <1>3, <1>4, <1>5 DEF Requests

LEMMA HeldRequest ==
  ASSUME StationInv, held # NoOne
  PROVE  held.request \in RequestTypes /\ IsRequest(held.request)
<1>1. held \in Previews
  BY InvIsSound DEF Sound
<1>2. held.request \in RequestTypes
  BY <1>1 DEF Previews
<1> QED BY <1>2, RequestIsRequest

LEMMA PreviewType ==
  ASSUME StationInv, NEW r \in RequestTypes
  PROVE  Preview(r) \in Previews \cup {NoOne}
<1> DEFINE h == [request |-> r, shown |-> Shown(r), fresh |-> TRUE]
<1>1. CASE ~IsAvailable(r)
  BY <1>1 DEF Preview
<1>2. CASE IsAvailable(r)
  <2>1. IsRequest(r) /\ Offered(r)
    BY <1>2, RequestIsRequest DEF IsAvailable
  <2>2. Shown(r) \in [credits : Nat, units : Nat]
    BY <2>1, ShownType
  <2>3. h \in Previews
    BY <2>2 DEF Previews
  <2> QED BY <1>2, <2>3 DEF Preview
<1> QED BY <1>1, <1>2

LEMMA OtherHeldIsSound ==
  ASSUME StationInv, UNCHANGED <<assets, market, fitting>>, held' \in Previews \cup {NoOne}
  PROVE  StationInv'
BY InvIsSound, NextInvIsSound DEF Sound

LEMMA AskIsSound ==
  ASSUME StationInv, AskPreview \/ ConfirmStale
  PROVE  StationInv'
<1>2. CASE AskPreview
  <2>1. PICK r \in Requests : held' = Preview(r) /\ UNCHANGED <<assets, market, fitting>>
    BY <1>2 DEF AskPreview
  <2>2. r \in RequestTypes
    BY RequestType
  <2> QED BY <2>1, <2>2, PreviewType, OtherHeldIsSound
<1>3. CASE ConfirmStale
  <2>1. held # NoOne /\ held' = Preview(held.request) /\ UNCHANGED <<assets, market, fitting>>
    BY <1>3 DEF ConfirmStale
  <2>2. held.request \in RequestTypes
    BY <2>1, HeldRequest
  <2> QED BY <2>1, <2>2, PreviewType, OtherHeldIsSound
<1> QED BY <1>2, <1>3

LEMMA PaidType ==
  ASSUME NEW a \in Assets, NEW c \in Nat, c <= a.credits
  PROVE  LET b == Paid(a, c)
         IN  /\ b \in Assets /\ b.active = a.active /\ b.out = a.out /\ b.ships = a.ships
             /\ b.stacks = a.stacks /\ b.wreck = a.wreck /\ b.credits = a.credits - c
<1>1. a.credits - c \in Nat
  BY AssetsType
<1> DEFINE v == a.credits - c
<1>2. Paid(a, c) = [a EXCEPT !.credits = v]
  BY DEF Paid
<1> HIDE DEF v
<1> QED BY <1>1, <1>2, WithCredits DEF v

LEMMA BuyServes ==
  ASSUME NEW a, IsPlaced(a), ~a.out, NEW r, IsRequest(r), r.action = "market.buy",
         r.item = Hull => DOMAIN a.ships # Ships
  PROVE  LET b == ApplyBuy(a, r)
         IN  IsServed(b) /\ ~b.out /\ DOMAIN a.ships \subseteq DOMAIN b.ships
<1>1. a \in Assets
  BY DEF IsPlaced
<1>2. CASE r.item = Hull
  <2> DEFINE b == AddPurchasedHull(a)
  <2>1. /\ b \in Assets /\ b.out = a.out /\ DOMAIN a.ships \subseteq DOMAIN b.ships
        /\ b.active # NoOne
        /\ b.active = a.active \/ (a.active = NoOne /\ b.active \in DOMAIN b.ships)
    BY <1>1, <1>2, HullType
  <2>2. ApplyBuy(a, r) = EnsureRecoveryRoute(b)
    BY <1>2 DEF ApplyBuy
  <2> HIDE DEF b
  <2>3. IsPlaced(b)
    BY <2>1 DEF IsPlaced
  <2> QED BY <2>1, <2>2, <2>3, RouteServes
<1>3. CASE r.item # Hull
  <2> DEFINE b == Add(a, r.inv, r.item, r.q, Plain, FALSE)
  <2>1. r.inv \in Places /\ r.item \in Items /\ r.q \in Nat \ {0} /\ Plain \in States
        /\ FALSE \in BOOLEAN
    BY <1>3, DealTypes DEF IsRequest
  <2>2. Restacked(a, b)
    BY <1>1, <2>1, AddType
  <2>3. ApplyBuy(a, r) = EnsureRecoveryRoute(b)
    BY <1>3 DEF ApplyBuy
  <2> HIDE DEF b
  <2>4. IsPlaced(b) /\ b.out = a.out /\ b.ships = a.ships
    BY <2>2 DEF IsPlaced, Restacked
  <2> QED BY <2>3, <2>4, RouteServes
<1> QED BY <1>2, <1>3

\* Whatever is confirmed leaves the pilot docked, and with a ship or its price.
LEMMA ConfirmedServes ==
  ASSUME StationInv, NEW r, IsRequest(r), IsAvailable(r),
         (r.action = "market.buy" /\ r.item = Hull) => DOMAIN assets.ships # Ships
  PROVE  LET b == ApplyConfirmed(r, Shown(r))
         IN  IsServed(b) /\ ~b.out /\ DOMAIN assets.ships \subseteq DOMAIN b.ships
<1> DEFINE c == Shown(r).credits
           a == Paid(assets, c)
           b == ApplyConfirmed(r, Shown(r))
<1>1. Offered(r) /\ (r.action # "market.sell" => c <= assets.credits)
  BY DEF IsAvailable
<1>2. c \in Nat /\ ~assets.out /\ assets \in Assets /\ IsServed(assets) /\ IsPlaced(assets)
  BY <1>1, ShownType, InvTypes DEF Offered, IsServed
<1> HIDE DEF c
<1>3. r.action # "market.sell" =>
        /\ a \in Assets /\ a.active = assets.active /\ a.out = assets.out
        /\ a.ships = assets.ships /\ a.stacks = assets.stacks
  BY <1>1, <1>2, PaidType
<1>4. r.action # "market.sell" => IsPlaced(a) /\ ~a.out
  BY <1>2, <1>3 DEF IsPlaced
<1> HIDE DEF a
<1>5. CASE r.action = "market.buy"
  <2>1. b = ApplyBuy(a, r)
    BY <1>5 DEF ApplyConfirmed, a, c
  <2>2. LET x == ApplyBuy(a, r)
        IN  IsServed(x) /\ ~x.out /\ DOMAIN a.ships \subseteq DOMAIN x.ships
    BY <1>3, <1>4, <1>5, BuyServes
  <2> HIDE DEF b
  <2> QED BY <1>3, <1>5, <2>1, <2>2 DEF b
<1>6. CASE r.action = "market.sell"
  <2> DEFINE sold == Consume(assets, r.stack, r.q)
             v == assets.credits + c
             x == [sold EXCEPT !.credits = v]
  <2>1. /\ r.stack \in DOMAIN assets.stacks /\ r.q \in Nat \ {0}
        /\ r.q <= assets.stacks[r.stack].qty
    BY <1>1, <1>6, DealTypes DEF IsRequest, Offered
  <2>2. Restacked(assets, sold)
    BY <1>2, <2>1, ConsumeType
  <2> HIDE DEF sold
  <2>3. v \in Nat /\ v >= assets.credits /\ assets.credits \in Nat /\ sold.credits = assets.credits
    BY <1>2, <2>2, AssetsType DEF Restacked
  <2>4. b = [sold EXCEPT !.credits = sold.credits + c]
    BY <1>6 DEF ApplyConfirmed, c, sold
  <2>5. b = x
    <3> HIDE DEF b
    <3> QED BY <2>3, <2>4
  <2> HIDE DEF v
  <2>6. /\ x \in Assets /\ x.credits = v /\ x.active = sold.active /\ x.out = sold.out
        /\ x.ships = sold.ships
    BY <2>2, <2>3, WithCredits DEF Restacked
  <2> HIDE DEF x, b
  <2>7. IsServed(x) /\ ~x.out /\ DOMAIN assets.ships \subseteq DOMAIN x.ships
    BY <1>2, <2>2, <2>3, <2>6, HullPriceIsFixed DEF IsServed, IsPlaced, Restacked
  <2> QED BY <2>5, <2>7 DEF b
<1>7. ASSUME r.action \in {"repair", "insurance.enhance", "resupply"}
      PROVE  r.ship \in DOMAIN a.ships /\ a.active # NoOne
  <2>1. r.ship \in DOMAIN assets.ships
    BY <1>1, <1>7 DEF Offered
  <2> QED BY <1>2, <1>3, <1>7, <2>1 DEF IsPlaced
<1>8. CASE r.action \in {"repair", "insurance.enhance"}
  <2>1. b = [a EXCEPT !.ships[r.ship].hurt = FALSE] \/ b = [a EXCEPT !.ships[r.ship].enhanced = TRUE]
    BY <1>8 DEF ApplyConfirmed, a, c
  <2> HIDE DEF b
  <2>2. \E v \in BOOLEAN :
          b = [a EXCEPT !.ships[r.ship].hurt = v] \/ b = [a EXCEPT !.ships[r.ship].enhanced = v]
    BY <2>1
  <2>3. /\ b \in Assets /\ b.active = a.active /\ b.out = a.out /\ DOMAIN b.ships = DOMAIN a.ships
    BY <1>3, <1>7, <1>8, <2>2, HurtType
  <2>4. IsServed(b) /\ ~b.out /\ DOMAIN assets.ships \subseteq DOMAIN b.ships
    BY <1>3, <1>4, <1>7, <1>8, <2>3 DEF IsServed, IsPlaced
  <2> QED BY <2>4 DEF b
<1>9. CASE r.action = "resupply"
  <2> DEFINE x == ApplyResupply(a, r.ship)
  <2>1. b = x
    BY <1>9 DEF ApplyConfirmed, a, c
  <2>2. r.ship \in Ships
    BY <1>3, <1>7, <1>9, InvTypes
  <2>3. Restacked(a, x)
    BY <1>3, <1>9, <2>2, ResupplyType
  <2> HIDE DEF x, b
  <2>4. IsServed(x) /\ ~x.out /\ DOMAIN assets.ships \subseteq DOMAIN x.ships
    BY <1>3, <1>4, <1>7, <1>9, <2>3 DEF IsServed, IsPlaced, Restacked
  <2> QED BY <2>1, <2>4 DEF b
<1> HIDE DEF b
<1>10. IsServed(b) /\ ~b.out /\ DOMAIN assets.ships \subseteq DOMAIN b.ships
  BY <1>5, <1>6, <1>8, <1>9 DEF IsRequest, b
<1> QED BY <1>10 DEF b

\* Only what is in stock is sold.
LEMMA MovedType ==
  ASSUME StationInv, NEW r, IsRequest(r), IsAvailable(r)
  PROVE  MovedStock(r, Shown(r)) \in [DOMAIN Listing -> ListingStates]
<1> DEFINE shown == Shown(r)
           moved(item, side) == [market EXCEPT ![item] =
                                   ApplyStockMovement(Listing[item], @, side, shown.units)]
<1>1. Offered(r)
  BY DEF IsAvailable
<1>2. /\ shown.units \in Nat
      /\ r.action \in {"market.buy", "market.sell"} => shown.units = r.q
      /\ r.action = "resupply" => shown.units = RoundsToBuy(assets, r.ship)
  BY <1>1, ShownType
<1>3. market \in [DOMAIN Listing -> ListingStates]
  BY InvIsSound DEF Sound
<1>4. DOMAIN Listing = Items \cup {Hull} /\ Ammo \in Items
  BY ListingAssumption, StationAssumption
<1> HIDE DEF shown
<1>5. ASSUME NEW item \in DOMAIN Listing, NEW side,
             side = "stationSells" => InStock(Listing[item], market[item], shown.units)
      PROVE  moved(item, side) \in [DOMAIN Listing -> ListingStates]
  <2>1. market[item] \in ListingStates
    BY <1>3
  <2>2. ApplyStockMovement(Listing[item], market[item], side, shown.units) \in ListingStates
    BY <1>2, <1>5, <2>1, MovementType
  <2> QED BY <1>3, <2>2
<1>6. CASE r.action = "market.buy"
  <2>1. r.item \in DOMAIN Listing
    BY <1>4, <1>6 DEF IsRequest
  <2>2. InStock(Listing[r.item], market[r.item], shown.units)
    BY <1>1, <1>2, <1>6 DEF Offered
  <2>3. moved(r.item, "stationSells") \in [DOMAIN Listing -> ListingStates]
    BY <1>5, <2>1, <2>2
  <2>4. MovedStock(r, shown) = moved(r.item, "stationSells")
    BY <1>6 DEF MovedStock
  <2> HIDE DEF moved
  <2> QED BY <2>3, <2>4 DEF shown
<1>7. CASE r.action = "market.sell"
  <2> DEFINE item == assets.stacks[r.stack].item
  <2>1. r.stack \in DOMAIN assets.stacks
    BY <1>1, <1>7 DEF Offered
  <2>2. item \in DOMAIN Listing
    BY <1>4, <2>1, InvTypes, StackType
  <2>3. MovedStock(r, shown) = moved(item, "stationBuys")
    BY <1>7 DEF MovedStock
  <2> HIDE DEF item
  <2>4. moved(item, "stationBuys") \in [DOMAIN Listing -> ListingStates]
    BY <1>5, <2>2
  <2> HIDE DEF moved
  <2> QED BY <2>3, <2>4 DEF shown
<1>8. CASE r.action = "resupply"
  <2>1. InStock(Listing[Ammo], market[Ammo], shown.units)
    BY <1>1, <1>2, <1>8 DEF Offered
  <2>2. moved(Ammo, "stationSells") \in [DOMAIN Listing -> ListingStates]
    BY <1>4, <1>5, <2>1
  <2>3. MovedStock(r, shown) = moved(Ammo, "stationSells")
    BY <1>8 DEF MovedStock
  <2> HIDE DEF moved
  <2> QED BY <2>2, <2>3 DEF shown
<1>9. CASE r.action \in {"repair", "insurance.enhance"}
  BY <1>3, <1>9 DEF MovedStock
<1> QED BY <1>6, <1>7, <1>8, <1>9 DEF IsRequest

LEMMA ConfirmIsSound ==
  ASSUME StationInv, Confirm
  PROVE  StationInv'
<1> DEFINE r == held.request
           b == ApplyConfirmed(r, Shown(r))
<1>1. /\ held # NoOne /\ IsAvailable(r)
      /\ (r.action = "market.buy" /\ r.item = Hull) => DOMAIN assets.ships # Ships
      /\ assets' = b /\ market' = MovedStock(r, Shown(r)) /\ held' = NoOne /\ fitting' = fitting
  BY DEF Confirm, TokenMatches
<1>2. Sound(assets, market, fitting, held)
  BY InvIsSound
<1>3. IsRequest(r)
  BY <1>1, HeldRequest
<1> HIDE DEF r
<1>4. IsServed(b) /\ ~b.out /\ DOMAIN assets.ships \subseteq DOMAIN b.ships
  BY <1>1, <1>3, ConfirmedServes
<1>5. market' \in [DOMAIN Listing -> ListingStates]
  BY <1>1, <1>3, MovedType
<1> HIDE DEF b
<1>6. Sound(assets', market', fitting', held')
  BY <1>1, <1>2, <1>4, <1>5 DEF Sound
<1> QED BY <1>6, NextInvIsSound

-----------------------------------------------------------------------------
(* The invariant. *)

LEMMA StartIsSound ==
  ASSUME Init
  PROVE  StationInv
<1> DEFINE s == Min(Ships)
           slot == Min(Slots)
           stack(item, qty, inv, state) ==
             [item |-> item, qty |-> qty, inv |-> inv, state |-> state, marked |-> FALSE]
           stacks == <<stack(Gun, 1, Hangar, Plain), stack(Ammo, 1, Hold(s), Plain),
                       stack(Gun, 1, FittingStore(s), Fitted(slot)),
                       stack(Ammo, MagazineSize, FittingStore(s), Charge(slot))>>
           ships == [x \in {s} |-> NewShip(FALSE)]
           a == [credits |-> StartingCredits, active |-> s, out |-> FALSE, wreck |-> FALSE,
                 ships |-> ships, stacks |-> stacks]
           m == [item \in DOMAIN Listing |-> [stock |-> InitialStock, half |-> 0]]
<1>1. assets = a /\ market = m /\ fitting = NoOne /\ held = NoOne
  BY DEF Init
<1>2. s \in Ships /\ s # NoOne
  BY MinOfNaturals, StationAssumption
<1>3. slot \in Slots
  BY SlotsAreCounted, StationAssumption, MinOfNaturals
<1> HIDE DEF s, slot
<1>4. /\ {Hangar, Hold(s), FittingStore(s)} \subseteq Places
      /\ {Plain, Fitted(slot), Charge(slot)} \subseteq States
      /\ Gun \in Items /\ Ammo \in Items /\ MagazineSize \in Nat \ {0}
  BY <1>2, <1>3, StationAssumption DEF Places, States
<1>5. stacks \in Seq(Stacks)
  <2>1. stack(Gun, 1, Hangar, Plain) \in Stacks
    BY <1>4 DEF Stacks
  <2>2. stack(Ammo, 1, Hold(s), Plain) \in Stacks
    BY <1>4 DEF Stacks
  <2>3. stack(Gun, 1, FittingStore(s), Fitted(slot)) \in Stacks
    BY <1>4 DEF Stacks
  <2>4. stack(Ammo, MagazineSize, FittingStore(s), Charge(slot)) \in Stacks
    BY <1>4 DEF Stacks
  <2> HIDE DEF stack
  <2> QED BY <2>1, <2>2, <2>3, <2>4
<1>6. ships \in Fleets /\ DOMAIN ships = {s}
  <2>1. NewShip(FALSE) \in ShipRecords
    BY DEF NewShip, ShipRecords
  <2>2. ships \in [{s} -> ShipRecords] /\ DOMAIN ships = {s} /\ {s} \subseteq Ships
    BY <1>2, <2>1
  <2> HIDE DEF ships
  <2> QED BY <2>2, FleetType
<1> HIDE DEF stacks, ships
<1>7. a \in Assets
  BY <1>2, <1>5, <1>6, StationAssumption DEF Assets
<1>8. IsServed(a) /\ ~a.out
  BY <1>2, <1>6, <1>7 DEF IsServed, IsPlaced
<1>9. m \in [DOMAIN Listing -> ListingStates]
  BY StationAssumption DEF ListingStates
<1> HIDE DEF a, m
<1>10. Sound(assets, market, fitting, held)
  BY <1>1, <1>8, <1>9 DEF Sound
<1> QED BY <1>10, InvIsSound

LEMMA StepIsSound ==
  ASSUME StationInv, [Next]_vars
  PROVE  StationInv'
<1>1. CASE Transfer  BY <1>1, TransferIsSound
<1>2. CASE SplitStack  BY <1>2, SplitIsSound
<1>3. CASE MergeStacks  BY <1>3, MergeIsSound
<1>4. CASE AskPreview \/ ConfirmStale  BY <1>4, AskIsSound
<1>5. CASE Confirm  BY <1>5, ConfirmIsSound
<1>6. CASE BeginFitting  BY <1>6, BeginIsSound
<1>7. CASE SetSlot \/ ClearSlot \/ RevertFitting  BY <1>7, PlanIsSound
<1>8. CASE CommitFitting  BY <1>8, CommitIsSound
<1>9. CASE EconomyHour  BY <1>9, HourIsSound
<1>10. CASE Undock \/ Dock  BY <1>10, LeaveIsSound
<1>11. CASE TakeDamage  BY <1>11, DamageIsSound
<1>12. CASE Fire  BY <1>12, FireIsSound
<1>13. CASE Reload  BY <1>13, ReloadIsSound
<1>14. CASE TakeLoot  BY <1>14, LootIsSound
<1>15. CASE WreckExpires  BY <1>15, ExpiryIsSound
<1>16. CASE LoseShip  BY <1>16, LossIsSound
<1>17. CASE UNCHANGED vars
  <2>1. UNCHANGED <<assets, market, fitting, held>>
    BY <1>17 DEF vars
  <2> QED BY <2>1, InvIsSound, NextInvIsSound
<1> QED BY <1>1, <1>2, <1>3, <1>4, <1>5, <1>6, <1>7, <1>8, <1>9, <1>10, <1>11, <1>12, <1>13,
           <1>14, <1>15, <1>16, <1>17 DEF Next

\* Every behaviour keeps the types, the place of the pilot and the way back to a
\* ship.
THEOREM InvariantHolds == Spec => []StationInv
<1>1. Init => StationInv
  BY StartIsSound
<1>2. StationInv /\ [Next]_vars => StationInv'
  BY StepIsSound
<1> QED BY <1>1, <1>2, PTL DEF Spec

\* Assets, market, draft and preview stay within their types: no stack of no
\* units, no debt, and no stock below none.
THEOREM TypeCorrect == Spec => []StationTypes
<1>1. StationInv => StationTypes
  BY DEF StationInv
<1> QED BY <1>1, InvariantHolds, PTL

\* The recovery service: whoever has no ship, after whatever was bought, sold,
\* fitted, flown and lost, is docked and has the price of a hull that the
\* station always sells.
THEOREM RouteStaysOpen == Spec => []RecoveryRouteStaysOpen
<1>1. StationInv => RecoveryRouteStaysOpen
  BY DEF StationInv
<1> QED BY <1>1, InvariantHolds, PTL

\* Nobody is in space without a ship or with a fitting open, and a draft is of a
\* ship the pilot owns.
THEOREM PilotStaysPlaced == Spec => []PilotIsPlaced
<1>1. StationInv => PilotIsPlaced
  BY DEF StationInv
<1> QED BY <1>1, InvariantHolds, PTL

\* At whatever stock the trades and the hours leave the market, a bulk quote is
\* the sum of its units and nothing is sold back at a profit.
THEOREM QuotesStayFair == Spec => []QuotesAreFair
<1>1. StationInv => QuotesAreFair
  <2> SUFFICES ASSUME StationInv, NEW item \in DOMAIN Listing, NEW q \in DealSizes
               PROVE  IsFair(Listing[item], market[item].stock, q)
    BY DEF QuotesAreFair
  <2>1. market \in [DOMAIN Listing -> ListingStates]
    BY InvIsSound DEF Sound
  <2>2. market[item].stock \in Nat /\ q \in Nat
    BY <2>1, DealTypes DEF ListingStates
  <2>3. Listing[item] \in Listings /\ IsHedged(Listing[item])
    BY ListingAssumption
  <2> QED BY <2>2, <2>3, HedgedIsFair
<1> QED BY <1>1, InvariantHolds, PTL

-----------------------------------------------------------------------------
(* Units, counted. *)

LEMMA QuantityIsWeight ==
  ASSUME NEW a \in Assets, NEW places, NEW K,
         \A i \in DOMAIN a.stacks : i \in places <=> Kind(a.stacks[i]) \in K
  PROVE  Quantity(a, places) = Weigh(a.stacks, K)
<1>1. [i \in DOMAIN a.stacks |-> IF i \in places THEN a.stacks[i].qty ELSE 0] = Weights(a.stacks, K)
  BY DEF Weights, Weight
<1> QED BY <1>1 DEF Quantity, Weigh

LEMMA UnitsAreWeights ==
  ASSUME NEW a \in Assets, NEW item
  PROVE  /\ Units(a, item) = Weigh(a.stacks, OfItem(item))
         /\ UnitsOf(a, item, FALSE) = Weigh(a.stacks, Unmarked(item))
         /\ UnitsOf(a, item, TRUE) = Weigh(a.stacks, Marked(item))
<1>1. ASSUME NEW i \in DOMAIN a.stacks
      PROVE  /\ a.stacks[i] \in Stacks /\ a.stacks[i].marked \in BOOLEAN
             /\ Kind(a.stacks[i]) \in OfItem(item) <=> a.stacks[i].item = item
             /\ Kind(a.stacks[i]) \in Unmarked(item) <=> a.stacks[i].item = item /\ ~a.stacks[i].marked
             /\ Kind(a.stacks[i]) \in Marked(item) <=> a.stacks[i].item = item /\ a.stacks[i].marked
  <2>1. a.stacks[i] \in Stacks
    BY AssetsType
  <2> QED BY <2>1, KindOf, StackType
<1> DEFINE all == {i \in DOMAIN a.stacks : a.stacks[i].item = item}
           with(mark) == {i \in DOMAIN a.stacks : a.stacks[i].item = item /\ a.stacks[i].marked = mark}
<1>2. \A i \in DOMAIN a.stacks : i \in all <=> Kind(a.stacks[i]) \in OfItem(item)
  BY <1>1
<1>3. \A i \in DOMAIN a.stacks : i \in with(FALSE) <=> Kind(a.stacks[i]) \in Unmarked(item)
  BY <1>1
<1>4. \A i \in DOMAIN a.stacks : i \in with(TRUE) <=> Kind(a.stacks[i]) \in Marked(item)
  BY <1>1
<1>5. Units(a, item) = Quantity(a, all)
  BY DEF Units
<1>6. UnitsOf(a, item, FALSE) = Quantity(a, with(FALSE)) /\ UnitsOf(a, item, TRUE) = Quantity(a, with(TRUE))
  BY DEF UnitsOf
<1> HIDE DEF all, with
<1> QED BY <1>2, <1>3, <1>4, <1>5, <1>6, QuantityIsWeight

\* Where nothing is, nothing weighs.
LEMMA NothingWeighs ==
  ASSUME NEW stacks \in Seq(Stacks), NEW K, \A i \in DOMAIN stacks : Kind(stacks[i]) \notin K
  PROVE  Weigh(stacks, K) = 0
<1> DEFINE w == Weights(stacks, K)
           n == Len(stacks)
<1>1. /\ w \in Seq(Int) /\ Len(w) = n /\ n \in Nat /\ DOMAIN stacks = 1..n
      /\ \A i \in 1..n : w[i] = Weight(stacks[i], K)
  BY WeightsType
<1>2. \A i \in 1..n : w[i] = 0
  BY <1>1 DEF Weight
<1> HIDE DEF w
<1>3. PICK g : Runs(g, w) /\ Total(w) = g[Len(w)]
  BY <1>1, TotalRuns
<1> HIDE DEF n
<1>4. g[0] = 0 /\ \A i \in 1..n : g[i] = g[i - 1] + w[i]
  BY <1>1, <1>3 DEF Runs
<1> DEFINE G == {0}
<1>5. g[0] \in G
  BY <1>4
<1>6. ASSUME NEW i \in 1..n, g[i - 1] \in G PROVE g[i] \in G
  BY <1>2, <1>4, <1>6
<1> HIDE DEF G
<1>7. g[n] \in G
  BY <1>1, <1>5, <1>6, StaysIn
<1> QED BY <1>1, <1>3, <1>7 DEF G, Weigh, w

\* What step after step is in the set for its number is in the last one.
LEMMA StaysAt ==
  ASSUME NEW g, NEW n \in Nat, NEW G, g[0] \in G[0], \A i \in 1..n : g[i - 1] \in G[i - 1] => g[i] \in G[i]
  PROVE  g[n] \in G[n]
<1> DEFINE W == {i \in 0..n : g[i] \notin G[i]}
<1>1. 0 \notin W
  OBVIOUS
<1>2. ASSUME NEW i \in 1..n, i \in W PROVE i - 1 \in W
  <2>1. i - 1 \in 0..n
    OBVIOUS
  <2> QED BY <1>2, <2>1
<1>3. W \subseteq 0..n
  OBVIOUS
<1> HIDE DEF W
<1>4. W = {}
  BY <1>1, <1>2, <1>3, UpTo
<1>5. n \in 0..n
  OBVIOUS
<1> QED BY <1>4, <1>5 DEF W

-----------------------------------------------------------------------------
(* Resupply. *)

\* The rounds a resupply draws on.
OwnedKinds(a) == {k \in Kinds : k[1] = Ammo /\ k[2] \in Local(a) /\ k[3] = Plain}

LEMMA OwnedAreBlind ==
  ASSUME NEW a
  PROVE  IsBlind(OwnedKinds(a))
BY DEF IsBlind, OwnedKinds, Kinds

LEMMA LocalStays ==
  ASSUME NEW a, NEW b, Restacked(a, b)
  PROVE  Local(b) = Local(a) /\ OwnedKinds(b) = OwnedKinds(a)
<1>1. Local(b) = Local(a)
  BY DEF Restacked, Local
<1> QED BY <1>1 DEF OwnedKinds

LEMMA OwnedKind ==
  ASSUME NEW a, NEW s \in Stacks
  PROVE  Kind(s) \in OwnedKinds(a) <=> s.item = Ammo /\ s.inv \in Local(a) /\ s.state = Plain
<1>1. Kind(s) \in Kinds
  BY WeightType
<1>2. Kind(s)[1] = s.item /\ Kind(s)[2] = s.inv /\ Kind(s)[3] = s.state
  BY DEF Kind
<1> QED BY <1>1, <1>2 DEF OwnedKinds

LEMMA OwnedAreCounted ==
  ASSUME NEW a \in Assets
  PROVE  /\ Quantity(a, OwnedRounds(a)) = Weigh(a.stacks, OwnedKinds(a))
         /\ OwnedRounds(a) = {} => Weigh(a.stacks, OwnedKinds(a)) = 0
<1>1. ASSUME NEW i \in DOMAIN a.stacks
      PROVE  i \in OwnedRounds(a) <=> Kind(a.stacks[i]) \in OwnedKinds(a)
  <2>1. a.stacks[i] \in Stacks
    BY AssetsType
  <2>2. Kind(a.stacks[i]) \in OwnedKinds(a) <=>
          a.stacks[i].item = Ammo /\ a.stacks[i].inv \in Local(a) /\ a.stacks[i].state = Plain
    BY <2>1, OwnedKind
  <2> QED BY <2>2 DEF OwnedRounds
<1>2. Quantity(a, OwnedRounds(a)) = Weigh(a.stacks, OwnedKinds(a))
  BY <1>1, QuantityIsWeight
<1>3. ASSUME OwnedRounds(a) = {} PROVE Weigh(a.stacks, OwnedKinds(a)) = 0
  <2>1. \A i \in DOMAIN a.stacks : Kind(a.stacks[i]) \notin OwnedKinds(a)
    BY <1>1, <1>3
  <2>2. a.stacks \in Seq(Stacks)
    BY AssetsType
  <2> QED BY <2>1, <2>2, NothingWeighs
<1> QED BY <1>2, <1>3

\* After m rounds, so many of them bought: the others were owned, and none was
\* bought while one was left.
Drawn(a, b, m, bought) ==
  /\ Restacked(a, b)
  /\ \A item : /\ Weigh(b.stacks, OfItem(item)) =
                    Weigh(a.stacks, OfItem(item)) + IF item = Ammo THEN bought ELSE 0
               /\ Weigh(b.stacks, Unmarked(item)) <=
                    Weigh(a.stacks, Unmarked(item)) + IF item = Ammo THEN bought ELSE 0
  /\ Weigh(b.stacks, OwnedKinds(a)) + m = Weigh(a.stacks, OwnedKinds(a)) + bought
  /\ bought > 0 => Weigh(b.stacks, OwnedKinds(a)) = 0
Drawings(a, m) == {b \in Assets : \E bought \in Nat : Drawn(a, b, m, bought)}

\* One round, bought when there is none to draw on.
LEMMA RoundIsBought ==
  ASSUME NEW a \in Assets, NEW b \in Assets, NEW m \in Nat, NEW bought \in Nat, Drawn(a, b, m, bought),
         NEW s \in Ships, NEW slot \in Slots, OwnedRounds(b) = {}
  PROVE  Drawn(a, LoadRound(b, s, slot), m + 1, bought + 1)
<1> DEFINE c == LoadRound(b, s, slot)
           t == [item |-> Ammo, qty |-> 1, inv |-> FittingStore(s), state |-> Charge(slot), marked |-> FALSE]
           O == OwnedKinds(a)
<1>1. FittingStore(s) \in Places /\ Charge(slot) \in States /\ 1 \in Nat \ {0} /\ Ammo \in Items
  BY StationAssumption DEF Places, States
<1>2. c = Add(b, FittingStore(s), Ammo, 1, Charge(slot), FALSE)
  BY DEF LoadRound
<1>4. /\ t.item = Ammo /\ t.qty = 1 /\ t.state = Charge(slot) /\ t.marked = FALSE
  OBVIOUS
<1>10. PICK no \in BOOLEAN : no = FALSE
  OBVIOUS
<1>11. /\ c = Add(b, FittingStore(s), Ammo, 1, Charge(slot), no)
       /\ t = [item |-> Ammo, qty |-> 1, inv |-> FittingStore(s), state |-> Charge(slot), marked |-> no]
  BY <1>2, <1>10
<1> HIDE DEF c, t
<1>3. /\ Restacked(b, c) /\ t \in Stacks
      /\ \A K : IsBlind(K) => Weigh(c.stacks, K) = Weigh(b.stacks, K) + Weight(t, K)
      /\ \A item : Weigh(c.stacks, Unmarked(item)) <=
                     Weigh(b.stacks, Unmarked(item)) + Weight(t, Unmarked(item))
  BY <1>1, <1>11, AddWeighs
<1>5. Restacked(a, c) /\ c \in Assets
  BY <1>3, RestackedTwice DEF Drawn, Restacked
<1>6. /\ a.stacks \in Seq(Stacks) /\ b.stacks \in Seq(Stacks) /\ c.stacks \in Seq(Stacks)
  BY <1>5, AssetsType
<1>7. ASSUME NEW item
      PROVE  /\ Weigh(c.stacks, OfItem(item)) =
                  Weigh(a.stacks, OfItem(item)) + IF item = Ammo THEN bought + 1 ELSE 0
             /\ Weigh(c.stacks, Unmarked(item)) <=
                  Weigh(a.stacks, Unmarked(item)) + IF item = Ammo THEN bought + 1 ELSE 0
  <2> DEFINE K == OfItem(item)
             U == Unmarked(item)
             xa == Weigh(a.stacks, K)
             xb == Weigh(b.stacks, K)
             xc == Weigh(c.stacks, K)
             ya == Weigh(a.stacks, U)
             yb == Weigh(b.stacks, U)
             yc == Weigh(c.stacks, U)
             old == IF item = Ammo THEN bought ELSE 0
             new == IF item = Ammo THEN bought + 1 ELSE 0
  <2>1. IsBlind(K)
    BY ItemsAreBlind
  <2>2. (Kind(t) \in K <=> item = Ammo) /\ (Kind(t) \in U <=> item = Ammo)
    BY <1>3, <1>4, KindOf
  <2>3. xb = xa + old /\ yb <= ya + old
    BY DEF Drawn
  <2> HIDE DEF K, U
  <2>4. xc = xb + Weight(t, K) /\ yc <= yb + Weight(t, U)
    <3>1. xc = xb + Weight(t, K)
      BY <1>3, <2>1
    <3>2. yc <= yb + Weight(t, U)
      BY <1>3 DEF U
    <3> QED BY <3>1, <3>2
  <2>5. Weight(t, K) = new - old /\ Weight(t, U) = new - old
    BY <1>4, <2>2 DEF Weight
  <2>6. xa \in Nat /\ ya \in Nat /\ yb \in Nat /\ yc \in Nat /\ old \in Nat /\ new \in Nat
    BY <1>6, WeighType
  <2> HIDE DEF xa, xb, xc, ya, yb, yc, old, new
  <2>7. xc = xa + new /\ yc <= ya + new
    BY <2>3, <2>4, <2>5, <2>6
  <2> QED BY <2>7 DEF xa, xc, ya, yc, new, K, U
<1>8. Weigh(c.stacks, O) = 0 /\ Weigh(b.stacks, O) = 0
  <2>1. Weigh(b.stacks, OwnedKinds(b)) = 0
    BY OwnedAreCounted
  <2>2. OwnedKinds(b) = O
    BY LocalStays DEF Drawn
  <2>3. Weigh(c.stacks, O) = Weigh(b.stacks, O) + Weight(t, O)
    BY <1>3, OwnedAreBlind
  <2>4. t.state # Plain
    BY <1>4 DEF Charge, Plain
  <2>5. Kind(t) \notin O
    BY <1>3, <2>4, OwnedKind
  <2>6. Weight(t, O) = 0
    BY <2>5 DEF Weight
  <2> HIDE DEF O
  <2> QED BY <2>1, <2>2, <2>3, <2>6
<1>9. Weigh(c.stacks, O) + (m + 1) = Weigh(a.stacks, O) + (bought + 1)
  <2>1. Weigh(b.stacks, O) + m = Weigh(a.stacks, O) + bought
    BY DEF Drawn
  <2>2. Weigh(a.stacks, O) \in Nat
    BY <1>6, WeighType
  <2> HIDE DEF O
  <2> QED BY <1>8, <2>1, <2>2
<1> QED BY <1>5, <1>7, <1>8, <1>9 DEF Drawn, c, O

\* One round that was owned.
LEMMA RoundIsDrawn ==
  ASSUME NEW a \in Assets, NEW b \in Assets, NEW m \in Nat, NEW bought \in Nat, Drawn(a, b, m, bought),
         NEW s \in Ships, NEW slot \in Slots, OwnedRounds(b) # {}
  PROVE  Drawn(a, LoadRound(b, s, slot), m + 1, bought)
<1> DEFINE i == Min(OwnedRounds(b))
           c == LoadRound(b, s, slot)
           part == Part(b.stacks[i], 1)
           moved == Elsewhere(b.stacks[i], 1, FittingStore(s), Charge(slot))
           O == OwnedKinds(a)
<1>1. FittingStore(s) \in Places /\ Charge(slot) \in States /\ 1 \in Nat \ {0}
  BY DEF Places, States
<1>2. i \in OwnedRounds(b) /\ i \in DOMAIN b.stacks
  <2>1. OwnedRounds(b) \subseteq DOMAIN b.stacks
    BY DEF OwnedRounds
  <2> QED BY <2>1, AssetsType, LeastPlace
<1>3. b.stacks[i] \in Stacks
  BY <1>2, AssetsType
<1>4. 1 <= b.stacks[i].qty
  BY <1>3, StackType
<1>5. c = Move(b, i, FittingStore(s), 1, Charge(slot))
  BY DEF LoadRound
<1>6. b.stacks[i].item = Ammo /\ b.stacks[i].state = Plain /\ b.stacks[i].inv \in Local(a)
  <2>1. Local(b) = Local(a)
    BY LocalStays DEF Drawn
  <2> HIDE DEF i
  <2> QED BY <1>2, <2>1 DEF OwnedRounds
<1> HIDE DEF i
<1>7. /\ Restacked(b, c) /\ part \in Stacks /\ moved \in Stacks
      /\ \A K : IsBlind(K) =>
           Weigh(c.stacks, K) + Weight(part, K) = Weigh(b.stacks, K) + Weight(moved, K)
  BY <1>1, <1>2, <1>4, <1>5, MoveWeighs
<1>8. Rearranged(b, c)
  BY <1>1, <1>2, <1>4, <1>5, MoveRearranges
<1>9. Weight(part, O) = 1 /\ Weight(moved, O) = 0
  <2>1. part.item = Ammo /\ part.state = Plain /\ part.inv \in Local(a) /\ part.qty = 1
    BY <1>3, <1>6, StackType DEF Part
  <2>2. moved.state # Plain
    BY DEF Elsewhere, Charge, Plain
  <2> HIDE DEF part, moved
  <2>3. Kind(part) \in O /\ Kind(moved) \notin O
    BY <1>7, <2>1, <2>2, OwnedKind
  <2> QED BY <2>1, <2>3 DEF Weight
<1> HIDE DEF c, part, moved
<1>10. Restacked(a, c) /\ c \in Assets
  BY <1>7, RestackedTwice DEF Drawn, Restacked
<1>11. a.stacks \in Seq(Stacks) /\ b.stacks \in Seq(Stacks) /\ c.stacks \in Seq(Stacks)
  BY <1>10, AssetsType
<1>12. ASSUME NEW item
       PROVE  /\ Weigh(c.stacks, OfItem(item)) =
                   Weigh(a.stacks, OfItem(item)) + IF item = Ammo THEN bought ELSE 0
              /\ Weigh(c.stacks, Unmarked(item)) <=
                   Weigh(a.stacks, Unmarked(item)) + IF item = Ammo THEN bought ELSE 0
  <2> DEFINE x == Weigh(a.stacks, Unmarked(item))
             y == Weigh(b.stacks, Unmarked(item))
             z == Weigh(c.stacks, Unmarked(item))
             more == IF item = Ammo THEN bought ELSE 0
  <2>1. /\ Weigh(c.stacks, OfItem(item)) = Weigh(b.stacks, OfItem(item))
        /\ z <= y
    BY <1>8 DEF Rearranged
  <2>2. /\ Weigh(b.stacks, OfItem(item)) = Weigh(a.stacks, OfItem(item)) + more
        /\ y <= x + more
    BY DEF Drawn
  <2>3. x \in Nat /\ y \in Nat /\ z \in Nat /\ more \in Nat
    BY <1>11, WeighType
  <2> HIDE DEF x, y, z, more
  <2>4. z <= x + more
    BY <2>1, <2>2, <2>3
  <2> QED BY <2>1, <2>2, <2>4 DEF x, z, more
<1>13. /\ Weigh(c.stacks, O) + (m + 1) = Weigh(a.stacks, O) + bought
       /\ bought > 0 => Weigh(c.stacks, O) = 0
  <2> DEFINE x == Weigh(a.stacks, O)
             y == Weigh(b.stacks, O)
             z == Weigh(c.stacks, O)
  <2>1. z + 1 = y
    <3>1. z + Weight(part, O) = y + Weight(moved, O)
      BY <1>7, OwnedAreBlind
    <3>2. y \in Nat
      BY <1>11, WeighType
    <3> HIDE DEF x, y, z, O
    <3> QED BY <1>9, <3>1, <3>2
  <2>2. y + m = x + bought /\ (bought > 0 => y = 0)
    BY DEF Drawn
  <2>3. x \in Nat /\ y \in Nat /\ z \in Nat
    BY <1>11, WeighType
  <2> HIDE DEF x, y, z
  <2>4. z + (m + 1) = x + bought /\ (bought > 0 => z = 0)
    BY <2>1, <2>2, <2>3
  <2> QED BY <2>4 DEF x, z
<1> QED BY <1>10, <1>12, <1>13 DEF Drawn, c, O

LEMMA LoadRoundDraws ==
  ASSUME NEW a \in Assets, NEW m \in Nat, NEW b \in Drawings(a, m), NEW s \in Ships, NEW slot \in Slots
  PROVE  LoadRound(b, s, slot) \in Drawings(a, m + 1)
<1>1. b \in Assets
  BY DEF Drawings
<1>2. PICK bought \in Nat : Drawn(a, b, m, bought)
  BY DEF Drawings
<1>3. LoadRound(b, s, slot) \in Assets
  BY <1>1, LoadRoundType DEF Restacked
<1>4. bought + 1 \in Nat
  OBVIOUS
<1>5. \E n \in Nat : Drawn(a, LoadRound(b, s, slot), m + 1, n)
  BY <1>1, <1>2, <1>4, RoundIsBought, RoundIsDrawn
<1> QED BY <1>3, <1>5 DEF Drawings

LEMMA FillDraws ==
  ASSUME NEW a \in Assets, NEW m \in Nat, NEW b \in Drawings(a, m), NEW s \in Ships, NEW slot \in Slots,
         NEW rounds \in Nat
  PROVE  Fill(b, s, slot, rounds) \in Drawings(a, m + rounds)
<1>1. PICK g : /\ Fill(b, s, slot, rounds) = g[rounds] /\ g[0] = b
               /\ \A i \in 1..rounds : g[i] = LoadRound(g[i - 1], s, slot)
  BY FillUnfolds
<1> DEFINE G == [i \in 0..rounds |-> Drawings(a, m + i)]
<1>2. g[0] \in G[0]
  BY <1>1
<1>3. ASSUME NEW i \in 1..rounds, g[i - 1] \in G[i - 1] PROVE g[i] \in G[i]
  <2>1. i - 1 \in 0..rounds /\ i \in 0..rounds /\ m + (i - 1) \in Nat /\ (m + (i - 1)) + 1 = m + i
    OBVIOUS
  <2>2. g[i - 1] \in Drawings(a, m + (i - 1))
    BY <1>3, <2>1
  <2>3. LoadRound(g[i - 1], s, slot) \in Drawings(a, (m + (i - 1)) + 1)
    BY <2>1, <2>2, LoadRoundDraws
  <2> QED BY <1>1, <2>1, <2>3
<1>4. G[rounds] = Drawings(a, m + rounds)
  OBVIOUS
<1> HIDE DEF G
<1>5. g[rounds] \in G[rounds]
  BY <1>2, <1>3, StaysAt
<1> QED BY <1>1, <1>4, <1>5

LEMMA MissingType ==
  ASSUME NEW a \in Assets, NEW s
  PROVE  /\ [slot \in Slots |-> Missing(a, s, slot)] \in Seq(Nat)
         /\ [slot \in Slots |-> Missing(a, s, slot)] \in Seq(Int)
         /\ Len([slot \in Slots |-> Missing(a, s, slot)]) = Cardinality(Slots)
         /\ MissingRounds(a, s) \in Nat
<1> DEFINE q == [slot \in Slots |-> Missing(a, s, slot)]
           n == Cardinality(Slots)
<1>1. n \in Nat /\ Slots = 1..n
  BY SlotsAreCounted
<1>2. \A slot \in Slots : Missing(a, s, slot) \in Nat
  BY LoadedType
<1>3. q \in [1..n -> Nat] /\ q \in [1..n -> Int] /\ DOMAIN q = 1..n
  BY <1>1, <1>2
<1>4. MissingRounds(a, s) = Total(q)
  BY DEF MissingRounds
<1> HIDE DEF q, n
<1>5. q \in Seq(Nat) /\ q \in Seq(Int)
  BY <1>1, <1>3, SeqDef
<1>6. Len(q) = n
  BY <1>1, <1>3, <1>5
<1>7. MissingRounds(a, s) \in Nat
  BY <1>4, <1>5, TotalOfNaturals
<1> QED BY <1>5, <1>6, <1>7 DEF q, n

\* A resupply draws as many rounds as the magazines miss.
LEMMA ResupplyDraws ==
  ASSUME NEW a \in Assets, NEW s \in Ships
  PROVE  ApplyResupply(a, s) \in Drawings(a, MissingRounds(a, s))
<1> DEFINE last == Cardinality(Slots)
           q == [slot \in Slots |-> Missing(a, s, slot)]
<1>1. PICK g : /\ ApplyResupply(a, s) = g[last] /\ g[0] = a
               /\ \A i \in 1..last : g[i] = Fill(g[i - 1], s, i, Missing(a, s, i))
  BY ResupplyUnfolds
<1>2. last \in Nat /\ Slots = 1..last
  BY SlotsAreCounted
<1>3. q \in Seq(Int) /\ Len(q) = last /\ \A i \in 1..last : q[i] = Missing(a, s, i) /\ q[i] \in Nat
  <2>1. \A i \in 1..last : q[i] = Missing(a, s, i) /\ q[i] \in Nat
    BY <1>2, LoadedType
  <2> QED BY <2>1, MissingType
<1>4. MissingRounds(a, s) = Total(q)
  BY DEF MissingRounds
<1> HIDE DEF last, q
<1>5. PICK h : Runs(h, q) /\ Total(q) = h[Len(q)]
  BY <1>2, <1>3, TotalRuns
<1>6. h[0] = 0 /\ \A i \in 1..last : h[i] = h[i - 1] + q[i]
  BY <1>3, <1>5 DEF Runs
<1>7. \A i \in 0..last : h[i] \in Nat
  <2> SUFFICES ASSUME NEW n \in 0..last PROVE h[n] \in Nat
    OBVIOUS
  <2> DEFINE G == Nat
  <2>1. n \in Nat /\ h[0] \in G
    BY <1>2, <1>6
  <2>2. ASSUME NEW i \in 1..n, h[i - 1] \in G PROVE h[i] \in G
    <3>1. i \in 1..last
      BY <1>2
    <3> QED BY <1>3, <1>6, <2>2, <3>1
  <2> HIDE DEF G
  <2>3. h[n] \in G
    BY <2>1, <2>2, StaysIn
  <2> QED BY <2>3 DEF G
<1> DEFINE G == [i \in 0..last |-> Drawings(a, h[i])]
<1>8. g[0] \in G[0]
  <2>1. Drawn(a, a, 0, 0)
    <3>1. a.stacks \in Seq(Stacks)
      BY AssetsType
    <3>2. Rearranged(a, a)
      BY NothingRearranged
    <3>3. ASSUME NEW K PROVE Weigh(a.stacks, K) + 0 = Weigh(a.stacks, K) /\ Weigh(a.stacks, K) \in Nat
      <4> DEFINE x == Weigh(a.stacks, K)
      <4>1. x \in Nat
        BY <3>1, WeighType
      <4> HIDE DEF x
      <4>2. x + 0 = x
        BY <4>1
      <4> QED BY <4>1, <4>2 DEF x
    <3>4. ASSUME NEW item
          PROVE  /\ Weigh(a.stacks, OfItem(item)) =
                      Weigh(a.stacks, OfItem(item)) + IF item = Ammo THEN 0 ELSE 0
                 /\ Weigh(a.stacks, Unmarked(item)) <=
                      Weigh(a.stacks, Unmarked(item)) + IF item = Ammo THEN 0 ELSE 0
      <4>1. (IF item = Ammo THEN 0 ELSE 0) = 0
        OBVIOUS
      <4> DEFINE x == Weigh(a.stacks, OfItem(item))
                 y == Weigh(a.stacks, Unmarked(item))
      <4>2. x + 0 = x /\ y \in Nat
        BY <3>3
      <4> HIDE DEF x, y
      <4>3. x = x + 0 /\ y <= y + 0
        BY <4>2
      <4> QED BY <4>1, <4>3 DEF x, y
    <3> QED BY <3>2, <3>3, <3>4 DEF Drawn, Rearranged
  <2>2. a \in Drawings(a, 0)
    BY <2>1 DEF Drawings
  <2>3. 0 \in 0..last
    BY <1>2
  <2> QED BY <1>1, <1>6, <2>2, <2>3
<1>9. ASSUME NEW i \in 1..last, g[i - 1] \in G[i - 1] PROVE g[i] \in G[i]
  <2>1. i - 1 \in 0..last /\ i \in 0..last /\ i \in Slots
    BY <1>2
  <2>2. g[i - 1] \in Drawings(a, h[i - 1]) /\ h[i - 1] \in Nat
    BY <1>7, <1>9, <2>1
  <2>3. q[i] = Missing(a, s, i) /\ q[i] \in Nat
    BY <1>3
  <2>4. Fill(g[i - 1], s, i, q[i]) \in Drawings(a, h[i - 1] + q[i])
    BY <2>1, <2>2, <2>3, FillDraws
  <2>5. g[i] = Fill(g[i - 1], s, i, q[i]) /\ h[i] = h[i - 1] + q[i]
    BY <1>1, <1>6, <2>3
  <2> QED BY <2>1, <2>4, <2>5
<1>10. G[last] = Drawings(a, h[last])
  BY <1>2
<1> HIDE DEF G
<1>11. g[last] \in G[last]
  BY <1>2, <1>8, <1>9, StaysAt
<1> QED BY <1>1, <1>3, <1>4, <1>5, <1>10, <1>11 DEF last

\* It buys what the magazines miss beyond the rounds that are owned.
LEMMA ResupplyBuys ==
  ASSUME NEW a \in Assets, NEW s \in Ships
  PROVE  /\ RoundsToBuy(a, s) \in Nat
         /\ Drawn(a, ApplyResupply(a, s), MissingRounds(a, s), RoundsToBuy(a, s))
<1> DEFINE b == ApplyResupply(a, s)
           O == OwnedKinds(a)
           m == MissingRounds(a, s)
           x == Weigh(a.stacks, O)
           y == Weigh(b.stacks, O)
<1>1. b \in Drawings(a, m)
  BY ResupplyDraws
<1> HIDE DEF b
<1>2. PICK bought \in Nat : Drawn(a, b, m, bought)
  BY <1>1 DEF Drawings
<1>3. y + m = x + bought /\ (bought > 0 => y = 0)
  BY <1>2 DEF Drawn
<1>4. x \in Nat /\ y \in Nat /\ m \in Nat
  <2>1. b \in Assets
    BY <1>1 DEF Drawings
  <2> QED BY <2>1, AssetsType, WeighType, MissingType
<1>5. RoundsToBuy(a, s) = Max({0, m - x})
  BY OwnedAreCounted DEF RoundsToBuy
<1> HIDE DEF O, m, x, y
<1>6. Max({0, m - x}) = IF 0 <= m - x THEN m - x ELSE 0
  <2>1. m - x \in Int
    BY <1>4
  <2> QED BY <2>1, MaxOfTwo
<1>7. Max({0, m - x}) = bought
  <2>1. CASE bought > 0
    <3>1. m - x = bought /\ 0 <= m - x
      BY <1>3, <1>4, <2>1
    <3> QED BY <1>6, <3>1
  <2>2. CASE bought = 0
    <3>1. m - x <= 0
      BY <1>3, <1>4, <2>2
    <3>2. m - x \in Int
      BY <1>4
    <3> QED BY <1>6, <2>2, <3>1, <3>2
  <2> QED BY <2>1, <2>2
<1> QED BY <1>2, <1>5, <1>7 DEF b, m
-----------------------------------------------------------------------------
(* What changes hands. *)

\* Nothing is traded for nothing.
LEMMA PriceIsPositive ==
  ASSUME NEW l \in Listings, NEW stock \in Nat, NEW q \in Nat \ {0},
         NEW side \in {"stationSells", "stationBuys"}
  PROVE  BulkQuote(l, stock, side, q) \in Nat \ {0}
<1> DEFINE n == q - 1
           x == UnitByUnit(l, stock, side, n)
           y == QuoteAfter(l, stock, side, n)
<1>1. n \in Nat /\ n + 1 = q
  OBVIOUS
<1>2. BulkQuote(l, stock, side, q) = UnitByUnit(l, stock, side, q)
  BY BulkIsUnitByUnit
<1> HIDE DEF n
<1>3. UnitByUnit(l, stock, side, n + 1) = x + y /\ x \in Nat
  BY <1>1, UnitByUnitGrows, UnitByUnitType
<1>4. y \in Nat \ {0}
  <2>1. stock - n \in Int /\ stock + n \in Int
    BY <1>1
  <2>2. UnitQuote(l, stock - n, side) \in Nat \ {0} /\ UnitQuote(l, stock + n, side) \in Nat \ {0}
    BY <2>1, QuoteType
  <2> QED BY <2>2 DEF QuoteAfter
<1> HIDE DEF x, y
<1>5. x + y \in Nat \ {0}
  BY <1>3, <1>4
<1> QED BY <1>1, <1>2, <1>3, <1>5

LEMMA TradeIsPaid ==
  ASSUME StationInv, NEW item \in Items \cup {Hull}, NEW side \in {"stationSells", "stationBuys"},
         NEW q \in Nat \ {0}
  PROVE  Trade(item, side, q) \in Nat \ {0}
<1> DEFINE l == Listing[item]
           stock == market[item].stock
<1>1. market \in [DOMAIN Listing -> ListingStates]
  BY InvIsSound DEF Sound
<1>2. l \in Listings /\ stock \in Nat
  BY <1>1, ListingAssumption DEF ListingStates
<1>3. Trade(item, side, q) = BulkQuote(l, stock, side, q)
  BY DEF Trade
<1> HIDE DEF l, stock
<1> QED BY <1>2, <1>3, PriceIsPositive

\* No more units without the mark than there were.
NoneUnmarked(s, t) == \A item : Weigh(t, Unmarked(item)) <= Weigh(s, Unmarked(item))

LEMMA NoneUnmarkedTwice ==
  ASSUME NEW s \in Seq(Stacks), NEW t \in Seq(Stacks), NEW u \in Seq(Stacks),
         NoneUnmarked(s, t), NoneUnmarked(t, u)
  PROVE  NoneUnmarked(s, u)
<1> SUFFICES ASSUME NEW item PROVE Weigh(u, Unmarked(item)) <= Weigh(s, Unmarked(item))
  BY DEF NoneUnmarked
<1> DEFINE x == Weigh(s, Unmarked(item))
           y == Weigh(t, Unmarked(item))
           z == Weigh(u, Unmarked(item))
<1>1. x \in Nat /\ y \in Nat /\ z \in Nat
  BY WeighType
<1>2. y <= x /\ z <= y
  BY DEF NoneUnmarked
<1> HIDE DEF x, y, z
<1>3. z <= x
  BY <1>1, <1>2
<1> QED BY <1>3 DEF x, z

\* What is granted bears the mark.
LEMMA AddMarked ==
  ASSUME NEW a \in Assets, NEW inv \in Places, NEW item \in Items, NEW q \in Nat \ {0},
         NEW state \in States, NEW b, b = Add(a, inv, item, q, state, TRUE)
  PROVE  Restacked(a, b) /\ NoneUnmarked(a.stacks, b.stacks)
<1> DEFINE s == [item |-> item, qty |-> q, inv |-> inv, state |-> state, marked |-> TRUE]
<1>1. PICK yes \in BOOLEAN : yes = TRUE
  OBVIOUS
<1>2. /\ s = [item |-> item, qty |-> q, inv |-> inv, state |-> state, marked |-> yes]
      /\ b = Add(a, inv, item, q, state, yes) /\ s.marked = TRUE
  BY <1>1
<1> HIDE DEF s
<1>3. /\ Restacked(a, b) /\ s \in Stacks
      /\ \A other : Weigh(b.stacks, Unmarked(other)) <=
                      Weigh(a.stacks, Unmarked(other)) + Weight(s, Unmarked(other))
  BY <1>2, AddWeighs
<1>4. ASSUME NEW other
      PROVE  Weigh(b.stacks, Unmarked(other)) <= Weigh(a.stacks, Unmarked(other))
  <2> DEFINE x == Weigh(a.stacks, Unmarked(other))
             y == Weigh(b.stacks, Unmarked(other))
  <2>1. Kind(s) \notin Unmarked(other)
    BY <1>2, <1>3, KindOf
  <2>2. Weight(s, Unmarked(other)) = 0
    BY <2>1 DEF Weight
  <2>3. x \in Nat /\ y \in Nat
    BY <1>3, AssetsType, WeighType DEF Restacked
  <2>4. y <= x + 0
    BY <1>3, <2>2
  <2> HIDE DEF x, y
  <2>5. y <= x
    BY <2>3, <2>4
  <2> QED BY <2>5 DEF x, y
<1> QED BY <1>3, <1>4 DEF NoneUnmarked

LEMMA GrantIsMarked ==
  ASSUME NEW a \in Assets, DOMAIN a.ships # Ships
  PROVE  LET b == GrantRecoveryShip(a)
         IN  /\ NoneUnmarked(a.stacks, b.stacks)
             /\ \E s \in DOMAIN b.ships : s \notin DOMAIN a.ships /\ b.ships[s].marked
<1> DEFINE s == FreeShip(a)
           slot == CHOOSE k \in Slots : \A j \in Slots : k <= j
           owned == WithShip(a, s, TRUE)
           armed == Add(owned, FittingStore(s), Gun, 1, Fitted(slot), TRUE)
           loaded == Add(armed, FittingStore(s), Ammo, MagazineSize, Charge(slot), TRUE)
           b == [loaded EXCEPT !.active = s]
<1>1. s \in Ships /\ s \notin DOMAIN a.ships
  BY FreeShipType
<1>2. slot \in Slots
  BY LeastSlot
<1>3. GrantRecoveryShip(a) = b
  BY DEF GrantRecoveryShip
<1> HIDE DEF s, slot
<1>4. owned \in Assets /\ owned.stacks = a.stacks
  <2>1. PICK yes \in BOOLEAN : yes = TRUE
    OBVIOUS
  <2>2. LET x == WithShip(a, s, yes) IN x \in Assets /\ x.stacks = a.stacks
    BY <1>1, WithShipType
  <2> QED BY <2>1, <2>2
<1>5. s \in DOMAIN owned.ships /\ owned.ships[s].marked = TRUE
  <2> DEFINE f == [x \in DOMAIN a.ships \cup {s} |-> IF x = s THEN NewShip(TRUE) ELSE a.ships[x]]
  <2>1. owned = [a EXCEPT !.ships = f]
    BY DEF WithShip
  <2>2. s \in DOMAIN f /\ f[s] = NewShip(TRUE)
    OBVIOUS
  <2> HIDE DEF f
  <2> DEFINE c == [credits |-> a.credits, active |-> a.active, out |-> a.out, wreck |-> a.wreck,
                   ships |-> f, stacks |-> a.stacks]
  <2> HIDE DEF owned
  <2>3. owned = c
    BY <2>1, AssetsType DEF AssetsShape
  <2>4. NewShip(TRUE).marked = TRUE
    BY DEF NewShip
  <2>5. owned.ships = f
    BY <2>3
  <2> HIDE DEF c
  <2> QED BY <2>2, <2>4, <2>5
<1>6. /\ FittingStore(s) \in Places /\ Fitted(slot) \in States /\ Charge(slot) \in States
      /\ Gun \in Items /\ Ammo \in Items /\ 1 \in Nat \ {0} /\ MagazineSize \in Nat \ {0}
  BY <1>1, <1>2, StationAssumption DEF Places, States
<1> HIDE DEF owned
<1>7. Restacked(owned, armed) /\ NoneUnmarked(owned.stacks, armed.stacks)
  BY <1>4, <1>6, AddMarked
<1>8. armed \in Assets
  BY <1>7 DEF Restacked
<1> HIDE DEF armed
<1>9. Restacked(armed, loaded) /\ NoneUnmarked(armed.stacks, loaded.stacks)
  BY <1>6, <1>8, AddMarked
<1> HIDE DEF loaded
<1>10. b.stacks = loaded.stacks /\ b.ships = owned.ships
  <2>1. b.stacks = loaded.stacks /\ b.ships = loaded.ships
    BY <1>1, <1>9, WithActive DEF Restacked
  <2> QED BY <1>7, <1>9, <2>1 DEF Restacked
<1>11. NoneUnmarked(owned.stacks, loaded.stacks)
  <2>1. owned.stacks \in Seq(Stacks) /\ armed.stacks \in Seq(Stacks) /\ loaded.stacks \in Seq(Stacks)
    BY <1>4, <1>8, <1>9, AssetsType DEF Restacked
  <2> QED BY <1>7, <1>9, <2>1, NoneUnmarkedTwice
<1> HIDE DEF b
<1> QED BY <1>1, <1>3, <1>4, <1>5, <1>10, <1>11

\* What goes over stack by stack, none of it more than it was, is no more in the end.
LEMMA NoMoreInTheEnd ==
  ASSUME NEW stacks \in Seq(Stacks), NEW K, NEW g, g[0] = <<>>,
         \A i \in 1..Len(stacks) :
           g[i - 1] \in Seq(Stacks) =>
             /\ g[i] \in Seq(Stacks)
             /\ Weigh(g[i], K) <= Weigh(g[i - 1], K) + Weight(stacks[i], K)
  PROVE  Weigh(g[Len(stacks)], K) <= Weigh(stacks, K)
<1> DEFINE n == Len(stacks)
           w == Weights(stacks, K)
<1>1. /\ w \in Seq(Int) /\ Len(w) = n /\ n \in Nat
      /\ \A i \in 1..n : w[i] = Weight(stacks[i], K) /\ w[i] \in Nat
  BY WeightsType
<1>2. PICK h : Runs(h, w) /\ Total(w) = h[Len(w)]
  BY <1>1, TotalRuns
<1> HIDE DEF w
<1>3. h[0] = 0 /\ \A i \in 1..n : h[i] = h[i - 1] + w[i]
  BY <1>1, <1>2 DEF Runs
<1>4. \A i \in 0..n : h[i] \in Int
  BY <1>1, <1>2, RunsAreIntegers
<1> DEFINE G == [i \in 0..n |-> {t \in Seq(Stacks) : Weigh(t, K) <= h[i]}]
<1>5. g[0] \in G[0]
  <2>1. Weigh(<<>>, K) = 0 /\ <<>> \in Seq(Stacks)
    <3>1. <<>> \in Seq(Stacks) /\ \A i \in DOMAIN <<>> : Kind(<<>>[i]) \notin K
      OBVIOUS
    <3>2. ASSUME NEW e \in Seq(Stacks), e = <<>> PROVE Weigh(e, K) = 0
      <4>1. \A i \in DOMAIN e : Kind(e[i]) \notin K
        BY <3>2
      <4> QED BY <4>1, NothingWeighs
    <3> QED BY <3>1, <3>2
  <2>2. 0 \in 0..n
    BY <1>1
  <2> QED BY <1>3, <2>1, <2>2
<1>6. ASSUME NEW i \in 1..n, g[i - 1] \in G[i - 1] PROVE g[i] \in G[i]
  <2> DEFINE x == Weigh(g[i - 1], K)
             y == Weigh(g[i], K)
             v == w[i]
             p == h[i - 1]
             q == h[i]
  <2>1. i - 1 \in 0..n /\ i \in 0..n
    BY <1>1
  <2>2. g[i - 1] \in Seq(Stacks) /\ x <= p
    BY <1>6, <2>1
  <2>3. g[i] \in Seq(Stacks) /\ y <= x + v
    BY <1>1, <2>2
  <2>4. x \in Nat /\ y \in Nat
    BY <2>2, <2>3, WeighType
  <2>5. q = p + v /\ v \in Nat /\ p \in Int
    BY <1>1, <1>3, <1>4, <2>1
  <2> HIDE DEF x, y, v, p, q
  <2>6. y <= q
    BY <2>2, <2>3, <2>4, <2>5
  <2> QED BY <2>1, <2>3, <2>6 DEF y, q
<1>7. G[n] = {t \in Seq(Stacks) : Weigh(t, K) <= h[n]}
  BY <1>1
<1> HIDE DEF G, n
<1>8. g[n] \in G[n]
  BY <1>1, <1>5, <1>6, StaysAt
<1> QED BY <1>1, <1>2, <1>7, <1>8 DEF Weigh, w, n

LEMMA KeptWeighs ==
  ASSUME NEW a \in Assets, NEW K
  PROVE  Weigh(KeptStacks(a), K) <= Weigh(a.stacks, K)
<1> DEFINE last == Len(a.stacks)
<1>1. a.stacks \in Seq(Stacks) /\ last \in Nat /\ DOMAIN a.stacks = 1..last
  BY AssetsType
<1>2. PICK g : /\ KeptStacks(a) = g[last] /\ g[0] = <<>>
               /\ \A i \in 1..last : g[i] = KeepUnlessWrecked(g[i - 1], a.stacks[i])
  BY <1>1, KeptUnfolds
<1>3. ASSUME NEW i \in 1..last, g[i - 1] \in Seq(Stacks)
      PROVE  g[i] \in Seq(Stacks) /\ Weigh(g[i], K) <= Weigh(g[i - 1], K) + Weight(a.stacks[i], K)
  <2> DEFINE s == a.stacks[i]
             t == g[i - 1]
  <2>1. s \in Stacks /\ g[i] \in {t, Append(t, s)}
    <3>1. s \in Stacks /\ g[i] = KeepUnlessWrecked(t, s)
      BY <1>1, <1>2
    <3> QED BY <3>1 DEF KeepUnlessWrecked
  <2>2. Append(t, s) \in Seq(Stacks) /\ Weigh(Append(t, s), K) = Weigh(t, K) + Weight(s, K)
    BY <1>3, <2>1, WeighAppended, AppendProperties
  <2>3. Weigh(t, K) \in Nat /\ Weight(s, K) \in Nat
    BY <1>3, <2>1, WeighType, WeightType
  <2> HIDE DEF s, t
  <2>4. ASSUME NEW x \in Nat, NEW y \in Nat PROVE x <= x + y /\ x + y <= x + y
    OBVIOUS
  <2>5. Weigh(t, K) <= Weigh(t, K) + Weight(s, K)
    BY <2>3, <2>4
  <2>6. Weigh(Append(t, s), K) <= Weigh(t, K) + Weight(s, K)
    BY <2>2, <2>3, <2>4
  <2>7. t \in Seq(Stacks)
    BY <1>3 DEF t
  <2>8. g[i] \in Seq(Stacks) /\ Weigh(g[i], K) <= Weigh(t, K) + Weight(s, K)
    BY <2>1, <2>2, <2>5, <2>6, <2>7
  <2> QED BY <2>8 DEF s, t
<1> HIDE DEF last
<1>4. Weigh(g[last], K) <= Weigh(a.stacks, K)
  BY <1>1, <1>2, <1>3, NoMoreInTheEnd DEF last
<1> QED BY <1>2, <1>4

LEMMA SettledIsUnmarked ==
  ASSUME NEW a \in Assets, NEW s, NEW survivors
  PROVE  NoneUnmarked(a.stacks, SettledStacks(a, s, survivors))
<1> SUFFICES ASSUME NEW item
             PROVE  Weigh(SettledStacks(a, s, survivors), Unmarked(item)) <= Weigh(a.stacks, Unmarked(item))
  BY DEF NoneUnmarked
<1> DEFINE last == Len(a.stacks)
           K == Unmarked(item)
<1>1. a.stacks \in Seq(Stacks) /\ last \in Nat /\ DOMAIN a.stacks = 1..last
  BY AssetsType
<1>2. PICK g : /\ SettledStacks(a, s, survivors) = g[last] /\ g[0] = <<>>
               /\ \A i \in 1..last : g[i] = Settle(a, s, survivors, g[i - 1], i)
  BY <1>1, SettledUnfolds
<1>3. ASSUME NEW i \in 1..last, g[i - 1] \in Seq(Stacks)
      PROVE  g[i] \in Seq(Stacks) /\ Weigh(g[i], K) <= Weigh(g[i - 1], K) + Weight(a.stacks[i], K)
  <2> DEFINE t == a.stacks[i]
             r == g[i - 1]
             w == Elsewhere(t, t.qty, Wreck, Plain)
  <2>1. t \in Stacks
    BY <1>1
  <2>2. /\ w \in Stacks /\ w.item = t.item /\ w.qty = t.qty /\ w.marked = t.marked
        /\ [t EXCEPT !.inv = Wreck, !.state = Plain] = w
    <3>1. t.qty \in Nat \ {0} /\ Wreck \in Places /\ Plain \in States
      BY <2>1, StackType DEF Places, States
    <3>2. w \in Stacks
      BY <2>1, <3>1, ElsewhereType
    <3>3. [t EXCEPT !.inv = Wreck, !.state = Plain] = w
      <4> DEFINE u == [t EXCEPT !.inv = Wreck]
                 v == [item |-> t.item, qty |-> t.qty, inv |-> Wreck, state |-> t.state, marked |-> t.marked]
      <4> HIDE DEF t
      <4>1. u = v
        BY <2>1, StackType
      <4>2. [v EXCEPT !.state = Plain] = w
        BY DEF Elsewhere
      <4>3. [t EXCEPT !.inv = Wreck, !.state = Plain] = [u EXCEPT !.state = Plain]
        OBVIOUS
      <4> HIDE DEF u, v, w
      <4> QED BY <4>1, <4>2, <4>3
    <3> QED BY <3>2, <3>3 DEF Elsewhere
  <2>3. g[i] \in {Put(r, w), r, Append(r, t)}
    <3>1. g[i] = Settle(a, s, survivors, r, i)
      BY <1>2
    <3> QED BY <2>2, <3>1 DEF Settle
  <2> HIDE DEF w, t, r
  <2>4. r \in Seq(Stacks)
    BY <1>3 DEF r
  <2>5. Weight(w, K) = Weight(t, K)
    <3>1. Kind(w) \in K <=> Kind(t) \in K
      BY <2>1, <2>2, KindOf
    <3> HIDE DEF K
    <3> QED BY <2>2, <3>1 DEF Weight
  <2>6. /\ Put(r, w) \in Seq(Stacks) /\ Append(r, t) \in Seq(Stacks)
        /\ Weigh(Append(r, t), K) = Weigh(r, K) + Weight(t, K)
    BY <2>1, <2>2, <2>4, WeighAppended, AppendProperties, PutType
  <2>7. Weigh(Put(r, w), K) <= Weigh(r, K) + Weight(t, K)
    <3>1. Weigh(Put(r, w), Unmarked(item)) <= Weigh(r, Unmarked(item)) + Weight(w, Unmarked(item))
      BY <2>2, <2>4, PutWeighs
    <3> QED BY <2>5, <3>1
  <2>8. Weigh(r, K) \in Nat /\ Weight(t, K) \in Nat
    BY <2>1, <2>4, WeighType, WeightType
  <2> HIDE DEF K
  <2>9. ASSUME NEW x \in Nat, NEW y \in Nat PROVE x <= x + y /\ x + y <= x + y
    OBVIOUS
  <2>10. Weigh(r, K) <= Weigh(r, K) + Weight(t, K) /\ Weigh(Append(r, t), K) <= Weigh(r, K) + Weight(t, K)
    BY <2>6, <2>8, <2>9
  <2>11. g[i] \in Seq(Stacks) /\ Weigh(g[i], K) <= Weigh(r, K) + Weight(t, K)
    BY <2>3, <2>4, <2>6, <2>7, <2>10
  <2> QED BY <2>11 DEF r, t
<1> HIDE DEF last, K
<1>4. Weigh(g[last], K) <= Weigh(a.stacks, K)
  BY <1>1, <1>2, <1>3, NoMoreInTheEnd DEF last
<1> QED BY <1>2, <1>4 DEF K
-----------------------------------------------------------------------------
(* A deal. *)

\* The ships that came with a grant.
Granted(a, b) == {s \in DOMAIN b.ships \ DOMAIN a.ships : b.ships[s].marked}

\* The item a request trades in.
TradedItem(a, r) ==
  IF r.action = "market.sell" THEN a.stacks[r.stack].item
  ELSE IF r.action = "market.buy" THEN r.item ELSE Ammo

\* What a confirmed request does, for the credits and the units it has shown.
Deal(a, b, r, c, n) ==
  /\ b \in Assets /\ b.wreck = a.wreck /\ c \in Nat
  /\ b.credits = IF r.action = "market.sell" THEN a.credits + c ELSE a.credits - c
  /\ c = 0 \/ r.action = "market.sell" => NoneUnmarked(a.stacks, b.stacks)
  /\ c = 0 => \A item : Weigh(b.stacks, OfItem(item)) = Weigh(a.stacks, OfItem(item))
  /\ r.action = "market.sell" =>
       \A item : Weigh(b.stacks, Marked(item)) = Weigh(a.stacks, Marked(item))
  /\ \/ Granted(a, b) # {}
     \/ r.action = "market.buy" /\ r.item = Hull
     \/ Weigh(b.stacks, OfItem(TradedItem(a, r))) =
          IF r.action = "market.sell" THEN Weigh(a.stacks, OfItem(TradedItem(a, r))) - n
          ELSE Weigh(a.stacks, OfItem(TradedItem(a, r))) + n

LEMMA RouteGrants ==
  ASSUME NEW a, IsPlaced(a)
  PROVE  LET b == EnsureRecoveryRoute(a)
         IN  /\ b \in Assets /\ b.credits = a.credits /\ b.wreck = a.wreck
             /\ b = a \/ Granted(a, b) # {}
<1>1. a \in Assets
  BY DEF IsPlaced
<1>2. CASE a.active = NoOne /\ ~a.out /\ RecoveryGrantDue(a)
  <2> DEFINE b == GrantRecoveryShip(a)
  <2>1. DOMAIN a.ships # Ships
    BY <1>2, NotEveryShip
  <2>2. b \in Assets /\ b.credits = a.credits /\ b.wreck = a.wreck
    BY <1>1, <2>1, GrantType
  <2>3. \E s \in DOMAIN b.ships : s \notin DOMAIN a.ships /\ b.ships[s].marked
    BY <1>1, <2>1, GrantIsMarked
  <2>4. EnsureRecoveryRoute(a) = b
    BY <1>2 DEF EnsureRecoveryRoute
  <2> HIDE DEF b
  <2>5. Granted(a, b) # {}
    BY <2>3 DEF Granted
  <2> QED BY <2>2, <2>4, <2>5
<1>3. CASE ~(a.active = NoOne /\ ~a.out /\ RecoveryGrantDue(a))
  <2>1. EnsureRecoveryRoute(a) = a
    BY <1>3 DEF EnsureRecoveryRoute
  <2> QED BY <1>1, <2>1
<1> QED BY <1>2, <1>3

LEMMA BuyPays ==
  ASSUME NEW a, IsPlaced(a), NEW r, IsRequest(r), r.action = "market.buy",
         r.item = Hull => DOMAIN a.ships # Ships
  PROVE  LET b == ApplyBuy(a, r)
         IN  /\ b \in Assets /\ b.credits = a.credits /\ b.wreck = a.wreck
             /\ \/ r.item = Hull \/ Granted(a, b) # {}
                \/ Weigh(b.stacks, OfItem(r.item)) = Weigh(a.stacks, OfItem(r.item)) + r.q
<1>1. a \in Assets
  BY DEF IsPlaced
<1>2. CASE r.item = Hull
  <2> DEFINE x == AddPurchasedHull(a)
             b == EnsureRecoveryRoute(x)
  <2>1. /\ x \in Assets /\ x.credits = a.credits /\ x.out = a.out /\ x.wreck = a.wreck
        /\ DOMAIN a.ships \subseteq DOMAIN x.ships /\ x.active # NoOne
        /\ x.active = a.active \/ (a.active = NoOne /\ x.active \in DOMAIN x.ships)
    BY <1>1, <1>2, HullType
  <2>2. ApplyBuy(a, r) = b
    BY <1>2 DEF ApplyBuy
  <2> HIDE DEF x
  <2>3. IsPlaced(x)
    BY <2>1 DEF IsPlaced
  <2>4. b \in Assets /\ b.credits = x.credits /\ b.wreck = x.wreck
    BY <2>3, RouteGrants
  <2> HIDE DEF b
  <2> QED BY <1>2, <2>1, <2>2, <2>4
<1>3. CASE r.item # Hull
  <2> DEFINE x == Add(a, r.inv, r.item, r.q, Plain, FALSE)
             b == EnsureRecoveryRoute(x)
             item == r.item
             q == r.q
             inv == r.inv
  <2>1. inv \in Places /\ item \in Items /\ q \in Nat \ {0} /\ Plain \in States
    BY <1>3, DealTypes DEF IsRequest
  <2>2. ApplyBuy(a, r) = b /\ x = Add(a, inv, item, q, Plain, FALSE)
    BY <1>3 DEF ApplyBuy
  <2>3. PICK no \in BOOLEAN : no = FALSE
    OBVIOUS
  <2> DEFINE s == [item |-> item, qty |-> q, inv |-> inv, state |-> Plain, marked |-> no]
  <2>4. x = Add(a, inv, item, q, Plain, no) /\ s.item = item /\ s.qty = q
    BY <2>2, <2>3
  <2> HIDE DEF x, item, q, inv
  <2>5. PICK t : t = s
    OBVIOUS
  <2>6. /\ Restacked(a, x) /\ t \in Stacks
        /\ \A K : IsBlind(K) => Weigh(x.stacks, K) = Weigh(a.stacks, K) + Weight(t, K)
    BY <1>1, <2>1, <2>4, <2>5, AddWeighs
  <2>7. t.item = item /\ t.qty = q
    BY <2>4, <2>5
  <2> HIDE DEF s
  <2>8. Weight(t, OfItem(item)) = q
    <3>1. Kind(t) \in OfItem(item)
      BY <2>6, <2>7, KindOf
    <3> QED BY <2>7, <3>1 DEF Weight
  <2>9. Weigh(x.stacks, OfItem(item)) = Weigh(a.stacks, OfItem(item)) + q
    BY <2>6, <2>8, ItemsAreBlind
  <2>10. IsPlaced(x) /\ x.credits = a.credits /\ x.wreck = a.wreck /\ x.ships = a.ships
    BY <2>6 DEF IsPlaced, Restacked
  <2>11. /\ b \in Assets /\ b.credits = x.credits /\ b.wreck = x.wreck
         /\ b = x \/ Granted(x, b) # {}
    BY <2>10, RouteGrants
  <2> HIDE DEF b
  <2>12. Granted(x, b) = Granted(a, b)
    BY <2>10 DEF Granted
  <2>13. b = x \/ Granted(a, b) # {}
    BY <2>11, <2>12
  <2>14. \/ Granted(a, b) # {}
         \/ Weigh(b.stacks, OfItem(r.item)) = Weigh(a.stacks, OfItem(r.item)) + r.q
    BY <2>9, <2>13 DEF item, q
  <2> QED BY <2>2, <2>10, <2>11, <2>14
<1> QED BY <1>2, <1>3

\* What a resupply has to buy depends on the goods, and where they may be drawn from.
LEMMA SameRounds ==
  ASSUME NEW a, NEW b, b.stacks = a.stacks, b.out = a.out, b.active = a.active, b.ships = a.ships,
         NEW s
  PROVE  RoundsToBuy(b, s) = RoundsToBuy(a, s)
<1>1. Local(b) = Local(a)
  BY DEF Local
<1>2. OwnedRounds(b) = OwnedRounds(a)
  BY <1>1 DEF OwnedRounds
<1>3. Quantity(b, OwnedRounds(b)) = Quantity(a, OwnedRounds(a))
  BY <1>2 DEF Quantity
<1>4. \A slot : Loaded(b, s, slot) = Loaded(a, s, slot)
  BY DEF Loaded, Quantity, ChargeAt, StacksIn
<1>5. MissingRounds(b, s) = MissingRounds(a, s)
  <2>1. \A slot \in Slots : Missing(b, s, slot) = Missing(a, s, slot)
    BY <1>4 DEF Missing
  <2>2. [slot \in Slots |-> Missing(b, s, slot)] = [slot \in Slots |-> Missing(a, s, slot)]
    BY <2>1
  <2> QED BY <2>2 DEF MissingRounds
<1> QED BY <1>3, <1>5 DEF RoundsToBuy

\* What lies where it lay weighs what it weighed.
LEMMA SameWeighs ==
  ASSUME NEW a \in Assets, NEW stacks, stacks = a.stacks
  PROVE  /\ NoneUnmarked(a.stacks, stacks)
         /\ \A K : Weigh(stacks, K) = Weigh(a.stacks, K) /\ Weigh(stacks, K) = Weigh(a.stacks, K) + 0
<1>1. NoneUnmarked(a.stacks, stacks)
  BY NothingRearranged DEF Rearranged, NoneUnmarked
<1>2. ASSUME NEW K
      PROVE  Weigh(stacks, K) = Weigh(a.stacks, K) /\ Weigh(stacks, K) = Weigh(a.stacks, K) + 0
  <2> DEFINE x == Weigh(a.stacks, K)
  <2>1. x \in Nat /\ Weigh(stacks, K) = x
    BY AssetsType, WeighType
  <2> HIDE DEF x
  <2>2. x + 0 = x
    BY <2>1
  <2> QED BY <2>1, <2>2 DEF x
<1> QED BY <1>1, <1>2

\* Who pays.
LEMMA PaidDeals ==
  ASSUME StationInv, NEW r, IsRequest(r), IsAvailable(r), r.action # "market.sell",
         NEW c, c = Shown(r).credits, NEW a, a = Paid(assets, c)
  PROVE  /\ c \in Nat /\ Offered(r) /\ IsPlaced(a) /\ a \in Assets
         /\ a.credits = assets.credits - c /\ a.out = assets.out /\ a.active = assets.active
         /\ a.ships = assets.ships /\ a.stacks = assets.stacks /\ a.wreck = assets.wreck
<1>1. Offered(r) /\ c <= assets.credits
  BY DEF IsAvailable
<1>2. c \in Nat /\ assets \in Assets /\ IsPlaced(assets)
  BY <1>1, ShownType, InvTypes DEF IsServed
<1>3. /\ a \in Assets /\ a.active = assets.active /\ a.out = assets.out /\ a.ships = assets.ships
      /\ a.stacks = assets.stacks /\ a.wreck = assets.wreck /\ a.credits = assets.credits - c
  BY <1>1, <1>2, PaidType
<1>4. IsPlaced(a)
  BY <1>2, <1>3 DEF IsPlaced
<1> QED BY <1>1, <1>2, <1>3, <1>4

LEMMA BuyDeals ==
  ASSUME StationInv, NEW r, IsRequest(r), IsAvailable(r), r.action = "market.buy",
         r.item = Hull => DOMAIN assets.ships # Ships
  PROVE  Deal(assets, ApplyConfirmed(r, Shown(r)), r, Shown(r).credits, Shown(r).units)
<1> DEFINE c == Shown(r).credits
           n == Shown(r).units
           a == Paid(assets, c)
           b == ApplyConfirmed(r, Shown(r))
<1>1. b = ApplyBuy(a, r)
  BY DEF ApplyConfirmed
<1>2. c \in Nat \ {0} /\ n = r.q
  <2>1. Shown(r) = [credits |-> Trade(r.item, "stationSells", r.q), units |-> r.q]
    BY DEF Shown
  <2>2. r.item \in Items \cup {Hull} /\ r.q \in Nat \ {0}
    <3>1. CASE r.item = Hull /\ r.q = 1
      <4>1. r.q \in Nat \ {0}
        BY <3>1
      <4> QED BY <3>1, <4>1
    <3>2. CASE r.item \in Items /\ r.q \in DealSizes
      BY <3>2, DealTypes
    <3> QED BY <3>1, <3>2 DEF IsRequest
  <2>3. Trade(r.item, "stationSells", r.q) \in Nat \ {0}
    BY <2>2, TradeIsPaid
  <2> QED BY <2>1, <2>3
<1>3. /\ IsPlaced(a) /\ a.credits = assets.credits - c
      /\ a.ships = assets.ships /\ a.stacks = assets.stacks /\ a.wreck = assets.wreck
  BY PaidDeals
<1> HIDE DEF a, b, c, n
<1>4. /\ b \in Assets /\ b.credits = a.credits /\ b.wreck = a.wreck
      /\ \/ r.item = Hull \/ Granted(a, b) # {}
         \/ Weigh(b.stacks, OfItem(r.item)) = Weigh(a.stacks, OfItem(r.item)) + r.q
  BY <1>1, <1>3, BuyPays
<1>5. Granted(a, b) = Granted(assets, b) /\ TradedItem(assets, r) = r.item
  BY <1>3 DEF Granted, TradedItem
<1>6. c # 0
  BY <1>2
<1>7. Deal(assets, b, r, c, n)
  BY <1>2, <1>3, <1>4, <1>5, <1>6 DEF Deal
<1> QED BY <1>7 DEF b, c, n

LEMMA SellDeals ==
  ASSUME StationInv, NEW r, IsRequest(r), IsAvailable(r), r.action = "market.sell"
  PROVE  Deal(assets, ApplyConfirmed(r, Shown(r)), r, Shown(r).credits, Shown(r).units)
<1> DEFINE c == Shown(r).credits
           n == Shown(r).units
           i == r.stack
           q == r.q
           s == assets.stacks[i]
           part == Part(s, q)
           sold == Consume(assets, i, q)
           v == assets.credits + c
           b == ApplyConfirmed(r, Shown(r))
<1>1. i \in DOMAIN assets.stacks /\ q \in Nat \ {0} /\ q <= s.qty /\ ~s.marked
  BY DealTypes DEF IsRequest, IsAvailable, Offered
<1>2. assets \in Assets /\ s \in Stacks /\ assets.credits \in Nat
  BY <1>1, InvTypes
<1>3. c \in Nat \ {0} /\ n = q
  <2>1. Shown(r) = [credits |-> Trade(s.item, "stationBuys", q), units |-> q]
    BY DEF Shown
  <2>2. s.item \in Items \cup {Hull}
    BY <1>2, StackType
  <2>3. Trade(s.item, "stationBuys", q) \in Nat \ {0}
    BY <1>1, <2>2, TradeIsPaid
  <2> QED BY <2>1, <2>3
<1>4. b = [sold EXCEPT !.credits = sold.credits + c]
  BY DEF ApplyConfirmed
<1>5. TradedItem(assets, r) = s.item
  BY DEF TradedItem
<1> HIDE DEF b, c, n, i, q
<1>6. /\ Restacked(assets, sold)
      /\ \A K : Weigh(sold.stacks, K) + Weight(part, K) = Weigh(assets.stacks, K)
  <2> HIDE DEF s, sold, part
  <2>1. ASSUME NEW K
        PROVE  Restacked(assets, sold) /\ Weigh(sold.stacks, K) + Weight(part, K) = Weigh(assets.stacks, K)
    BY <1>1, <1>2, ConsumeWeighs DEF s, sold, part
  <2> QED BY <2>1
<1>7. part \in Stacks /\ Kind(part) = Kind(s) /\ \A K : Weight(part, K) = IF Kind(s) \in K THEN q ELSE 0
  BY <1>1, <1>2, PartType
<1> HIDE DEF s, sold, part
<1>8. /\ b \in Assets /\ b.credits = v /\ b.wreck = assets.wreck /\ b.stacks = sold.stacks
  <2>1. sold \in Assets /\ sold.credits = assets.credits /\ sold.wreck = assets.wreck /\ v \in Nat
    BY <1>2, <1>3, <1>6 DEF Restacked
  <2>2. b = [sold EXCEPT !.credits = v]
    BY <1>4, <2>1
  <2> HIDE DEF v
  <2> QED BY <2>1, <2>2, WithCredits
<1>9. ASSUME NEW K
      PROVE  /\ Weigh(b.stacks, K) <= Weigh(assets.stacks, K)
             /\ Kind(s) \notin K => Weigh(b.stacks, K) = Weigh(assets.stacks, K)
             /\ Kind(s) \in K => Weigh(b.stacks, K) = Weigh(assets.stacks, K) - q
  <2> DEFINE x == Weigh(b.stacks, K)
             y == Weigh(assets.stacks, K)
             w == Weight(part, K)
  <2>1. x + w = y
    BY <1>6, <1>8
  <2>2. x \in Nat /\ y \in Nat /\ w \in Nat
    BY <1>2, <1>7, <1>8, AssetsType, WeighType, WeightType
  <2>3. w = IF Kind(s) \in K THEN q ELSE 0
    BY <1>7
  <2> HIDE DEF x, y, w
  <2>4. x <= y
    BY <2>1, <2>2
  <2>5. ASSUME Kind(s) \notin K PROVE x = y
    BY <2>1, <2>2, <2>3, <2>5
  <2>6. ASSUME Kind(s) \in K PROVE x = y - q
    BY <1>1, <2>1, <2>2, <2>3, <2>6
  <2> QED BY <2>4, <2>5, <2>6 DEF x, y
<1>10. NoneUnmarked(assets.stacks, b.stacks)
  BY <1>9 DEF NoneUnmarked
<1>11. \A item : Weigh(b.stacks, Marked(item)) = Weigh(assets.stacks, Marked(item))
  <2>1. \A item : Kind(s) \notin Marked(item)
    BY <1>1, <1>2, KindOf
  <2> QED BY <1>9, <2>1
<1>12. Weigh(b.stacks, OfItem(s.item)) = Weigh(assets.stacks, OfItem(s.item)) - q
  <2>1. Kind(s) \in OfItem(s.item)
    BY <1>2, KindOf
  <2> QED BY <1>9, <2>1
<1>13. c # 0 /\ c \in Nat
  BY <1>3
<1>14. Deal(assets, b, r, c, n)
  BY <1>3, <1>5, <1>8, <1>10, <1>11, <1>12, <1>13 DEF Deal
<1> QED BY <1>14 DEF b, c, n

LEMMA ServiceDeals ==
  ASSUME StationInv, NEW r, IsRequest(r), IsAvailable(r), r.action \in {"repair", "insurance.enhance"}
  PROVE  Deal(assets, ApplyConfirmed(r, Shown(r)), r, Shown(r).credits, Shown(r).units)
<1> DEFINE c == Shown(r).credits
           n == Shown(r).units
           a == Paid(assets, c)
           s == r.ship
           b == ApplyConfirmed(r, Shown(r))
<1>1. b = [a EXCEPT !.ships[s].hurt = FALSE] \/ b = [a EXCEPT !.ships[s].enhanced = TRUE]
  BY DEF ApplyConfirmed
<1>2. n = 0 /\ TradedItem(assets, r) = Ammo /\ r.action # "market.sell" /\ s \in DOMAIN assets.ships
  BY DEF Shown, TradedItem, IsAvailable, Offered
<1>3. /\ c \in Nat /\ a \in Assets /\ a.credits = assets.credits - c
      /\ a.ships = assets.ships /\ a.stacks = assets.stacks /\ a.wreck = assets.wreck
  BY <1>2, PaidDeals
<1> HIDE DEF a, b, c, n, s
<1>4. \E v \in BOOLEAN : b = [a EXCEPT !.ships[s].hurt = v] \/ b = [a EXCEPT !.ships[s].enhanced = v]
  BY <1>1
<1>5. b \in Assets /\ b.credits = a.credits /\ b.wreck = a.wreck /\ b.stacks = a.stacks
  BY <1>2, <1>3, <1>4, HurtType
<1>6. /\ NoneUnmarked(assets.stacks, b.stacks)
      /\ \A K : /\ Weigh(b.stacks, K) = Weigh(assets.stacks, K)
                /\ Weigh(b.stacks, K) = Weigh(assets.stacks, K) + 0
  BY <1>3, <1>5, InvTypes, SameWeighs
<1>7. Deal(assets, b, r, c, n)
  BY <1>2, <1>3, <1>5, <1>6 DEF Deal
<1> QED BY <1>7 DEF b, c, n

LEMMA ResupplyDeals ==
  ASSUME StationInv, NEW r, IsRequest(r), IsAvailable(r), r.action = "resupply"
  PROVE  Deal(assets, ApplyConfirmed(r, Shown(r)), r, Shown(r).credits, Shown(r).units)
<1> DEFINE c == Shown(r).credits
           n == Shown(r).units
           a == Paid(assets, c)
           s == r.ship
           b == ApplyConfirmed(r, Shown(r))
<1>1. b = ApplyResupply(a, s)
  BY DEF ApplyConfirmed
<1>2. TradedItem(assets, r) = Ammo /\ s \in Ships
  BY InvTypes DEF TradedItem, IsAvailable, Offered
<1>3. /\ n = RoundsToBuy(assets, s) /\ n \in Nat
      /\ n # 0 => c # 0
  <2>1. Shown(r) = LET m == RoundsToBuy(assets, s)
                   IN  [credits |-> IF m = 0 THEN 0 ELSE Trade(Ammo, "stationSells", m), units |-> m]
    BY DEF Shown
  <2> DEFINE m == RoundsToBuy(assets, s)
  <2>2. m \in Nat
    BY InvTypes, RoundsToBuyType
  <2> HIDE DEF m
  <2>3. Shown(r) = [credits |-> IF m = 0 THEN 0 ELSE Trade(Ammo, "stationSells", m), units |-> m]
    BY <2>1 DEF m
  <2>4. n = m /\ c = IF m = 0 THEN 0 ELSE Trade(Ammo, "stationSells", m)
    BY <2>3
  <2> HIDE DEF n, c
  <2>5. ASSUME m # 0 PROVE c # 0
    <3>1. m \in Nat \ {0}
      BY <2>2, <2>5
    <3>2. Trade(Ammo, "stationSells", m) \in Nat \ {0}
      BY <3>1, TradeIsPaid, StationAssumption
    <3> QED BY <2>4, <2>5, <3>2
  <2> QED BY <2>2, <2>4, <2>5 DEF m
<1>4. /\ c \in Nat /\ a \in Assets /\ a.credits = assets.credits - c
      /\ a.out = assets.out /\ a.active = assets.active
      /\ a.ships = assets.ships /\ a.stacks = assets.stacks /\ a.wreck = assets.wreck
  BY PaidDeals
<1> HIDE DEF a, b, c, n, s
<1>5. RoundsToBuy(a, s) = n
  BY <1>3, <1>4, SameRounds
<1>6. Drawn(a, b, MissingRounds(a, s), n)
  BY <1>1, <1>2, <1>4, <1>5, ResupplyBuys
<1>7. /\ Restacked(a, b)
      /\ \A item : /\ Weigh(b.stacks, OfItem(item)) =
                        Weigh(assets.stacks, OfItem(item)) + IF item = Ammo THEN n ELSE 0
                   /\ Weigh(b.stacks, Unmarked(item)) <=
                        Weigh(assets.stacks, Unmarked(item)) + IF item = Ammo THEN n ELSE 0
  BY <1>4, <1>6 DEF Drawn
<1>8. b \in Assets /\ b.credits = a.credits /\ b.wreck = a.wreck
  BY <1>7 DEF Restacked
<1>9. ASSUME c = 0, NEW item
      PROVE  /\ Weigh(b.stacks, OfItem(item)) = Weigh(assets.stacks, OfItem(item))
             /\ Weigh(b.stacks, Unmarked(item)) <= Weigh(assets.stacks, Unmarked(item))
  <2> DEFINE x == Weigh(assets.stacks, OfItem(item))
             y == Weigh(assets.stacks, Unmarked(item))
             z == Weigh(b.stacks, Unmarked(item))
             w == Weigh(b.stacks, OfItem(item))
  <2>1. x \in Nat /\ y \in Nat /\ z \in Nat /\ w \in Nat
    BY <1>8, InvTypes, AssetsType, WeighType
  <2>2. (IF item = Ammo THEN n ELSE 0) = 0
    BY <1>3, <1>9
  <2>3. w = x + 0 /\ z <= y + 0
    BY <1>7, <2>2
  <2> HIDE DEF x, y, z, w
  <2>4. w = x /\ z <= y
    BY <2>1, <2>3
  <2> QED BY <2>4 DEF x, y, z, w
<1>10. Weigh(b.stacks, OfItem(Ammo)) = Weigh(assets.stacks, OfItem(Ammo)) + n
  BY <1>7
<1>11. c = 0 => NoneUnmarked(assets.stacks, b.stacks)
  BY <1>9 DEF NoneUnmarked
<1>12. Deal(assets, b, r, c, n)
  BY <1>2, <1>4, <1>8, <1>9, <1>10, <1>11 DEF Deal
<1> QED BY <1>12 DEF b, c, n

LEMMA ConfirmDeals ==
  ASSUME StationInv, Confirm
  PROVE  /\ held # NoOne
         /\ Deal(assets, assets', held.request, held.shown.credits, held.shown.units)
<1> DEFINE r == held.request
<1>1. /\ held # NoOne /\ IsAvailable(r) /\ Shown(r) = held.shown
      /\ (r.action = "market.buy" /\ r.item = Hull) => DOMAIN assets.ships # Ships
      /\ assets' = ApplyConfirmed(r, Shown(r))
  BY DEF Confirm, TokenMatches
<1>2. IsRequest(r)
  BY <1>1, HeldRequest
<1> HIDE DEF r
<1>3. CASE r.action = "market.buy"
  <2>1. Deal(assets, ApplyConfirmed(r, Shown(r)), r, Shown(r).credits, Shown(r).units)
    BY <1>1, <1>2, <1>3, BuyDeals
  <2> QED BY <1>1, <2>1 DEF r
<1>4. CASE r.action = "market.sell"
  <2>1. Deal(assets, ApplyConfirmed(r, Shown(r)), r, Shown(r).credits, Shown(r).units)
    BY <1>1, <1>2, <1>4, SellDeals
  <2> QED BY <1>1, <2>1 DEF r
<1>5. CASE r.action \in {"repair", "insurance.enhance"}
  <2>1. Deal(assets, ApplyConfirmed(r, Shown(r)), r, Shown(r).credits, Shown(r).units)
    BY <1>1, <1>2, <1>5, ServiceDeals
  <2> QED BY <1>1, <2>1 DEF r
<1>6. CASE r.action = "resupply"
  <2>1. Deal(assets, ApplyConfirmed(r, Shown(r)), r, Shown(r).credits, Shown(r).units)
    BY <1>1, <1>2, <1>6, ResupplyDeals
  <2> QED BY <1>1, <2>1 DEF r
<1> QED BY <1>2, <1>3, <1>4, <1>5, <1>6 DEF IsRequest

-----------------------------------------------------------------------------
(* Every other step. *)

\* What is fired or lies in a wreck that is removed is gone, and nothing else is.
Spent(a, b) ==
  /\ b \in Assets /\ b.credits = a.credits
  /\ \A K : Weigh(b.stacks, K) <= Weigh(a.stacks, K)
  /\ (~a.out /\ b.wreck = a.wreck) => b.stacks = a.stacks

\* What is left of a lost ship, with what is paid or granted for it.
Lost(a, b) ==
  /\ b \in Assets /\ ~a.wreck /\ b.wreck
  /\ NoneUnmarked(a.stacks, b.stacks)
  /\ b.credits = a.credits + Payout(a.ships[a.active])

LEMMA NothingIsSpent ==
  ASSUME NEW a \in Assets, NEW b \in Assets, b.credits = a.credits, b.stacks = a.stacks
  PROVE  Spent(a, b)
<1>1. ASSUME NEW K PROVE Weigh(b.stacks, K) <= Weigh(a.stacks, K)
  <2> DEFINE x == Weigh(a.stacks, K)
  <2>1. x \in Nat /\ Weigh(b.stacks, K) = x
    BY AssetsType, WeighType
  <2> HIDE DEF x
  <2>2. x <= x
    BY <2>1
  <2> QED BY <2>1, <2>2 DEF x
<1> QED BY <1>1 DEF Spent

LEMMA FireSpends ==
  ASSUME StationInv, Fire
  PROVE  Spent(assets, assets')
<1>1. PICK slot \in Slots :
        /\ assets.out /\ ChargeAt(assets, assets.active, slot) # {}
        /\ assets' = Consume(assets, Min(ChargeAt(assets, assets.active, slot)), 1)
  BY DEF Fire, Adopt
<1> DEFINE T == ChargeAt(assets, assets.active, slot)
           i == Min(T)
           part == Part(assets.stacks[i], 1)
           b == Consume(assets, i, 1)
<1>2. T \subseteq DOMAIN assets.stacks
  BY DEF ChargeAt, StacksIn
<1> HIDE DEF T
<1>3. i \in DOMAIN assets.stacks
  BY <1>1, <1>2, InvTypes, LeastPlace DEF T
<1>4. assets' = b
  BY <1>1 DEF T
<1> HIDE DEF i
<1>5. 1 <= assets.stacks[i].qty /\ 1 \in Nat \ {0} /\ assets.stacks[i] \in Stacks /\ assets \in Assets
  BY <1>3, InvTypes, StackType
<1> HIDE DEF b, part
<1>6. ASSUME NEW K
      PROVE  Restacked(assets, b) /\ Weigh(b.stacks, K) + Weight(part, K) = Weigh(assets.stacks, K)
  BY <1>3, <1>5, ConsumeWeighs DEF b, part
<1>7. Restacked(assets, b)
  BY <1>6
<1>8. part \in Stacks
  BY <1>5, PartType DEF part
<1>9. ASSUME NEW K PROVE Weigh(b.stacks, K) <= Weigh(assets.stacks, K)
  <2> DEFINE x == Weigh(b.stacks, K)
             y == Weigh(assets.stacks, K)
             w == Weight(part, K)
  <2>1. x + w = y
    BY <1>6
  <2>2. x \in Nat /\ y \in Nat /\ w \in Nat
    BY <1>5, <1>7, <1>8, AssetsType, WeighType, WeightType DEF Restacked
  <2> HIDE DEF x, y, w
  <2>3. x <= y
    BY <2>1, <2>2
  <2> QED BY <2>3 DEF x, y
<1>10. Spent(assets, b)
  BY <1>1, <1>7, <1>9 DEF Spent, Restacked
<1> QED BY <1>4, <1>10

LEMMA ExpirySpends ==
  ASSUME StationInv, WreckExpires
  PROVE  Spent(assets, assets')
<1> DEFINE a == [assets EXCEPT !.wreck = FALSE]
           stacks == KeptStacks(assets)
           b == [a EXCEPT !.stacks = stacks]
<1>1. assets.wreck /\ assets' = b
  BY DEF WreckExpires, WithoutWreck, Adopt
<1>2. assets \in Assets
  BY InvTypes
<1>3. PICK no \in BOOLEAN : no = FALSE
  OBVIOUS
<1>4. a = [assets EXCEPT !.wreck = no]
  BY <1>3
<1> HIDE DEF a
<1>5. a \in Assets /\ a.credits = assets.credits /\ a.wreck = FALSE
  BY <1>2, <1>3, <1>4, WithWreck
<1>6. stacks \in Seq(Stacks) /\ \A K : Weigh(stacks, K) <= Weigh(assets.stacks, K)
  BY <1>2, KeptType, KeptWeighs
<1> HIDE DEF stacks
<1>7. Restacked(a, b) /\ b.stacks = stacks
  BY <1>5, <1>6, OtherStacks
<1> HIDE DEF b
<1>8. Spent(assets, b)
  BY <1>1, <1>5, <1>6, <1>7 DEF Spent, Restacked
<1> QED BY <1>1, <1>8

LEMMA FlightSpends ==
  ASSUME StationInv, Undock \/ Dock \/ TakeDamage
  PROVE  Spent(assets, assets')
<1>1. assets \in Assets /\ IsServed(assets)
  BY InvTypes
<1>2. CASE Undock \/ Dock
  <2>1. \E v \in BOOLEAN : assets' = [assets EXCEPT !.out = v]
    BY <1>2 DEF Undock, Dock, Adopt
  <2>2. assets' \in Assets /\ assets'.credits = assets.credits /\ assets'.stacks = assets.stacks
    BY <1>1, <2>1, WithOut
  <2> QED BY <1>1, <2>2, NothingIsSpent
<1>3. CASE TakeDamage
  <2> DEFINE s == assets.active
  <2>1. assets.out /\ \E v \in BOOLEAN : assets' = [assets EXCEPT !.ships[s].hurt = v]
    BY <1>3 DEF TakeDamage, Adopt
  <2>2. s \in DOMAIN assets.ships
    BY <1>1, <2>1 DEF IsServed, IsPlaced
  <2> HIDE DEF s
  <2>3. assets' \in Assets /\ assets'.credits = assets.credits /\ assets'.stacks = assets.stacks
    BY <1>1, <2>1, <2>2, HurtType
  <2> QED BY <1>1, <2>3, NothingIsSpent
<1> QED BY <1>2, <1>3

LEMMA LossLoses ==
  ASSUME StationInv, LoseShip
  PROVE  Lost(assets, assets')
<1> DEFINE s == assets.active
<1>1. PICK survivors \in SUBSET MaySurvive(assets, s) :
        assets.out /\ ~assets.wreck /\ assets' = ResolveLoss(assets, s, survivors)
  BY DEF LoseShip, Adopt
<1>2. assets \in Assets /\ s \in DOMAIN assets.ships /\ s # NoOne /\ DOMAIN assets.ships \subseteq Ships
  BY <1>1, InvTypes, StationAssumption DEF IsServed, IsPlaced
<1> DEFINE l == Bereft(assets, s, survivors)
           b == ResolveLoss(assets, s, survivors)
<1>3. b = IF RecoveryGrantDue(l) THEN GrantRecoveryShip(l) ELSE [l EXCEPT !.active = Replacement(l)]
  BY DEF ResolveLoss, Bereft
<1> HIDE DEF s
<1>4. /\ l \in Assets /\ l.credits = assets.credits + Payout(assets.ships[s])
      /\ DOMAIN l.ships = DOMAIN assets.ships \ {s}
      /\ l.wreck = TRUE /\ l.stacks = SettledStacks(assets, s, survivors)
  <2>1. LET x == Bereft(assets, s, survivors)
        IN  /\ x \in Assets /\ x.active = NoOne /\ x.out = FALSE
            /\ x.credits = assets.credits + Payout(assets.ships[s])
            /\ DOMAIN x.ships = DOMAIN assets.ships \ {s}
            /\ x.wreck = TRUE /\ x.stacks = SettledStacks(assets, s, survivors)
    BY <1>2, BereftType
  <2> QED BY <2>1
<1>5. NoneUnmarked(assets.stacks, l.stacks)
  BY <1>2, <1>4, SettledIsUnmarked
<1> HIDE DEF b, l
<1>6. b \in Assets /\ b.credits = l.credits /\ b.wreck = l.wreck /\ NoneUnmarked(l.stacks, b.stacks)
  <2>1. CASE RecoveryGrantDue(l)
    <3>1. DOMAIN l.ships # Ships
      BY <1>2, <1>4
    <3> DEFINE x == GrantRecoveryShip(l)
    <3>2. x \in Assets /\ x.credits = l.credits /\ x.wreck = l.wreck
      BY <1>4, <3>1, GrantType
    <3>3. NoneUnmarked(l.stacks, x.stacks)
      BY <1>4, <3>1, GrantIsMarked
    <3>4. b = x
      BY <1>3, <2>1
    <3> HIDE DEF x
    <3> QED BY <3>2, <3>3, <3>4
  <2>2. CASE ~RecoveryGrantDue(l)
    <3> DEFINE r == Replacement(l)
    <3>1. r \in Ships \cup {NoOne}
      <4>1. r \in Docked(l) \cup {NoOne}
        BY <1>4, ReplacementType
      <4>2. Docked(l) \subseteq Ships
        BY <1>2, <1>4 DEF Docked
      <4> QED BY <4>1, <4>2
    <3>2. b = [l EXCEPT !.active = r]
      BY <1>3, <2>2
    <3> HIDE DEF r
    <3>3. b \in Assets /\ b.credits = l.credits /\ b.wreck = l.wreck /\ b.stacks = l.stacks
      BY <1>4, <3>1, <3>2, WithActive
    <3>4. NoneUnmarked(l.stacks, b.stacks)
      BY <1>4, <3>3, SameWeighs
    <3> QED BY <3>3, <3>4
  <2> QED BY <2>1, <2>2
<1>7. NoneUnmarked(assets.stacks, b.stacks)
  <2>1. assets.stacks \in Seq(Stacks) /\ l.stacks \in Seq(Stacks) /\ b.stacks \in Seq(Stacks)
    BY <1>2, <1>4, <1>6, AssetsType
  <2> QED BY <1>5, <1>6, <2>1, NoneUnmarkedTwice
<1>8. Lost(assets, b)
  BY <1>1, <1>4, <1>6, <1>7 DEF Lost, s
<1> QED BY <1>1, <1>8 DEF b

LEMMA GoodsAreRearranged ==
  ASSUME StationInv,
         Transfer \/ SplitStack \/ MergeStacks \/ CommitFitting \/ Reload \/ TakeLoot
  PROVE  Rearranged(assets, assets')
<1>1. CASE Transfer
  <2>1. PICK i \in AtHand, inv \in Local(assets), q \in DealSizes :
          q <= assets.stacks[i].qty /\ assets' = Move(assets, i, inv, q, Plain)
    BY <1>1 DEF Transfer, Adopt
  <2>2. i \in DOMAIN assets.stacks /\ inv \in Places /\ q \in Nat \ {0} /\ Plain \in States
    BY LocalType, DealTypes DEF AtHand
  <2> QED BY <2>1, <2>2, InvTypes, MoveRearranges
<1>2. CASE SplitStack
  <2>1. PICK i \in AtHand, q \in DealSizes :
          q < assets.stacks[i].qty /\ assets' = Split(assets, i, q)
    BY <1>2 DEF SplitStack, Adopt
  <2>2. i \in DOMAIN assets.stacks /\ q \in Nat \ {0}
    BY DealTypes DEF AtHand
  <2> QED BY <2>1, <2>2, InvTypes, SplitRearranges
<1>3. CASE MergeStacks
  <2>1. PICK i \in AtHand, j \in AtHand :
          /\ i # j /\ assets.stacks[i].inv = assets.stacks[j].inv
          /\ Compatible(assets.stacks[i], assets.stacks[j])
          /\ assets' = Merge(assets, i, j)
    BY <1>3 DEF MergeStacks, Adopt
  <2>2. i \in DOMAIN assets.stacks /\ j \in DOMAIN assets.stacks
    BY DEF AtHand
  <2> QED BY <2>1, <2>2, InvTypes, MergeRearranges
<1>4. CASE CommitFitting
  <2> DEFINE b == ApplyDraftTo(assets, fitting)
  <2>1. fitting # NoOne /\ b # NoOne /\ assets' = b
    BY <1>4 DEF CommitFitting, Adopt
  <2>2. fitting \in Drafts /\ assets \in Assets
    BY <2>1, InvIsSound, InvTypes DEF Sound
  <2> QED BY <2>1, <2>2, DraftType
<1>5. CASE Reload
  <2> DEFINE s == assets.active
             stores == <<Hold(s)>>
             missing(slot) == MagazineSize - Loaded(assets, s, slot)
             spare == Available(assets, stores, Ammo)
  <2>1. PICK slot \in Slots :
          /\ assets.out
          /\ Min({missing(slot), spare}) > 0
          /\ assets' = LoadRounds(stores, assets, s, slot, Min({missing(slot), spare}))
    BY <1>5 DEF Reload, Adopt
  <2>2. assets \in Assets /\ s \in Ships
    BY <2>1, InvTypes
  <2>3. Len(stores) \in Nat /\ DOMAIN stores = 1..Len(stores)
    OBVIOUS
  <2>4. missing(slot) \in Int
    BY <2>2, LoadedType, StationAssumption
  <2>5. spare \in Nat
    BY <2>2, QuantityType DEF Available
  <2> HIDE DEF stores, spare, missing, s
  <2>6. Min({missing(slot), spare}) \in Nat
    BY <2>1, <2>4, <2>5, MinOfTwo
  <2>7. Rearranged(assets, LoadRounds(stores, assets, s, slot, Min({missing(slot), spare})))
    BY <2>2, <2>3, <2>6, LoadRoundsType
  <2> QED BY <2>1, <2>7
<1>6. CASE TakeLoot
  <2>1. PICK i \in StacksIn(assets, Wreck), q \in DealSizes :
          assets.out /\ q <= assets.stacks[i].qty /\ assets' = Move(assets, i, Hold(assets.active), q, Plain)
    BY <1>6 DEF TakeLoot, Adopt
  <2>2. i \in DOMAIN assets.stacks /\ q \in Nat \ {0} /\ Plain \in States
    BY DealTypes DEF StacksIn
  <2>3. Hold(assets.active) \in Places
    BY <2>1, InvTypes DEF Places
  <2> QED BY <2>1, <2>2, <2>3, InvTypes, MoveRearranges
<1> QED BY <1>1, <1>2, <1>3, <1>4, <1>5, <1>6

\* A step deals, rearranges, spends or loses, and only a deal ends a preview.
LEMMA EveryStep ==
  ASSUME StationInv, [Next]_vars
  PROVE  \/ Confirm
         \/ /\ assets' = assets \/ (held # NoOne => held' # NoOne)
            /\ Rearranged(assets, assets') \/ Spent(assets, assets') \/ Lost(assets, assets')
<1>1. held # NoOne => Stale # NoOne
  BY InvIsSound, StaleType DEF Sound
<1>2. CASE Transfer \/ SplitStack \/ MergeStacks \/ CommitFitting \/ Reload \/ TakeLoot
  <2>1. held' = Stale
    BY <1>2 DEF Transfer, SplitStack, MergeStacks, CommitFitting, Reload, TakeLoot, Adopt
  <2> QED BY <1>1, <1>2, <2>1, GoodsAreRearranged
<1>3. CASE Undock \/ Dock \/ TakeDamage
  <2>1. held' = Stale
    BY <1>3 DEF Undock, Dock, TakeDamage, Adopt
  <2> QED BY <1>1, <1>3, <2>1, FlightSpends
<1>4. CASE Fire
  <2>1. held' = Stale
    BY <1>4 DEF Fire, Adopt
  <2> QED BY <1>1, <1>4, <2>1, FireSpends
<1>5. CASE WreckExpires
  <2>1. held' = Stale
    BY <1>5 DEF WreckExpires, Adopt
  <2> QED BY <1>1, <1>5, <2>1, ExpirySpends
<1>6. CASE LoseShip
  <2>1. held' = Stale
    BY <1>6 DEF LoseShip, Adopt
  <2> QED BY <1>1, <1>6, <2>1, LossLoses
<1>7. CASE \/ AskPreview \/ ConfirmStale \/ BeginFitting \/ SetSlot \/ ClearSlot \/ RevertFitting
           \/ EconomyHour \/ UNCHANGED vars
  <2>1. assets' = assets
    BY <1>7 DEF AskPreview, ConfirmStale, BeginFitting, SetSlot, ClearSlot, RevertFitting, EconomyHour, vars
  <2>2. Rearranged(assets, assets')
    BY <2>1, InvTypes, NothingRearranged
  <2> QED BY <2>1, <2>2
<1> QED BY <1>2, <1>3, <1>4, <1>5, <1>6, <1>7 DEF Next

-----------------------------------------------------------------------------
(* What no step does to goods and credits. *)

\* A confirmation does what the preview has shown: the credits and the units
\* that were shown change hands, and nothing else ends a preview and changes
\* what the pilot owns.
THEOREM PreviewsAreKept == Spec => ConfirmedAsShown
<1> DEFINE Kept ==
      (held # NoOne /\ held' = NoOne /\ assets' # assets) =>
        LET c == held.shown.credits
            sells == held.request.action = "market.sell"
            granted == {s \in DOMAIN assets'.ships \ DOMAIN assets.ships : assets'.ships[s].marked}
            traded == held.shown.units
        IN  /\ assets'.credits = IF sells THEN assets.credits + c ELSE assets.credits - c
            /\ \/ granted # {}
               \/ held.request.action = "market.buy" /\ held.request.item = Hull
               \/ LET item == IF sells THEN assets.stacks[held.request.stack].item
                              ELSE IF held.request.action = "market.buy" THEN held.request.item
                              ELSE Ammo
                  IN  Units(assets', item) =
                        IF sells THEN Units(assets, item) - traded ELSE Units(assets, item) + traded
<1>1. ASSUME StationInv, [Next]_vars, held # NoOne, held' = NoOne, assets' # assets
      PROVE  Kept
  <2> DEFINE r == held.request
             item == TradedItem(assets, r)
  <2>1. Confirm
    BY <1>1, EveryStep
  <2>2. Deal(assets, assets', r, held.shown.credits, held.shown.units)
    BY <1>1, <2>1, ConfirmDeals
  <2>3. assets \in Assets /\ assets' \in Assets
    BY <1>1, <2>2, InvTypes DEF Deal
  <2> HIDE DEF item
  <2>4. /\ Units(assets, item) = Weigh(assets.stacks, OfItem(item))
        /\ Units(assets', item) = Weigh(assets'.stacks, OfItem(item))
    BY <2>3, UnitsAreWeights
  <2>5. Granted(assets, assets') =
          {s \in DOMAIN assets'.ships \ DOMAIN assets.ships : assets'.ships[s].marked}
    BY DEF Granted
  <2>6. item = IF r.action = "market.sell" THEN assets.stacks[r.stack].item
               ELSE IF r.action = "market.buy" THEN r.item ELSE Ammo
    BY DEF item, TradedItem
  <2>7. assets'.credits = IF r.action = "market.sell" THEN assets.credits + held.shown.credits
                          ELSE assets.credits - held.shown.credits
    BY <2>2 DEF Deal
  <2>8. \/ Granted(assets, assets') # {}
        \/ r.action = "market.buy" /\ r.item = Hull
        \/ Units(assets', item) = IF r.action = "market.sell" THEN Units(assets, item) - held.shown.units
                                  ELSE Units(assets, item) + held.shown.units
    BY <2>2, <2>4 DEF Deal, item
  <2> QED BY <2>5, <2>6, <2>7, <2>8
<1>2. StationInv /\ [Next]_vars => [Kept]_vars
  BY <1>1
<1>3. [][Kept]_vars => ConfirmedAsShown
  BY PTL DEF ConfirmedAsShown
<1> QED BY <1>2, <1>3, InvariantHolds, PTL DEF Spec

\* Nothing done with goods in a station makes or loses a unit, or takes the
\* mark of a grant from one; in space units are only ever lost.
THEOREM GoodsAreConserved == Spec => UnitsAreConserved
<1> DEFINE Conserved ==
      (assets'.credits = assets.credits /\ assets'.ships = assets.ships /\ ~IsLoss) =>
        \A item \in Items :
          /\ Units(assets', item) <= Units(assets, item)
          /\ (~assets.out /\ ~assets'.out /\ assets'.wreck = assets.wreck) =>
               Units(assets', item) = Units(assets, item)
          /\ UnitsOf(assets', item, FALSE) <= UnitsOf(assets, item, FALSE)
<1>1. ASSUME StationInv, [Next]_vars, assets'.credits = assets.credits, ~IsLoss, NEW item
      PROVE  /\ Units(assets', item) <= Units(assets, item)
             /\ (~assets.out /\ ~assets'.out /\ assets'.wreck = assets.wreck) =>
                  Units(assets', item) = Units(assets, item)
             /\ UnitsOf(assets', item, FALSE) <= UnitsOf(assets, item, FALSE)
  <2> DEFINE x == Weigh(assets.stacks, OfItem(item))
             y == Weigh(assets'.stacks, OfItem(item))
             u == Weigh(assets.stacks, Unmarked(item))
             v == Weigh(assets'.stacks, Unmarked(item))
  <2>1. assets \in Assets /\ assets.credits \in Nat
    BY <1>1, InvTypes
  <2>2. /\ assets' \in Assets
        /\ y <= x /\ v <= u
        /\ (~assets.out /\ assets'.wreck = assets.wreck) => y = x
    <3>1. CASE Confirm
      <4> DEFINE r == held.request
                 c == held.shown.credits
      <4>1. Deal(assets, assets', r, c, held.shown.units)
        BY <1>1, <3>1, ConfirmDeals
      <4>2. /\ assets' \in Assets /\ c \in Nat
            /\ assets'.credits = IF r.action = "market.sell" THEN assets.credits + c ELSE assets.credits - c
        BY <4>1 DEF Deal
      <4> HIDE DEF r, c
      <4>3. c = 0
        BY <1>1, <2>1, <4>2
      <4>4. y = x /\ NoneUnmarked(assets.stacks, assets'.stacks)
        BY <4>1, <4>3 DEF Deal
      <4>5. v <= u
        BY <4>4 DEF NoneUnmarked
      <4>6. y \in Nat
        BY <4>2, AssetsType, WeighType
      <4> HIDE DEF x, y, u, v
      <4>7. y <= x
        BY <4>4, <4>6
      <4> QED BY <4>2, <4>4, <4>5, <4>7
    <3>2. CASE Rearranged(assets, assets')
      <4>1. assets' \in Assets /\ y = x /\ v <= u
        BY <3>2 DEF Rearranged, Restacked
      <4>2. y \in Nat
        BY <4>1, AssetsType, WeighType
      <4> HIDE DEF x, y, u, v
      <4>3. y <= x
        BY <4>1, <4>2
      <4> QED BY <4>1, <4>3
    <3>3. CASE Spent(assets, assets')
      BY <3>3 DEF Spent
    <3>4. CASE Lost(assets, assets')
      BY <1>1, <3>4 DEF Lost, IsLoss
    <3> QED BY <1>1, <3>1, <3>2, <3>3, <3>4, EveryStep
  <2>3. /\ Units(assets, item) = x /\ UnitsOf(assets, item, FALSE) = u
        /\ Units(assets', item) = y /\ UnitsOf(assets', item, FALSE) = v
    BY <2>1, <2>2, UnitsAreWeights
  <2> HIDE DEF x, y, u, v
  <2> QED BY <2>2, <2>3
<1>2. StationInv /\ [Next]_vars => [Conserved]_vars
  BY <1>1
<1>3. [][Conserved]_vars => UnitsAreConserved
  BY PTL DEF UnitsAreConserved
<1> QED BY <1>2, <1>3, InvariantHolds, PTL DEF Spec

\* A grant never becomes money: units without the mark come only for a price,
\* no unit with it is ever sold, and a granted hull pays no insurance.
THEOREM GrantsStayWorthless == Spec => GrantsBringNoValue
<1> DEFINE Worthless ==
      /\ \A item \in Items :
           UnitsOf(assets', item, FALSE) > UnitsOf(assets, item, FALSE) =>
             assets'.credits < assets.credits
      /\ assets'.credits > assets.credits =>
           IF IsLoss THEN ~assets.ships[assets.active].marked
           ELSE \A item \in Items : UnitsOf(assets', item, TRUE) >= UnitsOf(assets, item, TRUE)
<1>1. ASSUME StationInv, [Next]_vars
      PROVE  Worthless
  <2> DEFINE a == assets
             b == assets'
  <2>1. a \in Assets /\ a.credits \in Nat
    BY <1>1, InvTypes
  <2>2. b \in Assets
    <3>1. Confirm => b \in Assets
      BY <1>1, ConfirmDeals DEF Deal
    <3> QED BY <1>1, <3>1, EveryStep DEF Rearranged, Restacked, Spent, Lost
  <2>3. ASSUME NEW item
        PROVE  /\ UnitsOf(a, item, FALSE) = Weigh(a.stacks, Unmarked(item))
               /\ UnitsOf(b, item, FALSE) = Weigh(b.stacks, Unmarked(item))
               /\ UnitsOf(a, item, TRUE) = Weigh(a.stacks, Marked(item))
               /\ UnitsOf(b, item, TRUE) = Weigh(b.stacks, Marked(item))
               /\ UnitsOf(a, item, FALSE) \in Nat /\ UnitsOf(b, item, FALSE) \in Nat
               /\ UnitsOf(a, item, TRUE) \in Nat /\ UnitsOf(b, item, TRUE) \in Nat
    <3>1. a.stacks \in Seq(Stacks) /\ b.stacks \in Seq(Stacks)
      BY <2>1, <2>2, AssetsType
    <3> QED BY ZenonT(60), <2>1, <2>2, <3>1, UnitsAreWeights, WeighType
  <2>4. ASSUME NoneUnmarked(a.stacks, b.stacks)
        PROVE  \A item \in Items : ~(UnitsOf(b, item, FALSE) > UnitsOf(a, item, FALSE))
    <3> SUFFICES ASSUME NEW item PROVE ~(UnitsOf(b, item, FALSE) > UnitsOf(a, item, FALSE))
      OBVIOUS
    <3> DEFINE x == UnitsOf(a, item, FALSE)
               y == UnitsOf(b, item, FALSE)
    <3>1. y <= x /\ x \in Nat /\ y \in Nat
      BY <2>3, <2>4 DEF NoneUnmarked
    <3> HIDE DEF x, y
    <3>2. ~(y > x)
      BY <3>1
    <3> QED BY <3>2 DEF x, y
  <2>5. CASE Confirm
    <3> DEFINE r == held.request
               c == held.shown.credits
    <3>1. Deal(a, b, r, c, held.shown.units)
      BY <1>1, <2>5, ConfirmDeals
    <3>2. /\ c \in Nat /\ b.wreck = a.wreck
          /\ b.credits = IF r.action = "market.sell" THEN a.credits + c ELSE a.credits - c
          /\ c = 0 \/ r.action = "market.sell" => NoneUnmarked(a.stacks, b.stacks)
          /\ r.action = "market.sell" =>
               \A item : Weigh(b.stacks, Marked(item)) = Weigh(a.stacks, Marked(item))
      BY <3>1 DEF Deal
    <3> HIDE DEF r, c
    <3>3. ~IsLoss
      BY <3>2 DEF IsLoss
    <3>4. ASSUME ~(c = 0 \/ r.action = "market.sell") PROVE b.credits < a.credits
      BY <2>1, <3>2, <3>4
    <3>5. ASSUME b.credits > a.credits, NEW item PROVE UnitsOf(b, item, TRUE) >= UnitsOf(a, item, TRUE)
      <4>1. r.action = "market.sell"
        BY <2>1, <3>2, <3>5
      <4> DEFINE x == UnitsOf(a, item, TRUE)
                 y == UnitsOf(b, item, TRUE)
      <4>2. x = y /\ x \in Nat
        BY <2>3, <3>2, <4>1
      <4> HIDE DEF x, y
      <4>3. y >= x
        BY <4>2
      <4> QED BY <4>3 DEF x, y
    <3> QED BY <2>4, <3>2, <3>3, <3>4, <3>5
  <2>6. CASE Rearranged(a, b)
    <3>1. NoneUnmarked(a.stacks, b.stacks) /\ b.credits = a.credits
      BY <2>6 DEF Rearranged, Restacked, NoneUnmarked
    <3>2. ~(b.credits > a.credits)
      BY <2>1, <3>1
    <3> QED BY <2>4, <3>1, <3>2
  <2>7. CASE Spent(a, b)
    <3>1. NoneUnmarked(a.stacks, b.stacks) /\ b.credits = a.credits
      BY <2>7 DEF Spent, NoneUnmarked
    <3>2. ~(b.credits > a.credits)
      BY <2>1, <3>1
    <3> QED BY <2>4, <3>1, <3>2
  <2>8. CASE Lost(a, b)
    <3>1. /\ NoneUnmarked(a.stacks, b.stacks) /\ IsLoss
          /\ b.credits = a.credits + Payout(a.ships[a.active])
      BY <2>8 DEF Lost, IsLoss
    <3>2. ASSUME a.ships[a.active].marked PROVE ~(b.credits > a.credits)
      <4>1. Payout(a.ships[a.active]) = 0
        BY <3>2 DEF Payout
      <4>2. b.credits = a.credits + 0
        BY <3>1, <4>1
      <4> QED BY <2>1, <4>2
    <3> QED BY <2>4, <3>1, <3>2
  <2> QED BY <1>1, <2>5, <2>6, <2>7, <2>8, EveryStep
<1>2. StationInv /\ [Next]_vars => [Worthless]_vars
  BY <1>1
<1>3. [][Worthless]_vars => GrantsBringNoValue
  BY PTL DEF GrantsBringNoValue
<1> QED BY <1>2, <1>3, InvariantHolds, PTL DEF Spec
=============================================================================
