-------------------------------- MODULE Market --------------------------------
(***************************************************************************)
(* Local quotes and stock.  A listing is defined by its content (base      *)
(* price, target stock, elasticity and spread in percent, production and   *)
(* consumption in halves of a unit per hour) and has a state: the stock    *)
(* and the fraction of a unit, in halves, that the hours have left over.   *)
(* Prices are whole credits, rounded once per unit, and computed here in   *)
(* integers; the regional and event factors are 1 in all content.          *)
(***************************************************************************)
EXTENDS Integers, FiniteSetsExt, Sums

\* What the content may say of a listing.
Listings ==
  [fixed : BOOLEAN, base : Nat \ {0}, target : Nat \ {0},
   elasticity : Nat, spread : Nat, production : Nat, consumption : Nat]

Clamp(low, high, x) == IF x < low THEN low ELSE IF x > high THEN high ELSE x

\* Math.round() of a quotient that is not negative, for an even divisor.
RoundDiv(num, den) == (num + den \div 2) \div den

\* One in hundredths of the target: 1 + elasticity * scarcity, clamped twice.
ScarcityMultiplier(l, stock) ==
  LET T == l.target
      scarcity == Clamp(-T, 2 * T, T - stock)
  IN  IF l.fixed THEN 100 * T ELSE Clamp(40 * T, 250 * T, 100 * T + l.elasticity * scarcity)

\* unitQuote()
UnitQuote(l, stock, side) ==
  LET spread == Clamp(2, 25, l.spread)
      factor == IF side = "stationSells" THEN 100 + spread ELSE 100 - spread
  IN  Max({1, RoundDiv(l.base * ScarcityMultiplier(l, stock) * factor, 10000 * l.target)})

\* The quote for the unit a station trades after n others.
QuoteAfter(l, stock, side, n) ==
  UnitQuote(l, IF side = "stationSells" THEN stock - n ELSE stock + n, side)

UnitByUnit(l, stock, side, q) == Total([n \in 1..q |-> QuoteAfter(l, stock, side, n - 1)])

\* How many units, before the others, a flooded station sells at one price.
FloodedUnits(l, stock, q) == Max({0, Min({q, stock - 2 * l.target + 1})})

\* Wrong on purpose: the block of one price begins a unit early.
UnitsToFloodShort(l, stock, q) == Max({0, Min({q, 2 * l.target - stock - 1})})

\* How many units a station buys before its stock reaches twice the target.
UnitsToFlood(l, stock, q) == Max({0, Min({q, 2 * l.target - stock})})

\* bulkQuote(): unit by unit, but for the blocks where the price stands still.
BulkQuote(l, stock, side, q) ==
  LET k == IF side = "stationSells" THEN FloodedUnits(l, stock, q) ELSE UnitsToFlood(l, stock, q)
  IN  CASE l.fixed -> q * UnitQuote(l, stock, side)
        [] ~l.fixed /\ side = "stationSells" ->
             k * UnitQuote(l, stock, side) + UnitByUnit(l, stock - k, side, q - k)
        [] ~l.fixed /\ side = "stationBuys" ->
             UnitByUnit(l, stock, side, k) + (q - k) * UnitQuote(l, stock + k, side)

InStock(l, state, q) == l.fixed \/ q <= state.stock

\* applyStockMovement()
ApplyStockMovement(l, state, side, q) ==
  IF l.fixed THEN state
  ELSE [state EXCEPT !.stock = IF side = "stationSells" THEN @ - q ELSE @ + q]

\* advanceListing() for one hour; "\div" rounds down and the code to zero.
AdvanceListing(l, state) ==
  LET sum == state.half + l.production - l.consumption
      whole == IF sum < 0 THEN -((-sum) \div 2) ELSE sum \div 2
      rest == sum - 2 * whole
      stock == Clamp(0, 2 * l.target, state.stock + whole)
      stuck == (stock = 0 /\ rest < 0) \/ (stock = 2 * l.target /\ rest > 0)
  IN  IF l.fixed THEN state
      ELSE [stock |-> stock, half |-> IF stuck THEN 0 ELSE rest]

\* A unit moves the price by no more than the spread pays for.
IsHedged(l) ==
  LET spread == Clamp(2, 25, l.spread)
  IN  l.fixed \/ l.elasticity * (100 - spread) <= 2 * spread * l.target * Max({40, 100 - l.elasticity})

\* What q units cost, bought with the stock there is or sold to it, is the sum of
\* their prices one at a time, and what was bought is not sold back for more.
IsFair(l, stock, q) ==
  /\ BulkQuote(l, stock, "stationBuys", q) = UnitByUnit(l, stock, "stationBuys", q)
  /\ q <= stock =>
       /\ BulkQuote(l, stock, "stationSells", q) = UnitByUnit(l, stock, "stationSells", q)
       /\ BulkQuote(l, stock - q, "stationBuys", q) <= BulkQuote(l, stock, "stationSells", q)

=============================================================================
