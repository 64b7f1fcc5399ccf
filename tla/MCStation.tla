------------------------------- MODULE MCStation -------------------------------
(* A small instance of Station for TLC, and the listings of the content. *)
EXTENDS Station

CONSTANTS gun, ammo, hull

Fixed(base) == [fixed |-> TRUE, base |-> base, target |-> 2, elasticity |-> 30, spread |-> 8,
                production |-> 0, consumption |-> 0]
Dynamic(base, target, elasticity) ==
  [Fixed(base) EXCEPT !.fixed = FALSE, !.target = target, !.elasticity = elasticity,
                      !.production = 1]

MCMaxUnits == [item \in {gun, ammo} |-> IF item = gun THEN 3 ELSE 4]
MCVolume == [item \in {gun, ammo} |-> 1]
MCListing == [item \in {gun, ammo, hull} |->
  CASE item = hull -> Fixed(10) [] item = gun -> Dynamic(10, 1, 10) [] item = ammo -> Fixed(2)]

Flight == {"ship.undock", "loss", "wreck.expire"}
Trading == {"market.buy", "market.sell", "economy.hour"}
Outfitting == {"fitting", "inventory.transfer", "resupply"}
Storage == Flight \cup {"inventory.transfer", "inventory.split", "inventory.merge",
                       "market.sell", "loot.take"}
Gunnery == Flight \cup {"fire", "resupply", "inventory.transfer"}
Refitting == {"ship.undock", "loss", "fitting"}
Rearming == {"ship.undock", "fitting", "fire"}
Recovery == Flight \cup {"market.buy", "insurance.enhance", "loot.take"}
Cover == {"ship.undock", "loss", "damage", "repair", "insurance.enhance"}

MCSessions == {Trading, Outfitting, Storage, Gunnery, Refitting, Rearming, Recovery, Cover}

\* The dynamic listings of the content: railgun, afterburner, armor repairer,
\* plating, battery, phased, iron and plasma rounds, alloy, circuitry, coolant.
MCCatalogue ==
  {Dynamic(16000, 12, 30), Dynamic(9500, 14, 30), Dynamic(8000, 16, 30), Dynamic(4000, 24, 30),
   Dynamic(6000, 18, 30), Dynamic(14, 1500, 30), Dynamic(11, 1500, 30), Dynamic(16, 1200, 30),
   Dynamic(1400, 60, 45), Dynamic(2400, 40, 50), Dynamic(300, 200, 20)}

ASSUME CatalogueIsHedged == \A l \in MCCatalogue : IsHedged(l)

=============================================================================
