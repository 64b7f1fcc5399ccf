------------------------------ MODULE MCEngagement ------------------------------
(* Small instances of Engagement for TLC. *)
EXTENDS Engagement

CONSTANTS p1, p2, n1, n2, w1, w2

Hold(first, second) == [a \in Ammo |-> IF a = 1 THEN first ELSE second]

MCLoadout == [hullGone |-> FALSE, loaded |-> 1, rounds |-> 1, cargo |-> Hold(1, 1)]
MCNpcLoadout == [hullGone |-> FALSE, loaded |-> 1, rounds |-> 1, cargo |-> Hold(0, 0)]
MCLoot == {Hold(1, 0)}

\* Two rounds in the magazine and one of another kind in a hold of two.
FullMagazine == [hullGone |-> FALSE, loaded |-> 1, rounds |-> 2, cargo |-> Hold(0, 1)]

Journey == {"ship.undock", "navigation.warp"}
Gunnery == Journey \cup
  {"targeting.lock", "targeting.unlock", "weapon.activate", "weapon.deactivate",
   "weapon.reload", "weapon.changeAmmunition"}
Operation == Journey \cup
  {"targeting.lock", "module.activate", "module.deactivate"}
Voyage == Journey \cup
  {"movement.approach", "movement.stop", "navigation.warpToBookmark", "navigation.dock",
   "navigation.retreat",
   "navigation.selectBookmark", "navigation.selectDestination", "loot.take",
   "station.service", "station.acquireShip"}
Raid == Journey \cup
  {"targeting.lock", "weapon.activate", "navigation.dock", "movement.approach", "loot.take"}

Plunder == Journey \cup
  {"targeting.lock", "targeting.unlock", "weapon.activate", "weapon.changeAmmunition",
   "loot.take"}

MCSessions == {Gunnery, Operation, Voyage, Raid}
PlunderOnly == {Plunder}

=============================================================================
