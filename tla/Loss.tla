--------------------------------- MODULE Loss ---------------------------------
(***************************************************************************)
(* What the destruction of the player's ship leaves behind: a wreck with   *)
(* what survived, the encounter it was lost in, and a pilot at the station *)
(* with another ship, a granted one, or none.                              *)
(***************************************************************************)
EXTENDS Encounter

CONSTANTS PlayerWreckLife, RecoveryLoadout

ASSUME LossAssumption == PlayerWreckLife \in Nat \ {0}

\* cancelBoundariesOwnedBy() and the deletes: the ship and its site are gone.
RemovePlayerShip(d, s) ==
  [CancelOwnedBy(ClearCombat(d, s), s) EXCEPT
     !.ships = Without(@, s), !.site = NoOne, !.objects = {},
     !.travel = NoOne, !.orders = [o \in {} |-> StopOrder],
     !.place = "station", !.active = NoOne]

\* A grant when one is due, else a ship that waits here, else none.
Recover(d, grant) ==
  LET waiting == {s \in PlayerShips : s \in DOMAIN d.ships}
      given == CHOOSE s \in Fresh(d, PlayerShips) : TRUE
  IN  CASE grant -> [d EXCEPT !.ships = (given :> RecoveryLoadout) @@ @, !.active = given]
        [] ~grant /\ waiting # {} -> [d EXCEPT !.active = CHOOSE s \in waiting : TRUE]
        [] OTHER -> d

\* resolvePlayerDestruction(); "survives" when the hold makes it into the wreck.
ResolvePlayerDestruction(d, survives, grant) ==
  LET s == d.active
      w == CHOOSE x \in Fresh(d, Wrecks) : TRUE
      cargo == IF survives THEN d.ships[s].cargo ELSE EmptyHold
  IN  Recover(RemovePlayerShip(
        AbandonEncounter(AddWreck(d, w, "player", cargo, PlayerWreckLife)), s), grant)

\* advanceLoss()
AdvanceLoss(d, survives, grant) ==
  IF d.active # NoOne /\ d.place = "site" /\ PlayerPresent(d) /\ CombatOf(d, d.active).destroyed
  THEN ResolvePlayerDestruction(d, survives, grant)
  ELSE d

=============================================================================
