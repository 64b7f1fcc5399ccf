------------------------------- MODULE Encounter -------------------------------
(***************************************************************************)
(* The encounter of the loaded site: its opponents and the decisions that  *)
(* drive them, what their destruction leaves and pays, and the wrecks,     *)
(* which belong to the site and outlive the encounter.                     *)
(***************************************************************************)
EXTENDS Combat

CONSTANTS NpcCount, NpcLoadout, DecisionTime, NpcWreckLife

ASSUME EncounterAssumption ==
  /\ NpcCount \in Nat /\ NpcCount <= Cardinality(NpcShips)
  /\ {DecisionTime, NpcWreckLife} \subseteq Nat \ {0}

\* The opponents of the instance that have not been settled as destroyed.
Surviving(encounter) == {s \in DOMAIN encounter.npcs : ~encounter.npcs[s].dead}

-----------------------------------------------------------------------------
(* Decisions. *)

\* scheduleDecision()
ScheduleDecision(d, s, delay) ==
  LET id == NewEntryId(d, "npcDecision", s)
  IN  IF d.encounter = NoOne THEN d
      ELSE IF s \notin Surviving(d.encounter) THEN d
      ELSE [Schedule(d, id, delay) EXCEPT !.encounter.npcs[s].decision = id]

\* clearDecision()
ClearDecision(d, s) ==
  IF d.encounter = NoOne THEN d
  ELSE IF s \notin DOMAIN d.encounter.npcs THEN d
  ELSE [d EXCEPT !.encounter.npcs[s].decision = NoOne]

\* readSituation() is not null: there is a player's ship to act against.
SeesThePlayer(d, s) ==
  /\ Present(d, s) /\ PlayerPresent(d) /\ ~CombatOf(d, d.active).destroyed

\* operate()
Operate(d, s, wanted, short) ==
  LET running == CombatOf(d, s).module.repeating
  IN  CASE s \notin Equipped -> d
        [] s \in Equipped /\ wanted /\ ~running -> ActivateModule(d, s, short)
        [] s \in Equipped /\ ~wanted /\ running -> DeactivateModule(d, s)
        [] OTHER -> d

\* selectNpcIntent() and apply(): "near" within lock range, "hurt" enough to repair.
Act(d, s, near, hurt, short) ==
  LET t == d.active
      hasLock == HasCompletedLock(d, s, t)
      moved == OrderMovement(d, s, [kind |-> "target", target |-> t])
      locked == IF ~hasLock /\ near /\ t \notin DOMAIN CombatOf(d, s).locks
                THEN BeginLock(moved, s, t) ELSE moved
      firing == IF hasLock /\ s \in Armed /\ ~CombatOf(d, s).weapon.repeating
                THEN ActivateWeapon(locked, s, t, short) ELSE locked
  IN  Operate(firing, s, hurt, short)

ResolveNpcDecision(d, id, near, hurt, short) ==
  LET s == id.owner
      cleared == ClearDecision(d, s)
      acted == IF SeesThePlayer(d, s) THEN Act(cleared, s, near, hurt, short) ELSE cleared
  IN  CASE d.encounter = NoOne -> d
        [] d.encounter # NoOne /\ (d.encounter.status # "active" \/ s \notin Surviving(d.encounter)) -> d
        [] OTHER -> IF CombatOf(d, s).destroyed THEN cleared
                    ELSE ScheduleDecision(acted, s, DecisionTime)

-----------------------------------------------------------------------------
(* Wrecks. *)

\* The wreck of a ship, and the boundary that expires it.
AddWreck(d, w, owner, cargo, life) ==
  LET id == NewEntryId(d, "wreckExpire", w)
  IN  [Schedule(d, id, life) EXCEPT
         !.wrecks = (w :> [owner |-> owner, site |-> d.site, cargo |-> cargo, entry |-> id]) @@ @]

\* createWreck() of an opponent, with what its loot table rolled.
CreateWreck(d, s, loot) ==
  LET w == CHOOSE x \in Fresh(d, Wrecks) : TRUE
  IN  IF d.site = NoOne \/ ~Present(d, s) THEN d
      ELSE [AddWreck(d, w, "npc", loot, NpcWreckLife) EXCEPT !.objects = @ \cup {w}]

\* materializeWrecks()
MaterializeWrecks(d) ==
  [d EXCEPT !.objects = @ \cup {w \in DOMAIN d.wrecks : d.wrecks[w].site = d.site}]

\* resolveWreckExpiry() and removeWreck(): bookmarks of it go, orders to it stay.
ResolveWreckExpiry(d, id) ==
  LET expired == {w \in DOMAIN d.wrecks : d.wrecks[w].entry = id}
      w == CHOOSE x \in expired : TRUE
      forgotten == [d EXCEPT !.wrecks = Without(@, w), !.objects = @ \ {w},
                             !.bookmark = IF @ = w THEN NoOne ELSE @]
      aimed == d.travel # NoOne /\ d.travel.kind = "warp" /\ d.travel.bookmark = w
  IN  CASE expired = {} -> d
        [] expired # {} /\ aimed -> [forgotten EXCEPT !.travel.bookmark = NoOne]
        [] OTHER -> forgotten

\* takeLoot(), of one unit: a hold without room refuses and nothing moves.
TakeLoot(d, w, ammo) ==
  [d EXCEPT !.wrecks[w].cargo[ammo] = @ - 1, !.ships[d.active].cargo[ammo] = @ + 1]

-----------------------------------------------------------------------------
(* The life of the encounter. *)

\* despawnNpc(): every order still aimed at the ship becomes a stop.
DespawnNpc(d, s) ==
  LET cleared == CancelOwnedBy(ClearDecision(ClearCombat(d, s), s), s)
  IN  [cleared EXCEPT
         !.ships = Without(@, s),
         !.objects = @ \ {s},
         !.orders = [o \in DOMAIN @ \ {s} |->
                       IF Targets(@[o]) = {s} THEN StopOrder ELSE @[o]]]

\* abandonEncounter(): opponents do not follow, wrecks stay.
AbandonEncounter(d) ==
  LET despawn(s, e) == DespawnNpc(e, s)
  IN  IF d.encounter = NoOne THEN d
      ELSE [FoldSet(despawn, d, Surviving(d.encounter)) EXCEPT !.encounter = NoOne]

\* instantiateEncounter() and createNpcShip(): all decide at once.
InstantiateEncounter(d) ==
  LET npcs == CHOOSE S \in SUBSET Fresh(d, NpcShips) : Cardinality(S) = NpcCount
      spawned == [d EXCEPT
        !.ships = [s \in npcs |-> NpcLoadout] @@ @,
        !.objects = @ \cup npcs,
        !.encounter = [status |-> "active", destroyed |-> 0, paid |-> {},
                       npcs |-> [s \in npcs |-> [dead |-> FALSE, decision |-> NoOne]]]]
      decide(s, e) == ScheduleDecision(e, s, 0)
  IN  IF d.site # Field THEN d ELSE FoldSet(decide, spawned, npcs)

\* resolveDestroyedNpc(): the wreck, the bounty once, the objective, the ship.
ResolveDestroyedNpc(d, s, loot) ==
  DespawnNpc([CreateWreck(d, s, loot) EXCEPT
    !.encounter.paid = @ \cup {s},
    !.encounter.npcs[s].dead = TRUE,
    !.encounter.destroyed = @ + 1], s)

\* completeEncounter()
CompleteEncounter(d) ==
  IF d.encounter.destroyed >= Cardinality(DOMAIN d.encounter.npcs)
  THEN [d EXCEPT !.encounter.status = "completed"] ELSE d

\* advanceEncounter()
AdvanceEncounter(d, loot) ==
  LET resolve(s, e) == IF CombatOf(e, s).destroyed THEN ResolveDestroyedNpc(e, s, loot) ELSE e
  IN  CASE d.encounter = NoOne -> d
        [] d.encounter # NoOne /\ d.encounter.status # "active" -> d
        [] OTHER -> CompleteEncounter(FoldSet(resolve, d, Surviving(d.encounter)))

=============================================================================
