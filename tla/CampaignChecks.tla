----------------------------- MODULE CampaignChecks -----------------------------
(***************************************************************************)
(* The complete validation of a campaign, as far as a site can tell: what  *)
(* every save is checked against before it is stored and after it is read. *)
(* A campaign that fails it can neither be saved nor opened.               *)
(*                                                                         *)
(* What is left out has no counterpart in the draft: times that lie in the *)
(* future, identifiers that content does not resolve, and the bounded logs *)
(* of what happened.                                                       *)
(***************************************************************************)
EXTENDS Travel, Loss

-----------------------------------------------------------------------------
(* Shapes. *)

Objects == Ships \cup Wrecks \cup {Station}
EntryIds == [kind : DOMAIN Priority, owner : Ships \cup Wrecks, no : Nat \ {0}]
Optional(S) == S \cup {NoOne}

LockStates == [entry : Optional(EntryIds), outFor : Nat \cup {-1}]
CycleStates == [entry : EntryIds, target : Objects]
ReloadStates == [entry : EntryIds, ammo : Ammo]
WeaponStates ==
  [repeating : BOOLEAN, target : Optional(Objects), cycle : Optional(CycleStates),
   reload : Optional(ReloadStates), pending : Optional([ammo : Ammo, changing : BOOLEAN]),
   last : Ammo \cup {NoAmmo}]
ModuleStates == [repeating : BOOLEAN, cycle : Optional(EntryIds), waiting : BOOLEAN]
MovementOrders == {StopOrder} \cup [kind : {"target"}, target : Objects]
TravelStates ==
  [kind : {"warp"}, phase : {"aligning", "preparing", "transit"}, entry : Optional(EntryIds),
   origin : {Home, Field}, destination : {Home, Field}, bookmark : Optional(Wrecks)]
  \cup [kind : {"dock"}, phase : {"approaching", "preparing"}, entry : Optional(EntryIds)]
WreckStates ==
  [owner : {"npc", "player"}, site : {Home, Field}, cargo : [Ammo -> Nat], entry : EntryIds]

CombatShape(d) == \A s \in DOMAIN d.combat :
  LET c == d.combat[s]
  IN  /\ \A t \in DOMAIN c.locks : t \in Objects /\ c.locks[t] \in LockStates
      /\ c.weapon \in WeaponStates /\ c.module \in ModuleStates /\ c.destroyed \in BOOLEAN

NavigationShape(d) ==
  /\ d.bookmark \in Optional(Wrecks)
  /\ \A s \in DOMAIN d.orders : s \in Ships /\ d.orders[s] \in MovementOrders
  /\ d.travel \in Optional(TravelStates)
  /\ d.site \in Optional({Home, Field}) /\ d.objects \subseteq Objects

NpcStates == [dead : BOOLEAN, decision : Optional(EntryIds)]
EncounterShape(d) ==
  /\ d.encounter # NoOne =>
       /\ d.encounter.status \in {"active", "completed"}
       /\ d.encounter.destroyed \in Nat
       /\ \A s \in DOMAIN d.encounter.npcs : d.encounter.npcs[s] \in NpcStates
  /\ \A w \in DOMAIN d.wrecks : w \in Wrecks /\ d.wrecks[w] \in WreckStates

-----------------------------------------------------------------------------
(* validateCombat() *)

\* checkBoundary()
BoundaryHeld(d, id, owner, kind) ==
  id # NoOne => id \in QueuedIds(d) /\ id.owner = owner /\ id.kind = kind

\* Runtime belongs to a ship there is, and outside the site there is none but a module's.
RuntimeBelongs(d, s) ==
  /\ s \in DOMAIN d.ships
  /\ s \notin d.objects => d.combat[s].locks = NoLocks /\ d.combat[s].weapon = IdleWeapon

LocksAreValid(d, s) ==
  LET locks == d.combat[s].locks
  IN  /\ DOMAIN locks \subseteq d.objects \ {s}
      /\ s \in d.objects => Cardinality(DOMAIN locks) <= MaxLocks
      /\ \A t \in DOMAIN locks : BoundaryHeld(d, locks[t].entry, s, "lockComplete")

WeaponIsValid(d, s) ==
  LET w == d.combat[s].weapon
      targets == DOMAIN d.combat[s].locks
  IN  /\ w.cycle = NoOne \/ w.reload = NoOne
      /\ w.repeating => w.target # NoOne
      /\ w.target \in Optional(targets)
      /\ w.cycle # NoOne =>
           w.cycle.target \in targets /\ BoundaryHeld(d, w.cycle.entry, s, "weaponCycle")
      /\ w.reload # NoOne => BoundaryHeld(d, w.reload.entry, s, "reloadComplete")

ModuleIsValid(d, s) ==
  LET m == d.combat[s].module
  IN  /\ m.waiting => m.repeating /\ m.cycle = NoOne
      /\ BoundaryHeld(d, m.cycle, s, "moduleCycle")
      /\ s \in d.objects /\ m # IdleModule => s \in Equipped

DestroyedIsAtRest(d, s) ==
  LET c == d.combat[s]
  IN  c.destroyed => /\ c.locks = NoLocks
                     /\ ~c.weapon.repeating /\ c.weapon.cycle = NoOne /\ c.weapon.reload = NoOne
                     /\ ~c.module.repeating /\ c.module.cycle = NoOne /\ ~c.module.waiting

CombatIsValid(d) ==
  /\ CombatShape(d)
  /\ \A s \in DOMAIN d.combat :
       /\ RuntimeBelongs(d, s) /\ LocksAreValid(d, s) /\ WeaponIsValid(d, s)
       /\ ModuleIsValid(d, s) /\ DestroyedIsAtRest(d, s)

-----------------------------------------------------------------------------
(* validateNavigation() *)

SiteMatchesLocation(d) ==
  /\ d.place = "site" <=> d.site # NoOne
  /\ d.site # NoOne => d.active \in d.objects \cap PlayerShips

BookmarkIsOwn(d) == d.bookmark \in Optional(Bookmarks(d))

\* But for the presence of the target, which StrayTargets is about.
OrdersAreValid(d) ==
  /\ DOMAIN d.orders # {} => d.site # NoOne
  /\ \A s \in DOMAIN d.orders : s \in d.objects /\ s \notin Targets(d.orders[s])

\* What orders name and the site no longer holds; the code allows nothing here.
StrayTargets(d) == UNION {Targets(d.orders[s]) : s \in DOMAIN d.orders} \ d.objects

WarpIsValid(d, warp) ==
  /\ warp.bookmark # NoOne =>
       /\ warp.bookmark \in Bookmarks(d)
       /\ d.wrecks[warp.bookmark].site = warp.destination
  /\ IF warp.phase = "transit" THEN d.place = "warp" /\ warp.entry # NoOne
     ELSE d.site = warp.origin /\ (warp.phase = "aligning" <=> warp.entry = NoOne)

DockIsValid(d, dock) ==
  /\ d.place = "site" /\ Station \in d.objects
  /\ dock.phase = "approaching" <=> dock.entry = NoOne

TravelBoundary(travel) ==
  CASE travel.kind = "dock" -> "dockComplete"
    [] travel.kind = "warp" /\ travel.phase = "preparing" -> "warpPrepared"
    [] OTHER -> "warpArrival"

TravelIsValid(d) == d.travel # NoOne =>
  /\ IF d.travel.kind = "warp" THEN WarpIsValid(d, d.travel) ELSE DockIsValid(d, d.travel)
  /\ BoundaryHeld(d, d.travel.entry, d.active, TravelBoundary(d.travel))

NavigationIsValid(d) ==
  /\ NavigationShape(d) /\ SiteMatchesLocation(d) /\ BookmarkIsOwn(d)
  /\ OrdersAreValid(d) /\ TravelIsValid(d)

-----------------------------------------------------------------------------
(* validateEncounter() *)

ObjectiveIsValid(d) ==
  LET e == d.encounter
  IN  /\ e.destroyed = Cardinality(DOMAIN e.npcs \ Surviving(e))
      /\ d.site = Field

OpponentIsValid(d, s) ==
  LET npc == d.encounter.npcs[s]
  IN  /\ ~npc.dead <=> s \in DOMAIN d.ships
      /\ ~npc.dead => s \in d.objects
      /\ s # d.active
      /\ BoundaryHeld(d, npc.decision, s, "npcDecision")
      /\ npc.dead => npc.decision = NoOne

\* The inventory of a wreck, here its cargo, lives and dies with it.
WreckIsValid(d, w) ==
  LET wreck == d.wrecks[w]
  IN  /\ wreck.entry \in QueuedIds(d) /\ wreck.entry.kind = "wreckExpire"
      /\ w \notin DOMAIN d.ships
      /\ d.site # NoOne => (w \in d.objects <=> wreck.site = d.site)

EncounterIsValid(d) ==
  /\ EncounterShape(d)
  /\ d.encounter # NoOne =>
       ObjectiveIsValid(d) /\ \A s \in DOMAIN d.encounter.npcs : OpponentIsValid(d, s)
  /\ \A w \in DOMAIN d.wrecks : WreckIsValid(d, w)
  /\ d.objects \cap Wrecks \subseteq DOMAIN d.wrecks

-----------------------------------------------------------------------------
(* The scheduler. *)

\* validateScheduler(): no entry twice, and in the order they resolve in.
SchedulerIsValid(d) ==
  /\ Cardinality(QueuedIds(d)) = Len(d.queue)
  /\ \A i \in DOMAIN d.queue : d.queue[i].in \in Nat
  /\ \A i \in 2..Len(d.queue) :
       \/ d.queue[i - 1].in < d.queue[i].in
       \/ /\ d.queue[i - 1].in = d.queue[i].in
          /\ Priority[d.queue[i - 1].id.kind] <= Priority[d.queue[i].id.kind]

\* validateSchedulerOwnership(): a boundary nothing names would act on work that is gone.
OwnershipIsValid(d) == QueuedIds(d) \subseteq NamedEntries(d)

=============================================================================
