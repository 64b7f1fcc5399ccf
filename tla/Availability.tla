------------------------------ MODULE Availability ------------------------------
(***************************************************************************)
(* Which commands the player may give now.  The same predicates answer the *)
(* handler of a command and the projection that offers it; here they are   *)
(* the guards.  Ranges are left to the caller, who may be near or far.     *)
(*                                                                         *)
(* The second half is what the player sees by it: the projections of the   *)
(* fight, the site, the encounter and the destinations, of which amounts,  *)
(* attributes and formulas are left out.                                   *)
(***************************************************************************)
EXTENDS Travel

\* activeCombatant() is not null and combatRefusal() is.
CanFight(d) == PlayerPresent(d) /\ ~CombatOf(d, d.active).destroyed

\* weaponContext() of the one turret is not null.
CanFire(d) == CanFight(d) /\ d.active \in Armed

Mine(d) == CombatOf(d, d.active)
Reloading(d) == Mine(d).weapon.reload # NoOne \/ Mine(d).weapon.pending # NoOne

IsLockable(d, t) == t \in d.objects \cap Ships

MayLock(d, t) ==
  /\ CanFight(d)
  /\ IsLockable(d, t) /\ t # d.active /\ ~CombatOf(d, t).destroyed
  /\ t \notin DOMAIN Mine(d).locks
  /\ Cardinality(DOMAIN Mine(d).locks) < MaxLocks

MayUnlock(d, t) == CanFight(d) /\ t \in DOMAIN Mine(d).locks

\* A gun that fires at one target may be aimed at another.
MayActivate(d, t) ==
  /\ CanFire(d) /\ HasCompletedLock(d, d.active, t)
  /\ ~(Mine(d).weapon.repeating /\ Mine(d).weapon.target = t)
  /\ ~Reloading(d) /\ AvailableRounds(d, d.active) > 0

MayDeactivate(d) == CanFire(d) /\ Mine(d).weapon.repeating

\* The charge a plain reload refills with: the loaded one, or the last one.
CurrentAmmunition(d) ==
  LET loaded == d.ships[d.active].loaded
  IN  IF loaded = NoAmmo THEN Mine(d).weapon.last ELSE loaded

MayReload(d) ==
  /\ CanFire(d) /\ ~Reloading(d) /\ d.ships[d.active].rounds < MagazineSize
  /\ CurrentAmmunition(d) \in CargoKinds(d, d.active)

MayChangeAmmunition(d, ammo) ==
  /\ CanFire(d) /\ ~Reloading(d)
  /\ ammo \in CargoKinds(d, d.active) /\ UnloadFits(d, d.active)

MayActivateModule(d) == CanFight(d) /\ d.active \in Equipped /\ ~Mine(d).module.repeating

MayDeactivateModule(d) ==
  PlayerPresent(d) /\ d.active \in Equipped /\ Mine(d).module.repeating

-----------------------------------------------------------------------------

MayMove(d) == d.place = "site" /\ d.site # NoOne
MayOrder(d, t) == MayMove(d) /\ t \in d.objects \ {d.active}

\* But for an open draft and a fit that may not leave, which Station is about.
MayUndock(d) == d.place = "station" /\ d.active # NoOne

MayWarp(d, site) == MayMove(d) /\ site # d.site
MayWarpTo(d, w) == MayMove(d) /\ w \in Bookmarks(d) /\ d.wrecks[w].site # d.site

\* The station last docked at is the one there is.
MayRetreat(d) == d.site # Home /\ MayWarp(d, Home)
MayDock(d) == MayMove(d) /\ Station \in d.objects

MaySelectDestination(d) == d.place = "station"
MaySelectBookmark(d, w) == d.place = "station" /\ w \in Bookmarks(d)

-----------------------------------------------------------------------------

\* wreckAccessRefusal()
MayTakeFrom(d, w) ==
  /\ d.place = "site" /\ PlayerPresent(d) /\ ~CombatOf(d, d.active).destroyed
  /\ w \in DOMAIN d.wrecks \cap d.objects /\ d.wrecks[w].site = d.site

-----------------------------------------------------------------------------
(* The tactical view. *)

\* remainingSeconds of whatever this boundary ends: one number, or none.
Remaining(d, id) == {d.queue[i].in : i \in {j \in DOMAIN d.queue : d.queue[j].id = id}}

\* The ships of the site but the player's, whose motion and defences are shown.
Others(d) == (d.objects \cap DOMAIN d.ships) \ {d.active}

\* hostileLocks(), each with its status.
LockStatus(lock) == IF lock.entry = NoOne THEN "locked" ELSE "locking"
HostileLocks(d) ==
  [s \in {o \in Others(d) : /\ ~CombatOf(d, o).destroyed
                            /\ d.active \in DOMAIN CombatOf(d, o).locks} |->
     LockStatus(CombatOf(d, s).locks[d.active])]

\* activeEffects(): a module has its effect during a cycle that is paid for.
ActiveEffects(d, s) == s \in Equipped /\ CombatOf(d, s).module.cycle # NoOne

\* defenseData()
DefenseData(d, s) ==
  [destroyed |-> CombatOf(d, s).destroyed, gone |-> d.ships[s].hullGone,
   effect |-> ActiveEffects(d, s)]

\* capacitorData(): what is switched on is projected to draw charge, if it waits too.
Draws(d) ==
  {k \in {"module", "weapon"} :
     IF k = "module" THEN d.active \in Equipped /\ Mine(d).module.repeating
     ELSE d.active \in Armed /\ Mine(d).weapon.repeating}

\* moduleData(), of an operated module that is online.
ModuleStatus(m) ==
  IF m.waiting THEN "waiting"
  ELSE IF m.cycle = NoOne THEN "inactive"
  ELSE IF m.repeating THEN "active" ELSE "deactivating"

ModuleData(d) ==
  [status |-> ModuleStatus(Mine(d).module), repeating |-> Mine(d).module.repeating,
   remaining |-> Remaining(d, Mine(d).module.cycle),
   commands |-> {c \in {"module.activate", "module.deactivate"} :
     IF c = "module.activate" THEN MayActivateModule(d) ELSE MayDeactivateModule(d)}]

\* lockData()
LockData(d, t) ==
  LET lock == Mine(d).locks[t]
  IN  [status |-> LockStatus(lock), remaining |-> Remaining(d, lock.entry),
       mayUnlock |-> MayUnlock(d, t)]

\* ammunitionOptions(): the loaded charge and each one in the hold, with what the
\* hold has of it and whether it can be changed to.
AmmunitionOptions(d) ==
  [a \in (CargoKinds(d, d.active) \cup {d.ships[d.active].loaded}) \ {NoAmmo} |->
     [rounds |-> d.ships[d.active].cargo[a], mayChange |-> MayChangeAmmunition(d, a)]]

\* weaponData().  With no target or charge named yet, an activation is offered
\* while any lock is completed, and a change while any other charge is there.
WeaponCommands(d) ==
  {c \in {"activate", "deactivate", "reload", "changeAmmunition"} :
     CASE c = "activate" ->
            ~Mine(d).weapon.repeating /\ \E t \in DOMAIN Mine(d).locks : MayActivate(d, t)
       [] c = "deactivate" -> MayDeactivate(d)
       [] c = "reload" -> MayReload(d)
       [] c = "changeAmmunition" ->
            /\ CanFire(d) /\ ~Reloading(d)
            /\ CargoKinds(d, d.active) \ {d.ships[d.active].loaded} # {}}

WeaponData(d) ==
  LET w == Mine(d).weapon
  IN  [repeating |-> w.repeating, target |-> w.target, loaded |-> d.ships[d.active].rounds,
       cycle |-> IF w.cycle = NoOne THEN {} ELSE Remaining(d, w.cycle.entry),
       reload |-> IF w.reload = NoOne THEN {} ELSE Remaining(d, w.reload.entry),
       options |-> AmmunitionOptions(d), commands |-> WeaponCommands(d)]

\* combatProjection(), with NoOne where there is no fight to show; the one turret
\* and the one operated module are shown by the ships that carry them.
TacticalView(d) ==
  IF ~PlayerPresent(d) THEN NoOne
  ELSE [locks |-> [t \in DOMAIN Mine(d).locks |-> LockData(d, t)],
        motion |-> Others(d), hostile |-> HostileLocks(d), draws |-> Draws(d),
        defenses |-> [s \in Others(d) \cup {d.active} |-> DefenseData(d, s)],
        modules |-> IF d.active \in Equipped THEN {ModuleData(d)} ELSE {},
        weapons |-> IF d.active \in Armed THEN {WeaponData(d)} ELSE {},
        lockable |-> {t \in d.objects : MayLock(d, t)}]

\* weaponTargetId(): where the weapon controls aim, given what is selected, a
\* selection of its own being one of the locked; and fireAvailability().
Aimed(view, selected) ==
  LET locked == {t \in DOMAIN view.locks : view.locks[t].status = "locked"}
  IN  IF selected \in locked THEN {selected} ELSE locked
FireOffered(view) == \E w \in view.weapons : "activate" \in w.commands

-----------------------------------------------------------------------------
(* The views of the site, of the encounter and of the destinations. *)

\* travelProjection()
TravelStatus(d) ==
  IF d.travel = NoOne THEN NoOne
  ELSE [kind |-> d.travel.kind, phase |-> d.travel.phase,
        completion |-> Remaining(d, d.travel.entry)]

\* siteCommands()
SiteCommands(d) ==
  {c \in {"undock", "move", "stop", "retreat"} :
     CASE c = "undock" -> MayUndock(d)
       [] c \in {"move", "stop"} -> MayMove(d)
       [] c = "retreat" -> MayRetreat(d)}

\* objectCommands() and objectLockCommands()
ObjectCommands(d, o) ==
  {c \in {"order", "dock", "take", "lock", "unlock"} :
     CASE c = "order" -> MayOrder(d, o)
       [] c = "dock" -> o = Station /\ MayDock(d)
       [] c = "take" -> o \in Wrecks /\ MayTakeFrom(d, o)
       [] c = "lock" -> MayLock(d, o)
       [] c = "unlock" -> MayUnlock(d, o)}

\* siteProjection(), whose order is the player's own.
SiteView(d) ==
  [objects |-> IF PlayerPresent(d) THEN [o \in d.objects |-> ObjectCommands(d, o)]
               ELSE [o \in {} |-> {}],
   order |-> IF d.active \in DOMAIN d.orders THEN d.orders[d.active] ELSE NoOne,
   travel |-> TravelStatus(d), commands |-> SiteCommands(d)]

\* instanceData()
InstanceData(d) ==
  LET npcs == d.encounter.npcs
  IN  [status |-> d.encounter.status, count |-> d.encounter.destroyed,
       complete |-> d.encounter.destroyed >= Cardinality(DOMAIN npcs),
       living |-> {s \in Surviving(d.encounter) : ~CombatOf(d, s).destroyed},
       npcs |-> DOMAIN npcs]

\* wreckData(), and the quantities wreckContentsProjection() lets be taken.
WreckData(d, w) ==
  LET room == CargoSize - Units(d.ships[d.active].cargo)
  IN  [remaining |-> Remaining(d, d.wrecks[w].entry), mayTake |-> MayTakeFrom(d, w),
       limit |-> [a \in Ammo |-> IF MayTakeFrom(d, w) THEN Min({d.wrecks[w].cargo[a], room}) ELSE 0]]

\* encounterProjection()
EncounterView(d) ==
  [instance |-> IF d.encounter = NoOne THEN NoOne ELSE InstanceData(d),
   wrecks |-> [w \in {v \in DOMAIN d.wrecks : PlayerPresent(d) /\ d.wrecks[v].site = d.site} |->
                 WreckData(d, w)]]

\* destinationsProjection() of the player's own wrecks.
BookmarkDestinations(d) ==
  [w \in Bookmarks(d) |->
     [remaining |-> Remaining(d, d.wrecks[w].entry), selected |-> d.bookmark = w,
      current |-> d.place = "site" /\ d.site = d.wrecks[w].site,
      commands |-> {c \in {"select", "warp"} :
        IF c = "select" THEN MaySelectBookmark(d, w) ELSE MayWarpTo(d, w)}]]

=============================================================================
