------------------------------ MODULE Engagement ------------------------------
(***************************************************************************)
(* Combat, encounters, travel and loss composed by the clock, as one       *)
(* state machine: the commands the player gives between two quanta, and    *)
(* the quantum loop that runs the continuous systems up to the next        *)
(* boundary, resolves every boundary due at that instant, and settles what *)
(* they staged in a pass of no length.                                     *)
(*                                                                         *)
(* A time.advance is one transaction: an error in any handler abandons the *)
(* draft, and the committed campaign stays what it was.                    *)
(***************************************************************************)
EXTENDS CampaignChecks, Availability

CONSTANTS
  Quantum,    \* simulationQuantumMs, in the units of the durations
  Loadout,    \* the ship a new campaign or a purchase comes with
  Loot,       \* the holds a loot table may roll
  Sessions    \* sets of commands; the player of a behaviour gives those of one

\* Durations are seconds and the quantum 50 ms: nothing ends where it began.
ASSUME EngagementAssumption ==
  /\ Quantum \in Nat \ {0}
  /\ \A t \in {LockTime, CycleTime, ModuleTime, ReloadTime, DecisionTime, NpcWreckLife,
               PlayerWreckLife, WarpPreparation, TransitTime, DockDuration} : Quantum <= t

VARIABLES
  draft,      \* the draft of the running transaction
  committed,  \* the campaign as last committed
  phase,      \* "idle", "interval", "batch" or "abandoned": where the loop stands
  left,       \* simulation time left of the quantum
  offers      \* the session played

vars == <<draft, committed, phase, left, offers>>

-----------------------------------------------------------------------------
(* What the world decides, rather than the code: geometry, charge, dice.   *)
(* The ships of a site are all near each other or all far apart.           *)

LockPairs(d) == UNION {{<<s, t>> : t \in DOMAIN d.combat[s].locks} : s \in DOMAIN d.combat}
Payers(d) == {s \in DOMAIN d.combat : d.combat[s].weapon.repeating \/ d.combat[s].module.repeating}
Maybe(condition) == IF condition THEN BOOLEAN ELSE {FALSE}

\* Ships of the site that the pass to come will find without hull.
Doomed(d) == {s \in d.objects \cap DOMAIN d.ships : d.ships[s].hullGone}

Chances(d, passes) ==
  [far: IF passes THEN {{}, LockPairs(d)} ELSE {{}},
   short: SUBSET Payers(d),
   ready: Maybe(passes /\ d.travel # NoOne /\ d.place = "site"),
   loot: IF Doomed(d) \subseteq {d.active} THEN {EmptyHold} ELSE Loot,
   survives: Maybe(d.active \in Doomed(d)),
   grant: Maybe(d.active \in Doomed(d) /\ Fresh(d, PlayerShips) # {})]

\* continuousSystems, in their order; the market's part of it is elsewhere.
Systems(d, time, c) ==
  AdvanceLoss(
    AdvanceEncounter(
      AdvanceCombat(AdvanceNavigation(d, time, c.ready), time, c.far, c.short),
      c.loot),
    c.survives, c.grant)

\* A shot may take the last of a hull as long as the wreck has an identity left.
MayKill(d) == Cardinality(Fresh(d, Wrecks)) > Cardinality(Doomed(d))

\* The outcomes of one boundary, by the handler its kind is keyed to.
Outcomes(d, id) ==
  CASE id.kind = "lockComplete" -> {ResolveLockComplete(d, id, grew) : grew \in BOOLEAN}
    [] id.kind = "weaponCycle" ->
         {ResolveWeaponCycle(d, id, kills) : kills \in Maybe(MayKill(d))}
    [] id.kind = "reloadComplete" -> {ResolveReloadComplete(d, id)}
    [] id.kind = "moduleCycle" -> {ResolveModuleCycle(d, id)}
    [] id.kind = "npcDecision" ->
         {ResolveNpcDecision(d, id, near, hurt, {}) : near \in BOOLEAN, hurt \in BOOLEAN}
    [] id.kind = "wreckExpire" -> {ResolveWreckExpiry(d, id)}
    [] id.kind = "warpPrepared" -> {ResolveWarpPrepared(d, id, ready) : ready \in BOOLEAN}
    [] id.kind = "warpArrival" -> {ResolveWarpArrival(d, id)}
    [] id.kind = "dockComplete" -> {ResolveDockComplete(d, id, ready) : ready \in BOOLEAN}

-----------------------------------------------------------------------------
(* The quantum loop, resolveThrough(). *)

AtRest == phase \in {"idle", "abandoned"}

\* Where the loop goes on from a draft: not at all, at the same instant, or later.
Continue(d, time) ==
  IF d.failed
  THEN /\ draft' = committed /\ phase' = "abandoned" /\ left' = 0
       /\ UNCHANGED <<committed, offers>>
  ELSE /\ draft' = d /\ left' = time /\ UNCHANGED offers
       /\ phase' = IF Due(d) THEN "batch" ELSE IF time = 0 THEN "idle" ELSE "interval"
       /\ committed' = IF Due(d) \/ time > 0 THEN committed ELSE d

\* The continuous systems, to the next boundary or to the end of the quantum,
\* which an accepted time.advance begins.
Interval ==
  LET rest == IF AtRest THEN Quantum ELSE left
      step == IF draft.queue # <<>> /\ Head(draft.queue).in <= rest
              THEN Head(draft.queue).in ELSE rest
  IN  /\ phase # "batch"
      /\ \E c \in Chances(draft, TRUE) :
           Continue(Elapse(Systems(draft, step, c), step), rest - step)

\* One boundary; the last one of its instant is followed by the pass of no length.
Boundary ==
  LET id == Head(draft.queue).id
      taken == [draft EXCEPT !.queue = Tail(@)]
  IN  /\ phase = "batch"
      /\ \E d \in Outcomes(taken, id) :
           IF Due(d) \/ d.failed THEN Continue(d, left)
           ELSE \E c \in Chances(d, FALSE) : Continue(Systems(d, 0, c), left)

-----------------------------------------------------------------------------
(* The commands, each refused as its availability predicate refuses it.    *)

Command(name, d) ==
  /\ AtRest /\ name \in offers /\ ~d.failed
  /\ draft' = d /\ committed' = d
  /\ phase' = "idle" /\ UNCHANGED <<left, offers>>

Lock == \E t \in draft.objects :
  MayLock(draft, t) /\ Command("targeting.lock", BeginLock(draft, draft.active, t))

Unlock == \E t \in draft.objects :
  MayUnlock(draft, t) /\ Command("targeting.unlock", ReleaseLock(draft, draft.active, t))

Activate == \E t \in draft.objects :
  MayActivate(draft, t) /\ Command("weapon.activate", ActivateWeapon(draft, draft.active, t, {}))

Deactivate ==
  MayDeactivate(draft) /\ Command("weapon.deactivate", DeactivateWeapon(draft, draft.active))

Reload ==
  /\ MayReload(draft)
  /\ Command("weapon.reload",
             RequestReload(draft, draft.active, CurrentAmmunition(draft), FALSE))

ChangeAmmunition == \E ammo \in Ammo :
  /\ MayChangeAmmunition(draft, ammo)
  /\ Command("weapon.changeAmmunition", RequestReload(draft, draft.active, ammo, TRUE))

ActivateOwnModule == \E short \in SUBSET ({draft.active} \ {NoOne}) :
  /\ MayActivateModule(draft)
  /\ Command("module.activate", ActivateModule(draft, draft.active, short))

DeactivateOwnModule ==
  MayDeactivateModule(draft) /\ Command("module.deactivate", DeactivateModule(draft, draft.active))

Take == \E w \in Wrecks, ammo \in Ammo :
  /\ MayTakeFrom(draft, w) /\ draft.wrecks[w].cargo[ammo] > 0
  /\ Units(draft.ships[draft.active].cargo) < CargoSize
  /\ Command("loot.take", TakeLoot(draft, w, ammo))

OrderTarget == \E t \in draft.objects :
  /\ MayOrder(draft, t)
  /\ Command("movement.approach", ReplaceOrder(draft, [kind |-> "target", target |-> t]))

Stop == MayMove(draft) /\ Command("movement.stop", ReplaceOrder(draft, StopOrder))

BeginWarp == \E site \in {Home, Field} :
  /\ MayWarp(draft, site)
  /\ Command("navigation.warp", StartTravel(draft, Warp(draft.site, site, NoOne)))

Retreat ==
  /\ MayRetreat(draft)
  /\ Command("navigation.retreat", StartTravel(draft, Warp(draft.site, Home, NoOne)))

WarpToBookmark == \E w \in Wrecks :
  /\ MayWarpTo(draft, w)
  /\ Command("navigation.warpToBookmark",
             StartTravel(draft, Warp(draft.site, draft.wrecks[w].site, w)))

DockAtStation == MayDock(draft) /\ Command("navigation.dock", StartTravel(draft, Dock))

UndockShip == MayUndock(draft) /\ Command("ship.undock", Undock(draft))

SelectBookmark == \E w \in Wrecks :
  /\ MaySelectBookmark(draft, w)
  /\ Command("navigation.selectBookmark", [draft EXCEPT !.bookmark = w])

SelectDestination ==
  /\ MaySelectDestination(draft)
  /\ Command("navigation.selectDestination", [draft EXCEPT !.bookmark = NoOne])

\* Trade, repair and fitting at the station, as far as the site can tell.
ServeShip ==
  /\ draft.place = "station" /\ draft.active # NoOne
  /\ Command("station.service", [draft EXCEPT !.ships[draft.active] = Loadout])

\* A ship bought, or granted to a pilot who has none: the first one is flown.
AcquireShip == \E s \in Fresh(draft, PlayerShips) :
  /\ draft.place = "station"
  /\ Command("station.acquireShip",
       [draft EXCEPT !.ships = (s :> Loadout) @@ @,
                     !.active = IF @ = NoOne THEN s ELSE @])

-----------------------------------------------------------------------------

Init ==
  /\ LET s == CHOOSE x \in PlayerShips : TRUE
     IN  draft = [ships |-> (s :> Loadout), objects |-> {}, site |-> NoOne, place |-> "station",
                active |-> s, orders |-> [o \in {} |-> StopOrder], travel |-> NoOne,
                encounter |-> NoOne, wrecks |-> [w \in {} |-> NoOne], queue |-> <<>>,
                combat |-> [c \in {} |-> NoCombat], bookmark |-> NoOne, failed |-> FALSE]
  /\ committed = draft /\ phase = "idle" /\ left = 0 /\ offers \in Sessions

Next ==
  \/ Interval \/ Boundary
  \/ Lock \/ Unlock \/ Activate \/ Deactivate \/ Reload \/ ChangeAmmunition
  \/ ActivateOwnModule \/ DeactivateOwnModule \/ Take
  \/ OrderTarget \/ Stop \/ BeginWarp \/ Retreat \/ WarpToBookmark \/ DockAtStation \/ UndockShip
  \/ SelectBookmark \/ SelectDestination \/ ServeShip \/ AcquireShip

Spec == Init /\ [][Next]_vars

-----------------------------------------------------------------------------
(* What a committed campaign must satisfy to be one that loads again. *)

\* What validateCombat() asks of a saved campaign, and of the magazines and holds:
\* none holds more than its size or two things at once, no operation of a ship
\* names a target it does not hold, a boundary that will never come, or two
\* things at once.
MagazinesAndHolds == \A s \in DOMAIN committed.ships :
  LET ship == committed.ships[s]
  IN  /\ ship.rounds \in 0..MagazineSize
      /\ ship.rounds = 0 <=> ship.loaded = NoAmmo
      /\ Units(ship.cargo) <= CargoSize

CombatConsistent == MagazinesAndHolds /\ CombatIsValid(committed)

\* What validateNavigation() and validateEncounter() ask, but that an order may
\* name a wreck that has just expired: a loaded site exactly while in one, travel
\* in the phase its place and its boundary say, bookmarks that are unexpired wrecks of the
\* player, an objective that counts the dead and is
\* completed with the last, survivors with their ship, place
\* and decision, and no opponent outside the encounter.
SiteIsConsistent ==
  /\ NavigationIsValid(committed) /\ EncounterIsValid(committed)
  /\ StrayTargets(committed) \subseteq Wrecks
  /\ committed.encounter # NoOne =>
       (committed.encounter.status = "completed" <=> Surviving(committed.encounter) = {})
  /\ DOMAIN committed.ships \cap NpcShips \subseteq
       (IF committed.encounter = NoOne THEN {} ELSE DOMAIN committed.encounter.npcs)

\* The scheduler's own checks, in both directions: entries in the order they
\* resolve in, and none that nothing in the campaign names.
BoundariesAreOwned == SchedulerIsValid(committed) /\ OwnershipIsValid(committed)

\* A committed campaign is one that the full validation accepts, so that it can be
\* saved and opened again, however locks, cycles, reloads, deaths, expiries and
\* departures interleaved; nothing that is due later is left without its cause.
CampaignIsValid == CombatConsistent /\ SiteIsConsistent /\ BoundariesAreOwned

-----------------------------------------------------------------------------
(* What the game promises. *)

\* Nothing that repeats stands still for ever: a gun that is on has a cycle or a
\* reload under way, a module that is on runs or waits for charge, every survivor
\* of a running encounter has its next decision queued, and a reload asked for
\* behind a cycle that was then cancelled has such a boundary to start at.
NothingStalls ==
  /\ \A s \in DOMAIN committed.combat :
       LET c == committed.combat[s]
       IN  /\ c.weapon.repeating => c.weapon.cycle # NoOne \/ c.weapon.reload # NoOne
           /\ c.weapon.pending # NoOne =>
                c.weapon.cycle # NoOne \/ \E i \in DOMAIN committed.queue :
                                            committed.queue[i].id.kind = "npcDecision"
           /\ c.module.repeating => c.module.cycle # NoOne \/ c.module.waiting
  /\ committed.encounter # NoOne =>
       \A s \in Surviving(committed.encounter) : 
         committed.encounter.npcs[s].decision \in QueuedIds(committed)

\* A countdown of the page: one number, and no further away than its full time.
Counts(shown, full) == \E n \in 1..full : shown = {n}

\* What the tactical view shows as under way counts down to an end that is
\* queued, what is switched on is shown running or waiting, every ship it shows
\* locked or locking is one whose motion and defences it shows too, none of them
\* a wreck yet, and where it offers to fire, whatever is selected, the engine
\* accepts the target that the controls aim at.
FightIsShown ==
  LET view == TacticalView(committed)
  IN  view # NoOne =>
        /\ DOMAIN view.locks \cup DOMAIN view.hostile \subseteq view.motion
        /\ \A s \in DOMAIN view.defenses : ~view.defenses[s].destroyed /\ ~view.defenses[s].gone
        /\ \A t \in DOMAIN view.locks :
             IF view.locks[t].status = "locking" THEN Counts(view.locks[t].remaining, LockTime)
             ELSE view.locks[t].remaining = {}
        /\ \A m \in view.modules :
             /\ m.repeating <=> m.status \in {"active", "waiting"}
             /\ IF m.status \in {"active", "deactivating"} THEN Counts(m.remaining, ModuleTime)
                ELSE m.remaining = {}
        /\ \A w \in view.weapons :
             /\ w.repeating => Counts(w.cycle, CycleTime) \/ Counts(w.reload, ReloadTime)
             /\ w.cycle = {} \/ w.reload = {}
             /\ w.cycle # {} => w.loaded > 0
        /\ FireOffered(view) =>
             \A selected \in committed.objects : \A t \in Aimed(view, selected) :
               MayActivate(committed, t)

\* The views of one revision agree: the opponents the encounter lists as alive are
\* the ships the tactical view shows and none else, the objective counts the
\* others and says completed with the last, the wrecks listed are those in the
\* site, each with time left, a travel that prepares or is on its way says when it
\* ends, and what an order or a selection names is there to be named.
ViewsAgree ==
  LET site  == SiteView(committed)
      fight == TacticalView(committed)
      enc   == EncounterView(committed)
      marks == BookmarkDestinations(committed)
  IN  /\ DOMAIN enc.wrecks = DOMAIN site.objects \cap Wrecks
      /\ \A w \in DOMAIN enc.wrecks :
           Counts(enc.wrecks[w].remaining, IF w \in DOMAIN marks THEN PlayerWreckLife ELSE NpcWreckLife)
      /\ \A w \in DOMAIN marks :
           Counts(marks[w].remaining, PlayerWreckLife)
      /\ committed.bookmark # NoOne => \E w \in DOMAIN marks : marks[w].selected
      /\ enc.instance # NoOne =>
           /\ fight # NoOne /\ enc.instance.living = fight.motion
           /\ enc.instance.count = Cardinality(enc.instance.npcs \ enc.instance.living)
           /\ enc.instance.complete <=> enc.instance.status = "completed"
      /\ enc.instance = NoOne /\ fight # NoOne => fight.motion = {}
      /\ site.travel # NoOne =>
           IF site.travel.phase \in {"aligning", "approaching"} THEN site.travel.completion = {}
           ELSE \E full \in {WarpPreparation, TransitTime, DockDuration} :
                  Counts(site.travel.completion, full)
      /\ site.order # NoOne => Targets(site.order) \subseteq DOMAIN site.objects \cup Wrecks

\* The player is told what goes on: nothing stands still that is shown as on, and
\* the projections of one revision hold together, whatever ended, expired or left.
\* A query is served between two transactions (engineHost.ts:141-155).
ViewsAreTrue == AtRest => NothingStalls /\ FightIsShown /\ ViewsAgree

\* The round a running cycle reserved is in the magazine, of the kind the cycle
\* was started with, until the cycle ends: no reload or change of ammunition,
\* asked for or automatic, takes it away.
RoundIsReserved == \A s \in DOMAIN draft.combat :
  draft.combat[s].weapon.cycle # NoOne =>
    draft.ships[s].rounds > 0 /\ draft.ships[s].loaded = draft.combat[s].weapon.last

\* Between two quanta no death is left unsettled: a ship without hull is out of
\* the site, its wreck made and its locks released.
DestructionIsSettled ==
  /\ \A s \in DOMAIN committed.combat : ~committed.combat[s].destroyed
  /\ Doomed(committed) = {}

\* Every opponent counted as destroyed in a step is paid for once, then, and
\* leaves a wreck of its own with its whole life before it.
NewlyDead(d, e) ==
  {s \in DOMAIN d.encounter.npcs : ~d.encounter.npcs[s].dead /\ e.encounter.npcs[s].dead}
NewWrecks(d) ==
  {w \in DOMAIN d.wrecks : d.wrecks[w].owner = "npc" /\
     \E i \in DOMAIN d.queue : d.queue[i] = [id |-> d.wrecks[w].entry, in |-> NpcWreckLife]}
KillsAreRewarded ==
  (draft.encounter # NoOne /\ draft'.encounter # NoOne
     /\ DOMAIN draft.encounter.npcs = DOMAIN draft'.encounter.npcs) =>
    LET dead == NewlyDead(draft, draft')
    IN  /\ draft'.encounter.paid = draft.encounter.paid \cup dead
        /\ dead \cap draft.encounter.paid = {}
        /\ Cardinality(NewWrecks(draft')) >= Cardinality(dead)

\* A hull lost to one shot does not undo the shots that complete at the same
\* instant: resolving a weapon cycle cancels no other boundary that is due.
DestructionWaits ==
  (phase = "batch" /\ phase' = "batch" /\ Head(draft.queue).id.kind = "weaponCycle") =>
    \A i \in DOMAIN draft.queue \ {1} :
      draft.queue[i].in = 0 => draft.queue[i].id \in QueuedIds(draft')

\* No step of a battle cheats: ships that shoot each other down at one instant
\* both get their shot, and every kill is rewarded once, however many passes of
\* the systems look at it.
DeathsAreFair == [][DestructionWaits /\ KillsAreRewarded]_vars

\* No handler of a boundary throws, so no advance of time is abandoned.
NoAdvanceIsAbandoned == phase # "abandoned"

=============================================================================
