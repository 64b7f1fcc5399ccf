-------------------------------- MODULE Combat --------------------------------
(***************************************************************************)
(* Locks, turret cycles, reloads and active modules of every ship in the   *)
(* loaded site, the player's and the opponents' alike.  Each long action   *)
(* is a boundary of the queue; the operators here start, cancel, resolve   *)
(* and repeat them.                                                        *)
(*                                                                         *)
(* "short" is the set of ships whose capacitor cannot pay for a cycle now. *)
(***************************************************************************)
EXTENDS SimulationDraft

CONSTANTS LockTime, GraceTime, CycleTime, ModuleTime, ReloadTime

ASSUME CombatAssumption ==
  /\ {LockTime, CycleTime, ModuleTime, ReloadTime} \subseteq Nat \ {0}
  /\ GraceTime \in Nat

-----------------------------------------------------------------------------
(* Ammunition: the magazine of a turret and the hold it reloads from. *)

\* WeaponContext.availableRounds: the round of a running cycle is spoken for.
AvailableRounds(d, s) ==
  d.ships[s].rounds - (IF CombatOf(d, s).weapon.cycle = NoOne THEN 0 ELSE 1)

\* compatibleCargoAmmunition(); every kind fits the one turret modelled.
CargoKinds(d, s) == {a \in Ammo : d.ships[s].cargo[a] > 0}

\* The preferred kind when the hold carries it, else the first that it does.
Choice(preferred, kinds) == IF preferred \in kinds THEN preferred ELSE Min(kinds)

\* unloadFits()
UnloadFits(d, s) == Units(d.ships[s].cargo) + d.ships[s].rounds <= CargoSize

\* transferAs() of the magazine into the hold, which throws without room.
Unload(d, s) ==
  IF UnloadFits(d, s)
  THEN [d EXCEPT !.ships[s].cargo[d.ships[s].loaded] = @ + d.ships[s].rounds,
                 !.ships[s].rounds = 0, !.ships[s].loaded = NoAmmo]
  ELSE [d EXCEPT !.failed = TRUE]

\* beginReload()
BeginReload(d, s, ammo, changing) ==
  IF ~(Present(d, s) /\ s \in Armed) THEN d
  ELSE LET ship == d.ships[s]
           unloaded == IF changing /\ ship.rounds > 0 /\ ship.loaded # ammo
                       THEN Unload(d, s) ELSE d
           id == NewEntryId(unloaded, "reloadComplete", s)
       IN  SetWeapon(Schedule(unloaded, id, ReloadTime), s,
             [CombatOf(unloaded, s).weapon EXCEPT
                !.pending = NoOne,
                !.reload = [entry |-> id, ammo |-> ammo]])

\* loadMagazine(): how many rounds of one kind move in; none over another kind.
LoadedBy(d, s, ammo) ==
  IF d.ships[s].loaded \in {NoAmmo, ammo}
  THEN Min({MagazineSize - d.ships[s].rounds, d.ships[s].cargo[ammo]})
  ELSE 0

LoadMagazine(d, s, ammo) ==
  LET taken == LoadedBy(d, s, ammo)
  IN  IF taken = 0 THEN d
      ELSE [d EXCEPT !.ships[s].rounds = @ + taken, !.ships[s].loaded = ammo,
                     !.ships[s].cargo[ammo] = @ - taken]

\* consumeRound(): an emptied stack is gone, and with it the kind it was of.
ConsumeRound(d, s) ==
  IF d.ships[s].rounds = 0 THEN d
  ELSE [d EXCEPT !.ships[s].rounds = @ - 1,
                 !.ships[s].loaded = IF d.ships[s].rounds = 1 THEN NoAmmo ELSE @]

-----------------------------------------------------------------------------
(* Stopping. *)

\* reloadIfEmpty(): a gun that stops for want of a target does not stay empty.
ReloadIfEmpty(d, s) ==
  LET w == CombatOf(d, s).weapon
  IN  IF /\ Present(d, s) /\ s \in Armed
         /\ ~CombatOf(d, s).destroyed
         /\ d.ships[s].rounds = 0
         /\ w.reload = NoOne /\ w.pending = NoOne /\ w.cycle = NoOne
         /\ CargoKinds(d, s) # {}
      THEN BeginReload(d, s, Choice(w.last, CargoKinds(d, s)), FALSE)
      ELSE d

\* stopWeapon() for want of rounds or charge.
StopWeapon(d, s) ==
  SetWeapon(d, s, [CombatOf(d, s).weapon EXCEPT !.repeating = FALSE, !.target = NoOne])

\* stopWeapon() because the lock or its target is gone.
StopWeaponForTarget(d, s) == ReloadIfEmpty(StopWeapon(d, s), s)

\* stopWeaponsTargeting()
StopWeaponsTargeting(d, s, t) ==
  LET w == CombatOf(d, s).weapon
      cancelled == IF w.cycle = NoOne THEN d ELSE Cancel(d, {w.cycle.entry})
  IN  IF t # NoOne /\ w.target = t
      THEN StopWeaponForTarget(SetWeapon(cancelled, s, [w EXCEPT !.cycle = NoOne]), s)
      ELSE d

\* Cancels a lock's boundary, stops what fires through it and forgets it.
DropLock(d, s, t) ==
  LET cancelled == Cancel(d, {CombatOf(d, s).locks[t].entry})
  IN  SetLocks(StopWeaponsTargeting(cancelled, s, t), s, Without(CombatOf(d, s).locks, t))

\* Wrong on purpose: a reload in flight is forgotten, not cancelled.
ClearCombatButReload(d, s) ==
  [Cancel(d, {id \in NamedByCombat(CombatOf(d, s)) \ {NoOne} : id.kind # "reloadComplete"})
     EXCEPT !.combat = Without(@, s)]

\* clearCombat(): the ship leaves the site with no lock, cycle or reload.
ClearCombat(d, s) ==
  [Cancel(d, NamedByCombat(CombatOf(d, s))) EXCEPT !.combat = Without(@, s)]

\* stopAllOperationsForDestruction(), and the locks others hold on the ship.
Destroy(d, s) ==
  LET c == CombatOf(d, s)
      ended == [locks |-> NoLocks, module |-> IdleModule, destroyed |-> TRUE,
                weapon |-> [IdleWeapon EXCEPT !.last = c.weapon.last]]
      drop(a, e) == IF a # s /\ s \in DOMAIN CombatOf(e, a).locks THEN DropLock(e, a, s) ELSE e
      stopped == SetCombat(Cancel(d, NamedByCombat(c)), s, ended)
  IN  FoldSet(drop, stopped, DOMAIN stopped.combat)

-----------------------------------------------------------------------------
(* Starting. *)

Locked(d, s) == {t \in DOMAIN CombatOf(d, s).locks : HasCompletedLock(d, s, t)}

\* startNextCycle()
StartNextCycle(d, s, short) ==
  LET w == CombatOf(d, s).weapon
      ship == d.ships[s]
      id == NewEntryId(d, "weaponCycle", s)
  IN  CASE ~(Present(d, s) /\ s \in Armed) -> d
        [] w.pending # NoOne ->
             IF w.cycle # NoOne THEN d
             ELSE BeginReload(SetWeapon(d, s, [w EXCEPT !.pending = NoOne]), s,
                              w.pending.ammo, w.pending.changing)
        [] w.pending = NoOne /\ (~w.repeating \/ w.reload # NoOne \/ w.cycle # NoOne) -> d
        [] OTHER ->
             CASE w.target \notin Locked(d, s) -> StopWeaponForTarget(d, s)
               [] w.target \in Locked(d, s) /\ ship.rounds = 0 ->
                    IF CargoKinds(d, s) = {} THEN StopWeapon(d, s)
                    ELSE BeginReload(d, s,
                           Choice(IF ship.loaded = NoAmmo THEN w.last ELSE ship.loaded,
                                  CargoKinds(d, s)), FALSE)
               [] w.target \in Locked(d, s) /\ ship.rounds > 0 /\ s \in short -> StopWeapon(d, s)
               [] OTHER ->
                    SetWeapon(Schedule(d, id, CycleTime), s,
                      [w EXCEPT !.cycle = [entry |-> id, target |-> w.target],
                                !.last = ship.loaded])

\* Wrong on purpose: a module that cannot pay does not say that it waits.
StartNextModuleCycleUnmarked(d, s, short, offset) ==
  LET m == CombatOf(d, s).module
      id == NewEntryId(d, "moduleCycle", s)
  IN  IF \/ ~(Present(d, s) /\ s \in Equipped) \/ CombatOf(d, s).destroyed
         \/ ~m.repeating \/ m.cycle # NoOne \/ s \in short
      THEN d
      ELSE SetModule(Schedule(d, id, offset + ModuleTime), s, [m EXCEPT !.cycle = id])

\* startNextModuleCycle(); "offset" is how far ahead of the clock it starts.
StartNextModuleCycle(d, s, short, offset) ==
  LET m == CombatOf(d, s).module
      id == NewEntryId(d, "moduleCycle", s)
  IN  CASE \/ ~(Present(d, s) /\ s \in Equipped) \/ CombatOf(d, s).destroyed
           \/ ~m.repeating \/ m.cycle # NoOne -> d
        [] s \in short -> SetModule(d, s, [m EXCEPT !.waiting = TRUE])
        [] OTHER -> SetModule(Schedule(d, id, offset + ModuleTime), s,
                              [m EXCEPT !.cycle = id, !.waiting = FALSE])

\* startEligibleRepeatingActions(): what repeats goes on, after destruction.
StartEligible(d, short) ==
  LET next(s, e) == IF CombatOf(e, s).destroyed THEN e
                    ELSE StartNextModuleCycle(StartNextCycle(e, s, short), s, short, 0)
  IN  FoldSet(next, d, DOMAIN d.combat)

\* retryWaitingModules(), at the end of an interval that is "time" long.
RetryWaiting(d, short, time) ==
  LET retry(s, e) == IF CombatOf(e, s).module.waiting
                     THEN StartNextModuleCycle(e, s, short, time) ELSE e
  IN  FoldSet(retry, d, DOMAIN d.combat)

-----------------------------------------------------------------------------
(* The operations of the commands and of the opponents. *)

BeginLock(d, s, t) ==
  LET id == NewEntryId(d, "lockComplete", s)
      lock == [entry |-> id, outFor |-> -1]
  IN  IF ~(Present(d, s) /\ t \in d.objects) THEN d
      ELSE Touch(SetLocks(Schedule(d, id, LockTime), s, (t :> lock) @@ CombatOf(d, s).locks), s)

ReleaseLock(d, s, t) == Touch(DropLock(d, s, t), s)

\* activateWeapon(): re-aiming abandons the cycle in flight.
ActivateWeapon(d, s, t, short) ==
  LET w == CombatOf(d, s).weapon
      reaimed == w.cycle # NoOne /\ w.cycle.target # t
      kept == IF reaimed THEN Cancel(d, {w.cycle.entry}) ELSE d
      aimed == [w EXCEPT !.cycle = IF reaimed THEN NoOne ELSE @,
                         !.repeating = TRUE, !.target = t]
  IN  IF ~(Present(d, s) /\ s \in Armed) THEN d
      ELSE Touch(StartNextCycle(SetWeapon(kept, s, aimed), s, short), s)

DeactivateWeapon(d, s) ==
  Touch(SetWeapon(d, s, [CombatOf(d, s).weapon EXCEPT !.repeating = FALSE]), s)

\* Wrong on purpose: the running cycle is not waited for.
RequestReloadAtOnce(d, s, ammo, changing) == Touch(BeginReload(d, s, ammo, changing), s)

\* requestReload(): behind the running cycle, or at once.
RequestReload(d, s, ammo, changing) ==
  LET w == CombatOf(d, s).weapon
  IN  Touch(IF w.cycle # NoOne
            THEN SetWeapon(d, s, [w EXCEPT !.pending = [ammo |-> ammo, changing |-> changing]])
            ELSE BeginReload(d, s, ammo, changing), s)

ActivateModule(d, s, short) ==
  LET m == CombatOf(d, s).module
  IN  IF ~(Present(d, s) /\ s \in Equipped) THEN d
      ELSE Touch(StartNextModuleCycle(
             SetModule(d, s, [m EXCEPT !.repeating = TRUE, !.waiting = FALSE]), s, short, 0), s)

DeactivateModule(d, s) ==
  LET m == CombatOf(d, s).module
  IN  IF ~(Present(d, s) /\ s \in Equipped) THEN d
      ELSE Touch(SetModule(d, s, [m EXCEPT !.repeating = FALSE, !.waiting = FALSE]), s)

-----------------------------------------------------------------------------
(* The boundaries. *)

\* resolveLockComplete(); "grew" when the lock takes longer than was thought.
ResolveLockComplete(d, id, grew) ==
  LET s == id.owner
      locks == CombatOf(d, s).locks
      mine == {t \in DOMAIN locks : locks[t].entry = id}
      again == NewEntryId(d, "lockComplete", s)
  IN  IF ~Present(d, s) \/ mine = {} THEN d
      ELSE LET t == CHOOSE x \in mine : TRUE
           IN  CASE t \notin d.objects ->
                      Touch(StopWeaponsTargeting(SetLocks(d, s, Without(locks, t)), s, t), s)
                 [] t \in d.objects /\ grew ->
                      SetLocks(Schedule(d, again, 1), s, [locks EXCEPT ![t].entry = again])
                 [] OTHER -> SetLocks(d, s, [locks EXCEPT ![t].entry = NoOne])

\* Whether the cycle of this boundary ends in a shot.
ShotIsFired(d, id) ==
  LET s == id.owner
      cycle == CombatOf(d, s).weapon.cycle
  IN  /\ Present(d, s) /\ s \in Armed
      /\ cycle # NoOne /\ cycle.entry = id
      /\ cycle.target \in d.objects /\ HasCompletedLock(d, s, cycle.target)

\* Wrong on purpose: a ship is destroyed by the shot, ahead of its own.
ResolveWeaponCycleAtOnce(d, id, kills) ==
  LET s == id.owner
      w == CombatOf(d, s).weapon
      fired == ConsumeRound(SetWeapon(d, s, [w EXCEPT !.cycle = NoOne]), s)
  IN  IF ~ShotIsFired(d, id) THEN d
      ELSE IF kills THEN Destroy([fired EXCEPT !.ships[w.cycle.target].hullGone = TRUE], w.cycle.target)
      ELSE fired

\* resolveWeaponCycle(); "kills" when the shot takes the last of the hull.
ResolveWeaponCycle(d, id, kills) ==
  LET s == id.owner
      w == CombatOf(d, s).weapon
      over == SetWeapon(d, s, [w EXCEPT !.cycle = NoOne])
      fired == ConsumeRound(over, s)
  IN  CASE ~Present(d, s) \/ w.cycle = NoOne -> d
        [] w.cycle # NoOne /\ w.cycle.entry # id -> d
        [] ~ShotIsFired(d, id) -> Touch(StopWeaponForTarget(over, s), s)
        [] OTHER -> IF kills /\ w.cycle.target \in DOMAIN d.ships
                          /\ ~CombatOf(d, w.cycle.target).destroyed
                    THEN [fired EXCEPT !.ships[w.cycle.target].hullGone = TRUE]
                    ELSE fired

ResolveReloadComplete(d, id) ==
  LET s == id.owner
      w == CombatOf(d, s).weapon
      loaded == SetWeapon(LoadMagazine(d, s, w.reload.ammo), s,
                          [w EXCEPT !.reload = NoOne, !.last = w.reload.ammo])
  IN  CASE ~Present(d, s) \/ w.reload = NoOne -> d
        [] w.reload # NoOne /\ w.reload.entry # id -> d
        [] OTHER -> IF LoadedBy(d, s, w.reload.ammo) = 0 THEN StopWeapon(loaded, s) ELSE loaded

\* resolveModuleCycle(), whose repair the hull bit does not see.
ResolveModuleCycle(d, id) ==
  LET s == id.owner
      m == CombatOf(d, s).module
  IN  IF Present(d, s) /\ s \in Equipped /\ m.cycle = id
      THEN Touch(SetModule(d, s, [m EXCEPT !.cycle = NoOne]), s) ELSE d

-----------------------------------------------------------------------------
(* The continuous system. *)

\* evaluateLocks(): "far" holds the pairs out of lock range after "time" passed.
EvaluateLocks(d, s, far, time) ==
  LET locks == CombatOf(d, s).locks
      outFor(t) == IF locks[t].outFor < 0 THEN 0 ELSE locks[t].outFor + time
      lost == {t \in DOMAIN locks :
                 t \notin d.objects \/ (<<s, t>> \in far /\ outFor(t) >= GraceTime)}
      kept == [t \in DOMAIN locks \ lost |->
                 [locks[t] EXCEPT !.outFor = IF <<s, t>> \in far THEN outFor(t) ELSE -1]]
      stop(t, e) == StopWeaponsTargeting(Cancel(e, {locks[t].entry}), s, t)
  IN  IF ~Present(d, s) \/ locks = NoLocks \/ kept = locks THEN d
      ELSE Touch(SetLocks(FoldSet(stop, d, lost), s, kept), s)

\* finalizeDestruction(), which only sees the ships of the loaded site.
FinalizeDestruction(d) ==
  LET destroy(s, e) == IF Present(e, s) /\ ~CombatOf(e, s).destroyed /\ e.ships[s].hullGone
                       THEN Destroy(e, s) ELSE e
  IN  FoldSet(destroy, d, d.objects \cap Ships)

\* Wrong on purpose: what a batch staged waits for time to pass.
AdvanceCombatUnsettled(d, time, far, short) ==
  LET evaluate(s, e) == EvaluateLocks(e, s, far, time)
  IN  IF time = 0 THEN StartEligible(d, short)
      ELSE FinalizeDestruction(RetryWaiting(FoldSet(evaluate, d, DOMAIN d.combat), short, time))

\* advanceCombat() over an interval, and in the pass that takes no time.
AdvanceCombat(d, time, far, short) ==
  LET evaluate(s, e) == EvaluateLocks(e, s, far, time)
      evaluated == RetryWaiting(FoldSet(evaluate, d, DOMAIN d.combat), short, time)
  IN  IF time = 0 THEN StartEligible(FinalizeDestruction(d), short)
      ELSE FinalizeDestruction(IF d.site = NoOne THEN d ELSE evaluated)

=============================================================================
