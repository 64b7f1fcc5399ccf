---------------------------- MODULE SimulationDraft ----------------------------
(***************************************************************************)
(* The part of the campaign draft that combat, encounters, travel and loss *)
(* share, as a record, and the small operations on it: the boundary queue, *)
(* the table of ships, the loaded site, the orders and the combat runtime. *)
(* The operators of the modules that extend this one take such a record    *)
(* and return the record the handler of the code leaves behind.            *)
(*                                                                         *)
(* Times are relative: an entry is due "in" so many units, and what the    *)
(* code keeps only to report it (when a lock started, who fired) is left   *)
(* out.  Hull points are one bit, range and capacitor are choices of the   *)
(* caller, and every ship has at most one turret and one active module.    *)
(***************************************************************************)
EXTENDS Integers, Sequences, FiniteSets, SequencesExt, FiniteSetsExt, TLC

CONSTANTS
  PlayerShips, NpcShips, Wrecks,  \* the identities entities may be given
  Station, Home, Field,           \* a station, its site, and an encounter's site
  NoOne,                          \* null
  Ammo,                           \* kinds of ammunition, as numbers in id order
  Armed, Equipped,                \* ships with a turret, with an active module
  MagazineSize, CargoSize, MaxLocks

ASSUME DraftAssumption ==
  /\ Ammo \subseteq Nat \ {0}
  /\ MagazineSize \in Nat \ {0} /\ CargoSize \in Nat /\ MaxLocks \in Nat
  /\ NoOne \notin PlayerShips \cup NpcShips \cup Wrecks \cup {Station, Home, Field}

Ships == PlayerShips \cup NpcShips
NoAmmo == 0

IdleWeapon == [repeating |-> FALSE, target |-> NoOne, cycle |-> NoOne,
               reload |-> NoOne, pending |-> NoOne, last |-> NoAmmo]
IdleModule == [repeating |-> FALSE, cycle |-> NoOne, waiting |-> FALSE]
NoLocks == [t \in {} |-> NoOne]
NoCombat == [locks |-> NoLocks, weapon |-> IdleWeapon, module |-> IdleModule,
             destroyed |-> FALSE]

EmptyHold == [a \in Ammo |-> 0]
Units(hold) == MapThenSumSet(LAMBDA a : hold[a], Ammo)

-----------------------------------------------------------------------------
(* Identities.  An entry is named by its kind, its owner and a number that *)
(* tells it from the entries of that kind and owner still queued or still  *)
(* named by something, so that a stale reference never meets a new entry.  *)

NamedByLocks(c) == {c.locks[t].entry : t \in DOMAIN c.locks}
NamedByCombat(c) ==
  NamedByLocks(c) \cup {c.module.cycle}
    \cup (IF c.weapon.cycle = NoOne THEN {} ELSE {c.weapon.cycle.entry})
    \cup (IF c.weapon.reload = NoOne THEN {} ELSE {c.weapon.reload.entry})

\* The entries something in the campaign still names, as own() collects them.
NamedEntries(d) ==
  ((UNION {NamedByCombat(d.combat[s]) : s \in DOMAIN d.combat})
     \cup (IF d.travel = NoOne THEN {} ELSE {d.travel.entry})
     \cup (IF d.encounter = NoOne THEN {}
           ELSE {d.encounter.npcs[s].decision : s \in DOMAIN d.encounter.npcs})
     \cup {d.wrecks[w].entry : w \in DOMAIN d.wrecks}) \ {NoOne}

QueuedIds(d) == {d.queue[i].id : i \in DOMAIN d.queue}

NewEntryId(d, kind, owner) ==
  LET taken == {id \in QueuedIds(d) \cup NamedEntries(d) : id.kind = kind /\ id.owner = owner}
  IN  [kind |-> kind, owner |-> owner,
       no |-> CHOOSE n \in 1..(Cardinality(taken) + 1) : \A id \in taken : id.no # n]

Targets(order) == IF order.kind = "target" THEN {order.target} ELSE {}

\* Every entity that anything in the draft still speaks of.
Mentioned(d) ==
  DOMAIN d.ships \cup DOMAIN d.wrecks \cup d.objects \cup DOMAIN d.combat
    \cup DOMAIN d.orders \cup (UNION {Targets(d.orders[s]) : s \in DOMAIN d.orders})
    \cup (UNION {DOMAIN d.combat[s].locks \cup {d.combat[s].weapon.target} : s \in DOMAIN d.combat})
    \cup (IF d.encounter = NoOne THEN {} ELSE DOMAIN d.encounter.npcs)
    \cup (IF d.travel = NoOne \/ d.travel.kind = "dock" THEN {} ELSE {d.travel.bookmark})
    \cup {d.queue[i].id.owner : i \in DOMAIN d.queue} \cup {d.bookmark}

Fresh(d, pool) == pool \ Mentioned(d)

-----------------------------------------------------------------------------
(* The queue, whose order Scheduler and BoundaryQueue are about. *)

Priority == [npcDecision |-> 20, moduleCycle |-> 30, weaponCycle |-> 40,
             lockComplete |-> 50, reloadComplete |-> 60, wreckExpire |-> 90,
             warpPrepared |-> 100, warpArrival |-> 100, dockComplete |-> 100]

\* scheduleBoundary(): behind what is due earlier, or at once by no lower priority.
Schedule(d, id, in) ==
  LET stays == Cardinality({i \in DOMAIN d.queue :
                 \/ d.queue[i].in < in
                 \/ d.queue[i].in = in /\ Priority[d.queue[i].id.kind] <= Priority[id.kind]})
  IN  [d EXCEPT !.queue = InsertAt(@, stays + 1, [id |-> id, in |-> in])]

\* cancelBoundary(), of every entry of a set.
Cancel(d, ids) == [d EXCEPT !.queue = SelectSeq(@, LAMBDA e : e.id \notin ids)]

\* cancelBoundariesOwnedBy()
CancelOwnedBy(d, owner) == [d EXCEPT !.queue = SelectSeq(@, LAMBDA e : e.id.owner # owner)]

Due(d) == d.queue # <<>> /\ Head(d.queue).in = 0
Elapse(d, time) ==
  [d EXCEPT !.queue = [i \in DOMAIN @ |-> [@[i] EXCEPT !.in = @ - time]]]

-----------------------------------------------------------------------------
(* The loaded site, the orders and the combat runtime. *)

\* combatantOf() is not null: the ship exists and is present in the loaded site.
Present(d, s) == s \in DOMAIN d.ships /\ s \in d.objects

\* activeSiteObject() and activeShipId
PlayerPresent(d) == d.active # NoOne /\ d.active \in d.objects

Without(f, x) == [y \in DOMAIN f \ {x} |-> f[y]]

\* orderMovement(), to which null takes the order away.
OrderMovement(d, s, order) ==
  [d EXCEPT !.orders = IF order = NoOne THEN Without(@, s) ELSE (s :> order) @@ @]

StopOrder == [kind |-> "stop"]

\* shipCombat(): a ship that holds no runtime reads as one at rest.
CombatOf(d, s) == IF s \in DOMAIN d.combat THEN d.combat[s] ELSE NoCombat

\* mutableCombat(), which creates the runtime it writes to.
SetCombat(d, s, c) == [d EXCEPT !.combat = (s :> c) @@ @]
SetWeapon(d, s, w) == SetCombat(d, s, [CombatOf(d, s) EXCEPT !.weapon = w])
SetModule(d, s, m) == SetCombat(d, s, [CombatOf(d, s) EXCEPT !.module = m])
SetLocks(d, s, locks) == SetCombat(d, s, [CombatOf(d, s) EXCEPT !.locks = locks])

\* touch(): pruneCombat() drops runtime that says nothing.
Touch(d, s) ==
  IF CombatOf(d, s) = NoCombat THEN [d EXCEPT !.combat = Without(@, s)] ELSE d

HasCompletedLock(d, s, t) ==
  t \in DOMAIN CombatOf(d, s).locks /\ CombatOf(d, s).locks[t].entry = NoOne

=============================================================================
