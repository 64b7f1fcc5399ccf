-------------------------------- MODULE Travel --------------------------------
(***************************************************************************)
(* Movement orders, undocking, docking and warp.  Travel is a small state  *)
(* machine beside the location of the ship: it aligns or approaches until  *)
(* the geometry allows it, prepares for a while, and is over when a        *)
(* boundary that carries its name resolves.                                *)
(***************************************************************************)
EXTENDS Encounter

CONSTANTS WarpPreparation, TransitTime, DockDuration

ASSUME TravelAssumption == {WarpPreparation, TransitTime, DockDuration} \subseteq Nat \ {0}

Warp(origin, destination, bookmark) ==
  [kind |-> "warp", phase |-> "aligning", entry |-> NoOne,
   origin |-> origin, destination |-> destination, bookmark |-> bookmark]

Dock == [kind |-> "dock", phase |-> "approaching", entry |-> NoOne]

\* cancelTravel()
CancelTravel(d) ==
  IF d.travel = NoOne THEN d
  ELSE [Cancel(d, {d.travel.entry}) EXCEPT !.travel = NoOne]

\* instantiateSite(), with the station of the site when it has one.
EnterSite(d, site) ==
  [d EXCEPT !.place = "site", !.site = site,
            !.objects = {d.active} \cup (IF site = Home THEN {Station} ELSE {})]

LeaveSite(d, place) ==
  [d EXCEPT !.place = place, !.site = NoOne, !.objects = {},
            !.orders = [s \in {} |-> StopOrder]]

-----------------------------------------------------------------------------
(* The commands. *)

\* replaceCurrentOrder()
ReplaceOrder(d, order) == OrderMovement(CancelTravel(d), d.active, order)

\* startWarp() and dock(): what was under way is replaced.
StartTravel(d, travel) ==
  [OrderMovement(CancelTravel(d), d.active, NoOne) EXCEPT !.travel = travel]

Undock(d) ==
  MaterializeWrecks([EnterSite(d, Home) EXCEPT
    !.orders = [s \in {d.active} |-> StopOrder], !.travel = NoOne])

\* bookmarkOf(): the player's own unexpired wrecks.
Bookmarks(d) == {w \in DOMAIN d.wrecks : d.wrecks[w].owner = "player"}

-----------------------------------------------------------------------------
(* The continuous system. *)

\* cancelForMissingTarget()
CancelForMissingTarget(d) ==
  OrderMovement(CancelTravel(d), d.active, StopOrder)

\* integrateShip() of every other ship: an order without its target stops.
StopStrayOrders(d) ==
  [d EXCEPT !.orders = [s \in DOMAIN @ |->
     IF s # d.active /\ Present(d, s) /\ ~CombatOf(d, s).destroyed
          /\ ~(Targets(@[s]) \subseteq d.objects)
     THEN StopOrder ELSE @[s]]]

\* The player's own order, or the dock it is on its way to.
FollowOrder(d) ==
  LET missing == IF d.travel # NoOne THEN d.travel.kind = "dock" /\ Station \notin d.objects
                 ELSE d.active \in DOMAIN d.orders /\ ~(Targets(d.orders[d.active]) \subseteq d.objects)
  IN  IF missing THEN CancelForMissingTarget(d) ELSE d

\* evaluateTravel(): "ready" when aligned and fast enough, or within dock range.
EvaluateTravel(d, ready, time) ==
  LET warps == d.travel # NoOne /\ d.travel.kind = "warp" /\ d.travel.phase = "aligning"
      docks == d.travel # NoOne /\ d.travel.kind = "dock" /\ d.travel.phase = "approaching"
      id == NewEntryId(d, IF warps THEN "warpPrepared" ELSE "dockComplete", d.active)
      delay == IF warps THEN WarpPreparation ELSE DockDuration
  IN  IF ready /\ (warps \/ docks)
      THEN [Schedule(d, id, time + delay) EXCEPT !.travel.phase = "preparing", !.travel.entry = id]
      ELSE d

\* advanceNavigation(), which an interval of no length skips.
AdvanceNavigation(d, time, ready) ==
  IF time = 0 \/ d.place # "site" \/ ~PlayerPresent(d) THEN d
  ELSE EvaluateTravel(FollowOrder(StopStrayOrders(d)), ready, time)

-----------------------------------------------------------------------------
(* The boundaries. *)

IsAwaited(d, id, kind, phase) ==
  d.travel # NoOne /\ d.travel.kind = kind /\ d.travel.phase = phase /\ d.travel.entry = id

\* resolveWarpPrepared(): a ship that lost its heading aligns again.
ResolveWarpPrepared(d, id, ready) ==
  LET left == LeaveSite(ClearCombat(AbandonEncounter(d), d.active), "warp")
      arrival == NewEntryId(left, "warpArrival", d.active)
  IN  IF ~IsAwaited(d, id, "warp", "preparing") \/ ~PlayerPresent(d) \/ d.place # "site" THEN d
      ELSE IF ~ready
      THEN [d EXCEPT !.travel.phase = "aligning", !.travel.entry = NoOne]
      ELSE [Schedule(left, arrival, TransitTime) EXCEPT
              !.travel.phase = "transit", !.travel.entry = arrival]

ResolveWarpArrival(d, id) ==
  LET arrived == [EnterSite(d, d.travel.destination) EXCEPT !.travel = NoOne]
  IN  IF ~IsAwaited(d, id, "warp", "transit") \/ d.active = NoOne \/ d.place # "warp" THEN d
      ELSE InstantiateEncounter(MaterializeWrecks(OrderMovement(arrived, d.active, StopOrder)))

\* resolveDockComplete(): a ship that drifted off approaches again.
ResolveDockComplete(d, id, ready) ==
  LET cleared == ClearCombat(AbandonEncounter(d), d.active)
  IN  IF ~IsAwaited(d, id, "dock", "preparing") \/ ~PlayerPresent(d) THEN d
      ELSE IF ~ready \/ Station \notin d.objects
      THEN [d EXCEPT !.travel.phase = "approaching", !.travel.entry = NoOne]
      ELSE [LeaveSite(cleared, "station") EXCEPT !.travel = NoOne]

=============================================================================
