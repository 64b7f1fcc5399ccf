-------------------------------- MODULE Station --------------------------------
(***************************************************************************)
(* What a pilot owns and the station services that change it: inventory    *)
(* commands, the market, repair, insurance and resupply by way of a        *)
(* preview that is confirmed later, fitting by way of a draft, and the     *)
(* loss of a ship, after which the recovery service may owe a new one.     *)
(*                                                                         *)
(* A preview the client holds carries the parameters, what it showed and   *)
(* whether any version it was bound to has moved on since; the versions    *)
(* themselves are left out.  There is one station, one hull, one kind of   *)
(* weapon and one kind of round, as few as the rules tell apart, and at    *)
(* most one wreck at a time.                                               *)
(***************************************************************************)
EXTENDS Inventory, Market

CONSTANTS
  Ships, Hull, Gun, Ammo,
  Listing,            \* the definition of every listing of the station
  InitialStock,
  MagazineSize, PowerLimit,
  RepairPrice, Premium, BasicPayout, EnhancedPayout, StarterValue, StartingCredits,
  MaxUnits,           \* bound: units of every item
  MaxStacks,          \* bound: stacks
  DealSizes,          \* bound: quantities asked for
  Sessions            \* bound: the kinds of steps one behaviour is made of

ASSUME StationAssumption ==
  /\ Items = {Gun, Ammo} /\ Gun # Ammo /\ Hull \notin Items
  /\ Ships \subseteq Nat /\ Ships # {} /\ NoOne \notin Ships
  /\ Slots = 1..Cardinality(Slots) /\ Slots # {}
  /\ {MagazineSize, PowerLimit} \subseteq Nat \ {0} /\ DealSizes \subseteq Nat \ {0}
  /\ {RepairPrice, Premium, BasicPayout, EnhancedPayout, StartingCredits, StarterValue,
      InitialStock} \subseteq Nat

ASSUME ListingAssumption ==
  /\ Listing \in [Items \cup {Hull} -> Listings]
  /\ \A item \in DOMAIN Listing : IsHedged(Listing[item])

\* The content rule behind the recovery service: a pilot who is not granted a
\* starter ship can buy its hull.
ASSUME RecoveryAssumption ==
  Listing[Hull].fixed /\ StarterValue >= UnitQuote(Listing[Hull], 0, "stationSells")

\* The content rule for the goods of a new campaign: its hold has room for them.
ASSUME StartAssumption == Volume[Ammo] <= HoldCapacity

VARIABLES
  assets,    \* credits, active ship, ships, stacks, and whether the pilot is in space
  market,    \* the state of every listing
  fitting,   \* the open fitting draft, or NoOne
  held,      \* the preview the client holds, or NoOne
  session    \* which kinds of steps this behaviour has; never changes

vars == <<assets, market, fitting, held, session>>

-----------------------------------------------------------------------------
(* Recovery. *)

\* isFlightReady(): of the fitting rules only the resources can be broken by
\* what a slot accepts; they keep a ship docked and nothing else.
IsFlightReady(a, s) == Cardinality(FittedSlots(a, s)) <= PowerLimit

\* The ships that lie in a station: all but the one the pilot flies.
Docked(a) == {s \in DOMAIN a.ships : ~(a.out /\ s = a.active)}

RecoveryGrantDue(a) ==
  /\ \A s \in Docked(a) : ~IsFlightReady(a, s)
  /\ a.credits < StarterValue

NewShip(marked) == [marked |-> marked, enhanced |-> FALSE, hurt |-> FALSE]
FreeShip(a) == CHOOSE s \in Ships : s \notin DOMAIN a.ships
WithShip(a, s, marked) == [a EXCEPT !.ships = [x \in DOMAIN @ \cup {s} |->
                             IF x = s THEN NewShip(marked) ELSE @[x]]]

\* grantRecoveryShip(): every unit of it bears the mark.
GrantRecoveryShip(a) ==
  LET s == FreeShip(a)
      slot == CHOOSE k \in Slots : \A j \in Slots : k <= j
      armed == Add(WithShip(a, s, TRUE), FittingStore(s), Gun, 1, Fitted(slot), TRUE)
  IN  [Add(armed, FittingStore(s), Ammo, MagazineSize, Charge(slot), TRUE) EXCEPT !.active = s]

EnsureRecoveryRoute(a) ==
  IF a.active = NoOne /\ ~a.out /\ RecoveryGrantDue(a) THEN GrantRecoveryShip(a) ELSE a

\* replacementShipAt()
Replacement(a) ==
  LET ready == {s \in Docked(a) : IsFlightReady(a, s)}
      choices == IF ready # {} THEN ready ELSE Docked(a)
  IN  IF choices = {} THEN NoOne ELSE Min(choices)

-----------------------------------------------------------------------------
(* Previews. *)

\* isLocalInventory()
Local(a) ==
  IF a.out THEN {Hold(a.active)} ELSE {Hangar} \cup {Hold(s) : s \in DOMAIN a.ships}

\* The stacks a resupply draws on, in the order of their identities.
OwnedRounds(a) == {i \in DOMAIN a.stacks :
  a.stacks[i].item = Ammo /\ a.stacks[i].state = Plain /\ a.stacks[i].inv \in Local(a)}

\* The rounds missing from the magazines that hold a charge.
Missing(a, s, slot) ==
  IF Loaded(a, s, slot) = 0 THEN 0 ELSE Max({0, MagazineSize - Loaded(a, s, slot)})
MissingRounds(a, s) == Total([slot \in Slots |-> Missing(a, s, slot)])
RoundsToBuy(a, s) == Max({0, MissingRounds(a, s) - Quantity(a, OwnedRounds(a))})

Buying(item, q, inv) == [action |-> "market.buy", item |-> item, q |-> q, inv |-> inv]
Selling(i, q) == [action |-> "market.sell", stack |-> i, q |-> q]
Service(action, s) == [action |-> action, ship |-> s]

Trade(item, side, q) == BulkQuote(Listing[item], market[item].stock, side, q)

\* The requests the client can make: what they name exists.
Requests ==
  {Buying(Hull, q, NoOne) : q \in {1}} \cup
  {Buying(item, q, inv) : item \in Items, q \in DealSizes, inv \in Local(assets)} \cup
  {Selling(i, q) : i \in DOMAIN assets.stacks, q \in DealSizes} \cup
  {Service(action, s) : action \in {"repair", "resupply", "insurance.enhance"},
                        s \in DOMAIN assets.ships}

\* What a preview shows: the credits that change hands and the units traded.
Shown(r) ==
  CASE r.action = "market.buy" -> [credits |-> Trade(r.item, "stationSells", r.q), units |-> r.q]
    [] r.action = "market.sell" ->
         [credits |-> Trade(assets.stacks[r.stack].item, "stationBuys", r.q), units |-> r.q]
    [] r.action = "repair" -> [credits |-> RepairPrice, units |-> 0]
    [] r.action = "insurance.enhance" -> [credits |-> Premium, units |-> 0]
    [] r.action = "resupply" ->
         LET n == RoundsToBuy(assets, r.ship)
         IN  [credits |-> IF n = 0 THEN 0 ELSE Trade(Ammo, "stationSells", n), units |-> n]

\* What the station or the request itself refuses, money apart.
Offered(r) ==
  /\ ~assets.out
  /\ \/ /\ r.action = "market.buy"
        /\ InStock(Listing[r.item], market[r.item], r.q)
        /\ r.item # Hull => r.inv \in Local(assets) /\ Fits(assets, r.inv, r.item, r.q)
     \/ /\ r.action = "market.sell" /\ r.stack \in DOMAIN assets.stacks
        /\ LET s == assets.stacks[r.stack]
           IN  s.state = Plain /\ ~s.marked /\ r.q <= s.qty /\ s.inv \in Local(assets)
     \/ /\ r.action = "repair" /\ r.ship \in DOMAIN assets.ships
        /\ assets.ships[r.ship].hurt
     \/ /\ r.action = "insurance.enhance" /\ r.ship \in DOMAIN assets.ships
        /\ ~assets.ships[r.ship].marked /\ ~assets.ships[r.ship].enhanced
     \/ /\ r.action = "resupply" /\ r.ship \in DOMAIN assets.ships
        /\ MissingRounds(assets, r.ship) > 0
        /\ InStock(Listing[Ammo], market[Ammo], RoundsToBuy(assets, r.ship))

IsAvailable(r) ==
  Offered(r) /\ (r.action # "market.sell" => Shown(r).credits <= assets.credits)

\* bindIfAvailable()
Preview(r) ==
  IF IsAvailable(r) THEN [request |-> r, shown |-> Shown(r), fresh |-> TRUE] ELSE NoOne

\* Wrong on purpose: whatever is still offered is confirmed.
TokenMatchesOffer(h) == IsAvailable(h.request)

\* previewTokenMatches(): the versions and the values are those it was bound to.
TokenMatches(h) == h.fresh /\ IsAvailable(h.request) /\ Shown(h.request) = h.shown

\* The listings whose version the held preview carries.
BoundTo(item) ==
  LET r == held.request
  IN  CASE r.action = "market.buy" -> r.item = item
        [] r.action = "market.sell" ->
             r.stack \in DOMAIN assets.stacks /\ assets.stacks[r.stack].item = item
        [] r.action = "resupply" -> item = Ammo /\ held.shown.units > 0
        [] OTHER -> FALSE

\* Any change of the assets, or of the stock of a listing, moves a version on.
Stale == IF held = NoOne THEN NoOne ELSE [held EXCEPT !.fresh = FALSE]

-----------------------------------------------------------------------------
(* What a confirmed preview does. *)

Paid(a, credits) == [a EXCEPT !.credits = @ - credits]

AddPurchasedHull(a) ==
  LET s == FreeShip(a)
      owned == WithShip(a, s, FALSE)
  IN  IF a.active = NoOne THEN [owned EXCEPT !.active = s] ELSE owned

\* Wrong on purpose: the grant is decided at the loss only.
ApplyBuyAlone(a, r) ==
  IF r.item = Hull THEN AddPurchasedHull(a) ELSE Add(a, r.inv, r.item, r.q, Plain, FALSE)

ApplyBuy(a, r) ==
  EnsureRecoveryRoute(IF r.item = Hull THEN AddPurchasedHull(a)
                      ELSE Add(a, r.inv, r.item, r.q, Plain, FALSE))

\* consumeOwnedAmmunition() and addAs(): one owned round into the magazine, or
\* a bought one when none is left.
LoadRound(a, s, slot) ==
  IF OwnedRounds(a) = {} THEN Add(a, FittingStore(s), Ammo, 1, Charge(slot), FALSE)
  ELSE Move(a, Min(OwnedRounds(a)), FittingStore(s), 1, Charge(slot))

Fill(a, s, slot, rounds) == Repeat(LAMBDA b : LoadRound(b, s, slot), a, rounds)

ApplyResupply(a, s) ==
  LET last == Cardinality(Slots)
      filled[k \in 0..last] ==
        IF k = 0 THEN a ELSE Fill(filled[k - 1], s, k, Missing(a, s, k))
  IN  filled[last]

ApplyConfirmed(r, shown) ==
  CASE r.action = "market.buy" -> ApplyBuy(Paid(assets, shown.credits), r)
    [] r.action = "market.sell" ->
         [Consume(assets, r.stack, r.q) EXCEPT !.credits = @ + shown.credits]
    [] r.action = "repair" -> [Paid(assets, shown.credits) EXCEPT !.ships[r.ship].hurt = FALSE]
    [] r.action = "insurance.enhance" ->
         [Paid(assets, shown.credits) EXCEPT !.ships[r.ship].enhanced = TRUE]
    [] r.action = "resupply" -> ApplyResupply(Paid(assets, shown.credits), r.ship)

\* moveListingStock()
MovedStock(r, shown) ==
  LET moved(item, side) == [market EXCEPT ![item] =
                              ApplyStockMovement(Listing[item], @, side, shown.units)]
  IN  CASE r.action = "market.buy" -> moved(r.item, "stationSells")
        [] r.action = "market.sell" -> moved(assets.stacks[r.stack].item, "stationBuys")
        [] r.action = "resupply" -> moved(Ammo, "stationSells")
        [] OTHER -> market

-----------------------------------------------------------------------------
(* Fitting. *)

HasFittingService(s) == s \in Docked(assets) /\ ~assets.out

\* draftFromFit(): what every slot is planned to hold.
Planned(weapon, loaded) == [weapon |-> weapon, loaded |-> loaded]
DraftFromFit(a, s) ==
  [ship |-> s, slots |-> [slot \in Slots |-> Planned(slot \in FittedSlots(a, s),
                                                     ChargeAt(a, s, slot) # {})]]

\* Wrong on purpose: a weapon comes off its slot and leaves its charge there.
UnwantedWeapons(a, d) == {i \in StacksIn(a, FittingStore(d.ship)) :
  a.stacks[i].state[1] = "fitted" /\ ~d.slots[a.stacks[i].state[2]].weapon}

\* What comes off first: what the plan does not want in its slot.
Unwanted(a, d) == {i \in StacksIn(a, FittingStore(d.ship)) :
  LET plan == d.slots[a.stacks[i].state[2]]
  IN  IF a.stacks[i].state[1] = "fitted" THEN ~plan.weapon ELSE ~(plan.weapon /\ plan.loaded)}
StripOne(a, d) ==
  IF Unwanted(a, d) = {} THEN a
  ELSE Move(a, Min(Unwanted(a, d)), Hangar, a.stacks[Min(Unwanted(a, d))].qty, Plain)
Strip(a, d) == Repeat(LAMBDA b : StripOne(b, d), a, 2 * Cardinality(Slots))

Stores(d) == <<Hangar, Hold(d.ship)>>

FitModule(a, d, slot) ==
  LET source == SourceIn(a, Stores(d), Gun)
  IN  IF ~d.slots[slot].weapon \/ ModuleAt(a, d.ship, slot) # {} THEN a
      ELSE IF source = 0 THEN NoOne
      ELSE Move(a, source, FittingStore(d.ship), 1, Fitted(slot))

\* Rounds go into a magazine until it has as many as asked for, or none is left.
LoadFrom(stores, a, s, slot) ==
  IF SourceIn(a, stores, Ammo) = 0 THEN a
  ELSE Move(a, SourceIn(a, stores, Ammo), FittingStore(s), 1, Charge(slot))
LoadRounds(stores, a, s, slot, rounds) ==
  Repeat(LAMBDA b : LoadFrom(stores, b, s, slot), a, rounds)

\* Wrong on purpose: rounds that are missing are passed over.
FitChargeOrNone(a, d, slot) ==
  LET rounds == Min({MagazineSize, Available(a, Stores(d), Ammo)})
  IN  IF ~d.slots[slot].loaded \/ ChargeAt(a, d.ship, slot) # {} THEN a
      ELSE LoadRounds(Stores(d), a, d.ship, slot, rounds)

FitCharge(a, d, slot) ==
  LET rounds == Min({MagazineSize, Available(a, Stores(d), Ammo)})
  IN  IF ~d.slots[slot].loaded \/ ChargeAt(a, d.ship, slot) # {} THEN a
      ELSE IF rounds = 0 THEN NoOne
      ELSE LoadRounds(Stores(d), a, d.ship, slot, rounds)

\* applyDraftTo(): NoOne when the pilot no longer has what the draft needs.
FitSlot(a, d, slot) ==
  IF a = NoOne THEN NoOne
  ELSE LET b == FitModule(a, d, slot)
       IN  IF b = NoOne THEN NoOne ELSE FitCharge(b, d, slot)
ApplyDraftTo(a, d) ==
  LET last == Cardinality(Slots)
      fitted[k \in 0..last] ==
        IF k = 0 THEN Strip(a, d) ELSE FitSlot(fitted[k - 1], d, k)
  IN  fitted[last]

-----------------------------------------------------------------------------
(* Loss. *)

Payout(ship) ==
  IF ship.marked THEN 0 ELSE IF ship.enhanced THEN EnhancedPayout ELSE BasicPayout

\* The stacks the ship carries, and which of them may survive: never a charge.
Carried(a, s) == StacksIn(a, FittingStore(s)) \cup StacksIn(a, Hold(s))
MaySurvive(a, s) == {i \in Carried(a, s) : a.stacks[i].state[1] # "charge"}

Settle(a, s, survivors, stacks, i) ==
  CASE i \in survivors -> Put(stacks, [a.stacks[i] EXCEPT !.inv = Wreck, !.state = Plain])
    [] i \in Carried(a, s) \ survivors -> stacks
    [] OTHER -> Append(stacks, a.stacks[i])

SettledStacks(a, s, survivors) ==
  LET settled[i \in 0..Len(a.stacks)] ==
        IF i = 0 THEN <<>> ELSE Settle(a, s, survivors, settled[i - 1], i)
  IN  settled[Len(a.stacks)]

Settled(a, s, survivors) == [a EXCEPT !.stacks = SettledStacks(a, s, survivors)]

\* resolvePlayerDestruction()
ResolveLoss(a, s, survivors) ==
  LET lost == [Settled(a, s, survivors) EXCEPT
                 !.ships = [x \in DOMAIN @ \ {s} |-> @[x]], !.out = FALSE, !.active = NoOne,
                 !.wreck = TRUE, !.credits = @ + Payout(a.ships[s])]
  IN  IF RecoveryGrantDue(lost) THEN GrantRecoveryShip(lost)
      ELSE [lost EXCEPT !.active = Replacement(lost)]

InBounds(a) ==
  /\ Len(a.stacks) <= MaxStacks
  /\ \A item \in Items : Units(a, item) <= MaxUnits[item]

-----------------------------------------------------------------------------
(* The steps. *)

\* startingAssets(): a fitted and loaded ship, a spare weapon, a round in the hold.
Init ==
  LET s == Min(Ships)
      slot == Min(Slots)
      stack(item, qty, inv, state) ==
        [item |-> item, qty |-> qty, inv |-> inv, state |-> state, marked |-> FALSE]
  IN  /\ assets = [credits |-> StartingCredits, active |-> s, out |-> FALSE, wreck |-> FALSE,
                   ships |-> [x \in {s} |-> NewShip(FALSE)],
                   stacks |-> <<stack(Gun, 1, Hangar, Plain), stack(Ammo, 1, Hold(s), Plain),
                                stack(Gun, 1, FittingStore(s), Fitted(slot)),
                                stack(Ammo, MagazineSize, FittingStore(s), Charge(slot))>>]
      /\ market = [item \in DOMAIN Listing |-> [stock |-> InitialStock, half |-> 0]]
      /\ fitting = NoOne /\ held = NoOne /\ session \in Sessions

Does(kind) == kind \in session /\ session' = session

Adopt(a) == InBounds(a) /\ assets' = a /\ held' = Stale

\* Where the stacks are that inventory commands may name.
AtHand == {i \in DOMAIN assets.stacks : assets.stacks[i].inv \in Local(assets)}

Transfer == \E i \in AtHand, inv \in Local(assets), q \in DealSizes :
  LET s == assets.stacks[i]
  IN  /\ Does("inventory.transfer")
      /\ inv # s.inv /\ q <= s.qty /\ Fits(assets, inv, s.item, q)
      /\ Adopt(Move(assets, i, inv, q, Plain))
      /\ UNCHANGED <<market, fitting>>

SplitStack == \E i \in AtHand, q \in DealSizes :
  /\ Does("inventory.split")
  /\ q < assets.stacks[i].qty
  /\ Adopt(Split(assets, i, q))
  /\ UNCHANGED <<market, fitting>>

MergeStacks == \E i, j \in AtHand :
  /\ Does("inventory.merge")
  /\ i # j /\ assets.stacks[i].inv = assets.stacks[j].inv
  /\ Compatible(assets.stacks[i], assets.stacks[j])
  /\ Adopt(Merge(assets, i, j))
  /\ UNCHANGED <<market, fitting>>

AskPreview == \E r \in Requests :
  /\ Does(r.action) /\ Preview(r) # NoOne
  /\ held' = Preview(r)
  /\ UNCHANGED <<assets, market, fitting>>

Confirm ==
  /\ held # NoOne /\ Does(held.request.action) /\ TokenMatches(held)
  /\ LET r == held.request
     IN  /\ (r.action = "market.buy" /\ r.item = Hull) => DOMAIN assets.ships # Ships
         /\ assets' = ApplyConfirmed(r, Shown(r)) /\ InBounds(assets')
         /\ market' = MovedStock(r, Shown(r))
  /\ held' = NoOne
  /\ UNCHANGED fitting

\* A stale confirmation answers with a replacement, when there is one.
ConfirmStale ==
  /\ held # NoOne /\ Does(held.request.action) /\ ~TokenMatches(held)
  /\ held' = Preview(held.request)
  /\ UNCHANGED <<assets, market, fitting>>

BeginFitting == \E s \in DOMAIN assets.ships :
  /\ Does("fitting")
  /\ fitting = NoOne /\ HasFittingService(s)
  /\ fitting' = DraftFromFit(assets, s)
  /\ UNCHANGED <<assets, market, held>>

SetSlot == \E slot \in Slots, loaded \in BOOLEAN :
  /\ Does("fitting")
  /\ fitting # NoOne
  /\ fitting' = [fitting EXCEPT !.slots[slot] = Planned(TRUE, loaded)]
  /\ UNCHANGED <<assets, market, held>>

ClearSlot == \E slot \in Slots :
  /\ Does("fitting")
  /\ fitting # NoOne
  /\ fitting' = [fitting EXCEPT !.slots[slot] = Planned(FALSE, FALSE)]
  /\ UNCHANGED <<assets, market, held>>

RevertFitting ==
  /\ Does("fitting")
  /\ fitting # NoOne /\ fitting' = NoOne
  /\ UNCHANGED <<assets, market, held>>

CommitFitting ==
  /\ Does("fitting")
  /\ fitting # NoOne /\ HasFittingService(fitting.ship)
  /\ ApplyDraftTo(assets, fitting) # NoOne
  /\ Adopt(ApplyDraftTo(assets, fitting))
  /\ fitting' = NoOne
  /\ UNCHANGED market

\* resolveEconomyHour(): only a moved stock moves the version of a listing.
EconomyHour ==
  /\ Does("economy.hour")
  /\ market' = [item \in DOMAIN market |-> AdvanceListing(Listing[item], market[item])]
  /\ held' = IF held # NoOne /\ \E item \in DOMAIN market :
                  market'[item].stock # market[item].stock /\ BoundTo(item)
             THEN Stale ELSE held
  /\ UNCHANGED <<assets, fitting>>

Undock ==
  /\ Does("ship.undock")
  /\ ~assets.out /\ assets.active # NoOne /\ fitting = NoOne
  /\ IsFlightReady(assets, assets.active)
  /\ Adopt([assets EXCEPT !.out = TRUE])
  /\ UNCHANGED <<market, fitting>>

Dock ==
  /\ Does("ship.undock")
  /\ assets.out /\ Adopt([assets EXCEPT !.out = FALSE])
  /\ UNCHANGED <<market, fitting>>

\* A hit that leaves something to repair.
TakeDamage ==
  /\ Does("damage")
  /\ assets.out /\ ~assets.ships[assets.active].hurt
  /\ Adopt([assets EXCEPT !.ships[assets.active].hurt = TRUE])
  /\ UNCHANGED <<market, fitting>>

\* consumeRound()
Fire == \E slot \in Slots :
  /\ Does("fire")
  /\ assets.out /\ ChargeAt(assets, assets.active, slot) # {}
  /\ Adopt(Consume(assets, Min(ChargeAt(assets, assets.active, slot)), 1))
  /\ UNCHANGED <<market, fitting>>

\* loadMagazine()
Reload == \E slot \in Slots :
  LET s == assets.active
      rounds == Min({MagazineSize - Loaded(assets, s, slot), Available(assets, <<Hold(s)>>, Ammo)})
  IN  /\ Does("fire")
      /\ assets.out /\ slot \in FittedSlots(assets, s) /\ rounds > 0
      /\ Adopt(LoadRounds(<<Hold(s)>>, assets, s, slot, rounds))
      /\ UNCHANGED <<market, fitting>>

TakeLoot == \E i \in StacksIn(assets, Wreck), q \in DealSizes :
  LET s == assets.stacks[i]
  IN  /\ Does("loot.take")
      /\ assets.out /\ q <= s.qty /\ Fits(assets, Hold(assets.active), s.item, q)
      /\ Adopt(Move(assets, i, Hold(assets.active), q, Plain))
      /\ UNCHANGED <<market, fitting>>

\* removeWreck(): with what is still in it.
KeepUnlessWrecked(stacks, s) == IF s.inv = Wreck THEN stacks ELSE Append(stacks, s)

KeptStacks(a) ==
  LET kept[i \in 0..Len(a.stacks)] ==
        IF i = 0 THEN <<>> ELSE KeepUnlessWrecked(kept[i - 1], a.stacks[i])
  IN  kept[Len(a.stacks)]

WithoutWreck(a) == [a EXCEPT !.wreck = FALSE, !.stacks = KeptStacks(a)]

WreckExpires ==
  /\ Does("wreck.expire")
  /\ assets.wreck
  /\ Adopt(WithoutWreck(assets))
  /\ UNCHANGED <<market, fitting>>

LoseShip == \E survivors \in SUBSET MaySurvive(assets, assets.active) :
  /\ Does("loss")
  /\ assets.out /\ ~assets.wreck
  /\ Adopt(ResolveLoss(assets, assets.active, survivors))
  /\ UNCHANGED <<market, fitting>>

Next ==
  \/ Transfer \/ SplitStack \/ MergeStacks
  \/ AskPreview \/ Confirm \/ ConfirmStale
  \/ BeginFitting \/ SetSlot \/ ClearSlot \/ RevertFitting \/ CommitFitting
  \/ EconomyHour \/ Undock \/ Dock
  \/ TakeDamage \/ Fire \/ Reload \/ TakeLoot \/ WreckExpires \/ LoseShip

Spec == Init /\ [][Next]_vars

-----------------------------------------------------------------------------
(* Properties. *)

\* What the variables range over.
Places == {Hangar, Wreck} \cup {Hold(s) : s \in Ships} \cup {FittingStore(s) : s \in Ships}
States == {Plain} \cup {Fitted(slot) : slot \in Slots} \cup {Charge(slot) : slot \in Slots}
Stacks == [item : Items, qty : Nat \ {0}, inv : Places, state : States, marked : BOOLEAN]
Fleets == UNION {[owned -> [marked : BOOLEAN, enhanced : BOOLEAN, hurt : BOOLEAN]] :
                   owned \in SUBSET Ships}
Assets == [credits : Nat, active : Ships \cup {NoOne}, out : BOOLEAN, wreck : BOOLEAN,
           ships : Fleets, stacks : Seq(Stacks)]
Drafts == [ship : Ships, slots : [Slots -> [weapon : BOOLEAN, loaded : BOOLEAN]]]

\* What a preview the client holds is made of.
RequestTypes ==
  [action : {"market.buy"}, item : {Hull}, q : {1}, inv : {NoOne}] \cup
  [action : {"market.buy"}, item : Items, q : DealSizes, inv : Places] \cup
  [action : {"market.sell"}, stack : Nat, q : DealSizes] \cup
  [action : {"repair", "resupply", "insurance.enhance"}, ship : Ships]
Previews == [request : RequestTypes, shown : [credits : Nat, units : Nat], fresh : BOOLEAN]

ASSUME PreviewAssumption == NoOne \notin Previews

StationTypes ==
  /\ assets \in Assets
  /\ market \in [DOMAIN Listing -> [stock : Nat, half : Int]]
  /\ fitting = NoOne \/ fitting \in Drafts
  /\ held \in Previews \cup {NoOne}

\* The active ship is an owned one, nobody is in space without a ship or with a
\* fitting open, and a draft is of an owned ship.
PilotIsPlaced ==
  /\ assets.active \in DOMAIN assets.ships \cup {NoOne}
  /\ assets.out => assets.active # NoOne /\ fitting = NoOne
  /\ fitting # NoOne => fitting.ship \in DOMAIN assets.ships

\* A loss leaves the one wreck there is.
IsLoss == ~assets.wreck /\ assets'.wreck

\* What is stored is what the save check accepts (validateAssets, validateFits):
\* only a fitting store holds fitted modules and charges, a slot holds at most
\* one module, of one unit, and at most one charge, of no more than a magazine
\* and never without its weapon; no hold is over its capacity; goods lie with
\* an owned ship, in the hangar or in a wreck that is there; the active ship is
\* an owned one, and a draft is of a docked one.
AssetsConsistent ==
  /\ PilotIsPlaced
  /\ \A i \in DOMAIN assets.stacks :
       LET s == assets.stacks[i]
       IN  /\ s.qty > 0
           /\ s.inv \in {Hangar} \cup {Hold(x) : x \in DOMAIN assets.ships}
                        \cup {FittingStore(x) : x \in DOMAIN assets.ships}
                        \cup (IF assets.wreck THEN {Wreck} ELSE {})
           /\ s.inv[1] = "fitting" <=> s.state # Plain
           /\ s.state[1] = "fitted" => s.qty = 1 /\ s.item = Gun
           /\ s.state[1] = "charge" => s.qty <= MagazineSize /\ s.item = Ammo
  /\ \A s \in DOMAIN assets.ships :
       /\ UsedVolume(assets, Hold(s)) <= HoldCapacity
       /\ \A slot \in Slots :
            /\ Cardinality(ModuleAt(assets, s, slot)) <= 1
            /\ Cardinality(ChargeAt(assets, s, slot)) <= Cardinality(ModuleAt(assets, s, slot))

\* A bulk quote is the sum of its units, priced one at a time, also where the
\* code takes a block at the price of its first unit, and a purchase is never
\* sold back to the same station at a profit, at any stock the market reaches.
QuotesAreFair ==
  \A item \in DOMAIN Listing, q \in DealSizes : IsFair(Listing[item], market[item].stock, q)

\* Whoever is without a ship is docked, has none waiting there, and can buy the
\* hull the station always sells: a purchase, or a loss, that leaves less than
\* that is answered with a ship.
RecoveryRouteStaysOpen ==
  assets.active = NoOne =>
    /\ ~assets.out /\ DOMAIN assets.ships = {}
    /\ assets.credits >= UnitQuote(Listing[Hull], market[Hull].stock, "stationSells")

\* What the proofs carry from step to step: enough of the above to know that the
\* recovery service always has a ship to grant, and nobody else needs one.
StationInv == StationTypes /\ PilotIsPlaced /\ RecoveryRouteStaysOpen

\* A confirmation does what the preview the client holds has shown, however
\* much has happened since it was asked for: it moves the credits and the units
\* that were shown, or it changes nothing.
ConfirmedAsShown ==
  [][(held # NoOne /\ held' = NoOne /\ assets' # assets) =>
       LET c == held.shown.credits
           sells == held.request.action = "market.sell"
           granted == {s \in DOMAIN assets'.ships \ DOMAIN assets.ships : assets'.ships[s].marked}
           traded == held.shown.units
       IN  /\ assets'.credits = IF sells THEN assets.credits + c ELSE assets.credits - c
           /\ \/ granted # {}
              \/ held.request.action = "market.buy" /\ held.request.item = Hull
              \/ LET item == IF sells THEN assets.stacks[held.request.stack].item
                             ELSE IF held.request.action = "market.buy" THEN held.request.item
                             ELSE Ammo
                 IN  Units(assets', item) =
                       IF sells THEN Units(assets, item) - traded ELSE Units(assets, item) + traded]_vars

\* Nothing done with goods in a station, moving, splitting, merging, fitting or
\* loading them, makes or loses a unit, or changes what bears the mark of a
\* recovery grant into what does not; in space units are only ever lost.
UnitsAreConserved ==
  [][(assets'.credits = assets.credits /\ assets'.ships = assets.ships /\ ~IsLoss) =>
       \A item \in Items :
         /\ Units(assets', item) <= Units(assets, item)
         /\ (~assets.out /\ ~assets'.out /\ assets'.wreck = assets.wreck) =>
              Units(assets', item) = Units(assets, item)
         /\ UnitsOf(assets', item, FALSE) <= UnitsOf(assets, item, FALSE)]_vars

\* A grant never becomes money: units without the mark appear only when they
\* are paid for, units with it are never what a payment is for, and a granted
\* hull pays no insurance.
GrantsBringNoValue ==
  [][/\ \A item \in Items :
          UnitsOf(assets', item, FALSE) > UnitsOf(assets, item, FALSE) =>
            assets'.credits < assets.credits
     /\ assets'.credits > assets.credits =>
          IF IsLoss THEN ~assets.ships[assets.active].marked
          ELSE \A item \in Items : UnitsOf(assets', item, TRUE) >= UnitsOf(assets, item, TRUE)]_vars

\* A committed draft is the fit the ship then wears, slot by slot, or the commit
\* changed nothing: no slot is filled while another one could not be.
FitsAsPlanned ==
  [][(fitting # NoOne /\ fitting' = NoOne /\ assets' # assets) =>
       \A slot \in Slots :
         /\ (ModuleAt(assets', fitting.ship, slot) # {}) <=> fitting.slots[slot].weapon
         /\ (ChargeAt(assets', fitting.ship, slot) # {}) <=> fitting.slots[slot].loaded]_vars

=============================================================================
