----------------------------- MODULE ContentRelease -----------------------------
(***************************************************************************)
(* Authored content, its release, and the campaigns that are played on it  *)
(* and outlive it.  Authors change the content; what the build accepts may *)
(* be released, and a campaign is created on it, played, saved and loaded  *)
(* again, perhaps after another release.  A campaign stores identifiers    *)
(* and never copies of definitions.                                        *)
(*                                                                         *)
(* Of a campaign only what content bears upon is kept: one ship with its   *)
(* fit and its damage, the goods in the hangar and in the hold, the        *)
(* opponents of the site, and the stock of every listing.                  *)
(***************************************************************************)
EXTENDS ContentRules

CONSTANTS
  InitialContent,     \* an accepted content pack
  EditsOf(_),         \* the packs an author can make of a pack in one edit
  NoContent, NoCampaign,
  MaxEdits,           \* bound: edits
  MaxMoves            \* bound: steps of play

VARIABLES
  authored,     \* the content pack as its authors have it
  installed,    \* the content of the build that runs, or NoContent
  campaign,     \* the campaign that is played, or NoCampaign
  saved,        \* the campaign of the newest save, or NoCampaign
  edits, moves  \* how many there have been

\* Encounters are numbered from 1; a ship is a record.
NoEncounter == 0
NoShip == <<>>
NoOpponents == [x \in {} |-> NoShip]

vars == <<authored, installed, campaign, saved, edits, moves>>

-----------------------------------------------------------------------------
(* Ships. *)

Slot(kind, index) == <<kind, index>>

\* What breaks a rule of fitting in a fit, which maps slots to what they hold.
StructuralViolations(c, hull, fit) ==
  LET slots == DOMAIN fit
      module(s) == c.modules[fit[s].module]
      breaks(s) ==
        \/ module(s).slot # s[1] \/ s[2] >= c.hulls[hull].slots[s[1]]
        \/ fit[s].rounds > 0 /\ ~Loads(c, fit[s].module, fit[s].ammunition)
        \/ fit[s].rounds > module(s).magazine
  IN  {s \in slots : breaks(s)} \cup
      {kind \in HardpointKinds :
         Cardinality({s \in slots : module(s).hardpoint = kind}) > c.hulls[hull].hardpoints[kind]}
ResourceViolations(c, hull, fit) ==
  {r \in Resources :
     SumFunction([s \in {x \in DOMAIN fit : fit[x].online} |-> c.modules[fit[s].module].use[r]])
       > c.hulls[hull].output[r]}

\* assessFit()
FitBreaks(c, hull, fit) ==
  StructuralViolations(c, hull, fit) \cup ResourceViolations(c, hull, fit)

Ship(c, hull, fit, marked) ==
  [hull |-> hull, capacity |-> c.hulls[hull].hold, fit |-> fit, damage |-> 0, marked |-> marked]

-----------------------------------------------------------------------------
(* Goods: functions from the physical items there are to quantities. *)

NoGoods == [id \in {} |-> 0]
Of(goods, id) == IF id \in DOMAIN goods THEN goods[id] ELSE 0
With(goods, id, n) == [x \in DOMAIN goods \cup {id} |-> Of(goods, x) + IF x = id THEN n ELSE 0]
VolumeIn(c, goods) == SumFunction([id \in DOMAIN goods |-> goods[id] * VolumeOf(c, id)])

-----------------------------------------------------------------------------
(* The start of a campaign. *)

\* The fit the content plans for the first ship, and for one that is granted.
PlannedFit(c) ==
  LET fit == c.economy.fit
      entry(s) == CHOOSE i \in DOMAIN fit : Slot(fit[i].slot, fit[i].index) = s
  IN  [s \in {Slot(fit[i].slot, fit[i].index) : i \in DOMAIN fit} |-> fit[entry(s)]]

\* orderedSlots(): a draft is applied in the order of the keys of its slots, in
\* which "weapon:10" is before "weapon:2"; an index has at most two digits.
KeyOrder(index) == IF index < 10 THEN 11 * index ELSE index + 2
SlotBefore(s, t) ==
  LET rank == [engineering |-> 1, system |-> 2, utility |-> 3, weapon |-> 4]
  IN  rank[s[1]] < rank[t[1]] \/ (s[1] = t[1] /\ KeyOrder(s[2]) < KeyOrder(t[2]))
OrderedSlots(slots) ==
  [n \in 1..Cardinality(slots) |->
     CHOOSE s \in slots : Cardinality({t \in slots : SlotBefore(t, s)}) = n - 1]

\* applyDraftTo() for one slot: a module and a magazine as full as there are rounds.
FitSlot(c, a, s, e) ==
  LET rounds == IF e.ammunition = None THEN 0
                ELSE Min({c.modules[e.module].magazine, Of(a.left, e.ammunition)})
      taken == With(a.left, e.module, -1)
      fitted == [module |-> e.module, online |-> e.online, ammunition |-> e.ammunition,
                 rounds |-> rounds]
  IN  [left |-> IF rounds = 0 THEN taken ELSE With(taken, e.ammunition, -rounds),
       fit |-> [x \in DOMAIN a.fit \cup {s} |-> IF x = s THEN fitted ELSE a.fit[x]],
       missing |-> a.missing \cup
                     (IF Of(a.left, e.module) = 0 THEN {e.module} ELSE {}) \cup
                     (IF e.ammunition # None /\ rounds = 0 THEN {e.ammunition} ELSE {})]

\* applyDraftTo() of the planned fit to the starting items.
AppliedStart(c) ==
  LET items == c.economy.items
      planned == PlannedFit(c)
      order == OrderedSlots(DOMAIN planned)
      applied[n \in 0..Len(order)] ==
        IF n = 0
        THEN [left |-> [id \in DOMAIN items |-> items[id].quantity],
              fit |-> [s \in {} |-> <<>>], missing |-> {}]
        ELSE FitSlot(c, applied[n - 1], order[n], planned[order[n]])
  IN  applied[Len(order)]

\* startingAssets() throws when the fit needs what the items do not supply.
CanBeCreated(c) == AppliedStart(c).missing = {}

ShelfAt(c, s) == IF s \in DOMAIN c.listings THEN c.listings[s] ELSE [id \in {} |-> 0]

\* startingEconomy(): the listings of every station, and the markets that are open.
StartingStock(c) ==
  [s \in DOMAIN c.stations |-> [id \in DOMAIN ShelfAt(c, s) |-> ShelfAt(c, s)[id].initial]]
Markets(c) == {s \in DOMAIN c.stations : c.stations[s].market}

\* startingNavigation(): the sites of the system the campaign begins in.
KnownSites(c) ==
  {x \in DOMAIN c.sites : c.sites[x].system = c.stations[c.economy.station].system}

CampaignOf(c) ==
  LET start == AppliedStart(c)
      at(place) == [id \in {x \in DOMAIN start.left : c.economy.items[x].place = place}
                      |-> start.left[id]]
  IN  [credits |-> c.economy.credits, station |-> c.economy.station, encounter |-> NoEncounter,
       ship |-> Ship(c, c.economy.hull, start.fit, FALSE),
       hangar |-> at("hangar"), hold |-> at("hold"), opponents |-> NoOpponents,
       stock |-> StartingStock(c), markets |-> Markets(c), known |-> KnownSites(c)]

-----------------------------------------------------------------------------
(* Recovery. *)

Magazine(c, e) == IF e.ammunition = None THEN 0 ELSE c.modules[e.module].magazine

\* starterReferenceValue()
StarterValue(c) ==
  c.hulls[c.economy.hull].value +
  TotalOf(c.economy.fit, LAMBDA e : c.modules[e.module].value +
          IF e.ammunition = None THEN 0 ELSE Magazine(c, e) * c.ammunition[e.ammunition].value)

\* grantRecoveryShip(): the starting fit with every magazine full.
GrantedFit(c) ==
  LET planned == PlannedFit(c)
  IN  [s \in DOMAIN planned |->
         [module |-> planned[s].module, online |-> planned[s].online,
          ammunition |-> planned[s].ammunition, rounds |-> Magazine(c, planned[s])]]
GrantRecoveryShip(c, m) == [m EXCEPT !.ship = Ship(c, c.economy.hull, GrantedFit(c), TRUE)]

\* ensureRecoveryRoute(), for a pilot who has this one ship or none.
EnsureRecoveryRoute(c, m) ==
  IF m.ship = NoShip /\ m.credits < StarterValue(c) THEN GrantRecoveryShip(c, m) ELSE m

-----------------------------------------------------------------------------
(* Encounters. *)

\* planNpcFit(): every module takes the next slot of its kind, while there is one.
NpcFit(c, p) ==
  LET profile == c.profiles[p]
      kind(i) == c.modules[profile.modules[i]].slot
      index(i) == Cardinality({j \in 1..(i - 1) : kind(j) = kind(i)})
      worn == {i \in DOMAIN profile.modules : index(i) < c.hulls[profile.hull].slots[kind(i)]}
      at(s) == CHOOSE i \in worn : Slot(kind(i), index(i)) = s
      armed(i) == c.modules[profile.modules[i]].category = "turret" /\ profile.ammunition # None
  IN  [s \in {Slot(kind(i), index(i)) : i \in worn} |->
         [module |-> profile.modules[at(s)], online |-> TRUE,
          ammunition |-> IF armed(at(s)) THEN profile.ammunition ELSE None,
          rounds |-> IF armed(at(s)) THEN c.modules[profile.modules[at(s)]].magazine ELSE 0]]

\* The reserve goes into the hold, which refuses what it has no room for.
ReserveOf(c, p) ==
  LET profile == c.profiles[p]
  IN  IF profile.reserve > 0 /\ profile.ammunition # None
      THEN With(NoGoods, profile.ammunition, profile.reserve) ELSE NoGoods
CanBeSpawned(c, p) == VolumeIn(c, ReserveOf(c, p)) <= c.hulls[c.profiles[p].hull].hold

\* createNpcShip()
Opponent(c, p) ==
  [profile |-> p, loot |-> c.profiles[p].loot, hold |-> ReserveOf(c, p),
   ship |-> Ship(c, c.profiles[p].hull, NpcFit(c, p), FALSE)]

\* instantiateEncounter(): the first encounter of the site, and all it spawns.
EncounterAt(c, site) == Min({e \in DOMAIN c.encounters : c.encounters[e].site = site})
Opponents(c, e) ==
  [x \in UNION {{spawn} \X (1..spawn.count) : spawn \in c.encounters[e].spawns} |->
     Opponent(c, x[1].profile)]

-----------------------------------------------------------------------------
(* Saves: what a loaded campaign is checked against. *)

IdsOf(c) == UNION {DOMAIN Definitions(c)[k] : k \in Kinds}
IdsInFit(fit) == {fit[s].module : s \in DOMAIN fit} \cup ({fit[s].ammunition : s \in DOMAIN fit} \ {None})
IdsInShip(ship) == IF ship = NoShip THEN {} ELSE {ship.hull} \cup IdsInFit(ship.fit)
IdsInOpponent(o) == {o.profile, o.loot} \cup IdsInShip(o.ship) \cup DOMAIN o.hold

\* campaignDefinitionReferences(); encounters are numbers and have their own conjunct.
References(m) ==
  {m.station} \cup m.known \cup IdsInShip(m.ship) \cup DOMAIN m.hangar \cup DOMAIN m.hold
    \cup DOMAIN m.stock \cup (UNION {DOMAIN m.stock[s] : s \in DOMAIN m.stock})
    \cup (UNION {IdsInOpponent(m.opponents[x]) : x \in DOMAIN m.opponents})

Resolves(m, c) ==
  /\ References(m) \subseteq IdsOf(c)
  /\ m.encounter # NoEncounter => m.encounter \in DOMAIN c.encounters

\* validateFits(): damage within the hull, and nothing that could not be fitted.
ShipIsValid(ship, c) ==
  /\ ship.damage <= c.hulls[ship.hull].hitPoints
  /\ StructuralViolations(c, ship.hull, ship.fit) = {}

\* validateActiveShip()
PilotIsValid(m, c) ==
  IF m.ship = NoShip THEN m.encounter = NoEncounter /\ m.credits >= StarterValue(c)
  ELSE c.hulls[m.ship.hull].usable /\ ShipIsValid(m.ship, c)

HoldsAreValid(m, c) ==
  /\ m.ship # NoShip => VolumeIn(c, m.hold) <= m.ship.capacity
  /\ \A i \in DOMAIN m.opponents : VolumeIn(c, m.opponents[i].hold) <= m.opponents[i].ship.capacity

\* validateEconomy()
ListingsAreValid(m, c) == \A s \in DOMAIN m.stock :
  /\ DOMAIN m.stock[s] = DOMAIN ShelfAt(c, s)
  /\ \A id \in DOMAIN m.stock[s] : c.listings[s][id].fixed => m.stock[s][id] = c.listings[s][id].initial

CampaignIsValid(m, c) ==
  /\ PilotIsValid(m, c) /\ HoldsAreValid(m, c) /\ ListingsAreValid(m, c)
  /\ \A i \in DOMAIN m.opponents : ShipIsValid(m.opponents[i].ship, c)

\* loadSave()
CanBeLoaded(m, c) == Resolves(m, c) /\ CampaignIsValid(m, c)

-----------------------------------------------------------------------------
(* The steps. *)

Init ==
  /\ authored = InitialContent /\ installed = NoContent
  /\ campaign = NoCampaign /\ saved = NoCampaign /\ edits = 0 /\ moves = 0

\* Nothing of a campaign bears upon an edit, so one is made between campaigns only.
Edit ==
  /\ edits < MaxEdits /\ edits' = edits + 1 /\ campaign = NoCampaign
  /\ authored' \in EditsOf(authored)
  /\ UNCHANGED <<installed, campaign, saved, moves>>

\* A build that succeeds replaces the one that runs, and no campaign is open in it.
Release ==
  /\ authored # installed /\ Accepted(authored)
  /\ installed' = authored /\ campaign' = NoCampaign
  /\ UNCHANGED <<authored, saved, edits, moves>>

NewCampaign ==
  /\ installed # NoContent /\ campaign = NoCampaign /\ saved = NoCampaign
  /\ CanBeCreated(installed)
  /\ campaign' = CampaignOf(installed)
  /\ UNCHANGED <<authored, installed, saved, edits, moves>>

Save ==
  /\ campaign # NoCampaign /\ saved' = campaign /\ campaign' = NoCampaign
  /\ UNCHANGED <<authored, installed, edits, moves>>

Load ==
  /\ installed # NoContent /\ campaign = NoCampaign /\ saved # NoCampaign
  /\ CanBeLoaded(saved, installed)
  /\ campaign' = saved
  /\ UNCHANGED <<authored, installed, saved, edits, moves>>

Plays(m) ==
  /\ moves < MaxMoves /\ moves' = moves + 1
  /\ campaign' = m
  /\ UNCHANGED <<authored, installed, saved, edits>>

Playing == campaign # NoCampaign
Flying == Playing /\ campaign.encounter # NoEncounter
Docked == Playing /\ campaign.encounter = NoEncounter

\* Undocking and warping to a site, whose encounter begins with the arrival.
EnterSite == \E site \in {installed.encounters[e].site : e \in DOMAIN installed.encounters} :
  LET e == EncounterAt(installed, site)
  IN  /\ campaign.ship # NoShip /\ FitBreaks(installed, campaign.ship.hull, campaign.ship.fit) = {}
      /\ \A spawn \in installed.encounters[e].spawns : CanBeSpawned(installed, spawn.profile)
      /\ Plays([campaign EXCEPT !.encounter = e, !.opponents = Opponents(installed, e)])

\* Docking at any station of the system; the encounter is left behind.
Dock == \E s \in DOMAIN installed.stations :
  /\ installed.stations[s].system = installed.encounters[campaign.encounter].system
  /\ Plays([campaign EXCEPT !.encounter = NoEncounter, !.opponents = NoOpponents, !.station = s])

TakeDamage ==
  /\ campaign.ship.damage < installed.hulls[campaign.ship.hull].hitPoints
  /\ Plays([campaign EXCEPT !.ship.damage = @ + 1])

Fire == \E s \in DOMAIN campaign.ship.fit :
  /\ campaign.ship.fit[s].rounds > 0
  /\ Plays([campaign EXCEPT !.ship.fit[s].rounds = @ - 1])

\* Wrong on purpose: the room for loot is what the hull has by the content of today.
RoomByTheHull(ship) == installed.hulls[ship.hull].hold

\* The capacity a hold was given stays with the ship.
Room(ship) == ship.capacity

\* What a destroyed opponent leaves is taken into the hold.
TakeLoot == \E i \in DOMAIN campaign.opponents :
  \E e \in installed.loot[campaign.opponents[i].loot] : \E n \in e.minimum..e.maximum :
  LET hold == With(campaign.hold, e.item, n)
  IN  /\ n > 0 /\ VolumeIn(installed, hold) <= Room(campaign.ship)
      /\ Plays([campaign EXCEPT !.hold = hold, !.opponents = Restrict(@, DOMAIN @ \ {i})])

\* resolvePlayerDestruction(): recovery is at the station last docked at.
LoseShip ==
  LET hull == installed.hulls[campaign.ship.hull]
      lost == [campaign EXCEPT !.encounter = NoEncounter, !.opponents = NoOpponents, !.ship = NoShip,
                 !.hold = NoGoods, !.credits = @ + IF campaign.ship.marked THEN 0
                                  ELSE (hull.value * installed.economy.payout) \div 100]
  IN  Plays(EnsureRecoveryRoute(installed, lost))

\* One unit, at a station the campaign has a market for.  A hull no pilot may
\* use can be listed; the commit refuses what its purchase would leave.
Buy == \E id \in DOMAIN ShelfAt(installed, campaign.station) :
  LET listing == ShelfAt(installed, campaign.station)[id]
      price == IF listing.fixed THEN Price(installed, listing)
               ELSE UnitQuote(listing, campaign.stock[campaign.station][id], "stationSells")
      paid == [campaign EXCEPT !.credits = @ - price,
                 !.stock[campaign.station][id] = IF listing.fixed THEN @ ELSE @ - 1]
  IN  /\ campaign.station \in campaign.markets /\ price <= campaign.credits
      /\ listing.fixed \/ campaign.stock[campaign.station][id] > 0
      /\ IF id \in DOMAIN installed.hulls
         THEN /\ campaign.ship = NoShip /\ installed.hulls[id].usable
              /\ Plays([paid EXCEPT !.ship = Ship(installed, id, [s \in {} |-> <<>>], FALSE)])
         ELSE Plays(EnsureRecoveryRoute(installed, [paid EXCEPT !.hangar = With(@, id, 1)]))

Next ==
  \/ Edit \/ Release \/ NewCampaign \/ Save \/ Load
  \/ Docked /\ (EnterSite \/ Buy)
  \/ Flying /\ (Dock \/ TakeDamage \/ Fire \/ TakeLoot \/ LoseShip)

Spec == Init /\ [][Next]_vars

-----------------------------------------------------------------------------
Built == installed # NoContent

\* Slots of the starting fit that are loaded from rounds another slot loads too.
SharesItsRounds(c, i) == \E j \in DOMAIN c.economy.fit \ {i} :
  c.economy.fit[j].ammunition # None /\ c.economy.fit[j].ammunition = c.economy.fit[i].ammunition

\* A campaign can be created on any content that was released, and its first
\* ship wears the whole authored fit, may undock and has a loaded gun online,
\* so that a new pilot can fight before anything was bought.  Two guns that
\* share a charge are excepted: the build counts a round for each, the first
\* magazine takes all there are, and no campaign can be created.
NewPilotIsReady ==
  (Built /\ \A i \in DOMAIN installed.economy.fit : ~SharesItsRounds(installed, i)) =>
    LET start == AppliedStart(installed)
    IN  /\ CanBeCreated(installed)
        /\ Cardinality(DOMAIN start.fit) = Len(installed.economy.fit)
        /\ FitBreaks(installed, installed.economy.hull, start.fit) = {}
        /\ installed.economy.fit # <<>> =>
             \E s \in DOMAIN start.fit : start.fit[s].online /\ start.fit[s].rounds > 0

\* What the starter ship costs at a station: hull, modules and full magazines.
StarterCost(c, s) ==
  Price(c, c.listings[s][c.economy.hull]) +
  TotalOf(c.economy.fit, LAMBDA e : Price(c, c.listings[s][e.module]) +
          IF e.ammunition = None THEN 0
          ELSE Magazine(c, e) * Price(c, c.listings[s][e.ammunition]))

\* A pilot without a ship at a neutral station, who was therefore not granted
\* one, can buy the whole starter ship there, whatever they bought before and
\* under whatever content they lost the last one; there must be a market.
ShiplessCanFlyAgain ==
  Playing /\ campaign.ship = NoShip /\ campaign.station \in campaign.markets
    /\ installed.stations[campaign.station].neutral =>
    /\ StarterParts(installed) \subseteq DOMAIN campaign.stock[campaign.station]
    /\ StarterCost(installed, campaign.station) <= campaign.credits

\* Every opponent an encounter names can be spawned, wears its whole loadout
\* within the rules of fitting, and has every gun loaded with what it fires:
\* arriving at a site never fails, which would abandon the advance of time.
EveryFightCanBegin ==
  Built => \A e \in DOMAIN installed.encounters : \A spawn \in installed.encounters[e].spawns :
    LET profile == installed.profiles[spawn.profile]
        fit == NpcFit(installed, spawn.profile)
    IN  /\ CanBeSpawned(installed, spawn.profile)
        /\ Cardinality(DOMAIN fit) = Len(profile.modules)
        /\ FitBreaks(installed, profile.hull, fit) = {}
        /\ \A s \in DOMAIN fit : installed.modules[fit[s].module].category = "turret" => fit[s].rounds > 0

\* A campaign that is played can be saved and loaded again: no step, under the
\* content it began on or under a later one that took it over, leaves what the
\* checks of a load (and of every commit) refuse.
SavesReload == Playing => CanBeLoaded(campaign, installed)

\* Whatever steps of a chain of guidance are done, while one is not there is one
\* whose turn it is and that can be skipped or done from any state of play.
GuidanceCanBeFinished ==
  Built => \A g \in DOMAIN installed.guidance :
    LET chain == installed.guidance[g]
        ids == {chain[i].id : i \in DOMAIN chain}
    IN  \A done \in (SUBSET ids) \ {ids} : \E i \in DOMAIN chain :
          /\ chain[i].id \notin done /\ chain[i].requires \subseteq done
          /\ chain[i].skippable \/ chain[i].predicate \in AlwaysSatisfiable

=============================================================================
