------------------------------ MODULE ContentRules ------------------------------
(***************************************************************************)
(* What the build asks of authored content, across files: the rules a      *)
(* content pack must pass before it is compiled into the bundle the engine *)
(* runs on.                                                                *)
(*                                                                         *)
(* A content pack is a record of functions from identifiers to definitions *)
(* (c.hulls, c.modules, ...), so an identifier that is defined twice, and  *)
(* an item that a table lists twice, have no counterpart here.  Volumes    *)
(* are whole, a position is a point on a line, texts are the keys that     *)
(* have one, and a station's listings have the form of module Market.      *)
(***************************************************************************)
EXTENDS Market, Sequences, Functions, FiniteSets

CONSTANT Ids    \* the identifiers there can be of each kind

None == "none"

Kinds == {"item", "module", "ammunition", "hull", "system", "site", "station", "profile", "loot"}

\* An identifier tells its kind by its prefix.
ASSUME IdsAssumption ==
  \A k \in Kinds : None \notin Ids[k] /\ \A l \in Kinds \ {k} : Ids[k] \cap Ids[l] = {}

SlotKinds == {"weapon", "system", "engineering", "utility"}
HardpointKinds == {"turret", "launcher", "mining"}
Resources == {"power", "processing"}

CategorySlot ==
  [turret |-> "weapon", propulsion |-> "system", shieldBooster |-> "system",
   armorRepairer |-> "system", resistancePlating |-> "engineering",
   capacitorBattery |-> "engineering"]
CategoryLayer == [shieldBooster |-> "shield", armorRepairer |-> "armor"]

Physical(c) == DOMAIN c.items \cup DOMAIN c.modules \cup DOMAIN c.ammunition
Sellable(c) == Physical(c) \cup DOMAIN c.hulls
VolumeOf(c, id) ==
  CASE id \in DOMAIN c.items -> c.items[id].volume
    [] id \in DOMAIN c.modules -> c.modules[id].volume
    [] id \in DOMAIN c.ammunition -> c.ammunition[id].volume

\* Loads(m, a): the charge belongs in the weapon.
Loads(c, m, a) ==
  c.modules[m].category = "turret" /\ c.modules[m].group = c.ammunition[a].group

\* How many elements of a sequence satisfy a test, and the sum of a measure.
CountOf(s, Test(_)) == Cardinality({i \in DOMAIN s : Test(s[i])})
TotalOf(s, Measure(_)) == SumFunction([i \in DOMAIN s |-> Measure(s[i])])

-----------------------------------------------------------------------------
(* Schemas: what a file may hold by itself. *)

IsList(s) == Len(s) \in Nat /\ DOMAIN s = 1..Len(s)

Definitions(c) ==
  [item |-> c.items, module |-> c.modules, ammunition |-> c.ammunition, hull |-> c.hulls,
   system |-> c.systems, site |-> c.sites, station |-> c.stations, profile |-> c.profiles,
   loot |-> c.loot]

HullFits(h) ==
  /\ \A kind \in SlotKinds : h.slots[kind] \in Nat
  /\ \A kind \in HardpointKinds : h.hardpoints[kind] \in Nat
  /\ \A r \in Resources : h.output[r] \in Nat
  /\ {h.hold, h.hitPoints, h.value} \subseteq Nat

ModuleFits(m) ==
  /\ m.category \in DOMAIN CategorySlot /\ m.slot \in SlotKinds
  /\ m.hardpoint \in HardpointKinds \cup {None}
  /\ \A r \in Resources : m.use[r] \in Nat
  /\ {m.volume, m.value, m.magazine} \subseteq Nat
  /\ m.category = "turret" => m.magazine > 0

ListingFits(l) ==
  /\ l.fixed \in BOOLEAN /\ {l.base, l.target} \subseteq Nat \ {0}
  /\ {l.elasticity, l.spread, l.initial} \subseteq Nat

EconomyFits(e) ==
  /\ {e.credits, e.payout} \subseteq Nat /\ IsFiniteSet(DOMAIN e.items) /\ IsList(e.fit)
  /\ \A id \in DOMAIN e.items :
       e.items[id].quantity \in Nat \ {0} /\ e.items[id].place \in {"hangar", "hold"}
  /\ \A i \in DOMAIN e.fit :
       e.fit[i].slot \in SlotKinds /\ e.fit[i].index \in 0..15 /\ e.fit[i].online \in BOOLEAN

\* validateDocument(), of the fields that are read here.
SchemasHold(c) ==
  /\ \A k \in Kinds : DOMAIN Definitions(c)[k] \subseteq Ids[k] /\ IsFiniteSet(DOMAIN Definitions(c)[k])
  /\ \A h \in DOMAIN c.hulls : HullFits(c.hulls[h])
  /\ \A m \in DOMAIN c.modules : ModuleFits(c.modules[m])
  /\ \A a \in DOMAIN c.ammunition : {c.ammunition[a].volume, c.ammunition[a].value} \subseteq Nat
  /\ \A i \in DOMAIN c.items : c.items[i].volume \in Nat
  /\ \A p \in DOMAIN c.profiles : IsList(c.profiles[p].modules) /\ c.profiles[p].reserve \in Nat
  /\ \A t \in DOMAIN c.loot : \A e \in c.loot[t] : {e.minimum, e.maximum} \subseteq Nat \ {0}
  /\ IsList(c.encounters)
  /\ \A e \in DOMAIN c.encounters : \A spawn \in c.encounters[e].spawns : spawn.count \in Nat \ {0}
  /\ \A s \in DOMAIN c.listings : \A id \in DOMAIN c.listings[s] : ListingFits(c.listings[s][id])
  /\ EconomyFits(c.economy)
  /\ "effectiveSpread" \in DOMAIN c.bounds
  /\ \A pair \in DOMAIN c.bounds : {c.bounds[pair][1], c.bounds[pair][2]} \subseteq Nat
  /\ \A g \in DOMAIN c.guidance : IsList(c.guidance[g])

-----------------------------------------------------------------------------
(* Fits: a hull and a sequence of modules. *)

\* checkFitValidity()
FitIsValid(c, hull, fitted) ==
  /\ \A kind \in SlotKinds :
       CountOf(fitted, LAMBDA m : c.modules[m].slot = kind) <= c.hulls[hull].slots[kind]
  /\ \A kind \in HardpointKinds :
       CountOf(fitted, LAMBDA m : c.modules[m].hardpoint = kind) <= c.hulls[hull].hardpoints[kind]
  /\ \A r \in Resources :
       TotalOf(fitted, LAMBDA m : c.modules[m].use[r]) <= c.hulls[hull].output[r]

HullsAreValid(c) ==
  /\ \E h \in DOMAIN c.hulls : c.hulls[h].usable
  /\ \A h \in DOMAIN c.hulls : c.hulls[h].resistance <= c.combat.resistanceMaximum

ModuleIsValid(c, m) ==
  LET module == c.modules[m]
      kind == module.category
  IN  /\ module.slot = CategorySlot[kind]
      /\ module.hardpoint # None => module.slot = "weapon"
      /\ kind = "turret" =>
           /\ module.hardpoint = "turret"
           /\ \E a \in DOMAIN c.ammunition : c.ammunition[a].group = module.group
      /\ kind \in DOMAIN CategoryLayer => module.layer = CategoryLayer[kind]

Turrets(c, fitted) == {i \in DOMAIN fitted : c.modules[fitted[i]].category = "turret"}

\* Wrong on purpose: the reserve is not held against the hold.
ReserveNeedsTurretOnly(c, p) ==
  c.profiles[p].reserve > 0 =>
    Turrets(c, c.profiles[p].modules) # {} /\ c.profiles[p].ammunition # None

\* checkReserveRounds()
ReserveRoundsFit(c, p) ==
  LET profile == c.profiles[p]
  IN  profile.reserve > 0 =>
        /\ Turrets(c, profile.modules) # {} /\ profile.ammunition # None
        /\ profile.reserve * VolumeOf(c, profile.ammunition) <= c.hulls[profile.hull].hold

NpcProfileResolves(c, p) ==
  LET profile == c.profiles[p]
  IN  /\ profile.hull \in DOMAIN c.hulls /\ profile.loot \in DOMAIN c.loot
      /\ \A i \in DOMAIN profile.modules : profile.modules[i] \in DOMAIN c.modules
      /\ profile.ammunition \in DOMAIN c.ammunition \cup {None}

\* checkNpcProfiles()
NpcProfileIsValid(c, p) ==
  LET profile == c.profiles[p]
  IN  /\ FitIsValid(c, profile.hull, profile.modules)
      /\ ReserveRoundsFit(c, p)
      /\ \A i \in Turrets(c, profile.modules) :
           profile.ammunition # None /\ Loads(c, profile.modules[i], profile.ammunition)

-----------------------------------------------------------------------------
(* Places, encounters and loot. *)

LootResolves(c) == \A t \in DOMAIN c.loot : \A e \in c.loot[t] : e.item \in Physical(c)
LootIsValid(c) == \A t \in DOMAIN c.loot : \A e \in c.loot[t] : e.minimum <= e.maximum

StationResolves(c, s) ==
  c.stations[s].system \in DOMAIN c.systems /\ c.stations[s].site \in DOMAIN c.sites
StationsAreValid(c) ==
  /\ \A s \in DOMAIN c.stations :
       LET site == c.sites[c.stations[s].site]
       IN  site.kind = "station" /\ site.system = c.stations[s].system
  /\ \E s \in DOMAIN c.stations : c.stations[s].neutral

EncounterResolves(c, e) ==
  /\ c.encounters[e].system \in DOMAIN c.systems /\ c.encounters[e].site \in DOMAIN c.sites
  /\ \A spawn \in c.encounters[e].spawns : spawn.profile \in DOMAIN c.profiles

Tiers(c) == {c.encounters[e].tier : e \in DOMAIN c.encounters}
EncountersAreValid(c) ==
  /\ \A e \in DOMAIN c.encounters :
       LET site == c.sites[c.encounters[e].site]
       IN  site.kind = "combat" /\ site.system = c.encounters[e].system
  /\ \A tier \in 1..Max(Tiers(c)) : tier \in Tiers(c)

\* checkEncounterReach(): in the system of the starting station, and a warp away.
EncountersInReach(c) ==
  LET home == c.sites[c.stations[c.economy.station].site]
  IN  \A e \in DOMAIN c.encounters :
        LET site == c.sites[c.encounters[e].site]
            distance == Max({site.at - home.at, home.at - site.at})
        IN  site.system = home.system /\ distance >= c.navigation.warpMinimum

\* checkEncounterDistinctness(): by profile and distance, whatever their number.
Signature(c, e) == {<<s.profile, s.distance>> : s \in c.encounters[e].spawns}
EncountersAreDistinct(c) ==
  \A e, f \in DOMAIN c.encounters : e # f => Signature(c, e) # Signature(c, f)

\* checkRewardSummaries(): stated holds the credits the summary speaks of.
BountyTotal(c, e) ==
  MapThenSumSet(LAMBDA s : s.count * c.profiles[s.profile].bounty, c.encounters[e].spawns)
RewardsAreStated(c) ==
  \A e \in DOMAIN c.encounters : c.encounters[e].stated \subseteq {BountyTotal(c, e)}

Fittable(c, m) == \E h \in DOMAIN c.hulls :
  /\ c.hulls[h].usable /\ c.hulls[h].slots[c.modules[m].slot] > 0
  /\ c.modules[m].hardpoint # None => c.hulls[h].hardpoints[c.modules[m].hardpoint] > 0
Loadable(c, a) == \E m \in DOMAIN c.modules : Loads(c, m, a) /\ Fittable(c, m)
Listed(c) == UNION {DOMAIN c.listings[s] : s \in DOMAIN c.listings}

\* checkLootOutlets()
LootHasOutlets(c) == \A t \in DOMAIN c.loot : \A e \in c.loot[t] :
  \/ e.item \in Listed(c)
  \/ e.item \in DOMAIN c.modules /\ Fittable(c, e.item)
  \/ e.item \in DOMAIN c.ammunition /\ Loadable(c, e.item)

\* checkSiteUse()
SitesAreUsed(c) == \A s \in DOMAIN c.sites :
  c.sites[s].kind = "combat" => \E e \in DOMAIN c.encounters : c.encounters[e].site = s

-----------------------------------------------------------------------------
(* The start of a campaign. *)

StartResolves(c) ==
  /\ c.economy.station \in DOMAIN c.stations /\ c.economy.hull \in DOMAIN c.hulls
  /\ DOMAIN c.economy.items \subseteq Physical(c)
  /\ \A i \in DOMAIN c.economy.fit :
       /\ c.economy.fit[i].module \in DOMAIN c.modules
       /\ c.economy.fit[i].ammunition \in DOMAIN c.ammunition \cup {None}

HeldAtStart(c) == {id \in DOMAIN c.economy.items : c.economy.items[id].place = "hold"}

StartIsValid(c) ==
  LET volume(id) == c.economy.items[id].quantity * VolumeOf(c, id)
  IN  /\ c.stations[c.economy.station].neutral
      /\ c.systems[c.stations[c.economy.station].system] = 1
      /\ c.hulls[c.economy.hull].usable
      /\ SumFunction([id \in HeldAtStart(c) |-> volume(id)]) <= c.hulls[c.economy.hull].hold

\* Wrong on purpose: rounds are held not to be used up.
ModulesUsedByFit(c, id) == CountOf(c.economy.fit, LAMBDA e : e.module = id)

\* What the starting fit uses up: a unit for every mention.
UsedByFit(c, id) ==
  CountOf(c.economy.fit, LAMBDA e : e.module = id)
    + CountOf(c.economy.fit, LAMBDA e : e.ammunition = id)
Granted(c, id) == IF id \in DOMAIN c.economy.items THEN c.economy.items[id].quantity ELSE 0
Online(fit) == {i \in DOMAIN fit : fit[i].online}

\* checkStartingFit()
StartingFitIsValid(c) ==
  LET fit == c.economy.fit
      hull == c.hulls[c.economy.hull]
  IN  /\ \A i, j \in DOMAIN fit :
           i # j => <<fit[i].slot, fit[i].index>> # <<fit[j].slot, fit[j].index>>
      /\ \A i \in DOMAIN fit :
           /\ fit[i].slot = c.modules[fit[i].module].slot
           /\ fit[i].index < hull.slots[fit[i].slot]
           /\ fit[i].ammunition # None => Loads(c, fit[i].module, fit[i].ammunition)
           /\ \A id \in {fit[i].module, fit[i].ammunition} \ {None} :
                UsedByFit(c, id) <= Granted(c, id)
      /\ fit # <<>> => \E i \in Online(fit) : fit[i].ammunition # None
      /\ \A kind \in HardpointKinds :
           CountOf(fit, LAMBDA e : c.modules[e.module].hardpoint = kind) <= hull.hardpoints[kind]
      /\ \A r \in Resources :
           SumFunction([i \in Online(fit) |-> c.modules[fit[i].module].use[r]]) <= hull.output[r]

-----------------------------------------------------------------------------
(* Markets and recovery. *)

ListingsResolve(c) == \A s \in DOMAIN c.listings :
  s \in DOMAIN c.stations /\ DOMAIN c.listings[s] \subseteq Sellable(c)

ListingIsValid(l) ==
  /\ l.initial <= 2 * l.target
  /\ l.fixed => l.production = 0 /\ l.consumption = 0
MarketIsValid(c) ==
  \A s \in DOMAIN c.listings : \A id \in DOMAIN c.listings[s] : ListingIsValid(c.listings[s][id])

FixedAt(c, s) == {id \in DOMAIN c.listings[s] : c.listings[s][id].fixed}

\* The value of what a starter ship is made of, and what a unit of it costs.
Value(c, id) ==
  CASE id \in DOMAIN c.hulls -> c.hulls[id].value
    [] id \in DOMAIN c.modules -> c.modules[id].value
    [] id \in DOMAIN c.ammunition -> c.ammunition[id].value

Price(c, l) ==
  LET spread == Clamp(c.bounds.effectiveSpread[1], c.bounds.effectiveSpread[2], l.spread)
  IN  Max({1, RoundDiv(l.base * (100 + spread), 100)})

StarterParts(c) ==
  {c.economy.hull} \cup {c.economy.fit[i].module : i \in DOMAIN c.economy.fit}
    \cup ({c.economy.fit[i].ammunition : i \in DOMAIN c.economy.fit} \ {None})

\* Wrong on purpose: the price is held against the value before the spread is on it.
RecoveryInReachBeforeSpread(c, s) == \A id \in StarterParts(c) :
  id \in FixedAt(c, s) /\ c.listings[s][id].base <= Value(c, id)

\* checkRecoveryReach()
RecoveryInReach(c, s) == \A id \in StarterParts(c) :
  id \in FixedAt(c, s) /\ Price(c, c.listings[s][id]) <= Value(c, id)

\* checkStarterReachability()
StarterInReach(c) == \A s \in DOMAIN c.stations : c.stations[s].neutral =>
  /\ s \in DOMAIN c.listings
  /\ {h \in DOMAIN c.hulls : c.hulls[h].usable} \subseteq FixedAt(c, s)
  /\ RecoveryInReach(c, s)
  /\ LET turrets == {m \in DOMAIN c.modules \cap FixedAt(c, s) : c.modules[m].category = "turret"}
     IN  /\ turrets # {}
         /\ \A m \in turrets : \E a \in DOMAIN c.ammunition \cap FixedAt(c, s) : Loads(c, m, a)

-----------------------------------------------------------------------------
(* Rules, guidance, notifications and texts. *)

\* checkWreckReach()
WrecksInReach(c) ==
  Min(c.navigation.presets) + c.navigation.tolerance <= c.combat.wreckAccess
RulesAreValid(c) ==
  /\ \A pair \in DOMAIN c.bounds : c.bounds[pair][1] <= c.bounds[pair][2]
  /\ WrecksInReach(c)

AlwaysSatisfiable == {"destinationSelected", "undocked", "docked", "movementOrdered"}

\* Wrong on purpose: a step may require any other step of its chain.
RequiresOfChain(chain, i) == {chain[j].id : j \in DOMAIN chain \ {i}}

RequiresEarlier(chain, i) == {chain[j].id : j \in 1..(i - 1)}

\* checkGuidance()
StepIsValid(c, chain, i) ==
  /\ chain[i].requires \subseteq RequiresEarlier(chain, i)
  /\ chain[i].skippable \/ chain[i].predicate \in AlwaysSatisfiable
  /\ chain[i].predicate = "encounterEntered" => chain[i].tier <= Max(Tiers(c))
GuidanceIsValid(c) ==
  LET steps == UNION {{<<g, i>> : i \in DOMAIN c.guidance[g]} : g \in DOMAIN c.guidance}
  IN  /\ \A p, q \in steps : p # q => c.guidance[p[1]][p[2]].id # c.guidance[q[1]][q[2]].id
      /\ \A p \in steps : StepIsValid(c, c.guidance[p[1]], p[2])

\* checkNotifications()
NotificationIsValid(c, n) ==
  /\ n.cue \in DOMAIN c.cues \cup {None}
  /\ n.severity = "danger" => n.cue # None
  /\ n.trigger = "shipLost" => ~n.hideable
NotificationsAreValid(c) ==
  /\ \A n \in DOMAIN c.notifications : NotificationIsValid(c, c.notifications[n])
  /\ \A q, r \in DOMAIN c.cues : q # r => c.cues[q] = None \/ c.cues[q] # c.cues[r]
  /\ DOMAIN c.cues # {} => \E q \in DOMAIN c.cues : c.cues[q] = "danger"

\* checkLocalization(): texts are the keys of every locale that has a file.
LocalizationIsComplete(c) ==
  /\ c.defaultLocale \in c.locales /\ c.locales \subseteq DOMAIN c.texts
  /\ \A locale \in c.locales : c.keys \subseteq c.texts[locale]

-----------------------------------------------------------------------------
(* compileContent(): the schema of every file, then validateSemantics(). *)

ReferencesResolve(c) ==
  /\ StartResolves(c) /\ LootResolves(c) /\ ListingsResolve(c)
  /\ \A p \in DOMAIN c.profiles : NpcProfileResolves(c, p)
  /\ \A s \in DOMAIN c.stations : StationResolves(c, s)
  /\ \A e \in DOMAIN c.encounters : EncounterResolves(c, e)

Accepted(c) ==
  /\ SchemasHold(c) /\ ReferencesResolve(c)
  /\ StartIsValid(c) /\ StartingFitIsValid(c)
  /\ HullsAreValid(c) /\ \A m \in DOMAIN c.modules : ModuleIsValid(c, m)
  /\ \A p \in DOMAIN c.profiles : NpcProfileIsValid(c, p)
  /\ LootIsValid(c) /\ LootHasOutlets(c)
  /\ StationsAreValid(c) /\ SitesAreUsed(c)
  /\ EncountersAreValid(c) /\ EncountersInReach(c) /\ EncountersAreDistinct(c)
  /\ RewardsAreStated(c)
  /\ MarketIsValid(c) /\ StarterInReach(c)
  /\ RulesAreValid(c) /\ GuidanceIsValid(c) /\ NotificationsAreValid(c)
  /\ LocalizationIsComplete(c)

=============================================================================
