------------------------------ MODULE MCContent ------------------------------
(***************************************************************************)
(* A small content pack and the edits an author may make of it: each       *)
(* touches one rule of the build, or moves a value within the rules.       *)
(***************************************************************************)
EXTENDS ContentRelease, TLC

MCIds ==
  [item |-> {"scrap"}, module |-> {"gun", "booster"}, ammunition |-> {"round"},
   hull |-> {"frigate", "raider"}, system |-> {"home"}, site |-> {"dock", "belt", "reef"},
   station |-> {"port", "depot"}, profile |-> {"pirate"}, loot |-> {"remains", "nothing"}]

Uses(power, processing) == [power |-> power, processing |-> processing]
Gun(group, volume) ==
  [category |-> "turret", slot |-> "weapon", hardpoint |-> "turret", use |-> Uses(2, 1),
   group |-> group, magazine |-> 2, layer |-> None, volume |-> volume, value |-> 11]
Listing(fixed, base) ==
  [fixed |-> fixed, base |-> base, target |-> 2, elasticity |-> 30, spread |-> 8,
   production |-> 0, consumption |-> 0, initial |-> 2]
Hull(usable, value) ==
  [usable |-> usable, slots |-> [weapon |-> 2, system |-> 1, engineering |-> 0, utility |-> 0],
   hardpoints |-> [turret |-> 2, launcher |-> 0, mining |-> 0], output |-> Uses(5, 3),
   hold |-> 4, hitPoints |-> 2, resistance |-> 50, value |-> value]
Step(id, requires, skippable, predicate) ==
  [id |-> id, requires |-> requires, skippable |-> skippable, predicate |-> predicate, tier |-> 1]
FitEntryOf(slot, index, module, ammunition) ==
  [slot |-> slot, index |-> index, module |-> module, online |-> TRUE, ammunition |-> ammunition]

Shelf == [frigate |-> Listing(TRUE, 27), gun |-> Listing(TRUE, 10), booster |-> Listing(TRUE, 7),
          round |-> Listing(TRUE, 2), scrap |-> Listing(FALSE, 3)]

MCContentPack ==
  [hulls |-> [frigate |-> Hull(TRUE, 29), raider |-> Hull(FALSE, 20)],
   modules |-> [gun |-> Gun("small", 1),
                booster |-> [category |-> "shieldBooster", slot |-> "system", hardpoint |-> None,
                             use |-> Uses(1, 1), group |-> None, magazine |-> 0,
                             layer |-> "shield", volume |-> 1, value |-> 8]],
   ammunition |-> [round |-> [group |-> "small", volume |-> 1, value |-> 2]],
   items |-> [scrap |-> [volume |-> 2]],
   systems |-> [home |-> 1],
   sites |-> [dock |-> [system |-> "home", kind |-> "station", at |-> 0],
              belt |-> [system |-> "home", kind |-> "combat", at |-> 10]],
   stations |-> [port |-> [system |-> "home", site |-> "dock", neutral |-> TRUE, market |-> TRUE]],
   profiles |-> [pirate |-> [hull |-> "raider", loot |-> "remains", modules |-> <<"gun">>,
                             ammunition |-> "round", reserve |-> 3, bounty |-> 5]],
   loot |-> [remains |-> {[item |-> "scrap", minimum |-> 1, maximum |-> 2]}],
   encounters |-> <<[system |-> "home", site |-> "belt", tier |-> 1, stated |-> {5},
                     spawns |-> {[profile |-> "pirate", distance |-> 10, count |-> 1]}]>>,
   listings |-> [port |-> Shelf],
   economy |-> [station |-> "port", hull |-> "frigate", credits |-> 44, payout |-> 30,
                items |-> [gun |-> [quantity |-> 1, place |-> "hangar"],
                           booster |-> [quantity |-> 1, place |-> "hangar"],
                           round |-> [quantity |-> 3, place |-> "hold"]],
                fit |-> <<FitEntryOf("weapon", 0, "gun", "round"),
                          FitEntryOf("system", 0, "booster", None)>>],
   bounds |-> [effectiveSpread |-> <<2, 25>>, elasticity |-> <<10, 60>>],
   navigation |-> [warpMinimum |-> 5, presets |-> {1, 5}, tolerance |-> 1],
   combat |-> [wreckAccess |-> 3, resistanceMaximum |-> 80],
   guidance |-> [first |-> <<Step("undock", {}, FALSE, "undocked"),
                             Step("fight", {"undock"}, TRUE, "weaponFired"),
                             Step("return", {"undock"}, FALSE, "docked")>>],
   notifications |-> [hullLow |-> [cue |-> "alarm", severity |-> "danger", trigger |-> "hullLow", hideable |-> TRUE],
                      shipLost |-> [cue |-> "alarm", severity |-> "danger", trigger |-> "shipLost", hideable |-> FALSE]],
   cues |-> [alarm |-> "danger", chime |-> "notice"],
   locales |-> {"en"}, defaultLocale |-> "en", keys |-> {"name"}, texts |-> [en |-> {"name"}]]

-----------------------------------------------------------------------------
(* Edits. *)

HullEdits(c) == {[c EXCEPT !.hulls.raider = h] : h \in
    {[c.hulls.raider EXCEPT !.hold = 2], [c.hulls.raider EXCEPT !.slots.weapon = 0],
     [c.hulls.raider EXCEPT !.output.power = 1], [c.hulls.raider EXCEPT !.hardpoints.turret = 0],
     [c.hulls.raider EXCEPT !.resistance = 90]}}
  \cup {[c EXCEPT !.hulls.frigate = h] : h \in
    {[c.hulls.frigate EXCEPT !.hold = 2], [c.hulls.frigate EXCEPT !.hold = 6],
     [c.hulls.frigate EXCEPT !.hitPoints = 1], [c.hulls.frigate EXCEPT !.value = 40],
     [c.hulls.frigate EXCEPT !.value = 27], [c.hulls.frigate EXCEPT !.usable = FALSE],
     [c.hulls.frigate EXCEPT !.slots.system = 0], [c.hulls.frigate EXCEPT !.output.processing = 1]}}

ModuleEdits(c) == {[c EXCEPT !.modules.gun = m] : m \in
    {[c.modules.gun EXCEPT !.magazine = 1], [c.modules.gun EXCEPT !.magazine = 4],
     [c.modules.gun EXCEPT !.group = "large"], [c.modules.gun EXCEPT !.slot = "system"],
     [c.modules.gun EXCEPT !.hardpoint = None], [c.modules.gun EXCEPT !.value = 10]}}
  \cup {[c EXCEPT !.modules.booster.layer = "armor"], [c EXCEPT !.ammunition.round.volume = 2],
        [c EXCEPT !.items.scrap.volume = 3]}

ProfileEdits(c) == {[c EXCEPT !.profiles.pirate = p] : p \in
    {[c.profiles.pirate EXCEPT !.reserve = 5], [c.profiles.pirate EXCEPT !.ammunition = None],
     [c.profiles.pirate EXCEPT !.modules = <<"gun", "gun">>],
     [c.profiles.pirate EXCEPT !.modules = <<"gun", "gun", "gun">>],
     [c.profiles.pirate EXCEPT !.modules = <<"gun", "booster">>],
     [c.profiles.pirate EXCEPT !.modules = <<"booster">>],
     [c.profiles.pirate EXCEPT !.bounty = 6], [c.profiles.pirate EXCEPT !.loot = "nothing"]}}

PlaceEdits(c) ==
  LET second == [c.encounters[1] EXCEPT !.spawns = {[profile |-> "pirate", distance |-> 20, count |-> 2]},
                                        !.stated = {10}]
  IN  {[c EXCEPT !.sites.belt.at = 4], [c EXCEPT !.sites.belt.kind = "station"],
       [c EXCEPT !.stations.port.neutral = FALSE], [c EXCEPT !.stations.port.market = FALSE],
       [c EXCEPT !.systems.home = 2], [c EXCEPT !.encounters[1].tier = 2],
       [c EXCEPT !.encounters = <<c.encounters[1], second>>],
       [c EXCEPT !.encounters = <<c.encounters[1], c.encounters[1]>>],
       [c EXCEPT !.loot.remains = {[item |-> "scrap", minimum |-> 3, maximum |-> 2]}],
       [c EXCEPT !.loot.remains = {[item |-> "gun", minimum |-> 1, maximum |-> 1]}],
       [c EXCEPT !.sites = c.sites @@ ("reef" :> c.sites.belt)]}

MarketEdits(c) ==
  LET depot(neutral) == [system |-> "home", site |-> "dock", neutral |-> neutral, market |-> TRUE]
      opened(neutral) == [c EXCEPT !.stations = @ @@ ("depot" :> depot(neutral))]
  IN  {[c EXCEPT !.listings.port = l] : l \in
         {[c.listings.port EXCEPT !.gun.base = 11], [c.listings.port EXCEPT !.gun.base = 9],
          [c.listings.port EXCEPT !.frigate.base = 28], [c.listings.port EXCEPT !.round.fixed = FALSE],
          [c.listings.port EXCEPT !.round.initial = 4], [c.listings.port EXCEPT !.scrap.initial = 5],
          [c.listings.port EXCEPT !.scrap.initial = 1],
          [c.listings.port EXCEPT !.booster.production = 1],
          [id \in DOMAIN c.listings.port \ {"scrap"} |-> c.listings.port[id]],
          [id \in DOMAIN c.listings.port \ {"round"} |-> c.listings.port[id]],
          c.listings.port @@ ("raider" :> Listing(TRUE, 20))}}
      \cup {opened(TRUE), opened(FALSE),
            [opened(TRUE) EXCEPT !.listings = @ @@ ("depot" :> c.listings.port)]}

StartEdits(c) ==
  LET one(kind, index) == FitEntryOf(kind, index, "gun", "round")
      guns(n) == [c EXCEPT !.economy.items.gun.quantity = 2, !.economy.items.round.quantity = n,
                           !.economy.fit = <<one("weapon", 1), one("weapon", 0)>>]
  IN  {[c EXCEPT !.economy = e] : e \in
         {[c.economy EXCEPT !.credits = 80], [c.economy EXCEPT !.credits = 20],
          [c.economy EXCEPT !.payout = 70],
          [c.economy EXCEPT !.items.round.quantity = 5], [c.economy EXCEPT !.items = [id \in DOMAIN @ \ {"round"} |-> @[id]]],
          [c.economy EXCEPT !.fit = <<one("weapon", 0)>>], [c.economy EXCEPT !.fit = <<one("weapon", 2)>>],
          [c.economy EXCEPT !.fit[1].online = FALSE], [c.economy EXCEPT !.fit[1].ammunition = None],
          [c.economy EXCEPT !.fit[2].ammunition = "round"], [c.economy EXCEPT !.hull = "raider"]}}
      \cup {guns(2), guns(4)}

RuleEdits(c) ==
  {[c EXCEPT !.bounds.effectiveSpread = <<12, 25>>],
   [c EXCEPT !.bounds.effectiveSpread = <<2, 6>>], [c EXCEPT !.bounds.elasticity = <<70, 60>>],
   [c EXCEPT !.combat.wreckAccess = 1], [c EXCEPT !.navigation.presets = {3, 5}],
   [c EXCEPT !.guidance.first[3].skippable = TRUE], [c EXCEPT !.guidance.first[2].skippable = FALSE],
   [c EXCEPT !.guidance.first[1].requires = {"return"}], [c EXCEPT !.guidance.first[2].id = "undock"],
   [c EXCEPT !.guidance.first[3].requires = {"fight"}],
   [c EXCEPT !.guidance.first[2] = Step("fight", {}, TRUE, "encounterEntered")],
   [c EXCEPT !.notifications.shipLost.hideable = TRUE], [c EXCEPT !.notifications.hullLow.cue = None],
   [c EXCEPT !.cues.alarm = None], [c EXCEPT !.locales = {"en", "de"}], [c EXCEPT !.keys = {"name", "new"}]}

MCEdits(c) ==
  HullEdits(c) \cup ModuleEdits(c) \cup ProfileEdits(c) \cup PlaceEdits(c)
    \cup MarketEdits(c) \cup StartEdits(c) \cup RuleEdits(c)

=============================================================================
