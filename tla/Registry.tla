-------------------------------- MODULE Registry --------------------------------
(***************************************************************************)
(* The actions the player can take, in the order and the groups of the     *)
(* action registry, each with the key it has by default.                   *)
(***************************************************************************)
EXTENDS Integers, Sequences, FiniteSets

NoKey == ""

Registered(category, rows) ==
  [i \in DOMAIN rows |-> [id |-> rows[i][1], shortcut |-> rows[i][2], category |-> category]]

\* Actions that have no key.
Buttons(category, ids) == Registered(category, [i \in DOMAIN ids |-> <<ids[i], NoKey>>])

StationPanels ==
  Registered("navigation",
    << <<"station.hub", "h">>, <<"station.market", "m">>, <<"station.hangar", "g">>,
      <<"station.fitting", "f">>, <<"station.services", "r">>, <<"station.ship", "y">>,
      <<"station.departure", "u">> >>)

StationActions ==
  Buttons("station",
    <<"market.buy", "market.sell", "inventory.transfer", "item.inspect", "item.compare",
      "fitting.begin", "fitting.commit", "fitting.revert", "fitting.clear",
      "repair.confirm", "resupply.confirm", "insurance.confirm">>)

FlightActions ==
  Registered("flight",
    << <<"navigation.selectDestination", NoKey>>, <<"navigation.selectBookmark", NoKey>>,
      <<"ship.undock", NoKey>>, <<"movement.approach", "a">>, <<"movement.orbit", "o">>,
      <<"movement.keepRange", "k">>, <<"movement.moveToPoint", NoKey>>, <<"movement.stop", "s">>,
      <<"navigation.warp", "w">>, <<"navigation.dock", "d">>, <<"navigation.retreat", "x">> >>)

CombatActions ==
  Registered("combat",
    << <<"targeting.lock", "l">>, <<"targeting.unlock", "n">>, <<"weapons.fire", "e">>,
      <<"weapons.cease", "q">>, <<"weapons.reload", "v">> >>)
  \o Buttons("combat",
    <<"weapon.activate", "weapon.deactivate", "weapon.reload", "weapon.changeAmmunition",
      "module.activate", "module.deactivate">>)

ModuleToggles ==
  Registered("combat",
    << <<"module.toggle.1", "1">>, <<"module.toggle.2", "2">>,
      <<"module.toggle.3", "3">>, <<"module.toggle.4", "4">> >>)

LootActions == Registered("combat", << <<"loot.take", NoKey>>, <<"loot.takeAll", "t">> >>)

ViewActions ==
  Registered("view",
    << <<"space.selectNext", "]">>, <<"space.selectPrevious", "[">>, <<"space.ranges", "b">>,
      <<"space.zoomIn", "=">>, <<"space.zoomOut", "-">>, <<"space.centre", "c">> >>)

FrameActions ==
  Registered("time", << <<"time.toggle", "p">> >>)
  \o Registered("view",
    << <<"guidance.toggle", "j">>, <<"guidance.skip", NoKey>>, <<"guidance.goTo", NoKey>>,
      <<"notifications.log", "i">>, <<"notifications.settings", NoKey>>,
      <<"preferences.open", NoKey>>, <<"preferences.restoreDefaults", NoKey>>,
      <<"notifications.dismiss", NoKey>> >>)

CampaignActions == Buttons("campaign", <<"campaign.save", "campaign.close", "campaign.reset">>)

AllActions ==
  StationPanels \o StationActions \o FlightActions \o CombatActions \o ModuleToggles
  \o LootActions \o ViewActions \o FrameActions \o CampaignActions

\* REMAPPABLE_ACTIONS, in the order of the registry.
RemappableActions == SelectSeq(AllActions, LAMBDA a : a.shortcut # NoKey)
Remappable == {RemappableActions[i].id : i \in DOMAIN RemappableActions}

Position == [a \in Remappable |-> CHOOSE i \in DOMAIN RemappableActions : RemappableActions[i].id = a]
DefaultKey == [a \in Remappable |-> RemappableActions[Position[a]].shortcut]

=============================================================================
