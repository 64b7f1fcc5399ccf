--------------------------------- MODULE MCPage ---------------------------------
(* A small instance of Page for TLC. *)
EXTENDS Page

Notification(id, listens, severity) ==
  [id |-> id, listens |-> listens, severity |-> severity, ofPlayer |-> FALSE, reasons |-> {},
   positive |-> FALSE, bySubject |-> FALSE, adds |-> FALSE, once |-> FALSE, window |-> 0,
   hideable |-> TRUE, cue |-> TRUE]

MCAuthored ==
  <<[Notification("hostileLock", "lockCompleted", "danger") EXCEPT !.ofPlayer = TRUE, !.once = TRUE, !.window = 1],
    [Notification("shieldLow", "layerFell", "danger") EXCEPT !.window = 2],
    [Notification("armorDamaged", "damageApplied", "danger") EXCEPT !.ofPlayer = TRUE, !.positive = TRUE, !.once = TRUE],
    [Notification("loot", "lootTaken", "informational") EXCEPT
       !.bySubject = TRUE, !.adds = TRUE, !.window = 1, !.cue = FALSE],
    [Notification("shipLost", "shipLost", "danger") EXCEPT !.hideable = FALSE],
    Notification("docked", "docked", "informational"),
    [Notification("guidanceStep", "stepCompleted", "opportunity") EXCEPT !.bySubject = TRUE]>>

Step(id, requires, predicate) ==
  [id |-> id, requires |-> requires, predicate |-> predicate, ofPlayer |-> FALSE, reasons |-> {},
   skippable |-> TRUE]

MCSteps ==
  <<[Step("lock", {}, "lockCompleted") EXCEPT !.ofPlayer = TRUE],
    Step("loot", {}, "lootTaken"),
    Step("return", {"loot"}, "docked"),
    Step("ready", {"return"}, "shipReady")>>

Event(kind, ship, subject, amount, at) ==
  [kind |-> kind, ship |-> ship, subject |-> subject, reason |-> "", amount |-> amount,
   holds |-> TRUE, at |-> at]

Happening(in, from, events, elapsed, player, shield, conditions) ==
  [in |-> in, from |-> from, events |-> events, elapsed |-> elapsed, player |-> player,
   shield |-> shield, conditions |-> conditions]

Docked == {<<Ship, "away">>}
InSpace == {<<Ship, "high">>, <<Ship, "low">>}

Lost == <<Event("damageApplied", Ship, "", 0, 0), Event("shipLost", Ship, "", 0, 0)>>

MCHappenings ==
  {Happening({"battle", "loop", "news"}, Docked, <<Event("undocked", Ship, "", 0, 0)>>, 0, Ship, "high", {}),
   Happening({"battle", "loop"}, InSpace, <<Event("lockCompleted", Ship, "", 0, 1)>>, 1, Ship, "high", {}),
   Happening({"battle"}, InSpace,
             <<Event("lockCompleted", Ship, "", 0, 0), Event("damageApplied", Ship, "", 1, 1)>>,
             1, Ship, "low", {}),
   Happening({"battle"}, InSpace,
             <<Event("lootTaken", Ship, "ore", 1, 1), Event("lootTaken", Ship, "scrap", 1, 2)>>,
             2, Ship, "high", {}),
   Happening({"battle", "loop", "news"}, InSpace, <<Event("lootTaken", Ship, "ore", 2, 0)>>, 1, Ship, "high", {}),
   Happening({"loop"}, InSpace, <<Event("docked", Ship, "", 0, 0)>>, 1, Ship, "away", {"shipReady"}),
   Happening({"news"}, InSpace, <<Event("damageApplied", Ship, "", 1, 0)>>, 0, Ship, "high", {}),
   Happening({"battle", "news"}, InSpace, Lost, 0, NoShip, "away", {}),
   Happening({"battle"}, {<<NoShip, "away">>}, <<>>, 0, Ship, "away", {})}

MCDuration == [informational |-> 1, opportunity |-> 1, warning |-> 2, danger |-> 2]

Telling == {"battle"}
Guiding == {"loop", "guide"}
Opening == {"news", "read", "open"}
Showing == {"news", "read", "time", "hands"}
Sounding == {"news", "read", "time", "save"}

Keying == {"keys"}

\* Keys by name: a character that is nobody's, a capital, a function key, one
\* that is no key, and a capital whose lower-case form is two characters.
MCLowerCase ==
  LET same == {DefaultKey[a] : a \in Remappable} \cup {"z", "f5", "escape", "tab", "shift", "twoletters"}
  IN  [k \in same \cup {"L", "F5", "Escape", "Tab", "Shift", "Twoletters"} |->
         CASE k = "L" -> "l" [] k = "F5" -> "f5" [] k = "Escape" -> "escape" [] k = "Tab" -> "tab"
           [] k = "Shift" -> "shift" [] k = "Twoletters" -> "twoletters" [] OTHER -> k]
MCCharacters == {DefaultKey[a] : a \in Remappable} \cup {"z", "L", "Twoletters"}

Stroke(key, place) == [key |-> key, place |-> place, modified |-> FALSE, repeated |-> FALSE]
Held(stroke) == [stroke EXCEPT !.modified = TRUE]

MCPresses ==
  {Stroke(k, "capture") : k \in {"z", "L", "h", "F5", "Escape", "Shift", "Twoletters"}}
  \cup {Held(Stroke("h", "capture")), Held(Stroke("L", "page"))}
  \cup {Stroke("L", place) : place \in {"page", "field", "dialog"}}
  \cup {Stroke("p", place) : place \in {"page", "list"}}
  \cup {Stroke("h", "list"), Stroke("h", "page")}

MCEditable == {"station.hub", "targeting.lock"}

Document(bindings, presentation) == {[bindings |-> bindings, presentation |-> presentation]}
MCDocuments ==
  {{},
   Document([a \in {} |-> NoKey], "garbage"),
   Document([a \in {"station.hub", "targeting.lock", "no.such.action"} |->
               IF a = "targeting.lock" THEN "h" ELSE NoKey], "changed")}

MCEngagements == {Telling, Guiding, Opening, Showing, Sounding, Keying}
MCMaxRaises == [k \in MCEngagements |-> CASE k = Telling -> 7 [] k = Opening -> 4 [] OTHER -> 3]
MCMaxAge == [k \in MCEngagements |-> CASE k = Telling -> 6 [] k = Opening -> 4 [] OTHER -> 2]

=============================================================================
