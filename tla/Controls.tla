-------------------------------- MODULE Controls --------------------------------
(***************************************************************************)
(* The player's keys: the table the defaults and the player's changes      *)
(* produce, giving an action a key, what is kept in the browser's storage  *)
(* and read from it again, and what a key press asks of the surfaces that  *)
(* are mounted.                                                            *)
(***************************************************************************)
EXTENDS Registry

CONSTANTS
  Characters,     \* bound: the names of pressed keys that are one printable character
  LowerCase,      \* bound: the lower-case form of every name of a key
  Services,       \* which of its services the station offers
  ModuleCount     \* active modules of the ship

FunctionKeys ==
  {"f1", "f2", "f3", "f4", "f5", "f6", "f7", "f8", "f9", "f10", "f11", "f12"}

\* normaliseKey(): a capital whose lower-case form is two characters becomes
\* a name that is itself no key.
NormaliseKey(key) ==
  IF key \in Characters \/ LowerCase[key] \in FunctionKeys THEN LowerCase[key] ELSE NoKey

IsBindable(key) == key \in DOMAIN LowerCase /\ key # NoKey /\ NormaliseKey(key) = key

\* Every default key is one that can be bound, and no two actions have the same.
ASSUME RegistryAssumption ==
  /\ IsFiniteSet(Remappable)
  /\ \A a \in Remappable : Position[a] \in Nat /\ IsBindable(DefaultKey[a])
  /\ \A a, b \in Remappable : DefaultKey[a] = DefaultKey[b] => a = b

-----------------------------------------------------------------------------
(* The table.  Overrides name a key, or NoKey, for some of the actions.     *)

\* An override whose key is taken by one before it in the registry gives none.
HasItsKey(overrides, a) ==
  /\ IsBindable(overrides[a])
  /\ \A b \in DOMAIN overrides : Position[b] < Position[a] => overrides[b] # overrides[a]

\* resolveBindings().byAction: a default yields to an override.
ResolveBindings(overrides) ==
  LET chosen == {overrides[a] : a \in {b \in DOMAIN overrides : HasItsKey(overrides, b)}}
      own(a) == IF a \in DOMAIN overrides THEN overrides[a] ELSE DefaultKey[a]
      free(a) == IF a \in DOMAIN overrides THEN HasItsKey(overrides, a) ELSE DefaultKey[a] \notin chosen
  IN  [a \in Remappable |-> IF free(a) THEN own(a) ELSE NoKey]

\* byKey.get()
Holders(table, key) == {a \in Remappable : table[a] = key /\ key # NoKey}

\* Drops what the defaults say already, and records as keyless a default that
\* lost its key to an override.
WithoutDefaults(overrides) ==
  LET changed == {a \in DOMAIN overrides : overrides[a] # DefaultKey[a]}
      kept == [a \in changed |-> overrides[a]]
      resolved == ResolveBindings(kept)
  IN  [a \in changed \cup {b \in Remappable : resolved[b] = NoKey} |->
         IF resolved[a] = NoKey THEN NoKey ELSE kept[a]]

\* Who loses the key to action a.
Displaced(overrides, a, key) == Holders(ResolveBindings(overrides), key) \ {a}

AssignKey(overrides, a, key) ==
  LET lost == Displaced(overrides, a, key)
  IN  WithoutDefaults(
        [b \in DOMAIN overrides \cup {a} \cup lost |->
           IF b = a THEN key ELSE IF b \in lost THEN NoKey ELSE overrides[b]])

-----------------------------------------------------------------------------
(* What is kept: nothing that can be read, or one document, which names     *)
(* keys for actions, some of which may not be ours.                         *)

DefaultPreferences == [bindings |-> [a \in {} |-> NoKey], presentation |-> "default"]

\* Wrong on purpose: a binding must name a key.
ParseKeysOnly(document) ==
  [bindings |->
     [a \in {b \in DOMAIN document.bindings \cap Remappable : IsBindable(document.bindings[b])} |->
        document.bindings[a]],
   presentation |->
     IF document.presentation \in {"default", "changed"} THEN document.presentation ELSE "default"]

\* parsePreferences(): one field at a time; a binding that names no action or
\* no key is dropped, one without a key is not.
ParsePreferences(document) ==
  [bindings |->
     [a \in {b \in DOMAIN document.bindings \cap Remappable :
               document.bindings[b] = NoKey \/ IsBindable(document.bindings[b])} |->
        document.bindings[a]],
   presentation |->
     IF document.presentation \in {"default", "changed"} THEN document.presentation ELSE "default"]

\* loadPreferences()
LoadPreferences(stored) ==
  IF stored = {} THEN DefaultPreferences
  ELSE ParsePreferences(CHOOSE document \in stored : TRUE)

\* Overrides as this program stores them, and a hand-edited store may not have
\* them: no two name one key, and none names the default of an action that is
\* not recorded as having lost it.
Settled(overrides) ==
  /\ DOMAIN overrides \subseteq Remappable
  /\ \A a \in DOMAIN overrides :
       /\ overrides[a] = NoKey \/ IsBindable(overrides[a])
       /\ \A b \in DOMAIN overrides : overrides[a] = overrides[b] /\ overrides[a] # NoKey => a = b
       /\ \A b \in Remappable \ DOMAIN overrides : overrides[a] # DefaultKey[b]

-----------------------------------------------------------------------------
(* A key press. *)

\* Where the focus is when the key goes down.
Places == {"page", "list", "field", "dialog", "capture"}

AlwaysReachable == {"time.toggle"}

\* shortcutAction(): what the press asks for, of the tables's actions.
ShortcutAction(table, press) ==
  {a \in Holders(table, LowerCase[press.key]) :
     /\ ~press.modified /\ ~press.repeated
     /\ press.place \notin {"field", "dialog", "capture"}
     /\ press.place = "list" => a \in AlwaysReachable}

RequiredService ==
  [a \in {r.id : r \in {StationPanels[i] : i \in DOMAIN StationPanels}} |->
     CASE a = "station.market" -> {"market"} [] a = "station.fitting" -> {"fitting"} [] OTHER -> {}]

SpaceActions ==
  {"space.zoomIn", "space.zoomOut", "space.centre", "space.ranges", "space.selectNext",
   "space.selectPrevious", "targeting.lock", "targeting.unlock", "loot.takeAll"}
WeaponsActions == {"weapons.fire", "weapons.cease", "weapons.reload"}
CommandBarActions ==
  {"movement.approach", "movement.orbit", "movement.keepRange", "movement.stop",
   "navigation.retreat", "navigation.warp", "navigation.dock"}
ModulesActions == {ModuleToggles[i].id : i \in 1..ModuleCount}

\* The handlers of the surfaces that are mounted where the ship is.
Offered(docked) ==
  {"time.toggle", "guidance.toggle", "notifications.log"} \cup
  IF docked THEN DOMAIN RequiredService
  ELSE SpaceActions \cup WeaponsActions \cup CommandBarActions \cup ModulesActions

\* Those that ask a projection first, and those that always act.
MayBeRefused ==
  {"targeting.lock", "targeting.unlock", "loot.takeAll", "movement.approach", "movement.orbit",
   "movement.keepRange", "navigation.warp", "navigation.dock"} \cup WeaponsActions \cup ModulesActions

\* What pressing an action's key may lead to: it acts, or the player is told why not.
Outcomes(a, docked) ==
  IF a \notin Offered(docked) THEN {"notHere"}
  ELSE IF a \in DOMAIN RequiredService THEN
    {IF RequiredService[a] \subseteq Services THEN "acts" ELSE "refused"}
  ELSE {"acts"} \cup IF a \in MayBeRefused THEN {"refused"} ELSE {}

-----------------------------------------------------------------------------
(* The player's desk: the preferences that apply, the storage and whether   *)
(* it refuses, the settings, the last key press and what came of it, and    *)
(* what the player was told, now, as of what is stored and at the press.    *)

NoPress == [key |-> NoKey, told |-> NoKey, outcome |-> "none"]

\* The keys that differ from the defaults.
Changed(table) ==
  [a \in {b \in Remappable : table[b] # DefaultKey[b]} |-> table[a]]
AsTold(preferences) ==
  [keys |-> Changed(ResolveBindings(preferences.bindings)), presentation |-> preferences.presentation]

ToldKey(told, a) == IF a \in DOMAIN told.keys THEN told.keys[a] ELSE DefaultKey[a]

\* OwnPreferences, as it is mounted.
DeskOf(stored, refuses, changes) ==
  LET preferences == LoadPreferences(stored)
  IN  [preferences |-> preferences, stored |-> stored, refuses |-> refuses,
       settings |-> FALSE, capturing |-> {}, last |-> NoPress,
       told |-> AsTold(preferences), kept |-> AsTold(preferences), changes |-> changes]

\* update() and restoreDefaults(): applied, and stored whole if the storage takes it.
Update(desk, preferences, told) ==
  [desk EXCEPT !.preferences = preferences, !.told = told, !.changes = @ + 1,
               !.stored = IF desk.refuses THEN @ ELSE {preferences},
               !.kept = IF desk.refuses THEN @ ELSE told]

Keys(desk) == ResolveBindings(desk.preferences.bindings)

\* bind(): the message names the key and the action that lost it.
Bind(desk, a, key) ==
  LET lost == Displaced(desk.preferences.bindings, a, key)
  IN  Update(desk,
        [desk.preferences EXCEPT !.bindings = AssignKey(@, a, key)],
        [desk.told EXCEPT !.keys =
           Changed([b \in Remappable |-> IF b = a THEN key
                                         ELSE IF b \in lost THEN NoKey
                                         ELSE IF b \in DOMAIN @ THEN @[b] ELSE DefaultKey[b]])])

ModifierKeys == {"Shift", "Control", "Alt", "Meta", "AltGraph", "CapsLock"}

\* onCaptureKey(), and the blur that Tab leads to.  A key whose name is not
\* its own lower-case form is thrown out by assignKey(), and nothing changes.
CaptureKey(desk, press) ==
  LET released == [desk EXCEPT !.capturing = {}]
      key == NormaliseKey(press.key)
      a == CHOOSE b \in desk.capturing : TRUE
  IN  IF press.key \in ModifierKeys THEN desk
      ELSE IF press.key \notin {"Tab", "Escape"} /\ ~press.modified /\ key # NoKey /\ IsBindable(key)
           THEN Bind(released, a, key)
           ELSE released

RestoreKeys(desk) ==
  Update(desk, [desk.preferences EXCEPT !.bindings = [a \in {} |-> NoKey]],
         [desk.told EXCEPT !.keys = [a \in {} |-> NoKey]])

RestoreDefaults(desk) ==
  Update(desk, DefaultPreferences, AsTold(DefaultPreferences))

ChoosePresentation(desk, choice) ==
  Update(desk, [desk.preferences EXCEPT !.presentation = choice],
         [desk.told EXCEPT !.presentation = choice])

=============================================================================
