-------------------------------- MODULE PlayData --------------------------------
(***************************************************************************)
(* The presentation store of the play surface and the gateway it asks      *)
(* through.  Every operation takes the client and returns it whole, with   *)
(* the requests it sends appended to its outbox: what runs between two     *)
(* answers of the port runs without interruption.                          *)
(*                                                                         *)
(* The fourteen projections are three here, as the store treats them: the  *)
(* assets, which place the ship; what only a docked ship can answer; what  *)
(* says nothing while docked.  The requests of one Promise.all are one     *)
(* message: they are sent together, and only what this client sends later  *)
(* changes the engine.                                                     *)
(***************************************************************************)
EXTENDS Naturals, Sequences

CONSTANT Nothing    \* null

ASSUME NothingAssumption == Nothing \notin Nat \cup {"station", "space"}

Views == {"assets", "services", "combat"}
StationOnly == {"services"}
SpaceOnly == {"combat"}

-----------------------------------------------------------------------------
(* The gateway. *)

\* send(): a request is live while its id is pending.
Send(c, from, ask, elapsed) ==
  [c EXCEPT !.outbox = Append(@, [from |-> from, ask |-> ask, elapsed |-> elapsed, live |-> TRUE])]

\* The listener: an answer whose id is no longer pending resolves nothing.
IsMatched(answer) == answer.live

\* A timeout drops the id and nothing else: the request goes on its way.
Forget(messages, i) == [messages EXCEPT ![i].live = FALSE]

-----------------------------------------------------------------------------
(* Reading. *)

\* Where the ship is, as a read found it, is kept with the read: what changes
\* the placement meanwhile is not looked at again.
IdleRead == [phase |-> "idle", wanted |-> {}, at |-> Nothing, assets |-> Nothing]

\* ask(): the placement of the ship decides what is worth asking for.
Asked(c) == {v \in c.read.wanted \ {"assets"} :
  v \notin (IF c.read.at = "station" THEN SpaceOnly ELSE StationOnly)}

\* What a read shows when it ends; docked, there is no tactical view.
Publish(c, values) ==
  [c EXCEPT !.read = IdleRead, !.shown = [v \in Views |->
    CASE v = "combat" /\ c.read.at = "station" -> Nothing
      [] v = "assets" /\ c.read.assets # Nothing -> c.read.assets
      [] v \in DOMAIN values -> values[v]
      [] OTHER -> @[v]]]

NoValues == [v \in {} |-> Nothing]

Fetch(c) == Send([c EXCEPT !.read.phase = "fetching"], "fetch", Asked(c), 0)

\* One turn of readOnce(): everything queued becomes one read.
Turn(c) ==
  LET d == [c EXCEPT !.read = [IdleRead EXCEPT !.wanted = c.queue, !.at = c.place], !.queue = {}]
  IN  CASE c.queue = {} -> c
        [] c.queue # {} /\ (c.place = Nothing \/ "assets" \in c.queue) ->
             Send([d EXCEPT !.read.phase = "placing"], "place", {"assets"}, 0)
        [] OTHER -> IF Asked(d) = {} THEN Publish(d, NoValues) ELSE Fetch(d)

\* Wrong on purpose: what is asked for during a read is taken to be covered by it.
ReadOnceDropping(c, targets) ==
  IF c.read.phase # "idle" THEN c ELSE Turn([c EXCEPT !.queue = @ \cup targets])

\* readOnce()
ReadOnce(c, targets) ==
  LET d == [c EXCEPT !.queue = @ \cup targets]
  IN  IF c.read.phase # "idle" THEN d ELSE Turn(d)

OnPlaced(c, answer) ==
  LET d == [c EXCEPT !.place = answer.at,
              !.read = [@ EXCEPT !.at = answer.at, !.assets = answer.values["assets"]]]
  IN  IF Asked(d) = {} THEN Turn(Publish(d, NoValues)) ELSE Fetch(d)

OnFetched(c, answer) == Turn(Publish(c, answer.values))

\* A read that throws ends the loop: what it wanted is forgotten, what is
\* queued waits for the next one.
OnReadFailed(c) == [c EXCEPT !.read = IdleRead]

Refresh(c) == ReadOnce([c EXCEPT !.place = Nothing], Views)

\* applyInvalidations()
ApplyInvalidations(c, targets) ==
  IF targets = {} THEN c
  ELSE ReadOnce(IF "assets" \in targets THEN [c EXCEPT !.place = Nothing] ELSE c, targets)

-----------------------------------------------------------------------------
(* Autosaves. *)

\* Wrong on purpose: a trigger during a save is taken to be covered by it.
RequestAutosaveOnce(c) ==
  IF c.saving # "idle" THEN c
  ELSE Send([c EXCEPT !.saving = "asking", !.saveAgain = FALSE], "save", {}, 0)

\* requestAutosave(): a trigger that comes during a save is folded into one
\* more that follows it.
RequestAutosave(c) ==
  IF c.saving # "idle" THEN [c EXCEPT !.saveAgain = TRUE]
  ELSE Send([c EXCEPT !.saving = "asking", !.saveAgain = FALSE], "save", {}, 0)

\* session.save() follows the write, whatever its request was answered.
OnSaveEnded(c) == [c EXCEPT !.saving = "settling"]

SaveSettled(c) ==
  IF c.saveAgain
  THEN Send([c EXCEPT !.saving = "asking", !.saveAgain = FALSE], "save", {}, 0)
  ELSE [c EXCEPT !.saving = "idle"]

-----------------------------------------------------------------------------
(* Commands. *)

AnswerAutosave(c, answer) == IF answer.autosave THEN RequestAutosave(c) ELSE c

\* send(): a refusal re-reads everything, a success what it invalidated.
OnCommandAnswered(c, answer) ==
  IF answer.ok THEN AnswerAutosave(ApplyInvalidations(c, answer.invalid), answer)
  ELSE Refresh(c)

=============================================================================
