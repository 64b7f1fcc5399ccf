--------------------------------- MODULE Client ---------------------------------
(***************************************************************************)
(* The client of an open campaign: the play data store, the autosave it    *)
(* answers for, the frame driver and the gateway, with the engine at the   *)
(* other end of a port.  The port delivers in order and the engine serves  *)
(* one request at a time, but answers may take longer than the gateway     *)
(* waits: a request that timed out is still served, and its answer is      *)
(* dropped.                                                                *)
(***************************************************************************)
EXTENDS FrameDriver, FiniteSets

CONSTANTS
  Engagements,      \* bound: which steps one behaviour is made of
  MaxRevision,      \* bound: changes of the campaign
  MaxTimeouts,      \* bound: requests given up, by the steps of the behaviour
  MaxCommands,      \* bound: commands of the player in flight
  MaxStarts,        \* bound: starts of the driver
  MaxTime           \* bound: real time

VARIABLES
  client,     \* place, read, queue, shown, saving, saveAgain, driver, outbox
  engine,     \* where the ship is, the revision of every view, the revision, the last capture
  inbox,      \* answers on their way
  world,      \* real time, visibility and the numbers the bounds are about
  history,    \* what the properties speak of: see each
  kinds       \* which steps this behaviour has; never changes

vars == <<client, engine, inbox, world, history, kinds>>

Init ==
  /\ client = [place |-> Nothing, shown |-> [v \in Views |-> Nothing], queue |-> {},
               read |-> [IdleRead EXCEPT !.phase = "placing", !.wanted = Views],
               saving |-> "idle", saveAgain |-> FALSE,
               driver |-> [StoppedDriver EXCEPT !.running = TRUE, !.scheduled = TRUE],
               outbox |-> <<[from |-> "place", ask |-> {"assets"}, elapsed |-> 0, live |-> TRUE]>>]
  /\ engine = [at |-> "station", ver |-> [v \in Views |-> 0], rev |-> 0, captured |-> 0]
  /\ inbox = <<>>
  /\ world = [now |-> 0, hidden |-> FALSE, timeouts |-> 0, starts |-> 1]
  /\ history = [missed |-> {}, noted |-> 0, ran |-> 0, told |-> 0]
  /\ kinds \in Engagements

Does(kind) == kind \in kinds /\ kinds' = kinds

\* The views a step has newly asked for, after all that was sent before.
NewlyAsked(c) == UNION {c.outbox[i].ask : i \in (Len(client.outbox) + 1)..Len(c.outbox)}

Becomes(c) ==
  /\ client' = c
  /\ history' = [history EXCEPT !.missed = @ \ NewlyAsked(c)]

Live(from) == {i \in DOMAIN client.outbox : client.outbox[i].from = from /\ client.outbox[i].live}
LiveAnswers(from) == {i \in DOMAIN inbox : inbox[i].from = from /\ inbox[i].live}

-----------------------------------------------------------------------------
(* The player and the page. *)

SendCommand ==
  /\ Does("command")
  /\ Cardinality(Live("command")) + Cardinality(LiveAnswers("command")) < MaxCommands
  /\ Becomes(Send(client, "command", {}, 0))
  /\ UNCHANGED <<engine, inbox, world>>

SaveSettles ==
  /\ kinds' = kinds
  /\ client.saving = "settling" /\ Becomes(SaveSettled(client))
  /\ UNCHANGED <<engine, inbox, world>>

RunFrame ==
  /\ Does("frame")
  /\ client.driver.scheduled /\ ~world.hidden
  /\ client' = Frame(client, world.now)
  /\ history' = [history EXCEPT !.told = @ + Elapsed(client, world.now)]
  /\ UNCHANGED <<engine, inbox, world>>

ToggleDriver ==
  /\ Does("driver")
  /\ \/ client.driver.running /\ Becomes(Stop(client)) /\ world' = world
     \/ /\ ~client.driver.running /\ world.starts < MaxStarts
        /\ Becomes(Start(client)) /\ world' = [world EXCEPT !.starts = @ + 1]
  /\ UNCHANGED <<engine, inbox>>

ChangeVisibility ==
  /\ Does("driver")
  /\ Becomes(OnVisibility(client))
  /\ world' = [world EXCEPT !.hidden = ~@]
  /\ UNCHANGED <<engine, inbox>>

Tick ==
  /\ Does("driver")
  /\ world.now < MaxTime
  /\ world' = [world EXCEPT !.now = @ + 1]
  /\ history' = [history EXCEPT !.ran = IF client.driver.running /\ ~world.hidden THEN @ + 1 ELSE @]
  /\ UNCHANGED <<client, engine, inbox>>

-----------------------------------------------------------------------------
(* The engine: one request at a time, in the order of the port. *)

Answer(m, ok, invalid, autosave, asked, e) ==
  [from |-> m.from, live |-> m.live, ok |-> ok, invalid |-> invalid, autosave |-> autosave,
   at |-> e.at, rev |-> e.rev, values |-> [v \in asked |-> e.ver[v]]]

Serve(from) ==
  /\ client.outbox # <<>> /\ Head(client.outbox).from \in from
  /\ client' = [client EXCEPT !.outbox = Tail(@)]
  /\ UNCHANGED <<world, history, kinds>>

ServeQuery ==
  LET m == Head(client.outbox)
  IN  /\ Serve({"place", "fetch"})
      /\ inbox' = Append(inbox, Answer(m, TRUE, {}, FALSE, m.ask, engine))
      /\ UNCHANGED engine

ServeSave ==
  LET m == Head(client.outbox)
  IN  /\ Serve({"save"})
      /\ engine' = [engine EXCEPT !.captured = engine.rev]
      /\ inbox' = Append(inbox, Answer(m, TRUE, {}, FALSE, {}, engine))

\* A command or an advance that changes some views; one that moves the ship
\* between station and space changes all, and wants to be saved.
ServeChange ==
  \E changed \in {{v} : v \in Views} \cup {Views}, autosave \in BOOLEAN :
    LET m == Head(client.outbox)
        e == [engine EXCEPT !.rev = @ + 1,
                !.ver = [v \in Views |-> IF v \in changed THEN engine.rev + 1 ELSE @[v]],
                !.at = IF changed # Views THEN @ ELSE IF @ = "station" THEN "space" ELSE "station"]
    IN  /\ "change" \in kinds
        /\ autosave => "trigger" \in kinds
        /\ (changed = Views /\ "trigger" \in kinds) => autosave
        /\ engine.rev < MaxRevision
        /\ Serve({"command", "advance"})
        /\ engine' = e
        /\ inbox' = Append(inbox, Answer(m, TRUE, changed, autosave, {}, e))

ServeNoChange == \E ok \in BOOLEAN :
  LET m == Head(client.outbox)
  IN  /\ Serve({"command", "advance"})
      /\ inbox' = Append(inbox, Answer(m, ok, {}, FALSE, {}, engine))
      /\ UNCHANGED engine

-----------------------------------------------------------------------------
(* Answers and timeouts. *)

Handled(c, m) ==
  CASE m.from = "place" -> OnPlaced(c, m)
    [] m.from = "fetch" -> OnFetched(c, m)
    [] m.from = "command" -> OnCommandAnswered(c, m)
    [] m.from = "advance" -> OnAdvanced(c, m)
    [] m.from = "save" -> OnSaveEnded(c)

Receive ==
  LET m == Head(inbox)
      c == Handled(client, m)
  IN  /\ inbox # <<>> /\ inbox' = Tail(inbox) /\ kinds' = kinds
      /\ IF IsMatched(m)
         THEN /\ client' = c
              /\ history' = [history EXCEPT !.missed = @ \ NewlyAsked(c),
                               !.noted = IF m.autosave THEN m.rev ELSE @]
         ELSE UNCHANGED <<client, history>>
      /\ UNCHANGED <<engine, world>>

Failed(c, from) ==
  CASE from \in {"place", "fetch"} -> OnReadFailed(c)
    [] from = "command" -> c
    [] from = "advance" -> OnAdvanceFailed(c)
    [] from = "save" -> OnSaveEnded(c)

\* What the read in progress was to bring: a placement brings the assets, wanted or not.
ToBring ==
  client.read.wanted \cup
    IF client.read.phase = "placing" \/ client.read.assets # Nothing THEN {"assets"} ELSE {}

\* What is no longer known to be shown, once the answer will not come.
Lost(from) ==
  CASE from \in {"place", "fetch"} -> ToBring \cup client.queue
    [] from \in {"command", "advance"} -> Views
    [] from = "save" -> {}

GiveUp(m, c) ==
  /\ Does("timeout")
  /\ m.live /\ world.timeouts < MaxTimeouts[kinds]
  /\ client' = Failed(c, m.from)
  /\ world' = [world EXCEPT !.timeouts = @ + 1]
  /\ history' = [history EXCEPT !.missed = @ \cup Lost(m.from),
                   !.noted = IF m.from = "save" /\ ~client.saveAgain THEN 0 ELSE @]
  /\ UNCHANGED engine

TimeoutUnserved == \E i \in DOMAIN client.outbox :
  /\ GiveUp(client.outbox[i], [client EXCEPT !.outbox = Forget(@, i)])
  /\ UNCHANGED inbox

TimeoutUnread == \E i \in DOMAIN inbox :
  /\ GiveUp(inbox[i], client)
  /\ inbox' = Forget(inbox, i)

Next ==
  \/ SendCommand \/ SaveSettles
  \/ RunFrame \/ ToggleDriver \/ ChangeVisibility \/ Tick
  \/ ServeQuery \/ ServeSave \/ ServeChange \/ ServeNoChange
  \/ Receive \/ TimeoutUnserved \/ TimeoutUnread

ServeOne == ServeQuery \/ ServeSave \/ ServeChange \/ ServeNoChange

\* The engine serves and the port delivers; a save that is followed ends, after
\* a bounded number of looks.
Fairness == WF_vars(ServeOne) /\ WF_vars(Receive) /\ WF_vars(SaveSettles)

Spec == Init /\ [][Next]_vars /\ Fairness

-----------------------------------------------------------------------------
(* Properties. *)

\* Nothing is on its way that could change what is shown.
Quiet ==
  /\ client.read.phase = "idle"
  /\ \A from \in {"command", "advance"} : LiveAnswers(from) = {}
  /\ \A from \in {"command", "advance"} : Live(from) = {}

Relevant(v) ==
  CASE v \in StationOnly -> engine.at = "station"
    [] v \in SpaceOnly -> engine.at = "space"
    [] OTHER -> TRUE

\* When nothing is on its way, every surface shows what the engine holds now,
\* whatever changed while it was being read, and however the ship moved: except
\* what a request that timed out was to bring, until it is asked for again.
ShownIsCurrent ==
  Quiet => \A v \in Views \ history.missed : Relevant(v) => client.shown[v] = engine.ver[v]

\* Every trigger the client received is followed by a capture at least as new,
\* one that came in the middle of another save too; a save that timed out takes
\* the triggers before it along.
TriggersAreAnswered ==
  \A r \in 1..MaxRevision : history.noted = r ~> (engine.captured >= r \/ history.noted = 0)

\* What the advances are told to simulate never adds up to more than the real
\* time the driver ran with the page visible, across suspensions, restarts with
\* an advance still in flight, and timeouts.
TimeIsNotReplayed == history.told <= history.ran

=============================================================================
