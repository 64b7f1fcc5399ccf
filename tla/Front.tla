---------------------------------- MODULE Front ----------------------------------
(***************************************************************************)
(* The page before and around play: the campaign panel, the controls of    *)
(* the frame, the station's panels and their dialogs, with the engine at   *)
(* the other end of a port.  The port keeps the order and the engine       *)
(* serves one request at a time; creating, closing and resetting wait for  *)
(* the writes before them.  A request that timed out is still served.      *)
(*                                                                         *)
(* A preview is told apart by its dialog, its subject and the versions it  *)
(* is bound to; the engine by the campaign it holds and the slot.          *)
(***************************************************************************)
EXTENDS Transactions

CONSTANTS
  ActiveShip,    \* the subject of every service
  Scenes,        \* bound: which steps one behaviour is made of
  MaxPresses,    \* bound: presses of the player, by the scene
  MaxChanges,    \* bound: dialogs opened, set anew or left, and panels changed, by the scene
  MaxHours,      \* bound: market hours
  MaxTimeouts    \* bound: requests given up

VARIABLES
  client,    \* see CampaignSession and Transactions
  engine,    \* the campaign, the slot and its writes, the versions
  world,     \* the numbers the bounds are about
  history,   \* what the properties speak of: see each
  scene      \* which steps this behaviour has; never changes

frontVars == <<client, engine, world, history, scene>>

Does(kind) == kind \in scene /\ scene' = scene

-----------------------------------------------------------------------------
(* The engine: the slot. *)

Status(e) == [state |-> e.state, settled |-> e.state # "pending" /\ e.writes = <<>>]
Slot(e)   == [status |-> Status(e), resumable |-> e.newest]

Snapshot(e, kind) == [kind |-> kind, campaign |-> e.open, docked |-> e.docked, seq |-> e.seq]

\* save(): the head is being written; a capture of its kind behind it is
\* replaced where it stands.
Captured(e, kind) ==
  LET behind == {i \in 2..Len(e.writes) : e.writes[i].kind = kind}
      shot   == Snapshot(e, kind)
  IN  [e EXCEPT !.state = "pending", !.seq = @ + 1,
         !.writes = IF behind = {} THEN Append(@, shot)
                    ELSE [i \in DOMAIN @ |-> IF i \in behind THEN shot ELSE @[i]]]

\* The slot offers what was captured last.
Newest(e, shots) ==
  LET held == shots \cup ({e.newest} \ {Nothing})
  IN  IF held = {} THEN Nothing
      ELSE CHOOSE s \in held : \A other \in held : other.seq <= s.seq

Stored(e, shots) == [e EXCEPT !.newest = Newest(e, shots)]

\* One write ends, well or not.
Written(e, ok) ==
  [Stored(e, IF ok THEN {e.writes[1]} ELSE {}) EXCEPT
     !.writes = Tail(@), !.state = IF ok THEN "saved" ELSE "failed"]

\* drain(): every write ends, and the last one says how it stands.
AfterDrain(e) ==
  {[Stored(e, {e.writes[i] : i \in ok}) EXCEPT
      !.writes = <<>>,
      !.state = IF e.writes = <<>> THEN @ ELSE IF Len(e.writes) \in ok THEN "saved" ELSE "failed"]
     : ok \in SUBSET DOMAIN e.writes}

-----------------------------------------------------------------------------
(* The engine: its answers. *)

\* What a token for this dialog is bound to now.
Versions(e, d) == [commits |-> e.commits, hours |-> IF d \in Market THEN e.hours ELSE 0]
Preview(e, d, subject) == [dialog |-> d, subject |-> subject, versions |-> Versions(e, d)]

\* Wrong on purpose: a token need only name the action and its parameters.
MatchesByName(e, p) == TRUE

\* previewTokenMatches(): what is shown now is what the token was made of.
Matches(e, p) == p.versions = Versions(e, p.dialog)

Refusal == [ok |-> FALSE]

\* Serving changes the engine to e and answers the first request in line.
Unserved == {i \in DOMAIN client.wire : client.wire[i].answer = Nothing}
First    == CHOOSE i \in Unserved : \A j \in Unserved : i <= j
Asked    == client.wire[First]

Serve(asks) == Unserved # {} /\ Asked.ask \in asks /\ UNCHANGED <<world, scene>>

AnswerWith(e, answer) ==
  /\ engine' = e
  /\ client' = [client EXCEPT !.wire[First].answer = answer]

ServeSession ==
  /\ Serve({"session"})
  /\ AnswerWith(engine, [ok |-> TRUE, campaign |-> engine.open])
  /\ UNCHANGED history

ServeSlot ==
  /\ Serve({"saves"})
  /\ AnswerWith(engine, [ok |-> TRUE, slot |-> Slot(engine)])
  /\ UNCHANGED history

\* What needs a campaign is refused without one.
ServeNobody ==
  /\ Serve({"save", "close", "reset", "assets", "preview"})
  /\ engine.open = Nothing
  /\ AnswerWith(engine, Refusal)
  /\ UNCHANGED history

\* campaign.save answers while the bytes are still in flight.
ServeSave ==
  /\ Serve({"save"})
  /\ engine.open # Nothing
  /\ LET e == Captured(engine, IF Asked.from = "save" THEN "manual" ELSE "auto")
     IN  AnswerWith(e, [ok |-> TRUE, status |-> Status(e)])
  /\ UNCHANGED history

Created == [engine EXCEPT !.open = engine.next, !.docked = TRUE, !.next = @ + 1]
Resumed == [engine EXCEPT !.open = engine.newest.campaign, !.docked = engine.newest.docked]

\* campaign.create: a new campaign in the same slot, saved before it answers.
ServeCreate ==
  /\ Serve({"create"})
  /\ \/ /\ engine.open # Nothing
        /\ AnswerWith(engine, Refusal)
     \/ /\ engine.open = Nothing
        /\ \E e \in AfterDrain(Captured(Created, "auto")) :
             AnswerWith(e, [ok |-> TRUE])
  /\ UNCHANGED history

\* campaign.resume: the newest snapshot that loads, if any does.
ServeResume ==
  /\ Serve({"resume"})
  /\ \/ AnswerWith(engine, Refusal)
     \/ /\ engine.open = Nothing /\ engine.newest # Nothing
        /\ AnswerWith(Resumed, [ok |-> TRUE])
  /\ UNCHANGED history

\* campaign.close: saved, then let go.
ServeClose ==
  /\ Serve({"close"})
  /\ engine.open # Nothing
  /\ \E e \in AfterDrain(Captured(engine, "auto")) :
       AnswerWith([e EXCEPT !.open = Nothing], [ok |-> TRUE])
  /\ UNCHANGED history

\* campaign.reset: let go, and the slot is emptied unless the store refuses.
ServeReset ==
  /\ Serve({"reset"})
  /\ engine.open # Nothing
  /\ \E e \in AfterDrain(engine) :
       \/ AnswerWith([e EXCEPT !.open = Nothing, !.state = "failed"], [ok |-> TRUE])
       \/ AnswerWith([e EXCEPT !.open = Nothing, !.state = "idle", !.newest = Nothing], [ok |-> TRUE])
  /\ UNCHANGED history

ServeStore ==
  /\ \/ /\ Serve({"assets"})
        /\ engine.open # Nothing
        /\ AnswerWith(engine, [ok |-> TRUE, seen |-> [rev |-> engine.rev, docked |-> engine.docked]])
     \/ /\ Serve({"views"})
        /\ AnswerWith(engine, [ok |-> TRUE])
  /\ UNCHANGED history

AtStation == engine.open # Nothing /\ engine.docked

ServePreview ==
  /\ Serve({"preview"})
  /\ engine.open # Nothing
  /\ AnswerWith(engine, IF ~AtStation THEN Refusal
                        ELSE [ok |-> TRUE, preview |-> Preview(engine, Asked.from, Asked.about)])
  /\ UNCHANGED history

\* Whether a commit asks for an autosave: trade does, and a resupply that
\* bought rounds.
AsksToSave(d) == IF d \in Market THEN {TRUE} ELSE IF d = "resupply" THEN BOOLEAN ELSE {FALSE}

\* A confirmation: projected again, compared, and carried out or answered with
\* its replacement.
ServeConfirm ==
  /\ Serve({"confirm"})
  /\ LET p   == Asked.about
         now == Preview(engine, p.dialog, p.subject)
     IN  \/ /\ ~AtStation
            /\ AnswerWith(engine, NoAnswer)
            /\ UNCHANGED history
         \/ /\ AtStation /\ ~Matches(engine, p)
            /\ AnswerWith(engine, [NoAnswer EXCEPT !.replacement = now])
            /\ UNCHANGED history
         \/ /\ AtStation /\ Matches(engine, p)
            /\ \E autosave \in AsksToSave(p.dialog) :
                 AnswerWith([engine EXCEPT !.rev = @ + 1, !.commits = @ + 1],
                            [NoAnswer EXCEPT !.ok = TRUE, !.autosave = autosave])
            /\ history' = [history EXCEPT !.paid = @ \cup {now}]

\* ship.undock: at once, and a point of autosave.
ServeUndock ==
  /\ Serve({"undock"})
  /\ AnswerWith(IF AtStation THEN [engine EXCEPT !.docked = FALSE, !.rev = @ + 1, !.commits = @ + 1]
                ELSE engine,
                [NoAnswer EXCEPT !.ok = AtStation, !.autosave = AtStation])
  /\ UNCHANGED history

\* The store finishes a write.
WriteEnds ==
  /\ engine.writes # <<>>
  /\ \E ok \in BOOLEAN : engine' = Written(engine, ok)
  /\ UNCHANGED <<client, world, history, scene>>

\* An hour of the market: its listings move, and the list the page reads anew for
\* it is no question for an open dialog.
MarketHour ==
  /\ Does("hour")
  /\ world.hours < MaxHours
  /\ world' = [world EXCEPT !.hours = @ + 1]
  /\ engine' = [engine EXCEPT !.rev = @ + 1, !.hours = @ + 1]
  /\ UNCHANGED <<client, history>>

-----------------------------------------------------------------------------
(* Answers and timeouts. *)

\* The play screen comes and goes with the campaign that is shown; an autosave
\* that has ended lets its confirmations end, or makes way for another.
Settled(c) ==
  LET moved == IF c.shown # Nothing /\ client.shown = Nothing THEN Mounted(c)
               ELSE IF c.shown = Nothing /\ client.shown # Nothing THEN Unmounted(c)
               ELSE c
  IN  IF Runs(client, "auto") /\ ~Runs(c, "auto") THEN Autosaved(moved) ELSE moved

Handled(c, m) ==
  CASE m.from \in Tasks -> OnAnswer(c, m.from, m.answer)
    [] m.ask = "assets" -> IF m.answer.ok THEN OnAssets(c, m.answer.seen) ELSE ReadDone(c)
    [] m.ask = "views" -> OnViews(c)
    [] m.ask = "preview" -> OnPreview(c, m.from, IF m.answer.ok THEN m.answer.preview ELSE Nothing)
    [] m.ask \in {"confirm", "undock"} -> OnConfirmed(c, m.from, m.answer)

Failed(c, m) ==
  CASE m.from \in Tasks -> OnSilence(c, m.from)
    [] m.from = "store" -> ReadEnded(c)
    [] m.ask = "preview" -> OnPreview(c, m.from, Nothing)
    [] m.ask \in {"confirm", "undock"} -> Ended(c, m.from, NoAnswer)

\* A late replacement is put where another question has been asked meanwhile.
Overtaken(c) ==
  \E d \in Dialogs : /\ client.press[d].at # "idle" /\ c.press[d].at = "idle"
                     /\ c.hook[d].replaced
                     /\ IsOpen(c, d) => c.open.subject # c.hook[d].preview.subject

\* Nothing was given up of which the page does not know since.
Informs(m, c) ==
  /\ m.ask = "saves" /\ client.task[m.from].at = "slot" /\ m.answer.slot.status.settled
  /\ \A i \in DOMAIN c.wire : c.wire[i].live

\* The last look at a save found it still being written.
GivesUp(m, c) ==
  /\ m.from \in Saving /\ client.task[m.from].at = "looking"
  /\ ~m.answer.slot.status.settled
  /\ c.task[m.from].at # "waiting"

Deliver ==
  /\ client.wire # <<>> /\ Head(client.wire).answer # Nothing
  /\ LET m == Head(client.wire)
         c == Settled(Handled([client EXCEPT !.wire = Tail(@)], m))
     IN  IF m.live
         THEN /\ client' = c
              /\ history' = [history EXCEPT
                   !.blind = IF Informs(m, c) THEN FALSE
                             ELSE @ \/ GivesUp(m, c),
                   !.overtaken = @ \/ Overtaken(c)]
         ELSE /\ client' = [client EXCEPT !.wire = Tail(@)]
              /\ UNCHANGED history
  /\ UNCHANGED <<engine, world, scene>>

TimeOut ==
  /\ Does("timeout")
  /\ world.timeouts < MaxTimeouts
  /\ \E i \in DOMAIN client.wire :
       /\ client.wire[i].live
       /\ client' = Settled(Failed([client EXCEPT !.wire[i].live = FALSE], client.wire[i]))
       /\ history' = [history EXCEPT !.blind = @ \/ client.wire[i].from \in Tasks,
                                           !.missed = @ \/ client.wire[i].from \notin Tasks,
                                           !.overtaken = @ \/ Overtaken(client')]
  /\ world' = [world EXCEPT !.timeouts = @ + 1]
  /\ UNCHANGED engine

\* The delay between two looks has passed.
Wait ==
  /\ \E t \in Saving : client.task[t].at = "waiting" /\ client' = LookAgain(client, t)
  /\ UNCHANGED <<engine, world, history, scene>>

-----------------------------------------------------------------------------
(* The player. *)

PressOnce ==
  /\ world.presses < MaxPresses[scene]
  /\ world' = [world EXCEPT !.presses = @ + 1]
  /\ UNCHANGED engine

ChangeOnce ==
  /\ world.changes < MaxChanges[scene]
  /\ world' = [world EXCEPT !.changes = @ + 1]
  /\ UNCHANGED <<engine, history>>

\* The campaign panel: Start, and Resume where there is something to resume.
\* (Bound: each task runs once at a time, and the autosave of the last campaign
\* is over.)
Enter ==
  /\ Does("enter")
  /\ PressOnce
  /\ client.shown = Nothing /\ ~client.loading /\ ~client.busy
  /\ \E t \in Entering :
       /\ ~Runs(client, t) /\ ~Runs(client, "auto")
       /\ t = "resume" => client.slot # Nothing /\ client.slot.resumable # Nothing
       /\ client' = Act(client, t)
  /\ UNCHANGED history

\* The frame: Save, Close and, once confirmed, Reset.  The runner keeps each
\* from being pressed twice, not from being pressed beside another.
Leave ==
  /\ Does("leave")
  /\ PressOnce
  /\ client.shown # Nothing
  /\ \E t \in {"save"} \cup Ending : ~Runs(client, t) /\ client' = Act(client, t)
  /\ UNCHANGED history

\* The pause control refreshes once its command is answered.
Refresh ==
  /\ Does("refresh")
  /\ PressOnce
  /\ client.shown # Nothing /\ ~Runs(client, "refresh")
  /\ client' = Read(client, "refresh")
  /\ UNCHANGED history

PassPlayTime ==
  /\ Does("interval")
  /\ PressOnce
  /\ client' = NotePlayTime(client)
  /\ UNCHANGED history

\* Another station panel; with a dialog open only by a key, while its focused
\* control is disabled.
ChangePanel ==
  /\ Does("panel")
  /\ ChangeOnce
  /\ client.here.docked
  /\ client.open # Nothing => Pressed(client, client.open.dialog)
  /\ \E panel \in {PanelOf(d) : d \in Controls \cap scene} \ {client.panel} :
       client' = OpenPanel(client, panel)

\* The button of an item or of a stack opens its dialog, unless that action is
\* pending.
OpenTrade ==
  /\ Does("trade")
  /\ ChangeOnce
  /\ client.here.docked /\ client.panel = "market" /\ client.open = Nothing
  /\ \E d \in Market \cap scene, s \in Subjects :
       ~Pressed(client, d) /\ client' = SetOpen(client, [dialog |-> d, subject |-> s])

\* A service is for the active ship.
OpenService ==
  /\ Does("trade")
  /\ ChangeOnce
  /\ client.here.docked /\ client.panel = "services" /\ client.open = Nothing
  /\ \E d \in Services \cap scene :
       ~Pressed(client, d) /\ client' = SetOpen(client, [dialog |-> d, subject |-> ActiveShip])

\* The quantity or the destination of a purchase is changed.
EditDialog ==
  /\ Does("trade")
  /\ ChangeOnce
  /\ IsOpen(client, "buy")
  /\ \E s \in Subjects \ {client.open.subject} :
       client' = SetOpen(client, [client.open EXCEPT !.subject = s])

CancelDialog ==
  /\ Does("trade")
  /\ ChangeOnce
  /\ client.open # Nothing
  /\ client' = SetOpen(client, Nothing)

Confirm ==
  /\ Does("trade")
  /\ PressOnce
  /\ client.open # Nothing /\ client.open.dialog \in Dialogs
  /\ LET d == client.open.dialog
     IN  /\ ~Pressed(client, d) /\ client.hook[d].preview # Nothing
         /\ client' = Press(client, d)
         /\ history' = [history EXCEPT !.pressed = @ \cup {client.hook[d].preview}]

\* Undock, where a warning and the player's settings may ask first.
PressUndock ==
  /\ Does("undock")
  /\ PressOnce
  /\ client.here.docked /\ client.panel = "departure" /\ ~Pressed(client, "undock")
  /\ \/ client.open = Nothing /\ client' \in {AskFirst(client), Undock(client)}
     \/ IsOpen(client, "undock") /\ client' = Undock(client)
  /\ UNCHANGED history

-----------------------------------------------------------------------------
(* The page is opened, on an empty slot, on one with a campaign in it, or in *)
(* the middle of play.                                                       *)

FreshClient ==
  [loading |-> TRUE, shown |-> Nothing, slot |-> Nothing, busy |-> FALSE, played |-> 0,
   task |-> [t \in Tasks |-> IdleTask], wire |-> <<>>, saveAgain |-> FALSE,
   panel |-> "none", open |-> Nothing, hook |-> [d \in Dialogs |-> EmptyHook],
   press |-> [d \in Controls |-> NoPress],
   reading |-> "idle", again |-> FALSE, saw |-> Nowhere, here |-> Nowhere]

FreshEngine ==
  [open |-> Nothing, next |-> 1, state |-> "idle", writes |-> <<>>, newest |-> Nothing,
   docked |-> TRUE, seq |-> 1, rev |-> 1, commits |-> 0, hours |-> 0]

\* A slot that an earlier visit of the page left.
VisitedEngine == [FreshEngine EXCEPT !.next = 2, !.seq = 2,
                    !.newest = [kind |-> "auto", campaign |-> 1, docked |-> TRUE, seq |-> 1]]

PlayedEngine == [VisitedEngine EXCEPT !.open = 1, !.state = "saved"]
PlayingClient == [FreshClient EXCEPT !.loading = FALSE, !.shown = 1, !.slot = Slot(PlayedEngine),
                    !.here = [rev |-> 1, docked |-> TRUE]]

FrontInit ==
  /\ scene \in Scenes
  /\ \/ /\ "enter" \in scene
        /\ client = Read(FreshClient, "refresh")
        /\ engine \in {FreshEngine, VisitedEngine}
     \/ /\ "trade" \in scene
        /\ \E d \in Controls \cap scene : client = [PlayingClient EXCEPT !.panel = PanelOf(d)]
        /\ engine = PlayedEngine
  /\ world = [presses |-> 0, changes |-> 0, hours |-> 0, timeouts |-> 0]
  /\ history = [paid |-> {}, pressed |-> {}, blind |-> FALSE, missed |-> FALSE, overtaken |-> FALSE]

FrontNext ==
  \/ ServeSession \/ ServeSlot \/ ServeNobody \/ ServeSave \/ ServeCreate \/ ServeResume
  \/ ServeClose \/ ServeReset \/ ServeStore \/ ServePreview \/ ServeConfirm \/ ServeUndock
  \/ WriteEnds \/ MarketHour
  \/ Deliver \/ TimeOut \/ Wait
  \/ Enter \/ Leave \/ Refresh \/ PassPlayTime
  \/ ChangePanel \/ OpenTrade \/ OpenService \/ EditDialog \/ CancelDialog \/ Confirm \/ PressUndock

FrontSpec == FrontInit /\ [][FrontNext]_frontVars

-----------------------------------------------------------------------------
(* Properties. *)

\* Nothing runs, and no answer anyone still waits for is on its way.
Quiet ==
  /\ \A t \in Tasks : ~Runs(client, t)
  /\ \A i \in DOMAIN client.wire : ~client.wire[i].live

\* Whatever was pressed, in whatever order the actions, the autosaves and the
\* looks at a save overlap: once all is quiet the page shows the campaign the
\* engine holds, the slot as it is, and its controls free.  Unless something was
\* given up and not read again since (campaignSession.ts:120-159, :204-216).
InterfaceTellsWhatIsHeld ==
  Quiet /\ ~history.blind =>
    /\ client.shown = engine.open
    /\ client.slot = Slot(engine)
    /\ ~client.busy /\ ~client.loading
    /\ client.shown # Nothing /\ ~history.missed => client.here.docked = engine.docked

\* The player is never charged what was not shown: each figure that was paid
\* was shown, as it was at that moment, when Confirm was pressed
\* (useTransactionPreview.ts:19-21, economyCommands.ts:50-106).
PaidAsShown == history.paid \subseteq history.pressed

\* Once all is quiet an open dialog shows figures for what it is set to, as they
\* are after the last confirmation, whatever answers were overtaken, dialogs
\* closed, panels changed and reads folded into one another meanwhile.  Unless a
\* replacement came after the dialog was set to something else, which the code
\* puts in its place all the same (useTransactionPreview.ts:79-146).
DialogTellsItsOwn ==
  Quiet /\ ~history.overtaken /\ client.open # Nothing /\ client.open.dialog \in Dialogs =>
    LET p == client.hook[client.open.dialog].preview
    IN  p # Nothing => /\ p.subject = client.open.subject
                       /\ ~history.missed => p.versions.commits = engine.commits

\* A request of this one is on the wire, and its answer is waited for.
Awaits(from, asks) ==
  \E i \in DOMAIN client.wire :
    client.wire[i].live /\ client.wire[i].from = from /\ client.wire[i].ask \in asks

\* Nothing that was pressed waits in vain: a task waits for its own answer or
\* for a delay, a confirmation for its own answer, for the read it asked for or
\* for an autosave that runs, the store's read for the store, and a control that
\* is off for a task that will free it (useActionRunner.ts:45-62,
\* usePlayData.ts:399-501).
NothingWaitsInVain ==
  /\ \A t \in Tasks :
       /\ client.task[t].at = "command" => Awaits(t, {AskOf(t)})
       /\ client.task[t].at = "session" => Awaits(t, {"session"})
       /\ client.task[t].at \in {"looking", "slot"} => Awaits(t, {"saves"})
  /\ \A d \in Controls :
       /\ client.press[d].at = "confirm" => Awaits(d, {"confirm", "undock"})
       /\ client.press[d].at = "refreshing" => client.reading # "idle"
       /\ client.press[d].at = "autosaving" => Runs(client, "auto")
  /\ client.reading # "idle" => Awaits("store", {client.reading})
  /\ client.busy => \E t \in Acts : Runs(client, t)

=============================================================================
