------------------------------ MODULE Transactions ------------------------------
(***************************************************************************)
(* The dialogs of the station in which something is previewed and then     *)
(* confirmed, the departure from it, the action runner that keeps a        *)
(* control from being pressed twice, and the store that re-reads what a    *)
(* confirmation changed.                                                   *)
(*                                                                         *)
(*   c.panel     the station panel that is mounted, if the pilot is docked *)
(*   c.open      the dialog that is open, and what it is set to            *)
(*   c.hook[d]   the preview a dialog holds, and whether it replaced one   *)
(*   c.press[d]  the command in flight: where it waits, and whether the    *)
(*               panel, or at least the store, it began in is still there  *)
(*   c.reading, c.again, c.saw, c.here   the read of the store, whether    *)
(*               another is wanted, what it saw and what is shown: the     *)
(*               revision of the assets, and whether the ship is docked    *)
(*   c.saveAgain whether a trigger arrived while an autosave was followed  *)
(***************************************************************************)
EXTENDS CampaignSession, FiniteSetsExt

CONSTANT Subjects   \* what a trade can be set to: an item with a quantity, or a stack

Market   == {"buy", "sell"}
Services == {"repair", "resupply", "insurance"}
Dialogs  == Market \cup Services

Controls == Dialogs \cup {"undock"}

PanelOf(d) == IF d \in Market THEN "market" ELSE IF d \in Services THEN "services" ELSE "departure"

EmptyHook == [preview |-> Nothing, replaced |-> FALSE]
Nowhere   == [rev |-> 0, docked |-> FALSE]
NoPress   == [at |-> "idle", home |-> "panel", answer |-> Nothing]

IsOpen(c, d) == c.open # Nothing /\ c.open.dialog = d
Pressed(c, d) == c.press[d].at # "idle"

-----------------------------------------------------------------------------
(* The preview. *)

\* Wrong on purpose: an answer to an earlier question is taken for the last.
SupersededNever(wire, ds) == wire

\* The effect's cleanup: the answers it still waits for are not for it.
Superseded(wire, ds) ==
  [i \in DOMAIN wire |->
     IF wire[i].from \in ds /\ wire[i].ask = "preview" THEN [wire[i] EXCEPT !.live = FALSE]
     ELSE wire[i]]

\* The effect of the dialogs ds, for another subject or another revision: one
\* that is not open forgets, the one that is open asks, and shows what it has.
Effect(c, ds) ==
  LET cleaned == [c EXCEPT !.wire = Superseded(@, ds),
                    !.hook = [d \in Dialogs |-> IF d \in ds /\ ~IsOpen(c, d) THEN EmptyHook ELSE @[d]]]
  IN  IF c.open # Nothing /\ c.open.dialog \in ds \cap Dialogs
      THEN Send(cleaned, c.open.dialog, "preview", c.open.subject)
      ELSE cleaned

\* setBuy(), setSell(), setOpen(): the dialogs that are set anew look again.
SetOpen(c, open) ==
  LET before == IF c.open = Nothing THEN {} ELSE {c.open.dialog}
      after  == IF open = Nothing THEN {} ELSE {open.dialog}
  IN  IF open = c.open THEN c ELSE Effect([c EXCEPT !.open = open], before \cup after)

OnPreview(c, d, preview) == [c EXCEPT !.hook[d].preview = preview]

-----------------------------------------------------------------------------
(* The end of a confirmation, in the dialog it was pressed in. *)

\* onCommitted(): the market closes the dialog that was confirmed, the services
\* whichever is open.
DialogClosed(c, d) == IF d \in Services \/ IsOpen(c, d) THEN SetOpen(c, Nothing) ELSE c

\* confirm(), after the command: a stale preview gives way to its replacement.
Ended(c, d, answer) ==
  LET free == [c EXCEPT !.press[d] = NoPress]
  IN  CASE c.press[d].home # "panel" \/ d = "undock" -> free
        [] c.press[d].home = "panel" /\ d # "undock" /\ answer.ok ->
             DialogClosed([free EXCEPT !.hook[d].replaced = FALSE], d)
        [] c.press[d].home = "panel" /\ d # "undock" /\ ~answer.ok ->
             IF answer.replacement # Nothing
             THEN [free EXCEPT !.hook[d] = [preview |-> answer.replacement, replaced |-> TRUE]]
             ELSE [free EXCEPT !.hook[d].replaced = FALSE]

\* The confirmations that wait at this place end.
EndAll(c, at) ==
  FoldSet(LAMBDA d, ended : Ended(ended, d, c.press[d].answer), c,
          {d \in Controls : c.press[d].at = at})

-----------------------------------------------------------------------------
(* The store. *)

\* readOnce(): one read at a time.
ReadStore(c) ==
  IF c.reading # "idle" THEN [c EXCEPT !.again = TRUE]
  ELSE Send([c EXCEPT !.reading = "assets", !.again = FALSE], "store", "assets", Nothing)

OnAssets(c, seen) ==
  Send([c EXCEPT !.reading = "views", !.saw = seen], "store", "views", Nothing)

\* Wrong on purpose: the refresh that ran the loop is not told.
ReadEndedAlone(c) == [c EXCEPT !.reading = "idle"]

\* The loop has ended: the refresh that ran it goes on.
ReadEnded(c) == EndAll([c EXCEPT !.reading = "idle"], "refreshing")

\* The loop goes on while something was queued.
ReadDone(c) ==
  IF c.again THEN ReadStore([c EXCEPT !.reading = "idle"]) ELSE ReadEnded(c)

\* requestAutosave(): triggers fold into one more save while one is followed.
RequestAutosave(c) ==
  IF Runs(c, "auto") THEN [c EXCEPT !.saveAgain = TRUE]
  ELSE Act([c EXCEPT !.saveAgain = FALSE], "auto")

\* An autosave has been followed to its end: one more when another trigger
\* came, or the confirmations that wait for it end.
Autosaved(c) ==
  IF c.saveAgain /\ c.shown # Nothing
  THEN Act([c EXCEPT !.saveAgain = FALSE], "auto")
  ELSE EndAll([c EXCEPT !.saveAgain = FALSE], "autosaving")

-----------------------------------------------------------------------------
(* Pressing. *)

Run(c, d, ask, about) ==
  Send([c EXCEPT !.press[d] = [NoPress EXCEPT !.at = "confirm"]], d, ask, about)

\* The token goes out as it came.
Press(c, d) == Run(c, d, "confirm", c.hook[d].preview)

\* The pilot is asked first when something is wrong with the ship; the
\* confirmation closes before its command goes out.
AskFirst(c) == SetOpen(c, [dialog |-> "undock", subject |-> Nothing])
Undock(c)   == Run(SetOpen(c, Nothing), "undock", "undock", Nothing)

\* send(): a commit invalidates and may ask for an autosave, which is awaited;
\* a refusal is followed by a refresh, awaited by whoever runs the read.
OnConfirmed(c, d, answer) ==
  LET asked == [c EXCEPT !.press[d].answer = answer]
      there == c.press[d].home # "nowhere"
  IN  CASE answer.ok ->
             LET read == IF there THEN ReadStore(asked) ELSE asked
             IN  IF answer.autosave
                 THEN RequestAutosave([read EXCEPT !.press[d].at = "autosaving"])
                 ELSE Ended(read, d, answer)
        [] ~answer.ok /\ there ->
             IF c.reading = "idle"
             THEN ReadStore([asked EXCEPT !.press[d].at = "refreshing"])
             ELSE Ended(ReadStore(asked), d, answer)
        [] ~answer.ok /\ ~there -> Ended(asked, d, answer)

NoAnswer == [ok |-> FALSE, autosave |-> FALSE, replacement |-> Nothing]

-----------------------------------------------------------------------------
(* Mounting. *)

\* A panel takes its dialogs along.
OpenPanel(c, panel) ==
  [c EXCEPT !.panel = panel, !.open = Nothing,
     !.wire = Superseded(@, Dialogs),
     !.hook = [d \in Dialogs |-> EmptyHook],
     !.press = [d \in Controls |-> IF @[d].home = "panel" /\ @[d].at # "idle"
                                   THEN [@[d] EXCEPT !.home = "store"] ELSE @[d]]]

\* What was read is published: a new revision is a new question for the dialogs,
\* and out of the station there are no panels.  The refresh goes on before the
\* page is drawn and its effects run.
OnViews(c) ==
  LET done  == ReadDone([c EXCEPT !.here = c.saw])
      asked == IF c.saw.rev = c.here.rev THEN done ELSE Effect(done, Dialogs)
  IN  IF c.saw.docked THEN asked ELSE OpenPanel(done, "hub")

\* The play screen is left: the store publishes no more, and what still waits
\* for it finds no page.
Unmounted(c) ==
  LET left == OpenPanel(c, "none")
  IN  [left EXCEPT !.reading = "idle", !.again = FALSE, !.here = Nowhere, !.saw = Nowhere,
         !.wire = [i \in DOMAIN left.wire |->
                     IF left.wire[i].from = "store" THEN [left.wire[i] EXCEPT !.live = FALSE]
                     ELSE left.wire[i]],
         !.press = [d \in Controls |->
                      IF left.press[d].at \in {"idle", "refreshing"} THEN NoPress
                      ELSE [left.press[d] EXCEPT !.home = "nowhere"]]]

\* The play screen shows the hub and reads everything.
Mounted(c) == ReadStore([c EXCEPT !.panel = "hub"])

=============================================================================
