----------------------------- MODULE CampaignSession -----------------------------
(***************************************************************************)
(* The client's campaign session: the actions of the player, the autosaves *)
(* and the refreshes run as tasks, any number of them at once, each        *)
(* waiting for one answer at a time.  Whatever an action came to, it ends  *)
(* with a read of the session and the slot.                                *)
(*                                                                         *)
(* Every operation takes the client c and returns it:                      *)
(*   c.shown, c.slot, c.loading, c.busy   what is published                *)
(*   c.task[t]   how far a task is: at, tries, and the campaign it saw     *)
(*   c.played    play time since the last save that was asked for          *)
(*   c.wire      the requests sent, in order: unanswered, answered, or     *)
(*               given up (not live)                                       *)
(* The frame a read also asks for holds nothing but the clock: left out.   *)
(***************************************************************************)
EXTENDS Integers, Sequences

CONSTANTS
  Nothing,           \* no campaign, no slot, no preview, no answer
  SettleAttempts,    \* looks at a save that is still being written
  AutosaveInterval   \* play time between interval autosaves

ASSUME SettleAssumption ==
  SettleAttempts \in Nat \ {0} /\ AutosaveInterval \in Nat \ {0}

Entering == {"create", "resume"}
Ending   == {"close", "reset"}
Saving   == {"save", "auto", "interval"}

\* What runs through act(): all but the interval autosave and the refresh.
Acts  == Entering \cup Ending \cup {"save", "auto"}
Tasks == Acts \cup {"interval", "refresh"}

IdleTask == [at |-> "idle", tries |-> 0, saw |-> Nothing]

Runs(c, t) == c.task[t].at # "idle"

\* request(): the port keeps the order.
Send(c, from, ask, about) ==
  [c EXCEPT !.wire =
     Append(@, [from |-> from, ask |-> ask, about |-> about, live |-> TRUE, answer |-> Nothing])]

-----------------------------------------------------------------------------
(* read(), and what follows when it ends. *)

Asks(c, t, at, ask) == Send([c EXCEPT !.task[t].at = at], t, ask, Nothing)

Read(c, t) == Asks(c, t, "session", "session")

\* The finally of act().
End(c, t) == [c EXCEPT !.task[t] = IdleTask, !.busy = IF t \in Acts THEN FALSE ELSE @]

\* Every action re-reads whatever happened; the interval autosave does not.
Then(c, t) == IF t = "interval" THEN End(c, t) ELSE Read(c, t)

OnSession(c, t, campaign) == Asks([c EXCEPT !.task[t].saw = campaign], t, "slot", "saves")

\* Both answers are published at once.
OnSlot(c, t, slot) ==
  End([c EXCEPT !.loading = FALSE, !.shown = c.task[t].saw, !.slot = slot], t)

-----------------------------------------------------------------------------
(* Commands and saves. *)

\* A save is stamped and asked for under its kind; the rest under its name.
AskOf(t) == IF t \in Saving THEN "save" ELSE t

Act(c, t) ==
  Send([c EXCEPT !.task[t].at = "command", !.busy = IF t \in Acts THEN TRUE ELSE @],
       t, AskOf(t), c.slot)

\* noteCommand(): what the engine did is also what it has saved, so the play
\* time starts anew.
OnCommand(c, t, ok) == Then([c EXCEPT !.played = IF ok THEN 0 ELSE @], t)

\* Only the status is known yet: the slot is shown as it was.
Told(c, status) ==
  [c EXCEPT !.slot = IF @ = Nothing THEN Nothing ELSE [@ EXCEPT !.status = status]]

\* Wrong on purpose: a queued write is taken for a finished one.
OnSaveUnfollowed(c, t, answer) ==
  IF answer.ok THEN Then(Told(c, answer.status), t) ELSE Then(c, t)

\* requestSave(): the answer comes before the bytes are written.
OnSave(c, t, answer) ==
  IF ~answer.ok
  THEN Then(c, t)
  ELSE LET told == Told(c, answer.status)
       IN  IF answer.status.settled
           THEN Then(told, t)
           ELSE [told EXCEPT !.task[t].at = "waiting", !.task[t].tries = 0]

\* settleSave(): a bounded number of looks at the slot.
LookAgain(c, t) == Asks(c, t, "looking", "saves")

OnLook(c, t, slot) ==
  LET shown == [c EXCEPT !.slot = slot, !.task[t].tries = @ + 1]
  IN  IF slot.status.settled \/ shown.task[t].tries = SettleAttempts
      THEN Then(shown, t)
      ELSE [shown EXCEPT !.task[t].at = "waiting"]

\* No answer in time.  In a command or a save it is caught and the read
\* follows; in the read it ends the task.
OnSilence(c, t) ==
  IF c.task[t].at \in {"command", "looking"}
  THEN Then(c, t)
  ELSE End([c EXCEPT !.loading = IF t = "refresh" THEN FALSE ELSE @], t)

OnAnswer(c, t, answer) ==
  CASE c.task[t].at = "command" /\ t \in Saving -> OnSave(c, t, answer)
    [] c.task[t].at = "command" /\ t \notin Saving -> OnCommand(c, t, answer.ok)
    [] c.task[t].at = "looking" -> OnLook(c, t, answer.slot)
    [] c.task[t].at = "session" -> OnSession(c, t, answer.campaign)
    [] c.task[t].at = "slot" -> OnSlot(c, t, answer.slot)

-----------------------------------------------------------------------------
(* The play timer. *)

\* notePlayTime(): time counts while a campaign is shown; when enough has
\* passed and no interval autosave is under way, one is asked for.
NotePlayTime(c) ==
  LET played == c.played + 1
  IN  IF c.shown = Nothing THEN c
      ELSE IF played < AutosaveInterval \/ Runs(c, "interval")
      THEN [c EXCEPT !.played = played]
      ELSE Act([c EXCEPT !.played = 0], "interval")

=============================================================================
