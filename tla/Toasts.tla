--------------------------------- MODULE Toasts ---------------------------------
(***************************************************************************)
(* The notification center of the play surface: which entries of the       *)
(* history that was read appear, for how long, and which cue sounds.  What *)
(* runs between two callbacks of the browser is one operation; each takes  *)
(* the center and the real time and returns the center.                    *)
(***************************************************************************)
EXTENDS Integers, FiniteSets, FiniteSetsExt

CONSTANTS
  Nothing,        \* null
  Duration,       \* of a toast, by severity
  CueSpacing,
  MaxToasts

Severities == {"informational", "opportunity", "warning", "danger"}

\* SEVERITY_RANK
Rank == [s \in Severities |->
  CASE s = "informational" -> 0 [] s = "opportunity" -> 1 [] s = "warning" -> 2 [] s = "danger" -> 3]

Cues == [at : Nat, rank : 0..3]

ASSUME NothingAssumption == Nothing \notin Nat /\ Nothing \notin Cues
ASSUME ToastsAssumption ==
  Duration \in [Severities -> Nat] /\ CueSpacing \in Nat \ {0} /\ MaxToasts \in Nat

\* As it is mounted: nothing seen, nothing heard.
FreshCenter ==
  [seen |-> Nothing, toasts |-> {}, held |-> Nothing, timer |-> Nothing,
   cue |-> Nothing, failedBefore |-> FALSE, visible |-> TRUE, sound |-> TRUE]

-----------------------------------------------------------------------------
(* Cues. *)

\* Wrong on purpose: whatever comes close behind another cue is dropped.
TooSoonForAny(t, rank, now) == t.cue # Nothing /\ now - t.cue.at < CueSpacing

\* A cue close behind one at least as urgent is merged into it.
TooSoon(t, rank, now) ==
  t.cue # Nothing /\ now - t.cue.at < CueSpacing /\ rank <= t.cue.rank

\* playCue()
PlayCue(t, rank, now) ==
  IF TooSoon(t, rank, now) THEN t ELSE [t EXCEPT !.cue = [at |-> now, rank |-> rank]]

-----------------------------------------------------------------------------
(* Toasts. *)

Leaves(toast) == toast.shownAt + Duration[toast.severity]

Unheld(t) == {x \in t.toasts : x.id # t.held}

\* Wrong on purpose: a timer that runs is kept.
ArmOnce(t, now) ==
  IF t.timer # Nothing \/ Unheld(t) = {} THEN t
  ELSE [t EXCEPT !.timer = Max({now, Min({Leaves(x) : x \in Unheld(t)})})]

\* The effect on the toasts and on which is held: one timer, for the first to leave.
Arm(t, now) ==
  [t EXCEPT !.timer = IF Unheld(t) = {} THEN Nothing
                      ELSE Max({now, Min({Leaves(x) : x \in Unheld(t)})})]

\* The timer.
Expire(t, now) ==
  Arm([t EXCEPT !.toasts = {x \in @ : x.id = t.held \/ Leaves(x) > now}], now)

Toast(e, now) ==
  [id |-> e.id, sequence |-> e.sequence, severity |-> e.severity, shownAt |-> now]

Show(t, shown, now) ==
  IF shown = {} THEN t
  ELSE Arm([t EXCEPT !.toasts = {x \in @ : \A e \in shown : e.id # x.id} \cup {Toast(e, now) : e \in shown}],
           now)

Sound(t, audible, now) ==
  IF audible = {} THEN t ELSE PlayCue(t, Max({Rank[e.severity] : e \in audible}), now)

\* Wrong on purpose: what had an entry before is not new.
FreshById(t, data) == {e \in data.entries : e.id > t.seen}

\* What was raised, or raised again, since the center last looked.
Fresh(t, data) == {e \in data.entries : e.sequence > t.seen}

Appears(t, e) == ~e.hideable \/ t.visible
Audible(t, e) == e.cue /\ t.sound

\* The effect on the history that was read: the first one is not replayed.
OnNotifications(t, data, now) ==
  IF t.seen = Nothing THEN [t EXCEPT !.seen = data.sequence]
  ELSE LET fresh == Fresh(t, data)
       IN  Sound(Show([t EXCEPT !.seen = Max({@, data.sequence})],
                      {e \in fresh : Appears(t, e)}, now),
                 {e \in fresh : Audible(t, e)}, now)

\* The effect on the save status: heard when it starts failing.
OnSaveStatus(t, failed, now) ==
  [(IF failed /\ ~t.failedBefore THEN PlayCue(t, Rank["danger"], now) ELSE t) EXCEPT !.failedBefore = failed]

\* The most urgent are on the screen, of equals the latest.
Ahead(x, y) ==
  \/ Rank[x.severity] > Rank[y.severity]
  \/ Rank[x.severity] = Rank[y.severity] /\ x.sequence > y.sequence
Visible(t) == {x \in t.toasts : Cardinality({y \in t.toasts : Ahead(y, x)}) < MaxToasts}

\* The focus in a toast holds it; the focus that leaves it, or a dismissal, lets go.
Hold(t, id, now) == Arm([t EXCEPT !.held = id], now)

Dismiss(t, id, now) ==
  Arm([t EXCEPT !.toasts = {x \in @ : x.id # id}, !.held = IF @ = id THEN Nothing ELSE @], now)

=============================================================================
