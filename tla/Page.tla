---------------------------------- MODULE Page ----------------------------------
(***************************************************************************)
(* An open campaign as its player is told of it: the transactions of the   *)
(* engine raise and group notifications and move the guidance on, the      *)
(* store reads the history now and then, the notification center shows and *)
(* sounds what is new, and the page leaves the campaign and opens it again *)
(* from a snapshot.  The player's preferences are the browser's: keys may  *)
(* be changed and pressed, and outlive the page.                           *)
(***************************************************************************)
EXTENDS Notices, Toasts, Controls

CONSTANTS
  Happenings,     \* the transactions of the play: what each publishes and leaves behind
  Ship,
  Engagements,    \* bound: which steps one behaviour is made of
  MaxRaises,      \* bound: raises of a campaign, by the steps of the behaviour
  MaxAge,         \* bound: simulation time, likewise
  MaxTime,        \* bound: real time
  MaxOpens,       \* bound: times the campaign is opened
  Documents,      \* bound: what the browser may have stored before
  Presses,        \* bound: key presses, with where the focus is and what is held
  Editable,       \* bound: the actions whose keys are changed
  MaxChanges      \* bound: changes of the preferences, and presses that ask for something

VARIABLES
  campaign,   \* the engine's, as far as the observers read and write it
  saved,      \* the snapshot that is opened
  observed,   \* what the last transaction published, Nothing after an opening
  center,     \* the notification center
  desk,       \* the player's preferences and keys
  page,       \* whether a campaign is open, and the history last read
  world,      \* real time and how often the campaign was opened
  history,    \* what the properties speak of: see each
  kinds       \* which steps this behaviour has; never changes

\* The content's schema and rules: every definition has an id of its own; and of
\* what is told once in a visit to a site there is no more than the memory of
\* the site holds, for it is told of no subject.
ASSUME AuthoredAssumption ==
  /\ DOMAIN Authored = 1..Len(Authored)
  /\ \A i \in DOMAIN Authored :
       /\ Authored[i].severity \in Severities
       /\ Authored[i].hideable \in BOOLEAN /\ Authored[i].cue \in BOOLEAN
       /\ Authored[i].window \in Nat /\ Authored[i].adds \in BOOLEAN
       /\ Authored[i].once => ~Authored[i].bySubject
       /\ \A j \in DOMAIN Authored : Authored[j].id = Authored[i].id => j = i
  /\ Cardinality({Authored[i].id : i \in {j \in DOMAIN Authored : Authored[j].once}}) <= SiteMemory

\* The histories there are to read.
Histories ==
  [sequence : Nat,
   entries : SUBSET [id : Nat, sequence : Nat, severity : Severities, hideable : BOOLEAN, cue : BOOLEAN]]

ASSUME UnreadAssumption == Nothing \notin Histories

\* A transaction publishes in the order of simulation time, and time passes.
ASSUME HappeningsAssumption ==
  \A h \in Happenings :
    /\ Len(h.events) \in Nat /\ DOMAIN h.events = 1..Len(h.events) /\ h.elapsed \in Nat
    /\ \A i \in DOMAIN h.events :
         /\ h.events[i] = [kind |-> h.events[i].kind, ship |-> h.events[i].ship,
                           subject |-> h.events[i].subject, reason |-> h.events[i].reason,
                           amount |-> h.events[i].amount, holds |-> h.events[i].holds,
                           at |-> h.events[i].at]
         /\ h.events[i].at \in 0..h.elapsed /\ h.events[i].amount \in Int
         /\ \A j \in 1..i : h.events[j].at <= h.events[i].at

\* The content's rules: every step has an id of its own, and one definition, which
\* is of each step by itself and knows no conditions, tells of completed steps.
\* What else happens is about something else.
ASSUME GuidanceAssumption ==
  /\ DOMAIN Steps = 1..Len(Steps)
  /\ \A i \in DOMAIN Steps :
       /\ Steps[i].id # ""
       /\ \A j \in DOMAIN Steps : Steps[j].id = Steps[i].id => j = i
  /\ \E i \in DOMAIN Authored :
       /\ \A j \in DOMAIN Authored : Authored[j].listens = "stepCompleted" <=> j = i
       /\ Authored[i].bySubject /\ ~Authored[i].once /\ ~Authored[i].ofPlayer
       /\ Authored[i].reasons = {} /\ ~Authored[i].positive
  /\ \A h \in Happenings : \A i \in DOMAIN h.events :
       /\ h.events[i].kind # "stepCompleted"
       /\ \A j \in DOMAIN Steps : h.events[i].subject # Steps[j].id

\* Only actions of the table have keys to change; and what was stored before
\* was stored by this program, though some of it may name other actions or be
\* damaged beyond reading: a key it names for an action it names for no other,
\* and of the action whose default that is it says that it has none or another.
ASSUME DeskAssumption ==
  /\ Editable \subseteq Remappable
  /\ \A stored \in Documents : \A document \in stored :
       \E o \in {document.bindings} :
         \A a \in DOMAIN o \cap Remappable : IsBindable(o[a]) =>
           /\ \A b \in DOMAIN o \cap Remappable : o[a] = o[b] => a = b
           /\ \A b \in Remappable : o[a] = DefaultKey[b] =>
                b \in DOMAIN o /\ (o[b] = NoKey \/ IsBindable(o[b]))

vars == <<campaign, saved, observed, center, desk, page, world, history, kinds>>
playVars == <<campaign, saved, observed, center, page, world, history>>

NewCampaign ==
  [now |-> 0, player |-> Ship, shield |-> "away", conditions |-> {},
   notices |-> NoNotices, guide |-> [hidden |-> FALSE, steps |-> [s \in {} |-> {}]],
   raises |-> <<>>, visit |-> 0]

NothingTold == [opened |-> Nothing, toasted |-> {}, quiet |-> {}, released |-> Nothing]

Init ==
  /\ campaign = NewCampaign /\ saved = NewCampaign /\ observed = Nothing
  /\ center = FreshCenter
  /\ page = [open |-> TRUE, read |-> Nothing]
  /\ world = [now |-> 0, opens |-> 1]
  /\ history = NothingTold
  /\ kinds \in Engagements
  /\ desk \in {DeskOf(stored, FALSE, 0) : stored \in IF "keys" \in kinds THEN Documents ELSE {{}}}

Does(kind) == kind \in kinds /\ kinds' = kinds

-----------------------------------------------------------------------------
(* The engine. *)

\* A transaction leaves the campaign as c and has published events.
Commits(c, events) ==
  LET after == ObserveTransaction(c, campaign, events)
  IN  /\ page.open
      /\ Len(after.raises) <= MaxRaises[kinds]
      /\ campaign' = after /\ observed' = events
      /\ UNCHANGED <<saved, center, page, world, history, desk>>

\* An event carries the time of its batch, not that of the transaction's end.
Transact ==
  /\ \E h \in Happenings :
       /\ h.in \cap kinds # {} /\ kinds' = kinds
       /\ <<campaign.player, campaign.shield>> \in h.from
       /\ campaign.now + h.elapsed <= MaxAge[kinds]
       /\ Commits([campaign EXCEPT !.now = @ + h.elapsed, !.player = h.player, !.shield = h.shield,
                                   !.conditions = h.conditions],
                  [i \in DOMAIN h.events |->
                     [h.events[i] EXCEPT !.at = campaign.now + h.events[i].at]])

SkipStep ==
  /\ Does("guide")
  /\ \E i \in DOMAIN Steps :
       /\ Steps[i].id \notin Recorded(campaign.guide) /\ Steps[i].skippable
       /\ Commits(RecordStep(campaign, Steps[i], "skipped"), <<>>)

HideOrShow ==
  /\ Does("guide")
  /\ Commits([campaign EXCEPT !.guide.hidden = ~@], <<>>)

-----------------------------------------------------------------------------
(* The page. *)

\* The projection of the history.  What a count and an amount are is read with
\* the sequence they changed at.
Published(n) ==
  [sequence |-> n.sequence,
   entries |-> {[id |-> e.id, sequence |-> e.sequence,
                 severity |-> Definition[e.key[1]].severity, hideable |-> Definition[e.key[1]].hideable,
                 cue |-> Definition[e.key[1]].cue]
                  : e \in {n.entries[i] : i \in {j \in DOMAIN n.entries :
                                                   n.entries[j].key[1] \in DOMAIN Definition}}}]

Becomes(t) ==
  /\ center' = t
  /\ history' = [history EXCEPT !.toasted = @ \cup {x.sequence : x \in t.toasts}]

Unread == {e \in Published(campaign.notices).entries : e.sequence > page.read.sequence}

\* The store publishes what it read, and the effect of the center runs.
Read ==
  /\ Does("read") /\ page.open
  /\ LET data == Published(campaign.notices)
         center2 == OnNotifications(center, data, world.now)
     IN  /\ page.read # data
         /\ page' = [page EXCEPT !.read = data]
         /\ center' = center2
         /\ history' =
              IF page.read = Nothing THEN [history EXCEPT !.opened = data.sequence]
              ELSE [history EXCEPT
                      !.toasted = @ \cup {x.sequence : x \in center2.toasts},
                      !.quiet = IF center.visible THEN @ ELSE @ \cup {e.sequence : e \in {f \in Unread : f.hideable}}]
  /\ UNCHANGED <<campaign, saved, observed, world, desk>>

\* A timer that is due fires before time goes on.
Tick ==
  /\ Does("time")
  /\ world.now < MaxTime
  /\ page.open /\ center.timer # Nothing => world.now < center.timer
  /\ world' = [world EXCEPT !.now = @ + 1]
  /\ UNCHANGED <<campaign, saved, observed, center, page, history, desk>>

TimerFires ==
  /\ page.open /\ kinds' = kinds
  /\ center.timer # Nothing /\ center.timer = world.now
  /\ Becomes(Expire(center, world.now))
  /\ UNCHANGED <<campaign, saved, observed, page, world, desk>>

Focus ==
  /\ Does("hands") /\ page.open
  /\ \E id \in {x.id : x \in Visible(center)} \cup {Nothing} :
       /\ id # center.held
       /\ center' = Hold(center, id, world.now)
       /\ history' = [history EXCEPT !.released = world.now]
  /\ UNCHANGED <<campaign, saved, observed, page, world, desk>>

DismissToast ==
  /\ Does("hands") /\ page.open
  /\ \E x \in Visible(center) : Becomes(Dismiss(center, x.id, world.now))
  /\ UNCHANGED <<campaign, saved, observed, page, world, desk>>

Prefer ==
  /\ Does("hands") /\ page.open
  /\ \/ Becomes([center EXCEPT !.visible = ~@])
     \/ Becomes([center EXCEPT !.sound = ~@])
  /\ UNCHANGED <<campaign, saved, observed, page, world, desk>>

SaveStatusChanges ==
  /\ Does("save") /\ page.open
  /\ Becomes(OnSaveStatus(center, ~center.failedBefore, world.now))
  /\ UNCHANGED <<campaign, saved, observed, page, world, desk>>

-----------------------------------------------------------------------------
(* The campaign is saved, left and opened again. *)

Save ==
  /\ Does("open") /\ page.open
  /\ saved # campaign /\ saved' = campaign
  /\ UNCHANGED <<campaign, observed, center, page, world, history, desk>>

Leave ==
  /\ Does("open") /\ page.open
  /\ page' = [open |-> FALSE, read |-> Nothing]
  /\ center' = FreshCenter /\ observed' = Nothing /\ history' = NothingTold
  /\ UNCHANGED <<campaign, saved, world, desk>>

\* Not observed: what is opened is the snapshot it came from.
Resume ==
  /\ Does("open") /\ ~page.open /\ world.opens < MaxOpens
  /\ campaign' = saved
  /\ page' = [page EXCEPT !.open = TRUE]
  /\ world' = [world EXCEPT !.opens = @ + 1]
  /\ UNCHANGED <<saved, observed, center, history, desk>>

-----------------------------------------------------------------------------
(* The keys. *)

Sets(d) == /\ Does("keys") /\ d.changes <= MaxChanges
           /\ desk' = d /\ UNCHANGED playVars

\* The settings are in the shell, over whatever is shown.
ToggleSettings == Sets([desk EXCEPT !.settings = ~@, !.capturing = {}])

ChangeKey ==
  /\ desk.settings
  /\ \/ \E a \in Editable : desk.capturing # {a} /\ Sets([desk EXCEPT !.capturing = {a}])
     \/ /\ desk.capturing # {}
        /\ \E press \in Presses : press.place = "capture" /\ Sets(CaptureKey(desk, press))
     \/ \E a \in Editable : Keys(desk)[a] # NoKey /\ Sets(Bind([desk EXCEPT !.capturing = {}], a, NoKey))
     \/ Sets(RestoreKeys([desk EXCEPT !.capturing = {}]))

ChangePresentation ==
  /\ desk.settings
  /\ \E choice \in {"default", "changed"} : Sets(ChoosePresentation([desk EXCEPT !.capturing = {}], choice))

\* In the settings of the notification center; every preference goes with it.
RestoreEverything == page.open /\ Sets(RestoreDefaults([desk EXCEPT !.capturing = {}]))

StorageChanges == Sets([desk EXCEPT !.refuses = ~@])

\* The listener on the document, which the open campaign has.
PressKey ==
  /\ Does("keys") /\ page.open
  /\ \E press \in Presses, docked \in BOOLEAN, table \in {Keys(desk)} :
       /\ press.place = "capture" <=> desk.capturing # {}
       /\ \E a \in ShortcutAction(table, press) : \E outcome \in Outcomes(a, docked) :
            Sets([desk EXCEPT !.changes = @ + 1,
                   !.last = [key |-> LowerCase[press.key], told |-> ToldKey(desk.told, a), outcome |-> outcome]])

NoticeGoes == desk.last.outcome \in {"notHere", "refused"} /\ Sets([desk EXCEPT !.last = NoPress])

\* The whole page is loaded again and the campaign continued.
Reload ==
  /\ Does("keys")
  /\ desk' = DeskOf(desk.stored, desk.refuses, desk.changes)
  /\ page' = [open |-> TRUE, read |-> Nothing]
  /\ campaign' = saved
  /\ center' = FreshCenter /\ observed' = Nothing /\ history' = NothingTold
  /\ UNCHANGED <<saved, world>>

Next ==
  \/ Transact \/ SkipStep \/ HideOrShow
  \/ Read \/ Tick \/ TimerFires \/ Focus \/ DismissToast \/ Prefer \/ SaveStatusChanges
  \/ Save \/ Leave \/ Resume
  \/ ToggleSettings \/ ChangeKey \/ ChangePresentation \/ RestoreEverything \/ StorageChanges
  \/ PressKey \/ NoticeGoes \/ Reload

Spec == Init /\ [][Next]_vars

-----------------------------------------------------------------------------
(* What must hold. *)

Raises(e) == {k \in e.id..e.sequence : campaign.raises[k].key = e.key}
Entries == {campaign.notices.entries[i] : i \in DOMAIN campaign.notices.entries}

\* The history is an account of what happened, whatever was grouped, moved to
\* the end or pushed out: an entry counts, and where it says so adds up, just
\* the raises of its group between its first and its last; groups of one kind
\* do not run into each other; nothing later than the oldest entry is missing;
\* what is told once in a visit to a site is told once; and the campaign passes
\* what is asked of it when it is loaded.
LogTellsWhatHappened ==
  /\ ValidNotifications(campaign) /\ ValidOnboarding(campaign)
  /\ Len(campaign.raises) = campaign.notices.sequence
  /\ \A e \in Entries :
       LET d == Definition[e.key[1]]
       IN  /\ e.id \in Raises(e) /\ e.sequence \in Raises(e)
           /\ e.count = Cardinality(Raises(e))
           /\ e.amount = IF d.adds THEN MapThenSumSet(LAMBDA k : campaign.raises[k].amount, Raises(e))
                         ELSE campaign.raises[e.sequence].amount
           /\ \A f \in Entries : f.key = e.key /\ f.id > e.id =>
                f.id > e.sequence /\ (d.window = 0 \/ f.firstAt - e.lastAt > d.window)
  /\ \A k \in DOMAIN campaign.raises :
       (\E e \in Entries : e.sequence <= k) => \E e \in Entries : k \in Raises(e)
  /\ \A i, j \in DOMAIN campaign.raises :
       /\ i < j /\ campaign.raises[i].key = campaign.raises[j].key
       /\ campaign.raises[i].visit = campaign.raises[j].visit
       => ~Definition[campaign.raises[i].key[1]].once

\* After a transaction no step is left open that it satisfied, in whatever
\* order the player does things; a step is completed after all it requires; and
\* each completion is told once if the guidance was shown then, and a skip is not.
GuidanceKeepsUp ==
  LET steps == campaign.guide.steps
      told(id) == {k \in DOMAIN campaign.raises : campaign.raises[k].key[2] = id}
  IN  /\ observed # Nothing =>
           \A i \in DOMAIN Steps :
             ~(StepOpen(campaign.guide, Steps[i]) /\ Satisfied(Steps[i], campaign, observed))
      /\ \A i \in DOMAIN Steps : Steps[i].id \in DOMAIN steps =>
           LET s == Steps[i]
           IN  /\ steps[s.id].outcome = "completed" =>
                    \A r \in s.requires : r \in DOMAIN steps /\ steps[r].at <= steps[s.id].at
               /\ Cardinality(told(s.id)) =
                    IF steps[s.id].outcome = "completed" /\ steps[s.id].shown THEN 1 ELSE 0

\* Of what was raised since the campaign was opened and is still in the history
\* that was read, everything has been on a toast with its latest repeat, unless
\* the player had hidden it; of what was there at the opening, nothing.
NothingIsMissed ==
  page.read # Nothing =>
    /\ \A e \in page.read.entries : e.sequence > history.opened =>
         e.sequence \in history.toasted \cup history.quiet
    /\ \A k \in history.toasted : k > history.opened

\* A toast is gone when its time is over, or at once when the focus that held
\* it beyond its time leaves it.
NoToastOverstays ==
  page.open => \A x \in center.toasts :
    x.id # center.held => Leaves(x) >= world.now \/ history.released = world.now

\* Why none does: while a toast may go, the one timer of the center runs, and
\* fires when the first of them goes, or at once if its time is over.
TimerIsSet ==
  page.open => \A x \in Unheld(center) :
    /\ center.timer \in Nat /\ world.now <= center.timer
    /\ \/ center.timer <= Leaves(x)
       \/ history.released = world.now /\ center.timer = world.now

\* Why nothing is: the center looked where the page read; what the page read of
\* the history is still what it says; and toasts are of what came since.
ReadIsFollowed ==
  IF page.read = Nothing
  THEN center.seen = Nothing /\ center.toasts = {} /\ history.toasted = {}
  ELSE /\ page.open /\ page.read \in Histories /\ center.seen = page.read.sequence
       /\ history.opened \in Nat /\ history.opened <= page.read.sequence
       /\ page.read.sequence <= campaign.notices.sequence
       /\ \A e \in Published(campaign.notices).entries :
            e.sequence <= page.read.sequence => e \in page.read.entries
       /\ \A x \in center.toasts : x.sequence > history.opened

\* Of what is new and to be heard, the most urgent level sounds, now or a moment
\* before, whatever else has just sounded.
UrgentIsHeard ==
  [][(page.read # Nothing /\ page'.read # Nothing /\ page'.read # page.read /\ center.sound) =>
       \A e \in page'.read.entries : e.cue /\ e.sequence > page.read.sequence =>
         /\ center'.cue # Nothing /\ center'.cue.rank >= Rank[e.severity]
         /\ world.now - center'.cue.at < CueSpacing]_vars

\* The keys are what the player was last told they are, by the table as it was
\* read and by every message since, and so is the key that asked for something:
\* no key does two things; taking a key from an action, or leaving one without,
\* is not undone by a default, a change of something else or a damaged entry;
\* and a page opened again has what was stored, all of it, whatever could not
\* be stored in between.
KeysFollowThePlayer ==
  /\ AsTold(desk.preferences) = desk.told
  /\ AsTold(LoadPreferences(desk.stored)) = desk.kept
  /\ desk.last.key = desk.last.told
  /\ \E table \in {Keys(desk)} :
       LET bound == {a \in Remappable : table[a] # NoKey}
       IN  Cardinality({table[a] : a \in bound}) = Cardinality(bound)

=============================================================================
