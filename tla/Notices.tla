-------------------------------- MODULE Notices --------------------------------
(***************************************************************************)
(* What the observers of a transaction make of it: steps of the guidance   *)
(* that are now behind the player, and entries of the notification         *)
(* history.  The campaign is a record; every operation returns it whole.   *)
(*                                                                         *)
(* An event has a kind, the ship and the subject it is about, a reason, an *)
(* amount and its time, and "holds": what its operation reads from the     *)
(* content and from the rest of the state (a hostile attitude, an idle     *)
(* weapon, a charge below the fraction, a definition that is authored).    *)
(***************************************************************************)
EXTENDS Integers, Sequences, SequencesExt, FiniteSets, FiniteSetsExt, TLC

CONSTANTS
  Authored,       \* the notification definitions, in the order of the content
  Steps,          \* the steps of the guidance, in authored order
  HistoryLimit,
  SiteMemory,
  NoShip          \* null

\* The content check: a step requires only steps before it.
StepsAreOrdered ==
  \A i \in DOMAIN Steps : Steps[i].requires \subseteq {Steps[j].id : j \in 1..(i - 1)}

ASSUME NoticesAssumption ==
  /\ HistoryLimit \in Nat \ {0} /\ SiteMemory \in Nat \ {0}
  /\ Len(Authored) \in Nat /\ Len(Steps) \in Nat /\ StepsAreOrdered

StatePredicates == {"shipReady", "ammunitionInHold"}
SiteChanges == {"undocked", "warpArrived", "docked", "shipLost"}

Definition == [id \in {Authored[i].id : i \in DOMAIN Authored} |->
                 Authored[SelectInSeq(Authored, LAMBDA d : d.id = id)]]

-----------------------------------------------------------------------------
(* The history. *)

NoNotices == [sequence |-> 0, entries |-> <<>>, raisedThisSite |-> <<>>]

Newest(limit, s) == SubSeq(s, Max({1, Len(s) - limit + 1}), Len(s))

GroupKey(d, o) == <<d.id, IF d.bySubject THEN o.subject ELSE "">>

RaisedThisSite(n, key) == Contains(n.raisedThisSite, key)

Forget(n) == [n EXCEPT !.raisedThisSite = <<>>]

\* Wrong on purpose: a repeat looks for the first entry of its group, however old.
FirstOfGroup(n, key) == SelectInSeq(n.entries, LAMBDA e : e.key = key)

\* 0 when the group has no entry.
LatestOfGroup(n, key) == SelectLastInSeq(n.entries, LAMBDA e : e.key = key)

Joins(n, d, o) ==
  LET i == LatestOfGroup(n, GroupKey(d, o))
  IN  i > 0 /\ d.window > 0 /\ o.at - n.entries[i].lastAt <= d.window

\* The subjects of an entry are left out.
RaiseNotification(n, d, o) ==
  LET key == GroupKey(d, o)
      i == LatestOfGroup(n, key)
      next == n.sequence + 1
      joins == Joins(n, d, o)
      record ==
        IF joins THEN [n.entries[i] EXCEPT !.sequence = next, !.count = @ + 1, !.lastAt = o.at,
                                           !.amount = IF d.adds THEN @ + o.amount ELSE o.amount]
        ELSE [id |-> next, sequence |-> next, key |-> key, amount |-> o.amount,
              firstAt |-> o.at, lastAt |-> o.at, count |-> 1]
  IN  [sequence |-> next,
       entries |-> Newest(HistoryLimit,
                          Append(IF joins THEN RemoveAt(n.entries, i) ELSE n.entries, record)),
       raisedThisSite |-> IF d.once /\ ~RaisedThisSite(n, key)
                          THEN Newest(SiteMemory, Append(n.raisedThisSite, key))
                          ELSE n.raisedThisSite]

-----------------------------------------------------------------------------
(* Guidance. *)

Recorded(g) == DOMAIN g.steps
StepOpen(g, s) == s.id \notin Recorded(g) /\ s.requires \subseteq Recorded(g)

\* shown, for the properties: whether the guidance was shown then.
RecordStep(c, s, outcome) ==
  LET record == [outcome |-> outcome, at |-> c.now, shown |-> ~c.guide.hidden]
  IN  [c EXCEPT !.guide.steps = [id \in Recorded(c.guide) \cup {s.id} |->
                                   IF id = s.id THEN record ELSE c.guide.steps[id]]]

\* Some events count only when they are about the player's ship, some only
\* with certain parameters.
Matches(s, e, c) ==
  /\ e.kind = s.predicate
  /\ s.ofPlayer => c.player # NoShip /\ e.ship = c.player
  /\ s.reasons # {} => e.reason \in s.reasons

Satisfied(s, c, events) ==
  IF s.predicate \in StatePredicates THEN s.predicate \in c.conditions
  ELSE \E i \in DOMAIN events : Matches(s, events[i], c)

StepEvent(s, c) ==
  [kind |-> "stepCompleted", ship |-> NoShip, subject |-> s.id, reason |-> "", amount |-> 0,
   holds |-> TRUE, at |-> c.now]

\* Wrong on purpose: only the step the player is pointed at can be completed.
VisitCurrent(t, s) ==
  IF /\ StepOpen(t.campaign.guide, s) /\ Satisfied(s, t.campaign, t.events)
     /\ \A i \in DOMAIN Steps : StepOpen(t.campaign.guide, Steps[i]) =>
          SelectInSeq(Steps, LAMBDA u : u.id = s.id) <= i
  THEN [campaign |-> RecordStep(t.campaign, s, "completed"),
        events |-> Append(t.events, StepEvent(s, t.campaign))]
  ELSE t

Visit(t, s) ==
  IF StepOpen(t.campaign.guide, s) /\ Satisfied(s, t.campaign, t.events)
  THEN [campaign |-> RecordStep(t.campaign, s, "completed"),
        events |-> Append(t.events, StepEvent(s, t.campaign))]
  ELSE t

\* The steps in authored order, each seeing what those before it recorded.
Round(t) ==
  LET visited[i \in 0..Len(Steps)] == IF i = 0 THEN t ELSE Visit(visited[i - 1], Steps[i])
  IN  visited[Len(Steps)]

\* A round without progress changes nothing, so as many rounds as there are
\* steps are all of them.
AdvanceGuidance(t) ==
  LET advanced[i \in 0..Len(Steps)] == IF i = 0 THEN t ELSE Round(advanced[i - 1])
  IN  advanced[Len(Steps)]

-----------------------------------------------------------------------------
(* Raising. *)

Occurs(d, e, c) ==
  /\ e.kind = d.listens /\ e.holds
  /\ d.ofPlayer => c.player # NoShip /\ e.ship = c.player
  /\ d.reasons # {} => e.reason \in d.reasons
  /\ d.positive => e.amount > 0
  /\ d.listens = "stepCompleted" => ~c.guide.hidden

\* For the properties: every raise there was, with the visit it belongs to.
Told(c, d, o) == [key |-> GroupKey(d, o), amount |-> o.amount, at |-> o.at, visit |-> c.visit]

Raise(c, d, o) ==
  IF d.once /\ RaisedThisSite(c.notices, GroupKey(d, o)) THEN c
  ELSE [c EXCEPT !.notices = RaiseNotification(@, d, o), !.raises = Append(@, Told(c, d, o))]

Arrive(c) == [c EXCEPT !.notices = Forget(@), !.visit = @ + 1]

RaiseIf(c, d, e) == IF Occurs(d, e, c) THEN Raise(c, d, e) ELSE c

\* An event, to the definitions in their order.
RaiseFor(c, e) ==
  LET raised[i \in 0..Len(Authored)] ==
        IF i = 0 THEN IF e.kind \in SiteChanges THEN Arrive(c) ELSE c
        ELSE RaiseIf(raised[i - 1], Authored[i], e)
  IN  raised[Len(Authored)]

RaiseAll(c, events) ==
  LET raised[i \in 0..Len(events)] == IF i = 0 THEN c ELSE RaiseFor(raised[i - 1], events[i])
  IN  raised[Len(events)]

\* The player was hit, and a layer that was whole enough before no longer is.
LayerFell(before, c, events) ==
  /\ c.player # NoShip /\ before.player = c.player
  /\ \E i \in DOMAIN events : events[i].kind = "damageApplied" /\ events[i].ship = c.player
  /\ before.shield = "high" /\ c.shield = "low"

LayerEvent(c) ==
  [kind |-> "layerFell", ship |-> c.player, subject |-> "", reason |-> "", amount |-> 0,
   holds |-> TRUE, at |-> c.now]

\* What compares two states comes after what reads events.
RaiseNotifications(c, before, events) ==
  LET raised == RaiseAll(c, events)
  IN  IF LayerFell(before, raised, events) THEN RaiseFor(raised, LayerEvent(c)) ELSE raised

\* The guidance first, so that what it completes is told.
ObserveTransaction(c, before, events) ==
  LET guided == AdvanceGuidance([campaign |-> c, events |-> events])
  IN  RaiseNotifications(guided.campaign, before, guided.events)

-----------------------------------------------------------------------------
(* What the code asks of a campaign it commits or loads. *)

ValidNotifications(c) ==
  LET n == c.notices
  IN  /\ Len(n.entries) <= HistoryLimit /\ Len(n.raisedThisSite) <= SiteMemory
      /\ \A i \in DOMAIN n.entries :
           LET e == n.entries[i]
           IN  /\ e.id <= e.sequence /\ e.sequence <= n.sequence
               /\ e.firstAt <= e.lastAt /\ e.lastAt <= c.now /\ e.count >= 1
               /\ e.key[1] \in DOMAIN Definition
               /\ \A j \in 1..(i - 1) : n.entries[j].id # e.id /\ n.entries[j].sequence < e.sequence

ValidOnboarding(c) ==
  \A id \in Recorded(c.guide) : /\ c.guide.steps[id].at <= c.now
                                /\ \E i \in DOMAIN Steps : Steps[i].id = id

=============================================================================
