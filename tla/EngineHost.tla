----------------------------- MODULE EngineHost -----------------------------
(***************************************************************************)
(* The engine host: it serves one request at a time, whatever the order in *)
(* which the transport delivers them, and whether it delivers one once,    *)
(* many times or never.  Three things stand between a repeated command and *)
(* a second effect: the bounded cache of answered requests, the campaign a *)
(* request may name and the revision it may expect.                        *)
(*                                                                         *)
(* What a command does to the campaign is abstracted to its place in the   *)
(* campaign's history.  Of the saves only the captured campaigns remain;   *)
(* SaveService models how they are written.                                *)
(***************************************************************************)
EXTENDS Integers, Sequences, FiniteSets

CONSTANTS
  RecentLimit,   \* answered requests the session remembers
  Any,           \* a request that names no campaign, or expects no revision
  NoCampaign,    \* no campaign is open
  MaxRequests,   \* bound: requests ever sent
  MaxRevision,   \* bound: revisions a campaign reaches
  MaxAnswers     \* bound: answers ever remembered

ASSUME RecentLimitAssumption == RecentLimit \in Nat \ {0}
ASSUME AnyAssumption == Any \notin Int

VARIABLES
  campaign,  \* the campaign the session holds
  recent,    \* remembered answers, oldest first
  saved,     \* campaigns as they were captured and stored in the slot
  sent,      \* requests the client has sent to this worker
  nextId,    \* the id of the next request
  answered,  \* history: ids of the requests answered and remembered
  forgotten  \* history: length of answered when the cache was last emptied

hostVars == <<campaign, recent, saved, sent, nextId, answered, forgotten>>

Ids   == Nat \ {0}
Types == {"create", "resume", "close", "reset", "save", "order"}

\* A request carries an id of its own; the client may name the campaign it is
\* meant for and the revision it was decided at.
Request == [id : Ids, type : Types, campaign : Ids \cup {Any},
            expects : Nat \cup {Any}]

\* A campaign's id derives from the seed its create request carries.
Campaign == [id : Ids, rev : Nat, log : Seq(Request)]

ASSUME NoCampaignAssumption == NoCampaign \notin Campaign

Answer == [request : Request, rev : Nat]

Open     == campaign # NoCampaign
Revision == IF Open THEN campaign.rev ELSE 0

-----------------------------------------------------------------------------
(* The cache. *)

\* The oldest answers beyond the limit are dropped.
Bounded(answers) ==
  IF Len(answers) > RecentLimit
  THEN SubSeq(answers, Len(answers) - RecentLimit + 1, Len(answers))
  ELSE answers

Remembered(q) == \E i \in DOMAIN recent : recent[i].request.id = q.id

\* Deletes the answer to q, if there is one.
Without(answers, q) ==
  IF \E i \in DOMAIN answers : answers[i].request.id = q.id
  THEN LET i == CHOOSE i \in DOMAIN answers : answers[i].request.id = q.id
       IN  SubSeq(answers, 1, i - 1) \o SubSeq(answers, i + 1, Len(answers))
  ELSE answers

\* remember(): the answer becomes the youngest.
Remember(answers, q, rev) ==
  /\ Len(answered) < MaxAnswers
  /\ recent' = Bounded(Append(Without(answers, q), [request |-> q, rev |-> rev]))
  /\ answered' = Append(answered, q.id)

\* Wrong on purpose: the answers outlive the campaign they speak of.
KeepRemembered(q) ==
  /\ Remember(recent, q, 0)
  /\ UNCHANGED forgotten

\* The campaign left the session: its answers are forgotten, and the request
\* that ended it is the first of the next ones.
RememberOnly(q) ==
  /\ Remember(<<>>, q, 0)
  /\ forgotten' = Len(answered)

-----------------------------------------------------------------------------
(* The route of a request to its handler. *)

IsForThisCampaign(q) == q.campaign = Any \/ (Open /\ campaign.id = q.campaign)

\* A remembered request is answered from the cache and changes nothing.
Reaches(q) ==
  /\ q \in sent
  /\ ~Remembered(q)
  /\ IsForThisCampaign(q)

\* Wrong on purpose: refuses only revisions still to come.
IsCurrentEnough(q) == q.expects # Any => q.expects <= Revision

\* Commands check the revision they expect; a save does not.
IsCurrent(q) == q.expects = Any \/ q.expects = Revision

Commands(q, type) == q.type = type /\ Reaches(q) /\ IsCurrent(q)

\* save(): the capture is stored, or refused by validation or by the store.
Captured(c) == saved' \in {saved, saved \cup {c}}

-----------------------------------------------------------------------------
(* Handlers. *)

\* commit(): one effect takes one revision.
Commit(c, q) == [id |-> c.id, rev |-> c.rev + 1, log |-> Append(c.log, q)]

\* campaign.create: refused while a campaign is open; captures what it made.
Create(q) ==
  /\ Commands(q, "create")
  /\ ~Open
  /\ LET fresh == Commit([id |-> q.id, rev |-> 0, log |-> <<>>], q)
     IN  /\ campaign' = fresh
         /\ Captured(fresh)
         /\ Remember(recent, q, 1)
  /\ UNCHANGED <<sent, nextId, forgotten>>

\* Any command that the open campaign's rules accept.  One they refuse, one
\* that fails and one that leaves the campaign as it was change nothing.
Order(q) ==
  /\ Commands(q, "order")
  /\ Open
  /\ campaign.rev < MaxRevision
  /\ campaign' = Commit(campaign, q)
  /\ Remember(recent, q, campaign.rev + 1)
  /\ UNCHANGED <<saved, sent, nextId, forgotten>>

\* campaign.save: answered once captured, whatever revision was expected.
Save(q) ==
  /\ q.type = "save"
  /\ Reaches(q)
  /\ Open
  /\ Captured(campaign)
  /\ Remember(recent, q, campaign.rev)
  /\ UNCHANGED <<campaign, sent, nextId, forgotten>>

\* campaign.close: captures the campaign, then lets it go.
Close(q) ==
  /\ Commands(q, "close")
  /\ Open
  /\ Captured(campaign)
  /\ campaign' = NoCampaign
  /\ RememberOnly(q)
  /\ UNCHANGED <<sent, nextId>>

\* campaign.reset: discards the campaign and its saves, unless the store
\* refuses to clear the slot.
Reset(q) ==
  /\ Commands(q, "reset")
  /\ Open
  /\ campaign' = NoCampaign
  /\ saved' \in {{}, saved}
  /\ RememberOnly(q)
  /\ UNCHANGED <<sent, nextId>>

\* Restoring is not a change: the campaign is the snapshot it came from.
Restore(c) == c

\* campaign.resume: opens a stored snapshot, the newest one that loads.  Any
\* newer one may be damaged, so it can be any of them.
Resume(q) ==
  /\ Commands(q, "resume")
  /\ ~Open
  /\ \E c \in saved :
       /\ campaign' = Restore(c)
       /\ Remember(recent, q, c.rev)
  /\ UNCHANGED <<saved, sent, nextId, forgotten>>

-----------------------------------------------------------------------------
(* The client, the transport and the worker. *)

\* The client sends a request under a new id.  It may guard a command for the
\* open campaign with the campaign and revision it knows.  Delivery is at any
\* later time, any number of times.
Send(type, guarded) ==
  /\ nextId <= MaxRequests
  /\ guarded => Open /\ type \in {"order", "close", "reset"}
  /\ sent' = sent \cup
       {[id |-> nextId, type |-> type,
         campaign |-> IF guarded THEN campaign.id ELSE Any,
         expects  |-> IF guarded THEN campaign.rev ELSE Any]}
  /\ nextId' = nextId + 1
  /\ UNCHANGED <<campaign, recent, saved, answered, forgotten>>

\* The worker dies, and the page with it: what is stored remains.  (Bound: not
\* when no request is left to send.)
Restart ==
  /\ nextId <= MaxRequests
  /\ sent # {}
  /\ campaign' = NoCampaign
  /\ recent' = <<>>
  /\ sent' = {}
  /\ forgotten' = Len(answered)
  /\ UNCHANGED <<saved, nextId, answered>>

HostInit ==
  /\ campaign = NoCampaign
  /\ recent = <<>>
  /\ saved = {}
  /\ sent = {}
  /\ nextId = 1
  /\ answered = <<>>
  /\ forgotten = 0

HostNext ==
  \/ \E type \in Types, guarded \in BOOLEAN : Send(type, guarded)
  \/ \E q \in sent : \/ Create(q) \/ Order(q) \/ Save(q)
                     \/ Close(q) \/ Reset(q) \/ Resume(q)
  \/ Restart

HostSpec == HostInit /\ [][HostNext]_hostVars

-----------------------------------------------------------------------------
(* Properties. *)

\* Every campaign there is: the one open and those in the slot.
Campaigns == (saved \cup {campaign}) \ {NoCampaign}

HostTypeOK ==
  /\ campaign \in Campaign \cup {NoCampaign}
  /\ recent \in Seq(Answer)
  /\ Len(recent) <= RecentLimit
  /\ saved \subseteq Campaign
  /\ sent \subseteq Request
  /\ nextId \in Ids
  /\ answered \in Seq(Ids)
  /\ forgotten \in Nat

\* A command that says which revision it was decided at takes effect at most
\* once in the life of a campaign: not again after its answer was evicted,
\* nor after the campaign was closed, and not where a damaged snapshot sends
\* the campaign back to revisions it has had before.
GuardedAppliesOnce ==
  \A c \in Campaigns : \A i, j \in 1..Len(c.log) :
    c.log[i].expects # Any /\ c.log[i] = c.log[j] => i = j

\* A command that names its campaign never takes effect in another, whatever
\* was closed, reset, created or resumed while it was on its way.
EffectsStayInTheirCampaign ==
  \A c \in Campaigns :
    /\ c.log # <<>> /\ c.log[1].id = c.id /\ c.log[1].type = "create"
    /\ \A i \in 2..Len(c.log) : c.log[i].campaign \in {Any, c.id}

\* An answer speaks of a campaign: its revision was reached there, and if it
\* reported an effect, that effect stands at that revision.
SpeaksOf(a, c) ==
  /\ c # NoCampaign
  /\ a.rev \in 1..c.rev
  /\ a.request.type \in {"create", "order"} => c.log[a.rev] = a.request

\* A repeated delivery is answered with what the open campaign still says; only
\* the answer that a campaign has ended speaks of none.
RememberedAnswersAreTrue ==
  \A i \in DOMAIN recent :
    recent[i].request.type \in {"close", "reset"} \/ SpeaksOf(recent[i], campaign)

\* While no campaign leaves the session, a request is answered afresh a second
\* time only after RecentLimit others were answered since the first.
RepeatsOnlyBeyondTheLimit ==
  \A i, j \in (forgotten + 1)..Len(answered) :
    i < j /\ answered[i] = answered[j] => j - i > RecentLimit

\* The open campaign is never swapped for another nor rewritten: a step leaves
\* its history alone, adds one effect with one revision, or closes it.
HistoryOnlyGrows ==
  [][Open /\ campaign' # NoCampaign =>
       /\ campaign'.id = campaign.id
       /\ \/ campaign' = campaign
          \/ /\ campaign'.rev = campaign.rev + 1
             /\ campaign.log = SubSeq(campaign'.log, 1, campaign.rev)]_hostVars

\* A revision counts the effects before it.
RevisionsCountEffects == \A c \in Campaigns : c.rev = Len(c.log)

\* A guarded effect stands right after the revision it expected.
GuardedStandInPlace ==
  \A c \in Campaigns : \A i \in 1..Len(c.log) : c.log[i].expects \in {Any, i - 1}

\* The cache holds the youngest answers since it was last emptied.
AnswersAreTheYoungest ==
  LET held == Len(answered) - forgotten
  IN  /\ held >= 0
      /\ Len(recent) = IF held > RecentLimit THEN RecentLimit ELSE held
      /\ \A i \in 1..Len(recent) :
           recent[i].request.id = answered[Len(answered) - Len(recent) + i]

\* With the properties above, the inductive invariant of the host.
HostInv ==
  /\ RevisionsCountEffects
  /\ GuardedStandInPlace
  /\ AnswersAreTheYoungest

=============================================================================
