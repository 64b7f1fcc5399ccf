------------------------------ MODULE ClientProofs ------------------------------
(***************************************************************************)
(* What holds of the client for every mixture of steps and every bound: no *)
(* real time is simulated twice, and what the surfaces show is what the    *)
(* engine holds once nothing is on its way.                                *)
(***************************************************************************)
EXTENDS Client, SequenceTheorems, TLAPS

-----------------------------------------------------------------------------
(* Types. *)

Berths == {"station", "space"}
Senders == {"place", "fetch", "command", "advance", "save"}
Changes == {"command", "advance"}
Shown == Nat \cup {Nothing}

Requests ==
  {m \in [from : Senders, ask : SUBSET Views, elapsed : Nat, live : BOOLEAN] :
     /\ m.from = "place" => m.ask = {"assets"}
     /\ m.from \notin {"place", "fetch"} => m.ask = {}}

Values == UNION {[asked -> Nat] : asked \in SUBSET Views}

\* Only a placement says where the ship is and what it carries; only a change
\* that was accepted invalidates something.
Answers ==
  {m \in [from : Senders, live : BOOLEAN, ok : BOOLEAN, invalid : SUBSET Views,
          autosave : BOOLEAN, at : Berths, rev : Nat, values : Values] :
     /\ m.from = "place" => DOMAIN m.values = {"assets"}
     /\ m.from \notin {"place", "fetch"} => DOMAIN m.values = {}
     /\ m.invalid # {} => m.ok /\ m.from \in Changes}

Reads == [phase : {"idle", "placing", "fetching"}, wanted : SUBSET Views,
          at : Berths \cup {Nothing}, assets : Shown]
Drivers == [running : BOOLEAN, last : Shown, scheduled : BOOLEAN]
Clients ==
  [place : Berths \cup {Nothing}, shown : [Views -> Shown], queue : SUBSET Views, read : Reads,
   saving : {"idle", "asking", "settling"}, saveAgain : BOOLEAN, driver : Drivers,
   outbox : Seq(Requests)]
Engines == [at : Berths, ver : [Views -> Nat], rev : Nat, captured : Nat]
Worlds == [now : Nat, hidden : BOOLEAN, timeouts : Nat, starts : Nat]
Histories == [missed : SUBSET Views, noted : Nat, ran : Nat, told : Nat]

TypeOK ==
  /\ client \in Clients /\ engine \in Engines /\ inbox \in Seq(Answers)
  /\ world \in Worlds /\ history \in Histories

-----------------------------------------------------------------------------
(* Time.  The driver measures from a frame of this run that the page has    *)
(* been visible since, and what it has not told yet is within what it ran.  *)

Untold == IF client.driver.last = Nothing THEN 0 ELSE world.now - client.driver.last

TimeIsMeasured ==
  /\ ~client.driver.running => client.driver = StoppedDriver
  /\ world.hidden => client.driver.last = Nothing
  /\ client.driver.last # Nothing => client.driver.last <= world.now
  /\ history.told + Untold <= history.ran

-----------------------------------------------------------------------------
(* What is shown.  Every part speaks of a client c, the answers on their    *)
(* way to it, the engine, and the views missed, so that it can be said of   *)
(* what a handler has half done.                                            *)

IsRead(m) == m.from \in {"place", "fetch"} /\ m.live
ReadsOut(c) == {i \in DOMAIN c.outbox : IsRead(c.outbox[i])}
ReadsIn(in) == {i \in DOMAIN in : IsRead(in[i])}

\* Whether a ship at p has something to show in v.
Askable(p, v) == v \notin (IF p = "station" THEN SpaceOnly ELSE StationOnly)

\* The place a client goes by: once a read asks for its views, the one it found.
Held(c) == IF c.read.phase = "fetching" THEN c.read.at ELSE c.place

\* One read at a time, its request or its answer of the kind its phase says; the
\* place it found is the client's until that is forgotten.
OneRead(c, in) ==
  /\ c.read.phase = "idle" => c.read = IdleRead /\ ReadsOut(c) = {} /\ ReadsIn(in) = {}
  /\ c.read.phase = "placing" => c.read.assets = Nothing
  /\ c.read.phase = "fetching" => c.place \in {Nothing, c.read.at}
  /\ \A i, j \in ReadsOut(c) : i = j
  /\ \A i, j \in ReadsIn(in) : i = j
  /\ ReadsOut(c) = {} \/ ReadsIn(in) = {}
  /\ \A i \in ReadsOut(c) : c.outbox[i].from = (IF c.read.phase = "placing" THEN "place" ELSE "fetch")
  /\ \A i \in ReadsIn(in) : in[i].from = (IF c.read.phase = "placing" THEN "place" ELSE "fetch")

\* A fetch asks for what was wanted, and for what its place can answer.
Fits(c, asked) ==
  /\ asked \subseteq c.read.wanted \ {"assets"}
  /\ Held(c) # Nothing => \A v \in asked : Askable(Held(c), v)
FetchFits(c, in) ==
  /\ \A i \in ReadsOut(c) : c.outbox[i].from = "fetch" => Fits(c, c.outbox[i].ask)
  /\ \A i \in ReadsIn(in) : in[i].from = "fetch" => Fits(c, DOMAIN in[i].values)

\* A view is read again, with the place, on account of an answer or of the queue.
Told(in, v) == \E i \in DOMAIN in : in[i].live /\ v \in in[i].invalid
MoveTold(in) == \E i \in DOMAIN in : in[i].live /\ in[i].invalid = Views
Requeued(c, v) == c.read.phase # "idle" /\ {v, "assets"} \subseteq c.queue

\* A change that was given up and is still to be served finds every view missed,
\* or asked for behind it.
GivenUpIsMissed(c, missed) ==
  \A i \in DOMAIN c.outbox : c.outbox[i].from \in Changes /\ ~c.outbox[i].live =>
    \A v \in Views : v \in missed \/ \E j \in ReadsOut(c) : i < j /\ v \in c.outbox[j].ask

\* Where the place the client goes by, or is about to learn, is behind the
\* engine's, what it would not ask for is read again or missed.
PlaceIsMended(c, in, e, missed) ==
  Held(c) # Nothing =>
    \A v \in Views : Askable(e.at, v) /\ ~Askable(Held(c), v) =>
      \/ v \in missed \/ MoveTold(in) \/ Requeued(c, v)
      \/ c.read.phase = "placing" /\ v \in c.read.wanted
AnswerIsMended(c, in, e, missed) ==
  \A i \in ReadsIn(in) : in[i].from = "place" =>
    \A v \in Views : Askable(e.at, v) /\ ~Askable(in[i].at, v) =>
      v \in missed \/ MoveTold(in) \/ Requeued(c, v)

\* The read in progress will show v, and what it will show is what the engine holds,
\* as far as it was answered.
Bringing(c, in, v) ==
  IF v = "assets" THEN c.read.phase = "placing" \/ c.read.assets # Nothing
  ELSE \/ \E i \in ReadsOut(c) : v \in c.outbox[i].ask
       \/ \E i \in ReadsIn(in) : v \in DOMAIN in[i].values
Fresh(c, in, e, v) ==
  /\ \A i \in ReadsIn(in) : v \in DOMAIN in[i].values => in[i].values[v] = e.ver[v]
  /\ v = "assets" /\ c.read.phase # "placing" => c.read.assets = e.ver[v]

ToAsk(c, v) ==
  \/ c.read.phase # "idle" /\ v \in c.queue
  \/ c.read.phase = "placing" /\ v \in c.read.wanted \ {"assets"}

ViewsCome(c, in, e, missed) ==
  \A v \in Views : Askable(e.at, v) =>
    \/ v \in missed \/ Told(in, v) \/ ToAsk(c, v)
    \/ IF Bringing(c, in, v) THEN Fresh(c, in, e, v) ELSE c.shown[v] = e.ver[v]

Coherent(c, in, e, missed) ==
  /\ OneRead(c, in) /\ FetchFits(c, in) /\ GivenUpIsMissed(c, missed)
  /\ PlaceIsMended(c, in, e, missed) /\ AnswerIsMended(c, in, e, missed)
  /\ ViewsCome(c, in, e, missed)

ClientInv == TypeOK /\ TimeIsMeasured /\ Coherent(client, inbox, engine, history.missed)

-----------------------------------------------------------------------------
(* Messages. *)

\* What a client with outbox p has asked for since it had o.
Added(o, p) == UNION {p[i].ask : i \in (Len(o) + 1)..Len(p)}

LEMMA AppendIs ==
  ASSUME NEW S, NEW s \in Seq(S), NEW x \in S
  PROVE  /\ Append(s, x) \in Seq(S)
         /\ Len(s) \in Nat /\ Len(Append(s, x)) = Len(s) + 1
         /\ DOMAIN s = 1..Len(s) /\ DOMAIN Append(s, x) = 1..(Len(s) + 1)
         /\ \A i \in 1..Len(s) : Append(s, x)[i] = s[i]
         /\ Append(s, x)[Len(s) + 1] = x
  OBVIOUS

LEMMA TailIs ==
  ASSUME NEW S, NEW s \in Seq(S), s # <<>>
  PROVE  /\ Tail(s) \in Seq(S) /\ Head(s) = s[1] /\ Head(s) \in S
         /\ Len(s) \in Nat \ {0} /\ Len(Tail(s)) = Len(s) - 1
         /\ DOMAIN s = 1..Len(s) /\ DOMAIN Tail(s) = 1..(Len(s) - 1)
         /\ \A i \in 1..(Len(s) - 1) : Tail(s)[i] = s[i + 1]
  OBVIOUS

LEMMA AddedNothing ==
  ASSUME NEW o \in Seq(Requests)
  PROVE  Added(o, o) = {}
  BY DEF Added

LEMMA AddedOneMore ==
  ASSUME NEW o \in Seq(Requests), NEW p \in Seq(Requests), NEW m \in Requests, Len(o) <= Len(p)
  PROVE  Added(o, Append(p, m)) = Added(o, p) \cup m.ask
<1> DEFINE q == Append(p, m)
<1>1. /\ Len(o) \in Nat /\ Len(p) \in Nat /\ Len(q) = Len(p) + 1
      /\ \A i \in 1..Len(p) : q[i] = p[i]
      /\ q[Len(p) + 1] = m
  BY AppendIs
<1> HIDE DEF q
<1>2. (Len(o) + 1)..Len(q) = ((Len(o) + 1)..Len(p)) \cup {Len(p) + 1}
  BY <1>1
<1>3. \A i \in (Len(o) + 1)..Len(p) : q[i] = p[i]
  BY <1>1
<1>4. Added(o, q) = (UNION {p[i].ask : i \in (Len(o) + 1)..Len(p)}) \cup q[Len(p) + 1].ask
  BY SMTT(30), <1>2, <1>3 DEF Added
<1> QED BY <1>1, <1>4 DEF Added, q

LEMMA AddedInViews ==
  ASSUME NEW o \in Seq(Requests), NEW p \in Seq(Requests)
  PROVE  Added(o, p) \in SUBSET Views
<1> SUFFICES ASSUME NEW i \in (Len(o) + 1)..Len(p) PROVE p[i].ask \subseteq Views
  BY DEF Added
<1>1. p[i] \in Requests
  OBVIOUS
<1> QED BY <1>1 DEF Requests

-----------------------------------------------------------------------------
(* What leaves the reading alone. *)

SameReading(c, d) ==
  d.read = c.read /\ d.queue = c.queue /\ d.place = c.place /\ d.shown = c.shown

\* What is coherent stays so with more views missed.
LEMMA Monotone ==
  ASSUME NEW c, NEW in, NEW e, NEW missed, NEW more, missed \subseteq more,
         Coherent(c, in, e, missed)
  PROVE  Coherent(c, in, e, more)
<1>1. GivenUpIsMissed(c, more)
  BY DEF Coherent, GivenUpIsMissed
<1>2. PlaceIsMended(c, in, e, more)
  BY DEF Coherent, PlaceIsMended, Held
<1>3. AnswerIsMended(c, in, e, more)
  BY DEF Coherent, AnswerIsMended
<1>4. ViewsCome(c, in, e, more)
  BY DEF Coherent, ViewsCome
<1> QED BY <1>1, <1>2, <1>3, <1>4 DEF Coherent

LEMMA SameOutbox ==
  ASSUME NEW c, NEW d, NEW in, NEW e, NEW missed,
         SameReading(c, d), d.outbox = c.outbox, Coherent(c, in, e, missed)
  PROVE  Coherent(d, in, e, missed)
<1> USE DEF SameReading, ReadsOut
<1>1. OneRead(d, in)
  BY DEF Coherent, OneRead
<1>2. FetchFits(d, in)
  BY DEF Coherent, FetchFits, Fits, Held
<1>3. GivenUpIsMissed(d, missed)
  BY DEF Coherent, GivenUpIsMissed
<1>4. PlaceIsMended(d, in, e, missed)
  BY DEF Coherent, PlaceIsMended, Requeued, Held
<1>5. AnswerIsMended(d, in, e, missed)
  BY DEF Coherent, AnswerIsMended, Requeued
<1>6. ViewsCome(d, in, e, missed)
  BY DEF Coherent, ViewsCome, ToAsk, Bringing, Fresh
<1> QED BY <1>1, <1>2, <1>3, <1>4, <1>5, <1>6 DEF Coherent

\* A request that reads nothing, behind all others, disturbs no read.
LEMMA OtherRequest ==
  ASSUME NEW c \in Clients, NEW d \in Clients, NEW in, NEW e, NEW missed, NEW m \in Requests,
         m.from \notin {"place", "fetch"}, m.live, SameReading(c, d),
         d.outbox = Append(c.outbox, m), Coherent(c, in, e, missed)
  PROVE  Coherent(d, in, e, missed)
<1>1. /\ c.outbox \in Seq(Requests)
      /\ Len(c.outbox) \in Nat
      /\ DOMAIN c.outbox = 1..Len(c.outbox) /\ DOMAIN d.outbox = 1..(Len(c.outbox) + 1)
      /\ \A i \in 1..Len(c.outbox) : d.outbox[i] = c.outbox[i]
      /\ d.outbox[Len(c.outbox) + 1] = m
  BY AppendIs DEF Clients
<1>2. ReadsOut(d) = ReadsOut(c)
  BY <1>1 DEF ReadsOut, IsRead
<1>3. \A i \in ReadsOut(c) : d.outbox[i] = c.outbox[i]
  BY <1>1 DEF ReadsOut
<1> USE DEF SameReading
<1>4. OneRead(d, in)
  BY ZenonT(60), <1>2, <1>3 DEF Coherent, OneRead
<1>5. FetchFits(d, in)
  BY <1>2, <1>3 DEF Coherent, FetchFits, Fits, Held
<1>6. GivenUpIsMissed(d, missed)
  <2> SUFFICES ASSUME NEW i \in DOMAIN d.outbox, d.outbox[i].from \in Changes,
                      ~d.outbox[i].live, NEW v \in Views
               PROVE  v \in missed \/ \E j \in ReadsOut(d) : i < j /\ v \in d.outbox[j].ask
    BY DEF GivenUpIsMissed
  <2>1. i \in DOMAIN c.outbox /\ d.outbox[i] = c.outbox[i]
    BY <1>1
  <2>2. v \in missed \/ \E j \in ReadsOut(c) : i < j /\ v \in c.outbox[j].ask
    BY <2>1 DEF Coherent, GivenUpIsMissed
  <2> QED BY <1>2, <1>3, <2>2
<1>7. PlaceIsMended(d, in, e, missed)
  BY DEF Coherent, PlaceIsMended, Requeued, Held
<1>8. AnswerIsMended(d, in, e, missed)
  BY DEF Coherent, AnswerIsMended, Requeued
<1>9. ViewsCome(d, in, e, missed)
  BY ZenonT(60), <1>2, <1>3 DEF Coherent, ViewsCome, ToAsk, Bringing, Fresh
<1> QED BY <1>4, <1>5, <1>6, <1>7, <1>8, <1>9 DEF Coherent

-----------------------------------------------------------------------------
(* The turn of a read. *)

\* No read is in progress, and what is not shown is missed, queued or told of.
Ready(c, in, e, missed) ==
  /\ c.read = IdleRead /\ ReadsOut(c) = {} /\ ReadsIn(in) = {}
  /\ GivenUpIsMissed(c, missed)
  /\ c.place # Nothing =>
       \A v \in Views : Askable(e.at, v) /\ ~Askable(c.place, v) =>
         v \in missed \/ MoveTold(in) \/ {v, "assets"} \subseteq c.queue
  /\ \A v \in Views : Askable(e.at, v) =>
       v \in missed \/ Told(in, v) \/ v \in c.queue \/ c.shown[v] = e.ver[v]

\* d follows c: it sent what it added to the outbox, and misses that no longer.
Keeps(c, d, in, e, missed) ==
  /\ d \in Clients /\ d.driver = c.driver
  /\ Len(c.outbox) <= Len(d.outbox)
  /\ Coherent(d, in, e, missed \ Added(c.outbox, d.outbox))

\* A move is told of as far as any view is concerned.
LEMMA MoveTellsAll ==
  ASSUME NEW in, NEW v \in Views, MoveTold(in)
  PROVE  Told(in, v)
  BY DEF MoveTold, Told

\* Without a read in progress, readiness is coherence.
LEMMA ReadyIdle ==
  ASSUME NEW c, NEW in, NEW e, NEW missed, Ready(c, in, e, missed), c.queue = {}
  PROVE  Coherent(c, in, e, missed)
<1>1. c.read.phase = "idle" /\ c.read.assets = Nothing
  BY DEF Ready, IdleRead
<1>2. OneRead(c, in)
  BY <1>1 DEF Ready, OneRead
<1>3. FetchFits(c, in)
  BY DEF Ready, FetchFits
<1>4. PlaceIsMended(c, in, e, missed)
  <2>1. Held(c) = c.place
    BY <1>1 DEF Held
  <2> QED BY <2>1 DEF Ready, PlaceIsMended
<1>5. AnswerIsMended(c, in, e, missed)
  BY DEF Ready, AnswerIsMended
<1>6. ViewsCome(c, in, e, missed)
  <2>1. \A v \in Views : ~Bringing(c, in, v)
    BY <1>1 DEF Ready, Bringing
  <2> QED BY <2>1 DEF Ready, ViewsCome
<1> QED BY <1>2, <1>3, <1>4, <1>5, <1>6 DEF Ready, Coherent

\* The request of a read, sent when no other is on its way.
LEMMA ReadRequest ==
  ASSUME NEW c \in Clients, NEW d \in Clients, NEW in, NEW e, NEW missed \in SUBSET Views,
         NEW m \in Requests, IsRead(m), d.outbox = Append(c.outbox, m),
         ReadsOut(c) = {}, ReadsIn(in) = {}, GivenUpIsMissed(c, missed),
         d.read.phase = (IF m.from = "place" THEN "placing" ELSE "fetching"),
         m.from = "place" => d.read.assets = Nothing,
         m.from # "place" => d.place = d.read.at
  PROVE  /\ ReadsOut(d) = {Len(c.outbox) + 1}
         /\ d.outbox[Len(c.outbox) + 1] = m
         /\ Added(c.outbox, d.outbox) = m.ask
         /\ Len(c.outbox) <= Len(d.outbox)
         /\ OneRead(d, in)
         /\ GivenUpIsMissed(d, missed \ m.ask)
         /\ AnswerIsMended(d, in, e, missed \ m.ask)
<1> DEFINE n == Len(c.outbox) + 1
<1>1. /\ c.outbox \in Seq(Requests)
      /\ Len(c.outbox) \in Nat
      /\ DOMAIN c.outbox = 1..Len(c.outbox) /\ DOMAIN d.outbox = 1..(Len(c.outbox) + 1)
      /\ Len(d.outbox) = Len(c.outbox) + 1
      /\ \A i \in 1..Len(c.outbox) : d.outbox[i] = c.outbox[i]
      /\ d.outbox[Len(c.outbox) + 1] = m
  BY AppendIs DEF Clients
<1>2. ReadsOut(d) = {n}
  BY <1>1 DEF ReadsOut
<1>3. Added(c.outbox, d.outbox) = m.ask
  <2>1. Added(c.outbox, c.outbox) = {}
    BY <1>1, AddedNothing
  <2>2. Len(c.outbox) <= Len(c.outbox)
    BY <1>1
  <2>3. Added(c.outbox, Append(c.outbox, m)) = Added(c.outbox, c.outbox) \cup m.ask
    BY <1>1, <2>2, AddedOneMore
  <2> QED BY <2>1, <2>3
<1>4. OneRead(d, in)
  BY <1>1, <1>2 DEF OneRead, IsRead
<1>5. GivenUpIsMissed(d, missed \ m.ask)
  <2> SUFFICES ASSUME NEW i \in DOMAIN d.outbox, d.outbox[i].from \in Changes,
                      ~d.outbox[i].live, NEW v \in Views
               PROVE  \/ v \in missed \ m.ask
                      \/ \E j \in ReadsOut(d) : i < j /\ v \in d.outbox[j].ask
    BY DEF GivenUpIsMissed
  <2>1. i \in 1..Len(c.outbox) /\ i \in DOMAIN c.outbox /\ d.outbox[i] = c.outbox[i]
    BY <1>1 DEF IsRead
  <2>2. v \in missed
    BY <2>1 DEF GivenUpIsMissed
  <2>3. i < n /\ d.outbox[n] = m
    BY <1>1, <2>1
  <2> QED BY <1>2, <2>2, <2>3
<1>6. AnswerIsMended(d, in, e, missed \ m.ask)
  BY DEF AnswerIsMended
<1> QED BY <1>1, <1>2, <1>3, <1>4, <1>5, <1>6

-----------------------------------------------------------------------------
(* What the operators of the store return. *)

\* d is c with a request of this kind behind the others.
Sends(c, d, from, ask) ==
  /\ d \in Clients /\ SameReading(c, d) /\ d.driver = c.driver
  /\ \E m \in Requests : /\ m.from = from /\ m.ask = ask /\ m.live = TRUE
                         /\ d.outbox = Append(c.outbox, m)

LEMMA SendIs ==
  ASSUME NEW c \in Clients, NEW from \in Senders, NEW ask \in SUBSET Views, NEW elapsed \in Nat,
         from = "place" => ask = {"assets"}, from \notin {"place", "fetch"} => ask = {}
  PROVE  Sends(c, Send(c, from, ask, elapsed), from, ask)
<1> DEFINE m == [from |-> from, ask |-> ask, elapsed |-> elapsed, live |-> TRUE]
           d == Send(c, from, ask, elapsed)
<1>1. m \in Requests /\ m.from = from /\ m.ask = ask /\ m.live = TRUE
  BY DEF Requests
<1>2. d = [c EXCEPT !.outbox = Append(c.outbox, m)]
  BY DEF Send
<1> HIDE DEF m, d
<1>3. Append(c.outbox, m) \in Seq(Requests)
  BY <1>1 DEF Clients
<1>4. d \in Clients /\ SameReading(c, d) /\ d.driver = c.driver /\ d.outbox = Append(c.outbox, m)
  BY <1>2, <1>3 DEF Clients, SameReading
<1> QED BY <1>1, <1>4 DEF d, Sends

\* Publish() of playData.ts ends the read: only the views it read change, and
\* a docked ship has no tactical view.
LEMMA PublishIs ==
  ASSUME NEW c \in Clients, NEW values \in Values,
         "assets" \notin DOMAIN values, c.read.at = "station" => "combat" \notin DOMAIN values
  PROVE  /\ Publish(c, values) \in Clients
         /\ Publish(c, values).read = IdleRead
         /\ Publish(c, values).queue = c.queue
         /\ Publish(c, values).place = c.place
         /\ Publish(c, values).driver = c.driver
         /\ Publish(c, values).outbox = c.outbox
         /\ \A v \in Views : Publish(c, values).shown[v] =
              (IF v = "combat" /\ c.read.at = "station" THEN Nothing
               ELSE IF v = "assets" /\ c.read.assets # Nothing THEN c.read.assets
               ELSE IF v \in DOMAIN values THEN values[v] ELSE c.shown[v])
<1> DEFINE s == [v \in Views |->
                  IF v = "combat" /\ c.read.at = "station" THEN Nothing
                  ELSE IF v = "assets" /\ c.read.assets # Nothing THEN c.read.assets
                  ELSE IF v \in DOMAIN values THEN values[v] ELSE c.shown[v]]
           d == Publish(c, values)
<1> DEFINE Case(v) == CASE v = "combat" /\ c.read.at = "station" -> Nothing
                         [] v = "assets" /\ c.read.assets # Nothing -> c.read.assets
                         [] v \in DOMAIN values -> values[v]
                         [] OTHER -> c.shown[v]
<1>0. \A v \in Views : Case(v) = s[v]
  <2> SUFFICES ASSUME NEW v \in Views PROVE Case(v) = s[v]
    OBVIOUS
  <2>1. CASE v = "combat" /\ c.read.at = "station"
    BY <2>1
  <2>2. CASE v = "assets" /\ c.read.assets # Nothing
    BY <2>2
  <2>3. CASE v \in DOMAIN values
    BY <2>3
  <2>4. CASE /\ ~(v = "combat" /\ c.read.at = "station")
             /\ ~(v = "assets" /\ c.read.assets # Nothing) /\ v \notin DOMAIN values
    BY <2>4
  <2> QED BY <2>1, <2>2, <2>3, <2>4
<1>1. d = [c EXCEPT !.read = IdleRead, !.shown = s]
  <2>1. d = [c EXCEPT !.read = IdleRead, !.shown = [v \in Views |-> Case(v)]]
    BY DEF Publish
  <2> HIDE DEF Case
  <2> QED BY <1>0, <2>1
<1>2. \A v \in DOMAIN values : values[v] \in Nat
  BY DEF Values
<1>3. c.shown \in [Views -> Shown] /\ c.read.assets \in Shown
  BY DEF Clients, Reads
<1>4. s \in [Views -> Shown]
  BY <1>2, <1>3 DEF Shown
<1>5. IdleRead \in Reads
  BY DEF IdleRead, Reads, Shown
<1>6. \A v \in Views : s[v] =
              (IF v = "combat" /\ c.read.at = "station" THEN Nothing
               ELSE IF v = "assets" /\ c.read.assets # Nothing THEN c.read.assets
               ELSE IF v \in DOMAIN values THEN values[v] ELSE c.shown[v])
  OBVIOUS
<1> HIDE DEF s, d
<1>7. /\ d \in Clients /\ d.read = IdleRead /\ d.queue = c.queue /\ d.place = c.place
      /\ d.driver = c.driver /\ d.outbox = c.outbox /\ d.shown = s
  BY <1>1, <1>4, <1>5 DEF Clients
<1> QED BY <1>6, <1>7 DEF d

LEMMA NoValuesAre == NoValues \in Values /\ DOMAIN NoValues = {}
<1>1. NoValues \in [{} -> Nat]
  BY DEF NoValues
<1>2. {} \in SUBSET Views
  OBVIOUS
<1> QED BY <1>1, <1>2 DEF Values, NoValues

\* What a client with a known place asks for: what it wants of what a ship there shows.
LEMMA AskedIs ==
  ASSUME NEW c
  PROVE  Asked(c) = {v \in c.read.wanted \ {"assets"} : Askable(c.read.at, v)}
  BY DEF Asked, Askable

\* The first branch of a turn: the placement of the ship is asked for.
LEMMA TurnPlaces ==
  ASSUME NEW c \in Clients, NEW d \in Clients, NEW in, NEW e, NEW missed \in SUBSET Views,
         NEW m \in Requests, m.from = "place", m.ask = {"assets"}, m.live = TRUE,
         d.outbox = Append(c.outbox, m), Ready(c, in, e, missed),
         c.place = Nothing \/ "assets" \in c.queue,
         d.read.phase = "placing", d.read.assets = Nothing, d.read.wanted = c.queue,
         d.queue = {}, d.place = c.place, d.shown = c.shown, d.driver = c.driver
  PROVE  Keeps(c, d, in, e, missed)
<1> DEFINE n == Len(c.outbox) + 1
           less == missed \ {"assets"}
<1>0. GivenUpIsMissed(c, missed) /\ ReadsOut(c) = {} /\ ReadsIn(in) = {}
  BY DEF Ready
<1>1. /\ ReadsOut(d) = {n} /\ d.outbox[n] = m /\ Added(c.outbox, d.outbox) = {"assets"}
      /\ Len(c.outbox) <= Len(d.outbox)
      /\ OneRead(d, in) /\ GivenUpIsMissed(d, less) /\ AnswerIsMended(d, in, e, less)
  <2>1. IsRead(m)
    BY DEF IsRead
  <2>2. d.read.phase = (IF m.from = "place" THEN "placing" ELSE "fetching")
    OBVIOUS
  <2>3. /\ ReadsOut(d) = {Len(c.outbox) + 1}
        /\ d.outbox[Len(c.outbox) + 1] = m
        /\ Added(c.outbox, d.outbox) = m.ask
        /\ Len(c.outbox) <= Len(d.outbox)
        /\ OneRead(d, in)
        /\ GivenUpIsMissed(d, missed \ m.ask)
        /\ AnswerIsMended(d, in, e, missed \ m.ask)
    BY <1>0, <2>1, <2>2, ReadRequest
  <2> QED BY <2>3
<1> HIDE DEF n
<1>2. FetchFits(d, in)
  BY <1>0, <1>1 DEF FetchFits
<1>3. PlaceIsMended(d, in, e, less)
  <2> SUFFICES ASSUME d.place # Nothing, NEW v \in Views,
                      Askable(e.at, v), ~Askable(d.place, v)
               PROVE  v \in less \/ MoveTold(in) \/ v \in d.read.wanted
    BY DEF PlaceIsMended, Held
  <2>1. v # "assets"
    BY DEF Askable, SpaceOnly, StationOnly
  <2>2. v \in missed \/ MoveTold(in) \/ {v, "assets"} \subseteq c.queue
    BY DEF Ready
  <2> QED BY <2>1, <2>2
<1>4. ViewsCome(d, in, e, less)
  <2> SUFFICES ASSUME NEW v \in Views, Askable(e.at, v)
               PROVE  \/ v \in less \/ Told(in, v) \/ ToAsk(d, v)
                      \/ IF Bringing(d, in, v) THEN Fresh(d, in, e, v) ELSE d.shown[v] = e.ver[v]
    BY DEF ViewsCome
  <2>1. CASE v = "assets"
    BY <1>0, <2>1 DEF Bringing, Fresh
  <2>2. CASE v # "assets"
    <3>1. v \in less \/ Told(in, v) \/ v \in c.queue \/ c.shown[v] = e.ver[v]
      BY <2>2 DEF Ready
    <3>2. ~Bringing(d, in, v)
      BY <1>0, <1>1, <2>2 DEF Bringing
    <3> QED BY <2>2, <3>1, <3>2 DEF ToAsk
  <2> QED BY <2>1, <2>2
<1> QED BY <1>1, <1>2, <1>3, <1>4 DEF Keeps, Coherent

\* The second: what the place can answer of what is queued is asked for at once.
LEMMA TurnFetches ==
  ASSUME NEW c \in Clients, NEW d \in Clients, NEW in, NEW e, NEW missed \in SUBSET Views,
         NEW m \in Requests, m.from = "fetch", m.live = TRUE,
         m.ask = {v \in c.queue : Askable(c.place, v)},
         d.outbox = Append(c.outbox, m), Ready(c, in, e, missed),
         c.place # Nothing, "assets" \notin c.queue,
         d.read.phase = "fetching", d.read.assets = Nothing, d.read.wanted = c.queue,
         d.read.at = c.place, d.queue = {}, d.place = c.place, d.shown = c.shown,
         d.driver = c.driver
  PROVE  Keeps(c, d, in, e, missed)
<1> DEFINE n == Len(c.outbox) + 1
           less == missed \ m.ask
<1>0. GivenUpIsMissed(c, missed) /\ ReadsOut(c) = {} /\ ReadsIn(in) = {}
  BY DEF Ready
<1>1. /\ ReadsOut(d) = {n} /\ d.outbox[n] = m /\ Added(c.outbox, d.outbox) = m.ask
      /\ Len(c.outbox) <= Len(d.outbox)
      /\ OneRead(d, in) /\ GivenUpIsMissed(d, less) /\ AnswerIsMended(d, in, e, less)
  <2>1. IsRead(m)
    BY DEF IsRead
  <2>2. d.read.phase = (IF m.from = "place" THEN "placing" ELSE "fetching")
    OBVIOUS
  <2>3. /\ ReadsOut(d) = {Len(c.outbox) + 1}
        /\ d.outbox[Len(c.outbox) + 1] = m
        /\ Added(c.outbox, d.outbox) = m.ask
        /\ Len(c.outbox) <= Len(d.outbox)
        /\ OneRead(d, in)
        /\ GivenUpIsMissed(d, missed \ m.ask)
        /\ AnswerIsMended(d, in, e, missed \ m.ask)
    <3>1. m.from # "place" /\ d.place = d.read.at
      OBVIOUS
    <3> QED BY <1>0, <2>1, <2>2, <3>1, ReadRequest
  <2> QED BY <2>3
<1> HIDE DEF n
<1>2. FetchFits(d, in)
  BY <1>0, <1>1 DEF FetchFits, Fits, Held
<1>a. ASSUME NEW v \in Views, Askable(e.at, v), ~Askable(c.place, v)
      PROVE  v \in less \/ MoveTold(in)
  BY <1>a DEF Ready
<1>3. PlaceIsMended(d, in, e, less)
  BY <1>a DEF PlaceIsMended, Held
<1>4. ViewsCome(d, in, e, less)
  <2> SUFFICES ASSUME NEW v \in Views, Askable(e.at, v)
               PROVE  \/ v \in less \/ Told(in, v)
                      \/ IF Bringing(d, in, v) THEN Fresh(d, in, e, v) ELSE d.shown[v] = e.ver[v]
    BY DEF ViewsCome
  <2>1. CASE v \in m.ask
    <3>1. v # "assets" /\ Bringing(d, in, v)
      BY <1>1, <2>1 DEF Bringing
    <3> QED BY <1>0, <3>1 DEF Fresh
  <2>2. CASE v \notin m.ask
    <3>1. ~Bringing(d, in, v)
      BY <1>0, <1>1, <2>2 DEF Bringing
    <3>2. v \in missed \/ Told(in, v) \/ v \in c.queue \/ c.shown[v] = e.ver[v]
      BY DEF Ready
    <3>3. v \in c.queue => v \in less \/ Told(in, v)
      BY <1>a, <2>2, MoveTellsAll
    <3> QED BY <2>2, <3>1, <3>2, <3>3
  <2> QED BY <2>1, <2>2
<1> QED BY <1>1, <1>2, <1>3, <1>4 DEF Keeps, Coherent

\* The third: nothing of what is queued can be asked for here.
LEMMA TurnPublishes ==
  ASSUME NEW c \in Clients, NEW d \in Clients, NEW in, NEW e, NEW missed \in SUBSET Views,
         Ready(c, in, e, missed), c.place # Nothing, "assets" \notin c.queue,
         \A v \in c.queue : ~Askable(c.place, v),
         d.read = IdleRead, d.queue = {}, d.place = c.place, d.outbox = c.outbox,
         d.driver = c.driver,
         \A v \in Views : d.shown[v] =
           IF v = "combat" /\ c.place = "station" THEN Nothing ELSE c.shown[v]
  PROVE  Keeps(c, d, in, e, missed)
<1>1. ReadsOut(d) = {} /\ ReadsIn(in) = {}
  BY DEF Ready, ReadsOut
<1>2. GivenUpIsMissed(d, missed)
  BY <1>1 DEF Ready, GivenUpIsMissed
<1>a. ASSUME NEW v \in Views, Askable(e.at, v), ~Askable(c.place, v)
      PROVE  v \in missed \/ MoveTold(in)
  BY <1>a DEF Ready
<1>3. \A v \in Views : Askable(e.at, v) =>
        v \in missed \/ Told(in, v) \/ d.shown[v] = e.ver[v]
  <2> SUFFICES ASSUME NEW v \in Views, Askable(e.at, v)
               PROVE  v \in missed \/ Told(in, v) \/ d.shown[v] = e.ver[v]
    OBVIOUS
  <2>1. CASE ~Askable(c.place, v)
    BY <1>a, <2>1, MoveTellsAll
  <2>2. CASE Askable(c.place, v)
    <3>1. v \notin c.queue
      BY <2>2
    <3>2. ~(v = "combat" /\ c.place = "station")
      BY <2>2 DEF Askable, SpaceOnly
    <3> QED BY <3>1, <3>2 DEF Ready
  <2> QED BY <2>1, <2>2
<1>4. Ready(d, in, e, missed)
  BY <1>1, <1>2, <1>3, <1>a DEF Ready
<1>5. Coherent(d, in, e, missed)
  BY <1>4, ReadyIdle
<1>6. Added(c.outbox, d.outbox) = {} /\ Len(c.outbox) <= Len(d.outbox)
  BY AddedNothing DEF Clients
<1> QED BY <1>5, <1>6, Monotone DEF Keeps

\* A turn of readOnce() forgets nothing that is not shown: what was queued is
\* asked for, or cannot be asked for where the ship is known to be.
LEMMA TurnKeeps ==
  ASSUME NEW c \in Clients, NEW in, NEW e, NEW missed \in SUBSET Views,
         Ready(c, in, e, missed)
  PROVE  Keeps(c, Turn(c), in, e, missed)
<1> DEFINE d == [c EXCEPT !.read = [IdleRead EXCEPT !.wanted = c.queue, !.at = c.place],
                      !.queue = {}]
<1>1. c.queue \in SUBSET Views /\ c.place \in Berths \cup {Nothing} /\ c.read = IdleRead
  BY DEF Clients, Ready
<1>2. [IdleRead EXCEPT !.wanted = c.queue, !.at = c.place] =
        [phase |-> "idle", wanted |-> c.queue, at |-> c.place, assets |-> Nothing]
  <2> DEFINE q == c.queue
             p == c.place
  <2> HIDE DEF q, p
  <2>1. [IdleRead EXCEPT !.wanted = q, !.at = p] =
          [[IdleRead EXCEPT !.wanted = q] EXCEPT !.at = p]
    OBVIOUS
  <2>2. [IdleRead EXCEPT !.wanted = q] =
          [phase |-> "idle", wanted |-> q, at |-> Nothing, assets |-> Nothing]
    BY DEF IdleRead
  <2>3. [[phase |-> "idle", wanted |-> q, at |-> Nothing, assets |-> Nothing] EXCEPT !.at = p] =
          [phase |-> "idle", wanted |-> q, at |-> p, assets |-> Nothing]
    OBVIOUS
  <2> QED BY <2>1, <2>2, <2>3 DEF q, p
<1>3. [IdleRead EXCEPT !.wanted = c.queue, !.at = c.place] \in Reads
  BY <1>1, <1>2 DEF Reads, Shown
<1>4. /\ d \in Clients
      /\ d.read = [phase |-> "idle", wanted |-> c.queue, at |-> c.place, assets |-> Nothing]
      /\ d.queue = {} /\ d.place = c.place /\ d.shown = c.shown /\ d.driver = c.driver
      /\ d.outbox = c.outbox
  BY <1>2, <1>3 DEF Clients
<1>5. Turn(c) = IF c.queue = {} THEN c
                ELSE IF c.place = Nothing \/ "assets" \in c.queue
                THEN Send([d EXCEPT !.read.phase = "placing"], "place", {"assets"}, 0)
                ELSE IF Asked(d) = {} THEN Publish(d, NoValues) ELSE Fetch(d)
  BY DEF Turn
<1> HIDE DEF d
<1>6. ASSUME NEW phase \in {"placing", "fetching"}
      PROVE  /\ [d EXCEPT !.read.phase = phase] \in Clients
             /\ [d EXCEPT !.read.phase = phase].read
                  = [phase |-> phase, wanted |-> c.queue, at |-> c.place, assets |-> Nothing]
             /\ [d EXCEPT !.read.phase = phase].queue = {}
             /\ [d EXCEPT !.read.phase = phase].place = c.place
             /\ [d EXCEPT !.read.phase = phase].shown = c.shown
             /\ [d EXCEPT !.read.phase = phase].driver = c.driver
             /\ [d EXCEPT !.read.phase = phase].outbox = c.outbox
  <2>1. [phase |-> phase, wanted |-> c.queue, at |-> c.place, assets |-> Nothing] \in Reads
    BY <1>1 DEF Reads, Shown
  <2> QED BY SMTT(30), <1>4, <2>1 DEF Clients
<1>7. CASE c.queue = {}
  <2>1. Turn(c) = c /\ Coherent(c, in, e, missed)
    BY <1>5, <1>7, ReadyIdle
  <2>2. Added(c.outbox, c.outbox) = {} /\ Len(c.outbox) <= Len(c.outbox)
    BY AddedNothing DEF Clients
  <2> QED BY <2>1, <2>2, Monotone DEF Keeps
<1>8. CASE c.queue # {} /\ (c.place = Nothing \/ "assets" \in c.queue)
  <2> DEFINE b == [d EXCEPT !.read.phase = "placing"]
             f == Send(b, "place", {"assets"}, 0)
  <2>1. /\ b \in Clients
        /\ b.read = [phase |-> "placing", wanted |-> c.queue, at |-> c.place, assets |-> Nothing]
        /\ b.queue = {} /\ b.place = c.place /\ b.shown = c.shown /\ b.driver = c.driver
        /\ b.outbox = c.outbox
    BY <1>6
  <2>2. Turn(c) = f
    BY <1>5, <1>8
  <2> HIDE DEF b
  <2>3. {"assets"} \in SUBSET Views /\ "place" \in Senders /\ 0 \in Nat
    BY DEF Views, Senders
  <2>4. Sends(b, f, "place", {"assets"})
    BY <2>1, <2>3, SendIs
  <2> HIDE DEF f
  <2>5. PICK m \in Requests : /\ m.from = "place" /\ m.ask = {"assets"} /\ m.live = TRUE
                              /\ f.outbox = Append(c.outbox, m)
    BY <2>1, <2>4 DEF Sends
  <2>6. /\ f.read.phase = "placing" /\ f.read.assets = Nothing /\ f.read.wanted = c.queue
        /\ f.queue = {} /\ f.place = c.place /\ f.shown = c.shown /\ f.driver = c.driver
    BY <2>1, <2>4 DEF Sends, SameReading
  <2>a. f \in Clients
    BY <2>4 DEF Sends
  <2>7. Keeps(c, f, in, e, missed)
    BY <1>8, <2>a, <2>5, <2>6, TurnPlaces
  <2> QED BY <2>2, <2>7
<1>9. Asked(d) = {v \in c.queue \ {"assets"} : Askable(c.place, v)}
  BY <1>4, AskedIs
<1>10. CASE c.queue # {} /\ c.place # Nothing /\ "assets" \notin c.queue /\ Asked(d) # {}
  <2> DEFINE b == [d EXCEPT !.read.phase = "fetching"]
             f == Send(b, "fetch", Asked(d), 0)
  <2>1. /\ b \in Clients
        /\ b.read = [phase |-> "fetching", wanted |-> c.queue, at |-> c.place, assets |-> Nothing]
        /\ b.queue = {} /\ b.place = c.place /\ b.shown = c.shown /\ b.driver = c.driver
        /\ b.outbox = c.outbox
    BY <1>6
  <2>2. Turn(c) = f
    BY <1>5, <1>10 DEF Fetch
  <2> HIDE DEF b
  <2>3. Asked(d) \in SUBSET Views /\ "fetch" \in Senders /\ 0 \in Nat
    BY <1>1, <1>9 DEF Senders
  <2>4. Sends(b, f, "fetch", Asked(d))
    BY <2>1, <2>3, SendIs
  <2> HIDE DEF f
  <2>5. PICK m \in Requests : /\ m.from = "fetch" /\ m.ask = Asked(d) /\ m.live = TRUE
                              /\ f.outbox = Append(c.outbox, m)
    BY <2>1, <2>4 DEF Sends
  <2>6. /\ f.read.phase = "fetching" /\ f.read.assets = Nothing /\ f.read.wanted = c.queue
        /\ f.read.at = c.place
        /\ f.queue = {} /\ f.place = c.place /\ f.shown = c.shown /\ f.driver = c.driver
    BY <2>1, <2>4 DEF Sends, SameReading
  <2>7. m.ask = {v \in c.queue : Askable(c.place, v)}
    BY <1>9, <1>10, <2>5
  <2>a. f \in Clients
    BY <2>4 DEF Sends
  <2>8. Keeps(c, f, in, e, missed)
    BY <1>10, <2>a, <2>5, <2>6, <2>7, TurnFetches
  <2> QED BY <2>2, <2>8
<1>11. CASE c.queue # {} /\ c.place # Nothing /\ "assets" \notin c.queue /\ Asked(d) = {}
  <2> DEFINE f == Publish(d, NoValues)
  <2>1. Turn(c) = f
    BY <1>5, <1>11
  <2>2. /\ f \in Clients /\ f.read = IdleRead /\ f.queue = d.queue /\ f.place = d.place
        /\ f.driver = d.driver /\ f.outbox = d.outbox
        /\ \A v \in Views : f.shown[v] =
              (IF v = "combat" /\ d.read.at = "station" THEN Nothing
               ELSE IF v = "assets" /\ d.read.assets # Nothing THEN d.read.assets
               ELSE IF v \in DOMAIN NoValues THEN NoValues[v] ELSE d.shown[v])
    BY <1>4, NoValuesAre, PublishIs
  <2> HIDE DEF f
  <2>3. \A v \in Views : f.shown[v] =
          IF v = "combat" /\ c.place = "station" THEN Nothing ELSE c.shown[v]
    BY <1>4, <2>2, NoValuesAre
  <2>4. \A v \in c.queue : ~Askable(c.place, v)
    BY <1>9, <1>11
  <2>5. /\ f.read = IdleRead /\ f.queue = {} /\ f.place = c.place /\ f.outbox = c.outbox
        /\ f.driver = c.driver
    BY <1>4, <2>2
  <2>6. Keeps(c, f, in, e, missed)
    BY <1>11, <2>2, <2>3, <2>4, <2>5, TurnPublishes
  <2> QED BY <2>1, <2>6
<1> QED BY <1>7, <1>8, <1>10, <1>11

-----------------------------------------------------------------------------
(* Composing what one handler does. *)

LEMMA KeepsSame ==
  ASSUME NEW c \in Clients, NEW d \in Clients, NEW in, NEW e, NEW missed,
         d.outbox = c.outbox, d.driver = c.driver, Coherent(d, in, e, missed)
  PROVE  Keeps(c, d, in, e, missed)
<1>1. Added(c.outbox, d.outbox) = {} /\ Len(c.outbox) <= Len(d.outbox)
  BY AddedNothing DEF Clients
<1>2. missed \subseteq missed \ Added(c.outbox, d.outbox)
  BY <1>1
<1>3. Coherent(d, in, e, missed \ Added(c.outbox, d.outbox))
  BY <1>2, Monotone
<1> QED BY <1>1, <1>3 DEF Keeps

\* Keeps() looks at the outbox and the driver of the client it starts from only.
LEMMA KeepsFrom ==
  ASSUME NEW b, NEW c, NEW d, NEW in, NEW e, NEW missed,
         b.outbox = c.outbox, b.driver = c.driver, Keeps(b, d, in, e, missed)
  PROVE  Keeps(c, d, in, e, missed)
  BY DEF Keeps

\* A request of another kind, behind what was kept.
LEMMA KeepsMore ==
  ASSUME NEW c \in Clients, NEW d, NEW f, NEW in, NEW e, NEW missed, NEW from,
         from \notin {"place", "fetch"}, Keeps(c, d, in, e, missed), Sends(d, f, from, {})
  PROVE  Keeps(c, f, in, e, missed)
<1>1. PICK m \in Requests : /\ m.from = from /\ m.ask = {} /\ m.live = TRUE
                            /\ f.outbox = Append(d.outbox, m)
  BY DEF Sends
<1>2. d \in Clients /\ f \in Clients /\ SameReading(d, f) /\ f.driver = c.driver
  BY DEF Sends, Keeps
<1>3. c.outbox \in Seq(Requests) /\ d.outbox \in Seq(Requests) /\ Len(c.outbox) <= Len(d.outbox)
  BY <1>2 DEF Clients, Keeps
<1>4. Added(c.outbox, Append(d.outbox, m)) = Added(c.outbox, d.outbox) \cup m.ask
  BY <1>3, AddedOneMore
<1>5. Added(c.outbox, f.outbox) = Added(c.outbox, d.outbox)
  BY <1>1, <1>4
<1>6. Len(f.outbox) = Len(d.outbox) + 1 /\ Len(c.outbox) \in Nat /\ Len(d.outbox) \in Nat
  BY <1>1, <1>3, AppendIs
<1>7. Coherent(d, in, e, missed \ Added(c.outbox, d.outbox))
  BY DEF Keeps
<1>8. Coherent(f, in, e, missed \ Added(c.outbox, d.outbox))
  BY <1>1, <1>2, <1>7, OtherRequest
<1> QED BY <1>2, <1>3, <1>5, <1>6, <1>8 DEF Keeps

\* requestAutosave() of playData.ts disturbs no read.
LEMMA AutosaveKeeps ==
  ASSUME NEW c \in Clients, NEW d, NEW in, NEW e, NEW missed, Keeps(c, d, in, e, missed)
  PROVE  Keeps(c, RequestAutosave(d), in, e, missed)
<1>1. d \in Clients
  BY DEF Keeps
<1>2. CASE d.saving # "idle"
  <2> DEFINE f == [d EXCEPT !.saveAgain = TRUE]
  <2>1. RequestAutosave(d) = f
    BY <1>2 DEF RequestAutosave
  <2>2. f \in Clients /\ SameReading(d, f) /\ f.outbox = d.outbox /\ f.driver = d.driver
    BY <1>1 DEF Clients, SameReading
  <2> HIDE DEF f
  <2>3. Coherent(f, in, e, missed \ Added(c.outbox, f.outbox))
    BY <2>2, SameOutbox DEF Keeps
  <2> QED BY <2>1, <2>2, <2>3 DEF Keeps
<1>3. CASE d.saving = "idle"
  <2> DEFINE b == [d EXCEPT !.saving = "asking", !.saveAgain = FALSE]
             f == Send(b, "save", {}, 0)
  <2>1. RequestAutosave(d) = f
    BY <1>3 DEF RequestAutosave
  <2>2. b \in Clients /\ SameReading(d, b) /\ b.outbox = d.outbox /\ b.driver = d.driver
    BY <1>1 DEF Clients, SameReading
  <2> HIDE DEF b
  <2>3. Coherent(b, in, e, missed \ Added(c.outbox, b.outbox))
    BY <2>2, SameOutbox DEF Keeps
  <2>4. Keeps(c, b, in, e, missed)
    BY <2>2, <2>3 DEF Keeps
  <2>5. "save" \in Senders /\ {} \in SUBSET Views /\ 0 \in Nat
    BY DEF Senders
  <2>6. Sends(b, f, "save", {})
    BY <2>2, <2>5, SendIs
  <2> HIDE DEF f
  <2> QED BY <2>1, <2>4, <2>6, KeepsMore
<1> QED BY <1>2, <1>3

-----------------------------------------------------------------------------
(* The answer of a change. *)

\* An answer was taken that makes the views of due known to have changed, and
\* nothing was done about it yet.
Loose(c, in, e, missed, due) ==
  /\ OneRead(c, in) /\ FetchFits(c, in) /\ GivenUpIsMissed(c, missed)
  /\ due # Views => PlaceIsMended(c, in, e, missed) /\ AnswerIsMended(c, in, e, missed)
  /\ ViewsCome(c, in, e, missed \cup due)

LEMMA LooseNothing ==
  ASSUME NEW c, NEW in, NEW e, NEW missed, Loose(c, in, e, missed, {})
  PROVE  Coherent(c, in, e, missed)
<1>1. {} # Views /\ missed \cup {} = missed
  BY DEF Views
<1> QED BY <1>1 DEF Loose, Coherent

LEMMA LooseAll ==
  ASSUME NEW c, NEW in, NEW e, NEW missed, Loose(c, in, e, missed, {})
  PROVE  Loose(c, in, e, missed, Views)
  BY DEF Loose, ViewsCome

\* ApplyInvalidations() during a read: what changed waits for the next one.
LEMMA InvalidatedMeanwhile ==
  ASSUME NEW c \in Clients, NEW d \in Clients, NEW in, NEW e, NEW missed, NEW due \in SUBSET Views,
         Loose(c, in, e, missed, due), c.read.phase # "idle",
         d.read = c.read, d.queue = c.queue \cup due, d.shown = c.shown, d.outbox = c.outbox,
         d.place = (IF "assets" \in due THEN Nothing ELSE c.place)
  PROVE  Coherent(d, in, e, missed)
<1> USE DEF ReadsOut
<1>1. OneRead(d, in)
  BY DEF Loose, OneRead
<1>2. FetchFits(d, in)
  BY DEF Loose, FetchFits, Fits, Held
<1>3. GivenUpIsMissed(d, missed)
  BY DEF Loose, GivenUpIsMissed
<1>4. PlaceIsMended(d, in, e, missed)
  <2>1. CASE due = Views
    BY <2>1 DEF PlaceIsMended, Requeued, Views, Held
  <2>2. CASE due # Views
    <3>1. PlaceIsMended(c, in, e, missed)
      BY <2>2 DEF Loose
    <3>2. Held(d) \in {Nothing, Held(c)}
      BY DEF Held
    <3> QED BY <3>1, <3>2 DEF PlaceIsMended, Requeued, Held
  <2> QED BY <2>1, <2>2
<1>5. AnswerIsMended(d, in, e, missed)
  <2>1. CASE due = Views
    BY <2>1 DEF AnswerIsMended, Requeued, Views
  <2>2. CASE due # Views
    BY <2>2 DEF Loose, AnswerIsMended, Requeued
  <2> QED BY <2>1, <2>2
<1>6. ViewsCome(d, in, e, missed)
  BY DEF Loose, ViewsCome, ToAsk, Bringing, Fresh
<1> QED BY <1>1, <1>2, <1>3, <1>4, <1>5, <1>6 DEF Coherent

\* Without a read in progress it is ready for one.
LEMMA InvalidatedReady ==
  ASSUME NEW c \in Clients, NEW d \in Clients, NEW in, NEW e, NEW missed, NEW due \in SUBSET Views,
         Loose(c, in, e, missed, due), c.read.phase = "idle",
         d.read = c.read, d.queue = c.queue \cup due, d.shown = c.shown, d.outbox = c.outbox,
         d.place = (IF "assets" \in due THEN Nothing ELSE c.place)
  PROVE  Ready(d, in, e, missed)
<1>1. c.read = IdleRead /\ ReadsOut(c) = {} /\ ReadsIn(in) = {} /\ ReadsOut(d) = {}
  BY DEF Loose, OneRead, ReadsOut
<1>2. GivenUpIsMissed(d, missed)
  BY <1>1 DEF Loose, GivenUpIsMissed
<1>3. d.place # Nothing =>
        \A v \in Views : Askable(e.at, v) /\ ~Askable(d.place, v) =>
          v \in missed \/ MoveTold(in)
  <2>1. CASE "assets" \in due
    BY <2>1
  <2>2. CASE "assets" \notin due
    <3>1. PlaceIsMended(c, in, e, missed)
      BY <2>2 DEF Loose, Views
    <3> QED BY <2>2, <3>1 DEF PlaceIsMended, Requeued, Held
  <2> QED BY <2>1, <2>2
<1>4. \A v \in Views : ~Bringing(c, in, v)
  BY <1>1 DEF Bringing, IdleRead
<1>5. \A v \in Views : Askable(e.at, v) =>
        v \in missed \/ Told(in, v) \/ v \in d.queue \/ d.shown[v] = e.ver[v]
  BY <1>4 DEF Loose, ViewsCome, ToAsk
<1> QED BY <1>1, <1>2, <1>3, <1>5 DEF Ready

\* applyInvalidations() of playData.ts loses nothing that an answer made known.
LEMMA ApplyKeeps ==
  ASSUME NEW c \in Clients, NEW in, NEW e, NEW missed \in SUBSET Views, NEW due \in SUBSET Views,
         Loose(c, in, e, missed, due)
  PROVE  Keeps(c, ApplyInvalidations(c, due), in, e, missed)
<1>1. CASE due = {}
  <2>1. ApplyInvalidations(c, due) = c
    BY <1>1 DEF ApplyInvalidations
  <2>2. Coherent(c, in, e, missed)
    BY <1>1, LooseNothing
  <2> QED BY <2>1, <2>2, KeepsSame
<1>2. CASE due # {}
  <2> DEFINE b == IF "assets" \in due THEN [c EXCEPT !.place = Nothing] ELSE c
             d == [b EXCEPT !.queue = b.queue \cup due]
  <2>1. ApplyInvalidations(c, due) = IF b.read.phase # "idle" THEN d ELSE Turn(d)
    BY <1>2 DEF ApplyInvalidations, ReadOnce
  <2>2. /\ b \in Clients /\ b.read = c.read /\ b.queue = c.queue /\ b.shown = c.shown
        /\ b.outbox = c.outbox /\ b.driver = c.driver
        /\ b.place = (IF "assets" \in due THEN Nothing ELSE c.place)
    BY DEF Clients
  <2> HIDE DEF b
  <2>3. /\ d \in Clients /\ d.read = c.read /\ d.queue = c.queue \cup due /\ d.shown = c.shown
        /\ d.outbox = c.outbox /\ d.driver = c.driver
        /\ d.place = (IF "assets" \in due THEN Nothing ELSE c.place)
    BY <2>2 DEF Clients
  <2> HIDE DEF d
  <2>4. CASE c.read.phase # "idle"
    <3>1. Coherent(d, in, e, missed)
      BY <2>3, <2>4, InvalidatedMeanwhile
    <3>2. ApplyInvalidations(c, due) = d
      BY <2>1, <2>2, <2>4
    <3> QED BY <2>3, <3>1, <3>2, KeepsSame
  <2>5. CASE c.read.phase = "idle"
    <3>1. Ready(d, in, e, missed)
      BY <2>3, <2>5, InvalidatedReady
    <3>2. Keeps(d, Turn(d), in, e, missed)
      BY <2>3, <3>1, TurnKeeps
    <3>3. ApplyInvalidations(c, due) = Turn(d)
      BY <2>1, <2>2, <2>5
    <3> QED BY <2>3, <3>2, <3>3, KeepsFrom
  <2> QED BY <2>4, <2>5
<1> QED BY <1>1, <1>2

\* refresh() of playData.ts is to re-read what everything changed asks for.
LEMMA RefreshKeeps ==
  ASSUME NEW c \in Clients, NEW in, NEW e, NEW missed \in SUBSET Views,
         Loose(c, in, e, missed, {})
  PROVE  Keeps(c, Refresh(c), in, e, missed)
<1>1. Views # {} /\ "assets" \in Views /\ Views \in SUBSET Views
  BY DEF Views
<1>2. Refresh(c) = ApplyInvalidations(c, Views)
  BY <1>1 DEF Refresh, ApplyInvalidations
<1>3. Loose(c, in, e, missed, Views)
  BY LooseAll
<1> QED BY <1>1, <1>2, <1>3, ApplyKeeps

LEMMA CommandKeeps ==
  ASSUME NEW c \in Clients, NEW in, NEW e, NEW missed \in SUBSET Views, NEW m \in Answers,
         Loose(c, in, e, missed, m.invalid)
  PROVE  Keeps(c, OnCommandAnswered(c, m), in, e, missed)
<1>1. m.invalid \in SUBSET Views /\ m.ok \in BOOLEAN /\ (m.invalid # {} => m.ok)
  BY DEF Answers
<1> DEFINE d == ApplyInvalidations(c, m.invalid)
<1>2. Keeps(c, d, in, e, missed)
  BY <1>1, ApplyKeeps
<1>3. CASE m.ok
  <2>1. OnCommandAnswered(c, m) = IF m.autosave THEN RequestAutosave(d) ELSE d
    BY <1>3 DEF OnCommandAnswered, AnswerAutosave
  <2> HIDE DEF d
  <2>2. Keeps(c, RequestAutosave(d), in, e, missed)
    BY <1>2, AutosaveKeeps
  <2> QED BY <1>2, <2>1, <2>2
<1>4. CASE ~m.ok
  <2>1. OnCommandAnswered(c, m) = Refresh(c) /\ m.invalid = {}
    BY <1>1, <1>4 DEF OnCommandAnswered
  <2> QED BY <2>1, RefreshKeeps
<1> QED BY <1>3, <1>4

\* queue() of the driver only schedules the next frame.
LEMMA QueueIs ==
  ASSUME NEW c \in Clients
  PROVE  /\ Queue(c) \in Clients /\ SameReading(c, Queue(c)) /\ Queue(c).outbox = c.outbox
         /\ Queue(c).driver.running = c.driver.running /\ Queue(c).driver.last = c.driver.last
         /\ c.driver = StoppedDriver => Queue(c).driver = StoppedDriver
<1>1. c.driver \in Drivers
  BY DEF Clients
<1>2. Queue(c) = [c EXCEPT !.driver =
                   [c.driver EXCEPT !.scheduled = c.driver.scheduled \/ c.driver.running]]
  BY DEF Queue
<1>3. [c.driver EXCEPT !.scheduled = c.driver.scheduled \/ c.driver.running]
        = [running |-> c.driver.running, last |-> c.driver.last,
           scheduled |-> c.driver.scheduled \/ c.driver.running]
  BY <1>1 DEF Drivers
<1>4. [running |-> c.driver.running, last |-> c.driver.last,
       scheduled |-> c.driver.scheduled \/ c.driver.running] \in Drivers
  <2>1. (c.driver.scheduled \/ c.driver.running) \in BOOLEAN
    OBVIOUS
  <2> QED BY <1>1, <2>1 DEF Drivers
<1>5. /\ Queue(c) \in Clients /\ SameReading(c, Queue(c)) /\ Queue(c).outbox = c.outbox
      /\ Queue(c).driver = [running |-> c.driver.running, last |-> c.driver.last,
                            scheduled |-> c.driver.scheduled \/ c.driver.running]
  BY <1>2, <1>3, <1>4 DEF Clients, SameReading
<1>6. ASSUME c.driver = StoppedDriver PROVE Queue(c).driver = StoppedDriver
  <2>1. c.driver.running = FALSE /\ c.driver.last = Nothing /\ c.driver.scheduled = FALSE
    BY <1>6 DEF StoppedDriver
  <2>2. (c.driver.scheduled \/ c.driver.running) = FALSE
    BY <2>1
  <2> QED BY <1>5, <2>1, <2>2 DEF StoppedDriver
<1> QED BY <1>5, <1>6

\* What the driver does with the answer of an advance, before it schedules a frame.
LEMMA AdvanceKeeps ==
  ASSUME NEW c \in Clients, NEW in, NEW e, NEW missed \in SUBSET Views, NEW m \in Answers,
         Loose(c, in, e, missed, m.invalid)
  PROVE  \E d : OnAdvanced(c, m) = Queue(d) /\ Keeps(c, d, in, e, missed)
<1>1. m.invalid \in SUBSET Views /\ m.ok \in BOOLEAN /\ (m.invalid # {} => m.ok)
  BY DEF Answers
<1> DEFINE d == ApplyInvalidations(c, m.invalid)
<1>2. Keeps(c, d, in, e, missed)
  BY <1>1, ApplyKeeps
<1>3. CASE m.ok
  <2>1. OnAdvanced(c, m) = Queue(IF m.autosave THEN RequestAutosave(d) ELSE d)
    BY <1>3 DEF OnAdvanced, AnswerAutosave
  <2> HIDE DEF d
  <2>2. Keeps(c, RequestAutosave(d), in, e, missed)
    BY <1>2, AutosaveKeeps
  <2> QED BY <1>2, <2>1, <2>2
<1>4. CASE ~m.ok
  <2>1. OnAdvanced(c, m) = Queue(c) /\ m.invalid = {}
    BY <1>1, <1>4 DEF OnAdvanced
  <2>2. Keeps(c, c, in, e, missed)
    BY <2>1, LooseNothing, KeepsSame
  <2> QED BY <2>1, <2>2
<1> QED BY <1>3, <1>4

-----------------------------------------------------------------------------
(* The answer of a read. *)

\* The answer to a placement: nothing else is read, and what is not read again,
\* wanted, or for the ship's place to leave out, is shown.
PlacedWell(c, in, e, missed, m) ==
  /\ m \in Answers /\ m.from = "place"
  /\ c.read.phase = "placing" /\ ReadsOut(c) = {} /\ ReadsIn(in) = {}
  /\ GivenUpIsMissed(c, missed)
  /\ \A v \in Views : Askable(e.at, v) /\ ~Askable(m.at, v) =>
       v \in missed \/ MoveTold(in) \/ {v, "assets"} \subseteq c.queue
  /\ \A v \in Views : Askable(e.at, v) =>
       \/ v \in missed \/ Told(in, v) \/ v \in c.queue
       \/ IF v = "assets" THEN m.values[v] = e.ver[v]
          ELSE v \in c.read.wanted \/ c.shown[v] = e.ver[v]

\* The rest of the read is asked for, with the assets at hand.
LEMMA PlacedFetches ==
  ASSUME NEW c \in Clients, NEW d \in Clients, NEW in, NEW e, NEW missed \in SUBSET Views,
         NEW a \in Answers, PlacedWell(c, in, e, missed, a),
         NEW m \in Requests, m.from = "fetch", m.live = TRUE,
         m.ask = {v \in c.read.wanted \ {"assets"} : Askable(a.at, v)},
         d.outbox = Append(c.outbox, m), d.read.phase = "fetching",
         d.read.wanted = c.read.wanted, d.read.assets = a.values["assets"],
         d.read.at = a.at, d.queue = c.queue, d.place = a.at, d.shown = c.shown, d.driver = c.driver
  PROVE  Keeps(c, d, in, e, missed)
<1> DEFINE n == Len(c.outbox) + 1
           less == missed \ m.ask
<1>0. GivenUpIsMissed(c, missed) /\ ReadsOut(c) = {} /\ ReadsIn(in) = {}
  BY DEF PlacedWell
<1>1. /\ ReadsOut(d) = {n} /\ d.outbox[n] = m /\ Added(c.outbox, d.outbox) = m.ask
      /\ Len(c.outbox) <= Len(d.outbox)
      /\ OneRead(d, in) /\ GivenUpIsMissed(d, less) /\ AnswerIsMended(d, in, e, less)
  <2>1. IsRead(m)
    BY DEF IsRead
  <2>2. d.read.phase = (IF m.from = "place" THEN "placing" ELSE "fetching")
    OBVIOUS
  <2>3. /\ ReadsOut(d) = {Len(c.outbox) + 1}
        /\ d.outbox[Len(c.outbox) + 1] = m
        /\ Added(c.outbox, d.outbox) = m.ask
        /\ Len(c.outbox) <= Len(d.outbox)
        /\ OneRead(d, in)
        /\ GivenUpIsMissed(d, missed \ m.ask)
        /\ AnswerIsMended(d, in, e, missed \ m.ask)
    <3>1. m.from # "place" /\ d.place = d.read.at
      OBVIOUS
    <3> QED BY <1>0, <2>1, <2>2, <3>1, ReadRequest
  <2> QED BY <2>3
<1> HIDE DEF n
<1>2. FetchFits(d, in)
  BY <1>0, <1>1 DEF FetchFits, Fits, Held
<1>a. ASSUME NEW v \in Views, Askable(e.at, v), ~Askable(a.at, v)
      PROVE  v \in less \/ MoveTold(in) \/ {v, "assets"} \subseteq d.queue
  BY <1>a DEF PlacedWell
<1>3. PlaceIsMended(d, in, e, less)
  BY <1>a DEF PlaceIsMended, Requeued, Held
<1>4. a.values["assets"] \in Nat
  <2>1. "assets" \in DOMAIN a.values /\ a.values \in Values
    BY DEF PlacedWell, Answers
  <2> QED BY <2>1 DEF Values
<1>5. ViewsCome(d, in, e, less)
  <2> SUFFICES ASSUME NEW v \in Views, Askable(e.at, v)
               PROVE  \/ v \in less \/ Told(in, v) \/ v \in d.queue
                      \/ IF Bringing(d, in, v) THEN Fresh(d, in, e, v) ELSE d.shown[v] = e.ver[v]
    BY DEF ViewsCome, ToAsk
  <2>1. \/ v \in missed \/ Told(in, v) \/ v \in c.queue
        \/ IF v = "assets" THEN a.values[v] = e.ver[v]
           ELSE v \in c.read.wanted \/ c.shown[v] = e.ver[v]
    BY DEF PlacedWell
  <2>2. CASE v \in m.ask
    <3>1. v # "assets" /\ Bringing(d, in, v)
      BY <1>1, <2>2 DEF Bringing
    <3> QED BY <1>0, <3>1 DEF Fresh
  <2>3. CASE v = "assets"
    <3>1. Bringing(d, in, v)
      BY <1>4, <2>3, NothingAssumption DEF Bringing
    <3>2. v \notin m.ask
      BY <2>3
    <3>3. Fresh(d, in, e, v) <=> d.read.assets = e.ver[v]
      BY <1>0, <2>3 DEF Fresh
    <3> QED BY <2>1, <2>3, <3>1, <3>2, <3>3
  <2>4. CASE v \notin m.ask /\ v # "assets"
    <3>1. ~Bringing(d, in, v)
      BY <1>0, <1>1, <2>4 DEF Bringing
    <3>2. v \in c.read.wanted => v \in less \/ Told(in, v) \/ v \in d.queue
      BY <1>a, <2>4, MoveTellsAll
    <3> QED BY <2>1, <2>4, <3>1, <3>2
  <2> QED BY <2>2, <2>3, <2>4
<1> QED BY <1>1, <1>2, <1>3, <1>5 DEF Keeps, Coherent

\* Nothing more can be asked for: what the answer holds is shown, and a new turn
\* is ready.
LEMMA PlacedPublishes ==
  ASSUME NEW c \in Clients, NEW d \in Clients, NEW in, NEW e, NEW missed,
         NEW a \in Answers, PlacedWell(c, in, e, missed, a),
         \A v \in c.read.wanted \ {"assets"} : ~Askable(a.at, v),
         d.outbox = c.outbox, d.read = IdleRead, d.queue = c.queue, d.place = a.at,
         \A v \in Views : d.shown[v] =
           IF v = "combat" /\ a.at = "station" THEN Nothing
           ELSE IF v = "assets" THEN a.values["assets"] ELSE c.shown[v]
  PROVE  Ready(d, in, e, missed)
<1>1. ReadsOut(d) = {} /\ ReadsIn(in) = {} /\ ReadsOut(c) = {}
  BY DEF PlacedWell, ReadsOut
<1>2. GivenUpIsMissed(d, missed)
  BY <1>1 DEF PlacedWell, GivenUpIsMissed
<1>a. ASSUME NEW v \in Views, Askable(e.at, v), ~Askable(a.at, v)
      PROVE  v \in missed \/ MoveTold(in) \/ {v, "assets"} \subseteq d.queue
  BY <1>a DEF PlacedWell
<1>3. \A v \in Views : Askable(e.at, v) =>
        v \in missed \/ Told(in, v) \/ v \in d.queue \/ d.shown[v] = e.ver[v]
  <2> SUFFICES ASSUME NEW v \in Views, Askable(e.at, v)
               PROVE  v \in missed \/ Told(in, v) \/ v \in d.queue \/ d.shown[v] = e.ver[v]
    OBVIOUS
  <2>1. CASE ~Askable(a.at, v)
    BY <1>a, <2>1, MoveTellsAll
  <2>2. CASE Askable(a.at, v)
    <3>1. ~(v = "combat" /\ a.at = "station")
      BY <2>2 DEF Askable, SpaceOnly
    <3>2. v # "assets" => v \notin c.read.wanted
      BY <2>2
    <3>3. \/ v \in missed \/ Told(in, v) \/ v \in c.queue
          \/ IF v = "assets" THEN a.values[v] = e.ver[v]
             ELSE v \in c.read.wanted \/ c.shown[v] = e.ver[v]
      BY DEF PlacedWell
    <3> QED BY <3>1, <3>2, <3>3
  <2> QED BY <2>1, <2>2
<1> QED BY <1>1, <1>2, <1>3, <1>a DEF Ready

\* The first half of readOnce() of playData.ts, once the ship is placed.
LEMMA PlacedKeeps ==
  ASSUME NEW c \in Clients, NEW in, NEW e, NEW missed \in SUBSET Views, NEW a \in Answers,
         PlacedWell(c, in, e, missed, a)
  PROVE  Keeps(c, OnPlaced(c, a), in, e, missed)
<1> DEFINE r == [c.read EXCEPT !.at = a.at, !.assets = a.values["assets"]]
           d == [c EXCEPT !.place = a.at, !.read = r]
<1>1. a.at \in Berths /\ a.values["assets"] \in Nat /\ c.read \in Reads
  <2>1. "assets" \in DOMAIN a.values /\ a.values \in Values
    BY DEF PlacedWell, Answers
  <2> QED BY <2>1 DEF Values, Answers, Clients
<1>2. /\ r \in Reads /\ r.phase = c.read.phase /\ r.wanted = c.read.wanted
      /\ r.at = a.at /\ r.assets = a.values["assets"]
  BY <1>1 DEF Reads, Shown
<1>3. OnPlaced(c, a) = IF Asked(d) = {} THEN Turn(Publish(d, NoValues)) ELSE Fetch(d)
  BY DEF OnPlaced
<1> HIDE DEF r
<1>4. /\ d \in Clients /\ d.read = r /\ d.queue = c.queue /\ d.place = a.at
      /\ d.shown = c.shown /\ d.outbox = c.outbox /\ d.driver = c.driver
  BY <1>1, <1>2 DEF Clients, Berths
<1>5. Fetch(d) = Send([d EXCEPT !.read.phase = "fetching"], "fetch", Asked(d), 0)
  BY DEF Fetch
<1> HIDE DEF d
<1>6. Asked(d) = {v \in c.read.wanted \ {"assets"} : Askable(a.at, v)}
  BY <1>2, <1>4, AskedIs
<1>7. CASE Asked(d) = {}
  <2> DEFINE p == Publish(d, NoValues)
  <2>1. /\ p \in Clients /\ p.read = IdleRead /\ p.queue = d.queue /\ p.place = d.place
        /\ p.driver = d.driver /\ p.outbox = d.outbox
        /\ \A v \in Views : p.shown[v] =
              (IF v = "combat" /\ d.read.at = "station" THEN Nothing
               ELSE IF v = "assets" /\ d.read.assets # Nothing THEN d.read.assets
               ELSE IF v \in DOMAIN NoValues THEN NoValues[v] ELSE d.shown[v])
    BY <1>4, NoValuesAre, PublishIs
  <2>2. OnPlaced(c, a) = Turn(p)
    BY <1>3, <1>7
  <2> HIDE DEF p
  <2>3. d.read.assets = a.values["assets"] /\ d.read.assets # Nothing
    BY <1>1, <1>2, <1>4, NothingAssumption
  <2>4. \A v \in Views : p.shown[v] =
          IF v = "combat" /\ a.at = "station" THEN Nothing
          ELSE IF v = "assets" THEN a.values["assets"] ELSE c.shown[v]
    <3>1. d.read.at = a.at
      BY <1>2, <1>4
    <3> QED BY <1>4, <2>1, <2>3, <3>1, NoValuesAre
  <2>5. \A v \in c.read.wanted \ {"assets"} : ~Askable(a.at, v)
    BY <1>6, <1>7
  <2>6. p.outbox = c.outbox /\ p.queue = c.queue /\ p.place = a.at /\ p.driver = c.driver
    BY <1>4, <2>1
  <2>7. Ready(p, in, e, missed)
    BY <2>1, <2>4, <2>5, <2>6, PlacedPublishes
  <2>8. Keeps(p, Turn(p), in, e, missed)
    BY <2>1, <2>7, TurnKeeps
  <2> QED BY <2>2, <2>6, <2>8, KeepsFrom
<1>8. CASE Asked(d) # {}
  <2> DEFINE b == [d EXCEPT !.read.phase = "fetching"]
             f == Send(b, "fetch", Asked(d), 0)
  <2>1. /\ [r EXCEPT !.phase = "fetching"] \in Reads
        /\ [r EXCEPT !.phase = "fetching"].phase = "fetching"
        /\ [r EXCEPT !.phase = "fetching"].wanted = c.read.wanted
        /\ [r EXCEPT !.phase = "fetching"].at = a.at
        /\ [r EXCEPT !.phase = "fetching"].assets = a.values["assets"]
    BY <1>2 DEF Reads
  <2>2. /\ b \in Clients /\ b.read = [r EXCEPT !.phase = "fetching"]
        /\ b.queue = c.queue /\ b.place = a.at /\ b.shown = c.shown /\ b.driver = c.driver
        /\ b.outbox = c.outbox
    BY <1>4, <2>1 DEF Clients
  <2>3. OnPlaced(c, a) = f
    BY <1>3, <1>5, <1>8
  <2> HIDE DEF b
  <2>4. Asked(d) \in SUBSET Views /\ "fetch" \in Senders /\ 0 \in Nat
    BY <1>1, <1>6 DEF Senders, Reads
  <2>5. Sends(b, f, "fetch", Asked(d))
    BY <2>2, <2>4, SendIs
  <2> HIDE DEF f
  <2>6. PICK m \in Requests : /\ m.from = "fetch" /\ m.ask = Asked(d) /\ m.live = TRUE
                              /\ f.outbox = Append(c.outbox, m)
    BY <2>2, <2>5 DEF Sends
  <2>7. /\ f \in Clients /\ f.read.phase = "fetching" /\ f.read.assets = a.values["assets"]
        /\ f.read.wanted = c.read.wanted /\ f.read.at = a.at
        /\ f.queue = c.queue /\ f.place = a.at /\ f.shown = c.shown /\ f.driver = c.driver
    BY <2>1, <2>2, <2>5 DEF Sends, SameReading
  <2>8. m.ask = {v \in c.read.wanted \ {"assets"} : Askable(a.at, v)}
    BY <1>6, <2>6
  <2>9. Keeps(c, f, in, e, missed)
    BY <2>6, <2>7, <2>8, PlacedFetches
  <2> QED BY <2>3, <2>9
<1> QED BY <1>7, <1>8

\* The answer to what was asked for: it holds what the engine does, as far as
\* nothing told of since.
FetchedWell(c, in, e, missed, m) ==
  /\ m \in Answers /\ m.from = "fetch"
  /\ c.read.phase = "fetching" /\ ReadsOut(c) = {} /\ ReadsIn(in) = {}
  /\ c.place \in {Nothing, c.read.at}
  /\ GivenUpIsMissed(c, missed) /\ PlaceIsMended(c, in, e, missed)
  /\ Fits(c, DOMAIN m.values)
  /\ \A v \in Views : Askable(e.at, v) =>
       \/ v \in missed \/ Told(in, v) \/ v \in c.queue
       \/ IF v = "assets" /\ c.read.assets # Nothing THEN c.read.assets = e.ver[v]
          ELSE IF v \in DOMAIN m.values THEN m.values[v] = e.ver[v]
          ELSE c.shown[v] = e.ver[v]

\* The second half.
LEMMA FetchedKeeps ==
  ASSUME NEW c \in Clients, NEW in, NEW e, NEW missed \in SUBSET Views, NEW a \in Answers,
         FetchedWell(c, in, e, missed, a)
  PROVE  Keeps(c, OnFetched(c, a), in, e, missed)
<1> DEFINE p == Publish(c, a.values)
<1>1. /\ a.values \in Values /\ "assets" \notin DOMAIN a.values
      /\ c.read.at = "station" => "combat" \notin DOMAIN a.values
  <2>1. "station" # Nothing
    BY NothingAssumption
  <2> QED BY <2>1 DEF FetchedWell, Fits, Answers, Askable, SpaceOnly, Held
<1>2. /\ p \in Clients /\ p.read = IdleRead /\ p.queue = c.queue /\ p.place = c.place
      /\ p.driver = c.driver /\ p.outbox = c.outbox
      /\ \A v \in Views : p.shown[v] =
            (IF v = "combat" /\ c.read.at = "station" THEN Nothing
             ELSE IF v = "assets" /\ c.read.assets # Nothing THEN c.read.assets
             ELSE IF v \in DOMAIN a.values THEN a.values[v] ELSE c.shown[v])
  BY <1>1, PublishIs
<1>3. OnFetched(c, a) = Turn(p)
  BY DEF OnFetched
<1> HIDE DEF p
<1>4. ReadsOut(p) = {} /\ ReadsIn(in) = {} /\ ReadsOut(c) = {}
  BY <1>2 DEF FetchedWell, ReadsOut
<1>5. GivenUpIsMissed(p, missed)
  BY <1>2, <1>4 DEF FetchedWell, GivenUpIsMissed
<1>a. ASSUME c.read.at # Nothing, NEW v \in Views, Askable(e.at, v), ~Askable(c.read.at, v)
      PROVE  v \in missed \/ MoveTold(in) \/ {v, "assets"} \subseteq p.queue
  BY <1>2, <1>a DEF FetchedWell, PlaceIsMended, Requeued, Held
<1>6. \A v \in Views : Askable(e.at, v) =>
        v \in missed \/ Told(in, v) \/ v \in p.queue \/ p.shown[v] = e.ver[v]
  <2> SUFFICES ASSUME NEW v \in Views, Askable(e.at, v)
               PROVE  v \in missed \/ Told(in, v) \/ v \in p.queue \/ p.shown[v] = e.ver[v]
    OBVIOUS
  <2>1. CASE v = "combat" /\ c.read.at = "station"
    <3>1. c.read.at # Nothing /\ ~Askable(c.read.at, v)
      BY <2>1, NothingAssumption DEF Askable, SpaceOnly
    <3> QED BY <1>a, <3>1, MoveTellsAll
  <2>2. CASE ~(v = "combat" /\ c.read.at = "station")
    <3>1. \/ v \in missed \/ Told(in, v) \/ v \in c.queue
          \/ IF v = "assets" /\ c.read.assets # Nothing THEN c.read.assets = e.ver[v]
             ELSE IF v \in DOMAIN a.values THEN a.values[v] = e.ver[v]
             ELSE c.shown[v] = e.ver[v]
      BY DEF FetchedWell
    <3> QED BY <1>2, <2>2, <3>1
  <2> QED BY <2>1, <2>2
<1>b. p.place \in {Nothing, c.read.at}
  BY <1>2 DEF FetchedWell
<1>7. Ready(p, in, e, missed)
  BY <1>2, <1>4, <1>5, <1>6, <1>a, <1>b DEF Ready
<1>8. Keeps(p, Turn(p), in, e, missed)
  BY <1>2, <1>7, TurnKeeps
<1> QED BY <1>2, <1>3, <1>8, KeepsFrom

-----------------------------------------------------------------------------
(* Taking the next answer. *)

LEMMA NextAnswer ==
  ASSUME NEW in \in Seq(Answers), in # <<>>
  PROVE  /\ Tail(in) \in Seq(Answers) /\ Head(in) \in Answers /\ in[1] = Head(in)
         /\ IsRead(Head(in)) <=> 1 \in ReadsIn(in)
         /\ \A j \in ReadsIn(Tail(in)) : j + 1 \in ReadsIn(in) /\ j + 1 # 1 /\ Tail(in)[j] = in[j + 1]
         /\ \A i \in ReadsIn(in) : i # 1 => i - 1 \in ReadsIn(Tail(in)) /\ Tail(in)[i - 1] = in[i]
         /\ ReadsIn(in) \subseteq Nat /\ ReadsIn(Tail(in)) \subseteq Nat
         /\ \A v \in Views : Told(in, v) =>
              Told(Tail(in), v) \/ (Head(in).live /\ v \in Head(in).invalid)
         /\ MoveTold(in) => MoveTold(Tail(in)) \/ (Head(in).live /\ Head(in).invalid = Views)
<1> DEFINE t == Tail(in)
<1>1. /\ t \in Seq(Answers) /\ Head(in) = in[1] /\ in[1] \in Answers
      /\ Len(in) \in Nat \ {0} /\ DOMAIN in = 1..Len(in) /\ DOMAIN t = 1..(Len(in) - 1)
      /\ \A i \in 1..(Len(in) - 1) : t[i] = in[i + 1]
  BY TailIs
<1> HIDE DEF t
<1>2. \A i \in DOMAIN in : i # 1 => i - 1 \in DOMAIN t /\ t[i - 1] = in[i]
  BY <1>1
<1>3. \A j \in DOMAIN t : j + 1 \in DOMAIN in /\ j + 1 # 1 /\ t[j] = in[j + 1]
  BY <1>1
<1>4. IsRead(in[1]) <=> 1 \in ReadsIn(in)
  BY <1>1 DEF ReadsIn
<1>5. \A j \in ReadsIn(t) : j + 1 \in ReadsIn(in) /\ j + 1 # 1 /\ t[j] = in[j + 1]
  BY <1>3 DEF ReadsIn
<1>6. \A i \in ReadsIn(in) : i # 1 => i - 1 \in ReadsIn(t) /\ t[i - 1] = in[i]
  BY <1>2 DEF ReadsIn
<1>7. ReadsIn(in) \subseteq Nat /\ ReadsIn(t) \subseteq Nat
  BY <1>1 DEF ReadsIn
<1>8. ASSUME NEW v \in Views, Told(in, v)
      PROVE  Told(t, v) \/ (in[1].live /\ v \in in[1].invalid)
  BY <1>2, <1>8 DEF Told
<1>9. ASSUME MoveTold(in)
      PROVE  MoveTold(t) \/ (in[1].live /\ in[1].invalid = Views)
  BY <1>2, <1>9 DEF MoveTold
<1> QED BY <1>1, <1>4, <1>5, <1>6, <1>7, <1>8, <1>9 DEF t

\* The answer of anything but a read, or one no longer waited for, taken: what
\* it tells of has to be read.
LEMMA OtherAnswer ==
  ASSUME NEW c, NEW in \in Seq(Answers), NEW e, NEW missed \in SUBSET Views, in # <<>>,
         ~IsRead(Head(in)), Coherent(c, in, e, missed)
  PROVE  Loose(c, Tail(in), e, missed, IF Head(in).live THEN Head(in).invalid ELSE {})
<1> DEFINE t == Tail(in)
           m == Head(in)
           due == IF m.live THEN m.invalid ELSE {}
<1>1. /\ t \in Seq(Answers) /\ m \in Answers
      /\ 1 \notin ReadsIn(in) /\ ReadsIn(in) \subseteq Nat /\ ReadsIn(t) \subseteq Nat
      /\ \A j \in ReadsIn(t) : j + 1 \in ReadsIn(in) /\ t[j] = in[j + 1]
      /\ \A i \in ReadsIn(in) : i - 1 \in ReadsIn(t) /\ t[i - 1] = in[i]
  BY NextAnswer
<1>2. \A v \in Views : Told(in, v) => Told(t, v) \/ v \in due
  BY NextAnswer
<1>3. MoveTold(in) => MoveTold(t) \/ due = Views
  BY NextAnswer
<1> HIDE DEF t, m, due
<1>4. OneRead(c, t)
  <2>1. OneRead(c, in)
    BY DEF Coherent
  <2>2. ReadsIn(in) = {} => ReadsIn(t) = {}
    BY <1>1
  <2>3. \A i, j \in ReadsIn(t) : i = j
    BY <1>1, <2>1 DEF OneRead
  <2>4. \A i \in ReadsIn(t) : t[i].from = (IF c.read.phase = "placing" THEN "place" ELSE "fetch")
    BY <1>1, <2>1 DEF OneRead
  <2> QED BY <2>1, <2>2, <2>3, <2>4 DEF OneRead
<1>5. FetchFits(c, t)
  BY <1>1 DEF Coherent, FetchFits
<1>6. GivenUpIsMissed(c, missed)
  BY DEF Coherent
<1>7. due # Views => PlaceIsMended(c, t, e, missed)
  BY <1>3 DEF Coherent, PlaceIsMended, Held
<1>8. due # Views => AnswerIsMended(c, t, e, missed)
  BY <1>1, <1>3 DEF Coherent, AnswerIsMended
<1>9. \A v \in Views : Bringing(c, in, v) <=> Bringing(c, t, v)
  <2>1. \A v \in Views : (\E i \in ReadsIn(in) : v \in DOMAIN in[i].values)
                         <=> (\E i \in ReadsIn(t) : v \in DOMAIN t[i].values)
    BY <1>1
  <2> QED BY <2>1 DEF Bringing
<1>10. \A v \in Views : Fresh(c, in, e, v) => Fresh(c, t, e, v)
  BY <1>1 DEF Fresh
<1>11. ViewsCome(c, t, e, missed \cup due)
  BY <1>2, <1>9, <1>10 DEF Coherent, ViewsCome
<1> QED BY <1>4, <1>5, <1>6, <1>7, <1>8, <1>11 DEF Loose, t, due, m

\* The answer of the read in progress, taken, is the only one.
LEMMA ReadAnswer ==
  ASSUME NEW c, NEW in \in Seq(Answers), NEW e, NEW missed, in # <<>>,
         IsRead(Head(in)), Coherent(c, in, e, missed)
  PROVE  /\ Head(in) \in Answers /\ in[1] = Head(in) /\ ReadsIn(in) = {1}
         /\ ReadsOut(c) = {} /\ ReadsIn(Tail(in)) = {}
         /\ Head(in).from = (IF c.read.phase = "placing" THEN "place" ELSE "fetch")
         /\ c.read.phase # "idle"
         /\ \A v \in Views : Told(in, v) => Told(Tail(in), v)
         /\ MoveTold(in) => MoveTold(Tail(in))
<1> DEFINE t == Tail(in)
           m == Head(in)
<1>1. /\ m \in Answers /\ in[1] = m /\ 1 \in ReadsIn(in)
      /\ \A j \in ReadsIn(t) : j + 1 \in ReadsIn(in) /\ j + 1 # 1
  BY NextAnswer
<1>2. m.invalid = {} /\ {} # Views
  BY <1>1 DEF Answers, IsRead, Changes, Views
<1>3. \A v \in Views : Told(in, v) => Told(t, v)
  BY <1>2, NextAnswer
<1>4. MoveTold(in) => MoveTold(t)
  BY <1>2, NextAnswer
<1> HIDE DEF t, m
<1>5. OneRead(c, in)
  BY DEF Coherent
<1>6. ReadsIn(in) = {1} /\ ReadsOut(c) = {} /\ c.read.phase # "idle"
  BY <1>1, <1>5 DEF OneRead
<1>7. ReadsIn(t) = {}
  BY <1>1, <1>6
<1>8. m.from = (IF c.read.phase = "placing" THEN "place" ELSE "fetch")
  BY <1>1, <1>5 DEF OneRead
<1> QED BY <1>1, <1>3, <1>4, <1>6, <1>7, <1>8 DEF t, m

LEMMA PlaceAnswer ==
  ASSUME NEW c, NEW in \in Seq(Answers), NEW e, NEW missed, in # <<>>,
         IsRead(Head(in)), Head(in).from = "place", Coherent(c, in, e, missed)
  PROVE  PlacedWell(c, Tail(in), e, missed, Head(in))
<1> DEFINE t == Tail(in)
           m == Head(in)
<1>1. /\ m \in Answers /\ in[1] = m /\ ReadsIn(in) = {1}
      /\ ReadsOut(c) = {} /\ ReadsIn(t) = {} /\ c.read.phase # "idle"
      /\ m.from = (IF c.read.phase = "placing" THEN "place" ELSE "fetch")
      /\ \A v \in Views : Told(in, v) => Told(t, v)
      /\ MoveTold(in) => MoveTold(t)
  BY ReadAnswer
<1> HIDE DEF t, m
<1>2. c.read.phase = "placing" /\ m.from = "place"
  BY <1>1 DEF m
<1>3. \A v \in Views : Askable(e.at, v) /\ ~Askable(m.at, v) =>
        v \in missed \/ MoveTold(t) \/ {v, "assets"} \subseteq c.queue
  BY <1>1, <1>2 DEF Coherent, AnswerIsMended, Requeued
<1>4. DOMAIN m.values = {"assets"}
  BY <1>1, <1>2 DEF Answers
<1>5. ASSUME NEW v \in Views, Askable(e.at, v)
      PROVE  \/ v \in missed \/ Told(t, v) \/ v \in c.queue
             \/ IF v = "assets" THEN m.values[v] = e.ver[v]
                ELSE v \in c.read.wanted \/ c.shown[v] = e.ver[v]
  <2>1. \/ v \in missed \/ Told(in, v) \/ ToAsk(c, v)
        \/ IF Bringing(c, in, v) THEN Fresh(c, in, e, v) ELSE c.shown[v] = e.ver[v]
    BY <1>5 DEF Coherent, ViewsCome
  <2>2. CASE v = "assets"
    <3>1. Bringing(c, in, v)
      BY <1>2, <2>2 DEF Bringing
    <3>2. Fresh(c, in, e, v) => m.values[v] = e.ver[v]
      BY <1>1, <1>4, <2>2 DEF Fresh
    <3>3. ToAsk(c, v) => v \in c.queue
      BY <2>2 DEF ToAsk
    <3> QED BY <1>1, <2>1, <2>2, <3>1, <3>2, <3>3
  <2>3. CASE v # "assets"
    <3>1. ~Bringing(c, in, v)
      BY <1>1, <1>4, <2>3 DEF Bringing
    <3>2. ToAsk(c, v) => v \in c.queue \/ v \in c.read.wanted
      BY DEF ToAsk
    <3> QED BY <1>1, <2>1, <2>3, <3>1, <3>2
  <2> QED BY <2>2, <2>3
<1>6. GivenUpIsMissed(c, missed)
  BY DEF Coherent
<1> QED BY <1>1, <1>2, <1>3, <1>5, <1>6 DEF PlacedWell, t, m

LEMMA FetchAnswer ==
  ASSUME NEW c, NEW in \in Seq(Answers), NEW e, NEW missed, in # <<>>,
         IsRead(Head(in)), Head(in).from = "fetch", Coherent(c, in, e, missed),
         c.read.phase \in {"idle", "placing", "fetching"}
  PROVE  FetchedWell(c, Tail(in), e, missed, Head(in))
<1> DEFINE t == Tail(in)
           m == Head(in)
<1>1. /\ m \in Answers /\ in[1] = m /\ ReadsIn(in) = {1}
      /\ ReadsOut(c) = {} /\ ReadsIn(t) = {} /\ c.read.phase # "idle"
      /\ m.from = (IF c.read.phase = "placing" THEN "place" ELSE "fetch")
      /\ \A v \in Views : Told(in, v) => Told(t, v)
      /\ MoveTold(in) => MoveTold(t)
  BY ReadAnswer
<1> HIDE DEF t, m
<1>2. c.read.phase = "fetching" /\ m.from = "fetch"
  BY <1>1 DEF m
<1>3. PlaceIsMended(c, t, e, missed)
  BY <1>1 DEF Coherent, PlaceIsMended, Held
<1>4. Fits(c, DOMAIN m.values)
  BY <1>1, <1>2 DEF Coherent, FetchFits
<1>5. ASSUME NEW v \in Views, Askable(e.at, v)
      PROVE  \/ v \in missed \/ Told(t, v) \/ v \in c.queue
             \/ IF v = "assets" /\ c.read.assets # Nothing THEN c.read.assets = e.ver[v]
                ELSE IF v \in DOMAIN m.values THEN m.values[v] = e.ver[v]
                ELSE c.shown[v] = e.ver[v]
  <2>1. \/ v \in missed \/ Told(t, v) \/ v \in c.queue
        \/ IF Bringing(c, in, v) THEN Fresh(c, in, e, v) ELSE c.shown[v] = e.ver[v]
    BY <1>1, <1>2, <1>5 DEF Coherent, ViewsCome, ToAsk
  <2>2. CASE v = "assets"
    <3>1. Bringing(c, in, v) <=> c.read.assets # Nothing
      BY <1>2, <2>2 DEF Bringing
    <3>2. v \notin DOMAIN m.values
      BY <1>4, <2>2 DEF Fits, Held
    <3>3. Fresh(c, in, e, v) => c.read.assets = e.ver[v]
      BY <1>2, <2>2 DEF Fresh
    <3> QED BY <2>1, <2>2, <3>1, <3>2, <3>3
  <2>3. CASE v # "assets"
    <3>1. Bringing(c, in, v) <=> v \in DOMAIN m.values
      BY <1>1, <2>3 DEF Bringing
    <3>2. v \in DOMAIN m.values /\ Fresh(c, in, e, v) => m.values[v] = e.ver[v]
      BY <1>1 DEF Fresh
    <3> QED BY <2>1, <2>3, <3>1, <3>2
  <2> QED BY <2>2, <2>3
<1>6. GivenUpIsMissed(c, missed)
  BY DEF Coherent
<1>7. c.place \in {Nothing, c.read.at}
  BY <1>2 DEF Coherent, OneRead
<1> QED BY <1>1, <1>2, <1>3, <1>4, <1>5, <1>6, <1>7 DEF FetchedWell, t, m

-----------------------------------------------------------------------------
(* Serving the next request. *)

LEMMA NextRequest ==
  ASSUME NEW c \in Clients, NEW d \in Clients, c.outbox # <<>>, d.outbox = Tail(c.outbox)
  PROVE  /\ Head(c.outbox) \in Requests /\ c.outbox[1] = Head(c.outbox) /\ 1 \in DOMAIN c.outbox
         /\ DOMAIN c.outbox \subseteq Nat /\ DOMAIN d.outbox \subseteq Nat
         /\ IsRead(Head(c.outbox)) <=> 1 \in ReadsOut(c)
         /\ \A i \in DOMAIN d.outbox : /\ i + 1 \in DOMAIN c.outbox /\ i + 1 # 1
                                       /\ d.outbox[i] = c.outbox[i + 1]
         /\ \A i \in ReadsOut(d) : i + 1 \in ReadsOut(c)
         /\ \A i \in ReadsOut(c) : i # 1 => i - 1 \in ReadsOut(d) /\ d.outbox[i - 1] = c.outbox[i]
         /\ ReadsOut(c) \subseteq DOMAIN c.outbox /\ ReadsOut(d) \subseteq DOMAIN d.outbox
<1> DEFINE o == c.outbox
           p == d.outbox
<1>1. /\ p \in Seq(Requests) /\ Head(o) = o[1] /\ o[1] \in Requests
      /\ Len(o) \in Nat \ {0} /\ DOMAIN o = 1..Len(o) /\ DOMAIN p = 1..(Len(o) - 1)
      /\ \A i \in 1..(Len(o) - 1) : p[i] = o[i + 1]
  BY TailIs DEF Clients
<1>2. \A i \in DOMAIN o : i # 1 => i - 1 \in DOMAIN p /\ p[i - 1] = o[i]
  BY <1>1
<1>3. \A i \in DOMAIN p : i + 1 \in DOMAIN o /\ i + 1 # 1 /\ p[i] = o[i + 1]
  BY <1>1
<1>4. 1 \in DOMAIN o /\ DOMAIN o \subseteq Nat /\ DOMAIN p \subseteq Nat
  BY <1>1
<1>5. IsRead(Head(o)) <=> 1 \in ReadsOut(c)
  BY <1>1, <1>4 DEF ReadsOut
<1>6. \A i \in ReadsOut(d) : i + 1 \in ReadsOut(c)
  BY <1>3 DEF ReadsOut
<1>7. \A i \in ReadsOut(c) : i # 1 => i - 1 \in ReadsOut(d) /\ p[i - 1] = o[i]
  BY <1>2 DEF ReadsOut
<1>8. ReadsOut(c) \subseteq DOMAIN o /\ ReadsOut(d) \subseteq DOMAIN p
  BY DEF ReadsOut
<1> QED BY <1>1, <1>3, <1>4, <1>5, <1>6, <1>7, <1>8

LEMMA AnswerSent ==
  ASSUME NEW in \in Seq(Answers), NEW a \in Answers
  PROVE  /\ Append(in, a) \in Seq(Answers)
         /\ Append(in, a)[Len(in) + 1] = a /\ Len(in) + 1 \notin ReadsIn(in)
         /\ \A i \in ReadsIn(in) : Append(in, a)[i] = in[i]
         /\ IsRead(a) => ReadsIn(Append(in, a)) = ReadsIn(in) \cup {Len(in) + 1}
         /\ ~IsRead(a) => ReadsIn(Append(in, a)) = ReadsIn(in)
         /\ \A v \in Views : Told(in, v) \/ (a.live /\ v \in a.invalid) => Told(Append(in, a), v)
         /\ MoveTold(in) \/ (a.live /\ a.invalid = Views) => MoveTold(Append(in, a))
<1> DEFINE q == Append(in, a)
<1>1. /\ q \in Seq(Answers) /\ Len(in) \in Nat
      /\ DOMAIN in = 1..Len(in) /\ DOMAIN q = 1..(Len(in) + 1)
      /\ \A i \in 1..Len(in) : q[i] = in[i]
      /\ q[Len(in) + 1] = a
  BY AppendIs
<1> HIDE DEF q
<1>2. DOMAIN q = DOMAIN in \cup {Len(in) + 1} /\ Len(in) + 1 \notin DOMAIN in
  BY <1>1
<1>3. \A i \in DOMAIN in : q[i] = in[i]
  BY <1>1
<1>4. Len(in) + 1 \notin ReadsIn(in) /\ \A i \in ReadsIn(in) : q[i] = in[i]
  BY <1>2, <1>3 DEF ReadsIn
<1>5. IsRead(a) => ReadsIn(q) = ReadsIn(in) \cup {Len(in) + 1}
  BY <1>1, <1>2, <1>3 DEF ReadsIn
<1>6. ~IsRead(a) => ReadsIn(q) = ReadsIn(in)
  BY <1>1, <1>2, <1>3 DEF ReadsIn
<1>7. ASSUME NEW v \in Views, Told(in, v) \/ (a.live /\ v \in a.invalid) PROVE Told(q, v)
  BY <1>1, <1>2, <1>3, <1>7 DEF Told
<1>8. ASSUME MoveTold(in) \/ (a.live /\ a.invalid = Views) PROVE MoveTold(q)
  BY <1>1, <1>2, <1>3, <1>8 DEF MoveTold
<1> QED BY <1>1, <1>4, <1>5, <1>6, <1>7, <1>8 DEF q

\* The answer to a read holds what the engine does, and where the ship is.
LEMMA ServedRead ==
  ASSUME NEW c \in Clients, NEW d \in Clients, NEW in \in Seq(Answers), NEW a \in Answers,
         NEW e, NEW missed, Coherent(c, in, e, missed),
         SameReading(c, d), c.outbox # <<>>, d.outbox = Tail(c.outbox),
         IsRead(Head(c.outbox)), a.from = Head(c.outbox).from, a.live = TRUE, a.at = e.at,
         DOMAIN a.values = Head(c.outbox).ask, \A v \in DOMAIN a.values : a.values[v] = e.ver[v]
  PROVE  Coherent(d, Append(in, a), e, missed)
<1> DEFINE m == Head(c.outbox)
           n == Len(in) + 1
           out == Append(in, a)
<1>1. /\ c.outbox[1] = m /\ 1 \in ReadsOut(c)
      /\ DOMAIN c.outbox \subseteq Nat /\ DOMAIN d.outbox \subseteq Nat
      /\ \A i \in DOMAIN d.outbox : /\ i + 1 \in DOMAIN c.outbox /\ i + 1 # 1
                                    /\ d.outbox[i] = c.outbox[i + 1]
      /\ \A i \in ReadsOut(d) : i + 1 \in ReadsOut(c)
      /\ ReadsOut(d) \subseteq DOMAIN d.outbox
  BY NextRequest
<1>2. OneRead(c, in)
  BY DEF Coherent
<1>3. ReadsOut(c) = {1} /\ ReadsIn(in) = {} /\ c.read.phase # "idle"
  BY <1>1, <1>2 DEF OneRead
<1>4. ReadsOut(d) = {}
  BY <1>1, <1>3
<1>5. IsRead(a)
  BY DEF IsRead
<1>6. /\ ReadsIn(out) = {n} /\ out[n] = a
      /\ \A v \in Views : Told(in, v) => Told(out, v)
      /\ MoveTold(in) => MoveTold(out)
  BY <1>3, <1>5, AnswerSent
<1> HIDE DEF out, n, m
<1> USE DEF SameReading
<1>7. m.from = a.from
  BY DEF m
<1>8. OneRead(d, out)
  BY <1>1, <1>2, <1>3, <1>4, <1>6, <1>7 DEF OneRead
<1>9. FetchFits(d, out)
  BY <1>1, <1>3, <1>4, <1>6, <1>7 DEF Coherent, FetchFits, Fits, m, Held
<1>10. GivenUpIsMissed(d, missed)
  <2> SUFFICES ASSUME NEW i \in DOMAIN d.outbox, d.outbox[i].from \in Changes,
                      ~d.outbox[i].live, NEW v \in Views
               PROVE  v \in missed
    BY DEF GivenUpIsMissed
  <2>1. i \in Nat /\ i + 1 \in DOMAIN c.outbox /\ d.outbox[i] = c.outbox[i + 1]
    BY <1>1
  <2>2. v \in missed \/ \E j \in ReadsOut(c) : i + 1 < j /\ v \in c.outbox[j].ask
    BY <2>1 DEF Coherent, GivenUpIsMissed
  <2> QED BY <1>3, <2>1, <2>2
<1>11. PlaceIsMended(d, out, e, missed)
  BY <1>6 DEF Coherent, PlaceIsMended, Requeued, Held
<1>12. AnswerIsMended(d, out, e, missed)
  BY <1>6 DEF AnswerIsMended
<1>13. ViewsCome(d, out, e, missed)
  <2> SUFFICES ASSUME NEW v \in Views, Askable(e.at, v)
               PROVE  \/ v \in missed \/ Told(out, v) \/ ToAsk(d, v)
                      \/ IF Bringing(d, out, v) THEN Fresh(d, out, e, v) ELSE d.shown[v] = e.ver[v]
    BY DEF ViewsCome
  <2>1. \/ v \in missed \/ Told(in, v) \/ ToAsk(c, v)
        \/ IF Bringing(c, in, v) THEN Fresh(c, in, e, v) ELSE c.shown[v] = e.ver[v]
    BY DEF Coherent, ViewsCome
  <2>2. Bringing(c, in, v) <=> Bringing(d, out, v)
    BY <1>1, <1>3, <1>4, <1>6 DEF Bringing, m
  <2>3. Fresh(c, in, e, v) => Fresh(d, out, e, v)
    BY <1>6 DEF Fresh
  <2>4. ToAsk(c, v) <=> ToAsk(d, v)
    BY DEF ToAsk
  <2> QED BY <1>6, <2>1, <2>2, <2>3, <2>4
<1> QED BY <1>8, <1>9, <1>10, <1>11, <1>12, <1>13 DEF Coherent, out

\* Anything else served: what it changed its answer tells, or, with nobody
\* waiting for the answer, is missed or asked for behind it.
LEMMA ServedOther ==
  ASSUME NEW c \in Clients, NEW d \in Clients, NEW in \in Seq(Answers), NEW a \in Answers,
         NEW e, NEW f, NEW missed, NEW changed \in SUBSET Views, Coherent(c, in, e, missed),
         SameReading(c, d), c.outbox # <<>>, d.outbox = Tail(c.outbox),
         ~IsRead(Head(c.outbox)), a.from = Head(c.outbox).from, a.live = Head(c.outbox).live,
         \A v \in Views \ changed : f.ver[v] = e.ver[v],
         f.at = e.at \/ changed = Views,
         changed # {} => a.from \in Changes /\ a.invalid = changed
  PROVE  Coherent(d, Append(in, a), f, missed)
<1> DEFINE m == Head(c.outbox)
           out == Append(in, a)
<1>1. /\ c.outbox[1] = m /\ 1 \notin ReadsOut(c) /\ 1 \in DOMAIN c.outbox
      /\ DOMAIN c.outbox \subseteq Nat /\ DOMAIN d.outbox \subseteq Nat
      /\ \A i \in DOMAIN d.outbox : /\ i + 1 \in DOMAIN c.outbox /\ i + 1 # 1
                                    /\ d.outbox[i] = c.outbox[i + 1]
      /\ \A i \in ReadsOut(d) : i + 1 \in ReadsOut(c)
      /\ \A i \in ReadsOut(c) : i # 1 => i - 1 \in ReadsOut(d) /\ d.outbox[i - 1] = c.outbox[i]
      /\ ReadsOut(c) \subseteq DOMAIN c.outbox /\ ReadsOut(d) \subseteq DOMAIN d.outbox
  BY NextRequest
<1>2. ~IsRead(a)
  BY DEF IsRead
<1>3. /\ ReadsIn(out) = ReadsIn(in) /\ \A i \in ReadsIn(in) : out[i] = in[i]
      /\ \A v \in Views : Told(in, v) \/ (a.live /\ v \in a.invalid) => Told(out, v)
      /\ MoveTold(in) \/ (a.live /\ a.invalid = Views) => MoveTold(out)
  BY <1>2, AnswerSent
<1>m. m.from = a.from /\ m.live = a.live
  OBVIOUS
<1> HIDE DEF out, m
<1> USE DEF SameReading
<1>4. \A i \in ReadsOut(c) : i - 1 \in ReadsOut(d) /\ d.outbox[i - 1] = c.outbox[i]
  BY <1>1
<1>5. \A i \in ReadsOut(d) : i + 1 \in ReadsOut(c) /\ d.outbox[i] = c.outbox[i + 1]
  BY <1>1
<1>6. OneRead(d, out)
  <2>1. OneRead(c, in)
    BY DEF Coherent
  <2>2. ReadsOut(c) = {} => ReadsOut(d) = {}
    BY <1>5
  <2>3. \A i, j \in ReadsOut(d) : i = j
    BY <1>1, <1>5, <2>1 DEF OneRead
  <2>4. \A i \in ReadsOut(d) :
          d.outbox[i].from = (IF d.read.phase = "placing" THEN "place" ELSE "fetch")
    BY ZenonT(60), <1>5, <2>1 DEF OneRead
  <2> QED BY ZenonT(60), <1>3, <2>1, <2>2, <2>3, <2>4 DEF OneRead
<1>7. FetchFits(d, out)
  BY ZenonT(60), <1>3, <1>5 DEF Coherent, FetchFits, Fits, Held
<1>8. GivenUpIsMissed(d, missed)
  <2> SUFFICES ASSUME NEW i \in DOMAIN d.outbox, d.outbox[i].from \in Changes,
                      ~d.outbox[i].live, NEW v \in Views
               PROVE  v \in missed \/ \E j \in ReadsOut(d) : i < j /\ v \in d.outbox[j].ask
    BY DEF GivenUpIsMissed
  <2>1. i \in Nat /\ i + 1 \in DOMAIN c.outbox /\ d.outbox[i] = c.outbox[i + 1]
    BY <1>1
  <2>2. v \in missed \/ \E j \in ReadsOut(c) : i + 1 < j /\ v \in c.outbox[j].ask
    BY <2>1 DEF Coherent, GivenUpIsMissed
  <2>3. ASSUME NEW j \in ReadsOut(c), i + 1 < j, v \in c.outbox[j].ask
        PROVE  \E k \in ReadsOut(d) : i < k /\ v \in d.outbox[k].ask
    <3>1. j \in Nat /\ j - 1 \in ReadsOut(d) /\ d.outbox[j - 1] = c.outbox[j]
      BY <1>1, <1>4
    <3>2. i < j - 1
      BY <2>1, <2>3, <3>1
    <3> QED BY <2>3, <3>1, <3>2
  <2> QED BY <2>2, <2>3
<1>9. \A v \in Views : Bringing(c, in, v) <=> Bringing(d, out, v)
  <2>1. \A v \in Views : (\E i \in ReadsOut(c) : v \in c.outbox[i].ask)
                         <=> (\E i \in ReadsOut(d) : v \in d.outbox[i].ask)
    BY <1>4, <1>5
  <2> QED BY <1>3, <2>1 DEF Bringing
<1>10. \A v \in Views : ToAsk(c, v) <=> ToAsk(d, v)
  BY DEF ToAsk
<1>11. CASE m.live \/ changed = {}
  <2>1. \A v \in changed : Told(out, v)
    BY <1>3, <1>11, <1>m
  <2>2. changed = Views => MoveTold(out)
    <3>1. Views # {}
      BY DEF Views
    <3> QED BY <1>3, <1>11, <1>m, <3>1
  <2>3. PlaceIsMended(d, out, f, missed)
    BY <1>3, <2>2 DEF Coherent, PlaceIsMended, Requeued, Held
  <2>4. AnswerIsMended(d, out, f, missed)
    BY <1>3, <2>2 DEF Coherent, AnswerIsMended, Requeued
  <2>5. ViewsCome(d, out, f, missed)
    <3> SUFFICES ASSUME NEW v \in Views, Askable(f.at, v)
                 PROVE  \/ v \in missed \/ Told(out, v) \/ ToAsk(d, v)
                        \/ IF Bringing(d, out, v) THEN Fresh(d, out, f, v)
                           ELSE d.shown[v] = f.ver[v]
      BY DEF ViewsCome
    <3>1. CASE v \in changed
      BY <2>1, <3>1
    <3>2. CASE v \notin changed
      <4>1. f.ver[v] = e.ver[v] /\ f.at = e.at
        BY <3>2
      <4>2. \/ v \in missed \/ Told(in, v) \/ ToAsk(c, v)
            \/ IF Bringing(c, in, v) THEN Fresh(c, in, e, v) ELSE c.shown[v] = e.ver[v]
        BY <4>1 DEF Coherent, ViewsCome
      <4>3. Fresh(c, in, e, v) => Fresh(d, out, f, v)
        BY <1>3, <4>1 DEF Fresh
      <4> QED BY <1>3, <1>9, <1>10, <4>1, <4>2, <4>3
    <3> QED BY <3>1, <3>2
  <2> QED BY <1>6, <1>7, <1>8, <2>3, <2>4, <2>5 DEF Coherent, out
<1>12. CASE ~m.live /\ changed # {}
  <2>1. \A v \in Views : v \in missed \/ \E j \in ReadsOut(c) : v \in c.outbox[j].ask
    BY <1>1, <1>12, <1>m DEF Coherent, GivenUpIsMissed
  <2>2. \A j \in ReadsOut(c) : /\ c.outbox[j].from \in {"place", "fetch"}
                               /\ c.outbox[j].from = "place" => c.outbox[j].ask = {"assets"}
                               /\ c.outbox[j].from = "place" => c.read.phase = "placing"
                               /\ c.outbox[j].from = "fetch" => Fits(c, c.outbox[j].ask)
    <3> TAKE j \in ReadsOut(c)
    <3>1. c.outbox[j] \in Requests /\ IsRead(c.outbox[j])
      BY DEF ReadsOut, Clients
    <3>2. c.outbox[j].from = (IF c.read.phase = "placing" THEN "place" ELSE "fetch")
      BY DEF Coherent, OneRead
    <3>3. c.outbox[j].from = "fetch" => Fits(c, c.outbox[j].ask)
      BY DEF Coherent, FetchFits
    <3> QED BY <3>1, <3>2, <3>3 DEF Requests, IsRead
  <2>3. \A v \in Views : v \in missed \/ (ReadsIn(in) = {} /\ Bringing(c, in, v))
    <3> SUFFICES ASSUME NEW v \in Views, v \notin missed
                 PROVE  ReadsIn(in) = {} /\ Bringing(c, in, v)
      OBVIOUS
    <3>1. PICK j \in ReadsOut(c) : v \in c.outbox[j].ask
      BY <2>1
    <3>2. ReadsIn(in) = {}
      BY <3>1 DEF Coherent, OneRead
    <3>3. v = "assets" => c.read.phase = "placing"
      BY <2>2, <3>1 DEF Fits, Held
    <3> QED BY <3>1, <3>2, <3>3 DEF Bringing
  <2>4. \A v \in Views : v = "assets" => v \in missed \/ c.read.phase = "placing"
    BY <2>1, <2>2 DEF Fits, Held
  <2>5. \A v \in Views : ~Askable(Held(c), v) /\ Held(c) # Nothing => v \in missed
    <3> SUFFICES ASSUME NEW v \in Views, ~Askable(Held(c), v), Held(c) # Nothing, v \notin missed
                 PROVE  FALSE
      OBVIOUS
    <3>1. PICK j \in ReadsOut(c) : v \in c.outbox[j].ask
      BY <2>1
    <3>2. v # "assets"
      BY DEF Askable, SpaceOnly, StationOnly
    <3> QED BY <2>2, <3>1, <3>2 DEF Fits, Held
  <2>6. PlaceIsMended(d, out, f, missed)
    BY <2>5 DEF PlaceIsMended, Held
  <2>7. AnswerIsMended(d, out, f, missed)
    BY <1>3, <2>3 DEF AnswerIsMended
  <2>8. ViewsCome(d, out, f, missed)
    <3> SUFFICES ASSUME NEW v \in Views, v \notin missed
                 PROVE  Bringing(d, out, v) /\ Fresh(d, out, f, v)
      BY DEF ViewsCome
    <3> QED BY <1>3, <1>9, <2>3, <2>4 DEF Fresh
  <2> QED BY <1>6, <1>7, <1>8, <2>6, <2>7, <2>8 DEF Coherent, out
<1> QED BY <1>11, <1>12

-----------------------------------------------------------------------------
(* Giving up. *)

LEMMA RequestForgotten ==
  ASSUME NEW o \in Seq(Requests), NEW i \in DOMAIN o
  PROVE  /\ Forget(o, i) \in Seq(Requests) /\ DOMAIN Forget(o, i) = DOMAIN o
         /\ \A j \in DOMAIN o : j # i => Forget(o, i)[j] = o[j]
         /\ Forget(o, i)[i].from = o[i].from /\ Forget(o, i)[i].live = FALSE
         /\ Forget(o, i)[i].ask = o[i].ask
<1> DEFINE m == [o[i] EXCEPT !.live = FALSE]
<1>1. o[i] \in Requests
  OBVIOUS
<1>2. m \in Requests /\ m.from = o[i].from /\ m.ask = o[i].ask /\ m.live = FALSE
  BY <1>1 DEF Requests
<1>3. Forget(o, i) = [o EXCEPT ![i] = m]
  BY DEF Forget
<1> HIDE DEF m
<1> QED BY <1>2, <1>3

LEMMA AnswerForgotten ==
  ASSUME NEW in \in Seq(Answers), NEW i \in DOMAIN in
  PROVE  /\ Forget(in, i) \in Seq(Answers) /\ DOMAIN Forget(in, i) = DOMAIN in
         /\ \A j \in DOMAIN in : j # i => Forget(in, i)[j] = in[j]
         /\ Forget(in, i)[i].from = in[i].from /\ Forget(in, i)[i].live = FALSE
<1> DEFINE m == [in[i] EXCEPT !.live = FALSE]
<1>1. in[i] \in Answers
  OBVIOUS
<1>2. m \in Answers /\ m.from = in[i].from /\ m.live = FALSE
  BY <1>1 DEF Answers
<1>3. Forget(in, i) = [in EXCEPT ![i] = m]
  BY DEF Forget
<1> HIDE DEF m
<1> QED BY <1>2, <1>3

\* What the read in progress was to bring, and what waited for it, is missed
\* when it is given up.
LEMMA ReadGivenUp ==
  ASSUME NEW c \in Clients, NEW d \in Clients, NEW in \in Seq(Answers), NEW out, NEW e,
         NEW missed, NEW lost, Coherent(c, in, e, missed),
         d.read = IdleRead, d.queue = c.queue, d.place = c.place, d.shown = c.shown,
         ReadsOut(d) = {}, ReadsIn(out) = {},
         DOMAIN d.outbox \subseteq DOMAIN c.outbox,
         \A i \in DOMAIN d.outbox : d.outbox[i].from \in Changes => d.outbox[i] = c.outbox[i],
         \A v \in Views : Told(in, v) => Told(out, v), MoveTold(in) => MoveTold(out),
         c.read.wanted \subseteq lost, c.queue \subseteq lost,
         c.read.phase = "placing" \/ c.read.assets # Nothing => "assets" \in lost
  PROVE  Coherent(d, out, e, missed \cup lost)
<1> DEFINE more == missed \cup lost
<1>1. d.read.phase = "idle" /\ d.read.assets = Nothing
  BY DEF IdleRead
<1>2. OneRead(d, out)
  BY <1>1 DEF OneRead
<1>3. FetchFits(d, out)
  BY DEF FetchFits
<1>4. \A j \in ReadsOut(c) : c.outbox[j].ask \subseteq lost
  <2> TAKE j \in ReadsOut(c)
  <2>1. c.outbox[j] \in Requests /\ IsRead(c.outbox[j])
    BY DEF ReadsOut, Clients
  <2>2. c.outbox[j].from = (IF c.read.phase = "placing" THEN "place" ELSE "fetch")
    BY DEF Coherent, OneRead
  <2>3. CASE c.outbox[j].from = "place"
    BY <2>1, <2>2, <2>3 DEF Requests
  <2>4. CASE c.outbox[j].from = "fetch"
    BY <2>4 DEF Coherent, FetchFits, Fits, Held
  <2> QED BY <2>1, <2>3, <2>4 DEF IsRead
<1>5. \A j \in ReadsIn(in) : DOMAIN in[j].values \subseteq lost
  <2> TAKE j \in ReadsIn(in)
  <2>1. in[j] \in Answers /\ IsRead(in[j])
    BY DEF ReadsIn
  <2>2. in[j].from = (IF c.read.phase = "placing" THEN "place" ELSE "fetch")
    BY DEF Coherent, OneRead
  <2>3. CASE in[j].from = "place"
    BY <2>1, <2>2, <2>3 DEF Answers
  <2>4. CASE in[j].from = "fetch"
    BY <2>4 DEF Coherent, FetchFits, Fits, Held
  <2> QED BY <2>1, <2>3, <2>4 DEF IsRead
<1>6. GivenUpIsMissed(d, more)
  <2> SUFFICES ASSUME NEW i \in DOMAIN d.outbox, d.outbox[i].from \in Changes,
                      ~d.outbox[i].live, NEW v \in Views
               PROVE  v \in more
    BY DEF GivenUpIsMissed
  <2>1. i \in DOMAIN c.outbox /\ d.outbox[i] = c.outbox[i]
    OBVIOUS
  <2>2. v \in missed \/ \E j \in ReadsOut(c) : i < j /\ v \in c.outbox[j].ask
    BY <2>1 DEF Coherent, GivenUpIsMissed
  <2> QED BY <1>4, <2>2
<1>7. PlaceIsMended(d, out, e, more)
  <2>1. Held(d) = c.place /\ c.place \in {Nothing, Held(c)}
    BY <1>1 DEF Coherent, OneRead, Held
  <2> QED BY <2>1 DEF Coherent, PlaceIsMended, Requeued, Held
<1>8. AnswerIsMended(d, out, e, more)
  BY DEF AnswerIsMended
<1>9. ViewsCome(d, out, e, more)
  <2> SUFFICES ASSUME NEW v \in Views, Askable(e.at, v), v \notin more
               PROVE  \/ Told(out, v)
                      \/ IF Bringing(d, out, v) THEN Fresh(d, out, e, v) ELSE d.shown[v] = e.ver[v]
    BY DEF ViewsCome
  <2>1. \/ v \in missed \/ Told(in, v) \/ ToAsk(c, v)
        \/ IF Bringing(c, in, v) THEN Fresh(c, in, e, v) ELSE c.shown[v] = e.ver[v]
    BY DEF Coherent, ViewsCome
  <2>2. ~ToAsk(c, v)
    BY DEF ToAsk
  <2>3. ~Bringing(c, in, v)
    BY <1>4, <1>5 DEF Bringing
  <2>4. ~Bringing(d, out, v)
    BY <1>1 DEF Bringing
  <2> QED BY <2>1, <2>2, <2>3, <2>4
<1> QED BY <1>2, <1>3, <1>6, <1>7, <1>8, <1>9 DEF Coherent

\* A change given up finds everything missed, and the reads as they were.
LEMMA ChangeGivenUp ==
  ASSUME NEW c, NEW d, NEW in, NEW out, NEW e, NEW missed, NEW more, Coherent(c, in, e, missed),
         SameReading(c, d), Views \subseteq more,
         ReadsOut(d) = ReadsOut(c), \A i \in ReadsOut(c) : d.outbox[i] = c.outbox[i],
         ReadsIn(out) = ReadsIn(in), \A i \in ReadsIn(in) : out[i] = in[i]
  PROVE  Coherent(d, out, e, more)
<1> USE DEF SameReading
<1>1. OneRead(d, out)
  BY DEF Coherent, OneRead
<1>2. FetchFits(d, out)
  BY DEF Coherent, FetchFits, Fits, Held
<1>3. GivenUpIsMissed(d, more)
  BY DEF GivenUpIsMissed
<1>4. PlaceIsMended(d, out, e, more)
  BY DEF PlaceIsMended, Held
<1>5. AnswerIsMended(d, out, e, more)
  BY DEF AnswerIsMended
<1>6. ViewsCome(d, out, e, more)
  BY DEF ViewsCome
<1> QED BY <1>1, <1>2, <1>3, <1>4, <1>5, <1>6 DEF Coherent

\* A save given up changes nothing of what is read.
LEMMA SaveGivenUp ==
  ASSUME NEW c, NEW d, NEW in, NEW out, NEW e, NEW missed, Coherent(c, in, e, missed),
         SameReading(c, d), DOMAIN d.outbox = DOMAIN c.outbox,
         \A i \in DOMAIN d.outbox : d.outbox[i].from \in Changes => d.outbox[i] = c.outbox[i],
         ReadsOut(d) = ReadsOut(c), \A i \in ReadsOut(c) : d.outbox[i] = c.outbox[i],
         ReadsIn(out) = ReadsIn(in), \A i \in ReadsIn(in) : out[i] = in[i],
         \A v \in Views : Told(in, v) => Told(out, v), MoveTold(in) => MoveTold(out)
  PROVE  Coherent(d, out, e, missed)
<1> USE DEF SameReading
<1>1. OneRead(d, out)
  BY DEF Coherent, OneRead
<1>2. FetchFits(d, out)
  BY DEF Coherent, FetchFits, Fits, Held
<1>3. GivenUpIsMissed(d, missed)
  BY DEF Coherent, GivenUpIsMissed
<1>4. PlaceIsMended(d, out, e, missed)
  BY DEF Coherent, PlaceIsMended, Requeued, Held
<1>5. AnswerIsMended(d, out, e, missed)
  BY DEF Coherent, AnswerIsMended, Requeued
<1>6. ViewsCome(d, out, e, missed)
  BY DEF Coherent, ViewsCome, ToAsk, Bringing, Fresh
<1> QED BY <1>1, <1>2, <1>3, <1>4, <1>5, <1>6 DEF Coherent

-----------------------------------------------------------------------------
(* The steps. *)

\* A step of neither the clock nor the driver leaves the measure alone.
LEMMA SameTime ==
  ASSUME TimeIsMeasured,
         client'.driver.running = client.driver.running, client'.driver.last = client.driver.last,
         client.driver = StoppedDriver => client'.driver = StoppedDriver,
         world'.now = world.now, world'.hidden = world.hidden,
         history'.told = history.told, history'.ran = history.ran
  PROVE  TimeIsMeasured'
  BY DEF TimeIsMeasured, Untold

\* Becomes() is to keep what is coherent.
LEMMA BecomesOk ==
  ASSUME NEW c, ClientInv, Becomes(c), Keeps(client, c, inbox, engine, history.missed),
         UNCHANGED <<engine, inbox, world>>
  PROVE  ClientInv'
<1>1. client' = c /\ c \in Clients /\ c.driver = client.driver
  BY DEF Becomes, Keeps
<1>2. NewlyAsked(c) = Added(client.outbox, c.outbox)
  BY DEF NewlyAsked, Added
<1>3. history' = [history EXCEPT !.missed = history.missed \ Added(client.outbox, c.outbox)]
  BY <1>2 DEF Becomes
<1>4. history' \in Histories /\ history'.missed = history.missed \ Added(client.outbox, c.outbox)
      /\ history'.told = history.told /\ history'.ran = history.ran
  BY <1>3 DEF ClientInv, TypeOK, Histories
<1>5. TypeOK'
  BY <1>1, <1>4 DEF ClientInv, TypeOK
<1>6. TimeIsMeasured'
  BY <1>1, <1>4, SameTime DEF ClientInv
<1>7. Coherent(client', inbox', engine', history'.missed)
  BY <1>1, <1>4 DEF Keeps
<1> QED BY <1>5, <1>6, <1>7 DEF ClientInv

LEMMA SendCommandStep ==
  ASSUME ClientInv, SendCommand
  PROVE  ClientInv'
<1> DEFINE d == Send(client, "command", {}, 0)
<1>1. client \in Clients /\ Coherent(client, inbox, engine, history.missed)
  BY DEF ClientInv, TypeOK
<1>2. "command" \in Senders /\ {} \in SUBSET Views /\ 0 \in Nat
  BY DEF Senders
<1>3. Sends(client, d, "command", {})
  BY <1>1, <1>2, SendIs
<1>4. Becomes(d) /\ UNCHANGED <<engine, inbox, world>>
  BY DEF SendCommand
<1> HIDE DEF d
<1>5. Keeps(client, client, inbox, engine, history.missed)
  BY <1>1, KeepsSame
<1>6. Keeps(client, d, inbox, engine, history.missed)
  BY <1>1, <1>3, <1>5, KeepsMore
<1> QED BY <1>4, <1>6, BecomesOk

LEMMA SaveSettlesStep ==
  ASSUME ClientInv, SaveSettles
  PROVE  ClientInv'
<1>1. client \in Clients /\ Coherent(client, inbox, engine, history.missed)
  BY DEF ClientInv, TypeOK
<1>2. Becomes(SaveSettled(client)) /\ UNCHANGED <<engine, inbox, world>>
  BY DEF SaveSettles
<1>3. CASE client.saveAgain
  <2> DEFINE b == [client EXCEPT !.saving = "asking", !.saveAgain = FALSE]
             d == Send(b, "save", {}, 0)
  <2>1. SaveSettled(client) = d
    BY <1>3 DEF SaveSettled
  <2>2. b \in Clients /\ SameReading(client, b) /\ b.outbox = client.outbox /\ b.driver = client.driver
    BY <1>1 DEF Clients, SameReading
  <2> HIDE DEF b
  <2>3. Coherent(b, inbox, engine, history.missed)
    BY <1>1, <2>2, SameOutbox
  <2>4. Keeps(client, b, inbox, engine, history.missed)
    BY <1>1, <2>2, <2>3, KeepsSame
  <2>5. "save" \in Senders /\ {} \in SUBSET Views /\ 0 \in Nat
    BY DEF Senders
  <2>6. Sends(b, d, "save", {})
    BY <2>2, <2>5, SendIs
  <2> HIDE DEF d
  <2>7. Keeps(client, d, inbox, engine, history.missed)
    BY <1>1, <2>4, <2>6, KeepsMore
  <2> QED BY <1>2, <2>1, <2>7, BecomesOk
<1>4. CASE ~client.saveAgain
  <2> DEFINE d == [client EXCEPT !.saving = "idle"]
  <2>1. SaveSettled(client) = d
    BY <1>4 DEF SaveSettled
  <2>2. d \in Clients /\ SameReading(client, d) /\ d.outbox = client.outbox /\ d.driver = client.driver
    BY <1>1 DEF Clients, SameReading
  <2> HIDE DEF d
  <2>3. Coherent(d, inbox, engine, history.missed)
    BY <1>1, <2>2, SameOutbox
  <2>4. Keeps(client, d, inbox, engine, history.missed)
    BY <1>1, <2>2, <2>3, KeepsSame
  <2> QED BY <1>2, <2>1, <2>4, BecomesOk
<1> QED BY <1>3, <1>4

\* The measure of the driver is never negative.
LEMMA UntoldIs ==
  ASSUME TypeOK, TimeIsMeasured
  PROVE  /\ Untold \in Nat /\ client.driver.running \in BOOLEAN
         /\ client.driver.last \in Shown /\ world.now \in Nat
         /\ history.told \in Nat /\ history.ran \in Nat
         /\ client.driver.last # Nothing => client.driver.last \in Nat /\ client.driver.running
  BY NothingAssumption DEF TypeOK, TimeIsMeasured, Untold, Clients, Drivers, Shown, Worlds,
     Histories, StoppedDriver

LEMMA RunFrameStep ==
  ASSUME ClientInv, RunFrame
  PROVE  ClientInv'
<1> DEFINE r == [client.driver EXCEPT !.scheduled = FALSE, !.last = world.now]
           d == [client EXCEPT !.driver = r]
<1>1. /\ client \in Clients /\ Coherent(client, inbox, engine, history.missed)
      /\ client.driver \in Drivers /\ world.now \in Nat
  BY DEF ClientInv, TypeOK, Clients, Worlds
<1>2. client.driver.running
  BY <1>1 DEF RunFrame, ClientInv, TimeIsMeasured, StoppedDriver
<1>3. r \in Drivers /\ r.running /\ r.last = world.now
  BY <1>1, <1>2 DEF Drivers, Shown
<1>4. Frame(client, world.now) =
        IF client.driver.last = Nothing THEN Queue(d)
        ELSE Send(d, "advance", {}, Elapsed(client, world.now))
  <2>1. [client EXCEPT !.driver.scheduled = FALSE, !.driver.last = world.now] = d
    BY <1>1 DEF Clients, Drivers
  <2> HIDE DEF d
  <2> QED BY <2>1 DEF Frame
<1>5. client' = Frame(client, world.now) /\ UNCHANGED <<engine, inbox, world>> /\ ~world.hidden
  BY DEF RunFrame
<1>6. history' = [history EXCEPT !.told = history.told + Elapsed(client, world.now)]
  BY DEF RunFrame
<1> HIDE DEF r
<1>7. d \in Clients /\ SameReading(client, d) /\ d.outbox = client.outbox /\ d.driver = r
  BY <1>1, <1>3 DEF Clients, SameReading
<1> HIDE DEF d
<1>8. Coherent(d, inbox, engine, history.missed)
  BY <1>1, <1>7, SameOutbox
<1>9. Elapsed(client, world.now) = Untold /\ Untold \in Nat
  BY UntoldIs DEF ClientInv, Elapsed, Untold
<1>10. /\ client' \in Clients /\ Coherent(client', inbox, engine, history.missed)
       /\ client'.driver.running /\ client'.driver.last = world.now
  <2>1. CASE client.driver.last = Nothing
    <3>1. client' = Queue(d)
      BY <1>4, <1>5, <2>1
    <3>2. /\ Queue(d) \in Clients /\ SameReading(d, Queue(d)) /\ Queue(d).outbox = d.outbox
          /\ Queue(d).driver.running = d.driver.running /\ Queue(d).driver.last = d.driver.last
      BY <1>7, QueueIs
    <3>3. Coherent(Queue(d), inbox, engine, history.missed)
      BY <1>8, <3>2, SameOutbox
    <3> QED BY <1>3, <1>7, <3>1, <3>2, <3>3
  <2>2. CASE client.driver.last # Nothing
    <3> DEFINE f == Send(d, "advance", {}, Elapsed(client, world.now))
    <3>1. client' = f
      BY <1>4, <1>5, <2>2
    <3>2. "advance" \in Senders /\ {} \in SUBSET Views /\ Elapsed(client, world.now) \in Nat
      BY <1>9 DEF Senders
    <3>3. Sends(d, f, "advance", {})
      BY <1>7, <3>2, SendIs
    <3> HIDE DEF f
    <3>4. PICK m \in Requests : /\ m.from = "advance" /\ m.ask = {} /\ m.live = TRUE
                                /\ f.outbox = Append(d.outbox, m)
      BY <3>3 DEF Sends
    <3>5. f \in Clients /\ SameReading(d, f) /\ f.driver = d.driver
      BY <3>3 DEF Sends
    <3>6. Coherent(f, inbox, engine, history.missed)
      BY <1>7, <1>8, <3>4, <3>5, OtherRequest
    <3> QED BY <1>3, <1>7, <3>1, <3>5, <3>6
  <2> QED BY <2>1, <2>2
<1>11. /\ history' \in Histories /\ history'.missed = history.missed
       /\ history'.told = history.told + Untold /\ history'.ran = history.ran
  <2>1. history \in Histories /\ history.told + Untold \in Nat
    BY <1>9 DEF ClientInv, TypeOK, Histories
  <2>2. history' = [history EXCEPT !.told = history.told + Untold]
    BY <1>6, <1>9
  <2> QED BY <2>1, <2>2 DEF Histories
<1>12. TypeOK'
  BY <1>5, <1>10, <1>11 DEF ClientInv, TypeOK
<1>13. TimeIsMeasured'
  <2>1. Untold' = 0
    BY <1>1, <1>5, <1>10, NothingAssumption DEF Untold
  <2>2. history.told + Untold <= history.ran /\ history.told \in Nat /\ history.ran \in Nat
    BY UntoldIs DEF ClientInv, TimeIsMeasured
  <2>3. history'.told + Untold' <= history'.ran
    BY <1>9, <1>11, <2>1, <2>2
  <2>4. client'.driver.last <= world'.now /\ ~world'.hidden
    BY <1>1, <1>5, <1>10
  <2> QED BY <1>10, <2>3, <2>4 DEF TimeIsMeasured
<1> QED BY <1>5, <1>10, <1>11, <1>12, <1>13 DEF ClientInv

\* A step that only forgets the baseline of the driver.
LEMMA BaselineForgotten ==
  ASSUME NEW c, ClientInv, Becomes(c), UNCHANGED <<engine, inbox>>, world' \in Worlds,
         c \in Clients, SameReading(client, c), c.outbox = client.outbox,
         c.driver.last = Nothing, ~c.driver.running => c.driver = StoppedDriver
  PROVE  ClientInv'
<1>1. client' = c /\ client.outbox \in Seq(Requests)
      /\ Coherent(client, inbox, engine, history.missed)
  BY DEF Becomes, ClientInv, TypeOK, Clients
<1>2. NewlyAsked(c) = {}
  <2>1. NewlyAsked(c) = Added(client.outbox, client.outbox)
    BY DEF NewlyAsked, Added
  <2> QED BY <1>1, <2>1, AddedNothing
<1>3. history' = [history EXCEPT !.missed = history.missed \ {}]
  BY <1>2 DEF Becomes
<1>4. /\ history' \in Histories /\ history'.missed = history.missed
      /\ history'.told = history.told /\ history'.ran = history.ran
  BY <1>3 DEF ClientInv, TypeOK, Histories
<1>5. TypeOK'
  BY <1>1, <1>4 DEF ClientInv, TypeOK
<1>6. TimeIsMeasured'
  <2>1. Untold' = 0
    BY <1>1 DEF Untold
  <2>2. /\ history.told + Untold <= history.ran
        /\ Untold \in Nat /\ history.told \in Nat /\ history.ran \in Nat
    BY UntoldIs DEF ClientInv, TimeIsMeasured
  <2>3. history'.told + Untold' <= history'.ran
    BY <1>4, <2>1, <2>2
  <2> QED BY <1>1, <2>3 DEF TimeIsMeasured
<1>7. Coherent(client', inbox', engine', history'.missed)
  BY <1>1, <1>4, SameOutbox
<1> QED BY <1>5, <1>6, <1>7 DEF ClientInv

LEMMA ToggleDriverStep ==
  ASSUME ClientInv, ToggleDriver
  PROVE  ClientInv'
<1>1. client \in Clients /\ world \in Worlds /\ UNCHANGED <<engine, inbox>>
  BY DEF ClientInv, TypeOK, ToggleDriver
<1>2. StoppedDriver \in Drivers /\ StoppedDriver.last = Nothing
  BY DEF StoppedDriver, Drivers, Shown
<1>3. CASE Becomes(Stop(client)) /\ world' = world
  <2> DEFINE d == [client EXCEPT !.driver = StoppedDriver]
  <2>1. Stop(client) = d
    BY DEF Stop
  <2>2. /\ d \in Clients /\ SameReading(client, d) /\ d.outbox = client.outbox
        /\ d.driver = StoppedDriver
    BY <1>1, <1>2 DEF Clients, SameReading
  <2> HIDE DEF d
  <2> QED BY <1>1, <1>2, <1>3, <2>1, <2>2, BaselineForgotten
<1>4. CASE Becomes(Start(client)) /\ world' = [world EXCEPT !.starts = @ + 1]
  <2> DEFINE r == [StoppedDriver EXCEPT !.running = TRUE]
             b == [client EXCEPT !.driver = r]
  <2>1. Start(client) = Queue(b)
    BY DEF Start
  <2>3. r \in Drivers /\ r.running = TRUE /\ r.last = Nothing
    BY <1>2 DEF Drivers
  <2> HIDE DEF r
  <2>4. b \in Clients /\ SameReading(client, b) /\ b.outbox = client.outbox /\ b.driver = r
    BY <1>1, <2>3 DEF Clients, SameReading
  <2> HIDE DEF b
  <2>5. /\ Queue(b) \in Clients /\ SameReading(b, Queue(b)) /\ Queue(b).outbox = b.outbox
        /\ Queue(b).driver.running = b.driver.running /\ Queue(b).driver.last = b.driver.last
    BY <2>4, QueueIs
  <2>6. SameReading(client, Queue(b))
    BY <2>4, <2>5 DEF SameReading
  <2>7. world' \in Worlds
    BY <1>1, <1>4 DEF Worlds
  <2>8. Queue(b).driver.running /\ Queue(b).driver.last = Nothing
        /\ Queue(b).outbox = client.outbox
    BY <2>3, <2>4, <2>5
  <2> QED BY <1>1, <1>4, <2>1, <2>5, <2>6, <2>7, <2>8, BaselineForgotten
<1> QED BY <1>3, <1>4 DEF ToggleDriver

LEMMA ChangeVisibilityStep ==
  ASSUME ClientInv, ChangeVisibility
  PROVE  ClientInv'
<1>1. client \in Clients /\ client.driver \in Drivers /\ world \in Worlds
      /\ UNCHANGED <<engine, inbox>>
  BY DEF ClientInv, TypeOK, ChangeVisibility, Clients
<1>2. Becomes(OnVisibility(client)) /\ world' = [world EXCEPT !.hidden = ~world.hidden]
  BY DEF ChangeVisibility
<1>3. world' \in Worlds
  BY <1>1, <1>2 DEF Worlds
<1>4. CASE client.driver.running
  <2> DEFINE r == [client.driver EXCEPT !.last = Nothing]
             d == [client EXCEPT !.driver = r]
  <2>1. OnVisibility(client) = d
    BY <1>4 DEF OnVisibility, ResetBaseline
  <2>2. r \in Drivers /\ r.running = client.driver.running /\ r.last = Nothing
    BY <1>1 DEF Drivers, Shown
  <2> HIDE DEF r
  <2>3. d \in Clients /\ SameReading(client, d) /\ d.outbox = client.outbox /\ d.driver = r
    BY <1>1, <2>2 DEF Clients, SameReading
  <2> HIDE DEF d
  <2> QED BY <1>1, <1>2, <1>3, <1>4, <2>1, <2>2, <2>3, BaselineForgotten
<1>5. CASE ~client.driver.running
  <2>1. OnVisibility(client) = client
    BY <1>5 DEF OnVisibility
  <2>2. client.driver = StoppedDriver /\ StoppedDriver.last = Nothing
    BY <1>5 DEF ClientInv, TimeIsMeasured, StoppedDriver
  <2>3. SameReading(client, client)
    BY DEF SameReading
  <2> QED BY <1>1, <1>2, <1>3, <2>1, <2>2, <2>3, BaselineForgotten
<1> QED BY <1>4, <1>5

LEMMA TickStep ==
  ASSUME ClientInv, Tick
  PROVE  ClientInv'
<1>1. /\ world' = [world EXCEPT !.now = world.now + 1] /\ UNCHANGED <<client, engine, inbox>>
      /\ history' = [history EXCEPT !.ran =
           IF client.driver.running /\ ~world.hidden THEN history.ran + 1 ELSE history.ran]
  BY DEF Tick
<1>2. /\ world' \in Worlds /\ world'.now = world.now + 1 /\ world'.hidden = world.hidden
  BY <1>1 DEF ClientInv, TypeOK, Worlds
<1>3. history.ran \in Nat /\ history.told \in Nat /\ world.now \in Nat
  BY DEF ClientInv, TypeOK, Histories, Worlds
<1>4. /\ history' \in Histories /\ history'.missed = history.missed
      /\ history'.told = history.told
      /\ history'.ran = IF client.driver.running /\ ~world.hidden
                        THEN history.ran + 1 ELSE history.ran
  <2> DEFINE x == IF client.driver.running /\ ~world.hidden
                  THEN history.ran + 1 ELSE history.ran
  <2>1. history \in Histories /\ x \in Nat
    BY <1>3 DEF ClientInv, TypeOK
  <2>2. history' = [history EXCEPT !.ran = x]
    BY <1>1
  <2>3. x = IF client.driver.running /\ ~world.hidden THEN history.ran + 1 ELSE history.ran
    OBVIOUS
  <2> HIDE DEF x
  <2>4. /\ history' \in Histories /\ history'.missed = history.missed
        /\ history'.told = history.told /\ history'.ran = x
    BY <2>1, <2>2 DEF Histories
  <2> QED BY <2>3, <2>4
<1>5. TypeOK'
  BY <1>1, <1>2, <1>4 DEF ClientInv, TypeOK
<1>6. TimeIsMeasured'
  <2>1. /\ history.told + Untold <= history.ran
        /\ world.hidden => client.driver.last = Nothing
        /\ client.driver.last # Nothing => client.driver.last <= world.now
        /\ ~client.driver.running => client.driver = StoppedDriver
    BY DEF ClientInv, TimeIsMeasured
  <2>2. client.driver.last # Nothing => client.driver.last \in Nat /\ client.driver.running
    BY UntoldIs DEF ClientInv
  <2>3. CASE client.driver.last = Nothing
    <3>1. Untold = 0 /\ Untold' = 0
      BY <1>1, <2>3 DEF Untold
    <3>2. history'.told + Untold' <= history'.ran
      BY <1>3, <1>4, <2>1, <3>1
    <3> QED BY <1>1, <1>2, <2>1, <2>3, <3>2 DEF TimeIsMeasured
  <2>4. CASE client.driver.last # Nothing
    <3>1. client.driver.running /\ ~world.hidden /\ client.driver.last \in Nat
      BY <2>1, <2>2, <2>4
    <3>2. Untold = world.now - client.driver.last /\ Untold' = (world.now + 1) - client.driver.last
      <4>1. client' = client /\ world'.now = world.now + 1
        BY <1>1, <1>2
      <4> QED BY <2>4, <4>1 DEF Untold
    <3>3. history'.ran = history.ran + 1
      BY <1>4, <3>1
    <3>4. history'.told + Untold' <= history'.ran
      BY <1>3, <1>4, <2>1, <3>1, <3>2, <3>3
    <3>5. client'.driver.last <= world'.now
      BY <1>1, <1>2, <1>3, <2>1, <2>4, <3>1
    <3> QED BY <1>1, <1>2, <2>1, <3>1, <3>4, <3>5 DEF TimeIsMeasured
  <2> QED BY <2>3, <2>4
<1> QED BY <1>1, <1>4, <1>5, <1>6 DEF ClientInv

\* Serving takes the next request, and leaves the client the rest.
LEMMA ServeIs ==
  ASSUME NEW from, ClientInv, Serve(from)
  PROVE  /\ client' \in Clients /\ SameReading(client, client') /\ client'.driver = client.driver
         /\ client.outbox # <<>> /\ client'.outbox = Tail(client.outbox)
         /\ Head(client.outbox).from \in from /\ Head(client.outbox) \in Requests
         /\ UNCHANGED <<world, history>> /\ TimeIsMeasured'
<1>1. /\ client \in Clients /\ client.outbox # <<>> /\ Head(client.outbox).from \in from
      /\ client' = [client EXCEPT !.outbox = Tail(client.outbox)]
      /\ world' = world /\ history' = history
  BY DEF ClientInv, TypeOK, Serve
<1>2. Tail(client.outbox) \in Seq(Requests) /\ Head(client.outbox) \in Requests
  BY <1>1, TailIs DEF Clients
<1>3. /\ client' \in Clients /\ SameReading(client, client') /\ client'.driver = client.driver
      /\ client'.outbox = Tail(client.outbox)
  BY <1>1, <1>2 DEF Clients, SameReading
<1>4. TimeIsMeasured'
  BY <1>1, <1>3, SameTime DEF ClientInv
<1> QED BY <1>1, <1>2, <1>3, <1>4

\* a answers m with what e holds of asked, and tells of invalid.
Answering(m, a, invalid, asked, e) ==
  /\ a \in Answers /\ a.from = m.from /\ a.live = m.live /\ a.invalid = invalid /\ a.at = e.at
  /\ DOMAIN a.values = asked /\ \A v \in asked : a.values[v] = e.ver[v]

LEMMA AnswerIs ==
  ASSUME NEW m \in Requests, NEW ok \in BOOLEAN, NEW invalid \in SUBSET Views,
         NEW autosave \in BOOLEAN, NEW asked \in SUBSET Views, NEW e \in Engines,
         m.from = "place" => asked = {"assets"}, m.from \notin {"place", "fetch"} => asked = {},
         invalid # {} => ok = TRUE /\ m.from \in Changes
  PROVE  Answering(m, Answer(m, ok, invalid, autosave, asked, e), invalid, asked, e)
<1> DEFINE values == [v \in asked |-> e.ver[v]]
           a == [from |-> m.from, live |-> m.live, ok |-> ok, invalid |-> invalid,
                 autosave |-> autosave, at |-> e.at, rev |-> e.rev, values |-> values]
<1>1. Answer(m, ok, invalid, autosave, asked, e) = a
  BY DEF Answer
<1>2. values \in [asked -> Nat] /\ DOMAIN values = asked /\ \A v \in asked : values[v] = e.ver[v]
  BY DEF Engines
<1>3. values \in Values
  BY <1>2 DEF Values
<1>4. m.from \in Senders /\ m.live \in BOOLEAN /\ e.at \in Berths /\ e.rev \in Nat
  BY DEF Requests, Engines
<1> HIDE DEF values
<1>5. a \in [from : Senders, live : BOOLEAN, ok : BOOLEAN, invalid : SUBSET Views,
             autosave : BOOLEAN, at : Berths, rev : Nat, values : Values]
  BY <1>3, <1>4
<1>6. /\ a.from = m.from /\ a.live = m.live /\ a.invalid = invalid /\ a.at = e.at
      /\ a.values = values /\ a.ok = ok
  OBVIOUS
<1> HIDE DEF a
<1>7. a \in Answers
  BY <1>2, <1>5, <1>6 DEF Answers
<1> QED BY <1>1, <1>2, <1>6, <1>7 DEF Answering

LEMMA ServeQueryStep ==
  ASSUME ClientInv, ServeQuery
  PROVE  ClientInv'
<1> DEFINE m == Head(client.outbox)
           a == Answer(m, TRUE, {}, FALSE, m.ask, engine)
<1>1. Serve({"place", "fetch"}) /\ inbox' = Append(inbox, a) /\ engine' = engine
  BY DEF ServeQuery
<1>2. /\ client' \in Clients /\ SameReading(client, client') /\ client'.driver = client.driver
      /\ client.outbox # <<>> /\ client'.outbox = Tail(client.outbox)
      /\ m.from \in {"place", "fetch"} /\ m \in Requests
      /\ UNCHANGED <<world, history>> /\ TimeIsMeasured'
  BY <1>1, ServeIs
<1>3. /\ client \in Clients /\ engine \in Engines /\ inbox \in Seq(Answers)
      /\ Coherent(client, inbox, engine, history.missed)
  BY DEF ClientInv, TypeOK
<1> HIDE DEF m
<1>4. m.ask \in SUBSET Views /\ (m.from = "place" => m.ask = {"assets"})
  BY <1>2 DEF Requests
<1>5. /\ a \in Answers /\ a.from = m.from /\ a.live = m.live /\ a.at = engine.at
      /\ DOMAIN a.values = m.ask /\ \A v \in m.ask : a.values[v] = engine.ver[v]
  <2>1. m.from \notin {"place", "fetch"} => m.ask = {}
    BY <1>2
  <2>2. {} \in SUBSET Views /\ TRUE \in BOOLEAN /\ FALSE \in BOOLEAN
    OBVIOUS
  <2>3. Answering(m, a, {}, m.ask, engine)
    BY <1>2, <1>3, <1>4, <2>1, <2>2, AnswerIs
  <2> QED BY <2>3 DEF Answering
<1> HIDE DEF a
<1>6. inbox' \in Seq(Answers)
  BY <1>1, <1>3, <1>5
<1>7. Coherent(client', inbox', engine, history.missed)
  <2>1. CASE m.live
    <3>1. IsRead(m) /\ a.live = TRUE
      BY <1>2, <1>5, <2>1 DEF IsRead, Requests
    <3> QED BY <1>1, <1>2, <1>3, <1>5, <3>1, ServedRead DEF m
  <2>2. CASE ~m.live
    <3>1. ~IsRead(m)
      BY <2>2 DEF IsRead
    <3>2. {} \in SUBSET Views /\ \A v \in Views \ {} : engine.ver[v] = engine.ver[v]
      OBVIOUS
    <3> QED BY <1>1, <1>2, <1>3, <1>5, <3>1, <3>2, ServedOther DEF m
  <2> QED BY <2>1, <2>2
<1> QED BY <1>1, <1>2, <1>6, <1>7 DEF ClientInv, TypeOK

LEMMA ServeSaveStep ==
  ASSUME ClientInv, ServeSave
  PROVE  ClientInv'
<1> DEFINE m == Head(client.outbox)
           a == Answer(m, TRUE, {}, FALSE, {}, engine)
<1>1. Serve({"save"}) /\ inbox' = Append(inbox, a)
      /\ engine' = [engine EXCEPT !.captured = engine.rev]
  BY DEF ServeSave
<1>2. /\ client' \in Clients /\ SameReading(client, client') /\ client'.driver = client.driver
      /\ client.outbox # <<>> /\ client'.outbox = Tail(client.outbox)
      /\ m.from \in {"save"} /\ m \in Requests
      /\ UNCHANGED <<world, history>> /\ TimeIsMeasured'
  BY <1>1, ServeIs
<1>3. /\ client \in Clients /\ engine \in Engines /\ inbox \in Seq(Answers)
      /\ Coherent(client, inbox, engine, history.missed)
  BY DEF ClientInv, TypeOK
<1>4. engine' \in Engines /\ engine'.ver = engine.ver /\ engine'.at = engine.at
  BY <1>1, <1>3 DEF Engines
<1> HIDE DEF m
<1>5. {} \in SUBSET Views /\ m.from # "place" /\ ~IsRead(m)
  BY <1>2 DEF IsRead
<1>6. a \in Answers /\ a.from = m.from /\ a.live = m.live
  <2>1. TRUE \in BOOLEAN /\ FALSE \in BOOLEAN
    OBVIOUS
  <2>2. Answering(m, a, {}, {}, engine)
    BY <1>2, <1>3, <1>5, <2>1, AnswerIs
  <2> QED BY <2>2 DEF Answering
<1> HIDE DEF a
<1>7. inbox' \in Seq(Answers)
  BY <1>1, <1>3, <1>6
<1>8. Coherent(client', inbox', engine', history.missed)
  <2>1. \A v \in Views \ {} : engine'.ver[v] = engine.ver[v]
    BY <1>4
  <2> QED BY <1>1, <1>2, <1>3, <1>4, <1>5, <1>6, <2>1, ServedOther DEF m
<1> QED BY <1>2, <1>4, <1>7, <1>8 DEF ClientInv, TypeOK

LEMMA ServeNoChangeStep ==
  ASSUME ClientInv, ServeNoChange
  PROVE  ClientInv'
<1> DEFINE m == Head(client.outbox)
<1>1. PICK ok \in BOOLEAN :
        /\ Serve({"command", "advance"}) /\ engine' = engine
        /\ inbox' = Append(inbox, Answer(m, ok, {}, FALSE, {}, engine))
  BY DEF ServeNoChange
<1> DEFINE a == Answer(m, ok, {}, FALSE, {}, engine)
<1>2. /\ client' \in Clients /\ SameReading(client, client') /\ client'.driver = client.driver
      /\ client.outbox # <<>> /\ client'.outbox = Tail(client.outbox)
      /\ m.from \in {"command", "advance"} /\ m \in Requests
      /\ UNCHANGED <<world, history>> /\ TimeIsMeasured'
  BY <1>1, ServeIs
<1>3. /\ client \in Clients /\ engine \in Engines /\ inbox \in Seq(Answers)
      /\ Coherent(client, inbox, engine, history.missed)
  BY DEF ClientInv, TypeOK
<1> HIDE DEF m
<1>5. {} \in SUBSET Views /\ m.from # "place" /\ ~IsRead(m)
  BY <1>2 DEF IsRead
<1>6. a \in Answers /\ a.from = m.from /\ a.live = m.live
  <2>1. TRUE \in BOOLEAN /\ FALSE \in BOOLEAN
    OBVIOUS
  <2>2. Answering(m, a, {}, {}, engine)
    BY <1>2, <1>3, <1>5, <2>1, AnswerIs
  <2> QED BY <2>2 DEF Answering
<1>a. inbox' = Append(inbox, a)
  BY <1>1
<1> HIDE DEF a
<1>7. inbox' \in Seq(Answers)
  BY <1>a, <1>3, <1>6
<1>8. Coherent(client', inbox', engine, history.missed)
  <2>1. \A v \in Views \ {} : engine.ver[v] = engine.ver[v]
    OBVIOUS
  <2> QED BY <1>a, <1>2, <1>3, <1>5, <1>6, <2>1, ServedOther DEF m
<1> QED BY <1>1, <1>2, <1>7, <1>8 DEF ClientInv, TypeOK

LEMMA ServeChangeStep ==
  ASSUME ClientInv, ServeChange
  PROVE  ClientInv'
<1> DEFINE m == Head(client.outbox)
<1>1. PICK changed \in {{v} : v \in Views} \cup {Views}, autosave \in BOOLEAN :
        /\ Serve({"command", "advance"})
        /\ engine' = [engine EXCEPT !.rev = engine.rev + 1,
             !.ver = [v \in Views |-> IF v \in changed THEN engine.rev + 1 ELSE engine.ver[v]],
             !.at = IF changed # Views THEN engine.at
                    ELSE IF engine.at = "station" THEN "space" ELSE "station"]
        /\ inbox' = Append(inbox, Answer(m, TRUE, changed, autosave, {}, engine'))
  <2>1. PICK changed \in {{v} : v \in Views} \cup {Views}, autosave \in BOOLEAN :
          LET e == [engine EXCEPT !.rev = @ + 1,
                !.ver = [v \in Views |-> IF v \in changed THEN engine.rev + 1 ELSE @[v]],
                !.at = IF changed # Views THEN @ ELSE IF @ = "station" THEN "space" ELSE "station"]
          IN  /\ Serve({"command", "advance"}) /\ engine' = e
              /\ inbox' = Append(inbox, Answer(m, TRUE, changed, autosave, {}, e))
    BY DEF ServeChange
  <2> QED BY <2>1
<1> DEFINE a == Answer(m, TRUE, changed, autosave, {}, engine')
<1>2. /\ client' \in Clients /\ SameReading(client, client') /\ client'.driver = client.driver
      /\ client.outbox # <<>> /\ client'.outbox = Tail(client.outbox)
      /\ m.from \in {"command", "advance"} /\ m \in Requests
      /\ UNCHANGED <<world, history>> /\ TimeIsMeasured'
  BY <1>1, ServeIs
<1>3. /\ client \in Clients /\ engine \in Engines /\ inbox \in Seq(Answers)
      /\ Coherent(client, inbox, engine, history.missed)
  BY DEF ClientInv, TypeOK
<1>c. changed \in SUBSET Views
  BY <1>1
<1>4. /\ engine' \in Engines
      /\ \A v \in Views \ changed : engine'.ver[v] = engine.ver[v]
      /\ engine'.at = engine.at \/ changed = Views
  <2> DEFINE ver == [v \in Views |-> IF v \in changed THEN engine.rev + 1 ELSE engine.ver[v]]
             at == IF changed # Views THEN engine.at
                   ELSE IF engine.at = "station" THEN "space" ELSE "station"
  <2>1. engine.rev \in Nat /\ engine.at \in Berths /\ engine.ver \in [Views -> Nat]
    BY <1>3 DEF Engines
  <2>2. ver \in [Views -> Nat] /\ \A v \in Views \ changed : ver[v] = engine.ver[v]
    BY <2>1
  <2>3. at \in Berths /\ (at = engine.at \/ changed = Views)
    BY <2>1 DEF Berths
  <2>4. engine' = [engine EXCEPT !.rev = engine.rev + 1, !.ver = ver, !.at = at]
    BY <1>1
  <2> HIDE DEF ver, at
  <2>5. engine' = [at |-> at, ver |-> ver, rev |-> engine.rev + 1, captured |-> engine.captured]
    BY <1>3, <2>4 DEF Engines
  <2>6. engine.rev + 1 \in Nat /\ engine.captured \in Nat
    BY <1>3 DEF Engines
  <2>7. engine' \in Engines /\ engine'.ver = ver /\ engine'.at = at
    BY <2>2, <2>3, <2>5, <2>6 DEF Engines
  <2> QED BY <2>2, <2>3, <2>7
<1> HIDE DEF m
<1>5. {} \in SUBSET Views /\ m.from # "place" /\ ~IsRead(m) /\ m.from \in Changes
  BY <1>2 DEF IsRead, Changes
<1>6. a \in Answers /\ a.from = m.from /\ a.live = m.live /\ a.invalid = changed
  <2>1. TRUE \in BOOLEAN /\ (changed # {} => TRUE = TRUE /\ m.from \in Changes)
    BY <1>5
  <2>2. Answering(m, a, changed, {}, engine')
    BY <1>2, <1>4, <1>5, <1>c, <2>1, AnswerIs
  <2> QED BY <2>2 DEF Answering
<1>a. inbox' = Append(inbox, a)
  BY <1>1
<1> HIDE DEF a
<1>7. inbox' \in Seq(Answers)
  BY <1>a, <1>3, <1>6
<1>8. Coherent(client', inbox', engine', history.missed)
  BY <1>a, <1>c, <1>2, <1>3, <1>4, <1>5, <1>6, ServedOther DEF m
<1> QED BY <1>2, <1>4, <1>7, <1>8 DEF ClientInv, TypeOK

\* d follows c as far as its driver goes on measuring.
Handles(c, d, in, e, missed) ==
  /\ d \in Clients
  /\ d.driver.running = c.driver.running /\ d.driver.last = c.driver.last
  /\ c.driver = StoppedDriver => d.driver = StoppedDriver
  /\ Coherent(d, in, e, missed \ Added(c.outbox, d.outbox))

LEMMA KeepsHandles ==
  ASSUME NEW c, NEW d, NEW in, NEW e, NEW missed, Keeps(c, d, in, e, missed)
  PROVE  Handles(c, d, in, e, missed)
  BY DEF Keeps, Handles

LEMMA QueueHandles ==
  ASSUME NEW c, NEW d, NEW in, NEW e, NEW missed, Keeps(c, d, in, e, missed)
  PROVE  Handles(c, Queue(d), in, e, missed)
<1>1. /\ d \in Clients /\ d.driver = c.driver
      /\ Coherent(d, in, e, missed \ Added(c.outbox, d.outbox))
  BY DEF Keeps
<1>2. /\ Queue(d) \in Clients /\ SameReading(d, Queue(d)) /\ Queue(d).outbox = d.outbox
      /\ Queue(d).driver.running = d.driver.running /\ Queue(d).driver.last = d.driver.last
      /\ d.driver = StoppedDriver => Queue(d).driver = StoppedDriver
  BY <1>1, QueueIs
<1>3. Coherent(Queue(d), in, e, missed \ Added(c.outbox, d.outbox))
  BY <1>1, <1>2, SameOutbox
<1> QED BY <1>1, <1>2, <1>3 DEF Handles

\* Whatever answer comes, its handler keeps what the client shows coherent.
LEMMA HandledOk ==
  ASSUME NEW c \in Clients, NEW in \in Seq(Answers), NEW e, NEW missed \in SUBSET Views,
         in # <<>>, Head(in).live, Coherent(c, in, e, missed)
  PROVE  Handles(c, Handled(c, Head(in)), Tail(in), e, missed)
<1> DEFINE m == Head(in)
           t == Tail(in)
<1>1. m \in Answers /\ m.from \in Senders
  BY NextAnswer DEF Answers
<1>2. ~IsRead(m) => Loose(c, t, e, missed, m.invalid)
  <2>1. (IF m.live THEN m.invalid ELSE {}) = m.invalid
    OBVIOUS
  <2> QED BY <2>1, OtherAnswer
<1>3. CASE m.from = "place"
  <2>1. Handled(c, m) = OnPlaced(c, m) /\ IsRead(m)
    BY <1>3 DEF Handled, IsRead
  <2>2. PlacedWell(c, t, e, missed, m)
    BY <1>3, <2>1, PlaceAnswer
  <2>3. Keeps(c, OnPlaced(c, m), t, e, missed)
    BY <1>1, <2>2, PlacedKeeps
  <2> QED BY <2>1, <2>3, KeepsHandles
<1>4. CASE m.from = "fetch"
  <2>1. Handled(c, m) = OnFetched(c, m) /\ IsRead(m)
    BY <1>4 DEF Handled, IsRead
  <2>2. c.read.phase \in {"idle", "placing", "fetching"}
    BY DEF Clients, Reads
  <2>3. FetchedWell(c, t, e, missed, m)
    BY <1>4, <2>1, <2>2, FetchAnswer
  <2>4. Keeps(c, OnFetched(c, m), t, e, missed)
    BY <1>1, <2>3, FetchedKeeps
  <2> QED BY <2>1, <2>4, KeepsHandles
<1> HIDE DEF m, t
<1>5. CASE m.from = "command"
  <2>1. Handled(c, m) = OnCommandAnswered(c, m) /\ ~IsRead(m)
    BY <1>5 DEF Handled, IsRead
  <2>2. Keeps(c, OnCommandAnswered(c, m), t, e, missed)
    BY <1>1, <1>2, <2>1, CommandKeeps
  <2> QED BY <2>1, <2>2, KeepsHandles DEF m, t
<1>6. CASE m.from = "advance"
  <2>1. Handled(c, m) = OnAdvanced(c, m) /\ ~IsRead(m)
    BY <1>6 DEF Handled, IsRead
  <2>2. PICK d : OnAdvanced(c, m) = Queue(d) /\ Keeps(c, d, t, e, missed)
    BY <1>1, <1>2, <2>1, AdvanceKeeps
  <2>3. Handles(c, Queue(d), t, e, missed)
    BY <2>2, QueueHandles
  <2> QED BY <2>1, <2>2, <2>3 DEF m, t
<1>7. CASE m.from = "save"
  <2> DEFINE d == [c EXCEPT !.saving = "settling"]
  <2>1. Handled(c, m) = d /\ ~IsRead(m)
    BY <1>7 DEF Handled, IsRead, OnSaveEnded
  <2>2. m.invalid = {}
    BY <1>1, <1>7 DEF Answers, Changes
  <2>3. Coherent(c, t, e, missed)
    BY <1>2, <2>1, <2>2, LooseNothing
  <2>4. d \in Clients /\ SameReading(c, d) /\ d.outbox = c.outbox /\ d.driver = c.driver
    BY DEF Clients, SameReading
  <2> HIDE DEF d
  <2>5. Coherent(d, t, e, missed)
    BY <2>3, <2>4, SameOutbox
  <2>6. Keeps(c, d, t, e, missed)
    BY <2>4, <2>5, KeepsSame
  <2> QED BY <2>1, <2>6, KeepsHandles DEF m, t
<1> QED BY <1>1, <1>3, <1>4, <1>5, <1>6, <1>7 DEF Senders, m, t

LEMMA ReceiveStep ==
  ASSUME ClientInv, Receive
  PROVE  ClientInv'
<1> DEFINE m == Head(inbox)
           c == Handled(client, m)
<1>1. /\ inbox # <<>> /\ inbox' = Tail(inbox) /\ UNCHANGED <<engine, world>>
      /\ client \in Clients /\ inbox \in Seq(Answers) /\ history \in Histories
      /\ Coherent(client, inbox, engine, history.missed) /\ history.missed \in SUBSET Views
  BY DEF Receive, ClientInv, TypeOK, Histories
<1>2. m \in Answers /\ inbox' \in Seq(Answers)
  BY <1>1, TailIs
<1>3. CASE m.live
  <2>1. /\ client' = c
        /\ history' = [history EXCEPT !.missed = @ \ NewlyAsked(c),
                         !.noted = IF m.autosave THEN m.rev ELSE @]
    BY <1>3 DEF Receive, IsMatched
  <2>2. Handles(client, c, inbox', engine, history.missed)
    BY <1>1, <1>3, HandledOk
  <2> HIDE DEF c, m
  <2>3. NewlyAsked(c) = Added(client.outbox, c.outbox)
    BY DEF NewlyAsked, Added
  <2>4. /\ history' \in Histories
        /\ history'.missed = history.missed \ Added(client.outbox, c.outbox)
        /\ history'.told = history.told /\ history'.ran = history.ran
    <3> DEFINE noted == IF m.autosave THEN m.rev ELSE history.noted
               less == history.missed \ Added(client.outbox, c.outbox)
    <3>1. noted \in Nat /\ less \in SUBSET Views
      BY <1>1, <1>2 DEF Answers, Histories
    <3>2. history' = [history EXCEPT !.missed = less, !.noted = noted]
      BY <2>1, <2>3
    <3> HIDE DEF noted
    <3> QED BY <1>1, <3>1, <3>2 DEF Histories
  <2>5. c \in Clients /\ Coherent(c, inbox', engine, history'.missed)
    BY <2>2, <2>4 DEF Handles
  <2>6. TimeIsMeasured'
    BY <1>1, <2>1, <2>2, <2>4, SameTime DEF Handles, ClientInv
  <2>7. TypeOK'
    BY <1>1, <1>2, <2>1, <2>4, <2>5 DEF ClientInv, TypeOK
  <2> QED BY <1>1, <2>1, <2>5, <2>6, <2>7 DEF ClientInv
<1>4. CASE ~m.live
  <2>1. client' = client /\ history' = history
    BY <1>4 DEF Receive, IsMatched
  <2>2. ~IsRead(m) /\ (IF m.live THEN m.invalid ELSE {}) = {}
    BY <1>4 DEF IsRead
  <2>3. Loose(client, inbox', engine, history.missed, {})
    BY <1>1, <2>2, OtherAnswer
  <2>4. Coherent(client, inbox', engine, history.missed)
    BY <2>3, LooseNothing
  <2>5. TimeIsMeasured'
    BY <1>1, <2>1, SameTime DEF ClientInv
  <2>6. TypeOK'
    BY <1>1, <1>2, <2>1 DEF ClientInv, TypeOK
  <2> QED BY <1>1, <2>1, <2>4, <2>5, <2>6 DEF ClientInv
<1> QED BY <1>3, <1>4

\* What a client does about an answer that will not come.
LEMMA FailedIs ==
  ASSUME NEW c \in Clients, NEW from \in Senders
  PROVE  /\ Failed(c, from) \in Clients /\ Failed(c, from).outbox = c.outbox
         /\ Failed(c, from).queue = c.queue /\ Failed(c, from).place = c.place
         /\ Failed(c, from).shown = c.shown
         /\ Failed(c, from).read = IF from \in {"place", "fetch"} THEN IdleRead ELSE c.read
         /\ Failed(c, from).driver.running = c.driver.running
         /\ Failed(c, from).driver.last = c.driver.last
         /\ c.driver = StoppedDriver => Failed(c, from).driver = StoppedDriver
<1>1. CASE from \in {"place", "fetch"}
  <2>1. Failed(c, from) = [c EXCEPT !.read = IdleRead]
    BY <1>1 DEF Failed, OnReadFailed
  <2>2. IdleRead \in Reads
    BY DEF IdleRead, Reads, Shown
  <2> QED BY <1>1, <2>1, <2>2 DEF Clients
<1>2. CASE from = "command"
  BY <1>2 DEF Failed
<1>3. CASE from = "advance"
  <2>1. Failed(c, from) = Queue(c)
    BY <1>3 DEF Failed, OnAdvanceFailed
  <2> QED BY <1>3, <2>1, QueueIs DEF SameReading
<1>4. CASE from = "save"
  <2>1. Failed(c, from) = [c EXCEPT !.saving = "settling"]
    BY <1>4 DEF Failed, OnSaveEnded
  <2> QED BY <1>4, <2>1 DEF Clients
<1> QED BY <1>1, <1>2, <1>3, <1>4 DEF Senders

LEMMA GiveUpIs ==
  ASSUME NEW m, NEW c \in Clients, ClientInv, GiveUp(m, c), m.from \in Senders,
         c.driver = client.driver
  PROVE  /\ m.live /\ client' = Failed(c, m.from) /\ engine' = engine
         /\ history'.missed = history.missed \cup Lost(m.from)
         /\ client' \in Clients /\ world' \in Worlds /\ history' \in Histories
         /\ TimeIsMeasured'
<1>1. /\ m.live /\ client' = Failed(c, m.from) /\ engine' = engine
      /\ world' = [world EXCEPT !.timeouts = world.timeouts + 1]
      /\ history' = [history EXCEPT !.missed = history.missed \cup Lost(m.from),
                       !.noted = IF m.from = "save" /\ ~client.saveAgain THEN 0 ELSE history.noted]
  BY DEF GiveUp
<1>2. /\ client \in Clients /\ client.read \in Reads /\ client.queue \in SUBSET Views
      /\ world \in Worlds /\ history \in Histories
  BY DEF ClientInv, TypeOK, Clients
<1>3. world' \in Worlds /\ world'.now = world.now /\ world'.hidden = world.hidden
  BY <1>1, <1>2 DEF Worlds
<1>4. Lost(m.from) \in SUBSET Views
  <2>1. ToBring \in SUBSET Views
    BY <1>2 DEF ToBring, Reads, Views
  <2> QED BY <1>2, <2>1 DEF Lost, Senders
<1>5. /\ history' \in Histories /\ history'.missed = history.missed \cup Lost(m.from)
      /\ history'.told = history.told /\ history'.ran = history.ran
  <2> DEFINE noted == IF m.from = "save" /\ ~client.saveAgain THEN 0 ELSE history.noted
             more == history.missed \cup Lost(m.from)
  <2>1. noted \in Nat /\ more \in SUBSET Views
    BY <1>2, <1>4 DEF Histories
  <2>2. history' = [history EXCEPT !.missed = more, !.noted = noted]
    BY <1>1
  <2> HIDE DEF noted
  <2> QED BY <1>2, <2>1, <2>2 DEF Histories
<1>6. /\ client' \in Clients /\ client'.driver.running = client.driver.running
      /\ client'.driver.last = client.driver.last
      /\ client.driver = StoppedDriver => client'.driver = StoppedDriver
  BY <1>1, FailedIs
<1>7. TimeIsMeasured'
  BY <1>3, <1>5, <1>6, SameTime DEF ClientInv
<1> QED BY <1>1, <1>3, <1>5, <1>6, <1>7

LEMMA TimeoutUnservedStep ==
  ASSUME ClientInv, TimeoutUnserved
  PROVE  ClientInv'
<1>1. PICK i \in DOMAIN client.outbox :
        /\ GiveUp(client.outbox[i], [client EXCEPT !.outbox = Forget(client.outbox, i)])
        /\ inbox' = inbox
  BY DEF TimeoutUnserved
<1> DEFINE m == client.outbox[i]
           c == [client EXCEPT !.outbox = Forget(client.outbox, i)]
           o == client.outbox
           d == client'
<1>2. /\ client \in Clients /\ o \in Seq(Requests) /\ inbox \in Seq(Answers)
      /\ engine \in Engines /\ Coherent(client, inbox, engine, history.missed)
  BY DEF ClientInv, TypeOK, Clients
<1>3. /\ Forget(o, i) \in Seq(Requests) /\ DOMAIN Forget(o, i) = DOMAIN o
      /\ \A j \in DOMAIN o : j # i => Forget(o, i)[j] = o[j]
      /\ Forget(o, i)[i].from = m.from /\ Forget(o, i)[i].live = FALSE
  BY <1>2, RequestForgotten
<1>4. /\ c \in Clients /\ c.outbox = Forget(o, i) /\ c.driver = client.driver
      /\ c.read = client.read /\ c.queue = client.queue /\ c.place = client.place
      /\ c.shown = client.shown
  BY <1>2, <1>3 DEF Clients
<1>5. m \in Requests /\ m.from \in Senders
  BY <1>2 DEF Requests
<1>a. GiveUp(m, c)
  BY <1>1
<1> HIDE DEF c, m
<1>6. /\ m.live /\ d = Failed(c, m.from) /\ engine' = engine
      /\ history'.missed = history.missed \cup Lost(m.from)
      /\ d \in Clients /\ world' \in Worlds /\ history' \in Histories /\ TimeIsMeasured'
  BY <1>a, <1>4, <1>5, GiveUpIs
<1>7. /\ d.outbox = Forget(o, i) /\ d.queue = client.queue /\ d.place = client.place
      /\ d.shown = client.shown
      /\ d.read = IF m.from \in {"place", "fetch"} THEN IdleRead ELSE client.read
  BY <1>4, <1>5, <1>6, FailedIs
<1>8. \A j \in DOMAIN o : j \in ReadsOut(d) <=> j # i /\ j \in ReadsOut(client)
  BY <1>3, <1>7 DEF ReadsOut, IsRead
<1>9. ReadsOut(d) \subseteq DOMAIN o /\ ReadsOut(client) \subseteq DOMAIN o
  BY <1>3, <1>7 DEF ReadsOut
<1>10. Coherent(client', inbox, engine, history'.missed)
  <2>1. CASE m.from \in {"place", "fetch"}
    <3>1. i \in ReadsOut(client)
      BY <1>6, <2>1 DEF ReadsOut, IsRead, m
    <3>2. ReadsOut(d) = {} /\ ReadsIn(inbox) = {}
      BY <1>2, <1>8, <1>9, <3>1 DEF Coherent, OneRead
    <3>3. \A j \in DOMAIN d.outbox : d.outbox[j].from \in Changes => d.outbox[j] = o[j]
      BY <1>3, <1>7, <2>1 DEF Changes
    <3>4. /\ client.read.wanted \subseteq Lost(m.from) /\ client.queue \subseteq Lost(m.from)
          /\ client.read.phase = "placing" \/ client.read.assets # Nothing
               => "assets" \in Lost(m.from)
      BY <2>1 DEF Lost, ToBring
    <3>5. d.read = IdleRead /\ DOMAIN d.outbox \subseteq DOMAIN o
      BY <1>3, <1>7, <2>1
    <3>6. d.queue = client.queue /\ d.place = client.place /\ d.shown = client.shown
      BY <1>7
    <3>7. /\ \A v \in Views : Told(inbox, v) => Told(inbox, v)
          /\ MoveTold(inbox) => MoveTold(inbox)
      OBVIOUS
    <3>8. Coherent(d, inbox, engine, history.missed \cup Lost(m.from))
      BY <1>2, <1>6, <3>2, <3>3, <3>4, <3>5, <3>6, <3>7, ReadGivenUp
    <3> QED BY <1>6, <3>8
  <2>2. CASE m.from \notin {"place", "fetch"}
    <3>1. i \notin ReadsOut(client)
      BY <2>2 DEF ReadsOut, IsRead, m
    <3>2. ReadsOut(d) = ReadsOut(client)
      BY <1>8, <1>9, <3>1
    <3>3. \A j \in ReadsOut(client) : d.outbox[j] = o[j]
      BY <1>3, <1>7, <1>9, <3>1
    <3>4. SameReading(client, d)
      BY <1>7, <2>2 DEF SameReading
    <3>5. CASE m.from \in Changes
      <4>1. Views \subseteq history'.missed
        BY <1>6, <3>5 DEF Lost, Changes
      <4> QED BY <1>2, <3>2, <3>3, <3>4, <4>1, ChangeGivenUp
    <3>6. CASE m.from \notin Changes
      <4>1. m.from = "save" /\ history'.missed = history.missed
        BY <1>5, <1>6, <2>2, <3>6 DEF Lost, Senders, Changes
      <4>2. DOMAIN d.outbox = DOMAIN o
        BY <1>3, <1>7
      <4>3. \A j \in DOMAIN d.outbox : d.outbox[j].from \in Changes => d.outbox[j] = o[j]
        BY <1>3, <1>7, <3>6
      <4> QED BY <1>2, <3>2, <3>3, <3>4, <4>1, <4>2, <4>3, SaveGivenUp
    <3> QED BY <3>5, <3>6
  <2> QED BY <2>1, <2>2
<1>11. TypeOK'
  BY <1>1, <1>2, <1>6 DEF TypeOK
<1> QED BY <1>1, <1>6, <1>10, <1>11 DEF ClientInv

LEMMA TimeoutUnreadStep ==
  ASSUME ClientInv, TimeoutUnread
  PROVE  ClientInv'
<1>1. PICK i \in DOMAIN inbox : GiveUp(inbox[i], client) /\ inbox' = Forget(inbox, i)
  BY DEF TimeoutUnread
<1> DEFINE m == inbox[i]
           d == client'
           out == inbox'
<1>2. /\ client \in Clients /\ inbox \in Seq(Answers)
      /\ engine \in Engines /\ Coherent(client, inbox, engine, history.missed)
  BY DEF ClientInv, TypeOK
<1>3. /\ out \in Seq(Answers) /\ DOMAIN out = DOMAIN inbox
      /\ \A j \in DOMAIN inbox : j # i => out[j] = inbox[j]
      /\ out[i].from = m.from /\ out[i].live = FALSE
  BY <1>1, <1>2, AnswerForgotten
<1>5. m \in Answers /\ m.from \in Senders
  BY <1>2 DEF Answers
<1>a. GiveUp(m, client)
  BY <1>1
<1> HIDE DEF m
<1>6. /\ m.live /\ d = Failed(client, m.from) /\ engine' = engine
      /\ history'.missed = history.missed \cup Lost(m.from)
      /\ d \in Clients /\ world' \in Worlds /\ history' \in Histories /\ TimeIsMeasured'
  BY <1>a, <1>2, <1>5, GiveUpIs
<1>7. /\ d.outbox = client.outbox /\ d.queue = client.queue /\ d.place = client.place
      /\ d.shown = client.shown
      /\ d.read = IF m.from \in {"place", "fetch"} THEN IdleRead ELSE client.read
  BY <1>2, <1>5, <1>6, FailedIs
<1>8. \A j \in DOMAIN inbox : j \in ReadsIn(out) <=> j # i /\ j \in ReadsIn(inbox)
  BY <1>3 DEF ReadsIn, IsRead
<1>9. /\ ReadsIn(out) \subseteq DOMAIN inbox /\ ReadsIn(inbox) \subseteq DOMAIN inbox
      /\ ReadsOut(d) = ReadsOut(client)
  BY <1>3, <1>7 DEF ReadsIn, ReadsOut
<1>b. m.invalid # {} => m.from \in Changes
  BY <1>5 DEF Answers
<1>c. ASSUME m.invalid = {}
      PROVE  /\ \A v \in Views : Told(inbox, v) => Told(out, v)
             /\ MoveTold(inbox) => MoveTold(out)
  <2>1. {} # Views /\ inbox[i].invalid = {}
    BY <1>c DEF Views, m
  <2> QED BY <1>3, <2>1 DEF Told, MoveTold
<1>10. Coherent(client', out, engine, history'.missed)
  <2>1. CASE m.from \in {"place", "fetch"}
    <3>1. i \in ReadsIn(inbox)
      BY <1>6, <2>1 DEF ReadsIn, IsRead, m
    <3>2. ReadsIn(out) = {} /\ ReadsOut(d) = {}
      BY <1>2, <1>8, <1>9, <3>1 DEF Coherent, OneRead
    <3>3. \A v \in Views : Told(inbox, v) => Told(out, v)
      BY <1>b, <1>c, <2>1 DEF Changes
    <3>a. MoveTold(inbox) => MoveTold(out)
      BY <1>b, <1>c, <2>1 DEF Changes
    <3>4. /\ client.read.wanted \subseteq Lost(m.from) /\ client.queue \subseteq Lost(m.from)
          /\ client.read.phase = "placing" \/ client.read.assets # Nothing
               => "assets" \in Lost(m.from)
      BY <2>1 DEF Lost, ToBring
    <3>5. /\ d.read = IdleRead /\ DOMAIN d.outbox \subseteq DOMAIN client.outbox
          /\ \A j \in DOMAIN d.outbox : d.outbox[j].from \in Changes
               => d.outbox[j] = client.outbox[j]
      BY <1>7, <2>1
    <3>6. d.queue = client.queue /\ d.place = client.place /\ d.shown = client.shown
      BY <1>7
    <3>8. Coherent(d, out, engine, history.missed \cup Lost(m.from))
      BY <1>2, <1>6, <3>2, <3>3, <3>a, <3>4, <3>5, <3>6, ReadGivenUp
    <3> QED BY <1>6, <3>8
  <2>2. CASE m.from \notin {"place", "fetch"}
    <3>1. i \notin ReadsIn(inbox)
      BY <2>2 DEF ReadsIn, IsRead, m
    <3>2. ReadsIn(out) = ReadsIn(inbox)
      BY <1>8, <1>9, <3>1
    <3>3. \A j \in ReadsIn(inbox) : out[j] = inbox[j]
      BY <1>3, <1>9, <3>1
    <3>4. SameReading(client, d)
      BY <1>7, <2>2 DEF SameReading
    <3>5. CASE m.from \in Changes
      <4>1. Views \subseteq history'.missed
        BY <1>6, <3>5 DEF Lost, Changes
      <4>2. \A j \in ReadsOut(client) : d.outbox[j] = client.outbox[j]
        BY <1>7
      <4> QED BY <1>2, <1>9, <3>2, <3>3, <3>4, <4>1, <4>2, ChangeGivenUp
    <3>6. CASE m.from \notin Changes
      <4>1. m.from = "save" /\ history'.missed = history.missed /\ m.invalid = {}
        BY <1>b, <1>5, <1>6, <2>2, <3>6 DEF Lost, Senders, Changes
      <4>2. /\ DOMAIN d.outbox = DOMAIN client.outbox
            /\ \A j \in DOMAIN d.outbox : d.outbox[j].from \in Changes
                 => d.outbox[j] = client.outbox[j]
            /\ \A j \in ReadsOut(client) : d.outbox[j] = client.outbox[j]
        BY <1>7
      <4> QED BY <1>2, <1>9, <1>c, <3>2, <3>3, <3>4, <4>1, <4>2, SaveGivenUp
    <3> QED BY <3>5, <3>6
  <2> QED BY <2>1, <2>2
<1>11. TypeOK'
  BY <1>2, <1>3, <1>6 DEF TypeOK
<1> QED BY <1>1, <1>6, <1>10, <1>11 DEF ClientInv

-----------------------------------------------------------------------------
(* The theorems. *)

\* A client begins with everything asked for, the placement of the ship first.
LEMMA InitOk ==
  ASSUME Init
  PROVE  ClientInv
<1> DEFINE m == [from |-> "place", ask |-> {"assets"}, elapsed |-> 0, live |-> TRUE]
           read == [IdleRead EXCEPT !.phase = "placing", !.wanted = Views]
           driver == [StoppedDriver EXCEPT !.running = TRUE, !.scheduled = TRUE]
<1>1. /\ client = [place |-> Nothing, shown |-> [v \in Views |-> Nothing], queue |-> {},
                   read |-> read, saving |-> "idle", saveAgain |-> FALSE,
                   driver |-> driver, outbox |-> <<m>>]
      /\ engine = [at |-> "station", ver |-> [v \in Views |-> 0], rev |-> 0, captured |-> 0]
      /\ inbox = <<>>
      /\ world = [now |-> 0, hidden |-> FALSE, timeouts |-> 0, starts |-> 1]
      /\ history = [missed |-> {}, noted |-> 0, ran |-> 0, told |-> 0]
  BY DEF Init
<1>2. m \in Requests /\ m.from = "place" /\ m.ask = {"assets"} /\ m.live = TRUE
  BY DEF Requests, Senders, Views
<1>3. read \in Reads /\ read.phase = "placing" /\ read.wanted = Views /\ read.assets = Nothing
  BY DEF IdleRead, Reads, Shown
<1>4. driver \in Drivers /\ driver.running = TRUE /\ driver.last = Nothing
  <2>1. StoppedDriver \in Drivers /\ StoppedDriver.last = Nothing
    BY DEF StoppedDriver, Drivers, Shown
  <2> QED BY <2>1 DEF Drivers
<1> HIDE DEF m, read, driver
<1>5. <<m>> \in Seq(Requests) /\ DOMAIN <<m>> = {1} /\ <<m>>[1] = m
  BY <1>2
<1>6. [v \in Views |-> Nothing] \in [Views -> Shown] /\ [v \in Views |-> 0] \in [Views -> Nat]
  BY DEF Shown
<1>7. client \in Clients
  BY <1>1, <1>3, <1>4, <1>5, <1>6 DEF Clients
<1>8. engine \in Engines /\ world \in Worlds /\ history \in Histories
  BY <1>1, <1>6 DEF Engines, Worlds, Histories, Berths
<1>9. inbox \in Seq(Answers) /\ DOMAIN inbox = {}
  BY <1>1
<1>10. TypeOK
  BY <1>7, <1>8, <1>9 DEF TypeOK
<1>11. TimeIsMeasured
  BY <1>1, <1>4 DEF TimeIsMeasured, Untold
<1>12. Coherent(client, inbox, engine, history.missed)
  <2>1. /\ client.outbox = <<m>> /\ client.read = read /\ client.place = Nothing
        /\ ReadsIn(inbox) = {}
    BY <1>1, <1>9 DEF ReadsIn
  <2>2. ReadsOut(client) = {1}
    BY <1>2, <1>5, <2>1 DEF ReadsOut, IsRead
  <2>3. OneRead(client, inbox)
    BY <1>2, <1>3, <1>5, <2>1, <2>2 DEF OneRead
  <2>4. FetchFits(client, inbox)
    BY <1>2, <1>5, <2>1, <2>2 DEF FetchFits
  <2>5. GivenUpIsMissed(client, history.missed)
    BY <1>2, <1>5, <2>1 DEF GivenUpIsMissed
  <2>6. PlaceIsMended(client, inbox, engine, history.missed)
    <3>1. Held(client) = Nothing
      BY <1>3, <2>1 DEF Held
    <3> QED BY <3>1 DEF PlaceIsMended
  <2>7. AnswerIsMended(client, inbox, engine, history.missed)
    BY <2>1 DEF AnswerIsMended
  <2>8. ViewsCome(client, inbox, engine, history.missed)
    BY <1>3, <2>1 DEF ViewsCome, ToAsk, Bringing, Fresh
  <2> QED BY <2>3, <2>4, <2>5, <2>6, <2>7, <2>8 DEF Coherent
<1> QED BY <1>10, <1>11, <1>12 DEF ClientInv

LEMMA StutterStep ==
  ASSUME ClientInv, UNCHANGED vars
  PROVE  ClientInv'
  BY DEF ClientInv, TypeOK, TimeIsMeasured, Untold, vars

\* Whatever steps a behaviour is made of, however many requests are given up and
\* wherever the ship goes meanwhile: one read at a time, asking for what fits the
\* place it knows; and every view is shown as the engine holds it, or an answer,
\* the read in progress or the queue accounts for it, or it was missed.
THEOREM InvariantHolds == Spec => []ClientInv
<1>1. Init => ClientInv
  BY InitOk
<1>2. ClientInv /\ [Next]_vars => ClientInv'
  <2> SUFFICES ASSUME ClientInv, [Next]_vars PROVE ClientInv'
    OBVIOUS
  <2>1. CASE SendCommand
    BY <2>1, SendCommandStep
  <2>2. CASE SaveSettles
    BY <2>2, SaveSettlesStep
  <2>3. CASE RunFrame
    BY <2>3, RunFrameStep
  <2>4. CASE ToggleDriver
    BY <2>4, ToggleDriverStep
  <2>5. CASE ChangeVisibility
    BY <2>5, ChangeVisibilityStep
  <2>6. CASE Tick
    BY <2>6, TickStep
  <2>7. CASE ServeQuery
    BY <2>7, ServeQueryStep
  <2>8. CASE ServeSave
    BY <2>8, ServeSaveStep
  <2>9. CASE ServeChange
    BY <2>9, ServeChangeStep
  <2>10. CASE ServeNoChange
    BY <2>10, ServeNoChangeStep
  <2>11. CASE Receive
    BY <2>11, ReceiveStep
  <2>12. CASE TimeoutUnserved
    BY <2>12, TimeoutUnservedStep
  <2>13. CASE TimeoutUnread
    BY <2>13, TimeoutUnreadStep
  <2>14. CASE UNCHANGED vars
    BY <2>14, StutterStep
  <2> QED BY <2>1, <2>2, <2>3, <2>4, <2>5, <2>6, <2>7, <2>8, <2>9, <2>10, <2>11, <2>12,
             <2>13, <2>14 DEF Next
<1> QED BY <1>1, <1>2, PTL DEF Spec

\* The client, the engine behind it and what is on its way keep their types.
THEOREM TypeCorrect == Spec => []TypeOK
<1>1. ClientInv => TypeOK
  BY DEF ClientInv
<1> QED BY <1>1, InvariantHolds, PTL

\* The advances never add up to more than the time the driver ran with the page
\* visible: lastTime of the driver and the deltas it sends account for it once.
THEOREM TimeNotReplayed == Spec => []TimeIsNotReplayed
<1>1. ClientInv => TimeIsNotReplayed
  <2> SUFFICES ASSUME ClientInv PROVE TimeIsNotReplayed
    OBVIOUS
  <2>1. /\ history.told + Untold <= history.ran
        /\ Untold \in Nat /\ history.told \in Nat /\ history.ran \in Nat
    BY UntoldIs DEF ClientInv, TimeIsMeasured
  <2> QED BY <2>1 DEF TimeIsNotReplayed
<1> QED BY <1>1, InvariantHolds, PTL

\* When nothing is on its way, what readOnce() and applyInvalidations() left on
\* the surfaces is what the engine holds.
THEOREM ShownCurrent == Spec => []ShownIsCurrent
<1>1. ClientInv => ShownIsCurrent
  <2> SUFFICES ASSUME ClientInv, Quiet, NEW v \in Views \ history.missed, Relevant(v)
               PROVE  client.shown[v] = engine.ver[v]
    BY DEF ShownIsCurrent
  <2>1. /\ client.read.phase = "idle" /\ inbox \in Seq(Answers) /\ engine.at \in Berths
        /\ Coherent(client, inbox, engine, history.missed)
    BY DEF ClientInv, Quiet, TypeOK, Engines
  <2>2. /\ client.read = IdleRead /\ ReadsOut(client) = {} /\ ReadsIn(inbox) = {}
    BY <2>1 DEF Coherent, OneRead
  <2>3. Askable(engine.at, v)
    BY <2>1 DEF Relevant, Askable, StationOnly, SpaceOnly, Berths
  <2>4. ~Told(inbox, v)
    <3> SUFFICES ASSUME NEW i \in DOMAIN inbox, inbox[i].live, v \in inbox[i].invalid
                 PROVE  FALSE
      BY DEF Told
    <3>1. inbox[i] \in Answers
      BY <2>1
    <3>2. inbox[i].from \in {"command", "advance"}
      BY <3>1 DEF Answers, Changes
    <3>3. i \in LiveAnswers(inbox[i].from)
      BY DEF LiveAnswers
    <3> QED BY <3>2, <3>3 DEF Quiet
  <2>5. ~ToAsk(client, v) /\ ~Bringing(client, inbox, v)
    BY <2>1, <2>2 DEF ToAsk, Bringing, IdleRead
  <2> QED BY <2>1, <2>3, <2>4, <2>5 DEF Coherent, ViewsCome
<1> QED BY <1>1, InvariantHolds, PTL

===============================================================================
