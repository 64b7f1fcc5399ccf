----------------------------- MODULE EngineProofs -----------------------------
(***************************************************************************)
(* Theorems about the two loops of the engine.                             *)
(*                                                                         *)
(* The host, for any limit of the cache, any number of requests and any    *)
(* length of a campaign.  A revision counts effects, and a guarded effect  *)
(* is only appended at the revision it expects: its place in the history   *)
(* is fixed, so it has one place.  And the cache is the tail of the        *)
(* answers since it was last emptied: an id that is not in it was answered *)
(* before that tail or never.                                              *)
(*                                                                         *)
(* The clock, for every quantum, cap, rate and limit: the loop never steps *)
(* over a queued boundary, loses no work and no time outside a quantum cut *)
(* short, settles effects batch by batch, and drives the queue as          *)
(* BoundaryQueue promises.                                                 *)
(***************************************************************************)
EXTENDS Clock, EngineHost, SequenceTheorems, TLAPS

-----------------------------------------------------------------------------
(* The host. *)

Inv ==
  /\ HostTypeOK
  /\ HostInv
  /\ EffectsStayInTheirCampaign
  /\ RememberedAnswersAreTrue
  /\ RepeatsOnlyBeyondTheLimit

-----------------------------------------------------------------------------
(* The cache. *)

\* Bounded keeps the youngest answers, in their order.
LEMMA BoundedKeepsYoungest ==
  ASSUME NEW s \in Seq(Answer)
  PROVE  /\ Bounded(s) \in Seq(Answer)
         /\ Len(Bounded(s)) = IF Len(s) > RecentLimit THEN RecentLimit ELSE Len(s)
         /\ \A i \in 1..Len(Bounded(s)) :
              Bounded(s)[i] = s[Len(s) - Len(Bounded(s)) + i]
<1>1. CASE Len(s) > RecentLimit
  <2>1. \A i \in Len(s) - RecentLimit + 1 .. Len(s) : s[i] \in Answer
    BY <1>1, RecentLimitAssumption
  <2> DEFINE t == SubSeq(s, Len(s) - RecentLimit + 1, Len(s))
  <2>2. /\ t \in Seq(Answer)
        /\ Len(t) = RecentLimit
        /\ \A i \in 1..RecentLimit : t[i] = s[Len(s) - RecentLimit + i]
    <3>1. Len(s) \in Int /\ Len(s) - RecentLimit + 1 \in Int
      BY RecentLimitAssumption
    <3>2. /\ t \in Seq(Answer)
          /\ Len(t) = IF Len(s) - RecentLimit + 1 <= Len(s)
                      THEN Len(s) - (Len(s) - RecentLimit + 1) + 1 ELSE 0
          /\ \A i \in 1 .. Len(s) - (Len(s) - RecentLimit + 1) + 1 :
               t[i] = s[(Len(s) - RecentLimit + 1) + i - 1]
      <4> HIDE DEF t
      <4>1. t = SubSeq(s, Len(s) - RecentLimit + 1, Len(s))
        BY DEF t
      <4> QED
        BY <2>1, <3>1, <4>1, SubSeqProperties
    <3> QED
      BY <3>1, <3>2, RecentLimitAssumption
  <2> QED
    BY <1>1, <2>2 DEF Bounded
<1>2. CASE ~(Len(s) > RecentLimit)
  BY <1>2 DEF Bounded
<1> QED
  BY <1>1, <1>2

\* Remembering an answer to a request that has none: it becomes the youngest,
\* and the others that are still held are the youngest of those before.
LEMMA RememberAdds ==
  ASSUME NEW s \in Seq(Answer), NEW q \in Request, NEW rev \in Nat,
         answered \in Seq(Ids), Len(s) <= RecentLimit,
         \A i \in 1..Len(s) : s[i].request.id # q.id,
         Remember(s, q, rev)
  PROVE  /\ recent' \in Seq(Answer)
         /\ answered' = Append(answered, q.id)
         /\ Len(recent') = IF Len(s) = RecentLimit THEN RecentLimit ELSE Len(s) + 1
         /\ recent'[Len(recent')] = [request |-> q, rev |-> rev]
         /\ \A i \in 1..Len(recent') - 1 :
              recent'[i] = s[Len(s) + 1 - Len(recent') + i]
<1> DEFINE a == [request |-> q, rev |-> rev]
<1> DEFINE t == Append(s, a)
<1>1. a \in Answer
  BY DEF Answer
<1>2. Without(s, q) = s
  BY SMTT(30) DEF Without
<1>3. recent' = Bounded(t) /\ answered' = Append(answered, q.id)
  BY <1>2 DEF Remember
<1>4. /\ t \in Seq(Answer)
      /\ Len(t) = Len(s) + 1
      /\ t[Len(s) + 1] = a
      /\ \A i \in 1..Len(s) : t[i] = s[i]
  BY <1>1
<1> HIDE DEF t, a
<1>5. /\ Bounded(t) \in Seq(Answer)
      /\ Len(Bounded(t)) = IF Len(t) > RecentLimit THEN RecentLimit ELSE Len(t)
      /\ \A i \in 1..Len(Bounded(t)) : Bounded(t)[i] = t[Len(t) - Len(Bounded(t)) + i]
  BY <1>4, BoundedKeepsYoungest
<1>6. Len(Bounded(t)) = IF Len(s) = RecentLimit THEN RecentLimit ELSE Len(s) + 1
  BY <1>4, <1>5, RecentLimitAssumption
<1>7. Len(Bounded(t)) \in 1..Len(t)
  BY <1>4, <1>6, RecentLimitAssumption
<1>8. Bounded(t)[Len(Bounded(t))] = a
  BY SMTT(30), <1>4, <1>5, <1>7
<1>9. ASSUME NEW i \in 1..Len(Bounded(t)) - 1
      PROVE  Bounded(t)[i] = s[Len(s) + 1 - Len(Bounded(t)) + i]
  <2>1. Len(t) - Len(Bounded(t)) + i \in 1..Len(s)
    BY <1>4, <1>7
  <2> QED
    BY SMTT(30), <1>4, <1>5, <1>7, <2>1
<1> QED
  BY <1>3, <1>5, <1>6, <1>8, <1>9 DEF a

-----------------------------------------------------------------------------
(* Histories. *)

\* A campaign whose revision counts its effects, each in its place and each
\* meant for this campaign.
Good(c) ==
  /\ c \in Campaign
  /\ c.rev = Len(c.log)
  /\ \A i \in 1..Len(c.log) : c.log[i].expects \in {Any, i - 1}
  /\ c.log # <<>> /\ c.log[1].id = c.id /\ c.log[1].type = "create"
  /\ \A i \in 2..Len(c.log) : c.log[i].campaign \in {Any, c.id}

\* The campaigns are good exactly when the invariant's parts about them hold.
LEMMA AllGood ==
  ASSUME campaign \in Campaign \cup {NoCampaign}, saved \subseteq Campaign
  PROVE  (\A c \in Campaigns : Good(c)) <=>
           RevisionsCountEffects /\ GuardedStandInPlace /\ EffectsStayInTheirCampaign
BY NoCampaignAssumption
   DEF Good, Campaigns, RevisionsCountEffects, GuardedStandInPlace,
       EffectsStayInTheirCampaign

\* An effect that expects the revision the campaign is at keeps it good.
LEMMA CommitIsGood ==
  ASSUME NEW c, Good(c), NEW q \in Request,
         q.expects \in {Any, c.rev}, q.campaign \in {Any, c.id}
  PROVE  /\ Good(Commit(c, q))
         /\ Commit(c, q).id = c.id
         /\ Commit(c, q).rev = c.rev + 1
         /\ Commit(c, q).log = Append(c.log, q)
<1>1. /\ c.id \in Ids /\ c.rev \in Nat /\ c.log \in Seq(Request)
      /\ c = [id |-> c.id, rev |-> c.rev, log |-> c.log]
  BY DEF Good, Campaign
<1>2. Commit(c, q) = [id |-> c.id, rev |-> c.rev + 1, log |-> Append(c.log, q)]
  BY <1>1 DEF Commit
<1>3. /\ Append(c.log, q) \in Seq(Request)
      /\ Len(Append(c.log, q)) = Len(c.log) + 1
      /\ \A i \in 1..Len(c.log) : Append(c.log, q)[i] = c.log[i]
      /\ Append(c.log, q)[Len(c.log) + 1] = q
  BY <1>1
<1>4. Len(c.log) >= 1
  BY <1>1 DEF Good
<1>5. \A i \in 1..Len(c.log) + 1 : Append(c.log, q)[i].expects \in {Any, i - 1}
  BY <1>1, <1>3 DEF Good
<1>6. \A i \in 2..Len(c.log) + 1 : Append(c.log, q)[i].campaign \in {Any, c.id}
  BY <1>1, <1>3 DEF Good
<1> QED
  BY <1>1, <1>2, <1>3, <1>4, <1>5, <1>6 DEF Good, Campaign

\* So does the effect that creates it.
LEMMA FreshIsGood ==
  ASSUME NEW q \in Request, q.type = "create", q.expects \in {Any, 0}
  PROVE  LET fresh == Commit([id |-> q.id, rev |-> 0, log |-> <<>>], q)
         IN  Good(fresh) /\ fresh.rev = 1 /\ fresh.log = <<q>>
<1>1. Commit([id |-> q.id, rev |-> 0, log |-> <<>>], q)
        = [id |-> q.id, rev |-> 1, log |-> <<q>>]
  BY DEF Commit
<1>2. q.id \in Ids /\ <<q>> \in Seq(Request) /\ Len(<<q>>) = 1 /\ <<q>>[1] = q
  BY DEF Request
<1>3. [id |-> q.id, rev |-> 1, log |-> <<q>>] \in Campaign
  BY <1>2 DEF Campaign
<1>4. Good([id |-> q.id, rev |-> 1, log |-> <<q>>])
  BY <1>2, <1>3 DEF Good
<1> QED
  BY <1>1, <1>4

-----------------------------------------------------------------------------
(* Answers. *)

\* The part of the invariant that speaks of the cache alone.
CacheInv ==
  /\ recent \in Seq(Answer) /\ Len(recent) <= RecentLimit
  /\ answered \in Seq(Ids) /\ forgotten \in Nat
  /\ AnswersAreTheYoungest
  /\ RepeatsOnlyBeyondTheLimit

\* Answering a request that is not remembered: its last answer, if there was
\* one, is older than all the answers the cache holds.
LEMMA RememberKeepsCache ==
  ASSUME CacheInv, NEW q \in Request, NEW rev \in Nat, ~Remembered(q),
         Remember(recent, q, rev), forgotten' = forgotten
  PROVE  CacheInv'
<1> DEFINE n == Len(answered)
<1> DEFINE k == Len(recent)
<1>0. n \in Nat /\ k \in Nat /\ forgotten \in 0..n
  BY DEF CacheInv, AnswersAreTheYoungest
<1>1. \A i \in 1..k : recent[i].request.id # q.id
  BY DEF CacheInv, Remembered
<1>2. /\ recent' \in Seq(Answer)
      /\ answered' = Append(answered, q.id)
      /\ Len(recent') = IF k = RecentLimit THEN RecentLimit ELSE k + 1
      /\ recent'[Len(recent')] = [request |-> q, rev |-> rev]
      /\ \A i \in 1..Len(recent') - 1 : recent'[i] = recent[k + 1 - Len(recent') + i]
  BY <1>1, RememberAdds DEF CacheInv
<1>3. /\ answered' \in Seq(Ids)
      /\ Len(answered') = n + 1
      /\ \A i \in 1..n : answered'[i] = answered[i]
      /\ answered'[n + 1] = q.id
  BY <1>2 DEF CacheInv, Request
<1>4. /\ k = IF n - forgotten > RecentLimit THEN RecentLimit ELSE n - forgotten
      /\ \A i \in 1..k : recent[i].request.id = answered[n - k + i]
  BY DEF CacheInv, AnswersAreTheYoungest
<1>5. Len(recent') = IF n + 1 - forgotten > RecentLimit THEN RecentLimit ELSE n + 1 - forgotten
  BY <1>0, <1>2, <1>4, RecentLimitAssumption
<1>6. ASSUME NEW i \in 1..Len(recent')
      PROVE  recent'[i].request.id = answered'[n + 1 - Len(recent') + i]
  <2>1. CASE i = Len(recent')
    BY SMTT(30), <1>0, <1>2, <1>3, <2>1
  <2>2. CASE i # Len(recent')
    <3>1. i \in 1..Len(recent') - 1
      BY <1>2, <2>2
    <3>2. k + 1 - Len(recent') + i \in 1..k
      BY <1>0, <1>2, <3>1, RecentLimitAssumption
    <3>3. recent'[i].request.id = answered[n - k + (k + 1 - Len(recent') + i)]
      BY <1>2, <1>4, <3>1, <3>2
    <3>4. n - k + (k + 1 - Len(recent') + i) = n + 1 - Len(recent') + i
      BY <1>0, <1>5, RecentLimitAssumption
    <3>5. n + 1 - Len(recent') + i \in 1..n
      BY <1>0, <1>4, <3>2, <3>4, RecentLimitAssumption
    <3> QED
      BY <1>3, <3>3, <3>4, <3>5
  <2> QED
    BY <2>1, <2>2
<1>7. AnswersAreTheYoungest'
  <2>1. Len(answered') - forgotten' = n + 1 - forgotten /\ n + 1 - forgotten >= 0
    BY <1>0, <1>3
  <2>2. \A i \in 1..Len(recent') :
          recent'[i].request.id = answered'[Len(answered') - Len(recent') + i]
    BY <1>3, <1>6
  <2> HIDE DEF n, k
  <2> QED
    BY <1>5, <2>1, <2>2 DEF AnswersAreTheYoungest
<1>8. ASSUME NEW i \in (forgotten + 1)..(n + 1), NEW j \in (forgotten + 1)..(n + 1),
             i < j, answered'[i] = answered'[j]
      PROVE  j - i > RecentLimit
  <2>1. CASE j <= n
    BY <1>0, <1>3, <1>8, <2>1 DEF CacheInv, RepeatsOnlyBeyondTheLimit
  <2>2. CASE j = n + 1
    <3>1. answered[i] = q.id /\ i \in 1..n
      BY <1>0, <1>3, <1>8, <2>2
    <3>2. i <= n - k
      <4> SUFFICES ASSUME i > n - k PROVE FALSE
        BY <1>0, <3>1
      <4>1. i - (n - k) \in 1..k
        BY <1>0, <3>1
      <4>2. recent[i - (n - k)].request.id = answered[n - k + (i - (n - k))]
        BY <1>4, <4>1
      <4>3. n - k + (i - (n - k)) = i
        BY <1>0, <3>1
      <4> QED
        BY <1>1, <3>1, <4>1, <4>2, <4>3
    <3>3. k = RecentLimit
      BY <1>0, <1>4, <3>2, RecentLimitAssumption
    <3> QED
      BY <1>0, <2>2, <3>2, <3>3, RecentLimitAssumption
  <2> QED
    BY <1>0, <2>1, <2>2
<1>9. RepeatsOnlyBeyondTheLimit'
  BY <1>0, <1>3, <1>8 DEF RepeatsOnlyBeyondTheLimit
<1> QED
  BY <1>2, <1>3, <1>7, <1>9, RecentLimitAssumption DEF CacheInv

\* When the campaign leaves the session, the answer that says so stays alone.
LEMMA RememberOnlyKeepsCache ==
  ASSUME CacheInv, NEW q \in Request, RememberOnly(q)
  PROVE  /\ CacheInv'
         /\ Len(recent') = 1
         /\ recent'[1] = [request |-> q, rev |-> 0]
<1>1. /\ <<>> \in Seq(Answer) /\ Len(<<>>) = 0 /\ 0 \in Nat
      /\ answered \in Seq(Ids) /\ Remember(<<>>, q, 0) /\ Len(<<>>) <= RecentLimit
      /\ forgotten' = Len(answered)
  BY RecentLimitAssumption DEF CacheInv, RememberOnly
<1>2. /\ recent' \in Seq(Answer)
      /\ answered' = Append(answered, q.id)
      /\ Len(recent') = IF 0 = RecentLimit THEN RecentLimit ELSE 0 + 1
      /\ recent'[Len(recent')] = [request |-> q, rev |-> 0]
  <2> DEFINE none == <<>>
  <2>1. /\ none \in Seq(Answer) /\ Len(none) = 0 /\ Remember(none, q, 0)
        /\ Len(none) <= RecentLimit
        /\ \A i \in 1..Len(none) : none[i].request.id # q.id
    BY <1>1
  <2> HIDE DEF none
  <2> QED
    BY <1>1, <2>1, RememberAdds
<1>3. Len(recent') = 1 /\ recent'[1].request.id = q.id
  BY <1>2, RecentLimitAssumption
<1>4. /\ answered' \in Seq(Ids)
      /\ Len(answered') = Len(answered) + 1
      /\ answered'[Len(answered) + 1] = q.id
      /\ Len(answered) \in Nat
  BY <1>1, <1>2 DEF Request
<1>5. AnswersAreTheYoungest'
  <2>1. Len(answered') - forgotten' = 1
    BY <1>1, <1>4
  <2>2. \A i \in 1..Len(recent') :
          recent'[i].request.id = answered'[Len(answered') - Len(recent') + i]
    BY <1>3, <1>4
  <2> QED
    BY <1>3, <2>1, <2>2, RecentLimitAssumption DEF AnswersAreTheYoungest
<1>6. RepeatsOnlyBeyondTheLimit'
  BY <1>1, <1>4 DEF RepeatsOnlyBeyondTheLimit
<1> QED
  BY <1>1, <1>2, <1>3, <1>4, <1>5, <1>6, RecentLimitAssumption DEF CacheInv

\* Every answer held after remembering one is that one or was held before.
LEMMA RememberedElements ==
  ASSUME CacheInv, NEW q \in Request, NEW rev \in Nat, ~Remembered(q),
         Remember(recent, q, rev)
  PROVE  \A i \in DOMAIN recent' :
           \/ recent'[i] = [request |-> q, rev |-> rev]
           \/ \E j \in DOMAIN recent : recent'[i] = recent[j]
<1>1. \A i \in 1..Len(recent) : recent[i].request.id # q.id
  BY DEF CacheInv, Remembered
<1>2. /\ recent' \in Seq(Answer)
      /\ Len(recent') = IF Len(recent) = RecentLimit THEN RecentLimit ELSE Len(recent) + 1
      /\ recent'[Len(recent')] = [request |-> q, rev |-> rev]
      /\ \A i \in 1..Len(recent') - 1 :
           recent'[i] = recent[Len(recent) + 1 - Len(recent') + i]
  BY <1>1, RememberAdds DEF CacheInv
<1>3. ASSUME NEW i \in 1..Len(recent') - 1
      PROVE  Len(recent) + 1 - Len(recent') + i \in 1..Len(recent)
  BY <1>2, RecentLimitAssumption DEF CacheInv
<1>4. DOMAIN recent' = 1..Len(recent') /\ DOMAIN recent = 1..Len(recent)
  BY <1>2 DEF CacheInv
<1>5. TAKE i \in DOMAIN recent'
<1>6. CASE i = Len(recent')
  BY <1>2, <1>6
<1>7. CASE i # Len(recent')
  <2>1. i \in 1..Len(recent') - 1
    BY <1>2, <1>4, <1>7
  <2> QED
    BY <1>2, <1>3, <1>4, <2>1
<1> QED
  BY <1>6, <1>7

-----------------------------------------------------------------------------
(* The invariant. *)

Typed ==
  /\ campaign \in Campaign \cup {NoCampaign}
  /\ saved \subseteq Campaign
  /\ sent \subseteq Request
  /\ nextId \in Ids

LEMMA InvIsItsParts ==
  Inv <=> /\ Typed
          /\ \A c \in Campaigns : Good(c)
          /\ CacheInv
          /\ RememberedAnswersAreTrue
BY AllGood DEF Inv, HostTypeOK, Typed, HostInv, CacheInv

\* The initial state has no campaign, no answers and no saves.
LEMMA InitInv == HostInit => Inv
<1> SUFFICES ASSUME HostInit PROVE Inv
  OBVIOUS
<1>1. Typed /\ Campaigns = {}
  BY DEF HostInit, Typed, Campaigns, Ids
<1>2. CacheInv
  BY RecentLimitAssumption
     DEF HostInit, CacheInv, AnswersAreTheYoungest, RepeatsOnlyBeyondTheLimit
<1>3. RememberedAnswersAreTrue
  BY DEF HostInit, RememberedAnswersAreTrue
<1> QED
  BY <1>1, <1>2, <1>3, InvIsItsParts

\* A handler that leaves the remembered answers in place: the campaign they
\* speak of only gains effects, and the new answer speaks of it too.
LEMMA AnswersStayTrue ==
  ASSUME Typed, CacheInv, RememberedAnswersAreTrue,
         NEW q \in Request, NEW rev \in Nat, ~Remembered(q),
         Remember(recent, q, rev),
         SpeaksOf([request |-> q, rev |-> rev], campaign'),
         \A a \in Answer : SpeaksOf(a, campaign) => SpeaksOf(a, campaign')
  PROVE  RememberedAnswersAreTrue'
<1>1. \A i \in DOMAIN recent' :
        \/ recent'[i] = [request |-> q, rev |-> rev]
        \/ \E j \in DOMAIN recent : recent'[i] = recent[j]
  BY RememberedElements
<1>2. \A j \in DOMAIN recent : recent[j] \in Answer
  BY DEF CacheInv
<1>3. ASSUME NEW i \in DOMAIN recent'
      PROVE  recent'[i].request.type \in {"close", "reset"} \/ SpeaksOf(recent'[i], campaign')
  <2>1. CASE recent'[i] = [request |-> q, rev |-> rev]
    BY <2>1
  <2>2. CASE \E j \in DOMAIN recent : recent'[i] = recent[j]
    BY <1>2, <2>2 DEF RememberedAnswersAreTrue
  <2> QED
    BY <1>1, <2>1, <2>2
<1> QED
  BY <1>3 DEF RememberedAnswersAreTrue, SpeaksOf

\* Each step of the host keeps the invariant.
LEMMA NextInv == Inv /\ [HostNext]_hostVars => Inv'
<1> SUFFICES ASSUME Inv, [HostNext]_hostVars PROVE Inv'
  OBVIOUS
<1>1. Typed /\ (\A c \in Campaigns : Good(c)) /\ CacheInv /\ RememberedAnswersAreTrue
  BY InvIsItsParts
<1>2. SUFFICES Typed' /\ (\A c \in Campaigns' : Good(c)) /\ CacheInv'
               /\ RememberedAnswersAreTrue'
  <2>1. RevisionsCountEffects' /\ GuardedStandInPlace' /\ EffectsStayInTheirCampaign'
    BY <1>2, NoCampaignAssumption
       DEF Good, Campaigns, Typed, RevisionsCountEffects, GuardedStandInPlace,
           EffectsStayInTheirCampaign
  <2> QED
    BY <1>2, <2>1 DEF Inv, HostTypeOK, Typed, HostInv, CacheInv
<1>3. ASSUME NEW q \in sent, Reaches(q)
      PROVE  q \in Request /\ ~Remembered(q)
  BY <1>1, <1>3 DEF Typed, Reaches
<1>4. ASSUME UNCHANGED <<campaign, recent, saved, answered, forgotten>>
      PROVE  /\ \A c \in Campaigns' : Good(c)
             /\ CacheInv' /\ RememberedAnswersAreTrue'
  BY <1>1, <1>4
     DEF Campaigns, CacheInv, AnswersAreTheYoungest, RepeatsOnlyBeyondTheLimit,
         RememberedAnswersAreTrue, SpeaksOf
<1>5. ASSUME NEW type \in Types, NEW guarded \in BOOLEAN, Send(type, guarded)
      PROVE  Typed'
  <2> DEFINE q == [id |-> nextId, type |-> type,
                   campaign |-> IF guarded THEN campaign.id ELSE Any,
                   expects  |-> IF guarded THEN campaign.rev ELSE Any]
  <2>1. guarded => campaign \in Campaign
    BY <1>1, <1>5 DEF Send, Open, Typed
  <2>2. q \in Request
    BY <1>1, <2>1 DEF Request, Campaign, Typed
  <2>3. sent' = sent \cup {q} /\ nextId' = nextId + 1 /\ UNCHANGED <<campaign, saved>>
    BY <1>5 DEF Send
  <2> QED
    BY <1>1, <2>2, <2>3 DEF Typed, Ids
<1>6. ASSUME NEW q \in sent, Create(q)
      PROVE  Typed' /\ (\A c \in Campaigns' : Good(c)) /\ CacheInv' /\ RememberedAnswersAreTrue'
  <2> DEFINE fresh == Commit([id |-> q.id, rev |-> 0, log |-> <<>>], q)
  <2>1. /\ q \in Request /\ ~Remembered(q) /\ q.type = "create" /\ ~Open
        /\ q.expects \in {Any, 0}
    BY <1>3, <1>6 DEF Create, Commands, IsCurrent, Revision
  <2>2. /\ campaign' = fresh /\ saved' \in {saved, saved \cup {fresh}}
        /\ Remember(recent, q, 1) /\ UNCHANGED <<sent, nextId, forgotten>>
    BY <1>6 DEF Create, Captured
  <2>3. Good(fresh) /\ fresh.rev = 1 /\ fresh.log = <<q>>
    BY <2>1, FreshIsGood
  <2>4. Typed' /\ \A c \in Campaigns' : Good(c)
    <3> HIDE DEF fresh
    <3> QED
      BY <1>1, <2>2, <2>3 DEF Typed, Campaigns, Good
  <2>5. CacheInv'
    BY <1>1, <2>1, <2>2, RememberKeepsCache
  <2>6. SpeaksOf([request |-> q, rev |-> 1], campaign')
    <3>1. campaign' # NoCampaign
      BY <2>2, <2>3, NoCampaignAssumption DEF Good
    <3> HIDE DEF fresh
    <3> QED
      BY <2>2, <2>3, <3>1 DEF SpeaksOf
  <2>7. \A a \in Answer : ~SpeaksOf(a, campaign)
    BY <2>1 DEF SpeaksOf, Open
  <2>8. RememberedAnswersAreTrue'
    BY <1>1, <2>1, <2>2, <2>6, <2>7, AnswersStayTrue
  <2> QED
    BY <2>4, <2>5, <2>8
<1>7. ASSUME NEW q \in sent, Order(q)
      PROVE  Typed' /\ (\A c \in Campaigns' : Good(c)) /\ CacheInv' /\ RememberedAnswersAreTrue'
  <2>1. /\ q \in Request /\ ~Remembered(q) /\ Open /\ q.type = "order"
        /\ q.expects \in {Any, campaign.rev} /\ q.campaign \in {Any, campaign.id}
    BY <1>3, <1>7 DEF Order, Commands, IsCurrent, Revision, Reaches, IsForThisCampaign
  <2>2. /\ campaign' = Commit(campaign, q) /\ saved' = saved
        /\ Remember(recent, q, campaign.rev + 1) /\ UNCHANGED <<sent, nextId, forgotten>>
    BY <1>7 DEF Order
  <2>3. Good(campaign)
    BY <1>1, <2>1 DEF Campaigns, Open
  <2>4. /\ Good(campaign') /\ campaign'.rev = campaign.rev + 1
        /\ campaign'.log = Append(campaign.log, q)
    BY <2>1, <2>2, <2>3, CommitIsGood
  <2>5. Typed' /\ \A c \in Campaigns' : Good(c)
    BY <1>1, <2>2, <2>4 DEF Typed, Campaigns, Good
  <2>6. /\ campaign.rev \in Nat /\ campaign.rev = Len(campaign.log)
        /\ campaign.log \in Seq(Request) /\ campaign' # NoCampaign
    BY <2>3, <2>4, NoCampaignAssumption DEF Good, Campaign
  <2>7. CacheInv'
    BY <1>1, <2>1, <2>2, <2>6, RememberKeepsCache
  <2>8. /\ \A i \in 1..campaign.rev : campaign'.log[i] = campaign.log[i]
        /\ campaign'.log[campaign.rev + 1] = q
    BY <2>4, <2>6
  <2>9. SpeaksOf([request |-> q, rev |-> campaign.rev + 1], campaign')
    BY <2>4, <2>6, <2>8 DEF SpeaksOf
  <2>10. \A a \in Answer : SpeaksOf(a, campaign) => SpeaksOf(a, campaign')
    BY <2>4, <2>6, <2>8 DEF SpeaksOf
  <2>11. RememberedAnswersAreTrue'
    BY <1>1, <2>1, <2>2, <2>6, <2>9, <2>10, AnswersStayTrue
  <2> QED
    BY <2>5, <2>7, <2>11
<1>8. ASSUME NEW q \in sent, Save(q)
      PROVE  Typed' /\ (\A c \in Campaigns' : Good(c)) /\ CacheInv' /\ RememberedAnswersAreTrue'
  <2>1. q \in Request /\ ~Remembered(q) /\ Open /\ q.type = "save"
    BY <1>3, <1>8 DEF Save
  <2>2. /\ saved' \in {saved, saved \cup {campaign}} /\ Remember(recent, q, campaign.rev)
        /\ UNCHANGED <<campaign, sent, nextId, forgotten>>
    BY <1>8 DEF Save, Captured
  <2>3. Good(campaign)
    BY <1>1, <2>1 DEF Campaigns, Open
  <2>4. Typed' /\ \A c \in Campaigns' : Good(c)
    BY <1>1, <2>2, <2>3 DEF Typed, Campaigns, Good
  <2>5. campaign.rev \in Nat /\ campaign.rev >= 1
    BY <2>3 DEF Good, Campaign
  <2>6. CacheInv'
    BY <1>1, <2>1, <2>2, <2>5, RememberKeepsCache
  <2>7. SpeaksOf([request |-> q, rev |-> campaign.rev], campaign')
    BY <2>1, <2>2, <2>5 DEF SpeaksOf, Open
  <2>8. RememberedAnswersAreTrue'
    BY <1>1, <2>1, <2>2, <2>5, <2>7, AnswersStayTrue
  <2> QED
    BY <2>4, <2>6, <2>8
<1>9. ASSUME NEW q \in sent, Resume(q)
      PROVE  Typed' /\ (\A c \in Campaigns' : Good(c)) /\ CacheInv' /\ RememberedAnswersAreTrue'
  <2>1. q \in Request /\ ~Remembered(q) /\ ~Open /\ q.type = "resume"
    BY <1>3, <1>9 DEF Resume, Commands
  <2>2. PICK c \in saved : campaign' = c /\ Remember(recent, q, c.rev)
    BY <1>9 DEF Resume, Restore
  <2>3. UNCHANGED <<saved, sent, nextId, forgotten>>
    BY <1>9 DEF Resume
  <2>4. c # NoCampaign /\ Good(c)
    BY <1>1, NoCampaignAssumption DEF Typed, Campaigns
  <2>5. Typed' /\ \A d \in Campaigns' : Good(d)
    BY <1>1, <2>2, <2>3, <2>4 DEF Typed, Campaigns, Good
  <2>6. c.rev \in Nat /\ c.rev >= 1
    BY <2>4 DEF Good, Campaign
  <2>7. CacheInv'
    BY <1>1, <2>1, <2>2, <2>3, <2>6, RememberKeepsCache
  <2>8. SpeaksOf([request |-> q, rev |-> c.rev], campaign')
    BY <2>1, <2>2, <2>4, <2>6 DEF SpeaksOf
  <2>9. \A a \in Answer : ~SpeaksOf(a, campaign)
    BY <2>1 DEF SpeaksOf, Open
  <2>10. RememberedAnswersAreTrue'
    BY <1>1, <2>1, <2>2, <2>6, <2>8, <2>9, AnswersStayTrue
  <2> QED
    BY <2>5, <2>7, <2>10
<1>10. ASSUME NEW q \in sent, Close(q) \/ Reset(q)
       PROVE  Typed' /\ (\A c \in Campaigns' : Good(c)) /\ CacheInv' /\ RememberedAnswersAreTrue'
  <2>1. q \in Request /\ Open /\ q.type \in {"close", "reset"}
    BY <1>3, <1>10 DEF Close, Reset, Commands
  <2>2. /\ campaign' = NoCampaign /\ saved' \subseteq saved \cup {campaign}
        /\ RememberOnly(q) /\ UNCHANGED <<sent, nextId>>
    BY <1>10 DEF Close, Reset, Captured
  <2>3. Good(campaign)
    BY <1>1, <2>1 DEF Campaigns, Open
  <2>4. Typed' /\ \A c \in Campaigns' : Good(c)
    BY <1>1, <2>2, <2>3 DEF Typed, Campaigns, Good
  <2>5. CacheInv' /\ Len(recent') = 1 /\ recent'[1] = [request |-> q, rev |-> 0]
    BY <1>1, <2>1, <2>2, RememberOnlyKeepsCache
  <2>6. \A i \in DOMAIN recent' : recent'[i].request.type \in {"close", "reset"}
    BY <2>1, <2>5 DEF CacheInv
  <2>7. RememberedAnswersAreTrue'
    BY <2>6 DEF RememberedAnswersAreTrue
  <2> QED
    BY <2>4, <2>5, <2>7
<1>11. ASSUME Restart
       PROVE  Typed' /\ (\A c \in Campaigns' : Good(c)) /\ CacheInv' /\ RememberedAnswersAreTrue'
  <2>1. /\ campaign' = NoCampaign /\ recent' = <<>> /\ sent' = {}
        /\ forgotten' = Len(answered) /\ UNCHANGED <<saved, nextId, answered>>
    BY <1>11 DEF Restart
  <2>2. Typed' /\ \A c \in Campaigns' : Good(c)
    BY <1>1, <2>1 DEF Typed, Campaigns
  <2>3. CacheInv'
    BY <1>1, <2>1, RecentLimitAssumption
       DEF CacheInv, AnswersAreTheYoungest, RepeatsOnlyBeyondTheLimit
  <2>4. RememberedAnswersAreTrue'
    BY <2>1 DEF RememberedAnswersAreTrue
  <2> QED
    BY <2>2, <2>3, <2>4
<1>12. CASE UNCHANGED hostVars
  BY <1>1, <1>4, <1>12 DEF hostVars, Typed
<1>13. ASSUME NEW type \in Types, NEW guarded \in BOOLEAN, Send(type, guarded)
       PROVE  UNCHANGED <<campaign, recent, saved, answered, forgotten>>
  BY <1>13 DEF Send
<1> QED
  BY <1>4, <1>5, <1>6, <1>7, <1>8, <1>9, <1>10, <1>11, <1>12, <1>13 DEF HostNext

-----------------------------------------------------------------------------
(* Theorems. *)

\* Every reachable state satisfies the invariant.
THEOREM HostInvariantHolds == HostSpec => []Inv
BY InitInv, NextInv, PTL DEF HostSpec

\* Every reachable state of the host is well typed, its cache within the limit.
THEOREM HostTypeCorrect == HostSpec => []HostTypeOK
<1>1. Inv => HostTypeOK
  BY DEF Inv
<1> QED
  BY <1>1, HostInvariantHolds, PTL

\* A guarded effect has one place in a history: that of the revision it expects.
LEMMA PlacedIsOnce == HostTypeOK /\ GuardedStandInPlace => GuardedAppliesOnce
<1> SUFFICES ASSUME GuardedStandInPlace, HostTypeOK,
                    NEW c \in Campaigns, NEW i \in 1..Len(c.log), NEW j \in 1..Len(c.log),
                    c.log[i].expects # Any, c.log[i] = c.log[j]
             PROVE  i = j
  BY DEF GuardedAppliesOnce
<1>1. c \in Campaign
  BY DEF HostTypeOK, Campaigns
<1>2. c.log[i].expects = i - 1 /\ c.log[j].expects = j - 1
  BY DEF GuardedStandInPlace
<1>3. i \in Int /\ j \in Int
  BY <1>1 DEF Campaign
<1> QED
  BY <1>2, <1>3

\* A command sent with the revision it was decided at never takes effect twice
\* in one campaign, however often and however late it is delivered.
THEOREM GuardedOnce == HostSpec => []GuardedAppliesOnce
<1>1. Inv => GuardedAppliesOnce
  BY PlacedIsOnce DEF Inv, HostInv
<1> QED
  BY <1>1, HostInvariantHolds, PTL

\* A command that names its campaign never takes effect in another.
THEOREM EffectsStay == HostSpec => []EffectsStayInTheirCampaign
<1>1. Inv => EffectsStayInTheirCampaign
  BY DEF Inv
<1> QED
  BY <1>1, HostInvariantHolds, PTL

\* What the cache answers is what the open campaign says.
THEOREM AnswersAreTrue == HostSpec => []RememberedAnswersAreTrue
<1>1. Inv => RememberedAnswersAreTrue
  BY DEF Inv
<1> QED
  BY <1>1, HostInvariantHolds, PTL

\* While no campaign leaves the session, only a request as old as the cache is
\* long can be answered afresh.
THEOREM RepeatsAreOld == HostSpec => []RepeatsOnlyBeyondTheLimit
<1>1. Inv => RepeatsOnlyBeyondTheLimit
  BY DEF Inv
<1> QED
  BY <1>1, HostInvariantHolds, PTL

\* One step of the host adds one effect to the open campaign, or none.
LEMMA StepGrows ==
  ASSUME Inv, [HostNext]_hostVars, Open, campaign' # NoCampaign
  PROVE  /\ campaign'.id = campaign.id
         /\ \/ campaign' = campaign
            \/ /\ campaign'.rev = campaign.rev + 1
               /\ campaign.log = SubSeq(campaign'.log, 1, campaign.rev)
<1>1. campaign \in Campaigns
  BY DEF Open, Campaigns
<1>2. Good(campaign)
  BY <1>1, InvIsItsParts
<1>3. CASE campaign' = campaign
  BY <1>3
<1>4. ASSUME NEW q \in sent, Order(q)
      PROVE  /\ campaign'.id = campaign.id
             /\ campaign'.rev = campaign.rev + 1
             /\ campaign.log = SubSeq(campaign'.log, 1, campaign.rev)
  <2>1. /\ campaign' = Commit(campaign, q) /\ q \in Request
        /\ q.expects \in {Any, campaign.rev} /\ q.campaign \in {Any, campaign.id}
    BY <1>4, InvIsItsParts
       DEF Order, Commands, IsCurrent, Revision, Reaches, IsForThisCampaign, Typed
  <2>2. /\ campaign'.id = campaign.id /\ campaign'.rev = campaign.rev + 1
        /\ campaign'.log = Append(campaign.log, q)
    BY <1>2, <2>1, CommitIsGood
  <2>3. campaign.log \in Seq(Request) /\ campaign.rev = Len(campaign.log)
    BY <1>2 DEF Good, Campaign
  <2>4. SubSeq(Append(campaign.log, q), 1, Len(campaign.log)) = campaign.log
    BY <2>1, <2>3
  <2> QED
    BY <2>2, <2>3, <2>4
<1> QED
  BY <1>3, <1>4
     DEF HostNext, Send, Create, Save, Close, Reset, Resume, Restart, hostVars

\* The open campaign is never swapped or rewritten.
THEOREM HistoryGrows == HostSpec => HistoryOnlyGrows
<1>1. Inv /\ [HostNext]_hostVars =>
        [Open /\ campaign' # NoCampaign =>
           /\ campaign'.id = campaign.id
           /\ \/ campaign' = campaign
              \/ /\ campaign'.rev = campaign.rev + 1
                 /\ campaign.log = SubSeq(campaign'.log, 1, campaign.rev)]_hostVars
  BY StepGrows
<1> QED
  BY <1>1, HostInvariantHolds, PTL DEF HostSpec, HistoryOnlyGrows

-----------------------------------------------------------------------------
(* The clock. *)

USE QuantumAssumption, DeltaAssumption, LimitAssumption, BoundAssumption

LEMMA LeastType == ASSUME NEW a \in Nat, NEW b \in Nat PROVE Least(a, b) \in Nat
BY DEF Least

\* What a delta is worth is a natural number; nothing more is used of it.
LEMMA GainType ==
  ASSUME NEW delta \in Deltas, rate \in Rates
  PROVE  Least(delta, MaxFrameDelta) * rate \in Nat
<1>1. Least(delta, MaxFrameDelta) \in Nat /\ rate \in Nat
  BY LeastType
<1>2. \A a, b \in Nat : a * b \in Nat
  OBVIOUS
<1> QED BY <1>1, <1>2

-----------------------------------------------------------------------------
(* Types. *)

LEMMA FinishType ==
  ASSUME TypeOK, FinishQuantum, accumulatorMs >= Quantum
  PROVE  /\ accumulatorMs' \in Nat /\ resolved' \in Nat
         /\ current' \in Entry \cup {NoEntry}
         /\ stage' \in Stages /\ target' \in Nat
BY DEF TypeOK, FinishQuantum, Stages

LEMMA TypeInit == Init => TypeOK
<1> SUFFICES ASSUME Init PROVE TypeOK
  OBVIOUS
<1>1. paused \in BOOLEAN /\ staged \in BOOLEAN /\ cut \in BOOLEAN
  BY Zenon DEF Init
<1>2. entries = {} /\ done = {} /\ cancelled = {} /\ current = NoEntry
  BY DEF Init, QueueInit
<1>3. /\ simulationTimeMs = 0 /\ nextInsertionOrdinal = 1 /\ accumulatorMs = 0 /\ target = 0
      /\ stepEnd = 0 /\ resolved = 0 /\ accepted = 0 /\ stage = "idle" /\ rate \in Rates
  BY DEF Init, QueueInit
<1> QED BY <1>1, <1>2, <1>3 DEF TypeOK, Stages

LEMMA TypeStep == TypeOK /\ ClockInv /\ [Next]_vars => TypeOK'
<1> SUFFICES ASSUME TypeOK, ClockInv, [Next]_vars PROVE TypeOK'
  OBVIOUS
<1> USE DEF queueVars, loopVars, settingVars, history
<1>1. ASSUME NEW due \in 0..MaxDue, NEW p \in Priorities, NEW o \in Owners \cup {NoOwner},
             ScheduleWork(due, p, o)
      PROVE  TypeOK'
  <2>1. NewEntry(due, p, o) \in Entry
    BY DEF NewEntry, Entry, TypeOK
  <2> QED BY <1>1, <2>1 DEF ScheduleWork, Schedule, TypeOK
<1>2. ASSUME NEW ordinals, CancelWork(ordinals) PROVE TypeOK'
  BY <1>2 DEF CancelWork, Cancel, TypeOK, Entry
<1>3. ASSUME NEW pause \in BOOLEAN, NEW r \in Rates, SetTime(pause, r) PROVE TypeOK'
  <2>1. paused' \in BOOLEAN
    BY <1>3, Zenon DEF SetTime
  <2>2. rate' \in Rates
    BY <1>3 DEF SetTime
  <2>3. UNCHANGED <<simulationTimeMs, entries, nextInsertionOrdinal, accumulatorMs, stage, target,
                    stepEnd, resolved, current, staged, accepted, done, cancelled, cut>>
    BY <1>3 DEF SetTime
  <2> QED BY <2>1, <2>2, <2>3 DEF TypeOK
<1>4. ASSUME NEW delta \in Deltas, Advance(delta) PROVE TypeOK'
  <2>1. Least(delta, MaxFrameDelta) * rate \in Nat
    BY GainType DEF TypeOK
  <2>2. PICK gain \in Nat : accumulatorMs' = accumulatorMs + gain /\ accepted' = accepted + gain
    BY <1>4, <2>1 DEF Advance
  <2>3. accumulatorMs' \in Nat /\ accepted' \in Nat
    BY <2>2 DEF TypeOK
  <2>4. stage' \in Stages /\ target' \in Nat
    BY <1>4 DEF Advance, TypeOK, Stages
  <2>5. UNCHANGED <<simulationTimeMs, entries, nextInsertionOrdinal, paused, rate, stepEnd,
                    resolved, current, staged, done, cancelled, cut>>
    BY <1>4 DEF Advance
  <2> QED BY <2>3, <2>4, <2>5 DEF TypeOK
<1>5. CASE BeginStep
  <2>1. accumulatorMs >= Quantum
    BY <1>5 DEF BeginStep, ClockInv, TimeIsBudgeted
  <2>2. UNCHANGED <<simulationTimeMs, entries, nextInsertionOrdinal, paused, rate, staged,
                    accepted, done, cancelled, cut>>
    BY <1>5 DEF BeginStep
  <2>3. CASE simulationTimeMs < target \/ NextIsDueAt(target)
    <3>1. stepEnd' \in Nat
      <4>1. (\E e \in entries : stepEnd' = Least(e.dueAtMs, target)) \/ stepEnd' = target
        BY <1>5, <2>3 DEF BeginStep
      <4>2. \A e \in entries : e.dueAtMs \in Nat
        BY DEF TypeOK, Entry
      <4> QED BY <4>1, <4>2 DEF TypeOK, Least
    <3>2. stage' \in Stages /\ UNCHANGED <<accumulatorMs, target, resolved, current>>
      BY <1>5, <2>3 DEF BeginStep, Stages
    <3> QED BY <2>2, <3>1, <3>2 DEF TypeOK
  <2>4. CASE ~(simulationTimeMs < target \/ NextIsDueAt(target))
    <3>1. FinishQuantum /\ stepEnd' = stepEnd
      BY <1>5, <2>4 DEF BeginStep
    <3> QED BY <2>1, <2>2, <3>1, FinishType DEF TypeOK
  <2> QED BY <2>3, <2>4
<1>6. CASE EndInterval
  BY <1>6 DEF EndInterval, TypeOK, Stages
<1>7. CASE TakeNothing
  <2>1. accumulatorMs >= Quantum
    BY <1>7 DEF TakeNothing, ClockInv, TimeIsBudgeted
  <2>2. UNCHANGED <<simulationTimeMs, entries, nextInsertionOrdinal, paused, rate, stepEnd,
                    staged, accepted, done, cancelled, cut>>
    BY <1>7 DEF TakeNothing
  <2>3. \/ FinishQuantum
        \/ stage' = "head" /\ UNCHANGED <<accumulatorMs, target, resolved, current>>
    BY <1>7 DEF TakeNothing
  <2> QED BY <2>1, <2>2, <2>3, FinishType DEF TypeOK, Stages
<1>8. ASSUME NEW e \in entries, TakeBoundary(e) PROVE TypeOK'
  <2>1. accumulatorMs >= Quantum /\ e \in Entry
    BY <1>8 DEF TakeBoundary, ClockInv, TimeIsBudgeted, TypeOK
  <2>2. /\ entries' = entries \ {e}
        /\ UNCHANGED <<nextInsertionOrdinal, paused, rate, stepEnd, staged, accepted, cancelled>>
    BY <1>8 DEF TakeBoundary
  <2>3. \/ FinishQuantum /\ cut' = TRUE /\ UNCHANGED <<simulationTimeMs, done>>
        \/ /\ simulationTimeMs' = e.dueAtMs /\ stage' = "resolve" /\ current' = e
           /\ done' = done \cup {e.insertionOrdinal}
           /\ UNCHANGED <<accumulatorMs, target, resolved, cut>>
    BY <1>8 DEF TakeBoundary
  <2>4. e.dueAtMs \in Nat /\ e.insertionOrdinal \in Nat
    BY <2>1 DEF Entry
  <2> QED BY <2>1, <2>2, <2>3, <2>4, FinishType DEF TypeOK, Stages
<1>9. CASE EndResolve \/ EndSettle
  <2>1. staged' \in BOOLEAN
    BY <1>9, Zenon DEF EndResolve, EndSettle, TypeOK
  <2>2. stage' \in Stages /\ resolved' \in Nat
    BY <1>9 DEF EndResolve, EndSettle, TypeOK, Stages
  <2>3. UNCHANGED <<queueVars, settingVars, target, stepEnd, current, history>>
    BY <1>9 DEF EndResolve, EndSettle
  <2> QED BY <2>1, <2>2, <2>3 DEF TypeOK
<1>10. CASE UNCHANGED vars
  BY <1>10 DEF vars, TypeOK
<1> QED BY <1>1, <1>2, <1>3, <1>4, <1>5, <1>6, <1>7, <1>8, <1>9, <1>10 DEF Next

-----------------------------------------------------------------------------
(* The invariant. *)

LEMMA InvInit == Init => ClockInv
<1> SUFFICES ASSUME Init PROVE ClockInv
  OBVIOUS
<1>1. /\ simulationTimeMs = 0 /\ nextInsertionOrdinal = 1 /\ accumulatorMs = 0 /\ accepted = 0
      /\ stage = "idle" /\ entries = {} /\ done = {} /\ cancelled = {} /\ staged = FALSE
  BY DEF Init, QueueInit
<1>2. Ordinals = {}
  BY <1>1 DEF Ordinals
<1>3. NothingIsOverdue /\ OrdinalsAreApart /\ EffectsAreSettled
  BY <1>1, <1>2 DEF NothingIsOverdue, OrdinalsAreApart, EffectsAreSettled
<1>4. WorkIsAccountedFor
  BY <1>1, <1>2 DEF WorkIsAccountedFor
<1>5. TimeIsKept /\ LoopIsInStep /\ TimeIsBudgeted
  BY <1>1 DEF TimeIsKept, LoopIsInStep, TimeIsBudgeted
<1> QED BY <1>3, <1>4, <1>5 DEF ClockInv

\* A step that leaves the queue and the histories of work alone loses none.
LEMMA WorkUnchanged ==
  ASSUME WorkIsAccountedFor, OrdinalsAreApart,
         UNCHANGED <<entries, nextInsertionOrdinal, done, cancelled, cut>>
  PROVE  WorkIsAccountedFor' /\ OrdinalsAreApart'
BY DEF WorkIsAccountedFor, OrdinalsAreApart, Ordinals

\* What is queued is due between the simulation time and later.
LEMMA DueType ==
  ASSUME TypeOK
  PROVE  \A e \in entries : e.dueAtMs \in Nat /\ e.insertionOrdinal \in Nat
BY DEF TypeOK, Entry

\* A quantum that ends whole, or is cut short, leaves the loop in step.
LEMMA FinishInv ==
  ASSUME TypeOK, ClockInv, stage # "idle", FinishQuantum,
         UNCHANGED <<simulationTimeMs, accepted, staged>>,
         ~cut' => ~cut /\ simulationTimeMs = target /\ ~staged
  PROVE  TimeIsKept' /\ EffectsAreSettled' /\ LoopIsInStep' /\ TimeIsBudgeted'
<1> USE DEF TypeOK
<1>1. /\ accumulatorMs >= Quantum
      /\ target + accumulatorMs - Quantum <= MaxDue
      /\ ~cut => target + accumulatorMs - Quantum = accepted
      /\ simulationTimeMs <= target
  BY DEF ClockInv, TimeIsBudgeted, LoopIsInStep
<1>2. /\ accumulatorMs' = accumulatorMs - Quantum
      /\ \/ accumulatorMs' >= Quantum /\ stage' = "head" /\ target' = simulationTimeMs + Quantum
         \/ accumulatorMs' < Quantum /\ stage' = "idle" /\ target' = target
  <2>1. CASE accumulatorMs' >= Quantum
    BY <2>1 DEF FinishQuantum
  <2>2. CASE ~(accumulatorMs' >= Quantum)
    <3>1. accumulatorMs' \in Nat
      BY <1>1 DEF FinishQuantum
    <3> QED BY <2>2, <3>1 DEF FinishQuantum
  <2> QED BY <2>1, <2>2
<1>3. TimeIsKept'
  BY <1>1, <1>2 DEF TimeIsKept
<1>4. EffectsAreSettled'
  BY <1>2 DEF EffectsAreSettled
<1>5. LoopIsInStep'
  BY <1>1, <1>2 DEF LoopIsInStep
<1>6. TimeIsBudgeted'
  BY <1>1, <1>2 DEF TimeIsBudgeted
<1> QED BY <1>3, <1>4, <1>5, <1>6

\* Whoever schedules work leaves the loop in step: it is due no earlier than
\* the stage of the loop permits.
LEMMA ScheduleInv ==
  ASSUME TypeOK, ClockInv,
         NEW due \in 0..MaxDue, NEW p \in Priorities, NEW o \in Owners \cup {NoOwner},
         ScheduleWork(due, p, o)
  PROVE  ClockInv'
<1> DEFINE n == NewEntry(due, p, o)
<1>1. /\ n.dueAtMs = due /\ n.insertionOrdinal = nextInsertionOrdinal
      /\ due \in Nat /\ due >= simulationTimeMs
  BY DEF NewEntry, ScheduleWork, Schedule
<1>2. entries' = entries \cup {n} /\ nextInsertionOrdinal' = nextInsertionOrdinal + 1
  BY DEF ScheduleWork, Schedule
<1>3. UNCHANGED <<simulationTimeMs, accumulatorMs, stage, target, stepEnd, resolved, current,
                  staged, accepted, done, cancelled, cut>>
  BY DEF ScheduleWork, settingVars, loopVars, history
<1>4. due >= Earliest /\ stage \in {"idle", "interval", "resolve", "settle"}
  BY DEF ScheduleWork, Working
<1> HIDE DEF n
<1>5. Ordinals' = Ordinals \cup {nextInsertionOrdinal}
  BY <1>1, <1>2 DEF Ordinals
<1>6. nextInsertionOrdinal \in Nat \ {0}
  BY DEF TypeOK
<1>7. WorkIsAccountedFor'
  <2>1. Ordinals \cup done \cup cancelled \subseteq 1..(nextInsertionOrdinal - 1)
    BY DEF ClockInv, OrdinalsAreApart
  <2>2. 1..nextInsertionOrdinal = 1..(nextInsertionOrdinal - 1) \cup {nextInsertionOrdinal}
    BY <1>6
  <2>3. nextInsertionOrdinal \notin 1..(nextInsertionOrdinal - 1)
    BY <1>6
  <2>4. nextInsertionOrdinal' - 1 = nextInsertionOrdinal
    BY <1>2, <1>6
  <2> QED BY <1>3, <1>5, <2>1, <2>2, <2>3, <2>4 DEF ClockInv, WorkIsAccountedFor
<1>8. OrdinalsAreApart'
  <2>1. \A e \in entries : e.insertionOrdinal # nextInsertionOrdinal
    BY <1>6, DueType DEF ClockInv, OrdinalsAreApart, Ordinals
  <2>2. \A e, f \in entries' : e.insertionOrdinal = f.insertionOrdinal => e = f
    BY <1>1, <1>2, <2>1 DEF ClockInv, OrdinalsAreApart
  <2>3. Ordinals \cup done \cup cancelled \subseteq 1..(nextInsertionOrdinal - 1)
    BY DEF ClockInv, OrdinalsAreApart
  <2>4. (Ordinals \cup done \cup cancelled)' \subseteq 1..(nextInsertionOrdinal' - 1)
    BY <1>2, <1>3, <1>5, <1>6, <2>3
  <2> QED BY <2>2, <2>4 DEF OrdinalsAreApart
<1>9. NothingIsOverdue' /\ TimeIsKept' /\ EffectsAreSettled' /\ TimeIsBudgeted'
  BY <1>1, <1>2, <1>3 DEF ClockInv, NothingIsOverdue, TimeIsKept, EffectsAreSettled, TimeIsBudgeted
<1>10. LoopIsInStep'
  <2>1. stage = "interval" => due >= stepEnd
    BY <1>4, <1>1 DEF Earliest, TypeOK
  <2>2. stage = "settle" => due # simulationTimeMs
    BY <1>4, <1>1 DEF Earliest, TypeOK
  <2>3. stage = "settle" => ~HasDue(simulationTimeMs)'
    BY <1>1, <1>2, <1>3, <2>2 DEF ClockInv, LoopIsInStep, HasDue
  <2>4. stage = "interval" => \A e \in entries' : e.dueAtMs >= stepEnd
    BY <1>1, <1>2, <2>1 DEF ClockInv, LoopIsInStep
  <2> QED BY <1>3, <1>4, <2>3, <2>4 DEF ClockInv, LoopIsInStep
<1> QED BY <1>7, <1>8, <1>9, <1>10 DEF ClockInv

\* Cancelled work leaves the queue for the history of what was cancelled.
LEMMA CancelInv ==
  ASSUME TypeOK, ClockInv, NEW ordinals, CancelWork(ordinals)
  PROVE  ClockInv'
<1>1. /\ entries' = {e \in entries : e.insertionOrdinal \notin ordinals}
      /\ cancelled' = cancelled \cup (Ordinals \cap ordinals)
  BY DEF CancelWork, Cancel, Ordinals
<1>2. UNCHANGED <<simulationTimeMs, nextInsertionOrdinal, accumulatorMs, stage, target, stepEnd,
                  resolved, current, staged, accepted, done, cut>>
  BY DEF CancelWork, Cancel, settingVars, loopVars
<1>3. stage \in {"idle", "interval", "resolve", "settle"}
  BY DEF CancelWork, Working
<1>4. Ordinals' = Ordinals \ ordinals
  BY <1>1 DEF Ordinals
<1>5. WorkIsAccountedFor'
  BY <1>1, <1>2, <1>4 DEF ClockInv, WorkIsAccountedFor
<1>6. OrdinalsAreApart'
  <2>1. \A e, f \in entries' : e.insertionOrdinal = f.insertionOrdinal => e = f
    BY <1>1 DEF ClockInv, OrdinalsAreApart
  <2>2. (Ordinals \cup done \cup cancelled)' \subseteq 1..(nextInsertionOrdinal' - 1)
    BY <1>1, <1>2, <1>4 DEF ClockInv, OrdinalsAreApart
  <2> QED BY <2>1, <2>2 DEF OrdinalsAreApart
<1>7. NothingIsOverdue' /\ TimeIsKept' /\ EffectsAreSettled' /\ TimeIsBudgeted'
  BY <1>1, <1>2 DEF ClockInv, NothingIsOverdue, TimeIsKept, EffectsAreSettled, TimeIsBudgeted
<1>8. LoopIsInStep'
  BY <1>1, <1>2, <1>3 DEF ClockInv, LoopIsInStep, HasDue
<1> QED BY <1>5, <1>6, <1>7, <1>8 DEF ClockInv

\* A step of the loop ends at the first boundary, or at the end of the quantum.
LEMMA StepReaches ==
  ASSUME TypeOK, ClockInv, BeginStep, simulationTimeMs < target \/ NextIsDueAt(target)
  PROVE  /\ stepEnd' \in Nat /\ stepEnd' <= target /\ stepEnd' >= simulationTimeMs
         /\ \A e \in entries : e.dueAtMs >= stepEnd'
<1>1. /\ stage = "head" /\ simulationTimeMs <= target
      /\ \A e \in entries : e.dueAtMs >= simulationTimeMs
  BY DEF BeginStep, ClockInv, LoopIsInStep, NothingIsOverdue
<1>2. simulationTimeMs \in Nat /\ target \in Nat
  BY DEF TypeOK
<1>3. CASE entries = {} /\ stepEnd' = target
  BY <1>1, <1>2, <1>3
<1>4. ASSUME NEW e \in entries, NextIsDueAt(e.dueAtMs), stepEnd' = Least(e.dueAtMs, target)
      PROVE  /\ stepEnd' \in Nat /\ stepEnd' <= target /\ stepEnd' >= simulationTimeMs
             /\ \A f \in entries : f.dueAtMs >= stepEnd'
  BY <1>1, <1>2, <1>4, DueType DEF Least, NextIsDueAt
<1> QED BY <1>3, <1>4 DEF BeginStep

LEMMA BeginInv == ASSUME TypeOK, ClockInv, BeginStep PROVE ClockInv'
<1>1. /\ stage = "head"
      /\ UNCHANGED <<simulationTimeMs, entries, nextInsertionOrdinal, staged, accepted, done,
                     cancelled, cut>>
  BY DEF BeginStep, queueVars, history
<1>2. WorkIsAccountedFor' /\ OrdinalsAreApart'
  BY <1>1, WorkUnchanged DEF ClockInv
<1>3. NothingIsOverdue'
  BY <1>1 DEF ClockInv, NothingIsOverdue
<1>4. CASE simulationTimeMs < target \/ NextIsDueAt(target)
  <2>1. /\ stepEnd' \in Nat /\ stepEnd' <= target /\ stepEnd' >= simulationTimeMs
        /\ \A e \in entries : e.dueAtMs >= stepEnd'
    BY <1>4, StepReaches
  <2>2. UNCHANGED <<accumulatorMs, target, resolved, current>>
    BY <1>4 DEF BeginStep
  <2>3. \/ stage' = "interval" /\ stepEnd' > simulationTimeMs
        \/ stage' = "take" /\ stepEnd' = simulationTimeMs
    <3>1. stage' = IF stepEnd' > simulationTimeMs THEN "interval" ELSE "take"
      BY <1>4 DEF BeginStep
    <3> QED BY <2>1, <3>1 DEF TypeOK
  <2>4. TimeIsKept' /\ TimeIsBudgeted'
    BY <1>1, <2>2, <2>3 DEF ClockInv, TimeIsKept, TimeIsBudgeted
  <2>5. staged /\ ~cut => HasDue(simulationTimeMs)
    BY <1>1 DEF ClockInv, LoopIsInStep
  <2>6. stage' = "interval" => ~HasDue(simulationTimeMs)
    BY <2>1, <2>3, DueType DEF HasDue, TypeOK
  <2>7. EffectsAreSettled'
    BY <1>1, <2>3, <2>5, <2>6 DEF EffectsAreSettled
  <2>8. simulationTimeMs <= target
    BY <1>1 DEF ClockInv, LoopIsInStep
  <2>9. LoopIsInStep'
    BY <1>1, <2>1, <2>2, <2>3, <2>5, <2>8 DEF LoopIsInStep, HasDue
  <2> QED BY <1>2, <1>3, <2>4, <2>7, <2>9 DEF ClockInv
<1>5. CASE ~(simulationTimeMs < target \/ NextIsDueAt(target))
  <2>1. FinishQuantum
    BY <1>5 DEF BeginStep
  <2>2. simulationTimeMs = target
    BY <1>1, <1>5 DEF ClockInv, LoopIsInStep, TypeOK
  <2>3. ~HasDue(simulationTimeMs)
    BY <1>5, <2>2 DEF NextIsDueAt, HasDue, ClockInv, NothingIsOverdue
  <2>4. ~cut => ~staged
    BY <1>1, <2>3 DEF ClockInv, LoopIsInStep
  <2>5. TimeIsKept' /\ EffectsAreSettled' /\ LoopIsInStep' /\ TimeIsBudgeted'
    BY <1>1, <2>1, <2>2, <2>4, FinishInv
  <2> QED BY <1>2, <1>3, <2>5 DEF ClockInv
<1> QED BY <1>4, <1>5

LEMMA IntervalInv == ASSUME TypeOK, ClockInv, EndInterval PROVE ClockInv'
<1>1. /\ stage = "interval" /\ stage' = "take" /\ simulationTimeMs' = stepEnd /\ staged' = FALSE
      /\ UNCHANGED <<entries, nextInsertionOrdinal, accumulatorMs, target, stepEnd, current,
                     accepted, done, cancelled, cut>>
  BY DEF EndInterval, settingVars, history
<1>2. WorkIsAccountedFor' /\ OrdinalsAreApart'
  BY <1>1, WorkUnchanged DEF ClockInv
<1>3. stepEnd <= target /\ \A e \in entries : e.dueAtMs >= stepEnd
  BY <1>1 DEF ClockInv, LoopIsInStep
<1>4. NothingIsOverdue' /\ TimeIsKept' /\ EffectsAreSettled' /\ LoopIsInStep'
  BY <1>1, <1>3 DEF NothingIsOverdue, TimeIsKept, EffectsAreSettled, LoopIsInStep
<1>5. TimeIsBudgeted'
  BY <1>1 DEF ClockInv, TimeIsBudgeted
<1> QED BY <1>2, <1>4, <1>5 DEF ClockInv

LEMMA NothingInv == ASSUME TypeOK, ClockInv, TakeNothing PROVE ClockInv'
<1>1. /\ stage = "take" /\ \A e \in entries : e.dueAtMs > stepEnd
      /\ UNCHANGED <<simulationTimeMs, entries, nextInsertionOrdinal, stepEnd, staged, accepted,
                     done, cancelled, cut>>
  BY DEF TakeNothing, queueVars, history
<1>2. WorkIsAccountedFor' /\ OrdinalsAreApart'
  BY <1>1, WorkUnchanged DEF ClockInv
<1>3. NothingIsOverdue'
  BY <1>1 DEF ClockInv, NothingIsOverdue
<1>4. simulationTimeMs = stepEnd /\ stepEnd <= target
  BY <1>1 DEF ClockInv, LoopIsInStep
<1>5. ~HasDue(simulationTimeMs)
  BY <1>1, <1>4, DueType DEF HasDue, TypeOK
<1>6. ~cut => ~staged
  BY <1>1, <1>5 DEF ClockInv, LoopIsInStep
<1>7. CASE stepEnd >= target
  <2>1. FinishQuantum /\ simulationTimeMs = target
    BY <1>4, <1>7 DEF TakeNothing, TypeOK
  <2>2. TimeIsKept' /\ EffectsAreSettled' /\ LoopIsInStep' /\ TimeIsBudgeted'
    BY <1>1, <1>6, <2>1, FinishInv
  <2> QED BY <1>2, <1>3, <2>2 DEF ClockInv
<1>8. CASE ~(stepEnd >= target)
  <2>1. stage' = "head" /\ UNCHANGED <<accumulatorMs, target, resolved, current>>
    BY <1>8 DEF TakeNothing
  <2>2. TimeIsKept' /\ EffectsAreSettled' /\ LoopIsInStep' /\ TimeIsBudgeted'
    BY <1>1, <1>4, <1>6, <2>1
       DEF ClockInv, TimeIsKept, EffectsAreSettled, LoopIsInStep, TimeIsBudgeted
  <2> QED BY <1>2, <1>3, <2>2 DEF ClockInv
<1> QED BY <1>7, <1>8

\* A boundary is taken at the very instant it is due.
LEMMA TakenAtItsInstant ==
  ASSUME TypeOK, ClockInv, NEW e \in entries, TakeBoundary(e)
  PROVE  e.dueAtMs = simulationTimeMs
<1>1. stage = "take" /\ e.dueAtMs <= stepEnd
  BY DEF TakeBoundary
<1>2. simulationTimeMs = stepEnd /\ e.dueAtMs >= simulationTimeMs
  BY <1>1 DEF ClockInv, LoopIsInStep, NothingIsOverdue
<1> QED BY <1>1, <1>2, DueType DEF TypeOK

LEMMA TakeInv ==
  ASSUME TypeOK, ClockInv, NEW e \in entries, TakeBoundary(e)
  PROVE  ClockInv'
<1>1. /\ stage = "take" /\ entries' = entries \ {e}
      /\ UNCHANGED <<nextInsertionOrdinal, stepEnd, staged, accepted, cancelled>>
  BY DEF TakeBoundary
<1>2. e.dueAtMs = simulationTimeMs
  BY TakenAtItsInstant
<1>3. \/ FinishQuantum /\ cut' = TRUE /\ UNCHANGED <<simulationTimeMs, done>>
      \/ /\ simulationTimeMs' = e.dueAtMs /\ stage' = "resolve" /\ current' = e
         /\ done' = done \cup {e.insertionOrdinal}
         /\ UNCHANGED <<accumulatorMs, target, resolved, cut>>
  BY DEF TakeBoundary
<1>4. Ordinals' = Ordinals \ {e.insertionOrdinal} /\ e.insertionOrdinal \in Ordinals
  BY <1>1 DEF Ordinals, ClockInv, OrdinalsAreApart
<1>5. WorkIsAccountedFor'
  BY <1>1, <1>3, <1>4 DEF ClockInv, WorkIsAccountedFor
<1>6. OrdinalsAreApart'
  <2>1. \A f, g \in entries' : f.insertionOrdinal = g.insertionOrdinal => f = g
    BY <1>1 DEF ClockInv, OrdinalsAreApart
  <2>2. (Ordinals \cup done \cup cancelled)' \subseteq 1..(nextInsertionOrdinal' - 1)
    BY <1>1, <1>3, <1>4 DEF ClockInv, OrdinalsAreApart
  <2> QED BY <2>1, <2>2 DEF OrdinalsAreApart
<1>7. NothingIsOverdue'
  BY <1>1, <1>2, <1>3 DEF ClockInv, NothingIsOverdue
<1>8. CASE FinishQuantum /\ cut' = TRUE /\ UNCHANGED <<simulationTimeMs, done>>
  <2>1. TimeIsKept' /\ EffectsAreSettled' /\ LoopIsInStep' /\ TimeIsBudgeted'
    BY <1>1, <1>8, FinishInv
  <2> QED BY <1>5, <1>6, <1>7, <2>1 DEF ClockInv
<1>9. CASE /\ simulationTimeMs' = e.dueAtMs /\ stage' = "resolve" /\ current' = e
           /\ UNCHANGED <<accumulatorMs, target, resolved, cut>>
  <2>1. TimeIsKept' /\ EffectsAreSettled' /\ TimeIsBudgeted'
    BY <1>1, <1>2, <1>9 DEF ClockInv, TimeIsKept, EffectsAreSettled, TimeIsBudgeted
  <2>2. e \in Entry
    BY DEF TypeOK
  <2>3. LoopIsInStep'
    BY <1>1, <1>2, <1>9, <2>2 DEF ClockInv, LoopIsInStep
  <2> QED BY <1>5, <1>6, <1>7, <2>1, <2>3 DEF ClockInv
<1> QED BY <1>3, <1>8, <1>9

LEMMA ResolveInv == ASSUME TypeOK, ClockInv, EndResolve \/ EndSettle PROVE ClockInv'
<1>1. UNCHANGED <<simulationTimeMs, entries, nextInsertionOrdinal, accumulatorMs, target, stepEnd,
                  current, accepted, done, cancelled, cut>>
  BY DEF EndResolve, EndSettle, queueVars, settingVars, history
<1>2. WorkIsAccountedFor' /\ OrdinalsAreApart'
  BY <1>1, WorkUnchanged DEF ClockInv
<1>3. NothingIsOverdue'
  BY <1>1 DEF ClockInv, NothingIsOverdue
<1>4. CASE EndResolve
  <2>1. stage = "resolve" /\ current.dueAtMs = simulationTimeMs
    BY <1>4 DEF EndResolve, ClockInv, LoopIsInStep
  <2>2. \/ stage' = "head" /\ HasDue(simulationTimeMs)
        \/ stage' = "settle" /\ ~HasDue(simulationTimeMs)
    BY <1>4, <2>1 DEF EndResolve, NextIsDueAt, HasDue, ClockInv, NothingIsOverdue
  <2>3. TimeIsKept' /\ TimeIsBudgeted'
    BY <1>1, <2>1, <2>2 DEF ClockInv, TimeIsKept, TimeIsBudgeted
  <2>4. EffectsAreSettled' /\ LoopIsInStep'
    BY <1>1, <2>1, <2>2 DEF ClockInv, EffectsAreSettled, LoopIsInStep, HasDue
  <2> QED BY <1>2, <1>3, <2>3, <2>4 DEF ClockInv
<1>5. CASE EndSettle
  <2>1. stage = "settle" /\ stage' = "head" /\ staged' = FALSE
    BY <1>5 DEF EndSettle
  <2>2. TimeIsKept' /\ TimeIsBudgeted'
    BY <1>1, <2>1 DEF ClockInv, TimeIsKept, TimeIsBudgeted
  <2>3. EffectsAreSettled' /\ LoopIsInStep'
    BY <1>1, <2>1 DEF ClockInv, EffectsAreSettled, LoopIsInStep
  <2> QED BY <1>2, <1>3, <2>2, <2>3 DEF ClockInv
<1> QED BY <1>4, <1>5

LEMMA AdvanceInv ==
  ASSUME TypeOK, ClockInv, NEW delta \in Deltas, Advance(delta)
  PROVE  ClockInv'
<1>1. PICK gain \in Nat : /\ accumulatorMs' = accumulatorMs + gain
                          /\ accepted' = accepted + gain
                          /\ simulationTimeMs + accumulatorMs + gain <= MaxDue
  BY GainType DEF Advance, TypeOK
<1>2. /\ stage = "idle"
      /\ UNCHANGED <<simulationTimeMs, entries, nextInsertionOrdinal, stepEnd, current, staged,
                     done, cancelled, cut>>
  BY DEF Advance, queueVars
<1>3. \/ accumulatorMs' >= Quantum /\ stage' = "head" /\ target' = simulationTimeMs + Quantum
      \/ accumulatorMs' < Quantum /\ stage' = "idle" /\ target' = target
  <2>1. CASE accumulatorMs' >= Quantum
    BY <2>1 DEF Advance
  <2>2. CASE ~(accumulatorMs' >= Quantum)
    <3>1. stage' = stage /\ target' = target
      BY <2>2 DEF Advance
    <3> QED BY <1>1, <1>2, <2>2, <3>1 DEF TypeOK
  <2> QED BY <2>1, <2>2
<1>4. WorkIsAccountedFor' /\ OrdinalsAreApart'
  BY <1>2, WorkUnchanged DEF ClockInv
<1>5. NothingIsOverdue' /\ EffectsAreSettled'
  BY <1>2, <1>3 DEF ClockInv, NothingIsOverdue, EffectsAreSettled
<1>6. TimeIsKept' /\ TimeIsBudgeted'
  BY <1>1, <1>2, <1>3 DEF ClockInv, TimeIsKept, TimeIsBudgeted, TypeOK
<1>7. LoopIsInStep'
  BY <1>2, <1>3 DEF ClockInv, LoopIsInStep, EffectsAreSettled, TypeOK
<1> QED BY <1>4, <1>5, <1>6, <1>7 DEF ClockInv

LEMMA InvStep == TypeOK /\ ClockInv /\ [Next]_vars => ClockInv'
<1> SUFFICES ASSUME TypeOK, ClockInv, [Next]_vars PROVE ClockInv'
  OBVIOUS
<1>1. ASSUME NEW pause \in BOOLEAN, NEW r \in Rates, SetTime(pause, r) PROVE ClockInv'
  BY <1>1, WorkUnchanged
     DEF SetTime, queueVars, loopVars, history, ClockInv, NothingIsOverdue, TimeIsKept,
         EffectsAreSettled, LoopIsInStep, HasDue, TimeIsBudgeted
<1>2. CASE UNCHANGED vars
  BY <1>2, WorkUnchanged
     DEF vars, queueVars, settingVars, loopVars, history, ClockInv, NothingIsOverdue, TimeIsKept,
         EffectsAreSettled, LoopIsInStep, HasDue, TimeIsBudgeted
<1> QED
  BY <1>1, <1>2, ScheduleInv, CancelInv, AdvanceInv, BeginInv, IntervalInv, NothingInv, TakeInv,
     ResolveInv
     DEF Next

-----------------------------------------------------------------------------
(* Theorems. *)

\* Types and the inductive invariant hold at every point of the loop.
THEOREM InvariantHolds == Spec => [](TypeOK /\ ClockInv)
<1>1. Init => TypeOK /\ ClockInv
  BY TypeInit, InvInit
<1>2. TypeOK /\ ClockInv /\ [Next]_vars => (TypeOK /\ ClockInv)'
  BY TypeStep, InvStep
<1> QED BY <1>1, <1>2, PTL DEF Spec

\* Every variable keeps its type.
THEOREM TypeCorrect == Spec => []TypeOK
BY InvariantHolds, PTL

\* resolveThrough() never steps over a queued boundary.
THEOREM NeverOverdue == Spec => []NothingIsOverdue
<1>1. ClockInv => NothingIsOverdue
  BY DEF ClockInv
<1> QED BY <1>1, InvariantHolds, PTL

\* takeBoundaryDue() and cancelBoundary() lose no work and repeat none,
\* outside a quantum cut short.
THEOREM WorkIsKept == Spec => []WorkIsAccountedFor
<1>1. ClockInv => WorkIsAccountedFor
  BY DEF ClockInv
<1> QED BY <1>1, InvariantHolds, PTL

\* advanceTime() neither loses nor invents a millisecond, whatever the deltas,
\* rates and pauses, outside a quantum cut short.
THEOREM NoTimeIsLost == Spec => []TimeIsKept
<1>1. ClockInv => TimeIsKept
  BY DEF ClockInv
<1> QED BY <1>1, InvariantHolds, PTL

\* No effect of a resolver waits for a later instant.
THEOREM EffectsSettle == Spec => []EffectsAreSettled
<1>1. ClockInv => EffectsAreSettled
  BY DEF ClockInv
<1> QED BY <1>1, InvariantHolds, PTL

\* The completions of one instant resolve before any effect is finalized.
THEOREM BatchesResolveWhole == Spec => BatchResolvesWhole
<1>1. TypeOK /\ ClockInv /\ [Next]_vars => [staged /\ ~staged' => ~HasDue(simulationTimeMs)]_vars
  <2> SUFFICES ASSUME TypeOK, ClockInv, Next, staged, ~staged'
               PROVE  ~HasDue(simulationTimeMs)
    OBVIOUS
  <2>1. CASE EndInterval
    BY <2>1, DueType DEF EndInterval, ClockInv, LoopIsInStep, HasDue, TypeOK
  <2>2. CASE EndSettle
    BY <2>2 DEF EndSettle, ClockInv, LoopIsInStep
  <2>3. ASSUME ~EndInterval, ~EndSettle PROVE staged' \/ ~staged
    <3>1. CASE EndResolve
      BY <3>1, Zenon DEF EndResolve
    <3>2. ASSUME ~EndResolve PROVE UNCHANGED staged
      BY <2>3, <3>2
         DEF Next, ScheduleWork, CancelWork, SetTime, Advance, BeginStep, TakeNothing, TakeBoundary
    <3> QED BY <3>1, <3>2
  <2> QED BY <2>1, <2>2, <2>3
<1> QED BY <1>1, InvariantHolds, PTL DEF Spec, BatchResolvesWhole

\* A quantum leaves the accumulator only once it is wholly resolved, or cut
\* short at the limit.
THEOREM QuantaResolveWhole == Spec => QuantaAreWhole
<1> DEFINE Whole == accumulatorMs' < accumulatorMs /\ ~cut' =>
                      /\ simulationTimeMs = target
                      /\ \A e \in entries : e.dueAtMs > target
<1>1. TypeOK /\ ClockInv /\ [Next]_vars => [Whole]_vars
  <2> SUFFICES ASSUME TypeOK, ClockInv, Next, accumulatorMs' < accumulatorMs, ~cut'
               PROVE  simulationTimeMs = target /\ \A e \in entries : e.dueAtMs > target
    OBVIOUS
  <2>1. CASE BeginStep
    <3>1. ~(simulationTimeMs < target \/ NextIsDueAt(target))
      BY <2>1 DEF BeginStep, TypeOK
    <3>2. simulationTimeMs = target
      BY <2>1, <3>1 DEF BeginStep, ClockInv, LoopIsInStep, TypeOK
    <3> QED BY <3>1, <3>2, DueType DEF NextIsDueAt, HasDue, ClockInv, NothingIsOverdue, TypeOK
  <2>2. CASE TakeNothing
    <3>1. stepEnd >= target /\ \A e \in entries : e.dueAtMs > stepEnd
      BY <2>2 DEF TakeNothing, TypeOK
    <3>2. simulationTimeMs = stepEnd /\ stepEnd <= target
      BY <2>2 DEF TakeNothing, ClockInv, LoopIsInStep
    <3> QED BY <3>1, <3>2, DueType DEF TypeOK
  <2>3. ASSUME NEW e \in entries, TakeBoundary(e) PROVE FALSE
    BY <2>3 DEF TakeBoundary, TypeOK
  <2>4. ASSUME NEW delta \in Deltas, Advance(delta) PROVE FALSE
    BY <2>4, GainType DEF Advance, TypeOK
  <2>5. ASSUME ~BeginStep, ~TakeNothing, \A e \in entries : ~TakeBoundary(e),
               \A delta \in Deltas : ~Advance(delta)
        PROVE  UNCHANGED accumulatorMs
    BY <2>5
       DEF Next, ScheduleWork, CancelWork, SetTime, EndInterval, EndResolve, EndSettle, settingVars
  <2> QED BY <2>1, <2>2, <2>3, <2>4, <2>5 DEF TypeOK
<1> QED BY <1>1, InvariantHolds, PTL DEF Spec, QuantaAreWhole

\* The clock implements the queue: every step of the loop schedules, cancels,
\* takes the next boundary at its instant, lets time pass up to the next
\* boundary, or leaves the queue alone.
THEOREM ClockDrivesBoundaryQueue == Spec => DrivesBoundaryQueue
<1>1. Init => QueueInit
  BY DEF Init
<1>2. TypeOK /\ ClockInv /\ [Next]_vars => [QueueNext]_queueVars
  <2> SUFFICES ASSUME TypeOK, ClockInv, [Next]_vars PROVE [QueueNext]_queueVars
    OBVIOUS
  <2>1. ASSUME NEW due \in 0..MaxDue, NEW p \in Priorities, NEW o \in Owners \cup {NoOwner},
               ScheduleWork(due, p, o)
        PROVE  QueueNext
    BY <2>1 DEF ScheduleWork, QueueNext
  <2>2. ASSUME NEW ordinals, CancelWork(ordinals) PROVE QueueNext
    <3> DEFINE c == {e \in entries : e.insertionOrdinal \in ordinals}
    <3>1. c \in SUBSET entries /\ Cancel(c) /\ UNCHANGED simulationTimeMs
      BY <2>2 DEF CancelWork
    <3> QED BY <3>1 DEF QueueNext
  <2>3. CASE EndInterval
    <3>1. /\ accumulatorMs >= Quantum /\ target + accumulatorMs - Quantum <= MaxDue
          /\ stepEnd <= target /\ simulationTimeMs < stepEnd
          /\ \A e \in entries : e.dueAtMs >= stepEnd
      BY <2>3 DEF EndInterval, ClockInv, LoopIsInStep, TimeIsBudgeted
    <3>2. stepEnd \in 0..MaxDue
      BY <3>1 DEF TypeOK
    <3>3. Pass(stepEnd)
      BY <2>3, <3>1 DEF EndInterval, Pass, TypeOK
    <3> QED BY <3>2, <3>3 DEF QueueNext
  <2>4. ASSUME NEW e \in entries, TakeBoundary(e) PROVE QueueNext
    <3>1. e.dueAtMs = simulationTimeMs
      BY <2>4, TakenAtItsInstant
    <3>2. Take(e) /\ UNCHANGED simulationTimeMs
      BY <2>4, <3>1 DEF TakeBoundary, Take
    <3> QED BY <3>2 DEF QueueNext
  <2>5. CASE \/ BeginStep \/ TakeNothing \/ EndResolve \/ EndSettle \/ UNCHANGED vars
             \/ \E pause \in BOOLEAN, r \in Rates : SetTime(pause, r)
             \/ \E delta \in Deltas : Advance(delta)
    BY <2>5 DEF BeginStep, TakeNothing, EndResolve, EndSettle, vars, SetTime, Advance
  <2> QED BY <2>1, <2>2, <2>3, <2>4, <2>5 DEF Next
<1> QED BY <1>1, <1>2, InvariantHolds, PTL DEF Spec, QueueSpec, DrivesBoundaryQueue


=============================================================================
