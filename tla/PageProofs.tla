------------------------------- MODULE PageProofs -------------------------------
(***************************************************************************)
(* What holds of an open page for every content, every history, every      *)
(* duration of a toast and every bound: no toast stays beyond its time and *)
(* none is missed, the keys are what the player was told, the history is   *)
(* an account of what was raised, and the guidance keeps up.               *)
(***************************************************************************)
EXTENDS Page, FiniteSetTheorems, SequenceTheorems, WellFoundedInduction, TLAPS

-----------------------------------------------------------------------------
(* Least numbers. *)

\* Every inhabited set of natural numbers has a least element: the intervals up
\* to its elements have a least one, for finite sets are well founded.
LEMMA LeastExists ==
  ASSUME NEW T, T \subseteq Nat, T # {}
  PROVE  \E x \in T : \A y \in T : x <= y
<1> DEFINE upTo(n) == 1..n
           I == {upTo(n) : n \in T}
<1>1. IsWellFoundedOn(StrictSubsetOrdering(Nat), FiniteSubsetsOf(Nat))
  BY FS_StrictSubsetOrderingWellFounded
<1>2. I \subseteq FiniteSubsetsOf(Nat)
  <2> SUFFICES ASSUME NEW n \in T PROVE upTo(n) \in FiniteSubsetsOf(Nat)
    OBVIOUS
  <2>1. IsFiniteSet(1..n)
    BY FS_Interval
  <2>2. 1..n \subseteq Nat
    OBVIOUS
  <2> QED BY <2>1, <2>2 DEF FiniteSubsetsOf
<1>3. I # {}
  OBVIOUS
<1>4. PICK X \in I : \A Y \in I : ~ <<Y, X>> \in StrictSubsetOrdering(Nat)
  BY <1>1, <1>2, <1>3, WFMin
<1>5. PICK x \in T : X = 1..x
  OBVIOUS
<1>6. ASSUME NEW y \in T, ~ (x <= y) PROVE FALSE
  <2>1. 1..y \in I OBVIOUS
  <2>2. 1..y \subseteq X /\ 1..y # X /\ X \subseteq Nat
    BY <1>5, <1>6
  <2> QED BY <2>1, <2>2, <1>4 DEF StrictSubsetOrdering
<1> QED BY <1>6

\* Min and Max of the community modules, where they are used.
LEMMA MinOfNaturals ==
  ASSUME NEW T, T \subseteq Nat, T # {}
  PROVE  Min(T) \in T /\ \A y \in T : Min(T) <= y
<1>1. \E x \in T : \A y \in T : x <= y
  BY LeastExists
<1> QED BY <1>1 DEF Min

LEMMA MaxOfTwo ==
  ASSUME NEW a \in Int, NEW b \in Int
  PROVE  Max({a, b}) = IF a <= b THEN b ELSE a
<1>1. \E x \in {a, b} : \A y \in {a, b} : x >= y
  <2>1. CASE a <= b
    BY <2>1
  <2>2. CASE b <= a
    BY <2>2
  <2> QED BY <2>1, <2>2
<1>2. Max({a, b}) \in {a, b} /\ \A y \in {a, b} : Max({a, b}) >= y
  BY <1>1 DEF Max
<1> QED BY <1>2

-----------------------------------------------------------------------------
(* The content and the history read. *)

\* Every definition found by its id is one of those authored.
LEMMA DefinitionsAreAuthored ==
  ASSUME NEW id \in DOMAIN Definition
  PROVE  /\ Definition[id].severity \in Severities
         /\ Definition[id].hideable \in BOOLEAN /\ Definition[id].cue \in BOOLEAN
<1>1. PICK j \in DOMAIN Authored : Authored[j].id = id
  BY DEF Definition
<1> DEFINE I == {i \in 1..Len(Authored) : Authored[i].id = id}
<1>2. j \in I
  BY <1>1, AuthoredAssumption
<1>3. I \subseteq Nat
  OBVIOUS
<1>4. Min(I) \in I
  BY <1>2, <1>3, MinOfNaturals
<1>5. SelectInSeq(Authored, LAMBDA d : d.id = id) = Min(I)
  BY <1>2 DEF SelectInSeq
<1>6. Definition[id] = Authored[Min(I)]
  BY <1>5 DEF Definition
<1> QED BY <1>4, <1>6, AuthoredAssumption

-----------------------------------------------------------------------------
(* The center. *)

\* The fields of the center, of the page, of the world and of the history that
\* the properties speak of.
CenterShape(t) ==
  t = [seen |-> t.seen, toasts |-> t.toasts, held |-> t.held, timer |-> t.timer,
       cue |-> t.cue, failedBefore |-> t.failedBefore, visible |-> t.visible, sound |-> t.sound]

ToastsTyped(t) == \A x \in t.toasts : x.shownAt \in Nat /\ x.severity \in Severities

\* No toast that may leave is past its time, but at the moment it was let go.
OnTime(t, now, released) == \A x \in Unheld(t) : Leaves(x) >= now \/ released = now

\* TimerIsSet for one center.
TimerSet(t, now, released) == \A x \in Unheld(t) :
  /\ t.timer \in Nat /\ now <= t.timer
  /\ t.timer <= Leaves(x) \/ (released = now /\ t.timer = now)

\* A center that is as it should be.
CenterOk(t, now, released) ==
  CenterShape(t) /\ ToastsTyped(t) /\ TimerSet(t, now, released)

\* Other toasts, or others held, in the same center.
LEMMA OtherToasts ==
  ASSUME NEW t, CenterShape(t), NEW others, NEW u, u = [t EXCEPT !.toasts = others]
  PROVE  CenterShape(u) /\ u.toasts = others /\ u.held = t.held
  BY DEF CenterShape

LEMMA OtherHeld ==
  ASSUME NEW t, CenterShape(t), NEW id, NEW u, u = [t EXCEPT !.held = id]
  PROVE  CenterShape(u) /\ u.toasts = t.toasts /\ u.held = id
  BY DEF CenterShape

LEMMA LeavesType ==
  ASSUME NEW t, ToastsTyped(t), NEW x \in t.toasts
  PROVE  Leaves(x) \in Nat
<1>1. x.shownAt \in Nat /\ x.severity \in Severities
  BY DEF ToastsTyped
<1>2. Duration[x.severity] \in Nat
  BY <1>1, ToastsAssumption
<1> QED BY <1>1, <1>2 DEF Leaves

LEMMA TimedIsOnTime ==
  ASSUME NEW t, NEW now \in Nat, NEW released, CenterOk(t, now, released)
  PROVE  OnTime(t, now, released)
<1> SUFFICES ASSUME NEW x \in Unheld(t), released # now PROVE Leaves(x) >= now
  BY DEF OnTime
<1>1. Leaves(x) \in Nat
  BY LeavesType DEF CenterOk, Unheld
<1>2. t.timer \in Nat /\ now <= t.timer /\ t.timer <= Leaves(x)
  BY DEF CenterOk, TimerSet
<1> QED BY <1>1, <1>2

\* The effect that sets the timer: it is right for every toast that may leave.
LEMMA ArmSetsTimer ==
  ASSUME NEW t, NEW now \in Nat, NEW released,
         CenterShape(t), ToastsTyped(t), OnTime(t, now, released)
  PROVE  CenterOk(Arm(t, now), now, released)
<1> DEFINE L == {Leaves(x) : x \in Unheld(t)}
           timer == IF Unheld(t) = {} THEN Nothing ELSE Max({now, Min(L)})
<1>1. Arm(t, now) = [t EXCEPT !.timer = timer]
  BY DEF Arm
<1> HIDE DEF timer
<1>2. /\ CenterShape(Arm(t, now))
      /\ Arm(t, now).toasts = t.toasts /\ Arm(t, now).held = t.held
      /\ Arm(t, now).timer = timer
  BY <1>1 DEF CenterShape
<1>3. ToastsTyped(Arm(t, now)) /\ Unheld(Arm(t, now)) = Unheld(t)
  BY <1>2 DEF ToastsTyped, Unheld
<1>4. ASSUME NEW x \in Unheld(t)
      PROVE  /\ timer \in Nat /\ now <= timer
             /\ timer <= Leaves(x) \/ (released = now /\ timer = now)
  <2>1. L \subseteq Nat
    BY LeavesType DEF Unheld
  <2>2. Leaves(x) \in L /\ L # {}
    OBVIOUS
  <2>3. Min(L) \in L /\ Min(L) <= Leaves(x)
    BY <2>1, <2>2, MinOfNaturals
  <2>4. Leaves(x) \in Nat /\ Min(L) \in Nat
    BY <2>1, <2>2, <2>3
  <2>5. timer = IF now <= Min(L) THEN Min(L) ELSE now
    BY <1>4, <2>4, MaxOfTwo DEF timer
  <2>6. PICK y \in Unheld(t) : Min(L) = Leaves(y)
    BY <2>3
  <2>7. Min(L) >= now \/ released = now
    BY <2>6 DEF OnTime
  <2> HIDE DEF L
  <2> QED BY <2>3, <2>4, <2>5, <2>7
<1>5. TimerSet(Arm(t, now), now, released)
  BY <1>2, <1>3, <1>4 DEF TimerSet
<1> QED BY <1>2, <1>3, <1>5 DEF CenterOk

\* What changes neither the toasts nor what is held nor the timer.
LEMMA SameToasts ==
  ASSUME NEW t, NEW u, NEW now, NEW released, CenterOk(t, now, released), CenterShape(u),
         u.toasts = t.toasts, u.held = t.held, u.timer = t.timer
  PROVE  CenterOk(u, now, released)
  BY DEF CenterOk, ToastsTyped, TimerSet, Unheld

\* The timer of the center takes away what is over.
LEMMA ExpireOk ==
  ASSUME NEW t, NEW now \in Nat, NEW released, CenterOk(t, now, released)
  PROVE  CenterOk(Expire(t, now), now, released)
<1> DEFINE kept == {x \in t.toasts : x.id = t.held \/ Leaves(x) > now}
           u == [t EXCEPT !.toasts = kept]
<1>1. Expire(t, now) = Arm(u, now)
  BY DEF Expire
<1>2. CenterShape(u) /\ u.toasts = kept /\ u.held = t.held
  BY DEF CenterOk, CenterShape
<1> HIDE DEF u
<1>3. ToastsTyped(u)
  BY <1>2 DEF CenterOk, ToastsTyped
<1>4. OnTime(u, now, released)
  <2> SUFFICES ASSUME NEW x \in Unheld(u) PROVE Leaves(x) >= now
    BY DEF OnTime
  <2>1. x \in t.toasts /\ Leaves(x) > now
    BY <1>2 DEF Unheld
  <2>2. Leaves(x) \in Nat
    BY <2>1, LeavesType DEF CenterOk
  <2> QED BY <2>1, <2>2
<1> QED BY <1>1, <1>2, <1>3, <1>4, ArmSetsTimer

\* New toasts have their whole time before them.
LEMMA ShowOk ==
  ASSUME NEW t, NEW now \in Nat, NEW released, CenterOk(t, now, released),
         NEW shown, \A e \in shown : e.severity \in Severities
  PROVE  CenterOk(Show(t, shown, now), now, released)
<1>1. CASE shown = {}
  BY <1>1 DEF Show
<1>2. CASE shown # {}
  <2> DEFINE toasts == {x \in t.toasts : \A e \in shown : e.id # x.id}
                       \cup {Toast(e, now) : e \in shown}
             u == [t EXCEPT !.toasts = toasts]
  <2>1. Show(t, shown, now) = Arm(u, now)
    BY <1>2 DEF Show
  <2>2. CenterShape(u) /\ u.toasts = toasts /\ u.held = t.held
    <3> HIDE DEF toasts
    <3>1. CenterShape(t)
      BY DEF CenterOk
    <3> QED BY <3>1, OtherToasts
  <2> HIDE DEF u
  <2>3. ASSUME NEW e \in shown
        PROVE  /\ Toast(e, now).shownAt = now /\ Toast(e, now).severity \in Severities
               /\ Leaves(Toast(e, now)) >= now
    <3>1. Toast(e, now).shownAt = now /\ Toast(e, now).severity \in Severities
      BY DEF Toast
    <3>2. Duration[Toast(e, now).severity] \in Nat
      BY <3>1, ToastsAssumption
    <3> QED BY <3>1, <3>2 DEF Leaves
  <2>4. ToastsTyped(u)
    BY <2>2, <2>3 DEF CenterOk, ToastsTyped
  <2>5. OnTime(u, now, released)
    <3> SUFFICES ASSUME NEW x \in Unheld(u) PROVE Leaves(x) >= now \/ released = now
      BY DEF OnTime
    <3>1. x \in toasts /\ x.id # t.held
      BY <2>2 DEF Unheld
    <3>2. CASE x \in t.toasts
      BY <3>1, <3>2, TimedIsOnTime DEF OnTime, Unheld
    <3>3. CASE x \notin t.toasts
      BY <2>3, <3>1, <3>3
    <3> QED BY <3>2, <3>3
  <2> QED BY <2>1, <2>2, <2>4, <2>5, ArmSetsTimer
<1> QED BY <1>1, <1>2

LEMMA PlayCueOk ==
  ASSUME NEW t, NEW rank, NEW at, NEW now, NEW released, CenterOk(t, now, released)
  PROVE  CenterOk(PlayCue(t, rank, at), now, released)
<1> DEFINE u == [t EXCEPT !.cue = [at |-> at, rank |-> rank]]
<1>1. CenterShape(u) /\ u.toasts = t.toasts /\ u.held = t.held /\ u.timer = t.timer
  BY DEF CenterOk, CenterShape
<1>2. CenterOk(u, now, released)
  BY <1>1, SameToasts
<1> QED BY <1>2 DEF PlayCue

\* The effect on the history that was read.
LEMMA OnNotificationsOk ==
  ASSUME NEW t, NEW now \in Nat, NEW released, CenterOk(t, now, released),
         NEW data, \A e \in data.entries : e.severity \in Severities
  PROVE  CenterOk(OnNotifications(t, data, now), now, released)
<1>1. ASSUME NEW seen PROVE CenterOk([t EXCEPT !.seen = seen], now, released)
  <2> DEFINE u == [t EXCEPT !.seen = seen]
  <2>1. CenterShape(u) /\ u.toasts = t.toasts /\ u.held = t.held /\ u.timer = t.timer
    BY DEF CenterOk, CenterShape
  <2> QED BY <2>1, SameToasts
<1>2. CASE t.seen = Nothing
  BY <1>1, <1>2 DEF OnNotifications
<1>3. CASE t.seen # Nothing
  <2> DEFINE looked == [t EXCEPT !.seen = Max({t.seen, data.sequence})]
             appear == {e \in Fresh(t, data) : Appears(t, e)}
             shown == Show(looked, appear, now)
             audible == {e \in Fresh(t, data) : Audible(t, e)}
  <2>1. OnNotifications(t, data, now) = Sound(shown, audible, now)
    BY <1>3 DEF OnNotifications
  <2>2. CenterOk(looked, now, released)
    BY <1>1
  <2>3. \A e \in appear : e.severity \in Severities
    BY DEF Fresh
  <2> HIDE DEF looked, appear
  <2>4. CenterOk(shown, now, released)
    BY <2>2, <2>3, ShowOk
  <2> HIDE DEF shown, audible
  <2>5. CenterOk(Sound(shown, audible, now), now, released)
    BY <2>4, PlayCueOk DEF Sound
  <2> QED BY <2>1, <2>5
<1> QED BY <1>2, <1>3

LEMMA OnSaveStatusOk ==
  ASSUME NEW t, NEW failed, NEW at, NEW now, NEW released, CenterOk(t, now, released)
  PROVE  CenterOk(OnSaveStatus(t, failed, at), now, released)
<1> DEFINE u == IF failed /\ ~t.failedBefore THEN PlayCue(t, Rank["danger"], at) ELSE t
           v == [u EXCEPT !.failedBefore = failed]
<1>1. OnSaveStatus(t, failed, at) = v
  BY DEF OnSaveStatus
<1>2. CenterOk(u, now, released)
  BY PlayCueOk
<1> HIDE DEF u
<1>3. CenterShape(v) /\ v.toasts = u.toasts /\ v.held = u.held /\ v.timer = u.timer
  BY <1>2 DEF CenterOk, CenterShape
<1> QED BY <1>1, <1>2, <1>3, SameToasts

\* The focus comes or goes: what it let go is over at once, if its time is.
LEMMA HoldOk ==
  ASSUME NEW t, NEW id, NEW now \in Nat, NEW released, CenterOk(t, now, released)
  PROVE  CenterOk(Hold(t, id, now), now, now)
<1> DEFINE u == [t EXCEPT !.held = id]
<1>1. Hold(t, id, now) = Arm(u, now)
  BY DEF Hold
<1>2. CenterShape(u) /\ u.toasts = t.toasts
  BY DEF CenterOk, CenterShape
<1> HIDE DEF u
<1>3. ToastsTyped(u) /\ OnTime(u, now, now)
  BY <1>2 DEF CenterOk, ToastsTyped, OnTime
<1> QED BY <1>1, <1>2, <1>3, ArmSetsTimer

LEMMA DismissOk ==
  ASSUME NEW t, NEW id, NEW now \in Nat, NEW released, CenterOk(t, now, released)
  PROVE  CenterOk(Dismiss(t, id, now), now, released)
<1> DEFINE left == {x \in t.toasts : x.id # id}
           held == IF t.held = id THEN Nothing ELSE t.held
           u == [t EXCEPT !.toasts = left, !.held = held]
<1>1. Dismiss(t, id, now) = Arm(u, now)
  BY DEF Dismiss
<1>2. CenterShape(u) /\ u.toasts = left /\ u.held = held
  <2> DEFINE w == [t EXCEPT !.toasts = left]
  <2>1. CenterShape(t)
    BY DEF CenterOk
  <2>2. u = [w EXCEPT !.held = held]
    OBVIOUS
  <2> HIDE DEF left, held, u
  <2>3. CenterShape(w) /\ w.toasts = left
    BY <2>1, OtherToasts
  <2> HIDE DEF w
  <2> QED BY <2>2, <2>3, OtherHeld
<1> HIDE DEF u
<1>3. ToastsTyped(u)
  BY <1>2 DEF CenterOk, ToastsTyped
<1>4. Unheld(u) \subseteq Unheld(t)
  BY <1>2 DEF Unheld
<1>5. OnTime(u, now, released)
  BY <1>4, TimedIsOnTime DEF OnTime
<1> QED BY <1>1, <1>2, <1>3, <1>5, ArmSetsTimer

LEMMA FreshCenterOk ==
  ASSUME NEW now, NEW released
  PROVE  CenterOk(FreshCenter, now, released) /\ FreshCenter.toasts = {}
<1>1. CenterShape(FreshCenter) /\ FreshCenter.toasts = {}
  BY DEF FreshCenter, CenterShape
<1> QED BY <1>1 DEF CenterOk, ToastsTyped, TimerSet, Unheld

-----------------------------------------------------------------------------
(* The recursive functions of Notices: each is what its steps make of it. *)

\* Induction up to a bound: no number is the first to be wrong.
LEMMA UpTo ==
  ASSUME NEW L \in Nat, NEW W, W \subseteq 0..L, 0 \notin W,
         \A n \in 1..L : n \in W => n - 1 \in W
  PROVE  W = {}
<1> SUFFICES ASSUME W # {} PROVE FALSE
  OBVIOUS
<1>1. W \subseteq Nat
  OBVIOUS
<1>2. PICK n \in W : \A m \in W : n <= m
  BY <1>1, LeastExists
<1>3. n \in 1..L
  OBVIOUS
<1>4. n - 1 \in W
  BY <1>3
<1>5. n <= n - 1
  BY <1>2, <1>4
<1> QED BY <1>3, <1>5

\* A round of the guidance.
LEMMA RoundUnfolds ==
  ASSUME NEW t
  PROVE  \E g : /\ Round(t) = g[Len(Steps)]
                /\ g[0] = t
                /\ \A i \in 1..Len(Steps) : g[i] = Visit(g[i - 1], Steps[i])
<1> DEFINE L == Len(Steps)
           Body(g, n) ==
             IF n = 0 THEN t
             ELSE Visit(g[n - 1], Steps[n])
           Solves(g, n) == g = [m \in 0..n |-> Body(g, m)]
           Unsolved == {n \in 0..L : ~ \E g : Solves(g, n)}
           made == CHOOSE g : Solves(g, L)
<1>1. L \in Nat
  BY NoticesAssumption
<1>2. Round(t) = made[L]
  BY DEF Round
<1>3. ASSUME NEW g PROVE Body(g, 0) = t
  OBVIOUS
<1>4. ASSUME NEW g, NEW n \in 1..L
      PROVE  Body(g, n) = Visit(g[n - 1], Steps[n])
  OBVIOUS
<1>5. ASSUME NEW g, NEW h, NEW n \in 0..L, n = 0 \/ g[n - 1] = h[n - 1]
      PROVE  Body(g, n) = Body(h, n)
  <2>1. CASE n = 0
    BY <2>1
  <2>2. CASE n # 0
    <3>1. g[n - 1] = h[n - 1]
      BY <1>5, <2>2
    <3>2. Body(g, n) = Body(h, n)
      BY <3>1, <2>2
    <3> QED BY <3>2
  <2> QED BY <2>1, <2>2
<1> HIDE DEF Body, L
<1>6. 0 \notin Unsolved
  <2> DEFINE g == [m \in 0..0 |-> Body(<<>>, m)]
  <2>1. Body(<<>>, 0) = Body(g, 0)
    BY <1>1, <1>5
  <2>2. Solves(g, 0)
    BY <2>1
  <2> HIDE DEF g, Solves
  <2> QED BY <2>2
<1>7. ASSUME NEW n \in 1..L, n \in Unsolved PROVE n - 1 \in Unsolved
  <2>1. n - 1 \in 0..L
    BY <1>1
  <2> SUFFICES ASSUME NEW f, Solves(f, n - 1) PROVE FALSE
    BY <2>1
  <2>2. ASSUME NEW m \in 0..(n - 1) PROVE f[m] = Body(f, m)
    <3>1. f = [k \in 0..(n - 1) |-> Body(f, k)]
      OBVIOUS
    <3> HIDE DEF Solves
    <3> QED BY <3>1
  <2> DEFINE g == [m \in 0..n |-> IF m = n THEN Body(f, n) ELSE f[m]]
  <2>3. ASSUME NEW m \in 0..n PROVE g[m] = Body(f, m)
    <3>1. m # n => m \in 0..(n - 1)
      BY <1>1
    <3> HIDE DEF Solves
    <3> QED BY <2>2, <3>1
  <2>4. ASSUME NEW m \in 0..n, m # 0 PROVE g[m - 1] = f[m - 1]
    <3>1. m - 1 \in 0..n /\ m - 1 # n
      BY <2>4, <1>1
    <3> QED BY <3>1
  <2>5. g = [m \in 0..n |-> g[m]]
    OBVIOUS
  <2> HIDE DEF g, Solves
  <2>6. ASSUME NEW m \in 0..n PROVE g[m] = Body(g, m)
    <3>1. m \in 0..L
      BY <1>1
    <3> QED BY <2>3, <2>4, <3>1, <1>5
  <2>7. Solves(g, n)
    BY <2>5, <2>6 DEF Solves
  <2> QED BY <2>7, <1>7
<1>8. \E g : Solves(g, L)
  <2>1. Unsolved \subseteq 0..L
    OBVIOUS
  <2>2. L \in Unsolved \/ \E g : Solves(g, L)
    <3> HIDE DEF Solves
    <3> QED BY <1>1
  <2> HIDE DEF Unsolved, Solves
  <2>3. Unsolved = {}
    BY <1>1, <1>6, <1>7, <2>1, UpTo
  <2> QED BY <2>2, <2>3
<1>9. Solves(made, L)
  <2> HIDE DEF Solves
  <2> QED BY <1>8
<1>10. ASSUME NEW m \in 0..L PROVE made[m] = Body(made, m)
  <2> HIDE DEF made
  <2> QED BY <1>9
<1> HIDE DEF made, Solves
<1>11. made[0] = t
  BY <1>1, <1>3, <1>10
<1>12. ASSUME NEW i \in 1..L PROVE made[i] = Visit(made[i - 1], Steps[i])
  <2>1. i \in 0..L
    BY <1>1
  <2> QED BY <2>1, <1>4, <1>10
<1>13. /\ Round(t) = made[Len(Steps)]
       /\ \A i \in 1..Len(Steps) : made[i] = Visit(made[i - 1], Steps[i])
  BY <1>2, <1>12 DEF L
<1> QED BY <1>11, <1>13

\* All the rounds.
LEMMA AdvanceUnfolds ==
  ASSUME NEW t
  PROVE  \E g : /\ AdvanceGuidance(t) = g[Len(Steps)]
                /\ g[0] = t
                /\ \A i \in 1..Len(Steps) : g[i] = Round(g[i - 1])
<1> DEFINE L == Len(Steps)
           Body(g, n) ==
             IF n = 0 THEN t
             ELSE Round(g[n - 1])
           Solves(g, n) == g = [m \in 0..n |-> Body(g, m)]
           Unsolved == {n \in 0..L : ~ \E g : Solves(g, n)}
           made == CHOOSE g : Solves(g, L)
<1>1. L \in Nat
  BY NoticesAssumption
<1>2. AdvanceGuidance(t) = made[L]
  BY DEF AdvanceGuidance
<1>3. ASSUME NEW g PROVE Body(g, 0) = t
  OBVIOUS
<1>4. ASSUME NEW g, NEW n \in 1..L
      PROVE  Body(g, n) = Round(g[n - 1])
  OBVIOUS
<1>5. ASSUME NEW g, NEW h, NEW n \in 0..L, n = 0 \/ g[n - 1] = h[n - 1]
      PROVE  Body(g, n) = Body(h, n)
  <2>1. CASE n = 0
    BY <2>1
  <2>2. CASE n # 0
    <3>1. g[n - 1] = h[n - 1]
      BY <1>5, <2>2
    <3>2. Body(g, n) = Body(h, n)
      BY <3>1, <2>2
    <3> QED BY <3>2
  <2> QED BY <2>1, <2>2
<1> HIDE DEF Body, L
<1>6. 0 \notin Unsolved
  <2> DEFINE g == [m \in 0..0 |-> Body(<<>>, m)]
  <2>1. Body(<<>>, 0) = Body(g, 0)
    BY <1>1, <1>5
  <2>2. Solves(g, 0)
    BY <2>1
  <2> HIDE DEF g, Solves
  <2> QED BY <2>2
<1>7. ASSUME NEW n \in 1..L, n \in Unsolved PROVE n - 1 \in Unsolved
  <2>1. n - 1 \in 0..L
    BY <1>1
  <2> SUFFICES ASSUME NEW f, Solves(f, n - 1) PROVE FALSE
    BY <2>1
  <2>2. ASSUME NEW m \in 0..(n - 1) PROVE f[m] = Body(f, m)
    <3>1. f = [k \in 0..(n - 1) |-> Body(f, k)]
      OBVIOUS
    <3> HIDE DEF Solves
    <3> QED BY <3>1
  <2> DEFINE g == [m \in 0..n |-> IF m = n THEN Body(f, n) ELSE f[m]]
  <2>3. ASSUME NEW m \in 0..n PROVE g[m] = Body(f, m)
    <3>1. m # n => m \in 0..(n - 1)
      BY <1>1
    <3> HIDE DEF Solves
    <3> QED BY <2>2, <3>1
  <2>4. ASSUME NEW m \in 0..n, m # 0 PROVE g[m - 1] = f[m - 1]
    <3>1. m - 1 \in 0..n /\ m - 1 # n
      BY <2>4, <1>1
    <3> QED BY <3>1
  <2>5. g = [m \in 0..n |-> g[m]]
    OBVIOUS
  <2> HIDE DEF g, Solves
  <2>6. ASSUME NEW m \in 0..n PROVE g[m] = Body(g, m)
    <3>1. m \in 0..L
      BY <1>1
    <3> QED BY <2>3, <2>4, <3>1, <1>5
  <2>7. Solves(g, n)
    BY <2>5, <2>6 DEF Solves
  <2> QED BY <2>7, <1>7
<1>8. \E g : Solves(g, L)
  <2>1. Unsolved \subseteq 0..L
    OBVIOUS
  <2>2. L \in Unsolved \/ \E g : Solves(g, L)
    <3> HIDE DEF Solves
    <3> QED BY <1>1
  <2> HIDE DEF Unsolved, Solves
  <2>3. Unsolved = {}
    BY <1>1, <1>6, <1>7, <2>1, UpTo
  <2> QED BY <2>2, <2>3
<1>9. Solves(made, L)
  <2> HIDE DEF Solves
  <2> QED BY <1>8
<1>10. ASSUME NEW m \in 0..L PROVE made[m] = Body(made, m)
  <2> HIDE DEF made
  <2> QED BY <1>9
<1> HIDE DEF made, Solves
<1>11. made[0] = t
  BY <1>1, <1>3, <1>10
<1>12. ASSUME NEW i \in 1..L PROVE made[i] = Round(made[i - 1])
  <2>1. i \in 0..L
    BY <1>1
  <2> QED BY <2>1, <1>4, <1>10
<1>13. /\ AdvanceGuidance(t) = made[Len(Steps)]
       /\ \A i \in 1..Len(Steps) : made[i] = Round(made[i - 1])
  BY <1>2, <1>12 DEF L
<1> QED BY <1>11, <1>13

\* One event, to all definitions.
LEMMA RaiseForUnfolds ==
  ASSUME NEW c, NEW e
  PROVE  \E g : /\ RaiseFor(c, e) = g[Len(Authored)]
                /\ g[0] = (IF e.kind \in SiteChanges THEN Arrive(c) ELSE c)
                /\ \A i \in 1..Len(Authored) : g[i] = RaiseIf(g[i - 1], Authored[i], e)
<1> DEFINE L == Len(Authored)
           Body(g, n) ==
             IF n = 0 THEN (IF e.kind \in SiteChanges THEN Arrive(c) ELSE c)
             ELSE RaiseIf(g[n - 1], Authored[n], e)
           Solves(g, n) == g = [m \in 0..n |-> Body(g, m)]
           Unsolved == {n \in 0..L : ~ \E g : Solves(g, n)}
           made == CHOOSE g : Solves(g, L)
<1>1. L \in Nat
  BY NoticesAssumption
<1>2. RaiseFor(c, e) = made[L]
  BY DEF RaiseFor
<1>3. ASSUME NEW g PROVE Body(g, 0) = (IF e.kind \in SiteChanges THEN Arrive(c) ELSE c)
  OBVIOUS
<1>4. ASSUME NEW g, NEW n \in 1..L
      PROVE  Body(g, n) = RaiseIf(g[n - 1], Authored[n], e)
  OBVIOUS
<1>5. ASSUME NEW g, NEW h, NEW n \in 0..L, n = 0 \/ g[n - 1] = h[n - 1]
      PROVE  Body(g, n) = Body(h, n)
  <2>1. CASE n = 0
    BY <2>1
  <2>2. CASE n # 0
    <3>1. g[n - 1] = h[n - 1]
      BY <1>5, <2>2
    <3>2. Body(g, n) = Body(h, n)
      BY <3>1, <2>2
    <3> QED BY <3>2
  <2> QED BY <2>1, <2>2
<1> HIDE DEF Body, L
<1>6. 0 \notin Unsolved
  <2> DEFINE g == [m \in 0..0 |-> Body(<<>>, m)]
  <2>1. Body(<<>>, 0) = Body(g, 0)
    BY <1>1, <1>5
  <2>2. Solves(g, 0)
    BY <2>1
  <2> HIDE DEF g, Solves
  <2> QED BY <2>2
<1>7. ASSUME NEW n \in 1..L, n \in Unsolved PROVE n - 1 \in Unsolved
  <2>1. n - 1 \in 0..L
    BY <1>1
  <2> SUFFICES ASSUME NEW f, Solves(f, n - 1) PROVE FALSE
    BY <2>1
  <2>2. ASSUME NEW m \in 0..(n - 1) PROVE f[m] = Body(f, m)
    <3>1. f = [k \in 0..(n - 1) |-> Body(f, k)]
      OBVIOUS
    <3> HIDE DEF Solves
    <3> QED BY <3>1
  <2> DEFINE g == [m \in 0..n |-> IF m = n THEN Body(f, n) ELSE f[m]]
  <2>3. ASSUME NEW m \in 0..n PROVE g[m] = Body(f, m)
    <3>1. m # n => m \in 0..(n - 1)
      BY <1>1
    <3> HIDE DEF Solves
    <3> QED BY <2>2, <3>1
  <2>4. ASSUME NEW m \in 0..n, m # 0 PROVE g[m - 1] = f[m - 1]
    <3>1. m - 1 \in 0..n /\ m - 1 # n
      BY <2>4, <1>1
    <3> QED BY <3>1
  <2>5. g = [m \in 0..n |-> g[m]]
    OBVIOUS
  <2> HIDE DEF g, Solves
  <2>6. ASSUME NEW m \in 0..n PROVE g[m] = Body(g, m)
    <3>1. m \in 0..L
      BY <1>1
    <3> QED BY <2>3, <2>4, <3>1, <1>5
  <2>7. Solves(g, n)
    BY <2>5, <2>6 DEF Solves
  <2> QED BY <2>7, <1>7
<1>8. \E g : Solves(g, L)
  <2>1. Unsolved \subseteq 0..L
    OBVIOUS
  <2>2. L \in Unsolved \/ \E g : Solves(g, L)
    <3> HIDE DEF Solves
    <3> QED BY <1>1
  <2> HIDE DEF Unsolved, Solves
  <2>3. Unsolved = {}
    BY <1>1, <1>6, <1>7, <2>1, UpTo
  <2> QED BY <2>2, <2>3
<1>9. Solves(made, L)
  <2> HIDE DEF Solves
  <2> QED BY <1>8
<1>10. ASSUME NEW m \in 0..L PROVE made[m] = Body(made, m)
  <2> HIDE DEF made
  <2> QED BY <1>9
<1> HIDE DEF made, Solves
<1>11. made[0] = (IF e.kind \in SiteChanges THEN Arrive(c) ELSE c)
  BY <1>1, <1>3, <1>10
<1>12. ASSUME NEW i \in 1..L PROVE made[i] = RaiseIf(made[i - 1], Authored[i], e)
  <2>1. i \in 0..L
    BY <1>1
  <2> QED BY <2>1, <1>4, <1>10
<1>13. /\ RaiseFor(c, e) = made[Len(Authored)]
       /\ \A i \in 1..Len(Authored) : made[i] = RaiseIf(made[i - 1], Authored[i], e)
  BY <1>2, <1>12 DEF L
<1> QED BY <1>11, <1>13

\* All events.
LEMMA RaiseAllUnfolds ==
  ASSUME NEW c, NEW events, Len(events) \in Nat
  PROVE  \E g : /\ RaiseAll(c, events) = g[Len(events)]
                /\ g[0] = c
                /\ \A i \in 1..Len(events) : g[i] = RaiseFor(g[i - 1], events[i])
<1> DEFINE L == Len(events)
           Body(g, n) ==
             IF n = 0 THEN c
             ELSE RaiseFor(g[n - 1], events[n])
           Solves(g, n) == g = [m \in 0..n |-> Body(g, m)]
           Unsolved == {n \in 0..L : ~ \E g : Solves(g, n)}
           made == CHOOSE g : Solves(g, L)
<1>1. L \in Nat
  OBVIOUS
<1>2. RaiseAll(c, events) = made[L]
  BY DEF RaiseAll
<1>3. ASSUME NEW g PROVE Body(g, 0) = c
  OBVIOUS
<1>4. ASSUME NEW g, NEW n \in 1..L
      PROVE  Body(g, n) = RaiseFor(g[n - 1], events[n])
  OBVIOUS
<1>5. ASSUME NEW g, NEW h, NEW n \in 0..L, n = 0 \/ g[n - 1] = h[n - 1]
      PROVE  Body(g, n) = Body(h, n)
  <2>1. CASE n = 0
    BY <2>1
  <2>2. CASE n # 0
    <3>1. g[n - 1] = h[n - 1]
      BY <1>5, <2>2
    <3>2. Body(g, n) = Body(h, n)
      BY <3>1, <2>2
    <3> QED BY <3>2
  <2> QED BY <2>1, <2>2
<1> HIDE DEF Body, L
<1>6. 0 \notin Unsolved
  <2> DEFINE g == [m \in 0..0 |-> Body(<<>>, m)]
  <2>1. Body(<<>>, 0) = Body(g, 0)
    BY <1>1, <1>5
  <2>2. Solves(g, 0)
    BY <2>1
  <2> HIDE DEF g, Solves
  <2> QED BY <2>2
<1>7. ASSUME NEW n \in 1..L, n \in Unsolved PROVE n - 1 \in Unsolved
  <2>1. n - 1 \in 0..L
    BY <1>1
  <2> SUFFICES ASSUME NEW f, Solves(f, n - 1) PROVE FALSE
    BY <2>1
  <2>2. ASSUME NEW m \in 0..(n - 1) PROVE f[m] = Body(f, m)
    <3>1. f = [k \in 0..(n - 1) |-> Body(f, k)]
      OBVIOUS
    <3> HIDE DEF Solves
    <3> QED BY <3>1
  <2> DEFINE g == [m \in 0..n |-> IF m = n THEN Body(f, n) ELSE f[m]]
  <2>3. ASSUME NEW m \in 0..n PROVE g[m] = Body(f, m)
    <3>1. m # n => m \in 0..(n - 1)
      BY <1>1
    <3> HIDE DEF Solves
    <3> QED BY <2>2, <3>1
  <2>4. ASSUME NEW m \in 0..n, m # 0 PROVE g[m - 1] = f[m - 1]
    <3>1. m - 1 \in 0..n /\ m - 1 # n
      BY <2>4, <1>1
    <3> QED BY <3>1
  <2>5. g = [m \in 0..n |-> g[m]]
    OBVIOUS
  <2> HIDE DEF g, Solves
  <2>6. ASSUME NEW m \in 0..n PROVE g[m] = Body(g, m)
    <3>1. m \in 0..L
      BY <1>1
    <3> QED BY <2>3, <2>4, <3>1, <1>5
  <2>7. Solves(g, n)
    BY <2>5, <2>6 DEF Solves
  <2> QED BY <2>7, <1>7
<1>8. \E g : Solves(g, L)
  <2>1. Unsolved \subseteq 0..L
    OBVIOUS
  <2>2. L \in Unsolved \/ \E g : Solves(g, L)
    <3> HIDE DEF Solves
    <3> QED BY <1>1
  <2> HIDE DEF Unsolved, Solves
  <2>3. Unsolved = {}
    BY <1>1, <1>6, <1>7, <2>1, UpTo
  <2> QED BY <2>2, <2>3
<1>9. Solves(made, L)
  <2> HIDE DEF Solves
  <2> QED BY <1>8
<1>10. ASSUME NEW m \in 0..L PROVE made[m] = Body(made, m)
  <2> HIDE DEF made
  <2> QED BY <1>9
<1> HIDE DEF made, Solves
<1>11. made[0] = c
  BY <1>1, <1>3, <1>10
<1>12. ASSUME NEW i \in 1..L PROVE made[i] = RaiseFor(made[i - 1], events[i])
  <2>1. i \in 0..L
    BY <1>1
  <2> QED BY <2>1, <1>4, <1>10
<1>13. /\ RaiseAll(c, events) = made[Len(events)]
       /\ \A i \in 1..Len(events) : made[i] = RaiseFor(made[i - 1], events[i])
  BY <1>2, <1>12 DEF L
<1> QED BY <1>11, <1>13

-----------------------------------------------------------------------------
(* The engine: what is raised is later than all there is. *)

\* The fields of a campaign, of its history and of an entry.
CampaignShape(c) ==
  c = [now |-> c.now, player |-> c.player, shield |-> c.shield, conditions |-> c.conditions,
       notices |-> c.notices, guide |-> c.guide, raises |-> c.raises, visit |-> c.visit]

Elements(s) == {s[i] : i \in DOMAIN s}

EntryOk(e, last) ==
  /\ e = [id |-> e.id, sequence |-> e.sequence, key |-> e.key, amount |-> e.amount,
          firstAt |-> e.firstAt, lastAt |-> e.lastAt, count |-> e.count]
  /\ e.id \in Nat /\ e.sequence \in Nat /\ e.sequence <= last

NoticesOk(n) ==
  /\ n = [sequence |-> n.sequence, entries |-> n.entries, raisedThisSite |-> n.raisedThisSite]
  /\ n.sequence \in Nat
  /\ n.entries \in Seq(Elements(n.entries))
  /\ \A e \in Elements(n.entries) : EntryOk(e, n.sequence)

\* m is the history n, later: what it has from before is as it was.
Later(m, n) ==
  /\ NoticesOk(m) /\ n.sequence <= m.sequence
  /\ \A e \in Elements(m.entries) : e.sequence <= n.sequence => e \in Elements(n.entries)

LEMMA LaterIsReflexive ==
  ASSUME NEW n, NoticesOk(n)
  PROVE  Later(n, n)
  BY DEF Later, NoticesOk

LEMMA LaterIsTransitive ==
  ASSUME NEW l, NEW m, NEW n, NoticesOk(n), Later(m, n), Later(l, m)
  PROVE  Later(l, n)
<1>1. l.sequence \in Nat /\ m.sequence \in Nat /\ n.sequence \in Nat
  BY DEF Later, NoticesOk
<1>2. n.sequence <= l.sequence
  BY <1>1 DEF Later
<1>3. ASSUME NEW e \in Elements(l.entries), e.sequence <= n.sequence
      PROVE  e \in Elements(n.entries)
  <2>1. e.sequence \in Nat
    BY DEF Later, NoticesOk, EntryOk
  <2>2. e.sequence <= m.sequence
    BY <1>1, <1>3, <2>1 DEF Later
  <2>3. e \in Elements(m.entries)
    BY <2>2 DEF Later
  <2> QED BY <1>3, <2>3 DEF Later
<1> QED BY <1>2, <1>3 DEF Later

\* A sequence is one of its elements.
LEMMA SeqOfElements ==
  ASSUME NEW S, NEW s \in Seq(S)
  PROVE  s \in Seq(Elements(s)) /\ Elements(s) \subseteq S
<1>1. Len(s) \in Nat /\ DOMAIN s = 1..Len(s) /\ \A i \in DOMAIN s : s[i] \in S
  BY LenProperties, ElementOfSeq
<1>2. s \in [1..Len(s) -> Elements(s)]
  <2>1. s = [i \in 1..Len(s) |-> s[i]]
    BY SeqDef
  <2>2. \A i \in 1..Len(s) : s[i] \in Elements(s)
    BY <1>1 DEF Elements
  <2> QED BY <2>1, <2>2
<1>3. s \in Seq(Elements(s))
  BY <1>1, <1>2, SeqDef
<1> QED BY <1>1, <1>3 DEF Elements

LEMMA PartOfSeq ==
  ASSUME NEW S, NEW s \in Seq(S), NEW a \in Nat \ {0}, NEW b \in Int, b <= Len(s)
  PROVE  SubSeq(s, a, b) \in Seq(S)
<1>1. Len(s) \in Nat /\ DOMAIN s = 1..Len(s)
  BY LenProperties
<1>2. \A i \in a..b : s[i] \in S
  <2> SUFFICES ASSUME NEW i \in a..b PROVE s[i] \in S
    OBVIOUS
  <2>1. i \in 1..Len(s)
    BY <1>1
  <2> QED BY <2>1, ElementOfSeq
<1> QED BY <1>2, SubSeqProperties

\* Newest keeps a part of a sequence.
LEMMA NewestKeeps ==
  ASSUME NEW S, NEW s \in Seq(S), NEW limit \in Nat \ {0}
  PROVE  Newest(limit, s) \in Seq(S)
<1> DEFINE a == Len(s) - limit + 1
<1>1. Len(s) \in Nat
  BY LenProperties
<1>2. a \in Int /\ a <= Len(s)
  BY <1>1
<1> HIDE DEF a
<1>3. Max({1, a}) = IF 1 <= a THEN a ELSE 1
  BY <1>2, MaxOfTwo
<1>4. Max({1, a}) \in 1..(Len(s) + 1)
  BY <1>1, <1>2, <1>3
<1>5. SubSeq(s, Max({1, a}), Len(s)) \in Seq(S)
  <2>1. Max({1, a}) \in Nat \ {0} /\ Len(s) \in Int /\ Len(s) <= Len(s)
    BY <1>1, <1>4
  <2> QED BY <2>1, PartOfSeq
<1> QED BY <1>5 DEF Newest, a

\* The latest entry of a group is an entry, or there is none.
LEMMA LatestIsAnEntry ==
  ASSUME NEW n, NoticesOk(n), NEW key
  PROVE  LatestOfGroup(n, key) \in 0..Len(n.entries)
<1> DEFINE L == Len(n.entries)
           I == {i \in 1..L : n.entries[i].key = key}
           J == {L - i : i \in I}
<1>1. L \in Nat
  BY LenProperties DEF NoticesOk
<1>2. LatestOfGroup(n, key) = IF I # {} THEN Max(I) ELSE 0
  BY DEF LatestOfGroup, SelectLastInSeq
<1>3. I \subseteq 1..L
  OBVIOUS
<1> HIDE DEF I, L
<1>4. ASSUME I # {} PROVE Max(I) \in I
  <2>1. J \subseteq Nat /\ J # {}
    <3>1. \A i \in I : L - i \in Nat
      BY <1>1, <1>3
    <3>2. PICK i \in I : TRUE
      BY <1>4
    <3>3. L - i \in J
      BY <3>2
    <3> QED BY <3>1, <3>3
  <2>2. PICK k \in J : \A j \in J : k <= j
    BY <2>1, LeastExists
  <2>3. PICK x \in I : k = L - x
    BY <2>2
  <2>4. ASSUME NEW y \in I PROVE x >= y
    <3>1. k <= L - y
      BY <2>2
    <3> QED BY <1>1, <1>3, <2>3, <3>1
  <2>5. \E z \in I : \A y \in I : z >= y
    BY <2>4
  <2> QED BY <2>5 DEF Max
<1>5. LatestOfGroup(n, key) \in 0..L
  <2>1. CASE I = {}
    BY <1>1, <1>2, <2>1
  <2>2. CASE I # {}
    <3>1. Max(I) \in I
      BY <1>4, <2>2
    <3>2. Max(I) \in 0..L
      <4>1. Max(I) \in 1..L
        BY <1>3, <3>1
      <4> QED BY <1>1, <4>1
    <3> QED BY <1>2, <2>2, <3>2
  <2> QED BY <2>1, <2>2
<1> QED BY <1>5 DEF L

\* A repeat takes its entry to the end, under the number of the repeat; what
\* is new is there alone; and the oldest may go.
LEMMA RaisingIsLater ==
  ASSUME NEW n, NoticesOk(n), NEW d, NEW o
  PROVE  Later(RaiseNotification(n, d, o), n)
<1> DEFINE key == GroupKey(d, o)
           i == LatestOfGroup(n, key)
           next == n.sequence + 1
           joins == Joins(n, d, o)
           repeat == [n.entries[i] EXCEPT !.sequence = next, !.count = @ + 1, !.lastAt = o.at,
                                          !.amount = IF d.adds THEN @ + o.amount ELSE o.amount]
           first == [id |-> next, sequence |-> next, key |-> key, amount |-> o.amount,
                     firstAt |-> o.at, lastAt |-> o.at, count |-> 1]
           record == IF joins THEN repeat ELSE first
           others == IF joins THEN RemoveAt(n.entries, i) ELSE n.entries
           left == Newest(HistoryLimit, Append(others, record))
           memory == IF d.once /\ ~RaisedThisSite(n, key)
                     THEN Newest(SiteMemory, Append(n.raisedThisSite, key))
                     ELSE n.raisedThisSite
           m == RaiseNotification(n, d, o)
           S == Elements(n.entries) \cup {record}
<1>1. m = [sequence |-> next, entries |-> left, raisedThisSite |-> memory]
  BY DEF RaiseNotification
<1>2. /\ n.sequence \in Nat /\ next \in Nat /\ n.sequence < next
      /\ n.entries \in Seq(Elements(n.entries))
      /\ Len(n.entries) \in Nat /\ DOMAIN n.entries = 1..Len(n.entries)
  <2>1. n.sequence \in Nat /\ n.entries \in Seq(Elements(n.entries))
    BY DEF NoticesOk
  <2>2. Len(n.entries) \in Nat /\ DOMAIN n.entries = 1..Len(n.entries)
    BY <2>1, LenProperties
  <2> QED BY <2>1, <2>2
<1>3. joins => i \in 1..Len(n.entries)
  <2>1. i \in 0..Len(n.entries)
    BY LatestIsAnEntry
  <2>2. joins => i > 0
    BY DEF Joins
  <2> HIDE DEF i, joins
  <2> QED BY <1>2, <2>1, <2>2
<1>4. EntryOk(first, next)
  <2> HIDE DEF next, key
  <2> QED BY <1>2 DEF EntryOk
<1>5. joins => EntryOk(repeat, next)
  <2> SUFFICES ASSUME joins PROVE EntryOk(repeat, next)
    OBVIOUS
  <2> DEFINE e == n.entries[i]
  <2>1. e \in Elements(n.entries)
    BY <1>2, <1>3 DEF Elements
  <2>2. EntryOk(e, n.sequence)
    BY <2>1 DEF NoticesOk
  <2> DEFINE count == e.count + 1
             amount == IF d.adds THEN e.amount + o.amount ELSE o.amount
  <2>3. repeat = [e EXCEPT !.sequence = next, !.count = count, !.lastAt = o.at, !.amount = amount]
    OBVIOUS
  <2>4. e.id \in Nat
    BY <2>2 DEF EntryOk
  <2> HIDE DEF e, next, repeat, count, amount
  <2>5. repeat = [id |-> e.id, sequence |-> next, key |-> e.key, amount |-> amount,
                  firstAt |-> e.firstAt, lastAt |-> o.at, count |-> count]
    BY <2>2, <2>3 DEF EntryOk
  <2> QED BY <1>2, <2>4, <2>5 DEF EntryOk
<1>6. EntryOk(record, next) /\ record.sequence = next
  <2>1. first.sequence = next
    OBVIOUS
  <2>2. joins => repeat.sequence = next
    <3> SUFFICES ASSUME joins PROVE repeat.sequence = next
      OBVIOUS
    <3> DEFINE e == n.entries[i]
    <3>1. e \in Elements(n.entries)
      BY <1>2, <1>3 DEF Elements
    <3>2. EntryOk(e, n.sequence)
      BY <3>1 DEF NoticesOk
    <3> HIDE DEF e, next
    <3> QED BY <3>2 DEF EntryOk
  <2> HIDE DEF first, repeat, joins, next
  <2> QED BY <1>4, <1>5, <2>1, <2>2
<1> HIDE DEF key, i, repeat, first, joins
<1>7. others \in Seq(Elements(n.entries))
  <2>1. CASE joins
    <3>1. SubSeq(n.entries, 1, i - 1) \in Seq(Elements(n.entries))
      <4>1. i - 1 \in Int /\ i - 1 <= Len(n.entries)
        BY <1>2, <1>3, <2>1
      <4> QED BY <1>2, <4>1, PartOfSeq
    <3>2. SubSeq(n.entries, i + 1, Len(n.entries)) \in Seq(Elements(n.entries))
      <4>1. i + 1 \in Nat \ {0} /\ Len(n.entries) \in Int /\ Len(n.entries) <= Len(n.entries)
        BY <1>2, <1>3, <2>1
      <4> QED BY <1>2, <4>1, PartOfSeq
    <3>3. RemoveAt(n.entries, i) \in Seq(Elements(n.entries))
      BY <3>1, <3>2, ConcatProperties DEF RemoveAt
    <3> QED BY <3>3, <2>1
  <2>2. CASE ~joins
    BY <1>2, <2>2
  <2> QED BY <2>1, <2>2
<1> HIDE DEF others, record, memory
<1>8. left \in Seq(S)
  <2>1. others \in Seq(S)
    <3>1. Elements(n.entries) \subseteq S
      OBVIOUS
    <3> HIDE DEF S
    <3> QED BY <1>7, <3>1, SeqDef
  <2>2. Append(others, record) \in Seq(S)
    <3>1. record \in S
      OBVIOUS
    <3> HIDE DEF S
    <3> QED BY <2>1, <3>1, AppendProperties
  <2>3. HistoryLimit \in Nat \ {0}
    BY NoticesAssumption
  <2> HIDE DEF S
  <2> QED BY <2>2, <2>3, NewestKeeps
<1>9. m.entries \in Seq(Elements(m.entries)) /\ Elements(m.entries) \subseteq S
  <2>1. m.entries = left
    BY <1>1
  <2> HIDE DEF S, m, left
  <2> QED BY <1>8, <2>1, SeqOfElements
<1>10. ASSUME NEW e \in Elements(m.entries)
       PROVE  /\ EntryOk(e, next)
              /\ e.sequence <= n.sequence => e \in Elements(n.entries)
  <2>1. CASE e = record
    <3>1. ~ next <= n.sequence
      BY <1>2
    <3> HIDE DEF next
    <3> QED BY <1>6, <2>1, <3>1
  <2>2. CASE e \in Elements(n.entries)
    <3>1. EntryOk(e, n.sequence)
      BY <2>2 DEF NoticesOk
    <3> HIDE DEF next
    <3> QED BY <1>2, <2>2, <3>1 DEF EntryOk
  <2>3. e = record \/ e \in Elements(n.entries)
    BY <1>9
  <2> QED BY <2>1, <2>2, <2>3
<1>11. /\ m.sequence = next
       /\ m = [sequence |-> m.sequence, entries |-> m.entries, raisedThisSite |-> m.raisedThisSite]
  BY <1>1
<1> HIDE DEF m, next
<1>12. NoticesOk(m)
  BY <1>2, <1>9, <1>10, <1>11 DEF NoticesOk
<1>13. n.sequence <= m.sequence
  BY <1>2, <1>11
<1>14. Later(m, n)
  BY <1>10, <1>12, <1>13 DEF Later
<1> QED BY <1>14 DEF m

\* The campaign b after the campaign c.
Follows(b, c) == CampaignShape(b) /\ Later(b.notices, c.notices)

LEMMA FollowsIsReflexive ==
  ASSUME NEW c, CampaignShape(c), NoticesOk(c.notices)
  PROVE  Follows(c, c)
  BY LaterIsReflexive DEF Follows

LEMMA FollowsIsTransitive ==
  ASSUME NEW a, NEW b, NEW c, NoticesOk(c.notices), Follows(b, c), Follows(a, b)
  PROVE  Follows(a, c)
  BY LaterIsTransitive DEF Follows

LEMMA RaiseFollows ==
  ASSUME NEW c, CampaignShape(c), NoticesOk(c.notices), NEW d, NEW e
  PROVE  Follows(RaiseIf(c, d, e), c)
<1> DEFINE n == RaiseNotification(c.notices, d, e)
           b == [c EXCEPT !.notices = RaiseNotification(@, d, e), !.raises = Append(@, Told(c, d, e))]
<1>1. RaiseIf(c, d, e) = c \/ RaiseIf(c, d, e) = b
  BY DEF RaiseIf, Raise
<1>2. CampaignShape(b) /\ b.notices = n
  <2> DEFINE r == Append(c.raises, Told(c, d, e))
  <2>1. b = [c EXCEPT !.notices = n, !.raises = r]
    OBVIOUS
  <2> HIDE DEF b, n, r
  <2>2. b = [now |-> c.now, player |-> c.player, shield |-> c.shield, conditions |-> c.conditions,
             notices |-> n, guide |-> c.guide, raises |-> r, visit |-> c.visit]
    BY <2>1 DEF CampaignShape
  <2> QED BY <2>2 DEF CampaignShape
<1>3. Later(n, c.notices)
  BY RaisingIsLater
<1> HIDE DEF b, n
<1>4. Follows(b, c)
  BY <1>2, <1>3 DEF Follows
<1> QED BY <1>1, <1>4, FollowsIsReflexive

LEMMA ArriveFollows ==
  ASSUME NEW c, CampaignShape(c), NoticesOk(c.notices)
  PROVE  Follows(Arrive(c), c)
<1> DEFINE n == Forget(c.notices)
           v == c.visit + 1
           b == Arrive(c)
<1>1. b = [c EXCEPT !.notices = n, !.visit = v]
  BY DEF Arrive
<1>2. NoticesOk(n) /\ n.sequence = c.notices.sequence /\ n.entries = c.notices.entries
  BY DEF Forget, NoticesOk
<1>3. Later(n, c.notices)
  BY <1>2 DEF Later, NoticesOk
<1> HIDE DEF n, b, v
<1>4. b = [now |-> c.now, player |-> c.player, shield |-> c.shield, conditions |-> c.conditions,
           notices |-> n, guide |-> c.guide, raises |-> c.raises, visit |-> v]
  BY <1>1 DEF CampaignShape
<1>5. CampaignShape(b) /\ b.notices = n
  BY <1>4 DEF CampaignShape
<1>6. Follows(b, c)
  BY <1>3, <1>5 DEF Follows
<1> QED BY <1>6 DEF b

LEMMA RaiseForFollows ==
  ASSUME NEW c, CampaignShape(c), NoticesOk(c.notices), NEW e
  PROVE  Follows(RaiseFor(c, e), c)
<1> DEFINE L == Len(Authored)
           start == IF e.kind \in SiteChanges THEN Arrive(c) ELSE c
<1>1. PICK g : /\ RaiseFor(c, e) = g[L] /\ g[0] = start
               /\ \A i \in 1..L : g[i] = RaiseIf(g[i - 1], Authored[i], e)
  BY RaiseForUnfolds
<1> DEFINE W == {i \in 0..L : ~Follows(g[i], c)}
<1>2. L \in Nat
  BY NoticesAssumption
<1>3. Follows(start, c)
  BY FollowsIsReflexive, ArriveFollows
<1> HIDE DEF start, L
<1>4. 0 \notin W
  BY <1>1, <1>3
<1>5. ASSUME NEW n \in 1..L, n \in W PROVE n - 1 \in W
  <2>1. n - 1 \in 0..L
    BY <1>2
  <2> SUFFICES ASSUME Follows(g[n - 1], c) PROVE Follows(g[n], c)
    BY <2>1, <1>5
  <2>2. CampaignShape(g[n - 1]) /\ NoticesOk(g[n - 1].notices)
    BY DEF Follows, Later
  <2>3. Follows(RaiseIf(g[n - 1], Authored[n], e), g[n - 1])
    BY <2>2, RaiseFollows
  <2>4. g[n] = RaiseIf(g[n - 1], Authored[n], e)
    BY <1>1
  <2> QED BY <2>3, <2>4, FollowsIsTransitive
<1>6. W \subseteq 0..L
  OBVIOUS
<1>7. L \in W \/ Follows(g[L], c)
  BY <1>2
<1> HIDE DEF W
<1>8. W = {}
  BY <1>2, <1>4, <1>5, <1>6, UpTo
<1> QED BY <1>1, <1>7, <1>8

LEMMA RaiseAllFollows ==
  ASSUME NEW c, CampaignShape(c), NoticesOk(c.notices), NEW events, Len(events) \in Nat
  PROVE  Follows(RaiseAll(c, events), c)
<1> DEFINE L == Len(events)
<1>1. PICK g : /\ RaiseAll(c, events) = g[L] /\ g[0] = c
               /\ \A i \in 1..L : g[i] = RaiseFor(g[i - 1], events[i])
  BY RaiseAllUnfolds
<1> DEFINE W == {i \in 0..L : ~Follows(g[i], c)}
<1>2. L \in Nat
  OBVIOUS
<1> HIDE DEF L
<1>3. 0 \notin W
  BY <1>1, FollowsIsReflexive
<1>4. ASSUME NEW n \in 1..L, n \in W PROVE n - 1 \in W
  <2>1. n - 1 \in 0..L
    BY <1>2
  <2> SUFFICES ASSUME Follows(g[n - 1], c) PROVE Follows(g[n], c)
    BY <2>1, <1>4
  <2>2. CampaignShape(g[n - 1]) /\ NoticesOk(g[n - 1].notices)
    BY DEF Follows, Later
  <2>3. Follows(RaiseFor(g[n - 1], events[n]), g[n - 1])
    BY <2>2, RaiseForFollows
  <2>4. g[n] = RaiseFor(g[n - 1], events[n])
    BY <1>1
  <2> QED BY <2>3, <2>4, FollowsIsTransitive
<1>5. W \subseteq 0..L
  OBVIOUS
<1>6. L \in W \/ Follows(g[L], c)
  BY <1>2
<1> HIDE DEF W
<1>7. W = {}
  BY <1>2, <1>3, <1>4, <1>5, UpTo
<1> QED BY <1>1, <1>6, <1>7

\* The guidance raises nothing itself; what it completes are further events.
Guided(t, c) ==
  /\ CampaignShape(t.campaign) /\ t.campaign.notices = c.notices
  /\ \E S : t.events \in Seq(S)

LEMMA RecordKeeps ==
  ASSUME NEW c, CampaignShape(c), NEW s, NEW outcome
  PROVE  CampaignShape(RecordStep(c, s, outcome)) /\ RecordStep(c, s, outcome).notices = c.notices
<1> DEFINE b == RecordStep(c, s, outcome)
           record == [outcome |-> outcome, at |-> c.now, shown |-> ~c.guide.hidden]
           guide == [c.guide EXCEPT !.steps = [id \in Recorded(c.guide) \cup {s.id} |->
                                                 IF id = s.id THEN record ELSE c.guide.steps[id]]]
<1>1. b = [c EXCEPT !.guide = guide]
  BY DEF RecordStep
<1> HIDE DEF b, guide
<1>2. b = [now |-> c.now, player |-> c.player, shield |-> c.shield, conditions |-> c.conditions,
           notices |-> c.notices, guide |-> guide, raises |-> c.raises, visit |-> c.visit]
  BY <1>1 DEF CampaignShape
<1>3. CampaignShape(b) /\ b.notices = c.notices
  BY <1>2 DEF CampaignShape
<1> QED BY <1>3 DEF b

LEMMA VisitGuides ==
  ASSUME NEW t, NEW c, Guided(t, c), NEW s
  PROVE  Guided(Visit(t, s), c)
<1> DEFINE x == StepEvent(s, t.campaign)
           b == RecordStep(t.campaign, s, "completed")
           u == [campaign |-> b, events |-> Append(t.events, x)]
<1>1. Visit(t, s) = t \/ Visit(t, s) = u
  BY DEF Visit
<1>2. CampaignShape(b) /\ b.notices = c.notices
  BY RecordKeeps DEF Guided
<1>3. PICK S : t.events \in Seq(S)
  BY DEF Guided
<1> DEFINE T == S \cup {x}
<1>4. t.events \in Seq(T) /\ x \in T
  <2>1. S \subseteq T
    OBVIOUS
  <2> HIDE DEF T
  <2>2. t.events \in Seq(T)
    BY <1>3, <2>1, SeqDef
  <2> QED BY <2>2 DEF T
<1> HIDE DEF x, b, T
<1>5. Append(t.events, x) \in Seq(T)
  BY <1>4, AppendProperties
<1>6. u.campaign = b /\ u.events = Append(t.events, x)
  OBVIOUS
<1> HIDE DEF u
<1>7. Guided(u, c)
  BY <1>2, <1>5, <1>6 DEF Guided
<1> QED BY <1>1, <1>7

LEMMA RoundGuides ==
  ASSUME NEW t, NEW c, Guided(t, c)
  PROVE  Guided(Round(t), c)
<1> DEFINE L == Len(Steps)
<1>1. PICK g : /\ Round(t) = g[L] /\ g[0] = t
               /\ \A i \in 1..L : g[i] = Visit(g[i - 1], Steps[i])
  BY RoundUnfolds
<1> DEFINE W == {i \in 0..L : ~Guided(g[i], c)}
<1>2. L \in Nat
  BY NoticesAssumption
<1> HIDE DEF L
<1>3. 0 \notin W
  BY <1>1
<1>4. ASSUME NEW n \in 1..L, n \in W PROVE n - 1 \in W
  <2>1. n - 1 \in 0..L
    BY <1>2
  <2>2. Guided(g[n - 1], c) => Guided(g[n], c)
    BY <1>1, VisitGuides
  <2> QED BY <2>1, <2>2, <1>4
<1>5. W \subseteq 0..L
  OBVIOUS
<1>6. L \in W \/ Guided(g[L], c)
  BY <1>2
<1> HIDE DEF W
<1>7. W = {}
  BY <1>2, <1>3, <1>4, <1>5, UpTo
<1> QED BY <1>1, <1>6, <1>7

LEMMA AdvanceGuides ==
  ASSUME NEW t, NEW c, Guided(t, c)
  PROVE  Guided(AdvanceGuidance(t), c)
<1> DEFINE L == Len(Steps)
<1>1. PICK g : /\ AdvanceGuidance(t) = g[L] /\ g[0] = t
               /\ \A i \in 1..L : g[i] = Round(g[i - 1])
  BY AdvanceUnfolds
<1> DEFINE W == {i \in 0..L : ~Guided(g[i], c)}
<1>2. L \in Nat
  BY NoticesAssumption
<1> HIDE DEF L
<1>3. 0 \notin W
  BY <1>1
<1>4. ASSUME NEW n \in 1..L, n \in W PROVE n - 1 \in W
  <2>1. n - 1 \in 0..L
    BY <1>2
  <2>2. Guided(g[n - 1], c) => Guided(g[n], c)
    BY <1>1, RoundGuides
  <2> QED BY <2>1, <2>2, <1>4
<1>5. W \subseteq 0..L
  OBVIOUS
<1>6. L \in W \/ Guided(g[L], c)
  BY <1>2
<1> HIDE DEF W
<1>7. W = {}
  BY <1>2, <1>3, <1>4, <1>5, UpTo
<1> QED BY <1>1, <1>6, <1>7

\* A whole transaction.
LEMMA ObservedFollows ==
  ASSUME NEW c, CampaignShape(c), NoticesOk(c.notices), NEW before,
         NEW events, NEW S, events \in Seq(S)
  PROVE  Follows(ObserveTransaction(c, before, events), c)
<1> DEFINE t == [campaign |-> c, events |-> events]
           u == AdvanceGuidance(t)
           raised == RaiseAll(u.campaign, u.events)
<1>1. Guided(t, c)
  BY DEF Guided
<1>2. Guided(u, c)
  <2> HIDE DEF t
  <2> QED BY <1>1, AdvanceGuides
<1>3. ObserveTransaction(c, before, events) = RaiseNotifications(u.campaign, before, u.events)
  BY DEF ObserveTransaction
<1> HIDE DEF t, u
<1>4. CampaignShape(u.campaign) /\ u.campaign.notices = c.notices
  BY <1>2 DEF Guided
<1>5. Len(u.events) \in Nat
  BY <1>2, LenProperties DEF Guided
<1>6. Follows(raised, u.campaign)
  BY <1>4, <1>5, RaiseAllFollows
<1>7. Follows(raised, c)
  BY <1>4, <1>6 DEF Follows
<1>8. \/ RaiseNotifications(u.campaign, before, u.events) = raised
      \/ RaiseNotifications(u.campaign, before, u.events) = RaiseFor(raised, LayerEvent(u.campaign))
  BY DEF RaiseNotifications
<1> HIDE DEF raised
<1>9. CampaignShape(raised) /\ NoticesOk(raised.notices)
  BY <1>7 DEF Follows, Later
<1>10. Follows(RaiseFor(raised, LayerEvent(u.campaign)), raised)
  BY <1>9, RaiseForFollows
<1>11. Follows(RaiseFor(raised, LayerEvent(u.campaign)), c)
  BY <1>7, <1>10, FollowsIsTransitive
<1> QED BY <1>3, <1>7, <1>8, <1>11

-----------------------------------------------------------------------------
(* What is read of the history. *)

LEMMA PublishedIsAHistory ==
  ASSUME NEW n, NoticesOk(n)
  PROVE  Published(n) \in Histories /\ Published(n).sequence = n.sequence
<1> DEFINE Record == [id : Nat, sequence : Nat, severity : Severities, hideable : BOOLEAN, cue : BOOLEAN]
           es == Published(n).entries
<1>1. ASSUME NEW r \in es PROVE r \in Record
  <2>1. PICK i \in DOMAIN n.entries :
          /\ n.entries[i].key[1] \in DOMAIN Definition
          /\ r = [id |-> n.entries[i].id, sequence |-> n.entries[i].sequence,
                  severity |-> Definition[n.entries[i].key[1]].severity,
                  hideable |-> Definition[n.entries[i].key[1]].hideable,
                  cue |-> Definition[n.entries[i].key[1]].cue]
    BY DEF Published
  <2> DEFINE e == n.entries[i]
             d == Definition[e.key[1]]
  <2>2. /\ d.severity \in Severities /\ d.hideable \in BOOLEAN /\ d.cue \in BOOLEAN
    BY <2>1, DefinitionsAreAuthored
  <2>3. e.id \in Nat /\ e.sequence \in Nat
    <3>1. e \in Elements(n.entries)
      BY DEF Elements
    <3> QED BY <3>1 DEF NoticesOk, EntryOk
  <2>4. r = [id |-> e.id, sequence |-> e.sequence, severity |-> d.severity,
             hideable |-> d.hideable, cue |-> d.cue]
    BY <2>1
  <2> HIDE DEF e, d
  <2> QED BY <2>2, <2>3, <2>4
<1>2. Published(n) = [sequence |-> n.sequence, entries |-> es]
  BY DEF Published
<1>3. n.sequence \in Nat
  BY DEF NoticesOk
<1>4. es \in SUBSET Record
  <2> HIDE DEF es, Record
  <2> QED BY <1>1
<1>5. Histories = [sequence : Nat, entries : SUBSET Record]
  BY DEF Histories
<1> HIDE DEF es, Record
<1> QED BY <1>2, <1>3, <1>4, <1>5

\* What is read later of what was there before is what was read before.
LEMMA PublishedLater ==
  ASSUME NEW n, NEW m, Later(m, n), NEW r \in Published(m).entries, r.sequence <= n.sequence
  PROVE  r \in Published(n).entries
<1> DEFINE R(e) == [id |-> e.id, sequence |-> e.sequence,
                    severity |-> Definition[e.key[1]].severity,
                    hideable |-> Definition[e.key[1]].hideable,
                    cue |-> Definition[e.key[1]].cue]
<1>1. PICK i \in DOMAIN m.entries :
        m.entries[i].key[1] \in DOMAIN Definition /\ r = R(m.entries[i])
  BY DEF Published
<1>2. m.entries[i] \in Elements(m.entries)
  BY DEF Elements
<1>3. r.sequence = m.entries[i].sequence
  BY <1>1
<1>4. m.entries[i] \in Elements(n.entries)
  BY <1>2, <1>3 DEF Later
<1>5. PICK j \in DOMAIN n.entries : m.entries[i] = n.entries[j]
  BY <1>4 DEF Elements
<1>6. n.entries[j].key[1] \in DOMAIN Definition /\ r = R(n.entries[j])
  BY <1>1, <1>5
<1> QED BY <1>6 DEF Published

-----------------------------------------------------------------------------
(* What the center tells. *)

\* The last cue, if there was one.
CueOk(t) == t.cue = Nothing \/ t.cue \in Cues

\* One effect leaves alone what it is not about.
LEMMA ArmKeeps ==
  ASSUME NEW t, CenterShape(t), NEW now
  PROVE  /\ CenterShape(Arm(t, now))
         /\ Arm(t, now).toasts = t.toasts /\ Arm(t, now).seen = t.seen /\ Arm(t, now).held = t.held
         /\ Arm(t, now).cue = t.cue /\ Arm(t, now).visible = t.visible
         /\ Arm(t, now).sound = t.sound
<1> DEFINE timer == IF Unheld(t) = {} THEN Nothing ELSE Max({now, Min({Leaves(x) : x \in Unheld(t)})})
<1>1. Arm(t, now) = [t EXCEPT !.timer = timer]
  BY DEF Arm
<1> HIDE DEF timer
<1> QED BY <1>1 DEF CenterShape

LEMMA ShowTells ==
  ASSUME NEW t, CenterShape(t), NEW shown, NEW now
  PROVE  LET u == Show(t, shown, now)
         IN  /\ CenterShape(u) /\ u.seen = t.seen /\ u.cue = t.cue
             /\ \A e \in shown : Toast(e, now) \in u.toasts
             /\ \A x \in u.toasts : x \in t.toasts \/ \E e \in shown : x = Toast(e, now)
<1> DEFINE u == Show(t, shown, now)
<1>1. CASE shown = {}
  BY <1>1 DEF Show
<1>2. CASE shown # {}
  <2> DEFINE others == {x \in t.toasts : \A e \in shown : e.id # x.id}
             new == {Toast(e, now) : e \in shown}
             v == [t EXCEPT !.toasts = others \cup new]
  <2>1. u = Arm(v, now)
    BY <1>2 DEF Show
  <2>2. others \subseteq t.toasts
    OBVIOUS
  <2>3. \A e \in shown : Toast(e, now) \in new
    OBVIOUS
  <2>4. \A x \in new : \E e \in shown : x = Toast(e, now)
    OBVIOUS
  <2> HIDE DEF others, new, u
  <2>5. CenterShape(v) /\ v.toasts = others \cup new /\ v.seen = t.seen /\ v.cue = t.cue
    BY DEF CenterShape
  <2> HIDE DEF v
  <2>6. /\ CenterShape(u) /\ u.toasts = others \cup new /\ u.seen = t.seen /\ u.cue = t.cue
    BY <2>1, <2>5, ArmKeeps
  <2>7. /\ CenterShape(u) /\ u.seen = t.seen /\ u.cue = t.cue
        /\ \A e \in shown : Toast(e, now) \in u.toasts
        /\ \A x \in u.toasts : x \in t.toasts \/ \E e \in shown : x = Toast(e, now)
    BY <2>2, <2>3, <2>4, <2>6
  <2> QED BY <2>7 DEF u
<1> QED BY <1>1, <1>2

LEMMA PlayCueTells ==
  ASSUME NEW t, CenterShape(t), CueOk(t), NEW rank \in 0..3, NEW now \in Nat
  PROVE  LET u == PlayCue(t, rank, now)
         IN  /\ CenterShape(u) /\ CueOk(u) /\ u.toasts = t.toasts /\ u.seen = t.seen
             /\ u.cue # Nothing /\ u.cue.rank \in 0..3 /\ u.cue.rank >= rank
             /\ now - u.cue.at < CueSpacing
<1>1. CASE TooSoon(t, rank, now)
  <2>1. t.cue # Nothing /\ now - t.cue.at < CueSpacing /\ rank <= t.cue.rank
    BY <1>1 DEF TooSoon
  <2>2. t.cue \in Cues
    BY <2>1 DEF CueOk
  <2>3. t.cue.rank \in 0..3
    BY <2>2 DEF Cues
  <2>4. PlayCue(t, rank, now) = t
    BY <1>1 DEF PlayCue
  <2> QED BY <2>1, <2>3, <2>4
<1>2. CASE ~TooSoon(t, rank, now)
  <2> DEFINE cue == [at |-> now, rank |-> rank]
             u == [t EXCEPT !.cue = cue]
  <2>1. PlayCue(t, rank, now) = u
    BY <1>2 DEF PlayCue
  <2>2. /\ cue \in Cues /\ cue.rank = rank /\ cue.at = now
    BY DEF Cues
  <2>3. cue # Nothing
    BY <2>2, NothingAssumption
  <2>4. now - now < CueSpacing
    BY ToastsAssumption
  <2> HIDE DEF cue
  <2>5. CenterShape(u) /\ u.toasts = t.toasts /\ u.seen = t.seen /\ u.cue = cue
    BY DEF CenterShape
  <2>6. CueOk(u)
    BY <2>2, <2>5 DEF CueOk
  <2> HIDE DEF u
  <2> QED BY <2>1, <2>2, <2>3, <2>4, <2>5, <2>6
<1> QED BY <1>1, <1>2

LEMMA RanksAreSmall ==
  ASSUME NEW s \in Severities
  PROVE  Rank[s] \in 0..3
  BY DEF Severities, Rank

\* The loudest of them is as loud as each.
LEMMA MaxOfRanks ==
  ASSUME NEW R, R \subseteq 0..3, R # {}
  PROVE  Max(R) \in R /\ \A r \in R : r <= Max(R)
<1>1. \E x \in R : \A y \in R : x >= y
  <2>1. CASE 3 \in R
    BY <2>1
  <2>2. CASE 3 \notin R /\ 2 \in R
    BY <2>2
  <2>3. CASE 3 \notin R /\ 2 \notin R /\ 1 \in R
    BY <2>3
  <2>4. CASE 3 \notin R /\ 2 \notin R /\ 1 \notin R
    <3>1. ASSUME NEW x \in R PROVE x = 0
      BY <2>4
    <3>2. PICK x \in R : TRUE
      OBVIOUS
    <3> QED BY <3>1, <3>2
  <2> QED BY <2>1, <2>2, <2>3, <2>4
<1>2. Max(R) \in R /\ \A y \in R : Max(R) >= y
  BY <1>1 DEF Max
<1> QED BY <1>2

LEMMA SoundTells ==
  ASSUME NEW t, CenterShape(t), CueOk(t), NEW now \in Nat,
         NEW audible, \A e \in audible : e.severity \in Severities
  PROVE  LET u == Sound(t, audible, now)
         IN  /\ CenterShape(u) /\ CueOk(u) /\ u.toasts = t.toasts /\ u.seen = t.seen
             /\ \A e \in audible : /\ u.cue # Nothing /\ u.cue.rank >= Rank[e.severity]
                                   /\ now - u.cue.at < CueSpacing
<1>1. CASE audible = {}
  BY <1>1 DEF Sound
<1>2. CASE audible # {}
  <2> DEFINE R == {Rank[e.severity] : e \in audible}
             u == PlayCue(t, Max(R), now)
  <2>1. Sound(t, audible, now) = u
    BY <1>2 DEF Sound
  <2>2. \A e \in audible : Rank[e.severity] \in R /\ Rank[e.severity] \in 0..3
    BY RanksAreSmall
  <2>3. R \subseteq 0..3 /\ R # {}
    BY <1>2, <2>2
  <2> HIDE DEF R
  <2>4. Max(R) \in 0..3 /\ \A r \in R : r <= Max(R)
    BY <2>3, MaxOfRanks
  <2>5. /\ CenterShape(u) /\ CueOk(u) /\ u.toasts = t.toasts /\ u.seen = t.seen
        /\ u.cue # Nothing /\ u.cue.rank \in 0..3 /\ u.cue.rank >= Max(R)
        /\ now - u.cue.at < CueSpacing
    BY <2>4, PlayCueTells
  <2> HIDE DEF u
  <2>6. ASSUME NEW e \in audible PROVE u.cue.rank >= Rank[e.severity]
    BY <2>2, <2>4, <2>5
  <2> QED BY <2>1, <2>5, <2>6
<1> QED BY <1>1, <1>2


\* The effect on a history that comes after the one it saw: toasts for what is
\* new and not hidden, and what is new and to be heard is heard.
LEMMA OnNotificationsTells ==
  ASSUME NEW t, CenterShape(t), CueOk(t), NEW now \in Nat, NEW data \in Histories,
         t.seen \in Nat, t.seen <= data.sequence
  PROVE  LET u == OnNotifications(t, data, now)
         IN  /\ CenterShape(u) /\ CueOk(u) /\ u.seen = data.sequence
             /\ \A x \in u.toasts : x \in t.toasts \/ (x.sequence \in Nat /\ x.sequence > t.seen)
             /\ \A e \in data.entries : e.sequence > t.seen =>
                  /\ (e.hideable /\ ~t.visible) \/ \E x \in u.toasts : x.sequence = e.sequence
                  /\ e.cue /\ t.sound =>
                       /\ u.cue # Nothing /\ u.cue.rank >= Rank[e.severity]
                       /\ now - u.cue.at < CueSpacing
<1> DEFINE looked == [t EXCEPT !.seen = Max({t.seen, data.sequence})]
           appear == {e \in Fresh(t, data) : Appears(t, e)}
           shown == Show(looked, appear, now)
           audible == {e \in Fresh(t, data) : Audible(t, e)}
           u == Sound(shown, audible, now)
<1>1. OnNotifications(t, data, now) = u
  <2>1. t.seen # Nothing
    BY NothingAssumption
  <2> QED BY <2>1 DEF OnNotifications
<1>2. data.sequence \in Nat /\ \A e \in data.entries : e.severity \in Severities
  BY DEF Histories
<1>3. /\ CenterShape(looked) /\ looked.seen = data.sequence
      /\ looked.toasts = t.toasts /\ looked.cue = t.cue
  <2>1. Max({t.seen, data.sequence}) = data.sequence
    BY <1>2, MaxOfTwo
  <2>2. looked = [t EXCEPT !.seen = data.sequence]
    BY <2>1
  <2> HIDE DEF looked
  <2> QED BY <2>2 DEF CenterShape
<1>4. ASSUME NEW e \in appear
      PROVE  Toast(e, now).sequence \in Nat /\ Toast(e, now).sequence > t.seen
  <2>1. e \in data.entries /\ e.sequence > t.seen
    BY DEF Fresh
  <2>2. e.sequence \in Nat
    BY <2>1 DEF Histories
  <2> HIDE DEF appear
  <2> QED BY <2>1, <2>2 DEF Toast
<1>5. ASSUME NEW e \in data.entries, e.sequence > t.seen
      PROVE  /\ (e.hideable /\ ~t.visible) \/ e \in appear
             /\ e.cue /\ t.sound => e \in audible
  <2>1. e \in Fresh(t, data)
    BY <1>5 DEF Fresh
  <2>2. (e.hideable /\ ~t.visible) \/ Appears(t, e)
    BY DEF Appears
  <2>3. e.cue /\ t.sound => Audible(t, e)
    BY DEF Audible
  <2> QED BY <2>1, <2>2, <2>3
<1>6. \A e \in audible : e.severity \in Severities
  BY <1>2 DEF Fresh
<1>7. ASSUME NEW e PROVE Toast(e, now).sequence = e.sequence
  BY DEF Toast
<1> HIDE DEF looked, appear, audible
<1>8. /\ CenterShape(shown) /\ shown.seen = data.sequence /\ shown.cue = t.cue
      /\ \A e \in appear : Toast(e, now) \in shown.toasts
      /\ \A x \in shown.toasts : x \in t.toasts \/ \E e \in appear : x = Toast(e, now)
  BY <1>3, ShowTells
<1> HIDE DEF shown
<1>9. CueOk(shown)
  BY <1>8 DEF CueOk
<1>10. /\ CenterShape(u) /\ CueOk(u) /\ u.toasts = shown.toasts /\ u.seen = shown.seen
       /\ \A e \in audible : /\ u.cue # Nothing /\ u.cue.rank >= Rank[e.severity]
                             /\ now - u.cue.at < CueSpacing
  BY <1>6, <1>8, <1>9, SoundTells
<1> HIDE DEF u
<1>11. \A x \in u.toasts : x \in t.toasts \/ (x.sequence \in Nat /\ x.sequence > t.seen)
  BY <1>4, <1>8, <1>10
<1>12. ASSUME NEW e \in data.entries, e.sequence > t.seen
       PROVE  /\ (e.hideable /\ ~t.visible) \/ \E x \in u.toasts : x.sequence = e.sequence
              /\ e.cue /\ t.sound =>
                   /\ u.cue # Nothing /\ u.cue.rank >= Rank[e.severity]
                   /\ now - u.cue.at < CueSpacing
  <2>1. (e.hideable /\ ~t.visible) \/ \E x \in u.toasts : x.sequence = e.sequence
    <3>1. CASE e.hideable /\ ~t.visible
      BY <3>1
    <3>2. CASE e \in appear
      <4>1. Toast(e, now) \in u.toasts
        BY <1>8, <1>10, <3>2
      <4> QED BY <4>1, <1>7
    <3> QED BY <1>5, <1>12, <3>1, <3>2
  <2>2. e.cue /\ t.sound =>
          /\ u.cue # Nothing /\ u.cue.rank >= Rank[e.severity]
          /\ now - u.cue.at < CueSpacing
    BY <1>5, <1>10, <1>12
  <2> QED BY <2>1, <2>2
<1>13. CenterShape(u) /\ CueOk(u) /\ u.seen = data.sequence
  BY <1>8, <1>10
<1> QED BY <1>1, <1>11, <1>12, <1>13


\* What the player, the timer and the save status do to the center: nothing is
\* seen by it, and no toast comes.
Quieter(u, t) ==
  /\ CueOk(u) /\ u.seen = t.seen /\ u.toasts \subseteq t.toasts

LEMMA ExpireQuietens ==
  ASSUME NEW t, CenterShape(t), CueOk(t), NEW now
  PROVE  Quieter(Expire(t, now), t)
<1> DEFINE kept == {x \in t.toasts : x.id = t.held \/ Leaves(x) > now}
           u == [t EXCEPT !.toasts = kept]
<1>1. Expire(t, now) = Arm(u, now)
  BY DEF Expire
<1>2. kept \subseteq t.toasts
  OBVIOUS
<1> HIDE DEF kept
<1>3. CenterShape(u) /\ u.toasts = kept /\ u.seen = t.seen /\ u.cue = t.cue
  BY DEF CenterShape
<1> HIDE DEF u
<1>4. Arm(u, now).toasts = kept /\ Arm(u, now).seen = t.seen /\ Arm(u, now).cue = t.cue
  BY <1>3, ArmKeeps
<1> QED BY <1>1, <1>2, <1>4 DEF Quieter, CueOk

LEMMA DismissQuietens ==
  ASSUME NEW t, CenterShape(t), CueOk(t), NEW id, NEW now
  PROVE  Quieter(Dismiss(t, id, now), t)
<1> DEFINE left == {x \in t.toasts : x.id # id}
           held == IF t.held = id THEN Nothing ELSE t.held
           w == [t EXCEPT !.toasts = left]
           u == [w EXCEPT !.held = held]
<1>1. Dismiss(t, id, now) = Arm(u, now)
  BY DEF Dismiss
<1>2. left \subseteq t.toasts
  OBVIOUS
<1> HIDE DEF left, held
<1>3. CenterShape(w) /\ w.toasts = left /\ w.seen = t.seen /\ w.cue = t.cue
  BY DEF CenterShape
<1> HIDE DEF w
<1>4. CenterShape(u) /\ u.toasts = left /\ u.seen = t.seen /\ u.cue = t.cue
  BY <1>3 DEF CenterShape
<1> HIDE DEF u
<1>5. Arm(u, now).toasts = left /\ Arm(u, now).seen = t.seen /\ Arm(u, now).cue = t.cue
  BY <1>4, ArmKeeps
<1> QED BY <1>1, <1>2, <1>5 DEF Quieter, CueOk

LEMMA HoldQuietens ==
  ASSUME NEW t, CenterShape(t), CueOk(t), NEW id, NEW now
  PROVE  Quieter(Hold(t, id, now), t)
<1> DEFINE u == [t EXCEPT !.held = id]
<1>1. Hold(t, id, now) = Arm(u, now)
  BY DEF Hold
<1>2. CenterShape(u) /\ u.toasts = t.toasts /\ u.seen = t.seen /\ u.cue = t.cue
  BY DEF CenterShape
<1> HIDE DEF u
<1>3. Arm(u, now).toasts = t.toasts /\ Arm(u, now).seen = t.seen /\ Arm(u, now).cue = t.cue
  BY <1>2, ArmKeeps
<1> QED BY <1>1, <1>3 DEF Quieter, CueOk

LEMMA SaveStatusQuietens ==
  ASSUME NEW t, CenterShape(t), CueOk(t), NEW failed, NEW now \in Nat
  PROVE  Quieter(OnSaveStatus(t, failed, now), t)
<1> DEFINE u == IF failed /\ ~t.failedBefore THEN PlayCue(t, Rank["danger"], now) ELSE t
           v == [u EXCEPT !.failedBefore = failed]
<1>1. OnSaveStatus(t, failed, now) = v
  BY DEF OnSaveStatus
<1>2. Rank["danger"] \in 0..3
  BY RanksAreSmall DEF Severities
<1>3. CenterShape(u) /\ CueOk(u) /\ u.seen = t.seen /\ u.toasts = t.toasts
  BY <1>2, PlayCueTells
<1> HIDE DEF u
<1>4. v.cue = u.cue /\ v.seen = u.seen /\ v.toasts = u.toasts
  BY <1>3 DEF CenterShape
<1> HIDE DEF v
<1> QED BY <1>1, <1>3, <1>4 DEF Quieter, CueOk

-----------------------------------------------------------------------------
(* The inductive invariant. *)

Shapes ==
  /\ world = [now |-> world.now, opens |-> world.opens] /\ world.now \in Nat
  /\ page = [open |-> page.open, read |-> page.read]
  /\ history = [opened |-> history.opened, toasted |-> history.toasted,
                quiet |-> history.quiet, released |-> history.released]

Raised(c) == CampaignShape(c) /\ NoticesOk(c.notices)

PageInv ==
  /\ Shapes
  /\ Raised(campaign) /\ Raised(saved)
  /\ CenterOk(center, world.now, history.released) /\ CueOk(center)
  /\ ReadIsFollowed
  /\ NothingIsMissed

LEMMA NewCampaignIsRaised == Raised(NewCampaign)
<1>1. NoticesOk(NoNotices) /\ NewCampaign.notices = NoNotices
  <2>1. Elements(<<>>) = {}
    BY DEF Elements
  <2>2. <<>> \in Seq(Elements(<<>>))
    BY EmptySeq
  <2>3. NoNotices.sequence = 0 /\ NoNotices.entries = <<>>
    BY DEF NoNotices
  <2>4. NoNotices = [sequence |-> NoNotices.sequence, entries |-> NoNotices.entries,
                     raisedThisSite |-> NoNotices.raisedThisSite]
    BY DEF NoNotices
  <2>5. NewCampaign.notices = NoNotices
    BY DEF NewCampaign
  <2> QED BY <2>1, <2>2, <2>3, <2>4, <2>5 DEF NoticesOk
<1>2. CampaignShape(NewCampaign)
  BY DEF NewCampaign, CampaignShape
<1> QED BY <1>1, <1>2 DEF Raised

LEMMA Initially == Init => PageInv
<1> SUFFICES ASSUME Init PROVE PageInv
  OBVIOUS
<1>1. /\ campaign = NewCampaign /\ saved = NewCampaign /\ center = FreshCenter
      /\ page = [open |-> TRUE, read |-> Nothing] /\ world = [now |-> 0, opens |-> 1]
      /\ history = NothingTold
  BY DEF Init
<1>2. Shapes
  BY <1>1 DEF Shapes, NothingTold
<1>3. Raised(campaign) /\ Raised(saved)
  BY <1>1, NewCampaignIsRaised
<1>4. CenterOk(center, world.now, history.released)
  BY <1>1, FreshCenterOk
<1>5. CueOk(center) /\ center.seen = Nothing /\ center.toasts = {}
  BY <1>1 DEF FreshCenter, CueOk
<1>6. page.read = Nothing /\ history.toasted = {}
  BY <1>1 DEF NothingTold
<1>7. ReadIsFollowed /\ NothingIsMissed
  BY <1>5, <1>6 DEF ReadIsFollowed, NothingIsMissed
<1> QED BY <1>2, <1>3, <1>4, <1>5, <1>7 DEF PageInv

-----------------------------------------------------------------------------
(* The steps. *)

\* What the campaign becomes by a transaction.
LEMMA CommitKeeps ==
  ASSUME PageInv, NEW c, NEW events, Commits(c, events),
         CampaignShape(c), c.notices = campaign.notices, NEW S, events \in Seq(S)
  PROVE  PageInv'
<1>1. /\ campaign' = ObserveTransaction(c, campaign, events)
      /\ UNCHANGED <<saved, center, page, world, history>>
  BY DEF Commits
<1>2. Raised(campaign) /\ Raised(saved)
  BY DEF PageInv
<1>3. Follows(campaign', c)
  BY <1>1, <1>2, ObservedFollows DEF Raised
<1>4. CampaignShape(campaign') /\ Later(campaign'.notices, campaign.notices)
  BY <1>3 DEF Follows
<1>5. Raised(campaign') /\ Raised(saved')
  BY <1>1, <1>2, <1>4 DEF Raised, Later
<1>6. Shapes'
  BY <1>1 DEF PageInv, Shapes
<1>7. CenterOk(center, world.now, history.released)' /\ CueOk(center)'
  BY <1>1 DEF PageInv
<1>8. NothingIsMissed'
  BY <1>1 DEF PageInv, NothingIsMissed
<1>9. ReadIsFollowed'
  <2>1. CASE page.read = Nothing
    BY <1>1, <2>1 DEF PageInv, ReadIsFollowed
  <2>2. CASE page.read # Nothing
    <3>1. /\ page.open /\ page.read \in Histories /\ center.seen = page.read.sequence
          /\ history.opened \in Nat /\ history.opened <= page.read.sequence
          /\ page.read.sequence <= campaign.notices.sequence
          /\ \A e \in Published(campaign.notices).entries :
               e.sequence <= page.read.sequence => e \in page.read.entries
          /\ \A x \in center.toasts : x.sequence > history.opened
      BY <2>2 DEF PageInv, ReadIsFollowed
    <3>2. page.read.sequence \in Nat
      BY <3>1 DEF Histories
    <3>3. /\ campaign.notices.sequence \in Nat /\ campaign'.notices.sequence \in Nat
          /\ campaign.notices.sequence <= campaign'.notices.sequence
      BY <1>2, <1>4 DEF Raised, Later, NoticesOk
    <3>4. page.read.sequence <= campaign'.notices.sequence
      BY <3>1, <3>2, <3>3
    <3>5. ASSUME NEW e \in Published(campaign'.notices).entries,
                 e.sequence <= page.read.sequence
          PROVE  e \in page.read.entries
      <4>1. Published(campaign'.notices) \in Histories
        BY <1>5, PublishedIsAHistory DEF Raised
      <4>2. e.sequence \in Nat
        BY <4>1 DEF Histories
      <4>3. e.sequence <= campaign.notices.sequence
        BY <3>1, <3>2, <3>3, <3>5, <4>2
      <4>4. e \in Published(campaign.notices).entries
        BY <1>4, <4>3, PublishedLater
      <4> QED BY <3>1, <3>5, <4>4
    <3> QED BY <1>1, <2>2, <3>1, <3>4, <3>5 DEF ReadIsFollowed
  <2> QED BY <2>1, <2>2
<1> QED BY <1>5, <1>6, <1>7, <1>8, <1>9 DEF PageInv

LEMMA TransactKeeps ==
  ASSUME PageInv, Transact
  PROVE  PageInv'
<1>1. PICK h \in Happenings :
        Commits([campaign EXCEPT !.now = @ + h.elapsed, !.player = h.player, !.shield = h.shield,
                                 !.conditions = h.conditions],
                [i \in DOMAIN h.events |->
                   [h.events[i] EXCEPT !.at = campaign.now + h.events[i].at]])
  BY DEF Transact
<1> DEFINE now == campaign.now + h.elapsed
           c == [campaign EXCEPT !.now = now, !.player = h.player, !.shield = h.shield,
                                 !.conditions = h.conditions]
           E(i) == [h.events[i] EXCEPT !.at = campaign.now + h.events[i].at]
           events == [i \in DOMAIN h.events |-> E(i)]
           S == {E(i) : i \in DOMAIN h.events}
<1>2. Commits(c, events)
  BY <1>1
<1>3. DOMAIN h.events = 1..Len(h.events) /\ Len(h.events) \in Nat
  BY HappeningsAssumption
<1>4. events \in Seq(S)
  <2>1. \A i \in DOMAIN h.events : E(i) \in S
    OBVIOUS
  <2> HIDE DEF E, S
  <2>2. events \in [1..Len(h.events) -> S]
    BY <1>3, <2>1
  <2> HIDE DEF events
  <2> QED BY <1>3, <2>2, SeqDef
<1> HIDE DEF now, events, S
<1>5. CampaignShape(c) /\ c.notices = campaign.notices
  <2>1. CampaignShape(campaign)
    BY DEF PageInv, Raised
  <2>2. c = [now |-> now, player |-> h.player, shield |-> h.shield, conditions |-> h.conditions,
             notices |-> campaign.notices, guide |-> campaign.guide, raises |-> campaign.raises,
             visit |-> campaign.visit]
    <3> DEFINE player == h.player
               shield == h.shield
               conditions == h.conditions
    <3>1. c = [campaign EXCEPT !.now = now, !.player = player, !.shield = shield,
                               !.conditions = conditions]
      OBVIOUS
    <3> HIDE DEF c, player, shield, conditions
    <3>2. c = [now |-> now, player |-> player, shield |-> shield, conditions |-> conditions,
               notices |-> campaign.notices, guide |-> campaign.guide, raises |-> campaign.raises,
               visit |-> campaign.visit]
      BY <2>1, <3>1 DEF CampaignShape
    <3> QED BY <3>2 DEF player, shield, conditions
  <2> HIDE DEF c
  <2> QED BY <2>2 DEF CampaignShape
<1> HIDE DEF c
<1> QED BY <1>2, <1>4, <1>5, CommitKeeps

LEMMA SkipStepKeeps ==
  ASSUME PageInv, SkipStep
  PROVE  PageInv'
<1>1. PICK i \in DOMAIN Steps : Commits(RecordStep(campaign, Steps[i], "skipped"), <<>>)
  BY DEF SkipStep
<1> DEFINE c == RecordStep(campaign, Steps[i], "skipped")
<1>2. CampaignShape(c) /\ c.notices = campaign.notices
  BY RecordKeeps DEF PageInv, Raised
<1>3. <<>> \in Seq({})
  BY EmptySeq
<1> HIDE DEF c
<1>4. Commits(c, <<>>)
  BY <1>1 DEF c
<1> QED BY <1>2, <1>3, <1>4, CommitKeeps

LEMMA HideOrShowKeeps ==
  ASSUME PageInv, HideOrShow
  PROVE  PageInv'
<1> DEFINE guide == [campaign.guide EXCEPT !.hidden = ~@]
           c == [campaign EXCEPT !.guide = guide]
<1>1. Commits(c, <<>>)
  BY DEF HideOrShow
<1> HIDE DEF guide
<1>2. CampaignShape(c) /\ c.notices = campaign.notices
  <2>1. CampaignShape(campaign)
    BY DEF PageInv, Raised
  <2>2. c = [now |-> campaign.now, player |-> campaign.player, shield |-> campaign.shield,
             conditions |-> campaign.conditions, notices |-> campaign.notices, guide |-> guide,
             raises |-> campaign.raises, visit |-> campaign.visit]
    BY <2>1 DEF CampaignShape
  <2> HIDE DEF c
  <2> QED BY <2>2 DEF CampaignShape
<1>3. <<>> \in Seq({})
  BY EmptySeq
<1> HIDE DEF c
<1> QED BY <1>1, <1>2, <1>3, CommitKeeps


\* The center changes as Quieter says, and what is past its time by then is let
\* go just now, if at all.
LEMMA QuieterKeeps ==
  ASSUME PageInv, page.open, Quieter(center', center),
         UNCHANGED <<campaign, saved, page, world>>, NEW released,
         CenterOk(center', world.now, released),
         \/ history' = [history EXCEPT !.released = released]
         \/ /\ history' = [history EXCEPT !.toasted = @ \cup {x.sequence : x \in center'.toasts}]
            /\ released = history.released
  PROVE  PageInv'
<1> DEFINE toasted == history.toasted \cup {x.sequence : x \in center'.toasts}
<1>1. history = [opened |-> history.opened, toasted |-> history.toasted,
                 quiet |-> history.quiet, released |-> history.released]
  BY DEF PageInv, Shapes
<1>2. /\ history' = [opened |-> history'.opened, toasted |-> history'.toasted,
                     quiet |-> history'.quiet, released |-> history'.released]
      /\ history'.opened = history.opened /\ history'.quiet = history.quiet
      /\ history'.released = released
      /\ history'.toasted = history.toasted \/ history'.toasted = toasted
  <2>1. CASE history' = [history EXCEPT !.released = released]
    BY <1>1, <2>1
  <2>2. CASE history' = [history EXCEPT !.toasted = toasted] /\ released = history.released
    <3> HIDE DEF toasted
    <3> QED BY <1>1, <2>2
  <2>3. \/ history' = [history EXCEPT !.released = released]
        \/ history' = [history EXCEPT !.toasted = toasted] /\ released = history.released
    OBVIOUS
  <2> QED BY <2>1, <2>2, <2>3
<1>3. CueOk(center') /\ center'.seen = center.seen /\ center'.toasts \subseteq center.toasts
  BY DEF Quieter
<1>4. Shapes'
  BY <1>2 DEF PageInv, Shapes
<1>5. Raised(campaign') /\ Raised(saved')
  BY DEF PageInv
<1>6. CenterOk(center', world'.now, history'.released)
  BY <1>2
<1>7. CASE page.read = Nothing
  <2>1. center.seen = Nothing /\ center.toasts = {} /\ history.toasted = {}
    BY <1>7 DEF PageInv, ReadIsFollowed
  <2>2. center'.toasts = {}
    BY <1>3, <2>1
  <2>3. toasted = {}
    BY <2>1, <2>2
  <2> HIDE DEF toasted
  <2>4. ReadIsFollowed' /\ NothingIsMissed'
    BY <1>2, <1>3, <1>7, <2>1, <2>2, <2>3 DEF ReadIsFollowed, NothingIsMissed
  <2> QED BY <1>3, <1>4, <1>5, <1>6, <2>4 DEF PageInv
<1>8. CASE page.read # Nothing
  <2>1. ReadIsFollowed'
    BY <1>2, <1>3, <1>8 DEF PageInv, ReadIsFollowed
  <2>2. \A k \in toasted : k > history.opened
    <3>1. \A k \in history.toasted : k > history.opened
      BY <1>8 DEF PageInv, NothingIsMissed
    <3>2. \A x \in center.toasts : x.sequence > history.opened
      BY <1>8 DEF PageInv, ReadIsFollowed
    <3> QED BY <1>3, <3>1, <3>2
  <2>3. history.toasted \subseteq history'.toasted /\ history'.toasted \subseteq toasted
    BY <1>2
  <2> HIDE DEF toasted
  <2>4. NothingIsMissed'
    <3>1. \A e \in page.read.entries : e.sequence > history.opened =>
            e.sequence \in history.toasted \cup history.quiet
      BY <1>8 DEF PageInv, NothingIsMissed
    <3> QED BY <1>2, <2>2, <2>3, <3>1 DEF NothingIsMissed
  <2> QED BY <1>3, <1>4, <1>5, <1>6, <2>1, <2>4 DEF PageInv
<1> QED BY <1>7, <1>8

LEMMA TimerFiresKeeps ==
  ASSUME PageInv, TimerFires
  PROVE  PageInv'
<1>1. /\ page.open /\ center' = Expire(center, world.now)
      /\ history' = [history EXCEPT !.toasted = @ \cup {x.sequence : x \in center'.toasts}]
      /\ UNCHANGED <<campaign, saved, page, world>>
  BY DEF TimerFires, Becomes
<1>2. CenterShape(center) /\ CueOk(center) /\ CenterOk(center, world.now, history.released)
  BY DEF PageInv, CenterOk
<1>3. world.now \in Nat
  BY DEF PageInv, Shapes
<1>4. Quieter(center', center)
  BY <1>1, <1>2, ExpireQuietens
<1>5. CenterOk(center', world.now, history.released)
  BY <1>1, <1>2, <1>3, ExpireOk
<1> QED BY <1>1, <1>4, <1>5, QuieterKeeps

LEMMA FocusKeeps ==
  ASSUME PageInv, Focus
  PROVE  PageInv'
<1>1. PICK id : center' = Hold(center, id, world.now)
  BY DEF Focus
<1>2. /\ page.open /\ history' = [history EXCEPT !.released = world.now]
      /\ UNCHANGED <<campaign, saved, page, world>>
  BY DEF Focus
<1>3. CenterShape(center) /\ CueOk(center) /\ CenterOk(center, world.now, history.released)
  BY DEF PageInv, CenterOk
<1>4. world.now \in Nat
  BY DEF PageInv, Shapes
<1>5. Quieter(center', center)
  BY <1>1, <1>3, HoldQuietens
<1>6. CenterOk(center', world.now, world.now)
  BY <1>1, <1>3, <1>4, HoldOk
<1> QED BY <1>2, <1>5, <1>6, QuieterKeeps

LEMMA DismissToastKeeps ==
  ASSUME PageInv, DismissToast
  PROVE  PageInv'
<1>1. PICK x \in Visible(center) : Becomes(Dismiss(center, x.id, world.now))
  BY DEF DismissToast
<1>2. /\ page.open /\ center' = Dismiss(center, x.id, world.now)
      /\ history' = [history EXCEPT !.toasted = @ \cup {y.sequence : y \in center'.toasts}]
      /\ UNCHANGED <<campaign, saved, page, world>>
  BY <1>1 DEF DismissToast, Becomes
<1>3. CenterShape(center) /\ CueOk(center) /\ CenterOk(center, world.now, history.released)
  BY DEF PageInv, CenterOk
<1>4. world.now \in Nat
  BY DEF PageInv, Shapes
<1>5. Quieter(center', center)
  BY <1>2, <1>3, DismissQuietens
<1>6. CenterOk(center', world.now, history.released)
  BY <1>2, <1>3, <1>4, DismissOk
<1> QED BY <1>2, <1>5, <1>6, QuieterKeeps

LEMMA PreferKeeps ==
  ASSUME PageInv, Prefer
  PROVE  PageInv'
<1>1. /\ page.open
      /\ \/ center' = [center EXCEPT !.visible = ~@]
         \/ center' = [center EXCEPT !.sound = ~@]
      /\ history' = [history EXCEPT !.toasted = @ \cup {x.sequence : x \in center'.toasts}]
      /\ UNCHANGED <<campaign, saved, page, world>>
  BY DEF Prefer, Becomes
<1>2. CenterShape(center) /\ CueOk(center) /\ CenterOk(center, world.now, history.released)
  BY DEF PageInv, CenterOk
<1>3. /\ CenterShape(center') /\ center'.toasts = center.toasts /\ center'.held = center.held
      /\ center'.timer = center.timer /\ center'.cue = center.cue /\ center'.seen = center.seen
  <2>1. CASE center' = [center EXCEPT !.visible = ~@]
    BY <1>2, <2>1 DEF CenterShape
  <2>2. CASE center' = [center EXCEPT !.sound = ~@]
    BY <1>2, <2>2 DEF CenterShape
  <2> QED BY <1>1, <2>1, <2>2
<1>4. Quieter(center', center)
  BY <1>2, <1>3 DEF Quieter, CueOk
<1>5. CenterOk(center', world.now, history.released)
  BY <1>2, <1>3, SameToasts
<1> QED BY <1>1, <1>4, <1>5, QuieterKeeps

LEMMA SaveStatusKeeps ==
  ASSUME PageInv, SaveStatusChanges
  PROVE  PageInv'
<1> DEFINE failed == ~center.failedBefore
<1>1. /\ page.open /\ center' = OnSaveStatus(center, failed, world.now)
      /\ history' = [history EXCEPT !.toasted = @ \cup {x.sequence : x \in center'.toasts}]
      /\ UNCHANGED <<campaign, saved, page, world>>
  BY DEF SaveStatusChanges, Becomes
<1> HIDE DEF failed
<1>2. CenterShape(center) /\ CueOk(center) /\ CenterOk(center, world.now, history.released)
  BY DEF PageInv, CenterOk
<1>3. world.now \in Nat
  BY DEF PageInv, Shapes
<1>4. Quieter(center', center)
  BY <1>1, <1>2, <1>3, SaveStatusQuietens
<1>5. CenterOk(center', world.now, history.released)
  BY <1>1, <1>2, OnSaveStatusOk
<1> QED BY <1>1, <1>4, <1>5, QuieterKeeps

LEMMA TickKeeps ==
  ASSUME PageInv, Tick
  PROVE  PageInv'
<1>1. /\ page.open /\ center.timer # Nothing => world.now < center.timer
      /\ world' = [world EXCEPT !.now = @ + 1]
      /\ UNCHANGED <<campaign, saved, center, page, history>>
  BY DEF Tick
<1>2. Shapes' /\ world'.now = world.now + 1 /\ world.now \in Nat
  BY <1>1 DEF PageInv, Shapes
<1>3. ASSUME NEW x \in Unheld(center)
      PROVE  /\ center.timer \in Nat /\ world.now + 1 <= center.timer
             /\ center.timer <= Leaves(x)
  <2>1. x \in center.toasts
    BY DEF Unheld
  <2>2. page.open
    BY <2>1 DEF PageInv, ReadIsFollowed
  <2>3. /\ center.timer \in Nat /\ world.now <= center.timer
        /\ center.timer <= Leaves(x) \/ (history.released = world.now /\ center.timer = world.now)
    BY DEF PageInv, CenterOk, TimerSet
  <2>4. world.now < center.timer
    BY <1>1, <2>2, <2>3, NothingAssumption
  <2> QED BY <1>2, <2>3, <2>4
<1>4. TimerSet(center, world.now + 1, history.released)
  BY <1>3 DEF TimerSet
<1>5. CenterOk(center', world'.now, history'.released)
  BY <1>1, <1>2, <1>4 DEF PageInv, CenterOk
<1>6. ReadIsFollowed' /\ NothingIsMissed' /\ CueOk(center')
  BY <1>1 DEF PageInv, ReadIsFollowed, NothingIsMissed
<1>7. Raised(campaign') /\ Raised(saved')
  BY <1>1 DEF PageInv
<1> QED BY <1>2, <1>5, <1>6, <1>7 DEF PageInv


\* The history is read: the first time nothing is told, and after that all that
\* is new, as loud as the most urgent of it.
LEMMA ReadKeeps ==
  ASSUME PageInv, Read
  PROVE  /\ PageInv'
         /\ (page.read # Nothing /\ center.sound) =>
              \A e \in page'.read.entries : e.cue /\ e.sequence > page.read.sequence =>
                /\ center'.cue # Nothing /\ center'.cue.rank >= Rank[e.severity]
                /\ world.now - center'.cue.at < CueSpacing
<1> DEFINE data == Published(campaign.notices)
           now == world.now
<1>1. /\ page.open /\ page' = [page EXCEPT !.read = data]
      /\ center' = OnNotifications(center, data, now)
      /\ UNCHANGED <<campaign, saved, world>>
  BY DEF Read
<1>2. data \in Histories /\ data.sequence = campaign.notices.sequence /\ data # Nothing
  BY PublishedIsAHistory, UnreadAssumption DEF PageInv, Raised
<1>3. now \in Nat
  BY DEF PageInv, Shapes
<1>4. CenterShape(center) /\ CueOk(center) /\ CenterOk(center, now, history.released)
  BY DEF PageInv, CenterOk
<1>5. \A e \in data.entries : e.severity \in Severities /\ e.sequence \in Nat
  BY <1>2 DEF Histories
<1>6. data.sequence \in Nat
  BY <1>2 DEF Histories
<1>7. history = [opened |-> history.opened, toasted |-> history.toasted,
                 quiet |-> history.quiet, released |-> history.released]
  BY DEF PageInv, Shapes
<1>8. page' = [open |-> page'.open, read |-> page'.read] /\ page'.open /\ page'.read = data
  <2> HIDE DEF data
  <2> QED BY <1>1 DEF PageInv, Shapes
<1>9. Raised(campaign') /\ Raised(saved') /\ world' = world
  BY <1>1 DEF PageInv
<1>10. history' = IF page.read = Nothing THEN [history EXCEPT !.opened = data.sequence]
                  ELSE [history EXCEPT
                    !.toasted = @ \cup {x.sequence : x \in center'.toasts},
                    !.quiet = IF center.visible THEN @
                              ELSE @ \cup {e.sequence : e \in {f \in Unread : f.hideable}}]
  BY <1>1 DEF Read
<1>11. CenterOk(center', now, history.released)
  <2> HIDE DEF data, now
  <2> QED BY <1>1, <1>3, <1>4, <1>5, OnNotificationsOk
<1>12. Unread = {e \in data.entries : e.sequence > page.read.sequence}
  BY DEF Unread
<1> HIDE DEF data, now
<1>13. CASE page.read = Nothing
  <2>1. center.seen = Nothing /\ center.toasts = {} /\ history.toasted = {}
    BY <1>13 DEF PageInv, ReadIsFollowed
  <2>2. center' = [center EXCEPT !.seen = data.sequence]
    BY <1>1, <2>1 DEF OnNotifications
  <2>3. center'.seen = data.sequence /\ center'.toasts = {} /\ CueOk(center')
    BY <1>4, <2>1, <2>2 DEF CenterShape, CueOk
  <2>4. history' = [history EXCEPT !.opened = data.sequence]
    BY <1>10, <1>13
  <2>5. /\ history' = [opened |-> history'.opened, toasted |-> history'.toasted,
                       quiet |-> history'.quiet, released |-> history'.released]
        /\ history'.opened = data.sequence /\ history'.toasted = {}
        /\ history'.released = history.released
    BY <1>7, <2>1, <2>4
  <2>6. Shapes'
    BY <1>8, <1>9, <2>5 DEF PageInv, Shapes
  <2>7. CenterOk(center', world'.now, history'.released)
    BY <1>9, <1>11, <2>5 DEF now
  <2>8. ReadIsFollowed'
    <3>1. \A e \in Published(campaign'.notices).entries : e \in page'.read.entries
      BY <1>1, <1>8 DEF data
    <3>2. campaign'.notices.sequence = data.sequence /\ data.sequence <= data.sequence
      BY <1>1, <1>2, <1>6
    <3> QED BY <1>2, <1>6, <1>8, <2>3, <2>5, <3>1, <3>2 DEF ReadIsFollowed
  <2>9. NothingIsMissed'
    <3> SUFFICES ASSUME NEW e \in data.entries, e.sequence > data.sequence PROVE FALSE
      BY <1>8, <2>5 DEF NothingIsMissed
    <3>1. e \in Published(campaign.notices).entries
      BY DEF data
    <3>2. PICK i \in DOMAIN campaign.notices.entries :
            e.sequence = campaign.notices.entries[i].sequence
      BY <3>1 DEF Published
    <3>3. campaign.notices.entries[i] \in Elements(campaign.notices.entries)
      BY DEF Elements
    <3>4. e.sequence \in Nat /\ e.sequence <= data.sequence
      BY <1>2, <3>2, <3>3 DEF PageInv, Raised, NoticesOk, EntryOk
    <3> QED BY <1>6, <3>4
  <2>10. PageInv'
    BY <1>9, <2>3, <2>6, <2>7, <2>8, <2>9 DEF PageInv
  <2> QED BY <1>13, <2>10
<1>14. CASE page.read # Nothing
  <2>1. /\ page.read \in Histories /\ center.seen = page.read.sequence
        /\ history.opened \in Nat /\ history.opened <= page.read.sequence
        /\ page.read.sequence <= data.sequence
        /\ \A e \in data.entries : e.sequence <= page.read.sequence => e \in page.read.entries
        /\ \A x \in center.toasts : x.sequence > history.opened
    BY <1>2, <1>14 DEF PageInv, ReadIsFollowed, data
  <2>2. page.read.sequence \in Nat
    BY <2>1 DEF Histories
  <2>3. /\ CueOk(center') /\ center'.seen = data.sequence
        /\ \A x \in center'.toasts : x \in center.toasts \/ (x.sequence \in Nat /\ x.sequence > center.seen)
        /\ \A e \in data.entries : e.sequence > center.seen =>
             /\ (e.hideable /\ ~center.visible) \/ \E x \in center'.toasts : x.sequence = e.sequence
             /\ e.cue /\ center.sound =>
                  /\ center'.cue # Nothing /\ center'.cue.rank >= Rank[e.severity]
                  /\ now - center'.cue.at < CueSpacing
    BY <1>1, <1>2, <1>3, <1>4, <2>1, <2>2, OnNotificationsTells
  <2> DEFINE shown == {x.sequence : x \in center'.toasts}
             hidden == {e.sequence : e \in {f \in Unread : f.hideable}}
             toasted == history.toasted \cup shown
             quiet == IF center.visible THEN history.quiet ELSE history.quiet \cup hidden
  <2>4. history' = [history EXCEPT !.toasted = toasted, !.quiet = quiet]
    BY <1>10, <1>14
  <2>5. ASSUME NEW e \in data.entries, e.sequence > page.read.sequence
        PROVE  e.sequence \in toasted \cup quiet
    <3>1. CASE e.hideable /\ ~center.visible
      <4>1. e \in Unread
        BY <1>12, <2>5
      <4>2. e.sequence \in hidden
        BY <3>1, <4>1
      <4> HIDE DEF hidden, toasted
      <4> QED BY <3>1, <4>2
    <3>2. CASE \E x \in center'.toasts : x.sequence = e.sequence
      BY <3>2
    <3> QED BY <2>1, <2>3, <2>5, <3>1, <3>2
  <2>6. history.quiet \subseteq quiet /\ history.toasted \subseteq toasted
    OBVIOUS
  <2>7. \A x \in center'.toasts : x.sequence > history.opened
    <3> SUFFICES ASSUME NEW x \in center'.toasts PROVE x.sequence > history.opened
      OBVIOUS
    <3>1. CASE x \in center.toasts
      BY <2>1, <3>1
    <3>2. CASE x.sequence \in Nat /\ x.sequence > center.seen
      BY <2>1, <2>2, <3>2
    <3> QED BY <2>3, <3>1, <3>2
  <2>8. \A k \in toasted : k > history.opened
    <3>1. \A k \in history.toasted : k > history.opened
      BY <1>14 DEF PageInv, NothingIsMissed
    <3> QED BY <2>7, <3>1
  <2> HIDE DEF shown, hidden, toasted, quiet
  <2>9. /\ history' = [opened |-> history'.opened, toasted |-> history'.toasted,
                       quiet |-> history'.quiet, released |-> history'.released]
        /\ history'.opened = history.opened /\ history'.toasted = toasted /\ history'.quiet = quiet
        /\ history'.released = history.released
    BY <1>7, <2>4
  <2>10. Shapes'
    BY <1>8, <1>9, <2>9 DEF PageInv, Shapes
  <2>11. CenterOk(center', world'.now, history'.released)
    BY <1>9, <1>11, <2>9 DEF now
  <2>12. ReadIsFollowed'
    <3>1. \A e \in Published(campaign'.notices).entries : e \in page'.read.entries
      BY <1>1, <1>8 DEF data
    <3>2. /\ campaign'.notices.sequence = data.sequence /\ data.sequence <= data.sequence
          /\ history.opened <= data.sequence
      BY <1>1, <1>2, <1>6, <2>1, <2>2
    <3> QED BY <1>2, <1>6, <1>8, <2>1, <2>3, <2>7, <2>9, <3>1, <3>2 DEF ReadIsFollowed
  <2>13. NothingIsMissed'
    <3>1. ASSUME NEW e \in data.entries, e.sequence > history.opened
          PROVE  e.sequence \in toasted \cup quiet
      <4>1. CASE e.sequence > page.read.sequence
        BY <2>5, <4>1
      <4>2. CASE e.sequence <= page.read.sequence
        <5>1. e \in page.read.entries
          BY <2>1, <4>2
        <5>2. e.sequence \in history.toasted \cup history.quiet
          BY <1>14, <3>1, <5>1 DEF PageInv, NothingIsMissed
        <5> QED BY <2>6, <5>2
      <4>3. e.sequence \in Nat
        BY <1>5
      <4> QED BY <2>2, <4>1, <4>2, <4>3
    <3> QED BY <1>8, <2>8, <2>9, <3>1 DEF NothingIsMissed
  <2>14. PageInv'
    BY <1>9, <2>3, <2>10, <2>11, <2>12, <2>13 DEF PageInv
  <2>15. center.sound =>
           \A e \in page'.read.entries : e.cue /\ e.sequence > page.read.sequence =>
             /\ center'.cue # Nothing /\ center'.cue.rank >= Rank[e.severity]
             /\ world.now - center'.cue.at < CueSpacing
    BY <1>8, <2>1, <2>3 DEF now
  <2> QED BY <2>14, <2>15
<1> QED BY <1>13, <1>14


\* The campaign is left, or the page loaded again: nothing is told.
LEMMA AfreshKeeps ==
  ASSUME PageInv, UNCHANGED world, Raised(campaign'), Raised(saved'),
         page' = [open |-> page'.open, read |-> Nothing],
         center' = FreshCenter, history' = NothingTold
  PROVE  PageInv'
<1>1. Shapes'
  <2>1. page' = [open |-> page'.open, read |-> page'.read]
    OBVIOUS
  <2>2. history' = [opened |-> history'.opened, toasted |-> history'.toasted,
                    quiet |-> history'.quiet, released |-> history'.released]
    BY DEF NothingTold
  <2> QED BY <2>1, <2>2 DEF PageInv, Shapes
<1>2. CenterOk(center', world'.now, history'.released)
  BY FreshCenterOk
<1>3. CueOk(center') /\ center'.seen = Nothing /\ center'.toasts = {}
  BY DEF CueOk, FreshCenter
<1>4. page'.read = Nothing /\ history'.toasted = {}
  BY DEF NothingTold
<1>5. ReadIsFollowed' /\ NothingIsMissed'
  BY <1>3, <1>4 DEF ReadIsFollowed, NothingIsMissed
<1> QED BY <1>1, <1>2, <1>3, <1>5 DEF PageInv

LEMMA LeaveKeeps ==
  ASSUME PageInv, Leave
  PROVE  PageInv'
<1>1. /\ page' = [open |-> FALSE, read |-> Nothing]
      /\ center' = FreshCenter /\ history' = NothingTold
      /\ UNCHANGED <<campaign, saved, world>>
  BY DEF Leave
<1>2. Raised(campaign') /\ Raised(saved')
  BY <1>1 DEF PageInv
<1>3. page' = [open |-> page'.open, read |-> Nothing]
  BY <1>1
<1> QED BY <1>1, <1>2, <1>3, AfreshKeeps

LEMMA ReloadKeeps ==
  ASSUME PageInv, Reload
  PROVE  PageInv'
<1>1. /\ page' = [open |-> TRUE, read |-> Nothing] /\ campaign' = saved
      /\ center' = FreshCenter /\ history' = NothingTold
      /\ UNCHANGED <<saved, world>>
  BY DEF Reload
<1>2. Raised(campaign') /\ Raised(saved')
  BY <1>1 DEF PageInv
<1>3. page' = [open |-> page'.open, read |-> Nothing]
  BY <1>1
<1> QED BY <1>1, <1>2, <1>3, AfreshKeeps

LEMMA ResumeKeeps ==
  ASSUME PageInv, Resume
  PROVE  PageInv'
<1>1. /\ ~page.open /\ campaign' = saved /\ page' = [page EXCEPT !.open = TRUE]
      /\ world' = [world EXCEPT !.opens = @ + 1]
      /\ UNCHANGED <<saved, center, history>>
  BY DEF Resume
<1>2. page.read = Nothing /\ center.seen = Nothing /\ center.toasts = {} /\ history.toasted = {}
  BY <1>1 DEF PageInv, ReadIsFollowed
<1>3. Shapes' /\ page'.read = Nothing /\ world'.now = world.now
  BY <1>1, <1>2 DEF PageInv, Shapes
<1>4. Raised(campaign') /\ Raised(saved')
  BY <1>1 DEF PageInv
<1>5. CenterOk(center', world'.now, history'.released) /\ CueOk(center')
  BY <1>1, <1>3 DEF PageInv
<1>6. ReadIsFollowed' /\ NothingIsMissed'
  BY <1>1, <1>2, <1>3 DEF ReadIsFollowed, NothingIsMissed
<1> QED BY <1>3, <1>4, <1>5, <1>6 DEF PageInv

LEMMA SaveKeeps ==
  ASSUME PageInv, Save
  PROVE  PageInv'
<1>1. saved' = campaign /\ UNCHANGED <<campaign, center, page, world, history>>
  BY DEF Save
<1> QED BY <1>1 DEF PageInv, Shapes, ReadIsFollowed, NothingIsMissed

\* What only the keys and the preferences of the player see.
LEMMA UnchangedKeeps ==
  ASSUME PageInv, UNCHANGED <<campaign, saved, center, page, world, history>>
  PROVE  PageInv'
  BY DEF PageInv, Shapes, ReadIsFollowed, NothingIsMissed

\* Only a reading changes what was read into something else that was read.
Rereads == page.read # Nothing /\ page'.read # Nothing /\ page'.read # page.read

LEMMA StepKeeps ==
  ASSUME PageInv, [Next]_vars
  PROVE  /\ PageInv'
         /\ Rereads => Read
<1> USE DEF Rereads
<1>1. CASE Transact
  BY <1>1, TransactKeeps DEF Transact, Commits
<1>2. CASE SkipStep
  BY <1>2, SkipStepKeeps DEF SkipStep, Commits
<1>3. CASE HideOrShow
  BY <1>3, HideOrShowKeeps DEF HideOrShow, Commits
<1>4. CASE Read
  BY <1>4, ReadKeeps
<1>5. CASE Tick
  BY <1>5, TickKeeps DEF Tick
<1>6. CASE TimerFires
  BY <1>6, TimerFiresKeeps DEF TimerFires
<1>7. CASE Focus
  BY <1>7, FocusKeeps DEF Focus
<1>8. CASE DismissToast
  BY <1>8, DismissToastKeeps DEF DismissToast
<1>9. CASE Prefer
  BY <1>9, PreferKeeps DEF Prefer
<1>10. CASE SaveStatusChanges
  BY <1>10, SaveStatusKeeps DEF SaveStatusChanges
<1>11. CASE Save
  BY <1>11, SaveKeeps DEF Save
<1>12. CASE Leave
  BY <1>12, LeaveKeeps DEF Leave
<1>13. CASE Resume
  <2>1. page'.read = page.read
    BY <1>13 DEF Resume, PageInv, Shapes
  <2> QED BY <1>13, <2>1, ResumeKeeps
<1>14. CASE Reload
  BY <1>14, ReloadKeeps DEF Reload
<1>15. CASE \/ ToggleSettings \/ ChangeKey \/ ChangePresentation \/ RestoreEverything
            \/ StorageChanges \/ PressKey \/ NoticeGoes
  <2>1. UNCHANGED playVars
    BY <1>15 DEF ToggleSettings, ChangeKey, ChangePresentation, RestoreEverything,
                 StorageChanges, PressKey, NoticeGoes, Sets
  <2> QED BY <2>1, UnchangedKeeps DEF playVars
<1>16. CASE UNCHANGED vars
  BY <1>16, UnchangedKeeps DEF vars
<1> QED
  BY <1>1, <1>2, <1>3, <1>4, <1>5, <1>6, <1>7, <1>8, <1>9, <1>10, <1>11, <1>12, <1>13, <1>14,
     <1>15, <1>16 DEF Next

-----------------------------------------------------------------------------
(* The keys. *)

AreBindings(o) == o = [a \in DOMAIN o |-> o[a]] /\ Settled(o)

\* Preferences as the program keeps them.
PreferencesOk(p) ==
  /\ p = [bindings |-> p.bindings, presentation |-> p.presentation]
  /\ AreBindings(p.bindings)
  /\ p.presentation \in {"default", "changed"}

\* The table of settled overrides: each is what it says, the rest are defaults.
LEMMA SettledTable ==
  ASSUME NEW o, Settled(o)
  PROVE  ResolveBindings(o) =
           [a \in Remappable |-> IF a \in DOMAIN o THEN o[a] ELSE DefaultKey[a]]
<1> DEFINE chosen == {o[a] : a \in {b \in DOMAIN o : HasItsKey(o, b)}}
           own(a) == IF a \in DOMAIN o THEN o[a] ELSE DefaultKey[a]
           free(a) == IF a \in DOMAIN o THEN HasItsKey(o, a) ELSE DefaultKey[a] \notin chosen
<1>1. ASSUME NEW a \in DOMAIN o
      PROVE  HasItsKey(o, a) <=> o[a] # NoKey
  <2>1. CASE o[a] = NoKey
    BY <2>1 DEF HasItsKey, IsBindable
  <2>2. CASE o[a] # NoKey
    <3>1. IsBindable(o[a])
      BY <2>2 DEF Settled
    <3>3. \A b \in DOMAIN o : o[b] = o[a] => b = a
      BY <2>2 DEF Settled
    <3>4. a \in Remappable
      BY DEF Settled
    <3>5. ~(Position[a] < Position[a])
      BY <3>4, RegistryAssumption
    <3> QED BY <2>2, <3>1, <3>3, <3>5 DEF HasItsKey
  <2> QED BY <2>1, <2>2
<1>2. ASSUME NEW a \in Remappable
      PROVE  (IF free(a) THEN own(a) ELSE NoKey) = IF a \in DOMAIN o THEN o[a] ELSE DefaultKey[a]
  <2>1. CASE a \in DOMAIN o
    BY <1>1, <2>1
  <2>2. CASE a \notin DOMAIN o
    <3>1. DefaultKey[a] \notin chosen
      BY <2>2 DEF Settled
    <3> QED BY <2>2, <3>1
  <2> QED BY <2>1, <2>2
<1>3. ResolveBindings(o) = [a \in Remappable |-> IF free(a) THEN own(a) ELSE NoKey]
  BY DEF ResolveBindings
<1> HIDE DEF own, free
<1> QED BY <1>2, <1>3

\* Dropping what the defaults say already changes no key.
LEMMA WithoutDefaultsSettled ==
  ASSUME NEW o, Settled(o)
  PROVE  /\ AreBindings(WithoutDefaults(o))
         /\ ResolveBindings(WithoutDefaults(o)) = ResolveBindings(o)
<1> DEFINE changed == {a \in DOMAIN o : o[a] # DefaultKey[a]}
           kept == [a \in changed |-> o[a]]
           resolved == ResolveBindings(kept)
           w == [a \in changed \cup {b \in Remappable : resolved[b] = NoKey} |->
                   IF resolved[a] = NoKey THEN NoKey ELSE kept[a]]
<1>1. WithoutDefaults(o) = w
  BY DEF WithoutDefaults
<1>2. \A a \in Remappable : DefaultKey[a] # NoKey
  BY RegistryAssumption DEF IsBindable
<1>3. Settled(kept)
  <2>1. DOMAIN kept \subseteq Remappable
    BY DEF Settled
  <2>2. ASSUME NEW a \in changed
        PROVE  /\ kept[a] = NoKey \/ IsBindable(kept[a])
               /\ \A b \in changed : kept[a] = kept[b] /\ kept[a] # NoKey => a = b
    BY DEF Settled
  <2>3. ASSUME NEW a \in changed, NEW b \in Remappable \ changed, kept[a] = DefaultKey[b]
        PROVE  FALSE
    <3>1. CASE b \in DOMAIN o
      <4>1. o[b] = DefaultKey[b] /\ o[a] = o[b] /\ o[a] # NoKey
        BY <1>2, <2>3, <3>1
      <4> QED BY <2>3, <3>1, <4>1 DEF Settled
    <3>2. CASE b \notin DOMAIN o
      BY <2>3, <3>2 DEF Settled
    <3> QED BY <3>1, <3>2
  <2> QED BY <2>1, <2>2, <2>3 DEF Settled
<1>4. resolved = [a \in Remappable |-> IF a \in changed THEN o[a] ELSE DefaultKey[a]]
  <2>1. DOMAIN kept = changed /\ \A a \in changed : kept[a] = o[a]
    OBVIOUS
  <2> HIDE DEF kept
  <2> QED BY <1>3, <2>1, SettledTable
<1>5. ResolveBindings(o) = [a \in Remappable |-> IF a \in changed THEN o[a] ELSE DefaultKey[a]]
  <2>1. \A a \in Remappable : (IF a \in DOMAIN o THEN o[a] ELSE DefaultKey[a])
                               = (IF a \in changed THEN o[a] ELSE DefaultKey[a])
    OBVIOUS
  <2> HIDE DEF changed
  <2> QED BY <2>1, SettledTable
<1>6. changed \subseteq Remappable
  BY DEF Settled
<1>7. w = kept
  <2>1. ASSUME NEW a \in Remappable, resolved[a] = NoKey PROVE a \in changed
    BY <1>2, <1>4, <2>1
  <2>2. changed \cup {b \in Remappable : resolved[b] = NoKey} = changed
    BY <2>1
  <2>3. \A a \in changed : (IF resolved[a] = NoKey THEN NoKey ELSE kept[a]) = o[a]
    BY <1>4, <1>6
  <2> HIDE DEF changed, resolved
  <2> QED BY <2>2, <2>3
<1>8. kept = [a \in DOMAIN kept |-> kept[a]]
  OBVIOUS
<1> HIDE DEF w, kept
<1> QED BY <1>1, <1>3, <1>4, <1>5, <1>7, <1>8 DEF AreBindings

\* The table as the player is told of it after a change of a key.
Rebound(table, a, key, lost) ==
  [b \in Remappable |-> IF b = a THEN key ELSE IF b \in lost THEN NoKey ELSE table[b]]

\* assignKey() does what its message says: the action has the key, the one that
\* held it has none, and every other keeps its own.
LEMMA AssignDoes ==
  ASSUME NEW o, AreBindings(o), NEW a \in Remappable, NEW key, key = NoKey \/ IsBindable(key)
  PROVE  /\ AreBindings(AssignKey(o, a, key))
         /\ ResolveBindings(AssignKey(o, a, key))
              = Rebound(ResolveBindings(o), a, key, Displaced(o, a, key))
<1> DEFINE lost == Displaced(o, a, key)
           table == ResolveBindings(o)
           next == [b \in DOMAIN o \cup {a} \cup lost |->
                      IF b = a THEN key ELSE IF b \in lost THEN NoKey ELSE o[b]]
<1>1. AssignKey(o, a, key) = WithoutDefaults(next)
  BY DEF AssignKey
<1>2. table = [b \in Remappable |-> IF b \in DOMAIN o THEN o[b] ELSE DefaultKey[b]]
  BY SettledTable DEF AreBindings
<1>3. lost = {b \in Remappable : b # a /\ table[b] = key /\ key # NoKey}
  BY DEF Displaced, Holders
<1>4. DOMAIN o \subseteq Remappable
  BY DEF AreBindings, Settled
<1>5. \A b \in Remappable : DefaultKey[b] # NoKey
  BY RegistryAssumption DEF IsBindable
<1>6. \A b \in DOMAIN o : o[b] = key /\ key # NoKey /\ b # a => b \in lost
  BY <1>2, <1>3, <1>4
<1>7. \A b \in Remappable \ DOMAIN o : DefaultKey[b] = key /\ b # a => b \in lost
  BY <1>2, <1>3, <1>5
<1> HIDE DEF lost, table
<1>8. Settled(next)
  <2> DEFINE D == DOMAIN o \cup {a} \cup lost
  <2>1. D \subseteq Remappable
    BY <1>3, <1>4
  <2>2. ASSUME NEW b \in D PROVE next[b] = NoKey \/ IsBindable(next[b])
    BY DEF AreBindings, Settled
  <2>3. ASSUME NEW b \in D, NEW c \in D, next[b] = next[c], next[b] # NoKey PROVE b = c
    <3>1. b \notin lost \/ b = a
      BY <2>3
    <3>2. c \notin lost \/ c = a
      BY <2>3
    <3>3. CASE b = a /\ c # a
      BY <1>6, <2>3, <3>2, <3>3
    <3>4. CASE b # a /\ c = a
      BY <1>6, <2>3, <3>1, <3>4
    <3>5. CASE b # a /\ c # a
      <4>1. b \in DOMAIN o /\ c \in DOMAIN o /\ next[b] = o[b] /\ next[c] = o[c]
        BY <3>1, <3>2, <3>5
      <4> HIDE DEF next
      <4> QED BY <2>3, <4>1 DEF AreBindings, Settled
    <3> QED BY <3>3, <3>4, <3>5
  <2>4. ASSUME NEW b \in D, NEW c \in Remappable \ D, next[b] = DefaultKey[c] PROVE FALSE
    <3>1. c # a /\ c \notin lost /\ c \notin DOMAIN o /\ next[b] # NoKey
      BY <1>5, <2>4
    <3>2. CASE b = a
      BY <1>7, <2>4, <3>1, <3>2
    <3>3. CASE b # a
      <4>1. b \notin lost
        BY <3>1, <3>3
      <4>2. b \in DOMAIN o /\ next[b] = o[b]
        BY <3>3, <4>1
      <4> HIDE DEF next
      <4> QED BY <2>4, <3>1, <4>2 DEF AreBindings, Settled
    <3> QED BY <3>2, <3>3
  <2>5. DOMAIN next = D
    OBVIOUS
  <2> HIDE DEF next, D
  <2> QED BY <2>1, <2>2, <2>3, <2>4, <2>5 DEF Settled
<1>9. ResolveBindings(next) = Rebound(table, a, key, lost)
  <2>1. ResolveBindings(next) =
          [b \in Remappable |-> IF b \in DOMAIN next THEN next[b] ELSE DefaultKey[b]]
    <3> HIDE DEF next
    <3> QED BY <1>8, SettledTable
  <2>2. ASSUME NEW b \in Remappable
        PROVE  (IF b \in DOMAIN next THEN next[b] ELSE DefaultKey[b])
                 = IF b = a THEN key ELSE IF b \in lost THEN NoKey ELSE table[b]
    BY <1>2
  <2> HIDE DEF next
  <2> QED BY <2>1, <2>2 DEF Rebound
<1> HIDE DEF next
<1> QED BY <1>1, <1>8, <1>9, WithoutDefaultsSettled DEF lost, table

-----------------------------------------------------------------------------
(* What is kept. *)

LEMMA LoadedIsOk ==
  ASSUME NEW kept, Settled(LoadPreferences(kept).bindings)
  PROVE  PreferencesOk(LoadPreferences(kept))
<1>1. CASE kept = {}
  <2>1. LoadPreferences(kept) = DefaultPreferences
    BY <1>1 DEF LoadPreferences
  <2> QED BY <2>1 DEF PreferencesOk, AreBindings, DefaultPreferences
<1>2. CASE kept # {}
  <2> DEFINE d == CHOOSE document \in kept : TRUE
  <2>1. LoadPreferences(kept) = ParsePreferences(d)
    BY <1>2 DEF LoadPreferences
  <2> HIDE DEF d
  <2>2. /\ ParsePreferences(d) = [bindings |-> ParsePreferences(d).bindings,
                                  presentation |-> ParsePreferences(d).presentation]
        /\ ParsePreferences(d).presentation \in {"default", "changed"}
    BY DEF ParsePreferences
  <2>3. ParsePreferences(d).bindings = [a \in DOMAIN ParsePreferences(d).bindings |->
                                          ParsePreferences(d).bindings[a]]
    BY DEF ParsePreferences
  <2> QED BY <2>1, <2>2, <2>3 DEF PreferencesOk, AreBindings
<1> QED BY <1>1, <1>2

\* What the program stores it reads again as it was.
LEMMA StoredIsRead ==
  ASSUME NEW p, PreferencesOk(p)
  PROVE  LoadPreferences({p}) = p
<1>1. LoadPreferences({p}) = ParsePreferences(p)
  <2>1. (CHOOSE document \in {p} : TRUE) = p
    OBVIOUS
  <2> QED BY <2>1 DEF LoadPreferences
<1> DEFINE o == p.bindings
           part == {b \in DOMAIN o \cap Remappable : o[b] = NoKey \/ IsBindable(o[b])}
<1>2. part = DOMAIN o
  BY DEF PreferencesOk, AreBindings, Settled
<1>3. o = [a \in DOMAIN o |-> o[a]]
  BY DEF PreferencesOk, AreBindings
<1>4. [a \in part |-> o[a]] = o
  <2> HIDE DEF part, o
  <2> QED BY <1>2, <1>3
<1>5. p.presentation \in {"default", "changed"} /\ p = [bindings |-> o, presentation |-> p.presentation]
  BY DEF PreferencesOk
<1>6. ParsePreferences(p) =
        [bindings |-> [a \in part |-> o[a]],
         presentation |-> IF p.presentation \in {"default", "changed"} THEN p.presentation ELSE "default"]
  BY DEF ParsePreferences
<1> HIDE DEF o, part
<1> QED BY <1>1, <1>4, <1>5, <1>6

LEMMA DefaultsAreOk == PreferencesOk(DefaultPreferences)
<1>1. /\ DefaultPreferences = [bindings |-> [a \in {} |-> NoKey], presentation |-> "default"]
      /\ DOMAIN [a \in {} |-> NoKey] = {}
  BY DEF DefaultPreferences
<1> QED BY <1>1 DEF PreferencesOk, AreBindings, Settled

-----------------------------------------------------------------------------
(* The player's desk. *)

\* KeysFollowThePlayer but for what follows from it, and why it stays: what is
\* in use and what is stored are preferences as the program keeps them.
DeskOk(d) ==
  /\ d = [preferences |-> d.preferences, stored |-> d.stored, refuses |-> d.refuses,
          settings |-> d.settings, capturing |-> d.capturing, last |-> d.last,
          told |-> d.told, kept |-> d.kept, changes |-> d.changes]
  /\ PreferencesOk(d.preferences) /\ PreferencesOk(LoadPreferences(d.stored))
  /\ AsTold(d.preferences) = d.told /\ AsTold(LoadPreferences(d.stored)) = d.kept
  /\ d.last.key = d.last.told
  /\ d.capturing \subseteq Editable

LEMMA MountedIsOk ==
  ASSUME NEW kept, NEW refuses, NEW changes, PreferencesOk(LoadPreferences(kept))
  PROVE  DeskOk(DeskOf(kept, refuses, changes))
<1> DEFINE p == LoadPreferences(kept)
           d == DeskOf(kept, refuses, changes)
<1>1. d = [preferences |-> p, stored |-> kept, refuses |-> refuses, settings |-> FALSE,
           capturing |-> {}, last |-> NoPress, told |-> AsTold(p), kept |-> AsTold(p),
           changes |-> changes]
  BY DEF DeskOf
<1>2. NoPress.key = NoPress.told
  BY DEF NoPress
<1> HIDE DEF d, p
<1> QED BY <1>1, <1>2 DEF DeskOk, p, d

\* Everything a change of the preferences leaves as it was, and everything it
\* applies and stores.
LEMMA UpdateIsOk ==
  ASSUME NEW d, DeskOk(d), NEW p, PreferencesOk(p)
  PROVE  DeskOk(Update(d, p, AsTold(p)))
<1> DEFINE u == Update(d, p, AsTold(p))
           kept == IF d.refuses THEN d.kept ELSE AsTold(p)
           store == IF d.refuses THEN d.stored ELSE {p}
<1>1. /\ u = [preferences |-> u.preferences, stored |-> u.stored, refuses |-> u.refuses,
              settings |-> u.settings, capturing |-> u.capturing, last |-> u.last,
              told |-> u.told, kept |-> u.kept, changes |-> u.changes]
      /\ u.preferences = p /\ u.told = AsTold(p) /\ u.last = d.last /\ u.capturing = d.capturing
      /\ u.stored = store /\ u.kept = kept
  <2>1. d = [preferences |-> d.preferences, stored |-> d.stored, refuses |-> d.refuses,
             settings |-> d.settings, capturing |-> d.capturing, last |-> d.last,
             told |-> d.told, kept |-> d.kept, changes |-> d.changes]
    BY DEF DeskOk
  <2>2. u = [d EXCEPT !.preferences = p, !.told = AsTold(p), !.changes = @ + 1,
                      !.stored = store, !.kept = kept]
    BY DEF Update
  <2> HIDE DEF u, kept, store
  <2>3. u = [preferences |-> p, stored |-> store, refuses |-> d.refuses,
             settings |-> d.settings, capturing |-> d.capturing, last |-> d.last,
             told |-> AsTold(p), kept |-> kept, changes |-> d.changes + 1]
    BY <2>1, <2>2
  <2> QED BY <2>3
<1>2. LoadPreferences({p}) = p
  BY StoredIsRead
<1>3. PreferencesOk(LoadPreferences(u.stored)) /\ AsTold(LoadPreferences(u.stored)) = u.kept
  BY <1>1, <1>2 DEF DeskOk
<1> HIDE DEF u
<1> QED BY <1>1, <1>3 DEF DeskOk, u

LEMMA ReleasedIsOk ==
  ASSUME NEW d, DeskOk(d)
  PROVE  /\ DeskOk([d EXCEPT !.capturing = {}])
         /\ [d EXCEPT !.capturing = {}].preferences = d.preferences
         /\ [d EXCEPT !.capturing = {}].told = d.told
<1> DEFINE e == [d EXCEPT !.capturing = {}]
<1>1. /\ e = [preferences |-> e.preferences, stored |-> e.stored, refuses |-> e.refuses,
              settings |-> e.settings, capturing |-> e.capturing, last |-> e.last,
              told |-> e.told, kept |-> e.kept, changes |-> e.changes]
      /\ e.preferences = d.preferences /\ e.stored = d.stored /\ e.last = d.last
      /\ e.told = d.told /\ e.kept = d.kept /\ e.capturing = {}
  BY DEF DeskOk
<1> HIDE DEF e
<1>2. DeskOk(e)
  BY <1>1 DEF DeskOk
<1> QED BY <1>1, <1>2 DEF e

\* The keys a player was told are those of the table.
LEMMA ToldIsTheTable ==
  ASSUME NEW p, NEW a \in Remappable
  PROVE  ToldKey(AsTold(p), a) = ResolveBindings(p.bindings)[a]
<1> DEFINE table == ResolveBindings(p.bindings)
<1>1. AsTold(p).keys = Changed(table)
  BY DEF AsTold
<1> HIDE DEF table
<1>2. /\ DOMAIN Changed(table) = {b \in Remappable : table[b] # DefaultKey[b]}
      /\ \A b \in DOMAIN Changed(table) : Changed(table)[b] = table[b]
  BY DEF Changed
<1> QED BY <1>1, <1>2 DEF ToldKey, table

LEMMA BindIsOk ==
  ASSUME NEW d, DeskOk(d), NEW a \in Remappable, NEW key, key = NoKey \/ IsBindable(key)
  PROVE  DeskOk(Bind(d, a, key))
<1> DEFINE o == d.preferences.bindings
           lost == Displaced(o, a, key)
           p == [d.preferences EXCEPT !.bindings = AssignKey(o, a, key)]
           now(b) == IF b \in DOMAIN d.told.keys THEN d.told.keys[b] ELSE DefaultKey[b]
           message == [b \in Remappable |-> IF b = a THEN key
                                            ELSE IF b \in lost THEN NoKey ELSE now(b)]
           told == [d.told EXCEPT !.keys = Changed(message)]
<1>1. Bind(d, a, key) = Update(d, p, told)
  BY DEF Bind
<1>2. PreferencesOk(d.preferences) /\ d.told = AsTold(d.preferences)
  BY DEF DeskOk
<1>3. AreBindings(o)
  BY <1>2 DEF PreferencesOk
<1> HIDE DEF o
<1>4. /\ AreBindings(AssignKey(o, a, key))
      /\ ResolveBindings(AssignKey(o, a, key)) = Rebound(ResolveBindings(o), a, key, lost)
  BY <1>3, AssignDoes
<1>5. p = [bindings |-> AssignKey(o, a, key), presentation |-> d.preferences.presentation]
  BY <1>2 DEF PreferencesOk
<1>6. PreferencesOk(p)
  BY <1>2, <1>4, <1>5 DEF PreferencesOk
<1>7. \A b \in Remappable : now(b) = ResolveBindings(o)[b]
  <2> SUFFICES ASSUME NEW b \in Remappable PROVE now(b) = ResolveBindings(o)[b]
    OBVIOUS
  <2>1. ToldKey(AsTold(d.preferences), b) = ResolveBindings(o)[b]
    BY ToldIsTheTable DEF o
  <2> QED BY <1>2, <2>1 DEF ToldKey
<1>8. message = Rebound(ResolveBindings(o), a, key, lost)
  <2> HIDE DEF now, lost
  <2> QED BY <1>7 DEF Rebound
<1>9. told = AsTold(p)
  <2>1. d.told = [keys |-> d.told.keys, presentation |-> d.preferences.presentation]
    BY <1>2 DEF AsTold
  <2> HIDE DEF message
  <2>2. told = [keys |-> Changed(message), presentation |-> d.preferences.presentation]
    BY <2>1
  <2> HIDE DEF p, told
  <2> QED BY <1>4, <1>5, <1>8, <2>2 DEF AsTold
<1> HIDE DEF p, told
<1> QED BY <1>1, <1>6, <1>9, UpdateIsOk
LEMMA CaptureIsOk ==
  ASSUME NEW d, DeskOk(d), d.capturing # {}, NEW press
  PROVE  DeskOk(CaptureKey(d, press))
<1> DEFINE released == [d EXCEPT !.capturing = {}]
           key == NormaliseKey(press.key)
           a == CHOOSE b \in d.capturing : TRUE
<1>1. DeskOk(released)
  BY ReleasedIsOk
<1>2. a \in Remappable
  <2>1. a \in d.capturing
    OBVIOUS
  <2> QED BY <2>1, DeskAssumption DEF DeskOk
<1>3. IsBindable(key) => DeskOk(Bind(released, a, key))
  <2> HIDE DEF released, a, key
  <2> QED BY <1>1, <1>2, BindIsOk
<1>4. \/ CaptureKey(d, press) = d
      \/ CaptureKey(d, press) = released
      \/ IsBindable(key) /\ CaptureKey(d, press) = Bind(released, a, key)
  BY DEF CaptureKey
<1> HIDE DEF released, a, key
<1> QED BY <1>1, <1>3, <1>4

LEMMA RestoreIsOk ==
  ASSUME NEW d, DeskOk(d)
  PROVE  DeskOk(RestoreKeys(d)) /\ DeskOk(RestoreDefaults(d))
<1> DEFINE p == [d.preferences EXCEPT !.bindings = [a \in {} |-> NoKey]]
           told == [d.told EXCEPT !.keys = [a \in {} |-> NoKey]]
<1>1. PreferencesOk(d.preferences) /\ d.told = AsTold(d.preferences)
  BY DEF DeskOk
<1>2. p = [bindings |-> [a \in {} |-> NoKey], presentation |-> d.preferences.presentation]
  BY <1>1 DEF PreferencesOk
<1>3. DOMAIN [a \in {} |-> NoKey] = {}
  OBVIOUS
<1>4. Settled([a \in {} |-> NoKey])
  BY <1>3 DEF Settled
<1>5. PreferencesOk(p)
  BY <1>1, <1>2, <1>3, <1>4 DEF PreferencesOk, AreBindings
<1>6. ResolveBindings([a \in {} |-> NoKey]) = DefaultKey
  <2>1. \A a \in Remappable : a \notin DOMAIN [b \in {} |-> NoKey]
    BY <1>3
  <2>2. DefaultKey = [a \in Remappable |-> DefaultKey[a]]
    BY DEF DefaultKey
  <2> QED BY <1>4, <2>1, <2>2, SettledTable
<1>7. Changed(DefaultKey) = [a \in {} |-> NoKey]
  BY DEF Changed
<1>8. told = AsTold(p)
  <2>1. d.told = [keys |-> d.told.keys, presentation |-> d.preferences.presentation]
    BY <1>1 DEF AsTold
  <2>2. told = [keys |-> [a \in {} |-> NoKey], presentation |-> d.preferences.presentation]
    BY <2>1
  <2>3. AsTold(p).keys = [a \in {} |-> NoKey] /\ AsTold(p).presentation = d.preferences.presentation
    <3>1. p.bindings = [a \in {} |-> NoKey] /\ p.presentation = d.preferences.presentation
      BY <1>2
    <3> HIDE DEF p
    <3> QED BY <1>6, <1>7, <3>1 DEF AsTold
  <2>4. AsTold(p) = [keys |-> AsTold(p).keys, presentation |-> AsTold(p).presentation]
    BY DEF AsTold
  <2> HIDE DEF p, told
  <2> QED BY <2>2, <2>3, <2>4
<1>9. RestoreKeys(d) = Update(d, p, told)
  BY DEF RestoreKeys
<1> HIDE DEF p, told
<1>10. DeskOk(RestoreKeys(d))
  BY <1>5, <1>8, <1>9, UpdateIsOk
<1>11. DeskOk(RestoreDefaults(d))
  BY DefaultsAreOk, UpdateIsOk DEF RestoreDefaults
<1> QED BY <1>10, <1>11

LEMMA PresentationIsOk ==
  ASSUME NEW d, DeskOk(d), NEW choice \in {"default", "changed"}
  PROVE  DeskOk(ChoosePresentation(d, choice))
<1> DEFINE p == [d.preferences EXCEPT !.presentation = choice]
           told == [d.told EXCEPT !.presentation = choice]
<1>1. PreferencesOk(d.preferences) /\ d.told = AsTold(d.preferences)
  BY DEF DeskOk
<1>2. p = [bindings |-> d.preferences.bindings, presentation |-> choice]
  BY <1>1 DEF PreferencesOk
<1>3. PreferencesOk(p)
  BY <1>1, <1>2 DEF PreferencesOk
<1>4. told = AsTold(p)
  <2>1. told = [keys |-> Changed(ResolveBindings(d.preferences.bindings)), presentation |-> choice]
    BY <1>1 DEF AsTold
  <2> HIDE DEF told
  <2> QED BY <1>2, <2>1 DEF AsTold
<1>5. ChoosePresentation(d, choice) = Update(d, p, told)
  BY DEF ChoosePresentation
<1> HIDE DEF p, told
<1> QED BY <1>3, <1>4, <1>5, UpdateIsOk

\* The last press, and the number of changes, in the same desk.
LEMMA LastIsOk ==
  ASSUME NEW d, DeskOk(d), NEW n, NEW last, last.key = last.told,
         NEW e, e = [d EXCEPT !.changes = n, !.last = last]
  PROVE  DeskOk(e)
<1>1. /\ e = [preferences |-> e.preferences, stored |-> e.stored, refuses |-> e.refuses,
              settings |-> e.settings, capturing |-> e.capturing, last |-> e.last,
              told |-> e.told, kept |-> e.kept, changes |-> e.changes]
      /\ e.preferences = d.preferences /\ e.stored = d.stored /\ e.last = last
      /\ e.told = d.told /\ e.kept = d.kept /\ e.capturing = d.capturing
  BY DEF DeskOk
<1> QED BY <1>1 DEF DeskOk

\* A press asks for what holds its key.
LEMMA PressIsOk ==
  ASSUME NEW d, DeskOk(d), NEW press, NEW a \in ShortcutAction(Keys(d), press), NEW outcome
  PROVE  DeskOk([d EXCEPT !.changes = @ + 1,
                   !.last = [key |-> LowerCase[press.key], told |-> ToldKey(d.told, a),
                             outcome |-> outcome]])
<1> DEFINE last == [key |-> LowerCase[press.key], told |-> ToldKey(d.told, a), outcome |-> outcome]
           n == d.changes + 1
<1>1. a \in Remappable /\ Keys(d)[a] = LowerCase[press.key]
  BY DEF ShortcutAction, Holders
<1>2. ToldKey(d.told, a) = Keys(d)[a]
  BY <1>1, ToldIsTheTable DEF DeskOk, Keys
<1>3. last.key = last.told
  BY <1>1, <1>2
<1> HIDE DEF last, n
<1>4. DeskOk([d EXCEPT !.changes = n, !.last = last])
  BY <1>3, LastIsOk
<1> QED BY <1>4 DEF last, n

LEMMA NoPressIsOk ==
  ASSUME NEW d, DeskOk(d)
  PROVE  DeskOk([d EXCEPT !.last = NoPress])
<1> DEFINE e == [d EXCEPT !.last = NoPress]
<1>1. NoPress.key = NoPress.told
  BY DEF NoPress
<1>2. /\ e = [preferences |-> e.preferences, stored |-> e.stored, refuses |-> e.refuses,
              settings |-> e.settings, capturing |-> e.capturing, last |-> e.last,
              told |-> e.told, kept |-> e.kept, changes |-> e.changes]
      /\ e.preferences = d.preferences /\ e.stored = d.stored /\ e.last = NoPress
      /\ e.told = d.told /\ e.kept = d.kept /\ e.capturing = d.capturing
  BY DEF DeskOk
<1> HIDE DEF e
<1>3. DeskOk(e)
  BY <1>1, <1>2 DEF DeskOk
<1> QED BY <1>3 DEF e

LEMMA ChangeKeyKeeps ==
  ASSUME DeskOk(desk), ChangeKey
  PROVE  DeskOk(desk')
<1> DEFINE released == [desk EXCEPT !.capturing = {}]
<1>1. DeskOk(released)
  BY ReleasedIsOk
<1>2. CASE \E a \in Editable : Sets([desk EXCEPT !.capturing = {a}])
  <2> PICK a \in Editable : desk' = [desk EXCEPT !.capturing = {a}]
    BY <1>2 DEF Sets
  <2>1. /\ desk' = [preferences |-> desk'.preferences, stored |-> desk'.stored, refuses |-> desk'.refuses,
                    settings |-> desk'.settings, capturing |-> desk'.capturing, last |-> desk'.last,
                    told |-> desk'.told, kept |-> desk'.kept, changes |-> desk'.changes]
        /\ desk'.preferences = desk.preferences /\ desk'.stored = desk.stored /\ desk'.last = desk.last
        /\ desk'.told = desk.told /\ desk'.kept = desk.kept /\ desk'.capturing = {a}
    BY DEF DeskOk
  <2> QED BY <2>1 DEF DeskOk
<1>3. CASE desk.capturing # {} /\ \E press \in Presses : Sets(CaptureKey(desk, press))
  BY <1>3, CaptureIsOk DEF Sets
<1>4. CASE \E a \in Editable : Sets(Bind(released, a, NoKey))
  <2> PICK a \in Editable : desk' = Bind(released, a, NoKey)
    BY <1>4 DEF Sets
  <2>1. a \in Remappable
    BY DeskAssumption
  <2> HIDE DEF released
  <2> QED BY <1>1, <2>1, BindIsOk
<1>5. CASE Sets(RestoreKeys(released))
  BY <1>1, <1>5, RestoreIsOk DEF Sets
<1> QED BY <1>2, <1>3, <1>4, <1>5 DEF ChangeKey

\* The preferences read from what was stored before are ones the program keeps.
LEMMA DocumentIsSettled ==
  ASSUME NEW kept \in Documents, kept # {}
  PROVE  Settled(LoadPreferences(kept).bindings)
<1> DEFINE d == CHOOSE document \in kept : TRUE
           o == d.bindings
           part == {b \in DOMAIN o \cap Remappable : o[b] = NoKey \/ IsBindable(o[b])}
           own == [a \in part |-> o[a]]
<1>1. d \in kept
  OBVIOUS
<1>2. LoadPreferences(kept).bindings = own
  <2>1. LoadPreferences(kept) = ParsePreferences(d)
    BY DEF LoadPreferences
  <2> HIDE DEF d
  <2> QED BY <2>1 DEF ParsePreferences
<1>3. /\ \A a \in DOMAIN o \cap Remappable : IsBindable(o[a]) =>
            \A b \in DOMAIN o \cap Remappable : o[a] = o[b] => a = b
      /\ \A a \in DOMAIN o \cap Remappable : IsBindable(o[a]) =>
            \A b \in Remappable : o[a] = DefaultKey[b] =>
              b \in DOMAIN o /\ (o[b] = NoKey \/ IsBindable(o[b]))
  <2> HIDE DEF d
  <2>1. \E x \in {d.bindings} :
         \A a \in DOMAIN x \cap Remappable : IsBindable(x[a]) =>
           /\ \A b \in DOMAIN x \cap Remappable : x[a] = x[b] => a = b
           /\ \A b \in Remappable : x[a] = DefaultKey[b] =>
                b \in DOMAIN x /\ (x[b] = NoKey \/ IsBindable(x[b]))
    BY <1>1, DeskAssumption
  <2> QED BY <2>1
<1>4. \A b \in Remappable : DefaultKey[b] # NoKey
  BY RegistryAssumption DEF IsBindable
<1> HIDE DEF o
<1>5. DOMAIN own = part /\ part \subseteq Remappable /\ part \subseteq DOMAIN o /\ \A a \in part : own[a] = o[a]
  OBVIOUS
<1>6. \A a \in part : own[a] = NoKey \/ IsBindable(own[a])
  OBVIOUS
<1> HIDE DEF own
<1>7. \A a, b \in part : own[a] = own[b] /\ own[a] # NoKey => a = b
  BY <1>3, <1>5
<1>8. \A a \in part : \A b \in Remappable \ part : own[a] # DefaultKey[b]
  <2> SUFFICES ASSUME NEW a \in part, NEW b \in Remappable \ part, own[a] = DefaultKey[b] PROVE FALSE
    OBVIOUS
  <2>1. IsBindable(o[a])
    BY <1>4, <1>5
  <2> QED BY <1>3, <1>5, <2>1
<1> QED BY <1>2, <1>5, <1>6, <1>7, <1>8 DEF Settled

LEMMA DeskInitially == Init => DeskOk(desk)
<1> SUFFICES ASSUME Init PROVE DeskOk(desk)
  OBVIOUS
<1>1. PICK kept \in Documents \cup {{}} : desk = DeskOf(kept, FALSE, 0)
  BY DEF Init
<1>2. PreferencesOk(LoadPreferences(kept))
  <2>1. CASE kept = {}
    BY <2>1, DefaultsAreOk DEF LoadPreferences
  <2>2. CASE kept # {}
    BY <2>2, DocumentIsSettled, LoadedIsOk
  <2> QED BY <2>1, <2>2
<1> QED BY <1>1, <1>2, MountedIsOk

LEMMA DeskKeeps ==
  ASSUME DeskOk(desk), [Next]_vars
  PROVE  DeskOk(desk')
<1> DEFINE released == [desk EXCEPT !.capturing = {}]
<1>1. DeskOk(released)
  BY ReleasedIsOk
<1>2. CASE UNCHANGED desk
  BY <1>2
<1>3. CASE ToggleSettings
  <2>1. desk' = [desk EXCEPT !.settings = ~@, !.capturing = {}]
    BY <1>3 DEF ToggleSettings, Sets
  <2>2. /\ desk' = [preferences |-> desk'.preferences, stored |-> desk'.stored, refuses |-> desk'.refuses,
                    settings |-> desk'.settings, capturing |-> desk'.capturing, last |-> desk'.last,
                    told |-> desk'.told, kept |-> desk'.kept, changes |-> desk'.changes]
        /\ desk'.preferences = desk.preferences /\ desk'.stored = desk.stored /\ desk'.last = desk.last
        /\ desk'.told = desk.told /\ desk'.kept = desk.kept /\ desk'.capturing = {}
    BY <2>1 DEF DeskOk
  <2> QED BY <2>2 DEF DeskOk
<1>4. CASE ChangeKey
  BY <1>4, ChangeKeyKeeps
<1>5. CASE ChangePresentation
  <2> PICK choice \in {"default", "changed"} : desk' = ChoosePresentation(released, choice)
    BY <1>5 DEF ChangePresentation, Sets
  <2> HIDE DEF released
  <2> QED BY <1>1, PresentationIsOk
<1>6. CASE RestoreEverything
  <2>1. desk' = RestoreDefaults(released)
    BY <1>6 DEF RestoreEverything, Sets
  <2> HIDE DEF released
  <2> QED BY <1>1, <2>1, RestoreIsOk
<1>7. CASE StorageChanges
  <2>1. desk' = [desk EXCEPT !.refuses = ~@]
    BY <1>7 DEF StorageChanges, Sets
  <2>2. /\ desk' = [preferences |-> desk'.preferences, stored |-> desk'.stored, refuses |-> desk'.refuses,
                    settings |-> desk'.settings, capturing |-> desk'.capturing, last |-> desk'.last,
                    told |-> desk'.told, kept |-> desk'.kept, changes |-> desk'.changes]
        /\ desk'.preferences = desk.preferences /\ desk'.stored = desk.stored /\ desk'.last = desk.last
        /\ desk'.told = desk.told /\ desk'.kept = desk.kept /\ desk'.capturing = desk.capturing
    BY <2>1 DEF DeskOk
  <2> QED BY <2>2 DEF DeskOk
<1>8. CASE PressKey
  <2>1. PICK press \in Presses : \E a \in ShortcutAction(Keys(desk), press) : \E outcome :
          desk' = [desk EXCEPT !.changes = @ + 1,
                     !.last = [key |-> LowerCase[press.key], told |-> ToldKey(desk.told, a),
                               outcome |-> outcome]]
    BY <1>8 DEF PressKey, Sets
  <2>2. PICK a \in ShortcutAction(Keys(desk), press) : \E outcome :
          desk' = [desk EXCEPT !.changes = @ + 1,
                     !.last = [key |-> LowerCase[press.key], told |-> ToldKey(desk.told, a),
                               outcome |-> outcome]]
    BY <2>1
  <2>3. PICK outcome :
          desk' = [desk EXCEPT !.changes = @ + 1,
                     !.last = [key |-> LowerCase[press.key], told |-> ToldKey(desk.told, a),
                               outcome |-> outcome]]
    BY <2>2
  <2>4. DeskOk([desk EXCEPT !.changes = @ + 1,
                  !.last = [key |-> LowerCase[press.key], told |-> ToldKey(desk.told, a),
                            outcome |-> outcome]])
    BY PressIsOk
  <2> QED BY <2>3, <2>4
<1>9. CASE NoticeGoes
  BY <1>9, NoPressIsOk DEF NoticeGoes, Sets
<1>10. CASE Reload
  <2>1. desk' = DeskOf(desk.stored, desk.refuses, desk.changes)
    BY <1>10 DEF Reload
  <2>2. PreferencesOk(LoadPreferences(desk.stored))
    BY DEF DeskOk
  <2> QED BY <2>1, <2>2, MountedIsOk
<1>11. CASE Transact \/ SkipStep \/ HideOrShow
  BY <1>2, <1>11 DEF Transact, SkipStep, HideOrShow, Commits
<1>12. CASE Read \/ Tick \/ TimerFires \/ Focus \/ DismissToast \/ Prefer \/ SaveStatusChanges
  BY <1>2, <1>12 DEF Read, Tick, TimerFires, Focus, DismissToast, Prefer, SaveStatusChanges
<1>13. CASE Save \/ Leave \/ Resume
  BY <1>2, <1>13 DEF Save, Leave, Resume
<1>14. CASE UNCHANGED vars
  BY <1>2, <1>14 DEF vars
<1> QED BY <1>3, <1>4, <1>5, <1>6, <1>7, <1>8, <1>9, <1>10, <1>11, <1>12, <1>13, <1>14 DEF Next

\* No key does two things: of settled overrides each names a key of its own.
LEMMA KeysAreDistinct ==
  ASSUME NEW o, Settled(o), NEW table, table = ResolveBindings(o),
         NEW bound, bound = {a \in Remappable : table[a] # NoKey}
  PROVE  Cardinality({table[a] : a \in bound}) = Cardinality(bound)
<1>1. table = [a \in Remappable |-> IF a \in DOMAIN o THEN o[a] ELSE DefaultKey[a]]
  BY SettledTable
<1>2. ASSUME NEW a \in bound, NEW b \in bound, table[a] = table[b] PROVE a = b
  <2>1. CASE a \in DOMAIN o /\ b \in DOMAIN o
    <3>1. o[a] = o[b] /\ o[a] # NoKey
      BY <1>1, <1>2, <2>1
    <3> QED BY <2>1, <3>1 DEF Settled
  <2>2. CASE a \in DOMAIN o /\ b \notin DOMAIN o
    <3>1. o[a] = DefaultKey[b]
      BY <1>1, <1>2, <2>2
    <3> QED BY <2>2, <3>1 DEF Settled
  <2>3. CASE a \notin DOMAIN o /\ b \in DOMAIN o
    <3>1. o[b] = DefaultKey[a]
      BY <1>1, <1>2, <2>3
    <3> QED BY <2>3, <3>1 DEF Settled
  <2>4. CASE a \notin DOMAIN o /\ b \notin DOMAIN o
    <3>1. DefaultKey[a] = DefaultKey[b]
      BY <1>1, <1>2, <2>4
    <3> QED BY <3>1, RegistryAssumption
  <2> QED BY <2>1, <2>2, <2>3, <2>4
<1>3. IsFiniteSet(bound)
  BY RegistryAssumption, FS_Subset
<1> DEFINE T == {table[a] : a \in bound}
           f == [a \in bound |-> table[a]]
<1>4. f \in Bijection(bound, T)
  BY <1>2 DEF Bijection, Injection, Surjection, IsInjective
<1>5. ExistsBijection(bound, T)
  BY <1>4 DEF ExistsBijection
<1> HIDE DEF T
<1>6. Cardinality(T) = Cardinality(bound)
  BY <1>3, <1>5, FS_Bijection
<1> QED BY <1>6 DEF T

-----------------------------------------------------------------------------
(* Sequences of entries, in the order of the raises they were last changed by. *)

Sorted(s) == \A i, j \in DOMAIN s : i < j => s[i].sequence < s[j].sequence

Numbered(s) == \A x \in Elements(s) : x.sequence \in Nat

\* One of them taken out.
LEMMA RemovedInOrder ==
  ASSUME NEW S, NEW s \in Seq(S), Sorted(s), Numbered(s), NEW i \in 1..Len(s)
  PROVE  /\ RemoveAt(s, i) \in Seq(S) /\ Len(RemoveAt(s, i)) = Len(s) - 1
         /\ Sorted(RemoveAt(s, i))
         /\ Elements(RemoveAt(s, i)) = Elements(s) \ {s[i]}
<1> DEFINE L == Len(s)
           r == RemoveAt(s, i)
           at(k) == IF k < i THEN k ELSE k + 1
<1>1. L \in Nat /\ DOMAIN s = 1..L /\ \A k \in 1..L : s[k] \in S
  BY LenProperties, ElementOfSeq
<1>2. /\ SubSeq(s, 1, i - 1) \in Seq(S) /\ Len(SubSeq(s, 1, i - 1)) = i - 1
      /\ \A k \in 1..(i - 1) : SubSeq(s, 1, i - 1)[k] = s[k]
  <2>1. \A k \in 1..(i - 1) : s[k] \in S
    BY <1>1
  <2>4. L \in Nat /\ i \in 1..L
    BY <1>1
  <2> HIDE DEF L
  <2>2. i - 1 \in Int /\ (i - 1) - 1 + 1 = i - 1 /\ (IF 1 <= i - 1 THEN (i - 1) - 1 + 1 ELSE 0) = i - 1
    BY <2>4
  <2>3. \A k \in 1..(i - 1) : 1 + k - 1 = k
    BY <2>4
  <2> QED BY <2>1, <2>2, <2>3, SubSeqProperties
<1>3. /\ SubSeq(s, i + 1, L) \in Seq(S) /\ Len(SubSeq(s, i + 1, L)) = L - i
      /\ \A k \in 1..(L - i) : SubSeq(s, i + 1, L)[k] = s[i + k]
  <2>1. \A k \in (i + 1)..L : s[k] \in S
    BY <1>1
  <2>4. L \in Nat /\ i \in 1..L
    BY <1>1
  <2> HIDE DEF L
  <2>2. i + 1 \in Int /\ L - (i + 1) + 1 = L - i /\ (IF i + 1 <= L THEN L - (i + 1) + 1 ELSE 0) = L - i
    BY <2>4
  <2>3. \A k \in 1..(L - i) : (i + 1) + k - 1 = i + k
    BY <2>4
  <2> QED BY <2>1, <2>2, <2>3, <2>4, SubSeqProperties
<1>4. r = SubSeq(s, 1, i - 1) \o SubSeq(s, i + 1, L)
  BY DEF RemoveAt
<1>5. /\ r \in Seq(S) /\ Len(r) = (i - 1) + (L - i)
      /\ \A k \in 1..((i - 1) + (L - i)) :
           r[k] = IF k <= i - 1 THEN SubSeq(s, 1, i - 1)[k] ELSE SubSeq(s, i + 1, L)[k - (i - 1)]
  <2> DEFINE p == SubSeq(s, 1, i - 1)
             q == SubSeq(s, i + 1, L)
  <2>1. p \in Seq(S) /\ Len(p) = i - 1 /\ q \in Seq(S) /\ Len(q) = L - i /\ r = p \o q
    BY <1>2, <1>3, <1>4
  <2> HIDE DEF r, L, p, q
  <2>2. /\ r \in Seq(S) /\ Len(r) = (i - 1) + (L - i)
        /\ \A k \in 1..((i - 1) + (L - i)) : r[k] = IF k <= i - 1 THEN p[k] ELSE q[k - (i - 1)]
    BY <2>1, ConcatProperties
  <2> QED BY <2>2 DEF p, q
<1> HIDE DEF r
<1>6. Len(r) = L - 1 /\ DOMAIN r = 1..(L - 1)
  <2>1. Len(r) = L - 1
    BY <1>1, <1>5
  <2> QED BY <1>5, <2>1, LenProperties
<1>7. ASSUME NEW k \in 1..(L - 1) PROVE r[k] = s[at(k)] /\ at(k) \in 1..L /\ at(k) # i
  <2>1. k \in 1..((i - 1) + (L - i))
    BY <1>1
  <2>2. CASE k < i
    <3>1. k \in 1..(i - 1) /\ k <= i - 1
      BY <1>1, <2>2
    <3>2. r[k] = s[k]
      BY <1>2, <1>5, <2>1, <3>1
    <3> QED BY <1>1, <2>2, <3>2
  <2>3. CASE ~ k < i
    <3>1. ~ k <= i - 1 /\ k - (i - 1) \in 1..(L - i) /\ i + (k - (i - 1)) = k + 1
      BY <1>1, <2>3
    <3>2. r[k] = s[k + 1]
      BY <1>3, <1>5, <2>1, <3>1
    <3> QED BY <1>1, <2>3, <3>2
  <2> QED BY <2>2, <2>3
<1>8. Sorted(r)
  <2> SUFFICES ASSUME NEW j \in DOMAIN r, NEW k \in DOMAIN r, j < k
               PROVE  r[j].sequence < r[k].sequence
    BY DEF Sorted
  <2>1. j \in 1..(L - 1) /\ k \in 1..(L - 1)
    BY <1>6
  <2>2. r[j] = s[at(j)] /\ r[k] = s[at(k)] /\ at(j) \in 1..L /\ at(k) \in 1..L
    BY <1>7, <2>1
  <2>3. at(j) < at(k)
    BY <1>1, <2>1
  <2> HIDE DEF at
  <2> QED BY <1>1, <2>2, <2>3 DEF Sorted
<1>9. Elements(r) \subseteq Elements(s) \ {s[i]}
  <2> SUFFICES ASSUME NEW k \in DOMAIN r PROVE r[k] \in Elements(s) \ {s[i]}
    BY DEF Elements
  <2>1. k \in 1..(L - 1)
    BY <1>6
  <2>2. r[k] = s[at(k)] /\ at(k) \in 1..L /\ at(k) # i
    BY <1>7, <2>1
  <2> HIDE DEF at
  <2>3. s[at(k)].sequence < s[i].sequence \/ s[i].sequence < s[at(k)].sequence
    <3>1. at(k) < i \/ i < at(k)
      BY <2>2
    <3> QED BY <1>1, <2>2, <3>1 DEF Sorted
  <2>4. s[i].sequence \in Nat
    BY <1>1 DEF Numbered, Elements
  <2>5. s[at(k)] # s[i]
    BY <2>3, <2>4
  <2> QED BY <1>1, <2>2, <2>5 DEF Elements
<1>10. ASSUME NEW x \in Elements(s), x # s[i] PROVE x \in Elements(r)
  <2>1. PICK k \in 1..L : x = s[k]
    BY <1>1 DEF Elements
  <2>2. k # i
    BY <1>10, <2>1
  <2> DEFINE m == IF k < i THEN k ELSE k - 1
  <2>3. m \in 1..(L - 1) /\ at(m) = k
    BY <1>1, <2>2
  <2> HIDE DEF m, at
  <2>4. r[m] = s[k]
    BY <1>7, <2>3
  <2> QED BY <1>6, <2>1, <2>3, <2>4 DEF Elements
<1>11. Elements(r) = Elements(s) \ {s[i]}
  BY <1>9, <1>10
<1> QED BY <1>5, <1>6, <1>8, <1>11 DEF r

\* One later than all put at the end.
LEMMA AppendedInOrder ==
  ASSUME NEW S, NEW s \in Seq(S), Sorted(s), NEW x \in S,
         \A y \in Elements(s) : y.sequence < x.sequence
  PROVE  /\ Append(s, x) \in Seq(S) /\ Len(Append(s, x)) = Len(s) + 1
         /\ Sorted(Append(s, x))
         /\ Elements(Append(s, x)) = Elements(s) \cup {x}
<1> DEFINE L == Len(s)
           a == Append(s, x)
<1>1. L \in Nat /\ DOMAIN s = 1..L
  BY LenProperties
<1>2. /\ a \in Seq(S) /\ Len(a) = L + 1
      /\ \A i \in 1..L : a[i] = s[i]
      /\ a[L + 1] = x
  BY AppendProperties
<1> HIDE DEF a
<1>3. DOMAIN a = 1..(L + 1)
  BY <1>2, LenProperties
<1>4. Sorted(a)
  <2> SUFFICES ASSUME NEW i \in DOMAIN a, NEW j \in DOMAIN a, i < j
               PROVE  a[i].sequence < a[j].sequence
    BY DEF Sorted
  <2>1. i \in 1..L /\ a[i] = s[i] /\ j \in 1..(L + 1)
    BY <1>1, <1>2, <1>3
  <2>2. CASE j = L + 1
    BY <1>1, <1>2, <2>1, <2>2 DEF Elements
  <2>3. CASE j \in 1..L
    BY <1>1, <1>2, <2>1, <2>3 DEF Sorted
  <2> QED BY <1>1, <2>1, <2>2, <2>3
<1>5. Elements(a) = Elements(s) \cup {x}
  <2>1. \A i \in 1..(L + 1) : i \in 1..L \/ i = L + 1
    BY <1>1
  <2>2. L + 1 \in 1..(L + 1) /\ 1..L \subseteq 1..(L + 1)
    BY <1>1
  <2>3. Elements(a) \subseteq Elements(s) \cup {x}
    BY <1>1, <1>2, <1>3, <2>1 DEF Elements
  <2>4. Elements(s) \cup {x} \subseteq Elements(a)
    BY <1>1, <1>2, <1>3, <2>2 DEF Elements
  <2> QED BY <2>3, <2>4
<1> QED BY <1>2, <1>4, <1>5 DEF a

\* The newest of them: those that are dropped are older than those that stay.
LEMMA NewestInOrder ==
  ASSUME NEW S, NEW s \in Seq(S), Sorted(s), NEW limit \in Nat \ {0}
  PROVE  /\ Newest(limit, s) \in Seq(S) /\ Len(Newest(limit, s)) <= limit
         /\ Sorted(Newest(limit, s))
         /\ Elements(Newest(limit, s)) \subseteq Elements(s)
         /\ \A x \in Elements(s) \ Elements(Newest(limit, s)) :
              \A y \in Elements(Newest(limit, s)) : x.sequence < y.sequence
         /\ s # <<>> => s[Len(s)] \in Elements(Newest(limit, s))
<1> DEFINE L == Len(s)
           b == L - limit + 1
           a == Max({1, b})
           m == SubSeq(s, a, L)
<1>1. L \in Nat /\ DOMAIN s = 1..L /\ \A k \in 1..L : s[k] \in S
  BY LenProperties, ElementOfSeq
<1>2. b \in Int
  BY <1>1
<1>3. a = IF 1 <= b THEN b ELSE 1
  <2> HIDE DEF b
  <2> QED BY <1>2, MaxOfTwo
<1> HIDE DEF a
<1>4. a \in Nat \ {0} /\ L - a + 1 <= limit /\ a <= L + 1
  BY <1>1, <1>3
<1> HIDE DEF b
<1>5. /\ m \in Seq(S) /\ Len(m) = L - a + 1
      /\ \A k \in 1..(L - a + 1) : m[k] = s[a + k - 1]
  <2>1. \A k \in a..L : s[k] \in S
    BY <1>1, <1>4
  <2>2. (IF a <= L THEN L - a + 1 ELSE 0) = L - a + 1
    BY <1>1, <1>4
  <2>3. a \in Int /\ L \in Int
    BY <1>1, <1>4
  <2> HIDE DEF L
  <2> QED BY <2>1, <2>2, <2>3, SubSeqProperties
<1>6. Newest(limit, s) = m
  BY DEF Newest, a, b
<1> HIDE DEF m
<1>7. DOMAIN m = 1..(L - a + 1)
  BY <1>5, LenProperties
<1>8. Sorted(m)
  <2> SUFFICES ASSUME NEW i \in DOMAIN m, NEW j \in DOMAIN m, i < j
               PROVE  m[i].sequence < m[j].sequence
    BY DEF Sorted
  <2>1. m[i] = s[a + i - 1] /\ m[j] = s[a + j - 1]
    BY <1>5, <1>7
  <2>2. a + i - 1 \in 1..L /\ a + j - 1 \in 1..L /\ a + i - 1 < a + j - 1
    BY <1>1, <1>4, <1>7
  <2> QED BY <1>1, <2>1, <2>2 DEF Sorted
<1>9. Elements(m) \subseteq Elements(s)
  <2> SUFFICES ASSUME NEW i \in DOMAIN m PROVE m[i] \in Elements(s)
    BY DEF Elements
  <2>1. m[i] = s[a + i - 1] /\ a + i - 1 \in 1..L
    BY SMTT(30), <1>1, <1>4, <1>5, <1>7
  <2> QED BY <1>1, <2>1 DEF Elements
<1>10. ASSUME NEW k \in a..L PROVE s[k] \in Elements(m)
  <2>1. k - a + 1 \in 1..(L - a + 1) /\ a + (k - a + 1) - 1 = k
    BY <1>1, <1>4
  <2>2. m[k - a + 1] = s[k]
    BY <1>5, <2>1
  <2> QED BY <1>7, <2>1, <2>2 DEF Elements
<1>11. ASSUME NEW x \in Elements(s) \ Elements(m), NEW y \in Elements(m)
       PROVE  x.sequence < y.sequence
  <2>1. PICK k \in 1..L : x = s[k]
    BY <1>1 DEF Elements
  <2>2. PICK j \in 1..(L - a + 1) : y = s[a + j - 1]
    BY <1>5, <1>7 DEF Elements
  <2>3. k < a
    BY <1>1, <1>4, <1>10, <2>1
  <2>4. a + j - 1 \in 1..L /\ k < a + j - 1
    BY <1>1, <1>4, <2>3
  <2> QED BY <1>1, <2>1, <2>2, <2>4 DEF Sorted
<1>12. s # <<>> => s[L] \in Elements(m)
  <2> SUFFICES ASSUME s # <<>> PROVE s[L] \in Elements(m)
    OBVIOUS
  <2>1. L # 0
    BY EmptySeq
  <2>2. b <= L
    BY <1>1 DEF b
  <2>3. L \in a..L
    BY <1>1, <1>2, <1>3, <1>4, <2>1, <2>2
  <2> QED BY <1>10, <2>3
<1> QED BY <1>4, <1>5, <1>6, <1>8, <1>9, <1>11, <1>12 DEF L
-----------------------------------------------------------------------------
(* What a raise does to the entries. *)

LEMMA MaxOfNumbers ==
  ASSUME NEW L \in Nat, NEW T, T \subseteq 1..L, T # {}
  PROVE  Max(T) \in T /\ \A y \in T : y <= Max(T)
<1> DEFINE J == {L - i : i \in T}
<1>1. J \subseteq Nat /\ J # {}
  <2>1. \A i \in T : L - i \in Nat
    OBVIOUS
  <2>2. PICK i \in T : TRUE
    OBVIOUS
  <2>3. L - i \in J
    BY <2>2
  <2> QED BY <2>1, <2>3
<1>2. PICK k \in J : \A j \in J : k <= j
  BY <1>1, LeastExists
<1>3. PICK x \in T : k = L - x
  BY <1>2
<1>4. ASSUME NEW y \in T PROVE x >= y
  <2>1. k <= L - y
    BY <1>2
  <2> QED BY <1>3, <2>1
<1>5. \E z \in T : \A y \in T : z >= y
  BY <1>4
<1>6. Max(T) \in T /\ \A y \in T : Max(T) >= y
  BY <1>5 DEF Max
<1> QED BY <1>6

\* The latest entry of a group, if it has one.
LEMMA LatestIsLast ==
  ASSUME NEW n, NoticesOk(n), Sorted(n.entries), NEW key
  PROVE  LET i == LatestOfGroup(n, key)
         IN  \/ i = 0 /\ \A e \in Elements(n.entries) : e.key # key
             \/ /\ i \in 1..Len(n.entries) /\ n.entries[i].key = key
                /\ \A e \in Elements(n.entries) : e.key = key => e.sequence <= n.entries[i].sequence
<1> DEFINE L == Len(n.entries)
           I == {i \in 1..L : n.entries[i].key = key}
<1>1. L \in Nat /\ DOMAIN n.entries = 1..L
  BY LenProperties DEF NoticesOk
<1>2. LatestOfGroup(n, key) = IF I # {} THEN Max(I) ELSE 0
  BY DEF LatestOfGroup, SelectLastInSeq
<1>3. CASE I = {}
  BY <1>1, <1>2, <1>3 DEF Elements
<1>4. CASE I # {}
  <2>1. I \subseteq 1..L
    OBVIOUS
  <2>2. Max(I) \in I /\ \A y \in I : y <= Max(I)
    <3> HIDE DEF I, L
    <3> QED BY <1>1, <1>4, <2>1, MaxOfNumbers
  <2>3. ASSUME NEW j \in 1..L, n.entries[j].key = key
        PROVE  n.entries[j].sequence <= n.entries[Max(I)].sequence
    <3>1. j <= Max(I) /\ Max(I) \in 1..L
      BY <2>2, <2>3
    <3>2. n.entries[j].sequence \in Nat /\ n.entries[Max(I)].sequence \in Nat
      BY <1>1, <3>1 DEF NoticesOk, EntryOk, Elements
    <3>3. CASE j = Max(I)
      BY <3>2, <3>3
    <3>4. CASE j # Max(I)
      <4>1. j < Max(I)
        BY <3>1, <3>4
      <4>2. n.entries[j].sequence < n.entries[Max(I)].sequence
        BY <1>1, <3>1, <4>1 DEF Sorted
      <4> QED BY <3>2, <4>2
    <3> QED BY <3>3, <3>4
  <2>4. \A e \in Elements(n.entries) : e.key = key => e.sequence <= n.entries[Max(I)].sequence
    BY <1>1, <2>3 DEF Elements
  <2>5. Max(I) \in 1..L /\ n.entries[Max(I)].key = key
    BY <2>2
  <2> QED BY <1>2, <1>4, <2>4, <2>5
<1> QED BY <1>3, <1>4

\* The entries others, with record at the end and some of the oldest gone.
Moved(entries, others, record) ==
  /\ entries \in Seq(Elements(entries)) /\ Len(entries) <= HistoryLimit /\ Sorted(entries)
  /\ record \in Elements(entries) /\ Elements(entries) \subseteq others \cup {record}
  /\ \A x \in others \ Elements(entries) : \A y \in Elements(entries) : x.sequence < y.sequence

\* The entry old goes on, or one begins.
Repeats(m, n, d, o, old) ==
  /\ old \in Elements(n.entries) /\ old.key = GroupKey(d, o)
  /\ \A e \in Elements(n.entries) : e.key = GroupKey(d, o) => e.sequence <= old.sequence
  /\ Moved(m.entries, Elements(n.entries) \ {old},
       [id |-> old.id, sequence |-> m.sequence, key |-> old.key,
        amount |-> IF d.adds THEN old.amount + o.amount ELSE o.amount,
        firstAt |-> old.firstAt, lastAt |-> o.at, count |-> old.count + 1])

Begins(m, n, d, o) ==
  /\ \A e \in Elements(n.entries) : e.key = GroupKey(d, o) =>
       \/ d.window = 0
       \/ \E l \in Elements(n.entries) : /\ l.key = GroupKey(d, o) /\ e.sequence <= l.sequence
                                         /\ o.at - l.lastAt > d.window
  /\ Moved(m.entries, Elements(n.entries),
       [id |-> m.sequence, sequence |-> m.sequence, key |-> GroupKey(d, o), amount |-> o.amount,
        firstAt |-> o.at, lastAt |-> o.at, count |-> 1])

LEMMA MovesToTheEnd ==
  ASSUME NEW S, NEW s \in Seq(S), Sorted(s), NEW x, \A y \in Elements(s) : y.sequence < x.sequence
  PROVE  Moved(Newest(HistoryLimit, Append(s, x)), Elements(s), x)
<1> DEFINE T == S \cup {x}
           a == Append(s, x)
           m == Newest(HistoryLimit, a)
<1>1. s \in Seq(T) /\ x \in T
  <2>1. S \subseteq T /\ x \in T
    OBVIOUS
  <2> HIDE DEF T
  <2> QED BY <2>1, SeqDef
<1> HIDE DEF T
<1>2. a \in Seq(T) /\ Len(a) = Len(s) + 1 /\ Sorted(a) /\ Elements(a) = Elements(s) \cup {x}
  BY <1>1, AppendedInOrder
<1>3. a # <<>> /\ a[Len(a)] = x
  BY <1>1, <1>2, AppendProperties
<1> HIDE DEF a
<1>4. HistoryLimit \in Nat \ {0}
  BY NoticesAssumption
<1>5. /\ m \in Seq(T) /\ Len(m) <= HistoryLimit /\ Sorted(m)
      /\ Elements(m) \subseteq Elements(a)
      /\ \A y \in Elements(a) \ Elements(m) : \A z \in Elements(m) : y.sequence < z.sequence
      /\ x \in Elements(m)
  BY <1>2, <1>3, <1>4, NewestInOrder
<1> HIDE DEF m
<1>6. m \in Seq(Elements(m))
  BY <1>5, SeqOfElements
<1>7. Moved(m, Elements(s), x)
  BY <1>2, <1>5, <1>6 DEF Moved
<1> QED BY <1>7 DEF m, a

LEMMA RaisingRegroups ==
  ASSUME NEW n, NoticesOk(n), Sorted(n.entries), NEW d, d.window \in Nat, NEW o, o.at \in Nat,
         \A e \in Elements(n.entries) : e.lastAt \in Nat
  PROVE  LET m == RaiseNotification(n, d, o)
         IN  Begins(m, n, d, o) \/ \E old : Repeats(m, n, d, o, old)
<1> DEFINE key == GroupKey(d, o)
           i == LatestOfGroup(n, key)
           next == n.sequence + 1
           joins == Joins(n, d, o)
           repeat == [n.entries[i] EXCEPT !.sequence = next, !.count = @ + 1, !.lastAt = o.at,
                                          !.amount = IF d.adds THEN @ + o.amount ELSE o.amount]
           first == [id |-> next, sequence |-> next, key |-> key, amount |-> o.amount,
                     firstAt |-> o.at, lastAt |-> o.at, count |-> 1]
           m == RaiseNotification(n, d, o)
           E == Elements(n.entries)
<1>1. /\ m.sequence = next
      /\ m.entries = Newest(HistoryLimit, Append(IF joins THEN RemoveAt(n.entries, i) ELSE n.entries,
                                                 IF joins THEN repeat ELSE first))
  BY DEF RaiseNotification
<1>2. /\ n.sequence \in Nat /\ n.entries \in Seq(E) /\ DOMAIN n.entries = 1..Len(n.entries)
      /\ \A e \in E : EntryOk(e, n.sequence)
  BY LenProperties DEF NoticesOk
<1>3. Numbered(n.entries) /\ \A e \in E : e.sequence < next
  BY <1>2 DEF Numbered, EntryOk
<1>4. \/ i = 0 /\ \A e \in E : e.key # key
      \/ /\ i \in 1..Len(n.entries) /\ n.entries[i].key = key
         /\ \A e \in E : e.key = key => e.sequence <= n.entries[i].sequence
  BY LatestIsLast
<1>5. joins <=> i > 0 /\ d.window > 0 /\ o.at - n.entries[i].lastAt <= d.window
  BY DEF Joins
<1> HIDE DEF i, m
<1>6. CASE joins
  <2> DEFINE old == n.entries[i]
             r == RemoveAt(n.entries, i)
             record == [id |-> old.id, sequence |-> next, key |-> old.key,
                        amount |-> IF d.adds THEN old.amount + o.amount ELSE o.amount,
                        firstAt |-> old.firstAt, lastAt |-> o.at, count |-> old.count + 1]
  <2>1. i \in 1..Len(n.entries) /\ old.key = key /\ \A e \in E : e.key = key => e.sequence <= old.sequence
    <3>1. i # 0
      BY <1>5, <1>6
    <3> QED BY <1>4, <3>1
  <2>2. old \in E
    BY <1>2, <2>1 DEF Elements
  <2>3. repeat = record
    <3> DEFINE count == old.count + 1
               amount == IF d.adds THEN old.amount + o.amount ELSE o.amount
    <3>1. repeat = [old EXCEPT !.sequence = next, !.count = count, !.lastAt = o.at, !.amount = amount]
      OBVIOUS
    <3>2. EntryOk(old, n.sequence)
      BY <1>2, <2>2
    <3> HIDE DEF old, next, count, amount, repeat
    <3>3. repeat = [id |-> old.id, sequence |-> next, key |-> old.key, amount |-> amount,
                    firstAt |-> old.firstAt, lastAt |-> o.at, count |-> count]
      BY <3>1, <3>2 DEF EntryOk
    <3> QED BY <3>3 DEF count, amount
  <2>4. r \in Seq(E) /\ Sorted(r) /\ Elements(r) = E \ {old}
    BY <1>2, <1>3, <2>1, RemovedInOrder
  <2>5. record.sequence = next
    OBVIOUS
  <2> HIDE DEF r, record, repeat, first
  <2>6. Moved(Newest(HistoryLimit, Append(r, record)), E \ {old}, record)
    <3>1. \A y \in Elements(r) : y.sequence < record.sequence
      BY <1>3, <2>4, <2>5
    <3> HIDE DEF E, old
    <3> QED BY <2>4, <3>1, MovesToTheEnd
  <2>7. m.entries = Newest(HistoryLimit, Append(r, record))
    BY <1>1, <1>6, <2>3 DEF r
  <2>8. Repeats(m, n, d, o, old)
    <3> HIDE DEF old
    <3> QED BY <1>1, <2>1, <2>2, <2>6, <2>7 DEF Repeats, record
  <2> QED BY <2>8 DEF m
<1>7. CASE ~joins
  <2>1. m.entries = Newest(HistoryLimit, Append(n.entries, first))
    BY <1>1, <1>7
  <2>2. first.sequence = next
    OBVIOUS
  <2>3. Moved(m.entries, E, first)
    <3> HIDE DEF first, E
    <3> QED BY <1>2, <1>3, <2>1, <2>2, MovesToTheEnd DEF E
  <2>4. ASSUME NEW e \in E, e.key = key, d.window # 0
        PROVE  \E l \in E : l.key = key /\ e.sequence <= l.sequence /\ o.at - l.lastAt > d.window
    <3>1. i \in 1..Len(n.entries) /\ n.entries[i].key = key /\ e.sequence <= n.entries[i].sequence
      BY <1>4, <2>4
    <3>2. n.entries[i] \in E
      BY <1>2, <3>1 DEF Elements
    <3>3. n.entries[i].lastAt \in Nat
      BY <3>2
    <3>4. i > 0 /\ d.window > 0
      BY <2>4, <3>1
    <3>5. ~(o.at - n.entries[i].lastAt <= d.window)
      BY <1>5, <1>7, <3>4
    <3>6. o.at - n.entries[i].lastAt > d.window
      BY <3>3, <3>5
    <3> QED BY <3>1, <3>2, <3>6
  <2>5. Begins(m, n, d, o)
    BY <1>1, <2>3, <2>4 DEF Begins
  <2> QED BY <2>5 DEF m
<1> QED BY <1>6, <1>7

-----------------------------------------------------------------------------
(* Sums. *)

\* What an entry adds up.
Amounts(R, S) == MapThenSumSet(LAMBDA k : R[k].amount, S)

\* Induction over the parts of a finite set: no part is the least to be wrong.
LEMMA PartsUpTo ==
  ASSUME NEW T, IsFiniteSet(T), NEW W, W \subseteq SUBSET T,
         \A s \in W : \E u \in W : u \subseteq s /\ u # s
  PROVE  W = {}
<1> SUFFICES ASSUME W # {} PROVE FALSE
  OBVIOUS
<1>1. IsWellFoundedOn(StrictSubsetOrdering(T), FiniteSubsetsOf(T))
  BY FS_StrictSubsetOrderingWellFounded
<1>2. W \subseteq FiniteSubsetsOf(T)
  BY FS_FiniteSubsetsOfFinite
<1>3. PICK s \in W : \A u \in W : ~ <<u, s>> \in StrictSubsetOrdering(T)
  BY <1>1, <1>2, WFMin
<1>4. PICK u \in W : u \subseteq s /\ u # s
  OBVIOUS
<1>5. <<u, s>> \in StrictSubsetOrdering(T)
  BY <1>4 DEF StrictSubsetOrdering
<1> QED BY <1>3, <1>5

\* The function a sum is read from.
AddsUp(g, R, T) ==
  /\ g[{}] = 0
  /\ \A s \in SUBSET T : s # {} =>
       g[s] = R[CHOOSE x \in s : TRUE].amount + g[s \ {CHOOSE x \in s : TRUE}]

LEMMA SumUnfolds ==
  ASSUME NEW R, NEW T, IsFiniteSet(T)
  PROVE  \E g : Amounts(R, T) = g[T] /\ AddsUp(g, R, T)
<1> DEFINE L == Cardinality(T)
           Part(n) == {s \in SUBSET T : Cardinality(s) <= n}
           Body(g, s) ==
             IF s = {} THEN 0
             ELSE R[CHOOSE x \in s : TRUE].amount + g[s \ {CHOOSE x \in s : TRUE}]
           Solves(g, n) == g = [s \in Part(n) |-> Body(g, s)]
           Unsolved == {n \in 0..L : ~ \E g : Solves(g, n)}
           made == CHOOSE g : g = [s \in SUBSET T |-> Body(g, s)]
<1>1. Amounts(R, T) = made[T]
  BY DEF Amounts, MapThenSumSet, MapThenFoldSet
<1>2. L \in Nat /\ \A s \in SUBSET T : IsFiniteSet(s) /\ Cardinality(s) \in Nat /\ Cardinality(s) <= L
  BY FS_CardinalityType, FS_Subset
<1>3. Part(L) = SUBSET T
  BY <1>2
<1>4. ASSUME NEW n \in 0..L, NEW s \in Part(n), s # {}
      PROVE  /\ n - 1 \in 0..L
             /\ s \ {CHOOSE x \in s : TRUE} \in Part(n - 1)
  <2> DEFINE x == CHOOSE x \in s : TRUE
  <2>1. x \in s
    BY <1>4
  <2> HIDE DEF x
  <2>2. Cardinality(s \ {x}) = Cardinality(s) - 1 /\ Cardinality(s \ {x}) \in Nat /\ s \ {x} \in SUBSET T
    BY <1>2, <2>1, FS_RemoveElement
  <2>3. Cardinality(s) <= n /\ Cardinality(s) \in Nat /\ n \in Nat /\ n <= L
    BY <1>2
  <2> HIDE DEF L
  <2>4. n - 1 \in 0..L /\ Cardinality(s \ {x}) <= n - 1
    BY <1>2, <2>2, <2>3
  <2> QED BY <2>2, <2>4 DEF x
<1>5. ASSUME NEW g, NEW h, NEW s, s = {} \/ g[s \ {CHOOSE x \in s : TRUE}] = h[s \ {CHOOSE x \in s : TRUE}]
      PROVE  Body(g, s) = Body(h, s)
  <2>1. CASE s = {}
    BY <2>1
  <2>2. CASE s # {}
    <3>1. g[s \ {CHOOSE x \in s : TRUE}] = h[s \ {CHOOSE x \in s : TRUE}]
      BY <1>5, <2>2
    <3>2. Body(g, s) = Body(h, s)
      BY <3>1, <2>2
    <3> QED BY <3>2
  <2> QED BY <2>1, <2>2
<1>6. ASSUME NEW g PROVE /\ Body(g, {}) = 0
                         /\ \A s : s # {} => Body(g, s) = R[CHOOSE x \in s : TRUE].amount + g[s \ {CHOOSE x \in s : TRUE}]
  OBVIOUS
<1>7. \A s \in Part(0) : s = {}
  BY <1>2, FS_EmptySet
<1> HIDE DEF Body, L
<1>8. 0 \notin Unsolved
  <2> DEFINE g == [s \in Part(0) |-> Body(<<>>, s)]
  <2>1. \A s \in Part(0) : Body(<<>>, s) = Body(g, s)
    <3> HIDE DEF g, Part
    <3> QED BY <1>5, <1>7
  <2>2. Solves(g, 0)
    BY <2>1
  <2> HIDE DEF g, Solves
  <2> QED BY <2>2
<1>9. ASSUME NEW n \in 1..L, n \in Unsolved PROVE n - 1 \in Unsolved
  <2>1. n - 1 \in 0..L
    BY <1>2
  <2> SUFFICES ASSUME NEW f, Solves(f, n - 1) PROVE FALSE
    BY <2>1
  <2> DEFINE g == [s \in Part(n) |-> Body(f, s)]
  <2>2. ASSUME NEW s \in Part(n - 1) PROVE s \in Part(n) /\ f[s] = Body(f, s)
    <3>1. f = [u \in Part(n - 1) |-> Body(f, u)]
      OBVIOUS
    <3>2. s \in SUBSET T /\ Cardinality(s) <= n - 1
      OBVIOUS
    <3>3. Cardinality(s) \in Nat
      BY <1>2, <3>2
    <3>4. Cardinality(s) <= n
      BY <1>2, <3>2, <3>3
    <3>5. s \in Part(n)
      BY <3>2, <3>4
    <3> HIDE DEF Solves, Part
    <3> QED BY <3>1, <3>5
  <2>3. \A s \in Part(n - 1) : g[s] = f[s]
    <3> HIDE DEF Solves, Part
    <3> QED BY <2>2
  <2>4. ASSUME NEW s \in Part(n) PROVE Body(f, s) = Body(g, s)
    <3>1. n \in 0..L
      BY <1>2
    <3>2. s # {} => s \ {CHOOSE x \in s : TRUE} \in Part(n - 1)
      BY <1>4, <3>1
    <3> HIDE DEF Solves, Part, g
    <3>3. s # {} => f[s \ {CHOOSE x \in s : TRUE}] = g[s \ {CHOOSE x \in s : TRUE}]
      BY <2>3, <3>2
    <3> QED BY <1>5, <3>3
  <2>5. Solves(g, n)
    <3>1. g = [s \in Part(n) |-> Body(f, s)]
      OBVIOUS
    <3> HIDE DEF Part, g
    <3> QED BY <2>4, <3>1
  <2> HIDE DEF g, Solves
  <2> QED BY <2>5, <1>9
<1>10. \E g : Solves(g, L)
  <2>1. Unsolved \subseteq 0..L
    OBVIOUS
  <2>2. L \in Unsolved \/ \E g : Solves(g, L)
    <3> HIDE DEF Solves
    <3> QED BY <1>2
  <2> HIDE DEF Unsolved, Solves
  <2>3. Unsolved = {}
    BY <1>2, <1>8, <1>9, <2>1, UpTo
  <2> QED BY <2>2, <2>3
<1>11. \E g : g = [s \in SUBSET T |-> Body(g, s)]
  <2> HIDE DEF Part
  <2> QED BY <1>3, <1>10
<1>12. made = [s \in SUBSET T |-> Body(made, s)]
  BY <1>11
<1> HIDE DEF made
<1>13. \A s \in SUBSET T : made[s] = Body(made, s)
  BY <1>12
<1>14. AddsUp(made, R, T)
  BY <1>6, <1>13 DEF AddsUp
<1> QED BY <1>1, <1>14

\* Two sums of the same numbers.
LEMMA SameSums ==
  ASSUME NEW R, NEW Q, NEW S, NEW T, NEW U, IsFiniteSet(U), U \subseteq S, U \subseteq T,
         \A k \in U : R[k].amount = Q[k].amount,
         NEW g, AddsUp(g, R, S), NEW h, AddsUp(h, Q, T)
  PROVE  \A s \in SUBSET U : g[s] = h[s]
<1> DEFINE W == {s \in SUBSET U : g[s] # h[s]}
<1>1. W \subseteq SUBSET U
  OBVIOUS
<1>2. ASSUME NEW s \in W PROVE \E u \in W : u \subseteq s /\ u # s
  <2>1. s # {}
    BY DEF AddsUp
  <2>2. PICK x \in s : x = CHOOSE y \in s : TRUE
    BY <2>1
  <2>3. g[s] = R[x].amount + g[s \ {x}] /\ h[s] = Q[x].amount + h[s \ {x}]
    BY <2>1, <2>2 DEF AddsUp
  <2>4. R[x].amount = Q[x].amount
    OBVIOUS
  <2>5. g[s \ {x}] # h[s \ {x}]
    BY <2>3, <2>4
  <2>6. s \ {x} \in W
    BY <2>5
  <2> QED BY <2>6
<1> HIDE DEF W
<1>3. W = {}
  BY <1>1, <1>2, PartsUpTo
<1> QED BY <1>3 DEF W

\* Sums are numbers, and each of the numbers is one summand.
LEMMA SumsAdd ==
  ASSUME NEW R, NEW T, IsFiniteSet(T), \A k \in T : R[k].amount \in Int,
         NEW g, AddsUp(g, R, T)
  PROVE  /\ \A s \in SUBSET T : g[s] \in Int
         /\ \A s \in SUBSET T : \A x \in s : g[s] = R[x].amount + g[s \ {x}]
<1> DEFINE W == {s \in SUBSET T : g[s] \notin Int}
           V == {s \in SUBSET T : \E x \in s : g[s] # R[x].amount + g[s \ {x}]}
<1>1. ASSUME NEW s \in SUBSET T, s # {}
      PROVE  \E p \in s : g[s] = R[p].amount + g[s \ {p}]
  <2>1. PICK p \in s : p = CHOOSE y \in s : TRUE
    BY <1>1
  <2> QED BY <1>1, <2>1 DEF AddsUp
<1>2. ASSUME NEW s \in W PROVE \E u \in W : u \subseteq s /\ u # s
  <2>1. s # {}
    <3>1. g[{}] = 0 /\ g[s] \notin Int
      BY DEF AddsUp
    <3>2. 0 \in Int
      OBVIOUS
    <3>3. g[s] # g[{}]
      BY <3>1, <3>2
    <3> QED BY <3>3
  <2>2. PICK p \in s : g[s] = R[p].amount + g[s \ {p}]
    BY <1>1, <2>1
  <2>3. R[p].amount \in Int
    OBVIOUS
  <2>4. g[s \ {p}] \notin Int
    BY <2>2, <2>3
  <2>5. s \ {p} \in W
    BY <2>4
  <2> QED BY <2>5
<1>3. W = {}
  <2>1. W \subseteq SUBSET T
    OBVIOUS
  <2> HIDE DEF W
  <2> QED BY <1>2, <2>1, PartsUpTo
<1>4. ASSUME NEW s \in SUBSET T PROVE g[s] \in Int
  BY <1>3
<1>5. ASSUME NEW s \in V PROVE \E u \in V : u \subseteq s /\ u # s
  <2>1. PICK x \in s : g[s] # R[x].amount + g[s \ {x}]
    OBVIOUS
  <2>2. PICK p \in s : g[s] = R[p].amount + g[s \ {p}]
    BY <1>1, <2>1
  <2>3. p # x
    BY <2>1, <2>2
  <2> SUFFICES ASSUME s \ {p} \notin V, s \ {x} \notin V PROVE FALSE
    <3>1. s \ {p} \subseteq s /\ s \ {p} # s /\ s \ {x} \subseteq s /\ s \ {x} # s
      OBVIOUS
    <3> HIDE DEF V
    <3> QED BY <3>1
  <2>4. g[s \ {p}] = R[x].amount + g[(s \ {p}) \ {x}]
    BY <2>3
  <2>5. g[s \ {x}] = R[p].amount + g[(s \ {x}) \ {p}]
    BY <2>3
  <2>6. (s \ {p}) \ {x} = (s \ {x}) \ {p}
    OBVIOUS
  <2>7. R[x].amount \in Int /\ R[p].amount \in Int /\ g[(s \ {x}) \ {p}] \in Int
    BY <1>4
  <2>8. g[s] = R[p].amount + (R[x].amount + g[(s \ {x}) \ {p}])
    BY <2>2, <2>4, <2>6
  <2>9. R[p].amount + (R[x].amount + g[(s \ {x}) \ {p}]) = R[x].amount + (R[p].amount + g[(s \ {x}) \ {p}])
    BY <2>7
  <2> QED BY <2>1, <2>5, <2>8, <2>9
<1>6. V = {}
  <2>1. V \subseteq SUBSET T
    OBVIOUS
  <2> HIDE DEF V
  <2> QED BY <1>5, <2>1, PartsUpTo
<1> QED BY <1>4, <1>6

\* What a further raise adds.
LEMMA OneMoreAmount ==
  ASSUME NEW R, NEW Q, NEW S, IsFiniteSet(S), NEW x, x \notin S,
         \A k \in S : R[k].amount \in Int /\ Q[k].amount = R[k].amount, Q[x].amount \in Int
  PROVE  /\ Amounts(Q, S \cup {x}) = Amounts(R, S) + Q[x].amount
         /\ Amounts(R, S) \in Int
<1> DEFINE T == S \cup {x}
<1>1. IsFiniteSet(T)
  BY FS_AddElement
<1>2. PICK g : Amounts(R, S) = g[S] /\ AddsUp(g, R, S)
  BY SumUnfolds
<1>3. T \ {x} = S /\ x \in T /\ S \subseteq T /\ \A k \in T : Q[k].amount \in Int
  OBVIOUS
<1> HIDE DEF T
<1>4. PICK h : Amounts(Q, T) = h[T] /\ AddsUp(h, Q, T)
  BY <1>1, SumUnfolds
<1>5. h[T] = Q[x].amount + h[S] /\ h[S] \in Int
  BY <1>1, <1>3, <1>4, SumsAdd
<1>6. \A s \in SUBSET S : g[s] = h[s]
  <2>1. S \subseteq T /\ S \subseteq S /\ \A k \in S : R[k].amount = Q[k].amount
    BY <1>3
  <2> QED BY <1>2, <1>4, <2>1, SameSums
<1>7. g[S] = h[S]
  BY <1>6
<1> QED BY <1>2, <1>3, <1>4, <1>5, <1>7 DEF T

LEMMA SameAmounts ==
  ASSUME NEW R, NEW Q, NEW S, IsFiniteSet(S), \A k \in S : Q[k].amount = R[k].amount
  PROVE  Amounts(Q, S) = Amounts(R, S)
<1>1. PICK g : Amounts(R, S) = g[S] /\ AddsUp(g, R, S)
  BY SumUnfolds
<1>2. PICK h : Amounts(Q, S) = h[S] /\ AddsUp(h, Q, S)
  BY SumUnfolds
<1>3. \A s \in SUBSET S : g[s] = h[s]
  BY <1>1, <1>2, SameSums
<1> QED BY <1>1, <1>2, <1>3

LEMMA AmountOfOne ==
  ASSUME NEW R, NEW x, R[x].amount \in Int
  PROVE  Amounts(R, {x}) = R[x].amount
<1>1. IsFiniteSet({x})
  BY FS_Singleton
<1>2. PICK g : Amounts(R, {x}) = g[{x}] /\ AddsUp(g, R, {x})
  BY <1>1, SumUnfolds
<1>3. {x} \ {x} = {} /\ (CHOOSE y \in {x} : TRUE) = x
  OBVIOUS
<1>4. g[{x}] = R[x].amount + 0
  BY <1>2, <1>3 DEF AddsUp
<1> QED BY <1>2, <1>4

-----------------------------------------------------------------------------
(* The history as an account of the raises. *)

\* The raises of the entry e, by their numbers.
RaisesOf(R, e) == {k \in e.id..e.sequence : R[k].key = e.key}

\* What an entry says of its raises, when all is told up to the time t.
EntryTells(e, R, t) ==
  /\ e.id \in Nat \ {0}
  /\ e.id \in RaisesOf(R, e) /\ e.sequence \in RaisesOf(R, e)
  /\ e.count = Cardinality(RaisesOf(R, e))
  /\ e.amount = IF Definition[e.key[1]].adds THEN Amounts(R, RaisesOf(R, e)) ELSE R[e.sequence].amount
  /\ e.firstAt \in Nat /\ e.lastAt \in Nat /\ e.firstAt <= e.lastAt /\ e.lastAt <= t

\* Two entries of one group do not run into each other.
Apart(e, f) ==
  f.key = e.key /\ e.sequence < f.sequence =>
    /\ f.id > e.sequence
    /\ Definition[e.key[1]].window = 0 \/ f.firstAt - e.lastAt > Definition[e.key[1]].window

\* Nothing later than the oldest entry is missing.
Covered(E, R) ==
  \A k \in DOMAIN R : (\E e \in E : e.sequence <= k) => \E e \in E : k \in RaisesOf(R, e)

Account(entries, R, t) ==
  /\ Len(entries) <= HistoryLimit /\ Sorted(entries)
  /\ \A e \in Elements(entries) : EntryTells(e, R, t)
  /\ \A e, f \in Elements(entries) : Apart(e, f)
  /\ Covered(Elements(entries), R)

\* The raises Q are R and one more.
Adds(Q, R, key, amount) ==
  /\ Len(R) \in Nat /\ DOMAIN R = 1..Len(R) /\ DOMAIN Q = 1..(Len(R) + 1)
  /\ \A k \in 1..Len(R) : Q[k] = R[k] /\ R[k].amount \in Int
  /\ Q[Len(R) + 1].key = key /\ Q[Len(R) + 1].amount = amount

LEMMA DefinitionOf ==
  ASSUME NEW j \in DOMAIN Authored
  PROVE  Authored[j].id \in DOMAIN Definition /\ Definition[Authored[j].id] = Authored[j]
<1> DEFINE id == Authored[j].id
           I == {i \in 1..Len(Authored) : Authored[i].id = id}
<1>1. id \in DOMAIN Definition
  BY DEF Definition
<1>2. j \in I /\ \A i \in I : i = j
  BY AuthoredAssumption
<1>3. I \subseteq Nat
  OBVIOUS
<1>4. Min(I) \in I
  <2> HIDE DEF I
  <2> QED BY <1>2, <1>3, MinOfNaturals
<1>5. SelectInSeq(Authored, LAMBDA d : d.id = id) = Min(I)
  BY <1>2 DEF SelectInSeq
<1>6. Definition[id] = Authored[Min(I)]
  BY <1>1, <1>5 DEF Definition
<1>7. Min(I) = j
  BY <1>2, <1>4
<1> QED BY <1>1, <1>6, <1>7

LEMMA OneOfNumber ==
  ASSUME NEW S, NEW s \in Seq(S), Sorted(s), Numbered(s),
         NEW x \in Elements(s), NEW y \in Elements(s), x.sequence = y.sequence
  PROVE  x = y
<1>1. PICK i \in DOMAIN s : x = s[i]
  BY DEF Elements
<1>2. PICK j \in DOMAIN s : y = s[j]
  BY DEF Elements
<1>3. i \in Nat /\ j \in Nat
  BY LenProperties
<1>4. x.sequence \in Nat
  BY DEF Numbered
<1>5. ~ i < j /\ ~ j < i
  BY <1>1, <1>2, <1>4 DEF Sorted
<1> QED BY <1>1, <1>2, <1>3, <1>5

\* Raises are finitely many.
LEMMA FinitelyMany ==
  ASSUME NEW R, NEW e, e.id \in Nat, e.sequence \in Nat
  PROVE  IsFiniteSet(RaisesOf(R, e))
<1>1. IsFiniteSet(e.id..e.sequence)
  BY FS_Interval
<1>2. RaisesOf(R, e) \in SUBSET (e.id..e.sequence)
  BY DEF RaisesOf
<1> QED BY <1>1, <1>2, FS_Subset

\* What came before is told as it was.
LEMMA EarlierTells ==
  ASSUME NEW R, NEW Q, NEW key, NEW amount, Adds(Q, R, key, amount),
         NEW t \in Nat, NEW u \in Nat, t <= u,
         NEW e, EntryTells(e, R, t), e.sequence \in Nat, e.sequence <= Len(R)
  PROVE  RaisesOf(Q, e) = RaisesOf(R, e) /\ EntryTells(e, Q, u)
<1> DEFINE K == RaisesOf(R, e)
<1>1. \A k \in e.id..e.sequence : k \in 1..Len(R) /\ Q[k] = R[k]
  BY DEF EntryTells, Adds
<1>2. RaisesOf(Q, e) = K
  BY <1>1 DEF RaisesOf
<1>3. \A k \in K : Q[k].amount = R[k].amount /\ Q[k] = R[k]
  BY <1>1 DEF RaisesOf
<1>4. IsFiniteSet(K)
  BY FinitelyMany DEF EntryTells
<1> HIDE DEF K
<1>5. Amounts(Q, K) = Amounts(R, K)
  BY <1>3, <1>4, SameAmounts
<1>6. Q[e.sequence].amount = R[e.sequence].amount
  BY <1>3 DEF EntryTells, K
<1>7. e.lastAt <= u
  BY DEF EntryTells
<1> QED BY <1>2, <1>5, <1>6, <1>7 DEF EntryTells, K

\* Entries that go on, or give way to later ones, leave nothing out.
\* The entries M are what a record leaves of E: those it does not replace and, of those, the newest.
Remains(M, E, gone, record, R) ==
  /\ record.sequence = Len(R) + 1 /\ record.id \in Nat /\ record.id <= Len(R) + 1
  /\ \A e \in E : e.id \in Nat /\ e.sequence \in Nat /\ e.sequence <= Len(R)
  /\ \A e \in gone : e.key = record.key /\ e.id = record.id
  /\ record \in M /\ M \subseteq (E \ gone) \cup {record}
  /\ \A x \in (E \ gone) \ M : \A y \in M : x.sequence < y.sequence

LEMMA CoveredStill ==
  ASSUME NEW R, NEW Q, NEW amount, NEW record, Adds(Q, R, record.key, amount),
         NEW E, Covered(E, R), NEW gone, NEW M, Remains(M, E, gone, record, R)
  PROVE  Covered(M, Q)
<1> USE DEF Remains
<1> SUFFICES ASSUME NEW k \in DOMAIN Q, NEW y \in M, y.sequence <= k
             PROVE  \E e \in M : k \in RaisesOf(Q, e)
  BY DEF Covered
<1>1. Len(R) \in Nat /\ k \in 1..(Len(R) + 1)
  BY DEF Adds
<1>2. CASE k = Len(R) + 1
  <2>1. k \in record.id..record.sequence /\ Q[k].key = record.key
    BY <1>1, <1>2 DEF Adds
  <2> QED BY <2>1 DEF RaisesOf
<1>3. CASE k \in 1..Len(R)
  <2>1. y \in E /\ y \notin gone
    <3>1. ~ Len(R) + 1 <= k
      BY <1>1, <1>3
    <3> QED BY <3>1
  <2>2. k \in DOMAIN R /\ Q[k] = R[k]
    BY <1>3 DEF Adds
  <2>3. PICK e \in E : k \in RaisesOf(R, e)
    BY <2>1, <2>2 DEF Covered
  <2>4. k \in e.id..e.sequence /\ R[k].key = e.key
    BY <2>3 DEF RaisesOf
  <2>5. CASE e \in gone
    <3>1. k \in record.id..record.sequence /\ Q[k].key = record.key
      BY <1>1, <1>3, <2>2, <2>4, <2>5
    <3> QED BY <3>1 DEF RaisesOf
  <2>6. CASE e \in (E \ gone) \ M
    <3>1. e.sequence < y.sequence
      BY <2>6
    <3>2. e.sequence \in Nat /\ y.sequence \in Nat
      BY <2>1
    <3> QED BY <1>3, <2>4, <3>1, <3>2
  <2>7. CASE e \in M
    <3>1. k \in RaisesOf(Q, e)
      BY <2>2, <2>4 DEF RaisesOf
    <3> QED BY <2>7, <3>1
  <2> QED BY <2>5, <2>6, <2>7
<1> QED BY <1>1, <1>2, <1>3

\* The last raise of a group is that of its latest entry.
LEMMA LastOfGroup ==
  ASSUME NEW R, NEW E, Covered(E, R), \A e \in E : e.sequence \in Nat,
         NEW old \in E, \A e \in E : e.key = old.key => e.sequence <= old.sequence,
         NEW k \in DOMAIN R, k \in Nat, k > old.sequence
  PROVE  R[k].key # old.key
<1> SUFFICES ASSUME R[k].key = old.key PROVE FALSE
  OBVIOUS
<1>1. PICK e \in E : k \in RaisesOf(R, e)
  BY DEF Covered
<1>2. k \in e.id..e.sequence /\ e.key = old.key
  BY <1>1 DEF RaisesOf
<1> QED BY <1>2

\* A repeat tells of one raise more.
LEMMA RepeatTells ==
  ASSUME NEW R, NEW Q, NEW key, NEW amount, Adds(Q, R, key, amount), amount \in Int,
         NEW t, NEW at \in Nat,
         NEW old, EntryTells(old, R, t), old.key = key, old.sequence \in Nat, old.sequence <= Len(R),
         t \in Nat, t <= at,
         \A k \in DOMAIN R : k > old.sequence => R[k].key # key,
         NEW record, record.id = old.id, record.sequence = Len(R) + 1, record.key = key,
         record.amount = (IF Definition[key[1]].adds THEN old.amount + amount ELSE amount),
         record.firstAt = old.firstAt, record.lastAt = at, record.count = old.count + 1
  PROVE  EntryTells(record, Q, at)
<1> DEFINE K == RaisesOf(R, old)
           next == Len(R) + 1
<1>1. Len(R) \in Nat /\ DOMAIN R = 1..Len(R)
  BY DEF Adds
<1>2. old.id \in Nat \ {0} /\ old.id \in K /\ old.sequence \in K /\ old.count = Cardinality(K)
  BY DEF EntryTells
<1>3. RaisesOf(Q, record) = K \cup {next}
  <2>1. ASSUME NEW k \in RaisesOf(Q, record) PROVE k \in K \cup {next}
    <3>1. k \in old.id..next /\ Q[k].key = key
      BY DEF RaisesOf
    <3>2. CASE k = next
      BY <3>2
    <3>3. CASE k # next
      <4>1. k \in DOMAIN R /\ Q[k] = R[k]
        BY <1>1, <1>2, <3>1, <3>3 DEF Adds
      <4>2. ~ k > old.sequence
        BY <3>1, <4>1
      <4>3. k \in old.id..old.sequence
        BY <1>1, <1>2, <3>1, <4>2
      <4> QED BY <3>1, <4>1, <4>3 DEF RaisesOf
    <3> QED BY <3>2, <3>3
  <2>2. ASSUME NEW k \in K PROVE k \in RaisesOf(Q, record)
    <3>1. k \in old.id..old.sequence /\ R[k].key = key
      BY DEF RaisesOf
    <3>2. k \in 1..Len(R) /\ k \in old.id..next
      BY <1>1, <1>2, <3>1
    <3>3. Q[k] = R[k]
      BY <3>2 DEF Adds
    <3> QED BY <3>1, <3>2, <3>3 DEF RaisesOf
  <2>3. next \in RaisesOf(Q, record)
    <3>1. next \in old.id..next
      <4>1. old.id \in old.id..old.sequence
        BY <1>2 DEF RaisesOf
      <4> QED BY <1>1, <1>2, <4>1
    <3> QED BY <3>1 DEF RaisesOf, Adds
  <2> QED BY <2>1, <2>2, <2>3
<1>4. \A k \in K : k \in 1..Len(R) /\ R[k].amount \in Int /\ Q[k].amount = R[k].amount
  <2> TAKE k \in K
  <2>1. k \in 1..Len(R)
    BY <1>1, <1>2 DEF RaisesOf
  <2> QED BY <2>1 DEF Adds
<1>5. next \notin K
  BY <1>1, <1>4
<1>6. IsFiniteSet(K)
  BY <1>2, FinitelyMany
<1>7. Cardinality(K \cup {next}) = Cardinality(K) + 1
  BY <1>5, <1>6, FS_AddElement
<1>8. Q[next].amount = amount /\ Amounts(Q, K \cup {next}) = Amounts(R, K) + amount
  <2>1. Q[next].amount = amount
    BY DEF Adds
  <2> HIDE DEF K, next
  <2> QED BY <1>4, <1>5, <1>6, <2>1, OneMoreAmount
<1>9. record.amount = IF Definition[record.key[1]].adds THEN Amounts(Q, RaisesOf(Q, record))
                      ELSE Q[record.sequence].amount
  <2>1. CASE Definition[key[1]].adds
    <3>1. old.amount = Amounts(R, K)
      BY <2>1 DEF EntryTells
    <3> HIDE DEF K, next
    <3> QED BY <1>3, <1>8, <2>1, <3>1
  <2>2. CASE ~Definition[key[1]].adds
    BY <1>8, <2>2
  <2> QED BY <2>1, <2>2
<1>10. record.firstAt \in Nat /\ record.firstAt <= at
  BY DEF EntryTells
<1>11. record.id \in RaisesOf(Q, record) /\ record.sequence \in RaisesOf(Q, record)
  BY <1>2, <1>3
<1> HIDE DEF K, next
<1>12. record.count = Cardinality(RaisesOf(Q, record))
  BY <1>2, <1>3, <1>7
<1> QED BY <1>2, <1>9, <1>10, <1>11, <1>12 DEF EntryTells

\* A first raise tells of itself.
LEMMA FirstTells ==
  ASSUME NEW R, NEW Q, NEW key, NEW amount, Adds(Q, R, key, amount), amount \in Int, NEW at \in Nat,
         NEW record, record.id = Len(R) + 1, record.sequence = Len(R) + 1, record.key = key,
         record.amount = amount, record.firstAt = at, record.lastAt = at, record.count = 1
  PROVE  EntryTells(record, Q, at)
<1> DEFINE next == Len(R) + 1
<1>1. next \in Nat \ {0} /\ next..next = {next} /\ Q[next].key = key /\ Q[next].amount = amount
  BY DEF Adds
<1> HIDE DEF next
<1>2. RaisesOf(Q, record) = {next}
  BY <1>1 DEF RaisesOf, next
<1>3. Amounts(Q, {next}) = amount
  BY <1>1, AmountOfOne
<1>4. Cardinality({next}) = 1
  BY FS_Singleton
<1>5. record.id = next /\ record.sequence = next
  BY DEF next
<1> QED BY <1>1, <1>2, <1>3, <1>4, <1>5 DEF EntryTells

\* The history n tells of the raises R until the time t.
Tells(n, R, t) == NoticesOk(n) /\ Len(R) = n.sequence /\ t \in Nat /\ Account(n.entries, R, t)

\* What is so for all that is moved and for the one at the end, is so of the entries.
LEMMA MovedTells ==
  ASSUME NEW n, NEW R, NEW t, Tells(n, R, t),
         NEW Q, NEW key, NEW amount, Adds(Q, R, key, amount), NEW at \in Nat, t <= at,
         NEW gone, gone \subseteq Elements(n.entries),
         NEW record, record.key = key, record.sequence = Len(R) + 1, EntryTells(record, Q, at),
         \A e \in gone : e.key = key /\ e.id = record.id,
         \A e \in Elements(n.entries) \ gone : Apart(e, record),
         NEW entries, Moved(entries, Elements(n.entries) \ gone, record)
  PROVE  Account(entries, Q, at)
<1> DEFINE E == Elements(n.entries)
           M == Elements(entries)
           L == Len(R)
<1>1. L \in Nat /\ \A e \in E : e.id \in Nat /\ e.sequence \in Nat /\ e.sequence <= L
  BY DEF Tells, NoticesOk, EntryOk
<1>2. /\ \A e \in E : EntryTells(e, R, t)
      /\ \A e, f \in E : Apart(e, f)
      /\ Covered(E, R)
  BY DEF Tells, Account
<1>3. /\ Len(entries) <= HistoryLimit /\ Sorted(entries)
      /\ record \in M /\ M \subseteq (E \ gone) \cup {record}
      /\ \A x \in (E \ gone) \ M : \A y \in M : x.sequence < y.sequence
  BY DEF Moved
<1> HIDE DEF E, M
<1>4. ASSUME NEW e \in M PROVE EntryTells(e, Q, at)
  <2>1. CASE e = record
    BY <2>1
  <2>2. CASE e \in E
    <3>1. t \in Nat
      BY DEF Tells
    <3> QED BY <1>1, <1>2, <2>2, <3>1, EarlierTells
  <2> QED BY <1>3, <2>1, <2>2
<1>5. ASSUME NEW e \in M, NEW f \in M PROVE Apart(e, f)
  <2>1. CASE e = record
    <3>1. ~ e.sequence < f.sequence
      BY <1>1, <1>3, <2>1
    <3> QED BY <3>1 DEF Apart
  <2>2. CASE e # record /\ f = record
    <3>1. e \in E \ gone
      BY <1>3, <2>2
    <3> QED BY <2>2, <3>1 DEF E
  <2>3. CASE e # record /\ f # record
    BY <1>2, <1>3, <2>3
  <2> QED BY <2>1, <2>2, <2>3
<1>6. record.id \in Nat /\ record.id <= L + 1
  <2>1. record.id \in record.id..(L + 1) /\ record.id \in Nat
    BY DEF EntryTells, RaisesOf
  <2> QED BY <1>1, <2>1
<1>7. Covered(M, Q)
  <2>1. Adds(Q, R, record.key, amount) /\ record.sequence = L + 1
    BY DEF L
  <2>2. \A e \in gone : e.key = record.key /\ e.id = record.id
    OBVIOUS
  <2> HIDE DEF L
  <2>3. L = Len(R)
    BY DEF L
  <2>4. record.id \in Nat /\ record.id <= L + 1 /\ \A e \in E : e.id \in Nat /\ e.sequence \in Nat /\ e.sequence <= L
    BY ONLY <1>1, <1>6
  <2>5. Remains(M, E, gone, record, R)
    BY ONLY <1>3, <2>1, <2>2, <2>3, <2>4 DEF Remains
  <2> QED BY ONLY <1>2, <2>1, <2>5, CoveredStill
<1> QED BY <1>3, <1>4, <1>5, <1>7 DEF Account, M

LEMMA RepeatAccounts ==
  ASSUME NEW n, NEW R, NEW t, Tells(n, R, t), NEW d, NEW o, o.at \in Nat, t <= o.at, o.amount \in Int,
         NEW Q, Adds(Q, R, GroupKey(d, o), o.amount), Definition[GroupKey(d, o)[1]] = d,
         NEW m, m.sequence = n.sequence + 1, NEW old, Repeats(m, n, d, o, old)
  PROVE  Account(m.entries, Q, o.at)
<1> DEFINE E == Elements(n.entries)
           record == [id |-> old.id, sequence |-> m.sequence, key |-> old.key,
                      amount |-> IF d.adds THEN old.amount + o.amount ELSE o.amount,
                      firstAt |-> old.firstAt, lastAt |-> o.at, count |-> old.count + 1]
           key == GroupKey(d, o)
           gone == {old}
<1>1. /\ old \in E /\ old.key = key
      /\ \A e \in E : e.key = key => e.sequence <= old.sequence
      /\ Moved(m.entries, E \ gone, record)
  BY DEF Repeats
<1>2. m.sequence = Len(R) + 1 /\ t \in Nat /\ n.entries \in Seq(E) /\ Sorted(n.entries) /\ Numbered(n.entries)
  BY DEF Tells, NoticesOk, EntryOk, Account, Numbered
<1>3. Len(R) \in Nat /\ \A e \in E : e.id \in Nat /\ e.sequence \in Nat /\ e.sequence <= Len(R)
  BY DEF Tells, NoticesOk, EntryOk
<1>4. EntryTells(old, R, t) /\ Covered(E, R) /\ \A e, f \in E : Apart(e, f)
  BY <1>1 DEF Tells, Account
<1>5. /\ record.id = old.id /\ record.sequence = Len(R) + 1 /\ record.key = key
      /\ record.amount = (IF Definition[key[1]].adds THEN old.amount + o.amount ELSE o.amount)
      /\ record.firstAt = old.firstAt /\ record.lastAt = o.at /\ record.count = old.count + 1
  BY <1>1, <1>2
<1> HIDE DEF record, key, E
<1>6. ASSUME NEW k \in DOMAIN R, k > old.sequence PROVE R[k].key # key
  <2>1. k \in Nat
    BY DEF Adds
  <2> QED BY <1>1, <1>3, <1>4, <1>6, <2>1, LastOfGroup
<1>7. EntryTells(record, Q, o.at)
  <2>1. Adds(Q, R, key, o.amount)
    BY DEF key
  <2> QED BY <1>1, <1>2, <1>3, <1>4, <1>5, <1>6, <2>1, RepeatTells
<1>8. ASSUME NEW e \in E \ gone PROVE Apart(e, record)
  <2> SUFFICES ASSUME e.key = key
               PROVE  /\ record.id > e.sequence
                      /\ \/ Definition[e.key[1]].window = 0
                         \/ record.firstAt - e.lastAt > Definition[e.key[1]].window
    BY <1>5 DEF Apart
  <2>1. e.sequence <= old.sequence /\ e # old
    BY <1>1
  <2>2. e.sequence # old.sequence
    BY <1>1, <1>2, <2>1, OneOfNumber DEF E
  <2>3. e.sequence < old.sequence
    BY <1>1, <1>3, <2>1, <2>2
  <2>4. Apart(e, old)
    BY <1>1, <1>4
  <2> QED BY <1>1, <1>5, <2>3, <2>4 DEF Apart
<1>9. \A e \in gone : e.key = key /\ e.id = record.id
  BY <1>1, <1>5
<1>10. gone \subseteq E
  BY <1>1
<1>11. Adds(Q, R, key, o.amount)
  BY DEF key
<1> HIDE DEF gone
<1> QED BY <1>1, <1>5, <1>7, <1>8, <1>9, <1>10, <1>11, MovedTells DEF E

LEMMA FirstAccounts ==
  ASSUME NEW n, NEW R, NEW t, Tells(n, R, t), NEW d, NEW o, o.at \in Nat, t <= o.at, o.amount \in Int,
         NEW Q, Adds(Q, R, GroupKey(d, o), o.amount), Definition[GroupKey(d, o)[1]] = d, d.window \in Nat,
         NEW m, m.sequence = n.sequence + 1, Begins(m, n, d, o)
  PROVE  Account(m.entries, Q, o.at)
<1> DEFINE E == Elements(n.entries)
           record == [id |-> m.sequence, sequence |-> m.sequence, key |-> GroupKey(d, o),
                      amount |-> o.amount, firstAt |-> o.at, lastAt |-> o.at, count |-> 1]
           key == GroupKey(d, o)
           gone == {}
<1>1. Moved(m.entries, E \ gone, record)
  <2>1. E \ gone = E
    OBVIOUS
  <2> QED BY <2>1 DEF Begins
<1>2. ASSUME NEW e \in E, e.key = key
      PROVE  \/ d.window = 0
             \/ \E l \in E : /\ l.key = key /\ e.sequence <= l.sequence
                             /\ o.at - l.lastAt > d.window
  BY <1>2 DEF Begins
<1>3. m.sequence = Len(R) + 1 /\ t \in Nat /\ n.entries \in Seq(E) /\ Sorted(n.entries) /\ Numbered(n.entries)
  BY DEF Tells, NoticesOk, EntryOk, Account, Numbered
<1>4. Len(R) \in Nat /\ \A e \in E : e.id \in Nat /\ e.sequence \in Nat /\ e.sequence <= Len(R)
  BY DEF Tells, NoticesOk, EntryOk
<1>5. (\A e \in E : EntryTells(e, R, t)) /\ \A e, f \in E : Apart(e, f)
  BY DEF Tells, Account
<1>6. /\ record.id = Len(R) + 1 /\ record.sequence = Len(R) + 1 /\ record.key = key
      /\ record.amount = o.amount
      /\ record.firstAt = o.at /\ record.lastAt = o.at /\ record.count = 1
  BY <1>3
<1>7. Adds(Q, R, key, o.amount) /\ Definition[key[1]] = d
  OBVIOUS
<1> HIDE DEF record, key, E, gone
<1>8. EntryTells(record, Q, o.at)
  BY <1>6, <1>7, FirstTells
<1>9. ASSUME NEW e \in E PROVE Apart(e, record)
  <2> SUFFICES ASSUME e.key = key
               PROVE  /\ record.id > e.sequence
                      /\ d.window = 0 \/ record.firstAt - e.lastAt > d.window
    BY <1>6, <1>7 DEF Apart
  <2>1. record.id > e.sequence
    BY <1>4, <1>6
  <2> SUFFICES ASSUME d.window # 0 PROVE o.at - e.lastAt > d.window
    BY <1>6, <2>1
  <2>2. PICK l \in E : l.key = key /\ e.sequence <= l.sequence /\ o.at - l.lastAt > d.window
    BY <1>2
  <2>3. e.lastAt \in Nat /\ l.firstAt \in Nat /\ l.lastAt \in Nat /\ l.firstAt <= l.lastAt
    BY <1>5 DEF EntryTells
  <2>4. CASE e.sequence = l.sequence
    <3>1. e = l
      BY <1>3, <2>4, OneOfNumber DEF E
    <3> QED BY <2>2, <3>1
  <2>5. CASE e.sequence < l.sequence
    <3>1. l.firstAt - e.lastAt > d.window
      BY <1>5, <1>7, <2>2, <2>5 DEF Apart
    <3>2. d.window \in Nat /\ o.at \in Nat
      OBVIOUS
    <3> QED BY <2>2, <2>3, <3>1, <3>2
  <2> QED BY <1>4, <2>2, <2>4, <2>5
<1>10. (\A e \in gone : e.key = key /\ e.id = record.id) /\ gone \subseteq E
  BY DEF gone
<1> QED BY ZenonT(60), <1>1, <1>6, <1>7, <1>8, <1>9, <1>10, MovedTells DEF E

\* A raise, told.
LEMMA RaisingTells ==
  ASSUME NEW n, NEW R, NEW t, Tells(n, R, t), NEW i \in DOMAIN Authored,
         NEW o, o.at \in Nat, t <= o.at, o.amount \in Int,
         NEW Q, Adds(Q, R, GroupKey(Authored[i], o), o.amount), Len(Q) = Len(R) + 1
  PROVE  Tells(RaiseNotification(n, Authored[i], o), Q, o.at)
<1> DEFINE d == Authored[i]
           m == RaiseNotification(n, d, o)
<1>1. d.window \in Nat
  BY AuthoredAssumption
<1>2. Definition[GroupKey(d, o)[1]] = d
  <2>1. GroupKey(d, o)[1] = d.id
    BY DEF GroupKey
  <2> QED BY <2>1, DefinitionOf
<1>3. NoticesOk(n) /\ Sorted(n.entries) /\ \A e \in Elements(n.entries) : e.lastAt \in Nat
  BY DEF Tells, Account, EntryTells
<1>4. m.sequence = n.sequence + 1
  BY DEF RaiseNotification
<1>5. NoticesOk(m)
  BY <1>3, RaisingIsLater DEF Later
<1> HIDE DEF d
<1>6. Begins(m, n, d, o) \/ \E old : Repeats(m, n, d, o, old)
  BY <1>1, <1>3, RaisingRegroups
<1>7. Adds(Q, R, GroupKey(d, o), o.amount)
  BY DEF d
<1> HIDE DEF m
<1>8. Account(m.entries, Q, o.at)
  <2>1. CASE Begins(m, n, d, o)
    BY <1>1, <1>2, <1>4, <1>7, <2>1, FirstAccounts
  <2>2. CASE \E old : Repeats(m, n, d, o, old)
    <3>1. PICK old : Repeats(m, n, d, o, old)
      BY <2>2
    <3> QED BY <1>2, <1>4, <1>7, <3>1, RepeatAccounts
  <2> QED BY <1>6, <2>1, <2>2
<1>9. Len(Q) = m.sequence
  BY <1>4 DEF Tells
<1> QED BY <1>5, <1>8, <1>9 DEF Tells, m, d

-----------------------------------------------------------------------------
(* What is told once in a visit to a site. *)

OnceIds == {Authored[i].id : i \in {j \in DOMAIN Authored : Authored[j].once}}
OnceKeys == {<<id, "">> : id \in OnceIds}

\* A memory of the site: every key once.
MemoryOk(W) ==
  /\ W \in Seq(Elements(W)) /\ Elements(W) \subseteq OnceKeys
  /\ \A i, j \in DOMAIN W : W[i] = W[j] => i = j

\* The memory has what was raised in the visit v.
Remembered(W, R, v) ==
  /\ MemoryOk(W)
  /\ \A k \in DOMAIN R : R[k].visit = v /\ Definition[R[k].key[1]].once => R[k].key \in Elements(W)

OnceOnly(R) ==
  \A i, j \in DOMAIN R : i < j /\ R[i].key = R[j].key /\ R[i].visit = R[j].visit =>
    ~Definition[R[i].key[1]].once

RaiseOk(r, v) ==
  r.key[1] \in DOMAIN Definition /\ r.amount \in Int /\ r.visit \in Nat /\ r.visit <= v

RaisesOk(R, v) == R \in Seq(Elements(R)) /\ v \in Nat /\ \A k \in DOMAIN R : RaiseOk(R[k], v)

LEMMA OnceIdsAreFew == IsFiniteSet(OnceIds) /\ Cardinality(OnceIds) <= SiteMemory
<1> DEFINE I == {j \in DOMAIN Authored : Authored[j].once}
           f == [i \in I |-> Authored[i].id]
<1>1. IsFiniteSet(I)
  <2>1. IsFiniteSet(1..Len(Authored)) /\ I \in SUBSET (1..Len(Authored))
    BY FS_Interval, AuthoredAssumption, NoticesAssumption
  <2> QED BY <2>1, FS_Subset
<1>2. f \in Surjection(I, OnceIds)
  BY DEF Surjection, OnceIds
<1> HIDE DEF I, f
<1>3. IsFiniteSet(OnceIds)
  BY <1>1, <1>2, FS_Surjection
<1> QED BY <1>3, AuthoredAssumption DEF OnceIds

LEMMA MemoryFits ==
  ASSUME NEW W, MemoryOk(W)
  PROVE  Len(W) <= SiteMemory
<1> DEFINE L == Len(W)
           f == [i \in 1..L |-> W[i][1]]
<1>1. L \in Nat /\ DOMAIN W = 1..L
  BY LenProperties DEF MemoryOk
<1>2. ASSUME NEW i \in 1..L PROVE W[i][1] \in OnceIds /\ W[i] = <<W[i][1], "">>
  <2>1. W[i] \in OnceKeys
    BY <1>1 DEF MemoryOk, Elements
  <2>2. PICK id \in OnceIds : W[i] = <<id, "">>
    BY <2>1 DEF OnceKeys
  <2>3. W[i][1] = id
    <3> DEFINE w == W[i]
    <3>1. w = <<id, "">>
      BY <2>2
    <3> HIDE DEF w
    <3>2. w[1] = id
      BY <3>1
    <3> QED BY <3>2 DEF w
  <2> QED BY <2>2, <2>3
<1>3. f \in Injection(1..L, OnceIds)
  <2>1. f \in [1..L -> OnceIds]
    BY <1>2
  <2>2. ASSUME NEW i \in 1..L, NEW j \in 1..L, f[i] = f[j] PROVE i = j
    <3>1. W[i] = W[j]
      BY <1>2, <2>2
    <3> QED BY <1>1, <3>1 DEF MemoryOk
  <2> HIDE DEF f
  <2> QED BY <2>1, <2>2 DEF Injection, IsInjective
<1> HIDE DEF f
<1>4. Cardinality(1..L) <= Cardinality(OnceIds)
  BY <1>3, OnceIdsAreFew, FS_Injection
<1>5. Cardinality(1..L) = L
  <2> HIDE DEF L
  <2>1. Cardinality(1..L) = IF 1 > L THEN 0 ELSE L - 1 + 1
    BY <1>1, FS_Interval
  <2> QED BY <1>1, <2>1
<1>6. Cardinality(OnceIds) \in Nat /\ SiteMemory \in Nat
  BY OnceIdsAreFew, FS_CardinalityType, NoticesAssumption
<1> HIDE DEF L
<1>7. L <= SiteMemory
  BY <1>1, <1>4, <1>5, <1>6, OnceIdsAreFew
<1> QED BY <1>7 DEF L

LEMMA NewestIsAll ==
  ASSUME NEW S, NEW s \in Seq(S), NEW limit \in Nat \ {0}, Len(s) <= limit
  PROVE  Newest(limit, s) = s
<1> DEFINE L == Len(s)
           b == L - limit + 1
<1>1. L \in Nat /\ DOMAIN s = 1..L /\ \A k \in 1..L : s[k] \in S
  BY LenProperties, ElementOfSeq
<1>2. b \in Int /\ b <= 1
  BY <1>1
<1>3. Max({1, b}) = 1
  <2> HIDE DEF b
  <2> QED BY <1>2, MaxOfTwo
<1> DEFINE q == SubSeq(s, 1, L)
<1>4. q \in Seq(S) /\ Len(q) = L /\ \A k \in 1..L : q[k] = s[k]
  <2>1. (IF 1 <= L THEN L - 1 + 1 ELSE 0) = L
    BY <1>1
  <2>2. L \in Int /\ \A k \in 1..L : 1 + k - 1 = k
    BY <1>1
  <2> HIDE DEF L
  <2> QED BY <1>1, <2>1, <2>2, SubSeqProperties
<1> HIDE DEF q
<1>5. q = s
  BY <1>1, <1>4, SeqEqual
<1> QED BY <1>3, <1>5 DEF Newest, q, b

\* One key more, and it is not forgotten.
LEMMA MemoryGrows ==
  ASSUME NEW W, MemoryOk(W), NEW key \in OnceKeys, key \notin Elements(W)
  PROVE  LET V == Newest(SiteMemory, Append(W, key))
         IN  MemoryOk(V) /\ Elements(V) = Elements(W) \cup {key}
<1> DEFINE S == Elements(W) \cup {key}
           V == Append(W, key)
           L == Len(W)
<1>1. L \in Nat /\ DOMAIN W = 1..L /\ W \in Seq(S)
  <2>1. W \in Seq(Elements(W)) /\ Elements(W) \subseteq S
    BY DEF MemoryOk
  <2>2. W \in Seq(S)
    <3> HIDE DEF S
    <3> QED BY <2>1, SeqDef
  <2> QED BY <2>1, <2>2, LenProperties
<1>2. key \in S /\ S \subseteq OnceKeys
  BY DEF MemoryOk
<1> HIDE DEF S
<1>3. V \in Seq(S) /\ Len(V) = L + 1 /\ (\A i \in 1..L : V[i] = W[i]) /\ V[L + 1] = key
  BY <1>1, <1>2, AppendProperties
<1> HIDE DEF V, L
<1>4. DOMAIN V = 1..(L + 1) /\ \A i \in 1..(L + 1) : i \in 1..L \/ i = L + 1
  BY <1>1, <1>3, LenProperties
<1>5. \A i, j \in DOMAIN V : V[i] = V[j] => i = j
  <2>1. \A i \in 1..L : V[i] \in Elements(W)
    BY <1>1, <1>3 DEF Elements
  <2>2. \A i, j \in 1..L : V[i] = V[j] => i = j
    BY <1>1, <1>3 DEF MemoryOk
  <2> QED BY <1>3, <1>4, <2>1, <2>2
<1>6. Elements(V) = Elements(W) \cup {key}
  <2>1. L + 1 \in 1..(L + 1) /\ 1..L \subseteq 1..(L + 1)
    BY <1>1
  <2>2. Elements(V) \subseteq Elements(W) \cup {key}
    BY <1>1, <1>3, <1>4 DEF Elements
  <2>3. Elements(W) \cup {key} \subseteq Elements(V)
    BY <1>1, <1>3, <1>4, <2>1 DEF Elements
  <2> QED BY <2>2, <2>3
<1>7. V \in Seq(Elements(V))
  BY <1>3, SeqOfElements
<1>8. MemoryOk(V)
  BY <1>2, <1>5, <1>6, <1>7 DEF MemoryOk, S
<1>9. Newest(SiteMemory, V) = V
  <2>1. Len(V) <= SiteMemory /\ SiteMemory \in Nat \ {0}
    BY <1>8, MemoryFits, NoticesAssumption
  <2> QED BY <1>3, <2>1, NewestIsAll
<1> QED BY <1>6, <1>8, <1>9 DEF V

\* The whole of what the engine keeps of its history, told until t.
HistoryTells(c, t) ==
  /\ CampaignShape(c) /\ Tells(c.notices, c.raises, t)
  /\ RaisesOk(c.raises, c.visit)
  /\ Remembered(c.notices.raisedThisSite, c.raises, c.visit)
  /\ OnceOnly(c.raises)

\* What the raises of a transaction leave alone.
Aside(b, c) == b.now = c.now /\ b.player = c.player /\ b.conditions = c.conditions /\ b.guide = c.guide

LEMMA TellsLater ==
  ASSUME NEW c, NEW t, HistoryTells(c, t), NEW u \in Nat, t <= u
  PROVE  HistoryTells(c, u)
<1>1. ASSUME NEW e, EntryTells(e, c.raises, t) PROVE EntryTells(e, c.raises, u)
  <2>1. t \in Nat /\ e.lastAt \in Nat /\ e.lastAt <= t
    BY <1>1 DEF HistoryTells, Tells, EntryTells
  <2>2. e.lastAt <= u
    BY <2>1
  <2> QED BY <1>1, <2>2 DEF EntryTells
<1>2. Account(c.notices.entries, c.raises, u)
  BY <1>1 DEF HistoryTells, Tells, Account
<1> QED BY <1>2 DEF HistoryTells, Tells

\* One raise more, as the next one.
LEMMA OneMoreRaise ==
  ASSUME NEW R, NEW v, RaisesOk(R, v), NEW x, RaiseOk(x, v)
  PROVE  /\ RaisesOk(Append(R, x), v) /\ Adds(Append(R, x), R, x.key, x.amount)
         /\ Len(Append(R, x)) = Len(R) + 1 /\ Append(R, x)[Len(R) + 1] = x
<1> DEFINE S == Elements(R) \cup {x}
           Q == Append(R, x)
           L == Len(R)
<1>1. L \in Nat /\ DOMAIN R = 1..L /\ R \in Seq(S)
  <2>1. R \in Seq(Elements(R)) /\ Elements(R) \subseteq S
    BY DEF RaisesOk
  <2>2. R \in Seq(S)
    <3> HIDE DEF S
    <3> QED BY <2>1, SeqDef
  <2> QED BY <2>1, <2>2, LenProperties
<1>2. x \in S
  OBVIOUS
<1> HIDE DEF S
<1>3. Q \in Seq(S) /\ Len(Q) = L + 1 /\ (\A i \in 1..L : Q[i] = R[i]) /\ Q[L + 1] = x
  BY <1>1, <1>2, AppendProperties
<1> HIDE DEF Q, L
<1>4. DOMAIN Q = 1..(L + 1) /\ \A i \in 1..(L + 1) : i \in 1..L \/ i = L + 1
  BY <1>1, <1>3, LenProperties
<1>5. Q \in Seq(Elements(Q))
  BY <1>3, SeqOfElements
<1>6. \A k \in DOMAIN Q : RaiseOk(Q[k], v)
  BY <1>1, <1>3, <1>4 DEF RaisesOk
<1>7. \A k \in 1..L : R[k].amount \in Int
  BY <1>1 DEF RaisesOk, RaiseOk
<1>8. Adds(Q, R, x.key, x.amount)
  BY <1>1, <1>3, <1>4, <1>7 DEF Adds, L
<1>9. RaisesOk(Q, v)
  BY <1>5, <1>6 DEF RaisesOk
<1> QED BY <1>3, <1>8, <1>9 DEF Q, L

LEMMA OnceKeyOf ==
  ASSUME NEW i \in DOMAIN Authored, Authored[i].once, NEW o
  PROVE  GroupKey(Authored[i], o) \in OnceKeys
<1>1. Authored[i].id \in OnceIds /\ ~Authored[i].bySubject
  BY AuthoredAssumption DEF OnceIds
<1> QED BY <1>1 DEF GroupKey, OnceKeys

\* One definition, told of an event no earlier than all that was told.
LEMMA RaiseTells ==
  ASSUME NEW c, NEW t, HistoryTells(c, t), NEW i \in DOMAIN Authored,
         NEW e, e.at \in Nat, t <= e.at, e.amount \in Int
  PROVE  HistoryTells(RaiseIf(c, Authored[i], e), e.at) /\ Aside(RaiseIf(c, Authored[i], e), c)
<1> DEFINE d == Authored[i]
           key == GroupKey(d, e)
           n == c.notices
           m == RaiseNotification(n, d, e)
           R == c.raises
           L == Len(R)
           v == c.visit
           W == n.raisedThisSite
           V == m.raisedThisSite
           x == Told(c, d, e)
           Q == Append(R, x)
           b == [c EXCEPT !.notices = m, !.raises = Q]
           once == d.once /\ RaisedThisSite(n, key)
<1>1. /\ RaiseIf(c, d, e) = c \/ (RaiseIf(c, d, e) = b /\ ~once)
  BY DEF RaiseIf, Raise
<1>2. HistoryTells(c, e.at)
  BY TellsLater
<1>3. Aside(c, c)
  BY DEF Aside
<1>4. ASSUME ~once PROVE HistoryTells(b, e.at) /\ Aside(b, c)
  <2>1. key[1] = d.id /\ key[1] \in DOMAIN Definition /\ Definition[key[1]] = d
    <3>1. key[1] = d.id
      BY DEF GroupKey
    <3> QED BY <3>1, DefinitionOf
  <2>2. x.key = key /\ x.amount = e.amount /\ x.visit = v
    BY DEF Told
  <2>3. RaisesOk(R, v) /\ v \in Nat
    BY DEF HistoryTells, RaisesOk
  <2>4. RaiseOk(x, v)
    <3> HIDE DEF x, key, d
    <3> QED BY <2>1, <2>2, <2>3 DEF RaiseOk
  <2>5. /\ RaisesOk(Q, v) /\ Adds(Q, R, x.key, x.amount)
        /\ Len(Q) = L + 1 /\ Q[L + 1] = x
    <3> HIDE DEF x, R, v
    <3> QED BY <2>3, <2>4, OneMoreRaise
  <2>6. Tells(m, Q, e.at)
    <3>1. Tells(n, R, t)
      BY DEF HistoryTells
    <3>2. Adds(Q, R, GroupKey(Authored[i], e), e.amount)
      BY <2>2, <2>5
    <3> HIDE DEF Q, R, n, d
    <3> QED BY <2>5, <3>1, <3>2, RaisingTells DEF d
  <2>7. V = IF d.once /\ ~RaisedThisSite(n, key) THEN Newest(SiteMemory, Append(W, key)) ELSE W
    BY DEF RaiseNotification
  <2>8. RaisedThisSite(n, key) <=> key \in Elements(W)
    <3>1. MemoryOk(W)
      BY DEF HistoryTells, Remembered
    <3>2. DOMAIN W = 1..Len(W)
      BY <3>1, LenProperties DEF MemoryOk
    <3> HIDE DEF key
    <3> QED BY <3>2 DEF RaisedThisSite, Contains, Elements
  <2>9. d.once => key \in OnceKeys
    BY OnceKeyOf
  <2>10. Remembered(W, R, v) /\ OnceOnly(R)
    BY DEF HistoryTells
  <2>11. CampaignShape(b) /\ b.notices = m /\ b.raises = Q /\ b.visit = v /\ Aside(b, c)
    <3>1. CampaignShape(c)
      BY DEF HistoryTells
    <3>2. b = [c EXCEPT !.notices = m, !.raises = Q]
      OBVIOUS
    <3> HIDE DEF m, Q, b
    <3>3. b = [now |-> c.now, player |-> c.player, shield |-> c.shield, conditions |-> c.conditions,
               notices |-> m, guide |-> c.guide, raises |-> Q, visit |-> c.visit]
      BY <3>1, <3>2 DEF CampaignShape
    <3> QED BY <3>3 DEF CampaignShape, Aside
  <2> HIDE DEF d, key, n, m, R, L, v, W, V, x, Q, b
  <2>12. ~(d.once /\ key \in Elements(W))
    BY <1>4, <2>8
  <2>13. DOMAIN R = 1..L /\ DOMAIN Q = 1..(L + 1) /\ L \in Nat /\ \A k \in 1..L : Q[k] = R[k]
    BY <2>5 DEF Adds, L
  <2>14. \A k \in DOMAIN Q : k \in DOMAIN R \/ k = L + 1
    BY <2>13
  <2>15. MemoryOk(V) /\ Elements(W) \subseteq Elements(V) /\ (d.once => key \in Elements(V))
    <3>1. MemoryOk(W)
      BY <2>10 DEF Remembered
    <3>2. CASE d.once
      <4>1. key \notin Elements(W) /\ key \in OnceKeys
        BY <2>9, <2>12, <3>2
      <4>2. V = Newest(SiteMemory, Append(W, key))
        BY <2>7, <2>8, <3>2, <4>1
      <4>3. MemoryOk(V) /\ Elements(V) = Elements(W) \cup {key}
        BY <3>1, <4>1, <4>2, MemoryGrows
      <4> QED BY <4>3
    <3>3. CASE ~d.once
      BY <2>7, <3>1, <3>3
    <3> QED BY <3>2, <3>3
  <2>16. Remembered(V, Q, v)
    <3> SUFFICES ASSUME NEW k \in DOMAIN Q, Q[k].visit = v, Definition[Q[k].key[1]].once
                 PROVE  Q[k].key \in Elements(V)
      BY <2>15 DEF Remembered
    <3>1. CASE k \in DOMAIN R
      BY <2>10, <2>13, <2>15, <3>1 DEF Remembered
    <3>2. CASE k = L + 1
      BY <2>1, <2>2, <2>5, <2>15, <3>2
    <3> QED BY <2>14, <3>1, <3>2
  <2>17. OnceOnly(Q)
    <3> SUFFICES ASSUME NEW k \in DOMAIN Q, NEW j \in DOMAIN Q, k < j, Q[k].key = Q[j].key,
                        Q[k].visit = Q[j].visit, Definition[Q[k].key[1]].once
                 PROVE  FALSE
      BY DEF OnceOnly
    <3>1. k \in 1..L
      BY <2>13
    <3>2. CASE j \in 1..L
      BY <2>10, <2>13, <3>1, <3>2 DEF OnceOnly
    <3>3. CASE j = L + 1
      <4>1. R[k].key = key /\ R[k].visit = v /\ Definition[R[k].key[1]].once
        BY <2>2, <2>5, <2>13, <3>1, <3>3
      <4>2. key \in Elements(W)
        BY <2>10, <2>13, <3>1, <4>1 DEF Remembered
      <4> QED BY <2>1, <2>12, <4>1, <4>2
    <3> QED BY <2>13, <3>2, <3>3
  <2> QED BY <2>5, <2>6, <2>11, <2>16, <2>17 DEF HistoryTells, V
<1> HIDE DEF b, once
<1> QED BY <1>1, <1>2, <1>3, <1>4

\* At another site nothing was raised yet.
LEMMA ArriveTells ==
  ASSUME NEW c, NEW t, HistoryTells(c, t)
  PROVE  HistoryTells(Arrive(c), t) /\ Aside(Arrive(c), c)
<1> DEFINE n == Forget(c.notices)
           v == c.visit + 1
           b == Arrive(c)
<1>1. b = [c EXCEPT !.notices = n, !.visit = v]
  BY DEF Arrive
<1>2. NoticesOk(n) /\ n.sequence = c.notices.sequence /\ n.entries = c.notices.entries /\ n.raisedThisSite = <<>>
  BY DEF Forget, NoticesOk, HistoryTells, Tells
<1>3. CampaignShape(c) /\ c.visit \in Nat /\ v \in Nat /\ c.visit < v
  BY DEF HistoryTells, RaisesOk
<1> HIDE DEF n, b, v
<1>4. b = [now |-> c.now, player |-> c.player, shield |-> c.shield, conditions |-> c.conditions,
           notices |-> n, guide |-> c.guide, raises |-> c.raises, visit |-> v]
  BY <1>1, <1>3 DEF CampaignShape
<1>5. CampaignShape(b) /\ b.notices = n /\ b.raises = c.raises /\ b.visit = v /\ Aside(b, c)
  BY <1>4 DEF CampaignShape, Aside
<1>6. Tells(n, c.raises, t)
  BY <1>2 DEF HistoryTells, Tells
<1>7. ASSUME NEW k \in DOMAIN c.raises
      PROVE  RaiseOk(c.raises[k], v) /\ c.raises[k].visit # v
  <2>1. RaiseOk(c.raises[k], c.visit)
    BY DEF HistoryTells, RaisesOk
  <2> QED BY <1>3, <2>1 DEF RaiseOk
<1>8. RaisesOk(c.raises, v)
  BY <1>3, <1>7 DEF HistoryTells, RaisesOk
<1>9. MemoryOk(<<>>)
  <2>1. Elements(<<>>) = {} /\ DOMAIN <<>> = {}
    BY DEF Elements
  <2>2. <<>> \in Seq(Elements(<<>>))
    BY EmptySeq
  <2> QED BY <2>1, <2>2 DEF MemoryOk
<1>10. Remembered(<<>>, c.raises, v)
  BY <1>7, <1>9 DEF Remembered
<1>11. HistoryTells(b, t)
  BY <1>2, <1>5, <1>6, <1>8, <1>10 DEF HistoryTells
<1> QED BY <1>5, <1>11 DEF b

LEMMA RaiseForTells ==
  ASSUME NEW c, NEW t, HistoryTells(c, t), NEW e, e.at \in Nat, t <= e.at, e.amount \in Int
  PROVE  HistoryTells(RaiseFor(c, e), e.at) /\ Aside(RaiseFor(c, e), c)
<1> DEFINE L == Len(Authored)
           start == IF e.kind \in SiteChanges THEN Arrive(c) ELSE c
           at == e.at
           Right(b) == HistoryTells(b, at) /\ Aside(b, c)
<1>1. PICK g : /\ RaiseFor(c, e) = g[L] /\ g[0] = start
               /\ \A i \in 1..L : g[i] = RaiseIf(g[i - 1], Authored[i], e)
  BY RaiseForUnfolds
<1> DEFINE W == {i \in 0..L : ~Right(g[i])}
<1>2. L \in Nat /\ DOMAIN Authored = 1..L
  BY NoticesAssumption, AuthoredAssumption
<1>3. Right(start)
  <2>1. HistoryTells(c, at)
    BY TellsLater
  <2>2. Aside(c, c)
    BY DEF Aside
  <2>3. HistoryTells(Arrive(c), at) /\ Aside(Arrive(c), c)
    BY <2>1, ArriveTells
  <2> QED BY <2>1, <2>2, <2>3
<1> HIDE DEF start, L
<1>4. 0 \notin W
  BY <1>1, <1>3
<1>5. ASSUME NEW n \in 1..L, n \in W PROVE n - 1 \in W
  <2>1. n - 1 \in 0..L
    BY <1>2
  <2> SUFFICES ASSUME Right(g[n - 1]) PROVE Right(g[n])
    BY <2>1, <1>5
  <2>2. HistoryTells(RaiseIf(g[n - 1], Authored[n], e), at) /\ Aside(RaiseIf(g[n - 1], Authored[n], e), g[n - 1])
    <3>1. HistoryTells(g[n - 1], at) /\ at <= at /\ n \in DOMAIN Authored
      BY <1>2
    <3> QED BY <3>1, RaiseTells
  <2>3. g[n] = RaiseIf(g[n - 1], Authored[n], e)
    BY <1>1
  <2> QED BY <2>2, <2>3 DEF Aside
<1>6. W \subseteq 0..L
  OBVIOUS
<1>7. L \in W \/ Right(g[L])
  BY <1>2
<1> HIDE DEF W, Right
<1>8. W = {}
  BY <1>2, <1>4, <1>5, <1>6, UpTo
<1>9. Right(g[L])
  BY <1>7, <1>8
<1> QED BY <1>1, <1>9 DEF Right

\* Events in the order of their time, from one time to another.
EventsOk(events, from, to) ==
  /\ Len(events) \in Nat /\ DOMAIN events = 1..Len(events) /\ from \in Nat /\ to \in Nat /\ from <= to
  /\ \A i \in DOMAIN events :
       /\ events[i].at \in from..to /\ events[i].amount \in Int
       /\ \A j \in 1..i : events[j].at <= events[i].at

LEMMA RaiseAllTells ==
  ASSUME NEW c, NEW t, HistoryTells(c, t), NEW events, NEW u, EventsOk(events, t, u)
  PROVE  HistoryTells(RaiseAll(c, events), u) /\ Aside(RaiseAll(c, events), c)
<1> DEFINE L == Len(events)
<1>1. PICK g : /\ RaiseAll(c, events) = g[L] /\ g[0] = c
               /\ \A i \in 1..L : g[i] = RaiseFor(g[i - 1], events[i])
  BY RaiseAllUnfolds DEF EventsOk
<1> DEFINE at(i) == IF i = 0 THEN t ELSE events[i].at
           Right(i) == HistoryTells(g[i], at(i)) /\ Aside(g[i], c)
           W == {i \in 0..L : ~Right(i)}
<1>2. L \in Nat /\ DOMAIN events = 1..L /\ t \in Nat /\ u \in Nat /\ t <= u
  BY DEF EventsOk
<1> HIDE DEF L
<1>3. 0 \notin W
  <2>1. at(0) = t /\ Aside(c, c)
    BY DEF Aside
  <2> QED BY <1>1, <2>1
<1>4. ASSUME NEW n \in 1..L, n \in W PROVE n - 1 \in W
  <2>1. n - 1 \in 0..L /\ n # 0
    BY <1>2
  <2> SUFFICES ASSUME Right(n - 1) PROVE Right(n)
    BY <2>1, <1>4
  <2>2. events[n].at \in Nat /\ events[n].amount \in Int /\ t <= events[n].at
    BY <1>2 DEF EventsOk
  <2>3. at(n - 1) <= events[n].at /\ at(n) = events[n].at
    <3>1. CASE n - 1 = 0
      BY <2>1, <2>2, <3>1
    <3>2. CASE n - 1 # 0
      <4>1. n - 1 \in 1..n /\ n \in DOMAIN events
        BY <1>2, <3>2
      <4>2. events[n - 1].at <= events[n].at
        BY <4>1 DEF EventsOk
      <4> QED BY <2>1, <3>2, <4>2
    <3> QED BY <3>1, <3>2
  <2>4. g[n] = RaiseFor(g[n - 1], events[n])
    BY <1>1
  <2>5. HistoryTells(g[n - 1], at(n - 1)) /\ Aside(g[n - 1], c)
    OBVIOUS
  <2> HIDE DEF at, Right
  <2>6. HistoryTells(g[n], events[n].at) /\ Aside(g[n], g[n - 1])
    BY <2>2, <2>3, <2>4, <2>5, RaiseForTells
  <2>7. Aside(g[n], c)
    BY <2>5, <2>6 DEF Aside
  <2> QED BY <2>3, <2>6, <2>7 DEF Right
<1>5. W \subseteq 0..L
  OBVIOUS
<1>6. L \in W \/ Right(L)
  BY <1>2
<1>7. at(L) <= u
  BY <1>2 DEF EventsOk
<1> HIDE DEF W, Right
<1>8. W = {}
  BY <1>2, <1>3, <1>4, <1>5, UpTo
<1>9. Right(L)
  BY <1>6, <1>8
<1>10. HistoryTells(g[L], at(L)) /\ Aside(g[L], c)
  BY <1>9 DEF Right
<1> HIDE DEF at
<1>11. HistoryTells(g[L], u)
  BY <1>2, <1>7, <1>10, TellsLater
<1> QED BY <1>1, <1>10, <1>11

-----------------------------------------------------------------------------
(* The guidance. *)

StepIds == {Steps[i].id : i \in DOMAIN Steps}

GuideShape(g) ==
  g = [hidden |-> g.hidden, steps |-> g.steps] /\ g.steps = [id \in DOMAIN g.steps |-> g.steps[id]]

\* The steps that were recorded on the way from t to u.
Recent(u, t) == Recorded(u.campaign.guide) \ Recorded(t.campaign.guide)

\* What the guidance leaves alone.
Kept(c, b) ==
  /\ CampaignShape(c) /\ GuideShape(c.guide)
  /\ c.now = b.now /\ c.player = b.player /\ c.conditions = b.conditions /\ c.notices = b.notices
  /\ c.raises = b.raises /\ c.visit = b.visit /\ c.guide.hidden = b.guide.hidden

\* Completed just now, after all it requires.
CompletedNow(id, u, t) ==
  /\ u.campaign.guide.steps[id] = [outcome |-> "completed", at |-> t.campaign.now,
                                   shown |-> ~t.campaign.guide.hidden]
  /\ \E i \in DOMAIN Steps : Steps[i].id = id /\ Steps[i].requires \subseteq Recorded(u.campaign.guide)

\* The events of u are those of t, and one for each step that was recorded.
Announced(u, t) ==
  /\ Len(t.events) \in Nat /\ Len(u.events) \in Nat /\ DOMAIN u.events = 1..Len(u.events)
  /\ Len(t.events) <= Len(u.events)
  /\ \A j \in 1..Len(t.events) : u.events[j] = t.events[j]
  /\ \A j \in (Len(t.events) + 1)..Len(u.events) :
       \E i \in DOMAIN Steps : u.events[j] = StepEvent(Steps[i], t.campaign)
  /\ \A id \in Recent(u, t) : \E j \in (Len(t.events) + 1)..Len(u.events) :
       \A k \in (Len(t.events) + 1)..Len(u.events) : u.events[k].subject = id <=> k = j
  /\ \A id \in StepIds \ Recent(u, t) :
       \A k \in (Len(t.events) + 1)..Len(u.events) : u.events[k].subject # id

\* u is what the guidance makes of t, or is about to.
Led(u, t) ==
  /\ Kept(u.campaign, t.campaign)
  /\ Recorded(t.campaign.guide) \subseteq Recorded(u.campaign.guide)
  /\ \A id \in Recorded(t.campaign.guide) : u.campaign.guide.steps[id] = t.campaign.guide.steps[id]
  /\ \A id \in Recent(u, t) : id \in StepIds /\ CompletedNow(id, u, t)
  /\ Announced(u, t)

\* A transaction before the guidance has looked at it.
Unguided(t) ==
  /\ CampaignShape(t.campaign) /\ GuideShape(t.campaign.guide)
  /\ Len(t.events) \in Nat /\ DOMAIN t.events = 1..Len(t.events)

LEMMA UnguidedIsLed ==
  ASSUME NEW t, Unguided(t)
  PROVE  Led(t, t)
<1>1. Recent(t, t) = {}
  BY DEF Recent
<1>2. (Len(t.events) + 1)..Len(t.events) = {} /\ Len(t.events) <= Len(t.events)
  BY DEF Unguided
<1>3. Announced(t, t)
  BY <1>1, <1>2 DEF Announced, Unguided
<1>4. Kept(t.campaign, t.campaign)
  BY DEF Unguided, Kept
<1> QED BY <1>1, <1>3, <1>4 DEF Led

\* b is c with the step of that id recorded in the guide.
Records(b, c, id, outcome) ==
  /\ Kept(b, c)
  /\ Recorded(b.guide) = Recorded(c.guide) \cup {id}
  /\ b.guide.steps[id] = [outcome |-> outcome, at |-> c.now, shown |-> ~c.guide.hidden]
  /\ \A other \in Recorded(c.guide) \ {id} : b.guide.steps[other] = c.guide.steps[other]

LEMMA RecordRecords ==
  ASSUME NEW c, CampaignShape(c), GuideShape(c.guide), NEW s, NEW outcome
  PROVE  Records(RecordStep(c, s, outcome), c, s.id, outcome)
<1> DEFINE record == [outcome |-> outcome, at |-> c.now, shown |-> ~c.guide.hidden]
           id0 == s.id
           old == c.guide.steps
           steps == [id \in Recorded(c.guide) \cup {id0} |-> IF id = id0 THEN record ELSE old[id]]
           guide == [c.guide EXCEPT !.steps = steps]
           b == RecordStep(c, s, outcome)
<1>1. b = [c EXCEPT !.guide = guide]
  BY DEF RecordStep
<1>2. /\ DOMAIN steps = DOMAIN old \cup {id0}
      /\ steps[id0] = record
      /\ \A id \in DOMAIN old \ {id0} : steps[id] = old[id]
      /\ steps = [id \in DOMAIN steps |-> steps[id]]
  <2>1. Recorded(c.guide) = DOMAIN old
    BY DEF Recorded
  <2> HIDE DEF old, record, id0
  <2> QED BY <2>1
<1> HIDE DEF steps, record
<1>3. guide = [hidden |-> c.guide.hidden, steps |-> steps]
  BY DEF GuideShape
<1> HIDE DEF guide, b
<1>4. b = [now |-> c.now, player |-> c.player, shield |-> c.shield, conditions |-> c.conditions,
           notices |-> c.notices, guide |-> guide, raises |-> c.raises, visit |-> c.visit]
  BY <1>1 DEF CampaignShape
<1>5. CampaignShape(b) /\ b.guide = guide
  BY <1>4 DEF CampaignShape
<1>6. GuideShape(guide) /\ guide.steps = steps /\ guide.hidden = c.guide.hidden
  BY <1>2, <1>3 DEF GuideShape
<1>7. Kept(b, c)
  BY <1>4, <1>5, <1>6 DEF Kept
<1>8. Recorded(b.guide) = DOMAIN steps /\ Recorded(c.guide) = DOMAIN c.guide.steps
  BY <1>5, <1>6 DEF Recorded
<1> QED BY <1>2, <1>5, <1>6, <1>7, <1>8 DEF Records, b, record

LEMMA VisitLeads ==
  ASSUME NEW t, NEW u, Led(u, t), NEW i \in DOMAIN Steps
  PROVE  /\ Led(Visit(u, Steps[i]), t)
         /\ Recorded(u.campaign.guide) \subseteq Recorded(Visit(u, Steps[i]).campaign.guide)
         /\ \/ /\ Visit(u, Steps[i]) = u
               /\ ~(StepOpen(u.campaign.guide, Steps[i]) /\ Satisfied(Steps[i], u.campaign, u.events))
            \/ /\ Steps[i].id \in Recorded(Visit(u, Steps[i]).campaign.guide)
               /\ Steps[i].id \notin Recorded(u.campaign.guide)
<1> DEFINE s == Steps[i]
           x == StepEvent(s, u.campaign)
           b == RecordStep(u.campaign, s, "completed")
           events == Append(u.events, x)
           w == [campaign |-> b, events |-> events]
           now == StepOpen(u.campaign.guide, s) /\ Satisfied(s, u.campaign, u.events)
           L == Len(u.events)
           F == Len(t.events) + 1
<1>1. CASE ~now
  BY <1>1 DEF Visit
<1>2. CASE now
  <2>1. Visit(u, s) = w
    BY <1>2 DEF Visit
  <2>2. s.id \notin Recorded(u.campaign.guide) /\ s.requires \subseteq Recorded(u.campaign.guide)
    BY <1>2 DEF StepOpen
  <2>3. w.campaign = b /\ w.events = events
    OBVIOUS
  <2>4. Kept(u.campaign, t.campaign) /\ CampaignShape(u.campaign) /\ GuideShape(u.campaign.guide)
    BY DEF Led, Kept
  <2>5. Records(b, u.campaign, s.id, "completed")
    BY <2>4, RecordRecords
  <2>6. Announced(u, t)
    BY DEF Led
  <2>7. L \in Nat /\ DOMAIN u.events = 1..L /\ Len(t.events) <= L
    BY <2>6 DEF Announced
  <2>8. Len(events) = L + 1 /\ DOMAIN events = 1..(L + 1) /\ (\A j \in 1..L : events[j] = u.events[j])
        /\ events[L + 1] = x
    OBVIOUS
  <2>9. w.campaign = b /\ w.events = events
    OBVIOUS
  <2>10. x = StepEvent(s, t.campaign) /\ x.subject = s.id
    <3>1. u.campaign.now = t.campaign.now
      BY DEF Led, Kept
    <3> QED BY <3>1 DEF StepEvent
  <2>11. s.id \in StepIds
    BY DEF StepIds
  <2>12. \A id \in Recorded(u.campaign.guide) : id # s.id
    BY <2>2
  <2>13. Led(u, t)
    OBVIOUS
  <2>14. s = Steps[i]
    OBVIOUS
  <2> HIDE DEF w, b, events, x, s, L, now
  <2>15. Recent(w, t) = Recent(u, t) \cup {s.id} /\ s.id \notin Recent(u, t)
    BY <2>2, <2>5, <2>9, <2>13 DEF Recent, Records, Led
  <2>16. Announced(w, t)
    <3> DEFINE M == L + 1
    <3>1. F \in Nat /\ F <= M /\ M \in Nat /\ Len(t.events) \in Nat /\ Len(t.events) <= L /\ Len(t.events) <= M
      BY <2>6, <2>7 DEF Announced
    <3>2. /\ \A k \in F..M : k \in F..L \/ k = M
          /\ M \in F..M /\ \A k \in F..L : k \in F..M /\ k # M /\ k \in 1..L
          /\ \A k \in 1..Len(t.events) : k \in 1..L
      BY <2>7, <3>1
    <3>3. Len(events) = M /\ DOMAIN events = 1..M /\ (\A k \in 1..L : events[k] = u.events[k]) /\ events[M] = x
      BY <2>8
    <3>4. /\ \A k \in 1..Len(t.events) : u.events[k] = t.events[k]
          /\ \A k \in F..L : \E n \in DOMAIN Steps : u.events[k] = StepEvent(Steps[n], t.campaign)
          /\ \A id \in Recent(u, t) : \E k \in F..L : \A n \in F..L : u.events[n].subject = id <=> n = k
          /\ \A id \in StepIds \ Recent(u, t) : \A k \in F..L : u.events[k].subject # id
      BY <2>6 DEF Announced, L
    <3> HIDE DEF M, F
    <3>5. \A k \in 1..Len(t.events) : events[k] = t.events[k]
      BY <3>2, <3>3, <3>4
    <3>6. \A k \in F..M : \E n \in DOMAIN Steps : events[k] = StepEvent(Steps[n], t.campaign)
      BY <2>10, <2>14, <3>2, <3>3, <3>4
    <3>7. ASSUME NEW id \in Recent(w, t)
          PROVE  \E k \in F..M : \A n \in F..M : events[n].subject = id <=> n = k
      <4>1. CASE id = s.id
        <5>1. \A n \in F..M : events[n].subject = id <=> n = M
          BY <2>10, <2>11, <2>15, <3>2, <3>3, <3>4, <4>1
        <5> QED BY <3>2, <5>1
      <4>2. CASE id \in Recent(u, t)
        <5>1. PICK k \in F..L : \A n \in F..L : u.events[n].subject = id <=> n = k
          BY <3>4, <4>2
        <5>2. id # s.id
          BY <2>15, <4>2
        <5>3. \A n \in F..M : events[n].subject = id <=> n = k
          BY <2>10, <3>2, <3>3, <5>1, <5>2
        <5> QED BY <3>2, <5>1, <5>3
      <4> QED BY <2>15, <4>1, <4>2
    <3>8. \A id \in StepIds \ Recent(w, t) : \A k \in F..M : events[k].subject # id
      BY <2>10, <2>15, <3>2, <3>3, <3>4
    <3> QED BY <2>9, <3>1, <3>3, <3>5, <3>6, <3>7, <3>8 DEF Announced, M, F
  <2>17. ASSUME NEW id \in Recent(w, t) PROVE id \in StepIds /\ CompletedNow(id, w, t)
    <3>1. CASE id = s.id
      BY <2>2, <2>4, <2>5, <2>9, <2>11, <2>14, <3>1 DEF Records, CompletedNow, Kept
    <3>2. CASE id \in Recent(u, t)
      <4>1. id \in StepIds /\ CompletedNow(id, u, t) /\ id \in Recorded(u.campaign.guide)
        BY <2>13, <3>2 DEF Led, Recent
      <4> QED BY <2>5, <2>9, <2>12, <4>1 DEF Records, CompletedNow
    <3> QED BY <2>15, <3>1, <3>2
  <2>18. Kept(w.campaign, t.campaign)
    BY <2>4, <2>5, <2>9 DEF Records, Kept
  <2>19. /\ Recorded(t.campaign.guide) \subseteq Recorded(w.campaign.guide)
         /\ \A id \in Recorded(t.campaign.guide) : w.campaign.guide.steps[id] = t.campaign.guide.steps[id]
    BY <2>5, <2>9, <2>12, <2>13 DEF Records, Led
  <2>20. Led(w, t)
    BY <2>16, <2>17, <2>18, <2>19 DEF Led
  <2>21. Recorded(w.campaign.guide) = Recorded(u.campaign.guide) \cup {s.id}
    BY <2>5, <2>9 DEF Records
  <2> QED BY <2>1, <2>2, <2>20, <2>21 DEF s
<1> QED BY <1>1, <1>2

\* No open step is satisfied: the guidance cannot go on.
Stuck(u) ==
  \A i \in DOMAIN Steps :
    ~(StepOpen(u.campaign.guide, Steps[i]) /\ Satisfied(Steps[i], u.campaign, u.events))

\* A step is recorded in w that is not in u.
Goes(w, u) == \E id \in StepIds : id \in Recorded(w.campaign.guide) /\ id \notin Recorded(u.campaign.guide)

LEMMA RoundLeads ==
  ASSUME NEW t, NEW u, Led(u, t)
  PROVE  /\ Led(Round(u), t) /\ Recorded(u.campaign.guide) \subseteq Recorded(Round(u).campaign.guide)
         /\ IF Stuck(u) THEN Round(u) = u ELSE Goes(Round(u), u)
<1> DEFINE L == Len(Steps)
           Ready(k) == StepOpen(u.campaign.guide, Steps[k]) /\ Satisfied(Steps[k], u.campaign, u.events)
<1>1. PICK g : /\ Round(u) = g[L] /\ g[0] = u
               /\ \A i \in 1..L : g[i] = Visit(g[i - 1], Steps[i])
  BY RoundUnfolds
<1> DEFINE Right(i) == /\ Led(g[i], t) /\ Recorded(u.campaign.guide) \subseteq Recorded(g[i].campaign.guide)
                       /\ g[i] = u \/ Goes(g[i], u)
                       /\ Stuck(u) => g[i] = u
                       /\ \A k \in 1..i : Ready(k) => Goes(g[i], u)
           W == {i \in 0..L : ~Right(i)}
<1>2. L \in Nat /\ DOMAIN Steps = 1..L
  BY NoticesAssumption, GuidanceAssumption
<1> HIDE DEF L
<1>3. 0 \notin W
  <2>1. Right(0)
    BY <1>1
  <2> QED BY <2>1
<1>4. ASSUME NEW n \in 1..L, n \in W PROVE n - 1 \in W
  <2>1. n - 1 \in 0..L /\ n \in DOMAIN Steps
    BY <1>2
  <2> SUFFICES ASSUME Right(n - 1) PROVE Right(n)
    BY <2>1, <1>4
  <2> DEFINE v == g[n - 1]
             w == g[n]
  <2>2. w = Visit(v, Steps[n])
    BY <1>1
  <2>3. /\ Led(v, t) /\ Recorded(u.campaign.guide) \subseteq Recorded(v.campaign.guide)
        /\ v = u \/ Goes(v, u)
        /\ Stuck(u) => v = u
        /\ \A k \in 1..(n - 1) : Ready(k) => Goes(v, u)
    OBVIOUS
  <2> HIDE DEF v, w, Ready
  <2>4. /\ Led(w, t) /\ Recorded(v.campaign.guide) \subseteq Recorded(w.campaign.guide)
        /\ \/ /\ w = v
              /\ ~(StepOpen(v.campaign.guide, Steps[n]) /\ Satisfied(Steps[n], v.campaign, v.events))
           \/ /\ Steps[n].id \in Recorded(w.campaign.guide)
              /\ Steps[n].id \notin Recorded(v.campaign.guide)
    BY <2>1, <2>2, <2>3, VisitLeads
  <2>5. Goes(v, u) => Goes(w, u)
    BY <2>4 DEF Goes
  <2>6. w # v => Goes(w, u)
    <3> SUFFICES ASSUME w # v PROVE Goes(w, u)
      OBVIOUS
    <3>1. Steps[n].id \in Recorded(w.campaign.guide) /\ Steps[n].id \notin Recorded(v.campaign.guide)
      BY <2>4
    <3>2. Steps[n].id \in StepIds
      BY <2>1 DEF StepIds
    <3> QED BY <2>3, <3>1, <3>2 DEF Goes
  <2>7. w = u \/ Goes(w, u)
    BY <2>3, <2>5, <2>6
  <2>8. Stuck(u) => w = u
    <3>1. CASE Stuck(u)
      <4>1. v = u
        BY <2>3, <3>1
      <4>2. Visit(u, Steps[n]) = u
        BY <2>1, <3>1 DEF Stuck, Visit
      <4> QED BY <2>2, <4>1, <4>2
    <3> QED BY <3>1
  <2>9. ASSUME NEW k \in 1..n, Ready(k) PROVE Goes(w, u)
    <3>1. CASE k = n
      <4>1. CASE v = u
        <5>1. w # v \/ ~Ready(n)
          <6>1. ASSUME Ready(n) PROVE w # v
            <7>1. ~(w = v /\ ~Ready(n))
              BY <6>1
            <7>2. Steps[n].id \in Recorded(w.campaign.guide) /\ Steps[n].id \notin Recorded(v.campaign.guide)
              BY <2>4, <4>1, <6>1 DEF Ready
            <7> QED BY <7>2
          <6> QED BY <6>1
        <5> QED BY <2>6, <2>9, <3>1, <5>1
      <4>2. CASE v # u
        BY <2>3, <2>5, <4>2
      <4> QED BY <4>1, <4>2
    <3>2. CASE k # n
      <4>1. k \in 1..(n - 1)
        BY <1>2, <3>2
      <4> QED BY <2>3, <2>5, <2>9, <4>1
    <3> QED BY <3>1, <3>2
  <2>10. Recorded(u.campaign.guide) \subseteq Recorded(w.campaign.guide)
    BY <2>3, <2>4
  <2> QED BY <2>4, <2>7, <2>8, <2>9, <2>10 DEF w
<1>5. W \subseteq 0..L
  OBVIOUS
<1>6. L \in W \/ Right(L)
  BY <1>2
<1> HIDE DEF W, Right
<1>7. W = {}
  BY <1>2, <1>3, <1>4, <1>5, UpTo
<1>8. Right(L)
  BY <1>6, <1>7
<1>9. ~Stuck(u) => Goes(g[L], u)
  <2> SUFFICES ASSUME ~Stuck(u) PROVE Goes(g[L], u)
    OBVIOUS
  <2>1. PICK k \in 1..L : Ready(k)
    BY <1>2 DEF Stuck
  <2> QED BY <1>8, <2>1 DEF Right
<1> QED BY <1>1, <1>8, <1>9 DEF Right

\* The steps are no more than Len(Steps).
LEMMA StepIdsAreFew == IsFiniteSet(StepIds) /\ Cardinality(StepIds) \in Nat /\ Cardinality(StepIds) <= Len(Steps)
<1> DEFINE L == Len(Steps)
           f == [i \in 1..L |-> Steps[i].id]
<1>1. L \in Nat /\ DOMAIN Steps = 1..L
  BY NoticesAssumption, GuidanceAssumption
<1>2. f \in Surjection(1..L, StepIds)
  BY <1>1 DEF Surjection, StepIds
<1> HIDE DEF f, L
<1>3. IsFiniteSet(1..L)
  BY <1>1, FS_Interval
<1>4. Cardinality(1..L) = L
  <2>1. Cardinality(1..L) = IF 1 > L THEN 0 ELSE L - 1 + 1
    BY <1>1, FS_Interval
  <2> QED BY <1>1, <2>1
<1>5. IsFiniteSet(StepIds) /\ Cardinality(StepIds) <= L
  BY <1>2, <1>3, <1>4, FS_Surjection
<1> QED BY <1>5, FS_CardinalityType DEF L

\* As many rounds as there are steps are enough.
LEMMA AdvanceLeads ==
  ASSUME NEW t, Unguided(t)
  PROVE  Led(AdvanceGuidance(t), t) /\ Stuck(AdvanceGuidance(t))
<1> DEFINE L == Len(Steps)
           Done(u) == StepIds \cap Recorded(u.campaign.guide)
<1>1. PICK g : /\ AdvanceGuidance(t) = g[L] /\ g[0] = t
               /\ \A i \in 1..L : g[i] = Round(g[i - 1])
  BY AdvanceUnfolds
<1> DEFINE Right(i) == Led(g[i], t) /\ (Stuck(g[i]) \/ Cardinality(Done(g[i])) >= i)
           W == {i \in 0..L : ~Right(i)}
<1>2. L \in Nat /\ IsFiniteSet(StepIds) /\ Cardinality(StepIds) \in Nat /\ Cardinality(StepIds) <= L
  BY NoticesAssumption, StepIdsAreFew
<1> HIDE DEF L
<1>3. ASSUME NEW u PROVE IsFiniteSet(Done(u)) /\ Cardinality(Done(u)) \in Nat
  <2>1. Done(u) \in SUBSET StepIds
    OBVIOUS
  <2> HIDE DEF Done
  <2> QED BY <1>2, <2>1, FS_Subset, FS_CardinalityType
<1>4. 0 \notin W
  <2>1. Led(t, t)
    BY UnguidedIsLed
  <2>2. Cardinality(Done(t)) >= 0
    BY <1>3
  <2> HIDE DEF Done
  <2>3. Right(0)
    BY <1>1, <2>1, <2>2
  <2> QED BY <2>3
<1>5. ASSUME NEW n \in 1..L, n \in W PROVE n - 1 \in W
  <2>1. n - 1 \in 0..L
    BY <1>2
  <2> SUFFICES ASSUME Right(n - 1) PROVE Right(n)
    BY <2>1, <1>5
  <2> DEFINE v == g[n - 1]
             w == g[n]
  <2>2. w = Round(v)
    BY <1>1
  <2>3. Led(v, t) /\ (Stuck(v) \/ Cardinality(Done(v)) >= n - 1)
    OBVIOUS
  <2> HIDE DEF v, w
  <2>4. /\ Led(w, t) /\ Recorded(v.campaign.guide) \subseteq Recorded(w.campaign.guide)
        /\ IF Stuck(v) THEN w = v ELSE Goes(w, v)
    BY <2>2, <2>3, RoundLeads
  <2>5. CASE Stuck(v)
    BY <2>4, <2>5 DEF w
  <2>6. CASE ~Stuck(v)
    <3>1. PICK id \in StepIds : id \in Recorded(w.campaign.guide) /\ id \notin Recorded(v.campaign.guide)
      BY <2>4, <2>6 DEF Goes
    <3>2. Done(v) \cup {id} \in SUBSET Done(w) /\ id \notin Done(v)
      BY <2>4, <3>1
    <3>3. Cardinality(Done(v)) >= n - 1
      BY <2>3, <2>6
    <3>4. IsFiniteSet(Done(v)) /\ IsFiniteSet(Done(w)) /\ Cardinality(Done(v)) \in Nat /\ Cardinality(Done(w)) \in Nat
      BY <1>3
    <3> HIDE DEF Done
    <3>5. Cardinality(Done(v) \cup {id}) = Cardinality(Done(v)) + 1
      BY <3>2, <3>4, FS_AddElement
    <3>6. Cardinality(Done(v) \cup {id}) <= Cardinality(Done(w))
      BY <3>2, <3>4, FS_Subset
    <3>7. Cardinality(Done(w)) >= n
      BY <1>2, <3>3, <3>4, <3>5, <3>6
    <3> QED BY <2>4, <3>7 DEF w
  <2> QED BY <2>5, <2>6
<1>6. W \subseteq 0..L
  OBVIOUS
<1>7. L \in W \/ Right(L)
  BY <1>2
<1> HIDE DEF W
<1>8. W = {}
  BY <1>2, <1>4, <1>5, <1>6, UpTo
<1>9. Right(L)
  BY <1>7, <1>8
<1>10. Stuck(g[L])
  <2> SUFFICES ASSUME Cardinality(Done(g[L])) >= L PROVE Stuck(g[L])
    BY <1>9
  <2>1. Done(g[L]) \in SUBSET StepIds
    OBVIOUS
  <2>2. Cardinality(Done(g[L])) \in Nat
    BY <1>3
  <2>3. Done(g[L]) = StepIds
    <3> HIDE DEF Done
    <3>1. Cardinality(Done(g[L])) <= Cardinality(StepIds)
      BY <1>2, <2>1, FS_Subset
    <3>2. Cardinality(Done(g[L])) = Cardinality(StepIds)
      BY <1>2, <2>2, <3>1
    <3> QED BY <1>2, <2>1, <3>2, FS_Subset
  <2>4. \A i \in DOMAIN Steps : Steps[i].id \in StepIds
    BY DEF StepIds
  <2>5. \A i \in DOMAIN Steps : Steps[i].id \in Recorded(g[L].campaign.guide)
    BY <2>3, <2>4
  <2> QED BY <2>5 DEF Stuck, StepOpen
<1> QED BY <1>1, <1>9, <1>10

-----------------------------------------------------------------------------
(* What is told of the steps. *)

\* The raises that are about the step id.
ToldOf(R, id) == {k \in DOMAIN R : R[k].key[2] = id}

Unheard(c, id) == ToldOf(c.raises, id) = {}
ToldOnce(c, id) == \E k : ToldOf(c.raises, id) = {k}

\* Between c and b nothing was told of the step id.
Untold(b, c, id) == ToldOf(b.raises, id) = ToldOf(c.raises, id)

\* The step id is not told of by the event e.
Silent(e, id, hidden) == e.subject # id \/ (e.kind = "stepCompleted" /\ hidden)

\* The event e completes the step id.
Completes(e, id) == e.kind = "stepCompleted" /\ e.holds /\ e.subject = id

LEMMA StepIdsAreNames == \A id \in StepIds : id # ""
  BY GuidanceAssumption DEF StepIds

LEMMA RaiseIfToldOf ==
  ASSUME NEW c, NEW t, HistoryTells(c, t), NEW i \in DOMAIN Authored, NEW e, NEW id \in StepIds
  PROVE  /\ \/ Silent(e, id, c.guide.hidden)
            \/ e.kind = "stepCompleted" /\ Authored[i].listens # "stepCompleted"
            => Untold(RaiseIf(c, Authored[i], e), c, id)
         /\ /\ Completes(e, id) /\ Authored[i].listens = "stepCompleted" /\ ~c.guide.hidden
            /\ Unheard(c, id)
            => ToldOnce(RaiseIf(c, Authored[i], e), id)
<1> DEFINE d == Authored[i]
           R == c.raises
           x == Told(c, d, e)
           Q == Append(R, x)
           m == RaiseNotification(c.notices, d, e)
           a == [c EXCEPT !.notices = m, !.raises = Q]
           b == RaiseIf(c, d, e)
           L == Len(R)
<1>1. a.raises = Q
  <2>1. CampaignShape(c)
    BY DEF HistoryTells
  <2>2. a = [c EXCEPT !.notices = m, !.raises = Q]
    OBVIOUS
  <2> HIDE DEF m, Q, a
  <2> QED BY <2>1, <2>2 DEF CampaignShape
<1>2. b = c \/ (b = a /\ Occurs(d, e, c))
  BY DEF RaiseIf, Raise
<1>3. x.key = GroupKey(d, e) /\ x.key[2] = IF d.bySubject THEN e.subject ELSE ""
  BY DEF Told, GroupKey
<1>4. R \in Seq(Elements(R)) /\ L \in Nat /\ DOMAIN R = 1..L
  BY LenProperties DEF HistoryTells, RaisesOk
<1>5. DOMAIN Q = 1..(L + 1) /\ (\A k \in 1..L : Q[k] = R[k]) /\ Q[L + 1] = x
  <2> DEFINE S == Elements(R) \cup {x}
  <2>1. R \in Seq(S) /\ x \in S
    <3>1. Elements(R) \subseteq S /\ x \in S
      OBVIOUS
    <3> HIDE DEF S, x, R
    <3> QED BY <1>4, <3>1, SeqDef
  <2> HIDE DEF S, x, R
  <2>2. Q \in Seq(S) /\ Len(Q) = L + 1 /\ (\A k \in 1..L : Q[k] = R[k]) /\ Q[L + 1] = x
    BY <2>1, AppendProperties
  <2> HIDE DEF Q
  <2> QED BY <2>2, LenProperties
<1> HIDE DEF d, R, x, Q, m, a, b, L
<1>6. (\A k \in 1..L : k \in 1..(L + 1) /\ k # L + 1) /\ L + 1 \in 1..(L + 1)
      /\ \A k \in 1..(L + 1) : k \in 1..L \/ k = L + 1
  BY <1>4
<1>7. ToldOf(Q, id) = IF x.key[2] = id THEN ToldOf(R, id) \cup {L + 1} ELSE ToldOf(R, id)
  BY <1>4, <1>5, <1>6 DEF ToldOf
<1>8. ASSUME \/ Silent(e, id, c.guide.hidden)
             \/ e.kind = "stepCompleted" /\ d.listens # "stepCompleted"
      PROVE  ToldOf(b.raises, id) = ToldOf(R, id)
  <2>1. CASE b = c
    BY <2>1 DEF R
  <2>2. CASE b = a /\ Occurs(d, e, c)
    <3>1. ~(e.kind = "stepCompleted" /\ (d.listens # "stepCompleted" \/ c.guide.hidden))
      BY <2>2 DEF Occurs
    <3>2. e.subject # id
      BY <1>8, <3>1 DEF Silent
    <3>3. x.key[2] # id
      BY <1>3, <3>2, StepIdsAreNames
    <3> QED BY <1>1, <1>7, <2>2, <3>3
  <2> QED BY <1>2, <2>1, <2>2
<1>9. ASSUME Completes(e, id), d.listens = "stepCompleted", ~c.guide.hidden, ToldOf(R, id) = {}
      PROVE  \E k : ToldOf(b.raises, id) = {k}
  <2>1. d.bySubject /\ ~d.once /\ ~d.ofPlayer /\ d.reasons = {} /\ ~d.positive
    BY <1>9, GuidanceAssumption DEF d
  <2>2. Occurs(d, e, c)
    BY <1>9, <2>1 DEF Occurs, Completes
  <2>3. b = a
    BY <2>1, <2>2 DEF RaiseIf, Raise, a, b, m, Q, R, x
  <2>4. x.key[2] = id
    BY <1>3, <1>9, <2>1 DEF Completes
  <2>5. ToldOf(b.raises, id) = {L + 1}
    BY <1>1, <1>7, <1>9, <2>3, <2>4
  <2> QED BY <2>5
<1> QED BY <1>8, <1>9 DEF b, d, R, Untold, Unheard, ToldOnce

LEMMA RaiseForToldOf ==
  ASSUME NEW c, NEW t, HistoryTells(c, t), NEW e, e.at \in Nat, t <= e.at, e.amount \in Int,
         NEW id \in StepIds
  PROVE  /\ Silent(e, id, c.guide.hidden) => Untold(RaiseFor(c, e), c, id)
         /\ Completes(e, id) /\ ~c.guide.hidden /\ Unheard(c, id) => ToldOnce(RaiseFor(c, e), id)
<1> DEFINE L == Len(Authored)
           start == IF e.kind \in SiteChanges THEN Arrive(c) ELSE c
<1>1. PICK g : /\ RaiseFor(c, e) = g[L] /\ g[0] = start
               /\ \A i \in 1..L : g[i] = RaiseIf(g[i - 1], Authored[i], e)
  <2> QED BY ONLY RaiseForUnfolds
<1>2. L \in Nat /\ DOMAIN Authored = 1..L
  BY NoticesAssumption, AuthoredAssumption
<1>3. PICK one \in DOMAIN Authored : \A j \in DOMAIN Authored : Authored[j].listens = "stepCompleted" <=> j = one
  BY GuidanceAssumption
<1> DEFINE hidden == c.guide.hidden
           Once(i) == IF i < one THEN Unheard(g[i], id) ELSE ToldOnce(g[i], id)
           Right(i) ==
             /\ HistoryTells(g[i], e.at) /\ g[i].guide = c.guide
             /\ Silent(e, id, hidden) => Untold(g[i], c, id)
             /\ Completes(e, id) /\ ~hidden /\ Unheard(c, id) => Once(i)
           W == {i \in 0..L : ~Right(i)}
<1> HIDE DEF L
<1>4. 0 \notin W
  <2>1. HistoryTells(start, e.at) /\ start.guide = c.guide /\ start.raises = c.raises
    <3>1. HistoryTells(c, e.at)
      BY TellsLater
    <3>2. HistoryTells(Arrive(c), e.at) /\ Arrive(c).guide = c.guide
      BY <3>1, ArriveTells DEF Aside
    <3>3. Arrive(c).raises = c.raises
      <4> DEFINE n == Forget(c.notices)
                 v == c.visit + 1
                 r == c.raises
      <4>1. Arrive(c) = [c EXCEPT !.notices = n, !.visit = v]
        BY DEF Arrive
      <4>2. CampaignShape(c)
        BY DEF HistoryTells
      <4> HIDE DEF n, v
      <4> QED BY <4>1, <4>2 DEF CampaignShape
    <3> QED BY <3>1, <3>2, <3>3
  <2>2. 0 < one
    BY <1>2, <1>3
  <2> HIDE DEF start
  <2>3. g[0].raises = c.raises
    BY <1>1, <2>1
  <2>4. Right(0)
    BY <1>1, <2>1, <2>2, <2>3 DEF Untold, Unheard
  <2> QED BY <2>4
<1>5. ASSUME NEW n \in 1..L, n \in W PROVE n - 1 \in W
  <2>1. n - 1 \in 0..L /\ n \in DOMAIN Authored
    BY <1>2
  <2> SUFFICES ASSUME Right(n - 1) PROVE Right(n)
    BY <2>1, <1>5
  <2> DEFINE v == g[n - 1]
             w == g[n]
  <2>2. w = RaiseIf(v, Authored[n], e)
    BY <1>1
  <2>3. /\ HistoryTells(v, e.at) /\ v.guide = c.guide
        /\ Silent(e, id, hidden) => Untold(v, c, id)
        /\ Completes(e, id) /\ ~hidden /\ Unheard(c, id) =>
             IF n - 1 < one THEN Unheard(v, id) ELSE ToldOnce(v, id)
    OBVIOUS
  <2> HIDE DEF v, w, Right
  <2>4. HistoryTells(w, e.at) /\ w.guide = c.guide
    <3>1. HistoryTells(w, e.at) /\ Aside(w, v)
      <4>1. HistoryTells(v, e.at) /\ e.at <= e.at
        BY <2>3
      <4> QED BY <2>1, <2>2, <4>1, RaiseTells
    <3> QED BY <2>3, <3>1 DEF Aside
  <2>5. /\ \/ Silent(e, id, hidden)
           \/ e.kind = "stepCompleted" /\ Authored[n].listens # "stepCompleted"
           => Untold(w, v, id)
        /\ /\ Completes(e, id) /\ Authored[n].listens = "stepCompleted" /\ ~hidden
           /\ Unheard(v, id)
           => ToldOnce(w, id)
    BY <2>1, <2>2, <2>3, RaiseIfToldOf
  <2>6. Silent(e, id, hidden) => Untold(w, c, id)
    BY <2>3, <2>5 DEF Untold
  <2>7. ASSUME Completes(e, id), ~hidden, Unheard(c, id)
        PROVE  IF n < one THEN Unheard(w, id) ELSE ToldOnce(w, id)
    <3>1. e.kind = "stepCompleted" /\ one \in Nat
      BY <1>2, <1>3, <2>7 DEF Completes
    <3>2. CASE n = one
      <4>1. n - 1 < one /\ ~ n < one /\ Authored[n].listens = "stepCompleted"
        BY <1>3, <2>1, <3>1, <3>2
      <4> QED BY <2>3, <2>5, <2>7, <4>1
    <3>3. CASE n # one
      <4>1. (n - 1 < one <=> n < one) /\ Authored[n].listens # "stepCompleted"
        BY <1>3, <2>1, <3>1, <3>3
      <4>2. ToldOf(w.raises, id) = ToldOf(v.raises, id)
        BY <2>5, <3>1, <4>1 DEF Untold
      <4> QED BY <2>3, <2>7, <4>1, <4>2 DEF Unheard, ToldOnce
    <3> QED BY <3>2, <3>3
  <2> QED BY <2>4, <2>6, <2>7 DEF w, Right
<1>6. W \subseteq 0..L
  OBVIOUS
<1> HIDE DEF Right
<1>7. L \in W \/ Right(L)
  BY <1>2
<1> HIDE DEF W
<1>8. W = {}
  BY <1>2, <1>4, <1>5, <1>6, UpTo
<1>9. Right(L)
  BY <1>7, <1>8
<1>10. ~ L < one
  BY <1>2
<1> QED BY <1>1, <1>9, <1>10 DEF Right

\* All events, of which none or one completes the step.
Single(events, one, id) ==
  /\ Completes(events[one], id)
  /\ \A j \in DOMAIN events : events[j].subject = id => j = one

LEMMA RaiseAllToldOf ==
  ASSUME NEW c, NEW t, HistoryTells(c, t), NEW events, NEW u, EventsOk(events, t, u), NEW id \in StepIds
  PROVE  /\ (\A j \in DOMAIN events : Silent(events[j], id, c.guide.hidden)) =>
              Untold(RaiseAll(c, events), c, id)
         /\ (\E one \in DOMAIN events : Single(events, one, id)) /\ ~c.guide.hidden /\ Unheard(c, id) =>
              ToldOnce(RaiseAll(c, events), id)
<1> DEFINE L == Len(events)
<1>1. PICK g : /\ RaiseAll(c, events) = g[L] /\ g[0] = c
               /\ \A i \in 1..L : g[i] = RaiseFor(g[i - 1], events[i])
  BY RaiseAllUnfolds DEF EventsOk
<1> DEFINE hidden == c.guide.hidden
           at(i) == IF i = 0 THEN t ELSE events[i].at
           AllSilent == \A j \in DOMAIN events : Silent(events[j], id, hidden)
           Once(i) == \A one \in DOMAIN events : Single(events, one, id) /\ ~hidden /\ Unheard(c, id) =>
                        IF i < one THEN Unheard(g[i], id) ELSE ToldOnce(g[i], id)
           Right(i) ==
             /\ HistoryTells(g[i], at(i)) /\ g[i].guide = c.guide
             /\ AllSilent => Untold(g[i], c, id)
             /\ Once(i)
           W == {i \in 0..L : ~Right(i)}
<1>2. L \in Nat /\ DOMAIN events = 1..L /\ t \in Nat /\ u \in Nat /\ t <= u
  BY DEF EventsOk
<1> HIDE DEF L
<1>3. 0 \notin W
  <2>1. at(0) = t /\ \A one \in 1..L : 0 < one
    BY <1>2
  <2> HIDE DEF at
  <2>2. Right(0)
    BY <1>1, <1>2, <2>1 DEF Untold
  <2> QED BY <2>2
<1>4. ASSUME NEW n \in 1..L, n \in W PROVE n - 1 \in W
  <2>1. n - 1 \in 0..L /\ n # 0 /\ n \in DOMAIN events
    BY <1>2
  <2> SUFFICES ASSUME Right(n - 1) PROVE Right(n)
    BY <2>1, <1>4
  <2>2. events[n].at \in Nat /\ events[n].amount \in Int /\ t <= events[n].at
    BY <1>2 DEF EventsOk
  <2>3. at(n - 1) <= events[n].at /\ at(n) = events[n].at
    <3>1. CASE n - 1 = 0
      BY <2>1, <2>2, <3>1
    <3>2. CASE n - 1 # 0
      <4>1. n - 1 \in 1..n /\ n \in DOMAIN events
        BY <1>2, <3>2
      <4>2. events[n - 1].at <= events[n].at
        BY <4>1 DEF EventsOk
      <4> QED BY <2>1, <3>2, <4>2
    <3> QED BY <3>1, <3>2
  <2> DEFINE v == g[n - 1]
             w == g[n]
             e == events[n]
             sooner == at(n - 1)
  <2>4. w = RaiseFor(v, e)
    BY <1>1
  <2>5. /\ HistoryTells(v, sooner) /\ v.guide = c.guide
        /\ AllSilent => Untold(v, c, id)
        /\ \A one \in DOMAIN events : Single(events, one, id) /\ ~hidden /\ Unheard(c, id) =>
             IF n - 1 < one THEN Unheard(v, id) ELSE ToldOnce(v, id)
    OBVIOUS
  <2>6. sooner <= e.at /\ e.at \in Nat /\ e.amount \in Int /\ at(n) = e.at
    BY <2>2, <2>3
  <2>7. AllSilent => Silent(e, id, hidden)
    BY <2>1
  <2>8. \A one \in DOMAIN events :
          Single(events, one, id) => IF n = one THEN Completes(e, id) ELSE Silent(e, id, hidden)
    BY <2>1 DEF Silent, Single
  <2> HIDE DEF at, v, w, e, sooner, AllSilent, Right
  <2>9. HistoryTells(w, e.at) /\ w.guide = c.guide
    <3>1. HistoryTells(w, e.at) /\ Aside(w, v)
      BY <2>4, <2>5, <2>6, RaiseForTells
    <3> QED BY <2>5, <3>1 DEF Aside
  <2>10. /\ Silent(e, id, hidden) => Untold(w, v, id)
         /\ Completes(e, id) /\ ~hidden /\ Unheard(v, id) => ToldOnce(w, id)
    BY <2>4, <2>5, <2>6, RaiseForToldOf
  <2>11. AllSilent => Untold(w, c, id)
    BY <2>5, <2>7, <2>10 DEF Untold
  <2>12. ASSUME NEW one \in DOMAIN events, Single(events, one, id), ~hidden, Unheard(c, id)
         PROVE  IF n < one THEN Unheard(w, id) ELSE ToldOnce(w, id)
    <3>1. one \in Nat
      BY <1>2
    <3>2. CASE n = one
      <4>1. n - 1 < one /\ ~ n < one
        BY <3>1, <3>2
      <4> QED BY <2>5, <2>8, <2>10, <2>12, <3>2, <4>1
    <3>3. CASE n # one
      <4>1. n - 1 < one <=> n < one
        BY <3>1, <3>3
      <4>2. ToldOf(w.raises, id) = ToldOf(v.raises, id)
        BY <2>8, <2>10, <2>12, <3>3 DEF Untold
      <4> QED BY <2>5, <2>12, <4>1, <4>2 DEF Unheard, ToldOnce
    <3> QED BY <3>2, <3>3
  <2> QED BY <2>6, <2>9, <2>11, <2>12 DEF Right, w
<1>5. W \subseteq 0..L
  OBVIOUS
<1> HIDE DEF Right
<1>6. L \in W \/ Right(L)
  BY <1>2
<1> HIDE DEF W, at
<1>7. W = {}
  BY <1>2, <1>3, <1>4, <1>5, UpTo
<1>8. Right(L)
  BY <1>6, <1>7
<1>9. \A one \in DOMAIN events : ~ L < one
  BY <1>2
<1> QED BY <1>1, <1>8, <1>9 DEF Right

\* The recorded steps are the content's, each after all it requires.
RecordedOk(c) ==
  /\ GuideShape(c.guide)
  /\ \A id \in Recorded(c.guide) :
       id \in StepIds /\ c.guide.steps[id].at \in Nat /\ c.guide.steps[id].at <= c.now
  /\ \A i \in DOMAIN Steps :
       Steps[i].id \in Recorded(c.guide) /\ c.guide.steps[Steps[i].id].outcome = "completed" =>
         \A r \in Steps[i].requires :
           r \in Recorded(c.guide) /\ c.guide.steps[r].at <= c.guide.steps[Steps[i].id].at

\* The player was told of the step, or should have been.
WasShown(c, id) ==
  id \in Recorded(c.guide) /\ c.guide.steps[id].outcome = "completed" /\ c.guide.steps[id].shown

ToldOk(c, id) == IF WasShown(c, id) THEN ToldOnce(c, id) ELSE Unheard(c, id)

GuideOk(c) == RecordedOk(c) /\ \A id \in StepIds : ToldOk(c, id)

LEMMA LedIsRecorded ==
  ASSUME NEW t, NEW u, Led(u, t), RecordedOk(t.campaign), t.campaign.now \in Nat
  PROVE  RecordedOk(u.campaign)
<1> DEFINE b == u.campaign
           c == t.campaign
           at(id) == b.guide.steps[id].at
<1>1. GuideShape(b.guide) /\ b.now = c.now
  BY DEF Led, Kept
<1>2. \A id \in Recorded(b.guide) : id \in Recorded(c.guide) \/ id \in Recent(u, t)
  BY DEF Recent
<1>3. \A id \in Recorded(c.guide) : id \in Recorded(b.guide) /\ b.guide.steps[id] = c.guide.steps[id]
  BY DEF Led
<1>4. ASSUME NEW id \in Recent(u, t)
      PROVE  /\ id \in StepIds /\ at(id) = c.now
             /\ \E i \in DOMAIN Steps : Steps[i].id = id /\ Steps[i].requires \subseteq Recorded(b.guide)
  BY DEF Led, CompletedNow
<1> HIDE DEF b, c
<1>5. ASSUME NEW id \in Recorded(b.guide) PROVE id \in StepIds /\ at(id) \in Nat /\ at(id) <= b.now
  <2>1. CASE id \in Recorded(c.guide)
    BY <1>1, <1>3, <2>1 DEF RecordedOk, c
  <2>2. CASE id \in Recent(u, t)
    BY <1>1, <1>4, <2>2 DEF c
  <2> QED BY <1>2, <2>1, <2>2
<1>6. ASSUME NEW i \in DOMAIN Steps, Steps[i].id \in Recorded(b.guide),
             b.guide.steps[Steps[i].id].outcome = "completed", NEW r \in Steps[i].requires
      PROVE  r \in Recorded(b.guide) /\ at(r) <= at(Steps[i].id)
  <2>1. CASE Steps[i].id \in Recorded(c.guide)
    <3>1. r \in Recorded(c.guide) /\ c.guide.steps[r].at <= c.guide.steps[Steps[i].id].at
      BY <1>3, <1>6, <2>1 DEF RecordedOk, c
    <3> QED BY <1>3, <2>1, <3>1
  <2>2. CASE Steps[i].id \in Recent(u, t)
    <3>1. PICK j \in DOMAIN Steps : Steps[j].id = Steps[i].id /\ Steps[j].requires \subseteq Recorded(b.guide)
      BY <1>4, <2>2
    <3>2. j = i
      BY <3>1, GuidanceAssumption
    <3>3. r \in Recorded(b.guide)
      BY <1>6, <3>1, <3>2
    <3>4. at(r) <= b.now /\ at(Steps[i].id) = b.now
      BY <1>1, <1>4, <1>5, <2>2, <3>3
    <3> QED BY <3>3, <3>4
  <2> QED BY <1>2, <1>6, <2>1, <2>2
<1>7. RecordedOk(b)
  BY <1>1, <1>5, <1>6 DEF RecordedOk
<1> QED BY <1>7 DEF b

\* What was shown is what was shown before, and what was completed now before
\* the eyes of the player.
LEMMA LedIsShown ==
  ASSUME NEW t, NEW u, Led(u, t), NEW id \in StepIds
  PROVE  IF id \in Recent(u, t) THEN /\ ~WasShown(t.campaign, id)
                                     /\ WasShown(u.campaign, id) <=> ~t.campaign.guide.hidden
         ELSE WasShown(u.campaign, id) <=> WasShown(t.campaign, id)
<1>1. CASE id \in Recent(u, t)
  <2>1. id \in Recorded(u.campaign.guide) /\ id \notin Recorded(t.campaign.guide)
    BY <1>1 DEF Recent
  <2> DEFINE record == u.campaign.guide.steps[id]
             shown == ~t.campaign.guide.hidden
             now == t.campaign.now
  <2>2. record = [outcome |-> "completed", at |-> now, shown |-> shown]
    BY <1>1 DEF Led, CompletedNow
  <2>3. record.outcome = "completed" /\ record.shown = shown
    <3> HIDE DEF record, shown, now
    <3> QED BY <2>2
  <2> QED BY <1>1, <2>1, <2>3 DEF WasShown
<1>2. CASE id \notin Recent(u, t)
  <2>1. id \in Recorded(u.campaign.guide) <=> id \in Recorded(t.campaign.guide)
    BY <1>2 DEF Recent, Led
  <2>2. id \in Recorded(t.campaign.guide) => u.campaign.guide.steps[id] = t.campaign.guide.steps[id]
    BY DEF Led
  <2> QED BY <1>2, <2>1, <2>2 DEF WasShown
<1> QED BY <1>1, <1>2

\* The events of a transaction that are not of the guidance.
Foreign(events) ==
  \A j \in DOMAIN events : events[j].subject \notin StepIds

LEMMA StepEventIs ==
  ASSUME NEW s, NEW c
  PROVE  LET e == StepEvent(s, c)
         IN  /\ e.kind = "stepCompleted" /\ e.subject = s.id /\ e.amount = 0 /\ e.holds /\ e.at = c.now
  BY DEF StepEvent

\* The announced events go on in time.
LEMMA AnnouncedInOrder ==
  ASSUME NEW t, NEW u, Announced(u, t), NEW from, EventsOk(t.events, from, t.campaign.now)
  PROVE  EventsOk(u.events, from, t.campaign.now)
<1> DEFINE L == Len(t.events)
           M == Len(u.events)
           now == t.campaign.now
<1>1. L \in Nat /\ M \in Nat /\ L <= M /\ DOMAIN u.events = 1..M /\ DOMAIN t.events = 1..L
      /\ from \in Nat /\ now \in Nat /\ from <= now
  BY DEF Announced, EventsOk
<1>2. \A j \in 1..L : u.events[j] = t.events[j]
  BY DEF Announced
<1>3. ASSUME NEW j \in (L + 1)..M PROVE u.events[j].at = now /\ u.events[j].amount = 0
  <2>1. PICK i \in DOMAIN Steps : u.events[j] = StepEvent(Steps[i], t.campaign)
    BY DEF Announced
  <2> QED BY <2>1, StepEventIs
<1>4. \A j \in 1..L : /\ u.events[j].at \in from..now /\ u.events[j].amount \in Int
                      /\ \A k \in 1..j : u.events[k].at <= u.events[j].at
  <2> SUFFICES ASSUME NEW j \in 1..L
               PROVE  /\ u.events[j].at \in from..now /\ u.events[j].amount \in Int
                      /\ \A k \in 1..j : u.events[k].at <= u.events[j].at
    OBVIOUS
  <2>1. /\ t.events[j].at \in from..now /\ t.events[j].amount \in Int
        /\ \A k \in 1..j : t.events[k].at <= t.events[j].at
    BY <1>1 DEF EventsOk
  <2>2. \A k \in 1..j : k \in 1..L
    BY <1>1
  <2> QED BY <1>2, <2>1, <2>2
<1> HIDE DEF L, M, now
<1>5. \A j \in 1..M : j \in 1..L \/ j \in (L + 1)..M
  BY <1>1
<1>6. \A j \in 1..M : u.events[j].at \in from..now /\ u.events[j].amount \in Int
  BY <1>1, <1>3, <1>4, <1>5
<1>7. ASSUME NEW j \in 1..M, NEW k \in 1..j PROVE u.events[k].at <= u.events[j].at
  <2>1. k \in 1..M
    BY <1>1
  <2>2. CASE j \in 1..L
    BY <1>4, <2>2
  <2>3. CASE j \in (L + 1)..M
    BY <1>1, <1>3, <1>6, <2>1, <2>3
  <2> QED BY <1>5, <2>2, <2>3
<1> QED BY <1>1, <1>6, <1>7 DEF EventsOk, M, now

\* What the events of a transaction tell of the steps.
LEMMA AnnouncedIsTold ==
  ASSUME NEW t, NEW u, Led(u, t), NEW from, HistoryTells(t.campaign, from),
         EventsOk(t.events, from, t.campaign.now), Foreign(t.events), NEW id \in StepIds,
         ToldOk(t.campaign, id)
  PROVE  IF WasShown(u.campaign, id) THEN ToldOnce(RaiseAll(u.campaign, u.events), id)
         ELSE Unheard(RaiseAll(u.campaign, u.events), id)
<1> DEFINE b == u.campaign
           c == t.campaign
           L == Len(t.events)
           M == Len(u.events)
<1>1. EventsOk(u.events, from, c.now)
  BY AnnouncedInOrder DEF Led
<1>2. HistoryTells(b, from) /\ b.raises = c.raises /\ b.guide.hidden = c.guide.hidden
  BY DEF HistoryTells, Led, Kept
<1>3. /\ (\A j \in DOMAIN u.events : Silent(u.events[j], id, b.guide.hidden)) => Untold(RaiseAll(b, u.events), b, id)
      /\ (\E one \in DOMAIN u.events : Single(u.events, one, id)) /\ ~b.guide.hidden /\ Unheard(b, id) =>
           ToldOnce(RaiseAll(b, u.events), id)
  BY <1>1, <1>2, RaiseAllToldOf
<1>4. L \in Nat /\ M \in Nat /\ L <= M /\ DOMAIN u.events = 1..M /\ DOMAIN t.events = 1..L
  BY DEF Led, Announced, EventsOk
<1>5. \A j \in 1..M : j \in 1..L \/ j \in (L + 1)..M
  BY <1>4
<1>6. \A j \in (L + 1)..M : j \in 1..M /\ j \notin 1..L
  BY <1>4
<1>7. \A j \in 1..L : u.events[j].subject # id
  <2>1. \A j \in 1..L : u.events[j] = t.events[j]
    BY DEF Led, Announced
  <2> QED BY <1>4, <2>1 DEF Foreign
<1>8. ASSUME NEW j \in (L + 1)..M PROVE u.events[j].kind = "stepCompleted" /\ u.events[j].holds
  <2>1. PICK i \in DOMAIN Steps : u.events[j] = StepEvent(Steps[i], t.campaign)
    BY DEF Led, Announced
  <2> QED BY <2>1, StepEventIs
<1>9. CASE id \notin Recent(u, t)
  <2>1. \A j \in (L + 1)..M : u.events[j].subject # id
    BY <1>9 DEF Led, Announced
  <2>2. \A j \in DOMAIN u.events : Silent(u.events[j], id, b.guide.hidden)
    BY <1>4, <1>5, <1>7, <2>1 DEF Silent
  <2>3. Untold(RaiseAll(b, u.events), b, id)
    BY <1>3, <2>2
  <2>4. WasShown(b, id) <=> WasShown(c, id)
    BY <1>9, LedIsShown
  <2> QED BY <1>2, <2>3, <2>4 DEF ToldOk, Untold, ToldOnce, Unheard
<1>10. CASE id \in Recent(u, t)
  <2>1. PICK j \in (L + 1)..M : \A k \in (L + 1)..M : u.events[k].subject = id <=> k = j
    BY <1>10 DEF Led, Announced
  <2>2. ~WasShown(c, id) /\ (WasShown(b, id) <=> ~c.guide.hidden)
    BY <1>10, LedIsShown
  <2>3. Unheard(c, id) /\ Unheard(b, id)
    BY <1>2, <2>2 DEF ToldOk, Unheard
  <2>4. CASE c.guide.hidden
    <3>1. \A k \in DOMAIN u.events : Silent(u.events[k], id, b.guide.hidden)
      BY <1>2, <1>4, <1>5, <1>7, <1>8, <2>4 DEF Silent
    <3>2. Untold(RaiseAll(b, u.events), b, id)
      BY <1>3, <3>1
    <3> QED BY <2>2, <2>3, <2>4, <3>2 DEF Untold, Unheard
  <2>5. CASE ~c.guide.hidden
    <3>1. j \in DOMAIN u.events /\ Single(u.events, j, id)
      BY <1>4, <1>5, <1>6, <1>7, <1>8, <2>1 DEF Single, Completes
    <3>2. ToldOnce(RaiseAll(b, u.events), id)
      BY <1>2, <1>3, <2>3, <2>5, <3>1
    <3> QED BY <2>2, <2>5, <3>2
  <2> QED BY <2>4, <2>5
<1> QED BY <1>9, <1>10

\* What the engine keeps of its campaign is true of what happened.
CampaignTells(c) == HistoryTells(c, c.now) /\ GuideOk(c)

\* No open step is satisfied by the events.
KeptUp(c, events) ==
  \A i \in DOMAIN Steps : ~(StepOpen(c.guide, Steps[i]) /\ Satisfied(Steps[i], c, events))

\* What the raises of a guided transaction make of it, on the way and at the end.
Telling(b, u, now) ==
  /\ HistoryTells(b, now) /\ Aside(b, u.campaign)
  /\ \A id \in StepIds : IF WasShown(u.campaign, id) THEN ToldOnce(b, id) ELSE Unheard(b, id)

LEMMA LayerIsSilent ==
  ASSUME NEW b, NEW u, NEW now \in Nat, Telling(b, u, now), u.campaign.now = now
  PROVE  Telling(RaiseFor(b, LayerEvent(u.campaign)), u, now)
<1> DEFINE e == LayerEvent(u.campaign)
           d == RaiseFor(b, e)
<1>1. e.at = now /\ e.amount = 0 /\ e.subject = ""
  BY DEF LayerEvent
<1>2. HistoryTells(b, now) /\ Aside(b, u.campaign)
  BY DEF Telling
<1>0. now \in Nat /\ now <= now /\ 0 \in Int
  OBVIOUS
<1> HIDE DEF e
<1>3. HistoryTells(d, now) /\ Aside(d, b)
  <2>1. e.at \in Nat /\ now <= e.at /\ e.amount \in Int
    BY ONLY <1>0, <1>1
  <2>2. HistoryTells(RaiseFor(b, e), e.at) /\ Aside(RaiseFor(b, e), b)
    BY <1>2, <2>1, RaiseForTells
  <2> QED BY <1>1, <2>2
<1>4. Aside(d, u.campaign)
  BY <1>2, <1>3 DEF Aside
<1>5. ASSUME NEW id \in StepIds PROVE Untold(d, b, id)
  <2>1. Silent(e, id, b.guide.hidden)
    BY <1>1, StepIdsAreNames DEF Silent
  <2>2. e.at \in Nat /\ now <= e.at /\ e.amount \in Int
    BY ONLY <1>0, <1>1
  <2> QED BY <1>2, <2>1, <2>2, RaiseForToldOf
<1> HIDE DEF d
<1>6. ASSUME NEW id \in StepIds
      PROVE  IF WasShown(u.campaign, id) THEN ToldOnce(d, id) ELSE Unheard(d, id)
  <2>1. IF WasShown(u.campaign, id) THEN ToldOnce(b, id) ELSE Unheard(b, id)
    BY DEF Telling
  <2> QED BY <1>5, <2>1 DEF Untold, ToldOnce, Unheard
<1> QED BY <1>3, <1>4, <1>6 DEF Telling, d, e

\* A transaction that starts from what is told until the time from.
LEMMA ObservedTells ==
  ASSUME NEW c, NEW from, HistoryTells(c, from), GuideOk(c), c.now \in Nat,
         NEW events, EventsOk(events, from, c.now), Foreign(events), NEW before
  PROVE  /\ CampaignTells(ObserveTransaction(c, before, events))
         /\ KeptUp(ObserveTransaction(c, before, events), events)
<1> DEFINE t == [campaign |-> c, events |-> events]
           u == AdvanceGuidance(t)
           raised == RaiseAll(u.campaign, u.events)
           layered == RaiseFor(raised, LayerEvent(u.campaign))
           b == ObserveTransaction(c, before, events)
<1>1. t.campaign = c /\ t.events = events
  OBVIOUS
<1> HIDE DEF t
<1>2. Unguided(t)
  BY <1>1 DEF Unguided, HistoryTells, GuideOk, RecordedOk, EventsOk
<1>3. Led(u, t) /\ Stuck(u)
  BY <1>2, AdvanceLeads
<1>4. b = raised \/ b = layered
  BY DEF ObserveTransaction, RaiseNotifications, t
<1> HIDE DEF u, b
<1>5. Announced(u, t) /\ Kept(u.campaign, c)
  BY <1>1, <1>3 DEF Led
<1>6. EventsOk(u.events, from, c.now)
  BY <1>1, <1>5, AnnouncedInOrder
<1>7. HistoryTells(u.campaign, from) /\ u.campaign.now = c.now
  BY <1>5 DEF HistoryTells, Kept
<1>8. RecordedOk(u.campaign)
  BY <1>1, <1>3, LedIsRecorded DEF GuideOk
<1>9. Telling(raised, u, c.now)
  <2>1. HistoryTells(raised, c.now) /\ Aside(raised, u.campaign)
    BY <1>6, <1>7, RaiseAllTells
  <2>2. ASSUME NEW id \in StepIds
        PROVE  IF WasShown(u.campaign, id) THEN ToldOnce(raised, id) ELSE Unheard(raised, id)
    BY <1>1, <1>3, AnnouncedIsTold DEF GuideOk
  <2> HIDE DEF raised
  <2> QED BY <2>1, <2>2 DEF Telling
<1> HIDE DEF raised
<1>10. Telling(layered, u, c.now)
  BY <1>7, <1>9, LayerIsSilent
<1> HIDE DEF layered
<1>11. Telling(b, u, c.now)
  BY <1>4, <1>9, <1>10
<1>12. /\ b.now = c.now /\ b.guide = u.campaign.guide /\ b.player = u.campaign.player
       /\ b.conditions = u.campaign.conditions
  BY <1>7, <1>11 DEF Telling, Aside
<1>13. RecordedOk(b)
  BY <1>7, <1>8, <1>12 DEF RecordedOk
<1>14. \A id \in StepIds : ToldOk(b, id)
  BY <1>11, <1>12 DEF Telling, ToldOk, WasShown
<1>15. CampaignTells(b)
  BY <1>11, <1>12, <1>13, <1>14 DEF CampaignTells, GuideOk, Telling
<1>16. ASSUME NEW i \in DOMAIN Steps, Satisfied(Steps[i], b, events)
       PROVE  Satisfied(Steps[i], u.campaign, u.events)
  <2> DEFINE s == Steps[i]
  <2>1. \A j \in DOMAIN events : j \in DOMAIN u.events /\ u.events[j] = events[j]
    BY <1>1, <1>5 DEF Announced, EventsOk
  <2>2. \A e : Matches(s, e, b) <=> Matches(s, e, u.campaign)
    BY <1>12 DEF Matches
  <2> HIDE DEF s
  <2>3. Satisfied(s, b, events)
    BY <1>16 DEF s
  <2>4. Satisfied(s, u.campaign, u.events)
    BY <1>12, <2>1, <2>2, <2>3 DEF Satisfied
  <2> QED BY <2>4 DEF s
<1>17. KeptUp(b, events)
  BY <1>3, <1>12, <1>16 DEF KeptUp, Stuck
<1> QED BY <1>15, <1>17 DEF b

-----------------------------------------------------------------------------
(* The inductive invariant of what is told. *)

\* Of the campaign, of its snapshot, and of what was just observed.
ToldInv ==
  /\ CampaignTells(campaign) /\ CampaignTells(saved)
  /\ observed # Nothing => page.open /\ KeptUp(campaign, observed)

LEMMA NewCampaignTells == CampaignTells(NewCampaign)
<1> DEFINE c == NewCampaign
           none == [s \in {} |-> {}]
<1>1. /\ c.now = 0 /\ c.notices = NoNotices /\ c.raises = <<>> /\ c.visit = 0
      /\ c.guide = [hidden |-> FALSE, steps |-> none]
  BY DEF NewCampaign
<1>2. CampaignShape(c) /\ NoticesOk(NoNotices)
  BY NewCampaignIsRaised, <1>1 DEF Raised
<1>3. /\ NoNotices.sequence = 0 /\ NoNotices.entries = <<>> /\ NoNotices.raisedThisSite = <<>>
  BY DEF NoNotices
<1>4. Elements(<<>>) = {} /\ Len(<<>>) = 0 /\ DOMAIN <<>> = {} /\ <<>> \in Seq({})
  BY EmptySeq DEF Elements
<1>5. Account(<<>>, <<>>, 0)
  <2>1. Sorted(<<>>)
    BY <1>4 DEF Sorted
  <2>2. Covered({}, <<>>)
    BY <1>4 DEF Covered
  <2>3. 0 <= HistoryLimit
    BY NoticesAssumption
  <2> QED BY <1>4, <2>1, <2>2, <2>3 DEF Account
<1>6. Tells(NoNotices, <<>>, 0)
  BY <1>2, <1>3, <1>4, <1>5 DEF Tells
<1>7. RaisesOk(<<>>, 0) /\ OnceOnly(<<>>) /\ Remembered(<<>>, <<>>, 0)
  <2>1. MemoryOk(<<>>)
    BY <1>4 DEF MemoryOk
  <2> QED BY <1>4, <2>1 DEF RaisesOk, OnceOnly, Remembered
<1> HIDE DEF c
<1>8. HistoryTells(c, 0)
  BY <1>1, <1>2, <1>3, <1>6, <1>7 DEF HistoryTells
<1>9. GuideShape(c.guide) /\ Recorded(c.guide) = {}
  <2>1. DOMAIN none = {} /\ none = [id \in DOMAIN none |-> none[id]]
    OBVIOUS
  <2> HIDE DEF none
  <2> QED BY <1>1, <2>1 DEF GuideShape, Recorded
<1>10. \A id : Unheard(c, id)
  BY <1>1, <1>4 DEF Unheard, ToldOf
<1>11. GuideOk(c)
  BY <1>9, <1>10 DEF GuideOk, RecordedOk, ToldOk, WasShown
<1> QED BY <1>1, <1>8, <1>11 DEF CampaignTells, c

LEMMA ToldInitially == Init => ToldInv
<1> SUFFICES ASSUME Init PROVE ToldInv
  OBVIOUS
<1>1. campaign = NewCampaign /\ saved = NewCampaign /\ observed = Nothing
  BY DEF Init
<1> QED BY <1>1, NewCampaignTells DEF ToldInv

LEMMA CommitTells ==
  ASSUME ToldInv, NEW c, NEW events, Commits(c, events),
         HistoryTells(c, campaign.now), GuideOk(c), c.now \in Nat,
         EventsOk(events, campaign.now, c.now), Foreign(events)
  PROVE  ToldInv'
<1>1. /\ campaign' = ObserveTransaction(c, campaign, events) /\ observed' = events
      /\ page.open /\ UNCHANGED <<saved, page>>
  BY DEF Commits
<1>2. CampaignTells(campaign') /\ KeptUp(campaign', events)
  BY <1>1, ObservedTells
<1> QED BY <1>1, <1>2 DEF ToldInv

LEMMA TransactTells ==
  ASSUME ToldInv, Transact
  PROVE  ToldInv'
<1>1. PICK h \in Happenings :
        Commits([campaign EXCEPT !.now = @ + h.elapsed, !.player = h.player, !.shield = h.shield,
                                 !.conditions = h.conditions],
                [i \in DOMAIN h.events |->
                   [h.events[i] EXCEPT !.at = campaign.now + h.events[i].at]])
  BY DEF Transact
<1> DEFINE then == campaign.now
           now == then + h.elapsed
           c == [campaign EXCEPT !.now = now, !.player = h.player, !.shield = h.shield,
                                 !.conditions = h.conditions]
           E(i) == [h.events[i] EXCEPT !.at = then + h.events[i].at]
           events == [i \in DOMAIN h.events |-> E(i)]
           L == Len(h.events)
<1>2. Commits(c, events)
  BY <1>1
<1>3. CampaignTells(campaign) /\ CampaignShape(campaign) /\ then \in Nat
  BY DEF ToldInv, CampaignTells, HistoryTells, Tells
<1>4. L \in Nat /\ DOMAIN h.events = 1..L /\ h.elapsed \in Nat
  BY HappeningsAssumption
<1>5. now \in Nat /\ then <= now
  BY <1>3, <1>4
<1>6. /\ CampaignShape(c) /\ c.now = now /\ c.notices = campaign.notices /\ c.raises = campaign.raises
      /\ c.visit = campaign.visit /\ c.guide = campaign.guide
  <2> DEFINE player == h.player
             shield == h.shield
             conditions == h.conditions
  <2>1. c = [campaign EXCEPT !.now = now, !.player = player, !.shield = shield,
                             !.conditions = conditions]
    OBVIOUS
  <2> HIDE DEF c, now, player, shield, conditions
  <2>2. c = [now |-> now, player |-> player, shield |-> shield, conditions |-> conditions,
             notices |-> campaign.notices, guide |-> campaign.guide, raises |-> campaign.raises,
             visit |-> campaign.visit]
    BY <1>3, <2>1 DEF CampaignShape
  <2> QED BY <2>2 DEF CampaignShape
<1>7. HistoryTells(c, then)
  BY <1>3, <1>6 DEF CampaignTells, HistoryTells
<1> HIDE DEF c
<1>8. GuideOk(c)
  <2>1. GuideOk(campaign)
    BY <1>3 DEF CampaignTells
  <2>2. \A id \in Recorded(c.guide) :
          id \in StepIds /\ c.guide.steps[id].at \in Nat /\ c.guide.steps[id].at <= c.now
    <3> HIDE DEF now, then
    <3>1. ASSUME NEW id \in Recorded(campaign.guide)
          PROVE  id \in StepIds /\ campaign.guide.steps[id].at \in Nat /\ campaign.guide.steps[id].at <= now
      <4>1. id \in StepIds /\ campaign.guide.steps[id].at \in Nat /\ campaign.guide.steps[id].at <= then
        BY <2>1 DEF GuideOk, RecordedOk, then
      <4> QED BY <1>3, <1>5, <4>1
    <3> QED BY <1>6, <3>1
  <2>3. RecordedOk(c)
    BY <1>6, <2>1, <2>2 DEF GuideOk, RecordedOk
  <2>4. \A id \in StepIds : ToldOk(c, id)
    BY <1>6, <2>1 DEF GuideOk, ToldOk, WasShown, ToldOnce, Unheard
  <2> QED BY <2>3, <2>4 DEF GuideOk
<1>9. Len(events) = L /\ DOMAIN events = 1..L
  <2> DEFINE S == {E(i) : i \in DOMAIN h.events}
  <2>1. \A i \in DOMAIN h.events : E(i) \in S
    OBVIOUS
  <2> HIDE DEF E, S
  <2>2. events \in [1..L -> S] /\ DOMAIN events = 1..L
    BY <1>4, <2>1
  <2> HIDE DEF events, L
  <2>3. events \in Seq(S)
    BY <1>4, <2>2, SeqDef
  <2> QED BY <1>4, <2>2, <2>3, LenProperties
<1>10. ASSUME NEW i \in 1..L
       PROVE  /\ events[i].at = then + h.events[i].at /\ events[i].amount = h.events[i].amount
              /\ events[i].subject = h.events[i].subject
  <2> DEFINE e == h.events[i]
             at == then + e.at
             x == [e EXCEPT !.at = at]
  <2>1. events[i] = x
    BY <1>4
  <2>2. e = [kind |-> e.kind, ship |-> e.ship, subject |-> e.subject, reason |-> e.reason,
             amount |-> e.amount, holds |-> e.holds, at |-> e.at]
    BY <1>4, HappeningsAssumption
  <2>3. x.at = at /\ x.amount = e.amount /\ x.subject = e.subject
    <3> HIDE DEF e, at
    <3> QED BY <2>2
  <2> HIDE DEF x
  <2> QED BY <2>1, <2>3
<1> HIDE DEF events
<1>11. EventsOk(events, then, now)
  <2>1. \A i \in 1..L : /\ h.events[i].at \in 0..h.elapsed /\ h.events[i].amount \in Int
                        /\ \A j \in 1..i : h.events[j].at <= h.events[i].at
    BY <1>4, HappeningsAssumption
  <2> HIDE DEF L, then
  <2>2. ASSUME NEW i \in 1..L
        PROVE  /\ events[i].at \in then..now /\ events[i].amount \in Int
               /\ \A j \in 1..i : events[j].at <= events[i].at
    <3>1. events[i].at \in then..now /\ events[i].amount \in Int
      BY SMTT(30), <1>3, <1>4, <1>10, <2>1
    <3>2. ASSUME NEW j \in 1..i PROVE events[j].at <= events[i].at
      <4>1. j \in 1..L
        BY <1>4
      <4>2. h.events[j].at <= h.events[i].at /\ h.events[j].at \in 0..h.elapsed /\ h.events[i].at \in 0..h.elapsed
        BY <2>1, <4>1
      <4> QED BY <1>3, <1>10, <4>1, <4>2
    <3> QED BY <3>1, <3>2
  <2> HIDE DEF now
  <2> QED BY <1>3, <1>4, <1>5, <1>9, <2>2 DEF EventsOk
<1>12. Foreign(events)
  <2> SUFFICES ASSUME NEW i \in 1..L PROVE events[i].subject \notin StepIds
    BY <1>9 DEF Foreign
  <2>1. \A j \in DOMAIN Steps : h.events[i].subject # Steps[j].id
    BY <1>4, GuidanceAssumption
  <2> QED BY <1>10, <2>1 DEF StepIds
<1> HIDE DEF now
<1> QED BY <1>2, <1>5, <1>6, <1>7, <1>8, <1>11, <1>12, CommitTells DEF then

\* No event, no time.
LEMMA NoEvents ==
  ASSUME NEW now \in Nat
  PROVE  EventsOk(<<>>, now, now) /\ Foreign(<<>>)
<1>1. DOMAIN <<>> = {} /\ Len(<<>>) = 0 /\ 1..0 = {}
  OBVIOUS
<1> QED BY <1>1 DEF EventsOk, Foreign

LEMMA SkipStepTells ==
  ASSUME ToldInv, SkipStep
  PROVE  ToldInv'
<1>1. PICK i \in DOMAIN Steps :
        /\ Steps[i].id \notin Recorded(campaign.guide)
        /\ Commits(RecordStep(campaign, Steps[i], "skipped"), <<>>)
  BY DEF SkipStep
<1> DEFINE b == RecordStep(campaign, Steps[i], "skipped")
           id == Steps[i].id
<1>2. HistoryTells(campaign, campaign.now) /\ GuideOk(campaign) /\ campaign.now \in Nat
  BY DEF ToldInv, CampaignTells, HistoryTells, Tells
<1>3. Records(b, campaign, id, "skipped")
  BY <1>2, RecordRecords DEF GuideOk, RecordedOk, HistoryTells
<1>4. Commits(b, <<>>) /\ id \in StepIds
  BY <1>1 DEF StepIds
<1> HIDE DEF b
<1>5. /\ CampaignShape(b) /\ GuideShape(b.guide) /\ b.now = campaign.now /\ b.notices = campaign.notices
      /\ b.raises = campaign.raises /\ b.visit = campaign.visit
      /\ Recorded(b.guide) = Recorded(campaign.guide) \cup {id}
      /\ \A other \in Recorded(campaign.guide) \ {id} : b.guide.steps[other] = campaign.guide.steps[other]
  BY <1>3 DEF Records, Kept
<1>6. b.guide.steps[id].outcome = "skipped" /\ b.guide.steps[id].at = campaign.now
  <2> DEFINE record == b.guide.steps[id]
             shown == ~campaign.guide.hidden
             now == campaign.now
  <2>1. record = [outcome |-> "skipped", at |-> now, shown |-> shown]
    BY <1>3 DEF Records
  <2> HIDE DEF record, shown, now
  <2>2. record.outcome = "skipped" /\ record.at = now
    BY <2>1
  <2> QED BY <2>2 DEF record, now
<1>7. \A other \in Recorded(campaign.guide) :
        other # id /\ other \in Recorded(b.guide) /\ b.guide.steps[other] = campaign.guide.steps[other]
  BY <1>1, <1>5
<1>8. HistoryTells(b, campaign.now)
  BY <1>2, <1>5 DEF HistoryTells
<1> HIDE DEF id
<1>9. RecordedOk(b)
  <2>1. RecordedOk(campaign)
    BY <1>2 DEF GuideOk
  <2>2. ASSUME NEW x \in Recorded(b.guide)
        PROVE  x \in StepIds /\ b.guide.steps[x].at \in Nat /\ b.guide.steps[x].at <= b.now
    BY <1>2, <1>4, <1>5, <1>6, <1>7, <2>1 DEF RecordedOk
  <2>3. ASSUME NEW j \in DOMAIN Steps, Steps[j].id \in Recorded(b.guide),
               b.guide.steps[Steps[j].id].outcome = "completed", NEW r \in Steps[j].requires
        PROVE  r \in Recorded(b.guide) /\ b.guide.steps[r].at <= b.guide.steps[Steps[j].id].at
    <3>1. Steps[j].id \in Recorded(campaign.guide)
      BY <1>5, <1>6, <2>3
    <3>2. r \in Recorded(campaign.guide) /\ campaign.guide.steps[r].at <= campaign.guide.steps[Steps[j].id].at
      BY <1>7, <2>1, <2>3, <3>1 DEF RecordedOk
    <3> QED BY <1>7, <3>1, <3>2
  <2> QED BY <1>5, <2>2, <2>3 DEF RecordedOk
<1>10. ASSUME NEW x \in StepIds PROVE ToldOk(b, x)
  <2>1. ToldOk(campaign, x)
    BY <1>2 DEF GuideOk
  <2>2. WasShown(b, x) <=> WasShown(campaign, x)
    BY <1>1, <1>5, <1>6, <1>7 DEF WasShown, id
  <2> QED BY <1>5, <2>1, <2>2 DEF ToldOk, ToldOnce, Unheard
<1>11. EventsOk(<<>>, campaign.now, b.now) /\ Foreign(<<>>)
  BY <1>2, <1>5, NoEvents
<1> QED BY <1>2, <1>4, <1>5, <1>8, <1>9, <1>10, <1>11, CommitTells DEF GuideOk

LEMMA HideOrShowTells ==
  ASSUME ToldInv, HideOrShow
  PROVE  ToldInv'
<1> DEFINE hidden == ~campaign.guide.hidden
           guide == [campaign.guide EXCEPT !.hidden = hidden]
           b == [campaign EXCEPT !.guide = guide]
<1>1. Commits(b, <<>>)
  BY DEF HideOrShow
<1>2. HistoryTells(campaign, campaign.now) /\ GuideOk(campaign) /\ campaign.now \in Nat
  BY DEF ToldInv, CampaignTells, HistoryTells, Tells
<1> HIDE DEF hidden
<1>3. GuideShape(guide) /\ guide.steps = campaign.guide.steps
  BY <1>2 DEF GuideOk, RecordedOk, GuideShape
<1>4. /\ CampaignShape(b) /\ b.guide = guide /\ b.now = campaign.now /\ b.notices = campaign.notices
      /\ b.raises = campaign.raises /\ b.visit = campaign.visit
  <2>1. CampaignShape(campaign) /\ b = [campaign EXCEPT !.guide = guide]
    BY <1>2 DEF HistoryTells
  <2> HIDE DEF guide, b
  <2>2. b = [now |-> campaign.now, player |-> campaign.player, shield |-> campaign.shield,
             conditions |-> campaign.conditions, notices |-> campaign.notices, guide |-> guide,
             raises |-> campaign.raises, visit |-> campaign.visit]
    BY <2>1 DEF CampaignShape
  <2> QED BY <2>2 DEF CampaignShape
<1> HIDE DEF guide, b
<1>5. HistoryTells(b, campaign.now)
  BY <1>2, <1>4 DEF HistoryTells
<1>6. GuideOk(b)
  <2>1. Recorded(b.guide) = Recorded(campaign.guide) /\ b.guide.steps = campaign.guide.steps
    BY <1>3, <1>4 DEF Recorded
  <2>2. RecordedOk(b)
    BY <1>2, <1>3, <1>4, <2>1 DEF GuideOk, RecordedOk
  <2>3. \A id \in StepIds : ToldOk(b, id)
    BY <1>2, <1>4, <2>1 DEF GuideOk, ToldOk, WasShown, ToldOnce, Unheard
  <2> QED BY <2>2, <2>3 DEF GuideOk
<1>7. EventsOk(<<>>, campaign.now, b.now) /\ Foreign(<<>>)
  BY <1>2, <1>4, NoEvents
<1> QED BY <1>1, <1>2, <1>4, <1>5, <1>6, <1>7, CommitTells

LEMMA ToldStep ==
  ASSUME PageInv, ToldInv, [Next]_vars
  PROVE  ToldInv'
<1>1. CASE Transact
  BY <1>1, TransactTells
<1>2. CASE SkipStep
  BY <1>2, SkipStepTells
<1>3. CASE HideOrShow
  BY <1>3, HideOrShowTells
<1>4. CASE \/ Tick \/ TimerFires \/ Focus \/ DismissToast \/ Prefer \/ SaveStatusChanges
  <2>1. UNCHANGED <<campaign, saved, observed, page>>
    BY <1>4 DEF Tick, TimerFires, Focus, DismissToast, Prefer, SaveStatusChanges
  <2> QED BY <2>1 DEF ToldInv
<1>5. CASE Read
  <2>1. UNCHANGED <<campaign, saved, observed>> /\ page' = [page EXCEPT !.read = Published(campaign.notices)]
    BY <1>5 DEF Read
  <2>2. page'.open = page.open
    <3> DEFINE data == Published(campaign.notices)
    <3>1. page' = [page EXCEPT !.read = data] /\ page = [open |-> page.open, read |-> page.read]
      BY <2>1 DEF PageInv, Shapes
    <3> HIDE DEF data
    <3> QED BY <3>1
  <2> QED BY <2>1, <2>2 DEF ToldInv
<1>6. CASE Save
  <2>1. saved' = campaign /\ UNCHANGED <<campaign, observed, page>>
    BY <1>6 DEF Save
  <2> QED BY <2>1 DEF ToldInv
<1>7. CASE Leave
  <2>1. observed' = Nothing /\ UNCHANGED <<campaign, saved>>
    BY <1>7 DEF Leave
  <2> QED BY <2>1 DEF ToldInv
<1>8. CASE Resume
  <2>1. ~page.open /\ campaign' = saved /\ UNCHANGED <<saved, observed>>
    BY <1>8 DEF Resume
  <2>2. observed = Nothing
    BY <2>1 DEF ToldInv
  <2> QED BY <2>1, <2>2 DEF ToldInv
<1>9. CASE Reload
  <2>1. campaign' = saved /\ observed' = Nothing /\ saved' = saved
    BY <1>9 DEF Reload
  <2> QED BY <2>1 DEF ToldInv
<1>10. CASE \/ ToggleSettings \/ ChangeKey \/ ChangePresentation \/ RestoreEverything
            \/ StorageChanges \/ PressKey \/ NoticeGoes
  <2>1. UNCHANGED playVars
    BY <1>10 DEF ToggleSettings, ChangeKey, ChangePresentation, RestoreEverything,
                 StorageChanges, PressKey, NoticeGoes, Sets
  <2> QED BY <2>1 DEF playVars, ToldInv
<1>11. CASE UNCHANGED vars
  BY <1>11 DEF vars, ToldInv
<1> QED
  BY <1>1, <1>2, <1>3, <1>4, <1>5, <1>6, <1>7, <1>8, <1>9, <1>10, <1>11 DEF Next

\* What makes a history one that the code would load.
LEMMA TellsIsValid ==
  ASSUME NEW c, CampaignTells(c)
  PROVE  ValidNotifications(c) /\ ValidOnboarding(c)
<1> DEFINE n == c.notices
           E == n.entries
           R == c.raises
<1>1. /\ NoticesOk(n) /\ Account(E, R, c.now) /\ RaisesOk(R, c.visit)
      /\ Remembered(n.raisedThisSite, R, c.visit) /\ Len(R) = n.sequence
  BY DEF CampaignTells, HistoryTells, Tells
<1>2. Len(n.raisedThisSite) <= SiteMemory
  BY <1>1, MemoryFits DEF Remembered
<1>3. Len(E) <= HistoryLimit /\ Sorted(E)
  BY <1>1 DEF Account
<1>4. Len(R) \in Nat /\ DOMAIN R = 1..Len(R)
  BY <1>1, LenProperties DEF RaisesOk
<1>5. DOMAIN E = 1..Len(E) /\ Len(E) \in Nat
  BY <1>1, LenProperties DEF NoticesOk
<1>6. ASSUME NEW e \in Elements(E)
      PROVE  /\ e.id \in Nat \ {0} /\ e.sequence \in Nat /\ e.id <= e.sequence /\ e.sequence <= n.sequence
             /\ e.firstAt <= e.lastAt /\ e.lastAt <= c.now /\ e.count \in Nat /\ e.count >= 1
             /\ e.key[1] \in DOMAIN Definition
             /\ R[e.id].key = e.key
  <2>1. EntryTells(e, R, c.now) /\ EntryOk(e, n.sequence)
    BY <1>1 DEF Account, NoticesOk
  <2>2. e.id \in Nat \ {0} /\ e.sequence \in Nat /\ e.sequence <= n.sequence
    BY <2>1 DEF EntryTells, EntryOk
  <2>3. e.id \in RaisesOf(R, e) /\ e.count = Cardinality(RaisesOf(R, e))
    BY <2>1 DEF EntryTells
  <2>4. e.id <= e.sequence /\ R[e.id].key = e.key
    BY <2>2, <2>3 DEF RaisesOf
  <2>5. IsFiniteSet(RaisesOf(R, e))
    BY <2>2, FinitelyMany
  <2>6. e.count \in Nat /\ e.count # 0
    BY <2>3, <2>5, FS_CardinalityType, FS_EmptySet
  <2>7. e.id \in DOMAIN R
    BY <1>1, <1>4, <2>2, <2>4
  <2>8. e.key[1] \in DOMAIN Definition
    <3>1. RaiseOk(R[e.id], c.visit)
      BY <1>1, <2>7 DEF RaisesOk
    <3> QED BY <2>4, <3>1 DEF RaiseOk
  <2> QED BY <2>1, <2>2, <2>4, <2>6, <2>8 DEF EntryTells
<1>7. ASSUME NEW i \in DOMAIN E, NEW j \in 1..(i - 1)
      PROVE  E[j].id # E[i].id /\ E[j].sequence < E[i].sequence
  <2>1. j \in DOMAIN E /\ j < i
    BY <1>5
  <2>2. E[i] \in Elements(E) /\ E[j] \in Elements(E)
    BY <2>1 DEF Elements
  <2>3. E[j].sequence < E[i].sequence
    BY <1>3, <2>1 DEF Sorted
  <2>4. ASSUME E[j].id = E[i].id PROVE FALSE
    <3>1. E[j].key = E[i].key
      BY <1>6, <2>2, <2>4
    <3>2. Apart(E[j], E[i])
      BY <1>1, <2>2 DEF Account
    <3>3. E[i].id > E[j].sequence
      BY <2>3, <3>1, <3>2 DEF Apart
    <3> QED BY <1>6, <2>2, <2>4, <3>3
  <2> QED BY <2>3, <2>4
<1>8. \A i \in DOMAIN E : E[i] \in Elements(E)
  BY DEF Elements
<1>9. ValidNotifications(c)
  <2> SUFFICES ASSUME NEW i \in DOMAIN c.notices.entries
               PROVE  /\ E[i].id <= E[i].sequence /\ E[i].sequence <= n.sequence
                      /\ E[i].firstAt <= E[i].lastAt /\ E[i].lastAt <= c.now /\ E[i].count >= 1
                      /\ E[i].key[1] \in DOMAIN Definition
                      /\ \A j \in 1..(i - 1) : E[j].id # E[i].id /\ E[j].sequence < E[i].sequence
    BY <1>2, <1>3 DEF ValidNotifications
  <2>1. E[i] \in Elements(E)
    BY <1>8
  <2>2. /\ E[i].id <= E[i].sequence /\ E[i].sequence <= n.sequence
        /\ E[i].firstAt <= E[i].lastAt /\ E[i].lastAt <= c.now /\ E[i].count >= 1
        /\ E[i].key[1] \in DOMAIN Definition
    BY <1>6, <2>1
  <2> QED BY <1>7, <2>2
<1>10. ValidOnboarding(c)
  BY DEF CampaignTells, GuideOk, RecordedOk, StepIds, ValidOnboarding
<1> QED BY <1>9, <1>10

LEMMA TellsLog ==
  ASSUME CampaignTells(campaign)
  PROVE  LogTellsWhatHappened
<1> DEFINE n == campaign.notices
           R == campaign.raises
<1>1. /\ NoticesOk(n) /\ Account(n.entries, R, campaign.now) /\ OnceOnly(R) /\ Len(R) = n.sequence
  BY DEF CampaignTells, HistoryTells, Tells
<1>2. Entries = Elements(n.entries)
  BY DEF Entries, Elements
<1>3. \A e : Raises(e) = RaisesOf(R, e)
  BY DEF Raises, RaisesOf
<1>4. ASSUME NEW e \in Entries
      PROVE  /\ e.id \in Raises(e) /\ e.sequence \in Raises(e)
             /\ e.count = Cardinality(Raises(e))
             /\ e.amount = IF Definition[e.key[1]].adds
                           THEN MapThenSumSet(LAMBDA k : campaign.raises[k].amount, Raises(e))
                           ELSE campaign.raises[e.sequence].amount
  <2>1. EntryTells(e, R, campaign.now)
    BY <1>1, <1>2 DEF Account
  <2>2. MapThenSumSet(LAMBDA k : campaign.raises[k].amount, Raises(e)) = Amounts(R, Raises(e))
    BY DEF Amounts
  <2> QED BY <1>3, <2>1, <2>2 DEF EntryTells
<1>5. ASSUME NEW e \in Entries, NEW f \in Entries, f.key = e.key, f.id > e.id
      PROVE  /\ f.id > e.sequence
             /\ Definition[e.key[1]].window = 0 \/ f.firstAt - e.lastAt > Definition[e.key[1]].window
  <2>1. /\ e.id \in Nat /\ f.id \in Nat /\ e.sequence \in Nat /\ f.sequence \in Nat
    BY <1>1, <1>2 DEF NoticesOk, EntryOk
  <2>2. f.id <= f.sequence /\ e.id <= e.sequence
    <3>1. EntryTells(e, R, campaign.now) /\ EntryTells(f, R, campaign.now)
      BY <1>1, <1>2 DEF Account
    <3>2. e.id \in RaisesOf(R, e) /\ f.id \in RaisesOf(R, f)
      BY <3>1 DEF EntryTells
    <3> QED BY <2>1, <3>2 DEF RaisesOf
  <2>3. Apart(e, f) /\ Apart(f, e)
    BY <1>1, <1>2 DEF Account
  <2>4. e.sequence # f.sequence
    <3> SUFFICES ASSUME e.sequence = f.sequence PROVE FALSE
      OBVIOUS
    <3>1. n.entries \in Seq(Elements(n.entries)) /\ Sorted(n.entries) /\ Numbered(n.entries)
      BY <1>1 DEF NoticesOk, EntryOk, Account, Numbered
    <3>2. e = f
      BY <1>2, <3>1, OneOfNumber
    <3> QED BY <1>5, <2>1, <3>2
  <2>5. e.sequence < f.sequence
    <3>1. CASE f.sequence < e.sequence
      <4>1. e.id > f.sequence
        BY <1>5, <2>3, <3>1 DEF Apart
      <4> QED BY <1>5, <2>1, <2>2, <4>1
    <3> QED BY <2>1, <2>4, <3>1
  <2> QED BY <1>5, <2>3, <2>5 DEF Apart
<1>6. ASSUME NEW k \in DOMAIN R, NEW x \in Entries, x.sequence <= k
      PROVE  \E e \in Entries : k \in Raises(e)
  BY <1>1, <1>2, <1>3, <1>6 DEF Account, Covered
<1>7. ValidNotifications(campaign) /\ ValidOnboarding(campaign)
  BY TellsIsValid
<1>8. \A i, j \in DOMAIN R :
        i < j /\ R[i].key = R[j].key /\ R[i].visit = R[j].visit => ~Definition[R[i].key[1]].once
  BY <1>1 DEF OnceOnly
<1> QED BY <1>1, <1>4, <1>5, <1>6, <1>7, <1>8 DEF LogTellsWhatHappened

LEMMA TellsGuidance ==
  ASSUME ToldInv
  PROVE  GuidanceKeepsUp
<1> DEFINE steps == campaign.guide.steps
           told(id) == {k \in DOMAIN campaign.raises : campaign.raises[k].key[2] = id}
<1>1. GuideOk(campaign)
  BY DEF ToldInv, CampaignTells
<1>2. \A id : told(id) = ToldOf(campaign.raises, id)
  BY DEF ToldOf
<1>3. Recorded(campaign.guide) = DOMAIN steps
  BY DEF Recorded
<1>4. ASSUME observed # Nothing, NEW i \in DOMAIN Steps
      PROVE  ~(StepOpen(campaign.guide, Steps[i]) /\ Satisfied(Steps[i], campaign, observed))
  BY <1>4 DEF ToldInv, KeptUp
<1>5. ASSUME NEW i \in DOMAIN Steps, Steps[i].id \in DOMAIN steps
      PROVE  /\ steps[Steps[i].id].outcome = "completed" =>
                  \A r \in Steps[i].requires : r \in DOMAIN steps /\ steps[r].at <= steps[Steps[i].id].at
             /\ Cardinality(told(Steps[i].id)) =
                  IF steps[Steps[i].id].outcome = "completed" /\ steps[Steps[i].id].shown THEN 1 ELSE 0
  <2> DEFINE id == Steps[i].id
  <2>1. steps[id].outcome = "completed" =>
          \A r \in Steps[i].requires : r \in DOMAIN steps /\ steps[r].at <= steps[id].at
    BY <1>1, <1>3, <1>5 DEF GuideOk, RecordedOk
  <2>2. id \in StepIds
    BY DEF StepIds
  <2>3. ToldOk(campaign, id)
    BY <1>1, <2>2 DEF GuideOk
  <2>4. CASE steps[id].outcome = "completed" /\ steps[id].shown
    <3>1. WasShown(campaign, id)
      BY <1>3, <1>5, <2>4 DEF WasShown
    <3>2. PICK k : ToldOf(campaign.raises, id) = {k}
      BY <2>3, <3>1 DEF ToldOk, ToldOnce
    <3>3. Cardinality(told(id)) = 1
      <4>1. Cardinality({k}) = 1
        BY FS_Singleton
      <4> QED BY <1>2, <3>2, <4>1
    <3> HIDE DEF told, steps
    <3> QED BY <2>1, <2>4, <3>3
  <2>5. CASE ~(steps[id].outcome = "completed" /\ steps[id].shown)
    <3>1. ~WasShown(campaign, id)
      BY <2>5 DEF WasShown
    <3>2. ToldOf(campaign.raises, id) = {}
      BY <2>3, <3>1 DEF ToldOk, Unheard
    <3>3. Cardinality(told(id)) = 0
      BY <1>2, <3>2, FS_EmptySet
    <3> HIDE DEF told, steps
    <3> QED BY <2>1, <2>5, <3>3
  <2> QED BY <2>4, <2>5
<1> QED BY <1>4, <1>5 DEF GuidanceKeepsUp

-----------------------------------------------------------------------------
(* The theorems. *)

\* The page, its center and the history the engine keeps are always as
\* described: what was read agrees with what is there, and the timer is set.
THEOREM InvariantHolds == Spec => []PageInv
<1>1. Init => PageInv
  BY Initially
<1>2. PageInv /\ [Next]_vars => PageInv'
  BY StepKeeps
<1> QED BY <1>1, <1>2, PTL DEF Spec

\* No toast is there beyond its time, however the timer, the focus, dismissals
\* and new toasts follow each other: the one timer of NotificationCenter is
\* always set for the first toast that may leave.
THEOREM NoneOverstays == Spec => []NoToastOverstays
<1>1. PageInv => NoToastOverstays
  <2> SUFFICES ASSUME PageInv PROVE NoToastOverstays
    OBVIOUS
  <2>1. world.now \in Nat /\ CenterOk(center, world.now, history.released)
    BY DEF PageInv, Shapes
  <2>2. OnTime(center, world.now, history.released)
    BY <2>1, TimedIsOnTime
  <2> QED BY <2>2 DEF OnTime, Unheld, NoToastOverstays
<1> QED BY <1>1, InvariantHolds, PTL

\* Whatever is raised, grouped, moved to the end and pushed out between two
\* readings, all that is new in what is read has been on a toast unless its
\* player hid such, and nothing from before the opening has.
THEOREM NoneIsMissed == Spec => []NothingIsMissed
<1>1. PageInv => NothingIsMissed
  BY DEF PageInv
<1> QED BY <1>1, InvariantHolds, PTL

\* Of what is new and to be heard, the most urgent level sounds, or sounded a
\* moment before.
THEOREM UrgentSounds == Spec => UrgentIsHeard
<1> DEFINE Heard ==
  (page.read # Nothing /\ page'.read # Nothing /\ page'.read # page.read /\ center.sound) =>
    \A e \in page'.read.entries : e.cue /\ e.sequence > page.read.sequence =>
      /\ center'.cue # Nothing /\ center'.cue.rank >= Rank[e.severity]
      /\ world.now - center'.cue.at < CueSpacing
<1>1. PageInv /\ [Next]_vars => Heard
  <2> SUFFICES ASSUME PageInv, [Next]_vars, Rereads, center.sound
               PROVE  \A e \in page'.read.entries : e.cue /\ e.sequence > page.read.sequence =>
                        /\ center'.cue # Nothing /\ center'.cue.rank >= Rank[e.severity]
                        /\ world.now - center'.cue.at < CueSpacing
    BY DEF Rereads
  <2>1. Read
    BY StepKeeps
  <2> QED BY <2>1, ReadKeeps DEF Rereads
<1> QED BY <1>1, InvariantHolds, PTL DEF Spec, UrgentIsHeard

\* The preferences in use and those stored are always as the program keeps
\* them, and as the player was told.
THEOREM PreferencesAreSettled == Spec => []DeskOk(desk)
<1>1. Init => DeskOk(desk)
  BY DeskInitially
<1>2. DeskOk(desk) /\ [Next]_vars => DeskOk(desk)'
  BY DeskKeeps
<1> QED BY <1>1, <1>2, PTL DEF Spec

\* The keys are what every message said they are, whatever was rebound, taken
\* from another action, restored, stored or not, and read again; the press that
\* asked for something had the key its action was told to have; and no key has
\* two actions: assignKey(), withoutDefaults() and resolveBindings() agree.
THEOREM KeysFollow == Spec => []KeysFollowThePlayer
<1>1. DeskOk(desk) => KeysFollowThePlayer
  <2> SUFFICES ASSUME DeskOk(desk) PROVE KeysFollowThePlayer
    OBVIOUS
  <2> DEFINE table == Keys(desk)
             bound == {a \in Remappable : table[a] # NoKey}
  <2>1. Settled(desk.preferences.bindings)
    BY DEF DeskOk, PreferencesOk, AreBindings
  <2>2. table = ResolveBindings(desk.preferences.bindings)
    BY DEF Keys
  <2> HIDE DEF table
  <2>3. Cardinality({table[a] : a \in bound}) = Cardinality(bound)
    BY <2>1, <2>2, KeysAreDistinct
  <2> QED BY <2>3 DEF DeskOk, KeysFollowThePlayer, table
<1> QED BY <1>1, PreferencesAreSettled, PTL

\* Whatever is published, grouped, pushed out, saved, left and opened again: the
\* history, the steps of the guidance and what was just observed are as described.
THEOREM CampaignIsTold == Spec => []ToldInv
<1>1. Init => ToldInv
  BY ToldInitially
<1>2. PageInv /\ ToldInv /\ [Next]_vars => ToldInv'
  BY ToldStep
<1> QED BY <1>1, <1>2, InvariantHolds, PTL DEF Spec

\* The history is an account of the raises: raiseNotification() counts, adds up
\* and groups what there was, nothing later than the oldest entry is missing,
\* forgetSite() and the memory of a site tell once what is to be told once, and
\* what is committed or saved passes the checks of loading.
THEOREM LogTells == Spec => []LogTellsWhatHappened
<1>1. ToldInv => LogTellsWhatHappened
  BY TellsLog DEF ToldInv
<1> QED BY <1>1, CampaignIsTold, PTL

\* advanceGuidance() leaves no open step that its transaction satisfied, though
\* it visits the steps in one order and as often as there are steps; a step is
\* recorded after all it requires; and each completion is told once, if the
\* guidance was shown, whatever happened between.
THEOREM GuidanceKeeps == Spec => []GuidanceKeepsUp
<1>1. ToldInv => GuidanceKeepsUp
  BY TellsGuidance
<1> QED BY <1>1, CampaignIsTold, PTL

=============================================================================
