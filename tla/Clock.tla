-------------------------------- MODULE Clock --------------------------------
(***************************************************************************)
(* The authoritative clock and its quantum loop.  A delivered delta is     *)
(* capped, scaled and accumulated; each whole quantum is resolved through  *)
(* the boundaries due in it.  The loop is taken apart into its steps: a    *)
(* pass of the continuous systems over an interval, the move of time, the  *)
(* taking of a boundary, its resolver, and the pass without duration that  *)
(* closes the batch of one instant.                                        *)
(*                                                                         *)
(* Resolvers, systems and commands are the environment: while one runs it  *)
(* may schedule and cancel boundaries.  A resolver may stage an effect,    *)
(* such as a ship left without hull, that the next pass finalizes.         *)
(***************************************************************************)
EXTENDS BoundaryQueue

CONSTANTS
  Quantum,        \* rules.time.simulationQuantumMs
  MaxFrameDelta,  \* rules.time.maxFrameDeltaMs
  Deltas,         \* the elapsed real times the interface delivers
  Rates,          \* the time rates that can be selected
  MaxBoundaries,  \* MAX_BOUNDARIES_PER_QUANTUM
  NoEntry         \* no boundary is being resolved

ASSUME QuantumAssumption == Quantum \in Nat \ {0} /\ MaxFrameDelta \in Nat
ASSUME DeltaAssumption == Deltas \subseteq Nat /\ Rates \subseteq Nat \ {0} /\ Rates # {}
ASSUME LimitAssumption == MaxBoundaries \in Nat \ {0}
ASSUME NoEntryAssumption == NoEntry \notin Entry

VARIABLES
  accumulatorMs,  \* time.accumulatorMs
  paused,         \* time.paused
  rate,           \* time.rate
  stage,          \* where in the loop the clock is
  target,         \* targetMs: the end of the quantum being resolved
  stepEnd,        \* the end of the interval being passed
  resolved,       \* boundaries resolved in this quantum
  current,        \* the boundary whose resolver runs
  staged,         \* an effect waits to be finalized
  accepted,       \* history: simulation time the deltas were worth
  done,           \* history: the ordinals of resolved boundaries
  cancelled,      \* history: the ordinals of cancelled boundaries
  cut             \* history: a quantum was cut short at the limit

loopVars    == <<stage, target, stepEnd, resolved, current>>
settingVars == <<accumulatorMs, paused, rate>>
history     == <<accepted, done, cancelled, cut>>
vars        == <<queueVars, settingVars, loopVars, staged, history>>

\* idle: between requests; head: the loop's condition; interval: systems run
\* over the interval; take: time has moved; resolve: a resolver runs;
\* settle: systems run without duration.
Stages == {"idle", "head", "interval", "take", "resolve", "settle"}

HasDue(time) == \E e \in entries : e.dueAtMs = time

\* nextBoundary() is due at a time: the earliest of what is queued is.
NextIsDueAt(time) == HasDue(time) /\ \A e \in entries : e.dueAtMs >= time

-----------------------------------------------------------------------------
(* The environment. *)

\* The earliest instant whoever runs now may schedule work for.  A resolver
\* may ask for this very instant, as an encounter does for its first decisions.
\* The systems schedule cycles, reloads and expiries, which last at least a
\* millisecond; over an interval they run before time moves, and the shipped
\* content has no delay as short as a quantum.
Earliest ==
  CASE stage = "interval" -> stepEnd + 1
    [] stage = "settle"   -> simulationTimeMs + 1
    [] OTHER              -> simulationTimeMs

Working == stage \in {"idle", "interval", "resolve", "settle"}

ScheduleWork(due, priority, owner) ==
  /\ Working
  /\ due >= Earliest
  /\ Schedule(due, priority, owner)
  /\ UNCHANGED <<simulationTimeMs, settingVars, loopVars, staged, history>>

CancelWork(ordinals) ==
  /\ Working
  /\ Cancel({e \in entries : e.insertionOrdinal \in ordinals})
  /\ cancelled' = cancelled \cup
                  {e.insertionOrdinal : e \in {f \in entries : f.insertionOrdinal \in ordinals}}
  /\ UNCHANGED <<simulationTimeMs, settingVars, loopVars, staged, accepted, done, cut>>

\* time.set: refused for a rate the rules do not list, ignored when nothing changes.
SetTime(pause, newRate) ==
  /\ stage = "idle"
  /\ paused # pause \/ rate # newRate
  /\ paused' = pause
  /\ rate' = newRate
  /\ UNCHANGED <<queueVars, accumulatorMs, loopVars, staged, history>>

-----------------------------------------------------------------------------
(* advanceTime(). *)

Least(a, b) == IF a < b THEN a ELSE b

\* A delta is delivered: nothing happens while paused or for no time at all.
Advance(delta) ==
  /\ stage = "idle"
  /\ ~paused
  /\ Least(delta, MaxFrameDelta) > 0
  /\ simulationTimeMs + accumulatorMs + Least(delta, MaxFrameDelta) * rate <= MaxDue
  /\ accumulatorMs' = accumulatorMs + Least(delta, MaxFrameDelta) * rate
  /\ accepted' = accepted + Least(delta, MaxFrameDelta) * rate
  /\ IF accumulatorMs' >= Quantum
     THEN /\ stage' = "head"
          /\ target' = simulationTimeMs + Quantum
     ELSE UNCHANGED <<stage, target>>
  /\ UNCHANGED <<queueVars, paused, rate, stepEnd, resolved, current, staged,
                 done, cancelled, cut>>

\* resolveThrough() returns: the quantum is taken off the accumulator and the
\* next one begins, or the request is over.
FinishQuantum ==
  /\ accumulatorMs' = accumulatorMs - Quantum
  /\ resolved' = 0
  /\ current' = NoEntry
  /\ IF accumulatorMs' >= Quantum
     THEN stage' = "head" /\ target' = simulationTimeMs + Quantum
     ELSE stage' = "idle" /\ UNCHANGED target

\* Wrong on purpose: steps to the edge of the quantum at once.
BeginStepAtEdge ==
  /\ stage = "head"
  /\ IF simulationTimeMs < target \/ NextIsDueAt(target)
     THEN /\ stepEnd' = target
          /\ stage' = IF target > simulationTimeMs THEN "interval" ELSE "take"
          /\ UNCHANGED <<accumulatorMs, target, resolved, current>>
     ELSE FinishQuantum /\ UNCHANGED stepEnd
  /\ UNCHANGED <<queueVars, paused, rate, staged, history>>

\* The head of the loop: how far the next step goes.
BeginStep ==
  /\ stage = "head"
  /\ IF simulationTimeMs < target \/ NextIsDueAt(target)
     THEN /\ \/ \E e \in entries : NextIsDueAt(e.dueAtMs) /\ stepEnd' = Least(e.dueAtMs, target)
             \/ entries = {} /\ stepEnd' = target
          /\ stage' = IF stepEnd' > simulationTimeMs THEN "interval" ELSE "take"
          /\ UNCHANGED <<accumulatorMs, target, resolved, current>>
     ELSE FinishQuantum /\ UNCHANGED stepEnd
  /\ UNCHANGED <<queueVars, paused, rate, staged, history>>

\* The continuous systems are done with the interval; time moves to its end.
EndInterval ==
  /\ stage = "interval"
  /\ simulationTimeMs' = stepEnd
  /\ stage' = "take"
  /\ staged' = FALSE
  /\ UNCHANGED <<entries, nextInsertionOrdinal, settingVars, target, stepEnd,
                 resolved, current, history>>

\* Nothing is due: the quantum is over, or the loop goes on.
TakeNothing ==
  /\ stage = "take"
  /\ \A e \in entries : e.dueAtMs > stepEnd
  /\ IF stepEnd >= target
     THEN FinishQuantum
     ELSE stage' = "head" /\ UNCHANGED <<accumulatorMs, target, resolved, current>>
  /\ UNCHANGED <<queueVars, paused, rate, stepEnd, staged, history>>

\* The next boundary is taken and given to its resolver, unless the quantum
\* has resolved as many as it may: then it has been taken all the same, and
\* the quantum is over.
TakeBoundary(e) ==
  /\ stage = "take"
  /\ IsNext(e, entries)
  /\ e.dueAtMs <= stepEnd
  /\ entries' = entries \ {e}
  /\ IF resolved >= MaxBoundaries
     THEN /\ FinishQuantum
          /\ cut' = TRUE
          /\ UNCHANGED <<simulationTimeMs, done>>
     ELSE /\ simulationTimeMs' = e.dueAtMs
          /\ stage' = "resolve"
          /\ current' = e
          /\ done' = done \cup {e.insertionOrdinal}
          /\ UNCHANGED <<accumulatorMs, target, resolved, cut>>
  /\ UNCHANGED <<nextInsertionOrdinal, paused, rate, stepEnd, staged, accepted, cancelled>>

\* Wrong on purpose: systems settle after every boundary.
EndResolveEach ==
  /\ stage = "resolve"
  /\ \E effect \in BOOLEAN : staged' = (staged \/ effect)
  /\ stage' = "settle"
  /\ resolved' = resolved
  /\ UNCHANGED <<queueVars, settingVars, target, stepEnd, current, history>>

\* The resolver returns.  When the next boundary is not due at the same
\* instant, the batch is complete and the systems settle it.
EndResolve ==
  /\ stage = "resolve"
  /\ \E effect \in BOOLEAN : staged' = (staged \/ effect)
  /\ IF NextIsDueAt(current.dueAtMs)
     THEN stage' = "head" /\ resolved' = resolved + 1
     ELSE stage' = "settle" /\ resolved' = resolved
  /\ UNCHANGED <<queueVars, settingVars, target, stepEnd, current, history>>

\* The pass without duration is over.
EndSettle ==
  /\ stage = "settle"
  /\ staged' = FALSE
  /\ stage' = "head"
  /\ resolved' = resolved + 1
  /\ UNCHANGED <<queueVars, settingVars, target, stepEnd, current, history>>

-----------------------------------------------------------------------------
Init ==
  /\ QueueInit
  /\ accumulatorMs = 0
  /\ paused = TRUE
  /\ rate \in Rates /\ \A r \in Rates : rate <= r
  /\ stage = "idle"
  /\ target = 0
  /\ stepEnd = 0
  /\ resolved = 0
  /\ current = NoEntry
  /\ staged = FALSE
  /\ accepted = 0
  /\ done = {}
  /\ cancelled = {}
  /\ cut = FALSE

Next ==
  \/ \E due \in 0..MaxDue, p \in Priorities, o \in Owners \cup {NoOwner} :
       ScheduleWork(due, p, o)
  \/ \E ordinal \in 1..MaxOrdinal : CancelWork({ordinal})
  \/ \E o \in Owners :
       CancelWork({e.insertionOrdinal : e \in {f \in entries : f.ownerId = o}})
  \/ \E pause \in BOOLEAN, r \in Rates : SetTime(pause, r)
  \/ \E delta \in Deltas : Advance(delta)
  \/ BeginStep
  \/ EndInterval
  \/ TakeNothing
  \/ \E e \in entries : TakeBoundary(e)
  \/ EndResolve
  \/ EndSettle

Spec == Init /\ [][Next]_vars

-----------------------------------------------------------------------------
(* Properties. *)

TypeOK ==
  /\ simulationTimeMs \in Nat
  /\ entries \subseteq Entry
  /\ nextInsertionOrdinal \in Nat \ {0}
  /\ accumulatorMs \in Nat
  /\ paused \in BOOLEAN
  /\ rate \in Rates
  /\ stage \in Stages
  /\ target \in Nat
  /\ stepEnd \in Nat
  /\ resolved \in Nat
  /\ current \in Entry \cup {NoEntry}
  /\ staged \in BOOLEAN
  /\ accepted \in Nat
  /\ done \subseteq Nat
  /\ cancelled \subseteq Nat
  /\ cut \in BOOLEAN

Ordinals == {e.insertionOrdinal : e \in entries}

\* No queued boundary lies in the past, at any point of the loop: otherwise it
\* would be resolved late and, as its instant becomes the simulation time,
\* would turn time back.
NothingIsOverdue == \A e \in entries : e.dueAtMs >= simulationTimeMs

\* Each piece of work ever scheduled is queued, was resolved or was cancelled,
\* and only one of them: nothing is resolved twice, nothing is lost, as long
\* as no quantum was cut short at the limit.
WorkIsAccountedFor ==
  /\ Ordinals \cap done = {}
  /\ Ordinals \cap cancelled = {}
  /\ done \cap cancelled = {}
  /\ ~cut => 1..(nextInsertionOrdinal - 1) = Ordinals \cup done \cup cancelled

\* Time is neither lost nor gained between deltas: what was accepted has been
\* simulated or is still accumulated, below a whole quantum.
TimeIsKept ==
  stage = "idle" /\ ~cut =>
    simulationTimeMs + accumulatorMs = accepted /\ accumulatorMs < Quantum

\* An effect that a resolver stages is finalized at its own instant: it is
\* never left when the request is over, nor while time is about to move.
EffectsAreSettled == staged /\ ~cut => stage \in {"head", "take", "resolve", "settle"}

\* Effects are finalized only after every completion already committed for
\* their instant has resolved.
BatchResolvesWhole == [][staged /\ ~staged' => ~HasDue(simulationTimeMs)]_vars

\* A quantum ends only when simulation time has reached its end and everything
\* due by then is resolved, unless it is cut short at the limit.
QuantaAreWhole ==
  [][accumulatorMs' < accumulatorMs /\ ~cut' =>
       /\ simulationTimeMs = target
       /\ \A e \in entries : e.dueAtMs > target]_vars

\* The clock drives the queue as BoundaryQueue promises: boundaries are taken
\* in order, each at the instant it is due, and time never turns back.
DrivesBoundaryQueue == QueueSpec

(* Why: the loop never steps over a queued boundary, and accounts for every *)
(* millisecond as it goes.                                                  *)

\* 1. Ordinals are handed out once.
OrdinalsAreApart ==
  /\ \A e, f \in entries : e.insertionOrdinal = f.insertionOrdinal => e = f
  /\ Ordinals \cup done \cup cancelled \subseteq 1..(nextInsertionOrdinal - 1)

\* 2. Where time stands at each stage of the loop.
LoopIsInStep ==
  /\ stage \in {"interval", "take", "resolve", "settle"} => stepEnd <= target
  /\ stage = "interval" =>
       simulationTimeMs < stepEnd /\ \A e \in entries : e.dueAtMs >= stepEnd
  /\ stage \in {"take", "resolve", "settle"} => simulationTimeMs = stepEnd
  /\ stage \in {"resolve", "settle"} =>
       current \in Entry /\ current.dueAtMs = simulationTimeMs
  /\ stage = "settle" => ~HasDue(simulationTimeMs)
  /\ stage \in {"head", "take"} /\ staged /\ ~cut => HasDue(simulationTimeMs)
  /\ stage # "idle" => simulationTimeMs <= target

\* 3. What the accumulator holds is still to be simulated.
TimeIsBudgeted ==
  /\ stage = "idle" => simulationTimeMs + accumulatorMs <= MaxDue
  /\ stage # "idle" => /\ accumulatorMs >= Quantum
                       /\ target + accumulatorMs - Quantum <= MaxDue
                       /\ ~cut => target + accumulatorMs - Quantum = accepted

\* The inductive invariant the proofs use.
ClockInv ==
  /\ NothingIsOverdue
  /\ WorkIsAccountedFor
  /\ TimeIsKept
  /\ EffectsAreSettled
  /\ OrdinalsAreApart
  /\ LoopIsInStep
  /\ TimeIsBudgeted

\* "Remaining entries stay queued rather than hanging the worker": what the
\* comment on the limit says of the entries a quantum has no room for.
RemainingStayQueued ==
  [][cut' # cut => entries' = entries]_vars

=============================================================================
