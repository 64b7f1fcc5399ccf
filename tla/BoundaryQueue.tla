---------------------------- MODULE BoundaryQueue ----------------------------
(***************************************************************************)
(* What the simulation is promised about long-duration work: every piece   *)
(* of it is a boundary due at an instant of simulation time, boundaries    *)
(* are taken in one total order, at the instant they are due, and time     *)
(* never passes one that is still queued.                                  *)
(*                                                                         *)
(* A boundary is the entry's due time, priority, insertion ordinal and     *)
(* owner.  Its entry id and its kind are left out: an id is allocated with *)
(* every ordinal, so the two tell the same entries apart.                  *)
(***************************************************************************)
EXTENDS Integers, FiniteSets

CONSTANTS
  Owners,       \* the entities work belongs to
  NoOwner,      \* ownerId null: a world boundary
  Priorities,   \* event priorities in use
  MaxDue,       \* bound: the last instant modelled
  MaxOrdinal    \* bound: boundaries ever scheduled

ASSUME OwnerAssumption == NoOwner \notin Owners
ASSUME PriorityAssumption == Priorities \subseteq Int
ASSUME BoundAssumption == MaxDue \in Nat /\ MaxOrdinal \in Nat

VARIABLES
  simulationTimeMs,     \* time.simulationTimeMs
  entries,              \* the queued boundaries, as a set
  nextInsertionOrdinal  \* scheduler.nextInsertionOrdinal

queueVars == <<simulationTimeMs, entries, nextInsertionOrdinal>>

Entry == [dueAtMs : Nat, priority : Priorities, insertionOrdinal : Nat,
          ownerId : Owners \cup {NoOwner}]

\* compareSchedulerEntries(): due time, then priority, then ordinal.
Before(a, b) ==
  \/ a.dueAtMs < b.dueAtMs
  \/ a.dueAtMs = b.dueAtMs /\ a.priority < b.priority
  \/ a.dueAtMs = b.dueAtMs /\ a.priority = b.priority
     /\ a.insertionOrdinal < b.insertionOrdinal

\* nextBoundary(): the entry every other one comes after.
IsNext(e, queue) == e \in queue /\ \A f \in queue \ {e} : Before(e, f)

NewEntry(due, priority, owner) ==
  [dueAtMs |-> due, priority |-> priority,
   insertionOrdinal |-> nextInsertionOrdinal, ownerId |-> owner]

\* scheduleBoundary(), which refuses a time in the past.
Schedule(due, priority, owner) ==
  /\ nextInsertionOrdinal <= MaxOrdinal
  /\ due >= simulationTimeMs
  /\ entries' = entries \cup {NewEntry(due, priority, owner)}
  /\ nextInsertionOrdinal' = nextInsertionOrdinal + 1

\* cancelBoundary() of one entry, cancelBoundariesOwnedBy() of several.
Cancel(cancelled) ==
  /\ cancelled # {}
  /\ cancelled \subseteq entries
  /\ entries' = entries \ cancelled
  /\ UNCHANGED nextInsertionOrdinal

\* takeBoundaryDue() of the boundary whose instant has come.
Take(e) ==
  /\ IsNext(e, entries)
  /\ e.dueAtMs = simulationTimeMs
  /\ entries' = entries \ {e}
  /\ UNCHANGED nextInsertionOrdinal

\* Simulation time moves on, at most to the next boundary.
Pass(to) ==
  /\ to > simulationTimeMs
  /\ \A e \in entries : e.dueAtMs >= to
  /\ simulationTimeMs' = to
  /\ UNCHANGED <<entries, nextInsertionOrdinal>>

QueueInit ==
  /\ simulationTimeMs = 0
  /\ entries = {}
  /\ nextInsertionOrdinal = 1

QueueNext ==
  \/ \E due \in 0..MaxDue, p \in Priorities, o \in Owners \cup {NoOwner} :
       Schedule(due, p, o) /\ UNCHANGED simulationTimeMs
  \/ \E c \in SUBSET entries : Cancel(c) /\ UNCHANGED simulationTimeMs
  \/ \E e \in entries : Take(e) /\ UNCHANGED simulationTimeMs
  \/ \E to \in 0..MaxDue : Pass(to)

QueueSpec == QueueInit /\ [][QueueNext]_queueVars

=============================================================================
