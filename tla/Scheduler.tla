------------------------------ MODULE Scheduler ------------------------------
(***************************************************************************)
(* The scheduler of the campaign state as the code keeps it: a list that a *)
(* binary search keeps sorted on insertion, so that the next boundary is   *)
(* its head and a save stores the resolution order itself.  It is shown to *)
(* implement BoundaryQueue, on which the clock's model is built.           *)
(***************************************************************************)
EXTENDS Integers, Sequences, FiniteSets

CONSTANTS Owners, NoOwner, Priorities, MaxDue, MaxOrdinal

\* What the theorems assume of the constants.
SchedulerAssumption == Priorities \subseteq Int /\ MaxDue \in Nat /\ MaxOrdinal \in Nat

VARIABLES
  simulationTimeMs,
  queue,                \* scheduler.entries, in resolution order
  nextInsertionOrdinal

vars == <<simulationTimeMs, queue, nextInsertionOrdinal>>

QueueSet == {queue[i] : i \in DOMAIN queue}

Queue == INSTANCE BoundaryQueue WITH entries <- QueueSet

-----------------------------------------------------------------------------
\* compareSchedulerEntries(a, b) <= 0.
AtMost(a, b) == a = b \/ Queue!Before(a, b)

\* The loop of insertionIndex(): low and high close in on the first entry that
\* comes after the new one.
Narrowed(entries, entry, from) ==
  LET bounds == 0..Len(entries)
      search[range \in bounds \X bounds] ==
        LET low == range[1]
            high == range[2]
            middle == (low + high) \div 2
        IN  IF low < high
            THEN IF AtMost(entries[middle + 1], entry)
                 THEN search[<<middle + 1, high>>]
                 ELSE search[<<low, middle>>]
            ELSE low
  IN  search[from]

\* insertionIndex(): how many entries stay before the new one.
InsertionIndex(entries, entry) == Narrowed(entries, entry, <<0, Len(entries)>>)

Spliced(entries, index, entry) ==
  SubSeq(entries, 1, index) \o <<entry>> \o SubSeq(entries, index + 1, Len(entries))

\* scheduleBoundary(), which refuses a time in the past.
ScheduleBoundary(due, priority, owner) ==
  /\ nextInsertionOrdinal <= MaxOrdinal
  /\ due >= simulationTimeMs
  /\ LET entry == Queue!NewEntry(due, priority, owner)
     IN  queue' = Spliced(queue, InsertionIndex(queue, entry), entry)
  /\ nextInsertionOrdinal' = nextInsertionOrdinal + 1
  /\ UNCHANGED simulationTimeMs

\* cancelBoundary(): the first entry with the id, which an ordinal stands for.
CancelBoundary(ordinal) ==
  /\ \E index \in DOMAIN queue :
       /\ queue[index].insertionOrdinal = ordinal
       /\ \A i \in 1..(index - 1) : queue[i].insertionOrdinal # ordinal
       /\ queue' = SubSeq(queue, 1, index - 1) \o SubSeq(queue, index + 1, Len(queue))
  /\ UNCHANGED <<simulationTimeMs, nextInsertionOrdinal>>

\* The filter of cancelBoundariesOwnedBy(): what others own, in its order.
KeptFrom(entries, owner) ==
  LET kept[n \in 0..Len(entries)] ==
        IF n = 0 THEN <<>>
        ELSE IF entries[n].ownerId = owner THEN kept[n - 1]
             ELSE Append(kept[n - 1], entries[n])
  IN  kept[Len(entries)]

CancelBoundariesOwnedBy(owner) ==
  /\ \E i \in DOMAIN queue : queue[i].ownerId = owner
  /\ queue' = KeptFrom(queue, owner)
  /\ UNCHANGED <<simulationTimeMs, nextInsertionOrdinal>>

\* takeBoundaryDue(): the head, when it is due.
TakeBoundaryDue ==
  /\ queue # <<>>
  /\ Head(queue).dueAtMs <= simulationTimeMs
  /\ queue' = Tail(queue)
  /\ UNCHANGED <<simulationTimeMs, nextInsertionOrdinal>>

\* resolveThrough() moves time to the head's instant or, when that is later,
\* to the end of the quantum.
Elapse(to) ==
  /\ simulationTimeMs < to
  /\ queue # <<>> => to <= Head(queue).dueAtMs
  /\ simulationTimeMs' = to
  /\ UNCHANGED <<queue, nextInsertionOrdinal>>

Init ==
  /\ simulationTimeMs = 0
  /\ queue = <<>>
  /\ nextInsertionOrdinal = 1

Next ==
  \/ \E due \in 0..MaxDue, p \in Priorities, o \in Owners \cup {NoOwner} :
       ScheduleBoundary(due, p, o)
  \/ \E ordinal \in 1..MaxOrdinal : CancelBoundary(ordinal)
  \/ \E o \in Owners : CancelBoundariesOwnedBy(o)
  \/ TakeBoundaryDue
  \/ \E to \in 0..MaxDue : Elapse(to)

Spec == Init /\ [][Next]_vars

-----------------------------------------------------------------------------
TypeOK ==
  /\ simulationTimeMs \in 0..MaxDue
  /\ queue \in Seq(Queue!Entry)
  /\ nextInsertionOrdinal \in 1..(MaxOrdinal + 1)
  /\ \A i \in DOMAIN queue : queue[i].insertionOrdinal < nextInsertionOrdinal

\* The stored order is the resolution order (scheduler.ts:14-17).
InResolutionOrder(entries) ==
  \A i, j \in DOMAIN entries : i < j => Queue!Before(entries[i], entries[j])

\* The inductive invariant: the list is sorted, and nothing on it is past.
SchedulerInv ==
  /\ TypeOK
  /\ InResolutionOrder(queue)
  /\ \A i \in DOMAIN queue : queue[i].dueAtMs >= simulationTimeMs

\* The list behaves as the abstract queue: in particular the boundary taken is
\* the first of all that are queued, at the instant it is due, and no instant
\* with work on it is passed.
ImplementsBoundaryQueue == Queue!QueueSpec

=============================================================================
