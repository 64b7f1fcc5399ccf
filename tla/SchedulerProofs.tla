--------------------------- MODULE SchedulerProofs ---------------------------
(***************************************************************************)
(* Theorems about Scheduler: the binary search of insertionIndex() finds   *)
(* the place of a new boundary in any sorted list, the list stays sorted,  *)
(* and it implements BoundaryQueue, for every number of boundaries.        *)
(*                                                                         *)
(* The search and the filter are recursive functions.  What they compute   *)
(* is proved by the least counterexample (LeastExists), which needs no     *)
(* induction rule with a predicate as its parameter.                       *)
(***************************************************************************)
EXTENDS Scheduler, FiniteSetTheorems, WellFoundedInduction, SequenceTheorems, TLAPS

-----------------------------------------------------------------------------
\* Every inhabited set of natural numbers has a least element: the intervals up
\* to its elements have a least one, for finite sets are well founded.
LEMMA LeastExists ==
  ASSUME NEW T, T \subseteq Nat, T # {}
  PROVE  \E x \in T : \A y \in T : x <= y
<1> DEFINE upTo(n) == 1..n
           I == {upTo(n) : n \in T}
<1>1. IsWellFoundedOn(StrictSubsetOrdering(Nat), FiniteSubsetsOf(Nat))
  BY FS_StrictSubsetOrderingWellFounded
<1>2. I \subseteq FiniteSubsetsOf(Nat)
  <2> SUFFICES ASSUME NEW n \in T PROVE upTo(n) \in FiniteSubsetsOf(Nat)
    OBVIOUS
  <2>1. IsFiniteSet(1..n)
    BY FS_Interval
  <2>2. 1..n \subseteq Nat
    OBVIOUS
  <2> QED BY <2>1, <2>2 DEF FiniteSubsetsOf
<1>3. I # {}
  OBVIOUS
<1>4. PICK X \in I : \A Y \in I : ~ <<Y, X>> \in StrictSubsetOrdering(Nat)
  BY <1>1, <1>2, <1>3, WFMin
<1>5. PICK x \in T : X = 1..x
  OBVIOUS
<1>6. ASSUME NEW y \in T, ~ (x <= y) PROVE FALSE
  <2>1. 1..y \in I OBVIOUS
  <2>2. 1..y \subseteq X /\ 1..y # X /\ X \subseteq Nat
    BY <1>5, <1>6
  <2> QED BY <2>1, <2>2, <1>4 DEF StrictSubsetOrdering
<1> QED BY <1>6

-----------------------------------------------------------------------------
\* compareSchedulerEntries() is a total order on entries of different ordinals.
LEMMA BeforeIsAnOrder ==
  ASSUME SchedulerAssumption,
         NEW a \in Queue!Entry, NEW b \in Queue!Entry, NEW c \in Queue!Entry
  PROVE  /\ ~ Queue!Before(a, a)
         /\ Queue!Before(a, b) => ~ Queue!Before(b, a)
         /\ Queue!Before(a, b) /\ Queue!Before(b, c) => Queue!Before(a, c)
         /\ a.insertionOrdinal # b.insertionOrdinal
            => Queue!Before(a, b) \/ Queue!Before(b, a)
         /\ Queue!Before(a, b) => a.dueAtMs <= b.dueAtMs
<1>1. /\ a.dueAtMs \in Int /\ b.dueAtMs \in Int /\ c.dueAtMs \in Int
      /\ a.priority \in Int /\ b.priority \in Int /\ c.priority \in Int
      /\ a.insertionOrdinal \in Int /\ b.insertionOrdinal \in Int
      /\ c.insertionOrdinal \in Int
  <2>1. a.dueAtMs \in Nat /\ b.dueAtMs \in Nat /\ c.dueAtMs \in Nat
        /\ a.insertionOrdinal \in Nat /\ b.insertionOrdinal \in Nat
        /\ c.insertionOrdinal \in Nat
    BY DEF Queue!Entry
  <2>2. a.priority \in Priorities /\ b.priority \in Priorities /\ c.priority \in Priorities
    BY DEF Queue!Entry
  <2>3. a.priority \in Int /\ b.priority \in Int /\ c.priority \in Int
    BY <2>2 DEF SchedulerAssumption
  <2> QED BY <2>1, <2>3
<1> QED BY <1>1 DEF Queue!Before

\* What the search is for: the first `place` entries are before the entry, and
\* the entry is before the others.
IsPlaceOf(place, entries, entry) ==
  /\ place \in 0..Len(entries)
  /\ \A i \in 1..place : Queue!Before(entries[i], entry)
  /\ \A i \in (place + 1)..Len(entries) : Queue!Before(entry, entries[i])

IsNewFor(entries, entry) ==
  \A i \in 1..Len(entries) : entries[i].insertionOrdinal # entry.insertionOrdinal

LEMMA PlaceExists ==
  ASSUME SchedulerAssumption,
         NEW entries \in Seq(Queue!Entry), NEW entry \in Queue!Entry,
         InResolutionOrder(entries), IsNewFor(entries, entry)
  PROVE  \E place : IsPlaceOf(place, entries, entry)
<1> DEFINE n == Len(entries)
           T == {p \in 0..n : p = n \/ Queue!Before(entry, entries[p + 1])}
<1>1. n \in Nat /\ DOMAIN entries = 1..n /\ \A i \in 1..n : entries[i] \in Queue!Entry
  BY LenProperties, ElementOfSeq
<1>2. n \in T /\ T \subseteq Nat
  BY <1>1
<1>3. PICK p \in T : \A q \in T : p <= q
  BY <1>2, LeastExists
<1>8. p \in 0..n
  OBVIOUS
<1>9. n \in Nat
  BY <1>1
<1>7. p = n \/ Queue!Before(entry, entries[p + 1])
  OBVIOUS
<1> HIDE DEF n, T
<1>4. p \in Nat /\ p <= n
  BY <1>8, <1>9
<1>5. ASSUME NEW i \in 1..p PROVE Queue!Before(entries[i], entry)
  <2>1. i - 1 \in 0..n /\ i - 1 # n /\ ~ p <= i - 1 /\ i \in 1..n
    BY <1>1, <1>4
  <2>2. ~ Queue!Before(entry, entries[i])
    BY <2>1, <1>3 DEF T
  <2> QED BY <2>1, <2>2, <1>1, BeforeIsAnOrder DEF IsNewFor
<1>6. ASSUME NEW i \in (p + 1)..n PROVE Queue!Before(entry, entries[i])
  <2> HIDE DEF T
  <2>1. p \in Nat /\ n \in Nat /\ i \in Int /\ p + 1 <= i /\ i <= n /\ p # n
    BY <1>1, <1>4
  <2>5. p + 1 \in 1..n /\ i \in 1..n
    BY <2>1
  <2>2. Queue!Before(entry, entries[p + 1])
    BY <1>7, <2>1
  <2>3. CASE i = p + 1
    BY <2>2, <2>3
  <2>4. CASE p + 1 < i
    <3>1. Queue!Before(entries[p + 1], entries[i])
      BY <2>5, <2>4, <1>1 DEF InResolutionOrder
    <3> QED BY <3>1, <2>5, <2>2, <1>1, BeforeIsAnOrder
  <2> QED BY <2>1, <2>3, <2>4
<1>10. /\ \A i \in 1..p : Queue!Before(entries[i], entry)
       /\ \A i \in (p + 1)..Len(entries) : Queue!Before(entry, entries[i])
  BY <1>5, <1>6 DEF n
<1>11. p \in 0..Len(entries)
  BY <1>8 DEF n
<1> QED BY <1>10, <1>11 DEF IsPlaceOf

\* At its place an entry divides the list as AtMost sees it.
LEMMA PlaceDivides ==
  ASSUME SchedulerAssumption,
         NEW entries \in Seq(Queue!Entry), NEW entry \in Queue!Entry,
         NEW place, IsPlaceOf(place, entries, entry),
         NEW i \in 1..Len(entries)
  PROVE  AtMost(entries[i], entry) <=> i <= place
<1>1. Len(entries) \in Nat /\ entries[i] \in Queue!Entry /\ place \in 0..Len(entries)
  BY LenProperties, ElementOfSeq DEF IsPlaceOf
<1>2. CASE i <= place
  BY <1>1, <1>2 DEF IsPlaceOf, AtMost
<1>3. CASE ~ i <= place
  <2>1. Queue!Before(entry, entries[i])
    BY <1>1, <1>3 DEF IsPlaceOf
  <2> QED BY <2>1, <1>1, <1>3, BeforeIsAnOrder DEF AtMost
<1> QED BY <1>2, <1>3

LEMMA MiddleLies ==
  ASSUME NEW low \in Nat, NEW high \in Nat, low < high
  PROVE  /\ (low + high) \div 2 \in Nat
         /\ low <= (low + high) \div 2
         /\ (low + high) \div 2 < high
OBVIOUS

\* The binary search returns the place of the entry.
LEMMA SearchFindsThePlace ==
  ASSUME SchedulerAssumption,
         NEW entries \in Seq(Queue!Entry), NEW entry \in Queue!Entry,
         NEW place, IsPlaceOf(place, entries, entry)
  PROVE  InsertionIndex(entries, entry) = place
<1> DEFINE L == Len(entries)
           bounds == 0..L
           below(m) == AtMost(entries[m + 1], entry)
           Body(g, range) ==
             IF range[1] < range[2]
             THEN IF AtMost(entries[(range[1] + range[2]) \div 2 + 1], entry)
                  THEN g[<<(range[1] + range[2]) \div 2 + 1, range[2]>>]
                  ELSE g[<<range[1], (range[1] + range[2]) \div 2>>]
             ELSE range[1]
           Solves(g) == g = [range \in bounds \X bounds |-> Body(g, range)]
           Clamp(low, high) ==
             IF low < high
             THEN IF place < low THEN low ELSE IF high < place THEN high ELSE place
             ELSE low
           G == [range \in bounds \X bounds |-> Clamp(range[1], range[2])]
           search == CHOOSE g : Solves(g)
<1>1. L \in Nat /\ place \in Nat /\ place <= L
  BY LenProperties DEF IsPlaceOf
<1>2. ASSUME NEW low \in bounds, NEW high \in bounds, low < high
      PROVE  /\ (low + high) \div 2 + 1 \in bounds
             /\ (low + high) \div 2 \in bounds
             /\ low <= (low + high) \div 2 /\ (low + high) \div 2 < high
             /\ AtMost(entries[(low + high) \div 2 + 1], entry) <=> (low + high) \div 2 < place
  <2> DEFINE middle == (low + high) \div 2
  <2>1. low \in Nat /\ high \in Nat /\ high <= L
    BY <1>1
  <2>2. middle \in Nat /\ low <= middle /\ middle < high
    BY <2>1, <1>2, MiddleLies
  <2> HIDE DEF middle
  <2>3. middle + 1 \in 1..L /\ middle \in bounds /\ middle + 1 \in bounds
    BY <2>1, <2>2, <1>1
  <2>4. AtMost(entries[middle + 1], entry) <=> middle + 1 <= place
    BY <2>3, PlaceDivides
  <2>5. middle + 1 <= place <=> middle < place
    BY <2>2, <1>1
  <2> QED BY <2>2, <2>3, <2>4, <2>5 DEF middle
<1>3. ASSUME NEW low \in bounds, NEW high \in bounds
      PROVE  Body(G, <<low, high>>) = Clamp(low, high)
  <2>1. low \in Nat /\ high \in Nat
    BY <1>1
  <2>2. \A a, b \in bounds : G[<<a, b>>] = Clamp(a, b)
    OBVIOUS
  <2> DEFINE middle == (low + high) \div 2
  <2> HIDE DEF G
  <2>3. CASE low < high
    <3>1. /\ middle + 1 \in bounds /\ middle \in bounds
          /\ low <= middle /\ middle < high /\ middle \in Nat
          /\ AtMost(entries[middle + 1], entry) <=> middle < place
      BY <2>3, <1>2, <1>1
    <3>2. Body(G, <<low, high>>) = IF middle < place THEN G[<<middle + 1, high>>]
                                   ELSE G[<<low, middle>>]
      BY <2>3, <3>1
    <3>3. Body(G, <<low, high>>) = IF middle < place THEN Clamp(middle + 1, high)
                                   ELSE Clamp(low, middle)
      BY <3>1, <3>2, <2>2
    <3> HIDE DEF middle
    <3>4. (IF middle < place THEN Clamp(middle + 1, high) ELSE Clamp(low, middle))
            = Clamp(low, high)
      BY <3>1, <2>1, <2>3, <1>1
    <3> QED BY <3>3, <3>4
  <2>4. CASE ~ low < high
    BY <2>4
  <2> QED BY <2>3, <2>4
<1>4. Solves(G)
  <2>1. ASSUME NEW range \in bounds \X bounds
        PROVE  Clamp(range[1], range[2]) = Body(G, range)
    <3>1. range = <<range[1], range[2]>> /\ range[1] \in bounds /\ range[2] \in bounds
      OBVIOUS
    <3> HIDE DEF G, Clamp, Body
    <3> QED BY <3>1, <1>3
  <2> HIDE DEF Clamp, Body
  <2> QED BY <2>1
<1>5. Solves(search)
  <2> HIDE DEF Solves
  <2> QED BY <1>4
<1>6. \A low, high \in bounds : search[<<low, high>>] = Body(search, <<low, high>>)
  <2> HIDE DEF search, Body
  <2> QED BY <1>5
<1> DEFINE Within(low, high) == low <= place /\ place <= high
           Missed == {d \in Nat : \E low, high \in bounds :
                        /\ Within(low, high) /\ high - low = d
                        /\ search[<<low, high>>] # place}
<1>7. Missed = {}
  <2> SUFFICES ASSUME Missed # {} PROVE FALSE
    OBVIOUS
  <2>1. PICK d \in Missed : \A e \in Missed : d <= e
    BY LeastExists
  <2>2. PICK low \in bounds, high \in bounds :
          Within(low, high) /\ high - low = d /\ search[<<low, high>>] # place
    BY <2>1
  <2>3. \A l, h \in bounds : Within(l, h) /\ h - l < d => search[<<l, h>>] = place
    <3> SUFFICES ASSUME NEW l \in bounds, NEW h \in bounds, Within(l, h), h - l < d,
                        search[<<l, h>>] # place
                 PROVE  FALSE
      OBVIOUS
    <3> HIDE DEF search
    <3>1. h - l \in Nat
      BY <1>1
    <3>2. h - l \in Missed
      BY <3>1
    <3>3. d \in Nat /\ d <= h - l
      BY <3>2, <2>1
    <3> QED BY <3>1, <3>3
  <2> HIDE DEF search, Missed
  <2>4. low \in Nat /\ high \in Nat /\ low <= place /\ place <= high
    BY <1>1, <2>2
  <2>5. CASE low < high
    <3> DEFINE middle == (low + high) \div 2
    <3>1. /\ middle + 1 \in bounds /\ middle \in bounds
          /\ low <= middle /\ middle < high /\ middle \in Nat
          /\ AtMost(entries[middle + 1], entry) <=> middle < place
      BY <2>5, <1>2, <1>1
    <3>2. search[<<low, high>>] = IF middle < place THEN search[<<middle + 1, high>>]
                                  ELSE search[<<low, middle>>]
      BY <2>5, <3>1, <1>6
    <3> HIDE DEF middle
    <3>3. CASE middle < place
      <4>1. Within(middle + 1, high) /\ high - (middle + 1) < d
        BY <3>1, <3>3, <2>2, <2>4, <1>1
      <4> QED BY <4>1, <3>1, <3>2, <3>3, <2>2, <2>3
    <3>4. CASE ~ middle < place
      <4>1. Within(low, middle) /\ middle - low < d
        BY <3>1, <3>4, <2>2, <2>4, <1>1
      <4> QED BY <4>1, <3>1, <3>2, <3>4, <2>2, <2>3
    <3> QED BY <3>3, <3>4
  <2>6. CASE ~ low < high
    <3>1. search[<<low, high>>] = low
      BY <2>6, <1>6
    <3>2. low = place
      BY <2>4, <2>6, <1>1
    <3> QED BY <3>1, <3>2, <2>2
  <2> QED BY <2>5, <2>6
<1>8. search[<<0, L>>] = place
  <2> HIDE DEF search
  <2>1. 0 \in bounds /\ L \in bounds /\ Within(0, L) /\ L - 0 \in Nat
    BY <1>1
  <2> QED BY <2>1, <1>7
<1>9. InsertionIndex(entries, entry) = search[<<0, L>>]
  BY DEF InsertionIndex, Narrowed
<1> QED BY <1>8, <1>9

-----------------------------------------------------------------------------
\* What the filter has kept of the first n entries: a list of entries that are
\* among them and not the owner's, all of those, in the order they had.
IsKeptOf(list, entries, owner, n) ==
  /\ list \in Seq(Queue!Entry)
  /\ \A i \in 1..Len(list) : \E j \in 1..n :
       list[i] = entries[j] /\ entries[j].ownerId # owner
  /\ \A j \in 1..n : entries[j].ownerId # owner
       => \E i \in 1..Len(list) : list[i] = entries[j]
  /\ InResolutionOrder(list)

\* Adding an entry that comes after all of a sorted list keeps it sorted.
LEMMA AppendKeepsOrder ==
  ASSUME NEW list \in Seq(Queue!Entry), NEW entry \in Queue!Entry,
         InResolutionOrder(list),
         \A i \in 1..Len(list) : Queue!Before(list[i], entry)
  PROVE  InResolutionOrder(Append(list, entry))
<1>1. /\ Len(list) \in Nat
      /\ Len(Append(list, entry)) = Len(list) + 1
      /\ DOMAIN Append(list, entry) = 1..(Len(list) + 1)
      /\ DOMAIN list = 1..Len(list)
      /\ \A i \in 1..Len(list) : Append(list, entry)[i] = list[i]
      /\ Append(list, entry)[Len(list) + 1] = entry
  BY AppendProperties, LenProperties
<1>2. SUFFICES ASSUME NEW i \in 1..(Len(list) + 1), NEW j \in 1..(Len(list) + 1), i < j
               PROVE  Queue!Before(Append(list, entry)[i], Append(list, entry)[j])
  BY <1>1 DEF InResolutionOrder
<1>3. i \in 1..Len(list)
  BY <1>1, <1>2
<1>4. CASE j = Len(list) + 1
  BY <1>1, <1>3, <1>4
<1>5. CASE j # Len(list) + 1
  <2>1. j \in 1..Len(list)
    BY <1>1, <1>5
  <2> QED BY <1>1, <1>2, <1>3, <2>1 DEF InResolutionOrder
<1> QED BY <1>4, <1>5

\* One step of the filter.
LEMMA KeptOfOneMore ==
  ASSUME NEW entries \in Seq(Queue!Entry), NEW owner, InResolutionOrder(entries),
         NEW n \in 1..Len(entries), NEW list, IsKeptOf(list, entries, owner, n - 1)
  PROVE  IsKeptOf(IF entries[n].ownerId = owner THEN list ELSE Append(list, entries[n]),
                  entries, owner, n)
<1>1. /\ Len(entries) \in Nat /\ n \in Nat /\ entries[n] \in Queue!Entry
      /\ DOMAIN entries = 1..Len(entries)
  BY LenProperties, ElementOfSeq
<1>2. list \in Seq(Queue!Entry) /\ Len(list) \in Nat
  BY LenProperties DEF IsKeptOf
<1>3. CASE entries[n].ownerId = owner
  <2>1. \A j \in 1..n : j \in 1..(n - 1) \/ j = n
    BY <1>1
  <2>2. \A j \in 1..(n - 1) : j \in 1..n
    BY <1>1
  <2> QED BY <2>1, <2>2, <1>3 DEF IsKeptOf
<1>4. CASE entries[n].ownerId # owner
  <2> DEFINE more == Append(list, entries[n])
  <2>1. /\ more \in Seq(Queue!Entry)
        /\ Len(more) = Len(list) + 1
        /\ \A i \in 1..Len(list) : more[i] = list[i]
        /\ more[Len(list) + 1] = entries[n]
    BY <1>1, <1>2, AppendProperties
  <2>2. \A i \in 1..Len(list) : Queue!Before(list[i], entries[n])
    <3> SUFFICES ASSUME NEW i \in 1..Len(list) PROVE Queue!Before(list[i], entries[n])
      OBVIOUS
    <3>1. PICK j \in 1..(n - 1) : list[i] = entries[j]
      BY DEF IsKeptOf
    <3>2. j \in 1..Len(entries) /\ j < n
      BY <1>1
    <3> QED BY <3>1, <3>2, <1>1 DEF InResolutionOrder
  <2>3. InResolutionOrder(more)
    BY <1>1, <1>2, <2>2, AppendKeepsOrder DEF IsKeptOf
  <2> HIDE DEF more
  <2>4. ASSUME NEW i \in 1..Len(more)
        PROVE  \E j \in 1..n : more[i] = entries[j] /\ entries[j].ownerId # owner
    <3>1. CASE i = Len(list) + 1
      BY <3>1, <2>1, <1>1, <1>4
    <3>2. CASE i # Len(list) + 1
      <4>1. i \in 1..Len(list)
        BY <3>2, <2>1, <1>2
      <4>2. PICK j \in 1..(n - 1) : list[i] = entries[j] /\ entries[j].ownerId # owner
        BY <4>1 DEF IsKeptOf
      <4>3. j \in 1..n
        BY <1>1
      <4> QED BY <4>1, <4>2, <4>3, <2>1
    <3> QED BY <3>1, <3>2
  <2>5. ASSUME NEW j \in 1..n, entries[j].ownerId # owner
        PROVE  \E i \in 1..Len(more) : more[i] = entries[j]
    <3>1. CASE j = n
      <4>1. Len(list) + 1 \in 1..Len(more)
        BY <2>1, <1>2
      <4> QED BY <4>1, <3>1, <2>1
    <3>2. CASE j # n
      <4>1. j \in 1..(n - 1)
        BY <3>2, <1>1
      <4>2. PICK i \in 1..Len(list) : list[i] = entries[j]
        BY <4>1, <2>5 DEF IsKeptOf
      <4>3. i \in 1..Len(more) /\ more[i] = list[i]
        BY <2>1, <1>2
      <4> QED BY <4>2, <4>3
    <3> QED BY <3>1, <3>2
  <2>6. IsKeptOf(more, entries, owner, n)
    BY <2>1, <2>3, <2>4, <2>5 DEF IsKeptOf
  <2> QED BY <2>6, <1>4 DEF more
<1> QED BY <1>3, <1>4

\* The recursive filter of a sorted list keeps what it should, and its order.
LEMMA FilterKeeps ==
  ASSUME NEW entries \in Seq(Queue!Entry), NEW owner, InResolutionOrder(entries)
  PROVE  IsKeptOf(KeptFrom(entries, owner), entries, owner, Len(entries))
<1> DEFINE L == Len(entries)
           Body(g, n) ==
             IF n = 0 THEN <<>>
             ELSE IF entries[n].ownerId = owner THEN g[n - 1]
                  ELSE Append(g[n - 1], entries[n])
           Solves(g, n) == g = [m \in 0..n |-> Body(g, m)]
           Unsolved == {n \in 0..L : ~ \E g : Solves(g, n)}
           kept == CHOOSE g : Solves(g, L)
           Wrong == {n \in 0..L : ~ IsKeptOf(kept[n], entries, owner, n)}
<1>1. L \in Nat
  BY LenProperties
<1>2. \E g : Solves(g, 0)
  <2> DEFINE g == [m \in 0..0 |-> <<>>]
  <2>1. Solves(g, 0)
    OBVIOUS
  <2> HIDE DEF g, Solves
  <2> QED BY <2>1
<1>3. ASSUME NEW n \in 1..L, NEW f, Solves(f, n - 1)
      PROVE  \E g : Solves(g, n)
  <2> DEFINE g == [m \in 0..n |-> IF m = n THEN Body(f, n) ELSE f[m]]
  <2>1. \A m \in 0..(n - 1) : g[m] = f[m] /\ f[m] = Body(f, m)
    <3> SUFFICES ASSUME NEW m \in 0..(n - 1) PROVE g[m] = f[m] /\ f[m] = Body(f, m)
      OBVIOUS
    <3>1. m \in 0..n /\ m # n
      BY <1>1
    <3>2. g[m] = f[m]
      <4> HIDE DEF Body
      <4> QED BY <3>1
    <3>3. f[m] = Body(f, m)
      <4> HIDE DEF g, Body
      <4> QED BY <1>3
    <3> QED BY <3>2, <3>3
  <2>2. ASSUME NEW m \in 0..n PROVE g[m] = Body(g, m)
    <3>1. CASE m = 0
      <4>1. 0 \in 0..(n - 1)
        BY <1>1
      <4>2. g[0] = <<>>
        BY <4>1, <2>1
      <4> QED BY <4>2, <3>1
    <3>2. CASE m # 0
      <4>1. m - 1 \in 0..(n - 1)
        BY <3>2, <1>1
      <4>2. g[m - 1] = f[m - 1]
        BY <4>1, <2>1
      <4>3. g[m] = Body(f, m)
        <5>1. CASE m = n
          BY <5>1
        <5>2. CASE m # n
          <6>1. m \in 0..(n - 1)
            BY <5>2, <1>1
          <6> HIDE DEF g
          <6> QED BY <6>1, <2>1
        <5> QED BY <5>1, <5>2
      <4> HIDE DEF g
      <4> QED BY <4>2, <4>3
    <3> QED BY <3>1, <3>2
  <2>3. g = [m \in 0..n |-> g[m]]
    OBVIOUS
  <2>4. Solves(g, n)
    <3> HIDE DEF g, Body
    <3> QED BY <2>2, <2>3
  <2> HIDE DEF g, Solves
  <2> QED BY <2>4
<1>4. \E g : Solves(g, L)
  <2> HIDE DEF Solves
  <2> SUFFICES ASSUME ~ \E g : Solves(g, L) PROVE FALSE
    OBVIOUS
  <2>1. L \in Unsolved /\ Unsolved \subseteq Nat
    BY <1>1
  <2>2. PICK n \in Unsolved : \A m \in Unsolved : n <= m
    BY <2>1, LeastExists
  <2>3. n # 0
    BY <1>2
  <2>4. n \in 1..L /\ n - 1 \in 0..L
    BY <2>3, <1>1
  <2>5. n - 1 \notin Unsolved
    <3> HIDE DEF Unsolved
    <3>1. ~ n <= n - 1
      BY <2>4, <1>1
    <3> QED BY <3>1, <2>2
  <2>6. PICK f : Solves(f, n - 1)
    BY <2>4, <2>5
  <2>7. \E g : Solves(g, n)
    BY <2>4, <2>6, <1>3
  <2> QED BY <2>7
<1>5. Solves(kept, L)
  <2> HIDE DEF Solves
  <2> QED BY <1>4
<1>6. \A n \in 0..L : kept[n] = Body(kept, n)
  <2> HIDE DEF kept, Body
  <2> QED BY <1>5
<1>7. Wrong = {}
  <2> SUFFICES ASSUME Wrong # {} PROVE FALSE
    OBVIOUS
  <2> HIDE DEF kept
  <2>1. Wrong \subseteq Nat
    BY <1>1
  <2>2. PICK n \in Wrong : \A m \in Wrong : n <= m
    BY <2>1, LeastExists
  <2>3. CASE n = 0
    <3>1. kept[n] = <<>>
      BY <2>3, <1>6, <1>1
    <3>2. /\ <<>> \in Seq(Queue!Entry) /\ Len(<<>>) = 0
      BY EmptySeq
    <3>3. InResolutionOrder(<<>>)
      BY DEF InResolutionOrder
    <3>4. IsKeptOf(<<>>, entries, owner, 0)
      BY <3>2, <3>3 DEF IsKeptOf
    <3> QED BY <3>1, <3>4, <2>3
  <2>4. CASE n # 0
    <3>1. n \in 1..L /\ n - 1 \in 0..L
      BY <2>4, <1>1
    <3>2. n - 1 \notin Wrong
      <4> HIDE DEF Wrong
      <4>1. ~ n <= n - 1
        BY <3>1, <1>1
      <4> QED BY <4>1, <2>2
    <3>3. IsKeptOf(kept[n - 1], entries, owner, n - 1)
      BY <3>1, <3>2
    <3>4. kept[n] = IF entries[n].ownerId = owner THEN kept[n - 1]
                    ELSE Append(kept[n - 1], entries[n])
      BY <3>1, <1>6, <1>1, <2>4
    <3>5. IsKeptOf(kept[n], entries, owner, n)
      BY <3>1, <3>3, <3>4, KeptOfOneMore
    <3> QED BY <3>5
  <2> QED BY <2>3, <2>4
<1>8. IsKeptOf(kept[L], entries, owner, L)
  <2> HIDE DEF kept
  <2> QED BY <1>1, <1>7
<1>9. KeptFrom(entries, owner) = kept[L]
  BY DEF KeptFrom
<1> QED BY <1>8, <1>9

-----------------------------------------------------------------------------
\* splice(index, 0, entry), element by element.
LEMMA SplicedElements ==
  ASSUME NEW entries \in Seq(Queue!Entry), NEW entry \in Queue!Entry,
         NEW place \in 0..Len(entries)
  PROVE  /\ Spliced(entries, place, entry) \in Seq(Queue!Entry)
         /\ Len(Spliced(entries, place, entry)) = Len(entries) + 1
         /\ \A i \in 1..(Len(entries) + 1) :
              Spliced(entries, place, entry)[i] =
                IF i <= place THEN entries[i]
                ELSE IF i = place + 1 THEN entry ELSE entries[i - 1]
<1> DEFINE L == Len(entries)
           before == SubSeq(entries, 1, place)
           after == SubSeq(entries, place + 1, L)
           one == <<entry>>
<1>1. /\ L \in Nat /\ place \in Nat /\ place <= L
      /\ \A i \in 1..L : entries[i] \in Queue!Entry
  BY LenProperties, ElementOfSeq
<1>2. /\ before \in Seq(Queue!Entry) /\ Len(before) = place
      /\ \A i \in 1..place : before[i] = entries[i]
  <2>1. \A i \in 1..place : entries[i] \in Queue!Entry
    BY <1>1
  <2>2. /\ before \in Seq(Queue!Entry)
        /\ Len(before) = IF 1 <= place THEN place - 1 + 1 ELSE 0
        /\ \A i \in 1..(place - 1 + 1) : before[i] = entries[1 + i - 1]
    BY <1>1, <2>1, SubSeqProperties
  <2> HIDE DEF before
  <2> QED BY <1>1, <2>2
<1>3. /\ after \in Seq(Queue!Entry) /\ Len(after) = L - place
      /\ \A i \in 1..(L - place) : after[i] = entries[place + i]
  <2>1. \A i \in (place + 1)..L : entries[i] \in Queue!Entry
    BY <1>1
  <2>2. /\ after \in Seq(Queue!Entry)
        /\ Len(after) = IF place + 1 <= L THEN L - (place + 1) + 1 ELSE 0
        /\ \A i \in 1..(L - (place + 1) + 1) : after[i] = entries[place + 1 + i - 1]
    BY <1>1, <2>1, SubSeqProperties
  <2> HIDE DEF after, L
  <2>3. \A i \in 1..(L - place) :
          i \in 1..(L - (place + 1) + 1) /\ place + 1 + i - 1 = place + i
    BY <1>1
  <2> QED BY <1>1, <2>2, <2>3
<1>4. one \in Seq(Queue!Entry) /\ Len(one) = 1 /\ one[1] = entry
  OBVIOUS
<1>5. /\ before \o one \in Seq(Queue!Entry) /\ Len(before \o one) = place + 1
      /\ \A i \in 1..(place + 1) : (before \o one)[i] =
           IF i <= place THEN entries[i] ELSE entry
  <2> HIDE DEF before, one
  <2>1. /\ before \o one \in Seq(Queue!Entry)
        /\ Len(before \o one) = Len(before) + Len(one)
        /\ \A i \in 1..(Len(before) + Len(one)) : (before \o one)[i] =
             IF i <= Len(before) THEN before[i] ELSE one[i - Len(before)]
    BY <1>2, <1>4, ConcatProperties
  <2>2. \A i \in 1..(place + 1) : ~ i <= place => i - place = 1
    BY <1>1
  <2> QED BY <1>1, <1>2, <1>4, <2>1, <2>2
<1>6. /\ (before \o one) \o after \in Seq(Queue!Entry)
      /\ Len((before \o one) \o after) = L + 1
      /\ \A i \in 1..(L + 1) : ((before \o one) \o after)[i] =
           IF i <= place THEN entries[i]
           ELSE IF i = place + 1 THEN entry ELSE entries[i - 1]
  <2> DEFINE left == before \o one
  <2> HIDE DEF left, after, L
  <2>1. left \in Seq(Queue!Entry) /\ Len(left) = place + 1
    BY <1>5 DEF left
  <2>2. /\ left \o after \in Seq(Queue!Entry)
        /\ Len(left \o after) = Len(left) + Len(after)
        /\ \A i \in 1..(Len(left) + Len(after)) : (left \o after)[i] =
             IF i <= Len(left) THEN left[i] ELSE after[i - Len(left)]
    BY <2>1, <1>3, ConcatProperties
  <2>3. Len(left) + Len(after) = L + 1
    BY <1>1, <1>3, <2>1
  <2>4. ASSUME NEW i \in 1..(L + 1)
        PROVE  (left \o after)[i] =
                 IF i <= place THEN entries[i]
                 ELSE IF i = place + 1 THEN entry ELSE entries[i - 1]
    <3>1. CASE i <= place + 1
      <4>1. i \in 1..(place + 1)
        BY <3>1, <1>1
      <4>2. left[i] = IF i <= place THEN entries[i] ELSE entry
        BY <4>1, <1>5 DEF left
      <4>3. (left \o after)[i] = left[i]
        BY <2>1, <2>2, <2>3, <3>1
      <4>4. i <= place \/ i = place + 1
        BY <3>1, <1>1
      <4> QED BY <4>2, <4>3, <4>4
    <3>2. CASE ~ i <= place + 1
      <4>1. /\ i - (place + 1) \in 1..(L - place) /\ place + (i - (place + 1)) = i - 1
            /\ ~ i <= place /\ i # place + 1
        BY <3>2, <1>1
      <4>2. (left \o after)[i] = after[i - (place + 1)]
        BY <2>1, <2>2, <2>3, <3>2
      <4>3. after[i - (place + 1)] = entries[i - 1]
        BY <4>1, <1>3
      <4> QED BY <4>1, <4>2, <4>3
    <3> QED BY <3>1, <3>2
  <2>5. /\ left \o after \in Seq(Queue!Entry)
        /\ Len(left \o after) = L + 1
        /\ \A i \in 1..(L + 1) : (left \o after)[i] =
             IF i <= place THEN entries[i]
             ELSE IF i = place + 1 THEN entry ELSE entries[i - 1]
    BY <2>2, <2>3, <2>4
  <2> QED BY <2>5 DEF left
<1> QED BY <1>6 DEF Spliced

\* Insertion at its place keeps the order, and adds the entry to the elements.
LEMMA InsertionKeepsOrder ==
  ASSUME NEW entries \in Seq(Queue!Entry), NEW entry \in Queue!Entry,
         InResolutionOrder(entries), NEW place, IsPlaceOf(place, entries, entry)
  PROVE  /\ InResolutionOrder(Spliced(entries, place, entry))
         /\ \A i \in 1..(Len(entries) + 1) :
              \/ Spliced(entries, place, entry)[i] = entry
              \/ \E j \in 1..Len(entries) : Spliced(entries, place, entry)[i] = entries[j]
         /\ \A j \in 1..Len(entries) : \E i \in 1..(Len(entries) + 1) :
              Spliced(entries, place, entry)[i] = entries[j]
         /\ \E i \in 1..(Len(entries) + 1) : Spliced(entries, place, entry)[i] = entry
<1> DEFINE L == Len(entries)
           new == Spliced(entries, place, entry)
           from(i) == IF i <= place THEN i ELSE i - 1
<1>1. /\ L \in Nat /\ place \in Nat /\ place <= L /\ DOMAIN entries = 1..L
      /\ place \in 0..L
  BY LenProperties DEF IsPlaceOf
<1>2. /\ new \in Seq(Queue!Entry) /\ Len(new) = L + 1
      /\ \A i \in 1..(L + 1) : new[i] = IF i <= place THEN entries[i]
                                        ELSE IF i = place + 1 THEN entry ELSE entries[i - 1]
  BY <1>1, SplicedElements
<1>3. DOMAIN new = 1..(L + 1)
  BY <1>2, LenProperties
<1> HIDE DEF new, L
<1>4. /\ new[place + 1] = entry
      /\ \A i \in 1..(L + 1) : i # place + 1 => from(i) \in 1..L /\ new[i] = entries[from(i)]
  <2>1. place + 1 \in 1..(L + 1) /\ ~ place + 1 <= place
    BY <1>1
  <2>2. ASSUME NEW i \in 1..(L + 1), i # place + 1
        PROVE  from(i) \in 1..L /\ new[i] = entries[from(i)]
    <3>1. CASE i <= place
      BY <3>1, <2>2, <1>1, <1>2
    <3>2. CASE ~ i <= place
      BY <3>2, <2>2, <1>1, <1>2
    <3> QED BY <3>1, <3>2
  <2> QED BY <2>1, <2>2, <1>2
<1>5. ASSUME NEW i \in 1..(L + 1), NEW j \in 1..(L + 1), i < j
      PROVE  Queue!Before(new[i], new[j])
  <2>1. CASE i = place + 1
    <3>1. from(j) \in (place + 1)..L /\ j # place + 1
      BY <1>1, <1>5, <2>1
    <3>2. new[i] = entry /\ new[j] = entries[from(j)]
      BY <3>1, <2>1, <1>4
    <3> HIDE DEF from
    <3> QED BY <3>1, <3>2 DEF IsPlaceOf, L
  <2>2. CASE j = place + 1
    <3>1. from(i) \in 1..place /\ i # place + 1
      BY <1>1, <1>5, <2>2
    <3>2. new[j] = entry /\ new[i] = entries[from(i)]
      BY <3>1, <2>2, <1>4
    <3> HIDE DEF from
    <3> QED BY <3>1, <3>2 DEF IsPlaceOf
  <2>3. CASE i # place + 1 /\ j # place + 1
    <3>1. from(i) \in 1..L /\ from(j) \in 1..L
          /\ new[i] = entries[from(i)] /\ new[j] = entries[from(j)]
      BY <2>3, <1>4
    <3>2. from(i) < from(j)
      BY <1>1, <1>5, <2>3
    <3> HIDE DEF from
    <3> QED BY <3>1, <3>2, <1>1 DEF InResolutionOrder
  <2> QED BY <2>1, <2>2, <2>3
<1>6. \A j \in 1..L : \E i \in 1..(L + 1) : new[i] = entries[j]
  <2> SUFFICES ASSUME NEW j \in 1..L PROVE \E i \in 1..(L + 1) : new[i] = entries[j]
    OBVIOUS
  <2>1. CASE j <= place
    <3>1. j \in 1..(L + 1) /\ new[j] = entries[j]
      BY <2>1, <1>1, <1>2
    <3> QED BY <3>1
  <2>2. CASE ~ j <= place
    <3>1. j + 1 \in 1..(L + 1) /\ ~ j + 1 <= place /\ j + 1 # place + 1 /\ j + 1 - 1 = j
      BY <2>2, <1>1
    <3>2. new[j + 1] = entries[j]
      BY <3>1, <1>2
    <3> QED BY <3>1, <3>2
  <2> QED BY <2>1, <2>2
<1>7. place + 1 \in 1..(L + 1)
  BY <1>1
<1>8. \A i \in 1..(L + 1) : new[i] = entry \/ \E j \in 1..L : new[i] = entries[j]
  <2> HIDE DEF from
  <2> QED BY <1>4
<1>9. InResolutionOrder(new)
  BY <1>3, <1>5 DEF InResolutionOrder
<1>10. \E i \in 1..(L + 1) : new[i] = entry
  BY <1>4, <1>7
<1> QED BY <1>6, <1>8, <1>9, <1>10 DEF new, L

\* What is left of a list when the entry at an index is gone.
IsWithout(list, entries, index) ==
  /\ list \in Seq(Queue!Entry)
  /\ Len(list) = Len(entries) - 1
  /\ \A i \in 1..Len(list) : list[i] = IF i < index THEN entries[i] ELSE entries[i + 1]

LEMMA RemovalKeepsOrder ==
  ASSUME NEW entries \in Seq(Queue!Entry), InResolutionOrder(entries),
         NEW index \in 1..Len(entries), NEW list, IsWithout(list, entries, index)
  PROVE  /\ InResolutionOrder(list)
         /\ \A i \in 1..Len(list) : \E j \in 1..Len(entries) :
              j # index /\ list[i] = entries[j]
         /\ \A j \in 1..Len(entries) : j # index => \E i \in 1..Len(list) : list[i] = entries[j]
<1> DEFINE from(i) == IF i < index THEN i ELSE i + 1
<1>1. /\ Len(entries) \in Nat /\ DOMAIN entries = 1..Len(entries)
      /\ list \in Seq(Queue!Entry) /\ Len(list) = Len(entries) - 1
      /\ DOMAIN list = 1..(Len(entries) - 1)
  BY LenProperties DEF IsWithout
<1>2. ASSUME NEW i \in 1..Len(list)
      PROVE  from(i) \in 1..Len(entries) /\ from(i) # index /\ list[i] = entries[from(i)]
  BY <1>1 DEF IsWithout
<1>3. ASSUME NEW i \in 1..Len(list), NEW j \in 1..Len(list), i < j
      PROVE  Queue!Before(list[i], list[j])
  <2>1. from(i) < from(j)
    BY <1>1, <1>3
  <2> HIDE DEF from
  <2> QED BY <2>1, <1>1, <1>2 DEF InResolutionOrder
<1>4. ASSUME NEW j \in 1..Len(entries), j # index
      PROVE  \E i \in 1..Len(list) : list[i] = entries[j]
  <2>1. CASE j < index
    <3>1. j \in 1..Len(list) /\ list[j] = entries[j]
      BY <2>1, <1>1 DEF IsWithout
    <3> QED BY <3>1
  <2>2. CASE ~ j < index
    <3>1. j - 1 \in 1..Len(list) /\ ~ j - 1 < index /\ j - 1 + 1 = j
      BY <2>2, <1>1, <1>4
    <3>2. list[j - 1] = entries[j]
      BY <3>1 DEF IsWithout
    <3> QED BY <3>1, <3>2
  <2> QED BY <2>1, <2>2
<1>5. InResolutionOrder(list)
  BY <1>1, <1>3 DEF InResolutionOrder
<1>6. \A i \in 1..Len(list) : \E j \in 1..Len(entries) : j # index /\ list[i] = entries[j]
  <2> HIDE DEF from
  <2> QED BY <1>2
<1> QED BY <1>4, <1>5, <1>6

LEMMA TailIsWithout ==
  ASSUME NEW entries \in Seq(Queue!Entry), entries # <<>>
  PROVE  IsWithout(Tail(entries), entries, 1)
<1>1. /\ Tail(entries) \in Seq(Queue!Entry) /\ Len(Tail(entries)) = Len(entries) - 1
      /\ \A i \in 1..Len(Tail(entries)) : Tail(entries)[i] = entries[i + 1]
  BY HeadTailProperties
<1>2. Len(Tail(entries)) \in Nat
  BY <1>1, LenProperties
<1> QED BY <1>1, <1>2 DEF IsWithout

\* splice(index, 1).
LEMMA SpliceIsWithout ==
  ASSUME NEW entries \in Seq(Queue!Entry), NEW index \in 1..Len(entries)
  PROVE  IsWithout(SubSeq(entries, 1, index - 1) \o SubSeq(entries, index + 1, Len(entries)),
                   entries, index)
<1> DEFINE L == Len(entries)
           before == SubSeq(entries, 1, index - 1)
           after == SubSeq(entries, index + 1, L)
<1>1. /\ L \in Nat /\ index \in Nat /\ 1 <= index /\ index <= L
      /\ \A i \in 1..L : entries[i] \in Queue!Entry
  BY LenProperties, ElementOfSeq
<1>2. /\ before \in Seq(Queue!Entry) /\ Len(before) = index - 1
      /\ \A i \in 1..(index - 1) : before[i] = entries[i]
  <2>1. \A i \in 1..(index - 1) : entries[i] \in Queue!Entry
    BY <1>1
  <2>2. /\ before \in Seq(Queue!Entry)
        /\ Len(before) = IF 1 <= index - 1 THEN index - 1 - 1 + 1 ELSE 0
        /\ \A i \in 1..(index - 1 - 1 + 1) : before[i] = entries[1 + i - 1]
    BY <1>1, <2>1, SubSeqProperties
  <2> HIDE DEF before
  <2> QED BY <1>1, <2>2
<1>3. /\ after \in Seq(Queue!Entry) /\ Len(after) = L - index
      /\ \A i \in 1..(L - index) : after[i] = entries[index + i]
  <2>1. \A i \in (index + 1)..L : entries[i] \in Queue!Entry
    BY <1>1
  <2>2. /\ after \in Seq(Queue!Entry)
        /\ Len(after) = IF index + 1 <= L THEN L - (index + 1) + 1 ELSE 0
        /\ \A i \in 1..(L - (index + 1) + 1) : after[i] = entries[index + 1 + i - 1]
    BY <1>1, <2>1, SubSeqProperties
  <2> HIDE DEF after, L
  <2>3. \A i \in 1..(L - index) :
          i \in 1..(L - (index + 1) + 1) /\ index + 1 + i - 1 = index + i
    BY <1>1
  <2> QED BY <1>1, <2>2, <2>3
<1>4. /\ before \o after \in Seq(Queue!Entry) /\ Len(before \o after) = L - 1
      /\ \A i \in 1..(L - 1) : (before \o after)[i] =
           IF i < index THEN entries[i] ELSE entries[i + 1]
  <2> HIDE DEF before, after, L
  <2>1. /\ before \o after \in Seq(Queue!Entry)
        /\ Len(before \o after) = Len(before) + Len(after)
        /\ \A i \in 1..(Len(before) + Len(after)) : (before \o after)[i] =
             IF i <= Len(before) THEN before[i] ELSE after[i - Len(before)]
    BY <1>2, <1>3, ConcatProperties
  <2>2. Len(before) + Len(after) = L - 1
    BY <1>1, <1>2, <1>3
  <2>3. ASSUME NEW i \in 1..(L - 1)
        PROVE  (before \o after)[i] = IF i < index THEN entries[i] ELSE entries[i + 1]
    <3>1. CASE i < index
      <4>1. i \in 1..(index - 1) /\ i <= Len(before)
        BY <3>1, <1>1, <1>2
      <4> QED BY <4>1, <3>1, <1>2, <2>1, <2>2
    <3>2. CASE ~ i < index
      <4>1. i - (index - 1) \in 1..(L - index) /\ index + (i - (index - 1)) = i + 1
            /\ ~ i <= Len(before)
        BY <3>2, <1>1, <1>2
      <4>2. (before \o after)[i] = after[i - (index - 1)]
        BY <4>1, <1>2, <2>1, <2>2
      <4> QED BY <4>1, <4>2, <3>2, <1>3
    <3> QED BY <3>1, <3>2
  <2> QED BY <2>1, <2>2, <2>3
<1> QED BY <1>4 DEF IsWithout

-----------------------------------------------------------------------------
\* What SchedulerInv says of the list, on its indices.
ListIsSound(list, time, next) ==
  /\ list \in Seq(Queue!Entry)
  /\ InResolutionOrder(list)
  /\ \A i \in 1..Len(list) : list[i].insertionOrdinal < next /\ list[i].dueAtMs >= time

LEMMA InvOfList ==
  SchedulerInv <=> /\ simulationTimeMs \in 0..MaxDue
                   /\ nextInsertionOrdinal \in 1..(MaxOrdinal + 1)
                   /\ ListIsSound(queue, simulationTimeMs, nextInsertionOrdinal)
<1>1. queue \in Seq(Queue!Entry) => DOMAIN queue = 1..Len(queue)
  BY LenProperties
<1> QED BY <1>1 DEF SchedulerInv, TypeOK, ListIsSound

LEMMA SetOfList ==
  ASSUME queue \in Seq(Queue!Entry)
  PROVE  QueueSet = {queue[i] : i \in 1..Len(queue)}
BY LenProperties DEF QueueSet

LEMMA SchedulerStarts ==
  ASSUME SchedulerAssumption
  PROVE  Init => SchedulerInv /\ Queue!QueueInit
<1> SUFFICES ASSUME Init PROVE SchedulerInv /\ Queue!QueueInit
  OBVIOUS
<1>1. queue \in Seq(Queue!Entry) /\ Len(queue) = 0 /\ DOMAIN queue = {}
  BY EmptySeq DEF Init
<1>2. QueueSet = {}
  BY <1>1 DEF QueueSet
<1> QED BY <1>1, <1>2
        DEF SchedulerAssumption, Init, SchedulerInv, TypeOK, InResolutionOrder, Queue!QueueInit

\* The next states in which the invariant holds again, by a step of the abstract
\* queue.
Carries == SchedulerInv' /\ Queue!QueueNext

LEMMA ScheduleCarries ==
  ASSUME SchedulerAssumption,
         SchedulerInv, NEW due \in 0..MaxDue, NEW p \in Priorities,
         NEW o \in Owners \cup {NoOwner}, ScheduleBoundary(due, p, o)
  PROVE  Carries
<1> DEFINE entry == Queue!NewEntry(due, p, o)
           L == Len(queue)
<1>1. /\ queue \in Seq(Queue!Entry) /\ L \in Nat /\ DOMAIN queue = 1..L
      /\ InResolutionOrder(queue)
      /\ nextInsertionOrdinal \in 1..(MaxOrdinal + 1) /\ simulationTimeMs \in 0..MaxDue
      /\ \A i \in 1..L : /\ queue[i] \in Queue!Entry
                         /\ queue[i].insertionOrdinal < nextInsertionOrdinal
                         /\ queue[i].dueAtMs >= simulationTimeMs
  BY InvOfList, LenProperties, ElementOfSeq DEF ListIsSound
<1>2. /\ entry \in Queue!Entry /\ entry.insertionOrdinal = nextInsertionOrdinal
      /\ entry.dueAtMs = due
  BY <1>1 DEF SchedulerAssumption, Queue!Entry, Queue!NewEntry
<1>3. IsNewFor(queue, entry)
  <2> HIDE DEF entry
  <2>1. \A i \in 1..L : queue[i].insertionOrdinal \in Nat
    BY <1>1 DEF Queue!Entry
  <2> QED BY <1>1, <1>2, <2>1 DEF SchedulerAssumption, IsNewFor
<1> HIDE DEF entry
<1>4. PICK place : IsPlaceOf(place, queue, entry)
  BY <1>1, <1>2, <1>3, PlaceExists
<1>5. InsertionIndex(queue, entry) = place
  BY <1>1, <1>2, <1>4, SearchFindsThePlace
<1>6. queue' = Spliced(queue, place, entry)
  BY <1>5 DEF ScheduleBoundary, entry
<1>7. place \in 0..L
  BY <1>4 DEF IsPlaceOf
<1>8. /\ queue' \in Seq(Queue!Entry) /\ Len(queue') = L + 1
      /\ InResolutionOrder(queue')
      /\ \A i \in 1..(L + 1) : queue'[i] = entry \/ \E j \in 1..L : queue'[i] = queue[j]
      /\ \A j \in 1..L : \E i \in 1..(L + 1) : queue'[i] = queue[j]
      /\ \E i \in 1..(L + 1) : queue'[i] = entry
  <2> DEFINE new == Spliced(queue, place, entry)
  <2>1. new \in Seq(Queue!Entry) /\ Len(new) = L + 1
    BY <1>1, <1>2, <1>7, SplicedElements
  <2>4. queue \in Seq(Queue!Entry) /\ entry \in Queue!Entry /\ InResolutionOrder(queue)
    BY <1>1, <1>2
  <2>2. /\ InResolutionOrder(new)
        /\ \A i \in 1..(L + 1) : new[i] = entry \/ \E j \in 1..L : new[i] = queue[j]
        /\ \A j \in 1..L : \E i \in 1..(L + 1) : new[i] = queue[j]
        /\ \E i \in 1..(L + 1) : new[i] = entry
    BY <2>4, <1>4, InsertionKeepsOrder
  <2> HIDE DEF new, L
  <2>3. queue' = new
    BY <1>6 DEF new
  <2> QED BY <2>1, <2>2, <2>3
<1>9. DOMAIN queue' = 1..(L + 1)
  BY <1>8, LenProperties
<1>10. /\ nextInsertionOrdinal' = nextInsertionOrdinal + 1
       /\ simulationTimeMs' = simulationTimeMs
       /\ nextInsertionOrdinal <= MaxOrdinal /\ due >= simulationTimeMs
  BY DEF ScheduleBoundary
<1> HIDE DEF L
<1>11. \A i \in 1..(L + 1) : /\ queue'[i].insertionOrdinal < nextInsertionOrdinal'
                             /\ queue'[i].dueAtMs >= simulationTimeMs'
  <2> SUFFICES ASSUME NEW i \in 1..(L + 1)
               PROVE  /\ queue'[i].insertionOrdinal < nextInsertionOrdinal'
                      /\ queue'[i].dueAtMs >= simulationTimeMs'
    OBVIOUS
  <2>1. CASE queue'[i] = entry
    BY <2>1, <1>1, <1>2, <1>10 DEF SchedulerAssumption
  <2>2. CASE queue'[i] # entry
    <3>1. PICK j \in 1..L : queue'[i] = queue[j]
      BY <2>2, <1>8
    <3>2. queue[j].insertionOrdinal \in Nat
      BY <1>1 DEF Queue!Entry
    <3> QED BY <3>1, <3>2, <1>1, <1>10 DEF SchedulerAssumption
  <2> QED BY <2>1, <2>2
<1>12. nextInsertionOrdinal' \in 1..(MaxOrdinal + 1)
  BY <1>1, <1>10 DEF SchedulerAssumption
<1>13. SchedulerInv'
  BY <1>1, <1>8, <1>9, <1>10, <1>11, <1>12 DEF SchedulerInv, TypeOK
<1>14. QueueSet' = QueueSet \cup {entry}
  <2>1. QueueSet = {queue[j] : j \in 1..L} /\ QueueSet' = {queue'[i] : i \in 1..(L + 1)}
    BY <1>1, <1>9 DEF QueueSet, L
  <2> QED BY <2>1, <1>8
<1>15. Queue!Schedule(due, p, o) /\ UNCHANGED simulationTimeMs
  BY <1>10, <1>14 DEF Queue!Schedule, entry
<1> QED BY <1>13, <1>15 DEF Carries, Queue!QueueNext

\* A list without one entry, in the same state otherwise.
LEMMA RemovalIsSound ==
  ASSUME SchedulerAssumption,
         SchedulerInv, NEW index \in 1..Len(queue), IsWithout(queue', queue, index),
         UNCHANGED <<simulationTimeMs, nextInsertionOrdinal>>
  PROVE  /\ SchedulerInv'
         /\ QueueSet' = QueueSet \ {queue[index]}
         /\ queue[index] \in QueueSet
<1> DEFINE L == Len(queue)
<1>1. /\ queue \in Seq(Queue!Entry) /\ L \in Nat /\ DOMAIN queue = 1..L
      /\ InResolutionOrder(queue)
      /\ nextInsertionOrdinal \in 1..(MaxOrdinal + 1) /\ simulationTimeMs \in 0..MaxDue
      /\ \A i \in 1..L : /\ queue[i] \in Queue!Entry
                         /\ queue[i].insertionOrdinal < nextInsertionOrdinal
                         /\ queue[i].dueAtMs >= simulationTimeMs
  BY InvOfList, LenProperties, ElementOfSeq DEF ListIsSound
<1>2. /\ queue' \in Seq(Queue!Entry) /\ DOMAIN queue' = 1..Len(queue')
  BY LenProperties DEF IsWithout
<1>3. /\ InResolutionOrder(queue')
      /\ \A i \in 1..Len(queue') : \E j \in 1..L : j # index /\ queue'[i] = queue[j]
      /\ \A j \in 1..L : j # index => \E i \in 1..Len(queue') : queue'[i] = queue[j]
  <2> DEFINE list == queue'
  <2>1. IsWithout(list, queue, index)
    OBVIOUS
  <2> HIDE DEF list
  <2>2. /\ InResolutionOrder(list)
        /\ \A i \in 1..Len(list) : \E j \in 1..Len(queue) : j # index /\ list[i] = queue[j]
        /\ \A j \in 1..Len(queue) : j # index => \E i \in 1..Len(list) : list[i] = queue[j]
    <3>1. queue \in Seq(Queue!Entry) /\ InResolutionOrder(queue) /\ index \in 1..Len(queue)
      BY <1>1
    <3>2. InResolutionOrder(list)
      BY <2>1, <3>1, RemovalKeepsOrder
    <3>3. \A i \in 1..Len(list) : \E j \in 1..Len(queue) : j # index /\ list[i] = queue[j]
      BY <2>1, <3>1, RemovalKeepsOrder
    <3>4. \A j \in 1..Len(queue) : j # index => \E i \in 1..Len(list) : list[i] = queue[j]
      BY <2>1, <3>1, RemovalKeepsOrder
    <3> QED BY <3>2, <3>3, <3>4
  <2> QED BY <2>2 DEF list
<1>4. \A j \in 1..L : j # index => queue[j] # queue[index]
  <2> SUFFICES ASSUME NEW j \in 1..L, j # index, queue[j] = queue[index] PROVE FALSE
    OBVIOUS
  <2>1. Queue!Before(queue[j], queue[index]) \/ Queue!Before(queue[index], queue[j])
    BY <1>1 DEF InResolutionOrder
  <2> QED BY <2>1, <1>1, BeforeIsAnOrder
<1> HIDE DEF L
<1>5. \A i \in 1..Len(queue') : /\ queue'[i].insertionOrdinal < nextInsertionOrdinal'
                                /\ queue'[i].dueAtMs >= simulationTimeMs'
  BY <1>1, <1>3
<1>6. SchedulerInv'
  BY <1>1, <1>2, <1>3, <1>5 DEF SchedulerInv, TypeOK
<1>7. QueueSet = {queue[j] : j \in 1..L} /\ QueueSet' = {queue'[i] : i \in 1..Len(queue')}
  BY <1>1, <1>2 DEF QueueSet
<1>8. index \in 1..L
  BY DEF L
<1>9. QueueSet' = QueueSet \ {queue[index]}
  BY SMTT(30), <1>3, <1>4, <1>7, <1>8
<1> QED BY <1>6, <1>7, <1>8, <1>9

LEMMA CancelCarries ==
  ASSUME SchedulerAssumption,
         SchedulerInv, NEW ordinal, CancelBoundary(ordinal)
  PROVE  Carries
<1>1. /\ queue \in Seq(Queue!Entry) /\ DOMAIN queue = 1..Len(queue)
  BY InvOfList, LenProperties DEF ListIsSound
<1>2. PICK index \in 1..Len(queue) :
        queue' = SubSeq(queue, 1, index - 1) \o SubSeq(queue, index + 1, Len(queue))
  BY <1>1 DEF CancelBoundary
<1>3. IsWithout(queue', queue, index)
  BY <1>1, <1>2, SpliceIsWithout
<1>4. UNCHANGED <<simulationTimeMs, nextInsertionOrdinal>>
  BY DEF CancelBoundary
<1>5. /\ SchedulerInv' /\ QueueSet' = QueueSet \ {queue[index]} /\ queue[index] \in QueueSet
  BY <1>3, <1>4, RemovalIsSound
<1> DEFINE gone == {queue[index]}
<1>6. gone \in SUBSET QueueSet /\ gone # {} /\ QueueSet' = QueueSet \ gone
  BY <1>5
<1>7. Queue!Cancel(gone) /\ UNCHANGED simulationTimeMs
  BY <1>4, <1>6 DEF Queue!Cancel
<1> HIDE DEF gone
<1> QED BY <1>5, <1>6, <1>7 DEF Carries, Queue!QueueNext

LEMMA CancelOwnedCarries ==
  ASSUME SchedulerInv, NEW owner, CancelBoundariesOwnedBy(owner)
  PROVE  Carries
<1> DEFINE L == Len(queue)
           gone == {e \in QueueSet : e.ownerId = owner}
<1>1. /\ queue \in Seq(Queue!Entry) /\ L \in Nat /\ DOMAIN queue = 1..L
      /\ InResolutionOrder(queue)
      /\ nextInsertionOrdinal \in 1..(MaxOrdinal + 1) /\ simulationTimeMs \in 0..MaxDue
      /\ \A i \in 1..L : /\ queue[i] \in Queue!Entry
                         /\ queue[i].insertionOrdinal < nextInsertionOrdinal
                         /\ queue[i].dueAtMs >= simulationTimeMs
  BY InvOfList, LenProperties, ElementOfSeq DEF ListIsSound
<1>2. IsKeptOf(queue', queue, owner, L)
  BY <1>1, FilterKeeps DEF CancelBoundariesOwnedBy
<1>3. queue' \in Seq(Queue!Entry) /\ DOMAIN queue' = 1..Len(queue') /\ InResolutionOrder(queue')
  BY <1>2, LenProperties DEF IsKeptOf
<1>4. UNCHANGED <<simulationTimeMs, nextInsertionOrdinal>>
  BY DEF CancelBoundariesOwnedBy
<1> HIDE DEF L
<1>5. \A i \in 1..Len(queue') : /\ queue'[i].insertionOrdinal < nextInsertionOrdinal'
                                /\ queue'[i].dueAtMs >= simulationTimeMs'
  BY <1>1, <1>2, <1>4 DEF IsKeptOf
<1>6. SchedulerInv'
  BY <1>1, <1>3, <1>4, <1>5 DEF SchedulerInv, TypeOK
<1>7. QueueSet = {queue[j] : j \in 1..L} /\ QueueSet' = {queue'[i] : i \in 1..Len(queue')}
  BY <1>1, <1>3 DEF QueueSet
<1>8. QueueSet' = QueueSet \ gone
  <2>1. ASSUME NEW e \in QueueSet' PROVE e \in QueueSet /\ e.ownerId # owner
    BY <2>1, <1>2, <1>7 DEF IsKeptOf
  <2>2. ASSUME NEW e \in QueueSet, e.ownerId # owner PROVE e \in QueueSet'
    BY SMTT(30), <2>2, <1>2, <1>7 DEF IsKeptOf
  <2> QED BY <2>1, <2>2
<1>9. gone # {}
  <2>1. PICK i \in DOMAIN queue : queue[i].ownerId = owner
    BY DEF CancelBoundariesOwnedBy
  <2> QED BY <2>1 DEF QueueSet
<1>10. gone \in SUBSET QueueSet
  OBVIOUS
<1>11. Queue!Cancel(gone) /\ UNCHANGED simulationTimeMs
  BY <1>4, <1>8, <1>9, <1>10 DEF Queue!Cancel
<1> HIDE DEF gone
<1> QED BY <1>6, <1>10, <1>11 DEF Carries, Queue!QueueNext

\* What is taken is the first of all that are queued, at its instant.
LEMMA TakeCarries ==
  ASSUME SchedulerAssumption,
         SchedulerInv, TakeBoundaryDue
  PROVE  Carries
<1>1. /\ queue \in Seq(Queue!Entry) /\ Len(queue) \in Nat /\ DOMAIN queue = 1..Len(queue)
      /\ InResolutionOrder(queue) /\ simulationTimeMs \in Nat
      /\ \A i \in 1..Len(queue) : /\ queue[i] \in Queue!Entry
                                  /\ queue[i].dueAtMs >= simulationTimeMs
  BY InvOfList, LenProperties, ElementOfSeq DEF ListIsSound
<1>2. queue # <<>> /\ Head(queue) = queue[1] /\ 1 \in 1..Len(queue)
  <2>1. queue # <<>>
    BY DEF TakeBoundaryDue
  <2>2. Len(queue) \in Nat \ {0}
    BY <1>1, <2>1, EmptySeq
  <2> QED BY <1>1, <2>1, <2>2
<1>3. IsWithout(queue', queue, 1)
  BY <1>1, <1>2, TailIsWithout DEF TakeBoundaryDue
<1>4. UNCHANGED <<simulationTimeMs, nextInsertionOrdinal>>
  BY DEF TakeBoundaryDue
<1>5. /\ SchedulerInv' /\ QueueSet' = QueueSet \ {queue[1]} /\ queue[1] \in QueueSet
  BY <1>2, <1>3, <1>4, RemovalIsSound
<1>6. queue[1].dueAtMs = simulationTimeMs
  <2>1. queue[1].dueAtMs <= simulationTimeMs
    BY <1>2 DEF TakeBoundaryDue
  <2>2. queue[1].dueAtMs \in Nat
    BY <1>1, <1>2 DEF Queue!Entry
  <2> QED BY <1>1, <1>2, <2>1, <2>2
<1>7. Queue!IsNext(queue[1], QueueSet)
  <2> SUFFICES ASSUME NEW f \in QueueSet \ {queue[1]} PROVE Queue!Before(queue[1], f)
    BY <1>5 DEF Queue!IsNext
  <2>1. PICK i \in 1..Len(queue) : f = queue[i]
    BY <1>1 DEF QueueSet
  <2>2. 1 < i
    BY <2>1
  <2> QED BY <2>1, <2>2, <1>1, <1>2 DEF InResolutionOrder
<1>8. Queue!Take(queue[1]) /\ UNCHANGED simulationTimeMs
  BY <1>4, <1>5, <1>6, <1>7 DEF Queue!Take
<1> QED BY <1>5, <1>8 DEF Carries, Queue!QueueNext

LEMMA ElapseCarries ==
  ASSUME SchedulerAssumption,
         SchedulerInv, NEW to \in 0..MaxDue, Elapse(to)
  PROVE  Carries
<1>1. /\ queue \in Seq(Queue!Entry) /\ Len(queue) \in Nat /\ DOMAIN queue = 1..Len(queue)
      /\ InResolutionOrder(queue) /\ simulationTimeMs \in Nat
      /\ nextInsertionOrdinal \in 1..(MaxOrdinal + 1)
      /\ \A i \in 1..Len(queue) : /\ queue[i] \in Queue!Entry
                                  /\ queue[i].insertionOrdinal < nextInsertionOrdinal
  BY InvOfList, LenProperties, ElementOfSeq DEF ListIsSound
<1>2. /\ simulationTimeMs < to /\ simulationTimeMs' = to
      /\ queue # <<>> => to <= Head(queue).dueAtMs
      /\ queue' = queue /\ nextInsertionOrdinal' = nextInsertionOrdinal
  BY DEF Elapse
<1>3. \A i \in 1..Len(queue) : queue[i].dueAtMs >= to
  <2> SUFFICES ASSUME NEW i \in 1..Len(queue) PROVE queue[i].dueAtMs >= to
    OBVIOUS
  <2>1. queue # <<>> /\ Head(queue) = queue[1] /\ 1 \in 1..Len(queue)
    BY <1>1
  <2>2. queue[1].dueAtMs >= to /\ queue[1].dueAtMs \in Nat /\ queue[i].dueAtMs \in Nat
    BY <1>1, <1>2, <2>1 DEF Queue!Entry
  <2>3. CASE i = 1
    BY <2>2, <2>3
  <2>4. CASE i # 1
    <3>1. Queue!Before(queue[1], queue[i])
      BY <2>1, <2>4, <1>1 DEF InResolutionOrder
    <3>2. queue[1].dueAtMs <= queue[i].dueAtMs
      BY <3>1, <2>1, <1>1, BeforeIsAnOrder
    <3> QED BY <3>2, <2>2
  <2> QED BY <2>3, <2>4
<1>4. SchedulerInv'
  BY <1>1, <1>2, <1>3 DEF SchedulerInv, TypeOK, InResolutionOrder
<1>5. QueueSet' = QueueSet /\ \A e \in QueueSet : e.dueAtMs >= to
  BY <1>1, <1>2, <1>3 DEF QueueSet
<1>6. Queue!Pass(to)
  BY <1>2, <1>5 DEF Queue!Pass
<1> QED BY <1>4, <1>6 DEF Carries, Queue!QueueNext

LEMMA StepCarries ==
  ASSUME SchedulerAssumption
  PROVE  SchedulerInv /\ Next => Carries
<1> SUFFICES ASSUME SchedulerInv, Next PROVE Carries
  OBVIOUS
<1>1. ASSUME NEW due \in 0..MaxDue, NEW p \in Priorities, NEW o \in Owners \cup {NoOwner},
             ScheduleBoundary(due, p, o)
      PROVE  Carries
  BY <1>1, ScheduleCarries
<1>2. ASSUME NEW ordinal \in 1..MaxOrdinal, CancelBoundary(ordinal) PROVE Carries
  BY <1>2, CancelCarries
<1>3. ASSUME NEW o \in Owners, CancelBoundariesOwnedBy(o) PROVE Carries
  BY <1>3, CancelOwnedCarries
<1>4. CASE TakeBoundaryDue
  BY <1>4, TakeCarries
<1>5. ASSUME NEW to \in 0..MaxDue, Elapse(to) PROVE Carries
  BY <1>5, ElapseCarries
<1> QED BY <1>1, <1>2, <1>3, <1>4, <1>5 DEF Next

LEMMA StutterKeeps == SchedulerInv /\ UNCHANGED vars => SchedulerInv' /\ UNCHANGED Queue!queueVars
BY DEF SchedulerInv, TypeOK, InResolutionOrder, vars, Queue!queueVars, QueueSet

-----------------------------------------------------------------------------
\* Every reachable list is sorted, of entries with ordinals below the counter,
\* none of them past (scheduler.ts:14-17, 87-100).
THEOREM InvariantHolds ==
  ASSUME SchedulerAssumption
  PROVE  Spec => []SchedulerInv
<1>1. Init => SchedulerInv
  BY SchedulerStarts
<1>2. SchedulerInv /\ [Next]_vars => SchedulerInv'
  BY StepCarries, StutterKeeps DEF Carries
<1> QED BY <1>1, <1>2, PTL DEF Spec

\* Every reachable state of the scheduler is well typed.
THEOREM TypeCorrect ==
  ASSUME SchedulerAssumption
  PROVE  Spec => []TypeOK
<1>1. SchedulerInv => TypeOK
  BY DEF SchedulerInv
<1> QED BY <1>1, InvariantHolds, PTL

\* The list implements the abstract queue: what is taken is the first of all that
\* are queued, at its instant and once, and time passes no entry.
THEOREM SchedulerImplementsQueue ==
  ASSUME SchedulerAssumption
  PROVE  Spec => ImplementsBoundaryQueue
<1>1. Init => Queue!QueueInit
  BY SchedulerStarts
<1>2. SchedulerInv /\ [Next]_vars => [Queue!QueueNext]_(Queue!queueVars)
  BY StepCarries, StutterKeeps DEF Carries
<1> QED BY <1>1, <1>2, InvariantHolds, PTL DEF Spec, ImplementsBoundaryQueue, Queue!QueueSpec
=============================================================================
