------------------------- MODULE SaveServiceProofs -------------------------
(***************************************************************************)
(* What holds of the save service for every set of campaigns, every        *)
(* retention and every bound: its types, and the invariants that make a    *)
(* slot whole, ordered and true to the status shown.                       *)
(***************************************************************************)
EXTENDS SaveService, FiniteSetTheorems, WellFoundedInduction, TLAPS

-----------------------------------------------------------------------------
(* The queue. *)

\* What a queue and a write in flight hold together.
PendingOf(q, w) == {q[i] : i \in DOMAIN q} \cup ({w} \ {NoSave})

\* One capture of each kind waits, made after the one of its kind in flight.
QueueOk(q, w) ==
  /\ \A i \in DOMAIN q : w # NoSave /\ q[i].kind = w.kind => w.at < q[i].at
  /\ \A i, j \in DOMAIN q : q[i].kind = q[j].kind => i = j

\* Enqueue() of service.ts: a capture newer than all that waits is put in its
\* kind's place or at the end, and nothing else appears.
LEMMA EnqueueOk ==
  ASSUME NEW q \in Seq(Envelope), NEW w \in Envelope \cup {NoSave},
         NEW e \in Envelope, QueueOk(q, w),
         \A f \in PendingOf(q, w) : f.at < e.at
  PROVE  /\ Enqueue(q, e) \in Seq(Envelope)
         /\ Enqueue(q, e) # <<>>
         /\ QueueOk(Enqueue(q, e), w)
         /\ PendingOf(Enqueue(q, e), w) \subseteq PendingOf(q, w) \cup {e}
<1>1. CASE \E i \in DOMAIN q : q[i].kind = e.kind
  <2> DEFINE r == [i \in DOMAIN q |->
                     IF q[i].kind = e.kind /\ q[i].rev <= e.rev THEN e ELSE q[i]]
  <2>1. Enqueue(q, e) = r
    BY <1>1 DEF Enqueue
  <2>2. r \in Seq(Envelope) /\ DOMAIN r = DOMAIN q /\ r # <<>>
    <3>1. DOMAIN q = 1..Len(q) /\ Len(q) \in Nat
      OBVIOUS
    <3>2. \A i \in 1..Len(q) : r[i] \in Envelope
      BY <3>1
    <3>3. r \in Seq(Envelope)
      BY <3>1, <3>2
    <3>4. DOMAIN r = DOMAIN q
      OBVIOUS
    <3>5. r # <<>>
      BY <1>1, <3>4
    <3> QED BY <3>3, <3>4, <3>5
  <2>3. \A i \in DOMAIN q : r[i] = q[i] \/ (r[i] = e /\ q[i].kind = e.kind)
    OBVIOUS
  <2>4. \A i \in DOMAIN q : r[i].kind = q[i].kind
    BY <2>3
  <2>5. \A i \in DOMAIN q : q[i].at < e.at
    BY DEF PendingOf
  <2>6. w # NoSave => w.at < e.at
    BY DEF PendingOf
  <2>7. QueueOk(r, w)
    BY <2>2, <2>3, <2>4, <2>6 DEF QueueOk
  <2>8. PendingOf(r, w) \subseteq PendingOf(q, w) \cup {e}
    BY <2>2, <2>3 DEF PendingOf
  <2> HIDE DEF r
  <2> QED BY <2>1, <2>2, <2>7, <2>8
<1>2. CASE ~ \E i \in DOMAIN q : q[i].kind = e.kind
  <2> DEFINE r == Append(q, e)
  <2>1. Enqueue(q, e) = r
    BY <1>2 DEF Enqueue
  <2>2. /\ r \in Seq(Envelope)
        /\ DOMAIN q = 1..Len(q) /\ Len(q) \in Nat
        /\ DOMAIN r = 1..(Len(q) + 1)
        /\ \A i \in DOMAIN q : r[i] = q[i]
        /\ r[Len(q) + 1] = e
    OBVIOUS
  <2>3. r # <<>>
    BY <2>2
  <2>4. w # NoSave => w.at < e.at
    BY DEF PendingOf
  <2>5. QueueOk(r, w)
    BY <1>2, <2>2, <2>4 DEF QueueOk
  <2>6. PendingOf(r, w) \subseteq PendingOf(q, w) \cup {e}
    BY <2>2 DEF PendingOf
  <2> HIDE DEF r
  <2> QED BY <2>1, <2>2, <2>3, <2>5, <2>6
<1> QED BY <1>1, <1>2

\* pump() of service.ts: taking the next capture keeps the order and makes
\* nothing up.
LEMMA PumpOk ==
  ASSUME NEW q \in Seq(Envelope), NEW w \in Envelope \cup {NoSave},
         QueueOk(q, w), Pump(q, w)
  PROVE  /\ queued' \in Seq(Envelope)
         /\ writing' \in Envelope \cup {NoSave}
         /\ QueueOk(queued', writing')
         /\ PendingOf(queued', writing') \subseteq PendingOf(q, w)
<1>1. CASE w = NoSave /\ q # <<>>
  <2>1. writing' = Head(q) /\ queued' = Tail(q)
    BY <1>1 DEF Pump
  <2>2. /\ Len(q) \in Nat \ {0} /\ DOMAIN q = 1..Len(q)
        /\ Head(q) = q[1] /\ q[1] \in Envelope
        /\ Tail(q) \in Seq(Envelope)
        /\ DOMAIN Tail(q) = 1..(Len(q) - 1)
        /\ \A i \in 1..(Len(q) - 1) : Tail(q)[i] = q[i + 1]
    BY <1>1
  <2>3. QueueOk(Tail(q), q[1])
    BY <2>2 DEF QueueOk
  <2>4. PendingOf(Tail(q), q[1]) \subseteq PendingOf(q, w)
    BY <2>2 DEF PendingOf
  <2> QED BY <2>1, <2>2, <2>3, <2>4
<1>2. CASE ~(w = NoSave /\ q # <<>>)
  BY <1>2 DEF Pump
<1> QED BY <1>1, <1>2

\* A queue of captures pumped is one of captures, whatever their order.
LEMMA PumpType ==
  ASSUME NEW q \in Seq(Envelope), NEW w \in Envelope \cup {NoSave}, Pump(q, w)
  PROVE  queued' \in Seq(Envelope) /\ writing' \in Envelope \cup {NoSave}
  BY DEF Pump

LEMMA EnqueueType ==
  ASSUME NEW q \in Seq(Envelope), NEW e \in Envelope
  PROVE  Enqueue(q, e) \in Seq(Envelope)
<1>1. CASE \E i \in DOMAIN q : q[i].kind = e.kind
  <2> DEFINE r == [i \in DOMAIN q |->
                     IF q[i].kind = e.kind /\ q[i].rev <= e.rev THEN e ELSE q[i]]
  <2>1. Enqueue(q, e) = r
    BY <1>1 DEF Enqueue
  <2>2. DOMAIN q = 1..Len(q) /\ Len(q) \in Nat /\ \A i \in 1..Len(q) : r[i] \in Envelope
    OBVIOUS
  <2> QED BY <2>1, <2>2
<1>2. CASE ~ \E i \in DOMAIN q : q[i].kind = e.kind
  BY <1>2 DEF Enqueue
<1> QED BY <1>1, <1>2

-----------------------------------------------------------------------------
(* Types. *)

USE DEF Kinds, Phases, Statuses

\* ensureManifest() gives a manifest and a sequence, and counts its failure.
LEMMA ReadsType ==
  ASSUME TypeOK, NEW read \in ManifestReads
  PROVE  /\ read.cached \in Manifest
         /\ read.next \in Nat \ {0}
         /\ read.failed \in BOOLEAN
         /\ NoteRead(read) =>
              /\ manifestRead' \in BOOLEAN
              /\ cached' \in Manifest
              /\ lastError' \in BOOLEAN
              /\ faults' \in Nat
<1>1. NoManifest \in Manifest
  BY DEF NoManifest, Manifest
<1>2. \A s \in manifest.saves : s.seq \in Nat
  BY DEF TypeOK, Manifest, Envelope
<1>3. read.cached \in Manifest
  BY <1>1 DEF ManifestReads, TypeOK
<1>4. read.next \in Nat \ {0}
  BY <1>2 DEF ManifestReads, TypeOK
<1>5. read.failed \in BOOLEAN
  <2>1. read.failed = TRUE \/ read.failed = FALSE
    BY DEF ManifestReads
  <2> QED BY <2>1, Zenon
<1>6. ASSUME NoteRead(read)
      PROVE  cached' \in Manifest /\ lastError' \in BOOLEAN /\ manifestRead' \in BOOLEAN
  BY <1>3, <1>6 DEF NoteRead
<1>7. ASSUME NoteRead(read) PROVE faults' \in Nat
  BY <1>7 DEF NoteRead, Fault, TypeOK
<1> QED BY <1>3, <1>4, <1>5, <1>6, <1>7

\* captureSnapshot() makes an envelope of any open campaign.
LEMMA CaptureType ==
  ASSUME TypeOK, NEW c \in Session, NEW kind \in Kinds, NEW seq \in Nat
  PROVE  Capture(c, kind, seq) \in Envelope
  BY DEF Capture, Session, Envelope, TypeOK

\* save() keeps every type it touches.
LEMMA SaveType ==
  ASSUME TypeOK, NEW c \in Session, NEW kind \in Kinds, Save(c, kind)
  PROVE  /\ cached' \in Manifest
         /\ manifestRead' \in BOOLEAN
         /\ nextSequence' \in Nat \ {0}
         /\ queued' \in Seq(Envelope)
         /\ writing' \in Envelope \cup {NoSave}
         /\ saveState' \in Statuses
         /\ lastError' \in BOOLEAN
         /\ captures' \in Nat
         /\ faults' \in Nat
<1>1. CASE ~c.sound
  BY <1>1 DEF Save, TypeOK
<1>2. CASE c.sound
  <2>1. PICK read \in ManifestReads :
          /\ NoteRead(read)
          /\ Pump(Enqueue(queued, Capture(c, kind, read.next)), writing)
          /\ nextSequence' = read.next + 1
    BY <1>2 DEF Save
  <2>2. captures' \in Nat /\ saveState' = "pending"
    BY <1>2 DEF Save, TypeOK
  <2>3. Capture(c, kind, read.next) \in Envelope
    BY <2>1, ReadsType, CaptureType
  <2>4. Enqueue(queued, Capture(c, kind, read.next)) \in Seq(Envelope)
    BY <2>3, EnqueueType DEF TypeOK
  <2>5. queued' \in Seq(Envelope) /\ writing' \in Envelope \cup {NoSave}
    BY <2>1, <2>4, PumpType DEF TypeOK
  <2> QED BY <2>1, <2>2, <2>5, ReadsType
<1> QED BY <1>1, <1>2 DEF Session

\* planWrite() of retention.ts plans a manifest of the slot's kind.
LEMMA PlannedType ==
  ASSUME NEW m \in Manifest, NEW e \in Envelope
  PROVE  /\ PlannedManifest(m, e) \in Manifest
         /\ Kept(m, e) \subseteq m.saves \cup {e}
         /\ \A s \in Kept(m, e) : s.campaign = e.campaign \/ s \in Previous(m, e)
  BY DEF PlannedManifest, Kept, Candidates, Previous, Manifest, Envelope

LEMMA TypeInit == Init => TypeOK
<1>1. <<>> \in Seq(Envelope) /\ NoManifest \in Manifest
  BY DEF NoManifest, Manifest
<1>2. Init => lastError \in BOOLEAN /\ manifestRead \in BOOLEAN
  BY DEF Init, ServiceInit
<1>3. Init => nextSequence \in Nat \ {0} /\ captures \in Nat /\ faults \in Nat
  BY DEF Init, ServiceInit
<1> QED BY <1>1, <1>2, <1>3, Zenon DEF Init, SlotInit, ServiceInit, TypeOK

LEMMA TypeStep == TypeOK /\ [Next]_vars => TypeOK'
<1> SUFFICES ASSUME TypeOK, [Next]_vars PROVE TypeOK'
  OBVIOUS
<1> USE DEF slotVars, serviceVars, hostVars
<1>1. CASE WriteStored
  <2>1. writing \in Envelope /\ manifest \in Manifest
    BY <1>1 DEF WriteStored, TypeOK
  <2>2. PlannedManifest(manifest, writing) \in Manifest
    BY <2>1, PlannedType
  <2>3. queued' \in Seq(Envelope) /\ writing' \in Envelope \cup {NoSave}
    BY <1>1, PumpType DEF WriteStored, TypeOK
  <2>4. /\ manifest' \in Manifest /\ cached' \in Manifest
        /\ snapshots' \subseteq Envelope /\ lost' \subseteq Envelope
    BY <1>1, <2>1, <2>2 DEF WriteStored, StoreWrite, TypeOK
  <2> QED BY <1>1, <2>1, <2>3, <2>4 DEF WriteStored, TypeOK
<1>2. CASE WriteRefused
  <2>1. queued' \in Seq(Envelope) /\ writing' \in Envelope \cup {NoSave}
    BY <1>2, PumpType DEF WriteRefused, TypeOK
  <2> QED BY <1>2, <2>1 DEF WriteRefused, Fault, TypeOK
<1>3. ASSUME NEW sound \in BOOLEAN, CommitCommand(sound) PROVE TypeOK'
  <2>1. campaign \in Session
    BY <1>3 DEF CommitCommand, Open, TypeOK
  <2>2. [campaign EXCEPT !.rev = campaign.rev + 1] \in Session
    BY <2>1 DEF Session
  <2>3. campaign' \in Session
    BY <1>3, <2>1, <2>2, Zenon DEF CommitCommand, Session
  <2> QED BY <1>3, <2>3 DEF CommitCommand, TypeOK
<1>4. ASSUME NEW kind \in Kinds, SaveRequest(kind) PROVE TypeOK'
  <2>1. campaign \in Session
    BY <1>4 DEF SaveRequest, Open, TypeOK
  <2> QED BY <1>4, <2>1, SaveType DEF SaveRequest, TypeOK
<1>5. ASSUME NEW id \in Campaigns, CreateBegin(id) PROVE TypeOK'
  <2> DEFINE new == [id |-> id, rev |-> 1, sound |-> TRUE]
  <2>1. new \in Session
    BY DEF Session
  <2>2. Save(new, "auto") /\ campaign' = new
    BY <1>5 DEF CreateBegin
  <2> HIDE DEF new
  <2> QED BY <1>5, <2>1, <2>2, SaveType DEF CreateBegin, TypeOK
<1>6. CASE CreateEnd
  BY <1>6 DEF CreateEnd, TypeOK
<1>7. CASE CloseBegin
  <2>1. campaign \in Session
    BY <1>7 DEF CloseBegin, Open, TypeOK
  <2> QED BY <1>7, <2>1, SaveType DEF CloseBegin, TypeOK
<1>8. CASE CloseEnd
  BY <1>8 DEF CloseEnd, TypeOK
<1>9. CASE ResetBegin
  BY <1>9 DEF ResetBegin, TypeOK
<1>10. CASE ResetEnd
  <2>1. NoManifest \in Manifest
    BY DEF NoManifest, Manifest
  <2>2. snapshots' \subseteq Envelope /\ lost' \subseteq Envelope
    BY <1>10 DEF ResetEnd, Cleared, StoreClear, TypeOK
  <2>3. /\ manifest' \in Manifest /\ cached' \in Manifest
        /\ manifestRead' = TRUE /\ lastError' = FALSE
        /\ nextSequence' = 1 /\ lastSaved' = NoSave /\ saveState' = "idle"
    BY <1>10, <2>1 DEF ResetEnd, Cleared, StoreClear
  <2>4. UNCHANGED <<campaign, created, queued, writing, captures, faults>> /\ phase' = "idle"
    BY <1>10 DEF ResetEnd
  <2>5. lastError' \in BOOLEAN /\ manifestRead' \in BOOLEAN
    BY <2>3
  <2>6. nextSequence' \in Nat \ {0} /\ captures' \in Nat /\ faults' \in Nat
    BY <2>3, <2>4 DEF TypeOK
  <2> QED BY <2>2, <2>3, <2>4, <2>5, <2>6, Zenon DEF TypeOK
<1>11. CASE ResetRefused
  BY <1>11 DEF ResetRefused, Fault, TypeOK
<1>12. ASSUME NEW unreadable \in SUBSET manifest.saves, Resume(unreadable)
       PROVE  TypeOK'
  <2>1. PICK read \in ManifestReads :
          /\ NoteRead(read)
          /\ nextSequence' = read.next
          /\ saveState' = IF read.failed THEN "failed" ELSE saveState
          /\ \/ campaign' = campaign
             \/ \E s \in read.cached.saves :
                  campaign' = [id |-> s.campaign, rev |-> s.rev, sound |-> s.sound]
    BY <1>12 DEF Resume
  <2>2. \A s \in read.cached.saves :
          [id |-> s.campaign, rev |-> s.rev, sound |-> s.sound] \in Session
    BY ReadsType DEF Manifest, Envelope, Session
  <2>3. campaign' \in Session \cup {Closed}
    BY <2>1, <2>2 DEF TypeOK
  <2> QED BY <1>12, <2>1, <2>3, ReadsType DEF Resume, TypeOK, Closed
<1>13. CASE SlotRequest
  <2>1. PICK read \in ManifestReads :
          /\ NoteRead(read)
          /\ nextSequence' = read.next
          /\ saveState' = IF read.failed THEN "failed" ELSE saveState
    BY <1>13 DEF SlotRequest
  <2> QED BY <1>13, <2>1, ReadsType DEF SlotRequest, TypeOK, Closed
<1>14. ASSUME NEW d \in snapshots, DamageDocument(d) PROVE TypeOK'
  BY <1>14 DEF DamageDocument, Damage, Fault, TypeOK
<1>15. CASE Crash
  <2>1. <<>> \in Seq(Envelope) /\ NoManifest \in Manifest
    BY DEF NoManifest, Manifest
  <2>2. lastError' \in BOOLEAN /\ manifestRead' \in BOOLEAN
    BY <1>15 DEF Crash
  <2>3. nextSequence' \in Nat \ {0} /\ captures' \in Nat /\ faults' \in Nat
    BY <1>15 DEF Crash, Fault, TypeOK
  <2> QED BY <1>15, <2>1, <2>2, <2>3, Zenon DEF Crash, TypeOK
<1>16. CASE UNCHANGED vars
  BY <1>16 DEF vars, TypeOK, Closed
<1> QED BY <1>1, <1>2, <1>3, <1>4, <1>5, <1>6, <1>7, <1>8, <1>9, <1>10, <1>11,
           <1>12, <1>13, <1>14, <1>15, <1>16 DEF Next

\* Every variable keeps its type, in every behaviour of the service.
THEOREM TypeCorrect == Spec => []TypeOK
  BY TypeInit, TypeStep, PTL DEF Spec

-----------------------------------------------------------------------------
(* The slot. *)

\* Two saves the slot lists never share an id.
LEMMA IdsAreUnique ==
  ASSUME TypeOK, ServiceInv
  PROVE  \A s, t \in manifest.saves : SaveId(s) = SaveId(t) => s = t
<1> SUFFICES ASSUME NEW s \in manifest.saves, NEW t \in manifest.saves,
                    SaveId(s) = SaveId(t)
             PROVE  s = t
  OBVIOUS
<1>1. s.seq = t.seq
  BY DEF SaveId
<1>2. s.campaign = t.campaign
  BY DEF ServiceInv, SlotIsWhole
<1>3. s.at \in Nat /\ t.at \in Nat /\ s.seq \in Nat
  BY DEF TypeOK, Manifest, Envelope
<1>4. ~(s.at < t.at) /\ ~(t.at < s.at)
  BY <1>1, <1>2, <1>3 DEF ServiceInv, SequenceOrdersCaptures
<1>5. s.at = t.at
  BY <1>3, <1>4
<1> QED BY <1>5 DEF ServiceInv, CapturesAreApart

\* A capture on its way is the newest of its kind in the slot, by sequence.
LEMMA PendingIsNewest ==
  ASSUME TypeOK, ServiceInv, NEW e \in Pending, NEW s \in manifest.saves,
         s.kind = e.kind, s.campaign = e.campaign
  PROVE  s.seq < e.seq
  BY DEF ServiceInv, KindsAreOrdered, SequenceOrdersCaptures

\* planWrite() and the write transaction leave a whole slot that lists the
\* save written, whatever the slot held: nothing listed is deleted, nothing
\* unlisted stays.
LEMMA StoreWriteOk ==
  ASSUME TypeOK, ServiceInv, NEW e \in Pending, e \in Envelope, StoreWrite(e)
  PROVE  /\ SlotIsWhole'
         /\ e \in manifest'.saves
         /\ e \in Kept(manifest, e)
         /\ manifest'.campaign = e.campaign
         /\ manifest'.saves \subseteq Previous(manifest, e) \cup {e}
         /\ Previous(manifest, e) \subseteq manifest.saves
         /\ \A s \in manifest'.saves : s.campaign = e.campaign
         /\ snapshots' \subseteq snapshots \cup {e}
<1> DEFINE prev == Previous(manifest, e)
           cands == Candidates(manifest, e)
           kept == Kept(manifest, e)
<1>1. /\ manifest' = [campaign |-> e.campaign, saves |-> kept]
      /\ snapshots' = {d \in {s \in snapshots : SaveId(s) # SaveId(e)} \cup {e} :
                         SaveId(d) \notin RemoveIds(manifest, e)}
      /\ lost' = lost
  BY DEF StoreWrite, PlannedManifest
<1>2. manifest \in Manifest /\ manifest.saves \subseteq Envelope
  BY DEF TypeOK, Manifest
<1>3. /\ \A s \in manifest.saves : s.campaign = manifest.campaign
      /\ manifest.saves \subseteq snapshots \cup lost
      /\ snapshots \subseteq manifest.saves
  BY DEF ServiceInv, SlotIsWhole
<1>4. prev \subseteq manifest.saves /\ \A s \in prev : s.campaign = e.campaign
  BY <1>2, <1>3, CampaignAssumption DEF Previous, Envelope
<1>5. cands = {e} \cup {s \in prev : SaveId(s) # SaveId(e)}
  BY DEF Candidates
<1>6. kept \subseteq cands
  BY DEF Kept
<1>7. e \in kept
  <2>1. NewerOfKind(e, cands) = {}
    <3> SUFFICES ASSUME NEW t \in cands, t.kind = e.kind, t.seq > e.seq PROVE FALSE
      BY DEF NewerOfKind
    <3>1. e.seq \in Nat
      BY DEF Envelope
    <3>2. t # e
      BY <3>1
    <3>3. t \in manifest.saves /\ t.campaign = e.campaign
      BY <1>4, <1>5, <3>2
    <3>4. t.seq \in Nat
      BY <1>2, <3>3 DEF Envelope
    <3>5. t.seq < e.seq
      BY <3>3, PendingIsNewest
    <3> QED BY <3>1, <3>4, <3>5
  <2>2. Cardinality(NewerOfKind(e, cands)) = 0
    BY <2>1, FS_EmptySet
  <2>3. Room[e.kind] \in Nat \ {0}
    BY RetentionAssumption DEF Room, Envelope
  <2>4. Cardinality(NewerOfKind(e, cands)) < Room[e.kind]
    BY <2>2, <2>3
  <2> QED BY <1>5, <2>4 DEF Kept
<1>8. RemoveIds(manifest, e) =
        {SaveId(s) : s \in (cands \ kept) \cup (manifest.saves \ prev)} \ {SaveId(e)}
  BY DEF RemoveIds
<1>9. \A s \in kept : s = e \/ (s \in prev /\ SaveId(s) # SaveId(e))
  BY <1>5, <1>6
<1>10. \A s \in kept : SaveId(s) \notin RemoveIds(manifest, e)
  <2> SUFFICES ASSUME NEW s \in kept, SaveId(s) \in RemoveIds(manifest, e) PROVE FALSE
    OBVIOUS
  <2>1. s \in prev /\ SaveId(s) # SaveId(e)
    BY <1>8, <1>9
  <2>2. PICK r \in (cands \ kept) \cup (manifest.saves \ prev) : SaveId(r) = SaveId(s)
    BY <1>8
  <2>3. r \in manifest.saves
    BY <1>4, <1>5, <2>1, <2>2
  <2>4. r = s
    BY <1>4, <2>1, <2>2, <2>3, IdsAreUnique
  <2> QED BY <2>1, <2>2, <2>4
<1>11. kept \subseteq snapshots' \cup lost'
  <2> SUFFICES ASSUME NEW s \in kept PROVE s \in snapshots' \cup lost'
    OBVIOUS
  <2>1. CASE s = e
    BY <1>1, <1>10, <2>1
  <2>2. CASE s # e
    BY <1>1, <1>3, <1>4, <1>9, <1>10, <2>2
  <2> QED BY <2>1, <2>2
<1>12. snapshots' \subseteq kept
  <2> SUFFICES ASSUME NEW d \in snapshots', d # e PROVE d \in kept
    BY <1>7
  <2>1. d \in manifest.saves /\ SaveId(d) # SaveId(e) /\ SaveId(d) \notin RemoveIds(manifest, e)
    BY <1>1, <1>3
  <2>2. d \in prev
    BY <1>8, <2>1
  <2>3. d \in cands
    BY <1>5, <2>1, <2>2
  <2> QED BY <1>8, <2>1, <2>3
<1>13. \A s \in kept : s.campaign = e.campaign
  BY <1>4, <1>9
<1>14. SlotIsWhole'
  BY <1>1, <1>11, <1>12, <1>13 DEF SlotIsWhole
<1>15. snapshots' \subseteq snapshots \cup {e}
  BY <1>1
<1> QED BY <1>1, <1>4, <1>7, <1>9, <1>13, <1>14, <1>15

-----------------------------------------------------------------------------
(* Captures. *)

\* ensureManifest() leaves the service knowing the slot, or blind to it.
LEMMA ReadsOk ==
  ASSUME TypeOK, ServiceInv, NEW read \in ManifestReads
  PROVE  \/ manifestRead /\ read.cached = cached /\ read.next = nextSequence
         \/ /\ ~manifestRead
            /\ \/ read.cached = manifest /\ \A s \in manifest.saves : s.seq < read.next
               \/ read.cached = NoManifest /\ read.next = nextSequence
<1>1. CASE manifestRead
  BY <1>1 DEF ManifestReads
<1>2. CASE ~manifestRead
  <2>1. CASE read.cached = NoManifest /\ read.next = nextSequence
    BY <1>2, <2>1
  <2>2. CASE ~(read.cached = NoManifest /\ read.next = nextSequence)
    <3>1. PICK n \in {0} \cup {s.seq : s \in manifest.saves} :
            /\ \A s \in manifest.saves : s.seq <= n
            /\ read.cached = manifest /\ read.next = n + 1
      BY <1>2, <2>2 DEF ManifestReads
    <3>2. n \in Nat /\ \A s \in manifest.saves : s.seq \in Nat
      BY DEF TypeOK, Manifest, Envelope
    <3> QED BY <1>2, <3>1, <3>2
  <2> QED BY <2>1, <2>2
<1> QED BY <1>1, <1>2

\* What makes a slot and the captures on their way orderly.
Orderly ==
  /\ SequenceOrdersCaptures
  /\ OnlySoundIsStored
  /\ CapturesAreApart
  /\ KindsAreOrdered

\* save() of service.ts, called for a campaign the slot is known to hold or
\* known not to hold, adds at most a capture of that campaign and leaves
\* everything orderly.
LEMMA SaveOk ==
  ASSUME TypeOK, ServiceInv, NEW c \in Session, NEW kind \in Kinds,
         Save(c, kind), UNCHANGED slotVars,
         \A e \in Pending : e.campaign = c.id,
         \/ \A s \in manifest.saves : s.campaign # c.id
         \/ manifestRead /\ cached = manifest /\ \A s \in manifest.saves : s.seq < nextSequence
  PROVE  /\ Orderly'
         /\ saveState' # "saved"
         /\ \A e \in Pending' : e \in Pending \/ (e.campaign = c.id /\ e.rev = c.rev)
         /\ c.sound => manifestRead'
         /\ ~c.sound => UNCHANGED <<cached, manifestRead, nextSequence>>
         /\ c.sound =>
              \/ cached' = manifest /\ \A s \in manifest.saves : s.seq < nextSequence'
              \/ cached' = NoManifest /\ \A s \in manifest.saves : s.campaign # c.id
<1> USE DEF slotVars
<1>1. CASE ~c.sound
  <2>1. UNCHANGED <<manifest, snapshots, cached, manifestRead, nextSequence, queued, writing, captures>>
        /\ saveState' = "failed"
    BY <1>1 DEF Save
  <2>2. Pending' = Pending
    BY <2>1 DEF Pending
  <2>3. Orderly'
    BY <2>1, <2>2 DEF ServiceInv, Orderly, SequenceOrdersCaptures, OnlySoundIsStored,
                      CapturesAreApart, KindsAreOrdered
  <2> QED BY <1>1, <2>1, <2>2, <2>3
<1>2. CASE c.sound
  <2>1. PICK read \in ManifestReads :
          /\ NoteRead(read)
          /\ Pump(Enqueue(queued, Capture(c, kind, read.next)), writing)
          /\ nextSequence' = read.next + 1
    BY <1>2 DEF Save
  <2> DEFINE e == Capture(c, kind, read.next)
             q == Enqueue(queued, e)
  <2>2. captures' = captures + 1 /\ saveState' = "pending" /\ manifestRead' = TRUE
        /\ cached' = read.cached /\ UNCHANGED <<manifest, snapshots, lost>>
    BY <1>2, <2>1 DEF Save, NoteRead
  <2>3. e \in Envelope /\ read.next \in Nat \ {0} /\ captures \in Nat /\ nextSequence \in Nat
    BY ReadsType, CaptureType DEF TypeOK
  <2>4. /\ e.campaign = c.id /\ e.rev = c.rev /\ e.sound = c.sound /\ e.kind = kind
        /\ e.seq = read.next /\ e.at = captures + 1
    BY DEF Capture
  <2>5. Pending = PendingOf(queued, writing) /\ Pending' = PendingOf(queued', writing')
    BY DEF Pending, PendingOf
  <2>6. QueueOk(queued, writing)
    BY DEF ServiceInv, KindsAreOrdered, QueueOk
  <2>7. queued \in Seq(Envelope) /\ writing \in Envelope \cup {NoSave}
        /\ manifest.saves \subseteq Envelope
    BY DEF TypeOK, Manifest
  <2>8. Pending \subseteq Envelope
    BY <2>5, <2>7 DEF PendingOf
  <2>9. \A s \in manifest.saves \cup Pending : s.at \in Nat /\ s.seq \in Nat /\ s.at < e.at
    BY <2>3, <2>4, <2>7, <2>8 DEF ServiceInv, CapturesAreApart, Envelope
  <2> HIDE DEF e
  <2>10. /\ q \in Seq(Envelope)
         /\ QueueOk(q, writing)
         /\ PendingOf(q, writing) \subseteq Pending \cup {e}
    BY <2>3, <2>5, <2>6, <2>7, <2>9, EnqueueOk
  <2>11. /\ QueueOk(queued', writing')
         /\ Pending' \subseteq Pending \cup {e}
    <3>1. Pump(q, writing)
      BY <2>1 DEF e
    <3> HIDE DEF q
    <3> QED BY <2>5, <2>7, <2>10, <3>1, PumpOk
  <2> HIDE DEF q
  <2>12. \A s \in manifest.saves : s.seq < read.next => s.seq < nextSequence'
    BY <2>1, <2>3, <2>9
  <2>13. \/ cached' = manifest /\ \A s \in manifest.saves : s.seq < nextSequence'
         \/ cached' = NoManifest /\ \A s \in manifest.saves : s.campaign # c.id
    <3>1. CASE manifestRead
      <4>1. cached' = cached /\ read.next = nextSequence
        BY <2>2, <3>1, ReadsOk
      <4>2. \/ cached = manifest /\ \A s \in manifest.saves : s.seq < read.next
            \/ cached = NoManifest
        BY <3>1, <4>1 DEF ServiceInv, SlotIsKnownOrForeign
      <4>3. CASE \A s \in manifest.saves : s.campaign # c.id
        BY <2>12, <4>1, <4>2, <4>3
      <4>4. CASE cached = manifest /\ \A s \in manifest.saves : s.seq < nextSequence
        BY <2>12, <4>1, <4>4
      <4> QED BY <4>3, <4>4
    <3>2. CASE ~manifestRead
      <4>1. \A s \in manifest.saves : s.campaign # c.id
        BY <3>2
      <4>2. \/ read.cached = manifest /\ \A s \in manifest.saves : s.seq < read.next
            \/ read.cached = NoManifest
        BY <3>2, ReadsOk
      <4> QED BY <2>2, <2>12, <4>1, <4>2
    <3> QED BY <3>1, <3>2
  <2>14. \A s \in manifest.saves \cup Pending : s.campaign = c.id => s.seq < e.seq
    <3>1. CASE manifestRead
      <4>1. read.next = nextSequence
        BY <3>1, ReadsOk
      <4> QED BY <2>4, <4>1 DEF ServiceInv, CapturesAreApart
    <3>2. CASE ~manifestRead
      <4>1. phase = "idle" /\ campaign = Closed
        BY <3>2 DEF ServiceInv, SlotIsKnownOrForeign
      <4>2. queued = <<>> /\ writing = NoSave
        BY <4>1 DEF ServiceInv, WritesBelongToSession, Open, Drained
      <4> QED BY <3>2, <4>2 DEF Pending
    <3> QED BY <3>1, <3>2
  <2>15. SequenceOrdersCaptures'
    BY <2>2, <2>3, <2>4, <2>9, <2>11, <2>14 DEF ServiceInv, SequenceOrdersCaptures
  <2>16. OnlySoundIsStored'
    BY <1>2, <2>2, <2>4, <2>11 DEF ServiceInv, OnlySoundIsStored
  <2>17. CapturesAreApart'
    <3>1. \A s \in manifest.saves \cup Pending : s.at # e.at
      BY <2>3, <2>4, <2>9
    <3>2. \A s, t \in manifest'.saves \cup Pending' : s.at = t.at => s = t
      BY <2>2, <2>11, <3>1 DEF ServiceInv, CapturesAreApart
    <3>3. \A s \in manifest'.saves \cup Pending' : s.at <= captures'
      BY <2>2, <2>3, <2>4, <2>9, <2>11
    <3>4. \A f \in Pending : f.seq < read.next
      BY <2>4, <2>14
    <3>5. \A f \in Pending' : f.seq < nextSequence'
      BY <2>1, <2>3, <2>4, <2>9, <2>11, <3>4
    <3> QED BY <3>2, <3>3, <3>5 DEF CapturesAreApart
  <2>18. KindsAreOrdered'
    <3>1. \A f, g \in Pending' : f.campaign = g.campaign
      BY <2>4, <2>11
    <3>2. \A f \in Pending', s \in manifest'.saves :
            f.kind = s.kind /\ f.campaign = s.campaign => s.at < f.at
      BY <2>2, <2>9, <2>11 DEF ServiceInv, KindsAreOrdered
    <3> QED BY <2>11, <3>1, <3>2 DEF KindsAreOrdered, QueueOk
  <2> QED BY <1>2, <2>2, <2>4, <2>11, <2>13, <2>15, <2>16, <2>17, <2>18 DEF Orderly
<1> QED BY <1>1, <1>2 DEF Session

-----------------------------------------------------------------------------
(* The invariant. *)

LEMMA InvInit == Init => ServiceInv
<1> SUFFICES ASSUME Init PROVE ServiceInv
  OBVIOUS
<1>1. /\ manifest = NoManifest /\ snapshots = {} /\ lost = {}
      /\ cached = NoManifest /\ manifestRead = FALSE /\ queued = <<>> /\ writing = NoSave
      /\ campaign = Closed /\ phase = "idle" /\ saveState = "idle"
  BY DEF Init, SlotInit, ServiceInit
<1>2. manifest.saves = {} /\ Pending = {}
  BY <1>1 DEF NoManifest, Pending
<1>3. SlotIsWhole /\ SequenceOrdersCaptures /\ SavedStatusIsTrue /\ OnlySoundIsStored
  BY <1>1, <1>2 DEF SlotIsWhole, SequenceOrdersCaptures, SavedStatusIsTrue, OnlySoundIsStored
<1>4. WritesBelongToSession /\ CapturesAreApart /\ KindsAreOrdered
  BY <1>1, <1>2 DEF WritesBelongToSession, CapturesAreApart, KindsAreOrdered, Drained
<1>5. SlotIsKnownOrForeign
  BY <1>1, <1>2 DEF SlotIsKnownOrForeign, Open
<1> QED BY <1>3, <1>4, <1>5 DEF ServiceInv

\* A step that leaves the slot alone and only lets go of what was on its way
\* leaves everything orderly.
LEMMA ShrinkOk ==
  ASSUME TypeOK, ServiceInv, UNCHANGED <<manifest, captures, nextSequence>>,
         snapshots' \subseteq snapshots, Pending' \subseteq Pending,
         QueueOk(queued', writing')
  PROVE  Orderly'
<1>1. SequenceOrdersCaptures' /\ OnlySoundIsStored' /\ CapturesAreApart'
  BY DEF ServiceInv, SequenceOrdersCaptures, OnlySoundIsStored, CapturesAreApart
<1>2. KindsAreOrdered'
  BY DEF ServiceInv, KindsAreOrdered, QueueOk
<1> QED BY <1>1, <1>2 DEF Orderly

\* pump() after a write: what is on its way shrinks and stays in order.
LEMMA PumpAfterWrite ==
  ASSUME TypeOK, ServiceInv, Pump(queued, NoSave)
  PROVE  /\ QueueOk(queued', writing')
         /\ Pending' \subseteq {queued[i] : i \in DOMAIN queued}
         /\ Pending' \subseteq Pending
<1>1. queued \in Seq(Envelope)
  BY DEF TypeOK
<1>2. QueueOk(queued, NoSave)
  BY DEF ServiceInv, KindsAreOrdered, QueueOk
<1>3. Pending' = PendingOf(queued', writing')
      /\ PendingOf(queued, NoSave) = {queued[i] : i \in DOMAIN queued}
  BY DEF Pending, PendingOf
<1>4. {queued[i] : i \in DOMAIN queued} \subseteq Pending
  BY DEF Pending
<1> QED BY <1>1, <1>2, <1>3, <1>4, PumpOk

LEMMA WriteStoredStep == TypeOK /\ ServiceInv /\ WriteStored => ServiceInv'
<1> SUFFICES ASSUME TypeOK, ServiceInv, WriteStored PROVE ServiceInv'
  OBVIOUS
<1>1. /\ writing \in Envelope /\ writing \in Pending /\ StoreWrite(writing)
      /\ Pump(queued, NoSave)
      /\ cached' = PlannedManifest(manifest, writing)
      /\ manifest' = PlannedManifest(manifest, writing)
      /\ UNCHANGED <<campaign, created, phase, manifestRead, nextSequence, captures>>
  BY DEF WriteStored, StoreWrite, TypeOK, Pending, hostVars
<1>2. /\ SlotIsWhole' /\ writing \in manifest'.saves /\ writing \in Kept(manifest, writing)
      /\ manifest'.campaign = writing.campaign
      /\ manifest'.saves \subseteq Previous(manifest, writing) \cup {writing}
      /\ Previous(manifest, writing) \subseteq manifest.saves
      /\ \A s \in manifest'.saves : s.campaign = writing.campaign
      /\ snapshots' \subseteq snapshots \cup {writing}
  BY <1>1, StoreWriteOk
<1>3. /\ QueueOk(queued', writing')
      /\ Pending' \subseteq {queued[i] : i \in DOMAIN queued}
      /\ Pending' \subseteq Pending
  BY <1>1, PumpAfterWrite
<1>4. manifest'.saves \subseteq manifest.saves \cup Pending
  BY <1>1, <1>2
<1>5. SequenceOrdersCaptures' /\ OnlySoundIsStored'
  BY <1>1, <1>2, <1>3, <1>4 DEF ServiceInv, SequenceOrdersCaptures, OnlySoundIsStored
<1>6. CapturesAreApart'
  BY <1>1, <1>3, <1>4 DEF ServiceInv, CapturesAreApart
<1>7. KindsAreOrdered'
  <2>1. \A e \in Pending', s \in manifest'.saves :
          e.kind = s.kind /\ e.campaign = s.campaign => s.at < e.at
    <3> SUFFICES ASSUME NEW e \in Pending', NEW s \in manifest'.saves,
                        e.kind = s.kind, e.campaign = s.campaign
                 PROVE  s.at < e.at
      OBVIOUS
    <3>1. CASE s = writing
      <4>1. PICK i \in DOMAIN queued : queued[i] = e
        BY <1>3
      <4>2. writing # NoSave
        BY DEF WriteStored
      <4> QED BY <3>1, <4>1, <4>2 DEF ServiceInv, KindsAreOrdered
    <3>2. CASE s # writing
      BY <1>2, <1>3, <3>2 DEF ServiceInv, KindsAreOrdered
    <3> QED BY <3>1, <3>2
  <2>2. \A e, f \in Pending' : e.campaign = f.campaign
    BY <1>3 DEF ServiceInv, KindsAreOrdered
  <2> QED BY <1>3, <2>1, <2>2 DEF KindsAreOrdered, QueueOk
<1>8. SavedStatusIsTrue'
  <2>1. lastSaved' = writing
    BY <1>2 DEF WriteStored
  <2>2. writing.at \in Nat /\ writing # NoSave
    BY <1>1, NoSaveAssumption DEF Envelope
  <2> QED BY <1>2, <2>1, <2>2 DEF SavedStatusIsTrue
<1>9. WritesBelongToSession'
  <2>1. ~(phase = "idle" /\ ~Open)
    BY DEF WriteStored, ServiceInv, WritesBelongToSession, Drained
  <2> QED BY <1>1, <1>3, <2>1 DEF ServiceInv, WritesBelongToSession, Open
<1>10. SlotIsKnownOrForeign'
  <2>1. manifestRead
    <3>1. ~(phase = "idle" /\ campaign = Closed)
      BY DEF WriteStored, ServiceInv, WritesBelongToSession, Drained, Open
    <3> QED BY <3>1 DEF ServiceInv, SlotIsKnownOrForeign
  <2>2. \A s \in manifest'.saves : s.seq < nextSequence'
    <3> SUFFICES ASSUME NEW s \in manifest'.saves, s # writing PROVE s.seq < nextSequence
      BY <1>1 DEF ServiceInv, CapturesAreApart
    <3>1. s \in manifest.saves /\ s.campaign = writing.campaign
      BY <1>2
    <3> QED BY <1>1, <2>1, <3>1 DEF ServiceInv, SlotIsKnownOrForeign
  <2>3. (\A s \in manifest'.saves : s.campaign \in created')
        /\ (\A e \in Pending' : e.campaign \in created')
    BY <1>1, <1>2, <1>3 DEF ServiceInv, SlotIsKnownOrForeign
  <2>4. manifestRead' /\ cached' = manifest'
    BY <1>1, <2>1
  <2>5. /\ Open' => campaign'.id \in created'
        /\ phase' \in {"create", "close"} => Open'
        /\ phase' = "reset" => ~Open'
    BY <1>1 DEF ServiceInv, SlotIsKnownOrForeign, Open
  <2> QED BY <2>2, <2>3, <2>4, <2>5 DEF SlotIsKnownOrForeign
<1> QED BY <1>2, <1>5, <1>6, <1>7, <1>8, <1>9, <1>10 DEF ServiceInv

\* A step that changes neither the slot nor what is on its way.
LEMMA QuietStep ==
  ASSUME TypeOK, ServiceInv,
         UNCHANGED <<manifest, lost, queued, writing, captures>>,
         snapshots' \subseteq snapshots, snapshots \subseteq snapshots' \cup lost',
         nextSequence' = nextSequence \/ Pending = {},
         UNCHANGED <<saveState, lastSaved>> \/ saveState' # "saved"
  PROVE  SlotIsWhole' /\ Orderly' /\ SavedStatusIsTrue' /\ Pending' = Pending
<1>1. Pending' = Pending
  BY DEF Pending
<1>2. SlotIsWhole'
  BY DEF ServiceInv, SlotIsWhole
<1>3. Orderly'
  BY <1>1 DEF ServiceInv, Orderly, SequenceOrdersCaptures, OnlySoundIsStored,
              CapturesAreApart, KindsAreOrdered
<1>4. SavedStatusIsTrue'
  BY DEF ServiceInv, SavedStatusIsTrue
<1> QED BY <1>1, <1>2, <1>3, <1>4

\* save() called for the open campaign meets the conditions of SaveOk.
LEMMA SaveOpen ==
  ASSUME TypeOK, ServiceInv, NEW kind \in Kinds, Open, phase # "reset",
         Save(campaign, kind), UNCHANGED <<slotVars, campaign, created, lastSaved>>,
         phase' # "reset"
  PROVE  ServiceInv'
<1>1. campaign \in Session
  BY DEF Open, TypeOK
<1>2. \A e \in Pending : e.campaign = campaign.id /\ e.rev <= campaign.rev
  BY DEF ServiceInv, WritesBelongToSession
<1>3. manifestRead
  BY DEF ServiceInv, SlotIsKnownOrForeign, Open
<1>4. \/ \A s \in manifest.saves : s.campaign # campaign.id
      \/ manifestRead /\ cached = manifest /\ \A s \in manifest.saves : s.seq < nextSequence
  BY <1>3 DEF ServiceInv, SlotIsKnownOrForeign
<1>5. /\ Orderly' /\ saveState' # "saved"
      /\ \A e \in Pending' : e \in Pending \/ (e.campaign = campaign.id /\ e.rev = campaign.rev)
      /\ campaign.sound => manifestRead'
      /\ ~campaign.sound => UNCHANGED <<cached, manifestRead, nextSequence>>
      /\ campaign.sound =>
           \/ cached' = manifest /\ \A s \in manifest.saves : s.seq < nextSequence'
           \/ cached' = NoManifest /\ \A s \in manifest.saves : s.campaign # campaign.id
  BY <1>1, <1>2, <1>4, SaveOk
<1>6. UNCHANGED <<manifest, snapshots, lost, campaign, created>> /\ Open'
  BY DEF slotVars, Open
<1>7. SlotIsWhole'
  BY <1>6 DEF ServiceInv, SlotIsWhole
<1>8. SavedStatusIsTrue'
  BY <1>5 DEF SavedStatusIsTrue
<1>9. campaign.rev \in Nat
  BY <1>1 DEF Session
<1>10. WritesBelongToSession'
  BY <1>2, <1>5, <1>6, <1>9 DEF WritesBelongToSession
<1>11. SlotIsKnownOrForeign'
  <2>1. manifestRead'
    BY <1>3, <1>5
  <2>2. \A e \in Pending' : e.campaign = campaign.id
    BY <1>2, <1>5
  <2>3. campaign.id \in created
    BY DEF ServiceInv, SlotIsKnownOrForeign
  <2>4. \/ cached' = manifest /\ \A s \in manifest.saves : s.seq < nextSequence'
        \/ cached' = NoManifest /\ \A s \in manifest.saves : s.campaign # campaign.id
    <3>1. CASE campaign.sound
      BY <1>5, <3>1
    <3>2. CASE ~campaign.sound
      BY <1>3, <1>5, <3>2 DEF ServiceInv, SlotIsKnownOrForeign
    <3> QED BY <3>1, <3>2
  <2>5. \A s \in manifest.saves : s.campaign \in created
    BY DEF ServiceInv, SlotIsKnownOrForeign
  <2> QED BY <1>6, <2>1, <2>2, <2>3, <2>4, <2>5 DEF SlotIsKnownOrForeign
<1> QED BY <1>5, <1>7, <1>8, <1>10, <1>11 DEF ServiceInv, Orderly

LEMMA CreateBeginStep ==
  ASSUME TypeOK, ServiceInv, NEW id \in Campaigns, CreateBegin(id)
  PROVE  ServiceInv'
<1> DEFINE new == [id |-> id, rev |-> 1, sound |-> TRUE]
<1>1. new \in Session /\ new.id = id /\ new.rev = 1 /\ new.sound
  BY DEF Session
<1>2. new # Closed
  BY <1>1, CampaignAssumption DEF Closed
<1>3. /\ phase = "idle" /\ ~Open /\ id \notin created /\ created' = created \cup {id}
      /\ campaign' = new /\ Save(new, "auto") /\ phase' = "create" /\ UNCHANGED slotVars
  BY DEF CreateBegin
<1> HIDE DEF new
<1>4. Pending = {}
  BY <1>3 DEF ServiceInv, WritesBelongToSession, Drained, Pending
<1>5. \A s \in manifest.saves : s.campaign # id
  BY <1>3 DEF ServiceInv, SlotIsKnownOrForeign
<1>6. /\ Orderly' /\ saveState' # "saved" /\ manifestRead'
      /\ \A e \in Pending' : e.campaign = id /\ e.rev = 1
      /\ \/ cached' = manifest /\ \A s \in manifest.saves : s.seq < nextSequence'
         \/ cached' = NoManifest /\ \A s \in manifest.saves : s.campaign # id
  BY <1>1, <1>3, <1>4, <1>5, SaveOk
<1>7. UNCHANGED <<manifest, snapshots, lost>>
  BY <1>3 DEF slotVars
<1>8. SlotIsWhole' /\ SavedStatusIsTrue'
  BY <1>6, <1>7 DEF ServiceInv, SlotIsWhole, SavedStatusIsTrue
<1>9. WritesBelongToSession'
  BY <1>1, <1>3, <1>6 DEF WritesBelongToSession
<1>10. SlotIsKnownOrForeign'
  <2>1. \A s \in manifest'.saves : s.campaign \in created'
    BY <1>3, <1>7 DEF ServiceInv, SlotIsKnownOrForeign
  <2>2. Open' /\ campaign'.id = id /\ id \in created' /\ phase' = "create"
    BY <1>1, <1>2, <1>3 DEF Open
  <2> QED BY <1>5, <1>6, <1>7, <2>1, <2>2 DEF SlotIsKnownOrForeign
<1> QED BY <1>6, <1>8, <1>9, <1>10 DEF ServiceInv, Orderly

\* ensureManifest() read while no campaign is open, and what a resume makes of
\* it: a campaign is opened only from a slot the service knows.
LEMMA ReadStep ==
  ASSUME TypeOK, ServiceInv, phase = "idle", ~Open, NEW read \in ManifestReads,
         NoteRead(read), nextSequence' = read.next,
         saveState' = IF read.failed THEN "failed" ELSE saveState,
         UNCHANGED <<slotVars, created, phase, queued, writing, lastSaved, captures>>,
         \/ campaign' = campaign
         \/ \E s \in read.cached.saves :
              campaign' = [id |-> s.campaign, rev |-> s.rev, sound |-> s.sound]
  PROVE  ServiceInv'
<1>1. /\ UNCHANGED <<manifest, snapshots, lost, created, phase, queued, writing, lastSaved, captures>>
      /\ manifestRead' = TRUE /\ cached' = read.cached
  BY DEF slotVars, NoteRead
<1>2. Pending = {} /\ queued = <<>> /\ writing = NoSave
  BY DEF ServiceInv, WritesBelongToSession, Drained, Pending
<1>3. SlotIsWhole' /\ Orderly' /\ SavedStatusIsTrue' /\ Pending' = {}
  BY <1>1, <1>2, QuietStep
<1>4. campaign = Closed /\ \A s \in manifest.saves : s.campaign \in Campaigns
  BY DEF Open, TypeOK, Manifest, Envelope
<1>5. \A s \in manifest.saves : s.campaign # campaign.id
  BY <1>4, CampaignAssumption DEF Closed
<1>6. \/ read.cached = manifest /\ \A s \in manifest.saves : s.seq < read.next
      \/ read.cached = NoManifest
  BY ReadsOk DEF ServiceInv, SlotIsKnownOrForeign
<1>7. \/ campaign' = campaign
      \/ \E s \in manifest.saves : read.cached = manifest /\
           campaign' = [id |-> s.campaign, rev |-> s.rev, sound |-> s.sound]
  BY <1>6 DEF NoManifest
<1>8. Open' => campaign'.id \in created'
  BY <1>1, <1>7 DEF ServiceInv, SlotIsKnownOrForeign, Open
<1>9. \/ cached' = manifest' /\ \A s \in manifest'.saves : s.seq < nextSequence'
      \/ cached' = NoManifest /\ \A s \in manifest'.saves : s.campaign # campaign'.id
  <2>1. CASE read.cached = manifest /\ \A s \in manifest.saves : s.seq < read.next
    BY <1>1, <2>1
  <2>2. CASE read.cached = NoManifest /\ manifest # NoManifest
    BY <1>1, <1>5, <1>7, <2>2
  <2>3. CASE read.cached = NoManifest /\ manifest = NoManifest
    BY <1>1, <2>3 DEF NoManifest
  <2> QED BY <1>6, <2>1, <2>2, <2>3
<1>10. \A s \in manifest'.saves : s.campaign \in created'
  BY <1>1 DEF ServiceInv, SlotIsKnownOrForeign
<1>11. SlotIsKnownOrForeign'
  BY <1>1, <1>3, <1>8, <1>9, <1>10 DEF SlotIsKnownOrForeign
<1>12. WritesBelongToSession'
  BY <1>1, <1>2, <1>3 DEF WritesBelongToSession, Drained
<1> QED BY <1>3, <1>11, <1>12 DEF ServiceInv, Orderly

LEMMA InvStep == TypeOK /\ ServiceInv /\ [Next]_vars => ServiceInv'
<1> SUFFICES ASSUME TypeOK, ServiceInv, [Next]_vars PROVE ServiceInv'
  OBVIOUS
<1> USE DEF slotVars, serviceVars, hostVars
<1>1. CASE WriteStored
  BY <1>1, WriteStoredStep
<1>2. CASE WriteRefused
  <2>1. /\ UNCHANGED <<manifest, snapshots, lost, campaign, created, phase, cached,
                       manifestRead, nextSequence, captures>>
        /\ writing # NoSave /\ saveState' = "failed" /\ Pump(queued, NoSave)
    BY <1>2 DEF WriteRefused
  <2>2. QueueOk(queued', writing') /\ Pending' \subseteq Pending
    BY <2>1, PumpAfterWrite
  <2>3. Orderly'
    BY <2>1, <2>2, ShrinkOk
  <2>4. SlotIsWhole' /\ SavedStatusIsTrue'
    BY <2>1 DEF ServiceInv, SlotIsWhole, SavedStatusIsTrue
  <2>5. WritesBelongToSession'
    BY <2>1, <2>2 DEF ServiceInv, WritesBelongToSession, Drained, Open
  <2>6. SlotIsKnownOrForeign'
    BY <2>1, <2>2 DEF ServiceInv, SlotIsKnownOrForeign, Open
  <2> QED BY <2>3, <2>4, <2>5, <2>6 DEF ServiceInv, Orderly
<1>3. ASSUME NEW sound \in BOOLEAN, CommitCommand(sound) PROVE ServiceInv'
  <2>1. campaign \in Session /\ Open /\ phase = "idle"
    BY <1>3 DEF CommitCommand, Open, TypeOK
  <2>2. campaign'.id = campaign.id /\ campaign'.rev = campaign.rev + 1 /\ campaign.rev \in Nat
    BY <1>3, <2>1 DEF CommitCommand, Session
  <2>3. Open'
    BY <2>1, <2>2, CampaignAssumption DEF Open, Closed, Session
  <2>4. UNCHANGED <<manifest, snapshots, lost, cached, manifestRead, nextSequence, queued,
                    writing, saveState, lastSaved, created, phase, captures>>
    BY <1>3 DEF CommitCommand
  <2>5. SlotIsWhole' /\ Orderly' /\ SavedStatusIsTrue' /\ Pending' = Pending
    BY <2>4, QuietStep
  <2>6. \A e \in Pending : e.campaign = campaign.id /\ e.rev <= campaign.rev /\ e.rev \in Nat
    <3>1. Pending \subseteq Envelope
      BY DEF Pending, TypeOK
    <3>2. \A e \in Pending : e.rev \in Nat
      BY <3>1 DEF Envelope
    <3>3. \A e \in Pending : e.campaign = campaign.id /\ e.rev <= campaign.rev
      BY <2>1 DEF ServiceInv, WritesBelongToSession
    <3> QED BY <3>2, <3>3
  <2>7. WritesBelongToSession'
    BY <2>2, <2>3, <2>5, <2>6 DEF WritesBelongToSession
  <2>8. SlotIsKnownOrForeign'
    BY <2>1, <2>2, <2>3, <2>4, <2>5 DEF ServiceInv, SlotIsKnownOrForeign, Open
  <2> QED BY <2>5, <2>7, <2>8 DEF ServiceInv, Orderly
<1>4. ASSUME NEW kind \in Kinds, SaveRequest(kind) PROVE ServiceInv'
  BY <1>4, SaveOpen DEF SaveRequest
<1>5. ASSUME NEW id \in Campaigns, CreateBegin(id) PROVE ServiceInv'
  BY <1>5, CreateBeginStep
<1>6. CASE CreateEnd \/ CloseEnd
  <2>1. /\ UNCHANGED <<manifest, snapshots, lost, cached, manifestRead, nextSequence, queued,
                       writing, saveState, lastSaved, created, captures>>
        /\ phase \in {"create", "close"} /\ phase' = "idle" /\ Drained
        /\ campaign' = campaign \/ campaign' = Closed
    BY <1>6 DEF CreateEnd, CloseEnd
  <2>2. SlotIsWhole' /\ Orderly' /\ SavedStatusIsTrue' /\ Pending' = Pending
    BY <2>1, QuietStep
  <2>3. Pending = {} /\ Drained'
    BY <2>1 DEF Drained, Pending
  <2>4. WritesBelongToSession'
    BY <2>1, <2>2, <2>3 DEF WritesBelongToSession
  <2>5. \A s \in manifest.saves : s.campaign # Closed.id
    BY CampaignAssumption DEF TypeOK, Manifest, Envelope, Closed
  <2>6. manifestRead
    BY <2>1 DEF ServiceInv, SlotIsKnownOrForeign
  <2>7. \/ cached' = manifest' /\ \A s \in manifest'.saves : s.seq < nextSequence'
        \/ cached' = NoManifest /\ \A s \in manifest'.saves : s.campaign # campaign'.id
    BY <2>1, <2>5, <2>6 DEF ServiceInv, SlotIsKnownOrForeign
  <2>8. SlotIsKnownOrForeign'
    BY <2>1, <2>2, <2>3, <2>6, <2>7 DEF ServiceInv, SlotIsKnownOrForeign, Open
  <2> QED BY <2>2, <2>4, <2>8 DEF ServiceInv, Orderly
<1>7. CASE CloseBegin
  BY <1>7, SaveOpen DEF CloseBegin
<1>8. CASE ResetBegin
  <2>1. /\ UNCHANGED <<manifest, snapshots, lost, cached, manifestRead, nextSequence, queued,
                       writing, saveState, lastSaved, created, captures>>
        /\ Open /\ phase' = "reset" /\ campaign' = Closed
    BY <1>8 DEF ResetBegin
  <2>2. SlotIsWhole' /\ Orderly' /\ SavedStatusIsTrue' /\ Pending' = Pending
    BY <2>1, QuietStep
  <2>3. WritesBelongToSession'
    BY <2>1 DEF WritesBelongToSession
  <2>4. \A s \in manifest.saves : s.campaign # Closed.id
    BY CampaignAssumption DEF TypeOK, Manifest, Envelope, Closed
  <2>5. manifestRead
    BY <2>1 DEF ServiceInv, SlotIsKnownOrForeign, Open
  <2>6. SlotIsKnownOrForeign'
    BY <2>1, <2>2, <2>4, <2>5 DEF ServiceInv, SlotIsKnownOrForeign, Open
  <2> QED BY <2>2, <2>3, <2>6 DEF ServiceInv, Orderly
<1>9. CASE ResetEnd
  <2>1. /\ phase = "reset" /\ Drained /\ phase' = "idle" /\ manifest' = NoManifest
        /\ snapshots' = {d \in snapshots : SaveId(d) \notin {SaveId(s) : s \in manifest.saves}}
        /\ cached' = NoManifest /\ manifestRead' = TRUE /\ nextSequence' = 1 /\ saveState' = "idle"
        /\ UNCHANGED <<campaign, created, queued, writing, captures>>
    BY <1>9 DEF ResetEnd, Cleared, StoreClear
  <2>2. manifest'.saves = {} /\ Pending' = {} /\ Drained'
    BY <2>1 DEF NoManifest, Drained, Pending
  <2>3. snapshots' = {}
    BY <2>1 DEF ServiceInv, SlotIsWhole
  <2>4. SlotIsWhole' /\ SavedStatusIsTrue'
    BY <2>1, <2>2, <2>3 DEF SlotIsWhole, SavedStatusIsTrue
  <2>5. Orderly'
    BY <2>1, <2>2, <2>3 DEF Orderly, SequenceOrdersCaptures, OnlySoundIsStored,
                            CapturesAreApart, KindsAreOrdered, Drained
  <2>6. WritesBelongToSession'
    BY <2>1, <2>2 DEF WritesBelongToSession
  <2>7. SlotIsKnownOrForeign'
    BY <2>1, <2>2 DEF ServiceInv, SlotIsKnownOrForeign, Open
  <2> QED BY <2>4, <2>5, <2>6, <2>7 DEF ServiceInv, Orderly
<1>10. CASE ResetRefused
  <2>1. /\ UNCHANGED <<manifest, snapshots, lost, campaign, created, cached, manifestRead,
                       nextSequence, queued, writing, lastSaved, captures>>
        /\ phase = "reset" /\ Drained /\ phase' = "idle" /\ saveState' = "failed"
    BY <1>10 DEF ResetRefused
  <2>2. SlotIsWhole' /\ Orderly' /\ SavedStatusIsTrue' /\ Pending' = Pending
    BY <2>1, QuietStep
  <2>3. Pending = {} /\ Drained'
    BY <2>1 DEF Drained, Pending
  <2>4. WritesBelongToSession'
    BY <2>2, <2>3 DEF WritesBelongToSession
  <2>5. manifestRead
    BY <2>1 DEF ServiceInv, SlotIsKnownOrForeign
  <2>6. SlotIsKnownOrForeign'
    BY <2>1, <2>2, <2>5 DEF ServiceInv, SlotIsKnownOrForeign, Open
  <2> QED BY <2>2, <2>4, <2>6 DEF ServiceInv, Orderly
<1>11. ASSUME NEW unreadable \in SUBSET manifest.saves, Resume(unreadable)
       PROVE  ServiceInv'
  BY <1>11, ReadStep DEF Resume
<1>12. CASE SlotRequest
  <2>1. ~Open
    BY <1>12 DEF SlotRequest, ServiceInv, SlotIsKnownOrForeign, Open
  <2> QED BY <1>12, <2>1, ReadStep DEF SlotRequest
<1>13. ASSUME NEW d \in snapshots, DamageDocument(d) PROVE ServiceInv'
  <2>1. /\ snapshots' = snapshots \ {d} /\ lost' = lost \cup {d}
        /\ UNCHANGED <<manifest, campaign, created, phase, cached, manifestRead, nextSequence,
                       queued, writing, saveState, lastSaved, captures>>
    BY <1>13 DEF DamageDocument, Damage
  <2>2. Pending' = Pending
    BY <2>1 DEF Pending
  <2>3. SlotIsWhole' /\ SavedStatusIsTrue'
    BY <2>1 DEF ServiceInv, SlotIsWhole, SavedStatusIsTrue
  <2>4. Orderly'
    BY <2>1, <2>2 DEF ServiceInv, Orderly, SequenceOrdersCaptures, OnlySoundIsStored,
                      CapturesAreApart, KindsAreOrdered
  <2>5. WritesBelongToSession' /\ SlotIsKnownOrForeign'
    BY <2>1, <2>2 DEF ServiceInv, WritesBelongToSession, SlotIsKnownOrForeign, Drained, Open
  <2> QED BY <2>3, <2>4, <2>5 DEF ServiceInv, Orderly
<1>14. CASE Crash
  <2>1. /\ UNCHANGED <<manifest, snapshots, lost, created, captures>>
        /\ campaign' = Closed /\ phase' = "idle" /\ manifestRead' = FALSE
        /\ queued' = <<>> /\ writing' = NoSave /\ saveState' = "idle"
    BY <1>14 DEF Crash
  <2>2. Pending' = {} /\ Drained' /\ ~Open'
    BY <2>1 DEF Pending, Drained, Open
  <2>3. SlotIsWhole' /\ SavedStatusIsTrue'
    BY <2>1 DEF ServiceInv, SlotIsWhole, SavedStatusIsTrue
  <2>4. Orderly'
    BY <2>1, <2>2 DEF ServiceInv, Orderly, SequenceOrdersCaptures, OnlySoundIsStored,
                      CapturesAreApart, KindsAreOrdered
  <2>5. WritesBelongToSession' /\ SlotIsKnownOrForeign'
    BY <2>1, <2>2 DEF ServiceInv, WritesBelongToSession, SlotIsKnownOrForeign
  <2> QED BY <2>3, <2>4, <2>5 DEF ServiceInv, Orderly
<1>15. CASE UNCHANGED vars
  BY <1>15 DEF vars, ServiceInv, SlotIsWhole, SequenceOrdersCaptures, SavedStatusIsTrue,
               OnlySoundIsStored, WritesBelongToSession, CapturesAreApart, KindsAreOrdered,
               SlotIsKnownOrForeign, Pending, Drained, Open
<1> QED BY <1>1, <1>2, <1>3, <1>4, <1>5, <1>6, <1>7, <1>8, <1>9, <1>10, <1>11,
           <1>12, <1>13, <1>14, <1>15 DEF Next

\* The inductive invariant holds in every behaviour of the service.
THEOREM InvariantHolds == Spec => []ServiceInv
<1>1. Init /\ TypeOK => ServiceInv
  BY InvInit
<1>2. TypeOK /\ ServiceInv /\ [Next]_vars => ServiceInv'
  BY InvStep
<1> QED BY <1>1, <1>2, TypeCorrect, InvInit, PTL DEF Spec

\* A slot stays whole whatever was refused, damaged, interrupted or restarted:
\* the write transaction and the rotation of retention.ts neither delete a
\* listed snapshot nor leave an unlisted one behind.
THEOREM SlotStaysWhole == Spec => []SlotIsWhole
<1>1. ServiceInv => SlotIsWhole
  BY DEF ServiceInv
<1> QED BY <1>1, InvariantHolds, PTL

\* Sequences order captures, across restarts and failed manifest reads.
THEOREM SequencesOrderCaptures == Spec => []SequenceOrdersCaptures
<1>1. ServiceInv => SequenceOrdersCaptures
  BY DEF ServiceInv
<1> QED BY <1>1, InvariantHolds, PTL

\* A status that says "saved" is true of the slot.
THEOREM SavedStatusStaysTrue == Spec => []SavedStatusIsTrue
<1>1. ServiceInv => SavedStatusIsTrue
  BY DEF ServiceInv
<1> QED BY <1>1, InvariantHolds, PTL

\* Nothing that fails the complete validation is ever stored.
THEOREM StoredIsSound == Spec => []OnlySoundIsStored
<1>1. ServiceInv => OnlySoundIsStored
  BY DEF ServiceInv
<1> QED BY <1>1, InvariantHolds, PTL

\* No write outlives the campaign it belongs to.
THEOREM WritesStayInSession == Spec => []WritesBelongToSession
<1>1. ServiceInv => WritesBelongToSession
  BY DEF ServiceInv
<1> QED BY <1>1, InvariantHolds, PTL

-----------------------------------------------------------------------------
(* Retention. *)

\* A finite set ordered by a transitive relation has an element with none
\* before it.
LEMMA FirstExists ==
  ASSUME NEW A, IsFiniteSet(A), A # {}, NEW R,
         \A x \in A : <<x, x>> \notin R,
         \A x, y, z \in A : <<x, y>> \in R /\ <<y, z>> \in R => <<x, z>> \in R
  PROVE  \E x \in A : \A y \in A : <<y, x>> \notin R
<1> DEFINE before(x) == {y \in A : <<y, x>> \in R}
           B == {before(x) : x \in A}
<1>1. IsWellFoundedOn(StrictSubsetOrdering(A), FiniteSubsetsOf(A))
  BY FS_StrictSubsetOrderingWellFounded
<1>2. B \subseteq FiniteSubsetsOf(A)
  <2> SUFFICES ASSUME NEW x \in A PROVE before(x) \in FiniteSubsetsOf(A)
    OBVIOUS
  <2>1. before(x) \subseteq A
    OBVIOUS
  <2>2. IsFiniteSet(before(x))
    BY <2>1, FS_Subset
  <2> QED BY <2>1, <2>2 DEF FiniteSubsetsOf
<1>3. B # {}
  <2>1. PICK a \in A : TRUE
    OBVIOUS
  <2>2. before(a) \in B
    BY <2>1
  <2> HIDE DEF B
  <2> QED BY <2>2
<1>4. PICK X \in B : \A Y \in B : ~ <<Y, X>> \in StrictSubsetOrdering(A)
  BY <1>1, <1>2, <1>3, WFMin
<1>5. PICK x \in A : X = before(x)
  BY <1>4
<1>6. ASSUME NEW y \in A, <<y, x>> \in R PROVE FALSE
  <2>1. before(y) \in B
    OBVIOUS
  <2>2. before(y) \subseteq X /\ y \in X /\ y \notin before(y) /\ X \subseteq A
    BY <1>5, <1>6
  <2> HIDE DEF before, B
  <2>3. before(y) \subseteq A /\ before(y) # X
    BY <2>2
  <2>4. <<before(y), X>> \in StrictSubsetOrdering(A)
    BY <2>2, <2>3 DEF StrictSubsetOrdering
  <2> QED BY <1>4, <2>1, <2>4
<1> QED BY <1>6

\* Of finitely many saves one has the lowest sequence, and one the highest.
LEMMA EndsExist ==
  ASSUME NEW A, IsFiniteSet(A), A # {}, A \subseteq Envelope
  PROVE  /\ \E s \in A : \A t \in A : s.seq <= t.seq
         /\ \E s \in A : \A t \in A : t.seq <= s.seq
<1>1. \A s \in A : s.seq \in Nat
  BY DEF Envelope
<1> DEFINE up == {p \in A \X A : p[1].seq < p[2].seq}
           down == {p \in A \X A : p[2].seq < p[1].seq}
<1>2. \A x, y \in A : /\ <<x, y>> \in up <=> x.seq < y.seq
                      /\ <<x, y>> \in down <=> y.seq < x.seq
  OBVIOUS
<1> HIDE DEF up, down
<1>3. /\ \A x \in A : <<x, x>> \notin up /\ <<x, x>> \notin down
      /\ \A x, y, z \in A : <<x, y>> \in up /\ <<y, z>> \in up => <<x, z>> \in up
      /\ \A x, y, z \in A : <<x, y>> \in down /\ <<y, z>> \in down => <<x, z>> \in down
  BY <1>1, <1>2
<1>4. PICK s \in A : \A t \in A : <<t, s>> \notin up
  BY <1>3, FirstExists
<1>5. PICK l \in A : \A t \in A : <<t, l>> \notin down
  BY <1>3, FirstExists
<1>6. ASSUME NEW t \in A PROVE s.seq <= t.seq
  <2>1. ~ (t.seq < s.seq)
    BY <1>2, <1>4
  <2>2. t.seq \in Nat /\ s.seq \in Nat
    BY <1>1
  <2> QED BY <2>1, <2>2
<1>7. ASSUME NEW t \in A PROVE t.seq <= l.seq
  <2>1. ~ (l.seq < t.seq)
    BY <1>2, <1>5
  <2>2. t.seq \in Nat /\ l.seq \in Nat
    BY <1>1
  <2> QED BY <2>1, <2>2
<1> QED BY <1>6, <1>7

\* Two candidates of one kind have different sequences.
LEMMA CandidatesAreApart ==
  ASSUME TypeOK, ServiceInv, NEW e \in Envelope,
         NEW s \in Candidates(manifest, e), NEW t \in Candidates(manifest, e),
         s.kind = t.kind, s.seq = t.seq
  PROVE  s = t
<1>1. SaveId(s) = SaveId(t)
  BY DEF SaveId
<1>2. Previous(manifest, e) \subseteq manifest.saves
  BY DEF Previous
<1>3. /\ s = e \/ (s \in manifest.saves /\ SaveId(s) # SaveId(e))
      /\ t = e \/ (t \in manifest.saves /\ SaveId(t) # SaveId(e))
  BY <1>2 DEF Candidates
<1> QED BY <1>1, <1>3, IdsAreUnique

\* planWrite() of retention.ts chooses among finitely many saves, all of the
\* slot's kind of record.
LEMMA CandidatesAreFinite ==
  ASSUME TypeOK, IsFiniteSet(manifest.saves), NEW e \in Envelope
  PROVE  /\ Candidates(manifest, e) \subseteq Envelope
         /\ IsFiniteSet(Candidates(manifest, e))
         /\ IsFiniteSet(Kept(manifest, e))
         /\ \A s : IsFiniteSet(NewerOfKind(s, Candidates(manifest, e)))
<1>1. Candidates(manifest, e) \subseteq manifest.saves \cup {e}
  BY DEF Candidates, Previous
<1>2. manifest.saves \subseteq Envelope
  BY DEF TypeOK, Manifest
<1>3. IsFiniteSet(manifest.saves \cup {e})
  BY FS_AddElement
<1>4. IsFiniteSet(Candidates(manifest, e))
  BY <1>1, <1>3, FS_Subset
<1>5. Kept(manifest, e) \subseteq Candidates(manifest, e)
  BY DEF Kept
<1>6. IsFiniteSet(Kept(manifest, e))
  BY <1>4, <1>5, FS_Subset
<1>7. ASSUME NEW s PROVE IsFiniteSet(NewerOfKind(s, Candidates(manifest, e)))
  <2>1. NewerOfKind(s, Candidates(manifest, e)) \subseteq Candidates(manifest, e)
    BY DEF NewerOfKind
  <2> QED BY <1>4, <2>1, FS_Subset
<1> QED BY <1>1, <1>2, <1>4, <1>6, <1>7

\* The rotation leaves no more saves of a kind than there is room for: the
\* oldest one kept has all the others among those newer than it.
LEMMA RotationFits ==
  ASSUME TypeOK, ServiceInv, IsFiniteSet(manifest.saves), NEW e \in Envelope,
         NEW k \in Kinds
  PROVE  Cardinality({s \in Kept(manifest, e) : s.kind = k}) <= Room[k]
<1> DEFINE cands == Candidates(manifest, e)
           A == {s \in Kept(manifest, e) : s.kind = k}
<1>1. /\ cands \subseteq Envelope /\ IsFiniteSet(cands) /\ IsFiniteSet(Kept(manifest, e))
      /\ \A s : IsFiniteSet(NewerOfKind(s, cands))
  BY CandidatesAreFinite
<1>2. A \subseteq Kept(manifest, e) /\ A \subseteq cands
  BY DEF Kept
<1>3. IsFiniteSet(A) /\ A \subseteq Envelope
  BY <1>1, <1>2, FS_Subset
<1>4. Room[k] \in Nat
  BY RetentionAssumption DEF Room
<1>5. CASE A = {}
  <2>1. Cardinality(A) = 0
    BY <1>5, FS_EmptySet
  <2> HIDE DEF A
  <2>2. Cardinality(A) <= Room[k]
    BY <1>4, <2>1
  <2> QED BY <2>2 DEF A
<1>6. CASE A # {}
  <2>1. PICK s \in A : \A t \in A : s.seq <= t.seq
    BY <1>3, <1>6, EndsExist
  <2>2. s.kind = k /\ s \in Kept(manifest, e) /\ \A t \in A : t.kind = k
    OBVIOUS
  <2>3. Cardinality(NewerOfKind(s, cands)) < Room[k]
    BY <2>2 DEF Kept
  <2>4. A \ {s} \subseteq NewerOfKind(s, cands)
    <3> SUFFICES ASSUME NEW t \in A, t # s PROVE t \in NewerOfKind(s, cands)
      OBVIOUS
    <3>1. t \in cands /\ s \in cands /\ t.kind = s.kind
      BY <1>2, <2>2
    <3>2. t.seq # s.seq
      BY <3>1, CandidatesAreApart
    <3>3. t.seq \in Nat /\ s.seq \in Nat
      BY <1>3 DEF Envelope
    <3>4. t.seq > s.seq
      BY <2>1, <3>2, <3>3
    <3> QED BY <3>1, <3>4 DEF NewerOfKind
  <2> HIDE DEF A, cands
  <2>5. Cardinality(A \ {s}) <= Cardinality(NewerOfKind(s, cands))
    BY <1>1, <2>4, FS_Subset
  <2>6. Cardinality(A \ {s}) = Cardinality(A) - 1
    BY <1>3, FS_RemoveElement
  <2>7. Cardinality(A) \in Nat /\ Cardinality(NewerOfKind(s, cands)) \in Nat
    BY <1>1, <1>3, FS_CardinalityType
  <2>8. Cardinality(A) <= Room[k]
    BY <1>4, <2>3, <2>5, <2>6, <2>7
  <2> QED BY <2>8 DEF A
<1> QED BY <1>5, <1>6

\* The slot's manifest changes by a write or by the clear of a reset only.
LEMMA SlotSteps ==
  ASSUME [Next]_vars
  PROVE  \/ UNCHANGED manifest
         \/ manifest' = NoManifest /\ phase = "reset"
         \/ WriteStored
<1> USE DEF slotVars
<1>1. CASE WriteRefused \/ CreateEnd \/ CloseBegin \/ CloseEnd \/ ResetBegin
           \/ ResetRefused \/ SlotRequest \/ Crash \/ UNCHANGED vars
  BY <1>1 DEF WriteRefused, CreateEnd, CloseBegin, CloseEnd, ResetBegin, ResetRefused,
              SlotRequest, Crash, vars
<1>2. CASE ResetEnd
  BY <1>2 DEF ResetEnd, Cleared, StoreClear
<1>3. CASE \/ \E sound \in BOOLEAN : CommitCommand(sound)
           \/ \E kind \in Kinds : SaveRequest(kind)
           \/ \E id \in Campaigns : CreateBegin(id)
           \/ \E unreadable \in SUBSET manifest.saves : Resume(unreadable)
           \/ \E d \in snapshots : DamageDocument(d)
  BY <1>3 DEF CommitCommand, SaveRequest, CreateBegin, Resume, DamageDocument, Damage
<1> QED BY <1>1, <1>2, <1>3 DEF Next

\* The slot lists finitely many saves, and of no kind more than retained.
SlotFits ==
  /\ IsFiniteSet(manifest.saves)
  /\ \A k \in Kinds : Cardinality({s \in manifest.saves : s.kind = k}) <= Room[k]

LEMMA EmptyFits ==
  ASSUME manifest = NoManifest
  PROVE  SlotFits
<1>1. manifest.saves = {}
  BY DEF NoManifest
<1>2. \A k \in Kinds : {s \in manifest.saves : s.kind = k} = {}
  BY <1>1
<1>3. IsFiniteSet({}) /\ Cardinality({}) = 0
  BY FS_EmptySet
<1>4. \A k \in Kinds : Room[k] \in Nat
  BY RetentionAssumption DEF Room
<1>5. \A k \in Kinds : Cardinality({s \in manifest.saves : s.kind = k}) <= Room[k]
  <2> SUFFICES ASSUME NEW k \in Kinds
               PROVE  Cardinality({s \in manifest.saves : s.kind = k}) <= Room[k]
    OBVIOUS
  <2>1. Cardinality({s \in manifest.saves : s.kind = k}) = 0
    BY <1>2, <1>3
  <2> QED BY <1>4, <2>1
<1> QED BY <1>1, <1>3, <1>5 DEF SlotFits

LEMMA FitsStep == TypeOK /\ ServiceInv /\ SlotFits /\ [Next]_vars => SlotFits'
<1> SUFFICES ASSUME TypeOK, ServiceInv, SlotFits, [Next]_vars PROVE SlotFits'
  OBVIOUS
<1>1. CASE UNCHANGED manifest
  BY <1>1 DEF SlotFits
<1>2. CASE manifest' = NoManifest
  <2>1. manifest'.saves = {}
    BY <1>2 DEF NoManifest
  <2>2. \A k \in Kinds : {s \in manifest'.saves : s.kind = k} = {}
    BY <2>1
  <2>3. IsFiniteSet({}) /\ Cardinality({}) = 0
    BY FS_EmptySet
  <2>4. \A k \in Kinds : Room[k] \in Nat
    BY RetentionAssumption DEF Room
  <2>5. ASSUME NEW k \in Kinds
        PROVE  Cardinality({s \in manifest'.saves : s.kind = k}) <= Room[k]
    <3>1. Cardinality({s \in manifest'.saves : s.kind = k}) = 0
      BY <2>2, <2>3
    <3> QED BY <2>4, <3>1
  <2> QED BY <2>1, <2>3, <2>5 DEF SlotFits
<1>3. CASE WriteStored
  <2>1. writing \in Envelope /\ IsFiniteSet(manifest.saves)
    BY <1>3 DEF WriteStored, TypeOK, SlotFits
  <2>2. manifest'.saves = Kept(manifest, writing)
    BY <1>3 DEF WriteStored, StoreWrite, PlannedManifest
  <2>3. IsFiniteSet(manifest'.saves)
    BY <2>1, <2>2, CandidatesAreFinite
  <2>4. ASSUME NEW k \in Kinds
        PROVE  Cardinality({s \in manifest'.saves : s.kind = k}) <= Room[k]
    BY <2>1, <2>2, RotationFits
  <2> QED BY <2>3, <2>4 DEF SlotFits
<1> QED BY <1>1, <1>2, <1>3, SlotSteps

LEMMA FitsInit == Init => SlotFits
  BY EmptyFits DEF Init, SlotInit

\* The slot fits its retention in every behaviour.
THEOREM SlotAlwaysFits == Spec => []SlotFits
  BY FitsInit, FitsStep, TypeCorrect, InvariantHolds, PTL DEF Spec

\* A slot never keeps more saves of a kind than the retention allows, nor two
\* under one id, whatever order the writes of planWrite() arrive in.
THEOREM RetentionIsKept == Spec => []RetentionHolds
<1>1. TypeOK /\ ServiceInv /\ SlotFits => RetentionHolds
  BY IdsAreUnique DEF SlotFits, RetentionHolds
<1> QED BY <1>1, TypeCorrect, InvariantHolds, SlotAlwaysFits, PTL

\* What the player finds in the slot dangles nowhere, leaks nothing and stays
\* within its room (indexedDbSaveStore.ts:97-141, retention.ts:36-80).
THEOREM SlotStaysSound == Spec => []SlotIsSound
  BY SlotStaysWhole, RetentionIsKept, PTL DEF SlotIsSound

-----------------------------------------------------------------------------
(* What a write does to the slot. *)

\* Of the candidates of a kind the newest is kept.
LEMMA NewestIsKept ==
  ASSUME TypeOK, ServiceInv, IsFiniteSet(manifest.saves), NEW e \in Envelope,
         NEW s \in Candidates(manifest, e)
  PROVE  \E t \in Kept(manifest, e) : t.kind = s.kind /\ s.seq <= t.seq
<1> DEFINE cands == Candidates(manifest, e)
           A == {t \in cands : t.kind = s.kind}
<1>1. cands \subseteq Envelope /\ IsFiniteSet(cands)
  BY CandidatesAreFinite
<1>2. A \subseteq cands /\ s \in A
  OBVIOUS
<1>3. IsFiniteSet(A) /\ A \subseteq Envelope /\ A # {}
  BY <1>1, <1>2, FS_Subset
<1>4. PICK t \in A : \A u \in A : u.seq <= t.seq
  BY <1>3, EndsExist
<1>5. t.kind = s.kind /\ t \in cands
  OBVIOUS
<1>6. NewerOfKind(t, cands) = {}
  <2> SUFFICES ASSUME NEW u \in cands, u.kind = t.kind, u.seq > t.seq PROVE FALSE
    BY DEF NewerOfKind
  <2>1. u \in A
    BY <1>5
  <2>2. u.seq \in Nat /\ t.seq \in Nat
    BY <1>3, <2>1 DEF Envelope
  <2> QED BY <1>4, <2>1, <2>2
<1>7. Cardinality(NewerOfKind(t, cands)) = 0
  BY <1>6, FS_EmptySet
<1>8. Room[t.kind] \in Nat \ {0}
  <2>1. t.kind \in Kinds
    BY <1>3 DEF Envelope
  <2> QED BY <2>1, RetentionAssumption DEF Room
<1>9. Cardinality(NewerOfKind(t, cands)) < Room[t.kind]
  BY <1>7, <1>8
<1>10. t \in Kept(manifest, e)
  BY <1>5, <1>9 DEF Kept
<1> QED BY <1>2, <1>4, <1>5, <1>10

\* One write's part of NewestSurvivesRotation.
LEMMA RotationStep ==
  ASSUME TypeOK, ServiceInv, SlotFits, WriteStored,
         manifest'.campaign = manifest.campaign,
         NEW s \in manifest.saves \cup {writing}
  PROVE  \E t \in manifest'.saves : t.kind = s.kind /\ t.at >= s.at
<1>1. writing \in Envelope /\ writing \in Pending /\ IsFiniteSet(manifest.saves)
  BY DEF WriteStored, TypeOK, Pending, SlotFits
<1>2. /\ manifest'.saves = Kept(manifest, writing)
      /\ manifest'.campaign = writing.campaign
  BY DEF WriteStored, StoreWrite, PlannedManifest
<1>3. writing \in manifest'.saves
  BY <1>1, StoreWriteOk DEF WriteStored
<1>4. /\ \A t \in manifest.saves : t.campaign = writing.campaign /\ t.at \in Nat /\ t.seq \in Nat
      /\ writing.at \in Nat /\ writing.seq \in Nat
  BY <1>1, <1>2 DEF ServiceInv, SlotIsWhole, TypeOK, Manifest, Envelope
<1>5. CASE s = writing
  BY <1>3, <1>4, <1>5
<1>6. CASE s \in manifest.saves /\ s.kind = writing.kind
  <2>1. s.at < writing.at
    BY <1>1, <1>4, <1>6 DEF ServiceInv, KindsAreOrdered
  <2>2. writing.at >= s.at
    BY <1>4, <1>6, <2>1
  <2> QED BY <1>3, <1>6, <2>2
<1>7. CASE s \in manifest.saves /\ s.kind # writing.kind
  <2>1. s \in Candidates(manifest, writing)
    BY <1>2, <1>7 DEF Candidates, Previous, SaveId
  <2>2. PICK t \in Kept(manifest, writing) : t.kind = s.kind /\ s.seq <= t.seq
    BY <1>1, <2>1, NewestIsKept
  <2>3. t \in manifest.saves
    BY <1>7, <2>2 DEF Kept, Candidates, Previous
  <2>4. ~ (t.at < s.at)
    BY <1>4, <1>7, <2>2, <2>3 DEF ServiceInv, SequenceOrdersCaptures
  <2>5. t.at >= s.at
    BY <1>4, <1>7, <2>3, <2>4
  <2> QED BY <1>2, <2>2, <2>5
<1> QED BY <1>5, <1>6, <1>7

\* Rotation never gives up the newest capture of a kind, whatever retention and
\* whatever the order the kinds' writes arrive in.
THEOREM NewestSurvives == Spec => NewestSurvivesRotation
<1>1. TypeOK /\ ServiceInv /\ SlotFits =>
        [WriteStored /\ manifest'.campaign = manifest.campaign =>
           \A s \in manifest.saves \cup {writing} :
             \E t \in manifest'.saves : t.kind = s.kind /\ t.at >= s.at]_vars
  BY RotationStep
<1> QED BY <1>1, TypeCorrect, InvariantHolds, SlotAlwaysFits, PTL
        DEF NewestSurvivesRotation

\* A write that changes the slot's campaign is of the open one, or of the one
\* a reset is about to clear.
THEOREM SlotFollows == Spec => SlotFollowsSession
<1>1. TypeOK /\ ServiceInv /\ [Next]_vars =>
        [manifest'.campaign \notin {manifest.campaign, NoCampaign} =>
           phase = "reset" \/ manifest'.campaign = campaign.id]_manifest
  <2> SUFFICES ASSUME TypeOK, ServiceInv, [Next]_vars,
                      manifest'.campaign \notin {manifest.campaign, NoCampaign}
               PROVE  phase = "reset" \/ manifest'.campaign = campaign.id
    OBVIOUS
  <2>1. WriteStored
    BY SlotSteps DEF NoManifest
  <2>2. manifest'.campaign = writing.campaign /\ writing \in Pending
    BY <2>1 DEF WriteStored, StoreWrite, PlannedManifest, Pending
  <2> QED BY <2>2 DEF ServiceInv, WritesBelongToSession
<1> QED BY <1>1, TypeCorrect, InvariantHolds, PTL DEF Spec, SlotFollowsSession

-----------------------------------------------------------------------------
(* A close without faults. *)

\* pump() loses nothing.
LEMMA PumpLosesNothing ==
  ASSUME NEW q \in Seq(Envelope), NEW w \in Envelope \cup {NoSave}, Pump(q, w)
  PROVE  PendingOf(q, w) \subseteq PendingOf(queued', writing')
<1>1. CASE w = NoSave /\ q # <<>>
  <2>1. writing' = Head(q) /\ queued' = Tail(q)
    BY <1>1 DEF Pump
  <2>2. /\ Len(q) \in Nat \ {0} /\ DOMAIN q = 1..Len(q)
        /\ Head(q) = q[1]
        /\ DOMAIN Tail(q) = 1..(Len(q) - 1)
        /\ \A i \in 1..(Len(q) - 1) : Tail(q)[i] = q[i + 1]
    BY <1>1
  <2>3. ASSUME NEW i \in DOMAIN q PROVE q[i] \in PendingOf(Tail(q), q[1])
    <3>1. q[i] \in Envelope
      OBVIOUS
    <3>2. CASE i = 1
      BY <3>1, <3>2, NoSaveAssumption DEF PendingOf
    <3>3. CASE i # 1
      <4>1. i - 1 \in 1..(Len(q) - 1) /\ Tail(q)[i - 1] = q[i]
        BY <2>2, <3>3
      <4> QED BY <2>2, <4>1 DEF PendingOf
    <3> QED BY <3>2, <3>3
  <2>4. PendingOf(q, w) = {q[i] : i \in DOMAIN q}
    BY <1>1 DEF PendingOf
  <2> QED BY <2>1, <2>2, <2>3, <2>4
<1>2. CASE ~(w = NoSave /\ q # <<>>)
  BY <1>2 DEF Pump
<1> QED BY <1>1, <1>2

\* Enqueue() takes in a capture no older in its campaign than what waits.
LEMMA EnqueueTakesIn ==
  ASSUME NEW q \in Seq(Envelope), NEW e, \A i \in DOMAIN q : q[i].rev <= e.rev
  PROVE  \E i \in DOMAIN Enqueue(q, e) : Enqueue(q, e)[i] = e
<1>1. CASE \E i \in DOMAIN q : q[i].kind = e.kind
  BY <1>1 DEF Enqueue
<1>2. CASE ~ \E i \in DOMAIN q : q[i].kind = e.kind
  <2>1. Enqueue(q, e) = Append(q, e)
    BY <1>2 DEF Enqueue
  <2>2. /\ Len(q) \in Nat /\ DOMAIN Append(q, e) = 1..(Len(q) + 1)
        /\ Append(q, e)[Len(q) + 1] = e
    OBVIOUS
  <2>3. Len(q) + 1 \in DOMAIN Append(q, e)
    BY <2>2
  <2> QED BY <2>1, <2>2, <2>3
<1> QED BY <1>1, <1>2

\* What a close begins with: its capture is queued or in flight, and newer
\* than all of its campaign.
LEMMA CloseBeginStep ==
  ASSUME TypeOK, ServiceInv, CloseBegin
  PROVE  ClosingSaveIsNewest'
<1> SUFFICES ASSUME campaign.sound
             PROVE  \E e \in Pending' :
                      /\ e.campaign = campaign.id /\ e.rev = campaign.rev
                      /\ \A t \in manifest'.saves \cup Pending' :
                           t.campaign = e.campaign => t.seq <= e.seq
  BY DEF ClosingSaveIsNewest, CloseBegin
<1>1. /\ phase = "idle" /\ Open /\ Save(campaign, "auto")
      /\ UNCHANGED <<manifest, snapshots, lost, campaign>>
  BY DEF CloseBegin, slotVars
<1>2. campaign \in Session /\ manifestRead
  BY <1>1 DEF Open, TypeOK, ServiceInv, SlotIsKnownOrForeign
<1>3. PICK read \in ManifestReads :
        Pump(Enqueue(queued, Capture(campaign, "auto", read.next)), writing)
  BY <1>1 DEF Save
<1>4. read.next = nextSequence /\ nextSequence \in Nat \ {0}
  BY <1>2, ReadsOk DEF TypeOK
<1> DEFINE e == Capture(campaign, "auto", nextSequence)
           q == Enqueue(queued, e)
<1>5. /\ e.campaign = campaign.id /\ e.rev = campaign.rev /\ e.seq = nextSequence
      /\ e.at = captures + 1
  BY DEF Capture
<1>6. e \in Envelope
  BY <1>2, <1>4, CaptureType
<1>7. queued \in Seq(Envelope) /\ writing \in Envelope \cup {NoSave} /\ captures \in Nat
  BY DEF TypeOK
<1> HIDE DEF e
<1>8. /\ Pending = PendingOf(queued, writing) /\ Pending' = PendingOf(queued', writing')
      /\ Pending \subseteq Envelope
  BY <1>7 DEF Pending, PendingOf
<1>9. \A f \in Pending : f.campaign = campaign.id /\ f.rev <= campaign.rev /\ f.seq < nextSequence
                         /\ f.at <= captures
  BY <1>1 DEF ServiceInv, WritesBelongToSession, CapturesAreApart
<1>10. \A s \in manifest.saves : s.campaign = campaign.id => s.seq < nextSequence
  BY <1>2 DEF ServiceInv, SlotIsKnownOrForeign
<1>11. QueueOk(queued, writing)
  BY DEF ServiceInv, KindsAreOrdered, QueueOk
<1>12. \A f \in Pending : f.at < e.at
  <2>1. \A f \in Pending : f.at \in Nat
    BY <1>8 DEF Envelope
  <2> QED BY <1>5, <1>7, <1>9, <2>1
<1>13. /\ q \in Seq(Envelope) /\ QueueOk(q, writing)
       /\ PendingOf(q, writing) \subseteq Pending \cup {e}
  BY <1>6, <1>7, <1>8, <1>11, <1>12, EnqueueOk
<1>14. \E i \in DOMAIN q : q[i] = e
  <2>1. \A i \in DOMAIN queued : queued[i] \in Pending
    BY DEF Pending
  <2>2. \A i \in DOMAIN queued : queued[i].rev <= e.rev
    BY <1>5, <1>9, <2>1
  <2> QED BY <1>7, <2>2, EnqueueTakesIn
<1>15. e \in PendingOf(q, writing)
  BY <1>14 DEF PendingOf
<1>16. Pump(q, writing)
  BY <1>3, <1>4 DEF e
<1> HIDE DEF q
<1>17. Pending' \subseteq Pending \cup {e}
  BY <1>7, <1>8, <1>13, <1>16, PumpOk
<1>18. e \in Pending'
  BY <1>7, <1>8, <1>13, <1>15, <1>16, PumpLosesNothing
<1>19. ASSUME NEW t \in manifest'.saves \cup Pending', t.campaign = e.campaign
       PROVE  t.seq <= e.seq
  <2>1. manifest'.saves = manifest.saves
    BY <1>1
  <2>2. \A f \in manifest.saves \cup Pending : f.seq \in Nat
    BY <1>8 DEF TypeOK, Manifest, Envelope
  <2> QED BY <1>4, <1>5, <1>9, <1>10, <1>17, <1>19, <2>1, <2>2
<1> QED BY <1>5, <1>18, <1>19

\* A write keeps it: the newest of a campaign is never rotated out.
LEMMA CloseWriteStep ==
  ASSUME TypeOK, ServiceInv, SlotFits, ClosingSaveIsNewest, WriteStored
  PROVE  ClosingSaveIsNewest'
<1> SUFFICES ASSUME phase = "close", campaign.sound, faults = 0
             PROVE  \E e \in manifest'.saves \cup Pending' :
                      /\ e.campaign = campaign.id /\ e.rev = campaign.rev
                      /\ \A t \in manifest'.saves \cup Pending' :
                           t.campaign = e.campaign => t.seq <= e.seq
  BY DEF ClosingSaveIsNewest, WriteStored, hostVars
<1>1. PICK e \in manifest.saves \cup Pending :
        /\ e.campaign = campaign.id /\ e.rev = campaign.rev
        /\ \A t \in manifest.saves \cup Pending : t.campaign = e.campaign => t.seq <= e.seq
  BY DEF ClosingSaveIsNewest
<1>2. /\ writing \in Envelope /\ writing \in Pending /\ StoreWrite(writing)
      /\ Pump(queued, NoSave) /\ manifest'.saves = Kept(manifest, writing)
  BY DEF WriteStored, StoreWrite, PlannedManifest, TypeOK, Pending
<1>3. /\ writing \in manifest'.saves
      /\ manifest'.saves \subseteq manifest.saves \cup {writing}
  BY <1>2, StoreWriteOk
<1>4. writing.campaign = campaign.id
  BY <1>2 DEF ServiceInv, WritesBelongToSession
<1>5. Pending' = {queued[i] : i \in DOMAIN queued}
  <2>1. queued \in Seq(Envelope)
    BY DEF TypeOK
  <2>2. PendingOf(queued, NoSave) = {queued[i] : i \in DOMAIN queued}
    BY DEF PendingOf
  <2>3. Pending' = PendingOf(queued', writing')
    BY DEF Pending, PendingOf
  <2>4. PendingOf(queued, NoSave) \subseteq Pending'
    BY <1>2, <2>1, <2>3, PumpLosesNothing
  <2> QED BY <1>2, <2>2, <2>4, PumpAfterWrite
<1>6. manifest'.saves \cup Pending' \subseteq manifest.saves \cup Pending
  BY <1>2, <1>3, <1>5 DEF Pending
<1>7. e \in manifest'.saves \cup Pending'
  <2>1. CASE e \in Pending
    BY <1>3, <1>5, <2>1 DEF Pending
  <2>2. CASE e \in manifest.saves
    <3>1. \A s \in manifest.saves : s.campaign = campaign.id
      BY <1>1, <2>2 DEF ServiceInv, SlotIsWhole
    <3>2. manifest.campaign = writing.campaign
      BY <1>1, <1>4, <2>2 DEF ServiceInv, SlotIsWhole
    <3>3. \A t \in manifest.saves \cup {writing} : t.seq \in Nat /\ t.seq <= e.seq
      BY <1>1, <1>2, <1>4, <3>1 DEF TypeOK, Manifest, Envelope
    <3>4. SaveId(e) # SaveId(writing)
      <4>1. SUFFICES ASSUME e.kind = writing.kind, e.seq = writing.seq PROVE FALSE
        BY DEF SaveId
      <4>2. e.seq < writing.seq
        BY <1>1, <1>2, <1>4, <2>2, <4>1, PendingIsNewest
      <4> QED BY <2>2, <3>3, <4>1, <4>2
    <3>5. e \in Candidates(manifest, writing)
      BY <2>2, <3>2, <3>4 DEF Candidates, Previous
    <3>6. PICK t \in Kept(manifest, writing) : t.kind = e.kind /\ e.seq <= t.seq
      BY <1>2, <3>5, NewestIsKept DEF SlotFits
    <3>7. t \in Candidates(manifest, writing) /\ t \in manifest.saves \cup {writing}
      BY <1>2, <1>3, <3>6 DEF Kept
    <3>8. t.seq = e.seq
      BY <2>2, <3>3, <3>6, <3>7
    <3>9. t = e
      BY <1>2, <3>5, <3>6, <3>7, <3>8, CandidatesAreApart
    <3> QED BY <1>2, <3>6, <3>9
  <2> QED BY <2>1, <2>2
<1> QED BY <1>1, <1>6, <1>7

LEMMA ClosingInit == Init => ClosingSaveIsNewest
  BY DEF Init, ClosingSaveIsNewest

LEMMA ClosingStep ==
  TypeOK /\ ServiceInv /\ SlotFits /\ ClosingSaveIsNewest /\ [Next]_vars
    => ClosingSaveIsNewest'
<1> SUFFICES ASSUME TypeOK, ServiceInv, SlotFits, ClosingSaveIsNewest, [Next]_vars
             PROVE  ClosingSaveIsNewest'
  OBVIOUS
<1> USE DEF slotVars, serviceVars, hostVars
<1>1. CASE WriteStored
  BY <1>1, CloseWriteStep
<1>2. CASE CloseBegin
  BY <1>2, CloseBeginStep
<1>3. CASE \/ WriteRefused
           \/ ResetRefused
           \/ \E d \in snapshots : DamageDocument(d)
           \/ Crash
  <2>1. faults' # 0
    BY <1>3 DEF WriteRefused, ResetRefused, DamageDocument, Crash, Fault, TypeOK
  <2> QED BY <2>1 DEF ClosingSaveIsNewest
<1>4. CASE \/ \E sound \in BOOLEAN : CommitCommand(sound)
           \/ \E kind \in Kinds : SaveRequest(kind)
           \/ \E id \in Campaigns : CreateBegin(id)
           \/ CreateEnd \/ CloseEnd \/ ResetBegin \/ ResetEnd \/ SlotRequest
           \/ \E unreadable \in SUBSET manifest.saves : Resume(unreadable)
  <2>1. phase' # "close"
    BY <1>4 DEF CommitCommand, SaveRequest, CreateBegin, CreateEnd, CloseEnd, ResetBegin,
                ResetEnd, SlotRequest, Resume
  <2> QED BY <2>1 DEF ClosingSaveIsNewest
<1>5. CASE UNCHANGED vars
  BY <1>5 DEF vars, ClosingSaveIsNewest, Pending
<1> QED BY <1>1, <1>2, <1>3, <1>4, <1>5 DEF Next

\* While a close is waited for, and nothing failed, its capture is safe.
THEOREM ClosingSaveStaysNewest == Spec => []ClosingSaveIsNewest
  BY ClosingInit, ClosingStep, TypeCorrect, InvariantHolds, SlotAlwaysFits, PTL DEF Spec

\* A close answered before anything failed leaves the campaign durable at the
\* revision it was closed at, and on top of what resume would open.
THEOREM CloseIsDurable == Spec => CloseIsDurableWithoutFaults
<1>1. TypeOK /\ ServiceInv /\ ClosingSaveIsNewest /\ [Next]_vars =>
        [Closing /\ campaign.sound /\ faults = 0 => IsDurable(campaign)]_phase
  <2> SUFFICES ASSUME TypeOK, ServiceInv, ClosingSaveIsNewest, [Next]_vars,
                      phase = "close", phase' = "idle", faults' = faults,
                      campaign.sound, faults = 0
               PROVE  IsDurable(campaign)
    BY DEF Closing
  <2> USE DEF slotVars, serviceVars, hostVars
  <2>1. CloseEnd
    <3>1. ~ Crash
      BY DEF Crash, Fault
    <3>2. ~ UNCHANGED vars
      BY DEF vars
    <3>3. ~ WriteStored /\ ~ WriteRefused
      BY DEF WriteStored, WriteRefused
    <3>4. ~ \E d \in snapshots : DamageDocument(d)
      BY DEF DamageDocument
    <3>5. /\ ~ \E sound \in BOOLEAN : CommitCommand(sound)
          /\ ~ \E kind \in Kinds : SaveRequest(kind)
          /\ ~ \E id \in Campaigns : CreateBegin(id)
          /\ ~ \E unreadable \in SUBSET manifest.saves : Resume(unreadable)
          /\ ~ CreateEnd /\ ~ CloseBegin /\ ~ ResetBegin /\ ~ ResetEnd
          /\ ~ ResetRefused /\ ~ SlotRequest
      BY DEF CommitCommand, SaveRequest, CreateBegin, Resume, CreateEnd, CloseBegin,
             ResetBegin, ResetEnd, ResetRefused, SlotRequest
    <3> QED BY <3>1, <3>2, <3>3, <3>4, <3>5 DEF Next
  <2>2. Pending = {}
    BY <2>1 DEF CloseEnd, Drained, Pending
  <2>3. PICK e \in manifest.saves :
          /\ e.campaign = campaign.id /\ e.rev = campaign.rev
          /\ \A t \in manifest.saves : t.campaign = e.campaign => t.seq <= e.seq
    BY <2>2 DEF ClosingSaveIsNewest
  <2>4. \A t \in manifest.saves : t.campaign = e.campaign
    BY DEF ServiceInv, SlotIsWhole
  <2> QED BY <2>3, <2>4 DEF IsDurable
<1> QED BY <1>1, TypeCorrect, InvariantHolds, ClosingSaveStaysNewest, PTL
        DEF Spec, CloseIsDurableWithoutFaults
=============================================================================
