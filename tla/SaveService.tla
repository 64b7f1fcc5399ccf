---------------------------- MODULE SaveService ----------------------------
(***************************************************************************)
(* The engine's save orchestration over one durable slot, with the host    *)
(* that calls it reduced to what it owes the service: requests are served  *)
(* one at a time, and a request that creates, closes or resets a campaign  *)
(* does not finish before the writes it waits for.  Writes run beside the  *)
(* host: play goes on while a capture is queued or in flight.              *)
(*                                                                         *)
(* The environment may refuse any store operation, damage a stored         *)
(* document and kill the worker at any step.                               *)
(***************************************************************************)
EXTENDS SaveSlot, Sequences

CONSTANTS
  Lightweight,  \* commits run the boundary check only (production worker)
  NoSave,       \* "no envelope"
  MaxRevision,  \* bound: revisions a campaign reaches
  MaxCaptures,  \* bound: captures ever made
  MaxFaults     \* bound: refused operations, damaged documents and crashes

ASSUME LightweightAssumption == Lightweight \in BOOLEAN
ASSUME NoSaveAssumption == NoSave \notin Envelope

VARIABLES
  campaign,     \* the campaign the session holds
  created,      \* campaign ids already used; a seed never repeats
  phase,        \* what the request being served is waiting for
  cached,       \* the service's copy of the manifest
  manifestRead, \* the manifest has been asked for
  nextSequence, \* sequence the next capture takes
  queued,       \* captures waiting to be written, in insertion order
  writing,      \* the capture whose write is in flight
  saveState,    \* the status the interface is shown
  lastError,    \* an error is reported with the status
  lastSaved,    \* the last save that was written
  captures,     \* history: captures made so far
  faults        \* bound: faults so far

slotVars    == <<manifest, snapshots, lost>>
serviceVars == <<cached, manifestRead, nextSequence, queued, writing,
                 saveState, lastError, lastSaved>>
hostVars    == <<campaign, created, phase>>
vars        == <<slotVars, serviceVars, hostVars, captures, faults>>

\* The campaign's state is its revision and whether it passes validateCampaign.
Session  == [id : Campaigns, rev : Nat, sound : BOOLEAN]
Closed   == [id |-> NoCampaign, rev |-> 0, sound |-> TRUE]
Open     == campaign # Closed
Phases   == {"idle", "create", "close", "reset"}
Statuses == {"idle", "pending", "saved", "failed"}

Drained == queued = <<>> /\ writing = NoSave

Fault == faults < MaxFaults /\ faults' = faults + 1

-----------------------------------------------------------------------------
(* Operations of the service. *)

\* Wrong on purpose: the highest sequence found is used again.
ManifestReadsReusing ==
  IF manifestRead
  THEN {[cached |-> cached, next |-> nextSequence, failed |-> FALSE]}
  ELSE {[cached |-> manifest, next |-> n, failed |-> FALSE] :
          n \in {m \in {0} \cup {s.seq : s \in manifest.saves} :
                   \A s \in manifest.saves : s.seq <= m}}

\* ensureManifest(): the first use reads the manifest.  A failed read is
\* reported but never tried again: until the worker restarts the slot looks
\* empty and the sequence starts over.
ManifestReads ==
  IF manifestRead
  THEN {[cached |-> cached, next |-> nextSequence, failed |-> FALSE]}
  ELSE {[cached |-> manifest, next |-> n + 1, failed |-> FALSE] :
          n \in {m \in {0} \cup {s.seq : s \in manifest.saves} :
                   \A s \in manifest.saves : s.seq <= m}}
       \cup {[cached |-> NoManifest, next |-> nextSequence, failed |-> TRUE]}

NoteRead(read) ==
  /\ manifestRead' = TRUE
  /\ cached' = read.cached
  /\ lastError' = (lastError \/ read.failed)
  /\ IF read.failed THEN Fault ELSE UNCHANGED faults

\* captureSnapshot(): the envelope of the campaign as it is now.
Capture(c, kind, seq) ==
  [campaign |-> c.id, rev |-> c.rev, sound |-> c.sound,
   kind |-> kind, seq |-> seq, at |-> captures + 1]

\* A capture replaces the queued one of its kind, in that one's place: the
\* queue is a Map, and setting a key it already holds keeps the key's place.
Enqueue(queue, e) ==
  IF \E i \in DOMAIN queue : queue[i].kind = e.kind
  THEN [i \in DOMAIN queue |->
          IF queue[i].kind = e.kind /\ queue[i].rev <= e.rev
          THEN e ELSE queue[i]]
  ELSE Append(queue, e)

\* Wrong on purpose: a capture behind a write in flight is never taken up.
PumpOnce(queue, inFlight) ==
  IF writing = NoSave /\ queue # <<>>
  THEN writing' = Head(queue) /\ queued' = Tail(queue)
  ELSE writing' = inFlight /\ queued' = queue

\* pump(): one write at a time.  A queue with no write in flight is taken from
\* before the host goes on, so the two steps are one.
Pump(queue, inFlight) ==
  IF inFlight = NoSave /\ queue # <<>>
  THEN writing' = Head(queue) /\ queued' = Tail(queue)
  ELSE writing' = inFlight /\ queued' = queue

\* save(): a campaign that fails the complete validation is not captured;
\* any other is captured at once and its write queued.
Save(c, kind) ==
  \/ /\ ~c.sound
     /\ saveState' = "failed"
     /\ lastError' = TRUE
     /\ UNCHANGED <<cached, manifestRead, nextSequence, queued, writing, captures, faults>>
  \/ /\ c.sound
     /\ captures < MaxCaptures
     /\ captures' = captures + 1
     /\ \E read \in ManifestReads :
          /\ NoteRead(read)
          /\ Pump(Enqueue(queued, Capture(c, kind, read.next)), writing)
          /\ nextSequence' = read.next + 1
     /\ saveState' = "pending"

\* The write's transaction committed.
WriteStored ==
  /\ writing # NoSave
  /\ StoreWrite(writing)
  /\ cached' = PlannedManifest(manifest, writing)
  /\ lastSaved' = IF writing \in Kept(manifest, writing) THEN writing ELSE NoSave
  /\ saveState' = "saved"
  /\ lastError' = FALSE
  /\ Pump(queued, NoSave)
  /\ UNCHANGED <<hostVars, manifestRead, nextSequence, captures, faults>>

\* The store could not open, read its manifest, or commit: nothing changed.
WriteRefused ==
  /\ writing # NoSave
  /\ Fault
  /\ saveState' = "failed"
  /\ lastError' = TRUE
  /\ Pump(queued, NoSave)
  /\ UNCHANGED <<slotVars, hostVars, cached, manifestRead, nextSequence,
                 lastSaved, captures>>

-----------------------------------------------------------------------------
(* The host's requests, as far as they reach the service. *)

\* A command commits.  A lightweight host may commit a defect, which stays or
\* is healed by what later commands do; a complete one refuses it.
CommitCommand(sound) ==
  /\ phase = "idle"
  /\ Open
  /\ campaign.rev < MaxRevision
  /\ sound \/ Lightweight
  /\ campaign' = [campaign EXCEPT !.rev = @ + 1, !.sound = sound]
  /\ UNCHANGED <<slotVars, serviceVars, created, phase, captures, faults>>

\* campaign.save: answered while the write is still to come.
SaveRequest(kind) ==
  /\ phase = "idle"
  /\ Open
  /\ Save(campaign, kind)
  /\ UNCHANGED <<slotVars, hostVars, lastSaved>>

\* campaign.create commits revision 1, then saves it and waits for the write.
CreateBegin(id) ==
  /\ phase = "idle"
  /\ ~Open
  /\ id \notin created
  /\ created' = created \cup {id}
  /\ LET new == [id |-> id, rev |-> 1, sound |-> TRUE]
     IN  campaign' = new /\ Save(new, "auto")
  /\ phase' = "create"
  /\ UNCHANGED <<slotVars, lastSaved>>

CreateEnd ==
  /\ phase = "create"
  /\ Drained
  /\ phase' = "idle"
  /\ UNCHANGED <<slotVars, serviceVars, campaign, created, captures, faults>>

\* campaign.close saves and waits for the writes, then lets the campaign go
\* whatever became of them.
CloseBegin ==
  /\ phase = "idle"
  /\ Open
  /\ phase' = "close"
  /\ Save(campaign, "auto")
  /\ UNCHANGED <<slotVars, campaign, created, lastSaved>>

\* Wrong on purpose: does not wait for the writes.
CloseEndAtOnce ==
  /\ phase = "close"
  /\ phase' = "idle"
  /\ campaign' = Closed
  /\ UNCHANGED <<slotVars, serviceVars, created, captures, faults>>

CloseEnd ==
  /\ phase = "close"
  /\ Drained
  /\ phase' = "idle"
  /\ campaign' = Closed
  /\ UNCHANGED <<slotVars, serviceVars, created, captures, faults>>

\* campaign.reset lets the campaign go, then waits for the writes and clears
\* the slot.
ResetBegin ==
  /\ phase = "idle"
  /\ Open
  /\ phase' = "reset"
  /\ campaign' = Closed
  /\ UNCHANGED <<slotVars, serviceVars, created, captures, faults>>

\* clear() once the slot's transaction has committed.
Cleared ==
  /\ StoreClear
  /\ cached' = NoManifest
  /\ manifestRead' = TRUE
  /\ nextSequence' = 1
  /\ lastSaved' = NoSave
  /\ lastError' = FALSE
  /\ saveState' = "idle"

\* Wrong on purpose: clears without waiting for the writes.
ResetEndAtOnce ==
  /\ phase = "reset"
  /\ phase' = "idle"
  /\ Cleared
  /\ UNCHANGED <<campaign, created, queued, writing, captures, faults>>

ResetEnd ==
  /\ phase = "reset"
  /\ Drained
  /\ phase' = "idle"
  /\ Cleared
  /\ UNCHANGED <<campaign, created, queued, writing, captures, faults>>

\* clearSlot() was refused: the failure is reported, the saves stay.
ResetRefused ==
  /\ phase = "reset"
  /\ Drained
  /\ Fault
  /\ phase' = "idle"
  /\ saveState' = "failed"
  /\ lastError' = TRUE
  /\ UNCHANGED <<slotVars, campaign, created, cached, manifestRead,
                 nextSequence, queued, writing, lastSaved, captures>>

\* The save that resume opens: the newest listed one that can be read.
Opens(saves, unreadable, s) ==
  /\ s \in saves \ unreadable
  /\ \A t \in saves \ unreadable : t.seq <= s.seq

\* campaign.resume reads the listed saves from the newest on and opens the
\* first that loads; it answers with an error when there is none.
Resume(unreadable) ==
  /\ phase = "idle"
  /\ ~Open
  /\ \E read \in ManifestReads :
       /\ NoteRead(read)
       /\ nextSequence' = read.next
       /\ saveState' = IF read.failed THEN "failed" ELSE saveState
       /\ unreadable \subseteq read.cached.saves
       /\ {s \in read.cached.saves : s \notin snapshots \/ ~s.sound} \subseteq unreadable
       /\ IF read.cached.saves \subseteq unreadable
          THEN UNCHANGED campaign
          ELSE \E s \in read.cached.saves :
                 /\ Opens(read.cached.saves, unreadable, s)
                 /\ campaign' = [id |-> s.campaign, rev |-> s.rev,
                                 sound |-> s.sound]
  /\ UNCHANGED <<slotVars, created, phase, queued, writing, lastSaved, captures>>

\* campaign.saves: the slot projection, which reads the manifest when it is
\* the first to need it.
SlotRequest ==
  /\ phase = "idle"
  /\ ~manifestRead
  /\ \E read \in ManifestReads :
       /\ NoteRead(read)
       /\ nextSequence' = read.next
       /\ saveState' = IF read.failed THEN "failed" ELSE saveState
  /\ UNCHANGED <<slotVars, hostVars, queued, writing, lastSaved, captures>>

-----------------------------------------------------------------------------
(* The environment. *)

DamageDocument(d) ==
  /\ Fault
  /\ Damage(d)
  /\ UNCHANGED <<serviceVars, hostVars, captures>>

ServiceInit ==
  /\ cached = NoManifest
  /\ manifestRead = FALSE
  /\ nextSequence = 1
  /\ queued = <<>>
  /\ writing = NoSave
  /\ saveState = "idle"
  /\ lastError = FALSE
  /\ lastSaved = NoSave

\* The tab or its worker dies: what was only in memory is gone.
Crash ==
  /\ Fault
  /\ campaign' = Closed
  /\ phase' = "idle"
  /\ cached' = NoManifest
  /\ manifestRead' = FALSE
  /\ nextSequence' = 1
  /\ queued' = <<>>
  /\ writing' = NoSave
  /\ saveState' = "idle"
  /\ lastError' = FALSE
  /\ lastSaved' = NoSave
  /\ UNCHANGED <<slotVars, created, captures>>

-----------------------------------------------------------------------------
Init ==
  /\ SlotInit
  /\ ServiceInit
  /\ campaign = Closed
  /\ created = {}
  /\ phase = "idle"
  /\ captures = 0
  /\ faults = 0

Next ==
  \/ WriteStored
  \/ WriteRefused
  \/ \E sound \in BOOLEAN : CommitCommand(sound)
  \/ \E kind \in Kinds : SaveRequest(kind)
  \/ \E id \in Campaigns : CreateBegin(id)
  \/ CreateEnd
  \/ CloseBegin
  \/ CloseEnd
  \/ ResetBegin
  \/ ResetEnd
  \/ ResetRefused
  \/ \E unreadable \in SUBSET manifest.saves : Resume(unreadable)
  \/ SlotRequest
  \/ \E d \in snapshots : DamageDocument(d)
  \/ Crash

Spec == Init /\ [][Next]_vars

\* A promise that can settle does, and a transaction completes or fails.
Fairness ==
  /\ WF_vars(WriteStored \/ WriteRefused)
  /\ WF_vars(CreateEnd)
  /\ WF_vars(CloseEnd)
  /\ WF_vars(ResetEnd \/ ResetRefused)

FairSpec == Spec /\ Fairness

-----------------------------------------------------------------------------
(* Properties. *)

\* The save envelopes that exist anywhere but in memory of a dead worker.
Pending == {queued[i] : i \in DOMAIN queued} \cup ({writing} \ {NoSave})

TypeOK ==
  /\ manifest \in Manifest
  /\ snapshots \subseteq Envelope
  /\ lost \subseteq Envelope
  /\ campaign \in Session \cup {Closed}
  /\ created \subseteq Campaigns
  /\ phase \in Phases
  /\ cached \in Manifest
  /\ manifestRead \in BOOLEAN
  /\ nextSequence \in Nat \ {0}
  /\ queued \in Seq(Envelope)
  /\ writing \in Envelope \cup {NoSave}
  /\ saveState \in Statuses
  /\ lastError \in BOOLEAN
  /\ lastSaved \in Envelope \cup {NoSave}
  /\ captures \in Nat
  /\ faults \in Nat

\* The slot is whole whatever was refused, interrupted or restarted: it lists
\* saves of one campaign, every listed save is stored unless its document was
\* damaged, and no stored document is unlisted (it would take space for ever:
\* a clear deletes only what the manifest names).
SlotIsWhole ==
  /\ \A s \in manifest.saves : s.campaign = manifest.campaign
  /\ manifest.saves \subseteq snapshots \cup lost
  /\ snapshots \subseteq manifest.saves

\* A slot never keeps more saves of a kind than the retention allows, and
\* never lists two saves under one id.
RetentionHolds ==
  /\ \A k \in Kinds : Cardinality({s \in manifest.saves : s.kind = k}) <= Room[k]
  /\ \A s, t \in manifest.saves : SaveId(s) = SaveId(t) => s = t

\* The slot as the player finds it, whatever writes were refused, coalesced,
\* interrupted or overtaken: it dangles nowhere, leaks nothing and stays within
\* its room.
SlotIsSound == SlotIsWhole /\ RetentionHolds

\* The sequence orders captures: of two saves of one campaign, stored or on
\* their way, the one captured later has the higher sequence, also across a
\* restart, a failed manifest read, or a resume from an older save.  Rotation
\* and resume rely on it, for they compare sequences only.
SequenceOrdersCaptures ==
  \A s, t \in manifest.saves \cup Pending :
    s.campaign = t.campaign /\ s.at < t.at => s.seq < t.seq

\* A status that says "saved" names a save of the campaign the slot holds, and
\* what resume would open was captured no earlier than it.
SavedStatusIsTrue ==
  saveState = "saved" =>
    /\ lastSaved # NoSave
    /\ lastSaved.campaign = manifest.campaign
    /\ \E t \in manifest.saves : t.at >= lastSaved.at

\* A state that fails the complete validation is never stored, though a
\* lightweight host plays on with it.
OnlySoundIsStored == \A s \in snapshots \cup Pending : s.sound

\* No write outlives the campaign it belongs to: what is queued or in flight
\* is of the open campaign, at a revision it has reached, or of one being
\* reset; when no campaign is open and no reset runs, nothing is.
WritesBelongToSession ==
  /\ \A e \in Pending : phase = "reset" \/ (e.campaign = campaign.id /\ e.rev <= campaign.rev)
  /\ phase = "idle" /\ ~Open => Drained

\* Why the slot stays whole and ordered, whatever the environment does.
\* 1. Captures are told apart and ordered by when they were made; no save of
\*    the slot or on its way is from the future, none on its way has the next
\*    capture's sequence or a later one.
CapturesAreApart ==
  /\ \A s, t \in manifest.saves \cup Pending : s.at = t.at => s = t
  /\ \A s \in manifest.saves \cup Pending : s.at <= captures
  /\ \A e \in Pending : e.seq < nextSequence

\* 2. Within a kind, captures are written in the order they were made, and
\*    everything on its way is of one campaign.
KindsAreOrdered ==
  /\ \A e, f \in Pending : e.campaign = f.campaign
  /\ \A e \in Pending, s \in manifest.saves :
       e.kind = s.kind /\ e.campaign = s.campaign => s.at < e.at
  /\ \A i \in DOMAIN queued :
       writing # NoSave /\ queued[i].kind = writing.kind => writing.at < queued[i].at
  /\ \A i, j \in DOMAIN queued : queued[i].kind = queued[j].kind => i = j

\* 3. The service knows the slot, or is blind to it after a failed read; then
\*    nothing it holds belongs to the campaign the slot holds.
SlotIsKnownOrForeign ==
  /\ ~manifestRead => campaign = Closed /\ phase = "idle"
  /\ manifestRead =>
       \/ cached = manifest /\ \A s \in manifest.saves : s.seq < nextSequence
       \/ /\ cached = NoManifest
          /\ \A s \in manifest.saves :
               s.campaign # campaign.id /\ \A e \in Pending : e.campaign # s.campaign
  /\ \A s \in manifest.saves : s.campaign \in created
  /\ \A e \in Pending : e.campaign \in created
  /\ Open => campaign.id \in created
  /\ phase \in {"create", "close"} => Open
  /\ phase = "reset" => ~Open

\* 4. While a close is waited for and nothing has failed, the capture it made
\*    is in the slot or on its way, and the newest of its campaign.
ClosingSaveIsNewest ==
  phase = "close" /\ campaign.sound /\ faults = 0 =>
    \E e \in manifest.saves \cup Pending :
      /\ e.campaign = campaign.id /\ e.rev = campaign.rev
      /\ \A t \in manifest.saves \cup Pending : t.campaign = e.campaign => t.seq <= e.seq

\* The inductive invariant the proofs use.
ServiceInv ==
  /\ SlotIsWhole
  /\ SequenceOrdersCaptures
  /\ SavedStatusIsTrue
  /\ OnlySoundIsStored
  /\ WritesBelongToSession
  /\ CapturesAreApart
  /\ KindsAreOrdered
  /\ SlotIsKnownOrForeign

\* Rotation never gives up the newest capture of a kind: for each snapshot the
\* slot held, and for the one written, the slot keeps one of its kind captured no
\* earlier, though the writes of the two kinds may arrive out of capture order.
NewestSurvivesRotation ==
  [][WriteStored /\ manifest'.campaign = manifest.campaign =>
       \A s \in manifest.saves \cup {writing} :
         \E t \in manifest'.saves : t.kind = s.kind /\ t.at >= s.at]_vars

\* Only the open campaign, or one still being reset, takes over the slot: no
\* late write brings a closed or discarded campaign back.
SlotFollowsSession ==
  [][manifest'.campaign \notin {manifest.campaign, NoCampaign} =>
       phase = "reset" \/ manifest'.campaign = campaign.id]_manifest

\* What a resume would open now holds the campaign as it is.
IsDurable(c) ==
  \E s \in manifest.saves :
    /\ s.campaign = c.id /\ s.rev = c.rev
    /\ \A t \in manifest.saves : t.seq <= s.seq

\* A step by which a request to close is answered.
Closing == phase = "close" /\ phase' = "idle" /\ faults' = faults

\* While the store has refused nothing and no worker died, a close leaves the
\* campaign durable at the revision it was closed at, however its saves were
\* queued, coalesced and rotated.
CloseIsDurableWithoutFaults ==
  [][Closing /\ campaign.sound /\ faults = 0 => IsDurable(campaign)]_phase

\* A request that waits for writes is answered.
HostIsAnswered == phase # "idle" ~> phase = "idle"

(* What the documents say and the code does not do. *)

\* A failed write "is reported through the save status": when a close could
\* not store the campaign, the status it leaves behind says so.
FailedCloseIsReported ==
  [][Closing /\ campaign.sound =>
       IsDurable(campaign) \/ saveState = "failed"]_phase

=============================================================================
