------------------------------ MODULE SaveSlot ------------------------------
(***************************************************************************)
(* The durable slot a campaign lives in: the manifest that lists the       *)
(* slot's saves and the snapshot documents those saves name, as the store  *)
(* adapters keep them, and the rotation plan that decides what survives a  *)
(* write.  One write or one clear is one IndexedDB transaction, so each is *)
(* one step here: a failed one changes nothing.                            *)
(*                                                                         *)
(* A save is identified in the slot by its kind and its sequence.  The     *)
(* payload is abstracted to the campaign and the revision it was captured  *)
(* at, and to whether that state passes the complete validation.           *)
(***************************************************************************)
EXTENDS Integers, FiniteSets

CONSTANTS
  Campaigns,    \* campaign ids, each drawn from a fresh 128-bit seed
  NoCampaign,   \* the campaign id of a slot that holds none
  Autosaves,    \* retention.autosaves
  ManualSaves   \* retention.manual

ASSUME CampaignAssumption == NoCampaign \notin Campaigns
ASSUME RetentionAssumption == /\ Autosaves \in Nat \ {0}
                              /\ ManualSaves \in Nat \ {0}

VARIABLES
  manifest,     \* the slot's manifest: the campaign it holds, the saves it lists
  snapshots,    \* the snapshot documents stored under their save ids
  lost          \* documents damaged or evicted behind the store's back

Kinds == {"auto", "manual"}

Room == [auto |-> Autosaves, manual |-> ManualSaves]

(***************************************************************************)
(* A sealed snapshot and its manifest entry, which repeats its fields.     *)
(* "at" is a history field the code does not store: the place of this      *)
(* capture among all captures ever made, across restarts and resets.       *)
(***************************************************************************)
Envelope ==
  [campaign : Campaigns, rev : Nat, sound : BOOLEAN,
   kind : Kinds, seq : Nat, at : Nat]

Manifest == [campaign : Campaigns \cup {NoCampaign}, saves : SUBSET Envelope]

NoManifest == [campaign |-> NoCampaign, saves |-> {}]

SaveId(e) == <<e.kind, e.seq>>

-----------------------------------------------------------------------------
(* Rotation.  A slot holds one campaign: writing another one displaces all *)
(* that was there.  What is kept is the newest of each kind, by sequence.  *)

Previous(existing, e) ==
  IF existing.campaign \in {NoCampaign, e.campaign} THEN existing.saves ELSE {}

Candidates(existing, e) ==
  {e} \cup {s \in Previous(existing, e) : SaveId(s) # SaveId(e)}

\* Wrong on purpose: ranks the oldest first.
OlderOfKind(s, saves) == {t \in saves : t.kind = s.kind /\ t.seq < s.seq}

NewerOfKind(s, saves) == {t \in saves : t.kind = s.kind /\ t.seq > s.seq}

Kept(existing, e) ==
  LET ordered == Candidates(existing, e)
  IN  {s \in ordered : Cardinality(NewerOfKind(s, ordered)) < Room[s.kind]}

\* Wrong on purpose: forgets the displaced campaign's snapshots.
RemoveExcessIds(existing, e) ==
  {SaveId(s) : s \in Candidates(existing, e) \ Kept(existing, e)} \ {SaveId(e)}

RemoveIds(existing, e) ==
  LET removed   == Candidates(existing, e) \ Kept(existing, e)
      displaced == existing.saves \ Previous(existing, e)
  IN  {SaveId(s) : s \in removed \cup displaced} \ {SaveId(e)}

PlannedManifest(existing, e) ==
  [campaign |-> e.campaign, saves |-> Kept(existing, e)]

-----------------------------------------------------------------------------
(* The store's operations. *)

\* Puts the snapshot under its id, replaces the manifest, deletes the excess.
StoreWrite(e) ==
  /\ manifest'  = PlannedManifest(manifest, e)
  /\ snapshots' = {d \in {s \in snapshots : SaveId(s) # SaveId(e)} \cup {e} :
                     SaveId(d) \notin RemoveIds(manifest, e)}
  /\ UNCHANGED lost

\* Deletes the snapshots the manifest names and the manifest itself.
StoreClear ==
  /\ snapshots' = {d \in snapshots :
                     SaveId(d) \notin {SaveId(s) : s \in manifest.saves}}
  /\ manifest' = NoManifest
  /\ UNCHANGED lost

\* A document is corrupted or evicted; the manifest still names it.
Damage(d) ==
  /\ d \in snapshots
  /\ snapshots' = snapshots \ {d}
  /\ lost' = lost \cup {d}
  /\ UNCHANGED manifest

SlotInit ==
  /\ manifest  = NoManifest
  /\ snapshots = {}
  /\ lost      = {}

=============================================================================
