------------------------------- MODULE Inventory -------------------------------
(***************************************************************************)
(* The only writer of physical goods: stacks of units that lie in a        *)
(* station hangar, a hold, a wreck or a ship's fitting store.  Every       *)
(* operation takes the assets and returns them whole, as the service works *)
(* on a copy and adopts it only when nothing was refused.                  *)
(*                                                                         *)
(* assets.stacks is a sequence in the order of the stacks' identities, the *)
(* order in which the code looks for a stack; a stack that is moved whole  *)
(* keeps its identity and its place, a new one is the last.  Provenance is *)
(* left out: no rule reads it.                                             *)
(***************************************************************************)
EXTENDS Naturals, FiniteSets, FiniteSetsExt, Sequences, SequencesExt, Sums

CONSTANTS Items, Slots, Volume, HoldCapacity, NoOne

ASSUME InventoryAssumption ==
  /\ Volume \in [Items -> Nat \ {0}]
  /\ HoldCapacity \in Nat
  /\ IsFiniteSet(Slots)

Hangar == <<"hangar", NoOne>>
Wreck == <<"wreck", NoOne>>
Hold(s) == <<"cargo", s>>
FittingStore(s) == <<"fitting", s>>

Plain == <<"plain", NoOne>>
Fitted(slot) == <<"fitted", slot>>
Charge(slot) == <<"charge", slot>>

\* stacksIn(): the places, in order of identity, of the stacks of an inventory.
StacksIn(a, inv) == {i \in DOMAIN a.stacks : a.stacks[i].inv = inv}
PlainStacks(a, inv, item) ==
  {i \in StacksIn(a, inv) : a.stacks[i].item = item /\ a.stacks[i].state = Plain}

Quantity(a, places) ==
  Total([i \in DOMAIN a.stacks |-> IF i \in places THEN a.stacks[i].qty ELSE 0])

\* maximumThatFits(): only a hold is limited.
UsedVolume(a, inv) ==
  Total([i \in DOMAIN a.stacks |->
           IF a.stacks[i].inv = inv THEN a.stacks[i].qty * Volume[a.stacks[i].item] ELSE 0])
Fits(a, inv, item, q) ==
  inv[1] # "cargo" \/ UsedVolume(a, inv) + q * Volume[item] <= HoldCapacity

\* compatibleStacks(): granted units keep to themselves, except in a magazine.
Compatible(s, t) ==
  /\ s.item = t.item /\ s.state = t.state
  /\ s.marked = t.marked \/ s.state[1] = "charge"

\* Wrong on purpose: what is joined takes the mark of the stack it joins.
MarkOfTarget(s, t) == s.marked

\* mergedRecoveryGrant()
MergedMark(s, t) == s.marked \/ t.marked

Joined(s, t) == [s EXCEPT !.qty = @ + t.qty, !.marked = MergedMark(s, t)]

\* take(): what is left behind.
Take(stacks, i, q) ==
  IF q = stacks[i].qty THEN RemoveAt(stacks, i)
  ELSE [stacks EXCEPT ![i].qty = @ - q]

\* put(): with the first stack it may join, else as a stack of its own.
Partners(stacks, s) == {i \in DOMAIN stacks : stacks[i].inv = s.inv /\ Compatible(stacks[i], s)}
Put(stacks, s) ==
  IF Partners(stacks, s) = {} THEN Append(stacks, s)
  ELSE [stacks EXCEPT ![Min(Partners(stacks, s))] = Joined(@, s)]

\* add(), addAs()
Add(a, inv, item, q, state, marked) ==
  [a EXCEPT !.stacks = Put(@,
    [item |-> item, qty |-> q, inv |-> inv, state |-> state, marked |-> marked])]

\* remove()
Consume(a, i, q) == [a EXCEPT !.stacks = Take(@, i, q)]

\* move(), for transfer() and transferAs() once nothing refuses it.
Move(a, i, inv, q, state) ==
  LET moved == [a.stacks[i] EXCEPT !.qty = q, !.inv = inv, !.state = state]
      left == Take(a.stacks, i, q)
  IN  [a EXCEPT !.stacks =
        IF q = a.stacks[i].qty /\ Partners(left, moved) = {}
        THEN [@ EXCEPT ![i] = moved]
        ELSE Put(left, moved)]

\* Wrong on purpose: the new stack is not taken from the old one.
SplitWithoutTaking(a, i, q) ==
  [a EXCEPT !.stacks = Append(@, [@[i] EXCEPT !.qty = q])]

\* split()
Split(a, i, q) ==
  [a EXCEPT !.stacks = Append(Take(@, i, q), [@[i] EXCEPT !.qty = q])]

\* merge(): stack i goes into stack j.
Merge(a, i, j) ==
  LET both == [a.stacks EXCEPT ![j] = Joined(@, a.stacks[i])]
  IN  [a EXCEPT !.stacks = RemoveAt(both, i)]

\* The loops that draw n units, one source stack after the other.
Repeat(Step(_), a, n) ==
  LET after[k \in 0..n] == IF k = 0 THEN a ELSE Step(after[k - 1])
  IN  after[n]

\* findSource(): the first plain stack of the first store that has one.
SourceIn(a, stores, item) ==
  LET has(k) == PlainStacks(a, stores[k], item) # {}
      first == CHOOSE k \in DOMAIN stores : has(k) /\ \A j \in 1..(k - 1) : ~has(j)
  IN  IF \E k \in DOMAIN stores : has(k) THEN Min(PlainStacks(a, stores[first], item))
      ELSE 0

Available(a, stores, item) ==
  Quantity(a, UNION {PlainStacks(a, stores[k], item) : k \in DOMAIN stores})

-----------------------------------------------------------------------------
(* What a ship wears. *)

ModuleAt(a, s, slot) == {i \in StacksIn(a, FittingStore(s)) : a.stacks[i].state = Fitted(slot)}
ChargeAt(a, s, slot) == {i \in StacksIn(a, FittingStore(s)) : a.stacks[i].state = Charge(slot)}
FittedSlots(a, s) == {slot \in Slots : ModuleAt(a, s, slot) # {}}
Loaded(a, s, slot) == Quantity(a, ChargeAt(a, s, slot))

\* The units of an item that bear the recovery mark, or that do not.
UnitsOf(a, item, marked) ==
  Quantity(a, {i \in DOMAIN a.stacks : a.stacks[i].item = item /\ a.stacks[i].marked = marked})
Units(a, item) == Quantity(a, {i \in DOMAIN a.stacks : a.stacks[i].item = item})

=============================================================================
