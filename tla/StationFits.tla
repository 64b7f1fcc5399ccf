------------------------------ MODULE StationFits ------------------------------
(***************************************************************************)
(* That what a pilot owns stays what the save check accepts, and that a    *)
(* committed draft is what the ship then wears, for every listing, every   *)
(* number of slots, every size of a hold and of a magazine and every step. *)
(*                                                                         *)
(* The invariant says where every stack lies and how much the slots and    *)
(* the holds have.  Limits are stated as weights, the units of the stacks  *)
(* of some kinds, which every operation changes in a known way.            *)
(***************************************************************************)
EXTENDS StationProofs

-----------------------------------------------------------------------------
(* Goods in their places. *)

\* The units in one state at one place, and those of an item in one store.
At(inv, state) == {k \in Kinds : k[2] = inv /\ k[3] = state}
InStore(item, inv) == {k \in Kinds : k[1] = item /\ k[2] = inv}

\* Where goods may lie.
Homes(a) ==
  {Hangar} \cup {Hold(s) : s \in DOMAIN a.ships} \cup {FittingStore(s) : s \in DOMAIN a.ships}
  \cup (IF a.wreck THEN {Wreck} ELSE {})

\* A unit of the item may be in the state at the place.
Belongs(item, inv, state) ==
  /\ inv[1] = "fitting" <=> state # Plain
  /\ state[1] = "fitted" => item = Gun
  /\ state[1] = "charge" => item = Ammo

\* Every stack lies where it may, and a slot has one stack of a state at most.
Sorted(stacks, homes) ==
  \A i \in DOMAIN stacks :
    stacks[i].inv \in homes /\ Belongs(stacks[i].item, stacks[i].inv, stacks[i].state)
Apart(stacks) ==
  \A i, j \in DOMAIN stacks :
    stacks[i].inv = stacks[j].inv /\ stacks[i].state = stacks[j].state /\ stacks[i].state # Plain => i = j
Tidy(stacks, homes) == Sorted(stacks, homes) /\ Apart(stacks)

\* What a slot wears of a state, and the room the goods of a store take.
Worn(stacks, s, state) == Weigh(stacks, At(FittingStore(s), state))
Used(stacks, inv) ==
  Volume[Gun] * Weigh(stacks, InStore(Gun, inv)) + Volume[Ammo] * Weigh(stacks, InStore(Ammo, inv))

\* One module in a slot, no more rounds than a magazine takes, room in every hold.
Sized(stacks) ==
  \A s \in Ships, slot \in Slots :
    Worn(stacks, s, Fitted(slot)) <= 1 /\ Worn(stacks, s, Charge(slot)) <= MagazineSize
Roomy(stacks) == \A s \in Ships : Used(stacks, Hold(s)) <= HoldCapacity

\* Tidy, and within the limits.
Stowed(stacks, homes) == Tidy(stacks, homes) /\ Sized(stacks) /\ Roomy(stacks)
Orderly(a) == Stowed(a.stacks, Homes(a))

\* No charge without its weapon, in the slots and in the plan.
Armed(stacks) ==
  \A s \in Ships, slot \in Slots : Worn(stacks, s, Charge(slot)) > 0 => Worn(stacks, s, Fitted(slot)) > 0
IsWhole(f) == f # NoOne => \A slot \in Slots : f.slots[slot].loaded => f.slots[slot].weapon

\* What AssetsConsistent and FitsAsPlanned rest on.
Fit(a, f) == Orderly(a) /\ Armed(a.stacks) /\ IsWhole(f)
FitInv == StationInv /\ Fit(assets, fitting)

-----------------------------------------------------------------------------
(* States, places and kinds. *)

\* A unit's state: plain, or in a slot, as its module or its charge.
LEMMA StateCases ==
  /\ \A state \in States :
       \/ state = Plain
       \/ \E slot \in Slots : state = Fitted(slot)
       \/ \E slot \in Slots : state = Charge(slot)
  /\ Plain[1] = "plain" /\ \A slot : Fitted(slot)[1] = "fitted" /\ Charge(slot)[1] = "charge"
  /\ \A slot : Fitted(slot) # Plain /\ Charge(slot) # Plain
  /\ \A slot, other : Fitted(slot) # Charge(other)
  /\ \A slot \in Slots : Fitted(slot) \in States /\ Charge(slot) \in States
  /\ Plain \in States
<1>1. Plain[1] = "plain" /\ \A slot : Fitted(slot)[1] = "fitted" /\ Charge(slot)[1] = "charge"
  BY DEF Plain, Fitted, Charge
<1>2. /\ \A slot : Fitted(slot) # Plain /\ Charge(slot) # Plain
      /\ \A slot, other : Fitted(slot) # Charge(other)
  BY DEF Plain, Fitted, Charge
<1> QED BY <1>1, <1>2 DEF States

\* The four kinds of places are apart, and so are the places of two ships.
LEMMA PlaceKinds ==
  /\ Hangar[1] = "hangar" /\ Wreck[1] = "wreck"
  /\ \A s : Hold(s)[1] = "cargo" /\ FittingStore(s)[1] = "fitting" /\ Hold(s)[2] = s /\ FittingStore(s)[2] = s
  /\ Hangar \in Places /\ Wreck \in Places
  /\ \A s \in Ships : Hold(s) \in Places /\ FittingStore(s) \in Places
  /\ \A s, x : (Hold(s) = Hold(x) => s = x) /\ (FittingStore(s) = FittingStore(x) => s = x)
  /\ \A s, x : Hold(s) # FittingStore(x) /\ Hold(s) # Hangar /\ Hold(s) # Wreck
  /\ \A x : FittingStore(x) # Hangar /\ FittingStore(x) # Wreck
<1>1. /\ Hangar[1] = "hangar" /\ Wreck[1] = "wreck"
      /\ \A s : Hold(s)[1] = "cargo" /\ FittingStore(s)[1] = "fitting" /\ Hold(s)[2] = s /\ FittingStore(s)[2] = s
  BY DEF Hangar, Wreck, Hold, FittingStore
<1>2. \A s, x : (Hold(s) = Hold(x) => s = x) /\ (FittingStore(s) = FittingStore(x) => s = x)
  BY <1>1
<1>3. /\ \A s, x : Hold(s) # FittingStore(x) /\ Hold(s) # Hangar /\ Hold(s) # Wreck
      /\ \A x : FittingStore(x) # Hangar /\ FittingStore(x) # Wreck
  BY <1>1
<1> QED BY <1>1, <1>2, <1>3 DEF Places

\* A place and a state are no matter of marks.
LEMMA PlacesAreBlind ==
  ASSUME NEW x, NEW y
  PROVE  IsBlind(At(x, y)) /\ IsBlind(InStore(x, y))
BY DEF IsBlind, At, InStore, Kinds

\* A stack counts where it lies.
LEMMA KindAt ==
  ASSUME NEW s \in Stacks, NEW x, NEW y
  PROVE  /\ Kind(s) \in At(x, y) <=> s.inv = x /\ s.state = y
         /\ Kind(s) \in InStore(x, y) <=> s.item = x /\ s.inv = y
<1>1. Kind(s) \in Kinds
  BY WeightType
<1>2. Kind(s)[1] = s.item /\ Kind(s)[2] = s.inv /\ Kind(s)[3] = s.state
  BY DEF Kind
<1> QED BY <1>1, <1>2 DEF At, InStore

\* A stack is a part of what there is of its kind; and what there is lies in one.
LEMMA StackWeighs ==
  ASSUME NEW stacks \in Seq(Stacks), NEW i \in DOMAIN stacks, NEW K
  PROVE  Weight(stacks[i], K) <= Weigh(stacks, K)
<1> DEFINE x == Weigh(stacks, K)
           y == Weigh(RemoveAt(stacks, i), K)
           z == Weight(stacks[i], K)
<1>1. x = y + z
  BY WeighRemoved
<1>2. y \in Nat /\ z \in Nat
  <2>1. stacks[i] \in Stacks /\ RemoveAt(stacks, i) \in Seq(Stacks)
    BY RemovedType
  <2> QED BY <2>1, WeighType, WeightType
<1> HIDE DEF x, y, z
<1>3. z <= x
  BY <1>1, <1>2
<1> QED BY <1>3 DEF x, z

\* Stacks weigh something when one of them counts.
LEMMA SomethingWeighs ==
  ASSUME NEW stacks \in Seq(Stacks), NEW K
  PROVE  Weigh(stacks, K) > 0 <=> \E i \in DOMAIN stacks : Kind(stacks[i]) \in K
<1>1. ASSUME NEW i \in DOMAIN stacks, Kind(stacks[i]) \in K PROVE Weigh(stacks, K) > 0
  <2> DEFINE x == Weigh(stacks, K)
             z == stacks[i].qty
  <2>1. stacks[i] \in Stacks
    OBVIOUS
  <2>2. z \in Nat /\ z > 0 /\ x \in Nat
    BY <2>1, StackType, WeighType
  <2>3. z <= x
    BY <1>1, StackWeighs DEF Weight
  <2> HIDE DEF x, z
  <2>4. x > 0
    BY <2>2, <2>3
  <2> QED BY <2>4 DEF x
<1>2. ASSUME \A i \in DOMAIN stacks : Kind(stacks[i]) \notin K PROVE ~(Weigh(stacks, K) > 0)
  BY <1>2, NothingWeighs
<1> QED BY <1>1, <1>2

\* When one stack counts, they weigh what it holds.
LEMMA OnlyOneWeighs ==
  ASSUME NEW stacks \in Seq(Stacks), NEW i \in DOMAIN stacks, NEW K, Kind(stacks[i]) \in K,
         \A j \in DOMAIN stacks : Kind(stacks[j]) \in K => j = i
  PROVE  Weigh(stacks, K) = stacks[i].qty
<1> DEFINE less == RemoveAt(stacks, i)
           n == Len(stacks)
<1>1. /\ n \in Nat /\ DOMAIN stacks = 1..n /\ i \in 1..n
      /\ less \in Seq(Stacks) /\ Len(less) = n - 1
      /\ \A j \in 1..(i - 1) : less[j] = stacks[j]
      /\ \A j \in i..(n - 1) : less[j] = stacks[j + 1]
  BY RemovedType
<1>2. ASSUME NEW j \in DOMAIN less PROVE Kind(less[j]) \notin K
  <2>1. j \in 1..(n - 1)
    BY <1>1
  <2>2. CASE j < i
    <3>1. j \in 1..(i - 1) /\ j \in 1..n /\ j # i
      BY <1>1, <2>1, <2>2
    <3> QED BY <1>1, <3>1
  <2>3. CASE ~(j < i)
    <3>1. j \in i..(n - 1) /\ j + 1 \in 1..n /\ j + 1 # i
      BY <1>1, <2>1, <2>3
    <3> QED BY <1>1, <3>1
  <2> QED BY <2>2, <2>3
<1>3. Weigh(less, K) = 0
  BY <1>1, <1>2, NothingWeighs
<1>4. Weigh(stacks, K) = Weigh(less, K) + Weight(stacks[i], K)
  BY WeighRemoved
<1>5. Weight(stacks[i], K) = stacks[i].qty /\ stacks[i].qty \in Nat
  BY StackType DEF Weight
<1> QED BY <1>3, <1>4, <1>5

-----------------------------------------------------------------------------
(* Stacks in their places. *)

\* Stacks that are of the kinds of others, one for one, are as tidy.
LEMMA PartsAreTidy ==
  ASSUME NEW s, NEW t, NEW homes, NEW f, Tidy(s, homes),
         \A j \in DOMAIN t : /\ f[j] \in DOMAIN s
                             /\ t[j].item = s[f[j]].item /\ t[j].inv = s[f[j]].inv
                             /\ t[j].state = s[f[j]].state,
         \A j, k \in DOMAIN t : f[j] = f[k] => j = k
  PROVE  Tidy(t, homes)
<1>1. Sorted(t, homes)
  BY DEF Tidy, Sorted
<1>2. Apart(t)
  <2> SUFFICES ASSUME NEW j \in DOMAIN t, NEW k \in DOMAIN t, t[j].inv = t[k].inv,
                      t[j].state = t[k].state, t[j].state # Plain
               PROVE  j = k
    BY DEF Apart
  <2>1. f[j] \in DOMAIN s /\ f[k] \in DOMAIN s
    OBVIOUS
  <2>2. s[f[j]].inv = s[f[k]].inv /\ s[f[j]].state = s[f[k]].state /\ s[f[j]].state # Plain
    OBVIOUS
  <2>3. f[j] = f[k]
    BY <2>1, <2>2 DEF Tidy, Apart
  <2> QED BY <2>3
<1> QED BY <1>1, <1>2 DEF Tidy

\* Without one of them stacks are as tidy.
LEMMA RemovedIsTidy ==
  ASSUME NEW stacks \in Seq(Stacks), NEW i \in DOMAIN stacks, NEW homes, Tidy(stacks, homes)
  PROVE  Tidy(RemoveAt(stacks, i), homes)
<1> DEFINE less == RemoveAt(stacks, i)
           n == Len(stacks)
           f == [j \in 1..(n - 1) |-> IF j < i THEN j ELSE j + 1]
<1>1. /\ n \in Nat /\ DOMAIN stacks = 1..n /\ i \in 1..n
      /\ less \in Seq(Stacks) /\ Len(less) = n - 1
      /\ \A j \in 1..(i - 1) : less[j] = stacks[j]
      /\ \A j \in i..(n - 1) : less[j] = stacks[j + 1]
  BY RemovedType
<1>2. DOMAIN less = 1..(n - 1)
  BY <1>1
<1> HIDE DEF less, n
<1>3. ASSUME NEW j \in 1..(n - 1) PROVE f[j] \in 1..n /\ less[j] = stacks[f[j]]
  <2>1. CASE j < i
    <3>1. j \in 1..(i - 1) /\ j \in 1..n /\ f[j] = j
      BY <1>1, <2>1
    <3> QED BY <1>1, <3>1
  <2>2. CASE ~(j < i)
    <3>1. j \in i..(n - 1) /\ j + 1 \in 1..n /\ f[j] = j + 1
      BY <1>1, <2>2
    <3> QED BY <1>1, <3>1
  <2> QED BY <2>1, <2>2
<1>4. \A j, k \in 1..(n - 1) : f[j] = f[k] => j = k
  BY <1>1
<1> HIDE DEF f
<1>5. \A j \in DOMAIN less : /\ f[j] \in DOMAIN stacks
                             /\ less[j].item = stacks[f[j]].item /\ less[j].inv = stacks[f[j]].inv
                             /\ less[j].state = stacks[f[j]].state
  BY <1>1, <1>2, <1>3
<1>6. \A j, k \in DOMAIN less : f[j] = f[k] => j = k
  BY <1>2, <1>4
<1>7. Tidy(less, homes)
  <2> HIDE <1>1, <1>2, <1>3, <1>4
  <2> QED BY <1>5, <1>6, PartsAreTidy
<1> QED BY <1>7 DEF less

\* So they are when units are taken from one.
LEMMA TakeIsTidy ==
  ASSUME NEW stacks \in Seq(Stacks), NEW i \in DOMAIN stacks,
         NEW q \in Nat \ {0}, q <= stacks[i].qty,
         NEW homes, Tidy(stacks, homes)
  PROVE  Tidy(Take(stacks, i, q), homes)
<1>1. CASE q = stacks[i].qty
  BY <1>1, RemovedIsTidy DEF Take
<1>2. CASE q # stacks[i].qty
  <2> DEFINE s == stacks[i]
             t == [s EXCEPT !.qty = s.qty - q]
             left == [stacks EXCEPT ![i] = t]
             f == [j \in DOMAIN left |-> j]
  <2>1. Take(stacks, i, q) = left
    BY <1>2 DEF Take
  <2>2. s \in Stacks
    OBVIOUS
  <2>3. t.item = s.item /\ t.inv = s.inv /\ t.state = s.state
    <3> HIDE DEF s
    <3>1. s.item = s.item
      OBVIOUS
    <3>2. DOMAIN s = {"item", "qty", "inv", "state", "marked"}
      BY <2>2 DEF Stacks
    <3> QED BY <3>2
  <2> HIDE DEF t
  <2>4. DOMAIN left = DOMAIN stacks /\ \A j \in DOMAIN stacks : left[j] = IF j = i THEN t ELSE stacks[j]
    OBVIOUS
  <2> HIDE DEF left
  <2>5. \A j \in DOMAIN left : /\ f[j] \in DOMAIN stacks
                               /\ left[j].item = stacks[f[j]].item /\ left[j].inv = stacks[f[j]].inv
                               /\ left[j].state = stacks[f[j]].state
    BY <2>3, <2>4
  <2>6. \A j, k \in DOMAIN left : f[j] = f[k] => j = k
    OBVIOUS
  <2> HIDE DEF f
  <2>7. Tidy(left, homes)
    BY <2>5, <2>6, PartsAreTidy
  <2> QED BY <2>1, <2>7
<1> QED BY <1>1, <1>2

\* A stack that may lie where it is meant to; a module only where none is.
Free(stacks, inv, state) == \A i \in DOMAIN stacks : ~(stacks[i].inv = inv /\ stacks[i].state = state)
Welcome(homes, s) == s.inv \in homes /\ Belongs(s.item, s.inv, s.state)

\* A charge joins the one that is there.
LEMMA ChargeHasPartner ==
  ASSUME NEW stacks \in Seq(Stacks), NEW homes, Tidy(stacks, homes), NEW s \in Stacks,
         Belongs(s.item, s.inv, s.state), s.state[1] = "charge", Partners(stacks, s) = {}
  PROVE  Free(stacks, s.inv, s.state)
<1> SUFFICES ASSUME NEW i \in DOMAIN stacks, stacks[i].inv = s.inv, stacks[i].state = s.state
             PROVE  FALSE
  BY DEF Free
<1>1. stacks[i].item = s.item
  BY DEF Tidy, Sorted, Belongs
<1>2. i \in Partners(stacks, s)
  BY <1>1 DEF Partners, Compatible
<1> QED BY <1>2

\* A stack is replaced by one that is as welcome where it lies.
LEMMA ReplacedIsTidy ==
  ASSUME NEW stacks \in Seq(Stacks), NEW homes, Tidy(stacks, homes), NEW i \in DOMAIN stacks, NEW s,
         s.inv \in homes, Belongs(s.item, s.inv, s.state),
         s.state = Plain \/ \A j \in DOMAIN stacks :
                              stacks[j].inv = s.inv /\ stacks[j].state = s.state => j = i
  PROVE  Tidy([stacks EXCEPT ![i] = s], homes)
<1> DEFINE t == [stacks EXCEPT ![i] = s]
<1>1. DOMAIN t = DOMAIN stacks /\ \A j \in DOMAIN stacks : t[j] = IF j = i THEN s ELSE stacks[j]
  OBVIOUS
<1> HIDE DEF t
<1>2. Sorted(t, homes)
  BY <1>1 DEF Tidy, Sorted
<1>3. Apart(t)
  <2> SUFFICES ASSUME NEW j \in DOMAIN t, NEW k \in DOMAIN t, t[j].inv = t[k].inv,
                      t[j].state = t[k].state, t[j].state # Plain
               PROVE  j = k
    BY DEF Apart
  <2>1. CASE j = i
    BY <1>1, <2>1
  <2>2. CASE k = i
    BY <1>1, <2>2
  <2>3. CASE j # i /\ k # i
    BY <1>1, <2>3 DEF Tidy, Apart
  <2> QED BY <2>1, <2>2, <2>3
<1> QED BY <1>2, <1>3 DEF Tidy, t

\* A stack is appended where no other is in its way.
LEMMA AppendedIsTidy ==
  ASSUME NEW stacks \in Seq(Stacks), NEW homes, Tidy(stacks, homes), NEW s \in Stacks,
         s.inv \in homes, Belongs(s.item, s.inv, s.state),
         s.state = Plain \/ Free(stacks, s.inv, s.state)
  PROVE  Tidy(Append(stacks, s), homes)
<1> DEFINE t == Append(stacks, s)
           n == Len(stacks)
<1>1. n \in Nat /\ DOMAIN stacks = 1..n /\ DOMAIN t = 1..(n + 1) /\ t[n + 1] = s /\ \A j \in 1..n : t[j] = stacks[j]
  BY AppendProperties
<1> HIDE DEF t, n
<1>2. Sorted(t, homes)
  <2> SUFFICES ASSUME NEW j \in 1..(n + 1)
               PROVE  t[j].inv \in homes /\ Belongs(t[j].item, t[j].inv, t[j].state)
    BY <1>1 DEF Sorted
  <2>1. CASE j = n + 1
    BY <1>1, <2>1
  <2>2. CASE j # n + 1
    <3>1. j \in 1..n
      BY <1>1, <2>2
    <3> QED BY <1>1, <3>1 DEF Tidy, Sorted
  <2> QED BY <2>1, <2>2
<1>3. Apart(t)
  <2> SUFFICES ASSUME NEW j \in 1..(n + 1), NEW k \in 1..(n + 1), t[j].inv = t[k].inv,
                      t[j].state = t[k].state, t[j].state # Plain
               PROVE  j = k
    BY <1>1 DEF Apart
  <2>1. \A m \in 1..(n + 1) : m = n + 1 \/ m \in 1..n
    BY <1>1
  <2>2. CASE j = n + 1 /\ k \in 1..n
    BY <1>1, <2>2 DEF Free
  <2>3. CASE k = n + 1 /\ j \in 1..n
    BY <1>1, <2>3 DEF Free
  <2>4. CASE j \in 1..n /\ k \in 1..n
    BY <1>1, <2>4 DEF Tidy, Apart
  <2> QED BY <2>1, <2>2, <2>3, <2>4
<1> QED BY <1>2, <1>3 DEF Tidy, t

\* Put away, it joins its partner or is appended.
LEMMA PutIsTidy ==
  ASSUME NEW stacks \in Seq(Stacks), NEW homes, Tidy(stacks, homes),
         NEW s \in Stacks, Welcome(homes, s),
         s.state[1] = "fitted" => Free(stacks, s.inv, s.state)
  PROVE  Tidy(Put(stacks, s), homes)
<1>1. CASE Partners(stacks, s) = {} /\ Put(stacks, s) = Append(stacks, s)
  <2>1. s.state = Plain \/ Free(stacks, s.inv, s.state)
    <3>1. CASE s.state[1] = "charge"
      BY <1>1, <3>1, ChargeHasPartner DEF Welcome
    <3>2. CASE s.state[1] = "fitted"
      BY <3>2
    <3>3. s.state = Plain \/ s.state[1] = "fitted" \/ s.state[1] = "charge"
      BY StackType, StateCases
    <3> QED BY <3>1, <3>2, <3>3
  <2> QED BY <1>1, <2>1, AppendedIsTidy DEF Welcome
<1>2. ASSUME NEW i \in Partners(stacks, s), i \in DOMAIN stacks,
             Put(stacks, s) = [stacks EXCEPT ![i] = Joined(stacks[i], s)]
      PROVE  Tidy(Put(stacks, s), homes)
  <2> DEFINE t == stacks[i]
             j == Joined(t, s)
  <2>1. t \in Stacks
    BY <1>2
  <2>2. j.item = t.item /\ j.inv = t.inv /\ j.state = t.state
    BY <2>1, JoinedType
  <2> HIDE DEF j
  <2>3. t.inv \in homes /\ Belongs(t.item, t.inv, t.state)
    BY <1>2 DEF Tidy, Sorted
  <2>4. t.state = Plain \/ \A k \in DOMAIN stacks :
                             stacks[k].inv = t.inv /\ stacks[k].state = t.state => k = i
    BY <1>2 DEF Tidy, Apart
  <2>5. Tidy([stacks EXCEPT ![i] = j], homes)
    <3>1. j.state = Plain \/ \A k \in DOMAIN stacks :
                               stacks[k].inv = j.inv /\ stacks[k].state = j.state => k = i
      BY <2>2, <2>4
    <3>2. j.inv \in homes /\ Belongs(j.item, j.inv, j.state)
      BY <2>2, <2>3
    <3> HIDE DEF t
    <3> QED BY <1>2, <3>1, <3>2, ReplacedIsTidy
  <2> QED BY <1>2, <2>5 DEF j
<1> QED BY <1>1, <1>2, PutCases

-----------------------------------------------------------------------------
(* Room. *)

\* Every entry of r combines those of p and q.
Combines(p, q, r, v, w) == \A i \in 1..Len(p) : r[i] = v * p[i] + w * q[i]

\* The total of a combination is the combination of the totals.
LEMMA TotalIsLinear ==
  ASSUME NEW p \in Seq(Int), NEW q \in Seq(Int),
         NEW r \in Seq(Int), Len(q) = Len(p), Len(r) = Len(p),
         NEW v \in Int, NEW w \in Int, Combines(p, q, r, v, w)
  PROVE  Total(r) = v * Total(p) + w * Total(q)
<1> DEFINE n == Len(p)
<1>1. n \in Nat
  OBVIOUS
<1>2. PICK g : Runs(g, p) /\ Total(p) = g[n]
  BY <1>1, TotalRuns
<1>3. PICK h : Runs(h, q) /\ Total(q) = h[n]
  BY <1>1, TotalRuns
<1>4. PICK e : Runs(e, r) /\ Total(r) = e[n]
  BY <1>1, TotalRuns
<1>5. \A k \in 0..n : g[k] \in Int /\ h[k] \in Int /\ e[k] \in Int
  BY <1>2, <1>3, <1>4, RunsAreIntegers
<1> DEFINE W == {k \in 0..n : e[k] # v * g[k] + w * h[k]}
<1>6. 0 \notin W
  <2>1. g[0] = 0 /\ h[0] = 0 /\ e[0] = 0
    BY <1>2, <1>3, <1>4 DEF Runs
  <2> QED BY <2>1
<1>7. ASSUME NEW k \in 1..n, k \in W PROVE k - 1 \in W
  <2> DEFINE x == g[k - 1]
             y == h[k - 1]
             z == e[k - 1]
             c == p[k]
             d == q[k]
             f == r[k]
  <2>1. k - 1 \in 0..n /\ k \in 0..n
    BY <1>1
  <2>2. g[k] = x + c /\ h[k] = y + d /\ e[k] = z + f
    BY <1>2, <1>3, <1>4 DEF Runs
  <2>3. f = v * c + w * d /\ c \in Int /\ d \in Int /\ f \in Int
    BY DEF Combines
  <2>4. x \in Int /\ y \in Int /\ z \in Int
    BY <1>5, <2>1
  <2>5. z + f # v * (x + c) + w * (y + d)
    BY <1>7, <2>2
  <2> HIDE DEF x, y, z, c, d, f
  <2>6. v * (x + c) = v * x + v * c /\ w * (y + d) = w * y + w * d
    BY <2>3, <2>4
  <2>7. v * x \in Int /\ v * c \in Int /\ w * y \in Int /\ w * d \in Int
    BY <2>3, <2>4
  <2>8. z # v * x + w * y
    BY <2>3, <2>4, <2>5, <2>6, <2>7
  <2> QED BY <2>1, <2>8 DEF x, y, z
<1>8. W \subseteq 0..n
  OBVIOUS
<1> HIDE DEF W
<1>9. W = {}
  BY <1>1, <1>6, <1>7, <1>8, UpTo
<1>10. n \in 0..n
  BY <1>1
<1>11. e[n] = v * g[n] + w * h[n]
  BY <1>9, <1>10 DEF W
<1> QED BY <1>2, <1>3, <1>4, <1>11

\* The constants of a hold and a magazine are numbers, and there are two items.
LEMMA VolumeType ==
  /\ Volume[Gun] \in Nat /\ Volume[Ammo] \in Nat /\ HoldCapacity \in Nat /\ MagazineSize \in Nat
  /\ Gun \in Items /\ Ammo \in Items /\ \A item \in Items : item = Gun \/ item = Ammo
  /\ Gun # Ammo /\ MagazineSize > 0 /\ 1 \in Nat \ {0}
BY InventoryAssumption, StationAssumption

\* The used volume of a store is that of its units, item by item.
LEMMA VolumeIsWeight ==
  ASSUME NEW a \in Assets, NEW inv
  PROVE  UsedVolume(a, inv) = Used(a.stacks, inv)
<1> DEFINE guns == Weights(a.stacks, InStore(Gun, inv))
           rounds == Weights(a.stacks, InStore(Ammo, inv))
           room == [i \in DOMAIN a.stacks |->
                      IF a.stacks[i].inv = inv THEN a.stacks[i].qty * Volume[a.stacks[i].item] ELSE 0]
           n == Len(a.stacks)
<1>1. a.stacks \in Seq(Stacks) /\ n \in Nat /\ DOMAIN a.stacks = 1..n
  BY AssetsType
<1>2. /\ guns \in Seq(Int) /\ rounds \in Seq(Int) /\ Len(guns) = n /\ Len(rounds) = n
      /\ \A i \in 1..n : guns[i] = Weight(a.stacks[i], InStore(Gun, inv))
                         /\ rounds[i] = Weight(a.stacks[i], InStore(Ammo, inv))
  BY <1>1, WeightsType
<1>3. ASSUME NEW i \in 1..n
      PROVE  /\ room[i] = Volume[Gun] * guns[i] + Volume[Ammo] * rounds[i]
             /\ room[i] \in Int
  <2> DEFINE s == a.stacks[i]
             q == s.qty
             v == Volume[Gun]
             w == Volume[Ammo]
  <2>1. s \in Stacks /\ q \in Nat /\ s.item \in Items
    BY <1>1, StackType
  <2>2. room[i] = IF s.inv = inv THEN q * Volume[s.item] ELSE 0
    BY <1>1
  <2>3. /\ guns[i] = IF s.item = Gun /\ s.inv = inv THEN q ELSE 0
        /\ rounds[i] = IF s.item = Ammo /\ s.inv = inv THEN q ELSE 0
    BY <1>2, <2>1, KindAt DEF Weight
  <2>4. v \in Nat /\ w \in Nat /\ (s.item = Gun \/ s.item = Ammo) /\ Gun # Ammo
    BY <2>1, VolumeType
  <2> HIDE DEF q, room, guns, rounds
  <2>5. CASE s.inv = inv /\ s.item = Gun
    <3>1. room[i] = q * v /\ guns[i] = q /\ rounds[i] = 0
      BY <2>2, <2>3, <2>4, <2>5
    <3> HIDE DEF v, w
    <3>2. q * v = v * q + w * 0 /\ q * v \in Int
      BY <2>1, <2>4
    <3> QED BY <3>1, <3>2 DEF v, w
  <2>6. CASE s.inv = inv /\ s.item = Ammo
    <3>1. room[i] = q * w /\ guns[i] = 0 /\ rounds[i] = q
      BY <2>2, <2>3, <2>4, <2>6
    <3> HIDE DEF v, w
    <3>2. q * w = v * 0 + w * q /\ q * w \in Int
      BY <2>1, <2>4
    <3> QED BY <3>1, <3>2 DEF v, w
  <2>7. CASE s.inv # inv
    <3>1. room[i] = 0 /\ guns[i] = 0 /\ rounds[i] = 0
      BY <2>2, <2>3, <2>7
    <3> HIDE DEF v, w
    <3>2. 0 = v * 0 + w * 0
      BY <2>4
    <3> QED BY <3>1, <3>2 DEF v, w
  <2> QED BY <2>4, <2>5, <2>6, <2>7
<1>4. room \in Seq(Int) /\ Len(room) = n
  <2>1. DOMAIN room = 1..n
    BY <1>1
  <2> HIDE DEF room
  <2>2. room = [i \in 1..n |-> room[i]]
    <3>1. room = [i \in DOMAIN room |-> room[i]]
      BY DEF room
    <3> QED BY <2>1, <3>1
  <2>3. room \in [1..n -> Int]
    BY <1>3, <2>2
  <2> QED BY <1>1, <2>3
<1>5. Volume[Gun] \in Int /\ Volume[Ammo] \in Int
  BY VolumeType
<1> HIDE DEF guns, rounds, room
<1>6. Total(room) = Volume[Gun] * Total(guns) + Volume[Ammo] * Total(rounds)
  <2> DEFINE v == Volume[Gun]
             w == Volume[Ammo]
  <2>1. v \in Int /\ w \in Int /\ \A i \in 1..n : room[i] = v * guns[i] + w * rounds[i]
    BY <1>3, <1>5
  <2>2. Len(rounds) = Len(guns) /\ Len(room) = Len(guns) /\ n = Len(guns)
    BY <1>2, <1>4
  <2>3. guns \in Seq(Int) /\ rounds \in Seq(Int) /\ room \in Seq(Int)
    BY <1>2, <1>4
  <2> HIDE DEF v, w, n
  <2>4. Combines(guns, rounds, room, v, w)
    BY <2>1, <2>2 DEF Combines
  <2> HIDE <1>1, <1>2, <1>3, <1>4, <1>5
  <2>5. Total(room) = v * Total(guns) + w * Total(rounds)
    BY <2>1, <2>2, <2>3, <2>4, TotalIsLinear
  <2> QED BY <2>5 DEF v, w
<1> QED BY <1>6 DEF UsedVolume, Used, Weigh, room, guns, rounds

-----------------------------------------------------------------------------
(* The limits. *)

\* The kinds the limits are about are no matter of marks.
LEMMA LimitsAreBlind ==
  /\ \A s, state : IsBlind(At(FittingStore(s), state))
  /\ \A item, inv : IsBlind(InStore(item, inv))
BY PlacesAreBlind

\* Stacks that weigh no more in a slot or a hold keep within the limits.
Lighter(s, t) ==
  \A x \in Ships :
    /\ \A slot \in Slots : /\ Worn(t, x, Fitted(slot)) <= Worn(s, x, Fitted(slot))
                           /\ Worn(t, x, Charge(slot)) <= Worn(s, x, Charge(slot))
    /\ \A item \in Items : Weigh(t, InStore(item, Hold(x))) <= Weigh(s, InStore(item, Hold(x)))

\* A store that takes in so many units takes no more room than they have.
LEMMA UsedGrows ==
  ASSUME NEW s \in Seq(Stacks), NEW t \in Seq(Stacks), NEW inv, NEW m \in Nat, NEW n \in Nat,
         Weigh(t, InStore(Gun, inv)) <= Weigh(s, InStore(Gun, inv)) + m,
         Weigh(t, InStore(Ammo, inv)) <= Weigh(s, InStore(Ammo, inv)) + n
  PROVE  /\ Used(s, inv) \in Nat /\ Used(t, inv) \in Nat
         /\ Used(t, inv) <= Used(s, inv) + (Volume[Gun] * m + Volume[Ammo] * n)
<1> DEFINE v == Volume[Gun]
           w == Volume[Ammo]
           a == Weigh(s, InStore(Gun, inv))
           b == Weigh(s, InStore(Ammo, inv))
           c == Weigh(t, InStore(Gun, inv))
           d == Weigh(t, InStore(Ammo, inv))
<1>1. /\ v \in Nat /\ w \in Nat /\ a \in Nat /\ b \in Nat /\ c \in Nat /\ d \in Nat
      /\ Used(s, inv) = v * a + w * b /\ Used(t, inv) = v * c + w * d
      /\ c <= a + m /\ d <= b + n
  BY VolumeType, WeighType DEF Used
<1> HIDE DEF v, w, a, b, c, d
<1>2. v * c <= v * (a + m) /\ w * d <= w * (b + n)
  BY <1>1, ProductsGrow
<1>3. v * (a + m) = v * a + v * m /\ w * (b + n) = w * b + w * n
  BY <1>1
<1>4. v * a \in Nat /\ v * m \in Nat /\ w * b \in Nat /\ w * n \in Nat /\ v * c \in Nat /\ w * d \in Nat
  BY <1>1, Products
<1>5. v * c + w * d <= (v * a + w * b) + (v * m + w * n)
  BY <1>2, <1>3, <1>4, SMTT(30)
<1>6. /\ Used(s, inv) \in Nat /\ Used(t, inv) \in Nat
      /\ Used(t, inv) <= Used(s, inv) + (v * m + w * n)
  BY <1>1, <1>4, <1>5
<1> QED BY <1>6 DEF v, w

\* What weighs no more keeps within the limits.
LEMMA LighterFits ==
  ASSUME NEW s \in Seq(Stacks), NEW t \in Seq(Stacks), Lighter(s, t), Sized(s), Roomy(s)
  PROVE  Sized(t) /\ Roomy(t)
<1>1. ASSUME NEW x \in Ships, NEW slot \in Slots
      PROVE  Worn(t, x, Fitted(slot)) <= 1 /\ Worn(t, x, Charge(slot)) <= MagazineSize
  <2> DEFINE a == Worn(s, x, Fitted(slot))
             b == Worn(s, x, Charge(slot))
             c == Worn(t, x, Fitted(slot))
             d == Worn(t, x, Charge(slot))
  <2>1. a \in Nat /\ b \in Nat /\ c \in Nat /\ d \in Nat /\ MagazineSize \in Nat
    BY WeighType, VolumeType DEF Worn
  <2>2. c <= a /\ d <= b /\ a <= 1 /\ b <= MagazineSize
    BY DEF Lighter, Sized
  <2> HIDE DEF a, b, c, d
  <2>3. c <= 1 /\ d <= MagazineSize
    BY <2>1, <2>2
  <2> QED BY <2>3 DEF c, d
<1>2. ASSUME NEW x \in Ships PROVE Used(t, Hold(x)) <= HoldCapacity
  <2> DEFINE a == Used(s, Hold(x))
             b == Used(t, Hold(x))
  <2>1. a \in Nat /\ b \in Nat /\ b <= a + (Volume[Gun] * 0 + Volume[Ammo] * 0)
    <3> DEFINE g == Weigh(s, InStore(Gun, Hold(x)))
               h == Weigh(t, InStore(Gun, Hold(x)))
               k == Weigh(s, InStore(Ammo, Hold(x)))
               l == Weigh(t, InStore(Ammo, Hold(x)))
    <3>1. h <= g /\ l <= k
      BY VolumeType DEF Lighter
    <3>2. g \in Nat /\ h \in Nat /\ k \in Nat /\ l \in Nat
      BY WeighType
    <3> HIDE DEF g, h, k, l
    <3>3. h <= g + 0 /\ l <= k + 0 /\ 0 \in Nat
      BY <3>1, <3>2
    <3> QED BY <3>3, UsedGrows DEF g, h, k, l
  <2>2. a <= HoldCapacity /\ HoldCapacity \in Nat /\ Volume[Gun] * 0 + Volume[Ammo] * 0 = 0
    BY VolumeType DEF Roomy
  <2> HIDE DEF a, b
  <2>3. b <= HoldCapacity
    BY <2>1, <2>2
  <2> QED BY <2>3 DEF b
<1> QED BY <1>1, <1>2 DEF Sized, Roomy

\* What may be added: no second module, no more rounds than fit, no more goods than fit.
Heavier(s, t, u) == \A K : IsBlind(K) => Weigh(t, K) <= Weigh(s, K) + Weight(u, K)
Room(s, u) ==
  /\ u.state[1] = "fitted" => u.qty = 1 /\ Free(s, u.inv, u.state)
  /\ u.state[1] = "charge" => Weigh(s, At(u.inv, u.state)) + u.qty <= MagazineSize
  /\ u.inv[1] = "cargo" => Used(s, u.inv) + u.qty * Volume[u.item] <= HoldCapacity

\* Nothing weighs anything where there is nothing.
LEMMA FreeWeighsNothing ==
  ASSUME NEW s \in Seq(Stacks), NEW inv, NEW state
  PROVE  Free(s, inv, state) <=> ~(Weigh(s, At(inv, state)) > 0)
<1>1. ASSUME NEW i \in DOMAIN s PROVE Kind(s[i]) \in At(inv, state) <=> s[i].inv = inv /\ s[i].state = state
  BY KindAt
<1> QED BY <1>1, SomethingWeighs DEF Free

\* A unit for which there is room leaves the slots within their limits.
LEMMA HeavierIsSized ==
  ASSUME NEW s \in Seq(Stacks), NEW t \in Seq(Stacks),
         NEW u \in Stacks, Heavier(s, t, u), Room(s, u), Sized(s)
  PROVE  Sized(t)
<1> SUFFICES ASSUME NEW x \in Ships, NEW slot \in Slots
             PROVE  Worn(t, x, Fitted(slot)) <= 1 /\ Worn(t, x, Charge(slot)) <= MagazineSize
  BY DEF Sized
<1> DEFINE K == At(FittingStore(x), Fitted(slot))
           L == At(FittingStore(x), Charge(slot))
           a == Weigh(s, K)
           b == Weigh(s, L)
           c == Weigh(t, K)
           d == Weigh(t, L)
           m == Weight(u, K)
           n == Weight(u, L)
<1>1. a \in Nat /\ b \in Nat /\ c \in Nat /\ d \in Nat /\ m \in Nat /\ n \in Nat /\ MagazineSize \in Nat
  BY WeighType, WeightType, VolumeType
<1>2. c <= a + m /\ d <= b + n
  BY LimitsAreBlind DEF Heavier
<1>3. a <= 1 /\ b <= MagazineSize
  BY DEF Sized, Worn
<1>4. /\ m = IF u.inv = FittingStore(x) /\ u.state = Fitted(slot) THEN u.qty ELSE 0
      /\ n = IF u.inv = FittingStore(x) /\ u.state = Charge(slot) THEN u.qty ELSE 0
  BY KindAt DEF Weight
<1>5. c <= 1
  <2>1. CASE u.inv = FittingStore(x) /\ u.state = Fitted(slot)
    <3>1. u.state[1] = "fitted"
      BY <2>1, StateCases
    <3>2. m = 1 /\ ~(a > 0)
      BY <1>4, <2>1, <3>1, FreeWeighsNothing DEF Room
    <3> HIDE DEF a, c, m
    <3> QED BY <1>1, <1>2, <3>2
  <2>2. CASE ~(u.inv = FittingStore(x) /\ u.state = Fitted(slot))
    <3>1. m = 0
      BY <1>4, <2>2
    <3> HIDE DEF a, c, m
    <3> QED BY <1>1, <1>2, <1>3, <3>1
  <2> QED BY <2>1, <2>2
<1>6. d <= MagazineSize
  <2>1. CASE u.inv = FittingStore(x) /\ u.state = Charge(slot)
    <3>1. u.state[1] = "charge"
      BY <2>1, StateCases
    <3>2. n = u.qty /\ b + u.qty <= MagazineSize
      BY <1>4, <2>1, <3>1 DEF Room
    <3> HIDE DEF b, d, n
    <3> QED BY <1>1, <1>2, <3>2
  <2>2. CASE ~(u.inv = FittingStore(x) /\ u.state = Charge(slot))
    <3>1. n = 0
      BY <1>4, <2>2
    <3> HIDE DEF b, d, n
    <3> QED BY <1>1, <1>2, <1>3, <3>1
  <2> QED BY <2>1, <2>2
<1> QED BY <1>5, <1>6 DEF Worn

\* And the holds.
LEMMA HeavierIsRoomy ==
  ASSUME NEW s \in Seq(Stacks), NEW t \in Seq(Stacks),
         NEW u \in Stacks, Heavier(s, t, u), Room(s, u), Roomy(s)
  PROVE  Roomy(t)
<1> SUFFICES ASSUME NEW x \in Ships PROVE Used(t, Hold(x)) <= HoldCapacity
  BY DEF Roomy
<1> DEFINE inv == Hold(x)
           m == Weight(u, InStore(Gun, inv))
           n == Weight(u, InStore(Ammo, inv))
           a == Used(s, inv)
           b == Used(t, inv)
           more == Volume[Gun] * m + Volume[Ammo] * n
<1>1. m \in Nat /\ n \in Nat
  BY WeightType
<1>2. /\ Weigh(t, InStore(Gun, inv)) <= Weigh(s, InStore(Gun, inv)) + m
      /\ Weigh(t, InStore(Ammo, inv)) <= Weigh(s, InStore(Ammo, inv)) + n
  BY LimitsAreBlind DEF Heavier
<1>3. a \in Nat /\ b \in Nat /\ b <= a + more
  <2> HIDE DEF m, n, inv
  <2> QED BY <1>1, <1>2, UsedGrows
<1>4. /\ m = IF u.item = Gun /\ u.inv = inv THEN u.qty ELSE 0
      /\ n = IF u.item = Ammo /\ u.inv = inv THEN u.qty ELSE 0
  BY KindAt DEF Weight
<1>5. /\ Volume[Gun] \in Nat /\ Volume[Ammo] \in Nat /\ HoldCapacity \in Nat
      /\ u.item = Gun \/ (u.item = Ammo /\ Gun # Ammo)
      /\ u.qty \in Nat /\ a <= HoldCapacity
  BY VolumeType, StackType DEF Roomy
<1>6. CASE u.inv = inv
  <2>1. inv[1] = "cargo"
    BY PlaceKinds
  <2>2. a + u.qty * Volume[u.item] <= HoldCapacity
    BY <1>6, <2>1 DEF Room
  <2>3. more = u.qty * Volume[u.item]
    <3>1. CASE u.item = Gun
      <4>1. m = u.qty /\ n = 0
        BY <1>4, <1>6, <3>1, VolumeType
      <4> QED BY <1>5, <3>1, <4>1
    <3>2. CASE u.item = Ammo
      <4>1. n = u.qty /\ m = 0
        BY <1>4, <1>6, <3>2, VolumeType
      <4> QED BY <1>5, <3>2, <4>1
    <3> QED BY <1>5, <3>1, <3>2
  <2>4. more \in Nat
    <3> DEFINE v == Volume[Gun]
               w == Volume[Ammo]
    <3>1. v \in Nat /\ w \in Nat
      BY <1>5
    <3> HIDE DEF m, n, v, w
    <3>2. v * m \in Nat /\ w * n \in Nat
      BY <1>1, <3>1, Products
    <3>3. v * m + w * n \in Nat
      BY <3>2
    <3> QED BY <3>3 DEF v, w
  <2> HIDE DEF a, b, more
  <2>5. b <= HoldCapacity
    BY <1>3, <1>5, <2>2, <2>3, <2>4
  <2> QED BY <2>5 DEF b
<1>7. CASE u.inv # inv
  <2>1. m = 0 /\ n = 0
    BY <1>4, <1>7
  <2>2. more = 0
    BY <1>5, <2>1
  <2> HIDE DEF a, b, more
  <2>3. b <= HoldCapacity
    BY <1>3, <1>5, <2>2
  <2> QED BY <2>3 DEF b
<1> QED BY <1>6, <1>7

-----------------------------------------------------------------------------
(* Goods that come, go and move. *)

\* A unit is welcome at its place, and has room there.
Admits(stacks, homes, u) == Welcome(homes, u) /\ Room(stacks, u)

\* Goods stay stowed when one more is taken in for which there is room.
LEMMA HeavierIsStowed ==
  ASSUME NEW s \in Seq(Stacks), NEW t \in Seq(Stacks), NEW u \in Stacks, NEW homes,
         Stowed(s, homes), Room(s, u), Heavier(s, t, u), Tidy(t, homes)
  PROVE  Stowed(t, homes)
BY HeavierIsSized, HeavierIsRoomy DEF Stowed

\* And when they get fewer.
LEMMA LighterIsStowed ==
  ASSUME NEW s \in Seq(Stacks), NEW t \in Seq(Stacks), NEW homes, NEW others,
         Stowed(s, homes), Lighter(s, t), Tidy(t, others)
  PROVE  Stowed(t, others)
BY LighterFits DEF Stowed

\* A unit that is admitted is put away in order.
LEMMA PutIsStowed ==
  ASSUME NEW stacks \in Seq(Stacks), NEW homes, Stowed(stacks, homes), NEW u \in Stacks,
         Admits(stacks, homes, u)
  PROVE  Stowed(Put(stacks, u), homes)
<1>1. Tidy(Put(stacks, u), homes)
  BY PutIsTidy DEF Stowed, Admits, Room
<1>2. Put(stacks, u) \in Seq(Stacks)
  BY PutType
<1>3. Heavier(stacks, Put(stacks, u), u)
  <2> SUFFICES ASSUME NEW K, IsBlind(K) PROVE Weigh(Put(stacks, u), K) <= Weigh(stacks, K) + Weight(u, K)
    BY DEF Heavier
  <2> DEFINE x == Weigh(Put(stacks, u), K)
             y == Weigh(stacks, K)
             z == Weight(u, K)
  <2>1. x = y + z
    BY PutWeighs
  <2>2. x \in Nat
    BY <1>2, WeighType
  <2> HIDE DEF x, y, z
  <2>3. x <= y + z
    BY <2>1, <2>2
  <2> QED BY <2>3 DEF x, y, z
<1> QED BY <1>1, <1>2, <1>3, HeavierIsStowed DEF Admits

\* An operation on stacks leaves the ships and the wreck where they are.
LEMMA HomesStay ==
  ASSUME NEW a, NEW b, Restacked(a, b)
  PROVE  Homes(b) = Homes(a)
BY DEF Restacked, Homes

\* Units that are admitted are added in order.
LEMMA AddIsOrderly ==
  ASSUME NEW a \in Assets, Orderly(a), NEW inv \in Places, NEW item \in Items, NEW q \in Nat \ {0},
         NEW state \in States, NEW marked \in BOOLEAN,
         NEW u, u = [item |-> item, qty |-> q, inv |-> inv, state |-> state, marked |-> marked],
         Admits(a.stacks, Homes(a), u)
  PROVE  Orderly(Add(a, inv, item, q, state, marked))
<1> DEFINE b == Add(a, inv, item, q, state, marked)
<1>1. Restacked(a, b) /\ u \in Stacks
  BY AddWeighs
<1>2. a.stacks \in Seq(Stacks)
  BY AssetsType
<1>3. b.stacks = Put(a.stacks, u)
  BY <1>1, <1>2, PutType, OtherStacks DEF Add
<1>4. Stowed(b.stacks, Homes(a))
  BY <1>1, <1>2, <1>3, PutIsStowed DEF Orderly
<1> HIDE DEF b
<1>5. Orderly(b)
  BY <1>1, <1>4, HomesStay DEF Orderly
<1> QED BY <1>5 DEF b

\* What is left behind is of the kinds that were there.
LEMMA LeftIsPart ==
  ASSUME NEW stacks \in Seq(Stacks), NEW i \in DOMAIN stacks,
         NEW q \in Nat \ {0}, q <= stacks[i].qty,
         NEW inv, NEW state, Free(stacks, inv, state)
  PROVE  Free(Take(stacks, i, q), inv, state)
<1> DEFINE K == At(inv, state)
           x == Weigh(stacks, K)
           y == Weigh(Take(stacks, i, q), K)
           z == Weight(Part(stacks[i], q), K)
<1>1. Take(stacks, i, q) \in Seq(Stacks) /\ stacks[i] \in Stacks /\ Part(stacks[i], q) \in Stacks
  BY TakeType, PartType
<1>2. x \in Nat /\ y \in Nat /\ z \in Nat
  BY <1>1, WeighType, WeightType
<1>3. y + z = x
  BY TakeWeighs
<1>4. ~(x > 0)
  BY FreeWeighsNothing
<1> HIDE DEF x, y, z
<1>5. ~(y > 0)
  BY <1>2, <1>3, <1>4
<1> QED BY <1>1, <1>5, FreeWeighsNothing DEF y

\* A stack that changes its place whole, when there is none to join.
LEMMA ChangedIsTidy ==
  ASSUME NEW stacks \in Seq(Stacks), NEW homes, Tidy(stacks, homes), NEW i \in DOMAIN stacks,
         NEW u \in Stacks,
         Welcome(homes, u), Partners(RemoveAt(stacks, i), u) = {},
         u.state[1] = "fitted" => Free(stacks, u.inv, u.state)
  PROVE  Tidy([stacks EXCEPT ![i] = u], homes)
<1> DEFINE less == RemoveAt(stacks, i)
           n == Len(stacks)
<1>1. /\ n \in Nat /\ DOMAIN stacks = 1..n /\ i \in 1..n
      /\ less \in Seq(Stacks) /\ Len(less) = n - 1 /\ DOMAIN less = 1..(n - 1)
      /\ \A j \in 1..(i - 1) : less[j] = stacks[j]
      /\ \A j \in i..(n - 1) : less[j] = stacks[j + 1]
  BY RemovedType
<1>2. u.state = Plain \/ \A j \in DOMAIN stacks : stacks[j].inv = u.inv /\ stacks[j].state = u.state => j = i
  <2>1. CASE u.state[1] = "fitted"
    BY <2>1 DEF Free
  <2>2. CASE u.state[1] = "charge"
    <3>1. Free(less, u.inv, u.state)
      BY <1>1, <2>2, RemovedIsTidy, ChargeHasPartner DEF Welcome
    <3>2. ASSUME NEW j \in DOMAIN stacks, j # i PROVE ~(stacks[j].inv = u.inv /\ stacks[j].state = u.state)
      <4> HIDE DEF less, n
      <4>1. CASE j < i
        <5>1. j \in 1..(i - 1) /\ j \in 1..(n - 1)
          BY <1>1, <4>1
        <5> QED BY <1>1, <3>1, <5>1 DEF Free
      <4>2. CASE ~(j < i)
        <5>1. j - 1 \in i..(n - 1) /\ j - 1 \in 1..(n - 1) /\ (j - 1) + 1 = j
          BY <1>1, <3>2, <4>2
        <5>2. less[j - 1] = stacks[j]
          BY <1>1, <5>1
        <5> QED BY <1>1, <3>1, <5>1, <5>2 DEF Free
      <4> QED BY <4>1, <4>2
    <3> QED BY <3>2
  <2>3. u.state = Plain \/ u.state[1] = "fitted" \/ u.state[1] = "charge"
    BY StackType, StateCases
  <2> QED BY <2>1, <2>2, <2>3
<1> QED BY <1>2, ReplacedIsTidy DEF Welcome

\* Units move to where they are welcome, and the stacks stay tidy.
LEMMA MoveIsTidy ==
  ASSUME NEW a \in Assets, NEW homes, Tidy(a.stacks, homes), NEW i \in DOMAIN a.stacks,
         NEW q \in Nat \ {0},
         q <= a.stacks[i].qty, NEW inv \in Places, NEW state \in States,
         NEW u, u = Elsewhere(a.stacks[i], q, inv, state), Welcome(homes, u),
         state[1] = "fitted" => Free(a.stacks, inv, state)
  PROVE  Tidy(Move(a, i, inv, q, state).stacks, homes)
<1> DEFINE left == Take(a.stacks, i, q)
           b == Move(a, i, inv, q, state)
           moved == Elsewhere(a.stacks[i], q, inv, state)
<1>1. /\ moved \in Stacks /\ left \in Seq(Stacks)
      /\ \/ b.stacks = [a.stacks EXCEPT ![i] = moved] /\ q = a.stacks[i].qty /\ Partners(left, moved) = {}
         \/ b.stacks = Put(left, moved)
  BY MoveCases
<1>2. a.stacks \in Seq(Stacks) /\ moved.inv = inv /\ moved.state = state /\ Welcome(homes, moved)
  BY AssetsType DEF Elsewhere
<1>3. CASE b.stacks = [a.stacks EXCEPT ![i] = moved] /\ q = a.stacks[i].qty /\ Partners(left, moved) = {}
  <2>1. Partners(RemoveAt(a.stacks, i), moved) = {}
    BY <1>3 DEF Take
  <2> HIDE DEF b, moved, left
  <2>2. Tidy([a.stacks EXCEPT ![i] = moved], homes)
    BY <1>1, <1>2, <2>1, ChangedIsTidy
  <2> QED BY <1>3, <2>2 DEF b
<1>4. CASE b.stacks = Put(left, moved)
  <2>1. Tidy(left, homes)
    BY <1>2, TakeIsTidy
  <2>2. moved.state[1] = "fitted" => Free(left, moved.inv, moved.state)
    BY <1>2, LeftIsPart
  <2> HIDE DEF left, b, moved
  <2>3. Tidy(Put(left, moved), homes)
    BY <1>1, <1>2, <2>1, <2>2, PutIsTidy
  <2> QED BY <1>4, <2>3 DEF b
<1> HIDE DEF b, moved, left
<1> QED BY <1>1, <1>3, <1>4 DEF b

\* No place gains more than what is moved there.
LEMMA MoveIsHeavier ==
  ASSUME NEW a \in Assets, NEW i \in DOMAIN a.stacks, NEW q \in Nat \ {0},
         q <= a.stacks[i].qty, NEW inv \in Places, NEW state \in States,
         NEW u, u = Elsewhere(a.stacks[i], q, inv, state)
  PROVE  Heavier(a.stacks, Move(a, i, inv, q, state).stacks, u)
<1> DEFINE b == Move(a, i, inv, q, state)
           part == Part(a.stacks[i], q)
<1>1. /\ Restacked(a, b) /\ part \in Stacks /\ u \in Stacks
      /\ \A K : IsBlind(K) => Weigh(b.stacks, K) + Weight(part, K) = Weigh(a.stacks, K) + Weight(u, K)
  BY MoveWeighs
<1>2. a.stacks \in Seq(Stacks) /\ b.stacks \in Seq(Stacks)
  BY <1>1, AssetsType DEF Restacked
<1> HIDE DEF b, part
<1> SUFFICES ASSUME NEW K, IsBlind(K) PROVE Weigh(b.stacks, K) <= Weigh(a.stacks, K) + Weight(u, K)
  BY DEF Heavier, b
<1> DEFINE x == Weigh(b.stacks, K)
           y == Weigh(a.stacks, K)
           v == Weight(part, K)
           w == Weight(u, K)
<1>3. x + v = y + w
  BY <1>1
<1>4. x \in Nat /\ y \in Nat /\ v \in Nat /\ w \in Nat
  BY <1>1, <1>2, WeighType, WeightType
<1> HIDE DEF x, y, v, w
<1>5. x <= y + w
  BY <1>3, <1>4
<1> QED BY <1>5 DEF x, y, w

\* Units that are admitted are moved in order.
LEMMA MoveIsOrderly ==
  ASSUME NEW a \in Assets, Orderly(a), NEW i \in DOMAIN a.stacks, NEW q \in Nat \ {0},
         q <= a.stacks[i].qty, NEW inv \in Places, NEW state \in States,
         NEW u, u = Elsewhere(a.stacks[i], q, inv, state), Admits(a.stacks, Homes(a), u)
  PROVE  Orderly(Move(a, i, inv, q, state))
<1> DEFINE b == Move(a, i, inv, q, state)
<1>1. Restacked(a, b) /\ u \in Stacks
  BY MoveWeighs
<1>2. a.stacks \in Seq(Stacks) /\ b.stacks \in Seq(Stacks)
  BY <1>1, AssetsType DEF Restacked
<1>3. Heavier(a.stacks, b.stacks, u)
  BY MoveIsHeavier
<1>4. u.inv = inv /\ u.state = state
  BY DEF Elsewhere
<1>5. Tidy(b.stacks, Homes(a))
  BY <1>4, MoveIsTidy DEF Orderly, Stowed, Admits, Room
<1> HIDE DEF b
<1>6. Stowed(b.stacks, Homes(a))
  BY <1>1, <1>2, <1>3, <1>5, HeavierIsStowed DEF Orderly, Admits
<1>7. Orderly(b)
  BY <1>1, <1>6, HomesStay DEF Orderly
<1> QED BY <1>7 DEF b

-----------------------------------------------------------------------------
(* What the slots wear. *)

\* Goods are plain wherever they are not in a slot.
LEMMA PlainIsElsewhere ==
  /\ Plain \in States
  /\ \A inv : Belongs(Gun, inv, Plain) <=> inv[1] # "fitting"
  /\ \A item, inv : Belongs(item, inv, Plain) <=> inv[1] # "fitting"
  /\ \A item, inv, state : Belongs(item, inv, state) /\ inv[1] # "fitting" => state = Plain
<1>1. Plain[1] # "fitted" /\ Plain[1] # "charge" /\ Plain \in States
  BY StateCases
<1> QED BY <1>1 DEF Belongs

\* What the operations do to what the slots wear.
Count(inv, state, s, x, q) == IF inv = FittingStore(x) /\ state = s THEN q ELSE 0

\* A slot gains what is moved into it and loses what is moved out of it.
LEMMA MoveWears ==
  ASSUME NEW a \in Assets, NEW i \in DOMAIN a.stacks, NEW q \in Nat \ {0},
         q <= a.stacks[i].qty, NEW inv \in Places, NEW state \in States, NEW x, NEW st
  PROVE  LET b == Move(a, i, inv, q, state)
         IN  /\ Worn(b.stacks, x, st) \in Nat /\ Worn(a.stacks, x, st) \in Nat
             /\ Worn(b.stacks, x, st) + Count(a.stacks[i].inv, a.stacks[i].state, st, x, q) =
                  Worn(a.stacks, x, st) + Count(inv, state, st, x, q)
<1> DEFINE b == Move(a, i, inv, q, state)
           s == a.stacks[i]
           part == Part(s, q)
           moved == Elsewhere(s, q, inv, state)
           K == At(FittingStore(x), st)
<1>1. /\ Restacked(a, b) /\ part \in Stacks /\ moved \in Stacks
      /\ \A L : IsBlind(L) => Weigh(b.stacks, L) + Weight(part, L) = Weigh(a.stacks, L) + Weight(moved, L)
  BY MoveWeighs
<1>2. a.stacks \in Seq(Stacks) /\ b.stacks \in Seq(Stacks) /\ s \in Stacks
  BY <1>1, AssetsType DEF Restacked
<1>3. moved.inv = inv /\ moved.state = state /\ moved.qty = q
  BY DEF Elsewhere
<1>4. Weight(moved, K) = Count(inv, state, st, x, q)
  <2> HIDE DEF moved
  <2> QED BY <1>1, <1>3, KindAt DEF Weight, Count
<1>5. Weight(part, K) = Count(s.inv, s.state, st, x, q)
  <2>1. Weight(part, K) = IF Kind(s) \in K THEN q ELSE 0
    BY <1>2, PartType
  <2>2. Kind(s) \in K <=> s.inv = FittingStore(x) /\ s.state = st
    BY <1>2, KindAt
  <2> HIDE DEF part, K, s
  <2> QED BY <2>1, <2>2 DEF Count
<1>6. Weigh(b.stacks, K) + Weight(part, K) = Weigh(a.stacks, K) + Weight(moved, K)
  BY <1>1, LimitsAreBlind
<1>7. Weigh(b.stacks, K) \in Nat /\ Weigh(a.stacks, K) \in Nat
  <2> HIDE DEF b, K
  <2> QED BY <1>2, WeighType
<1> HIDE DEF b, part, moved
<1> QED BY <1>4, <1>5, <1>6, <1>7 DEF Worn, b

\* A slot gains what is added to it.
LEMMA AddWears ==
  ASSUME NEW a \in Assets, NEW inv \in Places, NEW item \in Items, NEW q \in Nat \ {0},
         NEW state \in States, NEW marked \in BOOLEAN, NEW x, NEW st
  PROVE  LET b == Add(a, inv, item, q, state, marked)
         IN  /\ Worn(b.stacks, x, st) \in Nat /\ Worn(a.stacks, x, st) \in Nat
             /\ Worn(b.stacks, x, st) = Worn(a.stacks, x, st) + Count(inv, state, st, x, q)
<1> DEFINE b == Add(a, inv, item, q, state, marked)
           s == [item |-> item, qty |-> q, inv |-> inv, state |-> state, marked |-> marked]
           K == At(FittingStore(x), st)
<1>1. /\ Restacked(a, b) /\ s \in Stacks
      /\ \A L : IsBlind(L) => Weigh(b.stacks, L) = Weigh(a.stacks, L) + Weight(s, L)
  BY AddWeighs
<1>2. a.stacks \in Seq(Stacks) /\ b.stacks \in Seq(Stacks)
  BY <1>1, AssetsType DEF Restacked
<1>3. s.inv = inv /\ s.state = state /\ s.qty = q
  OBVIOUS
<1>4. Weight(s, K) = Count(inv, state, st, x, q)
  <2> HIDE DEF s
  <2> QED BY <1>1, <1>3, KindAt DEF Weight, Count
<1>5. Weigh(b.stacks, K) = Weigh(a.stacks, K) + Weight(s, K)
  BY <1>1, LimitsAreBlind
<1>6. Weigh(b.stacks, K) \in Nat /\ Weigh(a.stacks, K) \in Nat
  <2> HIDE DEF b, K
  <2> QED BY <1>2, WeighType
<1> HIDE DEF b, s
<1> QED BY <1>4, <1>5, <1>6 DEF Worn, b

\* A slot loses what is used up there.
LEMMA ConsumeWears ==
  ASSUME NEW a \in Assets, NEW i \in DOMAIN a.stacks, NEW q \in Nat \ {0}, q <= a.stacks[i].qty,
         NEW x, NEW st
  PROVE  LET b == Consume(a, i, q)
         IN  /\ Worn(b.stacks, x, st) \in Nat /\ Worn(a.stacks, x, st) \in Nat
             /\ Worn(b.stacks, x, st) + Count(a.stacks[i].inv, a.stacks[i].state, st, x, q) =
                  Worn(a.stacks, x, st)
<1> DEFINE b == Consume(a, i, q)
           s == a.stacks[i]
           part == Part(s, q)
           K == At(FittingStore(x), st)
<1>1. /\ Restacked(a, b)
      /\ Weigh(b.stacks, K) + Weight(part, K) = Weigh(a.stacks, K)
  BY ConsumeWeighs
<1>2. a.stacks \in Seq(Stacks) /\ b.stacks \in Seq(Stacks) /\ s \in Stacks
  BY <1>1, AssetsType DEF Restacked
<1>3. Weight(part, K) = Count(s.inv, s.state, st, x, q)
  <2>1. Weight(part, K) = IF Kind(s) \in K THEN q ELSE 0
    BY <1>2, PartType
  <2>2. Kind(s) \in K <=> s.inv = FittingStore(x) /\ s.state = st
    BY <1>2, KindAt
  <2> HIDE DEF part, K, s
  <2> QED BY <2>1, <2>2 DEF Count
<1>4. Weigh(b.stacks, K) \in Nat /\ Weigh(a.stacks, K) \in Nat
  <2> HIDE DEF b, K
  <2> QED BY <1>2, WeighType
<1> HIDE DEF b, part
<1> QED BY <1>1, <1>3, <1>4 DEF Worn, b

\* Every slot wears what it wore.
SameWear(s, t) ==
  \A x \in Ships, slot \in Slots : /\ Worn(t, x, Fitted(slot)) = Worn(s, x, Fitted(slot))
                                   /\ Worn(t, x, Charge(slot)) = Worn(s, x, Charge(slot))

\* Slots that wear the same are as well armed.
LEMMA SameIsArmed ==
  ASSUME NEW s, NEW t, SameWear(s, t), Armed(s)
  PROVE  Armed(t)
BY DEF SameWear, Armed

\* What lies elsewhere than in a slot moves to where it may lie.
Fitting(inv) == inv[1] = "fitting"

\* Such a move is in order, and touches no slot.
LEMMA PlainMoves ==
  ASSUME NEW a \in Assets, Orderly(a), NEW i \in DOMAIN a.stacks, NEW q \in Nat \ {0},
         q <= a.stacks[i].qty, ~Fitting(a.stacks[i].inv),
         NEW inv \in Places, inv \in Homes(a), ~Fitting(inv), Fits(a, inv, a.stacks[i].item, q)
  PROVE  LET b == Move(a, i, inv, q, Plain)
         IN  Orderly(b) /\ SameWear(a.stacks, b.stacks)
<1> DEFINE s == a.stacks[i]
           u == Elsewhere(s, q, inv, Plain)
           b == Move(a, i, inv, q, Plain)
<1>1. s \in Stacks /\ Plain \in States
  BY AssetsType, PlainIsElsewhere
<1>2. u.inv = inv /\ u.state = Plain /\ u.item = s.item /\ u.qty = q
  BY DEF Elsewhere
<1>3. Welcome(Homes(a), u)
  <2> HIDE DEF u
  <2> QED BY <1>2, PlainIsElsewhere DEF Welcome, Fitting
<1>4. Room(a.stacks, u)
  <2>1. Plain[1] # "fitted" /\ Plain[1] # "charge"
    BY StateCases
  <2>2. inv[1] = "cargo" => Used(a.stacks, inv) + q * Volume[s.item] <= HoldCapacity
    BY VolumeIsWeight DEF Fits
  <2> HIDE DEF u
  <2> QED BY <1>2, <2>1, <2>2 DEF Room
<1>5. Orderly(b)
  <2> HIDE DEF b
  <2> QED BY <1>1, <1>3, <1>4, MoveIsOrderly DEF Admits, b
<1>6. SameWear(a.stacks, b.stacks)
  <2> SUFFICES ASSUME NEW x \in Ships, NEW st
               PROVE  Worn(b.stacks, x, st) = Worn(a.stacks, x, st)
    BY DEF SameWear
  <2>1. FittingStore(x)[1] = "fitting"
    BY PlaceKinds
  <2>2. Count(s.inv, s.state, st, x, q) = 0 /\ Count(inv, Plain, st, x, q) = 0
    BY <2>1 DEF Count, Fitting
  <2>3. /\ Worn(b.stacks, x, st) \in Nat /\ Worn(a.stacks, x, st) \in Nat
        /\ Worn(b.stacks, x, st) + Count(s.inv, s.state, st, x, q) =
             Worn(a.stacks, x, st) + Count(inv, Plain, st, x, q)
    BY <1>1, MoveWears
  <2> HIDE DEF b, s
  <2> QED BY <2>2, <2>3
<1> QED BY <1>5, <1>6

\* What is used up leaves the rest in order.
LEMMA ConsumeIsOrderly ==
  ASSUME NEW a \in Assets, Orderly(a), NEW i \in DOMAIN a.stacks, NEW q \in Nat \ {0},
         q <= a.stacks[i].qty
  PROVE  Orderly(Consume(a, i, q))
<1> DEFINE b == Consume(a, i, q)
<1>1. Restacked(a, b)
  BY ConsumeType
<1>2. a.stacks \in Seq(Stacks) /\ b.stacks \in Seq(Stacks)
  BY <1>1, AssetsType DEF Restacked
<1>3. b.stacks = Take(a.stacks, i, q)
  BY <1>2, TakeType, OtherStacks DEF Consume
<1>4. Tidy(b.stacks, Homes(a))
  BY <1>2, <1>3, TakeIsTidy DEF Orderly, Stowed
<1>5. ASSUME NEW K PROVE Weigh(b.stacks, K) <= Weigh(a.stacks, K)
  <2> DEFINE x == Weigh(b.stacks, K)
             y == Weigh(a.stacks, K)
             z == Weight(Part(a.stacks[i], q), K)
  <2>1. x + z = y
    BY ConsumeWeighs
  <2>2. x \in Nat /\ y \in Nat /\ z \in Nat
    <3>1. Part(a.stacks[i], q) \in Stacks
      BY <1>2, PartType
    <3> HIDE DEF b
    <3> QED BY <1>2, <3>1, WeighType, WeightType
  <2> HIDE DEF x, y, z
  <2>3. x <= y
    BY <2>1, <2>2
  <2> QED BY <2>3 DEF x, y
<1> HIDE DEF b
<1>6. Lighter(a.stacks, b.stacks)
  BY <1>5 DEF Lighter, Worn
<1>7. Orderly(b)
  BY <1>1, <1>2, <1>4, <1>6, HomesStay, LighterIsStowed DEF Orderly
<1> QED BY <1>7 DEF b

-----------------------------------------------------------------------------
(* Inventory commands. *)

\* What is only rearranged stays in order, and touches no slot.
LEMMA SameWeightIsOrderly ==
  ASSUME NEW a \in Assets, Orderly(a), NEW b, Restacked(a, b), Tidy(b.stacks, Homes(a)),
         \A K : IsBlind(K) => Weigh(b.stacks, K) = Weigh(a.stacks, K)
  PROVE  Orderly(b) /\ SameWear(a.stacks, b.stacks)
<1>1. a.stacks \in Seq(Stacks) /\ b.stacks \in Seq(Stacks)
  BY AssetsType DEF Restacked
<1>2. \A K : Weigh(a.stacks, K) \in Nat
  BY <1>1, WeighType
<1>3. \A x, st : Worn(b.stacks, x, st) = Worn(a.stacks, x, st) /\ Worn(a.stacks, x, st) \in Nat
  BY <1>2, LimitsAreBlind DEF Worn
<1>4. \A item, inv : /\ Weigh(b.stacks, InStore(item, inv)) = Weigh(a.stacks, InStore(item, inv))
                     /\ Weigh(a.stacks, InStore(item, inv)) \in Nat
  BY <1>2, LimitsAreBlind
<1>5. \A x, y \in Nat : x = y => x <= y
  OBVIOUS
<1>6. Lighter(a.stacks, b.stacks)
  BY <1>3, <1>4, <1>5 DEF Lighter
<1>7. Orderly(b)
  BY <1>1, <1>6, HomesStay, LighterIsStowed DEF Orderly
<1> QED BY <1>3, <1>7 DEF SameWear

\* A stack is split in order.
LEMMA SplitIsOrderly ==
  ASSUME NEW a \in Assets, Orderly(a), NEW i \in DOMAIN a.stacks, NEW q \in Nat \ {0},
         q < a.stacks[i].qty, ~Fitting(a.stacks[i].inv)
  PROVE  LET b == Split(a, i, q)
         IN  Orderly(b) /\ SameWear(a.stacks, b.stacks)
<1> DEFINE s == a.stacks[i]
           part == Part(s, q)
           left == Take(a.stacks, i, q)
           b == Split(a, i, q)
<1>1. a.stacks \in Seq(Stacks) /\ s \in Stacks /\ s.qty \in Nat /\ q <= s.qty
  <2>1. a.stacks \in Seq(Stacks) /\ s \in Stacks
    BY AssetsType
  <2> QED BY <2>1, StackType
<1>2. part \in Stacks /\ part.item = s.item /\ part.inv = s.inv /\ part.state = s.state
  <2>1. part \in Stacks /\ Kind(part) = Kind(s)
    BY <1>1, PartType
  <2> HIDE DEF part, s
  <2> QED BY <2>1 DEF Kind
<1>3. left \in Seq(Stacks) /\ Tidy(left, Homes(a))
  BY <1>1, TakeType, TakeIsTidy DEF Orderly, Stowed
<1>4. b.stacks = Append(left, part) /\ Restacked(a, b)
  <2>1. Append(left, part) \in Seq(Stacks)
    BY <1>2, <1>3
  <2>2. b = [a EXCEPT !.stacks = Append(left, part)]
    BY DEF Split, Part
  <2> HIDE DEF b, left, part
  <2> QED BY <2>1, <2>2, OtherStacks
<1>5. s.inv \in Homes(a) /\ Belongs(s.item, s.inv, s.state) /\ s.state = Plain
  BY PlainIsElsewhere DEF Orderly, Stowed, Tidy, Sorted, Fitting
<1>6. Tidy(b.stacks, Homes(a))
  <2> HIDE DEF b, left, part, s
  <2> QED BY <1>2, <1>3, <1>4, <1>5, AppendedIsTidy
<1>7. \A K : Weigh(b.stacks, K) = Weigh(a.stacks, K)
  BY <1>1, SplitWeighs
<1> HIDE DEF b
<1>8. Orderly(b) /\ SameWear(a.stacks, b.stacks)
  BY <1>4, <1>6, <1>7, SameWeightIsOrderly
<1> QED BY <1>8 DEF b

\* Two stacks are merged in order.
LEMMA MergeIsOrderly ==
  ASSUME NEW a \in Assets, Orderly(a), NEW i \in DOMAIN a.stacks, NEW j \in DOMAIN a.stacks, i # j,
         a.stacks[i].inv = a.stacks[j].inv, Compatible(a.stacks[i], a.stacks[j])
  PROVE  LET b == Merge(a, i, j)
         IN  Orderly(b) /\ SameWear(a.stacks, b.stacks)
<1> DEFINE s == a.stacks[j]
           t == Joined(s, a.stacks[i])
           both == [a.stacks EXCEPT ![j] = t]
           b == Merge(a, i, j)
<1>1. a.stacks \in Seq(Stacks) /\ s \in Stacks /\ a.stacks[i] \in Stacks
  BY AssetsType
<1>2. t \in Stacks /\ t.item = s.item /\ t.inv = s.inv /\ t.state = s.state
  BY <1>1, JoinedType
<1>3. Sorted(a.stacks, Homes(a)) /\ Apart(a.stacks) /\ Tidy(a.stacks, Homes(a))
  BY DEF Orderly, Stowed, Tidy
<1> HIDE DEF t
<1>4. both \in Seq(Stacks) /\ DOMAIN both = DOMAIN a.stacks
  BY <1>1, <1>2, ReplacedType
<1>5. t.inv \in Homes(a) /\ Belongs(t.item, t.inv, t.state)
  BY <1>2, <1>3 DEF Sorted
<1>6. t.state = Plain \/ \A k \in DOMAIN a.stacks : a.stacks[k].inv = t.inv /\ a.stacks[k].state = t.state => k = j
  BY <1>2, <1>3 DEF Apart
<1>7. Tidy(both, Homes(a))
  BY <1>1, <1>3, <1>5, <1>6, ReplacedIsTidy
<1> HIDE DEF both
<1>8. RemoveAt(both, i) \in Seq(Stacks) /\ Tidy(RemoveAt(both, i), Homes(a))
  BY <1>4, <1>7, RemovedIsTidy, RemovedType
<1>9. b.stacks = RemoveAt(both, i) /\ Restacked(a, b)
  <2>1. b = [a EXCEPT !.stacks = RemoveAt(both, i)]
    BY DEF Merge, both, t
  <2> HIDE DEF b
  <2> QED BY <1>8, <2>1, OtherStacks
<1>10. \A K : IsBlind(K) => Weigh(b.stacks, K) = Weigh(a.stacks, K)
  <2>1. MayJoin(a.stacks[j], a.stacks[i])
    BY DEF MayJoin, Compatible
  <2> QED BY <2>1, MergeWeighs
<1> HIDE DEF b
<1>11. Orderly(b) /\ SameWear(a.stacks, b.stacks)
  BY <1>8, <1>9, <1>10, SameWeightIsOrderly
<1> QED BY <1>11 DEF b

\* Where the pilot may reach is where goods may lie, and no slot.
LEMMA LocalIsHome ==
  ASSUME NEW a \in Assets, a.out => a.active \in DOMAIN a.ships, NEW inv \in Local(a)
  PROVE  inv \in Homes(a) /\ ~Fitting(inv) /\ inv \in Places
<1>1. DOMAIN a.ships \subseteq Ships
  BY AssetsType, FleetType
<1>2. inv = Hangar \/ \E s \in DOMAIN a.ships : inv = Hold(s)
  BY DEF Local
<1>3. CASE inv = Hangar
  BY <1>3, PlaceKinds DEF Homes, Fitting
<1>4. CASE \E s \in DOMAIN a.ships : inv = Hold(s)
  BY <1>1, <1>4, PlaceKinds DEF Homes, Fitting
<1> QED BY <1>2, <1>3, <1>4

\* What the steps need of the invariant.
LEMMA FitTypes ==
  ASSUME FitInv
  PROVE  /\ StationInv /\ assets \in Assets /\ Orderly(assets) /\ Armed(assets.stacks) /\ IsWhole(fitting)
         /\ assets.out => assets.active \in DOMAIN assets.ships
         /\ DOMAIN assets.ships \subseteq Ships
         /\ \A i \in DOMAIN assets.stacks : assets.stacks[i] \in Stacks /\ assets.stacks[i].qty \in Nat
         /\ \A i \in AtHand : i \in DOMAIN assets.stacks /\ ~Fitting(assets.stacks[i].inv)
<1>1. StationInv /\ Orderly(assets) /\ Armed(assets.stacks) /\ IsWhole(fitting)
  BY DEF FitInv, Fit
<1>2. assets.out => assets.active \in DOMAIN assets.ships
  BY <1>1 DEF StationInv, PilotIsPlaced
<1>3. /\ assets \in Assets /\ DOMAIN assets.ships \subseteq Ships
      /\ \A i \in DOMAIN assets.stacks : assets.stacks[i] \in Stacks /\ assets.stacks[i].qty \in Nat
  BY <1>1, InvTypes
<1>4. \A i \in AtHand : i \in DOMAIN assets.stacks /\ ~Fitting(assets.stacks[i].inv)
  BY <1>2, <1>3, LocalIsHome DEF AtHand
<1> QED BY <1>1, <1>2, <1>3, <1>4

\* Goods are moved between the stores of a station.
LEMMA TransferFits ==
  ASSUME FitInv, Transfer
  PROVE  Fit(assets', fitting')
<1>1. PICK i \in AtHand, inv \in Local(assets), q \in DealSizes :
        /\ q <= assets.stacks[i].qty /\ Fits(assets, inv, assets.stacks[i].item, q)
        /\ Adopt(Move(assets, i, inv, q, Plain))
        /\ UNCHANGED <<market, fitting>>
  BY DEF Transfer
<1>2. q \in Nat \ {0}
  BY DealTypes
<1>3. inv \in Homes(assets) /\ ~Fitting(inv) /\ inv \in Places
  BY FitTypes, LocalIsHome
<1> DEFINE b == Move(assets, i, inv, q, Plain)
<1>4. Orderly(b) /\ SameWear(assets.stacks, b.stacks)
  BY <1>1, <1>2, <1>3, FitTypes, PlainMoves
<1> HIDE DEF b
<1>5. assets' = b /\ fitting' = fitting
  BY <1>1 DEF Adopt, b
<1> QED BY <1>4, <1>5, FitTypes, SameIsArmed DEF Fit

\* A stack is split.
LEMMA SplitFits ==
  ASSUME FitInv, SplitStack
  PROVE  Fit(assets', fitting')
<1>1. PICK i \in AtHand, q \in DealSizes :
        /\ q < assets.stacks[i].qty
        /\ Adopt(Split(assets, i, q))
        /\ UNCHANGED <<market, fitting>>
  BY DEF SplitStack
<1>2. q \in Nat \ {0}
  BY DealTypes
<1> DEFINE b == Split(assets, i, q)
<1>3. Orderly(b) /\ SameWear(assets.stacks, b.stacks)
  BY <1>1, <1>2, FitTypes, SplitIsOrderly
<1> HIDE DEF b
<1>4. assets' = b /\ fitting' = fitting
  BY <1>1 DEF Adopt, b
<1> QED BY <1>3, <1>4, FitTypes, SameIsArmed DEF Fit

\* Two stacks are merged.
LEMMA MergeFits ==
  ASSUME FitInv, MergeStacks
  PROVE  Fit(assets', fitting')
<1>1. PICK i \in AtHand, j \in AtHand :
        /\ i # j /\ assets.stacks[i].inv = assets.stacks[j].inv
        /\ Compatible(assets.stacks[i], assets.stacks[j])
        /\ Adopt(Merge(assets, i, j))
        /\ UNCHANGED <<market, fitting>>
  BY DEF MergeStacks
<1> DEFINE b == Merge(assets, i, j)
<1>2. Orderly(b) /\ SameWear(assets.stacks, b.stacks)
  BY <1>1, FitTypes, MergeIsOrderly
<1> HIDE DEF b
<1>3. assets' = b /\ fitting' = fitting
  BY <1>1 DEF Adopt, b
<1> QED BY <1>2, <1>3, FitTypes, SameIsArmed DEF Fit

\* Goods are taken from a wreck as long as the hold has room.
LEMMA LootFits ==
  ASSUME FitInv, TakeLoot
  PROVE  Fit(assets', fitting')
<1> DEFINE inv == Hold(assets.active)
<1>1. PICK i \in StacksIn(assets, Wreck), q \in DealSizes :
        /\ assets.out /\ q <= assets.stacks[i].qty /\ Fits(assets, inv, assets.stacks[i].item, q)
        /\ Adopt(Move(assets, i, inv, q, Plain))
        /\ UNCHANGED <<market, fitting>>
  BY DEF TakeLoot
<1>2. q \in Nat \ {0} /\ i \in DOMAIN assets.stacks /\ ~Fitting(assets.stacks[i].inv)
  BY DealTypes, PlaceKinds DEF StacksIn, Fitting
<1>3. inv \in Local(assets)
  BY <1>1 DEF Local
<1>4. inv \in Homes(assets) /\ ~Fitting(inv) /\ inv \in Places
  BY <1>3, FitTypes, LocalIsHome
<1> HIDE DEF inv
<1> DEFINE b == Move(assets, i, inv, q, Plain)
<1>5. Orderly(b) /\ SameWear(assets.stacks, b.stacks)
  BY <1>1, <1>2, <1>4, FitTypes, PlainMoves
<1> HIDE DEF b
<1>6. assets' = b /\ fitting' = fitting
  BY <1>1 DEF Adopt, b
<1> QED BY <1>5, <1>6, FitTypes, SameIsArmed DEF Fit

-----------------------------------------------------------------------------
(* Magazines. *)

\* A slot counts its own module and its own charge only.
LEMMA CountsTell ==
  /\ \A x, y, slot, other, q : Count(FittingStore(y), Charge(slot), Fitted(other), x, q) = 0
  /\ \A x, y, slot, other, q : Count(FittingStore(y), Fitted(slot), Charge(other), x, q) = 0
  /\ \A x, y, slot, other, q : Count(FittingStore(y), Charge(slot), Charge(other), x, q) =
                                  IF x = y /\ slot = other THEN q ELSE 0
  /\ \A x, y, slot, other, q : Count(FittingStore(y), Fitted(slot), Fitted(other), x, q) =
                                  IF x = y /\ slot = other THEN q ELSE 0
  /\ \A inv, state, st, x, q : ~Fitting(inv) => Count(inv, state, st, x, q) = 0
<1>1. \A slot, other : /\ Fitted(slot) # Charge(other)
                       /\ (Fitted(slot) = Fitted(other) <=> slot = other)
                       /\ (Charge(slot) = Charge(other) <=> slot = other)
  <2>1. \A slot : Fitted(slot)[2] = slot /\ Charge(slot)[2] = slot
    BY DEF Fitted, Charge
  <2> QED BY <2>1, StateCases
<1>2. \A x, y : FittingStore(x) = FittingStore(y) <=> x = y
  BY PlaceKinds
<1>3. \A inv, state, st, x, q : ~Fitting(inv) => Count(inv, state, st, x, q) = 0
  <2>1. \A x : Fitting(FittingStore(x))
    BY PlaceKinds DEF Fitting
  <2> QED BY <2>1 DEF Count
<1> QED BY <1>1, <1>2, <1>3 DEF Count

\* Up to n rounds more in one magazine, and nothing else in any slot.
Topped(a, b, s, slot, n) ==
  /\ Restacked(a, b) /\ Orderly(b)
  /\ \A x \in Ships, other \in Slots :
       /\ Worn(b.stacks, x, Fitted(other)) = Worn(a.stacks, x, Fitted(other))
       /\ (x # s \/ other # slot) => Worn(b.stacks, x, Charge(other)) = Worn(a.stacks, x, Charge(other))
  /\ Worn(b.stacks, s, Charge(slot)) \in Nat /\ Worn(a.stacks, s, Charge(slot)) \in Nat
  /\ Worn(a.stacks, s, Charge(slot)) <= Worn(b.stacks, s, Charge(slot))
  /\ Worn(b.stacks, s, Charge(slot)) <= Worn(a.stacks, s, Charge(slot)) + n

\* What a slot wears is a number.
LEMMA WornType ==
  ASSUME NEW a \in Assets, NEW x, NEW st
  PROVE  Worn(a.stacks, x, st) \in Nat
<1>1. a.stacks \in Seq(Stacks)
  BY AssetsType
<1> QED BY <1>1, WeighType DEF Worn

\* A magazine that is topped up twice is topped up by both.
LEMMA ToppedTwice ==
  ASSUME NEW a, NEW b, NEW c, NEW s \in Ships, NEW slot \in Slots, NEW m \in Nat, NEW n \in Nat,
         Topped(a, b, s, slot, m), Topped(b, c, s, slot, n)
  PROVE  Topped(a, c, s, slot, m + n)
<1>1. Restacked(a, c) /\ Orderly(c)
  BY RestackedTwice DEF Topped
<1>2. \A x \in Ships, other \in Slots :
        /\ Worn(c.stacks, x, Fitted(other)) = Worn(a.stacks, x, Fitted(other))
        /\ (x # s \/ other # slot) => Worn(c.stacks, x, Charge(other)) = Worn(a.stacks, x, Charge(other))
  BY DEF Topped
<1> DEFINE x == Worn(a.stacks, s, Charge(slot))
           y == Worn(b.stacks, s, Charge(slot))
           z == Worn(c.stacks, s, Charge(slot))
<1>3. x \in Nat /\ y \in Nat /\ z \in Nat /\ x <= y /\ y <= x + m /\ y <= z /\ z <= y + n
  BY DEF Topped
<1> HIDE DEF x, y, z
<1>4. x <= z /\ z <= x + (m + n)
  BY <1>3
<1> QED BY <1>1, <1>2, <1>3, <1>4 DEF Topped, x, z

\* Nothing done, nothing topped up.
LEMMA NothingIsTopped ==
  ASSUME NEW a \in Assets, Orderly(a), NEW s, NEW slot, NEW n \in Nat
  PROVE  Topped(a, a, s, slot, n)
<1> DEFINE x == Worn(a.stacks, s, Charge(slot))
<1>1. x \in Nat
  BY WornType
<1>2. Restacked(a, a)
  BY DEF Restacked
<1> HIDE DEF x
<1>3. x <= x /\ x <= x + n
  BY <1>1
<1> QED BY <1>1, <1>2, <1>3 DEF Topped, x

\* A round that goes into a magazine with room for it.
LEMMA ChargeIsAdmitted ==
  ASSUME NEW a \in Assets, NEW s \in DOMAIN a.ships, NEW slot \in Slots, NEW n \in Nat,
         Worn(a.stacks, s, Charge(slot)) + n <= MagazineSize,
         NEW u, u.item = Ammo, u.qty = n, u.inv = FittingStore(s), u.state = Charge(slot)
  PROVE  Admits(a.stacks, Homes(a), u)
<1>1. Charge(slot)[1] = "charge" /\ Charge(slot) # Plain /\ FittingStore(s)[1] = "fitting"
  BY StateCases, PlaceKinds
<1>2. Welcome(Homes(a), u)
  BY <1>1 DEF Welcome, Belongs, Homes
<1>3. Room(a.stacks, u)
  BY <1>1 DEF Room, Worn
<1> QED BY <1>2, <1>3 DEF Admits

\* One round into a magazine with room for it tops it up by one.
LEMMA OneMore ==
  ASSUME NEW a \in Assets, NEW b, Restacked(a, b), Orderly(b), NEW s \in Ships, NEW slot \in Slots,
         \A x, st : /\ Worn(a.stacks, x, st) \in Nat /\ Worn(b.stacks, x, st) \in Nat
                    /\ Worn(b.stacks, x, st) = Worn(a.stacks, x, st) + Count(FittingStore(s), Charge(slot), st, x, 1)
  PROVE  /\ Topped(a, b, s, slot, 1)
         /\ Worn(b.stacks, s, Charge(slot)) = Worn(a.stacks, s, Charge(slot)) + 1
<1>1. \A x, st : Count(FittingStore(s), Charge(slot), st, x, 1) = 0 => Worn(b.stacks, x, st) = Worn(a.stacks, x, st)
  OBVIOUS
<1>2. Worn(b.stacks, s, Charge(slot)) = Worn(a.stacks, s, Charge(slot)) + 1
  BY CountsTell
<1>3. \A x \in Ships, other \in Slots :
        /\ Worn(b.stacks, x, Fitted(other)) = Worn(a.stacks, x, Fitted(other))
        /\ (x # s \/ other # slot) => Worn(b.stacks, x, Charge(other)) = Worn(a.stacks, x, Charge(other))
  BY <1>1, CountsTell
<1> DEFINE x == Worn(a.stacks, s, Charge(slot))
           y == Worn(b.stacks, s, Charge(slot))
<1>4. x \in Nat /\ y = x + 1
  BY <1>2
<1> HIDE DEF x, y
<1>5. y \in Nat /\ x <= y /\ y <= x + 1
  BY <1>4
<1> QED BY <1>2, <1>3, <1>4, <1>5 DEF Topped, x, y

\* So does a round that is moved there.
LEMMA ChargeMoves ==
  ASSUME NEW a \in Assets, Orderly(a),
         NEW i \in DOMAIN a.stacks, a.stacks[i].item = Ammo, a.stacks[i].state = Plain,
         NEW s \in DOMAIN a.ships,
         NEW slot \in Slots, Worn(a.stacks, s, Charge(slot)) + 1 <= MagazineSize
  PROVE  LET b == Move(a, i, FittingStore(s), 1, Charge(slot))
         IN  /\ Topped(a, b, s, slot, 1)
             /\ Worn(b.stacks, s, Charge(slot)) = Worn(a.stacks, s, Charge(slot)) + 1
<1> DEFINE b == Move(a, i, FittingStore(s), 1, Charge(slot))
           u == Elsewhere(a.stacks[i], 1, FittingStore(s), Charge(slot))
<1>1. s \in Ships /\ FittingStore(s) \in Places /\ Charge(slot) \in States
  BY AssetsType, FleetType, PlaceKinds, StateCases
<1>2. 1 \in Nat \ {0} /\ 1 <= a.stacks[i].qty /\ a.stacks[i] \in Stacks
  BY AssetsType, StackType
<1>3. ~Fitting(a.stacks[i].inv)
  BY DEF Orderly, Stowed, Tidy, Sorted, Belongs, Fitting
<1>4. u.item = Ammo /\ u.qty = 1 /\ u.inv = FittingStore(s) /\ u.state = Charge(slot)
  BY DEF Elsewhere
<1>5. Admits(a.stacks, Homes(a), u)
  <2> HIDE DEF u
  <2> QED BY <1>4, ChargeIsAdmitted
<1>6. Restacked(a, b) /\ Orderly(b)
  <2>1. Orderly(b)
    BY <1>1, <1>2, <1>5, MoveIsOrderly
  <2>2. Restacked(a, b)
    BY <1>1, <1>2, MoveType
  <2> QED BY <2>1, <2>2
<1>7. ASSUME NEW x, NEW st
      PROVE  /\ Worn(a.stacks, x, st) \in Nat /\ Worn(b.stacks, x, st) \in Nat
             /\ Worn(b.stacks, x, st) = Worn(a.stacks, x, st) + Count(FittingStore(s), Charge(slot), st, x, 1)
  <2>1. /\ Worn(b.stacks, x, st) \in Nat /\ Worn(a.stacks, x, st) \in Nat
        /\ Worn(b.stacks, x, st) + Count(a.stacks[i].inv, a.stacks[i].state, st, x, 1) =
             Worn(a.stacks, x, st) + Count(FittingStore(s), Charge(slot), st, x, 1)
    BY <1>1, <1>2, MoveWears
  <2>2. Count(a.stacks[i].inv, a.stacks[i].state, st, x, 1) = 0
    BY <1>3, CountsTell
  <2> HIDE DEF b
  <2> QED BY <2>1, <2>2
<1> HIDE DEF b
<1>8. /\ Topped(a, b, s, slot, 1)
      /\ Worn(b.stacks, s, Charge(slot)) = Worn(a.stacks, s, Charge(slot)) + 1
  BY <1>1, <1>6, <1>7, OneMore
<1> QED BY <1>8 DEF b

\* A round loaded from a store tops the magazine up by one at most.
LEMMA LoadFromTops ==
  ASSUME NEW stores, Len(stores) \in Nat, DOMAIN stores = 1..Len(stores),
         NEW a \in Assets, Orderly(a),
         NEW s \in DOMAIN a.ships,
         NEW slot \in Slots, Worn(a.stacks, s, Charge(slot)) + 1 <= MagazineSize
  PROVE  LET b == LoadFrom(stores, a, s, slot)
         IN  /\ Topped(a, b, s, slot, 1)
             /\ SourceIn(a, stores, Ammo) # 0 =>
                  Worn(b.stacks, s, Charge(slot)) = Worn(a.stacks, s, Charge(slot)) + 1
<1> DEFINE i == SourceIn(a, stores, Ammo)
<1>1. CASE i = 0
  <2>1. LoadFrom(stores, a, s, slot) = a
    BY <1>1 DEF LoadFrom
  <2> QED BY <1>1, <2>1, NothingIsTopped
<1>2. CASE i # 0
  <2>1. PICK k \in DOMAIN stores : i \in PlainStacks(a, stores[k], Ammo) /\ i \in DOMAIN a.stacks
    BY <1>2, SourceType
  <2>2. a.stacks[i].item = Ammo /\ a.stacks[i].state = Plain
    BY <2>1 DEF PlainStacks
  <2>3. LoadFrom(stores, a, s, slot) = Move(a, i, FittingStore(s), 1, Charge(slot))
    BY <1>2 DEF LoadFrom
  <2> HIDE DEF i
  <2> QED BY <2>1, <2>2, <2>3, ChargeMoves
<1> QED BY <1>1, <1>2

\* So does a round of a resupply, owned or bought.
LEMMA LoadRoundTops ==
  ASSUME NEW a \in Assets, Orderly(a), NEW s \in DOMAIN a.ships, NEW slot \in Slots,
         Worn(a.stacks, s, Charge(slot)) + 1 <= MagazineSize
  PROVE  Topped(a, LoadRound(a, s, slot), s, slot, 1)
<1>1. s \in Ships /\ FittingStore(s) \in Places /\ Charge(slot) \in States /\ 1 \in Nat \ {0} /\ Ammo \in Items
  BY AssetsType, FleetType, PlaceKinds, StateCases, VolumeType
<1>2. CASE OwnedRounds(a) = {}
  <2> PICK no \in BOOLEAN : no = FALSE
    OBVIOUS
  <2> DEFINE b == Add(a, FittingStore(s), Ammo, 1, Charge(slot), no)
             u == [item |-> Ammo, qty |-> 1, inv |-> FittingStore(s), state |-> Charge(slot), marked |-> no]
  <2>1. LoadRound(a, s, slot) = b
    BY <1>2 DEF LoadRound
  <2>2. u.item = Ammo /\ u.qty = 1 /\ u.inv = FittingStore(s) /\ u.state = Charge(slot)
    OBVIOUS
  <2>3. Admits(a.stacks, Homes(a), u)
    <3> HIDE DEF u
    <3> QED BY <2>2, ChargeIsAdmitted
  <2>4. Orderly(b) /\ Restacked(a, b)
    BY <1>1, <2>3, AddIsOrderly, AddType
  <2>5. ASSUME NEW x, NEW st
        PROVE  /\ Worn(a.stacks, x, st) \in Nat /\ Worn(b.stacks, x, st) \in Nat
               /\ Worn(b.stacks, x, st) = Worn(a.stacks, x, st) + Count(FittingStore(s), Charge(slot), st, x, 1)
    BY <1>1, AddWears
  <2> HIDE DEF b
  <2> QED BY <1>1, <2>1, <2>4, <2>5, OneMore
<1>3. CASE OwnedRounds(a) # {}
  <2> DEFINE i == Min(OwnedRounds(a))
  <2>1. i \in OwnedRounds(a) /\ i \in DOMAIN a.stacks
    <3>1. OwnedRounds(a) \subseteq DOMAIN a.stacks
      BY DEF OwnedRounds
    <3> QED BY <1>3, <3>1, AssetsType, LeastPlace
  <2>2. a.stacks[i].item = Ammo /\ a.stacks[i].state = Plain
    BY <2>1 DEF OwnedRounds
  <2>3. LoadRound(a, s, slot) = Move(a, i, FittingStore(s), 1, Charge(slot))
    BY <1>3 DEF LoadRound
  <2> HIDE DEF i
  <2> QED BY <2>1, <2>2, <2>3, ChargeMoves
<1> QED BY <1>2, <1>3

\* So many rounds top it up by no more than that.
LEMMA LoadRoundsTop ==
  ASSUME NEW stores, Len(stores) \in Nat, DOMAIN stores = 1..Len(stores),
         NEW a \in Assets, Orderly(a),
         NEW s \in DOMAIN a.ships, NEW slot \in Slots, NEW n \in Nat,
         Worn(a.stacks, s, Charge(slot)) + n <= MagazineSize
  PROVE  LET b == LoadRounds(stores, a, s, slot, n)
         IN  /\ Topped(a, b, s, slot, n)
             /\ n > 0 /\ SourceIn(a, stores, Ammo) # 0 => Worn(b.stacks, s, Charge(slot)) > 0
<1> DEFINE W(b) == Worn(b.stacks, s, Charge(slot))
           found == SourceIn(a, stores, Ammo) # 0
<1>1. PICK g : /\ LoadRounds(stores, a, s, slot, n) = g[n] /\ g[0] = a
               /\ \A i \in 1..n : g[i] = LoadFrom(stores, g[i - 1], s, slot)
  BY LoadRoundsUnfolds
<1> DEFINE G == [k \in 0..n |-> {b \in Assets : Topped(a, b, s, slot, k) /\ (k > 0 /\ found => W(b) > 0)
                                               /\ (k = 0 => b = a)}]
<1>2. g[0] \in G[0]
  BY <1>1, NothingIsTopped
<1>3. s \in Ships
  BY AssetsType, FleetType
<1>4. ASSUME NEW k \in 1..n, g[k - 1] \in G[k - 1] PROVE g[k] \in G[k]
  <2> DEFINE b == g[k - 1]
             c == g[k]
             m == k - 1
  <2>1. m \in 0..n /\ m \in Nat /\ k \in 0..n /\ m + 1 = k /\ k > 0 /\ k <= n
    OBVIOUS
  <2>2. b \in Assets /\ Topped(a, b, s, slot, m) /\ (m > 0 /\ found => W(b) > 0) /\ (m = 0 => b = a)
    BY <1>4, <2>1
  <2>3. c = LoadFrom(stores, b, s, slot)
    BY <1>1
  <2>4. Orderly(b) /\ s \in DOMAIN b.ships
    BY <2>2 DEF Topped, Restacked
  <2> HIDE DEF b, c, m, found, G
  <2>5. W(b) \in Nat /\ W(a) \in Nat /\ W(b) <= W(a) + m
    BY <2>2 DEF Topped
  <2>6. W(b) + 1 <= MagazineSize
    <3> DEFINE x == W(a)
               y == W(b)
    <3>1. x \in Nat /\ y \in Nat /\ y <= x + m /\ x + n <= MagazineSize /\ MagazineSize \in Nat
      BY <2>5, VolumeType
    <3> HIDE DEF x, y
    <3>2. y + 1 <= MagazineSize
      BY <2>1, <3>1
    <3> QED BY <3>2 DEF y
  <2>7. /\ Topped(b, c, s, slot, 1)
        /\ SourceIn(b, stores, Ammo) # 0 => W(c) = W(b) + 1
    BY <2>2, <2>3, <2>4, <2>6, LoadFromTops
  <2>8. Topped(a, c, s, slot, k)
    <3>1. Topped(a, c, s, slot, m + 1)
      BY <1>3, <2>1, <2>2, <2>7, ToppedTwice
    <3> QED BY <2>1, <3>1
  <2>9. c \in Assets /\ W(c) \in Nat /\ W(b) <= W(c)
    BY <2>7 DEF Topped, Restacked
  <2>10. ASSUME found PROVE W(c) > 0
    <3>1. CASE m = 0
      <4>1. b = a
        BY <2>2, <3>1
      <4>2. W(c) = W(b) + 1
        BY <2>7, <2>10, <4>1 DEF found
      <4> QED BY <2>5, <4>2
    <3>2. CASE m > 0
      <4>1. W(b) > 0
        BY <2>2, <2>10, <3>2
      <4> QED BY <2>5, <2>9, <4>1
    <3> QED BY <2>1, <3>1, <3>2
  <2>11. k # 0
    BY <2>1
  <2> QED BY <2>1, <2>8, <2>9, <2>10, <2>11 DEF G, c
<1> HIDE DEF G
<1>5. g[n] \in G[n]
  BY <1>2, <1>4, StaysAt
<1>6. n \in 0..n
  OBVIOUS
<1> QED BY <1>1, <1>5, <1>6 DEF G, found

\* A magazine holds what its slot wears, and a slot is empty when it wears
\* nothing.
LEMMA LoadedIsWorn ==
  ASSUME NEW a \in Assets, NEW s, NEW slot
  PROVE  /\ Loaded(a, s, slot) = Worn(a.stacks, s, Charge(slot))
         /\ ChargeAt(a, s, slot) # {} <=> Worn(a.stacks, s, Charge(slot)) > 0
         /\ ModuleAt(a, s, slot) # {} <=> Worn(a.stacks, s, Fitted(slot)) > 0
<1>1. a.stacks \in Seq(Stacks) /\ \A i \in DOMAIN a.stacks : a.stacks[i] \in Stacks
  BY AssetsType
<1>2. ASSUME NEW i \in DOMAIN a.stacks, NEW st
      PROVE  Kind(a.stacks[i]) \in At(FittingStore(s), st) <=>
               a.stacks[i].inv = FittingStore(s) /\ a.stacks[i].state = st
  BY <1>1, KindAt
<1>3. \A i \in DOMAIN a.stacks :
        /\ i \in ChargeAt(a, s, slot) <=> Kind(a.stacks[i]) \in At(FittingStore(s), Charge(slot))
        /\ i \in ModuleAt(a, s, slot) <=> Kind(a.stacks[i]) \in At(FittingStore(s), Fitted(slot))
  BY <1>2 DEF ChargeAt, ModuleAt, StacksIn
<1>4. ChargeAt(a, s, slot) \subseteq DOMAIN a.stacks /\ ModuleAt(a, s, slot) \subseteq DOMAIN a.stacks
  BY DEF ChargeAt, ModuleAt, StacksIn
<1>5. Loaded(a, s, slot) = Worn(a.stacks, s, Charge(slot))
  <2> DEFINE K == At(FittingStore(s), Charge(slot))
             places == ChargeAt(a, s, slot)
  <2>1. \A i \in DOMAIN a.stacks : i \in places <=> Kind(a.stacks[i]) \in K
    BY <1>3
  <2> HIDE DEF K, places
  <2>2. Quantity(a, places) = Weigh(a.stacks, K)
    BY <2>1, QuantityIsWeight
  <2> QED BY <2>2 DEF Loaded, Worn, K, places
<1>6. \A K : Weigh(a.stacks, K) > 0 <=> \E i \in DOMAIN a.stacks : Kind(a.stacks[i]) \in K
  BY <1>1, SomethingWeighs
<1>7. ChargeAt(a, s, slot) # {} <=> Worn(a.stacks, s, Charge(slot)) > 0
  BY <1>3, <1>4, <1>6 DEF Worn
<1>8. ModuleAt(a, s, slot) # {} <=> Worn(a.stacks, s, Fitted(slot)) > 0
  BY <1>3, <1>4, <1>6 DEF Worn
<1> QED BY <1>5, <1>7, <1>8

\* A weapon reloads no more rounds than are missing.
LEMMA ReloadFits ==
  ASSUME FitInv, Reload
  PROVE  Fit(assets', fitting')
<1> DEFINE s == assets.active
           stores == <<Hold(s)>>
           missing(slot) == MagazineSize - Loaded(assets, s, slot)
           spare == Available(assets, stores, Ammo)
<1>1. PICK slot \in Slots :
        /\ assets.out /\ slot \in FittedSlots(assets, s)
        /\ Min({missing(slot), spare}) > 0
        /\ Adopt(LoadRounds(stores, assets, s, slot, Min({missing(slot), spare})))
        /\ UNCHANGED <<market, fitting>>
  BY DEF Reload
<1>2. assets \in Assets /\ s \in DOMAIN assets.ships /\ s \in Ships /\ Orderly(assets) /\ Armed(assets.stacks)
  BY <1>1, FitTypes
<1>3. Len(stores) \in Nat /\ DOMAIN stores = 1..Len(stores)
  OBVIOUS
<1> DEFINE x == Worn(assets.stacks, s, Charge(slot))
           n == Min({missing(slot), spare})
<1>4. x \in Nat /\ missing(slot) = MagazineSize - x /\ MagazineSize \in Nat
  BY <1>2, LoadedIsWorn, WornType, VolumeType
<1>5. spare \in Nat
  BY <1>2, QuantityType DEF Available
<1> HIDE DEF spare, x
<1>6. n \in Nat /\ x + n <= MagazineSize
  <2> DEFINE m == missing(slot)
  <2>1. m \in Int /\ m = MagazineSize - x
    BY <1>4
  <2>2. Min({m, spare}) = IF m <= spare THEN m ELSE spare
    BY <1>5, <2>1, MinOfTwo
  <2>3. Min({m, spare}) > 0
    BY <1>1
  <2> HIDE DEF m
  <2>4. Min({m, spare}) \in Nat /\ x + Min({m, spare}) <= MagazineSize
    BY <1>4, <1>5, <2>1, <2>2, <2>3
  <2> QED BY <2>4 DEF m
<1> HIDE DEF n, missing, stores, s
<1> DEFINE b == LoadRounds(stores, assets, s, slot, n)
<1>7. Topped(assets, b, s, slot, n)
  BY <1>2, <1>3, <1>6, LoadRoundsTop DEF x
<1>8. assets' = b /\ fitting' = fitting
  BY <1>1 DEF Adopt, n
<1> HIDE DEF b
<1>9. Armed(b.stacks)
  <2> SUFFICES ASSUME NEW y \in Ships, NEW other \in Slots, Worn(b.stacks, y, Charge(other)) > 0
               PROVE  Worn(b.stacks, y, Fitted(other)) > 0
    BY DEF Armed
  <2>1. Worn(b.stacks, y, Fitted(other)) = Worn(assets.stacks, y, Fitted(other))
    BY <1>7 DEF Topped
  <2>2. CASE y = s /\ other = slot
    <3>1. ModuleAt(assets, s, slot) # {}
      BY <1>1 DEF FittedSlots
    <3> QED BY <1>2, <2>1, <2>2, <3>1, LoadedIsWorn
  <2>3. CASE ~(y = s /\ other = slot)
    <3>1. Worn(b.stacks, y, Charge(other)) = Worn(assets.stacks, y, Charge(other))
      BY <1>7, <2>3 DEF Topped
    <3> QED BY <1>2, <2>1, <3>1 DEF Armed
  <2> QED BY <2>2, <2>3
<1>10. Orderly(b)
  BY <1>7 DEF Topped
<1> QED BY <1>8, <1>9, <1>10, FitTypes DEF Fit

\* What is used up or sold is no module.
LEMMA ConsumeIsArmed ==
  ASSUME NEW a \in Assets, Armed(a.stacks), NEW i \in DOMAIN a.stacks, NEW q \in Nat \ {0},
         q <= a.stacks[i].qty, a.stacks[i].state[1] # "fitted"
  PROVE  Armed(Consume(a, i, q).stacks)
<1> DEFINE b == Consume(a, i, q)
<1> SUFFICES ASSUME NEW x \in Ships, NEW slot \in Slots, Worn(b.stacks, x, Charge(slot)) > 0
             PROVE  Worn(b.stacks, x, Fitted(slot)) > 0
  BY DEF Armed
<1> DEFINE c == Worn(a.stacks, x, Charge(slot))
           d == Worn(b.stacks, x, Charge(slot))
           e == Worn(a.stacks, x, Fitted(slot))
           f == Worn(b.stacks, x, Fitted(slot))
           m == Count(a.stacks[i].inv, a.stacks[i].state, Charge(slot), x, q)
           n == Count(a.stacks[i].inv, a.stacks[i].state, Fitted(slot), x, q)
<1>1. c \in Nat /\ d \in Nat /\ e \in Nat /\ f \in Nat /\ d + m = c /\ f + n = e
  <2>1. c \in Nat /\ d \in Nat /\ d + m = c
    BY ConsumeWears
  <2>2. e \in Nat /\ f \in Nat /\ f + n = e
    BY ConsumeWears
  <2> QED BY <2>1, <2>2
<1>2. n = 0 /\ m \in Nat
  <2>1. a.stacks[i].state # Fitted(slot)
    BY StateCases
  <2> QED BY <2>1 DEF Count
<1>3. c > 0 => e > 0
  BY DEF Armed
<1>4. d > 0
  OBVIOUS
<1> HIDE DEF b, c, d, e, f, m, n
<1>5. f > 0
  BY <1>1, <1>2, <1>3, <1>4
<1> QED BY <1>5 DEF f, b

\* A weapon fires a round of its charge.
LEMMA FireFits ==
  ASSUME FitInv, Fire
  PROVE  Fit(assets', fitting')
<1> DEFINE charges(slot) == ChargeAt(assets, assets.active, slot)
<1>1. PICK slot \in Slots :
        /\ charges(slot) # {}
        /\ Adopt(Consume(assets, Min(charges(slot)), 1))
        /\ UNCHANGED <<market, fitting>>
  BY DEF Fire
<1> DEFINE i == Min(charges(slot))
<1>2. i \in charges(slot) /\ i \in DOMAIN assets.stacks
  <2>1. charges(slot) \subseteq DOMAIN assets.stacks /\ assets.stacks \in Seq(Stacks)
    BY FitTypes, AssetsType DEF ChargeAt, StacksIn
  <2> QED BY <1>1, <2>1, LeastPlace
<1>3. assets.stacks[i].state[1] # "fitted"
  BY <1>2, StateCases DEF ChargeAt
<1> HIDE DEF i, charges
<1>4. 1 \in Nat \ {0} /\ 1 <= assets.stacks[i].qty
  BY <1>2, FitTypes, StackType
<1> DEFINE b == Consume(assets, i, 1)
<1>5. Orderly(b) /\ Armed(b.stacks)
  BY <1>2, <1>3, <1>4, FitTypes, ConsumeIsOrderly, ConsumeIsArmed
<1>6. assets' = b /\ fitting' = fitting
  BY <1>1 DEF Adopt, i
<1> HIDE DEF b
<1> QED BY <1>5, <1>6, FitTypes DEF Fit

-----------------------------------------------------------------------------
(* A resupply. *)

\* A resupply fills a magazine with no more rounds than it was short of.
LEMMA FillTops ==
  ASSUME NEW a \in Assets, Orderly(a), NEW s \in DOMAIN a.ships, NEW slot \in Slots, NEW n \in Nat,
         Worn(a.stacks, s, Charge(slot)) + n <= MagazineSize
  PROVE  Topped(a, Fill(a, s, slot, n), s, slot, n)
<1> DEFINE W(b) == Worn(b.stacks, s, Charge(slot))
<1>1. PICK g : /\ Fill(a, s, slot, n) = g[n] /\ g[0] = a
               /\ \A i \in 1..n : g[i] = LoadRound(g[i - 1], s, slot)
  BY FillUnfolds
<1> DEFINE G == [k \in 0..n |-> {b \in Assets : Topped(a, b, s, slot, k)}]
<1>2. g[0] \in G[0]
  BY <1>1, NothingIsTopped
<1>3. s \in Ships
  BY AssetsType, FleetType
<1>4. ASSUME NEW k \in 1..n, g[k - 1] \in G[k - 1] PROVE g[k] \in G[k]
  <2> DEFINE b == g[k - 1]
             c == g[k]
             m == k - 1
  <2>1. m \in 0..n /\ m \in Nat /\ k \in 0..n /\ m + 1 = k /\ k <= n
    OBVIOUS
  <2>2. b \in Assets /\ Topped(a, b, s, slot, m)
    BY <1>4, <2>1
  <2>3. c = LoadRound(b, s, slot)
    BY <1>1
  <2>4. Orderly(b) /\ s \in DOMAIN b.ships
    BY <2>2 DEF Topped, Restacked
  <2> HIDE DEF b, c, m, G
  <2>5. W(b) + 1 <= MagazineSize
    <3> DEFINE x == W(a)
               y == W(b)
    <3>1. x \in Nat /\ y \in Nat /\ y <= x + m /\ x + n <= MagazineSize /\ MagazineSize \in Nat
      BY <2>2, VolumeType DEF Topped
    <3> HIDE DEF x, y
    <3>2. y + 1 <= MagazineSize
      BY <2>1, <3>1
    <3> QED BY <3>2 DEF y
  <2>6. Topped(b, c, s, slot, 1)
    BY <2>2, <2>3, <2>4, <2>5, LoadRoundTops
  <2>7. Topped(a, c, s, slot, k)
    <3>1. Topped(a, c, s, slot, m + 1)
      BY <1>3, <2>1, <2>2, <2>6, ToppedTwice
    <3> QED BY <2>1, <3>1
  <2>8. c \in Assets
    BY <2>6 DEF Topped, Restacked
  <2> QED BY <2>1, <2>7, <2>8 DEF G, c
<1> HIDE DEF G
<1>5. g[n] \in G[n]
  BY <1>2, <1>4, StaysAt
<1>6. n \in 0..n
  OBVIOUS
<1> QED BY <1>1, <1>5, <1>6 DEF G

\* The first k magazines have been filled, where there was something in them.
Supplied(a, b, s, k) ==
  /\ Restacked(a, b) /\ Orderly(b)
  /\ \A x \in Ships, other \in Slots :
       /\ Worn(b.stacks, x, Fitted(other)) = Worn(a.stacks, x, Fitted(other))
       /\ (x # s \/ other > k) => Worn(b.stacks, x, Charge(other)) = Worn(a.stacks, x, Charge(other))
       /\ Worn(b.stacks, x, Charge(other)) > 0 => Worn(a.stacks, x, Charge(other)) > 0

\* The missing rounds have room, and are missing only where there are some.
LEMMA MissingFits ==
  ASSUME NEW a \in Assets, Orderly(a), NEW s \in Ships, NEW slot \in Slots
  PROVE  /\ Missing(a, s, slot) \in Nat
         /\ Worn(a.stacks, s, Charge(slot)) + Missing(a, s, slot) <= MagazineSize
         /\ Missing(a, s, slot) > 0 => Worn(a.stacks, s, Charge(slot)) > 0
<1> DEFINE x == Worn(a.stacks, s, Charge(slot))
<1>1. x \in Nat /\ x <= MagazineSize /\ MagazineSize \in Nat /\ Loaded(a, s, slot) = x
  BY WornType, VolumeType, LoadedIsWorn DEF Orderly, Stowed, Sized
<1>2. Missing(a, s, slot) = IF x = 0 THEN 0 ELSE Max({0, MagazineSize - x})
  BY <1>1 DEF Missing
<1> HIDE DEF x
<1>3. Max({0, MagazineSize - x}) = IF 0 <= MagazineSize - x THEN MagazineSize - x ELSE 0
  BY <1>1, MaxOfTwo
<1>4. /\ Missing(a, s, slot) \in Nat
      /\ x + Missing(a, s, slot) <= MagazineSize
      /\ Missing(a, s, slot) > 0 => x > 0
  BY <1>1, <1>2, <1>3
<1> QED BY <1>4 DEF x

\* One slot of a resupply after the other.
LEMMA FillSupplies ==
  ASSUME NEW a \in Assets, Orderly(a), NEW s \in DOMAIN a.ships, NEW k \in Slots, NEW b,
         Supplied(a, b, s, k - 1)
  PROVE  Supplied(a, Fill(b, s, k, Missing(a, s, k)), s, k)
<1> DEFINE n == Missing(a, s, k)
           c == Fill(b, s, k, n)
<1>1. s \in Ships /\ Slots \subseteq Nat /\ k > k - 1
  <2>1. s \in Ships
    BY AssetsType, FleetType
  <2>2. Slots \subseteq Nat
    BY SlotsAreCounted
  <2>3. k \in Nat
    BY <2>2
  <2> QED BY <2>1, <2>2, <2>3
<1>2. /\ n \in Nat /\ Worn(a.stacks, s, Charge(k)) + n <= MagazineSize
      /\ n > 0 => Worn(a.stacks, s, Charge(k)) > 0
  BY <1>1, MissingFits
<1>3. Worn(b.stacks, s, Charge(k)) = Worn(a.stacks, s, Charge(k))
  BY <1>1 DEF Supplied
<1>4. b \in Assets /\ Restacked(a, b) /\ Orderly(b) /\ s \in DOMAIN b.ships
  BY DEF Supplied, Restacked
<1> HIDE DEF n
<1>5. Topped(b, c, s, k, n)
  BY <1>2, <1>3, <1>4, FillTops
<1> HIDE DEF c
<1>6. Restacked(a, c) /\ Orderly(c)
  BY <1>4, <1>5, RestackedTwice DEF Topped
<1>7. ASSUME NEW x \in Ships, NEW other \in Slots, x # s \/ other # k
      PROVE  /\ Worn(c.stacks, x, Charge(other)) = Worn(b.stacks, x, Charge(other))
  BY <1>5, <1>7 DEF Topped
<1>8. ASSUME NEW x \in Ships, NEW other \in Slots
      PROVE  Worn(c.stacks, x, Fitted(other)) = Worn(a.stacks, x, Fitted(other))
  BY <1>5 DEF Topped, Supplied
<1>9. ASSUME NEW x \in Ships, NEW other \in Slots, x # s \/ other > k
      PROVE  Worn(c.stacks, x, Charge(other)) = Worn(a.stacks, x, Charge(other))
  <2>1. other \in Nat /\ k \in Nat
    BY <1>1
  <2>2. x # s \/ other > k - 1
    BY <1>9, <2>1
  <2>3. x # s \/ other # k
    BY <1>9, <2>1
  <2> QED BY <1>7, <2>2, <2>3 DEF Supplied
<1>10. ASSUME NEW x \in Ships, NEW other \in Slots, Worn(c.stacks, x, Charge(other)) > 0
       PROVE  Worn(a.stacks, x, Charge(other)) > 0
  <2>1. CASE x = s /\ other = k
    <3> DEFINE u == Worn(b.stacks, s, Charge(k))
               v == Worn(c.stacks, s, Charge(k))
    <3>1. u \in Nat /\ v \in Nat /\ v <= u + n /\ v > 0
      BY <1>5, <1>10, <2>1 DEF Topped
    <3>2. n > 0 => u > 0
      BY <1>2, <1>3
    <3> HIDE DEF u, v
    <3>3. u > 0
      BY <1>2, <3>1, <3>2
    <3> QED BY <1>3, <2>1, <3>3 DEF u
  <2>2. CASE ~(x = s /\ other = k)
    BY <1>7, <1>10, <2>2 DEF Supplied
  <2> QED BY <2>1, <2>2
<1>11. Supplied(a, c, s, k)
  BY <1>6, <1>8, <1>9, <1>10 DEF Supplied
<1> QED BY <1>11 DEF c, n

\* A resupply leaves the goods in order and every charge with its weapon.
LEMMA ResupplyIsOrderly ==
  ASSUME NEW a \in Assets, Orderly(a), Armed(a.stacks), NEW s \in DOMAIN a.ships
  PROVE  Orderly(ApplyResupply(a, s)) /\ Armed(ApplyResupply(a, s).stacks) /\ Restacked(a, ApplyResupply(a, s))
<1> DEFINE n == Cardinality(Slots)
<1>1. n \in Nat /\ Slots = 1..n
  BY SlotsAreCounted
<1>2. PICK g : /\ ApplyResupply(a, s) = g[n] /\ g[0] = a
               /\ \A i \in 1..n : g[i] = Fill(g[i - 1], s, i, Missing(a, s, i))
  BY ResupplyUnfolds
<1> HIDE DEF n
<1> DEFINE G == [k \in 0..n |-> {b \in Assets : Supplied(a, b, s, k)}]
<1>3. g[0] \in G[0]
  <2>1. Supplied(a, a, s, 0)
    BY DEF Supplied, Restacked
  <2> QED BY <1>1, <1>2, <2>1
<1>4. ASSUME NEW k \in 1..n, g[k - 1] \in G[k - 1] PROVE g[k] \in G[k]
  <2>1. k - 1 \in 0..n /\ k \in 0..n /\ k \in Slots
    BY <1>1
  <2>2. Supplied(a, g[k - 1], s, k - 1)
    BY <1>4, <2>1
  <2>3. Supplied(a, g[k], s, k)
    <3> HIDE DEF G
    <3> QED BY <1>2, <2>1, <2>2, FillSupplies
  <2>4. g[k] \in Assets
    BY <2>3 DEF Supplied, Restacked
  <2> QED BY <2>1, <2>3, <2>4
<1> HIDE DEF G
<1>5. g[n] \in G[n]
  BY <1>1, <1>3, <1>4, StaysAt
<1>6. n \in 0..n
  BY <1>1
<1>7. Supplied(a, g[n], s, n)
  BY <1>5, <1>6 DEF G
<1> HIDE DEF G
<1>8. Armed(g[n].stacks)
  BY <1>7 DEF Supplied, Armed
<1>9. Orderly(g[n]) /\ Restacked(a, g[n])
  BY <1>7 DEF Supplied
<1> QED BY <1>2, <1>8, <1>9

-----------------------------------------------------------------------------
(* A draft. *)

\* The slots that wear a module, or a charge, the plan does not want there.
WantsCharge(d, slot) == d.slots[slot].weapon /\ d.slots[slot].loaded
OffModules(a, d) == {slot \in Slots : ~d.slots[slot].weapon /\ Worn(a.stacks, d.ship, Fitted(slot)) > 0}
OffCharges(a, d) == {slot \in Slots : ~WantsCharge(d, slot) /\ Worn(a.stacks, d.ship, Charge(slot)) > 0}

\* The states of a slot tell the slot.
LEMMA SlotOfState ==
  \A slot : /\ Fitted(slot)[2] = slot /\ Charge(slot)[2] = slot
            /\ Fitted(slot)[1] = "fitted" /\ Charge(slot)[1] # "fitted"
            /\ \A other : /\ (Fitted(slot) = Fitted(other) <=> slot = other)
                          /\ (Charge(slot) = Charge(other) <=> slot = other)
                          /\ Fitted(slot) # Charge(other)
<1>1. \A slot : Fitted(slot)[2] = slot /\ Charge(slot)[2] = slot
  BY DEF Fitted, Charge
<1> QED BY <1>1, StateCases

\* What comes off is a module or a charge the plan does not want.
LEMMA UnwantedIsOff ==
  ASSUME NEW a \in Assets, Orderly(a), NEW d, NEW i \in Unwanted(a, d)
  PROVE  /\ i \in DOMAIN a.stacks /\ a.stacks[i].inv = FittingStore(d.ship)
         /\ \/ \E slot \in OffModules(a, d) : a.stacks[i].state = Fitted(slot)
            \/ \E slot \in OffCharges(a, d) : a.stacks[i].state = Charge(slot)
<1> DEFINE t == a.stacks[i]
<1>1. i \in DOMAIN a.stacks /\ t.inv = FittingStore(d.ship) /\ t \in Stacks
  BY AssetsType DEF Unwanted, StacksIn
<1>2. t.state # Plain /\ t.state \in States
  BY <1>1, StackType, PlaceKinds DEF Orderly, Stowed, Tidy, Sorted, Belongs
<1>3. ASSUME NEW slot \in Slots, t.state = Fitted(slot)
      PROVE  slot \in OffModules(a, d)
  <2>1. ~d.slots[slot].weapon
    BY <1>3, SlotOfState DEF Unwanted
  <2>2. ModuleAt(a, d.ship, slot) # {}
    BY <1>1, <1>3 DEF ModuleAt, StacksIn
  <2> QED BY <2>1, <2>2, LoadedIsWorn DEF OffModules
<1>4. ASSUME NEW slot \in Slots, t.state = Charge(slot)
      PROVE  slot \in OffCharges(a, d)
  <2>1. ~WantsCharge(d, slot)
    BY <1>4, SlotOfState DEF Unwanted, WantsCharge
  <2>2. ChargeAt(a, d.ship, slot) # {}
    BY <1>1, <1>4 DEF ChargeAt, StacksIn
  <2> QED BY <2>1, <2>2, LoadedIsWorn DEF OffCharges
<1>5. (\E slot \in Slots : t.state = Fitted(slot)) \/ (\E slot \in Slots : t.state = Charge(slot))
  BY <1>2, StateCases
<1> QED BY <1>1, <1>3, <1>4, <1>5

\* When there is nothing to take off, no slot wears what the plan does not want.
LEMMA NothingUnwanted ==
  ASSUME NEW a \in Assets, NEW d, Unwanted(a, d) = {}
  PROVE  OffModules(a, d) = {} /\ OffCharges(a, d) = {}
<1>1. ASSUME NEW slot \in OffModules(a, d) PROVE FALSE
  <2>1. slot \in Slots /\ ~d.slots[slot].weapon /\ ModuleAt(a, d.ship, slot) # {}
    BY <1>1, LoadedIsWorn DEF OffModules
  <2>2. PICK i \in StacksIn(a, FittingStore(d.ship)) : a.stacks[i].state = Fitted(slot)
    BY <2>1 DEF ModuleAt
  <2>3. i \in Unwanted(a, d)
    BY <2>1, <2>2, SlotOfState, ZenonT(60) DEF Unwanted
  <2> QED BY <2>3
<1>2. ASSUME NEW slot \in OffCharges(a, d) PROVE FALSE
  <2>1. slot \in Slots /\ ~WantsCharge(d, slot) /\ ChargeAt(a, d.ship, slot) # {}
    BY <1>2, LoadedIsWorn DEF OffCharges
  <2>2. PICK i \in StacksIn(a, FittingStore(d.ship)) : a.stacks[i].state = Charge(slot)
    BY <2>1 DEF ChargeAt
  <2>3. i \in Unwanted(a, d)
    BY <2>1, <2>2, SlotOfState DEF Unwanted, WantsCharge
  <2> QED BY <2>3
<1> QED BY <1>1, <1>2

\* One state of one ship has been taken off, and nothing else.
Cleared(a, b, s, state) ==
  /\ Restacked(a, b) /\ Orderly(b)
  /\ \A x \in Ships : \A st : Worn(b.stacks, x, st) = IF x = s /\ st = state THEN 0 ELSE Worn(a.stacks, x, st)

\* A stack that is taken off whole clears its slot.
LEMMA MoveClears ==
  ASSUME NEW a \in Assets, Orderly(a), NEW i \in DOMAIN a.stacks, NEW s \in Ships,
         a.stacks[i].inv = FittingStore(s)
  PROVE  Cleared(a, Move(a, i, Hangar, a.stacks[i].qty, Plain), s, a.stacks[i].state)
<1> DEFINE t == a.stacks[i]
           q == t.qty
           b == Move(a, i, Hangar, q, Plain)
           u == Elsewhere(t, q, Hangar, Plain)
<1>1. /\ t \in Stacks /\ q \in Nat \ {0} /\ q <= q /\ Hangar \in Places /\ Plain \in States
      /\ a.stacks \in Seq(Stacks)
  <2>1. t \in Stacks /\ a.stacks \in Seq(Stacks)
    BY AssetsType
  <2>2. q \in Nat \ {0}
    BY <2>1, StackType
  <2> HIDE DEF t, q
  <2>3. q <= q
    BY <2>2
  <2> QED BY <2>1, <2>2, <2>3, PlaceKinds, StateCases
<1>2. t.state # Plain /\ Hangar[1] # "fitting" /\ Hangar[1] # "cargo" /\ Plain[1] # "fitted" /\ Plain[1] # "charge"
  BY PlaceKinds, StateCases DEF Orderly, Stowed, Tidy, Sorted, Belongs
<1>3. u.inv = Hangar /\ u.state = Plain
  BY DEF Elsewhere
<1>4. Admits(a.stacks, Homes(a), u)
  <2> HIDE DEF u
  <2> QED BY <1>2, <1>3 DEF Admits, Welcome, Room, Belongs, Homes
<1>5. Orderly(b) /\ Restacked(a, b)
  BY <1>1, <1>4, MoveIsOrderly, MoveType
<1>6. ASSUME NEW x \in Ships, NEW st
      PROVE  Worn(b.stacks, x, st) = IF x = s /\ st = t.state THEN 0 ELSE Worn(a.stacks, x, st)
  <2>1. /\ Worn(b.stacks, x, st) \in Nat /\ Worn(a.stacks, x, st) \in Nat
        /\ Worn(b.stacks, x, st) + Count(t.inv, t.state, st, x, q) =
             Worn(a.stacks, x, st) + Count(Hangar, Plain, st, x, q)
    BY <1>1, MoveWears
  <2>2. Count(Hangar, Plain, st, x, q) = 0
    BY <1>2, CountsTell DEF Fitting
  <2>3. CASE x = s /\ st = t.state
    <3>1. Worn(a.stacks, x, st) = q
      <4> DEFINE K == At(FittingStore(s), t.state)
      <4>1. \A j \in DOMAIN a.stacks : Kind(a.stacks[j]) \in K <=> a.stacks[j].inv = t.inv /\ a.stacks[j].state = t.state
        BY <1>1, KindAt
      <4>2. Kind(t) \in K
        BY <4>1
      <4>3. \A j \in DOMAIN a.stacks : Kind(a.stacks[j]) \in K => j = i
        BY <1>2, <4>1 DEF Orderly, Stowed, Tidy, Apart
      <4> HIDE DEF K
      <4>4. Weigh(a.stacks, K) = q
        BY <1>1, <4>2, <4>3, OnlyOneWeighs
      <4> QED BY <2>3, <4>4 DEF Worn, K
    <3>2. Count(t.inv, t.state, st, x, q) = q
      BY <2>3 DEF Count
    <3> HIDE DEF b, q, t
    <3>3. Worn(b.stacks, x, st) = 0
      BY <1>1, <2>1, <2>2, <3>1, <3>2
    <3> QED BY <2>3, <3>3
  <2>4. CASE ~(x = s /\ st = t.state)
    <3>1. Count(t.inv, t.state, st, x, q) = 0
      BY <2>4, PlaceKinds DEF Count
    <3> HIDE DEF b, q, t
    <3>2. Worn(b.stacks, x, st) = Worn(a.stacks, x, st)
      BY <2>1, <2>2, <3>1
    <3> QED BY <2>4, <3>2
  <2> QED BY <2>3, <2>4
<1> HIDE DEF b
<1> QED BY <1>5, <1>6 DEF Cleared, b

\* How many states are still to come off.
Left(a, d) == Cardinality(OffModules(a, d)) + Cardinality(OffCharges(a, d))

\* Sets of slots are finite, and no larger than all of them.
LEMMA SlotSubsets ==
  ASSUME NEW S, S \subseteq Slots
  PROVE  /\ IsFiniteSet(S) /\ Cardinality(S) \in Nat /\ Cardinality(S) <= Cardinality(Slots)
         /\ \A x \in S : Cardinality(S \ {x}) = Cardinality(S) - 1
         /\ Cardinality(S) = 0 => S = {}
<1>1. IsFiniteSet(Slots)
  BY InventoryAssumption
<1>2. IsFiniteSet(S) /\ Cardinality(S) <= Cardinality(Slots)
  BY <1>1, FS_Subset
<1> QED BY <1>2, FS_CardinalityType, FS_RemoveElement, FS_EmptySet

\* How many slots are left to clear is a number, of no more than two for each.
LEMMA LeftType ==
  ASSUME NEW a, NEW d
  PROVE  /\ Left(a, d) \in Nat /\ Left(a, d) <= 2 * Cardinality(Slots)
         /\ Left(a, d) = 0 => OffModules(a, d) = {} /\ OffCharges(a, d) = {}
<1> DEFINE S == OffModules(a, d)
           T == OffCharges(a, d)
<1>1. S \subseteq Slots /\ T \subseteq Slots
  BY DEF OffModules, OffCharges
<1> HIDE DEF S, T
<1>2. /\ Cardinality(S) \in Nat /\ Cardinality(S) <= Cardinality(Slots)
      /\ Cardinality(T) \in Nat /\ Cardinality(T) <= Cardinality(Slots)
      /\ (Cardinality(S) = 0 => S = {}) /\ (Cardinality(T) = 0 => T = {})
      /\ Cardinality(Slots) \in Nat
  BY <1>1, SlotSubsets, SlotsAreCounted
<1>3. Left(a, d) = Cardinality(S) + Cardinality(T)
  BY DEF Left, S, T
<1>4. /\ Left(a, d) \in Nat /\ Left(a, d) <= 2 * Cardinality(Slots)
      /\ Left(a, d) = 0 => S = {} /\ T = {}
  BY <1>2, <1>3
<1> QED BY <1>4 DEF S, T

\* A cleared slot leaves one less.
LEMMA ClearedIsLess ==
  ASSUME NEW a, NEW b, NEW d, d.ship \in Ships, NEW state, Cleared(a, b, d.ship, state),
         \/ \E slot \in OffModules(a, d) : state = Fitted(slot)
         \/ \E slot \in OffCharges(a, d) : state = Charge(slot)
  PROVE  Left(b, d) = Left(a, d) - 1
<1> DEFINE S == OffModules(a, d)
           T == OffCharges(a, d)
           U == OffModules(b, d)
           V == OffCharges(b, d)
<1>1. S \subseteq Slots /\ T \subseteq Slots
  BY DEF OffModules, OffCharges
<1>2. \A st : Worn(b.stacks, d.ship, st) = IF st = state THEN 0 ELSE Worn(a.stacks, d.ship, st)
  BY DEF Cleared
<1>3. ~(0 > 0)
  OBVIOUS
<1>4. ASSUME NEW slot \in S, state = Fitted(slot) PROVE U = S \ {slot} /\ V = T
  <2>1. \A other \in Slots : Worn(b.stacks, d.ship, Charge(other)) = Worn(a.stacks, d.ship, Charge(other))
    BY <1>2, <1>4, SlotOfState
  <2>2. \A other \in Slots : Worn(b.stacks, d.ship, Fitted(other)) =
                               IF other = slot THEN 0 ELSE Worn(a.stacks, d.ship, Fitted(other))
    BY <1>2, <1>4, SlotOfState
  <2>3. V = T
    BY <2>1 DEF OffCharges
  <2>4. U = S \ {slot}
    BY <1>3, <2>2 DEF OffModules
  <2> QED BY <2>3, <2>4
<1>5. ASSUME NEW slot \in T, state = Charge(slot) PROVE V = T \ {slot} /\ U = S
  <2>1. \A other \in Slots : Worn(b.stacks, d.ship, Fitted(other)) = Worn(a.stacks, d.ship, Fitted(other))
    BY <1>2, <1>5, SlotOfState
  <2>2. \A other \in Slots : Worn(b.stacks, d.ship, Charge(other)) =
                               IF other = slot THEN 0 ELSE Worn(a.stacks, d.ship, Charge(other))
    BY <1>2, <1>5, SlotOfState
  <2>3. U = S
    BY <2>1 DEF OffModules
  <2>4. V = T \ {slot}
    BY <1>3, <2>2 DEF OffCharges
  <2> QED BY <2>3, <2>4
<1>6. Left(a, d) = Cardinality(S) + Cardinality(T) /\ Left(b, d) = Cardinality(U) + Cardinality(V)
  BY DEF Left
<1>7. \/ \E slot \in S : U = S \ {slot} /\ V = T
      \/ \E slot \in T : V = T \ {slot} /\ U = S
  BY <1>4, <1>5
<1> HIDE DEF S, T, U, V
<1>8. Cardinality(S) \in Nat /\ Cardinality(T) \in Nat
  BY <1>1, SlotSubsets
<1>9. \/ Cardinality(U) = Cardinality(S) - 1 /\ Cardinality(V) = Cardinality(T)
      \/ Cardinality(V) = Cardinality(T) - 1 /\ Cardinality(U) = Cardinality(S)
  BY <1>1, <1>7, SlotSubsets
<1> QED BY <1>6, <1>8, <1>9

\* What the plan wants stays, and so does all that other ships wear.
Stripping(a, b, d) ==
  /\ Restacked(a, b) /\ Orderly(b)
  /\ \A x \in Ships, slot \in Slots :
       /\ (x # d.ship \/ d.slots[slot].weapon) =>
            Worn(b.stacks, x, Fitted(slot)) = Worn(a.stacks, x, Fitted(slot))
       /\ (x # d.ship \/ WantsCharge(d, slot)) =>
            Worn(b.stacks, x, Charge(slot)) = Worn(a.stacks, x, Charge(slot))

\* One step takes off what the plan does not want, and there is one less to go.
LEMMA StripOneStrips ==
  ASSUME NEW a \in Assets, NEW d \in Drafts, NEW b, Stripping(a, b, d)
  PROVE  /\ Stripping(a, StripOne(b, d), d)
         /\ Left(StripOne(b, d), d) = 0 \/ Left(StripOne(b, d), d) = Left(b, d) - 1
<1> DEFINE c == StripOne(b, d)
<1>1. b \in Assets /\ Restacked(a, b) /\ Orderly(b) /\ d.ship \in Ships
  BY DEF Stripping, Restacked, Drafts
<1>2. CASE Unwanted(b, d) = {}
  <2>1. c = b
    BY <1>2 DEF StripOne
  <2>2. Left(b, d) = 0
    <3>1. OffModules(b, d) = {} /\ OffCharges(b, d) = {}
      BY <1>1, <1>2, NothingUnwanted
    <3>2. Cardinality({}) = 0
      BY FS_EmptySet
    <3> QED BY <3>1, <3>2 DEF Left
  <2> QED BY <2>1, <2>2
<1>3. CASE Unwanted(b, d) # {}
  <2> DEFINE i == Min(Unwanted(b, d))
             state == b.stacks[i].state
  <2>1. Unwanted(b, d) \subseteq DOMAIN b.stacks
    BY DEF Unwanted, StacksIn
  <2>2. i \in Unwanted(b, d)
    BY <1>1, <1>3, <2>1, AssetsType, LeastPlace
  <2>3. c = Move(b, i, Hangar, b.stacks[i].qty, Plain)
    BY <1>3 DEF StripOne
  <2> HIDE DEF i, c
  <2>4. /\ i \in DOMAIN b.stacks /\ b.stacks[i].inv = FittingStore(d.ship)
        /\ \/ \E slot \in OffModules(b, d) : state = Fitted(slot)
           \/ \E slot \in OffCharges(b, d) : state = Charge(slot)
    BY <1>1, <2>2, UnwantedIsOff
  <2>5. Cleared(b, c, d.ship, state)
    BY <1>1, <2>3, <2>4, MoveClears
  <2> HIDE DEF state
  <2>6. Left(c, d) = Left(b, d) - 1
    BY <1>1, <2>4, <2>5, ClearedIsLess
  <2>7. Restacked(a, c) /\ Orderly(c)
    BY <1>1, <2>5, RestackedTwice DEF Cleared
  <2>8. ASSUME NEW x \in Ships, NEW slot \in Slots, x # d.ship \/ d.slots[slot].weapon
        PROVE  Worn(c.stacks, x, Fitted(slot)) = Worn(a.stacks, x, Fitted(slot))
    <3>1. x # d.ship \/ Fitted(slot) # state
      BY <2>4, <2>8, SlotOfState DEF OffModules
    <3>2. Worn(c.stacks, x, Fitted(slot)) = Worn(b.stacks, x, Fitted(slot))
      BY <2>5, <3>1 DEF Cleared
    <3> QED BY <2>8, <3>2 DEF Stripping
  <2>9. ASSUME NEW x \in Ships, NEW slot \in Slots, x # d.ship \/ WantsCharge(d, slot)
        PROVE  Worn(c.stacks, x, Charge(slot)) = Worn(a.stacks, x, Charge(slot))
    <3>1. x # d.ship \/ Charge(slot) # state
      BY <2>4, <2>9, SlotOfState DEF OffCharges
    <3>2. Worn(c.stacks, x, Charge(slot)) = Worn(b.stacks, x, Charge(slot))
      BY <2>5, <3>1 DEF Cleared
    <3> QED BY <2>9, <3>2 DEF Stripping
  <2>10. Stripping(a, c, d)
    BY <2>7, <2>8, <2>9 DEF Stripping
  <2> QED BY <2>6, <2>10 DEF c
<1> HIDE DEF c
<1> QED BY <1>2, <1>3 DEF c

\* As many steps as there can be take off all of it.
LEMMA StripStrips ==
  ASSUME NEW a \in Assets, Orderly(a), NEW d \in Drafts
  PROVE  /\ Stripping(a, Strip(a, d), d)
         /\ OffModules(Strip(a, d), d) = {} /\ OffCharges(Strip(a, d), d) = {}
<1> DEFINE n == 2 * Cardinality(Slots)
<1>1. n \in Nat
  BY SlotsAreCounted
<1>2. PICK g : /\ Strip(a, d) = g[n] /\ g[0] = a
               /\ \A i \in 1..n : g[i] = StripOne(g[i - 1], d)
  BY StripUnfolds
<1>3. \A b : Left(b, d) \in Nat /\ Left(b, d) <= n
  BY LeftType
<1> HIDE DEF n
<1> DEFINE G == [k \in 0..n |-> {b \in Assets : Stripping(a, b, d) /\ (Left(b, d) = 0 \/ Left(b, d) + k <= n)}]
<1>4. g[0] \in G[0]
  <2>1. Stripping(a, a, d)
    BY DEF Stripping, Restacked
  <2>2. Left(a, d) + 0 <= n
    BY <1>1, <1>3
  <2> QED BY <1>1, <1>2, <2>1, <2>2
<1>5. ASSUME NEW k \in 1..n, g[k - 1] \in G[k - 1] PROVE g[k] \in G[k]
  <2> DEFINE b == g[k - 1]
             c == g[k]
             m == k - 1
             y == Left(b, d)
             z == Left(c, d)
  <2>1. m \in 0..n /\ m \in Nat /\ k \in 0..n /\ m + 1 = k
    BY <1>1
  <2>2. Stripping(a, b, d) /\ (y = 0 \/ y + m <= n)
    BY <1>5, <2>1
  <2>3. c = StripOne(b, d)
    BY <1>2
  <2> HIDE DEF b, c, G, m
  <2>4. Stripping(a, c, d) /\ (z = 0 \/ z = y - 1)
    BY <2>2, <2>3, StripOneStrips
  <2>5. y \in Nat /\ z \in Nat
    BY <1>3
  <2> HIDE DEF y, z
  <2>6. z = 0 \/ z + k <= n
    BY <1>1, <2>1, <2>2, <2>4, <2>5
  <2>7. c \in Assets
    BY <2>4 DEF Stripping, Restacked
  <2> QED BY <2>1, <2>4, <2>6, <2>7 DEF G, z, c
<1> HIDE DEF G
<1>6. g[n] \in G[n]
  BY <1>1, <1>4, <1>5, StaysAt
<1>7. n \in 0..n
  BY <1>1
<1>8. Stripping(a, g[n], d) /\ (Left(g[n], d) = 0 \/ Left(g[n], d) + n <= n)
  BY <1>6, <1>7 DEF G
<1>9. Left(g[n], d) = 0
  <2> DEFINE z == Left(g[n], d)
  <2>1. z \in Nat /\ (z = 0 \/ z + n <= n)
    BY <1>3, <1>8
  <2> HIDE DEF z
  <2>2. z = 0
    BY <1>1, <2>1
  <2> QED BY <2>2 DEF z
<1> QED BY <1>2, <1>8, <1>9, LeftType

\* A weapon goes into an empty slot.
LEMMA FitModuleFits ==
  ASSUME NEW a \in Assets, Orderly(a), NEW d \in Drafts, d.ship \in DOMAIN a.ships,
         NEW slot \in Slots,
         FitModule(a, d, slot) # NoOne,
         Worn(a.stacks, d.ship, Fitted(slot)) > 0 => d.slots[slot].weapon
  PROVE  LET b == FitModule(a, d, slot)
         IN  /\ Restacked(a, b) /\ Orderly(b)
             /\ \A x \in Ships : \A st : (x # d.ship \/ st # Fitted(slot)) => Worn(b.stacks, x, st) = Worn(a.stacks, x, st)
             /\ Worn(b.stacks, d.ship, Fitted(slot)) > 0 <=> d.slots[slot].weapon
<1> DEFINE i == SourceIn(a, Stores(d), Gun)
           s == d.ship
           b == FitModule(a, d, slot)
<1>1. CASE ~d.slots[slot].weapon \/ ModuleAt(a, s, slot) # {}
  <2>1. b = a
    BY <1>1 DEF FitModule
  <2>2. Restacked(a, a)
    BY DEF Restacked
  <2>3. Worn(a.stacks, s, Fitted(slot)) > 0 <=> d.slots[slot].weapon
    BY <1>1, LoadedIsWorn
  <2> HIDE DEF b
  <2> QED BY <2>1, <2>2, <2>3 DEF b
<1>2. CASE i # 0 /\ d.slots[slot].weapon /\ ModuleAt(a, s, slot) = {}
  <2> DEFINE u == Elsewhere(a.stacks[i], 1, FittingStore(s), Fitted(slot))
  <2>1. PICK k \in DOMAIN Stores(d) : i \in PlainStacks(a, Stores(d)[k], Gun) /\ i \in DOMAIN a.stacks
    BY <1>2, StoresAreTwo, SourceType
  <2>2. a.stacks[i] \in Stacks /\ a.stacks[i].item = Gun /\ a.stacks[i].state = Plain
    BY <2>1, AssetsType DEF PlainStacks
  <2>3. 1 \in Nat \ {0} /\ 1 <= a.stacks[i].qty
    BY <2>2, StackType
  <2>4. s \in Ships /\ FittingStore(s) \in Places /\ Fitted(slot) \in States
    BY PlaceKinds, StateCases DEF Drafts
  <2>5. b = Move(a, i, FittingStore(s), 1, Fitted(slot))
    BY <1>2 DEF FitModule
  <2>6. u.item = Gun /\ u.qty = 1 /\ u.inv = FittingStore(s) /\ u.state = Fitted(slot)
    BY <2>2 DEF Elsewhere
  <2>7. Free(a.stacks, FittingStore(s), Fitted(slot))
    BY <1>2, AssetsType, FreeWeighsNothing, LoadedIsWorn DEF Worn
  <2>8. Admits(a.stacks, Homes(a), u)
    <3>1. /\ Fitted(slot)[1] = "fitted" /\ Fitted(slot) # Plain /\ FittingStore(s)[1] = "fitting"
          /\ FittingStore(s) \in Homes(a)
      BY StateCases, PlaceKinds DEF Homes
    <3> HIDE DEF u
    <3> QED BY <2>6, <2>7, <3>1 DEF Admits, Welcome, Room, Belongs
  <2> HIDE DEF i
  <2>9. Orderly(b) /\ Restacked(a, b)
    BY <2>1, <2>3, <2>4, <2>5, <2>8, MoveIsOrderly, MoveType
  <2>10. ~Fitting(a.stacks[i].inv)
    BY <2>1, <2>2 DEF Orderly, Stowed, Tidy, Sorted, Belongs, Fitting
  <2>11. ASSUME NEW x, NEW st
         PROVE  /\ Worn(a.stacks, x, st) \in Nat
                /\ Worn(b.stacks, x, st) = Worn(a.stacks, x, st) + Count(FittingStore(s), Fitted(slot), st, x, 1)
    <3>1. /\ Worn(b.stacks, x, st) \in Nat /\ Worn(a.stacks, x, st) \in Nat
          /\ Worn(b.stacks, x, st) + Count(a.stacks[i].inv, a.stacks[i].state, st, x, 1) =
               Worn(a.stacks, x, st) + Count(FittingStore(s), Fitted(slot), st, x, 1)
      BY <2>1, <2>3, <2>4, <2>5, MoveWears
    <3>2. Count(a.stacks[i].inv, a.stacks[i].state, st, x, 1) = 0
      BY <2>10, CountsTell
    <3> HIDE DEF b
    <3> QED BY <3>1, <3>2
  <2> HIDE DEF b, s, u
  <2>12. ASSUME NEW x, NEW st, x # s \/ st # Fitted(slot)
         PROVE  Worn(b.stacks, x, st) = Worn(a.stacks, x, st)
    <3>1. Count(FittingStore(s), Fitted(slot), st, x, 1) = 0
      BY <2>12, PlaceKinds DEF Count
    <3> QED BY <2>11, <3>1
  <2>13. Worn(b.stacks, s, Fitted(slot)) > 0
    <3>1. Count(FittingStore(s), Fitted(slot), Fitted(slot), s, 1) = 1
      BY DEF Count
    <3> QED BY <2>11, <3>1
  <2> QED BY <1>2, <2>9, <2>12, <2>13 DEF b, s
<1>3. ~d.slots[slot].weapon \/ ModuleAt(a, s, slot) # {} \/ i # 0
  BY DEF FitModule
<1> HIDE DEF i, s
<1> QED BY <1>1, <1>2, <1>3 DEF s

\* Where there is something to draw there is a stack to draw it from.
LEMMA AvailableIsFound ==
  ASSUME NEW a \in Assets, NEW stores, Len(stores) \in Nat, DOMAIN stores = 1..Len(stores),
         NEW item,
         Available(a, stores, item) > 0
  PROVE  SourceIn(a, stores, item) # 0
<1> DEFINE Have == {k \in DOMAIN stores : PlainStacks(a, stores[k], item) # {}}
           first == CHOOSE k \in DOMAIN stores :
                      /\ PlainStacks(a, stores[k], item) # {}
                      /\ \A j \in 1..(k - 1) : ~(PlainStacks(a, stores[j], item) # {})
           places == PlainStacks(a, stores[first], item)
           all == UNION {PlainStacks(a, stores[k], item) : k \in DOMAIN stores}
<1>1. Have # {}
  <2> SUFFICES ASSUME Have = {} PROVE FALSE
    OBVIOUS
  <2>1. all = {}
    OBVIOUS
  <2>2. Quantity(a, {}) = Weigh(a.stacks, {})
    BY QuantityIsWeight
  <2>3. Weigh(a.stacks, {}) = 0
    BY AssetsType, NothingWeighs
  <2>4. Available(a, stores, item) = Quantity(a, all)
    BY DEF Available
  <2> HIDE DEF all
  <2>5. Available(a, stores, item) = 0
    BY <2>1, <2>2, <2>3, <2>4
  <2> QED BY <2>5
<1>2. SourceIn(a, stores, item) = Min(places)
  BY <1>1 DEF SourceIn
<1>3. Have \subseteq Nat
  OBVIOUS
<1>4. PICK k \in Have : \A j \in Have : k <= j
  BY <1>1, <1>3, LeastExists
<1>5. /\ k \in DOMAIN stores /\ PlainStacks(a, stores[k], item) # {}
      /\ \A j \in 1..(k - 1) : ~(PlainStacks(a, stores[j], item) # {})
  <2>1. ASSUME NEW j \in 1..(k - 1) PROVE ~(PlainStacks(a, stores[j], item) # {})
    <3>1. j \in DOMAIN stores /\ ~(k <= j)
      OBVIOUS
    <3> QED BY <1>4, <3>1
  <2> QED BY <2>1
<1>6. places # {}
  BY <1>5
<1> HIDE DEF first
<1>7. places \subseteq DOMAIN a.stacks
  BY PlainPlaces
<1> HIDE DEF places
<1>8. Min(places) \in Nat /\ Min(places) > 0
  BY <1>6, <1>7, AssetsType, LeastPlace
<1> QED BY <1>2, <1>8

\* A charge goes into an empty magazine.
LEMMA FitChargeFits ==
  ASSUME NEW a \in Assets, Orderly(a), NEW d \in Drafts, d.ship \in DOMAIN a.ships,
         NEW slot \in Slots,
         FitCharge(a, d, slot) # NoOne,
         Worn(a.stacks, d.ship, Charge(slot)) > 0 => d.slots[slot].loaded
  PROVE  LET b == FitCharge(a, d, slot)
         IN  /\ Restacked(a, b) /\ Orderly(b)
             /\ \A x \in Ships, other \in Slots :
                  /\ Worn(b.stacks, x, Fitted(other)) = Worn(a.stacks, x, Fitted(other))
                  /\ (x # d.ship \/ other # slot) =>
                       Worn(b.stacks, x, Charge(other)) = Worn(a.stacks, x, Charge(other))
             /\ Worn(b.stacks, d.ship, Charge(slot)) > 0 <=> d.slots[slot].loaded
<1> DEFINE spare == Available(a, Stores(d), Ammo)
           rounds == Min({MagazineSize, spare})
           s == d.ship
           b == FitCharge(a, d, slot)
<1>1. CASE ~d.slots[slot].loaded \/ ChargeAt(a, s, slot) # {}
  <2>1. b = a
    BY <1>1 DEF FitCharge
  <2>2. Restacked(a, a)
    BY DEF Restacked
  <2>3. Worn(a.stacks, s, Charge(slot)) > 0 <=> d.slots[slot].loaded
    BY <1>1, LoadedIsWorn
  <2> HIDE DEF b
  <2> QED BY <2>1, <2>2, <2>3 DEF b
<1>2. CASE rounds # 0 /\ d.slots[slot].loaded /\ ChargeAt(a, s, slot) = {}
  <2>1. spare \in Nat /\ MagazineSize \in Nat
    BY QuantityType, VolumeType DEF Available
  <2>2. rounds = IF MagazineSize <= spare THEN MagazineSize ELSE spare
    <3> HIDE DEF spare
    <3> QED BY <2>1, MinOfTwo
  <2>3. b = LoadRounds(Stores(d), a, s, slot, rounds)
    BY <1>2 DEF FitCharge
  <2>4. Worn(a.stacks, s, Charge(slot)) \in Nat /\ ~(Worn(a.stacks, s, Charge(slot)) > 0)
    BY <1>2, LoadedIsWorn, WornType
  <2> HIDE DEF rounds, spare
  <2>5. /\ rounds \in Nat /\ rounds > 0 /\ spare > 0
        /\ Worn(a.stacks, s, Charge(slot)) + rounds <= MagazineSize
    BY <1>2, <2>1, <2>2, <2>4
  <2>6. SourceIn(a, Stores(d), Ammo) # 0
    BY <2>5, StoresAreTwo, AvailableIsFound DEF spare
  <2> HIDE DEF s, b
  <2>7. s \in DOMAIN a.ships
    BY DEF s
  <2>8. Topped(a, b, s, slot, rounds) /\ Worn(b.stacks, s, Charge(slot)) > 0
    <3>1. /\ Topped(a, LoadRounds(Stores(d), a, s, slot, rounds), s, slot, rounds)
          /\ rounds > 0 /\ SourceIn(a, Stores(d), Ammo) # 0 =>
               Worn(LoadRounds(Stores(d), a, s, slot, rounds).stacks, s, Charge(slot)) > 0
      BY <2>5, <2>7, StoresAreTwo, LoadRoundsTop
    <3> QED BY <2>3, <2>5, <2>6, <3>1
  <2> QED BY <1>2, <2>8 DEF Topped, s, b
<1>3. ~d.slots[slot].loaded \/ ChargeAt(a, s, slot) # {} \/ rounds # 0
  BY DEF FitCharge
<1> HIDE DEF rounds, s
<1> QED BY <1>1, <1>2, <1>3 DEF s

\* The first k slots are as planned, and the others hold nothing unplanned.
Refit(a, b, d, k) ==
  /\ Restacked(a, b) /\ Orderly(b)
  /\ \A x \in Ships, slot \in Slots : x # d.ship =>
       /\ Worn(b.stacks, x, Fitted(slot)) = Worn(a.stacks, x, Fitted(slot))
       /\ Worn(b.stacks, x, Charge(slot)) = Worn(a.stacks, x, Charge(slot))
  /\ \A slot \in Slots :
       /\ Worn(b.stacks, d.ship, Fitted(slot)) > 0 => d.slots[slot].weapon
       /\ Worn(b.stacks, d.ship, Charge(slot)) > 0 => d.slots[slot].loaded
       /\ slot <= k => /\ d.slots[slot].weapon => Worn(b.stacks, d.ship, Fitted(slot)) > 0
                       /\ d.slots[slot].loaded => Worn(b.stacks, d.ship, Charge(slot)) > 0

\* A stripped ship wears what its plan keeps.
LEMMA StripRefits ==
  ASSUME NEW a \in Assets, Orderly(a), NEW d \in Drafts
  PROVE  Refit(a, Strip(a, d), d, 0)
<1> DEFINE b == Strip(a, d)
<1>1. Stripping(a, b, d) /\ OffModules(b, d) = {} /\ OffCharges(b, d) = {}
  BY StripStrips
<1> HIDE DEF b
<1>2. \A slot \in Slots : ~(slot <= 0)
  BY SlotsAreCounted
<1>3. \A slot \in Slots :
        /\ Worn(b.stacks, d.ship, Fitted(slot)) > 0 => d.slots[slot].weapon
        /\ Worn(b.stacks, d.ship, Charge(slot)) > 0 => d.slots[slot].loaded
  BY <1>1 DEF OffModules, OffCharges, WantsCharge
<1>4. Refit(a, b, d, 0)
  BY <1>1, <1>2, <1>3 DEF Refit, Stripping
<1> QED BY <1>4 DEF b

\* One slot after the other wears what is planned for it.
LEMMA FitSlotRefits ==
  ASSUME NEW a \in Assets, NEW d \in Drafts, d.ship \in DOMAIN a.ships, NEW k \in Slots,
         NEW b, Refit(a, b, d, k - 1), FitSlot(b, d, k) # NoOne
  PROVE  Refit(a, FitSlot(b, d, k), d, k)
<1> DEFINE c == FitModule(b, d, k)
           e == FitCharge(c, d, k)
           s == d.ship
<1>1. b # NoOne /\ c # NoOne /\ FitSlot(b, d, k) = e /\ e # NoOne
  BY DEF FitSlot
<1>2. b \in Assets /\ Orderly(b) /\ s \in DOMAIN b.ships /\ Restacked(a, b) /\ s \in Ships
  BY DEF Refit, Restacked, Drafts
<1>3. Worn(b.stacks, s, Fitted(k)) > 0 => d.slots[k].weapon
  BY DEF Refit
<1>4. /\ Restacked(b, c) /\ Orderly(c)
      /\ \A x \in Ships : \A st : (x # s \/ st # Fitted(k)) => Worn(c.stacks, x, st) = Worn(b.stacks, x, st)
      /\ Worn(c.stacks, s, Fitted(k)) > 0 <=> d.slots[k].weapon
  <2> DEFINE f == FitModule(b, d, k)
  <2>1. f # NoOne
    BY <1>1
  <2>2. /\ Restacked(b, f) /\ Orderly(f)
        /\ \A x \in Ships : \A st : (x # d.ship \/ st # Fitted(k)) => Worn(f.stacks, x, st) = Worn(b.stacks, x, st)
        /\ Worn(f.stacks, d.ship, Fitted(k)) > 0 <=> d.slots[k].weapon
    BY <1>2, <1>3, <2>1, FitModuleFits
  <2> QED BY <2>2
<1> HIDE DEF c
<1>5. c \in Assets /\ s \in DOMAIN c.ships
  BY <1>2, <1>4 DEF Restacked
<1>6. \A other \in Slots : Worn(c.stacks, s, Charge(other)) = Worn(b.stacks, s, Charge(other))
  BY <1>2, <1>4, SlotOfState
<1>7. Worn(c.stacks, s, Charge(k)) > 0 => d.slots[k].loaded
  BY <1>6 DEF Refit
<1>8. /\ Restacked(c, e) /\ Orderly(e)
      /\ \A x \in Ships, other \in Slots :
           /\ Worn(e.stacks, x, Fitted(other)) = Worn(c.stacks, x, Fitted(other))
           /\ (x # s \/ other # k) => Worn(e.stacks, x, Charge(other)) = Worn(c.stacks, x, Charge(other))
      /\ Worn(e.stacks, s, Charge(k)) > 0 <=> d.slots[k].loaded
  <2> DEFINE f == FitCharge(c, d, k)
  <2>1. f # NoOne
    BY <1>1
  <2>2. /\ Restacked(c, f) /\ Orderly(f)
        /\ \A x \in Ships, other \in Slots :
             /\ Worn(f.stacks, x, Fitted(other)) = Worn(c.stacks, x, Fitted(other))
             /\ (x # d.ship \/ other # k) =>
                  Worn(f.stacks, x, Charge(other)) = Worn(c.stacks, x, Charge(other))
        /\ Worn(f.stacks, d.ship, Charge(k)) > 0 <=> d.slots[k].loaded
    BY <1>4, <1>5, <1>7, <2>1, FitChargeFits
  <2> QED BY <2>2
<1> HIDE DEF e
<1>9. Restacked(a, e)
  BY <1>2, <1>4, <1>8, RestackedTwice
<1>10. ASSUME NEW x \in Ships, NEW slot \in Slots, x # s
       PROVE  /\ Worn(e.stacks, x, Fitted(slot)) = Worn(a.stacks, x, Fitted(slot))
              /\ Worn(e.stacks, x, Charge(slot)) = Worn(a.stacks, x, Charge(slot))
  <2>1. /\ Worn(e.stacks, x, Fitted(slot)) = Worn(c.stacks, x, Fitted(slot))
        /\ Worn(e.stacks, x, Charge(slot)) = Worn(c.stacks, x, Charge(slot))
    BY <1>8, <1>10
  <2>2. /\ Worn(c.stacks, x, Fitted(slot)) = Worn(b.stacks, x, Fitted(slot))
        /\ Worn(c.stacks, x, Charge(slot)) = Worn(b.stacks, x, Charge(slot))
    BY <1>4, <1>10
  <2>3. /\ Worn(b.stacks, x, Fitted(slot)) = Worn(a.stacks, x, Fitted(slot))
        /\ Worn(b.stacks, x, Charge(slot)) = Worn(a.stacks, x, Charge(slot))
    BY <1>10 DEF Refit
  <2> QED BY <2>1, <2>2, <2>3
<1>11. ASSUME NEW slot \in Slots
       PROVE  /\ Worn(e.stacks, s, Fitted(slot)) > 0 => d.slots[slot].weapon
              /\ Worn(e.stacks, s, Charge(slot)) > 0 => d.slots[slot].loaded
              /\ slot <= k => /\ d.slots[slot].weapon => Worn(e.stacks, s, Fitted(slot)) > 0
                              /\ d.slots[slot].loaded => Worn(e.stacks, s, Charge(slot)) > 0
  <2>1. Worn(e.stacks, s, Fitted(slot)) = Worn(c.stacks, s, Fitted(slot))
    BY <1>2, <1>8
  <2>2. CASE slot = k
    BY <1>4, <1>8, <2>1, <2>2
  <2>3. CASE slot # k
    <3>1. Worn(c.stacks, s, Fitted(slot)) = Worn(b.stacks, s, Fitted(slot))
      BY <1>2, <1>4, <2>3, SlotOfState
    <3>2. Worn(e.stacks, s, Charge(slot)) = Worn(b.stacks, s, Charge(slot))
      BY <1>2, <1>6, <1>8, <2>3
    <3>3. slot <= k => slot <= k - 1
      BY <2>3, SlotsAreCounted
    <3> QED BY <2>1, <3>1, <3>2, <3>3 DEF Refit
  <2> QED BY <2>2, <2>3
<1>12. Refit(a, e, d, k)
  BY <1>8, <1>9, <1>10, <1>11 DEF Refit
<1> QED BY <1>1, <1>12

\* An applied draft has fitted every slot as planned.
LEMMA DraftRefits ==
  ASSUME NEW a \in Assets, Orderly(a),
         NEW d \in Drafts, d.ship \in DOMAIN a.ships, ApplyDraftTo(a, d) # NoOne
  PROVE  Refit(a, ApplyDraftTo(a, d), d, Cardinality(Slots))
<1> DEFINE n == Cardinality(Slots)
<1>1. n \in Nat /\ Slots = 1..n
  BY SlotsAreCounted
<1>2. PICK g : /\ ApplyDraftTo(a, d) = g[n] /\ g[0] = Strip(a, d)
               /\ \A i \in 1..n : g[i] = FitSlot(g[i - 1], d, i)
  BY DraftUnfolds
<1> HIDE DEF n
<1> DEFINE G == [k \in 0..n |-> {b \in Assets \cup {NoOne} : b # NoOne => Refit(a, b, d, k)}]
<1>3. g[0] \in G[0]
  <2>1. Refit(a, g[0], d, 0)
    BY <1>2, StripRefits
  <2> QED BY <1>1, <2>1 DEF Refit, Restacked
<1>4. ASSUME NEW k \in 1..n, g[k - 1] \in G[k - 1] PROVE g[k] \in G[k]
  <2>1. k - 1 \in 0..n /\ k \in 0..n /\ k \in Slots
    BY <1>1
  <2>2. g[k - 1] # NoOne => Refit(a, g[k - 1], d, k - 1)
    BY <1>4, <2>1
  <2>3. g[k] = FitSlot(g[k - 1], d, k)
    BY <1>2
  <2>4. ASSUME g[k] # NoOne PROVE Refit(a, g[k], d, k)
    <3>1. g[k - 1] # NoOne
      BY <2>3, <2>4 DEF FitSlot
    <3> HIDE DEF G
    <3> QED BY <2>1, <2>2, <2>3, <2>4, <3>1, FitSlotRefits
  <2> QED BY <2>1, <2>4 DEF Refit, Restacked
<1> HIDE DEF G
<1>5. g[n] \in G[n]
  BY <1>1, <1>3, <1>4, StaysAt
<1>6. n \in 0..n
  BY <1>1
<1>7. g[n] # NoOne => Refit(a, g[n], d, n)
  BY <1>5, <1>6 DEF G
<1> QED BY <1>2, <1>7 DEF n

\* A committed draft is what the ship then wears.
AsPlanned(a, d) ==
  \A slot \in Slots :
    /\ (ModuleAt(a, d.ship, slot) # {}) <=> d.slots[slot].weapon
    /\ (ChargeAt(a, d.ship, slot) # {}) <=> d.slots[slot].loaded

\* A commit leaves the goods in order and the ship as planned.
LEMMA CommitFits ==
  ASSUME FitInv, CommitFitting
  PROVE  Fit(assets', fitting') /\ AsPlanned(assets', fitting)
<1> DEFINE b == ApplyDraftTo(assets, fitting)
<1>1. fitting # NoOne /\ b # NoOne /\ assets' = b /\ fitting' = NoOne
  BY DEF CommitFitting, Adopt
<1>2. /\ fitting \in Drafts /\ assets \in Assets /\ fitting.ship \in DOMAIN assets.ships
      /\ Orderly(assets) /\ Armed(assets.stacks) /\ IsWhole(fitting)
  BY <1>1, FitTypes DEF StationInv, StationTypes, PilotIsPlaced
<1>3. Refit(assets, b, fitting, Cardinality(Slots))
  BY <1>1, <1>2, DraftRefits
<1> HIDE DEF b
<1>4. b \in Assets /\ Orderly(b)
  BY <1>3 DEF Refit, Restacked
<1>5. \A slot \in Slots :
        /\ Worn(b.stacks, fitting.ship, Fitted(slot)) > 0 <=> fitting.slots[slot].weapon
        /\ Worn(b.stacks, fitting.ship, Charge(slot)) > 0 <=> fitting.slots[slot].loaded
  <2>1. \A slot \in Slots : slot <= Cardinality(Slots)
    BY SlotsAreCounted
  <2> QED BY <1>3, <2>1 DEF Refit
<1>6. AsPlanned(b, fitting)
  BY <1>4, <1>5, LoadedIsWorn DEF AsPlanned
<1>7. Armed(b.stacks)
  <2> SUFFICES ASSUME NEW x \in Ships, NEW slot \in Slots, Worn(b.stacks, x, Charge(slot)) > 0
               PROVE  Worn(b.stacks, x, Fitted(slot)) > 0
    BY DEF Armed
  <2>1. CASE x = fitting.ship
    BY <1>1, <1>2, <1>5, <2>1 DEF IsWhole
  <2>2. CASE x # fitting.ship
    <3>1. /\ Worn(b.stacks, x, Fitted(slot)) = Worn(assets.stacks, x, Fitted(slot))
          /\ Worn(b.stacks, x, Charge(slot)) = Worn(assets.stacks, x, Charge(slot))
      BY <1>3, <2>2 DEF Refit
    <3> QED BY <1>2, <3>1 DEF Armed
  <2> QED BY <2>1, <2>2
<1>8. IsWhole(NoOne)
  BY DEF IsWhole
<1> QED BY <1>1, <1>4, <1>6, <1>7, <1>8 DEF Fit

-----------------------------------------------------------------------------
(* Losses and wrecks. *)

\* A sequence built stack by stack weighs no less in the end when no stack is
\* left out.
LEMMA NoLessInTheEnd ==
  ASSUME NEW stacks \in Seq(Stacks), NEW K, NEW g, g[0] = <<>>,
         \A i \in 1..Len(stacks) :
           g[i - 1] \in Seq(Stacks) =>
             /\ g[i] \in Seq(Stacks)
             /\ Weigh(g[i - 1], K) + Weight(stacks[i], K) <= Weigh(g[i], K)
  PROVE  Weigh(stacks, K) <= Weigh(g[Len(stacks)], K)
<1> DEFINE n == Len(stacks)
           w == Weights(stacks, K)
<1>1. /\ w \in Seq(Int) /\ Len(w) = n /\ n \in Nat
      /\ \A i \in 1..n : w[i] = Weight(stacks[i], K) /\ w[i] \in Nat
  BY WeightsType
<1>2. PICK h : Runs(h, w) /\ Total(w) = h[Len(w)]
  BY <1>1, TotalRuns
<1> HIDE DEF w
<1>3. h[0] = 0 /\ \A i \in 1..n : h[i] = h[i - 1] + w[i]
  BY <1>1, <1>2 DEF Runs
<1>4. \A i \in 0..n : h[i] \in Int
  BY <1>1, <1>2, RunsAreIntegers
<1> DEFINE G == [i \in 0..n |-> {t \in Seq(Stacks) : h[i] <= Weigh(t, K)}]
<1>5. g[0] \in G[0]
  <2>1. Weigh(<<>>, K) = 0 /\ <<>> \in Seq(Stacks)
    <3>1. <<>> \in Seq(Stacks) /\ \A i \in DOMAIN <<>> : Kind(<<>>[i]) \notin K
      OBVIOUS
    <3>2. ASSUME NEW e \in Seq(Stacks), e = <<>> PROVE Weigh(e, K) = 0
      <4>1. \A i \in DOMAIN e : Kind(e[i]) \notin K
        BY <3>2
      <4> QED BY <4>1, NothingWeighs
    <3> QED BY <3>1, <3>2
  <2>2. 0 \in 0..n
    BY <1>1
  <2> QED BY <1>3, <2>1, <2>2
<1>6. ASSUME NEW i \in 1..n, g[i - 1] \in G[i - 1] PROVE g[i] \in G[i]
  <2> DEFINE x == Weigh(g[i - 1], K)
             y == Weigh(g[i], K)
             v == w[i]
             p == h[i - 1]
             q == h[i]
  <2>1. i - 1 \in 0..n /\ i \in 0..n
    BY <1>1
  <2>2. g[i - 1] \in Seq(Stacks) /\ p <= x
    BY <1>6, <2>1
  <2>3. g[i] \in Seq(Stacks) /\ x + v <= y
    BY <1>1, <2>2
  <2>4. x \in Nat /\ y \in Nat
    BY <2>2, <2>3, WeighType
  <2>5. q = p + v /\ v \in Nat /\ p \in Int
    BY <1>1, <1>3, <1>4, <2>1
  <2> HIDE DEF x, y, v, p, q
  <2>6. q <= y
    BY <2>2, <2>3, <2>4, <2>5
  <2> QED BY <2>1, <2>3, <2>6 DEF y, q
<1>7. G[n] = {t \in Seq(Stacks) : h[n] <= Weigh(t, K)}
  BY <1>1
<1> HIDE DEF G, n
<1>8. g[n] \in G[n]
  BY <1>1, <1>5, <1>6, StaysAt
<1> QED BY <1>1, <1>2, <1>7, <1>8 DEF Weigh, w, n

\* What has been gathered so far of a slot was among the stacks seen so far.
Seen(stacks, t, i) ==
  \A j \in DOMAIN t : t[j].state # Plain =>
    \E k \in 1..i : stacks[k].inv = t[j].inv /\ stacks[k].state = t[j].state

\* A stack is left out, kept as it is, or put into the wreck.
Gathers(stacks, homes, s, t, i) ==
  \/ t = s
  \/ t = Append(s, stacks[i]) /\ Welcome(homes, stacks[i])
  \/ \E u \in Stacks : u.state = Plain /\ u.inv = Wreck /\ Welcome(homes, u) /\ t = Put(s, u)

\* A stack gathered from others leaves what was gathered before as tidy.
LEMMA GatherIsTidy ==
  ASSUME NEW stacks \in Seq(Stacks), Apart(stacks), NEW homes, NEW i \in 1..Len(stacks),
         NEW s \in Seq(Stacks), Tidy(s, homes), Seen(stacks, s, i - 1),
         NEW t, Gathers(stacks, homes, s, t, i)
  PROVE  t \in Seq(Stacks) /\ Tidy(t, homes) /\ Seen(stacks, t, i)
<1>1. \A k \in 1..(i - 1) : k \in 1..i /\ k # i /\ k \in DOMAIN stacks
  OBVIOUS
<1>2. i \in DOMAIN stacks /\ i \in 1..i /\ stacks[i] \in Stacks
  OBVIOUS
<1>3. Seen(stacks, s, i)
  BY <1>1 DEF Seen
<1>4. CASE t = s
  BY <1>3, <1>4
<1>5. CASE t = Append(s, stacks[i]) /\ Welcome(homes, stacks[i])
  <2> DEFINE u == stacks[i]
             n == Len(s)
  <2>1. u.state = Plain \/ Free(s, u.inv, u.state)
    BY <1>1, <1>2 DEF Seen, Free, Apart
  <2>2. n \in Nat /\ DOMAIN s = 1..n /\ DOMAIN t = 1..(n + 1) /\ t[n + 1] = u /\ \A j \in 1..n : t[j] = s[j]
    BY <1>5, AppendProperties
  <2>3. t \in Seq(Stacks)
    BY <1>2, <1>5
  <2> HIDE DEF n
  <2>4. Seen(stacks, t, i)
    <3> SUFFICES ASSUME NEW j \in 1..(n + 1), t[j].state # Plain
                 PROVE  \E k \in 1..i : stacks[k].inv = t[j].inv /\ stacks[k].state = t[j].state
      BY <2>2 DEF Seen
    <3>1. CASE j = n + 1
      BY <1>2, <2>2, <3>1
    <3>2. CASE j # n + 1
      <4>1. j \in 1..n
        BY <2>2, <3>2
      <4> QED BY SMTT(30), <1>3, <2>2, <4>1 DEF Seen
    <3> QED BY <3>1, <3>2
  <2> HIDE DEF u
  <2>5. Tidy(Append(s, u), homes)
    BY <1>2, <1>5, <2>1, AppendedIsTidy DEF Welcome, u
  <2> QED BY <1>5, <2>3, <2>4, <2>5 DEF u
<1>6. ASSUME NEW u \in Stacks, u.state = Plain, Welcome(homes, u), t = Put(s, u)
      PROVE  t \in Seq(Stacks) /\ Tidy(t, homes) /\ Seen(stacks, t, i)
  <2>1. Plain[1] # "fitted"
    BY StateCases
  <2>2. t \in Seq(Stacks) /\ Tidy(t, homes)
    BY <1>6, <2>1, PutType, PutIsTidy
  <2>3. CASE t = Append(s, u)
    <3> DEFINE n == Len(s)
    <3>1. n \in Nat /\ DOMAIN s = 1..n /\ DOMAIN t = 1..(n + 1) /\ t[n + 1] = u /\ \A j \in 1..n : t[j] = s[j]
      BY <2>3, AppendProperties
    <3> HIDE DEF n
    <3>2. Seen(stacks, t, i)
      <4> SUFFICES ASSUME NEW j \in 1..(n + 1), t[j].state # Plain
                   PROVE  \E k \in 1..i : stacks[k].inv = t[j].inv /\ stacks[k].state = t[j].state
        BY <3>1 DEF Seen
      <4>1. j \in 1..n
        BY <1>6, <3>1
      <4> QED BY <1>3, <3>1, <4>1 DEF Seen
    <3> QED BY <2>2, <3>2
  <2>4. ASSUME NEW j \in DOMAIN s, t = [s EXCEPT ![j] = Joined(s[j], u)]
        PROVE  Seen(stacks, t, i)
    <3> DEFINE v == Joined(s[j], u)
    <3>1. v.inv = s[j].inv /\ v.state = s[j].state
      BY JoinedType
    <3> HIDE DEF v
    <3>2. DOMAIN t = DOMAIN s /\ \A k \in DOMAIN s : t[k].inv = s[k].inv /\ t[k].state = s[k].state
      BY <2>4, <3>1 DEF v
    <3> QED BY <1>3, <3>2 DEF Seen
  <2> QED BY <1>6, <2>2, <2>3, <2>4, PutCases
<1> QED BY <1>4, <1>5, <1>6 DEF Gathers

\* And so in the end are all of them.
LEMMA GatheredIsTidy ==
  ASSUME NEW stacks \in Seq(Stacks), Apart(stacks), NEW homes, NEW g, g[0] = <<>>,
         \A i \in 1..Len(stacks) : Gathers(stacks, homes, g[i - 1], g[i], i)
  PROVE  g[Len(stacks)] \in Seq(Stacks) /\ Tidy(g[Len(stacks)], homes)
<1> DEFINE n == Len(stacks)
           G == [k \in 0..n |-> {t \in Seq(Stacks) : Tidy(t, homes) /\ Seen(stacks, t, k)}]
<1>1. n \in Nat
  OBVIOUS
<1>2. g[0] \in G[0]
  <2>1. <<>> \in Seq(Stacks) /\ DOMAIN <<>> = {}
    OBVIOUS
  <2>2. Tidy(<<>>, homes) /\ Seen(stacks, <<>>, 0)
    BY <2>1 DEF Tidy, Sorted, Apart, Seen
  <2> QED BY <1>1, <2>1, <2>2
<1>3. ASSUME NEW k \in 1..n, g[k - 1] \in G[k - 1] PROVE g[k] \in G[k]
  <2>1. k - 1 \in 0..n /\ k \in 0..n
    BY <1>1
  <2>2. g[k - 1] \in Seq(Stacks) /\ Tidy(g[k - 1], homes) /\ Seen(stacks, g[k - 1], k - 1)
    BY <1>3, <2>1
  <2>3. g[k] \in Seq(Stacks) /\ Tidy(g[k], homes) /\ Seen(stacks, g[k], k)
    <3> HIDE DEF G
    <3> QED BY <2>2, GatherIsTidy
  <2> QED BY <2>1, <2>3
<1> HIDE DEF G
<1>4. g[n] \in G[n]
  BY <1>1, <1>2, <1>3, StaysAt
<1>5. n \in 0..n
  BY <1>1
<1> QED BY <1>4, <1>5 DEF G

\* Of what lies outside the wreck there is no more than before, and as
\* much when nothing of it is left out.
LEMMA GatheredWeighs ==
  ASSUME NEW stacks \in Seq(Stacks), NEW homes, NEW g, g[0] = <<>>,
         \A i \in 1..Len(stacks) : g[i - 1] \in Seq(Stacks) /\ g[i] \in Seq(Stacks)
                                   /\ Gathers(stacks, homes, g[i - 1], g[i], i),
         NEW K, IsBlind(K),
         \A u \in Stacks : u.inv = Wreck => Kind(u) \notin K
  PROVE  /\ Weigh(g[Len(stacks)], K) <= Weigh(stacks, K)
         /\ (\A i \in 1..Len(stacks) : g[i] # Append(g[i - 1], stacks[i]) => Kind(stacks[i]) \notin K)
              => Weigh(stacks, K) <= Weigh(g[Len(stacks)], K)
<1>1. ASSUME NEW i \in 1..Len(stacks)
      PROVE  /\ g[i] \in Seq(Stacks) /\ stacks[i] \in Stacks
             /\ Weigh(g[i - 1], K) \in Nat /\ Weigh(g[i], K) \in Nat /\ Weight(stacks[i], K) \in Nat
             /\ \/ Weigh(g[i], K) = Weigh(g[i - 1], K)
                \/ /\ g[i] = Append(g[i - 1], stacks[i])
                   /\ Weigh(g[i], K) = Weigh(g[i - 1], K) + Weight(stacks[i], K)
  <2> DEFINE s == g[i - 1]
             t == g[i]
  <2>1. s \in Seq(Stacks) /\ t \in Seq(Stacks) /\ Gathers(stacks, homes, s, t, i) /\ stacks[i] \in Stacks
    OBVIOUS
  <2> HIDE DEF s, t
  <2>3. Weigh(s, K) \in Nat /\ Weigh(t, K) \in Nat /\ Weight(stacks[i], K) \in Nat
    BY <2>1, WeighType, WeightType
  <2>4. CASE t = s
    BY <2>1, <2>3, <2>4 DEF s, t
  <2>5. CASE t = Append(s, stacks[i])
    <3>1. Weigh(t, K) = Weigh(s, K) + Weight(stacks[i], K)
      BY <2>1, <2>5, WeighAppended
    <3> QED BY <2>1, <2>3, <2>5, <3>1 DEF s, t
  <2>6. ASSUME NEW u \in Stacks, u.inv = Wreck, t = Put(s, u)
        PROVE  Weigh(t, K) = Weigh(s, K)
    <3>1. Weight(u, K) = 0
      BY <2>6 DEF Weight
    <3>2. Weigh(t, K) = Weigh(s, K) + Weight(u, K)
      BY <2>1, <2>6, PutWeighs
    <3> QED BY <2>3, <3>1, <3>2
  <2>7. Weigh(t, K) = Weigh(s, K) \/ t = Append(s, stacks[i])
    BY <2>1, <2>4, <2>6 DEF Gathers
  <2> QED BY <2>1, <2>3, <2>5, <2>7 DEF s, t
<1>2. Weigh(g[Len(stacks)], K) <= Weigh(stacks, K)
  <2>1. ASSUME NEW i \in 1..Len(stacks)
        PROVE  g[i] \in Seq(Stacks) /\ Weigh(g[i], K) <= Weigh(g[i - 1], K) + Weight(stacks[i], K)
    <3> DEFINE x == Weigh(g[i - 1], K)
               y == Weigh(g[i], K)
               z == Weight(stacks[i], K)
    <3>1. x \in Nat /\ y \in Nat /\ z \in Nat /\ (y = x \/ y = x + z) /\ g[i] \in Seq(Stacks)
      BY <1>1
    <3> HIDE DEF x, y, z
    <3>2. y <= x + z
      BY <3>1
    <3> QED BY <3>1, <3>2 DEF x, y, z
  <2> HIDE <1>1
  <2> QED BY <2>1, NoMoreInTheEnd
<1>3. ASSUME \A i \in 1..Len(stacks) : g[i] # Append(g[i - 1], stacks[i]) => Kind(stacks[i]) \notin K
      PROVE  Weigh(stacks, K) <= Weigh(g[Len(stacks)], K)
  <2>1. ASSUME NEW i \in 1..Len(stacks)
        PROVE  g[i] \in Seq(Stacks) /\ Weigh(g[i - 1], K) + Weight(stacks[i], K) <= Weigh(g[i], K)
    <3> DEFINE x == Weigh(g[i - 1], K)
               y == Weigh(g[i], K)
               z == Weight(stacks[i], K)
    <3>1. x \in Nat /\ y \in Nat /\ z \in Nat /\ g[i] \in Seq(Stacks)
      BY <1>1
    <3>2. y = x + z \/ (y = x /\ z = 0)
      <4>1. CASE g[i] = Append(g[i - 1], stacks[i])
        <5>1. stacks[i] \in Stacks /\ g[i - 1] \in Seq(Stacks)
          OBVIOUS
        <5> QED BY <4>1, <5>1, WeighAppended
      <4>2. CASE g[i] # Append(g[i - 1], stacks[i])
        <5>1. y = x
          BY <1>1, <4>2
        <5>2. z = 0
          BY <1>3, <4>2 DEF Weight
        <5> QED BY <5>1, <5>2
      <4> QED BY <4>1, <4>2
    <3> HIDE DEF x, y, z
    <3>3. x + z <= y
      BY <3>1, <3>2
    <3> QED BY <3>1, <3>3 DEF x, y, z
  <2> HIDE <1>1, <1>3
  <2> QED BY <2>1, NoLessInTheEnd
<1> QED BY <1>2, <1>3

\* What a pilot wears and holds is of no wreck.
LEMMA WrecksAreApart ==
  /\ \A x \in Ships, slot \in Slots, u \in Stacks : u.inv = Wreck =>
       Kind(u) \notin At(FittingStore(x), Fitted(slot)) /\ Kind(u) \notin At(FittingStore(x), Charge(slot))
  /\ \A x \in Ships, item \in Items, u \in Stacks : u.inv = Wreck => Kind(u) \notin InStore(item, Hold(x))
BY KindAt, PlaceKinds

\* The stacks are gathered one by one, among the homes.
Gathering(stacks, homes, g) ==
  /\ g[0] = <<>>
  /\ \A i \in 1..Len(stacks) : g[i - 1] \in Seq(Stacks) /\ g[i] \in Seq(Stacks)
                               /\ Gathers(stacks, homes, g[i - 1], g[i], i)

\* A ship none of whose stacks is left out wears what it wore.
KeepsWear(stacks, t, g) ==
  \A x \in Ships, slot \in Slots :
    (\A i \in 1..Len(stacks) : stacks[i].inv = FittingStore(x) => g[i] = Append(g[i - 1], stacks[i]))
      => /\ Worn(t, x, Fitted(slot)) = Worn(stacks, x, Fitted(slot))
         /\ Worn(t, x, Charge(slot)) = Worn(stacks, x, Charge(slot))

\* Goods gathered from others keep to the limits, and what lies where no stack
\* is left out stays as much.
LEMMA GatheredIsStowed ==
  ASSUME NEW stacks \in Seq(Stacks), NEW homes, Stowed(stacks, homes), NEW others, NEW g,
         Gathering(stacks, others, g)
  PROVE  Stowed(g[Len(stacks)], others) /\ KeepsWear(stacks, g[Len(stacks)], g)
<1> DEFINE t == g[Len(stacks)]
           n == Len(stacks)
<1>1. t \in Seq(Stacks) /\ Tidy(t, others)
  <2>1. Apart(stacks)
    BY DEF Stowed, Tidy
  <2>2. g[0] = <<>> /\ \A i \in 1..Len(stacks) : Gathers(stacks, others, g[i - 1], g[i], i)
    BY DEF Gathering
  <2> QED BY <2>1, <2>2, GatheredIsTidy
<1>2. ASSUME NEW K, IsBlind(K), \A u \in Stacks : u.inv = Wreck => Kind(u) \notin K
      PROVE  /\ Weigh(t, K) <= Weigh(stacks, K)
             /\ (\A i \in 1..n : g[i] # Append(g[i - 1], stacks[i]) => Kind(stacks[i]) \notin K)
                   => Weigh(t, K) = Weigh(stacks, K)
  <2>1. /\ Weigh(t, K) <= Weigh(stacks, K)
        /\ (\A i \in 1..n : g[i] # Append(g[i - 1], stacks[i]) => Kind(stacks[i]) \notin K)
             => Weigh(stacks, K) <= Weigh(t, K)
    BY <1>2, GatheredWeighs DEF Gathering
  <2>2. Weigh(t, K) \in Nat /\ Weigh(stacks, K) \in Nat
    <3> HIDE DEF t
    <3> QED BY <1>1, WeighType
  <2> HIDE DEF t, n
  <2>3. \A x, y \in Nat : x <= y /\ y <= x => x = y
    OBVIOUS
  <2> QED BY <2>1, <2>2, <2>3
<1>3. Lighter(stacks, t)
  BY <1>2, LimitsAreBlind, WrecksAreApart DEF Lighter, Worn
<1>4. Stowed(t, others)
  <2> HIDE DEF t
  <2> QED BY <1>1, <1>3, LighterIsStowed
<1>5. ASSUME NEW x \in Ships, NEW slot \in Slots,
             \A i \in 1..n : stacks[i].inv = FittingStore(x) => g[i] = Append(g[i - 1], stacks[i])
      PROVE  /\ Worn(t, x, Fitted(slot)) = Worn(stacks, x, Fitted(slot))
             /\ Worn(t, x, Charge(slot)) = Worn(stacks, x, Charge(slot))
  <2>1. ASSUME NEW st, NEW i \in 1..n, g[i] # Append(g[i - 1], stacks[i])
        PROVE  Kind(stacks[i]) \notin At(FittingStore(x), st)
    <3>1. stacks[i] \in Stacks /\ stacks[i].inv # FittingStore(x)
      BY <1>5, <2>1
    <3> QED BY <3>1, KindAt
  <2> HIDE DEF t, n
  <2>2. Weigh(t, At(FittingStore(x), Fitted(slot))) = Weigh(stacks, At(FittingStore(x), Fitted(slot)))
    BY <1>2, <2>1, LimitsAreBlind, WrecksAreApart
  <2>3. Weigh(t, At(FittingStore(x), Charge(slot))) = Weigh(stacks, At(FittingStore(x), Charge(slot)))
    BY <1>2, <2>1, LimitsAreBlind, WrecksAreApart
  <2> QED BY <2>2, <2>3 DEF Worn
<1> HIDE DEF t
<1> QED BY <1>4, <1>5 DEF t, n, KeepsWear

\* The goods of a wreck that is removed go with it.
LEMMA KeptIsStowed ==
  ASSUME NEW a \in Assets, Orderly(a), NEW homes, Homes(a) \ {Wreck} \subseteq homes
  PROVE  Stowed(KeptStacks(a), homes) /\ SameWear(a.stacks, KeptStacks(a))
<1> DEFINE n == Len(a.stacks)
<1>1. a.stacks \in Seq(Stacks) /\ n \in Nat /\ DOMAIN a.stacks = 1..n
  BY AssetsType
<1>2. PICK g : /\ KeptStacks(a) = g[n] /\ g[0] = <<>>
               /\ \A i \in 1..n : g[i] = KeepUnlessWrecked(g[i - 1], a.stacks[i])
  BY <1>1, KeptUnfolds
<1>3. ASSUME NEW i \in 1..n
      PROVE  /\ Gathers(a.stacks, homes, g[i - 1], g[i], i)
             /\ a.stacks[i].inv # Wreck => g[i] = Append(g[i - 1], a.stacks[i])
  <2>1. a.stacks[i].inv \in Homes(a) /\ Belongs(a.stacks[i].item, a.stacks[i].inv, a.stacks[i].state)
    BY <1>1 DEF Orderly, Stowed, Tidy, Sorted
  <2>2. g[i] = IF a.stacks[i].inv = Wreck THEN g[i - 1] ELSE Append(g[i - 1], a.stacks[i])
    BY <1>2 DEF KeepUnlessWrecked
  <2> QED BY <2>1, <2>2 DEF Gathers, Welcome
<1>4. ASSUME NEW i \in 0..n PROVE g[i] \in Seq(Stacks)
  <2> DEFINE W == {k \in 0..n : g[k] \notin Seq(Stacks)}
  <2>1. 0 \notin W
    <3>1. <<>> \in Seq(Stacks)
      OBVIOUS
    <3> QED BY <1>2, <3>1
  <2>2. ASSUME NEW k \in 1..n, k \in W PROVE k - 1 \in W
    <3>1. k - 1 \in 0..n /\ a.stacks[k] \in Stacks
      BY <1>1
    <3>2. g[k] = g[k - 1] \/ g[k] = Append(g[k - 1], a.stacks[k])
      BY <1>2 DEF KeepUnlessWrecked
    <3>3. g[k - 1] \in Seq(Stacks) => Append(g[k - 1], a.stacks[k]) \in Seq(Stacks)
      BY <3>1, AppendProperties
    <3> QED BY <2>2, <3>1, <3>2, <3>3
  <2>3. W \subseteq 0..n
    OBVIOUS
  <2> HIDE DEF W
  <2>4. W = {}
    BY <1>1, <2>1, <2>2, <2>3, UpTo
  <2> QED BY <2>4 DEF W
<1>5. Gathering(a.stacks, homes, g)
  <2>1. \A i \in 1..n : i - 1 \in 0..n /\ i \in 0..n
    BY <1>1
  <2> QED BY <1>2, <1>3, <1>4, <2>1 DEF Gathering
<1>6. \A x, i : i \in 1..n /\ a.stacks[i].inv = FittingStore(x) => g[i] = Append(g[i - 1], a.stacks[i])
  BY <1>3, PlaceKinds
<1>7. Stowed(a.stacks, Homes(a))
  BY DEF Orderly
<1>8. Stowed(g[n], homes) /\ KeepsWear(a.stacks, g[n], g)
  BY <1>1, <1>5, <1>7, GatheredIsStowed
<1> QED BY <1>2, <1>6, <1>8 DEF SameWear, KeepsWear

\* A ship that is not there wears nothing.
LEMMA NotHomeWearsNothing ==
  ASSUME NEW stacks \in Seq(Stacks), NEW homes, Tidy(stacks, homes),
         NEW x, FittingStore(x) \notin homes, NEW st
  PROVE  Worn(stacks, x, st) = 0
<1>1. \A i \in DOMAIN stacks : Kind(stacks[i]) \notin At(FittingStore(x), st)
  BY KindAt DEF Tidy, Sorted
<1> QED BY <1>1, NothingWeighs DEF Worn

\* What is left after a loss: the goods of the others, and the wreck.
LEMMA SettledIsStowed ==
  ASSUME NEW a \in Assets, Orderly(a), Armed(a.stacks), NEW s,
         NEW survivors, survivors \subseteq Carried(a, s),
         NEW homes, homes = (Homes(a) \ {Hold(s), FittingStore(s)}) \cup {Wreck}
  PROVE  Stowed(SettledStacks(a, s, survivors), homes) /\ Armed(SettledStacks(a, s, survivors))
<1> DEFINE n == Len(a.stacks)
<1>1. a.stacks \in Seq(Stacks) /\ n \in Nat /\ DOMAIN a.stacks = 1..n
  BY AssetsType
<1>2. PICK g : /\ SettledStacks(a, s, survivors) = g[n] /\ g[0] = <<>>
               /\ \A i \in 1..n : g[i] = Settle(a, s, survivors, g[i - 1], i)
  BY <1>1, SettledUnfolds
<1>3. ASSUME NEW i \in 0..n PROVE g[i] \in Seq(Stacks)
  <2> DEFINE W == {k \in 0..n : g[k] \notin Seq(Stacks)}
  <2>1. 0 \notin W
    <3>1. <<>> \in Seq(Stacks)
      OBVIOUS
    <3> QED BY <1>2, <3>1
  <2>2. ASSUME NEW k \in 1..n, k \in W PROVE k - 1 \in W
    <3>1. k - 1 \in 0..n
      BY <1>1
    <3> QED BY <1>1, <1>2, <2>2, <3>1, SettleType
  <2>3. W \subseteq 0..n
    OBVIOUS
  <2> HIDE DEF W
  <2>4. W = {}
    BY <1>1, <2>1, <2>2, <2>3, UpTo
  <2> QED BY <2>4 DEF W
<1>4. ASSUME NEW i \in 1..n
      PROVE  /\ Gathers(a.stacks, homes, g[i - 1], g[i], i)
             /\ i \notin Carried(a, s) => g[i] = Append(g[i - 1], a.stacks[i])
  <2> DEFINE t == a.stacks[i]
             r == g[i - 1]
             w == Elsewhere(t, t.qty, Wreck, Plain)
  <2>1. t \in Stacks /\ t.inv \in Homes(a) /\ Belongs(t.item, t.inv, t.state)
    BY <1>1 DEF Orderly, Stowed, Tidy, Sorted
  <2>2. /\ w \in Stacks /\ w.inv = Wreck /\ w.state = Plain
        /\ [t EXCEPT !.inv = Wreck, !.state = Plain] = w
    <3>1. t.qty \in Nat \ {0} /\ Wreck \in Places /\ Plain \in States
      BY <2>1, StackType DEF Places, States
    <3>2. w \in Stacks
      BY <2>1, <3>1, ElsewhereType
    <3>3. [t EXCEPT !.inv = Wreck, !.state = Plain] = w
      <4> DEFINE u == [t EXCEPT !.inv = Wreck]
                 v == [item |-> t.item, qty |-> t.qty, inv |-> Wreck, state |-> t.state, marked |-> t.marked]
      <4> HIDE DEF t
      <4>1. u = v
        BY <2>1, StackType
      <4>2. [v EXCEPT !.state = Plain] = w
        BY DEF Elsewhere
      <4>3. [t EXCEPT !.inv = Wreck, !.state = Plain] = [u EXCEPT !.state = Plain]
        OBVIOUS
      <4> HIDE DEF u, v, w
      <4> QED BY <4>1, <4>2, <4>3
    <3> QED BY <3>2, <3>3 DEF Elsewhere
  <2>3. g[i] = IF i \in survivors THEN Put(r, w) ELSE IF i \in Carried(a, s) THEN r ELSE Append(r, t)
    <3>1. g[i] = Settle(a, s, survivors, r, i)
      BY <1>2
    <3> QED BY <2>2, <3>1 DEF Settle
  <2>4. Welcome(homes, w)
    <3>1. Wreck[1] # "fitting" /\ Wreck \in homes
      BY PlaceKinds
    <3> HIDE DEF w
    <3> QED BY <2>2, <3>1, PlainIsElsewhere DEF Welcome
  <2>5. i \notin Carried(a, s) => Welcome(homes, t)
    <3>1. i \notin Carried(a, s) => t.inv # FittingStore(s) /\ t.inv # Hold(s)
      BY <1>1 DEF Carried, StacksIn
    <3> HIDE DEF t
    <3> QED BY <2>1, <3>1 DEF Welcome
  <2>6. i \notin Carried(a, s) => i \notin survivors
    OBVIOUS
  <2> HIDE DEF w
  <2> QED BY <2>2, <2>3, <2>4, <2>5, <2>6 DEF Gathers
<1>5. Gathering(a.stacks, homes, g)
  <2>1. \A i \in 1..n : i - 1 \in 0..n /\ i \in 0..n
    BY <1>1
  <2> QED BY <1>2, <1>3, <1>4, <2>1 DEF Gathering
<1>6. \A x, i : i \in 1..n /\ x # s /\ a.stacks[i].inv = FittingStore(x) => g[i] = Append(g[i - 1], a.stacks[i])
  <2>1. ASSUME NEW x, NEW i, i \in 1..n, x # s, a.stacks[i].inv = FittingStore(x)
        PROVE  i \notin Carried(a, s)
    BY <2>1, PlaceKinds DEF Carried, StacksIn
  <2> QED BY <1>4, <2>1
<1>7. Stowed(a.stacks, Homes(a))
  BY DEF Orderly
<1>8. Stowed(g[n], homes) /\ KeepsWear(a.stacks, g[n], g)
  BY <1>1, <1>5, <1>7, GatheredIsStowed
<1>9. g[n] \in Seq(Stacks) /\ Tidy(g[n], homes)
  BY <1>1, <1>3, <1>8 DEF Stowed
<1>10. Armed(g[n])
  <2> SUFFICES ASSUME NEW x \in Ships, NEW slot \in Slots, Worn(g[n], x, Charge(slot)) > 0
               PROVE  Worn(g[n], x, Fitted(slot)) > 0
    BY DEF Armed
  <2>1. x # s
    <3>1. FittingStore(s) \notin homes
      BY PlaceKinds
    <3>2. Worn(g[n], s, Charge(slot)) = 0
      BY <1>9, <3>1, NotHomeWearsNothing
    <3>3. ~(0 > 0)
      OBVIOUS
    <3> QED BY <3>2, <3>3
  <2>2. /\ Worn(g[n], x, Fitted(slot)) = Worn(a.stacks, x, Fitted(slot))
        /\ Worn(g[n], x, Charge(slot)) = Worn(a.stacks, x, Charge(slot))
    BY <1>6, <1>8, <2>1 DEF KeepsWear
  <2> QED BY <2>2 DEF Armed
<1> QED BY <1>2, <1>8, <1>10

-----------------------------------------------------------------------------
(* Ships that come. *)

\* Goods stay in order when their homes are still there.
Neat(a) == Orderly(a) /\ Armed(a.stacks)

\* More homes leave the goods in theirs.
LEMMA MoreHomes ==
  ASSUME NEW a, NEW b, Neat(a), b.stacks = a.stacks, Homes(a) \subseteq Homes(b)
  PROVE  Neat(b)
BY DEF Neat, Orderly, Stowed, Tidy, Sorted

\* A new ship is one more home.
LEMMA HomesGrow ==
  ASSUME NEW a, NEW b, b.wreck = a.wreck, DOMAIN a.ships \subseteq DOMAIN b.ships
  PROVE  Homes(a) \subseteq Homes(b)
BY DEF Homes

\* A purchased hull comes empty.
LEMMA HullIsNeat ==
  ASSUME NEW a \in Assets, DOMAIN a.ships # Ships, Neat(a)
  PROVE  Neat(AddPurchasedHull(a))
<1> DEFINE s == FreeShip(a)
           owned == WithShip(a, s, FALSE)
           b == AddPurchasedHull(a)
<1>1. s \in Ships
  BY FreeShipType
<1>2. owned \in Assets /\ owned.stacks = a.stacks
  <2>1. PICK no \in BOOLEAN : no = FALSE
    OBVIOUS
  <2>2. LET x == WithShip(a, s, no) IN x \in Assets /\ x.stacks = a.stacks
    BY <1>1, WithShipType
  <2> QED BY <2>1, <2>2
<1>3. b = IF a.active = NoOne THEN [owned EXCEPT !.active = s] ELSE owned
  BY DEF AddPurchasedHull
<1> HIDE DEF s, owned
<1>4. b.stacks = a.stacks
  <2>1. [owned EXCEPT !.active = s].stacks = a.stacks
    BY <1>1, <1>2, WithActive
  <2> QED BY <1>2, <1>3, <2>1
<1>5. b.wreck = a.wreck /\ DOMAIN a.ships \subseteq DOMAIN b.ships
  <2> HIDE DEF b
  <2> QED BY HullType DEF b
<1> HIDE DEF b
<1>6. Neat(b)
  BY <1>4, <1>5, HomesGrow, MoreHomes
<1> QED BY <1>6 DEF b

\* What the slots wear after so many units were added at the place in the state.
Gains(stacks, grown, inv, state, q) ==
  \A x, st : /\ Worn(grown, x, st) \in Nat /\ Worn(stacks, x, st) \in Nat
            /\ Worn(grown, x, st) = Worn(stacks, x, st) + Count(inv, state, st, x, q)

\* A slot gains what is added, in every slot and state at once.
LEMMA AddGains ==
  ASSUME NEW a \in Assets, NEW inv \in Places, NEW item \in Items, NEW q \in Nat \ {0},
         NEW state \in States, NEW marked \in BOOLEAN
  PROVE  Gains(a.stacks, Add(a, inv, item, q, state, marked).stacks, inv, state, q)
<1> SUFFICES ASSUME NEW x, NEW st
             PROVE  LET b == Add(a, inv, item, q, state, marked)
                    IN  /\ Worn(b.stacks, x, st) \in Nat /\ Worn(a.stacks, x, st) \in Nat
                        /\ Worn(b.stacks, x, st) = Worn(a.stacks, x, st) + Count(inv, state, st, x, q)
  BY DEF Gains
<1> QED BY AddWears

\* A granted ship comes with a weapon and a full magazine, in slots nothing was
\* in.
LEMMA GrantIsNeat ==
  ASSUME NEW a \in Assets, DOMAIN a.ships # Ships, Neat(a)
  PROVE  Neat(GrantRecoveryShip(a))
<1> DEFINE s == FreeShip(a)
           slot == CHOOSE k \in Slots : \A j \in Slots : k <= j
           owned == WithShip(a, s, TRUE)
           armed == Add(owned, FittingStore(s), Gun, 1, Fitted(slot), TRUE)
           loaded == Add(armed, FittingStore(s), Ammo, MagazineSize, Charge(slot), TRUE)
           b == [loaded EXCEPT !.active = s]
<1>1. s \in Ships /\ s \notin DOMAIN a.ships /\ DOMAIN a.ships \subseteq Ships
  BY FreeShipType, AssetsType, FleetType
<1>2. slot \in Slots
  BY LeastSlot
<1>3. GrantRecoveryShip(a) = b
  BY DEF GrantRecoveryShip
<1> HIDE DEF s, slot
<1> PICK yes \in BOOLEAN : yes = TRUE
  OBVIOUS
<1>4. owned \in Assets /\ owned.stacks = a.stacks /\ owned.wreck = a.wreck /\ DOMAIN owned.ships = DOMAIN a.ships \cup {s}
  <2>1. LET x == WithShip(a, s, yes)
        IN x \in Assets /\ x.stacks = a.stacks /\ x.wreck = a.wreck /\ DOMAIN x.ships = DOMAIN a.ships \cup {s}
    BY <1>1, WithShipType
  <2> QED BY <2>1
<1>5. /\ FittingStore(s) \in Places /\ Fitted(slot) \in States /\ Charge(slot) \in States
      /\ Gun \in Items /\ Ammo \in Items /\ 1 \in Nat \ {0} /\ MagazineSize \in Nat \ {0}
  BY <1>1, <1>2, PlaceKinds, StateCases, VolumeType
<1> HIDE DEF owned
<1>6. Neat(owned)
  BY <1>4, HomesGrow, MoreHomes
<1>7. ASSUME NEW st PROVE Worn(owned.stacks, s, st) = 0
  <2>1. FittingStore(s) \notin Homes(a)
    BY <1>1, PlaceKinds DEF Homes
  <2>2. Tidy(a.stacks, Homes(a)) /\ a.stacks \in Seq(Stacks)
    BY AssetsType DEF Neat, Orderly, Stowed
  <2> QED BY <1>4, <2>1, <2>2, NotHomeWearsNothing
<1>8. Orderly(armed) /\ Restacked(owned, armed)
  <2> DEFINE u == [item |-> Gun, qty |-> 1, inv |-> FittingStore(s), state |-> Fitted(slot), marked |-> yes]
  <2>1. Free(owned.stacks, FittingStore(s), Fitted(slot))
    <3>1. Weigh(owned.stacks, At(FittingStore(s), Fitted(slot))) = 0
      BY <1>7 DEF Worn
    <3>2. ~(0 > 0)
      OBVIOUS
    <3> QED BY <1>4, <3>1, <3>2, AssetsType, FreeWeighsNothing
  <2>2. u.item = Gun /\ u.qty = 1 /\ u.inv = FittingStore(s) /\ u.state = Fitted(slot)
    OBVIOUS
  <2>3. Admits(owned.stacks, Homes(owned), u)
    <3>1. /\ Fitted(slot)[1] = "fitted" /\ Fitted(slot) # Plain /\ FittingStore(s)[1] = "fitting"
          /\ FittingStore(s) \in Homes(owned)
      BY <1>4, StateCases, PlaceKinds DEF Homes
    <3> HIDE DEF u
    <3> QED BY <2>1, <2>2, <3>1 DEF Admits, Welcome, Room, Belongs
  <2>4. Orderly(owned)
    BY <1>6 DEF Neat
  <2> DEFINE c == Add(owned, FittingStore(s), Gun, 1, Fitted(slot), yes)
  <2>5. Orderly(c) /\ Restacked(owned, c)
    BY <1>4, <1>5, <2>3, <2>4, AddIsOrderly, AddType
  <2> QED BY <2>5
<1>9. Gains(owned.stacks, armed.stacks, FittingStore(s), Fitted(slot), 1)
  <2> DEFINE c == Add(owned, FittingStore(s), Gun, 1, Fitted(slot), yes)
  <2>1. owned \in Assets
    BY <1>4
  <2>2. Gains(owned.stacks, c.stacks, FittingStore(s), Fitted(slot), 1)
    BY <2>1, <1>5, AddGains
  <2> QED BY <2>2
<1>10. armed \in Assets /\ armed.ships = owned.ships
  BY <1>8 DEF Restacked
<1> HIDE DEF armed
<1>11. Worn(armed.stacks, s, Charge(slot)) = 0
  <2>1. Count(FittingStore(s), Fitted(slot), Charge(slot), s, 1) = 0
    BY CountsTell
  <2>2. Worn(owned.stacks, s, Charge(slot)) = 0
    BY <1>7
  <2> QED BY <1>9, <2>1, <2>2 DEF Gains
<1>12. Orderly(loaded) /\ Restacked(armed, loaded)
  <2> DEFINE u == [item |-> Ammo, qty |-> MagazineSize, inv |-> FittingStore(s), state |-> Charge(slot), marked |-> yes]
  <2>1. u.item = Ammo /\ u.qty = MagazineSize /\ u.inv = FittingStore(s) /\ u.state = Charge(slot)
    OBVIOUS
  <2>2. s \in DOMAIN armed.ships /\ MagazineSize \in Nat
    BY <1>4, <1>5, <1>10
  <2>3. Worn(armed.stacks, s, Charge(slot)) + MagazineSize <= MagazineSize
    BY <1>11, <2>2
  <2>4. Admits(armed.stacks, Homes(armed), u)
    <3> HIDE DEF u
    <3> QED BY <1>2, <1>10, <2>1, <2>2, <2>3, ChargeIsAdmitted
  <2>5. Orderly(armed)
    BY <1>8
  <2> DEFINE c == Add(armed, FittingStore(s), Ammo, MagazineSize, Charge(slot), yes)
  <2>6. Orderly(c) /\ Restacked(armed, c)
    BY <1>5, <1>10, <2>4, <2>5, AddIsOrderly, AddType
  <2> QED BY <2>6
<1>13. Gains(armed.stacks, loaded.stacks, FittingStore(s), Charge(slot), MagazineSize)
  <2> DEFINE c == Add(armed, FittingStore(s), Ammo, MagazineSize, Charge(slot), yes)
  <2>1. armed \in Assets
    BY <1>10
  <2>2. Gains(armed.stacks, c.stacks, FittingStore(s), Charge(slot), MagazineSize)
    BY <2>1, <1>5, AddGains
  <2> QED BY <2>2
<1> HIDE DEF loaded
<1>14. Armed(loaded.stacks)
  <2> SUFFICES ASSUME NEW x \in Ships, NEW other \in Slots, Worn(loaded.stacks, x, Charge(other)) > 0
               PROVE  Worn(loaded.stacks, x, Fitted(other)) > 0
    BY DEF Armed
  <2> DEFINE guns == Worn(owned.stacks, x, Fitted(other))
             more == Count(FittingStore(s), Fitted(slot), Fitted(other), x, 1)
             all == Worn(loaded.stacks, x, Fitted(other))
  <2>1. all = guns + more /\ guns \in Nat /\ more \in Nat
    <3>1. Count(FittingStore(s), Charge(slot), Fitted(other), x, MagazineSize) = 0
      BY CountsTell
    <3>2. Worn(armed.stacks, x, Fitted(other)) = guns + more /\ guns \in Nat
      BY <1>9 DEF Gains
    <3>3. all = Worn(armed.stacks, x, Fitted(other)) + 0
      BY <1>13, <3>1 DEF Gains
    <3>4. more \in Nat
      BY DEF Count
    <3> HIDE DEF guns, more, all
    <3> QED BY <3>2, <3>3, <3>4
  <2>2. CASE x = s /\ other = slot
    <3>1. more = 1
      BY <2>2, CountsTell
    <3> HIDE DEF guns, more, all
    <3>2. all > 0
      BY <2>1, <3>1
    <3> QED BY <3>2 DEF all
  <2>3. CASE ~(x = s /\ other = slot)
    <3>1. /\ Count(FittingStore(s), Charge(slot), Charge(other), x, MagazineSize) = 0
          /\ Count(FittingStore(s), Fitted(slot), Charge(other), x, 1) = 0
      BY <2>3, CountsTell
    <3>2. Worn(loaded.stacks, x, Charge(other)) = Worn(owned.stacks, x, Charge(other))
      <4>1. Worn(armed.stacks, x, Charge(other)) = Worn(owned.stacks, x, Charge(other))
        BY <1>9, <3>1 DEF Gains
      <4>2. Worn(loaded.stacks, x, Charge(other)) = Worn(armed.stacks, x, Charge(other))
        BY <1>9, <1>13, <3>1 DEF Gains
      <4> QED BY <4>1, <4>2
    <3>3. guns > 0
      BY <1>6, <3>2 DEF Neat, Armed
    <3> HIDE DEF guns, more, all
    <3>4. all > 0
      BY <2>1, <3>3
    <3> QED BY <3>4 DEF all
  <2> QED BY <2>2, <2>3
<1>15. b.stacks = loaded.stacks /\ b.ships = loaded.ships /\ b.wreck = loaded.wreck
  BY <1>1, <1>12, WithActive DEF Restacked
<1> HIDE DEF b
<1>16. Neat(loaded) /\ Homes(loaded) = Homes(b)
  BY <1>12, <1>14, <1>15 DEF Neat, Homes
<1>17. Neat(b)
  BY <1>15, <1>16, MoreHomes
<1> QED BY <1>3, <1>17

\* The recovery route leaves goods in order, whether it grants a ship or not.
LEMMA RouteIsNeat ==
  ASSUME NEW a \in Assets, DOMAIN a.ships # Ships \/ a.active # NoOne, Neat(a)
  PROVE  Neat(EnsureRecoveryRoute(a))
BY GrantIsNeat DEF EnsureRecoveryRoute

-----------------------------------------------------------------------------
(* A confirmed preview. *)

\* What is bought goes where the pilot may reach and where there is room.
LEMMA PlainAddIsNeat ==
  ASSUME NEW a \in Assets, Neat(a), NEW inv \in Places, inv \in Homes(a), ~Fitting(inv),
         NEW item \in Items, NEW q \in Nat \ {0}, Fits(a, inv, item, q), NEW marked \in BOOLEAN
  PROVE  Neat(Add(a, inv, item, q, Plain, marked))
<1> DEFINE u == [item |-> item, qty |-> q, inv |-> inv, state |-> Plain, marked |-> marked]
           b == Add(a, inv, item, q, Plain, marked)
<1>1. Plain \in States /\ Plain[1] # "fitted" /\ Plain[1] # "charge"
  BY StateCases
<1>2. u.item = item /\ u.qty = q /\ u.inv = inv /\ u.state = Plain
  OBVIOUS
<1>3. Admits(a.stacks, Homes(a), u)
  <2>1. inv[1] = "cargo" => Used(a.stacks, inv) + q * Volume[item] <= HoldCapacity
    BY VolumeIsWeight DEF Fits
  <2> HIDE DEF u
  <2>2. Welcome(Homes(a), u)
    BY <1>2, PlainIsElsewhere DEF Welcome, Fitting
  <2>3. Room(a.stacks, u)
    BY <1>1, <1>2, <2>1 DEF Room
  <2> QED BY <2>2, <2>3 DEF Admits
<1>4. Orderly(b)
  <2>1. Orderly(a)
    BY DEF Neat
  <2> QED BY <1>1, <1>3, <2>1, AddIsOrderly
<1>5. Gains(a.stacks, b.stacks, inv, Plain, q)
  BY <1>1, AddGains
<1> HIDE DEF b
<1>6. SameWear(a.stacks, b.stacks)
  <2> SUFFICES ASSUME NEW x \in Ships, NEW st PROVE Worn(b.stacks, x, st) = Worn(a.stacks, x, st)
    BY DEF SameWear
  <2>1. Count(inv, Plain, st, x, q) = 0
    BY CountsTell
  <2>2. /\ Worn(b.stacks, x, st) \in Nat /\ Worn(a.stacks, x, st) \in Nat
        /\ Worn(b.stacks, x, st) = Worn(a.stacks, x, st) + Count(inv, Plain, st, x, q)
    BY <1>5 DEF Gains
  <2> QED BY <2>1, <2>2
<1>7. Neat(b)
  BY <1>4, <1>6, SameIsArmed DEF Neat
<1> QED BY <1>7 DEF b

\* A purchase, with what the recovery route grants after it, leaves goods in
\* order.
LEMMA BuyIsNeat ==
  ASSUME NEW a, IsPlaced(a), ~a.out, Neat(a), NEW r, IsRequest(r), r.action = "market.buy",
         r.item = Hull => DOMAIN a.ships # Ships,
         r.item # Hull => r.inv \in Local(a) /\ Fits(a, r.inv, r.item, r.q)
  PROVE  Neat(ApplyBuy(a, r))
<1>1. a \in Assets
  BY DEF IsPlaced
<1>2. CASE r.item = Hull
  <2> DEFINE b == AddPurchasedHull(a)
  <2>1. b \in Assets /\ b.active # NoOne
    BY <1>1, <1>2, HullType
  <2>2. Neat(b)
    BY <1>1, <1>2, HullIsNeat
  <2>3. ApplyBuy(a, r) = EnsureRecoveryRoute(b)
    BY <1>2 DEF ApplyBuy
  <2> HIDE DEF b
  <2> QED BY <2>1, <2>2, <2>3, RouteIsNeat
<1>3. CASE r.item # Hull
  <2> PICK no \in BOOLEAN : no = FALSE
    OBVIOUS
  <2> DEFINE b == Add(a, r.inv, r.item, r.q, Plain, no)
  <2>1. r.inv \in Places /\ r.item \in Items /\ r.q \in Nat \ {0} /\ Plain \in States
    BY <1>3, DealTypes DEF IsRequest
  <2>2. Restacked(a, b)
    BY <1>1, <2>1, AddType
  <2>3. r.inv \in Homes(a) /\ ~Fitting(r.inv)
    BY <1>1, <1>3, LocalIsHome
  <2>4. Neat(b)
    BY <1>1, <1>3, <2>1, <2>3, PlainAddIsNeat
  <2>5. ApplyBuy(a, r) = EnsureRecoveryRoute(b)
    BY <1>3 DEF ApplyBuy
  <2> HIDE DEF b
  <2>6. b \in Assets /\ (DOMAIN b.ships # Ships \/ b.active # NoOne)
    BY <2>2, NotEveryShip DEF Restacked
  <2> QED BY <2>4, <2>5, <2>6, RouteIsNeat
<1> QED BY <1>2, <1>3

\* A confirmed preview leaves the goods in order.
LEMMA ConfirmedIsNeat ==
  ASSUME StationInv, Neat(assets), NEW r, IsRequest(r), IsAvailable(r),
         (r.action = "market.buy" /\ r.item = Hull) => DOMAIN assets.ships # Ships
  PROVE  Neat(ApplyConfirmed(r, Shown(r)))
<1> DEFINE c == Shown(r).credits
           a == Paid(assets, c)
           b == ApplyConfirmed(r, Shown(r))
<1>1. Offered(r) /\ (r.action # "market.sell" => c <= assets.credits)
  BY DEF IsAvailable
<1>2. c \in Nat /\ ~assets.out /\ assets \in Assets /\ IsServed(assets) /\ IsPlaced(assets)
  BY <1>1, ShownType, InvTypes DEF Offered, IsServed
<1> HIDE DEF c
<1>3. r.action # "market.sell" =>
        /\ a \in Assets /\ a.active = assets.active /\ a.out = assets.out
        /\ a.ships = assets.ships /\ a.stacks = assets.stacks /\ a.wreck = assets.wreck
  BY <1>1, <1>2, PaidType
<1> HIDE DEF a
<1>4. r.action # "market.sell" => IsPlaced(a) /\ ~a.out /\ Neat(a)
  <2>1. r.action # "market.sell" => Homes(assets) \subseteq Homes(a)
    BY <1>3 DEF Homes
  <2> QED BY <1>2, <1>3, <2>1, MoreHomes DEF IsPlaced
<1>5. CASE r.action = "market.buy"
  <2>1. b = ApplyBuy(a, r)
    BY <1>5 DEF ApplyConfirmed, a, c
  <2>2. r.item # Hull => r.inv \in Local(assets) /\ Fits(assets, r.inv, r.item, r.q)
    BY <1>1, <1>5 DEF Offered
  <2>3. Local(a) = Local(assets)
    BY <1>3, <1>5 DEF Local
  <2>4. \A inv, item, q : Fits(assets, inv, item, q) => Fits(a, inv, item, q)
    <3>1. \A inv : UsedVolume(a, inv) = UsedVolume(assets, inv)
      BY <1>2, <1>3, <1>5, VolumeIsWeight
    <3> QED BY <3>1 DEF Fits
  <2>5. r.item # Hull => r.inv \in Local(a) /\ Fits(a, r.inv, r.item, r.q)
    BY <2>2, <2>3, <2>4
  <2>6. r.item = Hull => DOMAIN a.ships # Ships
    BY <1>3, <1>5
  <2>7. Neat(ApplyBuy(a, r))
    BY <1>4, <1>5, <2>5, <2>6, BuyIsNeat
  <2> HIDE DEF b
  <2> QED BY <2>1, <2>7 DEF b
<1>6. CASE r.action = "market.sell"
  <2> DEFINE sold == Consume(assets, r.stack, r.q)
             v == assets.credits + c
             x == [sold EXCEPT !.credits = v]
  <2>1. /\ r.stack \in DOMAIN assets.stacks /\ r.q \in Nat \ {0}
        /\ r.q <= assets.stacks[r.stack].qty /\ assets.stacks[r.stack].state = Plain
    BY <1>1, <1>6, DealTypes DEF IsRequest, Offered
  <2>2. Restacked(assets, sold)
    BY <1>2, <2>1, ConsumeType
  <2>3. Neat(sold)
    <3>1. assets.stacks[r.stack].state[1] # "fitted"
      BY <2>1, StateCases
    <3>2. Orderly(assets) /\ Armed(assets.stacks)
      BY DEF Neat
    <3>3. Orderly(sold)
      BY <1>2, <2>1, <3>2, ConsumeIsOrderly
    <3>4. Armed(sold.stacks)
      BY <1>2, <2>1, <3>1, <3>2, ConsumeIsArmed
    <3> HIDE DEF sold
    <3> QED BY <3>3, <3>4 DEF Neat
  <2> HIDE DEF sold
  <2>4. v \in Nat /\ sold.credits = assets.credits
    BY <1>2, <2>2, AssetsType DEF Restacked
  <2>5. b = [sold EXCEPT !.credits = sold.credits + c]
    BY <1>6 DEF ApplyConfirmed, c, sold
  <2>6. b = x
    <3> HIDE DEF b
    <3> QED BY <2>4, <2>5
  <2> HIDE DEF v
  <2>7. x.stacks = sold.stacks /\ x.ships = sold.ships /\ x.wreck = sold.wreck
    BY <2>2, <2>4, WithCredits DEF Restacked
  <2> HIDE DEF x, b
  <2>8. Neat(x)
    <3>1. Homes(sold) \subseteq Homes(x)
      BY <2>7 DEF Homes
    <3> QED BY <2>3, <2>7, <3>1, MoreHomes
  <2> QED BY <2>6, <2>8 DEF b
<1>7. ASSUME r.action \in {"repair", "insurance.enhance", "resupply"}
      PROVE  r.ship \in DOMAIN a.ships
  <2>1. r.ship \in DOMAIN assets.ships
    BY <1>1, <1>7 DEF Offered
  <2> QED BY <1>3, <1>7, <2>1
<1>8. CASE r.action \in {"repair", "insurance.enhance"}
  <2>1. b = [a EXCEPT !.ships[r.ship].hurt = FALSE] \/ b = [a EXCEPT !.ships[r.ship].enhanced = TRUE]
    BY <1>8 DEF ApplyConfirmed, a, c
  <2> HIDE DEF b
  <2>2. \E v \in BOOLEAN :
          b = [a EXCEPT !.ships[r.ship].hurt = v] \/ b = [a EXCEPT !.ships[r.ship].enhanced = v]
    BY <2>1
  <2>3. DOMAIN b.ships = DOMAIN a.ships /\ b.wreck = a.wreck /\ b.stacks = a.stacks
    BY <1>3, <1>7, <1>8, <2>2, HurtType
  <2>4. Homes(a) \subseteq Homes(b)
    BY <2>3 DEF Homes
  <2>5. Neat(b)
    BY <1>4, <1>8, <2>3, <2>4, MoreHomes
  <2> QED BY <2>5 DEF b
<1>9. CASE r.action = "resupply"
  <2>1. b = ApplyResupply(a, r.ship)
    BY <1>9 DEF ApplyConfirmed, a, c
  <2>2. a \in Assets /\ r.ship \in DOMAIN a.ships /\ Orderly(a) /\ Armed(a.stacks)
    BY <1>3, <1>4, <1>7, <1>9 DEF Neat
  <2>3. Orderly(ApplyResupply(a, r.ship)) /\ Armed(ApplyResupply(a, r.ship).stacks)
    BY <2>2, ResupplyIsOrderly
  <2> HIDE DEF b
  <2>4. Neat(b)
    BY <2>1, <2>3 DEF Neat
  <2> QED BY <2>4 DEF b
<1> HIDE DEF b
<1>10. Neat(b)
  BY <1>5, <1>6, <1>8, <1>9 DEF IsRequest, b
<1> QED BY <1>10 DEF b

\* A preview is confirmed.
LEMMA ConfirmFits ==
  ASSUME FitInv, Confirm
  PROVE  Fit(assets', fitting')
<1> DEFINE r == held.request
           b == ApplyConfirmed(r, Shown(r))
<1>1. /\ held # NoOne /\ IsAvailable(r)
      /\ (r.action = "market.buy" /\ r.item = Hull) => DOMAIN assets.ships # Ships
      /\ assets' = b /\ fitting' = fitting
  BY DEF Confirm, TokenMatches
<1>2. StationInv /\ Neat(assets) /\ IsWhole(fitting)
  BY FitTypes DEF Neat
<1>3. IsRequest(r)
  BY <1>1, <1>2, HeldRequest
<1> HIDE DEF r
<1>4. Neat(b)
  BY <1>1, <1>2, <1>3, ConfirmedIsNeat
<1> HIDE DEF b
<1> QED BY <1>1, <1>2, <1>4 DEF Fit, Neat

-----------------------------------------------------------------------------
(* Ships that go. *)

\* A lost ship leaves its wreck, and no goods in its hold or its slots.
LEMMA LossIsNeat ==
  ASSUME NEW a, IsServed(a), a.out, Neat(a),
         NEW survivors, survivors \subseteq MaySurvive(a, a.active)
  PROVE  Neat(ResolveLoss(a, a.active, survivors))
<1> DEFINE s == a.active
           l == Bereft(a, s, survivors)
           b == ResolveLoss(a, s, survivors)
           homes == (Homes(a) \ {Hold(s), FittingStore(s)}) \cup {Wreck}
<1>1. a \in Assets /\ s \in DOMAIN a.ships /\ s # NoOne
  BY DEF IsServed, IsPlaced
<1>2. survivors \subseteq Carried(a, s)
  BY DEF MaySurvive
<1>3. b = IF RecoveryGrantDue(l) THEN GrantRecoveryShip(l) ELSE [l EXCEPT !.active = Replacement(l)]
  BY DEF ResolveLoss, Bereft
<1> HIDE DEF b, s
<1>4. /\ l \in Assets /\ l.active = NoOne /\ l.out = FALSE
      /\ DOMAIN l.ships = DOMAIN a.ships \ {s}
      /\ l.wreck = TRUE /\ l.stacks = SettledStacks(a, s, survivors)
  <2>1. LET x == Bereft(a, s, survivors)
        IN  /\ x \in Assets /\ x.active = NoOne /\ x.out = FALSE
            /\ x.credits = a.credits + Payout(a.ships[s])
            /\ DOMAIN x.ships = DOMAIN a.ships \ {s}
            /\ x.wreck = TRUE /\ x.stacks = SettledStacks(a, s, survivors)
    BY <1>1, BereftType
  <2> QED BY <2>1
<1> HIDE DEF l
<1>5. DOMAIN a.ships \subseteq Ships /\ DOMAIN l.ships # Ships
  <2>1. DOMAIN a.ships \subseteq Ships
    BY <1>1, AssetsType, FleetType
  <2> QED BY <1>1, <1>4, <2>1
<1>6. homes \subseteq Homes(l)
  BY <1>4, PlaceKinds DEF Homes
<1>7. Stowed(l.stacks, homes) /\ Armed(l.stacks)
  <2>1. Orderly(a) /\ Armed(a.stacks)
    BY DEF Neat
  <2> QED BY <1>1, <1>2, <1>4, <2>1, SettledIsStowed
<1> HIDE DEF homes
<1>8. Neat(l)
  BY <1>6, <1>7 DEF Neat, Orderly, Stowed, Tidy, Sorted
<1>9. CASE RecoveryGrantDue(l)
  <2>1. Neat(GrantRecoveryShip(l))
    BY <1>4, <1>5, <1>8, GrantIsNeat
  <2> QED BY <1>3, <1>9, <2>1 DEF b, s
<1>10. CASE ~RecoveryGrantDue(l)
  <2> DEFINE r == Replacement(l)
             c == [l EXCEPT !.active = r]
  <2>1. r \in Docked(l) \cup {NoOne}
    BY <1>4, ReplacementType
  <2>2. r \in Ships \cup {NoOne}
    BY <1>4, <1>5, <2>1 DEF Docked
  <2> HIDE DEF r
  <2>3. c.stacks = l.stacks /\ c.ships = l.ships /\ c.wreck = l.wreck
    BY <1>4, <2>2, WithActive
  <2>4. c = b
    BY <1>3, <1>10 DEF r
  <2> HIDE DEF c
  <2>5. Homes(l) \subseteq Homes(c)
    BY <2>3 DEF Homes
  <2>6. Neat(c)
    BY <1>8, <2>3, <2>5, MoreHomes
  <2> QED BY <2>4, <2>6 DEF b, s
<1> QED BY <1>9, <1>10

\* It is enough for a step to leave the goods neat and the plan as it was.
LEMMA NeatFits ==
  ASSUME FitInv
  PROVE  /\ StationInv /\ Neat(assets) /\ IsWhole(fitting)
         /\ \A b : Neat(b) /\ assets' = b /\ fitting' = fitting => Fit(assets', fitting')
BY FitTypes DEF Neat, Fit

\* A ship is lost.
LEMMA LossFits ==
  ASSUME FitInv, LoseShip
  PROVE  Fit(assets', fitting')
<1>1. PICK survivors \in SUBSET MaySurvive(assets, assets.active) :
        /\ assets.out /\ Adopt(ResolveLoss(assets, assets.active, survivors))
        /\ UNCHANGED <<market, fitting>>
  BY DEF LoseShip
<1>2. StationInv /\ Neat(assets)
  BY NeatFits
<1>3. IsServed(assets)
  BY <1>2, InvTypes
<1>4. Neat(ResolveLoss(assets, assets.active, survivors))
  BY <1>1, <1>2, <1>3, LossIsNeat
<1> QED BY <1>1, <1>4, NeatFits DEF Adopt

\* A wreck expires with what is in it.
LEMMA ExpiryFits ==
  ASSUME FitInv, WreckExpires
  PROVE  Fit(assets', fitting')
<1> DEFINE a == [assets EXCEPT !.wreck = FALSE]
           stacks == KeptStacks(assets)
           b == [a EXCEPT !.stacks = stacks]
<1>1. assets' = b /\ fitting' = fitting
  BY DEF WreckExpires, WithoutWreck, Adopt
<1>2. StationInv /\ Neat(assets)
  BY NeatFits
<1>3. assets \in Assets
  BY <1>2, InvTypes
<1>4. a \in Assets /\ a.wreck = FALSE /\ a.ships = assets.ships
  BY <1>3, WithWreck
<1>5. stacks \in Seq(Stacks)
  BY <1>3, KeptType
<1>6. Homes(assets) \ {Wreck} \subseteq Homes(a)
  BY <1>4 DEF Homes
<1>7. Stowed(stacks, Homes(a)) /\ SameWear(assets.stacks, stacks)
  BY <1>2, <1>3, <1>6, KeptIsStowed DEF Neat
<1> HIDE DEF a, stacks
<1>8. Restacked(a, b) /\ b.stacks = stacks
  BY <1>4, <1>5, OtherStacks
<1> HIDE DEF b
<1>9. Armed(stacks)
  BY <1>2, <1>7, SameIsArmed DEF Neat
<1>10. Neat(b)
  BY <1>7, <1>8, <1>9, HomesStay DEF Neat, Orderly
<1> QED BY <1>1, <1>10, NeatFits

\* Undocking, docking and a hit leave the goods where they are.
LEMMA FlightFits ==
  ASSUME FitInv, Undock \/ Dock \/ TakeDamage
  PROVE  Fit(assets', fitting')
<1>1. StationInv /\ Neat(assets)
  BY NeatFits
<1>2. assets \in Assets /\ IsServed(assets)
  BY <1>1, InvTypes
<1>3. ASSUME NEW b, b.stacks = assets.stacks, DOMAIN b.ships = DOMAIN assets.ships, b.wreck = assets.wreck,
             assets' = b, fitting' = fitting
      PROVE  Fit(assets', fitting')
  <2>1. Homes(assets) \subseteq Homes(b)
    BY <1>3 DEF Homes
  <2>2. Neat(b)
    BY <1>1, <1>3, <2>1, MoreHomes
  <2> QED BY <1>3, <2>2, NeatFits
<1>4. CASE Undock \/ Dock
  <2> PICK v \in BOOLEAN : assets' = [assets EXCEPT !.out = v] /\ fitting' = fitting
    BY <1>4 DEF Undock, Dock, Adopt
  <2> DEFINE b == [assets EXCEPT !.out = v]
  <2>1. b.stacks = assets.stacks /\ b.ships = assets.ships /\ b.wreck = assets.wreck
    BY <1>2, WithOut
  <2>2. assets' = b /\ fitting' = fitting
    OBVIOUS
  <2> HIDE DEF b
  <2> QED BY <1>3, <2>1, <2>2
<1>5. CASE TakeDamage
  <2> DEFINE s == assets.active
  <2>1. assets.out /\ assets' = [assets EXCEPT !.ships[s].hurt = TRUE] /\ fitting' = fitting
    BY <1>5 DEF TakeDamage, Adopt
  <2>2. s \in DOMAIN assets.ships
    BY <1>2, <2>1 DEF IsServed, IsPlaced
  <2> HIDE DEF s
  <2> PICK v \in BOOLEAN : v = TRUE
    OBVIOUS
  <2> DEFINE b == [assets EXCEPT !.ships[s].hurt = v]
  <2>3. b.stacks = assets.stacks /\ DOMAIN b.ships = DOMAIN assets.ships /\ b.wreck = assets.wreck
    BY <1>2, <2>2, HurtType
  <2>4. assets' = b
    BY <2>1
  <2> HIDE DEF b
  <2> QED BY <1>3, <2>1, <2>3, <2>4
<1> QED BY <1>4, <1>5

\* A plan never has a charge without its weapon.
LEMMA PlanFits ==
  ASSUME FitInv, BeginFitting \/ SetSlot \/ ClearSlot \/ RevertFitting
  PROVE  Fit(assets', fitting') /\ assets' = assets
<1>1. assets' = assets
  BY DEF BeginFitting, SetSlot, ClearSlot, RevertFitting
<1>2. Orderly(assets) /\ Armed(assets.stacks) /\ IsWhole(fitting) /\ assets \in Assets
  BY FitTypes
<1>3. ASSUME BeginFitting PROVE IsWhole(fitting')
  <2>1. PICK s \in DOMAIN assets.ships : fitting' = DraftFromFit(assets, s)
    BY <1>3 DEF BeginFitting
  <2>2. s \in Ships
    BY FitTypes
  <2>3. \A slot \in Slots : ChargeAt(assets, s, slot) # {} => slot \in FittedSlots(assets, s)
    BY <1>2, <2>2, LoadedIsWorn DEF Armed, FittedSlots
  <2>4. \A slot \in Slots : /\ fitting'.slots[slot].loaded <=> ChargeAt(assets, s, slot) # {}
                            /\ fitting'.slots[slot].weapon <=> slot \in FittedSlots(assets, s)
    BY <2>1 DEF DraftFromFit, Planned
  <2> QED BY <2>3, <2>4 DEF IsWhole
<1>4. ASSUME fitting # NoOne, NEW k \in Slots, NEW plan, plan.loaded => plan.weapon,
             fitting' = [fitting EXCEPT !.slots[k] = plan]
      PROVE  IsWhole(fitting')
  <2>1. fitting \in Drafts
    BY <1>4, FitTypes DEF StationInv, StationTypes
  <2> DEFINE slots == [fitting.slots EXCEPT ![k] = plan]
  <2>2. fitting'.slots = slots
    BY <1>4, <2>1 DEF Drafts
  <2>3. \A slot \in Slots : slots[slot] = IF slot = k THEN plan ELSE fitting.slots[slot]
    BY <2>1 DEF Drafts
  <2> HIDE DEF slots
  <2> QED BY <1>2, <1>4, <2>2, <2>3 DEF IsWhole
<1>5. \A loaded : Planned(TRUE, loaded).loaded => Planned(TRUE, loaded).weapon
  BY DEF Planned
<1>6. Planned(FALSE, FALSE).loaded => Planned(FALSE, FALSE).weapon
  BY DEF Planned
<1>7. ASSUME SetSlot PROVE IsWhole(fitting')
  BY <1>4, <1>5, <1>7 DEF SetSlot
<1>8. ASSUME ClearSlot PROVE IsWhole(fitting')
  BY <1>4, <1>6, <1>8 DEF ClearSlot
<1>9. ASSUME RevertFitting PROVE IsWhole(fitting')
  BY <1>9 DEF RevertFitting, IsWhole
<1>10. IsWhole(fitting')
  BY <1>3, <1>7, <1>8, <1>9
<1> QED BY <1>1, <1>2, <1>10 DEF Fit

-----------------------------------------------------------------------------
(* A new campaign. *)

\* The goods of a new campaign are in order.
LEMMA FirstGoodsAreTidy ==
  ASSUME NEW s \in Ships, NEW slot \in Slots, NEW stacks \in Seq(Stacks), NEW homes,
         Len(stacks) = 4, {Hangar, Hold(s), FittingStore(s)} \subseteq homes,
         stacks[1].inv = Hangar, stacks[1].state = Plain,
         stacks[2].inv = Hold(s), stacks[2].state = Plain,
         stacks[3].item = Gun, stacks[3].inv = FittingStore(s), stacks[3].state = Fitted(slot),
         stacks[4].item = Ammo, stacks[4].inv = FittingStore(s), stacks[4].state = Charge(slot)
  PROVE  Tidy(stacks, homes)
<1>1. DOMAIN stacks = {1, 2, 3, 4}
  OBVIOUS
<1>2. /\ Hangar[1] # "fitting" /\ Hold(s)[1] # "fitting" /\ FittingStore(s)[1] = "fitting"
      /\ Fitted(slot)[1] = "fitted" /\ Charge(slot)[1] = "charge"
      /\ Fitted(slot) # Plain /\ Charge(slot) # Plain /\ Fitted(slot) # Charge(slot)
  BY StateCases, PlaceKinds
<1>3. Sorted(stacks, homes)
  <2>1. stacks[1].inv \in homes /\ Belongs(stacks[1].item, stacks[1].inv, stacks[1].state)
    BY <1>2, PlainIsElsewhere
  <2>2. stacks[2].inv \in homes /\ Belongs(stacks[2].item, stacks[2].inv, stacks[2].state)
    BY <1>2, PlainIsElsewhere
  <2>3. stacks[3].inv \in homes /\ Belongs(stacks[3].item, stacks[3].inv, stacks[3].state)
    BY <1>2 DEF Belongs
  <2>4. stacks[4].inv \in homes /\ Belongs(stacks[4].item, stacks[4].inv, stacks[4].state)
    BY <1>2 DEF Belongs
  <2> QED BY <1>1, <2>1, <2>2, <2>3, <2>4 DEF Sorted
<1>4. Apart(stacks)
  <2> SUFFICES ASSUME NEW i \in {1, 2, 3, 4}, NEW j \in {1, 2, 3, 4},
                      stacks[i].inv = stacks[j].inv, stacks[i].state = stacks[j].state, stacks[i].state # Plain
               PROVE  i = j
    BY <1>1 DEF Apart
  <2>1. i \in {3, 4} /\ j \in {3, 4}
    OBVIOUS
  <2> QED BY <1>2, <2>1
<1> QED BY <1>3, <1>4 DEF Tidy

\* The one stack among others that counts, or none.
LEMMA FirstGoodsWeigh ==
  ASSUME NEW stacks \in Seq(Stacks), NEW K, NEW i \in DOMAIN stacks,
         \A j \in DOMAIN stacks : Kind(stacks[j]) \in K => j = i
  PROVE  Weigh(stacks, K) = IF Kind(stacks[i]) \in K THEN stacks[i].qty ELSE 0
<1>1. CASE Kind(stacks[i]) \in K
  BY <1>1, OnlyOneWeighs
<1>2. CASE Kind(stacks[i]) \notin K
  <2>1. \A j \in DOMAIN stacks : Kind(stacks[j]) \notin K
    BY <1>2
  <2> QED BY <1>2, <2>1, NothingWeighs
<1> QED BY <1>1, <1>2

\* The goods of a new campaign are stowed, and its weapon comes with its charge.
LEMMA FirstGoodsAreNeat ==
  ASSUME NEW s \in Ships, NEW slot \in Slots, NEW a, NEW stacks \in Seq(Stacks), a.stacks = stacks,
         Len(stacks) = 4, {Hangar, Hold(s), FittingStore(s)} \subseteq Homes(a),
         stacks[1].item = Gun, stacks[1].inv = Hangar, stacks[1].state = Plain,
         stacks[2].item = Ammo, stacks[2].qty = 1, stacks[2].inv = Hold(s), stacks[2].state = Plain,
         stacks[3].item = Gun, stacks[3].qty = 1, stacks[3].inv = FittingStore(s),
         stacks[3].state = Fitted(slot),
         stacks[4].item = Ammo, stacks[4].qty = MagazineSize, stacks[4].inv = FittingStore(s),
         stacks[4].state = Charge(slot)
  PROVE  Neat(a)
<1>1. DOMAIN stacks = {1, 2, 3, 4} /\ \A i \in {1, 2, 3, 4} : stacks[i] \in Stacks
  <2>1. DOMAIN stacks = {1, 2, 3, 4}
    OBVIOUS
  <2>2. \A i \in 1..Len(stacks) : stacks[i] \in Stacks
    BY ElementOfSeq
  <2> QED BY <2>1, <2>2
<1>2. Tidy(stacks, Homes(a))
  BY FirstGoodsAreTidy
<1>3. /\ \A slot1, slot2 : Fitted(slot1) # Charge(slot2)
      /\ \A k : Fitted(k) # Plain /\ Charge(k) # Plain
      /\ \A x, y : Hold(x) # FittingStore(y) /\ Hold(x) # Hangar /\ FittingStore(x) # Hangar
      /\ \A x, y : (Hold(x) = Hold(y) => x = y) /\ (FittingStore(x) = FittingStore(y) => x = y)
      /\ Gun # Ammo
  BY StateCases, PlaceKinds, VolumeType
<1>4. ASSUME NEW x, NEW k
      PROVE  /\ Worn(stacks, x, Fitted(k)) = IF x = s /\ Fitted(k) = Fitted(slot) THEN 1 ELSE 0
             /\ Worn(stacks, x, Charge(k)) = IF x = s /\ Charge(k) = Charge(slot) THEN MagazineSize ELSE 0
  <2>1. \A j \in {1, 2, 3, 4} : \A st : Kind(stacks[j]) \in At(FittingStore(x), st) <=>
                                      stacks[j].inv = FittingStore(x) /\ stacks[j].state = st
    BY <1>1, KindAt
  <2>2. /\ \A j \in {1, 2, 3, 4} : Kind(stacks[j]) \in At(FittingStore(x), Fitted(k)) => j = 3
        /\ Kind(stacks[3]) \in At(FittingStore(x), Fitted(k)) <=> x = s /\ Fitted(k) = Fitted(slot)
    BY <1>3, <2>1
  <2>3. /\ \A j \in {1, 2, 3, 4} : Kind(stacks[j]) \in At(FittingStore(x), Charge(k)) => j = 4
        /\ Kind(stacks[4]) \in At(FittingStore(x), Charge(k)) <=> x = s /\ Charge(k) = Charge(slot)
    BY <1>3, <2>1
  <2>4. Worn(stacks, x, Fitted(k)) = IF x = s /\ Fitted(k) = Fitted(slot) THEN 1 ELSE 0
    BY <1>1, <2>2, FirstGoodsWeigh DEF Worn
  <2>5. Worn(stacks, x, Charge(k)) = IF x = s /\ Charge(k) = Charge(slot) THEN MagazineSize ELSE 0
    BY <1>1, <2>3, FirstGoodsWeigh DEF Worn
  <2> QED BY <2>4, <2>5
<1>5. Sized(stacks)
  BY <1>4, VolumeType DEF Sized
<1>6. Armed(stacks)
  <2> SUFFICES ASSUME NEW x \in Ships, NEW k \in Slots, Worn(stacks, x, Charge(k)) > 0
               PROVE  Worn(stacks, x, Fitted(k)) > 0
    BY DEF Armed
  <2>1. x = s /\ Charge(k) = Charge(slot)
    BY <1>4
  <2>2. Fitted(k) = Fitted(slot)
    BY <2>1 DEF Charge
  <2> QED BY <1>4, <2>1, <2>2
<1>7. Roomy(stacks)
  <2> SUFFICES ASSUME NEW x \in Ships PROVE Used(stacks, Hold(x)) <= HoldCapacity
    BY DEF Roomy
  <2>1. \A j \in {1, 2, 3, 4} : \A item : Kind(stacks[j]) \in InStore(item, Hold(x)) <=>
                                        stacks[j].item = item /\ stacks[j].inv = Hold(x)
    BY <1>1, KindAt
  <2>2. /\ \A j \in {1, 2, 3, 4} : \A item : Kind(stacks[j]) \in InStore(item, Hold(x)) => j = 2
        /\ Kind(stacks[2]) \notin InStore(Gun, Hold(x))
    BY <1>3, <2>1
  <2>3. Weigh(stacks, InStore(Gun, Hold(x))) = 0
    BY <1>1, <2>2, FirstGoodsWeigh
  <2>4. Weigh(stacks, InStore(Ammo, Hold(x))) \in {0, 1}
    BY <1>1, <2>2, FirstGoodsWeigh
  <2>5. Volume[Gun] \in Nat /\ Volume[Ammo] \in Nat /\ HoldCapacity \in Nat /\ Volume[Ammo] <= HoldCapacity
    BY VolumeType, StartAssumption
  <2> DEFINE m == Weigh(stacks, InStore(Gun, Hold(x)))
             n == Weigh(stacks, InStore(Ammo, Hold(x)))
             v == Volume[Gun]
             w == Volume[Ammo]
  <2>6. Used(stacks, Hold(x)) = v * m + w * n
    BY DEF Used
  <2>7. m = 0 /\ (n = 0 \/ n = 1) /\ v \in Nat /\ w \in Nat /\ HoldCapacity \in Nat /\ w <= HoldCapacity
    BY <2>3, <2>4, <2>5
  <2> HIDE DEF m, n, v, w
  <2>8. v * m + w * n <= HoldCapacity
    BY <2>7
  <2> QED BY <2>6, <2>8
<1> QED BY <1>2, <1>5, <1>6, <1>7 DEF Neat, Orderly, Stowed

\* A new campaign starts in order.
LEMMA StartFits ==
  ASSUME Init
  PROVE  FitInv
<1> DEFINE s == Min(Ships)
           slot == Min(Slots)
           stack(item, qty, inv, state) ==
             [item |-> item, qty |-> qty, inv |-> inv, state |-> state, marked |-> FALSE]
           stacks == <<stack(Gun, 1, Hangar, Plain), stack(Ammo, 1, Hold(s), Plain),
                       stack(Gun, 1, FittingStore(s), Fitted(slot)),
                       stack(Ammo, MagazineSize, FittingStore(s), Charge(slot))>>
<1>1. /\ assets.stacks = stacks /\ assets.ships = [x \in {s} |-> NewShip(FALSE)] /\ fitting = NoOne
  BY DEF Init
<1>2. StationInv
  BY StartIsSound
<1>3. s \in Ships /\ slot \in Slots
  <2>1. s \in Ships
    BY MinOfNaturals, StationAssumption
  <2>2. slot \in Slots
    BY SlotsAreCounted, StationAssumption, MinOfNaturals
  <2> QED BY <2>1, <2>2
<1>4. {Hangar, Hold(s), FittingStore(s)} \subseteq Homes(assets)
  BY <1>1 DEF Homes
<1> HIDE DEF s, slot
<1>5. stacks \in Seq(Stacks)
  <2> HIDE DEF stacks
  <2> QED BY <1>1, <1>2, InvTypes
<1>6. Neat(assets)
  <2>1. /\ Len(stacks) = 4
        /\ stacks[1].item = Gun /\ stacks[1].inv = Hangar /\ stacks[1].state = Plain
        /\ stacks[2].item = Ammo /\ stacks[2].qty = 1 /\ stacks[2].inv = Hold(s) /\ stacks[2].state = Plain
        /\ stacks[3].item = Gun /\ stacks[3].qty = 1 /\ stacks[3].inv = FittingStore(s)
        /\ stacks[3].state = Fitted(slot)
        /\ stacks[4].item = Ammo /\ stacks[4].qty = MagazineSize /\ stacks[4].inv = FittingStore(s)
        /\ stacks[4].state = Charge(slot)
    OBVIOUS
  <2> HIDE DEF stacks
  <2> QED BY <1>1, <1>3, <1>4, <1>5, <2>1, FirstGoodsAreNeat
<1>7. IsWhole(fitting)
  BY <1>1 DEF IsWhole
<1> QED BY <1>2, <1>6, <1>7 DEF FitInv, Fit, Neat

-----------------------------------------------------------------------------
(* The invariant. *)

\* Every step keeps the goods in order.
LEMMA StepFits ==
  ASSUME FitInv, [Next]_vars
  PROVE  FitInv'
<1>1. StationInv'
  BY StepIsSound, FitTypes
<1>2. Fit(assets', fitting')
  <2>1. CASE Transfer  BY <2>1, TransferFits
  <2>2. CASE SplitStack  BY <2>2, SplitFits
  <2>3. CASE MergeStacks  BY <2>3, MergeFits
  <2>4. CASE AskPreview \/ ConfirmStale \/ EconomyHour \/ UNCHANGED vars
    <3>1. assets' = assets /\ fitting' = fitting
      BY <2>4 DEF AskPreview, ConfirmStale, EconomyHour, vars
    <3> QED BY <3>1 DEF FitInv
  <2>5. CASE Confirm  BY <2>5, ConfirmFits
  <2>6. CASE BeginFitting \/ SetSlot \/ ClearSlot \/ RevertFitting  BY <2>6, PlanFits
  <2>7. CASE CommitFitting  BY <2>7, CommitFits
  <2>8. CASE Undock \/ Dock \/ TakeDamage  BY <2>8, FlightFits
  <2>9. CASE Fire  BY <2>9, FireFits
  <2>10. CASE Reload  BY <2>10, ReloadFits
  <2>11. CASE TakeLoot  BY <2>11, LootFits
  <2>12. CASE WreckExpires  BY <2>12, ExpiryFits
  <2>13. CASE LoseShip  BY <2>13, LossFits
  <2> QED BY <2>1, <2>2, <2>3, <2>4, <2>5, <2>6, <2>7, <2>8, <2>9, <2>10, <2>11, <2>12, <2>13 DEF Next
<1> QED BY <1>1, <1>2 DEF FitInv

\* A slot has one stack of a state, or none.
IsCounted(T) == Cardinality(T) = IF T = {} THEN 0 ELSE 1

LEMMA SlotHoldsOne ==
  ASSUME NEW a \in Assets, Orderly(a), NEW s, NEW st, st # Plain,
         NEW T, \A i \in T : i \in DOMAIN a.stacks /\ a.stacks[i].inv = FittingStore(s) /\ a.stacks[i].state = st
  PROVE  IsCounted(T)
<1>1. ASSUME NEW i \in T, NEW j \in T PROVE i = j
  BY DEF Orderly, Stowed, Tidy, Apart
<1>2. CASE T = {}
  BY <1>2, FS_EmptySet DEF IsCounted
<1>3. CASE T # {}
  <2>1. PICK i : T = {i}
    BY <1>1, <1>3
  <2> QED BY <1>3, <2>1, FS_Singleton DEF IsCounted
<1> QED BY <1>2, <1>3

\* Goods in order are what the save check accepts.
LEMMA FitIsConsistent ==
  ASSUME FitInv
  PROVE  AssetsConsistent
<1>1. /\ StationInv /\ assets \in Assets /\ Orderly(assets) /\ Armed(assets.stacks)
      /\ DOMAIN assets.ships \subseteq Ships /\ assets.stacks \in Seq(Stacks)
  BY FitTypes, AssetsType
<1>2. PilotIsPlaced
  BY <1>1 DEF StationInv
<1>3. ASSUME NEW i \in DOMAIN assets.stacks
      PROVE  LET s == assets.stacks[i]
             IN  /\ s.qty > 0
                 /\ s.inv \in {Hangar} \cup {Hold(x) : x \in DOMAIN assets.ships}
                              \cup {FittingStore(x) : x \in DOMAIN assets.ships}
                              \cup (IF assets.wreck THEN {Wreck} ELSE {})
                 /\ s.inv[1] = "fitting" <=> s.state # Plain
                 /\ s.state[1] = "fitted" => s.qty = 1 /\ s.item = Gun
                 /\ s.state[1] = "charge" => s.qty <= MagazineSize /\ s.item = Ammo
  <2> DEFINE s == assets.stacks[i]
  <2>1. s \in Stacks /\ s.qty \in Nat \ {0} /\ s.state \in States /\ s.inv \in Homes(assets)
    BY <1>1, StackType DEF Orderly, Stowed, Tidy, Sorted
  <2>2. Belongs(s.item, s.inv, s.state)
    BY <1>1 DEF Orderly, Stowed, Tidy, Sorted
  <2>3. ASSUME s.state # Plain
        PROVE  \E x \in Ships : s.inv = FittingStore(x) /\ s.qty <= Worn(assets.stacks, x, s.state)
    <3>1. PICK x \in Ships : s.inv = FittingStore(x)
      BY <1>1, <2>1, <2>2, <2>3, PlaceKinds DEF Belongs, Homes
    <3>2. Kind(s) \in At(FittingStore(x), s.state)
      BY <2>1, <3>1, KindAt
    <3>3. Weight(s, At(FittingStore(x), s.state)) <= Weigh(assets.stacks, At(FittingStore(x), s.state))
      BY <1>1, StackWeighs
    <3> HIDE DEF s
    <3>4. s.qty <= Worn(assets.stacks, x, s.state)
      BY <3>2, <3>3 DEF Weight, Worn
    <3> QED BY <3>1, <3>4
  <2> HIDE DEF s
  <2>4. ASSUME NEW x \in Ships, NEW st PROVE Worn(assets.stacks, x, st) \in Nat
    BY <1>1, WeighType DEF Worn
  <2>5. Sized(assets.stacks)
    BY <1>1 DEF Orderly, Stowed
  <2>6. ASSUME s.state[1] = "fitted" PROVE s.qty = 1 /\ s.item = Gun
    <3>1. PICK slot \in Slots : s.state = Fitted(slot)
      BY <2>1, <2>6, StateCases
    <3>2. PICK x \in Ships : s.qty <= Worn(assets.stacks, x, Fitted(slot))
      BY <2>3, <3>1, StateCases
    <3>3. Worn(assets.stacks, x, Fitted(slot)) <= 1 /\ Worn(assets.stacks, x, Fitted(slot)) \in Nat
      BY <2>4, <2>5 DEF Sized
    <3>4. s.qty = 1
      BY <2>1, <3>2, <3>3
    <3> QED BY <2>2, <2>6, <3>4 DEF Belongs
  <2>7. ASSUME s.state[1] = "charge" PROVE s.qty <= MagazineSize /\ s.item = Ammo
    <3>1. PICK slot \in Slots : s.state = Charge(slot)
      BY <2>1, <2>7, StateCases
    <3>2. PICK x \in Ships : s.qty <= Worn(assets.stacks, x, Charge(slot))
      BY <2>3, <3>1, StateCases
    <3>3. Worn(assets.stacks, x, Charge(slot)) <= MagazineSize /\ Worn(assets.stacks, x, Charge(slot)) \in Nat
      BY <2>4, <2>5 DEF Sized
    <3>4. s.qty <= MagazineSize
      BY <2>1, <3>2, <3>3, VolumeType
    <3> QED BY <2>2, <2>7, <3>4 DEF Belongs
  <2>8. s.qty > 0 /\ (s.inv[1] = "fitting" <=> s.state # Plain)
    BY <2>1, <2>2 DEF Belongs
  <2> QED BY <2>1, <2>6, <2>7, <2>8 DEF Homes, s
<1>4. ASSUME NEW s \in DOMAIN assets.ships
      PROVE  UsedVolume(assets, Hold(s)) <= HoldCapacity
  BY <1>1, VolumeIsWeight DEF Orderly, Stowed, Roomy
<1>5. ASSUME NEW s \in DOMAIN assets.ships, NEW slot \in Slots
      PROVE  /\ Cardinality(ModuleAt(assets, s, slot)) <= 1
             /\ Cardinality(ChargeAt(assets, s, slot)) <= Cardinality(ModuleAt(assets, s, slot))
  <2>1. Fitted(slot) # Plain /\ Charge(slot) # Plain /\ s \in Ships
    BY <1>1, StateCases
  <2>2. Cardinality(ModuleAt(assets, s, slot)) = IF ModuleAt(assets, s, slot) = {} THEN 0 ELSE 1
    <3> DEFINE T == ModuleAt(assets, s, slot)
               st == Fitted(slot)
    <3>1. \A i \in T : /\ i \in DOMAIN assets.stacks /\ assets.stacks[i].inv = FittingStore(s)
                      /\ assets.stacks[i].state = st
      BY DEF ModuleAt, StacksIn
    <3>2. st # Plain
      BY <2>1
    <3> HIDE DEF T, st
    <3>3. IsCounted(T)
      BY <1>1, <3>1, <3>2, SlotHoldsOne
    <3> QED BY <3>3 DEF T, IsCounted
  <2>3. Cardinality(ChargeAt(assets, s, slot)) = IF ChargeAt(assets, s, slot) = {} THEN 0 ELSE 1
    <3> DEFINE T == ChargeAt(assets, s, slot)
               st == Charge(slot)
    <3>1. \A i \in T : /\ i \in DOMAIN assets.stacks /\ assets.stacks[i].inv = FittingStore(s)
                      /\ assets.stacks[i].state = st
      BY DEF ChargeAt, StacksIn
    <3>2. st # Plain
      BY <2>1
    <3> HIDE DEF T, st
    <3>3. IsCounted(T)
      BY <1>1, <3>1, <3>2, SlotHoldsOne
    <3> QED BY <3>3 DEF T, IsCounted
  <2>4. ChargeAt(assets, s, slot) # {} => ModuleAt(assets, s, slot) # {}
    BY <1>1, <2>1, LoadedIsWorn DEF Armed
  <2> QED BY <2>2, <2>3, <2>4
<1> QED BY <1>2, <1>3, <1>4, <1>5 DEF AssetsConsistent

\* What is stored stays what the save check accepts, whatever the pilot buys,
\* moves, fits, fires, loses and is granted: every stack lies where it may, a
\* slot has one module and no charge without it, no magazine is over its size
\* and no hold over its capacity.
THEOREM AssetsStayConsistent == Spec => []AssetsConsistent
<1>1. Init => FitInv
  BY StartFits
<1>2. FitInv /\ [Next]_vars => FitInv'
  BY StepFits
<1>3. FitInv => AssetsConsistent
  BY FitIsConsistent
<1> QED BY <1>1, <1>2, <1>3, PTL DEF Spec

\* A draft ends when it is dropped, and nothing changes, or when it is what the
\* ship then wears, slot by slot: no commit fits one part of a plan and not the
\* other.
THEOREM FitsStayAsPlanned == Spec => FitsAsPlanned
<1> DEFINE Kept ==
      (fitting # NoOne /\ fitting' = NoOne /\ assets' # assets) =>
        \A slot \in Slots :
          /\ (ModuleAt(assets', fitting.ship, slot) # {}) <=> fitting.slots[slot].weapon
          /\ (ChargeAt(assets', fitting.ship, slot) # {}) <=> fitting.slots[slot].loaded
<1>1. ASSUME FitInv, [Next]_vars, fitting # NoOne, fitting' = NoOne, assets' # assets
      PROVE  Kept
  <2>1. CASE CommitFitting
    <3>1. AsPlanned(assets', fitting)
      BY <1>1, <2>1, CommitFits
    <3> QED BY <3>1 DEF AsPlanned
  <2>2. CASE ~CommitFitting
    <3>1. fitting' = fitting \/ assets' = assets
      BY <1>1, <2>2 DEF Next, vars, Transfer, SplitStack, MergeStacks, AskPreview, Confirm, ConfirmStale,
                        BeginFitting, SetSlot, ClearSlot, RevertFitting, EconomyHour, Undock, Dock,
                        TakeDamage, Fire, Reload, TakeLoot, WreckExpires, LoseShip
    <3> QED BY <1>1, <3>1
  <2> QED BY <2>1, <2>2
<1>2. FitInv /\ [Next]_vars => [Kept]_vars
  BY <1>1
<1>3. [][Kept]_vars => FitsAsPlanned
  BY PTL DEF FitsAsPlanned
<1>4. Init => FitInv
  BY StartFits
<1>5. FitInv /\ [Next]_vars => FitInv'
  BY StepFits
<1> QED BY <1>2, <1>3, <1>4, <1>5, PTL DEF Spec

================================================================================
