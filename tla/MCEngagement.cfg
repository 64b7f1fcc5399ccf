CONSTANTS
  p1 = p1
  p2 = p2
  n1 = n1
  n2 = n2
  w1 = w1
  w2 = w2
  NoOne = NoOne
  Station = Station
  Home = Home
  Field = Field
  PlayerShips = {p1, p2}
  NpcShips = {n1}
  Wrecks = {w1, w2}
  Ammo = {1, 2}
  Armed = {p1, p2, n1}
  Equipped = {p1, p2}
  MagazineSize = 1
  CargoSize = 2
  MaxLocks = 1
  LockTime = 1
  GraceTime = 1
  CycleTime = 2
  ModuleTime = 2
  ReloadTime = 2
  NpcCount = 1
  NpcLoadout <- MCNpcLoadout
  DecisionTime = 1
  NpcWreckLife = 2
  WarpPreparation = 1
  TransitTime = 1
  DockDuration = 1
  PlayerWreckLife = 2
  RecoveryLoadout <- MCLoadout
  Quantum = 1
  Loadout <- MCLoadout
  Loot <- MCLoot
  Sessions <- MCSessions
SPECIFICATION Spec
INVARIANT CampaignIsValid
INVARIANT ViewsAreTrue
INVARIANT RoundIsReserved
INVARIANT DestructionIsSettled
PROPERTY DeathsAreFair
