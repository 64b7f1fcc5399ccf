CONSTANTS
  p1 = p1
  p2 = p2
  n1 = n1
  n2 = n2
  w1 = w1
  w2 = w2
  NoOne = NoOne
  Station = Station
  Home = Home
  Field = Field
  PlayerShips = {p1}
  NpcShips = {n1, n2}
  Wrecks = {w1, w2}
  Ammo = {1, 2}
  Armed = {p1}
  Equipped = {}
  MagazineSize = 2
  CargoSize = 2
  MaxLocks = 1
  LockTime = 1
  GraceTime = 0
  CycleTime = 1
  ModuleTime = 1
  ReloadTime = 1
  NpcCount = 2
  NpcLoadout <- MCNpcLoadout
  DecisionTime = 9
  NpcWreckLife = 4
  WarpPreparation = 1
  TransitTime = 1
  DockDuration = 1
  PlayerWreckLife = 2
  RecoveryLoadout <- FullMagazine
  Quantum = 1
  Loadout <- FullMagazine
  Loot <- MCLoot
  Sessions <- PlunderOnly
SPECIFICATION Spec
INVARIANT NoAdvanceIsAbandoned
