CONSTANTS
  gun = gun
  ammo = ammo
  hull = hull
  NoOne = NoOne
  Items = {gun, ammo}
  Gun = gun
  Ammo = ammo
  Hull = hull
  Slots = {1, 2}
  Ships = {1, 2}
  Volume <- MCVolume
  Listing <- MCListing
  HoldCapacity = 2
  InitialStock = 1
  MagazineSize = 2
  PowerLimit = 1
  RepairPrice = 1
  Premium = 2
  BasicPayout = 3
  EnhancedPayout = 7
  StarterValue = 17
  StartingCredits = 13
  MaxUnits <- MCMaxUnits
  MaxStacks = 5
  DealSizes = {1, 2}
  Sessions <- MCSessions
SPECIFICATION Spec
INVARIANT AssetsConsistent
INVARIANT RecoveryRouteStaysOpen
INVARIANT QuotesAreFair
PROPERTY ConfirmedAsShown
PROPERTY UnitsAreConserved
PROPERTY GrantsBringNoValue
PROPERTY FitsAsPlanned
CHECK_DEADLOCK FALSE
