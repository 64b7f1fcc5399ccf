CONSTANTS
  Nothing = Nothing
  SettleAttempts = 2
  AutosaveInterval = 1
  Subjects = {x, y}
  ActiveShip = ActiveShip
  Scenes <- MCScenes
  MaxPresses <- MCMaxPresses
  MaxChanges <- MCMaxChanges
  MaxHours = 1
  MaxTimeouts = 1
SPECIFICATION FrontSpec
INVARIANTS
  InterfaceTellsWhatIsHeld
  PaidAsShown
  DialogTellsItsOwn
  NothingWaitsInVain
CHECK_DEADLOCK FALSE
