SPECIFICATION Spec
CONSTANTS
  InitialContent <- MCContentPack
  NoContent = NoContent
  NoCampaign = NoCampaign
  EditsOf <- MCEdits
  Ids <- MCIds
  MaxEdits = 1
  MaxMoves = 3
INVARIANTS
  NewPilotIsReady
  ShiplessCanFlyAgain
  EveryFightCanBegin
  SavesReload
  GuidanceCanBeFinished
CHECK_DEADLOCK FALSE
