SPECIFICATION FairSpec
CONSTANTS
  c1 = c1
  c2 = c2
  Campaigns <- MCCampaigns
  NoCampaign = NoCampaign
  NoSave = NoSave
  Autosaves = 2
  ManualSaves = 1
  Lightweight = TRUE
  MaxRevision = 2
  MaxCaptures = 5
  MaxFaults = 1
INVARIANTS
  SlotIsSound
  SequenceOrdersCaptures
PROPERTIES
  NewestSurvivesRotation
  SlotFollowsSession
  CloseIsDurableWithoutFaults
  HostIsAnswered
