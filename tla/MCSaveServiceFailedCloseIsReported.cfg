SPECIFICATION Spec
CONSTANTS
  c1 = c1
  c2 = c2
  Campaigns <- MCCampaigns
  NoCampaign = NoCampaign
  NoSave = NoSave
  Autosaves = 2
  ManualSaves = 1
  Lightweight = TRUE
  MaxRevision = 3
  MaxCaptures = 5
  MaxFaults = 2
SYMMETRY CampaignSymmetry
PROPERTY FailedCloseIsReported
