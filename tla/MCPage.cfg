CONSTANTS
  Nothing = Nothing
  NoShip = NoShip
  Ship = Ship
  Authored <- MCAuthored
  Steps <- MCSteps
  Happenings <- MCHappenings
  Duration <- MCDuration
  Engagements <- MCEngagements
  HistoryLimit = 3
  SiteMemory = 2
  CueSpacing = 2
  MaxToasts = 2
  MaxRaises <- MCMaxRaises
  MaxAge <- MCMaxAge
  MaxTime = 3
  MaxOpens = 3
  Characters <- MCCharacters
  LowerCase <- MCLowerCase
  Services = {"market"}
  ModuleCount = 1
  Documents <- MCDocuments
  Presses <- MCPresses
  Editable <- MCEditable
  MaxChanges = 3
SPECIFICATION Spec
CHECK_DEADLOCK FALSE
INVARIANT LogTellsWhatHappened
INVARIANT GuidanceKeepsUp
INVARIANT NothingIsMissed
INVARIANT NoToastOverstays
INVARIANT KeysFollowThePlayer
PROPERTY UrgentIsHeard
