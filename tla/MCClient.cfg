CONSTANTS
  Nothing = Nothing
  Engagements <- MCEngagements
  MaxRevision = 2
  MaxTimeouts <- MCMaxTimeouts
  MaxCommands = 1
  MaxStarts = 2
  MaxTime = 3
SPECIFICATION Spec
INVARIANT ShownIsCurrent
INVARIANT TimeIsNotReplayed
PROPERTY TriggersAreAnswered
