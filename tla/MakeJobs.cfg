SPECIFICATION FairSpec
CONSTANTS
  Files <- MCFiles
  Deps <- MCDeps
  Goals <- MCGoals
  Lines <- MCLines
  NoError = {"b"}
  Options <- MCOptions
  MaxSignals = 1
  More = FALSE
  Slots = {0, 1, 2}
  KeepGoing = {TRUE, FALSE}
  Loads = {TRUE, FALSE}
  ForkFailures = {TRUE, FALSE}
INVARIANTS JobsSound MadeRight AllReapedKeepGoing
PROPERTY Ends
