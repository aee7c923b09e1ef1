SPECIFICATION Spec
CONSTANTS
  Files <- MCFiles
  Deps <- MCDeps
  Goals <- MCGoals
  Lines <- MCLines
  NoError = {}
  Options <- MCOptions
  MaxSignals = 0
  More = TRUE
  Slots = {0}
  KeepGoing = {FALSE}
  Loads = {FALSE}
  ForkFailures = {FALSE}
INVARIANT AllReaped
