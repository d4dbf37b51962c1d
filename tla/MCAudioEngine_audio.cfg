SPECIFICATION Spec
CONSTANTS
  Tracks = {a, b}
  MaxCalls = 2
  MaxRequests = 4
  MaxVolume = 1
CHECK_DEADLOCK FALSE
INVARIANTS GainFollows PauseSticks LabelIsTrue ErrorsAreCurrent
PROPERTIES PlaysOrTells
