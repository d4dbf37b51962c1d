SPECIFICATION Spec
CONSTANTS
    NTracks = 4
    Seeds = {1}
    MaxSessions = 2
    MaxQueue = 2
    MaxCalls = 2
    MaxPolls = 2
    MaxActs = 3
    MaxFailures = 2
CHECK_DEADLOCK FALSE
INVARIANTS ViewIsAttached DeafOnlyInFlight
PROPERTIES NothingSkippedUnseen Converges
