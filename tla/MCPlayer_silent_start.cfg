SPECIFICATION Spec
CONSTANTS
    NTracks = 4
    Seeds = {1}
    MaxSessions = 2
    MaxQueue = 2
    MaxCalls = 2
    MaxPolls = 1
    MaxActs = 3
    MaxFailures = 1
CHECK_DEADLOCK FALSE
INVARIANTS ShowsSound
