SPECIFICATION Spec
CONSTANTS
    Lists = {"artists", "albums"}
    Details = {"album", "playlist"}
    Ids = {id1, id2}
    Items = {t1}
    Queries = {"q1", "q2"}
    id1 = id1
    id2 = id2
    Extent <- Extents
    Stored = {id1}
    Opened <- Tabs
    None = None
    Gone = Gone
    MaxCalls = 3
    MaxActs = 3
INVARIANTS HitsAreCurrent ShownIsRoute ScrollKept UserHasSession
CHECK_DEADLOCK FALSE
