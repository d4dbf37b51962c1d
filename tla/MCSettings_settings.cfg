SPECIFICATION Spec
CONSTANTS
    Kinds = {"radio", "schedule"}
    Fields = {f1}
    Sessions = {s1, s2, s3}
    Playing = s1
    Later = {s3}
    None = None
    MaxOps = 2
    MaxPolls = 1
    MaxActs = 2
    MaxFailures = 1
INVARIANTS ShownIsSaved
PROPERTIES  Settles
CHECK_DEADLOCK FALSE
