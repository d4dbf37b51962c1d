SPECIFICATION FairSpec
CONSTANTS
  Files = {f1, f2}
  NoFile = NoFile
  BatchSize = 2
  MaxChanges = 2
  MaxFaults = 1
INVARIANTS
  TagsAreFresh
PROPERTIES
  ScanReconciles
  Reconciles
