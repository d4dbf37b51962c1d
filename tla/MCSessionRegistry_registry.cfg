SPECIFICATION FairSpec
CONSTANTS
  s1 = s1
  s2 = s2
  s3 = s3
  u1 = u1
  u2 = u2
  Sessions = {s1, s2, s3}
  Users = {u1, u2}
  Owner <- MCOwner
  MaxCallers = 2
  NoSession = NoSession
  TTL = 0
  MaxPerUser = 1
  MaxConcurrent = 1
  MaxLives = 2
  MaxRequests = 3
  MaxRestarts = 1
PROPERTIES
  CapsHold
  AbandonedStops
