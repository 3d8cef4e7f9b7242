SPECIFICATION FairSpec
CONSTANTS
  ann = ann
  bob = bob
  a1 = a1
  b1 = b1
  b2 = b2
  None = None
  User = {ann, bob}
  Client = {a1, b1, b2}
  Owner <- MCOwner
  Makers = {b1}
  SendCap = 1
  MaxChallenges = 2
  Failing = {b1}
  DBFails = TRUE
  StartRating = 0
  Changes <- MCChanges
INVARIANTS
  TypeOK
  StartsOnce
  RatingsAddUp
PROPERTIES
  CutOffByTheGone
  ImplementsDuels
  HandlersFinish
CHECK_DEADLOCK FALSE
