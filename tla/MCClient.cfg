SPECIFICATION FairSpec
CONSTANTS
  SendCap = 1
  MaxPings = 2
  MaxTime = 4
INVARIANTS
  TypeOK
  SampledOnce
  EstimateIsBounded
PROPERTIES
  NothingLeaks
  ShutdownEnds
