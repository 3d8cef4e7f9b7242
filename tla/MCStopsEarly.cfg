SPECIFICATION Spec
CONSTANTS
  Rounds = 1
  Timeout = 1
  TickMs = 4000
  MaxElapsed = 1
  SendCap = 1
  GameCap = 1
  Leftovers <- NothingLeft
  Answers <- EitherRound
  Noisy = {}
  Returning = {}
  DBFails = FALSE
  RTTs = {0}
  StartRating <- MCStartRating
  Expected <- MCExpected
INVARIANTS
  StopsEarlyOnlyByBoth
