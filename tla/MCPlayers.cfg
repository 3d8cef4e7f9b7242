SPECIFICATION Spec
CONSTANTS
  Rounds = 2
  Timeout = 0
  TickMs = 0
  MaxElapsed = 0
  SendCap = 2
  GameCap = 1
  Leftovers <- NothingLeft
  Answers <- FirstSendsGarbled
  Noisy = {1}
  Returning = {2}
  DBFails = TRUE
  RTTs = {0}
  StartRating <- MCStartRating
  Expected <- MCExpected
INVARIANTS
  ToldIsStored
  QueuesInOrder
  StopsOnlyForALeaver
