SPECIFICATION FairSpec
CONSTANTS
  Rounds = 2
  Timeout = 1
  TickMs = 15000
  MaxElapsed = 1
  SendCap = 1
  GameCap = 1
  Leftovers <- OneLeft
  Answers <- SecondSendsLate
  Noisy = {}
  Returning = {}
  DBFails = TRUE
  RTTs = {0, 16000}
  StartRating <- MCStartRating
  Expected <- MCExpected
INVARIANTS
  TypeOK
  AnswersForThisRound
  LedgerAgrees
  CompletedIsEarned
PROPERTIES
  FirstAnswerStands
  SessionEnds
  ImplementsMatch
