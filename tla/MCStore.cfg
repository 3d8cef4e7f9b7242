SPECIFICATION FairSpec
CONSTANTS
  ann = ann
  bob = bob
  m1 = m1
  m2 = m2
  User = {ann, bob}
  Match = {m1, m2}
  PlayersOf <- MCPlayersOf
  NoMatch = NoMatch
  Rounds = 2
  PoolSize = 2
  PageLimit = 1
  MaxOthers = 1
  MaxStarts = 1
INVARIANTS
  TypeOK
  WholeDetail
  PagingMissesNothing
PROPERTIES
  ImplementsResults
  TransactionsEnd
