SPECIFICATION Spec
CONSTANTS
  ann = ann
  bob = bob
  a1 = a1
  a2 = a2
  b1 = b1
  User = {ann, bob}
  Conn = {a1, a2}
  Owner <- MCOwner
  Friends <- MCFriends
  NoConn = NoConn
  SendCap = 1
  Gamers = {ann}
  MaxCasts = 0
INVARIANTS
  OfflineMeansDisconnected
