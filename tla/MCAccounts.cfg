SPECIFICATION Spec
CONSTANTS
  ann = ann
  bob = bob
  h1 = h1
  h2 = h2
  h3 = h3
  Uid = {ann, bob}
  Username = {"fox", "owl"}
  Handler = {h1, h2, h3}
  None = "none"
INVARIANTS
  TypeOK
  OneFriendshipBetween
PROPERTIES
  FirstNameStays
  AnswerStands
