SPECIFICATION Spec
CONSTANTS
  socle = socle  a = a  b = b  c = c  d1 = d1  k1 = k1  k2 = k2  g1 = g1  g2 = g2  p1 = p1  q1 = q1  q2 = q2
  Collections = {socle, a, b}
  Socle = socle
  Existing = {socle, a, b}
  Racine = Racine
  Absent = Absent
  Documents = {d1}
  Classes = {k1, k2}
  AnyClass = AnyClass
  ProfondeurMax = 2
  Curators = {g1, g2}
  MaxMoves = 1
  MaxRows = 1
  Readers = {p1}
  Ttl = 1
  Calls = {q1}
  EmbargoDays = {2}
  MaxRestores = 1
  NoCall = NoCall
  MaxDay = 3
  MaxEdits = 4
  MaxDecisions = 3
SYMMETRY Symmetry
CHECK_DEADLOCK FALSE
INVARIANTS TreeIsSound DecisionsSurvive LossIsBoundedByLease
PROPERTIES PurgedForCause
