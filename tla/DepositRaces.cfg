SPECIFICATION Spec
CONSTANTS
  s1 = s1  s2 = s2  cron = cron  d1 = d1  g1 = g1  g2 = g2  r1 = r1  r2 = r2
  Sessions = {s1, s2}
  Cron = cron
  Deposits = {d1}
  Directors = {g1}
  Records = {r1}
  Retention = 1
  Ops = {"creer", "televerser", "designer", "soumettre", "retirer", "reattribuer", "valider", "refuser", "rattacher", "module"}
  MaxInFlight = 2
  MaxDocs = 2
  MaxFaults = 1
  Days = {0, 1, 2}
  Nobody = Nobody
  NoRecord = NoRecord
SYMMETRY Symmetry
CHECK_DEADLOCK FALSE
INVARIANTS TypeOK DocumentIsThere ReadyTwinIsItsOwn MissingDocumentIsTraced MarkedWasTold
PROPERTIES KeptForRetention
