SPECIFICATION Spec
CONSTANTS
  s1 = s1  s2 = s2  cron = cron  d1 = d1  g1 = g1  g2 = g2  r1 = r1  r2 = r2
  Sessions = {s1, s2}
  Cron = cron
  Deposits = {d1}
  Directors = {g1}
  Records = {r1}
  Retention = 1
  Ops = {"creer", "televerser", "soumettre"}
  MaxInFlight = 2
  MaxDocs = 2
  MaxFaults = 0
  Days = {0}
  Nobody = Nobody
  NoRecord = NoRecord
SYMMETRY Symmetry
CHECK_DEADLOCK FALSE
PROPERTIES JudgedAsSubmitted
