SPECIFICATION FairSpec
CONSTANTS
  s1 = s1  s2 = s2  cron = cron  d1 = d1  g1 = g1  g2 = g2  r1 = r1  r2 = r2
  Sessions = {s1, s2}
  Cron = cron
  Deposits = {d1}
  Directors = {g1, g2}
  Records = {r1}
  Retention = 1
  Ops = {"creer", "televerser", "designer", "soumettre", "retirer", "reattribuer", "valider", "refuser", "rattacher"}
  MaxInFlight = 1
  MaxDocs = 2
  MaxFaults = 1
  Days = {0, 1, 2}
  Nobody = Nobody
  NoRecord = NoRecord
CHECK_DEADLOCK FALSE
INVARIANTS CopyHasItsBytes CataloguedOnce
PROPERTIES DecisionIsFinal DecidedByItsDirector JudgedAsSubmitted OldRefusalIsPurged
