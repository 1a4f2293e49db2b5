SPECIFICATION Spec
CONSTANTS
  s1 = s1  s2 = s2  cron = cron  i1 = i1  i2 = i2  i3 = i3  t1 = t1  t2 = t2
  Slots = {s1}
  Night = s1
  Ids = {i1, i2}
  Targets = {t1}
  Periods = {1}
  Failures = {"injoignable"}
  MaxPages = 2
  TokenLives = {1}
  MaxRuns = 2
  MaxChanges = 3
  MaxForgets = 1
  MaxDay = 3
CHECK_DEADLOCK FALSE
SYMMETRY Symmetry
INVARIANTS TypeOK NothingBehindTheCursor ReportAddsUp MemoryPointsAtItsRecord ImportedOnce
ACTION_CONSTRAINT WorldWaits
