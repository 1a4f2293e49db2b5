SPECIFICATION Spec
CONSTANTS
  s1 = s1  s2 = s2  cron = cron  i1 = i1  i2 = i2  r1 = r1  p1 = p1  p2 = p2  p3 = p3
  Sessions = {s1, s2}
  Cron = cron
  MaxInFlight = 2
  Ops = {"checkout", "return", "hold"}
  Records = {r1}
  Items = {i1, i2}
  RecordOf <- OneRecord
  Patrons = {p1, p2}
  HasEmail = {}
  CardExpiry <- CardsValid
  LoanIds = {1, 2}
  HoldIds = {1, 2}
  MaxCheckouts = 1
  MaxRenewals = 1
  LoanDays = 1
  FinePerDay = 1
  OnlineMax = 1
  OnlineDays = 1
  RefuseOverdue = TRUE
  DeskPickupDays = 1
  PickupDays = 1
  EditStatuses = {}
  MailOutcomes = {"sent", "refused"}
  Days = {0, 2}
  MaxMails = 2
  NoItem = NoItem
  NoPatron = NoPatron
  NoRecord = NoRecord
  Shelf = Shelf
  Aside = Aside
  Gone = Gone
SYMMETRY Symmetry
INVARIANTS OneLoanPerItem
