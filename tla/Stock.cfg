SPECIFICATION FairStockSpec
CONSTANTS
  s1 = s1  s2 = s2  cron = cron  i1 = i1  i2 = i2  r1 = r1  p1 = p1  p2 = p2  p3 = p3
  Sessions = {s1}
  Cron = cron
  MaxInFlight = 1
  Ops = {"checkout", "return"}
  Records = {r1}
  Items = {i1}
  RecordOf <- OneRecord
  Patrons = {p1, p2}
  HasEmail <- OneAddress
  CardExpiry <- CardsValid
  LoanIds = {1}
  HoldIds = {}
  MaxCheckouts = 1
  MaxRenewals = 1
  LoanDays = 1
  FinePerDay = 1
  OnlineMax = 1
  OnlineDays = 1
  RefuseOverdue = TRUE
  DeskPickupDays = 1
  PickupDays = 1
  EditStatuses = {}
  MailOutcomes = {"sent", "refused"}
  Days = {0, 2}
  MaxMails = 2
  NoItem = NoItem
  NoPatron = NoPatron
  NoRecord = NoRecord
  Campaigns = {n1}
  ScopeOf <- WholeLibrary
  Clerks = {c1}
  NoCampaign = NoCampaign
  Morning = m
  ByHand = {b1}
  AsOfDays = {0}
  Configs <- EveryDay
  Stages = {0, 1, 2, 3}
  SendOutcomes = {"sent", "refused", "sentThenError"}
  MaxReminders = 2
  MaxCrashes = 1
  MaxTogether = 2
INVARIANTS OneMailPerStage SentMeansMailed OpenLoanCheckedOut
PROPERTIES LateReaderIsTold
