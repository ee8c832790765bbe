CONSTANTS
  ChatReader = {c1, c2}
  NewsReader = {n1}
  FactQueries = 1
  MaxChat = 3
  MaxNews = 2
  Question <- Questions
  Rosters <- MemberSets
  Window <- Windows
  HourLength = 2
  DayLength = 4
  ActivityDays = 2
  High = 3
  Middle = 2
  MaxTime = 12
  All = "*"
  Unmeasured = ""
  Delivery <- Deliveries
  PinnedRosters <- MemberSets
  Request <- Requests
  Measured = 2
  NewsDayLength = 2
  MaxNewsTime = 6
  MaxPopular = 1
  NoChoice = "*"
  NoValue = ""
  MaxExportChat = 2
  Document <- Documents
  LabelDocument <- Labels
  Blank = ""
  Invalid = "invalid"
SPECIFICATION ReportsSpec
INVARIANTS ReportsTypeOK SnapshotsRetained NewsAnswersAreBound FactsNotOlderThanReceipt
INVARIANTS ViewsAgree NewsReportIsConsistent RosterReceiptsHold AnswersOwnRequest
PROPERTY LiveJobsAreKept
SYMMETRY Symmetry
CHECK_DEADLOCK FALSE
