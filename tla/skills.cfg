SPECIFICATION MCSpec
CONSTANTS
  Dimensions = {"CUST_NM", "LOC_NM", "CUSTOMER_TEAM_NAME"}
  Null = 0
  Placeholder = 90
  ScopeColumn = "CUSTOMER_TEAM_NAME"
  ValueLimit = 5
  RowCap = 2
  MoverCap = 1
  Tables <- ThreeTables
  NextSales <- Arrivals
  Requests <- FiveRequests
  Days <- ThirdOfMarch
  Callers <- ThreeCallers
  Modes = {"live", "stub", "none"}
  Replies <- FourReplies
  PageSize = 2
  Books <- ThreeTables
  Movements <- Arrivals
  Questions <- TheQuestions
  Offices <- CarriedOffices
  Askers <- ThreeCallers
  WindowTop = 2
  SkillSets <- Deployments
  Internal <- Flows
  Providers = {"bedrock", "messages", "missing"}
  Contents <- Answers
  Results <- FourResults
  RoundCap = 3
  ShownRows = 2
  ShownLines = 8
  Kinds = {"existing", "prospect"}
  Settings <- FourSettings
  MaxItems = 1
INVARIANTS ReportIsOfOneMoment FiguresAreInTheData AnswersAreOfTheBook ConversationIsFaithful BriefIsWhole
CHECK_DEADLOCK FALSE
