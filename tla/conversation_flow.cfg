SPECIFICATION Spec
CONSTANTS
  t1 = t1  t2 = t2
  Tabs = {t1, t2}
  CustomerNames <- MCCustomers
  PortNames <- MCPorts
  MonthWords = {"june"}
  PeriodWords = {"june", "quarter"}
  StopWords = {"june", "tons"}
  Available <- MCAvailable
  Texts <- MCTexts
  Offices <- MCOffices
  Months <- MCMonths
  Days <- MCDays
  Histories <- MCHistories
  RouterRuns <- MCRuns
  MaxTurns = 3
  MaxFaults = 1
SYMMETRY Symmetry
INVARIANTS HandledAsShown ChipSettles ScopeIsWhole CarriedNamesAreCertified CarryKeepsPeriods
CHECK_DEADLOCK FALSE
