SPECIFICATION Spec
CONSTANTS
  Models = {m1, m2, m3}
  Defs = {m2, m3}
  NamedDefs = {m3}
  StdDefs = {m2}
  MaxRetries = 2
  MaxReports = 3
  MaxJoins = 2
  MaxRenames = 2
  MaxInterviews = 2
  None = None
INVARIANT ReportsSurvive
PROPERTIES OnlyJoinForgets NameIsReplacedBy
CHECK_DEADLOCK FALSE
