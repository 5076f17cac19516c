\* A signature algorithm that belongs to another kind of key.
CONSTANTS
  Cores <- MCCores
  EmptyCore = ""
  Canonical <- MCCanonical
  Wildcards <- MCWildcards
  GoodWildcards <- MCGoodWildcards
  Requests <- MCUnread
  CSRs <- KeyCSRs
SPECIFICATION ReportSpec
INVARIANT InvalidMeansChecked
\* A behaviour ends with the report, or with an error.
CHECK_DEADLOCK FALSE
