\* ParsePEM from the bytes of a block to its report, findings included.
CONSTANTS
  Cores <- MCCores
  EmptyCore = ""
  Canonical <- MCCanonical
  Wildcards <- MCWildcards
  GoodWildcards <- MCGoodWildcards
  Requests <- MCUnread
  CSRs <- MCCSRs
SPECIFICATION ReportSpec
INVARIANTS ReportTypeOK DuplicatesAreReportedOnce NamesAreJudgedExactly ListsAreExact VerdictIsEarned SkippedMeansSkipped EveryReportIsWhole
PROPERTY SortedReport
\* A behaviour ends with the report, or with an error.
CHECK_DEADLOCK FALSE
