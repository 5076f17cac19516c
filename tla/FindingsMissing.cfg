\* An extension that has names, all of them of skipped types.
CONSTANTS
  Cores <- MCCores
  EmptyCore = ""
  Canonical <- MCCanonical
  Wildcards <- MCWildcards
  GoodWildcards <- MCGoodWildcards
  Requests <- SkippingRequests
SPECIFICATION Spec
INVARIANT MissingMeansAbsent
\* A behaviour ends with the findings.
CHECK_DEADLOCK FALSE
