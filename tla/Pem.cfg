\* Every text of at most three segments, from the page and from elsewhere.
CONSTANTS
  Labels <- MCLabels
  OddLabels <- MCOddLabels
  MaxSegments = 3
SPECIFICATION Spec
INVARIANTS TypeOK OnlyOneRequestIsParsed CodeNamesTheFault PageSpeaksForServer
\* A behaviour ends with the answer.
CHECK_DEADLOCK FALSE
