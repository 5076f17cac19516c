\* A private key below a request.
CONSTANTS
  Labels <- MCLabels
  OddLabels <- MCOddLabels
  MaxSegments = 2
SPECIFICATION Spec
INVARIANT NoKeyLeavesThePage
\* A behaviour ends with the answer.
CHECK_DEADLOCK FALSE
