\* A damaged block before a good one.
CONSTANTS
  Labels <- MCLabels
  OddLabels <- MCOddLabels
  MaxSegments = 2
SPECIFICATION Spec
INVARIANT MalformedPEMIsRejected
\* A behaviour ends with the answer.
CHECK_DEADLOCK FALSE
