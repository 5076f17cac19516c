\* The process with three connections, from start to exit.
CONSTANTS
  Conns = {c1, c2, c3}
  DefaultSize = 2
  EnvSizes <- MCEnvSizes
SPECIFICATION Spec
INVARIANTS TypeOK CleanExitCutsNothing ClosedIsNeverSelected
PROPERTIES KeepsStopPromise
\* The process stops for good when main returns.
CHECK_DEADLOCK FALSE
