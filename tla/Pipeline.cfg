\* Every kind of request, with bodies up to one byte over the limit.
CONSTANTS
  Sizes <- MCSizes
  MaxRequestSize = 2
SPECIFICATION Spec
INVARIANTS TypeOK LogTellsTheTruth EveryRequestIsLogged ResponsesAreMarked CSRAnswersAreNotStored OnlyWholeBodiesAreParsed EveryRequestIsAnswered
PROPERTY EveryRequestEnds
\* A behaviour ends with the request.
CHECK_DEADLOCK FALSE
