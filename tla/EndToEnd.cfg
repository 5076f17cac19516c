\* One tick is 5 seconds: the timeouts are those of config.go and app.js.
CONSTANTS
  small = small  faulty = faulty  medium = medium  large = large
  e1 = e1  e2 = e2
  Texts = {small, faulty, medium, large}
  Size <- MCSize
  WellFormed = {small, medium}
  Exchanges = {e1, e2}
  NoText = NoText  NoExchange = NoExchange
  MaxRequestSize = 1
  MaxClientFileSize = 2
  RequestTimeout = 3
  ReadHeaderTimeout = 1
  ReadTimeout = 2
  WriteTimeout = 2
SPECIFICATION Spec
INVARIANTS TypeOK TimeoutMeansTheNetwork
PROPERTIES EarlyRequestsAreNotCutOff KeepsServicePromise
