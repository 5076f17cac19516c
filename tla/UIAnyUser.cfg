\* Any user: requests, drops and reads overlap, and the server may never answer.
CONSTANTS
  goodFile = goodFile  badFile = badFile  blankFile = blankFile  emptyFile = emptyFile
  good1 = good1  bad1 = bad1
  c1 = c1  c2 = c2  r1 = r1  r2 = r2  k1 = k1  k2 = k2
  Blank = Blank  NoFile = NoFile  NoResult = NoResult  NoText = NoText
  GoodTexts = {good1, good2}
  BadTexts = {bad1}
  Files = {goodFile, blankFile, emptyFile}
  FileContent <- MCFileContent
  Calls = {c1, c2}
  Readers = {r1, r2}
  Copiers = {}
  Habits = {"ctrlEnter", "dropWhileLoading", "actWhileReading", "copyAgain"}
SPECIFICATION Spec
INVARIANTS TypeOK DisabledOnlyInFlight ParsingStatusIsLive
PROPERTIES ResultAnswersItsRequest EveryRequestEnds ControlsComeBack
