SPECIFICATION Spec
CONSTANTS
  RecordLen = 3
  ReadLens = {1, 2}
  ReadRetries = 1
  MaxFrame = 4
  MaxWantQueue = 2
  Faults = {"byte"}
  MaxRequests = 3
INVARIANT AnswerIsTheReply
CHECK_DEADLOCK FALSE
