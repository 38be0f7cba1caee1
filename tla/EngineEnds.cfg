SPECIFICATION FairSpec
CONSTANTS
  Callers = {c1}
  MaxCalls = 2
  CallKinds = {"Read", "Drain"}
  RetryReads = 0
  FatalFraming = TRUE
  Punctual = TRUE
  EventCap = 1
  WireCap = 1
  ChunkMax = 1
  PurgeBound = 2
  Unsolicited = {"push", "fatal", "garbage"}
PROPERTY CallsReturn
PROPERTY CloseJoins
PROPERTY NoFrameAfterFatal
PROPERTY ClosureHidesNoReply
PROPERTY NoWriteWhileContaminated
CHECK_DEADLOCK FALSE
