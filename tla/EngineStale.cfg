SPECIFICATION Spec
CONSTANTS
  Callers = {c1}
  MaxCalls = 2
  CallKinds = {"Read", "Write", "Ack", "Drain"}
  RetryReads = 1
  FatalFraming = FALSE
  Punctual = TRUE
  EventCap = 1
  WireCap = 1
  ChunkMax = 1
  PurgeBound = 2
  Unsolicited = {}
INVARIANT StaleReplyNeverTrusted
CHECK_DEADLOCK FALSE
