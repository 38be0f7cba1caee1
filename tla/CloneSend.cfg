SPECIFICATION FairSpec
CONSTANTS
  Clients = {c1}
  Slots = {1, 2}
  Contents = {none, half, a}
  Empty = none
  Mangled = half
  Gated = {}
  Items = {1}
  Values = {"on", "off"}
  NoWish = "unset"
  Files <- SendFiles
  Seams = {"vfo", "sel"}
  MaxPlans = 1
  MaxRuns = 1
  MaxReads = 1
  MaxEdits = 0
  MaxSessions = 2
  a = a
  b = b
  c1 = c1
  c2 = c2
  none = none
  half = half
INVARIANT TypeOK
INVARIANT JournalNamesTheDoubt
INVARIANT ReportNamesEveryWrite
INVARIANT CancelLeavesNoDoubt
INVARIANT OperatorStateReturned
PROPERTY OnlyInItsSession
PROPERTY ImplementsLedger
PROPERTY ServiceBecomesFree
CHECK_DEADLOCK FALSE
