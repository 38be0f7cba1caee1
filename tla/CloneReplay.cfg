SPECIFICATION ReplaySpec
CONSTANTS
  Clients = {c1}
  Slots = {1}
  Contents = {none, half, a, b}
  Empty = none
  Mangled = half
  Gated = {}
  Items = {1}
  Values = {"on", "off"}
  NoWish = "unset"
  Files <- TwoFiles
  Seams = {}
  MaxPlans = 2
  MaxRuns = 2
  MaxReads = 0
  MaxEdits = 1
  MaxSessions = 1
  a = a
  b = b
  c1 = c1
  c2 = c2
  none = none
  half = half
SYMMETRY ClientSymmetry
PROPERTY OverwrittenIsSaved
PROPERTY OnlyConfirmedChannels
CHECK_DEADLOCK FALSE
