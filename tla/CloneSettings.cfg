SPECIFICATION Spec
CONSTANTS
  Clients = {c1}
  Slots = {1, 2}
  Contents = {none, half, a, b}
  Empty = none
  Mangled = half
  Gated = {}
  Items = {1}
  Values = {"on", "off"}
  NoWish = "unset"
  Files <- BindFiles
  Seams = {}
  MaxPlans = 2
  MaxRuns = 1
  MaxReads = 0
  MaxEdits = 0
  MaxSessions = 1
  a = a
  b = b
  c1 = c1
  c2 = c2
  none = none
  half = half
PROPERTY OnlyConfirmedSettings
CHECK_DEADLOCK FALSE
