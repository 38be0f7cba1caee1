SPECIFICATION Spec
CONSTANTS
  t1 = t1
  t2 = t2
  t3 = t3
  Threads = {t1, t2}
  Paths = {"p", "q"}
  Methods <- ReadOrder
  UIOrders = {TRUE}
  MaxCalls <- SixCalls
  MaxSessions = 1
SYMMETRY ThreadSymmetry
PROPERTY CleanMeansSaved
CHECK_DEADLOCK FALSE
