SPECIFICATION Spec
CONSTANTS
  t1 = t1
  t2 = t2
  t3 = t3
  Threads = {t1, t2}
  Paths = {"p"}
  Methods <- SendOrder
  UIOrders = {TRUE}
  MaxCalls <- SixCalls
  MaxSessions = 1
SYMMETRY ThreadSymmetry
INVARIANT CancelledIsHonest
CHECK_DEADLOCK FALSE
