SPECIFICATION AppSpec
CONSTANTS
  t1 = t1
  t2 = t2
  t3 = t3
  Threads = {t1, t2, t3}
  Paths = {"p", "q"}
  UIOrders = {TRUE, FALSE}
  Methods <- AppMethods
  MaxCalls <- AppBounds
  MaxSessions = 2
SYMMETRY ThreadSymmetry
INVARIANT TypeOK
INVARIANT SessionOpenWhileUsed
INVARIANT TrafficNeverMixes
INVARIANT SendIsReachable
INVARIANT PlanOfThisSession
INVARIANT NothingLeaked
INVARIANT ReservationHeld
INVARIANT StaleIsMarked
PROPERTY NoEditSwallowed
PROPERTY SaveClearsHonestly
CHECK_DEADLOCK FALSE
