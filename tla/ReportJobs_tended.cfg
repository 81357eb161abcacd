SPECIFICATION FairSpec
CONSTANTS
  Report = {"j1"}
  Message = {"m1", "m2", "m3"}
  Request = {"r1", "r2"}
  Worker = {"w1", "w2"}
  Fault = {"report", "refused"}
  MaxReceive = 2
  MaxReplays = 2
  MaxRedrives = 1
  Nothing = "none"
CHECK_DEADLOCK FALSE
INVARIANTS Tended
PROPERTIES ReportsEnd
