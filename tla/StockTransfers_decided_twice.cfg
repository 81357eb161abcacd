SPECIFICATION Spec
CONSTANTS
  Branch = {"A", "B"}
  Component = {1}
  Session = {"s1", "s2"}
  TransferId = {"t1", "t2"}
  Request <- BothWays
  Adjustment <- None
  Opening <- TwoAtA
  Endpoint <- Anything
  MaxInt = 3
  NoSession = "nobody"
PROPERTIES DecidedOnce
CHECK_DEADLOCK FALSE
