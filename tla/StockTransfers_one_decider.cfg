SPECIFICATION FairSpec
CONSTANTS
  Branch = {"A", "B"}
  Component = {1, 2}
  Session = {"s1", "s2"}
  TransferId = {"t1", "t2"}
  Request <- TwoItems
  Adjustment <- Down
  Opening <- OneEverywhere
  Endpoint <- OneDecider
  MaxInt = 2
  NoSession = "nobody"
INVARIANTS PendingBacked CreatesNeverDeadlock
PROPERTIES DecidedOnce ImplementsContract TransactionsEnd
CHECK_DEADLOCK FALSE
