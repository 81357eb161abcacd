SPECIFICATION ReconFairSpec
CONSTANTS
  Branch = {"A", "B"}
  Component = {1}
  TransferId = {"t1"}
  Request <- Shipment
  Adjustment <- OneLess
  Opening <- SeededStock
  OpeningLedger <- SeededLedger
  Run = {"r1"}
  Kind = {"lambda", "sync", "dry"}
  Admin = {"a1"}
  MaxIssues = 8
  MaxResolves = 2
  MaxStops = 1
INVARIANTS DriftExplained OneOpenIssue PaidOnce
PROPERTY DriftReported
CHECK_DEADLOCK FALSE
