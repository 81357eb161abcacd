SPECIFICATION Spec
CONSTANTS
  Branch = {"A", "B"}
  Component = {1}
  Session = {"s1", "s2"}
  TransferId = {"t1", "t2"}
  Request <- BothWays
  Adjustment <- UpDown
  Opening <- TwoAtA
  Endpoint <- Anything
  MaxInt = 3
  NoSession = "nobody"
INVARIANTS TypeOK StockBounds QuantityLedger ReservedLedger Conservation
