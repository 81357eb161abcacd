SPECIFICATION Spec
CONSTANTS
  Row = {i1}
  Exec = {e1, e2}
  Request = {r1, r2}
  ChunkSize = 1
  MaxRetries = 0
  Call = {"presign", "confirm"}
  Fault = {"duplicate"}
  NoToken = NoToken
INVARIANT AddedOnce
CHECK_DEADLOCK FALSE
