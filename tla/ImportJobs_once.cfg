SPECIFICATION FairSpec
CONSTANTS
  Row = {1, 2, 4}
  Sheet <- Sheets
  Exec = {e1}
  Request = {r1, r2}
  ChunkSize = 2
  MaxRetries = 1
  Call = {"presign", "confirm", "cancel"}
  Fault = {"bad_file", "crash", "database", "lost_answer"}
  NoToken = NoToken
INVARIANTS AddedOnce CompletedIsTrue
PROPERTIES CancelHolds ExecutionsEnd
CHECK_DEADLOCK FALSE
