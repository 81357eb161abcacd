SPECIFICATION Spec
CONSTANTS
  Row = {i1}
  Exec = {e1, e2}
  Request = {r1, r2}
  ChunkSize = 1
  MaxRetries = 0
  Call = {"presign", "upload", "start", "confirm", "cancel"}
  Fault = {"duplicate", "bad_file", "crash", "database", "lost_answer"}
  NoToken = NoToken
PROPERTIES WriterAddsOnce
CHECK_DEADLOCK FALSE
