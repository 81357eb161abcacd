SPECIFICATION RecoveryFairSpec
CONSTANTS
  Row = {i1}
  Exec <- OneUpload
  Uploads = 1
  Unnoted = {0}
  MaxReplays = 1
  Request = {r1}
  ChunkSize = 1
  MaxRetries = 0
  Call = {"presign", "upload", "start", "confirm"}
  Fault = {"lost_start", "lost_event", "replay_dies", "dispatch"}
  NoToken = NoToken
INVARIANTS RecoveryTypeOK RowsExplained ReplaysBounded
PROPERTIES FailureRecorded ReplayingEnds CommittingEnds
CHECK_DEADLOCK FALSE
