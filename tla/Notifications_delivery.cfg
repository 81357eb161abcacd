SPECIFICATION FairSpec
CONSTANTS
  Message = {"m1", "m2"}
  Subject <- FailureAndSuccess
  Past = {"m1"}
  Handler = {"h1", "h2"}
  MaxTries = 2
  MaxMarks = 2
INVARIANTS OneMail NoDuplicateShown ReadIsShown
PROPERTIES NotifiedOrParked MarkedIsShown
CHECK_DEADLOCK FALSE
