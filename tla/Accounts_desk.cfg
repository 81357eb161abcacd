SPECIFICATION Spec
CONSTANTS
    b1 = b1
    b2 = b2
    Branch = {b1, b2}
    Account <- MCAccount
    Null = Null
    Forbidden = Forbidden
    Email = {e1}
    Desk = {d1}
    Session = {s1}
    Bodies <- MCBodies
    Fault = {"answer", "database", "compensation", "crash"}
    MaxFaults = 1
    MaxSerial = 3
    MaxRows = 1
INVARIANTS StoresAgree
PROPERTIES LinkedOnce AdmittedIsCurrent StrandedByDeletion
CHECK_DEADLOCK FALSE
