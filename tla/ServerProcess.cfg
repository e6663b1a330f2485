CONSTANTS
    Requests = {r1, r2}
    MaxSignals = 2
SPECIFICATION Spec
CHECK_DEADLOCK FALSE
INVARIANTS
    TypeOK
    SessionsClosedAtExit
    ExitStatusHasCause
PROPERTIES
    NoConnectionAfterServing
    StopsWhenTold
