SPECIFICATION Spec
CONSTANTS
    c1 = c1
    c2 = c2
    default = default
    lab = lab
    e1 = e1
    e2 = e2
    Callers <- MCCallers
    Names <- MCNames
    Default <- default
    Entries <- MCEntries
    DefaultEntry <- e1
    Precreated = Precreated
    NoEntry = NoEntry
    NoSession = NoSession
    NoCaller = NoCaller
    MaxSessions = 2
INVARIANTS
    SessionsMadeAsDocumented
CHECK_DEADLOCK FALSE
