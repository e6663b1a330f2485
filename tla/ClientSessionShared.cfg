SPECIFICATION Spec
CONSTANTS
    s1 = s1
    s2 = s2
    n1 = n1
    n2 = n2
    g1 = g1
    g2 = g2
    a1 = a1
    a2 = a2
    None = None
    Callers = {c1, c2}
    Sessions = {s1, s2}
    Networks = {n1, n2, g1, g2}
    Snapshots = {a1, a2}
    Generated <- FreshNetworks
    Held <- HeldSnapshots
    Requests <- SharedRequests
    MaxCalls = 2
INVARIANT AnswerIsAlwaysForRequest
CHECK_DEADLOCK FALSE
