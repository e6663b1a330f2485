CONSTANTS
    n1 = n1
    n2 = n2
    s1 = s1
    s2 = s2
    c1 = c1
    c2 = c2
    None = None
    Callers = {c1, c2}
    Networks = {n1, n2}
    Snapshots = {s1, s2}
    Starts <- MCStarts
    Tables <- MCTables
    Constructed <- MCConstructed
    Calls <- MCCalls
    Directories <- MCDirectories
    Alphabetical <- MCAlphabetical
    SmallFloat = 50
    MaxSwitches = 1
SPECIFICATION Spec
CHECK_DEADLOCK FALSE
INVARIANTS
    FactsAreOfOneSnapshot
    FactsHoldLastRows
    ValidationFindsEveryDifference
