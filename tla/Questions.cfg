CONSTANTS
    q1 = q1
    q2 = q2
    s1 = s1
    s2 = s2
    None = None
    Absent = Absent
    Undeclared = Undeclared
    IntegerLimit = 8
    LongLimit = 2000
    Documents <- MCDocuments
    Shelf <- MCShelf
    Remote = "remote"
    Alphabetical <- MCAlphabetical
    VarNames <- MCVarNames
    Inputs <- MCInputs
    UserNames = {""}
    Options <- MCOptions
    Snapshots = {s1, s2}
    Active = s1
    Objects = {q1, q2}
    MaxCalls = 4
    MaxWork = 2
    MaxLoads = 2
SYMMETRY Symmetric
SPECIFICATION Spec
CHECK_DEADLOCK FALSE
INVARIANTS
    TypeOK
    OrderListsCatalogue
    TemplatesStayAsLoaded
    OnlyValidQuestionsSent
    DifferentialHasReference
    AnswerMatchesQuestion
PROPERTIES
    RefusedQuestionIsFrozen
    LoadInstallsEveryGoodQuestion
