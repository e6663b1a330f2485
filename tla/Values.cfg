CONSTANTS
    Alphabet = {"5", "6", "-", ".", "/", ":", "l", "x"}
    MaxEdits = 2
    IntegerLimit = 8
    LongLimit = 2000
    Absent = Absent
SPECIFICATION ValuesSpec
CHECK_DEADLOCK FALSE
INVARIANTS
    AcceptsExactlyTheFormats
    ReadsBackWhatItWrites
    AnswerReadsCellByCell
    ConstraintsAdmitTheirFlow
    RouteAssertionsAgree
    AssertionsSayWhatTheyName
