CONSTANTS
    Alphabet = {"5", "6", "-", ".", "/", ":", "l", "x"}
    MaxEdits = 2
    IntegerLimit = 8
    LongLimit = 2000
    Absent = Absent
SPECIFICATION CallsSpec
CHECK_DEADLOCK FALSE
PROPERTIES
    AssertionsAsDocumented
