SPECIFICATION FairFileSpec
CONSTANTS
    Contents = {c1, c2, c3}
    Absent = Absent
    Torn = Torn
    MaxCrashes = 3
    MaxFailures = 3
INVARIANTS MemoryIsFile
PROPERTIES ImplementsRegister WritesSucceedAgain
