SPECIFICATION Spec
CONSTANTS
    a1 = a1
    a2 = a2
    a3 = a3
    z1 = z1
    z2 = z2
    z3 = z3
    Unwritten = Unwritten
    BytesPerSector = 2
    SectorsPerFat = 3
    SectorsPerCluster = 2
    LastCluster = 5
    NameOrd <- MCNameOrd
    Short <- MCShort
    Handles = {1}
    Letter <- MCLetter
    Paths <- MCTree
    NewNames = {"LOG", "LOGGER"}
    Directories = {"D"}
    Modes <- MCTreeModes
    MaxSize = 8
    Lengths = {3}
    MaxCalls = 7
    Positions = {0}
    Careful = TRUE
    Faults <- MCNoFault
INVARIANTS
    ListComplete
    FoundAgain
PROPERTIES
    IsFileStore
CHECK_DEADLOCK FALSE
