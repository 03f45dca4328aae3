SPECIFICATION Spec
CONSTANTS
    a1 = a1
    a2 = a2
    a3 = a3
    z1 = z1
    z2 = z2
    z3 = z3
    Unwritten = Unwritten
    BytesPerSector = 2
    SectorsPerFat = 3
    SectorsPerCluster = 2
    LastCluster = 5
    NameOrd <- MCNameOrd
    Short <- MCShort
    Handles = {1, 2}
    Letter <- MCLetter
    Paths <- MCFiles
    NewNames = {}
    Directories = {}
    Modes <- MCModes
    MaxSize = 8
    Lengths = {3, 5}
    MaxCalls = 6
    Positions = {0, 4}
    Careful = TRUE
    Faults <- MCNoFault
INVARIANTS
    ChainsSound
    NoneLost
    ReadsBack
PROPERTIES
    IsFileStore
CHECK_DEADLOCK FALSE
