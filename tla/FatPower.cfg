SPECIFICATION PowerSpec
CONSTANTS
    a1 = a1
    a2 = a2
    a3 = a3
    z1 = z1
    z2 = z2
    z3 = z3
    Unwritten = Unwritten
    BytesPerSector = 2
    SectorsPerFat = 3
    SectorsPerCluster = 2
    LastCluster = 5
    NameOrd <- MCNameOrd
    Short <- MCShort
    log = log
    tel = tel
    Handles = {log, tel}
    Letter <- MCLetter
    Paths <- MCLogs
    NewNames = {}
    Directories = {"D"}
    Modes <- MCModes
    MaxSize = 6
    Lengths = {3}
    MaxCalls = 6
    Positions = {0, 4}
    Careful = TRUE
    Faults <- MCFaults
INVARIANTS
    ChainsSound
    SyncedSurvives
SYMMETRY MCAlike
CHECK_DEADLOCK FALSE
