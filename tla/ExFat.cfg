SPECIFICATION Spec
CONSTANTS
    a1 = a1
    a2 = a2
    a3 = a3
    z1 = z1
    z2 = z2
    z3 = z3
    Unwritten = Unwritten
    BytesPerSector = 2
    SectorsPerFat = 6
    SectorsPerCluster = 2
    ClusterCount = 9
    Parts <- MCParts
    Hash <- MCHash
    Handles = {1, 2}
    Letter <- MCLetter
    Paths <- MCPaths
    NewNames = {"LOGGER"}
    Directories = {"D"}
    OpenModes <- MCModes
    MaxSize = 10
    Lengths = {5}
    Positions = {4}
    MaxCalls = 6
INVARIANTS
    BitmapExact
    SetsSealed
    FoundAgain
PROPERTIES
    IsFileStore
CHECK_DEADLOCK FALSE
