CONSTANTS
    Sectors <- MCSectors
    Blocks <- MCBlocks
    Erased <- MCErased
    Damaged <- MCDamaged
    FrameChecksum <- MCFrameChecksum
    Checksum <- MCChecksum
    Frame <- MCFrame
    BlockCrc <- MCBlockCrc
    Kinds = {"lost", "garbled", "stuck"}
    Starts <- MCStarts
    ClockRange = 64
    SD_CMD_TIMEOUT = 3
    SD_ERASE_TIMEOUT = 25
    SD_INIT_TIMEOUT = 10
    SD_READ_TIMEOUT = 3
    SD_WRITE_TIMEOUT = 10
    Cards <- MCCards
    DedicatedSpi = {TRUE, FALSE}
    Runs = {1, 2}
SPECIFICATION Spec
VIEW MCView
INVARIANTS
    AddressesAgree
    ChipReleased
    Recovers
PROPERTIES
    FailureFlagged
    IsBlockDevice
