SPECIFICATION MachineSpec
CONSTANTS
    NBLOCKS = 2
    MaxPages = 2
    Hard = {t1}
    Io <- OfBlocks
    Event = {"in"}
    Nobody = Nobody
    InitCap = 1
    MaxCap = 2
INVARIANTS MachineTypeOK TableOK BlocksOnce ChannelsHaveOwners
PROPERTIES ImplementsReactor
CONSTRAINT ThreeMachines
CHECK_DEADLOCK FALSE
