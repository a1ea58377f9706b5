SPECIFICATION Spec
CONSTANTS
    Name = {"idle"}
    Used = {"init", "idle", "self"}
    Torn = "torn"
    Junk = {13}
    Code <- Codes
    Number = {5}
    Signal = {10}
    Period = {"ESMA_TM_PERIODIC"}
    Event = {1, 4, 8}
    Word = 16
    StateCap = 2
    MaxStates = 3
    MaxTrans = 2
PROPERTY ReservedCanBeNamed
CHECK_DEADLOCK FALSE
