SPECIFICATION Spec
CONSTANTS
    Name = {"idle", "work"}
    Used = {"idle", "work", "self"}
    Torn = "torn"
    Junk = {13}
    Code <- Codes
    Number = {5}
    Signal = {10}
    Period = {"ESMA_TM_PERIODIC"}
    Event = {1, 4, 8}
    Word = 16
    StateCap = 3
    MaxStates = 4
    MaxTrans = 2
INVARIANTS TypeOK TemplateIsText AcceptedFits MachineIsText
CHECK_DEADLOCK FALSE
