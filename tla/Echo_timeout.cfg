SPECIFICATION Spec
CONSTANTS
    Slave = {s1, s2}
    Master = Master
    Racing = TRUE
    MaxBacklog = 2
    MaxPool = 3
SYMMETRY Alike
INVARIANTS TakenWhereSent
CHECK_DEADLOCK FALSE
