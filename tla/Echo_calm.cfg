SPECIFICATION Spec
CONSTANTS
    Slave = {s1, s2}
    Master = Master
    Racing = FALSE
    MaxBacklog = 2
    MaxPool = 2
INVARIANTS TypeOK PoolIsFree NoSlaveForgotten TakenWhereSent NeverCrashes
PROPERTIES ImplementsWorkers
CHECK_DEADLOCK FALSE
