SPECIFICATION LineSpec
CONSTANTS
    Slave = {s1}
    Master = Master
    Racing = FALSE
    MaxBacklog = 1
    MaxPool = 1
    DBytes = 2
    MaxLine = 3
INVARIANTS EchoedLine
CHECK_DEADLOCK FALSE
