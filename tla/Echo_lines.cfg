SPECIFICATION LineFairSpec
CONSTANTS
    Slave = {s1}
    Master = Master
    Racing = TRUE
    MaxBacklog = 2
    MaxPool = 3
    DBytes = 1
    MaxLine = 3
INVARIANTS LineTypeOK NeverHangs SocketsAreTracked EventsAreHeard ReadsFit LineIsKept EchoedIfWhole
PROPERTIES PhasesEnd
CHECK_DEADLOCK FALSE
