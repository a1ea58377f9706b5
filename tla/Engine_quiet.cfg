SPECIFICATION FairSpec
CONSTANTS
    m1 = m1
    m2 = m2
    I = I
    A = A
    B = B
    a1 = a1
    a2 = a2
    s1 = s1
    s2 = s2
    s3 = s3
    U1 = U1
    Mealy = Mealy
    Undefined = Undefined
    Machine = {m1, m2}
    State = {I, A, B}
    HasLeave = {A}
    Code = {0, 1}
    Signal = {U1}
    Slot0 = a1
    Tick = {a1}
    Sign = {s1}
    Periodic = {a1}
    Reactor = "poll"
    IoUser = {m1}
    MaxSend = 2
    MaxQueue = 3
    InitState <- MCInitState
    selfNext <- MCSelfNext
    dataNext <- QuietDataNext
    tickCap <- QuietTickCap
    owner <- QuietOwner
    home <- QuietHome
    pos <- QuietPos
    hardNext <- AllMealy
    signo <- QuietSigno
    Sends <- QuietSends
INVARIANTS TypeOK TimersArePolled EventsAreFresh NeverHangs
PROPERTIES ExpirationsAreHandled MessagesReachTheHead
CHECK_DEADLOCK FALSE
