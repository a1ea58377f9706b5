SPECIFICATION Spec
CONSTANTS
    m1 = m1
    m2 = m2
    I = I
    A = A
    B = B
    a1 = a1
    a2 = a2
    s1 = s1
    s2 = s2
    s3 = s3
    U1 = U1
    Mealy = Mealy
    Undefined = Undefined
    Machine = {m1, m2}
    State = {I, A, B}
    HasLeave = {A}
    Code = {0, 1}
    Signal = {U1}
    Slot0 = a1
    Tick = {a1, a2}
    Sign = {s1, s2, s3}
    Periodic = {a2}
    Reactor = "epoll"
    IoUser = {m1}
    MaxSend = 1
    MaxQueue = 5
    InitState <- MCInitState
    selfNext <- MCSelfNext
    dataNext <- EagerDataNext
    tickCap <- EagerTickCap
    owner <- EagerOwner
    home <- EagerHome
    pos <- EagerPos
    hardNext <- EagerHardNext
    signo <- EagerSigno
    Sends <- EagerSends
INVARIANTS TimersOfCurrentState TimersArePolled
PROPERTY ExpirationLeavesItsState
CHECK_DEADLOCK FALSE
