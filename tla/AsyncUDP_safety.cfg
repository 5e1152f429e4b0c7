CONSTANTS
    Tasks = {t1, t2}
    PeerPackets = {p1}
    Payloads = {a, b, zero}
    Empty = zero
    AppThreads = {app1, app2}
    IoThread = io
    Handlers = {cb}
    NoHandler = NoHandler
    NoTask = NoTask
    NoData = NoData
    RcvCap = 2
    ReadBatch = 2
    Faults = {"loss", "sendfail", "eagain", "late", "recvfail"}
SPECIFICATION Spec
INVARIANTS
    TypeOK
    TaskAccounting
    WatchdogArmed
    NoLostWakeup
    CopiesAccounted
    EchoExcused
    NoUseAfterDestroy
PROPERTIES
    ImplementsChannel
SYMMETRY Symmetry
CHECK_DEADLOCK FALSE
