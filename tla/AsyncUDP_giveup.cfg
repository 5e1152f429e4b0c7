CONSTANTS
    Tasks = {t1, t2}
    PeerPackets = {p1}
    Payloads = {a, b}
    Empty = zero
    AppThreads = {app}
    IoThread = io
    Handlers = {cb}
    NoHandler = NoHandler
    NoTask = NoTask
    NoData = NoData
    RcvCap = 2
    ReadBatch = 2
    Faults = {"loss"}
SPECIFICATION FairSpec
PROPERTIES
    GiveUpUnblocksQueue
CHECK_DEADLOCK FALSE
