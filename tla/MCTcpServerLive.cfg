SPECIFICATION FairSpec
CONSTANTS
    Acceptor = acceptor
    Fd = {d0, d1, d2}
    NoFd = nofd
    NoChan = nochan
    kInitEventListSize = 1
    highWaterMark_ = 1
    MaxConns = 2
    MaxSend <- OneNone
    MaxRx = 0
CHECK_DEADLOCK FALSE
PROPERTIES ClosedIsDestroyed ShutdownHalfCloses
