SPECIFICATION Spec
CONSTANTS
    Acceptor = acceptor
    Fd = {d0, d1}
    NoFd = nofd
    NoChan = nochan
    kInitEventListSize = 1
    highWaterMark_ = 2
    MaxConns = 1
    MaxSend <- OneEach
    MaxRx = 1
CHECK_DEADLOCK FALSE
INVARIANT BufferedIsWatched
