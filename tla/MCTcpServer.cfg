SPECIFICATION Spec
CONSTANTS
    Acceptor = acceptor
    Fd = {d0, d1, d2}
    NoFd = nofd
    NoChan = nochan
    kInitEventListSize = 1
    highWaterMark_ = 1
    MaxConns = 2
    MaxSend <- TwoNone
    MaxRx = 1
SYMMETRY Symmetry
CHECK_DEADLOCK FALSE
INVARIANTS TypeOK PollerSound ActiveChannelsLive FunctorsLive CallbacksPair NoZombieAtPoll StreamInOrder
