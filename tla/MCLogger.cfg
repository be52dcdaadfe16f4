SPECIFICATION FairSpec
CONSTANTS
    Threads = {t1, t2}
    MaxMessages = 3
    MaxDay = 2
INVARIANTS TypeOK MisdatedAtMostOnce
PROPERTIES WrittenInOrder EveryMessageWritten
CHECK_DEADLOCK FALSE
