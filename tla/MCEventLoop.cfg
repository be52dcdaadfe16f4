SPECIFICATION FairSpec
CONSTANTS
    LoopThread = loop
    Callers = {c1, c2}
    Functors = {f1, f2, f3}
    NoThread = none
    Pid = pid
INVARIANTS TypeOK LoopQueuedIsWoken
PROPERTIES RunsInOrder QueuedFunctorRuns QuitEndsLoop
