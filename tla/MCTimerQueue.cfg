SPECIFICATION Spec
CONSTANTS
    kMicroSecondsPerSecond = 2
    Seconds = {1}
    MaxTimers = 3
    MaxClock = 4
    MaxRuns = 2
CHECK_DEADLOCK FALSE
INVARIANTS TypeOK EntriesMatch OneShotOnce ArmedForEarliest
PROPERTY NeverEarly
