SPECIFICATION Spec
CONSTANTS
    t1 = t1
    t2 = t2
    Thread = {t1, t2}
    Size = {2}
    Asks <- TwoPages
    PageSize = 2
    NPAGES = 4
    MAXBYTES = 4
    MaxMove = 2
    CachesPerBlock = 2
    MaxBig = 2
    MaxGap = 0
    MaxHeld = 4
INVARIANTS TypeOK EachObjectOnce UseCountExact SpansTile
PROPERTY OwnCaches
