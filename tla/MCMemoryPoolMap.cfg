SPECIFICATION Spec
CONSTANTS
    t1 = t1
    t2 = t2
    Thread = {t1, t2}
    Size = {3}
    Asks <- ThreePages
    PageSize = 2
    NPAGES = 7
    MAXBYTES = 4
    MaxMove = 2
    CachesPerBlock = 2
    MaxBig = 2
    MaxGap = 0
    MaxHeld = 2
INVARIANT MapFindsOwner
