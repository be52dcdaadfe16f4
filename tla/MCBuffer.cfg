SPECIFICATION Spec
CONSTANTS
    Byte = {a, b}
    NUL = a
    kCheapPrepend = 1
    kInitialSize = 2
    ExtraSize = 2
    MaxLen = 3
    MaxReadable = 4
INVARIANTS TypeOK IndexesInBounds
PROPERTIES IsByteQueue GrowsOnlyWhenFull
