SPECIFICATION Spec
CONSTANTS
    Chan = {c1, c2, c3, c4}
    Fd = {d1, d2, d3}
    NoChan = nochan
    NoFd = nofd
SYMMETRY Symmetry
INVARIANTS TypeOK KernelAgrees NeverFatal NoDanglingChannel
