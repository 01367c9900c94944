CONSTANTS
    Size = 3
    Pointers = {p1, p2, p3}
    NULL = NULL
SPECIFICATION Spec
INVARIANTS RingOK NoOverwrite
PROPERTY FifoSpec
