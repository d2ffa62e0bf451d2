SPECIFICATION Spec
CONSTANTS
    Seg = 2
    CwndMax = 2
    CacheCap = 2
    HeadLen = 1
    Lengths = {3}
    Windows = {0, 1}
    Base = 3
    FinTries = 1
INVARIANT WindowKept
CHECK_DEADLOCK FALSE
