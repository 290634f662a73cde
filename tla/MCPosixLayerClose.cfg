SPECIFICATION Spec
CONSTANTS
    Threads = {t1, t2}
    None = None
    Layers = {"posix"}
    Table <- Headers
    Ints = {"3", "4"}
    Sizes = {"s"}
    Dsets = {"d"}
    Invalid = "invalid"
    MaxCalls <- MCMaxCalls
    MaxSwitches = 0
SYMMETRY MCSymmetry
INVARIANT OpenIsTied
CHECK_DEADLOCK FALSE
