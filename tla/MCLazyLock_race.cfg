SPECIFICATION Spec
CONSTANTS
    Proc = {p1, p2}
    FirstAlone = FALSE
    NoProc = NoProc
INVARIANT MutualExclusion
