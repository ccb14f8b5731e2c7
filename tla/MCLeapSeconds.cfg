SPECIFICATION Spec
CONSTANTS
    Proc = {p1, p2}
    File <- MCFile
    Time <- MCTime
    IntMax = 100
    MaxNow = 6
    MaxLists = 2
    NoProc = NoProc
    Failed = Failed
SYMMETRY Threads
INVARIANT LockDiscipline
INVARIANT AnswerIsPublished
