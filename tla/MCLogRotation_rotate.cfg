CONSTANTS
    t1 = t1
    t2 = t2
    Absent = Absent
    Threads <- TwoThreads
    Firsts = {1}
    Retains = {1}
    MayFail = TRUE
    MaxDay = 3
    MaxLines = 3
    MaxRestarts = 1
SPECIFICATION Spec
SYMMETRY Symmetry
INVARIANTS
    TypeOK
    NothingLost
    NamedByDay
    Retained
