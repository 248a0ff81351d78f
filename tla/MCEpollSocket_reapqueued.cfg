CONSTANTS
    c1 = c1
    c2 = c2
    w1 = w1
    w2 = w2
    Loop = Loop
    None = None
    Conns <- OneConn
    Workers <- TwoWorkers
    NumFDs = 1
    IdleMax = 1
    MaxEvents = 2
    TaskLimit <- NoLimit
    Others = 0
    MayStop = FALSE
    StopEarly = FALSE
    MayFail = FALSE
    MayHangUp = TRUE
    MayList = FALSE
SPECIFICATION Spec
INVARIANT ReaperSparesQueued
