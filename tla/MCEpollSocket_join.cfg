CONSTANTS
    c1 = c1
    c2 = c2
    w1 = w1
    w2 = w2
    Loop = Loop
    None = None
    Conns <- OneConn
    Workers <- OneWorker
    NumFDs = 1
    IdleMax = 0
    MaxEvents = 2
    TaskLimit <- NoLimit
    Others = 0
    MayStop = TRUE
    StopEarly = FALSE
    MayFail = FALSE
    MayHangUp = TRUE
    MayList = FALSE
SPECIFICATION FairSpec
PROPERTY StopThenJoin
