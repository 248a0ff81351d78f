CONSTANTS
    c1 = c1
    c2 = c2
    w1 = w1
    w2 = w2
    Loop = Loop
    None = None
    Conns <- TwoConns
    Workers <- TwoWorkers
    NumFDs = 2
    IdleMax = 0
    MaxEvents = 2
    TaskLimit = 1
    Others = 2
    MayStop = TRUE
    StopEarly = FALSE
    MayFail = TRUE
    MayHangUp = FALSE
    MayList = TRUE
SPECIFICATION Spec
SYMMETRY Symmetry
INVARIANTS
    TypeOK
    OneOwner
    ClientsMatch
    RegistrationSound
    SocketOwned
    ContextsLive
PROPERTY ImplementsService
