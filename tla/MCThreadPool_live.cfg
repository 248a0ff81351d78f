CONSTANTS
    w1 = w1
    w2 = w2
    w3 = w3
    w4 = w4
    s1 = s1
    s2 = s2
    t1 = t1
    t2 = t2
    t3 = t3
    NoTask = NoTask
    Main = Main
    Nobody = Nobody
    Workers <- TwoWorkers
    Submitters <- OneSubmitter
    Tasks <- TwoTasks
    PoolSizes = {1, 2}
    Limits <- AllLimits
    MaxStarts = 1
    MayFailCreate = TRUE
SPECIFICATION FairSpec
INVARIANT JoinedAll
PROPERTIES
    AcceptedRuns
    StopCompletes
