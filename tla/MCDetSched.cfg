SPECIFICATION LiveSpec
CONSTANTS
    main = main
    t1 = t1
    t2 = t2
    narrow = narrow
    wide = wide
    m1 = m1
    Nil = Nil
    Main = main
    Thread = {main, t1, t2}
    Chan = {narrow, wide}
    Val = {m1}
    Cap <- MCCap
    Carries <- MCCarries
    MaxQueue = 1
    MaxCells = 1
    MaxReady = 2
    Interpreted = FALSE
CHECK_DEADLOCK FALSE
INVARIANTS
    ScanFindsDeadlock
PROPERTIES
    EveryTurnComes
    ImplementsChanSpec
