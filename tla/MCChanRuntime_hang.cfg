\* The documented promise that a program never just hangs.
SPECIFICATION Spec
CONSTANTS
    main = main
    t1 = t1
    t2 = t2
    narrow = narrow
    wide = wide
    m1 = m1
    m2 = m2
    Nil = Nil
    Main = main
    Thread = {main, t1, t2}
    Chan = {narrow}
    Val = {m1}
    Cap <- MCOneCap
    Carries <- MCOneCarries
    MaxQueue = 1
INVARIANT
    NoSilentHang
CHECK_DEADLOCK FALSE
