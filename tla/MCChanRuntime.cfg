\* main and two tasks; two payloads on a channel of capacity 1 and an unbounded
\* one, so that select waits on both and FIFO order shows.
SPECIFICATION LiveSpec
CONSTANTS
    main = main
    t1 = t1
    t2 = t2
    narrow = narrow
    wide = wide
    m1 = m1
    m2 = m2
    Nil = Nil
    Main = main
    Thread = {main, t1, t2}
    Chan = {narrow, wide}
    Val = {m1, m2}
    Cap <- MCCap
    Carries <- MCCarries
    MaxQueue = 2
INVARIANTS
    CountersExact
    NoFalseDeadlock
    NoLostWakeup
    HangOnlyByJoinExcuse
PROPERTIES
    DeadlockReported
    ImplementsChanSpec
CHECK_DEADLOCK FALSE
