SPECIFICATION SyncSpec
CONSTANTS
    inner = inner
    other = other
    outer = outer
    Thread = {t1, t2, t3}
    Owner = {t1, t2}
    Chan = {inner, other, outer}
    Plain = m1
    Level <- MCLevel
    Cap <- MCCap
    StreamCap = 1
    Pipelines <- Pipes
    MaxRefs <- MCMaxRefs
    Nil = Nil
    SigCap = 2
    N = 3
    MaxRound = 2
    Val = {a, b}
    NoVal = Nil
CHECK_DEADLOCK FALSE
INVARIANT
    NoUserAtLastRelease
