SPECIFICATION ToolsSpec
CONSTANTS
    p0 = p0
    p1 = p1
    c1 = c1
    aud = aud
    dev = dev
    Actor = {aud, dev}
    Revision = {c1, c2}
    Surface <- MCSurface
    MaxPasses = 1
    MaxFindings = 2
    MaxTime = 1
    Missing = Missing
    MaxId = 1
    c2 = c2
    v2 = v2
    File = {f1, f2}
    Tab = {b1}
    MaxSaves = 2
    Polls = 2
    HotReload = TRUE
    Prog = {p0, p1}
    MainProg = p0
    MaxDepth <- MCMaxDepth
    Writer = {w1, w2}
    Mirror = {m1}
    Body = {a, b}
    MaxLines = 2
    Project = {q1, q2}
    q1 = q1
    q2 = q2
    Commit = {c1, c2}
    NoCommit = NoCommit
    Tag = {v2}
    Effectful = {c2}
    NoVersion = NoVersion
    NoRequirement = NoRequirement
    TagVersion <- MCTagVersion
    OwnVersion <- MCOwnVersion
    Demand <- MCDemand
    Version <- MCVersion
    Requirement <- MCRequirement
CHECK_DEADLOCK FALSE
INVARIANTS
    BusTellsAll
    StackIsReal
    AppendsAreKept
    VerdictsAreTrue
    SatisfiesAsDocumented
    VerifiedMeetsRequirement
    SealsAreEarned
PROPERTIES
    SavesReachABuild
    CommandsArrive
