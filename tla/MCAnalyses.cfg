INIT AnalysesInit
NEXT AnalysesNext
CONSTANTS
    Var = {"x", "y", "n", "i", "s", "p", "a", "b", "u", "v", "w"}
    List = {"xs"}
    IntMax = 4
    MaxLen = 2
    MaxTurns = 3
    SolverReach = 4
    INLINE_MAX_INSTRS = 3
    Fuel = 40
    Family = {"proof", "inference", "consttime", "moves", "blocks", "graph", "calls"}
CHECK_DEADLOCK FALSE
INVARIANTS
    ElisionSound
    InferredHold
    ClaimsHold
    NoUseAfterMove
    OptimisedRunsAlike
    ReplayedAreDead
    AuthorityHeld
    IrqNeverAllocates
    DepthWithinBudget
    AuditListsAll
    CallsEndAsTyped
