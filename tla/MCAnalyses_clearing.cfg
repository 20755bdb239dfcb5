INIT AnalysesInit
NEXT AnalysesNext
CONSTANTS
    Var = {"x", "y", "n", "i", "s", "p", "a", "b", "u", "v", "w"}
    List = {"xs"}
    IntMax = 4
    MaxLen = 2
    MaxTurns = 3
    SolverReach = 4
    INLINE_MAX_INSTRS = 3
    Fuel = 40
    Family = {"clearing"}
CHECK_DEADLOCK FALSE
INVARIANTS
    ClaimsHold
