------------------------------ MODULE OnceSpec ------------------------------
(***************************************************************************)
(* What a once-cell promises (std/sync.hls): it is set at most once, one   *)
(* set call is told it did so, and whoever reads the cell afterwards gets  *)
(* that value.  Each call takes effect at one instant between the moment   *)
(* it is made and the moment it returns.                                   *)
(***************************************************************************)
CONSTANTS Thread, Val, NoVal

VARIABLES
    cell,       \* the value, or NoVal
    asked,      \* asked[t]: the function t is inside of, "none" if none
    arg,        \* the argument of a set, or the default of a get_or
    answer      \* what the call took effect with, "pending" before that

vars == <<cell, asked, arg, answer>>

Init ==
    /\ cell = NoVal
    /\ asked = [t \in Thread |-> "none"]
    /\ arg = [t \in Thread |-> NoVal]
    /\ answer = [t \in Thread |-> "pending"]

Call(t, function, v) ==
    /\ asked[t] = "none"
    /\ asked' = [asked EXCEPT ![t] = function]
    /\ arg' = [arg EXCEPT ![t] = v]
    /\ UNCHANGED <<cell, answer>>

Answer(t, a) == answer' = [answer EXCEPT ![t] = a]

Set(t) ==
    /\ asked[t] = "set"
    /\ answer[t] = "pending"
    /\ cell' = IF cell = NoVal THEN arg[t] ELSE cell
    /\ Answer(t, IF cell = NoVal THEN "initialised" ELSE "refused")
    /\ UNCHANGED <<asked, arg>>

Get(t) ==
    /\ asked[t] = "get"
    /\ answer[t] = "pending"
    /\ Answer(t, IF cell = NoVal THEN arg[t] ELSE cell)
    /\ UNCHANGED <<cell, asked, arg>>

IsInit(t) ==
    /\ asked[t] = "is_init"
    /\ answer[t] = "pending"
    /\ Answer(t, IF cell = NoVal THEN "no" ELSE "yes")
    /\ UNCHANGED <<cell, asked, arg>>

Return(t) ==
    /\ answer[t] # "pending"
    /\ Answer(t, "pending")
    /\ asked' = [asked EXCEPT ![t] = "none"]
    /\ arg' = [arg EXCEPT ![t] = NoVal]
    /\ UNCHANGED cell

Next ==
    \E t \in Thread :
        \/ \E function \in {"set", "get", "is_init"}, v \in Val \cup {NoVal} : Call(t, function, v)
        \/ Set(t) \/ Get(t) \/ IsInit(t) \/ Return(t)

Spec == Init /\ [][Next]_vars
=============================================================================
