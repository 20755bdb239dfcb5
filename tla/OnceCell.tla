------------------------------ MODULE OnceCell ------------------------------
(***************************************************************************)
(* The once-cell of std/sync.hls, the same code for int, str and bool: a   *)
(* channel of capacity one holds the state, another the value once it is   *)
(* set.  A read takes the message out and sends it back, so for a moment   *)
(* an initialised cell has nothing in its value channel; and the state     *)
(* says "initialised" before the value has been sent.                      *)
(***************************************************************************)
EXTENDS Integers, Sequences, Threads

CONSTANTS Val, NoVal

ASSUME OnceCellAssumption == NoVal \notin Val /\ "pending" \notin Val \cup {NoVal}

VARIABLES
    state, value,   \* the two channels, at most one message each
    cell_call,           \* the function a thread is inside of: "none", "set", "get", "is_init"
    cell_at,             \* the channel operation it is to make there
    s, v,           \* its local state and value
    arg,            \* the value to set, or get_or's default (NoVal for get)
    panicked

cellVars == <<state, value, cell_call, cell_at, s, v, arg, panicked>>

CellInit ==
    /\ state = <<0>>
    /\ value = <<>>
    /\ cell_call = [t \in Thread |-> "none"]
    /\ cell_at = [t \in Thread |-> "rest"]
    /\ s = [t \in Thread |-> 0]
    /\ v = [t \in Thread |-> NoVal]
    /\ arg = [t \in Thread |-> NoVal]
    /\ panicked = FALSE

CellGoto(t, step) == cell_at' = [cell_at EXCEPT ![t] = step]

\* set(x); get_or(x), or get() if x is NoVal; is_init().
CellBegin(t, function, x) ==
    /\ cell_call[t] = "none"
    /\ function = "set" => x # NoVal
    /\ function = "is_init" => x = NoVal
    /\ cell_call' = [cell_call EXCEPT ![t] = function]
    /\ arg' = [arg EXCEPT ![t] = x]
    /\ CellGoto(t, "state.recv")
    /\ UNCHANGED <<state, value, s, v, panicked>>

TakeState(t) ==
    /\ cell_at[t] = "state.recv"
    /\ state # <<>>
    /\ s' = [s EXCEPT ![t] = Head(state)]
    /\ state' = <<>>
    /\ CellGoto(t, "state.send")
    /\ UNCHANGED <<value, cell_call, v, arg, panicked>>

\* Seeded fault: set initialises whatever the state was.
InitialisesAlways(t) == cell_call[t] = "set"

\* The set that found the cell uninitialised.
Initialises(t) == cell_call[t] = "set" /\ s[t] = 0

\* A get or get_or that found it initialised.
Reads(t) == cell_call[t] = "get" /\ s[t] = 1

PutState(t) ==
    /\ cell_at[t] = "state.send"
    /\ state = <<>>
    /\ state' = <<IF Initialises(t) THEN 1 ELSE s[t]>>
    /\ CellGoto(t, IF Initialises(t) THEN "value.send" ELSE IF Reads(t) THEN "value.recv" ELSE "return")
    /\ v' = [v EXCEPT ![t] = IF Initialises(t) THEN arg[t] ELSE @]
    /\ UNCHANGED <<value, cell_call, s, arg, panicked>>

TakeValue(t) ==
    /\ cell_at[t] = "value.recv"
    /\ value # <<>>
    /\ v' = [v EXCEPT ![t] = Head(value)]
    /\ value' = <<>>
    /\ CellGoto(t, "value.send")
    /\ UNCHANGED <<state, cell_call, s, arg, panicked>>

\* A set sends its value, a read sends back the one it took.
PutValue(t) ==
    /\ cell_at[t] = "value.send"
    /\ value = <<>>
    /\ value' = <<v[t]>>
    /\ CellGoto(t, "return")
    /\ UNCHANGED <<state, cell_call, s, v, arg, panicked>>

\* get panics on an uninitialised cell.
Panics(t) == cell_call[t] = "get" /\ s[t] = 0 /\ arg[t] = NoVal

CellReturn(t) ==
    /\ cell_at[t] = "return"
    /\ IF Panics(t)
       THEN panicked' = TRUE /\ UNCHANGED <<cell_call, cell_at, v, arg>>
       ELSE /\ cell_call' = [cell_call EXCEPT ![t] = "none"]
            /\ CellGoto(t, "rest")
            /\ arg' = [arg EXCEPT ![t] = NoVal]
            /\ v' = [v EXCEPT ![t] = NoVal]
            /\ UNCHANGED panicked
    /\ UNCHANGED <<state, value, s>>

CellInside(t) == TakeState(t) \/ PutState(t) \/ TakeValue(t) \/ PutValue(t) \/ CellReturn(t)

CellNext ==
    /\ ~panicked
    /\ \E t \in Thread :
        \/ \E function \in {"set", "get", "is_init"}, x \in Val \cup {NoVal} : CellBegin(t, function, x)
        \/ CellInside(t)

CellSpec == CellInit /\ [][CellNext]_cellVars

-----------------------------------------------------------------------------
(* What is checked *)

Carriers == {t \in Thread : cell_at[t] = "value.send"}

\* The value of the cell from the outside, wherever it is for the moment.
Cell ==
    IF value # <<>> THEN Head(value)
    ELSE IF Carriers # {} THEN v[CHOOSE t \in Carriers : TRUE]
    ELSE NoVal

\* What the call of t has been answered with, though it has not returned yet.
Answered(t) ==
    IF cell_at[t] \in {"rest", "state.recv", "state.send"} THEN "pending"
    ELSE IF cell_call[t] = "set" THEN IF s[t] = 0 THEN "initialised" ELSE "refused"
    ELSE IF cell_call[t] = "is_init" THEN IF s[t] = 0 THEN "no" ELSE "yes"
    ELSE IF s[t] = 0 THEN arg[t]
    ELSE IF cell_at[t] = "value.recv" THEN Cell ELSE v[t]

Answers == [t \in Thread |-> Answered(t)]

AbsCell == INSTANCE OnceSpec WITH cell <- Cell, asked <- cell_call, answer <- Answers

\* The cell is linearisable: every call can be given one instant at which it
\* takes effect, the set that wins at its send of the state.
ImplementsOnceSpec == AbsCell!Spec

=============================================================================
