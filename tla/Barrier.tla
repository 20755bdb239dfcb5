------------------------------ MODULE Barrier ------------------------------
(***************************************************************************)
(* The rendezvous of std/sync.hls: a channel of capacity one holds the     *)
(* number of arrivals, and the last arrival sends one token to the gate    *)
(* for each earlier one.  The barrier is single-use; barrier_reset arms it *)
(* again and leaves it to its caller that nobody is inside.                *)
(*                                                                         *)
(* A round is one use.  The clients call barrier_wait once in a round, and *)
(* one of them resets the barrier once everybody has returned, as the      *)
(* comment over barrier_reset asks.                                        *)
(***************************************************************************)
EXTENDS Integers, Threads

CONSTANTS
    N,          \* participants the barrier was made for
    MaxRound    \* rounds the clients play

ASSUME BarrierAssumption == N \in Nat \ {0} /\ MaxRound \in Nat

VARIABLES
    count,      \* the message in the count channel, or -1 if it is empty
    gate,       \* tokens in the gate channel
    bar_at,         \* the operation a thread is in; "before" and "after" its wait
    bar_c,          \* its local arrival number
    i,          \* tokens it has sent to the gate
    round

barrierVars == <<count, gate, bar_at, bar_c, i, round>>

Empty == -1

\* barrier_new
BarrierInit ==
    /\ count = 0
    /\ gate = 0
    /\ bar_at = [t \in Thread |-> "before"]
    /\ bar_c = [t \in Thread |-> 0]
    /\ i = [t \in Thread |-> 0]
    /\ round = 0

BarrierGoto(t, step) == bar_at' = [bar_at EXCEPT ![t] = step]

CallWait(t) ==
    /\ bar_at[t] = "before"
    /\ BarrierGoto(t, "count.recv")
    /\ UNCHANGED <<count, gate, bar_c, i, round>>

\* Seeded fault: the arrival does not count itself.
IsLastOffByOne(arrived) == arrived >= N

IsLast(arrived) == arrived + 1 >= N

TakeArrivals(t) ==
    /\ bar_at[t] = "count.recv"
    /\ count # Empty
    /\ bar_c' = [bar_c EXCEPT ![t] = count]
    /\ i' = [i EXCEPT ![t] = 0]
    /\ count' = Empty
    /\ BarrierGoto(t, IF IsLast(count) THEN "gate.send" ELSE "count.send")
    /\ UNCHANGED <<gate, round>>

\* An earlier arrival counts itself, and waits at the gate.
PutArrivals(t) ==
    /\ bar_at[t] = "count.send"
    /\ count = Empty
    /\ count' = bar_c[t] + 1
    /\ BarrierGoto(t, "gate.recv")
    /\ UNCHANGED <<gate, bar_c, i, round>>

\* Seeded fault: a token for the last arrival itself as well.
TokensDueOneMore(t) == N - i[t]

\* Gate tokens the last arrival has still to send.
TokensDue(t) == N - 1 - i[t]

\* The last arrival sends its tokens; the gate's capacity is N.
SendGate(t) ==
    /\ bar_at[t] = "gate.send"
    /\ TokensDue(t) > 0
    /\ gate < N
    /\ gate' = gate + 1
    /\ i' = [i EXCEPT ![t] = @ + 1]
    /\ UNCHANGED <<count, bar_at, bar_c, round>>

\* Then it puts the count back as it found it, and returns.
Depart(t) ==
    /\ bar_at[t] = "gate.send"
    /\ TokensDue(t) = 0
    /\ count = Empty
    /\ count' = bar_c[t]
    /\ BarrierGoto(t, "after")
    /\ UNCHANGED <<gate, bar_c, i, round>>

PassGate(t) ==
    /\ bar_at[t] = "gate.recv"
    /\ gate > 0
    /\ gate' = gate - 1
    /\ BarrierGoto(t, "after")
    /\ UNCHANGED <<count, bar_c, i, round>>

\* barrier_reset, whose two operations nothing can come between: its caller
\* sees to it that everybody has returned.
Reset ==
    /\ round < MaxRound
    /\ \A t \in Thread : bar_at[t] = "after"
    /\ count # Empty
    /\ count' = 0
    /\ bar_at' = [t \in Thread |-> "before"]
    /\ round' = round + 1
    /\ UNCHANGED <<gate, bar_c, i>>

BarrierInside(t) == TakeArrivals(t) \/ PutArrivals(t) \/ SendGate(t) \/ Depart(t) \/ PassGate(t)

BarrierNext ==
    \/ \E t \in Thread : CallWait(t) \/ BarrierInside(t)
    \/ Reset

BarrierSpec == BarrierInit /\ [][BarrierNext]_barrierVars

\* Every participant comes, and none is held up in an operation it can complete.
BarrierLiveSpec ==
    BarrierSpec /\ \A t \in Thread : WF_barrierVars(CallWait(t)) /\ SF_barrierVars(BarrierInside(t))

-----------------------------------------------------------------------------
(* What is checked *)

In(step) == {t \in Thread : bar_at[t] = step}

\* Nobody passes in a round before N threads have arrived in it: a token of an
\* earlier round never opens the gate of a later one.
Rendezvous ==
    In("after") # {} => Cardinality(Thread \ (In("before") \cup In("count.recv"))) >= N

\* Everybody who waits passes.
AllPass == \A t \in Thread : bar_at[t] = "count.recv" ~> bar_at[t] = "after"
=============================================================================
