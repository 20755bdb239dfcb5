------------------------------ MODULE Monitor ------------------------------
(***************************************************************************)
(* The mutex and the condition variable of std/sync.hls, used together: a  *)
(* mutex is a channel of capacity one with a token in it, a condition      *)
(* variable a bounded channel of wake tokens.  condvar_wait is three       *)
(* channel operations, not one atomic step, and the tokens are kept, so a  *)
(* wake-up is addressed to nobody in particular.                           *)
(*                                                                         *)
(* Threads keep the contract: only the holder of the mutex unlocks it or   *)
(* waits, and it does not lock it twice.  Anybody signals.                 *)
(***************************************************************************)
EXTENDS Integers, Threads

CONSTANT SigCap     \* capacity of the wake channel, 1024 in condvar_new

ASSUME MonitorAssumption == SigCap \in Nat \ {0}

VARIABLES
    token,      \* messages in the mutex's channel
    sig,        \* messages in the condition variable's channel
    mon_at,         \* the channel operation a thread is in, "rest" if none
    holds,      \* holds[t]: t owns the mutex
    left        \* left[t]: wake tokens t has still to send

monitorVars == <<token, sig, mon_at, holds, left>>

\* mutex_new, condvar_new
MonitorInit ==
    /\ token = 1
    /\ sig = 0
    /\ mon_at = [t \in Thread |-> "rest"]
    /\ holds = [t \in Thread |-> FALSE]
    /\ left = [t \in Thread |-> 0]

MonitorGoto(t, step) == mon_at' = [mon_at EXCEPT ![t] = step]

-----------------------------------------------------------------------------
(* The mutex *)

CallLock(t) ==
    /\ mon_at[t] = "rest"
    /\ ~holds[t]
    /\ MonitorGoto(t, "token.recv")
    /\ UNCHANGED <<token, sig, holds, left>>

\* mutex_lock, and the end of condvar_wait
Lock(t) ==
    /\ mon_at[t] = "token.recv"
    /\ token > 0
    /\ token' = token - 1
    /\ holds' = [holds EXCEPT ![t] = TRUE]
    /\ MonitorGoto(t, "rest")
    /\ UNCHANGED <<sig, left>>

\* mutex_try_lock: recv_or answers -1 when the mutex is taken.
TryLock(t) ==
    /\ mon_at[t] = "rest"
    /\ ~holds[t]
    /\ token' = IF token > 0 THEN token - 1 ELSE token
    /\ holds' = [holds EXCEPT ![t] = token > 0]
    /\ UNCHANGED <<sig, mon_at, left>>

\* mutex_unlock.  Its send waits, for ever, if the token is already there.
Unlock(t) ==
    /\ mon_at[t] = "rest"
    /\ holds[t]
    /\ token < 1
    /\ token' = token + 1
    /\ holds' = [holds EXCEPT ![t] = FALSE]
    /\ UNCHANGED <<sig, mon_at, left>>

-----------------------------------------------------------------------------
(* The condition variable *)

\* Seeded fault: the mutex is kept during the wait.
WaitKeepsMutex(t) ==
    /\ mon_at[t] = "rest"
    /\ holds[t]
    /\ token < 1
    /\ MonitorGoto(t, "sig.recv")
    /\ holds' = [holds EXCEPT ![t] = FALSE]
    /\ UNCHANGED <<token, sig, left>>

\* condvar_wait, first operation: the mutex is unlocked.
Wait(t) ==
    /\ mon_at[t] = "rest"
    /\ holds[t]
    /\ token < 1
    /\ token' = token + 1
    /\ holds' = [holds EXCEPT ![t] = FALSE]
    /\ MonitorGoto(t, "sig.recv")
    /\ UNCHANGED <<sig, left>>

\* Its second: a wake token is received, sent before the wait or after.
Wake(t) ==
    /\ mon_at[t] = "sig.recv"
    /\ sig > 0
    /\ sig' = sig - 1
    /\ MonitorGoto(t, "token.recv")
    /\ UNCHANGED <<token, holds, left>>

\* condvar_signal is a broadcast of one.
CallBroadcast(t, n) ==
    /\ mon_at[t] = "rest"
    /\ left' = [left EXCEPT ![t] = n]
    /\ MonitorGoto(t, "sig.send")
    /\ UNCHANGED <<token, sig, holds>>

SendSignal(t) ==
    /\ mon_at[t] = "sig.send"
    /\ sig < SigCap
    /\ sig' = sig + 1
    /\ left' = [left EXCEPT ![t] = @ - 1]
    /\ MonitorGoto(t, IF left[t] = 1 THEN "rest" ELSE "sig.send")
    /\ UNCHANGED <<token, holds>>

-----------------------------------------------------------------------------

MonitorInside(t) == Lock(t) \/ Wake(t) \/ SendSignal(t)

MonitorNext ==
    \E t \in Thread :
        \/ MonitorInside(t)
        \/ CallLock(t)
        \/ TryLock(t)
        \/ Unlock(t)
        \/ Wait(t)
        \/ \E n \in 1..Cardinality(Thread) : CallBroadcast(t, n)

MonitorSpec == MonitorInit /\ [][MonitorNext]_monitorVars

-----------------------------------------------------------------------------
(* What is checked *)

Holders == {t \in Thread : holds[t]}

\* The channel operation t is in can be made: Inside(t) is enabled.
CanStep(t) ==
    \/ mon_at[t] = "token.recv" /\ token > 0
    \/ mon_at[t] = "sig.recv"   /\ sig > 0
    \/ mon_at[t] = "sig.send"   /\ sig < SigCap

\* The monitor stops only for want of a signal, or with its wake channel full:
\* when no thread is at rest and none can step, all of them wait for a wake-up
\* that was not sent, or some thread has one to send and no room to send it.
StuckOnlyForSignals ==
    (\A t \in Thread : mon_at[t] # "rest" /\ ~CanStep(t))
        => \/ \A t \in Thread : mon_at[t] = "sig.recv" /\ sig = 0
           \/ sig = SigCap /\ \E t \in Thread : mon_at[t] = "sig.send"

=============================================================================
