------------------------------ MODULE ChanSpec ------------------------------
(***************************************************************************)
(* What the concurrency runtime promises a Halis program: bounded FIFO     *)
(* channels with any number of senders and receivers, select, spawn and    *)
(* join, and a deadlock verdict given only when it is true.  There is no   *)
(* mutex, no condition variable, no counter and no wake-up here: a thread  *)
(* whose request can proceed may take its step.  ChanRuntime and DetSched  *)
(* both implement this specification.                                      *)
(***************************************************************************)
EXTENDS ChanOps

VARIABLES
    queue,      \* the messages of each channel, oldest first
    mode,       \* "unborn", "running", "waiting" or "exited", per thread
    req,        \* the request of a waiting thread
    finished,   \* the tasks whose body has returned
    verdict     \* "none", "exit" or "deadlock"

vars == <<queue, mode, req, finished, verdict>>

Init ==
    /\ queue = [c \in Chan |-> <<>>]
    /\ mode = [t \in Thread |-> IF t = Main THEN "running" ELSE "unborn"]
    /\ req = [t \in Thread |-> NoReq]
    /\ finished = [t \in Thread |-> FALSE]
    /\ verdict = "none"

\* Every thread that exists waits for something that has not happened.
AllStuck ==
    \A t \in Thread :
        mode[t] \in {"unborn", "exited"}
        \/ (mode[t] = "waiting" /\ ~ReadyFor(req[t], queue, finished))

\* The effect of a request that can proceed.
Effect(r) ==
    \/ /\ r.kind = "send"
       /\ \E c \in r.chs : queue' = [queue EXCEPT ![c] = Append(@, r.val)]
    \/ /\ r.kind = "recv"
       /\ \E c \in r.chs : queue' = [queue EXCEPT ![c] = Tail(@)]
    \/ /\ r.kind \in {"select", "join"}
       /\ UNCHANGED queue

\* A request that can proceed at once.
Do(r) ==
    /\ ReadyFor(r, queue, finished)
    /\ Effect(r)
    /\ UNCHANGED <<mode, req, finished, verdict>>

\* A request that cannot; if its thread is the last one that could have moved,
\* the program may be declared deadlocked.
Wait(t, r) ==
    /\ ~ReadyFor(r, queue, finished)
    /\ mode' = [mode EXCEPT ![t] = "waiting"]
    /\ req' = [req EXCEPT ![t] = r]
    /\ verdict' \in (IF AllStuck' THEN {"none", "deadlock"} ELSE {"none"})
    /\ UNCHANGED <<queue, finished>>

\* A running thread makes any request.
Make(t) ==
    /\ mode[t] = "running"
    /\ \E r \in Requests : Do(r) \/ Wait(t, r)

\* A waiting thread whose request can now proceed.
Complete(t) ==
    /\ mode[t] = "waiting"
    /\ ReadyFor(req[t], queue, finished)
    /\ Effect(req[t])
    /\ mode' = [mode EXCEPT ![t] = "running"]
    /\ req' = [req EXCEPT ![t] = NoReq]
    /\ UNCHANGED <<finished, verdict>>

\* A deadlock is reported only when there is one.
Report ==
    /\ AllStuck
    /\ verdict' = "deadlock"
    /\ UNCHANGED <<queue, mode, req, finished>>

Start(k) ==
    /\ mode[k] = "unborn"
    /\ mode' = [mode EXCEPT ![k] = "running"]
    /\ UNCHANGED <<queue, req, finished, verdict>>

\* The body of task k returns: a spawned task becomes joinable, a detached one
\* is just gone.  It too may have been the last one that could have moved.
Return(k) ==
    /\ mode[k] = "running"
    /\ mode' = [mode EXCEPT ![k] = "exited"]
    /\ \E joinable \in BOOLEAN : finished' = [finished EXCEPT ![k] = joinable]
    /\ verdict' \in (IF AllStuck' THEN {"none", "deadlock"} ELSE {"none"})
    /\ UNCHANGED <<queue, req>>

\* main returns or some thread panics: the process is over.
End ==
    /\ \E t \in Thread : mode[t] = "running"
    /\ verdict' = "exit"
    /\ UNCHANGED <<queue, mode, req, finished>>

Next ==
    /\ verdict = "none"
    /\ \/ \E t \in Thread : Complete(t) \/ Make(t)
       \/ \E k \in Task : Start(k) \/ Return(k)
       \/ Report
       \/ End

Spec == Init /\ [][Next]_vars
=============================================================================
