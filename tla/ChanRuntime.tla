---------------------------- MODULE ChanRuntime ----------------------------
(***************************************************************************)
(* The preemptive concurrency runtime of a native Halis program            *)
(* (src/hlc/runtime.hls): one global mutex g_rt_mu, one condition variable *)
(* g_rt_cv shared by every channel and every join, the channel queues with *)
(* their waiter counters, the task records, and the deadlock detector that *)
(* runs each time a thread is about to sleep.                              *)
(*                                                                         *)
(* Everything between taking g_rt_mu and giving it up, be it by unlocking  *)
(* it or by sleeping on g_rt_cv, is one action.  The threads are arbitrary *)
(* clients: a running thread may make any request it is typed to make, in  *)
(* any order, so the program is the most general one.                      *)
(***************************************************************************)
EXTENDS ChanOps

CONSTANT MaxQueue   \* messages the clients leave pending on an unbounded channel

ASSUME MaxQueueAssumption == MaxQueue \in Nat \ {0}

VARIABLES
    \* threads
    status,     \* "unborn", "starting", "running", "spawning", "asleep", "woken", "exited"
    req,        \* the request an asleep or woken thread is inside of
    \* channels (hl_chan)
    queue, count, waiters, send_waiters,
    \* tasks (hl_task); parent is the thread whose binding holds the handle
    kind, parent, done, joined, refcnt, freed,
    \* the global counters
    rt_tasks, rt_blocked, rt_done_unjoined, rt_join_waiters,
    halted      \* "no", or how the process ended: "deadlock", "panic", "exit"

threadVars == <<status, req>>
chanVars   == <<queue, count>>
waitVars   == <<waiters, send_waiters, rt_blocked, rt_join_waiters>>
birthVars  == <<kind, parent>>
taskVars   == <<birthVars, done, joined, refcnt, freed>>
vars == <<threadVars, chanVars, waitVars, taskVars,
          rt_tasks, rt_done_unjoined, halted>>

-----------------------------------------------------------------------------
(* Sets of threads *)

Parked == {t \in Thread : status[t] \in {"asleep", "woken"}}
Live   == {t \in Thread : status[t] \notin {"unborn", "exited"}}

ParkedRecv(c) == {t \in Parked : req[t].kind \in {"recv", "select"} /\ c \in req[t].chs}
ParkedSend(c) == {t \in Parked : req[t].kind = "send" /\ c \in req[t].chs}
ParkedJoin    == {t \in Parked : req[t].kind = "join"}
DoneUnjoined  == {k \in Task : done[k] /\ ~joined[k]}

Init ==
    /\ status = [t \in Thread |-> IF t = Main THEN "running" ELSE "unborn"]
    /\ req = [t \in Thread |-> NoReq]
    /\ queue = [c \in Chan |-> <<>>]
    /\ count = [c \in Chan |-> 0]
    /\ waiters = [c \in Chan |-> 0]
    /\ send_waiters = [c \in Chan |-> 0]
    /\ kind = [t \in Thread |-> "task"]
    /\ parent = [t \in Thread |-> Nil]
    /\ done = [t \in Thread |-> FALSE]
    /\ joined = [t \in Thread |-> FALSE]
    /\ refcnt = [t \in Thread |-> 0]
    /\ freed = [t \in Thread |-> FALSE]
    /\ rt_tasks = 0
    /\ rt_blocked = 0
    /\ rt_done_unjoined = 0
    /\ rt_join_waiters = 0
    /\ halted = "no"

-----------------------------------------------------------------------------
(* The deadlock detector *)

\* Seeded fault: the scan forgets the senders of channels with room again.
ReceiverOpportunity == \E c \in Chan : queue[c] # <<>> /\ waiters[c] > 0

\* hl_rt_deadlock_check's scan: some channel offers progress to a parked thread.
ChannelOpportunity ==
    \E c \in Chan :
        \/ queue[c] # <<>> /\ waiters[c] > 0
        \/ send_waiters[c] > 0 /\ count[c] < Cap[c]

\* Seeded fault: the guard as it was before a join waiter was required.
JoinExcuseAnyDone == rt_done_unjoined > 0

\* Its early return for joins: some task is finished, some thread is joining.
JoinExcuse == rt_done_unjoined > 0 /\ rt_join_waiters > 0

\* Seeded fault: any pending message rules a deadlock out.
DetectedOnlyWhenEmpty ==
    /\ rt_blocked = rt_tasks + 1
    /\ ~JoinExcuse
    /\ \A c \in Chan : queue[c] = <<>>

DeadlockDetected ==
    /\ rt_blocked = rt_tasks + 1
    /\ ~JoinExcuse
    /\ ~ChannelOpportunity

-----------------------------------------------------------------------------
(* Requests *)

\* The loop conditions of hl_chan_enqueue, hl_chan_wait, hl_chan_select and
\* hl_task_join_wait, negated: the request need not wait.
CanProceed(r) ==
    CASE r.kind = "send"   -> \A c \in r.chs : ~FullAt(c, count[c])
      [] r.kind = "recv"   -> \A c \in r.chs : queue[c] # <<>>
      [] r.kind = "select" -> \E c \in r.chs : queue[c] # <<>>
      [] r.kind = "join"   -> done[r.task]
      [] OTHER             -> TRUE

\* pthread_cond_broadcast by a thread that goes on as next.
Broadcast(t, next) ==
    status' = [s \in Thread |->
                 IF s = t THEN next
                 ELSE IF status[s] = "asleep" THEN "woken" ELSE status[s]]

\* Seeded faults: the new message goes to the head; it is not counted.
EnqueueAtHead(c, v) ==
    /\ queue' = [queue EXCEPT ![c] = <<v>> \o @]
    /\ count' = [count EXCEPT ![c] = @ + 1]

Enqueue(c, v) ==
    /\ queue' = [queue EXCEPT ![c] = Append(@, v)]
    /\ count' = [count EXCEPT ![c] = @ + 1]

\* Seeded fault: the message taken stays counted.
DequeueUncounted(c) ==
    /\ queue' = [queue EXCEPT ![c] = Tail(@)]
    /\ UNCHANGED count

Dequeue(c) ==
    /\ queue' = [queue EXCEPT ![c] = Tail(@)]
    /\ count' = [count EXCEPT ![c] = @ - 1]

PerformSend(t, r) ==
    /\ \E c \in r.chs : Enqueue(c, r.val)
    /\ Broadcast(t, "running")
    /\ UNCHANGED <<joined, rt_done_unjoined>>

\* Seeded fault: a dequeue does not wake the senders of a full channel.
PerformRecvQuietly(t, r) ==
    /\ \E c \in r.chs : Dequeue(c)
    /\ status' = [status EXCEPT ![t] = "running"]
    /\ UNCHANGED <<joined, rt_done_unjoined>>

PerformRecv(t, r) ==
    /\ \E c \in r.chs : Dequeue(c)
    /\ Broadcast(t, "running")
    /\ UNCHANGED <<joined, rt_done_unjoined>>

\* select consumes nothing; it wakes the senders of the channel it found.
PerformSelect(t) ==
    /\ Broadcast(t, "running")
    /\ UNCHANGED <<chanVars, joined, rt_done_unjoined>>

PerformJoin(t, r) ==
    /\ joined' = [joined EXCEPT ![r.task] = TRUE]
    /\ rt_done_unjoined' = rt_done_unjoined - 1
    /\ status' = [status EXCEPT ![t] = "running"]
    /\ UNCHANGED chanVars

\* The part of an operation after its wait loop, up to the unlock.
Perform(t, r) ==
    \/ r.kind = "send"   /\ PerformSend(t, r)
    \/ r.kind = "recv"   /\ PerformRecv(t, r)
    \/ r.kind = "select" /\ PerformSelect(t)
    \/ r.kind = "join"   /\ PerformJoin(t, r)

\* The channels a request is counted on while it waits.
AwaitsMessage(r, c) == r.kind \in {"recv", "select"} /\ c \in r.chs
AwaitsRoom(r, c)    == r.kind = "send" /\ c \in r.chs

\* The counters of a request, raised before the wait and taken down after it.
CountUp(r) ==
    /\ waiters' = [c \in Chan |-> IF AwaitsMessage(r, c) THEN waiters[c] + 1 ELSE waiters[c]]
    /\ send_waiters' = [c \in Chan |-> IF AwaitsRoom(r, c) THEN send_waiters[c] + 1 ELSE send_waiters[c]]
    /\ rt_blocked' = rt_blocked + 1
    /\ rt_join_waiters' = IF r.kind = "join" THEN rt_join_waiters + 1 ELSE rt_join_waiters

CountDown(r) ==
    /\ waiters' = [c \in Chan |-> IF AwaitsMessage(r, c) THEN waiters[c] - 1 ELSE waiters[c]]
    /\ send_waiters' = [c \in Chan |-> IF AwaitsRoom(r, c) THEN send_waiters[c] - 1 ELSE send_waiters[c]]
    /\ rt_blocked' = rt_blocked - 1
    /\ rt_join_waiters' = IF r.kind = "join" THEN rt_join_waiters - 1 ELSE rt_join_waiters

\* hl_rt_park_*: the detector runs on the counters just raised, then the thread sleeps.
Sleep(t, r) ==
    /\ status' = [status EXCEPT ![t] = "asleep"]
    /\ req' = [req EXCEPT ![t] = r]
    /\ halted' = IF DeadlockDetected' THEN "deadlock" ELSE "no"

\* A running thread enters an operation with request r.
Enter(t, r) ==
    /\ status[t] = "running"
    /\ UNCHANGED <<birthVars, done, refcnt, freed, rt_tasks>>
    /\ \/ /\ CanProceed(r)
          /\ Perform(t, r)
          /\ UNCHANGED <<req, waitVars, halted>>
       \/ /\ ~CanProceed(r)
          /\ CountUp(r)
          /\ UNCHANGED <<chanVars, joined, rt_done_unjoined>>
          /\ Sleep(t, r)

\* The clients' bound on unbounded channels.
RoomFor(c) == Cap[c] = 0 => Len(queue[c]) < MaxQueue

Send(t, c, v) == RoomFor(c) /\ Enter(t, SendReq(c, v))
Recv(t, c)    == Enter(t, RecvReq(c))
Select(t, S)  == Enter(t, SelectReq(S))

\* try_send refuses on a full channel and never waits.
TrySend(t, c, v) ==
    /\ status[t] = "running"
    /\ RoomFor(c)
    /\ IF FullAt(c, count[c])
       THEN UNCHANGED vars
       ELSE Enter(t, SendReq(c, v))

\* recv_or answers the caller's default on an empty channel.
RecvOr(t, c) ==
    /\ status[t] = "running"
    /\ IF queue[c] = <<>>
       THEN UNCHANGED vars
       ELSE Enter(t, RecvReq(c))

\* A thread whose binding holds task k joins it; a second join is a panic.
Join(t, k) ==
    /\ parent[k] = t
    /\ refcnt[k] = 1
    /\ status[t] = "running"
    /\ IF joined[k]
       THEN /\ halted' = "panic"
            /\ UNCHANGED <<threadVars, chanVars, waitVars, taskVars, rt_tasks, rt_done_unjoined>>
       ELSE Enter(t, JoinReq(k))

\* select on an empty list is a panic.
SelectNone(t) ==
    /\ status[t] = "running"
    /\ halted' = "panic"
    /\ UNCHANGED <<threadVars, chanVars, waitVars, taskVars, rt_tasks, rt_done_unjoined>>

\* A woken thread gets the mutex back: it takes its counters down, tests its
\* loop condition again, and completes or raises them again and sleeps.
Resume(t) ==
    /\ status[t] = "woken"
    /\ UNCHANGED <<birthVars, done, refcnt, freed, rt_tasks>>
    /\ \/ /\ CanProceed(req[t])
          /\ Perform(t, req[t])
          /\ CountDown(req[t])
          /\ req' = [req EXCEPT ![t] = NoReq]
          /\ UNCHANGED halted
       \/ /\ ~CanProceed(req[t])
          /\ UNCHANGED <<chanVars, waitVars, joined, rt_done_unjoined>>
          /\ Sleep(t, req[t])

\* POSIX lets pthread_cond_wait return without a broadcast.
SpuriousWake(t) ==
    /\ status[t] = "asleep"
    /\ status' = [status EXCEPT ![t] = "woken"]
    /\ UNCHANGED <<req, chanVars, waitVars, taskVars, rt_tasks, rt_done_unjoined, halted>>

-----------------------------------------------------------------------------
(* Tasks *)

\* The first half of hl_spawn and hl_async_spawn: the task is counted before
\* its thread exists.
Spawn(t, k, how) ==
    /\ status[t] = "running"
    /\ status[k] = "unborn"
    /\ status' = [status EXCEPT ![t] = "spawning", ![k] = "starting"]
    /\ kind' = [kind EXCEPT ![k] = how]
    /\ parent' = [parent EXCEPT ![k] = t]
    /\ refcnt' = [refcnt EXCEPT ![k] = IF how = "task" THEN 1 ELSE 0]
    /\ rt_tasks' = rt_tasks + 1
    /\ UNCHANGED <<req, chanVars, waitVars, done, joined, freed, rt_done_unjoined, halted>>

\* hl_thread_start succeeds: the child runs and the spawner returns.
StartThread(t, k) ==
    /\ status[t] = "spawning"
    /\ status[k] = "starting"
    /\ parent[k] = t
    /\ status' = [status EXCEPT ![t] = "running", ![k] = "running"]
    /\ UNCHANGED <<req, chanVars, waitVars, taskVars, rt_tasks, rt_done_unjoined, halted>>

\* It fails: the count is taken back and the process dies.
StartFails(t, k) ==
    /\ status[t] = "spawning"
    /\ status[k] = "starting"
    /\ parent[k] = t
    /\ status' = [status EXCEPT ![k] = "unborn"]
    /\ rt_tasks' = rt_tasks - 1
    /\ halted' = "panic"
    /\ UNCHANGED <<req, chanVars, waitVars, taskVars, rt_done_unjoined>>

\* A body that returns has released its own bindings.
HoldsNoHandle(t) == \A k \in Task : parent[k] = t => refcnt[k] = 0

\* hl_task_finish, at the end of a spawned body.
TaskFinish(k) ==
    /\ status[k] = "running"
    /\ kind[k] = "task"
    /\ HoldsNoHandle(k)
    /\ done' = [done EXCEPT ![k] = TRUE]
    /\ rt_tasks' = rt_tasks - 1
    /\ rt_done_unjoined' = rt_done_unjoined + 1
    /\ Broadcast(k, "exited")
    /\ freed' = [freed EXCEPT ![k] = (refcnt[k] = 0)]
    /\ UNCHANGED <<req, chanVars, waitVars, birthVars, joined, refcnt, halted>>

\* The end of a detached body: async tasks and stream workers.
AsyncFinish(k) ==
    /\ status[k] = "running"
    /\ kind[k] = "async"
    /\ HoldsNoHandle(k)
    /\ rt_tasks' = rt_tasks - 1
    /\ Broadcast(k, "exited")
    /\ UNCHANGED <<req, chanVars, waitVars, taskVars, rt_done_unjoined, halted>>

\* hl_task_release: the binding that holds the handle goes out of scope.
TaskRelease(t, k) ==
    /\ status[t] = "running"
    /\ parent[k] = t
    /\ refcnt[k] = 1
    /\ refcnt' = [refcnt EXCEPT ![k] = 0]
    /\ freed' = [freed EXCEPT ![k] = done[k]]
    /\ UNCHANGED <<threadVars, chanVars, waitVars, birthVars, done, joined,
                   rt_tasks, rt_done_unjoined, halted>>

\* main returns, or a running thread panics: the whole process ends.
ProcessEnds ==
    /\ \E t \in Thread : status[t] = "running"
    /\ halted' = "exit"
    /\ UNCHANGED <<threadVars, chanVars, waitVars, taskVars, rt_tasks, rt_done_unjoined>>

-----------------------------------------------------------------------------

Next ==
    /\ halted = "no"
    /\ \/ \E t \in Thread, c \in Chan :
             \/ \E v \in Carries[c] : Send(t, c, v) \/ TrySend(t, c, v)
             \/ Recv(t, c)
             \/ RecvOr(t, c)
       \/ \E t \in Thread, S \in (SUBSET Chan) \ {{}} : Select(t, S)
       \/ \E t \in Thread : SelectNone(t) \/ Resume(t) \/ SpuriousWake(t)
       \/ \E t \in Thread, k \in Task :
             \/ \E how \in {"task", "async"} : Spawn(t, k, how)
             \/ StartThread(t, k)
             \/ StartFails(t, k)
             \/ Join(t, k)
             \/ TaskRelease(t, k)
       \/ \E k \in Task : TaskFinish(k) \/ AsyncFinish(k)
       \/ ProcessEnds

Spec == Init /\ [][Next]_vars

\* The operating system eventually gives the mutex to a thread that was woken.
LiveSpec == Spec /\ \A t \in Thread : WF_vars(Resume(t))

-----------------------------------------------------------------------------
(* What is checked *)

Statuses == {"unborn", "starting", "running", "spawning", "asleep", "woken", "exited"}

\* Every variable has its type; the counters the code decrements are never negative.
TypeOK ==
    /\ status \in [Thread -> Statuses]
    /\ req \in [Thread -> Requests \cup {NoReq}]
    /\ queue \in [Chan -> Seq(Val)]
    /\ count \in [Chan -> Nat]
    /\ waiters \in [Chan -> Nat]
    /\ send_waiters \in [Chan -> Nat]
    /\ kind \in [Thread -> {"task", "async"}]
    /\ parent \in [Thread -> Thread \cup {Nil}]
    /\ done \in [Thread -> BOOLEAN]
    /\ joined \in [Thread -> BOOLEAN]
    /\ refcnt \in [Thread -> 0..1]
    /\ freed \in [Thread -> BOOLEAN]
    /\ rt_tasks \in Nat
    /\ rt_blocked \in Nat
    /\ rt_done_unjoined \in Nat
    /\ rt_join_waiters \in Nat
    /\ halted \in {"no", "deadlock", "panic", "exit"}

\* The counters the detector reads are exact at every unlock: each is the
\* number of threads, or of tasks, it stands for, those woken and not yet
\* scheduled included (the comment over hl_rt_deadlock_check).
CountersExact ==
    /\ rt_tasks = Cardinality(Live \ {Main})
    /\ rt_blocked = Cardinality(Parked)
    /\ rt_join_waiters = Cardinality(ParkedJoin)
    /\ rt_done_unjoined = Cardinality(DoneUnjoined)
    /\ \A c \in Chan :
         /\ count[c] = Len(queue[c])
         /\ waiters[c] = Cardinality(ParkedRecv(c))
         /\ send_waiters[c] = Cardinality(ParkedSend(c))

\* The detector is sound: when it ends the process, every thread that exists
\* is parked in a request that cannot proceed ("the detector cannot fire
\* spuriously", SPEC.md 25.4).
NoFalseDeadlock ==
    halted = "deadlock" =>
        \A t \in Live : t \in Parked /\ ~CanProceed(req[t])

\* No wake-up is lost: a thread asleep on the condition variable, with no
\* broadcast on its way, is one whose request really cannot proceed, whatever
\* the other senders, receivers and joiners did since it last looked.
NoLostWakeup ==
    \A t \in Thread : status[t] = "asleep" => ~CanProceed(req[t])

\* When every thread sleeps and the process still runs, some thread is in a
\* join and some task is finished and not joined (not always the joined one):
\* the detector was talked out of its verdict by its early return for joins
\* and by nothing else.
HangOnlyByJoinExcuse ==
    (halted = "no" /\ \A t \in Live : status[t] = "asleep")
        => (ParkedJoin # {} /\ DoneUnjoined # {})

\* What the documentation promises: the program never just hangs.
NoSilentHang ==
    ~(halted = "no" /\ \A t \in Live : status[t] = "asleep")

\* A bounded channel never holds more than its capacity, though one dequeue
\* wakes every sender that was waiting for the slot.
WithinCapacity == \A c \in Chan : Cap[c] > 0 => Len(queue[c]) <= Cap[c]

\* The record of a spawned task is freed exactly when the task has finished
\* and its handle is gone, whichever of the two came last.
FreedExact == \A k \in Task : freed[k] <=> (done[k] /\ refcnt[k] = 0)

\* Nobody that joins a task looks at a record that is freed.
JoinersHoldTheRecord ==
    \A t \in Thread, k \in Task : (t \in Parked /\ req[t] = JoinReq(k)) => ~freed[k]

RecordFreedByTheLast == FreedExact /\ JoinersHoldTheRecord

AllStuck ==
    /\ halted = "no"
    /\ \A t \in Live : t \in Parked /\ ~CanProceed(req[t])

\* Once nobody can proceed, and no finished task excuses it, the process is
\* ended: the woken threads look once more and the last one to go back to
\* sleep reports the deadlock.
DeadlockReported == (AllStuck /\ DoneUnjoined = {}) ~> (halted = "deadlock")

\* How the task records, the parked requests and the threads go together: the
\* part of the inductive invariant that is not a counter.
Coherent ==
    /\ status[Main] \in {"running", "spawning", "asleep", "woken"}
    /\ \A t \in Parked : req[t] \in Requests
    /\ \A t \in Parked : req[t].kind = "send" => \A c \in req[t].chs : Cap[c] > 0
    /\ \A t \in Parked : req[t].kind = "join" =>
         /\ parent[req[t].task] = t
         /\ refcnt[req[t].task] = 1
         /\ ~joined[req[t].task]
    /\ \A k \in Thread :
         /\ done[k] => status[k] = "exited"
         /\ joined[k] => done[k]
         /\ (halted = "no" /\ status[k] = "unborn") => refcnt[k] = 0

\* The inductive invariant of the proofs.
IInv ==
    /\ TypeOK
    /\ CountersExact
    /\ Coherent
    /\ NoLostWakeup
    /\ HangOnlyByJoinExcuse
    /\ NoFalseDeadlock
    /\ WithinCapacity

-----------------------------------------------------------------------------
(* The abstract specification it implements *)

AbsMode ==
    [t \in Thread |->
        IF status[t] \in {"asleep", "woken"} THEN "waiting"
        ELSE IF status[t] \in {"running", "spawning"} THEN "running"
        ELSE IF status[t] \in {"unborn", "starting"} THEN "unborn"
        ELSE "exited"]

AbsVerdict ==
    IF halted = "no" THEN "none" ELSE IF halted = "deadlock" THEN "deadlock" ELSE "exit"

Abs == INSTANCE ChanSpec WITH mode <- AbsMode, finished <- done, verdict <- AbsVerdict

\* Queues, waiting and verdicts are those of ChanSpec: FIFO order, a full
\* channel blocks its senders and an empty one its receivers, join returns
\* after the body, and a deadlock verdict is a true one.
ImplementsChanSpec == Abs!Spec
=============================================================================
