------------------------------ MODULE DetSched ------------------------------
(***************************************************************************)
(* The deterministic scheduler of Halis programs: a baton that one node,   *)
(* one thread of the program, owns at a time, a FIFO ready queue, and FIFO *)
(* wait lists on channels and tasks in place of the one condition variable *)
(* of ChanRuntime.  The native runtime (src/hlc/runtime.hls, armed by      *)
(* HL_DET_SCHED) and the interpreter (hlinterp/interp_parts/rt_conc.py,    *)
(* boot.py --det) implement the same rotation, "mirrored exactly"; they    *)
(* differ in where the panic of a deadlock found by an ending task goes.   *)
(*                                                                         *)
(* Only the owner runs, and every operation ends by handing the baton on,  *)
(* so one action is one turn: the operation, the wake-ups it makes, its    *)
(* own return to the tail of the queue, and the choice of the next owner.  *)
(***************************************************************************)
EXTENDS ChanOps, SequencesExt

CONSTANTS
    MaxQueue,   \* messages the clients leave pending on an unbounded channel
    MaxCells,   \* cells on one wait list, where the run is cut short
    MaxReady,   \* nodes in the ready queue, likewise
    Interpreted \* TRUE for the interpreter, FALSE for a native program

ASSUME DetSchedAssumption ==
    /\ MaxQueue \in Nat \ {0} /\ MaxCells \in Nat \ {0} /\ MaxReady \in Nat \ {0}
    /\ Interpreted \in BOOLEAN

VARIABLES
    rot,        \* the rotation: [owner, ready, queued], guarded by g_rt_mu
    retired,
    recv_list, send_list, join_list,    \* det_recv, det_send, det_join
    join_live,
    req,        \* the request a parked node is inside of
    queue, kind, parent, done, joined,  \* as in ChanRuntime
    halted      \* "no", "deadlock", "bug", "finished", "panic", "exit"

lists == <<recv_list, send_list, join_list>>
tasks == <<kind, parent, done, joined>>
vars  == <<rot, retired, lists, join_live, req, queue, tasks, halted>>

Born(n) == n = Main \/ parent[n] # Nil

Init ==
    /\ rot = [owner |-> Main, ready |-> <<>>, queued |-> [n \in Thread |-> FALSE]]
    /\ retired = [n \in Thread |-> FALSE]
    /\ recv_list = [c \in Chan |-> <<>>]
    /\ send_list = [c \in Chan |-> <<>>]
    /\ join_list = [k \in Thread |-> <<>>]
    /\ join_live = 0
    /\ req = [n \in Thread |-> NoReq]
    /\ queue = [c \in Chan |-> <<>>]
    /\ kind = [n \in Thread |-> "task"]
    /\ parent = [n \in Thread |-> Nil]
    /\ done = [n \in Thread |-> FALSE]
    /\ joined = [n \in Thread |-> FALSE]
    /\ halted = "no"

-----------------------------------------------------------------------------
(* The rotation *)

\* hl_det_ready_push
Push(r, n) ==
    [owner |-> r.owner, ready |-> Append(r.ready, n), queued |-> [r.queued EXCEPT ![n] = TRUE]]

\* hl_det_wake_list: every node with a cell goes to the ready queue, unless it
\* is there or has retired.
WakeOne(r, n) == IF r.queued[n] \/ retired[n] THEN r ELSE Push(r, n)

WakeAll(r, cells) ==
    LET woken[i \in 0..Len(cells)] == IF i = 0 THEN r ELSE WakeOne(woken[i - 1], cells[i])
    IN  woken[Len(cells)]

\* hl_det_ready_pop and hl_det_pass_locked: the first node of the queue that
\* has not retired is the next owner.
Pass(r, gone) ==
    LET live == {i \in DOMAIN r.ready : ~gone[r.ready[i]]} IN
    IF live = {}
    THEN [owner |-> Nil, ready |-> <<>>, queued |-> r.queued]
    ELSE LET i == CHOOSE j \in live : \A k \in live : j <= k IN
         [owner  |-> r.ready[i],
          ready  |-> SubSeq(r.ready, i + 1, Len(r.ready)),
          queued |-> [r.queued EXCEPT ![r.ready[i]] = FALSE]]

\* Seeded fault: the node goes back to the head of the queue.
YieldToSelf(r, n) == Pass([r EXCEPT !.ready = <<n>> \o @, !.queued[n] = TRUE], retired)

\* hl_det_yield: the owner goes to the tail and passes the baton.
Yield(r, n) == Pass(Push(r, n), retired)

\* hl_det_live_in: some cell of a node that is parked, as far as one can tell.
LiveIn(cells) == \E i \in DOMAIN cells : ~rot.queued[cells[i]] /\ ~retired[cells[i]]

MissedWake ==
    \E c \in Chan :
        \/ queue[c] # <<>> /\ LiveIn(recv_list[c])
        \/ Cap[c] > 0 /\ Len(queue[c]) < Cap[c] /\ LiveIn(send_list[c])

\* hl_det_deadlock_locked, run when the baton goes to nobody.
Verdict ==
    IF rot.owner # Nil THEN "no"
    ELSE IF MissedWake THEN "bug"
    ELSE IF join_live > 0 \/ \E c \in Chan : LiveIn(recv_list[c]) \/ LiveIn(send_list[c])
         THEN "deadlock" ELSE "finished"

\* The scan of a task that ends: the interpreter raises the panic where
\* nothing catches it, so the thread dies and the process goes on.
FinalVerdict == IF Interpreted THEN "no" ELSE Verdict

-----------------------------------------------------------------------------
(* One turn *)

PerformSend(n, r) ==
    /\ \E c \in r.chs :
         /\ queue' = [queue EXCEPT ![c] = Append(@, r.val)]
         /\ rot' = Yield(WakeAll(rot, recv_list[c]), n)
         /\ recv_list' = [recv_list EXCEPT ![c] = <<>>]
    /\ UNCHANGED <<send_list, joined>>

\* Seeded fault: a dequeue wakes no sender.
PerformRecvQuietly(n, r) ==
    /\ \E c \in r.chs :
         /\ queue' = [queue EXCEPT ![c] = Tail(@)]
         /\ rot' = Yield(rot, n)
    /\ UNCHANGED <<recv_list, send_list, joined>>

PerformRecv(n, r) ==
    /\ \E c \in r.chs :
         /\ queue' = [queue EXCEPT ![c] = Tail(@)]
         /\ rot' = Yield(WakeAll(rot, send_list[c]), n)
         /\ send_list' = [send_list EXCEPT ![c] = <<>>]
    /\ UNCHANGED <<recv_list, joined>>

\* select takes nothing, and wakes the senders of the channel it answers, full
\* as it is.
PerformSelect(n, r) ==
    /\ \E c \in r.chs :
         /\ queue[c] # <<>>
         /\ rot' = Yield(WakeAll(rot, send_list[c]), n)
         /\ send_list' = [send_list EXCEPT ![c] = <<>>]
    /\ UNCHANGED <<queue, recv_list, joined>>

PerformJoin(n, r) ==
    /\ joined' = [joined EXCEPT ![r.task] = TRUE]
    /\ rot' = Yield(rot, n)
    /\ UNCHANGED <<queue, recv_list, send_list>>

Perform(n, r) ==
    /\ \/ r.kind = "send"   /\ PerformSend(n, r)
       \/ r.kind = "recv"   /\ PerformRecv(n, r)
       \/ r.kind = "select" /\ PerformSelect(n, r)
       \/ r.kind = "join"   /\ PerformJoin(n, r)
    /\ req' = [req EXCEPT ![n] = NoReq]
    /\ UNCHANGED <<join_list, join_live, halted>>

\* hl_rt_park_*: a cell on the list of everything the request waits for, and
\* the baton goes on.
Park(n, r) ==
    /\ recv_list' = [c \in Chan |-> IF r.kind \in {"recv", "select"} /\ c \in r.chs THEN Append(recv_list[c], n) ELSE recv_list[c]]
    /\ send_list' = [c \in Chan |-> IF r.kind = "send" /\ c \in r.chs THEN Append(send_list[c], n) ELSE send_list[c]]
    /\ join_list' = [k \in Thread |-> IF r.kind = "join" /\ k = r.task THEN Append(join_list[k], n) ELSE join_list[k]]
    /\ join_live' = IF r.kind = "join" THEN join_live + 1 ELSE join_live
    /\ req' = [req EXCEPT ![n] = r]
    /\ rot' = Pass(rot, retired)
    /\ UNCHANGED <<queue, joined>>
    /\ halted' = Verdict'

\* The operation r by the owner n, entered or taken up again after a park.
Turn(n, r) ==
    /\ rot.owner = n
    /\ UNCHANGED <<retired, kind, parent, done>>
    /\ IF ReadyFor(r, queue, done) THEN Perform(n, r) ELSE Park(n, r)

Running(n) == rot.owner = n /\ req[n] = NoReq

\* A parked node that has the baton again tests its condition again.
Resume(n) == req[n] # NoReq /\ Turn(n, req[n])

RoomFor(c) == Cap[c] = 0 => Len(queue[c]) < MaxQueue

Send(n, c, v) == Running(n) /\ RoomFor(c) /\ Turn(n, SendReq(c, v))
Recv(n, c)    == Running(n) /\ Turn(n, RecvReq(c))

Select(n, S) == Running(n) /\ Turn(n, SelectReq(S))

JustYield(n) ==
    /\ rot' = Yield(rot, n)
    /\ UNCHANGED <<retired, lists, join_live, req, queue, tasks, halted>>

\* try_send on a full channel and recv_or on an empty one still take a turn.
TrySend(n, c, v) ==
    /\ Running(n)
    /\ RoomFor(c)
    /\ IF FullAt(c, Len(queue[c])) THEN JustYield(n) ELSE Turn(n, SendReq(c, v))

RecvOr(n, c) ==
    /\ Running(n)
    /\ IF queue[c] = <<>> THEN JustYield(n) ELSE Turn(n, RecvReq(c))

Panic == halted' = "panic" /\ UNCHANGED <<rot, retired, lists, join_live, req, queue, tasks>>

SelectNone(n) == Running(n) /\ Panic

Join(n, k) ==
    /\ Running(n)
    /\ parent[k] = n
    /\ kind[k] = "task"
    /\ IF joined[k] THEN Panic ELSE Turn(n, JoinReq(k))

\* hl_spawn and hl_async_spawn: the child enters the queue before its spawner
\* does, and its thread waits for the baton whenever the system starts it.
Spawn(n, k, how) ==
    /\ Running(n)
    /\ ~Born(k)
    /\ parent' = [parent EXCEPT ![k] = n]
    /\ kind' = [kind EXCEPT ![k] = how]
    /\ rot' = Yield(Push(rot, k), n)
    /\ UNCHANGED <<retired, lists, join_live, req, queue, done, joined, halted>>

\* The thread cannot be created: the node is retired and the process dies.
SpawnFails(n, k) ==
    /\ Running(n)
    /\ ~Born(k)
    /\ rot' = Push(rot, k)
    /\ retired' = [retired EXCEPT ![k] = TRUE]
    /\ halted' = "panic"
    /\ UNCHANGED <<lists, join_live, req, queue, tasks>>

\* Seeded fault: the task retires before it wakes its joiners.
FinishWithoutWake(k) ==
    /\ Running(k)
    /\ k # Main
    /\ kind[k] = "task"
    /\ done' = [done EXCEPT ![k] = TRUE]
    /\ retired' = [retired EXCEPT ![k] = TRUE]
    /\ rot' = Pass(rot, retired')
    /\ UNCHANGED <<lists, join_live, req, queue, kind, parent, joined>>
    /\ halted' = Verdict'

\* hl_task_finish: the joiners are woken, the node retires and passes the baton.
Finish(k) ==
    /\ Running(k)
    /\ k # Main
    /\ kind[k] = "task"
    /\ done' = [done EXCEPT ![k] = TRUE]
    /\ retired' = [retired EXCEPT ![k] = TRUE]
    /\ LET woken == WakeAll(rot, join_list[k]) IN
       /\ rot' = Pass(woken, retired')
       /\ join_live' = join_live - (Len(woken.ready) - Len(rot.ready))
    /\ join_list' = [join_list EXCEPT ![k] = <<>>]
    /\ UNCHANGED <<recv_list, send_list, req, queue, kind, parent, joined>>
    /\ halted' = FinalVerdict'

\* A detached body retires without a finish.
AsyncFinish(k) ==
    /\ Running(k)
    /\ k # Main
    /\ kind[k] = "async"
    /\ retired' = [retired EXCEPT ![k] = TRUE]
    /\ rot' = Pass(rot, retired')
    /\ UNCHANGED <<lists, join_live, req, queue, tasks>>
    /\ halted' = FinalVerdict'

\* main returns, or the owner panics: the whole process ends.
ProcessEnds ==
    /\ \E n \in Thread : Running(n)
    /\ halted' = "exit"
    /\ UNCHANGED <<rot, retired, lists, join_live, req, queue, tasks>>

\* The cells that selects leave behind pile up, and so do the turns they give.
Bounded ==
    /\ Len(rot.ready) <= MaxReady
    /\ \A c \in Chan : Len(recv_list[c]) <= MaxCells /\ Len(send_list[c]) <= MaxCells
    /\ \A k \in Thread : Len(join_list[k]) <= MaxCells

Next ==
    /\ halted = "no"
    /\ Bounded
    /\ \E n \in Thread :
        \/ \E c \in Chan :
             \/ \E v \in Carries[c] : Send(n, c, v) \/ TrySend(n, c, v)
             \/ Recv(n, c)
             \/ RecvOr(n, c)
        \/ \E S \in (SUBSET Chan) \ {{}} : Select(n, S)
        \/ SelectNone(n)
        \/ Resume(n)
        \/ \E k \in Task :
             \/ \E how \in {"task", "async"} : Spawn(n, k, how)
             \/ SpawnFails(n, k)
             \/ Join(n, k)
        \/ Finish(n)
        \/ AsyncFinish(n)
        \/ ProcessEnds

Spec == Init /\ [][Next]_vars

\* The owner's program goes on: it makes another operation, or it ends.
LiveSpec == Spec /\ WF_vars(Next)

-----------------------------------------------------------------------------
(* What is checked *)

\* The scan never finds a missed wake, and never finds nobody waiting while
\* main is: whenever the baton goes to nobody, it is a deadlock.
ScanFindsDeadlock == halted \notin {"bug", "finished"}

\* Every node in the ready queue that has not retired gets its turn.
EveryTurnComes ==
    \A n \in Thread :
        (n \in ToSet(rot.ready) /\ ~retired[n])
            ~> (rot.owner = n \/ retired[n] \/ halted # "no" \/ ~Bounded)

AbsMode ==
    [n \in Thread |->
        IF ~Born(n) THEN "unborn"
        ELSE IF retired[n] THEN "exited"
        ELSE IF req[n] # NoReq THEN "waiting" ELSE "running"]

AbsVerdict ==
    IF halted = "no" THEN "none" ELSE IF halted \in {"panic", "exit"} THEN "exit" ELSE "deadlock"

Abs == INSTANCE ChanSpec WITH mode <- AbsMode, finished <- done, verdict <- AbsVerdict

\* The rotation gives a program the same channels, joins and verdicts as the
\* preemptive runtime: both implement ChanSpec.
ImplementsChanSpec == Abs!Spec
=============================================================================
