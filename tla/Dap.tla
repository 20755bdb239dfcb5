-------------------------------- MODULE Dap --------------------------------
(***************************************************************************)
(* The debug adapter (tools/hls-dap.py): the threads of the interpreter    *)
(* run under hooks around every call and every statement; a thread that    *)
(* decides to stop waits for a command; the adapter thread serves one      *)
(* request at a time.                                                      *)
(*                                                                         *)
(* A thread's record holds what the interpreter does (life, calls) and     *)
(* what the debugger believes: frames, the depth of the hooks' frame       *)
(* stack, and its entry of DebugEngine.states.                             *)
(***************************************************************************)
EXTENDS Naturals, FiniteSets

CONSTANTS
    Prog,       \* the threads of the program
    MainProg,   \* the one that runs main
    MaxDepth    \* MaxDepth[t]: calls nested in t

ASSUME DapAssumption == MainProg \in Prog /\ MaxDepth \in [Prog -> Nat \ {0}]

VARIABLES
    thr,        \* thr[t]: see above
    evals,      \* in_eval
    bps,        \* whether eng.breakpoints has the marked line
    panic,      \* the first panic record: [by, depth], by = "nobody" if there is none
    frameIds,   \* frame_handles: [by, depth, old], the frames 1..depth of a snapshot;
                \* old: its thread ran since (history)
    gone,       \* the process exited
    raisedAt,   \* raisedAt[t]: the depth at which t panicked (history)
    overlap     \* an evaluation ran while some thread did (history)

dapVars == <<thr, evals, bps, panic, frameIds, gone, raisedAt, overlap>>

Verb == {"continue", "in", "over", "out"}
NoCommand == [verb |-> "none", depth |-> 0]
NoPanic == [by |-> "nobody", depth |-> 0]

Fresh(entry) == [life |-> "new", calls |-> 0, frames |-> 0, mode |-> "run", cmd |-> NoCommand,
                 pause |-> FALSE, entry |-> entry, snap |-> 0, asleep |-> FALSE]

DapInit ==
    /\ \E stopOnEntry \in BOOLEAN : thr = [t \in Prog |-> Fresh(t = MainProg /\ stopOnEntry)]
    /\ evals = 0
    /\ bps = FALSE
    /\ panic = NoPanic
    /\ frameIds = {}
    /\ gone = FALSE
    /\ raisedAt = [t \in Prog |-> 0]
    /\ overlap = FALSE

-----------------------------------------------------------------------------
(* The interpreter's threads, under the hooks *)

Runs(t) == ~gone /\ thr[t].mode = "run" /\ thr[t].life = "on"

\* call_fn, hook_enter; the first call of main, or of a task, starts the thread.
Enter(t) ==
    /\ ~gone
    /\ thr[t].mode = "run"
    /\ \/ thr[t].life = "new" /\ (t = MainProg \/ thr[MainProg].life = "on")
       \/ thr[t].life = "on"
    /\ thr[t].calls < MaxDepth[t]
    /\ thr' = [thr EXCEPT ![t].life = "on", ![t].calls = @ + 1,
                          ![t].frames = IF evals > 0 THEN @ ELSE @ + 1]
    /\ overlap' = (overlap \/ evals > 0)
    /\ UNCHANGED <<evals, bps, panic, frameIds, gone, raisedAt>>

\* hook_leave pops whatever hook_enter did.
Popped(r) == [r EXCEPT !.calls = @ - 1, !.frames = IF @ > 0 THEN @ - 1 ELSE 0]

Leave(t) ==
    /\ Runs(t)
    /\ thr[t].calls > 0
    /\ thr' = [thr EXCEPT ![t] = IF thr[t].calls = 1 THEN [Popped(@) EXCEPT !.life = "done"] ELSE Popped(@)]
    /\ overlap' = (overlap \/ evals > 0)
    /\ UNCHANGED <<evals, bps, panic, frameIds, gone, raisedAt>>

\* Why hook_stmt stops the thread at a statement on a line that is marked or
\* not; "go" if it does not.
Reason(t, marked) ==
    LET r == thr[t] IN
    CASE r.entry                                        -> "entry"
      [] ~r.entry /\ marked /\ bps             -> "breakpoint"
      [] ~r.entry /\ ~(marked /\ bps) /\
            \/ r.cmd.verb = "in"
            \/ r.cmd.verb = "over" /\ r.frames <= r.cmd.depth
            \/ r.cmd.verb = "out" /\ r.frames < r.cmd.depth
                                                        -> "step"
      [] OTHER                                          -> IF r.pause THEN "pause" ELSE "go"

Watched(t) == evals = 0 /\ thr[t].frames > 0

\* The snapshot of a stop: the handles of every thread are dropped, and the
\* frames of this one registered.
Snapped(t, depth) == {[by |-> t, depth |-> depth, old |-> FALSE]}

Stopped(t, why) ==
    [thr[t] EXCEPT !.mode = "paused", !.cmd = NoCommand, !.snap = thr[t].frames, !.asleep = TRUE,
                   !.entry = IF why = "entry" THEN FALSE ELSE @,
                   !.pause = IF why = "pause" THEN FALSE ELSE @]

\* hook_stmt and _go_paused, as far as the wait.
Stop(t) ==
    /\ Runs(t) /\ Watched(t)
    /\ \E marked \in BOOLEAN :
         LET why == Reason(t, marked) IN
         /\ why # "go"
         /\ thr' = [thr EXCEPT ![t] = Stopped(t, why)]
    /\ frameIds' = Snapped(t, thr[t].frames)
    /\ UNCHANGED <<evals, bps, panic, gone, raisedAt, overlap>>

\* The wait ends once there is a command, which stays in force.
Resume(t) ==
    /\ ~gone
    /\ thr[t].mode = "paused" /\ thr[t].life = "on"
    /\ ~thr[t].asleep
    /\ IF thr[t].cmd = NoCommand
       THEN thr' = [thr EXCEPT ![t].asleep = TRUE] /\ UNCHANGED frameIds
       ELSE /\ thr' = [thr EXCEPT ![t].mode = "run"]
            /\ frameIds' = {[h EXCEPT !.old = @ \/ h.by = t] : h \in frameIds}
    /\ UNCHANGED <<evals, bps, panic, gone, raisedAt, overlap>>

\* A statement of t panics: exec_stmt records the first panic of the session
\* where it is raised; the outer statements find it recorded.
Raise(t) ==
    /\ Runs(t)
    /\ thr[t].calls > 0
    /\ thr' = [thr EXCEPT ![t].life = "unwinding"]
    /\ raisedAt' = [raisedAt EXCEPT ![t] = thr[t].calls]
    /\ panic' = IF evals = 0 /\ panic = NoPanic THEN [by |-> t, depth |-> thr[t].frames] ELSE panic
    /\ UNCHANGED <<evals, bps, frameIds, gone, overlap>>

\* Seeded fault: each statement the panic passes records it again.
UnwindRecording(t) ==
    /\ ~gone
    /\ thr[t].life = "unwinding"
    /\ thr[t].calls > 0
    /\ thr' = [thr EXCEPT ![t] = Popped(@)]
    /\ panic' = [by |-> t, depth |-> thr[t].frames]
    /\ overlap' = (overlap \/ evals > 0)
    /\ UNCHANGED <<evals, bps, frameIds, gone, raisedAt>>

\* One call is left by the panic; the finally of call_fn pops its frame.
Unwind(t) ==
    /\ ~gone
    /\ thr[t].life = "unwinding"
    /\ thr[t].calls > 0
    /\ thr' = [thr EXCEPT ![t] = Popped(@)]
    /\ overlap' = (overlap \/ evals > 0)
    /\ UNCHANGED <<evals, bps, panic, frameIds, gone, raisedAt>>

\* A panic that leaves a task ends the process; one that leaves main parks the
\* session at the recorded site (the exception filter is on), or ends it when
\* nothing was recorded.
Die(t) ==
    /\ ~gone
    /\ thr[t].life = "unwinding"
    /\ thr[t].calls = 0
    /\ IF t # MainProg
       THEN gone' = TRUE /\ UNCHANGED <<thr, frameIds>>
       ELSE /\ IF panic # NoPanic
               THEN /\ thr' = [thr EXCEPT ![t].life = "dead", ![t].mode = "paused", ![t].cmd = NoCommand,
                                          ![t].snap = panic.depth, ![t].asleep = TRUE]
                    /\ frameIds' = Snapped(t, panic.depth)
               ELSE thr' = [thr EXCEPT ![t].life = "done"] /\ UNCHANGED frameIds
            /\ UNCHANGED gone
    /\ UNCHANGED <<evals, bps, panic, raisedAt, overlap>>

\* wait_panic_resume returns.
Bury(t) ==
    /\ ~gone
    /\ thr[t].life = "dead" /\ thr[t].mode = "paused"
    /\ ~thr[t].asleep
    /\ thr[t].cmd # NoCommand
    /\ thr' = [thr EXCEPT ![t].life = "done", ![t].mode = "run", ![t].cmd = NoCommand]
    /\ frameIds' = {[h EXCEPT !.old = @ \/ h.by = t] : h \in frameIds}
    /\ UNCHANGED <<evals, bps, panic, gone, raisedAt, overlap>>

-----------------------------------------------------------------------------
(* Requests: the adapter thread serves the next one when it is not evaluating. *)

Adapter == ~gone /\ evals = 0

Paused(t) == thr[t].mode = "paused"

\* notify_all
Woken(r) == [r EXCEPT !.asleep = FALSE]

\* A breakpoint is set on the marked line, or cleared, while the program runs too.
SetBreakpoints ==
    /\ Adapter
    /\ bps' = ~bps
    /\ UNCHANGED <<thr, evals, panic, frameIds, gone, raisedAt, overlap>>

\* on_continue: every paused thread, whichever was named.
Continue ==
    /\ Adapter
    /\ \E t \in Prog : Paused(t)
    /\ thr' = [t \in Prog |->
                 IF Paused(t) THEN Woken([thr[t] EXCEPT !.cmd = [verb |-> "continue", depth |-> 0]])
                 ELSE thr[t]]
    /\ UNCHANGED <<evals, bps, panic, frameIds, gone, raisedAt, overlap>>

\* Seeded fault: the command is left without waking its thread.
StepQuietly(t) ==
    /\ Adapter
    /\ Paused(t)
    /\ \E v \in Verb \ {"continue"} : thr' = [thr EXCEPT ![t].cmd = [verb |-> v, depth |-> thr[t].snap]]
    /\ UNCHANGED <<evals, bps, panic, frameIds, gone, raisedAt, overlap>>

\* on_next, on_step_in, on_step_out: that thread only.
Step(t) ==
    /\ Adapter
    /\ Paused(t)
    /\ \E v \in Verb \ {"continue"} :
         thr' = [u \in Prog |->
                   IF ~Paused(u) THEN thr[u]
                   ELSE IF u = t THEN Woken([thr[t] EXCEPT !.cmd = [verb |-> v, depth |-> thr[t].snap]])
                   ELSE Woken(thr[u])]
    /\ UNCHANGED <<evals, bps, panic, frameIds, gone, raisedAt, overlap>>

\* on_pause: a request to a thread that is paused already waits for it.
Pause(t) ==
    /\ Adapter
    /\ thr[t].life = "on"
    /\ thr' = [thr EXCEPT ![t].pause = TRUE]
    /\ UNCHANGED <<evals, bps, panic, frameIds, gone, raisedAt, overlap>>

StackTrace(t) ==
    /\ Adapter
    /\ Paused(t)
    /\ frameIds' = frameIds \cup Snapped(t, thr[t].snap)
    /\ UNCHANGED <<thr, evals, bps, panic, gone, raisedAt, overlap>>

\* A frame id that resolves.
Resolves(h) == Paused(h.by) /\ h.depth <= thr[h.by].snap

Evaluate ==
    /\ Adapter
    /\ \E h \in frameIds : Resolves(h)
    /\ evals' = evals + 1
    /\ UNCHANGED <<thr, bps, panic, frameIds, gone, raisedAt, overlap>>

Evaluated ==
    /\ ~gone
    /\ evals > 0
    /\ evals' = evals - 1
    /\ UNCHANGED <<thr, bps, panic, frameIds, gone, raisedAt, overlap>>

Disconnect ==
    /\ Adapter
    /\ gone' = TRUE
    /\ UNCHANGED <<thr, evals, bps, panic, frameIds, raisedAt, overlap>>

-----------------------------------------------------------------------------

ThreadStep(t) == Enter(t) \/ Leave(t) \/ Stop(t) \/ Raise(t) \/ Unwind(t) \/ Die(t)

Request ==
    \/ SetBreakpoints \/ Continue \/ Evaluate \/ Disconnect
    \/ \E t \in Prog : Step(t) \/ Pause(t) \/ StackTrace(t)

DapNext ==
    \/ \E t \in Prog : ThreadStep(t) \/ Resume(t) \/ Bury(t)
    \/ Request
    \/ Evaluated

\* A thread that was notified is scheduled; neither the program nor the client
\* owes anything.
DapFair == \A t \in Prog : WF_dapVars(Resume(t)) /\ WF_dapVars(Bury(t))

DapSpec == DapInit /\ [][DapNext]_dapVars /\ DapFair

-----------------------------------------------------------------------------
(* What is checked *)

\* "With the interpreter's own frame stack as the depth": the hooks' stack is
\* the stack of calls through every return and unwinding, and the panic
\* recorded is the one that was raised, at the depth of the raise.  It fails
\* once an evaluation has overlapped a running task: hook_enter stands down for
\* every thread then, and hook_leave does not.
StackIsReal ==
    ~overlap =>
        /\ \A t \in Prog : thr[t].frames = thr[t].calls
        /\ panic # NoPanic => panic.depth = raisedAt[panic.by]

\* A thread that was given a command runs, whichever threads are paused with it.
CommandsArrive ==
    \A t \in Prog : (Paused(t) /\ thr[t].cmd # NoCommand) ~> (gone \/ ~Paused(t))

\* The promise of a stop: "nothing of the program mutates while the variables
\* view reads it".
StopIsReal ==
    [][(\E t \in Prog : Paused(t) /\ thr'[t].mode = "paused")
          => \A u \in Prog : thr'[u].calls = thr[u].calls]_dapVars
=============================================================================
