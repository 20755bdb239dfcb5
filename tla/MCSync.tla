------------------------------- MODULE MCSync -------------------------------
(***************************************************************************)
(* One model for what threads share besides channels that wait: TLC picks  *)
(* one of these at the start and runs it alone, the others stay as they    *)
(* began.                                                                  *)
(*   rwlock    three threads, any mixture of readers and writers           *)
(*   monitor   three threads, a wake channel of two that signals overflow  *)
(*   barrier   three threads, three rounds, a reset between two of them     *)
(*   lifetime  two threads; two Chan[int], one of them bounded, and a      *)
(*             bounded Chan[Chan[int]]; it ends when a copy is overtaken   *)
(*   once      three threads that set, read and ask; two values            *)
(*   streams   a program and its pipeline: three or four stages over       *)
(*             streams that hold one value                                 *)
(***************************************************************************)
EXTENDS RwLock, Monitor, Barrier, OnceCell, ChanLifetime, Streams

CONSTANTS inner, other, outer

VARIABLE object

MCLevel == [ch \in Chan |-> IF ch = outer THEN 1 ELSE 0]
\* The third reference to inner is what a copy of a shared binding makes.
MCMaxRefs == [ch \in Chan |-> IF ch = inner THEN 3 ELSE 2]
MCCap == [ch \in Chan |-> IF ch = other THEN 0 ELSE 1]

Gen(xs) == [k |-> "gen", xs |-> xs]
Over(k, j) == [k |-> k, in |-> j]
Take(n, j) == [k |-> "take", in |-> j, n |-> n]
Merge(x, y) == [k |-> "merge", a |-> x, b |-> y]
Lists == {<<>>, <<2, 1>>}
Pipes ==
    {<<Gen(xs), Over(k, 1), Over(l, 2)>> : xs \in Lists, k, l \in {"map", "filter", "flat_map"}}
    \cup {<<Gen(<<1, 2, 4>>), Over("filter", 1)>>}
    \cup {<<Gen(xs), Over(k, 1), Take(n, 2)>> : xs \in Lists, k \in {"map", "flat_map"}, n \in {0, 2}}
    \cup {<<Gen(xs), Take(1, 1), Over("filter", 2)>> : xs \in Lists}
    \cup {<<Gen(xs), Gen(ys), Merge(1, 2)>> : xs, ys \in Lists}
    \cup {<<Gen(<<1>>), Gen(<<>>), Over("map", 1), Merge(3, 2)>>}

SyncInit ==
    /\ object \in {"rwlock", "monitor", "barrier", "lifetime", "once", "streams"}
    /\ Init /\ MonitorInit /\ BarrierInit /\ LifetimeInit /\ CellInit
    /\ StreamsInit
    /\ object # "streams" => stages = <<Gen(<<>>), Over("map", 1), Over("map", 2)>>

NotRwLock   == UNCHANGED <<object, monitorVars, barrierVars, lifetimeVars, cellVars, streamVars>>
NotMonitor  == UNCHANGED <<object, vars, barrierVars, lifetimeVars, cellVars, streamVars>>
NotBarrier  == UNCHANGED <<object, vars, monitorVars, lifetimeVars, cellVars, streamVars>>
NotLifetime == UNCHANGED <<object, vars, monitorVars, barrierVars, cellVars, streamVars>>
NotOnce     == UNCHANGED <<object, vars, monitorVars, barrierVars, lifetimeVars, streamVars>>
NotStreams  == UNCHANGED <<object, vars, monitorVars, barrierVars, lifetimeVars, cellVars>>

\* The counts mean nothing any more once a copy was overtaken.
LifetimeRuns == object = "lifetime" /\ ~overtaken

SyncNext ==
    \/ object = "rwlock"   /\ Next   /\ NotRwLock
    \/ object = "monitor"  /\ MonitorNext /\ NotMonitor
    \/ object = "barrier"  /\ BarrierNext /\ NotBarrier
    \/ LifetimeRuns /\ LifetimeNext /\ NotLifetime
    \/ object = "once"     /\ CellNext /\ NotOnce
    \/ object = "streams"  /\ StreamsNext /\ NotStreams

\* The fairness of each module's live specification, for the object that runs:
\* strong for the steps inside a call, weak for the calls that a client owes and
\* for the mutex of the runtime.  Nothing of the monitor and of the once-cell
\* depends on it.
StepInside(t) ==
    \/ object = "rwlock"   /\ Inside(t)   /\ NotRwLock
    \/ object = "barrier"  /\ BarrierInside(t) /\ NotBarrier
    \/ LifetimeRuns /\ t \in Owner /\ ReleaseSteps(t) /\ NotLifetime
OwedCall(t) ==
    \/ object = "rwlock"   /\ (CallReadUnlock(t) \/ CallWriteUnlock(t)) /\ NotRwLock
    \/ object = "barrier"  /\ CallWait(t) /\ NotBarrier
    \/ LifetimeRuns /\ t \in Owner /\ DropsDone(t) /\ NotLifetime

SyncVars == <<object, vars, monitorVars, barrierVars, lifetimeVars, cellVars, streamVars>>
SyncFairness ==
    \A t \in Thread :
        SF_SyncVars(StepInside(t)) /\ WF_SyncVars(OwedCall(t))

SyncSpec == SyncInit /\ [][SyncNext]_SyncVars /\ SyncFairness
=============================================================================
