---------------------------- MODULE Sync_proofs -----------------------------
(***************************************************************************)
(* Proofs about three objects of std/sync.hls that are made of counted     *)
(* channels: the monitor that a mutex and a condition variable are         *)
(* together (module Monitor), the barrier (module Barrier), and the        *)
(* readers/writer lock (module RwLock).                                    *)
(***************************************************************************)
EXTENDS Monitor, Barrier, RwLock, OnceCell, FiniteSetTheorems, TLAPS

USE ThreadsAssumption, MonitorAssumption, BarrierAssumption

-----------------------------------------------------------------------------
(***************************************************************************)
(* Proofs about the monitor made of std/sync.hls's mutex and condition     *)
(* variable (module Monitor), for any finite set of threads and any        *)
(* capacity of the wake channel.                                           *)
(*                                                                         *)
(* The invariant ties the one token of the mutex to the threads: the token *)
(* is in its channel exactly when nobody holds the mutex, nobody else does *)
(* when somebody does, and a holder is at rest or sending signals, never   *)
(* waiting for the token or for a signal.  From it follows that a monitor  *)
(* in which nobody can go on lacks signals, or room for them: the mutex    *)
(* alone never stops it.                                                   *)
(***************************************************************************)

MonitorSteps == {"rest", "token.recv", "sig.recv", "sig.send"}

\* Neither channel holds more than its capacity, and a thread that is sending
\* signals has one left to send.
MonitorTypeOK ==
    /\ token \in {0, 1}
    /\ sig \in 0..SigCap
    /\ mon_at \in [Thread -> MonitorSteps]
    /\ holds \in [Thread -> BOOLEAN]
    /\ left \in [Thread -> Nat]
    /\ \A t \in Thread : mon_at[t] = "sig.send" => left[t] > 0

\* The mutex has one holder at most, through every wait and wake-up of
\* condvar_wait, which unlocks and locks it again.
MutualExclusion == \A t, u \in Thread : holds[t] /\ holds[u] => t = u

TokenOrHolder == token = 0 <=> \E t \in Thread : holds[t]

HolderNeverWaits == \A t \in Thread : holds[t] => mon_at[t] \in {"rest", "sig.send"}

MonitorInv == MonitorTypeOK /\ MutualExclusion /\ TokenOrHolder /\ HolderNeverWaits

\* The invariant holds at first.
LEMMA MonitorInitially == ASSUME MonitorInit PROVE MonitorInv
BY DEF MonitorInit, MonitorInv, MonitorTypeOK, MonitorSteps, MutualExclusion, TokenOrHolder,
       HolderNeverWaits

\* Every step of a thread keeps it.
LEMMA MonitorStep == ASSUME MonitorInv, [MonitorNext]_monitorVars PROVE MonitorInv'
<1> USE DEF MonitorInv, MonitorTypeOK, MonitorSteps, MutualExclusion, TokenOrHolder, HolderNeverWaits, MonitorGoto
<1>0. SigCap \in Nat /\ Cardinality(Thread) \in Nat
  BY FS_CardinalityType
<1>1. ASSUME NEW t \in Thread, CallLock(t) PROVE MonitorInv'
  BY <1>0, <1>1 DEF CallLock
<1>2. ASSUME NEW t \in Thread, Lock(t) PROVE MonitorInv'
  BY <1>0, <1>2 DEF Lock
<1>3. ASSUME NEW t \in Thread, TryLock(t) PROVE MonitorInv'
  <2>1. CASE token = 0
    BY <1>0, <1>3, <2>1 DEF TryLock
  <2>2. CASE token = 1
    <3>0. (token > 0) = TRUE
      BY <2>2
    <3>1. holds' = [holds EXCEPT ![t] = TRUE]
      BY ONLY <1>3, <3>0, Zenon DEF TryLock
    <3>2. mon_at[t] = "rest" /\ token' = 0 /\ UNCHANGED <<sig, mon_at, left>>
      BY <1>3, <2>2 DEF TryLock
    <3>3. QED
      BY <1>0, <2>2, <3>1, <3>2
  <2>3. QED
    BY <2>1, <2>2
<1>4. ASSUME NEW t \in Thread, Unlock(t) PROVE MonitorInv'
  BY <1>0, <1>4 DEF Unlock
<1>5. ASSUME NEW t \in Thread, Wait(t) PROVE MonitorInv'
  BY <1>0, <1>5 DEF Wait
<1>6. ASSUME NEW t \in Thread, Wake(t) PROVE MonitorInv'
  BY <1>0, <1>6 DEF Wake
<1>7. ASSUME NEW t \in Thread, NEW n \in 1..Cardinality(Thread), CallBroadcast(t, n)
      PROVE MonitorInv'
  BY <1>0, <1>7 DEF CallBroadcast
<1>8. ASSUME NEW t \in Thread, SendSignal(t) PROVE MonitorInv'
  BY <1>0, <1>8 DEF SendSignal
<1>9. CASE UNCHANGED monitorVars
  BY <1>9 DEF monitorVars
<1>10. QED
  BY <1>1, <1>2, <1>3, <1>4, <1>5, <1>6, <1>7, <1>8, <1>9 DEF MonitorNext, MonitorInside

\* MonitorInv is an invariant of the monitor.
THEOREM MonitorInvariance == MonitorSpec => []MonitorInv
<1>1. MonitorInit => MonitorInv
  BY MonitorInitially
<1>2. MonitorInv /\ [MonitorNext]_monitorVars => MonitorInv'
  BY MonitorStep
<1>3. QED
  BY <1>1, <1>2, PTL DEF MonitorSpec

\* Type correctness: no more than one token in the mutex's channel, no more
\* wake tokens than condvar_new made room for, and no signal too many sent.
THEOREM MonitorTyped == MonitorSpec => []MonitorTypeOK
<1>1. MonitorInv => MonitorTypeOK
  BY DEF MonitorInv
<1>2. QED
  BY <1>1, MonitorInvariance, PTL

\* The mutex is never held by two threads.
THEOREM MonitorExcludes == MonitorSpec => []MutualExclusion
<1>1. MonitorInv => MutualExclusion
  BY DEF MonitorInv, MutualExclusion
<1>2. QED
  BY <1>1, MonitorInvariance, PTL

\* When no thread is at rest and none can step, everybody waits for a signal
\* that was not sent, or a sender of signals finds the wake channel full.
THEOREM MonitorStops == MonitorSpec => []StuckOnlyForSignals
<1>1. MonitorInv => StuckOnlyForSignals
  <2> SUFFICES ASSUME MonitorInv,
                      \A t \in Thread : mon_at[t] # "rest" /\ ~CanStep(t)
               PROVE  \/ \A t \in Thread : mon_at[t] = "sig.recv" /\ sig = 0
                      \/ sig = SigCap /\ \E t \in Thread : mon_at[t] = "sig.send"
    BY DEF StuckOnlyForSignals
  <2> USE DEF MonitorInv, MonitorTypeOK, MonitorSteps, CanStep
  <2>1. CASE \E t \in Thread : mon_at[t] = "sig.send"
    BY <2>1
  <2>2. CASE ~ \E t \in Thread : mon_at[t] = "sig.send"
    <3>1. token = 1
      BY <2>2 DEF HolderNeverWaits, TokenOrHolder
    <3>2. QED
      BY <2>2, <3>1
  <2>3. QED
    BY <2>1, <2>2
<1>2. QED
  BY <1>1, MonitorInvariance, PTL

-----------------------------------------------------------------------------
(***************************************************************************)
(* Proofs about the barrier of std/sync.hls (module Barrier), for any      *)
(* number of participants and of rounds, and any finite set of threads     *)
(* that is no larger than the number the barrier was made for: with more,  *)
(* a late arrival finds the count as the last one left it and sends tokens *)
(* nobody waits for, which open the gate of the next round.                *)
(*                                                                         *)
(* A round goes through three phases, and the invariant says what the two  *)
(* channels hold in each: while the threads gather, the number in the      *)
(* count channel, or in the hand of the one thread that took it, is the    *)
(* number of threads that wait at the gate; when the last one is there,    *)
(* every token it has sent is in the gate or has let one thread through;   *)
(* and once it has left, every thread but itself has its token, in the     *)
(* gate or behind it, so that the gate is empty when the round is over.    *)
(***************************************************************************)

\* What barrier_new's caller promises: n is the number of participants.
NoMoreThanMade == Cardinality(Thread) <= N

BarrierSteps == {"before", "count.recv", "count.send", "gate.send", "gate.recv", "after"}

\* The gate never holds more tokens than its capacity, and a thread's local
\* count is one another thread put there.
BarrierTypeOK ==
    /\ count \in {Empty} \cup 0..(N - 1)
    /\ gate \in 0..N
    /\ bar_at \in [Thread -> BarrierSteps]
    /\ bar_c \in [Thread -> 0..(N - 1)]
    /\ i \in [Thread -> Nat]
    /\ round \in 0..MaxRound

Waiting == In("gate.recv")
Passed  == In("after")

\* The threads arrive one by one, and nobody has come through.
Gathering ==
    /\ In("gate.send") = {}
    /\ Passed = {}
    /\ gate = 0
    /\ count # Empty => In("count.send") = {} /\ count = Cardinality(Waiting)
    /\ count = Empty => \E t \in Thread : /\ In("count.send") = {t}
                                          /\ bar_c[t] = Cardinality(Waiting)
                                          /\ ~IsLast(bar_c[t])

\* The last of them opens the gate for the others.
Opening ==
    /\ Cardinality(Thread) = N
    /\ count = Empty
    /\ \E t \in Thread : /\ In("gate.send") = {t}
                         /\ Thread = {t} \cup Waiting \cup Passed
                         /\ bar_c[t] = N - 1
                         /\ i[t] <= N - 1
                         /\ gate + Cardinality(Passed) = i[t]

\* It has gone, and the others go.
Opened ==
    /\ Cardinality(Thread) = N
    /\ count # Empty
    /\ Thread = Waiting \cup Passed
    /\ gate + Cardinality(Passed) = N

BarrierInv == BarrierTypeOK /\ (Gathering \/ Opening \/ Opened)

\* The sets of threads at a step are finite.
LEMMA InFacts ==
    ASSUME NoMoreThanMade
    PROVE  /\ Cardinality(Thread) \in Nat
           /\ N \in Nat \ {0}
           /\ \A step \in BarrierSteps : /\ IsFiniteSet(In(step))
                                  /\ In(step) \subseteq Thread
                                  /\ Cardinality(In(step)) \in Nat
                                  /\ Cardinality(In(step)) <= Cardinality(Thread)
<1>1. IsFiniteSet(Thread) /\ Cardinality(Thread) \in Nat /\ N \in Nat \ {0}
  BY FS_CardinalityType DEF NoMoreThanMade
<1>2. \A step \in BarrierSteps : In(step) \subseteq Thread
  BY DEF In
<1>3. \A step \in BarrierSteps : IsFiniteSet(In(step)) /\ Cardinality(In(step)) <= Cardinality(Thread)
  BY <1>1, <1>2, FS_Subset
<1>4. \A step \in BarrierSteps : Cardinality(In(step)) \in Nat
  BY <1>3, FS_CardinalityType
<1>5. QED
  BY <1>1, <1>2, <1>3, <1>4

\* A thread that goes on leaves one of these sets for another.
LEMMA InMoves ==
    ASSUME bar_at \in [Thread -> BarrierSteps], NEW t \in Thread, NEW old \in BarrierSteps, NEW new \in BarrierSteps,
           bar_at[t] = old, new # old, bar_at' = [bar_at EXCEPT ![t] = new]
    PROVE  /\ In(new)' = In(new) \cup {t}
           /\ In(old)' = In(old) \ {t}
           /\ \A other \in BarrierSteps \ {old, new} : In(other)' = In(other)
           /\ t \notin In(new)
           /\ t \in In(old)
BY DEF In

\* No thread is at two steps.
LEMMA InApart == \A t \in Thread, step \in BarrierSteps : t \in In(step) <=> bar_at[t] = step
BY DEF In

\* The invariant holds at first.
LEMMA BarrierInitially == ASSUME NoMoreThanMade, BarrierInit PROVE BarrierInv
<1>1. \A step \in BarrierSteps \ {"before"} : In(step) = {}
  BY DEF BarrierInit, In
<1>2. Cardinality({}) = 0
  BY FS_EmptySet
<1>3. BarrierTypeOK
  BY InFacts DEF BarrierInit, BarrierTypeOK, BarrierSteps, Empty, NoMoreThanMade
<1>4. Gathering
  BY <1>1, <1>2 DEF BarrierInit, Gathering, Waiting, Passed, BarrierSteps, Empty
<1>5. QED
  BY <1>3, <1>4 DEF BarrierInv

\* Who calls comes to a barrier whose threads still gather.
LEMMA CallWaitStep ==
    ASSUME NoMoreThanMade, BarrierInv, NEW t \in Thread, CallWait(t) PROVE BarrierInv'
<1>1. /\ bar_at[t] = "before" /\ bar_at' = [bar_at EXCEPT ![t] = "count.recv"]
      /\ UNCHANGED <<count, gate, bar_c, i, round>>
  BY DEF CallWait, BarrierGoto
<1>2. BarrierTypeOK'
  BY <1>1 DEF BarrierInv, BarrierTypeOK, BarrierSteps
<1>3. \A step \in {"count.send", "gate.send", "gate.recv", "after"} : In(step)' = In(step)
  BY <1>1, InMoves DEF BarrierInv, BarrierTypeOK, BarrierSteps
<1>4. Waiting' = Waiting /\ Passed' = Passed /\ In("gate.send")' = In("gate.send")
      /\ In("count.send")' = In("count.send")
  BY <1>3 DEF Waiting, Passed
<1>5. QED
  BY <1>1, <1>2, <1>4 DEF BarrierInv, Gathering, Opening, Opened, IsLast

\* The count goes into the hand of one thread, and the last arrival knows it.
LEMMA TakeCountStep ==
    ASSUME NoMoreThanMade, BarrierInv, NEW t \in Thread, TakeArrivals(t) PROVE BarrierInv'
<1> DEFINE new == IF IsLast(count) THEN "gate.send" ELSE "count.send"
<1>1. /\ bar_at[t] = "count.recv" /\ bar_at' = [bar_at EXCEPT ![t] = new]
      /\ count # Empty /\ count' = Empty
      /\ bar_c' = [bar_c EXCEPT ![t] = count] /\ i' = [i EXCEPT ![t] = 0]
      /\ UNCHANGED <<gate, round>>
  BY DEF TakeArrivals, BarrierGoto
<1>2. BarrierTypeOK'
  BY <1>1 DEF BarrierInv, BarrierTypeOK, BarrierSteps
<1>3. t \notin Waiting /\ t \notin Passed
  BY <1>1 DEF Waiting, Passed, In
<1>4. Gathering
  BY <1>1, <1>3 DEF BarrierInv, Opening, Opened
<1>5. /\ In("gate.send") = {} /\ In("count.send") = {} /\ Passed = {} /\ gate = 0
      /\ count = Cardinality(Waiting)
  BY <1>1, <1>4 DEF Gathering
<1>6. bar_c'[t] = count /\ i'[t] = 0
  BY <1>1 DEF BarrierInv, BarrierTypeOK
<1>7. Cardinality(Thread) \in Nat /\ Cardinality(Thread) <= N /\ N \in Nat \ {0}
  BY InFacts DEF NoMoreThanMade
<1>8. CASE ~IsLast(count)
  <2>1. bar_at' = [bar_at EXCEPT ![t] = "count.send"]
    BY <1>1, <1>8
  <2>2. /\ In("count.send")' = {t} /\ In("gate.send")' = {}
        /\ Waiting' = Waiting /\ Passed' = Passed
    BY <1>1, <1>5, <2>1, InMoves DEF BarrierInv, BarrierTypeOK, BarrierSteps, Waiting, Passed
  <2>3. Gathering'
    BY <1>1, <1>5, <1>6, <1>8, <2>2 DEF Gathering, IsLast
  <2>4. QED
    BY <1>2, <2>3 DEF BarrierInv
<1>9. CASE IsLast(count)
  <2>1. bar_at' = [bar_at EXCEPT ![t] = "gate.send"]
    BY <1>1, <1>9
  <2>2. In("gate.send")' = {t} /\ Waiting' = Waiting /\ Passed' = {}
    BY <1>1, <1>5, <2>1, InMoves DEF BarrierInv, BarrierTypeOK, BarrierSteps, Waiting, Passed
  <2>3. Waiting \subseteq Thread \ {t} /\ IsFiniteSet(Thread \ {t})
        /\ Cardinality(Thread \ {t}) = Cardinality(Thread) - 1
    BY <1>3, FS_RemoveElement DEF Waiting, In, NoMoreThanMade
  <2>4. Cardinality(Waiting) <= Cardinality(Thread \ {t})
        /\ (Cardinality(Waiting) = Cardinality(Thread \ {t}) => Waiting = Thread \ {t})
    BY <2>3, FS_Subset
  <2>5. count \in Nat /\ count + 1 >= N
    BY <1>1, <1>9 DEF IsLast, BarrierInv, BarrierTypeOK
  <2>6. Cardinality(Thread) = N /\ Waiting = Thread \ {t} /\ count = N - 1
    BY <1>5, <1>7, <2>3, <2>4, <2>5
  <2>7. Cardinality({}) = 0
    BY FS_EmptySet
  <2>8. bar_c'[t] = N - 1 /\ i'[t] <= N - 1 /\ gate' + Cardinality(Passed') = i'[t]
    BY <1>1, <1>5, <1>6, <1>7, <2>2, <2>6, <2>7
  <2>9. Thread = {t} \cup Waiting' \cup Passed'
    BY <2>2, <2>6
  <2>10. Opening'
    BY <1>1, <2>2, <2>6, <2>8, <2>9 DEF Opening
  <2>11. QED
    BY <1>2, <2>10 DEF BarrierInv
<1>10. QED
  BY <1>8, <1>9

\* An earlier arrival puts the count back one higher and waits.
LEMMA PutCountStep ==
    ASSUME NoMoreThanMade, BarrierInv, NEW t \in Thread, PutArrivals(t) PROVE BarrierInv'
<1>1. /\ bar_at[t] = "count.send" /\ bar_at' = [bar_at EXCEPT ![t] = "gate.recv"]
      /\ count = Empty /\ count' = bar_c[t] + 1
      /\ UNCHANGED <<gate, bar_c, i, round>>
  BY DEF PutArrivals, BarrierGoto
<1>2. /\ Waiting' = Waiting \cup {t} /\ Passed' = Passed
      /\ In("count.send")' = In("count.send") \ {t} /\ In("gate.send")' = In("gate.send")
      /\ t \notin Waiting /\ t \notin Passed /\ t \in In("count.send") /\ t \notin In("gate.send")
  BY <1>1, InMoves, InApart DEF BarrierInv, BarrierTypeOK, BarrierSteps, Waiting, Passed
<1>3. Gathering
  BY <1>1, <1>2 DEF BarrierInv, Opening, Opened
<1>4. /\ In("count.send") = {t} /\ bar_c[t] = Cardinality(Waiting) /\ ~IsLast(bar_c[t])
      /\ In("gate.send") = {} /\ Passed = {} /\ gate = 0
  BY <1>1, <1>2, <1>3 DEF Gathering
<1>5. bar_c[t] \in 0..(N - 1) /\ bar_c[t] + 1 \in 0..(N - 1) /\ bar_c[t] + 1 # Empty
  BY <1>4, InFacts DEF BarrierInv, BarrierTypeOK, IsLast, Empty
<1>6. BarrierTypeOK'
  BY <1>1, <1>5 DEF BarrierInv, BarrierTypeOK, BarrierSteps
<1>7. IsFiniteSet(Waiting)
  BY InFacts DEF Waiting, BarrierSteps
<1>8. Cardinality(Waiting') = bar_c[t] + 1
  BY <1>2, <1>4, <1>7, FS_AddElement
<1>9. In("count.send")' = {} /\ count' # Empty /\ count' = Cardinality(Waiting')
  BY <1>1, <1>2, <1>4, <1>5, <1>8
<1>10. Gathering'
  BY <1>1, <1>2, <1>4, <1>9 DEF Gathering
<1>11. QED
  BY <1>6, <1>10 DEF BarrierInv

\* Only while the gate is opened is a thread at "gate.send", and it is the one
\* that Opening speaks of.
LEMMA LastOpens ==
    ASSUME BarrierInv, NEW t \in Thread, bar_at[t] = "gate.send"
    PROVE  /\ Opening
           /\ In("gate.send") = {t} /\ Thread = {t} \cup Waiting \cup Passed
           /\ bar_c[t] = N - 1 /\ i[t] <= N - 1 /\ gate + Cardinality(Passed) = i[t]
<1>1. t \in In("gate.send") /\ t \notin Waiting /\ t \notin Passed
  BY InApart DEF Waiting, Passed, BarrierSteps
<1>2. Opening
  BY <1>1 DEF BarrierInv, Gathering, Opened
<1>3. QED
  BY <1>1, <1>2 DEF Opening

\* A token of the last arrival: the gate has room for it.
LEMMA SendGateStep ==
    ASSUME NoMoreThanMade, BarrierInv, NEW t \in Thread, SendGate(t) PROVE BarrierInv'
<1>1. /\ bar_at[t] = "gate.send" /\ N - 1 - i[t] > 0 /\ gate < N /\ gate' = gate + 1
      /\ i' = [i EXCEPT ![t] = @ + 1]
      /\ UNCHANGED <<count, bar_at, bar_c, round>>
  BY DEF SendGate, TokensDue
<1>2. /\ Opening /\ In("gate.send") = {t} /\ Thread = {t} \cup Waiting \cup Passed
      /\ bar_c[t] = N - 1 /\ gate + Cardinality(Passed) = i[t]
  BY <1>1, LastOpens
<1>3. gate \in 0..N /\ i[t] \in Nat /\ N \in Nat /\ i'[t] = i[t] + 1
  BY <1>1, InFacts DEF BarrierInv, BarrierTypeOK
<1>4. BarrierTypeOK'
  BY <1>1, <1>3 DEF BarrierInv, BarrierTypeOK
<1>5. In("gate.send")' = In("gate.send") /\ Waiting' = Waiting /\ Passed' = Passed
  BY <1>1 DEF In, Waiting, Passed
<1>6. Cardinality(Passed) \in Nat
  BY InFacts DEF Passed, BarrierSteps
<1>7. gate' + Cardinality(Passed') = i'[t] /\ i'[t] <= N - 1
  BY <1>1, <1>2, <1>3, <1>5, <1>6
<1>8. Opening'
  BY <1>1, <1>2, <1>5, <1>7 DEF Opening
<1>9. QED
  BY <1>4, <1>8 DEF BarrierInv

\* The last arrival leaves, and each of the others has its token.
LEMMA DepartStep ==
    ASSUME NoMoreThanMade, BarrierInv, NEW t \in Thread, Depart(t) PROVE BarrierInv'
<1>1. /\ bar_at[t] = "gate.send" /\ N - 1 - i[t] = 0 /\ count' = bar_c[t]
      /\ bar_at' = [bar_at EXCEPT ![t] = "after"]
      /\ UNCHANGED <<gate, bar_c, i, round>>
  BY DEF Depart, TokensDue, BarrierGoto
<1>2. /\ Opening /\ Thread = {t} \cup Waiting \cup Passed
      /\ bar_c[t] = N - 1 /\ gate + Cardinality(Passed) = i[t]
  BY <1>1, LastOpens
<1>3. gate \in 0..N /\ i[t] \in Nat /\ N \in Nat \ {0}
  BY InFacts DEF BarrierInv, BarrierTypeOK
<1>4. BarrierTypeOK' /\ count' # Empty
  BY <1>1, <1>2, <1>3 DEF BarrierInv, BarrierTypeOK, BarrierSteps, Empty
<1>5. Waiting' = Waiting /\ Passed' = Passed \cup {t} /\ t \notin Passed
  BY <1>1, InMoves DEF BarrierInv, BarrierTypeOK, BarrierSteps, Waiting, Passed
<1>6. IsFiniteSet(Passed) /\ Cardinality(Passed) \in Nat
  BY InFacts DEF Passed, BarrierSteps
<1>7. Cardinality(Passed') = Cardinality(Passed) + 1
  BY <1>5, <1>6, FS_AddElement
<1>8. gate' + Cardinality(Passed') = N
  BY <1>1, <1>2, <1>3, <1>6, <1>7
<1>9. Opened'
  BY <1>2, <1>4, <1>5, <1>8 DEF Opening, Opened
<1>10. QED
  BY <1>4, <1>9 DEF BarrierInv

\* A thread takes its token and goes through.
LEMMA PassGateStep ==
    ASSUME NoMoreThanMade, BarrierInv, NEW t \in Thread, PassGate(t) PROVE BarrierInv'
<1>1. /\ bar_at[t] = "gate.recv" /\ gate > 0 /\ gate' = gate - 1
      /\ bar_at' = [bar_at EXCEPT ![t] = "after"]
      /\ UNCHANGED <<count, bar_c, i, round>>
  BY DEF PassGate, BarrierGoto
<1>2. gate \in 0..N /\ N \in Nat \ {0}
  BY InFacts DEF BarrierInv, BarrierTypeOK
<1>3. BarrierTypeOK'
  BY <1>1, <1>2 DEF BarrierInv, BarrierTypeOK, BarrierSteps
<1>4. /\ Waiting' = Waiting \ {t} /\ Passed' = Passed \cup {t} /\ t \notin Passed /\ t \in Waiting
      /\ In("gate.send")' = In("gate.send")
  BY <1>1, InMoves DEF BarrierInv, BarrierTypeOK, BarrierSteps, Waiting, Passed
<1>5. IsFiniteSet(Passed) /\ Cardinality(Passed) \in Nat
  BY InFacts DEF Passed, BarrierSteps
<1>6. Cardinality(Passed') = Cardinality(Passed) + 1
  BY <1>4, <1>5, FS_AddElement
<1>7. gate' + Cardinality(Passed') = gate + Cardinality(Passed)
  BY <1>1, <1>2, <1>5, <1>6
<1>8. CASE Opening
  <2>1. PICK u \in Thread : /\ In("gate.send") = {u} /\ Thread = {u} \cup Waiting \cup Passed
                            /\ bar_c[u] = N - 1 /\ i[u] <= N - 1
                            /\ gate + Cardinality(Passed) = i[u]
    BY <1>8 DEF Opening
  <2>2. Thread = {u} \cup Waiting' \cup Passed'
    BY <1>4, <2>1
  <2>3. Opening'
    BY <1>1, <1>4, <1>7, <1>8, <2>1, <2>2 DEF Opening
  <2>4. QED
    BY <1>3, <2>3 DEF BarrierInv
<1>9. CASE Opened
  <2>1. Opened'
    BY <1>1, <1>4, <1>7, <1>9 DEF Opened
  <2>2. QED
    BY <1>3, <2>1 DEF BarrierInv
<1>10. QED
  BY <1>1, <1>8, <1>9 DEF BarrierInv, Gathering

\* When everybody is through, the gate is empty, and a reset starts over.
LEMMA ResetStep == ASSUME NoMoreThanMade, BarrierInv, Reset PROVE BarrierInv'
<1>1. /\ round < MaxRound /\ \A t \in Thread : bar_at[t] = "after"
      /\ count # Empty /\ count' = 0
      /\ bar_at' = [t \in Thread |-> "before"] /\ round' = round + 1
      /\ UNCHANGED <<gate, bar_c, i>>
  BY DEF Reset
<1>2. BarrierTypeOK'
  BY <1>1, InFacts DEF BarrierInv, BarrierTypeOK, BarrierSteps, NoMoreThanMade
<1>3. Passed = Thread
  BY <1>1 DEF Passed, In
<1>4. gate = 0
  BY <1>1, <1>3, InFacts DEF BarrierInv, BarrierTypeOK, Gathering, Opening, Opened
<1>5. \A step \in {"count.send", "gate.send", "gate.recv", "after"} : In(step)' = {}
  BY <1>1 DEF In
<1>6. Cardinality({}) = 0
  BY FS_EmptySet
<1>7. Gathering'
  BY <1>1, <1>4, <1>5, <1>6 DEF Gathering, Waiting, Passed, Empty
<1>8. QED
  BY <1>2, <1>7 DEF BarrierInv

\* BarrierInv is an invariant of the barrier.
THEOREM BarrierInvariance == ASSUME NoMoreThanMade PROVE BarrierSpec => []BarrierInv
<1>1. BarrierInit => BarrierInv
  BY BarrierInitially
<1>2. BarrierInv /\ [BarrierNext]_barrierVars => BarrierInv'
  <2>1. BarrierInv /\ UNCHANGED barrierVars => BarrierInv'
    BY DEF barrierVars, BarrierInv, BarrierTypeOK, Gathering, Opening, Opened, Waiting, Passed, In, IsLast
  <2>2. QED
    BY <2>1, CallWaitStep, TakeCountStep, PutCountStep, SendGateStep, DepartStep, PassGateStep,
       ResetStep DEF BarrierNext, BarrierInside
<1>3. QED
  BY <1>1, <1>2, PTL DEF BarrierSpec

\* Type correctness: the gate has room for every token of a round, and the
\* count never reaches the number of participants.
THEOREM BarrierTyped == ASSUME NoMoreThanMade PROVE BarrierSpec => []BarrierTypeOK
<1>1. BarrierInv => BarrierTypeOK
  BY DEF BarrierInv
<1>2. QED
  BY <1>1, BarrierInvariance, PTL

\* Nobody comes through the barrier in a round before all N participants have
\* arrived in it.
THEOREM BarrierMeets == ASSUME NoMoreThanMade PROVE BarrierSpec => []Rendezvous
<1>1. NoMoreThanMade /\ BarrierInv => Rendezvous
  <2> SUFFICES ASSUME NoMoreThanMade, BarrierInv, Passed # {}
               PROVE  Cardinality(Thread \ (In("before") \cup In("count.recv"))) >= N
    BY DEF Rendezvous, Passed
  <2>1. Cardinality(Thread) = N /\ \A t \in Thread : bar_at[t] \notin {"before", "count.recv"}
    BY DEF BarrierInv, Gathering, Opening, Opened, Waiting, Passed, In
  <2>2. Thread \ (In("before") \cup In("count.recv")) = Thread
    BY <2>1 DEF In
  <2>3. N \in Nat
    BY InFacts
  <2>4. QED
    BY <2>1, <2>2, <2>3
<1>2. QED
  BY <1>1, BarrierInvariance, PTL

-----------------------------------------------------------------------------
(***************************************************************************)
(* Proofs about RwLock, for every finite set of threads: the count and the *)
(* writer's token are right, the lock excludes, and it implements          *)
(* RwLockSpec, the lock whose operations take effect at one instant.  A    *)
(* call enters the abstract lock when its last obstacle is behind it: the  *)
(* first reader with the writer's token, a later one with the count.       *)
(***************************************************************************)


\* The number of counted readers, and what one more or one less does to it.
LEMMA CountFacts ==
    /\ IsFiniteSet(Counted)
    /\ Cardinality(Counted) \in Nat
    /\ Cardinality(Counted) = 0 <=> Counted = {}
    /\ \A t \in Counted : Cardinality(Counted \ {t}) = Cardinality(Counted) - 1
    /\ \A t \in Thread \ Counted : Cardinality(Counted \cup {t}) = Cardinality(Counted) + 1
    /\ \A S \in SUBSET Thread : Cardinality(S) \in 0..Cardinality(Thread)
<1>1. Counted \subseteq Thread
  BY DEF Counted
<1>2. \A S \in SUBSET Thread : IsFiniteSet(S) /\ Cardinality(S) <= Cardinality(Thread)
  BY FS_Subset
<1>3. \A S \in SUBSET Thread : Cardinality(S) \in Nat
  BY <1>2, FS_CardinalityType
<1>4. Cardinality(Thread) \in Nat
  BY FS_CardinalityType
<1>5. IsFiniteSet(Counted) /\ Cardinality(Counted) \in Nat
  BY <1>1, <1>2, <1>3
<1>6. Cardinality(Counted) = 0 <=> Counted = {}
  BY <1>5, FS_EmptySet
<1>7. \A t \in Counted : Cardinality(Counted \ {t}) = Cardinality(Counted) - 1
  BY <1>5, FS_RemoveElement
<1>8. \A t \in Thread \ Counted : Cardinality(Counted \cup {t}) = Cardinality(Counted) + 1
  BY <1>5, FS_AddElement
<1> QED BY <1>2, <1>3, <1>4, <1>5, <1>6, <1>7, <1>8

\* What the typing of the threads' variables gives.
LEMMA Typed ==
    ASSUME TypeOK
    PROVE  /\ call \in [Thread -> Calls \cup Rests]
           /\ at \in [Thread -> Steps]
           /\ c \in [Thread -> 0..Cardinality(Thread)]
           /\ writer \in 0..1
           /\ count_mu \in 0..1
BY DEF TypeOK

\* All three tokens are in their channels.
LEMMA InitInvariant == Init => IInv
<1> SUFFICES ASSUME Init PROVE IInv
  OBVIOUS
<1>1. InCount = {} /\ Counted = {} /\ Readers = {} /\ Writers = {}
  BY DEF Init, InCount, Counted, Readers, Writers
<1>2. Cardinality(Counted) = 0 /\ Cardinality(Thread) \in Nat
  BY <1>1, FS_EmptySet, FS_CardinalityType
<1>3. TypeOK
  BY <1>2 DEF Init, TypeOK, Rests, Steps
<1>4. Shape
  BY DEF Init, Shape, Rests
<1>5. ChannelsAgree /\ Exclusion
  BY <1>1, <1>2 DEF Init, ChannelsAgree, OneInside, CountKept, TokenKept, Exclusion
<1> QED BY <1>3, <1>4, <1>5 DEF IInv

\* A step that moves no thread in or out of a set, and no message, keeps all.
LEMMA SameSets ==
    ASSUME IInv, TypeOK', Shape',
           UNCHANGED <<writer, count_mu, reader_count, c>>,
           InCount' = InCount, Counted' = Counted, Readers' = Readers, Writers' = Writers,
           \A t \in InCount : at'[t] = at[t] /\ call'[t] = call[t]
    PROVE  IInv'
BY DEF IInv, ChannelsAgree, OneInside, CountKept, TokenKept, Exclusion

\* A call begins: nobody's count, token or turn is touched.
LEMMA BeginInvariant ==
    ASSUME IInv, NEW t \in Thread,
           \/ CallReadLock(t) \/ CallReadUnlock(t) \/ CallWriteLock(t) \/ CallWriteUnlock(t)
    PROVE  IInv'
<1> USE Typed DEF IInv
<1>1. /\ UNCHANGED <<writer, count_mu, reader_count, c>>
      /\ \A u \in Thread \ {t} : call'[u] = call[u] /\ at'[u] = at[u]
      /\ \/ call[t] = "idle" /\ call'[t] = "read_lock" /\ at'[t] = "count_mu.recv"
         \/ call[t] = "reading" /\ call'[t] = "read_unlock" /\ at'[t] = "count_mu.recv"
         \/ call[t] = "idle" /\ call'[t] = "write_lock" /\ at'[t] = "writer"
         \/ call[t] = "writing" /\ call'[t] = "write_unlock" /\ at'[t] = "writer"
      /\ call' \in [Thread -> Calls \cup Rests] /\ at' \in [Thread -> Steps]
  BY DEF CallReadLock, CallReadUnlock, CallWriteLock, CallWriteUnlock, Begin, Goto, Calls, Rests, Steps
<1>2. at[t] = "none"
  BY <1>1 DEF Shape, Rests
<1>3. InCount' = InCount /\ t \notin InCount
  BY <1>1, <1>2 DEF InCount
<1>4. Counted' = Counted
  BY <1>1, <1>2 DEF Counted
<1>5. Readers' = Readers
  BY <1>1, <1>2 DEF Readers
<1>6. Writers' = Writers
  BY <1>1, <1>2 DEF Writers
<1>7. TypeOK'
  BY <1>1 DEF TypeOK
<1>8. Shape'
  BY <1>1 DEF Shape, Rests
<1>9. \A u \in InCount : at'[u] = at[u] /\ call'[u] = call[u]
  BY <1>1, <1>3 DEF InCount
<1> QED BY <1>1, <1>3, <1>4, <1>5, <1>6, <1>7, <1>8, <1>9, SameSets

\* What a reader between calls of its two functions is in, by its position.
LEMMA ReaderStep ==
    ASSUME IInv, NEW t \in Thread, at[t] \notin {"none", "writer"}
    PROVE  /\ call[t] \in {"read_lock", "read_unlock"}
           /\ t \notin Writers
BY Typed DEF IInv, Shape, Calls, Rests, Writers

\* The thread that takes count_mu's token is alone between its two operations.
LEMMA LockCountInvariant ==
    ASSUME IInv, NEW t \in Thread, LockCount(t)
    PROVE  IInv'
<1> USE Typed, ReaderStep DEF IInv
<1>1. /\ at[t] = "count_mu.recv" /\ at'[t] = "reader_count.recv"
      /\ count_mu = 1 /\ count_mu' = 0
      /\ UNCHANGED <<writer, reader_count, call, c>>
      /\ \A u \in Thread \ {t} : at'[u] = at[u]
      /\ at' \in [Thread -> Steps]
  BY DEF LockCount, At, Goto, Steps
<1>2. call[t] \in {"read_lock", "read_unlock"}
  BY <1>1
<1>3. InCount' = InCount \cup {t} /\ InCount = {}
  BY <1>1, <1>2 DEF InCount, ChannelsAgree, OneInside
<1>4. Counted' = Counted /\ Readers' = Readers /\ Writers' = Writers
  BY <1>1, <1>2 DEF Counted, Readers, Writers
<1>5. TypeOK' /\ Shape'
  BY <1>1, <1>2 DEF TypeOK, Shape, Rests
<1>6. ChannelsAgree' /\ Exclusion'
  BY <1>1, <1>3, <1>4 DEF ChannelsAgree, OneInside, CountKept, TokenKept, Exclusion
<1> QED BY <1>5, <1>6

\* The count goes from its channel to that thread's hand.
LEMMA TakeCountInvariant ==
    ASSUME IInv, NEW t \in Thread, TakeCount(t)
    PROVE  IInv'
<1> USE Typed, ReaderStep DEF IInv
<1>1. /\ at[t] = "reader_count.recv" /\ at'[t] = "reader_count.send"
      /\ reader_count # <<>> /\ reader_count' = <<>>
      /\ c'[t] = Head(reader_count)
      /\ UNCHANGED <<writer, count_mu, call>>
      /\ \A u \in Thread \ {t} : at'[u] = at[u] /\ c'[u] = c[u]
      /\ at' \in [Thread -> Steps]
  BY DEF TakeCount, At, Goto, Steps
<1>2. call[t] \in {"read_lock", "read_unlock"}
  BY <1>1
<1>3. InCount' = InCount /\ InCount = {t}
  BY <1>1, <1>2 DEF InCount, ChannelsAgree, OneInside
<1>4. Counted' = Counted /\ Readers' = Readers /\ Writers' = Writers
  BY <1>1, <1>2 DEF Counted, Readers, Writers
<1>5. reader_count = <<Cardinality(Counted)>> /\ c'[t] = Cardinality(Counted)
  BY <1>1, <1>3 DEF ChannelsAgree, CountKept
<1>6. c' \in [Thread -> 0..Cardinality(Thread)]
  <2>1. Cardinality(Counted) \in 0..Cardinality(Thread)
    BY CountFacts DEF Counted
  <2> QED BY <2>1, <1>5, <1>1 DEF TakeCount
<1>7. TypeOK' /\ Shape'
  BY <1>1, <1>2, <1>6 DEF TypeOK, Shape, Rests
<1>8. ChannelsAgree' /\ Exclusion'
  BY <1>1, <1>3, <1>4, <1>5 DEF ChannelsAgree, OneInside, CountKept, TokenKept, Exclusion
<1> QED BY <1>7, <1>8

\* Who is inside with the count in hand is alone there.
LEMMA AloneInside ==
    ASSUME IInv, NEW t \in Thread, t \in InCount
    PROVE  InCount = {t} /\ count_mu = 0
BY DEF IInv, ChannelsAgree, OneInside, InCount

\* The count goes back, one larger or one smaller, and so is the set of
\* counted readers.
LEMMA PutCountInvariant ==
    ASSUME IInv, NEW t \in Thread, PutCount(t)
    PROVE  IInv'
<1> USE Typed, ReaderStep DEF IInv
<1>1. /\ at[t] = "reader_count.send"
      /\ at'[t] = IF TouchesWriter(t) THEN "writer" ELSE "count_mu.send"
      /\ reader_count' = <<IF call[t] = "read_lock" THEN c[t] + 1 ELSE c[t] - 1>>
      /\ UNCHANGED <<writer, count_mu, call, c>>
      /\ \A u \in Thread \ {t} : at'[u] = at[u]
      /\ at' \in [Thread -> Steps]
  BY DEF PutCount, At, Goto, Steps
<1>2. call[t] \in {"read_lock", "read_unlock"}
  BY <1>1
<1>3. InCount = {t} /\ InCount' = {t} /\ count_mu = 0
  BY <1>1, <1>2, AloneInside DEF InCount
<1>4. c[t] = Cardinality(Counted)
  BY <1>1, <1>3 DEF ChannelsAgree, CountKept
<1>5. Writers' = Writers /\ t \notin Writers
  BY <1>1, <1>2 DEF Writers
<1>6. Shape'
  BY <1>1, <1>2 DEF Shape, Rests
<1>7. CASE call[t] = "read_lock"
  <2>1. t \notin Counted /\ t \notin Readers
    BY <1>1, <1>7 DEF Counted, Readers
  <2>2. Counted' = Counted \cup {t}
    BY <1>1, <1>7 DEF Counted
  <2>3. Cardinality(Counted') = c[t] + 1 /\ reader_count' = <<Cardinality(Counted')>>
    BY <1>1, <1>4, <1>7, <2>1, <2>2, CountFacts
  <2>4. Counted = Readers
    BY <1>1, <1>3, <1>7 DEF Counted, Readers, InCount
  <2>5. TypeOK'
    <3>1. Cardinality(Counted') \in 0..Cardinality(Thread)
      BY CountFacts DEF Counted
    <3> QED BY <1>1, <2>3, <3>1 DEF TypeOK
  <2>6. CASE c[t] = 0
    <3>1. Counted = {} /\ Counted' = {t} /\ at'[t] = "writer"
      BY <1>1, <1>4, <1>7, <2>2, <2>6, CountFacts DEF TouchesWriter
    <3>2. Readers' = Readers
      BY <1>1, <1>7, <2>1, <3>1 DEF Readers
    <3> QED BY <1>1, <1>3, <1>5, <1>6, <1>7, <2>3, <2>5, <3>1, <3>2
            DEF ChannelsAgree, OneInside, CountKept, TokenKept, Exclusion
  <2>7. CASE c[t] # 0
    <3>1. Readers # {} /\ at'[t] = "count_mu.send"
      BY <1>1, <1>4, <1>7, <2>4, <2>7, CountFacts DEF TouchesWriter
    <3>2. Readers' = Readers \cup {t}
      BY <1>1, <1>7, <3>1 DEF Readers
    <3>3. writer = 0 /\ Writers = {}
      BY <3>1 DEF ChannelsAgree, TokenKept, Exclusion
    <3> QED BY <1>1, <1>3, <1>5, <1>6, <1>7, <2>3, <2>5, <3>1, <3>2, <3>3
            DEF ChannelsAgree, OneInside, CountKept, TokenKept, Exclusion
  <2> QED BY <2>6, <2>7
<1>8. CASE call[t] = "read_unlock"
  <2>1. t \in Counted /\ t \in Readers
    BY <1>1, <1>8 DEF Counted, Readers
  <2>2. Counted' = Counted \ {t}
    BY <1>1, <1>8 DEF Counted
  <2>3. c[t] # 0 /\ Cardinality(Counted') = c[t] - 1 /\ reader_count' = <<Cardinality(Counted')>>
    BY <1>1, <1>4, <1>8, <2>1, <2>2, CountFacts
  <2>4. writer = 0 /\ Writers = {}
    BY <2>1 DEF ChannelsAgree, TokenKept, Exclusion
  <2>5. Counted = Readers
    BY <1>1, <1>3, <1>8 DEF Counted, Readers, InCount
  <2>6. TypeOK'
    <3>1. Cardinality(Counted') \in 0..Cardinality(Thread)
      BY <2>2, CountFacts DEF Counted
    <3> QED BY <1>1, <2>3, <3>1 DEF TypeOK
  <2>7. CASE c[t] = 1
    <3>1. Counted' = {} /\ at'[t] = "writer"
      <4>1. Cardinality(Counted \ {t}) = 0
        BY <2>2, <2>3, <2>7
      <4>2. IsFiniteSet(Counted \ {t})
        BY CountFacts, FS_RemoveElement
      <4> QED BY <4>1, <4>2, <2>2, <1>1, <1>8, <2>7, FS_EmptySet DEF TouchesWriter
    <3>2. Readers' = Readers
      BY <1>1, <1>8, <2>1, <3>1 DEF Readers
    <3> QED BY <1>1, <1>3, <1>5, <1>6, <1>8, <2>1, <2>3, <2>4, <2>6, <3>1, <3>2
            DEF ChannelsAgree, OneInside, CountKept, TokenKept, Exclusion
  <2>8. CASE c[t] # 1
    <3>1. at'[t] = "count_mu.send"
      BY <1>1, <1>8, <2>8 DEF TouchesWriter
    <3>2. Readers' = Readers \ {t}
      BY <1>1, <1>8, <3>1 DEF Readers
    <3>3. Readers' # {}
      <4>1. Cardinality(Counted') # 0
        BY <2>3, <2>8
      <4>2. Counted' # {}
        BY <4>1, FS_EmptySet
      <4> QED BY <4>2, <2>2, <2>5, <3>2
    <3> QED BY <1>1, <1>3, <1>5, <1>6, <1>8, <2>3, <2>4, <2>6, <3>1, <3>2, <3>3
            DEF ChannelsAgree, OneInside, CountKept, TokenKept, Exclusion
  <2> QED BY <2>7, <2>8
<1> QED BY <1>2, <1>7, <1>8

\* The first reader takes the writer's token.
LEMMA FirstReaderInvariant ==
    ASSUME IInv, NEW t \in Thread, FirstReader(t)
    PROVE  IInv'
<1> USE Typed DEF IInv
<1>1. /\ call[t] = "read_lock" /\ at[t] = "writer" /\ at'[t] = "count_mu.send"
      /\ writer = 1 /\ writer' = 0
      /\ UNCHANGED <<count_mu, reader_count, call, c>>
      /\ \A u \in Thread \ {t} : at'[u] = at[u]
      /\ at' \in [Thread -> Steps]
  BY DEF FirstReader, At, Goto, Steps
<1>2. InCount' = InCount /\ InCount = {t}
  BY <1>1, AloneInside DEF InCount
<1>3. Counted' = Counted /\ Writers' = Writers
  BY <1>1 DEF Counted, Writers
<1>4. Readers = {} /\ Writers = {} /\ Readers' = Readers \cup {t}
  BY <1>1 DEF Readers, ChannelsAgree, TokenKept
<1>5. TypeOK' /\ Shape'
  BY <1>1 DEF TypeOK, Shape, Rests
<1>6. ChannelsAgree' /\ Exclusion'
  BY <1>1, <1>2, <1>3, <1>4 DEF ChannelsAgree, OneInside, CountKept, TokenKept, Exclusion
<1> QED BY <1>5, <1>6

\* The last reader returns it.
LEMMA LastReaderInvariant ==
    ASSUME IInv, NEW t \in Thread, LastReader(t)
    PROVE  IInv'
<1> USE Typed DEF IInv
<1>1. /\ call[t] = "read_unlock" /\ at[t] = "writer" /\ at'[t] = "count_mu.send"
      /\ writer = 0 /\ writer' = 1
      /\ UNCHANGED <<count_mu, reader_count, call, c>>
      /\ \A u \in Thread \ {t} : at'[u] = at[u]
      /\ at' \in [Thread -> Steps]
  BY DEF LastReader, At, Goto, Steps
<1>2. InCount' = InCount /\ InCount = {t}
  BY <1>1, AloneInside DEF InCount
<1>3. Counted' = Counted /\ Counted = {} /\ Writers' = Writers
  BY <1>1, <1>2 DEF Counted, Writers, ChannelsAgree, TokenKept
<1>4. t \in Readers /\ Writers = {}
  BY <1>1 DEF Readers, Exclusion
<1>5. Readers' = {}
  BY <1>1, <1>2, <1>3 DEF Readers, Counted, InCount
<1>6. TypeOK' /\ Shape'
  BY <1>1 DEF TypeOK, Shape, Rests
<1>7. ChannelsAgree' /\ Exclusion'
  BY <1>1, <1>2, <1>3, <1>4, <1>5 DEF ChannelsAgree, OneInside, CountKept, TokenKept, Exclusion
<1> QED BY <1>6, <1>7

\* The thread gives count_mu's token back and is inside, or out.
LEMMA UnlockCountInvariant ==
    ASSUME IInv, NEW t \in Thread, UnlockCount(t)
    PROVE  IInv'
<1> USE Typed, ReaderStep DEF IInv
<1>1. /\ at[t] = "count_mu.send" /\ at'[t] = "none"
      /\ call'[t] = IF call[t] = "read_lock" THEN "reading" ELSE "idle"
      /\ count_mu = 0 /\ count_mu' = 1
      /\ UNCHANGED <<writer, reader_count, c>>
      /\ \A u \in Thread \ {t} : at'[u] = at[u] /\ call'[u] = call[u]
      /\ at' \in [Thread -> Steps]
      /\ call' \in [Thread -> Calls \cup Rests]
  BY DEF UnlockCount, At, Return, Goto, Steps, Rests, Calls
<1>2. call[t] \in {"read_lock", "read_unlock"}
  BY <1>1
<1>3. InCount = {t} /\ InCount' = {}
  <2>1. InCount = {t}
    BY <1>1, <1>2, AloneInside DEF InCount
  <2> QED BY <1>1, <2>1 DEF InCount
<1>4. Counted' = Counted
  BY <1>1, <1>2 DEF Counted
<1>5. Readers' = Readers
  BY <1>1, <1>2 DEF Readers
<1>6. Writers' = Writers
  BY <1>1, <1>2 DEF Writers
<1>7. TypeOK' /\ Shape'
  BY <1>1, <1>2 DEF TypeOK, Shape, Rests
<1>8. ChannelsAgree' /\ Exclusion'
  BY <1>1, <1>3, <1>4, <1>5, <1>6 DEF ChannelsAgree, OneInside, CountKept, TokenKept, Exclusion
<1> QED BY <1>7, <1>8

\* A writer comes in when the token is there, which means that nobody else is.
LEMMA WriteLockInvariant ==
    ASSUME IInv, NEW t \in Thread, WriteLock(t)
    PROVE  IInv'
<1> USE Typed DEF IInv
<1>1. /\ call[t] = "write_lock" /\ call'[t] = "writing" /\ at'[t] = "none"
      /\ writer = 1 /\ writer' = 0
      /\ UNCHANGED <<count_mu, reader_count, c>>
      /\ \A u \in Thread \ {t} : at'[u] = at[u] /\ call'[u] = call[u]
      /\ at' \in [Thread -> Steps]
      /\ call' \in [Thread -> Calls \cup Rests]
  BY DEF WriteLock, Return, Goto, Steps, Rests
<1>2. InCount' = InCount /\ t \notin InCount
  BY <1>1 DEF InCount
<1>3. Counted' = Counted
  BY <1>1 DEF Counted
<1>4. Readers' = Readers /\ Readers = {}
  BY <1>1 DEF Readers, ChannelsAgree, TokenKept
<1>5. Writers = {} /\ Writers' = {t}
  BY <1>1 DEF Writers, ChannelsAgree, TokenKept
<1>6. TypeOK' /\ Shape'
  BY <1>1 DEF TypeOK, Shape, Rests
<1>7. \A u \in InCount : at'[u] = at[u] /\ call'[u] = call[u]
  BY <1>1, <1>2 DEF InCount
<1>8. ChannelsAgree' /\ Exclusion'
  BY <1>1, <1>2, <1>3, <1>4, <1>5, <1>7 DEF ChannelsAgree, OneInside, CountKept, TokenKept, Exclusion
<1> QED BY <1>6, <1>8

\* A writer returns its token.
LEMMA WriteUnlockInvariant ==
    ASSUME IInv, NEW t \in Thread, WriteUnlock(t)
    PROVE  IInv'
<1> USE Typed DEF IInv
<1>1. /\ call[t] = "write_unlock" /\ call'[t] = "idle" /\ at'[t] = "none"
      /\ writer = 0 /\ writer' = 1
      /\ UNCHANGED <<count_mu, reader_count, c>>
      /\ \A u \in Thread \ {t} : at'[u] = at[u] /\ call'[u] = call[u]
      /\ at' \in [Thread -> Steps]
      /\ call' \in [Thread -> Calls \cup Rests]
  BY DEF WriteUnlock, Return, Goto, Steps, Rests
<1>2. InCount' = InCount /\ t \notin InCount
  BY <1>1 DEF InCount
<1>3. Counted' = Counted
  BY <1>1 DEF Counted
<1>4. Writers = {t} /\ Writers' = {}
  BY <1>1 DEF Writers, Exclusion
<1>5. Readers' = Readers /\ Readers = {}
  BY <1>1, <1>4 DEF Readers, Exclusion
<1>6. TypeOK' /\ Shape'
  BY <1>1 DEF TypeOK, Shape, Rests
<1>7. \A u \in InCount : at'[u] = at[u] /\ call'[u] = call[u]
  BY <1>1, <1>2 DEF InCount
<1>8. ChannelsAgree' /\ Exclusion'
  BY <1>1, <1>2, <1>3, <1>4, <1>5, <1>7 DEF ChannelsAgree, OneInside, CountKept, TokenKept, Exclusion
<1> QED BY <1>6, <1>8

\* Each channel operation keeps the invariant.
LEMMA StepInvariant == IInv /\ [Next]_vars => IInv'
<1> SUFFICES ASSUME IInv, [Next]_vars PROVE IInv'
  OBVIOUS
<1>1. CASE UNCHANGED vars
  BY <1>1 DEF vars, IInv, TypeOK, Shape, ChannelsAgree, OneInside, CountKept, TokenKept,
              Exclusion, InCount, Counted, Readers, Writers
<1>2. ASSUME NEW t \in Thread,
             CallReadLock(t) \/ CallReadUnlock(t) \/ CallWriteLock(t) \/ CallWriteUnlock(t)
      PROVE  IInv'
  BY <1>2, BeginInvariant
<1>3. ASSUME NEW t \in Thread, Inside(t) PROVE IInv'
  BY <1>3, LockCountInvariant, TakeCountInvariant, PutCountInvariant, FirstReaderInvariant,
     LastReaderInvariant, UnlockCountInvariant, WriteLockInvariant, WriteUnlockInvariant
  DEF Inside
<1> QED BY <1>1, <1>2, <1>3 DEF Next

(* The strengthened invariant holds in every reachable state: however many    *)
(* threads call read_lock, read_unlock, write_lock and write_unlock, the three *)
(* channels agree with what the threads are doing.                             *)
THEOREM RwLockInvariance == Spec => []IInv
<1>1. Init => IInv
  BY InitInvariant
<1>2. IInv /\ [Next]_vars => IInv'
  BY StepInvariant
<1> QED BY <1>1, <1>2, PTL DEF Spec

(* The count in reader_count stays between 0 and the number of threads and the *)
(* tokens are 0 or 1: no channel of the lock is ever asked to hold more than   *)
(* its capacity of one.                                                        *)
THEOREM RwLockTypeCorrect == Spec => []TypeOK
BY RwLockInvariance, PTL DEF IInv

(* A writer excludes every reader and every other writer.                      *)
THEOREM RwLockExcludes == Spec => []Exclusion
BY RwLockInvariance, PTL DEF IInv

(* The writer's token, the count's token and the message of reader_count agree *)
(* with who is reading, writing or updating the count.                         *)
THEOREM RwLockChannelsAgree == Spec => []ChannelsAgree
BY RwLockInvariance, PTL DEF IInv
-----------------------------------------------------------------------------
(* Seen from outside: every step of the three channels is a step of the lock   *)
(* that RwLockSpec describes, or one it does not see.                          *)

\* Nobody is inside and nobody asks.
LEMMA AbsInit == Init => Abs!Init
<1> SUFFICES ASSUME Init PROVE Abs!Init
  OBVIOUS
<1>1. Readers = {} /\ Writers = {}
  BY DEF Init, Readers, Writers
<1>2. Asking = [t \in Thread |-> "nothing"]
  BY DEF Init, Asking
<1> QED BY <1>1, <1>2 DEF Abs!Init

\* Asking is a function on the threads, and one thread's move leaves the
\* answers of the others.
LEMMA AskingOthers ==
    ASSUME NEW t \in Thread,
           \A u \in Thread \ {t} : call'[u] = call[u] /\ (u \in Readers' <=> u \in Readers)
    PROVE  Asking' = [Asking EXCEPT ![t] = Asking'[t]]
BY DEF Asking

\* What a thread inside of the lock asks for.
LEMMA AskingOf ==
    ASSUME NEW t \in Thread
    PROVE  Asking[t] = IF call[t] = "read_lock" /\ t \notin Readers THEN "read"
                       ELSE IF call[t] = "write_lock" THEN "write" ELSE "nothing"
BY DEF Asking

\* The step is one the abstract lock does not see.
LEMMA Unseen ==
    ASSUME NEW t \in Thread, Readers' = Readers, Writers' = Writers,
           \A u \in Thread \ {t} : call'[u] = call[u],
           Asking'[t] = Asking[t]
    PROVE  UNCHANGED Abs!vars
<1>1. Asking' = [Asking EXCEPT ![t] = Asking'[t]]
  BY AskingOthers
<1> QED BY <1>1 DEF Abs!vars, Asking

\* A call is the abstract lock's request, or its release.
LEMMA BeginSimulated ==
    ASSUME IInv, IInv', NEW t \in Thread,
           \/ CallReadLock(t) \/ CallReadUnlock(t) \/ CallWriteLock(t) \/ CallWriteUnlock(t)
    PROVE  [Abs!Next]_(Abs!vars)
<1> USE Typed DEF IInv
<1>1. /\ \A u \in Thread \ {t} : call'[u] = call[u] /\ at'[u] = at[u]
      /\ \/ call[t] = "idle" /\ call'[t] = "read_lock" /\ at'[t] = "count_mu.recv"
         \/ call[t] = "reading" /\ call'[t] = "read_unlock" /\ at'[t] = "count_mu.recv"
         \/ call[t] = "idle" /\ call'[t] = "write_lock" /\ at'[t] = "writer"
         \/ call[t] = "writing" /\ call'[t] = "write_unlock" /\ at'[t] = "writer"
  BY DEF CallReadLock, CallReadUnlock, CallWriteLock, CallWriteUnlock, Begin, Goto, Calls, Rests, Steps
<1>2. at[t] = "none"
  BY <1>1 DEF Shape, Rests
<1>3. Readers' = Readers /\ Writers' = Writers
  BY <1>1, <1>2 DEF Readers, Writers
<1>4. Asking' = [Asking EXCEPT ![t] = Asking'[t]]
  BY <1>1, <1>3, AskingOthers
<1>5. CASE call[t] = "idle"
  <2>1. t \notin Readers \cup Writers /\ Asking[t] = "nothing"
    BY <1>5 DEF Readers, Writers, Asking
  <2>2. Asking'[t] = "read" \/ Asking'[t] = "write"
    BY <1>1, <1>3, <1>5, <2>1 DEF Asking
  <2> QED BY <1>3, <1>4, <2>1, <2>2 DEF Abs!Next, Abs!Ask
<1>6. CASE call[t] # "idle"
  <2>1. Asking'[t] = Asking[t]
    BY <1>1, <1>3, <1>6 DEF Asking
  <2> QED BY <1>1, <1>3, <2>1, Unseen
<1> QED BY <1>5, <1>6

\* The count and its token move unseen, until a reader puts its count back.
LEMMA CountSimulated ==
    ASSUME IInv, NEW t \in Thread, LockCount(t) \/ TakeCount(t) \/ UnlockCount(t)
    PROVE  UNCHANGED Abs!vars
<1> USE Typed, ReaderStep DEF IInv
<1>1. /\ \A u \in Thread \ {t} : at'[u] = at[u] /\ call'[u] = call[u]
      /\ \/ at[t] = "count_mu.recv" /\ at'[t] = "reader_count.recv" /\ call'[t] = call[t]
         \/ at[t] = "reader_count.recv" /\ at'[t] = "reader_count.send" /\ call'[t] = call[t]
         \/ /\ at[t] = "count_mu.send" /\ at'[t] = "none"
            /\ call'[t] = IF call[t] = "read_lock" THEN "reading" ELSE "idle"
  BY DEF LockCount, TakeCount, UnlockCount, At, Return, Goto
<1>2. call[t] \in {"read_lock", "read_unlock"}
  BY <1>1
<1>3. Readers' = Readers
  BY <1>1, <1>2 DEF Readers
<1>4. Writers' = Writers
  BY <1>1, <1>2 DEF Writers
<1>5. Asking'[t] = Asking[t]
  BY <1>1, <1>2, <1>3 DEF Asking, Readers
<1> QED BY <1>1, <1>3, <1>4, <1>5, Unseen

\* A reader that is not the first comes in with its count, and one that is not
\* the last leaves with it.
LEMMA PutCountSimulated ==
    ASSUME IInv, IInv', NEW t \in Thread, PutCount(t)
    PROVE  [Abs!Next]_(Abs!vars)
<1> USE Typed, ReaderStep DEF IInv
<1>1. /\ at[t] = "reader_count.send"
      /\ at'[t] = IF TouchesWriter(t) THEN "writer" ELSE "count_mu.send"
      /\ UNCHANGED call
      /\ \A u \in Thread \ {t} : at'[u] = at[u]
  BY DEF PutCount, At, Goto
<1>2. call[t] \in {"read_lock", "read_unlock"} /\ t \notin Writers
  BY <1>1
<1>3. Writers' = Writers
  BY <1>1 DEF Writers
<1>4. CASE call[t] = "read_lock" /\ c[t] = 0
  <2>1. Readers' = Readers
    BY <1>1, <1>4 DEF Readers, TouchesWriter
  <2>2. Asking'[t] = Asking[t]
    BY <1>1, <2>1 DEF Asking
  <2> QED BY <1>1, <1>3, <2>1, <2>2, Unseen
<1>5. CASE call[t] = "read_lock" /\ c[t] # 0
  <2>1. t \notin Readers /\ at'[t] = "count_mu.send"
    BY <1>1, <1>5 DEF Readers, TouchesWriter
  <2>2. Readers' = Readers \cup {t}
    BY <1>1, <1>5, <2>1 DEF Readers
  <2>3. Writers = {}
    BY <1>3, <2>2 DEF Exclusion
  <2>4. \A u \in Thread \ {t} : call'[u] = call[u] /\ (u \in Readers' <=> u \in Readers)
    BY <1>1, <2>2
  <2>5. Asking' = [Asking EXCEPT ![t] = "nothing"] /\ Asking[t] = "read"
    BY <1>1, <1>5, <2>1, <2>2, <2>4, AskingOthers DEF Asking
  <2> QED BY <1>3, <2>2, <2>3, <2>5 DEF Abs!Next, Abs!Read
<1>6. CASE call[t] = "read_unlock" /\ c[t] = 1
  <2>1. Readers' = Readers
    BY <1>1, <1>6 DEF Readers, TouchesWriter
  <2>2. Asking'[t] = Asking[t]
    BY <1>1, <2>1 DEF Asking
  <2> QED BY <1>1, <1>3, <2>1, <2>2, Unseen
<1>7. CASE call[t] = "read_unlock" /\ c[t] # 1
  <2>1. t \in Readers /\ at'[t] = "count_mu.send"
    BY <1>1, <1>7 DEF Readers, TouchesWriter
  <2>2. Readers' = Readers \ {t}
    BY <1>1, <1>7, <2>1 DEF Readers
  <2>3. Writers' = Writers \ {t}
    BY <1>2, <1>3
  <2>4. \A u \in Thread \ {t} : call'[u] = call[u] /\ (u \in Readers' <=> u \in Readers)
    BY <1>1, <2>2
  <2>5. Asking' = Asking
    BY <1>1, <1>7, <2>4 DEF Asking
  <2> QED BY <2>1, <2>2, <2>3, <2>5 DEF Abs!Next, Abs!Leave
<1> QED BY <1>2, <1>4, <1>5, <1>6, <1>7

\* The first reader comes in with the writer's token, and the last one leaves
\* when it gives it back.
LEMMA EdgeReaderSimulated ==
    ASSUME IInv, IInv', NEW t \in Thread, FirstReader(t) \/ LastReader(t)
    PROVE  [Abs!Next]_(Abs!vars)
<1> USE Typed DEF IInv
<1>1. /\ at[t] = "writer" /\ at'[t] = "count_mu.send"
      /\ call[t] \in {"read_lock", "read_unlock"}
      /\ call[t] = "read_lock" => writer = 1
      /\ UNCHANGED call
      /\ \A u \in Thread \ {t} : at'[u] = at[u]
  BY DEF FirstReader, LastReader, At, Goto
<1>2. Writers' = Writers /\ t \notin Writers
  BY <1>1 DEF Writers
<1>3. CASE call[t] = "read_lock"
  <2>1. t \notin Readers /\ Readers' = Readers \cup {t}
    BY <1>1, <1>3 DEF Readers
  <2>2. Writers = {}
    BY <1>1, <1>3 DEF ChannelsAgree, TokenKept
  <2>3. \A u \in Thread \ {t} : call'[u] = call[u] /\ (u \in Readers' <=> u \in Readers)
    BY <1>1, <2>1
  <2>4. Asking' = [Asking EXCEPT ![t] = "nothing"] /\ Asking[t] = "read"
    BY <1>1, <1>3, <2>1, <2>3, AskingOthers DEF Asking
  <2> QED BY <1>2, <2>1, <2>2, <2>4 DEF Abs!Next, Abs!Read
<1>4. CASE call[t] = "read_unlock"
  <2>1. t \in Readers /\ Readers' = Readers \ {t}
    BY <1>1, <1>4 DEF Readers
  <2>2. Writers' = Writers \ {t}
    BY <1>2
  <2>3. \A u \in Thread \ {t} : call'[u] = call[u] /\ (u \in Readers' <=> u \in Readers)
    BY <1>1, <2>1
  <2>4. Asking' = Asking
    BY <1>1, <1>4, <2>3 DEF Asking
  <2> QED BY <2>1, <2>2, <2>4 DEF Abs!Next, Abs!Leave
<1> QED BY <1>1, <1>3, <1>4

\* A writer comes in and leaves with the writer's token.
LEMMA WriterSimulated ==
    ASSUME IInv, NEW t \in Thread, WriteLock(t) \/ WriteUnlock(t)
    PROVE  [Abs!Next]_(Abs!vars)
<1> USE Typed DEF IInv
<1>1. /\ \/ call[t] = "write_lock" /\ call'[t] = "writing" /\ writer = 1
         \/ call[t] = "write_unlock" /\ call'[t] = "idle"
      /\ at[t] # "none" => at[t] = "writer"
      /\ \A u \in Thread \ {t} : at'[u] = at[u] /\ call'[u] = call[u]
  BY DEF WriteLock, WriteUnlock, Return, Goto, Shape
<1>2. Readers' = Readers /\ t \notin Readers
  BY <1>1 DEF Readers
<1>3. \A u \in Thread \ {t} : call'[u] = call[u] /\ (u \in Readers' <=> u \in Readers)
  BY <1>1, <1>2
<1>4. CASE call[t] = "write_lock"
  <2>1. Readers = {} /\ Writers = {}
    BY <1>1, <1>4 DEF ChannelsAgree, TokenKept
  <2>2. Writers' = {t}
    BY <1>1, <1>4, <2>1 DEF Writers
  <2>3. Asking' = [Asking EXCEPT ![t] = "nothing"] /\ Asking[t] = "write"
    BY <1>1, <1>4, <1>3, AskingOthers DEF Asking
  <2> QED BY <1>2, <2>1, <2>2, <2>3 DEF Abs!Next, Abs!Write
<1>5. CASE call[t] = "write_unlock"
  <2>1. t \in Writers /\ Writers' = Writers \ {t}
    BY <1>1, <1>5 DEF Writers
  <2>2. Readers' = Readers \ {t}
    BY <1>2
  <2>3. Asking' = Asking
    BY <1>1, <1>5, <1>3 DEF Asking
  <2> QED BY <2>1, <2>2, <2>3 DEF Abs!Next, Abs!Leave
<1> QED BY <1>1, <1>4, <1>5

\* Every channel operation is a step of the abstract lock or is not seen.
LEMMA StepSimulated == IInv /\ IInv' /\ [Next]_vars => [Abs!Next]_(Abs!vars)
<1> SUFFICES ASSUME IInv, IInv', [Next]_vars PROVE [Abs!Next]_(Abs!vars)
  OBVIOUS
<1>1. CASE UNCHANGED vars
  BY <1>1 DEF vars, Abs!vars, Readers, Writers, Asking
<1>2. ASSUME NEW t \in Thread,
             CallReadLock(t) \/ CallReadUnlock(t) \/ CallWriteLock(t) \/ CallWriteUnlock(t)
      PROVE  [Abs!Next]_(Abs!vars)
  BY <1>2, BeginSimulated
<1>3. ASSUME NEW t \in Thread, Inside(t) PROVE [Abs!Next]_(Abs!vars)
  BY <1>3, CountSimulated, PutCountSimulated, EdgeReaderSimulated, WriterSimulated DEF Inside
<1> QED BY <1>1, <1>2, <1>3 DEF Next

(* Three channels of capacity one are a readers / writer lock: whatever the    *)
(* threads do, each step is an ask, an entry or a leave that RwLockSpec allows, *)
(* or is not seen from outside.                                                *)
THEOREM RwLockImplements == Spec => ImplementsRwLockSpec
<1>1. Init => Abs!Init
  BY AbsInit
<1>2. IInv /\ IInv' /\ [Next]_vars => [Abs!Next]_(Abs!vars)
  BY StepSimulated
<1> QED BY <1>1, <1>2, RwLockInvariance, PTL DEF Spec, Abs!Spec, ImplementsRwLockSpec

-----------------------------------------------------------------------------
(***************************************************************************)
(* Proofs about the once-cell of std/sync.hls (module OnceCell): for any   *)
(* threads and values it implements OnceSpec, the cell whose calls take    *)
(* effect at one instant each.                                             *)
(*                                                                         *)
(* The invariant says where the two messages are: the state is in its      *)
(* channel or in the hand of one thread, and a cell that is initialised    *)
(* has its value in the value channel or in the hand of one thread, the    *)
(* set that won before its send or a reader before its own.  A thread that *)
(* has seen the state 1 can rely on it for ever.                           *)
(***************************************************************************)
USE OnceCellAssumption

Functions == {"set", "get", "is_init"}
CellSteps == {"rest", "state.recv", "state.send", "value.recv", "value.send", "return"}
MaybeVal == Val \cup {NoVal}

\* Each channel holds at most one message, of its own kind.
OnceTypeOK ==
    /\ state = <<>> \/ state = <<0>> \/ state = <<1>>
    /\ value = <<>> \/ \E x \in Val : value = <<x>>
    /\ cell_call \in [Thread -> Functions \cup {"none"}]
    /\ cell_at \in [Thread -> CellSteps]
    /\ s \in [Thread -> {0, 1}]
    /\ v \in [Thread -> MaybeVal]
    /\ arg \in [Thread -> MaybeVal]
    /\ panicked \in BOOLEAN

\* Where a thread is inside of a call fits the call and what it has seen.
CallsFit ==
    \A t \in Thread :
        /\ cell_call[t] = "none" <=> cell_at[t] = "rest"
        /\ cell_call[t] = "set" => arg[t] \in Val
        /\ cell_at[t] = "value.recv" => Reads(t)
        /\ cell_at[t] = "value.send" => v[t] \in Val /\ (Initialises(t) \/ Reads(t))

\* The state is in its channel, or one thread has it.
OneStateTaker ==
    /\ state = <<>> => \E t \in Thread : cell_at[t] = "state.send"
    /\ \A t \in Thread : cell_at[t] = "state.send" => state = <<>>
    /\ \A t, u \in Thread : cell_at[t] = "state.send" /\ cell_at[u] = "state.send" => t = u

\* The cell's state is 1, wherever it is for the moment.
IsInitialised ==
    state = <<1>> \/ \E t \in Thread : cell_at[t] = "state.send" /\ s[t] = 1

\* Nobody has seen the state 1 of a cell that is not initialised.
SeenIsTrue ==
    \A t \in Thread : s[t] = 1 /\ cell_at[t] \notin {"rest", "state.recv"} => IsInitialised

\* The value is in its channel, or one thread is about to send it there.
OneValue ==
    /\ value # <<>> => IsInitialised /\ Carriers = {}
    /\ Carriers # {} => IsInitialised /\ \E t \in Thread : Carriers = {t}
    /\ IsInitialised => value # <<>> \/ Carriers # {}

OnceInv == OnceTypeOK /\ CallsFit /\ OneStateTaker /\ SeenIsTrue /\ OneValue

\* The invariant holds at first.
LEMMA OnceInit == ASSUME CellInit PROVE OnceInv
<1>1. OnceTypeOK
  BY DEF CellInit, OnceTypeOK, Functions, CellSteps, MaybeVal
<1>2. CallsFit /\ OneStateTaker /\ SeenIsTrue
  BY DEF CellInit, CallsFit, OneStateTaker, SeenIsTrue
<1>3. ~IsInitialised /\ Carriers = {} /\ value = <<>>
  BY DEF CellInit, IsInitialised, Carriers
<1>4. QED
  BY <1>1, <1>2, <1>3 DEF OnceInv, OneValue

\* What the value of the cell is, case by case.
CellFacts ==
    /\ \A x \in Val : value = <<x>> => Cell = x
    /\ \A t \in Thread : cell_at[t] = "value.send" => Cell = v[t]
    /\ ~IsInitialised => Cell = NoVal
    /\ IsInitialised => Cell \in Val

\* What the abstract cell holds, read off the channels and the threads' locals.
LEMMA CellIs == OnceInv => CellFacts
<1> SUFFICES ASSUME OnceInv PROVE CellFacts
  OBVIOUS
<1> USE DEF OnceInv, OneValue
<1>1. \A x \in Val : value = <<x>> => Cell = x
  BY DEF Cell
<1>2. \A t \in Thread : cell_at[t] = "value.send" => Cell = v[t] /\ v[t] \in Val
  <2> TAKE t \in Thread
  <2> HAVE cell_at[t] = "value.send"
  <2>1. t \in Carriers
    BY DEF Carriers
  <2>2. Carriers = {t}
    BY <2>1
  <2>3. value = <<>>
    BY <2>1
  <2>4. (CHOOSE u \in Carriers : TRUE) = t
    BY <2>2
  <2>5. QED
    BY <2>1, <2>3, <2>4 DEF Cell, CallsFit
<1>3. ~IsInitialised => Cell = NoVal
  BY DEF Cell
<1>4. IsInitialised => Cell \in Val
  <2>1. CASE value # <<>>
    BY <1>1, <2>1 DEF OnceTypeOK
  <2>2. CASE \E t \in Thread : cell_at[t] = "value.send"
    BY <1>2, <2>2
  <2>3. QED
    BY <2>1, <2>2 DEF Carriers
<1>5. QED
  BY <1>1, <1>2, <1>3, <1>4 DEF CellFacts

\* What most steps leave as it is.
SameCell == Cell' = Cell

\* A call begins: an initialised cell stays so, and so does its value.
LEMMA BeginStep ==
    ASSUME OnceInv, NEW t \in Thread, NEW function \in Functions, NEW x \in MaybeVal,
           CellBegin(t, function, x)
    PROVE  OnceInv' /\ SameCell
<1>1. /\ cell_call[t] = "none" /\ cell_at[t] = "rest"
      /\ function = "set" => x \in Val
      /\ cell_call' = [cell_call EXCEPT ![t] = function]
      /\ arg' = [arg EXCEPT ![t] = x]
      /\ cell_at' = [cell_at EXCEPT ![t] = "state.recv"]
      /\ UNCHANGED <<state, value, s, v, panicked>>
  BY DEF CellBegin, CellGoto, OnceInv, CallsFit, MaybeVal
<1>2. OnceTypeOK'
  BY <1>1 DEF OnceInv, OnceTypeOK, Functions, CellSteps
<1>3. CallsFit'
  BY <1>1 DEF OnceInv, OnceTypeOK, CallsFit, Reads, Initialises, Functions
<1>4. OneStateTaker' /\ (IsInitialised' <=> IsInitialised)
  BY <1>1 DEF OnceInv, OnceTypeOK, OneStateTaker, IsInitialised
<1>5. SeenIsTrue'
  BY <1>1, <1>4 DEF OnceInv, OnceTypeOK, SeenIsTrue
<1>6. Carriers' = Carriers
  BY <1>1 DEF OnceInv, OnceTypeOK, Carriers
<1>7. OneValue' /\ SameCell
  BY <1>1, <1>4, <1>6 DEF OnceInv, OneValue, Cell, SameCell
<1>8. QED
  BY <1>2, <1>3, <1>4, <1>5, <1>7 DEF OnceInv

\* The state goes from its channel to the hand of one thread.
LEMMA TakeStateStep ==
    ASSUME OnceInv, NEW t \in Thread, TakeState(t) PROVE OnceInv' /\ SameCell
<1>1. /\ cell_at[t] = "state.recv" /\ state # <<>> /\ state' = <<>>
      /\ s' = [s EXCEPT ![t] = Head(state)]
      /\ cell_at' = [cell_at EXCEPT ![t] = "state.send"]
      /\ UNCHANGED <<value, cell_call, v, arg, panicked>>
  BY DEF TakeState, CellGoto
<1>2. /\ Head(state) \in {0, 1} /\ state = <<Head(state)>>
      /\ \A u \in Thread : cell_at[u] # "state.send"
  BY <1>1 DEF OnceInv, OnceTypeOK, OneStateTaker
<1>3. OnceTypeOK'
  BY <1>1, <1>2 DEF OnceInv, OnceTypeOK, CellSteps
<1>4. CallsFit'
  BY <1>1 DEF OnceInv, OnceTypeOK, CallsFit, Reads, Initialises
<1>5. OneStateTaker' /\ (IsInitialised' <=> IsInitialised)
  BY <1>1, <1>2 DEF OnceInv, OnceTypeOK, OneStateTaker, IsInitialised
<1>6. SeenIsTrue'
  BY <1>1, <1>2, <1>5 DEF OnceInv, OnceTypeOK, SeenIsTrue, IsInitialised
<1>7. Carriers' = Carriers
  BY <1>1 DEF OnceInv, OnceTypeOK, Carriers
<1>8. OneValue' /\ SameCell
  BY <1>1, <1>5, <1>7 DEF OnceInv, OneValue, Cell, SameCell
<1>9. QED
  BY <1>3, <1>4, <1>5, <1>6, <1>8 DEF OnceInv

\* Every step of a call but the send of the state by the set that wins.
LEMMA PutStateStep ==
    ASSUME OnceInv, NEW t \in Thread, PutState(t)
    PROVE  /\ OnceInv'
           /\ ~Initialises(t) => SameCell
           /\ Initialises(t) => Cell = NoVal /\ Cell' = arg[t] /\ arg[t] \in Val
           /\ IsInitialised <=> s[t] = 1
<1>1. cell_at[t] = "state.send" /\ state = <<>> /\ UNCHANGED <<value, cell_call, s, arg, panicked>>
  BY DEF PutState
<1>2. /\ s[t] \in {0, 1} /\ cell_call[t] \in Functions
      /\ \A u \in Thread : cell_at[u] = "state.send" <=> u = t
      /\ IsInitialised <=> s[t] = 1
  BY <1>1 DEF OnceInv, OnceTypeOK, OneStateTaker, CallsFit, IsInitialised
<1>3. CASE Initialises(t)
  <2>1. /\ state' = <<1>> /\ cell_at' = [cell_at EXCEPT ![t] = "value.send"]
        /\ v' = [v EXCEPT ![t] = arg[t]]
    BY <1>3 DEF PutState, CellGoto
  <2>2. s[t] = 0 /\ cell_call[t] = "set" /\ arg[t] \in Val /\ ~IsInitialised
    BY <1>2, <1>3 DEF Initialises, OnceInv, CallsFit
  <2>3. value = <<>> /\ Carriers = {} /\ Cell = NoVal
    BY <2>2, CellIs DEF OnceInv, OneValue, CellFacts
  <2>4. OnceTypeOK'
    BY <1>1, <2>1 DEF OnceInv, OnceTypeOK, CellSteps
  <2>5. CallsFit'
    BY <1>1, <2>1, <2>2 DEF OnceInv, OnceTypeOK, CallsFit, Reads, Initialises
  <2>6. OneStateTaker' /\ IsInitialised' /\ SeenIsTrue'
    BY <1>2, <2>1 DEF OnceInv, OnceTypeOK, OneStateTaker, IsInitialised, SeenIsTrue
  <2>7. Carriers' = {t}
    BY <2>1, <2>3 DEF OnceInv, OnceTypeOK, Carriers
  <2>8. OneValue'
    BY <1>1, <2>3, <2>6, <2>7 DEF OneValue
  <2>9. OnceInv'
    BY <2>4, <2>5, <2>6, <2>8 DEF OnceInv
  <2>10. CellFacts'
    BY <2>9, CellIs, PTL
  <2>11. Cell' = arg[t]
    BY <2>1, <2>10 DEF CellFacts, OnceInv, OnceTypeOK
  <2>12. QED
    BY <1>2, <1>3, <2>2, <2>3, <2>9, <2>11
<1>4. CASE ~Initialises(t)
  <2>1. /\ state' = <<s[t]>> /\ v' = v
        /\ cell_at' = [cell_at EXCEPT ![t] = IF Reads(t) THEN "value.recv" ELSE "return"]
    BY <1>4 DEF PutState, CellGoto, OnceInv, OnceTypeOK
  <2>2. OnceTypeOK'
    BY <1>1, <1>2, <2>1 DEF OnceInv, OnceTypeOK, CellSteps
  <2>3. CallsFit'
    BY <1>1, <2>1 DEF OnceInv, OnceTypeOK, CallsFit, Reads, Initialises
  <2>4. OneStateTaker' /\ (IsInitialised' <=> IsInitialised)
    BY <1>2, <2>1 DEF OnceInv, OnceTypeOK, OneStateTaker, IsInitialised
  <2>5. SeenIsTrue'
    BY <1>1, <1>2, <2>1, <2>4 DEF OnceInv, OnceTypeOK, SeenIsTrue
  <2>6. Carriers' = Carriers
    BY <1>1, <2>1 DEF OnceInv, OnceTypeOK, Carriers
  <2>7. OneValue' /\ SameCell
    BY <1>1, <2>1, <2>4, <2>6 DEF OnceInv, OneValue, Cell, SameCell
  <2>8. QED
    BY <1>2, <1>4, <2>2, <2>3, <2>4, <2>5, <2>7 DEF OnceInv
<1>5. QED
  BY <1>3, <1>4

\* A reader takes the value: it is the cell's.
LEMMA TakeValueStep ==
    ASSUME OnceInv, NEW t \in Thread, TakeValue(t)
    PROVE  OnceInv' /\ SameCell /\ v'[t] = Cell
<1>1. /\ cell_at[t] = "value.recv" /\ value # <<>> /\ value' = <<>>
      /\ v' = [v EXCEPT ![t] = Head(value)]
      /\ cell_at' = [cell_at EXCEPT ![t] = "value.send"]
      /\ UNCHANGED <<state, cell_call, s, arg, panicked>>
  BY DEF TakeValue, CellGoto
<1>2. PICK x \in Val : value = <<x>>
  BY <1>1 DEF OnceInv, OnceTypeOK
<1>3. /\ Head(value) = x /\ Cell = x /\ Carriers = {} /\ IsInitialised
      /\ v' = [v EXCEPT ![t] = x] /\ v'[t] = x
  BY <1>1, <1>2, CellIs DEF OnceInv, OnceTypeOK, OneValue, CellFacts
<1>4. OnceTypeOK'
  BY <1>1, <1>3 DEF OnceInv, OnceTypeOK, CellSteps, MaybeVal
<1>5. CallsFit'
  BY <1>1, <1>3 DEF OnceInv, OnceTypeOK, CallsFit, Reads, Initialises
<1>6. OneStateTaker' /\ (IsInitialised' <=> IsInitialised)
  BY <1>1 DEF OnceInv, OnceTypeOK, OneStateTaker, IsInitialised
<1>7. SeenIsTrue'
  BY <1>1, <1>6 DEF OnceInv, OnceTypeOK, SeenIsTrue
<1>8. Carriers' = {t}
  BY <1>1, <1>3 DEF OnceInv, OnceTypeOK, Carriers
<1>9. OneValue'
  BY <1>1, <1>3, <1>6, <1>8 DEF OneValue
<1>10. OnceInv'
  BY <1>4, <1>5, <1>6, <1>7, <1>9 DEF OnceInv
<1>11. CellFacts'
  BY <1>10, CellIs, PTL
<1>12. cell_at'[t] = "value.send"
  BY <1>1 DEF OnceInv, OnceTypeOK
<1>13. QED
  BY <1>3, <1>10, <1>11, <1>12 DEF CellFacts, SameCell

\* The value goes back, or comes for the first time.
LEMMA PutValueStep ==
    ASSUME OnceInv, NEW t \in Thread, PutValue(t) PROVE OnceInv' /\ SameCell
<1>1. /\ cell_at[t] = "value.send" /\ value = <<>> /\ value' = <<v[t]>>
      /\ cell_at' = [cell_at EXCEPT ![t] = "return"]
      /\ UNCHANGED <<state, cell_call, s, v, arg, panicked>>
  BY DEF PutValue, CellGoto
<1>2. v[t] \in Val /\ Cell = v[t] /\ t \in Carriers
  BY <1>1, CellIs DEF OnceInv, CallsFit, CellFacts, Carriers
<1>3. Carriers = {t} /\ IsInitialised
  BY <1>2 DEF OnceInv, OneValue
<1>4. OnceTypeOK'
  BY <1>1, <1>2 DEF OnceInv, OnceTypeOK, CellSteps
<1>5. CallsFit'
  BY <1>1 DEF OnceInv, OnceTypeOK, CallsFit, Reads, Initialises
<1>6. OneStateTaker' /\ (IsInitialised' <=> IsInitialised)
  BY <1>1 DEF OnceInv, OnceTypeOK, OneStateTaker, IsInitialised
<1>7. SeenIsTrue'
  BY <1>1, <1>6 DEF OnceInv, OnceTypeOK, SeenIsTrue
<1>8. Carriers' = {}
  BY <1>1, <1>3 DEF OnceInv, OnceTypeOK, Carriers
<1>9. OneValue'
  BY <1>1, <1>3, <1>6, <1>8 DEF OneValue
<1>10. OnceInv'
  BY <1>4, <1>5, <1>6, <1>7, <1>9 DEF OnceInv
<1>11. CellFacts'
  BY <1>10, CellIs, PTL
<1>12. QED
  BY <1>1, <1>2, <1>10, <1>11 DEF CellFacts, SameCell

\* A call returns, or panics.
LEMMA ReturnStep ==
    ASSUME OnceInv, NEW t \in Thread, CellReturn(t) PROVE OnceInv' /\ SameCell
<1>1. cell_at[t] = "return" /\ UNCHANGED <<state, value, s>>
  BY DEF CellReturn
<1>2. CASE Panics(t)
  <2>1. UNCHANGED <<state, value, s, cell_call, cell_at, v, arg>> /\ panicked' = TRUE
    BY <1>2 DEF CellReturn
  <2>2. QED
    BY <2>1 DEF OnceInv, OnceTypeOK, CallsFit, OneStateTaker, SeenIsTrue, OneValue, IsInitialised,
                Reads, Initialises, Carriers, Cell, SameCell
<1>3. CASE ~Panics(t)
  <2>1. /\ cell_call' = [cell_call EXCEPT ![t] = "none"] /\ cell_at' = [cell_at EXCEPT ![t] = "rest"]
        /\ arg' = [arg EXCEPT ![t] = NoVal] /\ v' = [v EXCEPT ![t] = NoVal]
        /\ UNCHANGED panicked
    BY <1>3 DEF CellReturn, CellGoto
  <2>2. OnceTypeOK'
    BY <1>1, <2>1 DEF OnceInv, OnceTypeOK, CellSteps, MaybeVal
  <2>3. CallsFit'
    BY <1>1, <2>1 DEF OnceInv, OnceTypeOK, CallsFit, Reads, Initialises
  <2>4. OneStateTaker' /\ (IsInitialised' <=> IsInitialised)
    BY <1>1, <2>1 DEF OnceInv, OnceTypeOK, OneStateTaker, IsInitialised
  <2>5. SeenIsTrue'
    BY <1>1, <2>1, <2>4 DEF OnceInv, OnceTypeOK, SeenIsTrue
  <2>6. Carriers' = Carriers /\ t \notin Carriers /\ \A u \in Carriers : v'[u] = v[u]
    BY <1>1, <2>1 DEF OnceInv, OnceTypeOK, Carriers
  <2>7. OneValue'
    BY <1>1, <2>4, <2>6 DEF OnceInv, OneValue
  <2>8. SameCell
    <3>1. Carriers # {} => (CHOOSE u \in Carriers : TRUE) \in Carriers
      OBVIOUS
    <3>2. QED
      BY <1>1, <2>6, <3>1 DEF Cell, SameCell
  <2>9. QED
    BY <2>2, <2>3, <2>4, <2>5, <2>7, <2>8 DEF OnceInv
<1>4. QED
  BY <1>2, <1>3

\* OnceInv is an invariant of the cell.
THEOREM OnceInvariance == CellSpec => []OnceInv
<1>1. CellInit => OnceInv
  BY OnceInit
<1>2. OnceInv /\ [CellNext]_cellVars => OnceInv'
  <2>1. OnceInv /\ UNCHANGED cellVars => OnceInv'
    BY DEF cellVars, OnceInv, OnceTypeOK, CallsFit, OneStateTaker, SeenIsTrue, OneValue, IsInitialised,
           Reads, Initialises, Carriers
  <2>2. QED
    BY <2>1, BeginStep, TakeStateStep, PutStateStep, TakeValueStep, PutValueStep, ReturnStep
    DEF CellNext, CellInside, Functions, MaybeVal
<1>3. QED
  BY <1>1, <1>2, PTL DEF CellSpec

-----------------------------------------------------------------------------
(* Refinement: OnceCell implements OnceSpec.                               *)

\* The answer of a call depends on its thread's own variables and the cell.
SameAnswers == \A t \in Thread : Answered(t)' = Answered(t)

\* A step that changes neither the cell nor an answer is not seen from outside.
LEMMA Stutters ==
    ASSUME SameCell, SameAnswers, cell_call' = cell_call, arg' = arg
    PROVE  UNCHANGED <<Cell, cell_call, arg, Answers>>
BY DEF SameCell, SameAnswers, Answers

\* A step that moves one thread leaves the answers of the others alone.
LEMMA OthersSame ==
    ASSUME SameCell, NEW t \in Thread, NEW u \in Thread, u # t,
           cell_at'[u] = cell_at[u], cell_call'[u] = cell_call[u], s'[u] = s[u], arg'[u] = arg[u], v'[u] = v[u]
    PROVE  Answered(u)' = Answered(u)
BY DEF Answered, SameCell

\* The cell begins empty and unasked.
LEMMA InitImplements == CellInit => AbsCell!Init
<1> SUFFICES ASSUME CellInit PROVE AbsCell!Init
  OBVIOUS
<1>1. Cell = NoVal
  BY DEF CellInit, Cell, Carriers
<1>2. Answers = [t \in Thread |-> "pending"]
  BY DEF CellInit, Answers, Answered
<1>3. QED
  BY <1>1, <1>2 DEF CellInit, AbsCell!Init

\* A call made is a call made.
LEMMA BeginImplements ==
    ASSUME OnceInv, NEW t \in Thread, NEW function \in Functions, NEW x \in MaybeVal,
           CellBegin(t, function, x)
    PROVE  AbsCell!Call(t, function, x)
<1>1. /\ cell_call[t] = "none" /\ cell_at[t] = "rest"
      /\ cell_call' = [cell_call EXCEPT ![t] = function]
      /\ arg' = [arg EXCEPT ![t] = x]
      /\ cell_at' = [cell_at EXCEPT ![t] = "state.recv"]
      /\ UNCHANGED <<s, v>>
  BY DEF CellBegin, CellGoto, OnceInv, CallsFit
<1>2. SameCell
  BY BeginStep
<1>3. Answered(t)' = "pending" /\ Answered(t) = "pending"
  BY <1>1 DEF Answered, OnceInv, OnceTypeOK
<1>4. \A u \in Thread \ {t} : Answered(u)' = Answered(u)
  BY <1>1, <1>2 DEF Answered, SameCell, OnceInv, OnceTypeOK
<1>5. Answers' = Answers
  BY <1>3, <1>4 DEF Answers
<1>6. QED
  BY <1>1, <1>2, <1>5 DEF AbsCell!Call, SameCell

\* The receive of the state, that of the value, and the send of the value
\* are nothing the caller could tell.
LEMMA TakeStateImplements ==
    ASSUME OnceInv, NEW t \in Thread, TakeState(t) PROVE UNCHANGED <<Cell, cell_call, arg, Answers>>
<1>1. /\ cell_at[t] = "state.recv" /\ s' = [s EXCEPT ![t] = Head(state)]
      /\ cell_at' = [cell_at EXCEPT ![t] = "state.send"]
      /\ UNCHANGED <<cell_call, v, arg>>
  BY DEF TakeState, CellGoto
<1>2. SameCell
  BY TakeStateStep
<1>3. Answered(t)' = "pending" /\ Answered(t) = "pending"
  BY <1>1 DEF Answered, OnceInv, OnceTypeOK
<1>4. \A u \in Thread \ {t} : Answered(u)' = Answered(u)
  BY <1>1, <1>2 DEF Answered, SameCell, OnceInv, OnceTypeOK
<1>5. QED
  BY <1>1, <1>2, <1>3, <1>4, Stutters DEF SameAnswers

\* A reader that has the value does not have its answer yet.
LEMMA TakeValueImplements ==
    ASSUME OnceInv, NEW t \in Thread, TakeValue(t) PROVE UNCHANGED <<Cell, cell_call, arg, Answers>>
<1>1. /\ cell_at[t] = "value.recv"
      /\ v' = [v EXCEPT ![t] = Head(value)]
      /\ cell_at' = [cell_at EXCEPT ![t] = "value.send"]
      /\ UNCHANGED <<cell_call, s, arg>>
  BY DEF TakeValue, CellGoto
<1>2. SameCell /\ v'[t] = Cell
  BY TakeValueStep
<1>3. cell_call[t] = "get" /\ s[t] = 1 /\ cell_at'[t] = "value.send"
  BY <1>1 DEF OnceInv, OnceTypeOK, CallsFit, Reads
<1>4. Answered(t)' = v'[t] /\ Answered(t) = Cell
  BY <1>1, <1>3 DEF Answered
<1>5. \A u \in Thread \ {t} : Answered(u)' = Answered(u)
  BY <1>1, <1>2 DEF Answered, SameCell, OnceInv, OnceTypeOK
<1>6. QED
  BY <1>1, <1>2, <1>4, <1>5, Stutters DEF SameAnswers

\* Nor is the return of the value to its channel seen.
LEMMA PutValueImplements ==
    ASSUME OnceInv, NEW t \in Thread, PutValue(t) PROVE UNCHANGED <<Cell, cell_call, arg, Answers>>
<1>1. /\ cell_at[t] = "value.send" /\ cell_at' = [cell_at EXCEPT ![t] = "return"]
      /\ UNCHANGED <<cell_call, s, v, arg>>
  BY DEF PutValue, CellGoto
<1>2. SameCell
  BY PutValueStep
<1>3. cell_at'[t] = "return"
  BY <1>1 DEF OnceInv, OnceTypeOK
<1>4. Answered(t)' = Answered(t)
  BY <1>1, <1>3 DEF Answered
<1>5. \A u \in Thread \ {t} : Answered(u)' = Answered(u)
  BY <1>1, <1>2 DEF Answered, SameCell, OnceInv, OnceTypeOK
<1>6. QED
  BY <1>1, <1>2, <1>4, <1>5, Stutters DEF SameAnswers

\* A call takes effect when its thread sends the state back.
LEMMA PutStateImplements ==
    ASSUME OnceInv, NEW t \in Thread, PutState(t)
    PROVE  AbsCell!Set(t) \/ AbsCell!Get(t) \/ AbsCell!IsInit(t)
<1>1. cell_at[t] = "state.send" /\ UNCHANGED <<cell_call, s, arg>>
  BY DEF PutState
<1>2. cell_call[t] \in Functions /\ s[t] \in {0, 1} /\ arg[t] \in MaybeVal
  BY <1>1 DEF OnceInv, OnceTypeOK, CallsFit
<1>3. Answers[t] = "pending"
  BY <1>1 DEF Answers, Answered
<1>4. /\ IsInitialised <=> s[t] = 1
      /\ ~Initialises(t) => SameCell
      /\ Initialises(t) => Cell = NoVal /\ Cell' = arg[t] /\ arg[t] \in Val
  BY PutStateStep
<1>5. s[t] = 0 <=> Cell = NoVal
  BY <1>2, <1>4, CellIs DEF CellFacts
<1>6. /\ cell_at' = [cell_at EXCEPT ![t] = IF Initialises(t) THEN "value.send"
                               ELSE IF Reads(t) THEN "value.recv" ELSE "return"]
      /\ cell_at'[t] = IF Initialises(t) THEN "value.send" ELSE IF Reads(t) THEN "value.recv" ELSE "return"
      /\ v' = [v EXCEPT ![t] = IF Initialises(t) THEN arg[t] ELSE @]
  BY DEF PutState, CellGoto, OnceInv, OnceTypeOK
<1>7. \A u \in Thread \ {t} : Answered(u)' = Answered(u)
  <2> TAKE u \in Thread \ {t}
  <2>1. cell_at'[u] = cell_at[u] /\ cell_call'[u] = cell_call[u] /\ s'[u] = s[u] /\ arg'[u] = arg[u] /\ v'[u] = v[u]
    BY <1>1, <1>6 DEF OnceInv, OnceTypeOK
  <2>2. CASE SameCell
    BY <2>1, <2>2, OthersSame
  <2>3. CASE Initialises(t)
    <3>1. ~IsInitialised
      BY <1>4, <2>3 DEF Initialises
    <3>2. cell_at[u] # "value.recv"
      BY <3>1 DEF OnceInv, CallsFit, SeenIsTrue, Reads
    <3>3. QED
      BY <2>1, <3>2 DEF Answered
  <2>4. QED
    BY <1>4, <2>2, <2>3
<1>8. \A a : Answered(t)' = a => AbsCell!Answer(t, a)
  BY <1>7 DEF Answers, AbsCell!Answer
<1>9. CASE cell_call[t] = "set"
  <2>1. CASE s[t] = 0
    <3>1. cell_at'[t] = "value.send" /\ Cell = NoVal /\ Cell' = arg[t]
      BY <1>4, <1>6, <1>9, <2>1 DEF Initialises
    <3>2. Answered(t)' = "initialised"
      BY <1>1, <1>9, <2>1, <3>1 DEF Answered
    <3>3. QED
      BY <1>1, <1>3, <1>8, <1>9, <3>1, <3>2 DEF AbsCell!Set
  <2>2. CASE s[t] = 1
    <3>1. cell_at'[t] = "return" /\ Cell # NoVal /\ Cell' = Cell
      BY <1>4, <1>5, <1>6, <1>9, <2>2 DEF Initialises, Reads, SameCell
    <3>2. Answered(t)' = "refused"
      BY <1>1, <1>9, <2>2, <3>1 DEF Answered
    <3>3. QED
      BY <1>1, <1>3, <1>8, <1>9, <3>1, <3>2 DEF AbsCell!Set
  <2>3. QED
    BY <1>2, <2>1, <2>2
<1>10. CASE cell_call[t] = "get"
  <2>1. CASE s[t] = 0
    <3>1. cell_at'[t] = "return" /\ Cell = NoVal /\ Cell' = Cell
      BY <1>4, <1>5, <1>6, <1>10, <2>1 DEF Initialises, Reads, SameCell
    <3>2. Answered(t)' = arg[t]
      BY <1>1, <1>10, <2>1, <3>1 DEF Answered
    <3>3. QED
      BY <1>1, <1>3, <1>8, <1>10, <3>1, <3>2 DEF AbsCell!Get
  <2>2. CASE s[t] = 1
    <3>1. cell_at'[t] = "value.recv" /\ Cell # NoVal /\ Cell' = Cell
      BY <1>4, <1>5, <1>6, <1>10, <2>2 DEF Initialises, Reads, SameCell
    <3>2. Answered(t)' = Cell
      BY <1>1, <1>10, <2>2, <3>1 DEF Answered
    <3>3. QED
      BY <1>1, <1>3, <1>8, <1>10, <3>1, <3>2 DEF AbsCell!Get
  <2>3. QED
    BY <1>2, <2>1, <2>2
<1>11. CASE cell_call[t] = "is_init"
  <2>1. cell_at'[t] = "return" /\ Cell' = Cell
    BY <1>4, <1>6, <1>11 DEF Initialises, Reads, SameCell
  <2>2. Answered(t)' = IF Cell = NoVal THEN "no" ELSE "yes"
    BY <1>1, <1>5, <1>11, <2>1 DEF Answered
  <2>3. QED
    BY <1>1, <1>3, <1>8, <1>11, <2>1, <2>2 DEF AbsCell!IsInit
<1>12. QED
  BY <1>2, <1>9, <1>10, <1>11 DEF Functions

\* A return is a return, with the answer the call took effect with; a panic
\* ends the program inside the call.
LEMMA ReturnImplements ==
    ASSUME OnceInv, NEW t \in Thread, CellReturn(t)
    PROVE  AbsCell!Return(t) \/ UNCHANGED <<Cell, cell_call, arg, Answers>>
<1>1. cell_at[t] = "return" /\ UNCHANGED s /\ SameCell
  BY ReturnStep DEF CellReturn
<1>2. CASE Panics(t)
  <2>1. UNCHANGED <<cell_call, cell_at, v, arg>>
    BY <1>2 DEF CellReturn
  <2>2. SameAnswers
    BY <1>1, <2>1 DEF SameAnswers, Answered, SameCell
  <2>3. QED
    BY <1>1, <2>1, <2>2, Stutters
<1>3. CASE ~Panics(t)
  <2>1. /\ cell_call' = [cell_call EXCEPT ![t] = "none"] /\ cell_at' = [cell_at EXCEPT ![t] = "rest"]
        /\ arg' = [arg EXCEPT ![t] = NoVal] /\ v' = [v EXCEPT ![t] = NoVal]
    BY <1>3 DEF CellReturn, CellGoto
  <2>2. Answered(t)' = "pending"
    BY <2>1 DEF Answered, OnceInv, OnceTypeOK
  <2>3. Answered(t) # "pending"
    BY <1>1 DEF Answered, OnceInv, OnceTypeOK, MaybeVal
  <2>4. \A u \in Thread \ {t} : Answered(u)' = Answered(u)
    BY <1>1, <2>1 DEF Answered, SameCell, OnceInv, OnceTypeOK
  <2>5. AbsCell!Answer(t, "pending") /\ Answers[t] # "pending"
    BY <2>2, <2>3, <2>4 DEF Answers, AbsCell!Answer
  <2>6. QED
    BY <1>1, <2>1, <2>5 DEF AbsCell!Return, SameCell
<1>4. QED
  BY <1>2, <1>3

\* The once-cell is linearisable, for any threads and values: what its callers
\* see could be the cell of OnceSpec, though an initialised cell is without its
\* value for a moment at every read.
THEOREM OnceImplements == CellSpec => ImplementsOnceSpec
<1>1. CellInit => AbsCell!Init
  BY InitImplements
<1>2. OnceInv /\ [CellNext]_cellVars => [AbsCell!Next]_<<Cell, cell_call, arg, Answers>>
  <2> SUFFICES ASSUME OnceInv, [CellNext]_cellVars
               PROVE  AbsCell!Next \/ UNCHANGED <<Cell, cell_call, arg, Answers>>
    OBVIOUS
  <2>1. CASE UNCHANGED cellVars
    BY <2>1 DEF cellVars, Cell, Carriers, Answers, Answered
  <2>2. CASE \E t \in Thread, function \in Functions, x \in MaybeVal : CellBegin(t, function, x)
    BY <2>2, BeginImplements DEF AbsCell!Next, Functions, MaybeVal
  <2>3. CASE \E t \in Thread : TakeState(t) \/ TakeValue(t) \/ PutValue(t)
    BY <2>3, TakeStateImplements, TakeValueImplements, PutValueImplements
  <2>4. CASE \E t \in Thread : PutState(t)
    BY <2>4, PutStateImplements DEF AbsCell!Next
  <2>5. CASE \E t \in Thread : CellReturn(t)
    BY <2>5, ReturnImplements DEF AbsCell!Next
  <2>6. QED
    BY <2>1, <2>2, <2>3, <2>4, <2>5 DEF CellNext, CellInside, Functions, MaybeVal
<1>3. QED
  BY <1>1, <1>2, OnceInvariance, PTL DEF CellSpec, ImplementsOnceSpec, AbsCell!Spec, AbsCell!vars

=============================================================================
