------------------------ MODULE ChanRuntime_proofs ------------------------
(***************************************************************************)
(* Proofs about ChanRuntime: the inductive invariant IInv, and from it the *)
(* soundness of the deadlock detector, the absence of lost wake-ups and    *)
(* the exactness of the runtime's counters, for every number of threads    *)
(* and channels.  At the end: the runtime implements ChanSpec.  A section  *)
(* of g_rt_mu is one step there; being woken, and going back to sleep, is  *)
(* not seen from outside, and a verdict is allowed because it is true.     *)
(***************************************************************************)
EXTENDS ChanRuntime, FiniteSetTheorems, TLAPS

USE ChanOpsAssumption, MaxQueueAssumption

-----------------------------------------------------------------------------
(* Requests *)

\* The fields of a request, by its kind.
LEMMA RequestShape ==
    ASSUME NEW r \in Requests
    PROVE  /\ r.kind \in {"send", "recv", "select", "join"}
           /\ r.chs \in SUBSET Chan
           /\ r.kind = "send" => r.val \in Val /\ \E c \in Chan : r.chs = {c}
           /\ r.kind = "recv" => \E c \in Chan : r.chs = {c}
           /\ r.kind = "select" => r.chs # {}
           /\ r.kind = "join" => r.task \in Task
           /\ r # NoReq
BY DEF Requests, SendReqs, RecvReqs, SelectReqs, JoinReqs, SendReq, RecvReq,
       SelectReq, JoinReq, NoReq, Request

\* The requests the operations make.
LEMMA RequestsMade ==
    /\ \A c \in Chan : RecvReq(c) \in Requests /\ RecvReq(c).kind = "recv"
    /\ \A c \in Chan : \A v \in Carries[c] : SendReq(c, v) \in Requests /\ SendReq(c, v).kind = "send"
    /\ \A S \in (SUBSET Chan) \ {{}} : SelectReq(S) \in Requests /\ SelectReq(S).kind = "select"
    /\ \A k \in Task : JoinReq(k) \in Requests /\ JoinReq(k).kind = "join" /\ JoinReq(k).task = k
<1>1. \A c \in Chan : RecvReq(c) \in Requests /\ RecvReq(c).kind = "recv"
  BY DEF Requests, RecvReqs, RecvReq, Request
<1>2. \A c \in Chan : \A v \in Carries[c] : SendReq(c, v) \in Requests /\ SendReq(c, v).kind = "send"
  <2>1. \A c \in Chan : \A v \in Carries[c] : SendReq(c, v) \in SendReqs
    <3> SUFFICES ASSUME NEW c \in Chan, NEW v \in Carries[c]
                 PROVE  SendReq(c, v) \in {SendReq(c, w) : w \in Carries[c]}
      BY DEF SendReqs
    <3> QED OBVIOUS
  <2>2. \A c \in Chan : \A v \in Carries[c] : SendReq(c, v).kind = "send"
    BY DEF SendReq, Request
  <2> QED BY <2>1, <2>2, Zenon DEF Requests
<1>3. \A S \in (SUBSET Chan) \ {{}} : SelectReq(S) \in Requests /\ SelectReq(S).kind = "select"
  BY DEF Requests, SelectReqs, SelectReq, Request
<1>4. \A k \in Task : JoinReq(k) \in Requests /\ JoinReq(k).kind = "join" /\ JoinReq(k).task = k
  BY DEF Requests, JoinReqs, JoinReq, Request
<1> QED BY <1>1, <1>2, <1>3, <1>4

-----------------------------------------------------------------------------
(* Counting *)

\* The cardinality of a set that gains or loses one element.
LEMMA OneMore ==
    ASSUME NEW S, IsFiniteSet(S), NEW x, x \notin S
    PROVE  Cardinality(S \cup {x}) = Cardinality(S) + 1
BY FS_AddElement

\* One element taken out of a finite set.
LEMMA OneLess ==
    ASSUME NEW S, IsFiniteSet(S), NEW x \in S
    PROVE  /\ Cardinality(S \ {x}) = Cardinality(S) - 1
           /\ Cardinality(S) > 0
<1>1. Cardinality(S \ {x}) = Cardinality(S) - 1
  BY FS_RemoveElement
<1>2. Cardinality(S) \in Nat /\ Cardinality(S) # 0
  BY FS_EmptySet, FS_CardinalityType
<1> QED BY <1>1, <1>2

\* The sets the counters stand for are finite.
LEMMA FiniteParts ==
    /\ IsFiniteSet(Live \ {Main})
    /\ IsFiniteSet(Parked)
    /\ IsFiniteSet(ParkedJoin)
    /\ IsFiniteSet(DoneUnjoined)
    /\ \A c \in Chan : IsFiniteSet(ParkedRecv(c)) /\ IsFiniteSet(ParkedSend(c))
<1> /\ Live \ {Main} \subseteq Thread
    /\ Parked \subseteq Thread
    /\ ParkedJoin \subseteq Thread
    /\ DoneUnjoined \subseteq Thread
    /\ \A c \in Chan : ParkedRecv(c) \subseteq Thread /\ ParkedSend(c) \subseteq Thread
  BY DEF Live, Parked, ParkedJoin, DoneUnjoined, ParkedRecv, ParkedSend, Task
<1> QED BY FS_Subset

\* What the wait counters owe the parked threads.
WaitCounts ==
    /\ rt_blocked = Cardinality(Parked)
    /\ rt_join_waiters = Cardinality(ParkedJoin)
    /\ \A c \in Chan : /\ waiters[c] = Cardinality(ParkedRecv(c))
                       /\ send_waiters[c] = Cardinality(ParkedSend(c))

\* Going to sleep raises exactly the counters of the request.
LEMMA ParkCounts ==
    ASSUME TypeOK, WaitCounts, NEW t \in Thread, t \notin Parked,
           NEW r \in Requests, CountUp(r),
           Parked' = Parked \cup {t}, req' = [req EXCEPT ![t] = r]
    PROVE  WaitCounts'
<1> USE FiniteParts
<1>0. /\ req \in [Thread -> Requests \cup {NoReq}]
      /\ waiters \in [Chan -> Nat]
      /\ send_waiters \in [Chan -> Nat]
  BY DEF TypeOK
<1>1. \A s \in Parked : req'[s] = req[s]
  BY <1>0
<1>2. req'[t] = r
  BY <1>0
<1>3. rt_blocked' = Cardinality(Parked')
  BY OneMore DEF WaitCounts, CountUp, AwaitsMessage, AwaitsRoom
<1>4. rt_join_waiters' = Cardinality(ParkedJoin')
  <2>1. CASE r.kind = "join"
    <3>1. ParkedJoin' = ParkedJoin \cup {t} /\ t \notin ParkedJoin
      BY <1>1, <1>2, <2>1 DEF ParkedJoin
    <3> QED BY <3>1, <2>1, OneMore DEF WaitCounts, CountUp, AwaitsMessage, AwaitsRoom
  <2>2. CASE r.kind # "join"
    <3>1. ParkedJoin' = ParkedJoin
      BY <1>1, <1>2, <2>2 DEF ParkedJoin
    <3> QED BY <3>1, <2>2 DEF WaitCounts, CountUp, AwaitsMessage, AwaitsRoom
  <2> QED BY <2>1, <2>2
<1>5. ASSUME NEW c \in Chan
      PROVE  waiters'[c] = Cardinality(ParkedRecv(c)')
  <2>1. CASE r.kind \in {"recv", "select"} /\ c \in r.chs
    <3>1. ParkedRecv(c)' = ParkedRecv(c) \cup {t} /\ t \notin ParkedRecv(c)
      BY <1>1, <1>2, <2>1 DEF ParkedRecv
    <3> QED BY <3>1, <2>1, OneMore DEF WaitCounts, CountUp, AwaitsMessage, AwaitsRoom
  <2>2. CASE ~(r.kind \in {"recv", "select"} /\ c \in r.chs)
    <3>1. ParkedRecv(c)' = ParkedRecv(c)
      BY <1>1, <1>2, <2>2 DEF ParkedRecv
    <3> QED BY <3>1, <2>2 DEF WaitCounts, CountUp, AwaitsMessage, AwaitsRoom
  <2> QED BY <2>1, <2>2
<1>6. ASSUME NEW c \in Chan
      PROVE  send_waiters'[c] = Cardinality(ParkedSend(c)')
  <2>1. CASE r.kind = "send" /\ c \in r.chs
    <3>1. ParkedSend(c)' = ParkedSend(c) \cup {t} /\ t \notin ParkedSend(c)
      BY <1>1, <1>2, <2>1 DEF ParkedSend
    <3> QED BY <3>1, <2>1, OneMore DEF WaitCounts, CountUp, AwaitsMessage, AwaitsRoom
  <2>2. CASE ~(r.kind = "send" /\ c \in r.chs)
    <3>1. ParkedSend(c)' = ParkedSend(c)
      BY <1>1, <1>2, <2>2 DEF ParkedSend
    <3> QED BY <3>1, <2>2 DEF WaitCounts, CountUp, AwaitsMessage, AwaitsRoom
  <2> QED BY <2>1, <2>2
<1> QED BY <1>3, <1>4, <1>5, <1>6 DEF WaitCounts

\* Leaving the wait lowers exactly the counters of the request.
LEMMA UnparkCounts ==
    ASSUME TypeOK, WaitCounts, NEW t \in Parked, CountDown(req[t]),
           Parked' = Parked \ {t}, \A s \in Thread \ {t} : req'[s] = req[s]
    PROVE  /\ WaitCounts'
           /\ rt_blocked' \in Nat /\ rt_join_waiters' \in Nat
           /\ waiters' \in [Chan -> Nat] /\ send_waiters' \in [Chan -> Nat]
<1> USE FiniteParts
<1> DEFINE r == req[t]
<1>0. /\ waiters \in [Chan -> Nat]
      /\ send_waiters \in [Chan -> Nat]
      /\ rt_blocked \in Nat /\ rt_join_waiters \in Nat
      /\ Parked \subseteq Thread
  BY DEF TypeOK, Parked
<1>1. \A s \in Parked \ {t} : req'[s] = req[s]
  BY <1>0
<1>3. rt_blocked' = Cardinality(Parked') /\ rt_blocked' \in Nat
  <2>1. Cardinality(Parked \ {t}) = Cardinality(Parked) - 1 /\ Cardinality(Parked) > 0
    BY OneLess
  <2> QED BY <2>1, <1>0 DEF WaitCounts, CountDown, AwaitsMessage, AwaitsRoom
<1>4. rt_join_waiters' = Cardinality(ParkedJoin') /\ rt_join_waiters' \in Nat
  <2>1. CASE r.kind = "join"
    <3>1. ParkedJoin' = ParkedJoin \ {t} /\ t \in ParkedJoin
      BY <1>1, <2>1 DEF ParkedJoin
    <3>2. /\ Cardinality(ParkedJoin \ {t}) = Cardinality(ParkedJoin) - 1
          /\ Cardinality(ParkedJoin) > 0
      BY <3>1, OneLess
    <3> QED BY <3>1, <3>2, <2>1, <1>0 DEF WaitCounts, CountDown, AwaitsMessage, AwaitsRoom
  <2>2. CASE r.kind # "join"
    <3>1. ParkedJoin' = ParkedJoin
      BY <1>1, <2>2 DEF ParkedJoin
    <3> QED BY <3>1, <2>2, <1>0 DEF WaitCounts, CountDown, AwaitsMessage, AwaitsRoom
  <2> QED BY <2>1, <2>2
<1>5. ASSUME NEW c \in Chan
      PROVE  waiters'[c] = Cardinality(ParkedRecv(c)') /\ waiters'[c] \in Nat
  <2>1. CASE r.kind \in {"recv", "select"} /\ c \in r.chs
    <3>1. ParkedRecv(c)' = ParkedRecv(c) \ {t} /\ t \in ParkedRecv(c)
      BY <1>1, <2>1 DEF ParkedRecv
    <3>2. /\ Cardinality(ParkedRecv(c) \ {t}) = Cardinality(ParkedRecv(c)) - 1
          /\ Cardinality(ParkedRecv(c)) > 0
      BY <3>1, OneLess
    <3> QED BY <3>1, <3>2, <2>1, <1>0 DEF WaitCounts, CountDown, AwaitsMessage, AwaitsRoom
  <2>2. CASE ~(r.kind \in {"recv", "select"} /\ c \in r.chs)
    <3>1. ParkedRecv(c)' = ParkedRecv(c)
      BY <1>1, <2>2 DEF ParkedRecv
    <3> QED BY <3>1, <2>2, <1>0 DEF WaitCounts, CountDown, AwaitsMessage, AwaitsRoom
  <2> QED BY <2>1, <2>2
<1>6. ASSUME NEW c \in Chan
      PROVE  send_waiters'[c] = Cardinality(ParkedSend(c)') /\ send_waiters'[c] \in Nat
  <2>1. CASE r.kind = "send" /\ c \in r.chs
    <3>1. ParkedSend(c)' = ParkedSend(c) \ {t} /\ t \in ParkedSend(c)
      BY <1>1, <2>1 DEF ParkedSend
    <3>2. /\ Cardinality(ParkedSend(c) \ {t}) = Cardinality(ParkedSend(c)) - 1
          /\ Cardinality(ParkedSend(c)) > 0
      BY <3>1, OneLess
    <3> QED BY <3>1, <3>2, <2>1, <1>0 DEF WaitCounts, CountDown, AwaitsMessage, AwaitsRoom
  <2>2. CASE ~(r.kind = "send" /\ c \in r.chs)
    <3>1. ParkedSend(c)' = ParkedSend(c)
      BY <1>1, <2>2 DEF ParkedSend
    <3> QED BY <3>1, <2>2, <1>0 DEF WaitCounts, CountDown, AwaitsMessage, AwaitsRoom
  <2> QED BY <2>1, <2>2
<1>7. DOMAIN waiters' = Chan /\ DOMAIN send_waiters' = Chan
      /\ waiters' = [c \in Chan |-> waiters'[c]]
      /\ send_waiters' = [c \in Chan |-> send_waiters'[c]]
  BY DEF CountDown
<1> QED BY <1>3, <1>4, <1>5, <1>6, <1>7 DEF WaitCounts

\* A step that neither parks nor unparks a thread leaves the wait counters exact.
LEMMA SameCounts ==
    ASSUME WaitCounts, UNCHANGED waitVars, Parked' = Parked,
           \A s \in Parked : req'[s] = req[s]
    PROVE  WaitCounts'
<1> /\ ParkedJoin' = ParkedJoin
    /\ \A c \in Chan : ParkedRecv(c)' = ParkedRecv(c) /\ ParkedSend(c)' = ParkedSend(c)
  BY DEF ParkedJoin, ParkedRecv, ParkedSend
<1> QED BY DEF WaitCounts, waitVars

-----------------------------------------------------------------------------
(* Operations *)

\* The handle a join goes through: t holds it and has not used it.
MayJoin(t, r) ==
    r.kind = "join" => /\ parent[r.task] = t
                       /\ refcnt[r.task] = 1
                       /\ ~joined[r.task]

\* What an operation does once it no longer waits: the queues keep their types
\* and their counts, whoever stays asleep sees the queues it saw before, and
\* the number of joinable tasks follows.
LEMMA PerformFacts ==
    ASSUME IInv, NEW t \in Thread, status[t] \in {"running", "woken"},
           NEW r \in Requests, MayJoin(t, r), CanProceed(r), Perform(t, r), done' = done
    PROVE  /\ queue' \in [Chan -> Seq(Val)]
           /\ count' \in [Chan -> Nat]
           /\ \A c \in Chan : count'[c] = Len(queue'[c])
           /\ WithinCapacity'
           /\ status' \in [Thread -> Statuses]
           /\ status'[t] = "running"
           /\ \A s \in Thread \ {t} :
                status'[s] = status[s] \/ (status[s] = "asleep" /\ status'[s] = "woken")
           /\ \A s \in Thread : status'[s] = "asleep" => s # t /\ status[s] = "asleep" /\ UNCHANGED chanVars
           /\ joined' \in [Thread -> BOOLEAN]
           /\ \A k \in Thread : joined'[k] => done[k]
           /\ \A k \in Thread : joined'[k] # joined[k] => r.kind = "join" /\ k = r.task
           /\ rt_done_unjoined' \in Nat
           /\ rt_done_unjoined' = Cardinality(DoneUnjoined')
<1>0. /\ status \in [Thread -> Statuses]
      /\ queue \in [Chan -> Seq(Val)]
      /\ count \in [Chan -> Nat]
      /\ joined \in [Thread -> BOOLEAN]
      /\ done \in [Thread -> BOOLEAN]
      /\ rt_done_unjoined \in Nat
      /\ \A c \in Chan : count[c] = Len(queue[c])
      /\ rt_done_unjoined = Cardinality(DoneUnjoined)
      /\ WithinCapacity
      /\ \A k \in Thread : joined[k] => done[k]
      /\ Cap \in [Chan -> Nat]
  BY ChanOpsAssumption DEF IInv, TypeOK, CountersExact, Coherent
<1>1. /\ r.kind \in {"send", "recv", "select", "join"}
      /\ r.kind = "send" => r.val \in Val /\ \E c \in Chan : r.chs = {c}
      /\ r.kind = "recv" => \E c \in Chan : r.chs = {c}
      /\ r.kind = "join" => r.task \in Task
  BY RequestShape
<1>2. CASE r.kind \in {"send", "recv", "select"}
  <2>1. Broadcast(t, "running") /\ UNCHANGED <<joined, rt_done_unjoined>>
    BY <1>2 DEF Perform, PerformSend, PerformRecv, PerformSelect
  <2>2. /\ status' \in [Thread -> Statuses]
        /\ status'[t] = "running"
        /\ \A s \in Thread \ {t} :
             status'[s] = status[s] \/ (status[s] = "asleep" /\ status'[s] = "woken")
        /\ \A s \in Thread : status'[s] # "asleep"
    BY <2>1, <1>0 DEF Broadcast, Statuses
  <2>3. DoneUnjoined' = DoneUnjoined
    BY <2>1 DEF DoneUnjoined
  <2>4. /\ queue' \in [Chan -> Seq(Val)]
        /\ count' \in [Chan -> Nat]
        /\ \A c \in Chan : count'[c] = Len(queue'[c])
        /\ WithinCapacity'
    <3>1. CASE r.kind = "send"
      <4>1. PICK c \in Chan : r.chs = {c}
        BY <3>1, <1>1
      <4>2. Enqueue(c, r.val) /\ r.val \in Val
        BY <3>1, <4>1, <1>1 DEF Perform, PerformSend
      <4>3. ~FullAt(c, count[c])
        BY <3>1, <4>1 DEF CanProceed
      <4>4. /\ queue' = [queue EXCEPT ![c] = Append(queue[c], r.val)]
            /\ count' = [count EXCEPT ![c] = count[c] + 1]
        BY <4>2 DEF Enqueue
      <4>5. /\ Append(queue[c], r.val) \in Seq(Val)
            /\ Len(Append(queue[c], r.val)) = Len(queue[c]) + 1
        BY <4>2, <1>0
      <4>6. \A d \in Chan : d # c => queue'[d] = queue[d] /\ count'[d] = count[d]
        BY <4>4, <1>0
      <4>7. queue'[c] = Append(queue[c], r.val) /\ count'[c] = count[c] + 1
        BY <4>4, <1>0
      <4>8. queue' \in [Chan -> Seq(Val)] /\ count' \in [Chan -> Nat]
        BY <4>4, <4>5, <1>0
      <4>9. \A d \in Chan : count'[d] = Len(queue'[d])
        BY <4>5, <4>6, <4>7, <1>0
      <4>10. Cap[c] > 0 => Len(queue'[c]) <= Cap[c]
        BY <4>3, <4>5, <4>7, <1>0 DEF FullAt
      <4> QED BY <4>6, <4>8, <4>9, <4>10, <1>0 DEF WithinCapacity
    <3>2. CASE r.kind = "recv"
      <4>1. PICK c \in Chan : r.chs = {c}
        BY <3>2, <1>1
      <4>2. Dequeue(c)
        BY <3>2, <4>1 DEF Perform, PerformRecv
      <4>3. queue[c] # <<>>
        BY <3>2, <4>1 DEF CanProceed
      <4>4. /\ queue' = [queue EXCEPT ![c] = Tail(queue[c])]
            /\ count' = [count EXCEPT ![c] = count[c] - 1]
        BY <4>2 DEF Dequeue
      <4>5. /\ Tail(queue[c]) \in Seq(Val)
            /\ Len(Tail(queue[c])) = Len(queue[c]) - 1
            /\ Len(queue[c]) - 1 \in Nat
        BY <4>3, <1>0
      <4>6. \A d \in Chan : d # c => queue'[d] = queue[d] /\ count'[d] = count[d]
        BY <4>4, <1>0
      <4>7. queue'[c] = Tail(queue[c]) /\ count'[c] = count[c] - 1
        BY <4>4, <1>0
      <4>8. queue' \in [Chan -> Seq(Val)] /\ count' \in [Chan -> Nat]
        BY <4>4, <4>5, <1>0
      <4>9. \A d \in Chan : count'[d] = Len(queue'[d])
        BY <4>5, <4>6, <4>7, <1>0
      <4>10. Cap[c] > 0 => Len(queue'[c]) <= Cap[c]
        BY <4>5, <4>7, <1>0 DEF WithinCapacity
      <4> QED BY <4>6, <4>8, <4>9, <4>10, <1>0 DEF WithinCapacity
    <3>3. CASE r.kind = "select"
      <4>1. UNCHANGED <<queue, count>>
        BY <3>3 DEF Perform, PerformSelect, PerformJoin, chanVars
      <4> QED BY <4>1, <1>0 DEF WithinCapacity
    <3> QED BY <3>1, <3>2, <3>3, <1>2
  <2> QED BY <2>1, <2>2, <2>3, <2>4, <1>0
<1>3. CASE r.kind = "join"
  <2>1. /\ joined' = [joined EXCEPT ![r.task] = TRUE]
        /\ rt_done_unjoined' = rt_done_unjoined - 1
        /\ status' = [status EXCEPT ![t] = "running"]
        /\ UNCHANGED <<queue, count>>
    BY <1>3 DEF Perform, PerformSelect, PerformJoin, chanVars
  <2>2. r.task \in Task /\ r.task \in Thread /\ done[r.task] /\ ~joined[r.task]
    BY <1>1, <1>3 DEF CanProceed, MayJoin, Task
  <2>3. DoneUnjoined' = DoneUnjoined \ {r.task} /\ r.task \in DoneUnjoined
    <3>1. \A k \in Thread : joined'[k] = IF k = r.task THEN TRUE ELSE joined[k]
      BY <2>1, <1>0
    <3> QED BY <3>1, <2>2 DEF DoneUnjoined, Task
  <2>4. /\ Cardinality(DoneUnjoined \ {r.task}) = Cardinality(DoneUnjoined) - 1
        /\ Cardinality(DoneUnjoined) > 0
    BY <2>3, OneLess, FiniteParts
  <2>5. rt_done_unjoined' \in Nat /\ rt_done_unjoined' = Cardinality(DoneUnjoined')
    BY <2>1, <2>3, <2>4, <1>0
  <2>6. /\ status' \in [Thread -> Statuses]
        /\ status'[t] = "running"
        /\ \A s \in Thread \ {t} : status'[s] = status[s]
        /\ \A s \in Thread : status'[s] = "asleep" => s # t /\ status[s] = "asleep"
    BY <2>1, <1>0 DEF Statuses
  <2>7. /\ joined' \in [Thread -> BOOLEAN]
        /\ \A k \in Thread : joined'[k] => done[k]
        /\ \A k \in Thread : joined'[k] # joined[k] => k = r.task
    BY <2>1, <2>2, <1>0
  <2> QED BY <2>1, <2>5, <2>6, <2>7, <1>0, <1>3 DEF WithinCapacity, chanVars
<1> QED BY <1>1, <1>2, <1>3

-----------------------------------------------------------------------------
(* The verdict *)

\* With exact counters, the detector's first test says that every thread is
\* parked, and its scan looks at the very requests they are parked in.
LEMMA DetectorReads ==
    ASSUME TypeOK', CountersExact', Coherent'
    PROVE  /\ rt_blocked' = rt_tasks' + 1 <=> Live' = Parked'
           /\ ChannelOpportunity' <=>
                \E t \in Parked' : req'[t].kind # "join" /\ CanProceed(req[t])'
           /\ (\E t \in Parked' : req'[t].kind = "join" /\ CanProceed(req[t])') => JoinExcuse'
<1>0. /\ Parked' \subseteq Live' /\ Live' \subseteq Thread /\ Main \in Live'
      /\ \A t \in Parked' : req'[t] \in Requests
      /\ queue' \in [Chan -> Seq(Val)]
      /\ Cap \in [Chan -> Nat]
      /\ Main \in Thread
  BY ChanOpsAssumption DEF Parked, Live, Coherent, TypeOK
<1>1. IsFiniteSet(Live') /\ IsFiniteSet(Parked') /\ IsFiniteSet((Live \ {Main})')
  <2>1. (Live \ {Main})' \subseteq Thread
    BY <1>0
  <2> QED BY <1>0, <2>1, FS_Subset, ChanOpsAssumption
<1>2. Cardinality(Live') = rt_tasks' + 1
  <2>1. Cardinality((Live \ {Main})') = Cardinality(Live') - 1 /\ Cardinality(Live') > 0
    BY <1>0, <1>1, OneLess
  <2>2. Cardinality(Live') \in Nat /\ rt_tasks' = Cardinality((Live \ {Main})')
    BY <1>1, FS_CardinalityType DEF CountersExact
  <2> QED BY <2>1, <2>2
<1>3. rt_blocked' = rt_tasks' + 1 <=> Live' = Parked'
  <2>1. rt_blocked' = Cardinality(Parked')
    BY DEF CountersExact
  <2>2. Cardinality(Live') = Cardinality(Parked') => Live' = Parked'
    BY <1>0, <1>1, FS_Subset
  <2> QED BY <1>2, <2>1, <2>2
<1>4. ASSUME NEW c \in Chan
      PROVE  /\ waiters'[c] > 0 <=> ParkedRecv(c)' # {}
             /\ send_waiters'[c] > 0 <=> ParkedSend(c)' # {}
             /\ count'[c] = Len(queue'[c])
  <2>1. IsFiniteSet(ParkedRecv(c)') /\ IsFiniteSet(ParkedSend(c)')
    <3>1. ParkedRecv(c)' \subseteq Parked' /\ ParkedSend(c)' \subseteq Parked'
      BY DEF ParkedRecv, ParkedSend
    <3> QED BY <3>1, <1>1, FS_Subset
  <2>2. /\ waiters'[c] = Cardinality(ParkedRecv(c)')
        /\ send_waiters'[c] = Cardinality(ParkedSend(c)')
        /\ count'[c] = Len(queue'[c])
    BY DEF CountersExact
  <2>3. /\ Cardinality(ParkedRecv(c)') \in Nat
        /\ Cardinality(ParkedSend(c)') \in Nat
        /\ Cardinality(ParkedRecv(c)') = 0 <=> ParkedRecv(c)' = {}
        /\ Cardinality(ParkedSend(c)') = 0 <=> ParkedSend(c)' = {}
    BY <2>1, FS_CardinalityType, FS_EmptySet
  <2> QED BY <2>2, <2>3
<1>5. ChannelOpportunity' =>
        \E t \in Parked' : req'[t].kind # "join" /\ CanProceed(req[t])'
  <2>1. ASSUME NEW c \in Chan, queue'[c] # <<>>, waiters'[c] > 0
        PROVE  \E t \in Parked' : req'[t].kind # "join" /\ CanProceed(req[t])'
    <3>1. PICK t \in Parked' : req'[t].kind \in {"recv", "select"} /\ c \in req'[t].chs
      BY <2>1, <1>4 DEF ParkedRecv
    <3>2. req'[t].kind = "recv" => req'[t].chs = {c}
      BY <3>1, <1>0, RequestShape
    <3>3. CanProceed(req[t])'
      BY <2>1, <3>1, <3>2 DEF CanProceed
    <3> QED BY <3>1, <3>3
  <2>2. ASSUME NEW c \in Chan, send_waiters'[c] > 0, count'[c] < Cap[c]
        PROVE  \E t \in Parked' : req'[t].kind # "join" /\ CanProceed(req[t])'
    <3>1. PICK t \in Parked' : req'[t].kind = "send" /\ c \in req'[t].chs
      BY <2>2, <1>4 DEF ParkedSend
    <3>2. req'[t].chs = {c}
      BY <3>1, <1>0, RequestShape
    <3>3. ~FullAt(c, count'[c])
      BY <2>2, <1>0, <1>4 DEF FullAt
    <3>4. CanProceed(req[t])'
      BY <3>1, <3>2, <3>3 DEF CanProceed
    <3> QED BY <3>1, <3>4
  <2> QED BY <2>1, <2>2 DEF ChannelOpportunity
<1>6. ASSUME NEW t \in Parked', req'[t].kind # "join", CanProceed(req[t])'
      PROVE  ChannelOpportunity'
  <2>1. /\ req'[t].kind \in {"send", "recv", "select"}
        /\ req'[t].chs \subseteq Chan
        /\ req'[t].kind \in {"send", "recv"} => \E c \in Chan : req'[t].chs = {c}
    BY <1>6, <1>0, RequestShape
  <2>2. CASE req'[t].kind \in {"recv", "select"}
    <3>1. PICK c \in req'[t].chs : queue'[c] # <<>>
      BY <1>6, <2>1, <2>2 DEF CanProceed
    <3>2. c \in Chan /\ t \in ParkedRecv(c)'
      BY <3>1, <2>1, <2>2 DEF ParkedRecv
    <3> QED BY <3>1, <3>2, <1>4 DEF ChannelOpportunity
  <2>3. CASE req'[t].kind = "send"
    <3>1. PICK c \in Chan : req'[t].chs = {c}
      BY <2>1, <2>3
    <3>2. t \in ParkedSend(c)' /\ Cap[c] > 0
      BY <3>1, <2>3 DEF ParkedSend, Coherent
    <3>3. ~FullAt(c, count'[c])
      BY <1>6, <2>3, <3>1 DEF CanProceed
    <3>4. count'[c] < Cap[c]
      BY <3>2, <3>3, <1>0, <1>4 DEF FullAt
    <3> QED BY <3>2, <3>4, <1>4 DEF ChannelOpportunity
  <2> QED BY <2>1, <2>2, <2>3
<1>7. ASSUME NEW t \in Parked', req'[t].kind = "join", CanProceed(req[t])'
      PROVE  JoinExcuse'
  <2>1. t \in ParkedJoin' /\ IsFiniteSet(ParkedJoin')
    <3>1. t \in ParkedJoin' /\ ParkedJoin' \subseteq Parked'
      BY <1>7 DEF ParkedJoin
    <3> QED BY <3>1, <1>1, FS_Subset
  <2>2. req'[t].task \in DoneUnjoined' /\ IsFiniteSet(DoneUnjoined')
    <3>1. done'[req'[t].task]
      BY <1>7 DEF CanProceed
    <3>2. ~joined'[req'[t].task] /\ req'[t].task \in Task
      BY <1>7, <1>0, RequestShape DEF Coherent
    <3>3. DoneUnjoined' \subseteq Thread
      BY DEF DoneUnjoined, Task
    <3> QED BY <3>1, <3>2, <3>3, FS_Subset, ChanOpsAssumption DEF DoneUnjoined
  <2>3. Cardinality(ParkedJoin') > 0 /\ Cardinality(DoneUnjoined') > 0
    BY <2>1, <2>2, OneLess
  <2> QED BY <2>3 DEF JoinExcuse, CountersExact
<1> QED BY <1>3, <1>5, <1>6, <1>7

\* A thread that goes to sleep leaves the right verdict behind.
LEMMA SleepVerdict ==
    ASSUME TypeOK', CountersExact', Coherent', NoLostWakeup',
           halted' = IF DeadlockDetected' THEN "deadlock" ELSE "no"
    PROVE  HangOnlyByJoinExcuse' /\ NoFalseDeadlock'
<1>1. HangOnlyByJoinExcuse'
  <2> SUFFICES ASSUME halted' = "no", \A t \in Live' : status'[t] = "asleep"
               PROVE  ParkedJoin' # {} /\ DoneUnjoined' # {}
    BY DEF HangOnlyByJoinExcuse
  <2>1. Live' = Parked'
    BY DEF Live, Parked
  <2>2. \A t \in Parked' : ~CanProceed(req[t])'
    <3>1. \A t \in Parked' : t \in Thread /\ status'[t] = "asleep"
      BY <2>1 DEF Live
    <3> QED BY <3>1 DEF NoLostWakeup
  <2>3. ~ChannelOpportunity' /\ rt_blocked' = rt_tasks' + 1
    BY <2>1, <2>2, DetectorReads
  <2>4. ~DeadlockDetected'
    OBVIOUS
  <2>5. JoinExcuse'
    BY <2>3, <2>4 DEF DeadlockDetected
  <2>6. Cardinality(ParkedJoin') > 0 /\ Cardinality(DoneUnjoined') > 0
    BY <2>5 DEF JoinExcuse, CountersExact
  <2>7. Cardinality({}) = 0
    BY FS_EmptySet
  <2> QED BY ONLY <2>6, <2>7
<1>2. NoFalseDeadlock'
  <2> SUFFICES ASSUME DeadlockDetected'
               PROVE  \A t \in Live' : t \in Parked' /\ ~CanProceed(req[t])'
    BY DEF NoFalseDeadlock
  <2>1. rt_blocked' = rt_tasks' + 1 /\ ~JoinExcuse' /\ ~ChannelOpportunity'
    BY DEF DeadlockDetected
  <2> QED BY <2>1, DetectorReads
<1> QED BY <1>1, <1>2

-----------------------------------------------------------------------------
(* Each action preserves the invariant *)

\* A step that changes nothing keeps the invariant.
LEMMA StutterStep ==
    ASSUME IInv, UNCHANGED vars
    PROVE  IInv'
<1> SUFFICES /\ TypeOK' /\ CountersExact' /\ Coherent' /\ NoLostWakeup'
             /\ HangOnlyByJoinExcuse' /\ NoFalseDeadlock' /\ WithinCapacity'
  BY DEF IInv
<1> USE DEF vars, threadVars, chanVars, waitVars, taskVars, birthVars
<1>1. Parked' = Parked /\ Live' = Live /\ ParkedJoin' = ParkedJoin /\ DoneUnjoined' = DoneUnjoined
      /\ \A c \in Chan : ParkedRecv(c)' = ParkedRecv(c) /\ ParkedSend(c)' = ParkedSend(c)
  BY DEF Parked, Live, ParkedJoin, DoneUnjoined, ParkedRecv, ParkedSend
<1>2. TypeOK'
  BY DEF IInv, TypeOK
<1>3. CountersExact'
  BY <1>1 DEF IInv, CountersExact
<1>4. Coherent'
  BY <1>1 DEF IInv, Coherent
<1>5. NoLostWakeup'
  BY DEF IInv, NoLostWakeup, CanProceed
<1>6. HangOnlyByJoinExcuse'
  BY <1>1 DEF IInv, HangOnlyByJoinExcuse
<1>7. NoFalseDeadlock'
  BY <1>1 DEF IInv, NoFalseDeadlock, CanProceed
<1>8. WithinCapacity'
  BY DEF IInv, WithinCapacity
<1> QED BY <1>2, <1>3, <1>4, <1>5, <1>6, <1>7, <1>8

\* A running thread enters an operation.
LEMMA EnterStep ==
    ASSUME IInv, halted = "no", NEW t \in Thread, NEW r \in Requests,
           MayJoin(t, r), Enter(t, r)
    PROVE  IInv'
<1>0. /\ TypeOK /\ WaitCounts /\ CountersExact /\ Coherent /\ NoLostWakeup /\ WithinCapacity
      /\ status[t] = "running" /\ t \notin Parked /\ t \in Live
      /\ UNCHANGED <<kind, parent, done, refcnt, freed, rt_tasks>>
      /\ Parked \subseteq Thread /\ Live \subseteq Thread
  BY DEF IInv, CountersExact, WaitCounts, Parked, Live, Enter, birthVars
<1>1. CASE CanProceed(r)
  <2>1. Perform(t, r) /\ UNCHANGED <<req, waiters, send_waiters, rt_blocked, rt_join_waiters, halted>>
    BY <1>1 DEF Enter, waitVars
  <2>2. /\ queue' \in [Chan -> Seq(Val)]
        /\ count' \in [Chan -> Nat]
        /\ \A c \in Chan : count'[c] = Len(queue'[c])
        /\ WithinCapacity'
        /\ status' \in [Thread -> Statuses]
        /\ status'[t] = "running"
        /\ \A s \in Thread \ {t} :
             status'[s] = status[s] \/ (status[s] = "asleep" /\ status'[s] = "woken")
        /\ \A s \in Thread : status'[s] = "asleep" => s # t /\ status[s] = "asleep" /\ UNCHANGED chanVars
        /\ joined' \in [Thread -> BOOLEAN]
        /\ \A k \in Thread : joined'[k] => done[k]
        /\ \A k \in Thread : joined'[k] # joined[k] => r.kind = "join" /\ k = r.task
        /\ rt_done_unjoined' \in Nat
        /\ rt_done_unjoined' = Cardinality(DoneUnjoined')
    BY <1>0, <1>1, <2>1, PerformFacts
  <2>3. Parked' = Parked /\ Live' = Live
    BY <1>0, <2>2 DEF Parked, Live
  <2>4. TypeOK'
    BY <1>0, <2>1, <2>2 DEF TypeOK
  <2>5. CountersExact'
    <3>1. WaitCounts'
      BY <1>0, <2>1, <2>3, SameCounts DEF waitVars
    <3> QED BY <3>1, <2>2, <2>3, <1>0 DEF CountersExact, WaitCounts
  <2>6. Coherent'
    <3>1. status'[Main] \in {"running", "spawning", "asleep", "woken"}
      BY <1>0, <2>2, ChanOpsAssumption DEF Coherent
    <3>2. \A s \in Parked' : /\ req'[s] \in Requests
                             /\ req'[s].kind = "send" => \A c \in req'[s].chs : Cap[c] > 0
      BY <1>0, <2>1, <2>3 DEF Coherent
    <3>3. ASSUME NEW s \in Parked', req'[s].kind = "join"
          PROVE  /\ parent'[req'[s].task] = s
                 /\ refcnt'[req'[s].task] = 1
                 /\ ~joined'[req'[s].task]
      <4>1. /\ s \in Parked /\ req[s].kind = "join" /\ s # t /\ req[s] \in Requests
            /\ parent[req[s].task] = s /\ refcnt[req[s].task] = 1 /\ ~joined[req[s].task]
        BY <3>3, <1>0, <2>1, <2>3 DEF Coherent
      <4>2. req[s].task \in Thread
        BY <4>1, RequestShape DEF Task
      <4>3. ~joined'[req[s].task]
        BY <4>1, <4>2, <2>2, <1>0 DEF MayJoin, TypeOK
      <4> QED BY <4>1, <4>3, <1>0, <2>1
    <3>4. \A k \in Thread : /\ done'[k] => status'[k] = "exited"
                            /\ joined'[k] => done'[k]
                            /\ (halted' = "no" /\ status'[k] = "unborn") => refcnt'[k] = 0
      <4> SUFFICES ASSUME NEW k \in Thread
                   PROVE  /\ done'[k] => status'[k] = "exited"
                          /\ joined'[k] => done'[k]
                          /\ (halted' = "no" /\ status'[k] = "unborn") => refcnt'[k] = 0
        OBVIOUS
      <4>1. /\ done[k] => status[k] = "exited"
            /\ (halted = "no" /\ status[k] = "unborn") => refcnt[k] = 0
        BY <1>0 DEF Coherent
      <4>2. done' = done /\ refcnt' = refcnt /\ halted' = halted /\ (joined'[k] => done[k])
        BY <1>0, <2>1, <2>2
      <4>3. \/ status'[k] = status[k]
            \/ status[k] \in {"running", "woken", "asleep"} /\ status'[k] \in {"running", "woken"}
        BY <1>0, <2>2
      <4> QED BY <4>1, <4>2, <4>3
    <3> QED BY <3>1, <3>2, <3>3, <3>4 DEF Coherent
  <2>7. NoLostWakeup'
    <3> SUFFICES ASSUME NEW s \in Thread, status'[s] = "asleep"
                 PROVE  ~CanProceed(req[s])'
      BY DEF NoLostWakeup
    <3>1. status[s] = "asleep" /\ UNCHANGED <<queue, count, done, req>>
      BY <1>0, <2>1, <2>2 DEF chanVars
    <3>2. ~CanProceed(req[s])
      BY <3>1, <1>0 DEF NoLostWakeup
    <3> QED BY <3>1, <3>2 DEF CanProceed
  <2>8. HangOnlyByJoinExcuse' /\ NoFalseDeadlock'
    BY <1>0, <2>1, <2>2, <2>3 DEF HangOnlyByJoinExcuse, NoFalseDeadlock
  <2> QED BY <2>2, <2>4, <2>5, <2>6, <2>7, <2>8 DEF IInv
<1>2. CASE ~CanProceed(r)
  <2>1. /\ CountUp(r) /\ UNCHANGED <<queue, count, joined, rt_done_unjoined>>
        /\ status' = [status EXCEPT ![t] = "asleep"]
        /\ req' = [req EXCEPT ![t] = r]
        /\ halted' = IF DeadlockDetected' THEN "deadlock" ELSE "no"
    BY <1>2 DEF Enter, Sleep, chanVars
  <2>2. /\ status' \in [Thread -> Statuses]
        /\ req' \in [Thread -> Requests \cup {NoReq}]
        /\ status'[t] = "asleep" /\ req'[t] = r
        /\ \A s \in Thread \ {t} : status'[s] = status[s] /\ req'[s] = req[s]
    BY <2>1, <1>0 DEF TypeOK, Statuses
  <2>3. Parked' = Parked \cup {t} /\ Live' = Live
    BY <1>0, <2>2 DEF Parked, Live
  <2>4. WaitCounts'
    BY <1>0, <2>1, <2>3, ParkCounts
  <2>5. TypeOK'
    <3>1. /\ waiters' \in [Chan -> Nat] /\ send_waiters' \in [Chan -> Nat]
          /\ rt_blocked' \in Nat /\ rt_join_waiters' \in Nat
      BY <1>0, <2>1 DEF CountUp, TypeOK
    <3>2. halted' \in {"no", "deadlock", "panic", "exit"}
      BY <2>1
    <3> QED BY <1>0, <2>1, <2>2, <3>1, <3>2 DEF TypeOK
  <2>6. CountersExact'
    <3>1. DoneUnjoined' = DoneUnjoined
      BY <1>0, <2>1 DEF DoneUnjoined
    <3> QED BY <3>1, <1>0, <2>1, <2>3, <2>4 DEF CountersExact, WaitCounts
  <2>7. Coherent'
    <3>1. status'[Main] \in {"running", "spawning", "asleep", "woken"}
      BY <1>0, <2>2, ChanOpsAssumption DEF Coherent
    <3>2. ASSUME NEW s \in Parked'
          PROVE  /\ req'[s] \in Requests
                 /\ req'[s].kind = "send" => \A c \in req'[s].chs : Cap[c] > 0
                 /\ req'[s].kind = "join" => /\ parent'[req'[s].task] = s
                                             /\ refcnt'[req'[s].task] = 1
                                             /\ ~joined'[req'[s].task]
      <4>1. CASE s = t
        <5>1. r.kind = "send" => \A c \in r.chs : Cap[c] > 0
          <6> SUFFICES ASSUME r.kind = "send"
                       PROVE  \A c \in r.chs : Cap[c] > 0
            OBVIOUS
          <6>1. PICK c \in Chan : r.chs = {c}
            BY RequestShape
          <6>2. FullAt(c, count[c])
            BY <1>2, <6>1 DEF CanProceed
          <6> QED BY <6>1, <6>2 DEF FullAt
        <5> QED BY <4>1, <5>1, <2>2, <1>0, <2>1 DEF MayJoin
      <4>2. CASE s # t
        <5>1. s \in Parked /\ req'[s] = req[s]
          BY <4>2, <2>2, <2>3, <1>0
        <5> QED BY <5>1, <1>0, <2>1 DEF Coherent
      <4> QED BY <4>1, <4>2
    <3>3. \A k \in Thread : /\ done'[k] => status'[k] = "exited"
                            /\ joined'[k] => done'[k]
                            /\ (halted' = "no" /\ status'[k] = "unborn") => refcnt'[k] = 0
      BY <1>0, <2>1, <2>2 DEF Coherent
    <3> QED BY <3>1, <3>2, <3>3 DEF Coherent
  <2>8. NoLostWakeup'
    <3> SUFFICES ASSUME NEW s \in Thread, status'[s] = "asleep"
                 PROVE  ~CanProceed(req[s])'
      BY DEF NoLostWakeup
    <3>1. ~CanProceed(req'[s])
      <4>1. CASE s = t
        BY <4>1, <1>2, <2>2
      <4>2. CASE s # t
        BY <4>2, <2>2, <1>0 DEF NoLostWakeup
      <4> QED BY <4>1, <4>2
    <3> QED BY <3>1, <1>0, <2>1 DEF CanProceed
  <2>9. HangOnlyByJoinExcuse' /\ NoFalseDeadlock'
    BY <2>1, <2>5, <2>6, <2>7, <2>8, SleepVerdict
  <2>10. WithinCapacity'
    BY <1>0, <2>1 DEF WithinCapacity
  <2> QED BY <2>5, <2>6, <2>7, <2>8, <2>9, <2>10 DEF IInv
<1> QED BY <1>1, <1>2

\* A woken thread gets the mutex back.
LEMMA ResumeStep ==
    ASSUME IInv, halted = "no", NEW t \in Thread, Resume(t)
    PROVE  IInv'
<1> DEFINE r == req[t]
<1>0. /\ TypeOK /\ WaitCounts /\ CountersExact /\ Coherent /\ NoLostWakeup /\ WithinCapacity
      /\ status[t] = "woken" /\ t \in Parked /\ t \in Live
      /\ UNCHANGED <<kind, parent, done, refcnt, freed, rt_tasks>>
      /\ Parked \subseteq Thread /\ Live \subseteq Thread
      /\ r \in Requests /\ MayJoin(t, r)
  BY DEF IInv, CountersExact, WaitCounts, Parked, Live, Resume, birthVars, Coherent, MayJoin
<1>1. CASE CanProceed(r)
  <2>1. /\ Perform(t, r) /\ CountDown(r) /\ UNCHANGED halted
        /\ req' = [req EXCEPT ![t] = NoReq]
    BY <1>1, <1>0 DEF Resume
  <2>2. /\ queue' \in [Chan -> Seq(Val)]
        /\ count' \in [Chan -> Nat]
        /\ \A c \in Chan : count'[c] = Len(queue'[c])
        /\ WithinCapacity'
        /\ status' \in [Thread -> Statuses]
        /\ status'[t] = "running"
        /\ \A s \in Thread \ {t} :
             status'[s] = status[s] \/ (status[s] = "asleep" /\ status'[s] = "woken")
        /\ \A s \in Thread : status'[s] = "asleep" => s # t /\ status[s] = "asleep" /\ UNCHANGED chanVars
        /\ joined' \in [Thread -> BOOLEAN]
        /\ \A k \in Thread : joined'[k] => done[k]
        /\ \A k \in Thread : joined'[k] # joined[k] => r.kind = "join" /\ k = r.task
        /\ rt_done_unjoined' \in Nat
        /\ rt_done_unjoined' = Cardinality(DoneUnjoined')
    BY <1>0, <1>1, <2>1, PerformFacts
  <2>3. Parked' = Parked \ {t} /\ Live' = Live
    BY <1>0, <2>2 DEF Parked, Live
  <2>4. /\ req' \in [Thread -> Requests \cup {NoReq}]
        /\ \A s \in Thread \ {t} : req'[s] = req[s]
    BY <2>1, <1>0 DEF TypeOK
  <2>5. /\ WaitCounts'
        /\ rt_blocked' \in Nat /\ rt_join_waiters' \in Nat
        /\ waiters' \in [Chan -> Nat] /\ send_waiters' \in [Chan -> Nat]
    BY <1>0, <2>1, <2>3, <2>4, UnparkCounts
  <2>6. TypeOK'
    BY <1>0, <2>1, <2>2, <2>4, <2>5 DEF TypeOK
  <2>7. CountersExact'
    BY <1>0, <2>2, <2>3, <2>5 DEF CountersExact, WaitCounts
  <2>8. Coherent'
    <3>1. status'[Main] \in {"running", "spawning", "asleep", "woken"}
      BY <1>0, <2>2, ChanOpsAssumption DEF Coherent
    <3>2. ASSUME NEW s \in Parked'
          PROVE  /\ req'[s] \in Requests
                 /\ req'[s].kind = "send" => \A c \in req'[s].chs : Cap[c] > 0
                 /\ req'[s].kind = "join" => /\ parent'[req'[s].task] = s
                                             /\ refcnt'[req'[s].task] = 1
                                             /\ ~joined'[req'[s].task]
      <4>1. s \in Parked /\ s # t /\ s \in Thread /\ req'[s] = req[s]
        BY <2>3, <2>4, <1>0
      <4>2. /\ req[s] \in Requests
            /\ req[s].kind = "send" => \A c \in req[s].chs : Cap[c] > 0
            /\ req[s].kind = "join" => /\ parent[req[s].task] = s
                                       /\ refcnt[req[s].task] = 1
                                       /\ ~joined[req[s].task]
        BY <4>1, <1>0 DEF Coherent
      <4>3. req[s].kind = "join" => ~joined'[req[s].task]
        <5>1. req[s].kind = "join" => req[s].task \in Thread
          BY <4>2, RequestShape DEF Task
        <5> QED BY <5>1, <4>1, <4>2, <2>2, <1>0 DEF MayJoin, TypeOK
      <4> QED BY <4>1, <4>2, <4>3, <1>0
    <3>3. \A k \in Thread : /\ done'[k] => status'[k] = "exited"
                            /\ joined'[k] => done'[k]
                            /\ (halted' = "no" /\ status'[k] = "unborn") => refcnt'[k] = 0
      <4> SUFFICES ASSUME NEW k \in Thread
                   PROVE  /\ done'[k] => status'[k] = "exited"
                          /\ joined'[k] => done'[k]
                          /\ (halted' = "no" /\ status'[k] = "unborn") => refcnt'[k] = 0
        OBVIOUS
      <4>1. /\ done[k] => status[k] = "exited"
            /\ (halted = "no" /\ status[k] = "unborn") => refcnt[k] = 0
        BY <1>0 DEF Coherent
      <4>2. done' = done /\ refcnt' = refcnt /\ halted' = halted /\ (joined'[k] => done[k])
        BY <1>0, <2>1, <2>2
      <4>3. \/ status'[k] = status[k]
            \/ status[k] \in {"running", "woken", "asleep"} /\ status'[k] \in {"running", "woken"}
        BY <1>0, <2>2
      <4> QED BY <4>1, <4>2, <4>3
    <3> QED BY <3>1, <3>2, <3>3 DEF Coherent
  <2>9. NoLostWakeup'
    <3> SUFFICES ASSUME NEW s \in Thread, status'[s] = "asleep"
                 PROVE  ~CanProceed(req[s])'
      BY DEF NoLostWakeup
    <3>1. status[s] = "asleep" /\ s # t /\ UNCHANGED <<queue, count, done>>
      BY <1>0, <2>2 DEF chanVars
    <3>2. ~CanProceed(req[s]) /\ req'[s] = req[s]
      BY <3>1, <1>0, <2>4 DEF NoLostWakeup
    <3> QED BY <3>1, <3>2 DEF CanProceed
  <2>10. HangOnlyByJoinExcuse' /\ NoFalseDeadlock'
    BY <1>0, <2>1, <2>2, <2>3 DEF HangOnlyByJoinExcuse, NoFalseDeadlock
  <2> QED BY <2>2, <2>6, <2>7, <2>8, <2>9, <2>10 DEF IInv
<1>2. CASE ~CanProceed(r)
  <2>1. /\ UNCHANGED <<queue, count, waiters, send_waiters, rt_blocked, rt_join_waiters,
                       joined, rt_done_unjoined>>
        /\ status' = [status EXCEPT ![t] = "asleep"]
        /\ req' = [req EXCEPT ![t] = r]
        /\ halted' = IF DeadlockDetected' THEN "deadlock" ELSE "no"
    BY <1>2, <1>0 DEF Resume, Sleep, chanVars, waitVars
  <2>2. /\ status' \in [Thread -> Statuses]
        /\ req' = req
        /\ status'[t] = "asleep"
        /\ \A s \in Thread \ {t} : status'[s] = status[s]
    BY <2>1, <1>0 DEF TypeOK, Statuses
  <2>3. Parked' = Parked /\ Live' = Live
    BY <1>0, <2>2 DEF Parked, Live
  <2>4. WaitCounts'
    BY <1>0, <2>1, <2>2, <2>3, SameCounts DEF waitVars
  <2>5. TypeOK'
    BY <1>0, <2>1, <2>2 DEF TypeOK
  <2>6. CountersExact'
    <3>1. DoneUnjoined' = DoneUnjoined
      BY <1>0, <2>1 DEF DoneUnjoined
    <3> QED BY <3>1, <1>0, <2>1, <2>3, <2>4 DEF CountersExact, WaitCounts
  <2>7. Coherent'
    <3>1. status'[Main] \in {"running", "spawning", "asleep", "woken"}
      BY <1>0, <2>2, ChanOpsAssumption DEF Coherent
    <3>2. \A k \in Thread : /\ done'[k] => status'[k] = "exited"
                            /\ joined'[k] => done'[k]
                            /\ (halted' = "no" /\ status'[k] = "unborn") => refcnt'[k] = 0
      BY <1>0, <2>1, <2>2 DEF Coherent
    <3> QED BY <3>1, <3>2, <1>0, <2>1, <2>2, <2>3 DEF Coherent
  <2>8. NoLostWakeup'
    <3> SUFFICES ASSUME NEW s \in Thread, status'[s] = "asleep"
                 PROVE  ~CanProceed(req[s])'
      BY DEF NoLostWakeup
    <3>1. ~CanProceed(req[s])
      BY <1>0, <1>2, <2>2 DEF NoLostWakeup
    <3> QED BY <3>1, <1>0, <2>1, <2>2 DEF CanProceed
  <2>9. HangOnlyByJoinExcuse' /\ NoFalseDeadlock'
    BY <2>1, <2>5, <2>6, <2>7, <2>8, SleepVerdict
  <2>10. WithinCapacity'
    BY <1>0, <2>1 DEF WithinCapacity
  <2> QED BY <2>5, <2>6, <2>7, <2>8, <2>9, <2>10 DEF IInv
<1> QED BY <1>1, <1>2

\* A step that leaves queues, requests and wait counters alone and moves
\* threads only among the states that are not parked, or out of their sleep:
\* the parts of the invariant about waiting carry over.
LEMMA QuietStep ==
    ASSUME IInv, halted = "no",
           UNCHANGED <<req, chanVars, waitVars>>,
           status' \in [Thread -> Statuses], Parked' = Parked,
           \A s \in Thread : status'[s] = "asleep" => status[s] = "asleep",
           \A s \in Thread : status'[s] = "asleep" => done' = done
    PROVE  /\ WaitCounts' /\ WithinCapacity' /\ NoLostWakeup'
           /\ \A c \in Chan : count'[c] = Len(queue'[c])
           /\ \A s \in Parked' : /\ req'[s] \in Requests
                                 /\ req'[s].kind = "send" => \A c \in req'[s].chs : Cap[c] > 0
<1>1. WaitCounts'
  BY SameCounts DEF IInv, CountersExact, WaitCounts
<1>2. WithinCapacity' /\ \A c \in Chan : count'[c] = Len(queue'[c])
  BY DEF IInv, CountersExact, WithinCapacity, chanVars
<1>3. NoLostWakeup'
  <2> SUFFICES ASSUME NEW s \in Thread, status'[s] = "asleep"
               PROVE  ~CanProceed(req[s])'
    BY DEF NoLostWakeup
  <2>1. ~CanProceed(req[s]) /\ UNCHANGED <<queue, count, done, req>>
    BY DEF IInv, NoLostWakeup, chanVars
  <2> QED BY <2>1 DEF CanProceed
<1>4. \A s \in Parked' : /\ req'[s] \in Requests
                         /\ req'[s].kind = "send" => \A c \in req'[s].chs : Cap[c] > 0
  BY DEF IInv, Coherent
<1> QED BY <1>1, <1>2, <1>3, <1>4

\* The process ends by itself: only halted changes.
LEMMA EndStep ==
    ASSUME IInv, halted = "no", halted' \in {"panic", "exit"},
           UNCHANGED <<threadVars, chanVars, waitVars, taskVars, rt_tasks, rt_done_unjoined>>
    PROVE  IInv'
<1> USE DEF threadVars, chanVars, waitVars, taskVars, birthVars
<1>1. Parked' = Parked /\ Live' = Live /\ DoneUnjoined' = DoneUnjoined
  BY DEF Parked, Live, DoneUnjoined
<1>2. status \in [Thread -> Statuses]
  BY DEF IInv, TypeOK
<1>3. /\ WaitCounts' /\ WithinCapacity' /\ NoLostWakeup'
      /\ \A c \in Chan : count'[c] = Len(queue'[c])
  BY <1>1, <1>2, QuietStep
<1>4. TypeOK'
  BY DEF IInv, TypeOK
<1>5. CountersExact'
  BY <1>1, <1>3 DEF IInv, CountersExact, WaitCounts
<1>6. Coherent'
  BY <1>1 DEF IInv, Coherent
<1>7. HangOnlyByJoinExcuse' /\ NoFalseDeadlock'
  BY DEF HangOnlyByJoinExcuse, NoFalseDeadlock
<1> QED BY <1>3, <1>4, <1>5, <1>6, <1>7 DEF IInv

\* A sleeping thread is woken by nobody.
LEMMA SpuriousWakeStep ==
    ASSUME IInv, halted = "no", NEW t \in Thread, SpuriousWake(t)
    PROVE  IInv'
<1> USE DEF chanVars, waitVars, taskVars, birthVars
<1>0. /\ status[t] = "asleep"
      /\ status' = [status EXCEPT ![t] = "woken"]
      /\ UNCHANGED <<req, chanVars, waitVars, taskVars, rt_tasks, rt_done_unjoined, halted>>
      /\ status \in [Thread -> Statuses]
  BY DEF SpuriousWake, IInv, TypeOK
<1>1. /\ status' \in [Thread -> Statuses] /\ status'[t] = "woken"
      /\ \A s \in Thread \ {t} : status'[s] = status[s]
  BY <1>0 DEF Statuses
<1>2. Parked' = Parked /\ Live' = Live /\ DoneUnjoined' = DoneUnjoined
  BY <1>0, <1>1 DEF Parked, Live, DoneUnjoined
<1>3. /\ WaitCounts' /\ WithinCapacity' /\ NoLostWakeup'
      /\ \A c \in Chan : count'[c] = Len(queue'[c])
  BY <1>0, <1>1, <1>2, QuietStep
<1>4. TypeOK'
  BY <1>0, <1>1 DEF IInv, TypeOK
<1>5. CountersExact'
  BY <1>0, <1>2, <1>3 DEF IInv, CountersExact, WaitCounts
<1>6. Coherent'
  BY <1>0, <1>1, <1>2, ChanOpsAssumption DEF IInv, Coherent
<1>7. HangOnlyByJoinExcuse' /\ NoFalseDeadlock'
  BY <1>0, <1>1 DEF HangOnlyByJoinExcuse, NoFalseDeadlock, Live
<1> QED BY <1>3, <1>4, <1>5, <1>6, <1>7 DEF IInv

\* A task is counted.
LEMMA SpawnStep ==
    ASSUME IInv, halted = "no", NEW t \in Thread, NEW k \in Task,
           NEW how \in {"task", "async"}, Spawn(t, k, how)
    PROVE  IInv'
<1>0. /\ status[t] = "running" /\ status[k] = "unborn" /\ t # k
      /\ status' = [status EXCEPT ![t] = "spawning", ![k] = "starting"]
      /\ kind' = [kind EXCEPT ![k] = how]
      /\ parent' = [parent EXCEPT ![k] = t]
      /\ refcnt' = [refcnt EXCEPT ![k] = IF how = "task" THEN 1 ELSE 0]
      /\ rt_tasks' = rt_tasks + 1
      /\ UNCHANGED <<req, chanVars, waitVars, done, joined, freed, rt_done_unjoined, halted>>
      /\ UNCHANGED <<queue, count, waiters, send_waiters, rt_blocked, rt_join_waiters>>
      /\ k \in Thread /\ k # Main
      /\ TypeOK /\ Coherent
  BY DEF Spawn, IInv, Task, chanVars, waitVars
<1>1. /\ status' \in [Thread -> Statuses] /\ status'[t] = "spawning" /\ status'[k] = "starting"
      /\ \A s \in Thread \ {t, k} : status'[s] = status[s]
  BY <1>0 DEF TypeOK, Statuses
<1>2. Parked' = Parked /\ DoneUnjoined' = DoneUnjoined
  BY <1>0, <1>1 DEF Parked, DoneUnjoined
<1>3. (Live \ {Main})' = (Live \ {Main}) \cup {k} /\ k \notin Live \ {Main}
  <2>1. Live' = Live \cup {k}
    <3>1. ASSUME NEW s \in Thread PROVE s \in Live' <=> s \in Live \/ s = k
      <4>1. CASE s \in {t, k}
        BY <1>0, <1>1, <4>1 DEF Live
      <4>2. CASE s \notin {t, k}
        BY <1>1, <4>2 DEF Live
      <4> QED BY <4>1, <4>2
    <3>2. Live \subseteq Thread /\ Live' \subseteq Thread /\ k \in Thread
      BY <1>0 DEF Live
    <3> QED BY <3>1, <3>2
  <2>2. k \notin Live /\ k # Main
    BY <1>0 DEF Live
  <2> QED BY <2>1, <2>2
<1>4. rt_tasks' = Cardinality((Live \ {Main})')
  <2>1. rt_tasks = Cardinality(Live \ {Main})
    BY DEF IInv, CountersExact
  <2>2. Cardinality((Live \ {Main}) \cup {k}) = Cardinality(Live \ {Main}) + 1
    BY <1>3, OneMore, FiniteParts
  <2> QED BY ONLY <1>0, <1>3, <2>1, <2>2
<1>5. /\ WaitCounts' /\ WithinCapacity' /\ NoLostWakeup'
      /\ \A c \in Chan : count'[c] = Len(queue'[c])
      /\ \A s \in Parked' : /\ req'[s] \in Requests
                            /\ req'[s].kind = "send" => \A c \in req'[s].chs : Cap[c] > 0
  BY <1>0, <1>1, <1>2, QuietStep
<1>6. TypeOK'
  <2>1. /\ kind' \in [Thread -> {"task", "async"}]
        /\ parent' \in [Thread -> Thread \cup {Nil}]
    BY <1>0 DEF TypeOK
  <2>2. refcnt' \in [Thread -> 0..1]
    <3>1. (IF how = "task" THEN 1 ELSE 0) \in 0..1
      OBVIOUS
    <3> QED BY <3>1, <1>0 DEF TypeOK
  <2>3. rt_tasks' \in Nat
    BY <1>0 DEF TypeOK
  <2> QED BY <2>1, <2>2, <2>3, <1>0, <1>1 DEF TypeOK
<1>7. CountersExact'
  BY <1>0, <1>2, <1>4, <1>5 DEF IInv, CountersExact, WaitCounts
<1>8. Coherent'
  <2>1. status'[Main] \in {"running", "spawning", "asleep", "woken"}
    BY <1>0, <1>1, ChanOpsAssumption DEF Coherent
  <2>2. ASSUME NEW s \in Parked', req'[s].kind = "join"
        PROVE  /\ parent'[req'[s].task] = s
               /\ refcnt'[req'[s].task] = 1
               /\ ~joined'[req'[s].task]
    <3>1. s \in Parked /\ req'[s] = req[s] /\ req[s] \in Requests
      BY <1>0, <1>2 DEF Coherent
    <3>2. /\ parent[req[s].task] = s /\ refcnt[req[s].task] = 1 /\ ~joined[req[s].task]
          /\ req[s].task \in Thread
      BY <2>2, <3>1, <1>0, RequestShape DEF Coherent, Task
    <3>3. req[s].task # k
      BY <3>2, <1>0 DEF Coherent
    <3> QED BY <3>1, <3>2, <3>3, <1>0 DEF TypeOK
  <2>3. ASSUME NEW j \in Thread
        PROVE  /\ done'[j] => status'[j] = "exited"
               /\ joined'[j] => done'[j]
               /\ (halted' = "no" /\ status'[j] = "unborn") => refcnt'[j] = 0
    <3>1. j \in {t, k} => ~done[j]
      BY <1>0 DEF Coherent
    <3> QED BY <3>1, <1>0, <1>1 DEF Coherent, TypeOK
  <2> QED BY <1>5, <2>1, <2>2, <2>3 DEF Coherent
<1>9. HangOnlyByJoinExcuse' /\ NoFalseDeadlock'
  BY <1>0, <1>1 DEF HangOnlyByJoinExcuse, NoFalseDeadlock, Live
<1> QED BY <1>5, <1>6, <1>7, <1>8, <1>9 DEF IInv

\* Its thread is created.
LEMMA StartThreadStep ==
    ASSUME IInv, halted = "no", NEW t \in Thread, NEW k \in Task, StartThread(t, k)
    PROVE  IInv'
<1> USE DEF chanVars, waitVars, taskVars, birthVars
<1>0. /\ status[t] = "spawning" /\ status[k] = "starting" /\ t # k
      /\ status' = [status EXCEPT ![t] = "running", ![k] = "running"]
      /\ UNCHANGED <<req, chanVars, waitVars, taskVars, rt_tasks, rt_done_unjoined, halted>>
      /\ k \in Thread /\ TypeOK /\ Coherent
  BY DEF StartThread, IInv, Task
<1>1. /\ status' \in [Thread -> Statuses] /\ status'[t] = "running" /\ status'[k] = "running"
      /\ \A s \in Thread \ {t, k} : status'[s] = status[s]
  BY <1>0 DEF TypeOK, Statuses
<1>2. Parked' = Parked /\ Live' = Live /\ DoneUnjoined' = DoneUnjoined
  BY <1>0, <1>1 DEF Parked, Live, DoneUnjoined
<1>3. /\ WaitCounts' /\ WithinCapacity' /\ NoLostWakeup'
      /\ \A c \in Chan : count'[c] = Len(queue'[c])
  BY <1>0, <1>1, <1>2, QuietStep
<1>4. TypeOK'
  BY <1>0, <1>1 DEF TypeOK
<1>5. CountersExact'
  BY <1>0, <1>2, <1>3 DEF IInv, CountersExact, WaitCounts
<1>6. Coherent'
  <2>1. \A j \in Thread : /\ done'[j] => status'[j] = "exited"
                          /\ (halted' = "no" /\ status'[j] = "unborn") => refcnt'[j] = 0
    BY <1>0, <1>1 DEF Coherent
  <2>2. status'[Main] \in {"running", "spawning", "asleep", "woken"}
    BY <1>0, <1>1, ChanOpsAssumption DEF Coherent
  <2> QED BY <2>1, <2>2, <1>0, <1>2 DEF Coherent
<1>7. HangOnlyByJoinExcuse' /\ NoFalseDeadlock'
  BY <1>0, <1>1 DEF HangOnlyByJoinExcuse, NoFalseDeadlock, Live
<1> QED BY <1>3, <1>4, <1>5, <1>6, <1>7 DEF IInv

\* Its thread is not.
LEMMA StartFailsStep ==
    ASSUME IInv, halted = "no", NEW t \in Thread, NEW k \in Task, StartFails(t, k)
    PROVE  IInv'
<1> USE DEF chanVars, waitVars, taskVars, birthVars
<1>0. /\ status[k] = "starting"
      /\ status' = [status EXCEPT ![k] = "unborn"]
      /\ rt_tasks' = rt_tasks - 1
      /\ halted' = "panic"
      /\ UNCHANGED <<req, chanVars, waitVars, taskVars, rt_done_unjoined>>
      /\ k \in Thread /\ k # Main /\ TypeOK /\ Coherent
  BY DEF StartFails, IInv, Task
<1>1. /\ status' \in [Thread -> Statuses] /\ status'[k] = "unborn"
      /\ \A s \in Thread \ {k} : status'[s] = status[s]
  BY <1>0 DEF TypeOK, Statuses
<1>2. Parked' = Parked /\ DoneUnjoined' = DoneUnjoined
  BY <1>0, <1>1 DEF Parked, DoneUnjoined
<1>3. (Live \ {Main})' = (Live \ {Main}) \ {k} /\ k \in Live \ {Main}
  BY <1>0, <1>1 DEF Live
<1>4. rt_tasks' = Cardinality((Live \ {Main})') /\ rt_tasks' \in Nat
  <2>1. /\ Cardinality((Live \ {Main}) \ {k}) = Cardinality(Live \ {Main}) - 1
        /\ Cardinality(Live \ {Main}) > 0
    BY <1>3, OneLess, FiniteParts
  <2>2. rt_tasks = Cardinality(Live \ {Main}) /\ rt_tasks \in Nat
    BY DEF IInv, CountersExact, TypeOK
  <2>3. rt_tasks' = rt_tasks - 1
    BY <1>0
  <2>4. Cardinality((Live \ {Main})') = Cardinality((Live \ {Main}) \ {k})
    BY <1>3
  <2> QED BY <2>1, <2>2, <2>3, <2>4
<1>5. /\ WaitCounts' /\ WithinCapacity' /\ NoLostWakeup'
      /\ \A c \in Chan : count'[c] = Len(queue'[c])
  BY <1>0, <1>1, <1>2, QuietStep
<1>6. TypeOK'
  BY <1>0, <1>1, <1>4 DEF TypeOK
<1>7. CountersExact'
  BY <1>0, <1>2, <1>4, <1>5 DEF IInv, CountersExact, WaitCounts
<1>8. Coherent'
  <2>1. \A j \in Thread : /\ done'[j] => status'[j] = "exited"
                          /\ (halted' = "no" /\ status'[j] = "unborn") => refcnt'[j] = 0
    BY <1>0, <1>1 DEF Coherent
  <2>2. status'[Main] \in {"running", "spawning", "asleep", "woken"}
    BY <1>0, <1>1, ChanOpsAssumption DEF Coherent
  <2> QED BY <2>1, <2>2, <1>0, <1>2 DEF Coherent
<1>9. HangOnlyByJoinExcuse' /\ NoFalseDeadlock'
  BY <1>0 DEF HangOnlyByJoinExcuse, NoFalseDeadlock
<1> QED BY <1>5, <1>6, <1>7, <1>8, <1>9 DEF IInv

\* What the two ways of ending a body have in common.
LEMMA LeaveFacts ==
    ASSUME IInv, NEW k \in Task, status[k] = "running", Broadcast(k, "exited"),
           rt_tasks' = rt_tasks - 1
    PROVE  /\ status' \in [Thread -> Statuses] /\ status'[k] = "exited"
           /\ \A s \in Thread \ {k} :
                status'[s] = status[s] \/ (status[s] = "asleep" /\ status'[s] = "woken")
           /\ \A s \in Thread : status'[s] # "asleep"
           /\ Parked' = Parked
           /\ rt_tasks' = Cardinality((Live \ {Main})') /\ rt_tasks' \in Nat
           /\ status'[Main] \in {"running", "spawning", "asleep", "woken"}
           /\ Main \in Live'
<1>0. status \in [Thread -> Statuses] /\ k \in Thread /\ k # Main /\ Main \in Thread
      /\ status[Main] \in {"running", "spawning", "asleep", "woken"}
  BY ChanOpsAssumption DEF IInv, TypeOK, Task, Coherent
<1>1. /\ status' \in [Thread -> Statuses] /\ status'[k] = "exited"
      /\ \A s \in Thread \ {k} :
           status'[s] = status[s] \/ (status[s] = "asleep" /\ status'[s] = "woken")
      /\ \A s \in Thread : status'[s] # "asleep"
  BY <1>0 DEF Broadcast, Statuses
<1>2. Parked' = Parked
  BY <1>0, <1>1 DEF Parked
<1>3. (Live \ {Main})' = (Live \ {Main}) \ {k} /\ k \in Live \ {Main}
  BY <1>0, <1>1 DEF Live
<1>4. rt_tasks' = Cardinality((Live \ {Main})') /\ rt_tasks' \in Nat
  <2>1. /\ Cardinality((Live \ {Main}) \ {k}) = Cardinality(Live \ {Main}) - 1
        /\ Cardinality(Live \ {Main}) > 0
    BY <1>3, OneLess, FiniteParts
  <2>2. rt_tasks = Cardinality(Live \ {Main}) /\ rt_tasks \in Nat
    BY DEF IInv, CountersExact, TypeOK
  <2>3. Cardinality((Live \ {Main})') = Cardinality((Live \ {Main}) \ {k})
    BY <1>3
  <2> QED BY <2>1, <2>2, <2>3
<1>5. status'[Main] \in {"running", "spawning", "asleep", "woken"} /\ Main \in Live'
  BY <1>0, <1>1 DEF Live
<1> QED BY <1>1, <1>2, <1>4, <1>5

\* A spawned body returns.
LEMMA TaskFinishStep ==
    ASSUME IInv, halted = "no", NEW k \in Task, TaskFinish(k)
    PROVE  IInv'
<1>0. /\ status[k] = "running" /\ k \in Thread
      /\ Broadcast(k, "exited")
      /\ rt_tasks' = rt_tasks - 1
      /\ done' = [done EXCEPT ![k] = TRUE]
      /\ rt_done_unjoined' = rt_done_unjoined + 1
      /\ freed' = [freed EXCEPT ![k] = (refcnt[k] = 0)]
      /\ UNCHANGED <<req, queue, count, waiters, send_waiters, rt_blocked, rt_join_waiters,
                     kind, parent, joined, refcnt, halted>>
      /\ UNCHANGED <<req, chanVars, waitVars>>
      /\ TypeOK /\ Coherent
  BY DEF TaskFinish, IInv, Task, chanVars, waitVars, birthVars
<1>1. /\ status' \in [Thread -> Statuses] /\ status'[k] = "exited"
      /\ \A s \in Thread \ {k} :
           status'[s] = status[s] \/ (status[s] = "asleep" /\ status'[s] = "woken")
      /\ \A s \in Thread : status'[s] # "asleep"
      /\ Parked' = Parked
      /\ rt_tasks' = Cardinality((Live \ {Main})') /\ rt_tasks' \in Nat
      /\ status'[Main] \in {"running", "spawning", "asleep", "woken"}
      /\ Main \in Live'
  BY <1>0, LeaveFacts
<1>2. /\ WaitCounts' /\ WithinCapacity' /\ NoLostWakeup'
      /\ \A c \in Chan : count'[c] = Len(queue'[c])
      /\ \A s \in Parked' : /\ req'[s] \in Requests
                            /\ req'[s].kind = "send" => \A c \in req'[s].chs : Cap[c] > 0
  BY <1>0, <1>1, QuietStep
<1>3. rt_done_unjoined' = Cardinality(DoneUnjoined')
  <2>1. ~done[k] /\ ~joined[k]
    BY <1>0 DEF Coherent
  <2>2. DoneUnjoined' = DoneUnjoined \cup {k} /\ k \notin DoneUnjoined
    BY <2>1, <1>0 DEF DoneUnjoined, TypeOK, Task
  <2>3. rt_done_unjoined = Cardinality(DoneUnjoined)
    BY DEF IInv, CountersExact
  <2> QED BY <2>2, <2>3, <1>0, OneMore, FiniteParts
<1>4. TypeOK'
  <2>1. freed' \in [Thread -> BOOLEAN]
    <3>1. (refcnt[k] = 0) \in BOOLEAN
      OBVIOUS
    <3> QED BY <3>1, <1>0, Zenon DEF TypeOK
  <2>2. done' \in [Thread -> BOOLEAN] /\ rt_done_unjoined' \in Nat
    BY <1>0 DEF TypeOK
  <2> QED BY <2>1, <2>2, <1>0, <1>1 DEF TypeOK
<1>5. CountersExact'
  BY <1>1, <1>2, <1>3 DEF CountersExact, WaitCounts
<1>6. Coherent'
  <2>1. \A s \in Parked' : req'[s].kind = "join" =>
          /\ parent'[req'[s].task] = s
          /\ refcnt'[req'[s].task] = 1
          /\ ~joined'[req'[s].task]
    BY <1>0, <1>1 DEF Coherent
  <2>2. \A j \in Thread : /\ done'[j] => status'[j] = "exited"
                          /\ joined'[j] => done'[j]
                          /\ (halted' = "no" /\ status'[j] = "unborn") => refcnt'[j] = 0
    BY <1>0, <1>1 DEF Coherent, TypeOK
  <2> QED BY <1>1, <1>2, <2>1, <2>2 DEF Coherent
<1>7. HangOnlyByJoinExcuse' /\ NoFalseDeadlock'
  BY <1>0, <1>1 DEF HangOnlyByJoinExcuse, NoFalseDeadlock, Live
<1> QED BY <1>2, <1>4, <1>5, <1>6, <1>7 DEF IInv

\* A detached body returns.
LEMMA AsyncFinishStep ==
    ASSUME IInv, halted = "no", NEW k \in Task, AsyncFinish(k)
    PROVE  IInv'
<1>0. /\ status[k] = "running" /\ k \in Thread
      /\ Broadcast(k, "exited")
      /\ rt_tasks' = rt_tasks - 1
      /\ UNCHANGED <<req, queue, count, waiters, send_waiters, rt_blocked, rt_join_waiters,
                     kind, parent, done, joined, refcnt, freed, rt_done_unjoined, halted>>
      /\ UNCHANGED <<req, chanVars, waitVars>>
      /\ TypeOK /\ Coherent
  BY DEF AsyncFinish, IInv, Task, chanVars, waitVars, taskVars, birthVars
<1>1. /\ status' \in [Thread -> Statuses] /\ status'[k] = "exited"
      /\ \A s \in Thread \ {k} :
           status'[s] = status[s] \/ (status[s] = "asleep" /\ status'[s] = "woken")
      /\ \A s \in Thread : status'[s] # "asleep"
      /\ Parked' = Parked
      /\ rt_tasks' = Cardinality((Live \ {Main})') /\ rt_tasks' \in Nat
      /\ status'[Main] \in {"running", "spawning", "asleep", "woken"}
      /\ Main \in Live'
  BY <1>0, LeaveFacts
<1>2. /\ WaitCounts' /\ WithinCapacity' /\ NoLostWakeup'
      /\ \A c \in Chan : count'[c] = Len(queue'[c])
  BY <1>0, <1>1, QuietStep
<1>3. DoneUnjoined' = DoneUnjoined
  BY <1>0 DEF DoneUnjoined
<1>4. TypeOK'
  BY <1>0, <1>1 DEF TypeOK
<1>5. CountersExact'
  BY <1>0, <1>1, <1>2, <1>3 DEF IInv, CountersExact, WaitCounts
<1>6. Coherent'
  <2>1. \A j \in Thread : /\ done'[j] => status'[j] = "exited"
                          /\ (halted' = "no" /\ status'[j] = "unborn") => refcnt'[j] = 0
    BY <1>0, <1>1 DEF Coherent
  <2> QED BY <1>0, <1>1, <2>1 DEF Coherent
<1>7. HangOnlyByJoinExcuse' /\ NoFalseDeadlock'
  BY <1>0, <1>1 DEF HangOnlyByJoinExcuse, NoFalseDeadlock, Live
<1> QED BY <1>2, <1>4, <1>5, <1>6, <1>7 DEF IInv

\* The binding that holds a handle goes out of scope.
LEMMA TaskReleaseStep ==
    ASSUME IInv, halted = "no", NEW t \in Thread, NEW k \in Task, TaskRelease(t, k)
    PROVE  IInv'
<1>0. /\ status[t] = "running" /\ parent[k] = t /\ k \in Thread
      /\ refcnt' = [refcnt EXCEPT ![k] = 0]
      /\ freed' = [freed EXCEPT ![k] = done[k]]
      /\ UNCHANGED <<status, req, queue, count, waiters, send_waiters, rt_blocked, rt_join_waiters,
                     kind, parent, done, joined, rt_tasks, rt_done_unjoined, halted>>
      /\ UNCHANGED <<req, chanVars, waitVars>>
      /\ TypeOK /\ Coherent
  BY DEF TaskRelease, IInv, Task, threadVars, chanVars, waitVars, birthVars
<1>1. Parked' = Parked /\ Live' = Live /\ DoneUnjoined' = DoneUnjoined
      /\ status' \in [Thread -> Statuses]
  BY <1>0 DEF Parked, Live, DoneUnjoined, TypeOK
<1>2. /\ WaitCounts' /\ WithinCapacity' /\ NoLostWakeup'
      /\ \A c \in Chan : count'[c] = Len(queue'[c])
  BY <1>0, <1>1, QuietStep
<1>3. TypeOK'
  <2>1. refcnt' \in [Thread -> 0..1] /\ freed' \in [Thread -> BOOLEAN]
    BY <1>0 DEF TypeOK
  <2> QED BY <2>1, <1>0 DEF TypeOK
<1>4. CountersExact'
  BY <1>0, <1>1, <1>2 DEF IInv, CountersExact, WaitCounts
<1>5. Coherent'
  <2>1. ASSUME NEW s \in Parked', req'[s].kind = "join"
        PROVE  /\ parent'[req'[s].task] = s
               /\ refcnt'[req'[s].task] = 1
               /\ ~joined'[req'[s].task]
    <3>1. /\ parent[req[s].task] = s /\ refcnt[req[s].task] = 1 /\ ~joined[req[s].task]
          /\ s \in Parked
      BY <2>1, <1>0, <1>1 DEF Coherent
    <3>2. s # t
      BY <3>1, <1>0 DEF Parked
    <3>3. req[s].task # k
      BY <3>1, <3>2, <1>0
    <3>4. req[s].task \in Thread
      BY <2>1, <3>1, <1>0, RequestShape DEF Coherent, Task
    <3> QED BY <3>1, <3>3, <3>4, <1>0 DEF TypeOK
  <2>2. \A j \in Thread : (halted' = "no" /\ status'[j] = "unborn") => refcnt'[j] = 0
    BY <1>0 DEF Coherent, TypeOK
  <2> QED BY <2>1, <2>2, <1>0, <1>1 DEF Coherent
<1>6. HangOnlyByJoinExcuse' /\ NoFalseDeadlock'
  BY <1>0 DEF HangOnlyByJoinExcuse, NoFalseDeadlock, Live
<1> QED BY <1>2, <1>3, <1>4, <1>5, <1>6 DEF IInv

-----------------------------------------------------------------------------
(* The invariant and its consequences *)

\* Main runs alone, every channel is empty, every counter is what it counts.
LEMMA InitIInv == Init => IInv
<1> SUFFICES ASSUME Init PROVE IInv
  OBVIOUS
<1> USE DEF Init
<1>1. Parked = {} /\ Live = {Main} /\ DoneUnjoined = {} /\ ParkedJoin = {}
      /\ \A c \in Chan : ParkedRecv(c) = {} /\ ParkedSend(c) = {}
  BY ChanOpsAssumption DEF Parked, Live, DoneUnjoined, ParkedJoin, ParkedRecv, ParkedSend
<1>2. TypeOK
  BY DEF TypeOK, Statuses
<1>3. CountersExact
  BY <1>1, FS_EmptySet DEF CountersExact
<1>4. Coherent
  BY <1>1, ChanOpsAssumption DEF Coherent
<1>5. NoLostWakeup /\ NoFalseDeadlock
  BY DEF NoLostWakeup, NoFalseDeadlock
<1>6. HangOnlyByJoinExcuse
  BY <1>1, ChanOpsAssumption DEF HangOnlyByJoinExcuse
<1>7. WithinCapacity
  BY ChanOpsAssumption DEF WithinCapacity
<1> QED BY <1>2, <1>3, <1>4, <1>5, <1>6, <1>7 DEF IInv

\* Each action keeps the invariant.
LEMMA NextIInv == IInv /\ [Next]_vars => IInv'
<1> SUFFICES ASSUME IInv, [Next]_vars PROVE IInv'
  OBVIOUS
<1>1. CASE UNCHANGED vars
  BY <1>1, StutterStep
<1>2. CASE Next
  <2>0. halted = "no"
    BY <1>2 DEF Next
  <2>1. ASSUME NEW t \in Thread, NEW c \in Chan, NEW v \in Carries[c],
               Send(t, c, v) \/ TrySend(t, c, v)
        PROVE  IInv'
    <3>1. CASE Enter(t, SendReq(c, v))
      BY <3>1, <2>0, RequestsMade, EnterStep DEF MayJoin
    <3>2. CASE UNCHANGED vars
      BY <3>2, StutterStep
    <3> QED BY <3>1, <3>2, <2>1 DEF Send, TrySend
  <2>2. ASSUME NEW t \in Thread, NEW c \in Chan, Recv(t, c) \/ RecvOr(t, c)
        PROVE  IInv'
    <3>1. CASE Enter(t, RecvReq(c))
      BY <3>1, <2>0, RequestsMade, EnterStep DEF MayJoin
    <3>2. CASE UNCHANGED vars
      BY <3>2, StutterStep
    <3> QED BY <3>1, <3>2, <2>2 DEF Recv, RecvOr
  <2>3. ASSUME NEW t \in Thread, NEW S \in (SUBSET Chan) \ {{}}, Select(t, S)
        PROVE  IInv'
    BY <2>3, <2>0, RequestsMade, EnterStep DEF MayJoin, Select
  <2>4. ASSUME NEW t \in Thread, NEW k \in Task, Join(t, k)
        PROVE  IInv'
    <3>1. CASE joined[k]
      BY <3>1, <2>4, <2>0, EndStep DEF Join
    <3>2. CASE ~joined[k]
      BY <3>2, <2>4, <2>0, RequestsMade, EnterStep DEF Join, MayJoin
    <3> QED BY <3>1, <3>2
  <2>5. ASSUME NEW t \in Thread, SelectNone(t) PROVE IInv'
    BY <2>5, <2>0, EndStep DEF SelectNone
  <2>6. ASSUME ProcessEnds PROVE IInv'
    BY <2>6, <2>0, EndStep DEF ProcessEnds
  <2> QED
    BY <1>2, <2>0, <2>1, <2>2, <2>3, <2>4, <2>5, <2>6, ResumeStep, SpuriousWakeStep,
       SpawnStep, StartThreadStep, StartFailsStep, TaskFinishStep, AsyncFinishStep,
       TaskReleaseStep DEF Next
<1> QED BY <1>1, <1>2

\* IInv holds in every reachable state of the runtime.
THEOREM Invariance == Spec => []IInv
BY InitIInv, NextIInv, PTL DEF Spec

\* Every variable of the runtime keeps its type; in particular no counter
\* that the code decrements ever goes below zero.
THEOREM TypeCorrect == Spec => []TypeOK
<1>1. IInv => TypeOK
  BY DEF IInv
<1> QED BY <1>1, Invariance, PTL

\* The five counters of the runtime are exact whenever the mutex is free.
THEOREM ExactCounters == Spec => []CountersExact
<1>1. IInv => CountersExact
  BY DEF IInv
<1> QED BY <1>1, Invariance, PTL

\* The deadlock detector never fires while some thread could proceed.
THEOREM DetectorSound == Spec => []NoFalseDeadlock
<1>1. IInv => NoFalseDeadlock
  BY DEF IInv
<1> QED BY <1>1, Invariance, PTL

\* One condition variable and broadcasts lose no wake-up.
THEOREM WakeupsKept == Spec => []NoLostWakeup
<1>1. IInv => NoLostWakeup
  BY DEF IInv
<1> QED BY <1>1, Invariance, PTL

\* The detector is complete but for its early return for joins.
THEOREM DetectorCompleteButForJoins == Spec => []HangOnlyByJoinExcuse
<1>1. IInv => HangOnlyByJoinExcuse
  BY DEF IInv
<1> QED BY <1>1, Invariance, PTL

\* A bounded channel stays within its capacity.
THEOREM CapacityKept == Spec => []WithinCapacity
<1>1. IInv => WithinCapacity
  BY DEF IInv
<1> QED BY <1>1, Invariance, PTL

-----------------------------------------------------------------------------
(* The record of a task *)

\* What frees a record leaves it freed exactly if the task is done and no
\* handle is left; everything else leaves the three alone, but for a spawn,
\* which starts with a task that is not done.
LEMMA NextFreed == IInv /\ FreedExact /\ [Next]_vars => FreedExact'
<1> SUFFICES ASSUME IInv, FreedExact, [Next]_vars PROVE FreedExact'
  OBVIOUS
<1>0. /\ done \in [Thread -> BOOLEAN] /\ freed \in [Thread -> BOOLEAN] /\ refcnt \in [Thread -> 0..1]
      /\ \A k \in Thread : done[k] => status[k] = "exited"
      /\ Task \subseteq Thread
  BY DEF IInv, TypeOK, Coherent, Task
<1>u. ASSUME UNCHANGED <<done, refcnt, freed>> PROVE FreedExact'
  BY <1>u DEF FreedExact
<1>1. CASE UNCHANGED vars
  BY <1>1, <1>u DEF vars, taskVars
<1>2. ASSUME NEW t \in Thread, NEW r, Enter(t, r) PROVE FreedExact'
  BY <1>2, <1>u DEF Enter
<1>3. ASSUME NEW t \in Thread, NEW c \in Chan, NEW v \in Carries[c], Send(t, c, v) \/ TrySend(t, c, v)
      PROVE  FreedExact'
  BY <1>1, <1>2, <1>3 DEF Send, TrySend
<1>4. ASSUME NEW t \in Thread, NEW c \in Chan, Recv(t, c) \/ RecvOr(t, c) PROVE FreedExact'
  BY <1>1, <1>2, <1>4 DEF Recv, RecvOr
<1>5. ASSUME NEW t \in Thread, NEW S \in SUBSET Chan, Select(t, S) PROVE FreedExact'
  BY <1>2, <1>5 DEF Select
<1>6. ASSUME NEW t \in Thread, NEW k \in Task, Join(t, k) PROVE FreedExact'
  BY <1>2, <1>6, <1>u DEF Join, taskVars
<1>7. ASSUME NEW t \in Thread, SelectNone(t) \/ Resume(t) \/ SpuriousWake(t) PROVE FreedExact'
  BY <1>7, <1>u DEF SelectNone, Resume, SpuriousWake, taskVars
<1>8. ASSUME NEW t \in Thread, NEW k \in Task, NEW how, Spawn(t, k, how) PROVE FreedExact'
  <2>1. /\ ~done[k] /\ ~freed[k]
        /\ done' = done /\ freed' = freed
        /\ \A j \in Task \ {k} : refcnt'[j] = refcnt[j]
    BY <1>8, <1>0 DEF Spawn, FreedExact
  <2> QED BY <2>1 DEF FreedExact
<1>9. ASSUME NEW t \in Thread, NEW k \in Task, StartThread(t, k) \/ StartFails(t, k) PROVE FreedExact'
  BY <1>9, <1>u DEF StartThread, StartFails, taskVars
<1>10. ASSUME NEW t \in Thread, NEW k \in Task, TaskRelease(t, k) PROVE FreedExact'
  BY <1>10, <1>0 DEF TaskRelease, FreedExact
<1>11. ASSUME NEW k \in Task, TaskFinish(k) PROVE FreedExact'
  BY <1>11, <1>0 DEF TaskFinish, FreedExact
<1>12. ASSUME NEW k \in Task, AsyncFinish(k) PROVE FreedExact'
  BY <1>12, <1>u DEF AsyncFinish, taskVars
<1>13. ASSUME ProcessEnds PROVE FreedExact'
  BY <1>13, <1>u DEF ProcessEnds, taskVars
<1> QED
  BY <1>1, <1>3, <1>4, <1>5, <1>6, <1>7, <1>8, <1>9, <1>10, <1>11, <1>12, <1>13 DEF Next

\* A task record is freed once, by the later of its end and the release of its
\* handle, and never under a thread that joins it.
THEOREM RecordSafe == Spec => []RecordFreedByTheLast
<1>1. Init => FreedExact
  BY DEF Init, FreedExact, Task
<1>2. IInv /\ FreedExact => RecordFreedByTheLast
  <2> SUFFICES ASSUME IInv, FreedExact, NEW t \in Parked, NEW k \in Task, req[t] = JoinReq(k)
               PROVE  ~freed[k]
    BY DEF RecordFreedByTheLast, JoinersHoldTheRecord
  <2>1. req[t].kind = "join" /\ req[t].task = k
    BY DEF JoinReq, Request
  <2>2. refcnt[k] = 1
    BY <2>1 DEF IInv, Coherent
  <2> QED BY <2>2 DEF FreedExact
<1> QED BY <1>1, <1>2, NextFreed, Invariance, PTL DEF Spec

-----------------------------------------------------------------------------
(* Every step of the runtime is a step of ChanSpec, or one it does not see *)

\* The two specifications speak of the same requests.
LEMMA SameVocabulary ==
    /\ Abs!Task = Task /\ Abs!NoReq = NoReq /\ Abs!Requests = Requests
    /\ \A r, q, f : Abs!ReadyFor(r, q, f) = ReadyFor(r, q, f)
<1>1. Abs!Task = Task /\ Abs!NoReq = NoReq
  BY DEF Task, Abs!Task, NoReq, Abs!NoReq, Request, Abs!Request
<1>2. Abs!Requests = Requests
  BY <1>1 DEF Requests, Abs!Requests, SendReqs, Abs!SendReqs, RecvReqs, Abs!RecvReqs,
     SelectReqs, Abs!SelectReqs, JoinReqs, Abs!JoinReqs, SendReq, Abs!SendReq,
     RecvReq, Abs!RecvReq, SelectReq, Abs!SelectReq, JoinReq, Abs!JoinReq, Request, Abs!Request
<1>3. \A r, q, f : Abs!ReadyFor(r, q, f) = ReadyFor(r, q, f)
  BY DEF ReadyFor, Abs!ReadyFor, FullAt, Abs!FullAt
<1> QED BY <1>1, <1>2, <1>3

\* With exact counts, the loop conditions of the runtime are the readiness of
\* the abstract specification.
LEMMA SameReadiness ==
    ASSUME \A c \in Chan : count[c] = Len(queue[c]), NEW r \in Requests
    PROVE  CanProceed(r) <=> ReadyFor(r, queue, done)
<1>1. r.kind \in {"send", "recv", "select", "join"} /\ r.chs \in SUBSET Chan
  BY RequestShape
<1>2. CASE r.kind = "send"
  BY <1>1, <1>2 DEF CanProceed, ReadyFor
<1>3. CASE r.kind # "send"
  BY <1>1, <1>3 DEF CanProceed, ReadyFor
<1> QED BY <1>2, <1>3

\* A true verdict of the runtime is a true one of the abstract specification.
LEMMA StuckSeen ==
    IInv /\ halted = "deadlock" => Abs!AllStuck
<1> SUFFICES ASSUME IInv, halted = "deadlock", NEW t \in Thread
             PROVE  \/ AbsMode[t] \in {"unborn", "exited"}
                    \/ AbsMode[t] = "waiting" /\ ~ReadyFor(req[t], queue, done)
  BY SameVocabulary DEF Abs!AllStuck
<1>1. CASE t \in Live
  <2>1. t \in Parked /\ ~CanProceed(req[t]) /\ req[t] \in Requests
    BY <1>1 DEF IInv, Coherent, NoFalseDeadlock
  <2>2. ~ReadyFor(req[t], queue, done)
    BY <2>1, SameReadiness DEF IInv, CountersExact
  <2> QED BY <2>1, <2>2 DEF AbsMode, Parked
<1>2. CASE t \notin Live
  BY <1>2 DEF AbsMode, Live
<1> QED BY <1>1, <1>2

\* Only the running threads' and the parked threads' own steps change a mode.
LEMMA ModeSame ==
    ASSUME \A s \in Thread : \/ status'[s] = status[s]
                             \/ {status'[s], status[s]} \subseteq {"asleep", "woken"}
                             \/ {status'[s], status[s]} \subseteq {"running", "spawning"}
                             \/ {status'[s], status[s]} \subseteq {"unborn", "starting"}
    PROVE  AbsMode' = AbsMode
BY DEF AbsMode

\* Seen from outside only t moves: a broadcast turns sleepers into woken
\* threads, and both are waiting.
LEMMA ModeMoves ==
    ASSUME NEW t \in Thread,
           \A s \in Thread \ {t} : \/ status'[s] = status[s]
                                   \/ {status'[s], status[s]} \subseteq {"asleep", "woken"}
                                   \/ {status'[s], status[s]} \subseteq {"running", "spawning"}
    PROVE  AbsMode' = [AbsMode EXCEPT ![t] = AbsMode'[t]]
BY DEF AbsMode

\* The effect of an operation on the queues, and on the threads it wakes.
LEMMA PerformSeen ==
    ASSUME TypeOK, NEW t \in Thread, NEW r \in Requests, Perform(t, r)
    PROVE  /\ Abs!Effect(r)
           /\ status'[t] = "running"
           /\ \A s \in Thread \ {t} :
                status'[s] = status[s] \/ {status'[s], status[s]} \subseteq {"asleep", "woken"}
<1>1. r.kind \in {"send", "recv", "select", "join"}
  BY RequestShape
<1>2. \/ Broadcast(t, "running")
      \/ status' = [status EXCEPT ![t] = "running"]
  BY DEF Perform, PerformSend, PerformRecv, PerformSelect, PerformJoin
<1>3. /\ status'[t] = "running"
      /\ \A s \in Thread \ {t} :
           status'[s] = status[s] \/ {status'[s], status[s]} \subseteq {"asleep", "woken"}
  BY <1>2 DEF Broadcast, TypeOK
<1>4. CASE r.kind = "send"
  BY <1>3, <1>4 DEF Perform, PerformSend, Enqueue, Abs!Effect
<1>5. CASE r.kind = "recv"
  BY <1>3, <1>5 DEF Perform, PerformRecv, Dequeue, Abs!Effect
<1>6. CASE r.kind \in {"select", "join"}
  BY <1>3, <1>6 DEF Perform, PerformSelect, PerformJoin, chanVars, Abs!Effect
<1> QED BY <1>1, <1>3, <1>4, <1>5, <1>6

\* Entering an operation is doing it at once or waiting, with a verdict that
\* is true if there is one.
LEMMA EnterSimulated ==
    ASSUME IInv, IInv', halted = "no", NEW t \in Thread, NEW r \in Requests, Enter(t, r)
    PROVE  Abs!Next
<1>0. /\ TypeOK /\ AbsVerdict = "none" /\ status[t] = "running" /\ AbsMode[t] = "running"
      /\ UNCHANGED done
      /\ CanProceed(r) <=> ReadyFor(r, queue, done)
  BY SameReadiness DEF IInv, CountersExact, AbsVerdict, AbsMode, Enter
<1>1. CASE CanProceed(r)
  <2>1. Perform(t, r) /\ UNCHANGED <<req, halted>>
    BY <1>1 DEF Enter
  <2>2. Abs!Effect(r) /\ AbsMode' = AbsMode
    BY <1>0, <2>1, PerformSeen, ModeSame
  <2>3. Abs!Do(r)
    BY <1>0, <1>1, <2>1, <2>2, SameVocabulary DEF Abs!Do, AbsVerdict
  <2>4. Abs!Make(t)
    BY <1>0, <2>3, SameVocabulary DEF Abs!Make
  <2> QED BY <1>0, <2>4 DEF Abs!Next
<1>2. CASE ~CanProceed(r)
  <2>1. /\ UNCHANGED queue
        /\ status' = [status EXCEPT ![t] = "asleep"]
        /\ req' = [req EXCEPT ![t] = r]
        /\ halted' \in {"no", "deadlock"}
    BY <1>2 DEF Enter, Sleep, chanVars
  <2>2. AbsMode' = [AbsMode EXCEPT ![t] = "waiting"]
    <3>1. status'[t] = "asleep" /\ \A s \in Thread \ {t} : status'[s] = status[s]
      BY <1>0, <2>1 DEF TypeOK
    <3> QED BY <3>1, ModeMoves DEF AbsMode
  <2>3. AbsVerdict' \in (IF Abs!AllStuck' THEN {"none", "deadlock"} ELSE {"none"})
    <3>1. CASE halted' = "no"
      BY <3>1 DEF AbsVerdict
    <3>2. CASE halted' = "deadlock"
      <4>1. (halted = "deadlock")'
        BY <3>2
      <4>2. Abs!AllStuck'
        BY <4>1, StuckSeen, PTL
      <4> QED BY <3>2, <4>2 DEF AbsVerdict
    <3> QED BY <2>1, <3>1, <3>2
  <2>4. Abs!Wait(t, r)
    BY <1>0, <1>2, <2>1, <2>2, <2>3, SameVocabulary DEF Abs!Wait
  <2>5. Abs!Make(t)
    BY <1>0, <2>4, SameVocabulary DEF Abs!Make
  <2> QED BY <1>0, <2>5 DEF Abs!Next
<1> QED BY <1>1, <1>2

\* A woken thread completes its request, or nothing is seen but a true verdict.
LEMMA ResumeSimulated ==
    ASSUME IInv, IInv', halted = "no", NEW t \in Thread, Resume(t)
    PROVE  [Abs!Next]_(Abs!vars)
<1>0. /\ TypeOK /\ AbsVerdict = "none" /\ status[t] = "woken" /\ AbsMode[t] = "waiting"
      /\ req[t] \in Requests
      /\ UNCHANGED done
      /\ CanProceed(req[t]) <=> ReadyFor(req[t], queue, done)
  BY SameReadiness DEF IInv, CountersExact, Coherent, Parked, AbsVerdict, AbsMode, Resume
<1>1. CASE CanProceed(req[t])
  <2>1. Perform(t, req[t]) /\ UNCHANGED halted /\ req' = [req EXCEPT ![t] = NoReq]
    BY <1>1 DEF Resume
  <2>2. Abs!Effect(req[t]) /\ AbsMode' = [AbsMode EXCEPT ![t] = "running"]
    <3>1. /\ Abs!Effect(req[t]) /\ status'[t] = "running"
          /\ \A s \in Thread \ {t} :
               status'[s] = status[s] \/ {status'[s], status[s]} \subseteq {"asleep", "woken"}
      BY <1>0, <2>1, PerformSeen
    <3> QED BY <3>1, ModeMoves DEF AbsMode
  <2>3. Abs!Complete(t)
    BY <1>0, <1>1, <2>1, <2>2, SameVocabulary DEF Abs!Complete, AbsVerdict
  <2> QED BY <1>0, <2>3, SameVocabulary DEF Abs!Next
<1>2. CASE ~CanProceed(req[t])
  <2>1. /\ UNCHANGED queue
        /\ status' = [status EXCEPT ![t] = "asleep"]
        /\ UNCHANGED req
        /\ halted' \in {"no", "deadlock"}
    BY <1>0, <1>2 DEF Resume, Sleep, chanVars, TypeOK
  <2>2. AbsMode' = AbsMode
    <3>1. status'[t] = "asleep" /\ \A s \in Thread \ {t} : status'[s] = status[s]
      BY <1>0, <2>1 DEF TypeOK
    <3> QED BY <3>1, <1>0, ModeSame
  <2>3. CASE halted' = "no"
    BY <1>0, <2>1, <2>2, <2>3 DEF Abs!vars, AbsVerdict
  <2>4. CASE halted' = "deadlock"
    <3>1. (halted = "deadlock")'
      BY <2>4
    <3>2. Abs!AllStuck'
      BY <3>1, StuckSeen, PTL
    <3>3. Abs!AllStuck
      BY <3>2, <2>1, <2>2, <1>0 DEF Abs!AllStuck
    <3>4. Abs!Report
      BY <3>3, <2>1, <2>2, <2>4, <1>0 DEF Abs!Report, AbsVerdict
    <3> QED BY <1>0, <3>4, SameVocabulary DEF Abs!Next
  <2> QED BY <2>1, <2>3, <2>4
<1> QED BY <1>1, <1>2

\* The process ends by itself while some thread runs.
LEMMA EndSimulated ==
    ASSUME halted = "no", halted' \in {"panic", "exit"}, UNCHANGED <<queue, req, done>>,
           AbsMode' = AbsMode,
           NEW t \in Thread, status[t] \in {"running", "spawning"}
    PROVE  Abs!Next
<1>1. AbsVerdict = "none" /\ AbsVerdict' = "exit" /\ AbsMode[t] = "running"
  BY DEF AbsVerdict, AbsMode
<1>2. Abs!End
  BY <1>1 DEF Abs!End
<1> QED BY <1>1, <1>2 DEF Abs!Next

\* The life of a task: counted unseen, then started, then returned.
LEMMA TaskSimulated ==
    ASSUME IInv, halted = "no", NEW t \in Thread, NEW k \in Task,
           \/ \E how \in {"task", "async"} : Spawn(t, k, how)
           \/ StartThread(t, k) \/ StartFails(t, k) \/ TaskRelease(t, k)
           \/ TaskFinish(k) \/ AsyncFinish(k)
    PROVE  [Abs!Next]_(Abs!vars)
<1>0. /\ status \in [Thread -> Statuses] /\ done \in [Thread -> BOOLEAN]
      /\ AbsVerdict = "none" /\ k \in Thread
      /\ done[k] => status[k] = "exited"
  BY DEF IInv, TypeOK, Coherent, AbsVerdict, Task
<1>1. ASSUME NEW how \in {"task", "async"}, Spawn(t, k, how) PROVE UNCHANGED Abs!vars
  <2>1. /\ status[t] = "running" /\ status[k] = "unborn"
        /\ status' = [status EXCEPT ![t] = "spawning", ![k] = "starting"]
        /\ UNCHANGED <<req, queue, done, halted>>
    BY <1>1 DEF Spawn, chanVars
  <2>2. /\ status'[t] = "spawning" /\ status'[k] = "starting"
        /\ \A s \in Thread \ {t, k} : status'[s] = status[s]
    BY <1>0, <2>1
  <2>3. AbsMode' = AbsMode
    BY <2>1, <2>2, ModeSame
  <2> QED BY <2>1, <2>3 DEF Abs!vars, AbsVerdict
<1>2. ASSUME StartThread(t, k) PROVE Abs!Next
  <2>1. /\ status[t] = "spawning" /\ status[k] = "starting"
        /\ status' = [status EXCEPT ![t] = "running", ![k] = "running"]
        /\ UNCHANGED <<req, queue, done, halted>>
    BY <1>2 DEF StartThread, chanVars, taskVars
  <2>2. /\ status'[t] = "running" /\ status'[k] = "running"
        /\ \A s \in Thread \ {t, k} : status'[s] = status[s]
    BY <1>0, <2>1
  <2>3. AbsMode' = [AbsMode EXCEPT ![k] = "running"] /\ AbsMode[k] = "unborn"
    <3>1. AbsMode' = [AbsMode EXCEPT ![k] = AbsMode'[k]]
      BY <1>0, <2>1, <2>2, ModeMoves
    <3> QED BY <1>0, <2>1, <2>2, <3>1 DEF AbsMode
  <2>4. Abs!Start(k)
    BY <2>1, <2>3 DEF Abs!Start, AbsVerdict
  <2> QED BY <1>0, <2>4, SameVocabulary DEF Abs!Next
<1>3. ASSUME StartFails(t, k) PROVE Abs!Next
  <2>1. /\ status[t] = "spawning" /\ status[k] = "starting"
        /\ status' = [status EXCEPT ![k] = "unborn"]
        /\ halted' = "panic" /\ UNCHANGED <<req, queue, done>>
    BY <1>3 DEF StartFails, chanVars, taskVars
  <2>2. status'[k] = "unborn" /\ \A s \in Thread \ {k} : status'[s] = status[s]
    BY <1>0, <2>1
  <2>3. AbsMode' = AbsMode
    BY <2>1, <2>2, ModeSame
  <2> QED BY <2>1, <2>3, EndSimulated
<1>4. ASSUME TaskRelease(t, k) PROVE UNCHANGED Abs!vars
  BY <1>4 DEF TaskRelease, threadVars, chanVars, Abs!vars, AbsMode, AbsVerdict
<1>5. ASSUME TaskFinish(k) \/ AsyncFinish(k) PROVE Abs!Next
  <2>1. /\ status[k] = "running" /\ Broadcast(k, "exited")
        /\ UNCHANGED <<req, queue, halted>>
        /\ done' = [done EXCEPT ![k] = TRUE] \/ done' = done
    BY <1>5 DEF TaskFinish, AsyncFinish, chanVars, taskVars
  <2>2. \E joinable \in BOOLEAN : done' = [done EXCEPT ![k] = joinable]
    BY <1>0, <2>1
  <2>3. /\ status'[k] = "exited"
        /\ \A s \in Thread \ {k} :
             status'[s] = status[s] \/ {status'[s], status[s]} \subseteq {"asleep", "woken"}
    BY <1>0, <2>1 DEF Broadcast
  <2>4. AbsMode' = [AbsMode EXCEPT ![k] = "exited"] /\ AbsMode[k] = "running"
    <3>1. AbsMode' = [AbsMode EXCEPT ![k] = AbsMode'[k]]
      BY <1>0, <2>3, ModeMoves
    <3> QED BY <1>0, <2>1, <2>3, <3>1 DEF AbsMode
  <2>5. AbsVerdict' \in (IF Abs!AllStuck' THEN {"none", "deadlock"} ELSE {"none"})
    BY <1>0, <2>1 DEF AbsVerdict
  <2>6. Abs!Return(k)
    BY <2>1, <2>2, <2>4, <2>5 DEF Abs!Return
  <2> QED BY <1>0, <2>6, SameVocabulary DEF Abs!Next
<1> QED BY <1>1, <1>2, <1>3, <1>4, <1>5

\* Every step of the runtime is a step of ChanSpec or is not seen from outside.
LEMMA NextSimulated == IInv /\ IInv' /\ [Next]_vars => [Abs!Next]_(Abs!vars)
<1> SUFFICES ASSUME IInv, IInv', [Next]_vars PROVE [Abs!Next]_(Abs!vars)
  OBVIOUS
<1>1. CASE UNCHANGED vars
  BY <1>1 DEF vars, threadVars, chanVars, taskVars, Abs!vars, AbsMode, AbsVerdict
<1>2. CASE Next
  <2>0. halted = "no"
    BY <1>2 DEF Next
  <2>1. ASSUME NEW t \in Thread, NEW c \in Chan, NEW v \in Carries[c], Send(t, c, v) \/ TrySend(t, c, v)
        PROVE  [Abs!Next]_(Abs!vars)
    BY <2>0, <2>1, <1>1, RequestsMade, EnterSimulated DEF Send, TrySend
  <2>2. ASSUME NEW t \in Thread, NEW c \in Chan, Recv(t, c) \/ RecvOr(t, c)
        PROVE  [Abs!Next]_(Abs!vars)
    BY <2>0, <2>2, <1>1, RequestsMade, EnterSimulated DEF Recv, RecvOr
  <2>3. ASSUME NEW t \in Thread, NEW S \in (SUBSET Chan) \ {{}}, Select(t, S)
        PROVE  [Abs!Next]_(Abs!vars)
    BY <2>0, <2>3, RequestsMade, EnterSimulated DEF Select
  <2>4. ASSUME UNCHANGED threadVars PROVE AbsMode' = AbsMode
    BY <2>4 DEF threadVars, AbsMode
  <2>5. ASSUME NEW t \in Thread, NEW k \in Task, Join(t, k)
        PROVE  [Abs!Next]_(Abs!vars)
    <3>1. CASE joined[k]
      BY <2>0, <2>4, <2>5, <3>1, EndSimulated DEF Join, threadVars, chanVars, taskVars
    <3>2. CASE ~joined[k]
      BY <2>0, <2>5, <3>2, RequestsMade, EnterSimulated DEF Join
    <3> QED BY <3>1, <3>2
  <2>6. ASSUME NEW t \in Thread, SelectNone(t)
        PROVE  [Abs!Next]_(Abs!vars)
    BY <2>0, <2>4, <2>6, EndSimulated DEF SelectNone, threadVars, chanVars, taskVars
  <2>7. ASSUME NEW t \in Thread, SpuriousWake(t)
        PROVE  UNCHANGED Abs!vars
    <3>1. /\ status[t] = "asleep" /\ status' = [status EXCEPT ![t] = "woken"]
          /\ UNCHANGED <<req, queue, done, halted>>
      BY <2>7 DEF SpuriousWake, chanVars, taskVars
    <3>2. AbsMode' = AbsMode
      BY <3>1, ModeSame DEF IInv, TypeOK
    <3> QED BY <3>1, <3>2 DEF Abs!vars, AbsVerdict
  <2>8. ASSUME ProcessEnds PROVE [Abs!Next]_(Abs!vars)
    BY <2>0, <2>4, <2>8, EndSimulated DEF ProcessEnds, threadVars, chanVars, taskVars
  <2> QED
    BY <1>2, <2>0, <2>1, <2>2, <2>3, <2>5, <2>6, <2>7, <2>8, ResumeSimulated, TaskSimulated DEF Next
<1> QED BY <1>1, <1>2

\* The runtime is a set of bounded FIFO channels with select, spawn and join:
\* for every number of threads, tasks and channels and every program, each step
\* is one that ChanSpec allows or is not seen, and a deadlock verdict is given
\* only when ChanSpec has one to give.
THEOREM RuntimeImplements == Spec => ImplementsChanSpec
<1>1. Init => Abs!Init
  <2> SUFFICES ASSUME Init PROVE Abs!Init
    OBVIOUS
  <2>1. AbsMode = [t \in Thread |-> IF t = Main THEN "running" ELSE "unborn"]
    BY DEF Init, AbsMode
  <2> QED BY <2>1, SameVocabulary DEF Init, Abs!Init, AbsVerdict
<1>2. IInv /\ IInv' /\ [Next]_vars => [Abs!Next]_(Abs!vars)
  BY NextSimulated
<1> QED BY <1>1, <1>2, Invariance, PTL DEF Spec, Abs!Spec, ImplementsChanSpec

=============================================================================
