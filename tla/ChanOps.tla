------------------------------ MODULE ChanOps ------------------------------
(***************************************************************************)
(* The vocabulary the channel modules share: the blocking requests a       *)
(* thread of a Halis program can make of the concurrency runtime           *)
(* (src/hlc/runtime.hls), and the condition each of them waits for.  The   *)
(* condition is a function of the queues and of the finished tasks alone,  *)
(* so that the detailed runtime and its abstract specification mean the    *)
(* same thing by "this request can proceed".                               *)
(***************************************************************************)
EXTENDS Naturals, Sequences, FiniteSets

CONSTANTS
    Thread,     \* every thread the program may ever run
    Main,       \* the main thread; the others are spawned tasks
    Chan,       \* the channels
    Val,        \* the payloads
    Carries,    \* those the element type of each channel admits
    Cap,        \* capacity of each channel, 0 for an unbounded one
    Nil         \* no thread, no payload

ASSUME ChanOpsAssumption ==
    /\ IsFiniteSet(Thread)
    /\ Main \in Thread
    /\ Cap \in [Chan -> Nat]
    /\ Nil \notin Thread
    /\ Nil \notin Val
    /\ Carries \in [Chan -> SUBSET Val]

Task == Thread \ {Main}

(***************************************************************************)
(* A request carries the channels it waits on, the payload it sends and    *)
(* the task it joins.  A select list is a set here: which ready index      *)
(* select returns is data of the client, its waiting is not.               *)
(***************************************************************************)
Request(kind, chs, val, task) ==
    [kind |-> kind, chs |-> chs, val |-> val, task |-> task]

NoReq       == Request("none", {}, Nil, Nil)
SendReq(c, v) == Request("send", {c}, v, Nil)
RecvReq(c)  == Request("recv", {c}, Nil, Nil)
SelectReq(S) == Request("select", S, Nil, Nil)
JoinReq(k)  == Request("join", {}, Nil, k)

SendReqs   == UNION {{SendReq(c, v) : v \in Carries[c]} : c \in Chan}
RecvReqs   == {RecvReq(c) : c \in Chan}
SelectReqs == {SelectReq(S) : S \in (SUBSET Chan) \ {{}}}
JoinReqs   == {JoinReq(k) : k \in Task}
Requests   == SendReqs \cup RecvReqs \cup SelectReqs \cup JoinReqs

\* A bounded channel is full when it holds Cap[c] messages; an unbounded one never is.
FullAt(c, n) == Cap[c] > 0 /\ n >= Cap[c]

\* Can request r proceed when channel c holds queue[c] and the tasks of finished are done?
ReadyFor(r, queue, finished) ==
    CASE r.kind = "send"   -> \A c \in r.chs : ~FullAt(c, Len(queue[c]))
      [] r.kind = "recv"   -> \A c \in r.chs : queue[c] # <<>>
      [] r.kind = "select" -> \E c \in r.chs : queue[c] # <<>>
      [] r.kind = "join"   -> finished[r.task]
      [] OTHER             -> TRUE
=============================================================================
