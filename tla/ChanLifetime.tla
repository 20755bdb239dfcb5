---------------------------- MODULE ChanLifetime ----------------------------
(***************************************************************************)
(* Who frees a channel (src/hlc/runtime.hls): the atomic reference count,  *)
(* the registry of live channels the deadlock detector walks, and the      *)
(* last release, which unlinks the channel under g_rt_mu, drains what is   *)
(* left in its queue and frees it.  A message of a Chan[Chan[..]] is itself*)
(* a counted reference, so the drain of one channel can be the last release*)
(* of another, and so on down the element type.                            *)
(*                                                                         *)
(* Only clone and release touch the count atomically.  A binding that      *)
(* copies another one (let d = c, an argument, a returned value) goes      *)
(* through hl_retain, a plain load and a plain store: CopyLoad, CopyStore. *)
(* What another thread does to the count in between is lost, and from then *)
(* on the counts are wrong: overtaken remembers that it happened.          *)
(*                                                                         *)
(* Blocking, wake-ups and the detector are in ChanRuntime: here a thread   *)
(* that would wait simply does not take its step.  What is kept apart here *)
(* and is one step there is g_rt_mu itself, because two operations release *)
(* a payload while they hold it.                                           *)
(***************************************************************************)
EXTENDS Integers, Sequences, FiniteSets

CONSTANTS
    Owner,      \* the threads whose bindings refer to channels
    Chan, Nil,
    Level,      \* nesting of a channel's type: 0 carries plain values, n + 1 channels of level n
    Cap,        \* capacity, 0 if unbounded
    Plain,      \* the one plain value
    MaxRefs     \* references that exist to a channel at a time

ASSUME LifetimeAssumption ==
    /\ Nil \notin Owner \cup Chan
    /\ Plain \notin Chan
    /\ Level \in [Chan -> Nat]
    /\ Cap \in [Chan -> Nat]
    /\ MaxRefs \in [Chan -> Nat \ {0}]

VARIABLES
    life,       \* "absent", "live", "freed"
    refcnt,
    registered, \* the channels linked from g_rt_chans
    pending,    \* the queue of each channel
    held,       \* held[t][c]: references to c that thread t's bindings own
    copying,    \* the channel whose binding each thread copies, or Nil
    loaded,     \* the count hl_retain has read for it
    stack,      \* hl_chan_release activations of each thread, innermost first
    mutex,      \* the owner of g_rt_mu across steps, or Nil
    overtaken   \* a history: a count was changed while another thread copied
                \* a binding of that channel

lifetimeVars == <<life, refcnt, registered, pending, held, copying, loaded, stack, mutex, overtaken>>
copyVars == <<copying, loaded>>

Payload(c) == IF Level[c] = 0 THEN {Plain} ELSE {d \in Chan : Level[d] = Level[c] - 1}
Releasing(t) == stack[t] # <<>>
Idle(t)    == ~Releasing(t) /\ copying[t] = Nil
Holds(t, c) == held[t][c] > 0
Full(c)    == Cap[c] > 0 /\ Len(pending[c]) >= Cap[c]

\* A thread can offer v as a message: a plain value always, a channel it owns.
CanGive(t, v) == v = Plain \/ (v \in Chan /\ Holds(t, v))

LifetimeInit ==
    /\ life = [c \in Chan |-> "absent"]
    /\ refcnt = [c \in Chan |-> 0]
    /\ registered = {}
    /\ pending = [c \in Chan |-> <<>>]
    /\ held = [t \in Owner |-> [c \in Chan |-> 0]]
    /\ copying = [t \in Owner |-> Nil]
    /\ loaded = [t \in Owner |-> 0]
    /\ stack = [t \in Owner |-> <<>>]
    /\ mutex = Nil
    /\ overtaken = FALSE

-----------------------------------------------------------------------------
(* References *)

\* The references to c, each at its place: in the bindings h and in the queues q.
Bindings(h, c) == UNION {{t} \X (1..h[t][c]) : t \in Owner}
Messages(q, c) == UNION {{d} \X {i \in 1..Len(q[d]) : q[d][i] = c} : d \in Chan}
References(c) == Cardinality(Bindings(held, c)) + Cardinality(Messages(pending, c))

\* t writes the count of c.
Touches(t, c) == overtaken' = (overtaken \/ \E u \in Owner \ {t} : copying[u] = c)

\* chan_new: the record is linked into the registry before anybody sees it.
New(t, c) ==
    /\ Idle(t)
    /\ mutex = Nil
    /\ life[c] = "absent"
    /\ life' = [life EXCEPT ![c] = "live"]
    /\ refcnt' = [refcnt EXCEPT ![c] = 1]
    /\ registered' = registered \cup {c}
    /\ held' = [held EXCEPT ![t][c] = 1]
    /\ UNCHANGED <<pending, stack, mutex, copyVars, overtaken>>

\* clone of a channel shares it: for t itself, or for a thread u it spawns.
\* The count is raised without the mutex.
Clone(t, u, c) ==
    /\ Idle(t)
    /\ Holds(t, c)
    /\ refcnt[c] < MaxRefs[c]
    /\ refcnt' = [refcnt EXCEPT ![c] = @ + 1]
    /\ held' = [held EXCEPT ![u][c] = @ + 1]
    /\ Touches(t, c)
    /\ UNCHANGED <<life, registered, pending, stack, mutex, copyVars>>

\* hl_retain on a binding of t: the load ...
CopyLoad(t, c) ==
    /\ Idle(t)
    /\ Holds(t, c)
    /\ refcnt[c] < MaxRefs[c]
    /\ copying' = [copying EXCEPT ![t] = c]
    /\ loaded' = [loaded EXCEPT ![t] = refcnt[c]]
    /\ UNCHANGED <<life, refcnt, registered, pending, held, stack, mutex, overtaken>>

\* ... and the store, whatever happened to the count in between.
CopyStore(t) ==
    /\ copying[t] # Nil
    /\ refcnt' = [refcnt EXCEPT ![copying[t]] = loaded[t] + 1]
    /\ held' = [held EXCEPT ![t][copying[t]] = @ + 1]
    /\ copying' = [copying EXCEPT ![t] = Nil]
    /\ loaded' = [loaded EXCEPT ![t] = 0]
    /\ Touches(t, copying[t])
    /\ UNCHANGED <<life, registered, pending, stack, mutex>>

\* The fetch_sub of a release returned 1.
WasLast(c) == refcnt[c] = 1

\* elem_release of one value by thread t, whose remaining activations are
\* rest: nothing for a plain value; one fetch_sub for a channel and, if it
\* was the last reference, a new activation.
DropValue(t, v, rest) ==
    IF v = Plain
    THEN /\ stack' = [stack EXCEPT ![t] = rest]
         /\ UNCHANGED <<refcnt, overtaken>>
    ELSE /\ refcnt' = [refcnt EXCEPT ![v] = @ - 1]
         /\ Touches(t, v)
         /\ stack' = [stack EXCEPT ![t] =
                        IF WasLast(v) THEN <<[ch |-> v, at |-> "unlink"]>> \o rest ELSE rest]

\* A binding of t goes out of scope.
Release(t, c) ==
    /\ Idle(t)
    /\ Holds(t, c)
    /\ held' = [held EXCEPT ![t][c] = @ - 1]
    /\ DropValue(t, c, <<>>)
    /\ UNCHANGED <<life, registered, pending, mutex, copyVars>>

\* Seeded fault: the channel is freed without being unlinked.
UnlinkNothing(t) ==
    /\ Releasing(t)
    /\ Head(stack[t]).at = "unlink"
    /\ mutex = Nil
    /\ stack' = [stack EXCEPT ![t][1].at = "drain"]
    /\ UNCHANGED <<life, refcnt, registered, pending, held, mutex, copyVars, overtaken>>

\* The last release takes g_rt_mu, which is not recursive, and unlinks.
Unlink(t) ==
    /\ Releasing(t)
    /\ Head(stack[t]).at = "unlink"
    /\ mutex = Nil
    /\ registered' = registered \ {Head(stack[t]).ch}
    /\ stack' = [stack EXCEPT ![t][1].at = "drain"]
    /\ UNCHANGED <<life, refcnt, pending, held, mutex, copyVars, overtaken>>

\* Seeded fault: a channel message left in the queue is freed as plain memory.
DrainForgetsPayload(t) ==
    /\ Releasing(t)
    /\ Head(stack[t]).at = "drain"
    /\ LET c == Head(stack[t]).ch IN
       /\ pending[c] # <<>>
       /\ pending' = [pending EXCEPT ![c] = Tail(@)]
    /\ UNCHANGED <<life, refcnt, registered, held, stack, mutex, copyVars, overtaken>>

\* The drain, one message at a time and without the mutex.
Drain(t) ==
    /\ Releasing(t)
    /\ Head(stack[t]).at = "drain"
    /\ LET c == Head(stack[t]).ch IN
       /\ pending[c] # <<>>
       /\ pending' = [pending EXCEPT ![c] = Tail(@)]
       /\ DropValue(t, Head(pending[c]), stack[t])
    /\ UNCHANGED <<life, registered, held, mutex, copyVars>>

\* The queue is empty: free(c), and the activation returns.
Free(t) ==
    /\ Releasing(t)
    /\ Head(stack[t]).at = "drain"
    /\ pending[Head(stack[t]).ch] = <<>>
    /\ life' = [life EXCEPT ![Head(stack[t]).ch] = "freed"]
    /\ stack' = [stack EXCEPT ![t] = Tail(@)]
    /\ UNCHANGED <<refcnt, registered, pending, held, mutex, copyVars, overtaken>>

-----------------------------------------------------------------------------
(* Operations that move references *)

\* The reference of the value v that t gives away, or gets.
Give(h, t, v) == IF v = Plain THEN h ELSE [h EXCEPT ![t][v] = @ - 1]
Get(h, t, v)  == IF v = Plain THEN h ELSE [h EXCEPT ![t][v] = @ + 1]

\* send, and try_send on a channel with room: the reference moves into the queue.
Send(t, c, v) ==
    /\ Idle(t)
    /\ mutex = Nil
    /\ Holds(t, c)
    /\ CanGive(t, v)
    /\ ~Full(c)
    /\ Len(pending[c]) < MaxRefs[c]
    /\ pending' = [pending EXCEPT ![c] = Append(@, v)]
    /\ held' = Give(held, t, v)
    /\ UNCHANGED <<life, refcnt, registered, stack, mutex, copyVars, overtaken>>

\* recv, and recv_or on an empty channel, which answers its own default: the
\* second changes nothing.
Recv(t, c) ==
    /\ Idle(t)
    /\ mutex = Nil
    /\ Holds(t, c)
    /\ pending[c] # <<>>
    /\ pending' = [pending EXCEPT ![c] = Tail(@)]
    /\ held' = Get(held, t, Head(pending[c]))
    /\ UNCHANGED <<life, refcnt, registered, stack, mutex, copyVars, overtaken>>

\* An elem_release made while g_rt_mu is held: the mutex is given back by
\* DropsDone, once every activation it started has returned.
DropUnderMutex(t, v) ==
    /\ DropValue(t, v, <<>>)
    /\ mutex' = t

\* try_send on a full channel drops the message it refuses, before it unlocks.
TrySendRefused(t, c, v) ==
    /\ Idle(t)
    /\ mutex = Nil
    /\ Holds(t, c)
    /\ CanGive(t, v)
    /\ Full(c)
    /\ held' = Give(held, t, v)
    /\ DropUnderMutex(t, v)
    /\ UNCHANGED <<life, registered, pending, copyVars>>

\* recv_or on a channel with a message drops the default, before it unlocks.
RecvOrTaken(t, c, default) ==
    /\ Idle(t)
    /\ mutex = Nil
    /\ Holds(t, c)
    /\ CanGive(t, default)
    /\ pending[c] # <<>>
    /\ pending' = [pending EXCEPT ![c] = Tail(@)]
    /\ held' = Get(Give(held, t, default), t, Head(pending[c]))
    /\ DropUnderMutex(t, default)
    /\ UNCHANGED <<life, registered, copyVars>>

DropsDone(t) ==
    /\ mutex = t
    /\ Idle(t)
    /\ mutex' = Nil
    /\ UNCHANGED <<life, refcnt, registered, pending, held, stack, copyVars, overtaken>>

\* A thread that holds g_rt_mu runs nothing but the operation that took it.
Outside(t) == mutex # t

LifetimeNext ==
    \/ \E t \in Owner : Unlink(t) \/ Drain(t) \/ Free(t) \/ DropsDone(t) \/ CopyStore(t)
    \/ \E t \in Owner, c \in Chan :
         /\ Outside(t)
         /\ \/ New(t, c)
            \/ CopyLoad(t, c)
            \/ Release(t, c)
            \/ Recv(t, c)
            \/ \E u \in Owner : Clone(t, u, c)
            \/ \E v \in Payload(c) :
                 Send(t, c, v) \/ TrySendRefused(t, c, v) \/ RecvOrTaken(t, c, v)

LifetimeSpec == LifetimeInit /\ [][LifetimeNext]_lifetimeVars

\* A thread inside a release goes on with it, and gets the mutex if it is free.
ReleaseSteps(t) == Unlink(t) \/ Drain(t) \/ Free(t) \/ DropsDone(t)
LifetimeLiveSpec == LifetimeSpec /\ \A t \in Owner : WF_lifetimeVars(DropsDone(t)) /\ SF_lifetimeVars(ReleaseSteps(t))

-----------------------------------------------------------------------------
(* What is checked *)

LifetimeTypeOK ==
    /\ life \in [Chan -> {"absent", "live", "freed"}]
    /\ refcnt \in [Chan -> Nat]
    /\ registered \in SUBSET Chan
    /\ pending \in [Chan -> Seq(Chan \cup {Plain})]
    /\ held \in [Owner -> [Chan -> Nat]]
    /\ copying \in [Owner -> Chan \cup {Nil}]
    /\ loaded \in [Owner -> Nat]
    /\ stack \in [Owner -> Seq([ch : Chan, at : {"unlink", "drain"}])]
    /\ mutex \in Owner \cup {Nil}
    /\ overtaken \in BOOLEAN

\* The activation i of hl_chan_release on t's stack, and all there are.
Activations == UNION {{t} \X (1..Len(stack[t])) : t \in Owner}
Activation(a) == stack[a[1]][a[2]]

\* What a binding, a message, the registry or a release on its way refers to has
\* not been freed, and a channel some thread can still block on is in the registry.
AllAlive ==
    /\ \A c \in Chan : References(c) > 0 => life[c] = "live" /\ c \in registered
    /\ \A c \in registered : life[c] = "live"
    /\ \A a \in Activations : life[Activation(a).ch] = "live"

\* The detector's walk, every operation and every drain stay within live memory and
\* nothing is freed twice, for as long as no copy of a binding is overtaken by
\* another thread's clone, copy or release of the same channel: that is the only way
\* (runtime.hls:1273-1276 against 1783, 1790).
NothingDangles == ~overtaken => AllAlive

\* Why: the count is the number of references, only a channel without any is
\* being released, by one release, and once it drains it is out of the registry;
\* and the count that a copy has loaded is the count, its thread doing nothing else.
CountsExact == \A c \in Chan : refcnt[c] = References(c)
ReleasedByOne ==
    /\ \A a \in Activations :
         /\ refcnt[Activation(a).ch] = 0
         /\ Activation(a).at = "drain" => Activation(a).ch \notin registered
    /\ \A a, b \in Activations : Activation(a).ch = Activation(b).ch => a = b
CopiesCurrent ==
    \A t \in Owner : copying[t] # Nil =>
        loaded[t] = refcnt[copying[t]] /\ Holds(t, copying[t]) /\ ~Releasing(t)
LifetimeInv ==
    LifetimeTypeOK /\ CountsExact /\ AllAlive /\ ReleasedByOne /\ CopiesCurrent

\* A thread that owns g_rt_mu is about to lock it: nothing moves any more.
SelfLocked == \E t \in Owner : mutex = t /\ Releasing(t) /\ Head(stack[t]).at = "unlink"

\* Nothing leaks: a channel to which no reference is left is freed, with
\* everything only its queue referred to, unless the mutex is self-locked or a
\* copy was overtaken.
Reclaimed ==
    \A c \in Chan : (life[c] = "live" /\ References(c) = 0) ~> (life[c] = "freed" \/ SelfLocked \/ overtaken)
=============================================================================
