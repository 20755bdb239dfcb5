------------------------------- MODULE RwLock -------------------------------
(***************************************************************************)
(* The readers / writer lock of std/sync.hls, made of three channels of    *)
(* capacity one: the token of the writer, the token count_mu that guards   *)
(* the count, and the count itself, kept as the one message of             *)
(* reader_count.                                                           *)
(*                                                                         *)
(* Each channel operation is one atomic step that waits until it can       *)
(* complete, which is what ChanSpec promises and ChanRuntime implements.   *)
(* The threads are clients that keep the contract: who holds a lock        *)
(* releases it before it asks for another.                                 *)
(***************************************************************************)
EXTENDS Integers, Sequences, Threads

VARIABLES
    writer, count_mu,   \* tokens in the channel: 0 or 1
    reader_count,       \* the message in the channel: <<>> or <<n>>
    call,               \* the function a thread is inside of, or what it holds
    at,                 \* the channel operation it is to make there
    c                   \* its local count

vars == <<writer, count_mu, reader_count, call, at, c>>

Calls == {"read_lock", "read_unlock", "write_lock", "write_unlock"}
Rests == {"idle", "reading", "writing"}
Steps == {"count_mu.recv", "reader_count.recv", "reader_count.send",
          "writer", "count_mu.send", "none"}

\* rwlock_new
Init ==
    /\ writer = 1
    /\ count_mu = 1
    /\ reader_count = <<0>>
    /\ call = [t \in Thread |-> "idle"]
    /\ at = [t \in Thread |-> "none"]
    /\ c = [t \in Thread |-> 0]

Goto(t, step) == at' = [at EXCEPT ![t] = step]
At(t, step)   == at[t] = step

\* A call ends and leaves the thread at rest.
Return(t, rest) ==
    /\ call' = [call EXCEPT ![t] = rest]
    /\ Goto(t, "none")

Begin(t, from, function, first) ==
    /\ call[t] = from
    /\ call' = [call EXCEPT ![t] = function]
    /\ Goto(t, first)
    /\ UNCHANGED <<writer, count_mu, reader_count, c>>

CallReadLock(t)    == Begin(t, "idle", "read_lock", "count_mu.recv")
CallReadUnlock(t)  == Begin(t, "reading", "read_unlock", "count_mu.recv")
CallWriteLock(t)   == Begin(t, "idle", "write_lock", "writer")
CallWriteUnlock(t) == Begin(t, "writing", "write_unlock", "writer")

-----------------------------------------------------------------------------
(* The steps read_lock and read_unlock share *)

LockCount(t) ==
    /\ At(t, "count_mu.recv")
    /\ count_mu = 1
    /\ count_mu' = 0
    /\ Goto(t, "reader_count.recv")
    /\ UNCHANGED <<writer, reader_count, call, c>>

TakeCount(t) ==
    /\ At(t, "reader_count.recv")
    /\ reader_count # <<>>
    /\ c' = [c EXCEPT ![t] = Head(reader_count)]
    /\ reader_count' = <<>>
    /\ Goto(t, "reader_count.send")
    /\ UNCHANGED <<writer, count_mu, call>>

\* Seeded faults: the test on the new count; a last reader never noticed.
TouchesWriterOffByOne(t) ==
    \/ call[t] = "read_lock" /\ c[t] = 1
    \/ call[t] = "read_unlock" /\ c[t] = 1

TouchesWriterFirstOnly(t) == call[t] = "read_lock" /\ c[t] = 0

\* The first reader in and the last one out deal with the writer's token.
TouchesWriter(t) ==
    \/ call[t] = "read_lock" /\ c[t] = 0
    \/ call[t] = "read_unlock" /\ c[t] = 1

PutCount(t) ==
    /\ At(t, "reader_count.send")
    /\ reader_count = <<>>
    /\ reader_count' = <<IF call[t] = "read_lock" THEN c[t] + 1 ELSE c[t] - 1>>
    /\ Goto(t, IF TouchesWriter(t) THEN "writer" ELSE "count_mu.send")
    /\ UNCHANGED <<writer, count_mu, call, c>>

\* The first reader receives the writer's token, with count_mu still taken.
FirstReader(t) ==
    /\ call[t] = "read_lock"
    /\ At(t, "writer")
    /\ writer = 1
    /\ writer' = 0
    /\ Goto(t, "count_mu.send")
    /\ UNCHANGED <<count_mu, reader_count, call, c>>

\* The last reader sends it back.
LastReader(t) ==
    /\ call[t] = "read_unlock"
    /\ At(t, "writer")
    /\ writer = 0
    /\ writer' = 1
    /\ Goto(t, "count_mu.send")
    /\ UNCHANGED <<count_mu, reader_count, call, c>>

UnlockCount(t) ==
    /\ At(t, "count_mu.send")
    /\ count_mu = 0
    /\ count_mu' = 1
    /\ Return(t, IF call[t] = "read_lock" THEN "reading" ELSE "idle")
    /\ UNCHANGED <<writer, reader_count, c>>

-----------------------------------------------------------------------------

WriteLock(t) ==
    /\ call[t] = "write_lock"
    /\ writer = 1
    /\ writer' = 0
    /\ Return(t, "writing")
    /\ UNCHANGED <<count_mu, reader_count, c>>

WriteUnlock(t) ==
    /\ call[t] = "write_unlock"
    /\ writer = 0
    /\ writer' = 1
    /\ Return(t, "idle")
    /\ UNCHANGED <<count_mu, reader_count, c>>

\* A step of the lock's own code.
Inside(t) ==
    \/ LockCount(t)
    \/ TakeCount(t)
    \/ PutCount(t)
    \/ FirstReader(t)
    \/ LastReader(t)
    \/ UnlockCount(t)
    \/ WriteLock(t)
    \/ WriteUnlock(t)

Next ==
    \E t \in Thread :
        \/ CallReadLock(t)
        \/ CallReadUnlock(t)
        \/ CallWriteLock(t)
        \/ CallWriteUnlock(t)
        \/ Inside(t)

Spec == Init /\ [][Next]_vars

\* A thread that can receive again and again eventually does (every send wakes
\* all the receivers), and who holds the lock gives it back.
LiveSpec ==
    Spec /\ \A t \in Thread :
        /\ SF_vars(Inside(t))
        /\ WF_vars(CallReadUnlock(t))
        /\ WF_vars(CallWriteUnlock(t))

-----------------------------------------------------------------------------
(* What is checked *)

\* Each of the three channels of the lock holds at most one message, and the
\* reader count is never below zero or above the number of threads.
TypeOK ==
    /\ writer \in 0..1
    /\ count_mu \in 0..1
    /\ reader_count \in {<<>>} \cup {<<n>> : n \in 0..Cardinality(Thread)}
    /\ call \in [Thread -> Calls \cup Rests]
    /\ at \in [Thread -> Steps]
    /\ c \in [Thread -> 0..Cardinality(Thread)]

InCount == {t \in Thread : at[t] \in {"reader_count.recv", "reader_count.send", "writer", "count_mu.send"}
                           /\ call[t] \in {"read_lock", "read_unlock"}}

\* A reader is counted from the step that puts its count to the one that takes
\* it back.
Counted ==
    {t \in Thread :
        \/ call[t] = "reading"
        \/ call[t] = "read_lock" /\ at[t] \in {"writer", "count_mu.send"}
        \/ call[t] = "read_unlock" /\ at[t] \in {"count_mu.recv", "reader_count.recv", "reader_count.send"}}

\* The threads that may rely on there being no writer; they still may while
\* the last of them is about to send the token back.
Readers ==
    {t \in Thread :
        \/ call[t] = "reading"
        \/ call[t] = "read_lock" /\ at[t] = "count_mu.send"
        \/ call[t] = "read_unlock" /\ at[t] \in {"count_mu.recv", "reader_count.recv", "reader_count.send", "writer"}}

Writers == {t \in Thread : call[t] \in {"writing", "write_unlock"}}

\* A writer is alone, with every thread the lock let in counted, the ones
\* inside an unlock included.
Exclusion ==
    /\ Writers # {} => Readers = {}
    /\ \A t, u \in Writers : t = u

\* Between count_mu.recv and count_mu.send there is one thread at most.
OneInside ==
    /\ count_mu = 0 <=> InCount # {}
    /\ \A t, u \in InCount : t = u

\* The message of reader_count is the number of counted readers; while it is
\* in the hands of a thread, that thread's copy is.
CountKept ==
    /\ \A t \in InCount : at[t] = "reader_count.send" => reader_count = <<>> /\ c[t] = Cardinality(Counted)
    /\ (\A t \in InCount : at[t] # "reader_count.send") => reader_count = <<Cardinality(Counted)>>

\* The writer's token is away exactly while a writer or the readers as a group
\* have it; the reader that goes to fetch it is the only one counted, and
\* nobody is counted when one goes to give it back.
TokenKept ==
    /\ writer = 0 <=> (Writers # {} \/ Readers # {})
    /\ \A t \in InCount : at[t] = "writer" =>
         Counted = IF call[t] = "read_lock" THEN {t} ELSE {}

\* The three channels agree with each other and with the threads.
ChannelsAgree == OneInside /\ CountKept /\ TokenKept

\* Where a thread can be in each call.
Shape ==
    \A t \in Thread :
        /\ call[t] \in Rests => at[t] = "none"
        /\ call[t] \in {"write_lock", "write_unlock"} => at[t] = "writer"
        /\ call[t] \in {"read_lock", "read_unlock"} => at[t] # "none"

\* The inductive invariant of the proofs.
IInv == TypeOK /\ Shape /\ ChannelsAgree /\ Exclusion

\* A thread that asks to read eventually reads.
ReadersEnter == \A t \in Thread : call[t] = "read_lock" ~> call[t] = "reading"

\* What a thread waits for, seen from outside.
Asking ==
    [t \in Thread |->
        IF call[t] = "read_lock" /\ t \notin Readers THEN "read"
        ELSE IF call[t] = "write_lock" THEN "write"
        ELSE "nothing"]

Abs == INSTANCE RwLockSpec WITH readers <- Readers, writers <- Writers, asking <- Asking

\* Seen from outside it is a readers / writer lock.
ImplementsRwLockSpec == Abs!Spec
=============================================================================
