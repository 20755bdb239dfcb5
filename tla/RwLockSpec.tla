----------------------------- MODULE RwLockSpec -----------------------------
(***************************************************************************)
(* What a readers / writer lock promises (std/sync.hls): any number of     *)
(* readers or one writer, each granted only to a thread that asked.        *)
(***************************************************************************)
CONSTANT Thread

VARIABLES readers, writers, asking  \* asking[t]: "nothing", "read", "write"

vars == <<readers, writers, asking>>

Init == readers = {} /\ writers = {} /\ asking = [t \in Thread |-> "nothing"]

Ask(t, what) ==
    /\ t \notin readers \cup writers
    /\ asking[t] = "nothing"
    /\ asking' = [asking EXCEPT ![t] = what]
    /\ UNCHANGED <<readers, writers>>

Read(t) ==
    /\ asking[t] = "read"
    /\ writers = {}
    /\ readers' = readers \cup {t}
    /\ asking' = [asking EXCEPT ![t] = "nothing"]
    /\ UNCHANGED writers

Write(t) ==
    /\ asking[t] = "write"
    /\ readers \cup writers = {}
    /\ writers' = {t}
    /\ asking' = [asking EXCEPT ![t] = "nothing"]
    /\ UNCHANGED readers

Leave(t) ==
    /\ t \in readers \cup writers
    /\ readers' = readers \ {t}
    /\ writers' = writers \ {t}
    /\ UNCHANGED asking

Next == \E t \in Thread : Ask(t, "read") \/ Ask(t, "write") \/ Read(t) \/ Write(t) \/ Leave(t)

Spec == Init /\ [][Next]_vars
=============================================================================
