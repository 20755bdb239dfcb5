----------------------------- MODULE MCDetSched -----------------------------
(* Instances of DetSched for TLC. *)
EXTENDS DetSched

CONSTANTS main, t1, t2, narrow, wide, m1

\* A channel of capacity 1 and an unbounded one.
MCCap == [c \in Chan |-> IF c = narrow THEN 1 ELSE 0]
MCCarries == [c \in Chan |-> Val]
=============================================================================
