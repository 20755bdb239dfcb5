--------------------------- MODULE MCChanRuntime ---------------------------
(* Instances of ChanRuntime for TLC. *)
EXTENDS ChanRuntime, TLC

CONSTANTS main, t1, t2, narrow, wide, m1, m2

\* A channel of capacity 1, of an element type with one value, and an unbounded
\* one, of a type with two: order shows in its queue.
MCCap == (narrow :> 1) @@ (wide :> 0)
MCCarries == (narrow :> {m1}) @@ (wide :> {m1, m2})
MCOneCap == (narrow :> 1)
MCOneCarries == (narrow :> {m1})
=============================================================================
