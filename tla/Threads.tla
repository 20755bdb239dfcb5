------------------------------ MODULE Threads ------------------------------
(***************************************************************************)
(* The threads that share the objects of std/sync.hls: finitely many.      *)
(***************************************************************************)
EXTENDS FiniteSets

CONSTANT Thread

ASSUME ThreadsAssumption == IsFiniteSet(Thread)
=============================================================================
