-------------------------- MODULE DetSched_proofs --------------------------
(***************************************************************************)
(* Proofs about the deterministic scheduler (module DetSched), for any     *)
(* finite set of threads, any channels and any bounds, native or           *)
(* interpreted.                                                            *)
(*                                                                         *)
(* The argument.  A wait list with cells on it is the list of something    *)
(* that has not happened (NothingMissed), and a node that will not get its *)
(* turn by itself, being neither the owner nor queued, has a cell on every *)
(* list its request needs (ParkedAreListed).  So when the baton goes to    *)
(* nobody every node is stuck, main among them: the scan finds a deadlock, *)
(* and never a missed wake.  Stale cells, which a select leaves on the     *)
(* lists it did not answer from, only ever give a node a turn too many;    *)
(* that is why neither list membership nor the count of joiners is exact   *)
(* and the invariant is made of implications and one inequality.           *)
(***************************************************************************)
EXTENDS DetSched, FiniteSetTheorems, SequenceTheorems, WellFoundedInduction, TLAPS

USE ChanOpsAssumption

-----------------------------------------------------------------------------
(* The rotation *)

Rotations == [owner : Thread \cup {Nil}, ready : Seq(Thread), queued : [Thread -> BOOLEAN]]

Within(n, cells) == \E i \in 1..Len(cells) : cells[i] = n

\* What a list holds when a cell is added to it.
LEMMA WithinAppend ==
    ASSUME NEW cells \in Seq(Thread), NEW n \in Thread, NEW m \in Thread
    PROVE  Within(m, Append(cells, n)) <=> Within(m, cells) \/ m = n
<1>1. /\ Len(Append(cells, n)) = Len(cells) + 1
      /\ \A i \in 1..Len(cells) : Append(cells, n)[i] = cells[i]
      /\ Append(cells, n)[Len(cells) + 1] = n
      /\ Len(cells) \in Nat
  BY AppendProperties, LenProperties
<1>2. \A i \in 1..(Len(cells) + 1) : i \in 1..Len(cells) \/ i = Len(cells) + 1
  BY <1>1
<1>3. ASSUME Within(m, Append(cells, n)) PROVE Within(m, cells) \/ m = n
  BY <1>1, <1>2, <1>3 DEF Within
<1>4. ASSUME Within(m, cells) \/ m = n PROVE Within(m, Append(cells, n))
  <2>1. CASE Within(m, cells)
    <3>1. PICK i \in 1..Len(cells) : cells[i] = m
      BY <2>1 DEF Within
    <3>2. i \in 1..(Len(cells) + 1)
      BY <1>1
    <3>3. QED
      BY <1>1, <3>1, <3>2 DEF Within
  <2>2. CASE m = n
    <3>1. Len(cells) + 1 \in 1..(Len(cells) + 1)
      BY <1>1
    <3>2. QED
      BY <1>1, <2>2, <3>1 DEF Within
  <2>3. QED
    BY <1>4, <2>1, <2>2
<1>5. QED
  BY <1>3, <1>4

\* hl_det_ready_push.
LEMMA PushIs ==
    ASSUME NEW r \in Rotations, NEW n \in Thread
    PROVE  /\ Push(r, n) \in Rotations
           /\ Push(r, n).owner = r.owner
           /\ Push(r, n).ready = Append(r.ready, n)
           /\ \A m \in Thread : Push(r, n).queued[m] <=> r.queued[m] \/ m = n
<1>1. r.ready \in Seq(Thread) /\ r.queued \in [Thread -> BOOLEAN] /\ r.owner \in Thread \cup {Nil}
  BY DEF Rotations
<1>2. /\ Push(r, n).owner = r.owner
      /\ Push(r, n).ready = Append(r.ready, n)
      /\ Push(r, n).queued = [r.queued EXCEPT ![n] = TRUE]
  BY DEF Push
<1>3. Append(r.ready, n) \in Seq(Thread) /\ [r.queued EXCEPT ![n] = TRUE] \in [Thread -> BOOLEAN]
  BY <1>1
<1>5. Push(r, n) \in Rotations
  BY <1>1, <1>3 DEF Push, Rotations
<1>6. \A m \in Thread : Push(r, n).queued[m] <=> r.queued[m] \/ m = n
  BY <1>1, <1>2
<1>7. QED
  BY <1>2, <1>5, <1>6

\* Waking one cell queues its node unless it is queued already or retired.
LEMMA WakeOneIs ==
    ASSUME NEW r \in Rotations, NEW n \in Thread, retired \in [Thread -> BOOLEAN]
    PROVE  /\ WakeOne(r, n) \in Rotations
           /\ WakeOne(r, n).owner = r.owner
           /\ \A m \in Thread : WakeOne(r, n).queued[m] <=> r.queued[m] \/ (m = n /\ ~retired[n])
           /\ \A m \in Thread : Within(m, r.ready) => Within(m, WakeOne(r, n).ready)
           /\ \A m \in Thread : Within(m, WakeOne(r, n).ready) => Within(m, r.ready) \/ m = n
           /\ \A m \in Thread : WakeOne(r, n).queued[m] /\ ~r.queued[m]
                                    => Within(m, WakeOne(r, n).ready)
           /\ r.queued[n] \/ retired[n] => WakeOne(r, n) = r
           /\ Len(WakeOne(r, n).ready) \in {Len(r.ready), Len(r.ready) + 1}
<1>0. r.ready \in Seq(Thread) /\ Len(r.ready) \in Nat
  BY LenProperties DEF Rotations
<1>1. CASE r.queued[n] \/ retired[n]
  <2>1. WakeOne(r, n) = r
    BY <1>1 DEF WakeOne
  <2>2. \A m \in Thread : r.queued[m] <=> r.queued[m] \/ (m = n /\ ~retired[n])
    BY <1>1
  <2>3. QED
    BY ONLY <2>1, <2>2, r \in Rotations
<1>2. CASE ~(r.queued[n] \/ retired[n])
  <2>1. WakeOne(r, n) = Push(r, n)
    BY <1>2 DEF WakeOne
  <2>2. Push(r, n).ready = Append(r.ready, n)
    BY PushIs
  <2>3. \A m \in Thread : Within(m, Push(r, n).ready) <=> Within(m, r.ready) \/ m = n
    BY <1>0, <2>2, WithinAppend
  <2>4. Len(Push(r, n).ready) = Len(r.ready) + 1
    BY <1>0, <2>2, AppendProperties
  <2>6. /\ Push(r, n) \in Rotations /\ Push(r, n).owner = r.owner
        /\ \A m \in Thread : Push(r, n).queued[m] <=> r.queued[m] \/ m = n
    BY PushIs
  <2>7. \A m \in Thread : Push(r, n).queued[m] <=> r.queued[m] \/ (m = n /\ ~retired[n])
    BY <1>2, <2>6
  <2>8. \A m \in Thread : Push(r, n).queued[m] /\ ~r.queued[m] => Within(m, Push(r, n).ready)
    BY <2>3, <2>6
  <2>9. QED
    BY ONLY <1>2, <2>1, <2>3, <2>4, <2>6, <2>7, <2>8
<1>3. QED
  BY <1>1, <1>2

-----------------------------------------------------------------------------
(* Waking a whole list.  hl_det_wake_list is a loop, WakeAll a recursive   *)
(* function: that it is defined, and what it comes to, is shown by the     *)
(* least number of cells for which it would not be so.                     *)

\* Every non-empty set of numbers has a least element: what stands in for
\* induction here.
LEMMA LeastElement == ASSUME NEW T \in SUBSET Nat, T # {} PROVE \E x \in T : \A y \in T : x <= y
<1> DEFINE R == OpToRel(<, Nat)
<1>1. \A x, y \in Nat : x < y => <<x, y>> \in R
  BY DEF OpToRel
<1>2. IsWellFoundedOn(R, Nat)
  BY NatLessThanWellFounded
<1> HIDE DEF R
<1>3. PICK x \in T : \A y \in T : ~ (<<y, x>> \in R)
  BY <1>2, WFMin
<1>4. ASSUME NEW y \in T PROVE x <= y
  <2>1. x \in Nat /\ y \in Nat /\ ~(y < x)
    BY <1>1, <1>3
  <2> QED BY <2>1
<1> QED BY <1>4

\* f is the loop over the first n cells.
Loop(f, r, cells, n) ==
    /\ f \in [0..n -> Rotations]
    /\ f[0] = r
    /\ \A i \in 1..n : f[i] = WakeOne(f[i - 1], cells[i])

\* The loop can be run over any number of cells: over the least number of
\* cells for which it could not, it would go one cell on from a loop that can.
LEMMA LoopExists ==
    ASSUME NEW r \in Rotations, NEW cells \in Seq(Thread), retired \in [Thread -> BOOLEAN]
    PROVE  \A n \in 0..Len(cells) : \E f : Loop(f, r, cells, n)
<1> DEFINE T == {n \in 0..Len(cells) : ~ \E f : Loop(f, r, cells, n)}
<1> SUFFICES ASSUME T # {} PROVE FALSE
  OBVIOUS
<1>1. Len(cells) \in Nat /\ T \in SUBSET Nat
  BY LenProperties
<1>2. PICK n \in T : \A m \in T : n <= m
  BY <1>1, LeastElement
<1>3. n \in 0..Len(cells) /\ ~ \E f : Loop(f, r, cells, n)
  BY <1>2
<1>4. n # 0
  <2>1. Loop([i \in 0..0 |-> r], r, cells, 0)
    BY DEF Loop
  <2>2. QED
    BY <1>3, <2>1
<1>5. n - 1 \in 0..Len(cells) /\ ~(n <= n - 1)
  BY <1>1, <1>3, <1>4
<1>6. PICK f : Loop(f, r, cells, n - 1)
  BY <1>2, <1>5
<1> DEFINE g == [i \in 0..n |-> IF i = n THEN WakeOne(f[n - 1], cells[n]) ELSE f[i]]
<1>7. cells[n] \in Thread /\ n \in Nat /\ n > 0
  BY <1>1, <1>3, <1>4, ElementOfSeq
<1>8. f[n - 1] \in Rotations /\ WakeOne(f[n - 1], cells[n]) \in Rotations
  <2>1. f \in [0..(n - 1) -> Rotations] /\ n - 1 \in 0..(n - 1)
    BY <1>6, <1>7 DEF Loop
  <2>2. f[n - 1] \in Rotations
    BY <2>1
  <2>3. QED
    BY <1>7, <2>2, WakeOneIs
<1>9. \A i \in 0..n : g[i] \in Rotations
  BY <1>6, <1>7, <1>8 DEF Loop
<1>10. g[0] = r
  BY <1>6, <1>7 DEF Loop
<1>11. \A i \in 1..n : g[i] = WakeOne(g[i - 1], cells[i])
  <2> TAKE i \in 1..n
  <2>1. i \in 0..n /\ i - 1 \in 0..n /\ i - 1 # n
    BY <1>7
  <2>2. CASE i = n
    BY <2>1, <2>2
  <2>3. CASE i # n
    <3>1. i \in 1..(n - 1)
      BY <1>7, <2>3
    <3>2. QED
      BY <1>6, <2>1, <2>3, <3>1 DEF Loop
  <2>4. QED
    BY <2>2, <2>3
<1>12. Loop(g, r, cells, n)
  BY <1>9, <1>10, <1>11 DEF Loop
<1>13. QED
  BY <1>3, <1>12

\* The function WakeAll recurs on is the loop.
LEMMA WakeAllLoops ==
    ASSUME NEW r \in Rotations, NEW cells \in Seq(Thread), retired \in [Thread -> BOOLEAN]
    PROVE  \E f : Loop(f, r, cells, Len(cells)) /\ WakeAll(r, cells) = f[Len(cells)]
<1> DEFINE rec(f) == f = [i \in 0..Len(cells) |->
                            IF i = 0 THEN r ELSE WakeOne(f[i - 1], cells[i])]
           woken == CHOOSE w : rec(w)
<1>1. Len(cells) \in Nat
  BY LenProperties
<1>2. PICK f : Loop(f, r, cells, Len(cells))
  <2>1. Len(cells) \in 0..Len(cells)
    BY <1>1
  <2> HIDE DEF rec, woken
  <2>2. \A n \in 0..Len(cells) : \E f : Loop(f, r, cells, n)
    BY LoopExists
  <2> QED BY ONLY <2>1, <2>2
<1>3. rec(f)
  <2>1. \A i \in 0..Len(cells) : i # 0 => i \in 1..Len(cells)
    BY <1>1
  <2>2. QED
    BY <1>2, <2>1 DEF Loop
<1>4. rec(woken)
  BY <1>3
<1>5. WakeAll(r, cells) = woken[Len(cells)]
  BY DEF WakeAll
<1>6. /\ DOMAIN woken = 0..Len(cells) /\ woken[0] = r
      /\ \A i \in 1..Len(cells) : woken[i] = WakeOne(woken[i - 1], cells[i])
  <2> HIDE DEF woken
  <2>1. 0 \in 0..Len(cells) /\ \A i \in 1..Len(cells) : i \in 0..Len(cells) /\ i # 0
    BY <1>1
  <2>2. QED
    BY <1>4, <2>1
<1> HIDE DEF woken
<1> DEFINE T == {n \in 0..Len(cells) : woken[n] # f[n]}
<1>7. T = {}
  <2> SUFFICES ASSUME T # {} PROVE FALSE
    OBVIOUS
  <2>1. T \in SUBSET Nat
    BY <1>1
  <2>2. PICK n \in T : \A m \in T : n <= m
    BY <2>1, LeastElement
  <2>3. n \in 0..Len(cells) /\ woken[n] # f[n] /\ n # 0
    BY <1>2, <1>6, <2>2 DEF Loop
  <2>4. n \in 1..Len(cells) /\ n - 1 \in 0..Len(cells) /\ ~(n <= n - 1)
    BY <1>1, <2>3
  <2>5. woken[n - 1] = f[n - 1]
    BY <2>2, <2>4
  <2>6. QED
    BY <1>2, <1>6, <2>3, <2>4, <2>5 DEF Loop
<1>8. Len(cells) \in 0..Len(cells)
  BY <1>1
<1>9. woken[Len(cells)] = f[Len(cells)]
  BY <1>7, <1>8
<1>10. QED
  BY <1>2, <1>5, <1>9

\* What waking a list comes to: its nodes that have not retired are queued, at
\* the end of the ready queue, and a list of one node's cells queues it once.
LEMMA WakeAllIs ==
    ASSUME NEW r \in Rotations, NEW cells \in Seq(Thread), retired \in [Thread -> BOOLEAN]
    PROVE  /\ WakeAll(r, cells) \in Rotations
           /\ WakeAll(r, cells).owner = r.owner
           /\ \A m \in Thread : WakeAll(r, cells).queued[m]
                                    <=> r.queued[m] \/ (Within(m, cells) /\ ~retired[m])
           /\ \A m \in Thread : Within(m, r.ready) => Within(m, WakeAll(r, cells).ready)
           /\ \A m \in Thread : Within(m, WakeAll(r, cells).ready)
                                    => Within(m, r.ready) \/ Within(m, cells)
           /\ \A m \in Thread : WakeAll(r, cells).queued[m] /\ ~r.queued[m]
                                    => Within(m, WakeAll(r, cells).ready)
           /\ Len(WakeAll(r, cells).ready) - Len(r.ready) \in Nat
           /\ cells = <<>> => WakeAll(r, cells) = r
           /\ \A p \in Thread : (\A i \in 1..Len(cells) : cells[i] = p)
                                    => Len(WakeAll(r, cells).ready) - Len(r.ready) <= 1
<1>1. PICK f : Loop(f, r, cells, Len(cells)) /\ WakeAll(r, cells) = f[Len(cells)]
  BY WakeAllLoops
<1>2. /\ Len(cells) \in Nat /\ Len(r.ready) \in Nat
      /\ \A i \in 1..Len(cells) : cells[i] \in Thread /\ i - 1 \in 0..Len(cells) /\ i \in 0..Len(cells)
  BY LenProperties, ElementOfSeq DEF Rotations
<1>3. /\ f[0] = r
      /\ \A i \in 0..Len(cells) : f[i] \in Rotations /\ Len(f[i].ready) \in Nat
      /\ \A i \in 1..Len(cells) : f[i] = WakeOne(f[i - 1], cells[i])
  <2>1. \A i \in 0..Len(cells) : f[i] \in Rotations
    BY <1>1 DEF Loop
  <2>2. \A i \in 0..Len(cells) : f[i].ready \in Seq(Thread)
    BY <2>1 DEF Rotations
  <2>3. \A i \in 0..Len(cells) : Len(f[i].ready) \in Nat
    BY <2>2, LenProperties
  <2>4. QED
    BY <1>1, <2>1, <2>3 DEF Loop
<1> DEFINE Upto(m, n) == \E i \in 1..n : cells[i] = m
           Same(p) == \A i \in 1..Len(cells) : cells[i] = p
           Right(n) ==
             /\ f[n].owner = r.owner
             /\ \A m \in Thread : f[n].queued[m] <=> r.queued[m] \/ (Upto(m, n) /\ ~retired[m])
             /\ \A m \in Thread : Within(m, r.ready) => Within(m, f[n].ready)
             /\ \A m \in Thread : Within(m, f[n].ready) => Within(m, r.ready) \/ Upto(m, n)
             /\ \A m \in Thread : f[n].queued[m] /\ ~r.queued[m] => Within(m, f[n].ready)
             /\ Len(r.ready) <= Len(f[n].ready)
             /\ \A p \in Thread : Same(p) =>
                  /\ Len(f[n].ready) <= Len(r.ready) + 1
                  /\ n = 0 => Len(f[n].ready) = Len(r.ready)
                  /\ n > 0 => f[n].queued[p] \/ retired[p]
<1>4. Right(0)
  BY <1>2, <1>3
<1>5. ASSUME NEW n \in 1..Len(cells), Right(n - 1) PROVE Right(n)
  <2>1. /\ f[n] = WakeOne(f[n - 1], cells[n]) /\ f[n - 1] \in Rotations /\ cells[n] \in Thread
        /\ Len(f[n - 1].ready) \in Nat /\ Len(f[n].ready) \in Nat /\ n \in Nat /\ n > 0
    BY <1>2, <1>3
  <2> DEFINE g == f[n - 1]
             x == cells[n]
  <2>2. /\ f[n].owner = g.owner
        /\ \A m \in Thread : f[n].queued[m] <=> g.queued[m] \/ (m = x /\ ~retired[x])
        /\ \A m \in Thread : Within(m, g.ready) => Within(m, f[n].ready)
        /\ \A m \in Thread : Within(m, f[n].ready) => Within(m, g.ready) \/ m = x
        /\ \A m \in Thread : f[n].queued[m] /\ ~g.queued[m] => Within(m, f[n].ready)
        /\ g.queued[x] \/ retired[x] => f[n] = g
        /\ Len(f[n].ready) \in {Len(g.ready), Len(g.ready) + 1}
    <3>1. f[n] = WakeOne(g, x) /\ g \in Rotations /\ x \in Thread
      BY <2>1
    <3> HIDE DEF g, x
    <3>2. /\ WakeOne(g, x).owner = g.owner
          /\ \A m \in Thread : WakeOne(g, x).queued[m] <=> g.queued[m] \/ (m = x /\ ~retired[x])
          /\ \A m \in Thread : Within(m, g.ready) => Within(m, WakeOne(g, x).ready)
          /\ \A m \in Thread : Within(m, WakeOne(g, x).ready) => Within(m, g.ready) \/ m = x
          /\ \A m \in Thread : WakeOne(g, x).queued[m] /\ ~g.queued[m] => Within(m, WakeOne(g, x).ready)
          /\ g.queued[x] \/ retired[x] => WakeOne(g, x) = g
          /\ Len(WakeOne(g, x).ready) \in {Len(g.ready), Len(g.ready) + 1}
      <4>1. retired \in [Thread -> BOOLEAN]
        OBVIOUS
      <4>2. g \in Rotations /\ x \in Thread
        BY <3>1
      <4> QED BY ONLY <4>1, <4>2, WakeOneIs
    <3>3. QED
      BY <3>1, <3>2
  <2>3. \A m : Upto(m, n) <=> Upto(m, n - 1) \/ m = x
    <3>1. \A i \in 1..n : i \in 1..(n - 1) \/ i = n
      BY <2>1
    <3>2. \A i \in 1..(n - 1) : i \in 1..n
      BY <2>1
    <3>3. n \in 1..n
      BY <2>1
    <3>4. QED
      BY <3>1, <3>2, <3>3
  <2>4. /\ g.owner = r.owner
        /\ \A m \in Thread : g.queued[m] <=> r.queued[m] \/ (Upto(m, n - 1) /\ ~retired[m])
        /\ \A m \in Thread : Within(m, r.ready) => Within(m, g.ready)
        /\ \A m \in Thread : Within(m, g.ready) => Within(m, r.ready) \/ Upto(m, n - 1)
        /\ \A m \in Thread : g.queued[m] /\ ~r.queued[m] => Within(m, g.ready)
        /\ Len(r.ready) <= Len(g.ready)
        /\ \A p \in Thread : Same(p) =>
             /\ Len(g.ready) <= Len(r.ready) + 1
             /\ n - 1 = 0 => Len(g.ready) = Len(r.ready)
             /\ n - 1 > 0 => g.queued[p] \/ retired[p]
    BY <1>5
  <2>5. \A p \in Thread : Same(p) => x = p
    BY <2>1
  <2> HIDE DEF g, x, Upto, Same
  <2>6. \A m \in Thread : f[n].queued[m] <=> r.queued[m] \/ (Upto(m, n) /\ ~retired[m])
    BY <2>2, <2>3, <2>4
  <2>7. /\ \A m \in Thread : Within(m, r.ready) => Within(m, f[n].ready)
        /\ \A m \in Thread : Within(m, f[n].ready) => Within(m, r.ready) \/ Upto(m, n)
        /\ \A m \in Thread : f[n].queued[m] /\ ~r.queued[m] => Within(m, f[n].ready)
    BY <2>2, <2>3, <2>4
  <2>8. Len(g.ready) \in Nat
    BY <2>1 DEF g
  <2>9. Len(r.ready) <= Len(f[n].ready)
    <3>1. Len(r.ready) \in Nat
      BY <1>2
    <3>2. Len(r.ready) <= Len(g.ready) /\ Len(f[n].ready) \in {Len(g.ready), Len(g.ready) + 1}
      BY <2>2, <2>4
    <3>3. \A a, b, c \in Nat : a <= b /\ c \in {b, b + 1} => a <= c
      OBVIOUS
    <3> QED BY ONLY <2>1, <2>8, <3>1, <3>2, <3>3
  <2>10. ASSUME NEW p \in Thread, Same(p)
         PROVE  /\ Len(f[n].ready) <= Len(r.ready) + 1
                /\ f[n].queued[p] \/ retired[p]
    <3>1. x = p
      BY <2>5, <2>10
    <3>2. f[n].queued[p] \/ retired[p]
      BY <2>2, <3>1
    <3>3. CASE n - 1 = 0
      <4>1. Len(g.ready) = Len(r.ready) /\ Len(f[n].ready) \in {Len(g.ready), Len(g.ready) + 1}
        BY <2>2, <2>4, <2>10, <3>3
      <4>2. QED
        BY <2>8, <3>2, <4>1
    <3>4. CASE n - 1 > 0
      <4>1. f[n] = g
        BY <2>2, <2>4, <2>10, <3>1, <3>4
      <4>2. QED
        BY <2>4, <2>10, <3>2, <4>1
    <3>5. QED
      BY <2>1, <3>3, <3>4
  <2>11. f[n].owner = r.owner /\ n # 0
    BY <2>1, <2>2, <2>4
  <2>12. QED
    BY <2>6, <2>7, <2>9, <2>10, <2>11
<1>6. Right(Len(cells))
  <2> DEFINE T == {n \in 0..Len(cells) : ~Right(n)}
  <2> HIDE DEF Right
  <2>1. T = {}
    <3> SUFFICES ASSUME T # {} PROVE FALSE
      OBVIOUS
    <3>1. T \in SUBSET Nat
      BY <1>2
    <3>2. PICK n \in T : \A m \in T : n <= m
      BY <3>1, LeastElement
    <3>3. n \in 0..Len(cells) /\ ~Right(n) /\ n # 0
      BY <1>4, <3>2
    <3>4. n \in 1..Len(cells) /\ n - 1 \in 0..Len(cells) /\ ~(n <= n - 1)
      BY <1>2, <3>3
    <3>5. Right(n - 1)
      BY <3>2, <3>4
    <3>6. QED
      BY <1>5, <3>3, <3>4, <3>5
  <2>2. Len(cells) \in 0..Len(cells)
    BY <1>2
  <2>3. QED
    BY <2>1, <2>2
<1>7. Len(cells) \in 0..Len(cells)
  BY <1>2
<1>8. \A m \in Thread : Upto(m, Len(cells)) <=> Within(m, cells)
  BY DEF Within
<1>9. WakeAll(r, cells) \in Rotations /\ Len(WakeAll(r, cells).ready) \in Nat
  BY <1>1, <1>3, <1>7
<1>10. Len(WakeAll(r, cells).ready) - Len(r.ready) \in Nat
  BY <1>1, <1>2, <1>6, <1>9
<1>11. cells = <<>> => WakeAll(r, cells) = r
  BY <1>1, <1>3
<1>12. \A p \in Thread : Same(p) => Len(WakeAll(r, cells).ready) - Len(r.ready) <= 1
  BY <1>1, <1>2, <1>6, <1>9
<1>13. QED
  BY <1>1, <1>6, <1>8, <1>9, <1>10, <1>11, <1>12

\* hl_det_pass_locked: the baton goes to a node that has not gone, and nobody
\* else who was queued is forgotten; it goes to nobody only if nobody was queued.
LEMMA PassIs ==
    ASSUME NEW r \in Rotations, NEW gone \in [Thread -> BOOLEAN],
           \A m \in Thread : r.queued[m] /\ ~gone[m] => Within(m, r.ready)
    PROVE  /\ Pass(r, gone) \in Rotations
           /\ Pass(r, gone).owner # Nil
                => ~gone[Pass(r, gone).owner] /\ Within(Pass(r, gone).owner, r.ready)
           /\ Pass(r, gone).owner = Nil => Pass(r, gone).ready = <<>>
           /\ \A m \in Thread : Within(m, Pass(r, gone).ready) => Within(m, r.ready)
           /\ \A m \in Thread : Pass(r, gone).queued[m] /\ ~gone[m] => Within(m, Pass(r, gone).ready)
           /\ \A m \in Thread : r.queued[m] /\ ~gone[m]
                => Pass(r, gone).queued[m] \/ Pass(r, gone).owner = m
<1> DEFINE live == {i \in DOMAIN r.ready : ~gone[r.ready[i]]}
<1>1. /\ r.ready \in Seq(Thread) /\ r.queued \in [Thread -> BOOLEAN] /\ Len(r.ready) \in Nat
      /\ DOMAIN r.ready = 1..Len(r.ready)
      /\ \A i \in 1..Len(r.ready) : r.ready[i] \in Thread
  BY LenProperties, ElementOfSeq DEF Rotations
<1>2. CASE live = {}
  <2>1. Pass(r, gone) = [owner |-> Nil, ready |-> <<>>, queued |-> r.queued]
    BY <1>2 DEF Pass
  <2>2. \A m \in Thread : ~(r.queued[m] /\ ~gone[m])
    BY <1>1, <1>2 DEF Within
  <2>3. <<>> \in Seq(Thread) /\ Len(<<>>) = 0
    BY EmptySeq
  <2>4. [owner |-> Nil, ready |-> <<>>, queued |-> r.queued] \in Rotations
    BY <1>1, <2>3 DEF Rotations
  <2>5. \A m : ~Within(m, <<>>)
    BY <2>3 DEF Within
  <2>6. QED
    BY <2>1, <2>2, <2>4, <2>5
<1>3. CASE live # {}
  <2> DEFINE i == CHOOSE j \in live : \A k \in live : j <= k
             rest == SubSeq(r.ready, i + 1, Len(r.ready))
             next == r.ready[i]
  <2>1. live \in SUBSET Nat
    BY <1>1
  <2>2. i \in live /\ \A k \in live : i <= k
    BY <1>3, <2>1, LeastElement
  <2>3. Pass(r, gone) = [owner |-> next, ready |-> rest, queued |-> [r.queued EXCEPT ![next] = FALSE]]
    BY <1>3 DEF Pass
  <2> HIDE DEF i
  <2>4. i \in 1..Len(r.ready) /\ next \in Thread /\ ~gone[next]
    BY <1>1, <2>2
  <2>5. /\ rest \in Seq(Thread) /\ Len(rest) = Len(r.ready) - i
        /\ \A j \in 1..(Len(r.ready) - i) : rest[j] = r.ready[i + j]
    <3>1. i + 1 \in Int /\ Len(r.ready) \in Int /\ \A j \in (i + 1)..Len(r.ready) : r.ready[j] \in Thread
      BY <1>1, <2>4
    <3>2. /\ rest \in Seq(Thread)
          /\ Len(rest) = IF i + 1 <= Len(r.ready) THEN Len(r.ready) - (i + 1) + 1 ELSE 0
          /\ \A j \in 1..(Len(r.ready) - (i + 1) + 1) : rest[j] = r.ready[(i + 1) + j - 1]
      BY <3>1, SubSeqProperties
    <3>3. \A j \in 1..(Len(r.ready) - i) : j \in 1..(Len(r.ready) - (i + 1) + 1) /\ (i + 1) + j - 1 = i + j
      BY <1>1, <2>4
    <3>4. QED
      BY <1>1, <2>4, <3>2, <3>3
  <2>6. \A m \in Thread : Within(m, rest) => Within(m, r.ready)
    <3>1. \A j \in 1..(Len(r.ready) - i) : i + j \in 1..Len(r.ready)
      BY <1>1, <2>4
    <3>2. QED
      BY <2>5, <3>1 DEF Within
  <2>7. \A m \in Thread : Within(m, r.ready) /\ ~gone[m] /\ m # next => Within(m, rest)
    <3> SUFFICES ASSUME NEW m \in Thread, Within(m, r.ready), ~gone[m], m # next
                 PROVE  Within(m, rest)
      OBVIOUS
    <3>1. PICK j \in 1..Len(r.ready) : r.ready[j] = m
      BY DEF Within
    <3>2. j \in live /\ j # i
      BY <1>1, <3>1
    <3>3. j - i \in 1..(Len(r.ready) - i) /\ i + (j - i) = j
      <4>1. Len(r.ready) \in Nat /\ i \in Nat /\ j \in Nat /\ j <= Len(r.ready)
        BY <1>1, <2>4
      <4>2. i <= j /\ j # i
        BY <2>2, <3>2
      <4> QED BY <4>1, <4>2
    <3>4. rest[j - i] = m /\ j - i \in 1..Len(rest)
      BY <2>5, <3>1, <3>3
    <3>5. QED
      BY <3>4 DEF Within
  <2>8. Within(next, r.ready)
    BY <2>4 DEF Within
  <2> HIDE DEF rest, next
  <2>9. [owner |-> next, ready |-> rest, queued |-> [r.queued EXCEPT ![next] = FALSE]] \in Rotations
    BY <1>1, <2>4, <2>5 DEF Rotations
  <2>10. /\ Pass(r, gone).owner = next /\ Pass(r, gone).ready = rest
         /\ Pass(r, gone).queued = [r.queued EXCEPT ![next] = FALSE]
    BY <2>3
  <2>11. \A m \in Thread : Pass(r, gone).queued[m] <=> r.queued[m] /\ m # next
    BY <1>1, <2>10
  <2>12. next # Nil
    BY <2>4
  <2>13. QED
    BY <2>12, <2>3, <2>4, <2>6, <2>7, <2>8, <2>9, <2>10, <2>11
<1>4. QED
  BY <1>2, <1>3

\* hl_det_yield.
LEMMA YieldIs ==
    ASSUME NEW r \in Rotations, NEW n \in Thread, retired \in [Thread -> BOOLEAN],
           \A m \in Thread : r.queued[m] /\ ~retired[m] => Within(m, r.ready)
    PROVE  /\ Yield(r, n) \in Rotations
           /\ Yield(r, n).owner # Nil
                => ~retired[Yield(r, n).owner]
                   /\ (Within(Yield(r, n).owner, r.ready) \/ Yield(r, n).owner = n)
           /\ Yield(r, n).owner = Nil => Yield(r, n).ready = <<>>
           /\ \A m \in Thread : Within(m, Yield(r, n).ready) => Within(m, r.ready) \/ m = n
           /\ \A m \in Thread : Yield(r, n).queued[m] /\ ~retired[m] => Within(m, Yield(r, n).ready)
           /\ \A m \in Thread : (r.queued[m] \/ m = n) /\ ~retired[m]
                => Yield(r, n).queued[m] \/ Yield(r, n).owner = m
<1> DEFINE p == Push(r, n)
<1>1. /\ p \in Rotations /\ p.ready = Append(r.ready, n)
      /\ \A m \in Thread : p.queued[m] <=> r.queued[m] \/ m = n
  BY PushIs
<1>2. r.ready \in Seq(Thread)
  BY DEF Rotations
<1>3. \A m \in Thread : Within(m, p.ready) <=> Within(m, r.ready) \/ m = n
  BY <1>1, <1>2, WithinAppend
<1>4. Yield(r, n) = Pass(p, retired)
  BY DEF Yield
<1> HIDE DEF p
<1>5. \A m \in Thread : p.queued[m] /\ ~retired[m] => Within(m, p.ready)
  BY <1>1, <1>3
<1>6. /\ Pass(p, retired) \in Rotations
      /\ Pass(p, retired).owner # Nil
           => ~retired[Pass(p, retired).owner] /\ Within(Pass(p, retired).owner, p.ready)
      /\ Pass(p, retired).owner = Nil => Pass(p, retired).ready = <<>>
      /\ \A m \in Thread : Within(m, Pass(p, retired).ready) => Within(m, p.ready)
      /\ \A m \in Thread : Pass(p, retired).queued[m] /\ ~retired[m]
           => Within(m, Pass(p, retired).ready)
      /\ \A m \in Thread : p.queued[m] /\ ~retired[m]
           => Pass(p, retired).queued[m] \/ Pass(p, retired).owner = m
  BY <1>1, <1>5, PassIs
<1>7. Pass(p, retired).owner # Nil => Pass(p, retired).owner \in Thread
  BY <1>6 DEF Rotations
<1>8. QED
  BY <1>1, <1>3, <1>4, <1>6, <1>7

-----------------------------------------------------------------------------
(* Requests *)

\* The fields of a request, by its kind.
LEMMA RequestShape ==
    ASSUME NEW r \in Requests
    PROVE  /\ r.kind \in {"send", "recv", "select", "join"}
           /\ r.chs \in SUBSET Chan
           /\ r.kind = "send" => r.val \in Val /\ \E c \in Chan : r.chs = {c}
           /\ r.kind = "recv" => \E c \in Chan : r.chs = {c}
           /\ r.kind = "select" => r.chs # {}
           /\ r.kind = "join" => r.task \in Task
           /\ r # NoReq
BY DEF Requests, SendReqs, RecvReqs, SelectReqs, JoinReqs, SendReq, RecvReq,
       SelectReq, JoinReq, NoReq, Request

\* The requests the operations make.
LEMMA RequestsMade ==
    /\ \A c \in Chan : RecvReq(c) \in Requests /\ RecvReq(c).kind = "recv"
    /\ \A c \in Chan : \A v \in Carries[c] : SendReq(c, v) \in Requests /\ SendReq(c, v).kind = "send"
    /\ \A S \in (SUBSET Chan) \ {{}} : SelectReq(S) \in Requests /\ SelectReq(S).kind = "select"
    /\ \A k \in Task : JoinReq(k) \in Requests /\ JoinReq(k).kind = "join" /\ JoinReq(k).task = k
<1>1. \A c \in Chan : RecvReq(c) \in Requests /\ RecvReq(c).kind = "recv"
  BY DEF Requests, RecvReqs, RecvReq, Request
<1>2. \A c \in Chan : \A v \in Carries[c] : SendReq(c, v) \in Requests /\ SendReq(c, v).kind = "send"
  <2>1. \A c \in Chan : \A v \in Carries[c] : SendReq(c, v) \in SendReqs
    <3> SUFFICES ASSUME NEW c \in Chan, NEW v \in Carries[c]
                 PROVE  SendReq(c, v) \in {SendReq(c, w) : w \in Carries[c]}
      BY DEF SendReqs
    <3> QED OBVIOUS
  <2>2. \A c \in Chan : \A v \in Carries[c] : SendReq(c, v).kind = "send"
    BY DEF SendReq, Request
  <2> QED BY <2>1, <2>2, Zenon DEF Requests
<1>3. \A S \in (SUBSET Chan) \ {{}} : SelectReq(S) \in Requests /\ SelectReq(S).kind = "select"
  BY DEF Requests, SelectReqs, SelectReq, Request
<1>4. \A k \in Task : JoinReq(k) \in Requests /\ JoinReq(k).kind = "join" /\ JoinReq(k).task = k
  BY DEF Requests, JoinReqs, JoinReq, Request
<1> QED BY <1>1, <1>2, <1>3, <1>4

\* What each kind of request waits for.
LEMMA ReadyCases ==
    ASSUME NEW r \in Requests
    PROVE  /\ r.kind = "send" => (ReadyFor(r, queue, done) <=> \A c \in r.chs : ~FullAt(c, Len(queue[c])))
           /\ r.kind = "recv" => (ReadyFor(r, queue, done) <=> \A c \in r.chs : queue[c] # <<>>)
           /\ r.kind = "select" => (ReadyFor(r, queue, done) <=> \E c \in r.chs : queue[c] # <<>>)
           /\ r.kind = "join" => (ReadyFor(r, queue, done) <=> done[r.task])
<1>1. CASE r.kind = "send"
  BY <1>1 DEF ReadyFor
<1>2. CASE r.kind = "recv"
  BY <1>2 DEF ReadyFor
<1>3. CASE r.kind = "select"
  BY <1>3 DEF ReadyFor
<1>4. CASE r.kind = "join"
  BY <1>4 DEF ReadyFor
<1>5. QED
  BY <1>1, <1>2, <1>3, <1>4, RequestShape

-----------------------------------------------------------------------------
(* The invariant *)

\* Everything but the verdict.
StateOK ==
    /\ rot \in Rotations
    /\ retired \in [Thread -> BOOLEAN]
    /\ recv_list \in [Chan -> Seq(Thread)]
    /\ send_list \in [Chan -> Seq(Thread)]
    /\ join_list \in [Thread -> Seq(Thread)]
    /\ join_live \in Nat
    /\ req \in [Thread -> Requests \cup {NoReq}]
    /\ queue \in [Chan -> Seq(Val)]
    /\ kind \in [Thread -> {"task", "async"}]
    /\ parent \in [Thread -> Thread \cup {Nil}]
    /\ done \in [Thread -> BOOLEAN]
    /\ joined \in [Thread -> BOOLEAN]

DetTypeOK == StateOK /\ halted \in {"no", "deadlock", "panic", "exit"}

\* The owner of the baton can run, and there is one while anybody is queued.
OwnerLives ==
    /\ rot.owner # Nil => Born(rot.owner) /\ ~retired[rot.owner]
    /\ rot.owner = Nil => rot.ready = <<>>

\* Who is marked as queued is in the ready queue.  The converse fails: a cell a
\* select left behind can queue the node a second time while it runs.
QueuedAreReady == \A n \in Thread : rot.queued[n] /\ ~retired[n] => Within(n, rot.ready)

\* Nodes are queued and listed only once they exist.
ListedAreBorn ==
    \A n \in Thread :
        /\ Within(n, rot.ready) => Born(n)
        /\ \A c \in Chan : Within(n, recv_list[c]) \/ Within(n, send_list[c]) => Born(n)
        /\ \A k \in Thread : Within(n, join_list[k]) => Born(n)

\* A list with cells on it is the list of something that has not happened.
NothingMissed ==
    /\ \A c \in Chan : recv_list[c] # <<>> => queue[c] = <<>>
    /\ \A c \in Chan : send_list[c] # <<>> => FullAt(c, Len(queue[c]))
    /\ \A k \in Thread : join_list[k] # <<>> => ~done[k]

\* A node that will not get its turn by itself has a cell on the list of
\* everything that its request waits for.
Listed(n) ==
    /\ req[n] # NoReq
    /\ req[n].kind \in {"recv", "select"} => \A c \in req[n].chs : Within(n, recv_list[c])
    /\ req[n].kind = "send" => \A c \in req[n].chs : Within(n, send_list[c])
    /\ req[n].kind = "join" => Within(n, join_list[req[n].task])

ParkedAreListed ==
    \A n \in Thread : Born(n) /\ ~retired[n] /\ n # rot.owner /\ ~rot.queued[n] => Listed(n)

\* Only the spawner of a task waits for it.
JoinersAreParents ==
    /\ \A k, n \in Thread : Within(n, join_list[k]) => parent[k] = n
    /\ \A n \in Thread : req[n].kind = "join" => parent[req[n].task] = n

\* The count of joiners, which a spurious turn may raise but no wake-up lowers
\* twice, is not below the number of tasks that are waited for.
Awaited == {k \in Thread : join_list[k] # <<>>}
JoinersCounted == join_live >= Cardinality(Awaited)

UnbornAreFresh ==
    /\ \A n \in Thread : ~Born(n) => req[n] = NoReq /\ ~retired[n]
    /\ ~retired[Main]

Rotation ==
    /\ OwnerLives
    /\ QueuedAreReady
    /\ ListedAreBorn
    /\ NothingMissed
    /\ ParkedAreListed
    /\ JoinersAreParents
    /\ JoinersCounted
    /\ UnbornAreFresh

DetInv == DetTypeOK /\ (halted = "no" => Rotation)

\* A turn that ends at the tail of the ready queue, whatever list it woke.
LEMMA TurnIs ==
    ASSUME StateOK, Rotation, NEW n \in Thread, rot.owner = n, NEW cells \in Seq(Thread),
           rot' = Yield(WakeAll(rot, cells), n)
    PROVE  /\ rot' \in Rotations
           /\ rot'.owner # Nil
                => ~retired[rot'.owner]
                   /\ (Within(rot'.owner, rot.ready) \/ Within(rot'.owner, cells) \/ rot'.owner = n)
           /\ rot'.owner = Nil => rot'.ready = <<>>
           /\ \A m \in Thread : Within(m, rot'.ready) => Within(m, rot.ready) \/ Within(m, cells) \/ m = n
           /\ \A m \in Thread : rot'.queued[m] /\ ~retired[m] => Within(m, rot'.ready)
           /\ \A m \in Thread : ~retired[m] /\ m # rot'.owner /\ ~rot'.queued[m]
                => m # rot.owner /\ ~rot.queued[m] /\ ~Within(m, cells)
<1> DEFINE w == WakeAll(rot, cells)
<1>1. rot \in Rotations /\ retired \in [Thread -> BOOLEAN]
  BY DEF StateOK
<1>2. /\ w \in Rotations
      /\ \A m \in Thread : w.queued[m] <=> rot.queued[m] \/ (Within(m, cells) /\ ~retired[m])
      /\ \A m \in Thread : Within(m, rot.ready) => Within(m, w.ready)
      /\ \A m \in Thread : Within(m, w.ready) => Within(m, rot.ready) \/ Within(m, cells)
      /\ \A m \in Thread : w.queued[m] /\ ~rot.queued[m] => Within(m, w.ready)
  BY <1>1, WakeAllIs
<1>3. rot' = Yield(w, n)
  OBVIOUS
<1> HIDE DEF w
<1>4. \A m \in Thread : w.queued[m] /\ ~retired[m] => Within(m, w.ready)
  BY <1>2 DEF Rotation, QueuedAreReady
<1>5. /\ Yield(w, n) \in Rotations
      /\ Yield(w, n).owner # Nil
           => ~retired[Yield(w, n).owner]
              /\ (Within(Yield(w, n).owner, w.ready) \/ Yield(w, n).owner = n)
      /\ Yield(w, n).owner = Nil => Yield(w, n).ready = <<>>
      /\ \A m \in Thread : Within(m, Yield(w, n).ready) => Within(m, w.ready) \/ m = n
      /\ \A m \in Thread : Yield(w, n).queued[m] /\ ~retired[m] => Within(m, Yield(w, n).ready)
      /\ \A m \in Thread : (w.queued[m] \/ m = n) /\ ~retired[m]
           => Yield(w, n).queued[m] \/ Yield(w, n).owner = m
  BY <1>1, <1>2, <1>4, YieldIs
<1>6. Yield(w, n).owner # Nil => Yield(w, n).owner \in Thread
  BY <1>5 DEF Rotations
<1>7. QED
  BY <1>2, <1>3, <1>5, <1>6

\* A turn whose lists only lose the cells it woke keeps the rotation right, if
\* it leaves no list behind whose event has come.
LEMMA TurnKeeps ==
    ASSUME StateOK, Rotation, NEW n \in Thread, rot.owner = n, NEW cells \in Seq(Thread),
           rot' = Yield(WakeAll(rot, cells), n),
           UNCHANGED <<retired, join_list, join_live, kind, parent, done>>,
           req' = [req EXCEPT ![n] = NoReq],
           \A m \in Thread : Within(m, cells) => Born(m),
           \A c \in Chan : recv_list'[c] \in {recv_list[c], <<>>} /\ send_list'[c] \in {send_list[c], <<>>},
           \A c \in Chan, m \in Thread :
               (Within(m, recv_list[c]) /\ recv_list'[c] # recv_list[c])
               \/ (Within(m, send_list[c]) /\ send_list'[c] # send_list[c]) => Within(m, cells),
           NothingMissed'
    PROVE  Rotation'
<1>1. /\ rot' \in Rotations
      /\ rot'.owner # Nil
           => ~retired[rot'.owner]
              /\ (Within(rot'.owner, rot.ready) \/ Within(rot'.owner, cells) \/ rot'.owner = n)
      /\ rot'.owner = Nil => rot'.ready = <<>>
      /\ \A m \in Thread : Within(m, rot'.ready) => Within(m, rot.ready) \/ Within(m, cells) \/ m = n
      /\ \A m \in Thread : rot'.queued[m] /\ ~retired[m] => Within(m, rot'.ready)
      /\ \A m \in Thread : ~retired[m] /\ m # rot'.owner /\ ~rot'.queued[m]
           => m # rot.owner /\ ~rot.queued[m] /\ ~Within(m, cells)
  BY TurnIs
<1>2. \A m \in Thread : Born(m)' <=> Born(m)
  BY DEF Born
<1>3. Born(n) /\ ~retired[n]
  BY DEF Rotation, OwnerLives
<1>4. \A m : ~Within(m, <<>>)
  BY EmptySeq DEF Within
<1>5. OwnerLives'
  <2>1. rot'.owner # Nil => rot'.owner \in Thread
    BY <1>1 DEF Rotations
  <2>2. rot'.owner # Nil => Born(rot'.owner)
    BY <1>1, <1>3, <2>1 DEF Rotation, ListedAreBorn
  <2>3. rot'.owner # Nil => (rot'.owner = Main \/ parent'[rot'.owner] # Nil)
    BY <2>2 DEF Born
  <2>4. QED
    BY <1>1, <2>3 DEF OwnerLives, Born
<1>6. QueuedAreReady'
  BY <1>1 DEF QueuedAreReady
<1>7. ListedAreBorn'
  <2>1. ASSUME NEW m \in Thread, Within(m, rot'.ready) PROVE Born(m)
    BY <1>1, <1>3, <2>1 DEF Rotation, ListedAreBorn
  <2>2. ASSUME NEW m \in Thread, NEW c \in Chan,
               Within(m, recv_list'[c]) \/ Within(m, send_list'[c])
        PROVE  Born(m)
    <3>1. Within(m, recv_list[c]) \/ Within(m, send_list[c])
      BY <1>4, <2>2
    <3> QED BY <3>1 DEF Rotation, ListedAreBorn
  <2>3. ASSUME NEW m \in Thread, NEW k \in Thread, Within(m, join_list'[k]) PROVE Born(m)
    BY <2>3 DEF Rotation, ListedAreBorn
  <2> QED BY <1>2, <2>1, <2>2, <2>3 DEF ListedAreBorn
<1>8. ParkedAreListed'
  <2> SUFFICES ASSUME NEW m \in Thread, Born(m)', ~retired'[m], m # rot'.owner, ~rot'.queued[m]
               PROVE  Listed(m)'
    BY DEF ParkedAreListed
  <2>1. Listed(m) /\ m # n /\ ~Within(m, cells)
    BY <1>1, <1>2 DEF Rotation, ParkedAreListed
  <2>2. req'[m] = req[m]
    BY <2>1 DEF StateOK
  <2>3. \A c \in Chan : /\ Within(m, recv_list[c]) => Within(m, recv_list'[c])
                        /\ Within(m, send_list[c]) => Within(m, send_list'[c])
    BY <2>1
  <2>4. req[m] \in Requests /\ req[m].chs \in SUBSET Chan
    BY <2>1, RequestShape DEF Listed, StateOK
  <2>5. QED
    BY <2>1, <2>2, <2>3, <2>4 DEF Listed
<1>9. JoinersAreParents'
  <2>1. \A m \in Thread : req'[m] = req[m] \/ req'[m] = NoReq
    BY DEF StateOK
  <2>2. NoReq.kind # "join"
    BY DEF NoReq, Request
  <2>3. QED
    BY <2>1, <2>2 DEF Rotation, JoinersAreParents
<1>10. JoinersCounted'
  BY DEF Rotation, JoinersCounted, Awaited
<1>11. UnbornAreFresh'
  BY <1>2 DEF Rotation, UnbornAreFresh, StateOK
<1>12. QED
  BY <1>5, <1>6, <1>7, <1>8, <1>9, <1>10, <1>11 DEF Rotation

\* A turn that ends with the baton going on and the owner not in the queue: it
\* parks or retires, and wakes a list first.
LEMMA LeaveIs ==
    ASSUME StateOK, Rotation, NEW n \in Thread, rot.owner = n, NEW cells \in Seq(Thread),
           NEW gone \in [Thread -> BOOLEAN],
           \A m \in Thread : (retired[m] => gone[m]) /\ (gone[m] => retired[m] \/ m = n),
           rot' = Pass(WakeAll(rot, cells), gone)
    PROVE  /\ rot' \in Rotations
           /\ rot'.owner # Nil
                => ~gone[rot'.owner] /\ (Within(rot'.owner, rot.ready) \/ Within(rot'.owner, cells))
           /\ rot'.owner = Nil => rot'.ready = <<>>
           /\ \A m \in Thread : Within(m, rot'.ready) => Within(m, rot.ready) \/ Within(m, cells)
           /\ \A m \in Thread : rot'.queued[m] /\ ~gone[m] => Within(m, rot'.ready)
           /\ \A m \in Thread : ~gone[m] /\ m # rot'.owner /\ ~rot'.queued[m]
                => ~rot.queued[m] /\ ~Within(m, cells)
<1> DEFINE w == WakeAll(rot, cells)
<1>1. rot \in Rotations /\ retired \in [Thread -> BOOLEAN]
  BY DEF StateOK
<1>2. /\ w \in Rotations
      /\ \A m \in Thread : w.queued[m] <=> rot.queued[m] \/ (Within(m, cells) /\ ~retired[m])
      /\ \A m \in Thread : Within(m, rot.ready) => Within(m, w.ready)
      /\ \A m \in Thread : Within(m, w.ready) => Within(m, rot.ready) \/ Within(m, cells)
      /\ \A m \in Thread : w.queued[m] /\ ~rot.queued[m] => Within(m, w.ready)
  BY <1>1, WakeAllIs
<1>3. rot' = Pass(w, gone)
  OBVIOUS
<1> HIDE DEF w
<1>4. \A m \in Thread : w.queued[m] /\ ~gone[m] => Within(m, w.ready)
  BY <1>2 DEF Rotation, QueuedAreReady
<1>5. /\ Pass(w, gone) \in Rotations
      /\ Pass(w, gone).owner # Nil
           => ~gone[Pass(w, gone).owner] /\ Within(Pass(w, gone).owner, w.ready)
      /\ Pass(w, gone).owner = Nil => Pass(w, gone).ready = <<>>
      /\ \A m \in Thread : Within(m, Pass(w, gone).ready) => Within(m, w.ready)
      /\ \A m \in Thread : Pass(w, gone).queued[m] /\ ~gone[m] => Within(m, Pass(w, gone).ready)
      /\ \A m \in Thread : w.queued[m] /\ ~gone[m]
           => Pass(w, gone).queued[m] \/ Pass(w, gone).owner = m
  BY <1>2, <1>4, PassIs
<1>6. Pass(w, gone).owner # Nil => Pass(w, gone).owner \in Thread
  BY <1>5 DEF Rotations
<1>7. QED
  BY <1>2, <1>3, <1>5, <1>6

-----------------------------------------------------------------------------
(* The turns of the owner *)

\* A list with cells on it, woken: TurnKeeps with one list, or none, emptied.
LEMMA CellsAreBorn ==
    ASSUME StateOK, Rotation
    PROVE  /\ \A c \in Chan : recv_list[c] \in Seq(Thread) /\ send_list[c] \in Seq(Thread)
           /\ \A c \in Chan, m \in Thread : Within(m, recv_list[c]) \/ Within(m, send_list[c]) => Born(m)
           /\ <<>> \in Seq(Thread)
           /\ \A m : ~Within(m, <<>>)
<1>1. <<>> \in Seq(Thread) /\ \A m : ~Within(m, <<>>)
  BY EmptySeq DEF Within
<1>2. QED
  BY <1>1 DEF StateOK, Rotation, ListedAreBorn

\* try_send on a full channel and recv_or on an empty one.
LEMMA JustYieldKeeps ==
    ASSUME StateOK, Rotation, NEW n \in Thread, rot.owner = n, req[n] = NoReq, JustYield(n)
    PROVE  StateOK' /\ Rotation'
<1>1. rot' = Yield(rot, n) /\ UNCHANGED <<retired, lists, join_live, req, queue, tasks, halted>>
  BY DEF JustYield
<1>2. rot \in Rotations /\ retired \in [Thread -> BOOLEAN]
  BY DEF StateOK
<1>3. WakeAll(rot, <<>>) = rot
  BY <1>2, CellsAreBorn, WakeAllIs
<1>4. rot' = Yield(WakeAll(rot, <<>>), n)
  BY <1>1, <1>3
<1>5. rot' \in Rotations
  BY <1>4, CellsAreBorn, TurnIs
<1>6. NothingMissed'
  BY <1>1 DEF Rotation, NothingMissed, lists, tasks
<1>7. req' = [req EXCEPT ![n] = NoReq]
  BY <1>1 DEF StateOK
<1>8. /\ UNCHANGED <<retired, join_list, join_live, kind, parent, done>>
      /\ recv_list' = recv_list /\ send_list' = send_list
  BY <1>1 DEF lists, tasks
<1>9. Rotation'
  BY <1>4, <1>6, <1>7, <1>8, CellsAreBorn, TurnKeeps
<1>10. StateOK'
  BY <1>1, <1>5 DEF StateOK, lists, tasks
<1>11. QED
  BY <1>9, <1>10

\* hl_rt_send: the receivers are woken, and the senders' list was empty since
\* the channel was not full.
LEMMA PerformSendKeeps ==
    ASSUME StateOK, Rotation, NEW n \in Thread, rot.owner = n, NEW r \in Requests,
           r.kind = "send", ReadyFor(r, queue, done), PerformSend(n, r),
           req' = [req EXCEPT ![n] = NoReq],
           UNCHANGED <<retired, join_list, join_live, kind, parent, done>>
    PROVE  StateOK' /\ Rotation'
<1>1. PICK c \in r.chs :
        /\ queue' = [queue EXCEPT ![c] = Append(@, r.val)]
        /\ rot' = Yield(WakeAll(rot, recv_list[c]), n)
        /\ recv_list' = [recv_list EXCEPT ![c] = <<>>]
  BY DEF PerformSend
<1>2. send_list' = send_list /\ joined' = joined
  BY DEF PerformSend
<1>3. c \in Chan /\ r.val \in Val /\ ~FullAt(c, Len(queue[c]))
  BY <1>1, RequestShape, ReadyCases
<1>4. queue' \in [Chan -> Seq(Val)] /\ recv_list' \in [Chan -> Seq(Thread)]
  BY <1>1, <1>3, CellsAreBorn DEF StateOK
<1>5. \A d \in Chan : /\ recv_list'[d] = IF d = c THEN <<>> ELSE recv_list[d]
                      /\ d # c => queue'[d] = queue[d]
  BY <1>1, <1>3 DEF StateOK
<1>6. NothingMissed'
  BY <1>2, <1>3, <1>5 DEF Rotation, NothingMissed
<1>7. Rotation'
  <2>1. \A m \in Thread : Within(m, recv_list[c]) => Born(m)
    BY <1>3, CellsAreBorn
  <2>2. /\ \A d \in Chan : recv_list'[d] \in {recv_list[d], <<>>} /\ send_list'[d] \in {send_list[d], <<>>}
        /\ \A d \in Chan, m \in Thread :
              (Within(m, recv_list[d]) /\ recv_list'[d] # recv_list[d])
              \/ (Within(m, send_list[d]) /\ send_list'[d] # send_list[d]) => Within(m, recv_list[c])
    BY <1>2, <1>5
  <2>3. recv_list[c] \in Seq(Thread)
    BY <1>3, CellsAreBorn
  <2>4. QED
    BY <1>1, <1>6, <2>1, <2>2, <2>3, TurnKeeps
<1>8. rot' \in Rotations
  BY <1>1, <1>3, CellsAreBorn, TurnIs
<1>9. req' \in [Thread -> Requests \cup {NoReq}]
  BY DEF StateOK
<1>10. StateOK'
  BY <1>2, <1>4, <1>8, <1>9 DEF StateOK
<1>11. QED
  BY <1>7, <1>10

\* hl_rt_recv, and hl_rt_select, which takes nothing: the senders are woken,
\* and the receivers' list was empty since the channel was not.
LEMMA PerformTakeKeeps ==
    ASSUME StateOK, Rotation, NEW n \in Thread, rot.owner = n, NEW c \in Chan,
           queue[c] # <<>>, queue' \in {queue, [queue EXCEPT ![c] = Tail(@)]},
           rot' = Yield(WakeAll(rot, send_list[c]), n),
           send_list' = [send_list EXCEPT ![c] = <<>>],
           recv_list' = recv_list, joined' = joined,
           req' = [req EXCEPT ![n] = NoReq],
           UNCHANGED <<retired, join_list, join_live, kind, parent, done>>
    PROVE  StateOK' /\ Rotation'
<1>1. queue' \in [Chan -> Seq(Val)] /\ send_list' \in [Chan -> Seq(Thread)]
  <2>1. queue[c] \in Seq(Val)
    BY DEF StateOK
  <2>2. Tail(queue[c]) \in Seq(Val)
    BY <2>1, HeadTailProperties
  <2>3. <<>> \in Seq(Thread)
    BY CellsAreBorn
  <2>4. send_list' \in [Chan -> Seq(Thread)]
    BY <2>3 DEF StateOK
  <2>5. queue \in [Chan -> Seq(Val)] /\ [queue EXCEPT ![c] = Tail(@)] \in [Chan -> Seq(Val)]
    BY <2>2 DEF StateOK
  <2>6. QED
    BY <2>4, <2>5
<1>2. \A d \in Chan : /\ send_list'[d] = IF d = c THEN <<>> ELSE send_list[d]
                      /\ d # c => queue'[d] = queue[d]
  BY DEF StateOK
<1>3. NothingMissed'
  BY <1>2 DEF Rotation, NothingMissed
<1>4. Rotation'
  <2>1. \A m \in Thread : Within(m, send_list[c]) => Born(m)
    BY CellsAreBorn
  <2>2. /\ \A d \in Chan : recv_list'[d] \in {recv_list[d], <<>>} /\ send_list'[d] \in {send_list[d], <<>>}
        /\ \A d \in Chan, m \in Thread :
              (Within(m, recv_list[d]) /\ recv_list'[d] # recv_list[d])
              \/ (Within(m, send_list[d]) /\ send_list'[d] # send_list[d]) => Within(m, send_list[c])
    BY <1>2
  <2>3. send_list[c] \in Seq(Thread)
    BY CellsAreBorn
  <2>4. QED
    BY <1>3, <2>1, <2>2, <2>3, TurnKeeps
<1>5. rot' \in Rotations
  BY CellsAreBorn, TurnIs
<1>6. req' \in [Thread -> Requests \cup {NoReq}]
  BY DEF StateOK
<1>7. StateOK'
  BY <1>1, <1>5, <1>6 DEF StateOK
<1>8. QED
  BY <1>4, <1>7

\* Whatever operation the owner makes, the rotation stays right.
LEMMA PerformKeeps ==
    ASSUME StateOK, Rotation, NEW n \in Thread, rot.owner = n, NEW r \in Requests,
           ReadyFor(r, queue, done), Perform(n, r), UNCHANGED <<retired, kind, parent, done>>
    PROVE  StateOK' /\ Rotation'
<1>1. /\ req' = [req EXCEPT ![n] = NoReq]
      /\ UNCHANGED <<retired, join_list, join_live, kind, parent, done>>
      /\ r.chs \in SUBSET Chan
  BY RequestShape DEF Perform
<1>2. CASE r.kind = "send" /\ PerformSend(n, r)
  BY <1>1, <1>2, PerformSendKeeps
<1>3. CASE r.kind = "recv" /\ PerformRecv(n, r)
  <2>1. PICK c \in r.chs :
          /\ queue' = [queue EXCEPT ![c] = Tail(@)]
          /\ rot' = Yield(WakeAll(rot, send_list[c]), n)
          /\ send_list' = [send_list EXCEPT ![c] = <<>>]
    BY <1>3 DEF PerformRecv
  <2>2. queue[c] # <<>> /\ c \in Chan
    BY <1>1, <1>3, <2>1, ReadyCases
  <2>3. recv_list' = recv_list /\ joined' = joined
    BY <1>3 DEF PerformRecv
  <2>4. QED
    BY <1>1, <2>1, <2>2, <2>3, PerformTakeKeeps
<1>4. CASE r.kind = "select" /\ PerformSelect(n, r)
  <2>1. PICK c \in r.chs :
          /\ queue[c] # <<>>
          /\ rot' = Yield(WakeAll(rot, send_list[c]), n)
          /\ send_list' = [send_list EXCEPT ![c] = <<>>]
    BY <1>4 DEF PerformSelect
  <2>2. c \in Chan
    BY <1>1, <2>1
  <2>3. recv_list' = recv_list /\ joined' = joined /\ queue' = queue
    BY <1>4 DEF PerformSelect
  <2>4. QED
    BY <1>1, <2>1, <2>2, <2>3, PerformTakeKeeps
<1>5. CASE r.kind = "join" /\ PerformJoin(n, r)
  <2>1. /\ rot' = Yield(rot, n) /\ joined' \in [Thread -> BOOLEAN]
        /\ queue' = queue /\ recv_list' = recv_list /\ send_list' = send_list
    BY <1>5 DEF PerformJoin, StateOK
  <2>2. rot' = Yield(WakeAll(rot, <<>>), n)
    <3>1. WakeAll(rot, <<>>) = rot
      BY CellsAreBorn, WakeAllIs DEF StateOK
    <3>2. QED
      BY <2>1, <3>1
  <2>3. NothingMissed'
    BY <1>1, <2>1 DEF Rotation, NothingMissed
  <2>4. Rotation'
    BY <1>1, <2>1, <2>2, <2>3, CellsAreBorn, TurnKeeps
  <2>5. rot' \in Rotations
    BY <2>2, CellsAreBorn, TurnIs
  <2>6. req' \in [Thread -> Requests \cup {NoReq}]
    BY <1>1 DEF StateOK
  <2>7. StateOK'
    BY <1>1, <2>1, <2>5, <2>6 DEF StateOK
  <2>8. QED
    BY <2>4, <2>7
<1>6. QED
  BY <1>2, <1>3, <1>4, <1>5 DEF Perform

\* hl_rt_park_*: the owner leaves with a cell on every list its request needs,
\* none of which is the list of something that has happened.
LEMMA ParkKeeps ==
    ASSUME StateOK, Rotation, NEW n \in Thread, rot.owner = n, NEW r \in Requests,
           r.kind = "join" => parent[r.task] = n,
           ~ReadyFor(r, queue, done), Park(n, r), UNCHANGED <<retired, kind, parent, done>>
    PROVE  StateOK' /\ Rotation'
<1>1. /\ rot' = Pass(rot, retired)
      /\ req' = [req EXCEPT ![n] = r]
      /\ queue' = queue /\ joined' = joined
      /\ join_live' = IF r.kind = "join" THEN join_live + 1 ELSE join_live
  BY DEF Park
<1>2. /\ \A c \in Chan : recv_list'[c] =
             IF r.kind \in {"recv", "select"} /\ c \in r.chs THEN Append(recv_list[c], n) ELSE recv_list[c]
      /\ \A c \in Chan : send_list'[c] =
             IF r.kind = "send" /\ c \in r.chs THEN Append(send_list[c], n) ELSE send_list[c]
      /\ \A k \in Thread : join_list'[k] =
             IF r.kind = "join" /\ k = r.task THEN Append(join_list[k], n) ELSE join_list[k]
  BY DEF Park
<1>3. /\ \A c \in Chan : recv_list[c] \in Seq(Thread) /\ send_list[c] \in Seq(Thread)
      /\ \A k \in Thread : join_list[k] \in Seq(Thread)
  BY DEF StateOK
<1>4. StateOK'
  <2>1. /\ recv_list' \in [Chan -> Seq(Thread)]
        /\ send_list' \in [Chan -> Seq(Thread)]
        /\ join_list' \in [Thread -> Seq(Thread)]
    <3>1. \A s \in Seq(Thread) : Append(s, n) \in Seq(Thread)
      BY AppendProperties
    <3>2. QED
      BY <1>3, <3>1 DEF Park
  <2>2. rot' \in Rotations
    BY <1>1, PassIs DEF StateOK, Rotation, QueuedAreReady
  <2>3. join_live' \in Nat
    BY <1>1 DEF StateOK
  <2>4. req' \in [Thread -> Requests \cup {NoReq}]
    BY <1>1 DEF StateOK
  <2>5. QED
    BY <1>1, <2>1, <2>2, <2>3, <2>4 DEF StateOK
<1>5. /\ rot'.owner # Nil => ~retired[rot'.owner] /\ Within(rot'.owner, rot.ready)
      /\ rot'.owner = Nil => rot'.ready = <<>>
      /\ \A m \in Thread : Within(m, rot'.ready) => Within(m, rot.ready)
      /\ \A m \in Thread : rot'.queued[m] /\ ~retired[m] => Within(m, rot'.ready)
      /\ \A m \in Thread : ~retired[m] /\ m # rot'.owner /\ ~rot'.queued[m] => ~rot.queued[m]
  <2>1. WakeAll(rot, <<>>) = rot
    BY CellsAreBorn, WakeAllIs DEF StateOK
  <2>2. rot' = Pass(WakeAll(rot, <<>>), retired) /\ retired \in [Thread -> BOOLEAN]
    BY <1>1, <2>1 DEF StateOK
  <2>3. /\ rot'.owner # Nil
             => ~retired[rot'.owner] /\ (Within(rot'.owner, rot.ready) \/ Within(rot'.owner, <<>>))
        /\ rot'.owner = Nil => rot'.ready = <<>>
        /\ \A m \in Thread : Within(m, rot'.ready) => Within(m, rot.ready) \/ Within(m, <<>>)
        /\ \A m \in Thread : rot'.queued[m] /\ ~retired[m] => Within(m, rot'.ready)
        /\ \A m \in Thread : ~retired[m] /\ m # rot'.owner /\ ~rot'.queued[m]
             => ~rot.queued[m] /\ ~Within(m, <<>>)
    BY <2>2, CellsAreBorn, LeaveIs
  <2>4. QED
    BY <2>3, CellsAreBorn
<1>6. \A m \in Thread : Born(m)' <=> Born(m)
  BY DEF Born
<1>7. Born(n) /\ ~retired[n]
  BY DEF Rotation, OwnerLives
\* A list gains the cell of n, or nothing.
<1>8. /\ \A c \in Chan, m \in Thread :
           /\ Within(m, recv_list'[c]) <=> Within(m, recv_list[c])
                                           \/ (m = n /\ r.kind \in {"recv", "select"} /\ c \in r.chs)
           /\ Within(m, send_list'[c]) <=> Within(m, send_list[c])
                                           \/ (m = n /\ r.kind = "send" /\ c \in r.chs)
      /\ \A k, m \in Thread :
           Within(m, join_list'[k]) <=> Within(m, join_list[k])
                                        \/ (m = n /\ r.kind = "join" /\ k = r.task)
  BY <1>2, <1>3, WithinAppend
<1>9. OwnerLives'
  <2>1. rot'.owner # Nil => rot'.owner \in Thread
    BY <1>4 DEF StateOK, Rotations
  <2>2. rot'.owner # Nil => Born(rot'.owner)
    BY <1>5, <2>1 DEF Rotation, ListedAreBorn
  <2>3. rot'.owner # Nil => (rot'.owner = Main \/ parent'[rot'.owner] # Nil)
    BY <2>2 DEF Born
  <2>4. QED
    BY <1>5, <2>3 DEF OwnerLives, Born
<1>10. QueuedAreReady'
  BY <1>5 DEF QueuedAreReady
<1>11. ListedAreBorn'
  BY <1>5, <1>6, <1>7, <1>8 DEF Rotation, ListedAreBorn
<1>12. NothingMissed'
  <2>1. \A c \in Chan : recv_list'[c] # <<>> => queue'[c] = <<>>
    <3> SUFFICES ASSUME NEW c \in Chan, recv_list'[c] # <<>> PROVE queue[c] = <<>>
      BY <1>1
    <3>1. CASE r.kind \in {"recv", "select"} /\ c \in r.chs
      BY <3>1, RequestShape, ReadyCases
    <3>2. CASE ~(r.kind \in {"recv", "select"} /\ c \in r.chs)
      BY <1>2, <3>2 DEF Rotation, NothingMissed
    <3>3. QED
      BY <3>1, <3>2
  <2>2. \A c \in Chan : send_list'[c] # <<>> => FullAt(c, Len(queue'[c]))
    <3> SUFFICES ASSUME NEW c \in Chan, send_list'[c] # <<>> PROVE FullAt(c, Len(queue[c]))
      BY <1>1
    <3>1. CASE r.kind = "send" /\ c \in r.chs
      BY <3>1, RequestShape, ReadyCases
    <3>2. CASE ~(r.kind = "send" /\ c \in r.chs)
      BY <1>2, <3>2 DEF Rotation, NothingMissed
    <3>3. QED
      BY <3>1, <3>2
  <2>3. \A k \in Thread : join_list'[k] # <<>> => ~done'[k]
    <3> SUFFICES ASSUME NEW k \in Thread, join_list'[k] # <<>> PROVE ~done[k]
      OBVIOUS
    <3>1. CASE r.kind = "join" /\ k = r.task
      BY <3>1, ReadyCases
    <3>2. CASE ~(r.kind = "join" /\ k = r.task)
      BY <1>2, <3>2 DEF Rotation, NothingMissed
    <3>3. QED
      BY <3>1, <3>2
  <2>4. QED
    BY <2>1, <2>2, <2>3 DEF NothingMissed
<1>13. ParkedAreListed'
  <2> SUFFICES ASSUME NEW m \in Thread, Born(m)', ~retired'[m], m # rot'.owner, ~rot'.queued[m]
               PROVE  Listed(m)'
    BY DEF ParkedAreListed
  <2>1. CASE m = n
    <3>1. req'[m] = r /\ r # NoReq /\ r.chs \in SUBSET Chan /\ (r.kind = "join" => r.task \in Thread)
      BY <1>1, <2>1, RequestShape DEF StateOK, Task
    <3>2. QED
      BY <1>8, <2>1, <3>1 DEF Listed
  <2>2. CASE m # n
    <3>1. Listed(m) /\ req'[m] = req[m]
      BY <1>1, <1>5, <1>6, <2>2 DEF Rotation, ParkedAreListed, StateOK
    <3>2. req[m] \in Requests /\ req[m].chs \in SUBSET Chan /\ (req[m].kind = "join" => req[m].task \in Thread)
      BY <3>1, RequestShape DEF Listed, StateOK, Task
    <3>3. QED
      BY <1>8, <3>1, <3>2 DEF Listed
  <2>3. QED
    BY <2>1, <2>2
<1>14. JoinersAreParents'
  <2>1. \A k, m \in Thread : Within(m, join_list'[k]) => parent[k] = m
    BY <1>8 DEF Rotation, JoinersAreParents
  <2>2. \A m \in Thread : req'[m].kind = "join" => parent[req'[m].task] = m
    BY <1>1 DEF Rotation, JoinersAreParents, StateOK
  <2>3. QED
    BY <2>1, <2>2 DEF JoinersAreParents
<1>15. JoinersCounted'
  <2>1. Awaited \in SUBSET Thread /\ IsFiniteSet(Awaited) /\ Cardinality(Awaited) \in Nat
    <3>1. Awaited \in SUBSET Thread
      BY DEF Awaited
    <3>2. QED
      BY <3>1, FS_Subset, FS_CardinalityType
  <2>2. CASE r.kind # "join"
    <3>1. \A k \in Thread : join_list'[k] = join_list[k]
      BY <1>2, <2>2
    <3>2. Awaited' = Awaited
      BY <3>1 DEF Awaited
    <3>3. QED
      BY <1>1, <2>2, <3>2 DEF Rotation, JoinersCounted
  <2>3. CASE r.kind = "join"
    <3>1. r.task \in Thread
      BY <2>3, RequestShape DEF Task
    <3>2. Append(join_list[r.task], n) # <<>>
      <4>1. join_list[r.task] \in Seq(Thread)
        BY <1>3, <3>1
      <4>2. QED
        BY <4>1, AppendProperties
    <3>3. Awaited' = Awaited \cup {r.task}
      <4>1. ASSUME NEW k \in Thread PROVE join_list'[k] # <<>> <=> join_list[k] # <<>> \/ k = r.task
        <5>1. CASE k = r.task
          BY <1>2, <2>3, <3>2, <5>1
        <5>2. CASE k # r.task
          BY <1>2, <2>3, <5>2
        <5> QED BY <5>1, <5>2
      <4> QED BY <3>1, <4>1 DEF Awaited
    <3>4. Cardinality(Awaited \cup {r.task}) \in {Cardinality(Awaited), Cardinality(Awaited) + 1}
      <4>1. IsFiniteSet(Awaited)
        BY <2>1
      <4> HIDE DEF Awaited
      <4>2. Cardinality(Awaited \cup {r.task})
              = IF r.task \in Awaited THEN Cardinality(Awaited) ELSE Cardinality(Awaited) + 1
        BY <4>1, FS_AddElement
      <4>3. QED
        BY <4>2
    <3>5. Cardinality(Awaited) \in Nat
      BY <2>1
    <3>6. join_live \in Nat /\ join_live >= Cardinality(Awaited)
      BY DEF StateOK, Rotation, JoinersCounted
    <3>7. join_live' >= Cardinality(Awaited')
      BY <1>1, <2>1, <2>3, <3>3, <3>4, <3>5, <3>6
    <3>8. QED
      BY <3>7 DEF JoinersCounted
  <2>4. QED
    BY <2>2, <2>3
<1>16. UnbornAreFresh'
  BY <1>1, <1>6, <1>7 DEF Rotation, UnbornAreFresh, StateOK
<1>17. QED
  BY <1>4, <1>9, <1>10, <1>11, <1>12, <1>13, <1>14, <1>15, <1>16 DEF Rotation

\* hl_rt_spawn and hl_async_spawn.
LEMMA SpawnKeeps ==
    ASSUME StateOK, Rotation, NEW n \in Thread, NEW k \in Task, NEW how \in {"task", "async"},
           Spawn(n, k, how)
    PROVE  StateOK' /\ Rotation'
<1>1. /\ rot.owner = n /\ ~Born(k)
      /\ parent' = [parent EXCEPT ![k] = n]
      /\ kind' = [kind EXCEPT ![k] = how]
      /\ rot' = Yield(Push(rot, k), n)
      /\ recv_list' = recv_list /\ send_list' = send_list /\ join_list' = join_list
      /\ UNCHANGED <<retired, join_live, req, queue, done, joined>>
  BY DEF Spawn, Running, lists
<1> DEFINE p == Push(rot, k)
<1>2. /\ p \in Rotations /\ p.ready = Append(rot.ready, k)
      /\ \A m \in Thread : p.queued[m] <=> rot.queued[m] \/ m = k
  BY PushIs DEF StateOK, Task
<1>3. \A m \in Thread : Within(m, p.ready) <=> Within(m, rot.ready) \/ m = k
  <2>1. rot.ready \in Seq(Thread)
    BY DEF StateOK, Rotations
  <2>2. QED
    BY <1>2, <2>1, WithinAppend DEF Task
<1>4. rot' = Yield(p, n)
  BY <1>1
<1> HIDE DEF p
<1>5. \A m \in Thread : p.queued[m] /\ ~retired[m] => Within(m, p.ready)
  BY <1>2, <1>3 DEF Rotation, QueuedAreReady
<1>6. /\ rot' \in Rotations
      /\ rot'.owner # Nil
           => ~retired[rot'.owner] /\ (Within(rot'.owner, p.ready) \/ rot'.owner = n)
      /\ rot'.owner = Nil => rot'.ready = <<>>
      /\ \A m \in Thread : Within(m, rot'.ready) => Within(m, p.ready) \/ m = n
      /\ \A m \in Thread : rot'.queued[m] /\ ~retired[m] => Within(m, rot'.ready)
      /\ \A m \in Thread : (p.queued[m] \/ m = n) /\ ~retired[m] => rot'.queued[m] \/ rot'.owner = m
  <2>1. retired \in [Thread -> BOOLEAN]
    BY DEF StateOK
  <2>2. /\ Yield(p, n) \in Rotations
        /\ Yield(p, n).owner # Nil
             => ~retired[Yield(p, n).owner]
                /\ (Within(Yield(p, n).owner, p.ready) \/ Yield(p, n).owner = n)
        /\ Yield(p, n).owner = Nil => Yield(p, n).ready = <<>>
        /\ \A m \in Thread : Within(m, Yield(p, n).ready) => Within(m, p.ready) \/ m = n
        /\ \A m \in Thread : Yield(p, n).queued[m] /\ ~retired[m] => Within(m, Yield(p, n).ready)
        /\ \A m \in Thread : (p.queued[m] \/ m = n) /\ ~retired[m]
             => Yield(p, n).queued[m] \/ Yield(p, n).owner = m
    BY <1>2, <1>5, <2>1, YieldIs
  <2>3. QED
    BY <1>4, <2>2
<1>7. /\ \A m \in Thread : Born(m)' <=> Born(m) \/ m = k
      /\ k # Main /\ parent[k] = Nil /\ k \in Thread /\ Born(n) /\ ~retired[n]
      /\ \A m \in Thread : m # k => parent'[m] = parent[m]
  BY <1>1 DEF Born, StateOK, Task, Rotation, OwnerLives
<1>8. StateOK'
  BY <1>1, <1>6, <1>7 DEF StateOK
<1>9. OwnerLives'
  <2>1. rot'.owner # Nil => rot'.owner \in Thread
    BY <1>6 DEF Rotations
  <2>2. rot'.owner # Nil => Born(rot'.owner) \/ rot'.owner = k
    BY <1>3, <1>6, <1>7, <2>1 DEF Rotation, ListedAreBorn
  <2>3. \A m \in Thread : Born(m) \/ m = k => (m = Main \/ parent'[m] # Nil)
    BY <1>7 DEF Born
  <2>4. rot'.owner # Nil => (rot'.owner = Main \/ parent'[rot'.owner] # Nil)
    BY <2>1, <2>2, <2>3
  <2>5. QED
    BY <1>1, <1>6, <2>4 DEF OwnerLives, Born
<1>10. QueuedAreReady'
  BY <1>1, <1>6 DEF QueuedAreReady
<1>11. ListedAreBorn'
  BY <1>1, <1>3, <1>6, <1>7 DEF Rotation, ListedAreBorn
<1>12. NothingMissed'
  BY <1>1 DEF Rotation, NothingMissed
<1>13. ParkedAreListed'
  <2> SUFFICES ASSUME NEW m \in Thread, Born(m)', ~retired'[m], m # rot'.owner, ~rot'.queued[m]
               PROVE  Listed(m)'
    BY DEF ParkedAreListed
  <2>1. m # k /\ m # n /\ ~rot.queued[m] /\ ~retired[m]
    BY <1>1, <1>2, <1>6
  <2>2. Listed(m)
    BY <1>1, <1>7, <2>1 DEF Rotation, ParkedAreListed
  <2>3. QED
    BY <1>1, <2>2 DEF Listed
<1>14. JoinersAreParents'
  <2>1. \A m \in Thread : m # Nil
    OBVIOUS
  <2>2. \A j, m \in Thread : Within(m, join_list[j]) => parent[j] = m /\ j # k
    BY <1>7, <2>1 DEF Rotation, JoinersAreParents
  <2>3. \A m \in Thread : req[m].kind = "join" => parent[req[m].task] = m /\ req[m].task # k
    BY <1>7, <2>1 DEF Rotation, JoinersAreParents
  <2>4. \A m \in Thread : req[m].kind = "join" => req[m].task \in Thread
    <3>1. NoReq.kind # "join"
      BY DEF NoReq, Request
    <3>2. QED
      BY <3>1, RequestShape DEF StateOK, Task
  <2>5. QED
    BY <1>1, <1>7, <2>2, <2>3, <2>4 DEF JoinersAreParents
<1>15. JoinersCounted'
  BY <1>1 DEF Rotation, JoinersCounted, Awaited
<1>16. UnbornAreFresh'
  BY <1>1, <1>7 DEF Rotation, UnbornAreFresh
<1>17. QED
  BY <1>8, <1>9, <1>10, <1>11, <1>12, <1>13, <1>14, <1>15, <1>16 DEF Rotation

\* The owner retires, waking its joiners first if it is joinable:
\* hl_task_finish, and the end of a detached body.
LEMMA RetireKeeps ==
    ASSUME StateOK, Rotation, NEW n \in Thread, rot.owner = n, n # Main, NEW cells \in Seq(Thread),
           retired' = [retired EXCEPT ![n] = TRUE],
           rot' = Pass(WakeAll(rot, cells), retired'),
           \/ /\ cells = join_list[n]
              /\ join_list' = [join_list EXCEPT ![n] = <<>>]
              /\ done' = [done EXCEPT ![n] = TRUE]
           \/ cells = <<>> /\ join_list' = join_list /\ done' = done,
           join_live' \in Nat, join_live' >= Cardinality(Awaited'),
           UNCHANGED <<recv_list, send_list, req, queue, kind, parent, joined>>
    PROVE  StateOK' /\ Rotation'
<1>1. /\ retired' \in [Thread -> BOOLEAN]
      /\ \A m \in Thread : retired'[m] <=> retired[m] \/ m = n
  BY DEF StateOK
<1>2. /\ rot' \in Rotations
      /\ rot'.owner # Nil
           => ~retired'[rot'.owner] /\ (Within(rot'.owner, rot.ready) \/ Within(rot'.owner, cells))
      /\ rot'.owner = Nil => rot'.ready = <<>>
      /\ \A m \in Thread : Within(m, rot'.ready) => Within(m, rot.ready) \/ Within(m, cells)
      /\ \A m \in Thread : rot'.queued[m] /\ ~retired'[m] => Within(m, rot'.ready)
      /\ \A m \in Thread : ~retired'[m] /\ m # rot'.owner /\ ~rot'.queued[m]
           => ~rot.queued[m] /\ ~Within(m, cells)
  <2>1. PICK gone : gone = retired'
    OBVIOUS
  <2>2. /\ gone \in [Thread -> BOOLEAN]
        /\ \A m \in Thread : (retired[m] => gone[m]) /\ (gone[m] => retired[m] \/ m = n)
        /\ rot' = Pass(WakeAll(rot, cells), gone)
    BY <1>1, <2>1
  <2>3. /\ rot' \in Rotations
        /\ rot'.owner # Nil
             => ~gone[rot'.owner] /\ (Within(rot'.owner, rot.ready) \/ Within(rot'.owner, cells))
        /\ rot'.owner = Nil => rot'.ready = <<>>
        /\ \A m \in Thread : Within(m, rot'.ready) => Within(m, rot.ready) \/ Within(m, cells)
        /\ \A m \in Thread : rot'.queued[m] /\ ~gone[m] => Within(m, rot'.ready)
        /\ \A m \in Thread : ~gone[m] /\ m # rot'.owner /\ ~rot'.queued[m]
             => ~rot.queued[m] /\ ~Within(m, cells)
    BY <2>2, LeaveIs
  <2>4. QED
    BY <2>1, <2>3
<1>3. /\ \A m \in Thread : Born(m)' <=> Born(m)
      /\ \A m \in Thread : Within(m, cells) => Born(m)
      /\ Born(n) /\ ~retired[n]
  <2>1. \A m \in Thread : Within(m, cells) => Born(m)
    BY CellsAreBorn DEF Rotation, ListedAreBorn
  <2>2. QED
    BY <2>1 DEF Rotation, OwnerLives, Born
\* The lists and the ends of the other tasks are as they were.
<1>4. \A k \in Thread :
        /\ k # n => join_list'[k] = join_list[k] /\ (done'[k] <=> done[k])
        /\ join_list'[n] # <<>> => join_list'[n] = join_list[n] /\ done' = done
        /\ \A m \in Thread : Within(m, join_list'[k]) => Within(m, join_list[k])
        /\ \A m \in Thread : Within(m, join_list[k]) /\ ~Within(m, cells) => Within(m, join_list'[k])
  <2>1. \A m \in Thread : ~Within(m, <<>>)
    BY CellsAreBorn
  <2>2. CASE cells = join_list[n] /\ join_list' = [join_list EXCEPT ![n] = <<>>] /\ done' = [done EXCEPT ![n] = TRUE]
    <3>1. \A k \in Thread : /\ k # n => join_list'[k] = join_list[k] /\ (done'[k] <=> done[k])
                            /\ k = n => join_list'[k] = <<>>
      BY <2>2 DEF StateOK
    <3>2. QED
      BY <2>1, <2>2, <3>1
  <2>3. CASE cells = <<>> /\ join_list' = join_list /\ done' = done
    BY <2>3
  <2>4. QED
    BY <2>2, <2>3
<1>5. StateOK'
  <2>1. join_list' \in [Thread -> Seq(Thread)] /\ done' \in [Thread -> BOOLEAN]
    <3>1. <<>> \in Seq(Thread)
      BY CellsAreBorn
    <3>2. /\ [join_list EXCEPT ![n] = <<>>] \in [Thread -> Seq(Thread)]
          /\ join_list \in [Thread -> Seq(Thread)]
          /\ [done EXCEPT ![n] = TRUE] \in [Thread -> BOOLEAN]
          /\ done \in [Thread -> BOOLEAN]
      BY <3>1 DEF StateOK
    <3>3. QED
      BY <3>2
  <2>2. QED
    BY <1>1, <1>2, <2>1 DEF StateOK
<1>6. OwnerLives'
  <2>1. rot'.owner # Nil => rot'.owner \in Thread
    BY <1>2 DEF Rotations
  <2>2. rot'.owner # Nil => Born(rot'.owner)
    BY <1>2, <1>3, <2>1 DEF Rotation, ListedAreBorn
  <2>3. rot'.owner # Nil => (rot'.owner = Main \/ parent'[rot'.owner] # Nil)
    BY <2>2 DEF Born
  <2>4. QED
    BY <1>2, <2>3 DEF OwnerLives, Born
<1>7. QueuedAreReady'
  BY <1>2 DEF QueuedAreReady
<1>8. ListedAreBorn'
  BY <1>2, <1>3, <1>4 DEF Rotation, ListedAreBorn
<1>9. NothingMissed'
  <2>1. \A k \in Thread : join_list'[k] # <<>> => ~done'[k]
    <3> SUFFICES ASSUME NEW k \in Thread, join_list'[k] # <<>> PROVE ~done'[k]
      OBVIOUS
    <3>1. join_list'[k] = join_list[k] /\ (done'[k] <=> done[k])
      BY <1>4
    <3>2. QED
      BY <3>1 DEF Rotation, NothingMissed
  <2>2. QED
    BY <2>1 DEF Rotation, NothingMissed
<1>10. ParkedAreListed'
  <2> SUFFICES ASSUME NEW m \in Thread, Born(m)', ~retired'[m], m # rot'.owner, ~rot'.queued[m]
               PROVE  Listed(m)'
    BY DEF ParkedAreListed
  <2>1. Listed(m) /\ ~Within(m, cells) /\ req[m] # NoReq
    BY <1>1, <1>2, <1>3 DEF Rotation, ParkedAreListed, Listed
  <2>2. req[m].kind = "join" => req[m].task \in Thread
    BY <2>1, RequestShape DEF StateOK, Task
  <2>3. req[m].kind = "join" => Within(m, join_list'[req[m].task])
    BY <1>4, <2>1, <2>2 DEF Listed
  <2>4. QED
    BY <2>1, <2>3 DEF Listed
<1>11. JoinersAreParents'
  BY <1>4 DEF Rotation, JoinersAreParents
<1>12. JoinersCounted'
  BY DEF JoinersCounted
<1>13. UnbornAreFresh'
  BY <1>1, <1>3 DEF Rotation, UnbornAreFresh
<1>14. QED
  BY <1>5, <1>6, <1>7, <1>8, <1>9, <1>10, <1>11, <1>12, <1>13 DEF Rotation

\* hl_task_finish: its joiners are the cells of one task, its spawner, so the
\* count is lowered by one at most, and it was at least one if there were any.
LEMMA FinishKeeps ==
    ASSUME StateOK, Rotation, NEW k \in Thread, Finish(k)
    PROVE  StateOK' /\ Rotation'
<1> DEFINE cells == join_list[k]
           woken == WakeAll(rot, cells)
           count == Len(woken.ready) - Len(rot.ready)
<1>1. /\ rot.owner = k /\ k # Main
      /\ retired' = [retired EXCEPT ![k] = TRUE]
      /\ rot' = Pass(WakeAll(rot, cells), retired')
      /\ join_list' = [join_list EXCEPT ![k] = <<>>]
      /\ done' = [done EXCEPT ![k] = TRUE]
      /\ join_live' = join_live - count
      /\ UNCHANGED <<recv_list, send_list, req, queue, kind, parent, joined>>
  BY DEF Finish, Running
<1>2. cells \in Seq(Thread) /\ rot \in Rotations /\ retired \in [Thread -> BOOLEAN]
      /\ parent \in [Thread -> Thread \cup {Nil}]
  BY DEF StateOK
<1>3. \A i \in 1..Len(cells) : cells[i] = parent[k] /\ cells[i] \in Thread
  <2>1. \A i \in 1..Len(cells) : cells[i] \in Thread /\ Within(cells[i], cells)
    BY <1>2, ElementOfSeq DEF Within
  <2>2. QED
    BY <2>1 DEF Rotation, JoinersAreParents
<1>4. count \in Nat /\ (cells = <<>> => count = 0)
  <2>1. /\ Len(WakeAll(rot, cells).ready) - Len(rot.ready) \in Nat
        /\ cells = <<>> => WakeAll(rot, cells) = rot
    BY <1>2, WakeAllIs
  <2>2. Len(rot.ready) \in Nat
    BY <1>2, LenProperties DEF Rotations
  <2>3. QED
    BY <2>1, <2>2
<1>5. cells # <<>> => count <= 1
  <2> SUFFICES ASSUME cells # <<>> PROVE count <= 1
    OBVIOUS
  <2>1. 1 \in 1..Len(cells)
    BY <1>2, EmptySeq, LenProperties
  <2>2. parent[k] \in Thread /\ \A i \in 1..Len(cells) : cells[i] = parent[k]
    BY <1>3, <2>1
  <2> HIDE DEF cells
  <2>3. QED
    BY <1>2, <2>2, WakeAllIs
<1>6. /\ Awaited \in SUBSET Thread /\ IsFiniteSet(Awaited) /\ Cardinality(Awaited) \in Nat
      /\ join_live \in Nat /\ join_live >= Cardinality(Awaited)
  <2>1. Awaited \in SUBSET Thread
    BY DEF Awaited
  <2>2. QED
    BY <2>1, FS_Subset, FS_CardinalityType DEF StateOK, Rotation, JoinersCounted
<1>7. Awaited' = Awaited \ {k}
  BY <1>1 DEF Awaited, StateOK
<1>8. Cardinality(Awaited') = IF k \in Awaited THEN Cardinality(Awaited) - 1 ELSE Cardinality(Awaited)
  <2>1. IsFiniteSet(Awaited)
    BY <1>6
  <2> HIDE DEF Awaited
  <2>2. QED
    BY <1>7, <2>1, FS_RemoveElement
<1>9. join_live' \in Nat /\ join_live' >= Cardinality(Awaited')
  <2>1. k \in Awaited <=> cells # <<>>
    BY DEF Awaited
  <2> HIDE DEF cells, count, Awaited
  <2>2. CASE cells = <<>>
    BY <1>1, <1>4, <1>6, <1>8, <2>1, <2>2
  <2>3. CASE cells # <<>>
    <3>1. Cardinality(Awaited) # 0
      <4>1. Awaited # {} /\ IsFiniteSet(Awaited)
        BY <1>6, <2>1, <2>3
      <4>2. QED
        BY <4>1, FS_EmptySet
    <3>2. Cardinality(Awaited') = Cardinality(Awaited) - 1
      BY <1>8, <2>1, <2>3
    <3>3. QED
      BY <1>1, <1>4, <1>5, <1>6, <2>3, <3>1, <3>2
  <2>4. QED
    BY <2>2, <2>3
<1>10. QED
  <2> HIDE DEF count, Awaited
  <2>1. QED
    BY <1>1, <1>2, <1>9, RetireKeeps

\* A detached body returns.
LEMMA AsyncFinishKeeps ==
    ASSUME StateOK, Rotation, NEW k \in Thread, AsyncFinish(k)
    PROVE  StateOK' /\ Rotation'
<1>1. /\ rot.owner = k /\ k # Main
      /\ retired' = [retired EXCEPT ![k] = TRUE]
      /\ rot' = Pass(rot, retired')
      /\ join_list' = join_list /\ done' = done /\ join_live' = join_live
      /\ UNCHANGED <<recv_list, send_list, req, queue, kind, parent, joined>>
  BY DEF AsyncFinish, Running, lists, tasks
<1>2. WakeAll(rot, <<>>) = rot /\ <<>> \in Seq(Thread)
  BY CellsAreBorn, WakeAllIs DEF StateOK
<1>3. rot' = Pass(WakeAll(rot, <<>>), retired')
  BY <1>1, <1>2
<1>4. join_live' \in Nat /\ join_live' >= Cardinality(Awaited')
  BY <1>1 DEF Awaited, Rotation, JoinersCounted, StateOK
<1>5. QED
  BY <1>1, <1>2, <1>3, <1>4, RetireKeeps

-----------------------------------------------------------------------------
(* The scan for a deadlock *)

\* A node that is born, has not retired, does not have the baton and is not
\* queued waits for something that has not happened.
LEMMA ParkedAreStuck ==
    StateOK /\ Rotation
        => \A n \in Thread : Born(n) /\ ~retired[n] /\ n # rot.owner /\ ~rot.queued[n]
             => /\ req[n] \in Requests /\ ~ReadyFor(req[n], queue, done)
                /\ \/ \E c \in Chan : Within(n, recv_list[c]) \/ Within(n, send_list[c])
                   \/ join_live > 0
<1> SUFFICES ASSUME StateOK, Rotation, NEW n \in Thread,
                    Born(n), ~retired[n], n # rot.owner, ~rot.queued[n]
             PROVE  /\ req[n] \in Requests /\ ~ReadyFor(req[n], queue, done)
                    /\ \/ \E c \in Chan : Within(n, recv_list[c]) \/ Within(n, send_list[c])
                       \/ join_live > 0
  OBVIOUS
<1>1. Listed(n)
  BY DEF Rotation, ParkedAreListed
<1>2. req[n] \in Requests
  BY <1>1 DEF Listed, StateOK
<1>3. \A s : Within(n, s) => s # <<>>
  BY CellsAreBorn
<1>4. CASE req[n].kind \in {"recv", "select"}
  <2>1. \A c \in req[n].chs : c \in Chan /\ Within(n, recv_list[c]) /\ queue[c] = <<>>
    BY <1>1, <1>2, <1>3, <1>4, RequestShape DEF Listed, Rotation, NothingMissed
  <2>2. req[n].chs # {}
    BY <1>2, <1>4, RequestShape
  <2>3. QED
    BY <1>2, <1>4, <2>1, <2>2, ReadyCases
<1>5. CASE req[n].kind = "send"
  <2>1. \A c \in req[n].chs : c \in Chan /\ Within(n, send_list[c]) /\ FullAt(c, Len(queue[c]))
    BY <1>1, <1>2, <1>3, <1>5, RequestShape DEF Listed, Rotation, NothingMissed
  <2>2. req[n].chs # {}
    BY <1>2, <1>5, RequestShape
  <2>3. QED
    BY <1>2, <1>5, <2>1, <2>2, ReadyCases
<1>6. CASE req[n].kind = "join"
  <2>1. req[n].task \in Thread /\ Within(n, join_list[req[n].task])
    BY <1>1, <1>2, <1>6, RequestShape DEF Listed, Task
  <2>2. join_list[req[n].task] # <<>> /\ ~done[req[n].task]
    BY <1>3, <2>1 DEF Rotation, NothingMissed
  <2>3. Awaited # {} /\ IsFiniteSet(Awaited)
    <3>1. Awaited \in SUBSET Thread
      BY DEF Awaited
    <3>2. QED
      BY <2>1, <2>2, <3>1, FS_Subset DEF Awaited
  <2>4. Cardinality(Awaited) # 0 /\ Cardinality(Awaited) \in Nat
    BY <2>3, FS_EmptySet, FS_CardinalityType
  <2>5. join_live > 0
    BY <2>4 DEF StateOK, Rotation, JoinersCounted
  <2>6. QED
    BY <1>2, <1>6, <2>2, <2>5, ReadyCases
<1>7. QED
  BY <1>2, <1>4, <1>5, <1>6, RequestShape

\* When the baton goes to nobody nobody is queued: main is parked, so there is
\* a deadlock, and no list is that of something that has happened.
LEMMA VerdictIs ==
    StateOK /\ Rotation
        => Verdict \in {"no", "deadlock"} /\ (Verdict = "deadlock" => rot.owner = Nil)
<1> SUFFICES ASSUME StateOK, Rotation, rot.owner = Nil PROVE Verdict = "deadlock"
  BY DEF Verdict
<1>1. \A n \in Thread : ~(rot.queued[n] /\ ~retired[n])
  <2>1. \A n \in Thread : ~Within(n, rot.ready)
    BY CellsAreBorn DEF Rotation, OwnerLives
  <2>2. QED
    BY <2>1 DEF Rotation, QueuedAreReady
<1>2. /\ Main \in Thread /\ Born(Main) /\ ~retired[Main] /\ Main # rot.owner /\ ~rot.queued[Main]
  BY <1>1 DEF Born, Rotation, UnbornAreFresh
<1>3. (\E c \in Chan : Within(Main, recv_list[c]) \/ Within(Main, send_list[c])) \/ join_live > 0
  BY <1>2, ParkedAreStuck
<1>4. \A s \in Seq(Thread) : Within(Main, s) => LiveIn(s)
  <2>1. \A s \in Seq(Thread) : DOMAIN s = 1..Len(s)
    BY LenProperties
  <2>2. QED
    BY <1>2, <2>1 DEF Within, LiveIn
<1>5. ~MissedWake
  <2>1. ~LiveIn(<<>>)
    <3>1. DOMAIN <<>> = 1..0
      OBVIOUS
    <3>2. QED
      BY <3>1 DEF LiveIn
  <2>2. ASSUME NEW c \in Chan, queue[c] # <<>> PROVE ~LiveIn(recv_list[c])
    BY <2>1, <2>2 DEF Rotation, NothingMissed
  <2>3. ASSUME NEW c \in Chan, Cap[c] > 0, Len(queue[c]) < Cap[c] PROVE ~LiveIn(send_list[c])
    <3>1. Len(queue[c]) \in Nat /\ Cap[c] \in Nat
      BY LenProperties DEF StateOK
    <3>2. ~FullAt(c, Len(queue[c]))
      BY <2>3, <3>1 DEF FullAt
    <3>3. QED
      BY <2>1, <3>2 DEF Rotation, NothingMissed
  <2>4. QED
    BY <2>2, <2>3 DEF MissedWake
<1>6. join_live > 0 \/ \E c \in Chan : LiveIn(recv_list[c]) \/ LiveIn(send_list[c])
  BY <1>3, <1>4, CellsAreBorn
<1>7. QED
  BY <1>5, <1>6 DEF Verdict

-----------------------------------------------------------------------------
(* Every step keeps the invariant *)

\* What a step is: a turn on a request the owner makes or has made, a turn
\* given away, a birth, an end, or the end of the process.
LEMMA StepKinds ==
    ASSUME StateOK, Rotation, Next
    PROVE  \/ \E n \in Thread, r \in Requests :
                /\ rot.owner = n /\ req[n] \in {NoReq, r}
                /\ r.kind = "join" => parent[r.task] = n
                /\ Turn(n, r)
           \/ \E n \in Thread : Running(n) /\ JustYield(n)
           \/ \E n \in Thread, k \in Task, how \in {"task", "async"} : Spawn(n, k, how)
           \/ \E n \in Thread : Finish(n) \/ AsyncFinish(n)
           \/ \E n \in Thread, k \in Task : SpawnFails(n, k)
           \/ \E n \in Thread : Running(n) /\ (Panic \/ ProcessEnds)
<1>1. PICK n \in Thread :
        \/ \E c \in Chan :
             \/ \E v \in Carries[c] : Send(n, c, v) \/ TrySend(n, c, v)
             \/ Recv(n, c)
             \/ RecvOr(n, c)
        \/ \E S \in (SUBSET Chan) \ {{}} : Select(n, S)
        \/ SelectNone(n)
        \/ Resume(n)
        \/ \E k \in Task :
             \/ \E how \in {"task", "async"} : Spawn(n, k, how)
             \/ SpawnFails(n, k)
             \/ Join(n, k)
        \/ Finish(n)
        \/ AsyncFinish(n)
        \/ ProcessEnds
  BY DEF Next
<1> DEFINE Takes(r) == /\ r \in Requests /\ rot.owner = n /\ req[n] \in {NoReq, r}
                       /\ r.kind = "join" => parent[r.task] = n
                       /\ Turn(n, r)
           Entered == \E r : Takes(r)
<1>2. \A r : Takes(r) => Entered
  OBVIOUS
<1>3. ASSUME NEW c \in Chan, NEW v \in Carries[c], Send(n, c, v)
      PROVE  Entered
  <2>1. Takes(SendReq(c, v))
    BY <1>3, RequestsMade DEF Send, Running
  <2>2. QED
    BY <1>2, <2>1
<1>4. ASSUME NEW c \in Chan, NEW v \in Carries[c], TrySend(n, c, v)
      PROVE  Entered \/ (Running(n) /\ JustYield(n))
  <2>1. FullAt(c, Len(queue[c])) \/ Takes(SendReq(c, v))
    BY <1>4, RequestsMade DEF TrySend, Running
  <2>2. QED
    BY <1>2, <1>4, <2>1 DEF TrySend
<1>5. ASSUME NEW c \in Chan, Recv(n, c) \/ RecvOr(n, c)
      PROVE  Entered \/ (Running(n) /\ JustYield(n))
  <2>1. (Running(n) /\ JustYield(n)) \/ Takes(RecvReq(c))
    BY <1>5, RequestsMade DEF Recv, RecvOr, Running
  <2>2. QED
    BY <1>2, <2>1
<1>6. ASSUME NEW S \in (SUBSET Chan) \ {{}}, Select(n, S)
      PROVE  Entered
  <2>1. Takes(SelectReq(S))
    BY <1>6, RequestsMade DEF Select, Running
  <2>2. QED
    BY <1>2, <2>1
<1>7. ASSUME NEW k \in Task, Join(n, k)
      PROVE  Entered \/ (Running(n) /\ Panic)
  <2>1. (Running(n) /\ Panic) \/ Takes(JoinReq(k))
    BY <1>7, RequestsMade DEF Join, Running
  <2>2. QED
    BY <1>2, <2>1
<1>8. ASSUME Resume(n)
      PROVE  Entered
  <2>1. Takes(req[n])
    BY <1>8 DEF Resume, Turn, StateOK, Rotation, JoinersAreParents
  <2>2. QED
    BY <1>2, <2>1
<1>9. SelectNone(n) => Running(n) /\ Panic
  BY DEF SelectNone
<1>10. ProcessEnds => \E m \in Thread : Running(m) /\ ProcessEnds
  BY DEF ProcessEnds
<1>11. Entered => \E m \in Thread, r \in Requests :
                /\ rot.owner = m /\ req[m] \in {NoReq, r}
                /\ r.kind = "join" => parent[r.task] = m
                /\ Turn(m, r)
  OBVIOUS
<1> HIDE DEF Entered
<1>12. QED
  BY <1>1, <1>3, <1>4, <1>5, <1>6, <1>7, <1>8, <1>9, <1>10, <1>11

\* The verdict of a turn that hands the baton to nobody is a deadlock.
LEMMA TurnSteps ==
    ASSUME StateOK, Rotation, halted = "no", NEW n \in Thread, NEW r \in Requests,
           r.kind = "join" => parent[r.task] = n, Turn(n, r)
    PROVE  StateOK' /\ Rotation' /\ halted' \in {"no", "deadlock"}
<1>1. rot.owner = n /\ UNCHANGED <<retired, kind, parent, done>>
  BY DEF Turn
<1>2. CASE ReadyFor(r, queue, done)
  <2>1. Perform(n, r)
    BY <1>2 DEF Turn
  <2>2. halted' = halted
    BY <2>1 DEF Perform
  <2>3. QED
    BY <1>1, <1>2, <2>1, <2>2, PerformKeeps
<1>3. CASE ~ReadyFor(r, queue, done)
  <2>1. Park(n, r)
    BY <1>3 DEF Turn
  <2>2. StateOK' /\ Rotation'
    BY <1>1, <1>3, <2>1, ParkKeeps
  <2>3. (Verdict \in {"no", "deadlock"})'
    BY <2>2, VerdictIs, PTL
  <2>4. QED
    BY <2>1, <2>2, <2>3 DEF Park
<1>4. QED
  BY <1>2, <1>3

\* Each turn keeps the invariant.
LEMMA NextKeeps == DetInv /\ [Next]_vars => DetInv'
<1> SUFFICES ASSUME DetInv, [Next]_vars PROVE DetInv'
  OBVIOUS
<1>1. CASE UNCHANGED vars
  <2>1. /\ UNCHANGED <<rot, retired, join_live, req, queue, halted>>
        /\ recv_list' = recv_list /\ send_list' = send_list /\ join_list' = join_list
        /\ kind' = kind /\ parent' = parent /\ done' = done /\ joined' = joined
    BY <1>1 DEF vars, lists, tasks
  <2>2. DetTypeOK'
    BY <2>1 DEF DetInv, DetTypeOK, StateOK
  <2>3. Rotation' <=> Rotation
    BY <2>1 DEF Rotation, OwnerLives, QueuedAreReady, ListedAreBorn, NothingMissed, ParkedAreListed,
                Listed, JoinersAreParents, JoinersCounted, Awaited, UnbornAreFresh, Born
  <2>4. QED
    BY <2>1, <2>2, <2>3 DEF DetInv
<1>2. CASE Next
  <2>1. StateOK /\ Rotation /\ halted = "no"
    BY <1>2 DEF DetInv, DetTypeOK, Next
  <2>2. ASSUME NEW n \in Thread, NEW r \in Requests, r.kind = "join" => parent[r.task] = n, Turn(n, r)
        PROVE  DetInv'
    <3>1. StateOK' /\ Rotation' /\ halted' \in {"no", "deadlock"}
      BY <2>1, <2>2, TurnSteps
    <3>2. QED
      BY <3>1 DEF DetInv, DetTypeOK
  <2>3. ASSUME NEW n \in Thread, Running(n), JustYield(n)
        PROVE  DetInv'
    <3>1. halted' = halted
      BY <2>3 DEF JustYield
    <3>2. StateOK' /\ Rotation'
      BY <2>1, <2>3, JustYieldKeeps DEF Running
    <3>3. QED
      BY <2>1, <3>1, <3>2 DEF DetInv, DetTypeOK
  <2>4. ASSUME NEW n \in Thread, NEW k \in Task, NEW how \in {"task", "async"}, Spawn(n, k, how)
        PROVE  DetInv'
    <3>1. halted' = halted
      BY <2>4 DEF Spawn
    <3>2. StateOK' /\ Rotation'
      BY <2>1, <2>4, SpawnKeeps
    <3>3. QED
      BY <2>1, <3>1, <3>2 DEF DetInv, DetTypeOK
  <2>5. ASSUME NEW n \in Thread, Finish(n) \/ AsyncFinish(n)
        PROVE  DetInv'
    <3>1. StateOK' /\ Rotation'
      BY <2>1, <2>5, FinishKeeps, AsyncFinishKeeps
    <3>2. (Verdict \in {"no", "deadlock"})'
      BY <3>1, VerdictIs, PTL
    <3>3. halted' \in {"no", "deadlock"}
      BY <2>5, <3>2 DEF Finish, AsyncFinish, FinalVerdict
    <3>4. QED
      BY <3>1, <3>3 DEF DetInv, DetTypeOK
  <2>6. ASSUME NEW n \in Thread, NEW k \in Task, SpawnFails(n, k)
        PROVE  DetInv'
    <3>1. /\ rot' = Push(rot, k) /\ retired' = [retired EXCEPT ![k] = TRUE] /\ halted' = "panic"
          /\ UNCHANGED <<lists, join_live, req, queue, tasks>>
      BY <2>6 DEF SpawnFails
    <3>2. rot' \in Rotations
      BY <2>1, <3>1, PushIs DEF StateOK, Task
    <3>3. StateOK'
      BY <2>1, <3>1, <3>2 DEF StateOK, lists, tasks
    <3>4. QED
      BY <3>1, <3>3 DEF DetInv, DetTypeOK
  <2>7. ASSUME Panic \/ ProcessEnds
        PROVE  DetInv'
    <3>1. /\ halted' \in {"panic", "exit"}
          /\ UNCHANGED <<rot, retired, lists, join_live, req, queue, tasks>>
      BY <2>7 DEF Panic, ProcessEnds
    <3>2. StateOK'
      BY <2>1, <3>1 DEF StateOK, lists, tasks
    <3>3. QED
      BY <3>1, <3>2 DEF DetInv, DetTypeOK
  <2>8. QED
    BY <1>2, <2>1, <2>2, <2>3, <2>4, <2>5, <2>6, <2>7, StepKinds
<1>3. QED
  BY <1>1, <1>2

\* Main has the baton, and nobody else is born.
LEMMA InitHolds == Init => DetInv
<1> SUFFICES ASSUME Init PROVE DetInv
  OBVIOUS
<1>1. <<>> \in Seq(Thread) /\ <<>> \in Seq(Val) /\ (\A m : ~Within(m, <<>>))
  BY EmptySeq DEF Within
<1>2. StateOK
  BY <1>1 DEF Init, StateOK, Rotations
<1>3. \A n \in Thread : Born(n) <=> n = Main
  BY DEF Init, Born
<1>4. Main # Nil /\ Main \in Thread /\ rot.owner = Main /\ rot.ready = <<>>
  BY DEF Init
<1>5. OwnerLives /\ QueuedAreReady
  BY <1>4 DEF Init, OwnerLives, QueuedAreReady, Born
<1>6. ListedAreBorn /\ NothingMissed
  BY <1>1 DEF Init, ListedAreBorn, NothingMissed
<1>7. ParkedAreListed
  BY <1>3, <1>4 DEF ParkedAreListed
<1>8. JoinersAreParents
  <2>1. NoReq.kind # "join"
    BY DEF NoReq, Request
  <2>2. QED
    BY <1>1, <2>1 DEF Init, JoinersAreParents
<1>9. JoinersCounted
  <2>1. Awaited = {}
    BY DEF Init, Awaited
  <2>2. Cardinality(Awaited) = 0
    BY <2>1, FS_EmptySet
  <2>3. QED
    BY <2>2 DEF Init, JoinersCounted
<1>10. UnbornAreFresh
  BY DEF Init, UnbornAreFresh
<1>11. QED
  BY <1>2, <1>5, <1>6, <1>7, <1>8, <1>9, <1>10 DEF Init, DetInv, DetTypeOK, Rotation

\* DetInv holds of every state, with whatever bounds on the lists.
THEOREM DetSchedInvariance == Spec => []DetInv
BY InitHolds, NextKeeps, PTL DEF Spec

\* Every variable keeps its type.
THEOREM DetSchedTyped == Spec => []DetTypeOK
<1>1. DetInv => DetTypeOK
  BY DEF DetInv
<1>2. QED
  BY <1>1, DetSchedInvariance, PTL

\* The scan of the rotation never finds a missed wake, and never finds nobody
\* waiting: when the baton goes to nobody, it is a deadlock.
THEOREM ScanIsRight == Spec => []ScanFindsDeadlock
<1>1. DetInv => ScanFindsDeadlock
  BY DEF DetInv, DetTypeOK, ScanFindsDeadlock
<1>2. QED
  BY <1>1, DetSchedInvariance, PTL

-----------------------------------------------------------------------------
(* Every step of the rotation is a step of ChanSpec, or one it does not see *)

\* The two specifications speak of the same requests.
LEMMA SameVocabulary ==
    /\ Abs!Task = Task /\ Abs!NoReq = NoReq /\ Abs!Requests = Requests
    /\ \A r, q, f : Abs!ReadyFor(r, q, f) = ReadyFor(r, q, f)
<1>1. Abs!Task = Task /\ Abs!NoReq = NoReq
  BY DEF Task, Abs!Task, NoReq, Abs!NoReq, Request, Abs!Request
<1>2. Abs!Requests = Requests
  BY <1>1 DEF Requests, Abs!Requests, SendReqs, Abs!SendReqs, RecvReqs, Abs!RecvReqs,
     SelectReqs, Abs!SelectReqs, JoinReqs, Abs!JoinReqs, SendReq, Abs!SendReq,
     RecvReq, Abs!RecvReq, SelectReq, Abs!SelectReq, JoinReq, Abs!JoinReq, Request, Abs!Request
<1>3. \A r, q, f : Abs!ReadyFor(r, q, f) = ReadyFor(r, q, f)
  BY DEF ReadyFor, Abs!ReadyFor, FullAt, Abs!FullAt
<1>4. QED
  BY <1>1, <1>2, <1>3

\* When the baton goes to nobody, every node that exists is stuck.
LEMMA StuckSeen ==
    StateOK /\ Rotation /\ rot.owner = Nil => Abs!AllStuck
<1> SUFFICES ASSUME StateOK, Rotation, rot.owner = Nil, NEW n \in Thread
             PROVE  \/ AbsMode[n] \in {"unborn", "exited"}
                    \/ AbsMode[n] = "waiting" /\ ~ReadyFor(req[n], queue, done)
  BY SameVocabulary DEF Abs!AllStuck
<1>1. CASE Born(n) /\ ~retired[n]
  <2>1. ~Within(n, rot.ready)
    BY CellsAreBorn DEF Rotation, OwnerLives
  <2>2. ~rot.queued[n] /\ n # rot.owner
    BY <1>1, <2>1 DEF Rotation, QueuedAreReady
  <2>3. req[n] \in Requests /\ ~ReadyFor(req[n], queue, done)
    BY <1>1, <2>2, ParkedAreStuck
  <2>4. req[n] # NoReq
    BY <2>3, RequestShape
  <2>5. QED
    BY <1>1, <2>3, <2>4 DEF AbsMode
<1>2. CASE ~(Born(n) /\ ~retired[n])
  BY <1>2 DEF AbsMode
<1>3. QED
  BY <1>1, <1>2

\* A verdict of the scan is one that ChanSpec may give.
LEMMA VerdictSeen ==
    ASSUME StateOK', Rotation', halted' \in {"no", Verdict'}
    PROVE  AbsVerdict' \in (IF Abs!AllStuck' THEN {"none", "deadlock"} ELSE {"none"})
<1>1. CASE halted' = "no"
  BY <1>1 DEF AbsVerdict
<1>2. CASE halted' # "no"
  <2>1. (Verdict \in {"no", "deadlock"} /\ (Verdict = "deadlock" => rot.owner = Nil))'
    BY VerdictIs, PTL
  <2>2. halted' = "deadlock" /\ (rot.owner = Nil)'
    BY <1>2, <2>1
  <2>3. Abs!AllStuck'
    BY <2>2, StuckSeen, PTL
  <2>4. QED
    BY <2>2, <2>3 DEF AbsVerdict
<1>3. QED
  BY <1>1, <1>2

\* The queues change as ChanSpec says.
LEMMA PerformSeen ==
    ASSUME NEW n \in Thread, NEW r \in Requests, Perform(n, r)
    PROVE  Abs!Effect(r) /\ req' = [req EXCEPT ![n] = NoReq] /\ halted' = halted
<1>1. CASE r.kind = "send"
  BY <1>1 DEF Perform, PerformSend, Abs!Effect
<1>2. CASE r.kind = "recv"
  BY <1>2 DEF Perform, PerformRecv, Abs!Effect
<1>3. CASE r.kind \in {"select", "join"}
  BY <1>3 DEF Perform, PerformSelect, PerformJoin, Abs!Effect
<1>4. QED
  BY <1>1, <1>2, <1>3, RequestShape DEF Perform

\* Who has the baton exists.
LEMMA OwnerMode ==
    ASSUME StateOK, Rotation, NEW n \in Thread, rot.owner = n
    PROVE  /\ Born(n) /\ ~retired[n]
           /\ req[n] = NoReq => AbsMode[n] = "running"
           /\ req[n] # NoReq => AbsMode[n] = "waiting"
<1>1. Born(n) /\ ~retired[n]
  BY DEF Rotation, OwnerLives
<1>2. QED
  BY <1>1 DEF AbsMode

\* Only its own request moves a node between running and waiting.
LEMMA ModeMoves ==
    ASSUME StateOK, NEW n \in Thread, Born(n), ~retired[n], UNCHANGED <<retired, parent>>,
           NEW r \in Requests \cup {NoReq}, req' = [req EXCEPT ![n] = r]
    PROVE  AbsMode' = [AbsMode EXCEPT ![n] = IF r # NoReq THEN "waiting" ELSE "running"]
<1>1. \A m \in Thread : Born(m)' <=> Born(m)
  BY DEF Born
<1>2. \A m \in Thread : req'[m] = IF m = n THEN r ELSE req[m]
  BY DEF StateOK
<1>3. \A m \in Thread : AbsMode'[m] = IF m = n THEN (IF r # NoReq THEN "waiting" ELSE "running") ELSE AbsMode[m]
  BY <1>1, <1>2 DEF AbsMode
<1>4. AbsMode' = [m \in Thread |-> AbsMode'[m]] /\ AbsMode = [m \in Thread |-> AbsMode[m]]
  BY DEF AbsMode
<1> HIDE DEF AbsMode
<1>5. QED
  BY <1>3, <1>4

\* A turn does the request, begins to wait for it, completes it, or goes on
\* waiting, with a verdict that is true if there is one.
LEMMA TurnSimulated ==
    ASSUME StateOK, Rotation, halted = "no", NEW n \in Thread, NEW r \in Requests,
           rot.owner = n, req[n] \in {NoReq, r},
           r.kind = "join" => parent[r.task] = n, Turn(n, r)
    PROVE  [Abs!Next]_(Abs!vars)
<1>1. /\ UNCHANGED <<retired, kind, parent, done>>
      /\ AbsVerdict = "none" /\ r # NoReq /\ Born(n) /\ ~retired[n]
      /\ req[n] = NoReq => AbsMode[n] = "running"
      /\ req[n] # NoReq => AbsMode[n] = "waiting"
      /\ r \in Requests \cup {NoReq} /\ NoReq \in Requests \cup {NoReq}
  BY OwnerMode, RequestShape DEF Turn, AbsVerdict
<1>0. req = [req EXCEPT ![n] = req[n]] /\ AbsMode = [AbsMode EXCEPT ![n] = AbsMode[n]]
  <2>1. req = [m \in Thread |-> req[m]]
    BY DEF StateOK
  <2>2. AbsMode = [m \in Thread |-> AbsMode[m]]
    BY DEF AbsMode
  <2> HIDE DEF AbsMode
  <2>3. QED
    BY <2>1, <2>2
<1>2. CASE ReadyFor(r, queue, done)
  <2>1. Perform(n, r)
    BY <1>2 DEF Turn
  <2>2. Abs!Effect(r) /\ req' = [req EXCEPT ![n] = NoReq] /\ AbsVerdict' = AbsVerdict
    BY <2>1, PerformSeen DEF AbsVerdict
  <2>3. AbsMode' = [AbsMode EXCEPT ![n] = "running"]
    <3>1. AbsMode' = [AbsMode EXCEPT ![n] = IF NoReq # NoReq THEN "waiting" ELSE "running"]
      BY <1>1, <2>2, ModeMoves
    <3>2. QED
      BY <3>1
  <2>4. CASE req[n] = NoReq
    <3>1. AbsMode' = AbsMode /\ req' = req
      BY <1>0, <1>1, <2>2, <2>3, <2>4
    <3>2. Abs!Do(r)
      BY <1>1, <1>2, <2>2, <2>4, <3>1, SameVocabulary DEF Abs!Do
    <3>3. Abs!Make(n)
      BY <1>1, <2>4, <3>2, SameVocabulary DEF Abs!Make
    <3>4. QED
      BY <1>1, <3>3 DEF Abs!Next
  <2>5. CASE req[n] = r
    <3>1. Abs!Complete(n)
      BY <1>1, <1>2, <2>2, <2>3, <2>5, SameVocabulary DEF Abs!Complete
    <3>2. QED
      BY <1>1, <3>1, SameVocabulary DEF Abs!Next
  <2>6. QED
    BY <2>4, <2>5
<1>3. CASE ~ReadyFor(r, queue, done)
  <2>1. Park(n, r)
    BY <1>3 DEF Turn
  <2>2. req' = [req EXCEPT ![n] = r] /\ queue' = queue /\ halted' = Verdict'
    BY <2>1 DEF Park
  <2>3. AbsVerdict' \in (IF Abs!AllStuck' THEN {"none", "deadlock"} ELSE {"none"})
    <3>1. StateOK' /\ Rotation'
      BY TurnSteps
    <3>2. QED
      BY <2>2, <3>1, VerdictSeen
  <2>4. AbsMode' = [AbsMode EXCEPT ![n] = "waiting"]
    <3>1. AbsMode' = [AbsMode EXCEPT ![n] = IF r # NoReq THEN "waiting" ELSE "running"]
      BY <1>1, <2>2, ModeMoves
    <3>2. QED
      BY <1>1, <3>1
  <2>5. CASE req[n] = NoReq
    <3>1. Abs!Wait(n, r)
      BY <1>1, <1>3, <2>2, <2>3, <2>4, <2>5, SameVocabulary DEF Abs!Wait
    <3>2. Abs!Make(n)
      BY <1>1, <2>5, <3>1, SameVocabulary DEF Abs!Make
    <3>3. QED
      BY <1>1, <3>2 DEF Abs!Next
  <2>6. CASE req[n] = r
    <3>1. AbsMode' = AbsMode /\ req' = req /\ done' = done /\ queue' = queue
      BY <1>0, <1>1, <2>2, <2>4, <2>6
    <3>2. CASE AbsVerdict' = "none"
      BY <1>1, <3>1, <3>2 DEF Abs!vars
    <3>3. CASE AbsVerdict' = "deadlock"
      <4>1. Abs!AllStuck'
        BY <2>3, <3>3
      <4>2. Abs!AllStuck
        BY <3>1, <4>1 DEF Abs!AllStuck
      <4>3. Abs!Report
        BY <3>1, <3>3, <4>2 DEF Abs!Report
      <4>4. QED
        BY <1>1, <4>3, SameVocabulary DEF Abs!Next
    <3>4. QED
      BY <2>3, <3>2, <3>3
  <2>7. QED
    BY <2>5, <2>6
<1>4. QED
  BY <1>2, <1>3

\* A birth.
LEMMA SpawnSimulated ==
    ASSUME StateOK, Rotation, halted = "no", NEW n \in Thread, NEW k \in Task,
           NEW how \in {"task", "async"}, Spawn(n, k, how)
    PROVE  Abs!Next
<1>1. /\ ~Born(k) /\ parent' = [parent EXCEPT ![k] = n]
      /\ retired' = retired /\ req' = req /\ queue' = queue /\ done' = done /\ halted' = halted
      /\ k \in Thread /\ k # Main
  BY DEF Spawn, Task
<1>2. req[k] = NoReq /\ ~retired[k]
  BY <1>1 DEF Rotation, UnbornAreFresh
<1>3. \A m \in Thread : parent'[m] = IF m = k THEN n ELSE parent[m]
  BY <1>1 DEF StateOK
<1>4. \A m \in Thread : Born(m)' <=> Born(m) \/ m = k
  BY <1>3 DEF Born
<1>5. AbsMode[k] = "unborn" /\ \A m \in Thread : AbsMode'[m] = IF m = k THEN "running" ELSE AbsMode[m]
  BY <1>1, <1>2, <1>4 DEF AbsMode
<1>6. AbsMode' = [m \in Thread |-> AbsMode'[m]] /\ AbsMode = [m \in Thread |-> AbsMode[m]]
  BY DEF AbsMode
<1> HIDE DEF AbsMode
<1>7. AbsMode' = [AbsMode EXCEPT ![k] = "running"]
  BY <1>5, <1>6
<1>8. AbsVerdict = "none" /\ AbsVerdict' = AbsVerdict
  BY <1>1 DEF AbsVerdict
<1>9. Abs!Start(k)
  BY <1>1, <1>5, <1>7, <1>8 DEF Abs!Start
<1>10. QED
  BY <1>8, <1>9, SameVocabulary DEF Abs!Next

\* An end, with a verdict that is true if there is one.
LEMMA RetireSimulated ==
    ASSUME StateOK, Rotation, halted = "no", NEW k \in Thread, Finish(k) \/ AsyncFinish(k)
    PROVE  Abs!Next
<1>1. /\ rot.owner = k /\ req[k] = NoReq /\ k \in Task
      /\ retired' = [retired EXCEPT ![k] = TRUE]
      /\ req' = req /\ queue' = queue /\ parent' = parent
      /\ done' \in {done, [done EXCEPT ![k] = TRUE]}
      /\ halted' = FinalVerdict'
  BY DEF Finish, AsyncFinish, Running, tasks, Task
<1>2. StateOK' /\ Rotation'
  BY FinishKeeps, AsyncFinishKeeps
<1>3. halted' \in {"no", Verdict'}
  BY <1>1 DEF FinalVerdict
<1>4. AbsVerdict' \in (IF Abs!AllStuck' THEN {"none", "deadlock"} ELSE {"none"})
  BY <1>2, <1>3, VerdictSeen
<1>5. \E joinable \in BOOLEAN : done' = [done EXCEPT ![k] = joinable]
  <2>1. done = [done EXCEPT ![k] = done[k]] /\ done[k] \in BOOLEAN
    BY <1>1 DEF StateOK, Task
  <2>2. QED
    BY <1>1, <2>1
<1>6. AbsMode[k] = "running" /\ Born(k)
  BY <1>1, OwnerMode
<1>7. \A m \in Thread : (retired'[m] <=> retired[m] \/ m = k) /\ (Born(m)' <=> Born(m))
  BY <1>1 DEF StateOK, Born
<1>8. \A m \in Thread : AbsMode'[m] = IF m = k THEN "exited" ELSE AbsMode[m]
  BY <1>1, <1>6, <1>7 DEF AbsMode
<1>9. AbsMode' = [m \in Thread |-> AbsMode'[m]] /\ AbsMode = [m \in Thread |-> AbsMode[m]]
  BY DEF AbsMode
<1>10. AbsVerdict = "none"
  BY DEF AbsVerdict
<1> HIDE DEF AbsMode
<1>11. AbsMode' = [AbsMode EXCEPT ![k] = "exited"]
  BY <1>8, <1>9
<1>12. Abs!Return(k)
  BY <1>1, <1>4, <1>5, <1>6, <1>11 DEF Abs!Return
<1>13. QED
  BY <1>1, <1>10, <1>12, SameVocabulary DEF Abs!Next

\* The process ends by itself while the owner runs.
LEMMA EndSimulated ==
    ASSUME StateOK, Rotation, halted = "no", NEW n \in Thread, Running(n),
           halted' \in {"panic", "exit"}, UNCHANGED <<queue, req, done>>, AbsMode' = AbsMode
    PROVE  Abs!Next
<1>1. AbsVerdict = "none" /\ AbsVerdict' = "exit"
  BY DEF AbsVerdict
<1>2. AbsMode[n] = "running"
  BY OwnerMode DEF Running
<1>3. Abs!End
  BY <1>1, <1>2 DEF Abs!End
<1>4. QED
  BY <1>1, <1>3, SameVocabulary DEF Abs!Next

\* The thread cannot be created: its node, retired, was never born.
LEMMA SpawnFailsSimulated ==
    ASSUME StateOK, Rotation, halted = "no", NEW n \in Thread, NEW k \in Task, SpawnFails(n, k)
    PROVE  Abs!Next
<1>1. /\ Running(n) /\ ~Born(k) /\ k \in Thread
      /\ retired' = [retired EXCEPT ![k] = TRUE] /\ halted' = "panic"
      /\ queue' = queue /\ req' = req /\ done' = done /\ parent' = parent
  BY DEF SpawnFails, tasks, Task
<1>2. \A m \in Thread : (Born(m)' <=> Born(m)) /\ (Born(m) => (retired'[m] <=> retired[m]))
  BY <1>1 DEF StateOK, Born
<1>3. AbsMode' = AbsMode
  BY <1>1, <1>2 DEF AbsMode
<1>4. QED
  BY <1>1, <1>3, EndSimulated

\* Every turn is a step of ChanSpec or is not seen from outside.
LEMMA NextSimulated == DetInv /\ [Next]_vars => [Abs!Next]_(Abs!vars)
<1> SUFFICES ASSUME DetInv, [Next]_vars PROVE [Abs!Next]_(Abs!vars)
  OBVIOUS
<1>1. ASSUME UNCHANGED <<retired, req, queue, tasks>> PROVE AbsMode' = AbsMode /\ UNCHANGED <<queue, req, done>>
  BY <1>1 DEF tasks, AbsMode, Born
<1>2. ASSUME UNCHANGED <<retired, req, queue, tasks, halted>> PROVE UNCHANGED Abs!vars
  BY <1>1, <1>2 DEF Abs!vars, AbsVerdict
<1>3. CASE UNCHANGED vars
  BY <1>2, <1>3 DEF vars
<1>4. CASE Next
  <2>1. StateOK /\ Rotation /\ halted = "no"
    BY <1>4 DEF DetInv, DetTypeOK, Next
  <2>2. ASSUME NEW n \in Thread, JustYield(n) PROVE UNCHANGED Abs!vars
    BY <1>2, <2>2 DEF JustYield
  <2>3. ASSUME NEW n \in Thread, Running(n), Panic \/ ProcessEnds PROVE Abs!Next
    <3>1. halted' \in {"panic", "exit"} /\ UNCHANGED <<retired, req, queue, tasks>>
      BY <2>3 DEF Panic, ProcessEnds
    <3>2. QED
      BY <1>1, <2>1, <2>3, <3>1, EndSimulated
  <2>4. QED
    BY <1>4, <2>1, <2>2, <2>3, StepKinds, TurnSimulated, SpawnSimulated, RetireSimulated,
       SpawnFailsSimulated
<1>5. QED
  BY <1>3, <1>4

\* The rotation gives a program the same channels, joins and verdicts as the
\* preemptive runtime: both implement ChanSpec, for every number of threads,
\* tasks and channels, and whatever cells the selects leave behind.
THEOREM RotationImplements == Spec => ImplementsChanSpec
<1>1. Init => Abs!Init
  <2> SUFFICES ASSUME Init PROVE Abs!Init
    OBVIOUS
  <2>1. AbsMode = [t \in Thread |-> IF t = Main THEN "running" ELSE "unborn"]
    BY DEF Init, AbsMode, Born
  <2>2. QED
    BY <2>1, SameVocabulary DEF Init, Abs!Init, AbsVerdict
<1>2. DetInv /\ [Next]_vars => [Abs!Next]_(Abs!vars)
  BY NextSimulated
<1>3. QED
  BY <1>1, <1>2, DetSchedInvariance, PTL DEF Spec, Abs!Spec, ImplementsChanSpec

=============================================================================
