--------------------------- MODULE Streams_proofs ---------------------------
(***************************************************************************)
(* Proofs about the streams and their combinators (module Streams): for    *)
(* any pipeline of any length, over streams of any capacity, a pipeline    *)
(* gives the list that its list functions give.                            *)
(*                                                                         *)
(* The invariant is a balance.  For each stream i there is a list rest[i]  *)
(* of values its reader has still to read: the messages in the stream,     *)
(* then those in the box of its worker, then what the stage makes of what  *)
(* its sources have in rest are exactly rest[i] and the sentinel, or       *)
(* nothing once the sentinel is read.  A step moves a value from one part  *)
(* of this sum to the next.  So what is drained and what the last stream   *)
(* still owes are always the same list, the one the list functions give.   *)
(*                                                                         *)
(* The list functions are used by the first value of their argument only;  *)
(* that they obey these equations for lists of every length is proved      *)
(* without induction, from the least length at which one would fail.       *)
(***************************************************************************)
EXTENDS Streams, SequenceTheorems, WellFoundedInduction, TLAPS

-----------------------------------------------------------------------------
(* Lists: what a stage makes of a list, by its first value.                  *)

\* Every non-empty set of numbers has a least element: what stands in for
\* induction here.
LEMMA LeastElement == ASSUME NEW T \in SUBSET Nat, T # {} PROVE \E x \in T : \A y \in T : x <= y
<1> DEFINE R == OpToRel(<, Nat)
<1>1. \A x, y \in Nat : x < y => <<x, y>> \in R
  BY DEF OpToRel
<1>2. IsWellFoundedOn(R, Nat)
  BY NatLessThanWellFounded
<1> HIDE DEF R
<1>3. PICK x \in T : \A y \in T : ~ (<<y, x>> \in R)
  BY <1>2, WFMin
<1>4. ASSUME NEW y \in T PROVE x <= y
  <2>1. x \in Nat /\ y \in Nat /\ ~(y < x)
    BY <1>1, <1>3
  <2> QED BY <2>1
<1> QED BY <1>4

-----------------------------------------------------------------------------
(* Flattening, from the front: FlattenSeq recurs from the end *)

\* f has the flattened beginnings of a sequence of sequences, n of them.
Flattens(f, ss, n) ==
    /\ f = [i \in 1..n |-> f[i]]
    /\ 1 \in 1..n => f[1] = ss[1]
    /\ \A i \in 2..n : f[i] = f[i - 1] \o ss[i]

\* There are such beginnings: over the least n that had none, one could be added.
LEMMA BeginningsExist ==
    ASSUME NEW ss
    PROVE  \A n \in Nat : \E f : Flattens(f, ss, n)
<1> DEFINE T == {n \in Nat : ~ \E f : Flattens(f, ss, n)}
<1> SUFFICES ASSUME T # {} PROVE FALSE
  OBVIOUS
<1>1. PICK n \in T : \A m \in T : n <= m
  <2>1. T \in SUBSET Nat
    OBVIOUS
  <2> HIDE DEF T
  <2>2. QED BY <2>1, LeastElement
<1>2. n \in Nat /\ ~ \E f : Flattens(f, ss, n)
  OBVIOUS
<1>3. n # 0 /\ n # 1
  <2>1. Flattens([i \in 1..0 |-> <<>>], ss, 0)
    BY DEF Flattens
  <2>2. Flattens([i \in 1..1 |-> ss[1]], ss, 1)
    BY DEF Flattens
  <2>3. QED BY <1>2, <2>1, <2>2
<1>4. n - 1 \in Nat /\ ~(n <= n - 1) /\ n - 1 >= 1
  BY <1>2, <1>3
<1>5. PICK g : Flattens(g, ss, n - 1)
  BY <1>1, <1>4
<1> HIDE DEF T
<1> DEFINE f == [i \in 1..n |-> IF i = n THEN g[n - 1] \o ss[n] ELSE g[i]]
<1>6. f = [i \in 1..n |-> f[i]] /\ f[1] = ss[1]
  BY <1>2, <1>4, <1>5 DEF Flattens
<1>7. ASSUME NEW i \in 2..n PROVE f[i] = f[i - 1] \o ss[i]
  <2>1. i - 1 \in 1..n /\ i - 1 # n /\ i \in 1..n
    BY <1>2
  <2>2. f[i - 1] = g[i - 1]
    BY <2>1
  <2>3. CASE i = n
    BY <2>1, <2>2, <2>3
  <2>4. CASE i # n
    <3>1. i \in 2..(n - 1)
      BY <1>2, <2>4
    <3>2. f[i] = g[i]
      BY <2>1, <2>4
    <3>3. g[i] = g[i - 1] \o ss[i]
      BY <1>5, <3>1 DEF Flattens
    <3>4. QED BY <2>2, <3>2, <3>3
  <2>5. QED BY <2>3, <2>4
<1> HIDE DEF f
<1>8. Flattens(f, ss, n)
  BY <1>6, <1>7 DEF Flattens
<1>9. QED BY <1>2, <1>8

\* The function FlattenSeq recurs on is made of these beginnings.
LEMMA FlattenRuns ==
    ASSUME NEW ss, Len(ss) \in Nat \ {0}
    PROVE  \E f : Flattens(f, ss, Len(ss)) /\ FlattenSeq(ss) = f[Len(ss)]
<1> DEFINE n == Len(ss)
<1> DEFINE rec(f) == f = [i \in 1..n |-> IF i = 1 THEN ss[i] ELSE f[i - 1] \o ss[i]]
<1> DEFINE flat == CHOOSE f : rec(f)
<1>1. FlattenSeq(ss) = flat[n]
  BY DEF FlattenSeq
<1>2. n \in Nat /\ n # 0
  OBVIOUS
<1>3. PICK f : Flattens(f, ss, n)
  <2> HIDE DEF n, rec, flat
  <2>1. QED BY <1>2, BeginningsExist
<1> HIDE DEF n
<1>4. \A i \in 1..n : i # 1 => i \in 2..n
  BY <1>2
<1>5. 1 \in 1..n
  BY <1>2
<1>6. rec(f)
  <2>1. f = [i \in 1..n |-> f[i]]
    BY <1>3 DEF Flattens
  <2>2. ASSUME NEW i \in 1..n PROVE f[i] = IF i = 1 THEN ss[i] ELSE f[i - 1] \o ss[i]
    <3>1. CASE i = 1
      <4>1. f[1] = ss[1]
        BY <1>3, <1>5 DEF Flattens
      <4>2. QED BY <3>1, <4>1
    <3>2. CASE i # 1
      <4>1. i \in 2..n
        BY <1>4, <3>2
      <4>2. f[i] = f[i - 1] \o ss[i]
        BY <1>3, <4>1 DEF Flattens
      <4>3. QED BY ONLY <3>2, <4>2
    <3>3. QED BY <3>1, <3>2
  <2>3. [i \in 1..n |-> f[i]] = [i \in 1..n |-> IF i = 1 THEN ss[i] ELSE f[i - 1] \o ss[i]]
    BY <2>2
  <2>4. QED BY <2>1, <2>3
<1>7. rec(flat)
  BY <1>6
<1> HIDE DEF flat
<1>8. Flattens(flat, ss, n)
  <2>1. flat = [i \in 1..n |-> flat[i]]
    BY <1>7
  <2>2. flat[1] = ss[1]
    BY <1>5, <1>7
  <2>3. ASSUME NEW i \in 2..n PROVE flat[i] = flat[i - 1] \o ss[i]
    <3>1. i \in 1..n /\ i # 1
      BY <1>2
    <3>2. QED BY <1>7, <3>1
  <2>4. QED BY <2>1, <2>2, <2>3 DEF Flattens
<1>9. QED BY <1>1, <1>8 DEF n

\* The beginnings of sequences over S are sequences over S.
LEMMA BeginningsTyped ==
    ASSUME NEW S, NEW ss \in Seq(Seq(S)), NEW f, Flattens(f, ss, Len(ss))
    PROVE  \A i \in 1..Len(ss) : f[i] \in Seq(S)
<1> DEFINE n == Len(ss)
<1>1. n \in Nat /\ \A i \in 1..n : ss[i] \in Seq(S)
  BY ElementOfSeq
<1>2. /\ 1 \in 1..n => f[1] = ss[1]
      /\ \A i \in 2..n : f[i] = f[i - 1] \o ss[i]
  BY DEF Flattens
<1> HIDE DEF n
<1> DEFINE T == {i \in 1..n : f[i] \notin Seq(S)}
<1>3. T = {}
  <2> SUFFICES ASSUME T # {} PROVE FALSE
    OBVIOUS
  <2>1. PICK i \in T : \A j \in T : i <= j
    <3>1. T \in SUBSET Nat
      BY <1>1
    <3> HIDE DEF T
    <3>2. QED BY <3>1, LeastElement
  <2>2. i \in 1..n /\ f[i] \notin Seq(S)
    OBVIOUS
  <2>3. i # 1
    BY <1>1, <1>2, <2>2
  <2>4. i \in 2..n /\ i - 1 \in 1..n /\ ~(i <= i - 1)
    BY <1>1, <2>2, <2>3
  <2>5. f[i - 1] \in Seq(S)
    BY <2>1, <2>4
  <2>6. f[i] = f[i - 1] \o ss[i] /\ ss[i] \in Seq(S)
    BY <1>1, <1>2, <2>2, <2>4
  <2>7. f[i] \in Seq(S)
    BY <2>5, <2>6, ConcatProperties
  <2>8. QED BY <2>2, <2>7
<1>4. QED BY <1>3 DEF n

\* Flattening lists of lists over S gives a list over S.
LEMMA FlattenTyped ==
    ASSUME NEW S, NEW ss \in Seq(Seq(S))
    PROVE  FlattenSeq(ss) \in Seq(S)
<1>1. Len(ss) \in Nat
  OBVIOUS
<1>2. CASE Len(ss) = 0
  <2>1. ss = <<>> /\ <<>> \in Seq(S)
    BY <1>2, EmptySeq
  <2>2. FlattenSeq(ss) = ss
    BY <1>2 DEF FlattenSeq
  <2>3. QED BY <2>1, <2>2
<1>3. CASE Len(ss) # 0
  <2>1. PICK f : Flattens(f, ss, Len(ss)) /\ FlattenSeq(ss) = f[Len(ss)]
    BY <1>1, <1>3, FlattenRuns
  <2>2. \A i \in 1..Len(ss) : f[i] \in Seq(S)
    BY <2>1, BeginningsTyped
  <2>3. Len(ss) \in 1..Len(ss)
    BY <1>1, <1>3
  <2>4. QED BY <2>1, <2>2, <2>3
<1>4. QED BY <1>2, <1>3

\* Nothing flattened is nothing.
LEMMA FlattenEmpty == FlattenSeq(<<>>) = <<>>
BY DEF FlattenSeq

\* What is flattened begins with the first.
LEMMA FlattenFirst ==
    ASSUME NEW S, NEW ss \in Seq(Seq(S)), ss # <<>>
    PROVE  FlattenSeq(ss) = Head(ss) \o FlattenSeq(Tail(ss))
<1> DEFINE n == Len(ss)
<1> DEFINE tt == Tail(ss)
<1>1. /\ n \in Nat /\ n # 0 /\ Head(ss) = ss[1] /\ ss[1] \in Seq(S)
      /\ tt \in Seq(Seq(S)) /\ Len(tt) = n - 1
      /\ \A i \in 1..(n - 1) : tt[i] = ss[i + 1]
  BY ElementOfSeq
<1>2. PICK f : Flattens(f, ss, n) /\ FlattenSeq(ss) = f[n]
  BY <1>1, FlattenRuns
<1>3. \A i \in 1..n : f[i] \in Seq(S)
  BY <1>2, BeginningsTyped
<1>4. CASE n = 1
  <2>1. Len(tt) = 0
    BY <1>1, <1>4
  <2>2. FlattenSeq(tt) = <<>>
    <3>1. tt = <<>>
      <4>1. tt \in Seq(Seq(S)) /\ Len(tt) = 0
        BY <1>1, <2>1
      <4> HIDE DEF tt
      <4>2. QED BY <4>1, EmptySeq
    <3>2. QED BY <3>1, FlattenEmpty
  <2>3. f[1] = ss[1]
    <3>1. 1 \in 1..1
      OBVIOUS
    <3> HIDE DEF n
    <3>2. QED BY <1>2, <1>4, <3>1 DEF Flattens
  <2>4. ss[1] \o <<>> = ss[1]
    BY <1>1, ConcatEmptySeq
  <2> HIDE DEF n, tt
  <2>5. FlattenSeq(ss) = Head(ss) \o FlattenSeq(tt)
    BY <1>1, <1>2, <1>4, <2>2, <2>3, <2>4
  <2>6. QED BY <2>5 DEF tt
<1>5. CASE n # 1
  <2>1. n - 1 \in Nat \ {0} /\ n - 1 \in 1..(n - 1)
    BY <1>1, <1>5
  <2>2. PICK g : Flattens(g, tt, n - 1) /\ FlattenSeq(tt) = g[n - 1]
    <3>1. Len(tt) \in Nat \ {0}
      BY <1>1, <2>1
    <3> HIDE DEF n, tt
    <3>2. \E g : Flattens(g, tt, Len(tt)) /\ FlattenSeq(tt) = g[Len(tt)]
      BY <3>1, FlattenRuns
    <3>3. QED BY <1>1, <3>2
  <2>3. \A i \in 1..(n - 1) : g[i] \in Seq(S)
    <3> HIDE DEF n, tt
    <3>1. \A i \in 1..Len(tt) : g[i] \in Seq(S)
      BY <1>1, <2>2, BeginningsTyped
    <3>2. QED BY <1>1, <3>1
  <2> DEFINE first == Head(ss)
  <2>4. /\ f[1] = first /\ f[2] = first \o ss[2] /\ (\A i \in 2..n : f[i] = f[i - 1] \o ss[i])
        /\ g[1] = tt[1] /\ (\A i \in 2..(n - 1) : g[i] = g[i - 1] \o tt[i])
    <3>1. 1 \in 1..n /\ 2 \in 2..n /\ 1 \in 1..(n - 1) /\ 2 - 1 = 1
      BY <1>1, <2>1
    <3> HIDE DEF n, tt
    <3>2. f[1] = ss[1] /\ (\A i \in 2..n : f[i] = f[i - 1] \o ss[i])
      BY <1>2, <3>1 DEF Flattens
    <3>3. f[2] = f[1] \o ss[2]
      BY <3>1, <3>2
    <3>4. g[1] = tt[1] /\ (\A i \in 2..(n - 1) : g[i] = g[i - 1] \o tt[i])
      BY <2>2, <3>1 DEF Flattens
    <3>5. QED BY <1>1, <3>2, <3>3, <3>4
  <2>5. first \in Seq(S) /\ \A i \in 1..(n - 1) : tt[i] \in Seq(S)
    BY <1>1, ElementOfSeq
  <2> HIDE DEF n, tt, first
  <2> DEFINE T == {i \in 1..(n - 1) : f[i + 1] # first \o g[i]}
  <2>6. T = {}
    <3> SUFFICES ASSUME T # {} PROVE FALSE
      OBVIOUS
    <3>1. PICK i \in T : \A j \in T : i <= j
      <4>1. T \in SUBSET Nat
        BY <1>1
      <4> HIDE DEF T
      <4>2. QED BY <4>1, LeastElement
    <3>2. i \in 1..(n - 1) /\ f[i + 1] # first \o g[i]
      OBVIOUS
    <3>6. \A j \in 1..(n - 1) : ~(i <= j) => f[j + 1] = first \o g[j]
      BY <3>1
    <3> HIDE DEF T
    <3>3. CASE i = 1
      <4>1. i + 1 = 2 /\ ss[2] = tt[1]
        <5>1. 1 \in 1..(n - 1) /\ 1 + 1 = 2
          BY <3>2, <3>3
        <5>2. QED BY <1>1, <3>3, <5>1
      <4>2. QED BY <2>4, <3>2, <3>3, <4>1
    <3>4. CASE i # 1
      <4>1. /\ i - 1 \in 1..(n - 1) /\ ~(i <= i - 1) /\ (i - 1) + 1 = i /\ i \in 2..(n - 1)
            /\ i + 1 \in 2..n /\ (i + 1) - 1 = i
        BY <1>1, <3>2, <3>4
      <4>2. f[i] = first \o g[i - 1]
        BY <3>6, <4>1
      <4>3. f[i + 1] = f[i] \o ss[i + 1]
        BY <2>4, <4>1
      <4>4. g[i] = g[i - 1] \o tt[i] /\ tt[i] = ss[i + 1]
        BY <1>1, <2>4, <3>2, <4>1
      <4>5. first \o (g[i - 1] \o tt[i]) = (first \o g[i - 1]) \o tt[i]
        <5>1. g[i - 1] \in Seq(S) /\ tt[i] \in Seq(S)
          BY <2>3, <2>5, <3>2, <4>1
        <5> DEFINE before == g[i - 1]
        <5> DEFINE next == tt[i]
        <5>2. before \in Seq(S) /\ next \in Seq(S)
          BY <5>1
        <5> HIDE DEF before, next
        <5>3. first \in Seq(S)
          BY <2>5
        <5>5. (first \o before) \o next = first \o (before \o next)
          BY ONLY <5>2, <5>3, ConcatAssociative, SMTT(40)
        <5>4. QED BY <5>5 DEF before, next
      <4>6. QED BY <3>2, <4>2, <4>3, <4>4, <4>5
    <3>5. QED BY <3>3, <3>4
  <2>7. f[n] = first \o g[n - 1]
    <3>1. (n - 1) + 1 = n
      BY <1>1
    <3>2. QED BY <2>1, <2>6, <3>1
  <2>8. FlattenSeq(ss) = first \o FlattenSeq(tt)
    BY <1>2, <2>2, <2>7
  <2>9. QED BY <2>8 DEF first, tt
<1>6. QED BY <1>4, <1>5

-----------------------------------------------------------------------------
(* The list functions, from the front *)

\* A list that is not empty is its first value and the others.
LEMMA FirstAndRest ==
    ASSUME NEW S, NEW x \in Seq(S), x # <<>>
    PROVE  /\ Len(x) \in Nat /\ Len(x) >= 1 /\ Head(x) = x[1] /\ Head(x) \in S
           /\ Tail(x) \in Seq(S) /\ Len(Tail(x)) = Len(x) - 1
           /\ \A i \in 1..(Len(x) - 1) : Tail(x)[i] = x[i + 1]
BY HeadTailProperties, EmptySeq

\* One value in front of a list.
LEMMA InFront ==
    ASSUME NEW v \in Value, NEW x \in Seq(Value), NEW y \in Seq(Value), NEW n \in Nat,
           Len(x) = n, Len(y) = n + 1, y[1] = v, \A i \in 1..n : y[i + 1] = x[i]
    PROVE  y = <<v>> \o x
<1> DEFINE S == Value
<1> DEFINE z == <<v>> \o x
<1>1. <<v>> \in Seq(S) /\ Len(<<v>>) = 1 /\ <<v>>[1] = v /\ x \in Seq(S) /\ y \in Seq(S)
  OBVIOUS
<1> HIDE DEF S
<1>2. /\ z \in Seq(S)
      /\ Len(z) = n + 1
      /\ \A i \in 1..(n + 1) : z[i] = IF i <= 1 THEN <<v>>[i] ELSE x[i - 1]
  <2>1. Len(<<v>>) + Len(x) = n + 1
    BY <1>1
  <2>2. QED BY <1>1, <2>1, ConcatProperties
<1> HIDE DEF z
<1>3. ASSUME NEW i \in 1..(n + 1) PROVE y[i] = z[i]
  <2>1. CASE i = 1
    BY <1>1, <1>2, <2>1
  <2>2. CASE i # 1
    <3>1. i - 1 \in 1..n /\ (i - 1) + 1 = i /\ ~(i <= 1)
      BY <2>2
    <3>2. z[i] = x[i - 1]
      BY <1>2, <3>1
    <3>3. y[(i - 1) + 1] = x[i - 1]
      BY <3>1
    <3>4. QED BY <3>1, <3>2, <3>3
  <2>3. QED BY <2>1, <2>2
<1>4. y = z
  <2>1. Len(y) = Len(z) /\ \A i \in 1..Len(y) : y[i] = z[i]
    BY <1>2, <1>3
  <2>2. QED BY <1>1, <1>2, <2>1, SeqEqual
<1>5. QED BY <1>4 DEF z

\* What a map and a flat_map make of a value are values, never the sentinel.
LEMMA ValuesMade ==
    /\ \A v \in Value : Doubled(v) \in Value
    /\ \A v \in Value : Expanded(v) \in Seq(Value)
<1>1. ASSUME NEW v \in Value PROVE Doubled(v) \in Value
  BY DEF Value, End, Doubled
<1>2. ASSUME NEW v \in Value PROVE Expanded(v) \in Seq(Value)
  <2>1. CASE v \in Nat
    BY <2>1 DEF Expanded
  <2>2. CASE v \notin Nat
    <3>1. 1..v = 1..0
      BY <2>2 DEF Value
    <3>2. [j \in 1..0 |-> v] \in Seq(Value)
      OBVIOUS
    <3>3. [j \in 1..v |-> v] = [j \in 1..0 |-> v]
      BY <3>1
    <3>4. QED BY <3>2, <3>3 DEF Expanded
  <2>3. QED BY <2>1, <2>2
<1>3. QED BY <1>1, <1>2

\* A map, by the first value of its list.
LEMMA DoubledFirst ==
    /\ DoubledAll(<<>>) = <<>>
    /\ \A x \in Seq(Value) : DoubledAll(x) \in Seq(Value)
    /\ \A x \in Seq(Value) : x # <<>> => DoubledAll(x) = <<Doubled(Head(x))>> \o DoubledAll(Tail(x))
<1>1. DoubledAll(<<>>) = <<>>
  BY DEF DoubledAll
<1>2. ASSUME NEW x \in Seq(Value) PROVE DoubledAll(x) \in Seq(Value)
  BY ValuesMade DEF DoubledAll
<1>3. ASSUME NEW x \in Seq(Value), x # <<>>
      PROVE  DoubledAll(x) = <<Doubled(Head(x))>> \o DoubledAll(Tail(x))
  <2> DEFINE n == Len(x) - 1
  <2> DEFINE y == DoubledAll(x)
  <2> DEFINE z == DoubledAll(Tail(x))
  <2> DEFINE v == Doubled(Head(x))
  <2>1. /\ Len(x) \in Nat /\ Len(x) >= 1 /\ Head(x) = x[1] /\ Head(x) \in Value
        /\ Tail(x) \in Seq(Value) /\ Len(Tail(x)) = n
        /\ \A i \in 1..n : Tail(x)[i] = x[i + 1]
    BY <1>3, FirstAndRest
  <2>2. n \in Nat /\ Len(x) = n + 1
    BY <2>1
  <2>3. y \in Seq(Value) /\ z \in Seq(Value) /\ v \in Value
    BY <1>2, <2>1, ValuesMade
  <2> HIDE DEF n
  <2>4. Len(z) = n /\ \A i \in 1..n : z[i] = Doubled(x[i + 1])
    BY <2>1, <2>2 DEF DoubledAll
  <2>5. Len(y) = n + 1 /\ y[1] = v /\ \A i \in 1..n : y[i + 1] = Doubled(x[i + 1])
    <3>1. 1 \in 1..(n + 1) /\ \A i \in 1..n : i + 1 \in 1..(n + 1)
      BY <2>2
    <3>2. QED BY <2>1, <2>2, <3>1 DEF DoubledAll
  <2>6. \A i \in 1..n : y[i + 1] = z[i]
    BY <2>4, <2>5
  <2> HIDE DEF y, z, v
  <2>7. y = <<v>> \o z
    BY ONLY <2>2, <2>3, <2>4, <2>5, <2>6, InFront
  <2>8. QED BY <2>7 DEF y, z, v
<1>4. QED BY <1>1, <1>2, <1>3

\* Flattening what a function gives for each value of a list, by the first value.
LEMMA FlattenedFirst ==
    ASSUME NEW g, NEW x \in Seq(Value), \A i \in 1..Len(x) : g[x[i]] \in Seq(Value)
    PROVE  /\ FlattenSeq([j \in 1..Len(x) |-> g[x[j]]]) \in Seq(Value)
           /\ x # <<>> => FlattenSeq([j \in 1..Len(x) |-> g[x[j]]])
                            = g[Head(x)] \o FlattenSeq([j \in 1..Len(Tail(x)) |-> g[Tail(x)[j]]])
<1> DEFINE ss == [j \in 1..Len(x) |-> g[x[j]]]
<1> DEFINE tt == [j \in 1..Len(Tail(x)) |-> g[Tail(x)[j]]]
<1> DEFINE S == Value
<1>1. ss \in Seq(Seq(S)) /\ Len(ss) = Len(x) /\ Len(x) \in Nat
  OBVIOUS
<1>2. FlattenSeq(ss) \in Seq(S)
  <2> HIDE DEF S, ss
  <2>1. QED BY <1>1, FlattenTyped
<1>3. ASSUME x # <<>> PROVE FlattenSeq(ss) = g[Head(x)] \o FlattenSeq(tt)
  <2>1. /\ Len(x) \in Nat /\ Len(x) >= 1 /\ Head(x) = x[1]
        /\ Tail(x) \in Seq(Value) /\ Len(Tail(x)) = Len(x) - 1
        /\ \A i \in 1..(Len(x) - 1) : Tail(x)[i] = x[i + 1]
    BY <1>3, FirstAndRest
  <2>2. Tail(ss) = tt /\ Head(ss) = g[Head(x)] /\ ss # <<>>
    <3>1. ss # <<>> /\ Head(ss) = g[Head(x)]
      BY <1>1, <2>1
    <3>2. Tail(ss) = [j \in 1..(Len(x) - 1) |-> ss[j + 1]]
      BY <1>1, <2>1
    <3>3. \A j \in 1..(Len(x) - 1) : ss[j + 1] = g[Tail(x)[j]]
      BY <2>1
    <3>4. QED BY <2>1, <3>1, <3>2, <3>3
  <2> HIDE DEF ss, tt, S
  <2>3. FlattenSeq(ss) = Head(ss) \o FlattenSeq(Tail(ss))
    BY <1>1, <2>2, FlattenFirst
  <2>4. QED BY <2>2, <2>3
<1> HIDE DEF ss, tt
<1>4. QED BY <1>2, <1>3 DEF S, ss, tt

\* A flat_map, by the first value of its list.
LEMMA ExpandedFirst ==
    /\ ExpandedAll(<<>>) = <<>>
    /\ \A x \in Seq(Value) : ExpandedAll(x) \in Seq(Value)
    /\ \A x \in Seq(Value) : x # <<>> => ExpandedAll(x) = Expanded(Head(x)) \o ExpandedAll(Tail(x))
<1>1. ExpandedAll(<<>>) = <<>>
  <2>1. [j \in 1..Len(<<>>) |-> Expanded(<<>>[j])] = <<>>
    OBVIOUS
  <2>2. QED BY <2>1, FlattenEmpty DEF ExpandedAll
<1> DEFINE g == [v \in Value |-> Expanded(v)]
<1>2. ASSUME NEW x \in Seq(Value) PROVE ExpandedAll(x) = FlattenSeq([j \in 1..Len(x) |-> g[x[j]]])
  <2>1. \A j \in 1..Len(x) : x[j] \in Value
    BY ElementOfSeq
  <2>2. [j \in 1..Len(x) |-> g[x[j]]] = [j \in 1..Len(x) |-> Expanded(x[j])]
    BY <2>1
  <2>3. QED BY <2>2 DEF ExpandedAll
<1>3. \A v \in Value : g[v] = Expanded(v) /\ g[v] \in Seq(Value)
  BY ValuesMade
<1> HIDE DEF g
<1>4. ASSUME NEW x \in Seq(Value)
      PROVE  /\ ExpandedAll(x) \in Seq(Value)
             /\ x # <<>> => ExpandedAll(x) = Expanded(Head(x)) \o ExpandedAll(Tail(x))
  <2>1. \A i \in 1..Len(x) : g[x[i]] \in Seq(Value)
    BY <1>3, ElementOfSeq
  <2>2. /\ ExpandedAll(x) \in Seq(Value)
        /\ x # <<>> => ExpandedAll(x) = g[Head(x)] \o FlattenSeq([j \in 1..Len(Tail(x)) |-> g[Tail(x)[j]]])
    BY <1>2, <2>1, FlattenedFirst
  <2>3. x # <<>> => Head(x) \in Value /\ Tail(x) \in Seq(Value)
    BY FirstAndRest
  <2>4. QED BY <1>2, <1>3, <2>2, <2>3
<1>5. QED BY <1>1, <1>4

\* A filter, by the first value of its list.
LEMMA KeptFirst ==
    /\ KeptOf(<<>>) = <<>>
    /\ \A x \in Seq(Value) : KeptOf(x) \in Seq(Value)
    /\ \A x \in Seq(Value) : x # <<>> =>
          KeptOf(x) = (IF Kept(Head(x)) THEN <<Head(x)>> ELSE <<>>) \o KeptOf(Tail(x))
<1>1. KeptOf(<<>>) = <<>>
  <2>1. [j \in 1..Len(<<>>) |-> IF Kept(<<>>[j]) THEN <<<<>>[j]>> ELSE <<>>] = <<>>
    OBVIOUS
  <2>2. QED BY <2>1, FlattenEmpty DEF KeptOf
<1> DEFINE g == [v \in Value |-> IF Kept(v) THEN <<v>> ELSE <<>>]
<1>2. ASSUME NEW x \in Seq(Value) PROVE KeptOf(x) = FlattenSeq([j \in 1..Len(x) |-> g[x[j]]])
  <2>1. \A j \in 1..Len(x) : x[j] \in Value
    BY ElementOfSeq
  <2>2. [j \in 1..Len(x) |-> g[x[j]]] = [j \in 1..Len(x) |-> IF Kept(x[j]) THEN <<x[j]>> ELSE <<>>]
    BY <2>1
  <2>3. QED BY <2>2 DEF KeptOf
<1>3. \A v \in Value : g[v] = (IF Kept(v) THEN <<v>> ELSE <<>>) /\ g[v] \in Seq(Value)
  OBVIOUS
<1> HIDE DEF g
<1>4. ASSUME NEW x \in Seq(Value)
      PROVE  /\ KeptOf(x) \in Seq(Value)
             /\ x # <<>> => KeptOf(x) = (IF Kept(Head(x)) THEN <<Head(x)>> ELSE <<>>) \o KeptOf(Tail(x))
  <2>1. \A i \in 1..Len(x) : g[x[i]] \in Seq(Value)
    BY <1>3, ElementOfSeq
  <2>2. /\ KeptOf(x) \in Seq(Value)
        /\ x # <<>> => KeptOf(x) = g[Head(x)] \o FlattenSeq([j \in 1..Len(Tail(x)) |-> g[Tail(x)[j]]])
    BY <1>2, <2>1, FlattenedFirst
  <2>3. x # <<>> => Head(x) \in Value /\ Tail(x) \in Seq(Value)
    BY FirstAndRest
  <2>4. QED BY <1>2, <1>3, <2>2, <2>3
<1>5. QED BY <1>1, <1>4

\* The first k values of a list, or all of it.
BeginsAs(y, x, n) ==
    /\ y \in Seq(Value)
    /\ n >= 1 => Len(y) = n
    /\ n <= 0 => Len(y) = 0
    /\ \A i \in 1..n : y[i] = x[i]
Fewer(k, len) == IF k < len THEN k ELSE len
\* A take gives the values that its list begins with.
LEMMA FewOf ==
    ASSUME NEW x \in Seq(Value), NEW len \in Nat, Len(x) = len,
           NEW k \in Int, NEW n \in Int, n = Fewer(k, len)
    PROVE  BeginsAs(FirstFew(x, k), x, n)
<1> DEFINE S == Value
<1>1. n <= len /\ FirstFew(x, k) = SubSeq(x, 1, n)
  BY DEF FirstFew, Fewer
<1>2. \A i \in 1..n : x[i] \in S
  BY <1>1, ElementOfSeq
<1>3. 1 \in Int /\ n - 1 + 1 = n /\ \A i \in 1..n : 1 + i - 1 = i
  OBVIOUS
<1> HIDE DEF S
<1>4. /\ SubSeq(x, 1, n) \in Seq(S)
      /\ Len(SubSeq(x, 1, n)) = IF 1 <= n THEN n - 1 + 1 ELSE 0
      /\ \A i \in 1..(n - 1 + 1) : SubSeq(x, 1, n)[i] = x[1 + i - 1]
  BY ONLY <1>2, <1>3, n \in Int, SubSeqProperties
<1>5. /\ SubSeq(x, 1, n) \in Seq(S)
      /\ n >= 1 => Len(SubSeq(x, 1, n)) = n
      /\ n <= 0 => Len(SubSeq(x, 1, n)) = 0
      /\ \A i \in 1..n : SubSeq(x, 1, n)[i] = x[i]
  BY <1>3, <1>4
<1>6. QED BY <1>1, <1>5 DEF S, BeginsAs

\* A take, by the first value of its list: one fewer of the others.
LEMMA FirstFewFirst ==
    /\ \A x \in Seq(Value), k \in Int : FirstFew(x, k) \in Seq(Value)
    /\ \A x \in Seq(Value), k \in Int : k <= 0 \/ x = <<>> => FirstFew(x, k) = <<>>
    /\ \A x \in Seq(Value), k \in Int : x # <<>> /\ k >= 1 =>
          FirstFew(x, k) = <<Head(x)>> \o FirstFew(Tail(x), k - 1)
<1>1. ASSUME NEW x \in Seq(Value), NEW k \in Int PROVE FirstFew(x, k) \in Seq(Value)
  <2>1. PICK len \in Nat : Len(x) = len
    OBVIOUS
  <2>2. PICK n \in Int : n = Fewer(k, len)
    BY DEF Fewer
  <2>3. QED BY <2>1, <2>2, FewOf DEF BeginsAs
<1>2. ASSUME NEW x \in Seq(Value), NEW k \in Int, k <= 0 \/ x = <<>>
      PROVE  FirstFew(x, k) = <<>>
  <2>1. PICK len \in Nat : Len(x) = len /\ (k <= 0 \/ len = 0)
    BY <1>2
  <2>2. PICK n \in Int : n = Fewer(k, len) /\ n <= 0
    BY <2>1 DEF Fewer
  <2>3. Len(FirstFew(x, k)) = 0 /\ FirstFew(x, k) \in Seq(Value)
    BY <2>1, <2>2, FewOf DEF BeginsAs
  <2>4. QED BY <2>3, EmptySeq
<1>3. ASSUME NEW x \in Seq(Value), NEW k \in Int, x # <<>>, k >= 1
      PROVE  FirstFew(x, k) = <<Head(x)>> \o FirstFew(Tail(x), k - 1)
  <2> DEFINE y == FirstFew(x, k)
  <2> DEFINE t == Tail(x)
  <2> DEFINE z == FirstFew(t, k - 1)
  <2> DEFINE v == Head(x)
  <2>1. PICK m \in Nat : Len(x) = m + 1 /\ Len(t) = m
    <3>1. Len(x) \in Nat /\ Len(x) >= 1 /\ Len(t) = Len(x) - 1
      BY <1>3, FirstAndRest
    <3> HIDE DEF t
    <3>2. Len(x) - 1 \in Nat /\ Len(x) = (Len(x) - 1) + 1
      BY <3>1
    <3>3. QED BY <3>1, <3>2
  <2>2. v = x[1] /\ v \in Value /\ t \in Seq(Value) /\ \A i \in 1..m : t[i] = x[i + 1]
    <3>1. \A i \in 1..(Len(x) - 1) : t[i] = x[i + 1]
      BY <1>3, FirstAndRest
    <3>2. 1..(Len(x) - 1) = 1..m
      BY <2>1
    <3>3. QED BY <1>3, <3>1, <3>2, FirstAndRest
  <2> HIDE DEF t, v
  <2>3. PICK n \in Nat : n <= m /\ n + 1 = Fewer(k, m + 1) /\ n = Fewer(k - 1, m)
    <3>1. CASE k < m + 1
      <4>1. k - 1 \in Nat /\ k - 1 < m /\ (k - 1) + 1 = k
        BY <1>3, <3>1
      <4>2. QED BY <3>1, <4>1 DEF Fewer
    <3>2. CASE ~(k < m + 1)
      BY <3>2 DEF Fewer
    <3>3. QED BY <3>1, <3>2
  <2>4. n + 1 \in Int /\ n \in Int /\ n + 1 >= 1 /\ m + 1 \in Nat /\ k - 1 \in Int
    OBVIOUS
  <2>5. BeginsAs(y, x, n + 1)
    BY <2>1, <2>3, <2>4, FewOf
  <2>6. BeginsAs(z, t, n)
    BY <2>1, <2>2, <2>3, <2>4, FewOf
  <2> HIDE DEF y, z
  <2>7. y \in Seq(Value) /\ Len(y) = n + 1 /\ z \in Seq(Value) /\ Len(z) = n
    BY <2>4, <2>5, <2>6 DEF BeginsAs
  <2>8. y[1] = v /\ \A i \in 1..n : y[i + 1] = z[i]
    <3>1. ASSUME NEW i \in 1..n PROVE i + 1 \in 1..(n + 1) /\ i \in 1..m
      BY <2>3
    <3>2. 1 \in 1..(n + 1)
      BY <2>3
    <3>3. QED BY <2>2, <2>5, <2>6, <3>1, <3>2 DEF BeginsAs
  <2>9. y = <<v>> \o z
    BY ONLY <2>2, <2>3, <2>7, <2>8, InFront
  <2>10. QED BY <2>9 DEF y, z, v, t
<1>4. QED BY <1>1, <1>2, <1>3

\* z is x and y in turn, of m and n values, and then what the longer one has left.
InTurn(x, y, j) == IF j % 2 = 1 THEN x[(j + 1) \div 2] ELSE y[j \div 2]
IsMerge(z, x, y, m, n) ==
    /\ z \in Seq(Value) /\ Len(z) = m + n
    /\ m < n => \A j \in 1..(m + n) : z[j] = IF j > 2 * m THEN y[j - m] ELSE InTurn(x, y, j)
    /\ ~(m < n) => \A j \in 1..(m + n) : z[j] = IF j > 2 * n THEN x[j - n] ELSE InTurn(x, y, j)

\* A merge has the values of its two lists at their places.
LEMMA MergedAt ==
    ASSUME NEW x \in Seq(Value), NEW y \in Seq(Value), NEW m \in Nat, NEW n \in Nat,
           Len(x) = m, Len(y) = n
    PROVE  IsMerge(Merged(x, y), x, y, m, n)
<1>1. /\ \A j \in 1..m : x[j] \in Value
      /\ \A j \in 1..n : y[j] \in Value
  BY ElementOfSeq
<1>2. \A j \in 1..(m + n) : (j % 2 = 1 => (j + 1) \div 2 \in 1..j /\ 2 * ((j + 1) \div 2) = j + 1)
                         /\ (j % 2 # 1 => j \div 2 \in 1..j /\ 2 * (j \div 2) = j)
  OBVIOUS
<1>3. CASE m < n
  <2> DEFINE f == [j \in 1..(m + n) |-> IF j > 2 * m THEN y[j - m] ELSE IF j % 2 = 1 THEN x[(j + 1) \div 2] ELSE y[j \div 2]]
  <2>1. Merged(x, y) = f
    BY <1>3 DEF Merged
  <2>2. ASSUME NEW j \in 1..(m + n) PROVE f[j] \in Value
    <3>1. CASE j > 2 * m
      <4>1. j - m \in 1..n
        BY <3>1
      <4>2. QED BY <1>1, <3>1, <4>1
    <3>2. CASE j <= 2 * m /\ j % 2 = 1
      <4>1. (j + 1) \div 2 \in 1..m
        BY <1>2, <3>2
      <4>2. QED BY <1>1, <3>2, <4>1
    <3>3. CASE j <= 2 * m /\ j % 2 # 1
      <4>1. j \div 2 \in 1..n
        BY <1>2, <1>3, <3>3
      <4>2. QED BY <1>1, <3>3, <4>1
    <3>4. QED BY <3>1, <3>2, <3>3
  <2>3. f \in Seq(Value) /\ Len(f) = m + n
    BY <2>2
  <2>4. QED BY <1>3, <2>1, <2>3 DEF IsMerge, InTurn
<1>4. CASE ~(m < n)
  <2> DEFINE f == [j \in 1..(m + n) |-> IF j > 2 * n THEN x[j - n] ELSE IF j % 2 = 1 THEN x[(j + 1) \div 2] ELSE y[j \div 2]]
  <2>1. Merged(x, y) = f
    BY <1>4 DEF Merged
  <2>2. ASSUME NEW j \in 1..(m + n) PROVE f[j] \in Value
    <3>1. CASE j > 2 * n
      <4>1. j - n \in 1..m
        BY <3>1
      <4>2. QED BY <1>1, <3>1, <4>1
    <3>2. CASE j <= 2 * n /\ j % 2 = 1
      <4>1. (j + 1) \div 2 \in 1..m
        BY <1>2, <1>4, <3>2
      <4>2. QED BY <1>1, <3>2, <4>1
    <3>3. CASE j <= 2 * n /\ j % 2 # 1
      <4>1. j \div 2 \in 1..n
        BY <1>2, <3>3
      <4>2. QED BY <1>1, <3>3, <4>1
    <3>4. QED BY <3>1, <3>2, <3>3
  <2>3. f \in Seq(Value) /\ Len(f) = m + n
    BY <2>2
  <2>4. QED BY <1>4, <2>1, <2>3 DEF IsMerge, InTurn
<1>5. QED BY <1>3, <1>4

\* A merge, by the first value of the list whose turn it is: the other one is next.
LEMMA MergedFirst ==
    /\ \A x, y \in Seq(Value) : Merged(x, y) \in Seq(Value)
    /\ \A x \in Seq(Value) : Merged(x, <<>>) = x /\ Merged(<<>>, x) = x
    /\ \A x, y \in Seq(Value) : x # <<>> => Merged(x, y) = <<Head(x)>> \o Merged(y, Tail(x))
<1>1. ASSUME NEW x \in Seq(Value), NEW y \in Seq(Value) PROVE Merged(x, y) \in Seq(Value)
  <2>1. PICK m \in Nat, n \in Nat : Len(x) = m /\ Len(y) = n
    OBVIOUS
  <2>2. QED BY <2>1, MergedAt DEF IsMerge
<1>2. ASSUME NEW x \in Seq(Value) PROVE Merged(x, <<>>) = x /\ Merged(<<>>, x) = x
  <2> DEFINE e == <<>>
  <2>1. e \in Seq(Value) /\ Len(e) = 0
    OBVIOUS
  <2>2. PICK m \in Nat : Len(x) = m
    OBVIOUS
  <2> HIDE DEF e
  <2>3. 0 \in Nat /\ m + 0 = m /\ 0 + m = m /\ 2 * 0 = 0 /\ ~(m < 0)
    OBVIOUS
  <2>4. \A j \in 1..m : j > 0 /\ j - 0 = j
    OBVIOUS
  <2> DEFINE right == Merged(x, e)
  <2>5. IsMerge(right, x, e, m, 0)
    BY <2>1, <2>2, <2>3, MergedAt
  <2> DEFINE left == Merged(e, x)
  <2>6. IsMerge(left, e, x, 0, m)
    BY <2>1, <2>2, <2>3, MergedAt
  <2> HIDE DEF right, left
  <2>7. right = x
    <3>1. right \in Seq(Value) /\ Len(right) = m /\ \A j \in 1..m : right[j] = x[j]
      BY <2>3, <2>4, <2>5 DEF IsMerge
    <3>2. QED BY <2>2, <3>1, SeqEqual
  <2>8. left = x
    <3>1. left \in Seq(Value) /\ Len(left) = m
      BY <2>3, <2>6 DEF IsMerge
    <3>2. \A j \in 1..m : left[j] = x[j]
      <4>1. CASE 0 < m
        BY <2>3, <2>4, <2>6, <4>1 DEF IsMerge
      <4>2. CASE ~(0 < m)
        <5>1. \A j \in 1..m : FALSE
          BY <4>2
        <5>2. QED BY <5>1
      <4>3. QED BY <4>1, <4>2
    <3>3. QED BY <2>2, <3>1, <3>2, SeqEqual
  <2>9. QED BY <2>7, <2>8 DEF e, left, right
<1>3. ASSUME NEW x \in Seq(Value), NEW y \in Seq(Value), x # <<>>
      PROVE  Merged(x, y) = <<Head(x)>> \o Merged(y, Tail(x))
  <2> DEFINE t == Tail(x)
  <2> DEFINE v == Head(x)
  <2> DEFINE u == Merged(x, y)
  <2> DEFINE w == Merged(y, t)
  <2>1. PICK m \in Nat : Len(x) = m + 1 /\ Len(t) = m
    <3>1. Len(x) \in Nat /\ Len(x) >= 1 /\ Len(t) = Len(x) - 1
      BY <1>3, FirstAndRest
    <3> HIDE DEF t
    <3>2. Len(x) - 1 \in Nat /\ Len(x) = (Len(x) - 1) + 1
      BY <3>1
    <3>3. QED BY <3>1, <3>2
  <2>2. v = x[1] /\ v \in Value /\ t \in Seq(Value) /\ \A i \in 1..m : t[i] = x[i + 1]
    <3>1. \A i \in 1..(Len(x) - 1) : t[i] = x[i + 1]
      BY <1>3, FirstAndRest
    <3>2. 1..(Len(x) - 1) = 1..m
      BY <2>1
    <3>3. QED BY <1>3, <3>1, <3>2, FirstAndRest
  <2>3. PICK n \in Nat : Len(y) = n
    OBVIOUS
  <2>4. m + 1 \in Nat /\ (m + 1) + n = (n + m) + 1 /\ n + m \in Nat
    OBVIOUS
  <2> HIDE DEF t, v
  <2>5. IsMerge(u, x, y, m + 1, n)
    BY <2>1, <2>3, <2>4, MergedAt
  <2>6. IsMerge(w, y, t, n, m)
    BY <2>1, <2>2, <2>3, MergedAt
  <2> HIDE DEF u, w
  <2>7. u[1] = v
    <3>1. 1 \in 1..((m + 1) + n) /\ 1 % 2 = 1 /\ (1 + 1) \div 2 = 1
      OBVIOUS
    <3>2. CASE m + 1 < n
      <4>1. ~(1 > 2 * (m + 1))
        OBVIOUS
      <4>2. QED BY <2>2, <2>5, <3>1, <3>2, <4>1 DEF IsMerge, InTurn
    <3>3. CASE ~(m + 1 < n) /\ n # 0
      <4>1. ~(1 > 2 * n)
        BY <3>3
      <4>2. QED BY <2>2, <2>5, <3>1, <3>3, <4>1 DEF IsMerge, InTurn
    <3>4. CASE n = 0
      <4>1. 1 > 2 * n /\ 1 - n = 1 /\ ~(m + 1 < n)
        BY <3>4
      <4>2. QED BY <2>2, <2>5, <3>1, <4>1 DEF IsMerge, InTurn
    <3>5. QED BY <3>2, <3>3, <3>4
  <2>8. ASSUME NEW i \in 1..(n + m) PROVE u[i + 1] = w[i]
    <3>1. i + 1 \in 1..((m + 1) + n) /\ i \in Int
      OBVIOUS
    <3>2. /\ i % 2 = 1 => (i + 1) % 2 # 1
          /\ i % 2 # 1 => /\ (i + 1) % 2 = 1 /\ ((i + 1) + 1) \div 2 = (i \div 2) + 1
                          /\ i \div 2 \in Nat /\ 2 * (i \div 2) = i
      OBVIOUS
    <3>3. CASE n < m
      <4>1. /\ u[i + 1] = IF i + 1 > 2 * n THEN x[(i + 1) - n] ELSE IF (i + 1) % 2 = 1 THEN x[((i + 1) + 1) \div 2] ELSE y[(i + 1) \div 2]
            /\ w[i] = IF i > 2 * n THEN t[i - n] ELSE IF i % 2 = 1 THEN y[(i + 1) \div 2] ELSE t[i \div 2]
        BY <2>5, <2>6, <3>1, <3>3 DEF IsMerge, InTurn
      <4>2. CASE i > 2 * n
        <5>1. i + 1 > 2 * n /\ i - n \in 1..m /\ (i - n) + 1 = (i + 1) - n
          BY <4>2
        <5>2. QED BY <2>2, <4>1, <4>2, <5>1
      <4>3. CASE i = 2 * n
        <5>1. i + 1 > 2 * n /\ ~(i > 2 * n) /\ i % 2 # 1 /\ i \div 2 = n /\ (i + 1) - n = n + 1 /\ n \in 1..m
          BY <3>3, <4>3
        <5>2. QED BY <2>2, <4>1, <5>1
      <4>4. CASE i < 2 * n /\ i % 2 = 1
        BY <3>2, <4>1, <4>4
      <4>5. CASE i < 2 * n /\ i % 2 # 1
        <5>1. i \div 2 \in 1..m /\ ~(i + 1 > 2 * n) /\ ~(i > 2 * n)
          BY <3>2, <3>3, <4>5
        <5>2. QED BY <2>2, <3>2, <4>1, <4>5, <5>1
      <4>6. QED BY <4>2, <4>3, <4>4, <4>5
    <3>4. CASE n = m
      <4>1. /\ u[i + 1] = IF i + 1 > 2 * n THEN x[(i + 1) - n] ELSE InTurn(x, y, i + 1)
            /\ w[i] = IF i > 2 * m THEN y[i - m] ELSE InTurn(y, t, i)
        <5>1. ~(m + 1 < n) /\ ~(n < m)
          BY <3>4
        <5>2. \A j \in 1..((m + 1) + n) : u[j] = IF j > 2 * n THEN x[j - n] ELSE InTurn(x, y, j)
          BY <2>5, <5>1 DEF IsMerge
        <5>3. \A j \in 1..(n + m) : w[j] = IF j > 2 * m THEN y[j - m] ELSE InTurn(y, t, j)
          BY <2>6, <5>1 DEF IsMerge
        <5>4. QED BY <3>1, <5>2, <5>3
      <4>2. CASE i = 2 * n
        <5>1. i + 1 > 2 * n /\ ~(i > 2 * m) /\ i % 2 # 1 /\ i \div 2 = n /\ (i + 1) - n = n + 1 /\ n \in 1..m
          BY <3>4, <4>2
        <5>2. QED BY <2>2, <4>1, <5>1 DEF InTurn
      <4>3. CASE i < 2 * n /\ i % 2 = 1
        BY <3>2, <3>4, <4>1, <4>3 DEF InTurn
      <4>4. CASE i < 2 * n /\ i % 2 # 1
        <5>1. i \div 2 \in 1..m /\ ~(i + 1 > 2 * n) /\ ~(i > 2 * m)
          BY <3>2, <3>4, <4>4
        <5>2. QED BY <2>2, <3>2, <4>1, <4>4, <5>1 DEF InTurn
      <4>5. QED BY <3>4, <4>2, <4>3, <4>4
    <3>5. CASE n = m + 1
      <4>1. /\ u[i + 1] = IF i + 1 > 2 * n THEN x[(i + 1) - n] ELSE InTurn(x, y, i + 1)
            /\ w[i] = IF i > 2 * m THEN y[i - m] ELSE InTurn(y, t, i)
        <5>1. ~(m + 1 < n) /\ ~(n < m)
          BY <3>5
        <5>2. \A j \in 1..((m + 1) + n) : u[j] = IF j > 2 * n THEN x[j - n] ELSE InTurn(x, y, j)
          BY <2>5, <5>1 DEF IsMerge
        <5>3. \A j \in 1..(n + m) : w[j] = IF j > 2 * m THEN y[j - m] ELSE InTurn(y, t, j)
          BY <2>6, <5>1 DEF IsMerge
        <5>4. QED BY <3>1, <5>2, <5>3
      <4>2. CASE i = 2 * m + 1
        <5>1. ~(i + 1 > 2 * n) /\ i > 2 * m /\ (i + 1) % 2 # 1 /\ (i + 1) \div 2 = m + 1 /\ i - m = m + 1
          BY <3>5, <4>2
        <5>2. QED BY <4>1, <5>1 DEF InTurn
      <4>3. CASE i <= 2 * m /\ i % 2 = 1
        BY <3>2, <3>5, <4>1, <4>3 DEF InTurn
      <4>4. CASE i <= 2 * m /\ i % 2 # 1
        <5>1. i \div 2 \in 1..m /\ ~(i + 1 > 2 * n) /\ ~(i > 2 * m)
          BY <3>2, <3>5, <4>4
        <5>2. QED BY <2>2, <3>2, <4>1, <4>4, <5>1 DEF InTurn
      <4>5. QED BY <3>5, <4>2, <4>3, <4>4
    <3>6. CASE m + 1 < n
      <4>1. /\ u[i + 1] = IF i + 1 > 2 * (m + 1) THEN y[(i + 1) - (m + 1)] ELSE IF (i + 1) % 2 = 1 THEN x[((i + 1) + 1) \div 2] ELSE y[(i + 1) \div 2]
            /\ w[i] = IF i > 2 * m THEN y[i - m] ELSE IF i % 2 = 1 THEN y[(i + 1) \div 2] ELSE t[i \div 2]
        BY <2>5, <2>6, <3>1, <3>6 DEF IsMerge, InTurn
      <4>2. CASE i > 2 * m + 1
        <5>1. i + 1 > 2 * (m + 1) /\ i > 2 * m /\ (i + 1) - (m + 1) = i - m
          BY <4>2
        <5>2. QED BY <4>1, <5>1
      <4>3. CASE i = 2 * m + 1
        <5>1. ~(i + 1 > 2 * (m + 1)) /\ i > 2 * m /\ (i + 1) % 2 # 1 /\ (i + 1) \div 2 = m + 1 /\ i - m = m + 1
          BY <4>3
        <5>2. QED BY <4>1, <5>1
      <4>4. CASE i <= 2 * m /\ i % 2 = 1
        BY <3>2, <4>1, <4>4
      <4>5. CASE i <= 2 * m /\ i % 2 # 1
        <5>1. i \div 2 \in 1..m /\ ~(i + 1 > 2 * (m + 1)) /\ ~(i > 2 * m)
          BY <3>2, <4>5
        <5>2. QED BY <2>2, <3>2, <4>1, <4>5, <5>1
      <4>6. QED BY <4>2, <4>3, <4>4, <4>5
    <3>7. QED BY <3>3, <3>4, <3>5, <3>6
  <2>9. u = <<v>> \o w
    <3>1. n + m \in Nat /\ Len(u) = (n + m) + 1 /\ Len(w) = n + m /\ u \in Seq(Value) /\ w \in Seq(Value)
      BY <2>4, <2>5, <2>6 DEF IsMerge
    <3>2. u[1] = v /\ \A i \in 1..(n + m) : u[i + 1] = w[i]
      BY <2>7, <2>8
    <3> DEFINE k == n + m
    <3>3. k \in Nat /\ Len(u) = k + 1 /\ Len(w) = k /\ \A i \in 1..k : u[i + 1] = w[i]
      BY <3>1, <3>2
    <3> HIDE DEF k
    <3>4. QED BY <2>2, <3>1, <3>2, <3>3, InFront
  <2>10. QED BY <2>9 DEF t, v, u, w
<1>4. QED BY <1>1, <1>2, <1>3

-----------------------------------------------------------------------------
(* The list of each stage *)

-----------------------------------------------------------------------------
(* The list of each stage.                                                   *)

Kinds == {"gen", "map", "filter", "flat_map", "take", "merge"}

\* What a stage of each kind has, and which streams it reads.
LEMMA StageShape ==
    ASSUME IsPipeline(stages), NEW i \in Stage
    PROVE  /\ Stage = 1..Last_ /\ Last_ \in Nat \ {0} /\ i \in Nat /\ i >= 1
           /\ stages[i].k \in Kinds
           /\ stages[i].k = "gen" => stages[i].xs \in Seq(Value) /\ Sources(stages[i]) = {}
           /\ stages[i].k \in {"map", "filter", "flat_map", "take"} =>
                  stages[i].in \in 1..(i - 1) /\ Sources(stages[i]) = {stages[i].in}
           /\ stages[i].k = "take" => stages[i].n \in Int
           /\ stages[i].k = "merge" =>
                  /\ stages[i].a \in 1..(i - 1) /\ stages[i].b \in 1..(i - 1) /\ stages[i].a # stages[i].b
                  /\ Sources(stages[i]) = {stages[i].a, stages[i].b}
<1> DEFINE s == stages[i]
<1>1. Stage = 1..Last_ /\ Last_ \in Nat \ {0} /\ i \in Nat /\ i >= 1 /\ s \in StageAt(i)
  BY DEF IsPipeline, Stage, Last_
<1> HIDE DEF s
<1>2. CASE s \in [k : {"gen"}, xs : Seq(Value)]
  <2>1. s.k = "gen" /\ s.xs \in Seq(Value)
    BY <1>2
  <2>2. QED BY <1>1, <2>1 DEF s, Sources, Kinds
<1>3. CASE s \in [k : {"map", "filter", "flat_map"}, in : 1..(i - 1)]
  <2>1. s.k \in {"map", "filter", "flat_map"} /\ s.in \in 1..(i - 1)
    BY <1>3
  <2>2. QED BY <1>1, <2>1 DEF s, Sources, Kinds
<1>4. CASE s \in [k : {"take"}, in : 1..(i - 1), n : Int]
  <2>1. s.k = "take" /\ s.in \in 1..(i - 1) /\ s.n \in Int
    BY <1>4
  <2>2. QED BY <1>1, <2>1 DEF s, Sources, Kinds
<1>5. CASE s \in {r \in [k : {"merge"}, a : 1..(i - 1), b : 1..(i - 1)] : r.a # r.b}
  <2>1. s.k = "merge" /\ s.a \in 1..(i - 1) /\ s.b \in 1..(i - 1) /\ s.a # s.b
    BY <1>5
  <2>2. QED BY <1>1, <2>1 DEF s, Sources, Kinds
<1>6. QED BY <1>1, <1>2, <1>3, <1>4, <1>5 DEF StageAt

\* A stage gives the same of two assignments of lists that agree on its sources.
LEMMA GivenAgrees ==
    ASSUME IsPipeline(stages), NEW i \in Stage, NEW f, NEW g, NEW gone, NEW turn,
           \A j \in Sources(stages[i]) : f[j] = g[j]
    PROVE  Given(stages[i], f, gone, turn) = Given(stages[i], g, gone, turn)
BY StageShape DEF Given, Kinds

\* Of lists of values a stage gives a list of values.
LEMMA GivenTyped ==
    ASSUME IsPipeline(stages), NEW i \in Stage, NEW f, NEW gone \in Int, NEW turn,
           \A j \in Sources(stages[i]) : f[j] \in Seq(Value)
    PROVE  Given(stages[i], f, gone, turn) \in Seq(Value)
<1> DEFINE s == stages[i]
<1>1. CASE s.k = "gen"
  BY <1>1, StageShape DEF Given
<1>2. CASE s.k \in {"map", "filter", "flat_map"}
  <2>1. f[s.in] \in Seq(Value)
    BY <1>2, StageShape
  <2>2. QED BY <1>2, <2>1, DoubledFirst, KeptFirst, ExpandedFirst DEF Given
<1>3. CASE s.k = "take"
  <2>1. f[s.in] \in Seq(Value)
    BY <1>3, StageShape
  <2>2. s.n \in Int
    BY <1>3, StageShape
  <2> DEFINE n == s.n
  <2>3. n - gone \in Int
    <3>1. n \in Int
      BY <2>2
    <3> HIDE DEF n
    <3>2. QED BY <3>1
  <2>4. QED BY <1>3, <2>1, <2>3, FirstFewFirst DEF Given
<1>4. CASE s.k = "merge"
  <2>1. f[s.a] \in Seq(Value) /\ f[s.b] \in Seq(Value)
    BY <1>4, StageShape
  <2>2. QED BY <1>4, <2>1, MergedFirst DEF Given
<1>5. QED BY <1>1, <1>2, <1>3, <1>4, StageShape DEF Kinds

Lists(f, n) == \A i \in 1..n : f[i] = Given(stages[i], f, 0, "a")

\* There are lists for the first n stages: over the least n that had none, one could
\* be added.
LEMMA ListsExist ==
    ASSUME IsPipeline(stages)
    PROVE  \A n \in 0..Last_ : \E f : Lists(f, n)
<1> DEFINE T == {n \in 0..Last_ : ~ \E f : Lists(f, n)}
<1> SUFFICES ASSUME T # {} PROVE FALSE
  OBVIOUS
<1>0. Stage = 1..Last_ /\ Last_ \in Nat
  BY DEF IsPipeline, Stage, Last_
<1>1. PICK n \in T : \A m \in T : n <= m
  <2>1. T \in SUBSET Nat
    BY <1>0
  <2> HIDE DEF T
  <2>2. QED BY <2>1, LeastElement
<1>2. n \in 0..Last_ /\ ~ \E f : Lists(f, n)
  OBVIOUS
<1>3. n # 0
  <2>1. Lists(<<>>, 0)
    BY DEF Lists
  <2>2. QED BY <1>2, <2>1
<1>4. n - 1 \in 0..Last_ /\ ~(n <= n - 1) /\ n \in Stage /\ n \in Nat
  BY <1>0, <1>2, <1>3
<1>5. PICK g : Lists(g, n - 1)
  BY <1>1, <1>4
<1> HIDE DEF T
<1> DEFINE f == [i \in 1..n |-> IF i = n THEN Given(stages[n], g, 0, "a") ELSE g[i]]
<1>6. \A i \in 1..(n - 1) : f[i] = g[i]
  BY <1>4
<1>7. f[n] = Given(stages[n], g, 0, "a")
  BY <1>4
<1> HIDE DEF f
<1>8. ASSUME NEW i \in 1..n PROVE f[i] = Given(stages[i], f, 0, "a")
  <2>1. i \in Stage /\ (i # n => i \in 1..(n - 1)) /\ 1..(i - 1) \in SUBSET (1..(n - 1))
    BY <1>0, <1>4
  <2>2. \A j \in Sources(stages[i]) : g[j] = f[j]
    <3>1. Sources(stages[i]) \in SUBSET (1..(i - 1))
      BY <2>1, StageShape DEF Kinds
    <3>2. QED BY <1>6, <2>1, <3>1
  <2>3. Given(stages[i], g, 0, "a") = Given(stages[i], f, 0, "a")
    BY <2>1, <2>2, GivenAgrees
  <2>4. f[i] = Given(stages[i], g, 0, "a")
    BY <1>5, <1>6, <1>7, <2>1 DEF Lists
  <2>5. QED BY <2>3, <2>4
<1>9. Lists(f, n)
  BY <1>8 DEF Lists
<1>10. QED BY <1>2, <1>9

\* ListOf is the function that its definition says, and gives lists of values.
LEMMA ListsGiven ==
    ASSUME IsPipeline(stages)
    PROVE  \A i \in Stage : ListOf[i] \in Seq(Value) /\ ListOf[i] = Given(stages[i], ListOf, 0, "a")
<1>0. Stage = 1..Last_ /\ Last_ \in Nat
  BY DEF IsPipeline, Stage, Last_
<1> DEFINE made(i, f) == Given(stages[i], f, 0, "a")
<1> DEFINE rec(f) == f = [i \in Stage |-> made(i, f)]
<1>1. ListOf = CHOOSE f : rec(f)
  BY DEF ListOf
<1>2. \A f : \A i \in Stage : made(i, f) = Given(stages[i], f, 0, "a")
  OBVIOUS
<1> HIDE DEF made
<1>3. PICK g : Lists(g, Last_)
  BY <1>0, ListsExist
<1> DEFINE h == [i \in Stage |-> g[i]]
<1>4. \A i \in Stage : h[i] = g[i]
  OBVIOUS
<1>5. ASSUME NEW i \in Stage PROVE h[i] = made(i, h)
  <2>1. Sources(stages[i]) \in SUBSET Stage
    <3>1. Sources(stages[i]) \in SUBSET (1..(i - 1)) /\ i \in Nat /\ i \in 1..Last_
      BY <1>0, StageShape DEF Kinds
    <3>2. 1..(i - 1) \in SUBSET (1..Last_)
      BY <1>0, <3>1
    <3>3. QED BY <1>0, <3>1, <3>2
  <2> HIDE DEF h
  <2>2. Given(stages[i], g, 0, "a") = Given(stages[i], h, 0, "a")
    BY <1>4, <2>1, GivenAgrees
  <2>3. g[i] = Given(stages[i], g, 0, "a")
    BY <1>0, <1>3 DEF Lists
  <2>4. QED BY <1>2, <1>4, <2>2, <2>3
<1>6. rec(h)
  <2>1. h = [i \in Stage |-> h[i]]
    OBVIOUS
  <2> HIDE DEF h
  <2>2. [i \in Stage |-> h[i]] = [i \in Stage |-> made(i, h)]
    BY <1>5
  <2>3. QED BY <2>1, <2>2
<1> HIDE DEF h
<1>7. rec(ListOf)
  <2> HIDE DEF rec
  <2>1. QED BY <1>1, <1>6
<1>8. \A i \in Stage : ListOf[i] = Given(stages[i], ListOf, 0, "a")
  BY <1>2, <1>7
<1> DEFINE T == {i \in Stage : ListOf[i] \notin Seq(Value)}
<1>9. T = {}
  <2> SUFFICES ASSUME T # {} PROVE FALSE
    OBVIOUS
  <2>1. PICK i \in T : \A j \in T : i <= j
    <3>1. T \in SUBSET Nat
      BY <1>0
    <3> HIDE DEF T
    <3>2. QED BY <3>1, LeastElement
  <2>2. i \in Stage /\ ListOf[i] \notin Seq(Value)
    OBVIOUS
  <2>3. \A j \in Stage : ~(i <= j) => ListOf[j] \in Seq(Value)
    BY <2>1
  <2> HIDE DEF T
  <2>4. \A j \in Sources(stages[i]) : j \in Stage /\ ~(i <= j)
    <3>1. Sources(stages[i]) \in SUBSET (1..(i - 1)) /\ i \in Nat /\ i \in 1..Last_
      BY <1>0, <2>2, StageShape DEF Kinds
    <3>2. \A j \in 1..(i - 1) : j \in 1..Last_ /\ ~(i <= j)
      BY <1>0, <3>1
    <3>3. QED BY <1>0, <3>1, <3>2
  <2>5. \A j \in Sources(stages[i]) : ListOf[j] \in Seq(Value)
    BY <2>3, <2>4
  <2>6. 0 \in Int
    OBVIOUS
  <2>7. Given(stages[i], ListOf, 0, "a") \in Seq(Value)
    BY <2>2, <2>5, <2>6, GivenTyped
  <2>8. QED BY <1>8, <2>2, <2>7
<1>10. QED BY <1>8, <1>9

-----------------------------------------------------------------------------
(* What is in a stream and what is still to come *)

\* The sentinel is an int that is no value.
LEMMA ValuesAreInts == Seq(Value) \in SUBSET Seq(Int) /\ Value \in SUBSET Int /\ End \in Int /\ End \notin Value
<1>1. Value \in SUBSET Int /\ End \in Int /\ End \notin Value
  BY DEF Value, End
<1>2. ASSUME NEW x \in Seq(Value) PROVE x \in Seq(Int)
  <2>1. Len(x) \in Nat /\ x \in [1..Len(x) -> Value]
    BY LenProperties
  <2> DEFINE S == Value
  <2>2. S \subseteq Int /\ x \in Seq(S)
    BY <1>1
  <2> HIDE DEF S
  <2>3. QED BY <2>2, SeqMonotonic
<1>3. QED BY <1>1, <1>2

\* The head of p is the head of what p begins.
LEMMA HeadOfConcat ==
    ASSUME NEW p \in Seq(Int), p # <<>>, NEW f \in Seq(Int)
    PROVE  p \o f # <<>> /\ p \o f \in Seq(Int) /\ Head(p \o f) = Head(p) /\ Tail(p \o f) = Tail(p) \o f
<1> DEFINE z == p \o f
<1>1. PICK m \in Nat : Len(p) = m + 1
  <2>1. Len(p) \in Nat /\ Len(p) >= 1
    BY FirstAndRest
  <2>2. Len(p) - 1 \in Nat /\ Len(p) = (Len(p) - 1) + 1
    BY <2>1
  <2>3. QED BY <2>2
<1>2. PICK n \in Nat : Len(f) = n
  OBVIOUS
<1>3. /\ z \in Seq(Int) /\ Len(z) = (m + 1) + n
      /\ \A i \in 1..((m + 1) + n) : z[i] = IF i <= m + 1 THEN p[i] ELSE f[i - (m + 1)]
  <2>1. /\ z \in Seq(Int) /\ Len(z) = Len(p) + Len(f)
        /\ \A i \in 1..Len(p) + Len(f) : z[i] = IF i <= Len(p) THEN p[i] ELSE f[i - Len(p)]
    BY ConcatProperties
  <2> HIDE DEF z
  <2>2. QED BY <1>1, <1>2, <2>1
<1> DEFINE t == Tail(p)
<1>4. t \in Seq(Int) /\ Len(t) = m /\ (\A i \in 1..m : t[i] = p[i + 1]) /\ Head(p) = p[1]
  <2>1. Len(t) = Len(p) - 1
    BY FirstAndRest
  <2>2. Len(t) = m
    BY <1>1, <2>1
  <2>3. 1..(Len(p) - 1) = 1..m
    BY <1>1
  <2>4. QED BY <2>2, <2>3, FirstAndRest
<1> HIDE DEF z
<1>5. z # <<>> /\ Head(z) = p[1]
  <2>1. 1 \in 1..((m + 1) + n) /\ 1 <= m + 1
    OBVIOUS
  <2>2. z # <<>>
    BY <1>3
  <2>3. Head(z) = z[1]
    BY <1>3, <2>2, FirstAndRest
  <2>4. QED BY <1>3, <2>1, <2>2, <2>3
<1> DEFINE w == Tail(z)
<1>6. w \in Seq(Int) /\ Len(w) = m + n /\ \A i \in 1..(m + n) : w[i] = z[i + 1]
  <2>1. Len(w) = Len(z) - 1
    BY <1>3, <1>5, FirstAndRest
  <2>2. Len(w) = m + n
    <3> DEFINE k == Len(w)
    <3> DEFINE l == Len(z)
    <3>1. k = l - 1 /\ l = (m + 1) + n
      BY <1>3, <2>1
    <3> HIDE DEF k, l
    <3>2. k = m + n
      BY <3>1
    <3>3. QED BY <3>2 DEF k
  <2>3. 1..(Len(z) - 1) = 1..(m + n)
    BY <1>3
  <2>4. QED BY <1>3, <1>5, <2>2, <2>3, FirstAndRest
<1> HIDE DEF w, t
<1> DEFINE u == t \o f
<1>7. /\ u \in Seq(Int) /\ Len(u) = m + n
      /\ \A i \in 1..(m + n) : u[i] = IF i <= m THEN t[i] ELSE f[i - m]
  BY <1>2, <1>4, ConcatProperties
<1> HIDE DEF u
<1>8. ASSUME NEW i \in 1..(m + n) PROVE w[i] = u[i]
  <2>1. i + 1 \in 1..((m + 1) + n) /\ (i + 1) - (m + 1) = i - m /\ (i + 1 <= m + 1 <=> i <= m)
    OBVIOUS
  <2>2. CASE i <= m
    <3>1. i \in 1..m
      BY <2>2
    <3>2. QED BY <1>3, <1>4, <1>6, <1>7, <2>1, <2>2, <3>1
  <2>3. CASE ~(i <= m)
    BY <1>3, <1>6, <1>7, <2>1, <2>3
  <2>4. QED BY <2>2, <2>3
<1>9. w = u
  <2>1. Len(w) = Len(u) /\ \A i \in 1..Len(w) : w[i] = u[i]
    BY ONLY <1>6, <1>7, <1>8
  <2>2. QED BY ONLY <1>6, <1>7, <2>1, SeqEqual, SMTT(40)
<1>10. QED BY <1>3, <1>4, <1>5, <1>9 DEF z, t, w, u

\* The next message of a stream is the next value that it owes, or the end when it owes none.
LEMMA NextIsOwed ==
    ASSUME NEW p \in Seq(Int), p # <<>>, NEW f \in Seq(Int), NEW r \in Seq(Value), p \o f = r \o <<End>>
    PROVE  /\ Head(p) = End => r = <<>> /\ Tail(p) \o f = <<>>
           /\ Head(p) # End => /\ r # <<>> /\ Head(r) = Head(p) /\ Head(p) \in Value
                               /\ Tail(r) \in Seq(Value) /\ Tail(p) \o f = Tail(r) \o <<End>>
<1> DEFINE z == p \o f
<1> DEFINE last == <<End>>
<1>1. z = r \o last /\ Head(z) = Head(p) /\ Tail(z) = Tail(p) \o f
  BY HeadOfConcat
<1>2. r \in Seq(Int) /\ last \in Seq(Int) /\ Head(last) = End /\ Tail(last) = <<>>
  BY ValuesAreInts
<1> HIDE DEF z, last
<1>3. CASE r = <<>>
  <2>1. z = last
    BY <1>1, <1>2, <1>3, ConcatEmptySeq
  <2>2. QED BY <1>1, <1>2, <1>3, <2>1
<1>4. CASE r # <<>>
  <2>1. Head(z) = Head(r) /\ Tail(z) = Tail(r) \o last
    BY <1>1, <1>2, <1>4, HeadOfConcat
  <2>2. Head(r) \in Value /\ Tail(r) \in Seq(Value)
    BY <1>4, FirstAndRest
  <2>3. Head(r) # End
    BY <2>2, ValuesAreInts
  <2>4. QED BY <1>1, <1>4, <2>1, <2>2, <2>3 DEF last
<1>5. QED BY <1>3, <1>4

\* A message sent moves from what is to come to what is there.
LEMMA SentIsThere ==
    ASSUME NEW p \in Seq(Int), NEW v \in Int, NEW f \in Seq(Int)
    PROVE  Append(p, v) \in Seq(Int) /\ Append(p, v) \o f = p \o (<<v>> \o f)
<1>1. <<v>> \in Seq(Int)
  OBVIOUS
<1>2. Append(p, v) = p \o <<v>>
  BY AppendIsConcat
<1> DEFINE one == <<v>>
<1> HIDE DEF one
<1>3. (p \o one) \o f = p \o (one \o f)
  BY <1>1, ConcatAssociative DEF one
<1>4. QED BY <1>2, <1>3 DEF one

\* Joining lists is associative.
LEMMA ConcatThree ==
    ASSUME NEW p \in Seq(Int), NEW f \in Seq(Int), NEW g \in Seq(Int)
    PROVE  (p \o f) \o g = p \o (f \o g) /\ p \o f \in Seq(Int)
<1>1. (p \o f) \o g = p \o (f \o g)
  BY ConcatAssociative
<1>2. p \o f \in Seq(Int)
  BY ConcatProperties
<1>3. QED BY ONLY <1>1, <1>2

AppendsLast(p, v) == Append(p, v) \in Seq(Int) /\ Append(p, v) = p \o <<v>>

\* An appended message is joined at the end.
LEMMA AppendedLast == \A p \in Seq(Int), v \in Int : AppendsLast(p, v)
<1>1. ASSUME NEW p \in Seq(Int), NEW v \in Int
      PROVE  AppendsLast(p, v)
  <2>1. Append(p, v) \in Seq(Int)
    BY AppendProperties
  <2>2. Append(p, v) = p \o <<v>>
    BY AppendIsConcat
  <2>3. QED BY ONLY <2>1, <2>2 DEF AppendsLast
<1>2. QED BY ONLY <1>1

\* Joining nothing changes nothing.
LEMMA ConcatNone == \A p \in Seq(Int) : p \o <<>> = p /\ <<>> \o p = p
BY ConcatEmptySeq

\* A list is its head and its tail joined.
LEMMA FirstThenRest ==
    ASSUME NEW p \in Seq(Int), p # <<>>
    PROVE  /\ p = <<Head(p)>> \o Tail(p) /\ Head(p) \in Int /\ Tail(p) \in Seq(Int)
           /\ (Len(p) = 1 <=> Tail(p) = <<>>)
<1>1. Len(p) \in Nat /\ Len(p) >= 1 /\ Head(p) = p[1] /\ Head(p) \in Int
      /\ Tail(p) \in Seq(Int) /\ Len(Tail(p)) = Len(p) - 1
  BY FirstAndRest
<1>2. 1 \in 1..Len(p) /\ Len(p) \in 1..Len(p)
  BY <1>1
<1>3. SubSeq(p, 1, Len(p)) = <<p[1]>> \o SubSeq(p, 1 + 1, Len(p))
  BY <1>2, SubSeqRecursiveFirst
<1>4. SubSeq(p, 1, Len(p)) = p
  BY SubSeqFull
<1>5. Tail(p) = SubSeq(p, 2, Len(p)) /\ 1 + 1 = 2
  BY TailIsSubSeq
<1>6. Len(Tail(p)) = 0 <=> Tail(p) = <<>>
  BY <1>1, EmptySeq
<1>7. Len(p) = 1 <=> Len(Tail(p)) = 0
  BY <1>1
<1>8. QED BY <1>1, <1>3, <1>4, <1>5, <1>6, <1>7

-----------------------------------------------------------------------------
(* Types *)

Steps == {"absent", "generate", "return", "read", "inner", "send", "close", "done"}
Places == {"make", "bind", "drain", "leave", "left"}

\* What each place of a worker says of its box.
BoxFits(i) ==
    /\ worker[i] = "generate" => box[i] # <<>>
    /\ worker[i] = "send" => \E v \in Value : box[i] = <<v>>
    /\ worker[i] = "close" => box[i] = <<End>>
    /\ worker[i] \notin {"generate", "send", "close"} => box[i] = <<>>

StreamsTypeOK ==
    /\ q \in [Stage -> Seq(Int)]
    /\ forwarded \in [Stage -> [q : Seq(Int), rest : Seq(Int)]]
    /\ worker \in [Stage -> Steps]
    /\ box \in [Stage -> Seq(Int)]
    /\ taken \in [Stage -> Nat]
    /\ ended \in [Stage -> SUBSET {"a", "b"}]
    /\ side \in [Stage -> {"a", "b"}]
    /\ main \in [at : Places, i : Nat]
    /\ got \in Seq(Value)

\* Only the stages made have started; a flat_map alone forwards.
Building ==
    /\ main.at \in {"make", "bind"} => main.i \in Stage
    /\ \A j \in Stage : (main.at \in {"make", "bind"} /\ j > main.i) \/ (main.at = "make" /\ j = main.i) => worker[j] = "absent"
    /\ \A j \in Stage : worker[j] = "inner" => stages[j].k = "flat_map"

Typed == IsPipeline(stages) /\ StreamsTypeOK /\ (\A i \in Stage : BoxFits(i)) /\ Building

\* The step of a worker leaves its box as its place says, and the program where it is.
LEMMA WorkerFits ==
    ASSUME Typed, NEW i \in Stage, worker[i] # "absent", stages' = stages, main' = main,
           NEW w \in Steps, w # "absent", w = "inner" => stages[i].k = "flat_map",
           worker' = [worker EXCEPT ![i] = w],
           NEW b \in Seq(Int), box' = [box EXCEPT ![i] = b],
           w = "generate" => b # <<>>,
           w = "send" => \E v \in Value : b = <<v>>,
           w = "close" => b = <<End>>,
           w \notin {"generate", "send", "close"} => b = <<>>
    PROVE  /\ worker' \in [Stage' -> Steps] /\ box' \in [Stage' -> Seq(Int)]
           /\ (\A j \in Stage : BoxFits(j))' /\ Building'
<1>1. Stage' = Stage
  BY DEF Stage
<1>2. worker' \in [Stage -> Steps] /\ box' \in [Stage -> Seq(Int)]
  BY DEF Typed, StreamsTypeOK
<1>3. ASSUME NEW j \in Stage PROVE BoxFits(j)'
  <2>1. CASE j = i
    <3>1. worker'[j] = w /\ box'[j] = b
      BY <2>1 DEF Typed, StreamsTypeOK
    <3>2. QED BY <3>1 DEF BoxFits
  <2>2. CASE j # i
    <3>1. worker'[j] = worker[j] /\ box'[j] = box[j]
      BY <2>2 DEF Typed, StreamsTypeOK
    <3>2. QED BY <3>1 DEF Typed, BoxFits
  <2>3. QED BY <2>1, <2>2
<1>4. Building'
  <2>1. \A j \in Stage : worker'[j] = IF j = i THEN w ELSE worker[j]
    BY DEF Typed, StreamsTypeOK
  <2>2. \A j \in Stage : (main.at \in {"make", "bind"} /\ j > main.i) \/ (main.at = "make" /\ j = main.i) => j # i
    BY DEF Typed, Building
  <2>3. QED BY <1>1, <2>1, <2>2 DEF Typed, Building
<1>5. QED BY <1>1, <1>2, <1>3, <1>4

\* Every action keeps the types, and the program where its workers put it.
LEMMA GenerateTyped == ASSUME Typed, NEW i \in Stage, Generate(i) PROVE Typed'
<1> DEFINE b == Tail(box[i])
<1> DEFINE w == IF Len(box[i]) = 1 THEN "return" ELSE "generate"
<1>1. worker[i] = "generate" /\ box[i] \in Seq(Int) /\ box[i] # <<>>
  BY DEF Generate, Typed, StreamsTypeOK, BoxFits
<1>2. b \in Seq(Int) /\ Head(box[i]) \in Int /\ (Len(box[i]) = 1 <=> b = <<>>)
  BY <1>1, FirstThenRest
<1>3. w \in Steps /\ w # "absent" /\ w # "inner" /\ (w = "generate" => b # <<>>) /\ w # "send" /\ w # "close"
      /\ (w \notin {"generate", "send", "close"} => b = <<>>)
  BY <1>2 DEF Steps
<1>4. stages' = stages /\ main' = main /\ worker' = [worker EXCEPT ![i] = w] /\ box' = [box EXCEPT ![i] = b]
      /\ UNCHANGED <<forwarded, taken, ended, side, got>>
  BY DEF Generate, Sends, WorkerGoesTo
<1> HIDE DEF b, w
<1>5. /\ worker' \in [Stage' -> Steps] /\ box' \in [Stage' -> Seq(Int)]
      /\ (\A j \in Stage : BoxFits(j))' /\ Building'
  BY <1>1, <1>2, <1>3, <1>4, WorkerFits
<1>6. q' \in [Stage -> Seq(Int)]
  <2>1. q[i] \in Seq(Int) /\ Append(q[i], Head(box[i])) \in Seq(Int)
    BY <1>2, AppendProperties DEF Typed, StreamsTypeOK
  <2>2. QED BY <2>1 DEF Typed, StreamsTypeOK, Generate
<1>7. QED BY <1>4, <1>5, <1>6 DEF Typed, StreamsTypeOK, Stage

LEMMA GeneratorReturnsTyped == ASSUME Typed, NEW i \in Stage, GeneratorReturns(i) PROVE Typed'
<1>1. worker[i] = "return" /\ box[i] = <<>> /\ box[i] \in Seq(Int)
  BY DEF GeneratorReturns, Typed, StreamsTypeOK, BoxFits
<1>2. "done" \in Steps
  BY DEF Steps
<1>3. stages' = stages /\ main' = main /\ worker' = [worker EXCEPT ![i] = "done"] /\ box' = [box EXCEPT ![i] = box[i]]
      /\ UNCHANGED <<q, forwarded, taken, ended, side, got>>
  BY DEF GeneratorReturns, WorkerGoesTo, Typed, StreamsTypeOK
<1>4. /\ worker' \in [Stage' -> Steps] /\ box' \in [Stage' -> Seq(Int)]
      /\ (\A j \in Stage : BoxFits(j))' /\ Building'
  BY <1>1, <1>2, <1>3, WorkerFits
<1>5. QED BY <1>3, <1>4 DEF Typed, StreamsTypeOK, Stage

\* What a worker sends, and where it goes.
AfterSend(i) ==
    IF worker[i] = "close" THEN "done"
    ELSE IF stages[i].k = "take" /\ TakenAll(i, taken[i] + 1) THEN "close"
    ELSE IF stages[i].k = "flat_map" THEN "inner" ELSE "read"
BoxAfterSend(i) == IF AfterSend(i) = "close" THEN <<End>> ELSE <<>>

\* A worker sends the one message of its box; what is left is what its next place
\* needs.
LEMMA SendsOne ==
    ASSUME Typed, NEW i \in Stage, WorkerSends(i)
    PROVE  /\ box[i] = <<box[i][1]>> /\ box[i][1] \in Int /\ Len(box[i]) = 1
           /\ worker[i] = "send" => box[i][1] \in Value
           /\ worker[i] = "close" => box[i][1] = End
           /\ worker[i] \in {"send", "close"}
           /\ worker' = [worker EXCEPT ![i] = AfterSend(i)] /\ box' = [box EXCEPT ![i] = BoxAfterSend(i)]
           /\ q' = [q EXCEPT ![i] = Append(@, box[i][1])]
           /\ taken' = [taken EXCEPT ![i] = @ + 1]
           /\ stages' = stages /\ main' = main
           /\ UNCHANGED <<forwarded, ended, side, got>>
<1>1. worker[i] \in {"send", "close"} /\ BoxFits(i)
  BY DEF WorkerSends, Typed
<1>2. box[i] = <<box[i][1]>> /\ Len(box[i]) = 1 /\ box[i][1] \in Int
      /\ (worker[i] = "send" => box[i][1] \in Value) /\ (worker[i] = "close" => box[i][1] = End)
  <2>1. CASE worker[i] = "send"
    <3>1. PICK v \in Value : box[i] = <<v>>
      BY <1>1, <2>1 DEF BoxFits
    <3>2. v \in Int
      BY ValuesAreInts
    <3>3. QED BY <2>1, <3>1, <3>2
  <2>2. CASE worker[i] = "close"
    <3>1. box[i] = <<End>> /\ End \in Int
      BY <1>1, <2>2, ValuesAreInts DEF BoxFits
    <3>2. QED BY <2>2, <3>1
  <2>3. QED BY <1>1, <2>1, <2>2
<1>3. worker' = [worker EXCEPT ![i] = AfterSend(i)] /\ box' = [box EXCEPT ![i] = BoxAfterSend(i)]
  BY DEF WorkerSends, Sends, Closes, WorkerGoesTo, AfterSend, BoxAfterSend
<1>4. QED BY <1>1, <1>2, <1>3 DEF WorkerSends

LEMMA WorkerSendsTyped == ASSUME Typed, NEW i \in Stage, WorkerSends(i) PROVE Typed'
<1>1. /\ box[i][1] \in Int /\ worker[i] \in {"send", "close"}
      /\ worker' = [worker EXCEPT ![i] = AfterSend(i)] /\ box' = [box EXCEPT ![i] = BoxAfterSend(i)]
      /\ q' = [q EXCEPT ![i] = Append(@, box[i][1])]
      /\ taken' = [taken EXCEPT ![i] = @ + 1]
      /\ stages' = stages /\ main' = main
      /\ UNCHANGED <<forwarded, ended, side, got>>
  BY SendsOne
<1>2. /\ AfterSend(i) \in Steps /\ AfterSend(i) \in {"done", "close", "inner", "read"}
      /\ AfterSend(i) = "inner" => stages[i].k = "flat_map"
  BY DEF AfterSend, Steps
<1>3. BoxAfterSend(i) \in Seq(Int) /\ (AfterSend(i) = "close" => BoxAfterSend(i) = <<End>>)
      /\ (AfterSend(i) # "close" => BoxAfterSend(i) = <<>>)
  BY ValuesAreInts DEF BoxAfterSend
<1> DEFINE w == AfterSend(i)
<1> DEFINE b == BoxAfterSend(i)
<1>4. /\ w \in Steps /\ w # "absent" /\ (w = "inner" => stages[i].k = "flat_map") /\ w # "generate" /\ w # "send"
      /\ b \in Seq(Int) /\ (w = "close" => b = <<End>>) /\ (w \notin {"generate", "send", "close"} => b = <<>>)
  BY <1>2, <1>3
<1>5. worker[i] # "absent" /\ worker' = [worker EXCEPT ![i] = w] /\ box' = [box EXCEPT ![i] = b]
  BY <1>1
<1> HIDE DEF w, b
<1>6. /\ worker' \in [Stage' -> Steps] /\ box' \in [Stage' -> Seq(Int)]
      /\ (\A j \in Stage : BoxFits(j))' /\ Building'
  BY <1>1, <1>4, <1>5, WorkerFits
<1>7. q' \in [Stage -> Seq(Int)] /\ taken' \in [Stage -> Nat]
  <2>1. q[i] \in Seq(Int) /\ taken[i] + 1 \in Nat
    BY DEF Typed, StreamsTypeOK
  <2>2. Append(q[i], box[i][1]) \in Seq(Int)
    BY <1>1, <2>1, AppendProperties
  <2>3. QED BY <1>1, <2>1, <2>2 DEF Typed, StreamsTypeOK
<1>8. QED BY <1>1, <1>6, <1>7 DEF Typed, StreamsTypeOK, Stage

\* What a worker with one input makes of the message v, and where it goes.
AfterRead(i, v) ==
    IF v = End THEN "close"
    ELSE IF stages[i].k = "flat_map" THEN "inner"
    ELSE IF stages[i].k = "filter" /\ ~Kept(v) THEN "read" ELSE "send"
BoxAfterRead(i, v) ==
    IF v = End THEN <<End>>
    ELSE IF stages[i].k = "flat_map" THEN <<>>
    ELSE IF stages[i].k = "map" THEN <<Doubled(v)>>
    ELSE IF stages[i].k = "filter" /\ ~Kept(v) THEN <<>> ELSE <<v>>
ForwardedAfterRead(i, v) ==
    IF v # End /\ stages[i].k = "flat_map" THEN [q |-> <<>>, rest |-> Append(Expanded(v), End)] ELSE forwarded[i]

\* What a worker with one input reads, and what it changes.
LEMMA ReadsOne ==
    ASSUME Typed, NEW i \in Stage, Read(i), NEW v, v = Head(q[stages[i].in])
    PROVE  /\ stages[i].k \in {"map", "filter", "flat_map", "take"} /\ stages[i].in \in Stage
           /\ worker[i] = "read" /\ box[i] = <<>>
           /\ q[stages[i].in] \in Seq(Int) /\ q[stages[i].in] # <<>>
           /\ v \in Int /\ (v # End => v \in Value)
           /\ q' = [q EXCEPT ![stages[i].in] = Tail(@)]
           /\ worker' = [worker EXCEPT ![i] = AfterRead(i, v)] /\ box' = [box EXCEPT ![i] = BoxAfterRead(i, v)]
           /\ forwarded' = [forwarded EXCEPT ![i] = ForwardedAfterRead(i, v)]
           /\ stages' = stages /\ main' = main
           /\ UNCHANGED <<taken, ended, side, got>>
<1>1. stages[i].k \in {"map", "filter", "flat_map", "take"} /\ worker[i] = "read"
      /\ q[stages[i].in] # <<>> /\ q' = [q EXCEPT ![stages[i].in] = Tail(@)]
  BY DEF Read, TakesFrom
<1>2. stages[i].in \in Stage
  <2>1. stages[i].in \in 1..(i - 1) /\ Stage = 1..Last_ /\ Last_ \in Nat
    BY <1>1, StageShape DEF Typed
  <2>2. QED BY <2>1
<1>3. q[stages[i].in] \in Seq(Int)
  BY <1>2 DEF Typed, StreamsTypeOK
<1>4. v \in Int /\ (v # End => v \in Value)
  BY <1>1, <1>3, FirstAndRest DEF Value
<1>5. box[i] = <<>> /\ box = [box EXCEPT ![i] = box[i]] /\ worker = [worker EXCEPT ![i] = "read"]
      /\ forwarded = [forwarded EXCEPT ![i] = forwarded[i]]
  BY <1>1 DEF Typed, StreamsTypeOK, BoxFits
<1>6. /\ worker' = [worker EXCEPT ![i] = AfterRead(i, v)] /\ box' = [box EXCEPT ![i] = BoxAfterRead(i, v)]
      /\ forwarded' = [forwarded EXCEPT ![i] = ForwardedAfterRead(i, v)]
  <2>1. CASE stages[i].k = "filter"
    <3>1. Filter(i, v) /\ UNCHANGED forwarded
      BY <2>1 DEF Read
    <3>2. QED BY <1>5, <2>1, <3>1 DEF Filter, Closes, Sends, WorkerGoesTo, AfterRead, BoxAfterRead, ForwardedAfterRead
  <2>2. CASE v = End /\ stages[i].k # "filter"
    <3>1. Closes(i) /\ UNCHANGED forwarded
      BY <2>2 DEF Read
    <3>2. QED BY <1>5, <2>2, <3>1 DEF Closes, Sends, WorkerGoesTo, AfterRead, BoxAfterRead, ForwardedAfterRead
  <2>3. CASE v # End /\ stages[i].k = "map"
    <3>1. Sends(i, <<Doubled(v)>>, "send") /\ UNCHANGED forwarded
      BY <2>3 DEF Read
    <3>2. QED BY <1>5, <2>3, <3>1 DEF Sends, WorkerGoesTo, AfterRead, BoxAfterRead, ForwardedAfterRead
  <2>4. CASE v # End /\ stages[i].k = "take"
    <3>1. Sends(i, <<v>>, "send") /\ UNCHANGED forwarded
      BY <2>4 DEF Read
    <3>2. QED BY <1>5, <2>4, <3>1 DEF Sends, WorkerGoesTo, AfterRead, BoxAfterRead, ForwardedAfterRead
  <2>5. CASE v # End /\ stages[i].k = "flat_map"
    <3>1. /\ forwarded' = [forwarded EXCEPT ![i] = [q |-> <<>>, rest |-> Append(Expanded(v), End)]]
          /\ WorkerGoesTo(i, "inner") /\ UNCHANGED box
      BY <2>5 DEF Read
    <3>2. QED BY <1>5, <2>5, <3>1 DEF WorkerGoesTo, AfterRead, BoxAfterRead, ForwardedAfterRead
  <2>6. QED BY <1>1, <2>1, <2>2, <2>3, <2>4, <2>5
<1>7. stages' = stages /\ main' = main /\ UNCHANGED <<taken, ended, side, got>>
  BY DEF Read
<1>8. QED BY <1>1, <1>2, <1>3, <1>4, <1>5, <1>6, <1>7

\* A message read is gone from its stream.
LEMMA TakenTyped ==
    ASSUME Typed, stages' = stages, NEW j \in Stage, q[j] # <<>>, q' = [q EXCEPT ![j] = Tail(@)]
    PROVE  q' \in [Stage' -> Seq(Int)]
<1>1. q[j] \in Seq(Int)
  BY DEF Typed, StreamsTypeOK
<1>2. Tail(q[j]) \in Seq(Int)
  BY <1>1, FirstAndRest
<1>3. QED BY <1>2 DEF Typed, StreamsTypeOK, Stage

LEMMA ReadTyped == ASSUME Typed, NEW i \in Stage, Read(i) PROVE Typed'
<1>1. PICK v : v = Head(q[stages[i].in])
  OBVIOUS
<1>2. /\ stages[i].k \in {"map", "filter", "flat_map", "take"} /\ stages[i].in \in Stage
      /\ worker[i] = "read"
      /\ q[stages[i].in] # <<>>
      /\ v \in Int /\ (v # End => v \in Value)
      /\ q' = [q EXCEPT ![stages[i].in] = Tail(@)]
      /\ worker' = [worker EXCEPT ![i] = AfterRead(i, v)] /\ box' = [box EXCEPT ![i] = BoxAfterRead(i, v)]
      /\ forwarded' = [forwarded EXCEPT ![i] = ForwardedAfterRead(i, v)]
      /\ stages' = stages /\ main' = main
      /\ UNCHANGED <<taken, ended, side, got>>
  BY <1>1, ReadsOne
<1> DEFINE w == AfterRead(i, v)
<1> DEFINE b == BoxAfterRead(i, v)
<1> DEFINE f == ForwardedAfterRead(i, v)
<1>3. /\ w \in Steps /\ w # "absent" /\ (w = "inner" => stages[i].k = "flat_map") /\ w # "generate"
      /\ (w \notin {"generate", "send", "close"} => b = <<>>) /\ (w = "close" => b = <<End>>)
  BY <1>2 DEF AfterRead, BoxAfterRead, Steps
<1>4. w = "send" => \E x \in Value : b = <<x>>
  <2> SUFFICES ASSUME w = "send" PROVE \E x \in Value : b = <<x>>
    OBVIOUS
  <2>1. v \in Value /\ Doubled(v) \in Value
    BY <1>2, ValuesMade DEF AfterRead
  <2>2. b = <<Doubled(v)>> \/ b = <<v>>
    BY <1>2 DEF AfterRead, BoxAfterRead
  <2>3. QED BY <2>1, <2>2
<1>5. b \in Seq(Int)
  <2> HIDE DEF w, b
  <2>1. ASSUME w = "send" PROVE b \in Seq(Int)
    <3>1. PICK x \in Value : b = <<x>>
      BY <1>4, <2>1
    <3>2. x \in Int
      BY ValuesAreInts
    <3>3. QED BY <3>1, <3>2
  <2>2. <<End>> \in Seq(Int) /\ <<>> \in Seq(Int)
    BY ValuesAreInts
  <2>3. w \in {"send", "close"} \/ w \notin {"generate", "send", "close"}
    BY <1>3
  <2>4. QED BY <1>3, <2>1, <2>2, <2>3
<1>6. f \in [q : Seq(Int), rest : Seq(Int)]
  <2>1. CASE v # End /\ stages[i].k = "flat_map"
    <3>1. Expanded(v) \in Seq(Int) /\ End \in Int
      BY <1>2, <2>1, ValuesMade, ValuesAreInts
    <3>2. Append(Expanded(v), End) \in Seq(Int) /\ <<>> \in Seq(Int)
      BY <3>1, AppendProperties
    <3>3. f = [q |-> <<>>, rest |-> Append(Expanded(v), End)]
      BY <2>1 DEF ForwardedAfterRead
    <3> HIDE DEF f
    <3>4. QED BY <3>2, <3>3
  <2>2. CASE ~(v # End /\ stages[i].k = "flat_map")
    BY <2>2 DEF ForwardedAfterRead, Typed, StreamsTypeOK
  <2>3. QED BY <2>1, <2>2
<1>7. worker[i] # "absent" /\ worker' = [worker EXCEPT ![i] = w] /\ box' = [box EXCEPT ![i] = b] /\ forwarded' = [forwarded EXCEPT ![i] = f]
  BY <1>2
<1> HIDE DEF w, b, f
<1>8. /\ worker' \in [Stage' -> Steps] /\ box' \in [Stage' -> Seq(Int)]
      /\ (\A j \in Stage : BoxFits(j))' /\ Building'
  BY <1>2, <1>3, <1>4, <1>5, <1>7, WorkerFits
<1>9. q' \in [Stage' -> Seq(Int)]
  BY <1>2, TakenTyped
<1>10. forwarded' \in [Stage -> [q : Seq(Int), rest : Seq(Int)]]
  BY <1>6, <1>7 DEF Typed, StreamsTypeOK
<1>11. QED BY <1>2, <1>8, <1>9, <1>10 DEF Typed, StreamsTypeOK, Stage

\* What the generator of a flat_map's stream sends.
LEMMA GeneratesInner ==
    ASSUME Typed, NEW i \in Stage, GenerateInner(i)
    PROVE  /\ forwarded[i].rest \in Seq(Int) /\ forwarded[i].rest # <<>> /\ forwarded[i].q \in Seq(Int)
           /\ Append(forwarded[i].q, Head(forwarded[i].rest)) \in Seq(Int) /\ Tail(forwarded[i].rest) \in Seq(Int)
           /\ forwarded' = [forwarded EXCEPT ![i] = [q |-> Append(forwarded[i].q, Head(forwarded[i].rest)), rest |-> Tail(forwarded[i].rest)]]
           /\ UNCHANGED <<stages, q, worker, box, taken, ended, side, main, got>>
<1>1. forwarded[i] \in [q : Seq(Int), rest : Seq(Int)] /\ forwarded[i].rest # <<>>
  BY DEF GenerateInner, Typed, StreamsTypeOK
<1>2. forwarded[i].rest \in Seq(Int) /\ forwarded[i].q \in Seq(Int)
  BY <1>1
<1>3. Head(forwarded[i].rest) \in Int /\ Tail(forwarded[i].rest) \in Seq(Int)
  BY <1>1, <1>2, FirstAndRest
<1>4. Append(forwarded[i].q, Head(forwarded[i].rest)) \in Seq(Int)
  BY <1>2, <1>3, AppendProperties
<1>5. forwarded' = [forwarded EXCEPT ![i] = [q |-> Append(forwarded[i].q, Head(forwarded[i].rest)), rest |-> Tail(forwarded[i].rest)]]
  BY DEF GenerateInner, Typed, StreamsTypeOK
<1>6. QED BY <1>1, <1>2, <1>3, <1>4, <1>5 DEF GenerateInner

LEMMA GenerateInnerTyped == ASSUME Typed, NEW i \in Stage, GenerateInner(i) PROVE Typed'
<1> DEFINE p == Append(forwarded[i].q, Head(forwarded[i].rest))
<1> DEFINE t == Tail(forwarded[i].rest)
<1>1. /\ p \in Seq(Int) /\ t \in Seq(Int)
      /\ forwarded' = [forwarded EXCEPT ![i] = [q |-> p, rest |-> t]]
      /\ UNCHANGED <<stages, q, worker, box, taken, ended, side, main, got>>
  BY GeneratesInner
<1> HIDE DEF p, t
<1>2. forwarded' \in [Stage -> [q : Seq(Int), rest : Seq(Int)]]
  BY <1>1 DEF Typed, StreamsTypeOK
<1>3. QED BY <1>1, <1>2 DEF Typed, StreamsTypeOK, Stage, BoxFits, Building, Last_

\* What a flat_map reads of the stream that it forwards.
LEMMA ReadsInner ==
    ASSUME Typed, NEW i \in Stage, ReadInner(i), NEW v, v = Head(forwarded[i].q)
    PROVE  /\ worker[i] = "inner" /\ stages[i].k = "flat_map" /\ box[i] = <<>>
           /\ forwarded[i].rest \in Seq(Int) /\ forwarded[i].q # <<>> /\ forwarded[i].q \in Seq(Int)
           /\ v \in Int /\ (v # End => v \in Value) /\ Tail(forwarded[i].q) \in Seq(Int)
           /\ forwarded' = [forwarded EXCEPT ![i] = [q |-> Tail(forwarded[i].q), rest |-> forwarded[i].rest]]
           /\ worker' = [worker EXCEPT ![i] = IF v = End THEN "read" ELSE "send"]
           /\ box' = [box EXCEPT ![i] = IF v = End THEN <<>> ELSE <<v>>]
           /\ UNCHANGED <<stages, q, taken, ended, side, main, got>>
<1>1. forwarded[i] \in [q : Seq(Int), rest : Seq(Int)] /\ forwarded[i].q # <<>> /\ worker[i] = "inner"
  BY DEF ReadInner, Typed, StreamsTypeOK
<1>2. forwarded[i].rest \in Seq(Int) /\ forwarded[i].q \in Seq(Int)
  BY <1>1
<1>3. v \in Int /\ Tail(forwarded[i].q) \in Seq(Int) /\ (v # End => v \in Value)
  BY <1>1, <1>2, FirstAndRest DEF Value
<1>4. stages[i].k = "flat_map" /\ box[i] = <<>> /\ box = [box EXCEPT ![i] = <<>>]
  <2>1. stages[i].k = "flat_map"
    BY <1>1 DEF Typed, Building
  <2>2. box[i] = <<>> /\ box \in [Stage -> Seq(Int)]
    BY <1>1 DEF Typed, BoxFits, StreamsTypeOK
  <2>3. box = [box EXCEPT ![i] = <<>>]
    BY <2>2
  <2>4. QED BY <2>1, <2>2, <2>3
<1>5. /\ worker' = [worker EXCEPT ![i] = IF v = End THEN "read" ELSE "send"]
      /\ box' = [box EXCEPT ![i] = IF v = End THEN <<>> ELSE <<v>>]
  <2>1. IF v = End THEN WorkerGoesTo(i, "read") /\ UNCHANGED box ELSE Sends(i, <<v>>, "send")
    BY DEF ReadInner
  <2>2. QED BY <1>4, <2>1 DEF Sends, WorkerGoesTo
<1>6. forwarded' = [forwarded EXCEPT ![i] = [q |-> Tail(forwarded[i].q), rest |-> forwarded[i].rest]]
  <2> DEFINE r == forwarded[i]
  <2>1. forwarded' = [forwarded EXCEPT ![i] = [r EXCEPT !.q = Tail(r.q)]]
    BY DEF ReadInner, Typed, StreamsTypeOK
  <2> DEFINE t == Tail(r.q)
  <2>2. r \in [q : Seq(Int), rest : Seq(Int)]
    BY <1>1
  <2> HIDE DEF r, t
  <2>3. [r EXCEPT !.q = t] = [q |-> t, rest |-> r.rest]
    BY <2>2
  <2>4. QED BY <2>1, <2>3 DEF r, t
<1>7. QED BY <1>1, <1>2, <1>3, <1>4, <1>5, <1>6 DEF ReadInner

LEMMA ReadInnerTyped == ASSUME Typed, NEW i \in Stage, ReadInner(i) PROVE Typed'
<1>1. PICK v : v = Head(forwarded[i].q)
  OBVIOUS
<1> DEFINE p == Tail(forwarded[i].q)
<1> DEFINE t == forwarded[i].rest
<1> DEFINE w == IF v = End THEN "read" ELSE "send"
<1> DEFINE b == IF v = End THEN <<>> ELSE <<v>>
<1>2. /\ p \in Seq(Int) /\ t \in Seq(Int) /\ worker[i] = "inner" /\ v \in Int /\ (v # End => v \in Value)
      /\ forwarded' = [forwarded EXCEPT ![i] = [q |-> p, rest |-> t]]
      /\ worker' = [worker EXCEPT ![i] = w] /\ box' = [box EXCEPT ![i] = b]
      /\ UNCHANGED <<stages, q, taken, ended, side, main, got>>
  BY <1>1, ReadsInner
<1>3. /\ w \in Steps /\ w # "absent" /\ w # "inner" /\ w # "generate" /\ w # "close" /\ b \in Seq(Int)
      /\ (w = "send" => \E x \in Value : b = <<x>>) /\ (w \notin {"generate", "send", "close"} => b = <<>>)
  BY <1>2 DEF Steps
<1> HIDE DEF p, t, w, b
<1>4. /\ worker' \in [Stage' -> Steps] /\ box' \in [Stage' -> Seq(Int)]
      /\ (\A j \in Stage : BoxFits(j))' /\ Building'
  BY <1>2, <1>3, WorkerFits
<1>5. forwarded' \in [Stage -> [q : Seq(Int), rest : Seq(Int)]]
  BY <1>2 DEF Typed, StreamsTypeOK
<1>6. QED BY <1>2, <1>4, <1>5 DEF Typed, StreamsTypeOK, Stage

\* The stream that a merge reads next.
Reading(i) == stages[i][side[i]]

\* The sides of a merge that have ended once it has read v, and what follows.
EndedAfter(i, v) == IF v = End THEN ended[i] \cup {side[i]} ELSE ended[i]
SideAfter(i, v) == IF Other(side[i]) \in EndedAfter(i, v) THEN side[i] ELSE Other(side[i])
AfterMerge(i, v) == IF v # End THEN "send" ELSE IF EndedAfter(i, v) = {"a", "b"} THEN "close" ELSE "read"
BoxAfterMerge(i, v) == IF v # End THEN <<v>> ELSE IF EndedAfter(i, v) = {"a", "b"} THEN <<End>> ELSE <<>>

\* What a merge reads, and what it changes.
LEMMA MergesOne ==
    ASSUME Typed, NEW i \in Stage, ReadMerge(i), NEW j, j = Reading(i), NEW v, v = Head(q[j])
    PROVE  /\ stages[i].k = "merge" /\ j \in Sources(stages[i]) /\ j \in Stage
           /\ j = (IF side[i] = "a" THEN stages[i].a ELSE stages[i].b) /\ side[i] \in {"a", "b"}
           /\ worker[i] = "read" /\ box[i] = <<>>
           /\ q[j] \in Seq(Int) /\ q[j] # <<>>
           /\ v \in Int /\ (v # End => v \in Value)
           /\ q' = [q EXCEPT ![j] = Tail(@)]
           /\ worker' = [worker EXCEPT ![i] = AfterMerge(i, v)] /\ box' = [box EXCEPT ![i] = BoxAfterMerge(i, v)]
           /\ ended' = [ended EXCEPT ![i] = EndedAfter(i, v)] /\ side' = [side EXCEPT ![i] = SideAfter(i, v)]
           /\ stages' = stages /\ main' = main
           /\ UNCHANGED <<forwarded, taken, got>>
<1>1. worker[i] = "read" /\ stages[i].k = "merge" /\ q[j] # <<>> /\ q' = [q EXCEPT ![j] = Tail(@)]
  BY DEF ReadMerge, TakesFrom, Reading
<1>2. side[i] \in {"a", "b"}
  BY DEF Typed, StreamsTypeOK
<1>3. j = IF side[i] = "a" THEN stages[i].a ELSE stages[i].b
  BY <1>2 DEF Reading
<1>4. j \in Sources(stages[i]) /\ j \in Stage
  <2>1. /\ stages[i].a \in 1..(i - 1) /\ stages[i].b \in 1..(i - 1)
        /\ Sources(stages[i]) = {stages[i].a, stages[i].b} /\ Stage = 1..Last_ /\ Last_ \in Nat
    BY <1>1, StageShape DEF Typed
  <2>2. QED BY <1>3, <2>1
<1>5. q[j] \in Seq(Int)
  BY <1>4 DEF Typed, StreamsTypeOK
<1>6. v \in Int /\ (v # End => v \in Value)
  BY <1>1, <1>5, FirstAndRest DEF Value
<1>7. box[i] = <<>> /\ box = [box EXCEPT ![i] = <<>>] /\ worker = [worker EXCEPT ![i] = "read"]
  BY <1>1 DEF Typed, StreamsTypeOK, BoxFits
<1>8. ended' = [ended EXCEPT ![i] = EndedAfter(i, v)] /\ side' = [side EXCEPT ![i] = SideAfter(i, v)]
  BY DEF ReadMerge, Reading, EndedAfter, SideAfter, Typed, StreamsTypeOK
<1>9. worker' = [worker EXCEPT ![i] = AfterMerge(i, v)] /\ box' = [box EXCEPT ![i] = BoxAfterMerge(i, v)]
  <2>1. IF v # End THEN Sends(i, <<v>>, "send")
        ELSE IF EndedAfter(i, v) = {"a", "b"} THEN Closes(i) ELSE UNCHANGED <<worker, box>>
    BY DEF ReadMerge, Reading, EndedAfter
  <2>2. QED BY <1>7, <2>1 DEF AfterMerge, BoxAfterMerge, Sends, Closes, WorkerGoesTo
<1>10. QED BY <1>1, <1>2, <1>3, <1>4, <1>5, <1>6, <1>7, <1>8, <1>9 DEF ReadMerge

LEMMA ReadMergeTyped == ASSUME Typed, NEW i \in Stage, ReadMerge(i) PROVE Typed'
<1>1. PICK j : j = Reading(i)
  OBVIOUS
<1>2. PICK v : v = Head(q[j])
  OBVIOUS
<1> DEFINE w == AfterMerge(i, v)
<1> DEFINE b == BoxAfterMerge(i, v)
<1>3. /\ j \in Stage /\ worker[i] = "read" /\ q[j] # <<>> /\ v \in Int /\ (v # End => v \in Value)
      /\ side[i] \in {"a", "b"}
      /\ q' = [q EXCEPT ![j] = Tail(@)]
      /\ worker' = [worker EXCEPT ![i] = w] /\ box' = [box EXCEPT ![i] = b]
      /\ ended' = [ended EXCEPT ![i] = EndedAfter(i, v)] /\ side' = [side EXCEPT ![i] = SideAfter(i, v)]
      /\ stages' = stages /\ main' = main
      /\ UNCHANGED <<forwarded, taken, got>>
  BY <1>1, <1>2, MergesOne
<1>4. /\ w \in Steps /\ w # "absent" /\ w # "inner" /\ w # "generate" /\ b \in Seq(Int)
      /\ (w = "send" => \E x \in Value : b = <<x>>) /\ (w \notin {"generate", "send", "close"} => b = <<>>)
      /\ (w = "close" => b = <<End>>)
  BY <1>3, ValuesAreInts DEF Steps, AfterMerge, BoxAfterMerge
<1> HIDE DEF w, b
<1>5. /\ worker' \in [Stage' -> Steps] /\ box' \in [Stage' -> Seq(Int)]
      /\ (\A k \in Stage : BoxFits(k))' /\ Building'
  BY <1>3, <1>4, WorkerFits
<1>6. q' \in [Stage' -> Seq(Int)]
  BY <1>3, TakenTyped
<1>7. ended' \in [Stage -> SUBSET {"a", "b"}] /\ side' \in [Stage -> {"a", "b"}]
  <2>1. EndedAfter(i, v) \in SUBSET {"a", "b"} /\ SideAfter(i, v) \in {"a", "b"}
    BY <1>3 DEF EndedAfter, SideAfter, Other, Typed, StreamsTypeOK
  <2>2. QED BY <1>3, <2>1 DEF Typed, StreamsTypeOK
<1>8. QED BY <1>3, <1>5, <1>6, <1>7 DEF Typed, StreamsTypeOK, Stage

\* Where a stage starts when it is made, and with what.
Started(i) ==
    IF stages[i].k = "gen" THEN "generate"
    ELSE IF stages[i].k = "take" /\ TakenAll(i, 0) THEN "close" ELSE "read"
BoxStarted(i) ==
    IF stages[i].k = "gen" THEN stages[i].xs \o <<End>> ELSE IF Started(i) = "close" THEN <<End>> ELSE <<>>

\* What the program starts.
LEMMA Makes ==
    ASSUME Typed, Make, NEW i, i = main.i
    PROVE  /\ i \in Stage /\ worker[i] = "absent" /\ main.at = "make" /\ main.i \in Nat
           /\ main' = [main EXCEPT !.at = "bind"]
           /\ worker' = [worker EXCEPT ![i] = Started(i)] /\ box' = [box EXCEPT ![i] = BoxStarted(i)]
           /\ box[i] = <<>>
           /\ UNCHANGED <<stages, q, forwarded, taken, ended, side, got>>
<1>1. main.at = "make" /\ main' = [main EXCEPT !.at = "bind"] /\ main.i \in Nat
  BY DEF Make, Typed, StreamsTypeOK
<1>2. i \in Stage /\ worker[i] = "absent"
  BY <1>1 DEF Typed, Building
<1>3. box[i] = <<>> /\ box = [box EXCEPT ![i] = <<>>]
  BY <1>2 DEF Typed, StreamsTypeOK, BoxFits
<1>4. worker' = [worker EXCEPT ![i] = Started(i)] /\ box' = [box EXCEPT ![i] = BoxStarted(i)]
  <2>1. CASE stages[i].k = "gen"
    <3>1. Sends(i, stages[i].xs \o <<End>>, "generate")
      BY <2>1 DEF Make
    <3>2. QED BY <2>1, <3>1 DEF Sends, WorkerGoesTo, Started, BoxStarted
  <2>2. CASE stages[i].k = "take" /\ TakenAll(i, 0)
    <3>1. Closes(i)
      BY <2>2 DEF Make
    <3>2. QED BY <2>2, <3>1 DEF Closes, Sends, WorkerGoesTo, Started, BoxStarted
  <2>3. CASE stages[i].k # "gen" /\ ~(stages[i].k = "take" /\ TakenAll(i, 0))
    <3>1. WorkerGoesTo(i, "read") /\ UNCHANGED box
      BY <2>3 DEF Make
    <3>2. QED BY <1>3, <2>3, <3>1 DEF WorkerGoesTo, Started, BoxStarted
  <2>4. QED BY <2>1, <2>2, <2>3
<1>5. QED BY <1>1, <1>2, <1>3, <1>4 DEF Make

LEMMA MakeTyped == ASSUME Typed, Make PROVE Typed'
<1>1. PICK i : i = main.i
  OBVIOUS
<1> DEFINE w == Started(i)
<1> DEFINE b == BoxStarted(i)
<1>2. /\ i \in Stage /\ worker[i] = "absent" /\ main.at = "make" /\ main.i \in Nat /\ main' = [main EXCEPT !.at = "bind"]
      /\ worker' = [worker EXCEPT ![i] = w] /\ box' = [box EXCEPT ![i] = b]
      /\ UNCHANGED <<stages, q, forwarded, taken, ended, side, got>>
  BY <1>1, Makes
<1>3. b \in Seq(Int) /\ (w = "generate" => b # <<>>)
  <2>1. CASE stages[i].k = "gen"
    <3> DEFINE xs == stages[i].xs
    <3> DEFINE last == <<End>>
    <3>1. xs \in Seq(Int) /\ last \in Seq(Int) /\ last # <<>>
      BY <1>2, <2>1, StageShape, ValuesAreInts DEF Typed
    <3> HIDE DEF xs, last
    <3>2. xs \o last \in Seq(Int) /\ xs \o last # <<>>
      BY <3>1, ConcatProperties, ConcatEqualIffEmpty
    <3>3. b = xs \o last
      BY <2>1 DEF BoxStarted, xs, last
    <3> HIDE DEF b
    <3>4. QED BY <3>2, <3>3
  <2>2. CASE stages[i].k # "gen"
    BY <2>2, ValuesAreInts DEF BoxStarted, Started
  <2>3. QED BY <2>1, <2>2
<1>4. /\ w \in Steps /\ w \in {"generate", "close", "read"}
      /\ (w = "close" => b = <<End>>) /\ (w = "read" => b = <<>>)
  BY DEF Started, BoxStarted, Steps
<1> HIDE DEF w, b
<1>5. worker' \in [Stage -> Steps] /\ box' \in [Stage -> Seq(Int)] /\ main' \in [at : Places, i : Nat]
  <2>1. main \in [at : Places, i : Nat]
    BY DEF Typed, StreamsTypeOK
  <2>2. main' \in [at : Places, i : Nat]
    BY <1>2, <2>1 DEF Places
  <2>3. QED BY <1>2, <1>3, <1>4, <2>2 DEF Typed, StreamsTypeOK
<1>6. ASSUME NEW j \in Stage PROVE BoxFits(j)'
  <2>1. CASE j = i
    <3>1. worker'[j] = w /\ box'[j] = b
      BY <1>2, <2>1 DEF Typed, StreamsTypeOK
    <3>2. QED BY <1>3, <1>4, <3>1 DEF BoxFits
  <2>2. CASE j # i
    <3>1. worker'[j] = worker[j] /\ box'[j] = box[j]
      BY <1>2, <2>2 DEF Typed, StreamsTypeOK
    <3>2. QED BY <3>1 DEF Typed, BoxFits
  <2>3. QED BY <2>1, <2>2
<1>7. Building'
  <2>1. \A j \in Stage : worker'[j] = IF j = i THEN w ELSE worker[j]
    BY <1>2 DEF Typed, StreamsTypeOK
  <2>2. main'.at = "bind" /\ main'.i = i /\ i \in Nat
    BY <1>1, <1>2 DEF Typed, StreamsTypeOK
  <2>3. Stage \in SUBSET Nat
    BY DEF Typed, IsPipeline, Stage
  <2>4. \A j \in Stage : j > i => j # i /\ worker[j] = "absent"
    BY <1>1, <1>2, <2>2, <2>3 DEF Typed, Building
  <2>5. Stage' = Stage
    BY <1>2 DEF Stage
  <2>6. QED BY <1>2, <1>4, <2>1, <2>2, <2>4, <2>5 DEF Typed, Building
<1>8. QED BY <1>2, <1>5, <1>6, <1>7 DEF Typed, StreamsTypeOK, Stage

LEMMA BindTyped == ASSUME Typed, Bind PROVE Typed'
<1>1. /\ main.at = "bind" /\ main.i \in Stage
      /\ main' = IF main.i = Last_ THEN [at |-> "drain", i |-> 1] ELSE [at |-> "make", i |-> main.i + 1]
      /\ UNCHANGED <<stages, q, forwarded, worker, box, taken, ended, side, got>>
  BY DEF Bind, Typed, Building
<1>2. Stage' = Stage /\ Stage = 1..Last_ /\ Last_ \in Nat /\ main.i \in Nat
  BY <1>1 DEF Stage, Last_, Typed, IsPipeline
<1>3. CASE main.i = Last_
  <2>1. main' = [at |-> "drain", i |-> 1]
    BY <1>1, <1>3
  <2>2. main'.at = "drain" /\ main' \in [at : Places, i : Nat]
    BY <2>1 DEF Places
  <2>3. QED BY <1>1, <1>2, <2>2 DEF Typed, StreamsTypeOK, BoxFits, Building
<1>4. CASE main.i # Last_
  <2>1. main' = [at |-> "make", i |-> main.i + 1]
    BY <1>1, <1>4
  <2>2. main'.at = "make" /\ main'.i = main.i + 1 /\ main' \in [at : Places, i : Nat] /\ main'.i \in Stage
    BY <1>1, <1>2, <1>4, <2>1 DEF Places
  <2>3. \A j \in Stage : (j > main.i + 1 => j > main.i) /\ (main.i + 1 > main.i)
    BY <1>2
  <2>4. \A j \in Stage : j > main.i + 1 \/ j = main.i + 1 => worker[j] = "absent"
    BY <1>1, <2>3 DEF Typed, Building
  <2>5. Building'
    BY <1>1, <1>2, <2>2, <2>4 DEF Typed, Building
  <2>6. QED BY <1>1, <1>2, <2>2, <2>5 DEF Typed, StreamsTypeOK, BoxFits
<1>5. QED BY <1>3, <1>4

\* The value drained, if it is one.
LEMMA Drains ==
    ASSUME Typed, DrainStream, NEW v, v = Head(q[Last_])
    PROVE  /\ Last_ \in Stage /\ main.at = "drain"
           /\ q[Last_] \in Seq(Int) /\ q[Last_] # <<>> /\ v \in Int /\ (v # End => v \in Value)
           /\ q' = [q EXCEPT ![Last_] = Tail(@)]
           /\ v = End => main' = [main EXCEPT !.at = "leave"] /\ got' = got
           /\ v # End => main' = main /\ got' = Append(got, v)
           /\ UNCHANGED <<stages, forwarded, worker, box, taken, ended, side>>
<1>1. Last_ \in Stage
  BY DEF Typed, IsPipeline, Stage, Last_
<1>2. q[Last_] \in Seq(Int) /\ q[Last_] # <<>> /\ q' = [q EXCEPT ![Last_] = Tail(@)]
  BY <1>1 DEF Typed, StreamsTypeOK, DrainStream, TakesFrom
<1>3. v \in Int /\ (v # End => v \in Value)
  BY <1>2, FirstAndRest DEF Value
<1>4. QED BY <1>1, <1>2, <1>3 DEF DrainStream

LEMMA DrainTyped == ASSUME Typed, DrainStream PROVE Typed'
<1>1. PICK v : v = Head(q[Last_])
  OBVIOUS
<1>2. /\ Last_ \in Stage /\ main.at = "drain" /\ q[Last_] # <<>> /\ (v # End => v \in Value)
      /\ q' = [q EXCEPT ![Last_] = Tail(@)]
      /\ v = End => main' = [main EXCEPT !.at = "leave"] /\ got' = got
      /\ v # End => main' = main /\ got' = Append(got, v)
      /\ UNCHANGED <<stages, forwarded, worker, box, taken, ended, side>>
  BY <1>1, Drains
<1>3. q' \in [Stage' -> Seq(Int)]
  BY <1>2, TakenTyped
<1>4. main' \in [at : Places, i : Nat] /\ main'.at \notin {"make", "bind"}
  <2>1. main \in [at : Places, i : Nat]
    BY DEF Typed, StreamsTypeOK
  <2>2. QED BY <1>2, <2>1 DEF Places
<1>5. got' \in Seq(Value)
  <2>1. got \in Seq(Value)
    BY DEF Typed, StreamsTypeOK
  <2>2. v # End => Append(got, v) \in Seq(Value)
    BY <1>2, <2>1
  <2>3. QED BY <1>2, <2>1, <2>2
<1>6. Stage' = Stage
  BY <1>2 DEF Stage
<1>7. QED BY <1>2, <1>3, <1>4, <1>5, <1>6 DEF Typed, StreamsTypeOK, BoxFits, Building

LEMMA ReturnTyped == ASSUME Typed, ReturnPipeline PROVE Typed'
<1>1. main = [at |-> "drain", i |-> 1] /\ main' = [main EXCEPT !.i = 2]
      /\ UNCHANGED <<stages, q, forwarded, worker, box, taken, ended, side, got>>
  BY DEF ReturnPipeline
<1>2. main'.at = "drain" /\ main' \in [at : Places, i : Nat]
  BY <1>1 DEF Places
<1>3. QED BY <1>1, <1>2 DEF Typed, StreamsTypeOK, BoxFits, Building, Stage, Last_

LEMMA LeaveTyped == ASSUME Typed, Leave PROVE Typed'
<1>1. main.at = "leave" /\ main' = [main EXCEPT !.at = "left"] /\ main \in [at : Places, i : Nat]
      /\ UNCHANGED <<stages, q, forwarded, worker, box, taken, ended, side, got>>
  BY DEF Leave, Typed, StreamsTypeOK
<1>2. main'.at = "left" /\ main' \in [at : Places, i : Nat]
  BY <1>1 DEF Places
<1>3. QED BY <1>1, <1>2 DEF Typed, StreamsTypeOK, BoxFits, Building, Stage, Last_

\* A run begins well typed.
LEMMA InitTyped == ASSUME StreamsInit PROVE Typed
<1>1. IsPipeline(stages)
  BY StreamsAssumption DEF StreamsInit
<1>2. StreamsTypeOK
  <2>1. [q |-> <<>>, rest |-> <<>>] \in [q : Seq(Int), rest : Seq(Int)]
    OBVIOUS
  <2>2. [at |-> "make", i |-> 1] \in [at : Places, i : Nat]
    BY DEF Places
  <2>3. "absent" \in Steps /\ <<>> \in Seq(Int) /\ <<>> \in Seq(Value) /\ 0 \in Nat
    BY DEF Steps
  <2>4. QED BY <2>1, <2>2, <2>3 DEF StreamsInit, StreamsTypeOK
<1>3. 1 \in Stage
  BY <1>1 DEF IsPipeline, Stage
<1>4. QED BY <1>1, <1>2, <1>3 DEF StreamsInit, Typed, BoxFits, Building

-----------------------------------------------------------------------------
(* What each stream owes.  rest[i] is what stage i has still to give to the  *)
(* reader of its stream, over the streams whose end is read, and spill[i]    *)
(* what a flat_map has still to forward of the stream of the moment.         *)

Pending(i, rest, over) == IF i \in over THEN <<>> ELSE rest[i] \o <<End>>
Forwards(i) == stages[i].k = "flat_map" /\ worker[i] \in {"send", "inner"}
Unread(i, rest) == Given(stages[i], rest, taken[i] + Len(box[i]), side[i])
ToCome(i, rest, spill) ==
    IF worker[i] \in {"generate", "return", "close", "done"} THEN box[i]
    ELSE box[i] \o (spill[i] \o (Unread(i, rest) \o <<End>>))

Owes(i, rest, over, spill) ==
    /\ i \in over => rest[i] = <<>>
    /\ q[i] \o ToCome(i, rest, spill) = Pending(i, rest, over)
    /\ forwarded[i].q \o forwarded[i].rest = IF Forwards(i) THEN spill[i] \o <<End>> ELSE <<>>
    /\ ~Forwards(i) => spill[i] = <<>>
    /\ worker[i] = "absent" => taken[i] = 0 /\ ended[i] = {} /\ side[i] = "a"
    /\ stages[i].k = "take" /\ worker[i] = "read" => taken[i] < stages[i].n
    /\ stages[i].k = "merge" =>
          /\ worker[i] \in {"absent", "read", "send"} => side[i] \notin ended[i]
          /\ "a" \in ended[i] => stages[i].a \in over
          /\ "b" \in ended[i] => stages[i].b \in over

\* Stage i does not act.
Idle(i) ==
    /\ worker'[i] = worker[i] /\ box'[i] = box[i] /\ forwarded'[i] = forwarded[i]
    /\ taken'[i] = taken[i] /\ ended'[i] = ended[i] /\ side'[i] = side[i]

\* What is still to come are ints, and what is unread are values.
LEMMA ToComeTyped ==
    ASSUME Typed, NEW i \in Stage, NEW rest \in [Stage -> Seq(Value)], NEW spill \in [Stage -> Seq(Value)]
    PROVE  /\ Unread(i, rest) \in Seq(Value) /\ Unread(i, rest) \o <<End>> \in Seq(Int)
           /\ spill[i] \in Seq(Int) /\ spill[i] \o (Unread(i, rest) \o <<End>>) \in Seq(Int)
           /\ box[i] \in Seq(Int) /\ q[i] \in Seq(Int) /\ <<End>> \in Seq(Int)
           /\ ToCome(i, rest, spill) \in Seq(Int)
<1>1. box[i] \in Seq(Int) /\ q[i] \in Seq(Int) /\ taken[i] \in Nat /\ <<End>> \in Seq(Int)
  BY ValuesAreInts DEF Typed, StreamsTypeOK
<1>2. taken[i] + Len(box[i]) \in Int
  <2>1. Len(box[i]) \in Nat
    BY <1>1
  <2> DEFINE n == Len(box[i])
  <2> HIDE DEF n
  <2>2. taken[i] + n \in Int
    BY <1>1, <2>1 DEF n
  <2>3. QED BY <2>2 DEF n
<1>3. \A j \in Sources(stages[i]) : rest[j] \in Seq(Value)
  <2>1. Stage = 1..Last_ /\ Last_ \in Nat /\ i \in 1..Last_ /\ Sources(stages[i]) \in SUBSET (1..(i - 1))
    BY StageShape DEF Typed, Kinds
  <2>2. 1..(i - 1) \in SUBSET (1..Last_)
    BY <2>1
  <2>3. QED BY <2>1, <2>2
<1>4. Unread(i, rest) \in Seq(Value)
  BY <1>2, <1>3, GivenTyped DEF Unread, Typed
<1>5. Unread(i, rest) \in Seq(Int) /\ spill[i] \in Seq(Int)
  <2>1. spill[i] \in Seq(Value)
    OBVIOUS
  <2>2. QED BY <1>4, <2>1, ValuesAreInts
<1> DEFINE u == Unread(i, rest)
<1> DEFINE last == <<End>>
<1> DEFINE s == spill[i]
<1> DEFINE b == box[i]
<1>6. u \in Seq(Int) /\ last \in Seq(Int) /\ s \in Seq(Int) /\ b \in Seq(Int)
  BY <1>1, <1>5
<1> HIDE DEF u, last, s, b
<1>7. u \o last \in Seq(Int) /\ s \o (u \o last) \in Seq(Int) /\ b \o (s \o (u \o last)) \in Seq(Int)
  BY <1>6, ConcatProperties
<1>8. ToCome(i, rest, spill) \in Seq(Int)
  BY <1>6, <1>7 DEF ToCome, u, last, s, b
<1>9. QED BY <1>1, <1>4, <1>5, <1>7, <1>8 DEF u, last, s

\* What a stage has still to give, over sources that owe what they owed.
LEMMA UnreadStays ==
    ASSUME IsPipeline(stages), stages' = stages, NEW i \in Stage, Idle(i),
           NEW rest, NEW rest1, \A j \in Sources(stages[i]) : rest1[j] = rest[j]
    PROVE  Unread(i, rest1)' = Unread(i, rest)
<1> DEFINE gone == taken[i] + Len(box[i])
<1> DEFINE turn == side[i]
<1> HIDE DEF gone, turn
<1>2. Given(stages[i], rest1, gone, turn) = Given(stages[i], rest, gone, turn)
  BY ONLY IsPipeline(stages), i \in Stage, \A j \in Sources(stages[i]) : rest1[j] = rest[j], GivenAgrees
<1>3. QED BY <1>2 DEF Unread, Idle, gone, turn

\* A stage that does not act, and whose stream nobody reads, owes what it did.
LEMMA Undisturbed ==
    ASSUME IsPipeline(stages), stages' = stages, NEW i \in Stage, Idle(i), q'[i] = q[i],
           NEW rest, NEW over, NEW spill, NEW rest1, NEW over1, NEW spill1, Owes(i, rest, over, spill),
           rest1[i] = rest[i], i \in over1 <=> i \in over, spill1[i] = spill[i],
           \A j \in Sources(stages[i]) : rest1[j] = rest[j], over \subseteq over1
    PROVE  Owes(i, rest1, over1, spill1)'
<1>1. Unread(i, rest1)' = Unread(i, rest)
  BY UnreadStays
<1>2. ToCome(i, rest1, spill1)' = ToCome(i, rest, spill)
  BY <1>1 DEF ToCome, Idle
<1>3. Pending(i, rest1, over1) = Pending(i, rest, over)
  BY DEF Pending
<1>4. QED BY <1>2, <1>3 DEF Owes, Idle, Forwards, Pending

\* Reading the head of a stream changes what its stage owes by that head.
AreLists(rest, spill) == rest \in [Stage -> Seq(Value)] /\ spill \in [Stage -> Seq(Value)]
HeadOwed(j, v, rest, over) ==
    /\ v = End => rest[j] = <<>>
    /\ v # End => rest[j] # <<>> /\ Head(rest[j]) = v /\ Tail(rest[j]) \in Seq(Value) /\ j \notin over

LEMMA ReadFrom ==
    ASSUME Typed, stages' = stages, NEW j \in Stage, Idle(j), q[j] # <<>>, q'[j] = Tail(q[j]),
           NEW rest, NEW over, NEW spill, AreLists(rest, spill),
           NEW rest1, NEW over1, NEW spill1, NEW v, v = Head(q[j]), Owes(j, rest, over, spill),
           rest1[j] = IF v = End THEN rest[j] ELSE Tail(rest[j]),
           j \in over1 <=> j \in over \/ v = End, spill1[j] = spill[j],
           \A k \in Sources(stages[j]) : rest1[k] = rest[k], over \subseteq over1
    PROVE  Owes(j, rest1, over1, spill1)' /\ HeadOwed(j, v, rest, over)
<1>1. Unread(j, rest1)' = Unread(j, rest)
  BY UnreadStays DEF Typed
<1>2. ToCome(j, rest1, spill1)' = ToCome(j, rest, spill)
  BY <1>1 DEF ToCome, Idle
<1> DEFINE f == ToCome(j, rest, spill)
<1> DEFINE p == q[j]
<1> DEFINE r == rest[j]
<1>3. p \in Seq(Int) /\ p # <<>> /\ f \in Seq(Int) /\ r \in Seq(Value)
  <2>1. rest \in [Stage -> Seq(Value)] /\ spill \in [Stage -> Seq(Value)]
    BY DEF AreLists
  <2>2. ToCome(j, rest, spill) \in Seq(Int) /\ q[j] \in Seq(Int)
    BY <2>1, ToComeTyped
  <2>3. QED BY <2>1, <2>2
<1>4. j \notin over /\ p \o f = r \o <<End>>
  <2>1. p \o f = Pending(j, rest, over)
    BY DEF Owes
  <2>2. p \o f # <<>>
    <3> HIDE DEF p, f
    <3>1. QED BY <1>3, HeadOfConcat
  <2>3. QED BY <2>1, <2>2 DEF Pending
<1> HIDE DEF f, p, r
<1>5. /\ Head(p) = End => r = <<>> /\ Tail(p) \o f = <<>>
      /\ Head(p) # End => /\ r # <<>> /\ Head(r) = Head(p) /\ Head(p) \in Value
                          /\ Tail(r) \in Seq(Value) /\ Tail(p) \o f = Tail(r) \o <<End>>
  BY ONLY <1>3, <1>4, NextIsOwed
<1>6. (q[j] \o ToCome(j, rest1, spill1))' = Tail(p) \o f
  BY <1>2 DEF p, f
<1>7. Tail(p) \o f = Pending(j, rest1, over1)
  BY <1>4, <1>5 DEF Pending, p, r
<1>8. j \in over1 => rest1[j] = <<>>
  BY <1>4, <1>5 DEF p, r
<1>9. Owes(j, rest1, over1, spill1)'
  BY <1>6, <1>7, <1>8 DEF Owes, Idle, Forwards, Pending
<1>10. QED BY <1>4, <1>5, <1>9 DEF p, r, HeadOwed

-----------------------------------------------------------------------------
(* Each action keeps what the stage that acts owes *)

\* The head of what is to come, sent.
LEMMA FirstSent ==
    ASSUME NEW p \in Seq(Int), NEW b \in Seq(Int), b # <<>>
    PROVE  Append(p, Head(b)) \o Tail(b) = p \o b
<1> DEFINE v == Head(b)
<1> DEFINE t == Tail(b)
<1>1. b = <<v>> \o t /\ v \in Int /\ t \in Seq(Int)
  BY FirstThenRest
<1> HIDE DEF v, t
<1>2. Append(p, v) \o t = p \o (<<v>> \o t)
  BY <1>1, SentIsThere
<1>3. Append(p, v) \o t = p \o b
  BY <1>1, <1>2
<1>4. QED BY <1>3 DEF v, t

\* A generator that sends owes what it did: the head of its box is in its stream now.
LEMMA GenerateOwes ==
    ASSUME Typed, NEW i \in Stage, Generate(i), NEW rest \in [Stage -> Seq(Value)], NEW over,
           NEW spill \in [Stage -> Seq(Value)], Owes(i, rest, over, spill)
    PROVE  Owes(i, rest, over, spill)'
<1> DEFINE b == box[i]
<1> DEFINE p == q[i]
<1>1. /\ worker[i] = "generate" /\ b \in Seq(Int) /\ b # <<>> /\ p \in Seq(Int)
      /\ worker'[i] \in {"return", "generate"} /\ box'[i] = Tail(b) /\ q'[i] = Append(p, Head(b))
      /\ UNCHANGED <<stages, forwarded, taken, ended, side>>
  BY DEF Generate, Sends, WorkerGoesTo, Typed, StreamsTypeOK, BoxFits
<1> HIDE DEF b, p
<1>3. Append(p, Head(b)) \o Tail(b) = p \o b
  BY <1>1, FirstSent
<1>4. (q[i] \o ToCome(i, rest, spill))' = q[i] \o ToCome(i, rest, spill)
  BY <1>1, <1>3 DEF ToCome, b, p
<1>5. QED BY <1>1, <1>4 DEF Owes, Forwards, Pending

\* A generator that returns has nothing more to send.
LEMMA GeneratorReturnsOwes ==
    ASSUME Typed, NEW i \in Stage, GeneratorReturns(i), NEW rest \in [Stage -> Seq(Value)], NEW over,
           NEW spill \in [Stage -> Seq(Value)], Owes(i, rest, over, spill)
    PROVE  Owes(i, rest, over, spill)'
<1>1. /\ worker[i] = "return" /\ worker'[i] = "done"
      /\ UNCHANGED <<stages, q, forwarded, box, taken, ended, side>>
  BY DEF GeneratorReturns, WorkerGoesTo, Typed, StreamsTypeOK
<1>2. ToCome(i, rest, spill)' = ToCome(i, rest, spill)
  BY <1>1 DEF ToCome
<1>3. QED BY <1>1, <1>2 DEF Owes, Forwards, Pending

\* A worker that sends owes what it did; a take that has sent its last value owes the
\* sentinel only.
LEMMA WorkerSendsOwes ==
    ASSUME Typed, NEW i \in Stage, WorkerSends(i), NEW rest \in [Stage -> Seq(Value)], NEW over,
           NEW spill \in [Stage -> Seq(Value)], Owes(i, rest, over, spill)
    PROVE  Owes(i, rest, over, spill)'
<1> DEFINE v == box[i][1]
<1> DEFINE p == q[i]
<1>1. /\ box[i] = <<v>> /\ v \in Int /\ Len(box[i]) = 1
      /\ worker[i] = "close" => v = End
      /\ worker[i] \in {"send", "close"}
      /\ worker'[i] = AfterSend(i) /\ box'[i] = BoxAfterSend(i)
      /\ q'[i] = Append(p, v) /\ taken'[i] = taken[i] + 1 /\ p \in Seq(Int) /\ taken[i] \in Nat
      /\ UNCHANGED <<stages, forwarded, ended, side>>
  BY ONLY Typed, i \in Stage, WorkerSends(i), SendsOne DEF Typed, StreamsTypeOK
<1>2. /\ Unread(i, rest) \in Seq(Value) /\ Unread(i, rest) \o <<End>> \in Seq(Int)
      /\ spill[i] \in Seq(Int) /\ spill[i] \o (Unread(i, rest) \o <<End>>) \in Seq(Int)
      /\ <<End>> \in Seq(Int)
  BY ToComeTyped
<1> HIDE DEF v, p
<1>3. CASE worker[i] = "close"
  <2>1. AfterSend(i) = "done" /\ BoxAfterSend(i) = <<>> /\ <<>> \in Seq(Int)
    BY <1>3 DEF AfterSend, BoxAfterSend
  <2>2. ToCome(i, rest, spill) = <<v>> /\ ToCome(i, rest, spill)' = <<>>
    BY <1>1, <1>3, <2>1 DEF ToCome
  <2>3. Append(p, v) \o <<>> = p \o (<<v>> \o <<>>) /\ <<v>> \o <<>> = <<v>>
    <3>1. <<v>> \in Seq(Int)
      BY <1>1
    <3>2. QED BY <1>1, <2>1, <3>1, SentIsThere, ConcatNone
  <2>4. (q[i] \o ToCome(i, rest, spill))' = q[i] \o ToCome(i, rest, spill)
    BY <1>1, <2>2, <2>3 DEF p
  <2>5. Forwards(i)' = Forwards(i) /\ worker'[i] = "done"
    BY <1>1, <1>3, <2>1 DEF Forwards
  <2>6. QED BY <1>1, <1>3, <2>4, <2>5 DEF Owes, Pending
<1>4. CASE worker[i] = "send" /\ stages[i].k = "take" /\ TakenAll(i, taken[i] + 1)
  <2>1. AfterSend(i) = "close" /\ BoxAfterSend(i) = <<End>>
    BY <1>4 DEF AfterSend, BoxAfterSend
  <2>2. spill[i] = <<>> /\ ~Forwards(i) /\ ~Forwards(i)'
    BY <1>1, <1>4 DEF Owes, Forwards
  <2>3. Unread(i, rest) = <<>>
    <3> DEFINE x == rest[stages[i].in]
    <3> DEFINE n == stages[i].n
    <3> DEFINE m == taken[i]
    <3>1. Unread(i, rest) = FirstFew(x, n - (m + 1))
      BY <1>1, <1>4 DEF Unread, Given
    <3>2. n \in Int /\ m \in Nat /\ x \in Seq(Value) /\ m + 1 >= n
      <4>1. stages[i].in \in 1..(i - 1) /\ n \in Int /\ Stage = 1..Last_ /\ Last_ \in Nat /\ i \in 1..Last_
        BY <1>4, StageShape DEF Typed
      <4>2. stages[i].in \in Stage
        BY <4>1
      <4>3. QED BY <1>1, <1>4, <4>1, <4>2 DEF TakenAll
    <3> HIDE DEF x, n, m
    <3>3. n - (m + 1) \in Int /\ n - (m + 1) <= 0
      BY <3>2
    <3>4. FirstFew(x, n - (m + 1)) = <<>>
      BY <3>2, <3>3, FirstFewFirst
    <3>5. QED BY <3>1, <3>4
  <2>4. ToCome(i, rest, spill) = <<v>> \o <<End>>
    <3>1. ToCome(i, rest, spill) = <<v>> \o (<<>> \o (<<>> \o <<End>>))
      BY <1>1, <1>4, <2>2, <2>3 DEF ToCome
    <3>2. <<>> \o <<End>> = <<End>>
      BY <1>2, ConcatNone
    <3>3. QED BY <3>1, <3>2
  <2>5. ToCome(i, rest, spill)' = <<End>>
    BY <1>1, <2>1 DEF ToCome
  <2>6. (q[i] \o ToCome(i, rest, spill))' = q[i] \o ToCome(i, rest, spill)
    <3>1. Append(p, v) \o <<End>> = p \o (<<v>> \o <<End>>)
      BY <1>1, <1>2, SentIsThere
    <3>2. QED BY <1>1, <2>4, <2>5, <3>1 DEF p
  <2>7. QED BY <1>1, <1>4, <2>1, <2>2, <2>6 DEF Owes, Pending
<1>5. CASE worker[i] = "send" /\ ~(stages[i].k = "take" /\ TakenAll(i, taken[i] + 1))
  <2>1. /\ AfterSend(i) = IF stages[i].k = "flat_map" THEN "inner" ELSE "read"
        /\ BoxAfterSend(i) = <<>>
    BY <1>5 DEF AfterSend, BoxAfterSend
  <2>2. Forwards(i)' = Forwards(i)
    BY <1>1, <1>5, <2>1 DEF Forwards
  <2>3. Unread(i, rest)' = Unread(i, rest)
    <3>1. (taken[i] + Len(box[i]))' = taken[i] + Len(box[i])
      BY <1>1, <2>1
    <3>2. QED BY <1>1, <3>1 DEF Unread
  <2> DEFINE x == spill[i] \o (Unread(i, rest) \o <<End>>)
  <2>4. ToCome(i, rest, spill) = <<v>> \o x
    BY <1>1, <1>5 DEF ToCome
  <2>5. ToCome(i, rest, spill)' = x
    <3>1. ToCome(i, rest, spill)' = <<>> \o x
      BY <1>1, <2>1, <2>3 DEF ToCome
    <3> HIDE DEF x
    <3>2. <<>> \o x = x
      BY <1>2, ConcatNone DEF x
    <3>3. QED BY <3>1, <3>2
  <2> HIDE DEF x
  <2>6. (q[i] \o ToCome(i, rest, spill))' = q[i] \o ToCome(i, rest, spill)
    <3>1. x \in Seq(Int)
      BY <1>2 DEF x
    <3>2. Append(p, v) \o x = p \o (<<v>> \o x)
      BY <1>1, <3>1, SentIsThere
    <3>3. QED BY <1>1, <2>4, <2>5, <3>2 DEF p
  <2>7. stages[i].k = "take" => taken[i] + 1 < stages[i].n
    <3> SUFFICES ASSUME stages[i].k = "take" PROVE taken[i] + 1 < stages[i].n
      OBVIOUS
    <3> DEFINE n == stages[i].n
    <3> DEFINE m == taken[i]
    <3>1. n \in Int /\ m \in Nat /\ ~(m + 1 >= n)
      BY <1>1, <1>5, StageShape DEF Typed, TakenAll
    <3> HIDE DEF n, m
    <3>2. m + 1 < n
      BY <3>1
    <3>3. QED BY <3>2 DEF n, m
  <2>8. worker'[i] \in {"inner", "read"} /\ worker'[i] # "absent"
    BY <1>1, <2>1
  <2>9. QED BY <1>1, <1>5, <2>2, <2>6, <2>7, <2>8 DEF Owes, Pending
<1>6. QED BY <1>1, <1>3, <1>4, <1>5

\* A value of a flat_map's inner stream is sent: it is still to be forwarded.
LEMMA GenerateInnerOwes ==
    ASSUME Typed, NEW i \in Stage, GenerateInner(i), NEW rest \in [Stage -> Seq(Value)], NEW over,
           NEW spill \in [Stage -> Seq(Value)], Owes(i, rest, over, spill)
    PROVE  Owes(i, rest, over, spill)'
<1> DEFINE p == forwarded[i].q
<1> DEFINE r == forwarded[i].rest
<1>1. /\ p \in Seq(Int) /\ r \in Seq(Int) /\ r # <<>>
      /\ forwarded'[i].q = Append(p, Head(r)) /\ forwarded'[i].rest = Tail(r)
      /\ UNCHANGED <<stages, q, worker, box, taken, ended, side>>
  <2>1. /\ r \in Seq(Int) /\ r # <<>> /\ p \in Seq(Int)
        /\ forwarded' = [forwarded EXCEPT ![i] = [q |-> Append(p, Head(r)), rest |-> Tail(r)]]
        /\ UNCHANGED <<stages, q, worker, box, taken, ended, side>>
    BY GeneratesInner
  <2> DEFINE new == [q |-> Append(p, Head(r)), rest |-> Tail(r)]
  <2>2. new.q = Append(p, Head(r)) /\ new.rest = Tail(r)
    OBVIOUS
  <2> HIDE DEF new, p, r
  <2>3. forwarded'[i] = new
    BY <2>1 DEF new, Typed, StreamsTypeOK
  <2>4. QED BY <2>1, <2>2, <2>3
<1> HIDE DEF p, r
<1>3. Append(p, Head(r)) \o Tail(r) = p \o r
  BY <1>1, FirstSent
<1>4. (forwarded[i].q \o forwarded[i].rest)' = forwarded[i].q \o forwarded[i].rest
  BY <1>1, <1>3 DEF p, r
<1>5. ToCome(i, rest, spill)' = ToCome(i, rest, spill) /\ Forwards(i)' = Forwards(i)
  BY <1>1 DEF ToCome, Unread, Forwards
<1>6. QED BY <1>1, <1>4, <1>5 DEF Owes, Pending

Regroups(p, f, g) == (p \o f) \o g = p \o (f \o g)

\* Joining lists is associative, as an equation.
LEMMA AllRegroup == \A p, f, g \in Seq(Int) : Regroups(p, f, g)
<1>1. ASSUME NEW p \in Seq(Int), NEW f \in Seq(Int), NEW g \in Seq(Int)
      PROVE  Regroups(p, f, g)
  BY ConcatThree DEF Regroups
<1>2. QED BY ONLY <1>1

\* Only a take counts what it has forwarded.
LEMMA NotATake == \A i, f, m, n, x : stages[i].k # "take" => Given(stages[i], f, m, x) = Given(stages[i], f, n, x)
BY DEF Given

FourInARow(x, y, u, last) == ((x \o y) \o u) \o last = x \o (y \o (u \o last))

\* Joining four lists from the left or from the right.
LEMMA FourJoined ==
    ASSUME NEW x \in Seq(Int), NEW y \in Seq(Int), NEW u \in Seq(Int), NEW last \in Seq(Int)
    PROVE  FourInARow(x, y, u, last)
<1>1. x \o y \in Seq(Int) /\ u \o last \in Seq(Int)
  BY ConcatThree
<1>2. PICK xy \in Seq(Int) : xy = x \o y
  BY <1>1
<1>3. PICK ul \in Seq(Int) : ul = u \o last
  BY <1>1
<1>4. (x \o y) \o ul = x \o (y \o ul)
  <2>1. Regroups(x, y, ul)
    BY ONLY x \in Seq(Int), y \in Seq(Int), ul \in Seq(Int), AllRegroup
  <2>2. QED BY ONLY <2>1 DEF Regroups
<1>5. (xy \o u) \o last = xy \o (u \o last)
  <2>1. Regroups(xy, u, last)
    BY ONLY xy \in Seq(Int), u \in Seq(Int), last \in Seq(Int), AllRegroup
  <2>2. QED BY ONLY <2>1 DEF Regroups
<1>6. ((x \o y) \o u) \o last = x \o (y \o (u \o last))
  BY ONLY <1>2, <1>3, <1>4, <1>5
<1>7. QED BY ONLY <1>6 DEF FourInARow

\* What a flat_map has still to forward, once it has read v.
SpillRead(spill, spill1, i, v) == spill1[i] = IF v = End THEN spill[i] ELSE Tail(spill[i])

\* A flat_map that reads its inner stream has in its box what it had to forward, or
\* is through with it.
LEMMA ReadInnerOwes ==
    ASSUME Typed, NEW i \in Stage, ReadInner(i), NEW rest, NEW over,
           NEW spill, AreLists(rest, spill), Owes(i, rest, over, spill),
           NEW v, v = Head(forwarded[i].q), NEW spill1, SpillRead(spill, spill1, i, v)
    PROVE  Owes(i, rest, over, spill1)' /\ spill1[i] \in Seq(Value)
<1>. rest \in [Stage -> Seq(Value)] /\ spill \in [Stage -> Seq(Value)]
     /\ spill1[i] = IF v = End THEN spill[i] ELSE Tail(spill[i])
  BY DEF AreLists, SpillRead
<1> DEFINE p == forwarded[i].q
<1> DEFINE r == forwarded[i].rest
<1> DEFINE s == spill[i]
<1>1. /\ worker[i] = "inner" /\ stages[i].k = "flat_map" /\ box[i] = <<>>
      /\ p \in Seq(Int) /\ r \in Seq(Int) /\ p # <<>> /\ v \in Int /\ (v # End => v \in Value)
      /\ forwarded'[i].q = Tail(p) /\ forwarded'[i].rest = r
      /\ worker'[i] = (IF v = End THEN "read" ELSE "send")
      /\ box'[i] = (IF v = End THEN <<>> ELSE <<v>>)
      /\ UNCHANGED <<stages, q, taken, ended, side>>
  <2>1. /\ worker[i] = "inner" /\ stages[i].k = "flat_map" /\ box[i] = <<>>
        /\ r \in Seq(Int) /\ p # <<>> /\ p \in Seq(Int)
        /\ v \in Int /\ (v # End => v \in Value)
        /\ forwarded' = [forwarded EXCEPT ![i] = [q |-> Tail(p), rest |-> r]]
        /\ worker' = [worker EXCEPT ![i] = IF v = End THEN "read" ELSE "send"]
        /\ box' = [box EXCEPT ![i] = IF v = End THEN <<>> ELSE <<v>>]
        /\ UNCHANGED <<stages, q, taken, ended, side>>
    BY ReadsInner
  <2> DEFINE new == [q |-> Tail(p), rest |-> r]
  <2>2. new.q = Tail(p) /\ new.rest = r
    OBVIOUS
  <2> HIDE DEF new, p, r
  <2>3. forwarded'[i] = new
    BY <2>1 DEF new, Typed, StreamsTypeOK
  <2>4. worker'[i] = (IF v = End THEN "read" ELSE "send") /\ box'[i] = (IF v = End THEN <<>> ELSE <<v>>)
    BY <2>1 DEF Typed, StreamsTypeOK
  <2>5. QED BY <2>1, <2>2, <2>3, <2>4
<1>2. s \in Seq(Value) /\ p \o r = s \o <<End>>
  BY <1>1 DEF Owes, Forwards
<1> DEFINE u == Unread(i, rest) \o <<End>>
<1>3. u \in Seq(Int) /\ s \in Seq(Int)
  BY ToComeTyped
<1> HIDE DEF p, r, s, u
<1>4. /\ Head(p) = End => s = <<>> /\ Tail(p) \o r = <<>>
      /\ Head(p) # End => /\ s # <<>> /\ Head(s) = Head(p) /\ Head(p) \in Value
                          /\ Tail(s) \in Seq(Value) /\ Tail(p) \o r = Tail(s) \o <<End>>
  <2>1. p \in Seq(Int) /\ r \in Seq(Int) /\ p # <<>> /\ s \in Seq(Value) /\ p \o r = s \o <<End>>
    BY <1>1, <1>2
  <2>2. QED BY ONLY <2>1, NextIsOwed
<1>5. v = Head(p)
  BY DEF p
<1>6. Unread(i, rest)' = Unread(i, rest)
  <2> DEFINE m == taken[i] + Len(box[i])
  <2> DEFINE n == taken[i] + Len(box'[i])
  <2> HIDE DEF m, n
  <2>1. \A x : Given(stages[i], rest, m, x) = Given(stages[i], rest, n, x)
    BY <1>1, NotATake
  <2>2. QED BY <1>1, <2>1 DEF Unread, m, n
<1>7. ToCome(i, rest, spill) = s \o u
  <2>1. ToCome(i, rest, spill) = <<>> \o (s \o u)
    BY <1>1 DEF ToCome, s, u
  <2>2. s \o u \in Seq(Int)
    BY <1>3, ConcatThree
  <2>3. QED BY <2>1, <2>2, ConcatNone
<1>8. CASE v = End
  <2>1. worker'[i] = "read" /\ box'[i] = <<>> /\ spill1[i] = <<>> /\ ~Forwards(i)'
    BY <1>1, <1>4, <1>5, <1>8 DEF Forwards, s
  <2>2. ToCome(i, rest, spill1)' = <<>> \o (<<>> \o u)
    BY <1>6, <2>1 DEF ToCome, u
  <2>3. ToCome(i, rest, spill1)' = ToCome(i, rest, spill)
    <3>1. s = <<>>
      BY <1>4, <1>5, <1>8
    <3> HIDE DEF s, u
    <3>2. u \in Seq(Int)
      BY <1>3
    <3>3. <<>> \o u = u
      BY ONLY <3>2, ConcatNone
    <3>4. QED BY ONLY <1>7, <2>2, <3>1, <3>3
  <2>4. (forwarded[i].q \o forwarded[i].rest)' = <<>>
    BY <1>1, <1>4, <1>5, <1>8
  <2>5. QED BY <1>1, <2>1, <2>3, <2>4 DEF Owes, Pending
<1>9. CASE v # End
  <2>1. worker'[i] = "send" /\ box'[i] = <<v>> /\ spill1[i] = Tail(s) /\ Forwards(i)'
    BY <1>1, <1>4, <1>5, <1>9 DEF Forwards, s
  <2>2. ToCome(i, rest, spill1)' = <<v>> \o (Tail(s) \o u)
    BY <1>6, <2>1 DEF ToCome, u
  <2>3. s = <<v>> \o Tail(s) /\ <<v>> \in Seq(Int) /\ Tail(s) \in Seq(Int)
    BY <1>1, <1>3, <1>4, <1>5, <1>9, FirstThenRest
  <2>4. ToCome(i, rest, spill1)' = ToCome(i, rest, spill)
    <3> DEFINE one == <<v>>
    <3> DEFINE t == Tail(s)
    <3>1. one \in Seq(Int) /\ t \in Seq(Int) /\ s = one \o t /\ ToCome(i, rest, spill1)' = one \o (t \o u)
      BY <2>2, <2>3
    <3> HIDE DEF one, t
    <3>2. Regroups(one, t, u)
      BY ONLY <1>3, <3>1, AllRegroup
    <3>3. (one \o t) \o u = one \o (t \o u)
      BY ONLY <3>2 DEF Regroups
    <3>4. QED BY ONLY <1>7, <3>1, <3>3
  <2>5. (forwarded[i].q \o forwarded[i].rest)' = spill1[i] \o <<End>>
    BY <1>1, <1>4, <1>5, <1>9, <2>1
  <2>6. QED BY <1>1, <1>4, <1>5, <1>9, <2>1, <2>4, <2>5 DEF Owes, Pending
<1>10. QED BY <1>8, <1>9

\* A stage that starts owes what it did before: a take of no values, the sentinel.
LEMMA MakeOwes ==
    ASSUME Typed, Make, NEW i, i = main.i, NEW rest \in [Stage -> Seq(Value)], NEW over,
           NEW spill \in [Stage -> Seq(Value)], Owes(i, rest, over, spill)
    PROVE  Owes(i, rest, over, spill)'
<1>1. /\ i \in Stage /\ worker[i] = "absent" /\ box[i] = <<>> /\ taken[i] = 0 /\ side[i] = "a"
      /\ worker'[i] = Started(i) /\ box'[i] = BoxStarted(i)
      /\ UNCHANGED <<stages, q, forwarded, taken, ended, side>>
  <2>1. /\ i \in Stage /\ worker[i] = "absent" /\ box[i] = <<>>
        /\ worker' = [worker EXCEPT ![i] = Started(i)] /\ box' = [box EXCEPT ![i] = BoxStarted(i)]
        /\ UNCHANGED <<stages, q, forwarded, taken, ended, side>>
    BY Makes
  <2>2. QED BY <2>1 DEF Owes, Typed, StreamsTypeOK
<1> DEFINE u == Unread(i, rest)
<1>2. u \in Seq(Int) /\ u \o <<End>> \in Seq(Int) /\ <<End>> \in Seq(Int) /\ spill[i] = <<>>
  <2>1. u \in Seq(Value) /\ u \o <<End>> \in Seq(Int) /\ <<End>> \in Seq(Int)
    BY <1>1, ToComeTyped
  <2>2. spill[i] = <<>>
    BY <1>1 DEF Owes, Forwards
  <2> HIDE DEF u
  <2>3. QED BY <2>1, <2>2, ValuesAreInts
<1>3. ToCome(i, rest, spill) = u \o <<End>>
  <2>1. ToCome(i, rest, spill) = <<>> \o (<<>> \o (u \o <<End>>))
    BY <1>1, <1>2 DEF ToCome
  <2> HIDE DEF u
  <2>2. QED BY <1>2, <2>1, ConcatNone
<1>4. u = Given(stages[i], rest, 0, "a")
  <2>1. 0 + Len(<<>>) = 0
    OBVIOUS
  <2>2. QED BY <1>1, <2>1 DEF Unread
<1>5. CASE stages[i].k = "gen"
  <2>1. Started(i) = "generate" /\ BoxStarted(i) = stages[i].xs \o <<End>>
    BY <1>5 DEF Started, BoxStarted
  <2>2. u = stages[i].xs
    BY <1>4, <1>5 DEF Given
  <2>3. ToCome(i, rest, spill)' = ToCome(i, rest, spill)
    BY <1>1, <1>3, <2>1, <2>2 DEF ToCome
  <2>4. QED BY <1>1, <1>5, <2>1, <2>3 DEF Owes, Forwards, Pending
<1>6. CASE stages[i].k = "take" /\ TakenAll(i, 0)
  <2>1. Started(i) = "close" /\ BoxStarted(i) = <<End>>
    BY <1>6 DEF Started, BoxStarted
  <2>2. u = <<>>
    <3> DEFINE x == rest[stages[i].in]
    <3> DEFINE n == stages[i].n
    <3>1. u = FirstFew(x, n - 0)
      BY <1>4, <1>6 DEF Given
    <3>2. n \in Int /\ x \in Seq(Value) /\ 0 >= n
      <4>1. stages[i].in \in 1..(i - 1) /\ n \in Int /\ Stage = 1..Last_ /\ Last_ \in Nat /\ i \in 1..Last_
        BY <1>1, <1>6, StageShape DEF Typed
      <4>2. stages[i].in \in Stage
        BY <4>1
      <4>3. QED BY <1>1, <1>6, <4>1, <4>2 DEF TakenAll
    <3> HIDE DEF x, n, u
    <3>3. n - 0 \in Int /\ n - 0 <= 0
      BY <3>2
    <3>4. FirstFew(x, n - 0) = <<>>
      BY <3>2, <3>3, FirstFewFirst
    <3>5. QED BY <3>1, <3>4
  <2>3. ToCome(i, rest, spill)' = <<End>>
    BY <1>1, <2>1 DEF ToCome
  <2>4. ToCome(i, rest, spill)' = ToCome(i, rest, spill)
    BY <1>2, <1>3, <2>2, <2>3, ConcatNone
  <2>5. QED BY <1>1, <1>6, <2>1, <2>4 DEF Owes, Forwards, Pending
<1>7. CASE stages[i].k # "gen" /\ ~(stages[i].k = "take" /\ TakenAll(i, 0))
  <2>1. Started(i) = "read" /\ BoxStarted(i) = <<>>
    BY <1>7 DEF Started, BoxStarted
  <2>2. ToCome(i, rest, spill)' = ToCome(i, rest, spill)
    BY <1>1, <2>1 DEF ToCome, Unread
  <2>3. stages[i].k = "take" => taken[i] < stages[i].n
    <3> SUFFICES ASSUME stages[i].k = "take" PROVE taken[i] < stages[i].n
      OBVIOUS
    <3> DEFINE n == stages[i].n
    <3>1. n \in Int /\ ~(0 >= n)
      BY <1>1, <1>7, StageShape DEF Typed, TakenAll
    <3> HIDE DEF n
    <3>2. 0 < n
      BY <3>1
    <3>3. QED BY <1>1, <3>2 DEF n
  <2>4. QED BY <1>1, <1>7, <2>1, <2>2, <2>3 DEF Owes, Forwards, Pending
<1>8. QED BY <1>5, <1>6, <1>7

-----------------------------------------------------------------------------
(* A worker with one input.                                                  *)

SpilledBy(i, v) == IF v # End /\ stages[i].k = "flat_map" THEN Expanded(v) ELSE <<>>

\* Stage i, of one input x of which v is the first, with m values gone, and what its reading leaves.
ReadsFirst(i, f, g, m, x, v) ==
    /\ stages[i].k \in {"map", "filter", "flat_map", "take"}
    /\ f[stages[i].in] = x /\ x # <<>> /\ Head(x) = v /\ g[stages[i].in] = Tail(x)
    /\ stages[i].k = "take" => stages[i].n \in Int /\ m < stages[i].n
HasNone(i, f) ==
    /\ stages[i].k \in {"map", "filter", "flat_map", "take"}
    /\ f[stages[i].in] = <<>>
    /\ stages[i].k = "take" => stages[i].n \in Int
\* What stage i gives of f is what it makes of v, and then what it gives of g.
GivesFirst(i, f, g, m, turn, v) ==
    Given(stages[i], f, m, turn)
      = (BoxAfterRead(i, v) \o SpilledBy(i, v)) \o Given(stages[i], g, m + Len(BoxAfterRead(i, v)), turn)

\* Nothing is made of nothing.
LEMMA NothingMade ==
    ASSUME NEW i, NEW f, HasNone(i, f), NEW m \in Int, NEW turn
    PROVE  Given(stages[i], f, m, turn) = <<>>
<1> USE DEF HasNone
<1> DEFINE n == stages[i].n
<1>1. <<>> \in Seq(Value)
  OBVIOUS
<1>2. CASE stages[i].k = "map"
  BY <1>2, DoubledFirst DEF Given
<1>3. CASE stages[i].k = "filter"
  BY <1>3, KeptFirst DEF Given
<1>4. CASE stages[i].k = "flat_map"
  BY <1>4, ExpandedFirst DEF Given
<1>5. CASE stages[i].k = "take"
  <2>1. n - m \in Int
    <3>1. n \in Int
      BY <1>5
    <3> HIDE DEF n
    <3>2. QED BY <3>1
  <2>2. Given(stages[i], f, m, turn) = FirstFew(f[stages[i].in], n - m)
    BY <1>5 DEF Given
  <2>3. \A k \in Int : FirstFew(<<>>, k) = <<>>
    BY <1>1, FirstFewFirst
  <2>4. QED BY <2>1, <2>2, <2>3
<1>6. QED BY <1>2, <1>3, <1>4, <1>5

\* The first value of the source makes the first values given.
LEMMA FirstMade ==
    ASSUME NEW i, NEW f, NEW g, NEW v, NEW m \in Int, NEW x \in Seq(Value),
           ReadsFirst(i, f, g, m, x, v), NEW turn
    PROVE  GivesFirst(i, f, g, m, turn, v)
<1> USE DEF ReadsFirst, GivesFirst
<1>1. v \in Value /\ v # End /\ v \in Int /\ Tail(x) \in Seq(Value)
  <2>1. v \in Value /\ Tail(x) \in Seq(Value)
    BY FirstAndRest
  <2>2. QED BY <2>1, ValuesAreInts
<1>2. CASE stages[i].k = "map"
  <2>1. BoxAfterRead(i, v) = <<Doubled(v)>> /\ SpilledBy(i, v) = <<>>
    BY <1>1, <1>2 DEF BoxAfterRead, SpilledBy
  <2>2. \A k : Given(stages[i], f, m, turn) = DoubledAll(x) /\ Given(stages[i], g, k, turn) = DoubledAll(Tail(x))
    BY <1>2 DEF Given
  <2>3. DoubledAll(x) = <<Doubled(v)>> \o DoubledAll(Tail(x))
    BY DoubledFirst
  <2>4. <<Doubled(v)>> \o <<>> = <<Doubled(v)>>
    <3>1. Doubled(v) \in Value
      BY <1>1, ValuesMade
    <3>2. Doubled(v) \in Int
      BY <3>1, ValuesAreInts
    <3>3. <<Doubled(v)>> \in Seq(Int)
      BY <3>2
    <3>4. QED BY <3>3, ConcatNone
  <2>5. QED BY <2>1, <2>2, <2>3, <2>4
<1>3. CASE stages[i].k = "filter"
  <2>1. BoxAfterRead(i, v) = (IF Kept(v) THEN <<v>> ELSE <<>>) /\ SpilledBy(i, v) = <<>>
    BY <1>1, <1>3 DEF BoxAfterRead, SpilledBy
  <2>2. \A k : Given(stages[i], f, m, turn) = KeptOf(x) /\ Given(stages[i], g, k, turn) = KeptOf(Tail(x))
    BY <1>3 DEF Given
  <2>3. KeptOf(x) = (IF Kept(v) THEN <<v>> ELSE <<>>) \o KeptOf(Tail(x))
    BY KeptFirst
  <2>4. <<v>> \o <<>> = <<v>> /\ <<>> \o <<>> = <<>>
    <3>1. <<v>> \in Seq(Int) /\ <<>> \in Seq(Int)
      BY <1>1
    <3>2. QED BY <3>1, ConcatNone
  <2>5. QED BY <2>1, <2>2, <2>3, <2>4
<1>4. CASE stages[i].k = "flat_map"
  <2>1. BoxAfterRead(i, v) = <<>> /\ SpilledBy(i, v) = Expanded(v)
    BY <1>1, <1>4 DEF BoxAfterRead, SpilledBy
  <2>2. \A k : Given(stages[i], f, m, turn) = ExpandedAll(x) /\ Given(stages[i], g, k, turn) = ExpandedAll(Tail(x))
    BY <1>4 DEF Given
  <2>3. ExpandedAll(x) = Expanded(v) \o ExpandedAll(Tail(x))
    BY ExpandedFirst
  <2>4. <<>> \o Expanded(v) = Expanded(v)
    <3>1. Expanded(v) \in Seq(Value)
      BY <1>1, ValuesMade
    <3>2. Expanded(v) \in Seq(Int)
      BY <3>1, ValuesAreInts
    <3>3. QED BY <3>2, ConcatNone
  <2>5. QED BY <2>1, <2>2, <2>3, <2>4
<1>5. CASE stages[i].k = "take"
  <2> DEFINE n == stages[i].n
  <2>1. BoxAfterRead(i, v) = <<v>> /\ SpilledBy(i, v) = <<>> /\ Len(<<v>>) = 1
    BY <1>1, <1>5 DEF BoxAfterRead, SpilledBy
  <2>2. \A k : Given(stages[i], f, k, turn) = FirstFew(x, n - k) /\ Given(stages[i], g, k, turn) = FirstFew(Tail(x), n - k)
    BY <1>5 DEF Given
  <2>3. n \in Int /\ m < n
    BY <1>5
  <2> HIDE DEF n
  <2>4. n - m \in Int /\ n - m >= 1 /\ (n - m) - 1 = n - (m + 1)
    BY <2>3
  <2>5. FirstFew(x, n - m) = <<v>> \o FirstFew(Tail(x), (n - m) - 1)
    BY <2>4, FirstFewFirst
  <2>6. <<v>> \o <<>> = <<v>>
    <3>1. <<v>> \in Seq(Int)
      BY <1>1
    <3>2. QED BY <3>1, ConcatNone
  <2>7. QED BY <2>1, <2>2, <2>4, <2>5, <2>6
<1>6. QED BY <1>2, <1>3, <1>4, <1>5

\* What is owed once v is read from stream j.
RestRead(rest, j, v) == [rest EXCEPT ![j] = IF v = End THEN @ ELSE Tail(@)]
OverRead(over, j, v) == IF v = End THEN over \cup {j} ELSE over
OwedRead(rest, over, rest1, over1, j, v) ==
    /\ rest1 \in [Stage -> Seq(Value)] /\ over1 \in SUBSET Stage /\ over \subseteq over1
    /\ \A k \in Stage : k # j => rest1[k] = rest[k] /\ (k \in over1 <=> k \in over)
    /\ rest1[j] = IF v = End THEN rest[j] ELSE Tail(rest[j])
    /\ v = End => rest[j] = <<>> /\ j \in over1
    /\ v # End => rest[j] # <<>> /\ Head(rest[j]) = v

\* A worker that reads v owes what it makes of v and of the values after it, which is
\* what it owed.
LEMMA ReadOwes ==
    ASSUME Typed, NEW i \in Stage, Read(i), NEW j, j = stages[i].in, NEW v, v = Head(q[j]),
           NEW rest, NEW over, NEW spill, AreLists(rest, spill), Owes(i, rest, over, spill),
           NEW rest1, NEW over1, OwedRead(rest, over, rest1, over1, j, v),
           NEW spill1, spill1[i] = SpilledBy(i, v), i # j
    PROVE  Owes(i, rest1, over1, spill1)' /\ spill1[i] \in Seq(Value)
<1>. /\ rest \in [Stage -> Seq(Value)] /\ spill \in [Stage -> Seq(Value)] /\ rest1 \in [Stage -> Seq(Value)]
     /\ rest1[i] = rest[i] /\ (i \in over1 <=> i \in over)
     /\ v = End => rest[j] = <<>>
     /\ v # End => rest[j] # <<>> /\ Head(rest[j]) = v
     /\ rest1[j] = IF v = End THEN rest[j] ELSE Tail(rest[j])
  BY DEF AreLists, OwedRead
<1> DEFINE b == BoxAfterRead(i, v)
<1> DEFINE s == SpilledBy(i, v)
<1>1. /\ stages[i].k \in {"map", "filter", "flat_map", "take"} /\ j \in Stage
      /\ worker[i] = "read" /\ box[i] = <<>> /\ v \in Int /\ (v # End => v \in Value)
      /\ worker'[i] = AfterRead(i, v) /\ box'[i] = b /\ forwarded'[i] = ForwardedAfterRead(i, v)
      /\ q'[i] = q[i] /\ taken[i] \in Nat
      /\ UNCHANGED <<stages, taken, ended, side>>
  <2>1. /\ stages[i].k \in {"map", "filter", "flat_map", "take"} /\ j \in Stage
        /\ worker[i] = "read" /\ box[i] = <<>> /\ v \in Int /\ (v # End => v \in Value)
        /\ q' = [q EXCEPT ![j] = Tail(@)]
        /\ worker' = [worker EXCEPT ![i] = AfterRead(i, v)] /\ box' = [box EXCEPT ![i] = BoxAfterRead(i, v)]
        /\ forwarded' = [forwarded EXCEPT ![i] = ForwardedAfterRead(i, v)]
        /\ UNCHANGED <<stages, taken, ended, side>>
    BY ReadsOne
  <2>2. QED BY <2>1 DEF Typed, StreamsTypeOK
<1>2. s \in Seq(Value) /\ s \in Seq(Int)
  <2>1. s \in Seq(Value)
    BY <1>1, ValuesMade DEF SpilledBy
  <2> HIDE DEF s
  <2>2. QED BY <2>1, ValuesAreInts
<1>3. b \in Seq(Int)
  <2>1. v # End => Doubled(v) \in Int
    BY <1>1, ValuesMade, ValuesAreInts
  <2>2. End \in Int
    BY ValuesAreInts
  <2>3. QED BY <1>1, <2>1, <2>2 DEF BoxAfterRead
<1>4. spill[i] = <<>> /\ forwarded[i].q \o forwarded[i].rest = <<>> /\ ~Forwards(i)
      /\ (stages[i].k = "take" => stages[i].n \in Int /\ taken[i] < stages[i].n)
  <2>1. ~Forwards(i)
    BY <1>1 DEF Forwards
  <2>2. stages[i].k = "take" => stages[i].n \in Int
    BY StageShape DEF Typed
  <2>3. QED BY <1>1, <2>1, <2>2 DEF Owes
<1> DEFINE u == Unread(i, rest)
<1> DEFINE last == <<End>>
<1>5. u \in Seq(Int) /\ last \in Seq(Int) /\ u \o last \in Seq(Int)
  <2>1. u \in Seq(Value) /\ last \in Seq(Int) /\ u \o last \in Seq(Int)
    BY ToComeTyped
  <2> HIDE DEF u
  <2>2. QED BY <2>1, ValuesAreInts
<1>6. ToCome(i, rest, spill) = u \o last
  <2>1. ToCome(i, rest, spill) = <<>> \o (<<>> \o (u \o last))
    BY <1>1, <1>4 DEF ToCome
  <2> HIDE DEF u, last
  <2>2. QED BY <1>5, <2>1, ConcatNone
<1>7. u = Given(stages[i], rest, taken[i], side[i])
  <2>1. taken[i] + Len(<<>>) = taken[i]
    BY <1>1
  <2>2. QED BY <1>1, <2>1 DEF Unread
<1>8. CASE v = End
  <2>1. u = <<>>
    <3>1. taken[i] \in Int
      BY <1>1
    <3>2. HasNone(i, rest)
      BY <1>1, <1>4, <1>8 DEF HasNone
    <3>3. Given(stages[i], rest, taken[i], side[i]) = <<>>
      BY ONLY <3>1, <3>2, NothingMade
    <3> HIDE DEF u
    <3>4. QED BY <1>7, <3>3 DEF GivesFirst, u
  <2>2. worker'[i] = "close" /\ box'[i] = last /\ spill1[i] = <<>> /\ ~Forwards(i)' /\ forwarded'[i] = forwarded[i]
    <3>1. AfterRead(i, v) = "close" /\ SpilledBy(i, v) = <<>> /\ ForwardedAfterRead(i, v) = forwarded[i]
      BY ONLY <1>8 DEF AfterRead, ForwardedAfterRead, SpilledBy
    <3>2. BoxAfterRead(i, v) = <<End>>
      BY ONLY <1>8 DEF BoxAfterRead
    <3>3. spill1[i] = SpilledBy(i, v)
      OBVIOUS
    <3>4. QED BY ONLY <1>1, <3>1, <3>2, <3>3 DEF Forwards
  <2>3. ToCome(i, rest1, spill1)' = ToCome(i, rest, spill)
    <3>1. ToCome(i, rest1, spill1)' = last
      BY ONLY <2>2 DEF ToCome
    <3> HIDE DEF u, last
    <3>2. <<>> \o last = last
      BY ONLY <1>5, ConcatNone
    <3>3. QED BY ONLY <1>6, <2>1, <3>1, <3>2
  <2>4. QED BY <1>1, <1>2, <1>4, <2>2, <2>3 DEF Owes, Pending
<1>9. CASE v # End
  <2> DEFINE w == Given(stages[i], rest1, taken[i] + Len(b), side[i])
  <2>1. u = (b \o s) \o w
    <3> DEFINE x == rest[j]
    <3>1. x \in Seq(Value) /\ x # <<>> /\ Head(x) = v /\ rest1[j] = Tail(x) /\ taken[i] \in Int
      BY <1>1, <1>9
    <3> HIDE DEF x, u
    <3>2. ReadsFirst(i, rest, rest1, taken[i], x, v)
      BY <1>1, <1>4, <3>1 DEF x, ReadsFirst
    <3>3. GivesFirst(i, rest, rest1, taken[i], side[i], v)
      BY ONLY <3>1, <3>2, FirstMade
    <3>4. QED BY <1>7, <3>3 DEF GivesFirst, u
  <2>2. w = Unread(i, rest1)' /\ w \in Seq(Int)
    <3>1. w = Unread(i, rest1)'
      BY <1>1 DEF Unread
    <3>2. taken[i] + Len(b) \in Int
      <4> HIDE DEF b
      <4>1. Len(b) \in Nat
        BY <1>3
      <4>2. QED BY <1>1, <4>1
    <3>3. \A k \in Sources(stages[i]) : rest1[k] \in Seq(Value)
      <4>1. Sources(stages[i]) = {j}
        BY <1>1, StageShape DEF Typed
      <4>2. QED BY <1>1, <4>1
    <3> HIDE DEF b
    <3>4. w \in Seq(Value)
      BY <3>2, <3>3, GivenTyped DEF Typed
    <3> HIDE DEF w
    <3>5. QED BY <3>1, <3>4, ValuesAreInts
  <2>3. worker'[i] \in {"inner", "read", "send"} /\ (worker'[i] = "read" => stages[i].k = "filter")
    BY <1>9, <1>1 DEF AfterRead
  <2>4. ToCome(i, rest1, spill1)' = b \o (s \o (w \o last))
    <3>1. box'[i] = b /\ w = Unread(i, rest1)' /\ spill1[i] = s
      BY <1>1, <2>2
    <3> HIDE DEF b, s, w
    <3>2. ToCome(i, rest1, spill1)' = box'[i] \o (spill1[i] \o (Unread(i, rest1)' \o last))
      BY ONLY <2>3 DEF ToCome, last
    <3>3. QED BY ONLY <3>1, <3>2
  <2>5. ToCome(i, rest1, spill1)' = ToCome(i, rest, spill)
    <3> HIDE DEF b, s, u, w, last
    <3>1. FourInARow(b, s, w, last)
      BY ONLY <1>2, <1>3, <1>5, <2>2, FourJoined
    <3>2. ((b \o s) \o w) \o last = b \o (s \o (w \o last))
      BY ONLY <3>1 DEF FourInARow
    <3>3. QED BY ONLY <1>6, <2>1, <2>4, <3>2
  <2>6. (forwarded[i].q \o forwarded[i].rest)' = (IF Forwards(i)' THEN s \o last ELSE <<>>)
        /\ (~Forwards(i)' => s = <<>>)
    <3>1. CASE stages[i].k = "flat_map"
      <4>1. Forwards(i)' /\ forwarded'[i] = [q |-> <<>>, rest |-> Append(s, End)]
        BY <1>1, <1>9, <3>1 DEF Forwards, AfterRead, ForwardedAfterRead, SpilledBy
      <4>2. <<>> \o Append(s, End) = s \o last
        <5> HIDE DEF s
        <5>1. s \in Seq(Int) /\ End \in Int
          BY <1>2, ValuesAreInts
        <5>2. AppendsLast(s, End)
          BY ONLY <5>1, AppendedLast
        <5>3. Append(s, End) \in Seq(Int) /\ Append(s, End) = s \o <<End>>
          BY ONLY <5>2 DEF AppendsLast
        <5>4. <<>> \o Append(s, End) = Append(s, End)
          BY ONLY <5>3, ConcatNone
        <5>5. QED BY ONLY <5>3, <5>4
      <4>3. forwarded'[i].q = <<>> /\ forwarded'[i].rest = Append(s, End)
        BY ONLY <4>1
      <4> HIDE DEF s, last
      <4>4. QED BY ONLY <4>1, <4>2, <4>3
    <3>2. CASE stages[i].k # "flat_map"
      <4>1. ~Forwards(i)' /\ s = <<>>
        BY <1>1, <3>2 DEF Forwards, SpilledBy
      <4>2. forwarded'[i] = forwarded[i]
        BY <1>1, <3>2 DEF ForwardedAfterRead
      <4>3. QED BY ONLY <1>4, <4>1, <4>2
    <3>3. QED BY ONLY <3>1, <3>2
  <2>7. spill1[i] \in Seq(Value)
    BY <1>2
  <2>8. QED
    <3> DEFINE moved == (forwarded[i].q \o forwarded[i].rest)'
    <3>1. moved = (IF Forwards(i)' THEN spill1[i] \o last ELSE <<>>) /\ (~Forwards(i)' => spill1[i] = <<>>)
      BY <2>6
    <3> HIDE DEF b, s, u, w, moved
    <3>2. QED BY <1>1, <1>4, <2>3, <2>5, <2>7, <3>1 DEF Owes, Pending, moved, last
<1>10. QED BY <1>8, <1>9

-----------------------------------------------------------------------------
(* A merge.                                                                  *)

\* A stage reads earlier stages, and no other stage reads them.
LEMMA SourcesEarlier ==
    ASSUME IsPipeline(stages), NEW i \in Stage
    PROVE  /\ Last_ \in Stage
           /\ \A k \in Sources(stages[i]) : k \in Stage /\ k # i /\ k # Last_
           /\ \A k \in Stage : k # i => Sources(stages[i]) \cap Sources(stages[k]) = {}
<1>1. Stage = 1..Last_ /\ Last_ \in Nat \ {0} /\ Sources(stages[i]) \in SUBSET (1..(i - 1))
  <2>1. stages[i].k \in Kinds
    BY StageShape
  <2>2. stages[i].k \in {"map", "filter", "flat_map", "take"} \/ stages[i].k = "gen" \/ stages[i].k = "merge"
    BY <2>1 DEF Kinds
  <2>3. Stage = 1..Last_ /\ Last_ \in Nat \ {0}
    BY StageShape
  <2>4. CASE stages[i].k = "gen"
    <3>1. Sources(stages[i]) = {}
      BY <2>4, StageShape
    <3>2. QED BY <2>3, <3>1
  <2>5. CASE stages[i].k = "merge"
    <3>1. stages[i].a \in 1..(i - 1) /\ stages[i].b \in 1..(i - 1) /\ Sources(stages[i]) = {stages[i].a, stages[i].b}
      BY <2>5, StageShape
    <3>2. QED BY ONLY <2>3, <3>1
  <2>6. CASE stages[i].k \in {"map", "filter", "flat_map", "take"}
    <3>1. stages[i].in \in 1..(i - 1) /\ Sources(stages[i]) = {stages[i].in}
      BY <2>6, StageShape
    <3>2. QED BY ONLY <2>3, <3>1
  <2>7. QED BY <2>2, <2>4, <2>5, <2>6
<1>2. \A k \in 1..(i - 1) : k \in 1..Last_ /\ k # i /\ k # Last_
  BY <1>1
<1>3. Last_ \in Stage
  BY <1>1
<1>4. \A k \in Stage : k # i => Sources(stages[i]) \cap Sources(stages[k]) = {}
  <2>1. \A m, k \in 1..Last_ : m # k => Sources(stages[m]) \cap Sources(stages[k]) = {}
    BY DEF IsPipeline, Last_
  <2>2. QED BY <1>1, <2>1
<1>5. QED BY <1>1, <1>2, <1>3, <1>4

Source(i, x) == IF x = "a" THEN stages[i].a ELSE stages[i].b

\* A merge reads first the side whose turn it is.
LEMMA GivenInTurn ==
    ASSUME NEW i, stages[i].k = "merge", NEW x \in {"a", "b"}
    PROVE  \A f, m : Given(stages[i], f, m, x) = Merged(f[Source(i, x)], f[Source(i, Other(x))])
BY DEF Given, Source, Other

\* The first value of the side that is read is the first of the merge, whose
\* turn then passes to the other side, unless that one has no value.
MergesFirst(x, y, v) ==
    /\ x # <<>> => Merged(x, y) = <<v>> \o Merged(y, Tail(x))
    /\ x # <<>> /\ y = <<>> => Merged(x, y) = <<v>> \o Merged(Tail(x), y)
    /\ x = <<>> => Merged(x, y) = Merged(y, x) /\ Merged(x, y) = y

\* The three cases of a merge.
LEMMA MergedByFirst ==
    ASSUME NEW x \in Seq(Value), NEW y \in Seq(Value), NEW v, x # <<>> => Head(x) = v
    PROVE  MergesFirst(x, y, v)
<1>1. CASE x # <<>>
  <2>1. Merged(x, y) = <<v>> \o Merged(y, Tail(x)) /\ Tail(x) \in Seq(Value)
    BY <1>1, MergedFirst, FirstAndRest
  <2>2. y = <<>> => Merged(y, Tail(x)) = Tail(x) /\ Merged(Tail(x), y) = Tail(x)
    BY <2>1, MergedFirst
  <2>3. QED BY <1>1, <2>1, <2>2 DEF MergesFirst
<1>2. CASE x = <<>>
  <2>1. Merged(x, y) = y /\ Merged(y, x) = y
    BY <1>2, MergedFirst
  <2>2. QED BY <1>2, <2>1 DEF MergesFirst
<1>3. QED BY <1>1, <1>2

\* A merge that reads owes what it did: the value read, and then the merge in which
\* the other side is next.
LEMMA ReadMergeOwes ==
    ASSUME Typed, NEW i \in Stage, ReadMerge(i), NEW j, j = Reading(i), NEW v, v = Head(q[j]),
           NEW rest, NEW over, NEW spill, AreLists(rest, spill), Owes(i, rest, over, spill),
           \A k \in Stage : k \in over => rest[k] = <<>>,
           NEW rest1, NEW over1, OwedRead(rest, over, rest1, over1, j, v),
           NEW spill1, spill1[i] = spill[i], i # j
    PROVE  Owes(i, rest1, over1, spill1)'
<1>. /\ rest \in [Stage -> Seq(Value)] /\ spill \in [Stage -> Seq(Value)] /\ rest1 \in [Stage -> Seq(Value)]
     /\ rest1[i] = rest[i] /\ (i \in over1 <=> i \in over) /\ over \subseteq over1
     /\ v = End => rest[j] = <<>> /\ j \in over1
     /\ v # End => rest[j] # <<>> /\ Head(rest[j]) = v
     /\ rest1[j] = IF v = End THEN rest[j] ELSE Tail(rest[j])
     /\ \A k \in Sources(stages[i]) : k # j => rest1[k] = rest[k] /\ (k \in over => rest[k] = <<>>)
  BY SourcesEarlier DEF AreLists, OwedRead, Typed
<1> DEFINE s == side[i]
<1> DEFINE o == Source(i, Other(s))
<1>1. /\ stages[i].k = "merge" /\ j \in Stage /\ j = Source(i, s) /\ s \in {"a", "b"}
      /\ worker[i] = "read" /\ box[i] = <<>> /\ v \in Int
      /\ worker'[i] = AfterMerge(i, v) /\ box'[i] = BoxAfterMerge(i, v)
      /\ ended'[i] = EndedAfter(i, v) /\ side'[i] = SideAfter(i, v)
      /\ q'[i] = q[i] /\ ended[i] \in SUBSET {"a", "b"}
      /\ UNCHANGED <<stages, forwarded, taken>>
  <2>1. /\ stages[i].k = "merge" /\ j \in Stage
        /\ j = (IF side[i] = "a" THEN stages[i].a ELSE stages[i].b) /\ side[i] \in {"a", "b"}
        /\ worker[i] = "read" /\ box[i] = <<>> /\ v \in Int
        /\ q' = [q EXCEPT ![j] = Tail(@)]
        /\ worker' = [worker EXCEPT ![i] = AfterMerge(i, v)] /\ box' = [box EXCEPT ![i] = BoxAfterMerge(i, v)]
        /\ ended' = [ended EXCEPT ![i] = EndedAfter(i, v)] /\ side' = [side EXCEPT ![i] = SideAfter(i, v)]
        /\ UNCHANGED <<stages, forwarded, taken>>
    BY ONLY Typed, i \in Stage, ReadMerge(i), j = Reading(i), v = Head(q[j]), MergesOne
  <2>2. j = Source(i, s)
    BY ONLY <2>1 DEF Source
  <2>3. ended[i] \in SUBSET {"a", "b"}
    BY ONLY Typed, i \in Stage DEF Typed, StreamsTypeOK
  <2>4. /\ worker'[i] = AfterMerge(i, v) /\ box'[i] = BoxAfterMerge(i, v)
        /\ ended'[i] = EndedAfter(i, v) /\ side'[i] = SideAfter(i, v) /\ q'[i] = q[i]
    BY ONLY Typed, i \in Stage, i # j, <2>1 DEF Typed, StreamsTypeOK
  <2>5. QED BY ONLY <2>1, <2>2, <2>3, <2>4
<1>2. Other(s) \in {"a", "b"} /\ Other(s) # s /\ Other(Other(s)) = s /\ {s, Other(s)} = {"a", "b"}
  BY <1>1 DEF Other
<1>3. o \in Stage /\ o # j /\ o \in Sources(stages[i])
  <2>1. stages[i].a # stages[i].b /\ Sources(stages[i]) = {stages[i].a, stages[i].b}
    BY <1>1, StageShape DEF Typed
  <2>2. stages[i].a \in Stage /\ stages[i].b \in Stage
    BY <2>1, SourcesEarlier DEF Typed
  <2>3. QED BY <1>1, <1>2, <2>1, <2>2 DEF Source, Other
<1>4. /\ spill[i] = <<>> /\ ~Forwards(i) /\ s \notin ended[i]
      /\ Other(s) \in ended[i] => o \in over
      /\ forwarded[i].q \o forwarded[i].rest = <<>>
  <2>1. ~Forwards(i)
    BY <1>1 DEF Forwards
  <2>2. QED BY <1>1, <1>2, <2>1 DEF Owes, Source
<1> DEFINE x == rest[j]
<1> DEFINE y == rest[o]
<1>5. x \in Seq(Value) /\ y \in Seq(Value) /\ rest1[o] = y /\ (Other(s) \in ended[i] => y = <<>>)
      /\ (x # <<>> => Head(x) = v)
  BY <1>1, <1>3, <1>4
<1>6. MergesFirst(x, y, v)
  <2> HIDE DEF x, y
  <2>1. QED BY ONLY <1>5, MergedByFirst
<1> DEFINE u == Unread(i, rest)
<1> DEFINE last == <<End>>
<1>7. u = Merged(x, y)
  <2>1. \A f, m : Given(stages[i], f, m, s) = Merged(f[Source(i, s)], f[o])
    BY ONLY <1>1, GivenInTurn
  <2>2. QED BY <1>1, <2>1 DEF Unread
<1>8. u \in Seq(Int) /\ last \in Seq(Int) /\ u \o last \in Seq(Int)
  <2>1. u \in Seq(Value) /\ last \in Seq(Int) /\ u \o last \in Seq(Int)
    BY ToComeTyped
  <2> HIDE DEF u
  <2>2. QED BY <2>1, ValuesAreInts
<1>9. ToCome(i, rest, spill) = u \o last
  <2>1. ToCome(i, rest, spill) = <<>> \o (<<>> \o (u \o last))
    BY <1>1, <1>4 DEF ToCome
  <2> HIDE DEF u, last
  <2>2. QED BY <1>8, <2>1, ConcatNone
<1>10. SideAfter(i, v) \in {"a", "b"}
  BY <1>1, <1>2 DEF SideAfter
<1> DEFINE w == Unread(i, rest1)'
<1>11. w = Merged(rest1[Source(i, SideAfter(i, v))], rest1[Source(i, Other(SideAfter(i, v)))])
  <2>1. w = Given(stages[i], rest1, taken[i] + Len(box'[i]), SideAfter(i, v))
    BY <1>1 DEF Unread
  <2> DEFINE t == SideAfter(i, v)
  <2>2. \A f, m : Given(stages[i], f, m, t) = Merged(f[Source(i, t)], f[Source(i, Other(t))])
    BY ONLY <1>1, <1>10, GivenInTurn
  <2> HIDE DEF t, w
  <2>3. QED BY <2>1, <2>2 DEF t
<1>12. ~Forwards(i)' /\ spill1[i] = <<>>
  BY <1>1, <1>4 DEF Forwards
<1>13. CASE v # End
  <2>1. /\ worker'[i] = "send" /\ box'[i] = <<v>> /\ ended'[i] = ended[i]
        /\ SideAfter(i, v) = IF Other(s) \in ended[i] THEN s ELSE Other(s)
    BY <1>1, <1>13 DEF AfterMerge, BoxAfterMerge, EndedAfter, SideAfter
  <2>2. u = <<v>> \o w
    <3>1. x # <<>> /\ rest1[j] = Tail(x)
      BY <1>13
    <3>2. CASE Other(s) \in ended[i]
      <4>1. w = Merged(Tail(x), y) /\ y = <<>>
        BY <1>1, <1>2, <1>5, <1>11, <2>1, <3>1, <3>2
      <4>2. QED BY <1>6, <1>7, <3>1, <4>1 DEF MergesFirst
    <3>3. CASE Other(s) \notin ended[i]
      <4>1. SideAfter(i, v) = Other(s) /\ Other(Other(s)) = s
        BY ONLY <1>2, <2>1, <3>3
      <4>2. w = Merged(rest1[o], rest1[Source(i, s)])
        BY ONLY <1>11, <4>1
      <4>3. w = Merged(y, Tail(x))
        BY ONLY <1>1, <1>5, <3>1, <4>2
      <4>4. QED BY <1>6, <1>7, <3>1, <4>3 DEF MergesFirst
    <3>4. QED BY <3>2, <3>3
  <2>3. w \in Seq(Int)
    <3>1. x # <<>> /\ Tail(x) \in Seq(Value)
      <4>1. x # <<>>
        BY <1>13
      <4> HIDE DEF x
      <4>2. QED BY <1>5, <4>1, FirstAndRest
    <3>2. rest1[Source(i, s)] \in Seq(Value) /\ rest1[o] \in Seq(Value)
      BY <1>1, <1>3
    <3>3. SideAfter(i, v) = s \/ SideAfter(i, v) = Other(s)
      BY <2>1
    <3>4. w \in Seq(Value)
      BY <1>2, <1>11, <3>2, <3>3, MergedFirst
    <3> HIDE DEF w
    <3>5. QED BY <3>4, ValuesAreInts
  <2>4. ToCome(i, rest1, spill1)' = <<v>> \o (<<>> \o (w \o last))
    BY <1>1, <1>12, <2>1 DEF ToCome
  <2>5. ToCome(i, rest1, spill1)' = ToCome(i, rest, spill)
    <3> DEFINE one == <<v>>
    <3>1. one \in Seq(Int)
      BY <1>1
    <3>2. u = one \o w /\ ToCome(i, rest1, spill1)' = one \o (<<>> \o (w \o last))
      BY <2>2, <2>4
    <3> HIDE DEF one, u, w, last
    <3>3. w \o last \in Seq(Int) /\ (one \o w) \o last = one \o (w \o last)
      BY ONLY <1>8, <2>3, <3>1, ConcatThree
    <3>4. <<>> \o (w \o last) = w \o last
      BY <3>3, ConcatNone
    <3>5. QED BY <1>9, <3>2, <3>3, <3>4
  <2>6. SideAfter(i, v) \notin ended[i]
    BY <1>2, <1>4, <2>1
  <2>7. QED BY <1>1, <1>4, <1>12, <2>1, <2>5, <2>6 DEF Owes, Pending
<1>14. CASE v = End
  <2>1. x = <<>> /\ rest1[j] = <<>> /\ u = y /\ Merged(y, x) = y /\ j \in over1
    BY <1>6, <1>7, <1>14 DEF MergesFirst
  <2>2. /\ EndedAfter(i, v) = ended[i] \cup {s}
        /\ "a" \in EndedAfter(i, v) => stages[i].a \in over1
        /\ "b" \in EndedAfter(i, v) => stages[i].b \in over1
    <3>1. EndedAfter(i, v) = ended[i] \cup {s}
      BY <1>14 DEF EndedAfter
    <3>2. /\ "a" \in ended[i] => stages[i].a \in over
          /\ "b" \in ended[i] => stages[i].b \in over
      BY <1>1 DEF Owes
    <3>3. (s = "a" => stages[i].a \in over1) /\ (s = "b" => stages[i].b \in over1)
      BY <1>1, <2>1 DEF Source
    <3>4. QED BY <3>1, <3>2, <3>3
  <2>3. CASE EndedAfter(i, v) = {"a", "b"}
    <3>1. worker'[i] = "close" /\ box'[i] = last
      BY <1>1, <1>14, <2>3 DEF AfterMerge, BoxAfterMerge
    <3>2. Other(s) \in ended[i]
      BY <1>2, <2>2, <2>3
    <3>3. u = <<>>
      BY <1>5, <2>1, <3>2
    <3>4. ToCome(i, rest1, spill1)' = last
      BY <3>1 DEF ToCome
    <3>5. ToCome(i, rest1, spill1)' = ToCome(i, rest, spill)
      <4> HIDE DEF u, last
      <4>1. QED BY <1>8, <1>9, <3>3, <3>4, ConcatNone
    <3>6. QED BY <1>1, <1>4, <1>12, <2>2, <3>1, <3>5 DEF Owes, Pending
  <2>4. CASE EndedAfter(i, v) # {"a", "b"}
    <3>1. worker'[i] = "read" /\ box'[i] = <<>>
      BY <1>1, <1>14, <2>4 DEF AfterMerge, BoxAfterMerge
    <3>2. Other(s) \notin EndedAfter(i, v)
      BY <1>1, <1>2, <2>2, <2>4
    <3>3. SideAfter(i, v) = Other(s)
      BY <3>2 DEF SideAfter
    <3>4. w = y
      <4>1. w = Merged(rest1[o], rest1[Source(i, s)])
        BY ONLY <1>2, <1>11, <3>3
      <4>2. rest1[Source(i, s)] = x /\ rest1[o] = y
        BY ONLY <1>1, <1>5, <2>1
      <4>3. QED BY ONLY <2>1, <4>1, <4>2
    <3>5. ToCome(i, rest1, spill1)' = <<>> \o (<<>> \o (w \o last))
      BY <1>1, <1>12, <3>1 DEF ToCome
    <3>6. ToCome(i, rest1, spill1)' = ToCome(i, rest, spill)
      <4>1. w = u
        BY <2>1, <3>4
      <4> HIDE DEF u, w, last
      <4>2. QED BY <1>8, <1>9, <3>5, <4>1, ConcatNone
    <3>7. QED BY <1>1, <1>4, <1>12, <2>2, <3>1, <3>2, <3>3, <3>6 DEF Owes, Pending
  <2>5. QED BY <2>3, <2>4
<1>15. QED BY <1>13, <1>14

-----------------------------------------------------------------------------
(* The invariant: every stream owes what its stage has still to give, and    *)
(* the program has drained what the last one does not owe any more.          *)

Balanced(rest, over, spill) ==
    /\ rest \in [Stage -> Seq(Value)] /\ over \in SUBSET Stage /\ spill \in [Stage -> Seq(Value)]
    /\ \A i \in Stage : Owes(i, rest, over, spill)
Drained(rest) ==
    IF main.at \in {"leave", "left"} THEN got = ListOf[Last_] ELSE got \o rest[Last_] = ListOf[Last_]

StreamsInv == Typed /\ \E rest, over, spill : Balanced(rest, over, spill) /\ Drained(rest)

\* The lists that are due depend on the pipeline only.
LEMMA SameLists == stages' = stages => Stage' = Stage /\ Last_' = Last_ /\ ListOf' = ListOf
BY DEF Stage, Last_, ListOf

\* A step of stage i that reads no stream, or of the program.
LEMMA OneActs ==
    ASSUME Typed, stages' = stages, NEW i,
           \A k \in Stage : k # i => Idle(k) /\ q'[k] = q[k],
           NEW rest, NEW over, NEW spill, NEW spill1 \in [Stage -> Seq(Value)],
           Balanced(rest, over, spill), \A k \in Stage : k # i => spill1[k] = spill[k],
           i \in Stage => Owes(i, rest, over, spill1)'
    PROVE  Balanced(rest, over, spill1)'
<1>1. ASSUME NEW k \in Stage, k # i PROVE Owes(k, rest, over, spill1)'
  <2>1. IsPipeline(stages) /\ Idle(k) /\ q'[k] = q[k] /\ Owes(k, rest, over, spill) /\ spill1[k] = spill[k]
    BY <1>1 DEF Typed, Balanced
  <2>2. QED BY <2>1, Undisturbed
<1>2. QED BY <1>1, SameLists DEF Balanced

\* A step that drains nothing leaves what is drained and what is due.
LEMMA SameDrained ==
    ASSUME stages' = stages, got' = got, NEW rest, NEW rest1, rest1[Last_] = rest[Last_],
           main'.at \in {"leave", "left"} <=> main.at \in {"leave", "left"}, Drained(rest)
    PROVE  Drained(rest1)'
<1>1. Last_' = Last_ /\ ListOf' = ListOf
  BY SameLists
<1>2. QED BY <1>1 DEF Drained

\* Stream j is read, by no stage but those that act.
LEMMA StreamRead ==
    ASSUME Typed, stages' = stages, NEW j \in Stage, q[j] # <<>>, NEW v, v = Head(q[j]),
           q' = [q EXCEPT ![j] = Tail(@)],
           NEW rest, NEW over, NEW spill, Balanced(rest, over, spill),
           NEW act, \A k \in Stage : k \notin act => Idle(k) /\ j \notin Sources(stages[k]),
           j \notin act,
           NEW spill1, \A k \in Stage : k \notin act => spill1[k] = spill[k],
           NEW rest1, rest1 = RestRead(rest, j, v), NEW over1, over1 = OverRead(over, j, v)
    PROVE  /\ OwedRead(rest, over, rest1, over1, j, v)
           /\ \A k \in Stage : k \notin act => Owes(k, rest1, over1, spill1)'
<1>1. rest \in [Stage -> Seq(Value)] /\ over \in SUBSET Stage /\ spill \in [Stage -> Seq(Value)]
      /\ \A k \in Stage : Owes(k, rest, over, spill)
  BY DEF Balanced
<1>2. /\ rest1[j] = IF v = End THEN rest[j] ELSE Tail(rest[j])
      /\ \A k \in Stage : k # j => rest1[k] = rest[k]
      /\ DOMAIN rest1 = Stage /\ rest1 = [k \in Stage |-> rest1[k]]
  BY <1>1 DEF RestRead
<1>3. /\ over \subseteq over1 /\ over1 \in SUBSET Stage /\ (j \in over1 <=> j \in over \/ v = End)
      /\ \A k \in Stage : k # j => (k \in over1 <=> k \in over)
  BY <1>1 DEF OverRead
<1>4. q'[j] = Tail(q[j]) /\ \A k \in Stage : k # j => q'[k] = q[k]
  BY DEF Typed, StreamsTypeOK
<1>5. \A k \in Sources(stages[j]) : rest1[k] = rest[k]
  BY <1>2, SourcesEarlier DEF Typed
<1>6. Owes(j, rest1, over1, spill1)' /\ HeadOwed(j, v, rest, over)
  <2>1. Idle(j) /\ spill1[j] = spill[j] /\ Owes(j, rest, over, spill) /\ AreLists(rest, spill)
    BY <1>1 DEF AreLists
  <2>2. q'[j] = Tail(q[j]) /\ over \subseteq over1 /\ (j \in over1 <=> j \in over \/ v = End)
        /\ rest1[j] = (IF v = End THEN rest[j] ELSE Tail(rest[j]))
    BY <1>2, <1>3, <1>4
  <2>3. QED BY ONLY Typed, stages' = stages, j \in Stage, q[j] # <<>>, v = Head(q[j]), <1>5, <2>1, <2>2, ReadFrom
<1>7. OwedRead(rest, over, rest1, over1, j, v)
  <2> USE DEF HeadOwed
  <2>1. \A k \in Stage : rest1[k] \in Seq(Value)
    <3>1. rest1[j] \in Seq(Value)
      BY <1>1, <1>2, <1>6
    <3>2. QED BY <1>1, <1>2, <3>1
  <2>2. rest1 \in [Stage -> Seq(Value)]
    BY <1>2, <2>1
  <2>3. QED BY <1>2, <1>3, <1>6, <2>2 DEF OwedRead
<1>8. ASSUME NEW k \in Stage, k \notin act, k # j PROVE Owes(k, rest1, over1, spill1)'
  <2>1. IsPipeline(stages) /\ Idle(k) /\ q'[k] = q[k] /\ Owes(k, rest, over, spill) /\ spill1[k] = spill[k]
        /\ rest1[k] = rest[k] /\ (k \in over1 <=> k \in over)
    BY <1>1, <1>2, <1>3, <1>4, <1>8 DEF Typed
  <2>2. \A m \in Sources(stages[k]) : rest1[m] = rest[m]
    <3>1. j \notin Sources(stages[k]) /\ \A m \in Sources(stages[k]) : m \in Stage
      BY <1>8, SourcesEarlier DEF Typed
    <3>2. QED BY <1>2, <3>1
  <2>3. QED BY ONLY k \in Stage, stages' = stages, <1>3, <2>1, <2>2, Undisturbed
<1>9. QED BY <1>6, <1>7, <1>8

-----------------------------------------------------------------------------
(* Every action keeps the invariant.                                         *)

\* Every action keeps the invariant: the stage that acts by the lemma about what it
\* owes, the others because nothing they own has changed.
LEMMA GenerateKeeps == ASSUME StreamsInv, NEW i \in Stage, Generate(i) PROVE StreamsInv'
<1>1. Typed /\ Typed'
  BY GenerateTyped DEF StreamsInv
<1>2. PICK rest, over, spill : Balanced(rest, over, spill) /\ Drained(rest)
  BY DEF StreamsInv
<1>3. /\ \A k \in Stage : k # i => Idle(k) /\ q'[k] = q[k]
      /\ stages' = stages /\ got' = got /\ main' = main
  BY <1>1 DEF Generate, Sends, WorkerGoesTo, Idle, Typed, StreamsTypeOK
<1>4. rest \in [Stage -> Seq(Value)] /\ spill \in [Stage -> Seq(Value)] /\ Owes(i, rest, over, spill)
  BY <1>2 DEF Balanced
<1>5. Owes(i, rest, over, spill)'
  BY <1>1, <1>4, GenerateOwes
<1>6. Balanced(rest, over, spill)'
  BY <1>1, <1>2, <1>3, <1>4, <1>5, OneActs
<1>7. Drained(rest)'
  BY <1>2, <1>3, SameDrained
<1>8. QED BY <1>1, <1>6, <1>7 DEF StreamsInv

LEMMA GeneratorReturnsKeeps == ASSUME StreamsInv, NEW i \in Stage, GeneratorReturns(i) PROVE StreamsInv'
<1>1. Typed /\ Typed'
  BY GeneratorReturnsTyped DEF StreamsInv
<1>2. PICK rest, over, spill : Balanced(rest, over, spill) /\ Drained(rest)
  BY DEF StreamsInv
<1>3. /\ \A k \in Stage : k # i => Idle(k) /\ q'[k] = q[k]
      /\ stages' = stages /\ got' = got /\ main' = main
  BY <1>1 DEF GeneratorReturns, WorkerGoesTo, Idle, Typed, StreamsTypeOK
<1>4. rest \in [Stage -> Seq(Value)] /\ spill \in [Stage -> Seq(Value)] /\ Owes(i, rest, over, spill)
  BY <1>2 DEF Balanced
<1>5. Owes(i, rest, over, spill)'
  BY <1>1, <1>4, GeneratorReturnsOwes
<1>6. Balanced(rest, over, spill)'
  BY <1>1, <1>2, <1>3, <1>4, <1>5, OneActs
<1>7. Drained(rest)'
  BY <1>2, <1>3, SameDrained
<1>8. QED BY <1>1, <1>6, <1>7 DEF StreamsInv

LEMMA WorkerSendsKeeps == ASSUME StreamsInv, NEW i \in Stage, WorkerSends(i) PROVE StreamsInv'
<1>1. Typed /\ Typed'
  BY WorkerSendsTyped DEF StreamsInv
<1>2. PICK rest, over, spill : Balanced(rest, over, spill) /\ Drained(rest)
  BY DEF StreamsInv
<1>3. /\ \A k \in Stage : k # i => Idle(k) /\ q'[k] = q[k]
      /\ stages' = stages /\ got' = got /\ main' = main
  <2>1. /\ worker' = [worker EXCEPT ![i] = AfterSend(i)] /\ box' = [box EXCEPT ![i] = BoxAfterSend(i)]
        /\ q' = [q EXCEPT ![i] = Append(@, box[i][1])]
        /\ taken' = [taken EXCEPT ![i] = @ + 1]
        /\ stages' = stages /\ main' = main
        /\ UNCHANGED <<forwarded, ended, side, got>>
    BY <1>1, SendsOne
  <2>2. QED BY <1>1, <2>1 DEF Idle, Typed, StreamsTypeOK
<1>4. rest \in [Stage -> Seq(Value)] /\ spill \in [Stage -> Seq(Value)] /\ Owes(i, rest, over, spill)
  BY <1>2 DEF Balanced
<1>5. Owes(i, rest, over, spill)'
  BY <1>1, <1>4, WorkerSendsOwes
<1>6. Balanced(rest, over, spill)'
  BY <1>1, <1>2, <1>3, <1>4, <1>5, OneActs
<1>7. Drained(rest)'
  BY <1>2, <1>3, SameDrained
<1>8. QED BY <1>1, <1>6, <1>7 DEF StreamsInv

LEMMA GenerateInnerKeeps == ASSUME StreamsInv, NEW i \in Stage, GenerateInner(i) PROVE StreamsInv'
<1>1. Typed /\ Typed'
  BY GenerateInnerTyped DEF StreamsInv
<1>2. PICK rest, over, spill : Balanced(rest, over, spill) /\ Drained(rest)
  BY DEF StreamsInv
<1>3. /\ \A k \in Stage : k # i => Idle(k) /\ q'[k] = q[k]
      /\ stages' = stages /\ got' = got /\ main' = main
  BY <1>1 DEF GenerateInner, Idle, Typed, StreamsTypeOK
<1>4. rest \in [Stage -> Seq(Value)] /\ spill \in [Stage -> Seq(Value)] /\ Owes(i, rest, over, spill)
  BY <1>2 DEF Balanced
<1>5. Owes(i, rest, over, spill)'
  BY <1>1, <1>4, GenerateInnerOwes
<1>6. Balanced(rest, over, spill)'
  BY <1>1, <1>2, <1>3, <1>4, <1>5, OneActs
<1>7. Drained(rest)'
  BY <1>2, <1>3, SameDrained
<1>8. QED BY <1>1, <1>6, <1>7 DEF StreamsInv

LEMMA ReadInnerKeeps == ASSUME StreamsInv, NEW i \in Stage, ReadInner(i) PROVE StreamsInv'
<1>1. Typed /\ Typed'
  BY ReadInnerTyped DEF StreamsInv
<1>2. PICK rest, over, spill : Balanced(rest, over, spill) /\ Drained(rest)
  BY DEF StreamsInv
<1>0. PICK v : v = Head(forwarded[i].q)
  OBVIOUS
<1>3. /\ \A k \in Stage : k # i => Idle(k) /\ q'[k] = q[k]
      /\ stages' = stages /\ got' = got /\ main' = main
  BY ONLY <1>1, ReadInner(i) DEF ReadInner, Sends, WorkerGoesTo, Idle, Typed, StreamsTypeOK
<1>4. rest \in [Stage -> Seq(Value)] /\ spill \in [Stage -> Seq(Value)] /\ Owes(i, rest, over, spill)
  BY <1>2 DEF Balanced
<1> DEFINE spill1 == [spill EXCEPT ![i] = IF v = End THEN @ ELSE Tail(@)]
<1>5. /\ spill1[i] = (IF v = End THEN spill[i] ELSE Tail(spill[i]))
      /\ \A k \in Stage : k # i => spill1[k] = spill[k]
      /\ DOMAIN spill1 = Stage /\ spill1 = [k \in Stage |-> spill1[k]]
  BY <1>4
<1> HIDE DEF spill1
<1>6. Owes(i, rest, over, spill1)' /\ spill1[i] \in Seq(Value)
  <2>1. v = Head(forwarded[i].q)
    BY <1>0
  <2>2. SpillRead(spill, spill1, i, v) /\ AreLists(rest, spill)
    BY <1>4, <1>5 DEF SpillRead, AreLists
  <2>3. QED BY ONLY i \in Stage, ReadInner(i), <1>1, <1>4, <2>1, <2>2, ReadInnerOwes
<1>7. spill1 \in [Stage -> Seq(Value)]
  <2>1. \A k \in Stage : spill1[k] \in Seq(Value)
    BY <1>4, <1>5, <1>6
  <2>2. QED BY <1>5, <2>1
<1>8. Balanced(rest, over, spill1)'
  <2>1. stages' = stages /\ (i \in Stage => Owes(i, rest, over, spill1)')
        /\ \A k \in Stage : k # i => spill1[k] = spill[k]
    BY <1>3, <1>5, <1>6
  <2>2. QED BY ONLY <1>1, <1>2, <1>3, <1>7, <2>1, OneActs
<1>9. Drained(rest)'
  BY <1>2, <1>3, SameDrained
<1>10. QED BY <1>1, <1>8, <1>9 DEF StreamsInv

LEMMA MakeKeeps == ASSUME StreamsInv, Make PROVE StreamsInv'
<1>1. Typed /\ Typed'
  BY MakeTyped DEF StreamsInv
<1>2. PICK rest, over, spill : Balanced(rest, over, spill) /\ Drained(rest)
  BY DEF StreamsInv
<1>0. PICK i : i = main.i
  OBVIOUS
<1>3. /\ i \in Stage /\ \A k \in Stage : k # i => Idle(k) /\ q'[k] = q[k]
      /\ stages' = stages /\ got' = got /\ main.at = "make" /\ main'.at = "bind"
  <2>1. /\ i \in Stage /\ main.at = "make" /\ main' = [main EXCEPT !.at = "bind"]
        /\ worker' = [worker EXCEPT ![i] = Started(i)] /\ box' = [box EXCEPT ![i] = BoxStarted(i)]
        /\ UNCHANGED <<stages, q, forwarded, taken, ended, side, got>>
    BY <1>1, <1>0, Makes
  <2>2. main'.at = "bind"
    BY <1>1, <2>1 DEF Typed, StreamsTypeOK
  <2>3. QED BY <1>1, <2>1, <2>2 DEF Idle, Typed, StreamsTypeOK
<1>4. rest \in [Stage -> Seq(Value)] /\ spill \in [Stage -> Seq(Value)] /\ Owes(i, rest, over, spill)
  BY <1>2, <1>3 DEF Balanced
<1>5. Owes(i, rest, over, spill)'
  BY <1>1, <1>4, <1>0, MakeOwes
<1>6. Balanced(rest, over, spill)'
  <2>1. (i \in Stage => Owes(i, rest, over, spill)') /\ \A k \in Stage : k # i => spill[k] = spill[k]
    BY <1>5
  <2>2. QED BY ONLY <1>1, <1>2, <1>3, <1>4, <2>1, OneActs
<1>7. Drained(rest)'
  BY <1>2, <1>3, SameDrained
<1>8. QED BY <1>1, <1>6, <1>7 DEF StreamsInv

\* The steps of the program that touch no stream.
LEMMA ProgramKeeps ==
    ASSUME StreamsInv, Typed', UNCHANGED <<stages, q, forwarded, worker, box, taken, ended, side, got>>,
           main'.at \in {"leave", "left"} <=> main.at \in {"leave", "left"}
    PROVE  StreamsInv'
<1>1. Typed
  BY DEF StreamsInv
<1>2. PICK rest, over, spill : Balanced(rest, over, spill) /\ Drained(rest)
  BY DEF StreamsInv
<1>3. \A k \in Stage : Idle(k) /\ q'[k] = q[k]
  BY DEF Idle
<1>4. 0 \notin Stage
  <2>1. Stage = 1..Last_
    BY DEF Typed, StreamsInv, IsPipeline, Last_, Stage
  <2>2. QED BY <2>1
<1>5. spill \in [Stage -> Seq(Value)]
  BY <1>2 DEF Balanced
<1>6. Balanced(rest, over, spill)'
  BY <1>1, <1>2, <1>3, <1>4, <1>5, OneActs
<1>7. Drained(rest)'
  BY <1>2, SameDrained
<1>8. QED BY <1>6, <1>7 DEF StreamsInv

LEMMA BindKeeps == ASSUME StreamsInv, Bind PROVE StreamsInv'
<1>1. Typed /\ Typed'
  BY BindTyped DEF StreamsInv
<1>2. UNCHANGED <<stages, q, forwarded, worker, box, taken, ended, side, got>> /\ main.at = "bind"
      /\ main'.at \in {"drain", "make"}
  BY DEF Bind
<1>3. QED BY <1>1, <1>2, ProgramKeeps

LEMMA ReturnKeeps == ASSUME StreamsInv, ReturnPipeline PROVE StreamsInv'
<1>1. Typed /\ Typed'
  BY ReturnTyped DEF StreamsInv
<1>2. UNCHANGED <<stages, q, forwarded, worker, box, taken, ended, side, got>> /\ main.at = "drain"
      /\ main'.at = "drain"
  BY DEF ReturnPipeline
<1>3. QED BY <1>1, <1>2, ProgramKeeps

LEMMA LeaveKeeps == ASSUME StreamsInv, Leave PROVE StreamsInv'
<1>1. Typed /\ Typed'
  BY LeaveTyped DEF StreamsInv
<1>2. UNCHANGED <<stages, q, forwarded, worker, box, taken, ended, side, got>> /\ main.at = "leave"
      /\ main' = [main EXCEPT !.at = "left"]
  BY DEF Leave
<1>3. main'.at = "left"
  BY <1>1, <1>2 DEF Typed, StreamsTypeOK
<1>4. QED BY <1>1, <1>2, <1>3, ProgramKeeps

\* Stage i alone acts, and reads v from stream j.
OneTakes(i, j, v) ==
    /\ j \in Sources(stages[i]) /\ q[j] # <<>> /\ v = Head(q[j]) /\ q' = [q EXCEPT ![j] = Tail(@)]
    /\ stages' = stages /\ \A k \in Stage : k # i => Idle(k)
SameBut(i, spill, spill1) == \A k \in Stage : k # i => spill1[k] = spill[k]
OthersOwe(i, rest, over, spill) == \A k \in Stage : k # i => Owes(k, rest, over, spill)'

\* A stream is read by one stage only, so that all but that stage owe what they did.
LEMMA OneReads ==
    ASSUME Typed, NEW i \in Stage, NEW j, NEW v, OneTakes(i, j, v),
           NEW rest, NEW over, NEW spill, Balanced(rest, over, spill), NEW spill1, SameBut(i, spill, spill1),
           NEW rest1, rest1 = RestRead(rest, j, v), NEW over1, over1 = OverRead(over, j, v)
    PROVE  /\ OwedRead(rest, over, rest1, over1, j, v) /\ j # i /\ rest1[Last_] = rest[Last_]
           /\ OthersOwe(i, rest1, over1, spill1)
<1>. /\ j \in Sources(stages[i]) /\ q[j] # <<>> /\ v = Head(q[j]) /\ q' = [q EXCEPT ![j] = Tail(@)]
     /\ stages' = stages /\ \A k \in Stage : k # i => Idle(k)
     /\ \A k \in Stage : k # i => spill1[k] = spill[k]
  BY DEF OneTakes, SameBut
<1>1. j \in Stage /\ j # i /\ j # Last_ /\ Last_ \in Stage
      /\ \A k \in Stage : k # i => j \notin Sources(stages[k])
  BY SourcesEarlier DEF Typed
<1> DEFINE act == {i}
<1>2. j \notin act /\ (\A k \in Stage : k \notin act => Idle(k) /\ j \notin Sources(stages[k]))
      /\ (\A k \in Stage : k \notin act => spill1[k] = spill[k])
  BY <1>1
<1> HIDE DEF act
<1>3. /\ OwedRead(rest, over, rest1, over1, j, v)
      /\ \A k \in Stage : k \notin act => Owes(k, rest1, over1, spill1)'
  BY <1>1, <1>2, StreamRead
<1>4. \A k \in Stage : k # i => k \notin act
  BY DEF act
<1>5. rest1[Last_] = rest[Last_]
  BY <1>1, <1>3 DEF OwedRead
<1>6. QED BY <1>1, <1>3, <1>4, <1>5 DEF OthersOwe

\* All stages owe what they should once one of them has read a value.
LEMMA BalancedRead ==
    ASSUME stages' = stages, NEW i \in Stage, NEW rest, NEW over, NEW j, NEW v, NEW rest1, NEW over1,
           OwedRead(rest, over, rest1, over1, j, v), NEW spill1 \in [Stage -> Seq(Value)],
           OthersOwe(i, rest1, over1, spill1), Owes(i, rest1, over1, spill1)'
    PROVE  Balanced(rest1, over1, spill1)'
<1>1. Stage' = Stage
  BY SameLists
<1>2. \A k \in Stage : Owes(k, rest1, over1, spill1)'
  BY DEF OthersOwe
<1>3. QED BY <1>1, <1>2 DEF Balanced, OwedRead

LEMMA ReadKeeps == ASSUME StreamsInv, NEW i \in Stage, Read(i) PROVE StreamsInv'
<1>1. Typed /\ Typed'
  BY ReadTyped DEF StreamsInv
<1>2. PICK rest, over, spill : Balanced(rest, over, spill) /\ Drained(rest)
  BY DEF StreamsInv
<1>3. PICK j, v : j = stages[i].in /\ v = Head(q[j])
  OBVIOUS
<1>4. /\ j \in Sources(stages[i]) /\ q[j] # <<>> /\ q' = [q EXCEPT ![j] = Tail(@)]
      /\ stages' = stages /\ main' = main /\ got' = got
      /\ \A k \in Stage : k # i => Idle(k)
  <2>1. /\ stages[i].k \in {"map", "filter", "flat_map", "take"} /\ q[j] # <<>>
        /\ q' = [q EXCEPT ![j] = Tail(@)]
        /\ worker' = [worker EXCEPT ![i] = AfterRead(i, v)] /\ box' = [box EXCEPT ![i] = BoxAfterRead(i, v)]
        /\ forwarded' = [forwarded EXCEPT ![i] = ForwardedAfterRead(i, v)]
        /\ stages' = stages /\ main' = main
        /\ UNCHANGED <<taken, ended, side, got>>
    BY <1>1, <1>3, ReadsOne
  <2>2. j \in Sources(stages[i])
    BY <1>1, <1>3, <2>1, StageShape DEF Typed
  <2>3. \A k \in Stage : k # i => Idle(k)
    BY <1>1, <2>1 DEF Idle, Typed, StreamsTypeOK
  <2>4. QED BY <2>1, <2>2, <2>3
<1>5. PICK rest1, over1, spill1 : /\ rest1 = RestRead(rest, j, v) /\ over1 = OverRead(over, j, v)
                                  /\ spill1 = [spill EXCEPT ![i] = SpilledBy(i, v)]
  OBVIOUS
<1>6. rest \in [Stage -> Seq(Value)] /\ spill \in [Stage -> Seq(Value)] /\ Owes(i, rest, over, spill)
      /\ AreLists(rest, spill)
  BY <1>2 DEF Balanced, AreLists
<1>7. /\ spill1[i] = SpilledBy(i, v) /\ SameBut(i, spill, spill1) /\ OneTakes(i, j, v)
      /\ DOMAIN spill1 = Stage /\ spill1 = [k \in Stage |-> spill1[k]]
  BY <1>3, <1>4, <1>5, <1>6 DEF SameBut, OneTakes
<1>8. /\ OwedRead(rest, over, rest1, over1, j, v) /\ j # i /\ rest1[Last_] = rest[Last_]
      /\ OthersOwe(i, rest1, over1, spill1)
  BY ONLY i \in Stage, <1>1, <1>2, <1>5, <1>7, OneReads
<1>9. Owes(i, rest1, over1, spill1)' /\ spill1[i] \in Seq(Value)
  BY ONLY i \in Stage, Read(i), <1>1, <1>3, <1>6, <1>7, <1>8, ReadOwes
<1>10. spill1 \in [Stage -> Seq(Value)]
  <2>1. \A k \in Stage : spill1[k] \in Seq(Value)
    BY <1>6, <1>7, <1>9 DEF SameBut
  <2>2. QED BY <1>7, <2>1
<1>11. Balanced(rest1, over1, spill1)'
  BY <1>4, <1>8, <1>9, <1>10, BalancedRead
<1>12. Drained(rest1)'
  BY <1>2, <1>4, <1>8, SameDrained
<1>13. QED BY <1>1, <1>11, <1>12 DEF StreamsInv

LEMMA ReadMergeKeeps == ASSUME StreamsInv, NEW i \in Stage, ReadMerge(i) PROVE StreamsInv'
<1>1. Typed /\ Typed'
  BY ReadMergeTyped DEF StreamsInv
<1>2. PICK rest, over, spill : Balanced(rest, over, spill) /\ Drained(rest)
  BY DEF StreamsInv
<1>3. PICK j, v : j = Reading(i) /\ v = Head(q[j])
  OBVIOUS
<1>4. /\ j \in Sources(stages[i]) /\ q[j] # <<>> /\ q' = [q EXCEPT ![j] = Tail(@)]
      /\ stages' = stages /\ main' = main /\ got' = got
      /\ \A k \in Stage : k # i => Idle(k)
  <2>1. /\ j \in Sources(stages[i]) /\ q[j] # <<>>
        /\ q' = [q EXCEPT ![j] = Tail(@)]
        /\ worker' = [worker EXCEPT ![i] = AfterMerge(i, v)] /\ box' = [box EXCEPT ![i] = BoxAfterMerge(i, v)]
        /\ ended' = [ended EXCEPT ![i] = EndedAfter(i, v)] /\ side' = [side EXCEPT ![i] = SideAfter(i, v)]
        /\ stages' = stages /\ main' = main
        /\ UNCHANGED <<forwarded, taken, got>>
    BY ONLY i \in Stage, ReadMerge(i), <1>1, <1>3, MergesOne
  <2>2. \A k \in Stage : k # i => Idle(k)
    BY <1>1, <2>1 DEF Idle, Typed, StreamsTypeOK
  <2>3. QED BY <2>1, <2>2
<1>5. PICK rest1, over1 : rest1 = RestRead(rest, j, v) /\ over1 = OverRead(over, j, v)
  OBVIOUS
<1>6. spill \in [Stage -> Seq(Value)] /\ Owes(i, rest, over, spill) /\ AreLists(rest, spill)
      /\ \A k \in Stage : k \in over => rest[k] = <<>>
  BY <1>2 DEF Balanced, AreLists, Owes
<1>7. spill[i] = spill[i] /\ SameBut(i, spill, spill) /\ OneTakes(i, j, v)
  BY <1>3, <1>4 DEF SameBut, OneTakes
<1>8. /\ OwedRead(rest, over, rest1, over1, j, v) /\ j # i /\ rest1[Last_] = rest[Last_]
      /\ OthersOwe(i, rest1, over1, spill)
  BY ONLY i \in Stage, <1>1, <1>2, <1>5, <1>7, OneReads
<1>9. Owes(i, rest1, over1, spill)'
  BY ONLY i \in Stage, ReadMerge(i), <1>1, <1>3, <1>6, <1>7, <1>8, ReadMergeOwes
<1>10. Balanced(rest1, over1, spill)'
  BY <1>4, <1>6, <1>8, <1>9, BalancedRead
<1>11. Drained(rest1)'
  BY <1>2, <1>4, <1>8, SameDrained
<1>12. QED BY <1>1, <1>10, <1>11 DEF StreamsInv

\* The program drains what the last stream owes, up to its end.
LEMMA DrainKeeps == ASSUME StreamsInv, DrainStream PROVE StreamsInv'
<1>1. Typed /\ Typed'
  BY DrainTyped DEF StreamsInv
<1>2. PICK rest, over, spill : Balanced(rest, over, spill) /\ Drained(rest)
  BY DEF StreamsInv
<1>3. PICK j, v : j = Last_ /\ v = Head(q[Last_])
  OBVIOUS
<1>4. /\ j \in Stage /\ main.at = "drain" /\ q[j] # <<>> /\ v \in Int /\ (v # End => v \in Value)
      /\ q' = [q EXCEPT ![j] = Tail(@)]
      /\ v = End => main' = [main EXCEPT !.at = "leave"] /\ got' = got
      /\ v # End => main' = main /\ got' = Append(got, v)
      /\ stages' = stages /\ \A k \in Stage : Idle(k)
  <2>1. /\ Last_ \in Stage /\ main.at = "drain"
        /\ q[Last_] \in Seq(Int) /\ q[Last_] # <<>> /\ v \in Int /\ (v # End => v \in Value)
        /\ q' = [q EXCEPT ![Last_] = Tail(@)]
        /\ v = End => main' = [main EXCEPT !.at = "leave"] /\ got' = got
        /\ v # End => main' = main /\ got' = Append(got, v)
        /\ UNCHANGED <<stages, forwarded, worker, box, taken, ended, side>>
    BY ONLY DrainStream, <1>1, <1>3, Drains
  <2>2. QED BY <1>3, <2>1 DEF Idle
<1>5. PICK rest1, over1 : rest1 = RestRead(rest, j, v) /\ over1 = OverRead(over, j, v)
  OBVIOUS
<1> DEFINE act == {}
<1>6. /\ j \notin act /\ v = Head(q[j])
      /\ \A k \in Stage : k \notin act => Idle(k) /\ j \notin Sources(stages[k])
      /\ \A k \in Stage : k \notin act => spill[k] = spill[k]
  <2>1. \A k \in Stage : j \notin Sources(stages[k])
    BY <1>1, <1>3, SourcesEarlier DEF Typed
  <2>2. QED BY <1>3, <1>4, <2>1
<1> HIDE DEF act
<1>7. /\ OwedRead(rest, over, rest1, over1, j, v)
      /\ \A k \in Stage : k \notin act => Owes(k, rest1, over1, spill)'
  BY ONLY <1>1, <1>2, <1>4, <1>5, <1>6, StreamRead
<1>8. Balanced(rest1, over1, spill)'
  <2>1. Stage' = Stage /\ spill \in [Stage -> Seq(Value)]
    BY <1>2, <1>4, SameLists DEF Balanced
  <2>2. QED BY <1>7, <2>1 DEF Balanced, OwedRead, act
<1>9. Drained(rest1)'
  <2>1. Last_' = Last_ /\ ListOf' = ListOf
    BY <1>4, SameLists
  <2> DEFINE r == rest[j]
  <2>2. r \in Seq(Value) /\ got \in Seq(Value) /\ got \o r = ListOf[Last_]
    BY <1>1, <1>2, <1>3, <1>4 DEF Balanced, Drained, Typed, StreamsTypeOK
  <2>3. CASE v = End
    <3>1. main'.at = "leave"
      BY <1>1, <1>4, <2>3 DEF Typed, StreamsTypeOK
    <3>2. got \o r = got
      <4>1. r = <<>> /\ got \in Seq(Int)
        BY <1>7, <2>2, <2>3, ValuesAreInts DEF OwedRead
      <4> HIDE DEF r
      <4>2. QED BY <4>1, ConcatNone
    <3>3. got' = ListOf[Last_]
      BY <1>4, <2>2, <2>3, <3>2
    <3>4. QED BY <2>1, <3>1, <3>3 DEF Drained
  <2>4. CASE v # End
    <3>1. main' = main /\ got' = Append(got, v) /\ rest1[j] = Tail(r) /\ r # <<>> /\ Head(r) = v
      BY <1>4, <1>7, <2>4 DEF OwedRead
    <3>2. Append(got, v) \o Tail(r) = got \o r
      <4>1. got \in Seq(Int) /\ r \in Seq(Int) /\ r # <<>> /\ Head(r) = v
        BY <2>2, <3>1, ValuesAreInts
      <4> HIDE DEF r
      <4>2. Append(got, Head(r)) \o Tail(r) = got \o r
        BY ONLY <4>1, FirstSent
      <4>3. QED BY <4>1, <4>2
    <3>3. (got \o rest1[Last_])' = ListOf[Last_]
      BY <1>3, <2>1, <2>2, <3>1, <3>2
    <3>4. main'.at = "drain"
      BY <1>4, <3>1
    <3>5. QED BY <2>1, <3>3, <3>4 DEF Drained
  <2>5. QED BY <2>3, <2>4
<1>10. QED BY <1>1, <1>8, <1>9 DEF StreamsInv

\* A run begins with every list still owed.
LEMMA InitInv == ASSUME StreamsInit PROVE StreamsInv
<1>1. Typed
  BY InitTyped
<1>2. PICK rest, spill : rest = [i \in Stage |-> ListOf[i]] /\ spill = [i \in Stage |-> <<>>]
  OBVIOUS
<1>3. \A i \in Stage : ListOf[i] \in Seq(Value) /\ ListOf[i] = Given(stages[i], ListOf, 0, "a")
  BY <1>1, ListsGiven DEF Typed
<1>4. rest \in [Stage -> Seq(Value)] /\ spill \in [Stage -> Seq(Value)]
      /\ \A i \in Stage : rest[i] = ListOf[i] /\ spill[i] = <<>>
  BY <1>2, <1>3
<1>5. ASSUME NEW i \in Stage PROVE Owes(i, rest, {}, spill)
  <2>1. /\ q[i] = <<>> /\ forwarded[i] = [q |-> <<>>, rest |-> <<>>] /\ worker[i] = "absent" /\ box[i] = <<>>
        /\ taken[i] = 0 /\ ended[i] = {} /\ side[i] = "a"
    BY DEF StreamsInit
  <2> DEFINE last == <<End>>
  <2> DEFINE u == rest[i]
  <2>2. Unread(i, rest) = u
    <3>1. \A j \in Sources(stages[i]) : ListOf[j] = rest[j]
      BY <1>1, <1>4, SourcesEarlier DEF Typed
    <3>2. Given(stages[i], ListOf, 0, "a") = Given(stages[i], rest, 0, "a")
      BY <1>1, <3>1, GivenAgrees DEF Typed
    <3>3. 0 + Len(<<>>) = 0
      OBVIOUS
    <3>4. Unread(i, rest) = Given(stages[i], rest, 0, "a")
      BY <2>1, <3>3 DEF Unread
    <3>5. QED BY <1>3, <1>4, <3>2, <3>4
  <2>3. u \o last \in Seq(Int)
    BY <1>1, <1>4, <2>2, ToComeTyped
  <2>4. ToCome(i, rest, spill) = <<>> \o (<<>> \o (u \o last))
    BY <1>4, <2>1, <2>2 DEF ToCome
  <2>5. Pending(i, rest, {}) = u \o last
    BY DEF Pending
  <2>6. q[i] \o ToCome(i, rest, spill) = Pending(i, rest, {})
    <3> HIDE DEF u, last
    <3>1. QED BY <2>1, <2>3, <2>4, <2>5, ConcatNone
  <2>7. ~Forwards(i) /\ forwarded[i].q \o forwarded[i].rest = <<>>
    <3>1. <<>> \in Seq(Int) /\ forwarded[i].q = <<>> /\ forwarded[i].rest = <<>>
      BY <2>1
    <3>2. QED BY <2>1, <3>1, ConcatNone DEF Forwards
  <2>8. QED BY <1>4, <2>1, <2>6, <2>7 DEF Owes
<1>6. Balanced(rest, {}, spill)
  BY <1>4, <1>5 DEF Balanced
<1>7. Drained(rest)
  <2>1. main.at = "make" /\ got = <<>>
    BY DEF StreamsInit
  <2>2. Last_ \in Stage
    <3>1. Stage = 1..Last_ /\ Last_ \in Nat \ {0}
      BY <1>1 DEF Typed, IsPipeline, Last_, Stage
    <3>2. QED BY <3>1
  <2> DEFINE r == rest[Last_]
  <2>3. r \in Seq(Int) /\ r = ListOf[Last_]
    BY <1>4, <2>2, ValuesAreInts
  <2>4. <<>> \o r = r
    <3> HIDE DEF r
    <3>1. QED BY <2>3, ConcatNone
  <2>5. QED BY <2>1, <2>3, <2>4 DEF Drained
<1>8. QED BY <1>1, <1>6, <1>7 DEF StreamsInv

\* A step keeps the invariant.
LEMMA NextKeeps == ASSUME StreamsInv, [StreamsNext]_streamVars PROVE StreamsInv'
<1>1. CASE UNCHANGED streamVars
  <2>1. Typed'
    BY <1>1 DEF StreamsInv, Typed, StreamsTypeOK, BoxFits, Building, Stage, streamVars
  <2>2. QED BY <1>1, <2>1, ProgramKeeps DEF streamVars
<1>2. CASE StreamsNext
  BY <1>2, MakeKeeps, BindKeeps, DrainKeeps, ReturnKeeps, LeaveKeeps, GenerateKeeps, GeneratorReturnsKeeps,
     WorkerSendsKeeps, ReadKeeps, GenerateInnerKeeps, ReadInnerKeeps, ReadMergeKeeps DEF StreamsNext
<1>3. QED BY <1>1, <1>2

\* What is drained begins what there is to drain.
LEMMA BeginningOf ==
    ASSUME NEW p \in Seq(Value), NEW r \in Seq(Value)
    PROVE  IsPrefix(p, p \o r)
<1> DEFINE z == p \o r
<1>1. Len(p) \in Nat /\ Len(r) \in Nat /\ z \in Seq(Value) /\ Len(z) = Len(p) + Len(r)
      /\ \A i \in 1..(Len(p) + Len(r)) : z[i] = IF i <= Len(p) THEN p[i] ELSE r[i - Len(p)]
  BY ConcatProperties
<1> DEFINE n == Len(p)
<1> DEFINE m == Len(r)
<1> DEFINE l == Len(z)
<1> HIDE DEF z, n, m, l
<1>2. n \in Nat /\ m \in Nat /\ l = n + m /\ \A i \in 1..n : z[i] = p[i]
  BY <1>1 DEF n, m, l
<1>3. n <= l
  BY <1>2
<1>4. SubSeq(p, 1, n) = SubSeq(z, 1, n)
  <2>1. SubSeq(p, 1, n) = [i \in 1..n |-> p[i]] /\ SubSeq(z, 1, n) = [i \in 1..n |-> z[i]]
    BY <1>1, <1>2, <1>3 DEF n, l
  <2>2. QED BY <1>2, <2>1
<1>5. QED BY <1>3, <1>4 DEF IsPrefix, n, l, z

\* The invariant gives the property.
LEMMA InvImplies == StreamsInv => PipelinesAreFunctions
<1> SUFFICES ASSUME StreamsInv PROVE PipelinesAreFunctions
  OBVIOUS
<1>2. Typed /\ got \in Seq(Value)
  BY DEF StreamsInv, Typed, StreamsTypeOK
<1>3. PICK rest, over, spill : Balanced(rest, over, spill) /\ Drained(rest)
  BY DEF StreamsInv
<1>4. Last_ \in Stage
  <2>1. Stage = 1..Last_ /\ Last_ \in Nat \ {0}
    BY <1>2 DEF Typed, IsPipeline, Last_, Stage
  <2>2. QED BY <2>1
<1>5. CASE main.at \in {"leave", "left"}
  <2>1. got = ListOf[Last_]
    BY <1>3, <1>5 DEF Drained
  <2>2. IsPrefix(got, got)
    <3>1. <<>> \in Seq(Value) /\ got \o <<>> = got
      BY <1>2, ConcatNone, ValuesAreInts
    <3>2. IsPrefix(got, got \o <<>>)
      BY <1>2, <3>1, BeginningOf
    <3>3. QED BY <3>1, <3>2
  <2>3. QED BY <2>1, <2>2 DEF PipelinesAreFunctions
<1>6. CASE main.at \notin {"leave", "left"}
  <2>1. got \o rest[Last_] = ListOf[Last_] /\ rest[Last_] \in Seq(Value)
    BY <1>3, <1>4, <1>6 DEF Drained, Balanced
  <2>2. IsPrefix(got, got \o rest[Last_])
    BY <1>2, <2>1, BeginningOf
  <2>3. QED BY <1>6, <2>1, <2>2 DEF PipelinesAreFunctions
<1>7. QED BY <1>5, <1>6

-----------------------------------------------------------------------------

\* The types of a run: a worker's box holds what its place sends, only stages
\* that are made have started, and what is drained are values, never the sentinel.
THEOREM StreamsTyped == StreamsInit /\ [][StreamsNext]_streamVars => []Typed
<1>1. StreamsInit => StreamsInv
  BY InitInv
<1>2. StreamsInv /\ [StreamsNext]_streamVars => StreamsInv'
  BY NextKeeps
<1>3. StreamsInv => Typed
  BY DEF StreamsInv
<1>4. QED BY <1>1, <1>2, <1>3, PTL

\* What is in a stream and what its stage still sends are together what the list
\* function of the stage gives of what its sources owe.
THEOREM StreamsBalanced == StreamsInit /\ [][StreamsNext]_streamVars => []StreamsInv
<1>1. StreamsInit => StreamsInv
  BY InitInv
<1>2. StreamsInv /\ [StreamsNext]_streamVars => StreamsInv'
  BY NextKeeps
<1>3. QED BY <1>1, <1>2, PTL

\* Any pipeline of generators, maps, filters, flat_maps, takes and merges in which
\* a stream has one reader, over streams of any capacity: whatever the order in
\* which generators, workers and the program run, the program drains a beginning
\* of the list that the list functions give, and all of it once it has read the end.
THEOREM PipelinesCorrect == StreamsInit /\ [][StreamsNext]_streamVars => []PipelinesAreFunctions
<1>1. StreamsInv => PipelinesAreFunctions
  BY InvImplies
<1>2. QED BY <1>1, StreamsBalanced, PTL
=============================================================================
