------------------------ MODULE ChanLifetime_proofs ------------------------
(***************************************************************************)
(* That nothing a binding, a message, the registry or a release refers to  *)
(* has been freed (AllAlive), for any threads, channels, levels and        *)
(* capacities, until a copy of a binding is overtaken.                     *)
(*                                                                         *)
(* The argument is a conservation law: a step changes the count of a       *)
(* channel by as much as it changes the number of its references           *)
(* (CountsExact).  A reference is a place, so that number is a cardinality,*)
(* and a step adds a place, removes one or shifts the places of a queue.   *)
(***************************************************************************)
EXTENDS ChanLifetime, FiniteSetTheorems, TLAPS

USE LifetimeAssumption

-----------------------------------------------------------------------------
(* Counting references *)

HeldType == [Owner -> [Chan -> Nat]]
QueueType == [Chan -> Seq(Chan \cup {Plain})]

\* One reference more or less, where v is the channel d.
One(v, d) == IF v = d THEN 1 ELSE 0

\* A place among the bindings is a number up to the thread's count.
LEMMA BindingPlaces ==
    ASSUME NEW h \in HeldType, NEW c \in Chan
    PROVE  \A p : p \in Bindings(h, c) <=>
                    \E t \in Owner, i \in Nat : i \in 1..h[t][c] /\ p = <<t, i>>
BY DEF Bindings

LEMMA MessagePlaces ==
    ASSUME NEW q \in QueueType, NEW c \in Chan
    PROVE  \A p : p \in Messages(q, c) <=>
                    \E d \in Chan, i \in Nat : i \in 1..Len(q[d]) /\ q[d][i] = c /\ p = <<d, i>>
BY DEF Messages

\* A thread that holds a channel is a place; a channel without places is held by nobody.
LEMMA HeldIsAPlace ==
    ASSUME NEW h \in HeldType, NEW c \in Chan, NEW t \in Owner, IsFiniteSet(Bindings(h, c))
    PROVE  h[t][c] > 0 => Cardinality(Bindings(h, c)) > 0
<1> SUFFICES ASSUME h[t][c] > 0 PROVE Cardinality(Bindings(h, c)) > 0
  OBVIOUS
<1>1. 1 \in 1..h[t][c]
  BY DEF HeldType
<1>2. <<t, 1>> \in Bindings(h, c)
  BY <1>1, BindingPlaces
<1> QED BY <1>2, FS_EmptySet, FS_CardinalityType

LEMMA MessageIsAPlace ==
    ASSUME NEW q \in QueueType, NEW c \in Chan, NEW d \in Chan, IsFiniteSet(Messages(q, c))
    PROVE  q[d] # <<>> /\ Head(q[d]) = c => Cardinality(Messages(q, c)) > 0
<1> SUFFICES ASSUME q[d] # <<>>, Head(q[d]) = c PROVE Cardinality(Messages(q, c)) > 0
  OBVIOUS
<1>1. 1 \in 1..Len(q[d]) /\ q[d][1] = c
  BY DEF QueueType
<1>2. <<d, 1>> \in Messages(q, c)
  BY <1>1, MessagePlaces
<1> QED BY <1>2, FS_EmptySet, FS_CardinalityType

\* A binding more.
LEMMA BindingAdded ==
    ASSUME NEW h \in HeldType, NEW t \in Owner, NEW v \in Chan,
           \A d \in Chan : IsFiniteSet(Bindings(h, d)),
           NEW g \in HeldType, g[t][v] = h[t][v] + 1,
           \A s \in Owner, d \in Chan : s # t \/ d # v => g[s][d] = h[s][d]
    PROVE  \A d \in Chan : /\ IsFiniteSet(Bindings(g, d))
                           /\ Cardinality(Bindings(g, d)) = Cardinality(Bindings(h, d)) + One(v, d)
<1>1. g \in HeldType
  OBVIOUS
<1>2. ASSUME NEW d \in Chan, d # v
      PROVE  Bindings(g, d) = Bindings(h, d)
  <2>1. \A s \in Owner : g[s][d] = h[s][d]
    BY <1>2
  <2> QED BY <2>1 DEF Bindings
<1>3. Bindings(g, v) = Bindings(h, v) \cup {<<t, h[t][v] + 1>>}
  <2>1. /\ g[t][v] = h[t][v] + 1 /\ h[t][v] \in Nat
        /\ \A s \in Owner \ {t} : g[s][v] = h[s][v]
    BY DEF HeldType
  <2>2. 1..g[t][v] = (1..h[t][v]) \cup {h[t][v] + 1}
    BY <2>1
  <2>3. ASSUME NEW p \in Bindings(g, v)
        PROVE  p \in Bindings(h, v) \cup {<<t, h[t][v] + 1>>}
    <3>1. PICK s \in Owner, i \in Nat : i \in 1..g[s][v] /\ p = <<s, i>>
      BY <1>1, BindingPlaces
    <3>2. p = <<t, h[t][v] + 1>> \/ i \in 1..h[s][v]
      <4>1. CASE s = t
        BY <2>2, <3>1, <4>1
      <4>2. CASE s # t
        BY <2>1, <3>1, <4>2
      <4> QED BY <4>1, <4>2
    <3> QED BY <3>1, <3>2, BindingPlaces
  <2>4. ASSUME NEW p \in Bindings(h, v) PROVE p \in Bindings(g, v)
    <3>1. PICK s \in Owner, i \in Nat : i \in 1..h[s][v] /\ p = <<s, i>>
      BY BindingPlaces
    <3>2. i \in 1..g[s][v]
      BY <2>1, <2>2, <3>1
    <3> QED BY <1>1, <3>1, <3>2, BindingPlaces
  <2>5. <<t, h[t][v] + 1>> \in Bindings(g, v)
    <3>1. h[t][v] + 1 \in 1..g[t][v] /\ h[t][v] + 1 \in Nat
      BY <2>1, <2>2
    <3> QED BY <1>1, <3>1, BindingPlaces
  <2> QED BY <2>3, <2>4, <2>5
<1>4. <<t, h[t][v] + 1>> \notin Bindings(h, v)
  <2>1. SUFFICES ASSUME NEW s \in Owner, NEW i \in 1..h[s][v], <<t, h[t][v] + 1>> = <<s, i>>
                 PROVE  FALSE
    BY BindingPlaces
  <2> QED BY <2>1 DEF HeldType
<1>5. IsFiniteSet(Bindings(h, v))
  OBVIOUS
<1>6. /\ IsFiniteSet(Bindings(g, v))
      /\ Cardinality(Bindings(g, v)) = Cardinality(Bindings(h, v)) + 1
  BY ONLY <1>3, <1>4, <1>5, FS_AddElement
<1>7. \A d \in Chan : Cardinality(Bindings(h, d)) \in Nat
  BY FS_CardinalityType
<1> QED BY <1>1, <1>2, <1>6, <1>7 DEF One

\* A binding less.
LEMMA BindingRemoved ==
    ASSUME NEW h \in HeldType, NEW t \in Owner, NEW v \in Chan, h[t][v] > 0,
           \A d \in Chan : IsFiniteSet(Bindings(h, d)),
           NEW g \in HeldType, g[t][v] = h[t][v] - 1,
           \A s \in Owner, d \in Chan : s # t \/ d # v => g[s][d] = h[s][d]
    PROVE  \A d \in Chan : /\ IsFiniteSet(Bindings(g, d))
                           /\ Cardinality(Bindings(g, d)) = Cardinality(Bindings(h, d)) - One(v, d)
<1>1. g \in HeldType
  OBVIOUS
<1>2. ASSUME NEW d \in Chan, d # v
      PROVE  Bindings(g, d) = Bindings(h, d)
  <2>1. \A s \in Owner : g[s][d] = h[s][d]
    BY <1>2
  <2> QED BY <2>1 DEF Bindings
<1>3. Bindings(g, v) = Bindings(h, v) \ {<<t, h[t][v]>>}
  <2>1. /\ g[t][v] = h[t][v] - 1 /\ h[t][v] \in Nat
        /\ \A s \in Owner \ {t} : g[s][v] = h[s][v]
    BY DEF HeldType
  <2>2. 1..g[t][v] = (1..h[t][v]) \ {h[t][v]}
    BY <2>1
  <2>3. ASSUME NEW p \in Bindings(g, v)
        PROVE  p \in Bindings(h, v) /\ p # <<t, h[t][v]>>
    <3>1. PICK s \in Owner, i \in Nat : i \in 1..g[s][v] /\ p = <<s, i>>
      BY <1>1, BindingPlaces
    <3>2. i \in 1..h[s][v] /\ (s = t => i # h[t][v])
      BY <2>1, <2>2, <3>1
    <3> QED BY <3>1, <3>2, BindingPlaces
  <2>4. ASSUME NEW p \in Bindings(h, v), p # <<t, h[t][v]>> PROVE p \in Bindings(g, v)
    <3>1. PICK s \in Owner, i \in Nat : i \in 1..h[s][v] /\ p = <<s, i>>
      BY BindingPlaces
    <3>2. i \in 1..g[s][v]
      BY <2>1, <2>2, <2>4, <3>1
    <3> QED BY <1>1, <3>1, <3>2, BindingPlaces
  <2> QED BY <2>3, <2>4
<1>4. <<t, h[t][v]>> \in Bindings(h, v)
  <2>1. h[t][v] \in 1..h[t][v]
    BY DEF HeldType
  <2> QED BY <2>1, BindingPlaces
<1>5. IsFiniteSet(Bindings(h, v))
  OBVIOUS
<1>6. /\ IsFiniteSet(Bindings(g, v))
      /\ Cardinality(Bindings(g, v)) = Cardinality(Bindings(h, v)) - 1
  BY ONLY <1>3, <1>4, <1>5, FS_RemoveElement
<1>7. \A d \in Chan : Cardinality(Bindings(h, d)) \in Nat
  BY FS_CardinalityType
<1> QED BY <1>1, <1>2, <1>6, <1>7 DEF One

\* A message more.
LEMMA MessageAdded ==
    ASSUME NEW q \in QueueType, NEW c \in Chan, NEW v \in Chan \cup {Plain},
           \A d \in Chan : IsFiniteSet(Messages(q, d)),
           NEW r \in QueueType, r[c] = Append(q[c], v), \A e \in Chan \ {c} : r[e] = q[e]
    PROVE  \A d \in Chan : /\ IsFiniteSet(Messages(r, d))
                           /\ Cardinality(Messages(r, d)) = Cardinality(Messages(q, d)) + One(v, d)
                           /\ v # d => Messages(r, d) = Messages(q, d)
<1>1. r \in QueueType
  OBVIOUS
<1>2. /\ q[c] \in Seq(Chan \cup {Plain}) /\ Len(q[c]) \in Nat
      /\ r[c] = Append(q[c], v)
      /\ \A e \in Chan \ {c} : r[e] = q[e]
  BY DEF QueueType
<1>3. /\ Len(r[c]) = Len(q[c]) + 1 /\ r[c][Len(q[c]) + 1] = v
      /\ \A i \in 1..Len(q[c]) : r[c][i] = q[c][i]
  BY <1>2
<1>4. 1..Len(r[c]) = (1..Len(q[c])) \cup {Len(q[c]) + 1}
  BY <1>2, <1>3
<1>5. ASSUME NEW d \in Chan
      PROVE  Messages(r, d) = Messages(q, d) \cup (IF v = d THEN {<<c, Len(q[c]) + 1>>} ELSE {})
  <2>1. ASSUME NEW p \in Messages(r, d)
        PROVE  p \in Messages(q, d) \/ (v = d /\ p = <<c, Len(q[c]) + 1>>)
    <3>1. PICK e \in Chan, i \in Nat : i \in 1..Len(r[e]) /\ r[e][i] = d /\ p = <<e, i>>
      BY <1>1, MessagePlaces
    <3>2. CASE e = c /\ i = Len(q[c]) + 1
      BY <1>3, <3>1, <3>2
    <3>3. CASE ~(e = c /\ i = Len(q[c]) + 1)
      <4>1. i \in 1..Len(q[e]) /\ q[e][i] = d
        <5>1. CASE e = c
          <6>1. i \in 1..Len(q[c])
            BY <1>4, <3>1, <3>3, <5>1
          <6> QED BY <1>3, <3>1, <5>1, <6>1
        <5>2. CASE e # c
          BY <1>2, <3>1, <5>2
        <5> QED BY <5>1, <5>2
      <4> QED BY <3>1, <4>1, MessagePlaces
    <3> QED BY <3>2, <3>3
  <2>2. ASSUME NEW p \in Messages(q, d) PROVE p \in Messages(r, d)
    <3>1. PICK e \in Chan, i \in Nat : i \in 1..Len(q[e]) /\ q[e][i] = d /\ p = <<e, i>>
      BY MessagePlaces
    <3>2. i \in 1..Len(r[e]) /\ r[e][i] = d
      BY <1>2, <1>3, <1>4, <3>1
    <3> QED BY <1>1, <3>1, <3>2, MessagePlaces
  <2>3. v = d => <<c, Len(q[c]) + 1>> \in Messages(r, d)
    <3>1. Len(q[c]) + 1 \in 1..Len(r[c])
      BY <1>4
    <3> QED BY <1>1, <1>3, <3>1, MessagePlaces
  <2> QED BY <2>1, <2>2, <2>3
<1>6. ASSUME NEW d \in Chan
      PROVE  <<c, Len(q[c]) + 1>> \notin Messages(q, d)
  <2>1. SUFFICES ASSUME NEW e \in Chan, NEW i \in 1..Len(q[e]), <<c, Len(q[c]) + 1>> = <<e, i>>
                 PROVE  FALSE
    BY MessagePlaces
  <2> QED BY <1>2, <2>1
<1>7. ASSUME NEW d \in Chan
      PROVE  /\ IsFiniteSet(Messages(r, d))
             /\ Cardinality(Messages(r, d)) = Cardinality(Messages(q, d)) + One(v, d)
             /\ v # d => Messages(r, d) = Messages(q, d)
  <2>1. IsFiniteSet(Messages(q, d))
    OBVIOUS
  <2>2. CASE v = d
    <3>1. Messages(r, d) = Messages(q, d) \cup {<<c, Len(q[c]) + 1>>}
      BY <1>5, <2>2
    <3>2. <<c, Len(q[c]) + 1>> \notin Messages(q, d)
      BY <1>6
    <3>3. /\ IsFiniteSet(Messages(r, d))
          /\ Cardinality(Messages(r, d)) = Cardinality(Messages(q, d)) + 1
      BY ONLY <2>1, <3>1, <3>2, FS_AddElement
    <3> QED BY <2>2, <3>3 DEF One
  <2>3. CASE v # d
    <3>1. Messages(r, d) = Messages(q, d)
      BY <1>5, <2>3
    <3>2. Cardinality(Messages(q, d)) \in Nat
      BY <2>1, FS_CardinalityType
    <3> QED BY <2>1, <2>3, <3>1, <3>2 DEF One
  <2> QED BY <2>2, <2>3
<1> QED BY <1>1, <1>7

\* The oldest message taken out: the others of its queue move up by one place.
LEMMA MessageTaken ==
    ASSUME NEW q \in QueueType, NEW c \in Chan, q[c] # <<>>,
           \A d \in Chan : IsFiniteSet(Messages(q, d)),
           NEW r \in QueueType, r[c] = Tail(q[c]), \A e \in Chan \ {c} : r[e] = q[e]
    PROVE  \A d \in Chan : /\ IsFiniteSet(Messages(r, d))
                           /\ Cardinality(Messages(r, d))
                                = Cardinality(Messages(q, d)) - One(Head(q[c]), d)
                           /\ Messages(q, d) = {} => Messages(r, d) = {}
<1>1. /\ q[c] \in Seq(Chan \cup {Plain}) /\ Len(q[c]) \in Nat /\ Len(q[c]) > 0
      /\ Head(q[c]) = q[c][1] /\ Len(r[c]) = Len(q[c]) - 1
      /\ \A i \in 1..Len(r[c]) : r[c][i] = q[c][i + 1]
  BY DEF QueueType
<1> SUFFICES ASSUME NEW d \in Chan
             PROVE  /\ IsFiniteSet(Messages(r, d))
                    /\ Cardinality(Messages(r, d))
                         = Cardinality(Messages(q, d)) - One(Head(q[c]), d)
                    /\ Messages(q, d) = {} => Messages(r, d) = {}
  OBVIOUS
<1> DEFINE Rest == Messages(q, d) \ {<<c, 1>>}
<1> DEFINE up == [p \in Rest |-> IF p[1] = c THEN <<c, p[2] - 1>> ELSE p]
<1>2. ASSUME NEW p \in Rest
      PROVE  \E e \in Chan, i \in Nat : /\ p = <<e, i>> /\ i \in 1..Len(q[e]) /\ q[e][i] = d
                                       /\ ~(e = c /\ i = 1)
  BY MessagePlaces
<1>3. up \in [Rest -> Messages(r, d)]
  <2>1. SUFFICES ASSUME NEW p \in Rest PROVE up[p] \in Messages(r, d)
    OBVIOUS
  <2>2. PICK e \in Chan, i \in Nat : /\ p = <<e, i>> /\ i \in 1..Len(q[e]) /\ q[e][i] = d
                                    /\ ~(e = c /\ i = 1)
    BY <1>2
  <2>3. CASE e = c
    <3>1. i - 1 \in 1..Len(r[c]) /\ r[c][i - 1] = d /\ i - 1 \in Nat
      BY <1>1, <2>2, <2>3
    <3>2. up[p] = <<c, i - 1>>
      BY <2>2, <2>3
    <3>3. PICK j \in Nat : j = i - 1
      BY <3>1
    <3>4. <<c, j>> \in Messages(r, d)
      BY <3>1, <3>3, MessagePlaces
    <3> QED BY <3>2, <3>3, <3>4
  <2>4. CASE e # c
    <3>1. up[p] = <<e, i>> /\ i \in 1..Len(r[e]) /\ r[e][i] = d
      BY <2>2, <2>4
    <3> QED BY <3>1, MessagePlaces
  <2> QED BY <2>3, <2>4
<1>4. ASSUME NEW p \in Rest, NEW o \in Rest, up[p] = up[o]
      PROVE  p = o
  <2>1. PICK e \in Chan, i \in Nat : /\ p = <<e, i>> /\ i \in 1..Len(q[e]) /\ q[e][i] = d
                                    /\ ~(e = c /\ i = 1)
    BY <1>2
  <2>2. PICK f \in Chan, j \in Nat : /\ o = <<f, j>> /\ j \in 1..Len(q[f]) /\ q[f][j] = d
                                    /\ ~(f = c /\ j = 1)
    BY <1>2
  <2>3. /\ up[p] = IF e = c THEN <<c, i - 1>> ELSE <<e, i>>
        /\ up[o] = IF f = c THEN <<c, j - 1>> ELSE <<f, j>>
    BY <2>1, <2>2
  <2> HIDE DEF up, Rest
  <2>4. ASSUME NEW k \in Chan, NEW n \in Int, NEW l \in Chan, NEW m \in Int, <<k, n>> = <<l, m>>
        PROVE  k = l /\ n = m
    BY <2>4
  <2>5. i - 1 \in Int /\ j - 1 \in Int /\ i \in Int /\ j \in Int /\ c \in Chan
    OBVIOUS
  <2>6. e = f /\ i = j
    <3>1. CASE e = c /\ f = c
      <4>1. <<c, i - 1>> = <<c, j - 1>>
        BY ONLY <1>4, <2>3, <3>1
      <4>2. i - 1 = j - 1
        BY ONLY <2>4, <2>5, <4>1
      <4> QED BY <2>5, <3>1, <4>2
    <3>2. CASE e # c /\ f # c
      <4>1. <<e, i>> = <<f, j>>
        BY ONLY <1>4, <2>3, <3>2
      <4> QED BY <4>1
    <3>3. CASE (e = c) # (f = c)
      <4>1. <<e, i - 1>> = <<f, j>> \/ <<e, i>> = <<f, j - 1>>
        BY ONLY <1>4, <2>3, <3>3
      <4>2. e = f
        BY <2>4, <2>5, <4>1
      <4> QED BY ONLY <3>3, <4>2
    <3> QED BY ONLY <3>1, <3>2, <3>3
  <2> QED BY <2>1, <2>2, <2>6
<1>5. ASSUME NEW m \in Messages(r, d)
      PROVE  \E p \in Rest : up[p] = m
  <2>1. PICK e \in Chan, i \in Nat : i \in 1..Len(r[e]) /\ r[e][i] = d /\ m = <<e, i>>
    BY MessagePlaces
  <2>2. CASE e = c
    <3>1. i \in 1..Len(r[c]) /\ r[c][i] = d
      BY <2>1, <2>2
    <3>2. i + 1 \in 1..Len(q[c]) /\ q[c][i + 1] = d /\ i + 1 \in Nat /\ i + 1 # 1
      BY <1>1, <3>1
    <3>3. <<c, i + 1>> \in Rest
      BY <3>2, MessagePlaces
    <3>4. up[<<c, i + 1>>] = <<c, i>>
      BY <2>1, <3>3
    <3> QED BY <2>1, <2>2, <3>3, <3>4
  <2>3. CASE e # c
    <3>1. <<e, i>> \in Rest
      BY <2>1, <2>3, MessagePlaces
    <3>2. up[<<e, i>>] = <<e, i>>
      BY <2>3, <3>1
    <3> QED BY <2>1, <3>1, <3>2
  <2> QED BY <2>2, <2>3
<1>6. IsFiniteSet(Messages(q, d))
  OBVIOUS
<1>7. /\ IsFiniteSet(Rest)
      /\ Cardinality(Rest) = Cardinality(Messages(q, d)) - One(Head(q[c]), d)
  <2>1. <<c, 1>> \in Messages(q, d) <=> Head(q[c]) = d
    <3>1. <<c, 1>> \in Messages(q, d) <=> \E e \in Chan, i \in Nat :
                                            i \in 1..Len(q[e]) /\ q[e][i] = d /\ <<c, 1>> = <<e, i>>
      BY MessagePlaces
    <3> QED BY <1>1, <3>1
  <2>2. Cardinality(Messages(q, d)) \in Nat
    BY <1>6, FS_CardinalityType
  <2>3. /\ IsFiniteSet(Rest)
        /\ Cardinality(Rest) = IF <<c, 1>> \in Messages(q, d) THEN Cardinality(Messages(q, d)) - 1
                                                            ELSE Cardinality(Messages(q, d))
    BY <1>6, FS_RemoveElement
  <2> HIDE DEF Rest
  <2> QED BY <2>1, <2>2, <2>3 DEF One
<1>8. ExistsBijection(Rest, Messages(r, d))
  <2> HIDE DEF Rest, up
  <2>1. up \in Bijection(Rest, Messages(r, d))
    BY <1>3, <1>4, <1>5 DEF Bijection, Injection, Surjection, IsInjective
  <2> QED BY <2>1 DEF ExistsBijection
<1>9. /\ IsFiniteSet(Messages(r, d))
      /\ Cardinality(Messages(r, d)) = Cardinality(Rest)
  <2> HIDE DEF Rest
  <2> QED BY <1>7, <1>8, FS_Bijection
<1>10. Messages(q, d) = {} => Messages(r, d) = {}
  <2> HIDE DEF up
  <2> QED BY <1>5
<1> HIDE DEF Rest
<1> QED BY <1>7, <1>9, <1>10

\* What a thread gets, and what it gives away, in places.
LEMMA GetCounts ==
    ASSUME NEW h \in HeldType, NEW t \in Owner, NEW v \in Chan \cup {Plain},
           \A d \in Chan : IsFiniteSet(Bindings(h, d))
    PROVE  /\ Get(h, t, v) \in HeldType
           /\ \A s \in Owner, d \in Chan :
                 Get(h, t, v)[s][d] = h[s][d] + (IF s = t THEN One(v, d) ELSE 0)
           /\ \A d \in Chan : /\ IsFiniteSet(Bindings(Get(h, t, v), d))
                              /\ Cardinality(Bindings(Get(h, t, v), d))
                                   = Cardinality(Bindings(h, d)) + One(v, d)
<1>1. CASE v = Plain
  <2>1. Get(h, t, v) = h
    BY <1>1 DEF Get
  <2>2. \A d \in Chan : One(v, d) = 0
    BY <1>1 DEF One
  <2>3. \A d \in Chan : Cardinality(Bindings(h, d)) \in Nat
    BY FS_CardinalityType
  <2>4. \A s \in Owner, d \in Chan : h[s][d] \in Nat
    BY DEF HeldType
  <2> QED BY <2>1, <2>2, <2>3, <2>4
<1>2. CASE v # Plain
  <2>1. v \in Chan /\ Get(h, t, v) = [h EXCEPT ![t][v] = @ + 1]
    BY <1>2 DEF Get
  <2>2. /\ Get(h, t, v) \in HeldType
        /\ Get(h, t, v)[t][v] = h[t][v] + 1
        /\ \A s \in Owner, d \in Chan : s # t \/ d # v => Get(h, t, v)[s][d] = h[s][d]
    BY <2>1 DEF HeldType
  <2>3. \A s \in Owner, d \in Chan :
           Get(h, t, v)[s][d] = h[s][d] + (IF s = t THEN One(v, d) ELSE 0)
    BY <2>1, <2>2 DEF HeldType, One
  <2>4. \A d \in Chan : /\ IsFiniteSet(Bindings(Get(h, t, v), d))
                        /\ Cardinality(Bindings(Get(h, t, v), d))
                             = Cardinality(Bindings(h, d)) + One(v, d)
    <3>1. PICK g \in HeldType : g = Get(h, t, v)
      BY <2>2
    <3>2. /\ v \in Chan
          /\ g[t][v] = h[t][v] + 1
          /\ \A s \in Owner, d \in Chan : s # t \/ d # v => g[s][d] = h[s][d]
      BY <2>1, <2>2, <3>1
    <3>3. \A d \in Chan : /\ IsFiniteSet(Bindings(g, d))
                          /\ Cardinality(Bindings(g, d)) = Cardinality(Bindings(h, d)) + One(v, d)
      BY <3>2, BindingAdded
    <3> QED BY <3>1, <3>3
  <2> QED BY <2>2, <2>3, <2>4
<1> QED BY <1>1, <1>2

LEMMA GiveCounts ==
    ASSUME NEW h \in HeldType, NEW t \in Owner, NEW v \in Chan \cup {Plain},
           v = Plain \/ h[t][v] > 0,
           \A d \in Chan : IsFiniteSet(Bindings(h, d))
    PROVE  /\ Give(h, t, v) \in HeldType
           /\ \A s \in Owner, d \in Chan :
                 Give(h, t, v)[s][d] = h[s][d] - (IF s = t THEN One(v, d) ELSE 0)
           /\ \A d \in Chan : /\ IsFiniteSet(Bindings(Give(h, t, v), d))
                              /\ Cardinality(Bindings(Give(h, t, v), d))
                                   = Cardinality(Bindings(h, d)) - One(v, d)
<1>1. CASE v = Plain
  <2>1. Give(h, t, v) = h
    BY <1>1 DEF Give
  <2>2. \A d \in Chan : One(v, d) = 0
    BY <1>1 DEF One
  <2>3. \A d \in Chan : Cardinality(Bindings(h, d)) \in Nat
    BY FS_CardinalityType
  <2>4. \A s \in Owner, d \in Chan : h[s][d] \in Nat
    BY DEF HeldType
  <2> QED BY <2>1, <2>2, <2>3, <2>4
<1>2. CASE v # Plain
  <2>1. v \in Chan /\ h[t][v] > 0 /\ Give(h, t, v) = [h EXCEPT ![t][v] = @ - 1]
    BY <1>2 DEF Give
  <2>2. /\ Give(h, t, v) \in HeldType
        /\ Give(h, t, v)[t][v] = h[t][v] - 1
        /\ \A s \in Owner, d \in Chan : s # t \/ d # v => Give(h, t, v)[s][d] = h[s][d]
    BY <2>1 DEF HeldType
  <2>3. \A s \in Owner, d \in Chan :
           Give(h, t, v)[s][d] = h[s][d] - (IF s = t THEN One(v, d) ELSE 0)
    BY <2>1, <2>2 DEF HeldType, One
  <2>4. \A d \in Chan : /\ IsFiniteSet(Bindings(Give(h, t, v), d))
                        /\ Cardinality(Bindings(Give(h, t, v), d))
                             = Cardinality(Bindings(h, d)) - One(v, d)
    <3>1. PICK g \in HeldType : g = Give(h, t, v)
      BY <2>2
    <3>2. /\ v \in Chan /\ h[t][v] > 0
          /\ g[t][v] = h[t][v] - 1
          /\ \A s \in Owner, d \in Chan : s # t \/ d # v => g[s][d] = h[s][d]
      BY <2>1, <2>2, <3>1
    <3>3. \A d \in Chan : /\ IsFiniteSet(Bindings(g, d))
                          /\ Cardinality(Bindings(g, d)) = Cardinality(Bindings(h, d)) - One(v, d)
      BY <3>2, BindingRemoved
    <3> QED BY <3>1, <3>3
  <2> QED BY <2>2, <2>3, <2>4
<1> QED BY <1>1, <1>2

-----------------------------------------------------------------------------
(* The invariant, and what every step has to show *)

Finite ==
    \A c \in Chan : IsFiniteSet(Bindings(held, c)) /\ IsFiniteSet(Messages(pending, c))

LInv == LifetimeInv /\ Finite

ActType == [ch : Chan, at : {"unlink", "drain"}]

\* The invariant in the form the lemmas above ask for.
LEMMA Facts ==
    ASSUME LInv
    PROVE  /\ held \in HeldType /\ pending \in QueueType
           /\ refcnt \in [Chan -> Nat] /\ stack \in [Owner -> Seq(ActType)]
           /\ \A d \in Chan : IsFiniteSet(Bindings(held, d)) /\ IsFiniteSet(Messages(pending, d))
           /\ \A d \in Chan : /\ Cardinality(Bindings(held, d)) \in Nat
                              /\ Cardinality(Messages(pending, d)) \in Nat
                              /\ References(d) \in Nat
                              /\ refcnt[d] = References(d)
<1>1. \A d \in Chan : IsFiniteSet(Bindings(held, d)) /\ IsFiniteSet(Messages(pending, d))
  BY DEF LInv, Finite
<1>2. \A d \in Chan : /\ Cardinality(Bindings(held, d)) \in Nat
                     /\ Cardinality(Messages(pending, d)) \in Nat
  BY <1>1, FS_CardinalityType
<1>3. \A d \in Chan : References(d) \in Nat
  BY <1>2 DEF References
<1> QED BY <1>1, <1>2, <1>3 DEF LInv, LifetimeInv, LifetimeTypeOK, CountsExact, HeldType, QueueType, ActType

\* A channel somebody holds, or that is the next message of a queue, is counted.
LEMMA Counted ==
    ASSUME LInv
    PROVE  /\ \A t \in Owner, d \in Chan : held[t][d] > 0 => refcnt[d] > 0
           /\ \A c, d \in Chan : pending[c] # <<>> /\ Head(pending[c]) = d => refcnt[d] > 0
           /\ \A t \in Owner, c, d \in Chan :
                 held[t][d] > 0 /\ pending[c] # <<>> /\ Head(pending[c]) = d => refcnt[d] > 1
<1>1. \A t \in Owner, d \in Chan : held[t][d] > 0 => Cardinality(Bindings(held, d)) > 0
  BY Facts, HeldIsAPlace
<1>2. \A c, d \in Chan : pending[c] # <<>> /\ Head(pending[c]) = d
                           => Cardinality(Messages(pending, d)) > 0
  BY Facts, MessageIsAPlace
<1>3. \A d \in Chan : /\ Cardinality(Bindings(held, d)) \in Nat
                     /\ Cardinality(Messages(pending, d)) \in Nat
                     /\ refcnt[d] = Cardinality(Bindings(held, d)) + Cardinality(Messages(pending, d))
  BY Facts DEF References
<1>4. ASSUME NEW t \in Owner, NEW d \in Chan, held[t][d] > 0 PROVE refcnt[d] > 0
  <2>1. Cardinality(Bindings(held, d)) > 0
    BY <1>1, <1>4
  <2> QED BY <1>3, <2>1
<1>5. ASSUME NEW c \in Chan, NEW d \in Chan, pending[c] # <<>>, Head(pending[c]) = d PROVE refcnt[d] > 0
  <2>1. Cardinality(Messages(pending, d)) > 0
    BY <1>2, <1>5
  <2> QED BY <1>3, <2>1
<1>6. ASSUME NEW t \in Owner, NEW c \in Chan, NEW d \in Chan,
             held[t][d] > 0, pending[c] # <<>>, Head(pending[c]) = d
      PROVE  refcnt[d] > 1
  <2>1. Cardinality(Bindings(held, d)) > 0
    BY <1>1, <1>6
  <2>2. Cardinality(Messages(pending, d)) > 0
    BY <1>2, <1>6
  <2> QED BY <1>3, <2>1, <2>2
<1> QED BY <1>4, <1>5, <1>6

LEMMA ActivationPlaces ==
    /\ \A a : a \in Activations <=>
              \E t \in Owner, i \in Nat : i \in 1..Len(stack[t]) /\ a = <<t, i>>
    /\ \A t, i : Activation(<<t, i>>) = stack[t][i]
BY DEF Activations, Activation

\* What the lemmas on bindings and queues say of a step.
LEMMA Got ==
    ASSUME LInv, NEW t \in Owner, NEW v \in Chan \cup {Plain}, held' = Get(held, t, v)
    PROVE  /\ held' \in HeldType
           /\ \A s \in Owner, d \in Chan :
                 held'[s][d] = held[s][d] + (IF s = t THEN One(v, d) ELSE 0)
           /\ \A d \in Chan : /\ IsFiniteSet(Bindings(held, d)')
                              /\ Cardinality(Bindings(held, d))'
                                   = Cardinality(Bindings(held, d)) + One(v, d)
<1>1. PICK h \in HeldType : h = held
  BY Facts
<1>2. PICK g : g = held'
  OBVIOUS
<1>3. g = Get(h, t, v) /\ \A d \in Chan : IsFiniteSet(Bindings(h, d))
  BY <1>1, <1>2, Facts
<1>4. /\ g \in HeldType
      /\ \A s \in Owner, d \in Chan : g[s][d] = h[s][d] + (IF s = t THEN One(v, d) ELSE 0)
      /\ \A d \in Chan : /\ IsFiniteSet(Bindings(g, d))
                         /\ Cardinality(Bindings(g, d)) = Cardinality(Bindings(h, d)) + One(v, d)
  BY <1>3, GetCounts
<1> QED BY <1>1, <1>2, <1>4

LEMMA Gave ==
    ASSUME LInv, NEW t \in Owner, NEW v \in Chan \cup {Plain}, v = Plain \/ held[t][v] > 0,
           held' = Give(held, t, v)
    PROVE  /\ held' \in HeldType
           /\ \A s \in Owner, d \in Chan :
                 held'[s][d] = held[s][d] - (IF s = t THEN One(v, d) ELSE 0)
           /\ \A d \in Chan : /\ IsFiniteSet(Bindings(held, d)')
                              /\ Cardinality(Bindings(held, d))'
                                   = Cardinality(Bindings(held, d)) - One(v, d)
<1>1. PICK h \in HeldType : h = held
  BY Facts
<1>2. PICK g : g = held'
  OBVIOUS
<1>3. /\ g = Give(h, t, v) /\ \A d \in Chan : IsFiniteSet(Bindings(h, d))
      /\ v = Plain \/ h[t][v] > 0
  BY <1>1, <1>2, Facts
<1>4. /\ g \in HeldType
      /\ \A s \in Owner, d \in Chan : g[s][d] = h[s][d] - (IF s = t THEN One(v, d) ELSE 0)
      /\ \A d \in Chan : /\ IsFiniteSet(Bindings(g, d))
                         /\ Cardinality(Bindings(g, d)) = Cardinality(Bindings(h, d)) - One(v, d)
  BY <1>3, GiveCounts
<1> QED BY <1>1, <1>2, <1>4

LEMMA Queued ==
    ASSUME LInv, NEW c \in Chan, NEW v \in Chan \cup {Plain},
           pending' = [pending EXCEPT ![c] = Append(@, v)]
    PROVE  /\ pending' \in QueueType
           /\ \A d \in Chan : /\ IsFiniteSet(Messages(pending, d)')
                              /\ Cardinality(Messages(pending, d))'
                                   = Cardinality(Messages(pending, d)) + One(v, d)
                              /\ v # d => Messages(pending, d)' = Messages(pending, d)
<1>1. PICK q \in QueueType : q = pending
  BY Facts
<1>2. q[c] \in Seq(Chan \cup {Plain})
  BY DEF QueueType
<1>3. pending' \in QueueType
  BY <1>1, <1>2 DEF QueueType
<1>4. PICK r \in QueueType : r = pending'
  BY <1>3
<1>5. /\ r[c] = Append(q[c], v) /\ \A e \in Chan \ {c} : r[e] = q[e]
      /\ \A d \in Chan : IsFiniteSet(Messages(q, d))
  BY <1>1, <1>4, Facts DEF QueueType
<1>6. \A d \in Chan : /\ IsFiniteSet(Messages(r, d))
                      /\ Cardinality(Messages(r, d)) = Cardinality(Messages(q, d)) + One(v, d)
                      /\ v # d => Messages(r, d) = Messages(q, d)
  <2>1. /\ r[c] = Append(q[c], v)
        /\ \A e \in Chan \ {c} : r[e] = q[e]
        /\ \A d \in Chan : IsFiniteSet(Messages(q, d))
        /\ c \in Chan /\ v \in Chan \cup {Plain} /\ r \in QueueType /\ q \in QueueType
    BY <1>5
  <2> QED BY ONLY <2>1, MessageAdded
<1> QED BY <1>1, <1>3, <1>4, <1>6

LEMMA Taken ==
    ASSUME LInv, NEW c \in Chan, pending[c] # <<>>, pending' = [pending EXCEPT ![c] = Tail(@)]
    PROVE  /\ pending' \in QueueType /\ Head(pending[c]) \in Chan \cup {Plain}
           /\ \A d \in Chan : /\ IsFiniteSet(Messages(pending, d)')
                              /\ Cardinality(Messages(pending, d))'
                                   = Cardinality(Messages(pending, d)) - One(Head(pending[c]), d)
                              /\ Messages(pending, d) = {} => Messages(pending, d)' = {}
<1>1. PICK q \in QueueType : q = pending
  BY Facts
<1>2. q[c] \in Seq(Chan \cup {Plain}) /\ q[c] # <<>>
  BY <1>1 DEF QueueType
<1>3. pending' \in QueueType /\ Head(q[c]) \in Chan \cup {Plain}
  BY <1>1, <1>2 DEF QueueType
<1>4. PICK r \in QueueType : r = pending'
  BY <1>3
<1>5. /\ r[c] = Tail(q[c]) /\ \A e \in Chan \ {c} : r[e] = q[e]
      /\ \A d \in Chan : IsFiniteSet(Messages(q, d))
  BY <1>1, <1>4, Facts DEF QueueType
<1>6. \A d \in Chan : /\ IsFiniteSet(Messages(r, d))
                      /\ Cardinality(Messages(r, d))
                           = Cardinality(Messages(q, d)) - One(Head(q[c]), d)
                      /\ Messages(q, d) = {} => Messages(r, d) = {}
  BY <1>2, <1>5, MessageTaken
<1> QED BY <1>1, <1>3, <1>4, <1>6

LEMMA Kept ==
    ASSUME LInv
    PROVE  /\ held' = held => \A d \in Chan : Bindings(held, d)' = Bindings(held, d)
           /\ pending' = pending => \A d \in Chan : Messages(pending, d)' = Messages(pending, d)
           /\ \A d \in Chan :
                /\ References(d) = Cardinality(Bindings(held, d)) + Cardinality(Messages(pending, d))
                /\ References(d)' = Cardinality(Bindings(held, d))' + Cardinality(Messages(pending, d))'
           /\ \A v, d \in Chan \cup {Plain} : One(v, d) \in {0, 1} /\ (One(v, d) = 1 <=> v = d)
BY DEF References, One

\* The messages stay, and so bindings come and go as references do.
LEMMA ReferencesMove ==
    ASSUME LInv, pending' = pending, NEW d \in Chan, NEW n \in Int,
           Cardinality(Bindings(held, d))' = Cardinality(Bindings(held, d)) + n
    PROVE  IsFiniteSet(Messages(pending, d)') /\ References(d)' = References(d) + n
<1>1. Messages(pending, d)' = Messages(pending, d)
  BY Kept
<1>2. IsFiniteSet(Messages(pending, d)')
  BY <1>1, Facts
<1>3. /\ References(d) = Cardinality(Bindings(held, d)) + Cardinality(Messages(pending, d))
      /\ References(d)' = Cardinality(Bindings(held, d))' + Cardinality(Messages(pending, d))'
  BY DEF References
<1>4. Cardinality(Bindings(held, d)) \in Nat /\ Cardinality(Messages(pending, d)) \in Nat
  BY Facts
<1> QED BY <1>1, <1>2, <1>3, <1>4

\* A reference more.
LEMMA OneReferenceMore ==
    ASSUME LInv, NEW c \in Chan, pending' = pending,
           \A d \in Chan : Cardinality(Bindings(held, d))' = Cardinality(Bindings(held, d)) + One(c, d)
    PROVE  \A d \in Chan : /\ IsFiniteSet(Messages(pending, d)')
                           /\ References(d)' = References(d) + One(c, d)
<1> SUFFICES ASSUME NEW d \in Chan
             PROVE  /\ IsFiniteSet(Messages(pending, d)')
                    /\ References(d)' = References(d) + One(c, d)
  OBVIOUS
<1>1. One(c, d) \in Int
  BY DEF One
<1> QED BY <1>1, ReferencesMove

\* A reference less.
LEMMA OneReferenceLess ==
    ASSUME LInv, NEW c \in Chan, pending' = pending,
           \A d \in Chan : Cardinality(Bindings(held, d))' = Cardinality(Bindings(held, d)) - One(c, d)
    PROVE  \A d \in Chan : /\ IsFiniteSet(Messages(pending, d)')
                           /\ References(d)' = References(d) - One(c, d)
<1> SUFFICES ASSUME NEW d \in Chan
             PROVE  /\ IsFiniteSet(Messages(pending, d)')
                    /\ References(d)' = References(d) - One(c, d)
  OBVIOUS
<1>1. One(c, d) \in Int /\ -One(c, d) \in Int
  BY DEF One
<1>2. /\ Cardinality(Bindings(held, d)) \in Nat /\ References(d) \in Nat
      /\ Cardinality(Bindings(held, d))' = Cardinality(Bindings(held, d)) + (-One(c, d))
  BY <1>1, Facts
<1>3. IsFiniteSet(Messages(pending, d)') /\ References(d)' = References(d) + (-One(c, d))
  BY <1>1, <1>2, ReferencesMove
<1> QED BY <1>1, <1>2, <1>3

\* The counter of one channel goes up.
LEMMA CountedUp ==
    ASSUME refcnt \in [Chan -> Nat], NEW c \in Chan, refcnt' = [refcnt EXCEPT ![c] = refcnt[c] + 1]
    PROVE  refcnt' \in [Chan -> Nat] /\ \A d \in Chan : refcnt'[d] = refcnt[d] + One(c, d)
<1>1. refcnt[c] \in Nat /\ refcnt[c] + 1 \in Nat
  OBVIOUS
<1>2. refcnt' \in [Chan -> Nat]
  BY <1>1
<1>3. ASSUME NEW d \in Chan PROVE refcnt'[d] = refcnt[d] + One(c, d)
  <2>1. refcnt[d] \in Nat
    OBVIOUS
  <2> QED BY <2>1 DEF One
<1> QED BY <1>2, <1>3

\* A step that changes nothing the invariant speaks of.
LEMMA NothingMoves ==
    ASSUME LInv, UNCHANGED <<life, refcnt, registered, pending, held, copying, loaded, stack>>
    PROVE  CountsExact' /\ AllAlive' /\ ReleasedByOne' /\ CopiesCurrent'
<1>1. CountsExact /\ AllAlive /\ ReleasedByOne /\ CopiesCurrent
  BY DEF LInv, LifetimeInv
<1>2. CountsExact'
  BY <1>1 DEF CountsExact, References
<1>3. AllAlive'
  BY <1>1 DEF AllAlive, References, Activations, Activation
<1>4. ReleasedByOne'
  BY <1>1 DEF ReleasedByOne, Activations, Activation
<1>5. CopiesCurrent'
  BY <1>1 DEF CopiesCurrent, Holds, Releasing
<1> QED BY <1>2, <1>3, <1>4, <1>5

\* What is being released is a channel.
LEMMA InChan ==
    ASSUME LInv PROVE \A a \in Activations : Activation(a).ch \in Chan
<1>1. SUFFICES ASSUME NEW a \in Activations PROVE Activation(a).ch \in Chan
  OBVIOUS
<1>2. PICK t \in Owner, i \in Nat : i \in 1..Len(stack[t]) /\ a = <<t, i>>
  BY ActivationPlaces
<1>3. stack[t] \in Seq(ActType)
  BY Facts
<1>4. stack[t][i] \in ActType
  BY <1>2, <1>3
<1> QED BY <1>2, <1>4, ActivationPlaces DEF ActType

\* An activation more on t's stack: the others are one place further down.
Down(t, b) == IF b[1] = t THEN <<t, b[2] + 1>> ELSE b

LEMMA Pushed ==
    ASSUME LInv, NEW t \in Owner, NEW e \in ActType,
           stack' = [stack EXCEPT ![t] = <<e>> \o stack[t]]
    PROVE  /\ stack' \in [Owner -> Seq(ActType)]
           /\ \A a \in Activations' :
                 \/ a = <<t, 1>> /\ Activation(a)' = e
                 \/ \E b \in Activations : a = Down(t, b) /\ Activation(a)' = Activation(b)
<1>1. /\ stack[t] \in Seq(ActType) /\ <<e>> \in Seq(ActType)
      /\ stack'[t] = <<e>> \o stack[t]
      /\ \A s \in Owner \ {t} : stack'[s] = stack[s]
  BY Facts
<1>2. /\ Len(stack[t]) \in Nat /\ Len(stack'[t]) = Len(stack[t]) + 1
      /\ stack'[t] \in Seq(ActType)
      /\ stack'[t][1] = e
      /\ \A i \in 2..Len(stack'[t]) : stack'[t][i] = stack[t][i - 1]
  BY <1>1
<1>3. stack' \in [Owner -> Seq(ActType)]
  BY <1>1, <1>2, Facts
<1>4. ASSUME NEW a \in Activations'
      PROVE  \/ a = <<t, 1>> /\ Activation(a)' = e
             \/ \E b \in Activations : a = Down(t, b) /\ Activation(a)' = Activation(b)
  <2>1. PICK s \in Owner, i \in Nat : i \in 1..Len(stack'[s]) /\ a = <<s, i>>
    BY DEF Activations
  <2>2. Activation(a)' = stack'[s][i]
    BY <2>1 DEF Activation
  <2>3. CASE s # t
    <3>1. a \in Activations /\ Activation(a) = stack[s][i]
      BY <1>1, <2>1, <2>3, ActivationPlaces
    <3>2. a = Down(t, a)
      BY <2>1, <2>3 DEF Down
    <3> QED BY <1>1, <2>2, <2>3, <3>1, <3>2
  <2>4. CASE s = t /\ i = 1
    BY <1>2, <2>1, <2>2, <2>4
  <2>5. CASE s = t /\ i # 1
    <3>1. i - 1 \in Nat /\ i - 1 \in 1..Len(stack[t]) /\ stack'[t][i] = stack[t][i - 1]
      BY <1>2, <2>1, <2>5
    <3>2. PICK j \in Nat : j = i - 1
      BY <3>1
    <3>3. <<t, j>> \in Activations /\ Activation(<<t, j>>) = stack[t][j]
      BY <3>1, <3>2, ActivationPlaces
    <3>4. a = Down(t, <<t, j>>)
      BY <2>1, <2>5, <3>2 DEF Down
    <3> QED BY <2>2, <2>5, <3>1, <3>2, <3>3, <3>4
  <2> QED BY <2>3, <2>4, <2>5
<1> QED BY <1>3, <1>4

\* A step that neither makes, frees nor releases a channel, moves the count of
\* each with its references and revives none.
LEMMA Moved ==
    ASSUME LInv,
           UNCHANGED <<life, registered, stack>>,
           refcnt' \in [Chan -> Nat],
           \A d \in Chan : refcnt'[d] = References(d)',
           \A d \in Chan : refcnt'[d] > 0 => refcnt[d] > 0
    PROVE  CountsExact' /\ AllAlive' /\ ReleasedByOne'
<1>1. CountsExact'
  BY DEF CountsExact
<1>2. Activations' = Activations /\ \A a : Activation(a)' = Activation(a)
  BY DEF Activations, Activation
<1>3. /\ \A c \in Chan : References(c) > 0 => life[c] = "live" /\ c \in registered
      /\ \A c \in registered : life[c] = "live"
      /\ \A a \in Activations : life[Activation(a).ch] = "live"
  BY DEF LInv, LifetimeInv, AllAlive
<1>4. /\ \A a \in Activations : /\ refcnt[Activation(a).ch] = 0
                                /\ Activation(a).at = "drain" => Activation(a).ch \notin registered
      /\ \A a, b \in Activations : Activation(a).ch = Activation(b).ch => a = b
  BY DEF LInv, LifetimeInv, ReleasedByOne
<1>5. \A a \in Activations : Activation(a).ch \in Chan
  BY InChan
<1>6. AllAlive'
  <2>1. \A c \in Chan : References(c)' > 0 => life'[c] = "live" /\ c \in registered'
    BY <1>3, Facts
  <2>2. \A c \in registered' : life'[c] = "live"
    BY <1>3
  <2>3. \A a \in Activations' : life'[Activation(a)'.ch] = "live"
    BY <1>2, <1>3
  <2> QED BY <2>1, <2>2, <2>3 DEF AllAlive
<1>7. ReleasedByOne'
  <2>1. \A a \in Activations : refcnt'[Activation(a).ch] = 0
    BY <1>4, <1>5
  <2>2. \A a \in Activations' : /\ refcnt'[Activation(a)'.ch] = 0
                                /\ Activation(a)'.at = "drain" => Activation(a)'.ch \notin registered'
    BY <1>2, <1>4, <2>1
  <2>3. \A a, b \in Activations' : Activation(a)'.ch = Activation(b)'.ch => a = b
    BY <1>2, <1>4
  <2> QED BY <2>2, <2>3 DEF ReleasedByOne
<1> QED BY <1>1, <1>6, <1>7

\* elem_release gives up one reference; the last one starts an activation.
LEMMA Dropped ==
    ASSUME LInv, NEW t \in Owner, NEW v \in Chan \cup {Plain},
           v \in Chan => refcnt[v] > 0,
           DropValue(t, v, stack[t]),
           UNCHANGED <<life, registered>>,
           \A d \in Chan : References(d)' = References(d) - One(v, d)
    PROVE  /\ refcnt' \in [Chan -> Nat] /\ stack' \in [Owner -> Seq(ActType)]
           /\ \A d \in Chan : refcnt'[d] = refcnt[d] - One(v, d)
           /\ CountsExact' /\ AllAlive' /\ ReleasedByOne'
<1>1. refcnt' \in [Chan -> Nat] /\ \A d \in Chan : refcnt'[d] = refcnt[d] - One(v, d)
  <2>0. refcnt \in [Chan -> Nat]
    BY Facts
  <2>1. CASE v = Plain
    <3>1. refcnt' = refcnt /\ \A d \in Chan : d # v
      BY <2>1, LifetimeAssumption DEF DropValue
    <3> QED BY <2>0, <3>1 DEF One
  <2>2. CASE v # Plain
    <3>1. v \in Chan /\ refcnt[v] \in Nat /\ refcnt[v] > 0 /\ refcnt' = [refcnt EXCEPT ![v] = @ - 1]
      BY <2>0, <2>2 DEF DropValue
    <3>2. refcnt[v] - 1 \in Nat
      BY <3>1
    <3>3. refcnt' \in [Chan -> Nat] /\ refcnt'[v] = refcnt[v] - 1 /\ \A d \in Chan \ {v} : refcnt'[d] = refcnt[d]
      BY <2>0, <3>1, <3>2
    <3>4. \A d \in Chan : refcnt'[d] = refcnt[d] - One(v, d)
      BY <2>0, <3>3 DEF One
    <3> QED BY <3>3, <3>4
  <2> QED BY <2>1, <2>2
<1>2. \A d \in Chan : refcnt'[d] = References(d)'
  BY <1>1, Facts
<1>3. CASE v = Plain \/ ~WasLast(v)
  <2>1. stack' = stack
    BY <1>3, Facts DEF DropValue
  <2>2. ASSUME NEW d \in Chan, refcnt'[d] > 0 PROVE refcnt[d] > 0
    <3>1. refcnt[d] \in Nat /\ refcnt'[d] = refcnt[d] - One(v, d)
      BY <1>1, Facts
    <3> QED BY <2>2, <3>1 DEF One
  <2> QED BY <1>1, <1>2, <2>1, <2>2, Moved, Facts
<1>4. CASE v # Plain /\ WasLast(v)
  <2> DEFINE e == [ch |-> v, at |-> "unlink"]
  <2>1. v \in Chan /\ e \in ActType /\ refcnt[v] = 1 /\ refcnt'[v] = 0
    BY <1>1, <1>4 DEF ActType, WasLast, One
  <2>2. stack' = [stack EXCEPT ![t] = <<e>> \o stack[t]]
    BY <1>4 DEF DropValue
  <2>3. life[v] = "live" /\ v \in registered
    BY <2>1, Facts DEF LInv, LifetimeInv, AllAlive
  <2>4. e.ch = v /\ e.at = "unlink"
    OBVIOUS
  <2> HIDE DEF e
  <2>5. /\ stack' \in [Owner -> Seq(ActType)]
        /\ \A a \in Activations' :
              \/ a = <<t, 1>> /\ Activation(a)' = e
              \/ \E b \in Activations : a = Down(t, b) /\ Activation(a)' = Activation(b)
    BY <2>1, <2>2, Pushed
  <2>6. /\ \A a \in Activations : /\ refcnt[Activation(a).ch] = 0
                                  /\ Activation(a).at = "drain" => Activation(a).ch \notin registered
        /\ \A a, b \in Activations : Activation(a).ch = Activation(b).ch => a = b
        /\ \A a \in Activations : life[Activation(a).ch] = "live"
    BY DEF LInv, LifetimeInv, ReleasedByOne, AllAlive
  <2>7. \A a \in Activations : Activation(a).ch # v
    BY <2>1, <2>6
  <2>8. \A a \in Activations : Activation(a).ch \in Chan
    BY InChan
  <2>9. \A a \in Activations : refcnt'[Activation(a).ch] = 0
    BY <1>1, <2>6, <2>7, <2>8 DEF One
  <2>10. CountsExact'
    BY <1>2 DEF CountsExact
  <2>11. AllAlive'
    <3>1. \A c \in Chan : References(c)' > 0 => life'[c] = "live" /\ c \in registered'
      <4>1. ASSUME NEW c \in Chan, References(c)' > 0 PROVE References(c) > 0
        <5>1. References(c) \in Nat /\ References(c)' = References(c) - One(v, c)
          BY Facts
        <5> QED BY <4>1, <5>1 DEF One
      <4> QED BY <4>1 DEF LInv, LifetimeInv, AllAlive
    <3>2. \A c \in registered' : life'[c] = "live"
      BY DEF LInv, LifetimeInv, AllAlive
    <3>3. \A a \in Activations' : life'[Activation(a)'.ch] = "live"
      BY <2>3, <2>4, <2>5, <2>6
    <3> QED BY <3>1, <3>2, <3>3 DEF AllAlive
  <2>12. ReleasedByOne'
    <3>1. ASSUME NEW a \in Activations'
          PROVE  /\ refcnt'[Activation(a)'.ch] = 0
                 /\ Activation(a)'.at = "drain" => Activation(a)'.ch \notin registered'
      <4>1. CASE Activation(a)' = e
        <5>1. Activation(a)'.ch = v /\ Activation(a)'.at # "drain"
          BY ONLY <2>4, <4>1
        <5> QED BY ONLY <2>1, <5>1
      <4>2. CASE \E b \in Activations : Activation(a)' = Activation(b)
        <5>1. PICK b \in Activations : Activation(a)' = Activation(b)
          BY <4>2
        <5>2. registered' = registered
          OBVIOUS
        <5> QED BY ONLY <2>6, <2>9, <5>1, <5>2
      <4> QED BY <2>5, <4>1, <4>2
    <3>2. ASSUME NEW a \in Activations', NEW b \in Activations',
                 Activation(a)'.ch = Activation(b)'.ch
          PROVE  a = b
      <4>1. CASE \E f \in Activations : a = Down(t, f) /\ Activation(a)' = Activation(f)
        <5>1. PICK f \in Activations : a = Down(t, f) /\ Activation(a)' = Activation(f)
          BY <4>1
        <5>2. Activation(a)'.ch # v
          BY <2>7, <5>1
        <5>3. PICK g \in Activations : b = Down(t, g) /\ Activation(b)' = Activation(g)
          BY <2>4, <2>5, <3>2, <5>2
        <5>4. Activation(f).ch = Activation(g).ch
          BY <3>2, <5>1, <5>3
        <5>5. f = g
          BY <2>6, <5>4
        <5> QED BY <5>1, <5>3, <5>5
      <4>2. CASE a = <<t, 1>> /\ Activation(a)' = e
        <5>1. Activation(b)'.ch = v
          BY <2>4, <3>2, <4>2
        <5>2. ~\E g \in Activations : b = Down(t, g) /\ Activation(b)' = Activation(g)
          BY <2>7, <5>1
        <5> QED BY <2>5, <4>2, <5>2
      <4> QED BY <2>5, <4>1, <4>2
    <3> QED BY <3>1, <3>2 DEF ReleasedByOne
  <2> QED BY <1>1, <2>5, <2>10, <2>11, <2>12
<1> QED BY <1>3, <1>4

\* Until a copy is overtaken, who writes the count of a channel knows that no
\* other thread is copying a binding of it.
LEMMA NobodyElseCopies ==
    ASSUME overtaken' = FALSE, NEW t \in Owner, NEW c \in Chan, Touches(t, c)
    PROVE  \A s \in Owner \ {t} : copying[s] # c
BY DEF Touches

\* Dropping a value of t concerns the activations of t only.
LEMMA OthersStay ==
    ASSUME LInv, NEW t \in Owner, NEW v, NEW rest, DropValue(t, v, rest)
    PROVE  \A s \in Owner \ {t} : stack'[s] = stack[s]
<1>1. stack \in [Owner -> Seq(ActType)]
  BY Facts
<1>2. \E e : stack' = [stack EXCEPT ![t] = e]
  BY DEF DropValue
<1> QED BY <1>1, <1>2

\* A thread that copies a binding does nothing else.
LEMMA NoCopier ==
    ASSUME LInv, NEW t \in Owner, stack[t] # <<>>
    PROVE  copying[t] = Nil
BY DEF LInv, LifetimeInv, CopiesCurrent, Releasing

LEMMA Undisturbed ==
    ASSUME LInv, UNCHANGED copyVars, held' \in HeldType, NEW t \in Owner, copying[t] = Nil,
           \A s \in Owner \ {t} : stack'[s] = stack[s],
           \A s \in Owner \ {t}, d \in Chan : copying[s] = d =>
              refcnt'[d] = refcnt[d] /\ held'[s][d] >= held[s][d]
    PROVE  CopiesCurrent'
<1>1. SUFFICES ASSUME NEW s \in Owner, copying[s] # Nil
               PROVE  /\ loaded[s] = refcnt'[copying[s]]
                      /\ held'[s][copying[s]] > 0
                      /\ stack'[s] = <<>>
  BY DEF CopiesCurrent, Holds, Releasing, copyVars
<1>2. copying[s] \in Chan /\ s # t
  BY <1>1 DEF LInv, LifetimeInv, LifetimeTypeOK
<1>3. loaded[s] = refcnt[copying[s]] /\ held[s][copying[s]] > 0 /\ stack[s] = <<>>
  BY <1>1 DEF LInv, LifetimeInv, CopiesCurrent, Holds, Releasing
<1>4. PICK d \in Chan : d = copying[s]
  BY <1>2
<1>5. refcnt'[d] = refcnt[d] /\ held'[s][d] >= held[s][d]
  BY <1>2, <1>4
<1>6. held[s][d] \in Nat /\ held'[s][d] \in Nat
  BY Facts DEF HeldType
<1>7. held'[s][d] > 0
  BY <1>3, <1>4, <1>5, <1>6
<1> QED BY <1>2, <1>3, <1>4, <1>5, <1>7

-----------------------------------------------------------------------------
(* Every step keeps the invariant *)

LEMMA Assembled ==
    ASSUME LifetimeTypeOK', CountsExact', AllAlive', ReleasedByOne', CopiesCurrent', Finite'
    PROVE  LInv'
BY DEF LInv, LifetimeInv

LEMMA NewStep ==
    ASSUME LInv, overtaken' = FALSE, NEW t \in Owner, NEW c \in Chan, New(t, c)
    PROVE  LInv'
<1>1. References(c) = 0 /\ refcnt[c] = 0
  <2>1. life[c] # "live"
    BY DEF New
  <2>2. ~(References(c) > 0)
    BY <2>1 DEF LInv, LifetimeInv, AllAlive
  <2> QED BY <2>2, Facts
<1>2. ASSUME NEW s \in Owner PROVE held[s][c] = 0
  <2>1. held[s][c] \in Nat /\ held \in HeldType
    BY Facts DEF HeldType
  <2>2. ~(held[s][c] > 0)
    BY <1>1, Counted
  <2> QED BY <2>1, <2>2
<1>3. held' = Get(held, t, c)
  <2>1. held[t][c] + 1 = 1 /\ c # Plain
    BY <1>2
  <2>2. held' = [held EXCEPT ![t][c] = 1]
    BY DEF New
  <2> QED BY <2>1, <2>2 DEF Get
<1>4. /\ held' \in HeldType
      /\ \A s \in Owner, d \in Chan :
            held'[s][d] = held[s][d] + (IF s = t THEN One(c, d) ELSE 0)
      /\ \A d \in Chan : /\ IsFiniteSet(Bindings(held, d)')
                         /\ Cardinality(Bindings(held, d))' = Cardinality(Bindings(held, d)) + One(c, d)
  BY <1>3, Got
<1>7. pending' = pending
  BY DEF New
<1>8. \A d \in Chan : /\ IsFiniteSet(Bindings(held, d)') /\ IsFiniteSet(Messages(pending, d)')
                      /\ References(d)' = References(d) + One(c, d)
  BY <1>4, <1>7, OneReferenceMore
<1>9. \A d \in Chan : refcnt'[d] = refcnt[d] + One(c, d)
  BY <1>1, Facts DEF New, One
<1>10. LifetimeTypeOK'
  <2>1. refcnt' \in [Chan -> Nat]
    BY Facts DEF New
  <2> QED BY <1>4, <2>1 DEF New, LInv, LifetimeInv, LifetimeTypeOK, copyVars, HeldType
<1>11. CountsExact'
  BY <1>8, <1>9, Facts DEF CountsExact
<1>12. Activations' = Activations /\ \A a : Activation(a)' = Activation(a)
  BY DEF New, Activations, Activation
<1>13. \A a \in Activations : Activation(a).ch # c /\ Activation(a).ch \in Chan
  BY InChan DEF New, LInv, LifetimeInv, AllAlive
<1>14. /\ \A d \in Chan \ {c} : life'[d] = life[d]
       /\ life'[c] = "live" /\ registered' = registered \cup {c}
       /\ registered \in SUBSET Chan
  BY DEF New, LInv, LifetimeInv, LifetimeTypeOK
<1>15. AllAlive'
  <2>1. \A d \in Chan \ {c} : References(d)' = References(d)
    BY <1>8, Facts DEF One
  <2>2. \A d \in Chan : References(d)' > 0 => life'[d] = "live" /\ d \in registered'
    BY <1>14, <2>1 DEF LInv, LifetimeInv, AllAlive
  <2>3. \A d \in registered' : life'[d] = "live"
    BY <1>14 DEF LInv, LifetimeInv, AllAlive
  <2>4. \A a \in Activations' : life'[Activation(a)'.ch] = "live"
    BY <1>12, <1>13, <1>14 DEF LInv, LifetimeInv, AllAlive
  <2> QED BY <2>2, <2>3, <2>4 DEF AllAlive
<1>16. ReleasedByOne'
  <2>1. /\ \A a \in Activations : /\ refcnt[Activation(a).ch] = 0
                                  /\ Activation(a).at = "drain" => Activation(a).ch \notin registered
        /\ \A a, b \in Activations : Activation(a).ch = Activation(b).ch => a = b
    BY DEF LInv, LifetimeInv, ReleasedByOne
  <2>2. \A a \in Activations : refcnt'[Activation(a).ch] = 0
    BY <1>9, <1>13, <2>1 DEF One
  <2>3. \A a \in Activations' : /\ refcnt'[Activation(a)'.ch] = 0
                                /\ Activation(a)'.at = "drain" => Activation(a)'.ch \notin registered'
    BY <1>12, <1>13, <1>14, <2>1, <2>2
  <2>4. \A a, b \in Activations' : Activation(a)'.ch = Activation(b)'.ch => a = b
    BY <1>12, <2>1
  <2> QED BY <2>3, <2>4 DEF ReleasedByOne
<1>17. CopiesCurrent'
  <2>1. \A s \in Owner : copying[s] # c
    <3>1. \A s \in Owner : copying[s] # Nil => held[s][copying[s]] > 0
      BY DEF LInv, LifetimeInv, CopiesCurrent, Holds
    <3> QED BY <1>2, <3>1
  <2>2. \A d \in Chan \ {c} : refcnt'[d] = refcnt[d]
    BY Facts DEF New
  <2>3. \A u \in Owner, d \in Chan \ {c} : held'[u][d] >= held[u][d]
    BY Facts DEF New, HeldType
  <2>4. UNCHANGED copyVars /\ stack' = stack /\ copying[t] = Nil
    BY DEF New, Idle
  <2>5. \A s \in Owner \ {t}, d \in Chan : copying[s] = d =>
           refcnt'[d] = refcnt[d] /\ held'[s][d] >= held[s][d]
    BY <2>1, <2>2, <2>3
  <2> QED BY <1>4, <2>4, <2>5, Undisturbed
<1>18. Finite'
  BY <1>8 DEF Finite
<1> QED BY <1>10, <1>11, <1>15, <1>16, <1>17, <1>18, Assembled

LEMMA CloneStep ==
    ASSUME LInv, overtaken' = FALSE, NEW t \in Owner, NEW u \in Owner, NEW c \in Chan, Clone(t, u, c)
    PROVE  LInv'
<1>1. held[t][c] > 0 /\ copying[t] = Nil /\ refcnt[c] > 0
  BY Counted DEF Clone, Idle, Holds
<1>2. held' = Get(held, u, c) /\ pending' = pending
  BY DEF Clone, Get
<1>3. /\ held' \in HeldType
      /\ \A s \in Owner, d \in Chan :
            held'[s][d] = held[s][d] + (IF s = u THEN One(c, d) ELSE 0)
      /\ \A d \in Chan : /\ IsFiniteSet(Bindings(held, d)')
                         /\ Cardinality(Bindings(held, d))' = Cardinality(Bindings(held, d)) + One(c, d)
  BY <1>2, Got
<1>4. \A d \in Chan : /\ IsFiniteSet(Messages(pending, d)')
                      /\ References(d)' = References(d) + One(c, d)
  BY <1>2, <1>3, OneReferenceMore
<1>5. refcnt' \in [Chan -> Nat] /\ \A d \in Chan : refcnt'[d] = refcnt[d] + One(c, d)
  <2>1. refcnt \in [Chan -> Nat] /\ refcnt' = [refcnt EXCEPT ![c] = refcnt[c] + 1]
    BY Facts DEF Clone
  <2> QED BY <2>1, CountedUp
<1>6. CountsExact' /\ AllAlive' /\ ReleasedByOne'
  <2>1. \A d \in Chan : refcnt'[d] = References(d)'
    BY <1>4, <1>5, Facts
  <2>2. \A d \in Chan : refcnt'[d] > 0 => refcnt[d] > 0
    <3>1. \A d \in Chan : refcnt[d] \in Nat
      BY Facts
    <3> QED BY <1>1, <1>5, <3>1 DEF One
  <2>3. UNCHANGED <<life, registered, stack>>
    BY DEF Clone
  <2> QED BY <1>5, <2>1, <2>2, <2>3, Moved
<1>7. LifetimeTypeOK'
  BY <1>3, <1>5 DEF Clone, LInv, LifetimeInv, LifetimeTypeOK, copyVars, HeldType
<1>8. CopiesCurrent'
  <2>1. \A s \in Owner \ {t} : copying[s] # c
    BY NobodyElseCopies DEF Clone
  <2>2. \A s \in Owner, d \in Chan : held[s][d] \in Nat /\ refcnt[d] \in Nat
    BY Facts DEF HeldType
  <2>3. \A s \in Owner \ {t}, d \in Chan : copying[s] = d =>
           refcnt'[d] = refcnt[d] /\ held'[s][d] >= held[s][d]
    BY <1>3, <1>5, <2>1, <2>2 DEF One
  <2>4. UNCHANGED copyVars /\ stack' = stack
    BY DEF Clone
  <2> QED BY <1>1, <1>3, <2>3, <2>4, Undisturbed
<1>9. Finite'
  BY <1>3, <1>4 DEF Finite
<1> QED BY <1>6, <1>7, <1>8, <1>9, Assembled

LEMMA ReleaseStep ==
    ASSUME LInv, overtaken' = FALSE, NEW t \in Owner, NEW c \in Chan, Release(t, c)
    PROVE  LInv'
<1>1. /\ held[t][c] > 0 /\ copying[t] = Nil /\ refcnt[c] > 0
      /\ stack[t] = <<>> /\ c # Plain
  BY Counted DEF Release, Idle, Holds, Releasing
<1>2. held' = Give(held, t, c) /\ pending' = pending
  BY <1>1 DEF Release, Give
<1>3. /\ held' \in HeldType
      /\ \A s \in Owner, d \in Chan :
            held'[s][d] = held[s][d] - (IF s = t THEN One(c, d) ELSE 0)
      /\ \A d \in Chan : /\ IsFiniteSet(Bindings(held, d)')
                         /\ Cardinality(Bindings(held, d))' = Cardinality(Bindings(held, d)) - One(c, d)
  BY <1>1, <1>2, Gave
<1>4. \A d \in Chan : /\ IsFiniteSet(Messages(pending, d)')
                      /\ References(d)' = References(d) - One(c, d)
  BY <1>2, <1>3, OneReferenceLess
<1>5. /\ refcnt' \in [Chan -> Nat] /\ stack' \in [Owner -> Seq(ActType)]
      /\ \A d \in Chan : refcnt'[d] = refcnt[d] - One(c, d)
      /\ CountsExact' /\ AllAlive' /\ ReleasedByOne'
  <2>1. DropValue(t, c, stack[t]) /\ UNCHANGED <<life, registered>>
    BY <1>1 DEF Release
  <2> QED BY <1>1, <1>4, <2>1, Dropped
<1>6. LifetimeTypeOK'
  BY <1>2, <1>3, <1>5 DEF Release, LInv, LifetimeInv, LifetimeTypeOK, copyVars, HeldType, ActType
<1>7. CopiesCurrent'
  <2>1. \A s \in Owner \ {t} : copying[s] # c
    BY <1>1, NobodyElseCopies DEF Release, DropValue
  <2>2. \A s \in Owner, d \in Chan : held[s][d] \in Nat /\ refcnt[d] \in Nat
    BY Facts DEF HeldType
  <2>3. \A s \in Owner \ {t}, d \in Chan : copying[s] = d =>
           refcnt'[d] = refcnt[d] /\ held'[s][d] >= held[s][d]
    BY <1>3, <1>5, <2>1, <2>2 DEF One
  <2>4. UNCHANGED copyVars
    BY DEF Release
  <2>5. DropValue(t, c, <<>>)
    BY DEF Release
  <2>6. \A s \in Owner \ {t} : stack'[s] = stack[s]
    BY <2>5, OthersStay
  <2> QED BY <1>1, <1>3, <2>3, <2>4, <2>6, Undisturbed
<1>8. Finite'
  BY <1>3, <1>4 DEF Finite
<1> QED BY <1>5, <1>6, <1>7, <1>8, Assembled

LEMMA CopyLoadStep ==
    ASSUME LInv, overtaken' = FALSE, NEW t \in Owner, NEW c \in Chan, CopyLoad(t, c)
    PROVE  LInv'
<1>1. /\ UNCHANGED <<life, refcnt, registered, pending, held, stack, mutex>>
      /\ copying' = [copying EXCEPT ![t] = c] /\ loaded' = [loaded EXCEPT ![t] = refcnt[c]]
      /\ Holds(t, c) /\ ~Releasing(t)
  BY DEF CopyLoad, Idle
<1>2. Finite'
  BY <1>1 DEF LInv, Finite
<1>3. LifetimeTypeOK'
  BY <1>1, Facts DEF LInv, LifetimeInv, LifetimeTypeOK
<1>4. CountsExact' /\ AllAlive' /\ ReleasedByOne'
  <2>1. \A d \in Chan : refcnt'[d] = References(d)'
    BY <1>1, Facts, Kept DEF References
  <2> QED BY <1>1, <2>1, Facts, Moved
<1>5. CopiesCurrent'
  <2>1. /\ \A s \in Owner \ {t} : copying'[s] = copying[s] /\ loaded'[s] = loaded[s]
        /\ copying'[t] = c /\ loaded'[t] = refcnt[c]
    BY <1>1 DEF LInv, LifetimeInv, LifetimeTypeOK
  <2>2. \A d, s : Holds(s, d)' = Holds(s, d) /\ Releasing(s)' = Releasing(s)
    BY <1>1 DEF Holds, Releasing
  <2>3. SUFFICES ASSUME NEW s \in Owner, copying'[s] # Nil
                 PROVE  /\ loaded'[s] = refcnt[copying'[s]]
                        /\ Holds(s, copying'[s]) /\ ~Releasing(s)
    BY <1>1 DEF CopiesCurrent, Holds, Releasing
  <2>4. CASE s = t
    BY <1>1, <2>1, <2>4
  <2>5. CASE s # t
    BY <2>1, <2>3, <2>5 DEF LInv, LifetimeInv, CopiesCurrent
  <2> QED BY <2>4, <2>5
<1> QED BY <1>2, <1>3, <1>4, <1>5, Assembled

LEMMA CopyStoreStep ==
    ASSUME LInv, overtaken' = FALSE, NEW t \in Owner, CopyStore(t)
    PROVE  LInv'
<1>1. PICK c \in Chan : c = copying[t]
  BY DEF CopyStore, LInv, LifetimeInv, LifetimeTypeOK
<1>2. c # Nil /\ c # Plain
  OBVIOUS
<1>3. loaded[t] = refcnt[c] /\ held[t][c] > 0
  BY <1>1, <1>2 DEF LInv, LifetimeInv, CopiesCurrent, Holds
<1>4. /\ refcnt' = [refcnt EXCEPT ![c] = refcnt[c] + 1]
      /\ held' = Get(held, t, c) /\ pending' = pending
      /\ copying' = [copying EXCEPT ![t] = Nil] /\ loaded' = [loaded EXCEPT ![t] = 0]
      /\ UNCHANGED <<life, registered, stack, mutex>>
  BY <1>1, <1>2, <1>3 DEF CopyStore, Get
<1>5. /\ held' \in HeldType
      /\ \A s \in Owner, d \in Chan :
            held'[s][d] = held[s][d] + (IF s = t THEN One(c, d) ELSE 0)
      /\ \A d \in Chan : /\ IsFiniteSet(Bindings(held, d)')
                         /\ Cardinality(Bindings(held, d))' = Cardinality(Bindings(held, d)) + One(c, d)
  BY <1>4, Got
<1>6. \A d \in Chan : /\ IsFiniteSet(Messages(pending, d)')
                      /\ References(d)' = References(d) + One(c, d)
  BY <1>4, <1>5, OneReferenceMore
<1>7. refcnt' \in [Chan -> Nat] /\ \A d \in Chan : refcnt'[d] = refcnt[d] + One(c, d)
  BY <1>4, Facts, CountedUp
<1>8. \A s \in Owner, d \in Chan : held[s][d] \in Nat /\ refcnt[d] \in Nat
  BY Facts DEF HeldType
<1>9. CountsExact' /\ AllAlive' /\ ReleasedByOne'
  <2>1. \A d \in Chan : refcnt'[d] = References(d)'
    BY <1>6, <1>7, Facts
  <2>2. refcnt[c] > 0
    BY <1>3, Counted
  <2>3. \A d \in Chan : refcnt'[d] > 0 => refcnt[d] > 0
    BY <1>7, <1>8, <2>2 DEF One
  <2> QED BY <1>4, <1>7, <2>1, <2>3, Moved
<1>10. LifetimeTypeOK'
  BY <1>4, <1>5, <1>7 DEF LInv, LifetimeInv, LifetimeTypeOK, HeldType
<1>11. CopiesCurrent'
  <2>1. /\ \A s \in Owner \ {t} : copying'[s] = copying[s] /\ loaded'[s] = loaded[s]
        /\ copying'[t] = Nil
    BY <1>4 DEF LInv, LifetimeInv, LifetimeTypeOK
  <2>2. SUFFICES ASSUME NEW s \in Owner, copying'[s] # Nil
                 PROVE  /\ loaded'[s] = refcnt'[copying'[s]]
                        /\ held'[s][copying'[s]] > 0
                        /\ stack'[s] = <<>>
    BY DEF CopiesCurrent, Holds, Releasing
  <2>3. s # t /\ copying'[s] = copying[s] /\ loaded'[s] = loaded[s] /\ copying[s] # Nil
    BY <2>1, <2>2
  <2>4. PICK d \in Chan : d = copying[s]
    BY <2>3 DEF LInv, LifetimeInv, LifetimeTypeOK
  <2>5. loaded[s] = refcnt[d] /\ held[s][d] > 0 /\ stack[s] = <<>>
    BY <2>3, <2>4 DEF LInv, LifetimeInv, CopiesCurrent, Holds, Releasing
  <2>6. d # c
    <3>1. Touches(t, c)
      BY <1>1 DEF CopyStore
    <3> QED BY <2>3, <2>4, <3>1, NobodyElseCopies
  <2>7. refcnt'[d] = refcnt[d] /\ held'[s][d] = held[s][d]
    BY <1>5, <1>7, <1>8, <2>3, <2>6 DEF One
  <2> QED BY <1>4, <2>3, <2>4, <2>5, <2>7
<1>12. Finite'
  BY <1>5, <1>6 DEF Finite
<1> QED BY <1>9, <1>10, <1>11, <1>12, Assembled

\* A message moves: in with a reference its sender gives up, or out to a
\* receiver that gets it.  The count stays.
LEMMA SendStep ==
    ASSUME LInv, overtaken' = FALSE, NEW t \in Owner, NEW c \in Chan, NEW v \in Payload(c), Send(t, c, v)
    PROVE  LInv'
<1>1. /\ v \in Chan \cup {Plain} /\ (v = Plain \/ held[t][v] > 0) /\ copying[t] = Nil
      /\ held' = Give(held, t, v)
      /\ pending' = [pending EXCEPT ![c] = Append(@, v)]
      /\ UNCHANGED <<life, refcnt, registered, stack, mutex, copyVars>>
  BY DEF Send, Payload, CanGive, Holds, Idle
<1>2. /\ held' \in HeldType
      /\ \A s \in Owner, d \in Chan :
            held'[s][d] = held[s][d] - (IF s = t THEN One(v, d) ELSE 0)
      /\ \A d \in Chan : /\ IsFiniteSet(Bindings(held, d)')
                         /\ Cardinality(Bindings(held, d))' = Cardinality(Bindings(held, d)) - One(v, d)
  BY <1>1, Gave
<1>3. /\ pending' \in QueueType
      /\ \A d \in Chan : /\ IsFiniteSet(Messages(pending, d)')
                         /\ Cardinality(Messages(pending, d))'
                              = Cardinality(Messages(pending, d)) + One(v, d)
                         /\ v # d => Messages(pending, d)' = Messages(pending, d)
  BY <1>1, Queued
<1>4. ASSUME NEW d \in Chan PROVE References(d)' = References(d)
  <2>1. /\ References(d) = Cardinality(Bindings(held, d)) + Cardinality(Messages(pending, d))
        /\ References(d)' = Cardinality(Bindings(held, d))' + Cardinality(Messages(pending, d))'
        /\ Cardinality(Bindings(held, d)) \in Nat /\ Cardinality(Messages(pending, d)) \in Nat
    BY Facts, Kept
  <2>2. One(v, d) \in {0, 1}
    BY DEF One
  <2> QED BY <2>1, <2>2, <1>2, <1>3
<1>5. CountsExact' /\ AllAlive' /\ ReleasedByOne'
  BY <1>1, <1>4, Facts, Moved
<1>6. LifetimeTypeOK'
  BY <1>1, <1>2, <1>3 DEF LInv, LifetimeInv, LifetimeTypeOK, HeldType, QueueType, copyVars
<1>7. CopiesCurrent'
  <2>1. \A s \in Owner, d \in Chan : held[s][d] \in Nat
    BY Facts DEF HeldType
  <2>2. \A s \in Owner \ {t}, d \in Chan : held'[s][d] = held[s][d]
    BY <1>2, <2>1
  <2>3. \A s \in Owner \ {t}, d \in Chan : copying[s] = d =>
           refcnt'[d] = refcnt[d] /\ held'[s][d] >= held[s][d]
    BY <1>1, <2>1, <2>2
  <2> QED BY <1>1, <1>2, <2>3, Undisturbed
<1>8. Finite'
  BY <1>2, <1>3 DEF Finite
<1> QED BY <1>5, <1>6, <1>7, <1>8, Assembled

LEMMA RecvStep ==
    ASSUME LInv, overtaken' = FALSE, NEW t \in Owner, NEW c \in Chan, Recv(t, c)
    PROVE  LInv'
<1>1. /\ copying[t] = Nil /\ pending[c] # <<>>
      /\ held' = Get(held, t, Head(pending[c]))
      /\ pending' = [pending EXCEPT ![c] = Tail(@)]
      /\ UNCHANGED <<life, refcnt, registered, stack, mutex, copyVars>>
  BY DEF Recv, Idle
<1>2. /\ pending' \in QueueType /\ Head(pending[c]) \in Chan \cup {Plain}
      /\ \A d \in Chan : /\ IsFiniteSet(Messages(pending, d)')
                         /\ Cardinality(Messages(pending, d))'
                              = Cardinality(Messages(pending, d)) - One(Head(pending[c]), d)
                         /\ Messages(pending, d) = {} => Messages(pending, d)' = {}
  BY <1>1, Taken
<1>3. PICK v \in Chan \cup {Plain} : v = Head(pending[c])
  BY <1>2
<1>4. /\ held' \in HeldType
      /\ \A s \in Owner, d \in Chan :
            held'[s][d] = held[s][d] + (IF s = t THEN One(v, d) ELSE 0)
      /\ \A d \in Chan : /\ IsFiniteSet(Bindings(held, d)')
                         /\ Cardinality(Bindings(held, d))' = Cardinality(Bindings(held, d)) + One(v, d)
  BY <1>1, <1>3, Got
<1>5. ASSUME NEW d \in Chan PROVE References(d)' = References(d)
  <2>1. /\ References(d) = Cardinality(Bindings(held, d)) + Cardinality(Messages(pending, d))
        /\ References(d)' = Cardinality(Bindings(held, d))' + Cardinality(Messages(pending, d))'
        /\ Cardinality(Bindings(held, d)) \in Nat /\ Cardinality(Messages(pending, d)) \in Nat
    BY Facts, Kept
  <2>2. One(v, d) \in {0, 1}
    BY DEF One
  <2> QED BY <2>1, <2>2, <1>2, <1>3, <1>4
<1>6. CountsExact' /\ AllAlive' /\ ReleasedByOne'
  BY <1>1, <1>5, Facts, Moved
<1>7. LifetimeTypeOK'
  BY <1>1, <1>2, <1>4 DEF LInv, LifetimeInv, LifetimeTypeOK, HeldType, QueueType, copyVars
<1>8. CopiesCurrent'
  <2>1. \A s \in Owner, d \in Chan : held[s][d] \in Nat
    BY Facts DEF HeldType
  <2>2. \A s \in Owner \ {t}, d \in Chan : held'[s][d] = held[s][d]
    BY <1>4, <2>1
  <2>3. \A s \in Owner \ {t}, d \in Chan : copying[s] = d =>
           refcnt'[d] = refcnt[d] /\ held'[s][d] >= held[s][d]
    BY <1>1, <2>1, <2>2
  <2> QED BY <1>1, <1>4, <2>3, Undisturbed
<1>9. Finite'
  BY <1>2, <1>4 DEF Finite
<1> QED BY <1>6, <1>7, <1>8, <1>9, Assembled

LEMMA DropsDoneStep ==
    ASSUME LInv, overtaken' = FALSE, NEW t \in Owner, DropsDone(t)
    PROVE  LInv'
<1>1. mutex' = Nil /\ UNCHANGED <<life, refcnt, registered, pending, held, stack, copyVars>>
  BY DEF DropsDone
<1>2. LifetimeTypeOK' /\ Finite'
  BY <1>1 DEF LInv, LifetimeInv, LifetimeTypeOK, Finite, copyVars
<1>3. CountsExact' /\ AllAlive' /\ ReleasedByOne' /\ CopiesCurrent'
  BY <1>1, NothingMoves DEF copyVars
<1> QED BY <1>2, <1>3, Assembled

\* A step of t that drops v: what is left to show of it is how the places change,
\* and that the bindings of the others stay.
LEMMA DropStep ==
    ASSUME LInv, overtaken' = FALSE, NEW t \in Owner, NEW v \in Chan \cup {Plain},
           v \in Chan => refcnt[v] > 0,
           DropValue(t, v, stack[t]),
           UNCHANGED <<life, registered, copyVars>>,
           held' \in HeldType, pending' \in QueueType, mutex' \in Owner \cup {Nil},
           \A d \in Chan : /\ IsFiniteSet(Bindings(held, d)') /\ IsFiniteSet(Messages(pending, d)')
                           /\ References(d)' = References(d) - One(v, d),
           copying[t] = Nil,
           \A s \in Owner \ {t}, d \in Chan : held'[s][d] = held[s][d]
    PROVE  LInv'
<1>1. /\ refcnt' \in [Chan -> Nat] /\ stack' \in [Owner -> Seq(ActType)]
      /\ \A d \in Chan : refcnt'[d] = refcnt[d] - One(v, d)
      /\ CountsExact' /\ AllAlive' /\ ReleasedByOne'
  BY Dropped
<1>2. LifetimeTypeOK'
  BY <1>1 DEF LInv, LifetimeInv, LifetimeTypeOK, copyVars, HeldType, QueueType, ActType
<1>3. CopiesCurrent'
  <2>1. \A s \in Owner \ {t} : copying[s] \in Chan => copying[s] # v
    <3>1. CASE v = Plain
      BY <3>1
    <3>2. CASE v # Plain
      BY <3>2, NobodyElseCopies DEF DropValue
    <3> QED BY <3>1, <3>2
  <2>2. ASSUME NEW s \in Owner \ {t}, NEW d \in Chan, copying[s] = d
        PROVE  refcnt'[d] = refcnt[d] /\ held'[s][d] >= held[s][d]
    <3>1. One(v, d) = 0 /\ refcnt[d] \in Nat /\ held[s][d] \in Nat /\ held'[s][d] = held[s][d]
      BY <2>1, <2>2, Facts DEF One, HeldType
    <3> QED BY <1>1, <3>1
  <2>3. \A s \in Owner \ {t} : stack'[s] = stack[s]
    BY OthersStay
  <2> QED BY <2>2, <2>3, Undisturbed
<1>4. Finite'
  BY DEF Finite
<1> QED BY <1>1, <1>2, <1>3, <1>4, Assembled

LEMMA TrySendRefusedStep ==
    ASSUME LInv, overtaken' = FALSE, NEW t \in Owner, NEW c \in Chan, NEW v \in Payload(c), TrySendRefused(t, c, v)
    PROVE  LInv'
<1>1. /\ v \in Chan \cup {Plain} /\ (v = Plain \/ held[t][v] > 0) /\ copying[t] = Nil
      /\ held' = Give(held, t, v) /\ pending' = pending
      /\ DropValue(t, v, stack[t])
      /\ mutex' = t
      /\ UNCHANGED <<life, registered, copyVars>>
  BY DEF TrySendRefused, DropUnderMutex, Payload, CanGive, Holds, Idle, Releasing
<1>2. v \in Chan => refcnt[v] > 0
  BY <1>1, Counted
<1>3. /\ held' \in HeldType
      /\ \A s \in Owner, d \in Chan :
            held'[s][d] = held[s][d] - (IF s = t THEN One(v, d) ELSE 0)
      /\ \A d \in Chan : /\ IsFiniteSet(Bindings(held, d)')
                         /\ Cardinality(Bindings(held, d))' = Cardinality(Bindings(held, d)) - One(v, d)
  BY <1>1, Gave
<1>4. ASSUME NEW d \in Chan
      PROVE  IsFiniteSet(Messages(pending, d)') /\ References(d)' = References(d) - One(v, d)
  <2>1. /\ References(d) = Cardinality(Bindings(held, d)) + Cardinality(Messages(pending, d))
        /\ References(d)' = Cardinality(Bindings(held, d))' + Cardinality(Messages(pending, d))'
        /\ Cardinality(Bindings(held, d)) \in Nat /\ Cardinality(Messages(pending, d)) \in Nat
        /\ Messages(pending, d)' = Messages(pending, d)
    BY <1>1, Facts, Kept
  <2>2. One(v, d) \in {0, 1}
    BY DEF One
  <2> QED BY <2>1, <2>2, <1>3, Facts
<1>5. \A s \in Owner \ {t}, d \in Chan : held'[s][d] = held[s][d]
  <2>1. \A s \in Owner, d \in Chan : held[s][d] \in Nat
    BY Facts DEF HeldType
  <2> QED BY <1>3, <2>1
<1>6. pending' \in QueueType /\ mutex' \in Owner \cup {Nil}
  BY <1>1, Facts
<1>7. \A d \in Chan : /\ IsFiniteSet(Bindings(held, d)') /\ IsFiniteSet(Messages(pending, d)')
                      /\ References(d)' = References(d) - One(v, d)
  BY <1>3, <1>4
<1>8. held' \in HeldType
  BY <1>3
<1> QED BY <1>1, <1>2, <1>5, <1>6, <1>7, <1>8, DropStep

\* The last act of hl_chan_release but one: a message of the queue is dropped.
LEMMA DrainStep ==
    ASSUME LInv, overtaken' = FALSE, NEW t \in Owner, Drain(t)
    PROVE  LInv'
<1>1. stack[t] # <<>> /\ stack[t] \in Seq(ActType)
  BY Facts DEF Drain, Releasing
<1>2. PICK c \in Chan : c = Head(stack[t]).ch
  <2>1. Head(stack[t]) \in ActType
    BY <1>1
  <2> QED BY <2>1 DEF ActType
<1>3. /\ pending[c] # <<>> /\ pending' = [pending EXCEPT ![c] = Tail(@)]
      /\ DropValue(t, Head(pending[c]), stack[t])
      /\ held' = held
      /\ UNCHANGED <<life, registered, mutex, copyVars>>
  BY <1>2 DEF Drain
<1>4. /\ pending' \in QueueType /\ Head(pending[c]) \in Chan \cup {Plain}
      /\ \A d \in Chan : /\ IsFiniteSet(Messages(pending, d)')
                         /\ Cardinality(Messages(pending, d))'
                              = Cardinality(Messages(pending, d)) - One(Head(pending[c]), d)
                         /\ Messages(pending, d) = {} => Messages(pending, d)' = {}
  BY <1>3, Taken
<1>5. PICK v \in Chan \cup {Plain} : v = Head(pending[c])
  BY <1>4
<1>6. v \in Chan => refcnt[v] > 0
  BY <1>3, <1>5, Counted
<1>7. ASSUME NEW d \in Chan
      PROVE  IsFiniteSet(Bindings(held, d)') /\ References(d)' = References(d) - One(v, d)
  <2>1. /\ References(d) = Cardinality(Bindings(held, d)) + Cardinality(Messages(pending, d))
        /\ References(d)' = Cardinality(Bindings(held, d))' + Cardinality(Messages(pending, d))'
        /\ Cardinality(Bindings(held, d)) \in Nat /\ Cardinality(Messages(pending, d)) \in Nat
        /\ Bindings(held, d)' = Bindings(held, d)
    BY <1>3, Facts, Kept
  <2>2. One(v, d) \in {0, 1}
    BY DEF One
  <2> QED BY <2>1, <2>2, <1>4, <1>5, Facts
<1>8. copying[t] = Nil /\ \A s \in Owner \ {t}, d \in Chan : held'[s][d] = held[s][d]
  BY <1>1, <1>3, NoCopier
<1>9. held' \in HeldType /\ mutex' \in Owner \cup {Nil}
  BY <1>3, Facts DEF LInv, LifetimeInv, LifetimeTypeOK
<1>10. DropValue(t, v, stack[t]) /\ UNCHANGED <<life, registered, copyVars>>
  BY <1>3, <1>5
<1>11. \A d \in Chan : /\ IsFiniteSet(Bindings(held, d)') /\ IsFiniteSet(Messages(pending, d)')
                       /\ References(d)' = References(d) - One(v, d)
  BY <1>4, <1>7
<1>12. pending' \in QueueType
  BY <1>4
<1> QED BY <1>6, <1>8, <1>9, <1>10, <1>11, <1>12, DropStep

\* recv_or trades its default for the oldest message, and drops the default.
LEMMA RecvOrTakenStep ==
    ASSUME LInv, overtaken' = FALSE, NEW t \in Owner, NEW c \in Chan, NEW v \in Payload(c), RecvOrTaken(t, c, v)
    PROVE  LInv'
<1>1. /\ v \in Chan \cup {Plain} /\ (v = Plain \/ held[t][v] > 0) /\ copying[t] = Nil
      /\ pending[c] # <<>> /\ pending' = [pending EXCEPT ![c] = Tail(@)]
      /\ held' = Get(Give(held, t, v), t, Head(pending[c]))
      /\ DropValue(t, v, stack[t])
      /\ mutex' = t
      /\ UNCHANGED <<life, registered, copyVars>>
  BY DEF RecvOrTaken, DropUnderMutex, Payload, CanGive, Holds, Idle, Releasing
<1>2. v \in Chan => refcnt[v] > 0
  BY <1>1, Counted
<1>3. /\ pending' \in QueueType /\ Head(pending[c]) \in Chan \cup {Plain}
      /\ \A d \in Chan : /\ IsFiniteSet(Messages(pending, d)')
                         /\ Cardinality(Messages(pending, d))'
                              = Cardinality(Messages(pending, d)) - One(Head(pending[c]), d)
                         /\ Messages(pending, d) = {} => Messages(pending, d)' = {}
  BY <1>1, Taken
<1>4. PICK m \in Chan \cup {Plain} : m = Head(pending[c])
  BY <1>3
<1>5. PICK g : g = Give(held, t, v)
  OBVIOUS
<1>6. PICK h : h = held'
  OBVIOUS
<1>7. /\ g \in HeldType
      /\ \A s \in Owner, d \in Chan :
            g[s][d] = held[s][d] - (IF s = t THEN One(v, d) ELSE 0)
      /\ \A d \in Chan : /\ IsFiniteSet(Bindings(g, d))
                         /\ Cardinality(Bindings(g, d)) = Cardinality(Bindings(held, d)) - One(v, d)
  <2>1. /\ \A d \in Chan : IsFiniteSet(Bindings(held, d))
        /\ held \in HeldType /\ (v = Plain \/ held[t][v] > 0) /\ v \in Chan \cup {Plain}
    BY <1>1, Facts
  <2> QED BY <1>5, <2>1, GiveCounts
<1>8. /\ h \in HeldType
      /\ \A s \in Owner, d \in Chan :
            h[s][d] = g[s][d] + (IF s = t THEN One(m, d) ELSE 0)
      /\ \A d \in Chan : /\ IsFiniteSet(Bindings(h, d))
                         /\ Cardinality(Bindings(h, d)) = Cardinality(Bindings(g, d)) + One(m, d)
  <2>1. h = Get(g, t, m)
    BY <1>1, <1>4, <1>5, <1>6
  <2>2. \A d \in Chan : IsFiniteSet(Bindings(g, d))
    BY <1>7
  <2>3. g \in HeldType
    BY <1>7
  <2> QED BY <2>1, <2>2, <2>3, GetCounts
<1>9. ASSUME NEW d \in Chan
      PROVE  IsFiniteSet(Bindings(held, d)') /\ References(d)' = References(d) - One(v, d)
  <2>1. /\ References(d) = Cardinality(Bindings(held, d)) + Cardinality(Messages(pending, d))
        /\ References(d)' = Cardinality(Bindings(held, d))' + Cardinality(Messages(pending, d))'
        /\ Cardinality(Bindings(held, d)) \in Nat /\ Cardinality(Messages(pending, d)) \in Nat
    BY Facts, Kept
  <2>2. One(v, d) \in {0, 1} /\ One(m, d) \in {0, 1}
    BY DEF One
  <2>3. Bindings(held, d)' = Bindings(h, d)
    BY <1>6
  <2>4. Cardinality(Bindings(held, d))' = Cardinality(Bindings(held, d)) - One(v, d) + One(m, d)
    BY <1>7, <1>8, <2>3
  <2> QED BY <1>3, <1>4, <1>8, <2>1, <2>2, <2>3, <2>4
<1>10. \A s \in Owner \ {t}, d \in Chan : held'[s][d] = held[s][d]
  <2>1. \A s \in Owner, d \in Chan : held[s][d] \in Nat
    BY Facts DEF HeldType
  <2> QED BY <1>6, <1>7, <1>8, <2>1
<1>11. held' \in HeldType /\ mutex' \in Owner \cup {Nil}
  BY <1>1, <1>6, <1>8
<1> QED BY <1>1, <1>2, <1>3, <1>9, <1>10, <1>11, DropStep

\* What the innermost activation of t is about.
LEMMA Innermost ==
    ASSUME LInv, NEW t \in Owner, stack[t] # <<>>
    PROVE  /\ stack[t] \in Seq(ActType) /\ Len(stack[t]) \in Nat /\ Len(stack[t]) > 0
           /\ Head(stack[t]) = stack[t][1] /\ stack[t][1] \in ActType
           /\ stack[t][1].ch \in Chan
           /\ <<t, 1>> \in Activations /\ Activation(<<t, 1>>) = stack[t][1]
<1>1. stack[t] \in Seq(ActType)
  BY Facts
<1>2. Len(stack[t]) \in Nat /\ Len(stack[t]) > 0
  BY <1>1
<1>3. Head(stack[t]) = stack[t][1] /\ stack[t][1] \in ActType /\ 1 \in 1..Len(stack[t])
  BY <1>1, <1>2
<1> QED BY <1>1, <1>2, <1>3, ActivationPlaces DEF ActType

LEMMA UnlinkStep ==
    ASSUME LInv, overtaken' = FALSE, NEW t \in Owner, Unlink(t)
    PROVE  LInv'
<1>1. /\ stack[t] # <<>> /\ Head(stack[t]).at = "unlink"
      /\ registered' = registered \ {Head(stack[t]).ch}
      /\ stack' = [stack EXCEPT ![t][1].at = "drain"]
      /\ UNCHANGED <<life, refcnt, pending, held, mutex, copyVars>>
  BY DEF Unlink, Releasing
<1>2. /\ stack[t] \in Seq(ActType) /\ Len(stack[t]) \in Nat /\ Len(stack[t]) > 0
      /\ Head(stack[t]) = stack[t][1] /\ stack[t][1] \in ActType
      /\ stack[t][1].ch \in Chan
      /\ <<t, 1>> \in Activations /\ Activation(<<t, 1>>) = stack[t][1]
  BY <1>1, Innermost
<1>3. PICK c \in Chan : c = stack[t][1].ch
  BY <1>2
<1> DEFINE e == [ch |-> c, at |-> "drain"]
<1>4. e \in ActType /\ e.ch = c /\ [stack[t][1] EXCEPT !.at = "drain"] = e
  <2>1. e \in ActType /\ e.ch = c
    BY DEF ActType
  <2>2. ASSUME NEW r \in ActType
        PROVE  [r EXCEPT !.at = "drain"] = [ch |-> r.ch, at |-> "drain"]
    BY DEF ActType
  <2>3. [stack[t][1] EXCEPT !.at = "drain"] = [ch |-> stack[t][1].ch, at |-> "drain"]
    BY <1>2, <2>2
  <2> QED BY <1>3, <2>1, <2>3
<1> HIDE DEF e
<1>5. /\ stack' = [stack EXCEPT ![t] = [stack[t] EXCEPT ![1] = e]]
      /\ stack' \in [Owner -> Seq(ActType)]
  <2>1. stack' = [stack EXCEPT ![t] = [stack[t] EXCEPT ![1] = e]]
    BY <1>1, <1>4
  <2>2. [stack[t] EXCEPT ![1] = e] \in Seq(ActType)
    BY <1>2, <1>4
  <2> QED BY <2>1, <2>2, Facts
<1>6. /\ Activations' = Activations
      /\ Activation(<<t, 1>>)' = e
      /\ \A a \in Activations : a # <<t, 1>> => Activation(a)' = Activation(a)
  <2>1. \A s \in Owner : Len(stack'[s]) = Len(stack[s])
    BY <1>2, <1>5, Facts
  <2>2. Activations' = Activations
    BY <2>1 DEF Activations
  <2>3. stack'[t][1] = e
    BY <1>2, <1>5, Facts
  <2>4. ASSUME NEW s \in Owner, NEW i \in 1..Len(stack[s]), <<s, i>> # <<t, 1>>
        PROVE  stack'[s][i] = stack[s][i]
    BY <1>2, <1>5, <2>4, Facts
  <2>5. ASSUME NEW a \in Activations, a # <<t, 1>>
        PROVE  Activation(a)' = Activation(a)
    <3>1. PICK s \in Owner, i \in Nat : i \in 1..Len(stack[s]) /\ a = <<s, i>>
      BY ActivationPlaces
    <3>2. stack'[s][i] = stack[s][i]
      BY <2>4, <2>5, <3>1
    <3> QED BY <3>1, <3>2 DEF Activation
  <2>6. Activation(<<t, 1>>)' = e
    BY <2>3 DEF Activation
  <2> QED BY <2>2, <2>5, <2>6
<1>7. \A a \in Activations : Activation(a)'.ch = Activation(a).ch
  BY <1>2, <1>3, <1>4, <1>6
<1>8. \A d \in Chan : References(d)' = References(d)
  BY <1>1 DEF References
<1>9. refcnt[c] = 0 /\ References(c) = 0
  BY <1>2, <1>3, Facts DEF LInv, LifetimeInv, ReleasedByOne
<1>10. AllAlive'
  <2>1. \A d \in Chan : References(d)' > 0 => life'[d] = "live" /\ d \in registered'
    BY <1>1, <1>2, <1>3, <1>8, <1>9 DEF LInv, LifetimeInv, AllAlive
  <2>2. \A d \in registered' : life'[d] = "live"
    BY <1>1 DEF LInv, LifetimeInv, AllAlive
  <2>3. \A a \in Activations' : life'[Activation(a)'.ch] = "live"
    BY <1>1, <1>6, <1>7 DEF LInv, LifetimeInv, AllAlive
  <2> QED BY <2>1, <2>2, <2>3 DEF AllAlive
<1>11. ReleasedByOne'
  <2>1. /\ \A a \in Activations : /\ refcnt[Activation(a).ch] = 0
                                  /\ Activation(a).at = "drain" => Activation(a).ch \notin registered
        /\ \A a, b \in Activations : Activation(a).ch = Activation(b).ch => a = b
    BY DEF LInv, LifetimeInv, ReleasedByOne
  <2>2. ASSUME NEW a \in Activations'
        PROVE  /\ refcnt'[Activation(a)'.ch] = 0
               /\ Activation(a)'.at = "drain" => Activation(a)'.ch \notin registered'
    <3>1. a \in Activations
      BY <1>6
    <3>2. CASE a = <<t, 1>>
      BY <1>1, <1>2, <1>3, <1>4, <1>6, <1>9, <3>2
    <3>3. CASE a # <<t, 1>>
      BY <1>1, <1>6, <2>1, <3>1, <3>3
    <3> QED BY <3>2, <3>3
  <2>3. \A a, b \in Activations' : Activation(a)'.ch = Activation(b)'.ch => a = b
    BY <1>6, <1>7, <2>1
  <2> QED BY <2>2, <2>3 DEF ReleasedByOne
<1>12. LifetimeTypeOK'
  BY <1>1, <1>5 DEF LInv, LifetimeInv, LifetimeTypeOK, copyVars, ActType
<1>13. CountsExact'
  BY <1>1, <1>8 DEF LInv, LifetimeInv, CountsExact
<1>14. Finite'
  BY <1>1 DEF LInv, Finite
<1>15. CopiesCurrent'
  <2>1. copying[t] = Nil /\ \A s \in Owner \ {t} : stack'[s] = stack[s]
    BY <1>1, <1>5, NoCopier, Facts
  <2>2. \A s \in Owner \ {t}, d \in Chan : copying[s] = d =>
           refcnt'[d] = refcnt[d] /\ held'[s][d] >= held[s][d]
    BY <1>1, Facts DEF HeldType
  <2>3. UNCHANGED copyVars /\ held' \in HeldType
    BY <1>1, Facts
  <2> QED BY <2>1, <2>2, <2>3, Undisturbed
<1> QED BY <1>10, <1>11, <1>12, <1>13, <1>14, <1>15, Assembled

\* free: nobody refers to the channel, it is out of the registry and no other
\* activation is about it.
LEMMA FreeStep ==
    ASSUME LInv, overtaken' = FALSE, NEW t \in Owner, Free(t)
    PROVE  LInv'
<1>1. /\ stack[t] # <<>> /\ Head(stack[t]).at = "drain"
      /\ life' = [life EXCEPT ![Head(stack[t]).ch] = "freed"]
      /\ stack' = [stack EXCEPT ![t] = Tail(stack[t])]
      /\ UNCHANGED <<refcnt, registered, pending, held, mutex, copyVars>>
  BY DEF Free, Releasing
<1>2. /\ stack[t] \in Seq(ActType) /\ Len(stack[t]) \in Nat /\ Len(stack[t]) > 0
      /\ Head(stack[t]) = stack[t][1] /\ stack[t][1] \in ActType
      /\ stack[t][1].ch \in Chan
      /\ <<t, 1>> \in Activations /\ Activation(<<t, 1>>) = stack[t][1]
  BY <1>1, Innermost
<1>3. PICK c \in Chan : c = stack[t][1].ch
  BY <1>2
<1>4. /\ stack'[t] = Tail(stack[t]) /\ \A s \in Owner \ {t} : stack'[s] = stack[s]
      /\ Len(stack'[t]) = Len(stack[t]) - 1
      /\ \A i \in 1..Len(stack'[t]) : stack'[t][i] = stack[t][i + 1]
      /\ stack' \in [Owner -> Seq(ActType)]
  BY <1>1, <1>2, Facts
<1>5. ASSUME NEW a \in Activations'
      PROVE  /\ Down(t, a) \in Activations /\ Down(t, a) # <<t, 1>>
             /\ Activation(a)' = Activation(Down(t, a))
             /\ \E s \in Owner, i \in Nat : a = <<s, i>>
  <2>1. PICK s \in Owner, i \in Nat : i \in 1..Len(stack'[s]) /\ a = <<s, i>>
    BY DEF Activations
  <2>2. Activation(a)' = stack'[s][i]
    BY <2>1 DEF Activation
  <2>3. CASE s # t
    <3>1. Down(t, a) = <<s, i>> /\ i \in 1..Len(stack[s]) /\ stack'[s][i] = stack[s][i]
      BY <1>4, <2>1, <2>3 DEF Down
    <3> QED BY <2>1, <2>2, <2>3, <3>1, ActivationPlaces
  <2>4. CASE s = t
    <3>1. i + 1 \in 1..Len(stack[t]) /\ stack'[t][i] = stack[t][i + 1] /\ i + 1 # 1
      BY <1>2, <1>4, <2>1, <2>4
    <3>2. PICK j \in Nat : j = i + 1
      OBVIOUS
    <3>3. Down(t, a) = <<t, j>>
      BY <2>1, <2>4, <3>2 DEF Down
    <3> QED BY <2>1, <2>2, <2>4, <3>1, <3>2, <3>3, ActivationPlaces
  <2> QED BY <2>3, <2>4
<1>6. /\ \A a \in Activations : /\ refcnt[Activation(a).ch] = 0
                                /\ Activation(a).at = "drain" => Activation(a).ch \notin registered
                                /\ life[Activation(a).ch] = "live"
      /\ \A a, b \in Activations : Activation(a).ch = Activation(b).ch => a = b
  BY DEF LInv, LifetimeInv, ReleasedByOne, AllAlive
<1>7. refcnt[c] = 0 /\ References(c) = 0 /\ c \notin registered
  BY <1>1, <1>2, <1>3, <1>6, Facts
<1>8. /\ \A d \in Chan \ {c} : life'[d] = life[d]
      /\ registered \in SUBSET Chan
  BY <1>1, <1>2, <1>3 DEF LInv, LifetimeInv, LifetimeTypeOK
<1>9. \A d \in Chan : References(d)' = References(d)
  BY <1>1 DEF References
<1>10. \A a \in Activations' : Activation(a)'.ch \in Chan \ {c}
  BY <1>2, <1>3, <1>5, <1>6, InChan
<1>11. AllAlive'
  <2>1. \A d \in Chan : References(d)' > 0 => life'[d] = "live" /\ d \in registered'
    BY <1>1, <1>7, <1>8, <1>9 DEF LInv, LifetimeInv, AllAlive
  <2>2. \A d \in registered' : life'[d] = "live"
    BY <1>1, <1>7, <1>8 DEF LInv, LifetimeInv, AllAlive
  <2>3. \A a \in Activations' : life'[Activation(a)'.ch] = "live"
    BY <1>5, <1>6, <1>8, <1>10
  <2> QED BY <2>1, <2>2, <2>3 DEF AllAlive
<1>12. ReleasedByOne'
  <2>1. \A a \in Activations' : /\ refcnt'[Activation(a)'.ch] = 0
                                /\ Activation(a)'.at = "drain" => Activation(a)'.ch \notin registered'
    BY <1>1, <1>5, <1>6
  <2>2. ASSUME NEW a \in Activations', NEW b \in Activations',
               Activation(a)'.ch = Activation(b)'.ch
        PROVE  a = b
    <3>1. Down(t, a) = Down(t, b)
      BY <1>5, <1>6, <2>2
    <3>2. PICK s \in Owner, i \in Nat : a = <<s, i>>
      BY <1>5
    <3>3. PICK u \in Owner, j \in Nat : b = <<u, j>>
      BY <1>5
    <3> QED BY <3>1, <3>2, <3>3 DEF Down
  <2> QED BY <2>1, <2>2 DEF ReleasedByOne
<1>13. LifetimeTypeOK'
  BY <1>1, <1>4 DEF LInv, LifetimeInv, LifetimeTypeOK, copyVars, ActType
<1>14. CountsExact'
  BY <1>1, <1>9 DEF LInv, LifetimeInv, CountsExact
<1>15. Finite'
  BY <1>1 DEF LInv, Finite
<1>16. CopiesCurrent'
  <2>1. copying[t] = Nil /\ \A s \in Owner \ {t} : stack'[s] = stack[s]
    BY <1>1, <1>4, NoCopier
  <2>2. \A s \in Owner \ {t}, d \in Chan : copying[s] = d =>
           refcnt'[d] = refcnt[d] /\ held'[s][d] >= held[s][d]
    BY <1>1, Facts DEF HeldType
  <2>3. UNCHANGED copyVars /\ held' \in HeldType
    BY <1>1, Facts
  <2> QED BY <2>1, <2>2, <2>3, Undisturbed
<1> QED BY <1>11, <1>12, <1>13, <1>14, <1>15, <1>16, Assembled

-----------------------------------------------------------------------------
(* Theorems *)

LEMMA Start == ASSUME LifetimeInit PROVE LInv
<1>1. \A c \in Chan : Bindings(held, c) = {} /\ Messages(pending, c) = {}
  BY DEF LifetimeInit, Bindings, Messages
<1>2. \A c \in Chan : References(c) = 0
  <2>1. Cardinality({}) = 0
    BY FS_EmptySet
  <2> QED BY ONLY <1>1, <2>1 DEF References
<1>3. Activations = {}
  BY DEF LifetimeInit, Activations
<1>4. Finite
  BY <1>1, FS_EmptySet DEF Finite
<1>5. LifetimeTypeOK
  <2>1. /\ life \in [Chan -> {"absent", "live", "freed"}]
        /\ registered \in SUBSET Chan /\ overtaken \in BOOLEAN
        /\ copying \in [Owner -> Chan \cup {Nil}] /\ mutex \in Owner \cup {Nil}
    BY DEF LifetimeInit
  <2>2. refcnt \in [Chan -> Nat] /\ loaded \in [Owner -> Nat] /\ held \in [Owner -> [Chan -> Nat]]
    BY DEF LifetimeInit
  <2>3. /\ pending \in [Chan -> Seq(Chan \cup {Plain})]
        /\ stack \in [Owner -> Seq([ch : Chan, at : {"unlink", "drain"}])]
    BY DEF LifetimeInit
  <2> QED BY <2>1, <2>2, <2>3 DEF LifetimeTypeOK
<1>6. CountsExact /\ AllAlive /\ ReleasedByOne
  BY <1>2, <1>3 DEF LifetimeInit, CountsExact, AllAlive, ReleasedByOne
<1>7. CopiesCurrent
  BY DEF LifetimeInit, CopiesCurrent
<1> QED BY <1>4, <1>5, <1>6, <1>7 DEF LInv, LifetimeInv

LEMMA EveryStep ==
    ASSUME LInv, overtaken' = FALSE, [LifetimeNext]_lifetimeVars
    PROVE  LInv'
<1>1. CASE UNCHANGED lifetimeVars
  <2>1. UNCHANGED <<life, refcnt, registered, pending, held, copying, loaded, stack, mutex>>
    BY <1>1 DEF lifetimeVars
  <2>2. LifetimeTypeOK' /\ Finite'
    BY <2>1 DEF LInv, LifetimeInv, LifetimeTypeOK, Finite
  <2>3. CountsExact' /\ AllAlive' /\ ReleasedByOne' /\ CopiesCurrent'
    BY <2>1, NothingMoves
  <2> QED BY <2>2, <2>3, Assembled
<1>2. ASSUME NEW t \in Owner, Unlink(t) \/ Drain(t) \/ Free(t) \/ DropsDone(t) \/ CopyStore(t)
      PROVE  LInv'
  BY <1>2, UnlinkStep, DrainStep, FreeStep, DropsDoneStep, CopyStoreStep
<1>3. ASSUME NEW t \in Owner, NEW c \in Chan,
             \/ New(t, c) \/ CopyLoad(t, c) \/ Release(t, c) \/ Recv(t, c)
             \/ \E u \in Owner : Clone(t, u, c)
      PROVE  LInv'
  BY <1>3, NewStep, CopyLoadStep, ReleaseStep, RecvStep, CloneStep
<1>4. ASSUME NEW t \in Owner, NEW c \in Chan, NEW v \in Payload(c),
             Send(t, c, v) \/ TrySendRefused(t, c, v) \/ RecvOrTaken(t, c, v)
      PROVE  LInv'
  BY <1>4, SendStep, TrySendRefusedStep, RecvOrTakenStep
<1> QED BY <1>1, <1>2, <1>3, <1>4 DEF LifetimeNext

\* A copy that was overtaken stays overtaken.
LEMMA NeverForgotten ==
    ASSUME overtaken \in BOOLEAN, [LifetimeNext]_lifetimeVars
    PROVE  overtaken' \in BOOLEAN /\ (overtaken => overtaken')
<1> DEFINE Remembered == overtaken' \in BOOLEAN /\ (overtaken => overtaken')
<1> SUFFICES Remembered
  OBVIOUS
<1>1. ASSUME UNCHANGED overtaken PROVE Remembered
  BY <1>1
<1>2. ASSUME NEW t, NEW c, Touches(t, c) PROVE Remembered
  BY <1>2 DEF Touches
<1>3. ASSUME NEW t, NEW v, NEW rest, DropValue(t, v, rest) PROVE Remembered
  BY <1>1, <1>2, <1>3 DEF DropValue
<1> HIDE DEF Remembered
<1>4. ASSUME UNCHANGED lifetimeVars PROVE Remembered
  BY <1>1, <1>4 DEF lifetimeVars
<1>5. ASSUME NEW t \in Owner, Unlink(t) \/ Drain(t) \/ Free(t) \/ DropsDone(t) \/ CopyStore(t)
      PROVE  Remembered
  BY <1>1, <1>2, <1>3, <1>5 DEF Unlink, Drain, Free, DropsDone, CopyStore
<1>6. ASSUME NEW t \in Owner, NEW c \in Chan,
             \/ New(t, c) \/ CopyLoad(t, c) \/ Release(t, c) \/ Recv(t, c)
             \/ \E u \in Owner : Clone(t, u, c)
      PROVE  Remembered
  BY <1>1, <1>2, <1>3, <1>6 DEF New, CopyLoad, Release, Recv, Clone
<1>7. ASSUME NEW t \in Owner, NEW c \in Chan, NEW v \in Payload(c),
             Send(t, c, v) \/ TrySendRefused(t, c, v) \/ RecvOrTaken(t, c, v)
      PROVE  Remembered
  BY <1>1, <1>3, <1>7 DEF Send, TrySendRefused, RecvOrTaken, DropUnderMutex
<1> QED BY <1>4, <1>5, <1>6, <1>7 DEF LifetimeNext

\* While no copy of a binding has been overtaken by another thread's clone, copy or
\* release of the same channel, the whole invariant holds: above all, the count of
\* every channel is the number of the references to it.
THEOREM CountsAreExact == LifetimeSpec => [](~overtaken => LifetimeInv)
<1> DEFINE Inv == overtaken \in BOOLEAN /\ (~overtaken => LInv)
<1>1. LifetimeInit => Inv
  BY Start DEF LifetimeInit
<1>2. Inv /\ [LifetimeNext]_lifetimeVars => Inv'
  BY EveryStep, NeverForgotten
<1>3. Inv => (~overtaken => LifetimeInv)
  BY DEF LInv
<1> QED BY <1>1, <1>2, <1>3, PTL DEF LifetimeSpec

\* Until then the memory that the deadlock detector walks, every operation and every
\* drain is live, and nothing is freed twice.
THEOREM NothingDanglesAlways == LifetimeSpec => []NothingDangles
<1>1. (~overtaken => LifetimeInv) => NothingDangles
  BY DEF LifetimeInv, NothingDangles
<1> QED BY <1>1, CountsAreExact, PTL
=============================================================================
