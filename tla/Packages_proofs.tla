-------------------------- MODULE Packages_proofs ---------------------------
(***************************************************************************)
(* Proofs about the package manager.                                       *)
(*                                                                         *)
(* A version is said to satisfy a requirement exactly when the table of    *)
(* the dialect says so, for all versions and requirements (module Semver). *)
(*                                                                         *)
(* What verify passes was accepted by today's manifest, for any projects   *)
(* on one cache, and any commits, tags and requirements (module Packages). *)
(***************************************************************************)
EXTENDS Packages, SequenceTheorems, TLAPS

-----------------------------------------------------------------------------
(* The order of versions *)

\* The three numbers of a version.
Core == [1..3 -> Nat]

\* The order of cores, number by number.
CoreBelow(a, b) ==
    \/ a[1] < b[1]
    \/ a[1] = b[1] /\ (a[2] < b[2] \/ (a[2] = b[2] /\ a[3] < b[3]))

\* A core is a sequence of three numbers.
LEMMA CoreIsSeq ==
    ASSUME NEW c \in Core
    PROVE  c \in Seq(Nat) /\ Len(c) = 3 /\ c[1] \in Nat /\ c[2] \in Nat /\ c[3] \in Nat
<1>1. c \in [1..3 -> Nat]
  BY DEF Core
<1>2. c \in Seq(Nat)
  <2>1. [1..3 -> Nat] \in {[1..n -> Nat] : n \in Nat}
    OBVIOUS
  <2>2. c \in UNION {[1..n -> Nat] : n \in Nat}
    BY <1>1, <2>1
  <2> QED
    BY <2>2, SeqDef
<1>3. DOMAIN c = 1..3 /\ DOMAIN c = 1..Len(c) /\ Len(c) \in Nat
  BY <1>1, <1>2, LenProperties
<1> QED
  BY <1>1, <1>2, <1>3

\* Cores of the same numbers are the same.
LEMMA CoresDiffer ==
    ASSUME NEW a \in Core, NEW b \in Core, a[1] = b[1], a[2] = b[2], a[3] = b[3]
    PROVE  a = b
<1>1. \A i \in 1..3 : a[i] = b[i]
  OBVIOUS
<1> QED
  BY <1>1 DEF Core

\* What a version is made of.
LEMMA VersionParts ==
    ASSUME NEW v \in VersionRecord
    PROVE  v.core \in Core /\ v.pre \in Seq(Nat) /\ Len(v.pre) \in Nat
           /\ (v.pre # <<>> => Len(v.pre) > 0) /\ (v.pre = <<>> => Len(v.pre) = 0)
<1>1. v.core \in Core /\ v.pre \in Seq(Nat)
  BY DEF VersionRecord, Core
<1> QED
  BY <1>1, EmptySeq, LenProperties

\* The fourth number of the key: a release is above its pre-releases.
Flag(v) == IF v.pre = <<>> THEN 1 ELSE 0

\* What the proofs use of a precedence key.
IsKey(k, v) ==
    /\ k \in Seq(Nat) /\ Len(k) \in Nat /\ Len(k) >= 4 /\ (v.pre = <<>> => Len(k) = 4)
    /\ k[1] = v.core[1] /\ k[2] = v.core[2] /\ k[3] = v.core[3] /\ k[4] = Flag(v)

\* It is so for every version.
LEMMA KeyShape ==
    ASSUME NEW v \in VersionRecord
    PROVE  IsKey(PrecedenceKey(v), v)
<1> DEFINE flag == <<Flag(v)>>
<1>1. v.core \in Seq(Nat) /\ Len(v.core) = 3 /\ v.pre \in Seq(Nat) /\ Len(v.pre) \in Nat
  BY VersionParts, CoreIsSeq
<1>2. flag \in Seq(Nat) /\ Len(flag) = 1 /\ flag[1] = Flag(v)
  BY DEF Flag
<1> HIDE DEF flag
<1> DEFINE front == v.core \o flag
<1>3. /\ front \in Seq(Nat) /\ Len(front) = Len(v.core) + Len(flag)
      /\ \A i \in 1..Len(v.core) + Len(flag) : front[i] = IF i <= Len(v.core) THEN v.core[i] ELSE flag[i - Len(v.core)]
  BY <1>1, <1>2, ConcatProperties
<1>4. Len(front) = 4 /\ front[1] = v.core[1] /\ front[2] = v.core[2] /\ front[3] = v.core[3] /\ front[4] = Flag(v)
  <2>1. Len(front) = 4 /\ \A i \in 1..4 : front[i] = IF i <= 3 THEN v.core[i] ELSE flag[i - 3]
    BY <1>1, <1>2, <1>3
  <2> HIDE DEF front
  <2>2. front[1] = v.core[1] /\ front[2] = v.core[2] /\ front[3] = v.core[3] /\ front[4] = flag[1]
    BY <2>1
  <2> QED
    BY <2>1, <2>2, <1>2
<1>5. front \in Seq(Nat)
  BY <1>3
<1> HIDE DEF front
<1> DEFINE k == front \o v.pre
<1>6. /\ k \in Seq(Nat) /\ Len(k) = Len(front) + Len(v.pre)
      /\ \A i \in 1..Len(front) + Len(v.pre) : k[i] = IF i <= Len(front) THEN front[i] ELSE v.pre[i - Len(front)]
  BY <1>1, <1>5, ConcatProperties
<1>7. PrecedenceKey(v) = k
  BY DEF PrecedenceKey, front, flag, Flag
<1> HIDE DEF k
<1>8. Len(k) = 4 + Len(v.pre)
  BY <1>4, <1>6
<1>9. ASSUME NEW i \in 1..4 PROVE k[i] = front[i]
  <2>1. i \in 1..Len(front) + Len(v.pre) /\ i <= Len(front)
    BY <1>1, <1>4
  <2> QED
    BY <2>1, <1>6
<1>10. k[1] = front[1] /\ k[2] = front[2] /\ k[3] = front[3] /\ k[4] = front[4]
  BY <1>9
<1>11. v.pre = <<>> => Len(v.pre) = 0
  BY VersionParts
<1>12. Len(k) \in Nat /\ Len(k) >= 4 /\ (v.pre = <<>> => Len(k) = 4)
  BY <1>1, <1>8, <1>11
<1>13. IsKey(k, v)
  BY <1>4, <1>6, <1>10, <1>12 DEF IsKey
<1> QED
  BY <1>7, <1>13

\* Where the cores differ they decide.
LEMMA CoresDecide ==
    ASSUME NEW v \in VersionRecord, NEW w \in VersionRecord, v.core # w.core
    PROVE  Below(v, w) <=> CoreBelow(v.core, w.core)
<1> DEFINE s == PrecedenceKey(v)
           t == PrecedenceKey(w)
           a == v.core
           b == w.core
<1>0. IsKey(s, v) /\ IsKey(t, w)
  BY KeyShape
<1>2. /\ a[1] \in Nat /\ a[2] \in Nat /\ a[3] \in Nat /\ b[1] \in Nat /\ b[2] \in Nat /\ b[3] \in Nat
  BY VersionParts, CoreIsSeq
<1>3. a[1] # b[1] \/ a[2] # b[2] \/ a[3] # b[3]
  BY VersionParts, CoresDiffer
<1>4. Below(v, w) <=> TupleBelow(s, t)
  BY DEF Below
<1> HIDE DEF s, t
<1>1. /\ Len(s) \in Nat /\ Len(s) >= 4 /\ Len(t) \in Nat /\ Len(t) >= 4
      /\ s[1] = a[1] /\ s[2] = a[2] /\ s[3] = a[3] /\ t[1] = b[1] /\ t[2] = b[2] /\ t[3] = b[3]
  BY <1>0 DEF IsKey
<1> HIDE DEF a, b
<1>5. ASSUME TupleBelow(s, t) PROVE CoreBelow(a, b)
  <2>1. PICK i \in 1..Len(t) : /\ i <= Len(s) + 1 /\ \A j \in 1..(i - 1) : s[j] = t[j]
                               /\ i > Len(s) \/ s[i] < t[i]
    BY <1>5 DEF TupleBelow
  <2>2. i \in 1..3
    BY <2>1, <1>1, <1>3
  <2>3. CASE i = 1
    BY <2>1, <2>3, <1>1, <1>2 DEF CoreBelow
  <2>4. CASE i = 2
    BY <2>1, <2>4, <1>1, <1>2 DEF CoreBelow
  <2>5. CASE i = 3
    BY <2>1, <2>5, <1>1, <1>2 DEF CoreBelow
  <2> QED
    BY <2>2, <2>3, <2>4, <2>5
<1>6. ASSUME CoreBelow(a, b) PROVE TupleBelow(s, t)
  <2>1. ASSUME NEW i \in 1..3, a[i] < b[i], \A j \in 1..(i - 1) : a[j] = b[j] PROVE TupleBelow(s, t)
    <3>1. i \in 1..Len(t) /\ i <= Len(s) + 1 /\ s[i] < t[i]
      BY <2>1, <1>1
    <3>2. \A j \in 1..(i - 1) : s[j] = t[j]
      BY <2>1, <1>1
    <3> QED
      BY <3>1, <3>2 DEF TupleBelow
  <2>2. CASE a[1] < b[1]
    BY <2>2, <2>1
  <2>3. CASE a[1] = b[1] /\ a[2] < b[2]
    BY <2>3, <2>1
  <2>4. CASE a[1] = b[1] /\ a[2] = b[2] /\ a[3] < b[3]
    BY <2>4, <2>1
  <2> QED
    BY <1>6, <2>2, <2>3, <2>4 DEF CoreBelow
<1> QED
  BY <1>4, <1>5, <1>6 DEF a, b

\* What a release is below, its core alone decides.
LEMMA ReleaseBelow ==
    ASSUME NEW v \in VersionRecord, NEW w \in VersionRecord, v.pre = <<>>
    PROVE  Below(v, w) <=> CoreBelow(v.core, w.core)
<1>1. CASE v.core # w.core
  BY <1>1, CoresDecide
<1>2. CASE v.core = w.core
  <2> DEFINE s == PrecedenceKey(v)
             t == PrecedenceKey(w)
  <2>0. IsKey(s, v) /\ IsKey(t, w)
    BY KeyShape
  <2>5. Below(v, w) <=> TupleBelow(s, t)
    BY DEF Below
  <2> HIDE DEF s, t
  <2>1. Len(s) = 4 /\ s[4] = 1
    BY <2>0 DEF IsKey, Flag
  <2>7. v.core[1] \in Nat /\ v.core[2] \in Nat /\ v.core[3] \in Nat
    BY VersionParts, CoreIsSeq
  <2>2. s[1] = t[1] /\ s[2] = t[2] /\ s[3] = t[3] /\ s[1] \in Nat /\ s[2] \in Nat /\ s[3] \in Nat
    BY <2>0, <2>7, <1>2 DEF IsKey
  <2>3. Len(t) \in Nat /\ ((Len(t) = 4 /\ t[4] = 1) \/ t[4] = 0)
    BY <2>0 DEF IsKey, Flag
  <2>4. ~CoreBelow(v.core, w.core)
    BY <1>2, <2>7 DEF CoreBelow
  <2>6. ASSUME NEW i \in 1..Len(t), i <= Len(s) + 1, \A j \in 1..(i - 1) : s[j] = t[j], i > Len(s) \/ s[i] < t[i]
        PROVE  FALSE
    <3>1. i \in 1..5
      BY <2>6, <2>1
    <3>2. CASE i \in 1..3
      <4>1. s[i] < t[i]
        BY <3>2, <2>6, <2>1
      <4>2. s[i] = t[i] /\ s[i] \in Nat
        BY <3>2, <2>2
      <4> QED
        BY <4>1, <4>2
    <3>3. CASE i = 4
      <4>1. 1 < t[4]
        BY <3>3, <2>6, <2>1
      <4> QED
        BY <4>1, <2>3
    <3>4. CASE i = 5
      <4>1. t[4] = 1
        <5>1. 4 \in 1..(i - 1)
          BY <3>4
        <5>2. s[4] = t[4]
          BY <5>1, <2>6
        <5> QED
          BY <5>2, <2>1
      <4>2. Len(t) # 4
        <5>1. \A n \in Nat : 5 \in 1..n => n # 4
          OBVIOUS
        <5>2. Len(t) \in Nat /\ 5 \in 1..Len(t)
          BY <2>3, <3>4, Zenon
        <5> QED
          BY <5>1, <5>2, Zenon
      <4> QED
        BY <4>1, <4>2, <2>3
    <3> QED
      BY <3>1, <3>2, <3>3, <3>4
  <2> QED
    BY <2>4, <2>5, <2>6 DEF TupleBelow
<1> QED
  BY <1>1, <1>2

\* The next value of component i.
NextCore(i, low) == [j \in 1..3 |-> IF j < i THEN low[j] ELSE IF j = i THEN low[j] + 1 ELSE 0]

\* It is a core.
LEMMA NextShape ==
    ASSUME NEW low \in Core, NEW i \in 1..3
    PROVE  /\ NextCore(i, low) \in Core
           /\ \A j \in 1..3 : NextCore(i, low)[j] = IF j < i THEN low[j] ELSE IF j = i THEN low[j] + 1 ELSE 0
<1>1. \A j \in 1..3 : NextCore(i, low)[j] = IF j < i THEN low[j] ELSE IF j = i THEN low[j] + 1 ELSE 0
  BY DEF NextCore
<1>2. \A j \in 1..3 : (IF j < i THEN low[j] ELSE IF j = i THEN low[j] + 1 ELSE 0) \in Nat
  BY DEF Core
<1>3. NextCore(i, low) \in Core
  BY <1>2 DEF NextCore, Core
<1> QED
  BY <1>1, <1>3

\* At or above the floor, what is below the next value of component i has the
\* floor's numbers up to it.
LEMMA BelowNext ==
    ASSUME NEW a \in Core, NEW low \in Core, NEW i \in 1..3, ~CoreBelow(a, low)
    PROVE  CoreBelow(a, NextCore(i, low)) <=> \A j \in 1..i : a[j] = low[j]
<1> DEFINE up == NextCore(i, low)
<1>1. /\ a[1] \in Nat /\ a[2] \in Nat /\ a[3] \in Nat
      /\ low[1] \in Nat /\ low[2] \in Nat /\ low[3] \in Nat
  BY CoreIsSeq
<1>2. \A j \in 1..3 : up[j] = IF j < i THEN low[j] ELSE IF j = i THEN low[j] + 1 ELSE 0
  BY NextShape
<1> SUFFICES CoreBelow(a, up) <=> \A j \in 1..i : a[j] = low[j]
  OBVIOUS
<1> HIDE DEF up
<1>3. CASE i = 1
  <2>1. up[1] = low[1] + 1 /\ up[2] = 0 /\ up[3] = 0
    BY <1>2, <1>3
  <2>2. (\A j \in 1..i : a[j] = low[j]) <=> a[1] = low[1]
    BY <1>3
  <2> QED
    BY <1>1, <2>1, <2>2 DEF CoreBelow
<1>4. CASE i = 2
  <2>1. up[1] = low[1] /\ up[2] = low[2] + 1 /\ up[3] = 0
    BY <1>2, <1>4
  <2>2. (\A j \in 1..i : a[j] = low[j]) <=> a[1] = low[1] /\ a[2] = low[2]
    BY <1>4
  <2> QED
    BY <1>1, <2>1, <2>2 DEF CoreBelow
<1>5. CASE i = 3
  <2>1. up[1] = low[1] /\ up[2] = low[2] /\ up[3] = low[3] + 1
    BY <1>2, <1>5
  <2>2. (\A j \in 1..i : a[j] = low[j]) <=> a[1] = low[1] /\ a[2] = low[2] /\ a[3] = low[3]
    BY <1>5
  <2> QED
    BY <1>1, <2>1, <2>2 DEF CoreBelow
<1> QED
  BY <1>3, <1>4, <1>5

\* A partial filled with zeros is a core.
LEMMA PaddedShape ==
    ASSUME NEW n \in Seq(Nat), Len(n) <= 3
    PROVE  /\ Padded(n) \in Core
           /\ \A i \in 1..3 : Padded(n)[i] = IF i <= Len(n) THEN n[i] ELSE 0
           /\ Len(n) = 3 => Padded(n) = n
<1>0. Len(n) \in Nat /\ n \in [1..Len(n) -> Nat]
  BY LenProperties
<1>1. \A i \in 1..3 : (IF i <= Len(n) THEN n[i] ELSE 0) \in Nat
  BY <1>0
<1>2. \A i \in 1..3 : Padded(n)[i] = IF i <= Len(n) THEN n[i] ELSE 0
  BY DEF Padded
<1>3. Padded(n) \in Core
  BY <1>1 DEF Padded, Core
<1>4. ASSUME Len(n) = 3 PROVE Padded(n) = n
  <2>1. n \in [1..3 -> Nat]
    BY <1>0, <1>4
  <2>2. \A i \in 1..3 : Padded(n)[i] = n[i]
    BY <1>2, <1>4
  <2> QED
    BY <1>3, <2>1, <2>2 DEF Core
<1> QED
  BY <1>2, <1>3, <1>4

-----------------------------------------------------------------------------
(* What the clauses of a token hold of *)

\* What each clause asks of a version.
LEMMA Clauses ==
    ASSUME NEW v, NEW b
    PROVE  /\ ClauseHolds([op |-> ">=", bound |-> b], v) <=> ~Below(v, b)
           /\ ClauseHolds([op |-> "<=", bound |-> b], v) <=> ~Below(b, v)
           /\ ClauseHolds([op |-> "<", bound |-> b], v) <=> Below(v, b)
           /\ ClauseHolds([op |-> "=", bound |-> b], v) <=> PrecedenceKey(v) = PrecedenceKey(b)
BY DEF ClauseHolds

\* A core alone is a released version.
LEMMA ReleaseShape ==
    ASSUME NEW c \in Core
    PROVE  Release(c) \in VersionRecord /\ Release(c).core = c /\ Release(c).pre = <<>>
<1>1. <<>> \in Seq(Nat)
  BY EmptySeq
<1> QED
  BY <1>1 DEF Release, VersionRecord, Core

\* A released version holds the clauses of a range exactly when it is at or
\* above the floor and has its numbers up to component i.
LEMMA UpToHolds ==
    ASSUME NEW v \in VersionRecord, v.pre = <<>>, NEW low \in VersionRecord, NEW i \in 1..3
    PROVE  (\A c \in UpTo(i, low) : ClauseHolds(c, v)) <=>
               ~Below(v, low) /\ \A j \in 1..i : v.core[j] = low.core[j]
<1> DEFINE up == NextCore(i, low.core)
<1>1. low.core \in Core /\ v.core \in Core
  BY VersionParts
<1>2. up \in Core
  BY <1>1, NextShape
<1>3. UpTo(i, low) = {[op |-> ">=", bound |-> low], [op |-> "<", bound |-> Release(up)]}
  BY DEF UpTo, NextCore
<1> HIDE DEF up
<1>4. (\A c \in UpTo(i, low) : ClauseHolds(c, v)) <=> ~Below(v, low) /\ Below(v, Release(up))
  BY <1>3, Clauses
<1>5. Below(v, Release(up)) <=> CoreBelow(v.core, up)
  BY <1>2, ReleaseShape, ReleaseBelow
<1>6. Below(v, low) <=> CoreBelow(v.core, low.core)
  BY ReleaseBelow
<1>7. ~CoreBelow(v.core, low.core) => (CoreBelow(v.core, up) <=> \A j \in 1..i : v.core[j] = low.core[j])
  BY <1>1, BelowNext DEF up
<1> QED
  BY <1>4, <1>5, <1>6, <1>7

\* A token as the parser reads it, and the version its floor is.
Read(t) == t \in TokenRecord /\ AsRead(t)

Floor(t) == [core |-> Padded(t.nums), pre |-> t.pre]

\* The floor carries the numbers written, then zeros, and the pre-release.
LEMMA FloorShape ==
    ASSUME NEW t, Read(t)
    PROVE  /\ Floor(t) \in VersionRecord /\ Floor(t).core = Padded(t.nums) /\ Floor(t).pre = t.pre
           /\ t.nums \in Seq(Nat) /\ Given(t) \in 0..3 /\ Padded(t.nums) \in Core
           /\ t.nums # <<>> => Given(t) # 0
           /\ \A j \in 1..Given(t) : t.nums[j] \in Nat /\ Padded(t.nums)[j] = t.nums[j]
           /\ \A j \in 1..3 : j > Given(t) => Padded(t.nums)[j] = 0
           /\ Given(t) = 3 => Padded(t.nums) = t.nums
<1>1. t.nums \in Seq(Nat) /\ t.pre \in Seq(Nat) /\ Len(t.nums) <= 3
  BY DEF Read, AsRead, TokenRecord
<1>2. Len(t.nums) \in Nat /\ (t.nums # <<>> => Len(t.nums) # 0)
  BY <1>1, LenProperties, EmptySeq
<1>3. Padded(t.nums) \in Core /\ \A i \in 1..3 : Padded(t.nums)[i] = IF i <= Len(t.nums) THEN t.nums[i] ELSE 0
  BY <1>1, PaddedShape
<1>9. Len(t.nums) = 3 => Padded(t.nums) = t.nums
  BY <1>1, PaddedShape
<1>4. Floor(t) \in VersionRecord /\ Floor(t).core = Padded(t.nums) /\ Floor(t).pre = t.pre
  BY <1>1, <1>3 DEF Floor, VersionRecord, Core
<1>5. \A j \in 1..Len(t.nums) : t.nums[j] \in Nat
  BY <1>1, ElementOfSeq
<1>6. ASSUME NEW j \in 1..Len(t.nums) PROVE Padded(t.nums)[j] = t.nums[j]
  <2>1. j \in 1..3 /\ j <= Len(t.nums)
    BY <1>1, <1>2
  <2> QED
    BY <2>1, <1>3
<1>7. \A j \in 1..3 : j > Len(t.nums) => Padded(t.nums)[j] = 0
  BY <1>1, <1>2, <1>3
<1>8. Given(t) = Len(t.nums) /\ Given(t) \in 0..3
  <2>1. \A n \in Nat : n <= 3 => n \in 0..3
    OBVIOUS
  <2> QED
    BY <2>1, <1>1, <1>2, Zenon DEF Given
<1> QED
  BY <1>1, <1>2, <1>3, <1>4, <1>5, <1>6, <1>7, <1>8, <1>9

\* The numbers of the floor are the ones written, as far as they were.
LEMMA KeepsFloor ==
    ASSUME NEW t, Read(t), NEW v, NEW i \in 1..Given(t)
    PROVE  (\A j \in 1..i : v.core[j] = Floor(t).core[j]) <=> Keeps(v, t.nums, i)
<1>1. \A j \in 1..i : j \in 1..Given(t)
  BY FloorShape
<1>2. \A j \in 1..i : Floor(t).core[j] = t.nums[j]
  BY <1>1, FloorShape
<1> QED
  BY <1>2 DEF Keeps

\* The number a caret pins, as the table has it and as the code finds it.
Pin(t) == IF \E i \in 1..Given(t) : t.nums[i] > 0
          THEN CHOOSE i \in 1..Given(t) : t.nums[i] > 0 /\ \A j \in 1..(i-1) : t.nums[j] = 0
          ELSE Given(t)

CaretPlace(t) ==
    IF Floor(t).core[1] > 0 \/ Given(t) = 1 THEN 1
    ELSE IF Floor(t).core[2] > 0 \/ Given(t) = 2 THEN 2 ELSE 3

\* The two agree.
LEMMA CaretPins ==
    ASSUME NEW t, Read(t), t.nums # <<>>
    PROVE  CaretPlace(t) \in 1..Given(t) /\ CaretPlace(t) = Pin(t)
<1> DEFINE n == Given(t)
           m == t.nums
           k == CaretPlace(t)
<1>1. n \in 1..3 /\ \A j \in 1..n : m[j] \in Nat /\ Floor(t).core[j] = m[j]
  BY FloorShape
<1>2. \A j \in 1..3 : j > n => Floor(t).core[j] = 0
  BY FloorShape
<1>3. k \in 1..n /\ (\A j \in 1..(k-1) : m[j] = 0) /\ (m[k] > 0 \/ k = n)
  <2>1. CASE n = 1
    BY <2>1, <1>1 DEF CaretPlace
  <2>2. CASE n = 2
    BY <2>2, <1>1 DEF CaretPlace
  <2>3. CASE n = 3
    BY <2>3, <1>1 DEF CaretPlace
  <2> QED
    BY <1>1, <2>1, <2>2, <2>3
<1> HIDE DEF n, m, k
<1>4. CASE \E i \in 1..n : m[i] > 0
  <2>1. m[k] > 0
    <3>1. SUFFICES ASSUME k = n, ~(m[k] > 0) PROVE FALSE
      BY <1>3
    <3>2. \A j \in 1..n : j \in 1..(k-1) \/ j = k
      BY <3>1, <1>1
    <3> QED
      BY <1>1, <1>3, <1>4, <3>1, <3>2
  <2> DEFINE P(i) == m[i] > 0 /\ \A j \in 1..(i-1) : m[j] = 0
             c == CHOOSE i \in 1..n : P(i)
  <2>2. k \in 1..n /\ P(k)
    BY <2>1, <1>3
  <2>3. c \in 1..n /\ P(c)
    <3> HIDE DEF P
    <3> QED
      BY <2>2
  <2> HIDE DEF c
  <2>4. ~(k < c) /\ ~(c < k)
    BY <2>2, <2>3, <1>1
  <2>5. c = k
    BY <2>2, <2>3, <2>4, <1>1
  <2> QED
    BY <1>3, <1>4, <2>5 DEF Pin, c, n, m, k
<1>5. CASE ~\E i \in 1..n : m[i] > 0
  <2>1. k = n
    BY <1>3, <1>5
  <2> QED
    BY <1>1, <1>3, <1>5, <2>1 DEF Pin, n, m, k
<1> QED
  BY <1>4, <1>5

\* A caret range holds what the table admits.
LEMMA CaretAdmits ==
    ASSUME NEW t, Read(t), t.form = "^", t.nums # <<>>, NEW v \in VersionRecord, v.pre = <<>>
    PROVE  (\A c \in Comparators(t) : ClauseHolds(c, v)) <=> Admits(t, v)
<1>1. Floor(t) \in VersionRecord /\ CaretPlace(t) \in 1..3
  BY FloorShape, CaretPins
<1>2. Comparators(t) = UpTo(CaretPlace(t), Floor(t))
  <2>1. Comparators(t) = CaretRange(t)
    BY DEF Comparators, Comparison
  <2>2. CaretRange(t) = UpTo(CaretPlace(t), Floor(t))
    BY DEF CaretRange, CaretPlace, Floor
  <2> QED
    BY <2>1, <2>2
<1>3. Admits(t, v) <=> ~Below(v, Floor(t)) /\ Keeps(v, t.nums, Pin(t))
  BY DEF Admits, Floor, Pin, Comparison
<1>4. (\A j \in 1..CaretPlace(t) : v.core[j] = Floor(t).core[j]) <=> Keeps(v, t.nums, CaretPlace(t))
  BY KeepsFloor, CaretPins
<1> QED
  BY <1>1, <1>2, <1>3, <1>4, UpToHolds, CaretPins

\* So does a tilde range.
LEMMA TildeAdmits ==
    ASSUME NEW t, Read(t), t.form = "~", t.nums # <<>>, NEW v \in VersionRecord, v.pre = <<>>
    PROVE  (\A c \in Comparators(t) : ClauseHolds(c, v)) <=> Admits(t, v)
<1> DEFINE k == IF Given(t) = 1 THEN 1 ELSE 2
<1>1. Floor(t) \in VersionRecord /\ Given(t) \in 1..3
  BY FloorShape
<1>2. k \in 1..3 /\ k \in 1..Given(t) /\ k = IF Given(t) >= 2 THEN 2 ELSE 1
  BY <1>1
<1>3. Comparators(t) = UpTo(k, Floor(t))
  <2>1. Comparators(t) = TildeRange(t)
    BY DEF Comparators, Comparison
  <2> QED
    BY <2>1, <1>2 DEF TildeRange, Floor
<1>4. Admits(t, v) <=> ~Below(v, Floor(t)) /\ Keeps(v, t.nums, k)
  BY DEF Admits, Floor, Comparison
<1> HIDE DEF k
<1>5. (\A j \in 1..k : v.core[j] = Floor(t).core[j]) <=> Keeps(v, t.nums, k)
  BY <1>2, KeepsFloor
<1> QED
  BY <1>1, <1>2, <1>3, <1>4, <1>5, UpToHolds

\* A floor of zeros after the numbers written is no bound for what keeps them.
LEMMA KeptAbove ==
    ASSUME NEW t, Read(t), NEW v \in VersionRecord, v.pre = <<>>, Keeps(v, t.nums, Given(t))
    PROVE  ~Below(v, Release(Padded(t.nums)))
<1> DEFINE f == Padded(t.nums)
<1>1. f \in Core /\ v.core \in Core /\ Given(t) \in 0..3
  BY FloorShape, VersionParts
<1>2. \A j \in 1..3 : v.core[j] = f[j] \/ f[j] = 0
  <2> TAKE j \in 1..3
  <2>1. CASE j > Given(t)
    BY <2>1, FloorShape
  <2>2. CASE ~(j > Given(t))
    <3>1. j \in 1..Given(t)
      BY <2>2, <1>1
    <3>2. v.core[j] = t.nums[j]
      BY <3>1 DEF Keeps
    <3> QED
      BY <3>1, <3>2, FloorShape
  <2> QED
    BY <2>1, <2>2
<1> HIDE DEF f
<1>3. ~CoreBelow(v.core, f)
  <2>1. v.core[1] \in Nat /\ v.core[2] \in Nat /\ v.core[3] \in Nat
    BY <1>1, CoreIsSeq
  <2>2. (v.core[1] = f[1] \/ f[1] = 0) /\ (v.core[2] = f[2] \/ f[2] = 0) /\ (v.core[3] = f[3] \/ f[3] = 0)
    BY <1>2
  <2> QED
    BY <2>1, <2>2 DEF CoreBelow
<1>4. ~Below(v, Release(f))
  BY <1>1, <1>3, ReleaseShape, ReleaseBelow
<1> QED
  BY <1>4 DEF f

\* The range of a prefix holds what keeps the prefix.
LEMMA PrefixHolds ==
    ASSUME NEW t, Read(t), Given(t) \in 1..3, NEW v \in VersionRecord, v.pre = <<>>
    PROVE  (\A c \in UpTo(Given(t), Release(Padded(t.nums))) : ClauseHolds(c, v)) <=> Keeps(v, t.nums, Given(t))
<1> DEFINE low == Release(Padded(t.nums))
<1>1. low \in VersionRecord /\ low.core = Floor(t).core
  BY FloorShape, ReleaseShape
<1>2. Given(t) \in 1..Given(t)
  OBVIOUS
<1>3. (\A j \in 1..Given(t) : v.core[j] = low.core[j]) <=> Keeps(v, t.nums, Given(t))
  BY <1>1, <1>2, KeepsFloor
<1>4. Keeps(v, t.nums, Given(t)) => ~Below(v, low)
  BY KeptAbove
<1> HIDE DEF low
<1>5. (\A c \in UpTo(Given(t), low) : ClauseHolds(c, v)) <=>
          ~Below(v, low) /\ \A j \in 1..Given(t) : v.core[j] = low.core[j]
  BY <1>1, UpToHolds
<1> QED
  BY <1>3, <1>4, <1>5 DEF low

\* Of two releases, the keys are the same when the cores are.
LEMMA SameRelease ==
    ASSUME NEW v \in VersionRecord, NEW w \in VersionRecord, v.pre = <<>>, w.pre = <<>>
    PROVE  PrecedenceKey(v) = PrecedenceKey(w) <=> v.core = w.core
<1> DEFINE s == PrecedenceKey(v)
           t == PrecedenceKey(w)
<1>1. IsKey(s, v) /\ IsKey(t, w)
  BY KeyShape
<1>2. v.core = w.core => s = t
  BY DEF PrecedenceKey
<1> HIDE DEF s, t
<1>3. ASSUME s = t PROVE v.core = w.core
  <2>1. v.core[1] = w.core[1] /\ v.core[2] = w.core[2] /\ v.core[3] = w.core[3]
    BY <1>1, <1>3 DEF IsKey
  <2> QED
    BY <2>1, VersionParts, CoresDiffer
<1> QED
  BY <1>2, <1>3 DEF s, t

\* So does a bare core, wildcard or partial.
LEMMA BareAdmits ==
    ASSUME NEW t, Read(t), t.form = "bare", t.nums # <<>>, NEW v \in VersionRecord, v.pre = <<>>
    PROVE  (\A c \in Comparators(t) : ClauseHolds(c, v)) <=> Admits(t, v)
<1> DEFINE low == Release(Padded(t.nums))
<1>1. Given(t) \in 1..3 /\ t.nums \in Seq(Nat)
  BY FloorShape
<1>2. Comparators(t) = BareRange(t)
  BY DEF Comparators, Comparison
<1>3. Admits(t, v) <=> Keeps(v, t.nums, Given(t))
  BY DEF Admits, Comparison
<1>4. (\A c \in UpTo(Given(t), low) : ClauseHolds(c, v)) <=> Keeps(v, t.nums, Given(t))
  BY <1>1, PrefixHolds
<1> HIDE DEF low
<1>5. CASE t.wildcard
  <2>1. Given(t) <= 2
    BY <1>5 DEF Read, AsRead, Given
  <2>2. Given(t) = IF Given(t) = 1 THEN 1 ELSE 2
    BY <1>1, <2>1
  <2>3. BareRange(t) = UpTo(Given(t), low)
    BY <1>5, <2>2 DEF BareRange, low
  <2> QED
    BY <1>2, <1>3, <1>4, <2>3
<1>6. CASE ~t.wildcard /\ Given(t) # 3
  <2>1. BareRange(t) = UpTo(Given(t), low)
    BY <1>6 DEF BareRange, low
  <2> QED
    BY <1>2, <1>3, <1>4, <2>1
<1>7. CASE ~t.wildcard /\ Given(t) = 3
  <2>1. BareRange(t) = {[op |-> "=", bound |-> Release(t.nums)]}
    BY <1>7 DEF BareRange
  <2>2. t.nums = Padded(t.nums) /\ t.nums \in Core
    <3>1. Padded(t.nums) \in Core /\ (Given(t) = 3 => Padded(t.nums) = t.nums)
      BY FloorShape
    <3> QED
      BY <3>1, <1>7
  <2>3. (\A c \in BareRange(t) : ClauseHolds(c, v)) <=> PrecedenceKey(v) = PrecedenceKey(Release(t.nums))
    <3> DEFINE exact == [op |-> "=", bound |-> Release(t.nums)]
    <3>1. ClauseHolds(exact, v) <=> PrecedenceKey(v) = PrecedenceKey(Release(t.nums))
      BY Clauses
    <3>2. BareRange(t) = {exact}
      BY <2>1
    <3> HIDE DEF exact
    <3> QED
      BY <3>1, <3>2
  <2>4. PrecedenceKey(v) = PrecedenceKey(Release(t.nums)) <=> v.core = t.nums
    BY <2>2, ReleaseShape, SameRelease
  <2>5. Keeps(v, t.nums, Given(t)) <=> v.core[1] = t.nums[1] /\ v.core[2] = t.nums[2] /\ v.core[3] = t.nums[3]
    BY <1>7 DEF Keeps
  <2>6. v.core = t.nums <=> v.core[1] = t.nums[1] /\ v.core[2] = t.nums[2] /\ v.core[3] = t.nums[3]
    BY <2>2, VersionParts, CoresDiffer
  <2> QED
    BY <1>2, <1>3, <2>3, <2>4, <2>5, <2>6
<1> QED
  BY <1>5, <1>6, <1>7

\* The numbers of a, up to the n-th, are after those of h.
After(a, h, n) == \E i \in 1..n : h[i] < a[i] /\ \A j \in 1..(i - 1) : h[j] = a[j]

\* The order of tuples, for tuples of the same few numbers.
LEMMA ShortTuples ==
    ASSUME NEW h \in Seq(Nat), Len(h) \in 1..3, NEW a \in Core
    PROVE  TupleBelow(h, SubSeq(a, 1, Len(h))) <=> After(a, h, Len(h))
<1> DEFINE n == Len(h)
           s == SubSeq(a, 1, n)
<1>1. a \in Seq(Nat) /\ Len(a) = 3
  BY CoreIsSeq
<1>2. Len(s) = n /\ \A i \in 1..n : s[i] = a[i]
  BY <1>1
<1>3. n \in 1..3
  OBVIOUS
<1> HIDE DEF n, s
<1>4. ASSUME TupleBelow(h, s) PROVE After(a, h, n)
  <2>1. PICK i \in 1..n : (\A j \in 1..(i - 1) : h[j] = s[j]) /\ (i > n \/ h[i] < s[i])
    BY <1>4, <1>2 DEF TupleBelow, n
  <2>2. h[i] < a[i]
    BY <2>1, <1>2, <1>3
  <2>3. \A j \in 1..(i - 1) : h[j] = a[j]
    BY <2>1, <1>2, <1>3
  <2> QED
    BY <2>2, <2>3 DEF After
<1>5. ASSUME After(a, h, n) PROVE TupleBelow(h, s)
  <2>1. PICK i \in 1..n : h[i] < a[i] /\ \A j \in 1..(i - 1) : h[j] = a[j]
    BY <1>5 DEF After
  <2>2. h[i] < s[i] /\ i \in 1..Len(s) /\ i <= n + 1
    BY <2>1, <1>2, <1>3
  <2>3. \A j \in 1..(i - 1) : h[j] = s[j]
    BY <2>1, <1>2, <1>3
  <2> QED
    BY <2>2, <2>3 DEF TupleBelow, n
<1> QED
  BY <1>4, <1>5 DEF n, s

\* The same, written out.
LEMMA AfterByNumber ==
    ASSUME NEW a, NEW h
    PROVE  /\ After(a, h, 1) <=> h[1] < a[1]
           /\ After(a, h, 2) <=> h[1] < a[1] \/ (h[1] = a[1] /\ h[2] < a[2])
           /\ After(a, h, 3) <=> CoreBelow(h, a)
<1>1. After(a, h, 1) <=> h[1] < a[1]
  BY DEF After
<1>2. After(a, h, 2) <=> h[1] < a[1] \/ (h[1] = a[1] /\ h[2] < a[2])
  BY DEF After
<1>3. After(a, h, 3) <=> CoreBelow(h, a)
  <2>1. ASSUME NEW i \in 1..3, h[i] < a[i], \A j \in 1..(i - 1) : h[j] = a[j] PROVE CoreBelow(h, a)
    BY <2>1 DEF CoreBelow
  <2>2. ASSUME CoreBelow(h, a)
        PROVE  \/ h[1] < a[1]
               \/ h[2] < a[2] /\ \A j \in 1..1 : h[j] = a[j]
               \/ h[3] < a[3] /\ \A j \in 1..2 : h[j] = a[j]
    BY <2>2 DEF CoreBelow
  <2> QED
    BY <2>1, <2>2 DEF After
<1> QED
  BY <1>1, <1>2, <1>3

\* What is below the next value of component n is not after the bound, up to n.
LEMMA NotAfter ==
    ASSUME NEW a \in Core, NEW h \in Core, NEW n \in 1..2
    PROVE  CoreBelow(a, NextCore(n, h)) <=> ~After(a, h, n)
<1> DEFINE up == NextCore(n, h)
<1>1. /\ a[1] \in Nat /\ a[2] \in Nat /\ a[3] \in Nat
      /\ h[1] \in Nat /\ h[2] \in Nat /\ h[3] \in Nat
  BY CoreIsSeq
<1>2. \A j \in 1..3 : up[j] = IF j < n THEN h[j] ELSE IF j = n THEN h[j] + 1 ELSE 0
  BY NextShape
<1> SUFFICES CoreBelow(a, up) <=> ~After(a, h, n)
  OBVIOUS
<1> HIDE DEF up
<1>3. CASE n = 1
  <2>1. up[1] = h[1] + 1 /\ up[2] = 0 /\ up[3] = 0
    BY <1>2, <1>3
  <2>2. After(a, h, n) <=> h[1] < a[1]
    BY <1>3, AfterByNumber
  <2> QED
    BY <1>1, <2>1, <2>2 DEF CoreBelow
<1>4. CASE n = 2
  <2>1. up[1] = h[1] /\ up[2] = h[2] + 1 /\ up[3] = 0
    BY <1>2, <1>4
  <2>2. After(a, h, n) <=> h[1] < a[1] \/ (h[1] = a[1] /\ h[2] < a[2])
    BY <1>4, AfterByNumber
  <2> QED
    BY <1>1, <2>1, <2>2 DEF CoreBelow
<1> QED
  BY <1>3, <1>4

\* The upper clause of a hyphen range.
HyphenTop(t) ==
    IF Len(t.high) = 3 THEN {[op |-> "<=", bound |-> Release(t.high)]}
    ELSE {[op |-> "<", bound |-> Release(NextCore(Len(t.high), Padded(t.high)))]}

\* A hyphen range is its floor and its upper clause.
LEMMA HyphenClauses ==
    ASSUME NEW t, Read(t), t.form = "hyphen", t.high # <<>>
    PROVE  /\ t.high \in Seq(Nat) /\ Len(t.high) \in 1..3
           /\ Padded(t.high) \in Core /\ Padded(t.high)[1] = t.high[1]
           /\ Len(t.high) # 1 => Padded(t.high)[2] = t.high[2]
           /\ Len(t.high) = 3 => Padded(t.high) = t.high
           /\ Comparators(t) = {[op |-> ">=", bound |-> Release(Padded(t.nums))]} \cup HyphenTop(t)
<1>1. t.high \in Seq(Nat) /\ Len(t.high) <= 3
  BY DEF Read, AsRead, TokenRecord
<1>2. Len(t.high) \in 1..3
  <2>1. Len(t.high) \in Nat \ {0}
    BY <1>1, EmptySeq
  <2>2. \A n \in Nat \ {0} : n <= 3 => n \in 1..3
    OBVIOUS
  <2> QED
    BY <1>1, <2>1, <2>2
<1>3. Comparators(t) = HyphenRange(t)
  BY DEF Comparators, Comparison
<1> DEFINE all == Comparators(t) = {[op |-> ">=", bound |-> Release(Padded(t.nums))]} \cup HyphenTop(t)
<1>4. ASSUME Len(t.high) = 3 PROVE all
  <2>1. {c \in {[op |-> "<=", bound |-> Release(t.high)]} : c.op # ">="} = {[op |-> "<=", bound |-> Release(t.high)]}
    OBVIOUS
  <2>2. HyphenRange(t) = {[op |-> ">=", bound |-> Release(Padded(t.nums))]} \cup HyphenTop(t)
    BY <1>4, <2>1 DEF HyphenRange, HyphenTop
  <2> QED
    BY <1>3, <2>2
<1>5. ASSUME Len(t.high) # 3 PROVE all
  <2> DEFINE k == Len(t.high)
             low == Release(Padded(t.high))
             up == [op |-> "<", bound |-> Release(NextCore(k, Padded(t.high)))]
  <2>1. k = IF k = 2 THEN 2 ELSE 1
    <3>1. \A i \in 1..3 : i # 3 => i = IF i = 2 THEN 2 ELSE 1
      OBVIOUS
    <3> QED
      BY <3>1, <1>2, <1>5
  <2>2. UpTo(k, low) = {[op |-> ">=", bound |-> low], up}
    BY DEF UpTo, NextCore, Release
  <2>3. {c \in {[op |-> ">=", bound |-> low], up} : c.op # ">="} = {up}
    OBVIOUS
  <2>4. HyphenTop(t) = {up}
    BY <1>5 DEF HyphenTop
  <2>5. HyphenRange(t) = {[op |-> ">=", bound |-> Release(Padded(t.nums))]} \cup {c \in UpTo(k, low) : c.op # ">="}
    BY <1>5, <2>1 DEF HyphenRange
  <2> HIDE DEF k, low, up
  <2>6. HyphenRange(t) = {[op |-> ">=", bound |-> Release(Padded(t.nums))]} \cup HyphenTop(t)
    BY <2>2, <2>3, <2>4, <2>5
  <2> QED
    BY <1>3, <2>6
<1>6. Padded(t.high) \in Core /\ (Len(t.high) = 3 => Padded(t.high) = t.high)
  BY <1>1, PaddedShape, Zenon
<1>7. \A i \in 1..3 : Padded(t.high)[i] = IF i <= Len(t.high) THEN t.high[i] ELSE 0
  BY <1>1, PaddedShape, Zenon
<1>8. Padded(t.high)[1] = t.high[1] /\ (Len(t.high) # 1 => Padded(t.high)[2] = t.high[2])
  BY <1>2, <1>7
<1> QED
  BY <1>1, <1>2, <1>4, <1>5, <1>6, <1>8

\* A hyphen range holds what lies between its bounds.
LEMMA HyphenAdmits ==
    ASSUME NEW t, Read(t), t.form = "hyphen", t.high # <<>>, t.pre = <<>>, NEW v \in VersionRecord, v.pre = <<>>
    PROVE  (\A c \in Comparators(t) : ClauseHolds(c, v)) <=> Admits(t, v)
<1> DEFINE n == Len(t.high)
<1>1. t.high \in Seq(Nat) /\ n \in 1..3 /\ Padded(t.high) \in Core /\ v.core \in Core
  BY HyphenClauses, VersionParts
<1>2. Floor(t) = Release(Padded(t.nums))
  BY DEF Floor, Release
<1>3. (\A c \in Comparators(t) : ClauseHolds(c, v)) <=>
          ~Below(v, Floor(t)) /\ \A c \in HyphenTop(t) : ClauseHolds(c, v)
  <2> DEFINE floor == [op |-> ">=", bound |-> Floor(t)]
  <2>1. Comparators(t) = {floor} \cup HyphenTop(t)
    BY <1>2, HyphenClauses
  <2>2. ClauseHolds(floor, v) <=> ~Below(v, Floor(t))
    BY Clauses
  <2> HIDE DEF floor
  <2> QED
    BY <2>1, <2>2
<1>4. Admits(t, v) <=> ~Below(v, Floor(t)) /\ ~After(v.core, t.high, n)
  <2>1. Admits(t, v) <=> ~Below(v, Floor(t)) /\ ~TupleBelow(t.high, SubSeq(v.core, 1, Len(t.high)))
    BY DEF Admits, Floor, Comparison
  <2> QED
    BY <2>1, <1>1, ShortTuples
<1>5. CASE n = 3
  <2>1. Padded(t.high) = t.high
    BY <1>5, HyphenClauses
  <2>2. HyphenTop(t) = {[op |-> "<=", bound |-> Release(t.high)]}
    BY <1>5 DEF HyphenTop
  <2>3. (\A c \in HyphenTop(t) : ClauseHolds(c, v)) <=> ~Below(Release(t.high), v)
    BY <2>2, Clauses
  <2>4. Below(Release(t.high), v) <=> CoreBelow(t.high, v.core)
    BY <1>1, <2>1, ReleaseShape, ReleaseBelow
  <2> QED
    BY <1>3, <1>4, <1>5, <2>3, <2>4, AfterByNumber
<1>6. CASE n # 3
  <2> DEFINE h == Padded(t.high)
             up == NextCore(n, h)
  <2>1. n \in 1..2 /\ n \in 1..3
    BY <1>1, <1>6
  <2>2. up \in Core
    BY <1>1, <2>1, NextShape
  <2>3. HyphenTop(t) = {[op |-> "<", bound |-> Release(up)]}
    BY <1>6 DEF HyphenTop
  <2>4. h[1] = t.high[1] /\ (n = 2 => h[2] = t.high[2])
    BY <2>1, HyphenClauses
  <2>5. After(v.core, h, n) <=> After(v.core, t.high, n)
    <3> HIDE DEF h, n
    <3>1. n = 1 \/ n = 2
      BY <2>1
    <3> QED
      BY <3>1, <2>4, AfterByNumber
  <2>6. CoreBelow(v.core, up) <=> ~After(v.core, h, n)
    BY <1>1, <2>1, NotAfter
  <2> HIDE DEF up, h
  <2>7. Below(v, Release(up)) <=> CoreBelow(v.core, up)
    BY <2>2, ReleaseShape, ReleaseBelow
  <2>8. (\A c \in HyphenTop(t) : ClauseHolds(c, v)) <=> Below(v, Release(up))
    BY <2>3, Clauses
  <2> QED
    BY <1>3, <1>4, <2>5, <2>6, <2>7, <2>8
<1> QED
  BY <1>5, <1>6

\* The clause of a comparator is what the table says of it.
LEMMA OrderAdmits ==
    ASSUME NEW t, Read(t), t.form \in Comparison, Given(t) = 3, NEW v
    PROVE  /\ Comparators(t) = {[op |-> t.form, bound |-> Floor(t)]}
           /\ Admits(t, v) <=> ClauseHolds([op |-> t.form, bound |-> Floor(t)], v)
<1>1. t.form \notin {"^", "~", "bare", "hyphen", "*"}
  BY DEF Comparison
<1>3. Padded(t.nums) = t.nums
  BY FloorShape
<1>4. Comparators(t) = {[op |-> t.form, bound |-> [core |-> t.nums, pre |-> t.pre]]}
  BY <1>1 DEF Comparators
<1>5. Admits(t, v) <=> ClauseHolds([op |-> t.form, bound |-> [core |-> Padded(t.nums), pre |-> t.pre]], v)
  BY <1>1 DEF Admits
<1> QED
  BY <1>3, <1>4, <1>5 DEF Floor

\* A token the table speaks of, that is not refused.
Taken(t) == Read(t) /\ Begun(t) /\ ~Refused(t)

\* The forms such a token has.
LEMMA TakenForms ==
    ASSUME NEW t, Taken(t)
    PROVE  /\ Read(t)
           /\ \/ t.form \in {"^", "~"} /\ t.nums # <<>>
              \/ t.form = "bare" /\ t.nums # <<>> /\ t.pre = <<>>
              \/ t.form = "hyphen" /\ t.high # <<>> /\ t.pre = <<>>
              \/ t.form = "*" /\ t.pre = <<>>
              \/ t.form \in Comparison /\ Given(t) = 3
<1>1. t.form \in Comparison \cup {"^", "~", "bare", "hyphen", "*"}
  BY DEF Taken, Read, TokenRecord
<1>2. t.form \in Comparison => Given(t) = 3
  BY FloorShape DEF Taken, Refused
<1>3. t.form \in {"bare", "hyphen"} => t.pre = <<>>
  BY DEF Taken, Refused
<1>4. t.form = "*" => t.pre = <<>>
  BY DEF Taken, Read, AsRead
<1>5. (t.form # "*" => t.nums # <<>>) /\ (t.form = "hyphen" => t.high # <<>>)
  BY DEF Taken, Begun
<1> QED
  BY <1>1, <1>2, <1>3, <1>4, <1>5 DEF Taken

\* Any token's clauses hold of a release exactly when the table admits it.
LEMMA TokenAdmits ==
    ASSUME NEW t, Taken(t), NEW v \in VersionRecord, v.pre = <<>>
    PROVE  (\A c \in Comparators(t) : ClauseHolds(c, v)) <=> Admits(t, v)
<1>1. Read(t)
  BY TakenForms
<1>2. CASE t.form = "^" /\ t.nums # <<>>
  BY <1>1, <1>2, CaretAdmits
<1>3. CASE t.form = "~" /\ t.nums # <<>>
  BY <1>1, <1>3, TildeAdmits
<1>4. CASE t.form = "bare" /\ t.nums # <<>>
  BY <1>1, <1>4, BareAdmits
<1>5. CASE t.form = "hyphen" /\ t.high # <<>> /\ t.pre = <<>>
  BY <1>1, <1>5, HyphenAdmits
<1>6. CASE t.form = "*"
  <2>1. Comparators(t) = {}
    BY <1>6 DEF Comparators, Comparison
  <2>2. Admits(t, v)
    BY <1>6 DEF Admits, Comparison
  <2> QED
    BY <2>1, <2>2
<1>7. CASE t.form \in Comparison /\ Given(t) = 3
  BY <1>1, <1>7, OrderAdmits
<1> QED
  BY <1>2, <1>3, <1>4, <1>5, <1>6, <1>7, TakenForms

\* A pre-release holds the clauses of a range on a pre-release exactly when it
\* is one of the same core that is not below it.
LEMMA PreHolds ==
    ASSUME NEW v \in VersionRecord, v.pre # <<>>, NEW low \in VersionRecord, low.pre # <<>>, NEW i \in 1..3
    PROVE  RequirementHolds(UpTo(i, low), v) <=> ~Below(v, low) /\ v.core = low.core
<1> DEFINE up == NextCore(i, low.core)
           atLeast == [op |-> ">=", bound |-> low]
           under == [op |-> "<", bound |-> Release(up)]
<1>1. low.core \in Core /\ v.core \in Core /\ up \in Core
  BY VersionParts, NextShape
<1>2. UpTo(i, low) = {atLeast, under}
  BY DEF UpTo, NextCore
<1>3. Release(up) \in VersionRecord /\ Release(up).core = up /\ Release(up).pre = <<>>
  BY <1>1, ReleaseShape
<1>4. ASSUME v.core = low.core PROVE Below(v, Release(up))
  <2>0. v.core[1] \in Nat /\ v.core[2] \in Nat /\ v.core[3] \in Nat
    BY <1>1, CoreIsSeq
  <2>1. ~CoreBelow(v.core, low.core) /\ ~CoreBelow(v.core, v.core)
    BY <1>4, <2>0 DEF CoreBelow
  <2>2. CoreBelow(v.core, up)
    BY <1>1, <1>4, <2>1, BelowNext
  <2>3. v.core # up
    BY <2>1, <2>2
  <2> QED
    BY <1>3, <2>2, <2>3, CoresDecide
<1>5. /\ ClauseHolds(atLeast, v) <=> ~Below(v, low)
      /\ ClauseHolds(under, v) <=> Below(v, Release(up))
      /\ atLeast.bound = low /\ under.bound = Release(up)
  BY Clauses
<1> HIDE DEF up, atLeast, under
<1> QED
  BY <1>2, <1>3, <1>4, <1>5 DEF RequirementHolds

\* A token that names a pre-release holds the ones of its core it admits.
LEMMA PreAdmits ==
    ASSUME NEW t, Taken(t), t.pre # <<>>, NEW v \in VersionRecord, v.pre # <<>>
    PROVE  RequirementHolds(Comparators(t), v) <=> Admits(t, v) /\ v.core = Padded(t.nums)
<1>1. Read(t)
  BY TakenForms
<1>2. Floor(t) \in VersionRecord /\ Floor(t).core = Padded(t.nums) /\ Floor(t).pre = t.pre
  BY <1>1, FloorShape
<1>3. ASSUME t.form \in {"^", "~"}, t.nums # <<>>
      PROVE  RequirementHolds(Comparators(t), v) <=> Admits(t, v) /\ v.core = Padded(t.nums)
  <2>1. PICK k \in 1..Given(t) : /\ Comparators(t) = UpTo(k, Floor(t))
                                 /\ Admits(t, v) <=> ~Below(v, Floor(t)) /\ Keeps(v, t.nums, k)
    <3>1. CASE t.form = "^"
      <4>1. Comparators(t) = CaretRange(t)
        BY <3>1 DEF Comparators, Comparison
      <4>2. CaretRange(t) = UpTo(CaretPlace(t), Floor(t))
        BY DEF CaretRange, CaretPlace, Floor
      <4>3. Admits(t, v) <=> ~Below(v, Floor(t)) /\ Keeps(v, t.nums, Pin(t))
        BY <3>1 DEF Admits, Floor, Pin, Comparison
      <4> QED
        BY <1>1, <1>3, <4>1, <4>2, <4>3, CaretPins
    <3>2. CASE t.form = "~"
      <4> DEFINE k == IF Given(t) = 1 THEN 1 ELSE 2
      <4>1. Given(t) \in 1..3
        BY <1>1, <1>3, FloorShape
      <4>2. k \in 1..Given(t) /\ k = IF Given(t) >= 2 THEN 2 ELSE 1
        BY <4>1
      <4>3. Comparators(t) = TildeRange(t)
        BY <3>2 DEF Comparators, Comparison
      <4>4. TildeRange(t) = UpTo(k, Floor(t))
        BY <4>2 DEF TildeRange, Floor
      <4>5. Admits(t, v) <=> ~Below(v, Floor(t)) /\ Keeps(v, t.nums, k)
        BY <3>2 DEF Admits, Floor, Comparison
      <4> HIDE DEF k
      <4> QED
        BY <4>2, <4>3, <4>4, <4>5
    <3> QED
      BY <1>3, <3>1, <3>2
  <2>2. k \in 1..3
    <3>1. Given(t) \in 0..3
      BY <1>1, FloorShape
    <3> QED
      BY <2>1, <3>1
  <2>3. RequirementHolds(Comparators(t), v) <=> ~Below(v, Floor(t)) /\ v.core = Padded(t.nums)
    BY <1>2, <2>1, <2>2, PreHolds
  <2>4. v.core = Padded(t.nums) => Keeps(v, t.nums, k)
    BY <1>1, <1>2, <2>1, KeepsFloor
  <2> QED
    BY <2>1, <2>3, <2>4
<1>4. ASSUME t.form \in Comparison, Given(t) = 3
      PROVE  RequirementHolds(Comparators(t), v) <=> Admits(t, v) /\ v.core = Padded(t.nums)
  <2> DEFINE c == [op |-> t.form, bound |-> Floor(t)]
  <2>1. Comparators(t) = {c} /\ (Admits(t, v) <=> ClauseHolds(c, v))
    BY <1>1, <1>4, OrderAdmits
  <2>2. c.bound = Floor(t)
    OBVIOUS
  <2> HIDE DEF c
  <2> QED
    BY <1>2, <2>1, <2>2 DEF RequirementHolds
<1> QED
  BY <1>3, <1>4, TakenForms

\* The clauses of a token without a pre-release carry none.
LEMMA PlainClauses ==
    ASSUME NEW t, Taken(t), t.pre = <<>>
    PROVE  \A c \in Comparators(t) : c.bound.pre = <<>>
<1>1. Read(t)
  BY TakenForms
<1>2. ASSUME NEW low, low.pre = <<>>, NEW i PROVE \A c \in UpTo(i, low) : c.bound.pre = <<>>
  BY <1>2 DEF UpTo, Release
<1>3. Floor(t).pre = <<>>
  BY DEF Floor
<1>4. CASE t.form = "^"
  <2>1. Comparators(t) = UpTo(CaretPlace(t), Floor(t))
    <3>1. Comparators(t) = CaretRange(t)
      BY <1>4 DEF Comparators, Comparison
    <3>2. CaretRange(t) = UpTo(CaretPlace(t), Floor(t))
      BY DEF CaretRange, CaretPlace, Floor
    <3> QED
      BY <3>1, <3>2
  <2> QED
    BY <1>2, <1>3, <2>1
<1>5. CASE t.form = "~"
  <2>1. Comparators(t) = TildeRange(t)
    BY <1>5 DEF Comparators, Comparison
  <2>2. TildeRange(t) = UpTo(IF Given(t) >= 2 THEN 2 ELSE 1, Floor(t))
    BY DEF TildeRange, Floor
  <2> QED
    BY <1>2, <1>3, <2>1, <2>2
<1>6. CASE t.form = "bare"
  <2> DEFINE low == Release(Padded(t.nums))
  <2>1. Comparators(t) = BareRange(t)
    BY <1>6 DEF Comparators, Comparison
  <2>2. low.pre = <<>> /\ Release(t.nums).pre = <<>>
    BY DEF Release
  <2>3. \/ BareRange(t) = UpTo(IF Given(t) = 1 THEN 1 ELSE 2, low)
        \/ BareRange(t) = {[op |-> "=", bound |-> Release(t.nums)]}
        \/ BareRange(t) = UpTo(Given(t), low)
    BY DEF BareRange
  <2>4. \A c \in {[op |-> "=", bound |-> Release(t.nums)]} : c.bound.pre = <<>>
    BY <2>2
  <2> HIDE DEF low
  <2> QED
    BY <1>2, <2>1, <2>2, <2>3, <2>4
<1>7. CASE t.form = "hyphen" /\ t.high # <<>>
  <2>1. \A c \in HyphenTop(t) : c.bound.pre = <<>>
    BY DEF HyphenTop, Release
  <2>2. Comparators(t) = {[op |-> ">=", bound |-> Release(Padded(t.nums))]} \cup HyphenTop(t)
    BY <1>1, <1>7, HyphenClauses
  <2>3. Release(Padded(t.nums)).pre = <<>>
    BY DEF Release
  <2> QED
    BY <2>1, <2>2, <2>3
<1>8. CASE t.form = "*"
  BY <1>8 DEF Comparators, Comparison
<1>9. CASE t.form \in Comparison /\ Given(t) = 3
  <2> DEFINE c == [op |-> t.form, bound |-> Floor(t)]
  <2>1. Comparators(t) = {c}
    BY <1>1, <1>9, OrderAdmits
  <2>2. c.bound = Floor(t)
    OBVIOUS
  <2> HIDE DEF c
  <2> QED
    BY <1>3, <2>1, <2>2
<1> QED
  BY <1>4, <1>5, <1>6, <1>7, <1>8, <1>9, TakenForms

-----------------------------------------------------------------------------
(* A requirement as a whole, and the command's answer *)

\* A token names a pre-release of the version's core.
Named(req, v) == \E i \in 1..Len(req) : req[i].pre # <<>> /\ v.core = Padded(req[i].nums)

\* What the documentation says of a requirement.
Listed(req, v) == (\A i \in 1..Len(req) : Admits(req[i], v)) /\ (v.pre # <<>> => Named(req, v))

\* The requirement as a whole.
LEMMA RequirementAdmits ==
    ASSUME NEW req, \A i \in 1..Len(req) : Taken(req[i]),
           Len(req) = 1 \/ \A i \in 1..Len(req) : req[i].pre = <<>>,
           NEW v \in VersionRecord
    PROVE  RequirementHolds(ParsedRequirement(req), v) <=> Listed(req, v)
<1>1. CASE v.pre = <<>>
  <2>1. \A i \in 1..Len(req) : (\A c \in Comparators(req[i]) : ClauseHolds(c, v)) <=> Admits(req[i], v)
    BY <1>1, TokenAdmits
  <2>2. (\A c \in ParsedRequirement(req) : ClauseHolds(c, v)) <=>
            \A i \in 1..Len(req) : \A c \in Comparators(req[i]) : ClauseHolds(c, v)
    BY DEF ParsedRequirement
  <2> QED
    BY <1>1, <2>1, <2>2 DEF RequirementHolds, Listed
<1>2. CASE v.pre # <<>> /\ \A i \in 1..Len(req) : req[i].pre = <<>>
  <2>1. \A i \in 1..Len(req) : \A c \in Comparators(req[i]) : c.bound.pre = <<>>
    BY <1>2, PlainClauses
  <2>2. \A c \in ParsedRequirement(req) : c.bound.pre = <<>>
    BY <2>1 DEF ParsedRequirement
  <2> QED
    BY <1>2, <2>2 DEF RequirementHolds, Listed, Named
<1>3. CASE v.pre # <<>> /\ Len(req) = 1 /\ req[1].pre # <<>>
  <2>1. \A i \in 1..Len(req) : i = 1
    BY <1>3
  <2>2. 1 \in 1..Len(req)
    BY <1>3
  <2>3. ParsedRequirement(req) = Comparators(req[1])
    BY <2>1, <2>2 DEF ParsedRequirement
  <2>4. RequirementHolds(Comparators(req[1]), v) <=> Admits(req[1], v) /\ v.core = Padded(req[1].nums)
    BY <1>3, <2>2, PreAdmits
  <2>5. Listed(req, v) <=> Admits(req[1], v) /\ v.core = Padded(req[1].nums)
    BY <1>3, <2>1, <2>2 DEF Listed, Named
  <2> QED
    BY <2>3, <2>4, <2>5
<1>4. Len(req) = 1 => ((\A i \in 1..Len(req) : req[i].pre = <<>>) \/ req[1].pre # <<>>)
  OBVIOUS
<1> QED
  BY <1>1, <1>2, <1>3, <1>4

\* What the command answers, and nothing else.
Verdict(req, v) ==
    IF ~ParsesRequirement(req) THEN "malformed"
    ELSE IF RequirementHolds(ParsedRequirement(req), v) THEN "satisfies" ELSE "does not"

Answered ==
    \/ answer = NoAnswer
    \/ \E v \in Version : \E req \in Requirement :
          answer = [asked |-> TRUE, version |-> v, req |-> req, says |-> Verdict(req, v)]

\* Every such answer is the documented one.
LEMMA AnswerDocumented == Answered => SatisfiesAsDocumented
<1>1. CASE answer = NoAnswer
  BY <1>1 DEF NoAnswer, SatisfiesAsDocumented
<1>2. ASSUME NEW v \in Version, NEW req \in Requirement,
             answer = [asked |-> TRUE, version |-> v, req |-> req, says |-> Verdict(req, v)]
      PROVE  SatisfiesAsDocumented
  <2>1. answer.version = v /\ answer.req = req /\ answer.says = Verdict(req, v)
    BY <1>2
  <2>2. v \in VersionRecord /\ req \in Seq(TokenRecord) /\ \A i \in DOMAIN req : AsRead(req[i])
    BY SemverAssumption
  <2>3. DOMAIN req = 1..Len(req) /\ \A i \in DOMAIN req : req[i] \in TokenRecord
    BY <2>2, LenProperties, ElementOfSeq
  <2>4. SUFFICES ASSUME answer.says # "malformed",
                        Len(req) = 1 \/ \A i \in DOMAIN req : req[i].pre = <<>>,
                        \A i \in DOMAIN req : Begun(req[i])
                 PROVE  answer.says = "satisfies" <=> Listed(req, v)
    BY <2>1 DEF SatisfiesAsDocumented, Listed, Named
  <2>5. ParsesRequirement(req)
    BY <2>1, <2>4 DEF Verdict
  <2>6. \A i \in 1..Len(req) : Taken(req[i])
    BY <2>2, <2>3, <2>4, <2>5 DEF ParsesRequirement, Taken, Read
  <2>7. RequirementHolds(ParsedRequirement(req), v) <=> Listed(req, v)
    BY <2>2, <2>3, <2>4, <2>6, RequirementAdmits
  <2> QED
    BY <2>1, <2>5, <2>7 DEF Verdict
<1> QED
  BY <1>1, <1>2 DEF Answered

\* hls-pkg semver sat says of every version and requirement, of any numbers and
\* any number of tokens, what the table of the dialect says.
THEOREM RequirementsAsDocumented == SemverSpec => []SatisfiesAsDocumented
<1>1. SemverInit => Answered
  BY DEF SemverInit, Answered
<1>2. Answered /\ [SemverNext]_answer => Answered'
  <2>1. Answered /\ Sat => Answered'
    BY DEF Answered, Sat, Verdict
  <2>2. Answered /\ UNCHANGED answer => Answered'
    BY DEF Answered
  <2> QED
    BY <2>1, <2>2 DEF SemverNext
<1> QED
  BY <1>1, <1>2, AnswerDocumented, PTL DEF SemverSpec

-----------------------------------------------------------------------------
(* The package manager: what a lock that verifies was checked against *)

PkgFunctions ==
    /\ DOMAIN manifest = Project /\ DOMAIN lockfile = Project
    /\ DOMAIN job = Project /\ DOMAIN verdict = Project

\* The clause of Enforced, of the commit a hash is of.
Accepted(r, d, c) == d # NoRequirement => Meets(d, Claimed(r, c))

\* Unless another project crossed it, the requirement is about to be held against
\* the code that was hashed.
HashIsCheckedOut ==
    \A p \in Project \ crossed : job[p].pc = "enforce" /\ Cached => clone.head = job[p].sha

\* A lock being made was accepted under the manifest it is made from, which stays
\* until it is written.
LockToBeIsAccepted ==
    \A p \in Project \ crossed : job[p].pc \in {"audit", "commit", "write"} =>
        Accepted(manifest[p].ref, manifest[p].requires, job[p].sha)

LockIsAccepted ==
    \A p \in Project \ crossed : lockfile[p].present =>
        Accepted(lockfile[p].ref, lockfile[p].requires, lockfile[p].sha)

VerifiedAsLocked ==
    \A p \in Project :
        /\ job[p].pc = "verify" => lockfile[p].present
        /\ verdict[p] = "verified" => lockfile[p].present /\ manifest[p].requires = lockfile[p].requires

PkgInv == PkgFunctions /\ HashIsCheckedOut /\ LockToBeIsAccepted /\ LockIsAccepted /\ VerifiedAsLocked

\* No project has a lock.
LEMMA PkgInitially == PkgInit => PkgInv
BY DEF PkgInit, PkgInv, PkgFunctions, HashIsCheckedOut, LockToBeIsAccepted, LockIsAccepted, VerifiedAsLocked,
       IdleJob, NoLock

\* A step of p in its command, which leaves the locks and the clone alone.
LEMMA JobMoves ==
    ASSUME PkgInv, NEW p \in Project, NEW state, NEW how,
           state.pc = "enforce" /\ Cached => clone.head = state.sha,
           p \notin crossed /\ state.pc \in {"audit", "commit", "write"} =>
               Accepted(manifest[p].ref, manifest[p].requires, state.sha),
           state.pc = "verify" => lockfile[p].present,
           how = "verified" => lockfile[p].present /\ manifest[p].requires = lockfile[p].requires,
           job' = [job EXCEPT ![p] = state], verdict' = [verdict EXCEPT ![p] = how],
           UNCHANGED <<clone, manifest, lockfile, crossed>>
    PROVE  PkgInv'
<1>1. /\ \A q \in Project \ {p} : job'[q] = job[q] /\ verdict'[q] = verdict[q]
      /\ job'[p] = state /\ verdict'[p] = how
      /\ DOMAIN job' = Project /\ DOMAIN verdict' = Project
  BY DEF PkgInv, PkgFunctions
<1>2. PkgFunctions'
  BY <1>1 DEF PkgInv, PkgFunctions
<1>3. HashIsCheckedOut'
  BY <1>1 DEF PkgInv, HashIsCheckedOut, Cached
<1>4. LockToBeIsAccepted' /\ LockIsAccepted'
  BY <1>1 DEF PkgInv, LockToBeIsAccepted, LockIsAccepted, Accepted
<1>5. VerifiedAsLocked'
  BY <1>1 DEF PkgInv, VerifiedAsLocked
<1> QED BY <1>2, <1>3, <1>4, <1>5 DEF PkgInv

\* A command ends, but not with a verified lock.
LEMMA JobEnds ==
    ASSUME PkgInv, NEW p \in Project, NEW how, how # "verified", Ends(p, how),
           UNCHANGED <<clone, manifest, lockfile, crossed>>
    PROVE  PkgInv'
BY JobMoves DEF Ends, IdleJob

\* Resolve moves the clone under the others' feet: the locks under way that it is
\* moved under are crossed, and nobody else's.
LEMMA ResolveKeeps == ASSUME PkgInv, NEW p \in Project, Resolve(p) PROVE PkgInv'
<1>1. UNCHANGED <<manifest, lockfile>> /\ crossed' = crossed \cup {q \in Project : Looking(q) /\ job[q].sha # clone'.head}
  BY DEF Resolve, ChecksOut
<1>2. /\ \A q \in Project \ {p} : job'[q] = job[q] /\ verdict'[q] \in {verdict[q], "none"}
      /\ job'[p].pc \in {"hash", "idle"} /\ verdict'[p] # "verified"
      /\ DOMAIN job' = Project /\ DOMAIN verdict' = Project
  <2>1. CASE /\ job' = [job EXCEPT ![p] = [pc |-> "hash"]]
             /\ verdict' = [q \in Project |-> "none"]
    BY <2>1 DEF PkgInv, PkgFunctions
  <2>2. CASE Ends(p, "unresolved")
    BY <2>2 DEF PkgInv, PkgFunctions, Ends, IdleJob
  <2> QED BY <2>1, <2>2 DEF Resolve
<1>3. PkgFunctions'
  BY <1>1, <1>2 DEF PkgInv, PkgFunctions
<1>4. HashIsCheckedOut'
  <2> SUFFICES ASSUME NEW q \in Project, q \notin crossed', job'[q].pc = "enforce" PROVE clone'.head = job'[q].sha
    BY DEF HashIsCheckedOut
  <2>1. job'[q] = job[q]
    BY <1>2
  <2>2. Looking(q)
    BY <2>1 DEF Looking
  <2> QED BY <1>1, <2>1, <2>2
<1>5. LockToBeIsAccepted' /\ LockIsAccepted'
  BY <1>1, <1>2 DEF PkgInv, LockToBeIsAccepted, LockIsAccepted, Accepted
<1>6. VerifiedAsLocked'
  BY <1>1, <1>2 DEF PkgInv, VerifiedAsLocked
<1> QED BY <1>3, <1>4, <1>5, <1>6 DEF PkgInv

\* Only what meets the requirement gets any further: a clone that is gone by now
\* has no version but its tag's.
LEMMA EnforceKeeps == ASSUME PkgInv, NEW p \in Project, Enforce(p) PROVE PkgInv'
<1>1. UNCHANGED <<clone, manifest, lockfile, crossed>>
  BY DEF Enforce
<1>2. CASE ~Enforced(p)
  <2>1. Ends(p, "refused")
    BY <1>2 DEF Enforce
  <2> QED BY <1>1, <2>1, JobEnds
<1>3. CASE Enforced(p)
  <2>1. Reaches(p, [pc |-> "audit", sha |-> job[p].sha]) /\ job[p].pc = "enforce"
    BY <1>3 DEF Enforce
  <2>2. Accepted(manifest[p].ref, manifest[p].requires, clone.head)
    BY <1>3 DEF Enforced, Accepted
  <2>3. p \notin crossed => Accepted(manifest[p].ref, manifest[p].requires, job[p].sha)
    <3> SUFFICES ASSUME p \notin crossed PROVE Accepted(manifest[p].ref, manifest[p].requires, job[p].sha)
      OBVIOUS
    <3>1. CASE Cached
      <4>1. clone.head = job[p].sha
        BY <2>1, <3>1 DEF PkgInv, HashIsCheckedOut
      <4> QED BY <2>2, <4>1
    <3>2. CASE ~Cached /\ manifest[p].ref \in Tag
      BY <2>2, <3>2 DEF Accepted, Claimed
    <3>3. CASE ~Cached /\ manifest[p].ref \notin Tag
      <4>1. Claimed(manifest[p].ref, clone.head) = NoVersion
        BY <3>3 DEF Cached, Claimed
      <4>2. manifest[p].requires = NoRequirement
        BY <2>2, <4>1 DEF Accepted, Meets
      <4> QED BY <4>2 DEF Accepted
    <3> QED BY <3>1, <3>2, <3>3
  <2> QED BY <1>1, <2>1, <2>3, JobMoves DEF Reaches
<1> QED BY <1>2, <1>3

\* The other two looks keep the hash.
LEMMA LooksKeep == ASSUME PkgInv, NEW p \in Project, ExtractEffects(p) \/ ReadCommit(p) PROVE PkgInv'
<1>1. /\ job[p].pc \in {"audit", "commit"}
      /\ UNCHANGED <<clone, manifest, lockfile, crossed>>
      /\ \E state : state.pc \in {"commit", "write"} /\ state.sha = job[p].sha /\ Reaches(p, state)
  BY DEF ExtractEffects, ReadCommit
<1>2. p \notin crossed => Accepted(manifest[p].ref, manifest[p].requires, job[p].sha)
  BY <1>1 DEF PkgInv, LockToBeIsAccepted
<1> QED BY <1>1, <1>2, JobMoves DEF Reaches

\* What is written is what was accepted, whatever became of the audit.
LEMMA WriteLockKeeps == ASSUME PkgInv, NEW p \in Project, WriteLock(p) PROVE PkgInv'
<1>1. PICK how \in {"effects", "locked"} : verdict' = [verdict EXCEPT ![p] = how]
  BY DEF WriteLock, Ends
<1>2. /\ job[p].pc = "write"
      /\ lockfile' = [lockfile EXCEPT ![p] =
           [present |-> TRUE, ref |-> manifest[p].ref, requires |-> manifest[p].requires,
            commit |-> job[p].commit, sha |-> job[p].sha]]
      /\ job' = [job EXCEPT ![p] = IdleJob]
      /\ UNCHANGED <<clone, manifest, crossed>>
  BY DEF WriteLock, Ends
<1>3. /\ \A q \in Project \ {p} : job'[q] = job[q] /\ verdict'[q] = verdict[q] /\ lockfile'[q] = lockfile[q]
      /\ job'[p].pc = "idle" /\ verdict'[p] = how
      /\ lockfile'[p] = [present |-> TRUE, ref |-> manifest[p].ref, requires |-> manifest[p].requires,
                         commit |-> job[p].commit, sha |-> job[p].sha]
  BY <1>1, <1>2 DEF PkgInv, PkgFunctions, IdleJob
<1>4. PkgFunctions'
  BY <1>1, <1>2 DEF PkgInv, PkgFunctions
<1>5. p \notin crossed => Accepted(manifest[p].ref, manifest[p].requires, job[p].sha)
  BY <1>2 DEF PkgInv, LockToBeIsAccepted
<1>6. HashIsCheckedOut' /\ LockToBeIsAccepted'
  BY <1>2, <1>3 DEF PkgInv, HashIsCheckedOut, LockToBeIsAccepted, Accepted, Cached
<1>7. LockIsAccepted'
  <2> SUFFICES ASSUME NEW q \in Project, q \notin crossed', lockfile'[q].present
               PROVE  Accepted(lockfile'[q].ref, lockfile'[q].requires, lockfile'[q].sha)
    BY DEF LockIsAccepted, Accepted
  <2>1. CASE q = p
    BY <1>2, <1>3, <1>5, <2>1
  <2>2. CASE q # p
    BY <1>2, <1>3, <2>2 DEF PkgInv, LockIsAccepted
  <2> QED BY <2>1, <2>2
<1>8. VerifiedAsLocked'
  BY <1>1, <1>2, <1>3 DEF PkgInv, VerifiedAsLocked
<1> QED BY <1>4, <1>6, <1>7, <1>8 DEF PkgInv

\* A verdict is given on the lock that is there.
LEMMA VerifyKeeps == ASSUME PkgInv, NEW p \in Project, VerifyHash(p) \/ Verify(p) PROVE PkgInv'
<1>1. UNCHANGED <<clone, manifest, lockfile, crossed>>
  BY DEF VerifyHash, Verify
<1>2. CASE Ends(p, "failed")
  BY <1>1, <1>2, JobEnds
<1>3. CASE lockfile[p].present /\ Reaches(p, [pc |-> "verify"])
  BY <1>1, <1>3, JobMoves DEF Reaches
<1>4. CASE job[p].pc = "verify" /\ Ends(p, "verified") /\ NoDrift(p)
  <2>1. lockfile[p].present /\ manifest[p].requires = lockfile[p].requires
    BY <1>4 DEF PkgInv, VerifiedAsLocked, NoDrift
  <2> QED BY <1>1, <1>4, <2>1, JobMoves DEF Ends, IdleJob
<1> QED BY <1>2, <1>3, <1>4 DEF VerifyHash, Verify

\* Each step of a command keeps the invariant.
LEMMA PkgStepKeeps == PkgInv /\ [PkgNext]_pkgVars => PkgInv'
<1> SUFFICES ASSUME PkgInv, [PkgNext]_pkgVars PROVE PkgInv'
  OBVIOUS
<1>1. CASE Push \/ UNCHANGED pkgVars
  <2>1. UNCHANGED <<clone, manifest, lockfile, job, verdict, crossed>>
    BY <1>1 DEF Push, pkgVars
  <2> QED
    BY <2>1
    DEF PkgInv, PkgFunctions, HashIsCheckedOut, LockToBeIsAccepted, LockIsAccepted, VerifiedAsLocked, Accepted, Cached
<1>2. CASE Purge
  <2>1. UNCHANGED <<manifest, lockfile, job, crossed>> /\ verdict' = [p \in Project |-> "none"] /\ clone'.head = NoCommit
    BY <1>2 DEF Purge, NoClone
  <2> QED
    BY <2>1
    DEF PkgInv, PkgFunctions, HashIsCheckedOut, LockToBeIsAccepted, LockIsAccepted, VerifiedAsLocked, Accepted, Cached
<1>3. ASSUME NEW p \in Project, Add(p) PROVE PkgInv'
  <2>1. /\ job[p].pc = "idle"
        /\ \E m : manifest' = [manifest EXCEPT ![p] = m]
        /\ verdict' = [verdict EXCEPT ![p] = "none"]
        /\ UNCHANGED <<clone, lockfile, job, crossed>>
    BY <1>3 DEF Add
  <2>2. /\ \A q \in Project \ {p} : manifest'[q] = manifest[q] /\ verdict'[q] = verdict[q]
        /\ verdict'[p] = "none" /\ DOMAIN manifest' = Project /\ DOMAIN verdict' = Project
    BY <2>1 DEF PkgInv, PkgFunctions
  <2> QED
    BY <2>1, <2>2
    DEF PkgInv, PkgFunctions, HashIsCheckedOut, LockToBeIsAccepted, LockIsAccepted, VerifiedAsLocked, Accepted, Cached
<1>4. ASSUME NEW p \in Project, Hash(p) PROVE PkgInv'
  <2>1. CASE Ends(p, "unresolved")
    BY <1>4, <2>1, JobEnds DEF Hash
  <2>2. CASE Reaches(p, [pc |-> "enforce", sha |-> clone.head])
    BY <1>4, <2>2, JobMoves DEF Hash, Reaches
  <2> QED BY <1>4, <2>1, <2>2 DEF Hash
<1>5. ASSUME NEW p \in Project, Link(p) \/ Compile(p) \/ Interrupt(p) PROVE PkgInv'
  <2>1. /\ UNCHANGED <<clone, manifest, lockfile, crossed>>
        /\ \/ \E how \in {"mismatch", "import error", "built", "none"} : Ends(p, how)
           \/ Reaches(p, [pc |-> "compile"])
    BY <1>5 DEF Link, Compile, Interrupt
  <2> QED BY <2>1, JobEnds, JobMoves DEF Reaches
<1>6. ASSUME NEW p \in Project, Resolve(p) \/ Enforce(p) \/ ExtractEffects(p) \/ ReadCommit(p) PROVE PkgInv'
  BY <1>6, ResolveKeeps, EnforceKeeps, LooksKeep
<1>7. ASSUME NEW p \in Project, WriteLock(p) \/ VerifyHash(p) \/ Verify(p) PROVE PkgInv'
  BY <1>7, WriteLockKeeps, VerifyKeeps
<1> QED BY <1>1, <1>2, <1>3, <1>4, <1>5, <1>6, <1>7 DEF PkgNext

\* The invariant holds in every state of every run of the commands.
LEMMA PkgInductive == PkgSpec => []PkgInv
BY PkgInitially, PkgStepKeeps, PTL DEF PkgSpec

\* Any number of projects on one cache, any number of edits, failed locks, pushes
\* and purges later: the code verify has just found meets the requirement of
\* today's manifest, unless the lock was made while another project checked other
\* code out (hpkg_cmds.py:213-239, 482-520).
THEOREM VerifiedCodeAccepted == PkgSpec => []VerifiedMeetsRequirement
<1>1. PkgInv => VerifiedMeetsRequirement
  BY DEF PkgInv, LockIsAccepted, VerifiedAsLocked, Accepted, VerifiedMeetsRequirement
<1> QED BY <1>1, PkgInductive, PTL
=============================================================================
