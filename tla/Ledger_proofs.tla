--------------------------- MODULE Ledger_proofs ---------------------------
(***************************************************************************)
(* Proofs about the hash-chained logs, for any number of writers, mirrors  *)
(* and lines: what was acknowledged is kept, and the verdicts on a log     *)
(* that verifies say what became of the history.  And about the audit      *)
(* ledgers, for any actors, commits and surfaces: whatever commands        *)
(* overlap, a seal was written over entries that were an audit.            *)
(***************************************************************************)
EXTENDS Ledger, Engagement, SequenceTheorems, FiniteSetTheorems, WellFoundedInduction, TLAPS

-----------------------------------------------------------------------------
(* The inductive invariant *)

Hash == Seq([seq : Nat, body : Body])
Records == [seq : Nat, prev : Hash, body : Body, hash : Hash]
Lines == Records \cup {Torn, Garbage}

LedgerTypeOK ==
    /\ log \in Seq(Lines)
    /\ writer \in [Writer -> [pc : {"idle", "locked", "head", "write"}, prev : Hash, seq : Nat]]
    /\ mirror \in [Mirror -> Seq(Lines)]
    /\ signer \in [pc : {"idle", "read"}, records : Seq(Lines)]
    /\ acked \in Seq(Body)
    /\ cut \in BOOLEAN

\* A writer at work has the lock.
OneWriter == \A w \in Writer : writer[w].pc # "idle" => lock = w

\* What the writer at work has read is still so: nobody but it writes.
HeadOrGenesis(l) == IF l # <<>> /\ IsRecord(l[Len(l)]) THEN HeadOf(l) ELSE Genesis

ReadIsCurrent ==
    ~cut => \A w \in Writer :
              /\ writer[w].pc \in {"head", "write"} => writer[w].prev = HeadOrGenesis(log)
              /\ writer[w].pc = "write" => writer[w].seq = Len(log) + 1

AllRecords(l) == \A i \in 1..Len(l) : IsRecord(l[i])

\* What a file nobody cut holds.
AckedAreThere == (~cut /\ AllRecords(log)) => Verifies(log) /\ Bodies(log) = acked

\* What was signed, and what an inclusion proof was made of.
PinIsOfRecords ==
    /\ signer.pc = "read" => Verifies(signer.records)
    /\ pin.signed => /\ Verifies(signer.records)
                     /\ pin.length = Len(signer.records)
                     /\ pin.head = HeadOf(signer.records)
                     /\ signer.pc = "idle"

ProofOf(l, i) ==
    [seq |-> l[i].seq, record |-> l[i], tail |-> SubSeq(l, i + 1, Len(l)),
     length |-> Len(l), head |-> HeadOf(l), of |-> l]

ProofIsOfLog ==
    proof = NoProof \/ \E l \in Seq(Lines) : /\ Verifies(l)
                                             /\ \E i \in 1..Len(l) : proof = ProofOf(l, i)

LedgerInv ==
    LedgerTypeOK /\ OneWriter /\ ReadIsCurrent /\ AckedAreThere /\ PinIsOfRecords /\ ProofIsOfLog

-----------------------------------------------------------------------------
(* Lemmas about sequences and records *)

\* Induction on the length of a log goes by the least line that would be wrong.
LEMMA LeastElement == ASSUME NEW T \in SUBSET Nat, T # {} PROVE \E x \in T : \A y \in T : x <= y
<1> DEFINE R == OpToRel(<, Nat)
<1>1. \A x, y \in Nat : x < y => <<x, y>> \in R
  BY DEF OpToRel
<1>2. IsWellFoundedOn(R, Nat)
  BY NatLessThanWellFounded
<1> HIDE DEF R
<1>3. PICK x \in T : \A y \in T : ~ (<<y, x>> \in R)
  BY <1>2, WFMin
<1>4. ASSUME NEW y \in T PROVE x <= y
  <2>1. x \in Nat /\ y \in Nat /\ ~(y < x)
    BY <1>1, <1>3
  <2> QED BY <2>1
<1> QED BY <1>4

\* Sequences that end alike began alike.
LEMMA AppendedAlike ==
    ASSUME NEW S, NEW s \in Seq(S), NEW t \in Seq(S), NEW a \in S, NEW b \in S, Append(s, a) = Append(t, b)
    PROVE  s = t /\ a = b
<1>1. Len(s) + 1 = Len(t) + 1 /\ Len(s) \in Nat /\ Len(t) \in Nat
  <2>1. Len(Append(s, a)) = Len(s) + 1 /\ Len(Append(t, b)) = Len(t) + 1
    OBVIOUS
  <2> QED BY <2>1
<1>2. \A i \in 1..Len(s) : s[i] = t[i]
  <2>1. ASSUME NEW i \in 1..Len(s) PROVE s[i] = t[i]
    <3>1. Append(s, a)[i] = s[i] /\ Append(t, b)[i] = t[i]
      BY <1>1
    <3> QED BY <3>1
  <2> QED BY <2>1
<1>3. a = b
  <2>1. Append(s, a)[Len(s) + 1] = a /\ Append(t, b)[Len(s) + 1] = b
    BY <1>1
  <2> QED BY <2>1
<1> QED BY <1>1, <1>2, <1>3, SeqEqual

\* A line is a record, or torn, or garbage.
LEMMA LineKinds ==
    /\ \A r \in Records : IsRecord(r)
    /\ \A r \in Lines : IsRecord(r) => r \in Records
    /\ Torn \in Lines /\ Garbage \in Lines /\ ~IsRecord(Torn) /\ ~IsRecord(Garbage)
<1>1. ASSUME NEW r \in Records PROVE IsRecord(r)
  <2>1. DOMAIN r = {"seq", "prev", "body", "hash"}
    BY DEF Records
  <2>2. DOMAIN Torn = {"torn"} /\ DOMAIN Garbage = {"torn"}
    BY DEF Torn, Garbage
  <2>3. "seq" \in DOMAIN r /\ "seq" \notin DOMAIN Torn /\ "seq" \notin DOMAIN Garbage
    BY <2>1, <2>2
  <2> QED BY <2>3 DEF IsRecord
<1> QED BY <1>1 DEF Lines, IsRecord

\* The record a writer makes, and the hash it carries.
LEMMA RecordTyped ==
    ASSUME NEW n \in Nat, NEW p \in Hash, NEW b \in Body
    PROVE  /\ Record(n, p, b) \in Records
           /\ Record(n, p, b).seq = n /\ Record(n, p, b).prev = p /\ Record(n, p, b).body = b
           /\ Record(n, p, b).hash = ChainOf(Record(n, p, b))
<1>1. Append(p, [seq |-> n, body |-> b]) \in Hash
  BY DEF Hash
<1> QED BY <1>1 DEF Record, Records, ChainOf

\* The head of a log is a hash.
LEMMA HeadTyped == ASSUME NEW l \in Seq(Lines) PROVE HeadOrGenesis(l) \in Hash
<1>1. Genesis \in Hash
  BY DEF Genesis, Hash
<1>2. CASE l # <<>> /\ IsRecord(l[Len(l)])
  <2>1. Len(l) \in 1..Len(l) /\ l[Len(l)] \in Lines
    BY <1>2
  <2>2. l[Len(l)] \in Records
    BY <1>2, <2>1, LineKinds
  <2> QED BY <1>2, <2>2 DEF HeadOrGenesis, HeadOf, Records
<1> QED BY <1>1, <1>2 DEF HeadOrGenesis

\* A record of the right number over the current head keeps a log verifying.
LEMMA AppendVerifies ==
    ASSUME NEW l \in Seq(Lines), Verifies(l), NEW b \in Body
    PROVE  LET k == Append(l, Record(Len(l) + 1, HeadOrGenesis(l), b)) IN
           Verifies(k) /\ Bodies(k) = Append(Bodies(l), b)
<1> DEFINE r == Record(Len(l) + 1, HeadOrGenesis(l), b)
           k == Append(l, r)
<1>1. /\ r \in Records /\ r.seq = Len(l) + 1 /\ r.prev = HeadOrGenesis(l) /\ r.body = b
      /\ r.hash = ChainOf(r) /\ IsRecord(r)
  BY HeadTyped, RecordTyped, LineKinds
<1> HIDE DEF r
<1>2. /\ k \in Seq(Lines) /\ Len(k) = Len(l) + 1 /\ Len(l) \in Nat
      /\ \A i \in 1..Len(l) : k[i] = l[i]
      /\ k[Len(l) + 1] = r
  BY <1>1 DEF Lines
<1> HIDE DEF k
<1>3. \A i \in 1..Len(l) : HashBefore(k, i) = HashBefore(l, i)
  <2>1. ASSUME NEW i \in 1..Len(l), i > 1 PROVE k[i-1] = l[i-1]
    BY <1>2, <2>1
  <2> QED BY <2>1 DEF HashBefore
<1>4. HashBefore(k, Len(l) + 1) = HeadOrGenesis(l)
  <2>1. CASE l = <<>>
    BY <2>1, <1>2 DEF HashBefore, HeadOrGenesis
  <2>2. CASE l # <<>>
    <3>1. Len(l) \in 1..Len(l) /\ k[Len(l)] = l[Len(l)] /\ Len(l) + 1 > 1 /\ (Len(l) + 1) - 1 = Len(l)
      BY <2>2, <1>2
    <3> QED BY <2>2, <3>1 DEF HashBefore, HeadOrGenesis, HeadOf
  <2> QED BY <2>1, <2>2
<1>5. Verifies(k)
  <2> SUFFICES ASSUME NEW i \in 1..Len(k)
               PROVE  /\ IsRecord(k[i]) /\ k[i].seq = i /\ k[i].prev = HashBefore(k, i) /\ k[i].hash = ChainOf(k[i])
    BY DEF Verifies
  <2>1. CASE i \in 1..Len(l)
    BY <2>1, <1>2, <1>3 DEF Verifies
  <2>2. CASE i = Len(l) + 1
    BY <2>2, <1>1, <1>2, <1>4
  <2> QED BY <2>1, <2>2, <1>2
<1>6. Bodies(k) = Append(Bodies(l), b)
  <2>1. \A i \in 1..Len(l) : l[i].body \in Body
    BY LineKinds DEF Verifies, Records
  <2>2. Bodies(l) \in Seq(Body) /\ Len(Bodies(l)) = Len(l)
    BY <2>1, <1>2 DEF Bodies
  <2>3. \A i \in 1..Len(k) : k[i].body \in Body
    BY <1>1, <1>2, <2>1
  <2>4. Bodies(k) \in Seq(Body) /\ Len(Bodies(k)) = Len(l) + 1
    BY <2>3, <1>2 DEF Bodies
  <2>5. ASSUME NEW i \in 1..(Len(l) + 1) PROVE Bodies(k)[i] = Append(Bodies(l), b)[i]
    <3>1. CASE i \in 1..Len(l)
      BY <3>1, <1>2, <2>2 DEF Bodies
    <3>2. CASE i = Len(l) + 1
      BY <3>2, <1>1, <1>2, <2>2 DEF Bodies
    <3>3. i \in 1..Len(l) \/ i = Len(l) + 1
      BY <1>2
    <3> QED BY <3>1, <3>2, <3>3
  <2> QED BY <2>2, <2>4, <2>5, SeqEqual
<1> QED BY <1>5, <1>6 DEF k, r

-----------------------------------------------------------------------------
(* Appending: the invariant and the steps of the writers *)

\* An empty log, nobody at work.
LEMMA LedgerInitially == LedgerInit => LedgerInv
<1> SUFFICES ASSUME LedgerInit PROVE LedgerInv
  OBVIOUS
<1> USE DEF LedgerInit
<1>1. Genesis \in Hash
  BY DEF Genesis, Hash
<1>2. LedgerTypeOK
  <2>1. <<>> \in Seq(Lines) /\ <<>> \in Seq(Body)
    OBVIOUS
  <2>2. Idle \in [pc : {"idle", "locked", "head", "write"}, prev : Hash, seq : Nat]
    BY <1>1 DEF Idle
  <2>3. writer \in [Writer -> [pc : {"idle", "locked", "head", "write"}, prev : Hash, seq : Nat]]
    BY <2>2
  <2>4. mirror \in [Mirror -> Seq(Lines)] /\ signer \in [pc : {"idle", "read"}, records : Seq(Lines)]
    BY <2>1
  <2> QED BY <2>1, <2>3, <2>4 DEF LedgerTypeOK
<1>3. OneWriter /\ ReadIsCurrent
  BY DEF OneWriter, ReadIsCurrent, Idle
<1>4. AckedAreThere
  BY DEF AckedAreThere, Verifies, Bodies
<1>5. PinIsOfRecords /\ ProofIsOfLog
  BY DEF PinIsOfRecords, ProofIsOfLog, NoPin
<1> QED BY <1>2, <1>3, <1>4, <1>5 DEF LedgerInv

\* A step of the writers that does not touch what is signed or proved.
LEMMA PinsStay == ASSUME LedgerInv, UNCHANGED <<signer, pin, proof>> PROVE PinIsOfRecords' /\ ProofIsOfLog'
<1>1. PinIsOfRecords'
  BY DEF LedgerInv, PinIsOfRecords
<1>2. ProofIsOfLog'
  BY DEF LedgerInv, ProofIsOfLog
<1> QED BY <1>1, <1>2

\* Taking the lock: there is one writer at work, this one.
LEMMA LockKeeps == ASSUME LedgerInv, NEW w \in Writer, Lock(w) PROVE LedgerInv'
<1>1. /\ writer[w].pc = "idle" /\ lock = "free" /\ lock' = w
      /\ writer' = [writer EXCEPT ![w].pc = "locked"]
      /\ UNCHANGED <<log, acked, mirror, signer, pin, proof, cut>>
  BY DEF Lock
<1>2. LedgerTypeOK'
  BY <1>1 DEF LedgerInv, LedgerTypeOK
<1>3. /\ writer'[w].pc = "locked"
      /\ \A u \in Writer \ {w} : writer'[u] = writer[u] /\ writer[u].pc = "idle"
  BY <1>1, LedgerAssumption DEF LedgerInv, LedgerTypeOK, OneWriter
<1>4. OneWriter' /\ ReadIsCurrent'
  BY <1>1, <1>3 DEF OneWriter, ReadIsCurrent
<1>5. AckedAreThere'
  BY <1>1 DEF LedgerInv, AckedAreThere
<1> QED BY <1>1, <1>2, <1>4, <1>5, PinsStay DEF LedgerInv

\* Under the lock, the head that was read stays the head.
LEMMA ReadHeadKeeps == ASSUME LedgerInv, NEW w \in Writer, ReadHead(w) PROVE LedgerInv'
<1> DEFINE h == HeadOrGenesis(log)
<1>1. /\ writer[w].pc = "locked"
      /\ writer' = [writer EXCEPT ![w].pc = "head", ![w].prev = h]
      /\ UNCHANGED <<log, lock, acked, mirror, signer, pin, proof, cut>>
  BY DEF ReadHead, HeadOrGenesis
<1>2. h \in Hash
  BY HeadTyped DEF LedgerInv, LedgerTypeOK
<1> HIDE DEF h
<1>3. LedgerTypeOK'
  BY <1>1, <1>2 DEF LedgerInv, LedgerTypeOK
<1>4. /\ writer'[w].pc = "head" /\ writer'[w].prev = h
      /\ \A u \in Writer \ {w} : writer'[u] = writer[u]
  BY <1>1 DEF LedgerInv, LedgerTypeOK
<1>5. OneWriter'
  BY <1>1, <1>4 DEF LedgerInv, OneWriter
<1>6. ReadIsCurrent'
  BY <1>1, <1>4 DEF LedgerInv, ReadIsCurrent, h, HeadOrGenesis
<1>7. AckedAreThere'
  BY <1>1 DEF LedgerInv, AckedAreThere
<1> QED BY <1>1, <1>3, <1>5, <1>6, <1>7, PinsStay DEF LedgerInv

\* Under the lock, the number of lines stays the number counted.
LEMMA CountLinesKeeps == ASSUME LedgerInv, NEW w \in Writer, CountLines(w) PROVE LedgerInv'
<1>1. /\ writer[w].pc = "head"
      /\ writer' = [writer EXCEPT ![w].pc = "write", ![w].seq = Len(log) + 1]
      /\ UNCHANGED <<log, lock, acked, mirror, signer, pin, proof, cut>>
  BY DEF CountLines
<1>2. LedgerTypeOK'
  <2>1. Len(log) + 1 \in Nat
    BY DEF LedgerInv, LedgerTypeOK
  <2> DEFINE n == Len(log) + 1
  <2>2. writer' = [writer EXCEPT ![w].pc = "write", ![w].seq = n]
    BY <1>1
  <2> HIDE DEF n
  <2>3. n \in Nat
    BY <2>1 DEF n
  <2> DEFINE Cells == [pc : {"idle", "locked", "head", "write"}, prev : Hash, seq : Nat]
  <2>4. writer' \in [Writer -> Cells]
    <3>1. [writer[w] EXCEPT !.pc = "write", !.seq = n] \in Cells
      BY <2>3 DEF LedgerInv, LedgerTypeOK
    <3>2. writer \in [Writer -> Cells]
      BY DEF LedgerInv, LedgerTypeOK
    <3> HIDE DEF Cells
    <3> QED BY <2>2, <3>1, <3>2
  <2> QED BY <1>1, <2>4 DEF LedgerInv, LedgerTypeOK
<1>3. /\ writer'[w].pc = "write" /\ writer'[w].prev = writer[w].prev /\ writer'[w].seq = Len(log) + 1
      /\ \A u \in Writer \ {w} : writer'[u] = writer[u]
  BY <1>1 DEF LedgerInv, LedgerTypeOK
<1>4. OneWriter'
  BY <1>1, <1>3 DEF LedgerInv, OneWriter
<1>5. ReadIsCurrent'
  BY <1>1, <1>3 DEF LedgerInv, ReadIsCurrent, HeadOrGenesis
<1>6. AckedAreThere'
  BY <1>1 DEF LedgerInv, AckedAreThere
<1> QED BY <1>1, <1>2, <1>4, <1>5, <1>6, PinsStay DEF LedgerInv

\* A writer that leaves, with its record or killed, was the only one at work.
LEMMA WriterLeaves ==
    ASSUME LedgerInv, NEW w \in Writer, writer[w].pc # "idle",
           writer' = [writer EXCEPT ![w] = Idle], lock' = Unlocked(w)
    PROVE  /\ \A u \in Writer : writer'[u].pc = "idle"
           /\ writer' \in [Writer -> [pc : {"idle", "locked", "head", "write"}, prev : Hash, seq : Nat]]
           /\ OneWriter'
<1>1. Idle \in [pc : {"idle", "locked", "head", "write"}, prev : Hash, seq : Nat] /\ Idle.pc = "idle"
  BY DEF Idle, Genesis, Hash
<1>2. writer' \in [Writer -> [pc : {"idle", "locked", "head", "write"}, prev : Hash, seq : Nat]]
  BY <1>1 DEF LedgerInv, LedgerTypeOK
<1>3. \A u \in Writer : writer'[u].pc = "idle"
  <2>1. \A u \in Writer \ {w} : writer[u].pc = "idle" /\ writer'[u] = writer[u]
    BY DEF LedgerInv, LedgerTypeOK, OneWriter
  <2>2. writer'[w] = Idle
    BY DEF LedgerInv, LedgerTypeOK
  <2> QED BY <1>1, <2>1, <2>2
<1> QED BY <1>1, <1>2, <1>3 DEF OneWriter

\* The line lands where its writer read the head and the number for it.
LEMMA WriteKeeps == ASSUME LedgerInv, NEW w \in Writer, Write(w) PROVE LedgerInv'
<1>1. PICK b \in Body :
        /\ log' = IF EndsTorn THEN [log EXCEPT ![Len(log)] = Garbage]
                  ELSE Append(log, Record(writer[w].seq, writer[w].prev, b))
        /\ acked' = IF cut THEN acked ELSE Append(acked, b)
  BY DEF Write
<1>2. /\ writer[w].pc = "write" /\ writer' = [writer EXCEPT ![w] = Idle] /\ lock' = Unlocked(w)
      /\ UNCHANGED <<mirror, signer, pin, proof, cut>>
      /\ log \in Seq(Lines) /\ acked \in Seq(Body) /\ cut \in BOOLEAN
      /\ writer[w] \in [pc : {"idle", "locked", "head", "write"}, prev : Hash, seq : Nat]
  BY DEF Write, LedgerInv, LedgerTypeOK
<1> DEFINE r == Record(writer[w].seq, writer[w].prev, b)
<1>3. r \in Lines
  BY <1>2, RecordTyped DEF Lines
<1>4. log' \in Seq(Lines) /\ acked' \in Seq(Body)
  <2>1. CASE EndsTorn
    BY <2>1, <1>1, <1>2, LineKinds, ExceptSeq DEF EndsTorn
  <2>2. CASE ~EndsTorn
    BY <2>2, <1>1, <1>2, <1>3
  <2> QED BY <1>1, <1>2, <2>1, <2>2
<1>5. (\A u \in Writer : writer'[u].pc = "idle") /\ OneWriter'
      /\ writer' \in [Writer -> [pc : {"idle", "locked", "head", "write"}, prev : Hash, seq : Nat]]
  BY <1>2, WriterLeaves
<1>6. LedgerTypeOK'
  BY <1>2, <1>4, <1>5 DEF LedgerInv, LedgerTypeOK
<1>7. ReadIsCurrent'
  BY <1>5 DEF ReadIsCurrent
<1>8. AckedAreThere'
  <2> SUFFICES ASSUME ~cut, AllRecords(log)' PROVE Verifies(log)' /\ Bodies(log)' = acked'
    BY <1>2 DEF AckedAreThere
  <2>1. ~EndsTorn
    <3> SUFFICES ASSUME EndsTorn PROVE FALSE
      OBVIOUS
    <3>1. Len(log) \in 1..Len(log)
      BY <1>2 DEF EndsTorn
    <3>2. Len(log') = Len(log) /\ log'[Len(log)] = Garbage
      BY <1>1, <1>2, <3>1, LineKinds, ExceptSeq
    <3> QED BY <3>1, <3>2, LineKinds DEF AllRecords
  <2>2. log' = Append(log, r) /\ acked' = Append(acked, b)
    BY <1>1, <2>1
  <2>3. AllRecords(log)
    <3> SUFFICES ASSUME NEW i \in 1..Len(log) PROVE IsRecord(log[i])
      BY DEF AllRecords
    <3> HIDE DEF r
    <3>1. i \in 1..Len(log') /\ log'[i] = log[i]
      BY <1>2, <1>3, <2>2
    <3> QED BY <3>1 DEF AllRecords
  <2>4. Verifies(log) /\ Bodies(log) = acked
    BY <2>3 DEF LedgerInv, AckedAreThere
  <2>5. r = Record(Len(log) + 1, HeadOrGenesis(log), b)
    BY <1>2 DEF LedgerInv, ReadIsCurrent
  <2>6. Verifies(Append(log, r)) /\ Bodies(Append(log, r)) = Append(Bodies(log), b)
    BY <1>2, <2>4, <2>5, AppendVerifies
  <2>7. Verifies(log') /\ Bodies(log') = acked'
    BY <2>2, <2>4, <2>6
  <2> QED BY <2>7 DEF Verifies, Bodies
<1> QED BY <1>2, <1>5, <1>6, <1>7, <1>8, PinsStay DEF LedgerInv

\* A line cut short, or joined to one that was, is never a record again.
LEMMA KillKeeps == ASSUME LedgerInv, NEW w \in Writer, Kill(w) PROVE LedgerInv'
<1>1. /\ writer[w].pc # "idle" /\ writer' = [writer EXCEPT ![w] = Idle] /\ lock' = Unlocked(w)
      /\ log' = log \/ log' = Append(log, Torn)
      /\ UNCHANGED <<acked, mirror, signer, pin, proof, cut>>
      /\ log \in Seq(Lines)
  BY DEF Kill, LedgerInv, LedgerTypeOK
<1>2. (\A u \in Writer : writer'[u].pc = "idle") /\ OneWriter'
      /\ writer' \in [Writer -> [pc : {"idle", "locked", "head", "write"}, prev : Hash, seq : Nat]]
  BY <1>1, WriterLeaves
<1>3. log' \in Seq(Lines)
  BY <1>1, LineKinds
<1>4. LedgerTypeOK'
  BY <1>1, <1>2, <1>3 DEF LedgerInv, LedgerTypeOK
<1>5. ReadIsCurrent'
  BY <1>2 DEF ReadIsCurrent
<1>6. AckedAreThere'
  <2>1. CASE log' = log
    BY <1>1, <2>1 DEF LedgerInv, AckedAreThere, AllRecords, Verifies, Bodies
  <2>2. CASE log' = Append(log, Torn)
    <3>1. Len(log') \in 1..Len(log') /\ log'[Len(log')] = Torn
      BY <1>1, <2>2, LineKinds
    <3>2. ~AllRecords(log)'
      BY <3>1, LineKinds DEF AllRecords
    <3> QED BY <3>2 DEF AckedAreThere
  <2> QED BY <1>1, <2>1, <2>2
<1> QED BY <1>1, <1>2, <1>4, <1>5, <1>6, PinsStay DEF LedgerInv

-----------------------------------------------------------------------------
(* The steps around the writers *)

\* From here on nothing is promised of this log, but of the copies still.
LEMMA TamperKeeps == ASSUME LedgerInv, Truncate \/ Edit PROVE LedgerInv'
<1>1. cut' = TRUE /\ UNCHANGED <<lock, writer, acked, mirror, signer, pin, proof>> /\ log \in Seq(Lines)
  BY DEF Truncate, Edit, LedgerInv, LedgerTypeOK
<1>2. log' \in Seq(Lines)
  <2>1. CASE Truncate
    <3>1. PICK k \in 0..(Len(log) - 1) : log' = SubSeq(log, 1, k)
      BY <2>1 DEF Truncate
    <3>2. \A i \in 1..k : log[i] \in Lines
      BY <1>1, <3>1
    <3> QED BY <1>1, <3>1, <3>2, SubSeqProperties
  <2>2. CASE Edit
    <3>1. PICK i \in 1..Len(log), b \in Body, repaired \in BOOLEAN :
            /\ IsRecord(log[i])
            /\ log' = [log EXCEPT ![i] = IF repaired THEN Record(@.seq, @.prev, b) ELSE [@ EXCEPT !.body = b]]
      BY <2>2 DEF Edit
    <3> DEFINE l == IF repaired THEN Record(log[i].seq, log[i].prev, b) ELSE [log[i] EXCEPT !.body = b]
    <3>2. log' = [log EXCEPT ![i] = l]
      BY <3>1
    <3>3. log[i] \in Records
      BY <1>1, <3>1, LineKinds
    <3>4. l \in Records
      <4>1. Record(log[i].seq, log[i].prev, b) \in Records
        BY <3>3, RecordTyped DEF Records
      <4>2. [log[i] EXCEPT !.body = b] \in Records
        BY <3>3 DEF Records
      <4> QED BY <4>1, <4>2
    <3> HIDE DEF l
    <3> QED BY <1>1, <3>2, <3>4, ExceptSeq DEF Lines
  <2> QED BY <2>1, <2>2
<1>3. LedgerTypeOK' /\ OneWriter' /\ ReadIsCurrent' /\ AckedAreThere'
  BY <1>1, <1>2 DEF LedgerInv, LedgerTypeOK, OneWriter, ReadIsCurrent, AckedAreThere
<1> QED BY <1>1, <1>3, PinsStay DEF LedgerInv

\* Nothing of the writers' part is disturbed by those who only read the log.
LEMMA ReadersDisturbNothing ==
    ASSUME LedgerInv, UNCHANGED <<log, lock, writer, acked, cut>>
    PROVE  OneWriter' /\ ReadIsCurrent' /\ AckedAreThere'
BY DEF LedgerInv, OneWriter, ReadIsCurrent, HeadOrGenesis, AckedAreThere, AllRecords, Verifies, Bodies

\* A copy of a log that is right is one.
LEMMA CopyKeeps == ASSUME LedgerInv, NEW m \in Mirror, Copy(m) PROVE LedgerInv'
<1>1. /\ mirror' = [mirror EXCEPT ![m] = log]
      /\ UNCHANGED <<log, lock, writer, acked, signer, pin, proof, cut>>
  BY DEF Copy
<1>2. LedgerTypeOK'
  BY <1>1 DEF LedgerInv, LedgerTypeOK
<1> QED BY <1>1, <1>2, ReadersDisturbNothing, PinsStay DEF LedgerInv

\* What is pinned is the length and the head of records that verified.
LEMMA SignKeeps == ASSUME LedgerInv, SignRead \/ Sign \/ Witness PROVE LedgerInv'
<1>1. UNCHANGED <<log, lock, writer, acked, mirror, proof, cut>>
  BY DEF SignRead, Sign, Witness
<1>2. LedgerTypeOK'
  BY <1>1 DEF LedgerInv, LedgerTypeOK, SignRead, Sign, Witness
<1>3. ProofIsOfLog'
  BY <1>1 DEF LedgerInv, ProofIsOfLog
<1>4. PinIsOfRecords'
  BY DEF LedgerInv, PinIsOfRecords, SignRead, Sign, Witness
<1> QED BY <1>1, <1>2, <1>3, <1>4, ReadersDisturbNothing DEF LedgerInv

\* A proof is made of a log that verifies.
LEMMA ProveKeeps == ASSUME LedgerInv, Prove PROVE LedgerInv'
<1>1. UNCHANGED <<log, lock, writer, acked, mirror, signer, pin, cut>>
  BY DEF Prove
<1>2. Verifies(log) /\ log \in Seq(Lines) /\ \E i \in 1..Len(log) : proof' = ProofOf(log, i)
  BY DEF Prove, ProofOf, LedgerInv, LedgerTypeOK
<1>3. ProofIsOfLog'
  BY <1>2 DEF ProofIsOfLog
<1>4. LedgerTypeOK' /\ PinIsOfRecords'
  BY <1>1 DEF LedgerInv, LedgerTypeOK, PinIsOfRecords
<1> QED BY <1>1, <1>3, <1>4, ReadersDisturbNothing DEF LedgerInv

\* Each step keeps the invariant.
LEMMA LedgerStepKeeps == LedgerInv /\ [LedgerNext]_ledgerVars => LedgerInv'
<1> SUFFICES ASSUME LedgerInv, [LedgerNext]_ledgerVars PROVE LedgerInv'
  OBVIOUS
<1>1. CASE \E w \in Writer : Lock(w) \/ ReadHead(w) \/ CountLines(w) \/ Write(w) \/ Kill(w)
  BY <1>1, LockKeeps, ReadHeadKeeps, CountLinesKeeps, WriteKeeps, KillKeeps
<1>2. CASE Truncate \/ Edit
  BY <1>2, TamperKeeps
<1>3. CASE (\E m \in Mirror : Copy(m)) \/ SignRead \/ Sign \/ Witness \/ Prove
  BY <1>3, CopyKeeps, SignKeeps, ProveKeeps
<1>4. CASE UNCHANGED ledgerVars
  <2>1. UNCHANGED <<log, lock, writer, acked, mirror, signer, pin, proof, cut>>
    BY <1>4 DEF ledgerVars
  <2>2. LedgerTypeOK'
    BY <2>1 DEF LedgerInv, LedgerTypeOK
  <2> QED BY <2>1, <2>2, ReadersDisturbNothing, PinsStay DEF LedgerInv
<1> QED BY <1>1, <1>2, <1>3, <1>4 DEF LedgerNext

\* The invariant holds in every state of every run.
LEMMA LedgerInductive == LedgerSpec => []LedgerInv
BY LedgerInitially, LedgerStepKeeps, PTL DEF LedgerSpec

\* Two verifiers, one replaying the chain and one recomputing each hash over
\* the head so far, accept the same logs.
LEMMA SameVerdict == \A l : Verifies(l) <=> PkgVerifies(l)
<1> SUFFICES ASSUME NEW l PROVE Verifies(l) <=> PkgVerifies(l)
  OBVIOUS
<1>1. ASSUME NEW i \in 1..Len(l), l[i].prev = HashBefore(l, i)
      PROVE  ChainOf(l[i]) = Append(HashBefore(l, i), [seq |-> l[i].seq, body |-> l[i].body])
  BY <1>1 DEF ChainOf
<1>2. ASSUME Verifies(l) PROVE PkgVerifies(l)
  BY <1>1, <1>2 DEF Verifies, PkgVerifies
<1>3. ASSUME PkgVerifies(l) PROVE Verifies(l)
  BY <1>1, <1>3 DEF Verifies, PkgVerifies
<1> QED BY <1>2, <1>3

\* Whichever writers append, wherever they are killed and whatever is copied,
\* signed or proved in between: a log that nobody cut and that has no torn line
\* verifies and holds what was acknowledged, in that order.
THEOREM AcknowledgedIsKept == LedgerSpec => []AppendsAreKept
<1>1. LedgerInv => AppendsAreKept
  BY SameVerdict DEF LedgerInv, AckedAreThere, AllRecords, AppendsAreKept
<1> QED BY <1>1, LedgerInductive, PTL

-----------------------------------------------------------------------------
(* The verdicts *)

\* What a line of a log that verifies is.
LEMMA VerifiedLine ==
    ASSUME NEW l \in Seq(Lines), Verifies(l), NEW i \in 1..Len(l)
    PROVE  /\ l[i] \in Records /\ l[i].seq = i
           /\ l[i].hash = Append(l[i].prev, [seq |-> i, body |-> l[i].body])
           /\ l[i].prev = IF i > 1 THEN l[i-1].hash ELSE Genesis
<1>1. IsRecord(l[i]) /\ l[i].seq = i /\ l[i].prev = HashBefore(l, i) /\ l[i].hash = ChainOf(l[i])
  BY DEF Verifies
<1>2. l[i] \in Records
  BY <1>1, LineKinds
<1>3. i > 1 => IsRecord(l[i-1])
  BY DEF Verifies
<1> QED BY <1>1, <1>2, <1>3 DEF ChainOf, HashBefore

\* Two records are the same if they hash alike: a hash is what was hashed.
LEMMA SameHashSameLine ==
    ASSUME NEW l \in Seq(Lines), Verifies(l), NEW k \in Seq(Lines), Verifies(k),
           NEW i \in 1..Len(l), i \in 1..Len(k), l[i].hash = k[i].hash
    PROVE  l[i] = k[i] /\ (i > 1 => l[i-1].hash = k[i-1].hash)
<1>1. /\ l[i] \in Records /\ l[i].seq = i
      /\ l[i].hash = Append(l[i].prev, [seq |-> i, body |-> l[i].body])
      /\ l[i].prev = IF i > 1 THEN l[i-1].hash ELSE Genesis
  BY VerifiedLine
<1>2. /\ k[i] \in Records /\ k[i].seq = i
      /\ k[i].hash = Append(k[i].prev, [seq |-> i, body |-> k[i].body])
      /\ k[i].prev = IF i > 1 THEN k[i-1].hash ELSE Genesis
  BY VerifiedLine
<1> DEFINE Hashed == [seq : Nat, body : Body]
           e == [seq |-> i, body |-> l[i].body]
           f == [seq |-> i, body |-> k[i].body]
           p == l[i].prev
           q == k[i].prev
<1>3. e \in Hashed /\ f \in Hashed /\ p \in Seq(Hashed) /\ q \in Seq(Hashed) /\ Append(p, e) = Append(q, f)
  BY <1>1, <1>2 DEF Records, Hash
<1>4. p = q /\ e = f
  <2> HIDE DEF Hashed, e, f, p, q
  <2> QED BY ONLY <1>3, AppendedAlike
<1>5. l[i].body = k[i].body
  BY <1>4
<1>6. l[i] = k[i]
  <2>1. \A r, q1 \in Records :
          r.seq = q1.seq /\ r.prev = q1.prev /\ r.body = q1.body /\ r.hash = q1.hash => r = q1
    BY DEF Records
  <2> QED BY <1>1, <1>2, <1>4, <1>5, <2>1
<1> QED BY <1>1, <1>2, <1>4, <1>6

\* And so, line by line, are the logs up to there.
LEMMA SameHashSameHistory ==
    ASSUME NEW l \in Seq(Lines), Verifies(l), NEW k \in Seq(Lines), Verifies(k),
           NEW n \in 1..Len(l), n \in 1..Len(k), l[n].hash = k[n].hash
    PROVE  \A j \in 1..n : l[j] = k[j]
<1> DEFINE Wrong == {d \in 0..(n - 1) : l[n - d].hash # k[n - d].hash}
<1>1. \A j \in 1..n : l[j].hash = k[j].hash
  <2> SUFFICES ASSUME Wrong # {} PROVE FALSE
    <3>1. ASSUME NEW j \in 1..n, Wrong = {} PROVE l[j].hash = k[j].hash
      <4>1. n - j \in 0..(n - 1) /\ n - (n - j) = j
        OBVIOUS
      <4> QED BY <3>1, <4>1
    <3> QED BY <3>1
  <2>1. Wrong \in SUBSET Nat
    OBVIOUS
  <2>2. PICK d \in Wrong : \A y \in Wrong : d <= y
    <3> HIDE DEF Wrong
    <3> QED BY <2>1, LeastElement
  <2>3. d # 0
    BY <2>2
  <2>4. d - 1 \in 0..(n - 1) /\ d - 1 \notin Wrong /\ n - (d - 1) = (n - d) + 1
    <3>1. d \in 0..(n - 1) /\ n \in Nat
      OBVIOUS
    <3> HIDE DEF Wrong
    <3>2. d - 1 \in 0..(n - 1) /\ ~(d <= d - 1) /\ n - (d - 1) = (n - d) + 1
      BY <2>3, <3>1
    <3> QED BY <2>2, <3>2
  <2>5. l[(n - d) + 1].hash = k[(n - d) + 1].hash
    BY <2>4
  <2>6. (n - d) + 1 \in 1..Len(l) /\ (n - d) + 1 \in 1..Len(k) /\ (n - d) + 1 > 1 /\ ((n - d) + 1) - 1 = n - d
    BY <2>2, <2>3
  <2>7. l[n - d].hash = k[n - d].hash
    <3> DEFINE i == (n - d) + 1
    <3>1. i \in 1..Len(l) /\ i \in 1..Len(k) /\ l[i].hash = k[i].hash /\ i > 1 /\ i - 1 = n - d
      BY <2>5, <2>6
    <3> HIDE DEF i
    <3>2. l[i - 1].hash = k[i - 1].hash
      BY <3>1, SameHashSameLine
    <3> QED BY <3>1, <3>2
  <2> QED BY <2>2, <2>7
<1>2. ASSUME NEW j \in 1..n PROVE l[j] = k[j]
  <2>1. j \in 1..Len(l) /\ j \in 1..Len(k)
    OBVIOUS
  <2> QED BY <1>1, <2>1, SameHashSameLine
<1> QED BY <1>2

\* A prefix is shorter and agrees line by line.
LEMMA PrefixIsPointwise ==
    ASSUME NEW a \in Seq(Lines), NEW b \in Seq(Lines)
    PROVE  IsPrefixOf(a, b) <=> Len(a) <= Len(b) /\ \A j \in 1..Len(a) : a[j] = b[j]
<1>1. CASE Len(a) <= Len(b)
  <2> DEFINE p == SubSeq(b, 1, Len(a))
  <2>1. \A j \in 1..Len(a) : b[j] \in Lines
    BY <1>1
  <2>2. p \in Seq(Lines) /\ Len(p) = Len(a) /\ \A j \in 1..Len(a) : p[j] = b[j]
    <3>1. /\ p \in Seq(Lines)
          /\ Len(p) = IF 1 <= Len(a) THEN Len(a) - 1 + 1 ELSE 0
          /\ \A j \in 1..(Len(a) - 1 + 1) : p[j] = b[1 + j - 1]
      BY <2>1, SubSeqProperties
    <3> QED BY <3>1
  <2> HIDE DEF p
  <2>3. (\A j \in 1..Len(a) : a[j] = b[j]) => a = p
    BY <2>2, SeqEqual
  <2>4. a = p => \A j \in 1..Len(a) : a[j] = b[j]
    BY <2>2
  <2> QED BY <1>1, <2>3, <2>4 DEF IsPrefixOf, p
<1>2. CASE ~(Len(a) <= Len(b))
  BY <1>2 DEF IsPrefixOf
<1> QED BY <1>1, <1>2

\* A log that verifies starts with another exactly if it has the other's head
\* where the other ends.
LEMMA PrefixByHash ==
    ASSUME NEW a \in Seq(Lines), Verifies(a), a # <<>>, NEW b \in Seq(Lines), Verifies(b)
    PROVE  IsPrefixOf(a, b) <=> Len(a) <= Len(b) /\ b[Len(a)].hash = HeadOf(a)
<1>1. Len(a) \in 1..Len(a) /\ HeadOf(a) = a[Len(a)].hash
  BY DEF HeadOf
<1>2. IsPrefixOf(a, b) => Len(a) <= Len(b) /\ b[Len(a)].hash = HeadOf(a)
  BY <1>1, PrefixIsPointwise
<1>3. ASSUME Len(a) <= Len(b), b[Len(a)].hash = HeadOf(a) PROVE IsPrefixOf(a, b)
  <2>1. Len(a) \in 1..Len(b)
    BY <1>1, <1>3
  <2>2. \A j \in 1..Len(a) : a[j] = b[j]
    BY <1>1, <1>3, <2>1, SameHashSameHistory
  <2> QED BY <1>3, <2>2, PrefixIsPointwise
<1> QED BY <1>2, <1>3

\* check_against_log: held exactly if the records that were signed are there.
LEMMA CheckIsTrue ==
    ASSUME LedgerInv, Verifies(log), pin.signed, pin.length > 0
    PROVE  Check(pin, log) \in {"held", "byte-identical"} <=> IsPrefixOf(signer.records, log)
<1> DEFINE r == signer.records
           p == pin.length
           at == {i \in 1..Len(log) : log[i].seq = p}
<1>1. /\ r \in Seq(Lines) /\ Verifies(r) /\ p = Len(r) /\ pin.head = HeadOf(r) /\ r # <<>>
      /\ log \in Seq(Lines)
  BY DEF LedgerInv, LedgerTypeOK, PinIsOfRecords
<1>2. IsPrefixOf(r, log) <=> p <= Len(log) /\ log[p].hash = pin.head
  BY <1>1, PrefixByHash
<1>3. p \in Nat /\ p > 0 /\ Len(log) \in Nat
  BY <1>1
<1>4. CASE Len(log) < p
  BY <1>2, <1>3, <1>4 DEF Check
<1>5. CASE p <= Len(log)
  <2>1. \A i \in 1..Len(log) : log[i].seq = i
    BY DEF Verifies
  <2>2. at = {p}
    BY <1>3, <1>5, <2>1
  <2>3. (CHOOSE i \in at : \A j \in at : i <= j) = p
    <3>1. \A i \in at : i = p
      BY <2>2
    <3>2. p \in at /\ \A j \in at : p <= j
      BY <1>3, <2>2
    <3> HIDE DEF at, p
    <3> QED BY <3>1, <3>2
  <2>4. Check(pin, log) = IF log[p].hash # pin.head THEN "rewritten"
                          ELSE IF Len(log) = p /\ log = pin.bytes THEN "byte-identical"
                          ELSE "held"
    <3>1. Check(pin, log) = IF Len(log) < p THEN "rollback"
                            ELSE IF at = {} THEN "rewritten"
                            ELSE IF log[CHOOSE i \in at : \A j \in at : i <= j].hash # pin.head THEN "rewritten"
                            ELSE IF Len(log) = p /\ log = pin.bytes THEN "byte-identical"
                            ELSE "held"
      BY DEF Check
    <3>2. ~(Len(log) < p) /\ at # {}
      BY <1>3, <1>5, <2>2
    <3> HIDE DEF at
    <3> QED BY <2>3, <3>1, <3>2
  <2> QED BY <1>2, <1>5, <2>4
<1> QED BY <1>3, <1>4, <1>5

\* classify_ordered: two sources conflict exactly if neither starts with the other.
LEMMA ConflictIsTrue ==
    ASSUME NEW a \in Seq(Lines), Verifies(a), a # <<>>, NEW b \in Seq(Lines), Verifies(b), b # <<>>
    PROVE  Conflict(a, b) <=> ~IsPrefixOf(a, b) /\ ~IsPrefixOf(b, a)
<1>1. Len(a) \in Nat /\ Len(b) \in Nat
  OBVIOUS
<1>2. IsPrefixOf(a, b) <=> Len(a) <= Len(b) /\ b[Len(a)].hash = HeadOf(a)
  BY PrefixByHash
<1>3. IsPrefixOf(b, a) <=> Len(b) <= Len(a) /\ a[Len(b)].hash = HeadOf(b)
  BY PrefixByHash
<1>4. HeadOf(a) = a[Len(a)].hash /\ HeadOf(b) = b[Len(b)].hash
  BY DEF HeadOf
<1>5. CASE Len(a) = Len(b)
  <2>1. Conflict(a, b) <=> HeadOf(a) # HeadOf(b)
    BY <1>1, <1>5 DEF Conflict, Classify
  <2> QED BY <1>1, <1>2, <1>3, <1>4, <1>5, <2>1
<1>6. CASE Len(a) < Len(b)
  <2>1. Conflict(a, b) <=> b[Len(a)].hash # HeadOf(a)
    BY <1>1, <1>6 DEF Conflict, Classify
  <2> QED BY <1>1, <1>2, <1>3, <1>6, <2>1
<1>7. CASE Len(b) < Len(a)
  <2>1. Conflict(a, b) <=> a[Len(b)].hash # HeadOf(b)
    BY <1>1, <1>7 DEF Conflict, Classify
  <2> QED BY <1>1, <1>2, <1>3, <1>7, <2>1
<1> QED BY <1>1, <1>5, <1>6, <1>7

\* cmd_gossip, of sources that have records at all.
LEMMA GossipIsTrue ==
    ASSUME LedgerInv, \A s \in Answering : Served(s) # <<>>
    PROVE  Gossip(2) = "fork" <=> \E s, t \in Answering : ~IsPrefixOf(Served(s), Served(t))
                                                     /\ ~IsPrefixOf(Served(t), Served(s))
<1>1. \A s \in Answering : Served(s) \in Seq(Lines) /\ Verifies(Served(s)) /\ Served(s) # <<>>
  BY DEF Answering, Source, Served, LedgerInv, LedgerTypeOK
<1>2. \A s, t \in Answering : Conflict(Served(s), Served(t)) <=> ~IsPrefixOf(Served(s), Served(t))
                                                             /\ ~IsPrefixOf(Served(t), Served(s))
  BY <1>1, ConflictIsTrue
<1>3. IsFiniteSet(Answering) /\ Cardinality(Answering) \in Nat
  <2>1. IsFiniteSet(Source)
    BY LedgerAssumption, FS_AddElement DEF Source
  <2>2. Answering \in SUBSET Source
    BY DEF Answering
  <2> QED BY <2>1, <2>2, FS_Subset, FS_CardinalityType
<1>4. ASSUME NEW s \in Answering, NEW t \in Answering, Conflict(Served(s), Served(t))
      PROVE  ~(Cardinality(Answering) < 2) /\ Cardinality(Answering) # 1
  <2>1. Served(s) # Served(t)
    <3>1. IsPrefixOf(Served(s), Served(s))
      <4> DEFINE l == Served(s)
      <4>1. l \in Seq(Lines)
        BY <1>1
      <4> HIDE DEF l
      <4>2. IsPrefixOf(l, l)
        BY <4>1, PrefixIsPointwise
      <4> QED BY <4>2 DEF l
    <3> QED BY <1>2, <1>4, <3>1
  <2>2. s # t
    BY <2>1
  <2>3. Cardinality(Answering) # 0 /\ Cardinality(Answering) # 1
    BY <1>3, <2>2, FS_EmptySet, FS_Singleton
  <2> QED BY <1>3, <2>3
<1>5. Gossip(2) = "fork" <=> \E s, t \in Answering : Conflict(Served(s), Served(t))
  <2>1. ASSUME NEW s \in Answering, NEW t \in Answering, Conflict(Served(s), Served(t)) PROVE Gossip(2) = "fork"
    BY <1>4, <2>1 DEF Gossip
  <2>2. ASSUME Gossip(2) = "fork" PROVE \E s, t \in Answering : Conflict(Served(s), Served(t))
    BY <2>2 DEF Gossip
  <2> QED BY <2>1, <2>2
<1> QED BY <1>2, <1>5

\* verify_proof_live: a proof stands exactly if the log it was made of is there.
LEMMA ProofIsTrue ==
    ASSUME LedgerInv, Verifies(log), proof # NoProof
    PROVE  Stands(proof, log) <=> IsPrefixOf(proof.of, log)
<1>1. PICK l \in Seq(Lines) : Verifies(l) /\ \E i \in 1..Len(l) : proof = ProofOf(l, i)
  BY DEF LedgerInv, ProofIsOfLog
<1>2. PICK i \in 1..Len(l) : proof = ProofOf(l, i)
  BY <1>1
<1>3. log \in Seq(Lines)
  BY DEF LedgerInv, LedgerTypeOK
<1> DEFINE n == Len(l)
           tail == SubSeq(l, i + 1, n)
<1>4. /\ n \in Nat /\ n > 0 /\ i \in 1..n /\ l # <<>> /\ n \in 1..n
      /\ proof.seq = l[i].seq /\ proof.record = l[i] /\ proof.tail = tail
      /\ proof.length = n /\ proof.head = HeadOf(l) /\ proof.of = l
      /\ HeadOf(l) = l[n].hash
  <2>1. n \in Nat /\ n > 0 /\ i \in 1..n /\ l # <<>> /\ n \in 1..n
    OBVIOUS
  <2>2. /\ proof.seq = l[i].seq /\ proof.record = l[i] /\ proof.tail = tail
        /\ proof.length = n /\ proof.head = HeadOf(l) /\ proof.of = l
    BY <1>2 DEF ProofOf
  <2> QED BY <2>1, <2>2 DEF HeadOf
<1>5. l[i].seq = i
  BY <1>1, VerifiedLine
<1>6. Len(tail) = n - i /\ \A k \in 1..Len(tail) : tail[k] = l[i + k]
  <2>1. \A j \in (i + 1)..n : l[j] \in Lines
    BY <1>1, <1>4
  <2>2. /\ Len(tail) = IF i + 1 <= n THEN n - (i + 1) + 1 ELSE 0
        /\ \A k \in 1..(n - (i + 1) + 1) : tail[k] = l[(i + 1) + k - 1]
    BY <1>4, <2>1, SubSeqProperties
  <2>3. Len(tail) = n - i
    BY <1>4, <2>2
  <2>4. ASSUME NEW k \in 1..(n - i) PROVE tail[k] = l[i + k]
    <3>1. k \in 1..(n - (i + 1) + 1) /\ (i + 1) + k - 1 = i + k
      BY <1>4
    <3> QED BY <2>2, <3>1
  <2> QED BY <2>3, <2>4
<1> HIDE DEF tail
<1>7. IsPrefixOf(l, log) <=> n <= Len(log) /\ log[n].hash = HeadOf(l)
  BY <1>1, <1>3, <1>4, PrefixByHash
<1>8. Coherent(proof)
  <2> DEFINE before(k) == IF k = 1 THEN proof.record.hash ELSE proof.tail[k-1].hash
  <2>1. proof.record.hash = ChainOf(proof.record)
    BY <1>1, <1>4 DEF Verifies
  <2>2. ASSUME NEW k \in 1..Len(proof.tail)
        PROVE  proof.tail[k].hash = Append(before(k), [seq |-> proof.tail[k].seq, body |-> proof.tail[k].body])
    <3>1. k \in 1..(n - i) /\ proof.tail[k] = l[i + k] /\ i + k \in 1..n /\ i + k > 1
      BY <1>4, <1>6
    <3>2. l[i + k].hash = Append(l[i + k].prev, [seq |-> i + k, body |-> l[i + k].body])
          /\ l[i + k].seq = i + k /\ l[i + k].prev = l[(i + k) - 1].hash
      BY <1>1, <3>1, VerifiedLine
    <3>3. before(k) = l[(i + k) - 1].hash
      <4>1. CASE k = 1
        <5>1. (i + k) - 1 = i
          BY <1>4, <4>1
        <5> QED BY <1>4, <4>1, <5>1
      <4>2. CASE k # 1
        <5>1. k - 1 \in 1..(n - i) /\ i + (k - 1) = (i + k) - 1
          BY <1>4, <3>1, <4>2
        <5>2. tail[k - 1] = l[(i + k) - 1]
          BY <1>6, <5>1
        <5> QED BY <1>4, <4>2, <5>2
      <4> QED BY <4>1, <4>2
    <3> QED BY <3>1, <3>2, <3>3
  <2>3. proof.head = IF proof.tail = <<>> THEN proof.record.hash ELSE HeadOf(proof.tail)
    <3>1. tail \in Seq(Lines)
      <4>1. \A j \in (i + 1)..n : l[j] \in Lines
        BY <1>1, <1>4
      <4> QED BY <1>4, <4>1, SubSeqProperties DEF tail
    <3>2. CASE i = n
      BY <1>4, <1>6, <3>1, <3>2
    <3>3. CASE i < n
      <4>1. n - i \in 1..Len(tail) /\ tail # <<>> /\ tail[Len(tail)] = l[n]
        <5>1. n - i \in 1..(n - i) /\ i + (n - i) = n /\ n - i > 0
          BY <1>4, <3>3
        <5>2. tail[n - i] = l[n]
          BY <1>6, <5>1
        <5> QED BY <1>6, <3>1, <5>1, <5>2
      <4> QED BY <1>4, <4>1 DEF HeadOf
    <3> QED BY <1>4, <3>2, <3>3
  <2>4. proof.length = proof.seq + Len(proof.tail)
    BY <1>4, <1>5, <1>6
  <2> QED BY <2>1, <2>2, <2>3, <2>4 DEF Coherent
<1>9. IsPrefixOf(l, log) => log[i] = l[i]
  BY <1>1, <1>3, <1>4, PrefixIsPointwise
<1> QED BY <1>4, <1>5, <1>7, <1>8, <1>9 DEF Stands

\* The verdicts on a log that verifies, for histories of any length, any
\* number of mirrors and whatever was done to the file: a pin is held, two
\* sources conflict and a proof stands exactly if the histories say so.
THEOREM VerdictsStayTrue == LedgerSpec => []VerdictsAreTrue
<1>1. LedgerInv => VerdictsAreTrue
  BY CheckIsTrue, GossipIsTrue, ProofIsTrue DEF VerdictsAreTrue
<1> QED BY <1>1, LedgerInductive, PTL
-----------------------------------------------------------------------------
(* The audit ledgers: the inductive invariant *)

EngagementEntry ==
    [kind : {"engagement"}, by : Actor, prev : Nat, time : Nat, roster : SUBSET Actor, anchors : Surface]
EvidenceEntry ==
    [kind : {"evidence"}, by : Actor, prev : Nat, time : Nat, independent : BOOLEAN, ok : BOOLEAN,
     refusals : SUBSET {"guarantee"}]
FindingEntry == [kind : {"finding"}, by : Actor, prev : Nat, time : Nat, id : Nat]
AcceptedEntry ==
    [kind : {"triage"}, by : Actor, prev : Nat, time : Nat, for : Nat, verdict : {"accepted"}, fix : Revision]
DisputedEntry == [kind : {"triage"}, by : Actor, prev : Nat, time : Nat, for : Nat, verdict : {"disputed"}]
SignoffEntry ==
    [kind : {"signoff"}, by : Actor, prev : Nat, time : Nat, tree : Revision \cup {Missing},
     anchors : Surface \cup {<<>>}]

Entry ==
    EngagementEntry \cup EvidenceEntry \cup FindingEntry \cup AcceptedEntry \cup DisputedEntry \cup SignoffEntry

Command ==
    [step : {"fix", "anchors", "landing", "head", "decided", "chained"}, read : Nat, todo : SUBSET Nat,
     body : Entry, prev : Nat]

EngageTypeOK ==
    /\ final \in BOOLEAN
    /\ ledger \in Seq(Entry)
    /\ cmd \in [Actor -> {NotRunning} \cup Command]
    /\ clock \in Nat
    /\ DOMAIN git \subseteq Revision /\ head \in Revision
    /\ git \in [DOMAIN git -> [parent : Revision, time : Nat, surface : Surface]]
    /\ surface \in Surface
    /\ slips \subseteq {"git", "tree"}

\* One of the first n entries is a finding of that number.
Filed(l, id, n) == \E i \in 1..n : l[i].kind = "finding" /\ l[i].id = id

\* AnswerIsFair of an entry that comes after the first n; asked: git has answered.
FairAfter(l, e, n, g, isFinal, asked) ==
    /\ e.by \notin Roster(l)
    /\ \E i \in 1..n :
         /\ l[i].kind = "finding" /\ l[i].id = e.for /\ l[i].by \in Roster(l)
         /\ e.verdict = "accepted" /\ asked => e.fix \in DOMAIN g /\ (isFinal => g[e.fix].time >= l[i].time)

\* Audited, of any ledger.
AuditedIn(l, n) ==
    /\ \A i \in 1..n : l[i].kind # "signoff"
    /\ \A i \in 1..n : l[i].kind = "finding" => \E j \in 1..n : l[j].kind = "triage" /\ l[j].for = l[i].id
    /\ \E i \in 1..n : l[i].kind = "evidence" /\ l[i].by \in Roster(l)
    /\ \E i \in 1..n : l[i].kind = "evidence" /\ l[i].ok /\ \A j \in 1..n : l[j].kind = "evidence" => j <= i

\* What an entry has to be to come after the first n; still: the tree has kept
\* still for the signers.
FitsAfter(l, e, n, g, isFinal, asked, still) ==
    /\ e.kind # "engagement" => n >= 1
    /\ e.kind = "evidence" => (e.independent => e.by \in Roster(l))
    /\ e.kind = "finding" => e.by \in Roster(l)
    /\ e.kind = "triage" => FairAfter(l, e, n, g, isFinal, asked)
    /\ e.kind = "signoff" =>
         /\ \E k \in 1..n : AuditedIn(l, k)
         /\ e.by \notin Roster(l)
         /\ still => e.anchors = l[1].anchors

WellKept(l, g, isFinal, asked, still) ==
    \A i \in 1..Len(l) : FitsAfter(l, l[i], i - 1, g, isFinal, asked, still)

\* What a command has found out by each of its steps.
CommandFits(c, l, g, tree, isFinal, asked, still) ==
    /\ c.read <= Len(l)
    /\ c.step = "fix" =>
         /\ c.body \in AcceptedEntry
         /\ c.body.by \notin Roster(l)
         /\ Filed(l, c.body.for, c.read)
    /\ c.step \in {"anchors", "landing", "head"} =>
         /\ c.body \in SignoffEntry
         /\ c.body.by \notin Roster(l)
         /\ c.read >= 1 /\ AuditedIn(l, c.read)
    /\ c.step = "landing" /\ still => tree = l[1].anchors
    /\ c.step = "head" /\ still => c.body.anchors = l[1].anchors
    /\ c.step \in {"decided", "chained"} => FitsAfter(l, c.body, Len(l), g, isFinal, asked, still)

InFlight(a) == cmd[a].step # "none"
Asked == "git" \notin slips
Still == "tree" \notin slips

PendingFits == \A a \in Actor : InFlight(a) => CommandFits(cmd[a], ledger, git, surface, final, Asked, Still)

EngageInv == EngageTypeOK /\ WellKept(ledger, git, final, Asked, Still) /\ PendingFits

-----------------------------------------------------------------------------
(* An audit ledger is only appended to, and the repository only grows *)

Extends(m, l) == Len(l) \in Nat /\ Len(m) \in Nat /\ Len(l) <= Len(m) /\ \A i \in 1..Len(l) : m[i] = l[i]
Grows(h, g) == \A c \in DOMAIN g : c \in DOMAIN h /\ h[c].time = g[c].time

\* Whoever signed the contract, and what it names, stays.
LEMMA ContractStays ==
    ASSUME NEW l, NEW m, Extends(m, l), Len(l) >= 1
    PROVE  m[1] = l[1] /\ Roster(m) = Roster(l)
BY DEF Extends, Roster

LEMMA FairStays ==
    ASSUME NEW l, NEW m, Extends(m, l), NEW g, NEW h, Grows(h, g),
           NEW n \in Nat, n <= Len(l), NEW k \in Nat, n <= k, NEW e, NEW isFinal,
           NEW asked, NEW nowAsked, nowAsked => asked, FairAfter(l, e, n, g, isFinal, asked)
    PROVE  FairAfter(m, e, k, h, isFinal, nowAsked)
<1>1. Len(l) \in Nat /\ \A i \in 1..Len(l) : m[i] = l[i]
  BY DEF Extends
<1>2. PICK i \in 1..n :
         /\ l[i].kind = "finding" /\ l[i].id = e.for /\ l[i].by \in Roster(l)
         /\ e.verdict = "accepted" /\ asked => e.fix \in DOMAIN g /\ (isFinal => g[e.fix].time >= l[i].time)
  BY DEF FairAfter
<1>3. i \in 1..k /\ i \in 1..Len(l) /\ Len(l) >= 1
  BY <1>1, <1>2
<1>4. m[i] = l[i] /\ Roster(m) = Roster(l)
  BY <1>1, <1>3, ContractStays
<1>5. e.verdict = "accepted" /\ nowAsked => e.fix \in DOMAIN h /\ (isFinal => h[e.fix].time >= m[i].time)
  BY <1>2, <1>4 DEF Grows
<1>6. e.by \notin Roster(m)
  BY <1>4 DEF FairAfter
<1> QED BY <1>2, <1>3, <1>4, <1>5, <1>6 DEF FairAfter

LEMMA AuditedStays ==
    ASSUME NEW l, NEW m, Extends(m, l), NEW n \in Nat, n >= 1, n <= Len(l), AuditedIn(l, n)
    PROVE  AuditedIn(m, n)
<1>1. \A i \in 1..n : m[i] = l[i]
  BY DEF Extends
<1>2. Roster(m) = Roster(l)
  BY ContractStays DEF Extends
<1> QED BY <1>1, <1>2 DEF AuditedIn

LEMMA FitsStays ==
    ASSUME NEW l, NEW m, Extends(m, l), NEW g, NEW h, Grows(h, g),
           NEW n \in Nat, n <= Len(l), NEW k \in Nat, n <= k, NEW e, NEW isFinal,
           NEW asked, NEW nowAsked, nowAsked => asked, NEW still, NEW nowStill, nowStill => still,
           FitsAfter(l, e, n, g, isFinal, asked, still)
    PROVE  FitsAfter(m, e, k, h, isFinal, nowAsked, nowStill)
<1>1. CASE e.kind = "engagement"
  BY <1>1 DEF FitsAfter
<1>2. CASE e.kind # "engagement"
  <2>1. n >= 1 /\ Len(l) >= 1 /\ Len(l) \in Nat
    BY <1>2 DEF FitsAfter, Extends
  <2>2. m[1] = l[1] /\ Roster(m) = Roster(l)
    BY <2>1, ContractStays
  <2>3. e.kind = "triage" => FairAfter(m, e, k, h, isFinal, nowAsked)
    <3> SUFFICES ASSUME e.kind = "triage" PROVE FairAfter(m, e, k, h, isFinal, nowAsked)
      OBVIOUS
    <3>1. FairAfter(l, e, n, g, isFinal, asked)
      BY DEF FitsAfter
    <3> QED BY <3>1, FairStays
  <2>4. e.kind = "signoff" => \E j \in 1..k : AuditedIn(m, j)
    <3> SUFFICES ASSUME e.kind = "signoff" PROVE \E j \in 1..k : AuditedIn(m, j)
      OBVIOUS
    <3>1. PICK j \in 1..n : AuditedIn(l, j)
      BY DEF FitsAfter
    <3>2. j \in Nat /\ j >= 1 /\ j <= Len(l) /\ j \in 1..k
      BY <2>1, <3>1
    <3>3. AuditedIn(m, j)
      BY <3>1, <3>2, AuditedStays
    <3> QED BY <3>2, <3>3
  <2>5. k >= 1
    BY <2>1
  <2> QED BY <2>2, <2>3, <2>4, <2>5 DEF FitsAfter
<1> QED BY <1>1, <1>2

\* A command that does nothing keeps what it has found out, unless it is between
\* two looks at a tree that moves.
LEMMA CommandStays ==
    ASSUME NEW l, NEW m, Extends(m, l), NEW g, NEW h, Grows(h, g), NEW isFinal,
           NEW asked, NEW nowAsked, nowAsked => asked, NEW still, NEW nowStill, nowStill => still,
           NEW c \in Command, NEW tree, NEW nowTree, c.step = "landing" /\ nowStill => nowTree = tree,
           CommandFits(c, l, g, tree, isFinal, asked, still)
    PROVE  CommandFits(c, m, h, nowTree, isFinal, nowAsked, nowStill)
<1>1. Len(l) \in Nat /\ Len(m) \in Nat /\ Len(l) <= Len(m) /\ c.read \in Nat /\ c.read <= Len(l)
  BY DEF Extends, CommandFits, Command
<1>2. c.read <= Len(m)
  BY <1>1
<1>3. c.step = "fix" => c.body.by \notin Roster(m) /\ Filed(m, c.body.for, c.read)
  <2> SUFFICES ASSUME c.step = "fix" PROVE c.body.by \notin Roster(m) /\ Filed(m, c.body.for, c.read)
    OBVIOUS
  <2>1. PICK i \in 1..c.read : l[i].kind = "finding" /\ l[i].id = c.body.for
    BY DEF CommandFits, Filed
  <2>2. Len(l) >= 1 /\ i \in 1..Len(l)
    BY <1>1, <2>1
  <2>3. m[i] = l[i] /\ Roster(m) = Roster(l)
    BY <2>2, ContractStays DEF Extends
  <2> QED BY <2>1, <2>3 DEF CommandFits, Filed
<1>4. c.step \in {"anchors", "landing", "head"} =>
         m[1] = l[1] /\ c.body.by \notin Roster(m) /\ c.read >= 1 /\ AuditedIn(m, c.read)
  <2> SUFFICES ASSUME c.step \in {"anchors", "landing", "head"}
               PROVE  m[1] = l[1] /\ c.body.by \notin Roster(m) /\ c.read >= 1 /\ AuditedIn(m, c.read)
    OBVIOUS
  <2>1. c.body.by \notin Roster(l) /\ c.read >= 1 /\ AuditedIn(l, c.read)
    BY DEF CommandFits
  <2>2. m[1] = l[1] /\ Roster(m) = Roster(l)
    BY <1>1, <2>1, ContractStays
  <2> QED BY <1>1, <2>1, <2>2, AuditedStays
<1>5. c.step \in {"decided", "chained"} => FitsAfter(m, c.body, Len(m), h, isFinal, nowAsked, nowStill)
  <2> SUFFICES ASSUME c.step \in {"decided", "chained"}
               PROVE  FitsAfter(m, c.body, Len(m), h, isFinal, nowAsked, nowStill)
    OBVIOUS
  <2>1. FitsAfter(l, c.body, Len(l), g, isFinal, asked, still)
    BY DEF CommandFits
  <2> QED BY <1>1, <2>1, FitsStays
<1>6. /\ c.step = "fix" => c.body \in AcceptedEntry
      /\ c.step \in {"anchors", "landing", "head"} => c.body \in SignoffEntry
      /\ c.step = "landing" /\ still => tree = l[1].anchors
      /\ c.step = "head" /\ still => c.body.anchors = l[1].anchors
  BY DEF CommandFits
<1> QED BY <1>2, <1>3, <1>4, <1>5, <1>6 DEF CommandFits

LEMMA KeptStays ==
    ASSUME NEW l, Len(l) \in Nat, NEW g, NEW h, Grows(h, g), NEW isFinal,
           NEW asked, NEW nowAsked, nowAsked => asked, NEW still, NEW nowStill, nowStill => still,
           WellKept(l, g, isFinal, asked, still)
    PROVE  WellKept(l, h, isFinal, nowAsked, nowStill)
<1>1. Extends(l, l)
  BY DEF Extends
<1> SUFFICES ASSUME NEW i \in 1..Len(l) PROVE FitsAfter(l, l[i], i - 1, h, isFinal, nowAsked, nowStill)
  BY DEF WellKept
<1>2. FitsAfter(l, l[i], i - 1, g, isFinal, asked, still)
  BY DEF WellKept
<1>3. i - 1 \in Nat /\ i - 1 <= Len(l)
  OBVIOUS
<1> QED BY <1>1, <1>2, <1>3, FitsStays

-----------------------------------------------------------------------------
(* Reading a ledger *)

\* What a bounded set of numbers has, the least and the greatest of them.
LEMMA GreatestElement ==
    ASSUME NEW n \in Nat, NEW T \in SUBSET (0..n), T # {} PROVE \E x \in T : \A y \in T : x >= y
<1> DEFINE U == {n - x : x \in T}
<1>1. U \in SUBSET Nat /\ U # {}
  <2>1. \A x \in T : n - x \in Nat
    OBVIOUS
  <2> QED BY <2>1
<1> HIDE DEF U
<1>2. PICK u \in U : \A v \in U : u <= v
  BY <1>1, LeastElement
<1> USE DEF U
<1>3. PICK x \in T : u = n - x
  OBVIOUS
<1>4. \A y \in T : n - y \in U /\ y \in Int /\ x \in Int
  OBVIOUS
<1>5. \A y \in T : x >= y
  BY <1>2, <1>3, <1>4
<1> QED BY <1>5

LEMMA LastIsGreatest ==
    ASSUME NEW n \in Nat, NEW places \in SUBSET (0..n), places # {}
    PROVE  LastOf(places) \in places /\ \A j \in places : LastOf(places) >= j
<1>1. \E i \in places : \A j \in places : i >= j
  BY GreatestElement
<1> QED BY <1>1 DEF LastOf

\* The kind of an entry says which record it is.
LEMMA KindOf ==
    ASSUME NEW e \in Entry
    PROVE  /\ e.by \in Actor /\ e.time \in Nat
           /\ e.kind \in {"engagement", "evidence", "finding", "triage", "signoff"}
           /\ e \in EngagementEntry => e.kind = "engagement"
           /\ e \in EvidenceEntry => e.kind = "evidence"
           /\ e \in FindingEntry => e.kind = "finding"
           /\ e \in AcceptedEntry \cup DisputedEntry => e.kind = "triage"
           /\ e \in SignoffEntry => e.kind = "signoff"
           /\ e.kind = "finding" => e.id \in Nat
           /\ e.kind = "triage" => e.for \in Nat
BY DEF Entry, EngagementEntry, EvidenceEntry, FindingEntry, AcceptedEntry, DisputedEntry, SignoffEntry

\* What a command reads is the beginning of the ledger.
LEMMA ReadIsBeginning ==
    ASSUME NEW l \in Seq(Entry), NEW n \in Nat, n <= Len(l)
    PROVE  /\ DOMAIN SubSeq(l, 1, n) = 1..n
           /\ \A i \in 1..n : SubSeq(l, 1, n)[i] = l[i] /\ l[i] \in Entry
BY DEF SubSeq

LEMMA LedgerEntries ==
    ASSUME NEW l \in Seq(Entry)
    PROVE  Len(l) \in Nat /\ DOMAIN l = 1..Len(l) /\ \A i \in 1..Len(l) : l[i] \in Entry
OBVIOUS

\* The finding a fix is held against is one that was read.
LEMMA FindingIsFiled ==
    ASSUME NEW l \in Seq(Entry), NEW n \in Nat, n <= Len(l), NEW id, Filed(l, id, n)
    PROVE  \E i \in 1..n : l[i].kind = "finding" /\ l[i].id = id /\ FindingOf(SubSeq(l, 1, n), id) = l[i]
<1> DEFINE s == SubSeq(l, 1, n)
<1> DEFINE places == {i \in OfKind(s, "finding") : s[i].id = id}
<1>1. DOMAIN s = 1..n /\ \A i \in 1..n : s[i] = l[i]
  BY ReadIsBeginning
<1>2. FindingOf(s, id) = s[LastOf(places)]
  BY DEF FindingOf
<1> HIDE DEF s
<1>3. places = {i \in 1..n : l[i].kind = "finding" /\ l[i].id = id}
  BY <1>1 DEF OfKind
<1>4. places \in SUBSET (0..n) /\ places # {}
  BY <1>3 DEF Filed
<1> HIDE DEF places
<1>5. LastOf(places) \in places
  BY <1>4, LastIsGreatest
<1>6. LastOf(places) \in 1..n /\ l[LastOf(places)].kind = "finding" /\ l[LastOf(places)].id = id
  BY <1>3, <1>5
<1>7. FindingOf(s, id) = l[LastOf(places)]
  BY <1>1, <1>2, <1>6
<1> QED BY <1>6, <1>7 DEF s

\* A census that closes leaves an audit that may close.
LEMMA CensusIsAudited ==
    ASSUME NEW l \in Seq(Entry), NEW g, NEW isFinal, NEW asked, NEW still, WellKept(l, g, isFinal, asked, still),
           CensusCloses(l), ~Sealed(l)
    PROVE  Len(l) >= 1 /\ AuditedIn(l, Len(l))
<1> DEFINE n == Len(l)
<1> DEFINE passes == OfKind(l, "evidence")
<1>1. n \in Nat /\ DOMAIN l = 1..n /\ \A i \in 1..n : l[i] \in Entry
  BY LedgerEntries
<1>2. passes = {i \in 1..n : l[i].kind = "evidence"}
  BY <1>1 DEF OfKind
<1>3. /\ passes # {} /\ l[LastOf(passes)].ok
      /\ \E i \in passes : l[i].independent
      /\ findings_of(l) \subseteq triages_of(l)
  BY DEF CensusCloses, passes_of, AllAnswered
<1> HIDE DEF n, passes
<1>4. passes \in SUBSET (0..n)
  BY <1>1, <1>2
<1>5. LastOf(passes) \in passes /\ \A j \in passes : LastOf(passes) >= j
  BY <1>1, <1>3, <1>4, LastIsGreatest
<1>6. \E i \in 1..n : l[i].kind = "evidence" /\ l[i].ok /\ \A j \in 1..n : l[j].kind = "evidence" => j <= i
  <2>1. \A j \in 1..n : j \in Int
    BY <1>1
  <2>2. LastOf(passes) \in 1..n /\ l[LastOf(passes)].kind = "evidence"
    BY <1>2, <1>5
  <2>3. \A j \in 1..n : l[j].kind = "evidence" => j <= LastOf(passes)
    BY <1>2, <1>5, <2>1, <2>2
  <2> QED BY <1>3, <2>2, <2>3
<1>7. \E i \in 1..n : l[i].kind = "evidence" /\ l[i].by \in Roster(l)
  <2>1. PICK i \in passes : l[i].independent
    BY <1>3
  <2>2. i \in 1..n /\ l[i].kind = "evidence"
    BY <1>2, <2>1
  <2>3. FitsAfter(l, l[i], i - 1, g, isFinal, asked, still)
    BY <2>2 DEF WellKept, n
  <2> QED BY <2>1, <2>2, <2>3 DEF FitsAfter
<1>8. \A i \in 1..n : l[i].kind = "finding" => \E j \in 1..n : l[j].kind = "triage" /\ l[j].for = l[i].id
  <2> SUFFICES ASSUME NEW i \in 1..n, l[i].kind = "finding"
               PROVE  \E j \in 1..n : l[j].kind = "triage" /\ l[j].for = l[i].id
    OBVIOUS
  <2>1. l[i].id \in findings_of(l)
    BY <1>1 DEF findings_of, OfKind
  <2>2. l[i].id \in triages_of(l)
    BY <1>3, <2>1
  <2> QED BY <1>1, <2>2 DEF triages_of, OfKind
<1>9. \A i \in 1..n : l[i].kind # "signoff"
  BY <1>1 DEF Sealed, OfKind
<1>10. n >= 1
  BY <1>1, <1>6
<1> QED BY <1>6, <1>7, <1>8, <1>9, <1>10 DEF AuditedIn, n

\* Numbers of findings that can be read have a highest.
LEMMA NextNumber ==
    ASSUME NEW ids \in SUBSET (1..MaxId) PROVE 1 + Max({0} \cup ids) \in Nat
<1>1. MaxId \in Nat
  BY EngagementAssumption
<1>2. {0} \cup ids \in SUBSET (0..MaxId) /\ {0} \cup ids # {}
  BY <1>1
<1>3. PICK x \in {0} \cup ids : \A y \in {0} \cup ids : x >= y
  BY <1>1, <1>2, GreatestElement
<1>4. Max({0} \cup ids) \in {0} \cup ids
  BY <1>3 DEF Max
<1>5. \A y \in {0} \cup ids : 1 + y \in Nat
  BY <1>1
<1> QED BY <1>4, <1>5, Zenon

\* The entry written is the one decided but for its place and its time.
LEMMA StampKeeps ==
    ASSUME NEW e \in Entry, NEW prev \in Nat, clock \in Nat
    PROVE  LET w == Stamped(e, prev) IN
           /\ w \in Entry /\ w.kind = e.kind /\ w.by = e.by
           /\ e.kind = "evidence" => w.independent = e.independent
           /\ e.kind = "triage" => w.for = e.for /\ w.verdict = e.verdict /\ (e.verdict = "accepted" => w.fix = e.fix)
           /\ e.kind = "signoff" => w.anchors = e.anchors
<1> DEFINE w == Stamped(e, prev)
<1> DEFINE t == IF e.kind = "finding" THEN clock ELSE 0
<1>1. w = [e EXCEPT !.prev = prev, !.time = t] /\ t \in Nat
  BY DEF Stamped
<1> HIDE DEF w, t
<1>2. e \in EngagementEntry => w \in EngagementEntry /\ w.kind = e.kind /\ w.by = e.by
  BY <1>1 DEF EngagementEntry
<1>3. e \in EvidenceEntry => w \in EvidenceEntry /\ w.kind = e.kind /\ w.by = e.by /\ w.independent = e.independent
  BY <1>1 DEF EvidenceEntry
<1>4. e \in FindingEntry => w \in FindingEntry /\ w.kind = e.kind /\ w.by = e.by
  BY <1>1 DEF FindingEntry
<1>5. e \in AcceptedEntry => /\ w \in AcceptedEntry /\ w.kind = e.kind /\ w.by = e.by
                             /\ w.for = e.for /\ w.verdict = e.verdict /\ w.fix = e.fix
  BY <1>1 DEF AcceptedEntry
<1>6. e \in DisputedEntry => /\ w \in DisputedEntry /\ w.kind = e.kind /\ w.by = e.by
                             /\ w.for = e.for /\ w.verdict = e.verdict
  BY <1>1 DEF DisputedEntry
<1>7. e \in SignoffEntry => w \in SignoffEntry /\ w.kind = e.kind /\ w.by = e.by /\ w.anchors = e.anchors
  BY <1>1 DEF SignoffEntry
<1>8. e \in DisputedEntry => e.verdict # "accepted"
  BY DEF DisputedEntry
<1>9. w \in Entry /\ w.kind = e.kind /\ w.by = e.by
  BY <1>2, <1>3, <1>4, <1>5, <1>6, <1>7 DEF Entry
<1>10. /\ e.kind = "evidence" => w.independent = e.independent
       /\ e.kind = "triage" => w.for = e.for /\ w.verdict = e.verdict /\ (e.verdict = "accepted" => w.fix = e.fix)
       /\ e.kind = "signoff" => w.anchors = e.anchors
  BY <1>3, <1>5, <1>6, <1>7, <1>8, KindOf DEF Entry
<1> QED BY <1>9, <1>10 DEF w

\* An entry that fits, fits when it is stamped.
LEMMA StampFits ==
    ASSUME NEW e \in Entry, NEW prev \in Nat, clock \in Nat, NEW l, NEW n, NEW g, NEW isFinal,
           NEW asked, NEW still, FitsAfter(l, e, n, g, isFinal, asked, still)
    PROVE  FitsAfter(l, Stamped(e, prev), n, g, isFinal, asked, still)
<1> DEFINE w == Stamped(e, prev)
<1>1. /\ w.kind = e.kind /\ w.by = e.by
      /\ e.kind = "evidence" => w.independent = e.independent
      /\ e.kind = "triage" => w.for = e.for /\ w.verdict = e.verdict /\ (e.verdict = "accepted" => w.fix = e.fix)
      /\ e.kind = "signoff" => w.anchors = e.anchors
  BY StampKeeps
<1> HIDE DEF w
<1>2. e.kind = "triage" => FairAfter(l, w, n, g, isFinal, asked)
  BY <1>1 DEF FitsAfter, FairAfter
<1> QED BY <1>1, <1>2 DEF FitsAfter, w

-----------------------------------------------------------------------------
(* The steps *)

\* An empty ledger over a first commit.
LEMMA EngageInitInv == EngageInit => EngageInv
<1> SUFFICES ASSUME EngageInit PROVE EngageInv
  OBVIOUS
<1>1. /\ final \in BOOLEAN /\ ledger = <<>> /\ clock = 0 /\ slips = {}
      /\ cmd = [a \in Actor |-> NotRunning]
  BY DEF EngageInit
<1>2. PICK first \in Revision, s \in Surface :
         /\ git = [c \in {first} |-> [parent |-> first, time |-> 0, surface |-> s]]
         /\ head = first
         /\ surface = s
  BY DEF EngageInit
<1>3. /\ git \in [DOMAIN git -> [parent : Revision, time : Nat, surface : Surface]]
      /\ DOMAIN git \subseteq Revision /\ head \in Revision /\ surface \in Surface
  BY <1>2
<1>4. EngageTypeOK
  BY <1>1, <1>3 DEF EngageTypeOK
<1>5. WellKept(ledger, git, final, Asked, Still)
  BY <1>1 DEF WellKept
<1>6. PendingFits
  BY <1>1 DEF PendingFits, InFlight, NotRunning
<1> QED BY <1>4, <1>5, <1>6 DEF EngageInv

\* A step of one command that does not touch the ledger.
LEMMA OneCommandInv ==
    ASSUME EngageInv, NEW a \in Actor, NEW c \in {NotRunning} \cup Command, cmd' = [cmd EXCEPT ![a] = c],
           UNCHANGED <<final, ledger, clock, repoVars>>, slips' \in {slips, slips \cup {"git"}},
           c.step # "none" => CommandFits(c, ledger, git, surface, final, Asked', Still)
    PROVE  EngageInv'
<1>1. /\ final' = final /\ ledger' = ledger /\ clock' = clock /\ git' = git /\ head' = head
      /\ surface' = surface
  BY DEF repoVars
<1>2. EngageTypeOK /\ WellKept(ledger, git, final, Asked, Still) /\ PendingFits
  BY DEF EngageInv
<1>3. (Asked' => Asked) /\ (Still' <=> Still) /\ slips' \subseteq {"git", "tree"}
  BY <1>2 DEF Asked, Still, EngageTypeOK
<1>4. cmd' \in [Actor -> {NotRunning} \cup Command]
  BY <1>2 DEF EngageTypeOK
<1>5. EngageTypeOK'
  BY <1>1, <1>2, <1>3, <1>4 DEF EngageTypeOK
<1>6. Extends(ledger, ledger) /\ Grows(git, git) /\ Len(ledger) \in Nat
  BY <1>2 DEF Extends, Grows, EngageTypeOK
<1>7. WellKept(ledger, git, final, Asked', Still')
  BY <1>2, <1>3, <1>6, KeptStays
<1>8. ASSUME NEW b \in Actor, cmd'[b].step # "none"
      PROVE  CommandFits(cmd'[b], ledger, git, surface, final, Asked', Still')
  <2>1. CASE b = a
    <3>1. cmd'[b] = c
      BY <1>2, <2>1 DEF EngageTypeOK
    <3>2. c \in Command
      BY <1>8, <3>1 DEF NotRunning
    <3>3. CommandFits(c, ledger, git, surface, final, Asked', Still)
      BY <1>8, <3>1
    <3> QED BY <1>3, <1>6, <3>1, <3>2, <3>3, CommandStays
  <2>2. CASE b # a
    <3>1. cmd'[b] = cmd[b]
      BY <1>2, <2>2 DEF EngageTypeOK
    <3>2. cmd[b] \in Command
      BY <1>2, <1>8, <3>1 DEF EngageTypeOK, NotRunning
    <3>3. CommandFits(cmd[b], ledger, git, surface, final, Asked, Still)
      BY <1>2, <1>8, <3>1 DEF PendingFits, InFlight
    <3> QED BY <1>3, <1>6, <3>1, <3>2, <3>3, CommandStays
  <2> QED BY <2>1, <2>2
<1>9. PendingFits'
  BY <1>1, <1>8 DEF PendingFits, InFlight
<1> QED BY <1>1, <1>5, <1>7, <1>9 DEF EngageInv

\* A command that is given up.
LEMMA DoneInv ==
    ASSUME EngageInv, NEW a \in Actor, Done(a), UNCHANGED <<final, ledger, clock, repoVars, slips>>
    PROVE  EngageInv'
BY OneCommandInv DEF Done, NotRunning

\* A command that begins, on what it has just read.
LEMMA BeginInv ==
    ASSUME EngageInv, NEW a \in Actor, NEW step \in {"fix", "anchors", "decided"}, NEW body \in Entry,
           Begin(a, step, body),
           step = "fix" => body \in AcceptedEntry /\ body.by \notin Roster(ledger) /\ Filed(ledger, body.for, Len(ledger)),
           step = "anchors" => /\ body \in SignoffEntry /\ body.by \notin Roster(ledger)
                               /\ Len(ledger) >= 1 /\ AuditedIn(ledger, Len(ledger)),
           step = "decided" => FitsAfter(ledger, body, Len(ledger), git, final, Asked, Still)
    PROVE  EngageInv'
<1> DEFINE c == [step |-> step, read |-> Len(ledger), todo |-> {}, body |-> body, prev |-> 0]
<1>1. Len(ledger) \in Nat
  BY DEF EngageInv, EngageTypeOK
<1>2. c \in Command /\ c.step = step /\ c.read = Len(ledger) /\ c.body = body
  BY <1>1 DEF Command
<1>3. cmd' = [cmd EXCEPT ![a] = c] /\ UNCHANGED <<final, ledger, clock, repoVars, slips>>
  BY DEF Begin
<1> HIDE DEF c
<1>4. Asked' = Asked
  BY <1>3 DEF Asked
<1>5. CommandFits(c, ledger, git, surface, final, Asked', Still)
  BY <1>1, <1>2, <1>4 DEF CommandFits
<1> QED BY <1>2, <1>3, <1>5, OneCommandInv

LEMMA EngageKeeps == ASSUME EngageInv, NEW a \in Actor, Engage(a) PROVE EngageInv'
<1>1. PICK roster \in (SUBSET Actor) \ {{}} :
         Begin(a, "decided", [kind |-> "engagement", by |-> a, prev |-> 0, time |-> 0, roster |-> roster, anchors |-> surface])
  BY DEF Engage, Decide
<1>2. PICK body : /\ body = [kind |-> "engagement", by |-> a, prev |-> 0, time |-> 0, roster |-> roster, anchors |-> surface]
                  /\ Begin(a, "decided", body)
  BY <1>1
<1>3. body \in EngagementEntry /\ body.kind = "engagement"
  BY <1>2 DEF EngagementEntry, EngageInv, EngageTypeOK
<1>4. body \in Entry /\ FitsAfter(ledger, body, Len(ledger), git, final, Asked, Still)
  BY <1>3 DEF FitsAfter, Entry
<1> QED BY <1>2, <1>4, BeginInv

\* A ledger with a contract has an entry.
LEMMA OpenHasContract == ASSUME EngageInv, Open PROVE Len(ledger) \in Nat /\ Len(ledger) >= 1
BY DEF Open, Engaged, EngageInv, EngageTypeOK

LEMMA EvidenceKeeps == ASSUME EngageInv, NEW a \in Actor, Evidence(a) PROVE EngageInv'
<1>1. PICK refusals \in {{}, {"guarantee"}} :
         Begin(a, "decided", [kind |-> "evidence", by |-> a, prev |-> 0, time |-> 0, independent |-> a \in Roster(ledger),
                              ok |-> refusals = {}, refusals |-> refusals])
  BY DEF Evidence, Decide
<1>2. PICK body : /\ body = [kind |-> "evidence", by |-> a, prev |-> 0, time |-> 0, independent |-> a \in Roster(ledger),
                             ok |-> refusals = {}, refusals |-> refusals]
                  /\ Begin(a, "decided", body)
  BY <1>1
<1>3. PICK mine, green : mine = (a \in Roster(ledger)) /\ green = (refusals = {})
  OBVIOUS
<1>4. mine \in BOOLEAN /\ green \in BOOLEAN /\ refusals \in SUBSET {"guarantee"}
  BY <1>3
<1>5. body = [kind |-> "evidence", by |-> a, prev |-> 0, time |-> 0, independent |-> mine, ok |-> green, refusals |-> refusals]
  BY <1>2, <1>3
<1>6. body \in EvidenceEntry /\ body.kind = "evidence" /\ body.independent = mine /\ body.by = a
  BY <1>4, <1>5 DEF EvidenceEntry
<1>7. Len(ledger) >= 1
  BY OpenHasContract DEF Evidence
<1>8. FitsAfter(ledger, body, Len(ledger), git, final, Asked, Still)
  BY <1>3, <1>6, <1>7 DEF FitsAfter
<1>9. body \in Entry
  BY <1>6 DEF Entry
<1> QED BY <1>2, <1>8, <1>9, BeginInv

LEMMA FileFindingKeeps == ASSUME EngageInv, NEW a \in Actor, FileFinding(a) PROVE EngageInv'
<1>1. Begin(a, "decided", [kind |-> "finding", by |-> a, prev |-> 0, time |-> 0, id |-> 1 + Max({0} \cup findings_of(ledger))])
  BY DEF FileFinding, Decide
<1>2. PICK id : id = 1 + Max({0} \cup findings_of(ledger))
  OBVIOUS
<1>3. findings_of(ledger) \in SUBSET (1..MaxId)
  BY <1>1 DEF Begin, Readable, entry_shape, findings_of, OfKind
<1>4. id \in Nat
  BY <1>2, <1>3, NextNumber
<1>5. PICK body : body = [kind |-> "finding", by |-> a, prev |-> 0, time |-> 0, id |-> id] /\ Begin(a, "decided", body)
  BY <1>1, <1>2
<1>6. body \in FindingEntry /\ body.kind = "finding" /\ body.by = a
  BY <1>4, <1>5 DEF FindingEntry
<1>7. Len(ledger) >= 1 /\ a \in Roster(ledger)
  BY OpenHasContract DEF FileFinding
<1>8. FitsAfter(ledger, body, Len(ledger), git, final, Asked, Still)
  BY <1>6, <1>7 DEF FitsAfter
<1>9. body \in Entry
  BY <1>6 DEF Entry
<1> QED BY <1>5, <1>8, <1>9, BeginInv

LEMMA TriageKeeps == ASSUME EngageInv, NEW a \in Actor, Triage(a) PROVE EngageInv'
<1>1. ledger \in Seq(Entry) /\ WellKept(ledger, git, final, Asked, Still)
  BY DEF EngageInv, EngageTypeOK
<1>2. Len(ledger) \in Nat /\ Len(ledger) >= 1 /\ a \notin Roster(ledger)
  BY OpenHasContract DEF Triage
<1>3. PICK id \in findings_of(ledger) :
         \/ \E fix \in Revision :
              Begin(a, "fix", [kind |-> "triage", by |-> a, prev |-> 0, time |-> 0, for |-> id, verdict |-> "accepted", fix |-> fix])
         \/ Begin(a, "decided", [kind |-> "triage", by |-> a, prev |-> 0, time |-> 0, for |-> id, verdict |-> "disputed"])
  BY DEF Triage, Decide
<1>4. PICK i \in 1..Len(ledger) : ledger[i].kind = "finding" /\ ledger[i].id = id
  BY <1>1, LedgerEntries DEF findings_of, OfKind
<1>5. Filed(ledger, id, Len(ledger)) /\ id \in Nat
  BY <1>1, <1>4, LedgerEntries, KindOf DEF Filed
<1>6. ledger[i].by \in Roster(ledger)
  BY <1>1, <1>4 DEF WellKept, FitsAfter
<1>7. ASSUME NEW fix \in Revision,
             Begin(a, "fix", [kind |-> "triage", by |-> a, prev |-> 0, time |-> 0, for |-> id, verdict |-> "accepted", fix |-> fix])
      PROVE  EngageInv'
  <2>1. PICK body : /\ body = [kind |-> "triage", by |-> a, prev |-> 0, time |-> 0, for |-> id, verdict |-> "accepted", fix |-> fix]
                    /\ Begin(a, "fix", body)
    BY <1>7
  <2>2. body \in AcceptedEntry /\ body.by = a /\ body.for = id
    BY <1>5, <2>1 DEF AcceptedEntry
  <2>3. body \in Entry
    BY <2>2 DEF Entry
  <2> QED BY <1>2, <1>5, <2>1, <2>2, <2>3, BeginInv
<1>8. ASSUME Begin(a, "decided", [kind |-> "triage", by |-> a, prev |-> 0, time |-> 0, for |-> id, verdict |-> "disputed"])
      PROVE  EngageInv'
  <2>1. PICK body : /\ body = [kind |-> "triage", by |-> a, prev |-> 0, time |-> 0, for |-> id, verdict |-> "disputed"]
                    /\ Begin(a, "decided", body)
    BY <1>8
  <2>2. body \in DisputedEntry /\ body.kind = "triage" /\ body.by = a /\ body.for = id /\ body.verdict = "disputed"
    BY <1>5, <2>1 DEF DisputedEntry
  <2>3. body \in Entry
    BY <2>2 DEF Entry
  <2>4. FairAfter(ledger, body, Len(ledger), git, final, Asked)
    BY <1>2, <1>4, <1>6, <2>2 DEF FairAfter
  <2>5. FitsAfter(ledger, body, Len(ledger), git, final, Asked, Still)
    BY <1>2, <2>2, <2>4 DEF FitsAfter
  <2> QED BY <2>1, <2>3, <2>5, BeginInv
<1> QED BY <1>3, <1>7, <1>8

LEMMA SignoffKeeps == ASSUME EngageInv, NEW a \in Actor, Signoff(a) PROVE EngageInv'
<1>1. ledger \in Seq(Entry) /\ WellKept(ledger, git, final, Asked, Still)
  BY DEF EngageInv, EngageTypeOK
<1>2. ~Sealed(ledger) /\ CensusCloses(ledger) /\ a \notin Roster(ledger)
  BY DEF Signoff, Open
<1>3. Len(ledger) >= 1 /\ AuditedIn(ledger, Len(ledger))
  BY <1>1, <1>2, CensusIsAudited
<1>4. PICK body : /\ body = [kind |-> "signoff", by |-> a, prev |-> 0, time |-> 0, tree |-> Missing, anchors |-> <<>>]
                  /\ Begin(a, "anchors", body)
  BY DEF Signoff
<1>5. body \in SignoffEntry /\ body.by = a
  BY <1>4 DEF SignoffEntry
<1>6. body \in Entry
  BY <1>5 DEF Entry
<1> QED BY <1>2, <1>3, <1>4, <1>5, <1>6, BeginInv

\* A command under way and what is known of it.
LEMMA UnderWay ==
    ASSUME EngageInv, NEW a \in Actor, cmd[a].step # "none"
    PROVE  cmd[a] \in Command /\ CommandFits(cmd[a], ledger, git, surface, final, Asked, Still)
<1>1. cmd[a] \in {NotRunning} \cup Command
  BY DEF EngageInv, EngageTypeOK
<1> QED BY <1>1 DEF EngageInv, PendingFits, InFlight, NotRunning

\* A question to git: whatever the answer is, the command that goes on knows it.
LEMMA AskGitInv ==
    ASSUME EngageInv, NEW a \in Actor, NEW fix, NEW filed, NEW c \in Command,
           AskGit(a, fix, filed, [cmd EXCEPT ![a] = c]),
           FixHolds(fix, filed) => CommandFits(c, ledger, git, surface, final, Asked, Still),
           CommandFits(c, ledger, git, surface, final, FALSE, Still)
    PROVE  EngageInv'
<1>1. UNCHANGED <<final, ledger, clock, repoVars>>
  BY DEF AskGit
<1>2. CASE FixHolds(fix, filed) /\ cmd' = [cmd EXCEPT ![a] = c] /\ UNCHANGED slips
  <2>1. Asked' = Asked
    BY <1>2 DEF Asked
  <2> QED BY <1>1, <1>2, <2>1, OneCommandInv
<1>3. CASE Done(a) /\ UNCHANGED slips
  BY <1>1, <1>3, DoneInv
<1>4. CASE cmd' = [cmd EXCEPT ![a] = c] /\ slips' = slips \cup {"git"}
  <2>1. Asked' = FALSE
    BY <1>4 DEF Asked
  <2> QED BY <1>1, <1>4, <2>1, OneCommandInv
<1> QED BY <1>2, <1>3, <1>4 DEF AskGit

LEMMA CheckFixKeeps == ASSUME EngageInv, NEW a \in Actor, CheckFix(a) PROVE EngageInv'
<1> DEFINE body == cmd[a].body
<1> DEFINE n == cmd[a].read
<1>1. cmd[a] \in Command /\ CommandFits(cmd[a], ledger, git, surface, final, Asked, Still)
  BY UnderWay DEF CheckFix
<1>2. body \in AcceptedEntry /\ body.by \notin Roster(ledger) /\ Filed(ledger, body.for, n)
  BY <1>1 DEF CommandFits, CheckFix
<1>3. ledger \in Seq(Entry) /\ WellKept(ledger, git, final, Asked, Still) /\ n \in Nat /\ n <= Len(ledger)
  BY <1>1 DEF EngageInv, EngageTypeOK, Command, CommandFits
<1>4. PICK i \in 1..n : /\ ledger[i].kind = "finding" /\ ledger[i].id = body.for
                        /\ FindingOf(SubSeq(ledger, 1, n), body.for) = ledger[i]
  BY <1>2, <1>3, FindingIsFiled
<1>5. PICK c : c = [cmd[a] EXCEPT !.step = "decided"]
  OBVIOUS
<1>6. c \in Command /\ c.step = "decided" /\ c.body = body /\ c.read = n
  BY <1>1, <1>5 DEF Command
<1>7. AskGit(a, body.fix, ledger[i].time, [cmd EXCEPT ![a] = c])
  BY <1>4, <1>5 DEF CheckFix, Read
<1> HIDE DEF body, n
<1>8. body.kind = "triage"
  BY <1>2 DEF AcceptedEntry
<1>9. ledger[i].by \in Roster(ledger) /\ i \in 1..Len(ledger) /\ Len(ledger) \in Nat
  BY <1>3, <1>4 DEF WellKept, FitsAfter
<1>10. ASSUME NEW asked, asked => FixHolds(body.fix, ledger[i].time)
       PROVE  CommandFits(c, ledger, git, surface, final, asked, Still)
  <2>1. asked => body.fix \in DOMAIN git /\ (final => git[body.fix].time >= ledger[i].time)
    BY <1>10 DEF FixHolds, commit_exists, commit_landed, commit_timestamp
  <2>2. FairAfter(ledger, body, Len(ledger), git, final, asked)
    BY <1>2, <1>4, <1>9, <2>1 DEF FairAfter
  <2>3. FitsAfter(ledger, body, Len(ledger), git, final, asked, Still)
    BY <1>8, <1>9, <2>2 DEF FitsAfter
  <2> QED BY <1>3, <1>6, <2>3 DEF CommandFits
<1>11. CommandFits(c, ledger, git, surface, final, FALSE, Still)
  BY <1>10
<1>12. FixHolds(body.fix, ledger[i].time) => CommandFits(c, ledger, git, surface, final, Asked, Still)
  BY <1>10
<1> QED BY <1>6, <1>7, <1>11, <1>12, AskGitInv

\* The fixes a signer is to ask about.
LEMMA AcceptedNumbers ==
    ASSUME NEW l \in Seq(Entry), NEW n \in Nat, n <= Len(l) PROVE Accepted(SubSeq(l, 1, n)) \subseteq Nat
<1> DEFINE s == SubSeq(l, 1, n)
<1>1. DOMAIN s = 1..n /\ \A i \in 1..n : s[i] = l[i] /\ l[i] \in Entry
  BY ReadIsBeginning
<1>2. Accepted(s) \subseteq triages_of(s)
  BY DEF Accepted
<1> HIDE DEF s
<1>3. triages_of(s) \subseteq Nat
  BY <1>1, KindOf DEF triages_of, OfKind
<1> QED BY <1>2, <1>3 DEF s

LEMMA CompareAnchorsKeeps == ASSUME EngageInv, NEW a \in Actor, CompareAnchors(a) PROVE EngageInv'
<1>1. cmd[a] \in Command /\ CommandFits(cmd[a], ledger, git, surface, final, Asked, Still)
  BY UnderWay DEF CompareAnchors
<1>2. UNCHANGED <<final, ledger, clock, repoVars, slips>>
  BY DEF CompareAnchors
<1>3. CASE Done(a)
  BY <1>2, <1>3, DoneInv
<1>4. CASE /\ Derivable /\ Read(a)[1].anchors = surface
           /\ cmd' = [cmd EXCEPT ![a].step = "landing", ![a].todo = Accepted(Read(a))]
  <2>1. ledger \in Seq(Entry) /\ cmd[a].read \in Nat /\ cmd[a].read <= Len(ledger)
    BY <1>1 DEF EngageInv, EngageTypeOK, Command, CommandFits
  <2>2. PICK todo : todo = Accepted(Read(a))
    OBVIOUS
  <2>3. todo \in SUBSET Nat
    BY <2>1, <2>2, AcceptedNumbers DEF Read
  <2>4. PICK c : c = [cmd[a] EXCEPT !.step = "landing", !.todo = todo]
    OBVIOUS
  <2>5. c \in Command /\ c.step = "landing" /\ c.body = cmd[a].body /\ c.read = cmd[a].read
    BY <1>1, <2>3, <2>4 DEF Command
  <2>6. cmd' = [cmd EXCEPT ![a] = c]
    BY <1>4, <2>2, <2>4 DEF EngageInv, EngageTypeOK
  <2>7. cmd[a].read >= 1
    BY <1>1 DEF CommandFits, CompareAnchors
  <2>8. surface = ledger[1].anchors
    BY <1>4, <2>1, <2>7, ReadIsBeginning DEF Read
  <2>9. Asked' = Asked
    BY <1>2 DEF Asked
  <2>10. CommandFits(c, ledger, git, surface, final, Asked, Still)
    BY <1>1, <2>5, <2>8 DEF CommandFits, CompareAnchors
  <2> QED BY <1>2, <2>5, <2>6, <2>9, <2>10, OneCommandInv
<1> QED BY <1>3, <1>4 DEF CompareAnchors

LEMMA CheckLandingKeeps == ASSUME EngageInv, NEW a \in Actor, CheckLanding(a) PROVE EngageInv'
<1>1. cmd[a] \in Command /\ CommandFits(cmd[a], ledger, git, surface, final, Asked, Still)
  BY UnderWay DEF CheckLanding
<1>2. PICK id : /\ id = Min(cmd[a].todo)
                /\ AskGit(a, TriageOf(Read(a), id).fix, FindingOf(Read(a), id).time, [cmd EXCEPT ![a].todo = @ \ {id}])
  BY DEF CheckLanding
<1>3. PICK c : c = [cmd[a] EXCEPT !.todo = @ \ {id}]
  OBVIOUS
<1>4. c \in Command /\ c.step = "landing" /\ c.body = cmd[a].body /\ c.read = cmd[a].read
  BY <1>1, <1>3 DEF Command, CheckLanding
<1>5. [cmd EXCEPT ![a].todo = @ \ {id}] = [cmd EXCEPT ![a] = c]
  BY <1>3
<1>6. AskGit(a, TriageOf(Read(a), id).fix, FindingOf(Read(a), id).time, [cmd EXCEPT ![a] = c])
  BY <1>2, <1>5
<1>7. \A asked : CommandFits(c, ledger, git, surface, final, asked, Still)
  BY <1>1, <1>4 DEF CommandFits, CheckLanding
<1> QED BY <1>4, <1>6, <1>7, AskGitInv

LEMMA PinAnchorsKeeps == ASSUME EngageInv, NEW a \in Actor, PinAnchors(a) PROVE EngageInv'
<1>1. cmd[a] \in Command /\ CommandFits(cmd[a], ledger, git, surface, final, Asked, Still)
  BY UnderWay DEF PinAnchors
<1>2. UNCHANGED <<final, ledger, clock, repoVars, slips>> /\ cmd[a].step = "landing"
  BY DEF PinAnchors
<1>3. CASE Done(a)
  BY <1>2, <1>3, DoneInv
<1>4. CASE cmd' = [cmd EXCEPT ![a].step = "head", ![a].body.anchors = surface]
  <2>1. cmd[a].body \in SignoffEntry /\ surface \in Surface
    BY <1>1, <1>2 DEF CommandFits, EngageInv, EngageTypeOK
  <2>2. PICK body : body = [cmd[a].body EXCEPT !.anchors = surface]
    OBVIOUS
  <2>3. body \in SignoffEntry /\ body.by = cmd[a].body.by /\ body.anchors = surface
    BY <2>1, <2>2 DEF SignoffEntry
  <2>4. body \in Entry
    BY <2>3 DEF Entry
  <2>5. PICK c : c = [cmd[a] EXCEPT !.step = "head", !.body = body]
    OBVIOUS
  <2>6. c \in Command /\ c.step = "head" /\ c.body = body /\ c.read = cmd[a].read
    BY <1>1, <2>4, <2>5 DEF Command
  <2>7. cmd' = [cmd EXCEPT ![a] = c]
    <3>1. [cmd[a] EXCEPT !.step = "head", !.body.anchors = surface] = c
      BY <1>1, <2>2, <2>5 DEF Command
    <3>2. cmd' = [cmd EXCEPT ![a] = [cmd[a] EXCEPT !.step = "head", !.body.anchors = surface]]
      BY <1>1, <1>4 DEF EngageInv, EngageTypeOK, Command
    <3> QED BY <3>1, <3>2
  <2>8. Asked' = Asked
    BY <1>2 DEF Asked
  <2>9. CommandFits(c, ledger, git, surface, final, Asked, Still)
    BY <1>1, <1>2, <2>3, <2>6 DEF CommandFits
  <2> QED BY <1>2, <2>6, <2>7, <2>8, <2>9, OneCommandInv
<1> QED BY <1>3, <1>4 DEF PinAnchors

LEMMA PinHeadKeeps == ASSUME EngageInv, NEW a \in Actor, PinHead(a) PROVE EngageInv'
<1>1. cmd[a] \in Command /\ CommandFits(cmd[a], ledger, git, surface, final, Asked, Still)
  BY UnderWay DEF PinHead
<1>2. UNCHANGED <<final, ledger, clock, repoVars, slips>> /\ cmd[a].step = "head"
  BY DEF PinHead
<1>3. PICK tree \in {head, Missing} : cmd' = [cmd EXCEPT ![a].step = "decided", ![a].body.tree = tree]
  BY DEF PinHead
<1>4. /\ cmd[a].body \in SignoffEntry /\ cmd[a].body.by \notin Roster(ledger)
      /\ cmd[a].read >= 1 /\ AuditedIn(ledger, cmd[a].read) /\ cmd[a].read <= Len(ledger)
      /\ Still => cmd[a].body.anchors = ledger[1].anchors
  BY <1>1, <1>2 DEF CommandFits
<1>5. PICK body : body = [cmd[a].body EXCEPT !.tree = tree]
  OBVIOUS
<1>6. body \in SignoffEntry /\ body.by = cmd[a].body.by /\ body.anchors = cmd[a].body.anchors /\ body.kind = "signoff"
  BY <1>3, <1>4, <1>5 DEF SignoffEntry, EngageInv, EngageTypeOK
<1>7. body \in Entry
  BY <1>6 DEF Entry
<1>8. PICK c : c = [cmd[a] EXCEPT !.step = "decided", !.body = body]
  OBVIOUS
<1>9. c \in Command /\ c.step = "decided" /\ c.body = body /\ c.read = cmd[a].read
  BY <1>1, <1>7, <1>8 DEF Command
<1>10. cmd' = [cmd EXCEPT ![a] = c]
  <2>1. [cmd[a] EXCEPT !.step = "decided", !.body.tree = tree] = c
    BY <1>1, <1>5, <1>8 DEF Command
  <2>2. cmd' = [cmd EXCEPT ![a] = [cmd[a] EXCEPT !.step = "decided", !.body.tree = tree]]
    BY <1>1, <1>3 DEF EngageInv, EngageTypeOK, Command
  <2> QED BY <2>1, <2>2
<1>11. Asked' = Asked
  BY <1>2 DEF Asked
<1>12. cmd[a].read \in 1..Len(ledger) /\ Len(ledger) >= 1
  BY <1>1, <1>4 DEF Command, EngageInv, EngageTypeOK
<1>13. FitsAfter(ledger, body, Len(ledger), git, final, Asked, Still)
  BY <1>4, <1>6, <1>12 DEF FitsAfter
<1>14. CommandFits(c, ledger, git, surface, final, Asked, Still)
  BY <1>4, <1>9, <1>13 DEF CommandFits
<1> QED BY <1>2, <1>9, <1>10, <1>11, <1>14, OneCommandInv

LEMMA ReadChainKeeps == ASSUME EngageInv, NEW a \in Actor, ReadChain(a) PROVE EngageInv'
<1>1. cmd[a] \in Command /\ CommandFits(cmd[a], ledger, git, surface, final, Asked, Still)
  BY UnderWay DEF ReadChain
<1>2. UNCHANGED <<final, ledger, clock, repoVars, slips>> /\ cmd[a].step = "decided"
  BY DEF ReadChain
<1>3. CASE Done(a)
  BY <1>2, <1>3, DoneInv
<1>4. CASE cmd' = [cmd EXCEPT ![a].step = "chained", ![a].prev = Len(ledger)]
  <2>1. PICK c : c = [cmd[a] EXCEPT !.step = "chained", !.prev = Len(ledger)]
    OBVIOUS
  <2>2. Len(ledger) \in Nat
    BY DEF EngageInv, EngageTypeOK
  <2>3. c \in Command /\ c.step = "chained" /\ c.body = cmd[a].body /\ c.read = cmd[a].read
    BY <1>1, <2>1, <2>2 DEF Command
  <2>4. cmd' = [cmd EXCEPT ![a] = c]
    BY <1>4, <2>1 DEF EngageInv, EngageTypeOK
  <2>5. Asked' = Asked
    BY <1>2 DEF Asked
  <2>6. CommandFits(c, ledger, git, surface, final, Asked, Still)
    BY <1>1, <1>2, <2>3 DEF CommandFits
  <2> QED BY <1>2, <2>3, <2>4, <2>5, <2>6, OneCommandInv
<1> QED BY <1>3, <1>4 DEF ReadChain

LEMMA AppendKeeps == ASSUME EngageInv, NEW a \in Actor, Append_(a) PROVE EngageInv'
<1> DEFINE n == Len(ledger)
<1>1. cmd[a] \in Command /\ CommandFits(cmd[a], ledger, git, surface, final, Asked, Still) /\ cmd[a].step = "chained"
  BY UnderWay DEF Append_
<1>2. /\ final' = final /\ clock' = clock /\ git' = git /\ head' = head /\ surface' = surface /\ slips' = slips
      /\ cmd' = [cmd EXCEPT ![a] = NotRunning]
  BY DEF Append_, Done, repoVars
<1>3. EngageTypeOK /\ WellKept(ledger, git, final, Asked, Still) /\ PendingFits
  BY DEF EngageInv
<1>4. PICK e : e = Stamped(cmd[a].body, cmd[a].prev)
  OBVIOUS
<1>5. cmd[a].body \in Entry /\ cmd[a].prev \in Nat /\ clock \in Nat
  BY <1>1, <1>3 DEF Command, EngageTypeOK
<1>6. FitsAfter(ledger, cmd[a].body, Len(ledger), git, final, Asked, Still)
  BY <1>1 DEF CommandFits
<1>7. e \in Entry /\ FitsAfter(ledger, e, Len(ledger), git, final, Asked, Still)
  BY <1>4, <1>5, <1>6, StampKeeps, StampFits
<1>8. PICK m : m = Append(ledger, e) /\ ledger' = m
  BY <1>4 DEF Append_
<1>9. /\ ledger \in Seq(Entry) /\ m \in Seq(Entry) /\ n \in Nat /\ Len(m) = n + 1
      /\ m[n + 1] = e /\ \A i \in 1..n : m[i] = ledger[i]
  BY <1>3, <1>7, <1>8 DEF EngageTypeOK
<1>10. Extends(m, ledger) /\ Grows(git, git) /\ Asked' = Asked /\ Still' = Still
  BY <1>2, <1>9 DEF Extends, Grows, Asked, Still
<1>11. cmd' \in [Actor -> {NotRunning} \cup Command]
  BY <1>2, <1>3 DEF EngageTypeOK
<1>12. EngageTypeOK'
  BY <1>2, <1>3, <1>8, <1>9, <1>11 DEF EngageTypeOK
<1>13. WellKept(m, git, final, Asked, Still)
  <2> SUFFICES ASSUME NEW i \in 1..Len(m) PROVE FitsAfter(m, m[i], i - 1, git, final, Asked, Still)
    BY DEF WellKept
  <2>1. FitsAfter(ledger, m[i], i - 1, git, final, Asked, Still)
    <3>1. CASE i = n + 1
      BY <1>7, <1>9, <3>1
    <3>2. CASE i # n + 1
      <4>1. i \in 1..n
        BY <1>9, <3>2
      <4> QED BY <1>3, <1>9, <4>1 DEF WellKept
    <3> QED BY <3>1, <3>2
  <2>2. i - 1 \in Nat /\ i - 1 <= n
    BY <1>9
  <2> QED BY <1>10, <2>1, <2>2, FitsStays
<1>14. ASSUME NEW b \in Actor, cmd'[b].step # "none"
       PROVE  CommandFits(cmd'[b], m, git, surface, final, Asked, Still)
  <2>1. cmd'[b] = cmd[b]
    BY <1>2, <1>3, <1>14 DEF EngageTypeOK, NotRunning
  <2>2. cmd[b] \in Command /\ CommandFits(cmd[b], ledger, git, surface, final, Asked, Still)
    BY <1>14, <2>1, UnderWay
  <2> QED BY <1>10, <2>1, <2>2, CommandStays
<1>15. PendingFits'
  BY <1>2, <1>8, <1>10, <1>14 DEF PendingFits, InFlight
<1>16. WellKept(ledger, git, final, Asked, Still)'
  BY <1>2, <1>8, <1>10, <1>13
<1> QED BY <1>12, <1>15, <1>16 DEF EngageInv

\* Commits are only added, and a tree that moves between two looks is noticed.
LEMMA RepositoryMoves ==
    ASSUME EngageInv, EditTree \/ MakeCommit \/ Checkout \/ Tick
    PROVE  /\ final' = final /\ ledger' = ledger /\ cmd' = cmd
           /\ Grows(git', git)
           /\ git' \in [DOMAIN git' -> [parent : Revision, time : Nat, surface : Surface]]
           /\ DOMAIN git' \subseteq Revision /\ head' \in Revision /\ surface' \in Surface /\ clock' \in Nat
           /\ slips' \in {slips, slips \cup {"tree"}}
           /\ surface' # surface => TreeMoves
<1>1. /\ git \in [DOMAIN git -> [parent : Revision, time : Nat, surface : Surface]]
      /\ DOMAIN git \subseteq Revision /\ head \in Revision /\ surface \in Surface /\ clock \in Nat
  BY DEF EngageInv, EngageTypeOK
<1>2. final' = final /\ ledger' = ledger /\ cmd' = cmd
  BY DEF EditTree, MakeCommit, Checkout, Tick
<1>3. TreeMoves => slips' \in {slips, slips \cup {"tree"}}
  BY DEF TreeMoves
<1>4. CASE EditTree
  BY <1>1, <1>2, <1>3, <1>4 DEF EditTree, Grows
<1>5. CASE MakeCommit
  <2>1. PICK c \in Revision \ DOMAIN git :
           /\ git' = [d \in DOMAIN git \cup {c} |->
                        IF d = c THEN [parent |-> head, time |-> clock, surface |-> surface] ELSE git[d]]
           /\ head' = c
    BY <1>5 DEF MakeCommit
  <2>2. clock' = clock /\ surface' = surface /\ slips' = slips
    BY <1>5 DEF MakeCommit
  <2>3. DOMAIN git' = DOMAIN git \cup {c} /\ Grows(git', git)
    BY <2>1 DEF Grows
  <2>4. \A d \in DOMAIN git' : git'[d] \in [parent : Revision, time : Nat, surface : Surface]
    BY <1>1, <2>1
  <2>5. git' \in [DOMAIN git' -> [parent : Revision, time : Nat, surface : Surface]]
    BY <2>1, <2>3, <2>4
  <2> QED BY <1>1, <1>2, <2>1, <2>2, <2>3, <2>5
<1>6. CASE Checkout
  <2>1. PICK c \in DOMAIN git : head' = c /\ surface' = git[c].surface
    BY <1>6 DEF Checkout
  <2>2. head' \in Revision /\ surface' \in Surface
    BY <1>1, <2>1
  <2>3. git' = git /\ clock' = clock /\ TreeMoves
    BY <1>6 DEF Checkout
  <2>4. Grows(git', git)
    BY <2>3 DEF Grows
  <2> QED BY <1>1, <1>2, <1>3, <2>2, <2>3, <2>4
<1>7. CASE Tick
  <2>1. clock' = clock + 1 /\ git' = git /\ head' = head /\ surface' = surface /\ slips' = slips
    BY <1>7 DEF Tick, repoVars
  <2> QED BY <1>1, <1>2, <2>1 DEF Grows
<1> QED BY <1>4, <1>5, <1>6, <1>7

LEMMA RepositoryKeeps == ASSUME EngageInv, EditTree \/ MakeCommit \/ Checkout \/ Tick PROVE EngageInv'
<1>1. EngageTypeOK /\ WellKept(ledger, git, final, Asked, Still) /\ PendingFits /\ Len(ledger) \in Nat
  BY DEF EngageInv, EngageTypeOK
<1>2. final' = final /\ ledger' = ledger /\ cmd' = cmd
  BY RepositoryMoves
<1>3. /\ Grows(git', git)
      /\ git' \in [DOMAIN git' -> [parent : Revision, time : Nat, surface : Surface]]
      /\ DOMAIN git' \subseteq Revision /\ head' \in Revision /\ surface' \in Surface /\ clock' \in Nat
      /\ slips' \in {slips, slips \cup {"tree"}}
      /\ surface' # surface => TreeMoves
  BY RepositoryMoves
<1>4. (Asked' => Asked) /\ (Still' => Still) /\ slips' \subseteq {"git", "tree"}
  BY <1>1, <1>3 DEF Asked, Still, EngageTypeOK
<1>5. EngageTypeOK'
  BY <1>1, <1>2, <1>3, <1>4 DEF EngageTypeOK
<1>6. Extends(ledger, ledger)
  BY <1>1 DEF Extends
<1>7. WellKept(ledger, git', final, Asked', Still')
  BY <1>1, <1>3, <1>4, KeptStays
<1>8. ASSUME NEW b \in Actor, cmd[b].step # "none"
      PROVE  CommandFits(cmd[b], ledger, git', surface', final, Asked', Still')
  <2>1. cmd[b] \in Command /\ CommandFits(cmd[b], ledger, git, surface, final, Asked, Still)
    BY <1>8, UnderWay
  <2>2. cmd[b].step = "landing" /\ Still' => surface' = surface
    BY <1>3 DEF TreeMoves, BetweenLooks, Still
  <2> QED BY <1>3, <1>4, <1>6, <2>1, <2>2, CommandStays
<1>9. PendingFits'
  BY <1>2, <1>8 DEF PendingFits, InFlight
<1> QED BY <1>2, <1>5, <1>7, <1>9 DEF EngageInv

\* The audit ledgers keep their types, every entry is one that its writer could
\* write, and every command that is under way has found out what it goes on with
\* (hls-finalaudit.py:550-640, 793-962, 1642-1770), whatever commands overlap.
THEOREM EngageInvariance == EngageSpec => []EngageInv
<1>1. EngageInit => EngageInv
  BY EngageInitInv
<1>2. EngageInv /\ [EngageNext]_engageVars => EngageInv'
  <2> SUFFICES ASSUME EngageInv, [EngageNext]_engageVars PROVE EngageInv'
    OBVIOUS
  <2>1. ASSUME NEW a \in Actor, Engage(a) \/ Evidence(a) \/ FileFinding(a) \/ Triage(a) PROVE EngageInv'
    BY <2>1, EngageKeeps, EvidenceKeeps, FileFindingKeeps, TriageKeeps
  <2>2. ASSUME NEW a \in Actor, CheckFix(a) \/ Signoff(a) \/ CompareAnchors(a) \/ CheckLanding(a) PROVE EngageInv'
    BY <2>2, CheckFixKeeps, SignoffKeeps, CompareAnchorsKeeps, CheckLandingKeeps
  <2>3. ASSUME NEW a \in Actor, PinAnchors(a) \/ PinHead(a) \/ ReadChain(a) \/ Append_(a) PROVE EngageInv'
    BY <2>3, PinAnchorsKeeps, PinHeadKeeps, ReadChainKeeps, AppendKeeps
  <2>4. CASE EditTree \/ MakeCommit \/ Checkout \/ Tick
    BY <2>4, RepositoryKeeps
  <2>5. CASE UNCHANGED engageVars
    <3>1. /\ final' = final /\ ledger' = ledger /\ cmd' = cmd /\ clock' = clock /\ slips' = slips
          /\ git' = git /\ head' = head /\ surface' = surface
      BY <2>5 DEF engageVars, repoVars
    <3>2. EngageTypeOK' /\ Asked' = Asked /\ Still' = Still
      BY <3>1 DEF EngageInv, EngageTypeOK, Asked, Still
    <3>3. WellKept(ledger, git, final, Asked, Still)'
      BY <3>1, <3>2 DEF EngageInv
    <3>4. PendingFits'
      BY <3>1, <3>2 DEF EngageInv, PendingFits, InFlight
    <3> QED BY <3>2, <3>3, <3>4 DEF EngageInv
  <2> QED BY <2>1, <2>2, <2>3, <2>4, <2>5 DEF EngageNext
<1> QED BY <1>1, <1>2, PTL DEF EngageSpec

\* Whatever commands overlap, however the tree moves and whether git answers or
\* not: answers are fair, and a seal was written over entries that were an audit
\* and pins the contract's artifact unless the tree moved between the signer's
\* two looks (hls-finalaudit.py:883-962, 1642-1770).
THEOREM SealsStayEarned == EngageSpec => []SealsAreEarned
<1>1. EngageInv => SealsAreEarned
  <2> SUFFICES ASSUME EngageInv PROVE SealsAreEarned
    OBVIOUS
  <2>1. /\ ledger \in Seq(Entry) /\ Len(ledger) \in Nat /\ DOMAIN ledger = 1..Len(ledger)
        /\ WellKept(ledger, git, final, Asked, Still)
    BY LedgerEntries DEF EngageInv, EngageTypeOK
  <2>2. \A kind : Entries(kind) = {i \in 1..Len(ledger) : ledger[i].kind = kind}
    BY <2>1 DEF Entries, OfKind
  <2>3. ASSUME NEW j \in Entries("triage") PROVE AnswerIsFair(j)
    <3>1. j \in 1..Len(ledger) /\ ledger[j].kind = "triage"
      BY <2>2
    <3>2. FairAfter(ledger, ledger[j], j - 1, git, final, Asked)
      BY <2>1, <3>1 DEF WellKept, FitsAfter
    <3>3. PICK i \in 1..(j - 1) :
             /\ ledger[i].kind = "finding" /\ ledger[i].id = ledger[j].for /\ ledger[i].by \in Roster(ledger)
             /\ ledger[j].verdict = "accepted" /\ Asked =>
                   ledger[j].fix \in DOMAIN git /\ (final => git[ledger[j].fix].time >= ledger[i].time)
      BY <3>2 DEF FairAfter
    <3>4. i \in Entries("finding") /\ i < j
      BY <2>1, <2>2, <3>1, <3>3
    <3> QED BY <3>2, <3>3, <3>4 DEF AnswerIsFair, FairAfter, Asked
  <2>4. ASSUME NEW n \in 1..Len(ledger), AuditedIn(ledger, n) PROVE Audited(n)
    <3>1. \A i \in 1..n : i \in 1..Len(ledger) /\ i <= n
      BY <2>1
    <3>2. \A i \in 1..Len(ledger) : i <= n => i \in 1..n
      BY <2>1
    <3>3. \A i \in Entries("signoff") : i > n
      BY <2>1, <2>2, <2>4, <3>2 DEF AuditedIn
    <3>4. \A i \in Entries("finding") : i <= n => \E j \in Entries("triage") : j <= n /\ ledger[j].for = ledger[i].id
      BY <2>2, <2>4, <3>1, <3>2 DEF AuditedIn
    <3>5. \E i \in Entries("evidence") : i <= n /\ ledger[i].by \in Roster(ledger)
      BY <2>2, <2>4, <3>1 DEF AuditedIn
    <3>6. \E i \in Entries("evidence") : i <= n /\ ledger[i].ok /\ \A j \in Entries("evidence") : j <= n => j <= i
      BY <2>2, <2>4, <3>1, <3>2 DEF AuditedIn
    <3> QED BY <3>3, <3>4, <3>5, <3>6 DEF Audited
  <2>5. ASSUME NEW s \in Entries("signoff")
        PROVE  /\ \E n \in 1..s - 1 : Audited(n)
               /\ ledger[s].by \notin Roster(ledger)
               /\ "tree" \notin slips => ledger[s].anchors = ledger[1].anchors
    <3>1. s \in 1..Len(ledger) /\ ledger[s].kind = "signoff"
      BY <2>2
    <3>2. FitsAfter(ledger, ledger[s], s - 1, git, final, Asked, Still)
      BY <2>1, <3>1 DEF WellKept
    <3>3. PICK n \in 1..(s - 1) : AuditedIn(ledger, n)
      BY <3>1, <3>2 DEF FitsAfter
    <3>4. n \in 1..Len(ledger)
      BY <2>1, <3>1, <3>3
    <3> QED BY <2>4, <3>1, <3>2, <3>3, <3>4 DEF FitsAfter, Still
  <2> QED BY <2>3, <2>5 DEF SealsAreEarned
<1> QED BY <1>1, EngageInvariance, PTL
=============================================================================
