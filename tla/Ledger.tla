------------------------------ MODULE Ledger -------------------------------
(***************************************************************************)
(* The hash-chained logs of the toolchain: the transparency ledger         *)
(* (tools/hpkg_parts/hpkg_log.py, tools/hls-tlog.py) and the audit log     *)
(* (tools/hlaudit_parts, tools/hls-auditlog.py), which share one           *)
(* discipline.  Writers append under a lock on a sidecar file, and may be  *)
(* killed in the middle of a write; mirrors copy the log; a signer pins    *)
(* its length and head; the file may be cut or edited behind their backs.  *)
(*                                                                         *)
(* SHA-256 is modelled as what it is used for: the hash of a record is the *)
(* sequence of everything that was hashed, so that it is equal for equal   *)
(* histories only.                                                         *)
(***************************************************************************)
EXTENDS Naturals, Sequences, FiniteSets

CONSTANTS
    Writer,     \* processes that append
    Mirror,     \* copies of the log served elsewhere
    Body,       \* what records say
    MaxLines    \* lines of the log

ASSUME LedgerAssumption ==
    /\ Body # {}
    /\ MaxLines \in Nat
    /\ "free" \notin Writer
    /\ IsFiniteSet(Mirror)

VARIABLES
    log,        \* the lines of the file
    lock,       \* the writer that holds the lock, "free" otherwise
    writer,     \* writer[w]: where in append_entry, and what it has read
    acked,      \* bodies of the records whose append returned (history)
    mirror,     \* mirror[m]: what the mirror serves
    signer,     \* cmd_sign: "idle", or the records it has verified
    pin,        \* the signed document: length, head, and the bytes it digests
    proof,      \* the inclusion proof at hand, and the log it was built from (history)
    cut         \* the file was cut or edited (history)

ledgerVars == <<log, lock, writer, acked, mirror, signer, pin, proof, cut>>

Genesis == <<>>

ChainOf(r) == Append(r.prev, [seq |-> r.seq, body |-> r.body])

Record(n, p, b) == [seq |-> n, prev |-> p, body |-> b, hash |-> Append(p, [seq |-> n, body |-> b])]

\* Lines that do not parse: one a writer did not finish, and one on which the
\* next writer went on.
Torn == [torn |-> TRUE]
Garbage == [torn |-> FALSE]
IsRecord(l) == l # Torn /\ l # Garbage

NoPin == [length |-> 0, head |-> Genesis, bytes |-> <<>>, signed |-> FALSE]
NoProof == [seq |-> 0]
Idle == [pc |-> "idle", prev |-> Genesis, seq |-> 0]

LedgerInit ==
    /\ log = <<>>
    /\ lock = "free"
    /\ writer = [w \in Writer |-> Idle]
    /\ acked = <<>>
    /\ mirror = [m \in Mirror |-> <<>>]
    /\ signer = [pc |-> "idle", records |-> <<>>]
    /\ pin = NoPin
    /\ proof = NoProof
    /\ cut = FALSE

-----------------------------------------------------------------------------
(* Verification: the replay from genesis *)

HashBefore(l, i) == IF i > 1 /\ IsRecord(l[i-1]) THEN l[i-1].hash ELSE Genesis

\* verify_chain and verify_log report no error, and every line parses.
Verifies(l) ==
    \A i \in 1..Len(l) :
        /\ IsRecord(l[i])
        /\ l[i].seq = i
        /\ l[i].prev = HashBefore(l, i)
        /\ l[i].hash = ChainOf(l[i])

\* transparency_log_verify_chain: the hash is recomputed over the head so far.
PkgVerifies(l) ==
    \A i \in 1..Len(l) :
        /\ IsRecord(l[i])
        /\ l[i].prev = HashBefore(l, i)
        /\ l[i].seq = i
        /\ l[i].hash = Append(HashBefore(l, i), [seq |-> l[i].seq, body |-> l[i].body])

HeadOf(l) == IF l = <<>> THEN Genesis ELSE l[Len(l)].hash

-----------------------------------------------------------------------------
(* Appending: transparency_log_append, append_entry *)

\* Seeded fault: the lock is not taken.
LockNothing(w) ==
    /\ writer[w].pc = "idle"
    /\ Len(log) < MaxLines
    /\ writer' = [writer EXCEPT ![w].pc = "locked"]
    /\ UNCHANGED <<log, lock, acked, mirror, signer, pin, proof, cut>>

Lock(w) ==
    /\ writer[w].pc = "idle"
    /\ lock = "free"
    /\ Len(log) < MaxLines
    /\ lock' = w
    /\ writer' = [writer EXCEPT ![w].pc = "locked"]
    /\ UNCHANGED <<log, acked, mirror, signer, pin, proof, cut>>

\* The hash of the last line; a line that does not parse gives genesis.
ReadHead(w) ==
    /\ writer[w].pc = "locked"
    /\ writer' = [writer EXCEPT ![w].pc = "head",
                    ![w].prev = IF log # <<>> /\ IsRecord(log[Len(log)]) THEN HeadOf(log) ELSE Genesis]
    /\ UNCHANGED <<log, lock, acked, mirror, signer, pin, proof, cut>>

\* Lines are counted, whatever they hold.
CountLines(w) ==
    /\ writer[w].pc = "head"
    /\ writer' = [writer EXCEPT ![w].pc = "write", ![w].seq = Len(log) + 1]
    /\ UNCHANGED <<log, lock, acked, mirror, signer, pin, proof, cut>>

Unlocked(w) == IF lock = w THEN "free" ELSE lock

EndsTorn == log # <<>> /\ log[Len(log)] = Torn

\* The line is written at the end of the file: after an unfinished line it
\* lands on the same one.
Write(w) ==
    /\ writer[w].pc = "write"
    /\ \E b \in Body :
         /\ log' = IF EndsTorn THEN [log EXCEPT ![Len(log)] = Garbage]
                   ELSE Append(log, Record(writer[w].seq, writer[w].prev, b))
         /\ acked' = IF cut THEN acked ELSE Append(acked, b)
    /\ writer' = [writer EXCEPT ![w] = Idle]
    /\ lock' = Unlocked(w)
    /\ UNCHANGED <<mirror, signer, pin, proof, cut>>

\* The process is killed; the system gives its lock back.
Kill(w) ==
    /\ writer[w].pc # "idle"
    /\ \/ UNCHANGED log
       \/ /\ writer[w].pc = "write"
          /\ log' = IF EndsTorn THEN log ELSE Append(log, Torn)
    /\ writer' = [writer EXCEPT ![w] = Idle]
    /\ lock' = Unlocked(w)
    /\ UNCHANGED <<acked, mirror, signer, pin, proof, cut>>

-----------------------------------------------------------------------------
(* What happens to the file, once *)

Truncate ==
    /\ ~cut
    /\ lock = "free"
    /\ \E k \in 0..(Len(log) - 1) : log' = SubSeq(log, 1, k)
    /\ cut' = TRUE
    /\ UNCHANGED <<lock, writer, acked, mirror, signer, pin, proof>>

\* A record is changed, its own hash made to match or not.
Edit ==
    /\ ~cut
    /\ lock = "free"
    /\ \E i \in 1..Len(log) : \E b \in Body : \E repaired \in BOOLEAN :
         /\ IsRecord(log[i])
         /\ log[i].body # b
         /\ log' = [log EXCEPT ![i] = IF repaired THEN Record(@.seq, @.prev, b) ELSE [@ EXCEPT !.body = b]]
    /\ cut' = TRUE
    /\ UNCHANGED <<lock, writer, acked, mirror, signer, pin, proof>>

Copy(m) ==
    /\ mirror[m] # log
    /\ mirror' = [mirror EXCEPT ![m] = log]
    /\ UNCHANGED <<log, lock, writer, acked, signer, pin, proof, cut>>

-----------------------------------------------------------------------------
(* Signing: a witness of the ledger, a checkpoint of the audit log *)

\* Nothing is signed that does not verify.
SignRead ==
    /\ signer.pc = "idle" /\ ~pin.signed
    /\ Verifies(log)
    /\ signer' = [pc |-> "read", records |-> log]
    /\ UNCHANGED <<log, lock, writer, acked, mirror, pin, proof, cut>>

\* The audit log is read a second time for its digest.
Sign ==
    /\ signer.pc = "read"
    /\ pin' = [length |-> Len(signer.records), head |-> HeadOf(signer.records), bytes |-> log, signed |-> TRUE]
    /\ signer' = [pc |-> "idle", records |-> signer.records]
    /\ UNCHANGED <<log, lock, writer, acked, mirror, proof, cut>>

\* The witness of the ledger digests the bytes it has verified.
Witness ==
    /\ signer.pc = "idle" /\ ~pin.signed
    /\ Verifies(log)
    /\ signer' = [pc |-> "idle", records |-> log]
    /\ pin' = [length |-> Len(log), head |-> HeadOf(log), bytes |-> log, signed |-> TRUE]
    /\ UNCHANGED <<log, lock, writer, acked, mirror, proof, cut>>

\* Seeded fault: the head is looked for at the end of the log.
CheckLast(p, l) ==
    IF Len(l) < p.length THEN "rollback"
    ELSE IF HeadOf(l) # p.head /\ Len(l) = p.length THEN "rewritten"
    ELSE IF Len(l) = p.length /\ l = p.bytes THEN "byte-identical"
    ELSE "held"

\* check_against_log, of a witness or a checkpoint.
Check(p, l) ==
    LET at == {i \in 1..Len(l) : l[i].seq = p.length} IN
    IF Len(l) < p.length THEN "rollback"
    ELSE IF at = {} THEN "rewritten"
    ELSE IF l[CHOOSE i \in at : \A j \in at : i <= j].hash # p.head THEN "rewritten"
    ELSE IF Len(l) = p.length /\ l = p.bytes THEN "byte-identical"
    ELSE "held"

-----------------------------------------------------------------------------
(* Gossip *)

\* classify_ordered, of two logs that verify.
Classify(shorter, longer) ==
    IF Len(shorter) = Len(longer)
    THEN IF HeadOf(shorter) = HeadOf(longer) THEN "agree" ELSE "fork"
    ELSE IF shorter # <<>> /\ longer[Len(shorter)].hash = HeadOf(shorter) THEN "lag"
    ELSE IF \E i \in 1..Len(longer) : longer[i].hash = HeadOf(shorter) THEN "fork"
    ELSE "diverged"

\* The sources that answer with a log that verifies.
Source == Mirror \cup {"here"}
Served(s) == IF s = "here" THEN log ELSE mirror[s]
Answering == {s \in Source : Verifies(Served(s))}

\* A pair that gossip_verdict reports as a conflict.
Conflict(a, b) ==
    LET class == IF Len(a) <= Len(b) THEN Classify(a, b) ELSE Classify(b, a) IN
    class \in {"fork", "diverged"}

\* cmd_gossip: too few answers come before any conflict, a conflict before any
\* agreement.
Gossip(require) ==
    IF Cardinality(Answering) < require THEN "insufficient"
    ELSE IF Cardinality(Answering) = 1 THEN "isolated"
    ELSE IF \E s, t \in Answering : Conflict(Served(s), Served(t)) THEN "fork"
    ELSE "consensus"

-----------------------------------------------------------------------------
(* Inclusion proofs *)

Prove ==
    /\ proof = NoProof
    /\ Verifies(log)
    /\ \E i \in 1..Len(log) :
         proof' = [seq |-> log[i].seq, record |-> log[i], tail |-> SubSeq(log, i + 1, Len(log)),
                   length |-> Len(log), head |-> HeadOf(log), of |-> log]
    /\ UNCHANGED <<log, lock, writer, acked, mirror, signer, pin, cut>>

\* verify_proof_offline
Coherent(p) ==
    LET before(k) == IF k = 1 THEN p.record.hash ELSE p.tail[k-1].hash IN
    /\ p.record.hash = ChainOf(p.record)
    /\ \A k \in 1..Len(p.tail) :
         p.tail[k].hash = Append(before(k), [seq |-> p.tail[k].seq, body |-> p.tail[k].body])
    /\ p.head = IF p.tail = <<>> THEN p.record.hash ELSE HeadOf(p.tail)
    /\ p.length = p.seq + Len(p.tail)

\* verify_proof_live
Stands(p, l) ==
    /\ Coherent(p)
    /\ p.length <= Len(l)
    /\ l[p.seq] = p.record
    /\ l[p.length].hash = p.head

-----------------------------------------------------------------------------

LedgerNext ==
    \/ \E w \in Writer : Lock(w) \/ ReadHead(w) \/ CountLines(w) \/ Write(w) \/ Kill(w)
    \/ Truncate \/ Edit
    \/ \E m \in Mirror : Copy(m)
    \/ SignRead \/ Sign \/ Witness
    \/ Prove

LedgerSpec == LedgerInit /\ [][LedgerNext]_ledgerVars

-----------------------------------------------------------------------------
(* What is checked *)

IsPrefixOf(a, b) == Len(a) <= Len(b) /\ a = SubSeq(b, 1, Len(a))

Bodies(l) == [i \in 1..Len(l) |-> l[i].body]

\* However the writers interleave and wherever one is killed: a log that nobody
\* cut holds exactly what was acknowledged, in order, and verifies, unless an
\* append was torn; a torn line stays a refusal, never a record skipped.  And
\* the two tools that verify the ledger give the same verdict on any file.
AppendsAreKept ==
    /\ (~cut /\ \A i \in 1..Len(log) : IsRecord(log[i])) => Verifies(log) /\ Bodies(log) = acked
    /\ Verifies(log) <=> PkgVerifies(log)

\* Of a log that verifies, the verdicts say what became of the history: pinned,
\* it is held exactly when the log still starts with it; two sources conflict
\* exactly when neither starts with the other; a proof stands exactly when the
\* log it came from is still there.  (Histories of length 0 are another matter.)
VerdictsAreTrue ==
    /\ (Verifies(log) /\ pin.signed /\ pin.length > 0) =>
         (Check(pin, log) \in {"held", "byte-identical"} <=> IsPrefixOf(signer.records, log))
    /\ (\A s \in Answering : Served(s) # <<>>) =>
         (Gossip(2) = "fork" <=> \E s, t \in Answering : ~IsPrefixOf(Served(s), Served(t))
                                                      /\ ~IsPrefixOf(Served(t), Served(s)))
    /\ (Verifies(log) /\ proof # NoProof) => (Stands(proof, log) <=> IsPrefixOf(proof.of, log))

\* "current length == witness length AND the bytes are identical ->
\* byte-identical": of the empty log too.
UnchangedIsByteIdentical ==
    (pin.signed /\ Verifies(log) /\ log = pin.bytes /\ Len(log) = pin.length)
        => Check(pin, log) = "byte-identical"
=============================================================================
