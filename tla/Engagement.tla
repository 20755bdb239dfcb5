----------------------------- MODULE Engagement -----------------------------
(***************************************************************************)
(* The audit ledgers: hls-auditkit (Stage 140) and hls-finalaudit (Stage   *)
(* 144), which adds the seal and the release gate to the same protocol.    *)
(* A contract is signed, evidence passes run, the auditors file findings,  *)
(* the project answers each, and the seal closes the ledger; the gate of   *)
(* the release process reads what is there.                                *)
(*                                                                         *)
(* A command reads the ledger, asks git, looks at the tree, reads the      *)
(* ledger again and appends, with no lock: each of these is a step, and    *)
(* commands overlap.  Around them the repository moves: the working tree   *)
(* is edited, committed, and set back to older commits.  What a command    *)
(* has read, and what a chained hash commits to, is a number of entries,   *)
(* for the file is only ever appended to.                                  *)
(***************************************************************************)
EXTENDS Integers, SequencesExt

CONSTANTS
    Actor,          \* whom --by can name; the auditors are some of them
    Revision,         \* the commits of the repository
    Surface,        \* anchor name -> digest, or Missing; what trees can hold
    Missing,
    MaxId,          \* the highest number of three digits a finding can have
    MaxPasses, MaxFindings, MaxTime

ASSUME EngagementAssumption ==
    /\ IsFiniteSet(Actor) /\ Cardinality(Actor) >= 2
    /\ MaxId \in Nat /\ MaxPasses \in Nat /\ MaxFindings \in Nat /\ MaxTime \in Nat
    /\ Missing \notin Revision

VARIABLES
    final,      \* hls-finalaudit, or the kit
    ledger,
    cmd,        \* how far each actor's command is, and what it will append
    clock,
    git,        \* commit -> [parent, time, surface], made so far
    head,
    surface,    \* the anchors' digests in the working tree
    slips       \* what passed unseen so far, a history: "git", a question it did
                \* not answer; "tree", a move between two looks of a signer

repoVars == <<git, head, surface>>
engageVars == <<final, ledger, cmd, clock, repoVars, slips>>

NotRunning == [step |-> "none"]

EngageInit ==
    /\ final \in BOOLEAN
    /\ ledger = <<>>
    /\ cmd = [a \in Actor |-> NotRunning]
    /\ clock = 0
    /\ slips = {}
    /\ \E first \in Revision, s \in Surface :
         /\ git = [c \in {first} |-> [parent |-> first, time |-> 0, surface |-> s]]
         /\ head = first
         /\ surface = s

-----------------------------------------------------------------------------
(* The repository *)

Ancestors(c) ==
    LET up[n \in 0..Cardinality(DOMAIN git)] ==
            IF n = 0 THEN {c} ELSE up[n - 1] \cup {git[d].parent : d \in up[n - 1]}
    IN  up[Cardinality(DOMAIN git)]

\* Commits that exist only on paper land nowhere.
commit_exists(c) == c \in DOMAIN git

commit_landed(c) == commit_exists(c) /\ c \in Ancestors(head)
commit_timestamp(c) == git[c].time

\* anchors_of raises when one of the anchors cannot be derived from the tree.
Derivable == \A n \in DOMAIN surface : surface[n] # Missing

\* A signer has looked at the anchors, and will look again.
BetweenLooks(a) == cmd[a].step = "landing"
TreeMoves == slips' = IF \E a \in Actor : BetweenLooks(a) THEN slips \cup {"tree"} ELSE slips

EditTree == surface' \in Surface \ {surface} /\ TreeMoves /\ UNCHANGED <<final, ledger, cmd, clock, git, head>>

MakeCommit ==
    /\ \E c \in Revision \ DOMAIN git :
         /\ git' = [d \in DOMAIN git \cup {c} |->
                      IF d = c THEN [parent |-> head, time |-> clock, surface |-> surface] ELSE git[d]]
         /\ head' = c
    /\ UNCHANGED <<final, ledger, cmd, clock, surface, slips>>

Checkout ==
    /\ \E c \in DOMAIN git \ {head} : head' = c /\ surface' = git[c].surface
    /\ TreeMoves
    /\ UNCHANGED <<final, ledger, cmd, clock, git>>

Tick == clock < MaxTime /\ clock' = clock + 1 /\ UNCHANGED <<final, ledger, cmd, repoVars, slips>>

-----------------------------------------------------------------------------
(* The ledger *)

\* entry_shape, what a reader accepts of each kind.
entry_shape(e) ==
    \/ e.kind = "engagement" /\ e.roster # {} /\ Missing \notin Range(e.anchors)
    \/ e.kind = "evidence" /\ e.independent \in BOOLEAN /\ e.ok = (e.refusals = {})
    \/ e.kind = "finding" /\ e.id \in 1..MaxId
    \/ e.kind = "triage" /\ e.for \in 1..MaxId /\ (e.verdict # "accepted" => "fix" \notin DOMAIN e)
    \/ e.kind = "signoff" /\ Missing \notin Range(e.anchors)

\* read_ledger: every entry has its shape and chains onto the one before it, or
\* nothing is read.
Readable == \A i \in DOMAIN ledger : entry_shape(ledger[i]) /\ ledger[i].prev = i - 1

OfKind(entries, kind) == {i \in DOMAIN entries : entries[i].kind = kind}
FirstOf(places) == CHOOSE i \in places : \A j \in places : i <= j
LastOf(places) == CHOOSE i \in places : \A j \in places : i >= j

Engaged(entries) == entries # <<>> /\ entries[1].kind = "engagement"
Roster(entries) == entries[1].roster
passes_of(entries) == OfKind(entries, "evidence")
findings_of(entries) == {entries[i].id : i \in OfKind(entries, "finding")}
FindingOf(entries, id) == entries[LastOf({i \in OfKind(entries, "finding") : entries[i].id = id})]
triages_of(entries) == {entries[i].for : i \in OfKind(entries, "triage")}
TriageOf(entries, id) == entries[FirstOf({i \in OfKind(entries, "triage") : entries[i].for = id})]
Sealed(entries) == OfKind(entries, "signoff") # {}

derive_state(entries) ==
    CASE ~Engaged(entries)                          -> IF entries = <<>> THEN "vacant" ELSE "open"
      [] Engaged(entries) /\ Sealed(entries)        -> "sealed"
      [] Engaged(entries) /\ ~Sealed(entries)       ->
           CASE passes_of(entries) = {}             -> "open"
             [] passes_of(entries) # {}             ->
                  IF findings_of(entries) = {} THEN "underway"
                  ELSE IF findings_of(entries) \ triages_of(entries) # {} THEN "reported"
                  ELSE "remediated"

AllAnswered(entries) == findings_of(entries) \subseteq triages_of(entries)

Accepted(entries) == {id \in triages_of(entries) : TriageOf(entries, id).verdict = "accepted"}

\* The landing law, and that a fix does not predate what it fixes; the kit asks
\* only that it exists.
FixHolds(fix, filed) ==
    /\ commit_exists(fix)
    /\ final => commit_landed(fix) /\ commit_timestamp(fix) >= filed

\* Seeded fault: any green pass will do, though a later one failed.
AnyPassCloses(entries) ==
    /\ AllAnswered(entries)
    /\ \E i \in passes_of(entries) : entries[i].independent
    /\ \E i \in passes_of(entries) : entries[i].ok

\* closure_refusals, the part that looks at the entries alone: the census and the
\* independence.
CensusCloses(entries) ==
    /\ passes_of(entries) # {}
    /\ AllAnswered(entries)
    /\ \E i \in passes_of(entries) : entries[i].independent
    /\ entries[LastOf(passes_of(entries))].ok

-----------------------------------------------------------------------------
(* The commands *)

\* A command reads the ledger, and goes on with what it will append.
Begin(a, step, body) ==
    /\ cmd[a] = NotRunning
    /\ Readable
    /\ cmd' = [cmd EXCEPT ![a] = [step |-> step, read |-> Len(ledger), todo |-> {}, body |-> body, prev |-> 0]]
    /\ UNCHANGED <<final, ledger, clock, repoVars, slips>>

Decide(a, body) == Begin(a, "decided", body)
Read(a) == SubSeq(ledger, 1, cmd[a].read)
Done(a) == cmd' = [cmd EXCEPT ![a] = NotRunning]

Open == Engaged(ledger) /\ (final => ~Sealed(ledger))

Engage(a) ==
    /\ ~Engaged(ledger)
    /\ \E roster \in (SUBSET Actor) \ {{}} :
         /\ a \notin roster
         /\ Derivable
         /\ Decide(a, [kind |-> "engagement", by |-> a, prev |-> 0, time |-> 0, roster |-> roster, anchors |-> surface])

Evidence(a) ==
    /\ Open
    /\ Derivable
    /\ Cardinality(passes_of(ledger)) < MaxPasses
    /\ \E refusals \in {{}, {"guarantee"}} :
         Decide(a, [kind |-> "evidence", by |-> a, prev |-> 0, time |-> 0, independent |-> a \in Roster(ledger),
                    ok |-> refusals = {}, refusals |-> refusals])

\* The number of a finding is one more than the highest on record.
FileFinding(a) ==
    /\ Open
    /\ a \in Roster(ledger)
    /\ Cardinality(OfKind(ledger, "finding")) < MaxFindings
    /\ Decide(a, [kind |-> "finding", by |-> a, prev |-> 0, time |-> 0, id |-> 1 + Max({0} \cup findings_of(ledger))])

Triage(a) ==
    /\ Open
    /\ a \notin Roster(ledger)
    /\ \E id \in findings_of(ledger) \ triages_of(ledger) :
         \/ \E fix \in Revision :
              Begin(a, "fix", [kind |-> "triage", by |-> a, prev |-> 0, time |-> 0, for |-> id, verdict |-> "accepted", fix |-> fix])
         \/ Decide(a, [kind |-> "triage", by |-> a, prev |-> 0, time |-> 0, for |-> id, verdict |-> "disputed"])

\* A question about a fix: the command goes on when it holds, refuses when it does
\* not, and goes on as well when git fails or is out of time.
AskGit(a, fix, filed, next) ==
    /\ \/ FixHolds(fix, filed) /\ cmd' = next /\ UNCHANGED slips
       \/ ~FixHolds(fix, filed) /\ Done(a) /\ UNCHANGED slips
       \/ cmd' = next /\ slips' = slips \cup {"git"}
    /\ UNCHANGED <<final, ledger, clock, repoVars>>

CheckFix(a) ==
    /\ cmd[a].step = "fix"
    /\ AskGit(a, cmd[a].body.fix, FindingOf(Read(a), cmd[a].body.for).time, [cmd EXCEPT ![a].step = "decided"])

\* The signer: the census of what was read.
Signoff(a) ==
    /\ final
    /\ Open
    /\ a \notin Roster(ledger)
    /\ CensusCloses(ledger)
    /\ Begin(a, "anchors", [kind |-> "signoff", by |-> a, prev |-> 0, time |-> 0, tree |-> Missing, anchors |-> <<>>])

\* The first look at the anchors; and a tree that git does not call a repository
\* never closes.
CompareAnchors(a) ==
    /\ cmd[a].step = "anchors"
    /\ \/ /\ Derivable /\ Read(a)[1].anchors = surface
          /\ cmd' = [cmd EXCEPT ![a].step = "landing", ![a].todo = Accepted(Read(a))]
       \/ Done(a)
    /\ UNCHANGED <<final, ledger, clock, repoVars, slips>>

\* Git is asked about one fix after the other.
CheckLanding(a) ==
    /\ cmd[a].step = "landing" /\ cmd[a].todo # {}
    /\ LET id == Min(cmd[a].todo)
       IN  AskGit(a, TriageOf(Read(a), id).fix, FindingOf(Read(a), id).time, [cmd EXCEPT ![a].todo = @ \ {id}])

\* The second look, which nothing is compared with.
PinAnchors(a) ==
    /\ cmd[a].step = "landing" /\ cmd[a].todo = {}
    /\ IF Derivable THEN cmd' = [cmd EXCEPT ![a].step = "head", ![a].body.anchors = surface] ELSE Done(a)
    /\ UNCHANGED <<final, ledger, clock, repoVars, slips>>

\* git_sha, which has a text for a tree it cannot ask.
PinHead(a) ==
    /\ cmd[a].step = "head"
    /\ \E tree \in {head, Missing} : cmd' = [cmd EXCEPT ![a].step = "decided", ![a].body.tree = tree]
    /\ UNCHANGED <<final, ledger, clock, repoVars, slips>>

\* An entry as it is written; no time is looked at but a finding's.
Stamped(body, prev) == [body EXCEPT !.prev = prev, !.time = IF body.kind = "finding" THEN clock ELSE 0]

\* append_chained reads the whole chain again, and then writes one line.
ReadChain(a) ==
    /\ cmd[a].step = "decided"
    /\ IF Readable THEN cmd' = [cmd EXCEPT ![a].step = "chained", ![a].prev = Len(ledger)] ELSE Done(a)
    /\ UNCHANGED <<final, ledger, clock, repoVars, slips>>

Append_(a) ==
    /\ cmd[a].step = "chained"
    /\ ledger' = Append(ledger, Stamped(cmd[a].body, cmd[a].prev))
    /\ Done(a)
    /\ UNCHANGED <<final, clock, repoVars, slips>>

EngageNext ==
    \/ \E a \in Actor :
        \/ Engage(a) \/ Evidence(a) \/ FileFinding(a) \/ Triage(a) \/ CheckFix(a)
        \/ Signoff(a) \/ CompareAnchors(a) \/ CheckLanding(a) \/ PinAnchors(a) \/ PinHead(a)
        \/ ReadChain(a) \/ Append_(a)
    \/ EditTree \/ MakeCommit \/ Checkout \/ Tick

EngageSpec == EngageInit /\ [][EngageNext]_engageVars

-----------------------------------------------------------------------------
(* The gate *)

Seal == ledger[FirstOf(OfKind(ledger, "signoff"))]

\* cmd_gate exits 0.
Green ==
    /\ Readable
    /\ Sealed(ledger)
    /\ commit_landed(Seal.tree)
    /\ Derivable
    /\ Seal.anchors = surface
    /\ \A id \in Accepted(ledger) : commit_landed(TriageOf(ledger, id).fix)

-----------------------------------------------------------------------------
(* What is checked *)

Entries(kind) == OfKind(ledger, kind)

\* Whatever was filed has an answer of its own, of somebody who is no auditor.
EachAnswered ==
    \E answer \in [Entries("finding") -> Entries("triage")] :
        /\ IsInjective(answer)
        /\ \A i \in DOMAIN answer :
             /\ answer[i] > i
             /\ ledger[answer[i]].for = ledger[i].id
             /\ ledger[answer[i]].by \notin Roster(ledger)

\* What the word "remediated" and the green gate promise, however the tree moved
\* since: every finding is answered; and a candidate that is cut is the artifact
\* the contract named, in the history of the tree that was sealed, an auditor
\* has seen it, nothing came after the seal, and each fix is in the candidate
\* and no older than its finding (hls-finalaudit.py:48-106, hls-auditkit.py:34-100).
\* The final audit breaks it: see SealsAreEarned for what holds instead.
ClosedMeansAudited ==
    /\ derive_state(ledger) \in {"remediated", "sealed"} => EachAnswered
    /\ Green =>
         /\ ledger[1].anchors = surface
         /\ Seal = Last(ledger) /\ Seal.tree \in Ancestors(head)
         /\ derive_state(Front(ledger)) \in {"underway", "remediated"}
         /\ \E i \in Entries("evidence") : ledger[i].by \in Roster(ledger)
         /\ \A i \in Entries("finding"), j \in Entries("triage") :
              ledger[j].for = ledger[i].id /\ ledger[j].verdict = "accepted" =>
                  /\ ledger[j].fix \in Ancestors(head)
                  /\ git[ledger[j].fix].time >= ledger[i].time

\* An answer is the project's, to a finding an auditor filed before it; an accepted
\* one names a commit that is no older, unless git was asked in vain.
AnswerIsFair(j) ==
    /\ ledger[j].by \notin Roster(ledger)
    /\ \E i \in Entries("finding") :
         /\ i < j /\ ledger[i].id = ledger[j].for
         /\ ledger[i].by \in Roster(ledger)
         /\ ledger[j].verdict = "accepted" /\ "git" \notin slips =>
              /\ ledger[j].fix \in DOMAIN git
              /\ final => git[ledger[j].fix].time >= ledger[i].time

\* The first n entries are an audit that may close: nobody has closed it, every
\* finding of the n is answered in the n, an auditor has run a pass, and the last
\* of the passes, whoever ran it, was green.
Audited(n) ==
    /\ \A i \in Entries("signoff") : i > n
    /\ \A i \in Entries("finding") : i <= n => \E j \in Entries("triage") : j <= n /\ ledger[j].for = ledger[i].id
    /\ \E i \in Entries("evidence") : i <= n /\ ledger[i].by \in Roster(ledger)
    /\ \E i \in Entries("evidence") : i <= n /\ ledger[i].ok /\ \A j \in Entries("evidence") : j <= n => j <= i

\* Whatever commands overlap, however the tree moves and whether git answers or
\* not: answers are fair, and a seal was written by the project over entries that
\* were an audit, though others may have come since; it pins the artifact of the
\* contract unless the tree moved between the signer's two looks at it
\* (hls-finalaudit.py:883-962, 1642-1770).
SealsAreEarned ==
    /\ \A j \in Entries("triage") : AnswerIsFair(j)
    /\ \A s \in Entries("signoff") :
         /\ \E n \in 1..s - 1 : Audited(n)
         /\ ledger[s].by \notin Roster(ledger)
         /\ "tree" \notin slips => ledger[s].anchors = ledger[1].anchors
=============================================================================
