------------------------------ MODULE Packages ------------------------------
(***************************************************************************)
(* hls-pkg: projects that add, lock, verify and build one dependency, which*)
(* comes from a git repository through a clone in a cache they share       *)
(* (tools/hpkg_parts).  The commands of two projects interleave: nothing   *)
(* locks the cache.                                                        *)
(*                                                                         *)
(* Commits stand for their contents, so that the hash of what is checked   *)
(* out is its commit.  Every commit carries a manifest with a version, or  *)
(* none; a tag of the repository is a version.                             *)
(***************************************************************************)
EXTENDS Semver

CONSTANTS
    Project, Commit, NoCommit,
    Tag,            \* tags the upstream repository may have
    TagVersion,     \* the version a tag names
    OwnVersion,     \* the version in the manifest of a commit, or NoVersion
    Effectful,      \* commits whose audit reports an effect
    NoVersion, NoRequirement,
    Demand          \* requirements a manifest may state

ASSUME PackagesAssumption ==
    /\ TagVersion \in [Tag -> Version]
    /\ OwnVersion \in [Commit -> Version \cup {NoVersion}]
    /\ NoCommit \notin Commit /\ NoVersion \notin Version
    /\ \A r \in Demand \ {NoRequirement} : ParsesRequirement(r)

VARIABLES
    upstream,   \* where the refs of the remote repository point
    clone,      \* the clone in the cache: its own refs, and what is checked out
    manifest,   \* manifest[p]: the ref, the requirement, the allowed effects
    lockfile,   \* lockfile[p]: the entry of the dependency, or NoLock
    job,        \* job[p]: the command that runs, and what it has read
    verdict,    \* verdict[p]: how the last command of p ended
    linked,     \* projects with the dependency under .hls-pkg-deps
    crossed     \* a history: projects that had other code checked out under a lock
                \* they were making, between its hash and its last look

pkgVars == <<upstream, clone, manifest, lockfile, job, verdict, linked, crossed>>

Ref == Tag \cup {"main"}
NoLock == [present |-> FALSE]
NoClone == [refs |-> [r \in Ref |-> NoCommit], head |-> NoCommit]
IdleJob == [pc |-> "idle"]

PkgInit ==
    /\ \E c \in Commit : upstream = [r \in Ref |-> IF r = "main" THEN c ELSE NoCommit]
    /\ clone = NoClone
    /\ \E refs \in [Project -> Ref] :
         manifest = [p \in Project |-> [ref |-> refs[p], requires |-> NoRequirement, allowed |-> FALSE]]
    /\ lockfile = [p \in Project |-> NoLock]
    /\ job = [p \in Project |-> IdleJob]
    /\ verdict = [p \in Project |-> "none"]
    /\ linked = {}
    /\ crossed = {}

Cached == clone.head # NoCommit

\* The locks being made whose hash is not of what is checked out next.
Looking(p) == job[p].pc \in {"enforce", "audit", "commit"}
ChecksOut(c) == crossed' = crossed \cup {p \in Project : Looking(p) /\ job[p].sha # c}

Ends(p, how) ==
    /\ job' = [job EXCEPT ![p] = IdleJob]
    /\ verdict' = [verdict EXCEPT ![p] = how]

Reaches(p, state) ==
    /\ job' = [job EXCEPT ![p] = state]
    /\ verdict' = [verdict EXCEPT ![p] = "none"]

-----------------------------------------------------------------------------
(* The remote repository, the manifests and the cache *)

\* A commit is pushed to the branch; a tag is made, or moved.
Push ==
    /\ \E r \in Ref : \E c \in Commit \ {upstream[r]} : upstream' = [upstream EXCEPT ![r] = c]
    /\ UNCHANGED <<clone, manifest, lockfile, job, verdict, linked, crossed>>

\* hls-pkg add, or an editor: the source of the dependency and its requirement.
Add(p) ==
    /\ job[p].pc = "idle"
    /\ \E r \in Ref, d \in Demand, a \in BOOLEAN :
         /\ manifest[p] # [ref |-> r, requires |-> d, allowed |-> a]
         /\ manifest' = [manifest EXCEPT ![p] = [ref |-> r, requires |-> d, allowed |-> a]]
    /\ verdict' = [verdict EXCEPT ![p] = "none"]
    /\ UNCHANGED <<upstream, clone, lockfile, job, linked, crossed>>

Purge ==
    /\ Cached
    /\ clone' = NoClone
    /\ verdict' = [p \in Project |-> "none"]
    /\ UNCHANGED <<upstream, manifest, lockfile, job, linked, crossed>>

-----------------------------------------------------------------------------
(* hls-pkg lock *)

\* The clone has every ref of the remote when it is made.  Later, git fetch of
\* one ref brings the commit but moves no ref of the clone, and checkout takes
\* the clone's own.
Resolve(p) ==
    LET r == manifest[p].ref
        own == IF Cached THEN clone.refs ELSE upstream
    IN
    /\ job[p].pc = "idle"
    /\ \/ /\ upstream[r] # NoCommit /\ own[r] # NoCommit
          /\ clone' = [refs |-> own, head |-> own[r]]
          /\ job' = [job EXCEPT ![p] = [pc |-> "hash"]]
          /\ verdict' = [q \in Project |-> "none"]
       \/ \* The fetch fails, or the checkout does.
          /\ clone' = IF Cached THEN clone ELSE [refs |-> own, head |-> own["main"]]
          /\ Ends(p, "unresolved")
    /\ ChecksOut(clone'.head)
    /\ UNCHANGED <<upstream, manifest, lockfile, linked>>

Hash(p) ==
    /\ job[p].pc = "hash"
    /\ IF Cached THEN Reaches(p, [pc |-> "enforce", sha |-> clone.head]) ELSE Ends(p, "unresolved")
    /\ UNCHANGED <<upstream, clone, manifest, lockfile, linked, crossed>>

\* The version that stands for a ref: its own when it is a tag, else the one in
\* the manifest of what is checked out.
Claimed(r, c) == IF r \in Tag THEN TagVersion[r] ELSE IF c = NoCommit THEN NoVersion ELSE OwnVersion[c]

Meets(d, v) == v # NoVersion /\ RequirementHolds(ParsedRequirement(d), v)

\* Seeded fault: a ref whose version cannot be found is let through.
EnforcedIfChecked(p) ==
    LET d == manifest[p].requires v == Claimed(manifest[p].ref, clone.head) IN
    d = NoRequirement \/ v = NoVersion \/ Meets(d, v)

\* enforce_dep_requirement: what cannot be checked is refused.
Enforced(p) ==
    LET d == manifest[p].requires IN
    d = NoRequirement \/ Meets(d, Claimed(manifest[p].ref, clone.head))

\* extract_effects: what cannot be audited has every effect.
Audit == IF Cached THEN clone.head \in Effectful ELSE TRUE

\* The requirement, the effects and the commit are looked up one after the other in
\* a clone that may have moved.
Enforce(p) ==
    /\ job[p].pc = "enforce"
    /\ IF Enforced(p) THEN Reaches(p, [pc |-> "audit", sha |-> job[p].sha]) ELSE Ends(p, "refused")
    /\ UNCHANGED <<upstream, clone, manifest, lockfile, linked, crossed>>

ExtractEffects(p) ==
    /\ job[p].pc = "audit"
    /\ Reaches(p, [pc |-> "commit", sha |-> job[p].sha, effects |-> Audit])
    /\ UNCHANGED <<upstream, clone, manifest, lockfile, linked, crossed>>

\* git_current_commit, which is null when there is no clone or git fails.
ReadCommit(p) ==
    /\ job[p].pc = "commit"
    /\ \E c \in {clone.head, NoCommit} :
         Reaches(p, [pc |-> "write", sha |-> job[p].sha, commit |-> c, effects |-> job[p].effects])
    /\ UNCHANGED <<upstream, clone, manifest, lockfile, linked, crossed>>

\* The lockfile is written; only then are the effects held against the allowed.
WriteLock(p) ==
    /\ job[p].pc = "write"
    /\ lockfile' = [lockfile EXCEPT ![p] =
         [present |-> TRUE, ref |-> manifest[p].ref, requires |-> manifest[p].requires,
          commit |-> job[p].commit, sha |-> job[p].sha]]
    /\ Ends(p, IF job[p].effects /\ ~manifest[p].allowed THEN "effects" ELSE "locked")
    /\ UNCHANGED <<upstream, clone, manifest, linked, crossed>>

-----------------------------------------------------------------------------
(* hls-pkg verify *)

VerifyHash(p) ==
    /\ job[p].pc = "idle" /\ lockfile[p].present
    /\ IF Cached /\ clone.head = lockfile[p].sha
       THEN Reaches(p, [pc |-> "verify"])
       ELSE Ends(p, "failed")
    /\ UNCHANGED <<upstream, clone, manifest, lockfile, linked, crossed>>

\* The requirement of the manifest is the one that was locked, and the tag
\* still satisfies it.
NoDrift(p) ==
    /\ manifest[p].requires = lockfile[p].requires
    /\ (lockfile[p].requires # NoRequirement /\ lockfile[p].ref \in Tag) =>
         Meets(lockfile[p].requires, TagVersion[lockfile[p].ref])

\* Nothing is compared when the lock has no commit, or the clone is gone by then.
SameCommit(p) == lockfile[p].commit # NoCommit /\ Cached => clone.head = lockfile[p].commit

\* It fails as well when git does not name the clone's commit.
Verify(p) ==
    /\ job[p].pc = "verify"
    /\ \/ NoDrift(p) /\ SameCommit(p) /\ Ends(p, "verified")
       \/ Ends(p, "failed")
    /\ UNCHANGED <<upstream, clone, manifest, lockfile, linked, crossed>>

-----------------------------------------------------------------------------
(* hls-pkg build *)

\* The hash is held against the lock, and the path itself is linked.
Link(p) ==
    /\ job[p].pc = "idle"
    /\ IF ~lockfile[p].present THEN Reaches(p, [pc |-> "compile"]) /\ UNCHANGED linked
       ELSE IF Cached /\ clone.head = lockfile[p].sha
       THEN Reaches(p, [pc |-> "compile"]) /\ linked' = linked \cup {p}
       ELSE Ends(p, "mismatch") /\ UNCHANGED linked
    /\ UNCHANGED <<upstream, clone, manifest, lockfile, crossed>>

Compile(p) ==
    /\ job[p].pc = "compile"
    /\ Ends(p, IF lockfile[p].present /\ ~Cached THEN "import error" ELSE "built")
    /\ UNCHANGED <<upstream, clone, manifest, lockfile, linked, crossed>>

Interrupt(p) ==
    /\ job[p].pc # "idle"
    /\ Ends(p, "none")
    /\ UNCHANGED <<upstream, clone, manifest, lockfile, linked, crossed>>

-----------------------------------------------------------------------------

PkgNext ==
    \/ Push \/ Purge
    \/ \E p \in Project : Add(p) \/ Resolve(p) \/ Hash(p) \/ Enforce(p) \/ ExtractEffects(p) \/ ReadCommit(p)
                          \/ WriteLock(p) \/ VerifyHash(p) \/ Verify(p) \/ Link(p) \/ Compile(p) \/ Interrupt(p)

PkgSpec == PkgInit /\ [][PkgNext]_pkgVars

-----------------------------------------------------------------------------
(* What is checked *)

\* A lock that verifies is one the manifest of today accepts: after any sequence
\* of edits, locks that failed half way, pushes and purges, the code whose hash
\* verify has just found, at the ref that was locked, meets the requirement.  A
\* project is excepted when another one checked other code out while it made a lock:
\* the requirement was held against that code (hpkg_cmds.py:213-239).
VerifiedMeetsRequirement ==
    \A p \in Project \ crossed :
        verdict[p] = "verified" /\ manifest[p].requires # NoRequirement =>
            Meets(manifest[p].requires, Claimed(lockfile[p].ref, lockfile[p].sha))
=============================================================================
