------------------------------ MODULE MCTools -------------------------------
(***************************************************************************)
(* One model for the programs around the compiler: TLC picks one of them   *)
(* at the start and runs it alone, the others stay as they began.          *)
(*   server    two sources, one browser tab, two saves                     *)
(*   stack     the debugger: a thread of three nested calls, and a client  *)
(*   threads   the debugger: two threads of one call each, and a client    *)
(*   ledger    two writers, a mirror, a signer, two lines, one tampering   *)
(*   packages  a project, a dependency of two commits and one tag          *)
(*   cache     the same, and another project that checks the tag out       *)
(*   semver    one question to hls-pkg semver sat                          *)
(*   audit     hls-finalaudit: an auditor, the project, two commits        *)
(***************************************************************************)
EXTENDS DevServer, Dap, Ledger, Packages, Engagement

CONSTANTS p0, p1, c1, c2, q1, q2, v2, aud, dev

VARIABLE tool

----------------------------------------------------------------------------
(* Values of the constants *)

MCMaxDepth == [t \in Prog |-> IF t = MainProg THEN 3 ELSE 1]

Tagged(version) == [core |-> version, pre |-> <<>>]
MCTagVersion == [t \in {v2} |-> Tagged(<<2, 0, 0>>)]
MCOwnVersion == [c \in {c1, c2} |-> IF c = c1 THEN Tagged(<<1, 0, 0>>) ELSE NoVersion]

Token(form, nums, pre, wildcard, high) ==
    [form |-> form, nums |-> nums, pre |-> pre, wildcard |-> wildcard, high |-> high]
MCDemand == {NoRequirement, <<Token("^", <<1>>, <<>>, FALSE, <<>>)>>}

\* Every core below 2 or at it, released or one of three pre-releases; every
\* form of token over partial and full versions; and tokens in pairs.
MCVersion == {[core |-> c, pre |-> p] : c \in (0..2) \X (0..2) \X (0..2), p \in {<<>>, <<0>>, <<10>>, <<10, 1>>}}
Partial == UNION {[1..n -> {0, 1}] : n \in 1..3}
Tokens ==
    {Token(f, n, p, FALSE, <<>>) : f \in {"^", "~", "bare", ">=", "<", "="}, n \in Partial, p \in {<<>>, <<10>>}}
    \cup {Token(f, n, <<>>, TRUE, <<>>) : f \in {"bare", "^"}, n \in {<<1>>, <<0, 1>>}}
    \cup {Token("hyphen", n, <<>>, FALSE, h) : n \in {<<0, 1>>, <<1, 0, 1>>}, h \in {<<1>>, <<1, 1>>, <<1, 1, 1>>}}
    \cup {Token("*", <<>>, <<>>, FALSE, <<>>)}
Pairs == {<<a, b>> : a \in {t \in Tokens : t.form \in {"^", "bare", "hyphen"} /\ t.nums \in {<<0>>, <<0, 1>>, <<1, 0, 1>>}},
                     b \in {t \in Tokens : t.form \in {">=", "<", "~"} /\ t.nums \in {<<1>>, <<0, 1, 1>>, <<1, 1, 0>>}}}
MCRequirement == {<<t>> : t \in Tokens} \cup Pairs

\* The frozen artifact, and one that moved.
Good == [n \in {"freeze", "snapshot"} |-> n]
MCSurface == {Good, [Good EXCEPT !["freeze"] = "moved"]}

----------------------------------------------------------------------------

ToolsInit ==
    /\ tool \in {"server", "stack", "threads", "ledger", "packages", "cache", "semver", "audit"}
    /\ EngageInit /\ final /\ surface = Good /\ head = c1
    /\ ServeInit /\ DapInit /\ LedgerInit /\ PkgInit /\ SemverInit
    /\ \A f \in File : disk[f].state = "good"
    /\ thr[MainProg].entry
    /\ tool # "packages" => upstream["main"] = c1
    /\ manifest[q1].ref = "main" /\ manifest[q2].ref = IF tool = "cache" THEN v2 ELSE "main"

NotServer   == UNCHANGED <<tool, dapVars, ledgerVars, pkgVars, answer, engageVars>>
NotPackages == UNCHANGED <<tool, serveVars, dapVars, ledgerVars, answer, engageVars>>
NotDebugger == UNCHANGED <<tool, serveVars, ledgerVars, pkgVars, answer, engageVars>>

\* Bounds of the shared cache: the other project only checks out, the tag is not
\* moved, and nobody builds or allows an effect.
CacheBounds ==
    /\ job'[q2].pc \in {"idle", "hash"} /\ manifest'[q2] = manifest[q2]
    /\ upstream'[v2] \in {NoCommit, c2}
    /\ job'[q1].pc # "compile" /\ ~manifest'[q1].allowed

\* Bounds of the audit: who is an auditor, five entries of which two are passes or
\* findings, one slip, a first commit from before the audit, and a tree that rests
\* when no command can read the ledger any more.
AuditBounds ==
    /\ ledger' # <<>> => aud \in Roster(ledger')
    /\ Len(ledger') <= 5 /\ Cardinality(slips') <= 1
    /\ Cardinality(OfKind(ledger', "finding") \cup passes_of(ledger')) <= 2
    /\ clock < MaxTime => UNCHANGED <<ledger, cmd, git>>
    /\ Readable \/ UNCHANGED <<clock, repoVars>>

ToolsNext ==
    \/ tool = "server"   /\ ServeNext  /\ NotServer
    \/ tool = "stack"    /\ DapNext    /\ NotDebugger /\ thr'[p1].life = "new"
    \/ tool = "threads"  /\ DapNext    /\ NotDebugger /\ thr'[p0].calls <= 1
    \/ tool = "ledger"   /\ LedgerNext /\ UNCHANGED <<tool, serveVars, dapVars, pkgVars, answer, engageVars>>
    \/ tool = "packages" /\ PkgNext    /\ NotPackages /\ job'[q2] = IdleJob /\ verdict'[q2] = "none" /\ manifest'[q2] = manifest[q2]
    \/ tool = "cache"    /\ PkgNext    /\ NotPackages /\ CacheBounds
    \/ tool = "semver"   /\ SemverNext /\ UNCHANGED <<tool, serveVars, dapVars, ledgerVars, pkgVars, engageVars>>
    \/ tool = "audit"    /\ EngageNext /\ UNCHANGED <<tool, serveVars, dapVars, ledgerVars, pkgVars, answer>>
                         /\ AuditBounds

\* The audit alone.
AuditInit == ToolsInit /\ tool = "audit"
AuditNext == tool = "audit" /\ ToolsNext

\* The fairness of the server and the debugger, for the one that runs.
StepOfServer == tool = "server" /\ ServerStep /\ NotServer
StepOfTab(t) == tool = "server" /\ TabStep(t) /\ NotServer
StepOfThread(t) == tool \in {"stack", "threads"} /\ (Resume(t) \/ Bury(t)) /\ NotDebugger

ToolsVars == <<tool, serveVars, dapVars, ledgerVars, pkgVars, answer, engageVars>>
ToolsFairness ==
    /\ WF_ToolsVars(StepOfServer)
    /\ \A t \in Tab : WF_ToolsVars(StepOfTab(t))
    /\ \A t \in Prog : WF_ToolsVars(StepOfThread(t))

ToolsSpec == ToolsInit /\ [][ToolsNext]_ToolsVars /\ ToolsFairness
=============================================================================
