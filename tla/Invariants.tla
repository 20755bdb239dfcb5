----------------------------- MODULE Invariants -----------------------------
(***************************************************************************)
(* The loop invariants that the compiler infers (hlinterp/proof.py, from   *)
(* _generate_candidates to verify_loop).  A loop is summarised: the affine *)
(* step of every variable it carries, its condition, the interval facts at *)
(* its head; candidates come from templates; a candidate is reported when  *)
(* the solver refutes the negation of its initiation and of its            *)
(* preservation.                                                           *)
(*                                                                         *)
(* The solver is external.  It is asked about linear terms with small      *)
(* constants, and answers here over the integers of SolverWindow, which is *)
(* wide enough to hold a counterexample whenever the integers hold one.    *)
(***************************************************************************)
EXTENDS Proof, SequencesExt

CONSTANT SolverReach    \* the solver looks at -SolverReach .. SolverReach

SolverWindow == -SolverReach..SolverReach

\* x' = self * x + the sum of coeff * y, or y' where y was assigned before, + const
Form(self, terms, const) == [self |-> self, terms |-> terms, const |-> const]
NoTerms == [t \in Var \X BOOLEAN |-> 0]
Identity == Form(1, NoTerms, 0)
NotAffine == [self |-> "none"]
Affine(d) == d # NotAffine

Scaled(d, n) == Form(n * d.self, [t \in DOMAIN d.terms |-> n * d.terms[t]], n * d.const)

Added(a, b) ==
    LET sum == Form(a.self + b.self, [t \in DOMAIN a.terms |-> a.terms[t] + b.terms[t]], a.const + b.const)
        variables == (IF sum.self # 0 THEN 1 ELSE 0) + Cardinality({t \in DOMAIN sum.terms : sum.terms[t] # 0})
    IN  IF variables > 2 THEN NotAffine ELSE sum

RECURSIVE affine_of(_, _, _)
affine_of(e, lhs, assignedBefore) ==
    CASE e.k = "int" -> Form(0, NoTerms, e.v)
      [] e.k = "un" -> IF e.e.k = "int" THEN Form(0, NoTerms, -e.e.v) ELSE NotAffine
      [] e.k = "ident" ->
           IF e.name = lhs THEN Identity
           ELSE Form(0, [NoTerms EXCEPT ![<<e.name, e.name \in assignedBefore>>] = 1], 0)
      [] e.k = "bin" ->
           LET l == affine_of(e.l, lhs, assignedBefore)
               r == affine_of(e.r, lhs, assignedBefore)
           IN  IF e.op = "*" /\ e.l.k = "int" /\ Affine(r) THEN Scaled(r, e.l.v)
               ELSE IF e.op = "*" /\ e.r.k = "int" /\ Affine(l) THEN Scaled(l, e.r.v)
               ELSE IF e.op \in {"+", "-"} /\ Affine(l) /\ Affine(r)
               THEN Added(l, IF e.op = "-" THEN Scaled(r, -1) ELSE r)
               ELSE NotAffine

----------------------------------------------------------------------------
(* The step of one turn: for each variable the forms it may take, or that  *)
(* it is not modelled (the solver may then choose any value).              *)

NothingYet == [trans |-> [x \in Var |-> {}], unmodeled |-> {}]
Touched(sum) == {x \in Var : sum.trans[x] # {}} \cup sum.unmodeled

RECURSIVE has_escape(_)
has_escape(stmts) ==
    \E i \in DOMAIN stmts :
        LET s == stmts[i] IN
        \/ s.k \in {"return", "break", "continue"}
        \/ s.k = "if" /\ (has_escape(s.then) \/ has_escape(s.els))
        \/ s.k \in {"while", "for", "each"} /\ has_escape(s.body)

Unmodel(sum, names) ==
    [trans |-> [x \in Var |-> IF x \in names THEN {} ELSE sum.trans[x]],
     unmodeled |-> sum.unmodeled \cup names]

\* Seeded fault: the last assignment of a turn stands for all of them.
WalkLastAssign(s, st) ==
    LET d == affine_of(s.value, s.target, st.before) IN
    [sum |-> IF Affine(d) THEN [st.sum EXCEPT !.trans[s.target] = {d}] ELSE Unmodel(st.sum, {s.target}),
     before |-> st.before \cup {s.target}]

\* An assignment: the first to its variable this turn, or it is not modelled; one
\* to what a nested loop has touched leaves the order of the turn as it was.
WalkAssign(s, st) ==
    LET x == s.target
        d == affine_of(s.value, x, st.before)
    IN  IF x \in Touched(st.sum) THEN [st EXCEPT !.sum = Unmodel(@, {x})]
        ELSE [sum |-> IF Affine(d) THEN [st.sum EXCEPT !.trans[x] = {d}] ELSE Unmodel(st.sum, {x}),
              before |-> st.before \cup {x}]

\* An empty branch, or one that does not write x, keeps the value of x.
OnBranch(sub, x) == IF sub.trans[x] # {} THEN sub.trans[x] ELSE {Identity}

MergeBranches(st, then, els) ==
    LET written == Touched(then) \cup Touched(els)
        lost == then.unmodeled \cup els.unmodeled \cup st.sum.unmodeled
        merged == [x \in Var |-> IF x \in written THEN OnBranch(then, x) \cup OnBranch(els, x)
                                 ELSE st.sum.trans[x]]
    IN  [sum |-> Unmodel([trans |-> merged, unmodeled |-> {}], lost),
         before |-> st.before \cup written]

\* What a nested loop writes, unless this turn has a step for it already.
WalkNested(s, st) ==
    [st EXCEPT !.sum = Unmodel(@, assigned_int_vars(s.body) \ Touched(@))]

RECURSIVE walk_body_stmts(_, _)
walk_body_stmts(stmts, st) ==
    IF stmts = <<>> THEN st
    ELSE LET s == Head(stmts)
             branch(b) == walk_body_stmts(b, [sum |-> NothingYet, before |-> st.before]).sum
         IN  walk_body_stmts(Tail(stmts),
                 CASE s.k = "assign" -> WalkAssign(s, st)
                   [] s.k = "if" -> MergeBranches(st, branch(s.then), branch(s.els))
                   [] s.k \in {"while", "for", "each"} -> WalkNested(s, st)
                   [] OTHER -> st)

summarize_body(body) ==
    IF has_escape(body) THEN Unmodel(NothingYet, assigned_int_vars(body))
    ELSE walk_body_stmts(body, [sum |-> NothingYet, before |-> {}]).sum

----------------------------------------------------------------------------
(* The summary of a loop.  A condition is [op, var, bound] with the        *)
(* variable on the left; a bound is a number or a variable.                *)

Flipped == [op \in {"<", "<=", ">", ">=", "==", "!="} |->
    CASE op = "<" -> ">" [] op = "<=" -> ">=" [] op = ">" -> "<" [] op = ">=" -> "<=" [] OTHER -> op]

NoCond == [op |-> "none"]
Simple(e) == e.k \in {"int", "ident"}

parse_cond(c) ==
    IF c.k # "cmp" THEN NoCond
    ELSE IF ~Simple(c.l) \/ ~Simple(c.r) THEN NoCond
    ELSE IF c.l.k = "ident" THEN [op |-> c.op, var |-> c.l.name, bound |-> c.r]
    ELSE IF c.r.k = "ident" THEN [op |-> Flipped[c.op], var |-> c.r.name, bound |-> c.l]
    ELSE NoCond

BoundValue(b, vals) == IF b.k = "int" THEN b.v ELSE vals[b.name]
CondHolds(c, vals) == c = NoCond \/ Compare(c.op, vals[c.var], BoundValue(c.bound, vals))

\* A for loop over a range with invariant bounds carries its own variable.
RangeIsModelled(s, sum) ==
    /\ s.k = "for" /\ Simple(s.from) /\ Simple(s.to)
    /\ (Names(s.from) \cup Names(s.to)) \cap (assigned_int_vars(s.body) \cup {s.var}) = {}
    /\ s.var \notin sum.unmodeled

\* A body that may leave the loop takes the header's variable with it.
build_summary(s, facts) ==
    LET header == IF s.k = "while" THEN {} ELSE {s.var}
        sum == Unmodel(summarize_body(s.body), IF has_escape(s.body) THEN header ELSE {})
        ranged == RangeIsModelled(s, sum)
        step == IF ranged THEN [sum EXCEPT !.trans[s.var] = {Form(1, NoTerms, 1)}]
                ELSE Unmodel(sum, header)
    IN  [loop |-> s, facts |-> facts, step |-> step, ranged |-> ranged,
         cond |-> IF s.k = "while" THEN parse_cond(s.cond)
                  ELSE IF ranged THEN [op |-> "<", var |-> s.var, bound |-> s.to] ELSE NoCond]

Carried(sum) == {x \in Var : sum.step.trans[x] # {}}

\* The constant by which every path of a turn moves x, if there is one.
HasStep(sum, x) ==
    /\ sum.step.trans[x] # {}
    /\ \A d \in sum.step.trans[x] : d.self = 1 /\ d.terms = NoTerms
    /\ Cardinality(sum.step.trans[x]) = 1
StepConst(sum, x) == (CHOOSE d \in sum.step.trans[x] : TRUE).const

(* A candidate: x op bound + delta, or x = bound modulo m.                 *)
Cand(x, op, b, delta, tag) == [var |-> x, op |-> op, bound |-> b, delta |-> delta, tag |-> tag]

EntryBounds(sum, x) ==
    LET iv == sum.facts.iv[x] IN
    (IF IsNum(iv.lo) THEN {Cand(x, ">=", Lit(iv.lo[2]), 0, "entry-bound")} ELSE {})
    \cup (IF IsNum(iv.hi) THEN {Cand(x, "<=", Lit(iv.hi[2]), 0, "entry-bound")} ELSE {})

\* The condition, weakened by how far the last turn may overshoot it.
CondBounds(sum, x) ==
    LET c == sum.cond IN
    IF c = NoCond THEN {}
    ELSE IF c.var # x \/ ~HasStep(sum, x) \/ c.bound = Ref(x) THEN {}
    ELSE LET by == StepConst(sum, x) IN
         CASE by > 0 /\ c.op = "<" -> {Cand(x, "<=", c.bound, by - 1, "cond-bound")}
           [] by > 0 /\ c.op = "<=" -> {Cand(x, "<=", c.bound, by, "cond-bound")}
           [] by < 0 /\ c.op = ">" -> {Cand(x, ">=", c.bound, by + 1, "cond-bound")}
           [] by < 0 /\ c.op = ">=" -> {Cand(x, ">=", c.bound, by, "cond-bound")}
           [] OTHER -> {}

Modular(sum, x) ==
    LET iv == sum.facts.iv[x] IN
    IF IsNum(iv.lo) /\ iv.lo = iv.hi /\ HasStep(sum, x)
    THEN IF Abs(StepConst(sum, x)) > 1
         THEN {Cand(x, "mod", iv.lo[2], Abs(StepConst(sum, x)), "modular")} ELSE {}
    ELSE {}

RangeStart(sum, x) ==
    IF sum.ranged /\ sum.loop.var = x THEN {Cand(x, ">=", sum.loop.from, 0, "range")} ELSE {}

\* What other variables' steps read is tried first: its bounds may help them.
ReadByOthers(sum, x) ==
    \E y \in Carried(sum) \ {x} : \E d \in sum.step.trans[y], p \in BOOLEAN : d.terms[<<x, p>>] # 0
VarRank == FoldSet(LAMBDA x, rank : [rank EXCEPT ![x] = 1 + Max({rank[y] : y \in Var})], [x \in Var |-> 0], Var)
Rank(sum, c) ==
    (IF ReadByOthers(sum, c.var) THEN 0 ELSE 100) + 10 * VarRank[c.var]
    + (CASE c.tag = "cond-bound" -> 1 [] c.tag = "entry-bound" /\ c.op = ">=" -> 2
         [] c.tag = "entry-bound" -> 3 [] c.tag = "modular" -> 4 [] OTHER -> 5)

generate_candidates(sum) ==
    SetToSortSeq(UNION {EntryBounds(sum, x) \cup CondBounds(sum, x) \cup Modular(sum, x)
                          \cup RangeStart(sum, x) : x \in Carried(sum)},
                 LAMBDA a, b : Rank(sum, a) < Rank(sum, b))

----------------------------------------------------------------------------
(* The obligations.                                                        *)

\* The candidate with x for its variable and vals for the others.
CandOf(c, x, vals) ==
    IF c.op = "mod" THEN (x - c.bound) % c.delta = 0
    ELSE Compare(c.op, x, BoundValue(c.bound, vals) + c.delta)
CandHolds(c, vals) == CandOf(c, vals[c.var], vals)

\* The variables the obligations speak of.
loop_decl_names(sum) ==
    Carried(sum) \cup sum.step.unmodeled
    \cup (IF sum.cond = NoCond THEN {} ELSE {sum.cond.var} \cup Names(sum.cond.bound))
    \cup (IF sum.ranged THEN {sum.loop.var} \cup Names(sum.loop.from) \cup Names(sum.loop.to) ELSE {})
    \cup {y \in Var : \E x \in Carried(sum) : \E d \in sum.step.trans[x], p \in BOOLEAN : d.terms[<<y, p>>] # 0}

WithinFacts(facts, x, n) ==
    /\ IsNum(facts.iv[x].lo) => n >= facts.iv[x].lo[2]
    /\ IsNum(facts.iv[x].hi) => n <= facts.iv[x].hi[2]
Usable(facts, x) == facts.iv[x].hi[1] # "len"

EntryHolds(sum, vals) ==
    /\ \A x \in DOMAIN vals : Usable(sum.facts, x) => WithinFacts(sum.facts, x, vals[x])
    /\ sum.ranged => /\ vals[sum.loop.var] = BoundValue(sum.loop.from, vals)
                     /\ BoundValue(sum.loop.from, vals) < BoundValue(sum.loop.to, vals)

InvariantFacts(sum, vals) ==
    \A x \in DOMAIN vals \ (Carried(sum) \cup sum.step.unmodeled) :
        Usable(sum.facts, x) => WithinFacts(sum.facts, x, vals[x])

\* The values x may have after a turn; a primed name has one of its own.
RECURSIVE NextValues(_, _, _, _)
NextValues(sum, x, vals, path) ==
    IF x \in sum.step.unmodeled \/ x \in path THEN SolverWindow
    ELSE IF sum.step.trans[x] = {} THEN SolverWindow
    ELSE UNION {
           LET reads == {y \in Var : d.terms[<<y, TRUE>>] # 0}
               next == [y \in reads |-> NextValues(sum, y, vals, path \cup {x})]
               now == d.self * vals[x] + d.const
                      + FoldSet(LAMBDA y, n : n + d.terms[<<y, FALSE>>] * vals[y], 0, DOMAIN vals)
           IN  {now + FoldSet(LAMBDA y, n : n + d.terms[<<y, TRUE>>] * primed[y], 0, reads) :
                   primed \in {q \in [reads -> UNION {next[y] : y \in reads}] : \A y \in reads : q[y] \in next[y]}}
         : d \in sum.step.trans[x]}

Initiated(sum, c) ==
    \A vals \in [loop_decl_names(sum) -> SolverWindow] : EntryHolds(sum, vals) => CandHolds(c, vals)

Preserved(sum, c, accepted) ==
    \A vals \in [loop_decl_names(sum) -> SolverWindow] :
        (/\ CandHolds(c, vals) /\ \A a \in accepted : CandHolds(a, vals)
         /\ InvariantFacts(sum, vals) /\ CondHolds(sum.cond, vals))
        => \A n \in NextValues(sum, c.var, vals, {}) : CandOf(c, n, vals)

\* Candidates in order, each with those accepted before it as hypotheses.
verify_loop(sum) ==
    FoldLeft(LAMBDA accepted, c :
                 IF Initiated(sum, c) /\ Preserved(sum, c, accepted) THEN accepted \cup {c} ELSE accepted,
             {}, generate_candidates(sum))

infer_loops(p) == {[loop |-> h.loop, accepted |-> verify_loop(build_summary(h.loop, h.f))] : h \in Analysed(p).heads}

----------------------------------------------------------------------------
(* What is reported of a loop holds each time its head is reached.         *)

Source(s) ==
    IF s.k = "while" THEN While(s.cond, s.body)
    ELSE IF s.k = "for" THEN For(s.var, s.from, s.to, s.body) ELSE Each(s.var, s.of, s.body)

HeadReached ==
    /\ todo # <<>> /\ fault = NoFault
    /\ Now.k \in {"while", "for"}
    /\ Now.k = "for" => Bounds(Now)[1] + Turns(Now) < Bounds(Now)[2]
HeadValues == IF Now.k = "while" THEN env
              ELSE [env EXCEPT ![Now.var] = Bounds(Now)[1] + Turns(Now)]

\* A reported invariant is one: "anything the solver cannot discharge is
\* dropped", and what the summary does not model only loses precision.
InferredHold ==
    HeadReached => \A l \in program.inferred :
        l.loop = Source(Now) => \A c \in l.accepted : CandHolds(c, HeadValues)
=============================================================================
