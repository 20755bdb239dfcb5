------------------------------- MODULE Proof -------------------------------
(***************************************************************************)
(* The interval engine of the compiler (hlinterp/proof.py): it walks the   *)
(* body of a function with facts seeded from the requires clause and marks *)
(* the operations whose run-time check it believes dead.  Release builds   *)
(* leave those checks out.                                                 *)
(*                                                                         *)
(* Facts: an interval for each variable, the set of variables known not to *)
(* be zero, and a least length for each list (0 says nothing).  A bound is *)
(* a number, unknown, or symbolic: at most the length of a list plus delta.*)
(* A variable without a fact is Top.                                       *)
(***************************************************************************)
EXTENDS Flow, FiniteSetsExt

NoBound == <<"none">>
Num(n) == <<"num", n>>
LenBound(xs, delta) == <<"len", xs, delta>>
IsNum(b) == b[1] = "num"
Numeric(b) == IF b[1] = "len" THEN NoBound ELSE b

Top == [lo |-> NoBound, hi |-> NoBound]
Constant(n) == [lo |-> Num(n), hi |-> Num(n)]

Both(a, b, n) == IF IsNum(a) /\ IsNum(b) THEN Num(n) ELSE NoBound

iv_add(a, b) == [lo |-> Both(a.lo, b.lo, a.lo[2] + b.lo[2]), hi |-> Both(a.hi, b.hi, a.hi[2] + b.hi[2])]
iv_sub(a, b) == [lo |-> Both(a.lo, b.hi, a.lo[2] - b.hi[2]), hi |-> Both(a.hi, b.lo, a.hi[2] - b.lo[2])]
iv_neg(a) == [lo |-> Both(a.hi, a.hi, -a.hi[2]), hi |-> Both(a.lo, a.lo, -a.lo[2])]

iv_mul(a, b) ==
    IF \E x \in {a.lo, a.hi, b.lo, b.hi} : ~IsNum(x) THEN Top
    ELSE LET corners == {x[2] * y[2] : x \in {a.lo, a.hi}, y \in {b.lo, b.hi}}
         IN  [lo |-> Num(Min(corners)), hi |-> Num(Max(corners))]

iv_widen(a, b) ==
    [lo |-> Both(a.lo, b.lo, Min({a.lo[2], b.lo[2]})), hi |-> Both(a.hi, b.hi, Max({a.hi[2], b.hi[2]}))]

fits(a) == IsNum(a.lo) /\ IsNum(a.hi) /\ a.lo[2] >= IntMin /\ a.hi[2] <= IntMax

excludes_zero(a) ==
    /\ a.lo[1] # "len" /\ a.hi[1] # "len"
    /\ \/ IsNum(a.hi) /\ a.hi[2] < 0
       \/ IsNum(a.lo) /\ a.lo[2] > 0

----------------------------------------------------------------------------
(* What a requires clause says: a sequence of comparisons, joined by &&.   *)
(* [x, op, k] on a variable; [x, op, len] with op < or <= against a        *)
(* length; [len, op, k] a least length.  The parser's flipped shapes are   *)
(* the same facts.                                                         *)

VarCmp(x, op, k) == [about |-> "var", x |-> x, op |-> op, k |-> k]
VarLen(x, op, xs) == [about |-> "below", x |-> x, op |-> op, of |-> xs]
LenCmp(xs, op, k) == [about |-> "len", of |-> xs, op |-> op, k |-> k]

NoFacts == [iv |-> [x \in Var |-> Top], nz |-> {}, minlen |-> [xs \in List |-> 0]]

RefineLo(a, n) == [a EXCEPT !.lo = IF IsNum(@) THEN Num(Max({@[2], n})) ELSE Num(n)]
RefineHi(a, n) == [a EXCEPT !.hi = IF IsNum(@) THEN Num(Min({@[2], n})) ELSE Num(n)]

BoundVar(a, op, k) ==
    CASE op = ">=" -> RefineLo(a, k) [] op = ">" -> RefineLo(a, k + 1)
      [] op = "<=" -> RefineHi(a, k) [] op = "<" -> RefineHi(a, k - 1)
      [] op = "==" -> RefineHi(RefineLo(a, k), k)
      [] OTHER -> a

OneSided(a) == (IsNum(a.hi) /\ a.hi[2] < 0) \/ (IsNum(a.lo) /\ a.lo[2] > 0)

seed_walk(f, c) ==
    CASE c.about = "var" ->
           [f EXCEPT !.iv[c.x] = BoundVar(@, c.op, c.k),
                     !.nz = IF c.op = "!=" /\ c.k = 0 /\ ~OneSided(f.iv[c.x]) THEN @ \cup {c.x} ELSE @]
      [] c.about = "below" ->
           [f EXCEPT !.iv[c.x].hi = LenBound(c.of, IF c.op = "<" THEN -1 ELSE 0)]
      [] c.about = "len" ->
           LET k == IF c.op = ">" THEN c.k + 1 ELSE c.k IN
           IF c.op \in {">=", ">", "=="} THEN [f EXCEPT !.minlen[c.of] = Max({@, k})] ELSE f

RECURSIVE seed_from_requires(_)
seed_from_requires(clause) ==
    IF clause = <<>> THEN NoFacts
    ELSE seed_walk(seed_from_requires(SubSeq(clause, 1, Len(clause) - 1)), clause[Len(clause)])

\* The states a caller that keeps the contract may start from.
Satisfies(clause, values, lengths) ==
    \A i \in DOMAIN clause :
        LET c == clause[i] IN
        CASE c.about = "var" -> Compare(c.op, values[c.x], c.k)
          [] c.about = "below" -> Compare(c.op, values[c.x], lengths[c.of])
          [] c.about = "len" -> Compare(c.op, lengths[c.of], c.k)

----------------------------------------------------------------------------
(* Verdicts on one operation, and on every operation of an expression: the *)
(* names proven, and all names decided.                                    *)

RECURSIVE expr_interval(_, _)
expr_interval(e, f) ==
    CASE e.k = "int" -> Constant(e.v)
      [] e.k = "ident" -> f.iv[e.name]
      [] e.k = "un" -> iv_neg(expr_interval(e.e, f))
      [] e.k = "bin" ->
           LET l == expr_interval(e.l, f)  r == expr_interval(e.r, f) IN
           (CASE e.op = "+" -> iv_add(l, r) [] e.op = "-" -> iv_sub(l, r)
              [] e.op = "*" -> iv_mul(l, r) [] OTHER -> Top)

check_bin_overflow(e, f) == e.op \in {"+", "-", "*"} /\ fits(expr_interval(e, f))

AtMost(b, n) == IsNum(b) /\ b[2] <= n
AtLeast(b, n) == IsNum(b) /\ b[2] >= n

check_div_safe(e, f) ==
    LET l == expr_interval(e.l, f)
        r == expr_interval(e.r, f)
        canBeMin == l.lo = NoBound \/ AtMost(l.lo, IntMin)
        canBeMinusOne == r.lo = NoBound
            \/ (AtMost(r.lo, -1) /\ (r.hi = NoBound \/ AtLeast(r.hi, -1)))
    IN  /\ e.op \in {"/", "%"}
        /\ excludes_zero(r) \/ (e.r.k = "ident" /\ e.r.name \in f.nz)
        /\ ~(canBeMin /\ canBeMinusOne)

check_index_safe(s, f) ==
    LET i == expr_interval(s.idx, f) IN
    /\ AtLeast(i.lo, 0)
    /\ i.hi = LenBound(s.of, -1) \/ (IsNum(i.hi) /\ i.hi[2] < f.minlen[s.of])

check_slice_safe(s, f) ==
    LET a == expr_interval(s.from, f)  b == expr_interval(s.to, f) IN
    /\ AtLeast(a.lo, 0)
    /\ IsNum(a.hi) /\ IsNum(b.lo) /\ a.hi[2] <= b.lo[2]
    /\ \/ b.hi \in {LenBound(s.of, -1), LenBound(s.of, 0)}
       \/ IsNum(b.hi) /\ b.hi[2] < f.minlen[s.of]

RECURSIVE Ops(_)
Ops(e) ==
    CASE e.k = "bin" -> {e} \cup Ops(e.l) \cup Ops(e.r)
      [] e.k = "cmp" -> Ops(e.l) \cup Ops(e.r)
      [] e.k = "un" -> Ops(e.e)
      [] OTHER -> {}

OpProven(e, f) == check_bin_overflow(e, f) \/ check_div_safe(e, f)

\* Every visit decides anew: the last one counts.
Annotate(proven, exprs, f) ==
    LET ops == UNION {Ops(e) : e \in exprs} IN
    (proven \ {e.at : e \in ops}) \cup {e.at : e \in {o \in ops : OpProven(o, f)}}

propagate_stmt_exprs(s, f, proven) ==
    CASE s.k = "assign" -> Annotate(proven, {s.value}, f)
      [] s.k = "expr" -> Annotate(proven, {s.e}, f)
      [] s.k \in {"if", "while"} -> Annotate(proven, {s.cond}, f)
      [] s.k = "index" -> (Annotate(proven, {s.idx}, f) \ {s.at})
                          \cup (IF check_index_safe(s, f) THEN {s.at} ELSE {})
      [] s.k = "slice" -> (Annotate(proven, {s.from, s.to}, f) \ {s.at})
                          \cup (IF check_slice_safe(s, f) THEN {s.at} ELSE {})
      [] OTHER -> proven

----------------------------------------------------------------------------
(* Statements: facts in, facts out.  st is [f |-> facts, proven |-> names, *)
(* heads |-> the facts the loop hook was given, first visit of a loop].    *)

\* Seeded fault: a shrinking list keeps its least length.
KeepFactsOfOwner(f, xs) == f

drop_facts_for_owner(f, xs) ==
    [f EXCEPT !.minlen[xs] = 0,
              !.iv = [x \in Var |-> IF @[x].hi[1] = "len" /\ @[x].hi[2] = xs
                                    THEN [lo |-> @[x].lo, hi |-> NoBound] ELSE @[x]]]

join_facts(a, b) ==
    [iv |-> [x \in Var |-> iv_widen(a.iv[x], b.iv[x])],
     nz |-> a.nz \cap b.nz,
     minlen |-> [xs \in List |-> Min({a.minlen[xs], b.minlen[xs]})]]

widen_growth(a, b) ==
    [lo |-> IF IsNum(a.lo) /\ IsNum(b.lo) /\ b.lo[2] >= a.lo[2] THEN a.lo ELSE NoBound,
     hi |-> IF IsNum(a.hi) /\ IsNum(b.hi) /\ b.hi[2] <= a.hi[2] THEN a.hi ELSE NoBound]

iv_contains(a, b) ==
    /\ \A bound \in {a.lo, a.hi, b.lo, b.hi} : bound[1] # "len"
    /\ a.lo = NoBound \/ (IsNum(b.lo) /\ a.lo[2] <= b.lo[2])
    /\ a.hi = NoBound \/ (IsNum(b.hi) /\ a.hi[2] >= b.hi[2])

RECURSIVE assigned_int_vars(_)
assigned_int_vars(stmts) ==
    IF stmts = <<>> THEN {}
    ELSE LET s == Head(stmts) IN
         assigned_int_vars(Tail(stmts)) \cup
         (CASE s.k = "assign" -> {s.target}
            [] s.k = "if" -> assigned_int_vars(s.then) \cup assigned_int_vars(s.els)
            [] s.k \in {"while", "for", "each"} -> assigned_int_vars(s.body)
            [] OTHER -> {})

Rounds == 4  \* verification rounds after the widening

RECURSIVE propagate_stmts(_, _)

\* Rounds of the body from the invariant; what escapes it goes to Top.
RECURSIVE Verified(_, _, _)
Verified(body, st, n) ==
    IF n = 0 THEN st
    ELSE LET out == propagate_stmts(body, st)
             grew == {x \in Var : ~iv_contains(st.f.iv[x], out.f.iv[x])}
         IN  IF grew = {} THEN [out EXCEPT !.f = st.f]
             ELSE Verified(body, [out EXCEPT !.f = [st.f EXCEPT
                      !.iv = [x \in Var |-> IF x \in grew THEN Top ELSE @[x]]]], n - 1)

AtHead(st, s) == IF \E h \in st.heads : h.loop = s THEN st
                 ELSE [st EXCEPT !.heads = @ \cup {[loop |-> s, f |-> st.f]}]

PropagateWhile(s, entry) ==
    LET st == AtHead(entry, s)
        w1 == propagate_stmts(s.body, st)
        f1 == join_facts(st.f, w1.f)
        w2 == propagate_stmts(s.body, [w1 EXCEPT !.f = f1])
        f2 == join_facts(f1, w2.f)
        finv == [f2 EXCEPT !.iv = [x \in Var |-> widen_growth(f1.iv[x], @[x])]]
        checked == Verified(s.body, [w2 EXCEPT !.f = finv], Rounds)
        final == propagate_stmts(s.body,
                     [checked EXCEPT !.proven = propagate_stmt_exprs(s, checked.f, @)])
    IN  [final EXCEPT !.f = checked.f]

\* What the body assigns is unknown in it; the rest keeps its entry facts.
PropagateFor(s, entry) ==
    LET st == AtHead(entry, s)
        loopVar == IF s.k = "for" /\ s.from.k = "int" /\ s.to.k = "int"
                   THEN [lo |-> Num(s.from.v), hi |-> Num(Max({s.from.v, s.to.v}) - 1)]
                   ELSE Top
        forgotten == [st.f EXCEPT !.iv = [x \in Var |->
                         IF x = s.var THEN loopVar
                         ELSE IF x \in assigned_int_vars(s.body) THEN Top ELSE @[x]]]
        out == propagate_stmts(s.body, [st EXCEPT !.f = forgotten])
    IN  [out EXCEPT !.f = [join_facts(st.f, out.f) EXCEPT !.iv[s.var] = Top]]

PropagateIf(s, st) ==
    LET then == propagate_stmts(s.then, st)
        els == propagate_stmts(s.els, [then EXCEPT !.f = st.f])
    IN  [els EXCEPT !.f = join_facts(then.f, els.f)]

PropagateOne(s, st) ==
    LET read == [st EXCEPT !.proven = propagate_stmt_exprs(s, st.f, @)] IN
    CASE s.k = "assign" ->
           [read EXCEPT !.f.nz = @ \ {s.target},
                        !.f.iv[s.target] = expr_interval(s.value, st.f)]
      [] s.k \in {"resize", "rebind"} -> [read EXCEPT !.f = drop_facts_for_owner(@, s.of)]
      [] s.k = "if" -> PropagateIf(s, read)
      [] s.k = "while" -> PropagateWhile(s, st)
      [] s.k \in {"for", "each"} -> PropagateFor(s, st)
      [] OTHER -> read

propagate_stmts(stmts, st) ==
    IF stmts = <<>> THEN st ELSE propagate_stmts(Tail(stmts), PropagateOne(Head(stmts), st))

\* run_proof_pass: nothing is annotated without a requires clause.
Analysed(p) ==
    propagate_stmts(p.body, [f |-> seed_from_requires(p.requires), proven |-> {}, heads |-> {}])
Proven(p) == IF p.requires = <<>> THEN {} ELSE Analysed(p).proven

----------------------------------------------------------------------------
(* No operation whose check was proven dead panics (SPEC 26, "the elision  *)
(* soundness rule").  A loop that is left by break or continue, or a list  *)
(* popped inside a for loop, makes the engine wrong.                       *)
ElisionSound == fault.k = "panic" => fault.at \notin Proven(program)
=============================================================================
