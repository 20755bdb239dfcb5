----------------------------- MODULE ConstTime -----------------------------
(***************************************************************************)
(* The verifier of #[ct] claims (hlinterp/proof.py, _SCWalker to           *)
(* analyze_consttime): a flow-sensitive pass over every function marks the *)
(* names that derive from the claim's secret parameters, and finds the     *)
(* branches, addresses, loop bounds and divisions they decide.             *)
(*                                                                         *)
(* The claim is about "main", whose secrets the program lists; the other   *)
(* functions have one parameter each.  A walk carries the marked names,    *)
(* and what it has found: sinks, calls with a marked argument, returns.    *)
(***************************************************************************)
EXTENDS Flow, Relation

Marked(e, st) == Names(e) \cap st.env # {}

RECURSIVE Divides(_, _)
Divides(e, st) ==
    CASE e.k = "bin" -> (e.op \in {"/", "%"} /\ Marked(e, st)) \/ Divides(e.l, st) \/ Divides(e.r, st)
      [] e.k = "cmp" -> Divides(e.l, st) \/ Divides(e.r, st)
      [] e.k = "un" -> Divides(e.e, st)
      [] OTHER -> FALSE

Sink(st, found) == [st EXCEPT !.leaks = @ \/ found]
flag_expr(e, st) == Sink(st, Divides(e, st))
Becomes(x, marked, st) == [st EXCEPT !.env = IF marked THEN @ \cup {x} ELSE @ \ {x}]

RECURSIVE walk_stmts(_, _)
WalkOne(s, st) ==
    CASE s.k = "assign" -> Becomes(s.target, Marked(s.value, st), flag_expr(s.value, st))
      [] s.k = "call" ->
           LET marked == Marked(s.arg, st)
               flagged == flag_expr(s.arg, st)
           IN  Becomes(s.into, marked \/ s.fn \in st.rets,
                   [flagged EXCEPT !.flows = IF marked THEN @ \cup {s.fn} ELSE @])
      [] s.k = "expr" -> flag_expr(s.e, st)
      [] s.k = "index" -> Sink(flag_expr(s.idx, st), Marked(s.idx, st))
      [] s.k = "slice" -> Sink(flag_expr(s.to, flag_expr(s.from, st)), Marked(s.from, st) \/ Marked(s.to, st))
      [] s.k = "return" -> [flag_expr(s.value, st) EXCEPT !.ret = @ \/ Marked(s.value, st)]
      [] s.k = "rebind" -> Becomes(s.of, FALSE, st)
      [] s.k = "if" ->
           LET entry == Sink(flag_expr(s.cond, st), Marked(s.cond, st))
               then == walk_stmts(s.then, entry)
               els == walk_stmts(s.els, [then EXCEPT !.env = entry.env])
           IN  [els EXCEPT !.env = entry.env \cup then.env \cup els.env]
      [] s.k = "while" ->
           walk_stmts(s.body, walk_stmts(s.body, Sink(flag_expr(s.cond, st), Marked(s.cond, st))))
      [] s.k = "for" ->
           LET marked == Marked(s.from, st) \/ Marked(s.to, st)
               entry == Sink(flag_expr(s.to, flag_expr(s.from, st)), marked)
           IN  walk_stmts(s.body, walk_stmts(s.body, Becomes(s.var, marked, entry)))
      [] s.k = "each" ->
           walk_stmts(s.body, walk_stmts(s.body, Becomes(s.var, s.of \in st.env, st)))
      [] OTHER -> st

walk_stmts(stmts, st) == IF stmts = <<>> THEN st ELSE walk_stmts(Tail(stmts), WalkOne(Head(stmts), st))

----------------------------------------------------------------------------
(* The fixpoint over the functions: which parameters are marked, which     *)
(* results are; it starts from the secrets of the claim only.              *)

Callees(p) == DOMAIN p.fns

Walk(p, f, known) ==
    walk_stmts(IF f = "main" THEN p.body ELSE p.fns[f].body,
        [env |-> IF f = "main" THEN p.secrets
                 ELSE IF f \in known.params THEN {p.fns[f].param} ELSE {},
         rets |-> known.rets, leaks |-> FALSE, flows |-> {}, ret |-> FALSE])

sc_round(p, known) ==
    LET walked == [f \in Callees(p) \cup {"main"} |-> Walk(p, f, known)] IN
    [params |-> known.params \cup UNION {walked[f].flows : f \in DOMAIN walked},
     rets |-> known.rets \cup {f \in DOMAIN walked : walked[f].ret},
     leaky |-> {f \in DOMAIN walked : walked[f].leaks},
     edges |-> UNION {{<<f, g>> : g \in walked[f].flows} : f \in DOMAIN walked}]

RECURSIVE Fixpoint(_, _)
Fixpoint(p, known) ==
    LET next == sc_round(p, known) IN
    IF next.params = known.params /\ next.rets = known.rets THEN next ELSE Fixpoint(p, next)

\* Seeded fault: only what the claimed function calls itself is charged.
DirectChain(edges, fns, f) == f = "main" \/ <<"main", f>> \in edges

\* A finding is charged to the claim if calls with marked arguments lead to it.
ct_chain(edges, fns, f) ==
    f = "main" \/ TransitiveClosure([g, h \in fns |-> <<g, h>> \in edges], fns)["main", f]

analyze_consttime(p) ==
    LET fix == Fixpoint(p, [params |-> {}, rets |-> {}])
        fns == Callees(p) \cup {"main"}
    IN  ~\E f \in fix.leaky : ct_chain(fix.edges, fns, f)

\* A verified claim is kept: "no secret-derived branch, address, loop bound
\* or division anywhere the secrets reach" (tools/hlprove.py:86-88).
ClaimsHold == fault.k = "leak" => ~program.verified
=============================================================================
