-------------------------------- MODULE Hlir --------------------------------
(***************************************************************************)
(* The intermediate representation (tools/ir): the builder that lowers a   *)
(* checked program to blocks of instructions, the optimiser's passes in    *)
(* the order they run, and how blocks execute.  What a pass may not change *)
(* is what the function returns, or where it panics.                       *)
(*                                                                         *)
(* A name is <<"v", x>> for the binding x, <<"i", x>> for the counter of a *)
(* for loop over x, <<"t", n>> for a temporary.  An operand is <<"var",    *)
(* name>> or <<"lit", n>>; booleans are 0 and 1.  A label is the index of  *)
(* the block.  An instruction keeps in "what" its operator, callee, method *)
(* or stored binding.                                                      *)
(***************************************************************************)
EXTENDS Flow, SequencesExt

CONSTANTS
    INLINE_MAX_INSTRS,
    Fuel               \* bound: blocks that one run of a module enters

Let(x, e) == [let |-> TRUE] @@ Set(x, e)
IsLet(s) == "let" \in DOMAIN s

Ins(op, what, args, dest, at) == [op |-> op, what |-> what, args |-> args, dest |-> dest, at |-> at, safe |-> FALSE]
Term(op, args, to) == [op |-> op, args |-> args, to |-> to]
Open == Term("none", <<>>, <<>>)
EmptyBlock(kind) == [kind |-> kind, instrs |-> <<>>, term |-> Open]

V(x) == <<"v", x>>
Operand(n) == <<"var", n>>
Literal(n) == <<"lit", n>>
NoSite == "none"

----------------------------------------------------------------------------
(* The builder.  b is what it has built so far: the blocks, the one it     *)
(* adds to, the temporaries made, and the loops it is inside.              *)

Blocks(b, kinds) == [b EXCEPT !.blocks = @ \o [i \in DOMAIN kinds |-> EmptyBlock(kinds[i])]]
At(b, label) == [b EXCEPT !.cur = label]
Ended(b) == b.blocks[b.cur].term # Open
End(b, term) == [b EXCEPT !.blocks[b.cur].term = term]
Jump(label) == Term("jump", <<>>, <<label>>)
Falls(b, label) == IF Ended(b) THEN b ELSE End(b, Jump(label))

Emit(b, ins) == [b EXCEPT !.blocks[b.cur].instrs = Append(@, ins)]
Temp(b, op, what, args, at) ==
    LET t == <<"t", b.tmp + 1>> IN
    [b |-> Emit([b EXCEPT !.tmp = @ + 1], Ins(op, what, args, t, at)), v |-> t]
BranchOn(c, to) == End(c.b, Term("branch", <<Operand(c.v)>>, to))

RECURSIVE lower_expr(_, _)
lower_expr(e, b) ==
    CASE e.k = "int" -> Temp(b, "const", "", <<Literal(e.v)>>, NoSite)
      [] e.k = "ident" -> [b |-> b, v |-> V(e.name)]
      [] e.k = "un" -> LET x == lower_expr(e.e, b) IN Temp(x.b, "unop", "-", <<Operand(x.v)>>, NoSite)
      [] e.k \in {"bin", "cmp"} ->
           LET l == lower_expr(e.l, b)  r == lower_expr(e.r, l.b) IN
           Temp(r.b, "binop", e.op, <<Operand(l.v), Operand(r.v)>>, IF e.k = "bin" THEN e.at ELSE NoSite)

\* The operand x = [b, v] was lowered last.
Bind(s, x) ==
    IF IsLet(s) THEN Emit(x.b, Ins("load", "", <<Operand(x.v)>>, V(s.target), NoSite))
    ELSE Emit(x.b, Ins("store", V(s.target), <<Operand(x.v)>>, V(s.target), NoSite))
CallOf(f, x) == Temp(x.b, "call", f, <<Operand(x.v)>>, NoSite)
Got(s, x) == Temp(x.b, "list_get", "", <<Operand(V(s.of)), Operand(x.v)>>, s.at)
Returned(x) == End(x.b, Term("return", <<Operand(x.v)>>, <<>>))

\* A list literal of n elements.
ListLiteral(n, b) ==
    LET elems == FoldLeft(LAMBDA s, i : LET c == Temp(s.b, "const", "", <<Literal(0)>>, NoSite)
                                        IN  [b |-> c.b, args |-> Append(s.args, Operand(c.v))],
                          [b |-> b, args |-> <<>>], [i \in 1..n |-> i])
    IN  Temp(elems.b, "list_new", "", elems.args, NoSite)

RECURSIVE lower_body(_, _)

\* The blocks of an if are then, else and endif, from t on.
IfFrom(s, c, t) ==
    LET split == [c EXCEPT !.b = Blocks(c.b, <<"then", "else", "endif">>)]
        then == Falls(lower_body(s.then, At(BranchOn(split, <<t, t + 1>>), t)), t + 2)
    IN  At(Falls(lower_body(s.els, At(then, t + 1)), t + 2), t + 2)
LowerIf(s, b) ==
    LET From(c) == IfFrom(s, c, Len(c.b.blocks) + 1) IN From(lower_expr(s.cond, b))

InLoop(b, again, out) == [b EXCEPT !.loops = <<<<again, out>>>> \o @]
OutOfLoop(b) == [b EXCEPT !.loops = Tail(@)]

\* The blocks of a while loop are cond, body and end, from h on.
WhileFrom(s, b, h) ==
    LET head == At(End(Blocks(b, <<"while_cond", "while_body", "while_end">>), Jump(h)), h)
        enter == At(BranchOn(lower_expr(s.cond, head), <<h + 1, h + 2>>), h + 1)
    IN  At(OutOfLoop(Falls(lower_body(s.body, InLoop(enter, h, h + 2)), h)), h + 2)
LowerWhile(s, b) == WhileFrom(s, b, Len(b.blocks) + 1)

\* Seeded fault: continue goes to the condition, and skips the count.
ContinuesAtCond(h) == h

\* The blocks of a for loop are cond, body, inc and end, from h on.
ContinuesAt(h) == h + 2

\* The range is a list, its length is read again at each turn.
ForFrom(s, b, list, h) ==
    LET i == <<"i", s.var>>
        start == Emit(b, Ins("const", "", <<Literal(0)>>, i, NoSite))
        head == At(End(Blocks(start, <<"for_cond", "for_body", "for_inc", "for_end">>), Jump(h)), h)
        More(len) == Temp(len.b, "binop", "<", <<Operand(i), Operand(len.v)>>, NoSite)
        enter == At(BranchOn(More(Temp(head, "list_len", "", <<Operand(list)>>, NoSite)), <<h + 1, h + 3>>), h + 1)
        get == Emit(enter, Ins("list_get", "", <<Operand(list), Operand(i)>>, V(s.var), NoSite))
        body == At(Falls(lower_body(s.body, InLoop(get, ContinuesAt(h), h + 3)), h + 2), h + 2)
        Store(next) == Emit(next.b, Ins("store", i, <<Operand(next.v)>>, i, NoSite))
    IN  At(OutOfLoop(End(Store(Temp(body, "binop", "+", <<Operand(i), Literal(1)>>, "count")), Jump(h))), h + 3)
LowerFor(s, b) ==
    LET Over(list) == ForFrom(s, list.b, list.v, Len(list.b.blocks) + 1)
        Listed(from, to) == Temp(to.b, "call", "range", <<Operand(from.v), Operand(to.v)>>, NoSite)
        Upto(from) == Listed(from, lower_expr(s.to, from.b))
    IN  Over(Upto(lower_expr(s.from, b)))

\* What follows a terminator is not lowered.
lower_stmt(s, b) ==
    CASE Ended(b) -> b
      [] ~Ended(b) /\ s.k = "assign" -> Bind(s, lower_expr(s.value, b))
      [] ~Ended(b) /\ s.k = "rebind" -> Bind([target |-> s.of], ListLiteral(s.len, b))
      [] ~Ended(b) /\ s.k = "call" ->
           Bind([target |-> s.into] @@ s, CallOf(s.fn, lower_expr(s.arg, b)))
      [] ~Ended(b) /\ s.k = "expr" -> lower_expr(s.e, b).b
      [] ~Ended(b) /\ s.k = "index" -> Got(s, lower_expr(s.idx, b)).b
      [] ~Ended(b) /\ s.k = "resize" -> Temp(b, "method", s.by, <<Operand(V(s.of))>>, NoSite).b
      [] ~Ended(b) /\ s.k = "if" -> LowerIf(s, b)
      [] ~Ended(b) /\ s.k = "while" -> LowerWhile(s, b)
      [] ~Ended(b) /\ s.k = "for" -> LowerFor(s, b)
      [] ~Ended(b) /\ s.k = "break" -> End(b, Jump(b.loops[1][2]))
      [] ~Ended(b) /\ s.k = "continue" -> End(b, Jump(b.loops[1][1]))
      [] ~Ended(b) /\ s.k = "return" -> Returned(lower_expr(s.value, b))

lower_body(stmts, b) == FoldLeft(LAMBDA done, s : lower_stmt(s, done), b, stmts)

build_fn(params, body) ==
    LET Complete(built) == (IF Ended(built) THEN built ELSE End(built, Term("panic", <<>>, <<>>))).blocks
        entry == [blocks |-> <<EmptyBlock("entry")>>, cur |-> 1, tmp |-> 0, loops |-> <<>>]
    IN  [params |-> params, blocks |-> Complete(lower_body(body, entry))]

\* The module: the functions of the program, and "main" for its body.
build_module(p) ==
    [f \in DOMAIN p.fns |-> build_fn(<<V(p.fns[f].param)>>, p.fns[f].body)] @@ ("main" :> build_fn(<<>>, p.body))

----------------------------------------------------------------------------
(* Constant folding, block by block.  "known" maps names to constants.     *)

FoldsTo(op, a, b) ==
    IF op \in {"<", "<=", ">", ">=", "==", "!="} THEN {IF Compare(op, a, b) THEN 1 ELSE 0}
    ELSE IF FaultOfOp(op, a, b, NoSite) = NoFault THEN {Arith(op, a, b)} ELSE {}

Resolve(arg, known) ==
    IF arg[1] = "lit" THEN {arg[2]} ELSE IF arg[2] \in DOMAIN known THEN {known[arg[2]]} ELSE {}

Forget(known, n) == [m \in DOMAIN known \ {n} |-> known[m]]
Learn(known, n, values) == IF values = {} THEN known ELSE (n :> CHOOSE v \in values : TRUE) @@ known

ValuesOf(ins, known) ==
    LET args == [i \in DOMAIN ins.args |-> Resolve(ins.args[i], known)] IN
    CASE ins.op = "binop" -> UNION {FoldsTo(ins.what, a, c) : a \in args[1], c \in args[2]}
      [] ins.op = "unop" -> {-a : a \in args[1] \ {IntMin}}
      [] OTHER -> {}

ConstOf(ins, value) == [ins EXCEPT !.op = "const", !.what = "", !.args = <<Literal(value)>>]

FoldIns(s, ins) ==
    LET known == s.known  values == ValuesOf(ins, known)  out == Append(s.out, ins) IN
    CASE ins.op = "const" -> [known |-> Learn(known, ins.dest, {ins.args[1][2]}), out |-> out]
      [] ins.op = "load" -> [known |-> Learn(known, ins.dest, Resolve(ins.args[1], known)), out |-> out]
      [] ins.op = "store" -> [known |-> Learn(Forget(known, ins.what), ins.what, Resolve(ins.args[1], known)),
                              out |-> out]
      [] values # {} -> [known |-> Learn(known, ins.dest, values),
                         out |-> Append(s.out, ConstOf(ins, CHOOSE v \in values : TRUE))]
      [] OTHER -> [known |-> known, out |-> out]

EveryBlock(irf, Pass(_)) ==
    LET Next(done, blk) == Append(done, Pass(blk)) IN [irf EXCEPT !.blocks = FoldLeft(Next, <<>>, @)]

NoNames == [n \in {} |-> 0]
FoldBlock(blk) == [blk EXCEPT !.instrs = FoldLeft(FoldIns, [known |-> NoNames, out |-> <<>>], @).out]
constant_fold(irf) == EveryBlock(irf, FoldBlock)

----------------------------------------------------------------------------
(* Copy propagation: a binding loaded from a temporary is read as the      *)
(* temporary until the binding is assigned.                                *)

Rewritten(args, canon) ==
    [i \in DOMAIN args |-> IF args[i][1] = "var" /\ args[i][2] \in DOMAIN canon THEN Operand(canon[args[i][2]])
                           ELSE args[i]]

CopyIns(s, ins) ==
    LET new == [ins EXCEPT !.args = Rewritten(@, s.canon)]
        copies == new.op = "load" /\ new.args[1][1] = "var" /\ new.args[1][2][1] = "t"
    IN  [canon |-> CASE new.op = "store" -> Forget(s.canon, new.what)
                     [] copies -> (new.dest :> new.args[1][2]) @@ s.canon
                     [] OTHER -> s.canon,
         out |-> Append(s.out, new)]

CopyBlock(blk) ==
    LET done == FoldLeft(CopyIns, [canon |-> NoNames, out |-> <<>>], blk.instrs)
    IN  [blk EXCEPT !.instrs = done.out, !.term.args = Rewritten(@, done.canon)]
copy_propagate(irf) == EveryBlock(irf, CopyBlock)

----------------------------------------------------------------------------
(* Dead code: an instruction without effect whose name nobody reads, in    *)
(* the whole function.                                                     *)

NamesIn(args) == {args[i][2] : i \in {j \in DOMAIN args : args[j][1] = "var"}}
ReadBy(blk) == UNION {NamesIn(blk.instrs[i].args) : i \in DOMAIN blk.instrs} \cup NamesIn(blk.term.args)
Used(irf) == UNION {ReadBy(irf.blocks[i]) : i \in DOMAIN irf.blocks}

has_side_effects(ins) == ins.op \notin {"const", "load", "list_new", "list_len"}

dead_code_elim(irf) ==
    LET Live(ins) == has_side_effects(ins) \/ ins.dest \in Used(irf)
        Clean(blk) == [blk EXCEPT !.instrs = SelectSeq(@, Live)]
    IN  EveryBlock(irf, Clean)

----------------------------------------------------------------------------
(* Inlining of functions of one block that assign nothing.                 *)

inlinable(mod, f) ==
    /\ Len(mod[f].blocks) = 1
    /\ Len(mod[f].blocks[1].instrs) <= INLINE_MAX_INSTRS
    /\ \A i \in DOMAIN mod[f].blocks[1].instrs :
          LET ins == mod[f].blocks[1].instrs[i] IN ins.op # "store" /\ ~(ins.op = "call" /\ ins.what = f)
    /\ mod[f].blocks[1].term.op = "return"

Temps(irf) == {n[2] : n \in {m \in UNION {{irf.blocks[i].instrs[j].dest : j \in DOMAIN irf.blocks[i].instrs}
                                          : i \in DOMAIN irf.blocks} : m[1] = "t"}}

\* The body with its names made new, and the result copied to the call's name.
Renamed(arg, names) == IF arg[1] = "var" /\ arg[2] \in DOMAIN names THEN names[arg[2]] ELSE arg

Pasted(call, callee, s) ==
    LET body == callee.blocks[1]
        One(t, ins) ==
            LET new == <<"t", t.tmp + 1>> IN
            [tmp |-> t.tmp + 1,
             names |-> (ins.dest :> Operand(new)) @@ t.names,
             out |-> Append(t.out, [ins EXCEPT !.dest = new,
                                               !.args = [i \in DOMAIN @ |-> Renamed(@[i], t.names)]])]
        done == FoldLeft(One, [tmp |-> s.tmp, out |-> s.out,
                               names |-> [n \in {callee.params[1]} |-> call.args[1]]], body.instrs)
        result == Renamed(body.term.args[1], done.names)
    IN  [tmp |-> done.tmp,
         out |-> Append(done.out, [call EXCEPT !.op = IF result[1] = "var" THEN "load" ELSE "const",
                                               !.what = "", !.args = <<result>>])]

InlineInto(mod, targets, f) ==
    LET One(s, ins) == IF ins.op = "call" /\ ins.what \in targets THEN Pasted(ins, mod[ins.what], s)
                       ELSE [s EXCEPT !.out = Append(@, ins)]
        Block(s, blk) ==
            LET done == FoldLeft(One, [tmp |-> s.tmp, out |-> <<>>], blk.instrs)
            IN  [tmp |-> done.tmp, blocks |-> Append(s.blocks, [blk EXCEPT !.instrs = done.out])]
        start == [tmp |-> Max(Temps(mod[f]) \cup {0}), blocks |-> <<>>]
    IN  [mod EXCEPT ![f].blocks = FoldLeft(Block, start, @).blocks]

inline_small(mod) ==
    LET targets == {f \in DOMAIN mod : inlinable(mod, f)}
        Into(f, m) == InlineInto(m, targets, f)
    IN  FoldSet(Into, mod, DOMAIN mod)

----------------------------------------------------------------------------
(* Loop-invariant code motion.  A back edge goes to a header that          *)
(* dominates its source; the natural loop is what reaches a back edge      *)
(* without passing the header; what is hoisted goes to the only block      *)
(* outside that enters the header.                                         *)

Targets(blk) == IF blk.term.op \in {"jump", "branch"} THEN ToSet(blk.term.to) ELSE {}
Preds(irf, n) == {m \in DOMAIN irf.blocks : n \in Targets(irf.blocks[m])}

RECURSIVE Forwards(_, _, _), Backwards(_, _, _)
Forwards(irf, found, avoiding) ==
    LET more == (UNION {Targets(irf.blocks[n]) : n \in found}) \ (found \cup avoiding)
    IN  IF more = {} THEN found ELSE Forwards(irf, found \cup more, avoiding)
Backwards(irf, found, header) ==
    LET more == (UNION {Preds(irf, n) : n \in found \ {header}}) \ found
    IN  IF more = {} THEN found ELSE Backwards(irf, found \cup more, header)

\* A block that is never reached is dominated by all.
Dominates(irf, h, n) == h = 1 \/ n \notin Forwards(irf, {1}, {h})

BackEdges(irf, h) == {n \in Preds(irf, h) : Dominates(irf, h, n)}
LoopBlocks(irf, h) == Backwards(irf, {h} \cup BackEdges(irf, h), h)
DefinedIn(irf, names) == UNION {{irf.blocks[n].instrs[j].dest : j \in DOMAIN irf.blocks[n].instrs} : n \in names}

\* Seeded fault: operands that the loop assigns may be hoisted too.
is_hoistable_always(ins, defined) == ins.op \in {"const", "load"}

is_hoistable(ins, defined) == ins.op \in {"const", "load"} /\ NamesIn(ins.args) \cap defined = {}

HoistFrom(irf, h) ==
    LET back == BackEdges(irf, h)
        outside == Preds(irf, h) \ LoopBlocks(irf, h)
        defined == DefinedIn(irf, LoopBlocks(irf, h))
        body == Max(back)
        Stays(ins) == ~is_hoistable(ins, defined)
        Moves(ins) == is_hoistable(ins, defined)
    IN  IF back = {} \/ Cardinality(outside) # 1 THEN irf
        ELSE LET pre == CHOOSE n \in outside : TRUE
                 hoisted == SelectSeq(irf.blocks[body].instrs, Moves)
             IN  [irf EXCEPT !.blocks[body].instrs = SelectSeq(@, Stays), !.blocks[pre].instrs = @ \o hoisted]

licm(irf) ==
    LET Header(n) == irf.blocks[n].kind \in {"while_cond", "for_cond"}
    IN  FoldLeft(HoistFrom, irf, SelectSeq([n \in DOMAIN irf.blocks |-> n], Header))

----------------------------------------------------------------------------
(* The pipeline.  The release build marks what it believes cannot overflow.*)

AddsNothing(ins) ==
    /\ ins.op = "binop"
    /\ \/ ins.what \in {"+", "*"} /\ \E i \in 1..2 : ins.args[i] = Literal(0)
       \/ ins.what = "-" /\ ins.args[2] = Literal(0)
       \/ ins.what = "*" /\ \E i \in 1..2 : ins.args[i] = Literal(1)

annotate_safe(irf) ==
    LET Mark(done, ins) == Append(done, [ins EXCEPT !.safe = AddsNothing(ins)])
        Marked(blk) == [blk EXCEPT !.instrs = FoldLeft(Mark, <<>>, @)]
    IN  EveryBlock(irf, Marked)

EveryFn(mod, Pass(_)) ==
    LET Next(f, m) == [m EXCEPT ![f] = Pass(@)] IN FoldSet(Next, mod, DOMAIN mod)

Clean(irf) == dead_code_elim(copy_propagate(constant_fold(irf)))
Late(irf) == annotate_safe(dead_code_elim(licm(Clean(irf))))

optimize(mod) == EveryFn(inline_small(EveryFn(mod, Clean)), Late)

----------------------------------------------------------------------------
(* How a module runs: what "main" returns, or where it panics.  A value is *)
(* a number, or the list that a name stands for; a list is known by its    *)
(* length and, when it is a range, by where it starts.                     *)

Returns(v) == [k |-> "returns", v |-> v]
Panics(at) == [k |-> "panic", at |-> at]
RunsOn == [k |-> "runs on"]
Undefined(n) == [k |-> "undefined", name |-> n]

Read(m, arg) == IF arg[1] = "lit" THEN arg[2] ELSE m.env[arg[2]]
Write(m, n, v) == [m EXCEPT !.env = (n :> v) @@ @]
NewList(m, n, len, first) ==
    LET new == <<"list", Cardinality(DOMAIN m.lists)>> IN
    [m EXCEPT !.lists = (new :> [len |-> len, first |-> first]) @@ @, !.env = (n :> new) @@ @]

RECURSIVE RunFrom(_, _, _, _, _)

\* One instruction of a run that goes on.
Execute(mod, m, ins, fuel) ==
    LET a == [i \in DOMAIN ins.args |-> Read(m, ins.args[i])]
    IN  CASE ins.op \in {"const", "load", "store"} -> Write(m, ins.dest, a[1])
          [] ins.op = "unop" -> IF a[1] = IntMin THEN [m EXCEPT !.out = Panics("negate")] ELSE Write(m, ins.dest, -a[1])
          [] ins.op = "binop" /\ ins.at = NoSite -> Write(m, ins.dest, IF Compare(ins.what, a[1], a[2]) THEN 1 ELSE 0)
          [] ins.op = "binop" /\ ins.at # NoSite ->
               IF FaultOfOp(ins.what, a[1], a[2], ins.at) = NoFault THEN Write(m, ins.dest, Arith(ins.what, a[1], a[2]))
               ELSE [m EXCEPT !.out = Panics(ins.at)]
          [] ins.op = "list_new" -> NewList(m, ins.dest, Len(ins.args), 0)
          [] ins.op = "list_len" -> Write(m, ins.dest, m.lists[a[1]].len)
          [] ins.op = "list_get" ->
               IF a[2] \in 0..(m.lists[a[1]].len - 1) THEN Write(m, ins.dest, m.lists[a[1]].first + a[2])
               ELSE [m EXCEPT !.out = Panics(ins.at)]
          [] ins.op = "method" ->
               IF m.lists[a[1]].len + ins.what < 0 THEN [m EXCEPT !.out = Panics("pop")]
               ELSE [m EXCEPT !.lists[a[1]].len = @ + ins.what]
          [] ins.op = "call" /\ ins.what = "range" -> NewList(m, ins.dest, Max({a[2] - a[1], 0}), a[1])
          [] ins.op = "call" /\ ins.what # "range" ->
               LET r == RunFrom(mod, ins.what, 1, [m EXCEPT !.env = mod[ins.what].params[1] :> a[1]], fuel) IN
               IF r.out.k = "returns" THEN [r EXCEPT !.env = (ins.dest :> r.out.v) @@ m.env, !.out = RunsOn] ELSE r

Reads(m, args, Then(_)) ==
    LET missing == NamesIn(args) \ DOMAIN m.env IN
    IF m.out # RunsOn THEN m
    ELSE IF missing # {} THEN [m EXCEPT !.out = Undefined(CHOOSE n \in missing : TRUE)]
    ELSE Then(m)

\* From block n of f on, for at most fuel blocks.
RunFrom(mod, f, n, m, fuel) ==
    LET blk == mod[f].blocks[n]
        One(s, ins) == LET Do(t) == Execute(mod, t, ins, fuel) IN Reads(s, ins.args, Do)
        done == FoldLeft(One, m, blk.instrs)
        Leave(s) ==
            CASE blk.term.op = "return" -> [s EXCEPT !.out = Returns(Read(s, blk.term.args[1]))]
              [] blk.term.op = "panic" -> [s EXCEPT !.out = Panics("missing return")]
              [] blk.term.op \in {"jump", "branch"} ->
                   LET next == IF blk.term.op = "jump" \/ Read(s, blk.term.args[1]) = 1 THEN 1 ELSE 2 IN
                   IF fuel = 0 THEN s ELSE RunFrom(mod, f, blk.term.to[next], s, fuel - 1)
    IN  Reads(done, blk.term.args, Leave)

Outcome(mod, values, lengths) ==
    LET scalars == [n \in {V(x) : x \in DOMAIN values} |-> values[n[2]]]
        lists == {V(xs) : xs \in DOMAIN lengths}
    IN  RunFrom(mod, "main", 1, [env |-> scalars @@ [n \in lists |-> n], out |-> RunsOn,
                                 lists |-> [n \in lists |-> [len |-> lengths[n[2]], first |-> 0]]], Fuel).out

----------------------------------------------------------------------------
(* What the source does is what its blocks do, before and after the        *)
(* optimiser ran (optimize.py: "the goal is correctness and                *)
(* predictability").  p.lowered and p.optimised are the outcomes for the   *)
(* start of this run.                                                      *)
OptimisedRunsAlike ==
    "lowered" \in DOMAIN program =>
        LET Same(out) == program.lowered = out /\ program.optimised = out IN
        /\ Doing("return") /\ Frames = {} /\ Faulty(Now.value) = NoFault => Same(Returns(Value(Now.value)))
        /\ fault.k = "panic" => Same(Panics(fault.at))
=============================================================================
