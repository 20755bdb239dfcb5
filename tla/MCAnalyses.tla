----------------------------- MODULE MCAnalyses -----------------------------
(***************************************************************************)
(* The analyses of the compiler against runs of small programs.  TLC picks *)
(* a family, a program of it and a start that keeps the program's contract *)
(* (or differs in its secrets), and runs the program; each analysis gives  *)
(* its verdict once, at the start.  Two more families run call graphs, and *)
(* built-in functions one call after another.  The last families of each   *)
(* kind are shapes the analyses get wrong.                                 *)
(***************************************************************************)
EXTENDS Invariants, ConstTime, Moves, Reverify

CONSTANT Family

VARIABLES
    code, chain, base, root, mode, did,    \* Effects
    sockets, opened, children, last        \* Builtins

\* Arguments a program may well pass: text that names something, numbers the
\* host can hold, ports that exist.
Ordinary(b, a) ==
    /\ \A i \in DOMAIN a : a[i] \notin {[str |-> "nul"], [str |-> "odd"], [float |-> "inf"], [float |-> "-inf"],
                                        [int |-> -8], [int |-> 7]}
    /\ b = "net_tcp_listen" => a[2].int \in 0..2
    /\ b = "env_set" => a[1].str # ""

T == INSTANCE Builtins WITH Width <- 4, ByteMax <- 2, PortMax <- 2, RangeMax <- 2, MaxHandles <- 2, MaxChildren <- 1, Passes <- Ordinary,
        IntArg <- {-8, -1, 0, 1, 2, 3, 7}, StrArg <- {"", "text", "nul", "odd"},
        FloatArg <- {"-inf", "-big", "-1", "-0", "0", "1", "big", "inf", "nan"}

\* A sleep takes time and gives up the processor: it needs both effects.
NeedsOf(b) ==
    IF b = "thread_sleep_ms" THEN {{"Clock"}, {"Conc"}}
    ELSE IF T!Reaches(b) = "nothing" THEN {} ELSE {T!Licenses[T!Reaches(b)]}

G == INSTANCE Effects WITH BUILTIN_EFFECTS <- T!BUILTIN_EFFECTS, ALLOC_BUILTINS <- T!ALLOC_BUILTINS,
        ALLOC_METHOD_OPS <- T!ALLOC_METHOD_OPS, NoEdge <- T!NoEdge, Needs <- NeedsOf

ASSUME T!BuiltinsAssumption

graphVars == <<code, chain, base, root, mode, did>>
callVars == <<sockets, opened, children, last>>

Unjudged == [requires |-> <<>>, inferred |-> {}, verified |-> FALSE, accepted |-> FALSE,
             fns |-> <<>>, secrets |-> {}]
Code(body) == [body |-> body]
Zero == [x \in Var |-> 0]
Start(p, values, lengths) == Starts(p @@ Unjudged, values @@ Zero, lengths, (p @@ Unjudged).secrets)

Maybe(b) == If(Unknown, b, <<>>)
Plus(x, n, at) == Set(x, Bin("+", Ref(x), Lit(n), at))
Minus(x, n, at) == Set(x, Bin("-", Ref(x), Lit(n), at))

----------------------------------------------------------------------------
(* Check elision: two steps, straight, in an arm or in a loop, between     *)
(* operations whose checks the contract may make dead.                     *)

Probe == <<Index("xs", Ref("x"), "i"), Slice("xs", Lit(0), Ref("x"), "s"), Eval(Bin("/", Ref("x"), Ref("y"), "d"))>>
YOne == Set("y", Lit(1))
Steps == {Plus("x", 1, "a"), Set("y", Lit(0)), Set("y", Ref("x")), Set("x", Bin("-", Ref("x"), Ref("y"), "m")),
          Resize("xs", -1), Rebind("xs", 0)}
TwoSteps == {<<a>> : a \in Steps} \cup {<<a, b>> : a, b \in Steps}
KeepsLists(b) == ~\E i \in DOMAIN b : b[i].k \in {"resize", "rebind"}

ProofClauses == {
    <<VarCmp("y", "!=", 0)>>,
    <<VarCmp("y", ">=", 1), VarCmp("x", ">", -2), VarCmp("x", "<", 2)>>,
    <<VarCmp("x", ">=", 0), VarLen("x", "<", "xs")>>,
    <<VarCmp("x", ">=", 0), VarLen("x", "<=", "xs"), VarCmp("y", ">", 0)>>,
    <<VarCmp("x", "==", 0), LenCmp("xs", ">=", 1), VarCmp("y", ">", 0)>> }

ProofBodies(b) ==
    { b \o Probe,
      Probe \o <<Maybe(b)>> \o Probe,
      <<While(Cmp("<", Ref("x"), Lit(1)), b)>> \o Probe,
      <<While(Unknown, <<If(Unknown, b, <<YOne>>)>> \o Probe)>> \o Probe }
    \cup (IF KeepsLists(b) THEN { <<For("i", Lit(0), Lit(2), Probe \o b)>> \o Probe, <<Each("i", "xs", b)>> \o Probe }
          ELSE {})
EscapingBodies(b) ==
    { <<While(Unknown, <<Maybe(b \o <<Break>>), YOne>>)>> \o Probe,
      <<While(Unknown, <<Maybe(b \o <<Continue>>), YOne>> \o Probe)>>,
      <<For("i", Lit(0), Lit(2), b)>> \o Probe }

----------------------------------------------------------------------------
(* Invariant inference: loops of the shapes the summariser follows.        *)

InferClauses == {
    <<VarCmp("n", ">=", 0), VarCmp("x", "==", 0), VarCmp("y", ">=", 0)>>,
    <<VarCmp("x", "==", 1), VarCmp("y", "<=", 1), VarCmp("y", ">=", -1), VarCmp("n", "<=", 2)>>,
    <<VarCmp("x", ">=", 0), VarCmp("x", "<=", 2), VarCmp("y", "==", 0)>> }

IncX == Plus("x", 1, "a")
Conds == {Cmp("<", Ref("x"), Ref("n")), Cmp("<=", Ref("x"), Ref("n")), Cmp(">", Ref("x"), Lit(0)),
          Cmp(">=", Lit(1), Ref("x")), Unknown}
LoopBodies == {
    <<IncX>>, <<Plus("x", 2, "a")>>, <<Minus("x", 1, "b")>>,
    <<Set("y", Bin("+", Ref("y"), Ref("x"), "c")), IncX>>,
    <<IncX, Set("y", Ref("x"))>>, <<Set("y", Ref("x")), Plus("x", 2, "a")>>,
    <<IncX, Set("y", Bin("-", Ref("n"), Ref("x"), "d"))>>,
    <<If(Unknown, <<IncX>>, <<Plus("x", 2, "a")>>)>>,
    <<If(Unknown, <<Set("y", Lit(0))>>, <<Plus("y", 1, "a")>>), IncX>>,
    <<If(Cmp(">", Ref("x"), Lit(1)), <<Minus("y", 1, "b")>>, <<>>), IncX>>,
    <<Set("y", Bin("*", Ref("y"), Lit(2), "e")), IncX>>,
    <<Minus("x", 2, "b"), IncX>>,
    <<Maybe(<<Break>>), IncX>> }
Loops == {While(c, b) : c \in Conds, b \in LoopBodies}
         \cup {For("i", Lit(0), Ref("n"), <<Set("y", Ref("i")), IncX>>),
               For("i", Ref("x"), Lit(2), <<Set("y", Bin("+", Ref("y"), Ref("i"), "f"))>>)}

NestedLoops == {
    While(Unknown, <<IncX, While(Unknown, <<Minus("x", 2, "b")>>)>>),
    While(Unknown, <<IncX, Maybe(<<Minus("x", 1, "b"), Minus("y", 1, "b")>>)>>),
    While(Cmp("<", Ref("x"), Ref("n")), <<IncX, Minus("n", 1, "b")>>),
    While(Unknown, <<While(Unknown, <<IncX>>), Set("x", Lit(-2))>>) }

Inferred(clause, loop) ==
    LET p == [requires |-> clause, body |-> <<loop>>]
    IN  [inferred |-> infer_loops(p)] @@ p

----------------------------------------------------------------------------
(* Constant time: marks that move and are cleared, and what they decide.   *)

Fns == [same |-> [param |-> "u", body |-> <<Return(Bin("+", Ref("u"), Lit(0), "r"))>>],
        sign |-> [param |-> "v", body |-> <<If(Cmp(">", Ref("v"), Lit(0)), <<Return(Lit(1))>>, <<>>)>>],
        deep |-> [param |-> "w", body |-> <<Call("w", "sign", Ref("w")), Return(Lit(0))>>]]

Marking == {Set("a", Ref("s")), Set("a", Lit(0)), Set("b", Ref("a")), Set("a", Ref("p")),
            Call("a", "same", Ref("s")), Call("b", "same", Ref("a")), Call("b", "sign", Ref("a")),
            Call("b", "deep", Ref("b")), If(Unknown, <<Set("a", Ref("s"))>>, <<Set("b", Lit(1))>>)}
Deciding == {If(Cmp(">", Ref("a"), Lit(0)), <<>>, <<>>), Index("xs", Ref("b"), "i"),
             Eval(Bin("/", Ref("p"), Ref("a"), "d")), For("i", Lit(0), Ref("b"), <<>>),
             While(Cmp(">", Ref("b"), Lit(0)), <<Minus("b", 1, "m")>>)}
Growing == {Set("a", Ref("s")), Set("b", Ref("a")), Call("b", "same", Ref("a")), Call("a", "same", Ref("s")),
            Call("p", "deep", Ref("a"))}

CtBodies == {<<m, n, k>> : m, n \in Marking, k \in Deciding}
            \cup {<<While(Unknown, <<m, n>>), k>> : m, n \in Growing, k \in Deciding}
            \cup {<<While(Unknown, <<k, m>>)>> : m \in Growing, k \in Deciding}
            \cup {<<For("i", Lit(0), Lit(2), <<m, k>>)>> : m \in Growing, k \in Deciding}
ClearingBodies == {
    <<Set("a", Ref("s")), While(Unknown, <<Set("a", Lit(0))>>), If(Cmp(">", Ref("a"), Lit(0)), <<>>, <<>>)>>,
    <<While(Cmp("<", Ref("a"), Lit(2)), <<Set("a", Ref("s"))>>)>> }

CtProgram(body) ==
    LET p == [body |-> body, fns |-> Fns, secrets |-> {"s"}]
    IN  [verified |-> analyze_consttime(p)] @@ p

----------------------------------------------------------------------------
(* Moves: drops, uses and reassignments on every kind of path.             *)

Use(x) == Eval(Ref(x))
Revive(x) == Set(x, Lit(0))
Leaving == Maybe(<<Break>>)
Going == Maybe(<<Continue>>)
Pieces == {Use("x"), Drop("x"), Revive("x"), Drop("y"), Set("x", Ref("y")),
           Maybe(<<Drop("x")>>), Maybe(<<Revive("x")>>), Maybe(<<Drop("x"), Return(Lit(0))>>),
           If(Unknown, <<Drop("x")>>, <<Revive("x")>>)}
Turned == {<<a, b, Break>> : a, b \in Pieces}
          \cup {<<a, Going, b>> : a, b \in Pieces} \cup {<<Going, a, b>> : a, b \in Pieces}
          \cup {<<Drop("x"), Leaving, Revive("x")>>, <<Maybe(<<Drop("x"), Break>>), Use("x")>>,
                <<Maybe(<<Drop("x"), Break>>), Revive("x")>>}
MoveBodies ==
    {<<a, b, c>> : a, b, c \in Pieces}
    \cup {<<While(c, b), Use("x"), Use("y")>> : c \in {Unknown, Cmp("<", Ref("x"), Lit(1))}, b \in Turned}
    \cup {<<For("i", Lit(0), Lit(2), b), Use("x")>> : b \in Turned}
ReenteredBodies == {
    <<While(Unknown, <<Use("x"), Drop("x")>>)>>,
    <<Drop("x"), While(Unknown, <<Revive("x")>>), Use("x")>> }

----------------------------------------------------------------------------
(* The blocks and their optimiser: every two steps in a row, in an arm and  *)
(* in loops that continue, break, and work with bindings of their own.     *)

Helpers == [add1 |-> [param |-> "u", body |-> <<Return(Bin("+", Ref("u"), Lit(1), "r"))>>],
            twice |-> [param |-> "v", body |-> <<Let("w", Ref("v")), Set("w", Bin("+", Ref("w"), Ref("v"), "q")),
                                                 Return(Ref("w"))>>],
            sign |-> [param |-> "a", body |-> <<If(Cmp(">", Ref("a"), Lit(0)), <<Return(Lit(1))>>, <<>>),
                                                Return(Lit(0))>>]]

Working == {Plus("y", 1, "a"), Set("y", Ref("x")), Set("x", Bin("-", Ref("x"), Ref("y"), "m")),
            Call("y", "add1", Ref("x")), Call("x", "add1", Lit(1)), Call("y", "twice", Ref("x")),
            Call("y", "sign", Ref("x")), Index("xs", Ref("y"), "i"), Resize("xs", -1), Rebind("xs", 1),
            Set("y", Bin("/", Ref("y"), Ref("x"), "d")), Set("y", Lit(0))}
Works == {<<a>> : a \in Working} \cup {<<a, b>> : a, b \in Working}
Once(c) == If(Cmp("==", Ref("i"), Lit(1)), <<c>>, <<>>)
YStarts == Let("y", Lit(1))
Counted(b) == <<Let("i", Lit(0)), While(Cmp("<", Ref("i"), Lit(2)), b \o <<Plus("i", 1, "c")>>)>>

BlockBodies(b) == {
    b,
    <<If(Cmp("<", Ref("x"), Lit(1)), b, <<Set("y", Lit(2))>>)>>,
    Counted(<<Let("n", Ref("x")), Set("y", Bin("-", Ref("n"), Ref("y"), "z"))>> \o b),
    Counted(<<Let("n", Ref("y")), Set("y", Bin("+", Ref("n"), Lit(1), "z"))>> \o b),
    <<For("i", Lit(0), Lit(3), <<Set("y", Bin("+", Ref("y"), Ref("i"), "e")), Once(Continue)>> \o b)>>,
    <<For("i", Lit(0), Lit(3), Append(b, Once(Break)))>> }

\* A binding made in the loop and assigned in it: read first, or read again.
HoistedBodies(b) == { Counted(<<Let("n", Ref("x")), Plus("n", 1, "g"), Set("y", Ref("n"))>> \o b) }

BlockClauses == {<<VarCmp("x", "!=", 0)>>, <<VarCmp("x", ">=", -1), VarCmp("x", "<=", 1)>>,
                 <<VarCmp("x", ">=", 0), VarLen("x", "<", "xs")>>}

\* What the compiler's own engine makes of a contract is the business of the
\* family "proof": here only the re-verifier reads it.
BlockProgram(body) == [fns |-> Helpers, body |-> <<YStarts>> \o body \o <<Return(Ref("y"))>>]
Judged(clause, lowered, optimised) ==
    [lowered |-> lowered, optimised |-> optimised, replayed |-> Replayed(clause, optimised)]
Compiled(clause, p) ==
    LET Optimised(lowered) == Judged(clause, lowered, optimize(lowered)) IN Optimised(build_module(p))

----------------------------------------------------------------------------
(* The call graph: every program declares what the checker computes for    *)
(* its functions, except where it leaves an effect to a capability or      *)
(* leaves a function without; those the checker refuses do not run.        *)

Does(b) == [k |-> "builtin", b |-> b]
Op(b) == [k |-> "op", b |-> b]
To(f) == [k |-> "call", to |-> f]
Method(f) == [k |-> "method", to |-> f]
TaskOf(b, f) == [k |-> "task", b |-> b, to |-> f]
Build(omits) == [k |-> "build", of |-> "S", omits |-> omits]

MainBodies == {
    {To("f")}, {TaskOf("spawn", "f")}, {Method("f"), To("g")}, {Build(TRUE), To("f")}, {To("f"), Does("println")},
    {To("puts"), TaskOf("gen_spawn", "f")}, {[k |-> "take", eff |-> "Fs"], To("f")} }
FBodies == {{To("g")}, {TaskOf("async_spawn", "g")}, {Build(TRUE)}, {Build(FALSE), Method("g")}, {To("puts")}}
GBodies == {
    {Does("read_file")}, {Does("thread_sleep_ms"), Op("str.find")}, {[k |-> "list"], Op("chan.send")},
    {Op("task.join")}, {Does("int_and"), To("puts")}, {Does("args"), Does("clock_ms")}, {To("f")} }
Defaults == {{}, {Does("clock_ms")}, {To("g")}}

Unsigned(body, owner) == [body |-> body, owner |-> owner, params |-> 1, caps |-> {}, uses |-> {}]
Puts == [extern |-> TRUE] @@ [Unsigned({}, "dep") EXCEPT !.uses = {"IO"}]
Isr(body) == [isr |-> [irq |-> TRUE] @@ Unsigned(body, "root")]
OnPanic == [on_panic |-> [panic_handler |-> TRUE] @@ Unsigned({Does("println")}, "root")]
NoHandler == [n \in {} |-> 0]

Graphs(mains, owner, handlers) ==
    { [fns |-> [main |-> Unsigned(m, "root"), f |-> Unsigned(f, "dep"), g |-> Unsigned(g, "dep2"), puts |-> Puts] @@ h,
       structs |-> [S |-> [default |-> d, owner |-> owner]]]
      : m \in mains, f \in FBodies, g \in GBodies, d \in Defaults, h \in handlers }

\* The interrupt handler reaches no struct or enum value that is built.
NotBuilding(graphs) == {q \in graphs : ~\E s \in q.fns.f.body : s.k = "build"}

\* The deepest chain is one that main never enters, deep enough for a handler.
Deepened(graphs) == {[q EXCEPT !.fns.f.params = 12] : q \in graphs}

Grants == {[n \in {} |-> {}], [f |-> {"Fs"}], [g |-> {"IO"}]}
Signed(q, granted, bare) ==
    LET eff == G!computed_effects(q) IN
    [q EXCEPT !.fns = [n \in DOMAIN q.fns |->
        IF n = "puts" THEN q.fns[n]
        ELSE [q.fns[n] EXCEPT !.uses = IF n \in bare THEN {} ELSE eff[G!F(n)],
                              !.caps = IF n \in DOMAIN granted THEN granted[n] ELSE {}]]]

GraphInit(graphs) ==
    /\ \E q \in graphs, granted \in Grants, bare \in SUBSET {"main", "f", "g"} : G!EffectsInit(Signed(q, granted, bare))
    /\ Start([body |-> <<>>], Zero, [xs \in List |-> 0])

----------------------------------------------------------------------------


Edges == {IntMin, -1, 0, 1, 2, IntMax}
ProofInit(bodies) ==
    \E clause \in ProofClauses, b \in UNION {bodies[s] : s \in TwoSteps}, x, y \in Edges, lengths \in [List -> 0..MaxLen] :
        LET values == [v \in {"x", "y"} |-> IF v = "x" THEN x ELSE y] IN
        Satisfies(clause, values, lengths) /\ Start([requires |-> clause, body |-> b], values, lengths)

InferInit(loops) ==
    \E clause \in InferClauses, loop \in loops :
        \E p \in {Inferred(clause, loop)}, values \in [{"x", "y", "n"} -> -1..2] :
            Satisfies(clause, values, [xs \in List |-> 0]) /\ Start(p, values, [xs \in List |-> 0])

CtInit(bodies) ==
    \E body \in bodies :
        \E p \in {CtProgram(body)}, s, x \in {0, 1} :
            Start(p, [v \in {"s", "p"} |-> IF v = "s" THEN s ELSE x], [xs \in List |-> 2])

MovesInit(bodies) ==
    \E body \in bodies :
        \E verdict \in {check_fn(Code(body))} :
            Start([body |-> body, accepted |-> verdict], Zero, [xs \in List |-> 2])

BlocksInit(bodies) ==
    \E clause \in BlockClauses, body \in UNION {bodies[b] : b \in Works} :
        \E c \in {Compiled(clause, BlockProgram(body))}, x \in {IntMin, -1, 0, 1}, n \in 0..2 :
            LET values == [v \in {"x"} |-> x]  lengths == [xs \in List |-> n] IN
            /\ Satisfies(clause, values @@ Zero, lengths)
            /\ \E ends \in {[lowered |-> Outcome(c.lowered, values, lengths),
                             optimised |-> Outcome(c.optimised, values, lengths)]} :
                   Start(ends @@ [replayed |-> c.replayed] @@ BlockProgram(body), values, lengths)

NoGraph == code = 0 /\ chain = <<>> /\ base = 0 /\ root = 0 /\ mode = "none" /\ did = [k |-> "nothing"]

RunsInit ==
    \/ "proof" \in Family     /\ ProofInit([b \in TwoSteps |-> ProofBodies(b)])
    \/ "inference" \in Family /\ InferInit(Loops)
    \/ "consttime" \in Family /\ CtInit(CtBodies)
    \/ "moves" \in Family     /\ MovesInit(MoveBodies)
    \/ "blocks" \in Family    /\ BlocksInit([b \in Works |-> BlockBodies(b)])
    \/ "hoisted" \in Family   /\ BlocksInit([b \in Works |-> HoistedBodies(b)])
    \/ "escapes" \in Family   /\ ProofInit([b \in TwoSteps |-> EscapingBodies(b)])
    \/ "nested" \in Family    /\ InferInit(NestedLoops)
    \/ "clearing" \in Family  /\ CtInit(ClearingBodies)
    \/ "reentered" \in Family /\ MovesInit(ReenteredBodies)
GraphsInit ==
    \/ "graph" \in Family     /\ GraphInit(Graphs(MainBodies, "root", {NoHandler})
                                           \cup NotBuilding(Graphs(MainBodies, "root", {Isr({To("g")})}))
                                           \cup Deepened(Graphs({{Does("println")}}, "root", {OnPanic})))
    \/ "defaults" \in Family  /\ GraphInit(Graphs(MainBodies, "dep", {NoHandler}))
    \/ "building" \in Family  /\ GraphInit(Graphs(MainBodies, "root", {Isr({Build(FALSE)})}))
    \/ "faults" \in Family    /\ GraphInit(Graphs(MainBodies, "root", {OnPanic}))
CallsInit == Family \cap {"calls", "misread"} # {} /\ T!BuiltinsInit /\ Start([body |-> <<>>], Zero, [xs \in List |-> 0])
NoCalls == sockets = <<>> /\ opened = 0 /\ children = <<>> /\ last = [of |-> "idle"]

AnalysesInit ==
    \/ RunsInit /\ NoGraph /\ NoCalls
    \/ GraphsInit /\ NoCalls
    \/ CallsInit /\ NoGraph

\* Built-ins that keep no state are called once, sockets and children are not
\* mixed, and only the family "misread" reads a pipe that was closed.
Closed == \E c \in DOMAIN children : \E pipe \in DOMAIN children[c] : children[c][pipe] = "closed"
CallsNext ==
    \/ last.of = "none" /\ T!CallNext
    \/ last.of = "none" /\ children = <<>> /\ T!SocketNext
    \/ last.of = "none" /\ opened = 0 /\ T!ChildNext /\ (last'.of = "proc_child_read" /\ Closed => "misread" \in Family)
    \/ last.of \notin {"none", "idle"} /\ last' = [of |-> "none"] /\ UNCHANGED <<sockets, opened, children>>

AnalysesNext ==
    \/ FlowNext /\ UNCHANGED <<graphVars, callVars>>
    \/ chain # <<>> /\ G!EffectsNext /\ UNCHANGED <<flowVars, callVars>>
    \/ CallsNext /\ UNCHANGED <<flowVars, graphVars>>

(* The properties of Effects and Builtins, by their names.                 *)

\* Nothing is done without the authority of everybody it is done for.
AuthorityHeld == chain = <<>> \/ G!AuthorityHeld

\* An accepted interrupt handler allocates nothing.
IrqNeverAllocates == chain = <<>> \/ G!IrqNeverAllocates

\* No stack outgrows the budget that was checked.
DepthWithinBudget == chain = <<>> \/ G!DepthWithinBudget

\* The audit names every effect that code of a dependency has.
AuditListsAll == chain = <<>> \/ G!AuditListsAll

\* A call of a built-in ends as the checker and the language say it does.
CallsEndAsTyped == last.of = "idle" \/ T!CallsEndAsTyped
=============================================================================
