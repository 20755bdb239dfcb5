------------------------------- MODULE Effects -------------------------------
(***************************************************************************)
(* What the checker and hls-audit conclude from the call graph of a        *)
(* program, next to a run of the program as the C backend compiles it.     *)
(*                                                                         *)
(* A program has functions, with the effects each declares (uses), those   *)
(* of its Cap parameters (caps) and the module that owns it, and structs   *)
(* whose omitted fields have a default expression.  A body is a set of     *)
(* sites; a run visits them in any order, any number of times:             *)
(*   builtin, op    a built-in function b, or the method b of a built-in   *)
(*                  type                                                   *)
(*   call, method   the function `to`                                      *)
(*   task           a built-in b that runs `to` in a task of its own       *)
(*   build          a struct, some field of it omitted if `omits`          *)
(*   list, concat   a list literal, a concatenation of strings             *)
(*   take           cap_take of the effect `eff`                           *)
(***************************************************************************)
EXTENDS Integers, Sequences, FiniteSets, TLC

CONSTANTS
    BUILTIN_EFFECTS, ALLOC_BUILTINS, ALLOC_METHOD_OPS, NoEdge,  \* the tables of Builtins
    Needs(_)     \* Needs(b): the effects b must be licensed by, one of each of these sets

VARIABLES
    code,     \* the program that runs
    chain,    \* the calls in progress, outermost first, of every task on the way here
    base,     \* index in chain of the first call on the stack in use
    root,     \* index in chain of the call that acts on nobody's behalf
    mode,     \* "run", "irq" (an interrupt is handled), "panic" (the panic handler runs)
    did       \* what the last step did

effectVars == <<code, chain, base, root, mode, did>>

F(n) == <<"fn", n>>
B(b) == <<"b", b>>
D(s) == <<"@default", s>>
Fns(q) == DOMAIN q.fns
Nodes(q) == {F(n) : n \in Fns(q)} \cup {D(s) : s \in DOMAIN q.structs}
Body(q, n) == IF n[1] = "fn" THEN q.fns[n[2]].body ELSE q.structs[n[2]].default
IsFn(q, n, attr) == n[1] = "fn" /\ attr \in DOMAIN q.fns[n[2]]
IsExtern(q, n) == IsFn(q, n, "extern")

----------------------------------------------------------------------------
(* The call graph.                                                         *)

\* Seeded fault: only calls by name leave an edge.
CallsByName(q, s) ==
    CASE s.k = "call" -> {F(s.to)} [] s.k \in {"builtin", "task"} -> {B(s.b)} [] OTHER -> {}

StructEdges(s) == IF s.omits THEN {D(s.of)} ELSE {}

edges(q, s) ==
    CASE s.k \in {"call", "method"} -> {F(s.to)}
      [] s.k = "task" -> {B(s.b), F(s.to)}
      [] s.k = "build" -> StructEdges(s)
      [] s.k \in {"builtin", "op"} /\ s.b \notin NoEdge -> {B(s.b)}
      [] OTHER -> {}
Callees(q, n) == UNION {edges(q, s) : s \in Body(q, n)}

----------------------------------------------------------------------------
(* Effects: a fixpoint over the graph, and what each function may have.    *)

Hosted == {"IO", "Fs", "Clock", "Args", "Exit"}
cap_family_add(e) == IF e = "IO" THEN Hosted ELSE {e}
CapFamily(es) == UNION {cap_family_add(e) : e \in es}

Declared(fn) == CapFamily(fn.uses)
cap_grants(fn) == CapFamily(fn.caps \cup {s.eff : s \in {t \in fn.body : t.k = "take"}})
TakeAllowed(n, fn) == n = "main" \/ \A s \in fn.body : s.k = "take" => s.eff \in Declared(fn)

EffectsOf(b) == IF b \in DOMAIN BUILTIN_EFFECTS THEN BUILTIN_EFFECTS[b] ELSE {}

Requires(q, eff, c) ==
    IF c[1] = "b" THEN EffectsOf(c[2])
    ELSE IF IsExtern(q, c) THEN Declared(q.fns[c[2]]) ELSE eff[c]

RECURSIVE Fixpoint(_, _)
Fixpoint(q, eff) ==
    LET next == [n \in Nodes(q) |-> eff[n] \cup UNION {Requires(q, eff, c) : c \in Callees(q, n)}] IN
    IF next = eff THEN eff ELSE Fixpoint(q, next)
computed_effects(q) == Fixpoint(q, [n \in Nodes(q) |-> {}])

check_effects(q, eff) ==
    \A n \in Fns(q) :
        LET fn == q.fns[n]  missing == eff[F(n)] \ (Declared(fn) \cup cap_grants(fn)) IN
        /\ TakeAllowed(n, fn) /\ missing = {}
        /\ "pure" \in DOMAIN fn => eff[F(n)] = {}

----------------------------------------------------------------------------
(* Interrupts: no handler reaches a construct that may allocate.           *)

mark_alloc(q, s) ==
    \/ s.k \in {"list", "concat"}
    \/ s.k \in {"builtin", "task"} /\ s.b \in ALLOC_BUILTINS
    \/ s.k = "op" /\ s.b \in ALLOC_METHOD_OPS
    \/ s.k = "call" /\ IsExtern(q, F(s.to))

RECURSIVE ReachedFrom(_, _)
ReachedFrom(q, ns) ==
    LET next == ns \cup {c \in UNION {Callees(q, n) : n \in ns} : c[1] # "b"} IN
    IF next = ns THEN ns ELSE ReachedFrom(q, next)

\* Seeded fault: only the handler's own body is looked at.
HandlerOnly(q) == \A n \in Fns(q) : IsFn(q, F(n), "irq") => ~\E s \in Body(q, F(n)) : mark_alloc(q, s)

check_irq_no_alloc(q) ==
    \A n \in Fns(q) : IsFn(q, F(n), "irq") =>
        \A m \in ReachedFrom(q, {F(n)}) : ~\E s \in Body(q, m) : mark_alloc(q, s)

----------------------------------------------------------------------------
(* The stack: 32 bytes, 8 for each parameter, 16 for each call.            *)

_est_calls(s) == IF s.k \in {"builtin", "call", "task", "take"} THEN 16 ELSE 0
RECURSIVE SumCalls(_)
SumCalls(body) == IF body = {} THEN 0 ELSE LET s == CHOOSE x \in body : TRUE IN _est_calls(s) + SumCalls(body \ {s})
estimate_stack_size(fn) == 32 + 8 * fn.params + SumCalls(fn.body)
Frame(q, n) == IF n[1] # "fn" \/ IsExtern(q, n) THEN 0 ELSE estimate_stack_size(q.fns[n[2]])

\* Seeded fault: the walk passes over the defaults of structs.
FunctionsOnly(q, n) == {c \in Callees(q, n) : c[1] = "fn"}

UserCallees(q, n) == {c \in Callees(q, n) : c[1] # "b"}
RECURSIVE Cyclic(_, _, _)
Cyclic(q, n, path) == \E c \in UserCallees(q, n) : c \in path \/ Cyclic(q, c, path \cup {c})

Largest(S) == CHOOSE x \in S : \A y \in S : y <= x
RECURSIVE CostFrom(_, _)
CostFrom(q, n) == Frame(q, n) + Largest({0} \cup {CostFrom(q, c) : c \in UserCallees(q, n)})

\* The smallest #![stack_size] under which the program is accepted; a cycle
\* is refused under any.
Bounded(q) == ~\E n \in Nodes(q) : Cyclic(q, n, {n})
check_stack_budget(q) == Largest({CostFrom(q, n) : n \in Nodes(q)})

----------------------------------------------------------------------------
(* hls-audit: the effects that enter through modules other than the root.  *)

\* Seeded fault: what an extern function declares is not counted.
BuiltinsOnly(q, ns) == UNION {UNION {IF c[1] = "b" THEN EffectsOf(c[2]) ELSE {} : c \in Callees(q, F(n))} : n \in ns}

_intrinsic_effects(q, ns) ==
    UNION { UNION { IF c[1] = "b" THEN EffectsOf(c[2]) ELSE IF IsExtern(q, c) THEN Declared(q.fns[c[2]]) ELSE {}
                    : c \in Callees(q, F(n)) } : n \in ns }
Owned(q, m) == {n \in Fns(q) : q.fns[n].owner = m}
Modules(q) == {q.fns[n].owner : n \in Fns(q)}

\* The smallest --allow with which the audit finds no violation.
audit_source(q) == UNION {_intrinsic_effects(q, Owned(q, m)) : m \in Modules(q) \ {"root"}}

----------------------------------------------------------------------------
(* A run.                                                                  *)

Idle == [k |-> "nothing"]
EffectsInit(q) ==
    LET eff == computed_effects(q) IN
    /\ check_effects(q, eff) /\ check_irq_no_alloc(q) /\ Bounded(q)
    /\ code = q @@ [budget |-> check_stack_budget(q), allow |-> audit_source(q)]
    /\ chain = <<F("main")>> /\ base = 1 /\ root = 1 /\ mode = "run" /\ did = Idle

Top == chain[Len(chain)]
Enter(n, newBase) ==
    /\ chain' = Append(chain, n) /\ base' = newBase /\ did' = Idle
    /\ UNCHANGED <<code, root, mode>>
Does(what) == did' = what /\ UNCHANGED <<code, chain, base, root, mode>>

\* What the code of a site allocates itself, when it is compiled.
Allocates(s) ==
    \/ s.k \in {"list", "concat", "build"}
    \/ s.k \in {"builtin", "task"} /\ s.b \in ALLOC_BUILTINS \cup {"future_ready", "stream_take_int", "proc_child_read"}
    \/ s.k = "op" /\ s.b \in ALLOC_METHOD_OPS

\* An extern function does what it declares; nobody sees whether it allocates.
RunSite ==
    \E s \in Body(code, Top) :
        \/ s.k \in {"builtin", "op", "task"} /\ Does([k |-> "performs", needs |-> Needs(s.b), allocates |-> Allocates(s)])
        \/ s.k \in {"list", "concat", "build"} /\ Does([k |-> "builds", allocates |-> Allocates(s)])
        \/ /\ s.k = "call" /\ IsExtern(code, F(s.to))
           /\ Does([k |-> "performs", needs |-> {{e} : e \in Declared(code.fns[s.to])}, allocates |-> TRUE])
Call ==
    \E s \in Body(code, Top) :
        \/ s.k \in {"call", "method"} /\ ~IsExtern(code, F(s.to)) /\ Enter(F(s.to), base)
        \/ s.k = "build" /\ s.omits /\ Enter(D(s.of), base)
StartTask == \E s \in Body(code, Top) : s.k = "task" /\ Enter(F(s.to), Len(chain) + 1)
Return ==
    /\ Len(chain) > (IF mode = "run" THEN base ELSE root)
    /\ chain' = SubSeq(chain, 1, Len(chain) - 1) /\ did' = Idle
    /\ UNCHANGED <<code, base, root, mode>>

\* Both run on the stack of what they interrupt.
Divert(attr, m) ==
    /\ \E n \in Fns(code) : IsFn(code, F(n), attr) /\ chain' = Append(chain, F(n))
    /\ root' = Len(chain) + 1 /\ mode' = m /\ UNCHANGED <<code, base>>
Interrupt == mode = "run" /\ Divert("irq", "irq") /\ did' = Idle
Resume ==
    /\ mode = "irq" /\ Len(chain) = root
    /\ chain' = SubSeq(chain, 1, root - 1) /\ root' = 1 /\ mode' = "run" /\ did' = Idle
    /\ UNCHANGED <<code, base>>
\* hl_die calls the handler before it ends the process, with a copy of the message.
Panic == mode # "panic" /\ Divert("panic_handler", "panic") /\ did' = [k |-> "builds", allocates |-> TRUE]

EffectsNext == RunSite \/ Call \/ StartTask \/ Return \/ Interrupt \/ Resume \/ Panic

----------------------------------------------------------------------------

\* Whatever a built-in touches, every function on whose behalf it does so has
\* the authority for, declared or granted: the signatures name it all.
Holds(n) == Declared(code.fns[n[2]]) \cup cap_grants(code.fns[n[2]])
AuthorityHeld ==
    did.k = "performs" =>
        \A i \in root..Len(chain) : chain[i][1] = "fn" => \A alternatives \in did.needs : alternatives \cap Holds(chain[i]) # {}

\* A handler that was accepted allocates nothing while an interrupt is handled.
IrqNeverAllocates == (\E i \in base..Len(chain) : IsFn(code, chain[i], "irq")) /\ did.k # "nothing" => ~did.allocates

\* No stack grows beyond the budget the checker accepted, interrupts apart.
RECURSIVE StackUse(_)
StackUse(i) == IF i > Len(chain) THEN 0 ELSE Frame(code, chain[i]) + StackUse(i + 1)
DepthWithinBudget == mode # "irq" => StackUse(base) <= code.budget

\* Code of a dependency performs no effect but those its audit lists.
ModuleOf(n) == IF n[1] = "fn" THEN code.fns[n[2]].owner ELSE code.structs[n[2]].owner
AuditListsAll ==
    did.k = "performs" /\ ModuleOf(Top) # "root" => \A alternatives \in did.needs : alternatives \cap code.allow # {}
=============================================================================
