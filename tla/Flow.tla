-------------------------------- MODULE Flow --------------------------------
(***************************************************************************)
(* How one Halis function runs, as the analyses of the compiler see it: a  *)
(* list of statements over integer variables and over lists (or strings,   *)
(* or buffers) of which only the length counts.  This is exec_stmt and     *)
(* eval_expr of the interpreter, statement by statement; a run stops at    *)
(* the first fault.  The analyses (Proof, Invariants, ConstTime, Moves)    *)
(* extend this module, say what they claim of a program, and the runs of   *)
(* the program are what the claims are held against.                       *)
(*                                                                         *)
(* A condition is a comparison, or "unknown": it reads what the analyses   *)
(* do not follow, and goes either way each time.                           *)
(***************************************************************************)
EXTENDS Integers, Sequences, FiniteSets, TLC

CONSTANTS
    Var,              \* integer variables
    List,             \* lists, strings and buffers
    IntMax,           \* the type int, made small: -IntMax - 1 .. IntMax
    MaxLen,           \* bound: lists are never longer
    MaxTurns          \* bound: turns of one loop that a run follows

ASSUME FlowAssumption ==
    /\ IntMax \in Nat
    /\ MaxLen \in Nat /\ MaxTurns \in Nat
    /\ Var \cap List = {}

VARIABLES
    program,   \* the function that runs: its body, and what its header states
    env,       \* env[x]: the value of the variable x
    length,    \* length[xs]: how long the list xs is
    secret,    \* the names whose value derives from a secret parameter
    moved,     \* the names whose value was dropped or taken
    todo,      \* the statements still to run, innermost first
    fault      \* how the run ended, or NoFault

flowVars == <<program, env, length, secret, moved, todo, fault>>

NoFault == [k |-> "none"]

(***************************************************************************)
(* The syntax, as the parser builds it.  "at" names the operation, for the *)
(* analyses that decide about each of them.                                *)
(***************************************************************************)
Lit(n) == [k |-> "int", v |-> n]
Ref(x) == [k |-> "ident", name |-> x]
Neg(e) == [k |-> "un", e |-> e]
Bin(op, l, r, at) == [k |-> "bin", op |-> op, l |-> l, r |-> r, at |-> at]

Unknown == [k |-> "unknown"]
Cmp(op, l, r) == [k |-> "cmp", op |-> op, l |-> l, r |-> r]

Set(x, e) == [k |-> "assign", target |-> x, value |-> e]
Eval(e) == [k |-> "expr", e |-> e]
Index(xs, i, at) == [k |-> "index", of |-> xs, idx |-> i, at |-> at]
Slice(xs, a, b, at) == [k |-> "slice", of |-> xs, from |-> a, to |-> b, at |-> at]
Resize(xs, by) == [k |-> "resize", of |-> xs, by |-> by]
Rebind(xs, n) == [k |-> "rebind", of |-> xs, len |-> n]
Drop(x) == [k |-> "drop", of |-> x]
If(c, then, els) == [k |-> "if", cond |-> c, then |-> then, els |-> els]
While(c, body) == [k |-> "while", cond |-> c, body |-> body]
For(x, a, b, body) == [k |-> "for", var |-> x, from |-> a, to |-> b, body |-> body]
Each(x, xs, body) == [k |-> "each", var |-> x, of |-> xs, body |-> body]
Break == [k |-> "break"]
Continue == [k |-> "continue"]
Return(e) == [k |-> "return", value |-> e]
\* x = f(e), for a function f of one parameter among program.fns
Call(x, f, e) == [k |-> "call", into |-> x, fn |-> f, arg |-> e]

----------------------------------------------------------------------------
(* Expressions.                                                            *)

IntMin == -IntMax - 1
InRange(n) == n \in IntMin..IntMax
Abs(n) == IF n < 0 THEN -n ELSE n
Quotient(a, b) == IF (a >= 0) = (b >= 0) THEN Abs(a) \div Abs(b) ELSE -(Abs(a) \div Abs(b))

Compare(op, a, b) ==
    CASE op = "<" -> a < b [] op = "<=" -> a <= b [] op = ">" -> a > b
      [] op = ">=" -> a >= b [] op = "==" -> a = b [] op = "!=" -> a # b

Arith(op, a, b) ==
    CASE op = "+" -> a + b [] op = "-" -> a - b [] op = "*" -> a * b
      [] op = "/" -> Quotient(a, b) [] op = "%" -> a - Quotient(a, b) * b

RECURSIVE Names(_)
Names(e) ==
    CASE e.k = "int" -> {} [] e.k = "ident" -> {e.name} [] e.k = "un" -> Names(e.e)
      [] e.k \in {"bin", "cmp"} -> Names(e.l) \cup Names(e.r) [] OTHER -> {}

RECURSIVE Value(_)
Value(e) ==
    CASE e.k = "int" -> e.v [] e.k = "ident" -> env[e.name] [] e.k = "un" -> -Value(e.e)
      [] e.k = "bin" -> Arith(e.op, Value(e.l), Value(e.r))

\* The operation panics, or its operands tell a secret to who measures it.
FaultOfOp(op, a, b, at) ==
    IF op \in {"/", "%"} /\ b = 0 THEN [k |-> "panic", at |-> at]
    ELSE IF ~InRange(Arith(op, a, b)) \/ (op = "%" /\ a = IntMin /\ b = -1)
    THEN [k |-> "panic", at |-> at]
    ELSE NoFault

First(f, g) == IF f = NoFault THEN g ELSE f

RECURSIVE Faulty(_)
Faulty(e) ==
    CASE e.k = "ident" -> IF e.name \in moved THEN [k |-> "moved", of |-> e.name] ELSE NoFault
      [] e.k = "un" -> First(Faulty(e.e), IF Value(e.e) = IntMin THEN [k |-> "panic", at |-> "negate"] ELSE NoFault)
      [] e.k = "cmp" -> First(Faulty(e.l), Faulty(e.r))
      [] e.k = "bin" ->
           LET operands == First(Faulty(e.l), Faulty(e.r)) IN
           IF operands # NoFault THEN operands
           ELSE IF e.op \in {"/", "%"} /\ Names(e) \cap secret # {} THEN [k |-> "leak", by |-> "division"]
           ELSE FaultOfOp(e.op, Value(e.l), Value(e.r), e.at)
      [] OTHER -> NoFault

Outcomes(c) ==
    IF c.k = "unknown" THEN BOOLEAN ELSE {Compare(c.op, Value(c.l), Value(c.r))}

\* A branch that a secret decides is a leak (the analysis of #[ct] functions).
FaultOfCond(c) ==
    First(Faulty(c), IF Names(c) \cap secret # {} THEN [k |-> "leak", by |-> "branch"] ELSE NoFault)

----------------------------------------------------------------------------
(* Statements.                                                             *)

Rest == Tail(todo)
Now == Head(todo)
Doing(kind) == todo # <<>> /\ fault = NoFault /\ Now.k = kind

Fails(f) == f # NoFault /\ fault' = f /\ UNCHANGED <<program, env, length, secret, moved, todo>>

Derived(x, e) == IF Names(e) \cap secret # {} THEN secret \cup {x} ELSE secret \ {x}

Assign ==
    /\ Doing("assign")
    /\ \/ Fails(Faulty(Now.value))
       \/ /\ Faulty(Now.value) = NoFault
          /\ env' = [env EXCEPT ![Now.target] = Value(Now.value)]
          /\ secret' = Derived(Now.target, Now.value)
          /\ moved' = moved \ {Now.target}
          /\ todo' = Rest
          /\ UNCHANGED <<program, length, fault>>

Evaluate ==
    /\ Doing("expr")
    /\ \/ Fails(Faulty(Now.e))
       \/ Faulty(Now.e) = NoFault /\ todo' = Rest /\ UNCHANGED <<program, env, length, secret, moved, fault>>

\* xs[i], s.byte_at(i) and s.slice(a, b), for their bounds and addresses.
FaultOfAccess(s) ==
    LET read == IF s.k = "index" THEN First(Faulty(s.idx), Faulty(Ref(s.of)))
                ELSE First(Faulty(s.from), First(Faulty(s.to), Faulty(Ref(s.of))))
        names == IF s.k = "index" THEN Names(s.idx) ELSE Names(s.from) \cup Names(s.to)
        inside == IF s.k = "index" THEN 0 <= Value(s.idx) /\ Value(s.idx) < length[s.of]
                  ELSE 0 <= Value(s.from) /\ Value(s.from) <= Value(s.to) /\ Value(s.to) <= length[s.of]
    IN  IF read # NoFault THEN read
        ELSE IF names \cap secret # {} THEN [k |-> "leak", by |-> "index"]
        ELSE IF inside THEN NoFault ELSE [k |-> "panic", at |-> s.at]

Access ==
    /\ Doing("index") \/ Doing("slice")
    /\ \/ Fails(FaultOfAccess(Now))
       \/ FaultOfAccess(Now) = NoFault /\ todo' = Rest /\ UNCHANGED <<program, env, length, secret, moved, fault>>

\* xs.push(v) and xs.pop(); popping an empty list panics.
ChangeLength ==
    /\ Doing("resize")
    /\ \/ Fails(First(Faulty(Ref(Now.of)),
                     IF length[Now.of] + Now.by < 0 THEN [k |-> "panic", at |-> "pop"] ELSE NoFault))
       \/ /\ Now.of \notin moved
          /\ length[Now.of] + Now.by \in 0..MaxLen
          /\ length' = [length EXCEPT ![Now.of] = @ + Now.by]
          /\ todo' = Rest
          /\ UNCHANGED <<program, env, secret, moved, fault>>

RebindList ==
    /\ Doing("rebind")
    /\ length' = [length EXCEPT ![Now.of] = Now.len]
    /\ moved' = moved \ {Now.of}
    /\ todo' = Rest
    /\ UNCHANGED <<program, env, secret, fault>>

\* drop(x) and take(x): the value is gone from the name.
DropValue ==
    /\ Doing("drop")
    /\ \/ Fails(Faulty(Ref(Now.of)))
       \/ /\ Faulty(Ref(Now.of)) = NoFault
          /\ moved' = moved \cup {Now.of}
          /\ todo' = Rest
          /\ UNCHANGED <<program, env, length, secret, fault>>

Branch ==
    /\ Doing("if")
    /\ \/ Fails(FaultOfCond(Now.cond))
       \/ /\ FaultOfCond(Now.cond) = NoFault
          /\ \E holds \in Outcomes(Now.cond) :
                todo' = (IF holds THEN Now.then ELSE Now.els) \o Rest
          /\ UNCHANGED <<program, env, length, secret, moved, fault>>

\* The head of a loop stays on todo under its body, with the turns taken.
Turns(s) == IF "turns" \in DOMAIN s THEN s.turns ELSE 0
HeadAgain(s) == [turns |-> Turns(s) + 1] @@ s

WhileHead ==
    /\ Doing("while")
    /\ \/ Fails(FaultOfCond(Now.cond))
       \/ /\ FaultOfCond(Now.cond) = NoFault
          /\ \/ TRUE \in Outcomes(Now.cond) /\ Turns(Now) < MaxTurns
                /\ todo' = Now.body \o <<HeadAgain(Now)>> \o Rest
             \/ FALSE \in Outcomes(Now.cond) /\ todo' = Rest
          /\ UNCHANGED <<program, env, length, secret, moved, fault>>

\* for x in range(a, b): the bounds are evaluated once, at the first turn.
Bounds(s) == IF Turns(s) = 0 THEN <<Value(s.from), Value(s.to)>> ELSE <<s.first, s.last>>

FaultOfRange(s) ==
    IF Turns(s) > 0 THEN NoFault
    ELSE First(Faulty(s.from), First(Faulty(s.to),
           IF (Names(s.from) \cup Names(s.to)) \cap secret # {}
           THEN [k |-> "leak", by |-> "loop-bound"] ELSE NoFault))

ForHead ==
    /\ Doing("for")
    /\ \/ Fails(FaultOfRange(Now))
       \/ /\ FaultOfRange(Now) = NoFault
          /\ LET b == Bounds(Now)
                 i == b[1] + Turns(Now)
             IN  \/ i < b[2] /\ Turns(Now) < MaxTurns
                    /\ env' = [env EXCEPT ![Now.var] = i]
                    /\ todo' = Now.body \o <<[first |-> b[1], last |-> b[2]] @@ HeadAgain(Now)>> \o Rest
                 \/ i >= b[2] /\ todo' = Rest /\ UNCHANGED env
          /\ secret' = secret \ {Now.var}
          /\ UNCHANGED <<program, length, moved, fault>>

\* for x in xs: the length is read once, and a list that shrinks ends the loop.
EachHead ==
    /\ Doing("each")
    /\ \/ Turns(Now) = 0 /\ Fails(Faulty(Ref(Now.of)))
       \/ /\ Turns(Now) > 0 \/ Now.of \notin moved
          /\ LET n == IF Turns(Now) = 0 THEN length[Now.of] ELSE Now.last
                 more == Turns(Now) < n /\ Turns(Now) < length[Now.of]
             IN  \/ /\ more /\ Turns(Now) < MaxTurns
                    /\ \E v \in {IntMin, 0, IntMax} : env' = [env EXCEPT ![Now.var] = v]
                    /\ todo' = Now.body \o <<[last |-> n] @@ HeadAgain(Now)>> \o Rest
                 \/ ~more /\ todo' = Rest /\ UNCHANGED env
          /\ secret' = IF Now.of \in secret THEN secret \cup {Now.var} ELSE secret \ {Now.var}
          /\ UNCHANGED <<program, length, moved, fault>>

\* Only the head of a loop in progress carries its turns.
FirstHead == CHOOSE i \in 1..Len(todo) :
    "turns" \in DOMAIN todo[i] /\ \A j \in 1..(i - 1) : "turns" \notin DOMAIN todo[j]

Escape ==
    /\ \/ Doing("break") /\ todo' = SubSeq(todo, FirstHead + 1, Len(todo))
       \/ Doing("continue") /\ todo' = SubSeq(todo, FirstHead, Len(todo))
    /\ UNCHANGED <<program, env, length, secret, moved, fault>>

\* A call leaves a frame on todo, which says where the result goes.  The
\* functions of a program name their variables apart, and do not recurse.
CallFn ==
    /\ Doing("call")
    /\ \/ Fails(Faulty(Now.arg))
       \/ LET f == program.fns[Now.fn] IN
          /\ Faulty(Now.arg) = NoFault
          /\ env' = [env EXCEPT ![f.param] = Value(Now.arg)]
          /\ secret' = Derived(f.param, Now.arg)
          /\ todo' = f.body \o <<[k |-> "frame", into |-> Now.into]>> \o Rest
          /\ UNCHANGED <<program, length, moved, fault>>

Frames == {i \in 1..Len(todo) : todo[i].k = "frame"}
FirstFrame == CHOOSE i \in Frames : \A j \in Frames : i <= j

ReturnFrom ==
    /\ Doing("return")
    /\ \/ Fails(Faulty(Now.value))
       \/ /\ Faulty(Now.value) = NoFault
          /\ IF Frames = {} THEN todo' = <<>> /\ UNCHANGED <<env, secret>>
             ELSE LET x == todo[FirstFrame].into IN
                  /\ env' = [env EXCEPT ![x] = Value(Now.value)]
                  /\ secret' = Derived(x, Now.value)
                  /\ todo' = SubSeq(todo, FirstFrame + 1, Len(todo))
          /\ UNCHANGED <<program, length, moved, fault>>

\* The end of a body that returns nothing.
EndOfBody ==
    /\ Doing("frame")
    /\ todo' = Rest
    /\ UNCHANGED <<program, env, length, secret, moved, fault>>

FlowNext ==
    \/ Assign \/ Evaluate \/ Access \/ ChangeLength \/ RebindList \/ DropValue
    \/ Branch \/ WhileHead \/ ForHead \/ EachHead \/ Escape
    \/ CallFn \/ ReturnFrom \/ EndOfBody

\* A run of p from the given values; secrets are the names p marks secret.
Starts(p, values, lengths, secrets) ==
    /\ program = p
    /\ env = values
    /\ length = lengths
    /\ secret = secrets
    /\ moved = {}
    /\ todo = p.body
    /\ fault = NoFault
=============================================================================
