------------------------------ MODULE Reverify ------------------------------
(***************************************************************************)
(* hls-reverify: after the optimiser ran, an abstract interpreter walks    *)
(* the blocks of the transformed function with facts seeded from its       *)
(* contract, and says of each check site that is left whether the check is *)
(* dead.  The interval arithmetic is that of the compiler's own engine     *)
(* (Proof); the joins, the widening and the rounds are the tool's.         *)
(*                                                                         *)
(* A state maps names to intervals ("ints"), containers to intervals of    *)
(* their length ("lens"), ranges to the interval of their elements         *)
(* ("elems"), and has the names that are not zero ("nz").  A name without  *)
(* an entry is unknown.                                                    *)
(***************************************************************************)
EXTENDS Proof, Hlir

MAX_ROUNDS == 32
VERIFY_ROUNDS == 4

Keep(f, names) == [n \in DOMAIN f \cap names |-> f[n]]
Put(f, n, v) == (n :> v) @@ f
\* dest takes what is known of src, and loses what src does not say.
Copied(f, dest, src) == IF src \in DOMAIN f THEN Put(f, dest, f[src]) ELSE Forget(f, dest)
Gained(f, dest, src) == IF src \in DOMAIN f THEN Put(f, dest, f[src]) ELSE f

IvOf(st, arg) ==
    IF arg[1] = "lit" THEN Constant(arg[2]) ELSE IF arg[2] \in DOMAIN st.ints THEN st.ints[arg[2]] ELSE Top

\* The facts of the contract, under the names of the blocks.
seed_function(clause) ==
    LET f == seed_from_requires(clause) IN
    [ints |-> [n \in {V(x) : x \in {y \in Var : f.iv[y] # Top}} |-> f.iv[n[2]]],
     lens |-> [n \in {V(xs) : xs \in {ys \in List : f.minlen[ys] > 0}} |-> [lo |-> Num(f.minlen[n[2]]), hi |-> NoBound]],
     elems |-> NoNames,
     nz |-> {V(x) : x \in f.nz}]

----------------------------------------------------------------------------
(* Verdicts on one instruction.                                            *)

ProvesOverflow(st, ins) ==
    LET a == IvOf(st, ins.args[1])  b == IvOf(st, ins.args[2]) IN
    CASE ins.what = "+" -> fits(iv_add(a, b)) [] ins.what = "-" -> fits(iv_sub(a, b))
      [] ins.what = "*" -> fits(iv_mul(a, b))

ProvesDivision(st, ins) ==
    LET a == IvOf(st, ins.args[1])
        b == IvOf(st, ins.args[2])
        canBeMin == a.lo = NoBound \/ AtMost(a.lo, IntMin)
        canBeMinusOne == (b.lo = NoBound \/ AtMost(b.lo, -1)) /\ (b.hi = NoBound \/ AtLeast(b.hi, -1))
    IN  /\ excludes_zero(b) \/ ins.args[2][2] \in st.nz
        /\ ~(canBeMin /\ canBeMinusOne)

bounds_proven(st, ins) ==
    LET i == IvOf(st, ins.args[2])  owner == ins.args[1][2] IN
    /\ AtLeast(i.lo, 0)
    /\ \/ i.hi = LenBound(owner[2], -1) /\ owner = V(owner[2])
       \/ owner \in DOMAIN st.lens /\ IsNum(st.lens[owner].lo) /\ AtMost(i.hi, st.lens[owner].lo[2] - 1)

\* The read that a for loop generates is no site of the program.
IsSite(ins) ==
    \/ ins.op = "binop" /\ ins.at # NoSite
    \/ ins.op = "list_get" /\ ~(ins.dest[1] = "v" /\ ins.args[2] = Operand(<<"i", ins.dest[2]>>))

SiteProven(st, ins) ==
    CASE ins.op = "list_get" -> bounds_proven(st, ins)
      [] ins.op = "binop" /\ ins.what \in {"/", "%"} -> ProvesDivision(st, ins)
      [] OTHER -> ProvesOverflow(st, ins)

----------------------------------------------------------------------------
(* What one instruction does to a state.                                   *)

TransferLoad(st, dest, src) ==
    [ints |-> Copied(st.ints, dest, src), lens |-> Gained(st.lens, dest, src), elems |-> Gained(st.elems, dest, src),
     nz |-> IF src \in st.nz THEN st.nz \cup {dest} ELSE st.nz]

\* Seeded fault: an assigned name is still not zero.
TransferStoreKeeping(st, name, src) ==
    [ints |-> Copied(st.ints, name, src), lens |-> Copied(st.lens, name, src), elems |-> Copied(st.elems, name, src),
     nz |-> st.nz]

TransferStore(st, name, src) ==
    [ints |-> Copied(st.ints, name, src), lens |-> Copied(st.lens, name, src), elems |-> Copied(st.elems, name, src),
     nz |-> IF src \in st.nz THEN st.nz \cup {name} ELSE st.nz \ {name}]

TransferBinop(st, ins) ==
    LET a == IvOf(st, ins.args[1])
        b == IvOf(st, ins.args[2])
        iv == CASE ins.what = "+" -> iv_add(a, b) [] ins.what = "-" -> iv_sub(a, b)
                [] ins.what = "*" -> iv_mul(a, b) [] OTHER -> Top
    IN  IF ins.at = NoSite \/ iv = Top THEN st ELSE [st EXCEPT !.ints = Put(@, ins.dest, iv)]

IsConst(a) == IsNum(a.lo) /\ a.lo = a.hi
TransferRange(st, ins) ==
    LET a == IvOf(st, ins.args[1])  b == IvOf(st, ins.args[2]) IN
    IF ~IsConst(a) \/ ~IsConst(b) THEN st
    ELSE [st EXCEPT !.lens = Put(@, ins.dest, Constant(Max({0, b.lo[2] - a.lo[2]}))),
                    !.elems = Put(@, ins.dest, [lo |-> a.lo, hi |-> Num(b.lo[2] - 1)])]

transfer_instr(st, ins) ==
    LET src == ins.args[1][2] IN
    CASE ins.op = "const" -> [st EXCEPT !.ints = Put(@, ins.dest, Constant(src))]
      [] ins.op = "load" -> TransferLoad(st, ins.dest, src)
      [] ins.op = "store" -> TransferStore(st, ins.what, src)
      [] ins.op = "binop" -> TransferBinop(st, ins)
      [] ins.op = "unop" /\ iv_neg(IvOf(st, ins.args[1])) # Top ->
           [st EXCEPT !.ints = Put(@, ins.dest, iv_neg(IvOf(st, ins.args[1])))]
      [] ins.op = "list_new" -> [st EXCEPT !.lens = Put(@, ins.dest, Constant(Len(ins.args)))]
      [] ins.op = "list_len" /\ src \in DOMAIN st.lens /\ IsNum(st.lens[src].lo) ->
           [st EXCEPT !.ints = Put(@, ins.dest, st.lens[src])]
      [] ins.op = "list_get" /\ src \in DOMAIN st.elems -> [st EXCEPT !.ints = Put(@, ins.dest, st.elems[src])]
      [] ins.op = "method" -> [st EXCEPT !.lens = Forget(@, src)]
      [] ins.op = "call" /\ ins.what = "range" -> TransferRange(st, ins)
      [] OTHER -> st

transfer_block(st, blk) == FoldLeft(transfer_instr, st, blk.instrs)

----------------------------------------------------------------------------
(* Joins and widening.                                                     *)

Common(f, g) == DOMAIN f \cap DOMAIN g
Agreed(f, g) == Keep(f, {n \in Common(f, g) : f[n] = g[n]})

\* Seeded fault: what either side knows is known after the join.
JoinedEither(a, b) ==
    [ints |-> [n \in DOMAIN a.ints \cup DOMAIN b.ints |->
                  IF n \notin DOMAIN a.ints THEN b.ints[n] ELSE IF n \notin DOMAIN b.ints THEN a.ints[n]
                  ELSE iv_widen(a.ints[n], b.ints[n])],
     lens |-> Agreed(a.lens, b.lens), elems |-> Agreed(a.elems, b.elems), nz |-> a.nz \cap b.nz]

\* Of two lower bounds of a length the weaker counts, but an unknown one does not.
LowerLen(a, b) == IF IsNum(a.lo) /\ IsNum(b.lo) THEN Num(Min({a.lo[2], b.lo[2]})) ELSE IF IsNum(a.lo) THEN a.lo ELSE b.lo

join_states(a, b) ==
    [ints |-> [n \in Common(a.ints, b.ints) |-> iv_widen(a.ints[n], b.ints[n])],
     lens |-> [n \in Common(a.lens, b.lens) |-> [lo |-> LowerLen(a.lens[n], b.lens[n]), hi |-> NoBound]],
     elems |-> Agreed(a.elems, b.elems),
     nz |-> a.nz \cap b.nz]

WidenedLen(a, b) == IF IsNum(a.lo) /\ IsNum(b.lo) /\ b.lo[2] >= a.lo[2] THEN a.lo ELSE NoBound

widen_state(prev, inp) ==
    [ints |-> [n \in Common(prev.ints, inp.ints) |-> widen_growth(prev.ints[n], inp.ints[n])],
     lens |-> [n \in Common(prev.lens, inp.lens) |-> [lo |-> WidenedLen(prev.lens[n], inp.lens[n]), hi |-> NoBound]],
     elems |-> Agreed(prev.elems, inp.elems),
     nz |-> prev.nz \cap inp.nz]

----------------------------------------------------------------------------
(* The fixpoint over the blocks.                                           *)

Headers(irf) == {h \in DOMAIN irf.blocks : BackEdges(irf, h) # {}}

\* Depth first from the stack's top, the blocks that are finished last come first.
RECURSIVE ReversePostorder(_, _, _, _)
ReversePostorder(irf, stack, visited, order) ==
    IF stack = <<>> THEN order
    ELSE LET n == Last(stack)[1]  rest == Front(stack) IN
         IF Last(stack)[2] THEN ReversePostorder(irf, rest, visited, <<n>> \o order)
         ELSE IF n \in visited THEN ReversePostorder(irf, rest, visited, order)
         ELSE LET New(m) == m \notin visited \cup {n}
                  onwards == SelectSeq(irf.blocks[n].term.to, New)
              IN  ReversePostorder(irf, rest \o <<<<n, TRUE>>>> \o [i \in DOMAIN onwards |-> <<onwards[i], FALSE>>],
                                   visited \cup {n}, order)
rpo(irf) == ReversePostorder(irf, <<<<1, FALSE>>>>, {}, <<>>)

\* r.into and r.out: the states at the ends of the blocks reached so far.
BlockInput(irf, entry, r, n) ==
    LET from == Preds(irf, n) \cap DOMAIN r.out
        first == CHOOSE m \in from : TRUE
        Join(m, st) == join_states(st, r.out[m])
    IN  IF n = 1 THEN {entry} ELSE IF from = {} THEN {} ELSE {FoldSet(Join, r.out[first], from \ {first})}

RECURSIVE Iterated(_, _, _, _, _)
Iterated(irf, entry, queue, seen, r) ==
    IF queue = <<>> THEN r
    ELSE LET n == Head(queue)
             rounds == [seen EXCEPT ![n] = @ + 1]
             known == n \in DOMAIN r.into
             inputs == {IF n \in Headers(irf) /\ known THEN widen_state(r.into[n], st) ELSE st
                        : st \in BlockInput(irf, entry, r, n)}
         IN  IF rounds[n] > MAX_ROUNDS \/ inputs = {} \/ (known /\ inputs = {r.into[n]})
             THEN Iterated(irf, entry, Tail(queue), rounds, r)
             ELSE LET inp == CHOOSE st \in inputs : TRUE
                      Due(m) == rounds[m] <= MAX_ROUNDS
                  IN  Iterated(irf, entry, Tail(queue) \o SelectSeq(irf.blocks[n].term.to, Due), rounds,
                               [into |-> Put(r.into, n, inp), out |-> Put(r.out, n, transfer_block(inp, irf.blocks[n]))])

FromStart(irf, entry, r) == Iterated(irf, entry, rpo(irf), [n \in DOMAIN irf.blocks |-> 0], r)

\* The verification rounds: what an unchanged input leaves is contained in
\* itself, but for a symbolic bound, which nothing contains.
Symbolic(iv) == iv.lo[1] = "len" \/ iv.hi[1] = "len"
WithoutSymbols(st) == [st EXCEPT !.ints = Keep(@, {n \in DOMAIN @ : ~Symbolic(@[n])})]
RECURSIVE Settled(_, _, _, _)
Settled(irf, entry, r, rounds) ==
    LET Grows(n) == LET out == transfer_block(r.into[n], irf.blocks[n]) IN out # WithoutSymbols(out)
        topped == [r EXCEPT !.out = [n \in DOMAIN @ |-> WithoutSymbols(@[n])]]
    IN  IF rounds > 0 /\ \E n \in DOMAIN r.into : Grows(n)
        THEN Settled(irf, entry, FromStart(irf, entry, topped), rounds - 1)
        ELSE r

\* The verdicts, as pairs of a site and whether it was proven there.
VerdictsIn(st, blk) ==
    LET One(s, ins) == [st |-> transfer_instr(s.st, ins),
                        said |-> IF IsSite(ins) THEN s.said \cup {<<ins.at, SiteProven(s.st, ins)>>} ELSE s.said]
    IN  FoldLeft(One, [st |-> st, said |-> {}], blk.instrs).said

analyze_function(irf, entry) ==
    LET Said(r) == UNION {VerdictsIn(r.into[n], irf.blocks[n]) : n \in DOMAIN r.into}
    IN  Said(Settled(irf, entry, FromStart(irf, entry, [into |-> NoNames, out |-> NoNames]), VERIFY_ROUNDS))

\* The sites of main that the replay proves wherever they are left.
Replayed(clause, mod) ==
    LET Always(said) == {v[1] : v \in {w \in said : w[2] /\ <<w[1], FALSE>> \notin said}}
    IN  Always(analyze_function(mod["main"], seed_function(clause)))

----------------------------------------------------------------------------
(* A check that the replay proves dead is dead in the optimised program    *)
(* (hls-reverify.py: "an independent abstract interpreter re-derives a     *)
(* verdict for every check site the TRANSFORMED IR still contains").       *)
ReplayedAreDead ==
    "replayed" \in DOMAIN program =>
        (program.optimised.k = "panic" => program.optimised.at \notin program.replayed)
=============================================================================
