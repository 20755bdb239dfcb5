------------------------------ MODULE Streams ------------------------------
(***************************************************************************)
(* Streams: bounded channels of ints that end in a sentinel, and the       *)
(* combinators, each a worker that reads one stream or two and writes a    *)
(* stream of its own.  A program makes the stages of a pipeline one after  *)
(* another and drains the last; generators, workers and the program run at *)
(* the same time.  The interpreter and the native code run the same loops; *)
(* refs counts the references the native code keeps.                       *)
(*                                                                         *)
(* What a stage maps, keeps and expands is fixed here: what matters is who *)
(* waits for whom, and what becomes of the end.  Waiting is as in          *)
(* ChanRuntime, whose steps under the lock are one step here.              *)
(***************************************************************************)
EXTENDS Integers, Sequences, SequencesExt

CONSTANTS
    StreamCap,  \* messages a stream holds: 16, made small
    Pipelines   \* sequences of stages

End == -99      \* INT64_MIN
Value == Int \ {End}

\* A stage reads earlier ones only, and each stream is read once.
StageAt(i) ==
    [k : {"gen"}, xs : Seq(Value)]
    \cup [k : {"map", "filter", "flat_map"}, in : 1..(i - 1)]
    \cup [k : {"take"}, in : 1..(i - 1), n : Int]
    \cup {s \in [k : {"merge"}, a : 1..(i - 1), b : 1..(i - 1)] : s.a # s.b}
Sources(s) == CASE s.k = "gen" -> {} [] s.k = "merge" -> {s.a, s.b} [] OTHER -> {s.in}
IsPipeline(p) ==
    /\ Len(p) \in Nat \ {0} /\ DOMAIN p = 1..Len(p)
    /\ \A i \in 1..Len(p) : p[i] \in StageAt(i)
    /\ \A i, j \in 1..Len(p) : i # j => Sources(p[i]) \cap Sources(p[j]) = {}

ASSUME StreamsAssumption ==
    /\ StreamCap \in Nat \ {0}
    /\ \A p \in Pipelines : IsPipeline(p)

VARIABLES
    stages,     \* the pipeline of this run
    q,          \* q[i]: what is in the stream that stage i writes
    forwarded,  \* a flat_map's stream of the moment, and what its generator has still to send
    worker,     \* where each worker is
    box,        \* what it sends next
    taken,      \* values that a take has forwarded
    ended,      \* the sides of a merge that have ended
    side,       \* the side it reads next
    main,       \* how far the program is
    got,        \* what it has drained
    refs        \* references to each stream, 0 once it is freed

streamVars == <<stages, q, forwarded, worker, box, taken, ended, side, main, got, refs>>

Stage == DOMAIN stages
Last_ == Len(stages)

Doubled(v) == 2 * v
Kept(v) == v % 2 = 0
Expanded(v) == [j \in 1..v |-> v]

StreamsInit ==
    /\ stages \in Pipelines
    /\ q = [i \in Stage |-> <<>>]
    /\ forwarded = [i \in Stage |-> [q |-> <<>>, rest |-> <<>>]]
    /\ worker = [i \in Stage |-> "absent"]
    /\ box = [i \in Stage |-> <<>>]
    /\ taken = [i \in Stage |-> 0]
    /\ ended = [i \in Stage |-> {}]
    /\ side = [i \in Stage |-> "a"]
    /\ main = [at |-> "make", i |-> 1]
    /\ got = <<>>
    /\ refs = [i \in Stage |-> 0]

WorkerGoesTo(i, step) == worker' = [worker EXCEPT ![i] = step]
Sends(i, v, step) == box' = [box EXCEPT ![i] = v] /\ WorkerGoesTo(i, step)
Closes(i) == Sends(i, <<End>>, "close")
TakesFrom(j) == q[j] # <<>> /\ q' = [q EXCEPT ![j] = Tail(@)]

\* Seeded fault: a take counts the value that it is about to read.
TakenAllEarly(i, count) == count + 1 >= stages[i].n

\* The condition of a take's loop, before it reads again.
TakenAll(i, count) == count >= stages[i].n

----------------------------------------------------------------------------
(* The program: a generator or a worker starts in the call that makes its  *)
(* stream, before the result is bound.  The first reference is that of the *)
(* generator's parameter; a worker's stream has one that nobody owns.      *)

Make ==
    LET i == main.i  s == stages[i] IN
    /\ main.at = "make"
    /\ main' = [main EXCEPT !.at = "bind"]
    /\ refs' = [refs EXCEPT ![i] = 1]
    /\ CASE s.k = "gen"                     -> Sends(i, s.xs \o <<End>>, "generate")
         [] s.k = "take" /\ TakenAll(i, 0)  -> Closes(i)
         [] OTHER                           -> WorkerGoesTo(i, "read") /\ UNCHANGED box
    /\ UNCHANGED <<stages, q, forwarded, taken, ended, side, got>>

Bind ==
    /\ main.at = "bind"
    /\ main' = IF main.i = Last_ THEN [at |-> "drain", i |-> 1] ELSE [at |-> "make", i |-> main.i + 1]
    /\ refs' = [refs EXCEPT ![main.i] = IF @ = 0 THEN 0 ELSE @ + 1]
    /\ UNCHANGED <<stages, q, forwarded, worker, box, taken, ended, side, got>>

\* stream_fold_int, and stream_drain_int of the library: up to the sentinel.
DrainStream ==
    /\ main.at = "drain" /\ TakesFrom(Last_)
    /\ IF Head(q[Last_]) = End THEN main' = [main EXCEPT !.at = "leave"] /\ UNCHANGED got
       ELSE got' = Append(got, Head(q[Last_])) /\ UNCHANGED main
    /\ UNCHANGED <<stages, forwarded, worker, box, taken, ended, side, refs>>

\* The end of a block releases what is bound in it: a function that makes the
\* pipeline returns its last stream, and the program that drains it ends.
Released(streams) == refs' = [i \in Stage |-> IF i \in streams /\ refs[i] > 0 THEN refs[i] - 1 ELSE refs[i]]
ReturnPipeline ==
    /\ main = [at |-> "drain", i |-> 1] /\ main' = [main EXCEPT !.i = 2]
    /\ Released(Stage \ {Last_})
    /\ UNCHANGED <<stages, q, forwarded, worker, box, taken, ended, side, got>>
Leave ==
    /\ main.at = "leave" /\ main' = [main EXCEPT !.at = "left"]
    /\ Released(IF main.i = 1 THEN Stage ELSE {Last_})
    /\ UNCHANGED <<stages, q, forwarded, worker, box, taken, ended, side, got>>

----------------------------------------------------------------------------
(* Generators and workers.                                                 *)

\* A generator sends its values and the sentinel, and its return releases its parameter.
Generate(i) ==
    /\ worker[i] = "generate" /\ Len(q[i]) < StreamCap
    /\ q' = [q EXCEPT ![i] = Append(@, Head(box[i]))]
    /\ Sends(i, Tail(box[i]), IF Len(box[i]) = 1 THEN "return" ELSE "generate")
    /\ UNCHANGED <<stages, forwarded, taken, ended, side, main, got, refs>>
GeneratorReturns(i) ==
    /\ worker[i] = "return" /\ WorkerGoesTo(i, "done")
    /\ Released({i})
    /\ UNCHANGED <<stages, q, forwarded, box, taken, ended, side, main, got>>

\* What a worker holds goes out; after the sentinel it is done.
WorkerSends(i) ==
    /\ worker[i] \in {"send", "close"} /\ Len(q[i]) < StreamCap
    /\ q' = [q EXCEPT ![i] = Append(@, box[i][1])]
    /\ taken' = [taken EXCEPT ![i] = @ + 1]
    /\ IF worker[i] = "close" THEN Sends(i, <<>>, "done")
       ELSE IF stages[i].k = "take" /\ TakenAll(i, taken[i] + 1) THEN Closes(i)
       ELSE Sends(i, <<>>, IF stages[i].k = "flat_map" THEN "inner" ELSE "read")
    /\ UNCHANGED <<stages, forwarded, ended, side, main, got, refs>>

\* Seeded fault: a filter drops the sentinel, which is no value to keep.
FilterDropsTheEnd(i, v) == IF v % 2 = 0 THEN Sends(i, <<v>>, "send") ELSE UNCHANGED <<worker, box>>

Filter(i, v) ==
    IF v = End THEN Closes(i) ELSE IF Kept(v) THEN Sends(i, <<v>>, "send") ELSE UNCHANGED <<worker, box>>

\* A worker with one input reads it.
Read(i) ==
    LET s == stages[i]  v == Head(q[s.in]) IN
    /\ worker[i] = "read" /\ s.k \in {"map", "filter", "flat_map", "take"}
    /\ TakesFrom(s.in)
    /\ CASE s.k = "filter"                  -> Filter(i, v) /\ UNCHANGED forwarded
         [] v = End /\ s.k # "filter"       -> Closes(i) /\ UNCHANGED forwarded
         [] v # End /\ s.k = "map"          -> Sends(i, <<Doubled(v)>>, "send") /\ UNCHANGED forwarded
         [] v # End /\ s.k = "take"         -> Sends(i, <<v>>, "send") /\ UNCHANGED forwarded
         [] v # End /\ s.k = "flat_map"     ->
                /\ forwarded' = [forwarded EXCEPT ![i] = [q |-> <<>>, rest |-> Append(Expanded(v), End)]]
                /\ WorkerGoesTo(i, "inner") /\ UNCHANGED box
    /\ UNCHANGED <<stages, taken, ended, side, main, got, refs>>

\* The generator of the stream that a flat_map forwards, and the forwarding.
GenerateInner(i) ==
    /\ forwarded[i].rest # <<>> /\ Len(forwarded[i].q) < StreamCap
    /\ forwarded' = [forwarded EXCEPT ![i] = [q |-> Append(@.q, Head(@.rest)), rest |-> Tail(@.rest)]]
    /\ UNCHANGED <<stages, q, worker, box, taken, ended, side, main, got, refs>>
ReadInner(i) ==
    LET v == Head(forwarded[i].q) IN
    /\ worker[i] = "inner" /\ forwarded[i].q # <<>>
    /\ forwarded' = [forwarded EXCEPT ![i].q = Tail(@)]
    /\ IF v = End THEN WorkerGoesTo(i, "read") /\ UNCHANGED box ELSE Sends(i, <<v>>, "send")
    /\ UNCHANGED <<stages, q, taken, ended, side, main, got, refs>>

\* A merge reads its sides in turn, an ended side no more.
Other(x) == IF x = "a" THEN "b" ELSE "a"
ReadMerge(i) ==
    LET j == stages[i][side[i]]  v == Head(q[j])  over == IF v = End THEN ended[i] \cup {side[i]} ELSE ended[i] IN
    /\ worker[i] = "read" /\ stages[i].k = "merge"
    /\ TakesFrom(j)
    /\ ended' = [ended EXCEPT ![i] = over]
    /\ side' = [side EXCEPT ![i] = IF Other(@) \in over THEN @ ELSE Other(@)]
    /\ IF v # End THEN Sends(i, <<v>>, "send")
       ELSE IF over = {"a", "b"} THEN Closes(i) ELSE UNCHANGED <<worker, box>>
    /\ UNCHANGED <<stages, forwarded, taken, main, got, refs>>

StreamsNext ==
    \/ Make \/ Bind \/ DrainStream \/ ReturnPipeline \/ Leave
    \/ \E i \in Stage : Generate(i) \/ GeneratorReturns(i) \/ WorkerSends(i) \/ Read(i) \/ GenerateInner(i) \/ ReadInner(i) \/ ReadMerge(i)

----------------------------------------------------------------------------
(* What is checked *)

\* The list each stage is to give, were it a function of lists.
DoubledAll(x) == [j \in 1..Len(x) |-> Doubled(x[j])]
KeptOf(x) == FlattenSeq([j \in 1..Len(x) |-> IF Kept(x[j]) THEN <<x[j]>> ELSE <<>>])
ExpandedAll(x) == FlattenSeq([j \in 1..Len(x) |-> Expanded(x[j])])
FirstFew(x, count) == SubSeq(x, 1, IF count < Len(x) THEN count ELSE Len(x))
\* In turn while both last, then the rest of the longer one.
Merged(x, y) ==
    LET both == IF Len(x) < Len(y) THEN Len(x) ELSE Len(y)
        longer == IF Len(x) < Len(y) THEN y ELSE x
    IN  [j \in 1..(Len(x) + Len(y)) |->
            IF j > 2 * both THEN longer[j - both] ELSE IF j % 2 = 1 THEN x[(j + 1) \div 2] ELSE y[j \div 2]]
\* What a stage makes of the lists f of its sources, from the value gone + 1 of a
\* take and from the side turn of a merge.
Given(s, f, gone, turn) ==
    CASE s.k = "gen"      -> s.xs
      [] s.k = "map"      -> DoubledAll(f[s.in])
      [] s.k = "filter"   -> KeptOf(f[s.in])
      [] s.k = "flat_map" -> ExpandedAll(f[s.in])
      [] s.k = "take"     -> FirstFew(f[s.in], s.n - gone)
      [] s.k = "merge"    -> IF turn = "a" THEN Merged(f[s.a], f[s.b]) ELSE Merged(f[s.b], f[s.a])
ListOf[i \in Stage] == Given(stages[i], ListOf, 0, "a")

\* Whatever the interleaving, a pipeline gives the values of the list functions
\* it is made of, in their order, and ends when they do: no stage loses, adds
\* or reorders a value, or passes the end on early.
PipelinesAreFunctions ==
    /\ IsPrefix(got, ListOf[Last_])
    /\ main.at \in {"leave", "left"} => got = ListOf[Last_]

\* A pipeline comes to rest only when the program is through, and then every
\* worker has ended, save those whose values a take has left unread.
Upstream[i \in Stage] == Sources(stages[i]) \cup UNION {Upstream[j] : j \in Sources(stages[i])}
AboveATake(i) == \E j \in Stage : stages[j].k = "take" /\ i \in Upstream[j]
RestsWhenDrained ==
    ~ENABLED StreamsNext =>
        main.at = "left" /\ \A i \in Stage : worker[i] = "done" \/ AboveATake(i)

\* The comment at hl_chan_release: nobody who sends to a stream or receives from
\* it is left when its last reference goes.
Receives(j) == IF worker[j] # "read" THEN {} ELSE IF stages[j].k = "merge" THEN {stages[j][side[j]]} ELSE {stages[j].in}
NoUserAtLastRelease ==
    \A i \in Stage : worker[i] # "absent" /\ refs[i] = 0 =>
        worker[i] = "done" /\ \A j \in Stage : i \notin Receives(j)
=============================================================================
