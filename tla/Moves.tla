-------------------------------- MODULE Moves --------------------------------
(***************************************************************************)
(* The move checker (hlinterp/checking): one pass over a function body     *)
(* keeps the names whose value drop() or take() has consumed, and rejects  *)
(* a use of such a name.  The compiled code sets the name to NULL, so what *)
(* the checker lets through is a null dereference.                         *)
(*                                                                         *)
(* A pass carries the moved names, whether all uses were allowed so far,   *)
(* and the moves recorded at the break and continue edges of the innermost *)
(* loop; only the union of the edges is ever used.                         *)
(***************************************************************************)
EXTENDS Flow

Uses(names, st) == [st EXCEPT !.ok = @ /\ names \cap st.moved = {}]
mark_moved(x, st) == [st EXCEPT !.moved = @ \cup {x}]
revive_binding(x, st) == [st EXCEPT !.moved = @ \ {x}]

\* Seeded fault: what another path moved is forgotten where paths meet.
ThisPathOnly(st, others) == st

union_moved(st, others) == [st EXCEPT !.moved = @ \cup others]

RECURSIVE path_terminates(_, _)
path_terminates(stmts, inLoop) ==
    /\ stmts # <<>>
    /\ LET last == stmts[Len(stmts)] IN
       \/ last.k = "return"
       \/ last.k \in {"break", "continue"} /\ inLoop
       \/ last.k = "if" /\ path_terminates(last.then, inLoop) /\ path_terminates(last.els, inLoop)

RECURSIVE check_stmts(_, _, _)

\* An arm that never reaches the code after the if adds no moves to it.
CheckIf(s, st, inLoop) ==
    LET entry == Uses(Names(s.cond), st)
        then == check_stmts(s.then, entry, inLoop)
        els == check_stmts(s.els, [then EXCEPT !.moved = entry.moved], inLoop)
        joined == [els EXCEPT !.moved = entry.moved]
        afterThen == IF path_terminates(s.then, inLoop) THEN joined ELSE union_moved(joined, then.moved)
    IN  IF path_terminates(s.els, inLoop) THEN afterThen ELSE union_moved(afterThen, els.moved)

CheckBody(s, st) == LET out == check_stmts(s.body, st, TRUE) IN union_moved(out, out.continues)

\* After a continue edge the body is looked at again, until nothing changes.
RECURSIVE Reanalysed(_, _)
Reanalysed(s, st) ==
    LET out == CheckBody(s, st) IN
    IF out.moved = st.moved THEN out ELSE Reanalysed(s, out)

CheckLoop(s, st) ==
    LET once == CheckBody(s, [st EXCEPT !.breaks = {}, !.continues = {}, !.continued = FALSE])
        body == IF once.continued THEN Reanalysed(s, once) ELSE once
        cond == IF s.k = "while" THEN Uses(Names(s.cond), body) ELSE body
    IN  [union_moved(cond, cond.breaks)
            EXCEPT !.breaks = st.breaks, !.continues = st.continues, !.continued = st.continued]

CheckOne(s, st, inLoop) ==
    CASE s.k = "assign" -> revive_binding(s.target, Uses(Names(s.value), st))
      [] s.k = "rebind" -> revive_binding(s.of, st)
      [] s.k = "expr" -> Uses(Names(s.e), st)
      [] s.k = "return" -> Uses(Names(s.value), st)
      [] s.k = "index" -> Uses(Names(s.idx) \cup {s.of}, st)
      [] s.k = "resize" -> Uses({s.of}, st)
      [] s.k = "drop" -> mark_moved(s.of, Uses({s.of}, st))
      [] s.k = "if" -> CheckIf(s, st, inLoop)
      [] s.k = "while" -> CheckLoop(s, Uses(Names(s.cond), st))
      [] s.k = "for" -> CheckLoop(s, Uses(Names(s.from) \cup Names(s.to), st))
      [] s.k = "each" -> CheckLoop(s, Uses({s.of}, st))
      [] s.k = "break" -> [st EXCEPT !.breaks = @ \cup st.moved]
      [] s.k = "continue" -> [st EXCEPT !.continues = @ \cup st.moved, !.continued = TRUE]
      [] OTHER -> st

check_stmts(stmts, st, inLoop) ==
    IF stmts = <<>> THEN st ELSE check_stmts(Tail(stmts), CheckOne(Head(stmts), st, inLoop), inLoop)

check_fn(p) ==
    check_stmts(p.body, [moved |-> {}, ok |-> TRUE, breaks |-> {}, continues |-> {}, continued |-> FALSE],
                FALSE).ok

(* A function the checker accepts uses no value after it was dropped or    *)
(* taken, on any path: "a moved or dropped binding is unusable on every    *)
(* control-flow path" (SPEC.md:9258).  A loop whose body moves a name that *)
(* its next turn uses, or revives a name that no turn may revive, is       *)
(* accepted all the same.                                                  *)
NoUseAfterMove == fault.k = "moved" => ~program.accepted
=============================================================================
