------------------------------ MODULE Semver -------------------------------
(***************************************************************************)
(* Versions and requirements of the package manager                        *)
(* (tools/hpkg_parts/hpkg_semver.py), and the command that asks whether a  *)
(* version satisfies a requirement (hls-pkg semver sat).                   *)
(*                                                                         *)
(* A version is a core of three numbers and the identifiers of its         *)
(* pre-release tag; words are numbers from Word up, so that every word is  *)
(* above every number.  A requirement is a sequence of tokens, as they are *)
(* after the text was split.                                               *)
(***************************************************************************)
EXTENDS Naturals, Sequences

CONSTANTS
    Version,    \* versions that are asked about
    Requirement \* requirements: sequences of tokens

VARIABLES
    answer      \* the last answer: the version, the requirement, the verdict

VersionRecord == [core : [1..3 -> Nat], pre : Seq(Nat)]

\* What a token can be read as; high is the upper bound of a hyphen range.
Comparison == {">=", ">", "<=", "<", "="}
TokenRecord ==
    [form : Comparison \cup {"^", "~", "bare", "hyphen", "*"}, nums : Seq(Nat), pre : Seq(Nat),
     wildcard : BOOLEAN, high : Seq(Nat)]
AsRead(t) ==
    /\ Len(t.nums) <= (IF t.wildcard THEN 2 ELSE 3) /\ Len(t.high) <= 3
    /\ t.form = "*" => t.pre = <<>>

ASSUME SemverAssumption ==
    /\ Version \subseteq VersionRecord
    /\ \A req \in Requirement : req \in Seq(TokenRecord) /\ \A i \in DOMAIN req : AsRead(req[i])

Release(core) == [core |-> core, pre |-> <<>>]

-----------------------------------------------------------------------------
(* Precedence *)

\* The order of Python tuples: the first place where they differ, or the end
\* of one.
TupleBelow(s, t) ==
    \E i \in 1..Len(t) :
        /\ i <= Len(s) + 1
        /\ \A j \in 1..(i - 1) : s[j] = t[j]
        /\ i > Len(s) \/ s[i] < t[i]

\* A pre-release is below its release.
PrecedenceKey(v) == v.core \o <<IF v.pre = <<>> THEN 1 ELSE 0>> \o v.pre

Below(v, w) == TupleBelow(PrecedenceKey(v), PrecedenceKey(w))

ClauseHolds(c, v) ==
    CASE c.op = ">=" -> ~Below(v, c.bound)
      [] c.op = ">"  -> Below(c.bound, v)
      [] c.op = "<=" -> ~Below(c.bound, v)
      [] c.op = "<"  -> Below(v, c.bound)
      [] c.op = "="  -> PrecedenceKey(v) = PrecedenceKey(c.bound)

-----------------------------------------------------------------------------
(* Tokens.  nums holds the numbers written before the first wildcard.      *)

Given(t) == Len(t.nums)

\* The missing components of a partial are zeros.
Padded(nums) == [i \in 1..3 |-> IF i <= Len(nums) THEN nums[i] ELSE 0]

\* Everything from the floor up to the next value of component i.
UpTo(i, low) ==
    {[op |-> ">=", bound |-> low],
     [op |-> "<", bound |-> Release([j \in 1..3 |-> IF j < i THEN low.core[j]
                                                    ELSE IF j = i THEN low.core[j] + 1 ELSE 0])]}

\* Seeded fault: the zeros of a partial are taken for written ones.
CaretRangeFilled(t) ==
    LET low == [core |-> Padded(t.nums), pre |-> t.pre] IN
    UpTo(IF low.core[1] > 0 THEN 1 ELSE IF low.core[2] > 0 THEN 2 ELSE 3, low)

\* The first component that is not zero pins a caret range, a partial of
\* zeros its last one.
CaretRange(t) ==
    LET low == [core |-> Padded(t.nums), pre |-> t.pre] IN
    UpTo(IF low.core[1] > 0 \/ Given(t) = 1 THEN 1
         ELSE IF low.core[2] > 0 \/ Given(t) = 2 THEN 2 ELSE 3, low)

TildeRange(t) == UpTo(IF Given(t) >= 2 THEN 2 ELSE 1, [core |-> Padded(t.nums), pre |-> t.pre])

\* A bare core: exact, or the range of its prefix.
BareRange(t) ==
    IF t.wildcard THEN UpTo(IF Given(t) = 1 THEN 1 ELSE 2, Release(Padded(t.nums)))
    ELSE IF Given(t) = 3 THEN {[op |-> "=", bound |-> Release(t.nums)]}
    ELSE UpTo(Given(t), Release(Padded(t.nums)))

\* The upper bound of a hyphen range floats when it is partial.
HyphenRange(t) ==
    LET top == IF Len(t.high) = 3 THEN {[op |-> "<=", bound |-> Release(t.high)]}
               ELSE UpTo(IF Len(t.high) = 2 THEN 2 ELSE 1, Release(Padded(t.high)))
    IN {[op |-> ">=", bound |-> Release(Padded(t.nums))]} \cup {c \in top : c.op # ">="}

\* A wildcard under ^ or ~ and a partial bound of a comparator are refused.
Refused(t) ==
    \/ t.form \in {"^", "~"} /\ t.wildcard
    \/ t.form \in Comparison /\ Given(t) < 3
    \/ t.form \in {"bare", "hyphen"} /\ t.pre # <<>>

Comparators(t) ==
    CASE t.form = "^" -> CaretRange(t)
      [] t.form = "~" -> TildeRange(t)
      [] t.form = "bare" -> BareRange(t)
      [] t.form = "hyphen" -> HyphenRange(t)
      [] t.form = "*" -> {}
      [] t.form \in Comparison -> {[op |-> t.form, bound |-> [core |-> t.nums, pre |-> t.pre]]}

-----------------------------------------------------------------------------
(* Requirements *)

ParsesRequirement(req) == \A i \in 1..Len(req) : ~Refused(req[i])

ParsedRequirement(req) == UNION {Comparators(req[i]) : i \in 1..Len(req)}

\* A pre-release is only let in by a clause on its own core that carries one.
RequirementHolds(clauses, v) ==
    /\ \A c \in clauses : ClauseHolds(c, v)
    /\ v.pre # <<>> => \E c \in clauses : c.bound.pre # <<>> /\ c.bound.core = v.core

-----------------------------------------------------------------------------
(* hls-pkg semver sat *)

NoAnswer == [asked |-> FALSE]

SemverInit == answer = NoAnswer

Sat ==
    /\ ~answer.asked
    /\ \E v \in Version : \E req \in Requirement :
         answer' = [asked |-> TRUE, version |-> v, req |-> req,
                    says |-> IF ~ParsesRequirement(req) THEN "malformed"
                             ELSE IF RequirementHolds(ParsedRequirement(req), v) THEN "satisfies" ELSE "does not"]

SemverNext == Sat

SemverSpec == SemverInit /\ [][SemverNext]_answer

-----------------------------------------------------------------------------
(* What is checked *)

\* What the table of the dialect says of one token, without ranges: a caret
\* keeps everything up to the first number that is not zero (of the ones
\* written), a tilde and a partial keep the numbers written, but for the patch,
\* a hyphen range lies between its bounds, the upper one up to its precision.
Keeps(v, nums, n) == \A i \in 1..n : v.core[i] = nums[i]

Admits(t, v) ==
    LET floor == [core |-> Padded(t.nums), pre |-> t.pre]
        n == Given(t)
        pin == IF \E i \in 1..n : t.nums[i] > 0 THEN CHOOSE i \in 1..n : t.nums[i] > 0 /\ \A j \in 1..(i-1) : t.nums[j] = 0
               ELSE n
    IN
    CASE t.form = "^" -> ~Below(v, floor) /\ Keeps(v, t.nums, pin)
      [] t.form = "~" -> ~Below(v, floor) /\ Keeps(v, t.nums, IF n = 1 THEN 1 ELSE 2)
      [] t.form = "bare" -> Keeps(v, t.nums, n)
      [] t.form = "hyphen" -> ~Below(v, floor)
            /\ ~TupleBelow(t.high, SubSeq(v.core, 1, Len(t.high)))
      [] t.form = "*" -> TRUE
      [] t.form \in Comparison -> ClauseHolds([op |-> t.form, bound |-> floor], v)

\* A version is said to satisfy a requirement exactly when every token of the
\* requirement admits it, and, for a pre-release, when one of them names a
\* pre-release of its core.  (Requirements of several tokens with a pre-release
\* are left aside: there an upper bound lets in the pre-releases below it.  So
\* are *.* and bounds like it, of which the dialect says nothing: the code reads
\* the missing numbers as zeros.)
Begun(t) == t.form # "*" => t.nums # <<>> /\ (t.form = "hyphen" => t.high # <<>>)

SatisfiesAsDocumented ==
    (answer.asked /\ answer.says # "malformed"
     /\ (Len(answer.req) = 1 \/ \A i \in DOMAIN answer.req : answer.req[i].pre = <<>>)
     /\ \A i \in DOMAIN answer.req : Begun(answer.req[i])) =>
        (answer.says = "satisfies" <=>
            /\ \A i \in 1..Len(answer.req) : Admits(answer.req[i], answer.version)
            /\ answer.version.pre # <<>> =>
                 \E i \in 1..Len(answer.req) : /\ answer.req[i].pre # <<>>
                                               /\ answer.version.core = Padded(answer.req[i].nums))
=============================================================================
