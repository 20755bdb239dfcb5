------------------------------ MODULE Builtins ------------------------------
(***************************************************************************)
(* The built-in functions of Halis, twice: as the checker types them       *)
(* (hlinterp/checking/call.py: the types of the arguments, the type of the *)
(* result, the edge of the call graph) and as the interpreter runs them    *)
(* (interp_parts/builtin.py: what comes back, and which faults of the host *)
(* end the call).  A call ends in a value, in a panic of the language, or  *)
(* in an exception of the host that nothing in the call catches.           *)
(*                                                                         *)
(* Integers have Width bits.  Floats and strings are classes: of a string  *)
(* only whether it is empty or holds a NUL byte counts, of a float only    *)
(* where the functions of the mathematical library change their ways; an   *)
(* "odd" string is one the host refuses as the name of what is asked for.  *)
(***************************************************************************)
EXTENDS Integers, Sequences, FiniteSets, TLC
LOCAL INSTANCE Bitwise

CONSTANTS
    Width,         \* bits of an int: 64, made small
    ByteMax,       \* largest byte: 255, made small
    PortMax,       \* largest port: 65535, made small
    RangeMax,      \* longest list that range() builds: 1000000, made small
    MaxHandles,    \* bound: sockets that one run opens
    MaxChildren,   \* bound: processes it starts
    IntArg, FloatArg, StrArg,  \* the arguments a run passes
    Passes(_, _)               \* and of these, the ones it passes to a built-in

VARIABLES
    sockets,    \* net_fds: what the handle of each open socket is
    opened,     \* sockets opened so far; the last one's handle
    children,   \* proc_children: the pipes of each child
    last        \* the last call and how it ended

builtinVars == <<sockets, opened, children, last>>

IntLow == -(2 ^ (Width - 1))
IntHigh == 2 ^ (Width - 1) - 1
Int_ == IntLow..IntHigh

BuiltinsAssumption ==
    /\ Width \in Nat \ {0, 1} /\ RangeMax \in Nat /\ MaxHandles \in Nat /\ MaxChildren \in Nat
    /\ ByteMax \in 0..IntHigh /\ PortMax \in 0..IntHigh
    /\ IntArg \subseteq Int_

(***************************************************************************)
(* What the checker says: argument types, result type.  "any" is checked   *)
(* by the function itself, and the result of "context" is the type the     *)
(* surrounding code asks for.                                              *)
(***************************************************************************)
Sig(args, ret) == [args |-> args, ret |-> ret]
All(names, sig) == [b \in names |-> sig]

ConsoleSig ==
    All({"print", "println", "eprint", "eprintln"}, Sig(<<"str">>, "void"))
    @@ [isatty |-> Sig(<<"int">>, "bool"), proc_pid |-> Sig(<<>>, "int"), sys_hostname |-> Sig(<<>>, "str"),
        panic |-> Sig(<<"str">>, "never"), exit |-> Sig(<<"int">>, "never")]

ValueSig ==
    [str |-> Sig(<<"int">>, "str"), int |-> Sig(<<"str">>, "int"), len |-> Sig(<<"str">>, "int"),
     range |-> Sig(<<"int", "int">>, "list[int]"), has_feature |-> Sig(<<"str">>, "bool"),
     cap_take |-> Sig(<<"str">>, "Cap"), cap_effect_name |-> Sig(<<"Cap">>, "str"),
     simd_cpu_supports |-> Sig(<<"str">>, "bool"), join |-> Sig(<<"list[str]", "str">>, "str")]
    @@ All({"int_and", "int_or", "int_xor", "int_shl", "int_shr", "int_sar"}, Sig(<<"int", "int">>, "int"))
    @@ All({"int_not", "int_popcount", "int_clz", "int_ctz"}, Sig(<<"int">>, "int"))

FileSig ==
    [map_new |-> Sig(<<>>, "context"), read_file |-> Sig(<<"str">>, "str"),
     read_file_tainted |-> Sig(<<"str">>, "tainted"), read_line |-> Sig(<<>>, "tainted"),
     write_file |-> Sig(<<"str", "str">>, "void"), args |-> Sig(<<>>, "list[str]"),
     tainted_args |-> Sig(<<>>, "list[tainted]"), taint_mark |-> Sig(<<"str">>, "tainted"),
     taint_unwrap |-> Sig(<<"tainted">>, "str"), chr |-> Sig(<<"int">>, "str")]

ThreadSig ==
    All({"clock_ms", "thread_current_id"}, Sig(<<>>, "int"))
    @@ [thread_sleep_ms |-> Sig(<<"int">>, "void"), thread_yield |-> Sig(<<>>, "void")]

MetadataSig ==
    All({"file_exists", "fs_is_dir"}, Sig(<<"str">>, "bool"))
    @@ [fs_read_dir |-> Sig(<<"str">>, "list[str]"), fs_size |-> Sig(<<"str">>, "int"),
        fs_set_perms |-> Sig(<<"str", "int">>, "void")]

OwnershipSig ==
    [drop |-> Sig(<<"str">>, "void"), clone |-> Sig(<<"str">>, "str"), take |-> Sig(<<"str">>, "str")]

NetSig ==
    [net_lookup |-> Sig(<<"str">>, "str"), net_tcp_connect |-> Sig(<<"str", "int">>, "int"),
     net_tcp_listen |-> Sig(<<"str", "int", "int">>, "int"), net_tcp_accept |-> Sig(<<"int">>, "int"),
     net_read |-> Sig(<<"int", "int">>, "str"), net_write |-> Sig(<<"int", "str">>, "int"),
     net_close |-> Sig(<<"int">>, "void"), net_udp_open |-> Sig(<<>>, "int"),
     net_udp_send_to |-> Sig(<<"int", "str", "int", "str">>, "int"),
     net_udp_recv_from |-> Sig(<<"int", "int">>, "str"), net_tls_get |-> Sig(<<"str", "int", "str">>, "str")]

ProcessSig ==
    [rand_int |-> Sig(<<"int">>, "int"), rand_float |-> Sig(<<>>, "float"), rand_seed |-> Sig(<<"int">>, "void"),
     proc_exec |-> Sig(<<"str">>, "int"), proc_spawn |-> Sig(<<"str", "list[str]", "int", "int", "int">>, "int"),
     proc_wait |-> Sig(<<"int">>, "int"), proc_kill |-> Sig(<<"int">>, "int"),
     proc_child_write |-> Sig(<<"int", "str">>, "int"), proc_child_read |-> Sig(<<"int", "int", "int">>, "str"),
     proc_child_close |-> Sig(<<"int", "int">>, "int")]

EnvironmentSig ==
    [env_get |-> Sig(<<"str">>, "str"), env_has |-> Sig(<<"str">>, "bool"), env_set |-> Sig(<<"str", "str">>, "void"),
     env_unset |-> Sig(<<"str">>, "void"), cwd_get |-> Sig(<<>>, "str"), cwd_set |-> Sig(<<"str">>, "int"),
     args_os |-> Sig(<<>>, "list[str]"), instant_now_ns |-> Sig(<<>>, "int"), system_time_now_ms |-> Sig(<<>>, "int")]

Raising == {"math_asin", "math_acos", "math_sinh", "math_cosh", "math_exp", "math_log", "math_log10",
            "math_log2", "math_sqrt", "math_tgamma", "math_lgamma"}
Unary == Raising \cup {"math_sin", "math_cos", "math_tan", "math_atan", "math_tanh", "math_cbrt", "math_erf", "math_erfc"}
Binary == {"math_atan2", "math_pow", "math_hypot", "math_fmod", "math_copysign"}
Predicates == {"math_isnan", "math_isinf", "math_isfinite", "math_signbit"}
MathSig ==
    All(Unary, Sig(<<"float">>, "float")) @@ All(Binary, Sig(<<"float", "float">>, "float"))
    @@ All(Predicates, Sig(<<"float">>, "bool"))

\* The first argument of the spawn family is a function, not a value.
TaskSig ==
    [chan_new |-> Sig(<<>>, "context"), chan_new_bounded |-> Sig(<<"int">>, "context"),
     spawn |-> Sig(<<>>, "Task"), select |-> Sig(<<"list[Chan]">>, "int")]
FutureSig ==
    [async_spawn |-> Sig(<<>>, "Future"), await |-> Sig(<<"Future">>, "str"), future_ready |-> Sig(<<"str">>, "context"),
     future_poll |-> Sig(<<"Future">>, "Option"), future_select |-> Sig(<<"list[Future]">>, "int")]
StreamSig ==
    [stream_new |-> Sig(<<"int">>, "context"), stream_send |-> Sig(<<"Stream", "str">>, "void"),
     stream_recv |-> Sig(<<"Stream">>, "str"), stream_try_recv |-> Sig(<<"Stream", "str">>, "str"),
     stream_len |-> Sig(<<"Stream">>, "int"), stream_close |-> Sig(<<"Stream">>, "void")]
CombinatorSig ==
    All({"stream_map_int", "stream_filter_int", "stream_flat_map_int"}, Sig(<<"Stream">>, "context"))
    @@ [stream_take_int |-> Sig(<<"Stream", "int">>, "context"), stream_fold_int |-> Sig(<<"Stream", "int">>, "int"),
        stream_merge_int |-> Sig(<<"Stream", "Stream">>, "context"), gen_spawn |-> Sig(<<>>, "context")]

Bits == {"int_and", "int_or", "int_xor", "int_shl", "int_shr", "int_sar", "int_not", "int_popcount", "int_clz", "int_ctz"}
Signature ==
    ConsoleSig @@ ValueSig @@ FileSig @@ ThreadSig @@ MetadataSig @@ OwnershipSig @@ NetSig @@ ProcessSig
    @@ EnvironmentSig @@ MathSig @@ TaskSig @@ FutureSig @@ StreamSig @@ CombinatorSig
Builtin == DOMAIN Signature
Socketry == DOMAIN NetSig \ {"net_lookup", "net_tls_get"}
Childcare == {"proc_spawn", "proc_wait", "proc_kill", "proc_child_write", "proc_child_read", "proc_child_close"}

(***************************************************************************)
(* The effects of each built-in, and the calls of which the checker makes  *)
(* no edge in the call graph.                                              *)
(***************************************************************************)
BUILTIN_EFFECTS ==
    All({"print", "println", "eprint", "eprintln", "isatty", "read_line"}, {"IO"})
    @@ All({"proc_pid", "sys_hostname", "proc_exec", "proc_spawn", "proc_wait", "proc_kill", "proc_child_write",
            "proc_child_read", "proc_child_close", "env_get", "env_has", "env_set", "env_unset", "cwd_get",
            "cwd_set", "args_os"}, {"Proc"})
    @@ All({"read_file", "read_file_tainted", "write_file"} \cup DOMAIN MetadataSig, {"Fs"})
    @@ All({"clock_ms", "instant_now_ns", "system_time_now_ms"}, {"Clock"})
    @@ All({"args", "tainted_args"}, {"Args"}) @@ All({"exit"}, {"Exit"})
    @@ All(DOMAIN NetSig, {"Net"}) @@ All({"rand_int", "rand_float", "rand_seed"}, {"Rand"})
    @@ All(DOMAIN TaskSig \cup DOMAIN FutureSig \cup DOMAIN StreamSig \cup DOMAIN CombinatorSig
           \cup {"thread_yield", "thread_current_id", "chan.send", "chan.recv", "task.join"}, {"Conc"})
    @@ All({"thread_sleep_ms"}, {"Clock", "Conc"})

EffectsOf(b) == IF b \in DOMAIN BUILTIN_EFFECTS THEN BUILTIN_EFFECTS[b] ELSE {}
NoEdge == (DOMAIN ValueSig \cup DOMAIN OwnershipSig \cup {"map_new", "taint_mark", "taint_unwrap", "chr"})

\* Built-ins and methods after which an interrupt handler is refused.
ALLOC_BUILTINS ==
    {"args", "args_os", "async_spawn", "chan_new", "chan_new_bounded", "chr", "cwd_get", "env_get", "fs_read_dir",
     "gen_spawn", "join", "map_new", "net_lookup", "net_read", "net_tls_get", "net_udp_recv_from", "proc_exec",
     "proc_spawn", "range", "read_file", "read_file_tainted", "read_line", "select", "spawn", "stream_new",
     "stream_send", "stream_map_int", "stream_filter_int", "stream_fold_int", "stream_flat_map_int",
     "stream_merge_int", "sys_hostname", "tainted_args", "future_select"}
ALLOC_METHOD_OPS == {"list.push", "map.set", "map.keys", "str.slice", "str.split", "str.trim", "int.to_str",
                     "float.to_str", "bool.to_str", "chan.send", "chan.try_send"}

\* What the interpreter's code for b reaches on the host.
Reaches(b) ==
    CASE b \in {"print", "println", "eprint", "eprintln", "isatty", "read_line"} -> "console"
      [] b \in {"read_file", "read_file_tainted", "write_file"} \cup DOMAIN MetadataSig -> "files"
      [] b \in {"clock_ms", "instant_now_ns", "system_time_now_ms", "thread_sleep_ms"} -> "clock"
      [] b \in {"args", "tainted_args", "args_os"} -> "arguments"
      [] b = "exit" -> "exit"
      [] b \in DOMAIN NetSig -> "network"
      [] b \in {"rand_int", "rand_float", "rand_seed"} -> "generator"
      [] b \in {"proc_pid", "sys_hostname", "env_get", "env_has", "env_set", "env_unset", "cwd_get", "cwd_set",
                "proc_exec"} \/ b \in DOMAIN ProcessSig -> "process"
      [] b \in DOMAIN TaskSig \cup DOMAIN FutureSig \cup DOMAIN StreamSig \cup DOMAIN CombinatorSig
         \/ b \in {"thread_yield", "thread_current_id", "chan.send", "chan.recv", "task.join"} -> "tasks"
      [] OTHER -> "nothing"

\* Any one effect of these licenses what b reaches.
Licenses ==
    [console |-> {"IO"}, files |-> {"Fs"}, clock |-> {"Clock"}, arguments |-> {"Args", "Proc"}, exit |-> {"Exit"},
     network |-> {"Net"}, generator |-> {"Rand"}, process |-> {"Proc"}, tasks |-> {"Conc"}]

----------------------------------------------------------------------------
(* What the interpreter does.                                              *)

IntV(n) == [int |-> n]
FloatV(c) == [float |-> c]
StrV(c) == [str |-> c]
Of(t) == [of |-> t]
TypeOf(v) == IF "of" \in DOMAIN v THEN v.of ELSE CHOOSE t \in DOMAIN v : TRUE

Gives(v) == [k |-> "value", v |-> v]
GivesOf(t) == Gives(Of(t))
Number(n) == Gives(IntV(n))
Text == Gives(StrV("text"))
Panics == [k |-> "panic"]
Leaves == [k |-> "exit"]
Escapes == [k |-> "traceback"]       \* an exception of the host, uncaught
Void == GivesOf("void")
TrueOrFalse == GivesOf("bool")
Failed == Number(-1)

Huge(n) == n \in {IntLow, IntHigh}    \* beyond the host's own integers
Nul(s) == s = "nul"
Values(t) ==
    CASE t = "int" -> {IntV(n) : n \in IntArg} [] t = "float" -> {FloatV(c) : c \in FloatArg}
      [] t = "str" -> {StrV(c) : c \in StrArg} [] OTHER -> {Of(t)}

RECURSIVE Arguments(_)
Arguments(types) ==
    IF types = <<>> THEN {<<>>}
    ELSE {<<v>> \o rest : v \in Values(Head(types)), rest \in Arguments(Tail(types))}

RunConsole(b, a) ==
    CASE b \in {"print", "println", "eprint", "eprintln"} -> {Void}
      [] b = "isatty" -> IF Huge(a[1].int) THEN {Escapes} ELSE {TrueOrFalse}
      [] b = "proc_pid" -> {Number(1)} [] b = "sys_hostname" -> {Text}
      [] b = "panic" -> {Panics} [] b = "exit" -> {Leaves}

\* parse_int panics on what is no number; range() on what is too long.
RunValue(b, a) ==
    CASE b = "str" -> {Text} [] b = "int" -> {Panics, Number(0)} [] b = "len" -> {Number(0), Number(1)}
      [] b = "range" -> IF a[2].int - a[1].int > RangeMax THEN {Panics} ELSE {GivesOf("list[int]")}
      [] b \in {"has_feature", "simd_cpu_supports"} -> {TrueOrFalse}
      [] b = "cap_take" -> {GivesOf("Cap")} [] b \in {"cap_effect_name", "join"} -> {Text}

Unsigned(n) == n % (2 ^ Width)

\* Seeded fault: the result is not brought back into 64 bits.
Unwrapped(v) == v

_i64_wrap(v) == LET u == v % (2 ^ Width) IN IF u > IntHigh THEN u - 2 ^ Width ELSE u
Ones(n) == Cardinality({i \in 0..(Width - 1) : (n \div 2 ^ i) % 2 = 1})
HighestOne(n) == IF n = 0 THEN -1 ELSE CHOOSE i \in 0..(Width - 1) : n \div 2 ^ i = 1
LowestOne(n) == IF n = 0 THEN Width ELSE CHOOSE i \in 0..(Width - 1) : n % (2 ^ i) = 0 /\ (n \div 2 ^ i) % 2 = 1

RunBits(b, a) ==
    LET x == a[1].int  u == Unsigned(x)  y == IF Len(a) = 2 THEN a[2].int ELSE 0  n == y % Width IN
    {Number(CASE b = "int_and" -> _i64_wrap(u & Unsigned(y)) [] b = "int_or" -> _i64_wrap(u | Unsigned(y))
              [] b = "int_xor" -> _i64_wrap(u ^^ Unsigned(y)) [] b = "int_not" -> _i64_wrap(-x - 1)
              [] b = "int_shl" -> _i64_wrap(x * 2 ^ n) [] b = "int_shr" -> _i64_wrap(u \div 2 ^ n)
              [] b = "int_sar" -> _i64_wrap(x \div 2 ^ n)
              [] b = "int_popcount" -> Ones(u) [] b = "int_clz" -> Width - 1 - HighestOne(u)
              [] b = "int_ctz" -> LowestOne(u))}

\* Only OSError is caught: a path with a NUL byte is a ValueError.
RunFile(b, a) ==
    CASE b = "map_new" -> {GivesOf("context")}
      [] b \in {"read_file", "fs_size"} -> IF Nul(a[1].str) THEN {Escapes} ELSE {Panics, IF b = "fs_size" THEN Number(0) ELSE Text}
      [] b = "read_file_tainted" -> IF Nul(a[1].str) THEN {Escapes} ELSE {Panics, GivesOf("tainted")}
      [] b = "write_file" -> IF Nul(a[1].str) THEN {Escapes} ELSE {Panics, Void}
      [] b \in {"read_line", "taint_mark"} -> {GivesOf("tainted")} [] b = "taint_unwrap" -> {Text}
      [] b \in {"args", "args_os"} -> {GivesOf("list[str]")} [] b = "tainted_args" -> {GivesOf("list[tainted]")}
      [] b = "chr" -> IF a[1].int \in 0..ByteMax THEN {Text} ELSE {Panics}
RunThread(b, a) ==
    CASE b \in {"clock_ms", "thread_current_id"} -> {Number(1)} [] b = "thread_yield" -> {Void}
      [] b = "thread_sleep_ms" -> IF a[1].int < 0 THEN {Panics} ELSE IF Huge(a[1].int) THEN {Escapes} ELSE {Void}
RunMetadata(b, a) ==
    CASE b \in {"file_exists", "fs_is_dir"} -> {TrueOrFalse}
      [] b = "fs_size" -> RunFile(b, a)
      [] b = "fs_read_dir" -> IF Nul(a[1].str) THEN {Escapes} ELSE {Panics, GivesOf("list[str]")}
      [] b = "fs_set_perms" -> IF Nul(a[1].str) \/ Huge(a[2].int) THEN {Escapes} ELSE {Panics, Void}
RunOwnership(b, a) == IF b = "drop" THEN {Void} ELSE {Gives(a[1])}
RunEnvironment(b, a) ==
    CASE b \in {"env_get", "cwd_get"} -> {Text} [] b = "env_has" -> {TrueOrFalse} [] b = "env_unset" -> {Void}
      [] b = "env_set" -> IF Nul(a[1].str) \/ Nul(a[2].str) \/ a[1].str = "" THEN {Escapes} ELSE {Void}
      [] b = "cwd_set" -> IF Nul(a[1].str) THEN {Escapes} ELSE {Number(0), Failed}
      [] b = "args_os" -> RunFile(b, a)
      [] b \in {"instant_now_ns", "system_time_now_ms"} -> {Number(1)}

(***************************************************************************)
(* The mathematical library of the host raises where that of C returns a   *)
(* NaN or an infinity; _libm brings the one back to the other.             *)
(***************************************************************************)
Infinite(c) == c \in {"inf", "-inf"}
DomainError(b, x) ==
    \/ b \in {"math_sin", "math_cos", "math_tan"} /\ Infinite(x)
    \/ b \in {"math_asin", "math_acos"} /\ x \in {"inf", "-inf", "big", "-big"}
    \/ b \in {"math_sqrt", "math_log", "math_log10", "math_log2"} /\ x \in {"-1", "-big", "-inf"}
    \/ b = "math_tgamma" /\ x \in {"-1", "-inf", "-big"}
    \/ b = "math_lgamma" /\ x \in {"-1", "0", "-0", "-big"}
RangeError(b, x) ==
    \/ b \in {"math_sinh", "math_cosh"} /\ x \in {"big", "-big"}
    \/ b \in {"math_exp", "math_tgamma", "math_lgamma"} /\ x = "big"

\* Seeded fault: only range errors are mapped, as math_sqrt of -1 would not be.
RangeErrorsOnly(b, x) == IF DomainError(b, x) THEN Escapes ELSE GivesOf("float")

_libm(b, x) == GivesOf("float")

RunUnary(b, x) ==
    IF b \in Raising THEN {_libm(b, x)}
    ELSE IF DomainError(b, x) \/ RangeError(b, x) THEN {Escapes} ELSE {GivesOf("float")}
\* The rule for a zero base asks whether the exponent is odd, of infinities too.
RunPow(x, y) == IF x \in {"0", "-0"} /\ y = "-inf" THEN {Escapes} ELSE {GivesOf("float")}
RunMath(b, a) ==
    CASE b \in Unary -> RunUnary(b, a[1].float) [] b = "math_pow" -> RunPow(a[1].float, a[2].float)
      [] b \in Binary -> {GivesOf("float")} [] b \in Predicates -> {TrueOrFalse}

\* A stream or channel needs room for a message; the rest of what these
\* functions do is the concurrency runtime.
RunTasks(b, a) ==
    IF b \in {"chan_new_bounded", "stream_new"} /\ a[1].int < 1 THEN {Panics}
    ELSE LET t == Signature[b].ret IN
         {CASE t = "int" -> Number(0) [] t = "str" -> Text [] OTHER -> GivesOf(t)}

RunProcess(b, a) ==
    CASE b = "rand_int" -> IF a[1].int <= 0 THEN {Panics} ELSE {Number(n) : n \in 0..(a[1].int - 1)}
      [] b = "rand_float" -> {GivesOf("float")} [] b = "rand_seed" -> {Void}
      [] b = "proc_exec" -> IF Nul(a[1].str) THEN {Escapes} ELSE {Number(n) : n \in 0..ByteMax}

\* A name that is no name of a host is an error of its encoding, not of the network.
RunLookup(b, a) ==
    IF a[1].str = "odd" \/ (b = "net_tls_get" /\ (Nul(a[1].str) \/ Nul(a[3].str))) THEN {Escapes} ELSE {Panics, Text}

Plain(b, a) ==
    CASE b \in Bits -> RunBits(b, a)
      [] b \in DOMAIN ConsoleSig -> RunConsole(b, a) [] b \in DOMAIN ValueSig \ Bits -> RunValue(b, a)
      [] b \in DOMAIN FileSig -> RunFile(b, a) [] b \in DOMAIN ThreadSig -> RunThread(b, a)
      [] b \in DOMAIN MetadataSig -> RunMetadata(b, a) [] b \in DOMAIN OwnershipSig -> RunOwnership(b, a)
      [] b \in DOMAIN EnvironmentSig -> RunEnvironment(b, a) [] b \in DOMAIN MathSig -> RunMath(b, a)
      [] b \in {"net_lookup", "net_tls_get"} -> RunLookup(b, a)
      [] b \in DOMAIN ProcessSig -> RunProcess(b, a) [] OTHER -> RunTasks(b, a)

----------------------------------------------------------------------------
(* Sockets: a handle is a number of its own, from 1 upwards.               *)

Ends(b, r) == last' = [of |-> b, r |-> r]
Answers(b, r) == Ends(b, r) /\ UNCHANGED <<sockets, opened, children>>

Call(b) ==
    /\ b \in Builtin \ (Socketry \cup Childcare)
    /\ \E a \in Arguments(Signature[b].args) : Passes(b, a) /\ \E r \in Plain(b, a) : Answers(b, r)

_net_next_fd == opened + 1

_net_register(b, kind) ==
    /\ opened < MaxHandles
    /\ opened' = opened + 1
    /\ sockets' = (_net_next_fd :> kind) @@ sockets
    /\ Ends(b, Number(_net_next_fd)) /\ UNCHANGED children

Refused(b, a) ==
    CASE b = "net_tcp_connect" -> a[1].str = "odd"
      [] b = "net_tcp_listen" -> a[1].str \in {"nul", "odd"} \/ a[2].int \notin 0..PortMax \/ Huge(a[3].int)
      [] b = "net_udp_open" -> FALSE
Kind(b) == [net_tcp_connect |-> "stream", net_tcp_listen |-> "listener", net_udp_open |-> "datagram"][b]

Open(b) ==
    \E a \in Arguments(Signature[b].args) :
        /\ Passes(b, a)
        /\ IF Refused(b, a) THEN Answers(b, Escapes)
           ELSE _net_register(b, Kind(b)) \/ Answers(b, Failed)

Accept ==
    \E h \in IntArg :
        \/ Answers("net_tcp_accept", Failed)
        \/ h \in DOMAIN sockets /\ sockets[h] = "listener" /\ _net_register("net_tcp_accept", "stream")

Receive(b) ==
    \E h, n \in IntArg :
        /\ Passes(b, <<IntV(h), IntV(n)>>)
        /\ IF n > 0 /\ h \in DOMAIN sockets /\ Huge(n) THEN Answers(b, Escapes)
           ELSE \/ Answers(b, Gives(StrV("")))
                \/ n > 0 /\ h \in DOMAIN sockets /\ sockets[h] # "listener" /\ Answers(b, Text)

Send(b) ==
    \E a \in Arguments(Signature[b].args) :
        /\ Passes(b, a)
        /\ IF a[1].int \in DOMAIN sockets /\ b = "net_udp_send_to" /\ a[2].str = "odd" THEN Answers(b, Escapes)
           ELSE \/ Answers(b, Failed)
                \/ a[1].int \in DOMAIN sockets /\ sockets[a[1].int] # "listener" /\ Answers(b, Number(1))

Close ==
    \E h \in IntArg :
        /\ sockets' = [g \in DOMAIN sockets \ {h} |-> sockets[g]]
        /\ Ends("net_close", Void) /\ UNCHANGED <<opened, children>>

----------------------------------------------------------------------------
(* Children: what their three pipes are.  Kind 1 asks for a pipe.          *)

Pipe(kind) == IF kind = 1 THEN "open" ELSE "none"

proc_spawn ==
    \E program \in StrArg, kinds \in [0..2 -> IntArg] :
        /\ Passes("proc_spawn", <<StrV(program)>>)
        /\ IF \E p \in 0..2 : kinds[p] \notin 0..2 THEN Answers("proc_spawn", Panics)
           ELSE IF Nul(program) THEN Answers("proc_spawn", Escapes)
           ELSE \/ Answers("proc_spawn", Panics)     \* no such program, or it is none
                \/ /\ Len(children) < MaxChildren
                   /\ children' = Append(children, [p \in 0..2 |-> Pipe(kinds[p])])
                   /\ Ends("proc_spawn", Number(Len(children'))) /\ UNCHANGED <<sockets, opened>>

\* A child may have gone since: the signal then fails, or is not sent at all.
Signal(b) ==
    \E pid \in IntArg :
        IF pid \notin DOMAIN children THEN Answers(b, Panics)
        ELSE Answers(b, Number(0)) \/ Answers(b, IF b = "proc_wait" THEN Number(ByteMax) ELSE Failed)

proc_child_write ==
    \E pid \in IntArg :
        IF pid \notin DOMAIN children THEN Answers("proc_child_write", Panics)
        ELSE \/ Answers("proc_child_write", Failed)
             \/ children[pid][0] = "open" /\ Answers("proc_child_write", Number(1))

proc_child_read ==
    \E pid, fd_kind, n \in IntArg :
        /\ Passes("proc_child_read", <<IntV(pid), IntV(fd_kind), IntV(n)>>)
        /\ LET pipe == children[pid][fd_kind] IN
           IF fd_kind \notin {1, 2} \/ n < 0 \/ pid \notin DOMAIN children THEN Answers("proc_child_read", Panics)
           ELSE IF pipe = "none" \/ n = 0 THEN Answers("proc_child_read", Gives(StrV("")))
           ELSE IF pipe = "closed" \/ Huge(n) THEN Answers("proc_child_read", Escapes)
           ELSE Answers("proc_child_read", Gives(StrV(""))) \/ Answers("proc_child_read", Text)

proc_child_close ==
    \E pid, fd_kind \in IntArg :
        IF fd_kind \notin 0..2 \/ pid \notin DOMAIN children THEN Answers("proc_child_close", Panics)
        ELSE \E r \in {Number(0), Failed} :
                /\ children' = [children EXCEPT ![pid][fd_kind] = IF @ = "none" THEN @ ELSE "closed"]
                /\ children[pid][fd_kind] = "none" => r = Number(0)
                /\ Ends("proc_child_close", r) /\ UNCHANGED <<sockets, opened>>

BuiltinsInit == sockets = <<>> /\ opened = 0 /\ children = <<>> /\ last = [of |-> "none"]
CallNext == \E b \in Builtin : Call(b)
SocketNext ==
    \/ \E b \in {"net_tcp_connect", "net_tcp_listen", "net_udp_open"} : Open(b)
    \/ Accept \/ Close
    \/ \E b \in {"net_read", "net_udp_recv_from"} : Receive(b)
    \/ \E b \in {"net_write", "net_udp_send_to"} : Send(b)
ChildNext ==
    \/ proc_spawn \/ proc_child_write \/ proc_child_read \/ proc_child_close
    \/ \E b \in {"proc_wait", "proc_kill"} : Signal(b)
BuiltinsNext == CallNext \/ SocketNext \/ ChildNext

\* A call gives a value of the type the checker promises, within the bits of an
\* int, or ends as the language says: it never ends in an error of the host.
CallsEndAsTyped ==
    last.of = "none" \/ last.r \in {Panics, Leaves}
    \/ /\ last.r # Escapes /\ TypeOf(last.r.v) = Signature[last.of].ret
       /\ TypeOf(last.r.v) = "int" => last.r.v.int \in Int_
=============================================================================
