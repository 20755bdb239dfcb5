----------------------------- MODULE DevServer -----------------------------
(***************************************************************************)
(* The development server (tools/hlserve_parts): the main thread compiles  *)
(* once and then serves; the watcher thread polls the sources, waits until *)
(* saves settle, compiles again and broadcasts the result; every browser   *)
(* tab has a handler thread that subscribes it to the message bus, and a   *)
(* reader that unsubscribes it.  Saves and tabs come and go at any time.   *)
(*                                                                         *)
(* An action ends where another thread can come in between: at each file   *)
(* the compiler reads, each message sent, each lock given back.            *)
(***************************************************************************)
EXTENDS Naturals, Sequences, FiniteSets

CONSTANTS
    File,       \* the watched sources
    Tab,        \* the connections browser tabs may open
    MaxSaves,   \* saves and deletions of the user
    Polls,      \* polls in the debounce interval
    HotReload   \* cfg.hot_reload

ASSUME DevServerAssumption ==
    /\ File # {}
    /\ MaxSaves \in Nat
    /\ Polls \in Nat \ {0}
    /\ HotReload \in BOOLEAN

VARIABLES
    disk,       \* disk[f]: its modification time and what a compiler makes of it
    saves,      \* saves so far
    mainpc,     \* "compile", "announce", "bind", "serve"
    watcher,    \* FileWatcher: pc, _mtimes, _pending_files, polls since _pending_since,
                \* and the times it was seeded with (history)
    build,      \* the compilation in progress: files to read, what was read
    built,      \* the last compilation: its number, the times it read, its result
    bannerOff,  \* HlsDevHTTPHandler.last_compile_ok
    script,     \* messages the compiling thread has still to broadcast
    cast,       \* the broadcast in progress
    last,       \* HmrBus._last_state
    clients,    \* HmrBus._clients
    tab         \* tab[t]: where its subscription is, its socket, what it was sent

compileVars == <<build, built, bannerOff>>
busVars == <<script, cast, last>>
serveVars == <<disk, saves, mainpc, watcher, compileVars, busVars, clients, tab>>

NoMessage == [kind |-> "none", n |-> 0]
Message(k, num) == [kind |-> k, n |-> num]

Times == [f \in File |-> disk[f].time]

ServeInit ==
    /\ \E s \in [File -> {"good", "bad"}] : disk = [f \in File |-> [time |-> 1, state |-> s[f]]]
    /\ saves = 0
    /\ mainpc = "compile"
    /\ watcher = [pc |-> "off", mtimes |-> [f \in File |-> 0],
                  pending |-> {}, age |-> 0, seed |-> [f \in File |-> 0]]
    /\ build = [todo |-> File, read |-> disk]
    /\ built = [n |-> 0, times |-> [f \in File |-> 0], ok |-> FALSE]
    /\ bannerOff = TRUE
    /\ script = <<>>
    /\ cast = [stage |-> "idle", todo |-> {}, dead |-> {}]
    /\ last = NoMessage
    /\ clients = {}
    /\ tab = [t \in Tab |-> [at |-> "off", open |-> FALSE, alive |-> FALSE,
                             held |-> NoMessage, shown |-> NoMessage, got |-> {}]]

-----------------------------------------------------------------------------
(* The user *)

Save(f) ==
    /\ saves < MaxSaves
    /\ saves' = saves + 1
    /\ \E s \in {"good", "bad", "absent"} : disk' = [disk EXCEPT ![f] = [time |-> saves + 2, state |-> s]]
    /\ UNCHANGED <<mainpc, watcher, compileVars, busVars, clients, tab>>

-----------------------------------------------------------------------------
(* Compiling, by the main thread first and by the watcher from then on *)

Compiling == (mainpc = "compile" \/ watcher.pc = "compile") /\ script = <<>>

ReadSource(f) ==
    /\ Compiling
    /\ f \in build.todo
    /\ build' = [todo |-> build.todo \ {f}, read |-> [build.read EXCEPT ![f] = disk[f]]]
    /\ UNCHANGED <<disk, saves, mainpc, watcher, built, bannerOff, busVars, clients, tab>>

\* The messages that tell a result; only "ok" and "errors" are remembered.
Announcement(ok, n) ==
    IF ~ok THEN <<Message("errors", n)>>
    ELSE IF mainpc = "compile" THEN <<Message("ok", n)>>
    ELSE IF HotReload THEN <<Message("progress", n), Message("hot-reload", n), Message("ok", n)>>
    ELSE <<Message("progress", n), Message("ok", n), Message("reload", n)>>

FinishBuild ==
    /\ Compiling
    /\ build.todo = {}
    /\ LET ok == \A f \in File : build.read[f].state = "good" IN
       /\ built' = [n |-> built.n + 1, times |-> [f \in File |-> build.read[f].time], ok |-> ok]
       /\ bannerOff' = ok
       /\ script' = Announcement(ok, built.n + 1)
    /\ IF mainpc = "compile"
       THEN mainpc' = "announce" /\ UNCHANGED watcher
       ELSE watcher' = [watcher EXCEPT !.pc = "announce"] /\ UNCHANGED mainpc
    /\ UNCHANGED <<disk, saves, build, cast, last, clients, tab>>

\* main, once the first result is announced: the watcher takes the times the
\* files have now for known, and starts.
StartWatcher ==
    /\ mainpc = "announce"
    /\ script = <<>>
    /\ mainpc' = "bind"
    /\ LET seed == [f \in File |-> IF disk[f].state = "absent" THEN 0 ELSE Times[f]] IN
       watcher' = [watcher EXCEPT !.pc = "scan", !.mtimes = seed, !.seed = seed]
    /\ UNCHANGED <<disk, saves, compileVars, busVars, clients, tab>>

\* make_server fills in the handler class, its verdict on the last compilation too.
MakeServer ==
    /\ mainpc = "bind"
    /\ mainpc' = "serve"
    /\ bannerOff' = TRUE
    /\ UNCHANGED <<disk, saves, watcher, build, built, busVars, clients, tab>>

-----------------------------------------------------------------------------
(* The watcher *)

\* A deleted file is not reported, a file that is back is.
Changed == {f \in File : disk[f].state # "absent" /\ disk[f].time # watcher.mtimes[f]}

Scan ==
    /\ watcher.pc = "scan"
    /\ watcher' = [watcher EXCEPT
                     !.pc = "poll",
                     !.mtimes = [f \in File |-> IF f \in Changed THEN Times[f] ELSE @[f]],
                     !.pending = @ \cup Changed,
                     !.age = IF Changed # {} THEN 0 ELSE @]
    /\ UNCHANGED <<disk, saves, mainpc, compileVars, busVars, clients, tab>>

\* After a sleep: fire if the last change is old enough.  A scan may be slow,
\* so that the interval can be over before Polls polls are.
Poll ==
    /\ watcher.pc = "poll"
    /\ \E settled \in {watcher.age + 1 >= Polls, TRUE} :
         IF watcher.pending # {} /\ settled
         THEN /\ watcher' = [watcher EXCEPT !.pc = "compile", !.pending = {}, !.age = 0]
              /\ build' = [build EXCEPT !.todo = File]
              /\ script' = <<Message("progress", built.n)>>
         ELSE /\ watcher' = [watcher EXCEPT !.pc = "scan", !.age = IF @ < Polls THEN @ + 1 ELSE @]
              /\ UNCHANGED <<build, script>>
    /\ UNCHANGED <<disk, saves, mainpc, built, bannerOff, cast, last, clients, tab>>

\* Seeded fault: the watcher seeds itself again after a compilation, so as not
\* to see what the compilation wrote.
BackToScanReseeded ==
    /\ watcher.pc = "announce"
    /\ script = <<>>
    /\ watcher' = [watcher EXCEPT !.pc = "scan", !.mtimes = Times]
    /\ UNCHANGED <<disk, saves, mainpc, compileVars, busVars, clients, tab>>

\* on_change returns.
BackToScan ==
    /\ watcher.pc = "announce"
    /\ script = <<>>
    /\ watcher' = [watcher EXCEPT !.pc = "scan"]
    /\ UNCHANGED <<disk, saves, mainpc, compileVars, busVars, clients, tab>>

-----------------------------------------------------------------------------
(* The bus *)

Remembered == {"ok", "errors"}

BeginCast ==
    /\ script # <<>>
    /\ cast.stage = "idle"
    /\ last' = IF Head(script).kind \in Remembered THEN Head(script) ELSE last
    /\ cast' = [cast EXCEPT !.stage = "remembered"]
    /\ UNCHANGED <<disk, saves, mainpc, watcher, compileVars, script, clients, tab>>

ListClients ==
    /\ cast.stage = "remembered"
    /\ cast' = [cast EXCEPT !.stage = "sending", !.todo = clients]
    /\ UNCHANGED <<disk, saves, mainpc, watcher, compileVars, script, last, clients, tab>>

\* HmrClient.send_json, and what the tab does with a state message.
Sent(r, m) ==
    IF ~r.alive THEN r
    ELSE IF ~r.open THEN [r EXCEPT !.alive = FALSE]
    ELSE IF m.kind \in Remembered THEN [r EXCEPT !.shown = m, !.got = @ \cup {m.n}]
    ELSE r

SendTo(t) ==
    /\ cast.stage = "sending"
    /\ t \in cast.todo
    /\ tab' = [tab EXCEPT ![t] = Sent(@, Head(script))]
    /\ cast' = [cast EXCEPT !.todo = @ \ {t}, !.dead = IF tab'[t].alive THEN @ ELSE @ \cup {t}]
    /\ UNCHANGED <<disk, saves, mainpc, watcher, compileVars, script, last, clients>>

EndCast ==
    /\ cast.stage = "sending"
    /\ cast.todo = {}
    /\ clients' = clients \ cast.dead
    /\ cast' = [stage |-> "idle", todo |-> {}, dead |-> {}]
    /\ script' = Tail(script)
    /\ UNCHANGED <<disk, saves, mainpc, watcher, compileVars, last, tab>>

-----------------------------------------------------------------------------
(* The tabs *)

\* HmrBus.subscribe: the tab is listed with the lock held, ...
Join(t) ==
    /\ mainpc = "serve"
    /\ tab[t].at = "off"
    /\ tab' = [tab EXCEPT ![t].at = "joined", ![t].open = TRUE, ![t].alive = TRUE]
    /\ clients' = clients \cup {t}
    /\ UNCHANGED <<disk, saves, mainpc, watcher, compileVars, busVars>>

\* ... the remembered state is read without it, ...
ReadLast(t) ==
    /\ tab[t].at = "joined"
    /\ tab' = [tab EXCEPT ![t].at = "replay", ![t].held = last]
    /\ UNCHANGED <<disk, saves, mainpc, watcher, compileVars, busVars, clients>>

\* Seeded fault: there is no replay.
ReplayNothing(t) ==
    /\ tab[t].at = "replay"
    /\ tab' = [tab EXCEPT ![t].at = "live"]
    /\ UNCHANGED <<disk, saves, mainpc, watcher, compileVars, busVars, clients>>

\* ... and sent.
Replay(t) ==
    /\ tab[t].at = "replay"
    /\ tab' = [tab EXCEPT ![t] = [Sent(@, @.held) EXCEPT !.at = "live"]]
    /\ UNCHANGED <<disk, saves, mainpc, watcher, compileVars, busVars, clients>>

CloseTab(t) ==
    /\ tab[t].open
    /\ tab' = [tab EXCEPT ![t].open = FALSE]
    /\ UNCHANGED <<disk, saves, mainpc, watcher, compileVars, busVars, clients>>

\* serve_client_loop ends: the socket is closed, or a send found it so.
Unsubscribe(t) ==
    /\ tab[t].at = "live"
    /\ ~tab[t].open
    /\ clients' = clients \ {t}
    /\ tab' = [tab EXCEPT ![t].at = "gone", ![t].alive = FALSE]
    /\ UNCHANGED <<disk, saves, mainpc, watcher, compileVars, busVars>>

-----------------------------------------------------------------------------

ServerStep ==
    \/ \E f \in File : ReadSource(f)
    \/ FinishBuild \/ StartWatcher \/ MakeServer
    \/ Scan \/ Poll \/ BackToScan
    \/ BeginCast \/ ListClients \/ EndCast
    \/ \E t \in Tab : SendTo(t)

TabStep(t) == ReadLast(t) \/ Replay(t) \/ Unsubscribe(t)

ServeNext ==
    \/ \E f \in File : Save(f)
    \/ ServerStep
    \/ \E t \in Tab : Join(t) \/ TabStep(t) \/ CloseTab(t)

\* Threads of the server are scheduled; the user owes nothing.
ServeFair == WF_serveVars(ServerStep) /\ \A t \in Tab : WF_serveVars(TabStep(t))

ServeSpec == ServeInit /\ [][ServeNext]_serveVars /\ ServeFair

-----------------------------------------------------------------------------
(* What is checked *)

Quiet == script = <<>> /\ watcher.pc # "compile"

\* No tab misses a result: when no broadcast is under way, every subscribed
\* tab that is still open has been sent the last state, by the broadcast or by
\* the replay, however its subscription and the broadcast overlapped.
EveryoneTold ==
    Quiet => \A t \in Tab : (tab[t].at = "live" /\ tab[t].open) => last.n \in tab[t].got

\* And a client the bus still lists is one whose reader has not ended.
ListedAreServed == \A t \in clients : tab[t].at \notin {"off", "gone"}

BusTellsAll == EveryoneTold /\ ListedAreServed

\* Once the watcher runs, the last build always catches up with the disk: a
\* save, whether it comes while a scan, a poll, a compilation or a broadcast is
\* under way, reaches a build.  A deletion is not a save, and what the watcher
\* was seeded with it takes for compiled.
UpToDate(f) ==
    \/ disk[f].state = "absent"
    \/ disk[f].time = watcher.seed[f]
    \/ disk[f].time = built.times[f]

SavesReachABuild == watcher.pc # "off" ~> \A f \in File : UpToDate(f)

\* What the comments promise: "Replay the last state so a new tab doesn't show
\* stale UI".
NewTabNotStale ==
    Quiet => \A t \in Tab : (tab[t].at = "live" /\ tab[t].open) => tab[t].shown = last

\* "Inject a status banner if the last compile failed."
BannerIfFailed == (mainpc = "serve" /\ Quiet) => bannerOff = built.ok
=============================================================================
