---------------------------- MODULE Tools_proofs ----------------------------
(***************************************************************************)
(* Proofs about the programs around the compiler.                          *)
(*                                                                         *)
(* The message bus of the development server tells every tab, for any      *)
(* number of tabs, saves and sources: a message is remembered before the   *)
(* clients are listed, and a tab subscribes before it reads what is        *)
(* remembered, so that it is on the list or reads the message.             *)
(*                                                                         *)
(* The debugger's stack is the stack of calls, for any threads and depths, *)
(* until an evaluation overlaps a running task; and a thread whose panic   *)
(* was recorded raises no other, so that its depth stays the recorded one. *)
(***************************************************************************)
EXTENDS DevServer, Dap, TLAPS

-----------------------------------------------------------------------------
(* The development server: the inductive invariant *)

Messages == [kind : {"none", "ok", "errors", "progress", "hot-reload", "reload"}, n : Nat]
WatcherStates == {"off", "scan", "poll", "compile", "announce"}

TabRecord ==
    [at : {"off", "joined", "replay", "live", "gone"}, open : BOOLEAN, alive : BOOLEAN,
     held : Messages, shown : Messages, got : SUBSET Nat]

WatcherRecord ==
    [pc : WatcherStates, mtimes : [File -> Nat], pending : SUBSET File, age : Nat, seed : [File -> Nat]]

Stats == [File -> [time : Nat, state : {"good", "bad", "absent"}]]

SourcesTyped ==
    /\ disk \in Stats
    /\ saves \in Nat
    /\ build \in [todo : SUBSET File, read : Stats]
    /\ built \in [n : Nat, times : [File -> Nat], ok : BOOLEAN]
    /\ bannerOff \in BOOLEAN

BusTyped ==
    /\ script \in Seq(Messages)
    /\ cast \in [stage : {"idle", "remembered", "sending"}, todo : SUBSET Tab, dead : SUBSET Tab]
    /\ last \in Messages
    /\ clients \in SUBSET Tab

ServeTypeOK ==
    /\ SourcesTyped
    /\ mainpc \in {"compile", "announce", "bind", "serve"}
    /\ watcher \in WatcherRecord
    /\ BusTyped
    /\ tab \in [Tab -> TabRecord]

\* One thread broadcasts at a time, and no tab comes before there is a result.
OneBroadcaster ==
    /\ script = <<>> => cast.stage = "idle"
    /\ script # <<>> => mainpc = "announce" \/ watcher.pc \in {"compile", "announce"}
    /\ watcher.pc # "off" => mainpc \in {"bind", "serve"}
    /\ mainpc = "announce" =>
         \/ script = <<>> /\ last.kind \in Remembered
         \/ Len(script) = 1 /\ Head(script).kind \in Remembered
    /\ mainpc \in {"bind", "serve"} => last.kind \in Remembered
    /\ mainpc # "serve" => \A t \in Tab : tab[t].at = "off"

\* The message a broadcast sends is the remembered one, if it is one of a state.
BroadcastRemembered ==
    cast.stage # "idle" => (Head(script).kind \in Remembered => last = Head(script))

\* Who is open is subscribed and alive; a broadcast is for tabs that came, and
\* those it finds dead stay so.
OpenAreListed ==
    /\ \A t \in Tab : tab[t].open => /\ tab[t].alive
                                     /\ t \in clients
                                     /\ tab[t].at \in {"joined", "replay", "live"}
    /\ \A t \in cast.dead : ~tab[t].alive
    /\ \A t \in cast.todo \cup cast.dead : tab[t].at # "off"

\* The broadcast under way will send the last state to t.
Coming(t) ==
    /\ cast.stage # "idle"
    /\ Head(script) = last
    /\ cast.stage = "remembered" \/ t \in cast.todo

\* An open tab was sent the last state, is about to be, or holds it.
ToldOrComing ==
    \A t \in Tab : tab[t].open =>
        /\ tab[t].at = "live" => last.n \in tab[t].got \/ Coming(t)
        /\ tab[t].at = "replay" => tab[t].held = last \/ last.n \in tab[t].got \/ Coming(t)

ServeInv ==
    ServeTypeOK /\ OneBroadcaster /\ BroadcastRemembered /\ OpenAreListed /\ ListedAreServed /\ ToldOrComing

\* Nothing is built and nobody is connected.
LEMMA ServeInitially == ServeInit => ServeInv
<1> SUFFICES ASSUME ServeInit PROVE ServeInv
  OBVIOUS
<1> USE DevServerAssumption DEF ServeInit
<1>1. disk \in Stats
  BY DEF Stats
<1>2. SourcesTyped
  BY <1>1 DEF SourcesTyped
<1>3. watcher \in WatcherRecord
  BY DEF WatcherRecord, WatcherStates
<1>4. NoMessage \in Messages
  BY DEF NoMessage, Messages
<1>5. BusTyped
  BY <1>4 DEF BusTyped
<1>6. tab \in [Tab -> TabRecord]
  BY <1>4 DEF TabRecord
<1>7. OneBroadcaster /\ BroadcastRemembered /\ OpenAreListed /\ ListedAreServed /\ ToldOrComing
  BY DEF OneBroadcaster, BroadcastRemembered, OpenAreListed, ListedAreServed, ToldOrComing, Remembered
<1> QED
  BY <1>2, <1>3, <1>5, <1>6, <1>7 DEF ServeInv, ServeTypeOK

\* What happens to the sources, and to the watcher while no message is to be
\* sent, disturbs nothing of the invariant but the types.
LEMMA SourcesMove ==
    ASSUME ServeInv, ServeTypeOK',
           UNCHANGED <<mainpc, script, cast, last, clients, tab>>,
           watcher'.pc = watcher.pc \/ (watcher.pc # "off" /\ script = <<>>)
    PROVE  ServeInv'
BY DEF ServeInv, OneBroadcaster, BroadcastRemembered, OpenAreListed, ListedAreServed, ToldOrComing, Coming

\* A save changes a source, and nothing the bus knows.
LEMMA SaveKeeps == ASSUME ServeInv, NEW f \in File, Save(f) PROVE ServeInv'
<1>1. PICK s \in {"good", "bad", "absent"} : disk' = [disk EXCEPT ![f] = [time |-> saves + 2, state |-> s]]
  BY DEF Save
<1>2. disk' \in Stats
  BY <1>1 DEF ServeInv, ServeTypeOK, SourcesTyped, Stats
<1>3. SourcesTyped'
  BY <1>2 DEF ServeInv, ServeTypeOK, SourcesTyped, Save, compileVars
<1>4. ServeTypeOK'
  BY <1>3 DEF ServeInv, ServeTypeOK, BusTyped, Save, busVars
<1> QED
  BY <1>4, SourcesMove DEF Save, busVars

\* The build reads one source.
LEMMA ReadSourceKeeps == ASSUME ServeInv, NEW f \in File, ReadSource(f) PROVE ServeInv'
<1>1. disk[f] \in [time : Nat, state : {"good", "bad", "absent"}]
  BY DEF ServeInv, ServeTypeOK, SourcesTyped, Stats
<1>2. [build.read EXCEPT ![f] = disk[f]] \in Stats
  BY <1>1 DEF ServeInv, ServeTypeOK, SourcesTyped, Stats
<1>3. build' \in [todo : SUBSET File, read : Stats]
  BY <1>2 DEF ServeInv, ServeTypeOK, SourcesTyped, ReadSource
<1>4. SourcesTyped'
  BY <1>3 DEF ServeInv, ServeTypeOK, SourcesTyped, ReadSource
<1>5. ServeTypeOK'
  BY <1>4 DEF ServeInv, ServeTypeOK, BusTyped, ReadSource, busVars
<1> QED
  BY <1>5, SourcesMove DEF ReadSource, busVars

\* A tab is told once by a first result; a later one is remembered too.
LEMMA AnnouncementTyped ==
    ASSUME NEW ok \in BOOLEAN, NEW n \in Nat
    PROVE  /\ Announcement(ok, n) \in Seq(Messages)
           /\ Announcement(ok, n) # <<>>
           /\ mainpc = "compile" => /\ Len(Announcement(ok, n)) = 1
                                    /\ Head(Announcement(ok, n)).kind \in Remembered
<1> DEFINE e == Message("errors", n)
           o == Message("ok", n)
           p == Message("progress", n)
           h == Message("hot-reload", n)
           r == Message("reload", n)
<1>1. /\ e \in Messages /\ o \in Messages /\ p \in Messages /\ h \in Messages /\ r \in Messages
      /\ e.kind \in Remembered /\ o.kind \in Remembered
  BY DEF Message, Messages, Remembered
<1>2. Announcement(ok, n) \in {<<e>>, <<o>>, <<p, h, o>>, <<p, o, r>>}
  BY DEF Announcement
<1>3. mainpc = "compile" => Announcement(ok, n) \in {<<e>>, <<o>>}
  BY DEF Announcement
<1> QED
  <2> HIDE DEF e, o, p, h, r
  <2>1. /\ <<e>> \in Seq(Messages) /\ <<e>> # <<>> /\ Len(<<e>>) = 1 /\ Head(<<e>>) = e
        /\ <<o>> \in Seq(Messages) /\ <<o>> # <<>> /\ Len(<<o>>) = 1 /\ Head(<<o>>) = o
    BY <1>1
  <2>2. <<p, h, o>> \in Seq(Messages) /\ <<p, h, o>> # <<>>
    BY <1>1
  <2>3. <<p, o, r>> \in Seq(Messages) /\ <<p, o, r>> # <<>>
    BY <1>1
  <2> QED BY <1>1, <1>2, <1>3, <2>1, <2>2, <2>3

\* The end of a build puts its messages on the bus's script.
LEMMA FinishBuildKeeps == ASSUME ServeInv, FinishBuild PROVE ServeInv'
<1> DEFINE ok == \A f \in File : build.read[f].state = "good"
           said == Announcement(ok, built.n + 1)
<1>1. built.n + 1 \in Nat /\ ok \in BOOLEAN
  BY DEF ServeInv, ServeTypeOK, SourcesTyped
<1>2. /\ said \in Seq(Messages)
      /\ said # <<>>
      /\ mainpc = "compile" => Len(said) = 1 /\ Head(said).kind \in Remembered
  BY <1>1, AnnouncementTyped
<1>3. /\ script' = said
      /\ built' = [n |-> built.n + 1, times |-> [f \in File |-> build.read[f].time], ok |-> ok]
      /\ bannerOff' = ok
  BY DEF FinishBuild
<1> HIDE DEF ok, said
<1>4. built' \in [n : Nat, times : [File -> Nat], ok : BOOLEAN]
  <2>1. \A f \in File : build.read[f].time \in Nat
    BY DEF ServeInv, ServeTypeOK, SourcesTyped, Stats
  <2> QED BY <1>1, <1>3, <2>1
<1>5. SourcesTyped'
  BY <1>1, <1>3, <1>4 DEF ServeInv, ServeTypeOK, SourcesTyped, FinishBuild
<1>6. BusTyped'
  BY <1>2, <1>3 DEF ServeInv, ServeTypeOK, BusTyped, FinishBuild
<1>7. script = <<>> /\ cast.stage = "idle" /\ cast' = cast
  BY DEF ServeInv, OneBroadcaster, FinishBuild, Compiling
<1>8. CASE mainpc = "compile"
  <2>1. mainpc' = "announce" /\ watcher' = watcher /\ watcher.pc = "off" /\ tab' = tab /\ clients' = clients /\ last' = last
    BY <1>8 DEF ServeInv, ServeTypeOK, WatcherRecord, OneBroadcaster, FinishBuild
  <2>2. ServeTypeOK'
    BY <2>1, <1>5, <1>6 DEF ServeInv, ServeTypeOK
  <2>3. OneBroadcaster'
    BY <2>1, <1>2, <1>3, <1>7, <1>8 DEF ServeInv, ServeTypeOK, OneBroadcaster
  <2>4. BroadcastRemembered' /\ OpenAreListed' /\ ListedAreServed' /\ ToldOrComing'
    BY <2>1, <1>7 DEF ServeInv, BroadcastRemembered, OpenAreListed, ListedAreServed, ToldOrComing, Coming
  <2> QED BY <2>2, <2>3, <2>4 DEF ServeInv
<1>9. CASE mainpc # "compile"
  <2>1. mainpc' = mainpc /\ watcher.pc = "compile" /\ tab' = tab /\ clients' = clients /\ last' = last
    BY <1>9 DEF FinishBuild, Compiling
  <2>2. watcher' = [watcher EXCEPT !.pc = "announce"]
    BY <1>9 DEF FinishBuild
  <2>3. watcher' \in WatcherRecord /\ watcher'.pc = "announce"
    BY <2>2 DEF ServeInv, ServeTypeOK, WatcherRecord, WatcherStates
  <2>4. ServeTypeOK'
    BY <2>1, <2>3, <1>5, <1>6 DEF ServeInv, ServeTypeOK
  <2>5. OneBroadcaster'
    BY <2>1, <2>3, <1>2, <1>3, <1>7, <1>9 DEF ServeInv, ServeTypeOK, OneBroadcaster
  <2>6. BroadcastRemembered' /\ OpenAreListed' /\ ListedAreServed' /\ ToldOrComing'
    BY <2>1, <1>7 DEF ServeInv, BroadcastRemembered, OpenAreListed, ListedAreServed, ToldOrComing, Coming
  <2> QED BY <2>4, <2>5, <2>6 DEF ServeInv
<1> QED BY <1>8, <1>9

\* The watcher notes the times it finds and promises nothing of earlier saves.
LEMMA StartWatcherKeeps == ASSUME ServeInv, StartWatcher PROVE ServeInv'
<1> DEFINE seed == [f \in File |-> IF disk[f].state = "absent" THEN 0 ELSE Times[f]]
<1>1. seed \in [File -> Nat]
  BY DEF ServeInv, ServeTypeOK, SourcesTyped, Stats, Times
<1>2. watcher' = [watcher EXCEPT !.pc = "scan", !.mtimes = seed, !.seed = seed]
  BY DEF StartWatcher
<1> HIDE DEF seed
<1>3. watcher' \in WatcherRecord /\ watcher'.pc = "scan"
  BY <1>1, <1>2 DEF ServeInv, ServeTypeOK, WatcherRecord, WatcherStates
<1>4. /\ mainpc = "announce" /\ script = <<>> /\ mainpc' = "bind"
      /\ UNCHANGED <<disk, saves, build, built, bannerOff, script, cast, last, clients, tab>>
  BY DEF StartWatcher, compileVars, busVars
<1>5. ServeTypeOK'
  BY <1>3, <1>4 DEF ServeInv, ServeTypeOK, SourcesTyped, BusTyped
<1>6. OneBroadcaster'
  BY <1>3, <1>4 DEF ServeInv, OneBroadcaster
<1>7. BroadcastRemembered' /\ OpenAreListed' /\ ListedAreServed' /\ ToldOrComing'
  BY <1>4 DEF ServeInv, BroadcastRemembered, OpenAreListed, ListedAreServed, ToldOrComing, Coming
<1> QED BY <1>5, <1>6, <1>7 DEF ServeInv

\* The server accepts connections from here on.
LEMMA MakeServerKeeps == ASSUME ServeInv, MakeServer PROVE ServeInv'
<1>1. /\ mainpc = "bind" /\ mainpc' = "serve" /\ bannerOff' = TRUE
      /\ UNCHANGED <<disk, saves, watcher, build, built, script, cast, last, clients, tab>>
  BY DEF MakeServer, busVars
<1>2. ServeTypeOK'
  BY <1>1 DEF ServeInv, ServeTypeOK, SourcesTyped, BusTyped
<1>3. OneBroadcaster'
  BY <1>1 DEF ServeInv, OneBroadcaster
<1>4. BroadcastRemembered' /\ OpenAreListed' /\ ListedAreServed' /\ ToldOrComing'
  BY <1>1 DEF ServeInv, BroadcastRemembered, OpenAreListed, ListedAreServed, ToldOrComing, Coming
<1> QED BY <1>2, <1>3, <1>4 DEF ServeInv

\* The watcher looks for changed files.
LEMMA ScanKeeps == ASSUME ServeInv, Scan PROVE ServeInv'
<1>1. [f \in File |-> IF f \in Changed THEN Times[f] ELSE watcher.mtimes[f]] \in [File -> Nat]
  BY DEF ServeInv, ServeTypeOK, SourcesTyped, Stats, Times, WatcherRecord
<1>2. watcher.pending \cup Changed \in SUBSET File
  BY DEF ServeInv, ServeTypeOK, WatcherRecord, Changed
<1>3. watcher' = [watcher EXCEPT
                     !.pc = "poll",
                     !.mtimes = [f \in File |-> IF f \in Changed THEN Times[f] ELSE @[f]],
                     !.pending = @ \cup Changed,
                     !.age = IF Changed # {} THEN 0 ELSE @]
  BY DEF Scan
<1> HIDE DEF Changed
<1>4. watcher' \in WatcherRecord
  BY <1>1, <1>2, <1>3 DEF ServeInv, ServeTypeOK, WatcherRecord, WatcherStates
<1>5. ServeTypeOK'
  BY <1>4 DEF ServeInv, ServeTypeOK, SourcesTyped, BusTyped, Scan, compileVars, busVars
<1>6. watcher.pc = "scan" /\ script = <<>>
  BY DEF Scan, ServeInv, OneBroadcaster
<1> QED
  BY <1>5, <1>6, SourcesMove DEF Scan, busVars

\* The watcher counts down the quiet time, and compiles at its end.
LEMMA PollKeeps == ASSUME ServeInv, Poll PROVE ServeInv'
<1>1. /\ watcher.pc = "poll" /\ script = <<>> /\ mainpc \in {"bind", "serve"} /\ cast.stage = "idle"
      /\ UNCHANGED <<disk, saves, mainpc, built, bannerOff, cast, last, clients, tab>>
  BY DEF Poll, ServeInv, OneBroadcaster
<1>2. CASE /\ watcher' = [watcher EXCEPT !.pc = "compile", !.pending = {}, !.age = 0]
           /\ build' = [build EXCEPT !.todo = File]
           /\ script' = <<Message("progress", built.n)>>
  <2>1. watcher' \in WatcherRecord /\ watcher'.pc = "compile"
    BY <1>2 DEF ServeInv, ServeTypeOK, WatcherRecord, WatcherStates
  <2>2. SourcesTyped'
    BY <1>1, <1>2 DEF ServeInv, ServeTypeOK, SourcesTyped
  <2>3. Message("progress", built.n) \in Messages
    BY DEF ServeInv, ServeTypeOK, SourcesTyped, Message, Messages
  <2>4. BusTyped' /\ script' # <<>>
    BY <1>1, <1>2, <2>3 DEF ServeInv, ServeTypeOK, BusTyped
  <2>5. ServeTypeOK'
    BY <1>1, <2>1, <2>2, <2>4 DEF ServeInv, ServeTypeOK
  <2>6. OneBroadcaster'
    BY <1>1, <2>1, <2>4 DEF ServeInv, OneBroadcaster
  <2>7. BroadcastRemembered' /\ OpenAreListed' /\ ListedAreServed' /\ ToldOrComing'
    BY <1>1 DEF ServeInv, BroadcastRemembered, OpenAreListed, ListedAreServed, ToldOrComing, Coming
  <2> QED BY <2>5, <2>6, <2>7 DEF ServeInv
<1>3. CASE /\ watcher' = [watcher EXCEPT !.pc = "scan", !.age = IF @ < Polls THEN @ + 1 ELSE @]
           /\ UNCHANGED <<build, script>>
  <2>1. watcher' \in WatcherRecord
    <3>1. Polls \in Nat /\ watcher.age \in Nat
      BY DevServerAssumption DEF ServeInv, ServeTypeOK, WatcherRecord
    <3>2. (IF watcher.age < Polls THEN watcher.age + 1 ELSE watcher.age) \in Nat
      BY <3>1
    <3> QED BY <1>3, <3>2 DEF ServeInv, ServeTypeOK, WatcherRecord, WatcherStates
  <2>2. ServeTypeOK'
    BY <1>1, <1>3, <2>1 DEF ServeInv, ServeTypeOK, SourcesTyped, BusTyped
  <2> QED
    BY <1>1, <1>3, <2>2, SourcesMove
<1> QED BY <1>2, <1>3 DEF Poll

\* The watcher goes on when its messages are out.
LEMMA BackToScanKeeps == ASSUME ServeInv, BackToScan PROVE ServeInv'
<1>1. watcher' \in WatcherRecord
  BY DEF ServeInv, ServeTypeOK, WatcherRecord, WatcherStates, BackToScan
<1>2. ServeTypeOK'
  BY <1>1 DEF ServeInv, ServeTypeOK, SourcesTyped, BusTyped, BackToScan, compileVars, busVars
<1> QED
  BY <1>2, SourcesMove DEF BackToScan, busVars

-----------------------------------------------------------------------------
(* The bus and the tabs *)

\* A broadcast under way is of a message, and what it tells is decided by who
\* is subscribed when the clients are listed.
LEMMA BeginCastKeeps == ASSUME ServeInv, BeginCast PROVE ServeInv'
<1>1. /\ script # <<>> /\ cast.stage = "idle" /\ script \in Seq(Messages) /\ Head(script) \in Messages
      /\ UNCHANGED <<disk, saves, mainpc, watcher, build, built, bannerOff, script, clients, tab>>
  BY DEF BeginCast, compileVars, ServeInv, ServeTypeOK, BusTyped
<1>2. /\ last' = IF Head(script).kind \in Remembered THEN Head(script) ELSE last
      /\ cast' = [cast EXCEPT !.stage = "remembered"]
  BY DEF BeginCast
<1>3. ServeTypeOK'
  BY <1>1, <1>2 DEF ServeInv, ServeTypeOK, SourcesTyped, BusTyped
<1>4. cast'.stage = "remembered" /\ cast'.dead = cast.dead /\ cast'.todo = cast.todo
  BY <1>2 DEF ServeInv, ServeTypeOK, BusTyped
<1>5. OneBroadcaster' /\ BroadcastRemembered'
  BY <1>1, <1>2, <1>4 DEF ServeInv, OneBroadcaster, BroadcastRemembered
<1>6. OpenAreListed' /\ ListedAreServed'
  BY <1>1, <1>4 DEF ServeInv, OpenAreListed, ListedAreServed
<1>7. ToldOrComing'
  BY <1>1, <1>2, <1>4 DEF ServeInv, ToldOrComing, Coming
<1> QED BY <1>3, <1>5, <1>6, <1>7 DEF ServeInv

\* The broadcast lists the clients after the message was remembered: a tab
\* that is not on the list joined later, and reads it.
LEMMA ListClientsKeeps == ASSUME ServeInv, ListClients PROVE ServeInv'
<1>1. /\ cast.stage = "remembered"
      /\ cast' = [cast EXCEPT !.stage = "sending", !.todo = clients]
      /\ UNCHANGED <<disk, saves, mainpc, watcher, build, built, bannerOff, script, last, clients, tab>>
  BY DEF ListClients, compileVars
<1>2. cast'.stage = "sending" /\ cast'.dead = cast.dead /\ cast'.todo = clients
  BY <1>1 DEF ServeInv, ServeTypeOK, BusTyped
<1>3. ServeTypeOK'
  BY <1>1 DEF ServeInv, ServeTypeOK, SourcesTyped, BusTyped
<1>4. OneBroadcaster' /\ BroadcastRemembered' /\ OpenAreListed' /\ ListedAreServed'
  BY <1>1, <1>2 DEF ServeInv, OneBroadcaster, BroadcastRemembered, OpenAreListed, ListedAreServed
<1>5. ToldOrComing'
  BY <1>1, <1>2 DEF ServeInv, ToldOrComing, Coming, OpenAreListed
<1> QED BY <1>3, <1>4, <1>5 DEF ServeInv

\* What a message does to a tab: it never opens, revives or forgets.
LEMMA SentToTab ==
    ASSUME NEW r \in TabRecord, NEW m \in Messages
    PROVE  /\ Sent(r, m) \in TabRecord
           /\ Sent(r, m).at = r.at /\ Sent(r, m).open = r.open /\ Sent(r, m).held = r.held
           /\ Sent(r, m).alive => r.alive
           /\ r.alive /\ r.open => Sent(r, m).alive
           /\ r.got \subseteq Sent(r, m).got
           /\ (r.alive /\ r.open /\ m.kind \in Remembered) => m.n \in Sent(r, m).got
<1>1. CASE r.alive /\ ~r.open
  BY <1>1 DEF Sent, TabRecord
<1>2. CASE r.alive /\ r.open /\ m.kind \in Remembered
  <2>1. m.n \in Nat /\ r.got \cup {m.n} \in SUBSET Nat
    BY DEF Messages, TabRecord
  <2> QED BY <1>2, <2>1 DEF Sent, TabRecord
<1>3. CASE ~r.alive \/ (r.open /\ m.kind \notin Remembered)
  BY <1>3 DEF Sent, TabRecord
<1> QED BY <1>1, <1>2, <1>3 DEF TabRecord

\* One tab is told, or found dead.
LEMMA SendToKeeps == ASSUME ServeInv, NEW t \in Tab, SendTo(t) PROVE ServeInv'
<1> DEFINE m == Head(script)
           r == Sent(tab[t], m)
<1>1. /\ cast.stage = "sending" /\ t \in cast.todo
      /\ tab' = [tab EXCEPT ![t] = r]
      /\ cast' = [cast EXCEPT !.todo = @ \ {t}, !.dead = IF tab'[t].alive THEN @ ELSE @ \cup {t}]
      /\ UNCHANGED <<disk, saves, mainpc, watcher, build, built, bannerOff, script, last, clients>>
  BY DEF SendTo, compileVars
<1>2. script # <<>> /\ m \in Messages /\ tab[t] \in TabRecord
  BY <1>1 DEF ServeInv, ServeTypeOK, BusTyped, OneBroadcaster
<1>3. /\ r \in TabRecord
      /\ r.at = tab[t].at /\ r.open = tab[t].open /\ r.held = tab[t].held
      /\ r.alive => tab[t].alive
      /\ tab[t].alive /\ tab[t].open => r.alive
      /\ tab[t].got \subseteq r.got
      /\ (tab[t].alive /\ tab[t].open /\ m.kind \in Remembered) => m.n \in r.got
  BY <1>2, SentToTab
<1> HIDE DEF r
<1>4. tab' \in [Tab -> TabRecord] /\ tab'[t] = r /\ \A u \in Tab \ {t} : tab'[u] = tab[u]
  BY <1>1, <1>3 DEF ServeInv, ServeTypeOK
<1>5. /\ cast'.stage = "sending" /\ cast'.todo = cast.todo \ {t}
      /\ cast'.dead = IF r.alive THEN cast.dead ELSE cast.dead \cup {t}
      /\ cast' \in [stage : {"idle", "remembered", "sending"}, todo : SUBSET Tab, dead : SUBSET Tab]
  BY <1>1, <1>4 DEF ServeInv, ServeTypeOK, BusTyped
<1>6. ServeTypeOK'
  BY <1>1, <1>4, <1>5 DEF ServeInv, ServeTypeOK, SourcesTyped, BusTyped
<1>7. OneBroadcaster' /\ BroadcastRemembered'
  BY <1>1, <1>2, <1>3, <1>4, <1>5 DEF ServeInv, OneBroadcaster, BroadcastRemembered
<1>8. OpenAreListed' /\ ListedAreServed'
  BY <1>1, <1>3, <1>4, <1>5 DEF ServeInv, ServeTypeOK, BusTyped, OpenAreListed, ListedAreServed
<1>9. ToldOrComing'
  <2> SUFFICES ASSUME NEW u \in Tab, tab'[u].open
               PROVE  /\ tab'[u].at = "live" => last.n \in tab'[u].got \/ Coming(u)'
                      /\ tab'[u].at = "replay" => tab'[u].held = last \/ last.n \in tab'[u].got \/ Coming(u)'
    BY <1>1 DEF ToldOrComing
  <2>1. CASE u # t
    BY <2>1, <1>1, <1>4, <1>5 DEF ServeInv, ToldOrComing, Coming
  <2>2. CASE u = t /\ tab[t].at \in {"live", "replay"}
    <3>1. tab[t].alive /\ tab[t].open /\ last.kind \in Remembered
      BY <2>2, <1>3, <1>4 DEF ServeInv, OpenAreListed, OneBroadcaster, ServeTypeOK
    <3>2. m = last => last.n \in r.got
      BY <3>1, <1>3
    <3> QED
      BY <3>1, <3>2, <2>2, <1>3, <1>4 DEF ServeInv, ToldOrComing, Coming
  <2> QED
    BY <2>1, <2>2, <1>3, <1>4
<1> QED BY <1>6, <1>7, <1>8, <1>9 DEF ServeInv

\* The broadcast is over: every tab on its list was told or is dead.
LEMMA EndCastKeeps == ASSUME ServeInv, EndCast PROVE ServeInv'
<1>1. /\ cast.stage = "sending" /\ cast.todo = {} /\ script # <<>>
      /\ clients' = clients \ cast.dead
      /\ cast' = [stage |-> "idle", todo |-> {}, dead |-> {}]
      /\ script' = Tail(script)
      /\ UNCHANGED <<disk, saves, mainpc, watcher, build, built, bannerOff, last, tab>>
  BY DEF EndCast, compileVars, ServeInv, OneBroadcaster
<1>2. script' \in Seq(Messages) /\ (Len(script) = 1 => script' = <<>>)
  BY <1>1 DEF ServeInv, ServeTypeOK, BusTyped
<1>3. ServeTypeOK'
  BY <1>1, <1>2 DEF ServeInv, ServeTypeOK, SourcesTyped, BusTyped
<1>4. OneBroadcaster' /\ BroadcastRemembered'
  BY <1>1, <1>2 DEF ServeInv, OneBroadcaster, BroadcastRemembered
<1>5. OpenAreListed' /\ ListedAreServed'
  BY <1>1 DEF ServeInv, OpenAreListed, ListedAreServed
<1>6. ToldOrComing'
  BY <1>1 DEF ServeInv, ToldOrComing, Coming
<1> QED BY <1>3, <1>4, <1>5, <1>6 DEF ServeInv

\* A step of one tab that leaves the broadcast alone.
LEMMA ToldMoves ==
    ASSUME ToldOrComing, UNCHANGED <<script, cast, last>>, NEW t \in Tab,
           \A u \in Tab \ {t} : tab'[u] = tab[u],
           tab'[t].open => /\ tab'[t].at = "live" => last.n \in tab'[t].got \/ Coming(t)
                           /\ tab'[t].at = "replay" => tab'[t].held = last
    PROVE  ToldOrComing'
<1> SUFFICES ASSUME NEW u \in Tab, tab'[u].open
             PROVE  /\ tab'[u].at = "live" => last'.n \in tab'[u].got \/ Coming(u)'
                    /\ tab'[u].at = "replay" => tab'[u].held = last' \/ last'.n \in tab'[u].got \/ Coming(u)'
  BY DEF ToldOrComing
<1>1. last' = last /\ (Coming(u)' <=> Coming(u))
  BY DEF Coming
<1>2. CASE u = t
  BY <1>1, <1>2
<1>3. CASE u # t
  BY <1>1, <1>3 DEF ToldOrComing
<1> QED BY <1>2, <1>3

\* The fields of a tab that its own steps change.
LEMMA TabMoves ==
    ASSUME NEW r \in TabRecord, NEW a \in {"joined", "replay", "live", "gone"}
    PROVE  /\ [r EXCEPT !.at = a, !.open = TRUE, !.alive = TRUE] \in TabRecord
           /\ [r EXCEPT !.open = FALSE] \in TabRecord
           /\ [r EXCEPT !.at = a, !.alive = FALSE] \in TabRecord
<1>1. \A o, l \in BOOLEAN : [r EXCEPT !.at = a, !.open = o, !.alive = l] \in TabRecord
  BY DEF TabRecord
<1>2. \A o, l \in BOOLEAN : [r EXCEPT !.open = o] \in TabRecord /\ [r EXCEPT !.at = a, !.alive = l] \in TabRecord
  BY DEF TabRecord
<1> QED BY <1>1, <1>2, Zenon

\* A tab subscribes before it reads what is remembered.
LEMMA JoinKeeps == ASSUME ServeInv, NEW t \in Tab, Join(t) PROVE ServeInv'
<1>1. /\ mainpc = "serve" /\ tab[t].at = "off" /\ tab[t] \in TabRecord
      /\ tab' = [tab EXCEPT ![t].at = "joined", ![t].open = TRUE, ![t].alive = TRUE]
      /\ clients' = clients \cup {t}
      /\ UNCHANGED <<disk, saves, mainpc, watcher, build, built, bannerOff, script, cast, last>>
  BY DEF Join, compileVars, busVars, ServeInv, ServeTypeOK
<1>2. /\ tab'[t] = [tab[t] EXCEPT !.at = "joined", !.open = TRUE, !.alive = TRUE]
      /\ \A u \in Tab \ {t} : tab'[u] = tab[u]
  BY <1>1 DEF ServeInv, ServeTypeOK
<1>3. tab'[t] \in TabRecord /\ tab'[t].at = "joined" /\ tab'[t].open /\ tab'[t].alive
  <2>1. tab'[t] \in TabRecord
    BY <1>1, <1>2, TabMoves
  <2>2. ASSUME NEW r \in TabRecord
        PROVE  LET s == [r EXCEPT !.at = "joined", !.open = TRUE, !.alive = TRUE]
               IN  s.at = "joined" /\ s.open = TRUE /\ s.alive = TRUE
    BY DEF TabRecord
  <2> QED BY <1>1, <1>2, <2>1, <2>2
<1>4. ServeTypeOK'
  BY <1>1, <1>2, <1>3 DEF ServeInv, ServeTypeOK, SourcesTyped, BusTyped
<1>5. OneBroadcaster' /\ BroadcastRemembered'
  BY <1>1 DEF ServeInv, OneBroadcaster, BroadcastRemembered
<1>6. OpenAreListed' /\ ListedAreServed'
  BY <1>1, <1>2, <1>3 DEF ServeInv, ServeTypeOK, BusTyped, OpenAreListed, ListedAreServed
<1>7. ToldOrComing'
  <2>1. ToldOrComing
    BY DEF ServeInv
  <2> QED BY <1>1, <1>2, <1>3, <2>1, ToldMoves
<1> QED BY <1>4, <1>5, <1>6, <1>7 DEF ServeInv

\* A tab's handler reads the remembered message.
LEMMA ReadLastKeeps == ASSUME ServeInv, NEW t \in Tab, ReadLast(t) PROVE ServeInv'
<1>1. /\ tab[t].at = "joined" /\ tab[t] \in TabRecord
      /\ tab' = [tab EXCEPT ![t].at = "replay", ![t].held = last]
      /\ UNCHANGED <<disk, saves, mainpc, watcher, build, built, bannerOff, script, cast, last, clients>>
  BY DEF ReadLast, compileVars, busVars, ServeInv, ServeTypeOK
<1>2. /\ tab'[t] = [tab[t] EXCEPT !.at = "replay", !.held = last]
      /\ \A u \in Tab \ {t} : tab'[u] = tab[u]
  BY <1>1 DEF ServeInv, ServeTypeOK
<1>3. /\ tab'[t] \in TabRecord /\ tab'[t].at = "replay" /\ tab'[t].held = last
      /\ tab'[t].open = tab[t].open /\ tab'[t].alive = tab[t].alive
  BY <1>1, <1>2 DEF TabRecord, ServeInv, ServeTypeOK, BusTyped
<1>4. ServeTypeOK'
  BY <1>1, <1>2, <1>3 DEF ServeInv, ServeTypeOK, SourcesTyped, BusTyped
<1>5. OneBroadcaster' /\ BroadcastRemembered'
  BY <1>1, <1>2, <1>3 DEF ServeInv, OneBroadcaster, BroadcastRemembered
<1>6. OpenAreListed' /\ ListedAreServed'
  BY <1>1, <1>2, <1>3 DEF ServeInv, ServeTypeOK, BusTyped, OpenAreListed, ListedAreServed
<1>7. ToldOrComing'
  <2>1. ToldOrComing
    BY DEF ServeInv
  <2> QED BY <1>1, <1>2, <1>3, <2>1, ToldMoves
<1> QED BY <1>4, <1>5, <1>6, <1>7 DEF ServeInv

\* The handler sends the message it read.
LEMMA ReplayKeeps == ASSUME ServeInv, NEW t \in Tab, Replay(t) PROVE ServeInv'
<1> DEFINE r == Sent(tab[t], tab[t].held)
<1>1. /\ tab[t].at = "replay" /\ tab[t] \in TabRecord /\ tab[t].held \in Messages
      /\ tab' = [tab EXCEPT ![t] = [r EXCEPT !.at = "live"]]
      /\ UNCHANGED <<disk, saves, mainpc, watcher, build, built, bannerOff, script, cast, last, clients>>
  BY DEF Replay, compileVars, busVars, ServeInv, ServeTypeOK, TabRecord
<1>2. /\ r \in TabRecord
      /\ r.open = tab[t].open
      /\ r.alive => tab[t].alive
      /\ tab[t].alive /\ tab[t].open => r.alive
      /\ tab[t].got \subseteq r.got
      /\ (tab[t].alive /\ tab[t].open /\ tab[t].held.kind \in Remembered) => tab[t].held.n \in r.got
  BY <1>1, SentToTab
<1> HIDE DEF r
<1>3. /\ tab'[t] = [r EXCEPT !.at = "live"]
      /\ \A u \in Tab \ {t} : tab'[u] = tab[u]
  BY <1>1 DEF ServeInv, ServeTypeOK
<1>4. /\ tab'[t] \in TabRecord /\ tab'[t].at = "live" /\ tab'[t].open = r.open
      /\ tab'[t].alive = r.alive /\ tab'[t].got = r.got
  BY <1>2, <1>3 DEF TabRecord
<1>5. ServeTypeOK'
  BY <1>1, <1>3, <1>4 DEF ServeInv, ServeTypeOK, SourcesTyped, BusTyped
<1>6. OneBroadcaster' /\ BroadcastRemembered'
  BY <1>1, <1>3, <1>4 DEF ServeInv, OneBroadcaster, BroadcastRemembered
<1>7. OpenAreListed' /\ ListedAreServed'
  BY <1>1, <1>2, <1>3, <1>4 DEF ServeInv, ServeTypeOK, BusTyped, OpenAreListed, ListedAreServed
<1>8. last.kind \in Remembered
  BY <1>1 DEF ServeInv, ServeTypeOK, OneBroadcaster
<1>9. ToldOrComing'
  BY <1>1, <1>2, <1>3, <1>4, <1>8 DEF ServeInv, OpenAreListed, ToldOrComing, Coming
<1> QED BY <1>5, <1>6, <1>7, <1>9 DEF ServeInv

\* A closed tab is owed nothing.
LEMMA CloseTabKeeps == ASSUME ServeInv, NEW t \in Tab, CloseTab(t) PROVE ServeInv'
<1>1. /\ tab[t].open /\ tab[t] \in TabRecord
      /\ tab' = [tab EXCEPT ![t].open = FALSE]
      /\ UNCHANGED <<disk, saves, mainpc, watcher, build, built, bannerOff, script, cast, last, clients>>
  BY DEF CloseTab, compileVars, busVars, ServeInv, ServeTypeOK
<1>2. tab'[t] = [tab[t] EXCEPT !.open = FALSE] /\ \A u \in Tab \ {t} : tab'[u] = tab[u]
  BY <1>1 DEF ServeInv, ServeTypeOK
<1>3. tab'[t] \in TabRecord /\ tab'[t].at = tab[t].at /\ ~tab'[t].open /\ tab'[t].alive = tab[t].alive
  <2>1. tab'[t] \in TabRecord
    BY <1>1, <1>2, TabMoves
  <2> QED BY <1>1, <1>2, <2>1 DEF TabRecord
<1>4. ServeTypeOK'
  BY <1>1, <1>2, <1>3 DEF ServeInv, ServeTypeOK, SourcesTyped, BusTyped
<1>5. OneBroadcaster' /\ BroadcastRemembered'
  BY <1>1, <1>2, <1>3 DEF ServeInv, OneBroadcaster, BroadcastRemembered
<1>6. OpenAreListed' /\ ListedAreServed'
  BY <1>1, <1>2, <1>3 DEF ServeInv, ServeTypeOK, BusTyped, OpenAreListed, ListedAreServed
<1>7. ToldOrComing'
  BY <1>1, <1>2, <1>3 DEF ServeInv, ToldOrComing, Coming
<1> QED BY <1>4, <1>5, <1>6, <1>7 DEF ServeInv

\* The handler notices that its tab is closed.
LEMMA UnsubscribeKeeps == ASSUME ServeInv, NEW t \in Tab, Unsubscribe(t) PROVE ServeInv'
<1>1. /\ tab[t].at = "live" /\ ~tab[t].open /\ tab[t] \in TabRecord
      /\ clients' = clients \ {t}
      /\ tab' = [tab EXCEPT ![t].at = "gone", ![t].alive = FALSE]
      /\ UNCHANGED <<disk, saves, mainpc, watcher, build, built, bannerOff, script, cast, last>>
  BY DEF Unsubscribe, compileVars, busVars, ServeInv, ServeTypeOK
<1>2. /\ tab'[t] = [tab[t] EXCEPT !.at = "gone", !.alive = FALSE]
      /\ \A u \in Tab \ {t} : tab'[u] = tab[u]
  BY <1>1 DEF ServeInv, ServeTypeOK
<1>3. tab'[t] \in TabRecord /\ tab'[t].at = "gone" /\ ~tab'[t].open /\ ~tab'[t].alive
  <2>1. tab'[t] \in TabRecord
    BY <1>1, <1>2, TabMoves
  <2>2. /\ [tab[t] EXCEPT !.at = "gone", !.alive = FALSE].at = "gone"
        /\ [tab[t] EXCEPT !.at = "gone", !.alive = FALSE].open = tab[t].open
        /\ [tab[t] EXCEPT !.at = "gone", !.alive = FALSE].alive = FALSE
    <3>1. tab[t] \in TabRecord
      BY <1>1
    <3> QED BY <3>1 DEF TabRecord
  <2> QED BY <1>1, <1>2, <2>1, <2>2
<1>4. ServeTypeOK'
  BY <1>1, <1>2, <1>3 DEF ServeInv, ServeTypeOK, SourcesTyped, BusTyped
<1>5. OneBroadcaster' /\ BroadcastRemembered'
  BY <1>1, <1>2, <1>3 DEF ServeInv, OneBroadcaster, BroadcastRemembered
<1>6. OpenAreListed' /\ ListedAreServed'
  BY <1>1, <1>2, <1>3 DEF ServeInv, ServeTypeOK, BusTyped, OpenAreListed, ListedAreServed
<1>7. ToldOrComing'
  <2>1. ToldOrComing
    BY DEF ServeInv
  <2> QED BY <1>1, <1>2, <1>3, <2>1, ToldMoves
<1> QED BY <1>4, <1>5, <1>6, <1>7 DEF ServeInv

-----------------------------------------------------------------------------

\* Each step of the server keeps the invariant.
LEMMA ServeStepKeeps == ServeInv /\ [ServeNext]_serveVars => ServeInv'
<1> SUFFICES ASSUME ServeInv, [ServeNext]_serveVars PROVE ServeInv'
  OBVIOUS
<1>1. CASE \E f \in File : Save(f) \/ ReadSource(f)
  BY <1>1, SaveKeeps, ReadSourceKeeps
<1>2. CASE FinishBuild \/ StartWatcher \/ MakeServer
  BY <1>2, FinishBuildKeeps, StartWatcherKeeps, MakeServerKeeps
<1>3. CASE Scan \/ Poll \/ BackToScan
  BY <1>3, ScanKeeps, PollKeeps, BackToScanKeeps
<1>4. CASE BeginCast \/ ListClients \/ EndCast
  BY <1>4, BeginCastKeeps, ListClientsKeeps, EndCastKeeps
<1>5. CASE \E t \in Tab : SendTo(t) \/ Join(t) \/ CloseTab(t)
  BY <1>5, SendToKeeps, JoinKeeps, CloseTabKeeps
<1>6. CASE \E t \in Tab : TabStep(t)
  BY <1>6, ReadLastKeeps, ReplayKeeps, UnsubscribeKeeps DEF TabStep
<1>7. CASE UNCHANGED serveVars
  <2>1. UNCHANGED <<disk, saves, mainpc, watcher, build, built, bannerOff, script, cast, last, clients, tab>>
    BY <1>7 DEF serveVars, compileVars, busVars
  <2>2. ServeTypeOK'
    BY <2>1 DEF ServeInv, ServeTypeOK, SourcesTyped, BusTyped
  <2> QED BY <2>1, <2>2, SourcesMove
<1> QED
  BY <1>1, <1>2, <1>3, <1>4, <1>5, <1>6, <1>7 DEF ServeNext, ServerStep

\* The invariant holds in every state of every run of the server.
LEMMA ServeInductive == ServeSpec => []ServeInv
BY ServeInitially, ServeStepKeeps, PTL DEF ServeSpec

\* The types of the server's state, for any number of files, tabs and saves.
THEOREM ServerTyped == ServeSpec => []ServeTypeOK
<1>1. ServeInv => ServeTypeOK
  BY DEF ServeInv
<1> QED BY <1>1, ServeInductive, PTL

\* However subscriptions, replays, closings and broadcasts overlap: when no
\* broadcast is under way every open tab has been sent the last result, and
\* the bus lists nobody whose reader has ended.
THEOREM ServerTellsAll == ServeSpec => []BusTellsAll
<1>1. ServeInv => BusTellsAll
  <2> SUFFICES ASSUME ServeInv PROVE BusTellsAll
    OBVIOUS
  <2>1. Quiet => cast.stage = "idle"
    BY DEF ServeInv, OneBroadcaster, Quiet
  <2>2. EveryoneTold
    BY <2>1 DEF ServeInv, ToldOrComing, Coming, EveryoneTold
  <2> QED BY <2>2 DEF ServeInv, BusTellsAll
<1> QED BY <1>1, ServeInductive, PTL

-----------------------------------------------------------------------------
(* The debug adapter: the inductive invariant *)

Commands == [verb : Verb \cup {"none"}, depth : Nat]

ThreadRecord ==
    [life : {"new", "on", "unwinding", "dead", "done"}, calls : Nat, frames : Nat,
     mode : {"run", "paused"}, cmd : Commands, pause : BOOLEAN, entry : BOOLEAN,
     snap : Nat, asleep : BOOLEAN]

DapTypeOK ==
    /\ thr \in [Prog -> ThreadRecord]
    /\ evals \in Nat
    /\ bps \in BOOLEAN
    /\ panic \in [by : Prog, depth : Nat] \cup {NoPanic}
    /\ frameIds \in SUBSET [by : Prog, depth : Nat, old : BOOLEAN]
    /\ gone \in BOOLEAN
    /\ raisedAt \in [Prog -> Nat]
    /\ overlap \in BOOLEAN

\* Whose panic is recorded does not panic again.
RaisedOnce ==
    panic # NoPanic => panic.by \in Prog /\ thr[panic.by].life \in {"unwinding", "dead", "done"}

DapInv == DapTypeOK /\ RaisedOnce /\ StackIsReal

\* No thread has a frame, no handle was given out.
LEMMA DapInitially == DapInit => DapInv
<1> SUFFICES ASSUME DapInit PROVE DapInv
  OBVIOUS
<1>1. PICK stopOnEntry \in BOOLEAN : thr = [t \in Prog |-> Fresh(t = MainProg /\ stopOnEntry)]
  BY DEF DapInit
<1>2. NoCommand \in Commands
  BY DEF NoCommand, Commands
<1>3. \A e \in BOOLEAN : Fresh(e) \in ThreadRecord /\ Fresh(e).frames = Fresh(e).calls
  BY <1>2 DEF Fresh, ThreadRecord
<1>4. \A t \in Prog : (t = MainProg /\ stopOnEntry) \in BOOLEAN
  OBVIOUS
<1>5. thr \in [Prog -> ThreadRecord] /\ \A t \in Prog : thr[t].frames = thr[t].calls
  <2> DEFINE e(t) == t = MainProg /\ stopOnEntry
  <2>1. \A t \in Prog : e(t) \in BOOLEAN
    OBVIOUS
  <2>2. thr = [t \in Prog |-> Fresh(e(t))]
    BY <1>1
  <2> HIDE DEF e
  <2> QED BY <1>3, <2>1, <2>2
<1> QED
  BY <1>5, DapAssumption DEF DapInit, DapInv, DapTypeOK, RaisedOnce, StackIsReal, NoPanic

\* Steps that call nothing and return from nothing.
LEMMA StackAtRest ==
    ASSUME DapInv, DapTypeOK', UNCHANGED <<panic, raisedAt, overlap>>,
           \A t \in Prog : /\ thr'[t].calls = thr[t].calls
                           /\ thr'[t].frames = thr[t].frames
                           /\ \/ thr'[t].life = thr[t].life
                              \/ thr'[t].life \in {"dead", "done"}
    PROVE  DapInv'
BY DEF DapInv, RaisedOnce, StackIsReal

\* A call pushes a frame unless an expression is being evaluated.
LEMMA EnterKeeps == ASSUME DapInv, NEW t \in Prog, Enter(t) PROVE DapInv'
<1>1. /\ thr[t].life \in {"new", "on"} /\ thr[t] \in ThreadRecord
      /\ thr' = [thr EXCEPT ![t].life = "on", ![t].calls = @ + 1,
                            ![t].frames = IF evals > 0 THEN @ ELSE @ + 1]
      /\ overlap' = (overlap \/ evals > 0)
      /\ UNCHANGED <<evals, bps, panic, frameIds, gone, raisedAt>>
  BY DEF Enter, DapInv, DapTypeOK
<1>2. /\ thr'[t] = [thr[t] EXCEPT !.life = "on", !.calls = @ + 1, !.frames = IF evals > 0 THEN @ ELSE @ + 1]
      /\ \A u \in Prog \ {t} : thr'[u] = thr[u]
  BY <1>1 DEF DapInv, DapTypeOK
<1>3. (IF evals > 0 THEN thr[t].frames ELSE thr[t].frames + 1) \in Nat /\ thr[t].calls + 1 \in Nat
  BY <1>1 DEF ThreadRecord
<1>4. /\ thr'[t] \in ThreadRecord /\ thr'[t].life = "on" /\ thr'[t].calls = thr[t].calls + 1
      /\ thr'[t].frames = IF evals > 0 THEN thr[t].frames ELSE thr[t].frames + 1
  <2> DEFINE c == thr[t].calls + 1
             f == IF evals > 0 THEN thr[t].frames ELSE thr[t].frames + 1
  <2>2. c \in Nat /\ f \in Nat /\ thr'[t] = [thr[t] EXCEPT !.life = "on", !.calls = c, !.frames = f]
    BY <1>2, <1>3
  <2> HIDE DEF c, f
  <2>3. thr'[t] \in ThreadRecord /\ thr'[t].life = "on" /\ thr'[t].calls = c /\ thr'[t].frames = f
    <3>1. thr[t] \in ThreadRecord
      BY <1>1
    <3> QED BY <2>2, <3>1 DEF ThreadRecord
  <2> QED BY <2>3 DEF c, f
<1>5. DapTypeOK'
  BY <1>1, <1>2, <1>4 DEF DapInv, DapTypeOK
<1>6. RaisedOnce'
  BY <1>1, <1>2 DEF DapInv, RaisedOnce
<1>7. StackIsReal'
  <2>1. ~overlap' => ~overlap /\ ~(evals > 0)
    BY <1>1
  <2> QED BY <1>1, <1>2, <1>4, <2>1 DEF DapInv, StackIsReal
<1> QED BY <1>5, <1>6, <1>7 DEF DapInv

\* The hooks' stack loses a frame as the stack of calls does.
LEMMA PoppedTogether ==
    ASSUME NEW r \in ThreadRecord, r.calls > 0
    PROVE  /\ Popped(r) \in ThreadRecord
           /\ Popped(r).life = r.life
           /\ r.frames = r.calls => Popped(r).frames = Popped(r).calls
<1>1. /\ r.calls \in Nat /\ r.frames \in Nat /\ r.calls - 1 \in Nat
      /\ (IF r.frames > 0 THEN r.frames - 1 ELSE 0) \in Nat
  BY DEF ThreadRecord
<1> QED BY <1>1 DEF Popped, ThreadRecord

\* The stacks agree after a step of one thread that kept its own in agreement.
LEMMA OneStackMoves ==
    ASSUME DapInv, NEW t \in Prog,
           thr[t].frames = thr[t].calls => thr'[t].frames = thr'[t].calls,
           \A u \in Prog \ {t} : thr'[u] = thr[u],
           overlap' = (overlap \/ evals > 0), panic' = panic, raisedAt' = raisedAt
    PROVE  StackIsReal'
<1> SUFFICES ASSUME ~overlap'
             PROVE  /\ \A u \in Prog : thr'[u].frames = thr'[u].calls
                    /\ panic' # NoPanic => panic'.depth = raisedAt'[panic'.by]
  BY DEF StackIsReal
<1>1. /\ \A u \in Prog : thr[u].frames = thr[u].calls
      /\ panic # NoPanic => panic.depth = raisedAt[panic.by]
  <2>1. ~overlap
    OBVIOUS
  <2> QED BY <2>1 DEF DapInv, StackIsReal
<1>2. ASSUME NEW u \in Prog PROVE thr'[u].frames = thr'[u].calls
  <2>1. CASE u = t
    BY <1>1, <2>1
  <2>2. CASE u # t
    BY <1>1, <2>2
  <2> QED BY <2>1, <2>2
<1>3. panic' # NoPanic => panic'.depth = raisedAt'[panic'.by]
  BY <1>1
<1> QED BY <1>2, <1>3

\* A return pops one.
LEMMA LeaveKeeps == ASSUME DapInv, NEW t \in Prog, Leave(t) PROVE DapInv'
<1> DEFINE p == Popped(thr[t])
           q == IF thr[t].calls = 1 THEN [p EXCEPT !.life = "done"] ELSE p
<1>1. /\ thr[t].life = "on" /\ thr[t].calls > 0 /\ thr[t] \in ThreadRecord
      /\ thr' = [thr EXCEPT ![t] = q]
      /\ overlap' = (overlap \/ evals > 0)
      /\ UNCHANGED <<evals, bps, panic, frameIds, gone, raisedAt>>
  BY DEF Leave, Runs, DapInv, DapTypeOK
<1>2. p \in ThreadRecord /\ (thr[t].frames = thr[t].calls => p.frames = p.calls)
  BY <1>1, PoppedTogether
<1> HIDE DEF p
<1>3. q \in ThreadRecord /\ q.frames = p.frames /\ q.calls = p.calls
  BY <1>2 DEF ThreadRecord
<1> HIDE DEF q
<1>4. thr'[t] = q /\ \A u \in Prog \ {t} : thr'[u] = thr[u]
  BY <1>1 DEF DapInv, DapTypeOK
<1>5. DapTypeOK'
  BY <1>1, <1>3, <1>4 DEF DapInv, DapTypeOK
<1>6. RaisedOnce'
  <2>1. panic # NoPanic => panic.by \in Prog \ {t}
    BY <1>1 DEF DapInv, RaisedOnce
  <2> QED BY <1>1, <1>4, <2>1 DEF DapInv, RaisedOnce
<1>7. StackIsReal'
  BY <1>1, <1>2, <1>3, <1>4, OneStackMoves
<1> QED BY <1>5, <1>6, <1>7 DEF DapInv

\* So does a panic on its way up.
LEMMA UnwindKeeps == ASSUME DapInv, NEW t \in Prog, Unwind(t) PROVE DapInv'
<1> DEFINE p == Popped(thr[t])
<1>1. /\ thr[t].life = "unwinding" /\ thr[t].calls > 0 /\ thr[t] \in ThreadRecord
      /\ thr' = [thr EXCEPT ![t] = p]
      /\ overlap' = (overlap \/ evals > 0)
      /\ UNCHANGED <<evals, bps, panic, frameIds, gone, raisedAt>>
  BY DEF Unwind, DapInv, DapTypeOK
<1>2. p \in ThreadRecord /\ p.life = thr[t].life /\ (thr[t].frames = thr[t].calls => p.frames = p.calls)
  BY <1>1, PoppedTogether
<1> HIDE DEF p
<1>3. thr'[t] = p /\ \A u \in Prog \ {t} : thr'[u] = thr[u]
  BY <1>1 DEF DapInv, DapTypeOK
<1>4. DapTypeOK'
  BY <1>1, <1>2, <1>3 DEF DapInv, DapTypeOK
<1>5. RaisedOnce'
  <2>1. \A u \in Prog : thr'[u].life = thr[u].life
    BY <1>2, <1>3
  <2> QED BY <1>1, <2>1 DEF DapInv, RaisedOnce
<1>6. StackIsReal'
  BY <1>1, <1>2, <1>3, OneStackMoves
<1> QED BY <1>4, <1>5, <1>6 DEF DapInv

\* The record is made where the panic is raised, before anything is popped.
LEMMA RaiseKeeps == ASSUME DapInv, NEW t \in Prog, Raise(t) PROVE DapInv'
<1>1. /\ thr[t].life = "on" /\ thr[t].calls > 0 /\ thr[t] \in ThreadRecord
      /\ thr' = [thr EXCEPT ![t].life = "unwinding"]
      /\ raisedAt' = [raisedAt EXCEPT ![t] = thr[t].calls]
      /\ panic' = IF evals = 0 /\ panic = NoPanic THEN [by |-> t, depth |-> thr[t].frames] ELSE panic
      /\ UNCHANGED <<evals, bps, frameIds, gone, overlap>>
  BY DEF Raise, Runs, DapInv, DapTypeOK
<1>2. /\ thr'[t] = [thr[t] EXCEPT !.life = "unwinding"]
      /\ \A u \in Prog \ {t} : thr'[u] = thr[u]
      /\ raisedAt'[t] = thr[t].calls
      /\ \A u \in Prog \ {t} : raisedAt'[u] = raisedAt[u]
  BY <1>1 DEF DapInv, DapTypeOK
<1>3. /\ thr'[t] \in ThreadRecord /\ thr'[t].life = "unwinding"
      /\ thr'[t].calls = thr[t].calls /\ thr'[t].frames = thr[t].frames
      /\ thr[t].calls \in Nat /\ thr[t].frames \in Nat
  BY <1>1, <1>2 DEF ThreadRecord
<1>4. panic' \in [by : Prog, depth : Nat] \cup {NoPanic}
  BY <1>1, <1>3 DEF DapInv, DapTypeOK
<1>5. DapTypeOK'
  BY <1>1, <1>2, <1>3, <1>4 DEF DapInv, DapTypeOK
<1>6. RaisedOnce'
  <2>1. panic # NoPanic => panic' = panic /\ panic.by \in Prog \ {t}
    BY <1>1 DEF DapInv, RaisedOnce
  <2>2. panic = NoPanic => panic' = NoPanic \/ panic'.by = t
    BY <1>1
  <2>3. CASE panic # NoPanic
    BY <1>2, <2>1, <2>3 DEF DapInv, RaisedOnce
  <2>4. CASE panic = NoPanic
    BY <1>3, <2>2, <2>4 DEF RaisedOnce
  <2> QED BY <2>3, <2>4
<1>7. StackIsReal'
  <2> SUFFICES ASSUME ~overlap
               PROVE  /\ \A u \in Prog : thr'[u].frames = thr'[u].calls
                      /\ panic' # NoPanic => panic'.depth = raisedAt'[panic'.by]
    BY <1>1 DEF StackIsReal
  <2>1. ASSUME NEW u \in Prog PROVE thr'[u].frames = thr'[u].calls
    <3>1. thr[u].frames = thr[u].calls
      BY DEF DapInv, StackIsReal
    <3>2. thr'[u].frames = thr[u].frames /\ thr'[u].calls = thr[u].calls
      BY <1>2, <1>3
    <3> QED BY <3>1, <3>2
  <2>2. thr[t].frames = thr[t].calls /\ (panic # NoPanic => panic.depth = raisedAt[panic.by])
    BY DEF DapInv, StackIsReal
  <2>3. panic' # NoPanic => panic'.depth = raisedAt'[panic'.by]
    <3>1. CASE panic' = panic
      <4>1. panic # NoPanic => panic.by \in Prog \ {t}
        BY <1>1 DEF DapInv, RaisedOnce
      <4> QED BY <1>2, <2>2, <3>1, <4>1
    <3>2. CASE panic' # panic
      <4>1. panic'.by = t /\ panic'.depth = thr[t].frames
        BY <1>1, <3>2
      <4> QED BY <1>2, <2>2, <4>1
    <3> QED BY <3>1, <3>2
  <2> QED BY <2>1, <2>3
<1> QED BY <1>5, <1>6, <1>7 DEF DapInv

\* A step of the debugger changes of the threads' records what it believes.
LEMMA RecordsMove ==
    ASSUME NEW r \in ThreadRecord, NEW c \in Commands, NEW n \in Nat,
           NEW a \in BOOLEAN, NEW b \in BOOLEAN, NEW m \in {"run", "paused"}, NEW l \in {"dead", "done"}
    PROVE  /\ [r EXCEPT !.mode = m, !.cmd = c, !.snap = n, !.asleep = TRUE, !.entry = a, !.pause = b] \in ThreadRecord
           /\ [r EXCEPT !.asleep = a] \in ThreadRecord
           /\ [r EXCEPT !.mode = m] \in ThreadRecord
           /\ [r EXCEPT !.pause = a] \in ThreadRecord
           /\ [r EXCEPT !.cmd = c] \in ThreadRecord
           /\ [r EXCEPT !.life = l] \in ThreadRecord
           /\ [r EXCEPT !.life = l, !.mode = m, !.cmd = c] \in ThreadRecord
           /\ [r EXCEPT !.life = l, !.mode = m, !.cmd = c, !.snap = n, !.asleep = TRUE] \in ThreadRecord
BY DEF ThreadRecord

\* The lists of frame handles
LEMMA HandlesTyped ==
    ASSUME NEW t \in Prog, NEW n \in Nat, DapInv
    PROVE  /\ Snapped(t, n) \in SUBSET [by : Prog, depth : Nat, old : BOOLEAN]
           /\ {[h EXCEPT !.old = @ \/ h.by = t] : h \in frameIds} \in SUBSET [by : Prog, depth : Nat, old : BOOLEAN]
<1>1. Snapped(t, n) \in SUBSET [by : Prog, depth : Nat, old : BOOLEAN]
  BY DEF Snapped
<1>2. ASSUME NEW h \in frameIds
      PROVE  [h EXCEPT !.old = @ \/ h.by = t] \in [by : Prog, depth : Nat, old : BOOLEAN]
  <2>1. h \in [by : Prog, depth : Nat, old : BOOLEAN]
    BY DEF DapInv, DapTypeOK
  <2>2. \A b \in BOOLEAN : [h EXCEPT !.old = b] \in [by : Prog, depth : Nat, old : BOOLEAN]
    BY <2>1
  <2>3. (h.old \/ h.by = t) \in BOOLEAN
    BY <2>1
  <2> QED BY <2>2, <2>3
<1> QED BY <1>1, <1>2

\* A stop gives handles to the frames there are.
LEMMA StopKeeps == ASSUME DapInv, NEW t \in Prog, Stop(t) PROVE DapInv'
<1>1. PICK why \in {Reason(t, TRUE), Reason(t, FALSE)} : thr' = [thr EXCEPT ![t] = Stopped(t, why)]
  BY DEF Stop
<1>2. /\ thr[t] \in ThreadRecord /\ thr[t].frames \in Nat
      /\ frameIds' = Snapped(t, thr[t].frames)
      /\ UNCHANGED <<evals, bps, panic, gone, raisedAt, overlap>>
  BY DEF Stop, DapInv, DapTypeOK, ThreadRecord
<1>3. NoCommand \in Commands
  BY DEF NoCommand, Commands
<1>4. /\ (IF why = "entry" THEN FALSE ELSE thr[t].entry) \in BOOLEAN
      /\ (IF why = "pause" THEN FALSE ELSE thr[t].pause) \in BOOLEAN
  BY <1>2 DEF ThreadRecord
<1>5. Stopped(t, why) \in ThreadRecord
  <2> DEFINE a == IF why = "entry" THEN FALSE ELSE thr[t].entry
             b == IF why = "pause" THEN FALSE ELSE thr[t].pause
  <2>1. Stopped(t, why) = [thr[t] EXCEPT !.mode = "paused", !.cmd = NoCommand, !.snap = thr[t].frames,
                                         !.asleep = TRUE, !.entry = a, !.pause = b]
    BY <1>2 DEF Stopped, ThreadRecord
  <2>2. a \in BOOLEAN /\ b \in BOOLEAN
    BY <1>4
  <2> HIDE DEF a, b
  <2>3. [thr[t] EXCEPT !.mode = "paused", !.cmd = NoCommand, !.snap = thr[t].frames,
                       !.asleep = TRUE, !.entry = a, !.pause = b] \in ThreadRecord
    BY <1>2, <1>3, <2>2 DEF ThreadRecord
  <2> QED BY <2>1, <2>3
<1>6. Stopped(t, why).calls = thr[t].calls /\ Stopped(t, why).frames = thr[t].frames /\ Stopped(t, why).life = thr[t].life
  BY <1>2 DEF Stopped, ThreadRecord
<1>7. thr'[t] = Stopped(t, why) /\ (\A u \in Prog \ {t} : thr'[u] = thr[u]) /\ thr' \in [Prog -> ThreadRecord]
  BY <1>1, <1>5 DEF DapInv, DapTypeOK
<1>8. DapTypeOK'
  BY <1>2, <1>7, HandlesTyped DEF DapInv, DapTypeOK
<1> QED BY <1>2, <1>6, <1>7, <1>8, StackAtRest

\* A thread goes back to sleep, or on; its handles grow old when it goes on.
LEMMA ResumeKeeps == ASSUME DapInv, NEW t \in Prog, Resume(t) PROVE DapInv'
<1>1. PICK r \in {[thr[t] EXCEPT !.asleep = TRUE], [thr[t] EXCEPT !.mode = "run"]} : thr' = [thr EXCEPT ![t] = r]
  BY DEF Resume
<1>2. /\ thr[t] \in ThreadRecord
      /\ \/ UNCHANGED frameIds
         \/ frameIds' = {[h EXCEPT !.old = @ \/ h.by = t] : h \in frameIds}
      /\ UNCHANGED <<evals, bps, panic, gone, raisedAt, overlap>>
  BY DEF Resume, DapInv, DapTypeOK
<1>3. r \in ThreadRecord
  <2>1. NoCommand \in Commands
    BY DEF NoCommand, Commands
  <2> QED BY <1>1, <1>2, <2>1, RecordsMove
<1>4. r.calls = thr[t].calls /\ r.frames = thr[t].frames /\ r.life = thr[t].life
  BY <1>1, <1>2 DEF ThreadRecord
<1>5. thr'[t] = r /\ (\A u \in Prog \ {t} : thr'[u] = thr[u]) /\ thr' \in [Prog -> ThreadRecord]
  BY <1>1, <1>3 DEF DapInv, DapTypeOK
<1>6. frameIds' \in SUBSET [by : Prog, depth : Nat, old : BOOLEAN]
  BY <1>2, HandlesTyped DEF DapInv, DapTypeOK
<1>7. DapTypeOK'
  BY <1>2, <1>5, <1>6 DEF DapInv, DapTypeOK
<1> QED BY <1>2, <1>4, <1>5, <1>7, StackAtRest

\* A panic nobody caught ends its thread, or the program.
LEMMA DieKeeps == ASSUME DapInv, NEW t \in Prog, Die(t) PROVE DapInv'
<1>1. /\ thr[t].life = "unwinding" /\ thr[t] \in ThreadRecord
      /\ UNCHANGED <<evals, bps, panic, raisedAt, overlap>>
  BY DEF Die, DapInv, DapTypeOK
<1>2. CASE gone' = TRUE /\ UNCHANGED <<thr, frameIds>>
  <2>1. DapTypeOK'
    BY <1>1, <1>2 DEF DapInv, DapTypeOK
  <2> QED BY <1>1, <1>2, <2>1, StackAtRest
<1>3. CASE /\ panic # NoPanic
           /\ thr' = [thr EXCEPT ![t].life = "dead", ![t].mode = "paused", ![t].cmd = NoCommand,
                                 ![t].snap = panic.depth, ![t].asleep = TRUE]
           /\ frameIds' = Snapped(t, panic.depth)
           /\ UNCHANGED gone
  <2> DEFINE r == [thr[t] EXCEPT !.life = "dead", !.mode = "paused", !.cmd = NoCommand,
                                 !.snap = panic.depth, !.asleep = TRUE]
  <2>1. panic.depth \in Nat /\ NoCommand \in Commands
    BY <1>3 DEF DapInv, DapTypeOK, NoCommand, Commands
  <2>2. r \in ThreadRecord
    BY <1>1, <2>1, RecordsMove
  <2>3. r.calls = thr[t].calls /\ r.frames = thr[t].frames /\ r.life = "dead"
    BY <1>1 DEF ThreadRecord
  <2>4. thr'[t] = r /\ (\A u \in Prog \ {t} : thr'[u] = thr[u])
    BY <1>3 DEF DapInv, DapTypeOK
  <2>5. thr' \in [Prog -> ThreadRecord]
    <3>1. thr' = [thr EXCEPT ![t] = r]
      BY <1>3 DEF DapInv, DapTypeOK
    <3> QED BY <2>2, <3>1 DEF DapInv, DapTypeOK
  <2>6. DapTypeOK'
    BY <1>1, <1>3, <2>1, <2>5, HandlesTyped DEF DapInv, DapTypeOK
  <2> HIDE DEF r
  <2> QED BY <1>1, <2>3, <2>4, <2>6, StackAtRest
<1>4. CASE thr' = [thr EXCEPT ![t].life = "done"] /\ UNCHANGED <<frameIds, gone>>
  <2> DEFINE r == [thr[t] EXCEPT !.life = "done"]
  <2>1. r \in ThreadRecord /\ r.calls = thr[t].calls /\ r.frames = thr[t].frames /\ r.life = "done"
    BY <1>1 DEF ThreadRecord
  <2>2. thr'[t] = r /\ (\A u \in Prog \ {t} : thr'[u] = thr[u]) /\ thr' \in [Prog -> ThreadRecord]
    BY <1>4, <2>1 DEF DapInv, DapTypeOK
  <2>3. DapTypeOK'
    BY <1>1, <1>4, <2>2 DEF DapInv, DapTypeOK
  <2> HIDE DEF r
  <2> QED BY <1>1, <2>1, <2>2, <2>3, StackAtRest
<1> QED BY <1>2, <1>3, <1>4 DEF Die

\* The handles of a dead thread are old.
LEMMA BuryKeeps == ASSUME DapInv, NEW t \in Prog, Bury(t) PROVE DapInv'
<1> DEFINE r == [thr[t] EXCEPT !.life = "done", !.mode = "run", !.cmd = NoCommand]
<1>1. /\ thr[t] \in ThreadRecord
      /\ thr' = [thr EXCEPT ![t].life = "done", ![t].mode = "run", ![t].cmd = NoCommand]
      /\ frameIds' = {[h EXCEPT !.old = @ \/ h.by = t] : h \in frameIds}
      /\ UNCHANGED <<evals, bps, panic, gone, raisedAt, overlap>>
  BY DEF Bury, DapInv, DapTypeOK
<1>2. NoCommand \in Commands
  BY DEF NoCommand, Commands
<1>3. r \in ThreadRecord
  BY <1>1, <1>2, RecordsMove
<1>4. r.calls = thr[t].calls /\ r.frames = thr[t].frames /\ r.life = "done"
  BY <1>1 DEF ThreadRecord
<1>5. thr' = [thr EXCEPT ![t] = r]
  BY <1>1 DEF DapInv, DapTypeOK
<1> HIDE DEF r
<1>6. thr'[t] = r /\ (\A u \in Prog \ {t} : thr'[u] = thr[u]) /\ thr' \in [Prog -> ThreadRecord]
  BY <1>3, <1>5 DEF DapInv, DapTypeOK
<1>7. frameIds' \in SUBSET [by : Prog, depth : Nat, old : BOOLEAN]
  <2>1. 0 \in Nat
    OBVIOUS
  <2> QED BY <1>1, <2>1, HandlesTyped
<1>8. DapTypeOK'
  BY <1>1, <1>6, <1>7 DEF DapInv, DapTypeOK
<1> QED BY <1>1, <1>4, <1>6, <1>8, StackAtRest

\* The requests leave the stacks alone, whichever threads they wake.
LEMMA RequestKeeps == ASSUME DapInv, Request \/ Evaluated PROVE DapInv'
<1>1. ASSUME UNCHANGED <<panic, raisedAt, overlap>>,
             evals' \in Nat, bps' \in BOOLEAN, gone' \in BOOLEAN,
             frameIds' \in SUBSET [by : Prog, depth : Nat, old : BOOLEAN],
             DOMAIN thr' = Prog, thr' = [u \in Prog |-> thr'[u]],
             \A u \in Prog : /\ thr'[u] \in ThreadRecord
                             /\ thr'[u].calls = thr[u].calls
                             /\ thr'[u].frames = thr[u].frames
                             /\ thr'[u].life = thr[u].life
      PROVE  DapInv'
  <2>1. thr' \in [Prog -> ThreadRecord]
    BY <1>1
  <2>2. DapTypeOK'
    BY <1>1, <2>1 DEF DapInv, DapTypeOK
  <2> QED BY <1>1, <2>2, StackAtRest
<1>2. /\ thr \in [Prog -> ThreadRecord] /\ evals \in Nat /\ bps \in BOOLEAN /\ gone \in BOOLEAN
      /\ frameIds \in SUBSET [by : Prog, depth : Nat, old : BOOLEAN]
  BY DEF DapInv, DapTypeOK
<1>3. CASE SetBreakpoints \/ Evaluate \/ Evaluated \/ Disconnect
  <2>1. /\ UNCHANGED <<thr, panic, frameIds, raisedAt, overlap>>
        /\ evals' \in Nat /\ bps' \in BOOLEAN /\ gone' \in BOOLEAN
    <3>1. CASE SetBreakpoints
      BY <1>2, <3>1, (~bps) \in BOOLEAN, Zenon DEF SetBreakpoints
    <3>2. CASE Evaluate
      BY <1>2, <3>2 DEF Evaluate
    <3>3. CASE Evaluated
      BY <1>2, <3>3 DEF Evaluated
    <3>4. CASE Disconnect
      BY <1>2, <3>4, Zenon DEF Disconnect
    <3> QED BY <1>3, <3>1, <3>2, <3>3, <3>4
  <2> QED BY <1>1, <1>2, <2>1
\* A woken thread may have been given a command.
<1>4. ASSUME NEW r \in ThreadRecord, NEW c \in Commands
      PROVE  /\ Woken(r) \in ThreadRecord /\ Woken([r EXCEPT !.cmd = c]) \in ThreadRecord
             /\ Woken(r).calls = r.calls /\ Woken(r).frames = r.frames /\ Woken(r).life = r.life
             /\ Woken([r EXCEPT !.cmd = c]).calls = r.calls
             /\ Woken([r EXCEPT !.cmd = c]).frames = r.frames
             /\ Woken([r EXCEPT !.cmd = c]).life = r.life
  BY DEF Woken, ThreadRecord
<1>5. CASE Continue
  <2>1. [verb |-> "continue", depth |-> 0] \in Commands
    BY DEF Commands, Verb
  <2>2. /\ thr' = [t \in Prog |->
                     IF Paused(t) THEN Woken([thr[t] EXCEPT !.cmd = [verb |-> "continue", depth |-> 0]])
                     ELSE thr[t]]
        /\ UNCHANGED <<evals, bps, panic, frameIds, gone, raisedAt, overlap>>
    BY <1>5 DEF Continue
  <2> QED BY <1>1, <1>2, <1>4, <2>1, <2>2
<1>6. CASE \E t \in Prog : Step(t)
  <2>1. PICK t \in Prog : Step(t)
    BY <1>6
  <2>2. PICK v \in Verb \ {"continue"} :
          thr' = [u \in Prog |->
                   IF ~Paused(u) THEN thr[u]
                   ELSE IF u = t THEN Woken([thr[t] EXCEPT !.cmd = [verb |-> v, depth |-> thr[t].snap]])
                   ELSE Woken(thr[u])]
    BY <2>1 DEF Step
  <2>3. [verb |-> v, depth |-> thr[t].snap] \in Commands
    BY <1>2 DEF Commands, ThreadRecord
  <2>4. UNCHANGED <<evals, bps, panic, frameIds, gone, raisedAt, overlap>>
    BY <2>1 DEF Step
  <2> DEFINE q == [thr[t] EXCEPT !.cmd = [verb |-> v, depth |-> thr[t].snap]]
  <2>5. ASSUME NEW u \in Prog
        PROVE  /\ thr'[u] \in ThreadRecord
               /\ thr'[u].calls = thr[u].calls
               /\ thr'[u].frames = thr[u].frames
               /\ thr'[u].life = thr[u].life
    <3>1. thr'[u] = thr[u] \/ thr'[u] = Woken(thr[u]) \/ (u = t /\ thr'[u] = Woken(q))
      BY <2>2
    <3>2. thr[u] \in ThreadRecord /\ thr[t] \in ThreadRecord
      BY <1>2
    <3>3. CASE thr'[u] = Woken(thr[u])
      BY <1>4, <2>3, <3>2, <3>3
    <3>4. CASE u = t /\ thr'[u] = Woken(q)
      BY <1>4, <2>3, <3>2, <3>4
    <3> QED BY <3>1, <3>2, <3>3, <3>4
  <2>6. DOMAIN thr' = Prog /\ thr' = [u \in Prog |-> thr'[u]]
    BY <2>2
  <2> QED BY <1>1, <1>2, <2>4, <2>5, <2>6
<1>7. CASE \E t \in Prog : Pause(t)
  <2>1. PICK t \in Prog : Pause(t)
    BY <1>7
  <2> DEFINE r == [thr[t] EXCEPT !.pause = TRUE]
  <2>2. r \in ThreadRecord /\ r.calls = thr[t].calls /\ r.frames = thr[t].frames /\ r.life = thr[t].life
    <3>1. thr[t] \in ThreadRecord
      BY <1>2
    <3> QED BY <3>1 DEF ThreadRecord
  <2>3. thr' = [thr EXCEPT ![t] = r] /\ UNCHANGED <<evals, bps, panic, frameIds, gone, raisedAt, overlap>>
    BY <2>1, <1>2 DEF Pause
  <2> HIDE DEF r
  <2> QED BY <1>1, <1>2, <2>2, <2>3
<1>8. CASE \E t \in Prog : StackTrace(t)
  <2>1. PICK t \in Prog : StackTrace(t)
    BY <1>8
  <2>2. thr[t].snap \in Nat
    BY <1>2 DEF ThreadRecord
  <2>3. frameIds' \in SUBSET [by : Prog, depth : Nat, old : BOOLEAN]
    BY <2>1, <2>2, <1>2, HandlesTyped DEF StackTrace
  <2>4. UNCHANGED <<thr, evals, bps, panic, gone, raisedAt, overlap>>
    BY <2>1 DEF StackTrace
  <2> QED BY <1>1, <1>2, <2>3, <2>4
<1> QED BY <1>3, <1>5, <1>6, <1>7, <1>8 DEF Request

\* Each step of the session keeps the invariant.
LEMMA DapStepKeeps == DapInv /\ [DapNext]_dapVars => DapInv'
<1> SUFFICES ASSUME DapInv, [DapNext]_dapVars PROVE DapInv'
  OBVIOUS
<1>1. CASE \E t \in Prog : ThreadStep(t)
  BY <1>1, EnterKeeps, LeaveKeeps, StopKeeps, RaiseKeeps, UnwindKeeps, DieKeeps DEF ThreadStep
<1>2. CASE \E t \in Prog : Resume(t) \/ Bury(t)
  BY <1>2, ResumeKeeps, BuryKeeps
<1>3. CASE Request \/ Evaluated
  BY <1>3, RequestKeeps
<1>4. CASE UNCHANGED dapVars
  BY <1>4 DEF dapVars, DapInv, DapTypeOK, RaisedOnce, StackIsReal
<1> QED BY <1>1, <1>2, <1>3, <1>4 DEF DapNext

\* The depth the debugger works with is the depth of the calls: through every
\* call, return, panic and unwinding of any number of threads, however deep, as
\* long as no evaluation overlapped a running thread; and the panic it shows is
\* shown where it was raised.
THEOREM StackStaysReal == DapSpec => []StackIsReal
<1>1. DapInv => StackIsReal
  BY DEF DapInv
<1> QED BY <1>1, DapInitially, DapStepKeeps, PTL DEF DapSpec
=============================================================================
