------------------------------ MODULE Services ------------------------------
(***************************************************************************)
(* The daemon's services around the router: the settings store and its     *)
(* writer (settings.rs), the boot latches and the event bus (events.rs),   *)
(* the watchers that wait on them and on the router's events               *)
(* (event_process.rs, main.rs, playlist/restore.rs), the supervisor of the *)
(* display backend (display/spawner.rs), the session monitor               *)
(* (session_monitor.rs) and the order main shuts them down in.             *)
(***************************************************************************)
EXTENDS Naturals, Sequences, FiniteSets, TLC

CONSTANTS Requests,     \* handlers that change the settings
          Displays,     \* registrations, each with a DisplayId of its own
          Managed,      \* those made by the backend the daemon spawned
          Playlisted,   \* those with a playlist in the settings (resolve_pid)
          WallpaperOf,  \* the last wallpaper of each, or NoWallpaper
          NoWallpaper,
          Scenarios,    \* how much of each kind of event a behaviour has
          QueueCap,     \* capacity of a broadcast receiver, at least 1
          MaxChanges    \* bound on the settings' versions

Wallpapers == {WallpaperOf[d] : d \in Displays} \ {NoWallpaper}
Kinds == {"boot", "change", "fail", "come", "go", "touch", "noise", "crash", "lock", "quit",
          "refuse"}

ASSUME ServicesAssumption ==
  /\ Managed \subseteq Displays /\ Playlisted \subseteq Displays
  /\ DOMAIN WallpaperOf = Displays
  /\ Scenarios \subseteq [Kinds -> Nat]
  /\ QueueCap \in Nat \ {0} /\ MaxChanges \in Nat
  /\ \A s \in Scenarios : s["change"] <= MaxChanges

VARIABLES
  budget,     \* the events still to come
  (* settings *)
  mem,        \* version of the settings in memory
  disk,       \* version in config.toml
  dirty,      \* SettingsStore.dirty
  permit,     \* the permit notify holds
  at,         \* where the writer, main and each handler are
  snap,       \* the version each flush took
  failed,     \* did the last write fail? (history)
  (* boot *)
  here,       \* displays that are registered
  gone,       \* displays that were
  latch,      \* sources_ready and display_ready
  bus,        \* what the dispatcher has not received of the event bus
  feed,       \* what each watcher has not received of the router's events
  lagged,     \* receivers that missed something and were not told yet
  step,       \* where each boot task is
  seen,       \* the recall's seen
  pending,    \* the recall's pending
  recalled,   \* how often each display was recalled
  todo,       \* displays the hot-plug watcher is about to activate
  playing,    \* displays with an active playlist
  refused,    \* displays whose activation failed and that no event has shown since
  (* backend and session *)
  backend,    \* run_backend: "head", "running", "backoff" or "returned"
  locked,     \* is the screen locked?
  signals,    \* signals the monitor has not received
  sent,       \* what the monitor sent to its dispatch loop
  routerLocked, \* what the router was told
  heard       \* did the screen change after the subscription? (history)

settingsVars == <<mem, disk, dirty, permit, at, snap, failed>>
routerVars == <<here, gone>>
recallVars == <<seen, pending, recalled>>
hotplugVars == <<todo, playing, refused>>
bootVars == <<latch, bus, feed, lagged, step, recallVars, hotplugVars>>
sessionVars == <<locked, signals, sent, routerLocked, heard>>
vars == <<budget, settingsVars, routerVars, bootVars, backend, sessionVars>>

Watchers == {"recall", "watcher", "hotplug"}
Tasks == Watchers \cup {"dispatcher", "sources", "monitor"}
Flushers == Requests \cup {"writer", "main"}
ShuttingDown == at["main"] # "idle"
Exited == at["main"] = "exited"

Happens(kind) == budget[kind] > 0 /\ budget' = [budget EXCEPT ![kind] = @ - 1]
Idle == UNCHANGED budget

TypeOK ==
  /\ budget \in [Kinds -> Nat]
  /\ mem \in 0..MaxChanges /\ disk \in 0..MaxChanges
  /\ dirty \in BOOLEAN /\ permit \in BOOLEAN /\ failed \in BOOLEAN
  /\ at \in [Flushers -> {"idle", "mark", "notify", "debounce", "check", "lock",
                          "snap", "write", "exited"}]
  /\ snap \in [Flushers -> 0..MaxChanges]
  /\ here \subseteq Displays /\ gone \subseteq Displays /\ here \cap gone = {}
  /\ latch \in [{"sources", "display"} -> BOOLEAN]
  /\ bus \in Seq({"ready", "other"}) /\ Len(bus) <= QueueCap
  /\ feed \in [Watchers -> Seq({"upsert", "removed"} \X Displays)]
  /\ \A w \in Watchers : Len(feed[w]) <= QueueCap
  /\ lagged \subseteq Watchers \cup {"dispatcher"}
  /\ step \in [Tasks -> {"off", "read", "subscribe", "wait", "sweep", "latched", "send",
                         "loop", "done"}]
  /\ seen \subseteq Displays
  /\ pending \in [Wallpapers -> SUBSET Displays]
  /\ recalled \in [Displays -> Nat]
  /\ todo \subseteq Displays /\ playing \subseteq Displays /\ refused \subseteq Playlisted
  /\ backend \in {"head", "running", "backoff", "returned"}
  /\ locked \in BOOLEAN /\ routerLocked \in BOOLEAN /\ heard \in BOOLEAN
  /\ signals \in Seq(BOOLEAN) /\ sent \in Seq(BOOLEAN)

AtBoot == [dispatcher |-> "subscribe", sources |-> "read", watcher |-> "read",
           recall |-> "off", hotplug |-> "subscribe"]
AfterBoot == [dispatcher |-> "loop", sources |-> "done", watcher |-> "loop",
              recall |-> "loop", hotplug |-> "wait"]
Monitor == [monitor |-> IF budget["lock"] > 0 THEN "read" ELSE "loop"]

\* A behaviour starts with the boot of the daemon, or when that is over and no
\* display has come (the monitor's start only matters if the screen changes).
\* load_or_default: a new file that could not be written leaves the store dirty.
Init ==
  /\ budget \in Scenarios
  /\ mem = 0 /\ disk = 0 /\ dirty \in {FALSE, budget["change"] > 0} /\ permit = FALSE
  /\ at = [f \in Flushers |-> "idle"] /\ snap = [f \in Flushers |-> 0]
  /\ failed = dirty
  /\ here = {} /\ gone = {}
  /\ bus = <<>> /\ feed = [w \in Watchers |-> <<>>] /\ lagged = {}
  /\ IF budget["boot"] > 0
     THEN step = AtBoot @@ Monitor /\ latch = [l \in {"sources", "display"} |-> FALSE] /\ backend = "head"
     ELSE /\ step = AfterBoot @@ Monitor
          /\ latch = [sources |-> TRUE, display |-> FALSE] /\ backend = "running"
  /\ seen = {} /\ pending = [w \in Wallpapers |-> {}] /\ recalled = [d \in Displays |-> 0]
  /\ todo = {} /\ playing = {} /\ refused = {}
  /\ locked \in {FALSE, budget["lock"] > 0} /\ signals = <<>> /\ sent = <<>>
  /\ routerLocked = FALSE /\ heard = FALSE

-----------------------------------------------------------------------------
(* The settings store.                                                     *)

OnlySettings == ~Exited /\ UNCHANGED <<routerVars, bootVars, backend, sessionVars>>

\* update changes the settings under the lock, then marks and notifies.
Update(r) ==
  /\ at[r] = "idle" /\ Happens("change") /\ OnlySettings
  /\ mem' = mem + 1
  /\ at' = [at EXCEPT ![r] = "mark"]
  /\ UNCHANGED <<disk, dirty, permit, snap, failed>>

Mark(r) ==
  /\ at[r] = "mark" /\ OnlySettings /\ Idle
  /\ dirty' = TRUE
  /\ at' = [at EXCEPT ![r] = "notify"]
  /\ UNCHANGED <<mem, disk, permit, snap, failed>>

Updating(f) == at[f] \in {"mark", "notify"}

MarkWithoutNotify(r) ==
  /\ at[r] = "notify" /\ OnlySettings /\ Idle
  /\ at' \in {[at EXCEPT ![r] = "idle"], [at EXCEPT ![r] = "check"]}
  /\ UNCHANGED <<mem, disk, dirty, permit, snap, failed>>

\* A handler then returns, or saves with flush_now first.
NotifyOne(r) ==
  /\ at[r] = "notify" /\ OnlySettings /\ Idle
  /\ permit' = TRUE
  /\ at' \in {[at EXCEPT ![r] = "idle"], [at EXCEPT ![r] = "check"]}
  /\ UNCHANGED <<mem, disk, dirty, snap, failed>>

\* writer_loop: a notification starts the debounce, or starts it over.
Notified ==
  /\ at["writer"] \in {"idle", "debounce"} /\ permit /\ OnlySettings /\ Idle
  /\ permit' = FALSE
  /\ at' = [at EXCEPT !["writer"] = "debounce"]
  /\ UNCHANGED <<mem, disk, dirty, snap, failed>>

Debounced ==
  /\ at["writer"] = "debounce" /\ ~permit /\ OnlySettings /\ Idle
  /\ at' = [at EXCEPT !["writer"] = "check"]
  /\ UNCHANGED <<mem, disk, dirty, permit, snap, failed>>

Returned(f) == [at EXCEPT ![f] = IF f = "main" THEN "exited" ELSE "idle"]

\* flush looks at dirty, and again when it has the lock.
CheckDirty(f) ==
  /\ at[f] = "check" /\ OnlySettings /\ Idle
  /\ at' = IF dirty THEN [at EXCEPT ![f] = "lock"] ELSE Returned(f)
  /\ UNCHANGED <<mem, disk, dirty, permit, snap, failed>>

Holding == {f \in Flushers : at[f] \in {"snap", "write"}}

SwapDirty(f) ==
  /\ at[f] = "lock" /\ Holding = {} /\ OnlySettings /\ Idle
  /\ dirty' = FALSE
  /\ at' = IF dirty THEN [at EXCEPT ![f] = "snap"] ELSE Returned(f)
  /\ UNCHANGED <<mem, disk, permit, snap, failed>>

Snapshot(f) ==
  /\ at[f] = "snap" /\ OnlySettings /\ Idle
  /\ snap' = [snap EXCEPT ![f] = mem]
  /\ at' = [at EXCEPT ![f] = "write"]
  /\ UNCHANGED <<mem, disk, dirty, permit, failed>>

WriteThenClear(f) ==
  /\ at[f] = "write" /\ OnlySettings /\ Idle
  /\ disk' = snap[f] /\ failed' = FALSE /\ dirty' = FALSE
  /\ at' = Returned(f)
  /\ UNCHANGED <<mem, permit, snap>>

\* The temporary file is written and renamed over config.toml ...
Write(f) ==
  /\ at[f] = "write" /\ OnlySettings /\ Idle
  /\ disk' = snap[f] /\ failed' = FALSE
  /\ at' = Returned(f)
  /\ UNCHANGED <<mem, dirty, permit, snap>>

\* ... or some step of that fails: the store is dirty again, nobody is notified.
WriteFails(f) ==
  /\ at[f] = "write" /\ Happens("fail") /\ OnlySettings
  /\ dirty' = TRUE /\ failed' = TRUE
  /\ at' = Returned(f)
  /\ UNCHANGED <<mem, disk, permit, snap>>

\* shutdown_now, then flush_now; main returns when that does.
Shutdown ==
  /\ ~ShuttingDown /\ Happens("quit") /\ OnlySettings
  /\ at' = [at EXCEPT !["main"] = "check"]
  /\ UNCHANGED <<mem, disk, dirty, permit, snap, failed>>

-----------------------------------------------------------------------------
(* The buses.                                                              *)

\* A broadcast receiver that is full loses its oldest event and has lagged.
Pushed(q, e) == Append(IF Len(q) = QueueCap THEN Tail(q) ELSE q, e)

Subscribed(w) == IF w = "recall" THEN step[w] \in {"sweep", "loop"}
                 ELSE step[w] \notin {"read", "subscribe", "done"}

\* Router::emit, to every receiver there is.
Emit(e) ==
  /\ feed' = [w \in Watchers |-> IF Subscribed(w) THEN Pushed(feed[w], e) ELSE feed[w]]
  /\ lagged' = lagged \cup {w \in Watchers : Subscribed(w) /\ Len(feed[w]) = QueueCap}
  /\ refused' = refused \ {e[2]}

Publish(e) ==
  /\ bus' = IF step["dispatcher"] = "subscribe" THEN bus ELSE Pushed(bus, e)
  /\ lagged' = lagged \cup {d \in {"dispatcher"} : step[d] # "subscribe" /\ Len(bus) = QueueCap}

OnlyRouter == /\ ~Exited
              /\ UNCHANGED <<settingsVars, latch, bus, step, recallVars, todo, playing,
                             sessionVars>>

\* A display registers: those of the backend while it runs.
Register(d) ==
  /\ d \notin here \cup gone /\ Happens("come") /\ OnlyRouter
  /\ d \in Managed => backend = "running"
  /\ here' = here \cup {d}
  /\ Emit(<<"upsert", d>>)
  /\ UNCHANGED <<gone, backend>>

\* Any change of a display is an upsert too.
Touch(d) ==
  /\ d \in here /\ Happens("touch") /\ OnlyRouter
  /\ Emit(<<"upsert", d>>)
  /\ UNCHANGED <<routerVars, backend>>

Unregister(d) ==
  /\ d \in here /\ OnlyRouter
  /\ \/ Happens("go")
     \/ Idle /\ d \in Managed /\ backend # "running"  \* its connection is closed
  /\ here' = here \ {d} /\ gone' = gone \cup {d}
  /\ Emit(<<"removed", d>>)
  /\ UNCHANGED backend

\* Events of the bus that no task of this module waits for.
Noise ==
  /\ ~Exited /\ Happens("noise") /\ Publish("other")
  /\ UNCHANGED <<settingsVars, routerVars, latch, feed, step, recallVars, hotplugVars,
                 backend, sessionVars>>

-----------------------------------------------------------------------------
(* Boot.                                                                   *)

OnlyBoot == ~Exited /\ Idle /\ UNCHANGED <<settingsVars, routerVars, backend, sessionVars>>
Steps(t, place) == step' = [step EXCEPT ![t] = place]

\* startup/sources: publish latches SourcesReady, then sends it.
SourcesLatch ==
  /\ step["sources"] = "read" /\ OnlyBoot
  /\ latch' = [latch EXCEPT !["sources"] = TRUE]
  /\ Steps("sources", "latched")
  /\ UNCHANGED <<bus, feed, lagged, recallVars, hotplugVars>>

SourcesSend ==
  /\ step["sources"] = "latched" /\ OnlyBoot
  /\ Publish("ready")
  /\ Steps("sources", "done")
  /\ UNCHANGED <<latch, feed, recallVars, hotplugVars>>

\* The dispatcher subscribes, reads the latch, then receives.
DispatcherSubscribe ==
  /\ step["dispatcher"] = "subscribe" /\ OnlyBoot
  /\ Steps("dispatcher", "read")
  /\ UNCHANGED <<latch, bus, feed, lagged, recallVars, hotplugVars>>

\* spawn_wallpaper_recall, unless recall_started.
StartRecall(ready, place) ==
  step' = [step EXCEPT !["dispatcher"] = place,
                       !["recall"] = IF ready /\ @ = "off" THEN "subscribe" ELSE @]

DispatcherSkipsLatch ==
  /\ step["dispatcher"] = "read" /\ OnlyBoot
  /\ Steps("dispatcher", "loop")
  /\ UNCHANGED <<latch, bus, feed, lagged, recallVars, hotplugVars>>

DispatcherReadsLatch ==
  /\ step["dispatcher"] = "read" /\ OnlyBoot
  /\ StartRecall(latch["sources"], "loop")
  /\ UNCHANGED <<latch, bus, feed, lagged, recallVars, hotplugVars>>

DispatcherLagged ==
  /\ step["dispatcher"] = "loop" /\ "dispatcher" \in lagged /\ OnlyBoot
  /\ lagged' = lagged \ {"dispatcher"}
  /\ StartRecall(latch["sources"], "loop")
  /\ UNCHANGED <<latch, bus, feed, recallVars, hotplugVars>>

DispatcherReceives ==
  /\ step["dispatcher"] = "loop" /\ "dispatcher" \notin lagged /\ bus # <<>> /\ OnlyBoot
  /\ bus' = Tail(bus)
  /\ StartRecall(Head(bus) = "ready", "loop")
  /\ UNCHANGED <<latch, feed, lagged, recallVars, hotplugVars>>

ToRecallAgain(ds) == {d \in ds : d \notin Playlisted /\ WallpaperOf[d] # NoWallpaper}

\* record: a display with a playlist, or with no wallpaper to recall, is left alone.
ToRecall(ds) == {d \in ds \ seen : d \notin Playlisted /\ WallpaperOf[d] # NoWallpaper}
See(ds) ==
  /\ seen' = seen \cup ds
  /\ pending' = [w \in Wallpapers |-> pending[w] \cup {d \in ToRecall(ds) : WallpaperOf[d] = w}]
  /\ UNCHANGED <<recalled, hotplugVars>>

RecallSubscribe ==
  /\ step["recall"] = "subscribe" /\ OnlyBoot
  /\ Steps("recall", "sweep")
  /\ UNCHANGED <<latch, bus, feed, lagged, recallVars, hotplugVars>>

RecallSweep ==
  /\ step["recall"] = "sweep" /\ OnlyBoot
  /\ Steps("recall", "loop") /\ See(here)
  /\ UNCHANGED <<latch, bus, feed, lagged>>

\* A receiver that lagged is told so before it gets another event.
Receives(w) == /\ step[w] = "loop" /\ w \notin lagged /\ feed[w] # <<>>
               /\ feed' = [feed EXCEPT ![w] = Tail(@)]
               /\ UNCHANGED <<latch, bus, lagged, step>>
Lags(w) == /\ step[w] = "loop" /\ w \in lagged
           /\ lagged' = lagged \ {w}
           /\ UNCHANGED <<latch, bus, feed, step>>

Event(w) == Head(feed[w])
Upserted(w) == {d \in Displays : Event(w) = <<"upsert", d>>}

RecallReceives == Receives("recall") /\ See(Upserted("recall")) /\ OnlyBoot
RecallLagged == Lags("recall") /\ See(here) /\ OnlyBoot

\* The settle time of a wallpaper's group is over: it is applied to the group.
RecallFires(w) ==
  /\ step["recall"] = "loop" /\ pending[w] # {} /\ OnlyBoot
  /\ pending' = [pending EXCEPT ![w] = {}]
  /\ recalled' = [d \in Displays |-> recalled[d] + IF d \in pending[w] THEN 1 ELSE 0]
  /\ UNCHANGED <<latch, bus, feed, lagged, step, seen, hotplugVars>>

\* boot/display-watcher looks for a display before it subscribes.
WatcherReads ==
  /\ step["watcher"] = "read" /\ OnlyBoot
  /\ Steps("watcher", IF here = {} THEN "subscribe" ELSE "latched")
  /\ UNCHANGED <<latch, bus, feed, lagged, recallVars, hotplugVars>>

WatcherSubscribes ==
  /\ step["watcher"] = "subscribe" /\ OnlyBoot
  /\ Steps("watcher", "loop")
  /\ UNCHANGED <<latch, bus, feed, lagged, recallVars, hotplugVars>>

WatcherReceives ==
  /\ step["watcher"] = "loop" /\ OnlyBoot
  /\ IF "watcher" \in lagged
     THEN /\ lagged' = lagged \ {"watcher"} /\ UNCHANGED feed
          /\ Steps("watcher", IF here = {} THEN "loop" ELSE "latched")
     ELSE /\ feed["watcher"] # <<>> /\ UNCHANGED lagged
          /\ feed' = [feed EXCEPT !["watcher"] = Tail(@)]
          /\ Steps("watcher", IF Upserted("watcher") = {} THEN "loop" ELSE "latched")
  /\ UNCHANGED <<latch, bus, recallVars, hotplugVars>>

WatcherLatch ==
  /\ step["watcher"] = "latched" /\ OnlyBoot
  /\ latch' = [latch EXCEPT !["display"] = TRUE]
  /\ Steps("watcher", "send")
  /\ UNCHANGED <<bus, feed, lagged, recallVars, hotplugVars>>

WatcherSend ==
  /\ step["watcher"] = "send" /\ OnlyBoot
  /\ Publish("other")
  /\ Steps("watcher", "done")
  /\ UNCHANGED <<latch, feed, recallVars, hotplugVars>>

\* watch_hotplug subscribes, waits for both latches, then restores what it finds.
HotplugSubscribe ==
  /\ step["hotplug"] = "subscribe" /\ OnlyBoot
  /\ Steps("hotplug", "wait")
  /\ UNCHANGED <<latch, bus, feed, lagged, recallVars, hotplugVars>>

HotplugRestore ==
  /\ step["hotplug"] = "wait" /\ latch["sources"] /\ latch["display"] /\ OnlyBoot
  /\ Steps("hotplug", "loop")
  /\ todo' = here
  /\ UNCHANGED <<latch, bus, feed, lagged, recallVars, playing, refused>>

\* One display after the other: the playlist of its settings, if there is one.
Activate(d) ==
  /\ d \in todo /\ OnlyBoot
  /\ todo' = todo \ {d}
  /\ playing' = playing \cup ({d} \cap Playlisted)
  /\ refused' = refused \ {d}
  /\ UNCHANGED <<latch, bus, feed, lagged, step, recallVars>>

\* activate_resuming: the playlist is gone, or has no item left, or the
\* database fails.  That is logged and the next display has its turn.
ActivateFails(d) ==
  /\ d \in todo \cap Playlisted /\ Happens("refuse")
  /\ ~Exited /\ UNCHANGED <<settingsVars, routerVars, backend, sessionVars>>
  /\ todo' = todo \ {d}
  /\ refused' = refused \cup {d}
  /\ UNCHANGED <<latch, bus, feed, lagged, step, recallVars, playing>>

HotplugReceives ==
  /\ todo = {} /\ Receives("hotplug") /\ OnlyBoot
  /\ todo' = Upserted("hotplug") \ playing
  /\ playing' = playing \ {d \in Displays : Event("hotplug") = <<"removed", d>>}
  /\ UNCHANGED <<recallVars, refused>>

HotplugIgnoresLag ==
  /\ todo = {} /\ Lags("hotplug") /\ OnlyBoot
  /\ UNCHANGED <<recallVars, hotplugVars>>

HotplugLagged ==
  /\ todo = {} /\ Lags("hotplug") /\ OnlyBoot
  /\ todo' = here \ playing
  /\ UNCHANGED <<recallVars, playing, refused>>

-----------------------------------------------------------------------------
(* The display backend and the session monitor.                            *)

OnlyBackend == ~Exited /\ UNCHANGED <<settingsVars, routerVars, bootVars, sessionVars>>

\* run_backend starts the child, unless the daemon is shutting down ...
BackendStart ==
  /\ backend = "head" /\ OnlyBackend /\ Idle
  /\ backend' = IF ShuttingDown THEN "returned" ELSE "running"

\* ... and gives up if it cannot be spawned.
SpawnFails ==
  /\ backend = "head" /\ ~ShuttingDown /\ Happens("crash") /\ OnlyBackend
  /\ backend' = "returned"

\* The child exits: cleanly, for good, or not.
BackendExits ==
  /\ backend = "running" /\ Happens("crash") /\ OnlyBackend
  /\ backend' \in {"returned", "backoff"}

BackendRestart ==
  /\ backend = "backoff" /\ ~ShuttingDown /\ OnlyBackend /\ Idle
  /\ backend' = "head"

\* wait_shutdown comes first in both selects: a running child is killed.
BackendStop ==
  /\ backend \in {"running", "backoff"} /\ ShuttingDown /\ OnlyBackend /\ Idle
  /\ backend' = "returned"

OnlySession == /\ ~Exited
               /\ UNCHANGED <<settingsVars, routerVars, latch, bus, feed, lagged, recallVars,
                              hotplugVars, backend>>

\* The screen is locked or unlocked; the screen saver signals it.
LockChanges ==
  /\ Happens("lock") /\ OnlySession
  /\ locked' = ~locked
  /\ IF step["monitor"] = "loop" THEN signals' = Append(signals, ~locked) /\ heard' = TRUE
     ELSE UNCHANGED <<signals, heard>>
  /\ UNCHANGED <<sent, routerLocked, step>>

\* monitor_screen_saver seeds the state first ...
MonitorSeeds ==
  /\ step["monitor"] = "read" /\ OnlySession /\ Idle
  /\ sent' = Append(sent, locked)
  /\ Steps("monitor", "subscribe")
  /\ UNCHANGED <<locked, signals, routerLocked, heard>>

\* ... and subscribes after that.
MonitorSubscribes ==
  /\ step["monitor"] = "subscribe" /\ OnlySession /\ Idle
  /\ Steps("monitor", "loop")
  /\ UNCHANGED <<locked, signals, sent, routerLocked, heard>>

MonitorReceivesLocks ==
  /\ signals # <<>> /\ OnlySession /\ Idle
  /\ sent' = IF Head(signals) THEN Append(sent, TRUE) ELSE sent
  /\ signals' = Tail(signals)
  /\ UNCHANGED <<locked, routerLocked, heard, step>>

MonitorReceives ==
  /\ signals # <<>> /\ OnlySession /\ Idle
  /\ sent' = Append(sent, Head(signals)) /\ signals' = Tail(signals)
  /\ UNCHANGED <<locked, routerLocked, heard, step>>

\* The dispatch loop calls update_session_state, until shutdown.
MonitorForwards ==
  /\ sent # <<>> /\ ~ShuttingDown /\ OnlySession /\ Idle
  /\ routerLocked' = Head(sent) /\ sent' = Tail(sent)
  /\ UNCHANGED <<locked, signals, heard, step>>

-----------------------------------------------------------------------------

\* What the daemon does by itself, and what happens to it.
Internal ==
  \/ \E r \in Requests : Mark(r) \/ NotifyOne(r)
  \/ Notified \/ Debounced
  \/ \E f \in Flushers : CheckDirty(f) \/ SwapDirty(f) \/ Snapshot(f) \/ Write(f)
  \/ SourcesLatch \/ SourcesSend
  \/ DispatcherSubscribe \/ DispatcherReadsLatch \/ DispatcherLagged \/ DispatcherReceives
  \/ RecallSubscribe \/ RecallSweep \/ RecallReceives \/ RecallLagged
  \/ \E w \in Wallpapers : RecallFires(w)
  \/ WatcherReads \/ WatcherSubscribes \/ WatcherReceives \/ WatcherLatch \/ WatcherSend
  \/ HotplugSubscribe \/ HotplugRestore \/ HotplugReceives \/ HotplugLagged
  \/ \E d \in Displays : Activate(d)
  \/ BackendStart \/ BackendRestart \/ BackendStop
  \/ MonitorSeeds \/ MonitorSubscribes \/ MonitorReceives \/ MonitorForwards

Environment ==
  \/ \E r \in Requests : Update(r)
  \/ \E f \in Flushers : WriteFails(f)
  \/ \E d \in Displays : Register(d) \/ Touch(d) \/ Unregister(d) \/ ActivateFails(d)
  \/ Noise \/ SpawnFails \/ BackendExits \/ LockChanges \/ Shutdown

Next == Internal \/ Environment

Spec == Init /\ [][Next]_vars

\* tokio polls a task that is ready, timers expire, blocking writes return.  No
\* internal step recurs without an event of the budget, so fairness to all of
\* them together is fairness to each.
Fairness == WF_vars(Internal)

FairSpec == Spec /\ Fairness

-----------------------------------------------------------------------------
(* What the services promise.                                              *)

\* No change is forgotten: while the file is behind memory, the store is
\* dirty, an update is about to make it so, or a flush under way has the
\* newest state or has yet to read it (settings.rs, update and flush).
ChangesAreKept ==
  \/ disk = mem \/ dirty
  \/ \E r \in Requests : at[r] = "mark"
  \/ \E f \in Flushers : at[f] = "snap" \/ (at[f] = "write" /\ snap[f] = mem)

\* A display is recalled at most once, however many upserts, sweeps and lagged
\* receivers show it again (event_process.rs, seen and pending).
RecalledOnce == \A d \in Displays : recalled[d] <= 1

\* A change reaches the file without another one, unless the last write
\* failed or the daemon shuts down (settings.rs, writer_loop).
ChangesAreSaved == []<>(disk = mem \/ failed \/ ShuttingDown)

\* A display that stays has its wallpaper recalled, whatever the order in which
\* the sources, the display and the watchers came up and whatever they missed.
DisplaysAreRecalled ==
  \A d \in Displays :
    (d \in here /\ WallpaperOf[d] # NoWallpaper /\ d \notin Playlisted)
      ~> (recalled[d] = 1 \/ d \in gone \/ ShuttingDown)

\* Once DisplayReady was latched, a display that stays gets its playlist, or the
\* last attempt failed and no event has shown the display since: the next one,
\* received or missed, makes another attempt (restore.rs, watch_hotplug).  In
\* between it has neither: the recall leaves it alone (event_process.rs, record).
PlaylistsAreRestored ==
  \A d \in Playlisted :
    (d \in here /\ latch["display"])
      ~> (d \in playing \/ d \in refused \/ d \in gone \/ ShuttingDown)

\* Once the monitor listens, the router follows every change of the screen
\* (session_monitor.rs, monitor_screen_saver and run).
LockIsFollowed == heard ~> (routerLocked = locked \/ ShuttingDown)

=============================================================================
