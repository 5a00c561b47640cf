------------------------------- MODULE Router -------------------------------
(***************************************************************************)
(* The router and the renderer manager of the daemon                       *)
(* (src/src/routing/router.rs, src/src/renderer_manager.rs) with every     *)
(* tokio task that drives them: wallpaper applies, display endpoints,      *)
(* renderer event tasks, orphan timers and the eviction task.              *)
(*                                                                         *)
(* One mutex guards the router, and every operation takes and drops it     *)
(* several times.  A step here is one critical section.  What an async fn  *)
(* still has to do after it is the task's `todo', a sequence of operations *)
(* over sets: "sync {d1,d2}" is the loop that syncs both, in any order     *)
(* (the code iterates hash maps).                                          *)
(*                                                                         *)
(* Pause and play, buffer negotiation and frames are other components:     *)
(* here negotiation only decides when a pool satisfies the scheme.         *)
(***************************************************************************)
EXTENDS Naturals, Sequences, FiniteSets

CONSTANTS Displays,      \* display ids, each used by one connection (never reused)
          Renderers,     \* renderer ids, each used by one process (a fresh uuid)
          NoRenderer,
          GlobalApply,   \* the task under the unique key "apply/global", or none
          Recalls,       \* tasks that apply a wallpaper to some displays
                         \* (hot-plug recall, playlists)
          UiClients,     \* websocket clients: they apply wallpapers and kill renderers
          Negotiates,    \* renderers that send format_caps (the others are legacy)
          MayCrash,      \* renderers whose process may die
          MayKill,       \* renderers a client may kill
          MayLeave,      \* displays that may disconnect
          MayCancel,     \* apply tasks a D-Bus client may cancel
          MaxApplies,    \* bound on the commands that are started
          MaxGeneration  \* bound on the pools one renderer publishes

ASSUME RouterAssumption ==
  /\ NoRenderer \notin Renderers
  /\ Negotiates \subseteq Renderers
  /\ MayCrash \subseteq Renderers
  /\ MayKill \subseteq Renderers
  /\ MayLeave \subseteq Displays
  /\ MayCancel \subseteq GlobalApply \cup Recalls
  /\ MaxApplies \in Nat
  /\ MaxGeneration \in Nat
  /\ IsFiniteSet(Renderers)

VARIABLES
  registered,  \* table.renderers
  link,        \* the routing table's edge of each display (LinkMap)
  present,     \* inner.displays
  seen,        \* display ids handed out so far (next_display_id)
  bound,       \* last_renderer and last_buffer_generation of each display
  timers,      \* orphan_timers
  tracked,     \* keys of unbind_acks_pending
  pending,     \* its entries: <<renderer, display, generation>>
  owed,        \* Unbinds a display has been sent and has not acknowledged
  caps,        \* displays whose consumer_caps arrived
  managed,     \* RendererManager.renderers
  used,        \* renderer ids spawned so far
  running,     \* renderer processes that are alive
  dead,        \* reap queue: renderers whose reader thread exited
  pool,        \* generation in bind_snapshot, 0 before the first BindBuffers
  scheme,      \* does the pool satisfy the last dispatched scheme?
  awaited,     \* renderers that have a NegotiateBuffers directive to answer
  recording,   \* directives sent that are not yet last_dispatched_scheme
  subscribed,  \* renderers whose event task runs
  events,      \* BindBuffers events the event task has not received
  cut,         \* displays whose sync went with a cancelled apply, until the next
  applies,     \* commands started, up to MaxApplies
  todo         \* what each task still has to do

tableVars == <<registered, link, present, seen, bound, timers>>
ackVars == <<tracked, pending, owed, caps>>
mgrVars == <<managed, used, running, dead>>
rendererVars == <<pool, scheme, awaited, recording, subscribed, events>>
vars == <<tableVars, ackVars, mgrVars, rendererVars, cut, applies, todo>>

Generations == 1..MaxGeneration
NoPool == [renderer |-> NoRenderer, generation |-> 0]
Pool == [renderer : Renderers, generation : Generations]
Owed == [renderer : Renderers, generation : Generations, tracked : BOOLEAN]

\* The tasks, tagged with their kind.
Appliers == GlobalApply \cup Recalls \cup UiClients
Apply(a) == <<"apply", a>>
Endpoint(d) == <<"endpoint", d>>
Events(r) == <<"events", r>>
Timer(r) == <<"timer", r>>
Reaper == <<"reaper", NoRenderer>>
Tasks == {Apply(a) : a \in Appliers} \cup {Endpoint(d) : d \in Displays}
           \cup {Events(r) : r \in Renderers} \cup {Timer(r) : r \in Renderers}
           \cup {Reaper}

OpNames == {"sync", "unregister", "reap", "schedule", "cancel", "orphans", "track",
            "await", "kill", "lookup", "plan", "find", "spawn", "attach", "register",
            "relink", "firstFrame"}
Op == {o \in [op : OpNames, ds : SUBSET Displays, rs : SUBSET Renderers] :
         o.op \in {"attach", "register", "relink"} => \E r \in Renderers : o.rs = {r}}

\* A loop over an empty set is no operation at all.
Loop(name, ds, rs) ==
  IF ds = {} /\ rs = {} THEN <<>> ELSE <<[op |-> name, ds |-> ds, rs |-> rs]>>
SyncAll(ds) == Loop("sync", ds, {})
ForAll(name, rs) == Loop(name, {}, rs)

TypeOK ==
  /\ registered \subseteq Renderers
  /\ link \in [Displays -> Renderers \cup {NoRenderer}]
  /\ present \subseteq Displays
  /\ seen \subseteq Displays
  /\ bound \in [Displays -> Pool \cup {NoPool}]
  /\ timers \subseteq Renderers
  /\ tracked \subseteq Renderers
  /\ pending \subseteq Renderers \X Displays \X Generations
  /\ owed \in [Displays -> Seq(Owed)]
  /\ caps \subseteq Displays
  /\ managed \subseteq Renderers
  /\ used \subseteq Renderers
  /\ running \subseteq Renderers
  /\ dead \subseteq Renderers
  /\ pool \in [Renderers -> 0..MaxGeneration]
  /\ scheme \in [Renderers -> {"legacy", "unmet", "met"}]
  /\ awaited \subseteq Renderers
  /\ recording \subseteq Renderers
  /\ subscribed \subseteq Renderers
  /\ events \in [Renderers -> 0..MaxGeneration]
  /\ cut \subseteq Displays
  /\ applies \in 0..MaxApplies
  /\ todo \in [Tasks -> Seq(Op)]

Init ==
  /\ registered = {} /\ present = {} /\ seen = {} /\ timers = {}
  /\ link = [d \in Displays |-> NoRenderer]
  /\ bound = [d \in Displays |-> NoPool]
  /\ tracked = {} /\ pending = {} /\ caps = {}
  /\ owed = [d \in Displays |-> <<>>]
  /\ managed = {} /\ used = {} /\ running = {} /\ dead = {}
  /\ pool = [r \in Renderers |-> 0]
  /\ scheme = [r \in Renderers |-> "legacy"]
  /\ awaited = {} /\ recording = {} /\ subscribed = {}
  /\ events = [r \in Renderers |-> 0]
  /\ cut = {} /\ applies = 0
  /\ todo = [t \in Tasks |-> <<>>]

-----------------------------------------------------------------------------
Audience(r) == {d \in Displays : link[d] = r}

\* Links table.remove_renderer leaves behind.
LinksWithout(r) == [d \in Displays |-> IF link[d] = r THEN NoRenderer ELSE link[d]]

\* What sync_display wants d bound to: its link's pool, if that renderer is
\* in the table and has published one.
Target(d) ==
  IF link[d] \in registered /\ pool[link[d]] > 0
  THEN [renderer |-> link[d], generation |-> pool[link[d]]]
  ELSE NoPool

\* With caps on both sides only a pool that satisfies the scheme may be bound.
Gated(d) ==
  /\ Target(d) # NoPool
  /\ d \in caps
  /\ scheme[link[d]] = "unmet"

Idle(t) == todo[t] = <<>>
Running(t, name) == todo[t] # <<>> /\ Head(todo[t]).op = name
Goes(t, ops) == todo' = [todo EXCEPT ![t] = ops]

-----------------------------------------------------------------------------
(* The critical sections of a task in the middle of an operation.          *)

\* An Unbind is recorded as pending only for a renderer under teardown.
AckPairs(d) ==
  IF bound[d].renderer \in tracked
  THEN {<<bound[d].renderer, d, bound[d].generation>>} ELSE {}

\* sync_display: retire the pool the display has, bind the one it should
\* have.
SyncDisplay(d) ==
  IF d \notin present \/ Gated(d) \/ bound[d] = Target(d)
  THEN UNCHANGED <<bound, owed, pending>>
  ELSE /\ bound' = [bound EXCEPT ![d] = Target(d)]
       /\ IF bound[d] = NoPool
          THEN UNCHANGED <<owed, pending>>
          ELSE /\ owed' = [owed EXCEPT ![d] =
                    Append(@, [renderer |-> bound[d].renderer,
                               generation |-> bound[d].generation,
                               tracked |-> bound[d].renderer \in tracked])]
               /\ pending' = pending \cup AckPairs(d)

Sync(t) ==
  /\ Running(t, "sync")
  /\ \E d \in Head(todo[t]).ds :
       /\ SyncDisplay(d)
       /\ cut' = cut \ {d}
       /\ Goes(t, SyncAll(Head(todo[t]).ds \ {d}) \o Tail(todo[t]))
  /\ UNCHANGED <<registered, link, present, seen, timers, tracked, caps,
                 mgrVars, rendererVars, applies>>

\* unregister_renderer: out of the table with its links, its timer and its
\* event task; the displays it had are synced afterwards, one by one.
RemoveWithoutSync(t, r, then) ==
  /\ registered' = registered \ {r}
  /\ link' = LinksWithout(r)
  /\ timers' = timers \ {r}
  /\ Goes(t, then)
  /\ UNCHANGED <<present, seen, bound, ackVars, mgrVars, rendererVars, cut, applies>>

Remove(t, r, then) ==
  /\ registered' = registered \ {r}
  /\ link' = LinksWithout(r)
  /\ timers' = timers \ {r}
  /\ IF r \in registered
     THEN /\ subscribed' = subscribed \ {r}
          /\ events' = [events EXCEPT ![r] = 0]
          /\ todo' = [todo EXCEPT ![Events(r)] = <<>>,
                                  ![t] = SyncAll(Audience(r)) \o then]
     ELSE /\ UNCHANGED <<subscribed, events>>
          /\ Goes(t, SyncAll(Audience(r)) \o then)
  /\ UNCHANGED <<present, seen, bound, ackVars, mgrVars, pool, scheme, awaited, recording, cut, applies>>

Unregister(t) ==
  /\ Running(t, "unregister")
  /\ \E r \in Head(todo[t]).rs :
       Remove(t, r, ForAll("unregister", Head(todo[t]).rs \ {r}) \o Tail(todo[t]))

\* kill_orphan_now, for each candidate the mark pass found.
Reap(t) ==
  /\ Running(t, "reap")
  /\ \E r \in Head(todo[t]).rs :
       Remove(t, r, ForAll("kill", {r}) \o ForAll("reap", Head(todo[t]).rs \ {r})
                      \o Tail(todo[t]))

ScheduleGrace(t) ==
  /\ Running(t, "schedule")
  /\ \E r \in Head(todo[t]).rs :
       /\ timers' = timers \cup {r}
       /\ Goes(t, ForAll("schedule", Head(todo[t]).rs \ {r}) \o Tail(todo[t]))
  /\ UNCHANGED <<registered, link, present, seen, bound, ackVars, mgrVars,
                 rendererVars, cut, applies>>

CancelTimer(t) ==
  /\ Running(t, "cancel")
  /\ timers' = timers \ Head(todo[t]).rs
  /\ Goes(t, Tail(todo[t]))
  /\ UNCHANGED <<registered, link, present, seen, bound, ackVars, mgrVars,
                 rendererVars, cut, applies>>

\* mark_orphans: decide on the candidates and on the policy in one critical
\* section; act on them in later ones.
MarkOrphans(t) ==
  /\ Running(t, "orphans")
  /\ LET keep == Head(todo[t]).rs
         candidates == {r \in registered \ keep : Audience(r) = {}}
         lone == present = {} /\ Cardinality(registered) = 1
     IN  Goes(t, ForAll(IF lone THEN "schedule" ELSE "reap", candidates)
                   \o ForAll("cancel", keep) \o Tail(todo[t]))
  /\ UNCHANGED <<tableVars, ackVars, mgrVars, rendererVars, cut, applies>>

TrackAcks(t) ==
  /\ Running(t, "track")
  /\ tracked' = tracked \cup Head(todo[t]).rs
  /\ Goes(t, Tail(todo[t]))
  /\ UNCHANGED <<tableVars, pending, owed, caps, mgrVars, rendererVars, cut, applies>>

\* await_unbind_acks_for returns when the set is drained or after a second;
\* both ways it drops the entry.
AwaitAcksForever(t) ==
  /\ Running(t, "await")
  /\ \E r \in Head(todo[t]).rs :
       /\ {p \in pending : p[1] = r} = {}
       /\ tracked' = tracked \ {r}
       /\ Goes(t, ForAll("await", Head(todo[t]).rs \ {r}) \o Tail(todo[t]))
  /\ UNCHANGED <<tableVars, pending, owed, caps, mgrVars, rendererVars, cut, applies>>

AwaitAcks(t) ==
  /\ Running(t, "await")
  /\ \E r \in Head(todo[t]).rs :
       /\ tracked' = tracked \ {r}
       /\ pending' = {p \in pending : p[1] # r}
       /\ Goes(t, ForAll("await", Head(todo[t]).rs \ {r}) \o Tail(todo[t]))
  /\ UNCHANGED <<tableVars, owed, caps, mgrVars, rendererVars, cut, applies>>

\* RendererManager::kill: out of the map, then Shutdown or SIGKILL.
MgrKill(t) ==
  /\ Running(t, "kill")
  /\ \E r \in Head(todo[t]).rs :
       /\ managed' = managed \ {r}
       /\ running' = IF r \in managed THEN running \ {r} ELSE running
       /\ Goes(t, ForAll("kill", Head(todo[t]).rs \ {r}) \o Tail(todo[t]))
  /\ UNCHANGED <<tableVars, ackVars, used, dead, rendererVars, cut, applies>>

\* renderers_fully_replaced_by, then stop_renderers_orderly on the result.
PlanStop(t) ==
  /\ Running(t, "plan")
  /\ LET stop == {r \in registered : Audience(r) \subseteq Head(todo[t]).ds}
     IN  Goes(t, ForAll("track", stop) \o ForAll("unregister", stop)
                   \o ForAll("await", stop) \o ForAll("kill", stop) \o Tail(todo[t]))
  /\ UNCHANGED <<tableVars, ackVars, mgrVars, rendererVars, cut, applies>>

-----------------------------------------------------------------------------
(* The rest of an apply.  apply_wallpaper_core stops the renderers it      *)
(* replaces first; the websocket handler does so only when it must spawn,  *)
(* and waits for a frame at the end.                                       *)

OfUi(t) == \E a \in UiClients : t = Apply(a)

\* get_entry and registry.resolve: no such wallpaper, or no renderer for it.
LookUp(t) ==
  /\ Running(t, "lookup")
  /\ LET ds == Head(todo[t]).ds
     IN  \/ Goes(t, Loop("plan", ds, {}) \o Loop("find", ds, {}) \o Tail(todo[t]))
         \/ Goes(t, <<>>)
  /\ UNCHANGED <<tableVars, ackVars, mgrVars, rendererVars, cut, applies>>

\* Any live process may have the wanted identity, or none; the lookups
\* around it (database, source plugin) may fail.
Find(t) ==
  /\ Running(t, "find")
  /\ LET ds == Head(todo[t]).ds
     IN  \/ \E r \in managed : Goes(t, Loop("relink", ds, {r}) \o Tail(todo[t]))
         \/ Goes(t, (IF OfUi(t) THEN Loop("plan", ds, {}) ELSE <<>>)
                      \o Loop("spawn", ds, {}) \o Tail(todo[t]))
         \/ Goes(t, <<>>)
  /\ UNCHANGED <<tableVars, ackVars, mgrVars, rendererVars, cut, applies>>

Spawn(t) ==
  /\ Running(t, "spawn")
  /\ \E r \in Renderers \ used :
       /\ managed' = managed \cup {r}
       /\ used' = used \cup {r}
       /\ running' = running \cup {r}
       /\ Goes(t, ForAll("attach", {r}) \o Loop("relink", Head(todo[t]).ds, {r})
                    \o Tail(todo[t]))
  /\ UNCHANGED <<tableVars, ackVars, dead, rendererVars, cut, applies>>

SpawnFails(t) ==
  /\ Running(t, "spawn")
  /\ Goes(t, <<>>)
  /\ UNCHANGED <<tableVars, ackVars, mgrVars, rendererVars, cut, applies>>

\* mgr.get after spawn, and the first half of register_renderer: the event
\* task subscribes before the renderer is in the table.
Attach(t) ==
  /\ Running(t, "attach")
  /\ LET r == CHOOSE x \in Head(todo[t]).rs : TRUE
     IN  IF r \in managed
         THEN /\ subscribed' = subscribed \cup {r}
              /\ Goes(t, ForAll("register", {r}) \o Tail(todo[t]))
         ELSE /\ UNCHANGED subscribed
              /\ Goes(t, Tail(todo[t]))
  /\ UNCHANGED <<tableVars, ackVars, mgrVars, pool, scheme, awaited, recording,
                 events, cut, applies>>

Register(t) ==
  /\ Running(t, "register")
  /\ registered' = registered \cup Head(todo[t]).rs
  /\ Goes(t, Tail(todo[t]))
  /\ UNCHANGED <<link, present, seen, bound, timers, ackVars, mgrVars,
                 rendererVars, cut, applies>>

\* relink_displays_to and relink_all_displays_to: every target that is
\* still connected, then the syncs, then the mark pass that keeps r.
Relinked(t, ds) ==
  LET r == CHOOSE x \in Head(todo[t]).rs : TRUE
  IN  /\ link' = [d \in Displays |-> IF d \in ds THEN r ELSE link[d]]
      /\ Goes(t, SyncAll(ds) \o ForAll("orphans", {r})
                   \o (IF OfUi(t) THEN ForAll("firstFrame", {r}) ELSE <<>>)
                   \o Tail(todo[t]))
      /\ UNCHANGED <<registered, present, seen, bound, timers, ackVars, mgrVars,
                     rendererVars, cut, applies>>

RelinkUnchecked(t) == Running(t, "relink") /\ Relinked(t, Head(todo[t]).ds)
Relink(t) == Running(t, "relink") /\ Relinked(t, Head(todo[t]).ds \cap present)

\* wait_for_first_frame: no frame without a pool, and it may time out.
FirstFrameWithoutKill(t) ==
  /\ Running(t, "firstFrame")
  /\ Goes(t, ForAll("unregister", Head(todo[t]).rs) \o Tail(todo[t]))
  /\ UNCHANGED <<tableVars, ackVars, mgrVars, rendererVars, cut, applies>>

FirstFrame(t) ==
  /\ Running(t, "firstFrame")
  /\ LET rs == Head(todo[t]).rs
     IN  \/ /\ \A r \in rs : pool[r] > 0
            /\ Goes(t, Tail(todo[t]))
         \/ Goes(t, ForAll("unregister", rs) \o ForAll("kill", rs) \o Tail(todo[t]))
  /\ UNCHANGED <<tableVars, ackVars, mgrVars, rendererVars, cut, applies>>

TaskStep(t) ==
  \/ Sync(t)
  \/ Unregister(t)
  \/ Reap(t)
  \/ ScheduleGrace(t)
  \/ CancelTimer(t)
  \/ MarkOrphans(t)
  \/ TrackAcks(t)
  \/ AwaitAcks(t)
  \/ MgrKill(t)
  \/ LookUp(t)
  \/ PlanStop(t)
  \/ Find(t)
  \/ Spawn(t)
  \/ SpawnFails(t)
  \/ Attach(t)
  \/ Register(t)
  \/ Relink(t)
  \/ FirstFrame(t)

-----------------------------------------------------------------------------
(* What starts a task, and what displays and renderers do.                 *)

\* The displays a task was going to sync, by itself or after a relink.
Promised(t) ==
  {d \in Displays : \E i \in DOMAIN todo[t] :
     todo[t][i].op \in {"sync", "relink"} /\ d \in todo[t][i].ds}

\* A new global apply cancels the one in flight, wherever it is, before it
\* has looked anything up itself.  Recalls cancel nothing.
StartApply(a) ==
  /\ applies < MaxApplies
  /\ applies' = applies + 1
  /\ \/ /\ a \in GlobalApply
        /\ cut' = cut \cup Promised(Apply(a))
        /\ Goes(Apply(a), Loop("lookup", Displays, {}))
     \/ /\ a \in Recalls /\ Idle(Apply(a))
        /\ \E ds \in SUBSET seen \ {{}} :
             Goes(Apply(a), Loop("lookup", ds, {}))
        /\ UNCHANGED cut
  /\ UNCHANGED <<tableVars, ackVars, mgrVars, rendererVars>>

\* TaskManager::cancel, from CancelTask on D-Bus: nothing takes its place.
CancelApply(a) ==
  /\ a \in MayCancel /\ ~Idle(Apply(a))
  /\ cut' = cut \cup Promised(Apply(a))
  /\ Goes(Apply(a), <<>>)
  /\ UNCHANGED <<tableVars, ackVars, mgrVars, rendererVars, applies>>

\* No display id in the request stands for all of them.
StartUiApply(a) ==
  /\ a \in UiClients /\ Idle(Apply(a)) /\ present # {}
  /\ applies < MaxApplies
  /\ applies' = applies + 1
  /\ \E ds \in (SUBSET seen \ {{}}) \cup {Displays} : Goes(Apply(a), Loop("find", ds, {}))
  /\ UNCHANGED <<tableVars, ackVars, mgrVars, rendererVars, cut>>

\* RendererKill, for a renderer in the manager's list.
UserKill(a, r) ==
  /\ a \in UiClients /\ Idle(Apply(a))
  /\ r \in managed \cap MayKill
  /\ applies < MaxApplies
  /\ applies' = applies + 1
  /\ Goes(Apply(a), ForAll("unregister", {r}) \o ForAll("kill", {r}))
  /\ UNCHANGED <<tableVars, ackVars, mgrVars, rendererVars, cut>>

\* register_display links the newcomer to some renderer of the table.
RegisterDisplay(d) ==
  /\ d \notin seen
  /\ seen' = seen \cup {d}
  /\ present' = present \cup {d}
  /\ \/ /\ registered = {}
        /\ UNCHANGED link
        /\ Goes(Endpoint(d), SyncAll({d}))
     \/ \E r \in registered :
          /\ link' = [link EXCEPT ![d] = r]
          /\ Goes(Endpoint(d), ForAll("cancel", {r}) \o SyncAll({d}))
  /\ UNCHANGED <<registered, bound, timers, ackVars, mgrVars, rendererVars, cut, applies>>

\* The endpoint's loop ended.  The mark pass keeps nobody.
UnregisterDisplay(d) ==
  /\ d \in present \cap MayLeave /\ Idle(Endpoint(d))
  /\ present' = present \ {d}
  /\ link' = [link EXCEPT ![d] = NoRenderer]
  /\ bound' = [bound EXCEPT ![d] = NoPool]
  /\ caps' = caps \ {d}
  /\ owed' = [owed EXCEPT ![d] = <<>>]
  /\ Goes(Endpoint(d), <<[op |-> "orphans", ds |-> {}, rs |-> {}]>>)
  /\ UNCHANGED <<registered, seen, timers, tracked, pending, mgrVars, rendererVars,
                 cut, applies>>

ConsumerCaps(d) ==
  /\ d \in present \ caps /\ Idle(Endpoint(d)) /\ Negotiates # {}
  /\ caps' = caps \cup {d}
  /\ UNCHANGED <<tableVars, tracked, pending, owed, mgrVars, rendererVars, cut, applies, todo>>

\* record_unbind_done: the acknowledgement names a generation and no
\* renderer, and is taken for every renderer that waits for it.
UnbindDone(d) ==
  /\ d \in present /\ Idle(Endpoint(d)) /\ owed[d] # <<>>
  /\ owed' = [owed EXCEPT ![d] = Tail(@)]
  /\ pending' = {p \in pending : p[2] # d \/ p[3] # Head(owed[d]).generation}
  /\ UNCHANGED <<tableVars, tracked, caps, mgrVars, rendererVars, cut, applies, todo>>

FormatCaps(r) ==
  /\ r \in running \cap Negotiates /\ scheme[r] = "legacy"
  /\ scheme' = [scheme EXCEPT ![r] = "unmet"]
  /\ UNCHANGED <<tableVars, ackVars, mgrVars, pool, awaited, recording, subscribed,
                 events, cut, applies, todo>>

\* reconcile_buffer_flags picks a scheme for a linked pair with caps on both
\* sides; send_negotiate_buffers sends it, and records it once it is sent.
Dispatch(r) ==
  /\ r \in (registered \cap managed) \ recording
  /\ scheme[r] # "legacy" /\ Audience(r) \cap caps # {}
  /\ pool[r] < MaxGeneration
  /\ awaited' = awaited \cup {r}
  /\ recording' = recording \cup {r}
  /\ UNCHANGED <<tableVars, ackVars, mgrVars, pool, scheme, subscribed, events,
                 cut, applies, todo>>

\* A pool that answers the directive satisfies it; an older one may too.
RecordScheme(r) ==
  /\ r \in recording
  /\ recording' = recording \ {r}
  /\ \E s \in {"met", "unmet"} :
       /\ r \notin awaited => s = "met"
       /\ pool[r] = 0 => s = "unmet"
       /\ scheme' = [scheme EXCEPT ![r] = s]
  /\ UNCHANGED <<tableVars, ackVars, mgrVars, pool, awaited, subscribed, events,
                 cut, applies, todo>>

\* The reader thread caches a BindBuffers and broadcasts it: the answer to
\* the directive, or a pool the renderer makes of its own accord.
NewPool(r) ==
  /\ r \in running /\ pool[r] < MaxGeneration
  /\ pool' = [pool EXCEPT ![r] = @ + 1]
  /\ events' = IF r \in subscribed THEN [events EXCEPT ![r] = @ + 1] ELSE events
  /\ UNCHANGED <<tableVars, ackVars, mgrVars, recording, subscribed, cut, applies, todo>>

Answer(r) ==
  /\ r \in awaited
  /\ awaited' = awaited \ {r}
  /\ \E s \in {"met", "unmet"} :
       /\ r \notin recording => s = "met"
       /\ scheme' = [scheme EXCEPT ![r] = s]
  /\ NewPool(r)

Publish(r) ==
  /\ r \in awaited => pool[r] + 1 < MaxGeneration
  /\ \E s \in {scheme[r]} \cup (IF pool[r] = 0 /\ scheme[r] = "unmet" THEN {"met"} ELSE {}) :
       scheme' = [scheme EXCEPT ![r] = s]
  /\ UNCHANGED awaited
  /\ NewPool(r)


HandleBind(r) ==
  /\ r \in subscribed /\ events[r] > 0 /\ Idle(Events(r))
  /\ events' = [events EXCEPT ![r] = @ - 1]
  /\ Goes(Events(r), SyncAll(Audience(r)))
  /\ UNCHANGED <<tableVars, ackVars, mgrVars, pool, scheme, awaited, recording,
                 subscribed, cut, applies>>

\* The process dies; its reader thread enqueues the eviction.
Crash(r) ==
  /\ r \in running \cap MayCrash
  /\ running' = running \ {r}
  /\ dead' = dead \cup {r}
  /\ UNCHANGED <<tableVars, ackVars, managed, used, rendererVars, cut, applies, todo>>

\* RendererManager::evict, on the reap task; nothing for a killed renderer.
Evict(r) ==
  /\ Idle(Reaper) /\ r \in dead
  /\ dead' = dead \ {r}
  /\ managed' = managed \ {r}
  /\ Goes(Reaper, IF r \in managed THEN ForAll("unregister", {r}) ELSE <<>>)
  /\ UNCHANGED <<tableVars, ackVars, used, running, rendererVars, cut, applies>>

\* fire_orphan_reap: the orphan condition is checked again under the lock.
FireTimer(r) ==
  /\ r \in timers /\ Idle(Timer(r))
  /\ timers' = timers \ {r}
  /\ Goes(Timer(r), IF r \in registered /\ Audience(r) = {}
                    THEN ForAll("unregister", {r}) \o ForAll("kill", {r})
                    ELSE <<>>)
  /\ UNCHANGED <<registered, link, present, seen, bound, ackVars, mgrVars,
                 rendererVars, cut, applies>>

Next ==
  \/ \E t \in Tasks : TaskStep(t)
  \/ \E a \in Appliers : StartApply(a)
  \/ \E a \in Appliers : CancelApply(a)
  \/ \E a \in Appliers : StartUiApply(a)
  \/ \E a \in Appliers, r \in Renderers : UserKill(a, r)
  \/ \E d \in Displays : RegisterDisplay(d)
  \/ \E d \in Displays : UnregisterDisplay(d)
  \/ \E d \in Displays : ConsumerCaps(d)
  \/ \E d \in Displays : UnbindDone(d)
  \/ \E r \in Renderers : FormatCaps(r)
  \/ \E r \in Renderers : Dispatch(r)
  \/ \E r \in Renderers : RecordScheme(r)
  \/ \E r \in Renderers : Answer(r)
  \/ \E r \in Renderers : Publish(r)
  \/ \E r \in Renderers : HandleBind(r)
  \/ \E r \in Renderers : Crash(r)
  \/ \E r \in Renderers : Evict(r)
  \/ \E r \in Renderers : FireTimer(r)

Spec == Init /\ [][Next]_vars

\* The connection is accepted within ten seconds or not at all, but then
\* run_init_handshake waits for the renderer's answer without a limit.
AtRenderersMercy(t) == Running(t, "spawn")
OwnStep(t) == TaskStep(t) /\ ~AtRenderersMercy(t)

\* The runtime polls every ready task, delivers every event, and timers go
\* off.  Nothing obliges users, displays or renderers to act, nor a renderer
\* to answer the handshake.
FairSpec ==
  /\ Spec
  /\ \A t \in Tasks : WF_vars(OwnStep(t))
  /\ \A r \in Renderers : /\ WF_vars(RecordScheme(r))
                          /\ WF_vars(HandleBind(r))
                          /\ WF_vars(Evict(r))
                          /\ WF_vars(FireTimer(r))

-----------------------------------------------------------------------------
(* A link exists only for a connected display: relink_displays_to works    *)
(* from ids its caller collected earlier (a playlist, a recall with a two  *)
(* second settle window), and the display may have left since.             *)
LinksOnlyPresent == \A d \in Displays : link[d] # NoRenderer => d \in present

(* unbind_acks_pending holds entries only for renderers under teardown, so *)
(* no later teardown waits for an Unbind nobody asked to be acknowledged.  *)
PendingOnlyTracked == \A p \in pending : p[1] \in tracked

\* Some task is on its way to sync d, by itself or at the end of a relink, or
\* a BindBuffers that makes it so is due.
WillSync(d) ==
  \/ \E t \in Tasks : \E i \in DOMAIN todo[t] :
       todo[t][i].op \in {"sync", "relink"} /\ d \in todo[t][i].ds
  \/ link[d] \in subscribed /\ (events[link[d]] > 0 \/ link[d] \in awaited)

\* A display and a renderer that negotiate: their scheme decides what is bound.
Negotiating(d) == d \in caps /\ Target(d) # NoPool /\ scheme[link[d]] # "legacy"

(* sync_display is to "bring display_id's sent state in line with its      *)
(* current link target" (router.rs:1891): a display that is out of step    *)
(* with its link has a sync or a BindBuffers event coming, whatever came   *)
(* between the change and the sync.  Only a pool its scheme does not allow *)
(* may be missing; a pool that has to go is always about to.  One apply at *)
(* a time keeps this; two do not, since register_renderer syncs none of    *)
(* the displays that another apply has linked to the renderer before it    *)
(* was registered.                                                         *)
SyncComplete ==
  \A d \in present : bound[d] # Target(d) => Negotiating(d) \/ WillSync(d)

\* Some task still has an operation of one of these kinds to do on r.
Ahead(names, r) ==
  \E t \in Tasks : \E i \in DOMAIN todo[t] :
    todo[t][i].op \in names /\ r \in todo[t][i].rs

(* The router and the manager keep separate maps of renderers.  For those  *)
(* that do not crash, the router never lists a renderer the manager has    *)
(* let go, and a process the router does not list is about to be           *)
(* registered or killed, whatever the others do meanwhile.                 *)
MapsAgree ==
  /\ registered \ MayCrash \subseteq managed
  /\ \A r \in managed \ (registered \cup MayCrash) :
       Ahead({"attach", "register", "kill"}, r)

(* A display that is out of step with its link does not stay so.  One      *)
(* whose sync went with a cancelled apply does, until something else syncs *)
(* it: neither CancelTask nor a global apply that then finds no wallpaper  *)
(* makes up for what it cancels.  A display that negotiates, and may be    *)
(* refused for good, is Negotiation's subject.                             *)
Excused(d) == d \notin present \/ d \in caps \/ d \in cut

(* Every command comes to an end, unless the renderer it spawned connects  *)
(* and then never answers: no acknowledgement, first frame or timer, no    *)
(* other command, crash or departure keeps it from its end.                *)
CommandsEnd ==
  \A a \in Appliers :
    ~Idle(Apply(a)) ~> Idle(Apply(a)) \/ []AtRenderersMercy(Apply(a))
=============================================================================
