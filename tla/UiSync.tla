------------------------------- MODULE UiSync -------------------------------
(***************************************************************************)
(* How a UI over a websocket keeps up with the daemon.  The tails of the   *)
(* router's operations announce what they changed on a bounded broadcast   *)
(* channel (routing/router.rs: take a snapshot under the lock, emit it     *)
(* after); playlists and status travel on the event bus, tasks on a third  *)
(* channel (events.rs, tasks.rs); one connection subscribes, sends five    *)
(* snapshots and then serves the three channels in any order               *)
(* (ws_server.rs, handle_conn); the UI keeps one map per kind of object    *)
(* (ui/src/objmodel).                                                      *)
(*                                                                         *)
(* A display's size, alias and own layout are one version number (face),   *)
(* a renderer's texture is known or not.  Display and renderer ids are     *)
(* used once, as in the code.                                              *)
(***************************************************************************)
EXTENDS Naturals, Sequences, FiniteSets

CONSTANTS
  Displays, Renderers, Libraries,
  None,
  Writers,      \* tasks of the daemon that change what is shown
  Changes,      \* bound: operations they start
  Drops,        \* bound: connections that break
  FirstDisplays, FirstRenderers,   \* what is there when the run starts
  RouterCap,    \* capacity of the router's channel (128 in the code)
  BusCap        \* capacity of the event bus (64 in the code)

ASSUME CapsArePositive == RouterCap \in Nat \ {0} /\ BusCap \in Nat \ {0}
ASSUME FirstAreLinked == /\ FirstDisplays \subseteq Displays
                         /\ FirstRenderers \subseteq Renderers /\ FirstRenderers # {}
                         /\ IsFiniteSet(FirstRenderers)
ASSUME NoneIsNoRenderer == None \notin Renderers

VARIABLES
  here,         \* RouterInner.displays: displays that are registered
  joined,       \* displays whose register_display has returned
  link,         \* the renderer a display is linked to
  face,         \* version of what a display says of itself
  over,         \* renderers with a wallpaper layout override
  layout,       \* version of the global layout settings
  up,           \* renderers in the routing table
  bound,        \* renderers that sent their first BindBuffers
  paused,       \* paused_renderers
  manual,       \* manual_paused
  libs,         \* libraries in the database
  plays,        \* displays with an active playlist
  scan,         \* scan_in_progress
  busy,         \* some task runs
  born,         \* ids already used
  job,          \* what is left of each writer's operation
  left,         \* operations still to start
  told,         \* history: what the emitted router events add up to
  mixed,        \* history: two operations overlapped
  stage,        \* the connection: "off", the next snapshot, or "loop"
  drops,        \* connections still to break
  routerQ, routerLag,   \* the connection's receiver of the router's channel
  busQ, busLag,         \* its receiver of the event bus
  taskQ,                \* its receiver of task events holds one
  view,         \* what the UI shows
  missed,       \* history: displays whose playlist status came before them
  libsLost      \* history: a lag dropped library events of this connection

worldVars == <<here, joined, link, face, over, layout, up, bound, paused,
               manual, libs, plays, scan, busy, born>>
writerVars == <<job, left, told, mixed>>
queueVars == <<routerQ, routerLag, busQ, busLag, taskQ>>
uiVars == <<view, missed, libsLost>>
vars == <<worldVars, writerVars, stage, drops, queueVars, uiVars>>

-----------------------------------------------------------------------------
(* What there is to show, and how the UI applies an event.                 *)

\* snapshot_display: the enabled link and the layout in effect.
DisplayOf(d) ==
  [link |-> link[d], face |-> face[d], layout |-> layout, over |-> link[d] \in over]

\* snapshot_renderer
RendererOf(r) == [paused |-> r \in paused, sized |-> r \in bound]

AllDisplays == [d \in here |-> DisplayOf(d)]
AllRenderers == [r \in up |-> RendererOf(r)]
AllLibraries == [l \in libs |-> l]

Truth == [displays |-> AllDisplays, renderers |-> AllRenderers, libraries |-> AllLibraries]
Status == [scan |-> scan, busy |-> busy]

Upsert(of, id, val) == [of |-> of, op |-> "upsert", id |-> id, val |-> val]
Remove(of, id) == [of |-> of, op |-> "remove", id |-> id]
Replace(of, val) == [of |-> of, op |-> "replace", val |-> val]

\* replaceAll, upsert and remove, the same in the three managers.
Change(map, e) ==
  CASE e.op = "upsert"  -> [x \in DOMAIN map \cup {e.id} |-> IF x = e.id THEN e.val ELSE map[x]]
    [] e.op = "remove"  -> [x \in DOMAIN map \ {e.id} |-> map[x]]
    [] e.op = "replace" -> e.val
Applied(maps, e) == [maps EXCEPT ![e.of] = Change(@, e)]

\* A display the UI did not know starts without a playlist; one it drops
\* takes its playlist with it.
Show(e) ==
  LET maps == Applied(view.maps, e)
  IN  view' = [view EXCEPT !.maps = maps, !.plays = @ \cap DOMAIN maps.displays]

ShowStatus == view' = [view EXCEPT !.status = Status]

\* replacePlaylistStatuses walks the displays the UI knows; a status of any
\* other display is dropped.
Known == DOMAIN view.maps.displays
ShowPlaylists ==
  /\ view' = [view EXCEPT !.plays = plays \cap Known]
  /\ missed' = plays \ Known

-----------------------------------------------------------------------------
(* The channels.  A full receiver loses its oldest event and lags.         *)

ConnectedLate == stage = "loop"
Connected == stage # "off"

Push(q, cap, e) == IF Len(q) < cap THEN Append(q, e) ELSE Append(Tail(q), e)

Emit(e) ==
  /\ told' = Applied(told, e)
  /\ IF Connected
     THEN /\ routerQ' = Push(routerQ, RouterCap, e)
          /\ routerLag' = (routerLag \/ Len(routerQ) = RouterCap)
     ELSE UNCHANGED <<routerQ, routerLag>>
  /\ UNCHANGED <<busQ, busLag, taskQ>>

Publish(e) ==
  /\ IF Connected
     THEN /\ busQ' = Push(busQ, BusCap, e)
          /\ busLag' = (busLag \/ Len(busQ) = BusCap)
     ELSE UNCHANGED <<busQ, busLag>>
  /\ UNCHANGED <<routerQ, routerLag, taskQ, told>>

\* A task event, or a lag of their receiver: either way the connection sends
\* the status once more, so one bit stands for the receiver.
Nudge == /\ taskQ' = Connected
         /\ UNCHANGED <<routerQ, routerLag, busQ, busLag, told>>

-----------------------------------------------------------------------------
(* The writers.  The first step of an operation changes the daemon's state *)
(* under the lock; the tail follows in steps of its own.                   *)

Step(op, arg) == [op |-> op, arg |-> arg]
Reconcile == Step("reconcile", None)
LookAt(d) == Step("look", d)
LookAtAll == Step("lookAll", None)
LookAtRenderer(r) == Step("lookRenderer", r)
EmitStep(e) == Step("emit", e)
PublishStep(e) == Step("publish", e)
IfAny(S, steps) == IF S = {} THEN <<>> ELSE steps

Starts(w, steps) ==
  /\ job[w] = <<>> /\ left > 0
  /\ left' = left - 1
  /\ job' = [job EXCEPT ![w] = steps]
  /\ mixed' = (mixed \/ \E x \in Writers : job[x] # <<>>)
  /\ UNCHANGED <<told, stage, drops, queueVars, uiVars>>

LinkedTo(r) == {d \in here : link[d] = r}

RegisterDisplay(w) ==
  \E d \in Displays \ born :
    /\ here' = here \cup {d} /\ born' = born \cup {d}
    /\ \/ \E r \in up : link' = [link EXCEPT ![d] = r]
       \/ up = {} /\ UNCHANGED link
    /\ Starts(w, <<Reconcile, LookAt(d), Step("joined", d)>>)
    /\ UNCHANGED <<joined, face, over, layout, up, bound, paused, manual, libs,
                   plays, scan, busy>>

UnregisterDisplay(w) ==
  \E d \in here \cap joined :
    /\ here' = here \ {d}
    /\ link' = [link EXCEPT ![d] = None]
    /\ Starts(w, <<Reconcile, EmitStep(Remove("displays", d))>>)
    /\ UNCHANGED <<joined, face, over, layout, up, bound, paused, manual, libs,
                   plays, scan, busy, born>>

\* update_display_size, set_display_layout, set_display_alias
ChangeDisplay(w) ==
  \E d \in here :
    /\ face' = [face EXCEPT ![d] = 1 - @]
    /\ Starts(w, <<LookAt(d)>>)
    /\ UNCHANGED <<here, joined, link, over, layout, up, bound, paused, manual,
                   libs, plays, scan, busy, born>>

\* SettingsSet with another default layout
ChangeLayout(w) ==
  /\ layout' = 1 - layout
  /\ Starts(w, <<LookAtAll>>)
  /\ UNCHANGED <<here, joined, link, face, over, up, bound, paused, manual,
                 libs, plays, scan, busy, born>>

RegisterRenderer(w) ==
  \E r \in Renderers \ born :
    /\ up' = up \cup {r} /\ born' = born \cup {r}
    /\ Starts(w, <<Reconcile>>)
    /\ UNCHANGED <<here, joined, link, face, over, layout, bound, paused, manual,
                   libs, plays, scan, busy>>

\* What unregister_renderer announces after the removal.
FarewellSilently(r, affected) == <<EmitStep(Remove("renderers", r)), Reconcile>>
Farewell(r, affected) ==
  <<EmitStep(Remove("renderers", r)), Reconcile>> \o IfAny(affected, <<LookAtAll>>)

UnregisterRenderer(w) ==
  \E r \in up :
    /\ up' = up \ {r}
    /\ paused' = paused \ {r} /\ over' = over \ {r}
    /\ link' = [d \in Displays |-> IF link[d] = r THEN None ELSE link[d]]
    /\ Starts(w, Farewell(r, LinkedTo(r)))
    /\ UNCHANGED <<here, joined, face, layout, bound, manual, libs, plays, scan,
                   busy, born>>

\* relink_displays_to, relink_all_displays_to
Relink(w) ==
  \E r \in up, ds \in SUBSET here :
    /\ link' = [d \in Displays |-> IF d \in ds THEN r ELSE link[d]]
    /\ Starts(w, <<Reconcile>> \o IfAny(ds, <<LookAtAll>>))
    /\ UNCHANGED <<here, joined, face, over, layout, up, bound, paused, manual,
                   libs, plays, scan, busy, born>>

\* set_renderer_wallpaper_layout_override
Override(w) ==
  \E r \in up :
    /\ over' = IF r \in over THEN over \ {r} ELSE over \cup {r}
    /\ Starts(w, IfAny(LinkedTo(r), <<LookAtAll>>))
    /\ UNCHANGED <<here, joined, link, face, layout, up, bound, paused, manual,
                   libs, plays, scan, busy, born>>

\* on_renderer_bind, when the texture size becomes known
Bind(w) ==
  \E r \in up \ bound :
    /\ bound' = bound \cup {r}
    /\ Starts(w, <<LookAtRenderer(r)>>)
    /\ UNCHANGED <<here, joined, link, face, over, layout, up, paused, manual,
                   libs, plays, scan, busy, born>>

PauseAll(w) ==
  /\ manual' = ~manual
  /\ Starts(w, <<Reconcile>>)
  /\ UNCHANGED <<here, joined, link, face, over, layout, up, bound, paused,
                 libs, plays, scan, busy, born>>

\* LibraryAdd, LibraryAutoDetect, LibraryRemove
ChangeLibrary(w) ==
  \E l \in Libraries :
    /\ libs' = IF l \in libs THEN libs \ {l} ELSE libs \cup {l}
    /\ Starts(w, <<EmitStep(IF l \in libs THEN Remove("libraries", l)
                                          ELSE Upsert("libraries", l, l))>>)
    /\ UNCHANGED <<here, joined, link, face, over, layout, up, bound, paused,
                   manual, plays, scan, busy, born>>

\* A playlist is activated on a display or stopped there.
ChangePlaylist(w) ==
  \E d \in here :
    /\ plays' = IF d \in plays THEN plays \ {d} ELSE plays \cup {d}
    /\ Starts(w, <<PublishStep("playlist")>>)
    /\ UNCHANGED <<here, joined, link, face, over, layout, up, bound, paused,
                   manual, libs, scan, busy, born>>

\* refresh_sources sets or clears the flag and says so.
ChangeScan(w) ==
  /\ scan' = ~scan
  /\ Starts(w, <<PublishStep("status")>>)
  /\ UNCHANGED <<here, joined, link, face, over, layout, up, bound, paused,
                 manual, libs, plays, busy, born>>

\* The task manager's record changes and then the event is sent.
ChangeTask(w) ==
  /\ busy' = ~busy
  /\ Starts(w, <<Step("nudge", None)>>)
  /\ UNCHANGED <<here, joined, link, face, over, layout, up, bound, paused,
                 manual, libs, plays, scan, born>>

StartSome(w) ==
  \/ RegisterDisplay(w) \/ UnregisterDisplay(w) \/ ChangeDisplay(w)
  \/ ChangeLayout(w) \/ RegisterRenderer(w) \/ UnregisterRenderer(w)
  \/ Relink(w) \/ Override(w) \/ Bind(w) \/ PauseAll(w)
  \/ ChangeLibrary(w) \/ ChangePlaylist(w) \/ ChangeScan(w) \/ ChangeTask(w)

\* The steps of a tail.
At(w, op) == job[w] # <<>> /\ Head(job[w]).op = op
Arg(w) == Head(job[w]).arg
Goes(w, steps) ==
  /\ job' = [job EXCEPT ![w] = steps \o Tail(@)]
  /\ UNCHANGED <<left, mixed, stage, drops, uiVars>>

ShouldPause(r) == manual \/ LinkedTo(r) = {}
SeqOf(S) == IF S = {} THEN <<>>
            ELSE CHOOSE s \in [1..Cardinality(S) -> S] : {s[i] : i \in DOMAIN s} = S

\* reconcile_lifecycle: the set is updated under the lock, the renderers it
\* changed are announced one by one afterwards.
ReconcileStep(w) ==
  /\ At(w, "reconcile")
  /\ LET changed == {r \in up : ShouldPause(r) # (r \in paused)}
         order == SeqOf(changed)
     IN  /\ paused' = (paused \ changed) \cup {r \in changed : ShouldPause(r)}
         /\ Goes(w, [i \in DOMAIN order |-> LookAtRenderer(order[i])])
  /\ UNCHANGED <<here, joined, link, face, over, layout, up, bound, manual, libs,
                 plays, scan, busy, born, told, queueVars>>

\* snapshot_display, snapshot_renderer, snapshot_displays: under the lock.
\* What is gone is not announced.
Look(w) ==
  /\ \/ At(w, "look") /\ Goes(w, IfAny({Arg(w)} \cap here,
              <<EmitStep(Upsert("displays", Arg(w), DisplayOf(Arg(w))))>>))
     \/ At(w, "lookRenderer") /\ Goes(w, IfAny({Arg(w)} \cap up,
              <<EmitStep(Upsert("renderers", Arg(w), RendererOf(Arg(w))))>>))
     \/ At(w, "lookAll") /\ Goes(w, <<EmitStep(Replace("displays", AllDisplays))>>)
  /\ UNCHANGED <<worldVars, told, queueVars>>

Announce(w) ==
  /\ \/ At(w, "emit") /\ Emit(Arg(w))
     \/ At(w, "publish") /\ Publish(Arg(w))
     \/ At(w, "nudge") /\ Nudge
  /\ Goes(w, <<>>)
  /\ UNCHANGED worldVars

\* register_display returns and the endpoint goes on to serve the display.
Join(w) ==
  /\ At(w, "joined")
  /\ joined' = joined \cup {Arg(w)}
  /\ Goes(w, <<>>)
  /\ UNCHANGED <<here, link, face, over, layout, up, bound, paused, manual, libs,
                 plays, scan, busy, born, told, queueVars>>

Continue(w) == ReconcileStep(w) \/ Look(w) \/ Announce(w) \/ Join(w)

-----------------------------------------------------------------------------
(* The connection.                                                         *)

\* Subscribing first, so that nothing falls between a snapshot and the
\* events that follow.
Connect ==
  /\ stage = "off"
  /\ stage' = "displays"
  /\ UNCHANGED <<worldVars, writerVars, drops, queueVars, uiVars>>

\* The five snapshots, each sent before the next is taken.
SendSnapshot ==
  /\ \/ /\ stage = "displays" /\ stage' = "renderers"
        /\ Show(Replace("displays", AllDisplays))
        /\ UNCHANGED <<missed, libsLost>>
     \/ /\ stage = "renderers" /\ stage' = "libraries"
        /\ Show(Replace("renderers", AllRenderers))
        /\ UNCHANGED <<missed, libsLost>>
     \/ /\ stage = "libraries" /\ stage' = "status"
        /\ Show(Replace("libraries", AllLibraries))
        /\ libsLost' = FALSE
        /\ UNCHANGED missed
     \/ /\ stage = "status" /\ stage' = "playlists"
        /\ ShowStatus
        /\ UNCHANGED <<missed, libsLost>>
     \/ /\ stage = "playlists" /\ stage' = "loop"
        /\ ShowPlaylists
        /\ UNCHANGED libsLost
  /\ UNCHANGED <<worldVars, writerVars, drops, queueVars>>

\* A lag of the router's channel: displays and renderers are sent again.
RouterLagged ==
  /\ routerLag
  /\ routerLag' = FALSE /\ libsLost' = TRUE
  /\ LET maps == [view.maps EXCEPT !.displays = AllDisplays, !.renderers = AllRenderers]
     IN  view' = [view EXCEPT !.maps = maps, !.plays = @ \cap here]
  /\ UNCHANGED <<routerQ, missed>>

ReceiveRouter ==
  /\ stage = "loop"
  /\ \/ RouterLagged
     \/ /\ ~routerLag /\ routerQ # <<>>
        /\ Show(Head(routerQ))
        /\ routerQ' = Tail(routerQ)
        /\ UNCHANGED <<routerLag, missed, libsLost>>
  /\ UNCHANGED <<worldVars, writerVars, stage, drops, busQ, busLag, taskQ>>

\* A lag of the event bus: status and playlists are sent again.
BusLagged ==
  /\ busLag
  /\ busLag' = FALSE
  /\ view' = [view EXCEPT !.status = Status, !.plays = plays \cap Known]
  /\ missed' = plays \ Known
  /\ UNCHANGED busQ

ReceiveBus ==
  /\ stage = "loop"
  /\ \/ BusLagged
     \/ /\ ~busLag /\ busQ # <<>>
        /\ \/ Head(busQ) = "playlist" /\ ShowPlaylists
           \/ Head(busQ) = "status" /\ ShowStatus /\ UNCHANGED missed
        /\ busQ' = Tail(busQ)
        /\ UNCHANGED busLag
  /\ UNCHANGED <<worldVars, writerVars, stage, drops, routerQ, routerLag, taskQ,
                 libsLost>>

ReceiveTask ==
  /\ stage = "loop"
  /\ taskQ /\ taskQ' = FALSE
  /\ ShowStatus
  /\ UNCHANGED <<worldVars, writerVars, stage, drops, routerQ, routerLag, busQ,
                 busLag, missed, libsLost>>

Serve == SendSnapshot \/ ReceiveRouter \/ ReceiveBus \/ ReceiveTask

\* The socket breaks: the receivers go, the UI takes its status back.
Break ==
  /\ Connected /\ drops > 0
  /\ drops' = drops - 1
  /\ stage' = "off"
  /\ routerQ' = <<>> /\ routerLag' = FALSE
  /\ busQ' = <<>> /\ busLag' = FALSE /\ taskQ' = FALSE
  /\ view' = [view EXCEPT !.status = [scan |-> FALSE, busy |-> FALSE]]
  /\ UNCHANGED <<worldVars, writerVars, missed, libsLost>>

-----------------------------------------------------------------------------
Nothing == [displays |-> <<>>, renderers |-> <<>>, libraries |-> <<>>]

\* Displays and a playing wallpaper, no UI yet.
Init ==
  /\ here = FirstDisplays /\ joined = FirstDisplays
  /\ up = FirstRenderers /\ born = FirstDisplays \cup FirstRenderers
  /\ LET r == CHOOSE r \in FirstRenderers : TRUE
     IN  /\ link = [d \in Displays |-> IF d \in FirstDisplays THEN r ELSE None]
         /\ bound = {r} /\ paused = IF FirstDisplays = {} THEN up ELSE up \ {r}
  /\ face = [d \in Displays |-> 0] /\ layout = 0 /\ over = {} /\ manual = FALSE
  /\ libs = {} /\ plays = {} /\ scan = FALSE /\ busy = FALSE
  /\ job = [w \in Writers |-> <<>>] /\ left = Changes
  /\ told = Truth /\ mixed = FALSE
  /\ stage = "off" /\ drops = Drops
  /\ routerQ = <<>> /\ routerLag = FALSE /\ busQ = <<>> /\ busLag = FALSE
  /\ taskQ = FALSE
  /\ view = [maps |-> Nothing, plays |-> {}, status |-> [scan |-> FALSE, busy |-> FALSE]]
  /\ missed = {} /\ libsLost = FALSE

Next ==
  \/ \E w \in Writers : StartSome(w) \/ Continue(w)
  \/ Connect \/ Serve \/ Break

\* An operation that began goes on, the UI reconnects (ui/src/backend.cpp),
\* and select! does not
\* starve a branch that stays ready.
Fairness ==
  /\ \A w \in Writers : WF_vars(Continue(w))
  /\ WF_vars(Connect) /\ WF_vars(SendSnapshot)
  /\ WF_vars(ReceiveRouter) /\ WF_vars(ReceiveBus) /\ WF_vars(ReceiveTask)

Spec == Init /\ [][Next]_vars /\ Fairness

-----------------------------------------------------------------------------
TypeOK ==
  /\ here \subseteq Displays /\ joined \subseteq Displays
  /\ link \in [Displays -> Renderers \cup {None}]
  /\ up \subseteq Renderers /\ paused \subseteq up
  /\ stage \in {"off", "displays", "renderers", "libraries", "status", "playlists", "loop"}
  /\ Len(routerQ) <= RouterCap /\ Len(busQ) <= BusCap
  /\ view.plays \subseteq Known

Idle == \A w \in Writers : job[w] = <<>>

\* While no two operations overlap, what the router emits adds up to what it
\* holds as soon as the operation is over: no operation forgets to announce
\* one of the objects it changed (the tails of routing/router.rs).
TruthIsAnnounced == Idle /\ ~mixed => told = Truth

\* Whatever is announced correctly is shown: a UI that connected at any time,
\* broke off, was slow or lagged ends up with the daemon's displays and
\* renderers, with its libraries unless library events were lost in a lag,
\* with its status, and with the playlist of every display that the UI knew
\* when the last status came (ws_server.rs, handle_conn).
Agrees(k) == told[k] = Truth[k] => view.maps[k] = Truth[k]
CaughtUp ==
  /\ Agrees("displays") /\ Agrees("renderers")
  /\ libsLost \/ Agrees("libraries")
  /\ view.status = Status
  /\ view.plays \ missed = (plays \cap Known) \ missed
UiCatchesUp == <>[](stage = "loop" /\ CaughtUp)
=============================================================================
