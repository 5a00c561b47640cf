----------------------------- MODULE Negotiation -----------------------------
(***************************************************************************)
(* How a renderer and its displays settle on a buffer format.  Both sides  *)
(* send their capabilities; the router picks a scheme for each link and    *)
(* sends the renderer the last one (routing/router.rs,                     *)
(* reconcile_buffer_flags; renderer_manager.rs, send_negotiate_buffers);   *)
(* the renderer allocates a pool or refuses (bridge/src/pool.c); the       *)
(* displays import it or refuse (display/endpoint.rs).  Each refusal bans  *)
(* a pair and picks again.                                                 *)
(*                                                                         *)
(* What can really be allocated and imported is known to nobody: Init      *)
(* chooses it.  One renderer stays alive throughout.                       *)
(***************************************************************************)
EXTENDS Formats, FiniteSets, TLC

CONSTANTS
  Displays,
  None,
  Speaking,     \* displays that send their capabilities
  RendererCaps, \* what the renderer advertises
  DisplayCaps,  \* what each display advertises
  Possible,     \* pairs the renderer may turn out to be able to allocate
  Importable,   \* pairs each display may turn out to be able to import
  Lists,        \* lists of entries a peer may send
  Scenes        \* bounds: who may come, how many displays leave, how many
                \* tasks reconcile at a time, how many pools are allocated, and
                \* which pairs the renderer and the displays can surely use

ASSUME PeersAssumption ==
  /\ IsPeer(RendererCaps)
  /\ DOMAIN DisplayCaps = Displays /\ \A d \in Displays : IsPeer(DisplayCaps[d])

VARIABLES
  scene,        \* one of Scenes
  allocs,       \* pairs the renderer can really allocate
  imports,      \* pairs each display can really import
  pbans,        \* RendererHandle.format_caps: None, or its blacklist
  cbans,        \* DisplayState.consumer_caps: None, or their blacklist
  links,        \* displays with a link to the renderer, in link order
  bound,        \* DisplayState.last_buffer_generation
  snapshot,     \* RendererHandle.bind_snapshot
  last,         \* RendererHandle.last_dispatched_scheme
  wire,         \* directives on their way to the renderer
  events,       \* events on their way to the router's task
  outbox,       \* DisplayOutEvents of each display
  inbox,        \* requests each display has sent
  shown,        \* the pool a display has imported
  task,         \* the router's task for the renderer and each endpoint
  departures,
  sent,         \* history: the last scheme sent
  crossed       \* history: a dispatch was recorded after its answer was taken
                \* up, or after a later dispatch

truthVars == <<scene, allocs, imports>>
capVars == <<pbans, cbans>>
poolVars == <<snapshot, wire>>
displayVars == <<outbox, inbox, shown>>
vars == <<truthVars, capVars, links, bound, poolVars, last, events,
          displayVars, task, departures, sent, crossed>>

Router == "router"
Tasks == Displays \cup {Router}

\* A task takes up its next piece of work.
MayStart == Cardinality({t \in Tasks : task[t].pc \notin {"idle", "away"}}) < scene.racers

Idle == [pc |-> "idle", todo |-> <<>>, scheme |-> None]
At(t, pc) == task[t].pc = pc
Goto(t, pc) == task' = [task EXCEPT ![t].pc = pc]

PairOf(s) == <<s.fourcc, s.modifier>>

Init ==
  /\ scene \in Scenes
  /\ allocs \in SUBSET Possible /\ scene.sure \subseteq allocs
  /\ imports \in {f \in [Displays -> SUBSET Possible] :
                    \A d \in Displays :
                      LET may == IF d \in scene.displays THEN Importable[d] ELSE {}
                      IN  f[d] \subseteq may /\ scene.sureImports \cap may \subseteq f[d]}
  /\ pbans = None
  /\ cbans = [d \in Displays |-> None]
  /\ links = <<>>
  /\ bound = [d \in Displays |-> None]
  /\ snapshot = None
  /\ last = None
  /\ wire = <<>>
  /\ events = <<>>
  /\ outbox = [d \in Displays |-> <<>>]
  /\ inbox = [d \in Displays |-> <<>>]
  /\ shown = [d \in Displays |-> None]
  /\ task = [t \in Tasks |-> IF t = Router THEN Idle ELSE [Idle EXCEPT !.pc = "away"]]
  /\ departures = scene.departures
  /\ sent = None
  /\ crossed = FALSE

-----------------------------------------------------------------------------
(* The renderer.  It advertises once; so does a display.                   *)

\* The reader thread stores the caps before it passes the event on.
Advertise ==
  /\ pbans = None
  /\ pbans' = {}
  /\ events' = Append(events, [of |-> "caps"])
  /\ UNCHANGED <<truthVars, cbans, links, bound, poolVars, last, displayVars,
                 task, departures, sent, crossed>>

\* validate_directive: an optimized path must be one it advertised.
Valid(s) ==
  /\ s.sync = Timeline
  /\ s.path = "same_device" =>
       \E i \in DOMAIN RendererCaps.formats[s.fourcc] :
          RendererCaps.formats[s.fourcc][i].modifier = s.modifier

\* ww_bridge_pool_apply_directive, and the reader thread with the answer.
Apply ==
  /\ wire # <<>>
  /\ LET s == Head(wire)
         gen == IF snapshot = None THEN 1 ELSE snapshot.gen + 1
     IN  /\ gen <= scene.pools
         /\ IF Valid(s) /\ PairOf(s) \in allocs
            THEN /\ snapshot' = [gen |-> gen, pair |-> PairOf(s)]
                 /\ events' = Append(events, [of |-> "bind"])
            ELSE /\ events' = Append(events, [of |-> "failed", pair |-> PairOf(s)])
                 /\ UNCHANGED snapshot
  /\ wire' = Tail(wire)
  /\ UNCHANGED <<truthVars, capVars, links, bound, last, displayVars, task,
                 departures, sent, crossed>>

-----------------------------------------------------------------------------
(* sync_display and reconcile_buffer_flags, run by any task.               *)

SchemeSatisfied == last # None /\ snapshot.pair = PairOf(last)

\* A display that negotiates waits for the pool of the last scheme.
Gated(d) == pbans # None /\ cbans[d] # None /\ ~SchemeSatisfied

Unbinds(d) == IF bound[d] = None THEN <<>> ELSE <<"unbind">>

SyncDisplay(d) ==
  IF \/ d \notin Range(links)
     \/ snapshot = None
     \/ Gated(d)
     \/ bound[d] = snapshot.gen
  THEN UNCHANGED <<bound, outbox>>
  ELSE /\ bound' = [bound EXCEPT ![d] = snapshot.gen]
       /\ outbox' = [outbox EXCEPT ![d] = @ \o Unbinds(d) \o <<"bind">>]

SyncNext(t) ==
  /\ At(t, "sync")
  /\ LET d == Head(task[t].todo)
         rest == Tail(task[t].todo)
     IN  /\ SyncDisplay(d)
         /\ task' = [task EXCEPT ![t].todo = rest, ![t].pc = IF rest = <<>> THEN "pick" ELSE @]
  /\ UNCHANGED <<truthVars, capVars, links, poolVars, last, events, inbox,
                 shown, departures, sent, crossed>>

Producer(pb) == [RendererCaps EXCEPT !.black = pb]
Consumer(d, cb) == [DisplayCaps[d] EXCEPT !.black = cb]

\* What a scheme can be about: the renderer's pairs, and linear in any of its
\* fourccs for a display on another device.
Pairs ==
  UNION {{f} \X ({e.modifier : e \in Range(RendererCaps.formats[f])} \cup {Linear})
           : f \in DOMAIN RendererCaps.formats}


\* pick, for what a pair of peers has refused so far.  The peers are bound in
\* a set so that TLC evaluates them once.
SchemeFor ==
  [x \in Displays \X (SUBSET Pairs) \X (SUBSET Pairs) |->
     CHOOSE s \in {Pick(p, c) : p \in {Producer(x[2])}, c \in {Consumer(x[1], x[3])}} : TRUE]

ASSUME NoneAssumption ==
  /\ None \notin Nat /\ None \notin [gen : Nat, pair : Pairs]
  /\ \A black \in SUBSET Pairs : black # None
  /\ \A x \in DOMAIN SchemeFor : SchemeFor[x] # None

SchemeAt(i) == SchemeFor[<<links[i], pbans, cbans[links[i]]>>]

\* Displays a scheme can be picked for; the last in link order wins.
Served ==
  {i \in DOMAIN links :
     /\ pbans # None /\ cbans[links[i]] # None
     /\ SchemeAt(i) # Refused}
Winners == {i \in Served : \A j \in Served : j <= i}

PickScheme(t) ==
  /\ At(t, "pick")
  /\ \/ Served = {} /\ task' = [task EXCEPT ![t] = Idle]
     \/ \E i \in Winners :
          task' = [task EXCEPT ![t] = [Idle EXCEPT !.pc = "send", !.scheme = SchemeAt(i)]]
  /\ UNCHANGED <<truthVars, capVars, links, bound, poolVars, last, events,
                 displayVars, departures, sent, crossed>>

SendAlways(t) ==
  /\ At(t, "send")
  /\ wire' = Append(wire, task[t].scheme)
  /\ sent' = task[t].scheme
  /\ Goto(t, "record")
  /\ UNCHANGED <<truthVars, capVars, links, bound, snapshot, last, events,
                 displayVars, departures, crossed>>

\* send_negotiate_buffers: a scheme that is recorded is not sent again.
Send(t) ==
  /\ At(t, "send")
  /\ IF last = task[t].scheme
     THEN /\ task' = [task EXCEPT ![t] = Idle]
          /\ UNCHANGED <<wire, sent>>
     ELSE /\ wire' = Append(wire, task[t].scheme)
          /\ sent' = task[t].scheme
          /\ Goto(t, "record")
  /\ UNCHANGED <<truthVars, capVars, links, bound, snapshot, last, events,
                 displayVars, departures, crossed>>

\* The router has taken up every answer.
Answered == wire = <<>> /\ events = <<>>

Record(t) ==
  /\ At(t, "record")
  /\ last' = task[t].scheme
  /\ crossed' = (crossed \/ sent # task[t].scheme \/ Answered)
  /\ task' = [task EXCEPT ![t] = Idle]
  /\ UNCHANGED <<truthVars, capVars, links, bound, poolVars, events,
                 displayVars, departures, sent>>

Reconcile(t) == PickScheme(t) \/ Send(t) \/ Record(t)

-----------------------------------------------------------------------------
(* The router's task for the renderer.                                     *)

\* on_renderer_bind_failed
Ban(pair) == pbans' = pbans \cup {pair}

HandleEvent ==
  /\ At(Router, "idle") /\ MayStart /\ events # <<>>
  /\ LET e == Head(events)
     IN  CASE e.of = "caps" -> Goto(Router, "pick") /\ UNCHANGED pbans
           [] e.of = "bind" ->
                /\ task' = [task EXCEPT ![Router].todo = links,
                                        ![Router].pc = IF links = <<>> THEN "pick" ELSE "sync"]
                /\ UNCHANGED pbans
           [] e.of = "failed" -> Ban(e.pair) /\ Goto(Router, "pick")
  /\ events' = Tail(events)
  /\ UNCHANGED <<truthVars, cbans, links, bound, poolVars, last, displayVars,
                 departures, sent, crossed>>

-----------------------------------------------------------------------------
(* A display and its endpoint.                                             *)

CapsRequest == [of |-> "caps"]

Register(d) ==
  /\ At(d, "away") /\ MayStart /\ d \in scene.displays
  /\ links' = Append(links, d)
  /\ task' = [task EXCEPT ![d].todo = <<d>>, ![d].pc = "sync"]
  /\ inbox' = [inbox EXCEPT ![d] = IF d \in Speaking THEN <<CapsRequest>> ELSE <<>>]
  /\ UNCHANGED <<truthVars, capVars, bound, poolVars, last, events, outbox,
                 shown, departures, sent, crossed>>

\* set_consumer_caps, on_consumer_bind_failed
HandleRequest(d) ==
  /\ At(d, "idle") /\ MayStart /\ inbox[d] # <<>>
  /\ LET q == Head(inbox[d])
     IN  CASE q.of = "caps" ->
                /\ cbans' = [cbans EXCEPT ![d] = {}]
                /\ Goto(d, "pick")
           [] q.of = "failed" ->
                IF cbans[d] = None THEN UNCHANGED <<cbans, task>>
                ELSE /\ cbans' = [cbans EXCEPT ![d] = @ \cup {q.pair}]
                     /\ Goto(d, "pick")
  /\ inbox' = [inbox EXCEPT ![d] = Tail(@)]
  /\ UNCHANGED <<truthVars, pbans, links, bound, poolVars, last, events,
                 outbox, shown, departures, sent, crossed>>

\* The endpoint reads the renderer's snapshot of now; the display imports it
\* or refuses it.
Deliver(d) ==
  /\ At(d, "idle") /\ outbox[d] # <<>>
  /\ IF Head(outbox[d]) = "unbind"
     THEN /\ shown' = [shown EXCEPT ![d] = None]
          /\ UNCHANGED inbox
     ELSE IF snapshot.pair \in imports[d]
     THEN /\ shown' = [shown EXCEPT ![d] = snapshot]
          /\ UNCHANGED inbox
     ELSE /\ shown' = [shown EXCEPT ![d] = None]
          /\ inbox' = [inbox EXCEPT ![d] =
                         Append(@, [of |-> "failed", pair |-> snapshot.pair])]
  /\ outbox' = [outbox EXCEPT ![d] = Tail(@)]
  /\ UNCHANGED <<truthVars, capVars, links, bound, poolVars, last, events,
                 task, departures, sent, crossed>>

LeaveQuietly(d) ==
  /\ departures > 0 /\ At(d, "idle") /\ MayStart
  /\ departures' = departures - 1
  /\ \E i \in DOMAIN links : links[i] = d /\ links' = RemoveAt(links, i)
  /\ cbans' = [cbans EXCEPT ![d] = None]
  /\ bound' = [bound EXCEPT ![d] = None]
  /\ outbox' = [outbox EXCEPT ![d] = <<>>]
  /\ inbox' = [inbox EXCEPT ![d] = <<>>]
  /\ shown' = [shown EXCEPT ![d] = None]
  /\ UNCHANGED task
  /\ UNCHANGED <<truthVars, pbans, poolVars, last, events, sent, crossed>>

Leave(d) ==
  /\ departures > 0 /\ At(d, "idle") /\ MayStart
  /\ departures' = departures - 1
  /\ \E i \in DOMAIN links : links[i] = d /\ links' = RemoveAt(links, i)
  /\ cbans' = [cbans EXCEPT ![d] = None]
  /\ bound' = [bound EXCEPT ![d] = None]
  /\ outbox' = [outbox EXCEPT ![d] = <<>>]
  /\ inbox' = [inbox EXCEPT ![d] = <<>>]
  /\ shown' = [shown EXCEPT ![d] = None]
  /\ Goto(d, "pick")
  /\ UNCHANGED <<truthVars, pbans, poolVars, last, events, sent, crossed>>

-----------------------------------------------------------------------------

\* What the tasks, the renderer and the displays do once there is something
\* to do.  Nobody needs to be served before the others.
Work ==
  \/ Advertise \/ Apply \/ HandleEvent
  \/ \E t \in Tasks : SyncNext(t) \/ Reconcile(t)
  \/ \E d \in Displays : HandleRequest(d) \/ Deliver(d)

Next == Work \/ \E d \in Displays : Register(d) \/ Leave(d)

Spec == Init /\ [][Next]_vars /\ WF_vars(Work)

-----------------------------------------------------------------------------
(* Properties.                                                             *)

Quiet ==
  /\ pbans # None /\ wire = <<>> /\ events = <<>>
  /\ \A t \in Tasks : task[t].pc \in {"idle", "away"}
  /\ \A d \in Displays : inbox[d] = <<>> /\ outbox[d] = <<>>

\* Refusals, answers and repeated capabilities never keep each other going:
\* the peers fall silent (send_negotiate_buffers skips a scheme it has sent;
\* on_consumer_bind_failed and on_renderer_bind_failed ban what failed).
NegotiationEnds == <>[]Quiet

\* Once all is quiet, the display the scheme was picked for shows a pool of
\* that scheme, unless nothing is left to pick for anyone, or a dispatch was
\* recorded after its answer was taken up or after a later dispatch.
WinnerIsServed ==
  (Quiet /\ ~crossed) =>
    \A i \in Winners :
      /\ shown[links[i]] # None
      /\ shown[links[i]].pair = PairOf(SchemeAt(i))

\* Nothing is picked for a link that one of its ends refused or cannot use,
\* and nothing linear while both can still use something tiled (pick).
PicksAreUsable ==
  \A i \in Served :
    IsUsable(Producer(pbans), Consumer(links[i], cbans[links[i]]), SchemeAt(i))

\* Whatever a renderer is about to list, the daemon will know of it, also when
\* it lists a fourcc in several runs (ww_bridge_negotiation_fill_format_caps
\* and unflatten_caps).
CapsSurviveTheWire == Init => \A list \in Lists : Survives(list)
=============================================================================
