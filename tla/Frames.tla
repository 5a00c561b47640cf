------------------------------- MODULE Frames -------------------------------
(***************************************************************************)
(* The path of a frame from one renderer to the displays linked to it and  *)
(* of its release back: the renderer's slots (bridge/src/pool.c), the      *)
(* reader thread (renderer_manager.rs), the router's event task            *)
(* (routing/router.rs), the display endpoints (display/endpoint.rs) and    *)
(* the reaper (sync/reaper.rs).                                            *)
(*                                                                         *)
(* A frame is named by its release point.  The producer's timeline is a    *)
(* kernel object: a wait for a point is over once a signalled fence stands *)
(* at that point or at a later one.  Other renderers, and the gate of      *)
(* negotiation, are left out: a display this renderer loses is unbound.    *)
(***************************************************************************)
EXTENDS Naturals, Sequences, FiniteSets

CONSTANTS Displays,       \* connections
          Slots,          \* buffers of a pool, 0..n-1
          Scenarios,      \* how much of each kind of event a behaviour has
          Retention,      \* acquire fences the daemon keeps
          EventCapacity,  \* events the router's receiver holds
          MaxPoint,       \* bound on the frames
          MaxPool         \* bound on the pools

Kinds == {"frame", "rebind", "come", "unlink", "leave", "crash", "image"}

ASSUME FramesAssumption ==
  /\ IsFiniteSet(Displays) /\ IsFiniteSet(Slots)
  /\ Slots = 0..(Cardinality(Slots) - 1) /\ Slots # {}
  /\ Scenarios \subseteq [Kinds -> Nat]
  /\ Retention \in Nat \ {0} /\ EventCapacity \in Nat \ {0}
  /\ \A s \in Scenarios : s["frame"] <= MaxPoint /\ s["rebind"] <= MaxPool

VARIABLES
  budget,    \* the events still to come
  (* renderer *)
  made,      \* made[p] is where frame p was rendered: its pool and slot
  pool,      \* the pool it renders to
  filled,    \* last_release_point of each slot
  next,      \* the slot it turns to next
  timeline,  \* the greatest point signalled on release_syncobj
  wire,      \* what the reader thread has not received
  (* reader thread *)
  snapshot,  \* generation in bind_snapshot
  fences,    \* sync_fds, oldest first
  latest,    \* latest_frame
  rebinding, \* the snapshot is replaced, the fences are not yet cleared
  (* router *)
  events,    \* what the renderer's event task has not received
  here,      \* inner.displays
  link,      \* displays with an enabled link to the renderer
  bound,     \* last_buffer_generation, 0 when another renderer's or none
  syncing,   \* displays the event task still has to sync
  relinked,  \* displays other tasks still have to sync
  (* endpoints and displays *)
  out,       \* each display's queue of DisplayOutEvents
  sending,   \* the frames whose record is not submitted yet
  alive,     \* displays whose process runs
  dead,      \* displays whose process died
  shown,     \* the generation a display was told to use and has a config for
  sampling,  \* frames a display has not signalled the release of
  (* reaper *)
  records,   \* FrameRecords the reaper has not received
  buckets,   \* per point the handles that arrived and how many are expected
  flushing,  \* the bucket whose handles are waited for
  forced,    \* points released without every consumer's signal (history)
  lost       \* frames that were in a queue that was dropped (history)

rendererVars == <<made, pool, filled, next>>
readerVars == <<snapshot, fences, latest, rebinding>>
routerVars == <<here, link, bound, syncing, relinked>>
displayVars == <<alive, dead, shown, sampling>>
reaperVars == <<buckets, flushing, forced>>
vars == <<budget, rendererVars, timeline, wire, readerVars, events, routerVars,
          out, sending, displayVars, records, reaperVars, lost>>

Points == 1..MaxPoint
Generations == 0..MaxPool
None == 0
Happens(kind) == budget[kind] > 0 /\ budget' = [budget EXCEPT ![kind] = @ - 1]
Idle == UNCHANGED budget
Drop(f, x) == [y \in DOMAIN f \ {x} |-> f[y]]

Frame(gen, p, expected) == [op |-> "frame", gen |-> gen, point |-> p, expected |-> expected]
Order(name, gen) == [op |-> name, gen |-> gen, point |-> None, expected |-> 0]
Record(p, handle, expected) == [point |-> p, handle |-> handle, expected |-> expected]
Nobody == {}

TypeOK ==
  /\ budget \in [Kinds -> Nat]
  /\ made \in Seq([pool : Generations, slot : Slots]) /\ Len(made) <= MaxPoint
  /\ pool \in Generations /\ next \in Slots
  /\ filled \in [Slots -> 0..MaxPoint]
  /\ timeline \in 0..MaxPoint
  /\ wire \in Seq([op : {"bind", "frame"}, gen : Generations, point : 0..MaxPoint, expected : {0}])
  /\ snapshot \in Generations /\ rebinding \in BOOLEAN
  /\ fences \in Seq(Points) /\ Len(fences) <= Retention
  /\ latest \in [gen : Generations, point : 0..MaxPoint]
  /\ Len(events) <= EventCapacity
  /\ link \subseteq here /\ here \subseteq Displays /\ syncing \subseteq Displays
  /\ relinked \subseteq Displays
  /\ bound \in [Displays -> Generations]
  /\ alive \subseteq Displays /\ dead \subseteq Displays /\ alive \cap dead = {}
  /\ shown \in [Displays -> [gen : Generations, config : BOOLEAN]]
  /\ sampling \in [Displays -> SUBSET Points]
  /\ DOMAIN buckets \subseteq Points
  /\ \A p \in DOMAIN buckets : buckets[p].handles \subseteq Displays
  /\ \A b \in flushing : b.point \in Points /\ b.handles \subseteq Displays
  /\ forced \subseteq Points /\ lost \subseteq Points

Init ==
  /\ budget \in Scenarios
  /\ made = <<>> /\ pool = 0 /\ next = 0 /\ timeline = 0 /\ wire = <<>>
  /\ filled = [s \in Slots |-> None]
  /\ snapshot = 0 /\ fences = <<>> /\ latest = [gen |-> 0, point |-> None]
  /\ rebinding = FALSE
  /\ events = <<>> /\ here = {} /\ link = {} /\ syncing = {} /\ relinked = {}
  /\ bound = [d \in Displays |-> 0]
  /\ out = [d \in Displays |-> <<>>] /\ sending = [d \in Displays |-> {}]
  /\ alive = {} /\ dead = {}
  /\ shown = [d \in Displays |-> [gen |-> 0, config |-> FALSE]]
  /\ sampling = [d \in Displays |-> {}]
  /\ records = <<>> /\ buckets = [p \in {} |-> None] /\ flushing = {}
  /\ forced = {} /\ lost = {}

-----------------------------------------------------------------------------
(* The renderer.                                                           *)

\* ww_bridge_pool_apply_directive: the old slots go, with their points.
NewPool ==
  /\ Happens("rebind")
  /\ pool' = pool + 1 /\ next' = 0
  /\ filled' = [s \in Slots |-> None]
  /\ wire' = Append(wire, Order("bind", pool + 1))
  /\ UNCHANGED <<made, timeline, readerVars, events, routerVars, out, sending,
                 displayVars, records, reaperVars, lost>>

\* The slot is rendered to once ww_bridge_pool_wait_slot_release returned, and
\* submitted under the next point.  A wait that times out drops the frame and
\* turns to the same slot again.
SubmitTo(s) ==
  /\ pool > 0 /\ Happens("frame")
  /\ made' = Append(made, [pool |-> pool, slot |-> s])
  /\ filled' = [filled EXCEPT ![s] = Len(made) + 1]
  /\ next' = (s + 1) % Cardinality(Slots)
  /\ wire' = Append(wire, Frame(pool, Len(made) + 1, 0))
  /\ UNCHANGED <<pool, timeline, readerVars, events, routerVars, out, sending,
                 displayVars, records, reaperVars, lost>>

\* An image is rendered once to each pool.
Still == budget["image"] > 0
Once == \A s \in Slots : filled[s] = None
Submit == (Still => Once) /\ filled[next] <= timeline /\ SubmitTo(next)

-----------------------------------------------------------------------------
(* run_reader.                                                             *)

\* A receiver that falls behind loses the oldest events.
Broadcast(event) ==
  events' = IF Len(events) < EventCapacity THEN Append(events, event)
            ELSE Append(Tail(events), event)

\* Three locks one after the other: the snapshot is new before the fences and
\* latest_frame are cleared.
ReadBind ==
  /\ wire # <<>> /\ Head(wire).op = "bind" /\ ~rebinding
  /\ snapshot' = Head(wire).gen /\ rebinding' = TRUE
  /\ UNCHANGED <<budget, rendererVars, timeline, wire, fences, latest, events,
                 routerVars, out, sending, displayVars, records, reaperVars, lost>>

ClearFences ==
  /\ rebinding /\ rebinding' = FALSE
  /\ fences' = <<>> /\ latest' = [gen |-> 0, point |-> None]
  /\ Broadcast(Head(wire)) /\ wire' = Tail(wire)
  /\ UNCHANGED <<budget, rendererVars, timeline, snapshot, routerVars, out, sending,
                 displayVars, records, reaperVars, lost>>

ReadFrame ==
  /\ wire # <<>> /\ Head(wire).op = "frame"
  /\ LET p == Head(wire).point
     IN  /\ fences' = Append(IF Len(fences) < Retention THEN fences ELSE Tail(fences), p)
         /\ latest' = [gen |-> snapshot, point |-> p]
  /\ Broadcast(Head(wire)) /\ wire' = Tail(wire)
  /\ UNCHANGED <<budget, rendererVars, timeline, snapshot, rebinding, routerVars, out,
                 sending, displayVars, records, reaperVars, lost>>

-----------------------------------------------------------------------------
(* The router: the renderer's event task, and what changes the links.      *)

\* on_renderer_frame: only the displays whose pool is the snapshot's.
Recipients == {d \in link \cap here : bound[d] = snapshot}

HandleFrame ==
  /\ syncing = {} /\ events # <<>> /\ Head(events).op = "frame"
  /\ events' = Tail(events)
  /\ LET p == Head(events).point
         expected == Cardinality(Recipients)
     IN  IF Recipients = {}
         THEN /\ records' = Append(records, Record(p, Nobody, 0))
              /\ UNCHANGED out
         ELSE /\ out' = [d \in Displays |->
                   IF d \in Recipients THEN Append(out[d], Frame(snapshot, p, expected))
                                       ELSE out[d]]
              /\ UNCHANGED records
  /\ UNCHANGED <<budget, rendererVars, timeline, wire, readerVars, routerVars, sending,
                 displayVars, reaperVars, lost>>

\* on_renderer_bind: the displays are collected first, each is synced later.
HandleBind ==
  /\ syncing = {} /\ events # <<>> /\ Head(events).op = "bind"
  /\ events' = Tail(events)
  /\ syncing' = link
  /\ UNCHANGED <<budget, rendererVars, timeline, wire, readerVars, here, link, bound,
                 relinked, out, sending, displayVars, records, reaperVars, lost>>

\* sync_display.  An image's last frame is shown again, to this display only.
Target(d) == IF d \in link THEN snapshot ELSE 0
Replay(d) ==
  IF Still /\ latest.gen = Target(d) /\ latest.point # None
  THEN <<Frame(latest.gen, latest.point, 1)>> ELSE <<>>
Retire(d) == IF bound[d] = 0 THEN <<>> ELSE <<Order("unbind", bound[d])>>
PresentFrameFirst(d) ==
  IF Target(d) = 0 THEN <<>>
  ELSE <<Order("bind", 0)>> \o Replay(d) \o <<Order("config", 0)>>
Present(d) ==
  IF Target(d) = 0 THEN <<>>
  ELSE <<Order("bind", 0), Order("config", 0)>> \o Replay(d)

SyncDisplay(d) ==
  IF d \notin here \/ bound[d] = Target(d)
  THEN UNCHANGED <<bound, out>>
  ELSE /\ out' = [out EXCEPT ![d] = @ \o Retire(d) \o Present(d)]
       /\ bound' = [bound EXCEPT ![d] = Target(d)]

SyncOne ==
  /\ \/ \E d \in syncing : /\ SyncDisplay(d)
                           /\ syncing' = syncing \ {d} /\ UNCHANGED relinked
     \/ \E d \in relinked : /\ SyncDisplay(d)
                            /\ relinked' = relinked \ {d} /\ UNCHANGED syncing
  /\ UNCHANGED <<budget, rendererVars, timeline, wire, readerVars, events, here, link,
                 sending, displayVars, records, reaperVars, lost>>

\* register_display, onto this renderer; the sync follows.
Come(d) ==
  /\ d \notin alive \cup dead /\ Happens("come")
  /\ here' = here \cup {d} /\ alive' = alive \cup {d}
  /\ link' = link \cup {d} /\ relinked' = relinked \cup {d}
  /\ UNCHANGED <<rendererVars, timeline, wire, readerVars, events, bound, syncing, out,
                 sending, dead, shown, sampling, records, reaperVars, lost>>

\* A relink to another renderer, or the link disabled.
Unlink(d) ==
  /\ d \in link /\ Happens("unlink")
  /\ link' = link \ {d} /\ relinked' = relinked \cup {d}
  /\ UNCHANGED <<rendererVars, timeline, wire, readerVars, events, here, bound, syncing,
                 out, sending, displayVars, records, reaperVars, lost>>

-----------------------------------------------------------------------------
(* run_frame_loop, one per display.                                        *)

Ready(d, name) ==
  d \in here \cap alive /\ sending[d] = {} /\ out[d] # <<>> /\ Head(out[d]).op = name

\* The loop ends: unregister_display, and the queue is dropped.
Disconnected(d) ==
  /\ here' = here \ {d} /\ link' = link \ {d}
  /\ bound' = [bound EXCEPT ![d] = 0]
  /\ lost' = lost \cup ({out[d][i].point : i \in DOMAIN out[d]} \ {None})
  /\ out' = [out EXCEPT ![d] = <<>>]
  /\ UNCHANGED <<syncing, relinked>>

\* send_bind_from_renderer reads the snapshot now, not when it was queued.
SendBind(d) ==
  /\ Ready(d, "bind")
  /\ shown' = [shown EXCEPT ![d] = [gen |-> snapshot, config |-> FALSE]]
  /\ out' = [out EXCEPT ![d] = Tail(@)]
  /\ UNCHANGED <<budget, rendererVars, timeline, wire, readerVars, events, routerVars,
                 sending, alive, dead, sampling, records, reaperVars, lost>>

SendConfig(d) ==
  /\ Ready(d, "config")
  /\ shown' = [shown EXCEPT ![d].config = TRUE]
  /\ out' = [out EXCEPT ![d] = Tail(@)]
  /\ UNCHANGED <<budget, rendererVars, timeline, wire, readerVars, events, routerVars,
                 sending, alive, dead, sampling, records, reaperVars, lost>>

SendUnbind(d) ==
  /\ Ready(d, "unbind")
  /\ shown' = [shown EXCEPT ![d] = [gen |-> 0, config |-> FALSE]]
  /\ out' = [out EXCEPT ![d] = Tail(@)]
  /\ UNCHANGED <<budget, rendererVars, timeline, wire, readerVars, events, routerVars,
                 sending, alive, dead, sampling, records, reaperVars, lost>>

\* forward_frame_ready: without the fence the display is disconnected.
ForwardFrame(d) ==
  /\ Ready(d, "frame")
  /\ LET f == Head(out[d])
         fenced == \E i \in DOMAIN fences : fences[i] = f.point
     IN  IF fenced
         THEN /\ sampling' = [sampling EXCEPT ![d] = @ \cup {f.point}]
              /\ sending' = [sending EXCEPT ![d] = {Record(f.point, {d}, f.expected)}]
              /\ out' = [out EXCEPT ![d] = Tail(@)]
              /\ UNCHANGED <<routerVars, lost>>
         ELSE /\ Disconnected(d)
              /\ UNCHANGED <<sampling, sending>>
  /\ UNCHANGED <<budget, rendererVars, timeline, wire, readerVars, events, alive, dead, shown,
                 records, reaperVars>>

\* The frame is sent; its record follows.
SubmitRecord(d) ==
  /\ \E rec \in sending[d] : records' = Append(records, rec)
  /\ sending' = [sending EXCEPT ![d] = {}]
  /\ UNCHANGED <<budget, rendererVars, timeline, wire, readerVars, events, routerVars,
                 out, displayVars, reaperVars, lost>>

\* The endpoint reads Bye, or finds the socket closed.
Leave(d) ==
  /\ d \in here /\ sending[d] = {}
  /\ \/ d \in alive /\ Happens("leave")
     \/ d \in dead /\ Idle
  /\ Disconnected(d)
  /\ UNCHANGED <<rendererVars, timeline, wire, readerVars, events, sending, displayVars,
                 records, reaperVars>>

\* The display's process dies, and signals nothing any more.
CrashDisplay(d) ==
  /\ d \in alive /\ Happens("crash")
  /\ alive' = alive \ {d} /\ dead' = dead \cup {d}
  /\ UNCHANGED <<rendererVars, timeline, wire, readerVars, events, routerVars, out,
                 sending, shown, sampling, records, reaperVars, lost>>

\* The display is done with the oldest frame and signals its release_syncobj.
Release(d) ==
  /\ d \in alive
  /\ \E p \in sampling[d] : /\ \A q \in sampling[d] : p <= q
                             /\ sampling' = [sampling EXCEPT ![d] = @ \ {p}]
  /\ UNCHANGED <<budget, rendererVars, timeline, wire, readerVars, events, routerVars,
                 out, sending, alive, dead, shown, records, reaperVars, lost>>

-----------------------------------------------------------------------------
(* The reaper.                                                             *)

Signal(p) == timeline' = IF p > timeline THEN p ELSE timeline

\* A record without a handle advances the timeline at once.  The others are
\* collected until everyone who was sent the frame has one there.
Collected(rec) ==
  IF rec.point \in DOMAIN buckets
  THEN [handles |-> buckets[rec.point].handles \cup rec.handle,
        expected |-> IF rec.expected > buckets[rec.point].expected THEN rec.expected
                     ELSE buckets[rec.point].expected]
  ELSE [handles |-> rec.handle, expected |-> rec.expected]

FullAtFirst(b) == b.handles # {}
Full(b) == Cardinality(b.handles) >= b.expected

ReceiveRecord ==
  /\ flushing = {} /\ records # <<>>
  /\ records' = Tail(records)
  /\ LET rec == Head(records)
         b == Collected(rec)
     IN  IF rec.handle = Nobody
         THEN Signal(rec.point) /\ UNCHANGED <<buckets, flushing>>
         ELSE /\ UNCHANGED timeline
              /\ IF Full(b)
                 THEN /\ buckets' = Drop(buckets, rec.point)
                      /\ flushing' = {[point |-> rec.point, handles |-> b.handles]}
                 ELSE /\ buckets' = [p \in DOMAIN buckets \cup {rec.point} |->
                                       IF p = rec.point THEN b ELSE buckets[p]]
                      /\ UNCHANGED flushing
  /\ UNCHANGED <<budget, rendererVars, wire, readerVars, events, routerVars, out, sending,
                 displayVars, forced, lost>>

\* BUCKET_TIMEOUT: the bucket is flushed with the handles it has.
ExpireDropping ==
  /\ flushing = {}
  /\ \E p \in DOMAIN buckets : buckets' = Drop(buckets, p) /\ forced' = forced \cup {p}
  /\ UNCHANGED <<budget, rendererVars, timeline, wire, readerVars, events, routerVars, out,
                 sending, displayVars, records, flushing, lost>>

Expire ==
  /\ flushing = {}
  /\ \E p \in DOMAIN buckets :
       /\ buckets' = Drop(buckets, p)
       /\ flushing' = {[point |-> p, handles |-> buckets[p].handles]}
       /\ forced' = forced \cup {p}
  /\ UNCHANGED <<budget, rendererVars, timeline, wire, readerVars, events, routerVars, out,
                 sending, displayVars, records, lost>>

\* flush_bucket: every handle is signalled, or after WAIT_TIMEOUT the
\* stragglers are, and the merged fence goes to the producer's timeline.
Flush ==
  /\ \E b \in flushing :
       /\ Signal(b.point)
       /\ forced' = IF \E d \in b.handles : b.point \in sampling[d]
                    THEN forced \cup {b.point} ELSE forced
  /\ flushing' = {}
  /\ UNCHANGED <<budget, rendererVars, wire, readerVars, events, routerVars, out, sending,
                 displayVars, records, buckets, lost>>

-----------------------------------------------------------------------------
\* The daemon's own steps.  The runtime polls every ready task, the reader
\* thread reads what arrives, and the deadlines pass.
Internal ==
  \/ ReadBind \/ ClearFences \/ ReadFrame
  \/ HandleFrame \/ HandleBind \/ SyncOne
  \/ \E d \in Displays : SendBind(d) \/ SendConfig(d) \/ SendUnbind(d)
  \/ \E d \in Displays : ForwardFrame(d) \/ SubmitRecord(d)
  \/ \E d \in Displays : d \in dead /\ Leave(d)
  \/ ReceiveRecord \/ Expire \/ Flush

External ==
  \/ NewPool \/ Submit
  \/ \E d \in Displays : Come(d) \/ Unlink(d) \/ Leave(d) \/ CrashDisplay(d) \/ Release(d)

Next == Internal \/ External

Spec == Init /\ [][Next]_vars
FairSpec == Spec /\ WF_vars(Internal)

-----------------------------------------------------------------------------
(* No display that is linked to the renderer samples a buffer that has been *)
(* rendered to since: a slot is reused only when "every consumer subscribed *)
(* at frame_ready time has finished its GPU work"                          *)
(* (waywallen_ipc_v1.xml:371), except for a frame that was force-signalled, *)
(* or that a later forced point released.  A display that is unlinked while *)
(* frames are still queued for it has no such promise: the next frame has   *)
(* one recipient less, and its release frees the earlier slots.             *)
NoTearing ==
  \A d \in link \cap alive : \A p \in sampling[d] :
    \/ made[p].pool # pool
    \/ filled[made[p].slot] = p
    \/ \E q \in forced : q >= p

(* A display is sent a frame only after a set_config for the pool it was   *)
(* told to use ("the display is in PENDING_CONFIG and MUST NOT accept any  *)
(* frame_ready", waywallen_display_v1.xml:45), and a frame of that pool:   *)
(* one of a pool that was replaced finds no fence any more.  Between the   *)
(* two locks of a rebind it still does.                                    *)
FramesAreConfigured ==
  [][\A d \in Displays : \A p \in sampling'[d] \ sampling[d] :
       shown[d].config /\ (rebinding \/ shown[d].gen = made[p].pool)]_vars

(* The renderer gets every slot back: whichever displays are slow, come,   *)
(* go or die, the point a slot waits for is signalled, by its consumers or *)
(* by a timeout of the reaper, except for a frame that was still queued    *)
(* when its display went.                                                  *)
Unreleased(s) == filled[s] > timeline
SlotsAreReleased ==
  \A s \in Slots : Unreleased(s) ~> (~Unreleased(s) \/ filled[s] \in lost)

=============================================================================
