------------------------------ MODULE Playback ------------------------------
(***************************************************************************)
(* Playlists and the wallpaper queue.  A playlist of the database is       *)
(* played on displays (playlist/engine.rs): each has a rotation, that is a *)
(* cursor (playlist/cursor.rs) and a task that moves it.  Requests         *)
(* activate, edit and stop playlists (ws_server.rs), the hot-plug watcher  *)
(* does so as displays come and go (playlist/restore.rs).  Displays that   *)
(* play no playlist follow the queue (control.rs step_pick, run_rotator;   *)
(* queue/state.rs).                                                        *)
(*                                                                         *)
(* One playlist.  A wallpaper that leaves the database (a scan's sweep, a  *)
(* library removed) takes its place on the list along, and nobody tells    *)
(* the rotations.  How long a rotation waits is left out: the interval and *)
(* kick only move the moment of a tick, which may be any.                  *)
(***************************************************************************)
EXTENDS Naturals, Sequences, FiniteSets, TLC, Functions, SequencesExt

CONSTANTS Displays,   \* registrations, each with a DisplayId of its own
          Items,      \* wallpapers of the database
          Clients,    \* connections of the user interface: one request each at a time
          Steppers,   \* callers of control::step (D-Bus, tray)
          Queue,      \* what the queue holds, sorted
          Lists,      \* what the playlist may hold
          Scenarios,  \* how much of each kind of event a behaviour has
          MaxRots     \* bound on the rotations ever made

Modes == {"sequential", "shuffle", "random"}
Kinds == {"request", "tick", "endless", "come", "go", "touch", "step", "reset", "rotate", "alone",
          "sweep", "auto", "plain", "overlap"}
NoItem == "none"
Watcher == "watcher"   \* the hot-plug watcher, beside the clients

ASSUME PlaybackAssumption ==
  /\ Queue \in {s \in Seq(Items) : IsInjective(s)} /\ Queue # <<>>
  /\ Lists \subseteq {s \in Seq(Items) : IsInjective(s)} /\ NoItem \notin Items
  /\ Scenarios \subseteq [Kinds -> Nat]
  /\ MaxRots \in Nat
  /\ Watcher \notin Clients /\ Displays # {}

VARIABLES
  budget,    \* the events still to come
  here,      \* displays that are registered
  everHere,  \* those that ever were
  assigned,  \* displays whose settings name the playlist: active_playlist_id
  attached,  \* does auto_attach_playlist_id, the settings of all the others?
  exists,    \* is the playlist in the database?
  list,      \* its items
  mode,      \* its mode
  gone,      \* wallpapers that have left the database
  rot,       \* Engine.inner: the number of each display's rotation, 0 for none
  cursor,    \* the cursor of each rotation
  rots,      \* rotations made
  ticking,   \* what each rotation's task is about to apply
  job,       \* where each request and the hot-plug watcher are
  feed,      \* the router's events for the watcher
  shown,     \* the wallpaper of each display
  (* QueueState *)
  qmode, round, qpos,
  last,      \* last_db_id: the latest wallpaper applied to any display
  stepper,   \* where each step of the queue is
  (* history *)
  crossed,   \* displays that two requests were handling at once, the last time
  refused,   \* displays whose playlist could not be played when last resumed
  edits,     \* changes of the playlist by a request
  stale      \* displays whose rotation follows the playlist of before an edit

displayVars == <<here, everHere, feed>>
wantVars == <<assigned, attached>>
listVars == <<exists, list, mode, gone>>
history == <<crossed, refused, edits, stale>>
engineVars == <<rot, cursor, rots, ticking>>
queueVars == <<qmode, round, qpos, stepper>>
showVars == <<shown, last>>
playVars == <<budget, displayVars, wantVars, listVars, engineVars, job, showVars, queueVars, history>>

Happens(kind) == budget[kind] > 0 /\ budget' = [budget EXCEPT ![kind] = @ - 1]
Idle == UNCHANGED budget
Rotator == "rotator"
QueueUsers == Steppers \cup {Rotator}
NoStep == [at |-> "idle", forward |-> TRUE, on |-> {}, pick |-> NoItem]
Stepped == budget["step"] + budget["rotate"] > 0
Actors == Clients \cup {Watcher}
NoJob == [do |-> "idle", at |-> "idle", todo |-> {}, on |-> "none", bound |-> {},
          items |-> <<>>, mode |-> "sequential", cursor |-> <<>>, item |-> NoItem,
          auto |-> FALSE, saw |-> 0]
Owned == {d \in Displays : rot[d] # 0}

\* apply_wallpaper_core: every apply is also the queue's anchor.  One of a
\* wallpaper that the database does not know fails.
Shows(ds, item) ==
  IF item \in gone THEN UNCHANGED showVars
  ELSE /\ shown' = [d \in Displays |-> IF d \in ds \cap here THEN item ELSE shown[d]]
       /\ last' = item

-----------------------------------------------------------------------------
(* Cursors.  A random choice is any choice.                                *)

Orders(n) == {o \in [1..n -> 1..n] : IsInjective(o)}

Built(c) == {[c EXCEPT !.order = o, !.opos = 1] : o \in Orders(Len(c.items))}
Ordered(c) == IF Len(c.order) = Len(c.items) THEN {c} ELSE Built(c)

New(items, m) ==
  LET c == [items |-> items, mode |-> m, pos |-> 1, order |-> <<>>, opos |-> 1, current |-> NoItem]
  IN IF m = "shuffle" THEN Built(c) ELSE {c}

Playing(c, i) == [c EXCEPT !.current = c.items[i]]

First(c) ==
  CASE c.mode = "shuffle" -> {Playing([b EXCEPT !.opos = 1], b.order[1]) : b \in Ordered(c)}
    [] c.mode = "random" -> {Playing([c EXCEPT !.pos = i], i) : i \in 1..Len(c.items)}
    [] OTHER -> {Playing([c EXCEPT !.pos = 1], 1)}

NextBeforeLast(c) ==
  LET n == Len(c.items)
      up(i, m) == IF i >= m - 1 THEN 1 ELSE i + 1
      moved(b) == [b EXCEPT !.opos = up(b.opos, n)]
  IN CASE c.mode = "sequential" -> {Playing([c EXCEPT !.pos = up(@, n)], up(c.pos, n))}
       [] c.mode = "random" -> {Playing([c EXCEPT !.pos = i], i) : i \in 1..n}
       [] OTHER -> UNION {{Playing(r, r.order[r.opos]) :
                             r \in IF moved(b).opos = 1 THEN Built(moved(b)) ELSE {moved(b)}}
                          : b \in Ordered(c)}

\* next(1): a random step does not stay, a shuffle that comes around shuffles again.
Next1(c) ==
  LET n == Len(c.items)
      up(i) == (i % n) + 1
      moved(b) == [b EXCEPT !.opos = up(@)]
  IN CASE c.mode = "sequential" -> {Playing([c EXCEPT !.pos = up(@)], up(c.pos))}
       [] c.mode = "random" -> {LET j == IF n > 1 /\ c.items[i] = c.current THEN up(i) ELSE i
                                IN Playing([c EXCEPT !.pos = j], j) : i \in 1..n}
       [] OTHER -> UNION {{Playing(r, r.order[r.opos]) :
                             r \in IF moved(b).opos = 1 THEN Built(moved(b)) ELSE {moved(b)}}
                          : b \in Ordered(c)}

Holds(c, item) == item \in Range(c.items)
IndexOf(s, x) == CHOOSE i \in DOMAIN s : s[i] = x

SetCurrent(c, item) ==
  LET i == IndexOf(c.items, item)
  IN {Playing([b EXCEPT !.pos = i, !.opos = IF c.mode = "shuffle" THEN IndexOf(b.order, i) ELSE @], i)
      : b \in IF c.mode = "shuffle" THEN Ordered(c) ELSE {c}}

Rebuilt(c, items, m) ==
  LET r == [c EXCEPT !.items = items, !.mode = m]
  IN IF Holds(r, c.current) THEN SetCurrent(r, c.current) ELSE First(r)

-----------------------------------------------------------------------------

PlayTypeOK ==
  /\ budget \in [Kinds -> Nat]
  /\ here \subseteq everHere /\ everHere \subseteq Displays /\ assigned \subseteq Displays
  /\ attached \in BOOLEAN /\ exists \in BOOLEAN /\ mode \in Modes
  /\ list \in Seq(Items \ gone) /\ IsInjective(list) /\ gone \subseteq Items
  /\ rots \in 0..MaxRots /\ rot \in [Displays -> 0..rots]
  /\ \A d, e \in Owned : rot[d] = rot[e] => d = e
  /\ DOMAIN cursor = 1..rots
  /\ ticking \in [Displays -> Items \cup {NoItem}]
  /\ \A d \in Displays : ticking[d] # NoItem => d \in Owned
  /\ DOMAIN job = Actors
  /\ feed \in Seq({"upsert", "removed"} \X Displays)
  /\ shown \in [Displays -> Items \cup {NoItem}]
  /\ qmode \in Modes /\ round \in Seq(Items) /\ qpos \in Nat /\ last \in Items \cup {NoItem}
  /\ DOMAIN stepper = QueueUsers
  /\ crossed \subseteq Displays /\ refused \subseteq Displays /\ stale \subseteq Displays
  /\ edits \in Nat

PlayInit ==
  /\ budget \in Scenarios
  /\ here = (CASE budget["alone"] > 0 -> {CHOOSE d \in Displays : TRUE}
               [] budget["alone"] = 0 /\ budget["come"] > 0 -> {}
               [] OTHER -> Displays)
  /\ everHere = here
  /\ assigned \in SUBSET (Displays \ here) /\ attached \in {FALSE, budget["auto"] > 0}
  /\ exists = TRUE /\ list \in Lists \ {<<>>}
  /\ mode \in (IF budget["plain"] > 0 THEN {"sequential"} ELSE Modes)
  /\ gone = {}
  /\ rot = [d \in Displays |-> 0] /\ cursor = <<>> /\ rots = 0
  /\ ticking = [d \in Displays |-> NoItem]
  /\ job = [p \in Actors |-> NoJob] /\ feed = <<>>
  /\ shown = [d \in Displays |-> NoItem]
  /\ qmode \in IF Stepped THEN Modes ELSE {"sequential"}
  /\ round = <<>> /\ qpos = 0 /\ last = NoItem
  /\ stepper = [s \in QueueUsers |-> NoStep]
  /\ crossed = {} /\ refused = {} /\ edits = 0 /\ stale = {}

-----------------------------------------------------------------------------
(* Displays.                                                               *)

OnlyDisplays == UNCHANGED <<wantVars, listVars, engineVars, job, showVars, queueVars, history>>

\* A display that comes back has another id.
Come(d) ==
  /\ Happens("come") /\ d \notin everHere
  /\ here' = here \cup {d} /\ everHere' = everHere \cup {d} /\ feed' = Append(feed, <<"upsert", d>>)
  /\ OnlyDisplays

Touch(d) ==
  /\ Happens("touch") /\ d \in here
  /\ feed' = Append(feed, <<"upsert", d>>) /\ UNCHANGED <<here, everHere>>
  /\ OnlyDisplays

Leave(d) ==
  /\ Happens("go") /\ d \in here
  /\ here' = here \ {d} /\ feed' = Append(feed, <<"removed", d>>) /\ UNCHANGED everHere
  /\ OnlyDisplays

-----------------------------------------------------------------------------
(* The database.                                                           *)

\* A wallpaper is deleted: playlist_item cascades.
Sweep(i) ==
  /\ Happens("sweep") /\ i \in Items \ gone
  /\ gone' = gone \cup {i}
  /\ list' = IF i \in Range(list) THEN RemoveAt(list, CHOOSE k \in DOMAIN list : list[k] = i) ELSE list
  /\ UNCHANGED <<displayVars, wantVars, exists, mode, engineVars, job, showVars, queueVars, history>>

-----------------------------------------------------------------------------
(* Requests about the playlist.  A request on displays goes through them   *)
(* one by one.                                                             *)

Request(p, new) ==
  /\ p \in Clients /\ job[p].at = "idle" /\ Happens("request")
  /\ budget["overlap"] > 0 \/ p = CHOOSE c \in Clients : TRUE
  /\ job' = [job EXCEPT ![p] = new]
  /\ UNCHANGED <<displayVars, wantVars, engineVars, showVars, queueVars, crossed, refused, stale>>

Bound == {<<d, rot[d]>> : d \in Owned}
Unedited == UNCHANGED <<listVars, edits>>
Edited == edits' = edits + 1

\* Of some displays, or of all there are when it gets that far; with `auto'
\* also of those still to come.
Activate(p, ds, auto) ==
  Request(p, [NoJob EXCEPT !.do = "activate", !.at = "read", !.todo = ds, !.auto = auto]) /\ Unedited

Deactivate(p, ds, auto) ==
  /\ Request(p, [NoJob EXCEPT !.do = "deactivate", !.at = "displays", !.auto = auto,
                              !.todo = IF ds = {} THEN Owned ELSE ds])
  /\ Unedited

\* WallpaperApply stops the playlists of its displays first.
ManualApply(p, ds, item) ==
  /\ Request(p, [NoJob EXCEPT !.do = "manual", !.at = "displays", !.item = item, !.bound = ds,
                              !.todo = IF ds = {} THEN Owned ELSE ds])
  /\ Unedited

Delete(p) ==
  /\ Request(p, [NoJob EXCEPT !.do = "delete", !.at = "displays", !.todo = Owned, !.bound = Bound])
  /\ Unedited

Rebuild == [NoJob EXCEPT !.do = "rebuild", !.at = "collect"]

\* Only of wallpapers that the database has.
SetItems(p, new) ==
  /\ exists /\ new # list /\ Range(new) \cap gone = {}
  /\ Request(p, Rebuild)
  /\ list' = new /\ Edited /\ UNCHANGED <<exists, mode, gone>>

SetMode(p, m) ==
  /\ exists /\ m # mode
  /\ Request(p, Rebuild)
  /\ mode' = m /\ Edited /\ UNCHANGED <<exists, list, gone>>

JumpTo(p, item) ==
  Request(p, [NoJob EXCEPT !.do = "jump", !.at = "collect", !.item = item]) /\ Unedited

-----------------------------------------------------------------------------
(* The steps of a request, each up to the next lock or await.              *)

\* Is p between taking the rotation of d away and remembering what it plays?
IsOn(p, d) == job[p].at \in {"apply", "insert", "persist"} /\ job[p].on = d
JobGoes(p, j) == job' = [job EXCEPT ![p] = j]

\* rebuild_for_playlist and jump_to take the cursors there are.
Collect(p) ==
  /\ job[p].at = "collect" /\ Idle
  /\ JobGoes(p, IF Bound = {} THEN NoJob
                ELSE [job[p] EXCEPT !.bound = Bound,
                                    !.at = IF job[p].do = "jump" THEN "cursors" ELSE "read"])
  /\ UNCHANGED <<displayVars, wantVars, listVars, engineVars, showVars, queueVars, history>>

\* The watcher logs that a playlist could not be resumed, and goes on.
GivesUp(p) == refused' = IF job[p].do = "resume" THEN refused \cup job[p].todo ELSE refused

ReadPlaylist(p) ==
  /\ job[p].at = "read" /\ Idle
  /\ IF exists
     THEN /\ JobGoes(p, [job[p] EXCEPT !.mode = mode, !.saw = edits, !.at = "resolve"])
          /\ UNCHANGED refused
     ELSE JobGoes(p, NoJob) /\ GivesUp(p)
  /\ UNCHANGED <<displayVars, wantVars, listVars, engineVars, showVars, queueVars,
                 crossed, edits, stale>>

ResolveItems(p) ==
  /\ job[p].at = "resolve" /\ list # <<>> /\ Idle
  /\ JobGoes(p, IF job[p].do = "rebuild" THEN [job[p] EXCEPT !.items = list, !.at = "cursors"]
                ELSE [job[p] EXCEPT !.items = list, !.at = "displays",
                                    !.todo = IF @ = {} THEN here ELSE @])
  /\ UNCHANGED <<displayVars, wantVars, listVars, engineVars, showVars, queueVars, history>>

\* An empty list stops a playlist that plays, and is an error for one that does not.
ResolveNothing(p) ==
  /\ job[p].at = "resolve" /\ list = <<>> /\ Idle
  /\ JobGoes(p, IF job[p].do = "rebuild"
                THEN [NoJob EXCEPT !.do = "deactivate", !.at = "displays",
                                   !.todo = {b[1] : b \in job[p].bound}]
                ELSE NoJob)
  /\ GivesUp(p)
  /\ UNCHANGED <<displayVars, wantVars, listVars, engineVars, showVars, queueVars,
                 crossed, edits, stale>>

\* The rotation is dropped and its task aborted, whatever it was doing.
Detach(p, d) ==
  /\ job[p].at = "displays" /\ d \in job[p].todo /\ Idle
  /\ rot' = [rot EXCEPT ![d] = 0] /\ ticking' = [ticking EXCEPT ![d] = NoItem]
  /\ JobGoes(p, [job[p] EXCEPT !.todo = @ \ {d}, !.on = d,
                               !.at = IF job[p].do \in {"activate", "resume"} THEN "apply" ELSE "persist"])
  /\ crossed' = IF \E q \in Actors \ {p} : IsOn(q, d) THEN crossed \cup {d} ELSE crossed \ {d}
  /\ refused' = refused \ {d}
  /\ UNCHANGED <<displayVars, wantVars, listVars, cursor, rots, showVars, queueVars, edits, stale>>

\* The first item, or after a start the one the display had.
ApplyFirst(p) ==
  /\ job[p].at = "apply" /\ Idle
  /\ \E c \in New(job[p].items, job[p].mode) :
     \E f \in First(c) \cup IF job[p].do = "resume" /\ c.mode # "random"
                            THEN UNION {SetCurrent(c, i) : i \in Range(c.items)} ELSE {} :
       /\ Shows({job[p].on}, f.current)
       /\ JobGoes(p, [job[p] EXCEPT !.cursor = f, !.at = "insert"])
  /\ UNCHANGED <<displayVars, wantVars, listVars, engineVars, queueVars, history>>

\* What p has read is the playlist of now, or of before an edit.
FollowsEdits(p, d) == stale' = IF job[p].saw = edits THEN stale \ {d} ELSE stale \cup {d}

Insert(p) ==
  /\ job[p].at = "insert" /\ rots < MaxRots /\ Idle
  /\ rots' = rots + 1
  /\ cursor' = Append(cursor, job[p].cursor)
  /\ rot' = [rot EXCEPT ![job[p].on] = rots + 1]
  /\ ticking' = [ticking EXCEPT ![job[p].on] = NoItem]
  /\ JobGoes(p, [job[p] EXCEPT !.cursor = <<>>, !.at = "persist"])
  /\ FollowsEdits(p, job[p].on)
  /\ UNCHANGED <<displayVars, wantVars, listVars, showVars, queueVars, crossed, refused, edits>>

PersistActivations(p) ==
  LET d == job[p].on
  IN /\ job[p].at = "persist" /\ Idle
     /\ assigned' = IF d \in here /\ job[p].do \in {"activate", "resume"} THEN assigned \cup {d}
                    ELSE assigned
     /\ JobGoes(p, [job[p] EXCEPT !.at = "displays"])
     /\ UNCHANGED <<displayVars, attached, listVars, engineVars, showVars, queueVars, history>>

\* The settings of a display can only be found while it is there.
Persist(p) ==
  LET d == job[p].on
  IN /\ job[p].at = "persist" /\ Idle
     /\ assigned' = IF d \notin here THEN assigned
                    ELSE IF job[p].do \in {"activate", "resume"} THEN assigned \cup {d}
                    ELSE assigned \ {d}
     /\ JobGoes(p, [job[p] EXCEPT !.at = "displays"])
     /\ UNCHANGED <<displayVars, attached, listVars, engineVars, showVars, queueVars, history>>

\* After the last display: the playlist is set or cleared for all the others,
\* or the wallpaper applied.
Finish(p) ==
  /\ job[p].at = "displays" /\ job[p].todo = {} /\ job[p].do # "delete" /\ Idle
  /\ attached' = IF job[p].auto THEN job[p].do = "activate" ELSE attached
  /\ IF job[p].do = "manual"
     THEN Shows(IF job[p].bound = {} THEN Displays ELSE job[p].bound, job[p].item)
     ELSE UNCHANGED showVars
  /\ JobGoes(p, NoJob)
  /\ UNCHANGED <<displayVars, assigned, listVars, engineVars, queueVars, history>>

\* ... or the row deleted, whoever has begun to play it meanwhile.
FinishDelete(p) ==
  /\ job[p].at = "displays" /\ job[p].todo = {} /\ job[p].do = "delete" /\ Idle
  /\ exists' = FALSE /\ list' = <<>> /\ Edited
  /\ stale' = stale \cup {d \in Owned : <<d, rot[d]>> \notin job[p].bound}
  /\ JobGoes(p, NoJob)
  /\ UNCHANGED <<displayVars, wantVars, mode, gone, engineVars, showVars, queueVars, crossed, refused>>

RebuildOneWhenGone(p, b) ==
  /\ job[p].at = "cursors" /\ job[p].do = "rebuild" /\ b \in job[p].bound /\ Idle
  /\ IF cursor[b[2]].current \in Range(job[p].items)
     THEN JobGoes(p, [job[p] EXCEPT !.bound = @ \ {b}]) /\ UNCHANGED cursor
     ELSE \E c \in Rebuilt(cursor[b[2]], job[p].items, job[p].mode) :
            /\ cursor' = [cursor EXCEPT ![b[2]] = c]
            /\ JobGoes(p, [job[p] EXCEPT !.bound = @ \ {b}, !.on = b[1], !.item = c.current,
                                    !.at = "show"])
  /\ IF rot[b[1]] = b[2] THEN FollowsEdits(p, b[1]) ELSE UNCHANGED stale
  /\ UNCHANGED <<displayVars, wantVars, listVars, rot, rots, ticking, showVars, queueVars,
                 crossed, refused, edits>>

\* One cursor of a rebuild: only a new current item is applied.
RebuildOne(p, b) ==
  /\ job[p].at = "cursors" /\ job[p].do = "rebuild" /\ b \in job[p].bound /\ Idle
  /\ \E c \in Rebuilt(cursor[b[2]], job[p].items, job[p].mode) :
       /\ cursor' = [cursor EXCEPT ![b[2]] = c]
       /\ JobGoes(p, [job[p] EXCEPT !.bound = @ \ {b}, !.on = b[1], !.item = c.current,
                       !.at = IF Holds(c, cursor[b[2]].current) THEN "cursors" ELSE "show"])
  /\ IF rot[b[1]] = b[2] THEN FollowsEdits(p, b[1]) ELSE UNCHANGED stale
  /\ UNCHANGED <<displayVars, wantVars, listVars, rot, rots, ticking, showVars, queueVars,
                 crossed, refused, edits>>

JumpOne(p, b) ==
  /\ job[p].at = "cursors" /\ job[p].do = "jump" /\ b \in job[p].bound /\ Idle
  /\ IF Holds(cursor[b[2]], job[p].item)
     THEN /\ \E c \in SetCurrent(cursor[b[2]], job[p].item) : cursor' = [cursor EXCEPT ![b[2]] = c]
          /\ JobGoes(p, [job[p] EXCEPT !.bound = @ \ {b}, !.on = b[1], !.at = "show"])
     ELSE JobGoes(p, [job[p] EXCEPT !.bound = @ \ {b}]) /\ UNCHANGED cursor
  /\ UNCHANGED <<displayVars, wantVars, listVars, rot, rots, ticking, showVars, queueVars, history>>

\* A jump ends with the first apply that fails.
ShowOne(p) ==
  /\ job[p].at = "show" /\ Idle
  /\ Shows({job[p].on}, job[p].item)
  /\ JobGoes(p, IF job[p].do = "jump" /\ job[p].item \in gone THEN NoJob
                ELSE [job[p] EXCEPT !.at = "cursors"])
  /\ UNCHANGED <<displayVars, wantVars, listVars, engineVars, queueVars, history>>

CursorsDone(p) ==
  /\ job[p].at = "cursors" /\ job[p].bound = {} /\ Idle
  /\ JobGoes(p, NoJob)
  /\ UNCHANGED <<displayVars, wantVars, listVars, engineVars, showVars, queueVars, history>>

\* The watcher drops the rotation of a display that left, and starts that of
\* one that has none and should (resolve_pid): by its own settings, or else by
\* those of all.
HotplugReceives ==
  /\ job[Watcher].at = "idle" /\ feed # <<>> /\ Idle
  /\ LET kind == Head(feed)[1]
         d == Head(feed)[2]
     IN /\ rot' = IF kind = "removed" THEN [rot EXCEPT ![d] = 0] ELSE rot
        /\ ticking' = IF kind = "removed" THEN [ticking EXCEPT ![d] = NoItem] ELSE ticking
        /\ JobGoes(Watcher, IF kind = "upsert" /\ d \notin Owned /\ (d \in assigned \/ attached)
                            THEN [NoJob EXCEPT !.do = "resume", !.at = "read", !.todo = {d}]
                            ELSE NoJob)
  /\ feed' = Tail(feed)
  /\ UNCHANGED <<here, everHere, wantVars, listVars, cursor, rots, showVars, queueVars, history>>

-----------------------------------------------------------------------------
(* The tasks that move on by themselves.                                   *)

\* run_display_rotator: the cursor moves, the item is applied after that.
Tick(d) ==
  /\ d \in Owned /\ ticking[d] = NoItem
  /\ IF budget["endless"] > 0 THEN Idle ELSE Happens("tick")
  /\ \E c \in Next1(cursor[rot[d]]) :
       cursor' = [cursor EXCEPT ![rot[d]] = c] /\ ticking' = [ticking EXCEPT ![d] = c.current]
  /\ UNCHANGED <<displayVars, wantVars, listVars, rot, rots, job, showVars, queueVars, history>>

TickApply(d) ==
  /\ ticking[d] # NoItem /\ Idle
  /\ Shows({d}, ticking[d]) /\ ticking' = [ticking EXCEPT ![d] = NoItem]
  /\ UNCHANGED <<displayVars, wantVars, listVars, rot, cursor, rots, job, queueVars, history>>

-----------------------------------------------------------------------------
(* The queue: control::step and, for the displays without a playlist, the  *)
(* rotator.  A step picks by the queue's mode, then applies.               *)

OnlyQueue == UNCHANGED <<displayVars, wantVars, listVars, engineVars, job, showVars, history>>
Known == SelectSeq(Queue, LAMBDA i : i \notin gone)
Candidates == Range(Known)
StepGoes(s, new) == stepper' = [stepper EXCEPT ![s] = new]
Starts(s, forward, on) ==
  /\ StepGoes(s, [at |-> qmode, forward |-> forward, on |-> on, pick |-> NoItem])
  /\ OnlyQueue /\ UNCHANGED <<qmode, round, qpos>>
Picks(s, item) == StepGoes(s, [stepper[s] EXCEPT !.at = "apply", !.pick = item])

Step(s, forward) ==
  s \in Steppers /\ stepper[s] = NoStep /\ Happens("step") /\ Starts(s, forward, Displays)

\* An interval of the rotator ends while some display has no playlist.
RotatorTick ==
  /\ stepper[Rotator] = NoStep /\ here \ Owned # {}
  /\ IF budget["endless"] > 0 THEN Idle ELSE Happens("rotate")
  /\ Starts(Rotator, TRUE, here \ Owned)

\* "queue is empty"
StepFails(s) ==
  /\ stepper[s].at \in {"random", "sequential", "fetch"} /\ Candidates = {} /\ Idle /\ OnlyQueue
  /\ StepGoes(s, NoStep) /\ UNCHANGED <<qmode, round, qpos>>

\* random_item_by_filter leaves the last one out if there is another.
StepRandom(s) ==
  /\ stepper[s].at = "random" /\ Candidates # {} /\ Idle /\ OnlyQueue
  /\ \E item \in IF Candidates \subseteq {last} THEN Candidates ELSE Candidates \ {last} :
       Picks(s, item)
  /\ UNCHANGED <<qmode, round, qpos>>

\* step_sequential: the next of the list, the first or last if the current is not in it.
StepSequential(s) ==
  /\ stepper[s].at = "sequential" /\ Idle /\ OnlyQueue
  /\ Candidates # {}
  /\ LET n == Len(Known)
         i == IndexOf(Known, last)
         forward == stepper[s].forward
     IN Picks(s, Known[IF last \notin Candidates THEN (IF forward THEN 1 ELSE n)
                       ELSE IF forward THEN (i % n) + 1 ELSE IF i = 1 THEN n ELSE i - 1])
  /\ UNCHANGED <<qmode, round, qpos>>

\* step_shuffle looks for a round, and fetches the candidates unlocked if there is none.
StepLooks(s) ==
  /\ stepper[s].at = "shuffle" /\ Idle /\ OnlyQueue
  /\ StepGoes(s, [stepper[s] EXCEPT !.at = IF round = <<>> THEN "fetch" ELSE "advance"])
  /\ UNCHANGED <<qmode, round, qpos>>

\* build_shuffle_round keeps the last one away from the place the step goes to.
Shuffled(set, avoid, t) ==
  {r \in [1..Cardinality(set) -> set] :
     IsInjective(r) /\ (Cardinality(set) > 1 => r[t] # avoid)}

StepBuild(s) ==
  /\ stepper[s].at = "fetch" /\ Candidates # {} /\ Idle /\ OnlyQueue
  /\ round' \in Shuffled(Candidates, last, 1) /\ qpos' = 1
  /\ Picks(s, round'[1]) /\ UNCHANGED qmode

\* A step over either end shuffles again; on an empty round it indexes nothing.
StepAdvance(s) ==
  /\ stepper[s].at = "advance" /\ Idle /\ OnlyQueue /\ UNCHANGED qmode
  /\ LET n == Len(round)
         forward == stepper[s].forward
         wraps == IF forward THEN qpos >= n ELSE qpos <= 1
     IN IF n = 0
        THEN StepGoes(s, [NoStep EXCEPT !.at = "panic"]) /\ UNCHANGED <<round, qpos>>
        ELSE /\ qpos' = IF wraps THEN (IF forward THEN 1 ELSE n)
                        ELSE IF forward THEN qpos + 1 ELSE qpos - 1
             /\ round' \in IF wraps THEN Shuffled(Range(round), last, qpos') ELSE {round}
             /\ Picks(s, round'[qpos'])

\* To all displays, whatever playlists they have, or to those the rotator saw without.
StepApply(s) ==
  /\ stepper[s].at = "apply" /\ Idle
  /\ Shows(stepper[s].on, stepper[s].pick) /\ StepGoes(s, NoStep)
  /\ UNCHANGED <<displayVars, wantVars, listVars, engineVars, job, qmode, round, qpos, history>>

\* set_mode, and reset_shuffle_round after a scan or a change of the filter.
ResetRound(m) ==
  /\ Happens("reset") /\ OnlyQueue
  /\ qmode' = m /\ round' = <<>> /\ qpos' = 0 /\ UNCHANGED stepper

-----------------------------------------------------------------------------

Job(p) ==
  \/ Collect(p) \/ ReadPlaylist(p) \/ ResolveItems(p) \/ ResolveNothing(p)
  \/ \E d \in Displays : Detach(p, d)
  \/ ApplyFirst(p) \/ Insert(p) \/ Persist(p) \/ Finish(p) \/ FinishDelete(p)
  \/ \E b \in job[p].bound : RebuildOne(p, b) \/ JumpOne(p, b)
  \/ ShowOne(p) \/ CursorsDone(p)

Ticks == \E d \in Displays : Tick(d) \/ TickApply(d)

Internal ==
  \/ \E p \in Actors : Job(p)
  \/ HotplugReceives
  \/ \E s \in QueueUsers :
       StepFails(s) \/ StepRandom(s) \/ StepSequential(s) \/ StepLooks(s) \/ StepBuild(s) \/ StepAdvance(s)
       \/ StepApply(s)

Environment ==
  \/ \E d \in Displays : Come(d) \/ Touch(d) \/ Leave(d)
  \/ \E i \in Items : Sweep(i)
  \/ \E p \in Clients :
       \/ \E ds \in SUBSET here :
            \/ \E auto \in {FALSE, budget["auto"] > 0} : Activate(p, ds, auto) \/ Deactivate(p, ds, auto)
            \/ \E item \in Items : ManualApply(p, ds, item)
       \/ Delete(p) \/ \E new \in Lists : SetItems(p, new)
       \/ \E m \in Modes : SetMode(p, m)
       \/ \E item \in Items : JumpTo(p, item)
  \/ \E s \in Steppers, forward \in BOOLEAN : Step(s, forward)
  \/ \E m \in Modes : ResetRound(m)

PlayNext == Internal \/ Ticks \/ RotatorTick \/ Environment

PlaySpec == PlayInit /\ [][PlayNext]_playVars

\* Requests go on, and the interval of a rotation ends again and again.
Fairness ==
  /\ WF_playVars(Internal) /\ WF_playVars(RotatorTick)
  /\ \A d \in Displays : WF_playVars(Tick(d)) /\ WF_playVars(TickApply(d))

FairPlaySpec == PlaySpec /\ Fairness

-----------------------------------------------------------------------------
(* What playlists and the queue promise.                                   *)

Quiet == feed = <<>> /\ \A p \in Actors : job[p] = NoJob

(* When no request is under way, a display that is there plays what its    *)
(* own settings will restore (engine.rs persist_assignment), so that a     *)
(* restart changes nothing for it, unless two requests for it crossed or   *)
(* the playlist could not be played when it was resumed.  One that plays   *)
(* nothing may still be given a playlist by auto_attach_playlist_id at its *)
(* next event.                                                             *)
SettingsFollowEngine ==
  Quiet => \A d \in here \ crossed :
             /\ d \in Owned => d \in assigned
             /\ d \in assigned => d \in Owned \/ d \in refused

\* Does a list have both, x not behind y?
Before(s, x, y) == \E i, j \in DOMAIN s : i <= j /\ s[i] = x /\ s[j] = y

\* Are these the wallpapers of the playlist in its order, once those that the
\* database has lost are skipped?
AsListed(items) == \A x, y \in Items \ gone : Before(items, x, y) <=> Before(list, x, y)

(* ... and it plays the playlist that the last edit left, in its order and *)
(* mode (engine.rs rebuild_for_playlist), but for wallpapers that left the *)
(* database since; unless what the rotation was made or rebuilt from was   *)
(* read before that edit.                                                  *)
PlaysTheList ==
  Quiet => \A d \in Owned \ stale :
             exists /\ AsListed(cursor[rot[d]].items) /\ cursor[rot[d]].mode = mode

\* Every item of a sequential or shuffled playlist is played again and again
\* (cursor.rs, the test shuffle_covers_all_before_repeat).
EveryItemPlays ==
  \A d \in Displays, i \in Items :
    []<>(d \in Owned /\ cursor[rot[d]].mode # "random" /\ i \in Range(cursor[rot[d]].items)
         /\ budget["endless"] > 0 => cursor[rot[d]].current = i)

\* "Empty means no round; it is rebuilt lazily." (state.rs:43)
EmptyRoundIsRebuilt == \A s \in Steppers : stepper[s].at # "panic"
=============================================================================
