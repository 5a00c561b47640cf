---------------------------- MODULE FramesProofs ----------------------------
(***************************************************************************)
(* What the path of the frames guarantees for any number of displays,      *)
(* slots, pools and frames.                                                *)
(*                                                                         *)
(* NoTearing is not inductive.  A slot is reused when the timeline has     *)
(* reached its frame, and the timeline moves for the frame's own record or *)
(* for any later one.  So the invariant follows the frames of the current  *)
(* pool: whoever holds one and stays linked is sent every later one too    *)
(* (BoundToPool, AllCarry), a bucket that is full has a handle of everyone *)
(* who was sent the frame (NotTooMany), and a display that is done with a  *)
(* frame is done with the earlier ones (OldestFirst).                      *)
(*                                                                         *)
(* FramesAreConfigured needs the other end of the path: a frame lies on    *)
(* the wire between the bind of its pool and the next one, the fences are  *)
(* of one pool, and every frame in a display's queue has, or will have     *)
(* when it is sent, a config and a bind before it (Presented).             *)
(***************************************************************************)
EXTENDS Frames, FiniteSetTheorems, SequenceTheorems, TLAPS

Item == [op : {"bind", "frame", "config", "unbind"}, gen : Nat, point : Nat, expected : Nat]
Rec == [point : Nat, handle : SUBSET Displays, expected : Nat]

RangeOf(q) == {q[i] : i \in DOMAIN q}
FramesOf(q) == {f \in RangeOf(q) : f.op = "frame"}
PointsOf(q) == {f.point : f \in FramesOf(q)}

\* Frames are queued in the order they were made.
Increasing(q) ==
  \A i, j \in DOMAIN q :
    i < j /\ q[i].op = "frame" /\ q[j].op = "frame" => q[i].point < q[j].point

Types ==
  /\ budget \in [Kinds -> Nat]
  /\ made \in Seq([pool : Nat, slot : Slots]) /\ pool \in Nat /\ next \in Slots
  /\ filled \in [Slots -> Nat] /\ timeline \in Nat
  /\ wire \in Seq(Item) /\ events \in Seq(Item)
  /\ snapshot \in Nat /\ latest \in [gen : Nat, point : Nat] /\ rebinding \in BOOLEAN
  /\ link \subseteq here /\ here \subseteq Displays /\ bound \in [Displays -> Nat]
  /\ syncing \subseteq Displays /\ relinked \subseteq Displays
  /\ out \in [Displays -> Seq(Item)]
  /\ sampling \in [Displays -> SUBSET Nat]
  /\ sending \in [Displays -> SUBSET Rec]
  /\ alive \subseteq Displays /\ dead \subseteq Displays
  /\ records \in Seq(Rec)
  /\ DOMAIN buckets \subseteq Nat
  /\ \A p \in DOMAIN buckets : buckets[p] \in [handles : SUBSET Displays, expected : Nat]
  /\ flushing \subseteq [point : Nat, handles : SUBSET Displays]
  /\ forced \subseteq Nat

\* An endpoint has one frame to record, the reaper one bucket to flush.
OneAtATime ==
  /\ \A d \in Displays : \A r \in sending[d] : r.handle = {d} /\ sending[d] = {r}
  /\ \A b \in flushing : flushing = {b}

\* Every frame anywhere was made.
PointsKnown ==
  /\ PointsOf(wire) \cup PointsOf(events) \subseteq DOMAIN made
  /\ latest.point \in {None} \cup DOMAIN made
  /\ \A d \in Displays : PointsOf(out[d]) \cup sampling[d] \subseteq DOMAIN made

PoolsGrow == \A p \in DOMAIN made : made[p].pool <= pool

\* The reader thread's snapshot is the pool the renderer has, or there are
\* binds on the wire; no frame overtakes the bind of its pool.
Announced(q, p, i) == \E j \in DOMAIN q : j < i /\ q[j].op = "bind" /\ q[j].gen = p
BindsInOrder(q, from, to) ==
  /\ from = to \/ Announced(q, to, Len(q) + 1)
  /\ from <= to
  /\ \A i \in DOMAIN q : q[i].op = "bind" => from <= q[i].gen /\ q[i].gen <= to
  /\ \A i, j \in DOMAIN q :
       i < j /\ q[i].op = "bind" /\ q[j].op = "bind" => q[i].gen <= q[j].gen
BindsGoFirst(q, from, frames) ==
  \A i \in DOMAIN q : q[i].op = "frame" =>
    frames[q[i].point].pool <= from \/ Announced(q, frames[q[i].point].pool, i)
SnapshotInOrder ==
  /\ BindsInOrder(wire, snapshot, pool)
  /\ BindsGoFirst(wire, snapshot, made)
  /\ rebinding => wire # <<>> /\ Head(wire).op = "bind" /\ snapshot = Head(wire).gen

\* What has left the wire is of a pool the reader thread knows of.
PoolsKnown ==
  /\ \A p \in PointsOf(events) : made[p].pool <= snapshot
  /\ latest.point # None => made[latest.point].pool <= snapshot
  /\ \A d \in Displays : \A p \in PointsOf(out[d]) \cup sampling[d] : made[p].pool <= snapshot

\* A display that has not come yet has nothing.
Fresh ==
  /\ here \subseteq alive \cup dead
  /\ \A d \in Displays : d \notin alive \cup dead => out[d] = <<>> /\ sampling[d] = {}

Base == Types /\ OneAtATime /\ PointsKnown /\ PoolsGrow /\ SnapshotInOrder /\ PoolsKnown /\ Fresh

-----------------------------------------------------------------------------
(* The frames of the current pool.                                         *)

Live == link \cap alive
Coming == PointsOf(events) \cup PointsOf(wire)
Held(d) == PointsOf(out[d]) \cup sampling[d]
Current(p) == made[p].pool = pool
Holds(d) == {p \in Held(d) : Current(p)}
Excused(p) == \E q \in forced : q >= p

\* The display's handle for the frame is on its way to the reaper or there.
HasForwarded(d, t) ==
  \/ \E r \in sending[d] : r.point = t
  \/ \E r \in RangeOf(records) : r.point = t /\ d \in r.handle
  \/ t \in DOMAIN buckets /\ d \in buckets[t].handles
  \/ \E b \in flushing : b.point = t /\ d \in b.handles
Carries(d, t) == t \in PointsOf(out[d]) \/ HasForwarded(d, t)
Carriers(t) == {d \in Displays : Carries(d, t)}

\* The number of handles a frame's bucket is told to wait for.
Promised(t, x) ==
  \/ \E d \in Displays : \E f \in FramesOf(out[d]) : f.point = t /\ f.expected = x
  \/ \E d \in Displays : \E r \in sending[d] : r.point = t /\ r.expected = x
  \/ \E r \in RangeOf(records) : r.handle # Nobody /\ r.point = t /\ r.expected = x
  \/ t \in DOMAIN buckets /\ buckets[t].expected = x

Handled(p) ==
  \/ p = timeline
  \/ \E d \in Displays : p \in Held(d) \/ HasForwarded(d, p)
  \/ \E r \in RangeOf(records) : r.point = p
  \/ p \in DOMAIN buckets
  \/ \E b \in flushing : b.point = p

InOrder ==
  /\ \A p : Handled(p) => p \in 0..Len(made) /\ \A q \in Coming : p < q
  /\ \A p \in PointsOf(events), q \in PointsOf(wire) : p < q
  /\ Increasing(events) /\ Increasing(wire)
QueuesInOrder ==
  \A d \in Displays :
    Increasing(out[d]) /\ \A p \in sampling[d], q \in PointsOf(out[d]) : p < q

BoundToPool == \A d \in link : Holds(d) # {} => bound[d] = pool
SlotsWait == \A p \in Coming : Current(p) => filled[made[p].slot] = p
SlotsKept == \A d \in Live : \A p \in Holds(d) : filled[made[p].slot] = p \/ Excused(p)
NotReleased == \A d \in Live : \A p \in Holds(d) : p > timeline \/ Excused(p)
NobodyElse ==
  \A r \in RangeOf(records) : r.handle = Nobody =>
    \A d \in Live : \A p \in Holds(d) : p > r.point
NotTooMany == \A t, x : Promised(t, x) => Cardinality(Carriers(t)) <= x
AllCarry ==
  \A t : Carriers(t) # {} =>
    \A d \in Live : \A p \in Holds(d) : p <= t => Carries(d, t) \/ Excused(p)
Complete(b) ==
  b.point \in forced \/
    \A d \in Live : \A p \in Holds(d) : p <= b.point => d \in b.handles \/ Excused(p)
FlushComplete == \A b \in flushing : Complete(b)
OldestFirst ==
  \A d \in Displays : \A t : HasForwarded(d, t) =>
    /\ \A p \in PointsOf(out[d]) : p > t
    /\ \A p \in sampling[d] : p <= t => t \in sampling[d]

SlotFlow == BoundToPool /\ SlotsWait /\ SlotsKept /\ NotReleased
ReaperFlow == NobodyElse /\ NotTooMany /\ AllCarry /\ FlushComplete
Flow == InOrder /\ QueuesInOrder /\ SlotFlow /\ ReaperFlow /\ OldestFirst

\* An image is rendered once to each pool.
StillOnce == Still => \A p \in DOMAIN made : Current(p) => filled[made[p].slot] = p

FramesInv == Base /\ StillOnce /\ (~Still => Flow)

-----------------------------------------------------------------------------
(* Sequences and the frames in them.                                       *)

LEMMA AppendedFrame ==
  ASSUME NEW q \in Seq(Item), NEW x \in Item
  PROVE  /\ Append(q, x) \in Seq(Item)
         /\ RangeOf(Append(q, x)) = RangeOf(q) \cup {x}
         /\ FramesOf(Append(q, x)) = FramesOf(q) \cup (IF x.op = "frame" THEN {x} ELSE {})
         /\ PointsOf(Append(q, x))
              = PointsOf(q) \cup (IF x.op = "frame" THEN {x.point} ELSE {})
<1>1. Append(q, x) \in Seq(Item)
  OBVIOUS
<1>2. RangeOf(Append(q, x)) = RangeOf(q) \cup {x}
  <2>1. RangeOf(Append(q, x)) \subseteq RangeOf(q) \cup {x}
    BY DEF RangeOf
  <2>2. RangeOf(q) \subseteq RangeOf(Append(q, x))
    <3> SUFFICES ASSUME NEW i \in DOMAIN q PROVE q[i] \in RangeOf(Append(q, x))
      BY DEF RangeOf
    <3>1. i \in DOMAIN Append(q, x) /\ Append(q, x)[i] = q[i]
      OBVIOUS
    <3> QED BY <3>1 DEF RangeOf
  <2>3. x \in RangeOf(Append(q, x))
    <3>1. Len(q) + 1 \in DOMAIN Append(q, x) /\ Append(q, x)[Len(q) + 1] = x
      OBVIOUS
    <3> QED BY <3>1 DEF RangeOf
  <2> QED BY <2>1, <2>2, <2>3
<1>3. FramesOf(Append(q, x)) = FramesOf(q) \cup (IF x.op = "frame" THEN {x} ELSE {})
  BY <1>2 DEF FramesOf
<1>4. PointsOf(Append(q, x)) = PointsOf(q) \cup (IF x.op = "frame" THEN {x.point} ELSE {})
  BY <1>3 DEF PointsOf
<1> QED BY <1>1, <1>2, <1>3, <1>4

LEMMA JoinedFrames ==
  ASSUME NEW q \in Seq(Item), NEW r \in Seq(Item)
  PROVE  /\ q \o r \in Seq(Item)
         /\ FramesOf(q \o r) = FramesOf(q) \cup FramesOf(r)
         /\ PointsOf(q \o r) = PointsOf(q) \cup PointsOf(r)
<1>1. q \o r \in Seq(Item)
  OBVIOUS
<1>2. RangeOf(q \o r) = RangeOf(q) \cup RangeOf(r)
  <2>1. RangeOf(q \o r) \subseteq RangeOf(q) \cup RangeOf(r)
    BY DEF RangeOf
  <2>2. ASSUME NEW i \in DOMAIN q PROVE q[i] \in RangeOf(q \o r)
    <3>1. i \in DOMAIN (q \o r) /\ (q \o r)[i] = q[i]
      OBVIOUS
    <3> QED BY <3>1 DEF RangeOf
  <2>3. ASSUME NEW i \in DOMAIN r PROVE r[i] \in RangeOf(q \o r)
    <3>1. Len(q) + i \in DOMAIN (q \o r) /\ (q \o r)[Len(q) + i] = r[i]
      OBVIOUS
    <3> QED BY <3>1 DEF RangeOf
  <2> QED BY <2>1, <2>2, <2>3 DEF RangeOf
<1>3. FramesOf(q \o r) = FramesOf(q) \cup FramesOf(r)
  BY <1>2 DEF FramesOf
<1>4. PointsOf(q \o r) = PointsOf(q) \cup PointsOf(r)
  BY <1>3 DEF PointsOf
<1> QED BY <1>1, <1>3, <1>4

LEMMA HeadAndTail ==
  ASSUME NEW S, NEW q \in Seq(S), q # <<>>
  PROVE  /\ Head(q) \in S /\ Tail(q) \in Seq(S)
         /\ RangeOf(q) = {Head(q)} \cup RangeOf(Tail(q))
<1>1. Head(q) \in S /\ Tail(q) \in Seq(S)
  OBVIOUS
<1>2. RangeOf(q) \subseteq {Head(q)} \cup RangeOf(Tail(q))
  <2> SUFFICES ASSUME NEW i \in DOMAIN q, i # 1 PROVE q[i] \in RangeOf(Tail(q))
    BY DEF RangeOf
  <2>1. i - 1 \in DOMAIN Tail(q) /\ Tail(q)[i - 1] = q[i]
    OBVIOUS
  <2> QED BY <2>1 DEF RangeOf
<1>3. RangeOf(Tail(q)) \subseteq RangeOf(q)
  <2> SUFFICES ASSUME NEW i \in DOMAIN Tail(q) PROVE Tail(q)[i] \in RangeOf(q)
    BY DEF RangeOf
  <2>1. i + 1 \in DOMAIN q /\ Tail(q)[i] = q[i + 1]
    OBVIOUS
  <2> QED BY <2>1 DEF RangeOf
<1>4. Head(q) \in RangeOf(q)
  <2>1. 1 \in DOMAIN q /\ q[1] = Head(q)
    OBVIOUS
  <2> QED BY <2>1 DEF RangeOf
<1> QED BY <1>1, <1>2, <1>3, <1>4

LEMMA TakenFrame ==
  ASSUME NEW q \in Seq(Item), q # <<>>
  PROVE  /\ Head(q) \in Item /\ Tail(q) \in Seq(Item)
         /\ FramesOf(q) = FramesOf(Tail(q)) \cup (IF Head(q).op = "frame" THEN {Head(q)} ELSE {})
         /\ PointsOf(q)
              = PointsOf(Tail(q)) \cup (IF Head(q).op = "frame" THEN {Head(q).point} ELSE {})
<1>1. /\ Head(q) \in Item /\ Tail(q) \in Seq(Item)
      /\ RangeOf(q) = {Head(q)} \cup RangeOf(Tail(q))
  BY HeadAndTail
<1>2. FramesOf(q) = FramesOf(Tail(q)) \cup (IF Head(q).op = "frame" THEN {Head(q)} ELSE {})
  BY <1>1 DEF FramesOf
<1>3. PointsOf(q)
        = PointsOf(Tail(q)) \cup (IF Head(q).op = "frame" THEN {Head(q).point} ELSE {})
  BY <1>2 DEF PointsOf
<1> QED BY <1>1, <1>2, <1>3

LEMMA EmptyQueue == FramesOf(<<>>) = {} /\ PointsOf(<<>>) = {} /\ Increasing(<<>>)
  BY DEF FramesOf, PointsOf, RangeOf, Increasing

LEMMA PointIn ==
  ASSUME NEW q \in Seq(Item), NEW i \in DOMAIN q, q[i].op = "frame"
  PROVE  q[i].point \in PointsOf(q)
<1>1. q[i] \in FramesOf(q)
  BY DEF FramesOf, RangeOf
<1> QED BY <1>1 DEF PointsOf

LEMMA AppendIncreasing ==
  ASSUME NEW q \in Seq(Item), NEW x \in Item, Increasing(q),
         x.op = "frame" => \A p \in PointsOf(q) : p < x.point
  PROVE  Increasing(Append(q, x))
<1> SUFFICES ASSUME NEW i \in DOMAIN Append(q, x), NEW j \in DOMAIN Append(q, x), i < j,
                    Append(q, x)[i].op = "frame", Append(q, x)[j].op = "frame"
             PROVE  Append(q, x)[i].point < Append(q, x)[j].point
  BY DEF Increasing
<1>1. i \in DOMAIN q /\ Append(q, x)[i] = q[i]
  OBVIOUS
<1>2. CASE j \in DOMAIN q
  BY <1>1, <1>2 DEF Increasing
<1>3. CASE j \notin DOMAIN q
  <2>1. Append(q, x)[j] = x
    BY <1>3
  <2> QED BY <1>1, <2>1, PointIn
<1> QED BY <1>2, <1>3

LEMMA TailIncreasing ==
  ASSUME NEW q \in Seq(Item), q # <<>>, Increasing(q)
  PROVE  /\ Increasing(Tail(q))
         /\ Head(q).op = "frame" => \A p \in PointsOf(Tail(q)) : Head(q).point < p
<1>1. \A i \in DOMAIN Tail(q) : i + 1 \in DOMAIN q /\ Tail(q)[i] = q[i + 1] /\ i \in Nat
  OBVIOUS
<1>2. Increasing(Tail(q))
  BY <1>1 DEF Increasing
<1>3. ASSUME Head(q).op = "frame", NEW p \in PointsOf(Tail(q)) PROVE Head(q).point < p
  <2>1. PICK i \in DOMAIN Tail(q) : Tail(q)[i].op = "frame" /\ Tail(q)[i].point = p
    BY DEF PointsOf, FramesOf, RangeOf
  <2>2. 1 \in DOMAIN q /\ Head(q) = q[1] /\ 1 < i + 1
    BY <2>1
  <2> QED BY <1>1, <1>3, <2>1, <2>2 DEF Increasing
<1> QED BY <1>2, <1>3

LEMMA JoinIncreasing ==
  ASSUME NEW q \in Seq(Item), NEW r \in Seq(Item), Increasing(q), FramesOf(r) = {}
  PROVE  Increasing(q \o r)
<1> SUFFICES ASSUME NEW i \in DOMAIN (q \o r), NEW j \in DOMAIN (q \o r), i < j,
                    (q \o r)[i].op = "frame", (q \o r)[j].op = "frame"
             PROVE  (q \o r)[i].point < (q \o r)[j].point
  BY DEF Increasing
<1>1. ASSUME NEW k \in DOMAIN (q \o r), (q \o r)[k].op = "frame"
      PROVE  k \in DOMAIN q /\ (q \o r)[k] = q[k]
  <2>1. CASE k \in DOMAIN q
    BY <2>1
  <2>2. CASE k \notin DOMAIN q
    <3>1. k - Len(q) \in DOMAIN r /\ (q \o r)[k] = r[k - Len(q)]
      BY <2>2
    <3>2. (q \o r)[k] \in RangeOf(r)
      BY <3>1 DEF RangeOf
    <3> QED BY <1>1, <3>2 DEF FramesOf
  <2> QED BY <2>1, <2>2
<1> QED BY <1>1 DEF Increasing

-----------------------------------------------------------------------------
(* The types, action by action.                                            *)

LEMMA ItemTypes ==
  /\ \A gen, p, x : gen \in Nat /\ p \in Nat /\ x \in Nat => Frame(gen, p, x) \in Item
  /\ \A gen \in Nat, name \in {"bind", "config", "unbind"} : Order(name, gen) \in Item
  /\ \A gen, p, x : Frame(gen, p, x).op = "frame" /\ Frame(gen, p, x).point = p
  /\ \A gen, name : Order(name, gen).op = name /\ Order(name, gen).gen = gen
  BY DEF Frame, Order, Item, None

LEMMA RecipientsFinite ==
  ASSUME NEW S \in SUBSET Displays
  PROVE  IsFiniteSet(S) /\ Cardinality(S) \in Nat
  BY FS_Subset, FS_CardinalityType, FramesAssumption

LEMMA HappensType ==
  ASSUME budget \in [Kinds -> Nat], NEW k \in Kinds, Happens(k)
  PROVE  /\ budget' \in [Kinds -> Nat] /\ (k # "image" => budget'["image"] = budget["image"])
  BY DEF Happens, Kinds

LEMMA BroadcastType ==
  ASSUME events \in Seq(Item), NEW x \in Item, Broadcast(x)
  PROVE  /\ events' \in Seq(Item)
         /\ PointsOf(events') \subseteq PointsOf(events)
              \cup (IF x.op = "frame" THEN {x.point} ELSE {})
<1>1. CASE Len(events) < EventCapacity
  BY <1>1, AppendedFrame DEF Broadcast
<1>2. CASE ~(Len(events) < EventCapacity)
  <2>1. events # <<>>
    BY <1>2, FramesAssumption
  <2>2. Tail(events) \in Seq(Item) /\ PointsOf(Tail(events)) \subseteq PointsOf(events)
    BY <2>1, TakenFrame
  <2>3. events' = Append(Tail(events), x)
    BY <1>2 DEF Broadcast
  <2>4. /\ Append(Tail(events), x) \in Seq(Item)
        /\ PointsOf(Append(Tail(events), x))
             = PointsOf(Tail(events)) \cup (IF x.op = "frame" THEN {x.point} ELSE {})
    BY <2>2, AppendedFrame
  <2> QED BY <2>2, <2>3, <2>4
<1> QED BY <1>1, <1>2

\* What sync_display queues has a frame only if an image is shown again.
LEMMA SyncQueues ==
  ASSUME snapshot \in Nat, latest \in [gen : Nat, point : Nat], bound \in [Displays -> Nat],
         NEW d \in Displays
  PROVE  /\ Retire(d) \in Seq(Item) /\ Present(d) \in Seq(Item)
         /\ Retire(d) \o Present(d) \in Seq(Item)
         /\ ~Still => FramesOf(Retire(d) \o Present(d)) = {}
         /\ PointsOf(Retire(d) \o Present(d)) \subseteq {latest.point} \ {None}
<1>1. /\ Order("bind", 0) \in Item /\ Order("config", 0) \in Item
      /\ Order("unbind", bound[d]) \in Item
      /\ Frame(latest.gen, latest.point, 1) \in Item
  BY ItemTypes
<1>2. Retire(d) \in Seq(Item) /\ FramesOf(Retire(d)) = {} /\ PointsOf(Retire(d)) = {}
  <2>1. CASE bound[d] = 0
    BY <2>1, EmptyQueue DEF Retire
  <2>2. CASE bound[d] # 0
    BY <2>2, <1>1, ItemTypes DEF Retire, FramesOf, PointsOf, RangeOf
  <2> QED BY <2>1, <2>2
<1>3. /\ Replay(d) \in Seq(Item) /\ (~Still => FramesOf(Replay(d)) = {})
      /\ PointsOf(Replay(d)) \subseteq {latest.point} \ {None}
  <2>1. CASE Replay(d) = <<>>
    BY <2>1, EmptyQueue
  <2>2. CASE Replay(d) # <<>>
    <3>1. Replay(d) = <<Frame(latest.gen, latest.point, 1)>> /\ Still /\ latest.point # None
      BY <2>2 DEF Replay
    <3> QED BY <3>1, <1>1, ItemTypes DEF FramesOf, PointsOf, RangeOf
  <2> QED BY <2>1, <2>2
<1>4. /\ Present(d) \in Seq(Item) /\ (~Still => FramesOf(Present(d)) = {})
      /\ PointsOf(Present(d)) \subseteq {latest.point} \ {None}
  <2>1. CASE Target(d) = 0
    BY <2>1, EmptyQueue DEF Present
  <2>2. CASE Target(d) # 0
    <3> DEFINE orders == <<Order("bind", 0), Order("config", 0)>>
    <3>1. orders \in Seq(Item) /\ FramesOf(orders) = {} /\ PointsOf(orders) = {}
      BY <1>1, ItemTypes DEF FramesOf, PointsOf, RangeOf
    <3> HIDE DEF orders
    <3>2. /\ orders \o Replay(d) \in Seq(Item)
          /\ FramesOf(orders \o Replay(d)) = FramesOf(orders) \cup FramesOf(Replay(d))
          /\ PointsOf(orders \o Replay(d)) = PointsOf(orders) \cup PointsOf(Replay(d))
      BY <3>1, <1>3, JoinedFrames
    <3>3. Present(d) = orders \o Replay(d)
      BY <2>2 DEF Present, orders
    <3> QED BY <3>1, <3>2, <3>3, <1>3
  <2> QED BY <2>1, <2>2
<1> QED BY <1>2, <1>4, JoinedFrames

LEMMA DisconnectedTypes ==
  ASSUME Types, NEW d \in Displays, Disconnected(d)
  PROVE  /\ link' \subseteq here' /\ here' \subseteq Displays
         /\ bound' \in [Displays -> Nat] /\ out' \in [Displays -> Seq(Item)]
         /\ syncing' = syncing /\ relinked' = relinked
  BY DEF Types, Disconnected

LEMMA SignalTypes ==
  ASSUME timeline \in Nat, NEW p \in Nat, Signal(p)
  PROVE  timeline' \in Nat
  BY DEF Signal

\* Whatever kind of item it is, the endpoint takes it from its queue.
LEMMA TakeTypes ==
  ASSUME Types, NEW d \in Displays, out[d] # <<>>, out' = [out EXCEPT ![d] = Tail(@)]
  PROVE  out' \in [Displays -> Seq(Item)] /\ Head(out[d]) \in Item
  BY TakenFrame DEF Types

LEMMA RendererTypes ==
  ASSUME Types, NewPool \/ Submit
  PROVE  Types'
<1> USE DEF rendererVars, readerVars, routerVars, displayVars, reaperVars
<1>1. CASE NewPool
  <2>1. budget' \in [Kinds -> Nat]
    BY <1>1, HappensType DEF NewPool, Types, Kinds
  <2>2. wire' \in Seq(Item)
    BY <1>1, ItemTypes, AppendedFrame DEF NewPool, Types
  <2>3. 0 \in Slots
    BY FramesAssumption, FS_CardinalityType, FS_EmptySet
  <2> QED BY SMTT(30), <1>1, <2>1, <2>2, <2>3 DEF NewPool, Types, None
<1>2. CASE Submit
  <2>1. SubmitTo(next) /\ next \in Slots
    BY <1>2 DEF Submit, Types
  <2>2. budget' \in [Kinds -> Nat]
    BY <2>1, HappensType DEF SubmitTo, Types, Kinds
  <2>3. wire' \in Seq(Item)
    <3>1. Frame(pool, Len(made) + 1, 0) \in Item
      BY DEF Types, Frame, Item
    <3>2. wire' = Append(wire, Frame(pool, Len(made) + 1, 0))
      BY <2>1 DEF SubmitTo
    <3> QED BY <3>1, <3>2 DEF Types
  <2>4. next' \in Slots
    <3>1. Cardinality(Slots) \in Nat
      BY FramesAssumption, FS_CardinalityType
    <3>2. Cardinality(Slots) # 0
      BY FramesAssumption, FS_EmptySet
    <3>3. next \in Nat /\ next' = (next + 1) % Cardinality(Slots)
      BY <2>1, <3>1, FramesAssumption DEF SubmitTo
    <3> QED BY <3>1, <3>2, <3>3, FramesAssumption
  <2>5. made' \in Seq([pool : Nat, slot : Slots]) /\ filled' \in [Slots -> Nat]
    BY <2>1 DEF SubmitTo, Types
  <2> QED BY <2>1, <2>2, <2>3, <2>4, <2>5 DEF SubmitTo, Types
<1> QED BY <1>1, <1>2

LEMMA ReaderTypes ==
  ASSUME Base, ReadBind \/ ClearFences \/ ReadFrame
  PROVE  Types'
<1> USE DEF rendererVars, readerVars, routerVars, displayVars, reaperVars
<1>1. wire # <<>> /\ wire \in Seq(Item) /\ Types
  BY DEF ReadBind, ClearFences, ReadFrame, Base, Types, SnapshotInOrder
<1>2. Head(wire) \in Item /\ Tail(wire) \in Seq(Item)
  BY <1>1, TakenFrame
<1>3. CASE ReadBind
  BY <1>1, <1>2, <1>3 DEF ReadBind, Types, Item
<1>4. CASE ClearFences
  <2>1. events' \in Seq(Item)
    BY <1>1, <1>2, <1>4, BroadcastType DEF ClearFences, Types
  <2> QED BY <1>1, <1>2, <1>4, <2>1 DEF ClearFences, Types, None
<1>5. CASE ReadFrame
  <2>1. events' \in Seq(Item)
    BY <1>1, <1>2, <1>5, BroadcastType DEF ReadFrame, Types
  <2>2. latest' \in [gen : Nat, point : Nat]
    BY <1>1, <1>2, <1>5 DEF ReadFrame, Types, Item
  <2> QED BY <1>1, <1>2, <1>5, <2>1, <2>2 DEF ReadFrame, Types
<1> QED BY <1>3, <1>4, <1>5

LEMMA HandleFrameTypes ==
  ASSUME Types, HandleFrame
  PROVE  Types'
<1> USE DEF rendererVars, readerVars, routerVars, displayVars, reaperVars
<1>1. /\ Head(events) \in Item /\ events' \in Seq(Item)
      /\ Head(events).point \in Nat
  BY TakenFrame DEF HandleFrame, Types, Item
<1>2. Cardinality(Recipients) \in Nat
  BY RecipientsFinite DEF Recipients, Types
<1>3. CASE Recipients = {}
  <2>1. records' \in Seq(Rec) /\ out' = out
    <3>1. Record(Head(events).point, Nobody, 0) \in Rec
      BY <1>1 DEF Record, Rec, Nobody
    <3>2. records' = Append(records, Record(Head(events).point, Nobody, 0)) /\ out' = out
      BY <1>3 DEF HandleFrame
    <3> QED BY <3>1, <3>2 DEF Types
  <2> QED BY <1>1, <2>1 DEF HandleFrame, Types
<1>4. CASE Recipients # {}
  <2> DEFINE item == Frame(snapshot, Head(events).point, Cardinality(Recipients))
  <2>1. item \in Item
    BY <1>1, <1>2, ItemTypes DEF Types
  <2>2. records' = records
    BY <1>4 DEF HandleFrame
  <2>3. out' = [d \in Displays |-> IF d \in Recipients THEN Append(out[d], item) ELSE out[d]]
    BY <1>4 DEF HandleFrame
  <2> HIDE DEF item
  <2>4. out' \in [Displays -> Seq(Item)]
    BY <2>1, <2>3 DEF Types
  <2> QED BY <1>1, <2>2, <2>4 DEF HandleFrame, Types
<1> QED BY <1>3, <1>4

LEMMA RouterTypes ==
  ASSUME Types, HandleBind \/ SyncOne \/ \E d \in Displays : Come(d) \/ Unlink(d)
  PROVE  Types'
<1> USE DEF rendererVars, readerVars, routerVars, displayVars, reaperVars
<1>1. CASE HandleBind
  <2>1. events' \in Seq(Item)
    BY <1>1, TakenFrame DEF HandleBind, Types
  <2> QED BY <1>1, <2>1 DEF HandleBind, Types
<1>2. CASE SyncOne
  <2>1. ASSUME NEW d \in Displays, SyncDisplay(d)
        PROVE  bound' \in [Displays -> Nat] /\ out' \in [Displays -> Seq(Item)]
    <3>1. CASE d \notin here \/ bound[d] = Target(d)
      BY <2>1, <3>1 DEF SyncDisplay, Types
    <3>2. CASE ~(d \notin here \/ bound[d] = Target(d))
      <4>1. Retire(d) \in Seq(Item) /\ Present(d) \in Seq(Item)
        BY SyncQueues DEF Types
      <4>2. out[d] \o Retire(d) \o Present(d) \in Seq(Item)
        BY <4>1 DEF Types
      <4>3. out' = [out EXCEPT ![d] = out[d] \o Retire(d) \o Present(d)]
        BY <2>1, <3>2 DEF SyncDisplay
      <4>4. out' \in [Displays -> Seq(Item)]
        BY <4>2, <4>3 DEF Types
      <4>5. Target(d) \in Nat
        BY DEF Target, Types
      <4>6. bound' = [bound EXCEPT ![d] = Target(d)]
        BY <2>1, <3>2 DEF SyncDisplay
      <4> QED BY <4>4, <4>5, <4>6 DEF Types
    <3> QED BY <3>1, <3>2
  <2>2. bound' \in [Displays -> Nat] /\ out' \in [Displays -> Seq(Item)]
    BY <1>2, <2>1 DEF SyncOne, Types
  <2>3. syncing' \subseteq Displays /\ relinked' \subseteq Displays
    BY <1>2 DEF SyncOne, Types
  <2> QED BY <1>2, <2>2, <2>3 DEF SyncOne, Types
<1>3. ASSUME NEW d \in Displays, Come(d) \/ Unlink(d) PROVE Types'
  <2>1. budget' \in [Kinds -> Nat]
    BY <1>3, HappensType DEF Come, Unlink, Types, Kinds
  <2> QED BY ZenonT(60), <1>3, <2>1 DEF Come, Unlink, Types
<1> QED BY <1>1, <1>2, <1>3

LEMMA EndpointTypes ==
  ASSUME Types, NEW d \in Displays,
         SendBind(d) \/ SendConfig(d) \/ SendUnbind(d) \/ ForwardFrame(d) \/ SubmitRecord(d)
  PROVE  Types'
<1> USE DEF rendererVars, readerVars, routerVars, displayVars, reaperVars
<1>1. CASE SendBind(d) \/ SendConfig(d) \/ SendUnbind(d)
  <2>1. out' \in [Displays -> Seq(Item)]
    BY <1>1, TakeTypes DEF SendBind, SendConfig, SendUnbind, Ready
  <2> QED BY <1>1, <2>1 DEF SendBind, SendConfig, SendUnbind, Types
<1>2. CASE ForwardFrame(d)
  <2> DEFINE f == Head(out[d])
             fenced == \E i \in DOMAIN fences : fences[i] = f.point
             rec == Record(f.point, {d}, f.expected)
  <2>1. out[d] # <<>> /\ out[d] \in Seq(Item)
    BY <1>2 DEF ForwardFrame, Ready, Types
  <2>2. f \in Item
    BY <2>1, TakenFrame
  <2>3. rec \in Rec
    BY <2>2 DEF Record, Rec, Item
  <2>4. CASE fenced
    <3>1. /\ sampling' = [sampling EXCEPT ![d] = @ \cup {f.point}]
          /\ sending' = [sending EXCEPT ![d] = {rec}]
          /\ out' = [out EXCEPT ![d] = Tail(@)]
          /\ UNCHANGED routerVars
      BY <1>2, <2>4 DEF ForwardFrame
    <3>2. out' \in [Displays -> Seq(Item)]
      BY <2>1, <3>1, TakeTypes
    <3>3. f.point \in Nat
      BY <2>2 DEF Item
    <3> HIDE DEF f, rec, fenced
    <3>4. sampling' \in [Displays -> SUBSET Nat] /\ sending' \in [Displays -> SUBSET Rec]
      BY <2>3, <3>1, <3>3 DEF Types
    <3> QED BY <1>2, <3>1, <3>2, <3>4 DEF ForwardFrame, Types
  <2>5. CASE ~fenced
    <3>1. Disconnected(d) /\ UNCHANGED <<sampling, sending>>
      BY <1>2, <2>5 DEF ForwardFrame
    <3> HIDE DEF f, rec, fenced
    <3>2. /\ link' \subseteq here' /\ here' \subseteq Displays
          /\ bound' \in [Displays -> Nat] /\ out' \in [Displays -> Seq(Item)]
          /\ syncing' = syncing /\ relinked' = relinked
      BY <3>1, DisconnectedTypes
    <3> QED BY <1>2, <3>1, <3>2 DEF ForwardFrame, Types
  <2> QED BY <2>4, <2>5
<1>3. CASE SubmitRecord(d)
  <2>1. records' \in Seq(Rec) /\ sending' \in [Displays -> SUBSET Rec]
    BY <1>3 DEF SubmitRecord, Types
  <2> QED BY <1>3, <2>1 DEF SubmitRecord, Types
<1> QED BY <1>1, <1>2, <1>3

LEMMA DisplayTypes ==
  ASSUME Types, NEW d \in Displays, Leave(d) \/ CrashDisplay(d) \/ Release(d)
  PROVE  Types'
<1> USE DEF rendererVars, readerVars, routerVars, displayVars, reaperVars
<1>1. CASE Leave(d)
  <2>1. budget' \in [Kinds -> Nat]
    BY <1>1, HappensType DEF Leave, Idle, Types, Kinds
  <2>2. /\ link' \subseteq here' /\ here' \subseteq Displays
        /\ bound' \in [Displays -> Nat] /\ out' \in [Displays -> Seq(Item)]
        /\ syncing' = syncing /\ relinked' = relinked
    BY <1>1, DisconnectedTypes DEF Leave
  <2> QED BY <1>1, <2>1, <2>2 DEF Leave, Types
<1>2. CASE CrashDisplay(d)
  <2>1. budget' \in [Kinds -> Nat]
    BY <1>2, HappensType DEF CrashDisplay, Types, Kinds
  <2> QED BY <1>2, <2>1 DEF CrashDisplay, Types
<1>3. CASE Release(d)
  <2>1. sampling' \in [Displays -> SUBSET Nat]
    BY ZenonT(60), <1>3 DEF Release, Types
  <2> QED BY <1>3, <2>1 DEF Release, Types
<1> QED BY <1>1, <1>2, <1>3

Bucket == [handles : SUBSET Displays, expected : Nat]

LEMMA CollectedType ==
  ASSUME Types, NEW rec \in Rec
  PROVE  Collected(rec) \in Bucket
<1>1. rec.handle \subseteq Displays /\ rec.expected \in Nat
  BY DEF Rec
<1>2. CASE rec.point \in DOMAIN buckets
  <2>1. buckets[rec.point] \in Bucket
    BY <1>2 DEF Types, Bucket
  <2>2. buckets[rec.point].handles \subseteq Displays /\ buckets[rec.point].expected \in Nat
    BY <2>1 DEF Bucket
  <2> QED BY <1>1, <1>2, <2>2 DEF Collected, Bucket
<1>3. CASE rec.point \notin DOMAIN buckets
  BY <1>1, <1>3 DEF Collected, Bucket
<1> QED BY <1>2, <1>3

LEMMA ReceiveTypes ==
  ASSUME Types, ReceiveRecord
  PROVE  /\ Types'
         /\ Head(records) \in Rec /\ RangeOf(records) = {Head(records)} \cup RangeOf(Tail(records))
<1> USE DEF rendererVars, readerVars, routerVars, displayVars, reaperVars
<1> DEFINE rec == Head(records)
           b == Collected(rec)
<1>1. /\ rec \in Rec /\ Tail(records) \in Seq(Rec)
      /\ RangeOf(records) = {rec} \cup RangeOf(Tail(records))
  BY HeadAndTail DEF ReceiveRecord, Types
<1>2. b \in Bucket
  BY <1>1, CollectedType
<1>3. rec.point \in Nat
  BY <1>1 DEF Rec
<1>4. /\ records' = Tail(records)
      /\ UNCHANGED <<budget, rendererVars, wire, readerVars, events, routerVars, out, sending,
                     displayVars, forced>>
  BY DEF ReceiveRecord
<1>5. CASE rec.handle = Nobody
  <2>1. Signal(rec.point) /\ UNCHANGED <<buckets, flushing>>
    BY <1>5 DEF ReceiveRecord
  <2>2. timeline' \in Nat
    BY <1>3, <2>1, SignalTypes DEF Types
  <2> HIDE DEF rec, b
  <2>3. Types'
    BY <1>1, <1>4, <2>1, <2>2 DEF Types
  <2> QED BY <1>1, <2>3 DEF rec
<1>6. CASE rec.handle # Nobody /\ Full(b)
  <2>1. /\ buckets' = Drop(buckets, rec.point) /\ UNCHANGED timeline
        /\ flushing' = {[point |-> rec.point, handles |-> b.handles]}
    BY <1>6 DEF ReceiveRecord
  <2> HIDE DEF rec, b
  <2>2. flushing' \subseteq [point : Nat, handles : SUBSET Displays]
    BY <1>2, <1>3, <2>1 DEF Bucket
  <2>3. DOMAIN buckets' \subseteq Nat /\ \A p \in DOMAIN buckets' : buckets'[p] \in Bucket
    BY <2>1 DEF Drop, Types, Bucket
  <2>4. Types'
    BY <1>1, <1>4, <2>1, <2>2, <2>3 DEF Types, Bucket
  <2> QED BY <1>1, <2>4 DEF rec
<1>7. CASE rec.handle # Nobody /\ ~Full(b)
  <2>1. /\ buckets' = [p \in DOMAIN buckets \cup {rec.point} |->
                         IF p = rec.point THEN b ELSE buckets[p]]
        /\ UNCHANGED <<timeline, flushing>>
    BY <1>7 DEF ReceiveRecord
  <2> HIDE DEF rec, b
  <2>2. DOMAIN buckets' \subseteq Nat /\ \A p \in DOMAIN buckets' : buckets'[p] \in Bucket
    BY <1>2, <1>3, <2>1 DEF Types, Bucket
  <2>3. Types'
    BY <1>1, <1>4, <2>1, <2>2 DEF Types, Bucket
  <2> QED BY <1>1, <2>3 DEF rec
<1> QED BY <1>5, <1>6, <1>7

LEMMA FlushTypes ==
  ASSUME Types, Expire \/ Flush
  PROVE  Types'
<1> USE DEF rendererVars, readerVars, routerVars, displayVars, reaperVars
<1>1. CASE Expire
  <2>1. PICK p \in DOMAIN buckets :
          /\ buckets' = Drop(buckets, p)
          /\ flushing' = {[point |-> p, handles |-> buckets[p].handles]}
          /\ forced' = forced \cup {p}
    BY <1>1 DEF Expire
  <2>2. p \in Nat /\ buckets[p] \in Bucket
    BY DEF Types, Bucket
  <2>3. flushing' \subseteq [point : Nat, handles : SUBSET Displays]
    BY <2>1, <2>2 DEF Bucket
  <2>4. DOMAIN buckets' \subseteq Nat /\ \A q \in DOMAIN buckets' : buckets'[q] \in Bucket
    BY <2>1 DEF Drop, Types, Bucket
  <2> QED BY <1>1, <2>1, <2>2, <2>3, <2>4 DEF Expire, Types, Bucket
<1>2. CASE Flush
  <2>1. PICK b \in flushing :
          /\ Signal(b.point)
          /\ forced' = IF \E d \in b.handles : b.point \in sampling[d]
                       THEN forced \cup {b.point} ELSE forced
    BY <1>2 DEF Flush
  <2>2. b.point \in Nat
    BY DEF Types
  <2>3. timeline' \in Nat /\ forced' \subseteq Nat
    BY <2>1, <2>2, SignalTypes DEF Types
  <2> QED BY <1>2, <2>3 DEF Flush, Types
<1> QED BY <1>1, <1>2

LEMMA TypesStep ==
  ASSUME Base, Next
  PROVE  Types'
  BY RendererTypes, ReaderTypes, HandleFrameTypes, RouterTypes, EndpointTypes, DisplayTypes,
     ReceiveTypes, FlushTypes DEF Next, Internal, External, Base

-----------------------------------------------------------------------------
(* What each step does to the frames in the queues.                        *)

LEMMA SubmitEffect ==
  ASSUME Types, Submit
  PROVE  /\ filled[next] <= timeline /\ next \in Slots /\ Len(made) \in Nat
         /\ made' = Append(made, [pool |-> pool, slot |-> next])
         /\ DOMAIN made' = DOMAIN made \cup {Len(made) + 1} /\ Len(made') = Len(made) + 1
         /\ \A p \in DOMAIN made : made'[p] = made[p]
         /\ made'[Len(made) + 1] = [pool |-> pool, slot |-> next]
         /\ filled' = [filled EXCEPT ![next] = Len(made) + 1]
         /\ wire' = Append(wire, Frame(pool, Len(made) + 1, 0))
         /\ Frame(pool, Len(made) + 1, 0) \in Item
         /\ PointsOf(wire') = PointsOf(wire) \cup {Len(made) + 1}
<1>1. /\ filled[next] <= timeline /\ next \in Slots
      /\ made' = Append(made, [pool |-> pool, slot |-> next])
      /\ filled' = [filled EXCEPT ![next] = Len(made) + 1]
      /\ wire' = Append(wire, Frame(pool, Len(made) + 1, 0))
  BY DEF Submit, SubmitTo, Types
<1>2. /\ Len(made) \in Nat
      /\ DOMAIN made' = DOMAIN made \cup {Len(made) + 1} /\ Len(made') = Len(made) + 1
      /\ \A p \in DOMAIN made : made'[p] = made[p]
      /\ made'[Len(made) + 1] = [pool |-> pool, slot |-> next]
  <2> DEFINE rec == [pool |-> pool, slot |-> next]
  <2>1. made \in Seq([pool : Nat, slot : Slots]) /\ rec \in [pool : Nat, slot : Slots]
    BY <1>1 DEF Types
  <2>2. made' = Append(made, rec)
    BY <1>1
  <2> HIDE DEF rec
  <2>3. /\ Len(made) \in Nat
        /\ DOMAIN made' = DOMAIN made \cup {Len(made) + 1} /\ Len(made') = Len(made) + 1
        /\ \A p \in DOMAIN made : made'[p] = made[p]
        /\ made'[Len(made) + 1] = rec
    BY <2>1, <2>2
  <2> QED BY <2>3 DEF rec
<1>3. Frame(pool, Len(made) + 1, 0) \in Item
  BY <1>2 DEF Types, Frame, Item
<1>4. PointsOf(wire') = PointsOf(wire) \cup {Len(made) + 1}
  <2>1. /\ Frame(pool, Len(made) + 1, 0).op = "frame"
        /\ Frame(pool, Len(made) + 1, 0).point = Len(made) + 1
    BY ItemTypes
  <2> QED BY <1>1, <1>3, <2>1, AppendedFrame DEF Types
<1> QED BY <1>1, <1>2, <1>3, <1>4

LEMMA NewPoolEffect ==
  ASSUME Types, NewPool
  PROVE  /\ wire' = Append(wire, Order("bind", pool + 1)) /\ Order("bind", pool + 1) \in Item
         /\ PointsOf(wire') = PointsOf(wire)
<1>1. Order("bind", pool + 1) \in Item /\ Order("bind", pool + 1).op = "bind"
  BY ItemTypes DEF Types
<1>2. wire' = Append(wire, Order("bind", pool + 1))
  BY DEF NewPool
<1> DEFINE x == Order("bind", pool + 1)
<1>3. x \in Item /\ x.op # "frame" /\ wire' = Append(wire, x) /\ wire \in Seq(Item)
  BY <1>1, <1>2 DEF Types
<1> HIDE DEF x
<1>4. PointsOf(wire') = PointsOf(wire)
  BY <1>3, AppendedFrame
<1> QED BY <1>1, <1>2, <1>4

LEMMA BroadcastIncreasing ==
  ASSUME events \in Seq(Item), NEW x \in Item, Broadcast(x), Increasing(events),
         x.op = "frame" => \A p \in PointsOf(events) : p < x.point
  PROVE  Increasing(events')
<1>1. CASE Len(events) < EventCapacity
  BY <1>1, AppendIncreasing DEF Broadcast
<1>2. CASE ~(Len(events) < EventCapacity)
  <2>1. events # <<>>
    BY <1>2, FramesAssumption
  <2>2. Tail(events) \in Seq(Item) /\ PointsOf(Tail(events)) \subseteq PointsOf(events)
    BY <2>1, TakenFrame
  <2>3. Increasing(Tail(events))
    BY <2>1, TailIncreasing
  <2>4. events' = Append(Tail(events), x)
    BY <1>2 DEF Broadcast
  <2> QED BY <2>2, <2>3, <2>4, AppendIncreasing
<1> QED BY <1>1, <1>2

LEMMA ClearEffect ==
  ASSUME Base, ClearFences
  PROVE  /\ wire \in Seq(Item) /\ wire # <<>> /\ Head(wire).op = "bind" /\ Head(wire) \in Item
         /\ snapshot = Head(wire).gen /\ wire' = Tail(wire) /\ events \in Seq(Item)
         /\ PointsOf(wire') = PointsOf(wire) /\ PointsOf(events') \subseteq PointsOf(events)
<1>1. /\ wire \in Seq(Item) /\ wire # <<>> /\ Head(wire).op = "bind"
      /\ snapshot = Head(wire).gen /\ wire' = Tail(wire) /\ events \in Seq(Item)
  BY DEF Base, Types, SnapshotInOrder, ClearFences
<1>2. Head(wire) \in Item /\ PointsOf(wire') = PointsOf(wire)
  BY <1>1, TakenFrame
<1>3. PointsOf(events') \subseteq PointsOf(events)
  BY <1>1, <1>2, BroadcastType DEF ClearFences
<1> QED BY <1>1, <1>2, <1>3

LEMMA ReadEffect ==
  ASSUME Base, ReadFrame
  PROVE  /\ wire \in Seq(Item) /\ wire # <<>> /\ Head(wire).op = "frame" /\ Head(wire) \in Item
         /\ wire' = Tail(wire) /\ events \in Seq(Item) /\ ~rebinding
         /\ latest' = [gen |-> snapshot, point |-> Head(wire).point]
         /\ PointsOf(wire) = PointsOf(wire') \cup {Head(wire).point}
         /\ PointsOf(events') \subseteq PointsOf(events) \cup {Head(wire).point}
<1>1. /\ wire \in Seq(Item) /\ wire # <<>> /\ Head(wire).op = "frame"
      /\ wire' = Tail(wire) /\ events \in Seq(Item)
      /\ latest' = [gen |-> snapshot, point |-> Head(wire).point]
  BY DEF Base, Types, ReadFrame
<1>2. ~rebinding
  BY <1>1 DEF Base, SnapshotInOrder
<1>3. Head(wire) \in Item /\ PointsOf(wire) = PointsOf(wire') \cup {Head(wire).point}
  BY <1>1, TakenFrame
<1>4. PointsOf(events') \subseteq PointsOf(events) \cup {Head(wire).point}
  BY <1>1, <1>3, BroadcastType DEF ReadFrame
<1> QED BY <1>1, <1>2, <1>3, <1>4

\* A frame is queued for its recipients only.
LEMMA HandleEffect ==
  ASSUME Types, HandleFrame
  PROVE  LET p == Head(events).point
             f == Frame(snapshot, p, Cardinality(Recipients))
         IN  /\ Head(events) \in Item /\ Head(events).op = "frame" /\ events \in Seq(Item)
             /\ events # <<>> /\ events' = Tail(events) /\ p \in Nat /\ f \in Item
             /\ PointsOf(events) = PointsOf(events') \cup {p}
             /\ \A d \in Recipients : out'[d] = Append(out[d], f)
             /\ \A d \in Displays \ Recipients : out'[d] = out[d]
             /\ \A d \in Recipients : /\ FramesOf(out'[d]) = FramesOf(out[d]) \cup {f}
                                      /\ PointsOf(out'[d]) = PointsOf(out[d]) \cup {p}
             /\ Recipients # {} => records' = records
             /\ Recipients = {} => records' = Append(records, Record(p, Nobody, 0))
<1> DEFINE p == Head(events).point
           f == Frame(snapshot, p, Cardinality(Recipients))
<1>1. /\ Head(events).op = "frame" /\ events \in Seq(Item) /\ events # <<>>
      /\ events' = Tail(events)
  BY DEF HandleFrame, Types
<1>2. Head(events) \in Item /\ PointsOf(events) = PointsOf(events') \cup {p}
  BY <1>1, TakenFrame
<1>3. p \in Nat
  BY <1>2 DEF Item
<1>4. Cardinality(Recipients) \in Nat
  BY RecipientsFinite DEF Recipients, Types
<1>5. f \in Item /\ f.op = "frame" /\ f.point = p
  BY <1>3, <1>4 DEF Types, Frame, Item
<1>6. /\ \A d \in Recipients : out'[d] = Append(out[d], f)
      /\ \A d \in Displays \ Recipients : out'[d] = out[d]
      /\ Recipients # {} => records' = records
      /\ Recipients = {} => records' = Append(records, Record(p, Nobody, 0))
  BY DEF HandleFrame, Recipients, Types
<1>7. \A d \in Recipients : /\ FramesOf(out'[d]) = FramesOf(out[d]) \cup {f}
                            /\ PointsOf(out'[d]) = PointsOf(out[d]) \cup {p}
  <2> HIDE DEF f, p
  <2> SUFFICES ASSUME NEW d \in Recipients
               PROVE  /\ FramesOf(out'[d]) = FramesOf(out[d]) \cup {f}
                      /\ PointsOf(out'[d]) = PointsOf(out[d]) \cup {p}
    OBVIOUS
  <2>1. out[d] \in Seq(Item)
    BY DEF Recipients, Types
  <2>2. out'[d] = Append(out[d], f)
    BY <1>6
  <2> QED BY <1>5, <2>1, <2>2, AppendedFrame
<1> QED BY <1>1, <1>2, <1>3, <1>5, <1>6, <1>7

\* sync_display queues a frame only to show an image again.
LEMMA SyncEffect ==
  ASSUME Types, NEW d \in Displays, SyncDisplay(d), NEW e \in Displays
  PROVE  /\ PointsOf(out'[e]) \subseteq PointsOf(out[e]) \cup ({latest.point} \ {None})
         /\ ~Still => /\ FramesOf(out'[e]) = FramesOf(out[e])
                      /\ Increasing(out[e]) => Increasing(out'[e])
         /\ bound'[e] = bound[e] \/ (bound[e] # Target(e) /\ bound'[e] = Target(e))
         /\ d \notin here => out' = out
<1>1. CASE d \notin here \/ bound[d] = Target(d)
  BY <1>1 DEF SyncDisplay
<1>2. CASE ~(d \notin here \/ bound[d] = Target(d))
  <2> DEFINE added == Retire(d) \o Present(d)
  <2>1. /\ Retire(d) \in Seq(Item) /\ Present(d) \in Seq(Item) /\ added \in Seq(Item)
        /\ ~Still => FramesOf(added) = {}
        /\ PointsOf(added) \subseteq {latest.point} \ {None}
    BY SyncQueues DEF Types
  <2>2. /\ out' = [out EXCEPT ![d] = out[d] \o Retire(d) \o Present(d)]
        /\ bound' = [bound EXCEPT ![d] = Target(d)]
    BY <1>2 DEF SyncDisplay
  <2>3. out[d] \in Seq(Item) /\ out[e] \in Seq(Item)
    BY DEF Types
  <2>4. out[d] \o Retire(d) \o Present(d) = out[d] \o added
    <3>1. \A s, t, u \in Seq(Item) : (s \o t) \o u = s \o (t \o u)
      <4> SUFFICES ASSUME NEW s \in Seq(Item), NEW t \in Seq(Item), NEW u \in Seq(Item)
                   PROVE  (s \o t) \o u = s \o (t \o u)
        OBVIOUS
      <4> QED BY ConcatAssociative
    <3> QED BY <2>1, <2>3, <3>1, ZenonT(60) DEF added
  <2> HIDE DEF added
  <2>5. /\ FramesOf(out[d] \o added) = FramesOf(out[d]) \cup FramesOf(added)
        /\ PointsOf(out[d] \o added) = PointsOf(out[d]) \cup PointsOf(added)
    BY <2>1, <2>3, JoinedFrames
  <2>6. out' = [out EXCEPT ![d] = out[d] \o added]
    BY <2>2, <2>4
  <2>7. bound'[e] = bound[e] \/ (bound[e] # Target(e) /\ bound'[e] = Target(e))
    BY <1>2, <2>2 DEF Types
  <2>8. CASE e = d
    <3>1. out'[e] = out[d] \o added
      BY <2>6, <2>8 DEF Types
    <3>2. ~Still /\ Increasing(out[e]) => Increasing(out'[e])
      BY <2>1, <2>3, <2>8, <3>1, JoinIncreasing
    <3> QED BY <1>2, <2>1, <2>5, <2>7, <2>8, <3>1, <3>2
  <2>9. CASE e # d
    <3>1. out'[e] = out[e]
      BY <2>6, <2>9 DEF Types
    <3> QED BY <1>2, <2>7, <3>1
  <2> QED BY <2>8, <2>9
<1> QED BY <1>1, <1>2

LEMMA TakeEffect ==
  ASSUME Types, NEW d \in Displays, out[d] # <<>>, out' = [out EXCEPT ![d] = Tail(@)],
         NEW e \in Displays
  PROVE  /\ e # d => out'[e] = out[e]
         /\ e = d => /\ FramesOf(out[d]) = FramesOf(out'[d])
                          \cup (IF Head(out[d]).op = "frame" THEN {Head(out[d])} ELSE {})
                     /\ PointsOf(out[d]) = PointsOf(out'[d])
                          \cup (IF Head(out[d]).op = "frame" THEN {Head(out[d]).point} ELSE {})
                     /\ Increasing(out[d]) => /\ Increasing(out'[d])
                                              /\ Head(out[d]).op = "frame" =>
                                                   \A p \in PointsOf(out'[d]) : Head(out[d]).point < p
<1>1. out[d] \in Seq(Item) /\ out'[d] = Tail(out[d]) /\ (e # d => out'[e] = out[e])
  BY DEF Types
<1> QED BY <1>1, TakenFrame, TailIncreasing

-----------------------------------------------------------------------------
(* The frames that exist, and the order of the pools.                      *)

LEMMA StillConstant ==
  ASSUME Base, Next
  PROVE  Still' = Still
<1> USE DEF rendererVars, readerVars, routerVars, displayVars, reaperVars
<1>1. budget \in [Kinds -> Nat]
  BY DEF Base, Types
<1>2. ASSUME NEW k \in Kinds \ {"image"}, Happens(k) PROVE budget'["image"] = budget["image"]
  BY <1>1, <1>2, HappensType
<1>3. budget'["image"] = budget["image"]
  <2>1. CASE NewPool \/ Submit
    BY <1>2, <2>1 DEF NewPool, Submit, SubmitTo, Kinds
  <2>2. CASE \E d \in Displays : Come(d) \/ Unlink(d) \/ Leave(d) \/ CrashDisplay(d)
    BY <1>2, <2>2 DEF Come, Unlink, Leave, CrashDisplay, Idle, Kinds
  <2>3. CASE ReadBind \/ ClearFences \/ ReadFrame \/ HandleFrame \/ HandleBind \/ SyncOne
    BY <2>3 DEF ReadBind, ClearFences, ReadFrame, HandleFrame, HandleBind, SyncOne
  <2>4. CASE \E d \in Displays : SendBind(d) \/ SendConfig(d) \/ SendUnbind(d)
                                   \/ ForwardFrame(d) \/ SubmitRecord(d) \/ Release(d)
    BY <2>4 DEF SendBind, SendConfig, SendUnbind, ForwardFrame, SubmitRecord, Release
  <2>5. CASE ReceiveRecord \/ Expire \/ Flush
    BY <2>5 DEF ReceiveRecord, Expire, Flush
  <2> QED BY <2>1, <2>2, <2>3, <2>4, <2>5 DEF Next, Internal, External
<1> QED BY <1>3 DEF Still

\* Everyone but the renderer and the reader thread leaves the wire alone.
WireKept == UNCHANGED <<made, pool, filled, wire, snapshot, latest, rebinding>>

LEMMA WireIsKept ==
  ASSUME Next
  PROVE  \/ NewPool \/ Submit \/ ReadBind \/ ClearFences \/ ReadFrame
         \/ WireKept
<1> USE DEF rendererVars, readerVars, WireKept
<1>1. CASE HandleFrame \/ HandleBind \/ SyncOne \/ ReceiveRecord \/ Expire \/ Flush
  BY <1>1 DEF HandleFrame, HandleBind, SyncOne, ReceiveRecord, Expire, Flush
<1>2. CASE \E d \in Displays : SendBind(d) \/ SendConfig(d) \/ SendUnbind(d)
                                 \/ ForwardFrame(d) \/ SubmitRecord(d) \/ Release(d)
  BY <1>2 DEF SendBind, SendConfig, SendUnbind, ForwardFrame, SubmitRecord, Release
<1>3. CASE \E d \in Displays : Come(d) \/ Unlink(d) \/ Leave(d) \/ CrashDisplay(d)
  BY <1>3 DEF Come, Unlink, Leave, CrashDisplay
<1> QED BY <1>1, <1>2, <1>3 DEF Next, Internal, External

\* The wire grows at its end and is read from its head.
LEMMA AppendAt ==
  ASSUME NEW q \in Seq(Item), NEW x \in Item
  PROVE  /\ Len(q) \in Nat /\ Append(q, x) \in Seq(Item) /\ Len(Append(q, x)) = Len(q) + 1
         /\ \A i \in DOMAIN Append(q, x) :
              \/ i \in DOMAIN q /\ i \in Nat /\ i < Len(q) + 1 /\ Append(q, x)[i] = q[i]
              \/ i = Len(q) + 1 /\ Append(q, x)[i] = x
         /\ \A i \in DOMAIN q : i \in DOMAIN Append(q, x) /\ Append(q, x)[i] = q[i]
         /\ Len(q) + 1 \in DOMAIN Append(q, x) /\ Append(q, x)[Len(q) + 1] = x
         /\ \A i \in DOMAIN q : i \in Nat /\ i < Len(q) + 1 /\ q[i] \in Item /\ q[i].gen \in Nat
<1>1. \A i \in DOMAIN q : q[i] \in Item
  OBVIOUS
<1>2. \A i \in DOMAIN q : q[i].gen \in Nat
  BY <1>1 DEF Item
<1> QED BY <1>1, <1>2

LEMMA TailAt ==
  ASSUME NEW q \in Seq(Item), q # <<>>
  PROVE  /\ Len(q) \in Nat /\ 1 \in DOMAIN q /\ Head(q) = q[1]
         /\ Tail(q) \in Seq(Item) /\ Len(Tail(q)) + 1 = Len(q) /\ Len(Tail(q)) \in Nat
         /\ \A i \in DOMAIN Tail(q) : i \in Nat /\ i + 1 \in DOMAIN q /\ Tail(q)[i] = q[i + 1]
         /\ \A i \in DOMAIN q :
              i = 1 \/ (i - 1 \in Nat /\ i - 1 \in DOMAIN Tail(q) /\ Tail(q)[i - 1] = q[i])
         /\ \A i \in DOMAIN q : i \in Nat /\ i >= 1 /\ q[i] \in Item /\ q[i].gen \in Nat
<1>1. \A i \in DOMAIN q : q[i] \in Item
  OBVIOUS
<1>2. \A i \in DOMAIN q : q[i].gen \in Nat
  BY <1>1 DEF Item
<1> QED BY <1>1, <1>2

LEMMA AppendAnnounced ==
  ASSUME NEW q \in Seq(Item), NEW x \in Item, NEW p, NEW i, Announced(q, p, i)
  PROVE  Announced(Append(q, x), p, i)
  BY AppendAt DEF Announced

LEMMA TailAnnounced ==
  ASSUME NEW q \in Seq(Item), q # <<>>, NEW p, NEW i \in Nat, Announced(q, p, i + 1)
  PROVE  (Head(q).op = "bind" /\ Head(q).gen = p) \/ Announced(Tail(q), p, i)
<1>1. PICK j \in DOMAIN q : j < i + 1 /\ q[j].op = "bind" /\ q[j].gen = p
  BY DEF Announced
<1>2. CASE j = 1
  BY <1>1, <1>2, TailAt
<1>3. CASE j # 1
  <2>1. j - 1 \in DOMAIN Tail(q) /\ j - 1 < i /\ Tail(q)[j - 1] = q[j]
    BY <1>1, <1>3, TailAt
  <2> QED BY <1>1, <2>1 DEF Announced
<1> QED BY <1>2, <1>3

LEMMA BindAppended ==
  ASSUME NEW q \in Seq(Item), NEW x \in Item, NEW from \in Nat, NEW to \in Nat,
         BindsInOrder(q, from, to), x.op = "bind", x.gen = to + 1
  PROVE  BindsInOrder(Append(q, x), from, to + 1)
<1> DEFINE w == Append(q, x)
<1>1. Announced(w, to + 1, Len(w) + 1)
  BY AppendAt DEF Announced
<1>2. \A i \in DOMAIN w : w[i].op = "bind" => from <= w[i].gen /\ w[i].gen <= to + 1
  BY AppendAt DEF BindsInOrder
<1>3. ASSUME NEW i \in DOMAIN w, NEW j \in DOMAIN w, i < j, w[i].op = "bind", w[j].op = "bind"
      PROVE  w[i].gen <= w[j].gen
  <2>1. i \in DOMAIN q /\ w[i] = q[i] /\ q[i].gen \in Nat /\ q[i].gen <= to
    BY <1>3, AppendAt DEF BindsInOrder
  <2>2. CASE j \in DOMAIN q
    BY <1>3, <2>1, <2>2, AppendAt DEF BindsInOrder
  <2>3. CASE j = Len(q) + 1
    BY <2>1, <2>3, AppendAt
  <2> QED BY <2>2, <2>3, AppendAt
<1>4. from <= to + 1
  BY DEF BindsInOrder
<1> HIDE DEF w
<1>5. BindsInOrder(w, from, to + 1)
  BY <1>1, <1>2, <1>3, <1>4 DEF BindsInOrder
<1> QED BY <1>5 DEF w

LEMMA FrameAppended ==
  ASSUME NEW q \in Seq(Item), NEW x \in Item, NEW from \in Nat, NEW to \in Nat,
         BindsInOrder(q, from, to), x.op = "frame"
  PROVE  BindsInOrder(Append(q, x), from, to)
<1> DEFINE w == Append(q, x)
<1>1. from = to \/ Announced(w, to, Len(w) + 1)
  BY AppendAt DEF BindsInOrder, Announced
<1>2. \A i \in DOMAIN w : w[i].op = "bind" => from <= w[i].gen /\ w[i].gen <= to
  BY AppendAt DEF BindsInOrder
<1>3. \A i, j \in DOMAIN w :
        i < j /\ w[i].op = "bind" /\ w[j].op = "bind" => w[i].gen <= w[j].gen
  BY AppendAt DEF BindsInOrder
<1>4. from <= to
  BY DEF BindsInOrder
<1> HIDE DEF w
<1>5. BindsInOrder(w, from, to)
  BY <1>1, <1>2, <1>3, <1>4 DEF BindsInOrder
<1> QED BY <1>5 DEF w

LEMMA TailInOrder ==
  ASSUME NEW q \in Seq(Item), q # <<>>, NEW from \in Nat, NEW to \in Nat,
         BindsInOrder(q, from, to), Head(q).op = "bind" => Head(q).gen = from
  PROVE  BindsInOrder(Tail(q), from, to)
<1> DEFINE w == Tail(q)
<1>1. from = to \/ Announced(w, to, Len(w) + 1)
  BY TailAt, TailAnnounced DEF BindsInOrder
<1>2. \A i \in DOMAIN w : w[i].op = "bind" => from <= w[i].gen /\ w[i].gen <= to
  BY TailAt DEF BindsInOrder
<1>3. ASSUME NEW i \in DOMAIN w, NEW j \in DOMAIN w, i < j, w[i].op = "bind", w[j].op = "bind"
      PROVE  w[i].gen <= w[j].gen
  <2>1. /\ i + 1 \in DOMAIN q /\ w[i] = q[i + 1] /\ j + 1 \in DOMAIN q /\ w[j] = q[j + 1]
        /\ i + 1 < j + 1
    BY <1>3, TailAt
  <2> QED BY <1>3, <2>1 DEF BindsInOrder
<1>4. from <= to
  BY DEF BindsInOrder
<1> HIDE DEF w
<1>5. BindsInOrder(w, from, to)
  BY <1>1, <1>2, <1>3, <1>4 DEF BindsInOrder
<1> QED BY <1>5 DEF w

LEMMA MadeTypes ==
  ASSUME Types
  PROVE  \A p \in DOMAIN made : /\ made[p].pool \in Nat /\ made[p].slot \in Slots
                                 /\ p \in Nat /\ p \in 1..Len(made)
<1>1. made \in Seq([pool : Nat, slot : Slots])
  BY DEF Types
<1>2. \A p \in DOMAIN made : p \in 1..Len(made) /\ p \in Nat
  BY <1>1
<1>3. \A p \in DOMAIN made : made[p] \in [pool : Nat, slot : Slots]
  BY <1>1, <1>2, ElementOfSeq
<1> QED BY <1>2, <1>3

LEMMA OrderStep ==
  ASSUME Base, Next
  PROVE  SnapshotInOrder' /\ PoolsGrow'
<1> USE DEF Base
<1>1. /\ wire \in Seq(Item) /\ snapshot \in Nat /\ pool \in Nat
      /\ made \in Seq([pool : Nat, slot : Slots])
      /\ \A p \in DOMAIN made : made[p].pool \in Nat
  <2>1. /\ wire \in Seq(Item) /\ snapshot \in Nat /\ pool \in Nat
        /\ made \in Seq([pool : Nat, slot : Slots])
    BY DEF Types
  <2>2. \A p \in DOMAIN made : made[p].pool \in Nat
    BY MadeTypes
  <2> QED BY <2>1, <2>2
<1>2. \A i \in DOMAIN wire : wire[i].op = "frame" => wire[i].point \in DOMAIN made
  BY <1>1, PointIn DEF PointsKnown
<1>3. CASE NewPool
  <2> DEFINE x == Order("bind", pool + 1)
  <2>1. /\ wire' = Append(wire, x) /\ x \in Item /\ x.op = "bind" /\ x.gen = pool + 1
        /\ pool' = pool + 1 /\ made' = made /\ snapshot' = snapshot /\ rebinding' = rebinding
    BY <1>3, NewPoolEffect, ItemTypes, <1>1 DEF NewPool, readerVars
  <2> HIDE DEF x
  <2>2. BindsInOrder(wire', snapshot, pool + 1)
    BY <1>1, <2>1, BindAppended DEF SnapshotInOrder
  <2>3. ASSUME NEW i \in DOMAIN wire', wire'[i].op = "frame",
               ~(made[wire'[i].point].pool <= snapshot)
        PROVE  Announced(wire', made[wire'[i].point].pool, i)
    <3>1. i \in DOMAIN wire /\ wire'[i] = wire[i]
      BY <1>1, <2>1, <2>3, AppendAt
    <3>2. Announced(wire, made[wire'[i].point].pool, i)
      BY <2>3, <3>1 DEF SnapshotInOrder, BindsGoFirst
    <3> QED BY <1>1, <2>1, <3>2, AppendAnnounced
  <2>4. BindsGoFirst(wire', snapshot, made)
    BY <2>3 DEF BindsGoFirst
  <2>5. rebinding => wire' # <<>> /\ Head(wire') = Head(wire)
    <3>1. rebinding => wire # <<>>
      BY DEF SnapshotInOrder
    <3> QED BY <1>1, <2>1, <3>1
  <2>6. SnapshotInOrder'
    BY <2>1, <2>2, <2>4, <2>5 DEF SnapshotInOrder
  <2>7. PoolsGrow'
    BY <1>1, <2>1 DEF PoolsGrow
  <2> QED BY <2>6, <2>7
<1>4. CASE Submit
  <2> DEFINE x == Frame(pool, Len(made) + 1, 0)
  <2>1. /\ wire' = Append(wire, x) /\ x \in Item /\ x.op = "frame" /\ x.point = Len(made) + 1
        /\ DOMAIN made' = DOMAIN made \cup {Len(made) + 1}
        /\ \A p \in DOMAIN made : made'[p] = made[p]
        /\ made'[Len(made) + 1].pool = pool
    BY <1>4, SubmitEffect, ItemTypes
  <2>2. pool' = pool /\ snapshot' = snapshot /\ rebinding' = rebinding
    BY <1>4 DEF Submit, SubmitTo, readerVars
  <2> HIDE DEF x
  <2>3. BindsInOrder(wire', snapshot, pool)
    BY <1>1, <2>1, FrameAppended DEF SnapshotInOrder
  <2>4. ASSUME NEW i \in DOMAIN wire', wire'[i].op = "frame"
        PROVE  \/ made'[wire'[i].point].pool <= snapshot
               \/ Announced(wire', made'[wire'[i].point].pool, i)
    <3>1. CASE i \in DOMAIN wire
      <4>1. wire'[i] = wire[i] /\ made'[wire[i].point] = made[wire[i].point]
        BY <1>1, <1>2, <2>1, <2>4, <3>1, AppendAt
      <4>2. \/ made[wire[i].point].pool <= snapshot
            \/ Announced(wire, made[wire[i].point].pool, i)
        BY <2>4, <3>1, <4>1 DEF SnapshotInOrder, BindsGoFirst
      <4> QED BY <1>1, <2>1, <4>1, <4>2, AppendAnnounced
    <3>2. CASE i = Len(wire) + 1
      <4>1. made'[wire'[i].point].pool = pool
        BY <1>1, <2>1, <3>2, AppendAt
      <4>2. snapshot = pool \/ Announced(wire, pool, i)
        BY <3>2 DEF SnapshotInOrder, BindsInOrder
      <4> QED BY <1>1, <2>1, <4>1, <4>2, AppendAnnounced
    <3> QED BY <1>1, <2>1, <2>4, <3>1, <3>2, AppendAt
  <2>5. BindsGoFirst(wire', snapshot, made')
    BY <2>4 DEF BindsGoFirst
  <2>6. rebinding => wire' # <<>> /\ Head(wire') = Head(wire)
    <3>1. rebinding => wire # <<>>
      BY DEF SnapshotInOrder
    <3> QED BY <1>1, <2>1, <3>1
  <2>7. SnapshotInOrder'
    BY <2>2, <2>3, <2>5, <2>6 DEF SnapshotInOrder
  <2>8. PoolsGrow'
    BY <1>1, <2>1, <2>2 DEF PoolsGrow
  <2> QED BY <2>7, <2>8
<1>5. CASE ReadBind
  <2>1. /\ wire # <<>> /\ Head(wire).op = "bind" /\ snapshot' = Head(wire).gen /\ rebinding'
        /\ wire' = wire /\ pool' = pool /\ made' = made
    BY <1>5 DEF ReadBind, rendererVars
  <2>2. /\ 1 \in DOMAIN wire /\ Head(wire) = wire[1]
        /\ \A i \in DOMAIN wire : 1 <= i /\ i \in Nat /\ wire[i].gen \in Nat
    BY <1>1, <2>1, TailAt
  <2>3. snapshot <= snapshot' /\ snapshot' \in Nat /\ snapshot' <= pool
    BY <2>1, <2>2 DEF SnapshotInOrder, BindsInOrder
  <2>4. snapshot' = pool \/ Announced(wire, pool, Len(wire) + 1)
    BY <1>1, <2>3 DEF SnapshotInOrder, BindsInOrder
  <2>5. \A i \in DOMAIN wire : wire[i].op = "bind" =>
          snapshot' <= wire[i].gen /\ wire[i].gen <= pool
    <3> SUFFICES ASSUME NEW i \in DOMAIN wire, wire[i].op = "bind"
                 PROVE  snapshot' <= wire[i].gen /\ wire[i].gen <= pool
      OBVIOUS
    <3>1. i = 1 \/ 1 < i
      BY <2>2
    <3> QED BY <2>1, <2>2, <3>1 DEF SnapshotInOrder, BindsInOrder
  <2>6. BindsInOrder(wire, snapshot', pool)
    BY <2>3, <2>4, <2>5 DEF SnapshotInOrder, BindsInOrder
  <2>7. BindsGoFirst(wire, snapshot', made)
    <3> SUFFICES ASSUME NEW i \in DOMAIN wire, wire[i].op = "frame"
                 PROVE  \/ made[wire[i].point].pool <= snapshot'
                        \/ Announced(wire, made[wire[i].point].pool, i)
      BY DEF BindsGoFirst
    <3>1. made[wire[i].point].pool \in Nat
      BY <1>1, <1>2
    <3> QED BY <1>1, <2>3, <3>1 DEF SnapshotInOrder, BindsGoFirst
  <2>8. SnapshotInOrder'
    BY <2>1, <2>6, <2>7 DEF SnapshotInOrder
  <2>9. PoolsGrow'
    BY <2>1 DEF PoolsGrow
  <2> QED BY <2>8, <2>9
<1>6. CASE ClearFences \/ ReadFrame
  <2>1. /\ wire # <<>> /\ wire' = Tail(wire)
        /\ Head(wire).op = "bind" => snapshot = Head(wire).gen
    BY <1>6, ClearEffect, ReadEffect
  <2>2. pool' = pool /\ made' = made /\ snapshot' = snapshot
    BY <1>6 DEF ClearFences, ReadFrame, rendererVars
  <2>3. ~rebinding'
    BY <1>6, ReadEffect DEF ClearFences, ReadFrame
  <2>4. BindsInOrder(wire', snapshot, pool)
    BY <1>1, <2>1, TailInOrder DEF SnapshotInOrder
  <2>5. ASSUME NEW i \in DOMAIN wire', wire'[i].op = "frame",
               ~(made[wire'[i].point].pool <= snapshot)
        PROVE  Announced(wire', made[wire'[i].point].pool, i)
    <3>1. i \in Nat /\ i + 1 \in DOMAIN wire /\ wire'[i] = wire[i + 1]
      BY <1>1, <2>1, TailAt
    <3>2. Announced(wire, made[wire'[i].point].pool, i + 1)
      BY <2>5, <3>1 DEF SnapshotInOrder, BindsGoFirst
    <3>3. made[wire'[i].point].pool # snapshot
      BY <1>1, <2>5
    <3> QED BY <1>1, <2>1, <3>1, <3>2, <3>3, TailAnnounced
  <2>6. BindsGoFirst(wire', snapshot, made)
    BY <2>5 DEF BindsGoFirst
  <2>7. SnapshotInOrder'
    BY <2>2, <2>3, <2>4, <2>6 DEF SnapshotInOrder
  <2>8. PoolsGrow'
    BY <2>2 DEF PoolsGrow
  <2> QED BY <2>7, <2>8
<1>7. CASE WireKept
  BY <1>7 DEF WireKept, SnapshotInOrder, PoolsGrow
<1> QED BY <1>3, <1>4, <1>5, <1>6, <1>7, WireIsKept

LEMMA MonotoneFresh ==
  ASSUME Base, UNCHANGED <<out, sampling>>, here' \subseteq alive' \cup dead',
         alive \cup dead \subseteq alive' \cup dead'
  PROVE  Fresh'
  BY DEF Base, Fresh

\* What an endpoint or a display does takes frames away, or moves them on.
OfADisplay(d) ==
  \/ SendBind(d) \/ SendConfig(d) \/ SendUnbind(d) \/ ForwardFrame(d) \/ SubmitRecord(d)
  \/ Leave(d) \/ CrashDisplay(d) \/ Release(d)

LEMMA SendEffect ==
  ASSUME Types, NEW d \in Displays, SendBind(d) \/ SendConfig(d) \/ SendUnbind(d),
         NEW e \in Displays
  PROVE  /\ FramesOf(out'[e]) = FramesOf(out[e]) /\ PointsOf(out'[e]) = PointsOf(out[e])
         /\ Increasing(out[e]) => Increasing(out'[e])
         /\ d \in here /\ (e # d => out'[e] = out[e])
<1>1. /\ out[d] # <<>> /\ Head(out[d]).op # "frame" /\ out' = [out EXCEPT ![d] = Tail(@)]
      /\ d \in here
  BY DEF SendBind, SendConfig, SendUnbind, Ready
<1> QED BY <1>1, TakeEffect

LEMMA DisconnectEffect ==
  ASSUME Types, NEW d \in Displays, Disconnected(d)
  PROVE  /\ d \notin link' /\ link' \subseteq link /\ here' \subseteq here
         /\ out'[d] = <<>> /\ FramesOf(out'[d]) = {} /\ PointsOf(out'[d]) = {}
         /\ \A e \in Displays : e # d => out'[e] = out[e] /\ bound'[e] = bound[e]
  BY EmptyQueue DEF Types, Disconnected

Fenced(d) == \E i \in DOMAIN fences : fences[i] = Head(out[d]).point
LEMMA ForwardEffect ==
  ASSUME Types, NEW d \in Displays, ForwardFrame(d)
  PROVE  LET f == Head(out[d])
         IN  /\ d \in here \cap alive /\ sending[d] = {} /\ out[d] # <<>> /\ f.op = "frame"
             /\ f \in Item /\ out[d] \in Seq(Item) /\ f \in FramesOf(out[d])
             /\ Fenced(d) =>
                  /\ UNCHANGED routerVars
                  /\ out' = [out EXCEPT ![d] = Tail(@)]
                  /\ sampling' = [sampling EXCEPT ![d] = @ \cup {f.point}]
                  /\ sending' = [sending EXCEPT ![d] = {Record(f.point, {d}, f.expected)}]
                  /\ FramesOf(out[d]) = FramesOf(out'[d]) \cup {f}
                  /\ PointsOf(out[d]) = PointsOf(out'[d]) \cup {f.point}
             /\ ~Fenced(d) => Disconnected(d) /\ UNCHANGED <<sampling, sending>>
<1> DEFINE f == Head(out[d])
<1>1. /\ d \in here \cap alive /\ sending[d] = {} /\ out[d] # <<>> /\ f.op = "frame"
      /\ out[d] \in Seq(Item)
  BY DEF ForwardFrame, Ready, Types
<1>2. f \in Item /\ f \in FramesOf(out[d])
  BY <1>1, TakenFrame
<1>3. ASSUME Fenced(d)
      PROVE  /\ UNCHANGED routerVars
             /\ out' = [out EXCEPT ![d] = Tail(@)]
             /\ sampling' = [sampling EXCEPT ![d] = @ \cup {f.point}]
             /\ sending' = [sending EXCEPT ![d] = {Record(f.point, {d}, f.expected)}]
             /\ FramesOf(out[d]) = FramesOf(out'[d]) \cup {f}
             /\ PointsOf(out[d]) = PointsOf(out'[d]) \cup {f.point}
  <2>1. /\ UNCHANGED routerVars
        /\ out' = [out EXCEPT ![d] = Tail(@)]
        /\ sampling' = [sampling EXCEPT ![d] = @ \cup {f.point}]
        /\ sending' = [sending EXCEPT ![d] = {Record(f.point, {d}, f.expected)}]
    BY <1>3 DEF ForwardFrame, Fenced
  <2> QED BY <1>1, <2>1, TakeEffect
<1>4. ASSUME ~Fenced(d) PROVE Disconnected(d) /\ UNCHANGED <<sampling, sending>>
  BY <1>4 DEF ForwardFrame, Fenced
<1> QED BY <1>1, <1>2, <1>3, <1>4

LEMMA HeldShrinks ==
  ASSUME Types, NEW d \in Displays, OfADisplay(d), NEW e \in Displays
  PROVE  /\ PointsOf(out'[e]) \subseteq PointsOf(out[e])
         /\ PointsOf(out'[e]) \cup sampling'[e] \subseteq PointsOf(out[e]) \cup sampling[e]
         /\ events' = events
<1>1. CASE SendBind(d) \/ SendConfig(d) \/ SendUnbind(d)
  <2>1. sampling' = sampling /\ events' = events
    BY <1>1 DEF SendBind, SendConfig, SendUnbind
  <2> QED BY <1>1, <2>1, SendEffect
<1>2. CASE ForwardFrame(d)
  <2>1. events' = events
    BY <1>2 DEF ForwardFrame
  <2>2. CASE Fenced(d)
    <3>1. /\ out' = [out EXCEPT ![d] = Tail(@)]
          /\ sampling' = [sampling EXCEPT ![d] = @ \cup {Head(out[d]).point}]
          /\ PointsOf(out[d]) = PointsOf(out'[d]) \cup {Head(out[d]).point}
      BY <1>2, <2>2, ForwardEffect
    <3>2. e # d => out'[e] = out[e] /\ sampling'[e] = sampling[e]
      BY <3>1 DEF Types
    <3>3. sampling'[d] = sampling[d] \cup {Head(out[d]).point}
      BY <3>1 DEF Types
    <3> QED BY <2>1, <3>1, <3>2, <3>3
  <2>3. CASE ~Fenced(d)
    <3>1. Disconnected(d) /\ sampling' = sampling
      BY <1>2, <2>3, ForwardEffect
    <3> QED BY <2>1, <3>1, DisconnectEffect
  <2> QED BY <2>2, <2>3
<1>3. CASE SubmitRecord(d)
  BY <1>3 DEF SubmitRecord, displayVars
<1>4. CASE Leave(d)
  <2>1. Disconnected(d) /\ sampling' = sampling /\ events' = events
    BY <1>4 DEF Leave, displayVars
  <2> QED BY <2>1, DisconnectEffect
<1>5. CASE CrashDisplay(d)
  BY <1>5 DEF CrashDisplay
<1>6. CASE Release(d)
  <2>1. out' = out /\ events' = events /\ \E p : sampling' = [sampling EXCEPT ![d] = @ \ {p}]
    BY <1>6 DEF Release
  <2>2. sampling'[e] \subseteq sampling[e]
    BY <2>1 DEF Types
  <2> QED BY <2>1, <2>2
<1> QED BY <1>1, <1>2, <1>3, <1>4, <1>5, <1>6 DEF OfADisplay

Others == HandleBind \/ ReceiveRecord \/ Expire \/ Flush \/ \E d \in Displays : Come(d) \/ Unlink(d)

LEMMA OthersKeep ==
  ASSUME Types, Others
  PROVE  /\ UNCHANGED <<out, sampling, sending, bound>>
         /\ PointsOf(events') \subseteq PointsOf(events)
         /\ WireKept
<1> USE DEF rendererVars, readerVars, routerVars, displayVars, WireKept
<1>1. CASE HandleBind
  <2>1. /\ events \in Seq(Item) /\ events # <<>> /\ events' = Tail(events)
        /\ Head(events).op # "frame"
    BY <1>1 DEF HandleBind, Types
  <2>2. PointsOf(events') \subseteq PointsOf(events)
    BY <2>1, TakenFrame
  <2> QED BY <1>1, <2>2 DEF HandleBind
<1>2. CASE ReceiveRecord \/ Expire \/ Flush
  BY <1>2 DEF ReceiveRecord, Expire, Flush
<1>3. CASE \E d \in Displays : Come(d) \/ Unlink(d)
  BY <1>3 DEF Come, Unlink
<1> QED BY <1>1, <1>2, <1>3 DEF Others

LEMMA NextCases ==
  ASSUME Next
  PROVE  \/ NewPool \/ Submit \/ ReadBind \/ ClearFences \/ ReadFrame \/ HandleFrame \/ SyncOne
         \/ Others \/ \E d \in Displays : OfADisplay(d)
  BY DEF Next, Internal, External, Others, OfADisplay

LEMMA DisplayKeepsWire ==
  ASSUME NEW d \in Displays, OfADisplay(d)
  PROVE  WireKept
  BY DEF OfADisplay, SendBind, SendConfig, SendUnbind, ForwardFrame, SubmitRecord, Leave,
         CrashDisplay, Release, WireKept, rendererVars, readerVars

\* The frame at the head of the wire is of a pool the reader thread knows of.
LEMMA HeadIsKnown ==
  ASSUME Base, ReadFrame
  PROVE  Head(wire).point \in DOMAIN made /\ made[Head(wire).point].pool <= snapshot
<1>1. wire \in Seq(Item) /\ wire # <<>> /\ Head(wire).op = "frame"
  BY ReadEffect
<1>2. 1 \in DOMAIN wire /\ wire[1] = Head(wire) /\ \A i \in DOMAIN wire : ~(i < 1)
  BY <1>1, TailAt
<1>3. ~Announced(wire, made[Head(wire).point].pool, 1)
  BY <1>2 DEF Announced
<1>4. Head(wire).point \in PointsOf(wire)
  BY <1>1, <1>2, PointIn
<1> QED BY <1>1, <1>2, <1>3, <1>4 DEF Base, SnapshotInOrder, BindsGoFirst, PointsKnown

AllKnown == PointsKnown /\ PoolsKnown

LEMMA KeepsKnown ==
  ASSUME AllKnown, made' = made, snapshot' = snapshot, latest' = latest,
         PointsOf(wire') \subseteq PointsOf(wire), PointsOf(events') \subseteq PointsOf(events),
         \A e \in Displays : PointsOf(out'[e]) \cup sampling'[e]
             \subseteq PointsOf(out[e]) \cup sampling[e] \cup PointsOf(events)
                       \cup ({latest.point} \ {None})
  PROVE  AllKnown'
<1>1. PointsKnown'
  BY DEF AllKnown, PointsKnown
<1>2. PoolsKnown'
  BY DEF AllKnown, PoolsKnown
<1> QED BY <1>1, <1>2 DEF AllKnown

LEMMA KnownStep ==
  ASSUME Base, Next
  PROVE  AllKnown'
<1>1. Types /\ AllKnown /\ snapshot \in Nat
  BY DEF Base, AllKnown, Types
<1>2. CASE NewPool
  <2>1. PointsOf(wire') = PointsOf(wire)
    BY <1>1, <1>2, NewPoolEffect
  <2>2. UNCHANGED <<made, events, out, sampling, snapshot, latest>>
    BY <1>2 DEF NewPool, readerVars, displayVars
  <2> QED BY <1>1, <2>1, <2>2, KeepsKnown
<1>3. CASE Submit
  <2>1. /\ PointsOf(wire') = PointsOf(wire) \cup {Len(made) + 1}
        /\ DOMAIN made' = DOMAIN made \cup {Len(made) + 1}
        /\ \A p \in DOMAIN made : made'[p] = made[p]
    BY <1>1, <1>3, SubmitEffect
  <2>2. UNCHANGED <<events, out, sampling, snapshot, latest>>
    BY <1>3 DEF Submit, SubmitTo, readerVars, displayVars
  <2>3. PointsKnown'
    BY <1>1, <2>1, <2>2 DEF AllKnown, PointsKnown
  <2>4. PoolsKnown'
    <3>1. \A p \in PointsOf(events) : made'[p].pool <= snapshot
      BY <1>1, <2>1 DEF AllKnown, PointsKnown, PoolsKnown
    <3>2. latest.point # None => made'[latest.point].pool <= snapshot
      BY <1>1, <2>1 DEF AllKnown, PointsKnown, PoolsKnown
    <3>3. \A d \in Displays : \A p \in PointsOf(out[d]) \cup sampling[d] :
            made'[p].pool <= snapshot
      BY <1>1, <2>1 DEF AllKnown, PointsKnown, PoolsKnown
    <3> QED BY <2>2, <3>1, <3>2, <3>3 DEF PoolsKnown
  <2> QED BY <2>3, <2>4 DEF AllKnown
<1>4. CASE ReadBind
  <2>1. UNCHANGED <<made, wire, events, out, sampling, latest>>
    BY <1>4 DEF ReadBind, rendererVars, displayVars
  <2>2. snapshot <= snapshot' /\ snapshot' \in Nat
    <3>1. wire \in Seq(Item) /\ wire # <<>> /\ Head(wire).op = "bind" /\ snapshot' = Head(wire).gen
      BY <1>1, <1>4 DEF ReadBind, Types
    <3>2. 1 \in DOMAIN wire /\ Head(wire) = wire[1] /\ wire[1].gen \in Nat
      BY <3>1, TailAt
    <3> QED BY <3>1, <3>2 DEF Base, SnapshotInOrder, BindsInOrder
  <2>3. \A p \in DOMAIN made : made[p].pool <= snapshot => made[p].pool <= snapshot'
    BY <1>1, <2>2, MadeTypes
  <2>4. PointsKnown'
    BY <1>1, <2>1 DEF AllKnown, PointsKnown
  <2>5. PoolsKnown'
    BY <1>1, <2>1, <2>3 DEF AllKnown, PointsKnown, PoolsKnown
  <2> QED BY <2>4, <2>5 DEF AllKnown
<1>5. CASE ClearFences
  <2>1. UNCHANGED <<made, out, sampling, snapshot>>
    BY <1>5 DEF ClearFences, rendererVars, displayVars
  <2>2. latest'.point = None
    BY <1>5 DEF ClearFences
  <2>3. PointsOf(wire') = PointsOf(wire) /\ PointsOf(events') \subseteq PointsOf(events)
    BY <1>5, ClearEffect
  <2>4. PointsKnown'
    BY <1>1, <2>1, <2>2, <2>3 DEF AllKnown, PointsKnown
  <2>5. PoolsKnown'
    BY <1>1, <2>1, <2>2, <2>3 DEF AllKnown, PoolsKnown
  <2> QED BY <2>4, <2>5 DEF AllKnown
<1>6. CASE ReadFrame
  <2>1. UNCHANGED <<made, out, sampling, snapshot>>
    BY <1>6 DEF ReadFrame, rendererVars, displayVars
  <2>2. /\ latest'.point = Head(wire).point
        /\ PointsOf(wire') \subseteq PointsOf(wire)
        /\ PointsOf(events') \subseteq PointsOf(events) \cup {Head(wire).point}
    BY <1>6, ReadEffect
  <2>3. Head(wire).point \in DOMAIN made /\ made[Head(wire).point].pool <= snapshot
    BY <1>6, HeadIsKnown
  <2>4. PointsKnown'
    BY <1>1, <2>1, <2>2, <2>3 DEF AllKnown, PointsKnown
  <2>5. PoolsKnown'
    BY <1>1, <2>1, <2>2, <2>3 DEF AllKnown, PoolsKnown
  <2> QED BY <2>4, <2>5 DEF AllKnown
<1>7. CASE HandleFrame
  <2>1. UNCHANGED <<made, wire, snapshot, latest, sampling>>
    BY <1>7 DEF HandleFrame, rendererVars, readerVars, displayVars
  <2>2. /\ PointsOf(events) = PointsOf(events') \cup {Head(events).point}
        /\ \A d \in Recipients : PointsOf(out'[d]) = PointsOf(out[d]) \cup {Head(events).point}
        /\ \A d \in Displays \ Recipients : out'[d] = out[d]
    BY <1>1, <1>7, HandleEffect
  <2>3. \A e \in Displays : PointsOf(out'[e]) \subseteq PointsOf(out[e]) \cup PointsOf(events)
    BY <2>2
  <2> QED BY <1>1, <2>1, <2>2, <2>3, KeepsKnown
<1>8. CASE SyncOne
  <2>1. UNCHANGED <<made, wire, events, snapshot, latest, sampling>>
    BY <1>8 DEF SyncOne, rendererVars, readerVars, displayVars
  <2>2. PICK d \in Displays : SyncDisplay(d)
    BY <1>1, <1>8 DEF SyncOne, Types
  <2>3. \A e \in Displays :
          PointsOf(out'[e]) \subseteq PointsOf(out[e]) \cup ({latest.point} \ {None})
    BY <1>1, <2>2, SyncEffect
  <2> QED BY <1>1, <2>1, <2>3, KeepsKnown
<1>9. CASE Others
  <2>1. /\ UNCHANGED <<out, sampling>> /\ PointsOf(events') \subseteq PointsOf(events)
        /\ UNCHANGED <<made, wire, snapshot, latest>>
    BY <1>1, <1>9, OthersKeep DEF WireKept
  <2> QED BY <1>1, <2>1, KeepsKnown
<1>10. ASSUME NEW d \in Displays, OfADisplay(d) PROVE AllKnown'
  <2>1. UNCHANGED <<made, wire, snapshot, latest>>
    BY <1>10, DisplayKeepsWire DEF WireKept
  <2>2. /\ \A e \in Displays : PointsOf(out'[e]) \cup sampling'[e]
                                 \subseteq PointsOf(out[e]) \cup sampling[e]
        /\ events' = events
    BY <1>1, <1>10, HeldShrinks
  <2> QED BY <1>1, <2>1, <2>2, KeepsKnown
<1> QED BY <1>2, <1>3, <1>4, <1>5, <1>6, <1>7, <1>8, <1>9, <1>10, NextCases

LEMMA FreshStep ==
  ASSUME Base, Next
  PROVE  Fresh'
<1> USE DEF rendererVars, readerVars, routerVars, displayVars, reaperVars
<1>1. Types /\ Fresh
  BY DEF Base
<1>2. CASE NewPool \/ Submit \/ ReadBind \/ ClearFences \/ ReadFrame
  BY <1>1, <1>2 DEF NewPool, Submit, SubmitTo, ReadBind, ClearFences, ReadFrame, Fresh
<1>3. CASE HandleFrame
  <2>1. \A d \in Displays \ Recipients : out'[d] = out[d]
    BY <1>1, <1>3, HandleEffect
  <2>2. UNCHANGED <<here, alive, dead, sampling>>
    BY <1>3 DEF HandleFrame
  <2> QED BY <1>1, <2>1, <2>2 DEF Fresh, Recipients
<1>4. CASE SyncOne
  <2>1. PICK d \in Displays : SyncDisplay(d)
    BY <1>1, <1>4 DEF SyncOne, Types
  <2>2. UNCHANGED <<here, alive, dead, sampling>>
    BY <1>4 DEF SyncOne
  <2>3. \A e \in Displays : e = d \/ out'[e] = out[e]
    BY <1>1, <2>1 DEF SyncDisplay, Types
  <2>4. d \in here \/ out' = out
    BY <2>1 DEF SyncDisplay
  <2> QED BY <1>1, <2>2, <2>3, <2>4 DEF Fresh
<1>5. CASE Others
  <2>1. UNCHANGED <<out, sampling>>
    BY <1>1, <1>5, OthersKeep
  <2>2. here' \subseteq alive' \cup dead' /\ alive \cup dead \subseteq alive' \cup dead'
    BY <1>1, <1>5 DEF Others, HandleBind, ReceiveRecord, Expire, Flush, Come, Unlink, Fresh
  <2> QED BY <2>1, <2>2, MonotoneFresh
<1>6. ASSUME NEW d \in Displays, OfADisplay(d) PROVE Fresh'
  <2>1. alive \cup dead = alive' \cup dead' /\ here' \subseteq here
    BY <1>1, <1>6 DEF OfADisplay, SendBind, SendConfig, SendUnbind, ForwardFrame, SubmitRecord,
         Leave, CrashDisplay, Release, Disconnected, Types
  <2>2. ASSUME NEW e \in Displays, e \notin alive \cup dead
        PROVE  out'[e] = <<>> /\ sampling'[e] = {}
    <3>1. e \notin here /\ out[e] = <<>> /\ sampling[e] = {}
      BY <1>1, <2>2 DEF Fresh
    <3>2. CASE SendBind(d) \/ SendConfig(d) \/ SendUnbind(d)
      <4>1. e # d /\ sampling' = sampling
        BY <1>1, <3>1, <3>2, SendEffect DEF SendBind, SendConfig, SendUnbind
      <4> QED BY <1>1, <3>1, <3>2, <4>1, SendEffect
    <3>3. CASE ForwardFrame(d)
      <4>1. e # d
        BY <1>1, <3>1, <3>3, ForwardEffect
      <4>2. CASE Fenced(d)
        BY <1>1, <3>1, <3>3, <4>1, <4>2, ForwardEffect DEF Types
      <4>3. CASE ~Fenced(d)
        BY <1>1, <3>1, <3>3, <4>1, <4>3, ForwardEffect, DisconnectEffect
      <4> QED BY <4>2, <4>3
    <3>4. CASE SubmitRecord(d) \/ CrashDisplay(d)
      BY <3>1, <3>4 DEF SubmitRecord, CrashDisplay
    <3>5. CASE Leave(d)
      <4>1. d \in here /\ sampling' = sampling /\ Disconnected(d)
        BY <3>5 DEF Leave
      <4> QED BY <1>1, <3>1, <4>1, DisconnectEffect
    <3>6. CASE Release(d)
      BY <1>1, <3>1, <3>6 DEF Release, Types
    <3> QED BY <1>6, <3>2, <3>3, <3>4, <3>5, <3>6 DEF OfADisplay
  <2> QED BY <1>1, <2>1, <2>2 DEF Fresh
<1> QED BY <1>2, <1>3, <1>4, <1>5, <1>6, NextCases

LEMMA OneAtATimeStep ==
  ASSUME Base, Next
  PROVE  OneAtATime'
<1> USE DEF rendererVars, readerVars, routerVars, displayVars, reaperVars
<1>1. Types /\ OneAtATime
  BY DEF Base
<1>2. \A d \in Displays : \A r \in sending'[d] : r.handle = {d} /\ sending'[d] = {r}
  <2>1. ASSUME NEW d \in Displays, ForwardFrame(d)
        PROVE  \A e \in Displays : \A r \in sending'[e] : r.handle = {e} /\ sending'[e] = {r}
    <3> DEFINE rec == Record(Head(out[d]).point, {d}, Head(out[d]).expected)
    <3>1. rec.handle = {d}
      BY DEF Record
    <3>2. sending' = sending \/ sending' = [sending EXCEPT ![d] = {rec}]
      BY <1>1, <2>1, ForwardEffect
    <3> HIDE DEF rec
    <3>3. \A e \in Displays : sending'[e] = sending[e] \/ (e = d /\ sending'[e] = {rec})
      BY <1>1, <3>2 DEF Types
    <3> QED BY <1>1, <3>1, <3>3 DEF OneAtATime
  <2>2. ASSUME NEW d \in Displays, SubmitRecord(d)
        PROVE  \A e \in Displays : \A r \in sending'[e] : r.handle = {e} /\ sending'[e] = {r}
    <3>1. \A e \in Displays : sending'[e] = sending[e] \/ sending'[e] = {}
      BY <1>1, <2>2 DEF SubmitRecord, Types
    <3> QED BY <1>1, <3>1 DEF OneAtATime
  <2>3. CASE UNCHANGED sending
    BY <1>1, <2>3 DEF OneAtATime
  <2>4. \/ UNCHANGED sending
        \/ \E d \in Displays : ForwardFrame(d) \/ SubmitRecord(d)
    BY <1>1, NextCases, OthersKeep DEF NewPool, Submit, SubmitTo, ReadBind, ClearFences, ReadFrame,
       HandleFrame, SyncOne, OfADisplay, SendBind, SendConfig, SendUnbind, Leave, CrashDisplay,
       Release
  <2> QED BY <2>1, <2>2, <2>3, <2>4
<1>3. \A b \in flushing' : flushing' = {b}
  <2>1. CASE flushing' = flushing
    BY <1>1, <2>1 DEF OneAtATime
  <2>2. CASE ReceiveRecord
    BY <1>1, <2>2 DEF ReceiveRecord, OneAtATime
  <2>3. CASE Expire \/ Flush
    BY <2>3 DEF Expire, Flush
  <2>4. flushing' = flushing \/ ReceiveRecord \/ Expire \/ Flush
    BY NextCases DEF NewPool, Submit, SubmitTo, ReadBind, ClearFences, ReadFrame,
       HandleFrame, SyncOne, OfADisplay, SendBind, SendConfig, SendUnbind, ForwardFrame,
       SubmitRecord, Leave, CrashDisplay, Release, Others, HandleBind, Come, Unlink
  <2> QED BY <2>1, <2>2, <2>3, <2>4
<1> QED BY <1>2, <1>3 DEF OneAtATime

LEMMA StillOnceStep ==
  ASSUME Base, StillOnce, Next
  PROVE  StillOnce'
<1>1. Types /\ PoolsGrow /\ Still' = Still
  BY StillConstant DEF Base
<1>2. CASE NewPool
  <2>1. pool' = pool + 1 /\ made' = made
    BY <1>2 DEF NewPool
  <2>2. \A p \in DOMAIN made : made[p].pool # pool + 1
    BY SMTT(30), <1>1, MadeTypes DEF PoolsGrow, Types
  <2> QED BY <2>1, <2>2 DEF StillOnce, Current
<1>3. CASE Submit
  <2>1. /\ DOMAIN made' = DOMAIN made \cup {Len(made) + 1}
        /\ \A p \in DOMAIN made : made'[p] = made[p]
        /\ made'[Len(made) + 1] = [pool |-> pool, slot |-> next]
        /\ filled' = [filled EXCEPT ![next] = Len(made) + 1] /\ next \in Slots
    BY <1>1, <1>3, SubmitEffect
  <2>2. pool' = pool
    BY <1>3 DEF Submit, SubmitTo
  <2>3. ASSUME Still, NEW p \in DOMAIN made' PROVE Current(p)' => filled'[made'[p].slot] = p
    <3>1. CASE p = Len(made) + 1
      BY <1>1, <2>1, <3>1 DEF Types
    <3>2. CASE p \in DOMAIN made
      <4>1. \A s \in Slots : filled[s] = None
        BY <1>3, <2>3 DEF Submit, Once
      <4>2. made[p].slot \in Slots /\ p \in 1..Len(made)
        BY <1>1, <3>2, MadeTypes
      <4>3. p # None
        BY <4>2 DEF None
      <4> QED BY <1>1, <2>1, <2>2, <2>3, <3>2, <4>1, <4>2, <4>3 DEF StillOnce, Current
    <3> QED BY <2>1, <3>1, <3>2
  <2> QED BY <1>1, <2>3 DEF StillOnce
<1>4. CASE UNCHANGED <<made, pool, filled>>
  BY <1>1, <1>4 DEF StillOnce, Current
<1>5. NewPool \/ Submit \/ UNCHANGED <<made, pool, filled>>
  BY WireIsKept DEF WireKept, ReadBind, ClearFences, ReadFrame, rendererVars
<1> QED BY <1>2, <1>3, <1>4, <1>5

LEMMA BaseStep ==
  ASSUME Base, StillOnce, Next
  PROVE  Base' /\ StillOnce'
  BY TypesStep, OrderStep, KnownStep, FreshStep, OneAtATimeStep, StillOnceStep DEF Base, AllKnown

-----------------------------------------------------------------------------
(* The frames of the current pool: what most steps leave as it was.        *)

\* Nobody holds a frame that was not held, or answers for one.
Calm ==
  /\ UNCHANGED <<pool, made, filled>> /\ forced \subseteq forced'
  /\ \A d \in Live' : Held(d)' \subseteq Held(d) /\ (d \in Live \/ Held(d)' = {})
  /\ \A d \in Displays : \A t : Carries(d, t)' => Carries(d, t)
  /\ \A t, x : Promised(t, x)' => Promised(t, x)
  /\ \A r \in RangeOf(records') : r.handle = Nobody => r \in RangeOf(records)
  /\ Coming' \subseteq Coming

LEMMA ExcusedStays ==
  ASSUME forced \subseteq forced', NEW p, Excused(p)
  PROVE  Excused(p)'
  BY DEF Excused

LEMMA PromisedIsNat ==
  ASSUME Types, NEW t, NEW x, Promised(t, x)
  PROVE  x \in Nat
<1>1. \A d \in Displays : \A f \in FramesOf(out[d]) : f.expected \in Nat
  <2> SUFFICES ASSUME NEW d \in Displays, NEW f \in FramesOf(out[d]) PROVE f.expected \in Nat
    OBVIOUS
  <2>1. out[d] \in Seq(Item)
    BY DEF Types
  <2>2. f \in Item
    BY <2>1 DEF FramesOf, RangeOf
  <2> QED BY <2>2 DEF Item
<1>2. \A d \in Displays : \A r \in sending[d] : r.expected \in Nat
  BY DEF Types, Rec
<1>3. \A r \in RangeOf(records) : r.expected \in Nat
  <2>1. \A r \in RangeOf(records) : r \in Rec
    BY DEF Types, RangeOf
  <2> QED BY <2>1 DEF Rec
<1>4. t \in DOMAIN buckets => buckets[t].expected \in Nat
  BY DEF Types
<1> QED BY <1>1, <1>2, <1>3, <1>4 DEF Promised

LEMMA FewerCarriers ==
  ASSUME Types, NEW t, \A d \in Displays : Carries(d, t)' => Carries(d, t)
  PROVE  /\ Cardinality(Carriers(t)) \in Nat /\ Cardinality(Carriers(t)') \in Nat
         /\ Cardinality(Carriers(t)') <= Cardinality(Carriers(t))
<1>1. Carriers(t) \subseteq Displays /\ Carriers(t)' \subseteq Carriers(t)
  BY DEF Carriers
<1>2. IsFiniteSet(Carriers(t))
  BY <1>1, RecipientsFinite
<1>3. IsFiniteSet(Carriers(t)')
  BY <1>1, RecipientsFinite
<1> HIDE DEF Carriers
<1> QED BY <1>1, <1>2, <1>3, FS_Subset, FS_CardinalityType

LEMMA CalmSlots ==
  ASSUME Calm, SlotsWait, SlotsKept
  PROVE  SlotsWait' /\ SlotsKept'
<1>1. SlotsWait'
  BY DEF Calm, SlotsWait, Current
<1>2. SlotsKept'
  <2> SUFFICES ASSUME NEW d \in Live', NEW p \in Holds(d)'
               PROVE  (filled[made[p].slot] = p \/ Excused(p))'
    BY DEF SlotsKept
  <2>1. p \in Held(d) /\ Current(p) /\ d \in Live
    BY DEF Calm, Holds, Current
  <2>2. filled[made[p].slot] = p \/ Excused(p)
    BY <2>1 DEF SlotsKept, Holds
  <2> QED BY <2>2, ExcusedStays DEF Calm
<1> QED BY <1>1, <1>2

LEMMA CalmHolds ==
  ASSUME Calm, NEW d \in Live', NEW p \in Holds(d)'
  PROVE  d \in Live /\ p \in Holds(d)
  BY DEF Calm, Holds, Current

LEMMA CalmTimeline ==
  ASSUME Calm, timeline' = timeline, NotReleased
  PROVE  NotReleased'
<1> SUFFICES ASSUME NEW d \in Live', NEW p \in Holds(d)'
             PROVE  (p > timeline \/ Excused(p))'
  BY DEF NotReleased
<1>1. p > timeline \/ Excused(p)
  BY CalmHolds DEF NotReleased
<1> QED BY <1>1, ExcusedStays DEF Calm

LEMMA CalmReaper ==
  ASSUME Types, Calm, NobodyElse, NotTooMany
  PROVE  NobodyElse' /\ NotTooMany'
<1>1. NobodyElse'
  <2> SUFFICES ASSUME NEW r \in RangeOf(records'), r.handle = Nobody,
                      NEW d \in Live', NEW p \in Holds(d)'
               PROVE  p > r.point
    BY DEF NobodyElse
  <2> QED BY CalmHolds DEF NobodyElse, Calm
<1>2. NotTooMany'
  <2> SUFFICES ASSUME NEW t, NEW x, Promised(t, x)'
               PROVE  Cardinality(Carriers(t)') <= x
    BY DEF NotTooMany
  <2>1. Promised(t, x) /\ \A d \in Displays : Carries(d, t)' => Carries(d, t)
    BY DEF Calm
  <2>2. Cardinality(Carriers(t)) <= x /\ x \in Nat
    BY <2>1, PromisedIsNat DEF NotTooMany
  <2> QED BY <2>1, <2>2, FewerCarriers
<1> QED BY <1>1, <1>2

LEMMA CalmCarry ==
  ASSUME Calm, AllCarry,
         \A d \in Live' : \A t : Carries(d, t) =>
            Carries(d, t)' \/ \A p \in Holds(d)' : p <= t => Excused(p)'
  PROVE  AllCarry'
<1> SUFFICES ASSUME NEW t, Carriers(t)' # {}, NEW d \in Live', NEW p \in Holds(d)', p <= t
             PROVE  Carries(d, t)' \/ Excused(p)'
  BY DEF AllCarry
<1>1. Carriers(t) # {}
  BY DEF Calm, Carriers
<1>2. Carries(d, t) \/ Excused(p)
  BY <1>1, CalmHolds DEF AllCarry
<1> QED BY <1>2, ExcusedStays DEF Calm

LEMMA CalmFlush ==
  ASSUME Calm, FlushComplete, flushing' \subseteq flushing
  PROVE  FlushComplete'
<1> SUFFICES ASSUME NEW b \in flushing', b.point \notin forced',
                    NEW d \in Live', NEW p \in Holds(d)', p <= b.point
             PROVE  d \in b.handles \/ Excused(p)'
  BY DEF FlushComplete, Complete
<1>1. d \in b.handles \/ Excused(p)
  BY CalmHolds DEF FlushComplete, Complete, Calm
<1> QED BY <1>1, ExcusedStays DEF Calm

\* The queues keep their order when they lose frames only.
LEMMA FewerOut ==
  ASSUME NEW d \in Displays, FramesOf(out'[d]) \subseteq FramesOf(out[d])
  PROVE  PointsOf(out'[d]) \subseteq PointsOf(out[d])
  BY DEF PointsOf

LEMMA FewerQueued ==
  ASSUME Types, QueuesInOrder, OldestFirst,
         \A d \in Displays : /\ FramesOf(out'[d]) \subseteq FramesOf(out[d])
                             /\ Increasing(out[d]) => Increasing(out'[d])
                             /\ sampling'[d] \subseteq sampling[d]
                             /\ \A p \in sampling[d] \ sampling'[d] : \A q \in sampling'[d] : p < q,
         \A d \in Displays : \A t : HasForwarded(d, t)' => HasForwarded(d, t)
  PROVE  QueuesInOrder' /\ OldestFirst'
<1>1. \A d \in Displays : PointsOf(out'[d]) \subseteq PointsOf(out[d])
  BY FewerOut
<1>2. QueuesInOrder'
  BY <1>1 DEF QueuesInOrder
<1>3. OldestFirst'
  <2> SUFFICES ASSUME NEW d \in Displays, NEW t, HasForwarded(d, t)'
               PROVE  /\ \A p \in PointsOf(out'[d]) : p > t
                      /\ \A p \in sampling'[d] : p <= t => t \in sampling'[d]
    BY DEF OldestFirst
  <2>1. HasForwarded(d, t)
    OBVIOUS
  <2>2. \A p \in PointsOf(out'[d]) : p > t
    BY <1>1, <2>1 DEF OldestFirst
  <2>3. ASSUME NEW p \in sampling'[d], p <= t PROVE t \in sampling'[d]
    <3>1. t \in sampling[d]
      BY <2>1, <2>3 DEF OldestFirst
    <3>2. t \notin sampling'[d] => t < p
      BY <2>3, <3>1
    <3>3. t \in Nat /\ p \in Nat
      BY <3>1, <2>3 DEF Types
    <3> QED BY <2>3, <3>2, <3>3
  <2> QED BY <2>2, <2>3
<1> QED BY <1>2, <1>3

\* The reaper is told nothing.
LEMMA ReaperIdle ==
  ASSUME UNCHANGED <<sending, records, buckets, flushing>>,
         \A d \in Displays : /\ FramesOf(out'[d]) \subseteq FramesOf(out[d])
                             /\ sampling'[d] \subseteq sampling[d]
  PROVE  /\ \A d \in Displays : \A t : HasForwarded(d, t)' <=> HasForwarded(d, t)
         /\ \A d \in Displays : \A t : Carries(d, t)' => Carries(d, t)
         /\ \A d \in Displays : \A t :
              FramesOf(out'[d]) = FramesOf(out[d]) => (Carries(d, t) => Carries(d, t)')
         /\ \A t, x : Promised(t, x)' => Promised(t, x)
         /\ timeline' = timeline => \A p : Handled(p)' => Handled(p)
<1>1. \A d \in Displays : PointsOf(out'[d]) \subseteq PointsOf(out[d])
  BY FewerOut
<1>2. \A d \in Displays : \A t : HasForwarded(d, t)' <=> HasForwarded(d, t)
  BY DEF HasForwarded
<1>3. \A d \in Displays : \A t : Carries(d, t)' => Carries(d, t)
  BY <1>1, <1>2 DEF Carries
<1>4. \A d \in Displays : \A t :
        FramesOf(out'[d]) = FramesOf(out[d]) => (Carries(d, t) => Carries(d, t)')
  BY <1>2 DEF Carries, PointsOf
<1>5. \A t, x : Promised(t, x)' => Promised(t, x)
  BY DEF Promised
<1>6. timeline' = timeline => \A p : Handled(p)' => Handled(p)
  BY <1>1, <1>2 DEF Handled, Held
<1> QED BY <1>2, <1>3, <1>4, <1>5, <1>6

\* Steps that only take frames from the queues.
LEMMA QuietFlow ==
  ASSUME Base, Base', Flow,
         UNCHANGED <<pool, made, filled, timeline, forced, sending, records, buckets, flushing>>,
         \A d \in Displays : /\ FramesOf(out'[d]) \subseteq FramesOf(out[d])
                             /\ Increasing(out[d]) => Increasing(out'[d])
                             /\ sampling'[d] \subseteq sampling[d]
                             /\ \A p \in sampling[d] \ sampling'[d] : \A q \in sampling'[d] : p < q,
         \A d \in Live' : /\ d \in Live \/ Held(d)' = {}
                          /\ FramesOf(out'[d]) = FramesOf(out[d]),
         Coming' \subseteq Coming,
         Increasing(events'), Increasing(wire'),
         \A p \in PointsOf(events'), q \in PointsOf(wire') : p < q,
         BoundToPool'
  PROVE  Flow'
<1>1. Types /\ InOrder /\ QueuesInOrder /\ SlotFlow /\ ReaperFlow /\ OldestFirst
  BY DEF Base, Flow
<1>2. /\ \A d \in Displays : \A t : HasForwarded(d, t)' <=> HasForwarded(d, t)
      /\ \A d \in Displays : \A t : Carries(d, t)' => Carries(d, t)
      /\ \A d \in Displays : \A t :
           FramesOf(out'[d]) = FramesOf(out[d]) => (Carries(d, t) => Carries(d, t)')
      /\ \A t, x : Promised(t, x)' => Promised(t, x)
      /\ \A p : Handled(p)' => Handled(p)
  BY ReaperIdle
<1>3. Live' \subseteq Displays
  BY DEF Base, Types, Live
<1>4. Calm
  <2>1. \A d \in Displays : Held(d)' \subseteq Held(d)
    BY FewerOut DEF Held
  <2> QED BY <1>2, <1>3, <2>1 DEF Calm
<1>5. InOrder'
  BY <1>1, <1>2 DEF InOrder
<1>6. QueuesInOrder' /\ OldestFirst'
  BY <1>1, <1>2, FewerQueued
<1>7. SlotFlow'
  BY <1>1, <1>4, CalmSlots, CalmTimeline DEF SlotFlow
<1>8. AllCarry'
  BY <1>1, <1>2, <1>3, <1>4, CalmCarry DEF ReaperFlow
<1>9. ReaperFlow'
  BY <1>1, <1>4, <1>8, CalmReaper, CalmFlush DEF ReaperFlow
<1> QED BY <1>5, <1>6, <1>7, <1>9 DEF Flow

LEMMA NothingForwarded ==
  ASSUME Base, Flow
  PROVE  /\ Types /\ InOrder /\ QueuesInOrder /\ BoundToPool
         /\ Increasing(events) /\ Increasing(wire)
         /\ \A p \in PointsOf(events), q \in PointsOf(wire) : p < q
  BY DEF Base, Flow, InOrder, SlotFlow

LEMMA ReaderFlow ==
  ASSUME Base, Base', Flow, ReadBind \/ ClearFences \/ ReadFrame
  PROVE  Flow'
<1>1. /\ Types /\ InOrder /\ QueuesInOrder /\ BoundToPool
      /\ Increasing(events) /\ Increasing(wire)
      /\ \A p \in PointsOf(events), q \in PointsOf(wire) : p < q
  BY NothingForwarded
<1>2. /\ UNCHANGED <<pool, made, filled, timeline, forced, sending, records, buckets, flushing>>
      /\ UNCHANGED <<out, sampling, link, alive, bound>>
  BY DEF ReadBind, ClearFences, ReadFrame, rendererVars, reaperVars, displayVars, routerVars
<1>3. Live' = Live /\ BoundToPool'
  BY <1>1, <1>2 DEF Live, BoundToPool, Holds, Held, Current
<1>4. CASE ReadBind
  <2>1. UNCHANGED <<wire, events>>
    BY <1>4 DEF ReadBind
  <2> QED BY <1>1, <1>2, <1>3, <2>1, QuietFlow DEF Coming
<1>5. CASE ClearFences
  <2>1. /\ wire \in Seq(Item) /\ wire # <<>> /\ wire' = Tail(wire)
        /\ Head(wire) \in Item /\ Head(wire).op # "frame"
        /\ PointsOf(wire') = PointsOf(wire) /\ PointsOf(events') \subseteq PointsOf(events)
    BY <1>5, ClearEffect
  <2>2. Increasing(wire')
    BY <1>1, <2>1, TailIncreasing
  <2>3. Increasing(events')
    BY <1>1, <1>5, <2>1, BroadcastIncreasing DEF ClearFences, Types
  <2> QED BY <1>1, <1>2, <1>3, <2>1, <2>2, <2>3, QuietFlow DEF Coming
<1>6. CASE ReadFrame
  <2>1. /\ wire \in Seq(Item) /\ wire # <<>> /\ wire' = Tail(wire) /\ Head(wire).op = "frame"
        /\ Head(wire) \in Item
        /\ PointsOf(wire) = PointsOf(wire') \cup {Head(wire).point}
        /\ PointsOf(events') \subseteq PointsOf(events) \cup {Head(wire).point}
    BY <1>6, ReadEffect
  <2>2. Increasing(wire') /\ \A q \in PointsOf(wire') : Head(wire).point < q
    BY <1>1, <2>1, TailIncreasing
  <2>3. Increasing(events')
    BY <1>1, <1>6, <2>1, BroadcastIncreasing DEF ReadFrame, Types
  <2>4. Coming' \subseteq Coming
    BY <2>1 DEF Coming
  <2>5. \A p \in PointsOf(events'), q \in PointsOf(wire') : p < q
    BY <1>1, <2>1, <2>2
  <2> QED BY <1>1, <1>2, <1>3, <2>2, <2>3, <2>4, <2>5, QuietFlow
<1> QED BY <1>4, <1>5, <1>6

LEMMA RouterFlow ==
  ASSUME Base, Base', Flow, ~Still,
         HandleBind \/ SyncOne \/ \E d \in Displays : Come(d) \/ Unlink(d)
  PROVE  Flow'
<1>1. /\ Types /\ InOrder /\ QueuesInOrder /\ BoundToPool
      /\ Increasing(events) /\ Increasing(wire)
      /\ \A p \in PointsOf(events), q \in PointsOf(wire) : p < q
  BY NothingForwarded
<1>2. /\ UNCHANGED <<pool, made, filled, timeline, forced, sending, records, buckets, flushing>>
      /\ UNCHANGED <<wire, sampling>>
  BY DEF HandleBind, SyncOne, Come, Unlink, rendererVars, reaperVars, displayVars
<1>3. CASE HandleBind
  <2>1. /\ events \in Seq(Item) /\ events # <<>> /\ events' = Tail(events)
        /\ Head(events).op # "frame"
    BY <1>1, <1>3 DEF HandleBind, Types
  <2>2. PointsOf(events') \subseteq PointsOf(events) /\ Increasing(events')
    BY <1>1, <2>1, TakenFrame, TailIncreasing
  <2>3. UNCHANGED <<out, link, alive, bound>>
    BY <1>3 DEF HandleBind, displayVars
  <2>4. Live' = Live /\ BoundToPool'
    BY <1>1, <1>2, <2>3 DEF Live, BoundToPool, Holds, Held, Current
  <2> QED BY <1>1, <1>2, <2>2, <2>3, <2>4, QuietFlow DEF Coming
<1>4. CASE SyncOne
  <2>1. UNCHANGED <<events, link, alive, snapshot, here>>
    BY <1>4 DEF SyncOne, displayVars, readerVars
  <2>2. PICK d \in Displays : SyncDisplay(d)
    BY <1>1, <1>4 DEF SyncOne, Types
  <2>3. \A e \in Displays :
          /\ FramesOf(out'[e]) = FramesOf(out[e])
          /\ Increasing(out[e]) => Increasing(out'[e])
          /\ bound'[e] = bound[e] \/ (bound[e] # Target(e) /\ bound'[e] = Target(e))
    BY <1>1, <2>2, SyncEffect
  <2>4. \A e \in Displays : Held(e)' = Held(e)
    BY <1>2, <2>3 DEF Held, PointsOf
  <2>5. BoundToPool'
    <3> SUFFICES ASSUME NEW e \in link, NEW p \in Holds(e)' PROVE bound'[e] = pool
      BY <1>2, <2>1 DEF BoundToPool
    <3>1. e \in Displays /\ p \in Held(e) /\ p \in DOMAIN made /\ made[p].pool = pool
      BY <1>1, <1>2, <2>1, <2>4 DEF Holds, Current, Types, Held, Base, PointsKnown
    <3>2. bound[e] = pool
      BY <3>1 DEF Holds, Current, Base, Flow, SlotFlow, BoundToPool
    <3>3. made[p].pool <= snapshot
      BY <3>1 DEF Base, PoolsKnown, Held
    <3>4. snapshot = pool
      <4>1. snapshot <= pool /\ snapshot \in Nat /\ pool \in Nat
        BY DEF Base, SnapshotInOrder, BindsInOrder, Types
      <4> QED BY <3>1, <3>3, <4>1
    <3>5. Target(e) = snapshot
      BY DEF Target
    <3> QED BY <2>3, <3>1, <3>2, <3>4, <3>5
  <2>6. Live' = Live /\ Live \subseteq Displays
    BY <1>1, <2>1 DEF Live, Types
  <2> QED BY <1>1, <1>2, <2>1, <2>3, <2>5, <2>6, QuietFlow DEF Coming
<1>5. ASSUME NEW d \in Displays, Come(d) PROVE Flow'
  <2>1. /\ UNCHANGED <<events, out, bound>> /\ link' = link \cup {d} /\ alive' = alive \cup {d}
        /\ d \notin alive \cup dead
    BY <1>5 DEF Come, displayVars
  <2>2. Held(d)' = {}
    BY <1>2, <2>1, EmptyQueue DEF Base, Fresh, Held
  <2>3. \A e \in Live' : e \in Live \/ Held(e)' = {}
    <3> SUFFICES ASSUME NEW e \in Live', e # d PROVE e \in Live
      BY <2>2
    <3> QED BY <2>1 DEF Live
  <2>4. BoundToPool'
    <3>1. Holds(d)' = {}
      BY <2>2 DEF Holds
    <3>2. \A e \in Displays : Holds(e)' = Holds(e)
      BY <1>2, <2>1 DEF Holds, Held, Current
    <3> QED BY <1>1, <1>2, <2>1, <3>1, <3>2 DEF BoundToPool, Types
  <2> QED BY <1>1, <1>2, <2>1, <2>3, <2>4, QuietFlow DEF Coming
<1>6. ASSUME NEW d \in Displays, Unlink(d) PROVE Flow'
  <2>1. UNCHANGED <<events, out, bound>> /\ link' = link \ {d} /\ alive' = alive
    BY <1>6 DEF Unlink, displayVars
  <2>2. Live' \subseteq Live
    BY <2>1 DEF Live
  <2>3. BoundToPool'
    BY <1>1, <1>2, <2>1 DEF BoundToPool, Holds, Held, Current
  <2> QED BY <1>1, <1>2, <2>1, <2>2, <2>3, QuietFlow DEF Coming
<1> QED BY <1>3, <1>4, <1>5, <1>6

\* The display's own steps that take frames away or leave them.
LEMMA DisplayFlow ==
  ASSUME Base, Base', Flow, NEW d \in Displays,
         \/ SendBind(d) \/ SendConfig(d) \/ SendUnbind(d) \/ Leave(d) \/ CrashDisplay(d)
         \/ Release(d) \/ (ForwardFrame(d) /\ ~Fenced(d))
  PROVE  Flow'
<1>1. /\ Types /\ InOrder /\ QueuesInOrder /\ BoundToPool
      /\ Increasing(events) /\ Increasing(wire)
      /\ \A p \in PointsOf(events), q \in PointsOf(wire) : p < q
  BY NothingForwarded
<1>2. /\ UNCHANGED <<pool, made, filled, timeline, forced, records, buckets, flushing>>
      /\ UNCHANGED <<wire, events>> /\ Coming' \subseteq Coming
  BY DEF SendBind, SendConfig, SendUnbind, Leave, CrashDisplay, Release, ForwardFrame,
         rendererVars, reaperVars, Coming
<1>3. CASE SendBind(d) \/ SendConfig(d) \/ SendUnbind(d)
  <2>1. UNCHANGED <<sampling, sending, link, alive, bound>>
    BY <1>3 DEF SendBind, SendConfig, SendUnbind, routerVars
  <2>2. \A e \in Displays : /\ FramesOf(out'[e]) = FramesOf(out[e])
                            /\ Increasing(out[e]) => Increasing(out'[e])
    BY <1>1, <1>3, SendEffect
  <2>3. \A e \in Displays : Held(e)' = Held(e)
    BY <2>1, <2>2 DEF Held, PointsOf
  <2>4. Live' = Live /\ Live \subseteq Displays /\ link \subseteq Displays
    BY <1>1, <2>1 DEF Live, Types
  <2>5. BoundToPool'
    BY <1>1, <1>2, <2>1, <2>3, <2>4 DEF BoundToPool, Holds, Current
  <2> QED BY <1>1, <1>2, <2>1, <2>2, <2>4, <2>5, QuietFlow
<1>4. CASE Leave(d) \/ (ForwardFrame(d) /\ ~Fenced(d))
  <2>1. UNCHANGED <<sampling, sending, alive>> /\ Disconnected(d)
    BY <1>1, <1>4, ForwardEffect DEF Leave, ForwardFrame, displayVars
  <2>2. /\ d \notin link' /\ link' \subseteq link /\ FramesOf(out'[d]) = {}
        /\ out'[d] = <<>>
        /\ \A e \in Displays : e # d => out'[e] = out[e] /\ bound'[e] = bound[e]
    BY <1>1, <2>1, DisconnectEffect
  <2>3. Live' \subseteq Live /\ Live \subseteq Displays /\ d \notin Live' /\ link \subseteq Displays
    BY <1>1, <2>1, <2>2 DEF Live, Types
  <2>4. \A e \in Displays : e # d => Holds(e)' = Holds(e)
    BY <1>2, <2>1, <2>2 DEF Holds, Held, Current
  <2>5. BoundToPool'
    BY <1>1, <1>2, <2>2, <2>3, <2>4 DEF BoundToPool
  <2>6. Increasing(out'[d])
    BY <2>2, EmptyQueue
  <2>7. \A e \in Displays : /\ FramesOf(out'[e]) \subseteq FramesOf(out[e])
                            /\ Increasing(out[e]) => Increasing(out'[e])
    BY <2>2, <2>6
  <2>8. \A e \in Live' : FramesOf(out'[e]) = FramesOf(out[e])
    BY <2>2, <2>3
  <2> QED BY <1>1, <1>2, <2>1, <2>3, <2>5, <2>7, <2>8, QuietFlow
<1>5. CASE CrashDisplay(d)
  <2>1. UNCHANGED <<sampling, sending, link, bound, out>> /\ alive' = alive \ {d}
    BY <1>5 DEF CrashDisplay, routerVars
  <2>2. Live' \subseteq Live /\ BoundToPool'
    BY <1>1, <1>2, <2>1 DEF Live, BoundToPool, Holds, Held, Current
  <2> QED BY <1>1, <1>2, <2>1, <2>2, QuietFlow
<1>6. CASE Release(d)
  <2>1. UNCHANGED <<sending, link, alive, bound, out>>
    BY <1>6 DEF Release, routerVars
  <2>2. PICK p \in sampling[d] : /\ \A q \in sampling[d] : p <= q
                                 /\ sampling' = [sampling EXCEPT ![d] = @ \ {p}]
    BY <1>6 DEF Release
  <2>3. \A e \in Displays : /\ sampling'[e] \subseteq sampling[e]
                            /\ \A m \in sampling[e] \ sampling'[e] : e = d /\ m = p
    BY <1>1, <2>2 DEF Types
  <2>4. \A e \in Displays : \A m \in sampling[e] \ sampling'[e] : \A q \in sampling'[e] : m < q
    <3> SUFFICES ASSUME NEW q \in sampling'[d] PROVE p < q
      BY <2>3
    <3>1. q \in sampling[d] /\ q # p /\ q \in Nat /\ p \in Nat
      BY <1>1, <2>2 DEF Types
    <3> QED BY <2>2, <3>1
  <2>5. Live' = Live /\ Live \subseteq Displays /\ link \subseteq Displays
    BY <1>1, <2>1 DEF Live, Types
  <2>6. BoundToPool'
    <3>1. \A e \in Displays : Holds(e)' \subseteq Holds(e)
      BY <1>2, <2>1, <2>3 DEF Holds, Held, Current
    <3> QED BY <1>1, <1>2, <2>1, <2>5, <3>1 DEF BoundToPool
  <2> QED BY <1>1, <1>2, <2>1, <2>3, <2>4, <2>5, <2>6, QuietFlow
<1> QED BY <1>3, <1>4, <1>5, <1>6

-----------------------------------------------------------------------------
(* The renderer turns to a slot, or to a pool.                             *)

LEMMA RendererReaper ==
  ASSUME Types, NewPool \/ Submit
  PROVE  /\ UNCHANGED <<timeline, forced, sending, records, buckets, flushing, out, sampling,
                        events, link, alive, bound>>
         /\ \A d \in Displays : \A t : HasForwarded(d, t)' <=> HasForwarded(d, t)
         /\ \A d \in Displays : \A t : Carries(d, t)' <=> Carries(d, t)
         /\ \A t : Carriers(t)' = Carriers(t)
         /\ \A t, x : Promised(t, x)' => Promised(t, x)
         /\ \A p : Handled(p)' => Handled(p)
         /\ Live' = Live /\ \A d \in Displays : Held(d)' = Held(d)
         /\ \A p : Excused(p)' <=> Excused(p)
<1>1. UNCHANGED <<timeline, forced, sending, records, buckets, flushing, out, sampling,
                  events, link, alive, bound>>
  BY DEF NewPool, Submit, SubmitTo, reaperVars, displayVars, routerVars
<1>2. /\ \A d \in Displays : \A t : HasForwarded(d, t)' <=> HasForwarded(d, t)
      /\ \A d \in Displays : \A t : Carries(d, t)' <=> Carries(d, t)
      /\ \A t, x : Promised(t, x)' => Promised(t, x)
      /\ \A p : Handled(p)' => Handled(p)
  BY <1>1, ReaperIdle
<1>3. Live' = Live /\ \A d \in Displays : Held(d)' = Held(d)
  BY <1>1 DEF Live, Held
<1>4. \A t : Carriers(t)' = Carriers(t)
  BY <1>2 DEF Carriers
<1>5. \A p : Excused(p)' <=> Excused(p)
  BY <1>1 DEF Excused
<1> QED BY <1>1, <1>2, <1>3, <1>4, <1>5

LEMMA NewPoolFlow ==
  ASSUME Base, Base', Flow, NewPool
  PROVE  Flow'
<1>1. Types /\ InOrder /\ QueuesInOrder /\ SlotFlow /\ ReaperFlow /\ OldestFirst
  BY DEF Base, Flow
<1>2. /\ UNCHANGED <<timeline, forced, sending, records, buckets, flushing, out, sampling,
                     events, link, alive, bound>>
      /\ \A d \in Displays : \A t : HasForwarded(d, t)' <=> HasForwarded(d, t)
      /\ \A t : Carriers(t)' = Carriers(t)
      /\ \A t, x : Promised(t, x)' => Promised(t, x)
      /\ \A p : Handled(p)' => Handled(p)
  BY <1>1, RendererReaper
<1>3. made' = made /\ pool' = pool + 1
  BY DEF NewPool
<1>4. PointsOf(wire') = PointsOf(wire) /\ wire' = Append(wire, Order("bind", pool + 1))
      /\ Order("bind", pool + 1) \in Item
  BY <1>1, NewPoolEffect
<1>5. \A p \in DOMAIN made : ~Current(p)'
  <2>1. \A p \in DOMAIN made : made[p].pool # pool + 1
    <3>1. pool \in Nat
      BY <1>1 DEF Types
    <3>2. \A p \in DOMAIN made : made[p].pool <= pool
      BY DEF Base, PoolsGrow
    <3> QED BY <1>1, <3>1, <3>2, MadeTypes
  <2> QED BY <1>3, <2>1 DEF Current
<1>6. \A d \in Displays : Holds(d)' = {}
  <2>1. \A d \in Displays : Held(d) \subseteq DOMAIN made /\ Held(d)' = Held(d)
    BY <1>2 DEF Base, PointsKnown, Held
  <2> QED BY <1>5, <2>1 DEF Holds
<1>7. link' \subseteq Displays /\ Live' \subseteq Displays
  BY DEF Base, Types, Live
<1>8. Coming' = Coming /\ \A p \in Coming : ~Current(p)'
  BY <1>2, <1>4, <1>5 DEF Coming, Base, PointsKnown
<1>9. InOrder'
  <2>1. Increasing(wire')
    <3>1. Order("bind", pool + 1).op # "frame"
      BY ItemTypes, <1>1 DEF Types
    <3> QED BY <1>1, <1>4, <3>1, AppendIncreasing DEF InOrder, Types
  <2> QED BY <1>1, <1>2, <1>3, <1>4, <1>8, <2>1 DEF InOrder
<1>10. QueuesInOrder' /\ OldestFirst'
  BY <1>1, <1>2 DEF QueuesInOrder, OldestFirst
<1>11. SlotFlow'
  BY <1>6, <1>7, <1>8 DEF SlotFlow, BoundToPool, SlotsWait, SlotsKept, NotReleased
<1>12. NobodyElse' /\ AllCarry' /\ FlushComplete'
  BY <1>6, <1>7 DEF NobodyElse, AllCarry, FlushComplete, Complete
<1>13. NotTooMany'
  BY <1>1, <1>2 DEF ReaperFlow, NotTooMany
<1> QED BY <1>9, <1>10, <1>11, <1>12, <1>13 DEF Flow, ReaperFlow

LEMMA SubmitFlow ==
  ASSUME Base, Base', Flow, Submit
  PROVE  Flow'
<1>1. Types /\ InOrder /\ QueuesInOrder /\ SlotFlow /\ ReaperFlow /\ OldestFirst /\ PointsKnown
  BY DEF Base, Flow
<1>2. /\ UNCHANGED <<timeline, forced, sending, records, buckets, flushing, out, sampling,
                     events, link, alive, bound>>
      /\ \A d \in Displays : \A t : HasForwarded(d, t)' <=> HasForwarded(d, t)
      /\ \A d \in Displays : \A t : Carries(d, t)' <=> Carries(d, t)
      /\ \A t : Carriers(t)' = Carriers(t)
      /\ \A t, x : Promised(t, x)' => Promised(t, x)
      /\ \A p : Handled(p)' => Handled(p)
      /\ Live' = Live /\ \A d \in Displays : Held(d)' = Held(d)
      /\ \A p : Excused(p)' <=> Excused(p)
  BY <1>1, RendererReaper
<1>3. /\ filled[next] <= timeline /\ next \in Slots /\ Len(made) \in Nat
      /\ DOMAIN made' = DOMAIN made \cup {Len(made) + 1} /\ Len(made') = Len(made) + 1
      /\ \A p \in DOMAIN made : made'[p] = made[p]
      /\ made'[Len(made) + 1] = [pool |-> pool, slot |-> next]
      /\ filled' = [filled EXCEPT ![next] = Len(made) + 1]
      /\ wire' = Append(wire, Frame(pool, Len(made) + 1, 0))
      /\ Frame(pool, Len(made) + 1, 0) \in Item
      /\ PointsOf(wire') = PointsOf(wire) \cup {Len(made) + 1}
  BY <1>1, SubmitEffect
<1>4. pool' = pool
  BY DEF Submit, SubmitTo
<1>5. \A p \in DOMAIN made : p \in Nat /\ p < Len(made) + 1 /\ made[p].slot \in Slots
                             /\ (Current(p)' <=> Current(p))
  BY <1>1, <1>3, <1>4, MadeTypes DEF Current
<1>6. \A d \in Displays : Held(d) \subseteq DOMAIN made /\ Holds(d)' = Holds(d)
  BY <1>1, <1>2, <1>5 DEF PointsKnown, Held, Holds
<1>7. Coming \subseteq DOMAIN made /\ Coming' = Coming \cup {Len(made) + 1}
  BY <1>1, <1>2, <1>3 DEF PointsKnown, Coming
<1>8. InOrder'
  <2>1. \A p : Handled(p)' => p \in 0..Len(made') /\ \A q \in Coming' : p < q
    <3> SUFFICES ASSUME NEW p, Handled(p)
                 PROVE  p \in 0..(Len(made) + 1) /\ \A q \in Coming' : p < q
      BY <1>2, <1>3
    <3>1. p \in 0..Len(made) /\ \A q \in Coming : p < q
      BY <1>1 DEF InOrder
    <3> QED BY <1>3, <1>7, <3>1
  <2>2. Increasing(wire')
    <3> DEFINE x == Frame(pool, Len(made) + 1, 0)
    <3>1. x.point = Len(made) + 1
      BY ItemTypes
    <3>2. x \in Item /\ wire' = Append(wire, x) /\ wire \in Seq(Item) /\ Increasing(wire)
      BY <1>1, <1>3 DEF InOrder, Types
    <3>3. \A p \in PointsOf(wire) : p < x.point
      BY <1>5, <1>7, <3>1 DEF Coming
    <3> HIDE DEF x
    <3> QED BY <3>2, <3>3, AppendIncreasing
  <2>3. \A p \in PointsOf(events'), q \in PointsOf(wire') : p < q
    BY <1>1, <1>2, <1>3, <1>5, <1>7 DEF InOrder, Coming
  <2>4. Increasing(events')
    BY <1>1, <1>2 DEF InOrder
  <2> QED BY <2>1, <2>2, <2>3, <2>4 DEF InOrder
<1>9. QueuesInOrder' /\ OldestFirst'
  BY <1>1, <1>2 DEF QueuesInOrder, OldestFirst
<1>10. link \subseteq Displays /\ Live \subseteq Displays
  BY <1>1 DEF Types, Live
<1>11. BoundToPool' /\ NotReleased'
  BY <1>1, <1>2, <1>4, <1>6, <1>10 DEF SlotFlow, BoundToPool, NotReleased
<1>12. SlotsWait'
  <2> SUFFICES ASSUME NEW p \in Coming', Current(p)' PROVE filled'[made'[p].slot] = p
    BY DEF SlotsWait
  <2>1. CASE p = Len(made) + 1
    BY <1>1, <1>3, <2>1 DEF Types
  <2>2. CASE p # Len(made) + 1
    <3>1. p \in Coming /\ p \in DOMAIN made /\ Current(p) /\ made'[p] = made[p]
      BY <1>3, <1>5, <1>7, <2>2
    <3>2. filled[made[p].slot] = p
      BY <1>1, <3>1 DEF SlotFlow, SlotsWait
    <3>3. timeline < p /\ timeline \in Nat /\ p \in Nat
      <4>1. Handled(timeline)
        BY DEF Handled
      <4> QED BY <1>1, <1>5, <3>1, <4>1 DEF InOrder, Types
    <3>4. made[p].slot # next
      BY <1>3, <3>2, <3>3
    <3> QED BY <1>1, <1>3, <1>5, <3>1, <3>2, <3>4 DEF Types
  <2> QED BY <2>1, <2>2
<1>13. SlotsKept'
  <2> SUFFICES ASSUME NEW d \in Live, NEW p \in Holds(d)
               PROVE  filled'[made'[p].slot] = p \/ Excused(p)
    BY <1>2, <1>6, <1>10 DEF SlotsKept
  <2>1. p \in DOMAIN made /\ made'[p] = made[p] /\ made[p].slot \in Slots
    BY <1>3, <1>5, <1>6, <1>10 DEF Holds
  <2>2. CASE made[p].slot # next
    BY <1>1, <1>3, <2>1, <2>2 DEF SlotFlow, SlotsKept, Types
  <2>3. CASE made[p].slot = next
    <3>1. filled[next] = p => ~(p > timeline)
      BY <1>1, <1>3, <1>5, <2>1 DEF Types
    <3> QED BY <1>1, <2>3, <3>1 DEF SlotFlow, SlotsKept, NotReleased
  <2> QED BY <2>2, <2>3
<1>14. NobodyElse'
  BY <1>1, <1>2, <1>6, <1>10 DEF ReaperFlow, NobodyElse
<1>15. NotTooMany'
  BY <1>1, <1>2 DEF ReaperFlow, NotTooMany
<1>16. AllCarry'
  BY <1>1, <1>2, <1>6, <1>10 DEF ReaperFlow, AllCarry
<1>17. FlushComplete'
  BY <1>1, <1>2, <1>6, <1>10 DEF ReaperFlow, FlushComplete, Complete
<1> QED BY <1>8, <1>9, <1>11, <1>12, <1>13, <1>14, <1>15, <1>16, <1>17
        DEF Flow, SlotFlow, ReaperFlow

-----------------------------------------------------------------------------
(* A frame is handed to its recipients.                                    *)

LEMMA AppendRange ==
  ASSUME NEW S, NEW q \in Seq(S), NEW x \in S
  PROVE  RangeOf(Append(q, x)) = RangeOf(q) \cup {x}
<1>1. RangeOf(Append(q, x)) \subseteq RangeOf(q) \cup {x}
  BY DEF RangeOf
<1>2. ASSUME NEW i \in DOMAIN q PROVE q[i] \in RangeOf(Append(q, x))
  <2>1. i \in DOMAIN Append(q, x) /\ Append(q, x)[i] = q[i]
    OBVIOUS
  <2> QED BY <2>1 DEF RangeOf
<1>3. x \in RangeOf(Append(q, x))
  <2>1. Len(q) + 1 \in DOMAIN Append(q, x) /\ Append(q, x)[Len(q) + 1] = x
    OBVIOUS
  <2> QED BY <2>1 DEF RangeOf
<1> QED BY <1>1, <1>2, <1>3 DEF RangeOf

LEMMA PromisedIsHandled ==
  ASSUME NEW t, NEW x, Promised(t, x)
  PROVE  Handled(t)
<1>1. \A d \in Displays : \A f \in FramesOf(out[d]) : f.point \in Held(d)
  BY DEF Held, PointsOf
<1>2. \A d \in Displays : \A r \in sending[d] : HasForwarded(d, r.point)
  BY DEF HasForwarded
<1> QED BY <1>1, <1>2 DEF Promised, Handled

LEMMA CarrierIsHandled ==
  ASSUME NEW d \in Displays, NEW t, Carries(d, t)
  PROVE  Handled(t)
  BY DEF Carries, Handled, Held

\* Who holds a frame of the current pool and is linked is sent the next one.
LEMMA HoldersAreRecipients ==
  ASSUME Base, Flow, NEW d \in link, Holds(d) # {}
  PROVE  d \in Recipients
<1>1. d \in Displays /\ d \in here /\ bound[d] = pool
  BY DEF Base, Types, Flow, SlotFlow, BoundToPool
<1>2. PICK p \in Held(d) : made[p].pool = pool
  BY DEF Holds, Current
<1>3. pool <= snapshot /\ snapshot <= pool /\ pool \in Nat /\ snapshot \in Nat
  BY <1>1, <1>2 DEF Base, Types, PoolsKnown, Held, SnapshotInOrder, BindsInOrder
<1> QED BY <1>1, <1>3 DEF Recipients

LEMMA HandleFrameEffect ==
  ASSUME Base, HandleFrame
  PROVE  LET p == Head(events).point
         IN  /\ \A d \in Displays \ Recipients : out'[d] = out[d]
             /\ \A d \in Displays : \A t : HasForwarded(d, t)' <=> HasForwarded(d, t)
             /\ \A d \in Displays : Held(d)' = Held(d) \cup (IF d \in Recipients THEN {p} ELSE {})
             /\ \A d \in Displays : \A t :
                  Carries(d, t)' <=> Carries(d, t) \/ (t = p /\ d \in Recipients)
             /\ \A t, x : Promised(t, x)' =>
                  Promised(t, x) \/ (t = p /\ x = Cardinality(Recipients))
             /\ \A r \in RangeOf(records') : r.handle = Nobody =>
                  r \in RangeOf(records) \/ (Recipients = {} /\ r.point = p)
             /\ \A q : Handled(q)' => Handled(q) \/ q = p
<1> DEFINE p == Head(events).point
           f == Frame(snapshot, p, Cardinality(Recipients))
<1>1. /\ \A d \in Recipients : /\ FramesOf(out'[d]) = FramesOf(out[d]) \cup {f}
                               /\ PointsOf(out'[d]) = PointsOf(out[d]) \cup {p}
      /\ \A d \in Displays \ Recipients : out'[d] = out[d]
      /\ Recipients # {} => records' = records
      /\ Recipients = {} => records' = Append(records, Record(p, Nobody, 0))
      /\ p \in Nat
  BY HandleEffect DEF Base
<1>2. UNCHANGED <<sending, buckets, flushing, sampling, timeline>>
  BY DEF HandleFrame, reaperVars, displayVars
<1>3. f.point = p /\ f.expected = Cardinality(Recipients)
  BY DEF Frame
<1> DEFINE rec == Record(p, Nobody, 0)
<1>4. /\ rec.point = p /\ rec.handle = Nobody
      /\ RangeOf(records') = RangeOf(records) \cup (IF Recipients = {} THEN {rec} ELSE {})
  <2>1. rec \in Rec /\ rec.point = p /\ rec.handle = Nobody
    BY <1>1 DEF Record, Rec, Nobody
  <2>2. records \in Seq(Rec)
    BY DEF Base, Types
  <2> HIDE DEF rec
  <2>3. CASE Recipients = {}
    <3>1. records' = Append(records, rec)
      BY <1>1, <2>3 DEF rec
    <3>2. RangeOf(Append(records, rec)) = RangeOf(records) \cup {rec}
      BY <2>1, <2>2, AppendRange
    <3> QED BY <2>1, <2>3, <3>1, <3>2
  <2>4. CASE Recipients # {}
    BY <1>1, <2>1, <2>4
  <2> QED BY <2>3, <2>4
<1> HIDE DEF f, p, rec
<1>5. \A d \in Displays : \A t : HasForwarded(d, t)' <=> HasForwarded(d, t)
  <2>1. \A d \in Displays : \A t :
          (\E r \in RangeOf(records') : r.point = t /\ d \in r.handle)
            <=> (\E r \in RangeOf(records) : r.point = t /\ d \in r.handle)
    BY <1>4 DEF Nobody
  <2> QED BY <1>2, <2>1 DEF HasForwarded
<1>6. \A d \in Displays :
        /\ PointsOf(out'[d]) = PointsOf(out[d]) \cup (IF d \in Recipients THEN {p} ELSE {})
        /\ FramesOf(out'[d]) = FramesOf(out[d]) \cup (IF d \in Recipients THEN {f} ELSE {})
  <2>1. \A d \in Displays \ Recipients : /\ PointsOf(out'[d]) = PointsOf(out[d])
                                          /\ FramesOf(out'[d]) = FramesOf(out[d])
    BY <1>1
  <2>2. \A d \in Recipients : /\ PointsOf(out'[d]) = PointsOf(out[d]) \cup {p}
                              /\ FramesOf(out'[d]) = FramesOf(out[d]) \cup {f}
    BY <1>1
  <2> QED BY <2>1, <2>2
<1>7. \A d \in Displays : Held(d)' = Held(d) \cup (IF d \in Recipients THEN {p} ELSE {})
  BY <1>2, <1>6 DEF Held
<1>8. \A d \in Displays : \A t : Carries(d, t)' <=> Carries(d, t) \/ (t = p /\ d \in Recipients)
  BY <1>5, <1>6 DEF Carries
<1>9. \A t, x : Promised(t, x)' => Promised(t, x) \/ (t = p /\ x = Cardinality(Recipients))
  <2> SUFFICES ASSUME NEW t, NEW x, Promised(t, x)'
               PROVE  Promised(t, x) \/ (t = p /\ x = Cardinality(Recipients))
    OBVIOUS
  <2>1. ASSUME NEW d \in Displays, NEW g \in FramesOf(out'[d]), g.point = t, g.expected = x
        PROVE  Promised(t, x) \/ (t = p /\ x = Cardinality(Recipients))
    BY <1>3, <1>6, <2>1 DEF Promised
  <2>2. ASSUME NEW r \in RangeOf(records'), r.handle # Nobody, r.point = t, r.expected = x
        PROVE  Promised(t, x)
    BY <1>4, <2>2 DEF Promised
  <2> QED BY <1>2, <2>1, <2>2 DEF Promised
<1>10. \A q : Handled(q)' => Handled(q) \/ q = p
  <2> SUFFICES ASSUME NEW q, Handled(q)', q # p PROVE Handled(q)
    OBVIOUS
  <2>1. \A d \in Displays : q \in Held(d)' \/ HasForwarded(d, q)' =>
          q \in Held(d) \/ HasForwarded(d, q)
    BY <1>5, <1>7
  <2> QED BY <1>2, <1>4, <2>1 DEF Handled
<1>11. \A r \in RangeOf(records') : r.handle = Nobody =>
         r \in RangeOf(records) \/ (Recipients = {} /\ r.point = p)
  BY <1>4
<1> QED BY <1>1, <1>5, <1>7, <1>8, <1>9, <1>10, <1>11 DEF p

LEMMA HandleFrameFlow ==
  ASSUME Base, Base', Flow, HandleFrame
  PROVE  Flow'
<1> DEFINE p == Head(events).point
           f == Frame(snapshot, p, Cardinality(Recipients))
<1>1. Types /\ InOrder /\ QueuesInOrder /\ SlotFlow /\ ReaperFlow /\ OldestFirst /\ PointsKnown
  BY DEF Base, Flow
<1>2. /\ Head(events) \in Item /\ Head(events).op = "frame" /\ events \in Seq(Item)
      /\ events # <<>> /\ events' = Tail(events) /\ p \in Nat /\ f \in Item
      /\ PointsOf(events) = PointsOf(events') \cup {p}
      /\ \A d \in Recipients : out'[d] = Append(out[d], f)
      /\ \A d \in Recipients : PointsOf(out'[d]) = PointsOf(out[d]) \cup {p}
  BY <1>1, HandleEffect
<1>3. /\ \A d \in Displays \ Recipients : out'[d] = out[d]
      /\ \A d \in Displays : \A t : HasForwarded(d, t)' <=> HasForwarded(d, t)
      /\ \A d \in Displays : Held(d)' = Held(d) \cup (IF d \in Recipients THEN {p} ELSE {})
      /\ \A d \in Displays : \A t :
           Carries(d, t)' <=> Carries(d, t) \/ (t = p /\ d \in Recipients)
      /\ \A t, x : Promised(t, x)' =>
           Promised(t, x) \/ (t = p /\ x = Cardinality(Recipients))
      /\ \A r \in RangeOf(records') : r.handle = Nobody =>
           r \in RangeOf(records) \/ (Recipients = {} /\ r.point = p)
      /\ \A q : Handled(q)' => Handled(q) \/ q = p
  BY HandleFrameEffect
<1>4. UNCHANGED <<pool, made, filled, timeline, forced, buckets, flushing, link, here, alive, bound,
                  sampling, wire, snapshot>>
  BY DEF HandleFrame, rendererVars, reaperVars, displayVars, routerVars, readerVars
<1>5. f.op = "frame" /\ f.point = p
  BY DEF Frame
<1> HIDE DEF f, p
<1>6. p \in Coming /\ p \in DOMAIN made /\ p \in 1..Len(made)
  BY <1>1, <1>2, MadeTypes DEF Coming, PointsKnown
<1>7. \A q : Handled(q) => q < p /\ q \in Nat
  BY <1>1, <1>6 DEF InOrder
<1>8. Coming' \subseteq Coming /\ \A q \in Coming' : p < q
  <2>1. \A q \in PointsOf(events') : p < q
    BY <1>1, <1>2, TailIncreasing DEF InOrder, p
  <2>2. \A q \in PointsOf(wire') : p < q
    BY <1>1, <1>2, <1>4 DEF InOrder
  <2> QED BY <1>2, <1>4, <2>1, <2>2 DEF Coming
<1>9. /\ Live' = Live /\ Live \subseteq link /\ link \subseteq Displays
      /\ \A q : (Current(q)' <=> Current(q)) /\ (Excused(q)' <=> Excused(q))
  BY <1>1, <1>4 DEF Live, Current, Excused, Types
<1>10. \A d \in link : Holds(d) # {} => d \in Recipients
  BY HoldersAreRecipients
<1>11. \A d \in Displays : \A q \in Holds(d)' :
         q \in Holds(d) \/ (q = p /\ d \in Recipients /\ Current(p))
  BY <1>3, <1>9 DEF Holds
<1>12. \A d \in Displays : \A q \in Holds(d) : q < p /\ q \in Nat
  BY <1>7 DEF Holds, Handled
<1>13. Recipients \subseteq Displays /\ Cardinality(Recipients) \in Nat
  <2>1. Recipients \subseteq Displays
    BY <1>1 DEF Recipients, Types
  <2> QED BY <2>1, RecipientsFinite
<1>14. InOrder'
  <2>1. \A q : Handled(q)' => q \in 0..Len(made') /\ \A s \in Coming' : q < s
    <3> SUFFICES ASSUME NEW q, Handled(q)'
                 PROVE  q \in 0..Len(made) /\ \A s \in Coming' : q < s
      BY <1>4
    <3>1. CASE Handled(q)
      BY <1>1, <1>8, <3>1 DEF InOrder
    <3>2. CASE q = p
      BY <1>6, <1>8, <3>2
    <3> QED BY <1>3, <3>1, <3>2
  <2>2. Increasing(events') /\ Increasing(wire')
    BY <1>1, <1>2, <1>4, TailIncreasing DEF InOrder
  <2>3. \A q \in PointsOf(events'), s \in PointsOf(wire') : q < s
    BY <1>1, <1>2, <1>4 DEF InOrder
  <2> QED BY <2>1, <2>2, <2>3 DEF InOrder
<1>15. QueuesInOrder'
  <2> SUFFICES ASSUME NEW d \in Displays
               PROVE  /\ Increasing(out'[d])
                      /\ \A q \in sampling'[d], s \in PointsOf(out'[d]) : q < s
    BY DEF QueuesInOrder
  <2>1. Increasing(out[d]) /\ \A q \in sampling[d], s \in PointsOf(out[d]) : q < s
    BY <1>1 DEF QueuesInOrder
  <2>2. CASE d \notin Recipients
    BY <1>3, <1>4, <2>1, <2>2
  <2>3. CASE d \in Recipients
    <3>1. \A q \in PointsOf(out[d]) \cup sampling[d] : q < p
      BY <1>7 DEF Handled, Held
    <3>2. Increasing(out'[d])
      <4>1. out[d] \in Seq(Item) /\ out'[d] = Append(out[d], f)
        BY <1>1, <1>2, <2>3 DEF Types
      <4> QED BY <1>2, <1>5, <2>1, <3>1, <4>1, AppendIncreasing
    <3> QED BY <1>2, <1>4, <2>1, <2>3, <3>1, <3>2
  <2> QED BY <2>2, <2>3
<1>16. OldestFirst'
  <2> SUFFICES ASSUME NEW d \in Displays, NEW t, HasForwarded(d, t)
               PROVE  /\ \A q \in PointsOf(out'[d]) : q > t
                      /\ \A q \in sampling[d] : q <= t => t \in sampling[d]
    BY <1>3, <1>4 DEF OldestFirst
  <2>1. /\ \A q \in PointsOf(out[d]) : q > t
        /\ \A q \in sampling[d] : q <= t => t \in sampling[d]
    BY <1>1 DEF OldestFirst
  <2>2. p > t
    <3>1. Handled(t)
      BY DEF Handled
    <3> QED BY <1>2, <1>7, <3>1
  <2> QED BY ZenonT(60), <1>2, <1>3, <2>1, <2>2
<1>17. BoundToPool'
  <2> SUFFICES ASSUME NEW d \in link, NEW q \in Holds(d)' PROVE bound[d] = pool
    BY <1>4 DEF BoundToPool
  <2>1. CASE q \in Holds(d)
    BY <1>1, <2>1 DEF SlotFlow, BoundToPool
  <2>2. CASE q = p /\ d \in Recipients /\ Current(p)
    <3>1. made[p].pool <= snapshot /\ made[p].pool = pool
      BY <1>2, <2>2 DEF Base, PoolsKnown, Current
    <3>2. snapshot <= pool /\ snapshot \in Nat /\ pool \in Nat
      BY DEF Base, SnapshotInOrder, BindsInOrder, Types
    <3> QED BY <2>2, <3>1, <3>2 DEF Recipients
  <2> QED BY <1>9, <1>11, <2>1, <2>2
<1>18. SlotsWait'
  BY <1>1, <1>4, <1>8, <1>9 DEF SlotFlow, SlotsWait
<1>19. SlotsKept'
  <2> SUFFICES ASSUME NEW d \in Live, NEW q \in Holds(d)'
               PROVE  filled[made[q].slot] = q \/ Excused(q)
    BY <1>4, <1>9 DEF SlotsKept
  <2> QED BY <1>1, <1>6, <1>9, <1>11 DEF SlotFlow, SlotsKept, SlotsWait
<1>20. NotReleased'
  <2> SUFFICES ASSUME NEW d \in Live, NEW q \in Holds(d)' PROVE q > timeline \/ Excused(q)
    BY <1>4, <1>9 DEF NotReleased
  <2>1. timeline < p /\ timeline \in Nat
    BY <1>7 DEF Handled
  <2> QED BY <1>1, <1>2, <1>9, <1>11, <2>1 DEF SlotFlow, NotReleased
<1>21. NobodyElse'
  <2> SUFFICES ASSUME NEW r \in RangeOf(records'), r.handle = Nobody,
                      NEW d \in Live, NEW q \in Holds(d)'
               PROVE  q > r.point
    BY <1>9 DEF NobodyElse
  <2>1. CASE r \in RangeOf(records)
    <3>1. r.point < p /\ r.point \in Nat
      BY <1>7, <2>1 DEF Handled
    <3> QED BY <1>1, <1>2, <1>9, <1>11, <2>1, <3>1 DEF ReaperFlow, NobodyElse
  <2>2. CASE Recipients = {}
    BY <1>9, <1>10, <1>11, <2>2
  <2> QED BY <1>3, <2>1, <2>2
<1>22. NotTooMany'
  <2> SUFFICES ASSUME NEW t, NEW x, Promised(t, x)' PROVE Cardinality(Carriers(t)') <= x
    BY DEF NotTooMany
  <2>1. CASE t = p
    <3>1. ~Handled(p)
      <4>1. ~(p < p)
        BY <1>2
      <4> QED BY <1>7, <4>1
    <3>2. \A d \in Displays : ~Carries(d, p)
      BY <3>1, CarrierIsHandled
    <3>3. Carriers(t)' = Recipients
      BY <1>3, <1>13, <2>1, <3>2 DEF Carriers
    <3>4. ~Promised(p, x)
      BY <3>1, PromisedIsHandled
    <3>5. x = Cardinality(Recipients)
      BY <1>3, <2>1, <3>4
    <3> QED BY <1>13, <3>3, <3>5
  <2>2. CASE t # p
    <3>1. Carriers(t)' = Carriers(t) /\ Promised(t, x)
      BY <1>3, <2>2 DEF Carriers
    <3> QED BY <1>1, <3>1 DEF ReaperFlow, NotTooMany
  <2> QED BY <2>1, <2>2
<1>23. AllCarry'
  <2> SUFFICES ASSUME NEW t, Carriers(t)' # {}, NEW d \in Live, NEW q \in Holds(d)', q <= t
               PROVE  Carries(d, t)' \/ Excused(q)
    BY <1>9 DEF AllCarry
  <2>1. CASE t = p
    <3>1. d \in Recipients
      BY <1>9, <1>10, <1>11
    <3> QED BY <1>3, <1>9, <2>1, <3>1
  <2>2. CASE t # p
    <3>1. Carriers(t) # {}
      BY <1>3, <2>2 DEF Carriers
    <3>2. t < p /\ t \in Nat
      BY <1>7, <3>1, CarrierIsHandled DEF Carriers
    <3>3. q \in Holds(d)
      BY <1>2, <1>9, <1>11, <3>2
    <3> QED BY <1>1, <1>3, <1>9, <3>1, <3>3 DEF ReaperFlow, AllCarry
  <2> QED BY <2>1, <2>2
<1>24. FlushComplete'
  <2> SUFFICES ASSUME NEW b \in flushing, b.point \notin forced,
                      NEW d \in Live, NEW q \in Holds(d)', q <= b.point
               PROVE  d \in b.handles \/ Excused(q)
    BY <1>4, <1>9 DEF FlushComplete, Complete
  <2>1. b.point < p /\ b.point \in Nat
    BY <1>7 DEF Handled
  <2>2. q \in Holds(d)
    BY <1>2, <1>9, <1>11, <2>1
  <2> QED BY <1>1, <2>2 DEF ReaperFlow, FlushComplete, Complete
<1> QED BY <1>14, <1>15, <1>16, <1>17, <1>18, <1>19, <1>20, <1>21, <1>22, <1>23, <1>24
        DEF Flow, SlotFlow, ReaperFlow

-----------------------------------------------------------------------------
(* A frame is sent, and its handle goes to the reaper.                     *)

\* A frame's handle moves on, and no frame moves with it.
LEMMA MovesFlow ==
  ASSUME Base, Flow, Base',
         UNCHANGED <<pool, made, filled, timeline, out, sampling, link, alive, bound, events, wire>>,
         forced \subseteq forced',
         \A d \in Displays : \A t : HasForwarded(d, t)' <=> HasForwarded(d, t),
         \A t, x : Promised(t, x)' => Promised(t, x),
         \A p : Handled(p)' => Handled(p),
         \A r \in RangeOf(records') : r.handle = Nobody => r \in RangeOf(records),
         FlushComplete'
  PROVE  Flow'
<1>1. Types /\ InOrder /\ QueuesInOrder /\ SlotFlow /\ ReaperFlow /\ OldestFirst
  BY DEF Base, Flow
<1>2. /\ Live' = Live /\ \A d : Held(d)' = Held(d)
      /\ \A d \in Displays : \A t : Carries(d, t)' <=> Carries(d, t)
      /\ Live \subseteq Displays
  BY <1>1 DEF Live, Held, Carries, Types
<1>3. Calm
  BY <1>2 DEF Calm, Coming
<1>4. InOrder'
  BY <1>1 DEF InOrder, Coming
<1>5. QueuesInOrder' /\ OldestFirst'
  BY <1>1 DEF QueuesInOrder, OldestFirst
<1>6. BoundToPool'
  <2>1. \A d : Holds(d)' = Holds(d)
    BY <1>2 DEF Holds, Current
  <2> QED BY <1>1, <2>1 DEF SlotFlow, BoundToPool
<1>7. SlotFlow'
  BY <1>1, <1>3, <1>6, CalmSlots, CalmTimeline DEF SlotFlow
<1>8. AllCarry'
  BY <1>1, <1>2, <1>3, CalmCarry DEF ReaperFlow
<1>9. ReaperFlow'
  BY <1>1, <1>3, <1>8, CalmReaper DEF ReaperFlow
<1> QED BY <1>4, <1>5, <1>7, <1>9 DEF Flow

LEMMA ForwardFlow ==
  ASSUME Base, Base', Flow, NEW d \in Displays, ForwardFrame(d), Fenced(d)
  PROVE  Flow'
<1> DEFINE f == Head(out[d])
           rec == Record(f.point, {d}, f.expected)
<1>1. Types /\ InOrder /\ QueuesInOrder /\ SlotFlow /\ ReaperFlow /\ OldestFirst
  BY DEF Base, Flow
<1>2. /\ sending[d] = {} /\ out[d] # <<>> /\ f.op = "frame" /\ f \in FramesOf(out[d])
      /\ UNCHANGED routerVars /\ out' = [out EXCEPT ![d] = Tail(@)]
      /\ sampling' = [sampling EXCEPT ![d] = @ \cup {f.point}]
      /\ sending' = [sending EXCEPT ![d] = {rec}]
      /\ FramesOf(out[d]) = FramesOf(out'[d]) \cup {f}
      /\ PointsOf(out[d]) = PointsOf(out'[d]) \cup {f.point}
  BY <1>1, ForwardEffect
<1>3. Increasing(out'[d]) /\ \A p \in PointsOf(out'[d]) : f.point < p
  BY <1>1, <1>2, TakeEffect DEF QueuesInOrder
<1>4. /\ UNCHANGED <<pool, made, filled, timeline, forced, records, buckets, flushing>>
      /\ UNCHANGED <<events, wire, alive, link, bound>>
  BY <1>2 DEF ForwardFrame, rendererVars, reaperVars, routerVars
<1>5. rec.point = f.point /\ rec.handle = {d} /\ rec.expected = f.expected
  BY DEF Record
<1> PICK s : s = f.point
  OBVIOUS
<1> HIDE DEF f, rec
<1>6. /\ \A e \in Displays : e # d => out'[e] = out[e] /\ sampling'[e] = sampling[e]
                                      /\ sending'[e] = sending[e]
      /\ sampling'[d] = sampling[d] \cup {s} /\ sending'[d] = {rec}
  BY <1>1, <1>2 DEF Types
<1>7. \A e \in Displays : Held(e)' = Held(e)
  BY <1>2, <1>6 DEF Held
<1>8. \A e \in Displays : \A t : HasForwarded(e, t)' <=> HasForwarded(e, t) \/ (e = d /\ t = s)
  BY <1>2, <1>4, <1>5, <1>6 DEF HasForwarded
<1>9. \A e \in Displays : \A t : Carries(e, t)' <=> Carries(e, t)
  BY <1>2, <1>6, <1>8 DEF Carries
<1>10. \A t, x : Promised(t, x)' => Promised(t, x)
  <2> SUFFICES ASSUME NEW t, NEW x, Promised(t, x)' PROVE Promised(t, x)
    OBVIOUS
  <2>1. ASSUME NEW e \in Displays, NEW g \in FramesOf(out'[e]), g.point = t, g.expected = x
        PROVE  Promised(t, x)
    <3>1. g \in FramesOf(out[e])
      BY <1>2, <1>6
    <3> QED BY <2>1, <3>1 DEF Promised
  <2>2. ASSUME NEW e \in Displays, NEW r \in sending'[e], r.point = t, r.expected = x
        PROVE  Promised(t, x)
    <3>1. CASE e = d
      BY <1>2, <1>5, <1>6, <2>2, <3>1 DEF Promised
    <3>2. CASE e # d
      BY <1>6, <2>2, <3>2 DEF Promised
    <3> QED BY <3>1, <3>2
  <2> QED BY <1>4, <2>1, <2>2 DEF Promised
<1>11. Live' = Live /\ Live \subseteq Displays /\ link \subseteq Displays
  BY <1>1, <1>4 DEF Live, Types
<1>12. Calm
  BY <1>4, <1>7, <1>9, <1>10, <1>11 DEF Calm, Coming
<1>13. InOrder'
  <2>1. s \in Held(d)
    BY <1>2 DEF Held
  <2>2. \A p : Handled(p)' => Handled(p)
    BY <1>4, <1>7, <1>8, <2>1 DEF Handled
  <2> QED BY <1>1, <1>4, <2>2 DEF InOrder, Coming
<1>14. QueuesInOrder'
  <2> SUFFICES ASSUME NEW e \in Displays
               PROVE  /\ Increasing(out'[e])
                      /\ \A p \in sampling'[e], q \in PointsOf(out'[e]) : p < q
    BY DEF QueuesInOrder
  <2>1. CASE e = d
    BY <1>1, <1>2, <1>3, <1>6, <2>1 DEF QueuesInOrder
  <2>2. CASE e # d
    BY <1>1, <1>6, <2>2 DEF QueuesInOrder
  <2> QED BY <2>1, <2>2
<1>15. OldestFirst'
  <2> SUFFICES ASSUME NEW e \in Displays, NEW t, HasForwarded(e, t)'
               PROVE  /\ \A p \in PointsOf(out'[e]) : p > t
                      /\ \A p \in sampling'[e] : p <= t => t \in sampling'[e]
    BY DEF OldestFirst
  <2>1. CASE e # d
    BY <1>1, <1>6, <1>8, <2>1 DEF OldestFirst
  <2>2. CASE e = d /\ t = s
    <3>1. \A p \in PointsOf(out'[d]) : p > s
      <4>1. \A p \in PointsOf(out'[d]) : s < p /\ p \in Nat
        <5>1. PointsOf(out[d]) \subseteq DOMAIN made
          BY DEF Base, PointsKnown
        <5> QED BY <1>1, <1>2, <1>3, <5>1, MadeTypes
      <4>2. s \in Nat
        BY <1>1, <1>6 DEF Base, Types
      <4> QED BY <4>1, <4>2
    <3> QED BY <1>6, <2>2, <3>1
  <2>3. CASE e = d /\ t # s
    <3>1. HasForwarded(d, t)
      BY <1>8, <2>3
    <3>2. \A p \in PointsOf(out[d]) : p > t
      BY <1>1, <3>1 DEF OldestFirst
    <3>3. \A p \in sampling[d] : p <= t => t \in sampling[d]
      BY <1>1, <3>1 DEF OldestFirst
    <3>4. s > t /\ s \in Nat /\ t \in Nat
      <4>1. s \in Nat
        BY <1>1, <1>6 DEF Base, Types
      <4>2. t \in Nat
        <5>1. Handled(t)
          BY <3>1 DEF Handled
        <5> QED BY <1>1, <5>1 DEF InOrder
      <4> QED BY <1>2, <3>2, <4>1, <4>2
    <3> QED BY <1>2, <1>6, <2>3, <3>2, <3>3, <3>4
  <2> QED BY <2>1, <2>2, <2>3
<1>16. BoundToPool'
  <2>1. \A e \in Displays : Holds(e)' = Holds(e)
    BY <1>4, <1>7 DEF Holds, Current
  <2> QED BY <1>1, <1>4, <1>11, <2>1 DEF SlotFlow, BoundToPool
<1>17. SlotFlow'
  BY <1>1, <1>4, <1>12, <1>16, CalmSlots, CalmTimeline DEF SlotFlow
<1>18. AllCarry'
  BY <1>1, <1>9, <1>11, <1>12, CalmCarry DEF ReaperFlow
<1>19. ReaperFlow'
  BY <1>1, <1>4, <1>12, <1>18, CalmReaper, CalmFlush DEF ReaperFlow
<1> QED BY <1>13, <1>14, <1>15, <1>17, <1>19 DEF Flow

LEMMA SubmitRecordFlow ==
  ASSUME Base, Base', Flow, NEW d \in Displays, SubmitRecord(d)
  PROVE  Flow'
<1>1. Types /\ OneAtATime
  BY DEF Base
<1>2. PICK rec \in sending[d] : records' = Append(records, rec)
  BY DEF SubmitRecord
<1>3. rec.handle = {d} /\ sending[d] = {rec} /\ rec \in Rec
  BY <1>1 DEF OneAtATime, Types
<1>4. RangeOf(records') = RangeOf(records) \cup {rec}
  BY <1>1, <1>2, <1>3, AppendRange DEF Types
<1>5. sending' = [sending EXCEPT ![d] = {}]
  BY DEF SubmitRecord
<1>6. sending'[d] = {} /\ \A e \in Displays : e # d => sending'[e] = sending[e]
  BY <1>1, <1>5 DEF Types
<1>7. /\ UNCHANGED <<pool, made, filled, timeline, out, sampling, link, alive, bound, events, wire>>
      /\ UNCHANGED <<forced, buckets, flushing>>
  BY DEF SubmitRecord, rendererVars, displayVars, routerVars, reaperVars
<1>8. \A e \in Displays : \A t : HasForwarded(e, t)' <=> HasForwarded(e, t)
  <2> SUFFICES ASSUME NEW e \in Displays, NEW t
               PROVE  HasForwarded(e, t)' <=> HasForwarded(e, t)
    OBVIOUS
  <2>1. (\E r \in RangeOf(records') : r.point = t /\ e \in r.handle)
          <=> \/ \E r \in RangeOf(records) : r.point = t /\ e \in r.handle
              \/ e = d /\ rec.point = t
    BY <1>3, <1>4
  <2>2. (\E r \in sending[e] : r.point = t)
          <=> (\E r \in sending'[e] : r.point = t) \/ (e = d /\ rec.point = t)
    BY <1>3, <1>6
  <2> QED BY <1>7, <2>1, <2>2 DEF HasForwarded
<1>9. \A t, x : Promised(t, x)' => Promised(t, x)
  <2> SUFFICES ASSUME NEW t, NEW x, Promised(t, x)' PROVE Promised(t, x)
    OBVIOUS
  <2>1. ASSUME NEW e \in Displays, NEW r \in sending'[e], r.point = t, r.expected = x
        PROVE  Promised(t, x)
    BY <1>6, <2>1 DEF Promised
  <2>2. ASSUME NEW r \in RangeOf(records'), r.handle # Nobody, r.point = t, r.expected = x
        PROVE  Promised(t, x)
    <3>1. CASE r = rec
      BY <2>2, <3>1 DEF Promised
    <3>2. CASE r \in RangeOf(records)
      BY <2>2, <3>2 DEF Promised
    <3> QED BY <1>4, <3>1, <3>2
  <2> QED BY <1>7, <2>1, <2>2 DEF Promised
<1>10. \A p : Handled(p)' => Handled(p)
  <2>1. HasForwarded(d, rec.point)
    BY DEF HasForwarded
  <2> QED BY <1>4, <1>7, <1>8, <2>1 DEF Handled, Held
<1>11. \A r \in RangeOf(records') : r.handle = Nobody => r \in RangeOf(records)
  BY <1>3, <1>4 DEF Nobody
<1>12. FlushComplete'
  BY <1>7 DEF Flow, ReaperFlow, FlushComplete, Complete, Live, Holds, Held, Current, Excused
<1> QED BY <1>7, <1>8, <1>9, <1>10, <1>11, <1>12, MovesFlow

LEMMA ExpireFlow ==
  ASSUME Base, Base', Flow, Expire
  PROVE  Flow'
<1>1. Types
  BY DEF Base
<1>2. PICK p \in DOMAIN buckets :
        /\ buckets' = Drop(buckets, p)
        /\ flushing' = {[point |-> p, handles |-> buckets[p].handles]}
        /\ forced' = forced \cup {p}
  BY DEF Expire
<1>3. /\ flushing = {}
      /\ UNCHANGED <<pool, made, filled, timeline, out, sampling, link, alive, bound, events, wire>>
      /\ UNCHANGED <<sending, records>>
  BY DEF Expire, rendererVars, displayVars, routerVars
<1>4. /\ DOMAIN buckets' = DOMAIN buckets \ {p}
      /\ \A q \in DOMAIN buckets' : buckets'[q] = buckets[q]
  BY <1>2 DEF Drop
<1>5. \A d \in Displays : \A t : HasForwarded(d, t)' <=> HasForwarded(d, t)
  <2> SUFFICES ASSUME NEW d \in Displays, NEW t
               PROVE  HasForwarded(d, t)' <=> HasForwarded(d, t)
    OBVIOUS
  <2>1. (\E b \in flushing' : b.point = t /\ d \in b.handles)
          <=> t = p /\ d \in buckets[p].handles
    BY <1>2
  <2>2. (t \in DOMAIN buckets' /\ d \in buckets'[t].handles)
          <=> t # p /\ t \in DOMAIN buckets /\ d \in buckets[t].handles
    BY <1>4
  <2> QED BY <1>3, <2>1, <2>2 DEF HasForwarded
<1>6. \A t, x : Promised(t, x)' => Promised(t, x)
  BY <1>3, <1>4 DEF Promised
<1>7. \A q : Handled(q)' => Handled(q)
  BY <1>2, <1>3, <1>4, <1>5 DEF Handled, Held
<1>8. FlushComplete'
  BY <1>2 DEF FlushComplete, Complete
<1> QED BY <1>2, <1>3, <1>5, <1>6, <1>7, <1>8, MovesFlow

-----------------------------------------------------------------------------
(* The reaper collects the handles and moves the timeline.                 *)

\* A bucket that is full has a handle of everyone who was sent the frame.
LEMMA FullBucket ==
  ASSUME Base, Flow, NEW t, NEW x \in Nat, Promised(t, x),
         NEW H \in SUBSET Displays, H # {}, Cardinality(H) >= x,
         \A d \in H : HasForwarded(d, t),
         NEW d \in Live, NEW p \in Holds(d), p <= t
  PROVE  d \in H \/ Excused(p)
<1>1. H \subseteq Carriers(t)
  BY DEF Carriers, Carries
<1>2. Cardinality(Carriers(t)) <= x
  BY DEF Flow, ReaperFlow, NotTooMany
<1>3. Carriers(t) \subseteq Displays /\ IsFiniteSet(Carriers(t)) /\ IsFiniteSet(H)
  BY RecipientsFinite DEF Carriers
<1>4. H = Carriers(t)
  <2> HIDE DEF Carriers
  <2>1. Cardinality(H) \in Nat /\ Cardinality(Carriers(t)) \in Nat
    BY <1>3, FS_CardinalityType
  <2>2. Cardinality(H) <= Cardinality(Carriers(t))
    BY <1>1, <1>3, FS_Subset
  <2>3. Cardinality(H) = Cardinality(Carriers(t))
    BY <1>2, <2>1, <2>2
  <2> QED BY <1>1, <1>3, <2>3, FS_Subset
<1>5. Carries(d, t) \/ Excused(p)
  BY <1>4 DEF Flow, ReaperFlow, AllCarry
<1>6. d \in Displays
  BY DEF Base, Types, Live
<1> QED BY <1>4, <1>5, <1>6 DEF Carriers

LEMMA CollectFlow ==
  ASSUME Base, Base', Flow, ReceiveRecord, Head(records).handle # Nobody
  PROVE  Flow'
<1> DEFINE head == Head(records)
           bucket == Collected(head)
<1>1. Types
  BY DEF Base
<1> PICK rec, b : rec = head /\ b = bucket
  OBVIOUS
<1>2. /\ rec \in Rec /\ RangeOf(records) = {rec} \cup RangeOf(records')
      /\ rec.handle # Nobody
  BY <1>1, ReceiveTypes DEF ReceiveRecord
<1>3. /\ flushing = {}
      /\ UNCHANGED <<pool, made, filled, timeline, out, sampling, link, alive, bound, events, wire>>
      /\ UNCHANGED <<sending, forced>>
  BY DEF ReceiveRecord, rendererVars, displayVars, routerVars
<1>4. \/ /\ Full(b)
         /\ buckets' = Drop(buckets, rec.point)
         /\ flushing' = {[point |-> rec.point, handles |-> b.handles]}
      \/ /\ ~Full(b) /\ UNCHANGED flushing
         /\ buckets' = [p \in DOMAIN buckets \cup {rec.point} |->
                          IF p = rec.point THEN b ELSE buckets[p]]
  BY <1>2 DEF ReceiveRecord
<1>5. b \in Bucket
  BY <1>1, <1>2, CollectedType
<1>6. /\ b.handles = rec.handle
                       \cup (IF rec.point \in DOMAIN buckets THEN buckets[rec.point].handles ELSE {})
      /\ \/ b.expected = rec.expected
         \/ rec.point \in DOMAIN buckets /\ b.expected = buckets[rec.point].expected
  BY DEF Collected
<1> HIDE DEF head, bucket
<1>7. rec \in RangeOf(records)
  BY <1>2
<1>8. /\ Full(b) => /\ DOMAIN buckets' = DOMAIN buckets \ {rec.point}
                    /\ \A q \in DOMAIN buckets' : buckets'[q] = buckets[q]
                    /\ flushing' = {[point |-> rec.point, handles |-> b.handles]}
      /\ ~Full(b) => /\ DOMAIN buckets' = DOMAIN buckets \cup {rec.point}
                     /\ buckets'[rec.point] = b
                     /\ \A q \in DOMAIN buckets' : q # rec.point => buckets'[q] = buckets[q]
                     /\ flushing' = {}
  BY <1>3, <1>4 DEF Drop
<1>9. \A d \in Displays : \A t : HasForwarded(d, t)' <=> HasForwarded(d, t)
  <2> SUFFICES ASSUME NEW d \in Displays, NEW t
               PROVE  HasForwarded(d, t)' <=> HasForwarded(d, t)
    OBVIOUS
  <2>1. (\E r \in RangeOf(records) : r.point = t /\ d \in r.handle)
          <=> \/ \E r \in RangeOf(records') : r.point = t /\ d \in r.handle
              \/ rec.point = t /\ d \in rec.handle
    BY <1>2
  <2>2. (\/ t \in DOMAIN buckets' /\ d \in buckets'[t].handles
         \/ \E e \in flushing' : e.point = t /\ d \in e.handles)
          <=> \/ t \in DOMAIN buckets /\ d \in buckets[t].handles
              \/ rec.point = t /\ d \in rec.handle
    <3>1. CASE Full(b)
      <4>1. (\E e \in flushing' : e.point = t /\ d \in e.handles)
              <=> t = rec.point /\ d \in b.handles
        <5> PICK full : full = [point |-> rec.point, handles |-> b.handles]
          OBVIOUS
        <5>1. full.point = rec.point /\ full.handles = b.handles
          OBVIOUS
        <5>2. flushing' = {full}
          BY <1>8, <3>1
        <5> QED BY <5>1, <5>2
      <4>2. (t \in DOMAIN buckets' /\ d \in buckets'[t].handles)
              <=> t # rec.point /\ t \in DOMAIN buckets /\ d \in buckets[t].handles
        BY <1>8, <3>1
      <4>3. CASE t = rec.point
        BY <1>6, <4>1, <4>2, <4>3
      <4>4. CASE t # rec.point
        BY <4>1, <4>2, <4>4
      <4> QED BY <4>3, <4>4
    <3>2. CASE ~Full(b)
      <4>1. CASE t = rec.point
        BY <1>6, <1>8, <3>2, <4>1
      <4>2. CASE t # rec.point
        BY <1>8, <3>2, <4>2
      <4> QED BY <4>1, <4>2
    <3> QED BY <3>1, <3>2
  <2>3. ~\E e \in flushing : e.point = t /\ d \in e.handles
    BY <1>3
  <2> QED BY <1>3, <2>1, <2>2, <2>3 DEF HasForwarded
<1>10. Promised(rec.point, b.expected)
  BY <1>2, <1>6, <1>7 DEF Promised
<1>11. \A t, x : Promised(t, x)' => Promised(t, x)
  <2> SUFFICES ASSUME NEW t, NEW x, Promised(t, x)' PROVE Promised(t, x)
    OBVIOUS
  <2>1. t \in DOMAIN buckets' /\ buckets'[t].expected = x => Promised(t, x)
    <3>1. CASE t = rec.point
      BY <1>8, <1>10, <3>1
    <3>2. CASE t # rec.point
      BY <1>8, <3>2 DEF Promised
    <3> QED BY <3>1, <3>2
  <2>2. ASSUME NEW r \in RangeOf(records'), r.handle # Nobody, r.point = t, r.expected = x
        PROVE  Promised(t, x)
    BY <1>2, <2>2 DEF Promised
  <2> QED BY <1>3, <2>1, <2>2 DEF Promised
<1>12. \A p : Handled(p)' => Handled(p)
  <2> SUFFICES ASSUME NEW p, Handled(p)' PROVE Handled(p)
    OBVIOUS
  <2>1. Handled(rec.point)
    BY <1>7 DEF Handled
  <2>2. p \in DOMAIN buckets' => p = rec.point \/ p \in DOMAIN buckets
    BY <1>8
  <2>3. \A e \in flushing' : e.point = rec.point
    BY <1>8
  <2> QED BY <1>2, <1>3, <1>9, <2>1, <2>2, <2>3 DEF Handled, Held
<1>13. \A r \in RangeOf(records') : r.handle = Nobody => r \in RangeOf(records)
  BY <1>2
<1>14. FlushComplete'
  <2>1. /\ Live' = Live /\ \A d \in Live : Holds(d)' = Holds(d)
        /\ \A p : Excused(p)' <=> Excused(p)
    BY <1>3 DEF Live, Holds, Held, Current, Excused
  <2> SUFFICES ASSUME NEW e \in flushing', NEW d \in Live, NEW p \in Holds(d), p <= e.point
               PROVE  d \in e.handles \/ Excused(p)
    BY <2>1 DEF FlushComplete, Complete
  <2>2. Full(b) /\ e.point = rec.point /\ e.handles = b.handles
    BY <1>8
  <2>3. b.handles \in SUBSET Displays /\ b.expected \in Nat
    BY <1>5 DEF Bucket
  <2>4. b.handles # {}
    BY <1>2, <1>6 DEF Nobody
  <2>5. \A c \in b.handles : HasForwarded(c, rec.point)
    BY <1>6, <1>7 DEF HasForwarded
  <2>6. Cardinality(b.handles) >= b.expected
    BY <2>2 DEF Full
  <2> QED BY <1>10, <2>2, <2>3, <2>4, <2>5, <2>6, FullBucket
<1> QED BY <1>3, <1>9, <1>11, <1>12, <1>13, <1>14, MovesFlow

\* The timeline moves to the frame, and everyone linked is done with it.
SignalFlow(p) ==
  /\ Signal(p)
  /\ \A d \in Live : \A q \in Holds(d) : q > p \/ Excused(q)'

LEMMA SignalReleases ==
  ASSUME Base, Flow, NEW p \in Nat, SignalFlow(p), forced \subseteq forced',
         UNCHANGED <<pool, made, out, sampling, link, alive>>
  PROVE  NotReleased'
<1>1. /\ Live' = Live /\ \A d \in Live : Holds(d)' = Holds(d)
  BY DEF Live, Holds, Held, Current
<1> SUFFICES ASSUME NEW d \in Live, NEW q \in Holds(d) PROVE q > timeline' \/ Excused(q)'
  BY <1>1 DEF NotReleased
<1>2. q > timeline \/ Excused(q)
  BY DEF Flow, SlotFlow, NotReleased
<1>3. q > p \/ Excused(q)'
  BY DEF SignalFlow
<1>4. timeline' = p \/ timeline' = timeline
  BY DEF SignalFlow, Signal
<1> QED BY <1>2, <1>3, <1>4, ExcusedStays

LEMMA NobodyFlow ==
  ASSUME Base, Base', Flow, ReceiveRecord, Head(records).handle = Nobody
  PROVE  Flow'
<1>1. Types /\ InOrder /\ QueuesInOrder /\ SlotFlow /\ ReaperFlow /\ OldestFirst
  BY DEF Base, Flow
<1> PICK rec : rec = Head(records)
  OBVIOUS
<1>2. /\ rec \in Rec /\ RangeOf(records) = {rec} \cup RangeOf(records') /\ rec.handle = Nobody
  BY <1>1, ReceiveTypes DEF ReceiveRecord
<1>3. /\ Signal(rec.point)
      /\ UNCHANGED <<pool, made, filled, out, sampling, link, alive, bound, events, wire>>
      /\ UNCHANGED <<sending, forced, buckets, flushing>>
  BY <1>2 DEF ReceiveRecord, rendererVars, displayVars, routerVars
<1>4. \A d \in Displays : \A t : HasForwarded(d, t)' <=> HasForwarded(d, t)
  <2>1. \A d \in Displays : \A t :
          (\E r \in RangeOf(records') : r.point = t /\ d \in r.handle)
            <=> (\E r \in RangeOf(records) : r.point = t /\ d \in r.handle)
    BY <1>2 DEF Nobody
  <2> QED BY <1>3, <2>1 DEF HasForwarded
<1>5. /\ \A d \in Displays : \A t : Carries(d, t)' <=> Carries(d, t)
      /\ Live' = Live /\ \A d \in Displays : Held(d)' = Held(d) /\ Holds(d)' = Holds(d)
      /\ Live \subseteq Displays /\ link \subseteq Displays
  BY <1>1, <1>3, <1>4 DEF Carries, Live, Held, Holds, Current, Types
<1>6. \A t, x : Promised(t, x)' => Promised(t, x)
  BY <1>2, <1>3 DEF Promised
<1>7. Calm
  BY <1>2, <1>3, <1>5, <1>6 DEF Calm, Coming
<1>8. InOrder'
  <2>1. Handled(rec.point) /\ Handled(timeline)
    BY <1>2 DEF Handled
  <2>2. timeline' = rec.point \/ timeline' = timeline
    BY <1>3 DEF Signal
  <2>3. \A p : Handled(p)' => Handled(p)
    BY <1>2, <1>3, <1>4, <1>5, <2>1, <2>2 DEF Handled
  <2> QED BY <1>1, <1>3, <2>3 DEF InOrder, Coming
<1>9. QueuesInOrder' /\ OldestFirst'
  BY <1>1, <1>3, <1>4 DEF QueuesInOrder, OldestFirst
<1>10. BoundToPool'
  BY <1>1, <1>3, <1>5 DEF SlotFlow, BoundToPool
<1>11. NotReleased'
  <2>1. \A d \in Live : \A q \in Holds(d) : q > rec.point
    BY <1>1, <1>2 DEF ReaperFlow, NobodyElse
  <2>2. rec.point \in Nat
    BY <1>2 DEF Rec
  <2> QED BY <1>3, <2>1, <2>2, SignalReleases DEF SignalFlow
<1>12. SlotFlow'
  BY <1>1, <1>7, <1>10, <1>11, CalmSlots DEF SlotFlow
<1>13. AllCarry'
  BY <1>1, <1>5, <1>7, CalmCarry DEF ReaperFlow
<1>14. ReaperFlow'
  BY <1>1, <1>3, <1>7, <1>13, CalmReaper, CalmFlush DEF ReaperFlow
<1> QED BY <1>8, <1>9, <1>12, <1>14 DEF Flow

LEMMA FlushFlow ==
  ASSUME Base, Base', Flow, Flush
  PROVE  Flow'
<1>1. Types /\ InOrder /\ QueuesInOrder /\ SlotFlow /\ ReaperFlow /\ OldestFirst
  BY DEF Base, Flow
<1>2. PICK b \in flushing :
        /\ Signal(b.point)
        /\ forced' = IF \E d \in b.handles : b.point \in sampling[d]
                     THEN forced \cup {b.point} ELSE forced
  BY DEF Flush
<1>3. flushing = {b} /\ b.point \in Nat /\ b.handles \subseteq Displays /\ forced \subseteq forced'
  BY <1>1, <1>2 DEF Base, OneAtATime, Types
<1>4. /\ flushing' = {}
      /\ UNCHANGED <<pool, made, filled, out, sampling, link, alive, bound, events, wire>>
      /\ UNCHANGED <<sending, buckets, records>>
  BY DEF Flush, rendererVars, displayVars, routerVars
<1>5. \A d \in Displays : \A t :
        /\ HasForwarded(d, t)' => HasForwarded(d, t)
        /\ HasForwarded(d, t) => HasForwarded(d, t)' \/ t = b.point
  BY <1>3, <1>4 DEF HasForwarded
<1>6. /\ \A d \in Displays : \A t : /\ Carries(d, t)' => Carries(d, t)
                                    /\ Carries(d, t) => Carries(d, t)' \/ t = b.point
      /\ Live' = Live /\ \A d \in Displays : Held(d)' = Held(d) /\ Holds(d)' = Holds(d)
      /\ Live \subseteq Displays /\ link \subseteq Displays
  BY <1>1, <1>4, <1>5 DEF Carries, Live, Held, Holds, Current, Types
<1>7. \A t, x : Promised(t, x)' => Promised(t, x)
  BY <1>4 DEF Promised
<1>8. Calm
  BY <1>3, <1>4, <1>6, <1>7 DEF Calm, Coming
<1>9. InOrder'
  <2>1. Handled(b.point) /\ Handled(timeline)
    BY DEF Handled
  <2>2. timeline' = b.point \/ timeline' = timeline
    BY <1>2 DEF Signal
  <2>3. \A p : Handled(p)' => Handled(p)
    BY <1>4, <1>5, <1>6, <2>1, <2>2 DEF Handled
  <2> QED BY <1>1, <1>4, <2>3 DEF InOrder, Coming
<1>10. QueuesInOrder' /\ OldestFirst'
  BY <1>1, <1>4, <1>5 DEF QueuesInOrder, OldestFirst
<1>11. BoundToPool'
  BY <1>1, <1>4, <1>6 DEF SlotFlow, BoundToPool
<1>12. \A d \in Live : \A q \in Holds(d) : q > b.point \/ Excused(q)'
  <2> SUFFICES ASSUME NEW d \in Live, NEW q \in Holds(d), ~(q > b.point) PROVE Excused(q)'
    OBVIOUS
  <2>1. q \in Nat /\ q <= b.point
    <3>1. Handled(q)
      BY <1>6 DEF Handled, Holds
    <3> QED BY <1>1, <1>3, <3>1 DEF InOrder
  <2>2. CASE b.point \in forced
    BY <1>3, <2>1, <2>2 DEF Excused
  <2>3. CASE Excused(q)
    BY <1>3, <2>3, ExcusedStays
  <2>4. CASE d \in b.handles
    <3>1. HasForwarded(d, b.point)
      BY <2>4 DEF HasForwarded
    <3>2. q \in sampling[d]
      BY <1>1, <1>6, <2>1, <3>1 DEF OldestFirst, Holds, Held
    <3>3. b.point \in sampling[d]
      BY <1>1, <1>6, <2>1, <3>1, <3>2 DEF OldestFirst
    <3>4. b.point \in forced'
      BY <1>2, <2>4, <3>3
    <3> QED BY <2>1, <3>4 DEF Excused
  <2> QED BY <1>1, <2>1, <2>2, <2>3, <2>4 DEF ReaperFlow, FlushComplete, Complete
<1>13. NotReleased'
  BY <1>2, <1>3, <1>4, <1>12, SignalReleases DEF SignalFlow
<1>14. SlotFlow'
  BY <1>1, <1>8, <1>11, <1>13, CalmSlots DEF SlotFlow
<1>15. AllCarry'
  <2> SUFFICES ASSUME NEW d \in Live', NEW t, t = b.point, NEW p \in Holds(d)', p <= t
               PROVE  Excused(p)'
    BY <1>1, <1>6, <1>8, CalmCarry DEF ReaperFlow
  <2>1. d \in Live /\ p \in Holds(d)
    BY <1>6
  <2>2. p \in Nat
    <3>1. Handled(p)
      BY <1>6, <2>1 DEF Handled, Holds
    <3> QED BY <1>1, <3>1 DEF InOrder
  <2>3. ~(p > b.point)
    BY <1>3, <2>2
  <2> QED BY <1>12, <2>1, <2>3
<1>16. ReaperFlow'
  BY <1>1, <1>4, <1>8, <1>15, CalmReaper, CalmFlush DEF ReaperFlow
<1> QED BY <1>9, <1>10, <1>14, <1>16 DEF Flow

-----------------------------------------------------------------------------
(* The invariant, and what it is for.                                      *)

LEMMA FlowStep ==
  ASSUME Base, Base', Flow, ~Still, Next
  PROVE  Flow'
<1>1. CASE NewPool
  BY <1>1, NewPoolFlow
<1>2. CASE Submit
  BY <1>2, SubmitFlow
<1>3. CASE ReadBind \/ ClearFences \/ ReadFrame
  BY <1>3, ReaderFlow
<1>4. CASE HandleFrame
  BY <1>4, HandleFrameFlow
<1>5. CASE HandleBind \/ SyncOne \/ \E d \in Displays : Come(d) \/ Unlink(d)
  BY <1>5, RouterFlow
<1>6. ASSUME NEW d \in Displays,
             \/ SendBind(d) \/ SendConfig(d) \/ SendUnbind(d) \/ Leave(d) \/ CrashDisplay(d)
             \/ Release(d)
      PROVE  Flow'
  BY <1>6, DisplayFlow
<1>7. ASSUME NEW d \in Displays, ForwardFrame(d) PROVE Flow'
  BY <1>7, DisplayFlow, ForwardFlow
<1>8. ASSUME NEW d \in Displays, SubmitRecord(d) PROVE Flow'
  BY <1>8, SubmitRecordFlow
<1>9. CASE ReceiveRecord
  BY <1>9, CollectFlow, NobodyFlow
<1>10. CASE Expire \/ Flush
  BY <1>10, ExpireFlow, FlushFlow
<1> QED BY <1>1, <1>2, <1>3, <1>4, <1>5, <1>6, <1>7, <1>8, <1>9, <1>10 DEF Next, Internal, External

LEMMA InitBase ==
  ASSUME Init
  PROVE  Base /\ StillOnce
<1>1. /\ made = <<>> /\ wire = <<>> /\ events = <<>> /\ records = <<>>
      /\ \A d \in Displays : out[d] = <<>> /\ sending[d] = {} /\ sampling[d] = {}
      /\ here = {} /\ flushing = {} /\ DOMAIN buckets = {} /\ latest.point = None
      /\ pool = 0 /\ snapshot = 0 /\ rebinding = FALSE
  BY DEF Init
<1>2. /\ DOMAIN made = {} /\ DOMAIN wire = {}
      /\ PointsOf(wire) = {} /\ PointsOf(events) = {}
      /\ \A d \in Displays : PointsOf(out[d]) = {}
  BY <1>1, EmptyQueue
<1>3. Types
  <2>1. budget \in [Kinds -> Nat]
    BY FramesAssumption DEF Init
  <2>2. 0 \in Slots
    <3>1. Cardinality(Slots) \in Nat
      BY FramesAssumption, FS_CardinalityType
    <3>2. PICK s \in Slots : s \in 0..(Cardinality(Slots) - 1)
      BY FramesAssumption
    <3>3. Slots = 0..(Cardinality(Slots) - 1)
      BY FramesAssumption
    <3> QED BY <3>1, <3>2, <3>3
  <2>3. /\ made \in Seq([pool : Nat, slot : Slots]) /\ pool \in Nat /\ next \in Slots
        /\ filled \in [Slots -> Nat] /\ timeline \in Nat
        /\ wire \in Seq(Item) /\ events \in Seq(Item) /\ records \in Seq(Rec)
    BY <2>2 DEF Init, None
  <2>4. /\ snapshot \in Nat /\ latest \in [gen : Nat, point : Nat] /\ rebinding \in BOOLEAN
        /\ link \subseteq here /\ here \subseteq Displays /\ bound \in [Displays -> Nat]
        /\ syncing \subseteq Displays /\ relinked \subseteq Displays
        /\ alive \subseteq Displays /\ dead \subseteq Displays /\ forced \subseteq Nat
    BY DEF Init, None
  <2>5. /\ out \in [Displays -> Seq(Item)]
        /\ sampling \in [Displays -> SUBSET Nat] /\ sending \in [Displays -> SUBSET Rec]
    BY DEF Init
  <2> QED BY <1>1, <2>1, <2>3, <2>4, <2>5 DEF Types
<1>4. SnapshotInOrder
  BY <1>1, <1>2 DEF SnapshotInOrder, BindsInOrder, BindsGoFirst
<1> QED BY <1>1, <1>2, <1>3, <1>4
        DEF Base, OneAtATime, PointsKnown, PoolsGrow, PoolsKnown, Fresh, StillOnce, None

LEMMA InitFlow ==
  ASSUME Init
  PROVE  Flow
<1>1. /\ events = <<>> /\ wire = <<>> /\ records = <<>> /\ made = <<>> /\ timeline = 0
      /\ \A d \in Displays : out[d] = <<>> /\ sending[d] = {} /\ sampling[d] = {}
      /\ flushing = {} /\ DOMAIN buckets = {} /\ link = {}
  BY DEF Init
<1>2. /\ PointsOf(wire) = {} /\ PointsOf(events) = {} /\ RangeOf(records) = {}
      /\ DOMAIN wire = {} /\ DOMAIN events = {}
      /\ \A d \in Displays : PointsOf(out[d]) = {} /\ FramesOf(out[d]) = {} /\ DOMAIN out[d] = {}
  BY <1>1, EmptyQueue DEF RangeOf
<1>3. /\ \A d \in Displays : \A t : ~HasForwarded(d, t) /\ ~Carries(d, t)
      /\ \A t : Carriers(t) = {}
      /\ \A t, x : ~Promised(t, x)
      /\ \A p : Handled(p) => p = 0
  BY <1>1, <1>2 DEF HasForwarded, Carries, Carriers, Promised, Handled, Held
<1>4. InOrder /\ QueuesInOrder /\ OldestFirst
  BY <1>1, <1>2, <1>3 DEF InOrder, QueuesInOrder, OldestFirst, Increasing, Coming
<1>5. SlotFlow /\ ReaperFlow
  BY <1>1, <1>2, <1>3 DEF SlotFlow, BoundToPool, SlotsWait, SlotsKept, NotReleased, Live, Coming,
     ReaperFlow, NobodyElse, NotTooMany, AllCarry, FlushComplete
<1> QED BY <1>4, <1>5 DEF Flow

LEMMA FlowUnchanged ==
  ASSUME Flow, UNCHANGED vars
  PROVE  Flow'
<1>1. UNCHANGED <<made, pool, filled, timeline, wire, events, link, alive, bound, out, sending,
                  sampling, records, buckets, flushing, forced>>
  BY DEF vars, rendererVars, readerVars, routerVars, displayVars, reaperVars
<1>2. InOrder' /\ QueuesInOrder' /\ OldestFirst'
  BY <1>1 DEF Flow, InOrder, QueuesInOrder, OldestFirst, Handled, HasForwarded, Held, Coming
<1>3. SlotFlow'
  BY <1>1 DEF Flow, SlotFlow, BoundToPool, SlotsWait, SlotsKept, NotReleased, Live, Coming,
     Holds, Held, Current, Excused
<1>4. \A t : Carriers(t)' = Carriers(t)
  BY <1>1 DEF Carriers, Carries, HasForwarded
<1>5. ReaperFlow'
  <2>1. NotTooMany'
    <3>1. \A t, x : Promised(t, x)' => Promised(t, x)
      BY <1>1 DEF Promised
    <3> HIDE DEF Carriers
    <3> QED BY <1>4, <3>1 DEF Flow, ReaperFlow, NotTooMany
  <2>2. NobodyElse' /\ AllCarry' /\ FlushComplete'
    BY <1>1, <1>4 DEF Flow, ReaperFlow, NobodyElse, AllCarry, FlushComplete, Complete, Live,
       Holds, Held, Current, Excused, Carries, HasForwarded
  <2> QED BY <2>1, <2>2 DEF ReaperFlow
<1> QED BY <1>2, <1>3, <1>5 DEF Flow

LEMMA BaseUnchanged ==
  ASSUME Base, StillOnce, UNCHANGED vars
  PROVE  Base' /\ StillOnce'
<1>1. UNCHANGED <<budget, made, pool, next, filled, timeline, wire, snapshot, latest, rebinding,
                  events, here, link, bound, syncing, relinked, out, sending, alive, dead,
                  sampling, records, buckets, flushing, forced>>
  BY DEF vars, rendererVars, readerVars, routerVars, displayVars, reaperVars
<1>2. Types'
  BY <1>1 DEF Base, Types
<1>3. OneAtATime' /\ PointsKnown' /\ PoolsGrow' /\ Fresh'
  BY <1>1 DEF Base, OneAtATime, PointsKnown, PoolsGrow, Fresh
<1>4. SnapshotInOrder' /\ PoolsKnown'
  BY <1>1 DEF Base, SnapshotInOrder, BindsInOrder, BindsGoFirst, Announced, PoolsKnown
<1>5. StillOnce'
  BY <1>1 DEF StillOnce, Still, Current
<1> QED BY <1>2, <1>3, <1>4, <1>5 DEF Base

LEMMA FramesInvStep ==
  ASSUME FramesInv, [Next]_vars
  PROVE  FramesInv'
<1>1. CASE Next
  <2>1. Base' /\ StillOnce'
    BY <1>1, BaseStep DEF FramesInv
  <2>2. Still' = Still
    BY <1>1, StillConstant DEF FramesInv
  <2>3. ~Still => Flow'
    BY <1>1, <2>1, FlowStep DEF FramesInv
  <2> QED BY <2>1, <2>2, <2>3 DEF FramesInv
<1>2. CASE UNCHANGED vars
  <2>1. Still' = Still
    BY <1>2 DEF Still, vars
  <2> QED BY <1>2, <2>1, FlowUnchanged, BaseUnchanged DEF FramesInv
<1> QED BY <1>1, <1>2

LEMMA FramesInvSuffices ==
  ASSUME FramesInv
  PROVE  NoTearing
<1> SUFFICES ASSUME NEW d \in Live, NEW p \in sampling[d], made[p].pool = pool
             PROVE  filled[made[p].slot] = p \/ \E q \in forced : q >= p
  BY DEF NoTearing, Live
<1>1. d \in Displays
  BY DEF FramesInv, Base, Types, Live
<1>2. CASE Still
  <2>1. p \in DOMAIN made
    BY <1>1 DEF FramesInv, Base, PointsKnown
  <2> QED BY <1>2, <2>1 DEF FramesInv, StillOnce, Current
<1>3. CASE ~Still
  BY <1>3 DEF FramesInv, Flow, SlotFlow, SlotsKept, Holds, Held, Current, Excused
<1> QED BY <1>2, <1>3

(* The slot a linked display samples from is not rendered to again before  *)
(* the display is done with it or its release was forced: what the reader  *)
(* thread, the router, the endpoints and the reaper do between a slot's    *)
(* submission and ww_bridge_pool_wait_slot_release keeps it, for any       *)
(* number of displays and slots.                                           *)
THEOREM FramesNoTearing == Spec => []NoTearing
<1>1. Init => FramesInv
  BY InitBase, InitFlow DEF FramesInv
<1>2. FramesInv /\ [Next]_vars => FramesInv'
  BY FramesInvStep
<1>3. FramesInv => NoTearing
  BY FramesInvSuffices
<1> QED BY <1>1, <1>2, <1>3, PTL DEF Spec

-----------------------------------------------------------------------------
(* A frame finds the display configured.  The invariant follows a frame    *)
(* from the wire to the display that is told of its pool.                  *)

\* A frame comes after the bind of its pool and before that of the next one.
FramesFollowBinds ==
  /\ \A p \in DOMAIN made : made[p].pool > 0
  /\ \A i \in DOMAIN wire : wire[i].op = "frame" =>
       /\ snapshot <= made[wire[i].point].pool
       /\ \A j \in DOMAIN wire :
            j < i /\ wire[j].op = "bind" => wire[j].gen <= made[wire[i].point].pool

\* But for the moment between two locks, the fences kept are of the pool bound.
FencesFit ==
  /\ fences \in Seq(Nat)
  /\ \A i \in DOMAIN fences : fences[i] \in DOMAIN made
  /\ ~rebinding => \A i \in DOMAIN fences : made[fences[i]].pool = snapshot

\* No order of that kind lies between two places of a queue.
Undisturbed(q, j, i, ops) == \A m \in DOMAIN q : j < m /\ m < i => q[m].op \notin ops

\* What is at place i finds the display with a config, and bound to a pool no
\* older than the given one.
FindsConfig(q, i, s) ==
  \/ s.config /\ Undisturbed(q, 0, i, {"bind", "unbind"})
  \/ \E j \in DOMAIN q : j < i /\ q[j].op = "config" /\ Undisturbed(q, j, i, {"bind", "unbind"})
FindsPool(q, i, s, gen) ==
  \/ gen <= s.gen /\ Undisturbed(q, 0, i, {"unbind"})
  \/ \E j \in DOMAIN q : j < i /\ q[j].op = "bind" /\ Undisturbed(q, j, i, {"unbind"})
Finds(q, i, s, gen) == FindsConfig(q, i, s) /\ FindsPool(q, i, s, gen)

\* So does every frame that is queued, and so would the next one.
FramesFind(q, s, frames) ==
  \A i \in DOMAIN q : q[i].op = "frame" => Finds(q, i, s, frames[q[i].point].pool)
NextFinds(d) ==
  bound[d] # 0 => bound[d] <= snapshot /\ Finds(out[d], Len(out[d]) + 1, shown[d], bound[d])
FindsIt(d) ==
  shown[d].gen <= snapshot /\ FramesFind(out[d], shown[d], made) /\ NextFinds(d)
Shown ==
  /\ shown \in [Displays -> [gen : Nat, config : BOOLEAN]]
  /\ \A d \in Displays : FindsIt(d)

Presented == FramesFollowBinds /\ FencesFit /\ Shown
\* A frame stays the one it was when later ones are made.
MadeGrows == \A p \in DOMAIN made : p \in DOMAIN made' /\ made'[p] = made[p]

LEMMA AppendFinds ==
  ASSUME NEW q \in Seq(Item), NEW x \in Item, NEW s, NEW gen,
         NEW i \in Nat, i <= Len(q) + 1, Finds(q, i, s, gen)
  PROVE  Finds(Append(q, x), i, s, gen)
<1> DEFINE w == Append(q, x)
<1>1. \A m \in DOMAIN w : m < i => m \in DOMAIN q /\ w[m] = q[m]
  BY AppendAt
<1>2. \A m \in DOMAIN q : m \in DOMAIN w /\ w[m] = q[m]
  BY AppendAt
<1> HIDE DEF w
<1>3. \A j, ops : Undisturbed(q, j, i, ops) => Undisturbed(w, j, i, ops)
  BY <1>1 DEF Undisturbed
<1>4. FindsConfig(w, i, s)
  BY <1>2, <1>3 DEF Finds, FindsConfig
<1>5. FindsPool(w, i, s, gen)
  BY <1>2, <1>3 DEF Finds, FindsPool
<1> QED BY <1>4, <1>5 DEF Finds, w

\* Neither a frame nor a config takes it away from what follows.
LEMMA AppendNext ==
  ASSUME NEW q \in Seq(Item), NEW x \in Item, NEW s, NEW gen,
         x.op \in {"frame", "config"}, Finds(q, Len(q) + 1, s, gen)
  PROVE  Finds(Append(q, x), Len(Append(q, x)) + 1, s, gen)
<1> DEFINE w == Append(q, x)
           i == Len(q) + 1
<1>1. \A m \in DOMAIN w : (m < i /\ m \in DOMAIN q /\ w[m] = q[m]) \/ w[m] = x
  BY AppendAt
<1>2. \A m \in DOMAIN q : m \in DOMAIN w /\ w[m] = q[m] /\ m < i /\ m < i + 1
  BY AppendAt
<1>3. Len(w) + 1 = i + 1
  BY AppendAt
<1> HIDE DEF w, i
<1>4. \A j, ops : Undisturbed(q, j, i, ops) /\ x.op \notin ops => Undisturbed(w, j, i + 1, ops)
  BY <1>1 DEF Undisturbed
<1>5. x.op \notin {"bind", "unbind"} /\ x.op \notin {"unbind"}
  OBVIOUS
<1>6. FindsConfig(w, i + 1, s)
  BY <1>2, <1>4, <1>5 DEF Finds, FindsConfig, i
<1>7. FindsPool(w, i + 1, s, gen)
  BY <1>2, <1>4, <1>5 DEF Finds, FindsPool, i
<1> QED BY <1>3, <1>6, <1>7 DEF Finds, w

\* After a bind and a config there is a config, and a pool as new as any.
LEMMA BindAndConfig ==
  ASSUME NEW q \in Seq(Item), NEW b \in Item, NEW c \in Item, b.op = "bind", c.op = "config"
  PROVE  LET w == Append(Append(q, b), c)
         IN  \A s, gen : Finds(w, Len(w) + 1, s, gen)
<1> DEFINE v == Append(q, b)
           w == Append(v, c)
<1>1. v \in Seq(Item) /\ Len(v) = Len(q) + 1 /\ Len(q) + 1 \in DOMAIN v /\ v[Len(q) + 1] = b
      /\ Len(q) \in Nat
  BY AppendAt
<1> HIDE DEF v
<1>2. /\ Len(w) = Len(q) + 2 /\ Len(q) + 1 \in DOMAIN w /\ w[Len(q) + 1] = b
      /\ Len(q) + 2 \in DOMAIN w /\ w[Len(q) + 2] = c
      /\ \A i \in DOMAIN w : i \in Nat /\ i <= Len(q) + 2
  <2>1. Len(v) \in Nat /\ Len(w) = Len(v) + 1
    BY <1>1, AppendAt
  <2>2. \A i \in DOMAIN w : i \in Nat /\ i <= Len(v) + 1
    BY <1>1, AppendAt
  <2>3. Len(q) + 1 \in DOMAIN w /\ w[Len(q) + 1] = v[Len(q) + 1]
    BY <1>1, AppendAt
  <2>4. Len(v) + 1 \in DOMAIN w /\ w[Len(v) + 1] = c
    BY <1>1, AppendAt
  <2> HIDE DEF w
  <2>5. Len(v) + 1 = Len(q) + 2
    BY <1>1
  <2> QED BY <1>1, <2>1, <2>2, <2>3, <2>4, <2>5
<1> HIDE DEF w
<1>3. ASSUME NEW s PROVE FindsConfig(w, Len(w) + 1, s)
  <2>1. Undisturbed(w, Len(q) + 2, Len(w) + 1, {"bind", "unbind"})
    BY <1>1, <1>2 DEF Undisturbed
  <2> QED BY <1>1, <1>2, <2>1 DEF FindsConfig
<1>4. ASSUME NEW s, NEW gen PROVE FindsPool(w, Len(w) + 1, s, gen)
  <2>1. Undisturbed(w, Len(q) + 1, Len(w) + 1, {"unbind"})
    <3> SUFFICES ASSUME NEW m \in DOMAIN w, Len(q) + 1 < m PROVE w[m].op # "unbind"
      BY DEF Undisturbed
    <3>1. m = Len(q) + 2
      BY <1>1, <1>2
    <3> QED BY <1>2, <3>1
  <2> QED BY <1>1, <1>2, <2>1 DEF FindsPool
<1> QED BY <1>3, <1>4 DEF Finds, w, v

LEMMA LowerFinds ==
  ASSUME NEW q, NEW i, NEW s \in [gen : Nat, config : BOOLEAN], NEW gen \in Nat, NEW g \in Nat,
         g <= gen, Finds(q, i, s, gen)
  PROVE  Finds(q, i, s, g)
<1>1. gen <= s.gen => g <= s.gen
  OBVIOUS
<1> QED BY <1>1 DEF Finds, FindsPool

\* What the endpoint's order does to the display makes up for its having left
\* the queue.
Sent(x, s, t) ==
  /\ x.op = "frame" => t = s
  /\ x.op = "config" => t.config /\ t.gen = s.gen
LEMMA TailFinds ==
  ASSUME NEW q \in Seq(Item), q # <<>>, NEW i \in Nat \ {0}, NEW s, NEW t, NEW gen,
         Sent(Head(q), s, t), Head(q).op = "bind" => gen <= t.gen, Finds(q, i + 1, s, gen)
  PROVE  Finds(Tail(q), i, t, gen)
<1> DEFINE w == Tail(q)
           x == Head(q)
<1>1. /\ 1 \in DOMAIN q /\ x = q[1] /\ x \in Item
      /\ \A m \in DOMAIN w : m \in Nat /\ m + 1 \in DOMAIN q /\ w[m] = q[m + 1]
      /\ \A m \in DOMAIN q : m = 1 \/ (m - 1 \in Nat /\ m - 1 \in DOMAIN w /\ w[m - 1] = q[m])
      /\ \A m \in DOMAIN q : m \in Nat /\ m >= 1
  BY TailAt, HeadAndTail
<1> HIDE DEF w, x
<1>2. x.op \in {"bind", "frame", "config", "unbind"}
  BY <1>1 DEF Item
<1>3. ASSUME NEW ops, Undisturbed(q, 0, i + 1, ops)
      PROVE  x.op \notin ops /\ Undisturbed(w, 0, i, ops)
  <2>1. x.op \notin ops
    <3>1. 0 < 1 /\ 1 < i + 1
      OBVIOUS
    <3> QED BY <1>1, <1>3, <3>1 DEF Undisturbed
  <2>2. ASSUME NEW m \in DOMAIN w, m < i PROVE w[m].op \notin ops
    <3>1. m + 1 \in DOMAIN q /\ 0 < m + 1 /\ m + 1 < i + 1 /\ w[m] = q[m + 1]
      BY <1>1, <2>2
    <3> QED BY <1>3, <3>1 DEF Undisturbed
  <2> QED BY <2>1, <2>2 DEF Undisturbed
<1>4. ASSUME NEW j \in DOMAIN q, NEW ops, Undisturbed(q, j, i + 1, ops)
      PROVE  Undisturbed(w, j - 1, i, ops)
  <2> SUFFICES ASSUME NEW m \in DOMAIN w, j - 1 < m, m < i PROVE w[m].op \notin ops
    BY DEF Undisturbed
  <2>1. m + 1 \in DOMAIN q /\ j < m + 1 /\ m + 1 < i + 1 /\ w[m] = q[m + 1]
    BY <1>1
  <2> QED BY <1>4, <2>1 DEF Undisturbed
<1>5. ASSUME NEW j \in DOMAIN q, j # 1, j < i + 1
      PROVE  j - 1 \in DOMAIN w /\ j - 1 < i /\ w[j - 1] = q[j]
  <2>1. j \in Nat /\ j - 1 \in Nat /\ j - 1 \in DOMAIN w /\ w[j - 1] = q[j]
    BY <1>1, <1>5
  <2>2. j - 1 < i
    BY <1>5, <2>1
  <2> QED BY <2>1, <2>2
<1>6. FindsConfig(w, i, t)
  <2>1. CASE s.config /\ Undisturbed(q, 0, i + 1, {"bind", "unbind"})
    <3>1. x.op \notin {"bind", "unbind"} /\ Undisturbed(w, 0, i, {"bind", "unbind"})
      BY <1>3, <2>1
    <3>2. t.config
      BY <1>2, <2>1, <3>1 DEF Sent, x
    <3> QED BY <3>1, <3>2 DEF FindsConfig
  <2>2. ASSUME NEW j \in DOMAIN q, j < i + 1, q[j].op = "config",
               Undisturbed(q, j, i + 1, {"bind", "unbind"})
        PROVE  FindsConfig(w, i, t)
    <3>1. Undisturbed(w, j - 1, i, {"bind", "unbind"})
      BY <1>4, <2>2
    <3>2. CASE j = 1
      <4>1. t.config /\ j - 1 = 0
        BY <1>1, <2>2, <3>2 DEF Sent, x
      <4> QED BY <3>1, <4>1 DEF FindsConfig
    <3>3. CASE j # 1
      <4>1. j - 1 \in DOMAIN w /\ j - 1 < i /\ w[j - 1] = q[j]
        BY <1>5, <2>2, <3>3
      <4> QED BY <2>2, <3>1, <4>1 DEF FindsConfig
    <3> QED BY <3>2, <3>3
  <2> QED BY <2>1, <2>2 DEF Finds, FindsConfig
<1>7. FindsPool(w, i, t, gen)
  <2>1. CASE gen <= s.gen /\ Undisturbed(q, 0, i + 1, {"unbind"})
    <3>1. x.op \notin {"unbind"} /\ Undisturbed(w, 0, i, {"unbind"})
      BY <1>3, <2>1
    <3>2. gen <= t.gen
      BY <1>2, <2>1, <3>1 DEF Sent, x
    <3> QED BY <3>1, <3>2 DEF FindsPool
  <2>2. ASSUME NEW j \in DOMAIN q, j < i + 1, q[j].op = "bind",
               Undisturbed(q, j, i + 1, {"unbind"})
        PROVE  FindsPool(w, i, t, gen)
    <3>1. Undisturbed(w, j - 1, i, {"unbind"})
      BY <1>4, <2>2
    <3>2. CASE j = 1
      <4>1. gen <= t.gen /\ j - 1 = 0
        BY <1>1, <2>2, <3>2 DEF x
      <4> QED BY <3>1, <4>1 DEF FindsPool
    <3>3. CASE j # 1
      <4>1. j - 1 \in DOMAIN w /\ j - 1 < i /\ w[j - 1] = q[j]
        BY <1>5, <2>2, <3>3
      <4> QED BY <2>2, <3>1, <4>1 DEF FindsPool
    <3> QED BY <3>2, <3>3
  <2> QED BY <2>1, <2>2 DEF Finds, FindsPool
<1> QED BY <1>6, <1>7 DEF Finds, w

LEMMA AppendedFind ==
  ASSUME NEW q \in Seq(Item), NEW x \in Item, NEW s, NEW frames, FramesFind(q, s, frames),
         x.op = "frame" => Finds(q, Len(q) + 1, s, frames[x.point].pool)
  PROVE  FramesFind(Append(q, x), s, frames)
<1> DEFINE w == Append(q, x)
<1> SUFFICES ASSUME NEW i \in DOMAIN w, w[i].op = "frame"
             PROVE  Finds(w, i, s, frames[w[i].point].pool)
  BY DEF FramesFind
<1>1. i \in Nat /\ i <= Len(q) + 1
  BY AppendAt
<1>2. Finds(q, i, s, frames[w[i].point].pool)
  <2>1. CASE i \in DOMAIN q
    BY <2>1, AppendAt DEF FramesFind
  <2>2. CASE i = Len(q) + 1
    BY <2>2, AppendAt
  <2> QED BY <2>1, <2>2, AppendAt
<1> QED BY <1>1, <1>2, AppendFinds

LEMMA TailFind ==
  ASSUME NEW q \in Seq(Item), q # <<>>, NEW s, NEW t, NEW frames, FramesFind(q, s, frames),
         Sent(Head(q), s, t),
         Head(q).op = "bind" => \A p \in PointsOf(q) : frames[p].pool <= t.gen
  PROVE  FramesFind(Tail(q), t, frames)
<1> DEFINE w == Tail(q)
<1> SUFFICES ASSUME NEW i \in DOMAIN w, w[i].op = "frame"
             PROVE  Finds(w, i, t, frames[w[i].point].pool)
  BY DEF FramesFind
<1>1. i \in Nat \ {0} /\ i + 1 \in DOMAIN q /\ w[i] = q[i + 1]
  OBVIOUS
<1>2. w[i].point \in PointsOf(q)
  BY <1>1, PointIn
<1> HIDE DEF w
<1>3. Finds(q, i + 1, s, frames[w[i].point].pool)
  BY <1>1 DEF FramesFind
<1>4. Finds(Tail(q), i, t, frames[w[i].point].pool)
  BY <1>1, <1>2, <1>3, TailFinds
<1> QED BY <1>4 DEF w

\* What sync_display queues: the bind and the config go before the frame.
LEMMA PresentedFinds ==
  ASSUME NEW q \in Seq(Item), NEW s, NEW frames, FramesFind(q, s, frames),
         NEW b \in Item, NEW c \in Item, NEW f \in Item,
         b.op = "bind", c.op = "config", f.op = "frame",
         NEW r \in {<<b, c>>, <<b, c>> \o <<f>>}
  PROVE  FramesFind(q \o r, s, frames) /\ \A gen : Finds(q \o r, Len(q \o r) + 1, s, gen)
<1> DEFINE u == Append(q, b)
           v == Append(u, c)
           w == Append(v, f)
<1>1. u \in Seq(Item) /\ v \in Seq(Item)
  OBVIOUS
<1>2. FramesFind(u, s, frames)
  BY AppendedFind
<1>3. FramesFind(v, s, frames)
  <2> HIDE DEF u
  <2> QED BY <1>1, <1>2, AppendedFind
<1>4. \A gen : Finds(v, Len(v) + 1, s, gen)
  BY BindAndConfig
<1>5. FramesFind(w, s, frames) /\ \A gen : Finds(w, Len(w) + 1, s, gen)
  <2> HIDE DEF v
  <2>1. FramesFind(w, s, frames)
    BY <1>1, <1>3, <1>4, AppendedFind
  <2>2. \A gen : Finds(w, Len(w) + 1, s, gen)
    BY <1>1, <1>4, AppendNext
  <2> QED BY <2>1, <2>2
<1>6. q \o <<b, c>> = v
  OBVIOUS
<1>7. q \o (<<b, c>> \o <<f>>) = w
  <2>1. <<b, c>> \in Seq(Item) /\ <<f>> \in Seq(Item)
    OBVIOUS
  <2>2. q \o (<<b, c>> \o <<f>>) = (q \o <<b, c>>) \o <<f>>
    BY <2>1, ConcatAssociative
  <2>3. v \o <<f>> = w
    <3> SUFFICES ASSUME NEW z \in Seq(Item) PROVE z \o <<f>> = Append(z, f)
      BY <1>1
    <3> QED OBVIOUS
  <2> QED BY <1>6, <2>2, <2>3
<1>8. CASE r = <<b, c>>
  BY <1>3, <1>4, <1>6, <1>8
<1>9. CASE r = <<b, c>> \o <<f>>
  BY <1>5, <1>7, <1>9
<1> QED BY <1>8, <1>9

\* The display's own queue and state as they were.
LEMMA QuietFinds ==
  ASSUME Types, PointsKnown, MadeGrows, snapshot \in Nat, snapshot' \in Nat, snapshot <= snapshot',
         NEW d \in Displays, shown \in [Displays -> [gen : Nat, config : BOOLEAN]], FindsIt(d),
         out'[d] = out[d], shown'[d] = shown[d], bound'[d] = bound[d] \/ bound'[d] = 0
  PROVE  FindsIt(d)'
<1>1. out[d] \in Seq(Item) /\ shown[d].gen \in Nat /\ bound[d] \in Nat
  BY DEF Types
<1>2. FramesFind(out'[d], shown'[d], made')
  <2> SUFFICES ASSUME NEW i \in DOMAIN out[d], out[d][i].op = "frame"
               PROVE  Finds(out[d], i, shown[d], made'[out[d][i].point].pool)
    BY DEF FramesFind
  <2>1. out[d][i].point \in DOMAIN made
    BY <1>1, PointIn DEF PointsKnown
  <2>2. made'[out[d][i].point] = made[out[d][i].point]
    BY <2>1 DEF MadeGrows
  <2> QED BY <2>2 DEF FindsIt, FramesFind
<1>3. shown'[d].gen <= snapshot'
  BY <1>1 DEF FindsIt
<1>4. NextFinds(d)'
  BY <1>1 DEF FindsIt, NextFinds
<1> QED BY <1>2, <1>3, <1>4 DEF FindsIt

LEMMA GrowsOrKept ==
  ASSUME Base, Next
  PROVE  MadeGrows /\ snapshot \in Nat /\ snapshot' \in Nat /\ snapshot <= snapshot'
<1> USE DEF Base, MadeGrows
<1>1. snapshot \in Nat /\ snapshot' \in Nat
  BY TypesStep DEF Types
<1>2. CASE NewPool
  BY <1>1, <1>2 DEF NewPool, readerVars
<1>3. CASE Submit
  <2>1. snapshot' = snapshot
    BY <1>3 DEF Submit, SubmitTo, readerVars
  <2> QED BY <1>1, <1>3, <2>1, SubmitEffect
<1>4. CASE ReadBind
  <2>1. made' = made /\ wire # <<>> /\ Head(wire).op = "bind" /\ snapshot' = Head(wire).gen
    BY <1>4 DEF ReadBind, rendererVars
  <2>2. 1 \in DOMAIN wire /\ wire[1] = Head(wire)
    BY <2>1, TailAt DEF Types
  <2>3. snapshot <= snapshot'
    BY <2>1, <2>2 DEF SnapshotInOrder, BindsInOrder
  <2> QED BY <1>1, <2>1, <2>3
<1>5. CASE ClearFences
  BY <1>1, <1>5 DEF ClearFences, rendererVars
<1>6. CASE ReadFrame
  BY <1>1, <1>6 DEF ReadFrame, rendererVars
<1>7. CASE WireKept
  BY <1>1, <1>7 DEF WireKept
<1> QED BY <1>2, <1>3, <1>4, <1>5, <1>6, <1>7, WireIsKept

-----------------------------------------------------------------------------
(* What each step does to what the displays find.                          *)

\* An order taken from the queue has been sent to the display.
LEMMA SentFinds ==
  ASSUME Base, Base', NEW d \in Displays,
         shown \in [Displays -> [gen : Nat, config : BOOLEAN]], FindsIt(d),
         out[d] # <<>>, out'[d] = Tail(out[d]), made' = made, snapshot' = snapshot,
         bound'[d] = bound[d], shown'[d] \in [gen : Nat, config : BOOLEAN],
         Sent(Head(out[d]), shown[d], shown'[d]), shown'[d].gen <= snapshot,
         Head(out[d]).op = "bind" => shown'[d].gen = snapshot
  PROVE  FindsIt(d)'
<1> DEFINE q == out[d]
<1>1. q \in Seq(Item) /\ bound[d] \in Nat /\ snapshot \in Nat
  BY DEF Base, Types
<1>2. q # <<>> /\ Len(q) \in Nat \ {0} /\ Len(Tail(q)) + 1 = Len(q)
  BY <1>1, TailAt
<1>3. Head(q).op = "bind" => \A p \in PointsOf(q) : made[p].pool <= shown'[d].gen
  BY DEF Base, PoolsKnown
<1>4. Sent(Head(q), shown[d], shown'[d]) /\ FramesFind(q, shown[d], made)
  BY DEF FindsIt
<1>5. out'[d] = Tail(q)
  OBVIOUS
<1> HIDE DEF q
<1>6. FramesFind(Tail(q), shown'[d], made)
  BY <1>1, <1>2, <1>3, <1>4, TailFind
<1>7. ASSUME bound[d] # 0 PROVE bound[d] <= snapshot /\ Finds(Tail(q), Len(q), shown'[d], bound[d])
  <2>1. bound[d] <= snapshot /\ Finds(q, Len(q) + 1, shown[d], bound[d])
    BY <1>7 DEF FindsIt, NextFinds, q
  <2>2. Head(q).op = "bind" => bound[d] <= shown'[d].gen
    BY <2>1 DEF q
  <2> QED BY <1>1, <1>2, <1>4, <2>1, <2>2, TailFinds
<1>8. NextFinds(d)'
  BY <1>2, <1>5, <1>7 DEF NextFinds
<1> QED BY <1>5, <1>6, <1>8 DEF FindsIt

LEMMA EmptyFinds ==
  ASSUME Base', NEW d \in Displays, out'[d] = <<>>, bound'[d] = 0, shown'[d].gen <= snapshot'
  PROVE  FindsIt(d)'
  BY DEF FindsIt, FramesFind, NextFinds

\* on_renderer_frame sends to the displays of the snapshot's pool.
LEMMA HandleFinds ==
  ASSUME Base, Base', HandleFrame, Shown, \A p \in DOMAIN made : made[p].pool > 0,
         NEW d \in Displays
  PROVE  FindsIt(d)'
<1> DEFINE p == Head(events).point
           f == Frame(snapshot, p, Cardinality(Recipients))
           q == out[d]
<1>1. UNCHANGED <<made, snapshot, shown, bound>>
  BY DEF HandleFrame, rendererVars, readerVars, routerVars, displayVars
<1>2. Types /\ PointsKnown /\ q \in Seq(Item) /\ FindsIt(d) /\ snapshot \in Nat
  BY DEF Base, Types, Shown
<1>3. /\ f \in Item /\ p \in PointsOf(events) /\ f.op = "frame" /\ f.point = p
      /\ d \in Recipients => out'[d] = Append(q, f)
      /\ d \notin Recipients => out'[d] = q
  BY <1>2, HandleEffect DEF Frame
<1>4. p \in DOMAIN made /\ made[p].pool \in Nat /\ 0 < made[p].pool /\ made[p].pool <= snapshot
  BY <1>2, <1>3, MadeTypes DEF PointsKnown, Base, PoolsKnown
<1>5. CASE d \notin Recipients
  BY <1>1, <1>2, <1>3, <1>5, QuietFinds DEF Shown, MadeGrows
<1>6. CASE d \in Recipients
  <2>1. bound[d] = snapshot /\ bound[d] # 0
    BY <1>2, <1>4, <1>6 DEF Recipients
  <2>2. /\ shown[d] \in [gen : Nat, config : BOOLEAN] /\ shown[d].gen <= snapshot
        /\ FramesFind(q, shown[d], made)
        /\ Finds(q, Len(q) + 1, shown[d], snapshot)
    BY <1>2, <2>1 DEF Shown, FindsIt, NextFinds
  <2> HIDE DEF p, f, q
  <2>3. Finds(q, Len(q) + 1, shown[d], made[p].pool)
    BY <1>2, <1>4, <2>2, LowerFinds
  <2>4. FramesFind(Append(q, f), shown[d], made)
    BY <1>2, <1>3, <2>2, <2>3, AppendedFind
  <2>5. Finds(Append(q, f), Len(Append(q, f)) + 1, shown[d], snapshot)
    BY <1>2, <1>3, <2>2, AppendNext
  <2>6. out'[d] = Append(q, f)
    BY <1>3, <1>6
  <2>7. NextFinds(d)'
    BY <1>1, <1>2, <2>1, <2>5, <2>6 DEF NextFinds
  <2> QED BY <1>1, <2>2, <2>4, <2>6, <2>7 DEF FindsIt
<1> QED BY <1>5, <1>6

\* sync_display takes a display off, or binds it and configures it.
LEMMA SyncFinds ==
  ASSUME Base, Base', NEW e \in Displays, SyncDisplay(e), Shown,
         UNCHANGED <<made, snapshot, shown>>, NEW d \in Displays
  PROVE  FindsIt(d)'
<1>1. /\ Types /\ PointsKnown /\ MadeGrows /\ snapshot \in Nat /\ bound \in [Displays -> Nat]
      /\ FindsIt(d) /\ out[d] \in Seq(Item) /\ latest \in [gen : Nat, point : Nat]
  BY DEF Base, Types, MadeGrows, Shown
<1>2. CASE e \notin here \/ bound[e] = Target(e)
  BY <1>1, <1>2, QuietFinds DEF SyncDisplay, Shown
<1>3. CASE ~(e \notin here \/ bound[e] = Target(e)) /\ d # e
  <2>1. out'[d] = out[d] /\ bound'[d] = bound[d]
    BY <1>1, <1>3 DEF SyncDisplay, Types
  <2> QED BY <1>1, <2>1, QuietFinds DEF Shown
<1>4. CASE ~(e \notin here \/ bound[e] = Target(e)) /\ d = e
  <2> DEFINE q == out[d] \o Retire(d)
  <2>1. Retire(d) \in Seq(Item) /\ Present(d) \in Seq(Item)
    BY <1>1, SyncQueues
  <2>2. out'[d] = q \o Present(d) /\ bound'[d] = Target(d)
    BY <1>1, <1>4 DEF SyncDisplay, Types
  <2>3. q \in Seq(Item) /\ FramesFind(q, shown[d], made)
    <3> DEFINE x == Order("unbind", bound[d])
    <3>1. x \in Item /\ x.op # "frame"
      BY <1>1, ItemTypes
    <3>2. CASE bound[d] = 0
      BY <1>1, <3>2 DEF Retire, FindsIt
    <3>3. CASE bound[d] # 0
      <4>1. q = out[d] \o <<x>>
        BY <3>3 DEF Retire
      <4> HIDE DEF x
      <4>2. q = Append(out[d], x)
        BY <1>1, <3>1, <4>1
      <4> HIDE DEF q
      <4> QED BY <1>1, <3>1, <4>2, AppendedFind DEF FindsIt
    <3> QED BY <3>2, <3>3
  <2> HIDE DEF q
  <2>4. CASE Target(d) = 0
    <3>1. Present(d) = <<>> /\ out'[d] = q
      BY <2>2, <2>3, <2>4 DEF Present
    <3> QED BY <1>1, <2>2, <2>3, <2>4, <3>1 DEF FindsIt, NextFinds
  <2>5. CASE Target(d) # 0
    <3> DEFINE b == Order("bind", 0)
               c == Order("config", 0)
               f == Frame(latest.gen, latest.point, 1)
               r == Present(d)
    <3>1. /\ b \in Item /\ c \in Item /\ f \in Item
          /\ b.op = "bind" /\ c.op = "config" /\ f.op = "frame"
      BY <1>1, ItemTypes
    <3>2. r \in {<<b, c>>, <<b, c>> \o <<f>>}
      <4>1. <<b, c>> \o <<>> = <<b, c>>
        BY <3>1
      <4>2. Present(d) = <<b, c>> \o Replay(d)
        BY <2>5 DEF Present
      <4>3. Replay(d) \in {<<>>, <<f>>}
        BY DEF Replay
      <4> HIDE DEF b, c, f
      <4> QED BY <4>1, <4>2, <4>3
    <3> HIDE DEF b, c, f, r
    <3>3. /\ FramesFind(q \o r, shown[d], made)
          /\ \A gen : Finds(q \o r, Len(q \o r) + 1, shown[d], gen)
      BY <2>3, <3>1, <3>2, PresentedFinds
    <3>4. out'[d] = q \o r /\ bound'[d] = snapshot
      BY <2>2, <2>5 DEF r, Target
    <3> QED BY <1>1, <3>3, <3>4 DEF FindsIt, NextFinds
  <2> QED BY <2>4, <2>5
<1> QED BY <1>2, <1>3, <1>4

-----------------------------------------------------------------------------
(* The wire, the fences and what the displays were told.                   *)

LEMMA FollowBindsStep ==
  ASSUME Base, FramesFollowBinds, Next
  PROVE  FramesFollowBinds'
<1> USE DEF Base
<1>1. /\ wire \in Seq(Item) /\ snapshot \in Nat /\ pool \in Nat /\ Types
      /\ \A p \in DOMAIN made : made[p].pool \in Nat
      /\ \A i \in DOMAIN wire : wire[i].op = "frame" => wire[i].point \in DOMAIN made
  <2>1. wire \in Seq(Item) /\ snapshot \in Nat /\ pool \in Nat /\ Types
    BY DEF Types
  <2>2. \A i \in DOMAIN wire : wire[i].op = "frame" => wire[i].point \in DOMAIN made
    BY <2>1, PointIn DEF PointsKnown
  <2> QED BY <2>1, <2>2, MadeTypes
<1>2. CASE NewPool
  <2> DEFINE x == Order("bind", pool + 1)
  <2>1. x \in Item /\ x.op = "bind" /\ wire' = Append(wire, x) /\ made' = made /\ snapshot' = snapshot
    BY <1>1, <1>2, NewPoolEffect, ItemTypes DEF NewPool, readerVars
  <2> HIDE DEF x
  <2>2. \A i \in DOMAIN wire' : wire'[i].op = "frame" =>
          i \in DOMAIN wire /\ \A j \in DOMAIN wire' : j < i => j \in DOMAIN wire /\ wire'[j] = wire[j]
    BY <1>1, <2>1, AppendAt
  <2>3. \A i \in DOMAIN wire : wire'[i] = wire[i]
    BY <1>1, <2>1, AppendAt
  <2> QED BY <2>1, <2>2, <2>3 DEF FramesFollowBinds
<1>3. CASE Submit
  <2> DEFINE n == Len(made) + 1
             x == Frame(pool, n, 0)
  <2>1. /\ wire' = Append(wire, x) /\ x \in Item /\ n \in Nat
        /\ DOMAIN made' = DOMAIN made \cup {n} /\ made'[n] = [pool |-> pool, slot |-> next]
        /\ \A p \in DOMAIN made : made'[p] = made[p]
    BY <1>1, <1>3, SubmitEffect
  <2>2. snapshot' = snapshot /\ pool > 0 /\ x.op = "frame" /\ x.point = n /\ made'[n].pool = pool
    BY <1>3, <2>1, ItemTypes DEF Submit, SubmitTo, readerVars
  <2> HIDE DEF x, n
  <2>3. \A p \in DOMAIN made' : made'[p].pool > 0
    BY <2>1, <2>2 DEF FramesFollowBinds
  <2>4. ASSUME NEW i \in DOMAIN wire', wire'[i].op = "frame"
        PROVE  /\ snapshot <= made'[wire'[i].point].pool
               /\ \A j \in DOMAIN wire' :
                    j < i /\ wire'[j].op = "bind" => wire'[j].gen <= made'[wire'[i].point].pool
    <3>1. CASE i \in DOMAIN wire
      <4>1. wire'[i] = wire[i] /\ made'[wire'[i].point] = made[wire[i].point]
        BY <1>1, <2>1, <2>4, <3>1, AppendAt
      <4>2. \A j \in DOMAIN wire' : j < i => j \in DOMAIN wire /\ wire'[j] = wire[j]
        BY <1>1, <2>1, <3>1, AppendAt
      <4> QED BY <2>4, <3>1, <4>1, <4>2 DEF FramesFollowBinds
    <3>2. CASE i = Len(wire) + 1
      <4>1. wire'[i] = x
        BY <1>1, <2>1, <3>2, AppendAt
      <4>2. \A j \in DOMAIN wire' : j < i => j \in DOMAIN wire /\ wire'[j] = wire[j]
        BY <1>1, <2>1, <3>2, AppendAt
      <4> QED BY <2>2, <4>1, <4>2 DEF SnapshotInOrder, BindsInOrder
    <3> QED BY <1>1, <2>1, <3>1, <3>2, AppendAt
  <2> QED BY <2>2, <2>3, <2>4 DEF FramesFollowBinds
<1>4. CASE ReadBind
  <2>1. /\ wire # <<>> /\ Head(wire).op = "bind" /\ snapshot' = Head(wire).gen
        /\ wire' = wire /\ made' = made
    BY <1>4 DEF ReadBind, rendererVars
  <2>2. 1 \in DOMAIN wire /\ wire[1] = Head(wire) /\ \A i \in DOMAIN wire : i = 1 \/ 1 < i
    BY <1>1, <2>1, TailAt
  <2>3. \A i \in DOMAIN wire : wire[i].op = "frame" => snapshot' <= made[wire[i].point].pool
    BY <2>1, <2>2 DEF FramesFollowBinds
  <2> QED BY <2>1, <2>3 DEF FramesFollowBinds
<1>5. CASE ClearFences \/ ReadFrame
  <2>1. wire # <<>> /\ wire' = Tail(wire) /\ made' = made /\ snapshot' = snapshot
    BY <1>5, ClearEffect, ReadEffect DEF ClearFences, ReadFrame, rendererVars
  <2>2. ASSUME NEW i \in DOMAIN wire', wire'[i].op = "frame"
        PROVE  /\ snapshot <= made[wire'[i].point].pool
               /\ \A j \in DOMAIN wire' :
                    j < i /\ wire'[j].op = "bind" => wire'[j].gen <= made[wire'[i].point].pool
    <3>1. i \in Nat /\ i + 1 \in DOMAIN wire /\ wire'[i] = wire[i + 1]
      BY <1>1, <2>1, TailAt
    <3>2. \A j \in DOMAIN wire' : j \in Nat /\ j + 1 \in DOMAIN wire /\ wire'[j] = wire[j + 1]
      BY <1>1, <2>1, TailAt
    <3>3. \A j \in DOMAIN wire' : j < i => j + 1 < i + 1
      BY <3>1, <3>2
    <3> QED BY <2>2, <3>1, <3>2, <3>3 DEF FramesFollowBinds
  <2> QED BY <2>1, <2>2 DEF FramesFollowBinds
<1>6. CASE WireKept
  BY <1>6 DEF WireKept, FramesFollowBinds
<1> QED BY <1>2, <1>3, <1>4, <1>5, <1>6, WireIsKept

\* Only the reader thread touches the fences.
LEMMA FencesKept ==
  ASSUME Next
  PROVE  \/ ReadBind \/ ClearFences \/ ReadFrame
         \/ UNCHANGED <<fences, snapshot, rebinding>>
<1> USE DEF rendererVars, readerVars
<1>1. CASE NewPool \/ Submit
  BY <1>1 DEF NewPool, Submit, SubmitTo
<1>2. CASE HandleFrame \/ HandleBind \/ SyncOne \/ ReceiveRecord \/ Expire \/ Flush
  BY <1>2 DEF HandleFrame, HandleBind, SyncOne, ReceiveRecord, Expire, Flush
<1>3. CASE \E d \in Displays : SendBind(d) \/ SendConfig(d) \/ SendUnbind(d)
                                 \/ ForwardFrame(d) \/ SubmitRecord(d) \/ Release(d)
  BY <1>3 DEF SendBind, SendConfig, SendUnbind, ForwardFrame, SubmitRecord, Release
<1>4. CASE \E d \in Displays : Come(d) \/ Unlink(d) \/ Leave(d) \/ CrashDisplay(d)
  BY <1>4 DEF Come, Unlink, Leave, CrashDisplay
<1> QED BY <1>1, <1>2, <1>3, <1>4 DEF Next, Internal, External

LEMMA FencesFitStep ==
  ASSUME Base, FramesFollowBinds, FencesFit, Next
  PROVE  FencesFit'
<1>1. /\ MadeGrows /\ wire \in Seq(Item) /\ snapshot \in Nat /\ fences \in Seq(Nat)
      /\ Types /\ \A p \in DOMAIN made : made[p].pool \in Nat
  <2>1. wire \in Seq(Item) /\ snapshot \in Nat /\ Types
    BY DEF Base, Types
  <2> QED BY <2>1, GrowsOrKept, MadeTypes DEF FencesFit
<1>2. CASE ReadBind
  <2>1. fences' = fences /\ rebinding'
    BY <1>2 DEF ReadBind
  <2> QED BY <1>1, <2>1 DEF FencesFit, MadeGrows
<1>3. CASE ClearFences
  <2>1. fences' = <<>>
    BY <1>3 DEF ClearFences
  <2>2. DOMAIN << >> = {} /\ << >> \in Seq(Nat)
    OBVIOUS
  <2> QED BY <2>1, <2>2 DEF FencesFit
<1>4. CASE ReadFrame
  <2> DEFINE p == Head(wire).point
             kept == IF Len(fences) < Retention THEN fences ELSE Tail(fences)
  <2>1. /\ fences' = Append(kept, p) /\ snapshot' = snapshot /\ rebinding' = rebinding
        /\ wire # <<>> /\ Head(wire).op = "frame"
    BY <1>4 DEF ReadFrame
  <2>2. ~rebinding
    BY <1>4, ReadEffect
  <2>3. p \in DOMAIN made /\ made[p].pool <= snapshot /\ p \in Nat
    BY <1>1, <1>4, HeadIsKnown, MadeTypes
  <2>4. snapshot <= made[p].pool
    <3>1. 1 \in DOMAIN wire /\ wire[1] = Head(wire)
      BY <1>1, <2>1, TailAt
    <3> QED BY <2>1, <3>1 DEF FramesFollowBinds
  <2>5. made[p].pool = snapshot
    BY <1>1, <2>3, <2>4
  <2>6. kept \in Seq(Nat) /\ \A i \in DOMAIN kept : \E j \in DOMAIN fences : kept[i] = fences[j]
    <3>1. CASE Len(fences) < Retention
      BY <1>1, <3>1
    <3>2. CASE ~(Len(fences) < Retention)
      <4>1. fences # <<>>
        BY <1>1, <3>2, FramesAssumption
      <4>2. /\ Tail(fences) \in Seq(Nat)
            /\ \A i \in DOMAIN Tail(fences) :
                 i + 1 \in DOMAIN fences /\ Tail(fences)[i] = fences[i + 1]
        BY <1>1, <4>1
      <4> QED BY <3>2, <4>2
    <3> QED BY <3>1, <3>2
  <2> HIDE DEF p, kept
  <2>7. /\ fences' \in Seq(Nat)
        /\ \A i \in DOMAIN fences' : fences'[i] = p \/ \E j \in DOMAIN fences : fences'[i] = fences[j]
    <3>1. /\ Append(kept, p) \in Seq(Nat)
          /\ \A i \in DOMAIN Append(kept, p) :
               Append(kept, p)[i] = p \/ (i \in DOMAIN kept /\ Append(kept, p)[i] = kept[i])
      BY <2>3, <2>6
    <3> QED BY <2>1, <2>6, <3>1
  <2>8. \A i \in DOMAIN fences' : fences'[i] \in DOMAIN made /\ made[fences'[i]].pool = snapshot
    BY <2>2, <2>3, <2>5, <2>7 DEF FencesFit
  <2> QED BY <1>1, <2>1, <2>7, <2>8 DEF FencesFit, MadeGrows
<1>5. CASE UNCHANGED <<fences, snapshot, rebinding>>
  BY <1>1, <1>5 DEF FencesFit, MadeGrows
<1> QED BY <1>2, <1>3, <1>4, <1>5, FencesKept

\* What an endpoint sends, and what it leaves behind when it ends.
LEMMA DisplayFinds ==
  ASSUME Base, Base', Shown, NEW e \in Displays, OfADisplay(e)
  PROVE  Shown'
<1>1. /\ Types /\ PointsKnown /\ MadeGrows /\ snapshot \in Nat /\ made' = made /\ snapshot' = snapshot
      /\ shown \in [Displays -> [gen : Nat, config : BOOLEAN]]
      /\ bound \in [Displays -> Nat]
      /\ \A d \in Displays : FindsIt(d)
  BY DisplayKeepsWire DEF Base, Types, MadeGrows, Shown, WireKept
<1>2. ASSUME NEW d \in Displays, out'[d] = out[d], shown'[d] = shown[d], bound'[d] = bound[d]
      PROVE  FindsIt(d)'
  BY <1>1, <1>2, QuietFinds
<1>3. ASSUME Disconnected(e), shown' = shown PROVE Shown'
  <2>1. FindsIt(e)'
    <3>1. out'[e] = <<>> /\ bound'[e] = 0 /\ shown'[e].gen <= snapshot'
      BY <1>1, <1>3 DEF Disconnected, Types, FindsIt
    <3> QED BY <3>1, EmptyFinds
  <2>2. \A d \in Displays \ {e} : FindsIt(d)'
    BY <1>1, <1>2, <1>3, DisconnectEffect
  <2> QED BY <1>1, <1>3, <2>1, <2>2 DEF Shown
<1>4. ASSUME out[e] # <<>>, out' = [out EXCEPT ![e] = Tail(@)], bound' = bound,
             NEW t \in [gen : Nat, config : BOOLEAN], shown' = [shown EXCEPT ![e] = t],
             Sent(Head(out[e]), shown[e], t), t.gen <= snapshot,
             Head(out[e]).op = "bind" => t.gen = snapshot
      PROVE  Shown'
  <2>1. out'[e] = Tail(out[e]) /\ shown'[e] = t
        /\ \A d \in Displays \ {e} : out'[d] = out[d] /\ shown'[d] = shown[d]
    BY <1>1, <1>4 DEF Types
  <2>2. FindsIt(e)'
    BY <1>1, <1>4, <2>1, SentFinds
  <2>3. \A d \in Displays \ {e} : FindsIt(d)'
    BY <1>2, <1>4, <2>1
  <2>4. shown' \in [Displays -> [gen : Nat, config : BOOLEAN]]
    BY <1>1, <1>4
  <2> QED BY <2>2, <2>3, <2>4 DEF Shown
<1>5. shown[e] \in [gen : Nat, config : BOOLEAN] /\ shown[e].gen <= snapshot
  BY <1>1 DEF FindsIt
<1>6. CASE SendBind(e)
  <2> DEFINE t == [gen |-> snapshot, config |-> FALSE]
  <2>1. /\ out[e] # <<>> /\ Head(out[e]).op = "bind" /\ out' = [out EXCEPT ![e] = Tail(@)]
        /\ bound' = bound /\ shown' = [shown EXCEPT ![e] = t]
    BY <1>6 DEF SendBind, Ready, routerVars
  <2>2. /\ t \in [gen : Nat, config : BOOLEAN] /\ t.gen = snapshot /\ t.gen <= snapshot
        /\ Sent(Head(out[e]), shown[e], t)
    BY <1>1, <2>1 DEF Sent
  <2> HIDE DEF t
  <2> QED BY <1>4, <2>1, <2>2
<1>7. CASE SendConfig(e)
  <2> DEFINE t == [shown[e] EXCEPT !.config = TRUE]
  <2>1. /\ out[e] # <<>> /\ Head(out[e]).op = "config" /\ out' = [out EXCEPT ![e] = Tail(@)]
        /\ bound' = bound /\ shown' = [shown EXCEPT ![e] = t]
    BY <1>7 DEF SendConfig, Ready, routerVars
  <2>2. /\ t \in [gen : Nat, config : BOOLEAN] /\ t.gen = shown[e].gen /\ t.config
    BY <1>5
  <2> HIDE DEF t
  <2> QED BY <1>4, <1>5, <2>1, <2>2 DEF Sent
<1>8. CASE SendUnbind(e)
  <2> DEFINE t == [gen |-> 0, config |-> FALSE]
  <2>1. /\ out[e] # <<>> /\ Head(out[e]).op = "unbind" /\ out' = [out EXCEPT ![e] = Tail(@)]
        /\ bound' = bound /\ shown' = [shown EXCEPT ![e] = t]
    BY <1>8 DEF SendUnbind, Ready, routerVars
  <2>2. /\ t \in [gen : Nat, config : BOOLEAN] /\ t.gen <= snapshot
        /\ Sent(Head(out[e]), shown[e], t)
    BY <1>1, <2>1 DEF Sent
  <2> HIDE DEF t
  <2> QED BY <1>4, <2>1, <2>2
<1>9. CASE ForwardFrame(e)
  <2>1. shown' = shown /\ out[e] # <<>> /\ Head(out[e]).op = "frame"
    BY <1>9 DEF ForwardFrame, Ready
  <2>2. CASE Fenced(e)
    <3>1. out' = [out EXCEPT ![e] = Tail(@)] /\ bound' = bound
      BY <1>1, <1>9, <2>2, ForwardEffect DEF routerVars
    <3>2. shown' = [shown EXCEPT ![e] = shown[e]]
      BY <1>1, <2>1
    <3> QED BY <1>4, <1>5, <2>1, <3>1, <3>2 DEF Sent
  <2>3. CASE ~Fenced(e)
    BY <1>1, <1>3, <1>9, <2>1, <2>3, ForwardEffect
  <2> QED BY <2>2, <2>3
<1>10. CASE Leave(e)
  BY <1>3, <1>10 DEF Leave, displayVars
<1>11. CASE SubmitRecord(e) \/ CrashDisplay(e) \/ Release(e)
  <2>1. out' = out /\ shown' = shown /\ bound' = bound
    BY <1>11 DEF SubmitRecord, CrashDisplay, Release, displayVars, routerVars
  <2> QED BY <1>1, <1>2, <2>1 DEF Shown
<1> QED BY <1>6, <1>7, <1>8, <1>9, <1>10, <1>11 DEF OfADisplay

LEMMA ShownStep ==
  ASSUME Base, Base', FramesFollowBinds, Shown, Next
  PROVE  Shown'
<1>1. /\ Types /\ PointsKnown /\ MadeGrows
      /\ snapshot \in Nat /\ snapshot' \in Nat /\ snapshot <= snapshot'
      /\ shown \in [Displays -> [gen : Nat, config : BOOLEAN]]
      /\ \A d \in Displays : FindsIt(d)
  BY GrowsOrKept DEF Base, Shown
<1>2. ASSUME out' = out, shown' = shown, bound' = bound PROVE Shown'
  <2>1. \A d \in Displays : FindsIt(d)'
    BY <1>1, <1>2, QuietFinds
  <2> QED BY <1>1, <1>2, <2>1 DEF Shown
<1>3. CASE NewPool \/ Submit
  BY <1>2, <1>3 DEF NewPool, Submit, SubmitTo, routerVars, displayVars
<1>4. CASE ReadBind \/ ClearFences \/ ReadFrame
  BY <1>2, <1>4 DEF ReadBind, ClearFences, ReadFrame, routerVars, displayVars
<1>5. CASE HandleFrame
  <2>1. shown' = shown
    BY <1>5 DEF HandleFrame, displayVars
  <2>2. \A d \in Displays : FindsIt(d)'
    BY <1>5, HandleFinds DEF FramesFollowBinds
  <2> QED BY <1>1, <2>1, <2>2 DEF Shown
<1>6. CASE SyncOne
  <2>1. UNCHANGED <<made, snapshot, shown>>
    BY <1>6 DEF SyncOne, rendererVars, readerVars, displayVars
  <2>2. PICK e \in Displays : SyncDisplay(e)
    BY <1>1, <1>6 DEF SyncOne, Types
  <2>3. \A d \in Displays : FindsIt(d)'
    BY <2>1, <2>2, SyncFinds
  <2> QED BY <1>1, <2>1, <2>3 DEF Shown
<1>7. CASE Others
  <2>1. out' = out /\ bound' = bound
    BY <1>1, <1>7, OthersKeep
  <2>2. shown' = shown
    BY <1>7 DEF Others, HandleBind, ReceiveRecord, Expire, Flush, Come, Unlink, displayVars
  <2> QED BY <1>2, <2>1, <2>2
<1>8. CASE \E d \in Displays : OfADisplay(d)
  BY <1>8, DisplayFinds
<1> QED BY <1>3, <1>4, <1>5, <1>6, <1>7, <1>8, NextCases

\* A display gets to sample a frame when its endpoint forwards it.
LEMMA NewlySampled ==
  ASSUME Types, Next, NEW d \in Displays, NEW p \in sampling'[d] \ sampling[d]
  PROVE  ForwardFrame(d) /\ Fenced(d) /\ p = Head(out[d]).point
<1>1. sampling' # sampling
  OBVIOUS
<1>2. PICK e \in Displays : ForwardFrame(e) \/ Release(e)
  <2>1. CASE NewPool \/ Submit \/ ReadBind \/ ClearFences \/ ReadFrame
    BY <1>1, <2>1 DEF NewPool, Submit, SubmitTo, ReadBind, ClearFences, ReadFrame, displayVars
  <2>2. CASE HandleFrame \/ SyncOne
    BY <1>1, <2>2 DEF HandleFrame, SyncOne, displayVars
  <2>3. CASE Others
    BY <1>1, <2>3, OthersKeep
  <2>4. CASE \E e \in Displays : OfADisplay(e)
    BY <1>1, <2>4 DEF OfADisplay, SendBind, SendConfig, SendUnbind, SubmitRecord, Leave,
                      CrashDisplay, displayVars
  <2> QED BY <2>1, <2>2, <2>3, <2>4, NextCases
<1>3. CASE Release(e)
  <2>1. \E x : sampling' = [sampling EXCEPT ![e] = @ \ {x}]
    BY <1>3 DEF Release
  <2> QED BY <2>1 DEF Types
<1>4. CASE ForwardFrame(e)
  <2>1. Fenced(e)
    BY <1>1, <1>4, ForwardEffect
  <2>2. sampling' = [sampling EXCEPT ![e] = @ \cup {Head(out[e]).point}]
    BY <1>4, <2>1, ForwardEffect
  <2> QED BY <1>4, <2>1, <2>2 DEF Types
<1> QED BY <1>2, <1>3, <1>4

Configured(d, p) == shown[d].config /\ (rebinding \/ shown[d].gen = made[p].pool)

LEMMA ConfiguredStep ==
  ASSUME Base, Presented, Next, NEW d \in Displays, NEW p \in sampling'[d] \ sampling[d]
  PROVE  Configured(d, p)
<1> DEFINE q == out[d]
<1>1. ForwardFrame(d) /\ Fenced(d) /\ p = Head(q).point
  BY NewlySampled DEF Base
<1>2. /\ q \in Seq(Item) /\ q # <<>> /\ Head(q).op = "frame" /\ 1 \in DOMAIN q /\ q[1] = Head(q)
      /\ \A m \in DOMAIN q : m \in Nat /\ m >= 1
  <2>1. q \in Seq(Item) /\ q # <<>> /\ Head(q).op = "frame"
    BY <1>1, ForwardEffect DEF Base
  <2> QED BY <2>1, TailAt
<1>3. Finds(q, 1, shown[d], made[p].pool)
  BY <1>1, <1>2 DEF Presented, Shown, FindsIt, FramesFind
<1>4. \A j \in DOMAIN q : ~(j < 1)
  BY <1>2
<1>5. shown[d].config /\ made[p].pool <= shown[d].gen
  BY <1>3, <1>4 DEF Finds, FindsConfig, FindsPool
<1>6. ~rebinding => made[p].pool = snapshot
  BY <1>1 DEF Fenced, Presented, FencesFit
<1>7. shown[d].gen <= snapshot /\ shown[d].gen \in Nat /\ snapshot \in Nat
  BY DEF Presented, Shown, FindsIt, Base, Types
<1> QED BY <1>5, <1>6, <1>7 DEF Configured

LEMMA PresentedStep ==
  ASSUME FramesInv, Presented, [Next]_vars
  PROVE  Presented'
<1>1. CASE Next
  <2>1. Base /\ Base'
    BY <1>1, BaseStep DEF FramesInv
  <2> QED BY <1>1, <2>1, FollowBindsStep, FencesFitStep, ShownStep DEF Presented
<1>2. CASE UNCHANGED vars
  <2>1. UNCHANGED <<made, wire, snapshot, fences, rebinding, bound, out, shown>>
    BY <1>2 DEF vars, rendererVars, readerVars, routerVars, displayVars
  <2> QED BY <2>1 DEF Presented, FramesFollowBinds, FencesFit, Shown, FindsIt, FramesFind,
                      NextFinds
<1> QED BY <1>1, <1>2

LEMMA InitPresented ==
  ASSUME Init
  PROVE  Presented
<1>1. DOMAIN << >> = {} /\ << >> \in Seq(Nat)
  OBVIOUS
<1>2. made = <<>> /\ wire = <<>> /\ fences = <<>> /\ snapshot = 0
  BY DEF Init
<1>3. FramesFollowBinds /\ FencesFit
  BY <1>1, <1>2 DEF FramesFollowBinds, FencesFit
<1>4. ASSUME NEW d \in Displays
      PROVE  shown[d].gen = 0 /\ out[d] = <<>> /\ bound[d] = 0
  BY DEF Init
<1>5. shown \in [Displays -> [gen : Nat, config : BOOLEAN]]
  BY DEF Init
<1>6. Shown
  BY <1>1, <1>2, <1>4, <1>5 DEF Shown, FindsIt, FramesFind, NextFinds
<1> QED BY <1>3, <1>6 DEF Presented

(* A display begins to sample a frame only after a set_config for the pool *)
(* it was told to use, and of that pool, but for the moment between the    *)
(* two locks of run_reader's BindBuffers arm: sync_display, on_renderer_   *)
(* frame, send_bind_from_renderer and forward_frame_ready keep it between  *)
(* them, for any number of displays, pools and frames queued.              *)
THEOREM FramesConfigured == Spec => FramesAreConfigured
<1>1. Init => FramesInv /\ Presented
  BY InitBase, InitFlow, InitPresented DEF FramesInv
<1>2. FramesInv /\ Presented /\ [Next]_vars => (FramesInv /\ Presented)'
  BY FramesInvStep, PresentedStep
<1>3. FramesInv /\ Presented /\ [Next]_vars =>
        [\A d \in Displays : \A p \in sampling'[d] \ sampling[d] :
           shown[d].config /\ (rebinding \/ shown[d].gen = made[p].pool)]_vars
  BY ConfiguredStep DEF FramesInv, Configured
<1> QED BY <1>1, <1>2, <1>3, PTL DEF Spec, FramesAreConfigured
=============================================================================
