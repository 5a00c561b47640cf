--------------------------- MODULE NegotiationProofs ---------------------------
(***************************************************************************)
(* What the picker guarantees for any two peers, and what the exchange of  *)
(* refusals keeps of it for any number of displays.                        *)
(***************************************************************************)
EXTENDS Negotiation, WellFoundedInduction, SequenceTheorems, TLAPS

LEMMA LeastNumber ==
  ASSUME NEW T \in SUBSET Nat, T # {}
  PROVE  \E n \in T : \A m \in T : n <= m
<1> DEFINE R == OpToRel(<, Nat)
<1>1. IsWellFoundedOn(R, Nat)
  BY NatLessThanWellFounded
<1>2. \A x, y \in Nat : x < y => <<x, y>> \in R
  BY DEF OpToRel
<1> HIDE DEF R
<1>3. PICK n \in T : \A m \in T : ~(<<m, n>> \in R)
  BY <1>1, WFMin
<1>4. \A m \in T : m \in Nat /\ n \in Nat /\ ~(m < n)
  BY <1>2, <1>3
<1>5. \A m \in T : n <= m
  BY <1>4
<1> QED BY <1>5

-----------------------------------------------------------------------------
(* The picker, for any two peers and whatever they have refused.           *)

LEMMA SchemeFields ==
  ASSUME NEW p, NEW c, NEW f, NEW m, NEW n, NEW hints, NEW path
  PROVE  /\ Scheme(p, c, f, m, n, hints, path).fourcc = f
         /\ Scheme(p, c, f, m, n, hints, path).modifier = m
BY DEF Scheme

\* A picked scheme is of the best usable entry on one device, else linear.
LEMMA PickedFrom ==
  ASSUME NEW p, NEW c, NEW s \in Schemes(p, c)
  PROVE  IF SameDevice(p.id, c.id)
         THEN \E o \in PickFormat(p, c) :
                /\ s.fourcc = o[1] /\ s.modifier = p.formats[o[1]][o[2]].modifier
                /\ s.planes = p.formats[o[1]][o[2]].planes
         ELSE s.fourcc \in PickFourcc(p, c) /\ s.modifier = Linear
<1>1. CASE SameDevice(p.id, c.id)
  <2>1. s \in SchemesSame(p, c)
    BY <1>1 DEF Schemes
  <2>2. PICK o \in PickFormat(p, c) :
          s = Scheme(p, c, o[1], p.formats[o[1]][o[2]].modifier, p.formats[o[1]][o[2]].planes,
                     PickHints(p, c),
                     IF p.formats[o[1]][o[2]].modifier = Linear THEN "linear" ELSE "same_device")
    BY <2>1 DEF SchemesSame
  <2>3. s.fourcc = o[1]
    BY <2>2 DEF Scheme
  <2>4. s.modifier = p.formats[o[1]][o[2]].modifier
    BY <2>2 DEF Scheme
  <2>5. s.planes = p.formats[o[1]][o[2]].planes
    BY <2>2 DEF Scheme
  <2> QED BY <1>1, <2>3, <2>4, <2>5
<1>2. CASE ~SameDevice(p.id, c.id)
  <2>1. s \in SchemesCross(p, c)
    BY <1>2 DEF Schemes
  <2>2. PICK f \in PickFourcc(p, c) : s = Scheme(p, c, f, Linear, 1, {}, "linear")
    BY <2>1 DEF SchemesCross
  <2>3. s.fourcc = f /\ s.modifier = Linear
    BY <2>2, SchemeFields
  <2> QED BY <1>2, <2>3
<1> QED BY <1>1, <1>2

LEMMA UsableEntry ==
  ASSUME NEW p, NEW c, NEW o \in Usable(p, c)
  PROVE  /\ o[1] \in Common(p, c) /\ o[2] \in DOMAIN p.formats[o[1]]
         /\ ~Bans(p, o[1], p.formats[o[1]][o[2]].modifier)
         /\ ~Bans(c, o[1], p.formats[o[1]][o[2]].modifier)
         /\ \E j \in DOMAIN c.formats[o[1]] : c.formats[o[1]][j] = p.formats[o[1]][o[2]]
<1>1. PICK f \in Common(p, c) : o \in {f} \X DOMAIN p.formats[f]
  BY DEF Usable
<1>2. o[1] \in Common(p, c) /\ o[2] \in DOMAIN p.formats[o[1]]
  BY <1>1
<1> QED BY <1>2 DEF Usable

LEMMA SchemesAreUsable ==
  ASSUME NEW p, NEW c, NEW s \in Schemes(p, c)
  PROVE  IsUsable(p, c, s)
<1>1. CASE SameDevice(p.id, c.id)
  <2>1. PICK o \in PickFormat(p, c) :
          /\ s.fourcc = o[1] /\ s.modifier = p.formats[o[1]][o[2]].modifier
          /\ s.planes = p.formats[o[1]][o[2]].planes
    BY <1>1, PickedFrom
  <2>2. o \in Usable(p, c) /\ \A x \in Usable(p, c) : Before(p, o, x)
    BY DEF PickFormat
  <2>3. BothList(p, c, s)
    <3>1. PICK j \in DOMAIN c.formats[o[1]] : c.formats[o[1]][j] = p.formats[o[1]][o[2]]
      BY <2>2, UsableEntry
    <3>2. o[2] \in DOMAIN p.formats[s.fourcc] /\ j \in DOMAIN c.formats[s.fourcc]
      BY <2>1, <2>2, <3>1, UsableEntry
    <3>3. /\ p.formats[s.fourcc][o[2]].modifier = s.modifier
          /\ p.formats[s.fourcc][o[2]].planes = s.planes
          /\ c.formats[s.fourcc][j] = p.formats[s.fourcc][o[2]]
      BY <2>1, <3>1
    <3> DEFINE i == o[2]
    <3>4. i \in DOMAIN p.formats[s.fourcc]
          /\ p.formats[s.fourcc][i].modifier = s.modifier
          /\ p.formats[s.fourcc][i].planes = s.planes
          /\ c.formats[s.fourcc][j] = p.formats[s.fourcc][i]
      BY <3>2, <3>3
    <3> HIDE DEF i
    <3> QED BY <3>2, <3>4 DEF BothList
  <2>4. s.modifier = Linear => \A x \in Usable(p, c) : ~IsTiled(p, x)
    BY <2>1, <2>2 DEF Before, IsTiled
  <2> QED BY <1>1, <2>1, <2>2, <2>3, <2>4, UsableEntry DEF IsUsable
<1>2. CASE ~SameDevice(p.id, c.id)
  BY <1>2, PickedFrom DEF PickFourcc, IsUsable
<1> QED BY <1>1, <1>2

\* What pick returns on success, both listed and nobody refused, and it is
\* linear on one device only when nothing tiled is left (negotiate.rs, pick).
THEOREM PickIsUsable ==
  ASSUME NEW p, NEW c, Pick(p, c) # Refused
  PROVE  IsUsable(p, c, Pick(p, c))
<1>1. Pick(p, c) \in Schemes(p, c)
  BY DEF Pick
<1> QED BY <1>1, SchemesAreUsable

LEMMA BestIsThere ==
  ASSUME NEW p, NEW c, NEW T \in SUBSET Usable(p, c), T # {},
         Common(p, c) \subseteq Nat,
         \A f \in Common(p, c) : DOMAIN p.formats[f] \subseteq Nat
  PROVE  \E o \in T : \A x \in T : o[1] < x[1] \/ (o[1] = x[1] /\ o[2] <= x[2])
<1>1. \A x \in T : x[1] \in Nat /\ x[2] \in Nat
  BY UsableEntry
<1>2. PICK f \in {x[1] : x \in T} : \A g \in {x[1] : x \in T} : f <= g
  <2>1. {x[1] : x \in T} \in SUBSET Nat /\ {x[1] : x \in T} # {}
    BY <1>1
  <2> QED BY <2>1, LeastNumber
<1> DEFINE S == {x \in T : x[1] = f}
<1>3. PICK i \in {x[2] : x \in S} : \A j \in {x[2] : x \in S} : i <= j
  <2>1. {x[2] : x \in S} \in SUBSET Nat /\ {x[2] : x \in S} # {}
    BY <1>1, <1>2
  <2> QED BY <2>1, LeastNumber
<1>4. PICK o \in S : o[2] = i
  BY <1>3
<1>5. ASSUME NEW x \in T PROVE o[1] < x[1] \/ (o[1] = x[1] /\ o[2] <= x[2])
  <2>1. o \in T /\ o[1] = f /\ f <= x[1] /\ x[1] \in Nat /\ o[1] \in Nat
    BY <1>1, <1>2, <1>4
  <2>2. x[1] = f => o[2] <= x[2]
    BY <1>3, <1>4
  <2> QED BY <2>1, <2>2
<1> QED BY <1>4, <1>5

\* pick gives up only when there is nothing: a common way to synchronise, and
\* a usable entry (on one device) or a fourcc both have and nobody refused to
\* be linear (from one device to another), are enough for a scheme.
THEOREM PickFindsWhatThereIs ==
  ASSUME NEW p, NEW c, p.sync \cap c.sync # {},
         Common(p, c) \subseteq Nat,
         \A f \in Common(p, c) : DOMAIN p.formats[f] \subseteq Nat,
         IF SameDevice(p.id, c.id)
         THEN Usable(p, c) # {}
         ELSE \E f \in Common(p, c) : ~Bans(p, f, Linear) /\ ~Bans(c, f, Linear)
  PROVE  Pick(p, c) \in Schemes(p, c) /\ IsUsable(p, c, Pick(p, c))
<1>1. CASE SameDevice(p.id, c.id)
  <2> DEFINE Tiled == {o \in Usable(p, c) : IsTiled(p, o)}
  <2>1. \E o \in Usable(p, c) : \A x \in Usable(p, c) : Before(p, o, x)
    <3>1. CASE Tiled # {}
      <4>1. PICK o \in Tiled : \A x \in Tiled : o[1] < x[1] \/ (o[1] = x[1] /\ o[2] <= x[2])
        BY <3>1, BestIsThere
      <4> QED BY <4>1 DEF Before, IsTiled
    <3>2. CASE Tiled = {}
      <4>1. PICK o \in Usable(p, c) :
              \A x \in Usable(p, c) : o[1] < x[1] \/ (o[1] = x[1] /\ o[2] <= x[2])
        BY <1>1, BestIsThere
      <4> QED BY <3>2, <4>1 DEF Before, IsTiled
    <3> QED BY <3>1, <3>2
  <2>2. PickFormat(p, c) # {}
    BY <2>1 DEF PickFormat
  <2>3. Schemes(p, c) # {}
    BY <1>1, <2>2 DEF Schemes, SchemesSame
  <2>4. Pick(p, c) \in Schemes(p, c)
    BY <2>3 DEF Pick
  <2> QED BY <2>4, SchemesAreUsable
<1>2. CASE ~SameDevice(p.id, c.id)
  <2> DEFINE fs == {f \in Common(p, c) : ~Bans(p, f, Linear) /\ ~Bans(c, f, Linear)}
  <2>1. fs \in SUBSET Nat /\ fs # {}
    BY <1>2
  <2>2. PickFourcc(p, c) # {}
    BY <2>1, LeastNumber DEF PickFourcc
  <2>3. Schemes(p, c) # {}
    BY <1>2, <2>2 DEF Schemes, SchemesCross
  <2>4. Pick(p, c) \in Schemes(p, c)
    BY <2>3 DEF Pick
  <2> QED BY <2>4, SchemesAreUsable
<1> QED BY <1>1, <1>2

-----------------------------------------------------------------------------
(* The exchange.  Everything that travels is about a scheme the picker can *)
(* choose for some state of the refusals.                                  *)

Picked ==
  {SchemeFor[x] : x \in Displays \X (SUBSET Pairs) \X (SUBSET Pairs)} \ {Refused}

Failure == [of : {"failed"}, pair : Pairs]
Event == [of : {"caps", "bind"}] \cup Failure
Request == [of : {"caps"}] \cup Failure

TaskOK ==
  /\ task \in [Tasks -> [pc : {"idle", "away", "sync", "pick", "send", "record"},
                         todo : Seq(Displays), scheme : {None} \cup Picked]]
  /\ \A t \in Tasks : /\ task[t].pc \in {"send", "record"} => task[t].scheme \in Picked
                      /\ task[t].pc = "sync" => task[t].todo # <<>>

RefusalsOK ==
  /\ pbans = None \/ pbans \in SUBSET Pairs
  /\ cbans \in [Displays -> {None} \cup SUBSET Pairs]

TrafficOK ==
  /\ links \in Seq(Displays)
  /\ wire \in Seq(Picked)
  /\ events \in Seq(Event)
  /\ outbox \in [Displays -> Seq({"bind", "unbind"})]
  /\ inbox \in [Displays -> Seq(Request)]

PoolOK ==
  /\ snapshot # None => snapshot.pair \in Pairs
  /\ \A d \in Displays : outbox[d] # <<>> => snapshot.pair \in Pairs

\* Nothing is sent before the renderer has advertised.
Silence ==
  pbans = None =>
    wire = <<>> /\ events = <<>> /\ \A t \in Tasks : task[t].pc \notin {"send", "record"}

Known == TaskOK /\ RefusalsOK /\ TrafficOK /\ PoolOK /\ Silence

LEMMA SchemeIsPick ==
  ASSUME NEW d \in Displays, NEW pb \in SUBSET Pairs, NEW cb \in SUBSET Pairs
  PROVE  SchemeFor[<<d, pb, cb>>] = Pick(Producer(pb), Consumer(d, cb))
<1>1. SchemeFor[<<d, pb, cb>>] =
        CHOOSE s \in {Pick(p, c) : p \in {Producer(pb)}, c \in {Consumer(d, cb)}} : TRUE
  BY DEF SchemeFor
<1>2. {Pick(p, c) : p \in {Producer(pb)}, c \in {Consumer(d, cb)}}
        = {Pick(Producer(pb), Consumer(d, cb))}
  OBVIOUS
<1> QED BY <1>1, <1>2

LEMMA PickedScheme ==
  ASSUME NEW d \in Displays, NEW pb \in SUBSET Pairs, NEW cb \in SUBSET Pairs,
         Pick(Producer(pb), Consumer(d, cb)) # Refused
  PROVE  Pick(Producer(pb), Consumer(d, cb)) \in Picked
<1>1. <<d, pb, cb>> \in Displays \X (SUBSET Pairs) \X (SUBSET Pairs)
  OBVIOUS
<1> QED BY <1>1, SchemeIsPick DEF Picked

LEMMA ProducerFormats ==
  ASSUME NEW pb
  PROVE  Producer(pb).formats = RendererCaps.formats /\ Producer(pb).id = RendererCaps.id
BY PeersAssumption DEF Producer, IsPeer, PeerCaps

LEMMA PickedPairs ==
  ASSUME NEW s \in Picked
  PROVE  PairOf(s) \in Pairs
<1>1. PICK d \in Displays, pb \in SUBSET Pairs, cb \in SUBSET Pairs : s = SchemeFor[<<d, pb, cb>>]
  <2>1. PICK x \in Displays \X (SUBSET Pairs) \X (SUBSET Pairs) : s = SchemeFor[x]
    BY DEF Picked
  <2>2. x = <<x[1], x[2], x[3]>> /\ x[1] \in Displays /\ x[2] \in SUBSET Pairs /\ x[3] \in SUBSET Pairs
    OBVIOUS
  <2> QED BY <2>1, <2>2
<1> DEFINE p == Producer(pb)
           c == Consumer(d, cb)
<1>2. s = Pick(p, c) /\ s # Refused
  BY <1>1, SchemeIsPick DEF Picked
<1>3. IsUsable(p, c, s)
  BY <1>2, PickIsUsable
<1>4. p.formats = RendererCaps.formats
  BY ProducerFormats
<1> HIDE DEF p, c
<1>5. s.fourcc \in DOMAIN RendererCaps.formats
  BY <1>3, <1>4 DEF IsUsable, Common
<1>6. s.modifier \in {e.modifier : e \in Range(RendererCaps.formats[s.fourcc])} \cup {Linear}
  BY <1>3, <1>4 DEF IsUsable, BothList, Range
<1> QED BY <1>5, <1>6 DEF PairOf, Pairs

LEMMA SchemeAtPicked ==
  ASSUME RefusalsOK, TrafficOK, NEW i \in Served
  PROVE  /\ SchemeAt(i) \in Picked
         /\ SchemeAt(i) = Pick(Producer(pbans), Consumer(links[i], cbans[links[i]]))
         /\ pbans # None
<1>1. i \in DOMAIN links /\ pbans # None /\ cbans[links[i]] # None /\ SchemeAt(i) # Refused
  BY DEF Served
<1>2. links[i] \in Displays /\ pbans \in SUBSET Pairs /\ cbans[links[i]] \in SUBSET Pairs
  BY <1>1 DEF RefusalsOK, TrafficOK
<1>3. SchemeAt(i) \in Picked
  BY <1>1, <1>2, SchemeIsPick, PickedScheme DEF SchemeAt
<1>4. SchemeAt(i) = Pick(Producer(pbans), Consumer(links[i], cbans[links[i]]))
  BY <1>2, SchemeIsPick DEF SchemeAt
<1> QED BY <1>1, <1>3, <1>4

LEMMA KnownUsable ==
  ASSUME Known
  PROVE  PicksAreUsable
<1> SUFFICES ASSUME NEW i \in Served
             PROVE  IsUsable(Producer(pbans), Consumer(links[i], cbans[links[i]]), SchemeAt(i))
  BY DEF PicksAreUsable
<1>1. SchemeAt(i) # Refused
  BY DEF Served
<1> QED BY <1>1, SchemeAtPicked, PickIsUsable DEF Known

-----------------------------------------------------------------------------
(* Every step keeps it.                                                    *)

LEMMA KnownInit == Init => Known
<1> SUFFICES ASSUME Init PROVE Known
  OBVIOUS
<1>1. TaskOK
  <2>1. /\ <<>> \in Seq(Displays)
        /\ [pc |-> "idle", todo |-> <<>>, scheme |-> None]
             \in [pc : {"idle", "away"}, todo : Seq(Displays), scheme : {None} \cup Picked]
        /\ [pc |-> "away", todo |-> <<>>, scheme |-> None]
             \in [pc : {"idle", "away"}, todo : Seq(Displays), scheme : {None} \cup Picked]
    OBVIOUS
  <2>2. [Idle EXCEPT !.pc = "away"] = [pc |-> "away", todo |-> <<>>, scheme |-> None]
    BY DEF Idle
  <2>3. \A t \in Tasks : /\ t = Router => task[t] = Idle
                         /\ t # Router => task[t] = [pc |-> "away", todo |-> <<>>, scheme |-> None]
    BY <2>2 DEF Init
  <2>4. task = [t \in Tasks |-> task[t]]
    BY DEF Init
  <2>5. \A t \in Tasks :
          /\ task[t] \in [pc : {"idle", "away"}, todo : Seq(Displays), scheme : {None} \cup Picked]
          /\ task[t].pc \in {"idle", "away"}
    <3> SUFFICES ASSUME NEW t \in Tasks
                 PROVE  task[t] \in [pc : {"idle", "away"}, todo : Seq(Displays),
                                     scheme : {None} \cup Picked]
      OBVIOUS
    <3>1. CASE t = Router
      <4>1. Idle = [pc |-> "idle", todo |-> <<>>, scheme |-> None]
        BY DEF Idle
      <4>2. task[t] = Idle
        BY <2>3, <3>1
      <4> QED BY <2>1, <4>1, <4>2
    <3>2. CASE t # Router
      BY <2>1, <2>3, <3>2
    <3> QED BY <3>1, <3>2
  <2> QED BY <2>4, <2>5 DEF TaskOK
<1>2. RefusalsOK /\ TrafficOK /\ PoolOK /\ Silence
  BY DEF Init, RefusalsOK, TrafficOK, PoolOK, Silence, Tasks, Idle
<1> QED BY <1>1, <1>2 DEF Known

\* A task goes on: where to, with what left to do, and with which scheme.
LEMMA TaskGoes ==
  ASSUME TaskOK, NEW t \in Tasks,
         NEW pc \in {"idle", "away", "sync", "pick", "send", "record"},
         NEW todo \in Seq(Displays), NEW s \in {None} \cup Picked,
         pc \in {"send", "record"} => s \in Picked,
         pc = "sync" => todo # <<>>,
         task' = [task EXCEPT ![t] = [pc |-> pc, todo |-> todo, scheme |-> s]]
  PROVE  TaskOK'
BY DEF TaskOK

LEMMA TaskParts ==
  ASSUME TaskOK, NEW t \in Tasks
  PROVE  /\ task[t] = [pc |-> task[t].pc, todo |-> task[t].todo, scheme |-> task[t].scheme]
         /\ task[t].pc \in {"idle", "away", "sync", "pick", "send", "record"}
         /\ task[t].todo \in Seq(Displays)
         /\ task[t].scheme \in {None} \cup Picked
         /\ DOMAIN task = Tasks
BY DEF TaskOK

\* The two updates of a task that takes up, or goes on with, a list.
LEMMA TaskTurns ==
  ASSUME TaskOK, NEW t \in Tasks, NEW pc \in {"sync", "pick"}, NEW todo \in Seq(Displays),
         pc = "sync" => todo # <<>>,
         task' = [task EXCEPT ![t].todo = todo, ![t].pc = pc]
  PROVE  TaskOK'
         /\ \A u \in Tasks : task'[u].pc \in {"send", "record"}
              => task[u].pc \in {"send", "record"}
<1> DEFINE r == [pc |-> pc, todo |-> todo, scheme |-> task[t].scheme]
<1>1. task' = [task EXCEPT ![t] = r]
  <2> DEFINE q == [pc |-> task[t].pc, todo |-> todo, scheme |-> task[t].scheme]
  <2>1. [task[t] EXCEPT !.todo = todo] = q
    BY DEF TaskOK
  <2>a. [q EXCEPT !.pc = pc] = r
    OBVIOUS
  <2> HIDE DEF q
  <2>2. [[task[t] EXCEPT !.todo = todo] EXCEPT !.pc = pc] = r
    BY <2>1, <2>a
  <2>3. task' = [task EXCEPT ![t] = [[task[t] EXCEPT !.todo = todo] EXCEPT !.pc = pc]]
    BY TaskParts
  <2> QED BY <2>2, <2>3
<1>2. TaskOK'
  <2>1. task[t].scheme \in {None} \cup Picked /\ pc \notin {"send", "record"}
    BY TaskParts
  <2> QED BY <1>1, <2>1, TaskGoes
<1>3. \A u \in Tasks : task'[u] = IF u = t THEN r ELSE task[u]
  BY <1>1 DEF TaskOK
<1>4. r.pc = pc
  OBVIOUS
<1> HIDE DEF r
<1>5. ASSUME NEW u \in Tasks, task'[u].pc \in {"send", "record"}
      PROVE  task[u].pc \in {"send", "record"}
  <2>1. CASE u = t
    BY <1>3, <1>4, <1>5, <2>1
  <2>2. CASE u # t
    BY <1>3, <1>5, <2>2
  <2> QED BY <2>1, <2>2
<1> QED BY <1>2, <1>5

LEMMA GotoGoes ==
  ASSUME TaskOK, NEW t \in Tasks, NEW pc \in {"idle", "pick"}, Goto(t, pc)
  PROVE  TaskOK'
         /\ \A u \in Tasks : task'[u].pc \in {"send", "record"}
              => task[u].pc \in {"send", "record"}
<1>1. task' = [task EXCEPT ![t] = [pc |-> pc, todo |-> task[t].todo, scheme |-> task[t].scheme]]
  <2>1. [task[t] EXCEPT !.pc = pc] = [pc |-> pc, todo |-> task[t].todo, scheme |-> task[t].scheme]
    BY DEF TaskOK
  <2> QED BY <2>1 DEF Goto
<1>2. TaskOK'
  BY <1>1, TaskParts, TaskGoes
<1> QED BY <1>1, <1>2 DEF TaskOK

LEMMA KnownAdvertise == ASSUME Known, Advertise PROVE Known'
<1>1. pbans' \in SUBSET Pairs /\ pbans' # None
  BY NoneAssumption DEF Advertise
<1>2. events' \in Seq(Event)
  BY DEF Advertise, Known, TrafficOK, Event
<1> QED BY <1>1, <1>2 DEF Known, TaskOK, RefusalsOK, TrafficOK, PoolOK, Silence, Advertise,
             displayVars, poolVars

LEMMA KnownApply == ASSUME Known, Apply PROVE Known'
<1>1. Head(wire) \in Picked /\ wire' \in Seq(Picked) /\ pbans # None
  BY DEF Known, TrafficOK, Silence, Apply
<1>2. PairOf(Head(wire)) \in Pairs
  BY <1>1, PickedPairs
<1>3. events' \in Seq(Event)
  <2>1. [of |-> "failed", pair |-> PairOf(Head(wire))] \in Event
    BY <1>2 DEF Event, Failure
  <2>2. [of |-> "bind"] \in Event
    BY DEF Event
  <2>3. \E e \in Event : events' = Append(events, e)
    BY <2>1, <2>2 DEF Apply
  <2>4. events \in Seq(Event)
    BY DEF Known, TrafficOK
  <2> QED BY <2>3, <2>4
<1>4. PoolOK'
  <2>1. snapshot' = snapshot \/ \E g : snapshot' = [gen |-> g, pair |-> PairOf(Head(wire))]
    BY DEF Apply
  <2>2. snapshot' = snapshot \/ snapshot'.pair \in Pairs
    BY <1>2, <2>1
  <2> QED BY <2>2 DEF Known, PoolOK, Apply, displayVars
<1> QED BY <1>1, <1>3, <1>4 DEF Known, TaskOK, RefusalsOK, TrafficOK, Silence, Apply,
             capVars, displayVars

\* A request or an event is caps, or a failure about a known pair.
LEMMA Failures ==
  ASSUME NEW e \in Event \cup Request, e.of = "failed"
  PROVE  e.pair \in Pairs
BY DEF Event, Request, Failure

LEMMA EventKinds ==
  ASSUME NEW e \in Event
  PROVE  e.of \in {"caps", "bind", "failed"}
BY DEF Event, Failure

LEMMA RequestKinds ==
  ASSUME NEW q \in Request
  PROVE  q.of \in {"caps", "failed"}
BY DEF Request, Failure

LEMMA KnownHandleEvent == ASSUME Known, HandleEvent PROVE Known'
<1> DEFINE e == Head(events)
<1>1. events # <<>> /\ events' = Tail(events) /\ pbans # None /\ events \in Seq(Event)
  BY DEF Known, TrafficOK, Silence, HandleEvent
<1>2. e \in Event /\ events' \in Seq(Event)
  BY <1>1
<1>3. Router \in Tasks
  BY DEF Tasks
<1>4. /\ TrafficOK' /\ PoolOK' /\ cbans' = cbans
  BY <1>2 DEF Known, TrafficOK, PoolOK, HandleEvent, displayVars, poolVars
<1> HIDE DEF e
<1>5. CASE e.of = "caps"
  <2>1. Goto(Router, "pick") /\ pbans' = pbans
    BY <1>5 DEF HandleEvent, e
  <2> QED BY <1>1, <1>3, <1>4, <2>1, GotoGoes DEF Known, RefusalsOK, Silence
<1>6. CASE e.of = "bind"
  <2>1. /\ task' = [task EXCEPT ![Router].todo = links,
                                ![Router].pc = IF links = <<>> THEN "pick" ELSE "sync"]
        /\ pbans' = pbans
    BY <1>6 DEF HandleEvent, e
  <2> DEFINE pc == IF links = <<>> THEN "pick" ELSE "sync"
  <2>2. pc \in {"pick", "sync"}
    OBVIOUS
  <2>3. task' = [task EXCEPT ![Router].todo = links, ![Router].pc = pc]
    BY <2>1
  <2>5. links \in Seq(Displays) /\ (pc = "sync" => links # <<>>) /\ TaskOK
    BY DEF Known, TrafficOK
  <2> HIDE DEF pc
  <2>4. TaskOK'
    BY <1>3, <2>2, <2>3, <2>5, TaskTurns
  <2> QED BY <1>1, <1>4, <2>1, <2>4 DEF Known, RefusalsOK, Silence
<1>7. CASE e.of = "failed"
  <2>1. Goto(Router, "pick") /\ pbans' = pbans \cup {e.pair}
    BY <1>7 DEF HandleEvent, Ban, e
  <2>2. pbans' \in SUBSET Pairs
    BY <1>1, <1>2, <1>7, <2>1, Failures DEF Known, RefusalsOK
  <2>3. pbans' # None
    BY <2>2, NoneAssumption
  <2> QED BY <1>3, <1>4, <2>1, <2>2, <2>3, GotoGoes DEF Known, RefusalsOK, Silence
<1> QED BY <1>2, <1>5, <1>6, <1>7, EventKinds

LEMMA KnownSyncNext ==
  ASSUME Known, NEW t \in Tasks, SyncNext(t)
  PROVE  Known'
<1> DEFINE d == Head(task[t].todo)
           rest == Tail(task[t].todo)
           pc == IF rest = <<>> THEN "pick" ELSE task[t].pc
<1>1. /\ SyncDisplay(d) /\ At(t, "sync")
      /\ task' = [task EXCEPT ![t].todo = rest, ![t].pc = IF rest = <<>> THEN "pick" ELSE @]
  BY DEF SyncNext
<1> HIDE DEF d
<1>2. TaskOK'
         /\ \A u \in Tasks : task'[u].pc \in {"send", "record"}
              => task[u].pc \in {"send", "record"}
  <2>1. rest \in Seq(Displays)
    BY <1>1 DEF Known, TaskOK, At
  <2>2. pc \in {"pick", "sync"}
    BY <1>1 DEF At
  <2>3. task' = [task EXCEPT ![t].todo = rest, ![t].pc = pc]
    BY <1>1
  <2>4. pc = "sync" => rest # <<>>
    OBVIOUS
  <2>5. TaskOK
    BY DEF Known
  <2> HIDE DEF rest, pc
  <2> QED BY <2>1, <2>2, <2>3, <2>4, <2>5, TaskTurns
<1>3. /\ outbox' \in [Displays -> Seq({"bind", "unbind"})]
      /\ \A x \in Displays : outbox'[x] # <<>> => snapshot.pair \in Pairs
  <2>1. CASE outbox' = outbox
    BY <2>1 DEF Known, TrafficOK, PoolOK
  <2>2. CASE /\ d \in Range(links) /\ snapshot # None
             /\ outbox' = [outbox EXCEPT ![d] = @ \o Unbinds(d) \o <<"bind">>]
    <3>1. snapshot.pair \in Pairs
      BY <2>2 DEF Known, PoolOK
    <3>2. d \in Displays
      BY <2>2 DEF Known, TrafficOK, Range
    <3>3. /\ Unbinds(d) \in Seq({"bind", "unbind"})
          /\ <<"bind">> \in Seq({"bind", "unbind"})
      <4>1. /\ <<>> \in Seq({"bind", "unbind"}) /\ <<"unbind">> \in Seq({"bind", "unbind"})
            /\ <<"bind">> \in Seq({"bind", "unbind"})
        OBVIOUS
      <4> QED BY <4>1 DEF Unbinds
    <3> QED BY <2>2, <3>1, <3>2, <3>3 DEF Known, TrafficOK
  <2> QED BY <1>1, <2>1, <2>2 DEF SyncDisplay
<1> QED BY <1>2, <1>3 DEF Known, RefusalsOK, TrafficOK, PoolOK, Silence, SyncNext, capVars, poolVars

LEMMA IdleGoes ==
  ASSUME TaskOK, NEW t \in Tasks, task' = [task EXCEPT ![t] = Idle]
  PROVE  TaskOK'
         /\ \A u \in Tasks : task'[u].pc \in {"send", "record"}
              => task[u].pc \in {"send", "record"}
<1>1. <<>> \in Seq(Displays) /\ task' = [task EXCEPT ![t] = [pc |-> "idle", todo |-> <<>>, scheme |-> None]]
  BY DEF Idle
<1>2. TaskOK'
  BY <1>1, TaskGoes
<1> QED BY <1>1, <1>2 DEF TaskOK

LEMMA KnownPickScheme ==
  ASSUME Known, NEW t \in Tasks, PickScheme(t)
  PROVE  Known'
<1>1. CASE task' = [task EXCEPT ![t] = Idle]
  <2>1. TaskOK' /\ Silence'
    BY <1>1, IdleGoes DEF Known, Silence, PickScheme, capVars, poolVars
  <2> QED BY <2>1 DEF Known, RefusalsOK, TrafficOK, PoolOK, PickScheme, capVars, poolVars, displayVars
<1>2. ASSUME NEW i \in Winners,
             task' = [task EXCEPT ![t] = [Idle EXCEPT !.pc = "send", !.scheme = SchemeAt(i)]]
      PROVE  Known'
  <2>1. SchemeAt(i) \in Picked /\ pbans # None
    BY SchemeAtPicked DEF Winners, Known
  <2> DEFINE s == SchemeAt(i)
             a == [pc |-> "send", todo |-> <<>>, scheme |-> None]
             b == [pc |-> "send", todo |-> <<>>, scheme |-> s]
  <2>2. [Idle EXCEPT !.pc = "send", !.scheme = s] = b
    <3> HIDE DEF s
    <3>1. [Idle EXCEPT !.pc = "send"] = a
      BY DEF Idle
    <3>2. [a EXCEPT !.scheme = s] = b
      OBVIOUS
    <3> HIDE DEF a, b
    <3> QED BY <3>1, <3>2
  <2>3. <<>> \in Seq(Displays) /\ s \in Picked /\ s \in {None} \cup Picked
        /\ task' = [task EXCEPT ![t] = [pc |-> "send", todo |-> <<>>, scheme |-> s]]
    <3>1. task' = [task EXCEPT ![t] = b]
      <4> HIDE DEF b
      <4>1. task' = [task EXCEPT ![t] = [Idle EXCEPT !.pc = "send", !.scheme = s]]
        BY <1>2
      <4> HIDE DEF s
      <4> QED BY <2>2, <4>1
    <3>2. s \in Picked
      BY <2>1
    <3> HIDE DEF s
    <3> QED BY <3>1, <3>2
  <2> HIDE DEF s
  <2>4. TaskOK'
    BY <2>3, TaskGoes DEF Known
  <2> QED BY <2>1, <2>4 DEF Known, RefusalsOK, TrafficOK, PoolOK, Silence, PickScheme,
               capVars, poolVars, displayVars
<1> QED BY <1>1, <1>2 DEF PickScheme

LEMMA KnownSend ==
  ASSUME Known, NEW t \in Tasks, Send(t)
  PROVE  Known'
<1>1. task[t].pc = "send" /\ task[t].scheme \in Picked /\ pbans # None
  <2>1. task[t].pc = "send"
    BY DEF Send, At
  <2>2. task[t].scheme \in Picked
    <3>1. task[t].pc \in {"send", "record"}
      BY <2>1
    <3>2. \A u \in Tasks : task[u].pc \in {"send", "record"} => task[u].scheme \in Picked
      BY DEF Known, TaskOK
    <3> QED BY <3>1, <3>2
  <2>3. pbans # None
    BY <2>1 DEF Known, Silence
  <2> QED BY <2>1, <2>2, <2>3
<1>2. TaskOK'
  <2>1. CASE task' = [task EXCEPT ![t] = Idle]
    BY <2>1, IdleGoes DEF Known
  <2>2. CASE Goto(t, "record")
    <3>1. task' = [task EXCEPT ![t] = [pc |-> "record", todo |-> task[t].todo, scheme |-> task[t].scheme]]
      <4>1. [task[t] EXCEPT !.pc = "record"]
              = [pc |-> "record", todo |-> task[t].todo, scheme |-> task[t].scheme]
        BY DEF Known, TaskOK
      <4> QED BY <2>2, <4>1 DEF Goto
    <3>2. TaskOK /\ task[t].todo \in Seq(Displays)
      BY DEF Known, TaskOK
    <3> QED BY <1>1, <3>1, <3>2, TaskGoes
  <2> QED BY <2>1, <2>2 DEF Send
<1>3. wire' \in Seq(Picked)
  <2>1. wire' = wire \/ \E s \in Picked : wire' = Append(wire, s)
    <3>1. wire' = wire \/ wire' = Append(wire, task[t].scheme)
      BY DEF Send
    <3> QED BY <1>1, <3>1
  <2>2. wire \in Seq(Picked)
    BY DEF Known, TrafficOK
  <2>3. CASE wire' = wire
    BY <2>2, <2>3
  <2>4. ASSUME NEW s \in Picked, wire' = Append(wire, s) PROVE wire' \in Seq(Picked)
    <3> HIDE DEF Picked
    <3> QED BY <2>2, <2>4
  <2> QED BY <2>1, <2>3, <2>4
<1> QED BY <1>1, <1>2, <1>3 DEF Known, RefusalsOK, TrafficOK, PoolOK, Silence, Send,
             capVars, displayVars

LEMMA KnownRecord ==
  ASSUME Known, NEW t \in Tasks, Record(t)
  PROVE  Known'
<1>1. TaskOK' /\ Silence'
  BY IdleGoes DEF Known, Silence, Record, capVars, poolVars
<1> QED BY <1>1 DEF Known, RefusalsOK, TrafficOK, PoolOK, Record, capVars, poolVars, displayVars

LEMMA KnownHandleRequest ==
  ASSUME Known, NEW d \in Displays, HandleRequest(d)
  PROVE  Known'
<1> DEFINE q == Head(inbox[d])
<1>1. /\ q \in Request /\ Tail(inbox[d]) \in Seq(Request) /\ inbox \in [Displays -> Seq(Request)]
      /\ inbox' = [inbox EXCEPT ![d] = Tail(inbox[d])] /\ d \in Tasks
  BY DEF Known, TrafficOK, HandleRequest, Tasks
<1>2. TrafficOK' /\ PoolOK' /\ pbans' = pbans
  BY <1>1 DEF Known, TrafficOK, PoolOK, HandleRequest, poolVars
<1> HIDE DEF q
<1>3. CASE q.of = "caps"
  <2>1. cbans' = [cbans EXCEPT ![d] = {}] /\ Goto(d, "pick")
    BY <1>3 DEF HandleRequest, q
  <2>2. RefusalsOK'
    BY <1>2, <2>1 DEF Known, RefusalsOK
  <2> QED BY <1>1, <1>2, <2>1, <2>2, GotoGoes DEF Known, Silence, HandleRequest, poolVars
<1>4. CASE q.of = "failed" /\ cbans[d] = None
  <2>1. UNCHANGED <<cbans, task>>
    BY <1>4 DEF HandleRequest, q
  <2> QED BY <1>2, <2>1 DEF Known, TaskOK, RefusalsOK, Silence, HandleRequest, poolVars
<1>5. CASE q.of = "failed" /\ cbans[d] # None
  <2>1. cbans' = [cbans EXCEPT ![d] = @ \cup {q.pair}] /\ Goto(d, "pick")
    BY <1>5 DEF HandleRequest, q
  <2>2. q.pair \in Pairs
    BY <1>1, <1>5, Failures
  <2>3. cbans[d] \cup {q.pair} \in SUBSET Pairs
    BY <1>5, <2>2 DEF Known, RefusalsOK
  <2>4. RefusalsOK'
    BY <1>2, <2>1, <2>3 DEF Known, RefusalsOK
  <2> QED BY <1>1, <1>2, <2>1, <2>4, GotoGoes DEF Known, Silence, HandleRequest, poolVars
<1> QED BY <1>1, <1>3, <1>4, <1>5, RequestKinds

LEMMA KnownDeliver ==
  ASSUME Known, NEW d \in Displays, Deliver(d)
  PROVE  Known'
<1>1. snapshot.pair \in Pairs
  BY DEF Known, PoolOK, Deliver
<1>2. \A x \in Displays : outbox'[x] = <<>> \/ outbox[x] # <<>>
  BY DEF Deliver, Known, TrafficOK
<1>3. outbox' \in [Displays -> Seq({"bind", "unbind"})]
  BY DEF Deliver, Known, TrafficOK
<1>4. inbox' \in [Displays -> Seq(Request)]
  <2>1. [of |-> "failed", pair |-> snapshot.pair] \in Request
    BY <1>1 DEF Request, Failure
  <2> DEFINE r == [of |-> "failed", pair |-> snapshot.pair]
  <2>3. inbox' = inbox \/ inbox' = [inbox EXCEPT ![d] = Append(@, r)]
    BY DEF Deliver
  <2>4. r \in Request
    BY <2>1
  <2> HIDE DEF r
  <2>2. inbox' = inbox \/ \E q \in Request : inbox' = [inbox EXCEPT ![d] = Append(inbox[d], q)]
    BY <2>3, <2>4
  <2>5. inbox \in [Displays -> Seq(Request)]
    BY DEF Known, TrafficOK
  <2>6. \A q \in Request : Append(inbox[d], q) \in Seq(Request)
    BY <2>5
  <2> QED BY <2>2, <2>5, <2>6
<1> QED BY <1>1, <1>2, <1>3, <1>4 DEF Known, TaskOK, RefusalsOK, TrafficOK, PoolOK, Silence, Deliver,
             capVars, poolVars

LEMMA KnownRegister ==
  ASSUME Known, NEW d \in Displays, Register(d)
  PROVE  Known'
<1>1. d \in Tasks /\ <<d>> \in Seq(Displays) /\ <<d>> # <<>>
  BY DEF Tasks
<1>2. TaskOK'
         /\ \A u \in Tasks : task'[u].pc \in {"send", "record"}
              => task[u].pc \in {"send", "record"}
  <2>1. task' = [task EXCEPT ![d].todo = <<d>>, ![d].pc = "sync"]
    BY DEF Register
  <2> QED BY <1>1, <2>1, TaskTurns DEF Known
<1>3. links' \in Seq(Displays)
  BY DEF Register, Known, TrafficOK
<1>4. inbox' \in [Displays -> Seq(Request)]
  <2>1. <<CapsRequest>> \in Seq(Request) /\ <<>> \in Seq(Request)
    BY DEF CapsRequest, Request
  <2> QED BY <2>1 DEF Register, Known, TrafficOK
<1> QED BY <1>2, <1>3, <1>4 DEF Known, RefusalsOK, TrafficOK, PoolOK, Silence, Register,
             capVars, poolVars

LEMMA KnownLeave ==
  ASSUME Known, NEW d \in Displays, Leave(d)
  PROVE  Known'
<1>1. d \in Tasks
  BY DEF Tasks
<1>2. TaskOK'
         /\ \A u \in Tasks : task'[u].pc \in {"send", "record"}
              => task[u].pc \in {"send", "record"}
  BY <1>1, GotoGoes DEF Known, Leave
<1>3. links' \in Seq(Displays)
  <2>1. PICK i \in DOMAIN links : links' = RemoveAt(links, i)
    BY DEF Leave
  <2>2. links \in Seq(Displays) /\ i \in 1..Len(links)
    BY DEF Known, TrafficOK
  <2>3. SubSeq(links, 1, i - 1) \in Seq(Displays) /\ SubSeq(links, i + 1, Len(links)) \in Seq(Displays)
    BY <2>2
  <2> QED BY <2>1, <2>3 DEF RemoveAt
<1>4. /\ outbox' \in [Displays -> Seq({"bind", "unbind"})]
      /\ \A x \in Displays : outbox'[x] # <<>> => outbox[x] # <<>>
      /\ inbox' \in [Displays -> Seq(Request)]
  BY DEF Leave, Known, TrafficOK
<1>5. RefusalsOK'
  BY DEF Leave, Known, RefusalsOK
<1> QED BY <1>2, <1>3, <1>4, <1>5 DEF Known, TrafficOK, PoolOK, Silence, Leave, poolVars

LEMMA KnownNext ==
  ASSUME Known, [Next]_vars
  PROVE  Known'
<1>1. CASE UNCHANGED vars
  BY <1>1 DEF Known, TaskOK, RefusalsOK, TrafficOK, PoolOK, Silence, vars, capVars, poolVars, displayVars
<1>2. CASE Next
  BY <1>2, KnownAdvertise, KnownApply, KnownHandleEvent, KnownSyncNext, KnownPickScheme,
     KnownSend, KnownRecord, KnownHandleRequest, KnownDeliver, KnownRegister, KnownLeave
     DEF Next, Work, Reconcile
<1> QED BY <1>1, <1>2

\* Whatever travels between the router, the renderer and the displays is about
\* a scheme that pick can choose: each event, request, directive and blacklist
\* names a pair of the renderer's own formats, or linear in one of its fourccs
\* (router.rs, on_renderer_bind_failed and on_consumer_bind_failed; endpoint.rs,
\* send_bind_from_renderer), and nothing is sent before the renderer advertises.
THEOREM NegotiationKnown == Spec => []Known
<1> QED
  BY KnownInit, KnownNext, PTL DEF Spec

\* PicksAreUsable for any number of displays, formats, refusals and tasks that
\* race: nothing is picked for a link that one of its ends refused or cannot
\* use, nor linear while both can still use something tiled.
THEOREM NegotiationPicksAreUsable == Spec => []PicksAreUsable
<1> QED
  BY NegotiationKnown, KnownUsable, PTL

-----------------------------------------------------------------------------
(* Who wins is served.  The invariant follows a scheme from where it is    *)
(* picked to the display that shows its pool.                              *)

MaybeScheme == {None} \cup Picked
Pool == [gen : Nat, pair : Pairs]

HistoryOK ==
  /\ last \in MaybeScheme /\ sent \in MaybeScheme /\ crossed \in BOOLEAN
  /\ snapshot \in {None} \cup Pool
  /\ shown \in [Displays -> {None} \cup Pool]
  /\ bound \in [Displays -> {None} \cup Nat]

\* A display has one link, and only while it is there.
LinksOK ==
  /\ \A i, j \in DOMAIN links : links[i] = links[j] => i = j
  /\ \A i \in DOMAIN links : ~At(links[i], "away")

\* No display is bound to a pool that is still to come.
BoundOK ==
  \A d \in Displays :
    /\ bound[d] # None => snapshot # None /\ bound[d] <= snapshot.gen
    /\ At(d, "away") => bound[d] = None

\* A display sends its capabilities first and once; a bind is the last thing
\* it is told.
CapsFirst(d) ==
  \A k \in DOMAIN inbox[d] : inbox[d][k].of = "caps" => k = 1 /\ cbans[d] = None
EndsInBind(d) == outbox[d] # <<>> => outbox[d][Len(outbox[d])] = "bind"
BoxesOK ==
  \A d \in Displays :
    CapsFirst(d) /\ EndsInBind(d) /\ (At(d, "away") => cbans[d] = None)

Unrecorded == \E t \in Tasks : At(t, "record")

\* The last directive is the last scheme sent, and the recorded one unless a
\* task is about to record.
SentOK ==
  /\ wire # <<>> => wire[Len(wire)] = sent
  /\ crossed \/ Unrecorded \/ last = sent
  /\ pbans = None => sent = None

\* The renderer could not allocate it, and the router knows or is told.
Failing(s) ==
  \/ PairOf(s) \in pbans
  \/ \E k \in DOMAIN events : events[k].of = "failed" /\ events[k].pair = PairOf(s)
Allocated(s) == snapshot # None /\ snapshot.pair = PairOf(s)

\* The last directive is on its way or was answered, and its answer is the
\* last event.
AnswerOK ==
  (wire = <<>> /\ sent # None) =>
    \/ Failing(sent)
    \/ Allocated(sent) /\ (events # <<>> => events[Len(events)].of = "bind")

\* Some task picks later than everything that has changed so far.
PickComing == \E t \in Tasks : task[t].pc \in {"sync", "pick"}
Underway == wire # <<>> \/ events # <<>> \/ Unrecorded \/ PickComing

WinnerKnown ==
  \A i \in Winners :
    \/ crossed \/ Underway
    \/ last = SchemeAt(i)
    \/ \E t \in Tasks : At(t, "send") /\ task[t].scheme = SchemeAt(i)

\* A display that is not on the pool of the last scheme is visited.
Visited(d) == \E t \in Tasks : At(t, "sync") /\ \E k \in DOMAIN task[t].todo : task[t].todo[k] = d
BindComing == \E k \in DOMAIN events : events[k].of = "bind"
Bound(d) ==
  \/ crossed \/ wire # <<>> \/ Unrecorded
  \/ snapshot = None \/ ~SchemeSatisfied \/ Failing(last)
  \/ BindComing \/ Visited(d)
  \/ bound[d] = snapshot.gen
LinkedAreBound == \A i \in DOMAIN links : Bound(links[i])

\* A display bound to the pool shows it, unless it refuses the pair.
Refuses(d, pair) ==
  \/ \E k \in DOMAIN inbox[d] : inbox[d][k].of = "failed" /\ inbox[d][k].pair = pair
  \/ IF cbans[d] = None THEN \A k \in DOMAIN inbox[d] : inbox[d][k].of # "caps"
     ELSE pair \in cbans[d]
BoundAreShown ==
  \A d \in Displays :
    (snapshot # None /\ bound[d] = snapshot.gen) =>
      outbox[d] # <<>> \/ shown[d] = snapshot \/ Refuses(d, snapshot.pair)

Orderly == HistoryOK /\ LinksOK /\ BoundOK /\ BoxesOK /\ SentOK /\ AnswerOK
Serving == Orderly /\ WinnerKnown /\ LinkedAreBound /\ BoundAreShown

-----------------------------------------------------------------------------
(* What a step does to the tasks.                                          *)

\* Only t goes on.
Alone(t) == \A u \in Tasks : u # t => task'[u] = task[u]

LEMMA RouterGoesOn ==
  ASSUME Known, HandleEvent
  PROVE  /\ Alone(Router) /\ Router \in Tasks /\ At(Router, "idle")
         /\ task'[Router].pc \in {"sync", "pick"}
         /\ (Head(events).of = "bind" /\ links # <<>>) =>
              task'[Router].pc = "sync" /\ task'[Router].todo = links
         /\ Head(events).of \in {"caps", "bind", "failed"}
         /\ events \in Seq(Event) /\ events # <<>> /\ events' = Tail(events)
<1>1. /\ Router \in Tasks /\ events \in Seq(Event) /\ events # <<>> /\ events' = Tail(events)
      /\ At(Router, "idle")
  BY DEF Known, TrafficOK, HandleEvent, Tasks
<1>2. Head(events).of \in {"caps", "bind", "failed"}
  BY <1>1, EventKinds
<1>3. task \in [Tasks -> [pc : {"idle", "away", "sync", "pick", "send", "record"},
                          todo : Seq(Displays), scheme : {None} \cup Picked]]
  BY DEF Known, TaskOK
<1>4. CASE Head(events).of # "bind"
  <2>1. task' = [task EXCEPT ![Router].pc = "pick"]
    BY <1>2, <1>4 DEF HandleEvent, Goto
  <2> QED BY <1>1, <1>2, <1>3, <1>4, <2>1 DEF Alone
<1>5. CASE Head(events).of = "bind"
  <2>1. task' = [task EXCEPT ![Router].todo = links,
                             ![Router].pc = IF links = <<>> THEN "pick" ELSE "sync"]
    BY <1>5 DEF HandleEvent
  <2> QED BY <1>1, <1>2, <1>3, <1>5, <2>1 DEF Alone
<1> QED BY <1>4, <1>5

LEMMA SyncGoesOn ==
  ASSUME Known, NEW t \in Tasks, SyncNext(t)
  PROVE  /\ Alone(t) /\ At(t, "sync") /\ task[t].todo \in Seq(Displays) /\ task[t].todo # <<>>
         /\ task'[t].pc = IF Tail(task[t].todo) = <<>> THEN "pick" ELSE "sync"
         /\ task'[t].todo = Tail(task[t].todo)
         /\ SyncDisplay(Head(task[t].todo))
<1>1. task \in [Tasks -> [pc : {"idle", "away", "sync", "pick", "send", "record"},
                          todo : Seq(Displays), scheme : {None} \cup Picked]]
  BY DEF Known, TaskOK
<1>2. /\ At(t, "sync") /\ SyncDisplay(Head(task[t].todo))
      /\ task[t].todo # <<>>
  BY DEF SyncNext, Known, TaskOK, At
<1>3. task' = [task EXCEPT ![t].todo = Tail(task[t].todo),
                           ![t].pc = IF Tail(task[t].todo) = <<>> THEN "pick" ELSE @]
  BY DEF SyncNext
<1> DEFINE rest == Tail(task[t].todo)
<1>4. /\ task'[t].todo = rest
      /\ task'[t].pc = IF rest = <<>> THEN "pick" ELSE task[t].pc
      /\ \A u \in Tasks : u # t => task'[u] = task[u]
  <2>1. task' = [task EXCEPT ![t].todo = rest, ![t].pc = IF rest = <<>> THEN "pick" ELSE @]
    BY <1>3
  <2> HIDE DEF rest
  <2> QED BY <1>1, <2>1
<1> QED BY <1>1, <1>2, <1>4 DEF Alone, At

LEMMA PickGoesOn ==
  ASSUME Known, NEW t \in Tasks, PickScheme(t)
  PROVE  /\ Alone(t) /\ At(t, "pick") /\ task'[t].pc \in {"idle", "send"}
         /\ Served # {} => \E i \in Winners : At(t, "send")' /\ task'[t].scheme = SchemeAt(i)
<1>1. task \in [Tasks -> [pc : {"idle", "away", "sync", "pick", "send", "record"},
                          todo : Seq(Displays), scheme : {None} \cup Picked]]
  BY DEF Known, TaskOK
<1>2. At(t, "pick")
  BY DEF PickScheme
<1>3. CASE Served = {} /\ task' = [task EXCEPT ![t] = Idle]
  BY <1>1, <1>2, <1>3 DEF Alone, Idle
<1>4. ASSUME NEW i \in Winners,
             task' = [task EXCEPT ![t] = [Idle EXCEPT !.pc = "send", !.scheme = SchemeAt(i)]]
      PROVE  /\ Alone(t) /\ task'[t].pc = "send" /\ task'[t].scheme = SchemeAt(i)
  <2> DEFINE s == SchemeAt(i)
  <2>1. task' = [task EXCEPT ![t] = [Idle EXCEPT !.pc = "send", !.scheme = s]]
    BY <1>4
  <2> HIDE DEF s
  <2>2. /\ [Idle EXCEPT !.pc = "send", !.scheme = s].pc = "send"
        /\ [Idle EXCEPT !.pc = "send", !.scheme = s].scheme = s
    BY DEF Idle
  <2>3. Alone(t) /\ task'[t].pc = "send" /\ task'[t].scheme = s
    BY <1>1, <2>1, <2>2 DEF Alone
  <2> QED BY <2>3 DEF s
<1> QED BY <1>2, <1>3, <1>4 DEF PickScheme, At

LEMMA SendGoesOn ==
  ASSUME Known, NEW t \in Tasks, Send(t)
  PROVE  /\ Alone(t) /\ At(t, "send") /\ task[t].scheme \in Picked /\ pbans # None
         /\ \/ last = task[t].scheme /\ wire' = wire /\ sent' = sent /\ task'[t].pc = "idle"
            \/ /\ wire' = Append(wire, task[t].scheme) /\ sent' = task[t].scheme
               /\ task'[t].pc = "record"
<1>1. task \in [Tasks -> [pc : {"idle", "away", "sync", "pick", "send", "record"},
                          todo : Seq(Displays), scheme : {None} \cup Picked]]
  BY DEF Known, TaskOK
<1>2. At(t, "send") /\ task[t].scheme \in Picked /\ pbans # None
  <2>1. At(t, "send")
    BY DEF Send
  <2>2. \A u \in Tasks : task[u].pc \in {"send", "record"} => task[u].scheme \in Picked
    BY DEF Known, TaskOK
  <2>3. pbans = None => \A u \in Tasks : task[u].pc \notin {"send", "record"}
    BY DEF Known, Silence
  <2> QED BY <2>1, <2>2, <2>3 DEF At
<1>3. CASE last = task[t].scheme
  <2>1. task' = [task EXCEPT ![t] = Idle] /\ wire' = wire /\ sent' = sent
    BY <1>3 DEF Send
  <2> QED BY <1>1, <1>2, <1>3, <2>1 DEF Alone, Idle
<1>4. CASE last # task[t].scheme
  <2>1. /\ task' = [task EXCEPT ![t].pc = "record"] /\ sent' = task[t].scheme
        /\ wire' = Append(wire, task[t].scheme)
    BY <1>4 DEF Send, Goto
  <2> QED BY <1>1, <1>2, <2>1 DEF Alone
<1> QED BY <1>3, <1>4

LEMMA RecordGoesOn ==
  ASSUME Known, NEW t \in Tasks, Record(t)
  PROVE  /\ Alone(t) /\ At(t, "record") /\ task'[t].pc = "idle"
         /\ task[t].scheme \in Picked /\ last' = task[t].scheme
         /\ crossed' = (crossed \/ sent # last' \/ Answered)
<1>1. task \in [Tasks -> [pc : {"idle", "away", "sync", "pick", "send", "record"},
                          todo : Seq(Displays), scheme : {None} \cup Picked]]
  BY DEF Known, TaskOK
<1>2. task' = [task EXCEPT ![t] = Idle] /\ At(t, "record")
  BY DEF Record
<1>3. task[t].scheme \in Picked
  <2>1. \A u \in Tasks : task[u].pc \in {"send", "record"} => task[u].scheme \in Picked
    BY DEF Known, TaskOK
  <2> QED BY <1>2, <2>1 DEF At
<1>4. last' = task[t].scheme /\ crossed' = (crossed \/ sent # task[t].scheme \/ Answered)
  BY DEF Record
<1> QED BY <1>1, <1>2, <1>3, <1>4 DEF Alone, Idle

LEMMA DisplayGoesOn ==
  ASSUME Known, NEW d \in Displays, Register(d) \/ HandleRequest(d) \/ Leave(d)
  PROVE  /\ Alone(d) /\ d \in Tasks
         /\ Register(d) => /\ At(d, "away") /\ task'[d].pc = "sync" /\ task'[d].todo = <<d>>
         /\ HandleRequest(d) \/ Leave(d) => At(d, "idle")
         /\ Leave(d) => task'[d].pc = "pick"
         /\ HandleRequest(d) => \/ task'[d].pc = "pick"
                                \/ task' = task /\ cbans' = cbans
<1>1. task \in [Tasks -> [pc : {"idle", "away", "sync", "pick", "send", "record"},
                          todo : Seq(Displays), scheme : {None} \cup Picked]]
  BY DEF Known, TaskOK
<1>2. d \in Tasks
  BY DEF Tasks
<1>3. CASE Register(d)
  <2>1. At(d, "away") /\ task' = [task EXCEPT ![d].todo = <<d>>, ![d].pc = "sync"]
    BY <1>3 DEF Register
  <2>2. Alone(d) /\ At(d, "away") /\ task'[d].pc = "sync" /\ task'[d].todo = <<d>>
    BY <1>1, <1>2, <2>1 DEF Alone
  <2>3. ~HandleRequest(d) /\ ~Leave(d)
    BY <2>1 DEF HandleRequest, Leave, At
  <2> QED BY <1>2, <2>2, <2>3
<1>4. CASE HandleRequest(d)
  <2>1. At(d, "idle")
    BY <1>4 DEF HandleRequest
  <2>2. ~Register(d) /\ (Leave(d) => task' = [task EXCEPT ![d].pc = "pick"])
    BY <2>1 DEF Register, Leave, Goto, At
  <2>3. Head(inbox[d]).of \in {"caps", "failed"}
    BY <1>4, RequestKinds DEF HandleRequest, Known, TrafficOK
  <2>4. \/ task' = [task EXCEPT ![d].pc = "pick"]
        \/ task' = task /\ cbans' = cbans
    BY <1>4, <2>3 DEF HandleRequest, Goto
  <2> QED BY <1>1, <1>2, <2>1, <2>2, <2>4 DEF Alone
<1>5. CASE Leave(d)
  <2>1. At(d, "idle") /\ task' = [task EXCEPT ![d].pc = "pick"]
    BY <1>5 DEF Leave, Goto
  <2>2. ~Register(d)
    BY <2>1 DEF Register, At
  <2>3. Alone(d) /\ task'[d].pc = "pick"
    BY <1>1, <1>2, <2>1 DEF Alone
  <2> QED BY <1>2, <2>1, <2>2, <2>3
<1> QED BY <1>3, <1>4, <1>5

-----------------------------------------------------------------------------
(* What a step does to a queue.                                            *)

\* Taking the first of a queue leaves its last, if it leaves any.
LEMMA LastOfTail ==
  ASSUME NEW S, NEW q \in Seq(S), q # <<>>
  PROVE  /\ Tail(q) = <<>> => Head(q) = q[Len(q)]
         /\ Tail(q) # <<>> => Tail(q)[Len(Tail(q))] = q[Len(q)]
         /\ \A k \in DOMAIN q : k # 1 => k - 1 \in DOMAIN Tail(q) /\ Tail(q)[k - 1] = q[k]
         /\ \A k \in DOMAIN Tail(q) : k \in Nat /\ k + 1 \in DOMAIN q /\ Tail(q)[k] = q[k + 1]
         /\ 1 \in DOMAIN q /\ q[1] = Head(q)
<1>1. Len(q) \in Nat /\ Len(q) # 0 /\ DOMAIN q = 1..Len(q) /\ Head(q) = q[1]
  OBVIOUS
<1>2. Tail(q) \in Seq(S) /\ Len(Tail(q)) = Len(q) - 1 /\ DOMAIN Tail(q) = 1..(Len(q) - 1)
  OBVIOUS
<1>3. \A k \in 1..(Len(q) - 1) : Tail(q)[k] = q[k + 1]
  OBVIOUS
<1>4. Tail(q) = <<>> <=> Len(q) = 1
  <2>1. \A r \in Seq(S) : r = <<>> <=> Len(r) = 0
    BY EmptySeq
  <2>2. Tail(q) = <<>> <=> Len(Tail(q)) = 0
    BY <1>2, <2>1
  <2> QED BY <1>1, <1>2, <2>2
<1> QED BY <1>1, <1>2, <1>3, <1>4

LEMMA LastOfAppend ==
  ASSUME NEW S, NEW q \in Seq(S), NEW x
  PROVE  /\ Append(q, x)[Len(Append(q, x))] = x /\ Append(q, x) # <<>>
         /\ \A k \in DOMAIN q : k \in DOMAIN Append(q, x) /\ Append(q, x)[k] = q[k]
         /\ \A k \in DOMAIN Append(q, x) :
              (k \in DOMAIN q /\ Append(q, x)[k] = q[k]) \/ Append(q, x)[k] = x
         /\ Len(q) + 1 \in DOMAIN Append(q, x) /\ Append(q, x)[Len(q) + 1] = x
OBVIOUS

\* A task will be on its way to d.
VisitedThen(d) ==
  \E t \in Tasks : task'[t].pc = "sync" /\ \E k \in DOMAIN task'[t].todo : task'[t].todo[k] = d

\* A task at work elsewhere stays there.
LEMMA OthersStay ==
  ASSUME NEW t \in Tasks, Alone(t), ~At(t, "record"), ~At(t, "sync")
  PROVE  /\ Unrecorded => Unrecorded'
         /\ \A d : Visited(d) => VisitedThen(d)
BY DEF Alone, Unrecorded, Visited, VisitedThen, At

LEMMA NoneIsNoScheme ==
  None \notin Picked /\ None \notin Pool /\ None \notin Nat
<1>1. DOMAIN SchemeFor = Displays \X (SUBSET Pairs) \X (SUBSET Pairs)
  BY DEF SchemeFor
<1> QED BY <1>1, NoneAssumption DEF Picked, Pool

LEMMA NobodyGoesAway ==
  ASSUME Known, NEW t \in Tasks,
         PickScheme(t) \/ Send(t) \/ Record(t) \/ SyncNext(t)
  PROVE  Alone(t) /\ \A u \in Tasks : At(u, "away")' => At(u, "away")
<1>1. Alone(t) /\ task'[t].pc # "away"
  BY PickGoesOn, SendGoesOn, RecordGoesOn, SyncGoesOn
<1> QED BY <1>1 DEF Alone, At

LEMMA AwayIsKept ==
  ASSUME Known, Next, NEW u \in Tasks, At(u, "away")'
  PROVE  At(u, "away")
<1>1. CASE HandleEvent
  BY <1>1, RouterGoesOn DEF Alone, At
<1>2. ASSUME NEW t \in Tasks, SyncNext(t) \/ Reconcile(t) PROVE At(u, "away")
  BY <1>2, NobodyGoesAway DEF Reconcile
<1>3. ASSUME NEW d \in Displays, Register(d) \/ HandleRequest(d) \/ Leave(d) PROVE At(u, "away")
  BY <1>3, DisplayGoesOn DEF Alone, At
<1>4. CASE task' = task
  BY <1>4 DEF At
<1>5. Advertise \/ Apply \/ (\E d \in Displays : Deliver(d)) => task' = task
  BY DEF Advertise, Apply, Deliver
<1> QED BY <1>1, <1>2, <1>3, <1>4, <1>5 DEF Next, Work

\* A pool is numbered when the answer is taken up.
LEMMA ApplySteps ==
  ASSUME Known, HistoryOK, Apply
  PROVE  /\ wire \in Seq(Picked) /\ wire # <<>> /\ wire' = Tail(wire)
         /\ events \in Seq(Event) /\ Head(wire) \in Picked
         /\ \/ /\ snapshot' \in Pool /\ snapshot'.pair = PairOf(Head(wire))
               /\ snapshot # None => snapshot \in Pool /\ snapshot'.gen = snapshot.gen + 1
               /\ events' = Append(events, [of |-> "bind"])
            \/ /\ snapshot' = snapshot
               /\ events' = Append(events, [of |-> "failed", pair |-> PairOf(Head(wire))])
<1> DEFINE s == Head(wire)
           gen == IF snapshot = None THEN 1 ELSE snapshot.gen + 1
<1>1. wire \in Seq(Picked) /\ wire # <<>> /\ wire' = Tail(wire) /\ events \in Seq(Event)
  BY DEF Apply, Known, TrafficOK
<1>2. s \in Picked
  BY <1>1
<1>3. PairOf(s) \in Pairs
  BY <1>2, PickedPairs
<1>4. gen \in Nat /\ (snapshot # None => snapshot \in Pool /\ gen = snapshot.gen + 1)
  BY DEF HistoryOK, Pool
<1>5. \/ /\ snapshot' = [gen |-> gen, pair |-> PairOf(s)]
         /\ events' = Append(events, [of |-> "bind"])
      \/ /\ snapshot' = snapshot
         /\ events' = Append(events, [of |-> "failed", pair |-> PairOf(s)])
  BY DEF Apply
<1> HIDE DEF s, gen
<1>6. \/ /\ snapshot' \in Pool /\ snapshot'.pair = PairOf(s) /\ snapshot'.gen = gen
         /\ events' = Append(events, [of |-> "bind"])
      \/ /\ snapshot' = snapshot
         /\ events' = Append(events, [of |-> "failed", pair |-> PairOf(s)])
  BY <1>3, <1>4, <1>5 DEF Pool
<1> QED BY <1>1, <1>2, <1>4, <1>6 DEF s

\* What a visit changes for a display.
LEMMA SyncSteps ==
  ASSUME Known, HistoryOK, NEW t \in Tasks, SyncNext(t)
  PROVE  LET d == Head(task[t].todo)
         IN  \/ bound' = bound /\ outbox' = outbox
                /\ (d \notin Range(links) \/ snapshot = None \/ Gated(d) \/ bound[d] = snapshot.gen)
             \/ /\ d \in Range(links) /\ d \in Displays /\ snapshot \in Pool
                /\ bound' = [bound EXCEPT ![d] = snapshot.gen]
                /\ \E q \in Seq({"bind", "unbind"}) :
                     outbox' = [outbox EXCEPT ![d] = q \o <<"bind">>]
<1> DEFINE d == Head(task[t].todo)
<1>1. SyncDisplay(d)
  BY SyncGoesOn
<1> HIDE DEF d
<1>2. CASE d \notin Range(links) \/ snapshot = None \/ Gated(d) \/ bound[d] = snapshot.gen
  BY <1>1, <1>2 DEF SyncDisplay, d
<1>3. CASE ~(d \notin Range(links) \/ snapshot = None \/ Gated(d) \/ bound[d] = snapshot.gen)
  <2>1. d \in Displays /\ snapshot \in Pool /\ outbox[d] \in Seq({"bind", "unbind"})
    BY <1>3 DEF Known, TrafficOK, Range, HistoryOK
  <2>2. /\ bound' = [bound EXCEPT ![d] = snapshot.gen]
        /\ outbox' = [outbox EXCEPT ![d] = outbox[d] \o Unbinds(d) \o <<"bind">>]
    BY <1>1, <1>3 DEF SyncDisplay
  <2>3. Unbinds(d) \in Seq({"bind", "unbind"})
    <3>1. <<>> \in Seq({"bind", "unbind"}) /\ <<"unbind">> \in Seq({"bind", "unbind"})
      OBVIOUS
    <3> QED BY <3>1 DEF Unbinds
  <2>4. outbox[d] \o Unbinds(d) \in Seq({"bind", "unbind"})
    BY <2>1, <2>3
  <2> QED BY <1>3, <2>1, <2>2, <2>4 DEF d
<1> QED BY <1>2, <1>3

\* What a delivery shows or refuses.
LEMMA DeliverSteps ==
  ASSUME Known, BoxesOK, NEW d \in Displays, Deliver(d)
  PROVE  /\ outbox[d] \in Seq({"bind", "unbind"}) /\ outbox[d] # <<>>
         /\ outbox' = [outbox EXCEPT ![d] = Tail(outbox[d])]
         /\ \/ shown' = [shown EXCEPT ![d] = None] /\ inbox' = inbox /\ outbox'[d] # <<>>
            \/ shown' = [shown EXCEPT ![d] = snapshot] /\ inbox' = inbox
            \/ /\ shown' = [shown EXCEPT ![d] = None]
               /\ inbox' = [inbox EXCEPT ![d] =
                              Append(inbox[d], [of |-> "failed", pair |-> snapshot.pair])]
<1>1. /\ outbox[d] \in Seq({"bind", "unbind"}) /\ outbox[d] # <<>>
      /\ outbox' = [outbox EXCEPT ![d] = Tail(outbox[d])] /\ outbox \in [Displays -> Seq({"bind", "unbind"})]
  BY DEF Known, TrafficOK, Deliver
<1>2. CASE Head(outbox[d]) = "unbind"
  <2>1. outbox[d][Len(outbox[d])] = "bind"
    BY <1>1 DEF BoxesOK, EndsInBind
  <2>2. Tail(outbox[d]) # <<>>
    <3>1. Head(outbox[d]) # outbox[d][Len(outbox[d])]
      BY <1>2, <2>1
    <3> QED BY <1>1, <3>1, LastOfTail
  <2> QED BY <1>1, <1>2, <2>2 DEF Deliver
<1>3. CASE Head(outbox[d]) # "unbind"
  BY <1>1, <1>3 DEF Deliver
<1> QED BY <1>2, <1>3

-----------------------------------------------------------------------------
(* Every step keeps the parts.                                             *)

LEMMA HistoryKept ==
  ASSUME Known, Orderly, Next
  PROVE  HistoryOK'
<1>1. HistoryOK /\ BoxesOK
  BY DEF Orderly
<1>2. CASE Apply
  BY <1>1, <1>2, ApplySteps DEF HistoryOK, Apply, displayVars
<1>3. ASSUME NEW t \in Tasks, SyncNext(t) PROVE HistoryOK'
  <2>1. bound' \in [Displays -> {None} \cup Nat]
    BY <1>1, <1>3, SyncSteps DEF HistoryOK, Pool
  <2> QED BY <1>1, <1>3, <2>1 DEF HistoryOK, SyncNext, poolVars
<1>4. ASSUME NEW t \in Tasks, PickScheme(t) PROVE HistoryOK'
  BY <1>1, <1>4 DEF HistoryOK, PickScheme, poolVars, displayVars
<1>5. ASSUME NEW t \in Tasks, Send(t) PROVE HistoryOK'
  <2>1. sent' \in MaybeScheme
    BY <1>1, <1>5, SendGoesOn DEF HistoryOK, MaybeScheme
  <2> QED BY <1>1, <1>5, <2>1 DEF HistoryOK, Send, displayVars
<1>6. ASSUME NEW t \in Tasks, Record(t) PROVE HistoryOK'
  <2>1. last' \in MaybeScheme /\ crossed' \in BOOLEAN
    BY <1>1, <1>6, RecordGoesOn DEF HistoryOK, MaybeScheme
  <2> QED BY <1>1, <1>6, <2>1 DEF HistoryOK, Record, poolVars, displayVars
<1>7. ASSUME NEW d \in Displays, Deliver(d) PROVE HistoryOK'
  <2>1. shown' \in [Displays -> {None} \cup Pool]
    BY <1>1, <1>7, DeliverSteps DEF HistoryOK
  <2> QED BY <1>1, <1>7, <2>1 DEF HistoryOK, Deliver, poolVars
<1>8. ASSUME NEW d \in Displays, Leave(d) PROVE HistoryOK'
  <2>1. /\ bound' = [bound EXCEPT ![d] = None] /\ shown' = [shown EXCEPT ![d] = None]
        /\ UNCHANGED <<last, sent, crossed, snapshot>>
    BY <1>8 DEF Leave, poolVars
  <2> QED BY <1>1, <2>1 DEF HistoryOK
<1>9. ASSUME NEW d \in Displays, Register(d) \/ HandleRequest(d) PROVE HistoryOK'
  <2>1. UNCHANGED <<last, sent, crossed, snapshot, shown, bound>>
    BY <1>9 DEF Register, HandleRequest, poolVars
  <2> QED BY <1>1, <2>1 DEF HistoryOK
<1>10. CASE Advertise \/ HandleEvent
  <2>1. UNCHANGED <<last, sent, crossed, snapshot, shown, bound>>
    BY <1>10 DEF Advertise, HandleEvent, poolVars, displayVars
  <2> QED BY <1>1, <2>1 DEF HistoryOK
<1> QED
  BY <1>2, <1>3, <1>4, <1>5, <1>6, <1>7, <1>8, <1>9, <1>10 DEF Next, Work, Reconcile

LEMMA LinksSteps ==
  ASSUME Known, Next
  PROVE  \/ UNCHANGED links
         \/ \E d \in Displays : Register(d)
         \/ \E d \in Displays : Leave(d)
BY DEF Next, Work, Reconcile, Advertise, Apply, HandleEvent, SyncNext, PickScheme, Send, Record,
       HandleRequest, Deliver

\* Who stays when a display leaves.
LEMMA LeaveLinks ==
  ASSUME Known, LinksOK, NEW d \in Displays, Leave(d)
  PROVE  /\ \A j \in DOMAIN links' : links'[j] # d /\ \E i \in DOMAIN links : links'[j] = links[i]
         /\ \A j, k \in DOMAIN links' : links'[j] = links'[k] => j = k
<1>1. PICK i \in DOMAIN links : links[i] = d /\ links' = RemoveAt(links, i)
  BY DEF Leave
<1>2. links \in Seq(Displays) /\ i \in 1..Len(links) /\ DOMAIN links = 1..Len(links)
  BY <1>1 DEF Known, TrafficOK
<1>3. \A j, k \in 1..Len(links) : links[j] = links[k] => j = k
  BY <1>2 DEF LinksOK
<1> DEFINE a == SubSeq(links, 1, i - 1)
           b == SubSeq(links, i + 1, Len(links))
<1>4. /\ a \in Seq(Displays) /\ Len(a) = i - 1 /\ \A j \in 1..(i - 1) : a[j] = links[j]
      /\ b \in Seq(Displays) /\ Len(b) = Len(links) - i
      /\ \A j \in 1..(Len(links) - i) : b[j] = links[i + j]
  BY <1>2
<1>5. links' = a \o b
  BY <1>1 DEF RemoveAt
<1> HIDE DEF a, b
<1>6. /\ DOMAIN links' = 1..(Len(links) - 1)
      /\ \A j \in 1..(Len(links) - 1) : links'[j] = links[IF j < i THEN j ELSE j + 1]
  <2>1. Len(a) + Len(b) = Len(links) - 1 /\ Len(links) \in Nat
    BY <1>2, <1>4
  <2>2. /\ links' \in Seq(Displays) /\ Len(links') = Len(links) - 1
        /\ \A j \in 1..(Len(links) - 1) :
             links'[j] = IF j <= i - 1 THEN a[j] ELSE b[j - (i - 1)]
    <3>1. /\ a \o b \in Seq(Displays) /\ Len(a \o b) = Len(a) + Len(b)
          /\ \A j \in 1..(Len(a) + Len(b)) :
               (a \o b)[j] = IF j <= Len(a) THEN a[j] ELSE b[j - Len(a)]
      BY <1>4, ConcatProperties
    <3>2. Len(a) = i - 1
      BY <1>4
    <3> QED BY <1>5, <2>1, <3>1, <3>2
  <2>3. ASSUME NEW j \in 1..(Len(links) - 1)
        PROVE  links'[j] = links[IF j < i THEN j ELSE j + 1]
    <3>1. CASE j < i
      BY <1>2, <1>4, <2>2, <3>1
    <3>2. CASE ~(j < i)
      <4> DEFINE k == j - (i - 1)
      <4>1. k \in 1..(Len(links) - i) /\ i + k = j + 1 /\ ~(j <= i - 1)
        BY <1>2, <3>2
      <4>2. links'[j] = b[k] /\ b[k] = links[i + k]
        BY <1>4, <2>2, <4>1
      <4> QED BY <3>2, <4>1, <4>2
    <3> QED BY <3>1, <3>2
  <2> QED BY <2>2, <2>3
<1>7. \A j \in DOMAIN links' : links'[j] # d /\ \E k \in DOMAIN links : links'[j] = links[k]
  <2> SUFFICES ASSUME NEW j \in DOMAIN links'
               PROVE  links'[j] # d /\ \E k \in DOMAIN links : links'[j] = links[k]
    OBVIOUS
  <2> DEFINE k == IF j < i THEN j ELSE j + 1
  <2>1. k \in 1..Len(links) /\ k # i /\ links'[j] = links[k]
    BY <1>2, <1>6
  <2> HIDE DEF k
  <2> QED BY <1>1, <1>2, <1>3, <2>1
<1>8. \A j, k \in DOMAIN links' : links'[j] = links'[k] => j = k
  <2> SUFFICES ASSUME NEW j \in DOMAIN links', NEW k \in DOMAIN links', links'[j] = links'[k]
               PROVE  j = k
    OBVIOUS
  <2> DEFINE x == IF j < i THEN j ELSE j + 1
             y == IF k < i THEN k ELSE k + 1
  <2>1. /\ x \in 1..Len(links) /\ y \in 1..Len(links) /\ j \in Int /\ k \in Int /\ i \in Int
        /\ links'[j] = links[x] /\ links'[k] = links[y]
    BY <1>2, <1>6
  <2>2. x = y
    <3> HIDE DEF x, y
    <3> QED BY <1>3, <2>1
  <2> QED BY <2>1, <2>2
<1> QED BY <1>7, <1>8

LEMMA LinksKept ==
  ASSUME Known, Orderly, Next
  PROVE  LinksOK'
<1>1. /\ LinksOK /\ links \in Seq(Displays) /\ DOMAIN links = 1..Len(links)
      /\ \A d \in Displays : d \in Tasks
  BY DEF Orderly, Known, TrafficOK, Tasks
<1>2. \A i \in DOMAIN links : task'[links[i]].pc # "away"
  <2>1. \A i \in DOMAIN links : links[i] \in Tasks /\ ~At(links[i], "away")
    BY <1>1 DEF LinksOK
  <2>2. \A u \in Tasks : task'[u].pc = "away" => task[u].pc = "away"
    BY AwayIsKept DEF At
  <2> QED BY <2>1, <2>2 DEF At
<1>3. CASE UNCHANGED links
  BY <1>1, <1>2, <1>3 DEF LinksOK, At
<1>4. ASSUME NEW d \in Displays, Register(d) PROVE LinksOK'
  <2>1. links' = Append(links, d) /\ At(d, "away") /\ task'[d].pc = "sync"
    BY <1>4, DisplayGoesOn DEF Register
  <2>2. \A i \in DOMAIN links : links[i] # d
    BY <1>1, <2>1 DEF LinksOK
  <2>3. /\ DOMAIN links' = 1..(Len(links) + 1) /\ Len(links) \in Nat
        /\ \A i \in DOMAIN links : links'[i] = links[i]
        /\ links'[Len(links) + 1] = d
    BY <1>1, <2>1
  <2>4. \A i \in DOMAIN links' : i \in DOMAIN links \/ i = Len(links) + 1
    BY <1>1, <2>3
  <2>5. \A i, j \in DOMAIN links' : links'[i] = links'[j] => i = j
    BY <1>1, <2>2, <2>3, <2>4 DEF LinksOK
  <2>6. \A i \in DOMAIN links' : task'[links'[i]].pc # "away"
    BY <1>2, <2>1, <2>3, <2>4 DEF At
  <2> QED BY <2>5, <2>6 DEF LinksOK, At
<1>5. ASSUME NEW d \in Displays, Leave(d) PROVE LinksOK'
  <2>1. /\ \A j \in DOMAIN links' : links'[j] # d /\ \E i \in DOMAIN links : links'[j] = links[i]
        /\ \A j, k \in DOMAIN links' : links'[j] = links'[k] => j = k
    BY <1>1, <1>5, LeaveLinks
  <2> QED BY <1>2, <2>1 DEF LinksOK, At
<1> QED BY <1>3, <1>4, <1>5, LinksSteps

LEMMA BoundKept ==
  ASSUME Known, Orderly, Next
  PROVE  BoundOK'
<1>1. /\ HistoryOK /\ BoundOK /\ LinksOK /\ links \in Seq(Displays)
      /\ \A d \in Displays : d \in Tasks
  BY DEF Orderly, Known, TrafficOK, Tasks
<1>2. \A d \in Displays : task'[d].pc = "away" => task[d].pc = "away"
  BY <1>1, AwayIsKept DEF At
<1>3. CASE UNCHANGED <<bound, snapshot>>
  BY <1>1, <1>2, <1>3 DEF BoundOK, At
<1>4. CASE Apply
  <2>1. bound' = bound
    BY <1>4 DEF Apply
  <2>2. ASSUME NEW d \in Displays, bound[d] # None
        PROVE  snapshot' # None /\ bound[d] <= snapshot'.gen
    <3>1. snapshot # None /\ bound[d] <= snapshot.gen /\ bound[d] \in Nat /\ snapshot.gen \in Nat
      BY <1>1, <2>2 DEF BoundOK, HistoryOK, Pool
    <3>2. \/ snapshot' = snapshot
          \/ snapshot' \in Pool /\ snapshot'.gen = snapshot.gen + 1
      BY <1>1, <1>4, <3>1, ApplySteps
    <3> QED BY <3>1, <3>2, NoneIsNoScheme
  <2> QED BY <1>1, <1>2, <2>1, <2>2 DEF BoundOK, At
<1>5. ASSUME NEW t \in Tasks, SyncNext(t) PROVE BoundOK'
  <2>1. snapshot' = snapshot
    BY <1>5 DEF SyncNext, poolVars
  <2>2. bound' = bound \/ \E d \in Displays : /\ d \in Range(links) /\ snapshot \in Pool
                                              /\ bound' = [bound EXCEPT ![d] = snapshot.gen]
    BY <1>1, <1>5, SyncSteps
  <2>3. CASE bound' = bound
    BY <1>3, <2>1, <2>3
  <2>4. ASSUME NEW d \in Displays, d \in Range(links), snapshot \in Pool,
               bound' = [bound EXCEPT ![d] = snapshot.gen]
        PROVE  BoundOK'
    <3>1. task[d].pc # "away" /\ snapshot # None /\ snapshot.gen \in Nat
      BY <1>1, <2>4, NoneIsNoScheme DEF LinksOK, At, Range, Pool
    <3>2. \A x \in Displays : bound'[x] = IF x = d THEN snapshot.gen ELSE bound[x]
      BY <1>1, <2>4 DEF HistoryOK
    <3> QED BY <1>1, <1>2, <2>1, <3>1, <3>2 DEF BoundOK, At
  <2> QED BY <2>2, <2>3, <2>4
<1>6. ASSUME NEW d \in Displays, Leave(d) PROVE BoundOK'
  <2>1. snapshot' = snapshot /\ bound' = [bound EXCEPT ![d] = None]
    BY <1>6 DEF Leave, poolVars
  <2>2. \A x \in Displays : bound'[x] = IF x = d THEN None ELSE bound[x]
    BY <1>1, <2>1 DEF HistoryOK
  <2> QED BY <1>1, <1>2, <2>1, <2>2 DEF BoundOK, At
<1>7. \/ UNCHANGED <<bound, snapshot>> \/ Apply \/ (\E t \in Tasks : SyncNext(t))
      \/ \E d \in Displays : Leave(d)
  BY DEF Next, Work, Reconcile, Advertise, HandleEvent, PickScheme, Send, Record,
         HandleRequest, Deliver, Register, poolVars
<1> QED BY <1>3, <1>4, <1>5, <1>6, <1>7

LEMMA BoxesKept ==
  ASSUME Known, Orderly, Next
  PROVE  BoxesOK'
<1>1. /\ BoxesOK /\ HistoryOK /\ LinksOK
      /\ inbox \in [Displays -> Seq(Request)] /\ outbox \in [Displays -> Seq({"bind", "unbind"})]
      /\ cbans \in [Displays -> {None} \cup SUBSET Pairs] /\ \A d \in Displays : d \in Tasks
  BY DEF Orderly, Known, TrafficOK, RefusalsOK, Tasks
<1>2. \A d \in Displays : task'[d].pc = "away" => task[d].pc = "away"
  BY <1>1, AwayIsKept DEF At
<1>3. CASE UNCHANGED <<inbox, outbox, cbans>>
  BY <1>1, <1>2, <1>3 DEF BoxesOK, CapsFirst, EndsInBind, At
<1>4. ASSUME NEW t \in Tasks, SyncNext(t) PROVE BoxesOK'
  <2>1. UNCHANGED <<inbox, cbans>>
    BY <1>4 DEF SyncNext, capVars
  <2>2. outbox' = outbox \/ \E d \in Displays, q \in Seq({"bind", "unbind"}) :
                              outbox' = [outbox EXCEPT ![d] = q \o <<"bind">>]
    BY <1>1, <1>4, SyncSteps
  <2>3. CASE outbox' = outbox
    BY <1>3, <2>1, <2>3
  <2>4. ASSUME NEW d \in Displays, NEW q \in Seq({"bind", "unbind"}),
               outbox' = [outbox EXCEPT ![d] = q \o <<"bind">>]
        PROVE  BoxesOK'
    <3>1. (q \o <<"bind">>)[Len(q \o <<"bind">>)] = "bind"
      OBVIOUS
    <3>2. \A x \in Displays : outbox'[x] = IF x = d THEN q \o <<"bind">> ELSE outbox[x]
      BY <1>1, <2>4
    <3>3. \A x \in Displays : EndsInBind(x)'
      BY <1>1, <3>1, <3>2 DEF BoxesOK, EndsInBind
    <3> QED BY <1>1, <1>2, <2>1, <3>3 DEF BoxesOK, CapsFirst, At
  <2> QED BY <2>2, <2>3, <2>4
<1>5. ASSUME NEW d \in Displays, Register(d) PROVE BoxesOK'
  <2>1. /\ UNCHANGED <<outbox, cbans>> /\ At(d, "away")
        /\ inbox' = [inbox EXCEPT ![d] = IF d \in Speaking THEN <<CapsRequest>> ELSE <<>>]
    BY <1>5 DEF Register, capVars
  <2>2. cbans[d] = None
    BY <1>1, <2>1 DEF BoxesOK
  <2>3. CapsFirst(d)'
    BY <1>1, <2>1, <2>2 DEF CapsFirst, CapsRequest
  <2>4. \A x \in Displays : x # d => inbox'[x] = inbox[x]
    BY <1>1, <2>1
  <2>5. \A x \in Displays : CapsFirst(x)'
    BY <1>1, <2>1, <2>3, <2>4 DEF BoxesOK, CapsFirst
  <2> QED BY <1>1, <1>2, <2>1, <2>5 DEF BoxesOK, EndsInBind, At
<1>6. ASSUME NEW d \in Displays, HandleRequest(d) PROVE BoxesOK'
  <2>1. /\ inbox[d] # <<>> /\ inbox' = [inbox EXCEPT ![d] = Tail(inbox[d])]
        /\ outbox' = outbox /\ task[d].pc # "away"
    BY <1>6 DEF HandleRequest, At
  <2>2. Head(inbox[d]).of \in {"caps", "failed"}
    BY <1>1, <2>1, RequestKinds
  <2>3. \A x \in Displays : x # d => inbox'[x] = inbox[x] /\ cbans'[x] = cbans[x]
    <3>1. \A x \in Displays : x # d => cbans'[x] = cbans[x]
      BY <1>1, <1>6, <2>2 DEF HandleRequest
    <3> QED BY <1>1, <2>1, <3>1
  <2>4. \A k \in DOMAIN inbox'[d] : inbox'[d][k].of # "caps"
    <3> SUFFICES ASSUME NEW k \in DOMAIN Tail(inbox[d])
                 PROVE  Tail(inbox[d])[k].of # "caps"
      BY <1>1, <2>1
    <3>1. /\ k \in Nat /\ k + 1 \in DOMAIN inbox[d] /\ Tail(inbox[d])[k] = inbox[d][k + 1]
          /\ DOMAIN Tail(inbox[d]) = 1..Len(Tail(inbox[d]))
      BY <1>1, <2>1, LastOfTail
    <3>2. k + 1 # 1
      BY <1>1, <2>1, <3>1
    <3> QED BY <1>1, <3>1, <3>2 DEF BoxesOK, CapsFirst
  <2>5. \A x \in Displays : CapsFirst(x)'
    BY <1>1, <2>3, <2>4 DEF BoxesOK, CapsFirst
  <2>6. \A x \in Displays : task'[x].pc = "away" => cbans'[x] = None
    BY <1>1, <1>2, <2>1, <2>3 DEF BoxesOK, At
  <2> QED BY <1>1, <2>1, <2>5, <2>6 DEF BoxesOK, EndsInBind, At
<1>7. ASSUME NEW d \in Displays, Deliver(d) PROVE BoxesOK'
  <2>1. cbans' = cbans /\ task' = task
    BY <1>7 DEF Deliver, capVars
  <2>2. /\ outbox[d] \in Seq({"bind", "unbind"}) /\ outbox[d] # <<>>
        /\ outbox' = [outbox EXCEPT ![d] = Tail(outbox[d])]
        /\ \/ inbox' = inbox
           \/ inbox' = [inbox EXCEPT ![d] =
                          Append(inbox[d], [of |-> "failed", pair |-> snapshot.pair])]
    BY <1>1, <1>7, DeliverSteps
  <2>3. EndsInBind(d)'
    <3>1. outbox[d][Len(outbox[d])] = "bind"
      BY <1>1, <2>2 DEF BoxesOK, EndsInBind
    <3>2. Tail(outbox[d]) # <<>> => Tail(outbox[d])[Len(Tail(outbox[d]))] = "bind"
      BY <2>2, <3>1, LastOfTail
    <3>3. outbox'[d] = Tail(outbox[d])
      BY <1>1, <2>2
    <3> QED BY <3>2, <3>3 DEF EndsInBind
  <2>4. CapsFirst(d)'
    <3>1. CASE inbox' = inbox
      BY <1>1, <2>1, <3>1 DEF BoxesOK, CapsFirst
    <3>2. CASE inbox' = [inbox EXCEPT ![d] =
                           Append(inbox[d], [of |-> "failed", pair |-> snapshot.pair])]
      <4> DEFINE r == [of |-> "failed", pair |-> snapshot.pair]
      <4>1. inbox'[d] = Append(inbox[d], r) /\ inbox[d] \in Seq(Request) /\ r.of # "caps"
        BY <1>1, <3>2
      <4> HIDE DEF r
      <4>2. \A k \in DOMAIN inbox'[d] :
              (k \in DOMAIN inbox[d] /\ inbox'[d][k] = inbox[d][k]) \/ inbox'[d][k] = r
        BY <4>1, LastOfAppend
      <4> QED BY <1>1, <2>1, <4>1, <4>2 DEF BoxesOK, CapsFirst
    <3> QED BY <2>2, <3>1, <3>2
  <2>5. \A x \in Displays : x # d => inbox'[x] = inbox[x] /\ outbox'[x] = outbox[x]
    BY <1>1, <2>2
  <2>6. \A x \in Displays : CapsFirst(x)' /\ EndsInBind(x)'
    BY <1>1, <2>1, <2>3, <2>4, <2>5 DEF BoxesOK, CapsFirst, EndsInBind
  <2> QED BY <1>1, <2>1, <2>6 DEF BoxesOK, At
<1>8. ASSUME NEW d \in Displays, Leave(d) PROVE BoxesOK'
  <2>1. /\ inbox' = [inbox EXCEPT ![d] = <<>>] /\ outbox' = [outbox EXCEPT ![d] = <<>>]
        /\ cbans' = [cbans EXCEPT ![d] = None]
    BY <1>8 DEF Leave
  <2>2. inbox'[d] = <<>> /\ outbox'[d] = <<>> /\ cbans'[d] = None
    BY <1>1, <2>1
  <2>3. \A x \in Displays : x # d => /\ inbox'[x] = inbox[x] /\ outbox'[x] = outbox[x]
                                     /\ cbans'[x] = cbans[x]
    BY <1>1, <2>1
  <2>4. \A x \in Displays : CapsFirst(x)'
    <3>1. \A k \in DOMAIN inbox'[d] : FALSE
      <4>1. DOMAIN << >> = {}
        OBVIOUS
      <4> QED BY <2>2, <4>1
    <3> QED BY <1>1, <2>3, <3>1 DEF BoxesOK, CapsFirst
  <2>5. \A x \in Displays : EndsInBind(x)'
    BY <1>1, <2>2, <2>3 DEF BoxesOK, EndsInBind
  <2>6. \A x \in Displays : task'[x].pc = "away" => cbans'[x] = None
    BY <1>1, <1>2, <2>2, <2>3 DEF BoxesOK, At
  <2> QED BY <2>4, <2>5, <2>6 DEF BoxesOK, At
<1>9. \/ UNCHANGED <<inbox, outbox, cbans>> \/ (\E t \in Tasks : SyncNext(t))
      \/ \E d \in Displays : Register(d) \/ HandleRequest(d) \/ Deliver(d) \/ Leave(d)
  BY DEF Next, Work, Reconcile, Advertise, Apply, HandleEvent, PickScheme, Send, Record,
         capVars, displayVars
<1> QED BY <1>3, <1>4, <1>5, <1>6, <1>7, <1>8, <1>9

\* A failure that the router is told of ends up in the renderer's blacklist.
LEMMA HandleEventBans ==
  ASSUME Known, HandleEvent
  PROVE  /\ pbans # None /\ pbans' # None /\ pbans \subseteq pbans'
         /\ Head(events).of = "failed" => Head(events).pair \in pbans'
<1>1. pbans # None /\ pbans \in SUBSET Pairs /\ Head(events).of \in {"caps", "bind", "failed"}
  BY RouterGoesOn DEF Known, RefusalsOK, Silence
<1>2. Head(events).of # "failed" => pbans' = pbans
  BY <1>1 DEF HandleEvent
<1>3. Head(events).of = "failed" => /\ pbans' = pbans \cup {Head(events).pair}
                                    /\ Head(events).pair \in Pairs
  <2>1. Head(events) \in Event
    BY RouterGoesOn
  <2>2. Head(events).of = "failed" => Head(events).pair \in Pairs
    BY <2>1, Failures
  <2>3. Head(events).of = "failed" => pbans' = pbans \cup {Head(events).pair}
    BY DEF HandleEvent, Ban
  <2> QED BY <2>2, <2>3
<1>4. pbans' \in SUBSET Pairs
  BY <1>1, <1>2, <1>3
<1>5. pbans' # None
  BY <1>4, NoneAssumption
<1> QED BY <1>1, <1>2, <1>3, <1>5

LEMMA HandleEventFails ==
  ASSUME Known, HandleEvent, NEW s, Failing(s)
  PROVE  \/ PairOf(s) \in pbans'
         \/ \E k \in DOMAIN events' : events'[k].of = "failed" /\ events'[k].pair = PairOf(s)
<1>1. CASE PairOf(s) \in pbans
  BY <1>1, HandleEventBans
<1>2. ASSUME NEW k \in DOMAIN events, events[k].of = "failed", events[k].pair = PairOf(s)
      PROVE  \/ PairOf(s) \in pbans'
             \/ \E j \in DOMAIN events' : events'[j].of = "failed" /\ events'[j].pair = PairOf(s)
  <2>1. events \in Seq(Event) /\ events # <<>> /\ events' = Tail(events)
    BY RouterGoesOn
  <2>2. CASE k = 1
    BY <1>2, <2>1, <2>2, LastOfTail, HandleEventBans
  <2>3. CASE k # 1
    <3>1. k - 1 \in DOMAIN events' /\ events'[k - 1] = events[k]
      BY <2>1, <2>3, LastOfTail
    <3> QED BY <1>2, <3>1
  <2> QED BY <2>2, <2>3
<1> QED BY <1>1, <1>2 DEF Failing

LEMMA SentKept ==
  ASSUME Known, Orderly, Next
  PROVE  SentOK'
<1>1. SentOK /\ HistoryOK /\ wire \in Seq(Picked) /\ (pbans = None => events = <<>>)
  BY DEF Orderly, Known, TrafficOK, Silence
<1>2. CASE Advertise
  <2>1. pbans' # None /\ UNCHANGED <<wire, sent, crossed, last, task>>
    BY <1>2, NoneAssumption DEF Advertise, poolVars
  <2> QED BY <1>1, <2>1 DEF SentOK, Unrecorded, At
<1>3. CASE Apply
  <2>1. /\ wire # <<>> /\ wire' = Tail(wire) /\ UNCHANGED <<sent, crossed, last, task, pbans>>
    BY <1>3 DEF Apply, capVars
  <2>2. wire' # <<>> => wire'[Len(wire')] = sent
    BY <1>1, <2>1, LastOfTail DEF SentOK
  <2> QED BY <1>1, <2>1, <2>2 DEF SentOK, Unrecorded, At
<1>4. ASSUME NEW t \in Tasks, SyncNext(t) \/ PickScheme(t) PROVE SentOK'
  <2>1. UNCHANGED <<wire, sent, crossed, last, pbans>>
    BY <1>4 DEF SyncNext, PickScheme, capVars, poolVars
  <2>2. Alone(t) /\ ~At(t, "record")
    BY <1>4, SyncGoesOn, PickGoesOn DEF At
  <2>3. Unrecorded => Unrecorded'
    BY <2>2 DEF Alone, Unrecorded, At
  <2> QED BY <1>1, <2>1, <2>3 DEF SentOK
<1>5. ASSUME NEW t \in Tasks, Send(t) PROVE SentOK'
  <2>1. UNCHANGED <<crossed, last, pbans>>
    BY <1>5 DEF Send, capVars
  <2>2. /\ Alone(t) /\ At(t, "send") /\ pbans # None
        /\ \/ wire' = wire /\ sent' = sent
           \/ /\ wire' = Append(wire, task[t].scheme) /\ sent' = task[t].scheme
              /\ task'[t].pc = "record"
    BY <1>5, SendGoesOn
  <2>3. Unrecorded => Unrecorded'
    BY <2>2 DEF Alone, Unrecorded, At
  <2>4. CASE wire' = wire /\ sent' = sent
    BY <1>1, <2>1, <2>3, <2>4 DEF SentOK
  <2>5. CASE /\ wire' = Append(wire, task[t].scheme) /\ sent' = task[t].scheme
             /\ task'[t].pc = "record"
    <3>1. wire'[Len(wire')] = sent'
      BY <1>1, <2>5, LastOfAppend
    <3>2. Unrecorded'
      BY <2>5 DEF Unrecorded, At
    <3> QED BY <2>1, <2>2, <3>1, <3>2 DEF SentOK
  <2> QED BY <2>2, <2>4, <2>5
<1>6. ASSUME NEW t \in Tasks, Record(t) PROVE SentOK'
  <2>1. UNCHANGED <<wire, sent, pbans>>
    BY <1>6 DEF Record, capVars, poolVars
  <2>2. crossed' \/ last' = sent
    BY <1>6, RecordGoesOn
  <2> QED BY <1>1, <2>1, <2>2 DEF SentOK
<1>7. CASE HandleEvent
  <2>1. UNCHANGED <<wire, sent, crossed, last>>
    BY <1>7 DEF HandleEvent, poolVars
  <2>2. Alone(Router) /\ At(Router, "idle") /\ events # <<>>
    BY <1>7, RouterGoesOn
  <2>3. pbans' # None
    BY <1>1, <1>7, <2>2, HandleEventBans
  <2>4. Unrecorded => Unrecorded'
    BY <2>2 DEF Alone, Unrecorded, At
  <2> QED BY <1>1, <2>1, <2>3, <2>4 DEF SentOK
<1>8. ASSUME NEW d \in Displays, Register(d) \/ HandleRequest(d) \/ Leave(d) PROVE SentOK'
  <2>1. UNCHANGED <<wire, sent, crossed, last, pbans>>
    BY <1>8 DEF Register, HandleRequest, Leave, capVars, poolVars
  <2>2. Alone(d) /\ ~At(d, "record")
    BY <1>8, DisplayGoesOn DEF At
  <2>3. Unrecorded => Unrecorded'
    BY <2>2 DEF Alone, Unrecorded, At
  <2> QED BY <1>1, <2>1, <2>3 DEF SentOK
<1>9. ASSUME NEW d \in Displays, Deliver(d) PROVE SentOK'
  <2>1. UNCHANGED <<wire, sent, crossed, last, pbans, task>>
    BY <1>9 DEF Deliver, capVars, poolVars
  <2> QED BY <1>1, <2>1 DEF SentOK, Unrecorded, At
<1> QED
  BY <1>2, <1>3, <1>4, <1>5, <1>6, <1>7, <1>8, <1>9 DEF Next, Work, Reconcile

LEMMA AnswerKept ==
  ASSUME Known, Orderly, Next
  PROVE  AnswerOK'
<1>1. /\ AnswerOK /\ SentOK /\ HistoryOK
      /\ wire \in Seq(Picked) /\ events \in Seq(Event) /\ (pbans = None => events = <<>>)
  BY DEF Orderly, Known, TrafficOK, Silence
<1>2. CASE UNCHANGED <<wire, sent, pbans, events, snapshot>>
  BY <1>1, <1>2 DEF AnswerOK, Failing, Allocated
<1>3. CASE Advertise
  <2>1. sent' = None
    BY <1>1, <1>3 DEF Advertise, SentOK
  <2> QED BY <2>1 DEF AnswerOK
<1>4. CASE Apply
  <2>1. UNCHANGED <<sent, pbans>>
    BY <1>4 DEF Apply, capVars
  <2>2. wire # <<>> /\ wire' = Tail(wire)
    BY <1>1, <1>4, ApplySteps
  <2> SUFFICES ASSUME wire' = <<>>
               PROVE  (Failing(sent) \/ (Allocated(sent) /\ events[Len(events)].of = "bind"))'
    BY DEF AnswerOK
  <2>3. Head(wire) = sent
    BY <1>1, <2>2, LastOfTail DEF SentOK
  <2>4. \/ /\ snapshot' \in Pool /\ snapshot'.pair = PairOf(sent)
           /\ events' = Append(events, [of |-> "bind"])
        \/ events' = Append(events, [of |-> "failed", pair |-> PairOf(sent)])
    BY <1>1, <1>4, <2>3, ApplySteps
  <2>5. CASE /\ snapshot' \in Pool /\ snapshot'.pair = PairOf(sent)
             /\ events' = Append(events, [of |-> "bind"])
    <3>1. events'[Len(events')] = [of |-> "bind"]
      BY <1>1, <2>5, LastOfAppend
    <3> QED BY <2>1, <2>5, <3>1, NoneIsNoScheme DEF Allocated
  <2>6. CASE events' = Append(events, [of |-> "failed", pair |-> PairOf(sent)])
    <3>1. /\ Len(events) + 1 \in DOMAIN events'
          /\ events'[Len(events) + 1] = [of |-> "failed", pair |-> PairOf(sent)]
      BY <1>1, <2>6, LastOfAppend
    <3>2. \E k \in DOMAIN events' : events'[k].of = "failed" /\ events'[k].pair = PairOf(sent)
      BY <3>1
    <3> QED BY <2>1, <3>2 DEF Failing, PairOf
  <2> QED BY <2>4, <2>5, <2>6
<1>5. ASSUME NEW t \in Tasks, Send(t) PROVE AnswerOK'
  <2>1. UNCHANGED <<pbans, events, snapshot>>
    BY <1>5 DEF Send, capVars
  <2>2. \/ wire' = wire /\ sent' = sent
        \/ wire' = Append(wire, task[t].scheme) /\ task[t].scheme \in Picked
    BY <1>5, SendGoesOn
  <2>3. CASE wire' = wire /\ sent' = sent
    BY <1>2, <2>1, <2>3
  <2>4. CASE wire' = Append(wire, task[t].scheme)
    <3>1. wire' # <<>>
      BY <1>1, <2>4, LastOfAppend
    <3> QED BY <3>1 DEF AnswerOK
  <2> QED BY <2>2, <2>3, <2>4
<1>6. CASE HandleEvent
  <2>1. UNCHANGED <<wire, sent, snapshot>>
    BY <1>6 DEF HandleEvent, poolVars
  <2>2. events # <<>> /\ events' = Tail(events)
    BY <1>6, RouterGoesOn
  <2>3. Failing(sent) => Failing(sent)'
    BY <1>6, HandleEventFails, <2>1 DEF Failing, PairOf
  <2>4. events' # <<>> => events'[Len(events')] = events[Len(events)]
    BY <1>1, <2>2, LastOfTail
  <2> QED BY <1>1, <2>1, <2>2, <2>3, <2>4 DEF AnswerOK, Allocated
<1>7. \/ UNCHANGED <<wire, sent, pbans, events, snapshot>>
      \/ Advertise \/ Apply \/ HandleEvent \/ \E t \in Tasks : Send(t)
  BY DEF Next, Work, Reconcile, SyncNext, PickScheme, Record, Register, HandleRequest, Deliver,
         Leave, capVars, poolVars
<1> QED BY <1>2, <1>3, <1>4, <1>5, <1>6, <1>7

LEMMA WinnerSame ==
  ASSUME WinnerKnown, UNCHANGED <<links, pbans, cbans, crossed, wire, events, last, task>>
  PROVE  WinnerKnown'
<1>1. Winners' = Winners /\ (\A i : SchemeAt(i)' = SchemeAt(i))
  BY DEF Winners, Served, SchemeAt
<1> QED BY <1>1 DEF WinnerKnown, Underway, Unrecorded, PickComing, At

\* There is one winner at most.
LEMMA OneWinner ==
  ASSUME Known, NEW i \in Winners, NEW j \in Winners
  PROVE  i = j
<1>1. i \in Nat /\ j \in Nat
  BY DEF Winners, Served, Known, TrafficOK
<1>2. i <= j /\ j <= i
  BY DEF Winners
<1> QED BY <1>1, <1>2

LEMMA WinnerKept ==
  ASSUME Known, Orderly, WinnerKnown, Next
  PROVE  WinnerKnown'
<1>1. /\ wire \in Seq(Picked) /\ events \in Seq(Event) /\ SentOK
      /\ \A d \in Displays : d \in Tasks
  BY DEF Orderly, Known, TrafficOK, Tasks
<1>2. CASE Advertise \/ Apply
  <2>1. events' # <<>>
    BY <1>1, <1>2, LastOfAppend DEF Advertise, Apply
  <2> QED BY <2>1 DEF WinnerKnown, Underway
<1>3. CASE HandleEvent
  <2>1. PickComing'
    BY <1>3, RouterGoesOn DEF PickComing
  <2> QED BY <2>1 DEF WinnerKnown, Underway
<1>4. ASSUME NEW t \in Tasks, SyncNext(t) PROVE WinnerKnown'
  <2>1. PickComing'
    BY <1>4, SyncGoesOn DEF PickComing
  <2> QED BY <2>1 DEF WinnerKnown, Underway
<1>5. ASSUME NEW t \in Tasks, PickScheme(t) PROVE WinnerKnown'
  <2>1. UNCHANGED <<links, pbans, cbans>>
    BY <1>5 DEF PickScheme, capVars
  <2>2. Winners' = Winners /\ (\A i : SchemeAt(i)' = SchemeAt(i))
    BY <2>1 DEF Winners, Served, SchemeAt
  <2> SUFFICES ASSUME NEW i \in Winners
               PROVE  \E u \in Tasks : At(u, "send")' /\ task'[u].scheme = SchemeAt(i)
    BY <2>2 DEF WinnerKnown
  <2>3. Served # {}
    BY DEF Winners
  <2>4. PICK j \in Winners : At(t, "send")' /\ task'[t].scheme = SchemeAt(j)
    BY <1>5, <2>3, PickGoesOn
  <2> QED BY <2>4, OneWinner
<1>6. ASSUME NEW t \in Tasks, Send(t) PROVE WinnerKnown'
  <2>1. UNCHANGED <<links, pbans, cbans, crossed, events, last>>
    BY <1>6 DEF Send, capVars
  <2>2. Winners' = Winners /\ (\A i : SchemeAt(i)' = SchemeAt(i))
    BY <2>1 DEF Winners, Served, SchemeAt
  <2>3. /\ Alone(t) /\ At(t, "send")
        /\ \/ last = task[t].scheme /\ wire' = wire
           \/ wire' = Append(wire, task[t].scheme)
    BY <1>6, SendGoesOn
  <2>4. CASE wire' = Append(wire, task[t].scheme)
    <3>1. wire' # <<>>
      BY <1>1, <2>4, LastOfAppend
    <3> QED BY <3>1 DEF WinnerKnown, Underway
  <2>5. CASE last = task[t].scheme /\ wire' = wire
    <3> SUFFICES ASSUME NEW i \in Winners
                 PROVE  \/ crossed \/ Underway' \/ last = SchemeAt(i)
                        \/ \E u \in Tasks : At(u, "send")' /\ task'[u].scheme = SchemeAt(i)
      BY <2>1, <2>2 DEF WinnerKnown
    <3>1. Underway => Underway'
      BY <2>1, <2>3, <2>5 DEF Underway, Unrecorded, PickComing, Alone, At
    <3>2. ASSUME NEW u \in Tasks, At(u, "send"), task[u].scheme = SchemeAt(i)
          PROVE  \/ last = SchemeAt(i)
                 \/ At(u, "send")' /\ task'[u].scheme = SchemeAt(i)
      BY <2>3, <2>5, <3>2 DEF Alone, At
    <3> QED BY <3>1, <3>2 DEF WinnerKnown
  <2> QED BY <2>3, <2>4, <2>5
<1>7. ASSUME NEW t \in Tasks, Record(t) PROVE WinnerKnown'
  <2>1. crossed' = (crossed \/ sent # last' \/ Answered) /\ UNCHANGED <<wire, events>>
    BY <1>7, RecordGoesOn DEF Record, poolVars
  <2>2. crossed' \/ Underway'
    BY <2>1 DEF Answered, Underway
  <2> QED BY <2>2 DEF WinnerKnown
<1>8. ASSUME NEW d \in Displays, Register(d) \/ HandleRequest(d) \/ Leave(d) PROVE WinnerKnown'
  <2>1. CASE task'[d].pc \in {"sync", "pick"}
    <3>1. PickComing'
      BY <1>1, <2>1 DEF PickComing
    <3> QED BY <3>1 DEF WinnerKnown, Underway
  <2>2. CASE task'[d].pc \notin {"sync", "pick"}
    <3>1. HandleRequest(d) /\ task' = task /\ cbans' = cbans
      BY <1>8, <2>2, DisplayGoesOn
    <3>2. UNCHANGED <<links, pbans, cbans, crossed, wire, events, last, task>>
      BY <3>1 DEF HandleRequest, poolVars
    <3> QED BY <3>2, WinnerSame
  <2> QED BY <2>1, <2>2
<1>9. ASSUME NEW d \in Displays, Deliver(d) PROVE WinnerKnown'
  <2>1. UNCHANGED <<links, pbans, cbans, crossed, wire, events, last, task>>
    BY <1>9 DEF Deliver, capVars, poolVars
  <2> QED BY <2>1, WinnerSame
<1> QED
  BY <1>2, <1>3, <1>4, <1>5, <1>6, <1>7, <1>8, <1>9 DEF Next, Work, Reconcile

\* What a display that is not on the pool is waiting for.
Waits ==
  \/ crossed \/ wire # <<>> \/ Unrecorded
  \/ snapshot = None \/ ~SchemeSatisfied \/ Failing(last) \/ BindComing

LEMMA LinkedKept ==
  ASSUME Known, Orderly, LinkedAreBound, Next
  PROVE  LinkedAreBound'
<1>1. /\ wire \in Seq(Picked) /\ events \in Seq(Event) /\ SentOK /\ AnswerOK /\ LinksOK /\ HistoryOK
      /\ links \in Seq(Displays) /\ \A d \in Displays : d \in Tasks
  BY DEF Orderly, Known, TrafficOK, Tasks
<1>2. CASE Advertise
  <2>1. /\ pbans = None /\ wire = <<>> /\ ~Unrecorded
        /\ events' = Append(events, [of |-> "caps"])
        /\ UNCHANGED <<links, crossed, wire, snapshot, last, task, bound>>
    BY <1>2 DEF Advertise, Known, Silence, Unrecorded, At, poolVars
  <2>2. crossed \/ last = None
    BY <1>1, <2>1 DEF SentOK
  <2> QED BY <2>1, <2>2 DEF LinkedAreBound, Bound, SchemeSatisfied
<1>3. CASE Apply
  <2>1. UNCHANGED <<links, crossed, last, task, bound, pbans>>
    BY <1>3 DEF Apply, capVars
  <2>2. /\ wire # <<>> /\ wire' = Tail(wire)
        /\ \/ events' = Append(events, [of |-> "bind"])
           \/ /\ snapshot' = snapshot
              /\ events' = Append(events, [of |-> "failed", pair |-> PairOf(Head(wire))])
    BY <1>1, <1>3, ApplySteps
  <2> SUFFICES ASSUME wire' = <<>>
               PROVE  crossed \/ Unrecorded \/ Failing(last)' \/ BindComing'
    BY <2>1 DEF LinkedAreBound, Bound, Unrecorded, At
  <2>3. Head(wire) = sent /\ (crossed \/ Unrecorded \/ last = sent)
    BY <1>1, <2>2, LastOfTail DEF SentOK
  <2>4. CASE events' = Append(events, [of |-> "bind"])
    <3>1. Len(events) + 1 \in DOMAIN events' /\ events'[Len(events) + 1] = [of |-> "bind"]
      BY <1>1, <2>4, LastOfAppend
    <3> QED BY <3>1 DEF BindComing
  <2>5. CASE events' = Append(events, [of |-> "failed", pair |-> PairOf(sent)])
    <3>1. /\ Len(events) + 1 \in DOMAIN events'
          /\ events'[Len(events) + 1] = [of |-> "failed", pair |-> PairOf(sent)]
      BY <1>1, <2>5, LastOfAppend
    <3>2. \E k \in DOMAIN events' : events'[k].of = "failed" /\ events'[k].pair = PairOf(sent)
      BY <3>1
    <3> QED BY <2>1, <2>3, <3>2 DEF Failing, PairOf
  <2> QED BY <2>2, <2>3, <2>4, <2>5
<1>4. ASSUME NEW t \in Tasks, SyncNext(t) PROVE LinkedAreBound'
  <2> DEFINE d == Head(task[t].todo)
  <2>1. UNCHANGED <<links, pbans, crossed, wire, snapshot, last, events>>
    BY <1>4 DEF SyncNext, capVars, poolVars
  <2>2. /\ Alone(t) /\ At(t, "sync") /\ task[t].todo \in Seq(Displays) /\ task[t].todo # <<>>
        /\ task'[t].pc = IF Tail(task[t].todo) = <<>> THEN "pick" ELSE "sync"
        /\ task'[t].todo = Tail(task[t].todo)
    BY <1>4, SyncGoesOn
  <2>3. \/ bound' = bound
           /\ (d \notin Range(links) \/ snapshot = None \/ Gated(d) \/ bound[d] = snapshot.gen)
        \/ d \in Displays /\ bound' = [bound EXCEPT ![d] = snapshot.gen]
    BY <1>1, <1>4, SyncSteps
  <2>4. Waits => Waits'
    BY <2>1, <2>2 DEF Waits, Unrecorded, Alone, At, SchemeSatisfied, Failing, BindComing
  <2> SUFFICES ASSUME NEW i \in DOMAIN links, ~Waits
               PROVE  VisitedThen(links[i]) \/ bound'[links[i]] = snapshot.gen
    <3>1. \A i \in DOMAIN links : Waits' \/ VisitedThen(links[i]) \/ bound'[links[i]] = snapshot.gen
      BY <2>4
    <3> QED BY <2>1, <3>1 DEF LinkedAreBound, Bound, Waits, Visited, VisitedThen, At
  <2> DEFINE x == links[i]
  <2>5. x \in Displays /\ x \in Range(links) /\ (Visited(x) \/ bound[x] = snapshot.gen)
    BY <1>1 DEF LinkedAreBound, Bound, Waits, Range
  <2>6. x = d => bound'[x] = snapshot.gen
    BY <1>1, <2>3, <2>5 DEF Waits, Gated, HistoryOK
  <2>7. bound[x] = snapshot.gen => bound'[x] = snapshot.gen
    BY <1>1, <2>3, <2>5 DEF HistoryOK
  <2>8. ASSUME x # d, Visited(x) PROVE VisitedThen(x)
    <3> HIDE DEF d, x
    <3>1. PICK u \in Tasks : At(u, "sync") /\ \E k \in DOMAIN task[u].todo : task[u].todo[k] = x
      BY <2>8 DEF Visited
    <3>2. CASE u # t
      BY <2>2, <3>1, <3>2 DEF Visited, VisitedThen, Alone, At
    <3>3. CASE u = t
      <4>1. PICK k \in DOMAIN task[t].todo : task[t].todo[k] = x
        BY <3>1, <3>3
      <4>2. task[t].todo[1] = d
        BY <2>2, LastOfTail DEF d
      <4>3. k # 1
        BY <2>8, <4>1, <4>2
      <4>4. k - 1 \in DOMAIN Tail(task[t].todo) /\ Tail(task[t].todo)[k - 1] = x
        BY <2>2, <4>1, <4>3, LastOfTail
      <4>5. Tail(task[t].todo) # <<>>
        <5>1. DOMAIN << >> = {}
          OBVIOUS
        <5> QED BY <4>4, <5>1
      <4> QED BY <2>2, <4>4, <4>5 DEF Visited, VisitedThen, At
    <3> QED BY <3>2, <3>3
  <2> QED BY <2>1, <2>5, <2>6, <2>7, <2>8 DEF Visited, VisitedThen, At
<1>5. ASSUME NEW t \in Tasks, PickScheme(t) \/ Send(t) PROVE LinkedAreBound'
  <2>1. UNCHANGED <<links, pbans, crossed, snapshot, last, events, bound>>
    BY <1>5 DEF PickScheme, Send, capVars, poolVars
  <2>2. Alone(t) /\ ~At(t, "record") /\ ~At(t, "sync")
    BY <1>5, PickGoesOn, SendGoesOn DEF At
  <2>3. wire' = wire \/ wire' # <<>>
    <3>1. ASSUME NEW s, wire' = Append(wire, s) PROVE wire' # <<>>
      BY <1>1, <3>1, LastOfAppend
    <3> QED BY <1>5, <3>1 DEF PickScheme, Send, poolVars
  <2>4. (Unrecorded => Unrecorded') /\ \A x : Visited(x) => VisitedThen(x)
    BY <2>2, OthersStay
  <2> QED BY <2>1, <2>3, <2>4
       DEF LinkedAreBound, Bound, SchemeSatisfied, Failing, BindComing, Visited, VisitedThen, At
<1>6. ASSUME NEW t \in Tasks, Record(t) PROVE LinkedAreBound'
  <2>1. UNCHANGED <<links, pbans, wire, snapshot, events, bound>>
    BY <1>6 DEF Record, capVars, poolVars
  <2>2. crossed' = (crossed \/ sent # last' \/ Answered) /\ last' \in Picked
    BY <1>6, RecordGoesOn
  <2> SUFFICES ASSUME ~crossed', wire = <<>>
               PROVE  Failing(last)' \/ BindComing'
    BY <2>1 DEF LinkedAreBound, Bound
  <2>3. sent = last' /\ sent # None /\ events # <<>>
    BY <2>2, NoneIsNoScheme DEF Answered
  <2>4. Failing(sent) \/ events[Len(events)].of = "bind"
    BY <1>1, <2>3 DEF AnswerOK
  <2>5. events[Len(events)].of = "bind" => BindComing
    <3>1. Len(events) \in DOMAIN events
      BY <1>1, <2>3
    <3> QED BY <3>1 DEF BindComing
  <2>6. (Failing(sent) => Failing(last)') /\ (BindComing => BindComing')
    BY <2>1, <2>3 DEF Failing, BindComing, PairOf
  <2> QED BY <2>4, <2>5, <2>6
<1>7. CASE HandleEvent
  <2>1. UNCHANGED <<links, crossed, wire, snapshot, last, bound>>
    BY <1>7 DEF HandleEvent, poolVars
  <2>2. /\ Alone(Router) /\ At(Router, "idle") /\ Router \in Tasks
        /\ events # <<>> /\ events' = Tail(events)
        /\ (Head(events).of = "bind" /\ links # <<>>) =>
              task'[Router].pc = "sync" /\ task'[Router].todo = links
    BY <1>7, RouterGoesOn
  <2>3. (Unrecorded => Unrecorded') /\ \A x : Visited(x) => VisitedThen(x)
    BY <2>2, OthersStay DEF At
  <2>4. Failing(last) => Failing(last)'
    BY <1>7, HandleEventFails, <2>1 DEF Failing, PairOf
  <2>5. SchemeSatisfied' = SchemeSatisfied
    BY <2>1 DEF SchemeSatisfied, PairOf
  <2>6. ASSUME BindComing, NEW i \in DOMAIN links PROVE BindComing' \/ VisitedThen(links[i])
    <3>1. PICK k \in DOMAIN events : events[k].of = "bind"
      BY <2>6 DEF BindComing
    <3>2. CASE k = 1
      <4>1. Head(events).of = "bind"
        BY <1>1, <2>2, <3>1, <3>2, LastOfTail
      <4>2. links # <<>>
        <5>1. DOMAIN << >> = {}
          OBVIOUS
        <5> QED BY <2>6, <5>1
      <4> QED BY <2>1, <2>2, <2>6, <4>1, <4>2 DEF Visited, VisitedThen, At
    <3>3. CASE k # 1
      <4>1. k - 1 \in DOMAIN events' /\ events'[k - 1] = events[k]
        BY <1>1, <2>2, <3>3, LastOfTail
      <4> QED BY <3>1, <4>1 DEF BindComing
    <3> QED BY <3>2, <3>3
  <2>7. \A i \in DOMAIN links : Visited(links[i]) => VisitedThen(links[i])
    BY <2>1, <2>3 DEF Visited, VisitedThen, At
  <2> QED BY <2>1, <2>3, <2>4, <2>5, <2>6, <2>7
       DEF LinkedAreBound, Bound, Visited, VisitedThen, At
<1>8. ASSUME NEW d \in Displays, Register(d) \/ HandleRequest(d) \/ Leave(d) PROVE LinkedAreBound'
  <2>1. UNCHANGED <<pbans, crossed, wire, snapshot, last, events>>
    BY <1>8 DEF Register, HandleRequest, Leave, capVars, poolVars
  <2>2. /\ Alone(d) /\ d \in Tasks /\ ~At(d, "record") /\ ~At(d, "sync")
        /\ Register(d) => /\ At(d, "away") /\ task'[d].pc = "sync" /\ task'[d].todo = <<d>>
    BY <1>8, DisplayGoesOn DEF At
  <2>3. (Unrecorded => Unrecorded') /\ \A x : Visited(x) => VisitedThen(x)
    BY <2>2, OthersStay
  <2>4. Waits => Waits'
    BY <2>1, <2>3 DEF Waits, SchemeSatisfied, Failing, BindComing
  <2>5. ASSUME NEW j \in DOMAIN links'
        PROVE  \/ VisitedThen(links'[j])
               \/ \E i \in DOMAIN links : links'[j] = links[i] /\ bound'[links[i]] = bound[links[i]]
    <3>1. CASE Register(d)
      <4>1. links' = Append(links, d) /\ bound' = bound
        BY <3>1 DEF Register
      <4>2. (j \in DOMAIN links /\ links'[j] = links[j]) \/ links'[j] = d
        BY <1>1, <4>1, LastOfAppend
      <4>3. links'[j] = d => VisitedThen(links'[j])
        BY <2>2, <3>1 DEF Visited, VisitedThen, At
      <4> QED BY <4>1, <4>2, <4>3
    <3>2. CASE HandleRequest(d)
      BY <3>2 DEF HandleRequest
    <3>3. CASE Leave(d)
      <4>1. bound' = [bound EXCEPT ![d] = None]
        BY <3>3 DEF Leave
      <4>2. links'[j] # d /\ \E i \in DOMAIN links : links'[j] = links[i]
        BY <1>1, <3>3, LeaveLinks
      <4> QED BY <1>1, <4>1, <4>2 DEF HistoryOK
    <3> QED BY <1>8, <3>1, <3>2, <3>3
  <2>6. \A j \in DOMAIN links' : Waits' \/ VisitedThen(links'[j]) \/ bound'[links'[j]] = snapshot'.gen
    <3> SUFFICES ASSUME NEW j \in DOMAIN links', ~Waits
                 PROVE  VisitedThen(links'[j]) \/ bound'[links'[j]] = snapshot'.gen
      BY <2>4
    <3>1. CASE VisitedThen(links'[j])
      BY <3>1
    <3>2. ASSUME NEW i \in DOMAIN links, links'[j] = links[i], bound'[links[i]] = bound[links[i]]
          PROVE  VisitedThen(links'[j]) \/ bound'[links'[j]] = snapshot'.gen
      <4>1. Visited(links[i]) \/ bound[links[i]] = snapshot.gen
        BY DEF LinkedAreBound, Bound, Waits
      <4>2. Visited(links[i]) => VisitedThen(links'[j])
        BY <2>3, <3>2 DEF Visited, VisitedThen, At
      <4> QED BY <2>1, <3>2, <4>1, <4>2
    <3> QED BY <2>5, <3>1, <3>2
  <2> QED BY <2>6 DEF LinkedAreBound, Bound, Waits, Visited, VisitedThen, At
<1>9. ASSUME NEW d \in Displays, Deliver(d) PROVE LinkedAreBound'
  <2>1. UNCHANGED <<links, pbans, crossed, wire, snapshot, last, events, bound, task>>
    BY <1>9 DEF Deliver, capVars, poolVars
  <2> QED BY <2>1 DEF LinkedAreBound, Bound, Unrecorded, SchemeSatisfied, Failing, BindComing, Visited, At
<1> QED
  BY <1>2, <1>3, <1>4, <1>5, <1>6, <1>7, <1>8, <1>9 DEF Next, Work, Reconcile

\* Refuses, after the step.
RefusesThen(d, pair) ==
  \/ \E k \in DOMAIN inbox'[d] : inbox'[d][k].of = "failed" /\ inbox'[d][k].pair = pair
  \/ IF cbans'[d] = None THEN \A k \in DOMAIN inbox'[d] : inbox'[d][k].of # "caps"
     ELSE pair \in cbans'[d]

LEMMA ShownKept ==
  ASSUME Known, Orderly, BoundAreShown, Next
  PROVE  BoundAreShown'
<1>1. /\ HistoryOK /\ BoundOK /\ BoxesOK /\ \A d \in Displays : d \in Tasks
      /\ inbox \in [Displays -> Seq(Request)] /\ outbox \in [Displays -> Seq({"bind", "unbind"})]
      /\ cbans \in [Displays -> {None} \cup SUBSET Pairs]
  BY DEF Orderly, Known, TrafficOK, RefusalsOK, Tasks
<1>2. CASE UNCHANGED <<snapshot, bound, outbox, shown, inbox, cbans>>
  BY <1>2 DEF BoundAreShown, Refuses
<1>3. CASE Apply
  <2>1. UNCHANGED <<bound, outbox, shown, inbox, cbans>>
    BY <1>3 DEF Apply, capVars, displayVars
  <2>2. CASE snapshot' = snapshot
    BY <1>2, <2>1, <2>2
  <2>3. CASE /\ snapshot' \in Pool
             /\ snapshot # None => snapshot \in Pool /\ snapshot'.gen = snapshot.gen + 1
    <3>1. ASSUME NEW d \in Displays PROVE bound'[d] # snapshot'.gen
      <4>1. bound'[d] = bound[d] /\ bound[d] \in {None} \cup Nat
        BY <1>1, <2>1 DEF HistoryOK
      <4>2. snapshot'.gen \in Nat /\ snapshot'.gen # None
        BY <2>3, NoneIsNoScheme DEF Pool
      <4>3. bound[d] # None =>
              snapshot # None /\ bound[d] <= snapshot.gen /\ snapshot.gen \in Nat
        BY <1>1, <2>3 DEF BoundOK, Pool
      <4> QED BY <2>3, <4>1, <4>2, <4>3
    <3> QED BY <3>1 DEF BoundAreShown
  <2> QED BY <1>1, <1>3, <2>2, <2>3, ApplySteps
<1>4. ASSUME NEW t \in Tasks, SyncNext(t) PROVE BoundAreShown'
  <2>1. UNCHANGED <<snapshot, shown, inbox, cbans>>
    BY <1>4 DEF SyncNext, capVars, poolVars
  <2>2. \/ bound' = bound /\ outbox' = outbox
        \/ \E d \in Displays, q \in Seq({"bind", "unbind"}) :
             /\ bound' = [bound EXCEPT ![d] = snapshot.gen]
             /\ outbox' = [outbox EXCEPT ![d] = q \o <<"bind">>]
    BY <1>1, <1>4, SyncSteps
  <2>3. CASE bound' = bound /\ outbox' = outbox
    BY <1>2, <2>1, <2>3
  <2>4. ASSUME NEW d \in Displays, NEW q \in Seq({"bind", "unbind"}),
               bound' = [bound EXCEPT ![d] = snapshot.gen],
               outbox' = [outbox EXCEPT ![d] = q \o <<"bind">>]
        PROVE  BoundAreShown'
    <3>1. outbox'[d] # <<>>
      <4>1. Len(q \o <<"bind">>) # 0
        OBVIOUS
      <4> QED BY <1>1, <2>4, <4>1
    <3>2. \A x \in Displays : x # d => bound'[x] = bound[x] /\ outbox'[x] = outbox[x]
      BY <1>1, <2>4 DEF HistoryOK
    <3> QED BY <2>1, <3>1, <3>2 DEF BoundAreShown, Refuses
  <2> QED BY <2>2, <2>3, <2>4
<1>5. ASSUME NEW d \in Displays, Register(d) PROVE BoundAreShown'
  <2>1. /\ UNCHANGED <<snapshot, bound, outbox, shown, cbans>> /\ At(d, "away")
        /\ \A x \in Displays : x # d => inbox'[x] = inbox[x]
    BY <1>1, <1>5 DEF Register, capVars, poolVars
  <2>2. bound[d] = None
    BY <1>1, <2>1 DEF BoundOK
  <2>3. snapshot # None => bound[d] # snapshot.gen
    BY <1>1, <2>2, NoneIsNoScheme DEF HistoryOK, Pool
  <2> QED BY <2>1, <2>3 DEF BoundAreShown, Refuses
<1>6. ASSUME NEW d \in Displays, HandleRequest(d) PROVE BoundAreShown'
  <2> DEFINE q == Head(inbox[d])
  <2>1. /\ UNCHANGED <<snapshot, bound, outbox, shown>>
        /\ inbox[d] \in Seq(Request) /\ inbox[d] # <<>> /\ inbox'[d] = Tail(inbox[d])
        /\ \A x \in Displays : x # d => inbox'[x] = inbox[x]
    BY <1>1, <1>6 DEF HandleRequest, poolVars
  <2>2. /\ q \in Request /\ q.of \in {"caps", "failed"}
        /\ 1 \in DOMAIN inbox[d] /\ inbox[d][1] = q
        /\ \A k \in DOMAIN inbox[d] : k # 1 => k - 1 \in DOMAIN inbox'[d] /\ inbox'[d][k - 1] = inbox[d][k]
        /\ \A k \in DOMAIN inbox'[d] : k \in Nat /\ k + 1 \in DOMAIN inbox[d] /\ inbox'[d][k] = inbox[d][k + 1]
    BY <2>1, LastOfTail, RequestKinds
  <2> HIDE DEF q
  <2>3. /\ q.of = "caps" => cbans' = [cbans EXCEPT ![d] = {}]
        /\ q.of = "failed" => IF cbans[d] = None THEN cbans' = cbans
                              ELSE cbans' = [cbans EXCEPT ![d] = cbans[d] \cup {q.pair}]
    BY <1>6 DEF HandleRequest, q
  <2>4. \A x \in Displays : x # d => cbans'[x] = cbans[x]
    BY <1>1, <2>2, <2>3
  <2>5. ASSUME NEW pair, Refuses(d, pair) PROVE RefusesThen(d, pair)
    <3>1. CASE q.of = "caps"
      <4>1. cbans[d] = None /\ cbans'[d] = {}
        BY <1>1, <2>2, <2>3, <3>1 DEF BoxesOK, CapsFirst
      <4>2. PICK k \in DOMAIN inbox[d] : inbox[d][k].of = "failed" /\ inbox[d][k].pair = pair
        BY <2>2, <2>5, <3>1, <4>1 DEF Refuses, RefusesThen
      <4>3. k # 1
        BY <2>2, <3>1, <4>2
      <4> QED BY <2>2, <4>2, <4>3 DEF Refuses, RefusesThen
    <3>2. CASE q.of = "failed" /\ cbans[d] = None
      <4>1. \A k \in DOMAIN inbox'[d] : inbox'[d][k].of # "caps"
        <5>1. \A k \in DOMAIN inbox'[d] : k \in Nat /\ k + 1 # 1 /\ k + 1 \in DOMAIN inbox[d]
          BY <2>1, <2>2
        <5> QED BY <1>1, <2>2, <5>1 DEF BoxesOK, CapsFirst
      <4> QED BY <2>3, <3>2, <4>1 DEF Refuses, RefusesThen
    <3>3. CASE q.of = "failed" /\ cbans[d] # None
      <4>1. cbans'[d] = cbans[d] \cup {q.pair} /\ cbans'[d] # None
        <5>1. cbans'[d] = cbans[d] \cup {q.pair} /\ cbans[d] \in SUBSET Pairs
          BY <1>1, <2>3, <3>3
        <5>2. q.pair \in Pairs
          BY <2>2, <3>3, Failures
        <5>3. cbans'[d] \in SUBSET Pairs
          BY <5>1, <5>2
        <5> QED BY <5>1, <5>3, NoneAssumption
      <4>2. CASE pair \in cbans[d]
        BY <4>1, <4>2 DEF Refuses, RefusesThen
      <4>3. ASSUME NEW k \in DOMAIN inbox[d], inbox[d][k].of = "failed", inbox[d][k].pair = pair
            PROVE  RefusesThen(d, pair)
        <5>1. CASE k = 1
          BY <2>2, <4>1, <4>3, <5>1 DEF Refuses, RefusesThen
        <5>2. CASE k # 1
          BY <2>2, <4>3, <5>2 DEF Refuses, RefusesThen
        <5> QED BY <5>1, <5>2
      <4> QED BY <2>5, <3>3, <4>2, <4>3 DEF Refuses, RefusesThen
    <3> QED BY <2>2, <3>1, <3>2, <3>3
  <2>6. \A pair : Refuses(d, pair) => RefusesThen(d, pair)
    BY <2>5
  <2> QED BY <2>1, <2>4, <2>6 DEF BoundAreShown, Refuses, RefusesThen
<1>7. ASSUME NEW d \in Displays, Deliver(d) PROVE BoundAreShown'
  <2>1. UNCHANGED <<snapshot, bound, cbans>>
    BY <1>7 DEF Deliver, capVars, poolVars
  <2> DEFINE r == [of |-> "failed", pair |-> snapshot.pair]
  <2>2. /\ outbox' = [outbox EXCEPT ![d] = Tail(outbox[d])]
        /\ \/ shown' = [shown EXCEPT ![d] = None] /\ inbox' = inbox /\ outbox'[d] # <<>>
           \/ shown' = [shown EXCEPT ![d] = snapshot] /\ inbox' = inbox
           \/ shown' = [shown EXCEPT ![d] = None] /\ inbox' = [inbox EXCEPT ![d] = Append(inbox[d], r)]
    BY <1>1, <1>7, DeliverSteps
  <2>3. r.of = "failed" /\ r.pair = snapshot.pair
    OBVIOUS
  <2> HIDE DEF r
  <2>4. \A x \in Displays : x # d => outbox'[x] = outbox[x] /\ shown'[x] = shown[x] /\ inbox'[x] = inbox[x]
    BY <1>1, <2>2 DEF HistoryOK
  <2>5. \/ outbox'[d] # <<>> \/ shown'[d] = snapshot
        \/ \E k \in DOMAIN inbox'[d] : inbox'[d][k].of = "failed" /\ inbox'[d][k].pair = snapshot.pair
    <3>1. CASE inbox' = [inbox EXCEPT ![d] = Append(inbox[d], r)]
      <4>1. inbox'[d] = Append(inbox[d], r) /\ inbox[d] \in Seq(Request)
        BY <1>1, <3>1
      <4>2. Len(inbox[d]) + 1 \in DOMAIN inbox'[d] /\ inbox'[d][Len(inbox[d]) + 1] = r
        BY <4>1, LastOfAppend
      <4> QED BY <2>3, <4>2
    <3>2. CASE shown' = [shown EXCEPT ![d] = snapshot]
      BY <1>1, <3>2 DEF HistoryOK
    <3> QED BY <2>2, <3>1, <3>2
  <2> QED BY <2>1, <2>4, <2>5 DEF BoundAreShown, Refuses
<1>8. ASSUME NEW d \in Displays, Leave(d) PROVE BoundAreShown'
  <2>1. /\ snapshot' = snapshot /\ bound'[d] = None
        /\ \A x \in Displays : x # d => /\ outbox'[x] = outbox[x] /\ shown'[x] = shown[x]
                                        /\ inbox'[x] = inbox[x] /\ cbans'[x] = cbans[x]
                                        /\ bound'[x] = bound[x]
    BY <1>1, <1>8 DEF Leave, HistoryOK, poolVars
  <2>2. snapshot # None => bound'[d] # snapshot.gen
    BY <1>1, <2>1, NoneIsNoScheme DEF HistoryOK, Pool
  <2> QED BY <2>1, <2>2 DEF BoundAreShown, Refuses
<1>9. \/ UNCHANGED <<snapshot, bound, outbox, shown, inbox, cbans>>
      \/ Apply \/ (\E t \in Tasks : SyncNext(t))
      \/ \E d \in Displays : Register(d) \/ HandleRequest(d) \/ Deliver(d) \/ Leave(d)
  BY DEF Next, Work, Reconcile, Advertise, HandleEvent, PickScheme, Send, Record,
         capVars, displayVars, poolVars
<1> QED BY <1>2, <1>3, <1>4, <1>5, <1>6, <1>7, <1>8, <1>9

-----------------------------------------------------------------------------

LEMMA ServingInit == Init => Serving
<1> SUFFICES ASSUME Init PROVE Serving
  OBVIOUS
<1>1. /\ pbans = None /\ links = <<>> /\ snapshot = None /\ last = None /\ wire = <<>> /\ events = <<>>
      /\ sent = None /\ crossed = FALSE
      /\ cbans = [d \in Displays |-> None] /\ bound = [d \in Displays |-> None]
      /\ outbox = [d \in Displays |-> <<>>] /\ inbox = [d \in Displays |-> <<>>]
      /\ shown = [d \in Displays |-> None]
  BY DEF Init
<1>2. DOMAIN << >> = {}
  OBVIOUS
<1>3. HistoryOK
  BY <1>1 DEF HistoryOK, MaybeScheme
<1>4. LinksOK /\ LinkedAreBound
  BY <1>1, <1>2 DEF LinksOK, LinkedAreBound
<1>5. BoundOK /\ BoundAreShown
  BY <1>1 DEF BoundOK, BoundAreShown
<1>6. BoxesOK
  BY <1>1, <1>2 DEF BoxesOK, CapsFirst, EndsInBind
<1>7. SentOK /\ AnswerOK
  BY <1>1 DEF SentOK, AnswerOK
<1>8. WinnerKnown
  BY <1>1, <1>2 DEF WinnerKnown, Winners, Served
<1> QED BY <1>3, <1>4, <1>5, <1>6, <1>7, <1>8 DEF Serving, Orderly

LEMMA ServingNext ==
  ASSUME Known, Serving, [Next]_vars
  PROVE  Serving'
<1>1. Orderly /\ WinnerKnown /\ LinkedAreBound /\ BoundAreShown
  BY DEF Serving
<1>2. CASE Next
  <2>1. Orderly'
    BY <1>1, <1>2, HistoryKept, LinksKept, BoundKept, BoxesKept, SentKept, AnswerKept DEF Orderly
  <2> QED BY <1>1, <1>2, <2>1, WinnerKept, LinkedKept, ShownKept DEF Serving
<1>3. CASE UNCHANGED vars
  <2>1. UNCHANGED <<pbans, cbans, links, bound, snapshot, last, wire, events, outbox, inbox, shown,
                    task, sent, crossed>>
    BY <1>3 DEF vars, capVars, poolVars, displayVars
  <2>2. HistoryOK' /\ LinksOK' /\ BoundOK' /\ BoxesOK' /\ SentOK' /\ AnswerOK'
    BY <1>1, <2>1 DEF Orderly, HistoryOK, LinksOK, BoundOK, BoxesOK, CapsFirst, EndsInBind, SentOK,
       AnswerOK, Unrecorded, Failing, Allocated, At
  <2>3. WinnerKnown'
    BY <1>1, <2>1, WinnerSame
  <2>4. LinkedAreBound'
    BY <1>1, <2>1
       DEF LinkedAreBound, Bound, Unrecorded, SchemeSatisfied, Failing, BindComing, Visited, At
  <2>5. BoundAreShown'
    BY <1>1, <2>1 DEF BoundAreShown, Refuses
  <2> QED BY <2>2, <2>3, <2>4, <2>5 DEF Serving, Orderly
<1> QED BY <1>2, <1>3

LEMMA ServingServes ==
  ASSUME Known, Serving
  PROVE  WinnerIsServed
<1> SUFFICES ASSUME Quiet, ~crossed, NEW i \in Winners
             PROVE  /\ shown[links[i]] # None
                    /\ shown[links[i]].pair = PairOf(SchemeAt(i))
  BY DEF WinnerIsServed
<1>1. /\ Orderly /\ WinnerKnown /\ LinkedAreBound /\ BoundAreShown
      /\ HistoryOK /\ SentOK /\ AnswerOK
  BY DEF Serving, Orderly
<1>2. /\ pbans # None /\ wire = <<>> /\ events = <<>>
      /\ \A t \in Tasks : task[t].pc \in {"idle", "away"}
      /\ \A d \in Displays : inbox[d] = <<>> /\ outbox[d] = <<>>
  BY DEF Quiet
<1>3. i \in Served /\ i \in DOMAIN links /\ cbans[links[i]] # None /\ links[i] \in Displays
  BY DEF Winners, Served, Known, TrafficOK
<1>4. ~Unrecorded /\ ~PickComing /\ \A t \in Tasks : ~At(t, "send")
  BY <1>2 DEF Unrecorded, PickComing, At
<1>5. last = SchemeAt(i)
  BY <1>1, <1>2, <1>4 DEF WinnerKnown, Underway
<1>6. sent = SchemeAt(i) /\ sent \in Picked /\ sent # None
  <2>1. SchemeAt(i) \in Picked
    BY <1>3, SchemeAtPicked DEF Known
  <2> QED BY <1>1, <1>4, <1>5, <2>1, NoneIsNoScheme DEF SentOK
<1>7. PairOf(sent) \notin pbans /\ PairOf(sent) \notin cbans[links[i]]
  <2>1. IsUsable(Producer(pbans), Consumer(links[i], cbans[links[i]]), sent)
    BY <1>3, <1>6, KnownUsable DEF PicksAreUsable
  <2>2. Producer(pbans).black = pbans /\ Consumer(links[i], cbans[links[i]]).black = cbans[links[i]]
    BY <1>3, PeersAssumption DEF Producer, Consumer, IsPeer, PeerCaps
  <2> QED BY <2>1, <2>2 DEF IsUsable, Bans, PairOf
<1>8. DOMAIN << >> = {}
  OBVIOUS
<1>9. ~Failing(sent) /\ ~Failing(last) /\ ~BindComing
  BY <1>2, <1>5, <1>6, <1>7, <1>8 DEF Failing, BindComing
<1>10. snapshot # None /\ snapshot.pair = PairOf(sent)
  BY <1>1, <1>2, <1>6, <1>9 DEF AnswerOK, Allocated
<1>11. SchemeSatisfied
  BY <1>5, <1>6, <1>10 DEF SchemeSatisfied
<1>12. bound[links[i]] = snapshot.gen
  <2>1. ~Visited(links[i])
    BY <1>2 DEF Visited, At
  <2> QED BY <1>1, <1>2, <1>3, <1>4, <1>9, <1>10, <1>11, <2>1 DEF LinkedAreBound, Bound
<1>13. shown[links[i]] = snapshot
  <2>1. ~Refuses(links[i], snapshot.pair)
    BY <1>2, <1>3, <1>7, <1>8, <1>10 DEF Refuses
  <2> QED BY <1>1, <1>2, <1>3, <1>10, <1>12, <2>1 DEF BoundAreShown
<1> QED BY <1>6, <1>10, <1>13

\* Once all is quiet the winner is served, for any number of displays, formats,
\* pools, departures and tasks that race: the display the last scheme was
\* picked for shows a pool of that scheme, unless a dispatch was recorded after
\* its answer was taken up or after a later dispatch (router.rs,
\* reconcile_buffer_flags; renderer_manager.rs, send_negotiate_buffers).
THEOREM NegotiationWinnerIsServed == Spec => []WinnerIsServed
<1>1. Spec => []Serving
  BY NegotiationKnown, ServingInit, ServingNext, PTL DEF Spec
<1> QED
  BY <1>1, NegotiationKnown, ServingServes, PTL

=============================================================================
