---------------------------- MODULE RouterProofs ----------------------------
(***************************************************************************)
(* What the router guarantees for any number of displays, renderers and    *)
(* tasks, with crashes, kills and disconnections at any point.             *)
(***************************************************************************)
EXTENDS Router, SequenceTheorems, TLAPS

(* Every BindBuffers event stands for a pool that was published: the       *)
(* event counters stay within the bound of the pools.                      *)
EventsBounded == \A r \in Renderers : events[r] <= pool[r]

\* TypeOK, in parts.
TodoOK == todo \in [Tasks -> Seq(Op)]
CutOK == cut \subseteq Displays
TableOK ==
  /\ registered \subseteq Renderers
  /\ link \in [Displays -> Renderers \cup {NoRenderer}]
  /\ present \subseteq Displays
  /\ seen \subseteq Displays
  /\ bound \in [Displays -> Pool \cup {NoPool}]
  /\ timers \subseteq Renderers
  /\ tracked \subseteq Renderers
  /\ pending \subseteq Renderers \X Displays \X Generations
  /\ owed \in [Displays -> Seq(Owed)]
  /\ caps \subseteq Displays
ManagerOK ==
  /\ managed \subseteq Renderers
  /\ used \subseteq Renderers
  /\ running \subseteq Renderers
  /\ dead \subseteq Renderers
  /\ pool \in [Renderers -> 0..MaxGeneration]
  /\ scheme \in [Renderers -> {"legacy", "unmet", "met"}]
  /\ awaited \subseteq Renderers
  /\ recording \subseteq Renderers
  /\ subscribed \subseteq Renderers
  /\ events \in [Renderers -> 0..MaxGeneration]
  /\ applies \in 0..MaxApplies

LEMMA TypeParts == TypeOK <=> TableOK /\ ManagerOK /\ TodoOK /\ CutOK
BY DEF TypeOK, TableOK, ManagerOK, TodoOK, CutOK

-----------------------------------------------------------------------------
(* Task lists.                                                             *)

LEMMA TaskNames ==
  /\ \A a \in Appliers : Apply(a) \in Tasks
  /\ \A d \in Displays : Endpoint(d) \in Tasks
  /\ \A r \in Renderers : Events(r) \in Tasks /\ Timer(r) \in Tasks
  /\ Reaper \in Tasks
BY DEF Tasks

\* A loop over displays and renderers is a task list; some operations are on
\* exactly one renderer.
LEMMA LoopType ==
  ASSUME NEW name \in OpNames, NEW ds \in SUBSET Displays, NEW rs \in SUBSET Renderers,
         name \in {"attach", "register", "relink"} => \E r \in Renderers : rs = {r}
  PROVE  Loop(name, ds, rs) \in Seq(Op)
<1>1. [op |-> name, ds |-> ds, rs |-> rs] \in Op
  BY DEF Op
<1> QED
  BY <1>1 DEF Loop

LEMMA SyncAllType == ASSUME NEW ds \in SUBSET Displays PROVE SyncAll(ds) \in Seq(Op)
BY LoopType DEF SyncAll, OpNames

LEMMA ForAllType ==
  ASSUME NEW name \in OpNames, NEW rs \in SUBSET Renderers,
         name \in {"attach", "register", "relink"} => \E r \in Renderers : rs = {r}
  PROVE  ForAll(name, rs) \in Seq(Op)
BY LoopType DEF ForAll

LEMMA EmptyType == <<>> \in Seq(Op)
OBVIOUS

LEMMA ConcatType ==
  ASSUME NEW p \in Seq(Op), NEW q \in Seq(Op) PROVE p \o q \in Seq(Op)
OBVIOUS

\* The operation a task is at, and the rest of its list.
LEMMA RunningType ==
  ASSUME TodoOK, NEW t \in Tasks, NEW name \in OpNames, Running(t, name)
  PROVE  /\ Head(todo[t]) \in Op /\ Head(todo[t]).op = name
         /\ Head(todo[t]).ds \in SUBSET Displays
         /\ Head(todo[t]).rs \in SUBSET Renderers
         /\ Tail(todo[t]) \in Seq(Op)
<1>1. todo[t] \in Seq(Op) /\ todo[t] # <<>>
  BY DEF TodoOK, Running
<1>2. Head(todo[t]) \in Op /\ Tail(todo[t]) \in Seq(Op)
  BY <1>1
<1> QED
  BY <1>2 DEF Running, Op

LEMMA GoesType ==
  ASSUME TodoOK, NEW t \in Tasks, NEW ops \in Seq(Op), Goes(t, ops)
  PROVE  TodoOK'
BY DEF TodoOK, Goes

\* unregister_renderer: the renderer's event task ends, the caller goes on.
LEMMA RemoveType ==
  ASSUME TodoOK, NEW t \in Tasks, NEW r \in Renderers, NEW then \in Seq(Op),
         Remove(t, r, then)
  PROVE  TodoOK'
<1>1. SyncAll(Audience(r)) \in Seq(Op)
  BY SyncAllType DEF Audience
<1>2. SyncAll(Audience(r)) \o then \in Seq(Op)
  BY <1>1, ConcatType
<1>3. CASE r \in registered
  <2> DEFINE ops == SyncAll(Audience(r)) \o then
  <2>1. todo' = [todo EXCEPT ![Events(r)] = <<>>, ![t] = ops]
    BY <1>3 DEF Remove
  <2>2. ops \in Seq(Op) /\ <<>> \in Seq(Op) /\ Events(r) \in Tasks
    BY <1>2, TaskNames
  <2> HIDE DEF ops
  <2> QED
    BY <2>1, <2>2 DEF TodoOK
<1>4. CASE r \notin registered
  BY <1>2, <1>4, GoesType DEF Remove
<1> QED
  BY <1>3, <1>4

LEMMA TodoTaskStep ==
  ASSUME TodoOK, TableOK, ManagerOK, NEW t \in Tasks, TaskStep(t)
  PROVE  TodoOK'
<1> USE DEF OpNames
<1>1. CASE Sync(t)
  <2>1. PICK d \in Head(todo[t]).ds :
          Goes(t, SyncAll(Head(todo[t]).ds \ {d}) \o Tail(todo[t]))
    BY <1>1 DEF Sync
  <2>2. SyncAll(Head(todo[t]).ds \ {d}) \in Seq(Op) /\ Tail(todo[t]) \in Seq(Op)
    BY <1>1, RunningType, SyncAllType DEF Sync
  <2> QED
    BY <2>1, <2>2, ConcatType, GoesType
<1>2. CASE Unregister(t)
  <2>1. PICK r \in Head(todo[t]).rs :
          Remove(t, r, ForAll("unregister", Head(todo[t]).rs \ {r}) \o Tail(todo[t]))
    BY <1>2 DEF Unregister
  <2>2. /\ r \in Renderers /\ Tail(todo[t]) \in Seq(Op)
        /\ ForAll("unregister", Head(todo[t]).rs \ {r}) \in Seq(Op)
    BY <1>2, RunningType, ForAllType DEF Unregister
  <2> QED
    BY <2>1, <2>2, ConcatType, RemoveType
<1>3. CASE Reap(t)
  <2>1. PICK r \in Head(todo[t]).rs :
          Remove(t, r, ForAll("kill", {r}) \o ForAll("reap", Head(todo[t]).rs \ {r})
                         \o Tail(todo[t]))
    BY <1>3 DEF Reap
  <2>2. /\ r \in Renderers /\ Tail(todo[t]) \in Seq(Op)
        /\ ForAll("reap", Head(todo[t]).rs \ {r}) \in Seq(Op)
    BY <1>3, RunningType, ForAllType DEF Reap
  <2>3. ForAll("kill", {r}) \in Seq(Op)
    BY <2>2, ForAllType
  <2> QED
    BY <2>1, <2>2, <2>3, ConcatType, RemoveType
<1>4. CASE ScheduleGrace(t)
  <2>1. PICK r \in Head(todo[t]).rs :
          Goes(t, ForAll("schedule", Head(todo[t]).rs \ {r}) \o Tail(todo[t]))
    BY <1>4 DEF ScheduleGrace
  <2>2. Tail(todo[t]) \in Seq(Op) /\ ForAll("schedule", Head(todo[t]).rs \ {r}) \in Seq(Op)
    BY <1>4, RunningType, ForAllType DEF ScheduleGrace
  <2> QED
    BY <2>1, <2>2, ConcatType, GoesType
<1>5. CASE CancelTimer(t)
  BY <1>5, RunningType, GoesType DEF CancelTimer
<1>6. CASE MarkOrphans(t)
  <2> DEFINE keep == Head(todo[t]).rs
             candidates == {r \in registered \ keep : Audience(r) = {}}
             lone == present = {} /\ Cardinality(registered) = 1
             name == IF lone THEN "schedule" ELSE "reap"
  <2>1. Goes(t, ForAll(name, candidates) \o ForAll("cancel", keep) \o Tail(todo[t]))
    BY <1>6 DEF MarkOrphans
  <2>2. keep \in SUBSET Renderers /\ Tail(todo[t]) \in Seq(Op)
    BY <1>6, RunningType DEF MarkOrphans
  <2>3. ForAll("cancel", keep) \in Seq(Op)
    BY <2>2, ForAllType
  <2>4. candidates \in SUBSET Renderers
    BY DEF TableOK
  <2>5. name \in OpNames \ {"attach", "register", "relink"}
    OBVIOUS
  <2> HIDE DEF candidates, name, keep
  <2>6. ForAll(name, candidates) \in Seq(Op)
    BY <2>4, <2>5, ForAllType
  <2> QED
    BY <2>1, <2>2, <2>3, <2>6, ConcatType, GoesType
<1>7. CASE TrackAcks(t)
  BY <1>7, RunningType, GoesType DEF TrackAcks
<1>8. CASE AwaitAcks(t)
  <2>1. PICK r \in Head(todo[t]).rs :
          Goes(t, ForAll("await", Head(todo[t]).rs \ {r}) \o Tail(todo[t]))
    BY <1>8 DEF AwaitAcks
  <2>2. Tail(todo[t]) \in Seq(Op) /\ ForAll("await", Head(todo[t]).rs \ {r}) \in Seq(Op)
    BY <1>8, RunningType, ForAllType DEF AwaitAcks
  <2> QED
    BY <2>1, <2>2, ConcatType, GoesType
<1>9. CASE MgrKill(t)
  <2>1. PICK r \in Head(todo[t]).rs :
          Goes(t, ForAll("kill", Head(todo[t]).rs \ {r}) \o Tail(todo[t]))
    BY <1>9 DEF MgrKill
  <2>2. Tail(todo[t]) \in Seq(Op) /\ ForAll("kill", Head(todo[t]).rs \ {r}) \in Seq(Op)
    BY <1>9, RunningType, ForAllType DEF MgrKill
  <2> QED
    BY <2>1, <2>2, ConcatType, GoesType
<1>10. CASE PlanStop(t)
  <2> DEFINE stop == {r \in registered : Audience(r) \subseteq Head(todo[t]).ds}
  <2>1. Goes(t, ForAll("track", stop) \o ForAll("unregister", stop)
                  \o ForAll("await", stop) \o ForAll("kill", stop) \o Tail(todo[t]))
    BY <1>10 DEF PlanStop
  <2>2. Tail(todo[t]) \in Seq(Op)
    BY <1>10, RunningType DEF PlanStop
  <2>3. stop \in SUBSET Renderers
    BY DEF TableOK
  <2> HIDE DEF stop
  <2>4. /\ ForAll("track", stop) \in Seq(Op) /\ ForAll("unregister", stop) \in Seq(Op)
        /\ ForAll("await", stop) \in Seq(Op) /\ ForAll("kill", stop) \in Seq(Op)
    BY <2>3, ForAllType
  <2> QED
    BY <2>1, <2>2, <2>4, ConcatType, GoesType
<1>11. CASE Find(t)
  <2> DEFINE ds == Head(todo[t]).ds
  <2>1. ds \in SUBSET Displays /\ Tail(todo[t]) \in Seq(Op)
    BY <1>11, RunningType DEF Find
  <2>2. CASE Goes(t, <<>>)
    BY <2>2, EmptyType, GoesType
  <2>3. ASSUME NEW r \in managed, Goes(t, Loop("relink", ds, {r}) \o Tail(todo[t]))
        PROVE TodoOK'
    <3>1. Loop("relink", ds, {r}) \in Seq(Op)
      BY <2>1, LoopType DEF ManagerOK
    <3> QED
      BY <2>1, <2>3, <3>1, ConcatType, GoesType
  <2>4. CASE Goes(t, (IF OfUi(t) THEN Loop("plan", ds, {}) ELSE <<>>)
                       \o Loop("spawn", ds, {}) \o Tail(todo[t]))
    <3>1. Loop("plan", ds, {}) \in Seq(Op) /\ Loop("spawn", ds, {}) \in Seq(Op)
      BY <2>1, LoopType
    <3>2. (IF OfUi(t) THEN Loop("plan", ds, {}) ELSE <<>>) \in Seq(Op)
      BY <3>1
    <3> QED
      BY <2>1, <2>4, <3>1, <3>2, ConcatType, GoesType
  <2> QED
    BY <1>11, <2>2, <2>3, <2>4 DEF Find
<1>12. CASE Spawn(t)
  <2>1. PICK r \in Renderers \ used :
          Goes(t, ForAll("attach", {r}) \o Loop("relink", Head(todo[t]).ds, {r})
                    \o Tail(todo[t]))
    BY <1>12 DEF Spawn
  <2>2. Head(todo[t]).ds \in SUBSET Displays /\ Tail(todo[t]) \in Seq(Op)
    BY <1>12, RunningType DEF Spawn
  <2>3. ForAll("attach", {r}) \in Seq(Op)
    BY ForAllType
  <2>4. Loop("relink", Head(todo[t]).ds, {r}) \in Seq(Op)
    BY <2>2, LoopType
  <2> QED
    BY <2>1, <2>2, <2>3, <2>4, ConcatType, GoesType
<1>13. CASE SpawnFails(t)
  BY <1>13, EmptyType, GoesType DEF SpawnFails
<1>14. CASE Attach(t)
  <2> DEFINE r == CHOOSE x \in Head(todo[t]).rs : TRUE
  <2>1. Head(todo[t]).rs \in SUBSET Renderers /\ Tail(todo[t]) \in Seq(Op)
    BY <1>14, RunningType DEF Attach
  <2>2. Goes(t, ForAll("register", {r}) \o Tail(todo[t])) \/ Goes(t, Tail(todo[t]))
    BY <1>14 DEF Attach
  <2>3. r \in Renderers
    <3>1. Head(todo[t]).rs # {}
      BY <1>14, RunningType DEF Attach, Op
    <3> QED
      BY <2>1, <3>1
  <2> HIDE DEF r
  <2>4. ForAll("register", {r}) \in Seq(Op)
    BY <2>3, ForAllType
  <2> QED
    BY <2>1, <2>2, <2>4, ConcatType, GoesType
<1>15. CASE Register(t)
  BY <1>15, RunningType, GoesType DEF Register
<1>16. CASE Relink(t)
  <2> DEFINE r == CHOOSE x \in Head(todo[t]).rs : TRUE
             ds == Head(todo[t]).ds \cap present
             wait == IF OfUi(t) THEN ForAll("firstFrame", {r}) ELSE <<>>
  <2>1. Head(todo[t]).rs \in SUBSET Renderers /\ ds \in SUBSET Displays
        /\ Tail(todo[t]) \in Seq(Op)
    BY <1>16, RunningType DEF Relink
  <2>2. Goes(t, SyncAll(ds) \o ForAll("orphans", {r}) \o wait \o Tail(todo[t]))
    BY <1>16 DEF Relink, Relinked
  <2>3. r \in Renderers
    <3>1. Head(todo[t]).rs # {}
      BY <1>16, RunningType DEF Relink, Op
    <3> QED
      BY <2>1, <3>1
  <2> HIDE DEF r, ds
  <2>4. ForAll("orphans", {r}) \in Seq(Op) /\ ForAll("firstFrame", {r}) \in Seq(Op)
        /\ SyncAll(ds) \in Seq(Op)
    BY <2>1, <2>3, ForAllType, SyncAllType
  <2>5. wait \in Seq(Op)
    BY <2>4
  <2> QED
    BY <2>1, <2>2, <2>4, <2>5, ConcatType, GoesType
<1>17. CASE FirstFrame(t)
  <2> DEFINE rs == Head(todo[t]).rs
  <2>1. rs \in SUBSET Renderers /\ Tail(todo[t]) \in Seq(Op)
    BY <1>17, RunningType DEF FirstFrame
  <2>2. \/ Goes(t, Tail(todo[t]))
        \/ Goes(t, ForAll("unregister", rs) \o ForAll("kill", rs) \o Tail(todo[t]))
    BY <1>17 DEF FirstFrame
  <2> HIDE DEF rs
  <2>3. ForAll("unregister", rs) \in Seq(Op) /\ ForAll("kill", rs) \in Seq(Op)
    BY <2>1, ForAllType
  <2> QED
    BY <2>1, <2>2, <2>3, ConcatType, GoesType
<1>18. CASE LookUp(t)
  <2> DEFINE ds == Head(todo[t]).ds
  <2>1. ds \in SUBSET Displays /\ Tail(todo[t]) \in Seq(Op)
    BY <1>18, RunningType DEF LookUp
  <2>2. \/ Goes(t, Loop("plan", ds, {}) \o Loop("find", ds, {}) \o Tail(todo[t]))
        \/ Goes(t, <<>>)
    BY <1>18 DEF LookUp
  <2> HIDE DEF ds
  <2>3. Loop("plan", ds, {}) \in Seq(Op) /\ Loop("find", ds, {}) \in Seq(Op)
    BY <2>1, LoopType
  <2> QED
    BY <2>1, <2>2, <2>3, EmptyType, ConcatType, GoesType
<1> QED
  BY <1>1, <1>2, <1>3, <1>4, <1>5, <1>6, <1>7, <1>8, <1>9, <1>10, <1>11, <1>12,
     <1>13, <1>14, <1>15, <1>16, <1>17, <1>18 DEF TaskStep

LEMMA TodoStep == TypeOK /\ [Next]_vars => TodoOK'
<1> SUFFICES ASSUME TypeOK, [Next]_vars PROVE TodoOK'
  OBVIOUS
<1> USE DEF OpNames
<1>0. TodoOK /\ TableOK /\ ManagerOK
  BY TypeParts
<1>1. ASSUME NEW t \in Tasks, TaskStep(t) PROVE TodoOK'
  BY <1>0, <1>1, TodoTaskStep
<1>2. ASSUME NEW a \in Appliers, StartApply(a) PROVE TodoOK'
  <2>1. ASSUME NEW ds \in SUBSET Displays, Goes(Apply(a), Loop("lookup", ds, {}))
        PROVE TodoOK'
    <3>1. Loop("lookup", ds, {}) \in Seq(Op)
      BY LoopType
    <3> QED
      BY <1>0, <2>1, <3>1, TaskNames, GoesType
  <2> QED
    BY <1>0, <1>2, <2>1 DEF StartApply, TableOK
<1>3. ASSUME NEW a \in Appliers, StartUiApply(a) PROVE TodoOK'
  <2>1. PICK ds \in SUBSET Displays : Goes(Apply(a), Loop("find", ds, {}))
    BY <1>0, <1>3 DEF StartUiApply, TableOK
  <2>2. Loop("find", ds, {}) \in Seq(Op)
    BY LoopType
  <2> QED
    BY <1>0, <2>1, <2>2, TaskNames, GoesType
<1>4. ASSUME NEW a \in Appliers, NEW r \in Renderers, UserKill(a, r) PROVE TodoOK'
  <2>1. ForAll("unregister", {r}) \in Seq(Op) /\ ForAll("kill", {r}) \in Seq(Op)
    BY ForAllType
  <2> QED
    BY <1>0, <1>4, <2>1, TaskNames, ConcatType, GoesType DEF UserKill
<1>5. ASSUME NEW d \in Displays, RegisterDisplay(d) PROVE TodoOK'
  <2>1. SyncAll({d}) \in Seq(Op)
    BY SyncAllType
  <2>2. ASSUME NEW r \in registered, Goes(Endpoint(d), ForAll("cancel", {r}) \o SyncAll({d}))
        PROVE TodoOK'
    <3>1. ForAll("cancel", {r}) \in Seq(Op)
      BY <1>0, ForAllType DEF TableOK
    <3> QED
      BY <1>0, <2>1, <2>2, <3>1, TaskNames, ConcatType, GoesType
  <2>3. CASE Goes(Endpoint(d), SyncAll({d}))
    BY <1>0, <2>1, <2>3, TaskNames, GoesType
  <2> QED
    BY <1>5, <2>2, <2>3 DEF RegisterDisplay
<1>6. ASSUME NEW d \in Displays, UnregisterDisplay(d) PROVE TodoOK'
  <2>1. <<[op |-> "orphans", ds |-> {}, rs |-> {}]>> \in Seq(Op)
    BY DEF Op
  <2> QED
    BY <1>0, <1>6, <2>1, TaskNames, GoesType DEF UnregisterDisplay
<1>7. ASSUME NEW r \in Renderers, HandleBind(r) PROVE TodoOK'
  <2>1. SyncAll(Audience(r)) \in Seq(Op)
    BY SyncAllType DEF Audience
  <2> QED
    BY <1>0, <1>7, <2>1, TaskNames, GoesType DEF HandleBind
<1>8. ASSUME NEW r \in Renderers, Evict(r) PROVE TodoOK'
  <2>1. ForAll("unregister", {r}) \in Seq(Op)
    BY ForAllType
  <2>2. Goes(Reaper, ForAll("unregister", {r})) \/ Goes(Reaper, <<>>)
    BY <1>8 DEF Evict
  <2> QED
    BY <1>0, <2>1, <2>2, TaskNames, EmptyType, GoesType
<1>9. ASSUME NEW r \in Renderers, FireTimer(r) PROVE TodoOK'
  <2>1. ForAll("unregister", {r}) \in Seq(Op) /\ ForAll("kill", {r}) \in Seq(Op)
    BY ForAllType
  <2>2. \/ Goes(Timer(r), ForAll("unregister", {r}) \o ForAll("kill", {r}))
        \/ Goes(Timer(r), <<>>)
    BY <1>9 DEF FireTimer
  <2> QED
    BY <1>0, <2>1, <2>2, TaskNames, EmptyType, ConcatType, GoesType
<1>10. ASSUME UNCHANGED todo PROVE TodoOK'
  BY <1>0, <1>10 DEF TodoOK
<1>11. \A d \in Displays : ConsumerCaps(d) \/ UnbindDone(d) => UNCHANGED todo
  BY DEF ConsumerCaps, UnbindDone
<1>12. \A r \in Renderers :
         FormatCaps(r) \/ Dispatch(r) \/ RecordScheme(r) \/ Answer(r) \/ Publish(r) \/ Crash(r)
           => UNCHANGED todo
  BY DEF FormatCaps, Dispatch, RecordScheme, Answer, Publish, NewPool, Crash
<1>13. UNCHANGED vars => UNCHANGED todo
  BY DEF vars
<1>14. ASSUME NEW a \in Appliers, CancelApply(a) PROVE TodoOK'
  BY <1>0, <1>14, TaskNames, EmptyType, GoesType DEF CancelApply
<1> QED
  BY <1>1, <1>2, <1>3, <1>4, <1>5, <1>6, <1>7, <1>8, <1>9, <1>10, <1>11, <1>12, <1>13, <1>14
  DEF Next

-----------------------------------------------------------------------------
(* Routing table, display records and acknowledgements.                    *)

LEMMA TargetType ==
  ASSUME TableOK, ManagerOK, NEW d \in Displays PROVE Target(d) \in Pool \cup {NoPool}
BY RouterAssumption DEF TableOK, ManagerOK, Target, Pool, Generations

LEMMA SyncDisplayType ==
  ASSUME TableOK, ManagerOK, NEW d \in Displays, SyncDisplay(d)
  PROVE  /\ bound' \in [Displays -> Pool \cup {NoPool}]
         /\ owed' \in [Displays -> Seq(Owed)]
         /\ pending' \subseteq Renderers \X Displays \X Generations
<1>1. CASE UNCHANGED <<bound, owed, pending>>
  BY <1>1 DEF TableOK
<1>2. CASE bound' = [bound EXCEPT ![d] = Target(d)] /\ UNCHANGED <<owed, pending>>
  BY <1>2, TargetType DEF TableOK
<1>3. CASE /\ bound[d] # NoPool
           /\ bound' = [bound EXCEPT ![d] = Target(d)]
           /\ owed' = [owed EXCEPT ![d] =
                Append(@, [renderer |-> bound[d].renderer,
                           generation |-> bound[d].generation,
                           tracked |-> bound[d].renderer \in tracked])]
           /\ pending' = pending \cup AckPairs(d)
  <2>1. bound[d] \in Pool
    BY <1>3 DEF TableOK
  <2>2. bound[d].renderer \in Renderers /\ bound[d].generation \in Generations
    BY <2>1 DEF Pool
  <2> DEFINE entry == [renderer |-> bound[d].renderer,
                       generation |-> bound[d].generation,
                       tracked |-> bound[d].renderer \in tracked]
  <2>3. entry \in Owed
    BY <2>2 DEF Owed
  <2>4. owed[d] \in Seq(Owed) /\ owed' = [owed EXCEPT ![d] = Append(owed[d], entry)]
    BY <1>3 DEF TableOK
  <2> HIDE DEF entry
  <2>5. owed' \in [Displays -> Seq(Owed)]
    BY <2>3, <2>4 DEF TableOK
  <2>6. AckPairs(d) \subseteq Renderers \X Displays \X Generations
    BY <2>2 DEF AckPairs
  <2> QED
    BY <1>3, <2>5, <2>6, TargetType DEF TableOK
<1> QED
  BY <1>1, <1>2, <1>3 DEF SyncDisplay

LEMMA LinksWithoutType ==
  ASSUME TableOK, NEW r
  PROVE  LinksWithout(r) \in [Displays -> Renderers \cup {NoRenderer}]
BY DEF TableOK, LinksWithout

LEMMA RemoveTable ==
  ASSUME TableOK, NEW t, NEW r, NEW then, Remove(t, r, then) PROVE TableOK'
BY LinksWithoutType DEF TableOK, Remove, ackVars

LEMMA TableTaskStep ==
  ASSUME TodoOK, TableOK, ManagerOK, NEW t \in Tasks, TaskStep(t)
  PROVE  TableOK'
<1> USE DEF OpNames, tableVars, ackVars
<1>1. CASE Sync(t)
  <2>1. PICK d \in Head(todo[t]).ds : SyncDisplay(d)
    BY <1>1 DEF Sync
  <2>2. d \in Displays
    BY <1>1, RunningType DEF Sync
  <2> QED
    BY <1>1, <2>1, <2>2, SyncDisplayType DEF Sync, TableOK
<1>2. CASE Unregister(t)
  BY <1>2, RemoveTable DEF Unregister
<1>3. CASE Reap(t)
  BY <1>3, RemoveTable DEF Reap
<1>4. CASE ScheduleGrace(t)
  <2>1. PICK r \in Head(todo[t]).rs : timers' = timers \cup {r}
    BY <1>4 DEF ScheduleGrace
  <2>2. r \in Renderers
    BY <1>4, RunningType DEF ScheduleGrace
  <2> QED
    BY <1>4, <2>1, <2>2 DEF ScheduleGrace, TableOK
<1>5. CASE CancelTimer(t)
  BY <1>5 DEF CancelTimer, TableOK
<1>6. CASE MarkOrphans(t)
  BY <1>6 DEF MarkOrphans, TableOK
<1>7. CASE TrackAcks(t)
  <2>1. Head(todo[t]).rs \in SUBSET Renderers
    BY <1>7, RunningType DEF TrackAcks
  <2> QED
    BY <1>7, <2>1 DEF TrackAcks, TableOK
<1>8. CASE AwaitAcks(t)
  BY <1>8 DEF AwaitAcks, TableOK
<1>9. CASE MgrKill(t)
  BY <1>9 DEF MgrKill, TableOK
<1>10. CASE PlanStop(t)
  BY <1>10 DEF PlanStop, TableOK
<1>11. CASE Find(t)
  BY <1>11 DEF Find, TableOK
<1>12. CASE Spawn(t)
  BY <1>12 DEF Spawn, TableOK
<1>13. CASE SpawnFails(t)
  BY <1>13 DEF SpawnFails, TableOK
<1>14. CASE Attach(t)
  BY <1>14 DEF Attach, TableOK
<1>15. CASE Register(t)
  <2>1. Head(todo[t]).rs \in SUBSET Renderers
    BY <1>15, RunningType DEF Register
  <2> QED
    BY <1>15, <2>1 DEF Register, TableOK
<1>16. CASE Relink(t)
  <2> DEFINE r == CHOOSE x \in Head(todo[t]).rs : TRUE
  <2>1. Head(todo[t]).rs \in SUBSET Renderers /\ Head(todo[t]).rs # {}
    BY <1>16, RunningType DEF Relink, Op
  <2>2. r \in Renderers
    BY <2>1
  <2>3. link' = [d \in Displays |-> IF d \in Head(todo[t]).ds \cap present THEN r ELSE link[d]]
    BY <1>16 DEF Relink, Relinked
  <2> HIDE DEF r
  <2>4. link' \in [Displays -> Renderers \cup {NoRenderer}]
    BY <2>2, <2>3 DEF TableOK
  <2> QED
    BY <1>16, <2>4 DEF Relink, Relinked, TableOK
<1>17. CASE FirstFrame(t)
  BY <1>17 DEF FirstFrame, TableOK
<1>18. CASE LookUp(t)
  BY <1>18 DEF LookUp, TableOK
<1> QED
  BY <1>1, <1>2, <1>3, <1>4, <1>5, <1>6, <1>7, <1>8, <1>9, <1>10, <1>11, <1>12,
     <1>13, <1>14, <1>15, <1>16, <1>17, <1>18 DEF TaskStep

LEMMA TableStep == TypeOK /\ [Next]_vars => TableOK'
<1> SUFFICES ASSUME TypeOK, [Next]_vars PROVE TableOK'
  OBVIOUS
<1> USE DEF tableVars, ackVars
<1>0. TodoOK /\ TableOK /\ ManagerOK
  BY TypeParts
<1>1. ASSUME NEW t \in Tasks, TaskStep(t) PROVE TableOK'
  BY <1>0, <1>1, TableTaskStep
<1>2. ASSUME NEW d \in Displays, RegisterDisplay(d) PROVE TableOK'
  <2>1. link' \in [Displays -> Renderers \cup {NoRenderer}]
    BY <1>0, <1>2 DEF RegisterDisplay, TableOK
  <2> QED
    BY <1>0, <1>2, <2>1 DEF RegisterDisplay, TableOK
<1>3. ASSUME NEW d \in Displays, UnregisterDisplay(d) PROVE TableOK'
  BY <1>0, <1>3 DEF UnregisterDisplay, TableOK
<1>4. ASSUME NEW d \in Displays, ConsumerCaps(d) PROVE TableOK'
  BY <1>0, <1>4 DEF ConsumerCaps, TableOK
<1>5. ASSUME NEW d \in Displays, UnbindDone(d) PROVE TableOK'
  <2>1. owed[d] \in Seq(Owed) /\ owed[d] # <<>> /\ owed' = [owed EXCEPT ![d] = Tail(owed[d])]
    BY <1>0, <1>5 DEF UnbindDone, TableOK
  <2>2. Tail(owed[d]) \in Seq(Owed)
    BY <2>1
  <2>3. owed' \in [Displays -> Seq(Owed)]
    BY <1>0, <2>1, <2>2 DEF TableOK
  <2> QED
    BY <1>0, <1>5, <2>3 DEF UnbindDone, TableOK
<1>6. ASSUME NEW r \in Renderers, FireTimer(r) PROVE TableOK'
  BY <1>0, <1>6 DEF FireTimer, TableOK
<1>7. ASSUME UNCHANGED <<tableVars, ackVars>> PROVE TableOK'
  BY <1>0, <1>7 DEF TableOK
<1>8. \A a \in Appliers : StartApply(a) \/ CancelApply(a) \/ StartUiApply(a)
       => UNCHANGED <<tableVars, ackVars>>
  BY DEF StartApply, CancelApply, StartUiApply
<1>9. \A a \in Appliers, r \in Renderers : UserKill(a, r) => UNCHANGED <<tableVars, ackVars>>
  BY DEF UserKill
<1>10. \A r \in Renderers :
         FormatCaps(r) \/ Dispatch(r) \/ RecordScheme(r) \/ Answer(r) \/ Publish(r)
           \/ HandleBind(r) \/ Crash(r) \/ Evict(r)
         => UNCHANGED <<tableVars, ackVars>>
  BY DEF FormatCaps, Dispatch, RecordScheme, Answer, Publish, NewPool, HandleBind,
         Crash, Evict
<1>11. UNCHANGED vars => UNCHANGED <<tableVars, ackVars>>
  BY DEF vars
<1> QED
  BY <1>1, <1>2, <1>3, <1>4, <1>5, <1>6, <1>7, <1>8, <1>9, <1>10, <1>11 DEF Next

-----------------------------------------------------------------------------
(* Renderer processes, their pools and their events.                       *)

LEMMA ManagerTaskStep ==
  ASSUME TodoOK, ManagerOK, EventsBounded, NEW t \in Tasks, TaskStep(t)
  PROVE  (ManagerOK /\ EventsBounded)'
<1> USE RouterAssumption DEF OpNames, mgrVars, rendererVars
<1>1. ASSUME UNCHANGED <<mgrVars, rendererVars, applies>>
      PROVE (ManagerOK /\ EventsBounded)'
  BY <1>1 DEF ManagerOK, EventsBounded
<1>2. ASSUME NEW r, NEW then, Remove(t, r, then) PROVE (ManagerOK /\ EventsBounded)'
  <2>1. /\ subscribed' \subseteq subscribed
        /\ events' = events \/ events' = [events EXCEPT ![r] = 0]
        /\ UNCHANGED <<mgrVars, pool, scheme, awaited, recording, applies>>
    BY <1>2 DEF Remove
  <2>2. events' \in [Renderers -> 0..MaxGeneration] /\ EventsBounded'
    BY <2>1 DEF ManagerOK, EventsBounded
  <2> QED
    BY <2>1, <2>2 DEF ManagerOK
<1>3. CASE MgrKill(t)
  BY <1>3 DEF MgrKill, ManagerOK, EventsBounded
<1>4. CASE Spawn(t)
  BY <1>4 DEF Spawn, ManagerOK, EventsBounded
<1>5. CASE Attach(t)
  <2> DEFINE r == CHOOSE x \in Head(todo[t]).rs : TRUE
  <2>1. r \in managed \/ UNCHANGED subscribed
    BY <1>5 DEF Attach
  <2>2. subscribed' = subscribed \cup {r} \/ UNCHANGED subscribed
    BY <1>5 DEF Attach
  <2> HIDE DEF r
  <2>3. subscribed' \subseteq Renderers
    BY <2>1, <2>2 DEF ManagerOK
  <2> QED
    BY <1>5, <2>3 DEF Attach, ManagerOK, EventsBounded
<1>6. Sync(t) \/ ScheduleGrace(t) \/ CancelTimer(t) \/ MarkOrphans(t) \/ TrackAcks(t)
        \/ AwaitAcks(t) \/ PlanStop(t) \/ LookUp(t) \/ Find(t) \/ SpawnFails(t) \/ Register(t)
        \/ Relink(t) \/ FirstFrame(t)
      => UNCHANGED <<mgrVars, rendererVars, applies>>
  BY DEF Sync, ScheduleGrace, CancelTimer, MarkOrphans, TrackAcks, AwaitAcks, PlanStop,
         LookUp, Find, SpawnFails, Register, Relink, Relinked, FirstFrame
<1> QED
  BY <1>1, <1>2, <1>3, <1>4, <1>5, <1>6 DEF TaskStep, Unregister, Reap

LEMMA ManagerStep == TypeOK /\ EventsBounded /\ [Next]_vars => (ManagerOK /\ EventsBounded)'
<1> SUFFICES ASSUME TypeOK, EventsBounded, [Next]_vars
             PROVE (ManagerOK /\ EventsBounded)'
  OBVIOUS
<1> USE RouterAssumption DEF mgrVars, rendererVars
<1>0. TodoOK /\ TableOK /\ ManagerOK
  BY TypeParts
<1>1. ASSUME NEW t \in Tasks, TaskStep(t) PROVE (ManagerOK /\ EventsBounded)'
  BY <1>0, <1>1, ManagerTaskStep
<1>2. ASSUME applies < MaxApplies, applies' = applies + 1, UNCHANGED <<mgrVars, rendererVars>>
      PROVE (ManagerOK /\ EventsBounded)'
  BY <1>0, <1>2 DEF ManagerOK, EventsBounded
<1>3. ASSUME UNCHANGED <<mgrVars, rendererVars, applies>>
      PROVE (ManagerOK /\ EventsBounded)'
  BY <1>0, <1>3 DEF ManagerOK, EventsBounded
<1>4. ASSUME NEW r \in Renderers, FormatCaps(r) \/ Dispatch(r) \/ RecordScheme(r)
      PROVE (ManagerOK /\ EventsBounded)'
  BY <1>0, <1>4 DEF FormatCaps, Dispatch, RecordScheme, ManagerOK, EventsBounded
<1>5. ASSUME NEW r \in Renderers, NewPool(r)
      PROVE /\ pool' \in [Renderers -> 0..MaxGeneration]
            /\ events' \in [Renderers -> 0..MaxGeneration]
            /\ EventsBounded'
  BY <1>0, <1>5 DEF NewPool, ManagerOK, EventsBounded
<1>6. ASSUME NEW r \in Renderers, Answer(r) PROVE (ManagerOK /\ EventsBounded)'
  BY ZenonT(60), <1>0, <1>5, <1>6 DEF Answer, NewPool, ManagerOK
<1>7. ASSUME NEW r \in Renderers, Publish(r) PROVE (ManagerOK /\ EventsBounded)'
  BY <1>0, <1>5, <1>7 DEF Publish, NewPool, ManagerOK
<1>8. ASSUME NEW r \in Renderers, HandleBind(r) PROVE (ManagerOK /\ EventsBounded)'
  BY <1>0, <1>8 DEF HandleBind, ManagerOK, EventsBounded
<1>9. ASSUME NEW r \in Renderers, Crash(r) \/ Evict(r) PROVE (ManagerOK /\ EventsBounded)'
  BY <1>0, <1>9 DEF Crash, Evict, ManagerOK, EventsBounded
<1>10. \A a \in Appliers : StartApply(a) \/ StartUiApply(a)
         => applies < MaxApplies /\ applies' = applies + 1 /\ UNCHANGED <<mgrVars, rendererVars>>
  BY DEF StartApply, StartUiApply
<1>11. \A a \in Appliers, r \in Renderers : UserKill(a, r)
         => applies < MaxApplies /\ applies' = applies + 1 /\ UNCHANGED <<mgrVars, rendererVars>>
  BY DEF UserKill
<1>12. \A d \in Displays :
         RegisterDisplay(d) \/ UnregisterDisplay(d) \/ ConsumerCaps(d) \/ UnbindDone(d)
           => UNCHANGED <<mgrVars, rendererVars, applies>>
  BY DEF RegisterDisplay, UnregisterDisplay, ConsumerCaps, UnbindDone
<1>13. \A r \in Renderers : FireTimer(r) => UNCHANGED <<mgrVars, rendererVars, applies>>
  BY DEF FireTimer
<1>14. UNCHANGED vars => UNCHANGED <<mgrVars, rendererVars, applies>>
  BY DEF vars
<1>15. \A a \in Appliers : CancelApply(a) => UNCHANGED <<mgrVars, rendererVars, applies>>
  BY DEF CancelApply
<1> QED
  BY <1>1, <1>2, <1>3, <1>4, <1>6, <1>7, <1>8, <1>9, <1>10, <1>11, <1>12, <1>13, <1>14, <1>15
  DEF Next

-----------------------------------------------------------------------------
LEMMA CutTaskStep ==
  ASSUME CutOK, NEW t \in Tasks, TaskStep(t) PROVE CutOK'
<1>1. ASSUME NEW r, NEW then, Remove(t, r, then) PROVE CutOK'
  BY <1>1 DEF Remove, CutOK
<1>2. Sync(t) => CutOK'
  BY DEF Sync, CutOK
<1>3. ScheduleGrace(t) \/ CancelTimer(t) \/ MarkOrphans(t) \/ TrackAcks(t) \/ AwaitAcks(t)
        \/ MgrKill(t) \/ PlanStop(t) \/ LookUp(t) \/ Find(t) \/ Spawn(t) \/ SpawnFails(t)
        \/ Attach(t) \/ Register(t) \/ Relink(t) \/ FirstFrame(t)
      => UNCHANGED cut
  BY DEF ScheduleGrace, CancelTimer, MarkOrphans, TrackAcks, AwaitAcks, MgrKill,
         PlanStop, LookUp, Find, Spawn, SpawnFails, Attach, Register, Relink, Relinked, FirstFrame
<1> QED
  BY <1>1, <1>2, <1>3 DEF TaskStep, Unregister, Reap, CutOK

LEMMA CutStep == TypeOK /\ [Next]_vars => CutOK'
<1> SUFFICES ASSUME TypeOK, [Next]_vars PROVE CutOK'
  OBVIOUS
<1>0. CutOK
  BY TypeParts
<1>1. ASSUME NEW t \in Tasks, TaskStep(t) PROVE CutOK'
  BY <1>0, <1>1, CutTaskStep
<1>2. ASSUME NEW a \in Appliers, StartApply(a) \/ CancelApply(a) PROVE CutOK'
  <2>1. Promised(Apply(a)) \subseteq Displays
    BY DEF Promised
  <2>2. cut' = cut \cup Promised(Apply(a)) \/ UNCHANGED cut
    BY <1>2 DEF StartApply, CancelApply
  <2> QED
    BY <1>0, <2>1, <2>2 DEF CutOK
<1>3. \A a \in Appliers : StartUiApply(a) => UNCHANGED cut
  BY DEF StartUiApply
<1>4. \A a \in Appliers, r \in Renderers : UserKill(a, r) => UNCHANGED cut
  BY DEF UserKill
<1>5. \A d \in Displays :
        RegisterDisplay(d) \/ UnregisterDisplay(d) \/ ConsumerCaps(d) \/ UnbindDone(d)
          => UNCHANGED cut
  BY DEF RegisterDisplay, UnregisterDisplay, ConsumerCaps, UnbindDone
<1>6. \A r \in Renderers :
        FormatCaps(r) \/ Dispatch(r) \/ RecordScheme(r) \/ Answer(r) \/ Publish(r)
          \/ HandleBind(r) \/ Crash(r) \/ Evict(r) \/ FireTimer(r)
        => UNCHANGED cut
  BY DEF FormatCaps, Dispatch, RecordScheme, Answer, Publish, NewPool, HandleBind, Crash,
         Evict, FireTimer
<1>7. UNCHANGED vars => UNCHANGED cut
  BY DEF vars
<1>8. UNCHANGED cut => CutOK'
  BY <1>0 DEF CutOK
<1> QED
  BY <1>1, <1>2, <1>3, <1>4, <1>5, <1>6, <1>7, <1>8 DEF Next

LEMMA TypeInit == Init => TypeOK /\ EventsBounded
BY RouterAssumption DEF Init, TypeOK, EventsBounded, Op

LEMMA TypeInvariant == Spec => [](TypeOK /\ EventsBounded)
<1>1. TypeOK /\ EventsBounded /\ [Next]_vars => TypeOK' /\ EventsBounded'
  <2>1. (TableOK /\ ManagerOK /\ TodoOK /\ CutOK => TypeOK)'
    BY TypeParts, PTL
  <2> QED
    BY <2>1, TodoStep, TableStep, ManagerStep, CutStep
<1> QED
  BY <1>1, TypeInit, PTL DEF Spec

(* Every record of the router, of the manager and of every task's          *)
(* remaining work keeps its type: a count of undelivered BindBuffers       *)
(* events never goes below zero, and no operation on a renderer is without *)
(* one.                                                                    *)
THEOREM RouterTypeOK == Spec => []TypeOK
BY TypeInvariant, PTL

-----------------------------------------------------------------------------
LEMMA LinksOnlyPresentStep ==
  TypeOK /\ LinksOnlyPresent /\ [Next]_vars => LinksOnlyPresent'
<1> SUFFICES ASSUME TypeOK, LinksOnlyPresent, [Next]_vars PROVE LinksOnlyPresent'
  OBVIOUS
<1>0. TableOK
  BY TypeParts
<1>1. ASSUME UNCHANGED <<link, present>> PROVE LinksOnlyPresent'
  BY <1>1 DEF LinksOnlyPresent
<1>2. ASSUME NEW t, NEW r, NEW then, Remove(t, r, then) PROVE LinksOnlyPresent'
  BY <1>2 DEF LinksOnlyPresent, Remove, LinksWithout
<1>3. ASSUME NEW t, Relink(t) PROVE LinksOnlyPresent'
  BY <1>3 DEF LinksOnlyPresent, Relink, Relinked
<1>4. ASSUME NEW d \in Displays, RegisterDisplay(d) PROVE LinksOnlyPresent'
  BY <1>0, <1>4 DEF LinksOnlyPresent, RegisterDisplay, TableOK
<1>5. ASSUME NEW d \in Displays, UnregisterDisplay(d) PROVE LinksOnlyPresent'
  BY <1>0, <1>5 DEF LinksOnlyPresent, UnregisterDisplay, TableOK
<1>6. ASSUME NEW t \in Tasks, TaskStep(t) PROVE LinksOnlyPresent'
  <2>1. Sync(t) \/ ScheduleGrace(t) \/ CancelTimer(t) \/ MarkOrphans(t) \/ TrackAcks(t)
          \/ AwaitAcks(t) \/ MgrKill(t) \/ PlanStop(t) \/ LookUp(t) \/ Find(t) \/ Spawn(t)
          \/ SpawnFails(t) \/ Attach(t) \/ Register(t) \/ FirstFrame(t)
        => UNCHANGED <<link, present>>
    BY DEF Sync, ScheduleGrace, CancelTimer, MarkOrphans, TrackAcks, AwaitAcks, MgrKill,
           PlanStop, LookUp, Find, Spawn, SpawnFails, Attach, Register, FirstFrame, tableVars
  <2> QED
    BY <1>1, <1>2, <1>3, <1>6, <2>1 DEF TaskStep, Unregister, Reap
<1>7. ASSUME NEW a \in Appliers, StartApply(a) \/ CancelApply(a) \/ StartUiApply(a)
      PROVE UNCHANGED <<link, present>>
  BY <1>7 DEF StartApply, CancelApply, StartUiApply, tableVars
<1>8. ASSUME NEW a \in Appliers, NEW r \in Renderers, UserKill(a, r)
      PROVE UNCHANGED <<link, present>>
  BY <1>8 DEF UserKill, tableVars
<1>9. ASSUME NEW d \in Displays, ConsumerCaps(d) \/ UnbindDone(d)
      PROVE UNCHANGED <<link, present>>
  BY <1>9 DEF ConsumerCaps, UnbindDone, tableVars
<1>10. ASSUME NEW r \in Renderers,
              FormatCaps(r) \/ Dispatch(r) \/ RecordScheme(r) \/ Answer(r) \/ Publish(r)
                \/ HandleBind(r) \/ Crash(r) \/ Evict(r) \/ FireTimer(r)
       PROVE UNCHANGED <<link, present>>
  BY <1>10 DEF FormatCaps, Dispatch, RecordScheme, Answer, Publish, NewPool, HandleBind,
               Crash, Evict, FireTimer, tableVars
<1>11. UNCHANGED vars => UNCHANGED <<link, present>>
  BY DEF vars, tableVars
<1> QED
  BY <1>1, <1>4, <1>5, <1>6, <1>7, <1>8, <1>9, <1>10, <1>11 DEF Next

(* relink_displays_to, with ids collected long before, and                 *)
(* unregister_display, at any moment in between, never leave a link on a   *)
(* display that is gone: add_link happens under the same lock as the       *)
(* check.                                                                  *)
THEOREM RouterLinksOnlyPresent == Spec => []LinksOnlyPresent
<1>1. Init => LinksOnlyPresent
  BY DEF Init, LinksOnlyPresent
<1> QED
  BY <1>1, LinksOnlyPresentStep, RouterTypeOK, PTL DEF Spec

-----------------------------------------------------------------------------
LEMMA PendingStep == TypeOK /\ PendingOnlyTracked /\ [Next]_vars => PendingOnlyTracked'
<1> SUFFICES ASSUME TypeOK, PendingOnlyTracked, [Next]_vars PROVE PendingOnlyTracked'
  OBVIOUS
<1>0. TableOK
  BY TypeParts
<1>1. ASSUME UNCHANGED tracked, pending' \subseteq pending PROVE PendingOnlyTracked'
  BY <1>1 DEF PendingOnlyTracked
<1>2. ASSUME NEW t, Sync(t) PROVE PendingOnlyTracked'
  <2>1. PICK d \in Head(todo[t]).ds : SyncDisplay(d)
    BY <1>2 DEF Sync
  <2>2. UNCHANGED tracked
    BY <1>2 DEF Sync
  <2>3. UNCHANGED pending \/ pending' = pending \cup AckPairs(d)
    BY <2>1 DEF SyncDisplay
  <2>4. \A p \in AckPairs(d) : p[1] \in tracked
    BY DEF AckPairs
  <2> QED
    BY <2>2, <2>3, <2>4 DEF PendingOnlyTracked
<1>3. ASSUME NEW t, TrackAcks(t) PROVE PendingOnlyTracked'
  BY <1>3 DEF PendingOnlyTracked, TrackAcks
<1>4. ASSUME NEW t, AwaitAcks(t) PROVE PendingOnlyTracked'
  BY <1>4 DEF PendingOnlyTracked, AwaitAcks
<1>5. ASSUME NEW t \in Tasks, TaskStep(t) PROVE PendingOnlyTracked'
  <2>1. Unregister(t) \/ Reap(t) => UNCHANGED <<tracked, pending>>
    BY DEF Unregister, Reap, Remove, ackVars
  <2>2. ScheduleGrace(t) \/ CancelTimer(t) \/ MarkOrphans(t) \/ MgrKill(t) \/ PlanStop(t) \/ LookUp(t)
          \/ Find(t) \/ Spawn(t) \/ SpawnFails(t) \/ Attach(t) \/ Register(t) \/ Relink(t)
          \/ FirstFrame(t)
        => UNCHANGED <<tracked, pending>>
    BY DEF ScheduleGrace, CancelTimer, MarkOrphans, MgrKill, PlanStop, LookUp, Find, Spawn,
           SpawnFails, Attach, Register, Relink, Relinked, FirstFrame, ackVars
  <2> QED
    BY <1>1, <1>2, <1>3, <1>4, <1>5, <2>1, <2>2 DEF TaskStep
<1>6. ASSUME NEW d \in Displays,
             RegisterDisplay(d) \/ UnregisterDisplay(d) \/ ConsumerCaps(d) \/ UnbindDone(d)
      PROVE UNCHANGED tracked /\ pending' \subseteq pending
  BY <1>6 DEF RegisterDisplay, UnregisterDisplay, ConsumerCaps, UnbindDone, ackVars
<1>7. ASSUME NEW a \in Appliers, StartApply(a) \/ CancelApply(a) \/ StartUiApply(a)
      PROVE UNCHANGED <<tracked, pending>>
  BY <1>7 DEF StartApply, CancelApply, StartUiApply, ackVars
<1>8. ASSUME NEW a \in Appliers, NEW r \in Renderers, UserKill(a, r)
      PROVE UNCHANGED <<tracked, pending>>
  BY <1>8 DEF UserKill, ackVars
<1>9. ASSUME NEW r \in Renderers,
             FormatCaps(r) \/ Dispatch(r) \/ RecordScheme(r) \/ Answer(r) \/ Publish(r)
               \/ HandleBind(r) \/ Crash(r) \/ Evict(r) \/ FireTimer(r)
      PROVE UNCHANGED <<tracked, pending>>
  BY <1>9 DEF FormatCaps, Dispatch, RecordScheme, Answer, Publish, NewPool, HandleBind,
              Crash, Evict, FireTimer, ackVars
<1>10. UNCHANGED vars => UNCHANGED <<tracked, pending>>
  BY DEF vars, ackVars
<1> QED
  BY <1>1, <1>5, <1>6, <1>7, <1>8, <1>9, <1>10 DEF Next

(* begin_unbind_ack_tracking, sync_display and await_unbind_acks_for keep  *)
(* unbind_acks_pending to the renderers being torn down, even when two     *)
(* commands tear down the same one and one stops waiting first.            *)
THEOREM RouterPendingOnlyTracked == Spec => []PendingOnlyTracked
<1>1. Init => PendingOnlyTracked
  BY DEF Init, PendingOnlyTracked
<1> QED
  BY <1>1, PendingStep, RouterTypeOK, PTL DEF Spec

-----------------------------------------------------------------------------
(* From here on, what the applies promise (MapsAgree, SyncComplete).  Both  *)
(* are lost when two applies overlap, so the theorems at the end assume     *)
(* OneApply, and everything else stays free: displays come and leave,       *)
(* renderers crash, are killed by hand and by their orphan timers, and the  *)
(* event tasks run, in any order.  The proof rests on the shape of the      *)
(* lists of operations the tasks still have to do (Shapes, Kills), on the   *)
(* apply being alone with the renderer it has just found or started         *)
(* (FreshIsAlone, FreshIsSafe, FreshIsManaged), and on each step being an   *)
(* Effect on one task's list.                                               *)

(* Task lists, operation by operation.  A step replaces the operation a    *)
(* task is at by some others and leaves the rest of its list.              *)

In(q, names, r) == \E i \in DOMAIN q : q[i].op \in names /\ r \in q[i].rs
NamesIn(q, names) == \A i \in DOMAIN q : q[i].op \in names
Syncs(q, d) == \E i \in DOMAIN q : q[i].op = "sync" /\ d \in q[i].ds

LEMMA TailParts ==
  ASSUME NEW q \in Seq(Op), q # <<>>
  PROVE  /\ Tail(q) \in Seq(Op) /\ Head(q) \in Op /\ Len(q) \in Nat /\ Len(Tail(q)) + 1 = Len(q)
         /\ 1 \in DOMAIN q /\ q[1] = Head(q) /\ Len(Tail(q)) \in Nat
         /\ \A i \in DOMAIN q : i = 1 \/ (i \in Nat /\ i > 1 /\ i - 1 \in DOMAIN Tail(q)
                                          /\ Tail(q)[i - 1] = q[i])
         /\ \A i \in DOMAIN Tail(q) : i \in Nat /\ i > 0 /\ i + 1 \in DOMAIN q
                                      /\ Tail(q)[i] = q[i + 1]
OBVIOUS

LEMMA ConcatParts ==
  ASSUME NEW p \in Seq(Op), NEW q \in Seq(Op)
  PROVE  /\ p \o q \in Seq(Op) /\ Len(p) \in Nat /\ Len(q) \in Nat
         /\ Len(p \o q) = Len(p) + Len(q)
         /\ \A i \in DOMAIN (p \o q) : i \in Nat /\ i > 0 /\
              \/ i \in DOMAIN p /\ (p \o q)[i] = p[i]
              \/ i > Len(p) /\ i - Len(p) \in DOMAIN q /\ (p \o q)[i] = q[i - Len(p)]
         /\ \A i \in DOMAIN p : i \in Nat /\ i > 0 /\ i <= Len(p) /\ i \in DOMAIN (p \o q)
                                /\ (p \o q)[i] = p[i]
         /\ \A i \in DOMAIN q : i \in Nat /\ i > 0 /\ Len(p) + i \in DOMAIN (p \o q)
                                /\ (p \o q)[Len(p) + i] = q[i]
OBVIOUS

LEMMA Associates ==
  ASSUME NEW p \in Seq(Op), NEW q \in Seq(Op), NEW s \in Seq(Op)
  PROVE  p \o (q \o s) = (p \o q) \o s
<1>1. (p \o q) \o s = p \o (q \o s)
  BY ConcatAssociative
<1> QED BY <1>1

LEMMA LoopParts ==
  ASSUME NEW name \in OpNames, NEW ds \in SUBSET Displays, NEW rs \in SUBSET Renderers
  PROVE  /\ \A i \in DOMAIN Loop(name, ds, rs) :
              /\ i = 1 /\ Loop(name, ds, rs)[i].op = name
              /\ Loop(name, ds, rs)[i].ds = ds /\ Loop(name, ds, rs)[i].rs = rs
         /\ rs # {} => 1 \in DOMAIN Loop(name, ds, rs)
         /\ ds # {} => 1 \in DOMAIN Loop(name, ds, rs)
         /\ Len(Loop(name, ds, rs)) \in {0, 1}
BY DEF Loop

LEMMA InLoop ==
  ASSUME NEW name \in OpNames, NEW ds \in SUBSET Displays, NEW rs \in SUBSET Renderers,
         NEW names, NEW r
  PROVE  In(Loop(name, ds, rs), names, r) <=> name \in names /\ r \in rs
<1>1. ASSUME NEW i \in DOMAIN Loop(name, ds, rs), Loop(name, ds, rs)[i].op \in names,
             r \in Loop(name, ds, rs)[i].rs
      PROVE  name \in names /\ r \in rs
  <2>1. Loop(name, ds, rs)[i].op = name /\ Loop(name, ds, rs)[i].rs = rs
    BY LoopParts
  <2> QED BY <1>1, <2>1
<1>2. ASSUME name \in names, r \in rs PROVE In(Loop(name, ds, rs), names, r)
  <2>1. 1 \in DOMAIN Loop(name, ds, rs)
    BY <1>2, LoopParts
  <2>2. Loop(name, ds, rs)[1].op = name /\ Loop(name, ds, rs)[1].rs = rs
    BY <2>1, LoopParts
  <2> QED BY <1>2, <2>1, <2>2 DEF In
<1> QED BY <1>1, <1>2 DEF In

LEMMA InForAll ==
  ASSUME NEW name \in OpNames, NEW rs \in SUBSET Renderers, NEW names, NEW r
  PROVE  In(ForAll(name, rs), names, r) <=> name \in names /\ r \in rs
BY InLoop DEF ForAll

LEMMA InSyncAll ==
  ASSUME NEW ds \in SUBSET Displays, NEW names, NEW r
  PROVE  ~In(SyncAll(ds), names, r)
BY InLoop DEF SyncAll, OpNames

LEMMA InEmpty == \A names, r : ~In(<<>>, names, r)
BY DEF In

LEMMA InConcat ==
  ASSUME NEW p \in Seq(Op), NEW q \in Seq(Op), NEW names, NEW r
  PROVE  In(p \o q, names, r) <=> In(p, names, r) \/ In(q, names, r)
<1>1. In(p \o q, names, r) => In(p, names, r) \/ In(q, names, r)
  BY ConcatParts DEF In
<1>2. In(p, names, r) => In(p \o q, names, r)
  BY ConcatParts DEF In
<1>3. In(q, names, r) => In(p \o q, names, r)
  BY ConcatParts DEF In
<1> QED BY <1>1, <1>2, <1>3

LEMMA InTail ==
  ASSUME NEW q \in Seq(Op), q # <<>>, NEW names, NEW r
  PROVE  In(q, names, r) <=> (Head(q).op \in names /\ r \in Head(q).rs) \/ In(Tail(q), names, r)
<1>1. In(q, names, r) => (Head(q).op \in names /\ r \in Head(q).rs) \/ In(Tail(q), names, r)
  BY TailParts DEF In
<1>2. Head(q).op \in names /\ r \in Head(q).rs => In(q, names, r)
  BY TailParts DEF In
<1>3. In(Tail(q), names, r) => In(q, names, r)
  BY TailParts DEF In
<1> QED BY <1>1, <1>2, <1>3

LEMMA NamesLoop ==
  ASSUME NEW name \in OpNames, NEW ds \in SUBSET Displays, NEW rs \in SUBSET Renderers,
         NEW names, name \in names
  PROVE  NamesIn(Loop(name, ds, rs), names)
BY LoopParts DEF NamesIn

LEMMA NamesForAll ==
  ASSUME NEW name \in OpNames, NEW rs \in SUBSET Renderers, NEW names, name \in names
  PROVE  NamesIn(ForAll(name, rs), names)
BY NamesLoop DEF ForAll

LEMMA NamesSyncAll ==
  ASSUME NEW ds \in SUBSET Displays, NEW names, "sync" \in names
  PROVE  NamesIn(SyncAll(ds), names)
BY NamesLoop DEF SyncAll, OpNames

LEMMA NamesEmpty == \A names : NamesIn(<<>>, names)
BY DEF NamesIn

LEMMA NamesConcat ==
  ASSUME NEW p \in Seq(Op), NEW q \in Seq(Op), NEW names, NamesIn(p, names), NamesIn(q, names)
  PROVE  NamesIn(p \o q, names)
BY ConcatParts DEF NamesIn

LEMMA SyncsSyncAll ==
  ASSUME NEW ds \in SUBSET Displays, NEW d \in ds
  PROVE  Syncs(SyncAll(ds), d)
<1>1. "sync" \in OpNames /\ {} \in SUBSET Renderers
  BY DEF OpNames
<1>2. /\ 1 \in DOMAIN Loop("sync", ds, {}) /\ Loop("sync", ds, {})[1].op = "sync"
      /\ Loop("sync", ds, {})[1].ds = ds
  BY <1>1, LoopParts
<1> QED BY <1>2 DEF SyncAll, Syncs

LEMMA SyncsConcat ==
  ASSUME NEW p \in Seq(Op), NEW q \in Seq(Op), NEW d
  PROVE  Syncs(p, d) \/ Syncs(q, d) => Syncs(p \o q, d)
<1>1. ASSUME NEW i \in DOMAIN p, p[i].op = "sync", d \in p[i].ds PROVE Syncs(p \o q, d)
  <2>1. i \in DOMAIN (p \o q) /\ (p \o q)[i] = p[i]
    BY ConcatParts
  <2> QED BY <1>1, <2>1 DEF Syncs
<1>2. ASSUME NEW i \in DOMAIN q, q[i].op = "sync", d \in q[i].ds PROVE Syncs(p \o q, d)
  <2>1. Len(p) + i \in DOMAIN (p \o q) /\ (p \o q)[Len(p) + i] = q[i]
    BY ConcatParts
  <2> QED BY <1>2, <2>1 DEF Syncs
<1> QED BY <1>1, <1>2 DEF Syncs

LEMMA SyncsTail ==
  ASSUME NEW q \in Seq(Op), q # <<>>, NEW d
  PROVE  Syncs(q, d) => (Head(q).op = "sync" /\ d \in Head(q).ds) \/ Syncs(Tail(q), d)
<1>1. ASSUME NEW i \in DOMAIN q, q[i].op = "sync", d \in q[i].ds
      PROVE  (Head(q).op = "sync" /\ d \in Head(q).ds) \/ Syncs(Tail(q), d)
  <2>1. q[1] = Head(q) /\ (i = 1 \/ (i - 1 \in DOMAIN Tail(q) /\ Tail(q)[i - 1] = q[i]))
    BY TailParts
  <2> QED BY <1>1, <2>1 DEF Syncs
<1> QED BY <1>1 DEF Syncs

-----------------------------------------------------------------------------
(* The shape of the lists.                                                 *)

Fresher == {"attach", "register"}
OfApplies == Fresher \cup {"relink", "lookup", "find", "spawn", "plan", "firstFrame"}

\* Between spawn and register_renderer there is nothing else to do.
FirstOnly(q) == \A i \in DOMAIN q : q[i].op \in Fresher => i = 1
\* What fails ends the task, with nothing left undone.
LastOnly(q) == \A i \in DOMAIN q : q[i].op \in {"lookup", "find", "spawn"} => i = Len(q)
\* Who takes a renderer off the table kills it; a dead one is evicted.
KilledLater(q, i, r) == \E j \in DOMAIN q : j > i /\ q[j].op = "kill" /\ r \in q[j].rs
UnregsOK(q) ==
  \A i \in DOMAIN q : q[i].op = "unregister" =>
    \A r \in q[i].rs \ MayCrash : KilledLater(q, i, r)

Applying == {Apply(a) : a \in Appliers}
Eventing == {Events(r) : r \in Renderers}
Shaped(t, q) ==
  /\ FirstOnly(q) /\ LastOnly(q) /\ UnregsOK(q)
  /\ t \notin Applying => NamesIn(q, OpNames \ OfApplies)
  /\ t \in Eventing => NamesIn(q, {"sync"})
Shapes == \A t \in Tasks : Shaped(t, todo[t])

\* All tasks but t go on; an event task may have been ended.
OthersGoOn(t) ==
  \A u \in Tasks \ {t} : todo'[u] = todo[u] \/ (todo'[u] = <<>> /\ u \in Eventing)
Rest(t) == IF todo[t] = <<>> THEN <<>> ELSE Tail(todo[t])
\* t has p to do before the rest.
Does(t, p) ==
  /\ p \in Seq(Op) /\ OthersGoOn(t)
  /\ todo'[t] = p \o Rest(t)

LEMMA RestType ==
  ASSUME TodoOK, NEW t \in Tasks
  PROVE  todo[t] \in Seq(Op) /\ Rest(t) \in Seq(Op)
<1>1. todo[t] \in Seq(Op)
  BY DEF TodoOK
<1> QED BY <1>1, TailParts, EmptyType DEF Rest

LEMMA GoesDoes ==
  ASSUME TodoOK, NEW t \in Tasks, NEW p \in Seq(Op), Goes(t, p \o Rest(t))
  PROVE  Does(t, p)
BY DEF Goes, TodoOK, Does, OthersGoOn

LEMMA RemoveDoes ==
  ASSUME TodoOK, NEW t \in Tasks, todo[t] # <<>>, NEW r \in Renderers, NEW x \in Seq(Op),
         NEW s, s = Tail(todo[t]), t \notin Eventing, Remove(t, r, x \o s)
  PROVE  Does(t, SyncAll(Audience(r)) \o x)
<1>1. s \in Seq(Op) /\ Rest(t) = s
  BY RestType DEF Rest
<1>2. SyncAll(Audience(r)) \in Seq(Op)
  BY SyncAllType DEF Audience
<1>3. SyncAll(Audience(r)) \o (x \o s) = (SyncAll(Audience(r)) \o x) \o s
  BY <1>1, <1>2, Associates
<1>4. SyncAll(Audience(r)) \o x \in Seq(Op)
  BY <1>2, ConcatType
<1>5. todo'[t] = SyncAll(Audience(r)) \o (x \o s)
  BY DEF Remove, Goes, TodoOK
<1>6. OthersGoOn(t)
  BY DEF Remove, Goes, TodoOK, OthersGoOn, Eventing
<1> QED BY <1>1, <1>3, <1>4, <1>5, <1>6 DEF Does

LEMMA ShapedEmpty == \A t : Shaped(t, <<>>)
BY DEF Shaped, FirstOnly, LastOnly, UnregsOK, NamesIn

LEMMA ShapedTail ==
  ASSUME NEW t, NEW q \in Seq(Op), q # <<>>, Shaped(t, q)
  PROVE  /\ Shaped(t, Tail(q)) /\ \A i \in DOMAIN Tail(q) : Tail(q)[i].op \notin Fresher
         /\ Head(q).op \in {"lookup", "find", "spawn"} => Tail(q) = <<>>
         /\ Head(q).op \in OfApplies => t \in Applying
         /\ t \in Eventing => Head(q).op = "sync"
         /\ Head(q).op = "unregister" =>
              \A r \in Head(q).rs \ MayCrash : In(Tail(q), {"kill"}, r)
<1> DEFINE s == Tail(q)
<1>1. s \in Seq(Op) /\ Len(s) + 1 = Len(q) /\ Len(s) \in Nat /\ 1 \in DOMAIN q /\ q[1] = Head(q)
  BY TailParts
<1>2. /\ \A i \in DOMAIN q : i = 1 \/ (i \in Nat /\ i > 1 /\ i - 1 \in DOMAIN s /\ s[i - 1] = q[i])
      /\ \A i \in DOMAIN s : i \in Nat /\ i > 0 /\ i + 1 \in DOMAIN q /\ s[i] = q[i + 1]
  BY TailParts
<1> HIDE DEF s
<1>3. \A i \in DOMAIN s : s[i].op \notin Fresher
  BY <1>2 DEF Shaped, FirstOnly
<1>4. LastOnly(s)
  BY <1>1, <1>2 DEF Shaped, LastOnly
<1>5. UnregsOK(s)
  <2> SUFFICES ASSUME NEW i \in DOMAIN s, s[i].op = "unregister", NEW r \in s[i].rs \ MayCrash
               PROVE  KilledLater(s, i, r)
    BY DEF UnregsOK
  <2>1. i + 1 \in DOMAIN q /\ q[i + 1] = s[i] /\ i \in Nat
    BY <1>2
  <2>2. PICK j \in DOMAIN q : j > i + 1 /\ q[j].op = "kill" /\ r \in q[j].rs
    BY <2>1 DEF Shaped, UnregsOK, KilledLater
  <2>3. j - 1 \in DOMAIN s /\ s[j - 1] = q[j] /\ j - 1 > i
    BY <1>2, <2>1, <2>2
  <2> QED BY <2>2, <2>3 DEF KilledLater
<1>6. (t \notin Applying => NamesIn(s, OpNames \ OfApplies)) /\ (t \in Eventing => NamesIn(s, {"sync"}))
  BY <1>2 DEF Shaped, NamesIn
<1>7. Head(q).op \in {"lookup", "find", "spawn"} => s = <<>>
  <2>1. Head(q).op \in {"lookup", "find", "spawn"} => Len(s) = 0
    BY <1>1 DEF Shaped, LastOnly
  <2> QED BY <1>1, <2>1
<1>8. Head(q).op = "unregister" => \A r \in Head(q).rs \ MayCrash : In(s, {"kill"}, r)
  <2> SUFFICES ASSUME Head(q).op = "unregister", NEW r \in Head(q).rs \ MayCrash
               PROVE  In(s, {"kill"}, r)
    OBVIOUS
  <2>1. PICK j \in DOMAIN q : j > 1 /\ q[j].op = "kill" /\ r \in q[j].rs
    BY <1>1 DEF Shaped, UnregsOK, KilledLater
  <2> QED BY <1>2, <2>1 DEF In
<1>9. FirstOnly(s)
  BY <1>3 DEF FirstOnly
<1> QED BY <1>1, <1>3, <1>4, <1>5, <1>6, <1>7, <1>8, <1>9 DEF Shaped, NamesIn, s

\* What may be put in front.
LEMMA ShapedConcat ==
  ASSUME NEW t, NEW p \in Seq(Op), NEW s \in Seq(Op), Shaped(t, s),
         \A i \in DOMAIN s : s[i].op \notin Fresher,
         FirstOnly(p), LastOnly(p), s = <<>> \/ NamesIn(p, OpNames \ {"lookup", "find", "spawn"}),
         \A i \in DOMAIN p : p[i].op = "unregister" =>
           \A r \in p[i].rs \ MayCrash : KilledLater(p, i, r) \/ In(s, {"kill"}, r),
         t \in Applying \/ NamesIn(p, OpNames \ OfApplies), t \notin Eventing \/ NamesIn(p, {"sync"})
  PROVE  Shaped(t, p \o s)
<1> DEFINE w == p \o s
<1>1. /\ w \in Seq(Op) /\ Len(p) \in Nat /\ Len(s) \in Nat /\ Len(w) = Len(p) + Len(s)
      /\ \A i \in DOMAIN w : i \in Nat /\ i > 0 /\
           \/ i \in DOMAIN p /\ w[i] = p[i]
           \/ i > Len(p) /\ i - Len(p) \in DOMAIN s /\ w[i] = s[i - Len(p)]
      /\ \A i \in DOMAIN p : i \in Nat /\ i > 0 /\ i <= Len(p) /\ i \in DOMAIN w /\ w[i] = p[i]
      /\ \A i \in DOMAIN s : i \in Nat /\ i > 0 /\ Len(p) + i \in DOMAIN w /\ w[Len(p) + i] = s[i]
  BY ConcatParts
<1> HIDE DEF w
<1>2. FirstOnly(w)
  BY <1>1 DEF FirstOnly
<1>3. LastOnly(w)
  <2>1. CASE s = <<>>
    BY <1>1, <2>1 DEF LastOnly
  <2>2. CASE NamesIn(p, OpNames \ {"lookup", "find", "spawn"})
    BY SMTT(30), <1>1, <2>2 DEF LastOnly, NamesIn, Shaped
  <2> QED BY <2>1, <2>2
<1>4. UnregsOK(w)
  <2> SUFFICES ASSUME NEW i \in DOMAIN w, w[i].op = "unregister", NEW r \in w[i].rs \ MayCrash
               PROVE  KilledLater(w, i, r)
    BY DEF UnregsOK
  <2>1. CASE i \in DOMAIN p /\ w[i] = p[i]
    <3>1. CASE KilledLater(p, i, r)
      BY <1>1, <3>1 DEF KilledLater
    <3>2. CASE In(s, {"kill"}, r)
      <4>1. PICK j \in DOMAIN s : s[j].op = "kill" /\ r \in s[j].rs
        BY <3>2 DEF In
      <4>2. Len(p) + j \in DOMAIN w /\ w[Len(p) + j] = s[j] /\ Len(p) + j > i
        BY <1>1, <2>1
      <4> QED BY <4>1, <4>2 DEF KilledLater
    <3> QED BY <2>1, <3>1, <3>2
  <2>2. CASE i > Len(p) /\ i - Len(p) \in DOMAIN s /\ w[i] = s[i - Len(p)]
    <3>1. PICK j \in DOMAIN s : j > i - Len(p) /\ s[j].op = "kill" /\ r \in s[j].rs
      BY <2>2 DEF Shaped, UnregsOK, KilledLater
    <3>2. Len(p) + j \in DOMAIN w /\ w[Len(p) + j] = s[j] /\ Len(p) + j > i
      BY <1>1, <3>1
    <3> QED BY <3>1, <3>2 DEF KilledLater
  <2> QED BY <1>1, <2>1, <2>2
<1>5. (t \notin Applying => NamesIn(w, OpNames \ OfApplies)) /\ (t \in Eventing => NamesIn(w, {"sync"}))
  BY <1>1 DEF NamesIn, Shaped
<1> QED BY <1>2, <1>3, <1>4, <1>5 DEF Shaped, w

\* Operations that any task may have, in any number.
Plain == OpNames \ (OfApplies \cup {"unregister"})

LEMMA PlainFront ==
  ASSUME NEW t, NEW p \in Seq(Op), NEW s \in Seq(Op), Shaped(t, s),
         \A i \in DOMAIN s : s[i].op \notin Fresher, NamesIn(p, Plain), t \notin Eventing
  PROVE  Shaped(t, p \o s)
<1>1. /\ \A i \in DOMAIN p : p[i].op \notin Fresher /\ p[i].op # "unregister"
      /\ NamesIn(p, OpNames \ {"lookup", "find", "spawn"}) /\ NamesIn(p, OpNames \ OfApplies)
  BY DEF NamesIn, Plain, OfApplies, OpNames
<1>2. FirstOnly(p) /\ LastOnly(p)
  BY <1>1 DEF FirstOnly, LastOnly, NamesIn
<1> QED BY <1>1, <1>2, ShapedConcat

LEMMA SyncFront ==
  ASSUME NEW t, NEW p \in Seq(Op), NEW s \in Seq(Op), Shaped(t, s),
         \A i \in DOMAIN s : s[i].op \notin Fresher, NamesIn(p, {"sync"})
  PROVE  Shaped(t, p \o s)
<1>1. /\ \A i \in DOMAIN p : p[i].op \notin Fresher /\ p[i].op # "unregister"
      /\ NamesIn(p, OpNames \ {"lookup", "find", "spawn"}) /\ NamesIn(p, OpNames \ OfApplies)
  BY DEF NamesIn, Fresher, OfApplies, OpNames
<1>2. FirstOnly(p) /\ LastOnly(p)
  BY <1>1 DEF FirstOnly, LastOnly, NamesIn
<1> QED BY <1>1, <1>2, ShapedConcat

(* One apply at a time, never cancelled: the global apply can be replaced   *)
(* between any two of its steps and so is left out, and of the others (the *)
(* recalls and playlists, the clients of the UI) there is at most one.     *)
(* Tasks of the event, timer and kill kinds are not restricted.            *)
OneApply == GlobalApply = {} /\ MayCancel = {} /\ \A a, b \in Appliers : a = b

\* Who kills a renderer has taken it off the table, or will first.
KilledFirst(q, j, r) == \E i \in DOMAIN q : i < j /\ q[i].op = "unregister" /\ r \in q[i].rs
KillsOK(q, R) ==
  \A j \in DOMAIN q : q[j].op = "kill" =>
    \A r \in q[j].rs \ MayCrash : r \notin R \/ KilledFirst(q, j, r)
Kills == \A t \in Tasks : KillsOK(todo[t], registered)

\* A renderer that is not in the table yet: nobody can name it.
Fresh(r) == r \notin used \/ Ahead(Fresher, r)
Touches == {"unregister", "reap", "schedule", "kill", "firstFrame"}
FreshIsAlone ==
  \A r \in Renderers : Fresh(r) => r \notin registered /\ Audience(r) = {}
FreshIsSafe ==
  \A r \in Renderers \ MayCrash : Fresh(r) => r \notin timers /\ ~Ahead(Touches, r)
FreshIsManaged ==
  \A r \in Renderers \ MayCrash : Ahead(Fresher, r) => r \in managed
KnownOnes ==
  /\ managed \subseteq used /\ dead \subseteq MayCrash
  /\ \A r \in Renderers : Ahead({"relink"}, r) \/ Ahead(Fresher, r) => r \in used
Started == present \subseteq seen /\ \A d \in Displays : todo[Endpoint(d)] # <<>> => d \in seen


\* Where the head of a list is gone.
LEMMA UnregsConcat ==
  ASSUME NEW p \in Seq(Op), NEW s \in Seq(Op), UnregsOK(s),
         \A i \in DOMAIN p : p[i].op = "unregister" =>
           \A r \in p[i].rs \ MayCrash : KilledLater(p, i, r) \/ In(s, {"kill"}, r)
  PROVE  UnregsOK(p \o s)
<1> DEFINE w == p \o s
<1>1. /\ w \in Seq(Op) /\ Len(p) \in Nat
      /\ \A i \in DOMAIN w : i \in Nat /\ i > 0 /\
           \/ i \in DOMAIN p /\ w[i] = p[i]
           \/ i > Len(p) /\ i - Len(p) \in DOMAIN s /\ w[i] = s[i - Len(p)]
      /\ \A i \in DOMAIN p : i \in Nat /\ i > 0 /\ i <= Len(p) /\ i \in DOMAIN w /\ w[i] = p[i]
      /\ \A i \in DOMAIN s : i \in Nat /\ i > 0 /\ Len(p) + i \in DOMAIN w /\ w[Len(p) + i] = s[i]
  BY ConcatParts
<1> HIDE DEF w
<1> SUFFICES ASSUME NEW i \in DOMAIN w, w[i].op = "unregister", NEW r \in w[i].rs \ MayCrash
             PROVE  KilledLater(w, i, r)
  BY DEF UnregsOK, w
<1>2. CASE i \in DOMAIN p /\ w[i] = p[i]
  <2>1. CASE KilledLater(p, i, r)
    BY <1>1, <2>1 DEF KilledLater
  <2>2. CASE In(s, {"kill"}, r)
    <3>1. PICK j \in DOMAIN s : s[j].op = "kill" /\ r \in s[j].rs
      BY <2>2 DEF In
    <3>2. Len(p) + j \in DOMAIN w /\ w[Len(p) + j] = s[j] /\ Len(p) + j > i
      BY <1>1, <1>2
    <3> QED BY <3>1, <3>2 DEF KilledLater
  <2> QED BY <1>2, <2>1, <2>2
<1>3. CASE i > Len(p) /\ i - Len(p) \in DOMAIN s /\ w[i] = s[i - Len(p)]
  <2>1. PICK j \in DOMAIN s : j > i - Len(p) /\ s[j].op = "kill" /\ r \in s[j].rs
    BY <1>3 DEF UnregsOK, KilledLater
  <2>2. Len(p) + j \in DOMAIN w /\ w[Len(p) + j] = s[j] /\ Len(p) + j > i
    BY <1>1, <2>1
  <2> QED BY <2>1, <2>2 DEF KilledLater
<1> QED BY <1>1, <1>2, <1>3

LEMMA KillsTail ==
  ASSUME NEW q \in Seq(Op), q # <<>>, NEW R, KillsOK(q, R)
  PROVE  /\ Head(q).op # "unregister" => KillsOK(Tail(q), R)
         /\ Head(q).op = "unregister" => KillsOK(Tail(q), R \ Head(q).rs)
         /\ Head(q).op = "kill" => \A r \in Head(q).rs \ MayCrash : r \notin R
<1> DEFINE s == Tail(q)
<1>1. /\ 1 \in DOMAIN q /\ q[1] = Head(q)
      /\ \A i \in DOMAIN q : i = 1 \/ (i \in Nat /\ i > 1 /\ i - 1 \in DOMAIN s /\ s[i - 1] = q[i])
      /\ \A i \in DOMAIN s : i \in Nat /\ i > 0 /\ i + 1 \in DOMAIN q /\ s[i] = q[i + 1]
  BY TailParts
<1> HIDE DEF s
<1>2. ASSUME NEW j \in DOMAIN s, s[j].op = "kill", NEW r \in s[j].rs \ MayCrash, r \in R
      PROVE  KilledFirst(s, j, r) \/ (Head(q).op = "unregister" /\ r \in Head(q).rs)
  <2>1. j + 1 \in DOMAIN q /\ q[j + 1] = s[j] /\ j \in Nat
    BY <1>1
  <2>2. PICK i \in DOMAIN q : i < j + 1 /\ q[i].op = "unregister" /\ r \in q[i].rs
    BY <1>2, <2>1 DEF KillsOK, KilledFirst
  <2>3. CASE i = 1
    BY <1>1, <2>2, <2>3
  <2>4. CASE i # 1
    <3>1. i - 1 \in DOMAIN s /\ s[i - 1] = q[i] /\ i - 1 < j
      BY <1>1, <2>1, <2>2, <2>4
    <3> QED BY <2>2, <3>1 DEF KilledFirst
  <2> QED BY <2>3, <2>4
<1>3. Head(q).op = "kill" => \A r \in Head(q).rs \ MayCrash : r \notin R
  <2> SUFFICES ASSUME Head(q).op = "kill", NEW r \in Head(q).rs \ MayCrash, r \in R
               PROVE  FALSE
    OBVIOUS
  <2>1. PICK i \in DOMAIN q : i < 1 /\ q[i].op = "unregister"
    BY <1>1 DEF KillsOK, KilledFirst
  <2> QED BY <1>1, <2>1
<1>4. Head(q).op # "unregister" => KillsOK(s, R)
  BY <1>2 DEF KillsOK
<1>5. Head(q).op = "unregister" => KillsOK(s, R \ Head(q).rs)
  BY <1>2 DEF KillsOK
<1> QED BY <1>3, <1>4, <1>5 DEF s

LEMMA KillsConcat ==
  ASSUME NEW p \in Seq(Op), NEW s \in Seq(Op), NEW R, NEW S, KillsOK(p, R), KillsOK(s, S),
         \A r \in R \ S : In(p, {"unregister"}, r)
  PROVE  KillsOK(p \o s, R)
<1> DEFINE w == p \o s
<1>1. /\ w \in Seq(Op) /\ Len(p) \in Nat
      /\ \A i \in DOMAIN w : i \in Nat /\ i > 0 /\
           \/ i \in DOMAIN p /\ w[i] = p[i]
           \/ i > Len(p) /\ i - Len(p) \in DOMAIN s /\ w[i] = s[i - Len(p)]
      /\ \A i \in DOMAIN p : i \in Nat /\ i > 0 /\ i <= Len(p) /\ i \in DOMAIN w /\ w[i] = p[i]
      /\ \A i \in DOMAIN s : i \in Nat /\ i > 0 /\ Len(p) + i \in DOMAIN w /\ w[Len(p) + i] = s[i]
  BY ConcatParts
<1> HIDE DEF w
<1> SUFFICES ASSUME NEW j \in DOMAIN w, w[j].op = "kill", NEW r \in w[j].rs \ MayCrash, r \in R
             PROVE  KilledFirst(w, j, r)
  BY DEF KillsOK, w
<1>2. CASE j \in DOMAIN p /\ w[j] = p[j]
  BY ZenonT(60), <1>1, <1>2 DEF KillsOK, KilledFirst
<1>3. CASE j > Len(p) /\ j - Len(p) \in DOMAIN s /\ w[j] = s[j - Len(p)]
  <2>1. CASE r \in S
    <3>1. PICK i \in DOMAIN s : i < j - Len(p) /\ s[i].op = "unregister" /\ r \in s[i].rs
      BY <1>3, <2>1 DEF KillsOK, KilledFirst
    <3>2. Len(p) + i \in DOMAIN w /\ w[Len(p) + i] = s[i] /\ Len(p) + i < j
      BY <1>1, <1>3, <3>1
    <3> QED BY <3>1, <3>2 DEF KilledFirst
  <2>2. CASE r \notin S
    <3>1. PICK i \in DOMAIN p : p[i].op = "unregister" /\ r \in p[i].rs
      BY <2>2 DEF In
    <3>2. i \in DOMAIN w /\ w[i] = p[i] /\ i < j
      BY <1>1, <1>3, <3>1
    <3> QED BY <3>1, <3>2 DEF KilledFirst
  <2> QED BY <2>1, <2>2
<1> QED BY <1>1, <1>2, <1>3

LEMMA KillsNames ==
  ASSUME NEW p \in Seq(Op), NEW R, NamesIn(p, OpNames \ {"kill"})
  PROVE  KillsOK(p, R)
BY DEF KillsOK, NamesIn

LEMMA KillsForAll ==
  ASSUME NEW X \in SUBSET Renderers, NEW R, (X \ MayCrash) \cap R = {}
  PROVE  KillsOK(ForAll("kill", X), R)
<1>1. "kill" \in OpNames /\ {} \in SUBSET Displays
  BY DEF OpNames
<1>2. \A i \in DOMAIN ForAll("kill", X) : ForAll("kill", X)[i].rs = X
  BY <1>1, LoopParts DEF ForAll
<1> QED BY <1>2 DEF KillsOK

LEMMA KillsFewer ==
  ASSUME NEW q, NEW R, NEW S, S \subseteq R, KillsOK(q, R)
  PROVE  KillsOK(q, S)
BY DEF KillsOK

LEMMA KillsMore ==
  ASSUME NEW q, NEW R, NEW r, KillsOK(q, R), r \in MayCrash \/ ~In(q, {"kill"}, r)
  PROVE  KillsOK(q, R \cup {r})
BY DEF KillsOK, In

-----------------------------------------------------------------------------
(* What a step of a task does to its list.                                 *)

Ends == {"attach", "register", "kill"}

\* A renderer some operation may now name: it is in the table or has a
\* timer, it was linked to before, or a client sees it with no apply under way.
Known(t, x) ==
  \/ x \in registered \cup timers \cup MayCrash
  \/ Running(t, "relink") /\ x \in Head(todo[t]).rs
  \/ Idle(t) /\ t \in Applying /\ x \in managed

NewNames(t, q, x) ==
  /\ In(q, Touches, x) => In(todo[t], Touches, x) \/ Known(t, x)
  /\ In(q, Fresher, x) => In(todo[t], Fresher, x) \/ x \in managed' \ used
  /\ In(q, {"relink"}, x) => In(todo[t], {"relink"}, x) \/ x \in used'
  /\ In(q, {"register"}, x) => In(todo[t], {"register"}, x) \/ x \in subscribed'

Effect(t) ==
  /\ OthersGoOn(t)
  /\ Shaped(t, todo'[t])
  /\ KillsOK(todo'[t], registered')
  /\ \A x \in Renderers : NewNames(t, todo'[t], x)
  /\ \A x \in Renderers : In(todo[t], Ends, x) =>
       In(todo'[t], Ends, x) \/ x \notin managed' \/ x \in registered'
  /\ \A d \in Displays : Syncs(todo[t], d) => Syncs(todo'[t], d) \/ SyncDisplay(d)
  /\ \A d \in present' : link'[d] # link[d] => Syncs(todo'[t], d) /\ t \notin Eventing

LEMMA AtHead ==
  ASSUME TodoOK, Shapes, Kills, NEW t \in Tasks, NEW name \in OpNames, Running(t, name)
  PROVE  /\ Head(todo[t]).ds \in SUBSET Displays /\ Head(todo[t]).rs \in SUBSET Renderers
         /\ Tail(todo[t]) \in Seq(Op) /\ Rest(t) = Tail(todo[t])
         /\ Shaped(t, Tail(todo[t]))
         /\ \A i \in DOMAIN Tail(todo[t]) : Tail(todo[t])[i].op \notin Fresher
         /\ name # "unregister" => KillsOK(Tail(todo[t]), registered)
         /\ name = "unregister" => KillsOK(Tail(todo[t]), registered \ Head(todo[t]).rs)
         /\ name = "unregister" =>
              \A r \in Head(todo[t]).rs \ MayCrash : In(Tail(todo[t]), {"kill"}, r)
         /\ name = "kill" => \A r \in Head(todo[t]).rs \ MayCrash : r \notin registered
         /\ name \in {"lookup", "find", "spawn"} => Tail(todo[t]) = <<>>
         /\ name \in OfApplies => t \in Applying
         /\ name # "sync" => t \notin Eventing
         /\ \A names, x : In(todo[t], names, x) <=>
              (name \in names /\ x \in Head(todo[t]).rs) \/ In(Tail(todo[t]), names, x)
         /\ \A d : Syncs(todo[t], d) =>
              (name = "sync" /\ d \in Head(todo[t]).ds) \/ Syncs(Tail(todo[t]), d)
<1>1. todo[t] \in Seq(Op) /\ todo[t] # <<>> /\ Head(todo[t]).op = name
  BY DEF TodoOK, Running
<1>2. Shaped(t, todo[t]) /\ KillsOK(todo[t], registered)
  BY DEF Shapes, Kills
<1>3. Head(todo[t]).ds \in SUBSET Displays /\ Head(todo[t]).rs \in SUBSET Renderers /\ Tail(todo[t]) \in Seq(Op)
  BY RunningType
<1>4. Rest(t) = Tail(todo[t])
  BY <1>1 DEF Rest
<1>5. /\ Shaped(t, Tail(todo[t]))
      /\ \A i \in DOMAIN Tail(todo[t]) : Tail(todo[t])[i].op \notin Fresher
      /\ name \in {"lookup", "find", "spawn"} => Tail(todo[t]) = <<>>
      /\ name \in OfApplies => t \in Applying
      /\ name # "sync" => t \notin Eventing
      /\ name = "unregister" =>
              \A r \in Head(todo[t]).rs \ MayCrash : In(Tail(todo[t]), {"kill"}, r)
  BY <1>1, <1>2, ShapedTail
<1>6. /\ name # "unregister" => KillsOK(Tail(todo[t]), registered)
      /\ name = "unregister" => KillsOK(Tail(todo[t]), registered \ Head(todo[t]).rs)
      /\ name = "kill" => \A r \in Head(todo[t]).rs \ MayCrash : r \notin registered
  BY <1>1, <1>2, KillsTail
<1>7. \A names, x : In(todo[t], names, x) <=>
              (name \in names /\ x \in Head(todo[t]).rs) \/ In(Tail(todo[t]), names, x)
  BY <1>1, InTail
<1>8. \A d : Syncs(todo[t], d) =>
              (name = "sync" /\ d \in Head(todo[t]).ds) \/ Syncs(Tail(todo[t]), d)
  BY <1>1, SyncsTail
<1> QED BY <1>3, <1>4, <1>5, <1>6, <1>7, <1>8

\* The head of the list is replaced by p.
LEMMA EffectAt ==
  ASSUME TodoOK, Shapes, Kills, NEW t \in Tasks, NEW name \in OpNames, Running(t, name),
         NEW p \in Seq(Op), Does(t, p),
         Shaped(t, p \o Tail(todo[t])), KillsOK(p \o Tail(todo[t]), registered'),
         \A x \in Renderers : NewNames(t, p, x),
         \A x \in Head(todo[t]).rs : name \in Ends =>
           In(p, Ends, x) \/ x \notin managed' \/ x \in registered',
         \A d \in Head(todo[t]).ds : name = "sync" => Syncs(p, d) \/ SyncDisplay(d),
         \A d \in present' : link'[d] # link[d] => Syncs(p, d) /\ t \notin Eventing
  PROVE  Effect(t)
<1> DEFINE s == Tail(todo[t])
<1>1. s \in Seq(Op) /\ Rest(t) = s
  BY AtHead
<1>2. todo'[t] = p \o s /\ OthersGoOn(t)
  BY <1>1 DEF Does
<1>3. \A names, x : In(p \o s, names, x) <=> In(p, names, x) \/ In(s, names, x)
  BY <1>1, InConcat
<1>4. \A names, x : In(todo[t], names, x) <=>
        (name \in names /\ x \in Head(todo[t]).rs) \/ In(s, names, x)
  BY AtHead
<1>5. \A d : Syncs(p, d) \/ Syncs(s, d) => Syncs(p \o s, d)
  BY <1>1, SyncsConcat
<1>6. \A d : Syncs(todo[t], d) => (name = "sync" /\ d \in Head(todo[t]).ds) \/ Syncs(s, d)
  BY AtHead
<1> HIDE DEF s
<1>7. \A x \in Renderers : NewNames(t, p \o s, x)
  BY <1>3, <1>4 DEF NewNames
<1>8. \A x \in Renderers : In(todo[t], Ends, x) =>
        In(p \o s, Ends, x) \/ x \notin managed' \/ x \in registered'
  BY <1>3, <1>4
<1>9. \A d \in Displays : Syncs(todo[t], d) => Syncs(p \o s, d) \/ SyncDisplay(d)
  BY <1>5, <1>6
<1>10. \A d \in present' : link'[d] # link[d] => Syncs(p \o s, d) /\ t \notin Eventing
  BY <1>5
<1> QED BY <1>2, <1>7, <1>8, <1>9, <1>10 DEF Effect, s

\* A task starts.
LEMMA EffectIdle ==
  ASSUME TodoOK, NEW t \in Tasks, Idle(t), NEW p \in Seq(Op), Goes(t, p),
         Shaped(t, p), KillsOK(p, registered'),
         \A x \in Renderers : NewNames(t, p, x),
         \A d \in present' : link'[d] # link[d] => Syncs(p, d) /\ t \notin Eventing
  PROVE  Effect(t)
<1>1. todo'[t] = p /\ OthersGoOn(t)
  BY DEF Goes, TodoOK, OthersGoOn
<1>2. \A names, x : ~In(todo[t], names, x)
  BY InEmpty DEF Idle
<1>3. \A d : ~Syncs(todo[t], d)
  BY DEF Idle, Syncs
<1> QED BY <1>1, <1>2, <1>3 DEF Effect

\* A list that names nobody.
LEMMA NoNames ==
  ASSUME NEW t, NEW p, \A names, x : ~In(p, names, x)
  PROVE  \A x \in Renderers : NewNames(t, p, x)
BY DEF NewNames

LEMMA QuietFront ==
  ASSUME TodoOK, Shapes, Kills, NEW t \in Tasks, NEW name \in OpNames, Running(t, name),
         name # "unregister", NEW p \in Seq(Op), registered' \subseteq registered,
         NamesIn(p, {"sync"}) \/ (NamesIn(p, Plain \ {"kill"}) /\ name # "sync")
  PROVE  Shaped(t, p \o Tail(todo[t])) /\ KillsOK(p \o Tail(todo[t]), registered')
<1> DEFINE s == Tail(todo[t])
<1>1. /\ s \in Seq(Op) /\ Shaped(t, s) /\ \A i \in DOMAIN s : s[i].op \notin Fresher
      /\ KillsOK(s, registered) /\ (name # "sync" => t \notin Eventing)
  BY AtHead
<1> HIDE DEF s
<1>2. NamesIn(p, OpNames \ {"kill"})
  BY DEF NamesIn, Plain, OpNames
<1>3. KillsOK(p \o s, registered')
  BY <1>1, <1>2, KillsNames, KillsFewer, KillsConcat
<1>4. NamesIn(p, Plain \ {"kill"}) => NamesIn(p, Plain)
  BY DEF NamesIn
<1>5. Shaped(t, p \o s)
  BY <1>1, <1>4, SyncFront, PlainFront
<1> QED BY <1>3, <1>5 DEF s

LEMMA SyncEffect ==
  ASSUME TodoOK, Shapes, Kills, NEW t \in Tasks, Sync(t)
  PROVE  Effect(t)
<1> USE DEF OpNames
<1>1. PICK d \in Head(todo[t]).ds :
        SyncDisplay(d) /\ Goes(t, SyncAll(Head(todo[t]).ds \ {d}) \o Tail(todo[t]))
  BY DEF Sync
<1>2. Running(t, "sync") /\ registered' = registered /\ link' = link
  BY DEF Sync
<1>3. Head(todo[t]).ds \ {d} \in SUBSET Displays /\ Rest(t) = Tail(todo[t])
  BY <1>2, AtHead
<1> DEFINE p == SyncAll(Head(todo[t]).ds \ {d})
<1>4. p \in Seq(Op) /\ NamesIn(p, {"sync"})
  BY <1>3, SyncAllType, NamesSyncAll
<1>5. \A names, x : ~In(p, names, x)
  BY <1>3, InSyncAll
<1>6. \A e \in Head(todo[t]).ds \ {d} : Syncs(p, e)
  BY <1>3, SyncsSyncAll
<1>7. Goes(t, p \o Rest(t))
  BY <1>1, <1>3
<1> HIDE DEF p
<1>8. Does(t, p)
  BY <1>3, <1>4, <1>7, GoesDoes
<1>9. Shaped(t, p \o Tail(todo[t])) /\ KillsOK(p \o Tail(todo[t]), registered')
  BY <1>2, <1>4, QuietFront
<1>10. \A x \in Renderers : NewNames(t, p, x)
  BY <1>5, NoNames
<1>11. \A e \in Head(todo[t]).ds : Syncs(p, e) \/ SyncDisplay(e)
  BY <1>1, <1>6
<1> QED BY <1>2, <1>4, <1>8, <1>9, <1>10, <1>11, EffectAt DEF Ends

\* What goes on, with one operation or none in front.
LEMMA OneFront ==
  ASSUME TodoOK, Shapes, Kills, NEW t \in Tasks, NEW name \in OpNames, Running(t, name),
         name \in {"schedule", "cancel", "track", "await", "kill"},
         NEW X \in SUBSET Head(todo[t]).rs, Goes(t, ForAll(name, X) \o Tail(todo[t])),
         registered' = registered, link' = link,
         name = "kill" => \A x \in Head(todo[t]).rs : x \in X \/ x \notin managed'
  PROVE  Effect(t)
<1> USE DEF OpNames
<1> DEFINE p == ForAll(name, X)
           s == Tail(todo[t])
<1>1. /\ Head(todo[t]).rs \in SUBSET Renderers /\ Rest(t) = s /\ s \in Seq(Op)
      /\ Shaped(t, s) /\ (\A i \in DOMAIN s : s[i].op \notin Fresher)
      /\ KillsOK(s, registered) /\ t \notin Eventing
      /\ (name = "kill" => \A r \in Head(todo[t]).rs \ MayCrash : r \notin registered)
      /\ \A names, x : In(todo[t], names, x) <=>
              (name \in names /\ x \in Head(todo[t]).rs) \/ In(s, names, x)
  BY AtHead
<1>2. X \in SUBSET Renderers
  BY <1>1
<1>3. p \in Seq(Op)
  BY <1>2, ForAllType
<1>4. \A names, x : In(p, names, x) <=> name \in names /\ x \in X
  BY <1>2, InForAll
<1>5. name \in Plain
  BY DEF Plain, OfApplies, Fresher
<1>6. NamesIn(p, Plain)
  BY <1>2, <1>5, NamesForAll
<1>7. KillsOK(p, registered)
  <2>1. CASE name = "kill"
    BY <1>1, <1>2, <2>1, KillsForAll
  <2>2. CASE name # "kill"
    <3>1. NamesIn(p, OpNames \ {"kill"})
      BY <1>2, <2>2, NamesForAll
    <3> QED BY <1>3, <3>1, KillsNames
  <2> QED BY <2>1, <2>2
<1> HIDE DEF p
<1>8. Goes(t, p \o Rest(t))
  BY <1>1 DEF p
<1>9. Does(t, p)
  BY <1>1, <1>3, <1>8, GoesDoes
<1> HIDE DEF s
<1>10. Shaped(t, p \o s)
  BY <1>1, <1>3, <1>6, PlainFront
<1>11. KillsOK(p \o s, registered')
  BY <1>1, <1>3, <1>7, KillsConcat
<1>12. \A x \in Renderers : NewNames(t, p, x)
  BY <1>1, <1>4 DEF NewNames, Fresher
<1>13. \A x \in Head(todo[t]).rs : name \in Ends => In(p, Ends, x) \/ x \notin managed'
  BY <1>4 DEF Ends
<1>14. Shaped(t, p \o Tail(todo[t])) /\ KillsOK(p \o Tail(todo[t]), registered')
  BY <1>10, <1>11 DEF s
<1> QED BY <1>3, <1>9, <1>12, <1>13, <1>14, EffectAt

LEMMA ScheduleEffect ==
  ASSUME TodoOK, Shapes, Kills, NEW t \in Tasks, ScheduleGrace(t)
  PROVE  Effect(t)
<1>1. PICK r \in Head(todo[t]).rs :
        Goes(t, ForAll("schedule", Head(todo[t]).rs \ {r}) \o Tail(todo[t]))
  BY DEF ScheduleGrace
<1>2. Running(t, "schedule") /\ registered' = registered /\ link' = link
  BY DEF ScheduleGrace
<1> QED BY <1>1, <1>2, OneFront DEF OpNames

LEMMA ForAllNone == \A name : ForAll(name, {}) = <<>>
BY DEF ForAll, Loop

LEMMA CancelEffect ==
  ASSUME TodoOK, Shapes, Kills, NEW t \in Tasks, CancelTimer(t)
  PROVE  Effect(t)
<1>1. Running(t, "cancel") /\ registered' = registered /\ link' = link /\ Goes(t, Tail(todo[t]))
  BY DEF CancelTimer
<1>2. Tail(todo[t]) \in Seq(Op)
  BY <1>1, AtHead DEF OpNames
<1>3. ForAll("cancel", {}) \o Tail(todo[t]) = Tail(todo[t])
  BY <1>2, ForAllNone
<1>4. Goes(t, ForAll("cancel", {}) \o Tail(todo[t])) /\ {} \in SUBSET Head(todo[t]).rs
  BY <1>1, <1>3
<1> QED BY <1>1, <1>4, OneFront DEF OpNames

LEMMA TrackEffect ==
  ASSUME TodoOK, Shapes, Kills, NEW t \in Tasks, TrackAcks(t)
  PROVE  Effect(t)
<1>1. Running(t, "track") /\ registered' = registered /\ link' = link /\ Goes(t, Tail(todo[t]))
  BY DEF TrackAcks, tableVars
<1>2. Tail(todo[t]) \in Seq(Op)
  BY <1>1, AtHead DEF OpNames
<1>3. ForAll("track", {}) \o Tail(todo[t]) = Tail(todo[t])
  BY <1>2, ForAllNone
<1>4. Goes(t, ForAll("track", {}) \o Tail(todo[t])) /\ {} \in SUBSET Head(todo[t]).rs
  BY <1>1, <1>3
<1> QED BY <1>1, <1>4, OneFront DEF OpNames

LEMMA AwaitEffect ==
  ASSUME TodoOK, Shapes, Kills, NEW t \in Tasks, AwaitAcks(t)
  PROVE  Effect(t)
<1>1. PICK r \in Head(todo[t]).rs :
        Goes(t, ForAll("await", Head(todo[t]).rs \ {r}) \o Tail(todo[t]))
  BY DEF AwaitAcks
<1>2. Running(t, "await") /\ registered' = registered /\ link' = link
  BY DEF AwaitAcks, tableVars
<1> QED BY <1>1, <1>2, OneFront DEF OpNames

LEMMA KillEffect ==
  ASSUME TodoOK, Shapes, Kills, NEW t \in Tasks, MgrKill(t)
  PROVE  Effect(t)
<1>1. PICK r \in Head(todo[t]).rs :
        /\ managed' = managed \ {r}
        /\ Goes(t, ForAll("kill", Head(todo[t]).rs \ {r}) \o Tail(todo[t]))
  BY DEF MgrKill
<1>2. Running(t, "kill") /\ registered' = registered /\ link' = link
  BY DEF MgrKill, tableVars
<1>3. \A x \in Head(todo[t]).rs : x \in Head(todo[t]).rs \ {r} \/ x \notin managed'
  BY <1>1
<1> QED BY <1>1, <1>2, <1>3, OneFront DEF OpNames

LEMMA NoFirstLast ==
  ASSUME NEW p \in Seq(Op), NamesIn(p, OpNames \ (Fresher \cup {"lookup", "find", "spawn"}))
  PROVE  FirstOnly(p) /\ LastOnly(p) /\ NamesIn(p, OpNames \ {"lookup", "find", "spawn"})
BY DEF FirstOnly, LastOnly, NamesIn

\* What is taken off the table goes on to be killed.
LEMMA UnregisterEffect ==
  ASSUME TodoOK, TableOK, Shapes, Kills, NEW t \in Tasks, Unregister(t)
  PROVE  Effect(t)
<1> USE DEF OpNames
<1>1. PICK r \in Head(todo[t]).rs :
        Remove(t, r, ForAll("unregister", Head(todo[t]).rs \ {r}) \o Tail(todo[t]))
  BY DEF Unregister
<1> DEFINE s == Tail(todo[t])
           rs == Head(todo[t]).rs
           a == SyncAll(Audience(r))
           x == ForAll("unregister", rs \ {r})
           p == a \o x
<1>2. Running(t, "unregister") /\ todo[t] # <<>>
  BY DEF Unregister, Running
<1>3. /\ rs \in SUBSET Renderers /\ Rest(t) = s /\ s \in Seq(Op)
      /\ Shaped(t, s) /\ (\A i \in DOMAIN s : s[i].op \notin Fresher)
      /\ KillsOK(s, registered \ rs) /\ t \notin Eventing
      /\ \A y \in rs \ MayCrash : In(s, {"kill"}, y)
      /\ \A names, y : In(todo[t], names, y) <=>
              ("unregister" \in names /\ y \in rs) \/ In(s, names, y)
  BY <1>2, AtHead
<1>4. r \in Renderers /\ rs \ {r} \in SUBSET Renderers /\ Audience(r) \in SUBSET Displays
  BY <1>3 DEF Audience
<1>5. a \in Seq(Op) /\ x \in Seq(Op)
  BY <1>4, SyncAllType, ForAllType
<1>6. p \in Seq(Op)
  BY <1>5, ConcatType
<1>7. /\ NamesIn(a, OpNames \ (OfApplies \cup {"kill"}))
      /\ NamesIn(x, OpNames \ (OfApplies \cup {"kill"}))
  BY <1>4, NamesSyncAll, NamesForAll DEF OfApplies, Fresher
<1>8. NamesIn(p, OpNames \ (OfApplies \cup {"kill"}))
  BY <1>5, <1>7, NamesConcat
<1>9. \A names, y : In(p, names, y) <=> "unregister" \in names /\ y \in rs \ {r}
  <2>1. \A names, y : In(p, names, y) <=> In(a, names, y) \/ In(x, names, y)
    BY <1>5, InConcat
  <2>2. \A names, y : ~In(a, names, y)
    BY <1>4, InSyncAll
  <2>3. \A names, y : In(x, names, y) <=> "unregister" \in names /\ y \in rs \ {r}
    BY <1>4, InForAll
  <2> QED BY <2>1, <2>2, <2>3
<1>10. \A d \in Audience(r) : Syncs(p, d)
  BY <1>4, <1>5, SyncsSyncAll, SyncsConcat
<1>11. Does(t, p)
  BY <1>1, <1>2, <1>3, <1>4, <1>5, RemoveDoes
<1>12. registered' = registered \ {r} /\ \A d \in Displays : link'[d] # link[d] => d \in Audience(r)
  BY <1>1 DEF Remove, LinksWithout, Audience
<1>13. present' = present
  BY <1>1 DEF Remove
<1> HIDE DEF p, a, x, s, rs
<1>14. /\ NamesIn(p, OpNames \ (Fresher \cup {"lookup", "find", "spawn"})) /\ NamesIn(p, OpNames \ OfApplies)
       /\ NamesIn(p, OpNames \ {"kill"})
  BY <1>8 DEF NamesIn, OfApplies
<1>15. \A i \in DOMAIN p : p[i].op = "unregister" =>
         \A y \in p[i].rs \ MayCrash : In(s, {"kill"}, y)
  <2> SUFFICES ASSUME NEW i \in DOMAIN p, p[i].op = "unregister", NEW y \in p[i].rs \ MayCrash
               PROVE  In(s, {"kill"}, y)
    OBVIOUS
  <2>1. In(p, {"unregister"}, y)
    BY DEF In
  <2> QED BY <1>3, <1>9, <2>1
<1>16. Shaped(t, p \o s)
  BY <1>3, <1>6, <1>14, <1>15, NoFirstLast, ShapedConcat
<1>17. KillsOK(p \o s, registered')
  <2>1. KillsOK(p, registered')
    BY <1>6, <1>14, KillsNames
  <2>2. \A y \in registered' \ (registered \ rs) : In(p, {"unregister"}, y)
    BY <1>9, <1>12
  <2> QED BY <1>3, <1>6, <2>1, <2>2, KillsConcat
<1>18. \A y \in Renderers : NewNames(t, p, y)
  BY <1>3, <1>9 DEF NewNames, Touches, Fresher
<1>19. \A d \in present' : link'[d] # link[d] => Syncs(p, d) /\ t \notin Eventing
  <2> SUFFICES ASSUME NEW d \in present', link'[d] # link[d] PROVE Syncs(p, d)
    BY <1>3
  <2>1. d \in Audience(r)
    <3>1. d \in Displays
      BY <1>13 DEF TableOK
    <3> QED BY <1>12, <3>1
  <2> QED BY <1>10, <2>1
<1>20. Shaped(t, p \o Tail(todo[t])) /\ KillsOK(p \o Tail(todo[t]), registered')
  BY <1>16, <1>17 DEF s
<1> QED BY <1>2, <1>6, <1>11, <1>18, <1>19, <1>20, EffectAt DEF Ends

LEMMA ReapEffect ==
  ASSUME TodoOK, TableOK, Shapes, Kills, NEW t \in Tasks, Reap(t)
  PROVE  Effect(t)
<1> USE DEF OpNames
<1>1. PICK r \in Head(todo[t]).rs :
        Remove(t, r, ForAll("kill", {r}) \o ForAll("reap", Head(todo[t]).rs \ {r}) \o Tail(todo[t]))
  BY DEF Reap
<1> DEFINE s == Tail(todo[t])
           rs == Head(todo[t]).rs
           a == SyncAll(Audience(r))
           k == ForAll("kill", {r})
           b == ForAll("reap", rs \ {r})
           x == k \o b
           p == a \o x
<1>2. Running(t, "reap") /\ todo[t] # <<>>
  BY DEF Reap, Running
<1>3. /\ rs \in SUBSET Renderers /\ Rest(t) = s /\ s \in Seq(Op)
      /\ Shaped(t, s) /\ (\A i \in DOMAIN s : s[i].op \notin Fresher)
      /\ KillsOK(s, registered) /\ t \notin Eventing
      /\ \A names, y : In(todo[t], names, y) <=>
              ("reap" \in names /\ y \in rs) \/ In(s, names, y)
  BY <1>2, AtHead
<1>4. r \in Renderers /\ {r} \in SUBSET Renderers /\ rs \ {r} \in SUBSET Renderers
      /\ Audience(r) \in SUBSET Displays
  BY <1>3 DEF Audience
<1>5. a \in Seq(Op) /\ k \in Seq(Op) /\ b \in Seq(Op)
  BY <1>4, SyncAllType, ForAllType
<1>6. x \in Seq(Op)
  BY <1>5, ConcatType
<1>7. p \in Seq(Op)
  BY <1>5, <1>6, ConcatType
<1>8. NamesIn(a, Plain) /\ NamesIn(k, Plain) /\ NamesIn(b, Plain)
      /\ NamesIn(a, OpNames \ {"kill"}) /\ NamesIn(b, OpNames \ {"kill"})
  BY <1>4, NamesSyncAll, NamesForAll DEF Plain, OfApplies, Fresher
<1>9. NamesIn(x, Plain)
  BY <1>5, <1>8, NamesConcat
<1>10. NamesIn(p, Plain)
  BY <1>5, <1>6, <1>8, <1>9, NamesConcat
<1>11. registered' = registered \ {r} /\ \A d \in Displays : link'[d] # link[d] => d \in Audience(r)
  BY <1>1 DEF Remove, LinksWithout, Audience
<1>12. KillsOK(p, registered')
  <2>1. KillsOK(k, registered')
    BY <1>4, <1>11, KillsForAll
  <2>2. KillsOK(b, registered') /\ KillsOK(a, registered')
    BY <1>5, <1>8, KillsNames
  <2>3. KillsOK(x, registered')
    BY <1>5, <2>1, <2>2, KillsConcat
  <2> QED BY <1>5, <1>6, <2>2, <2>3, KillsConcat
<1>13. \A names, y : In(p, names, y) <=>
         ("kill" \in names /\ y = r) \/ ("reap" \in names /\ y \in rs \ {r})
  <2>1. \A names, y : In(p, names, y) <=> In(a, names, y) \/ In(x, names, y)
    BY <1>5, <1>6, InConcat
  <2>2. \A names, y : In(x, names, y) <=> In(k, names, y) \/ In(b, names, y)
    BY <1>5, InConcat
  <2>3. \A names, y : ~In(a, names, y)
    BY <1>4, InSyncAll
  <2>4. \A names, y : In(k, names, y) <=> "kill" \in names /\ y \in {r}
    BY <1>4, InForAll
  <2>5. \A names, y : In(b, names, y) <=> "reap" \in names /\ y \in rs \ {r}
    BY <1>4, InForAll
  <2> QED BY <2>1, <2>2, <2>3, <2>4, <2>5
<1>14. \A d \in Audience(r) : Syncs(p, d)
  BY <1>4, <1>5, <1>6, SyncsSyncAll, SyncsConcat
<1>15. Does(t, p)
  BY <1>1, <1>2, <1>3, <1>4, <1>6, RemoveDoes
<1>16. present' = present /\ present \subseteq Displays
  BY <1>1 DEF Remove, TableOK
<1> HIDE DEF p, x, a, b, k, s
<1>17. Shaped(t, p \o s)
  BY <1>3, <1>7, <1>10, PlainFront
<1>18. KillsOK(p \o s, registered')
  BY <1>3, <1>7, <1>11, <1>12, KillsFewer, KillsConcat
<1>19. \A y \in Renderers : NewNames(t, p, y)
  BY <1>1, <1>3, <1>13 DEF NewNames, Touches, Fresher
<1>20. \A d \in present' : link'[d] # link[d] => Syncs(p, d) /\ t \notin Eventing
  BY <1>3, <1>11, <1>14, <1>16
<1>21. Shaped(t, p \o Tail(todo[t])) /\ KillsOK(p \o Tail(todo[t]), registered')
  BY <1>17, <1>18 DEF s
<1> QED BY <1>2, <1>7, <1>15, <1>19, <1>20, <1>21, EffectAt DEF Ends

LEMMA OrphansEffect ==
  ASSUME TodoOK, TableOK, Shapes, Kills, NEW t \in Tasks, MarkOrphans(t)
  PROVE  Effect(t)
<1> USE DEF OpNames
<1> DEFINE keep == Head(todo[t]).rs
           candidates == {r \in registered \ keep : Audience(r) = {}}
           lone == present = {} /\ Cardinality(registered) = 1
           name == IF lone THEN "schedule" ELSE "reap"
           a == ForAll(name, candidates)
           b == ForAll("cancel", keep)
           p == a \o b
<1>1. /\ Goes(t, p \o Tail(todo[t])) /\ Running(t, "orphans")
      /\ registered' = registered /\ link' = link
  BY DEF MarkOrphans, tableVars
<1>2. keep \in SUBSET Renderers /\ Rest(t) = Tail(todo[t]) /\ t \notin Eventing
  BY <1>1, AtHead
<1>3. candidates \in SUBSET Renderers /\ candidates \subseteq registered
  BY DEF TableOK
<1>4. name \in {"schedule", "reap"}
  OBVIOUS
<1> HIDE DEF candidates, name
<1>5. a \in Seq(Op) /\ b \in Seq(Op)
  BY <1>2, <1>3, <1>4, ForAllType
<1>6. p \in Seq(Op)
  BY <1>5, ConcatType
<1>7. NamesIn(a, Plain \ {"kill"}) /\ NamesIn(b, Plain \ {"kill"})
  BY <1>2, <1>3, <1>4, NamesForAll DEF Plain, OfApplies, Fresher
<1>8. NamesIn(p, Plain \ {"kill"})
  BY <1>5, <1>7, NamesConcat
<1>9. \A names, y : In(p, names, y) <=>
         (name \in names /\ y \in candidates) \/ ("cancel" \in names /\ y \in keep)
  <2>1. \A names, y : In(p, names, y) <=> In(a, names, y) \/ In(b, names, y)
    BY <1>5, InConcat
  <2>2. \A names, y : In(a, names, y) <=> name \in names /\ y \in candidates
    BY <1>3, <1>4, InForAll
  <2>3. \A names, y : In(b, names, y) <=> "cancel" \in names /\ y \in keep
    BY <1>2, InForAll
  <2> QED BY <2>1, <2>2, <2>3
<1> HIDE DEF p
<1>10. Does(t, p)
  BY <1>1, <1>2, <1>6, GoesDoes
<1>11. Shaped(t, p \o Tail(todo[t])) /\ KillsOK(p \o Tail(todo[t]), registered')
  BY <1>1, <1>6, <1>8, QuietFront
<1>12. \A y \in Renderers : NewNames(t, p, y)
  BY <1>3, <1>4, <1>9 DEF NewNames, Known, Touches, Fresher
<1> QED BY <1>1, <1>6, <1>10, <1>11, <1>12, EffectAt DEF Ends

LEMMA FirstLastLoop ==
  ASSUME NEW name \in OpNames, NEW ds \in SUBSET Displays, NEW rs \in SUBSET Renderers
  PROVE  FirstOnly(Loop(name, ds, rs)) /\ LastOnly(Loop(name, ds, rs))
<1> DEFINE p == Loop(name, ds, rs)
<1>1. Len(p) \in {0, 1}
  BY LoopParts
<1>2. DOMAIN p = 1..Len(p)
  <2>1. p = <<>> \/ p = <<[op |-> name, ds |-> ds, rs |-> rs]>>
    BY DEF Loop
  <2> QED BY <2>1
<1> HIDE DEF p
<1>3. \A i \in DOMAIN p : i = 1 /\ i = Len(p)
  BY <1>1, <1>2
<1> QED BY <1>3 DEF FirstOnly, LastOnly, p

LEMMA FirstLastConcat ==
  ASSUME NEW p \in Seq(Op), NEW q \in Seq(Op), FirstOnly(p), LastOnly(q),
         NamesIn(p, OpNames \ {"lookup", "find", "spawn"}), NamesIn(q, OpNames \ Fresher)
  PROVE  FirstOnly(p \o q) /\ LastOnly(p \o q)
<1> DEFINE w == p \o q
<1>1. /\ Len(p) \in Nat /\ Len(q) \in Nat /\ Len(w) = Len(p) + Len(q)
      /\ \A i \in DOMAIN w : i \in Nat /\ i > 0 /\
           \/ i \in DOMAIN p /\ w[i] = p[i]
           \/ i > Len(p) /\ i - Len(p) \in DOMAIN q /\ w[i] = q[i - Len(p)]
  BY ConcatParts
<1> HIDE DEF w
<1>2. FirstOnly(w)
  BY <1>1 DEF FirstOnly, NamesIn
<1>3. LastOnly(w)
  <2> SUFFICES ASSUME NEW i \in DOMAIN w, w[i].op \in {"lookup", "find", "spawn"} PROVE i = Len(w)
    BY DEF LastOnly
  <2>1. ~(i \in DOMAIN p /\ w[i] = p[i])
    BY DEF NamesIn
  <2>2. i \in Nat /\ i - Len(p) \in DOMAIN q /\ w[i] = q[i - Len(p)]
    BY <1>1, <2>1
  <2>3. i - Len(p) = Len(q)
    BY <2>2 DEF LastOnly
  <2> QED BY <1>1, <2>2, <2>3
<1> QED BY <1>2, <1>3 DEF w

\* Taken off the table, then killed.
LEMMA StopsInOrder ==
  ASSUME NEW X \in SUBSET Renderers, NEW p \in Seq(Op),
         NamesIn(p, {"track", "unregister", "await"}),
         \A y : In(p, {"unregister"}, y) <=> y \in X
  PROVE  /\ p \o ForAll("kill", X) \in Seq(Op)
         /\ UnregsOK(p \o ForAll("kill", X))
         /\ \A R : KillsOK(p \o ForAll("kill", X), R)
         /\ NamesIn(p \o ForAll("kill", X), {"track", "unregister", "await", "kill"})
<1> USE DEF OpNames
<1> DEFINE k == ForAll("kill", X)
<1>1. k \in Seq(Op)
  BY ForAllType
<1>2. NamesIn(k, {"kill"})
  BY NamesForAll
<1>3. \A y : In(k, {"kill"}, y) <=> y \in X
  BY InForAll
<1>4. \A R : KillsOK(k, R \ X)
  BY KillsForAll
<1> HIDE DEF k
<1>5. UnregsOK(k)
  BY <1>2 DEF UnregsOK, NamesIn
<1>6. UnregsOK(p \o k)
  <2>1. \A i \in DOMAIN p : p[i].op = "unregister" =>
           \A r \in p[i].rs \ MayCrash : In(k, {"kill"}, r)
    <3> SUFFICES ASSUME NEW i \in DOMAIN p, p[i].op = "unregister", NEW r \in p[i].rs \ MayCrash
                 PROVE  In(k, {"kill"}, r)
      OBVIOUS
    <3>1. In(p, {"unregister"}, r)
      BY DEF In
    <3> QED BY <1>3, <3>1
  <2> QED BY <1>1, <1>5, <2>1, UnregsConcat
<1>7. \A R : KillsOK(p \o k, R)
  <2> SUFFICES ASSUME NEW R PROVE KillsOK(p \o k, R)
    OBVIOUS
  <2>1. KillsOK(p, R)
    BY DEF NamesIn, KillsOK
  <2>2. \A r \in R \ (R \ X) : In(p, {"unregister"}, r)
    OBVIOUS
  <2> QED BY <1>1, <1>4, <2>1, <2>2, KillsConcat
<1>8. NamesIn(p \o k, {"track", "unregister", "await", "kill"})
  <2>1. NamesIn(p, {"track", "unregister", "await", "kill"}) /\ NamesIn(k, {"track", "unregister", "await", "kill"})
    BY <1>2 DEF NamesIn
  <2> QED BY <1>1, <2>1, NamesConcat
<1>9. p \o k \in Seq(Op)
  BY <1>1, ConcatType
<1> QED BY <1>6, <1>7, <1>8, <1>9 DEF k

\* Off the table and killed.
LEMMA StopOne ==
  ASSUME NEW X \in SUBSET Renderers
  PROVE  /\ ForAll("unregister", X) \o ForAll("kill", X) \in Seq(Op)
         /\ UnregsOK(ForAll("unregister", X) \o ForAll("kill", X))
         /\ \A R : KillsOK(ForAll("unregister", X) \o ForAll("kill", X), R)
         /\ NamesIn(ForAll("unregister", X) \o ForAll("kill", X), {"track", "unregister", "await", "kill"})
         /\ \A names, y : In(ForAll("unregister", X) \o ForAll("kill", X), names, y) => y \in X
<1> USE DEF OpNames
<1>1. ForAll("unregister", X) \in Seq(Op) /\ ForAll("kill", X) \in Seq(Op)
  BY ForAllType
<1>2. NamesIn(ForAll("unregister", X), {"track", "unregister", "await"})
  BY NamesForAll
<1>3. /\ \A names, y : In(ForAll("unregister", X), names, y) <=> "unregister" \in names /\ y \in X
      /\ \A names, y : In(ForAll("kill", X), names, y) <=> "kill" \in names /\ y \in X
  BY InForAll
<1>4. \A y : In(ForAll("unregister", X), {"unregister"}, y) <=> y \in X
  BY <1>3
<1>5. \A names, y : In(ForAll("unregister", X) \o ForAll("kill", X), names, y) => y \in X
  BY <1>1, <1>3, InConcat
<1> QED BY <1>1, <1>2, <1>4, <1>5, StopsInOrder

\* What may be put in front of a list that is no event task's.
LEMMA OrderlyFront ==
  ASSUME TodoOK, Shapes, Kills, NEW t \in Tasks, NEW name \in OpNames, Running(t, name),
         name \notin {"unregister", "sync"}, NEW p \in Seq(Op), registered' \subseteq registered,
         UnregsOK(p), KillsOK(p, registered'), FirstOnly(p), LastOnly(p),
         name \in {"lookup", "find", "spawn"} \/ NamesIn(p, OpNames \ {"lookup", "find", "spawn"}),
         t \in Applying \/ NamesIn(p, OpNames \ OfApplies)
  PROVE  Shaped(t, p \o Tail(todo[t])) /\ KillsOK(p \o Tail(todo[t]), registered')
<1> DEFINE s == Tail(todo[t])
<1>1. /\ s \in Seq(Op) /\ Shaped(t, s) /\ \A i \in DOMAIN s : s[i].op \notin Fresher
      /\ KillsOK(s, registered) /\ t \notin Eventing
      /\ name \in {"lookup", "find", "spawn"} => s = <<>>
  BY AtHead
<1> HIDE DEF s
<1>2. KillsOK(p \o s, registered')
  BY <1>1, KillsFewer, KillsConcat
<1>3. Shaped(t, p \o s)
  BY <1>1, ShapedConcat DEF UnregsOK
<1> QED BY <1>2, <1>3 DEF s

LEMMA PlanEffect ==
  ASSUME TodoOK, TableOK, Shapes, Kills, NEW t \in Tasks, PlanStop(t)
  PROVE  Effect(t)
<1> USE DEF OpNames
<1> DEFINE stop == {r \in registered : Audience(r) \subseteq Head(todo[t]).ds}
           a == ForAll("track", stop)
           b == ForAll("unregister", stop)
           c == ForAll("await", stop)
           k == ForAll("kill", stop)
           ab == a \o b
           abc == ab \o c
           p == abc \o k
<1>1. /\ Goes(t, p \o Tail(todo[t])) /\ Running(t, "plan")
      /\ registered' = registered /\ link' = link
  BY DEF PlanStop, tableVars
<1>2. Rest(t) = Tail(todo[t]) /\ t \in Applying
  BY <1>1, AtHead DEF OfApplies
<1>3. stop \in SUBSET Renderers /\ stop \subseteq registered
  BY DEF TableOK
<1> HIDE DEF stop
<1>4. a \in Seq(Op) /\ b \in Seq(Op) /\ c \in Seq(Op) /\ k \in Seq(Op)
  BY <1>3, ForAllType
<1>5. ab \in Seq(Op)
  BY <1>4, ConcatType
<1>6. abc \in Seq(Op)
  BY <1>4, <1>5, ConcatType
<1>7. LET N == {"track", "unregister", "await"} IN NamesIn(a, N) /\ NamesIn(b, N) /\ NamesIn(c, N)
  BY <1>3, NamesForAll
<1>8. NamesIn(ab, {"track", "unregister", "await"})
  BY <1>4, <1>7, NamesConcat
<1>9. NamesIn(abc, {"track", "unregister", "await"})
  BY <1>4, <1>5, <1>7, <1>8, NamesConcat
<1>10. /\ \A names, y : In(a, names, y) <=> "track" \in names /\ y \in stop
       /\ \A names, y : In(b, names, y) <=> "unregister" \in names /\ y \in stop
       /\ \A names, y : In(c, names, y) <=> "await" \in names /\ y \in stop
       /\ \A names, y : In(k, names, y) <=> "kill" \in names /\ y \in stop
  BY <1>3, InForAll
<1>11. \A names, y : In(ab, names, y) <=> In(a, names, y) \/ In(b, names, y)
  BY <1>4, InConcat
<1>12. \A names, y : In(abc, names, y) <=> In(ab, names, y) \/ In(c, names, y)
  BY <1>4, <1>5, InConcat
<1>13. \A names, y : In(p, names, y) <=> In(abc, names, y) \/ In(k, names, y)
  BY <1>4, <1>6, InConcat
<1>14. \A y : In(abc, {"unregister"}, y) <=> y \in stop
  BY <1>10, <1>11, <1>12
<1>15. \A names, y : In(p, names, y) => y \in stop
  BY <1>10, <1>11, <1>12, <1>13
<1> HIDE DEF abc, ab, a, b, c
<1>16. /\ p \in Seq(Op) /\ UnregsOK(p) /\ KillsOK(p, registered')
       /\ NamesIn(p, {"track", "unregister", "await", "kill"})
  BY <1>3, <1>6, <1>9, <1>14, StopsInOrder
<1>17. \A names, y : In(p, names, y) => \E n \in names : n \in {"track", "unregister", "await", "kill"}
  BY <1>16 DEF NamesIn, In
<1> HIDE DEF p, k
<1>18. NamesIn(p, OpNames \ (Fresher \cup {"lookup", "find", "spawn"}))
  BY <1>16 DEF NamesIn, Fresher
<1>19. Does(t, p)
  BY <1>1, <1>2, <1>16, GoesDoes
<1>20. Shaped(t, p \o Tail(todo[t])) /\ KillsOK(p \o Tail(todo[t]), registered')
  BY <1>1, <1>2, <1>16, <1>18, NoFirstLast, OrderlyFront
<1>21. \A y \in Renderers : NewNames(t, p, y)
  BY <1>3, <1>15, <1>17 DEF NewNames, Known, Fresher
<1> QED BY <1>1, <1>16, <1>19, <1>20, <1>21, EffectAt DEF Ends

LEMMA EndsHere ==
  ASSUME TodoOK, Shapes, Kills, NEW t \in Tasks, NEW name \in {"lookup", "find", "spawn"},
         Running(t, name), Goes(t, <<>>), registered' = registered, link' = link
  PROVE  Effect(t)
<1> USE DEF OpNames
<1>1. Tail(todo[t]) = <<>> /\ Rest(t) = Tail(todo[t]) /\ <<>> \in Seq(Op)
  BY AtHead
<1>2. <<>> \o <<>> = <<>>
  OBVIOUS
<1>3. Does(t, <<>>)
  BY <1>1, <1>2, GoesDoes
<1>4. Shaped(t, <<>>) /\ KillsOK(<<>>, registered')
  BY ShapedEmpty DEF KillsOK
<1>5. Shaped(t, <<>> \o Tail(todo[t])) /\ KillsOK(<<>> \o Tail(todo[t]), registered')
  BY <1>1, <1>2, <1>4
<1>6. \A x \in Renderers : NewNames(t, <<>>, x)
  BY InEmpty, NoNames
<1> QED BY <1>1, <1>3, <1>5, <1>6, EffectAt DEF Ends

LEMMA FindEffect ==
  ASSUME TodoOK, TableOK, ManagerOK, Shapes, Kills, KnownOnes, NEW t \in Tasks, Find(t)
  PROVE  Effect(t)
<1> USE DEF OpNames
<1> DEFINE ds == Head(todo[t]).ds
<1>1. Running(t, "find") /\ registered' = registered /\ link' = link /\ used' = used
  BY DEF Find, tableVars, mgrVars
<1>2. ds \in SUBSET Displays /\ Rest(t) = Tail(todo[t]) /\ t \in Applying /\ Tail(todo[t]) = <<>>
  BY <1>1, AtHead DEF OfApplies
<1> HIDE DEF ds
<1>3. ASSUME NEW p \in Seq(Op), Goes(t, p \o Tail(todo[t])), FirstOnly(p), LastOnly(p),
             NamesIn(p, {"relink", "plan", "spawn"}), \A x : In(p, {"relink"}, x) => x \in managed,
             \A x : ~In(p, Touches, x)
      PROVE  Effect(t)
  <2>1. UnregsOK(p) /\ KillsOK(p, registered') /\ \A x : ~In(p, Fresher, x) /\ ~In(p, {"register"}, x)
    BY <1>3 DEF UnregsOK, KillsOK, NamesIn, In, Fresher
  <2>2. Does(t, p)
    BY <1>2, <1>3, GoesDoes
  <2>3. Shaped(t, p \o Tail(todo[t])) /\ KillsOK(p \o Tail(todo[t]), registered')
    BY <1>1, <1>2, <1>3, <2>1, OrderlyFront
  <2>4. \A x \in Renderers : NewNames(t, p, x)
    BY <1>1, <1>3, <2>1 DEF NewNames, KnownOnes
  <2> QED BY <1>1, <2>2, <2>3, <2>4, EffectAt DEF Ends
<1>4. CASE Goes(t, <<>>)
  BY <1>1, <1>4, EndsHere
<1>5. ASSUME NEW r \in managed, Goes(t, Loop("relink", ds, {r}) \o Tail(todo[t]))
      PROVE Effect(t)
  <2> DEFINE p == Loop("relink", ds, {r})
  <2>1. {r} \in SUBSET Renderers /\ r \in Renderers
    BY DEF ManagerOK
  <2>2. p \in Seq(Op)
    BY <1>2, <2>1, LoopType
  <2>3. FirstOnly(p) /\ LastOnly(p)
    BY <1>2, <2>1, FirstLastLoop
  <2>4. NamesIn(p, {"relink", "plan", "spawn"})
    BY <1>2, <2>1, NamesLoop
  <2>5. \A names, x : In(p, names, x) <=> "relink" \in names /\ x \in {r}
    BY <1>2, <2>1, InLoop
  <2> HIDE DEF p
  <2>6. \A x : (In(p, {"relink"}, x) => x \in managed) /\ ~In(p, Touches, x)
    BY <2>5 DEF Touches
  <2>7. Goes(t, p \o Tail(todo[t]))
    BY <1>5 DEF p
  <2> QED BY <1>3, <2>2, <2>3, <2>4, <2>6, <2>7
<1>6. CASE Goes(t, (IF OfUi(t) THEN Loop("plan", ds, {}) ELSE <<>>)
                     \o Loop("spawn", ds, {}) \o Tail(todo[t]))
  <2> DEFINE a == IF OfUi(t) THEN Loop("plan", ds, {}) ELSE <<>>
             b == Loop("spawn", ds, {})
             p == a \o b
  <2>1. {} \in SUBSET Renderers
    OBVIOUS
  <2>2. Loop("plan", ds, {}) \in Seq(Op) /\ b \in Seq(Op)
    BY <1>2, LoopType
  <2>3. a \in Seq(Op)
    BY <2>2
  <2>4. FirstOnly(Loop("plan", ds, {})) /\ LastOnly(b)
    BY <1>2, <2>1, FirstLastLoop
  <2>5. FirstOnly(a)
    BY <2>4 DEF FirstOnly
  <2>6. NamesIn(Loop("plan", ds, {}), {"plan"}) /\ NamesIn(b, {"spawn"})
    BY <1>2, <2>1, NamesLoop
  <2>7. NamesIn(a, {"plan"})
    BY <2>6 DEF NamesIn
  <2>8. /\ \A names, x : ~In(Loop("plan", ds, {}), names, x)
        /\ \A names, x : ~In(b, names, x)
    BY <1>2, <2>1, InLoop
  <2>9. \A names, x : ~In(a, names, x)
    BY <2>8, InEmpty
  <2> HIDE DEF a, b
  <2>10. p \in Seq(Op) /\ \A names, x : ~In(p, names, x)
    BY <2>2, <2>3, <2>8, <2>9, ConcatType, InConcat
  <2>11. NamesIn(a, OpNames \ {"lookup", "find", "spawn"}) /\ NamesIn(b, OpNames \ Fresher)
         /\ NamesIn(a, {"relink", "plan", "spawn"}) /\ NamesIn(b, {"relink", "plan", "spawn"})
    BY <2>6, <2>7 DEF NamesIn, Fresher
  <2>12. FirstOnly(p) /\ LastOnly(p)
    BY <2>2, <2>3, <2>4, <2>5, <2>11, FirstLastConcat
  <2>13. NamesIn(p, {"relink", "plan", "spawn"})
    BY <2>2, <2>3, <2>11, NamesConcat
  <2>14. Goes(t, p \o Tail(todo[t]))
    BY <1>6 DEF a, b
  <2> QED BY <1>3, <2>10, <2>12, <2>13, <2>14
<1> QED BY <1>4, <1>5, <1>6 DEF Find, ds

LEMMA LookUpEffect ==
  ASSUME TodoOK, Shapes, Kills, NEW t \in Tasks, LookUp(t)
  PROVE  Effect(t)
<1> USE DEF OpNames
<1> DEFINE ds == Head(todo[t]).ds
<1>1. Running(t, "lookup") /\ registered' = registered /\ link' = link
  BY DEF LookUp, tableVars
<1>2. ds \in SUBSET Displays /\ Rest(t) = Tail(todo[t]) /\ t \in Applying /\ Tail(todo[t]) = <<>>
  BY <1>1, AtHead DEF OfApplies
<1> HIDE DEF ds
<1>3. CASE Goes(t, <<>>)
  BY <1>1, <1>3, EndsHere
<1>4. CASE Goes(t, Loop("plan", ds, {}) \o Loop("find", ds, {}) \o Tail(todo[t]))
  <2> DEFINE a == Loop("plan", ds, {})
             b == Loop("find", ds, {})
             p == a \o b
  <2>1. {} \in SUBSET Renderers
    OBVIOUS
  <2>2. a \in Seq(Op) /\ b \in Seq(Op)
    BY <1>2, LoopType
  <2>3. FirstOnly(a) /\ LastOnly(b)
    BY <1>2, <2>1, FirstLastLoop
  <2>4. NamesIn(a, {"plan"}) /\ NamesIn(b, {"find"})
    BY <1>2, <2>1, NamesLoop
  <2>5. /\ \A names, x : ~In(a, names, x)
        /\ \A names, x : ~In(b, names, x)
    BY <1>2, <2>1, InLoop
  <2> HIDE DEF a, b
  <2>6. p \in Seq(Op) /\ \A names, x : ~In(p, names, x)
    BY <2>2, <2>5, ConcatType, InConcat
  <2>7. NamesIn(a, OpNames \ {"lookup", "find", "spawn"}) /\ NamesIn(b, OpNames \ Fresher)
        /\ NamesIn(a, {"plan", "find"}) /\ NamesIn(b, {"plan", "find"})
    BY <2>4 DEF NamesIn, Fresher
  <2>8. FirstOnly(p) /\ LastOnly(p)
    BY <2>2, <2>3, <2>7, FirstLastConcat
  <2>9. NamesIn(p, {"plan", "find"})
    BY <2>2, <2>7, NamesConcat
  <2>10. Goes(t, p \o Rest(t))
    BY <1>2, <1>4 DEF a, b
  <2> HIDE DEF p
  <2>11. UnregsOK(p) /\ KillsOK(p, registered')
    BY <2>9 DEF UnregsOK, KillsOK, NamesIn
  <2>12. Does(t, p)
    BY <2>6, <2>10, GoesDoes
  <2>13. Shaped(t, p \o Tail(todo[t])) /\ KillsOK(p \o Tail(todo[t]), registered')
    BY <1>1, <1>2, <2>6, <2>8, <2>11, OrderlyFront
  <2>14. \A x \in Renderers : NewNames(t, p, x)
    BY <2>6, NoNames
  <2> QED BY <1>1, <2>6, <2>12, <2>13, <2>14, EffectAt DEF Ends
<1> QED BY <1>3, <1>4 DEF LookUp, ds

LEMMA SpawnEffect ==
  ASSUME TodoOK, TableOK, ManagerOK, Shapes, Kills, NEW t \in Tasks, Spawn(t)
  PROVE  Effect(t)
<1> USE DEF OpNames
<1> DEFINE ds == Head(todo[t]).ds
<1>1. /\ Running(t, "spawn") /\ registered' = registered /\ link' = link
  BY DEF Spawn, tableVars
<1>2. PICK r \in Renderers \ used :
        /\ managed' = managed \cup {r} /\ used' = used \cup {r}
        /\ Goes(t, ForAll("attach", {r}) \o Loop("relink", ds, {r}) \o Tail(todo[t]))
  BY DEF Spawn
<1>3. ds \in SUBSET Displays /\ Rest(t) = Tail(todo[t]) /\ t \in Applying /\ Tail(todo[t]) = <<>>
  BY <1>1, AtHead DEF OfApplies
<1> HIDE DEF ds
<1> DEFINE a == ForAll("attach", {r})
           b == Loop("relink", ds, {r})
           p == a \o b
<1>4. {r} \in SUBSET Renderers /\ {} \in SUBSET Displays
  OBVIOUS
<1>5. a \in Seq(Op) /\ b \in Seq(Op)
  BY <1>3, <1>4, ForAllType, LoopType
<1>6. FirstOnly(Loop("attach", {}, {r})) /\ LastOnly(b)
  BY <1>3, <1>4, FirstLastLoop
<1>7. FirstOnly(a)
  BY <1>6 DEF ForAll
<1>8. NamesIn(a, {"attach"}) /\ NamesIn(b, {"relink"})
  BY <1>3, <1>4, NamesForAll, NamesLoop
<1>9. /\ \A names, x : In(a, names, x) <=> "attach" \in names /\ x \in {r}
      /\ \A names, x : In(b, names, x) <=> "relink" \in names /\ x \in {r}
  BY <1>3, <1>4, InForAll, InLoop
<1> HIDE DEF a, b
<1>10. p \in Seq(Op)
  BY <1>5, ConcatType
<1>11. \A names, x : In(p, names, x) <=> In(a, names, x) \/ In(b, names, x)
  BY <1>5, InConcat
<1>12. NamesIn(a, OpNames \ {"lookup", "find", "spawn"}) /\ NamesIn(b, OpNames \ Fresher)
       /\ NamesIn(a, {"attach", "relink"}) /\ NamesIn(b, {"attach", "relink"})
  BY <1>8 DEF NamesIn, Fresher
<1>13. FirstOnly(p) /\ LastOnly(p)
  BY <1>5, <1>6, <1>7, <1>12, FirstLastConcat
<1>14. NamesIn(p, {"attach", "relink"})
  BY <1>5, <1>12, NamesConcat
<1>15. Goes(t, p \o Rest(t))
  BY <1>2, <1>3 DEF a, b
<1> HIDE DEF p
<1>16. UnregsOK(p) /\ KillsOK(p, registered')
  BY <1>14 DEF UnregsOK, KillsOK, NamesIn
<1>17. Does(t, p)
  BY <1>10, <1>15, GoesDoes
<1>18. Shaped(t, p \o Tail(todo[t])) /\ KillsOK(p \o Tail(todo[t]), registered')
  BY <1>1, <1>3, <1>10, <1>13, <1>16, OrderlyFront
<1>19. \A x \in Renderers : NewNames(t, p, x)
  BY <1>2, <1>9, <1>11 DEF NewNames, Touches, Fresher
<1> QED BY <1>1, <1>10, <1>17, <1>18, <1>19, EffectAt DEF Ends

LEMMA SpawnFailsEffect ==
  ASSUME TodoOK, Shapes, Kills, NEW t \in Tasks, SpawnFails(t)
  PROVE  Effect(t)
<1>1. Running(t, "spawn") /\ Goes(t, <<>>) /\ registered' = registered /\ link' = link
  BY DEF SpawnFails, tableVars
<1> QED BY <1>1, EndsHere

LEMMA AttachEffect ==
  ASSUME TodoOK, TableOK, ManagerOK, Shapes, Kills, NEW t \in Tasks, Attach(t)
  PROVE  Effect(t)
<1> USE DEF OpNames
<1> DEFINE r == CHOOSE x \in Head(todo[t]).rs : TRUE
<1>1. /\ Running(t, "attach") /\ registered' = registered /\ link' = link /\ managed' = managed
  BY DEF Attach, tableVars, mgrVars
<1>2. Rest(t) = Tail(todo[t]) /\ t \in Applying /\ Tail(todo[t]) \in Seq(Op)
  BY <1>1, AtHead DEF OfApplies, Fresher
<1>3. Head(todo[t]) \in Op /\ Head(todo[t]).op = "attach"
  BY <1>1, RunningType
<1>4. r \in Renderers /\ Head(todo[t]).rs = {r}
  <2>1. PICK x \in Renderers : Head(todo[t]).rs = {x}
    BY <1>3 DEF Op
  <2>2. r = x
    BY <2>1
  <2> QED BY <2>1, <2>2
<1>5. \/ /\ r \in managed /\ subscribed' = subscribed \cup {r}
         /\ Goes(t, ForAll("register", {r}) \o Tail(todo[t]))
      \/ r \notin managed /\ Goes(t, Tail(todo[t]))
  BY DEF Attach
<1> HIDE DEF r
<1>6. \A x \in Renderers : In(todo[t], {"attach", "register"}, x) <=>
        x = r \/ In(Tail(todo[t]), {"attach", "register"}, x)
  BY <1>1, <1>4, AtHead
<1>7. CASE r \in managed /\ subscribed' = subscribed \cup {r}
           /\ Goes(t, ForAll("register", {r}) \o Tail(todo[t]))
  <2> DEFINE p == ForAll("register", {r})
  <2>1. {r} \in SUBSET Renderers /\ {} \in SUBSET Displays
    BY <1>4
  <2>2. p \in Seq(Op)
    BY <1>4, <2>1, ForAllType
  <2>3. FirstOnly(p) /\ LastOnly(p)
    BY <2>1, FirstLastLoop DEF ForAll
  <2>4. NamesIn(p, {"register"})
    BY <2>1, NamesForAll
  <2>5. \A names, x : In(p, names, x) <=> "register" \in names /\ x \in {r}
    BY <2>1, InForAll
  <2>6. Goes(t, p \o Rest(t))
    BY <1>2, <1>7
  <2> HIDE DEF p
  <2>7. UnregsOK(p) /\ KillsOK(p, registered') /\ NamesIn(p, OpNames \ {"lookup", "find", "spawn"})
    BY <2>4 DEF UnregsOK, KillsOK, NamesIn
  <2>8. Does(t, p)
    BY <2>2, <2>6, GoesDoes
  <2>9. \A i \in DOMAIN Tail(todo[t]) : Tail(todo[t])[i].op \notin Fresher
    BY <1>1, AtHead
  <2>10. Shaped(t, p \o Tail(todo[t])) /\ KillsOK(p \o Tail(todo[t]), registered')
    BY <1>1, <1>2, <2>2, <2>3, <2>7, OrderlyFront
  <2>11. \A x \in Renderers : NewNames(t, p, x)
    <3> SUFFICES ASSUME NEW x \in Renderers PROVE NewNames(t, p, x)
      OBVIOUS
    <3>1. In(p, Fresher, x) => In(todo[t], Fresher, x)
      BY <1>6, <2>5 DEF Fresher
    <3>2. ~In(p, Touches, x) /\ ~In(p, {"relink"}, x)
      BY <2>5 DEF Touches
    <3>3. In(p, {"register"}, x) => x \in subscribed'
      BY <1>7, <2>5
    <3> QED BY <3>1, <3>2, <3>3 DEF NewNames
  <2>12. \A x \in Head(todo[t]).rs : In(p, Ends, x)
    BY <1>4, <2>5 DEF Ends
  <2> QED BY <1>1, <2>2, <2>8, <2>10, <2>11, <2>12, EffectAt
<1>8. CASE r \notin managed /\ Goes(t, Tail(todo[t]))
  <2>1. <<>> \in Seq(Op) /\ <<>> \o Tail(todo[t]) = Tail(todo[t])
    BY <1>2
  <2>2. Does(t, <<>>)
    BY <1>2, <1>8, <2>1, GoesDoes
  <2>3. NamesIn(<<>>, Plain \ {"kill"})
    BY NamesEmpty
  <2>4. Shaped(t, <<>> \o Tail(todo[t])) /\ KillsOK(<<>> \o Tail(todo[t]), registered')
    BY <1>1, <2>1, <2>3, QuietFront
  <2>5. \A x \in Renderers : NewNames(t, <<>>, x)
    BY InEmpty, NoNames
  <2>6. \A x \in Head(todo[t]).rs : x \notin managed'
    BY <1>1, <1>4, <1>8
  <2> QED BY <1>1, <2>1, <2>2, <2>4, <2>5, <2>6, EffectAt
<1> QED BY <1>5, <1>7, <1>8

\* Nobody is about to kill a renderer that is being registered.
LEMMA RegisterEffect ==
  ASSUME TodoOK, TableOK, Shapes, Kills, FreshIsSafe, NEW t \in Tasks, Register(t)
  PROVE  /\ Effect(t)
         /\ \E r \in Renderers : /\ Head(todo[t]).rs = {r} /\ registered' = registered \cup {r}
                                 /\ Ahead(Fresher, r)
         /\ \A u \in Tasks : KillsOK(todo[u], registered')
<1> USE DEF OpNames
<1>1. /\ Running(t, "register") /\ registered' = registered \cup Head(todo[t]).rs
      /\ link' = link /\ managed' = managed /\ Goes(t, Tail(todo[t]))
  BY DEF Register, mgrVars
<1>2. /\ Rest(t) = Tail(todo[t]) /\ t \in Applying /\ Tail(todo[t]) \in Seq(Op)
      /\ Shaped(t, Tail(todo[t])) /\ KillsOK(Tail(todo[t]), registered)
  BY <1>1, AtHead DEF OfApplies, Fresher
<1>3. Head(todo[t]) \in Op /\ Head(todo[t]).op = "register"
  BY <1>1, RunningType
<1>4. PICK r \in Renderers : Head(todo[t]).rs = {r}
  BY <1>3 DEF Op
<1>5. Ahead(Fresher, r)
  <2>1. todo[t] \in Seq(Op) /\ todo[t] # <<>>
    BY <1>1 DEF TodoOK, Running
  <2>2. 1 \in DOMAIN todo[t] /\ todo[t][1] = Head(todo[t])
    BY <2>1, TailParts
  <2> QED BY <1>3, <1>4, <2>2 DEF Ahead, Fresher
<1>6. r \in MayCrash \/ ~Ahead({"kill"}, r)
  <2> SUFFICES ASSUME r \notin MayCrash PROVE ~Ahead({"kill"}, r)
    OBVIOUS
  <2>1. ~Ahead(Touches, r)
    BY <1>5 DEF FreshIsSafe, Fresh
  <2> QED BY <2>1 DEF Ahead, Touches
<1>7. \A u \in Tasks : KillsOK(todo[u], registered')
  <2> SUFFICES ASSUME NEW u \in Tasks PROVE KillsOK(todo[u], registered \cup {r})
    BY <1>1, <1>4
  <2>1. r \in MayCrash \/ ~In(todo[u], {"kill"}, r)
    BY <1>6 DEF In, Ahead
  <2> QED BY <2>1, KillsMore DEF Kills
<1>8. KillsOK(Tail(todo[t]), registered')
  <2>1. \A names, x : In(Tail(todo[t]), names, x) => In(todo[t], names, x)
    BY <1>1, AtHead
  <2>2. r \in MayCrash \/ ~In(Tail(todo[t]), {"kill"}, r)
    BY <1>6, <2>1 DEF In, Ahead
  <2> QED BY <1>1, <1>2, <1>4, <2>2, KillsMore
<1>9. Effect(t)
  <2>1. <<>> \in Seq(Op) /\ <<>> \o Tail(todo[t]) = Tail(todo[t])
    BY <1>2
  <2>2. Does(t, <<>>)
    BY <1>1, <1>2, <2>1, GoesDoes
  <2>3. \A x \in Renderers : NewNames(t, <<>>, x)
    BY InEmpty, NoNames
  <2>4. \A x \in Head(todo[t]).rs : x \in registered'
    BY <1>1
  <2>5. Shaped(t, <<>> \o Tail(todo[t])) /\ KillsOK(<<>> \o Tail(todo[t]), registered')
    BY <1>2, <1>8, <2>1
  <2> QED BY <1>1, <2>1, <2>2, <2>3, <2>4, <2>5, EffectAt
<1>10. registered' = registered \cup {r}
  BY <1>1, <1>4
<1> QED BY <1>4, <1>5, <1>7, <1>9, <1>10

LEMMA RelinkEffect ==
  ASSUME TodoOK, TableOK, Shapes, Kills, NEW t \in Tasks, Relink(t)
  PROVE  /\ Effect(t) /\ t \in Applying /\ todo[t] # <<>> /\ registered' = registered
         /\ \E r \in Renderers : /\ Head(todo[t]).rs = {r} /\ In(todo[t], {"relink"}, r)
                                 /\ \A d \in Displays : link'[d] # link[d] => link'[d] = r
<1> USE DEF OpNames
<1> DEFINE r == CHOOSE x \in Head(todo[t]).rs : TRUE
           ds == Head(todo[t]).ds \cap present
           a == SyncAll(ds)
           b == ForAll("orphans", {r})
           ab == a \o b
           c == IF OfUi(t) THEN ForAll("firstFrame", {r}) ELSE <<>>
           p == ab \o c
<1>1. /\ Running(t, "relink") /\ registered' = registered /\ present' = present
      /\ link' = [d \in Displays |-> IF d \in ds THEN r ELSE link[d]]
      /\ Goes(t, p \o Tail(todo[t]))
  BY DEF Relink, Relinked
<1>2. /\ Rest(t) = Tail(todo[t]) /\ t \in Applying /\ Tail(todo[t]) \in Seq(Op)
      /\ t \notin Eventing
      /\ \A names, x : In(todo[t], names, x) <=>
              ("relink" \in names /\ x \in Head(todo[t]).rs) \/ In(Tail(todo[t]), names, x)
  BY <1>1, AtHead DEF OfApplies
<1>3. Head(todo[t]) \in Op /\ Head(todo[t]).op = "relink"
  BY <1>1, RunningType
<1>4. r \in Renderers /\ Head(todo[t]).rs = {r}
  <2>1. PICK x \in Renderers : Head(todo[t]).rs = {x}
    BY <1>3 DEF Op
  <2>2. r = x
    BY <2>1
  <2> QED BY <2>1, <2>2
<1>5. ds \in SUBSET Displays /\ {r} \in SUBSET Renderers /\ present \subseteq Displays
  BY <1>4 DEF TableOK
<1>6. \A d \in Displays : link'[d] # link[d] => d \in ds /\ link'[d] = r
  BY <1>1
<1> HIDE DEF r, ds
<1>7. a \in Seq(Op) /\ b \in Seq(Op) /\ ForAll("firstFrame", {r}) \in Seq(Op)
  BY <1>5, SyncAllType, ForAllType
<1>8. ab \in Seq(Op) /\ c \in Seq(Op)
  BY <1>7, ConcatType
<1>9. p \in Seq(Op)
  BY <1>8, ConcatType
<1>10. LET N == {"sync", "orphans", "firstFrame"}
       IN  NamesIn(a, N) /\ NamesIn(b, N) /\ NamesIn(ForAll("firstFrame", {r}), N)
  BY <1>5, NamesSyncAll, NamesForAll
<1>11. NamesIn(ab, {"sync", "orphans", "firstFrame"})
  BY <1>7, <1>10, NamesConcat
<1>12. NamesIn(c, {"sync", "orphans", "firstFrame"})
  BY <1>10, NamesEmpty
<1>13. NamesIn(p, {"sync", "orphans", "firstFrame"})
  BY <1>8, <1>11, <1>12, NamesConcat
<1>14. /\ \A names, x : ~In(a, names, x)
       /\ \A names, x : In(b, names, x) => x \in {r}
       /\ \A names, x : In(ForAll("firstFrame", {r}), names, x) => x \in {r}
  BY <1>5, InSyncAll, InForAll
<1>15. \A names, x : In(c, names, x) => x \in {r}
  BY <1>14, InEmpty
<1>16. \A names, x : In(ab, names, x) => x \in {r}
  BY <1>7, <1>14, InConcat
<1>17. \A d \in ds : Syncs(ab, d)
  BY <1>5, <1>7, SyncsSyncAll, SyncsConcat
<1> HIDE DEF a, b, ab, c
<1>18. \A names, x : In(p, names, x) => x = r
  BY <1>8, <1>15, <1>16, InConcat
<1>19. \A d \in ds : Syncs(p, d)
  BY <1>8, <1>17, SyncsConcat
<1> HIDE DEF p
<1>20. /\ NamesIn(p, OpNames \ (Fresher \cup {"lookup", "find", "spawn"}))
       /\ UnregsOK(p) /\ KillsOK(p, registered')
       /\ \A x : ~In(p, Fresher, x) /\ ~In(p, {"relink"}, x) /\ ~In(p, {"register"}, x)
  BY <1>13 DEF UnregsOK, KillsOK, NamesIn, In, Fresher
<1>21. Does(t, p)
  BY <1>1, <1>2, <1>9, GoesDoes
<1>22. Shaped(t, p \o Tail(todo[t])) /\ KillsOK(p \o Tail(todo[t]), registered')
  BY <1>1, <1>2, <1>9, <1>20, NoFirstLast, OrderlyFront
<1>23. \A x \in Renderers : NewNames(t, p, x)
  BY <1>1, <1>4, <1>18, <1>20 DEF NewNames, Known
<1>24. \A d \in present' : link'[d] # link[d] => Syncs(p, d) /\ t \notin Eventing
  BY <1>1, <1>2, <1>5, <1>6, <1>19
<1>25. Effect(t)
  BY <1>1, <1>9, <1>21, <1>22, <1>23, <1>24, EffectAt DEF Ends
<1>26. todo[t] # <<>>
  BY <1>1 DEF Running
<1>27. In(todo[t], {"relink"}, r)
  BY <1>2, <1>4
<1> QED BY <1>1, <1>2, <1>4, <1>6, <1>25, <1>26, <1>27

LEMMA FirstFrameEffect ==
  ASSUME TodoOK, TableOK, Shapes, Kills, NEW t \in Tasks, FirstFrame(t)
  PROVE  Effect(t)
<1> USE DEF OpNames
<1> DEFINE rs == Head(todo[t]).rs
<1>1. /\ Running(t, "firstFrame") /\ registered' = registered /\ link' = link
      /\ \/ Goes(t, Tail(todo[t]))
         \/ Goes(t, ForAll("unregister", rs) \o ForAll("kill", rs) \o Tail(todo[t]))
  BY DEF FirstFrame, tableVars
<1>2. /\ Rest(t) = Tail(todo[t]) /\ t \in Applying /\ Tail(todo[t]) \in Seq(Op)
      /\ rs \in SUBSET Renderers
      /\ \A names, x : In(todo[t], names, x) <=>
              ("firstFrame" \in names /\ x \in rs) \/ In(Tail(todo[t]), names, x)
  BY <1>1, AtHead DEF OfApplies
<1> HIDE DEF rs
<1>3. ASSUME NEW p \in Seq(Op), Goes(t, p \o Tail(todo[t])), UnregsOK(p), KillsOK(p, registered'),
             NamesIn(p, {"track", "unregister", "await", "kill"}), \A names, y : In(p, names, y) => y \in rs
      PROVE  Effect(t)
  <2>1. /\ NamesIn(p, OpNames \ (Fresher \cup {"lookup", "find", "spawn"}))
        /\ \A x : ~In(p, Fresher, x) /\ ~In(p, {"relink"}, x) /\ ~In(p, {"register"}, x)
    BY <1>3 DEF NamesIn, In, Fresher
  <2>2. Does(t, p)
    BY <1>2, <1>3, GoesDoes
  <2>3. Shaped(t, p \o Tail(todo[t])) /\ KillsOK(p \o Tail(todo[t]), registered')
    BY <1>1, <1>2, <1>3, <2>1, NoFirstLast, OrderlyFront
  <2>4. \A x \in Renderers : NewNames(t, p, x)
    BY <1>2, <1>3, <2>1 DEF NewNames, Touches
  <2> QED BY <1>1, <1>3, <2>2, <2>3, <2>4, EffectAt DEF Ends
<1>4. CASE Goes(t, Tail(todo[t]))
  <2>1. <<>> \in Seq(Op) /\ <<>> \o Tail(todo[t]) = Tail(todo[t])
    BY <1>2
  <2>2. UnregsOK(<<>>) /\ KillsOK(<<>>, registered')
    BY DEF UnregsOK, KillsOK
  <2> QED BY <1>3, <1>4, <2>1, <2>2, NamesEmpty, InEmpty
<1>5. CASE Goes(t, ForAll("unregister", rs) \o ForAll("kill", rs) \o Tail(todo[t]))
  BY <1>2, <1>3, <1>5, StopOne
<1> QED BY <1>1, <1>4, <1>5

-----------------------------------------------------------------------------
(* Tasks that start.                                                       *)

LEMMA StartEffect ==
  ASSUME TodoOK, NEW a \in Appliers, Idle(Apply(a)), registered' = registered, link' = link,
         NEW ds \in SUBSET Displays, NEW name \in {"lookup", "find"},
         Goes(Apply(a), Loop(name, ds, {}))
  PROVE  Effect(Apply(a))
<1> USE DEF OpNames
<1> DEFINE t == Apply(a)
           p == Loop(name, ds, {})
<1>1. t \in Tasks /\ t \in Applying /\ t \notin Eventing
  BY TaskNames DEF Applying, Eventing, Apply, Events
<1>2. {} \in SUBSET Renderers
  OBVIOUS
<1>3. p \in Seq(Op)
  BY LoopType
<1>4. FirstOnly(p) /\ LastOnly(p)
  BY <1>2, FirstLastLoop
<1>5. NamesIn(p, {name})
  BY <1>2, NamesLoop
<1>6. \A names, z : ~In(p, names, z)
  BY <1>2, InLoop
<1>7. Goes(t, p)
  OBVIOUS
<1> HIDE DEF p, t
<1>8. Shaped(t, p) /\ KillsOK(p, registered')
  BY <1>1, <1>4, <1>5 DEF Shaped, UnregsOK, KillsOK, NamesIn
<1>9. \A z \in Renderers : NewNames(t, p, z)
  BY <1>6, NoNames
<1> QED BY <1>1, <1>3, <1>7, <1>8, <1>9, EffectIdle DEF t

\* RendererKill, the timer and the eviction task: off the table, and killed.
LEMMA StopEffect ==
  ASSUME TodoOK, NEW t \in Tasks, Idle(t), t \notin Eventing, registered' = registered, link' = link,
         NEW r \in Renderers, Known(t, r),
         \/ Goes(t, ForAll("unregister", {r}) \o ForAll("kill", {r}))
         \/ Goes(t, ForAll("unregister", {r})) /\ r \in MayCrash
         \/ Goes(t, <<>>)
  PROVE  Effect(t)
<1> USE DEF OpNames
<1>1. {r} \in SUBSET Renderers
  OBVIOUS
<1>2. ASSUME NEW p \in Seq(Op), Goes(t, p), UnregsOK(p), KillsOK(p, registered'),
             NamesIn(p, {"track", "unregister", "await", "kill"}), \A names, y : In(p, names, y) => y \in {r}
      PROVE  Effect(t)
  <2>1. /\ NamesIn(p, OpNames \ (Fresher \cup {"lookup", "find", "spawn"})) /\ NamesIn(p, OpNames \ OfApplies)
        /\ \A x : ~In(p, Fresher, x) /\ ~In(p, {"relink"}, x) /\ ~In(p, {"register"}, x)
    BY <1>2 DEF NamesIn, In, Fresher, OfApplies
  <2>2. Shaped(t, p)
    BY <1>2, <2>1, NoFirstLast DEF Shaped
  <2>3. \A x \in Renderers : NewNames(t, p, x)
    BY <1>2, <2>1 DEF NewNames
  <2> QED BY <1>2, <2>2, <2>3, EffectIdle
<1>3. CASE Goes(t, ForAll("unregister", {r}) \o ForAll("kill", {r}))
  BY <1>1, <1>2, <1>3, StopOne
<1>4. CASE Goes(t, ForAll("unregister", {r})) /\ r \in MayCrash
  <2> DEFINE p == ForAll("unregister", {r})
  <2>1. p \in Seq(Op)
    BY <1>1, ForAllType
  <2>2. \A names, y : In(p, names, y) => y \in {r}
    BY <1>1, InForAll
  <2>3. NamesIn(p, {"track", "unregister", "await", "kill"}) /\ NamesIn(p, {"unregister"})
    BY <1>1, NamesForAll
  <2> HIDE DEF p
  <2>4. UnregsOK(p)
    <3> SUFFICES ASSUME NEW i \in DOMAIN p, p[i].op = "unregister", NEW y \in p[i].rs \ MayCrash PROVE FALSE
      BY DEF UnregsOK
    <3>1. In(p, {"unregister"}, y)
      BY DEF In
    <3> QED BY <1>4, <2>2, <3>1
  <2>5. KillsOK(p, registered')
    BY <2>3 DEF KillsOK, NamesIn
  <2>6. Goes(t, p)
    BY <1>4 DEF p
  <2> QED BY <1>2, <2>1, <2>2, <2>3, <2>4, <2>5, <2>6
<1>5. CASE Goes(t, <<>>)
  <2>1. UnregsOK(<<>>) /\ KillsOK(<<>>, registered') /\ <<>> \in Seq(Op)
    BY DEF UnregsOK, KillsOK
  <2> QED BY <1>2, <1>5, <2>1, NamesEmpty, InEmpty
<1> QED BY <1>3, <1>4, <1>5

\* An endpoint or an event task.
LEMMA PlainStart ==
  ASSUME TodoOK, NEW t \in Tasks, Idle(t), NEW p \in Seq(Op), Goes(t, p), registered' = registered,
         NamesIn(p, {"sync"}) \/ (t \notin Eventing /\ NamesIn(p, {"sync", "cancel", "orphans"})),
         \A d \in present' : link'[d] # link[d] => Syncs(p, d) /\ t \notin Eventing
  PROVE  Effect(t)
<1> USE DEF OpNames
<1>1. /\ NamesIn(p, OpNames \ (Fresher \cup {"lookup", "find", "spawn"})) /\ NamesIn(p, OpNames \ OfApplies)
      /\ NamesIn(p, OpNames \ {"kill"}) /\ UnregsOK(p) /\ KillsOK(p, registered')
  BY DEF NamesIn, Fresher, OfApplies, UnregsOK, KillsOK
<1>2. \A x : /\ ~In(p, Fresher, x) /\ ~In(p, {"relink"}, x) /\ ~In(p, {"register"}, x)
             /\ ~In(p, Touches, x)
  BY DEF NamesIn, In, Fresher, Touches
<1>3. Shaped(t, p)
  BY <1>1, NoFirstLast DEF Shaped
<1>4. \A x \in Renderers : NewNames(t, p, x)
  BY <1>2 DEF NewNames
<1> QED BY <1>1, <1>3, <1>4, EffectIdle

LEMMA RegisterDisplayEffect ==
  ASSUME TodoOK, TableOK, Started, NEW d \in Displays, RegisterDisplay(d)
  PROVE  Effect(Endpoint(d))
<1> USE DEF OpNames
<1>1. Endpoint(d) \in Tasks /\ Endpoint(d) \notin Eventing /\ Idle(Endpoint(d)) /\ registered' = registered
  BY TaskNames DEF Eventing, Endpoint, Events, Started, RegisterDisplay, Idle
<1>2. \A e \in present' : link'[e] # link[e] => e = d
  BY DEF RegisterDisplay, TableOK
<1>3. {d} \in SUBSET Displays
  OBVIOUS
<1>4. SyncAll({d}) \in Seq(Op) /\ Syncs(SyncAll({d}), d)
  BY <1>3, SyncAllType, SyncsSyncAll
<1>5. NamesIn(SyncAll({d}), {"sync"}) /\ NamesIn(SyncAll({d}), {"sync", "cancel", "orphans"})
  BY <1>3, NamesSyncAll
<1>6. CASE Goes(Endpoint(d), SyncAll({d}))
  BY <1>1, <1>2, <1>4, <1>5, <1>6, PlainStart
<1>7. ASSUME NEW r \in registered, Goes(Endpoint(d), ForAll("cancel", {r}) \o SyncAll({d}))
      PROVE  Effect(Endpoint(d))
  <2>1. {r} \in SUBSET Renderers
    BY DEF TableOK
  <2>2. ForAll("cancel", {r}) \in Seq(Op) /\ NamesIn(ForAll("cancel", {r}), {"sync", "cancel", "orphans"})
    BY <2>1, ForAllType, NamesForAll
  <2> DEFINE p == ForAll("cancel", {r}) \o SyncAll({d})
  <2>3. p \in Seq(Op) /\ NamesIn(p, {"sync", "cancel", "orphans"}) /\ Syncs(p, d)
    BY <1>4, <1>5, <2>2, ConcatType, NamesConcat, SyncsConcat
  <2> HIDE DEF p
  <2>4. Goes(Endpoint(d), p)
    BY <1>7 DEF p
  <2> QED BY <1>1, <1>2, <2>3, <2>4, PlainStart
<1> QED BY <1>6, <1>7 DEF RegisterDisplay

LEMMA UnregisterDisplayEffect ==
  ASSUME TodoOK, TableOK, NEW d \in Displays, UnregisterDisplay(d)
  PROVE  Effect(Endpoint(d))
<1> USE DEF OpNames
<1>1. Endpoint(d) \in Tasks /\ Endpoint(d) \notin Eventing /\ Idle(Endpoint(d)) /\ registered' = registered
  BY TaskNames DEF Eventing, Endpoint, Events, UnregisterDisplay, Idle
<1>2. \A e \in present' : link'[e] = link[e]
  BY DEF UnregisterDisplay, TableOK
<1> DEFINE o == [op |-> "orphans", ds |-> {}, rs |-> {}]
<1>3. o \in Op
  BY DEF Op
<1>4. <<o>> \in Seq(Op) /\ NamesIn(<<o>>, {"sync", "cancel", "orphans"})
  BY <1>3 DEF NamesIn
<1>5. Goes(Endpoint(d), <<o>>)
  BY DEF UnregisterDisplay
<1> HIDE DEF o
<1> QED BY <1>1, <1>2, <1>4, <1>5, PlainStart

LEMMA HandleBindEffect ==
  ASSUME TodoOK, TableOK, NEW r \in Renderers, HandleBind(r)
  PROVE  Effect(Events(r))
<1>1. /\ Events(r) \in Tasks /\ Idle(Events(r)) /\ registered' = registered /\ link' = link
      /\ Goes(Events(r), SyncAll(Audience(r)))
  BY TaskNames DEF HandleBind, tableVars
<1>2. Audience(r) \in SUBSET Displays
  BY DEF Audience
<1>3. SyncAll(Audience(r)) \in Seq(Op) /\ NamesIn(SyncAll(Audience(r)), {"sync"})
  BY <1>2, SyncAllType, NamesSyncAll
<1> QED BY <1>1, <1>3, PlainStart

LEMMA RegisterDisplaySyncs ==
  ASSUME TodoOK, TableOK, NEW d \in Displays, RegisterDisplay(d)
  PROVE  Syncs(todo'[Endpoint(d)], d)
<1>1. Endpoint(d) \in Tasks /\ {d} \in SUBSET Displays
  BY TaskNames
<1>2. SyncAll({d}) \in Seq(Op) /\ Syncs(SyncAll({d}), d)
  BY <1>1, SyncAllType, SyncsSyncAll
<1>3. CASE Goes(Endpoint(d), SyncAll({d}))
  BY <1>1, <1>2, <1>3 DEF Goes, TodoOK
<1>4. ASSUME NEW r \in registered, Goes(Endpoint(d), ForAll("cancel", {r}) \o SyncAll({d}))
      PROVE  Syncs(todo'[Endpoint(d)], d)
  <2>1. {r} \in SUBSET Renderers
    BY DEF TableOK
  <2>2. ForAll("cancel", {r}) \in Seq(Op)
    BY <2>1, ForAllType DEF OpNames
  <2>3. Syncs(ForAll("cancel", {r}) \o SyncAll({d}), d)
    BY <1>2, <2>2, SyncsConcat
  <2> QED BY <1>1, <1>4, <2>3 DEF Goes, TodoOK
<1> QED BY <1>3, <1>4 DEF RegisterDisplay

-----------------------------------------------------------------------------
(* What a step of task t does to the table and to the manager.             *)

Changes(t) ==
  /\ \A x \in registered' \ registered :
       Ahead(Fresher, x) /\ \A u \in Tasks : ~In(todo'[u], Fresher, x)
  /\ \A x \in registered \ registered' : x \in MayCrash \/ In(todo'[t], {"kill"}, x)
  /\ \A d \in Displays, x \in Renderers : link'[d] = x =>
       link[d] = x \/ x \in registered \/ (x \in used /\ ~Ahead(Fresher, x))
  /\ \A x \in timers' \ timers : Ahead(Touches, x)
  /\ \A x \in managed \ managed' : x \in MayCrash \/ (Ahead(Touches, x) /\ x \notin registered)
  /\ \A x \in managed' \ managed : In(todo'[t], {"attach"}, x)
  /\ used \subseteq used' /\ managed' \subseteq managed \cup used'
  /\ dead' \subseteq dead \cup MayCrash
  /\ present' \subseteq seen' /\ seen \subseteq seen'
  /\ \A d \in Displays : t = Endpoint(d) => d \in seen'

LEMMA AheadIn ==
  /\ \A names, x : Ahead(names, x) <=> \E u \in Tasks : In(todo[u], names, x)
  /\ \A names, x : Ahead(names, x)' <=> \E u \in Tasks : In(todo'[u], names', x')
BY DEF Ahead, In

LEMMA InHead ==
  ASSUME TodoOK, NEW t \in Tasks, NEW name \in OpNames, Running(t, name), NEW names, name \in names
  PROVE  \A x \in Head(todo[t]).rs : Ahead(names, x)
<1>1. todo[t] \in Seq(Op) /\ todo[t] # <<>> /\ Head(todo[t]).op = name
  BY DEF TodoOK, Running
<1>2. \A x \in Head(todo[t]).rs : In(todo[t], names, x)
  BY <1>1, InTail
<1> QED BY <1>2, AheadIn

\* While the one apply is elsewhere, no renderer is on its way to the table.
LEMMA NoneFresh ==
  ASSUME OneApply, TodoOK, Shapes, NEW t \in Applying,
         Idle(t) \/ (\E name \in OpNames \ Fresher : Running(t, name))
  PROVE  \A x : ~Ahead(Fresher, x)
<1> SUFFICES ASSUME NEW x, NEW u \in Tasks, In(todo[u], Fresher, x) PROVE FALSE
  BY AheadIn
<1>1. PICK i \in DOMAIN todo[u] : todo[u][i].op \in Fresher
  BY DEF In
<1>2. Shaped(u, todo[u]) /\ todo[u] \in Seq(Op)
  BY DEF Shapes, TodoOK
<1>3. u \in Applying /\ i = 1
  BY <1>1, <1>2 DEF Shaped, NamesIn, FirstOnly, OfApplies
<1>4. u = t
  BY <1>3 DEF OneApply, Applying
<1>5. todo[t] # <<>> /\ Head(todo[t]) = todo[t][1]
  BY <1>1, <1>2, <1>3, <1>4
<1> QED BY <1>1, <1>3, <1>4, <1>5 DEF Idle, Running

LEMMA RemoveChanges ==
  ASSUME TableOK, TodoOK, Started, NEW t \in Tasks, NEW r \in Renderers, NEW q, Remove(t, r, q),
         todo[t] # <<>>, r \in MayCrash \/ In(todo'[t], {"kill"}, r)
  PROVE  Changes(t)
<1>1. /\ registered' = registered \ {r} /\ timers' = timers \ {r}
      /\ link' = [d \in Displays |-> IF link[d] = r THEN NoRenderer ELSE link[d]]
      /\ UNCHANGED <<present, seen, managed, used, dead>>
  BY DEF Remove, LinksWithout, mgrVars
<1>2. \A d \in Displays : t = Endpoint(d) => d \in seen'
  BY <1>1 DEF Started
<1>3. \A d \in Displays, x \in Renderers : link'[d] = x => link[d] = x
  BY <1>1, RouterAssumption
<1> QED BY <1>1, <1>2, <1>3 DEF Changes, Started

\* Every task step.
LEMMA TaskChanges ==
  ASSUME OneApply, TypeOK, Shapes, Kills, FreshIsAlone, FreshIsSafe, KnownOnes, Started,
         NEW t \in Tasks, TaskStep(t)
  PROVE  Effect(t) /\ Changes(t) /\ (Register(t) => \A u \in Tasks : KillsOK(todo[u], registered'))
         /\ (~Register(t) => registered' \subseteq registered)
<1> USE DEF OpNames
<1>0. TodoOK /\ TableOK /\ ManagerOK
  BY TypeParts
<1>00. /\ \A name \in OpNames : Running(t, name) => todo[t] # <<>>
       /\ \A n1, n2 \in OpNames : Running(t, n1) /\ Running(t, n2) => n1 = n2
  BY DEF Running
<1>000. todo[t] # <<>> => \A d \in Displays : t = Endpoint(d) => d \in seen
  BY DEF Started
\* A step that leaves the table and the manager alone.
<1>a. ASSUME NEW name \in OpNames, Running(t, name), name # "register",
             registered' = registered, link' = link, timers' \subseteq timers,
             UNCHANGED <<managed, used, dead, present, seen>>
      PROVE  Changes(t) /\ ~Register(t)
  <2>1. ~Register(t)
    BY <1>00, <1>a DEF Register
  <2> QED BY <1>00, <1>000, <1>a, <2>1 DEF Changes, Started
<1>1. CASE Sync(t)
  <2>1. Running(t, "sync") /\ UNCHANGED <<registered, link, timers, managed, used, dead, present, seen>>
    BY <1>1 DEF Sync, mgrVars
  <2> QED BY <1>0, <1>1, <1>a, <2>1, SyncEffect
<1>2. CASE Unregister(t)
  <2>1. Running(t, "unregister") /\ \E r \in Head(todo[t]).rs :
           Remove(t, r, ForAll("unregister", Head(todo[t]).rs \ {r}) \o Tail(todo[t]))
    BY <1>2 DEF Unregister
  <2>2. PICK r \in Head(todo[t]).rs :
           Remove(t, r, ForAll("unregister", Head(todo[t]).rs \ {r}) \o Tail(todo[t]))
    BY <2>1
  <2>3. /\ Head(todo[t]).rs \in SUBSET Renderers /\ Tail(todo[t]) \in Seq(Op)
        /\ \A x \in Head(todo[t]).rs \ MayCrash : In(Tail(todo[t]), {"kill"}, x)
    BY <1>0, <2>1, AtHead
  <2> DEFINE x == ForAll("unregister", Head(todo[t]).rs \ {r})
  <2>4. x \in Seq(Op) /\ t \notin Eventing
    BY <1>0, <2>1, <2>3, ForAllType, AtHead
  <2>5. r \in Renderers /\ todo[t] # <<>>
    BY <1>00, <2>1, <2>2, <2>3
  <2>6. Does(t, SyncAll(Audience(r)) \o x) /\ Rest(t) = Tail(todo[t])
    BY <1>0, <2>1, <2>2, <2>4, <2>5, RemoveDoes, AtHead
  <2>7. todo'[t] = (SyncAll(Audience(r)) \o x) \o Tail(todo[t]) /\ SyncAll(Audience(r)) \o x \in Seq(Op)
    BY <2>6 DEF Does
  <2>8. r \in MayCrash \/ In(todo'[t], {"kill"}, r)
    <3> DEFINE y == SyncAll(Audience(r)) \o x
    <3>1. y \in Seq(Op) /\ todo'[t] = y \o Tail(todo[t]) /\ (r \in MayCrash \/ In(Tail(todo[t]), {"kill"}, r))
      BY <2>2, <2>3, <2>7
    <3> HIDE DEF y
    <3>2. r \in MayCrash \/ In(y \o Tail(todo[t]), {"kill"}, r)
      BY <2>3, <3>1, InConcat
    <3> QED BY <3>1, <3>2
  <2>9. registered' \subseteq registered /\ ~Register(t)
    BY <1>00, <2>1, <2>2 DEF Remove, Register
  <2> HIDE DEF x
  <2>10. Changes(t)
    BY <1>0, <2>2, <2>5, <2>8, RemoveChanges
  <2> QED BY <1>0, <1>2, <2>9, <2>10, UnregisterEffect
<1>3. CASE Reap(t)
  <2>1. Running(t, "reap") /\ \E r \in Head(todo[t]).rs :
           Remove(t, r, ForAll("kill", {r}) \o ForAll("reap", Head(todo[t]).rs \ {r}) \o Tail(todo[t]))
    BY <1>3 DEF Reap
  <2>2. PICK r \in Head(todo[t]).rs :
           Remove(t, r, ForAll("kill", {r}) \o ForAll("reap", Head(todo[t]).rs \ {r}) \o Tail(todo[t]))
    BY <2>1
  <2>3. /\ Head(todo[t]).rs \in SUBSET Renderers /\ Tail(todo[t]) \in Seq(Op)
    BY <1>0, <2>1, AtHead
  <2> DEFINE k == ForAll("kill", {r})
             b == ForAll("reap", Head(todo[t]).rs \ {r})
             x == k \o b
  <2>4. r \in Renderers /\ {r} \in SUBSET Renderers /\ Head(todo[t]).rs \ {r} \in SUBSET Renderers
    BY <2>2, <2>3
  <2>5. k \in Seq(Op) /\ b \in Seq(Op) /\ t \notin Eventing
    BY <1>0, <2>1, <2>4, ForAllType, AtHead
  <2>6. In(k, {"kill"}, r)
    BY <2>4, InForAll
  <2>7. In(x, {"kill"}, r) /\ x \in Seq(Op)
    BY <2>5, <2>6, InConcat, ConcatType
  <2>8. todo[t] # <<>>
    BY <1>00, <2>1
  <2>9. Does(t, SyncAll(Audience(r)) \o x) /\ Rest(t) = Tail(todo[t])
    BY <1>0, <2>1, <2>2, <2>4, <2>5, <2>7, <2>8, RemoveDoes, AtHead
  <2>10. SyncAll(Audience(r)) \in Seq(Op)
    BY SyncAllType DEF Audience
  <2> HIDE DEF x
  <2>11. todo'[t] = (SyncAll(Audience(r)) \o x) \o Tail(todo[t]) /\ SyncAll(Audience(r)) \o x \in Seq(Op)
    BY <2>9 DEF Does
  <2>12. In(SyncAll(Audience(r)) \o x, {"kill"}, r)
    BY <2>7, <2>10, InConcat
  <2>13. In(todo'[t], {"kill"}, r)
    <3> DEFINE y == SyncAll(Audience(r)) \o x
    <3>1. y \in Seq(Op) /\ todo'[t] = y \o Tail(todo[t]) /\ In(y, {"kill"}, r)
      BY <2>11, <2>12
    <3> HIDE DEF y
    <3>2. In(y \o Tail(todo[t]), {"kill"}, r)
      BY <2>3, <3>1, InConcat
    <3> QED BY <3>1, <3>2
  <2>14. registered' \subseteq registered /\ ~Register(t)
    BY <1>00, <2>1, <2>2 DEF Remove, Register
  <2>15. Changes(t)
    BY <1>0, <2>2, <2>4, <2>8, <2>13, RemoveChanges
  <2> QED BY <1>0, <1>3, <2>14, <2>15, ReapEffect
<1>4. CASE ScheduleGrace(t)
  <2>1. Running(t, "schedule") /\ UNCHANGED <<registered, link, managed, used, dead, present, seen>>
        /\ timers' \subseteq timers \cup Head(todo[t]).rs
    BY <1>4 DEF ScheduleGrace, mgrVars
  <2>2. \A x \in Head(todo[t]).rs : Ahead(Touches, x)
    BY <1>0, <2>1, InHead DEF Touches
  <2>3. Changes(t) /\ ~Register(t)
    BY <1>00, <1>000, <2>1, <2>2 DEF Changes, Started, Register
  <2> QED BY <1>0, <1>4, <2>1, <2>3, ScheduleEffect
<1>5. CASE CancelTimer(t)
  <2>1. Running(t, "cancel") /\ UNCHANGED <<registered, link, managed, used, dead, present, seen>>
        /\ timers' \subseteq timers
    BY <1>5 DEF CancelTimer, mgrVars
  <2> QED BY <1>0, <1>5, <1>a, <2>1, CancelEffect
<1>6. CASE MarkOrphans(t)
  <2>1. Running(t, "orphans") /\ UNCHANGED <<registered, link, timers, managed, used, dead, present, seen>>
    BY <1>6 DEF MarkOrphans, mgrVars, tableVars
  <2> QED BY <1>0, <1>6, <1>a, <2>1, OrphansEffect
<1>7. CASE TrackAcks(t)
  <2>1. Running(t, "track") /\ UNCHANGED <<registered, link, timers, managed, used, dead, present, seen>>
    BY <1>7 DEF TrackAcks, mgrVars, tableVars
  <2> QED BY <1>0, <1>7, <1>a, <2>1, TrackEffect
<1>8. CASE AwaitAcks(t)
  <2>1. Running(t, "await") /\ UNCHANGED <<registered, link, timers, managed, used, dead, present, seen>>
    BY <1>8 DEF AwaitAcks, mgrVars, tableVars
  <2> QED BY <1>0, <1>8, <1>a, <2>1, AwaitEffect
<1>9. CASE MgrKill(t)
  <2>1. /\ Running(t, "kill") /\ UNCHANGED <<registered, link, timers, used, dead, present, seen>>
        /\ \E r \in Head(todo[t]).rs : managed' = managed \ {r}
    BY <1>9 DEF MgrKill, tableVars
  <2>2. \A x \in Head(todo[t]).rs : Ahead(Touches, x)
    BY <1>0, <2>1, InHead DEF Touches
  <2>3. \A x \in Head(todo[t]).rs : x \in MayCrash \/ x \notin registered
    BY <1>0, <2>1, AtHead
  <2>4. Changes(t) /\ ~Register(t)
    BY <1>00, <1>000, <2>1, <2>2, <2>3 DEF Changes, Started, Register
  <2> QED BY <1>0, <1>9, <2>1, <2>4, KillEffect
<1>10. CASE PlanStop(t)
  <2>1. Running(t, "plan") /\ UNCHANGED <<registered, link, timers, managed, used, dead, present, seen>>
    BY <1>10 DEF PlanStop, mgrVars, tableVars
  <2> QED BY <1>0, <1>10, <1>a, <2>1, PlanEffect
<1>11. CASE Find(t)
  <2>1. Running(t, "find") /\ UNCHANGED <<registered, link, timers, managed, used, dead, present, seen>>
    BY <1>11 DEF Find, mgrVars, tableVars
  <2> QED BY <1>0, <1>11, <1>a, <2>1, FindEffect
<1>12. CASE Spawn(t)
  <2>1. Running(t, "spawn") /\ UNCHANGED <<registered, link, timers, dead, present, seen>>
    BY <1>12 DEF Spawn, tableVars
  <2> DEFINE ds == Head(todo[t]).ds
  <2>2. PICK r \in Renderers \ used :
        /\ managed' = managed \cup {r} /\ used' = used \cup {r}
        /\ Goes(t, ForAll("attach", {r}) \o Loop("relink", ds, {r}) \o Tail(todo[t]))
    BY <1>12 DEF Spawn
  <2>3. ds \in SUBSET Displays /\ Tail(todo[t]) \in Seq(Op) /\ {r} \in SUBSET Renderers
    BY <1>0, <2>1, AtHead
  <2> HIDE DEF ds
  <2>4. ForAll("attach", {r}) \in Seq(Op) /\ Loop("relink", ds, {r}) \in Seq(Op)
    BY <2>3, ForAllType, LoopType
  <2>5. In(ForAll("attach", {r}), {"attach"}, r)
    BY <2>3, InForAll
  <2>6. In(ForAll("attach", {r}) \o Loop("relink", ds, {r}), {"attach"}, r)
        /\ ForAll("attach", {r}) \o Loop("relink", ds, {r}) \in Seq(Op)
    BY <2>4, <2>5, InConcat, ConcatType
  <2>7. In(ForAll("attach", {r}) \o Loop("relink", ds, {r}) \o Tail(todo[t]), {"attach"}, r)
    BY <2>3, <2>6, InConcat
  <2>8. In(todo'[t], {"attach"}, r)
    BY <1>0, <2>2, <2>7 DEF Goes, TodoOK
  <2>9. Changes(t) /\ ~Register(t)
    BY <1>00, <1>000, <2>1, <2>2, <2>8 DEF Changes, Started, Register
  <2> QED BY <1>0, <1>12, <2>1, <2>9, SpawnEffect
<1>13. CASE SpawnFails(t)
  <2>1. Running(t, "spawn") /\ UNCHANGED <<registered, link, timers, managed, used, dead, present, seen>>
    BY <1>13 DEF SpawnFails, mgrVars, tableVars
  <2> QED BY <1>0, <1>13, <1>a, <2>1, SpawnFailsEffect
<1>14. CASE Attach(t)
  <2>1. Running(t, "attach") /\ UNCHANGED <<registered, link, timers, managed, used, dead, present, seen>>
    BY <1>14 DEF Attach, mgrVars, tableVars
  <2> QED BY <1>0, <1>14, <1>a, <2>1, AttachEffect
<1>15. CASE Register(t)
  <2>1. /\ Effect(t)
        /\ \E r \in Renderers : /\ Head(todo[t]).rs = {r} /\ registered' = registered \cup {r}
                                 /\ Ahead(Fresher, r)
        /\ \A u \in Tasks : KillsOK(todo[u], registered')
    BY <1>0, <1>15, RegisterEffect
  <2>2. /\ Running(t, "register") /\ UNCHANGED <<link, timers, managed, used, dead, present, seen>>
        /\ Goes(t, Tail(todo[t]))
    BY <1>15 DEF Register, mgrVars
  <2>3. t \in Applying /\ \A i \in DOMAIN Tail(todo[t]) : Tail(todo[t])[i].op \notin Fresher
    BY <1>0, <2>2, AtHead DEF OfApplies, Fresher
  <2>4. \A u \in Tasks : \A x : ~In(todo'[u], Fresher, x)
    <3> SUFFICES ASSUME NEW u \in Tasks, NEW x PROVE ~In(todo'[u], Fresher, x)
      OBVIOUS
    <3>1. CASE u = t
      <4>1. todo'[t] = Tail(todo[t])
        BY <1>0, <2>2 DEF Goes, TodoOK
      <4> QED BY <2>3, <3>1, <4>1 DEF In
    <3>2. CASE u # t
      <4>1. u \notin Applying
        BY <2>3, <3>2 DEF OneApply, Applying
      <4>2. NamesIn(todo[u], OpNames \ OfApplies)
        BY <4>1 DEF Shapes, Shaped
      <4>3. todo'[u] = todo[u]
        BY <1>0, <2>2, <3>2 DEF Goes, TodoOK
      <4> QED BY <4>2, <4>3 DEF NamesIn, In, OfApplies
    <3> QED BY <3>1, <3>2
  <2>5. Changes(t)
    BY <1>00, <1>000, <2>1, <2>2, <2>4 DEF Changes, Started
  <2> QED BY <1>15, <2>1, <2>5
<1>16. CASE Relink(t)
  <2>1. Running(t, "relink") /\ UNCHANGED <<registered, timers, managed, used, dead, present, seen>>
    BY <1>16 DEF Relink, Relinked, mgrVars
  <2>2. /\ Effect(t) /\ t \in Applying /\ todo[t] # <<>>
         /\ \E r \in Renderers : /\ Head(todo[t]).rs = {r} /\ In(todo[t], {"relink"}, r)
                                 /\ \A d \in Displays : link'[d] # link[d] => link'[d] = r
    BY <1>0, <1>16, RelinkEffect
  <2>3. \A x : ~Ahead(Fresher, x)
    BY <1>0, <2>1, <2>2, NoneFresh DEF Fresher
  <2>4. \A d \in Displays, x \in Renderers : link'[d] = x => link[d] = x \/ x \in used
    BY <2>2, AheadIn DEF KnownOnes
  <2>5. Changes(t) /\ ~Register(t)
    BY <1>00, <1>000, <2>1, <2>3, <2>4 DEF Changes, Started, Register
  <2> QED BY <2>1, <2>2, <2>5
<1>17. CASE FirstFrame(t)
  <2>1. Running(t, "firstFrame") /\ UNCHANGED <<registered, link, timers, managed, used, dead, present, seen>>
    BY <1>17 DEF FirstFrame, mgrVars, tableVars
  <2> QED BY <1>0, <1>17, <1>a, <2>1, FirstFrameEffect
<1>18. CASE LookUp(t)
  <2>1. Running(t, "lookup") /\ UNCHANGED <<registered, link, timers, managed, used, dead, present, seen>>
    BY <1>18 DEF LookUp, mgrVars, tableVars
  <2> QED BY <1>0, <1>18, <1>a, <2>1, LookUpEffect
<1> QED BY <1>1, <1>2, <1>3, <1>4, <1>5, <1>6, <1>7, <1>8, <1>9, <1>10, <1>11, <1>12, <1>13,
           <1>14, <1>15, <1>16, <1>17, <1>18 DEF TaskStep

\* What it does to the buffers: what is bound, and who listens to what.
Flow(t) ==
  /\ \A x \in subscribed \ subscribed' : x \in registered /\ x \notin registered'
  /\ \A x \in registered \ registered', d \in Displays : link'[d] # x
  /\ \A x \in registered' \ registered : Ahead({"register"}, x)
  /\ \A d \in present' : bound'[d] # bound[d] => SyncDisplay(d)
  /\ \A d \in present' \ present : Syncs(todo'[t], d) /\ t \notin Eventing
  /\ pool' = pool /\ scheme' = scheme /\ \A d \in present' : d \in caps => d \in caps'
  /\ \A x \in Renderers :
       \/ events'[x] = events[x]
       \/ x \in registered \ registered'
       \/ t = Events(x) /\ \A d \in Audience(x) : Syncs(todo'[t], d)
  /\ \A x \in Renderers :
       t # Events(x) /\ todo'[Events(x)] # todo[Events(x)] => x \in registered \ registered'

LEMMA FlowGoes ==
  ASSUME TodoOK, NEW t \in Tasks, NEW q, Goes(t, q), registered' = registered, present' = present,
         bound' = bound, subscribed \subseteq subscribed',
         UNCHANGED <<pool, scheme, caps, events>>
  PROVE  Flow(t)
<1>1. \A u \in Tasks : t # u => todo'[u] = todo[u]
  BY DEF Goes, TodoOK
<1> QED BY <1>1, TaskNames DEF Flow

LEMMA FlowRemove ==
  ASSUME TypeOK, NEW t \in Tasks, NEW r \in Renderers, NEW q, Remove(t, r, q)
  PROVE  Flow(t)
<1>1. /\ registered' = registered \ {r} /\ subscribed' \subseteq subscribed
      /\ link' = [d \in Displays |-> IF link[d] = r THEN NoRenderer ELSE link[d]]
      /\ UNCHANGED <<present, bound, pool, scheme, caps>>
  BY DEF Remove, LinksWithout, ackVars
<1>2. \A x \in subscribed \ subscribed' : x = r /\ r \in registered
  BY DEF Remove
<1>3. \A x \in Renderers : events'[x] = events[x] \/ (x = r /\ r \in registered)
  BY DEF Remove, TypeOK
<1>4. \A x \in Renderers : t # Events(x) /\ todo'[Events(x)] # todo[Events(x)] => x = r /\ r \in registered
  <2> SUFFICES ASSUME NEW x \in Renderers, t # Events(x), todo'[Events(x)] # todo[Events(x)]
               PROVE  x = r /\ r \in registered
    OBVIOUS
  <2>1. Events(x) \in Tasks /\ Events(r) \in Tasks /\ todo \in [Tasks -> Seq(Op)]
    BY TaskNames DEF TypeOK
  <2>2. CASE r \in registered
    <3>1. todo'[Events(x)] # todo[Events(x)] => Events(x) = Events(r)
      BY <2>1, <2>2 DEF Remove
    <3> QED BY <2>2, <3>1 DEF Events
  <2>3. CASE r \notin registered
    BY <2>1, <2>3 DEF Remove, Goes
  <2> QED BY <2>2, <2>3
<1>5. \A d \in Displays : link'[d] # r
  BY <1>1, RouterAssumption
<1> QED BY <1>1, <1>2, <1>3, <1>4, <1>5 DEF Flow

LEMMA TaskFlow ==
  ASSUME TypeOK, NEW t \in Tasks, TaskStep(t)
  PROVE  Flow(t)
<1> USE DEF OpNames
<1>0. TodoOK
  BY TypeParts
<1>a. ASSUME NEW q, Goes(t, q), UNCHANGED <<registered, present, bound, caps, rendererVars>>
      PROVE  Flow(t)
  BY <1>0, <1>a, FlowGoes DEF rendererVars
<1>1. CASE Sync(t)
  <2>1. /\ \E d \in Head(todo[t]).ds : SyncDisplay(d) /\ Goes(t, SyncAll(Head(todo[t]).ds \ {d}) \o Tail(todo[t]))
        /\ UNCHANGED <<registered, present, caps, rendererVars>> /\ Running(t, "sync")
    BY <1>1 DEF Sync
  <2>2. PICK d \in Head(todo[t]).ds : SyncDisplay(d) /\ Goes(t, SyncAll(Head(todo[t]).ds \ {d}) \o Tail(todo[t]))
    BY <2>1
  <2>3. \A u \in Tasks : t # u => todo'[u] = todo[u]
    BY <1>0, <2>2 DEF Goes, TodoOK
  <2>4. \A e \in Displays : bound'[e] # bound[e] => e = d
    BY <2>2 DEF SyncDisplay, TypeOK
  <2>5. \A e \in present' : bound'[e] # bound[e] => SyncDisplay(e)
    BY <2>1, <2>2, <2>4 DEF TypeOK
  <2> QED BY <2>1, <2>3, <2>5, TaskNames DEF Flow, rendererVars
<1>2. CASE Unregister(t)
  <2>1. Running(t, "unregister") /\ \E r \in Head(todo[t]).rs :
           Remove(t, r, ForAll("unregister", Head(todo[t]).rs \ {r}) \o Tail(todo[t]))
    BY <1>2 DEF Unregister
  <2>2. Head(todo[t]).rs \in SUBSET Renderers
    BY <1>0, <2>1, RunningType
  <2> QED BY <2>1, <2>2, FlowRemove
<1>3. CASE Reap(t)
  <2>1. Running(t, "reap") /\ \E r \in Head(todo[t]).rs :
           Remove(t, r, ForAll("kill", {r}) \o ForAll("reap", Head(todo[t]).rs \ {r}) \o Tail(todo[t]))
    BY <1>3 DEF Reap
  <2>2. Head(todo[t]).rs \in SUBSET Renderers
    BY <1>0, <2>1, RunningType
  <2> QED BY <2>1, <2>2, FlowRemove
<1>4. CASE ScheduleGrace(t)
  BY <1>4, <1>a DEF ScheduleGrace, ackVars
<1>5. CASE CancelTimer(t)
  BY <1>5, <1>a DEF CancelTimer, ackVars
<1>6. CASE MarkOrphans(t)
  BY <1>6, <1>a DEF MarkOrphans, tableVars, ackVars
<1>7. CASE TrackAcks(t)
  BY <1>7, <1>a DEF TrackAcks, tableVars, ackVars
<1>8. CASE AwaitAcks(t)
  BY <1>8, <1>a DEF AwaitAcks, tableVars, ackVars
<1>9. CASE MgrKill(t)
  BY <1>9, <1>a DEF MgrKill, tableVars, ackVars
<1>10. CASE PlanStop(t)
  BY <1>10, <1>a DEF PlanStop, tableVars, ackVars
<1>11. CASE Find(t)
  BY <1>11, <1>a DEF Find, tableVars, ackVars
<1>12. CASE Spawn(t)
  BY <1>12, <1>a DEF Spawn, tableVars, ackVars
<1>13. CASE SpawnFails(t)
  BY <1>13, <1>a DEF SpawnFails, tableVars, ackVars
<1>14. CASE Attach(t)
  <2>1. /\ \E q : Goes(t, q)
        /\ UNCHANGED <<registered, present, bound, pool, scheme, caps, events>>
        /\ subscribed \subseteq subscribed'
    BY <1>14 DEF Attach, tableVars, ackVars
  <2> QED BY <1>0, <2>1, FlowGoes
<1>15. CASE Register(t)
  <2>1. /\ Running(t, "register") /\ registered' = registered \cup Head(todo[t]).rs
        /\ Goes(t, Tail(todo[t])) /\ UNCHANGED <<present, bound, caps, rendererVars>>
    BY <1>15 DEF Register, ackVars
  <2>2. \A x \in Head(todo[t]).rs : Ahead({"register"}, x)
    BY <1>0, <2>1, InHead
  <2>3. \A u \in Tasks : t # u => todo'[u] = todo[u]
    BY <1>0, <2>1 DEF Goes, TodoOK
  <2> QED BY <2>1, <2>2, <2>3, TaskNames DEF Flow, rendererVars
<1>16. CASE Relink(t)
  BY <1>16, <1>a DEF Relink, Relinked, ackVars
<1>17. CASE FirstFrame(t)
  BY <1>17, <1>a DEF FirstFrame, tableVars, ackVars
<1>18. CASE LookUp(t)
  BY <1>18, <1>a DEF LookUp, tableVars, ackVars
<1> QED BY <1>1, <1>2, <1>3, <1>4, <1>5, <1>6, <1>7, <1>8, <1>9, <1>10, <1>11, <1>12, <1>13,
           <1>14, <1>15, <1>16, <1>17, <1>18 DEF TaskStep

Quiet ==
  /\ UNCHANGED <<todo, registered, link, timers, managed, used, present, seen>>
  /\ dead' \subseteq dead \cup MayCrash

\* What displays and renderers do on their own.
Still ==
  /\ bound' = bound /\ subscribed' = subscribed
  /\ \A x \in Renderers :
       (pool'[x] = pool[x] /\ events'[x] = events[x]) \/ x \notin subscribed \/ events'[x] > 0
  /\ \A x \in Renderers : scheme'[x] = "legacy" => scheme[x] = "legacy"
  /\ \A d \in present : d \in caps => d \in caps'

\* The invariant, for one apply at a time.
OneAtATime ==
  /\ TypeOK /\ Shapes /\ Kills
  /\ FreshIsAlone /\ FreshIsSafe /\ FreshIsManaged
  /\ KnownOnes /\ Started

LEMMA StepCases ==
  ASSUME OneApply, OneAtATime, Next
  PROVE  \/ Quiet /\ Still
         \/ \E t \in Tasks : /\ Effect(t) /\ Changes(t) /\ Flow(t)
                             /\ \A u \in Tasks : KillsOK(todo[u], registered')
<1> DEFINE ByTask == \E t \in Tasks :
             /\ Effect(t) /\ Changes(t) /\ Flow(t)
             /\ \A u \in Tasks : KillsOK(todo[u], registered')
<1>0. TypeOK /\ TodoOK /\ TableOK /\ ManagerOK /\ Shapes /\ Kills /\ KnownOnes /\ Started
  BY TypeParts DEF OneAtATime
<1>a. ASSUME registered' \subseteq registered PROVE \A u \in Tasks : KillsOK(todo[u], registered')
  BY <1>0, <1>a, KillsFewer DEF Kills
\* A start that leaves the table and the manager alone.
<1>b. ASSUME NEW t \in Tasks, Effect(t), Flow(t), registered' = registered, link' = link,
             timers' \subseteq timers, UNCHANGED <<used, present, seen>>,
             dead' \subseteq dead, managed' \subseteq managed, managed \ managed' \subseteq MayCrash,
             \A d \in Displays : t # Endpoint(d)
      PROVE  ByTask
  <2>1. Changes(t)
    BY <1>0, <1>b DEF Changes, Started
  <2> QED BY <1>a, <1>b, <2>1
<1>c. \A a \in Appliers, d \in Displays : Apply(a) # Endpoint(d)
  BY DEF Apply, Endpoint
<1>1. ASSUME NEW t \in Tasks, TaskStep(t) PROVE ByTask
  <2>1. /\ Effect(t) /\ Changes(t) /\ (Register(t) => \A u \in Tasks : KillsOK(todo[u], registered'))
        /\ (~Register(t) => registered' \subseteq registered)
    BY <1>0, <1>1, TaskChanges DEF OneAtATime
  <2>2. Flow(t)
    BY <1>0, <1>1, TaskFlow
  <2> QED BY <1>a, <2>1, <2>2
<1>2. ASSUME NEW a \in Appliers, StartApply(a) PROVE ByTask
  <2>1. /\ Idle(Apply(a)) /\ Apply(a) \in Tasks
        /\ UNCHANGED <<registered, link, timers, used, present, seen, dead, managed>>
        /\ \E ds \in SUBSET Displays : Goes(Apply(a), Loop("lookup", ds, {}))
    BY <1>0, <1>2, TaskNames DEF StartApply, OneApply, tableVars, mgrVars, TableOK
  <2>2. Effect(Apply(a))
    BY <1>0, <2>1, StartEffect
  <2>3. UNCHANGED <<bound, subscribed, caps, rendererVars>>
    BY <1>2 DEF StartApply, tableVars, ackVars, rendererVars
  <2>4. Flow(Apply(a))
    BY <1>0, <2>1, <2>3, FlowGoes DEF rendererVars
  <2> QED BY <1>b, <1>c, <2>1, <2>2, <2>4
<1>3. ASSUME NEW a \in Appliers, StartUiApply(a) PROVE ByTask
  <2>1. /\ Idle(Apply(a)) /\ Apply(a) \in Tasks
        /\ UNCHANGED <<registered, link, timers, used, present, seen, dead, managed>>
        /\ \E ds \in SUBSET Displays : Goes(Apply(a), Loop("find", ds, {}))
    BY <1>0, <1>3, TaskNames DEF StartUiApply, tableVars, mgrVars, TableOK
  <2>2. Effect(Apply(a))
    BY <1>0, <2>1, StartEffect
  <2>3. UNCHANGED <<bound, subscribed, caps, rendererVars>>
    BY <1>3 DEF StartUiApply, tableVars, ackVars, rendererVars
  <2>4. Flow(Apply(a))
    BY <1>0, <2>1, <2>3, FlowGoes DEF rendererVars
  <2> QED BY <1>b, <1>c, <2>1, <2>2, <2>4
<1>4. ASSUME NEW a \in Appliers, NEW r \in Renderers, UserKill(a, r) PROVE ByTask
  <2>1. /\ Idle(Apply(a)) /\ Apply(a) \in Tasks /\ Apply(a) \in Applying /\ Apply(a) \notin Eventing
        /\ UNCHANGED <<registered, link, timers, used, present, seen, dead, managed>>
        /\ r \in managed
        /\ Goes(Apply(a), ForAll("unregister", {r}) \o ForAll("kill", {r}))
    BY <1>0, <1>4, TaskNames DEF UserKill, tableVars, mgrVars, Applying, Eventing, Apply, Events
  <2>2. Effect(Apply(a))
    BY <1>0, <2>1, StopEffect DEF Known
  <2>3. UNCHANGED <<bound, subscribed, caps, rendererVars>>
    BY <1>4 DEF UserKill, tableVars, ackVars, rendererVars
  <2>4. Flow(Apply(a))
    BY <1>0, <2>1, <2>3, FlowGoes DEF rendererVars
  <2> QED BY <1>b, <1>c, <2>1, <2>2, <2>4
<1>5. ASSUME NEW d \in Displays, RegisterDisplay(d) PROVE ByTask
  <2>1. Effect(Endpoint(d)) /\ Endpoint(d) \in Tasks
    BY <1>0, <1>5, RegisterDisplayEffect, TaskNames
  <2>2. /\ UNCHANGED <<registered, timers, used, dead, managed>>
        /\ seen' = seen \cup {d} /\ present' = present \cup {d}
        /\ link' = link \/ \E r \in registered : link' = [link EXCEPT ![d] = r]
    BY <1>5 DEF RegisterDisplay, mgrVars
  <2>3. \A e \in Displays, x \in Renderers : link'[e] = x => link[e] = x \/ x \in registered
    BY <1>0, <2>2 DEF TableOK
  <2>4. \A e \in Displays : Endpoint(d) = Endpoint(e) => e \in seen'
    BY <2>2 DEF Endpoint
  <2>5. Changes(Endpoint(d))
    BY <1>0, <2>2, <2>3, <2>4 DEF Changes, Started
  <2>6. Flow(Endpoint(d))
    <3>1. UNCHANGED <<bound, caps, rendererVars>>
      BY <1>5 DEF RegisterDisplay, ackVars
    <3>2. \A u \in Tasks : Endpoint(d) # u => todo'[u] = todo[u]
      BY <1>0, <1>5 DEF RegisterDisplay, Goes, TodoOK
    <3>3. Endpoint(d) \notin Eventing
      BY DEF Endpoint, Eventing, Events
    <3>4. Syncs(todo'[Endpoint(d)], d)
      BY <1>0, <1>5, RegisterDisplaySyncs
    <3> QED BY <2>2, <3>1, <3>2, <3>3, <3>4, TaskNames DEF Flow, rendererVars
  <2> QED BY <1>a, <2>1, <2>2, <2>5, <2>6
<1>6. ASSUME NEW d \in Displays, UnregisterDisplay(d) PROVE ByTask
  <2>1. Effect(Endpoint(d)) /\ Endpoint(d) \in Tasks
    BY <1>0, <1>6, UnregisterDisplayEffect, TaskNames
  <2>2. /\ UNCHANGED <<registered, timers, used, dead, managed, seen>> /\ d \in seen
        /\ present' = present \ {d} /\ link' = [link EXCEPT ![d] = NoRenderer]
    BY <1>0, <1>6 DEF UnregisterDisplay, mgrVars, Started
  <2>3. \A e \in Displays, x \in Renderers : link'[e] = x => link[e] = x
    BY <1>0, <2>2, RouterAssumption DEF TableOK
  <2>4. \A e \in Displays : Endpoint(d) = Endpoint(e) => e \in seen'
    BY <2>2 DEF Endpoint
  <2>5. Changes(Endpoint(d))
    BY <1>0, <2>2, <2>3, <2>4 DEF Changes, Started
  <2>6. Flow(Endpoint(d))
    <3>1. UNCHANGED rendererVars /\ bound' = [bound EXCEPT ![d] = NoPool] /\ caps' = caps \ {d}
      BY <1>6 DEF UnregisterDisplay
    <3>2. \A u \in Tasks : Endpoint(d) # u => todo'[u] = todo[u]
      BY <1>0, <1>6 DEF UnregisterDisplay, Goes, TodoOK
    <3>3. \A e \in present' : bound'[e] = bound[e]
      BY <1>0, <2>2, <3>1 DEF TableOK
    <3> QED BY <2>2, <3>1, <3>2, <3>3, TaskNames DEF Flow, rendererVars
  <2> QED BY <1>a, <2>1, <2>2, <2>5, <2>6
<1>7. ASSUME NEW d \in Displays, ConsumerCaps(d) \/ UnbindDone(d) PROVE Quiet /\ Still
  BY <1>7 DEF ConsumerCaps, UnbindDone, Quiet, Still, tableVars, mgrVars, rendererVars
<1>8. ASSUME NEW r \in Renderers,
             FormatCaps(r) \/ Dispatch(r) \/ RecordScheme(r) \/ Answer(r) \/ Publish(r)
      PROVE  Quiet /\ Still
  <2>1. Quiet /\ bound' = bound /\ subscribed' = subscribed
    BY <1>8 DEF FormatCaps, Dispatch, RecordScheme, Answer, Publish, NewPool, Quiet, tableVars, mgrVars
  <2>2. \A x \in Renderers :
          (pool'[x] = pool[x] /\ events'[x] = events[x]) \/ x \notin subscribed \/ events'[x] > 0
    <3>1. CASE FormatCaps(r) \/ Dispatch(r) \/ RecordScheme(r)
      BY <3>1 DEF FormatCaps, Dispatch, RecordScheme
    <3>2. CASE NewPool(r)
      <4>1. /\ pool \in [Renderers -> 0..MaxGeneration] /\ events \in [Renderers -> 0..MaxGeneration]
            /\ MaxGeneration \in Nat
        BY <1>0, RouterAssumption DEF ManagerOK
      <4>2. \A x \in Renderers \ {r} : pool'[x] = pool[x] /\ events'[x] = events[x]
        BY <3>2, <4>1 DEF NewPool
      <4>3. r \in subscribed => events'[r] = events[r] + 1
        BY <3>2, <4>1 DEF NewPool
      <4> QED BY <4>1, <4>2, <4>3
    <3> QED BY <1>8, <3>1, <3>2 DEF Answer, Publish
  <2>3. \A x \in Renderers : scheme'[x] = "legacy" => scheme[x] = "legacy"
    <3>1. scheme \in [Renderers -> {"legacy", "unmet", "met"}]
      BY <1>0 DEF ManagerOK
    <3>2. scheme' = scheme \/ \E v \in {scheme[r], "met", "unmet"} : scheme' = [scheme EXCEPT ![r] = v]
      BY <1>8 DEF FormatCaps, Dispatch, RecordScheme, Answer, Publish
    <3> QED BY <3>1, <3>2
  <2>4. caps' = caps
    BY <1>8 DEF FormatCaps, Dispatch, RecordScheme, Answer, Publish, NewPool, ackVars
  <2> QED BY <2>1, <2>2, <2>3, <2>4 DEF Still
<1>9. ASSUME NEW r \in Renderers, HandleBind(r) PROVE ByTask
  <2>1. Effect(Events(r)) /\ Events(r) \in Tasks
    BY <1>0, <1>9, HandleBindEffect, TaskNames
  <2>2. UNCHANGED <<registered, link, timers, used, present, seen, dead, managed>>
    BY <1>9 DEF HandleBind, tableVars, mgrVars
  <2>3. \A d \in Displays : Events(r) # Endpoint(d)
    BY DEF Events, Endpoint
  <2>4. Flow(Events(r))
    <3>1. /\ UNCHANGED <<registered, link, present, bound, pool, scheme, caps, subscribed>>
          /\ events' = [events EXCEPT ![r] = @ - 1] /\ Goes(Events(r), SyncAll(Audience(r)))
      BY <1>9 DEF HandleBind, tableVars, ackVars
    <3>2. todo'[Events(r)] = SyncAll(Audience(r)) /\ \A u \in Tasks : Events(r) # u => todo'[u] = todo[u]
      BY <1>0, <2>1, <3>1 DEF Goes, TodoOK
    <3>3. Audience(r) \in SUBSET Displays
      BY DEF Audience
    <3>4. \A d \in Audience(r) : Syncs(todo'[Events(r)], d)
      BY <3>2, <3>3, SyncsSyncAll
    <3>5. \A x \in Renderers : x = r \/ events'[x] = events[x]
      BY <1>0, <3>1 DEF ManagerOK
    <3> QED BY <3>1, <3>2, <3>4, <3>5, TaskNames DEF Flow
  <2> QED BY <1>b, <2>1, <2>2, <2>3, <2>4
<1>10. ASSUME NEW r \in Renderers, Crash(r) PROVE Quiet /\ Still
  BY <1>10 DEF Crash, Quiet, Still, tableVars, ackVars, rendererVars
<1>11. ASSUME NEW r \in Renderers, Evict(r) PROVE ByTask
  <2>1. /\ Idle(Reaper) /\ Reaper \in Tasks /\ Reaper \notin Eventing /\ r \in MayCrash
        /\ UNCHANGED <<registered, link, timers, used, present, seen>>
        /\ dead' \subseteq dead /\ managed' = managed \ {r}
        /\ Goes(Reaper, ForAll("unregister", {r})) \/ Goes(Reaper, <<>>)
    BY <1>0, <1>11, TaskNames DEF Evict, tableVars, mgrVars, Eventing, Reaper, Events, KnownOnes
  <2>2. Effect(Reaper)
    BY <1>0, <2>1, StopEffect DEF Known
  <2>3. \A d \in Displays : Reaper # Endpoint(d)
    BY DEF Reaper, Endpoint
  <2>4. Flow(Reaper)
    BY <1>0, <1>11, <2>1, FlowGoes DEF Evict, tableVars, ackVars, rendererVars
  <2> QED BY <1>b, <2>1, <2>2, <2>3, <2>4
<1>12. ASSUME NEW r \in Renderers, FireTimer(r) PROVE ByTask
  <2>1. /\ Idle(Timer(r)) /\ Timer(r) \in Tasks /\ Timer(r) \notin Eventing /\ r \in timers
        /\ UNCHANGED <<registered, link, used, present, seen, dead, managed>>
        /\ timers' \subseteq timers
        /\ \/ Goes(Timer(r), ForAll("unregister", {r}) \o ForAll("kill", {r})) \/ Goes(Timer(r), <<>>)
    BY <1>0, <1>12, TaskNames DEF FireTimer, mgrVars, Eventing, Timer, Events
  <2>2. Effect(Timer(r))
    BY <1>0, <2>1, StopEffect DEF Known
  <2>3. \A d \in Displays : Timer(r) # Endpoint(d)
    BY DEF Timer, Endpoint
  <2>4. Flow(Timer(r))
    BY <1>0, <1>12, <2>1, FlowGoes DEF FireTimer, ackVars, rendererVars
  <2> QED BY <1>b, <2>1, <2>2, <2>3, <2>4
<1>14. \A a \in Appliers : ~CancelApply(a)
  BY DEF CancelApply, OneApply
<1> HIDE DEF ByTask
<1>13. (Quiet /\ Still) \/ ByTask
  BY <1>1, <1>2, <1>3, <1>4, <1>5, <1>6, <1>7, <1>8, <1>9, <1>10, <1>11, <1>12, <1>14 DEF Next
<1> QED BY <1>13 DEF ByTask

\* The operations that are ahead after a step of t: its own, or older ones.
LEMMA AheadAfter ==
  ASSUME NEW t \in Tasks, OthersGoOn(t), NEW names, NEW x, NEW u \in Tasks, In(todo'[u], names, x)
  PROVE  (u = t /\ In(todo'[t], names, x)) \/ Ahead(names, x)
<1>1. CASE u = t
  BY <1>1
<1>2. CASE u # t
  <2>1. todo'[u] = todo[u] \/ todo'[u] = <<>>
    BY <1>2 DEF OthersGoOn
  <2>2. ~In(<<>>, names, x)
    BY InEmpty
  <2>3. In(todo[u], names, x)
    BY <2>1, <2>2
  <2> QED BY <2>3, AheadIn
<1> QED BY <1>1, <1>2

LEMMA FreshNever ==
  ASSUME OneAtATime, NEW t \in Tasks, Effect(t), Changes(t), NEW x \in Renderers, Fresh(x)'
  PROVE  Fresh(x)
<1>1. CASE x \notin used'
  BY <1>1 DEF Changes, Fresh
<1>2. ASSUME NEW u \in Tasks, In(todo'[u], Fresher, x) PROVE Fresh(x)
  <2>1. (u = t /\ In(todo'[t], Fresher, x)) \/ Ahead(Fresher, x)
    BY <1>2, AheadAfter DEF Effect
  <2>2. NewNames(t, todo'[t], x)
    BY DEF Effect
  <2>3. In(todo[t], Fresher, x) => Ahead(Fresher, x)
    BY AheadIn
  <2> QED BY <2>1, <2>2, <2>3 DEF NewNames, Fresh
<1>3. Ahead(Fresher, x)' => \E u \in Tasks : In(todo'[u], Fresher, x)
  BY DEF Ahead, In, Fresher
<1> QED BY <1>1, <1>2, <1>3 DEF Fresh

LEMMA OneAtATimeStep ==
  ASSUME OneApply, OneAtATime, TypeOK', NEW t \in Tasks, Effect(t), Changes(t),
         \A u \in Tasks : KillsOK(todo[u], registered')
  PROVE  OneAtATime'
<1> DEFINE AheadNext(names, x) == \E u \in Tasks : In(todo'[u], names, x)
<1>0. /\ TypeOK /\ TodoOK /\ TableOK /\ ManagerOK /\ Shapes /\ Kills /\ KnownOnes /\ Started
      /\ FreshIsAlone /\ FreshIsSafe /\ FreshIsManaged
  BY TypeParts DEF OneAtATime
<1>1. Shapes'
  <2>1. \A u \in Tasks : Shaped(u, todo'[u])
    BY <1>0, ShapedEmpty DEF Shapes, Effect, OthersGoOn
  <2> QED BY <2>1 DEF Shapes, Shaped, NamesIn, FirstOnly, LastOnly, UnregsOK, KilledLater
<1>2. Kills'
  <2>1. \A u \in Tasks : KillsOK(todo'[u], registered')
    BY DEF Effect, OthersGoOn, KillsOK
  <2> QED BY <2>1 DEF Kills, KillsOK, KilledFirst
<1>3. \A names, x : Ahead(names, x)' <=> AheadNext(names', x')
  BY DEF Ahead, In
<1>4. ASSUME NEW names, NEW x \in Renderers, AheadNext(names, x)
      PROVE  Ahead(names, x) \/ In(todo'[t], names, x)
  BY <1>4, AheadAfter DEF Effect
<1>5. \A names, x : In(todo[t], names, x) => Ahead(names, x)
  BY AheadIn
<1>6. \A x \in Renderers : NewNames(t, todo'[t], x)
  BY DEF Effect
<1> HIDE DEF AheadNext
<1>7. ASSUME NEW x \in Renderers, Fresh(x)'
      PROVE  x \notin registered' /\ (\A d \in Displays : link'[d] # x)
  <2>1. Fresh(x) /\ x \notin registered /\ \A d \in Displays : link[d] # x
    BY <1>0, <1>7, FreshNever DEF FreshIsAlone, Audience
  <2>2. x \notin registered'
    <3> SUFFICES ASSUME x \in registered' PROVE FALSE
      OBVIOUS
    <3>1. Ahead(Fresher, x) /\ \A u \in Tasks : ~In(todo'[u], Fresher, x)
      BY <2>1 DEF Changes
    <3>2. x \in used'
      BY <1>0, <3>1 DEF KnownOnes, Changes
    <3>3. ~Ahead(Fresher, x)'
      BY <3>1 DEF Ahead, In, Fresher
    <3> QED BY <1>7, <3>2, <3>3 DEF Fresh
  <2>3. \A d \in Displays : link'[d] # x
    <3> SUFFICES ASSUME NEW d \in Displays, link'[d] = x PROVE FALSE
      OBVIOUS
    <3>1. x \in used /\ ~Ahead(Fresher, x)
      BY <2>1 DEF Changes
    <3> QED BY <2>1, <3>1 DEF Fresh
  <2> QED BY <2>2, <2>3
<1>8. FreshIsAlone'
  BY <1>7 DEF FreshIsAlone, Audience
<1>9. ASSUME NEW x \in Renderers \ MayCrash, Fresh(x)' PROVE x \notin timers' /\ ~AheadNext(Touches, x)
  <2>1. Fresh(x) /\ x \notin registered /\ x \notin timers /\ ~Ahead(Touches, x)
    BY <1>0, <1>9, FreshNever DEF FreshIsAlone, FreshIsSafe
  <2>2. x \notin timers'
    BY <2>1 DEF Changes
  <2>3. ~AheadNext(Touches, x)
    <3> SUFFICES ASSUME AheadNext(Touches, x) PROVE FALSE
      OBVIOUS
    <3>1. Known(t, x)
      BY <1>4, <1>5, <1>6, <2>1 DEF NewNames
    <3>2. CASE Running(t, "relink") /\ x \in Head(todo[t]).rs
      <4>1. Ahead({"relink"}, x)
        BY <1>0, <3>2, InHead DEF OpNames
      <4>2. t \in Applying
        BY <1>0, <3>2, AtHead DEF OfApplies, OpNames
      <4>3. ~Ahead(Fresher, x)
        BY <1>0, <3>2, <4>2, NoneFresh DEF Fresher, OpNames
      <4> QED BY <1>0, <2>1, <4>1, <4>3 DEF KnownOnes, Fresh
    <3>3. CASE Idle(t) /\ t \in Applying /\ x \in managed
      <4>1. ~Ahead(Fresher, x)
        BY <1>0, <3>3, NoneFresh
      <4> QED BY <1>0, <2>1, <3>3, <4>1 DEF KnownOnes, Fresh
    <3> QED BY <1>9, <2>1, <3>1, <3>2, <3>3 DEF Known
  <2> QED BY <2>2, <2>3
<1>10. FreshIsSafe'
  <2>1. \A x \in Renderers \ MayCrash : Fresh(x)' => x \notin timers' /\ ~Ahead(Touches, x)'
    BY <1>9 DEF AheadNext, Ahead, In, Touches
  <2> QED BY <2>1 DEF FreshIsSafe, Touches
<1>11. ASSUME NEW x \in Renderers \ MayCrash, AheadNext(Fresher, x) PROVE x \in managed'
  <2>1. Ahead(Fresher, x) \/ x \in managed'
    BY <1>4, <1>5, <1>6, <1>11 DEF NewNames
  <2>2. CASE Ahead(Fresher, x)
    BY <1>0, <2>2 DEF FreshIsManaged, FreshIsSafe, Fresh, Changes
  <2> QED BY <2>1, <2>2
<1>12. FreshIsManaged'
  BY <1>11 DEF FreshIsManaged, AheadNext, Ahead, In, Fresher
<1>13. KnownOnes'
  <2>1. managed' \subseteq used' /\ dead' \subseteq MayCrash
    BY <1>0 DEF KnownOnes, Changes
  <2>2. ASSUME NEW x \in Renderers, AheadNext({"relink"}, x) \/ AheadNext(Fresher, x) PROVE x \in used'
    <3>1. Ahead({"relink"}, x) \/ Ahead(Fresher, x) \/ x \in used' \/ x \in managed'
      BY <1>4, <1>5, <1>6, <2>2 DEF NewNames
    <3> QED BY <1>0, <2>1, <3>1 DEF KnownOnes, Changes
  <2>3. \A x \in Renderers : Ahead({"relink"}, x)' \/ Ahead(Fresher, x)' => x \in used'
    BY <2>2 DEF AheadNext, Ahead, In, Fresher
  <2> QED BY <2>1, <2>3 DEF KnownOnes, Fresher
<1>14. Started'
  <2>1. \A d \in Displays : todo'[Endpoint(d)] # <<>> => d \in seen'
    <3> SUFFICES ASSUME NEW d \in Displays, todo'[Endpoint(d)] # <<>> PROVE d \in seen'
      OBVIOUS
    <3>1. CASE Endpoint(d) = t
      BY <3>1 DEF Changes
    <3>2. CASE Endpoint(d) # t
      <4>1. todo[Endpoint(d)] # <<>>
        BY <3>2, TaskNames DEF Effect, OthersGoOn
      <4> QED BY <1>0, <4>1 DEF Started, Changes
    <3> QED BY <3>1, <3>2
  <2> QED BY <2>1 DEF Started, Changes, Endpoint
<1> QED BY <1>1, <1>2, <1>8, <1>10, <1>12, <1>13, <1>14 DEF OneAtATime

LEMMA MapsAgreeStep ==
  ASSUME OneApply, OneAtATime, MapsAgree, TypeOK', NEW t \in Tasks, Effect(t), Changes(t)
  PROVE  MapsAgree'
<1>0. /\ TableOK /\ ManagerOK /\ TodoOK /\ Shapes /\ KnownOnes /\ FreshIsSafe /\ FreshIsManaged
  BY TypeParts DEF OneAtATime
<1>1. ASSUME NEW x \in registered' \ MayCrash PROVE x \in managed'
  <2>1. CASE x \in registered
    BY <1>1, <2>1 DEF MapsAgree, Changes
  <2>2. CASE x \notin registered
    <3>1. Ahead(Fresher, x)
      BY <1>1, <2>2 DEF Changes
    <3>2. x \in Renderers
      BY <1>1 DEF TypeOK
    <3> QED BY <1>0, <1>1, <3>1, <3>2 DEF FreshIsManaged, FreshIsSafe, Fresh, Changes
  <2> QED BY <2>1, <2>2
<1>2. ASSUME NEW x \in managed' \ (registered' \cup MayCrash), x \in Renderers
      PROVE  \E u \in Tasks : In(todo'[u], Ends, x)
  <2>1. CASE x \notin managed
    <3>1. In(todo'[t], {"attach"}, x)
      BY <1>2, <2>1 DEF Changes
    <3> QED BY <3>1 DEF In, Ends
  <2>2. CASE x \in registered
    <3>1. In(todo'[t], {"kill"}, x)
      BY <1>2, <2>2 DEF Changes
    <3> QED BY <3>1 DEF In, Ends
  <2>3. CASE x \in managed /\ x \notin registered
    <3>1. PICK u \in Tasks : In(todo[u], Ends, x)
      BY <1>2, <2>3 DEF MapsAgree, Ahead, In, Ends
    <3>2. CASE u = t
      BY <1>2, <3>1, <3>2 DEF Effect
    <3>3. CASE u # t
      <4>1. u \notin Eventing
        BY <1>0, <3>1 DEF Shapes, Shaped, NamesIn, In, Ends
      <4>2. todo'[u] = todo[u]
        BY <3>3, <4>1 DEF Effect, OthersGoOn
      <4> QED BY <3>1, <4>2
    <3> QED BY <3>2, <3>3
  <2> QED BY <2>1, <2>2, <2>3
<1>3. \A x \in managed' \ (registered' \cup MayCrash) : Ahead({"attach", "register", "kill"}, x)'
  <2> SUFFICES ASSUME NEW x \in managed' \ (registered' \cup MayCrash)
               PROVE  Ahead({"attach", "register", "kill"}, x)'
    OBVIOUS
  <2>1. x \in Renderers
    BY DEF TypeOK
  <2>2. \E u \in Tasks : In(todo'[u], Ends, x)
    BY <1>2, <2>1
  <2> QED BY <2>2 DEF Ahead, In, Ends
<1> QED BY <1>1, <1>3 DEF MapsAgree

LEMMA QuietStep ==
  ASSUME OneAtATime, MapsAgree, TypeOK', Quiet
  PROVE  OneAtATime' /\ MapsAgree'
<1> USE DEF Quiet
<1>1. Shapes'
  BY DEF OneAtATime, Shapes
<1>2. Kills'
  BY DEF OneAtATime, Kills
<1>3. /\ \A x : Ahead(Fresher, x)' <=> Ahead(Fresher, x)
      /\ \A x : Ahead(Touches, x)' <=> Ahead(Touches, x)
      /\ \A x : Ahead({"relink"}, x)' <=> Ahead({"relink"}, x)
  BY DEF Ahead
<1>4. FreshIsAlone' /\ FreshIsSafe' /\ FreshIsManaged'
  BY <1>3 DEF OneAtATime, FreshIsAlone, FreshIsSafe, FreshIsManaged, Fresh, Audience
<1>5. KnownOnes' /\ Started'
  BY <1>3 DEF OneAtATime, KnownOnes, Started
<1>6. MapsAgree'
  BY DEF MapsAgree, Ahead
<1> QED BY <1>1, <1>2, <1>4, <1>5, <1>6 DEF OneAtATime

LEMMA OneAtATimeInit ==
  ASSUME Init, TypeOK
  PROVE  OneAtATime /\ MapsAgree
<1>1. \A t \in Tasks : todo[t] = <<>>
  BY DEF Init
<1>2. Shapes
  BY <1>1, ShapedEmpty DEF Shapes
<1>3. Kills
  BY <1>1 DEF Kills, KillsOK
<1>4. \A names, x : ~Ahead(names, x)
  BY <1>1 DEF Ahead
<1>5. FreshIsAlone
  BY RouterAssumption DEF Init, FreshIsAlone, Audience
<1>6. FreshIsSafe /\ FreshIsManaged /\ KnownOnes
  BY <1>4 DEF Init, FreshIsSafe, FreshIsManaged, KnownOnes
<1>7. Started
  BY <1>1, TaskNames DEF Init, Started
<1>8. MapsAgree
  BY DEF Init, MapsAgree
<1> QED BY <1>2, <1>3, <1>5, <1>6, <1>7, <1>8 DEF OneAtATime

LEMMA OneAtATimeStutters ==
  ASSUME OneAtATime, MapsAgree, TypeOK', UNCHANGED vars
  PROVE  OneAtATime' /\ MapsAgree'
BY QuietStep DEF vars, tableVars, mgrVars, Quiet

LEMMA OneAtATimeNext ==
  ASSUME OneApply, OneAtATime, MapsAgree, TypeOK', [Next]_vars
  PROVE  OneAtATime' /\ MapsAgree'
<1>1. CASE UNCHANGED vars
  BY <1>1, OneAtATimeStutters
<1>2. CASE Next /\ Quiet
  BY <1>2, QuietStep
<1>3. ASSUME NEW t \in Tasks, Effect(t), Changes(t), \A u \in Tasks : KillsOK(todo[u], registered')
      PROVE  OneAtATime' /\ MapsAgree'
  BY <1>3, OneAtATimeStep, MapsAgreeStep
<1> QED BY <1>1, <1>2, <1>3, StepCases

(* With one apply at a time, never cancelled, the router and the manager   *)
(* agree on the renderers that do not crash: MapsAgree, for any displays,  *)
(* disconnections, timers and kills.                                       *)
THEOREM RouterMapsAgree ==
  ASSUME OneApply
  PROVE  Spec => []MapsAgree
<1>1. Init => OneAtATime /\ MapsAgree
  BY OneAtATimeInit, TypeInit
<1>2. TypeOK' /\ (OneAtATime /\ MapsAgree) /\ [Next]_vars => (OneAtATime /\ MapsAgree)'
  BY OneAtATimeNext
<1> QED
  BY <1>1, <1>2, RouterTypeOK, PTL DEF Spec

-----------------------------------------------------------------------------
(* Displays that are out of step.                                          *)

\* Some task is to sync d, and it is not a task that may end before.
Due(d) ==
  \E t \in Tasks : Syncs(todo[t], d) /\ (t \in Eventing => t = Events(link[d]))
Listening ==
  /\ registered \subseteq subscribed
  /\ \A r \in Renderers : Ahead({"register"}, r) => r \in subscribed
InStep ==
  \A d \in present : bound[d] # Target(d) =>
    \/ Negotiating(d)
    \/ Due(d)
    \/ link[d] \in subscribed /\ events[link[d]] > 0
Followed == Listening /\ InStep

LEMMA SyncReaches ==
  ASSUME TypeOK, NEW d \in present, SyncDisplay(d), ~Negotiating(d)
  PROVE  bound'[d] = Target(d)
<1>1. ~Gated(d)
  BY DEF Gated, Negotiating
<1>2. d \in Displays
  BY DEF TypeOK
<1> QED BY <1>1, <1>2 DEF SyncDisplay, TypeOK

LEMMA ListeningStep ==
  ASSUME OneAtATime, Listening, TypeOK', NEW t \in Tasks, Effect(t), Flow(t)
  PROVE  Listening'
<1>0. TypeOK /\ FreshIsAlone
  BY DEF OneAtATime
<1>1. registered' \subseteq subscribed'
  BY <1>0 DEF Listening, Flow, TypeOK
<1>2. ASSUME NEW x \in Renderers, NEW u \in Tasks, In(todo'[u], {"register"}, x)
      PROVE  x \in subscribed'
  <2>1. (u = t /\ In(todo'[t], {"register"}, x)) \/ Ahead({"register"}, x)
    BY <1>2, AheadAfter DEF Effect
  <2>2. NewNames(t, todo'[t], x)
    BY DEF Effect
  <2>3. In(todo[t], {"register"}, x) => Ahead({"register"}, x)
    BY AheadIn
  <2>4. Ahead({"register"}, x) \/ x \in subscribed'
    BY <2>1, <2>2, <2>3 DEF NewNames
  <2>5. CASE Ahead({"register"}, x)
    <3>1. Fresh(x)
      BY <2>5 DEF Fresh, Ahead, Fresher
    <3> QED BY <1>0, <2>5, <3>1 DEF FreshIsAlone, Listening, Flow
  <2> QED BY <2>4, <2>5
<1>3. \A x \in Renderers : Ahead({"register"}, x)' => x \in subscribed'
  BY <1>2 DEF Ahead, In
<1> QED BY <1>1, <1>3 DEF Listening

LEMMA TargetStays ==
  ASSUME OneAtATime, TypeOK', NEW t \in Tasks, Flow(t), Changes(t), NEW d \in Displays,
         link'[d] = link[d]
  PROVE  Target(d)' = Target(d)
<1>0. TypeOK /\ FreshIsAlone
  BY DEF OneAtATime
<1>1. link[d] \in registered => link[d] \in registered'
  BY DEF Flow
<1>2. link[d] \in registered' => link[d] \in registered
  <2> SUFFICES ASSUME link[d] \in registered', link[d] \notin registered PROVE FALSE
    OBVIOUS
  <2>1. Ahead(Fresher, link[d])
    BY DEF Changes
  <2>2. link[d] \in Renderers
    BY DEF TypeOK
  <2> QED BY <1>0, <2>1, <2>2 DEF Fresh, FreshIsAlone, Audience
<1>3. pool' = pool
  BY DEF Flow
<1> QED BY <1>1, <1>2, <1>3 DEF Target

LEMMA InStepStep ==
  ASSUME OneAtATime, Followed, TypeOK', NEW t \in Tasks, Effect(t), Changes(t), Flow(t)
  PROVE  InStep'
<1>0. TypeOK /\ Listening /\ InStep
  BY DEF OneAtATime, Followed
<1> SUFFICES ASSUME NEW d \in present', bound'[d] # Target(d)', ~Negotiating(d)'
             PROVE  \/ \E u \in Tasks : Syncs(todo'[u], d) /\ (u \in Eventing => u = Events(link'[d]))
                    \/ link'[d] \in subscribed' /\ events'[link'[d]] > 0
  BY DEF InStep, Due, Syncs, Eventing, Events
<1>1. d \in Displays
  BY DEF TypeOK
<1>2. CASE d \notin present
  BY <1>2 DEF Flow
<1>3. CASE link'[d] # link[d]
  BY <1>3 DEF Effect
<1>4. CASE d \in present /\ link'[d] = link[d]
  <2>1. Target(d)' = Target(d)
    BY <1>1, <1>4, TargetStays
  <2>0. ~Negotiating(d)
    BY <1>4, <2>1 DEF Negotiating, Flow
  <2>2. ~SyncDisplay(d)
    BY <1>0, <1>4, <2>0, <2>1, SyncReaches
  <2>3. bound[d] # Target(d)
    BY <2>1, <2>2 DEF Flow
  <2>4. CASE Due(d)
    <3>1. PICK u \in Tasks : Syncs(todo[u], d) /\ (u \in Eventing => u = Events(link[d]))
      BY <2>4 DEF Due
    <3>2. CASE u = t
      BY <1>1, <1>4, <2>2, <3>1, <3>2 DEF Effect
    <3>3. CASE u # t
      <4>1. todo'[u] = todo[u] \/ u \in Eventing
        BY <3>3 DEF Effect, OthersGoOn
      <4>2. CASE todo'[u] = todo[u]
        BY <1>4, <3>1, <4>2
      <4>3. CASE u \in Eventing /\ todo'[u] # todo[u]
        <5>1. PICK x \in Renderers : u = Events(x)
          BY <4>3 DEF Eventing
        <5>2. x = link[d]
          BY <3>1, <4>3, <5>1 DEF Events
        <5>3. x \in registered \ registered'
          BY <3>3, <4>3, <5>1 DEF Flow
        <5> QED BY <1>1, <1>4, <5>2, <5>3 DEF Flow
      <4> QED BY <4>1, <4>2, <4>3
    <3> QED BY <3>2, <3>3
  <2>5. CASE link[d] \in subscribed /\ events[link[d]] > 0
    <3> DEFINE x == link[d]
    <3>1. x \in Renderers /\ x \in subscribed /\ events[x] > 0 /\ d \in Audience(x)
      BY <1>0, <1>1, <2>5 DEF TypeOK, Audience
    <3>2. ~(x \in registered \ registered')
      BY <1>1, <1>4 DEF Flow
    <3> HIDE DEF x
    <3>3. x \in subscribed'
      BY <3>1, <3>2 DEF Flow
    <3>4. CASE events'[x] = events[x]
      BY <1>4, <3>1, <3>3, <3>4 DEF x
    <3>5. CASE t = Events(x) /\ \A e \in Audience(x) : Syncs(todo'[t], e)
      BY <1>4, <3>1, <3>5 DEF x
    <3> QED BY <3>1, <3>2, <3>4, <3>5 DEF Flow
  <2> QED BY <1>0, <1>4, <2>0, <2>3, <2>4, <2>5 DEF InStep
<1> QED BY <1>2, <1>3, <1>4

LEMMA FollowedStill ==
  ASSUME OneAtATime, Followed, TypeOK', Quiet, Still
  PROVE  Followed'
<1>0. TypeOK /\ Listening /\ InStep
  BY DEF OneAtATime, Followed
<1> USE DEF Quiet
<1>2. Listening'
  BY <1>0 DEF Listening, Still, Ahead
<1>3. InStep'
  <2> SUFFICES ASSUME NEW d \in present, bound'[d] # Target(d)', ~Due(d), ~Negotiating(d)'
               PROVE  link[d] \in subscribed' /\ events'[link[d]] > 0
    BY DEF InStep, Due
  <2>1. d \in Displays /\ bound'[d] = bound[d] /\ subscribed' = subscribed
    BY <1>0 DEF TypeOK, Still
  <2>2. CASE link[d] \in Renderers
    <3> DEFINE x == link[d]
    <3>1. (pool'[x] = pool[x] /\ events'[x] = events[x]) \/ x \notin subscribed \/ events'[x] > 0
      BY <2>2 DEF Still
    <3>2. x \in registered => x \in subscribed
      BY <1>0 DEF Listening
    <3>3. CASE pool'[x] = pool[x] /\ events'[x] = events[x]
      <4>1. Target(d)' = Target(d)
        BY <3>3 DEF Target
      <4>2. ~Negotiating(d)
        BY <2>2, <4>1 DEF Negotiating, Still
      <4> QED BY <1>0, <2>1, <3>3, <4>1, <4>2 DEF InStep
    <3>4. CASE x \notin subscribed
      <4>1. Target(d)' = Target(d)
        BY <3>2, <3>4 DEF Target
      <4>2. ~Negotiating(d)
        BY <2>2, <4>1 DEF Negotiating, Still
      <4> QED BY <1>0, <2>1, <3>4, <4>1, <4>2 DEF InStep
    <3>5. CASE x \in subscribed /\ events'[x] > 0
      BY <2>1, <3>5
    <3> QED BY <3>1, <3>3, <3>4, <3>5
  <2>3. CASE link[d] \notin Renderers
    <3>1. Target(d)' = NoPool /\ Target(d) = NoPool
      BY <1>0, <2>3 DEF Target, TypeOK, NoPool
    <3>2. ~Negotiating(d)
      BY <3>1 DEF Negotiating
    <3> QED BY <1>0, <2>1, <2>3, <3>1, <3>2 DEF InStep, TypeOK
  <2> QED BY <2>2, <2>3
<1> QED BY <1>2, <1>3 DEF Followed

LEMMA FollowedNext ==
  ASSUME OneApply, OneAtATime, Followed, TypeOK', [Next]_vars
  PROVE  Followed'
<1>1. CASE UNCHANGED vars
  <2>1. Quiet /\ Still
    BY <1>1 DEF vars, tableVars, ackVars, mgrVars, rendererVars, Quiet, Still
  <2> QED BY <2>1, FollowedStill
<1>2. CASE Next /\ Quiet /\ Still
  BY <1>2, FollowedStill
<1>3. ASSUME NEW t \in Tasks, Effect(t), Changes(t), Flow(t) PROVE Followed'
  BY <1>3, ListeningStep, InStepStep DEF Followed
<1> QED BY <1>1, <1>2, <1>3, StepCases

LEMMA FollowedComplete ==
  ASSUME Followed
  PROVE  SyncComplete
BY DEF Followed, InStep, Due, Syncs, SyncComplete, WillSync

(* What sync_display is for (router.rs:1891): with one apply at a time, a  *)
(* display that is out of step with its link has a sync or a BindBuffers   *)
(* event coming, at every moment: through relinks, evictions, timers,      *)
(* kills and disconnections.  With renderers that negotiate, only a pool   *)
(* that negotiation may keep back is missing without one: what a display   *)
(* has and is to lose always has.                                          *)
THEOREM RouterSyncComplete ==
  ASSUME OneApply
  PROVE  Spec => []SyncComplete
<1>1. Init => (OneAtATime /\ MapsAgree) /\ Followed
  <2> SUFFICES ASSUME Init PROVE (OneAtATime /\ MapsAgree) /\ Followed
    OBVIOUS
  <2>1. OneAtATime /\ MapsAgree
    BY OneAtATimeInit, TypeInit
  <2>2. Followed
    BY DEF Init, Followed, Listening, InStep, Ahead
  <2> QED BY <2>1, <2>2
<1>2. /\ TypeOK' /\ ((OneAtATime /\ MapsAgree) /\ Followed) /\ [Next]_vars
      => ((OneAtATime /\ MapsAgree) /\ Followed)'
  BY OneAtATimeNext, FollowedNext
<1>3. (OneAtATime /\ MapsAgree) /\ Followed => SyncComplete
  BY FollowedComplete
<1> QED
  BY <1>1, <1>2, <1>3, RouterTypeOK, PTL DEF Spec

=============================================================================
