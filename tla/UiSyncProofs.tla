---------------------------- MODULE UiSyncProofs ----------------------------
(***************************************************************************)
(* What the router announces, for every set of displays, renderers,        *)
(* libraries and tasks, every number of operations, and any connection.    *)
(*                                                                         *)
(* TruthIsAnnounced is about the end of an operation.  Its inductive form  *)
(* follows the operation's tail: an object that the events so far do not   *)
(* show as it is has a step ahead in the tail that will look at it or      *)
(* announce it (DisplayCovered, RendererCovered, LibraryCovered), and what *)
(* the tail is about to announce is still so when it is (Current).         *)
(***************************************************************************)
EXTENDS UiSync, SequenceTheorems, FiniteSetTheorems, TLAPS

Maps(S, V) == UNION {[T -> V] : T \in SUBSET S}
DisplayVals == [link : Renderers \cup {None}, face : 0..1, layout : 0..1, over : BOOLEAN]
RendererVals == [paused : BOOLEAN, sized : BOOLEAN]

Events ==
  UNION {[of : {"displays"}, op : {"upsert"}, id : Displays, val : DisplayVals],
         [of : {"displays"}, op : {"remove"}, id : Displays],
         [of : {"displays"}, op : {"replace"}, val : Maps(Displays, DisplayVals)],
         [of : {"renderers"}, op : {"upsert"}, id : Renderers, val : RendererVals],
         [of : {"renderers"}, op : {"remove"}, id : Renderers],
         [of : {"libraries"}, op : {"upsert"}, id : Libraries, val : Libraries],
         [of : {"libraries"}, op : {"remove"}, id : Libraries]}
Steps ==
  UNION {[op : {"reconcile", "lookAll", "nudge"}, arg : {None}],
         [op : {"look", "joined"}, arg : Displays],
         [op : {"lookRenderer"}, arg : Renderers],
         [op : {"emit"}, arg : Events],
         [op : {"publish"}, arg : {"playlist", "status"}]}

World ==
  /\ here \subseteq Displays /\ up \subseteq Renderers /\ up \subseteq born
  /\ paused \subseteq up /\ libs \subseteq Libraries
  /\ IsFiniteSet(up)
  /\ link \in [Displays -> up \cup {None}] /\ face \in [Displays -> 0..1] /\ layout \in 0..1
JobsOK == job \in [Writers -> Seq(Steps)]
ToldOK ==
  told \in [displays : Maps(Displays, DisplayVals), renderers : Maps(Renderers, RendererVals),
            libraries : Maps(Libraries, Libraries)]
Types == World /\ JobsOK /\ ToldOK

-----------------------------------------------------------------------------
(* Maps, and how an event changes one.                                     *)

LEMMA MapIs ==
  ASSUME NEW S, NEW V, NEW m \in Maps(S, V)
  PROVE  DOMAIN m \subseteq S /\ m \in [DOMAIN m -> V]
BY DEF Maps

LEMMA IsMap ==
  ASSUME NEW S, NEW V, NEW T \in SUBSET S, NEW m \in [T -> V]
  PROVE  m \in Maps(S, V)
BY DEF Maps

LEMMA UpsertIs ==
  ASSUME NEW S, NEW V, NEW m \in Maps(S, V), NEW e, e.op = "upsert", e.id \in S, e.val \in V
  PROVE  /\ Change(m, e) \in Maps(S, V)
         /\ DOMAIN Change(m, e) = DOMAIN m \cup {e.id}
         /\ Change(m, e)[e.id] = e.val
         /\ \A x \in DOMAIN m \ {e.id} : Change(m, e)[x] = m[x]
<1>1. Change(m, e) = [x \in DOMAIN m \cup {e.id} |-> IF x = e.id THEN e.val ELSE m[x]]
  BY DEF Change
<1>2. DOMAIN m \subseteq S /\ m \in [DOMAIN m -> V]
  BY MapIs
<1>3. Change(m, e) \in [DOMAIN m \cup {e.id} -> V]
  BY <1>1, <1>2
<1>4. Change(m, e) \in Maps(S, V)
  BY <1>2, <1>3, IsMap
<1> QED BY <1>1, <1>4

LEMMA RemoveIs ==
  ASSUME NEW S, NEW V, NEW m \in Maps(S, V), NEW e, e.op = "remove"
  PROVE  /\ Change(m, e) \in Maps(S, V)
         /\ DOMAIN Change(m, e) = DOMAIN m \ {e.id}
         /\ \A x \in DOMAIN m \ {e.id} : Change(m, e)[x] = m[x]
<1>1. Change(m, e) = [x \in DOMAIN m \ {e.id} |-> m[x]]
  BY DEF Change
<1>2. DOMAIN m \subseteq S /\ m \in [DOMAIN m -> V]
  BY MapIs
<1>3. Change(m, e) \in [DOMAIN m \ {e.id} -> V]
  BY <1>1, <1>2
<1>4. Change(m, e) \in Maps(S, V)
  BY <1>2, <1>3, IsMap
<1> QED BY <1>1, <1>4

LEMMA ReplaceIs == ASSUME NEW m, NEW e, e.op = "replace" PROVE Change(m, e) = e.val
BY DEF Change

LEMMA AppliedIs ==
  ASSUME ToldOK, NEW e, NEW new, new = Applied(told, e)
  PROVE  /\ e.of = "displays" =>
              new = [displays |-> Change(told.displays, e),
                     renderers |-> told.renderers, libraries |-> told.libraries]
         /\ e.of = "renderers" =>
              new = [displays |-> told.displays,
                     renderers |-> Change(told.renderers, e), libraries |-> told.libraries]
         /\ e.of = "libraries" =>
              new = [displays |-> told.displays, renderers |-> told.renderers,
                     libraries |-> Change(told.libraries, e)]
<1>1. ASSUME NEW of, e.of = of PROVE new = [told EXCEPT ![of] = Change(told[of], e)]
  BY <1>1 DEF Applied
<1>2. CASE e.of = "displays"
  <2>1. new = [told EXCEPT !["displays"] = Change(told.displays, e)]
    BY <1>1, <1>2
  <2> QED BY <1>2, <2>1 DEF ToldOK
<1>3. CASE e.of = "renderers"
  <2>1. new = [told EXCEPT !["renderers"] = Change(told.renderers, e)]
    BY <1>1, <1>3
  <2> QED BY <1>3, <2>1 DEF ToldOK
<1>4. CASE e.of = "libraries"
  <2>1. new = [told EXCEPT !["libraries"] = Change(told.libraries, e)]
    BY <1>1, <1>4
  <2> QED BY <1>4, <2>1 DEF ToldOK
<1> QED BY <1>2, <1>3, <1>4

LEMMA AppliedTypes ==
  ASSUME ToldOK, NEW e \in Events, told' = Applied(told, e)
  PROVE  ToldOK'
<1>1. /\ told.displays \in Maps(Displays, DisplayVals)
      /\ told.renderers \in Maps(Renderers, RendererVals)
      /\ told.libraries \in Maps(Libraries, Libraries)
  BY DEF ToldOK
<1>2. CASE e.of = "displays"
  <2>1. Change(told.displays, e) \in Maps(Displays, DisplayVals)
    <3>1. \/ e.op = "upsert" /\ e.id \in Displays /\ e.val \in DisplayVals
          \/ e.op = "remove"
          \/ e.op = "replace" /\ e.val \in Maps(Displays, DisplayVals)
      BY <1>2 DEF Events
    <3>2. CASE e.op = "replace" /\ e.val \in Maps(Displays, DisplayVals)
      BY <3>2, ReplaceIs
    <3> QED BY <1>1, <3>1, <3>2, UpsertIs, RemoveIs
  <2> QED BY <1>1, <1>2, <2>1, AppliedIs DEF ToldOK
<1>3. CASE e.of = "renderers"
  <2>1. Change(told.renderers, e) \in Maps(Renderers, RendererVals)
    <3>1. \/ e.op = "upsert" /\ e.id \in Renderers /\ e.val \in RendererVals
          \/ e.op = "remove"
      BY <1>3 DEF Events
    <3> QED BY <1>1, <3>1, UpsertIs, RemoveIs
  <2> QED BY <1>1, <1>3, <2>1, AppliedIs DEF ToldOK
<1>4. CASE e.of = "libraries"
  <2>1. Change(told.libraries, e) \in Maps(Libraries, Libraries)
    <3>1. \/ e.op = "upsert" /\ e.id \in Libraries /\ e.val \in Libraries
          \/ e.op = "remove"
      BY <1>4 DEF Events
    <3> QED BY <1>1, <3>1, UpsertIs, RemoveIs
  <2> QED BY <1>1, <1>4, <2>1, AppliedIs DEF ToldOK
<1> QED BY <1>2, <1>3, <1>4 DEF Events

-----------------------------------------------------------------------------
(* What the events so far show, and what is still to come.                 *)

DisplayShown(d) ==
  IF d \in here THEN d \in DOMAIN told.displays /\ told.displays[d] = DisplayOf(d)
  ELSE d \notin DOMAIN told.displays
RendererShown(r) ==
  IF r \in up THEN r \in DOMAIN told.renderers /\ told.renderers[r] = RendererOf(r)
  ELSE r \notin DOMAIN told.renderers
LibraryShown(l) ==
  IF l \in libs THEN l \in DOMAIN told.libraries /\ told.libraries[l] = l
  ELSE l \notin DOMAIN told.libraries

AllShown ==
  /\ \A d \in Displays : DisplayShown(d)
  /\ \A r \in Renderers : RendererShown(r)
  /\ \A l \in Libraries : LibraryShown(l)

LEMMA ShownIsTruth == ASSUME Types, AllShown PROVE told = Truth
<1>1. /\ told = [displays |-> told.displays, renderers |-> told.renderers,
                 libraries |-> told.libraries]
      /\ told.displays \in Maps(Displays, DisplayVals)
      /\ told.renderers \in Maps(Renderers, RendererVals)
      /\ told.libraries \in Maps(Libraries, Libraries)
  BY DEF Types, ToldOK
<1>2. told.displays = AllDisplays
  <2>1. DOMAIN told.displays \subseteq Displays /\ told.displays = [d \in DOMAIN told.displays |-> told.displays[d]]
    BY <1>1, MapIs
  <2>2. DOMAIN told.displays = here /\ \A d \in here : told.displays[d] = DisplayOf(d)
    BY <2>1 DEF AllShown, DisplayShown, Types, World
  <2> QED BY <2>1, <2>2 DEF AllDisplays
<1>3. told.renderers = AllRenderers
  <2>1. DOMAIN told.renderers \subseteq Renderers /\ told.renderers = [r \in DOMAIN told.renderers |-> told.renderers[r]]
    BY <1>1, MapIs
  <2>2. DOMAIN told.renderers = up /\ \A r \in up : told.renderers[r] = RendererOf(r)
    BY <2>1 DEF AllShown, RendererShown, Types, World
  <2> QED BY <2>1, <2>2 DEF AllRenderers
<1>4. told.libraries = AllLibraries
  <2>1. DOMAIN told.libraries \subseteq Libraries /\ told.libraries = [l \in DOMAIN told.libraries |-> told.libraries[l]]
    BY <1>1, MapIs
  <2>2. DOMAIN told.libraries = libs /\ \A l \in libs : told.libraries[l] = l
    BY <2>1 DEF AllShown, LibraryShown, Types, World
  <2> QED BY <2>1, <2>2 DEF AllLibraries
<1> QED BY <1>1, <1>2, <1>3, <1>4 DEF Truth

\* Some task's tail has that step.
Pending(op, arg) ==
  \E w \in Writers : \E i \in DOMAIN job[w] : job[w][i].op = op /\ job[w][i].arg = arg
Announces(e) == Pending("emit", e)

LibraryEvent(l) == IF l \in libs THEN Upsert("libraries", l, l) ELSE Remove("libraries", l)

DisplayCovered(d) ==
  \/ DisplayShown(d)
  \/ Pending("lookAll", None) \/ Announces(Replace("displays", AllDisplays))
  \/ d \in here /\ (Pending("look", d) \/ Announces(Upsert("displays", d, DisplayOf(d))))
  \/ d \notin here /\ Announces(Remove("displays", d))
Unreconciled(r) == Pending("reconcile", None) /\ ShouldPause(r) # (r \in paused)
RendererCovered(r) ==
  \/ RendererShown(r)
  \/ r \in up /\ \/ Pending("lookRenderer", r) \/ Unreconciled(r)
                 \/ Announces(Upsert("renderers", r, RendererOf(r)))
  \/ r \notin up /\ Announces(Remove("renderers", r))
LibraryCovered(l) == LibraryShown(l) \/ Announces(LibraryEvent(l))
AllCovered ==
  /\ \A d \in Displays : DisplayCovered(d)
  /\ \A r \in Renderers : RendererCovered(r)
  /\ \A l \in Libraries : LibraryCovered(l)

\* What is announced is so.  A renderer's pause state may still change while
\* it is further down the tail.
IsSo(e) ==
  \/ \E d \in here : e = Upsert("displays", d, DisplayOf(d))
  \/ \E d \in Displays \ here : e = Remove("displays", d)
  \/ e = Replace("displays", AllDisplays)
  \/ \E r \in Renderers \ up : e = Remove("renderers", r)
  \/ \E l \in Libraries : e = LibraryEvent(l)
IsSoNow(e) == \E r \in up : e = Upsert("renderers", r, RendererOf(r))
Current ==
  \A w \in Writers : \A i \in DOMAIN job[w] :
    job[w][i].op = "emit" => IsSo(job[w][i].arg) \/ (i = 1 /\ IsSoNow(job[w][i].arg))
OneAtWork == \A v, w \in Writers : job[v] # <<>> /\ job[w] # <<>> => v = w

Announcing == Types /\ (mixed \in BOOLEAN) /\ (~mixed => OneAtWork /\ Current /\ AllCovered)

LEMMA NothingPending ==
  ASSUME JobsOK, Idle, NEW op, NEW arg PROVE ~Pending(op, arg)
<1>1. \A w \in Writers : DOMAIN job[w] = {}
  BY DEF Idle
<1> QED BY <1>1 DEF Pending

LEMMA IdleShown ==
  ASSUME JobsOK, Idle, AllCovered PROVE AllShown
<1>1. \A op, arg : ~Pending(op, arg)
  BY NothingPending
<1> QED
  BY <1>1 DEF AllCovered, AllShown, DisplayCovered, RendererCovered, LibraryCovered, Announces, Unreconciled

LEMMA AnnouncingShows == Announcing => TruthIsAnnounced
BY IdleShown, ShownIsTruth DEF Announcing, Types, TruthIsAnnounced

-----------------------------------------------------------------------------
(* How a tail begins, and how it goes on.                                  *)

\* r goes on with s in the place of q's head.
GoesOnWith(q, s, r) ==
  /\ r \in Seq(Steps)
  /\ 1 \in DOMAIN q /\ Head(q) = q[1] /\ Head(q) \in Steps
  /\ \A i \in DOMAIN s : i \in DOMAIN r /\ r[i] = s[i]
  /\ \A k \in DOMAIN q : k # 1 => \E i \in DOMAIN r : r[i] = q[k]
  /\ \A i \in DOMAIN r : \/ i \in DOMAIN s /\ r[i] = s[i]
                         \/ \E k \in DOMAIN q : k # 1 /\ r[i] = q[k]

LEMMA TailAt ==
  ASSUME NEW q \in Seq(Steps), q # <<>>, NEW s \in Seq(Steps)
  PROVE  GoesOnWith(q, s, s \o Tail(q))
<1> DEFINE r == s \o Tail(q)
<1>1. /\ Tail(q) \in Seq(Steps) /\ Len(Tail(q)) = Len(q) - 1 /\ Len(q) \in Nat /\ Len(q) >= 1
      /\ \A i \in 1..Len(Tail(q)) : Tail(q)[i] = q[i + 1]
  OBVIOUS
<1>2. /\ r \in Seq(Steps) /\ Len(r) = Len(s) + Len(Tail(q)) /\ Len(s) \in Nat
      /\ \A i \in 1..Len(r) : r[i] = IF i <= Len(s) THEN s[i] ELSE Tail(q)[i - Len(s)]
  BY <1>1
<1> HIDE DEF r
<1>3. DOMAIN q = 1..Len(q) /\ DOMAIN s = 1..Len(s) /\ DOMAIN r = 1..Len(r)
  BY <1>2
<1>4. 1 \in DOMAIN q /\ Head(q) = q[1] /\ Head(q) \in Steps
  BY <1>1, <1>3
<1>5. ASSUME NEW i \in DOMAIN s PROVE i \in DOMAIN r /\ r[i] = s[i]
  BY <1>1, <1>2, <1>3
<1>6. ASSUME NEW k \in DOMAIN q, k # 1 PROVE \E i \in DOMAIN r : r[i] = q[k]
  <2> DEFINE i == Len(s) + (k - 1)
  <2>1. k \in Nat /\ k >= 2 /\ k <= Len(q)
    BY <1>1, <1>3, <1>6
  <2>2. i \in DOMAIN r /\ ~(i <= Len(s)) /\ i - Len(s) = k - 1
    BY <1>1, <1>2, <1>3, <2>1
  <2>3. r[i] = Tail(q)[k - 1]
    BY <1>2, <1>3, <2>2
  <2>4. Tail(q)[k - 1] = q[k]
    BY <1>1, <2>1
  <2> QED BY <2>2, <2>3, <2>4
<1>7. ASSUME NEW i \in DOMAIN r, i \notin DOMAIN s PROVE \E k \in DOMAIN q : k # 1 /\ r[i] = q[k]
  <2> DEFINE k == i - Len(s) + 1
  <2>1. i \in Nat /\ i > Len(s) /\ i <= Len(r)
    BY <1>2, <1>3, <1>7
  <2>2. k \in DOMAIN q /\ k # 1 /\ i - Len(s) \in 1..Len(Tail(q))
    BY <1>1, <1>2, <1>3, <2>1
  <2>3. r[i] = Tail(q)[i - Len(s)]
    <3>1. i \in 1..Len(r) /\ ~(i <= Len(s))
      BY <1>1, <1>2, <1>3, <2>1
    <3> QED BY <1>2, <3>1
  <2>4. Tail(q)[i - Len(s)] = q[k]
    BY <1>1, <2>2
  <2> QED BY <2>2, <2>3, <2>4
<1>8. GoesOnWith(q, s, r)
  BY <1>2, <1>4, <1>5, <1>6, <1>7 DEF GoesOnWith
<1> QED BY <1>8 DEF r

\* A step of a tail.
LEMMA GoesOn ==
  ASSUME JobsOK, NEW w \in Writers, job[w] # <<>>, NEW steps \in Seq(Steps), Goes(w, steps)
  PROVE  /\ JobsOK' /\ mixed' = mixed
         /\ Head(job[w]) = job[w][1] /\ 1 \in DOMAIN job[w] /\ Head(job[w]) \in Steps
         /\ OneAtWork => OneAtWork'
         /\ \A i \in DOMAIN steps : Pending(steps[i].op, steps[i].arg)'
         /\ \A op, arg : Pending(op, arg) =>
              Pending(op, arg)' \/ (op = Head(job[w]).op /\ arg = Head(job[w]).arg)
         /\ OneAtWork =>
              \A v \in Writers : \A i \in DOMAIN job'[v] :
                \/ v = w /\ i \in DOMAIN steps /\ job'[v][i] = steps[i]
                \/ v = w /\ \E k \in DOMAIN job[v] : k # 1 /\ job'[v][i] = job[v][k]
<1> DEFINE new == steps \o Tail(job[w])
<1>1. job[w] \in Seq(Steps) /\ job' = [job EXCEPT ![w] = new] /\ mixed' = mixed
  BY DEF JobsOK, Goes
<1>2. GoesOnWith(job[w], steps, new)
  BY <1>1, TailAt
<1> HIDE DEF new
<1>3. JobsOK' /\ job'[w] = new /\ \A v \in Writers \ {w} : job'[v] = job[v]
  BY <1>1, <1>2 DEF JobsOK, GoesOnWith
<1>4. OneAtWork => OneAtWork'
  BY <1>3 DEF OneAtWork
<1>5. \A i \in DOMAIN steps : Pending(steps[i].op, steps[i].arg)'
  BY <1>2, <1>3 DEF Pending, GoesOnWith
<1>6. ASSUME NEW op, NEW arg, Pending(op, arg)
      PROVE  Pending(op, arg)' \/ (op = Head(job[w]).op /\ arg = Head(job[w]).arg)
  <2>1. PICK v \in Writers : \E k \in DOMAIN job[v] : job[v][k].op = op /\ job[v][k].arg = arg
    BY <1>6 DEF Pending
  <2>2. PICK k \in DOMAIN job[v] : job[v][k].op = op /\ job[v][k].arg = arg
    BY <2>1
  <2>3. CASE v # w
    BY <1>3, <2>2, <2>3 DEF Pending
  <2>4. CASE v = w /\ k = 1
    BY <1>2, <2>2, <2>4 DEF GoesOnWith
  <2>5. CASE v = w /\ k # 1
    <3>1. PICK i \in DOMAIN new : new[i] = job[w][k]
      BY <1>2, <2>2, <2>5 DEF GoesOnWith
    <3> QED BY <1>3, <2>2, <2>5, <3>1 DEF Pending
  <2> QED BY <2>3, <2>4, <2>5
<1>7. ASSUME OneAtWork, NEW v \in Writers, NEW i \in DOMAIN job'[v]
      PROVE  \/ v = w /\ i \in DOMAIN steps /\ job'[v][i] = steps[i]
             \/ v = w /\ \E k \in DOMAIN job[v] : k # 1 /\ job'[v][i] = job[v][k]
  <2>1. CASE v = w
    BY <1>2, <1>3, <1>7, <2>1 DEF GoesOnWith
  <2>2. CASE v # w
    <3>1. job'[v] = <<>>
      BY <1>3, <1>7, <2>2 DEF OneAtWork
    <3> QED BY <1>7, <3>1
  <2> QED BY <2>1, <2>2
<1> QED BY <1>1, <1>2, <1>3, <1>4, <1>5, <1>6, <1>7 DEF GoesOnWith


\* What is shown of the daemon stays as it is, but for what is paused.
SameWorld ==
  UNCHANGED <<here, link, face, over, layout, up, bound, manual, libs, born>>

LEMMA EventTypes ==
  ASSUME World
  PROVE  /\ \A d \in Displays : DisplayOf(d) \in DisplayVals
         /\ \A r \in Renderers : RendererOf(r) \in RendererVals
         /\ \A d \in Displays : Remove("displays", d) \in Events
         /\ \A r \in Renderers : Remove("renderers", r) \in Events
         /\ \A l \in Libraries : /\ Remove("libraries", l) \in Events
                                 /\ Upsert("libraries", l, l) \in Events
         /\ \A d \in Displays : Upsert("displays", d, DisplayOf(d)) \in Events
         /\ \A r \in Renderers : Upsert("renderers", r, RendererOf(r)) \in Events
         /\ Replace("displays", AllDisplays) \in Events
<1>1. \A d \in Displays : DisplayOf(d) \in DisplayVals
  BY DEF World, DisplayOf, DisplayVals
<1>2. \A r \in Renderers : RendererOf(r) \in RendererVals
  BY DEF World, RendererOf, RendererVals
<1>3. AllDisplays \in Maps(Displays, DisplayVals)
  <2>1. AllDisplays \in [here -> DisplayVals] /\ here \subseteq Displays
    BY <1>1 DEF AllDisplays, World
  <2> QED BY <2>1, IsMap
<1>4. \A d \in Displays : Remove("displays", d) \in Events
  BY DEF Remove, Events
<1>5. \A r \in Renderers : Remove("renderers", r) \in Events
  BY DEF Remove, Events
<1>6. \A l \in Libraries : Remove("libraries", l) \in Events /\ Upsert("libraries", l, l) \in Events
  BY DEF Remove, Upsert, Events
<1>7. \A d \in Displays : Upsert("displays", d, DisplayOf(d)) \in Events
  BY <1>1 DEF Upsert, Events
<1>8. \A r \in Renderers : Upsert("renderers", r, RendererOf(r)) \in Events
  BY <1>2 DEF Upsert, Events
<1>9. Replace("displays", AllDisplays) \in Events
  BY <1>3 DEF Replace, Events
<1> QED BY <1>1, <1>2, <1>4, <1>5, <1>6, <1>7, <1>8, <1>9

LEMMA StepTypes ==
  /\ Reconcile \in Steps /\ LookAtAll \in Steps /\ Step("nudge", None) \in Steps
  /\ \A d \in Displays : LookAt(d) \in Steps /\ Step("joined", d) \in Steps
  /\ \A r \in Renderers : LookAtRenderer(r) \in Steps
  /\ \A e \in Events : EmitStep(e) \in Steps
  /\ PublishStep("playlist") \in Steps /\ PublishStep("status") \in Steps
BY DEF Steps, Step, Reconcile, LookAtAll, LookAt, LookAtRenderer, EmitStep, PublishStep

\* The beginning of an operation.
LEMMA Begins ==
  ASSUME JobsOK, mixed \in BOOLEAN, NEW w \in Writers, NEW steps \in Seq(Steps), Starts(w, steps)
  PROVE  /\ JobsOK' /\ mixed' \in BOOLEAN /\ told' = told
         /\ ~mixed' =>
              /\ ~mixed /\ Idle /\ OneAtWork'
              /\ \A i \in DOMAIN steps : Pending(steps[i].op, steps[i].arg)'
              /\ \A v \in Writers : \A i \in DOMAIN job'[v] :
                   i \in DOMAIN steps /\ job'[v][i] = steps[i]
<1>1. /\ job' = [job EXCEPT ![w] = steps] /\ told' = told
      /\ mixed' = (mixed \/ \E x \in Writers : job[x] # <<>>)
  BY DEF Starts
<1>2. JobsOK' /\ job'[w] = steps /\ \A v \in Writers \ {w} : job'[v] = job[v]
  BY <1>1 DEF JobsOK
<1>3. ASSUME ~mixed' PROVE ~mixed /\ Idle
  BY <1>1, <1>3 DEF Idle
<1>4. ASSUME ~mixed'
      PROVE  /\ OneAtWork'
             /\ \A i \in DOMAIN steps : Pending(steps[i].op, steps[i].arg)'
             /\ \A v \in Writers : \A i \in DOMAIN job'[v] :
                  i \in DOMAIN steps /\ job'[v][i] = steps[i]
  <2>1. \A v \in Writers \ {w} : job'[v] = <<>>
    BY <1>2, <1>3, <1>4 DEF Idle
  <2>2. OneAtWork'
    BY <2>1 DEF OneAtWork
  <2>3. \A i \in DOMAIN steps : Pending(steps[i].op, steps[i].arg)'
    BY <1>2 DEF Pending
  <2>4. ASSUME NEW v \in Writers, NEW i \in DOMAIN job'[v]
        PROVE  i \in DOMAIN steps /\ job'[v][i] = steps[i]
    <3>1. CASE v = w
      BY <1>2, <2>4, <3>1
    <3>2. CASE v # w
      BY <2>1, <2>4, <3>2
    <3> QED BY <3>1, <3>2
  <2> QED BY <2>2, <2>3, <2>4
<1> QED BY <1>1, <1>2, <1>3, <1>4

\* What an operation has to do at its beginning: keep the types, say nothing
\* that is not so, and have a step for all it changed.
LEMMA BeginsAnnouncing ==
  ASSUME Announcing, NEW w \in Writers, NEW steps \in Seq(Steps), Starts(w, steps), World',
         \A i \in DOMAIN steps : steps[i].op = "emit" => IsSo(steps[i].arg)',
         ASSUME AllShown, told' = told,
                \A i \in DOMAIN steps : Pending(steps[i].op, steps[i].arg)'
         PROVE  AllCovered'
  PROVE  Announcing'
<1>1. Types /\ World /\ JobsOK /\ ToldOK /\ mixed \in BOOLEAN
  BY DEF Announcing, Types
<1>2. JobsOK' /\ mixed' \in BOOLEAN /\ told' = told
  BY <1>1, Begins
<1>3. ToldOK'
  BY <1>1, <1>2 DEF ToldOK
<1>4. ASSUME ~mixed' PROVE OneAtWork' /\ Current' /\ AllCovered'
  <2>1. /\ ~mixed /\ Idle /\ OneAtWork'
        /\ \A i \in DOMAIN steps : Pending(steps[i].op, steps[i].arg)'
        /\ \A v \in Writers : \A i \in DOMAIN job'[v] : i \in DOMAIN steps /\ job'[v][i] = steps[i]
    BY <1>1, <1>4, Begins
  <2>2. AllShown
    BY <1>1, <2>1, IdleShown DEF Announcing
  <2>3. Current'
    BY <2>1 DEF Current
  <2>4. AllCovered'
    BY <1>2, <2>1, <2>2
  <2> QED BY <2>1, <2>3, <2>4
<1> QED BY <1>2, <1>3, <1>4 DEF Announcing, Types

\* What is shown stays so where nothing it says changes.
LEMMA DisplayStays ==
  ASSUME NEW d, told' = told, d \in here' <=> d \in here, link'[d] = link[d],
         face'[d] = face[d], layout' = layout, link[d] \in over' <=> link[d] \in over
  PROVE  DisplayOf(d)' = DisplayOf(d) /\ (DisplayShown(d)' <=> DisplayShown(d))
<1>1. DisplayOf(d)' = DisplayOf(d)
  BY DEF DisplayOf
<1> QED BY <1>1 DEF DisplayShown

LEMMA RendererStays ==
  ASSUME NEW r, told' = told, r \in up' <=> r \in up, r \in paused' <=> r \in paused,
         r \in bound' <=> r \in bound
  PROVE  RendererOf(r)' = RendererOf(r) /\ (RendererShown(r)' <=> RendererShown(r))
<1>1. RendererOf(r)' = RendererOf(r)
  BY DEF RendererOf
<1> QED BY <1>1 DEF RendererShown

LEMMA LibrariesStay ==
  ASSUME told' = told, libs' = libs
  PROVE  \A l : LibraryShown(l)' <=> LibraryShown(l)
BY DEF LibraryShown

-----------------------------------------------------------------------------
(* The operations begin.                                                   *)

LEMMA RegisterDisplayAnnounces ==
  ASSUME Announcing, NEW w \in Writers, RegisterDisplay(w) PROVE Announcing'
<1>0. Types /\ World
  BY DEF Announcing, Types
<1>1. PICK d \in Displays \ born :
        /\ here' = here \cup {d} /\ born' = born \cup {d}
        /\ \/ \E r \in up : link' = [link EXCEPT ![d] = r]
           \/ up = {} /\ UNCHANGED link
        /\ Starts(w, <<Reconcile, LookAt(d), Step("joined", d)>>)
        /\ UNCHANGED <<joined, face, over, layout, up, bound, paused, manual, libs,
                       plays, scan, busy>>
  BY DEF RegisterDisplay
<1> DEFINE steps == <<Reconcile, LookAt(d), Step("joined", d)>>
<1>2. /\ steps \in Seq(Steps)
      /\ \A i \in DOMAIN steps : steps[i].op # "emit"
      /\ 2 \in DOMAIN steps /\ steps[2].op = "look" /\ steps[2].arg = d
  BY StepTypes DEF Reconcile, LookAt, Step
<1>3. World' /\ \A e \in Displays \ {d} : link'[e] = link[e]
  BY <1>0, <1>1 DEF World
<1>4. ASSUME AllShown, told' = told,
             \A i \in DOMAIN steps : Pending(steps[i].op, steps[i].arg)'
      PROVE  AllCovered'
  <2>1. Pending("look", d)' /\ d \in here'
    BY <1>1, <1>2, <1>4
  <2>2. ASSUME NEW e \in Displays, e # d PROVE DisplayShown(e)'
    BY <1>1, <1>3, <1>4, <2>2, DisplayStays DEF AllShown
  <2>3. \A r \in Renderers : RendererShown(r)'
    BY <1>1, <1>4, RendererStays DEF AllShown
  <2>4. \A l \in Libraries : LibraryShown(l)'
    BY <1>1, <1>4, LibrariesStay DEF AllShown
  <2> QED BY <2>1, <2>2, <2>3, <2>4 DEF AllCovered, DisplayCovered, RendererCovered, LibraryCovered
<1> HIDE DEF steps
<1> QED BY <1>1, <1>2, <1>3, <1>4, BeginsAnnouncing DEF steps

LEMMA UnregisterDisplayAnnounces ==
  ASSUME Announcing, NEW w \in Writers, UnregisterDisplay(w) PROVE Announcing'
<1>0. Types /\ World
  BY DEF Announcing, Types
<1>1. PICK d \in here \cap joined :
        /\ here' = here \ {d}
        /\ link' = [link EXCEPT ![d] = None]
        /\ Starts(w, <<Reconcile, EmitStep(Remove("displays", d))>>)
        /\ UNCHANGED <<joined, face, over, layout, up, bound, paused, manual, libs,
                       plays, scan, busy, born>>
  BY DEF UnregisterDisplay
<1> DEFINE steps == <<Reconcile, EmitStep(Remove("displays", d))>>
<1>2. /\ d \in Displays /\ World' /\ \A e \in Displays \ {d} : link'[e] = link[e]
      /\ d \notin here'
  BY <1>0, <1>1 DEF World
<1>3. /\ steps \in Seq(Steps)
      /\ \A i \in DOMAIN steps : steps[i].op = "emit" => steps[i].arg = Remove("displays", d)
      /\ 2 \in DOMAIN steps /\ steps[2].op = "emit" /\ steps[2].arg = Remove("displays", d)
  BY <1>0, <1>2, StepTypes, EventTypes DEF Reconcile, EmitStep, Step
<1>4. \A i \in DOMAIN steps : steps[i].op = "emit" => IsSo(steps[i].arg)'
  <2>1. IsSo(Remove("displays", d))'
    BY <1>2 DEF IsSo
  <2> HIDE DEF steps
  <2> QED BY <1>3, <2>1
<1>5. ASSUME AllShown, told' = told,
             \A i \in DOMAIN steps : Pending(steps[i].op, steps[i].arg)'
      PROVE  AllCovered'
  <2>1. Announces(Remove("displays", d))'
    BY <1>3, <1>5 DEF Announces
  <2>2. ASSUME NEW e \in Displays, e # d PROVE DisplayShown(e)'
    BY <1>1, <1>2, <1>5, <2>2, DisplayStays DEF AllShown
  <2>3. \A r \in Renderers : RendererShown(r)'
    BY <1>1, <1>5, RendererStays DEF AllShown
  <2>4. \A l \in Libraries : LibraryShown(l)'
    BY <1>1, <1>5, LibrariesStay DEF AllShown
  <2> QED BY <1>2, <2>1, <2>2, <2>3, <2>4 DEF AllCovered, DisplayCovered, RendererCovered, LibraryCovered
<1> HIDE DEF steps
<1> QED BY <1>1, <1>2, <1>3, <1>4, <1>5, BeginsAnnouncing DEF steps

LEMMA ChangeDisplayAnnounces ==
  ASSUME Announcing, NEW w \in Writers, ChangeDisplay(w) PROVE Announcing'
<1>0. Types /\ World
  BY DEF Announcing, Types
<1>1. PICK d \in here :
        /\ face' = [face EXCEPT ![d] = 1 - @]
        /\ Starts(w, <<LookAt(d)>>)
        /\ UNCHANGED <<here, joined, link, over, layout, up, bound, paused, manual,
                       libs, plays, scan, busy, born>>
  BY DEF ChangeDisplay
<1> DEFINE steps == <<LookAt(d)>>
<1>2. d \in Displays /\ World' /\ \A e \in Displays \ {d} : face'[e] = face[e]
  BY <1>0, <1>1 DEF World
<1>3. /\ steps \in Seq(Steps)
      /\ \A i \in DOMAIN steps : steps[i].op # "emit"
      /\ 1 \in DOMAIN steps /\ steps[1].op = "look" /\ steps[1].arg = d
  <2>1. LookAt(d) \in Steps /\ LookAt(d).op = "look" /\ LookAt(d).arg = d
    BY <1>2, StepTypes DEF LookAt, Step
  <2> QED BY <2>1
<1>4. ASSUME AllShown, told' = told,
             \A i \in DOMAIN steps : Pending(steps[i].op, steps[i].arg)'
      PROVE  AllCovered'
  <2>1. Pending("look", d)' /\ d \in here'
    BY <1>1, <1>3, <1>4
  <2>2. ASSUME NEW e \in Displays, e # d PROVE DisplayShown(e)'
    BY <1>1, <1>2, <1>4, <2>2, DisplayStays DEF AllShown
  <2>3. \A r \in Renderers : RendererShown(r)'
    BY <1>1, <1>4, RendererStays DEF AllShown
  <2>4. \A l \in Libraries : LibraryShown(l)'
    BY <1>1, <1>4, LibrariesStay DEF AllShown
  <2> QED BY <2>1, <2>2, <2>3, <2>4 DEF AllCovered, DisplayCovered, RendererCovered, LibraryCovered
<1> HIDE DEF steps
<1> QED BY <1>1, <1>2, <1>3, <1>4, BeginsAnnouncing DEF steps

\* Operations after which every display is looked at.
LEMMA LookingAtAll ==
  ASSUME AllShown, told' = told, Pending("lookAll", None)', UNCHANGED <<up, bound, paused, libs>>
  PROVE  AllCovered'
<1>1. \A r \in Renderers : RendererShown(r)'
  BY RendererStays DEF AllShown
<1>2. \A l \in Libraries : LibraryShown(l)'
  BY LibrariesStay DEF AllShown
<1> QED BY <1>1, <1>2 DEF AllCovered, DisplayCovered, RendererCovered, LibraryCovered

LEMMA ChangeLayoutAnnounces ==
  ASSUME Announcing, NEW w \in Writers, ChangeLayout(w) PROVE Announcing'
<1>0. Types /\ World
  BY DEF Announcing, Types
<1>1. /\ layout' = 1 - layout
      /\ Starts(w, <<LookAtAll>>)
      /\ UNCHANGED <<here, joined, link, face, over, up, bound, paused, manual,
                     libs, plays, scan, busy, born>>
  BY DEF ChangeLayout
<1> DEFINE steps == <<LookAtAll>>
<1>2. World'
  BY <1>0, <1>1 DEF World
<1>3. /\ steps \in Seq(Steps)
      /\ \A i \in DOMAIN steps : steps[i].op # "emit"
      /\ 1 \in DOMAIN steps /\ steps[1].op = "lookAll" /\ steps[1].arg = None
  BY StepTypes DEF LookAtAll, Step
<1>4. ASSUME AllShown, told' = told,
             \A i \in DOMAIN steps : Pending(steps[i].op, steps[i].arg)'
      PROVE  AllCovered'
  <2>1. Pending("lookAll", None)'
    BY <1>3, <1>4
  <2> QED BY <1>1, <1>4, <2>1, LookingAtAll
<1> HIDE DEF steps
<1> QED BY <1>1, <1>2, <1>3, <1>4, BeginsAnnouncing DEF steps

LEMMA RegisterRendererAnnounces ==
  ASSUME Announcing, NEW w \in Writers, RegisterRenderer(w) PROVE Announcing'
<1>0. Types /\ World
  BY DEF Announcing, Types
<1>1. PICK r \in Renderers \ born :
        /\ up' = up \cup {r} /\ born' = born \cup {r}
        /\ Starts(w, <<Reconcile>>)
        /\ UNCHANGED <<here, joined, link, face, over, layout, bound, paused, manual,
                       libs, plays, scan, busy>>
  BY DEF RegisterRenderer
<1> DEFINE steps == <<Reconcile>>
<1>2. r \notin up /\ r \notin paused /\ World'
  <2>1. IsFiniteSet(up')
    BY <1>0, <1>1, FS_AddElement DEF World
  <2> QED BY <1>0, <1>1, <2>1 DEF World
<1>3. /\ steps \in Seq(Steps)
      /\ \A i \in DOMAIN steps : steps[i].op # "emit"
      /\ 1 \in DOMAIN steps /\ steps[1].op = "reconcile" /\ steps[1].arg = None
  BY StepTypes DEF Reconcile, Step
<1>4. ASSUME AllShown, told' = told,
             \A i \in DOMAIN steps : Pending(steps[i].op, steps[i].arg)'
      PROVE  AllCovered'
  <2>1. Unreconciled(r)' /\ r \in up'
    <3>1. LinkedTo(r)' = {}
      BY <1>0, <1>1, <1>2, NoneIsNoRenderer DEF World, LinkedTo
    <3>2. ShouldPause(r)' /\ r \notin paused'
      BY <1>1, <1>2, <3>1 DEF ShouldPause
    <3>3. Pending("reconcile", None)'
      BY <1>3, <1>4
    <3> QED BY <1>1, <3>2, <3>3 DEF Unreconciled
  <2>2. \A e \in Displays : DisplayShown(e)'
    BY <1>1, <1>4, DisplayStays DEF AllShown
  <2>3. \A s \in Renderers \ {r} : RendererShown(s)'
    BY <1>1, <1>4, RendererStays DEF AllShown
  <2>4. \A l \in Libraries : LibraryShown(l)'
    BY <1>1, <1>4, LibrariesStay DEF AllShown
  <2> QED BY <2>1, <2>2, <2>3, <2>4 DEF AllCovered, DisplayCovered, RendererCovered, LibraryCovered
<1> HIDE DEF steps
<1> QED BY <1>1, <1>2, <1>3, <1>4, BeginsAnnouncing DEF steps

LEMMA TwoSteps ==
  ASSUME NEW a \in Steps, NEW b \in Steps
  PROVE  <<a>> \o <<b>> = <<a, b>> /\ <<a>> \o <<>> = <<a>>
<1>1. /\ <<a>> \in Seq(Steps) /\ <<b>> \in Seq(Steps) /\ <<>> \in Seq(Steps)
      /\ <<a, b>> \in Seq(Steps)
  OBVIOUS
<1>2. <<a>> \o <<>> = <<a>>
  BY <1>1, ConcatEmptySeq
<1> DEFINE r == <<a>> \o <<b>>
<1>3. r \in Seq(Steps) /\ Len(r) = 2 /\ r[1] = a /\ r[2] = b
  BY <1>1
<1> HIDE DEF r
<1>4. r = <<a, b>>
  BY <1>1, <1>3, SeqEqual
<1> QED BY <1>2, <1>4 DEF r

LEMMA ThreeSteps ==
  ASSUME NEW a \in Steps, NEW b \in Steps, NEW c \in Steps
  PROVE  <<a, b>> \o <<c>> = <<a, b, c>> /\ <<a, b>> \o <<>> = <<a, b>>
<1>1. /\ <<c>> \in Seq(Steps) /\ <<>> \in Seq(Steps)
      /\ <<a, b>> \in Seq(Steps) /\ <<a, b, c>> \in Seq(Steps)
  OBVIOUS
<1>2. <<a, b>> \o <<>> = <<a, b>>
  BY <1>1, ConcatEmptySeq
<1> DEFINE r == <<a, b>> \o <<c>>
<1>3. r \in Seq(Steps) /\ Len(r) = 3 /\ r[1] = a /\ r[2] = b /\ r[3] = c
  BY <1>1
<1> HIDE DEF r
<1>4. r = <<a, b, c>>
  BY <1>1, <1>3, SeqEqual
<1> QED BY <1>2, <1>4 DEF r

LEMMA UnregisterRendererAnnounces ==
  ASSUME Announcing, NEW w \in Writers, UnregisterRenderer(w) PROVE Announcing'
<1>0. Types /\ World
  BY DEF Announcing, Types
<1>1. PICK r \in up :
        /\ up' = up \ {r}
        /\ paused' = paused \ {r} /\ over' = over \ {r}
        /\ link' = [d \in Displays |-> IF link[d] = r THEN None ELSE link[d]]
        /\ Starts(w, Farewell(r, LinkedTo(r)))
        /\ UNCHANGED <<here, joined, face, layout, bound, manual, libs, plays, scan,
                       busy, born>>
  BY DEF UnregisterRenderer
<1>7. PICK steps : steps = Farewell(r, LinkedTo(r))
  OBVIOUS
<1> DEFINE gone == Remove("renderers", r)
<1>2. r \in Renderers /\ r \notin up' /\ World'
  <2>1. IsFiniteSet(up')
    BY <1>0, <1>1, FS_RemoveElement DEF World
  <2> QED BY <1>0, <1>1, <2>1 DEF World
<1>3. /\ steps \in Seq(Steps)
      /\ \A i \in DOMAIN steps : steps[i].op = "emit" => steps[i].arg = gone
      /\ 1 \in DOMAIN steps /\ steps[1].op = "emit" /\ steps[1].arg = gone
      /\ LinkedTo(r) # {} => 3 \in DOMAIN steps /\ steps[3].op = "lookAll" /\ steps[3].arg = None
  <2>1. gone \in Events
    BY <1>0, <1>2, EventTypes
  <2> HIDE DEF gone
  <2>2. /\ EmitStep(gone) \in Steps /\ EmitStep(gone).op = "emit" /\ EmitStep(gone).arg = gone
        /\ Reconcile \in Steps /\ Reconcile.op = "reconcile"
        /\ LookAtAll \in Steps /\ LookAtAll.op = "lookAll" /\ LookAtAll.arg = None
    BY <2>1, StepTypes DEF EmitStep, Reconcile, LookAtAll, Step
  <2>3. CASE LinkedTo(r) = {}
    <3>1. steps = <<EmitStep(gone), Reconcile>>
      BY <1>7, <2>2, <2>3, ThreeSteps DEF Farewell, IfAny, gone
    <3> QED BY <2>2, <2>3, <3>1
  <2>4. CASE LinkedTo(r) # {}
    <3>1. steps = <<EmitStep(gone), Reconcile, LookAtAll>>
      BY <1>7, <2>2, <2>4, ThreeSteps DEF Farewell, IfAny, gone
    <3> QED BY <2>2, <2>4, <3>1
  <2> QED BY <2>3, <2>4
<1>4. IsSo(gone)'
  BY <1>2 DEF IsSo
<1> HIDE DEF gone
<1>6. \A i \in DOMAIN steps : steps[i].op = "emit" => IsSo(steps[i].arg)'
  BY <1>3, <1>4
<1>5. ASSUME AllShown, told' = told,
             \A i \in DOMAIN steps : Pending(steps[i].op, steps[i].arg)'
      PROVE  AllCovered'
  <2>1. Announces(gone)'
    BY <1>3, <1>5 DEF Announces
  <2>2. \A s \in Renderers \ {r} : RendererShown(s)'
    BY <1>1, <1>5, RendererStays DEF AllShown
  <2>3. ASSUME NEW e \in Displays PROVE DisplayCovered(e)'
    <3>1. CASE e \in LinkedTo(r)
      BY <1>3, <1>5, <3>1 DEF DisplayCovered
    <3>2. CASE e \in here /\ link[e] # r
      <4>1. link'[e] = link[e] /\ (link[e] \in over' <=> link[e] \in over)
        BY <1>1, <3>2
      <4>2. DisplayShown(e)'
        BY <1>1, <1>5, <4>1, DisplayStays DEF AllShown
      <4> QED BY <4>2 DEF DisplayCovered
    <3>3. CASE e \notin here
      <4>1. DisplayShown(e)'
        BY <1>1, <1>5, <3>3 DEF AllShown, DisplayShown
      <4> QED BY <4>1 DEF DisplayCovered
    <3> QED BY <3>1, <3>2, <3>3 DEF LinkedTo
  <2>4. \A l \in Libraries : LibraryShown(l)'
    BY <1>1, <1>5, LibrariesStay DEF AllShown
  <2> QED BY <1>2, <2>1, <2>2, <2>3, <2>4 DEF AllCovered, RendererCovered, LibraryCovered, gone
<1> QED BY <1>1, <1>2, <1>3, <1>5, <1>6, <1>7, BeginsAnnouncing

LEMMA RelinkAnnounces ==
  ASSUME Announcing, NEW w \in Writers, Relink(w) PROVE Announcing'
<1>0. Types /\ World
  BY DEF Announcing, Types
<1>1. PICK r \in up, ds \in SUBSET here :
        /\ link' = [d \in Displays |-> IF d \in ds THEN r ELSE link[d]]
        /\ Starts(w, <<Reconcile>> \o IfAny(ds, <<LookAtAll>>))
        /\ UNCHANGED <<here, joined, face, over, layout, up, bound, paused, manual,
                       libs, plays, scan, busy, born>>
  BY DEF Relink
<1>2. PICK steps : steps = <<Reconcile>> \o IfAny(ds, <<LookAtAll>>)
  OBVIOUS
<1>3. World'
  BY <1>0, <1>1 DEF World
<1>4. /\ steps \in Seq(Steps)
      /\ \A i \in DOMAIN steps : steps[i].op # "emit"
      /\ ds # {} => 2 \in DOMAIN steps /\ steps[2].op = "lookAll" /\ steps[2].arg = None
  <2>1. /\ Reconcile \in Steps /\ Reconcile.op = "reconcile"
        /\ LookAtAll \in Steps /\ LookAtAll.op = "lookAll" /\ LookAtAll.arg = None
    BY StepTypes DEF Reconcile, LookAtAll, Step
  <2>2. CASE ds = {}
    <3>1. steps = <<Reconcile>>
      BY <1>2, <2>1, <2>2, TwoSteps DEF IfAny
    <3> QED BY <2>1, <2>2, <3>1
  <2>3. CASE ds # {}
    <3>1. steps = <<Reconcile, LookAtAll>>
      BY <1>2, <2>1, <2>3, TwoSteps DEF IfAny
    <3> QED BY <2>1, <2>3, <3>1
  <2> QED BY <2>2, <2>3
<1>5. ASSUME AllShown, told' = told,
             \A i \in DOMAIN steps : Pending(steps[i].op, steps[i].arg)'
      PROVE  AllCovered'
  <2>1. CASE ds = {}
    <3>1. \A e \in Displays : link'[e] = link[e]
      BY <1>1, <2>1
    <3>2. \A e \in Displays : DisplayShown(e)'
      BY <1>1, <1>5, <3>1, DisplayStays DEF AllShown
    <3>3. \A s \in Renderers : RendererShown(s)'
      BY <1>1, <1>5, RendererStays DEF AllShown
    <3>4. \A l \in Libraries : LibraryShown(l)'
      BY <1>1, <1>5, LibrariesStay DEF AllShown
    <3> QED BY <3>2, <3>3, <3>4 DEF AllCovered, DisplayCovered, RendererCovered, LibraryCovered
  <2>2. CASE ds # {}
    <3>1. Pending("lookAll", None)'
      BY <1>4, <1>5, <2>2
    <3> QED BY <1>1, <1>5, <3>1, LookingAtAll
  <2> QED BY <2>1, <2>2
<1> QED BY <1>1, <1>2, <1>3, <1>4, <1>5, BeginsAnnouncing

LEMMA OverrideAnnounces ==
  ASSUME Announcing, NEW w \in Writers, Override(w) PROVE Announcing'
<1>0. Types /\ World
  BY DEF Announcing, Types
<1>1. PICK r \in up :
        /\ over' = IF r \in over THEN over \ {r} ELSE over \cup {r}
        /\ Starts(w, IfAny(LinkedTo(r), <<LookAtAll>>))
        /\ UNCHANGED <<here, joined, link, face, layout, up, bound, paused, manual,
                       libs, plays, scan, busy, born>>
  BY DEF Override
<1>2. PICK steps : steps = IfAny(LinkedTo(r), <<LookAtAll>>)
  OBVIOUS
<1>3. World'
  BY <1>0, <1>1 DEF World
<1>4. /\ steps \in Seq(Steps)
      /\ \A i \in DOMAIN steps : steps[i].op # "emit"
      /\ LinkedTo(r) # {} => 1 \in DOMAIN steps /\ steps[1].op = "lookAll" /\ steps[1].arg = None
  <2>1. LookAtAll \in Steps /\ LookAtAll.op = "lookAll" /\ LookAtAll.arg = None
    BY StepTypes DEF LookAtAll, Step
  <2>2. CASE LinkedTo(r) = {}
    <3>1. steps = <<>>
      BY <1>2, <2>2 DEF IfAny
    <3> QED BY <2>2, <3>1
  <2>3. CASE LinkedTo(r) # {}
    <3>1. steps = <<LookAtAll>>
      BY <1>2, <2>3 DEF IfAny
    <3> QED BY <2>1, <2>3, <3>1
  <2> QED BY <2>2, <2>3
<1>5. ASSUME AllShown, told' = told,
             \A i \in DOMAIN steps : Pending(steps[i].op, steps[i].arg)'
      PROVE  AllCovered'
  <2>1. CASE LinkedTo(r) = {}
    <3>1. ASSUME NEW e \in Displays PROVE DisplayShown(e)'
      <4>1. CASE e \in here
        <5>1. link[e] # r
          BY <2>1, <4>1 DEF LinkedTo
        <5>2. link[e] \in over' <=> link[e] \in over
          BY <1>1, <5>1
        <5> QED BY <1>1, <1>5, <5>2, DisplayStays DEF AllShown
      <4>2. CASE e \notin here
        BY <1>1, <1>5, <4>2 DEF AllShown, DisplayShown
      <4> QED BY <4>1, <4>2
    <3>2. \A s \in Renderers : RendererShown(s)'
      BY <1>1, <1>5, RendererStays DEF AllShown
    <3>3. \A l \in Libraries : LibraryShown(l)'
      BY <1>1, <1>5, LibrariesStay DEF AllShown
    <3> QED BY <3>1, <3>2, <3>3 DEF AllCovered, DisplayCovered, RendererCovered, LibraryCovered
  <2>2. CASE LinkedTo(r) # {}
    <3>1. Pending("lookAll", None)'
      BY <1>4, <1>5, <2>2
    <3> QED BY <1>1, <1>5, <3>1, LookingAtAll
  <2> QED BY <2>1, <2>2
<1> QED BY <1>1, <1>2, <1>3, <1>4, <1>5, BeginsAnnouncing

LEMMA BindAnnounces ==
  ASSUME Announcing, NEW w \in Writers, Bind(w) PROVE Announcing'
<1>0. Types /\ World
  BY DEF Announcing, Types
<1>1. PICK r \in up \ bound :
        /\ bound' = bound \cup {r}
        /\ Starts(w, <<LookAtRenderer(r)>>)
        /\ UNCHANGED <<here, joined, link, face, over, layout, up, paused, manual,
                       libs, plays, scan, busy, born>>
  BY DEF Bind
<1> DEFINE steps == <<LookAtRenderer(r)>>
<1>2. r \in Renderers /\ World'
  BY <1>0, <1>1 DEF World
<1>3. /\ steps \in Seq(Steps)
      /\ \A i \in DOMAIN steps : steps[i].op # "emit"
      /\ 1 \in DOMAIN steps /\ steps[1].op = "lookRenderer" /\ steps[1].arg = r
  <2>1. /\ LookAtRenderer(r) \in Steps /\ LookAtRenderer(r).op = "lookRenderer"
        /\ LookAtRenderer(r).arg = r
    BY <1>2, StepTypes DEF LookAtRenderer, Step
  <2> QED BY <2>1
<1>4. ASSUME AllShown, told' = told,
             \A i \in DOMAIN steps : Pending(steps[i].op, steps[i].arg)'
      PROVE  AllCovered'
  <2>1. Pending("lookRenderer", r)' /\ r \in up'
    BY <1>1, <1>3, <1>4
  <2>2. \A e \in Displays : DisplayShown(e)'
    BY <1>1, <1>4, DisplayStays DEF AllShown
  <2>3. \A s \in Renderers \ {r} : RendererShown(s)'
    BY <1>1, <1>4, RendererStays DEF AllShown
  <2>4. \A l \in Libraries : LibraryShown(l)'
    BY <1>1, <1>4, LibrariesStay DEF AllShown
  <2> QED BY <2>1, <2>2, <2>3, <2>4 DEF AllCovered, DisplayCovered, RendererCovered, LibraryCovered
<1> HIDE DEF steps
<1> QED BY <1>1, <1>2, <1>3, <1>4, BeginsAnnouncing DEF steps

LEMMA ChangeLibraryAnnounces ==
  ASSUME Announcing, NEW w \in Writers, ChangeLibrary(w) PROVE Announcing'
<1>0. Types /\ World
  BY DEF Announcing, Types
<1>1. PICK l \in Libraries :
        /\ libs' = IF l \in libs THEN libs \ {l} ELSE libs \cup {l}
        /\ Starts(w, <<EmitStep(IF l \in libs THEN Remove("libraries", l)
                                              ELSE Upsert("libraries", l, l))>>)
        /\ UNCHANGED <<here, joined, link, face, over, layout, up, bound, paused,
                       manual, plays, scan, busy, born>>
  BY DEF ChangeLibrary
<1>2. PICK e : e = IF l \in libs THEN Remove("libraries", l) ELSE Upsert("libraries", l, l)
  OBVIOUS
<1> DEFINE steps == <<EmitStep(e)>>
<1>3. World' /\ e \in Events
  BY <1>0, <1>1, <1>2, EventTypes DEF World
<1>4. /\ steps \in Seq(Steps)
      /\ \A i \in DOMAIN steps : steps[i].op = "emit" => steps[i].arg = e
      /\ 1 \in DOMAIN steps /\ steps[1].op = "emit" /\ steps[1].arg = e
  <2>1. EmitStep(e) \in Steps /\ EmitStep(e).op = "emit" /\ EmitStep(e).arg = e
    BY <1>3, StepTypes DEF EmitStep, Step
  <2> QED BY <2>1
<1>5. e = LibraryEvent(l)' /\ IsSo(e)'
  <2>1. e = LibraryEvent(l)'
    BY <1>1, <1>2 DEF LibraryEvent
  <2> QED BY <2>1 DEF IsSo
<1>6. \A i \in DOMAIN steps : steps[i].op = "emit" => IsSo(steps[i].arg)'
  <2> HIDE DEF steps
  <2> QED BY <1>4, <1>5
<1>7. ASSUME AllShown, told' = told,
             \A i \in DOMAIN steps : Pending(steps[i].op, steps[i].arg)'
      PROVE  AllCovered'
  <2>1. Announces(LibraryEvent(l))'
    <3>1. Announces(e)'
      BY <1>4, <1>7 DEF Announces
    <3> QED BY <1>5, <3>1 DEF Announces
  <2>2. \A d \in Displays : DisplayShown(d)'
    BY <1>1, <1>7, DisplayStays DEF AllShown
  <2>3. \A r \in Renderers : RendererShown(r)'
    BY <1>1, <1>7, RendererStays DEF AllShown
  <2>4. \A k \in Libraries \ {l} : LibraryShown(k)'
    BY <1>1, <1>7 DEF AllShown, LibraryShown
  <2> QED BY <2>1, <2>2, <2>3, <2>4 DEF AllCovered, DisplayCovered, RendererCovered, LibraryCovered
<1>8. Starts(w, steps)
  BY <1>1, <1>2
<1> HIDE DEF steps
<1> QED BY <1>3, <1>4, <1>6, <1>7, <1>8, BeginsAnnouncing

\* Operations that change nothing of it.
LEMMA NothingShownChanges ==
  ASSUME Announcing, NEW w \in Writers, NEW steps \in Seq(Steps), Starts(w, steps),
         \A i \in DOMAIN steps : steps[i].op # "emit",
         UNCHANGED <<here, link, face, over, layout, up, bound, paused, libs, born>>
  PROVE  Announcing'
<1>1. World'
  BY DEF Announcing, Types, World
<1>2. ASSUME AllShown, told' = told PROVE AllCovered'
  <2>1. \A d \in Displays : DisplayShown(d)'
    BY <1>2, DisplayStays DEF AllShown
  <2>2. \A r \in Renderers : RendererShown(r)'
    BY <1>2, RendererStays DEF AllShown
  <2>3. \A l \in Libraries : LibraryShown(l)'
    BY <1>2, LibrariesStay DEF AllShown
  <2> QED BY <2>1, <2>2, <2>3 DEF AllCovered, DisplayCovered, RendererCovered, LibraryCovered
<1> QED BY <1>1, <1>2, BeginsAnnouncing

LEMMA OneStep ==
  ASSUME NEW s \in Steps, s.op # "emit"
  PROVE  <<s>> \in Seq(Steps) /\ \A i \in DOMAIN <<s>> : <<s>>[i].op # "emit"
OBVIOUS

LEMMA SilentAnnounces ==
  ASSUME Announcing, NEW w \in Writers,
         PauseAll(w) \/ ChangePlaylist(w) \/ ChangeScan(w) \/ ChangeTask(w)
  PROVE  Announcing'
<1> DEFINE Silent(s) ==
      s \in Steps /\ s.op # "emit" /\ Starts(w, <<s>>)
      /\ UNCHANGED <<here, link, face, over, layout, up, bound, paused, libs, born>>
<1>1. ASSUME NEW s, Silent(s) PROVE Announcing'
  <2>1. PICK steps : steps = <<s>>
    OBVIOUS
  <2>2. steps \in Seq(Steps) /\ \A i \in DOMAIN steps : steps[i].op # "emit"
    BY <1>1, <2>1, OneStep
  <2> QED BY <1>1, <2>1, <2>2, NothingShownChanges
<1>2. CASE PauseAll(w)
  <2>1. Silent(Reconcile)
    BY <1>2, StepTypes DEF PauseAll, Reconcile, Step
  <2> HIDE DEF Silent
  <2> QED BY <1>1, <2>1
<1>3. CASE ChangePlaylist(w)
  <2>1. Silent(PublishStep("playlist"))
    BY <1>3, StepTypes DEF ChangePlaylist, PublishStep, Step
  <2> HIDE DEF Silent
  <2> QED BY <1>1, <2>1
<1>4. CASE ChangeScan(w)
  <2>1. Silent(PublishStep("status"))
    BY <1>4, StepTypes DEF ChangeScan, PublishStep, Step
  <2> HIDE DEF Silent
  <2> QED BY <1>1, <2>1
<1>5. CASE ChangeTask(w)
  <2>1. Silent(Step("nudge", None))
    BY <1>5, StepTypes DEF ChangeTask, Step
  <2> HIDE DEF Silent
  <2> QED BY <1>1, <2>1
<1> QED BY <1>2, <1>3, <1>4, <1>5

LEMMA StartsAnnouncing ==
  ASSUME Announcing, NEW w \in Writers, StartSome(w) PROVE Announcing'
BY RegisterDisplayAnnounces, UnregisterDisplayAnnounces, ChangeDisplayAnnounces,
   ChangeLayoutAnnounces, RegisterRendererAnnounces, UnregisterRendererAnnounces,
   RelinkAnnounces, OverrideAnnounces, BindAnnounces, ChangeLibraryAnnounces, SilentAnnounces
DEF StartSome

-----------------------------------------------------------------------------
(* The operations go on.                                                   *)

LEMMA SameValues ==
  ASSUME SameWorld
  PROVE  /\ \A d : DisplayOf(d)' = DisplayOf(d)
         /\ AllDisplays' = AllDisplays
         /\ \A l : LibraryEvent(l)' = LibraryEvent(l)
         /\ \A r : ShouldPause(r)' = ShouldPause(r)
<1>1. \A d : DisplayOf(d)' = DisplayOf(d)
  BY DEF SameWorld, DisplayOf
<1>2. AllDisplays' = AllDisplays
  BY <1>1 DEF SameWorld, AllDisplays
<1>3. \A l : LibraryEvent(l)' = LibraryEvent(l)
  BY DEF SameWorld, LibraryEvent
<1>4. \A r : LinkedTo(r)' = LinkedTo(r)
  BY DEF SameWorld, LinkedTo
<1>5. \A r : ShouldPause(r)' = ShouldPause(r)
  BY <1>4 DEF SameWorld, ShouldPause
<1> QED BY <1>1, <1>2, <1>3, <1>5

LEMMA StaysSo == ASSUME SameWorld, NEW e, IsSo(e) PROVE IsSo(e)'
<1>1. here' = here /\ up' = up
  BY DEF SameWorld
<1>2. CASE \E d \in here : e = Upsert("displays", d, DisplayOf(d))
  BY <1>1, <1>2, SameValues DEF IsSo
<1>3. CASE \E d \in Displays \ here : e = Remove("displays", d)
  BY <1>1, <1>3 DEF IsSo
<1>4. CASE e = Replace("displays", AllDisplays)
  <2>1. e = Replace("displays", AllDisplays')
    BY <1>4, SameValues
  <2> QED BY <2>1 DEF IsSo
<1>5. CASE \E r \in Renderers \ up : e = Remove("renderers", r)
  BY <1>1, <1>5 DEF IsSo
<1>6. CASE \E l \in Libraries : e = LibraryEvent(l)
  BY <1>6, SameValues DEF IsSo
<1> QED BY <1>2, <1>3, <1>4, <1>5, <1>6 DEF IsSo

\* What a step of a tail has to do: say only what is so, and cover what the
\* step it was covered.
Ahead(w, steps) ==
  /\ \A i \in DOMAIN steps : Pending(steps[i].op, steps[i].arg)'
  /\ \A op, arg : Pending(op, arg) =>
       Pending(op, arg)' \/ (op = Head(job[w]).op /\ arg = Head(job[w]).arg)

LEMMA GoesOnAnnouncing ==
  ASSUME Announcing, NEW w \in Writers, job[w] # <<>>, NEW steps \in Seq(Steps), Goes(w, steps),
         SameWorld, World', ToldOK',
         \A i \in DOMAIN steps :
           steps[i].op = "emit" => IsSo(steps[i].arg)' \/ (i = 1 /\ IsSoNow(steps[i].arg)'),
         ASSUME ~mixed, AllCovered, Ahead(w, steps) PROVE AllCovered'
  PROVE  Announcing'
<1>1. JobsOK /\ mixed \in BOOLEAN
  BY DEF Announcing, Types
<1>2. /\ JobsOK' /\ mixed' = mixed
      /\ OneAtWork => OneAtWork'
      /\ Ahead(w, steps)
      /\ OneAtWork =>
           \A v \in Writers : \A i \in DOMAIN job'[v] :
             \/ v = w /\ i \in DOMAIN steps /\ job'[v][i] = steps[i]
             \/ v = w /\ \E k \in DOMAIN job[v] : k # 1 /\ job'[v][i] = job[v][k]
  BY <1>1, GoesOn DEF Ahead
<1>3. ASSUME ~mixed' PROVE OneAtWork' /\ Current' /\ AllCovered'
  <2>1. OneAtWork /\ Current /\ AllCovered /\ ~mixed
    BY <1>2, <1>3 DEF Announcing
  <2>2. ASSUME NEW v \in Writers, NEW i \in DOMAIN job'[v], job'[v][i].op = "emit",
               NEW e, e = job'[v][i].arg
        PROVE  IsSo(e)' \/ (i = 1 /\ IsSoNow(e)')
    <3>1. CASE v = w /\ i \in DOMAIN steps /\ job'[v][i] = steps[i]
      <4>1. steps[i].op = "emit" /\ steps[i].arg = e
        BY <2>2, <3>1
      <4> QED BY <3>1, <4>1
    <3>2. CASE v = w /\ \E k \in DOMAIN job[v] : k # 1 /\ job'[v][i] = job[v][k]
      <4>1. PICK k \in DOMAIN job[v] : k # 1 /\ job'[v][i] = job[v][k]
        BY <3>2
      <4>2. e = job[v][k].arg /\ job[v][k].op = "emit"
        BY <2>2, <4>1
      <4>3. IsSo(e)
        BY <2>1, <4>1, <4>2 DEF Current
      <4> QED BY <4>3, StaysSo
    <3> QED BY <1>2, <2>1, <2>2, <3>1, <3>2
  <2>3. Current'
    BY <2>2 DEF Current
  <2> QED BY <1>2, <2>1, <2>3
<1> QED BY <1>2, <1>3 DEF Announcing, Types

LEMMA OrderIs ==
  ASSUME NEW S, IsFiniteSet(S)
  PROVE  SeqOf(S) \in Seq(S) /\ \A x \in S : \E i \in DOMAIN SeqOf(S) : SeqOf(S)[i] = x
<1>1. CASE S = {}
  BY <1>1 DEF SeqOf
<1>2. CASE S # {}
  <2> DEFINE n == Cardinality(S)
             All(s) == {s[i] : i \in DOMAIN s} = S
  <2>1. n \in Nat /\ ExistsBijection(1..n, S)
    BY FS_CardinalityType
  <2>2. PICK f : f \in Bijection(1..n, S)
    BY <2>1 DEF ExistsBijection
  <2> HIDE DEF n
  <2>3. f \in [1..n -> S] /\ \A x \in S : \E i \in 1..n : f[i] = x
    BY <2>2 DEF Bijection, Surjection
  <2>4. All(f)
    BY <2>3
  <2>5. SeqOf(S) = CHOOSE s \in [1..n -> S] : All(s)
    BY <1>2 DEF SeqOf, n
  <2> HIDE DEF All
  <2>6. SeqOf(S) \in [1..n -> S] /\ All(SeqOf(S))
    BY <2>3, <2>4, <2>5
  <2>7. SeqOf(S) \in Seq(S)
    BY <2>1, <2>6, SeqDef
  <2>8. \A x \in S : \E i \in DOMAIN SeqOf(S) : SeqOf(S)[i] = x
    BY <2>6 DEF All
  <2> QED BY <2>7, <2>8
<1> QED BY <1>1, <1>2

LEMMA ReconcileStepAnnounces ==
  ASSUME Announcing, NEW w \in Writers, ReconcileStep(w) PROVE Announcing'
<1>0. Types /\ World /\ JobsOK /\ ToldOK
  BY DEF Announcing, Types
<1>1. PICK changed : changed = {r \in up : ShouldPause(r) # (r \in paused)}
  OBVIOUS
<1>2. PICK order : order = SeqOf(changed)
  OBVIOUS
<1>3. PICK steps : steps = [i \in DOMAIN order |-> LookAtRenderer(order[i])]
  OBVIOUS
<1>4. /\ At(w, "reconcile") /\ Goes(w, steps)
      /\ paused' = (paused \ changed) \cup {r \in changed : ShouldPause(r)}
      /\ UNCHANGED <<here, joined, link, face, over, layout, up, bound, manual, libs,
                     plays, scan, busy, born, told, queueVars>>
  BY <1>1, <1>2, <1>3 DEF ReconcileStep
<1>5. SameWorld /\ World' /\ ToldOK' /\ told' = told
  BY <1>0, <1>1, <1>4 DEF SameWorld, World, ToldOK
<1>6. /\ changed \subseteq up /\ up \subseteq Renderers
      /\ order \in Seq(changed) /\ \A r \in changed : \E i \in DOMAIN order : order[i] = r
  <2>1. changed \subseteq up /\ IsFiniteSet(changed)
    BY <1>0, <1>1, FS_Subset DEF World
  <2> QED BY <1>0, <1>2, <2>1, OrderIs DEF World
<1>7. /\ steps \in Seq(Steps)
      /\ \A i \in DOMAIN steps : steps[i].op = "lookRenderer"
      /\ \A r \in changed : \E i \in DOMAIN steps : steps[i].op = "lookRenderer" /\ steps[i].arg = r
  <2>1. \A r \in Renderers : /\ LookAtRenderer(r) \in Steps /\ LookAtRenderer(r).op = "lookRenderer"
                             /\ LookAtRenderer(r).arg = r
    BY StepTypes DEF LookAtRenderer, Step
  <2>2. /\ DOMAIN order = 1..Len(order) /\ Len(order) \in Nat
        /\ \A i \in DOMAIN order : order[i] \in Renderers
    BY <1>6
  <2>3. steps \in [1..Len(order) -> Steps]
    BY <1>3, <2>1, <2>2
  <2>4. steps \in Seq(Steps)
    BY <2>2, <2>3, SeqDef
  <2> QED BY <1>3, <1>6, <2>1, <2>2, <2>4
<1>8. ASSUME ~mixed, AllCovered, Ahead(w, steps) PROVE AllCovered'
  <2>1. \A op, arg : Pending(op, arg) => Pending(op, arg)' \/ op = "reconcile"
    BY <1>4, <1>8 DEF Ahead, At
  <2>2. \A e : Announces(e) => Announces(e)'
    BY <2>1 DEF Announces
  <2>3. ASSUME NEW d \in Displays PROVE DisplayCovered(d)'
    <3>1. DisplayCovered(d) /\ (DisplayShown(d)' <=> DisplayShown(d))
      BY <1>4, <1>8, DisplayStays DEF AllCovered
    <3>2. here' = here /\ DisplayOf(d)' = DisplayOf(d) /\ AllDisplays' = AllDisplays
      BY <1>5, SameValues DEF SameWorld
    <3>3. /\ Pending("lookAll", None) => Pending("lookAll", None)'
          /\ Pending("look", d) => Pending("look", d)'
          /\ Announces(Replace("displays", AllDisplays)) => Announces(Replace("displays", AllDisplays))'
          /\ Announces(Upsert("displays", d, DisplayOf(d)))
               => Announces(Upsert("displays", d, DisplayOf(d)))'
          /\ Announces(Remove("displays", d)) => Announces(Remove("displays", d))'
      BY <2>1, <2>2, <3>2
    <3> QED BY <3>1, <3>2, <3>3 DEF DisplayCovered
  <2>4. ASSUME NEW r \in Renderers PROVE RendererCovered(r)'
    <3>1. RendererCovered(r)
      BY <1>8 DEF AllCovered
    <3>2. up' = up /\ bound' = bound /\ told' = told
      BY <1>4
    <3>3. CASE r \in changed
      <4>1. Pending("lookRenderer", r)'
        BY <1>7, <1>8, <3>3 DEF Ahead
      <4> QED BY <1>6, <3>2, <3>3, <4>1 DEF RendererCovered
    <3>4. CASE r \notin changed
      <4>1. (r \in paused' <=> r \in paused) /\ ~(r \in up /\ Unreconciled(r))
        BY <1>1, <1>4, <3>4 DEF Unreconciled
      <4>2. RendererOf(r)' = RendererOf(r) /\ (RendererShown(r)' <=> RendererShown(r))
        BY <3>2, <4>1, RendererStays
      <4>3. /\ Pending("lookRenderer", r) => Pending("lookRenderer", r)'
            /\ Announces(Upsert("renderers", r, RendererOf(r)))
                 => Announces(Upsert("renderers", r, RendererOf(r)))'
            /\ Announces(Remove("renderers", r)) => Announces(Remove("renderers", r))'
        BY <2>1, <2>2, <4>2
      <4> QED BY <3>1, <3>2, <4>1, <4>2, <4>3 DEF RendererCovered
    <3> QED BY <3>3, <3>4
  <2>5. ASSUME NEW l \in Libraries PROVE LibraryCovered(l)'
    <3>1. LibraryCovered(l) /\ (LibraryShown(l)' <=> LibraryShown(l)) /\ LibraryEvent(l)' = LibraryEvent(l)
      BY <1>4, <1>5, <1>8, LibrariesStay, SameValues DEF AllCovered
    <3>2. Announces(LibraryEvent(l)) => Announces(LibraryEvent(l))'
      BY <2>2, <3>1
    <3> QED BY <3>1, <3>2 DEF LibraryCovered
  <2> QED BY <2>3, <2>4, <2>5 DEF AllCovered
<1>9. job[w] # <<>>
  BY <1>4 DEF At
<1> QED BY <1>4, <1>5, <1>7, <1>8, <1>9, GoesOnAnnouncing

\* The objects that a step of a tail will bring up to date.
CoversDisplay(s, d) ==
  \/ s.op = "lookAll" /\ s.arg = None
  \/ s.op = "emit" /\ s.arg = Replace("displays", AllDisplays)
  \/ d \in here /\ \/ s.op = "look" /\ s.arg = d
                   \/ s.op = "emit" /\ s.arg = Upsert("displays", d, DisplayOf(d))
  \/ d \notin here /\ s.op = "emit" /\ s.arg = Remove("displays", d)
CoversRenderer(s, r) ==
  \/ r \in up /\ \/ s.op = "lookRenderer" /\ s.arg = r
                 \/ s.op = "emit" /\ s.arg = Upsert("renderers", r, RendererOf(r))
  \/ r \notin up /\ s.op = "emit" /\ s.arg = Remove("renderers", r)
CoversLibrary(s, l) == s.op = "emit" /\ s.arg = LibraryEvent(l)

\* A step that changes nothing of the daemon: what it covered has to be
\* covered still.
LEMMA CoveredGoesOn ==
  ASSUME SameWorld, paused' = paused, AllCovered, NEW head, head.op # "reconcile",
         \A op, arg : Pending(op, arg) => Pending(op, arg)' \/ (op = head.op /\ arg = head.arg),
         \A d \in Displays : /\ DisplayShown(d) => DisplayShown(d)'
                             /\ CoversDisplay(head, d) => DisplayCovered(d)',
         \A r \in Renderers : /\ RendererShown(r) => RendererShown(r)'
                              /\ CoversRenderer(head, r) => RendererCovered(r)',
         \A l \in Libraries : /\ LibraryShown(l) => LibraryShown(l)'
                              /\ CoversLibrary(head, l) => LibraryCovered(l)'
  PROVE  AllCovered'
<1>1. \A e : Announces(e) => Announces(e)' \/ (head.op = "emit" /\ head.arg = e)
  BY DEF Announces
<1>2. /\ here' = here /\ up' = up /\ \A d : DisplayOf(d)' = DisplayOf(d)
      /\ AllDisplays' = AllDisplays /\ \A l : LibraryEvent(l)' = LibraryEvent(l)
      /\ \A r : RendererOf(r)' = RendererOf(r)
  BY SameValues DEF SameWorld, RendererOf
<1>3. ASSUME NEW d \in Displays PROVE DisplayCovered(d)'
  <2>1. /\ Pending("lookAll", None) => Pending("lookAll", None)' \/ CoversDisplay(head, d)
        /\ d \in here /\ Pending("look", d) => Pending("look", d)' \/ CoversDisplay(head, d)
        /\ Announces(Replace("displays", AllDisplays)) =>
             Announces(Replace("displays", AllDisplays))' \/ CoversDisplay(head, d)
        /\ d \in here /\ Announces(Upsert("displays", d, DisplayOf(d))) =>
             Announces(Upsert("displays", d, DisplayOf(d)))' \/ CoversDisplay(head, d)
        /\ d \notin here /\ Announces(Remove("displays", d)) =>
             Announces(Remove("displays", d))' \/ CoversDisplay(head, d)
    BY <1>1, <1>2 DEF CoversDisplay
  <2>2. DisplayCovered(d) /\ (DisplayShown(d) => DisplayShown(d)')
    BY DEF AllCovered
  <2>3. CASE CoversDisplay(head, d)
    BY <2>3
  <2>4. CASE ~CoversDisplay(head, d)
    BY <1>2, <2>1, <2>2, <2>4 DEF DisplayCovered
  <2> QED BY <2>3, <2>4
<1>4. ASSUME NEW r \in Renderers PROVE RendererCovered(r)'
  <2>1. /\ r \in up /\ Pending("lookRenderer", r) =>
             Pending("lookRenderer", r)' \/ CoversRenderer(head, r)
        /\ r \in up /\ Announces(Upsert("renderers", r, RendererOf(r))) =>
             Announces(Upsert("renderers", r, RendererOf(r)))' \/ CoversRenderer(head, r)
        /\ r \notin up /\ Announces(Remove("renderers", r)) =>
             Announces(Remove("renderers", r))' \/ CoversRenderer(head, r)
    BY <1>1, <1>2 DEF CoversRenderer
  <2>2. RendererCovered(r) /\ (RendererShown(r) => RendererShown(r)')
    BY DEF AllCovered
  <2>3. Unreconciled(r) => Unreconciled(r)'
    <3>1. ShouldPause(r)' = ShouldPause(r)
      BY SameValues
    <3>2. Pending("reconcile", None) => Pending("reconcile", None)'
      OBVIOUS
    <3> QED BY <3>1, <3>2 DEF Unreconciled
  <2>4. CASE CoversRenderer(head, r)
    BY <2>4
  <2>5. CASE ~CoversRenderer(head, r)
    BY <1>2, <2>1, <2>2, <2>3, <2>5 DEF RendererCovered
  <2> QED BY <2>4, <2>5
<1>5. ASSUME NEW l \in Libraries PROVE LibraryCovered(l)'
  <2>1. Announces(LibraryEvent(l)) => Announces(LibraryEvent(l))' \/ CoversLibrary(head, l)
    BY <1>1, <1>2 DEF CoversLibrary
  <2>2. LibraryCovered(l) /\ (LibraryShown(l) => LibraryShown(l)')
    BY DEF AllCovered
  <2>3. CASE CoversLibrary(head, l)
    BY <2>3
  <2>4. CASE ~CoversLibrary(head, l)
    BY <2>1, <2>2, <2>4 DEF LibraryCovered
  <2> QED BY <2>3, <2>4
<1> QED BY <1>3, <1>4, <1>5 DEF AllCovered

\* A step that only takes a snapshot, or none.
LEMMA ShownStays ==
  ASSUME SameWorld, paused' = paused, told' = told
  PROVE  /\ \A d \in Displays : DisplayShown(d)' <=> DisplayShown(d)
         /\ \A r \in Renderers : RendererShown(r)' <=> RendererShown(r)
         /\ \A l \in Libraries : LibraryShown(l)' <=> LibraryShown(l)
<1>1. \A d \in Displays : DisplayShown(d)' <=> DisplayShown(d)
  BY DisplayStays DEF SameWorld
<1>2. \A r \in Renderers : RendererShown(r)' <=> RendererShown(r)
  BY RendererStays DEF SameWorld
<1>3. \A l \in Libraries : LibraryShown(l)' <=> LibraryShown(l)
  BY LibrariesStay DEF SameWorld
<1> QED BY <1>1, <1>2, <1>3

LEMMA WorldStays ==
  ASSUME Types, SameWorld, paused' = paused, told' = told PROVE World' /\ ToldOK'
BY DEF Types, World, ToldOK, SameWorld

LEMMA LookAnnounces ==
  ASSUME Announcing, NEW w \in Writers, Look(w) PROVE Announcing'
<1>0. Types /\ World /\ JobsOK /\ ToldOK
  BY DEF Announcing, Types
<1>1. SameWorld /\ paused' = paused /\ told' = told /\ World' /\ ToldOK'
  <2>1. SameWorld /\ paused' = paused /\ told' = told
    BY DEF Look, worldVars, SameWorld
  <2> QED BY <1>0, <2>1, WorldStays
<1>2. PICK head : head = Head(job[w])
  OBVIOUS
<1>3. ASSUME NEW steps \in Seq(Steps), Goes(w, steps), job[w] # <<>>, head.op # "reconcile",
             \A i \in DOMAIN steps :
               steps[i].op = "emit" => IsSo(steps[i].arg)' \/ (i = 1 /\ IsSoNow(steps[i].arg)'),
             \A d \in Displays : CoversDisplay(head, d) => \E i \in DOMAIN steps :
               /\ steps[i].op = "emit"
               /\ \/ d \in here /\ steps[i].arg = Upsert("displays", d, DisplayOf(d))
                  \/ steps[i].arg = Replace("displays", AllDisplays),
             \A r \in Renderers : CoversRenderer(head, r) => \E i \in DOMAIN steps :
               steps[i].op = "emit" /\ r \in up /\ steps[i].arg = Upsert("renderers", r, RendererOf(r)),
             \A l \in Libraries : ~CoversLibrary(head, l)
      PROVE  Announcing'
  <2>1. ASSUME ~mixed, AllCovered, Ahead(w, steps) PROVE AllCovered'
    <3>1. \A op, arg : Pending(op, arg) => Pending(op, arg)' \/ (op = head.op /\ arg = head.arg)
      BY <1>2, <2>1 DEF Ahead
    <3>2. /\ here' = here /\ up' = up /\ \A d : DisplayOf(d)' = DisplayOf(d)
          /\ AllDisplays' = AllDisplays /\ \A r : RendererOf(r)' = RendererOf(r)
      BY <1>1, SameValues DEF SameWorld, RendererOf
    <3>3. ASSUME NEW d \in Displays, CoversDisplay(head, d) PROVE DisplayCovered(d)'
      <4>1. PICK i \in DOMAIN steps :
              /\ steps[i].op = "emit"
              /\ \/ d \in here /\ steps[i].arg = Upsert("displays", d, DisplayOf(d))
                 \/ steps[i].arg = Replace("displays", AllDisplays)
        BY <1>3, <3>3
      <4>2. Announces(steps[i].arg)'
        BY <2>1, <4>1 DEF Ahead, Announces
      <4>3. CASE d \in here /\ steps[i].arg = Upsert("displays", d, DisplayOf(d))
        <5>1. Announces(Upsert("displays", d, DisplayOf(d)))' /\ d \in here'
          BY <3>2, <4>2, <4>3
        <5> QED BY <5>1 DEF DisplayCovered
      <4>4. CASE steps[i].arg = Replace("displays", AllDisplays)
        <5>1. Announces(Replace("displays", AllDisplays))'
          BY <3>2, <4>2, <4>4
        <5> QED BY <5>1 DEF DisplayCovered
      <4> QED BY <4>1, <4>3, <4>4
    <3>4. ASSUME NEW r \in Renderers, CoversRenderer(head, r) PROVE RendererCovered(r)'
      <4>1. PICK i \in DOMAIN steps :
              steps[i].op = "emit" /\ r \in up /\ steps[i].arg = Upsert("renderers", r, RendererOf(r))
        BY <1>3, <3>4
      <4>2. Announces(steps[i].arg)'
        BY <2>1, <4>1 DEF Ahead, Announces
      <4>3. Announces(Upsert("renderers", r, RendererOf(r)))' /\ r \in up'
        BY <3>2, <4>1, <4>2
      <4> QED BY <4>3 DEF RendererCovered
    <3> QED BY <1>1, <1>3, <2>1, <3>1, <3>3, <3>4, ShownStays, CoveredGoesOn
  <2> QED BY <1>1, <1>3, <2>1, GoesOnAnnouncing
<1>4. ASSUME job[w] # <<>> PROVE head \in Steps
  BY <1>0, <1>2, <1>4 DEF JobsOK
<1>5. ASSUME NEW e \in Events
      PROVE  /\ <<EmitStep(e)>> \in Seq(Steps) /\ DOMAIN <<EmitStep(e)>> = {1}
             /\ <<EmitStep(e)>>[1].op = "emit" /\ <<EmitStep(e)>>[1].arg = e
  <2>1. EmitStep(e) \in Steps /\ EmitStep(e).op = "emit" /\ EmitStep(e).arg = e
    BY <1>5, StepTypes DEF EmitStep, Step
  <2> QED BY <2>1
<1>6. CASE At(w, "look") /\ Goes(w, IfAny({Arg(w)} \cap here,
              <<EmitStep(Upsert("displays", Arg(w), DisplayOf(Arg(w))))>>))
  <2>1. PICK d : d = head.arg
    OBVIOUS
  <2>2. job[w] # <<>> /\ head.op = "look" /\ d = Arg(w) /\ d \in Displays
    BY <1>2, <1>4, <1>6, <2>1 DEF At, Arg, Steps
  <2>3. PICK e : e = Upsert("displays", d, DisplayOf(d))
    OBVIOUS
  <2>4. PICK steps : steps = IfAny({d} \cap here, <<EmitStep(e)>>)
    OBVIOUS
  <2>5. Goes(w, steps)
    BY <1>6, <2>2, <2>3, <2>4
  <2>6. /\ \A x \in Displays : CoversDisplay(head, x) => x = d /\ d \in here
        /\ \A r \in Renderers : ~CoversRenderer(head, r)
        /\ \A l \in Libraries : ~CoversLibrary(head, l)
    BY <2>1, <2>2 DEF CoversDisplay, CoversRenderer, CoversLibrary
  <2>7. CASE d \in here
    <3>1. steps = <<EmitStep(e)>> /\ e \in Events
      BY <1>0, <2>2, <2>3, <2>4, <2>7, EventTypes DEF IfAny
    <3>2. steps \in Seq(Steps) /\ DOMAIN steps = {1} /\ steps[1].op = "emit" /\ steps[1].arg = e
      BY <1>5, <3>1
    <3>3. IsSo(e)'
      BY <1>1, <2>3, <2>7, StaysSo DEF IsSo
    <3> QED BY <1>3, <2>2, <2>3, <2>5, <2>6, <3>2, <3>3
  <2>8. CASE d \notin here
    <3>1. steps = <<>>
      BY <2>4, <2>8 DEF IfAny
    <3>2. steps \in Seq(Steps) /\ DOMAIN steps = {}
      BY <3>1
    <3> QED BY <1>3, <2>2, <2>5, <2>6, <2>8, <3>2
  <2> QED BY <2>7, <2>8
<1>7. CASE At(w, "lookRenderer") /\ Goes(w, IfAny({Arg(w)} \cap up,
              <<EmitStep(Upsert("renderers", Arg(w), RendererOf(Arg(w))))>>))
  <2>1. PICK r : r = head.arg
    OBVIOUS
  <2>2. job[w] # <<>> /\ head.op = "lookRenderer" /\ r = Arg(w) /\ r \in Renderers
    BY <1>2, <1>4, <1>7, <2>1 DEF At, Arg, Steps
  <2>3. PICK e : e = Upsert("renderers", r, RendererOf(r))
    OBVIOUS
  <2>4. PICK steps : steps = IfAny({r} \cap up, <<EmitStep(e)>>)
    OBVIOUS
  <2>5. Goes(w, steps)
    BY <1>7, <2>2, <2>3, <2>4
  <2>6. /\ \A x \in Displays : ~CoversDisplay(head, x)
        /\ \A x \in Renderers : CoversRenderer(head, x) => x = r /\ r \in up
        /\ \A l \in Libraries : ~CoversLibrary(head, l)
    BY <2>1, <2>2 DEF CoversDisplay, CoversRenderer, CoversLibrary
  <2>7. CASE r \in up
    <3>1. steps = <<EmitStep(e)>> /\ e \in Events
      BY <1>0, <2>2, <2>3, <2>4, <2>7, EventTypes DEF IfAny
    <3>2. steps \in Seq(Steps) /\ DOMAIN steps = {1} /\ steps[1].op = "emit" /\ steps[1].arg = e
      BY <1>5, <3>1
    <3>3. IsSoNow(e)'
      <4>1. RendererOf(r)' = RendererOf(r) /\ r \in up'
        BY <1>1, <2>7 DEF SameWorld, RendererOf
      <4> QED BY <2>3, <4>1 DEF IsSoNow
    <3> QED BY <1>3, <2>2, <2>3, <2>5, <2>6, <3>2, <3>3
  <2>8. CASE r \notin up
    <3>1. steps = <<>>
      BY <2>4, <2>8 DEF IfAny
    <3>2. steps \in Seq(Steps) /\ DOMAIN steps = {}
      BY <3>1
    <3> QED BY <1>3, <2>2, <2>5, <2>6, <2>8, <3>2
  <2> QED BY <2>7, <2>8
<1>8. CASE At(w, "lookAll") /\ Goes(w, <<EmitStep(Replace("displays", AllDisplays))>>)
  <2>1. job[w] # <<>> /\ head.op = "lookAll"
    BY <1>2, <1>8 DEF At
  <2>2. PICK e : e = Replace("displays", AllDisplays)
    OBVIOUS
  <2>3. PICK steps : steps = <<EmitStep(e)>>
    OBVIOUS
  <2>4. Goes(w, steps) /\ e \in Events
    BY <1>0, <1>8, <2>2, <2>3, EventTypes
  <2>5. /\ \A r \in Renderers : ~CoversRenderer(head, r)
        /\ \A l \in Libraries : ~CoversLibrary(head, l)
    BY <2>1 DEF CoversRenderer, CoversLibrary
  <2>6. steps \in Seq(Steps) /\ DOMAIN steps = {1} /\ steps[1].op = "emit" /\ steps[1].arg = e
    BY <1>5, <2>3, <2>4
  <2>7. IsSo(e)'
    BY <1>1, <2>2, StaysSo DEF IsSo
  <2> QED BY <1>3, <2>1, <2>2, <2>4, <2>5, <2>6, <2>7
<1> QED BY <1>6, <1>7, <1>8 DEF Look

\* An announcement shows what it is about and disturbs nothing else.
Raised(head) ==
  /\ \A d \in Displays : /\ DisplayShown(d) => DisplayShown(d)'
                         /\ CoversDisplay(head, d) => DisplayCovered(d)'
  /\ \A r \in Renderers : /\ RendererShown(r) => RendererShown(r)'
                          /\ CoversRenderer(head, r) => RendererCovered(r)'
  /\ \A l \in Libraries : /\ LibraryShown(l) => LibraryShown(l)'
                          /\ CoversLibrary(head, l) => LibraryCovered(l)'

LEMMA DisplayKept ==
  ASSUME SameWorld, NEW d, told'.displays = told.displays
  PROVE  DisplayShown(d)' <=> DisplayShown(d)
BY SameValues DEF SameWorld, DisplayShown
LEMMA RendererKept ==
  ASSUME SameWorld, paused' = paused, NEW r, told'.renderers = told.renderers
  PROVE  RendererShown(r)' <=> RendererShown(r)
BY DEF SameWorld, RendererShown, RendererOf
LEMMA LibraryKept ==
  ASSUME SameWorld, NEW l, told'.libraries = told.libraries
  PROVE  LibraryShown(l)' <=> LibraryShown(l)
BY DEF SameWorld, LibraryShown

LEMMA EmitRaises ==
  ASSUME Types, SameWorld, paused' = paused, NEW e, IsSo(e) \/ IsSoNow(e), told' = Applied(told, e),
         NEW head, head.op = "emit", head.arg = e
  PROVE  Raised(head)
<1>1. /\ World /\ ToldOK
      /\ told.displays \in Maps(Displays, DisplayVals)
      /\ told.renderers \in Maps(Renderers, RendererVals)
      /\ told.libraries \in Maps(Libraries, Libraries)
  BY DEF Types, ToldOK
<1>2. /\ here' = here /\ up' = up /\ libs' = libs
      /\ \A d : DisplayOf(d)' = DisplayOf(d)
      /\ \A r : RendererOf(r)' = RendererOf(r)
  BY SameValues DEF SameWorld, RendererOf
<1>3. ASSUME e.of = "displays",
             \A d \in Displays : /\ DisplayShown(d) => DisplayShown(d)'
                                 /\ CoversDisplay(head, d) => DisplayShown(d)'
      PROVE  Raised(head)
  <2>1. told'.renderers = told.renderers /\ told'.libraries = told.libraries
    BY <1>1, <1>3, AppliedIs
  <2>2. \A r \in Renderers : ~CoversRenderer(head, r)
    BY <1>3 DEF CoversRenderer, Upsert, Remove
  <2>3. \A l \in Libraries : ~CoversLibrary(head, l)
    BY <1>3 DEF CoversLibrary, LibraryEvent, Upsert, Remove
  <2> QED BY <1>3, <2>1, <2>2, <2>3, RendererKept, LibraryKept DEF Raised, DisplayCovered
<1>4. ASSUME e.of = "renderers",
             \A r \in Renderers : /\ RendererShown(r) => RendererShown(r)'
                                  /\ CoversRenderer(head, r) => RendererShown(r)'
      PROVE  Raised(head)
  <2>1. told'.displays = told.displays /\ told'.libraries = told.libraries
    BY <1>1, <1>4, AppliedIs
  <2>2. \A d \in Displays : ~CoversDisplay(head, d)
    BY <1>4 DEF CoversDisplay, Upsert, Remove, Replace
  <2>3. \A l \in Libraries : ~CoversLibrary(head, l)
    BY <1>4 DEF CoversLibrary, LibraryEvent, Upsert, Remove
  <2> QED BY <1>4, <2>1, <2>2, <2>3, DisplayKept, LibraryKept DEF Raised, RendererCovered
<1>5. CASE \E d \in here : e = Upsert("displays", d, DisplayOf(d))
  <2>1. PICK d \in here : e = Upsert("displays", d, DisplayOf(d))
    BY <1>5
  <2>2. /\ e.of = "displays" /\ e.op = "upsert" /\ e.id = d /\ e.val = DisplayOf(d)
        /\ d \in Displays /\ DisplayOf(d) \in DisplayVals
    BY <1>1, <2>1, EventTypes DEF Upsert, World
  <2>3. told'.displays = Change(told.displays, e)
    BY <1>1, <2>2, AppliedIs
  <2>4. /\ DOMAIN told'.displays = DOMAIN told.displays \cup {d}
        /\ told'.displays[d] = DisplayOf(d)
        /\ \A x \in DOMAIN told.displays \ {d} : told'.displays[x] = told.displays[x]
    <3>1. /\ DOMAIN Change(told.displays, e) = DOMAIN told.displays \cup {d}
          /\ Change(told.displays, e)[d] = DisplayOf(d)
          /\ \A x \in DOMAIN told.displays \ {d} : Change(told.displays, e)[x] = told.displays[x]
      BY <2>2 DEF Change
    <3> QED BY <2>2, <2>3, <3>1
  <2>5. DisplayShown(d)' /\ \A x \in Displays : x # d /\ DisplayShown(x) => DisplayShown(x)'
    BY <1>2, <2>1, <2>4 DEF DisplayShown
  <2>6. \A x \in Displays : CoversDisplay(head, x) => x = d
    BY <2>2 DEF CoversDisplay, Upsert, Remove, Replace
  <2> QED BY <1>3, <2>2, <2>5, <2>6
<1>6. CASE \E d \in Displays \ here : e = Remove("displays", d)
  <2>1. PICK d \in Displays \ here : e = Remove("displays", d)
    BY <1>6
  <2>2. e.of = "displays" /\ e.op = "remove" /\ e.id = d
    BY <2>1 DEF Remove
  <2>3. told'.displays = Change(told.displays, e)
    BY <1>1, <2>2, AppliedIs
  <2>4. /\ DOMAIN told'.displays = DOMAIN told.displays \ {d}
        /\ \A x \in DOMAIN told.displays \ {d} : told'.displays[x] = told.displays[x]
    <3>1. /\ DOMAIN Change(told.displays, e) = DOMAIN told.displays \ {d}
          /\ \A x \in DOMAIN told.displays \ {d} : Change(told.displays, e)[x] = told.displays[x]
      BY <2>2 DEF Change
    <3> QED BY <2>2, <2>3, <3>1
  <2>5. DisplayShown(d)' /\ \A x \in Displays : x # d /\ DisplayShown(x) => DisplayShown(x)'
    BY <1>2, <2>1, <2>4 DEF DisplayShown
  <2>6. \A x \in Displays : CoversDisplay(head, x) => x = d
    BY <2>2 DEF CoversDisplay, Upsert, Remove, Replace
  <2> QED BY <1>3, <2>2, <2>5, <2>6
<1>7. CASE e = Replace("displays", AllDisplays)
  <2>1. e.of = "displays" /\ e.op = "replace" /\ e.val = AllDisplays
    BY <1>7 DEF Replace
  <2>2. told'.displays = AllDisplays
    BY <1>1, <2>1, AppliedIs, ReplaceIs
  <2>3. \A d \in Displays : DisplayShown(d)'
    BY <1>2, <2>2 DEF DisplayShown, AllDisplays
  <2> QED BY <1>3, <2>1, <2>3
<1>8. CASE \E r \in Renderers \ up : e = Remove("renderers", r)
  <2>1. PICK r \in Renderers \ up : e = Remove("renderers", r)
    BY <1>8
  <2>2. e.of = "renderers" /\ e.op = "remove" /\ e.id = r
    BY <2>1 DEF Remove
  <2>3. told'.renderers = Change(told.renderers, e)
    BY <1>1, <2>2, AppliedIs
  <2>4. /\ DOMAIN told'.renderers = DOMAIN told.renderers \ {r}
        /\ \A x \in DOMAIN told.renderers \ {r} : told'.renderers[x] = told.renderers[x]
    <3>1. /\ DOMAIN Change(told.renderers, e) = DOMAIN told.renderers \ {r}
          /\ \A x \in DOMAIN told.renderers \ {r} : Change(told.renderers, e)[x] = told.renderers[x]
      BY <2>2 DEF Change
    <3> QED BY <2>2, <2>3, <3>1
  <2>5. RendererShown(r)' /\ \A x \in Renderers : x # r /\ RendererShown(x) => RendererShown(x)'
    BY <1>2, <2>1, <2>4 DEF RendererShown
  <2>6. \A x \in Renderers : CoversRenderer(head, x) => x = r
    BY <2>2 DEF CoversRenderer, Upsert, Remove
  <2> QED BY <1>4, <2>2, <2>5, <2>6
<1>9. CASE IsSoNow(e)
  <2>1. PICK r \in up : e = Upsert("renderers", r, RendererOf(r))
    BY <1>9 DEF IsSoNow
  <2>2. /\ e.of = "renderers" /\ e.op = "upsert" /\ e.id = r /\ e.val = RendererOf(r)
        /\ r \in Renderers /\ RendererOf(r) \in RendererVals
    BY <1>1, <2>1, EventTypes DEF Upsert, World
  <2>3. told'.renderers = Change(told.renderers, e)
    BY <1>1, <2>2, AppliedIs
  <2>4. /\ DOMAIN told'.renderers = DOMAIN told.renderers \cup {r}
        /\ told'.renderers[r] = RendererOf(r)
        /\ \A x \in DOMAIN told.renderers \ {r} : told'.renderers[x] = told.renderers[x]
    <3>1. /\ DOMAIN Change(told.renderers, e) = DOMAIN told.renderers \cup {r}
          /\ Change(told.renderers, e)[r] = RendererOf(r)
          /\ \A x \in DOMAIN told.renderers \ {r} : Change(told.renderers, e)[x] = told.renderers[x]
      BY <2>2 DEF Change
    <3> QED BY <2>2, <2>3, <3>1
  <2>5. RendererShown(r)' /\ \A x \in Renderers : x # r /\ RendererShown(x) => RendererShown(x)'
    BY <1>2, <2>1, <2>4 DEF RendererShown
  <2>6. \A x \in Renderers : CoversRenderer(head, x) => x = r
    BY <2>2 DEF CoversRenderer, Upsert, Remove
  <2> QED BY <1>4, <2>2, <2>5, <2>6
<1>10. CASE \E l \in Libraries : e = LibraryEvent(l)
  <2>1. PICK l \in Libraries : e = LibraryEvent(l)
    BY <1>10
  <2>2. /\ e.of = "libraries" /\ e.id = l
        /\ l \in libs => e.op = "upsert" /\ e.val = l
        /\ l \notin libs => e.op = "remove"
    BY <2>1 DEF LibraryEvent, Upsert, Remove
  <2>3. /\ told'.libraries = Change(told.libraries, e)
        /\ told'.displays = told.displays /\ told'.renderers = told.renderers
    BY <1>1, <2>2, AppliedIs
  <2>4. LibraryShown(l)' /\ \A x \in Libraries : x # l /\ LibraryShown(x) => LibraryShown(x)'
    <3>1. CASE l \in libs
      <4>1. /\ DOMAIN told'.libraries = DOMAIN told.libraries \cup {l}
            /\ told'.libraries[l] = l
            /\ \A x \in DOMAIN told.libraries \ {l} : told'.libraries[x] = told.libraries[x]
        <5>1. /\ DOMAIN Change(told.libraries, e) = DOMAIN told.libraries \cup {l}
              /\ Change(told.libraries, e)[l] = l
              /\ \A x \in DOMAIN told.libraries \ {l} : Change(told.libraries, e)[x] = told.libraries[x]
          BY <2>2, <3>1 DEF Change
        <5> QED BY <2>2, <2>3, <5>1
      <4> QED BY <1>2, <3>1, <4>1 DEF LibraryShown
    <3>2. CASE l \notin libs
      <4>1. /\ DOMAIN told'.libraries = DOMAIN told.libraries \ {l}
            /\ \A x \in DOMAIN told.libraries \ {l} : told'.libraries[x] = told.libraries[x]
        <5>1. /\ DOMAIN Change(told.libraries, e) = DOMAIN told.libraries \ {l}
              /\ \A x \in DOMAIN told.libraries \ {l} : Change(told.libraries, e)[x] = told.libraries[x]
          BY <2>2, <3>2 DEF Change
        <5> QED BY <2>2, <2>3, <5>1
      <4> QED BY <1>2, <3>2, <4>1 DEF LibraryShown
    <3> QED BY <3>1, <3>2
  <2>5. \A x \in Libraries : CoversLibrary(head, x) => x = l
    BY <2>2 DEF CoversLibrary, LibraryEvent, Upsert, Remove
  <2>6. \A d \in Displays : ~CoversDisplay(head, d)
    BY <2>2 DEF CoversDisplay, Upsert, Remove, Replace
  <2>7. \A r \in Renderers : ~CoversRenderer(head, r)
    BY <2>2 DEF CoversRenderer, Upsert, Remove
  <2> QED BY <2>3, <2>4, <2>5, <2>6, <2>7, DisplayKept, RendererKept DEF Raised, LibraryCovered
<1> QED BY <1>5, <1>6, <1>7, <1>8, <1>9, <1>10 DEF IsSo

\* A step that adds none.
LEMMA LeavesAnnouncing ==
  ASSUME Announcing, NEW w \in Writers, job[w] # <<>>, Goes(w, <<>>), SameWorld, paused' = paused,
         ToldOK', NEW head, head = Head(job[w]), head.op # "reconcile",
         ASSUME ~mixed PROVE Raised(head)
  PROVE  Announcing'
<1>1. World'
  BY DEF Announcing, Types, World, SameWorld
<1>2. PICK steps : steps = <<>>
  OBVIOUS
<1>3. steps \in Seq(Steps) /\ DOMAIN steps = {} /\ Goes(w, steps)
  BY <1>2
<1>4. ASSUME ~mixed, AllCovered, Ahead(w, steps) PROVE AllCovered'
  <2>1. \A op, arg : Pending(op, arg) => Pending(op, arg)' \/ (op = head.op /\ arg = head.arg)
    BY <1>4 DEF Ahead
  <2>2. Raised(head)
    BY <1>4
  <2> QED BY <1>4, <2>1, <2>2, CoveredGoesOn DEF Raised
<1> QED BY <1>1, <1>3, <1>4, GoesOnAnnouncing

\* A step that announces no object: of the playlists, the status or the tasks.
LEMMA SaysNothing ==
  ASSUME SameWorld, paused' = paused, told' = told, NEW head, head.op \in {"publish", "nudge", "joined"}
  PROVE  Raised(head)
<1>1. /\ \A d \in Displays : ~CoversDisplay(head, d)
      /\ \A r \in Renderers : ~CoversRenderer(head, r)
      /\ \A l \in Libraries : ~CoversLibrary(head, l)
  BY DEF CoversDisplay, CoversRenderer, CoversLibrary
<1> QED BY <1>1, ShownStays DEF Raised

LEMMA AnnounceAnnounces ==
  ASSUME Announcing, NEW w \in Writers, Announce(w) PROVE Announcing'
<1>0. Types /\ JobsOK /\ ToldOK
  BY DEF Announcing, Types
<1>1. SameWorld /\ paused' = paused /\ Goes(w, <<>>)
  BY DEF Announce, worldVars, SameWorld
<1>2. PICK head : head = Head(job[w])
  OBVIOUS
<1>3. CASE At(w, "emit") /\ Emit(Arg(w))
  <2>1. PICK e : e = head.arg
    OBVIOUS
  <2>2. job[w] # <<>> /\ head.op = "emit" /\ told' = Applied(told, e)
    BY <1>2, <1>3, <2>1 DEF At, Arg, Emit
  <2>3. job[w] \in Seq(Steps) /\ head = job[w][1] /\ 1 \in DOMAIN job[w] /\ head \in Steps
    BY <1>0, <1>2, <2>2 DEF JobsOK
  <2>4. e \in Events
    BY <2>1, <2>2, <2>3 DEF Steps
  <2>5. ToldOK'
    BY <1>0, <2>2, <2>4, AppliedTypes
  <2>6. ASSUME ~mixed PROVE Raised(head)
    <3>1. IsSo(e) \/ IsSoNow(e)
      BY <2>1, <2>2, <2>3, <2>6 DEF Announcing, Current
    <3> QED BY <1>0, <1>1, <2>1, <2>2, <3>1, EmitRaises
  <2> QED BY <1>1, <1>2, <2>2, <2>5, <2>6, LeavesAnnouncing
<1>4. CASE (At(w, "publish") /\ Publish(Arg(w))) \/ (At(w, "nudge") /\ Nudge)
  <2>1. job[w] # <<>> /\ head.op \in {"publish", "nudge", "joined"} /\ told' = told
    BY <1>2, <1>4 DEF At, Publish, Nudge
  <2>2. Raised(head) /\ ToldOK'
    BY <1>0, <1>1, <2>1, SaysNothing DEF ToldOK
  <2>3. head.op # "reconcile"
    BY <2>1
  <2> QED BY <1>1, <1>2, <2>1, <2>2, <2>3, LeavesAnnouncing
<1> QED BY <1>3, <1>4 DEF Announce

LEMMA JoinAnnounces ==
  ASSUME Announcing, NEW w \in Writers, Join(w) PROVE Announcing'
<1>0. ToldOK
  BY DEF Announcing, Types
<1>1. SameWorld /\ paused' = paused /\ Goes(w, <<>>) /\ told' = told
  BY DEF Join, SameWorld
<1>2. PICK head : head = Head(job[w])
  OBVIOUS
<1>3. job[w] # <<>> /\ head.op = "joined"
  BY <1>2 DEF Join, At
<1>4. Raised(head) /\ ToldOK'
  BY <1>0, <1>1, <1>3, SaysNothing DEF ToldOK
<1> QED BY <1>1, <1>2, <1>3, <1>4, LeavesAnnouncing

\* The connection changes nothing of what is announced.
LEMMA ListensAnnouncing ==
  ASSUME Announcing, UNCHANGED <<worldVars, writerVars>> PROVE Announcing'
<1>1. /\ SameWorld /\ paused' = paused /\ told' = told /\ job' = job /\ mixed' = mixed
  BY DEF worldVars, writerVars, SameWorld
<1>2. Types'
  BY <1>1, WorldStays DEF Announcing, Types, JobsOK
<1>3. ASSUME ~mixed PROVE OneAtWork' /\ Current' /\ AllCovered'
  <2>1. OneAtWork /\ Current /\ AllCovered
    BY <1>3 DEF Announcing
  <2>2. OneAtWork'
    BY <1>1, <2>1 DEF OneAtWork
  <2>3. \A e : IsSoNow(e) => IsSoNow(e)'
    BY <1>1 DEF IsSoNow, SameWorld, RendererOf
  <2>4. Current'
    BY <1>1, <2>1, <2>3, StaysSo DEF Current
  <2>5. PICK head : head = Step("joined", None)
    OBVIOUS
  <2>6. head.op = "joined"
    BY <2>5 DEF Step
  <2>7. Raised(head)
    BY <1>1, <2>6, SaysNothing
  <2>8. \A op, arg : Pending(op, arg) => Pending(op, arg)'
    BY <1>1 DEF Pending
  <2>9. AllCovered'
    BY <1>1, <2>1, <2>6, <2>7, <2>8, CoveredGoesOn DEF Raised
  <2> QED BY <2>2, <2>4, <2>9
<1> QED BY <1>1, <1>2, <1>3 DEF Announcing

LEMMA AnnouncingInit == Init => Announcing
<1> SUFFICES ASSUME Init PROVE Announcing
  OBVIOUS
<1>1. PICK r : r = CHOOSE x \in FirstRenderers : TRUE
  OBVIOUS
<1>2. r \in FirstRenderers /\ FirstRenderers \subseteq Renderers /\ FirstDisplays \subseteq Displays
      /\ IsFiniteSet(FirstRenderers)
  BY <1>1, FirstAreLinked
<1>3. /\ here = FirstDisplays /\ up = FirstRenderers /\ born = FirstDisplays \cup FirstRenderers
      /\ link = [d \in Displays |-> IF d \in FirstDisplays THEN r ELSE None]
      /\ paused = IF FirstDisplays = {} THEN up ELSE up \ {r}
      /\ face = [d \in Displays |-> 0] /\ layout = 0 /\ libs = {}
      /\ job = [w \in Writers |-> <<>>] /\ told = Truth /\ mixed = FALSE
  BY <1>1 DEF Init
<1>4. World
  <2>1. link \in [Displays -> up \cup {None}]
    BY <1>2, <1>3
  <2> QED BY <1>2, <1>3, <2>1 DEF World
<1>5. JobsOK
  <2>1. <<>> \in Seq(Steps)
    OBVIOUS
  <2> QED BY <1>3, <2>1 DEF JobsOK
<1>6. ToldOK
  <2>1. AllDisplays \in Maps(Displays, DisplayVals)
    <3>1. AllDisplays \in [here -> DisplayVals] /\ here \in SUBSET Displays
      BY <1>4, EventTypes DEF AllDisplays, World
    <3> QED BY <3>1, IsMap
  <2>2. AllRenderers \in Maps(Renderers, RendererVals)
    <3>1. AllRenderers \in [up -> RendererVals] /\ up \in SUBSET Renderers
      BY <1>4, EventTypes DEF AllRenderers, World
    <3> QED BY <3>1, IsMap
  <2>3. AllLibraries \in Maps(Libraries, Libraries)
    <3>1. AllLibraries \in [libs -> Libraries] /\ libs \in SUBSET Libraries
      BY <1>4 DEF AllLibraries, World
    <3> QED BY <3>1, IsMap
  <2> QED BY <1>3, <2>1, <2>2, <2>3 DEF ToldOK, Truth
<1>7. AllCovered
  <2>1. told.displays = AllDisplays /\ told.renderers = AllRenderers /\ told.libraries = AllLibraries
    BY <1>3 DEF Truth
  <2>2. \A d \in Displays : DisplayShown(d)
    BY <2>1 DEF DisplayShown, AllDisplays
  <2>3. \A x \in Renderers : RendererShown(x)
    BY <2>1 DEF RendererShown, AllRenderers
  <2>4. \A l \in Libraries : LibraryShown(l)
    BY <2>1 DEF LibraryShown, AllLibraries
  <2> QED BY <2>2, <2>3, <2>4 DEF AllCovered, DisplayCovered, RendererCovered, LibraryCovered
<1>8. \A w \in Writers : job[w] = <<>> /\ DOMAIN job[w] = {}
  BY <1>3
<1> QED BY <1>3, <1>4, <1>5, <1>6, <1>7, <1>8 DEF Announcing, Types, OneAtWork, Current

LEMMA AnnouncingStep == Announcing /\ [Next]_vars => Announcing'
<1> SUFFICES ASSUME Announcing, [Next]_vars PROVE Announcing'
  OBVIOUS
<1>1. CASE \E w \in Writers : StartSome(w)
  BY <1>1, StartsAnnouncing
<1>2. CASE \E w \in Writers : Continue(w)
  BY <1>2, ReconcileStepAnnounces, LookAnnounces, AnnounceAnnounces, JoinAnnounces DEF Continue
<1>3. CASE Connect
  <2>1. UNCHANGED <<worldVars, writerVars>>
    BY <1>3 DEF Connect
  <2> QED BY <2>1, ListensAnnouncing
<1>4. CASE Serve
  <2>1. UNCHANGED <<worldVars, writerVars>>
    BY <1>4 DEF Serve, SendSnapshot, ReceiveRouter, ReceiveBus, ReceiveTask
  <2> QED BY <2>1, ListensAnnouncing
<1>5. CASE Break
  <2>1. UNCHANGED <<worldVars, writerVars>>
    BY <1>5 DEF Break
  <2> QED BY <2>1, ListensAnnouncing
<1>6. CASE UNCHANGED vars
  <2>1. UNCHANGED <<worldVars, writerVars>>
    BY <1>6 DEF vars
  <2> QED BY <2>1, ListensAnnouncing
<1> QED BY <1>1, <1>2, <1>3, <1>4, <1>5, <1>6 DEF Next

\* While no two operations overlap, what the router emits adds up to what it
\* holds as soon as the operation is over, whatever the operation, for any
\* displays, renderers, libraries and tasks: no tail of an operation of
\* routing/router.rs, or of the library's in ws_server.rs, leaves out an
\* object that the operation changed.
THEOREM UiSyncTruthIsAnnounced == Spec => []TruthIsAnnounced
<1>1. Init => Announcing
  BY AnnouncingInit
<1>2. Announcing /\ [Next]_vars => Announcing'
  BY AnnouncingStep
<1>3. Announcing => TruthIsAnnounced
  BY AnnouncingShows
<1> QED BY <1>1, <1>2, <1>3, PTL DEF Spec
=============================================================================
