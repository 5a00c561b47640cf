---------------------------- MODULE LayoutsProofs ----------------------------
(***************************************************************************)
(* The routing table, for every set of displays and renderers and every    *)
(* number of links: the indexes agree with the links, a display never has  *)
(* two links, ids are never reused, and the table implements LinkMap.      *)
(*                                                                         *)
(* The tasks that change layouts, for every set of them and every file of  *)
(* settings: they keep all that of the table, and with one connection a    *)
(* display that no task is on its way to draws by what its settings say    *)
(* now.  Last, the arithmetic of the projection itself.                    *)
(***************************************************************************)
EXTENDS Layouts, TLAPS

LEMMA TypeOKStep == TypeOK /\ [Next]_vars => TypeOK'
<1> SUFFICES ASSUME TypeOK, [Next]_vars PROVE TypeOK'
  OBVIOUS
<1> USE TableAssumption DEF TypeOK, LinkIds, Link
<1>1. ASSUME NEW r \in Renderers, AddRenderer(r) PROVE TypeOK'
  BY <1>1 DEF AddRenderer
<1>2. ASSUME NEW r \in Renderers, RemoveRenderer(r) PROVE TypeOK'
  BY <1>2 DEF RemoveRenderer, LinksWithout, ByDisplayWithout
<1>3. ASSUME NEW r \in Renderers, NEW d \in Displays, AddLink(r, d) PROVE TypeOK'
  BY <1>3 DEF AddLink, ByDisplayWithout, ByRendererWithout
<1>4. ASSUME NEW id \in LinkIds, NEW g \in Geometries, UpdateLinkGeometry(id, g)
      PROVE TypeOK'
  BY <1>4 DEF UpdateLinkGeometry
<1>5. ASSUME NEW id \in LinkIds, RemoveLink(id) PROVE TypeOK'
  BY <1>5 DEF RemoveLink, LinksWithout, ByDisplayWithout, ByRendererWithout
<1>6. ASSUME NEW d \in Displays, RemoveDisplay(d) PROVE TypeOK'
  BY <1>6 DEF RemoveDisplay, LinksWithout, ByRendererWithout
<1>7. CASE UNCHANGED vars
  BY <1>7 DEF vars
<1> QED
  BY <1>1, <1>2, <1>3, <1>4, <1>5, <1>6, <1>7 DEF Next

(* The maps of routing/table.rs keep their types under every operation.    *)
THEOREM TableTypeOK == Spec => []TypeOK
<1>1. Init => TypeOK
  BY TableAssumption DEF Init, TypeOK, LinkIds
<1> QED
  BY <1>1, TypeOKStep, PTL DEF Spec

-----------------------------------------------------------------------------
(* IndexesAgree is not inductive alone: add_link must know that the id it  *)
(* hands out is in no index yet, which is IdsIssued.                       *)
TableInv == TypeOK /\ IdsIssued /\ IndexesAgree /\ OneLinkPerDisplay

LEMMA TableInvInit == Init => TableInv
BY TableAssumption
DEF Init, TableInv, TypeOK, LinkIds, IdsIssued, IndexesAgree, OneLinkPerDisplay

LEMMA TableInvStep == TableInv /\ [Next]_vars => TableInv'
<1> SUFFICES ASSUME TableInv, [Next]_vars PROVE TableInv'
  OBVIOUS
<1>0. TypeOK /\ TypeOK'
  BY TypeOKStep DEF TableInv
<1> USE TableAssumption, <1>0 DEF TableInv, TypeOK, LinkIds, Link, IdsIssued
<1>1. ASSUME NEW r \in Renderers, AddRenderer(r) PROVE TableInv'
  BY <1>1 DEF AddRenderer, IndexesAgree, OneLinkPerDisplay
<1>2. ASSUME NEW r \in Renderers, RemoveRenderer(r) PROVE TableInv'
  <2> USE <1>2 DEF RemoveRenderer, LinksWithout, ByDisplayWithout
  <2>1. IdsIssued' /\ OneLinkPerDisplay'
    BY DEF OneLinkPerDisplay
  <2>2. IndexesAgree'
    BY DEF IndexesAgree
  <2> QED
    BY <2>1, <2>2
<1>3. ASSUME NEW r \in Renderers, NEW d \in Displays, AddLink(r, d) PROVE TableInv'
  <2> DEFINE id == nextLinkId + 1
             old == byDisplay[d]
  <2> USE <1>3 DEF AddLink
  <2>1. /\ id \notin DOMAIN links
        /\ old = {i \in DOMAIN links : links[i].display = d}
        /\ DOMAIN links' = (DOMAIN links \ old) \cup {id}
        /\ links'[id].display = d /\ links'[id].renderer = r
        /\ \A i \in DOMAIN links \ old : links'[i] = links[i]
    BY DEF IndexesAgree
  <2>2. IdsIssued'
    BY <2>1
  <2>3. OneLinkPerDisplay'
    BY <2>1 DEF OneLinkPerDisplay
  <2>4. ASSUME NEW e \in Displays
        PROVE byDisplay'[e] = {i \in DOMAIN links' : links'[i].display = e}
    BY <2>1 DEF IndexesAgree, ByDisplayWithout
  <2>5. ASSUME NEW q \in Renderers
        PROVE byRenderer'[q] = {i \in DOMAIN links' : links'[i].renderer = q}
    BY <2>1 DEF IndexesAgree, ByRendererWithout
  <2> QED
    BY <2>2, <2>3, <2>4, <2>5 DEF IndexesAgree
<1>4. ASSUME NEW id \in LinkIds, NEW g \in Geometries, UpdateLinkGeometry(id, g)
      PROVE TableInv'
  BY <1>4 DEF UpdateLinkGeometry, IndexesAgree, OneLinkPerDisplay
<1>5. ASSUME NEW id \in LinkIds, RemoveLink(id) PROVE TableInv'
  <2> USE <1>5 DEF RemoveLink, LinksWithout, ByDisplayWithout, ByRendererWithout
  <2>1. IdsIssued' /\ OneLinkPerDisplay'
    BY DEF OneLinkPerDisplay
  <2>2. IndexesAgree'
    BY DEF IndexesAgree
  <2> QED
    BY <2>1, <2>2
<1>6. ASSUME NEW d \in Displays, RemoveDisplay(d) PROVE TableInv'
  <2> USE <1>6 DEF RemoveDisplay, LinksWithout, ByRendererWithout
  <2>1. IdsIssued' /\ OneLinkPerDisplay'
    BY DEF OneLinkPerDisplay
  <2>2. IndexesAgree'
    BY DEF IndexesAgree
  <2> QED
    BY <2>1, <2>2
<1>7. CASE UNCHANGED vars
  BY <1>7 DEF vars, IndexesAgree, OneLinkPerDisplay
<1> QED
  BY <1>1, <1>2, <1>3, <1>4, <1>5, <1>6, <1>7 DEF Next

LEMMA TableInvariant == Spec => []TableInv
BY TableInvInit, TableInvStep, PTL DEF Spec

(* No operation of table.rs leaves an id in one index and not the other.   *)
THEOREM TableIndexesAgree == Spec => []IndexesAgree
<1>1. TableInv => IndexesAgree
  BY DEF TableInv
<1> QED
  BY <1>1, TableInvariant, PTL

(* add_link's eviction keeps every display at one link at most.            *)
THEOREM TableOneLinkPerDisplay == Spec => []OneLinkPerDisplay
<1>1. TableInv => OneLinkPerDisplay
  BY DEF TableInv
<1> QED
  BY <1>1, TableInvariant, PTL

(* Link ids are handed out once and their edge never changes.              *)
THEOREM TableLinkIdsAreStable == Spec => LinkIdsAreStable
<1> DEFINE Stable ==
      /\ \A i \in DOMAIN links' \ DOMAIN links : i > nextLinkId
      /\ \A i \in DOMAIN links \cap DOMAIN links' :
           /\ links'[i].display = links[i].display
           /\ links'[i].renderer = links[i].renderer
<1>1. TableInv /\ [Next]_vars => [Stable]_vars
  <2> SUFFICES ASSUME TableInv, Next PROVE Stable
    OBVIOUS
  <2> USE TableAssumption DEF TableInv, TypeOK, LinkIds, Link, IdsIssued
  <2>1. ASSUME NEW r \in Renderers, NEW d \in Displays, AddLink(r, d) PROVE Stable
    BY <2>1 DEF AddLink
  <2>2. ASSUME NEW id \in LinkIds, NEW g \in Geometries, UpdateLinkGeometry(id, g)
        PROVE Stable
    BY <2>2 DEF UpdateLinkGeometry
  <2> QED
    BY <2>1, <2>2 DEF Next, AddRenderer, RemoveRenderer, RemoveLink, RemoveDisplay, LinksWithout
<1> QED
  BY <1>1, TableInvariant, PTL DEF Spec, LinkIdsAreStable

-----------------------------------------------------------------------------
(* What the lookup of a display returns in a consistent table.             *)

RouteFacts ==
  /\ \A i \in DOMAIN links : RouteOf(links[i].display) = links[i].renderer
  /\ \A d \in Displays :
       (\A i \in DOMAIN links : links[i].display # d) => RouteOf(d) = NoRenderer

LEMMA RouteFactsHold == TableInv => RouteFacts
<1> SUFFICES ASSUME TableInv PROVE RouteFacts
  OBVIOUS
<1>1. ASSUME NEW i \in DOMAIN links
      PROVE  RouteOf(links[i].display) = links[i].renderer
  <2> DEFINE d == links[i].display
  <2>1. d \in Displays /\ byDisplay[d] = {j \in DOMAIN links : links[j].display = d}
    BY DEF TableInv, TypeOK, Link, IndexesAgree
  <2>2. \A j \in DOMAIN links : links[j].display = d => j = i
    BY DEF TableInv, OneLinkPerDisplay
  <2>3. LinksForDisplay(d) = {links[i]}
    BY <2>1, <2>2 DEF LinksForDisplay
  <2> QED
    BY <2>3 DEF RouteOf
<1>2. ASSUME NEW d \in Displays, \A i \in DOMAIN links : links[i].display # d
      PROVE  RouteOf(d) = NoRenderer
  BY <1>2 DEF TableInv, IndexesAgree, RouteOf, LinksForDisplay
<1> QED
  BY <1>1, <1>2 DEF RouteFacts

(* The displays a renderer's teardown visits are those whose own lookup    *)
(* finds that renderer.                                                    *)
THEOREM TableViewsAgree == Spec => []ViewsAgree
<1>1. TableInv => ViewsAgree
  <2> SUFFICES ASSUME TableInv, NEW r \in Renderers
               PROVE  AudienceOf(r) = {d \in Displays : RouteOf(d) = r}
    BY DEF ViewsAgree
  <2>1. AudienceOf(r) = {links[i].display : i \in {j \in DOMAIN links : links[j].renderer = r}}
    BY DEF TableInv, IndexesAgree, AudienceOf, LinksForRenderer
  <2>2. RouteFacts
    BY RouteFactsHold
  <2>3. ASSUME NEW i \in DOMAIN links PROVE links[i].display \in Displays
    BY DEF TableInv, TypeOK, Link
  <2> QED
    BY <2>1, <2>2, <2>3, TableAssumption DEF RouteFacts
<1> QED
  BY <1>1, TableInvariant, PTL

-----------------------------------------------------------------------------
(* The refinement: each operation of the table is one operation of the     *)
(* abstract map, or (a geometry edit) none.                                *)
LEMMA TableInitIsMap == Init => Abstract!Init
BY DEF Init, Abstract!Init, RouteOf, LinksForDisplay

LEMMA TableStepIsMap ==
  TableInv /\ RouteFacts /\ TableInv' /\ RouteFacts' /\ [Next]_vars
    => [Abstract!Next]_(Abstract!vars)
<1> SUFFICES ASSUME TableInv, RouteFacts, TableInv', RouteFacts', [Next]_vars
             PROVE  [Abstract!Next]_(Abstract!vars)
  OBVIOUS
<1> USE TableAssumption DEF TableInv, TypeOK, LinkIds, Link, IdsIssued, RouteFacts
<1>1. ASSUME NEW r \in Renderers, AddRenderer(r) PROVE Abstract!AddRenderer(r)
  <2>1. \A d \in Displays : RouteOf(d)' = RouteOf(d)
    BY <1>1 DEF AddRenderer, RouteOf, LinksForDisplay
  <2> QED
    BY <1>1, <2>1 DEF AddRenderer, Abstract!AddRenderer
<1>2. ASSUME NEW r \in Renderers, RemoveRenderer(r) PROVE Abstract!RemoveRenderer(r)
  <2>1. ASSUME NEW d \in Displays
        PROVE  RouteOf(d)' = IF RouteOf(d) = r THEN NoRenderer ELSE RouteOf(d)
    <3>1. byRenderer[r] = {i \in DOMAIN links : links[i].renderer = r}
      BY DEF IndexesAgree
    <3> QED
      BY <1>2, <3>1 DEF RemoveRenderer, LinksWithout
  <2> QED
    BY <1>2, <2>1 DEF RemoveRenderer, Abstract!RemoveRenderer
<1>3. ASSUME NEW r \in Renderers, NEW d \in Displays, AddLink(r, d)
      PROVE  Abstract!Assign({d}, r)
  <2>1. ASSUME NEW e \in Displays
        PROVE  RouteOf(e)' = IF e \in {d} THEN r ELSE RouteOf(e)
    <3> DEFINE id == nextLinkId + 1
    <3>1. /\ id \notin DOMAIN links
          /\ byDisplay[d] = {i \in DOMAIN links : links[i].display = d}
          /\ DOMAIN links' = (DOMAIN links \ byDisplay[d]) \cup {id}
          /\ links'[id].display = d /\ links'[id].renderer = r
          /\ \A i \in DOMAIN links \ byDisplay[d] : links'[i] = links[i]
      BY <1>3 DEF AddLink, IndexesAgree
    <3>2. CASE e = d
      BY <3>1, <3>2
    <3>3. CASE e # d
      <4>1. \A i \in DOMAIN links : links[i].display = e => i \in DOMAIN links' /\ links'[i] = links[i]
        BY <3>1, <3>3
      <4>2. \A i \in DOMAIN links' : links'[i].display = e => i \in DOMAIN links /\ links'[i] = links[i]
        BY <3>1, <3>3
      <4> QED
        BY <3>3, <4>1, <4>2
    <3> QED
      BY <3>2, <3>3
  <2> QED
    BY <1>3, <2>1 DEF AddLink, Abstract!Assign
<1>4. ASSUME NEW id \in LinkIds, NEW g \in Geometries, UpdateLinkGeometry(id, g)
      PROVE  UNCHANGED Abstract!vars
  <2>1. ASSUME NEW e \in Displays PROVE RouteOf(e)' = RouteOf(e)
    BY <1>4 DEF UpdateLinkGeometry
  <2> QED
    BY <1>4, <2>1 DEF UpdateLinkGeometry, Abstract!vars
<1>5. ASSUME NEW id \in LinkIds, RemoveLink(id)
      PROVE  Abstract!Unassign({links[id].display})
  <2>1. ASSUME NEW e \in Displays
        PROVE  RouteOf(e)' = IF e \in {links[id].display} THEN NoRenderer ELSE RouteOf(e)
    BY <1>5 DEF RemoveLink, LinksWithout, OneLinkPerDisplay
  <2> QED
    BY <1>5, <2>1 DEF RemoveLink, Abstract!Unassign
<1>6. ASSUME NEW d \in Displays, RemoveDisplay(d) PROVE Abstract!Unassign({d})
  <2>1. ASSUME NEW e \in Displays
        PROVE  RouteOf(e)' = IF e \in {d} THEN NoRenderer ELSE RouteOf(e)
    <3>1. byDisplay[d] = {i \in DOMAIN links : links[i].display = d}
      BY DEF IndexesAgree
    <3> QED
      BY <1>6, <3>1 DEF RemoveDisplay, LinksWithout
  <2> QED
    BY <1>6, <2>1 DEF RemoveDisplay, Abstract!Unassign
<1>7. CASE UNCHANGED vars
  BY <1>7 DEF vars, Abstract!vars, RouteOf, LinksForDisplay
<1>8. ASSUME NEW id \in LinkIds, RemoveLink(id) PROVE {links[id].display} \subseteq Displays
  BY <1>8 DEF RemoveLink
<1>9. Next => Abstract!Next \/ UNCHANGED Abstract!vars
  <2> HIDE DEF TableInv, TypeOK, LinkIds, Link, IdsIssued, RouteFacts
  <2> QED
    BY <1>1, <1>2, <1>3, <1>4, <1>5, <1>6, <1>8 DEF Next, Abstract!Next
<1> QED
  BY <1>7, <1>9

(* The table implements the abstract assignment of renderers to displays.  *)
THEOREM TableImplementsLinkMap == Spec => ImplementsLinkMap
BY TableInitIsMap, TableStepIsMap, TableInvariant, RouteFactsHold, PTL
DEF Spec, ImplementsLinkMap, Abstract!Spec
-----------------------------------------------------------------------------
(* The table under the tasks that change layouts.                          *)

\* What a task may have to do.
Plain == [at : {"rest", "resync", "sync"}, todo : SUBSET Displays]
Overriding ==
  [at : {"override"}, todo : SUBSET Displays, next : SUBSET Displays, renderer : Renderers]
StoringFor(d, edit) == [at |-> "store", todo |-> {d}, key |-> SettingsKey(d), edit |-> edit]
ClientWork(w) ==
  \/ w \in Plain \cup Overriding
  \/ \E d \in Displays, edit \in DisplayEdits : w = StoringFor(d, edit)
  \/ \E edit \in GlobalEdits : \E was : w = [at |-> "global", todo |-> {}, was |-> was, edit |-> edit]
  \/ \E was : w = [at |-> "compare", todo |-> {}, was |-> was]
  \/ w = [at |-> "collect", todo |-> {}]
DisplayWork(w) == w \in Plain \/ w = [at |-> "register", todo |-> {}]
RendererWork(w) == w \in Plain \cup [at : {"colour"}, todo : {{}}, colour : Geometries]

Pool == [gen : Nat, tex : Nat \X Nat]
Handle == [pool : Pool, colour : Geometries, reports : Nat, binds : Nat]
Rec(on, size, r, gen, cfg) ==
  [on |-> on, size |-> size, renderer |-> r, gen |-> gen, shown |-> cfg]
State(x) ==
  \E on \in BOOLEAN, size \in Nat \X Nat, r \in Renderers \cup {NoRenderer}, gen \in Nat :
    \E cfg : x = Rec(on, size, r, gen, cfg)
DisplaysOK == DOMAIN display = Displays /\ \A d \in Displays : State(display[d])

Works ==
  /\ DOMAIN work = Tasks
  /\ \A c \in Clients : ClientWork(work[c])
  /\ \A d \in Displays : DisplayWork(work[d])
  /\ \A r \in Renderers : RendererWork(work[r])
LEMMA GoesWorks ==
  ASSUME Works, NEW t \in Tasks, NEW w, Goes(t, w),
         t \in Clients => ClientWork(w), t \in Displays => DisplayWork(w),
         t \in Renderers => RendererWork(w)
  PROVE  Works'
<1>1. DOMAIN work' = Tasks /\ \A u \in Tasks : work'[u] = IF u = t THEN w ELSE work[u]
  BY DEF Goes, Works
<1>2. \A c \in Clients : ClientWork(work'[c])
  BY <1>1 DEF Works, Tasks
<1>3. \A d \in Displays : DisplayWork(work'[d])
  BY <1>1 DEF Works, Tasks
<1>4. \A r \in Renderers : RendererWork(work'[r])
  BY <1>1 DEF Works, Tasks
<1>5. Works' <=> /\ DOMAIN work' = Tasks
                 /\ \A c \in Clients : ClientWork(work'[c])
                 /\ \A d \in Displays : DisplayWork(work'[d])
                 /\ \A r \in Renderers : RendererWork(work'[r])
  BY DEF Works, ClientWork, DisplayWork, RendererWork, StoringFor, SettingsKey, Or
<1> QED BY <1>1, <1>2, <1>3, <1>4, <1>5

\* To visit displays is work for any task.
LEMMA Visits ==
  ASSUME NEW ds \in SUBSET Displays, NEW w \in {Rest, Resyncs(ds), Syncs(ds)}
  PROVE  w \in Plain /\ ClientWork(w) /\ DisplayWork(w) /\ RendererWork(w)
<1>1. w \in Plain
  BY DEF Rest, Resyncs, Syncs, Plain
<1> QED BY <1>1 DEF ClientWork, DisplayWork, RendererWork

LEMMA AudienceType ==
  ASSUME TableInv, NEW r \in Renderers
  PROVE  AudienceOf(r) \subseteq Displays /\ AudienceToTell(r) \subseteq Displays
<1>1. AudienceOf(r) \subseteq Displays
  BY DEF TableInv, TypeOK, Link, AudienceOf, LinksForRenderer
<1> QED BY <1>1 DEF AudienceToTell

\* What is known of a task's work by the kind it is.
LEMMA WorkAt ==
  ASSUME Works, NEW t \in Tasks
  PROVE  /\ work[t].todo \subseteq Displays
         /\ work[t].at = "override" => t \in Clients /\ work[t] \in Overriding
         /\ work[t].at = "colour" => t \in Renderers /\ work[t].colour \in Geometries
         /\ work[t].at = "store" => t \in Clients /\ \E d \in Displays, edit \in DisplayEdits :
                                                       work[t] = StoringFor(d, edit)
         /\ work[t].at \in {"rest", "resync", "sync"} => work[t] \in Plain
         /\ work[t].at = "collect" => t \in Clients /\ work[t].todo = {}
<1>1. CASE t \in Clients
  <2> DEFINE w == work[t]
  <2>1. ClientWork(w)
    BY <1>1 DEF Works
  <2> HIDE DEF w
  <2>2. CASE w \in Plain \cup Overriding
    BY <1>1, <2>2 DEF Plain, Overriding, w
  <2>3. ASSUME NEW d \in Displays, NEW edit \in DisplayEdits, w = StoringFor(d, edit)
        PROVE  w.at = "store" /\ w.todo = {d}
    BY <2>3 DEF StoringFor
  <2>4. CASE w \notin Plain \cup Overriding
    <3>1. w.todo \subseteq Displays /\ w.at \in {"store", "global", "compare", "collect"}
      BY <2>1, <2>3, <2>4 DEF ClientWork
    <3>2. w.at = "store" => \E d \in Displays, edit \in DisplayEdits : w = StoringFor(d, edit)
      BY <2>1, <2>4 DEF ClientWork
    <3>3. w.at = "collect" => w.todo = {}
      BY <2>1, <2>3, <2>4 DEF ClientWork
    <3> QED BY <1>1, <3>1, <3>2, <3>3 DEF w
  <2> QED BY <2>2, <2>4
<1>2. CASE t \in Displays
  BY <1>2 DEF Works, DisplayWork, Plain
<1>3. CASE t \in Renderers
  BY <1>3 DEF Works, RendererWork, Plain
<1> QED BY <1>1, <1>2, <1>3 DEF Tasks

LEMMA WorksStep ==
  ASSUME Works, TableInv, handle \in [Renderers -> Handle], LayoutNext
  PROVE  Works'
<1> USE DEF Tasks
<1>1. ASSUME NEW t \in Tasks, NEW d \in Displays, ResyncDisplay(t, d) \/ SyncDisplay(t, d)
      PROVE  Works'
  <2>1. work[t].todo \ {d} \subseteq Displays
    BY WorkAt
  <2> QED BY <1>1, <2>1, Visits, GoesWorks DEF ResyncDisplay, SyncDisplay
<1>2. ASSUME NEW c \in Clients, NEW d \in Displays, NEW edit \in DisplayEdits,
             AskDisplayLayout(c, d, edit)
      PROVE  Works'
  <2>1. Goes(c, StoringFor(d, edit)) /\ ClientWork(StoringFor(d, edit))
    BY <1>2 DEF AskDisplayLayout, StoringFor, ClientWork
  <2> QED BY <2>1, GoesWorks, LayoutsAssumption
<1>3. ASSUME NEW c \in Clients, NEW d \in Displays, ApplyResync(c, d) PROVE Works'
  <2>1. work[c] \in Overriding
    BY <1>3, WorkAt DEF ApplyResync
  <2>2. [work[c] EXCEPT !.todo = @ \ {d}] \in Overriding
    BY <2>1 DEF Overriding
  <2> QED BY <1>3, <2>2, GoesWorks, LayoutsAssumption DEF ApplyResync, ClientWork
<1>4. ASSUME NEW c \in Clients, NEW edit \in GlobalEdits, AskGlobalLayout(c, edit) PROVE Works'
  BY <1>4, GoesWorks, LayoutsAssumption DEF AskGlobalLayout, ClientWork
<1>5. ASSUME NEW c \in Clients, StoreDisplayLayout(c) PROVE Works'
  <2>1. work[c].todo \subseteq Displays
    BY WorkAt
  <2> QED BY <1>5, <2>1, Visits, GoesWorks, LayoutsAssumption DEF StoreDisplayLayout
<1>6. ASSUME NEW c \in Clients, StoreGlobalLayout(c) PROVE Works'
  BY <1>6, GoesWorks, LayoutsAssumption DEF StoreGlobalLayout, ClientWork
<1>7. ASSUME NEW c \in Clients, CompareGlobalLayout(c) PROVE Works'
  <2>1. ClientWork([at |-> "collect", todo |-> {}]) /\ ClientWork(Rest)
    BY Visits DEF ClientWork
  <2> QED BY <1>7, <2>1, GoesWorks, LayoutsAssumption DEF CompareGlobalLayout
<1>8. ASSUME NEW c \in Clients, ResyncAll(c) PROVE Works'
  <2>1. {d \in Displays : display[d].on} \subseteq Displays
    OBVIOUS
  <2> QED BY <1>8, <2>1, Visits, GoesWorks, LayoutsAssumption DEF ResyncAll
<1>9. ASSUME NEW c \in Clients, ApplyRelink(c) PROVE Works'
  <2>1. work[c] \in Overriding
    BY <1>9, WorkAt DEF ApplyRelink
  <2>2. PICK d \in work[c].next : Goes(c, Syncs({d})) \/ Goes(c, Rest)
    BY <1>9 DEF ApplyRelink
  <2>3. {d} \subseteq Displays
    BY <2>1 DEF Overriding
  <2> QED BY <2>2, <2>3, Visits, GoesWorks, LayoutsAssumption
<1>10. ASSUME NEW c \in Clients, NEW r \in Renderers, NEW prefs, SetWallpaperLayout(c, r, prefs)
       PROVE  Works'
  <2>1. AudienceToTell(r) \subseteq Displays
    BY AudienceType
  <2> QED BY <1>10, <2>1, Visits, GoesWorks, LayoutsAssumption DEF SetWallpaperLayout
<1>11. ASSUME NEW c \in Clients, NEW r \in Renderers, NEW prefs, NEW d \in Displays,
              Apply(c, r, {d}, prefs)
       PROVE  Works'
  <2> DEFINE w == [at |-> "override", todo |-> AudienceToTell(r), next |-> {d}, renderer |-> r]
  <2>1. w \in Overriding
    BY AudienceType DEF Overriding
  <2>2. Goes(c, w)
    BY <1>11 DEF Apply
  <2> HIDE DEF w
  <2> QED BY <2>1, <2>2, GoesWorks, LayoutsAssumption DEF ClientWork
<1>12. ASSUME NEW d \in Displays, Migrate(d) PROVE Works'
  BY <1>12, GoesWorks, LayoutsAssumption DEF Migrate, DisplayWork
<1>13. ASSUME NEW d \in Displays, Register(d) PROVE Works'
  <2>1. {d} \subseteq Displays
    OBVIOUS
  <2> QED BY <1>13, <2>1, Visits, GoesWorks DEF Register
<1>14. ASSUME NEW d \in Displays, NEW size, Resize(d, size) PROVE Works'
  <2>1. {d} \subseteq Displays
    OBVIOUS
  <2> QED BY <1>14, <2>1, Visits, GoesWorks DEF Resize
<1>15. ASSUME NEW r \in Renderers, UnregisterRenderer(r) \/ OnRendererBind(r) PROVE Works'
  <2>1. AudienceOf(r) \subseteq Displays
    BY AudienceType
  <2> QED BY <1>15, <2>1, Visits, GoesWorks DEF UnregisterRenderer, OnRendererBind
<1>16. ASSUME NEW r \in Renderers, ReadColour(r) PROVE Works'
  <2> DEFINE w == [at |-> "colour", todo |-> {}, colour |-> handle[r].colour]
  <2>1. RendererWork(w)
    BY DEF RendererWork, Handle
  <2>2. Goes(r, w)
    BY <1>16 DEF ReadColour
  <2> HIDE DEF w
  <2> QED BY <2>1, <2>2, GoesWorks, LayoutsAssumption
<1>17. ASSUME NEW r \in Renderers, WriteColour(r) PROVE Works'
  <2> DEFINE ds == {links[i].display : i \in {j \in byRenderer[r] \cap DOMAIN links :
                                                links[j].geometry # work[r].colour}}
  <2>1. ds \subseteq Displays
    BY DEF TableInv, TypeOK, Link
  <2>2. Goes(r, Resyncs(ds))
    BY <1>17 DEF WriteColour
  <2> HIDE DEF ds
  <2> QED BY <2>1, <2>2, Visits, GoesWorks
<1>18. CASE work' = work
  BY <1>18 DEF Works, ClientWork, DisplayWork, RendererWork, StoringFor, SettingsKey, Or
<1>19. \/ \E c \in Clients, d \in Displays : \E on \in BOOLEAN : StoreOther(c, d, on)
       \/ \E d \in Displays : Unregister(d)
       \/ \E r \in Renderers : RegisterRenderer(r)
       \/ \E r \in Renderers, tex \in Pictures : BindBuffers(r, tex)
       \/ \E r \in Renderers, colour \in Geometries : ReportState(r, colour)
       => work' = work
  BY DEF StoreOther, Unregister, RegisterRenderer, BindBuffers, ReportState
<1> QED
  BY <1>1, <1>2, <1>3, <1>4, <1>5, <1>6, <1>7, <1>8, <1>9, <1>10, <1>11, <1>12, <1>13, <1>14,
     <1>15, <1>16, <1>17, <1>18, <1>19 DEF LayoutNext

-----------------------------------------------------------------------------
(* on_renderer_state_changed writes the colour of many links at once; the  *)
(* other tasks use the table's own operations.                             *)

LEMMA ColourEffect ==
  ASSUME TableInv, NEW r \in Renderers, WriteColour(r), work[r].colour \in Geometries
  PROVE  /\ TableInv' /\ UNCHANGED <<nextLinkId, renderers, byDisplay, byRenderer>>
         /\ DOMAIN links' = DOMAIN links
         /\ \A i \in DOMAIN links : /\ links'[i].display = links[i].display
                                    /\ links'[i].renderer = links[i].renderer
<1>1. UNCHANGED <<nextLinkId, renderers, byDisplay, byRenderer>> /\ DOMAIN links' = DOMAIN links
  BY DEF WriteColour
<1>2. ASSUME NEW i \in DOMAIN links
      PROVE  /\ links'[i] \in Link /\ links'[i].display = links[i].display
             /\ links'[i].renderer = links[i].renderer
  <2>1. links[i] \in Link
    BY DEF TableInv, TypeOK
  <2>2. links'[i] = links[i] \/ links'[i] = [links[i] EXCEPT !.geometry = work[r].colour]
    BY DEF WriteColour
  <2> QED BY <2>1, <2>2 DEF Link
<1>3. links' \in [DOMAIN links' -> Link]
  <2>1. links' = [i \in DOMAIN links |-> links'[i]]
    BY DEF WriteColour
  <2> QED BY <1>1, <1>2, <2>1
<1>4. TypeOK'
  BY <1>1, <1>3 DEF TableInv, TypeOK, LinkIds
<1>5. IdsIssued' /\ IndexesAgree' /\ OneLinkPerDisplay'
  BY <1>1, <1>2 DEF TableInv, IdsIssued, IndexesAgree, OneLinkPerDisplay
<1> QED BY <1>1, <1>2, <1>4, <1>5 DEF TableInv

LEMMA TableUse ==
  ASSUME Works, TableInv, LayoutNext
  PROVE  \/ UNCHANGED vars
         \/ \E r \in Renderers, d \in Displays : AddLink(r, d)
         \/ \E d \in Displays : RemoveDisplay(d)
         \/ \E r \in Renderers : AddRenderer(r) \/ RemoveRenderer(r)
         \/ \E r \in Renderers : WriteColour(r) /\ work[r].colour \in Geometries
<1> USE DEF Tasks
<1>1. ASSUME NEW c \in Clients, ApplyRelink(c)
      PROVE  UNCHANGED vars \/ \E r \in Renderers, d \in Displays : AddLink(r, d)
  <2>1. work[c] \in Overriding
    BY <1>1, WorkAt DEF ApplyRelink
  <2>2. work[c].renderer \in Renderers /\ work[c].next \subseteq Displays
    BY <2>1 DEF Overriding
  <2> QED BY <1>1, <2>2 DEF ApplyRelink
<1>2. ASSUME NEW d \in Displays, Register(d)
      PROVE  UNCHANGED vars \/ \E r \in Renderers : AddLink(r, d)
  BY <1>2 DEF Register, TableInv, TypeOK
<1>3. ASSUME NEW r \in Renderers, WriteColour(r) PROVE work[r].colour \in Geometries
  BY <1>3, WorkAt DEF WriteColour
<1>4. CASE \E t \in Tasks, d \in Displays : ResyncDisplay(t, d) \/ SyncDisplay(t, d)
  BY <1>4 DEF ResyncDisplay, SyncDisplay
<1>5. CASE \E c \in Clients, d \in Displays :
             \/ \E edit \in DisplayEdits : AskDisplayLayout(c, d, edit)
             \/ \E on \in BOOLEAN : StoreOther(c, d, on)
             \/ ApplyResync(c, d)
  BY <1>5 DEF AskDisplayLayout, StoreOther, ApplyResync
<1>6. CASE \E c \in Clients, edit \in GlobalEdits : AskGlobalLayout(c, edit)
  BY <1>6 DEF AskGlobalLayout
<1>7. CASE \E c \in Clients : StoreDisplayLayout(c) \/ StoreGlobalLayout(c)
                                \/ CompareGlobalLayout(c) \/ ResyncAll(c)
  BY <1>7 DEF StoreDisplayLayout, StoreGlobalLayout, CompareGlobalLayout, ResyncAll
<1>8. CASE \E c \in Clients, r \in Renderers, prefs \in WallpaperEdits :
             \/ SetWallpaperLayout(c, r, prefs)
             \/ \E d \in Displays : Apply(c, r, {d}, prefs)
  BY <1>8 DEF SetWallpaperLayout, Apply
<1>9. CASE \E d \in Displays : Migrate(d) \/ Unregister(d)
  BY <1>9 DEF Migrate, Unregister
<1>10. CASE \E d \in Displays, size \in Sizes : Resize(d, size)
  BY <1>10 DEF Resize
<1>11. CASE \E r \in Renderers : RegisterRenderer(r) \/ UnregisterRenderer(r)
                                   \/ OnRendererBind(r) \/ ReadColour(r)
  BY <1>11 DEF RegisterRenderer, UnregisterRenderer, OnRendererBind, ReadColour
<1>12. CASE \/ \E r \in Renderers, tex \in Pictures : BindBuffers(r, tex)
            \/ \E r \in Renderers, colour \in Geometries : ReportState(r, colour)
  BY <1>12 DEF BindBuffers, ReportState
<1>13. CASE \/ \E c \in Clients : ApplyRelink(c)
            \/ \E d \in Displays : Register(d)
            \/ \E r \in Renderers : WriteColour(r)
  <2>2. CASE \E c \in Clients : ApplyRelink(c)
    BY <1>1, <2>2
  <2>3. CASE \E d \in Displays : Register(d)
    BY <1>2, <2>3
  <2>4. CASE \E r \in Renderers : WriteColour(r)
    BY <1>3, <2>4
  <2> QED BY <1>13, <2>2, <2>3, <2>4
<1> QED
  BY <1>4, <1>5, <1>6, <1>7, <1>8, <1>9, <1>10, <1>11, <1>12, <1>13 DEF LayoutNext

LEMMA ChangesKeepTable ==
  ASSUME Works, TableInv, LayoutNext
  PROVE  /\ TableInv'
         /\ [Next]_vars \/ (UNCHANGED Abstract!vars /\ renderers' = renderers)
<1>0. TableInv' => RouteFacts'
  BY RouteFactsHold, PTL
<1>1. CASE \E r \in Renderers : WriteColour(r) /\ work[r].colour \in Geometries
  <2>1. PICK r \in Renderers : WriteColour(r) /\ work[r].colour \in Geometries
    BY <1>1
  <2>2. /\ TableInv' /\ UNCHANGED <<nextLinkId, renderers, byDisplay, byRenderer>>
        /\ DOMAIN links' = DOMAIN links
        /\ \A i \in DOMAIN links : /\ links'[i].display = links[i].display
                                   /\ links'[i].renderer = links[i].renderer
    BY <2>1, ColourEffect
  <2>3. ASSUME NEW d \in Displays PROVE RouteOf(d)' = RouteOf(d)
    <3>1. RouteFacts /\ RouteFacts'
      BY <1>0, <2>2, RouteFactsHold
    <3>2. CASE \E i \in DOMAIN links : links[i].display = d
      <4>1. PICK i \in DOMAIN links : links[i].display = d
        BY <3>2
      <4>2. RouteOf(d) = links[i].renderer
        BY <3>1, <4>1 DEF RouteFacts
      <4>3. RouteOf(d)' = links'[i].renderer
        <5>1. i \in DOMAIN links' /\ links'[i].display = d
          BY <2>2, <4>1
        <5>2. \A j \in DOMAIN links' : RouteOf(links[j].display)' = links'[j].renderer
          BY <3>1 DEF RouteFacts
        <5> QED BY <2>2, <4>1, <5>1, <5>2
      <4> QED BY <2>2, <4>2, <4>3
    <3>3. CASE \A i \in DOMAIN links : links[i].display # d
      <4>1. \A i \in DOMAIN links' : links'[i].display # d
        BY <2>2, <3>3
      <4> QED BY <3>1, <3>3, <4>1 DEF RouteFacts
    <3> QED BY <3>2, <3>3
  <2> QED BY <2>2, <2>3 DEF Abstract!vars
<1>2. CASE ~\E r \in Renderers : WriteColour(r) /\ work[r].colour \in Geometries
  <2>1. [Next]_vars
    BY <1>2, TableUse DEF Next
  <2> QED BY <2>1, TableInvStep
<1> QED BY <1>1, <1>2


\* A display's record, replaced.
Only(d, x) ==
  DOMAIN display' = Displays /\ display'[d] = x
  /\ \A e \in Displays \ {d} : display'[e] = display[e]

LEMMA NewState ==
  ASSUME DisplaysOK, NEW d \in Displays, NEW x, State(x), Only(d, x)
  PROVE  DisplaysOK'
<1>1. DOMAIN display' = Displays /\ \A e \in Displays : State(display'[e])
  BY DEF DisplaysOK, Only
<1>2. DisplaysOK' <=> DOMAIN display' = Displays /\ \A e \in Displays : State(display'[e])
  BY DEF DisplaysOK, State
<1> QED BY <1>1, <1>2

LEMMA StateTypes ==
  ASSUME DisplaysOK, NEW d \in Displays
  PROVE  /\ display[d].on \in BOOLEAN /\ display[d].size \in Nat \X Nat
         /\ display[d].renderer \in Renderers \cup {NoRenderer} /\ display[d].gen \in Nat
<1>0. PICK on \in BOOLEAN, size \in Nat \X Nat, r \in Renderers \cup {NoRenderer}, gen \in Nat :
        \E cfg : display[d] = Rec(on, size, r, gen, cfg)
  BY DEF DisplaysOK, State
<1>1. PICK cfg : display[d] = Rec(on, size, r, gen, cfg)
  BY <1>0
<1> QED BY <1>1 DEF Rec

\* What an EXCEPT changes of a record, and what it keeps.
Showing(x, cfg) == [x EXCEPT !.shown = cfg]
Sized(x, size) == [x EXCEPT !.size = size]
Unbound(x) == [x EXCEPT !.renderer = NoRenderer, !.gen = 0]
Bound(x, r, gen, cfg) == [x EXCEPT !.renderer = r, !.gen = gen, !.shown = cfg]

LEMMA RecType ==
  ASSUME NEW on \in BOOLEAN, NEW size \in Nat \X Nat, NEW r \in Renderers \cup {NoRenderer},
         NEW gen \in Nat, NEW cfg
  PROVE  LET y == Rec(on, size, r, gen, cfg) IN
         /\ State(y) /\ y.on = on /\ y.size = size /\ y.renderer = r
         /\ y.gen = gen /\ y.shown = cfg
BY DEF State, Rec

LEMMA ShowingIs ==
  ASSUME NEW x, State(x), NEW cfg, NEW y, y = Showing(x, cfg)
  PROVE  /\ State(y) /\ y.on = x.on /\ y.size = x.size /\ y.renderer = x.renderer
         /\ y.gen = x.gen /\ y.shown = cfg
<1>0. PICK on \in BOOLEAN, size \in Nat \X Nat, r \in Renderers \cup {NoRenderer}, gen \in Nat :
        \E old : x = Rec(on, size, r, gen, old)
  BY DEF State
<1>1. PICK old : x = Rec(on, size, r, gen, old)
  BY <1>0
<1>2. y = Rec(on, size, r, gen, cfg)
  BY <1>1 DEF Rec, Showing
<1>3. /\ x.on = on /\ x.size = size /\ x.renderer = r /\ x.gen = gen
  BY <1>1, RecType
<1>4. /\ State(y) /\ y.on = on /\ y.size = size /\ y.renderer = r /\ y.gen = gen /\ y.shown = cfg
  BY <1>2, RecType
<1> QED BY <1>3, <1>4

LEMMA SizedIs ==
  ASSUME NEW x, State(x), NEW size \in Nat \X Nat, NEW y, y = Sized(x, size)
  PROVE  /\ State(y) /\ y.on = x.on /\ y.size = size /\ y.renderer = x.renderer
         /\ y.gen = x.gen /\ y.shown = x.shown
<1>0. PICK on \in BOOLEAN, s \in Nat \X Nat, r \in Renderers \cup {NoRenderer}, gen \in Nat :
        \E old : x = Rec(on, s, r, gen, old)
  BY DEF State
<1>1. PICK old : x = Rec(on, s, r, gen, old)
  BY <1>0
<1>2. y = Rec(on, size, r, gen, old)
  BY <1>1 DEF Rec, Sized
<1>3. /\ x.on = on /\ x.renderer = r /\ x.gen = gen /\ x.shown = old
  BY <1>1, RecType
<1>4. /\ State(y) /\ y.on = on /\ y.size = size /\ y.renderer = r /\ y.gen = gen /\ y.shown = old
  BY <1>2, RecType
<1> QED BY <1>3, <1>4

LEMMA UnboundIs ==
  ASSUME NEW x, State(x), NEW y, y = Unbound(x)
  PROVE  State(y) /\ y.on = x.on /\ y.renderer = NoRenderer
<1>0. PICK on \in BOOLEAN, size \in Nat \X Nat, r \in Renderers \cup {NoRenderer}, gen \in Nat :
        \E old : x = Rec(on, size, r, gen, old)
  BY DEF State
<1>1. PICK old : x = Rec(on, size, r, gen, old)
  BY <1>0
<1>2. [x EXCEPT !.renderer = NoRenderer] = Rec(on, size, NoRenderer, gen, old)
  BY <1>1 DEF Rec
<1>3. [Rec(on, size, NoRenderer, gen, old) EXCEPT !.gen = 0] = Rec(on, size, NoRenderer, 0, old)
  BY DEF Rec
<1>4. y = Rec(on, size, NoRenderer, 0, old)
  BY <1>2, <1>3 DEF Unbound
<1>5. x.on = on
  BY <1>1, RecType
<1>6. State(y) /\ y.on = on /\ y.renderer = NoRenderer
  BY <1>4, RecType
<1> QED BY <1>5, <1>6

LEMMA BoundIs ==
  ASSUME NEW x, State(x), NEW r \in Renderers, NEW gen \in Nat, NEW cfg, NEW y,
         y = Bound(x, r, gen, cfg)
  PROVE  /\ State(y) /\ y.on = x.on /\ y.size = x.size /\ y.renderer = r
         /\ y.gen = gen /\ y.shown = cfg
<1>0. PICK on \in BOOLEAN, size \in Nat \X Nat, q \in Renderers \cup {NoRenderer}, g \in Nat :
        \E old : x = Rec(on, size, q, g, old)
  BY DEF State
<1>1. PICK old : x = Rec(on, size, q, g, old)
  BY <1>0
<1>2. [x EXCEPT !.renderer = r] = Rec(on, size, r, g, old)
  BY <1>1 DEF Rec
<1>3. [Rec(on, size, r, g, old) EXCEPT !.gen = gen] = Rec(on, size, r, gen, old)
  BY DEF Rec
<1>4. [Rec(on, size, r, gen, old) EXCEPT !.shown = cfg] = Rec(on, size, r, gen, cfg)
  BY DEF Rec
<1>5. y = Rec(on, size, r, gen, cfg)
  BY <1>2, <1>3, <1>4 DEF Bound
<1>6. x.on = on /\ x.size = size
  BY <1>1, RecType
<1>7. /\ State(y) /\ y.on = on /\ y.size = size /\ y.renderer = r /\ y.gen = gen /\ y.shown = cfg
  BY <1>5, RecType
<1> QED BY <1>6, <1>7

-----------------------------------------------------------------------------
(* What each step does to a display.                                       *)

LEMMA SameDisplays == ASSUME DisplaysOK, display' = display PROVE DisplaysOK'
BY DEF DisplaysOK, State

\* A new SetConfig, for a display that has something to draw.
LEMMA TellEffect ==
  ASSUME DisplaysOK, NEW d \in Displays,
         display' = IF display[d].on /\ Bindable(d) # {}
                    THEN [display EXCEPT ![d].shown = Wanted(d, CHOOSE l \in Bindable(d) : TRUE)]
                    ELSE display
  PROVE  /\ DisplaysOK'
         /\ \A e \in Displays \ {d} : display'[e] = display[e]
         /\ display'[d].on = display[d].on /\ display'[d].size = display[d].size
         /\ display'[d].renderer = display[d].renderer /\ display'[d].gen = display[d].gen
         /\ display[d].on /\ Bindable(d) # {} =>
              display'[d].shown = Wanted(d, CHOOSE l \in Bindable(d) : TRUE)
<1>1. CASE display[d].on /\ Bindable(d) # {}
  <2>1. PICK cfg : cfg = Wanted(d, CHOOSE l \in Bindable(d) : TRUE)
    OBVIOUS
  <2>2. PICK x : x = Showing(display[d], cfg)
    OBVIOUS
  <2>3. display' = [display EXCEPT ![d].shown = cfg]
    BY <1>1, <2>1
  <2>4. Only(d, x)
    BY <2>2, <2>3 DEF Only, DisplaysOK, Showing
  <2>5. State(display[d])
    BY DEF DisplaysOK
  <2>6. /\ State(x) /\ x.on = display[d].on /\ x.size = display[d].size
        /\ x.renderer = display[d].renderer /\ x.gen = display[d].gen /\ x.shown = cfg
    BY <2>2, <2>5, ShowingIs
  <2>7. DisplaysOK'
    BY <2>4, <2>6, NewState
  <2> QED BY <2>1, <2>4, <2>6, <2>7 DEF Only
<1>2. CASE ~(display[d].on /\ Bindable(d) # {})
  <2>1. display' = display
    BY <1>2
  <2>2. DisplaysOK'
    BY <2>1, SameDisplays
  <2> QED BY <1>2, <2>1, <2>2
<1> QED BY <1>1, <1>2

\* sync_display takes a display off its pool when its link has none ...
LEMMA UnbindEffect ==
  ASSUME DisplaysOK, NEW d \in Displays, Bindable(d) = {}, display' = Synced(d)
  PROVE  /\ DisplaysOK'
         /\ \A e \in Displays \ {d} : display'[e] = display[e]
         /\ display'[d].on = display[d].on /\ display'[d].renderer = NoRenderer
<1>1. PICK x : x = Unbound(display[d])
  OBVIOUS
<1>2. display' = [display EXCEPT ![d].renderer = NoRenderer, ![d].gen = 0]
  BY DEF Synced
<1>3. Only(d, x)
  BY <1>1, <1>2 DEF Only, DisplaysOK, Unbound
<1>4. State(display[d])
  BY DEF DisplaysOK
<1>5. State(x) /\ x.on = display[d].on /\ x.renderer = NoRenderer
  BY <1>1, <1>4, UnboundIs
<1>6. DisplaysOK'
  BY <1>3, <1>5, NewState
<1> QED BY <1>3, <1>5, <1>6 DEF Only

\* ... leaves it alone when it is bound to its link's pool, and binds it else.
LEMMA BindEffect ==
  ASSUME DisplaysOK, handle \in [Renderers -> Handle], NEW d \in Displays, Bindable(d) # {},
         NEW l, l = (CHOOSE k \in Bindable(d) : TRUE), l.renderer \in Renderers,
         display' = Synced(d)
  PROVE  /\ DisplaysOK'
         /\ \A e \in Displays \ {d} : display'[e] = display[e]
         /\ display'[d].on = display[d].on /\ display'[d].size = display[d].size
         /\ display'[d].renderer = l.renderer
         /\ display'[d].gen = handle[l.renderer].pool.gen
         /\ \/ display'[d] = display[d]
            \/ display'[d].shown = Wanted(d, l)
<1>1. PICK gen \in Nat : gen = handle[l.renderer].pool.gen
  BY DEF Handle, Pool
<1>2. CASE display[d].renderer = l.renderer /\ display[d].gen = gen
  <2>1. display' = display
    BY <1>1, <1>2 DEF Synced
  <2>2. DisplaysOK'
    BY <2>1, SameDisplays
  <2> QED BY <1>1, <1>2, <2>1, <2>2
<1>3. CASE ~(display[d].renderer = l.renderer /\ display[d].gen = gen)
  <2>1. PICK r \in Renderers : r = l.renderer
    OBVIOUS
  <2>2. PICK cfg : cfg = Wanted(d, l)
    OBVIOUS
  <2>3. PICK x : x = Bound(display[d], r, gen, cfg)
    OBVIOUS
  <2>4. display' = [display EXCEPT ![d].renderer = r, ![d].gen = gen, ![d].shown = cfg]
    BY <1>1, <1>3, <2>1, <2>2 DEF Synced
  <2>5. Only(d, x)
    BY <2>3, <2>4 DEF Only, DisplaysOK, Bound
  <2>6. State(display[d])
    BY DEF DisplaysOK
  <2>7. /\ State(x) /\ x.on = display[d].on /\ x.size = display[d].size
        /\ x.renderer = r /\ x.gen = gen /\ x.shown = cfg
    BY <2>3, <2>6, BoundIs
  <2>8. DisplaysOK'
    BY <2>5, <2>7, NewState
  <2> QED BY <1>1, <2>1, <2>2, <2>5, <2>7, <2>8 DEF Only
<1> QED BY <1>2, <1>3

LEMMA RegisterEffect ==
  ASSUME DisplaysOK, NEW d \in Displays,
         display' = [display EXCEPT ![d] = [Gone EXCEPT !.on = TRUE, !.size = FirstSize[d]]]
  PROVE  /\ DisplaysOK'
         /\ \A e \in Displays \ {d} : display'[e] = display[e]
         /\ display'[d].on = TRUE /\ display'[d].renderer = NoRenderer
<1>1. ASSUME NEW a, NEW b PROVE [Rec(a, <<0, 0>>, NoRenderer, 0, Unset) EXCEPT !.on = b]
                                      = Rec(b, <<0, 0>>, NoRenderer, 0, Unset)
  BY DEF Rec
<1>2. ASSUME NEW a, NEW b, NEW size
      PROVE  [Rec(a, b, NoRenderer, 0, Unset) EXCEPT !.size = size] = Rec(a, size, NoRenderer, 0, Unset)
  BY DEF Rec
<1>3. Gone = Rec(FALSE, <<0, 0>>, NoRenderer, 0, Unset)
  BY DEF Gone, Rec
<1>4. PICK x : x = [Gone EXCEPT !.on = TRUE, !.size = FirstSize[d]]
  OBVIOUS
<1>5. x = Rec(TRUE, FirstSize[d], NoRenderer, 0, Unset)
  <2>1. [Gone EXCEPT !.on = TRUE] = Rec(TRUE, <<0, 0>>, NoRenderer, 0, Unset)
    BY <1>1, <1>3
  <2>2. [Rec(TRUE, <<0, 0>>, NoRenderer, 0, Unset) EXCEPT !.size = FirstSize[d]]
          = Rec(TRUE, FirstSize[d], NoRenderer, 0, Unset)
    BY <1>2
  <2> QED BY <1>4, <2>1, <2>2
<1>6. FirstSize[d] \in Nat \X Nat
  BY LayoutsAssumption
<1>7. State(x) /\ x.on = TRUE /\ x.renderer = NoRenderer
  BY <1>5, <1>6 DEF Rec, State
<1>8. Only(d, x)
  BY <1>4 DEF Only, DisplaysOK
<1>9. DisplaysOK'
  BY <1>7, <1>8, NewState
<1> QED BY <1>7, <1>8, <1>9 DEF Only

LEMMA UnregisterEffect ==
  ASSUME DisplaysOK, NEW d \in Displays, display' = [display EXCEPT ![d] = Gone]
  PROVE  /\ DisplaysOK'
         /\ \A e \in Displays \ {d} : display'[e] = display[e]
         /\ display'[d].on = FALSE /\ display'[d].renderer = NoRenderer
<1>1. Gone = Rec(FALSE, <<0, 0>>, NoRenderer, 0, Unset)
  BY DEF Gone, Rec
<1>2. <<0, 0>> \in Nat \X Nat
  OBVIOUS
<1>3. State(Gone)
  BY <1>1, <1>2 DEF State
<1>4. Only(d, Gone)
  BY DEF Only, DisplaysOK
<1>5. DisplaysOK'
  BY <1>3, <1>4, NewState
<1> QED BY <1>4, <1>5 DEF Only, Gone

LEMMA ResizeEffect ==
  ASSUME DisplaysOK, NEW d \in Displays, NEW size \in Nat \X Nat,
         display' = [display EXCEPT ![d].size = size]
  PROVE  /\ DisplaysOK'
         /\ \A e \in Displays \ {d} : display'[e] = display[e]
         /\ display'[d].on = display[d].on /\ display'[d].renderer = display[d].renderer
         /\ display'[d].gen = display[d].gen
<1>1. PICK x : x = Sized(display[d], size)
  OBVIOUS
<1>2. Only(d, x)
  BY <1>1 DEF Only, DisplaysOK, Sized
<1>3. State(display[d])
  BY DEF DisplaysOK
<1>4. /\ State(x) /\ x.on = display[d].on /\ x.renderer = display[d].renderer
      /\ x.gen = display[d].gen
  BY <1>1, <1>3, SizedIs
<1>5. DisplaysOK'
  BY <1>2, <1>4, NewState
<1> QED BY <1>2, <1>4, <1>5 DEF Only

-----------------------------------------------------------------------------
(* The types of what the tasks share.                                      *)

LEMMA EditedType ==
  ASSUME NEW prefs \in Prefs, NEW edit \in Edits
  PROVE  Edited(prefs, edit) \in Prefs
<1>1. DOMAIN prefs = {"fillmode", "location", "rotation"}
  BY DEF Prefs
<1>2. PICK e : e = Edited(prefs, edit)
  OBVIOUS
<1>3. e = [fillmode |-> e.fillmode, location |-> e.location, rotation |-> e.rotation]
  BY <1>1, <1>2 DEF Edited
<1>4. /\ prefs.fillmode \in FillModes \cup {Unset} /\ prefs.location \in Locations \cup {Unset}
      /\ prefs.rotation \in Rotations \cup {Unset}
  BY DEF Prefs
<1>5. /\ edit.fillmode \in FillModes \cup {Unset, "clear"}
      /\ edit.location \in Locations \cup {Unset, "clear"}
      /\ edit.rotation \in Rotations \cup {Unset, "clear"}
  BY DEF Edits
<1>6. e.fillmode \in FillModes \cup {Unset}
  BY <1>1, <1>2, <1>4, <1>5 DEF Edited, Or
<1>7. e.location \in Locations \cup {Unset}
  BY <1>1, <1>2, <1>4, <1>5 DEF Edited, Or
<1>8. e.rotation \in Rotations \cup {Unset}
  BY <1>1, <1>2, <1>4, <1>5 DEF Edited, Or
<1> QED BY <1>2, <1>3, <1>6, <1>7, <1>8 DEF Prefs

LEMMA EntryTypes ==
  /\ NoEntry \in Entry
  /\ \A e \in Entry \cup {Unset} : Or(e, NoEntry) \in Entry
  /\ \A e \in Entry : Stored(e) \in Entry \cup {Unset}
  /\ \A e \in Entry, edit \in Edits : [e EXCEPT !.prefs = Edited(@, edit)] \in Entry
  /\ \A e \in Entry, on \in BOOLEAN : /\ [e EXCEPT !.other = on] \in Entry
                                      /\ [e EXCEPT !.other = on].prefs = e.prefs
<1>1. NoPrefs \in Prefs
  BY DEF NoPrefs, Prefs
<1>2. NoEntry \in Entry
  BY <1>1 DEF NoEntry, Entry
<1>3. ASSUME NEW e \in Entry, NEW edit \in Edits
      PROVE  [e EXCEPT !.prefs = Edited(@, edit)] \in Entry
  <2>1. e.prefs \in Prefs
    BY DEF Entry
  <2>2. PICK p \in Prefs : p = Edited(e.prefs, edit)
    BY <2>1, EditedType
  <2>3. [e EXCEPT !.prefs = p] \in Entry
    BY DEF Entry
  <2> QED BY <2>2, <2>3
<1>4. ASSUME NEW e \in Entry, NEW on \in BOOLEAN
      PROVE  [e EXCEPT !.other = on] \in Entry /\ [e EXCEPT !.other = on].prefs = e.prefs
  BY DEF Entry
<1> QED BY <1>2, <1>3, <1>4 DEF Or, Stored

\* The keys of the settings file.
LEMMA KeyTypes ==
  ASSUME NEW d \in Displays
  PROVE  Name[d] \in Keys /\ SettingsKey(d) \in Keys /\ (InstanceId[d] # Unset => InstanceId[d] \in Keys)
BY DEF Keys, SettingsKey, Or

HandleOK == handle \in [Renderers -> Handle]

LEMMA HandleStep ==
  ASSUME HandleOK, LayoutNext
  PROVE  HandleOK'
<1>1. CASE handle' = handle
  BY <1>1 DEF HandleOK
<1>2. ASSUME NEW r \in Renderers, UnregisterRenderer(r) PROVE HandleOK'
  BY <1>2 DEF UnregisterRenderer, HandleOK, Handle
<1>3. ASSUME NEW r \in Renderers, NEW tex \in Pictures, BindBuffers(r, tex) PROVE HandleOK'
  <2>1. tex \in Nat \X Nat
    BY ProjectionAssumption DEF Pictures
  <2>2. [gen |-> handle[r].pool.gen + 1, tex |-> tex] \in Pool
    BY <2>1 DEF HandleOK, Handle, Pool
  <2> QED BY <1>3, <2>2 DEF BindBuffers, HandleOK, Handle
<1>4. ASSUME NEW r \in Renderers, NEW colour \in Geometries, ReportState(r, colour) PROVE HandleOK'
  BY <1>4 DEF ReportState, HandleOK, Handle
<1>5. ASSUME NEW r \in Renderers, OnRendererBind(r) PROVE HandleOK'
  BY <1>5 DEF OnRendererBind, HandleOK, Handle
<1>6. ASSUME NEW r \in Renderers, ReadColour(r) PROVE HandleOK'
  BY <1>6 DEF ReadColour, HandleOK, Handle
<1>7. \/ \E t \in Tasks, d \in Displays : ResyncDisplay(t, d) \/ SyncDisplay(t, d)
      \/ \E c \in Clients, d \in Displays :
           \/ \E edit \in DisplayEdits : AskDisplayLayout(c, d, edit)
           \/ \E on \in BOOLEAN : StoreOther(c, d, on)
           \/ ApplyResync(c, d)
      \/ \E c \in Clients, edit \in GlobalEdits : AskGlobalLayout(c, edit)
      \/ \E c \in Clients :
           \/ StoreDisplayLayout(c) \/ StoreGlobalLayout(c) \/ CompareGlobalLayout(c)
           \/ ResyncAll(c) \/ ApplyRelink(c)
      => handle' = handle
  BY DEF ResyncDisplay, SyncDisplay, AskDisplayLayout, StoreOther, ApplyResync, AskGlobalLayout,
     StoreDisplayLayout, StoreGlobalLayout, CompareGlobalLayout, ResyncAll, ApplyRelink
<1>8. \/ \E c \in Clients, r \in Renderers, prefs \in WallpaperEdits :
           \/ SetWallpaperLayout(c, r, prefs)
           \/ \E d \in Displays : Apply(c, r, {d}, prefs)
      \/ \E d \in Displays : Migrate(d) \/ Register(d) \/ Unregister(d)
      \/ \E d \in Displays, size \in Sizes : Resize(d, size)
      \/ \E r \in Renderers : RegisterRenderer(r) \/ WriteColour(r)
      => handle' = handle
  BY DEF SetWallpaperLayout, Apply, Overridden, Migrate, Register, Unregister, Resize,
     RegisterRenderer, WriteColour
<1> QED BY <1>1, <1>2, <1>3, <1>4, <1>5, <1>6, <1>7, <1>8 DEF LayoutNext

\* The settings change in three ways.
EntriesOK == entries \in [Keys -> Entry \cup {Unset}]
LEMMA EntriesStep ==
  ASSUME EntriesOK, Works, LayoutNext
  PROVE  EntriesOK'
<1>1. CASE entries' = entries
  BY <1>1 DEF EntriesOK
<1>2. ASSUME NEW c \in Clients, StoreDisplayLayout(c) PROVE EntriesOK'
  <2>1. PICK d \in Displays, edit \in DisplayEdits : work[c] = StoringFor(d, edit)
    BY <1>2, WorkAt DEF StoreDisplayLayout, Tasks
  <2>2. work[c].key \in Keys /\ work[c].edit \in Edits
    BY <2>1, KeyTypes, LayoutsAssumption DEF StoringFor
  <2>3. PICK k \in Keys : k = work[c].key
    BY <2>2
  <2>4. Or(entries[k], NoEntry) \in Entry
    BY EntryTypes DEF EntriesOK
  <2>5. PICK e \in Entry \cup {Unset} :
          e = Stored([Or(entries[k], NoEntry) EXCEPT !.prefs = Edited(@, work[c].edit)])
    BY <2>2, <2>4, EntryTypes
  <2>6. entries' = [entries EXCEPT ![k] = e]
    BY <1>2, <2>3, <2>5 DEF StoreDisplayLayout
  <2> QED BY <2>6 DEF EntriesOK
<1>3. ASSUME NEW c \in Clients, NEW d \in Displays, NEW on \in BOOLEAN, StoreOther(c, d, on)
      PROVE  EntriesOK'
  <2>3. PICK k \in Keys : k = SettingsKey(d)
    BY KeyTypes
  <2>4. Or(entries[k], NoEntry) \in Entry
    BY EntryTypes DEF EntriesOK
  <2>5. PICK e \in Entry \cup {Unset} : e = Stored([Or(entries[k], NoEntry) EXCEPT !.other = on])
    BY <2>4, EntryTypes
  <2>6. entries' = [entries EXCEPT ![k] = e]
    BY <1>3, <2>3, <2>5 DEF StoreOther
  <2> QED BY <2>6 DEF EntriesOK
<1>4. ASSUME NEW d \in Displays, Migrate(d) PROVE EntriesOK'
  BY <1>4, KeyTypes DEF Migrate, EntriesOK
<1>7. \/ \E t \in Tasks, d \in Displays : ResyncDisplay(t, d) \/ SyncDisplay(t, d)
      \/ \E c \in Clients, d \in Displays :
           \/ \E edit \in DisplayEdits : AskDisplayLayout(c, d, edit)
           \/ ApplyResync(c, d)
      \/ \E c \in Clients, edit \in GlobalEdits : AskGlobalLayout(c, edit)
      \/ \E c \in Clients :
           \/ StoreGlobalLayout(c) \/ CompareGlobalLayout(c)
           \/ ResyncAll(c) \/ ApplyRelink(c)
      => entries' = entries
  BY DEF ResyncDisplay, SyncDisplay, AskDisplayLayout, ApplyResync, AskGlobalLayout,
     StoreGlobalLayout, CompareGlobalLayout, ResyncAll, ApplyRelink
<1>8. \/ \E c \in Clients, r \in Renderers, prefs \in WallpaperEdits :
           \/ SetWallpaperLayout(c, r, prefs)
           \/ \E d \in Displays : Apply(c, r, {d}, prefs)
      \/ \E d \in Displays : Register(d) \/ Unregister(d)
      \/ \E d \in Displays, size \in Sizes : Resize(d, size)
      \/ \E r \in Renderers :
           \/ RegisterRenderer(r) \/ UnregisterRenderer(r)
           \/ OnRendererBind(r) \/ ReadColour(r) \/ WriteColour(r)
      \/ \E r \in Renderers, tex \in Pictures : BindBuffers(r, tex)
      \/ \E r \in Renderers, colour \in Geometries : ReportState(r, colour)
      => entries' = entries
  BY DEF SetWallpaperLayout, Apply, Overridden, Register, Unregister, Resize,
     RegisterRenderer, UnregisterRenderer, OnRendererBind, ReadColour, WriteColour,
     BindBuffers, ReportState
<1> QED BY <1>1, <1>2, <1>3, <1>4, <1>7, <1>8 DEF LayoutNext

LEMMA OverridesStep ==
  ASSUME DOMAIN overrides = Renderers, LayoutNext
  PROVE  DOMAIN overrides' = Renderers
<1>1. CASE overrides' = overrides
  BY <1>1
<1>2. ASSUME NEW r \in Renderers, NEW prefs, Overridden(r, prefs) PROVE DOMAIN overrides' = Renderers
  BY <1>2 DEF Overridden
<1>3. ASSUME NEW r \in Renderers, UnregisterRenderer(r) PROVE DOMAIN overrides' = Renderers
  BY <1>3 DEF UnregisterRenderer
<1>7. \/ \E t \in Tasks, d \in Displays : ResyncDisplay(t, d) \/ SyncDisplay(t, d)
      \/ \E c \in Clients, d \in Displays :
           \/ \E edit \in DisplayEdits : AskDisplayLayout(c, d, edit)
           \/ \E on \in BOOLEAN : StoreOther(c, d, on)
           \/ ApplyResync(c, d)
      \/ \E c \in Clients, edit \in GlobalEdits : AskGlobalLayout(c, edit)
      \/ \E c \in Clients :
           \/ StoreDisplayLayout(c) \/ StoreGlobalLayout(c) \/ CompareGlobalLayout(c)
           \/ ResyncAll(c) \/ ApplyRelink(c)
      => overrides' = overrides
  BY DEF ResyncDisplay, SyncDisplay, AskDisplayLayout, StoreOther, ApplyResync, AskGlobalLayout,
     StoreDisplayLayout, StoreGlobalLayout, CompareGlobalLayout, ResyncAll, ApplyRelink
<1>8. \/ \E d \in Displays : Migrate(d) \/ Register(d) \/ Unregister(d)
      \/ \E d \in Displays, size \in Sizes : Resize(d, size)
      \/ \E r \in Renderers : RegisterRenderer(r) \/ OnRendererBind(r) \/ ReadColour(r)
                                \/ WriteColour(r)
      \/ \E r \in Renderers, tex \in Pictures : BindBuffers(r, tex)
      \/ \E r \in Renderers, colour \in Geometries : ReportState(r, colour)
      => overrides' = overrides
  BY DEF Migrate, Register, Unregister, Resize, RegisterRenderer, OnRendererBind, ReadColour,
     WriteColour, BindBuffers, ReportState
<1>9. ASSUME \E c \in Clients, r \in Renderers, prefs \in WallpaperEdits :
               \/ SetWallpaperLayout(c, r, prefs)
               \/ \E d \in Displays : Apply(c, r, {d}, prefs)
      PROVE  DOMAIN overrides' = Renderers
  <2>1. PICK c \in Clients, r \in Renderers, prefs \in WallpaperEdits :
          SetWallpaperLayout(c, r, prefs) \/ \E d \in Displays : Apply(c, r, {d}, prefs)
    BY <1>9
  <2>2. Overridden(r, prefs)
    BY <2>1 DEF SetWallpaperLayout, Apply
  <2> QED BY <1>2, <2>2
<1> QED BY <1>1, <1>3, <1>7, <1>8, <1>9 DEF LayoutNext

LEMMA DisplaysStep ==
  ASSUME DisplaysOK, HandleOK, TableInv, LayoutNext
  PROVE  DisplaysOK'
<1>1. ASSUME NEW t \in Tasks, NEW d \in Displays, ResyncDisplay(t, d) PROVE DisplaysOK'
  BY <1>1, TellEffect DEF ResyncDisplay
<1>2. ASSUME NEW c \in Clients, NEW d \in Displays, ApplyResync(c, d) PROVE DisplaysOK'
  BY <1>2, TellEffect DEF ApplyResync
<1>3. ASSUME NEW t \in Tasks, NEW d \in Displays, SyncDisplay(t, d) PROVE DisplaysOK'
  <2>1. CASE ~display[d].on
    BY <1>3, <2>1, SameDisplays DEF SyncDisplay
  <2>2. CASE display[d].on /\ Bindable(d) = {}
    BY <1>3, <2>2, UnbindEffect DEF SyncDisplay
  <2>3. CASE display[d].on /\ Bindable(d) # {}
    <3>1. PICK l : l = CHOOSE k \in Bindable(d) : TRUE
      OBVIOUS
    <3>2. l \in Bindable(d)
      BY <2>3, <3>1
    <3>3. l.renderer \in Renderers
      BY <3>2 DEF Bindable, TableInv, TypeOK
    <3> QED BY <1>3, <2>3, <3>1, <3>3, BindEffect DEF SyncDisplay, HandleOK
  <2> QED BY <2>1, <2>2, <2>3
<1>4. ASSUME NEW d \in Displays, Register(d) PROVE DisplaysOK'
  BY <1>4, RegisterEffect DEF Register
<1>5. ASSUME NEW d \in Displays, Unregister(d) PROVE DisplaysOK'
  BY <1>5, UnregisterEffect DEF Unregister
<1>6. ASSUME NEW d \in Displays, NEW size \in Sizes, Resize(d, size) PROVE DisplaysOK'
  BY <1>6, ResizeEffect, ProjectionAssumption DEF Resize
<1>7. \/ \E c \in Clients, d \in Displays :
           \/ \E edit \in DisplayEdits : AskDisplayLayout(c, d, edit)
           \/ \E on \in BOOLEAN : StoreOther(c, d, on)
      \/ \E c \in Clients, edit \in GlobalEdits : AskGlobalLayout(c, edit)
      \/ \E c \in Clients :
           \/ StoreDisplayLayout(c) \/ StoreGlobalLayout(c) \/ CompareGlobalLayout(c)
           \/ ResyncAll(c) \/ ApplyRelink(c)
      => display' = display
  BY DEF AskDisplayLayout, StoreOther, AskGlobalLayout,
     StoreDisplayLayout, StoreGlobalLayout, CompareGlobalLayout, ResyncAll, ApplyRelink
<1>8. \/ \E c \in Clients, r \in Renderers, prefs \in WallpaperEdits :
           \/ SetWallpaperLayout(c, r, prefs)
           \/ \E d \in Displays : Apply(c, r, {d}, prefs)
      \/ \E d \in Displays : Migrate(d)
      \/ \E r \in Renderers :
           \/ RegisterRenderer(r) \/ UnregisterRenderer(r)
           \/ OnRendererBind(r) \/ ReadColour(r) \/ WriteColour(r)
      \/ \E r \in Renderers, tex \in Pictures : BindBuffers(r, tex)
      \/ \E r \in Renderers, colour \in Geometries : ReportState(r, colour)
      => display' = display
  BY DEF SetWallpaperLayout, Apply, Overridden, Migrate,
     RegisterRenderer, UnregisterRenderer, OnRendererBind, ReadColour, WriteColour,
     BindBuffers, ReportState
<1>9. display' = display => DisplaysOK'
  BY SameDisplays
<1> QED
  BY <1>1, <1>2, <1>3, <1>4, <1>5, <1>6, <1>7, <1>8, <1>9 DEF LayoutNext

LayoutTypes ==
  EntriesOK /\ DOMAIN overrides = Renderers /\ DisplaysOK /\ HandleOK

LEMMA TypesStep ==
  ASSUME LayoutTypes, Works, TableInv, [LayoutNext]_allVars
  PROVE  LayoutTypes' /\ Works' /\ TableInv'
<1>1. CASE LayoutNext
  <2>1. EntriesOK' /\ DOMAIN overrides' = Renderers
    BY <1>1, EntriesStep, OverridesStep DEF LayoutTypes
  <2>2. DisplaysOK' /\ HandleOK'
    BY <1>1, DisplaysStep, HandleStep DEF LayoutTypes
  <2>3. Works' /\ TableInv'
    BY <1>1, WorksStep, ChangesKeepTable DEF LayoutTypes, HandleOK
  <2> QED BY <2>1, <2>2, <2>3 DEF LayoutTypes
<1>2. CASE UNCHANGED allVars
  <2>0. UNCHANGED vars /\ UNCHANGED <<entries, overrides, display, handle, work>>
    BY <1>2 DEF allVars, layoutVars
  <2>1. TableInv'
    BY <2>0, TableInvStep
  <2>2. Works'
    BY <2>0 DEF Works, ClientWork, DisplayWork, RendererWork, StoringFor, SettingsKey, Or
  <2>3. DisplaysOK'
    BY <2>0, SameDisplays DEF LayoutTypes
  <2> QED BY <2>0, <2>1, <2>2, <2>3 DEF LayoutTypes, EntriesOK, HandleOK
<1> QED BY <1>1, <1>2

LEMMA LayoutInitTypes == LayoutInit => LayoutTypes /\ Works /\ TableInv
<1> SUFFICES ASSUME LayoutInit PROVE LayoutTypes /\ Works /\ TableInv
  OBVIOUS
<1>1. TableInv
  BY TableInvInit DEF LayoutInit
<1>2. Rest \in Plain
  BY DEF Rest, Plain
<1>3. Works
  BY <1>2 DEF LayoutInit, Works, Tasks, ClientWork, DisplayWork, RendererWork
<1>4. EntriesOK /\ DOMAIN overrides = Renderers
  BY LayoutsAssumption DEF LayoutInit, EntriesOK
<1>5. Fresh \in Handle
  BY TableAssumption DEF Fresh, NoPool, Handle, Pool
<1>6. HandleOK
  BY <1>5 DEF LayoutInit, HandleOK
<1>7. State(Gone)
  <2>1. Gone = Rec(FALSE, <<0, 0>>, NoRenderer, 0, Unset)
    BY DEF Gone, Rec
  <2>2. <<0, 0>> \in Nat \X Nat
    OBVIOUS
  <2> QED BY <2>1, <2>2 DEF State
<1>8. DisplaysOK
  BY <1>7 DEF LayoutInit, DisplaysOK
<1> QED BY <1>1, <1>3, <1>4, <1>6, <1>8 DEF LayoutTypes

LEMMA LayoutTypesHold == LayoutSpec => [](LayoutTypes /\ Works /\ TableInv)
<1>1. LayoutTypes /\ Works /\ TableInv /\ [LayoutNext]_allVars => LayoutTypes' /\ Works' /\ TableInv'
  BY TypesStep
<1> QED BY <1>1, LayoutInitTypes, PTL DEF LayoutSpec

(* With every task that changes layouts at work on it, including the one   *)
(* that recolours many links in one hold, the table's indexes still agree  *)
(* with its links (routing/table.rs, router.rs).                           *)
THEOREM LayoutsIndexesAgree == LayoutSpec => []IndexesAgree
<1>1. TableInv => IndexesAgree
  BY DEF TableInv
<1> QED BY <1>1, LayoutTypesHold, PTL

(* ... and the table is still the abstract map of renderers to displays:   *)
(* a change of layout assigns and unassigns nothing.                       *)
THEOREM LayoutsImplementLinkMap == LayoutSpec => ImplementsLinkMap
<1>1. LayoutInit => Abstract!Init
  BY TableInitIsMap DEF LayoutInit
<1>2. TableInv => RouteFacts
  BY RouteFactsHold
<1>3. TableInv /\ RouteFacts /\ TableInv' /\ RouteFacts' /\ Works /\ [LayoutNext]_allVars
        => [Abstract!Next]_(Abstract!vars)
  <2> SUFFICES ASSUME TableInv, RouteFacts, TableInv', RouteFacts', Works, [LayoutNext]_allVars
               PROVE  [Abstract!Next]_(Abstract!vars)
    OBVIOUS
  <2>1. CASE LayoutNext
    <3>1. [Next]_vars \/ UNCHANGED Abstract!vars
      BY <2>1, ChangesKeepTable
    <3> QED BY <3>1, TableStepIsMap
  <2>2. CASE UNCHANGED allVars
    <3>1. UNCHANGED vars
      BY <2>2 DEF allVars
    <3> QED BY <3>1, TableStepIsMap
  <2> QED BY <2>1, <2>2
<1> QED BY <1>1, <1>2, <1>3, LayoutTypesHold, PTL DEF LayoutSpec, ImplementsLinkMap, Abstract!Spec

-----------------------------------------------------------------------------
(* ConfigsAreCurrent.  Who is bound to what, and who will tell: a display  *)
(* that is not bound to its link's pool has a sync ahead of it, and one    *)
(* that is bound but draws an older picture has a resync ahead of it.      *)

Has(d, r) == \E i \in DOMAIN links : links[i].display = d /\ links[i].renderer = r
Binds(d, r) == Has(d, r) /\ r \in renderers /\ handle[r].pool # NoPool

\* The display is bound to the pool of its link, or to none if it has none.
Right(d) ==
  /\ \A r \in Renderers : Binds(d, r) =>
       display[d].renderer = r /\ display[d].gen = handle[r].pool.gen
  /\ (\A r \in Renderers : ~Binds(d, r)) => display[d].renderer = NoRenderer

\* The picture that a SetConfig would show now.
PictureOf(d, r) ==
  Picture(Project(DefaultGeometry, handle[r].pool.tex, display[d].size, LayoutOf(d, r)))
Fits(d) ==
  \A r \in Renderers : Binds(d, r) =>
    HidesLegacy(d) \/ Picture(display[d].shown) = PictureOf(d, r)

Syncing(t, d) == work[t].at = "sync" /\ d \in work[t].todo
ClientSyncs(d) == \E c \in Clients : Syncing(c, d)
SyncComes(d) ==
  \/ ClientSyncs(d)
  \/ Syncing(d, d)
  \/ \E r \in Renderers : Syncing(r, d) /\ (r \in renderers => Has(d, r))
  \/ \E r \in renderers : Has(d, r) /\ handle[r].binds > 0

Visiting(t, d) == work[t].at \in {"resync", "override"} /\ d \in work[t].todo
Deciding(c) == work[c].at = "collect" \/ (work[c].at = "compare" /\ global # work[c].was)
Tells(d) == Visiting(d, d) \/ \E c \in Clients : Visiting(c, d) \/ Deciding(c)

\* A pool that a display was taken off, or will be, is never its own again by
\* itself: it is gone, or there is a newer one, or a client binds another.
Stays(d) ==
  LET r == display[d].renderer
  IN r # NoRenderer =>
       /\ r \in Renderers /\ handle[r].pool # NoPool /\ display[d].gen <= handle[r].pool.gen
       /\ Right(d) \/ r \notin renderers \/ display[d].gen < handle[r].pool.gen \/ ClientSyncs(d)

OffIsFree(d) == ~display[d].on => display[d].renderer = NoRenderer
BoundInTime(d) == display[d].on /\ ~Right(d) => SyncComes(d)
ToldInTime(d) == display[d].on /\ Right(d) /\ ~Fits(d) => Tells(d)

InTime(d) == OffIsFree(d) /\ Stays(d) /\ BoundInTime(d) /\ ToldInTime(d)

\* Between the two readings of the global layout, nobody else writes it.
GlobalKnown == \A c \in Clients : work[c].at = "global" => work[c].was = global

\* One connection asks for changes, and no display's name or key is another's.
OneConnection == \A c, e \in Clients : c = e
KeysApart ==
  \A d \in Displays :
    /\ Name[d] # Unset /\ InstanceId[d] # Name[d]
    /\ \A e \in Displays \ {d} : {Name[d], InstanceId[d]} \cap {Name[e], InstanceId[e]} \subseteq {Unset}

-----------------------------------------------------------------------------
(* The link of a display.                                                  *)

LEMMA HasType == ASSUME TableInv, NEW d, NEW r, Has(d, r) PROVE d \in Displays /\ r \in Renderers
BY DEF TableInv, TypeOK, Link, Has

LEMMA OneRenderer ==
  ASSUME TableInv, NEW d, NEW r, NEW q, Has(d, r), Has(d, q) PROVE r = q
BY DEF TableInv, OneLinkPerDisplay, Has

LEMMA AudienceIs ==
  ASSUME TableInv, NEW r \in Renderers
  PROVE  AudienceOf(r) = {d \in Displays : Has(d, r)}
<1>1. AudienceOf(r) = {links[i].display : i \in {j \in DOMAIN links : links[j].renderer = r}}
  BY DEF TableInv, IndexesAgree, AudienceOf, LinksForRenderer
<1>2. \A i \in DOMAIN links : links[i].display \in Displays
  BY DEF TableInv, TypeOK, Link
<1> QED BY <1>1, <1>2 DEF Has

LEMMA BindableIs ==
  ASSUME TableInv, NEW d \in Displays
  PROVE  /\ \A l \in Bindable(d) : l.renderer \in Renderers /\ Binds(d, l.renderer)
         /\ \A r \in Renderers : Binds(d, r) => \E l \in Bindable(d) : l.renderer = r
<1>1. byDisplay[d] = {i \in DOMAIN links : links[i].display = d}
  BY DEF TableInv, IndexesAgree
<1>2. \A i \in DOMAIN links : links[i].renderer \in Renderers
  BY DEF TableInv, TypeOK, Link
<1>3. LinksForDisplay(d) = {links[i] : i \in {j \in DOMAIN links : links[j].display = d}}
  BY <1>1 DEF LinksForDisplay
<1> QED BY <1>2, <1>3 DEF Bindable, Binds, Has

\* The picture does not depend on the colour around it.
LEMMA PictureIs ==
  ASSUME NEW c, NEW tex, NEW disp, NEW layout, NEW b
  PROVE  Picture(Project(c, tex, disp, layout)) = Picture(Project(b, tex, disp, layout))
<1>1. PICK out : out = Compute(tex, Unturned(disp, layout.rotation), layout)
  OBVIOUS
<1>2. PICK t : t = Transform(layout.rotation)
  OBVIOUS
<1> DEFINE P(x) == [source |-> out.source, dest |-> out.dest, transform |-> t, clear |-> x]
<1>3. Project(c, tex, disp, layout) = P(c) /\ Project(b, tex, disp, layout) = P(b)
  BY <1>1, <1>2 DEF Project
<1>4. ASSUME NEW x
      PROVE  Picture(P(x)) = [part \in {"source", "dest", "transform"} |->
                                IF part = "source" THEN out.source
                                ELSE IF part = "dest" THEN out.dest ELSE t]
  BY DEF Picture
<1> HIDE DEF P
<1> QED BY <1>3, <1>4

LEMMA WantedIs ==
  ASSUME NEW d, NEW l
  PROVE  Picture(Wanted(d, l)) = PictureOf(d, l.renderer)
BY PictureIs DEF Wanted, PictureOf

-----------------------------------------------------------------------------
(* What a step leaves of a display alone.                                  *)

SameRoute(d) ==
  /\ renderers' = renderers
  /\ \A r \in Renderers : (Has(d, r)' <=> Has(d, r)) /\ handle'[r].pool = handle[r].pool
SameSeat(d) ==
  /\ display'[d].on = display[d].on /\ display'[d].renderer = display[d].renderer
  /\ display'[d].gen = display[d].gen
SameSight(d) == display'[d].size = display[d].size /\ display'[d].shown = display[d].shown
SameLayout(d) ==
  /\ HidesLegacy(d)' <=> HidesLegacy(d)
  /\ \A r \in Renderers : Binds(d, r) => LayoutOf(d, r)' = LayoutOf(d, r)
KeepsSyncs(d) ==
  /\ \A t \in Tasks : Syncing(t, d) => Syncing(t, d)'
  /\ \A r \in Renderers : handle[r].binds > 0 => handle'[r].binds > 0
KeepsTells(d) == Tells(d) => Tells(d)'

LEMMA SameRight ==
  ASSUME NEW d \in Displays, TableInv, SameRoute(d), SameSeat(d)
  PROVE  /\ Right(d)' <=> Right(d)
         /\ \A r \in Renderers : Binds(d, r)' <=> Binds(d, r)
<1>1. \A r \in Renderers : Binds(d, r)' <=> Binds(d, r)
  BY DEF SameRoute, Binds
<1> QED BY <1>1 DEF SameRoute, SameSeat, Right

LEMMA ComingKept ==
  ASSUME NEW d \in Displays, TableInv, SameRoute(d), KeepsSyncs(d)
  PROVE  (ClientSyncs(d) => ClientSyncs(d)') /\ (SyncComes(d) => SyncComes(d)')
<1>1. ClientSyncs(d) => ClientSyncs(d)'
  BY DEF ClientSyncs, KeepsSyncs, Tasks
<1>2. Syncing(d, d) => Syncing(d, d)'
  BY DEF KeepsSyncs, Tasks
<1>3. ASSUME NEW r \in Renderers, Syncing(r, d) /\ (r \in renderers => Has(d, r))
      PROVE  SyncComes(d)'
  <2>1. Syncing(r, d)' /\ (r \in renderers' => Has(d, r)')
    BY <1>3 DEF KeepsSyncs, Tasks, SameRoute
  <2> QED BY <2>1 DEF SyncComes
<1>4. ASSUME NEW r \in renderers, Has(d, r) /\ handle[r].binds > 0
      PROVE  SyncComes(d)'
  <2>1. r \in Renderers
    BY <1>4, HasType
  <2>2. r \in renderers' /\ Has(d, r)' /\ handle'[r].binds > 0
    BY <1>4, <2>1 DEF KeepsSyncs, SameRoute
  <2> QED BY <2>2 DEF SyncComes
<1> QED BY <1>1, <1>2, <1>3, <1>4 DEF SyncComes

LEMMA SeatKept ==
  ASSUME NEW d \in Displays, TableInv, SameRoute(d), SameSeat(d), KeepsSyncs(d),
         OffIsFree(d), Stays(d), BoundInTime(d)
  PROVE  OffIsFree(d)' /\ Stays(d)' /\ BoundInTime(d)'
<1>1. Right(d)' <=> Right(d)
  BY SameRight
<1>2. (ClientSyncs(d) => ClientSyncs(d)') /\ (SyncComes(d) => SyncComes(d)')
  BY ComingKept
<1>3. OffIsFree(d)'
  BY DEF SameSeat, OffIsFree
<1>4. Stays(d)'
  BY <1>1, <1>2 DEF SameSeat, SameRoute, Stays
<1>5. BoundInTime(d)'
  BY <1>1, <1>2 DEF SameSeat, BoundInTime
<1> QED BY <1>3, <1>4, <1>5

LEMMA SameFits ==
  ASSUME NEW d \in Displays, TableInv, SameRoute(d), SameSight(d), SameLayout(d)
  PROVE  Fits(d)' <=> Fits(d)
<1>1. ASSUME NEW r \in Renderers PROVE Binds(d, r)' <=> Binds(d, r)
  BY DEF SameRoute, Binds
<1>2. ASSUME NEW r \in Renderers, Binds(d, r) PROVE PictureOf(d, r)' = PictureOf(d, r)
  BY <1>2 DEF SameRoute, SameSight, SameLayout, PictureOf
<1> QED BY <1>1, <1>2 DEF Fits, SameLayout, SameSight

\* A step that has nothing to do with d.
Apart(d) ==
  SameRoute(d) /\ SameSeat(d) /\ SameSight(d) /\ SameLayout(d) /\ KeepsSyncs(d) /\ KeepsTells(d)

LEMMA ApartKeeps ==
  ASSUME NEW d \in Displays, TableInv, Apart(d), InTime(d)
  PROVE  InTime(d)'
<1>1. OffIsFree(d)' /\ Stays(d)' /\ BoundInTime(d)'
  BY SeatKept DEF Apart, InTime
<1>2. (Right(d)' <=> Right(d)) /\ (Fits(d)' <=> Fits(d))
  BY SameRight, SameFits DEF Apart
<1>3. ToldInTime(d)'
  BY <1>2 DEF Apart, InTime, ToldInTime, KeepsTells, SameSeat
<1> QED BY <1>1, <1>3 DEF InTime

-----------------------------------------------------------------------------
(* What a task's next step leaves of the others.                           *)

Sound == LayoutTypes /\ Works /\ TableInv

LEMMA Moved ==
  ASSUME Works, NEW t \in Tasks, NEW w, Goes(t, w)
  PROVE  work'[t] = w /\ \A u \in Tasks \ {t} : work'[u] = work[u]
BY DEF Goes, Works

LEMMA SyncsKept ==
  ASSUME Works, NEW t \in Tasks, NEW w, Goes(t, w), NEW d \in Displays,
         Syncing(t, d) => w.at = "sync" /\ d \in w.todo,
         \A r \in Renderers : handle[r].binds > 0 => handle'[r].binds > 0
  PROVE  KeepsSyncs(d)
BY Moved DEF KeepsSyncs, Syncing

LEMMA TellsKept ==
  ASSUME Works, NEW t \in Tasks, NEW w, Goes(t, w), NEW d \in Displays, global' = global,
         Visiting(t, d) => w.at \in {"resync", "override"} /\ d \in w.todo,
         t \in Clients => ~Deciding(t)
  PROVE  KeepsTells(d)
<1>1. work'[t] = w /\ \A u \in Tasks \ {t} : work'[u] = work[u]
  BY Moved
<1>2. \A u \in Tasks : Visiting(u, d) => Visiting(u, d)'
  BY <1>1 DEF Visiting
<1>3. \A c \in Clients : Deciding(c) => Deciding(c)'
  BY <1>1 DEF Deciding, Tasks
<1> QED BY <1>2, <1>3 DEF KeepsTells, Tells, Tasks

LEMMA WorkIdle ==
  ASSUME work' = work, global' = global, NEW d \in Displays,
         \A r \in Renderers : handle[r].binds > 0 => handle'[r].binds > 0
  PROVE  KeepsSyncs(d) /\ KeepsTells(d)
<1>1. KeepsSyncs(d)
  BY DEF KeepsSyncs, Syncing
<1>2. KeepsTells(d)
  BY DEF KeepsTells, Tells, Visiting, Deciding
<1> QED BY <1>1, <1>2

LEMMA RouteIdle ==
  ASSUME NEW d \in Displays, links' = links, renderers' = renderers,
         \A r \in Renderers : handle'[r].pool = handle[r].pool
  PROVE  SameRoute(d)
BY DEF SameRoute, Has

LEMMA SightIdle ==
  ASSUME NEW d \in Displays, display'[d] = display[d]
  PROVE  SameSeat(d) /\ SameSight(d)
BY DEF SameSeat, SameSight

LEMMA PrefsIdle ==
  ASSUME NEW d \in Displays, global' = global,
         entries'[Name[d]] = entries[Name[d]],
         InstanceId[d] # Unset => entries'[InstanceId[d]] = entries[InstanceId[d]],
         \A r \in Renderers : Binds(d, r) => overrides'[r] = overrides[r]
  PROVE  SameLayout(d)
<1>1. HasEntry(Name[d])' <=> HasEntry(Name[d])
  BY DEF HasEntry
<1>2. HasEntry(InstanceId[d])' <=> HasEntry(InstanceId[d])
  BY DEF HasEntry
<1>3. HidesLegacy(d)' <=> HidesLegacy(d)
  BY <1>1 DEF HidesLegacy
<1>4. EntryOf(d)' = EntryOf(d)
  BY <1>1, <1>2 DEF EntryOf, HasEntry
<1>5. ASSUME NEW r \in Renderers, Binds(d, r) PROVE LayoutOf(d, r)' = LayoutOf(d, r)
  BY <1>4, <1>5 DEF LayoutOf
<1> QED BY <1>3, <1>5 DEF SameLayout

\* A step of one task that reads the settings and the table, or neither.
LEMMA AsideKeeps ==
  ASSUME Sound, NEW t \in Tasks, NEW w, Goes(t, w), NEW d \in Displays, InTime(d),
         UNCHANGED vars, UNCHANGED <<global, entries, overrides, handle>>,
         display'[d] = display[d],
         Syncing(t, d) => w.at = "sync" /\ d \in w.todo,
         Visiting(t, d) => w.at \in {"resync", "override"} /\ d \in w.todo,
         t \in Clients => ~Deciding(t)
  PROVE  InTime(d)'
<1>1. SameRoute(d) /\ SameSeat(d) /\ SameSight(d) /\ SameLayout(d)
  BY RouteIdle, SightIdle, PrefsIdle DEF vars
<1>2. KeepsSyncs(d)
  BY SyncsKept DEF Sound
<1>3. KeepsTells(d)
  BY TellsKept DEF Sound
<1> QED BY <1>1, <1>2, <1>3, ApartKeeps DEF Apart, Sound

LEMMA RestIs == ASSUME NEW t \in Tasks, Resting(t), NEW d \in Displays
                PROVE  ~Syncing(t, d) /\ ~Visiting(t, d) /\ ~Deciding(t)
BY DEF Resting, Rest, Syncing, Visiting, Deciding

LEMMA GoIs ==
  ASSUME NEW ds, NEW d \in ds
  PROVE  /\ Syncs(ds).at = "sync" /\ Syncs(ds).todo = ds
         /\ Resyncs(ds).at = "resync" /\ Resyncs(ds).todo = ds
<1>1. ds # {}
  OBVIOUS
<1> QED BY <1>1 DEF Syncs, Resyncs

-----------------------------------------------------------------------------
(* The steps that tell a display.                                          *)

\* A display that was told draws what is wanted now.
LEMMA ToldFits ==
  ASSUME Sound, NEW d \in Displays, InTime(d),
         UNCHANGED vars, UNCHANGED <<global, entries, overrides, handle>>,
         display' = IF display[d].on /\ Bindable(d) # {}
                    THEN [display EXCEPT ![d].shown = Wanted(d, CHOOSE l \in Bindable(d) : TRUE)]
                    ELSE display
  PROVE  /\ SameRoute(d) /\ SameSeat(d)
         /\ display'[d].on => Fits(d)'
         /\ \A e \in Displays \ {d} : display'[e] = display[e]
<1>1. /\ \A e \in Displays \ {d} : display'[e] = display[e]
      /\ display'[d].on = display[d].on /\ display'[d].size = display[d].size
      /\ display'[d].renderer = display[d].renderer /\ display'[d].gen = display[d].gen
      /\ display[d].on /\ Bindable(d) # {} =>
           display'[d].shown = Wanted(d, CHOOSE l \in Bindable(d) : TRUE)
  BY TellEffect DEF Sound, LayoutTypes
<1>2. SameRoute(d)
  BY RouteIdle DEF vars
<1>3. SameSeat(d)
  BY <1>1 DEF SameSeat
<1>4. ASSUME display'[d].on, NEW r \in Renderers, Binds(d, r)'
      PROVE  Picture(display'[d].shown) = PictureOf(d, r)'
  <2>1. Binds(d, r)
    BY <1>2, <1>3, <1>4, SameRight DEF Sound
  <2>2. PICK l : l = CHOOSE k \in Bindable(d) : TRUE
    OBVIOUS
  <2>3. l \in Bindable(d)
    BY <2>1, <2>2, BindableIs DEF Sound
  <2>4. l.renderer = r
    BY <2>1, <2>3, BindableIs, OneRenderer DEF Sound, Binds
  <2>5. display'[d].shown = Wanted(d, l)
    BY <1>1, <1>4, <2>2, <2>3
  <2>6. Picture(display'[d].shown) = PictureOf(d, r)
    BY <2>4, <2>5, WantedIs
  <2>7. SameLayout(d)
    BY PrefsIdle
  <2>8. LayoutOf(d, r)' = LayoutOf(d, r)
    BY <2>1, <2>7 DEF SameLayout
  <2>9. PictureOf(d, r)' = PictureOf(d, r)
    BY <1>1, <2>8 DEF PictureOf
  <2> QED BY <2>6, <2>9
<1>5. display'[d].on => Fits(d)'
  BY <1>4 DEF Fits
<1> QED BY <1>1, <1>2, <1>3, <1>5

LEMMA TellKeeps ==
  ASSUME Sound, NEW t \in Tasks, NEW w, Goes(t, w), NEW e \in Displays, NEW d \in Displays,
         InTime(d), InTime(e), work[t].at \in {"resync", "override"}, ~Deciding(t),
         UNCHANGED vars, UNCHANGED <<global, entries, overrides, handle>>,
         display' = IF display[e].on /\ Bindable(e) # {}
                    THEN [display EXCEPT ![e].shown = Wanted(e, CHOOSE l \in Bindable(e) : TRUE)]
                    ELSE display,
         d # e => (Visiting(t, d) => w.at \in {"resync", "override"} /\ d \in w.todo)
  PROVE  InTime(d)'
<1>1. /\ SameRoute(e) /\ SameSeat(e)
      /\ display'[e].on => Fits(e)'
      /\ \A f \in Displays \ {e} : display'[f] = display[f]
  BY ToldFits
<1>2. ~Syncing(t, d)
  BY DEF Syncing
<1>3. CASE d = e
  <2>1. KeepsSyncs(d)
    BY <1>2, SyncsKept DEF Sound
  <2>2. OffIsFree(d)' /\ Stays(d)' /\ BoundInTime(d)'
    BY <1>1, <1>3, <2>1, SeatKept DEF Sound, InTime
  <2>3. ToldInTime(d)'
    BY <1>1, <1>3 DEF ToldInTime
  <2> QED BY <2>2, <2>3 DEF InTime
<1>4. CASE d # e
  <2>1. display'[d] = display[d]
    BY <1>1, <1>4
  <2> QED BY <1>2, <1>4, <2>1, AsideKeeps
<1> QED BY <1>3, <1>4

LEMMA ResyncKeeps ==
  ASSUME Sound, NEW t \in Tasks, NEW e \in Displays, NEW d \in Displays, InTime(d), InTime(e),
         ResyncDisplay(t, e)
  PROVE  InTime(d)'
<1>1. Goes(t, Resyncs(work[t].todo \ {e})) /\ work[t].at = "resync"
  BY DEF ResyncDisplay
<1>2. ~Deciding(t)
  BY <1>1 DEF Deciding
<1>3. ASSUME d # e, Visiting(t, d)
      PROVE  Resyncs(work[t].todo \ {e}).at = "resync" /\ d \in Resyncs(work[t].todo \ {e}).todo
  <2>1. d \in work[t].todo \ {e}
    BY <1>3 DEF Visiting
  <2> QED BY <2>1, GoIs
<1> QED BY <1>1, <1>2, <1>3, TellKeeps DEF ResyncDisplay

LEMMA ApplyResyncKeeps ==
  ASSUME Sound, NEW c \in Clients, NEW e \in Displays, NEW d \in Displays, InTime(d), InTime(e),
         ApplyResync(c, e)
  PROVE  InTime(d)'
<1>1. PICK w : w = [work[c] EXCEPT !.todo = @ \ {e}]
  OBVIOUS
<1>2. c \in Tasks /\ Goes(c, w) /\ work[c].at = "override"
  BY <1>1 DEF ApplyResync, Tasks
<1>3. w.at = "override" /\ w.todo = work[c].todo \ {e}
  BY <1>1, <1>2, WorkAt DEF Sound, Overriding
<1>4. ~Deciding(c)
  BY <1>2 DEF Deciding
<1>5. d # e => (Visiting(c, d) => w.at \in {"resync", "override"} /\ d \in w.todo)
  BY <1>3 DEF Visiting
<1> QED BY <1>2, <1>4, <1>5, TellKeeps DEF ApplyResync

-----------------------------------------------------------------------------
(* The steps that bind.                                                    *)

LEMMA SyncKeeps ==
  ASSUME Sound, NEW t \in Tasks, NEW e \in Displays, NEW d \in Displays, InTime(d), InTime(e),
         SyncDisplay(t, e)
  PROVE  InTime(d)'
<1>1. PICK w : w = Syncs(work[t].todo \ {e})
  OBVIOUS
<1>2. /\ Goes(t, w) /\ work[t].at = "sync"
      /\ UNCHANGED vars /\ UNCHANGED <<global, entries, overrides, handle>>
      /\ display' = IF display[e].on THEN Synced(e) ELSE display
  BY <1>1 DEF SyncDisplay
<1>3. ~Deciding(t) /\ ~Visiting(t, d)
  BY <1>2 DEF Deciding, Visiting
<1>4. ASSUME d # e, Syncing(t, d) PROVE w.at = "sync" /\ d \in w.todo
  <2>1. d \in work[t].todo \ {e}
    BY <1>4 DEF Syncing
  <2> QED BY <1>1, <2>1, GoIs
<1>5. CASE d # e
  <2>1. display'[d] = display[d]
    <3>1. CASE ~display[e].on
      BY <1>2, <3>1
    <3>2. CASE display[e].on /\ Bindable(e) = {}
      BY <1>2, <1>5, <3>2, UnbindEffect DEF Sound, LayoutTypes
    <3>3. CASE display[e].on /\ Bindable(e) # {}
      <4>1. PICK l : l = CHOOSE k \in Bindable(e) : TRUE
        OBVIOUS
      <4>2. l.renderer \in Renderers
        BY <3>3, <4>1, BindableIs DEF Sound
      <4> QED BY <1>2, <1>5, <3>3, <4>1, <4>2, BindEffect DEF Sound, LayoutTypes, HandleOK
    <3> QED BY <3>1, <3>2, <3>3
  <2> QED BY <1>2, <1>3, <1>4, <1>5, <2>1, AsideKeeps
<1>6. CASE d = e /\ ~display[d].on
  <2>1. display' = display /\ display[d].renderer = NoRenderer
    BY <1>2, <1>6 DEF InTime, OffIsFree
  <2> QED BY <1>6, <2>1 DEF InTime, OffIsFree, Stays, BoundInTime, ToldInTime
<1>7. SameRoute(d) /\ \A r \in Renderers : Binds(d, r)' <=> Binds(d, r)
  <2>1. SameRoute(d)
    BY <1>2, RouteIdle DEF vars
  <2> QED BY <2>1 DEF SameRoute, Binds
<1>8. CASE d = e /\ display[d].on /\ Bindable(d) = {}
  <2>1. display'[d].on /\ display'[d].renderer = NoRenderer
    BY <1>2, <1>8, UnbindEffect DEF Sound, LayoutTypes
  <2>2. \A r \in Renderers : ~Binds(d, r)
    BY <1>8, BindableIs DEF Sound
  <2>3. Right(d)' /\ Fits(d)'
    BY <1>7, <2>1, <2>2 DEF Right, Fits
  <2> QED BY <2>1, <2>3 DEF InTime, OffIsFree, Stays, BoundInTime, ToldInTime
<1>9. CASE d = e /\ display[d].on /\ Bindable(d) # {}
  <2>1. PICK l : l = CHOOSE k \in Bindable(d) : TRUE
    OBVIOUS
  <2>2. PICK r \in Renderers : r = l.renderer /\ Binds(d, r)
    BY <1>9, <2>1, BindableIs DEF Sound
  <2>3. \A q \in Renderers : Binds(d, q) => q = r
    BY <2>2, OneRenderer DEF Sound, Binds
  <2>4. /\ display'[d].on = display[d].on /\ display'[d].size = display[d].size
        /\ display'[d].renderer = r /\ display'[d].gen = handle[r].pool.gen
        /\ display'[d] = display[d] \/ display'[d].shown = Wanted(d, l)
    BY <1>2, <1>9, <2>1, <2>2, BindEffect DEF Sound, LayoutTypes, HandleOK
  <2>5. Right(d)'
    BY <1>2, <1>7, <2>2, <2>3, <2>4 DEF Right
  <2>6. OffIsFree(d)' /\ BoundInTime(d)'
    BY <1>9, <2>4, <2>5 DEF OffIsFree, BoundInTime
  <2>7. Stays(d)'
    <3>1. handle[r].pool.gen \in Nat /\ handle[r].pool # NoPool
      BY <2>2 DEF Sound, LayoutTypes, HandleOK, Handle, Pool, Binds
    <3> QED BY <1>2, <2>4, <2>5, <3>1 DEF Stays
  <2>8. ToldInTime(d)'
    <3>1. CASE display'[d] = display[d]
      <4>1. Right(d)
        BY <2>2, <2>3, <2>4, <3>1 DEF Right
      <4>2. SameLayout(d) /\ SameSight(d) /\ SameSeat(d)
        BY <1>2, <3>1, PrefsIdle, SightIdle
      <4>3. Fits(d)' <=> Fits(d)
        BY <1>7, <4>2, SameFits DEF Sound
      <4>4. KeepsTells(d)
        BY <1>2, <1>3, TellsKept DEF Sound
      <4> QED BY <1>9, <4>1, <4>3, <4>4 DEF InTime, ToldInTime, KeepsTells
    <3>2. CASE display'[d].shown = Wanted(d, l)
      <4>1. Picture(display'[d].shown) = PictureOf(d, r)
        BY <2>2, <3>2, WantedIs
      <4>2. SameLayout(d)
        BY <1>2, PrefsIdle
      <4>3. PictureOf(d, r)' = PictureOf(d, r)
        BY <1>2, <2>2, <2>4, <4>2 DEF PictureOf, SameLayout
      <4>4. \A q \in Renderers : Binds(d, q)' => q = r
        BY <1>7, <2>3
      <4>5. Fits(d)'
        BY <4>1, <4>3, <4>4 DEF Fits
      <4> QED BY <4>5 DEF ToldInTime
    <3> QED BY <2>4, <3>1, <3>2
  <2> QED BY <2>6, <2>7, <2>8 DEF InTime
<1> QED BY <1>5, <1>6, <1>8, <1>9

-----------------------------------------------------------------------------
(* The table's operations, one display at a time.                          *)

LEMMA AddLinkEffect ==
  ASSUME TableInv, NEW r \in Renderers, NEW e \in Displays, AddLink(r, e)
  PROVE  /\ renderers' = renderers
         /\ \A q : Has(e, q)' <=> q = r
         /\ \A d \in Displays \ {e} : \A q : Has(d, q)' <=> Has(d, q)
<1> DEFINE id == nextLinkId + 1
<1>1. /\ id \notin DOMAIN links
      /\ byDisplay[e] = {i \in DOMAIN links : links[i].display = e}
      /\ DOMAIN links' = (DOMAIN links \ byDisplay[e]) \cup {id}
      /\ links'[id].display = e /\ links'[id].renderer = r
      /\ \A i \in DOMAIN links \ byDisplay[e] : links'[i] = links[i]
  BY DEF AddLink, TableInv, IndexesAgree, IdsIssued, TypeOK
<1> HIDE DEF id
<1>2. renderers' = renderers
  BY DEF AddLink
<1>3. ASSUME NEW q PROVE Has(e, q)' <=> q = r
  BY <1>1 DEF Has
<1>4. ASSUME NEW d \in Displays \ {e}, NEW q PROVE Has(d, q)' <=> Has(d, q)
  BY <1>1 DEF Has
<1> QED BY <1>2, <1>3, <1>4

LEMMA RemoveDisplayEffect ==
  ASSUME TableInv, NEW e \in Displays, RemoveDisplay(e)
  PROVE  /\ renderers' = renderers
         /\ \A d \in Displays \ {e} : \A q : Has(d, q)' <=> Has(d, q)
<1>1. /\ byDisplay[e] = {i \in DOMAIN links : links[i].display = e}
      /\ DOMAIN links' = DOMAIN links \ byDisplay[e]
      /\ \A i \in DOMAIN links \ byDisplay[e] : links'[i] = links[i]
  BY DEF RemoveDisplay, LinksWithout, TableInv, IndexesAgree
<1>2. renderers' = renderers
  BY DEF RemoveDisplay
<1>3. ASSUME NEW d \in Displays \ {e}, NEW q PROVE Has(d, q)' <=> Has(d, q)
  BY <1>1 DEF Has
<1> QED BY <1>2, <1>3

LEMMA RemoveRendererEffect ==
  ASSUME TableInv, NEW r \in Renderers, RemoveRenderer(r)
  PROVE  /\ renderers' = renderers \ {r}
         /\ \A d, q : Has(d, q)' <=> Has(d, q) /\ q # r
<1>1. /\ byRenderer[r] = {i \in DOMAIN links : links[i].renderer = r}
      /\ DOMAIN links' = DOMAIN links \ byRenderer[r]
      /\ \A i \in DOMAIN links \ byRenderer[r] : links'[i] = links[i]
  BY DEF RemoveRenderer, LinksWithout, TableInv, IndexesAgree
<1>2. renderers' = renderers \ {r}
  BY DEF RemoveRenderer
<1>3. ASSUME NEW d, NEW q PROVE Has(d, q)' <=> Has(d, q) /\ q # r
  BY <1>1 DEF Has
<1> QED BY <1>2, <1>3

LEMMA ColourKeepsHas ==
  ASSUME TableInv, NEW r \in Renderers, WriteColour(r), work[r].colour \in Geometries
  PROVE  renderers' = renderers /\ \A d, q : Has(d, q)' <=> Has(d, q)
<1>1. /\ renderers' = renderers /\ DOMAIN links' = DOMAIN links
      /\ \A i \in DOMAIN links : /\ links'[i].display = links[i].display
                                 /\ links'[i].renderer = links[i].renderer
  BY ColourEffect
<1> QED BY <1>1 DEF Has

-----------------------------------------------------------------------------
(* The requests that change settings.                                      *)

LEMMA AskKeeps ==
  ASSUME Sound, NEW c \in Clients, NEW d \in Displays, InTime(d),
         \/ \E e \in Displays : \E edit : AskDisplayLayout(c, e, edit)
         \/ \E edit : AskGlobalLayout(c, edit)
  PROVE  InTime(d)'
<1>1. /\ Resting(c) /\ UNCHANGED vars /\ UNCHANGED <<global, entries, overrides, handle>>
      /\ display' = display /\ \E w : Goes(c, w)
  BY DEF AskDisplayLayout, AskGlobalLayout
<1>2. PICK w : Goes(c, w)
  BY <1>1
<1>3. c \in Tasks
  BY DEF Tasks
<1>4. ~Syncing(c, d) /\ ~Visiting(c, d) /\ ~Deciding(c)
  BY <1>1, <1>3, RestIs
<1> QED BY <1>1, <1>2, <1>3, <1>4, AsideKeeps

LEMMA KeyApart ==
  ASSUME KeysApart, NEW d \in Displays, NEW e \in Displays, d # e
  PROVE  /\ SettingsKey(e) # Name[d] /\ SettingsKey(e) # InstanceId[d]
         /\ InstanceId[e] # Unset => InstanceId[e] \notin {Name[d], InstanceId[d]}
<1>1. {Name[e], InstanceId[e]} \cap {Name[d], InstanceId[d]} \subseteq {Unset}
  BY DEF KeysApart
<1>2. \A k \in {Name[e], InstanceId[e]} : k # Unset => k \notin {Name[d], InstanceId[d]}
  BY <1>1
<1>3. SettingsKey(e) \in {Name[e], InstanceId[e]} /\ SettingsKey(e) # Unset
  BY DEF KeysApart, SettingsKey, Or
<1>4. SettingsKey(e) \notin {Name[d], InstanceId[d]}
  BY <1>2, <1>3
<1>5. InstanceId[e] # Unset => InstanceId[e] \notin {Name[d], InstanceId[d]}
  BY <1>2
<1> QED BY <1>4, <1>5

LEMMA StoreDisplayKeeps ==
  ASSUME Sound, KeysApart, NEW c \in Clients, NEW d \in Displays, InTime(d), StoreDisplayLayout(c)
  PROVE  InTime(d)'
<1>1. c \in Tasks /\ work[c].at = "store"
  BY DEF StoreDisplayLayout, Tasks
<1>2. PICK e \in Displays, edit \in DisplayEdits : work[c] = StoringFor(e, edit)
  BY <1>1, WorkAt DEF Sound
<1>3. work[c].todo = {e} /\ work[c].key = SettingsKey(e)
  BY <1>2 DEF StoringFor
<1>4. PICK w : w = Resyncs({e})
  OBVIOUS
<1>5. Goes(c, w) /\ w.at = "resync" /\ w.todo = {e}
  BY <1>3, <1>4, GoIs DEF StoreDisplayLayout
<1>6. ~Syncing(c, d) /\ ~Visiting(c, d) /\ ~Deciding(c)
  BY <1>1 DEF Syncing, Visiting, Deciding
<1>7. UNCHANGED vars /\ UNCHANGED <<global, overrides, display, handle>>
  BY DEF StoreDisplayLayout
<1>8. SameRoute(d) /\ SameSeat(d) /\ SameSight(d)
  BY <1>7, RouteIdle, SightIdle DEF vars
<1>9. KeepsSyncs(d)
  BY <1>1, <1>5, <1>6, <1>7, SyncsKept DEF Sound
<1>10. CASE d = e
  <2>1. OffIsFree(d)' /\ Stays(d)' /\ BoundInTime(d)'
    BY <1>8, <1>9, SeatKept DEF Sound, InTime
  <2>2. Visiting(c, d)'
    BY <1>1, <1>5, <1>10, Moved DEF Visiting, Sound
  <2> QED BY <2>1, <2>2 DEF InTime, ToldInTime, Tells
<1>11. CASE d # e
  <2>1. PICK k \in Keys : k = SettingsKey(e)
    BY KeyTypes
  <2>2. \A j \in Keys \ {k} : entries'[j] = entries[j]
    BY <1>3, <2>1 DEF StoreDisplayLayout, Sound, LayoutTypes, EntriesOK
  <2>3. k # Name[d] /\ k # InstanceId[d]
    BY <1>11, <2>1, KeyApart
  <2>4. SameLayout(d)
    BY <1>7, <2>2, <2>3, KeyTypes, PrefsIdle
  <2>5. KeepsTells(d)
    BY <1>1, <1>5, <1>6, <1>7, TellsKept DEF Sound
  <2> QED BY <1>8, <1>9, <2>4, <2>5, ApartKeeps DEF Apart, Sound
<1> QED BY <1>10, <1>11

\* An entry that nothing hides is what the display resolves.
LEMMA EntryIs ==
  ASSUME NEW d \in Displays, KeysApart, ~HidesLegacy(d)
  PROVE  EntryOf(d) = Or(entries[SettingsKey(d)], NoEntry)
BY DEF KeysApart, HidesLegacy, EntryOf, HasEntry, SettingsKey, Or

LEMMA StoreOtherKeeps ==
  ASSUME Sound, KeysApart, NEW c \in Clients, NEW e \in Displays, NEW on \in BOOLEAN,
         NEW d \in Displays, InTime(d), StoreOther(c, e, on)
  PROVE  InTime(d)'
<1>1. UNCHANGED vars /\ UNCHANGED <<global, overrides, display, handle, work>>
  BY DEF StoreOther
<1>2. SameRoute(d) /\ SameSeat(d) /\ SameSight(d)
  BY <1>1, RouteIdle, SightIdle DEF vars
<1>3. KeepsSyncs(d) /\ KeepsTells(d)
  BY <1>1, WorkIdle
<1>4. PICK k \in Keys : k = SettingsKey(e)
  BY KeyTypes
<1>5. PICK old \in Entry : old = Or(entries[k], NoEntry)
  BY EntryTypes DEF Sound, LayoutTypes, EntriesOK
<1>6. PICK new \in Entry : new = [old EXCEPT !.other = on] /\ new.prefs = old.prefs
  BY EntryTypes
<1>7. entries' = [entries EXCEPT ![k] = Stored(new)]
  BY <1>4, <1>5, <1>6 DEF StoreOther
<1>8. \A j \in Keys \ {k} : entries'[j] = entries[j]
  BY <1>7 DEF Sound, LayoutTypes, EntriesOK
<1>9. CASE d # e
  <2>1. k # Name[d] /\ k # InstanceId[d]
    BY <1>4, <1>9, KeyApart
  <2>2. SameLayout(d)
    BY <1>1, <1>8, <2>1, KeyTypes, PrefsIdle
  <2> QED BY <1>2, <1>3, <2>2, ApartKeeps DEF Apart, Sound
<1>10. CASE d = e
  <2>1. HidesLegacy(d)' <=> HidesLegacy(d)
    <3>1. CASE InstanceId[d] = Unset
      BY <3>1 DEF HidesLegacy
    <3>2. CASE InstanceId[d] # Unset
      <4>1. k = InstanceId[d] /\ Name[d] # k /\ Name[d] \in Keys
        BY <1>4, <1>10, <3>2, KeyTypes DEF SettingsKey, Or, KeysApart
      <4>2. entries'[Name[d]] = entries[Name[d]]
        BY <1>8, <4>1
      <4> QED BY <4>2 DEF HidesLegacy, HasEntry
    <3> QED BY <3>1, <3>2
  <2>2. OffIsFree(d)' /\ Stays(d)' /\ BoundInTime(d)'
    BY <1>2, <1>3, SeatKept DEF Sound, InTime
  <2>3. Fits(d) => Fits(d)'
    <3>1. CASE HidesLegacy(d)
      BY <2>1, <3>1 DEF Fits
    <3>2. CASE ~HidesLegacy(d)
      <4>1. EntryOf(d) = old
        BY <1>4, <1>5, <1>10, <3>2, EntryIs
      <4>2. EntryOf(d)' = Or(entries'[k], NoEntry)
        <5>1. ~HidesLegacy(d)'
          BY <2>1, <3>2
        <5>2. (~HidesLegacy(d) /\ KeysApart => EntryOf(d) = Or(entries[SettingsKey(d)], NoEntry))'
          BY DEF KeysApart, HidesLegacy, EntryOf, HasEntry, SettingsKey, Or
        <5>3. KeysApart'
          BY DEF KeysApart
        <5> QED BY <1>4, <1>10, <5>1, <5>2, <5>3 DEF SettingsKey, Or
      <4>3. entries'[k] = Stored(new)
        BY <1>7 DEF Sound, LayoutTypes, EntriesOK
      <4>4. Or(Stored(new), NoEntry) = new
        BY LayoutsAssumption DEF Or, Stored
      <4>5. EntryOf(d)'.prefs = EntryOf(d).prefs
        BY <1>6, <4>1, <4>2, <4>3, <4>4
      <4>6. \A r \in Renderers : LayoutOf(d, r)' = LayoutOf(d, r)
        BY <1>1, <4>5 DEF LayoutOf
      <4>7. SameLayout(d)
        BY <2>1, <4>6 DEF SameLayout
      <4> QED BY <1>2, <4>7, SameFits DEF Sound
    <3> QED BY <3>1, <3>2
  <2>4. Right(d)' <=> Right(d)
    BY <1>2, SameRight DEF Sound
  <2>5. ToldInTime(d)'
    BY <1>2, <1>3, <2>3, <2>4 DEF InTime, ToldInTime, KeepsTells, SameSeat
  <2> QED BY <2>2, <2>5 DEF InTime
<1> QED BY <1>9, <1>10

\* The one connection is the only one that may be between two readings.
LEMMA AloneTells ==
  ASSUME OneConnection, NEW c \in Clients, NEW d \in Displays, ~Visiting(c, d), ~Deciding(c), Tells(d)
  PROVE  Visiting(d, d)
BY DEF OneConnection, Tells

LEMMA StoreGlobalKeeps ==
  ASSUME Sound, OneConnection, GlobalKnown, NEW c \in Clients, NEW d \in Displays, InTime(d),
         StoreGlobalLayout(c)
  PROVE  InTime(d)'
<1>1. c \in Tasks /\ d \in Tasks /\ d # c
  BY LayoutsAssumption DEF Tasks
<1>2. PICK w : w = [at |-> "compare", todo |-> {}, was |-> work[c].was]
  OBVIOUS
<1>3. /\ work[c].at = "global" /\ Goes(c, w) /\ w.at = "compare" /\ w.was = global
      /\ UNCHANGED vars /\ UNCHANGED <<entries, overrides, display, handle>>
  BY <1>2 DEF StoreGlobalLayout, GlobalKnown
<1>4. ~Syncing(c, d) /\ ~Visiting(c, d) /\ ~Deciding(c)
  BY <1>3 DEF Syncing, Visiting, Deciding
<1>5. SameRoute(d) /\ SameSeat(d) /\ SameSight(d)
  BY <1>3, RouteIdle, SightIdle DEF vars
<1>6. KeepsSyncs(d)
  BY <1>1, <1>3, <1>4, SyncsKept DEF Sound
<1>7. OffIsFree(d)' /\ Stays(d)' /\ BoundInTime(d)'
  BY <1>5, <1>6, SeatKept DEF Sound, InTime
<1>8. work'[c] = w /\ work'[d] = work[d]
  BY <1>1, <1>3, Moved DEF Sound
<1>9. CASE global' = global
  <2>1. SameLayout(d)
    BY <1>3, <1>9, PrefsIdle
  <2>2. KeepsTells(d)
    <3>1. Tells(d) => Visiting(d, d)
      BY <1>4, AloneTells
    <3>2. Visiting(d, d) => Visiting(d, d)'
      BY <1>8 DEF Visiting
    <3> QED BY <3>1, <3>2 DEF KeepsTells, Tells
  <2> QED BY <1>5, <1>6, <2>1, <2>2, ApartKeeps DEF Apart, Sound
<1>10. CASE global' # global
  <2>1. Deciding(c)'
    BY <1>3, <1>8, <1>10 DEF Deciding
  <2> QED BY <1>7, <2>1 DEF InTime, ToldInTime, Tells
<1> QED BY <1>9, <1>10

LEMMA CompareKeeps ==
  ASSUME Sound, NEW c \in Clients, NEW d \in Displays, InTime(d), CompareGlobalLayout(c)
  PROVE  InTime(d)'
<1>1. c \in Tasks
  BY DEF Tasks
<1>2. /\ work[c].at = "compare"
      /\ UNCHANGED vars /\ UNCHANGED <<global, entries, overrides, display, handle>>
  BY DEF CompareGlobalLayout
<1>3. ~Syncing(c, d) /\ ~Visiting(c, d)
  BY <1>2 DEF Syncing, Visiting
<1>4. CASE global = work[c].was
  <2>1. Goes(c, Rest) /\ ~Deciding(c)
    BY <1>2, <1>4 DEF CompareGlobalLayout, Deciding
  <2> QED BY <1>1, <1>2, <1>3, <2>1, AsideKeeps
<1>5. CASE global # work[c].was
  <2>1. PICK w : w = [at |-> "collect", todo |-> {}]
    OBVIOUS
  <2>2. Goes(c, w) /\ w.at = "collect"
    BY <1>5, <2>1 DEF CompareGlobalLayout
  <2>3. Deciding(c)'
    BY <1>1, <2>2, Moved DEF Deciding, Sound
  <2>4. SameRoute(d) /\ SameSeat(d)
    BY <1>2, RouteIdle, SightIdle DEF vars
  <2>5. KeepsSyncs(d)
    BY <1>1, <1>2, <1>3, <2>2, SyncsKept DEF Sound
  <2>6. OffIsFree(d)' /\ Stays(d)' /\ BoundInTime(d)'
    BY <2>4, <2>5, SeatKept DEF Sound, InTime
  <2> QED BY <2>3, <2>6 DEF InTime, ToldInTime, Tells
<1> QED BY <1>4, <1>5

LEMMA CollectKeeps ==
  ASSUME Sound, NEW c \in Clients, NEW d \in Displays, InTime(d), ResyncAll(c)
  PROVE  InTime(d)'
<1>1. c \in Tasks
  BY DEF Tasks
<1>2. PICK ds : ds = {e \in Displays : display[e].on}
  OBVIOUS
<1>3. PICK w : w = Resyncs(ds)
  OBVIOUS
<1>4. /\ work[c].at = "collect" /\ Goes(c, w)
      /\ UNCHANGED vars /\ UNCHANGED <<global, entries, overrides, display, handle>>
  BY <1>2, <1>3 DEF ResyncAll
<1>5. ~Syncing(c, d)
  BY <1>4 DEF Syncing
<1>6. SameRoute(d) /\ SameSeat(d)
  BY <1>4, RouteIdle, SightIdle DEF vars
<1>7. KeepsSyncs(d)
  BY <1>1, <1>4, <1>5, SyncsKept DEF Sound
<1>8. OffIsFree(d)' /\ Stays(d)' /\ BoundInTime(d)'
  BY <1>6, <1>7, SeatKept DEF Sound, InTime
<1>9. ASSUME display'[d].on PROVE Tells(d)'
  <2>1. d \in ds
    BY <1>2, <1>4, <1>9
  <2>2. w.at = "resync" /\ d \in w.todo
    BY <1>3, <2>1, GoIs
  <2>3. Visiting(c, d)'
    BY <1>1, <1>4, <2>2, Moved DEF Visiting, Sound
  <2> QED BY <2>3 DEF Tells
<1> QED BY <1>8, <1>9 DEF InTime, ToldInTime

-----------------------------------------------------------------------------
(* A wallpaper's own layout, and the links of an apply.                    *)

\* The renderer's displays are told, and nobody else draws by its layout.
LEMMA OverrideKeeps ==
  ASSUME Sound, NEW c \in Clients, NEW r \in Renderers, NEW prefs, NEW w, NEW d \in Displays,
         InTime(d), Resting(c), Overridden(r, prefs), Goes(c, w), UNCHANGED vars,
         d \in AudienceToTell(r) => w.at \in {"resync", "override"} /\ d \in w.todo
  PROVE  InTime(d)'
<1>1. c \in Tasks
  BY DEF Tasks
<1>2. ~Syncing(c, d) /\ ~Visiting(c, d) /\ ~Deciding(c)
  BY <1>1, RestIs
<1>3. UNCHANGED <<global, entries, display, handle>>
  BY DEF Overridden
<1>4. SameRoute(d) /\ SameSeat(d) /\ SameSight(d)
  BY <1>3, RouteIdle, SightIdle DEF vars
<1>5. KeepsSyncs(d)
  BY <1>1, <1>2, <1>3, SyncsKept DEF Sound
<1>6. CASE d \in AudienceToTell(r)
  <2>1. OffIsFree(d)' /\ Stays(d)' /\ BoundInTime(d)'
    BY <1>4, <1>5, SeatKept DEF Sound, InTime
  <2>2. Visiting(c, d)'
    BY <1>1, <1>6, Moved DEF Visiting, Sound
  <2> QED BY <2>1, <2>2 DEF InTime, ToldInTime, Tells
<1>7. CASE d \notin AudienceToTell(r)
  <2>1. ASSUME NEW q \in Renderers, Binds(d, q) PROVE overrides'[q] = overrides[q]
    <3>1. q = r => r \notin renderers
      BY <1>7, <2>1, AudienceIs DEF AudienceToTell, Binds, Sound
    <3> QED BY <3>1 DEF Overridden, Sound, LayoutTypes
  <2>2. SameLayout(d)
    BY <1>3, <2>1, PrefsIdle
  <2>3. KeepsTells(d)
    BY <1>1, <1>2, <1>3, TellsKept DEF Sound
  <2> QED BY <1>4, <1>5, <2>2, <2>3, ApartKeeps DEF Apart, Sound
<1> QED BY <1>6, <1>7

LEMMA SetWallpaperKeeps ==
  ASSUME Sound, NEW c \in Clients, NEW r \in Renderers, NEW prefs, NEW d \in Displays, InTime(d),
         SetWallpaperLayout(c, r, prefs)
  PROVE  InTime(d)'
<1>1. PICK w : w = Resyncs(AudienceToTell(r))
  OBVIOUS
<1>2. Resting(c) /\ Overridden(r, prefs) /\ Goes(c, w) /\ UNCHANGED vars
  BY <1>1 DEF SetWallpaperLayout
<1>3. d \in AudienceToTell(r) => w.at = "resync" /\ d \in w.todo
  BY <1>1, GoIs
<1> QED BY <1>2, <1>3, OverrideKeeps

LEMMA ApplyKeeps ==
  ASSUME Sound, NEW c \in Clients, NEW r \in Renderers, NEW prefs, NEW ds, NEW d \in Displays,
         InTime(d), Apply(c, r, ds, prefs)
  PROVE  InTime(d)'
<1>1. PICK w : w = [at |-> "override", todo |-> AudienceToTell(r), next |-> ds, renderer |-> r]
  OBVIOUS
<1>2. Resting(c) /\ Overridden(r, prefs) /\ Goes(c, w) /\ UNCHANGED vars
  BY <1>1 DEF Apply
<1>3. w.at = "override" /\ w.todo = AudienceToTell(r)
  BY <1>1
<1> QED BY <1>2, <1>3, OverrideKeeps

\* The link that an apply adds is followed by the same task's sync.  Until
\* then the display may look bound to it: then it was bound to it before.
LEMMA RelinkKeeps ==
  ASSUME Sound, OneConnection, NEW c \in Clients, NEW d \in Displays, InTime(d), ApplyRelink(c)
  PROVE  InTime(d)'
<1>1. c \in Tasks
  BY DEF Tasks
<1>2. /\ work[c].at = "override" /\ work[c].todo = {} /\ work[c] \in Overriding
      /\ UNCHANGED <<global, entries, overrides, display, handle>>
  BY <1>1, WorkAt DEF ApplyRelink, Sound
<1>3. ~Syncing(c, d) /\ ~Visiting(c, d) /\ ~Deciding(c)
  BY <1>2 DEF Syncing, Visiting, Deciding
<1>4. PICK r \in Renderers : r = work[c].renderer
  BY <1>2 DEF Overriding
<1>5. PICK e \in Displays :
        IF display[e].on THEN AddLink(r, e) /\ Goes(c, Syncs({e}))
        ELSE UNCHANGED vars /\ Goes(c, Rest)
  BY <1>2, <1>4 DEF ApplyRelink, Overriding
<1>6. CASE ~display[e].on
  BY <1>1, <1>2, <1>3, <1>5, <1>6, AsideKeeps
<1>7. CASE display[e].on
  <2>1. PICK w : w = Syncs({e})
    OBVIOUS
  <2>2. AddLink(r, e) /\ Goes(c, w) /\ w.at = "sync" /\ w.todo = {e}
    BY <1>5, <1>7, <2>1, GoIs
  <2>3. /\ renderers' = renderers
        /\ \A q : Has(e, q)' <=> q = r
        /\ \A f \in Displays \ {e} : \A q : Has(f, q)' <=> Has(f, q)
    BY <2>2, AddLinkEffect DEF Sound
  <2>4. KeepsSyncs(d) /\ KeepsTells(d)
    BY <1>1, <1>2, <1>3, <2>2, SyncsKept, TellsKept DEF Sound
  <2>5. SameSeat(d) /\ SameSight(d) /\ SameLayout(d)
    BY <1>2, SightIdle, PrefsIdle
  <2>6. CASE d # e
    <3>1. SameRoute(d)
      BY <1>2, <2>3, <2>6 DEF SameRoute
    <3> QED BY <2>4, <2>5, <3>1, ApartKeeps DEF Apart, Sound
  <2>7. CASE d = e
    <3>1. ClientSyncs(d)'
      BY <1>1, <2>2, <2>7, Moved DEF ClientSyncs, Syncing, Sound
    <3>2. OffIsFree(d)' /\ BoundInTime(d)'
      BY <1>2, <3>1 DEF InTime, OffIsFree, BoundInTime, SyncComes
    <3>3. Stays(d)'
      BY <1>2, <3>1 DEF InTime, Stays
    <3>4. ~ClientSyncs(d)
      BY <1>3 DEF ClientSyncs, OneConnection
    <3>5. ASSUME Right(d)', ~Fits(d)' PROVE Right(d) /\ ~Fits(d)
      <4>1. PICK q \in Renderers :
              Binds(d, q)' /\ ~(HidesLegacy(d)' \/ Picture(display'[d].shown) = PictureOf(d, q)')
        BY <3>5 DEF Fits
      <4>2. q = r /\ r \in renderers /\ handle[r].pool # NoPool
        BY <1>2, <2>3, <2>7, <4>1 DEF Binds
      <4>3. display[d].renderer = r /\ display[d].gen = handle[r].pool.gen
        BY <1>2, <3>5, <4>1, <4>2 DEF Right
      <4>4. r # NoRenderer
        BY TableAssumption
      <4>5. handle[r].pool.gen \in Nat
        BY DEF Sound, LayoutTypes, HandleOK, Handle, Pool
      <4>6. Right(d)
        BY <3>4, <4>2, <4>3, <4>4, <4>5 DEF InTime, Stays
      <4>7. PICK p \in Renderers : Binds(d, p)
        BY <4>3, <4>4, <4>6 DEF Right
      <4>8. p = r
        BY <4>3, <4>6, <4>7 DEF Right
      <4>9. PictureOf(d, r)' = PictureOf(d, r) /\ (HidesLegacy(d)' <=> HidesLegacy(d))
        BY <1>2, <2>5, <4>7, <4>8 DEF PictureOf, SameLayout
      <4> QED BY <1>2, <4>1, <4>2, <4>6, <4>7, <4>8, <4>9 DEF Fits
    <3>6. ToldInTime(d)'
      BY <1>2, <2>4, <3>5 DEF InTime, ToldInTime, KeepsTells
    <3> QED BY <3>2, <3>3, <3>6 DEF InTime
  <2> QED BY <2>6, <2>7
<1> QED BY <1>6, <1>7

-----------------------------------------------------------------------------
(* Displays come, go and change their size.                                *)

LEMMA MigrateKeeps ==
  ASSUME Sound, KeysApart, NEW e \in Displays, NEW d \in Displays, InTime(d), Migrate(e)
  PROVE  InTime(d)'
<1>1. e \in Tasks /\ e \notin Clients
  BY LayoutsAssumption DEF Tasks
<1>2. PICK w : w = [at |-> "register", todo |-> {}]
  OBVIOUS
<1>3. /\ Resting(e) /\ ~display[e].on /\ Goes(e, w)
      /\ UNCHANGED vars /\ UNCHANGED <<global, overrides, display, handle>>
  BY <1>2 DEF Migrate
<1>4. ~Syncing(e, d) /\ ~Visiting(e, d)
  BY <1>1, <1>3, RestIs
<1>5. SameRoute(d) /\ SameSeat(d) /\ SameSight(d)
  BY <1>3, RouteIdle, SightIdle DEF vars
<1>6. KeepsSyncs(d) /\ KeepsTells(d)
  BY <1>1, <1>3, <1>4, SyncsKept, TellsKept DEF Sound
<1>7. CASE d = e
  <2>1. OffIsFree(d)' /\ Stays(d)' /\ BoundInTime(d)'
    BY <1>5, <1>6, SeatKept DEF Sound, InTime
  <2>2. ToldInTime(d)'
    BY <1>3, <1>7 DEF ToldInTime
  <2> QED BY <2>1, <2>2 DEF InTime
<1>8. CASE d # e
  <2>1. InstanceId[e] # Unset => InstanceId[e] \notin {Name[d], InstanceId[d]}
    BY <1>8, KeyApart
  <2>2. /\ entries'[Name[d]] = entries[Name[d]]
        /\ InstanceId[d] # Unset => entries'[InstanceId[d]] = entries[InstanceId[d]]
    BY <2>1, KeyTypes DEF Migrate, Sound, LayoutTypes, EntriesOK
  <2>3. SameLayout(d)
    BY <1>3, <2>2, PrefsIdle
  <2> QED BY <1>5, <1>6, <2>3, ApartKeeps DEF Apart, Sound
<1> QED BY <1>7, <1>8

LEMMA RegisterKeeps ==
  ASSUME Sound, NEW e \in Displays, NEW d \in Displays, InTime(d), Register(e)
  PROVE  InTime(d)'
<1>1. e \in Tasks /\ e \notin Clients
  BY LayoutsAssumption DEF Tasks
<1>2. PICK w : w = Syncs({e})
  OBVIOUS
<1>3. /\ work[e].at = "register" /\ Goes(e, w) /\ w.at = "sync" /\ w.todo = {e}
      /\ UNCHANGED <<global, entries, overrides, handle>>
  BY <1>2, GoIs DEF Register
<1>4. /\ \A f \in Displays \ {e} : display'[f] = display[f]
      /\ display'[e].on = TRUE /\ display'[e].renderer = NoRenderer
  BY RegisterEffect DEF Register, Sound, LayoutTypes
<1>5. CASE d = e
  <2>1. Syncing(d, d)'
    BY <1>1, <1>3, <1>5, Moved DEF Syncing, Sound
  <2>2. OffIsFree(d)' /\ Stays(d)' /\ BoundInTime(d)'
    BY <1>4, <1>5, <2>1 DEF OffIsFree, Stays, BoundInTime, SyncComes
  <2>3. Right(d)' => \A r \in Renderers : ~Binds(d, r)'
    BY <1>4, <1>5, TableAssumption DEF Right
  <2>4. ToldInTime(d)'
    BY <2>3 DEF ToldInTime, Fits
  <2> QED BY <2>2, <2>4 DEF InTime
<1>6. CASE d # e
  <2>1. ~Syncing(e, d) /\ ~Visiting(e, d)
    BY <1>3 DEF Syncing, Visiting
  <2>2. KeepsSyncs(d) /\ KeepsTells(d)
    BY <1>1, <1>3, <2>1, SyncsKept, TellsKept DEF Sound
  <2>3. SameSeat(d) /\ SameSight(d) /\ SameLayout(d)
    BY <1>3, <1>4, <1>6, SightIdle, PrefsIdle
  <2>4. SameRoute(d)
    <3>1. CASE UNCHANGED vars
      BY <1>3, <3>1, RouteIdle DEF vars
    <3>2. ASSUME NEW r \in renderers, AddLink(r, e) PROVE SameRoute(d)
      <4>1. r \in Renderers
        BY DEF Sound, TableInv, TypeOK
      <4> QED BY <1>3, <1>6, <3>2, <4>1, AddLinkEffect DEF SameRoute, Sound
    <3> QED BY <3>1, <3>2 DEF Register
  <2> QED BY <2>2, <2>3, <2>4, ApartKeeps DEF Apart, Sound
<1> QED BY <1>5, <1>6

LEMMA UnregisterKeeps ==
  ASSUME Sound, NEW e \in Displays, NEW d \in Displays, InTime(d), Unregister(e)
  PROVE  InTime(d)'
<1>1. /\ \A f \in Displays \ {e} : display'[f] = display[f]
      /\ display'[e].on = FALSE /\ display'[e].renderer = NoRenderer
  BY UnregisterEffect DEF Unregister, Sound, LayoutTypes
<1>2. UNCHANGED <<global, entries, overrides, handle, work>>
  BY DEF Unregister
<1>3. CASE d = e
  BY <1>1, <1>3 DEF InTime, OffIsFree, Stays, BoundInTime, ToldInTime
<1>4. CASE d # e
  <2>1. SameRoute(d)
    BY <1>2, <1>4, RemoveDisplayEffect DEF SameRoute, Sound, Unregister
  <2>2. SameSeat(d) /\ SameSight(d) /\ SameLayout(d)
    BY <1>1, <1>2, <1>4, SightIdle, PrefsIdle
  <2>3. KeepsSyncs(d) /\ KeepsTells(d)
    BY <1>2, WorkIdle
  <2> QED BY <2>1, <2>2, <2>3, ApartKeeps DEF Apart, Sound
<1> QED BY <1>3, <1>4

LEMMA ResizeKeeps ==
  ASSUME Sound, NEW e \in Displays, NEW size \in Sizes, NEW d \in Displays, InTime(d),
         Resize(e, size)
  PROVE  InTime(d)'
<1>1. e \in Tasks /\ e \notin Clients
  BY LayoutsAssumption DEF Tasks
<1>2. PICK w : w = Resyncs({e})
  OBVIOUS
<1>3. /\ Resting(e) /\ Goes(e, w) /\ w.at = "resync" /\ w.todo = {e}
      /\ UNCHANGED vars /\ UNCHANGED <<global, entries, overrides, handle>>
  BY <1>2, GoIs DEF Resize
<1>4. /\ \A f \in Displays \ {e} : display'[f] = display[f]
      /\ display'[e].on = display[e].on /\ display'[e].renderer = display[e].renderer
      /\ display'[e].gen = display[e].gen
  BY ResizeEffect, ProjectionAssumption DEF Resize, Sound, LayoutTypes
<1>5. ~Syncing(e, d) /\ ~Visiting(e, d)
  BY <1>1, <1>3, RestIs
<1>6. KeepsSyncs(d)
  BY <1>1, <1>3, <1>5, SyncsKept DEF Sound
<1>7. SameRoute(d)
  BY <1>3, RouteIdle DEF vars
<1>8. CASE d = e
  <2>1. SameSeat(d)
    BY <1>4, <1>8 DEF SameSeat
  <2>2. OffIsFree(d)' /\ Stays(d)' /\ BoundInTime(d)'
    BY <1>6, <1>7, <2>1, SeatKept DEF Sound, InTime
  <2>3. Visiting(d, d)'
    BY <1>1, <1>3, <1>8, Moved DEF Visiting, Sound
  <2> QED BY <2>2, <2>3 DEF InTime, ToldInTime, Tells
<1>9. CASE d # e
  <2>1. SameSeat(d) /\ SameSight(d) /\ SameLayout(d)
    BY <1>3, <1>4, <1>9, SightIdle, PrefsIdle
  <2>2. KeepsTells(d)
    BY <1>1, <1>3, <1>5, TellsKept DEF Sound
  <2> QED BY <1>6, <1>7, <2>1, <2>2, ApartKeeps DEF Apart, Sound
<1> QED BY <1>8, <1>9

-----------------------------------------------------------------------------
(* Renderers come and go, bind pools and report colours.                   *)

LEMMA RegisterRendererKeeps ==
  ASSUME Sound, NEW r \in Renderers, NEW d \in Displays, InTime(d), RegisterRenderer(r)
  PROVE  InTime(d)'
<1>1. r \in Tasks
  BY DEF Tasks
<1>2. /\ r \notin renderers /\ Resting(r) /\ handle[r].pool = NoPool
      /\ renderers' = renderers \cup {r} /\ links' = links
      /\ UNCHANGED <<global, entries, overrides, display, handle, work>>
  BY DEF RegisterRenderer, AddRenderer
<1>3. \A q : Has(d, q)' <=> Has(d, q)
  BY <1>2 DEF Has
<1>4. \A q \in Renderers : Binds(d, q)' <=> Binds(d, q)
  BY <1>2, <1>3 DEF Binds
<1>5. Right(d)' <=> Right(d)
  BY <1>2, <1>4 DEF Right
<1>6. ClientSyncs(d)' <=> ClientSyncs(d)
  BY <1>2 DEF ClientSyncs, Syncing
<1>7. SyncComes(d) => SyncComes(d)'
  <2>1. ~Syncing(r, d)
    BY <1>1, <1>2, RestIs
  <2>2. \A t : Syncing(t, d)' <=> Syncing(t, d)
    BY <1>2 DEF Syncing
  <2>3. ASSUME NEW q \in Renderers, Syncing(q, d) /\ (q \in renderers => Has(d, q))
        PROVE  Syncing(q, d)' /\ (q \in renderers' => Has(d, q)')
    BY <1>2, <1>3, <2>1, <2>2, <2>3
  <2>4. ASSUME NEW q \in renderers, Has(d, q) /\ handle[q].binds > 0
        PROVE  q \in renderers' /\ Has(d, q)' /\ handle'[q].binds > 0
    BY <1>2, <1>3, <2>4
  <2> QED BY <1>6, <2>2, <2>3, <2>4 DEF SyncComes
<1>8. OffIsFree(d)' /\ BoundInTime(d)'
  BY <1>2, <1>5, <1>7 DEF InTime, OffIsFree, BoundInTime
<1>9. Stays(d)'
  BY <1>2, <1>5, <1>6 DEF InTime, Stays
<1>10. SameLayout(d)
  BY <1>2, PrefsIdle
<1>11. Fits(d)' <=> Fits(d)
  <2>1. \A q \in Renderers : Binds(d, q) => PictureOf(d, q)' = PictureOf(d, q)
    BY <1>2, <1>10 DEF PictureOf, SameLayout
  <2> QED BY <1>2, <1>4, <1>10, <2>1 DEF Fits, SameLayout
<1>12. KeepsTells(d)
  BY <1>2, WorkIdle
<1>13. ToldInTime(d)'
  BY <1>2, <1>5, <1>11, <1>12 DEF InTime, ToldInTime, KeepsTells
<1> QED BY <1>8, <1>9, <1>13 DEF InTime

\* Its own task ends with the syncs of those that were linked to it; the
\* syncs that its last events asked for are lost, and no longer needed.
LEMMA UnregisterRendererKeeps ==
  ASSUME Sound, NEW r \in Renderers, NEW d \in Displays, InTime(d), UnregisterRenderer(r)
  PROVE  InTime(d)'
<1>1. r \in Tasks /\ r \notin Clients /\ r # d /\ d \in Tasks
  BY LayoutsAssumption DEF Tasks
<1>2. PICK w : w = Syncs(AudienceOf(r))
  OBVIOUS
<1>3. /\ Goes(r, w) /\ RemoveRenderer(r) /\ r \in renderers
      /\ UNCHANGED <<global, entries, display>>
  BY <1>2 DEF UnregisterRenderer
<1>4. renderers' = renderers \ {r} /\ \A e, q : Has(e, q)' <=> Has(e, q) /\ q # r
  BY <1>3, RemoveRendererEffect DEF Sound
<1>5. /\ \A q \in Renderers : handle'[q].pool = handle[q].pool
      /\ \A q \in Renderers \ {r} : handle'[q] = handle[q] /\ overrides'[q] = overrides[q]
  BY DEF UnregisterRenderer, Sound, LayoutTypes, HandleOK, Handle
<1>6. work'[r] = w /\ \A t \in Tasks \ {r} : work'[t] = work[t]
  BY <1>1, <1>3, Moved DEF Sound
<1>7. ClientSyncs(d)' <=> ClientSyncs(d)
  BY <1>1, <1>6 DEF ClientSyncs, Syncing, Tasks
<1>8. \A q \in Renderers : Binds(d, q)' <=> Binds(d, q) /\ q # r
  BY <1>4, <1>5 DEF Binds
<1>9. Tells(d) => Tells(d)'
  <2>1. \A t \in Tasks \ {r} : Visiting(t, d)' <=> Visiting(t, d)
    BY <1>6 DEF Visiting
  <2>2. \A c \in Clients : Deciding(c)' <=> Deciding(c)
    BY <1>1, <1>3, <1>6 DEF Deciding, Tasks
  <2> QED BY <1>1, <2>1, <2>2 DEF Tells, Tasks
<1>10. OffIsFree(d)'
  BY <1>3 DEF InTime, OffIsFree
<1>11. CASE Has(d, r)
  <2>1. \A q \in Renderers : ~Binds(d, q)'
    BY <1>8, <1>11, OneRenderer DEF Sound, Binds
  <2>2. d \in AudienceOf(r)
    BY <1>11, AudienceIs DEF Sound
  <2>3. Syncing(r, d)'
    BY <1>2, <1>6, <2>2, GoIs DEF Syncing
  <2>4. SyncComes(d)'
    BY <1>4, <2>3 DEF SyncComes
  <2>5. Fits(d)'
    BY <2>1 DEF Fits
  <2>6. Stays(d)'
    <3>1. Right(d) => display[d].renderer \in {r, NoRenderer}
      <4>1. \A q \in Renderers : Binds(d, q) => q = r
        BY <1>11, OneRenderer DEF Sound, Binds
      <4> QED BY <4>1 DEF Right
    <3> QED BY <1>3, <1>4, <1>5, <1>7, <3>1 DEF InTime, Stays
  <2> QED BY <1>10, <2>4, <2>5, <2>6 DEF InTime, BoundInTime, ToldInTime
<1>12. CASE ~Has(d, r)
  <2>1. \A q \in Renderers : Binds(d, q)' <=> Binds(d, q)
    BY <1>8, <1>12 DEF Binds
  <2>2. Right(d)' <=> Right(d)
    BY <1>3, <1>5, <2>1 DEF Right
  <2>3. SyncComes(d) => SyncComes(d)'
    <3>1. Syncing(d, d) => Syncing(d, d)'
      BY <1>1, <1>6 DEF Syncing
    <3>2. ASSUME NEW q \in Renderers, Syncing(q, d) /\ (q \in renderers => Has(d, q))
          PROVE  SyncComes(d)'
      <4>1. q # r
        BY <1>3, <1>12, <3>2
      <4>2. Syncing(q, d)' /\ (q \in renderers' => Has(d, q)')
        BY <1>4, <1>6, <3>2, <4>1 DEF Syncing, Tasks
      <4> QED BY <4>2 DEF SyncComes
    <3>3. ASSUME NEW q \in renderers, Has(d, q) /\ handle[q].binds > 0
          PROVE  SyncComes(d)'
      <4>1. q # r /\ q \in Renderers
        BY <1>12, <3>3, HasType DEF Sound
      <4>2. q \in renderers' /\ Has(d, q)' /\ handle'[q].binds > 0
        BY <1>4, <1>5, <3>3, <4>1
      <4> QED BY <4>2 DEF SyncComes
    <3> QED BY <1>7, <3>1, <3>2, <3>3 DEF SyncComes
  <2>4. BoundInTime(d)'
    BY <1>3, <2>2, <2>3 DEF InTime, BoundInTime
  <2>5. Stays(d)'
    BY <1>3, <1>4, <1>5, <1>7, <2>2 DEF InTime, Stays
  <2>6. SameLayout(d)
    <3>1. \A q \in Renderers : Binds(d, q) => overrides'[q] = overrides[q]
      BY <1>5, <1>12 DEF Binds
    <3> QED BY <1>3, <3>1, PrefsIdle
  <2>7. Fits(d)' <=> Fits(d)
    <3>1. \A q \in Renderers : Binds(d, q) => PictureOf(d, q)' = PictureOf(d, q)
      BY <1>3, <1>5, <2>6 DEF PictureOf, SameLayout
    <3> QED BY <1>3, <2>1, <2>6, <3>1 DEF Fits, SameLayout
  <2> QED BY <1>3, <1>9, <1>10, <2>2, <2>4, <2>5, <2>7 DEF InTime, ToldInTime
<1> QED BY <1>11, <1>12

\* A new pool: nobody is bound to it yet, and its event comes to those that
\* are linked to its renderer.
LEMMA BindKeeps ==
  ASSUME Sound, NEW r \in Renderers, NEW tex, NEW d \in Displays, InTime(d), BindBuffers(r, tex)
  PROVE  InTime(d)'
<1>1. /\ r \in renderers /\ UNCHANGED vars
      /\ UNCHANGED <<global, entries, overrides, display, work>>
      /\ handle' = [handle EXCEPT ![r].pool = [gen |-> @.gen + 1, tex |-> tex], ![r].binds = @ + 1]
  BY DEF BindBuffers
<1>2. handle[r].pool.gen \in Nat /\ handle[r].binds \in Nat
  BY DEF Sound, LayoutTypes, HandleOK, Handle, Pool
<1>3. /\ \A q \in Renderers \ {r} : handle'[q] = handle[q]
      /\ handle'[r].pool = [gen |-> handle[r].pool.gen + 1, tex |-> tex]
      /\ handle'[r].binds = handle[r].binds + 1
  BY <1>1 DEF Sound, LayoutTypes, HandleOK, Handle
<1>4. handle'[r].pool.gen = handle[r].pool.gen + 1
  BY <1>3
<1>5. handle'[r].pool # NoPool
  BY <1>2, <1>4 DEF NoPool
<1>6. renderers' = renderers /\ \A q : Has(d, q)' <=> Has(d, q)
  BY <1>1 DEF vars, Has
<1>7. \A t : Syncing(t, d)' <=> Syncing(t, d)
  BY <1>1 DEF Syncing
<1>8. ClientSyncs(d)' <=> ClientSyncs(d)
  BY <1>7 DEF ClientSyncs
<1>9. KeepsTells(d)
  <2>1. \A q \in Renderers : handle[q].binds > 0 => handle'[q].binds > 0
    BY <1>2, <1>3
  <2> QED BY <1>1, <2>1, WorkIdle
<1>10. OffIsFree(d)'
  BY <1>1 DEF InTime, OffIsFree
<1>11. ASSUME display[d].renderer = r
       PROVE  Stays(d)' /\ (Has(d, r) => ~Right(d)')
  <2>1. display[d].gen <= handle[r].pool.gen /\ display[d].gen \in Nat
    BY <1>11, TableAssumption, StateTypes DEF InTime, Stays, Sound, LayoutTypes
  <2>2. display[d].gen < handle'[r].pool.gen /\ display[d].gen <= handle'[r].pool.gen
    BY <1>2, <1>4, <2>1
  <2>3. /\ display'[d].renderer = r /\ display'[d].gen < handle'[r].pool.gen
        /\ display'[d].gen <= handle'[r].pool.gen /\ handle'[r].pool # NoPool
    BY <1>1, <1>5, <1>11, <2>2
  <2>5. Stays(d)'
    BY <2>3 DEF Stays
  <2>4. ASSUME Has(d, r) PROVE ~Right(d)'
    <3>1. Binds(d, r)'
      BY <1>1, <1>5, <1>6, <2>4 DEF Binds
    <3>2. Right(d)' => display'[d].gen = handle'[r].pool.gen
      BY <3>1 DEF Right
    <3> QED BY <1>1, <1>2, <1>4, <2>1, <3>2
  <2> QED BY <2>4, <2>5
<1>12. CASE Has(d, r)
  <2>1. SyncComes(d)'
    <3>1. handle'[r].binds > 0
      BY <1>2, <1>3
    <3> QED BY <1>1, <1>6, <1>12, <3>1 DEF SyncComes
  <2>2. ~Right(d)'
    <3>1. CASE display[d].renderer # r
      <4>1. Binds(d, r)'
        BY <1>1, <1>5, <1>6, <1>12 DEF Binds
      <4> QED BY <1>1, <3>1, <4>1 DEF Right
    <3> QED BY <1>11, <1>12, <3>1
  <2>3. Stays(d)'
    <3>1. CASE display[d].renderer # r
      <4>1. \A q \in Renderers : Binds(d, q) => q = r
        BY <1>12, OneRenderer DEF Sound, Binds
      <4>2. Right(d) => display[d].renderer = NoRenderer
        BY <3>1, <4>1 DEF Right
      <4> QED BY <1>1, <1>3, <1>6, <1>8, <3>1, <4>2 DEF InTime, Stays
    <3> QED BY <1>11, <3>1
  <2> QED BY <1>10, <2>1, <2>2, <2>3 DEF InTime, BoundInTime, ToldInTime
<1>13. CASE ~Has(d, r)
  <2>1. \A q \in Renderers : Binds(d, q)' <=> Binds(d, q)
    BY <1>3, <1>6, <1>13 DEF Binds
  <2>2. \A q \in Renderers : Binds(d, q) => handle'[q] = handle[q]
    BY <1>3, <1>13 DEF Binds
  <2>3. Right(d)' <=> Right(d)
    BY <1>1, <2>1, <2>2 DEF Right
  <2>4. SyncComes(d) => SyncComes(d)'
    <3>1. ASSUME NEW q \in renderers, Has(d, q) /\ handle[q].binds > 0
          PROVE  q \in renderers' /\ Has(d, q)' /\ handle'[q].binds > 0
      <4>1. q # r /\ q \in Renderers
        BY <1>13, <3>1, HasType DEF Sound
      <4> QED BY <1>3, <1>6, <3>1, <4>1
    <3> QED BY <1>6, <1>7, <1>8, <3>1 DEF SyncComes
  <2>5. BoundInTime(d)'
    BY <1>1, <2>3, <2>4 DEF InTime, BoundInTime
  <2>6. Stays(d)'
    <3>1. CASE display[d].renderer # r
      BY <1>1, <1>3, <1>6, <1>8, <2>3, <3>1 DEF InTime, Stays
    <3> QED BY <1>11, <3>1
  <2>7. SameLayout(d)
    BY <1>1, PrefsIdle
  <2>8. Fits(d)' <=> Fits(d)
    <3>1. \A q \in Renderers : Binds(d, q) => PictureOf(d, q)' = PictureOf(d, q)
      BY <1>1, <2>2, <2>7 DEF PictureOf, SameLayout
    <3> QED BY <1>1, <2>1, <2>7, <3>1 DEF Fits, SameLayout
  <2> QED BY <1>1, <1>9, <1>10, <2>3, <2>5, <2>6, <2>8 DEF InTime, ToldInTime, KeepsTells
<1> QED BY <1>12, <1>13

LEMMA ReportKeeps ==
  ASSUME Sound, NEW r \in Renderers, NEW colour, NEW d \in Displays, InTime(d),
         ReportState(r, colour)
  PROVE  InTime(d)'
<1>1. UNCHANGED vars /\ UNCHANGED <<global, entries, overrides, display, work>>
  BY DEF ReportState
<1>2. \A q \in Renderers : handle'[q].pool = handle[q].pool /\ handle'[q].binds = handle[q].binds
  BY DEF ReportState, Sound, LayoutTypes, HandleOK, Handle
<1>3. SameRoute(d) /\ SameSeat(d) /\ SameSight(d) /\ SameLayout(d)
  BY <1>1, <1>2, RouteIdle, SightIdle, PrefsIdle DEF vars
<1>4. KeepsSyncs(d) /\ KeepsTells(d)
  BY <1>1, <1>2, WorkIdle
<1> QED BY <1>3, <1>4, ApartKeeps DEF Apart, Sound

LEMMA ReadColourKeeps ==
  ASSUME Sound, NEW r \in Renderers, NEW d \in Displays, InTime(d), ReadColour(r)
  PROVE  InTime(d)'
<1>1. r \in Tasks /\ r \notin Clients
  BY LayoutsAssumption DEF Tasks
<1>2. /\ Resting(r) /\ UNCHANGED vars /\ UNCHANGED <<global, entries, overrides, display>>
      /\ \E w : Goes(r, w)
  BY DEF ReadColour
<1>3. PICK w : Goes(r, w)
  BY <1>2
<1>4. \A q \in Renderers : handle'[q].pool = handle[q].pool /\ handle'[q].binds = handle[q].binds
  BY DEF ReadColour, Sound, LayoutTypes, HandleOK, Handle
<1>5. ~Syncing(r, d) /\ ~Visiting(r, d)
  BY <1>1, <1>2, RestIs
<1>6. SameRoute(d) /\ SameSeat(d) /\ SameSight(d) /\ SameLayout(d)
  BY <1>2, <1>4, RouteIdle, SightIdle, PrefsIdle DEF vars
<1>7. KeepsSyncs(d) /\ KeepsTells(d)
  BY <1>1, <1>2, <1>3, <1>4, <1>5, SyncsKept, TellsKept DEF Sound
<1> QED BY <1>6, <1>7, ApartKeeps DEF Apart, Sound

\* The event of a pool becomes the syncs of those that are linked.
LEMMA OnBindKeeps ==
  ASSUME Sound, NEW r \in Renderers, NEW d \in Displays, InTime(d), OnRendererBind(r)
  PROVE  InTime(d)'
<1>1. r \in Tasks /\ r \notin Clients
  BY LayoutsAssumption DEF Tasks
<1>2. PICK w : w = Syncs(AudienceOf(r))
  OBVIOUS
<1>3. /\ r \in renderers /\ Resting(r) /\ Goes(r, w) /\ UNCHANGED vars
      /\ UNCHANGED <<global, entries, overrides, display>>
  BY <1>2 DEF OnRendererBind
<1>4. /\ \A q \in Renderers : handle'[q].pool = handle[q].pool
      /\ \A q \in Renderers \ {r} : handle'[q] = handle[q]
  BY DEF OnRendererBind, Sound, LayoutTypes, HandleOK, Handle
<1>5. work'[r] = w /\ \A t \in Tasks \ {r} : work'[t] = work[t]
  BY <1>1, <1>3, Moved DEF Sound
<1>6. ~Syncing(r, d) /\ ~Visiting(r, d)
  BY <1>1, <1>3, RestIs
<1>7. SameRoute(d) /\ SameSeat(d) /\ SameSight(d) /\ SameLayout(d)
  BY <1>3, <1>4, RouteIdle, SightIdle, PrefsIdle DEF vars
<1>8. KeepsTells(d)
  BY <1>1, <1>3, <1>6, TellsKept DEF Sound
<1>9. \A t \in Tasks : Syncing(t, d) => Syncing(t, d)'
  BY <1>5, <1>6 DEF Syncing
<1>10. ClientSyncs(d) => ClientSyncs(d)'
  BY <1>9 DEF ClientSyncs, Tasks
<1>11. renderers' = renderers /\ \A q \in Renderers : Has(d, q)' <=> Has(d, q)
  BY <1>7 DEF SameRoute
<1>12. SyncComes(d) => SyncComes(d)'
  <2>1. Syncing(d, d) => Syncing(d, d)'
    BY <1>9 DEF Tasks
  <2>2. ASSUME NEW q \in Renderers, Syncing(q, d) /\ (q \in renderers => Has(d, q))
        PROVE  SyncComes(d)'
    <3>1. Syncing(q, d)' /\ (q \in renderers' => Has(d, q)')
      BY <1>9, <1>11, <2>2 DEF Tasks
    <3> QED BY <3>1 DEF SyncComes
  <2>3. ASSUME NEW q \in renderers, Has(d, q) /\ handle[q].binds > 0
        PROVE  SyncComes(d)'
    <3>0. q \in Renderers
      BY <2>3, HasType DEF Sound
    <3>1. CASE q # r
      <4>1. q \in renderers' /\ Has(d, q)' /\ handle'[q].binds > 0
        BY <1>4, <1>11, <2>3, <3>0, <3>1
      <4> QED BY <4>1 DEF SyncComes
    <3>2. CASE q = r
      <4>1. d \in AudienceOf(r)
        BY <2>3, <3>2, AudienceIs DEF Sound
      <4>2. Syncing(r, d)' /\ Has(d, r)'
        BY <1>2, <1>5, <1>11, <2>3, <3>2, <4>1, GoIs DEF Syncing
      <4> QED BY <4>2 DEF SyncComes
    <3> QED BY <3>1, <3>2
  <2> QED BY <1>10, <2>1, <2>2, <2>3 DEF SyncComes
<1>13. Right(d)' <=> Right(d)
  BY <1>7, SameRight DEF Sound
<1>14. OffIsFree(d)' /\ Stays(d)' /\ BoundInTime(d)'
  BY <1>7, <1>10, <1>12, <1>13 DEF InTime, OffIsFree, Stays, BoundInTime, SameSeat, SameRoute
<1>15. ToldInTime(d)'
  BY <1>7, <1>8, <1>13, SameFits DEF Sound, InTime, ToldInTime, KeepsTells, SameSeat
<1> QED BY <1>14, <1>15 DEF InTime

LEMMA WriteColourKeeps ==
  ASSUME Sound, NEW r \in Renderers, NEW d \in Displays, InTime(d), WriteColour(r)
  PROVE  InTime(d)'
<1>1. r \in Tasks /\ r \notin Clients
  BY LayoutsAssumption DEF Tasks
<1>2. /\ work[r].at = "colour" /\ UNCHANGED <<global, entries, overrides, display, handle>>
      /\ \E w : Goes(r, w)
  BY DEF WriteColour
<1>3. PICK w : Goes(r, w)
  BY <1>2
<1>4. work[r].colour \in Geometries
  BY <1>1, <1>2, WorkAt DEF Sound
<1>5. renderers' = renderers /\ \A e, q : Has(e, q)' <=> Has(e, q)
  BY <1>4, ColourKeepsHas DEF Sound
<1>6. ~Syncing(r, d) /\ ~Visiting(r, d)
  BY <1>2 DEF Syncing, Visiting
<1>7. SameRoute(d)
  BY <1>2, <1>5 DEF SameRoute
<1>8. SameSeat(d) /\ SameSight(d) /\ SameLayout(d)
  BY <1>2, SightIdle, PrefsIdle
<1>9. KeepsSyncs(d) /\ KeepsTells(d)
  BY <1>1, <1>2, <1>3, <1>6, SyncsKept, TellsKept DEF Sound
<1> QED BY <1>7, <1>8, <1>9, ApartKeeps DEF Apart, Sound

-----------------------------------------------------------------------------
(* The one connection's two readings of the global layout.                 *)

LEMMA GlobalKnownStep ==
  ASSUME Sound, OneConnection, GlobalKnown, LayoutNext
  PROVE  GlobalKnown'
<1>1. ASSUME NEW c \in Clients, NEW edit, AskGlobalLayout(c, edit) PROVE GlobalKnown'
  <2>1. PICK w : w = [at |-> "global", todo |-> {}, was |-> global, edit |-> edit]
    OBVIOUS
  <2>2. Goes(c, w) /\ w.was = global /\ global' = global /\ c \in Tasks
    BY <1>1, <2>1 DEF AskGlobalLayout, Tasks
  <2>3. work'[c].was = global'
    BY <2>2, Moved DEF Sound
  <2> QED BY <2>3 DEF GlobalKnown, OneConnection
<1>2. ASSUME NEW c \in Clients, StoreGlobalLayout(c) PROVE GlobalKnown'
  <2>1. PICK w : w = [at |-> "compare", todo |-> {}, was |-> work[c].was]
    OBVIOUS
  <2>2. Goes(c, w) /\ w.at = "compare" /\ c \in Tasks
    BY <1>2, <2>1 DEF StoreGlobalLayout, Tasks
  <2>3. work'[c].at = "compare"
    BY <2>2, Moved DEF Sound
  <2> QED BY <2>3 DEF GlobalKnown, OneConnection
<1>3. ASSUME NEW t \in Tasks, NEW w, Goes(t, w), global' = global, w.at # "global" PROVE GlobalKnown'
  <2>1. work'[t] = w /\ \A u \in Tasks \ {t} : work'[u] = work[u]
    BY <1>3, Moved DEF Sound
  <2> QED BY <1>3, <2>1 DEF GlobalKnown, Tasks
<1>4. CASE work' = work /\ global' = global
  BY <1>4 DEF GlobalKnown
<1>5. \A ds : Resyncs(ds).at # "global" /\ Syncs(ds).at # "global" /\ Rest.at # "global"
  BY DEF Resyncs, Syncs, Rest
<1>6. ASSUME NEW t \in Tasks, NEW d \in Displays, ResyncDisplay(t, d) \/ SyncDisplay(t, d)
      PROVE  GlobalKnown'
  <2>1. CASE ResyncDisplay(t, d)
    BY <1>3, <1>5, <2>1 DEF ResyncDisplay
  <2>2. CASE SyncDisplay(t, d)
    BY <1>3, <1>5, <2>2 DEF SyncDisplay
  <2> QED BY <1>6, <2>1, <2>2
<1>7. ASSUME NEW c \in Clients, NEW d \in Displays, NEW edit, AskDisplayLayout(c, d, edit)
      PROVE  GlobalKnown'
  <2>1. PICK w : w = [at |-> "store", todo |-> {d}, key |-> SettingsKey(d), edit |-> edit]
    OBVIOUS
  <2>2. Goes(c, w) /\ w.at = "store" /\ global' = global /\ c \in Tasks
    BY <1>7, <2>1 DEF AskDisplayLayout, Tasks
  <2> QED BY <1>3, <2>2
<1>8. ASSUME NEW c \in Clients, NEW d \in Displays, ApplyResync(c, d) PROVE GlobalKnown'
  <2>1. PICK w : w = [work[c] EXCEPT !.todo = @ \ {d}]
    OBVIOUS
  <2>2. Goes(c, w) /\ work[c].at = "override" /\ global' = global /\ c \in Tasks
    BY <1>8, <2>1 DEF ApplyResync, Tasks
  <2>3. w.at = "override"
    BY <2>1, <2>2, WorkAt DEF Sound, Overriding
  <2> QED BY <1>3, <2>2, <2>3
<1>9. ASSUME NEW c \in Clients,
             StoreDisplayLayout(c) \/ CompareGlobalLayout(c) \/ ResyncAll(c) \/ ApplyRelink(c)
      PROVE  GlobalKnown'
  <2>1. PICK w : w = [at |-> "collect", todo |-> {}]
    OBVIOUS
  <2>2. w.at # "global" /\ c \in Tasks
    BY <2>1 DEF Tasks
  <2>3. CASE StoreDisplayLayout(c)
    BY <1>3, <1>5, <2>2, <2>3 DEF StoreDisplayLayout
  <2>4. CASE CompareGlobalLayout(c)
    <3>1. global' = global /\ (Goes(c, Rest) \/ Goes(c, w))
      BY <2>1, <2>4 DEF CompareGlobalLayout
    <3> QED BY <1>3, <1>5, <2>2, <3>1
  <2>5. CASE ResyncAll(c)
    BY <1>3, <1>5, <2>2, <2>5 DEF ResyncAll
  <2>6. CASE ApplyRelink(c)
    <3>1. global' = global /\ (Goes(c, Rest) \/ \E d : Goes(c, Syncs({d})))
      BY <2>6 DEF ApplyRelink
    <3> QED BY <1>3, <1>5, <2>2, <3>1
  <2> QED BY <1>9, <2>3, <2>4, <2>5, <2>6
<1>10. ASSUME NEW c \in Clients, NEW r \in Renderers, NEW prefs, NEW ds,
              SetWallpaperLayout(c, r, prefs) \/ Apply(c, r, ds, prefs)
       PROVE  GlobalKnown'
  <2>1. PICK w : w = [at |-> "override", todo |-> AudienceToTell(r), next |-> ds, renderer |-> r]
    OBVIOUS
  <2>2. w.at # "global" /\ c \in Tasks
    BY <2>1 DEF Tasks
  <2>3. global' = global /\ (Goes(c, Resyncs(AudienceToTell(r))) \/ Goes(c, w))
    BY <1>10, <2>1 DEF SetWallpaperLayout, Apply, Overridden
  <2> QED BY <1>3, <1>5, <2>2, <2>3
<1>11. ASSUME NEW d \in Displays, Migrate(d) PROVE GlobalKnown'
  <2>1. PICK w : w = [at |-> "register", todo |-> {}]
    OBVIOUS
  <2>2. Goes(d, w) /\ w.at = "register" /\ global' = global /\ d \in Tasks
    BY <1>11, <2>1 DEF Migrate, Tasks
  <2> QED BY <1>3, <2>2
<1>12. ASSUME NEW d \in Displays, NEW size, Register(d) \/ Resize(d, size) PROVE GlobalKnown'
  <2>1. d \in Tasks
    BY DEF Tasks
  <2>2. global' = global /\ (Goes(d, Syncs({d})) \/ Goes(d, Resyncs({d})))
    BY <1>12 DEF Register, Resize
  <2> QED BY <1>3, <1>5, <2>1, <2>2
<1>13. ASSUME NEW r \in Renderers, UnregisterRenderer(r) \/ OnRendererBind(r) PROVE GlobalKnown'
  <2>1. r \in Tasks
    BY DEF Tasks
  <2>2. global' = global /\ Goes(r, Syncs(AudienceOf(r)))
    BY <1>13 DEF UnregisterRenderer, OnRendererBind
  <2> QED BY <1>3, <1>5, <2>1, <2>2
<1>14. ASSUME NEW r \in Renderers, ReadColour(r) \/ WriteColour(r) PROVE GlobalKnown'
  <2>1. r \in Tasks
    BY DEF Tasks
  <2>2. PICK w : w = [at |-> "colour", todo |-> {}, colour |-> handle[r].colour]
    OBVIOUS
  <2>3. w.at # "global"
    BY <2>2
  <2>4. global' = global /\ (Goes(r, w) \/ \E ds : Goes(r, Resyncs(ds)))
    BY <1>14, <2>2 DEF ReadColour, WriteColour
  <2> QED BY <1>3, <1>5, <2>1, <2>3, <2>4
<1>15. \/ \E c \in Clients, d \in Displays : \E on \in BOOLEAN : StoreOther(c, d, on)
       \/ \E d \in Displays : Unregister(d)
       \/ \E r \in Renderers : RegisterRenderer(r)
       \/ \E r \in Renderers, tex \in Pictures : BindBuffers(r, tex)
       \/ \E r \in Renderers, colour \in Geometries : ReportState(r, colour)
       => work' = work /\ global' = global
  BY DEF StoreOther, Unregister, RegisterRenderer, BindBuffers, ReportState
<1> QED
  BY <1>1, <1>2, <1>4, <1>6, <1>7, <1>8, <1>9, <1>10, <1>11, <1>12, <1>13, <1>14, <1>15
  DEF LayoutNext

-----------------------------------------------------------------------------
LayoutsInv == Sound /\ GlobalKnown /\ \A d \in Displays : InTime(d)

LEMMA InTimeStep ==
  ASSUME Sound, OneConnection, KeysApart, GlobalKnown, \A e \in Displays : InTime(e),
         LayoutNext, NEW d \in Displays
  PROVE  InTime(d)'
<1>0. InTime(d)
  OBVIOUS
<1>1. ASSUME NEW t \in Tasks, NEW e \in Displays, ResyncDisplay(t, e) \/ SyncDisplay(t, e)
      PROVE  InTime(d)'
  <2>1. InTime(e)
    OBVIOUS
  <2>2. CASE ResyncDisplay(t, e)
    BY <1>0, <2>1, <2>2, ResyncKeeps
  <2>3. CASE SyncDisplay(t, e)
    BY <1>0, <2>1, <2>3, SyncKeeps
  <2> QED BY <1>1, <2>2, <2>3
<1>2. ASSUME NEW c \in Clients, NEW e \in Displays, NEW edit, AskDisplayLayout(c, e, edit)
      PROVE  InTime(d)'
  BY <1>0, <1>2, AskKeeps
<1>3. ASSUME NEW c \in Clients, NEW e \in Displays, NEW on \in BOOLEAN, StoreOther(c, e, on)
      PROVE  InTime(d)'
  BY <1>0, <1>3, StoreOtherKeeps
<1>4. ASSUME NEW c \in Clients, NEW e \in Displays, ApplyResync(c, e) PROVE InTime(d)'
  <2>1. InTime(e)
    OBVIOUS
  <2> QED BY <1>0, <1>4, <2>1, ApplyResyncKeeps
<1>5. ASSUME NEW c \in Clients, NEW edit, AskGlobalLayout(c, edit) PROVE InTime(d)'
  BY <1>0, <1>5, AskKeeps
<1>6. ASSUME NEW c \in Clients, StoreDisplayLayout(c) PROVE InTime(d)'
  BY <1>0, <1>6, StoreDisplayKeeps
<1>7. ASSUME NEW c \in Clients, StoreGlobalLayout(c) PROVE InTime(d)'
  BY <1>0, <1>7, StoreGlobalKeeps
<1>8. ASSUME NEW c \in Clients, CompareGlobalLayout(c) PROVE InTime(d)'
  BY <1>0, <1>8, CompareKeeps
<1>9. ASSUME NEW c \in Clients, ResyncAll(c) PROVE InTime(d)'
  BY <1>0, <1>9, CollectKeeps
<1>10. ASSUME NEW c \in Clients, ApplyRelink(c) PROVE InTime(d)'
  BY <1>0, <1>10, RelinkKeeps
<1>11. ASSUME NEW c \in Clients, NEW r \in Renderers, NEW prefs, SetWallpaperLayout(c, r, prefs)
       PROVE  InTime(d)'
  BY <1>0, <1>11, SetWallpaperKeeps
<1>12. ASSUME NEW c \in Clients, NEW r \in Renderers, NEW prefs, NEW ds, Apply(c, r, ds, prefs)
       PROVE  InTime(d)'
  BY <1>0, <1>12, ApplyKeeps
<1>13. ASSUME NEW e \in Displays, Migrate(e) PROVE InTime(d)'
  BY <1>0, <1>13, MigrateKeeps
<1>14. ASSUME NEW e \in Displays, Register(e) PROVE InTime(d)'
  BY <1>0, <1>14, RegisterKeeps
<1>15. ASSUME NEW e \in Displays, Unregister(e) PROVE InTime(d)'
  BY <1>0, <1>15, UnregisterKeeps
<1>16. ASSUME NEW e \in Displays, NEW size \in Sizes, Resize(e, size) PROVE InTime(d)'
  BY <1>0, <1>16, ResizeKeeps
<1>17. ASSUME NEW r \in Renderers, RegisterRenderer(r) PROVE InTime(d)'
  BY <1>0, <1>17, RegisterRendererKeeps
<1>18. ASSUME NEW r \in Renderers, UnregisterRenderer(r) PROVE InTime(d)'
  BY <1>0, <1>18, UnregisterRendererKeeps
<1>19. ASSUME NEW r \in Renderers, OnRendererBind(r) PROVE InTime(d)'
  BY <1>0, <1>19, OnBindKeeps
<1>20. ASSUME NEW r \in Renderers, ReadColour(r) PROVE InTime(d)'
  BY <1>0, <1>20, ReadColourKeeps
<1>21. ASSUME NEW r \in Renderers, WriteColour(r) PROVE InTime(d)'
  BY <1>0, <1>21, WriteColourKeeps
<1>22. ASSUME NEW r \in Renderers, NEW tex, BindBuffers(r, tex) PROVE InTime(d)'
  BY <1>0, <1>22, BindKeeps
<1>23. ASSUME NEW r \in Renderers, NEW colour, ReportState(r, colour) PROVE InTime(d)'
  BY <1>0, <1>23, ReportKeeps
<1> QED
  BY <1>1, <1>2, <1>3, <1>4, <1>5, <1>6, <1>7, <1>8, <1>9, <1>10, <1>11, <1>12, <1>13, <1>14,
     <1>15, <1>16, <1>17, <1>18, <1>19, <1>20, <1>21, <1>22, <1>23 DEF LayoutNext

LEMMA LayoutsInvStep ==
  ASSUME LayoutsInv, OneConnection, KeysApart, [LayoutNext]_allVars
  PROVE  LayoutsInv'
<1>1. Sound'
  BY TypesStep DEF LayoutsInv, Sound
<1>2. CASE LayoutNext
  <2>1. GlobalKnown'
    BY <1>2, GlobalKnownStep DEF LayoutsInv
  <2>2. \A d \in Displays : InTime(d)'
    BY <1>2, InTimeStep DEF LayoutsInv
  <2>3. (\A d \in Displays : InTime(d))'
    BY <2>2
  <2> QED BY <1>1, <2>1, <2>3 DEF LayoutsInv
<1>3. CASE UNCHANGED allVars
  <2>1. UNCHANGED vars /\ UNCHANGED <<global, entries, overrides, display, handle, work>>
    BY <1>3 DEF allVars, layoutVars
  <2>2. GlobalKnown'
    BY <2>1 DEF LayoutsInv, GlobalKnown
  <2>3. ASSUME NEW d \in Displays PROVE InTime(d)'
    <3>1. SameRoute(d) /\ SameSeat(d) /\ SameSight(d) /\ SameLayout(d)
      BY <2>1, RouteIdle, SightIdle, PrefsIdle DEF vars
    <3>2. KeepsSyncs(d) /\ KeepsTells(d)
      BY <2>1, WorkIdle
    <3> QED BY <3>1, <3>2, ApartKeeps DEF Apart, LayoutsInv, Sound
  <2>4. (\A d \in Displays : InTime(d))'
    BY <2>3
  <2> QED BY <1>1, <2>2, <2>4 DEF LayoutsInv
<1> QED BY <1>2, <1>3

LEMMA LayoutsInvInit == LayoutInit => LayoutsInv
<1> SUFFICES ASSUME LayoutInit PROVE LayoutsInv
  OBVIOUS
<1>1. Sound
  BY LayoutInitTypes DEF Sound
<1>2. GlobalKnown
  BY DEF LayoutInit, GlobalKnown, Rest, Tasks
<1>3. ASSUME NEW d \in Displays PROVE InTime(d)
  <2>1. display[d].on = FALSE /\ display[d].renderer = NoRenderer
    BY DEF LayoutInit, Gone
  <2> QED BY <2>1 DEF InTime, OffIsFree, Stays, BoundInTime, ToldInTime
<1> QED BY <1>1, <1>2, <1>3 DEF LayoutsInv

\* With nothing on its way to a display, it is bound and draws as it should.
LEMMA NothingIsLeft == LayoutsInv => ConfigsAreCurrent
<1> SUFFICES ASSUME LayoutsInv, NEW d \in Displays, display[d].on, ~OnItsWay(d)
             PROVE  IF Bindable(d) = {} THEN display[d].renderer = NoRenderer
                    ELSE \A l \in Bindable(d) :
                           /\ display[d].renderer = l.renderer
                           /\ display[d].gen = handle[l.renderer].pool.gen
                           /\ HidesLegacy(d) \/ Picture(display[d].shown) = Picture(Wanted(d, l))
  BY DEF ConfigsAreCurrent
<1>1. \A t \in Tasks : d \notin work[t].todo /\ work[t].at \notin {"compare", "collect", "override"}
  BY DEF OnItsWay
<1>2. \A r \in Renderers : ~(handle[r].binds > 0)
  BY DEF OnItsWay
<1>3. renderers \subseteq Renderers
  BY DEF LayoutsInv, Sound, TableInv, TypeOK
<1>4. ~SyncComes(d)
  BY <1>1, <1>2, <1>3 DEF SyncComes, ClientSyncs, Syncing, Tasks
<1>5. ~Tells(d)
  BY <1>1 DEF Tells, Visiting, Deciding, Tasks
<1>6. Right(d) /\ Fits(d)
  BY <1>4, <1>5 DEF LayoutsInv, InTime, BoundInTime, ToldInTime
<1>7. CASE Bindable(d) = {}
  <2>1. \A r \in Renderers : ~Binds(d, r)
    BY <1>7, BindableIs DEF LayoutsInv, Sound
  <2> QED BY <1>6, <1>7, <2>1 DEF Right
<1>8. CASE Bindable(d) # {}
  <2>1. ASSUME NEW l \in Bindable(d)
        PROVE  /\ display[d].renderer = l.renderer
               /\ display[d].gen = handle[l.renderer].pool.gen
               /\ HidesLegacy(d) \/ Picture(display[d].shown) = Picture(Wanted(d, l))
    <3>1. PICK r \in Renderers : r = l.renderer /\ Binds(d, r)
      BY BindableIs DEF LayoutsInv, Sound
    <3>2. display[d].renderer = r /\ display[d].gen = handle[r].pool.gen
      BY <1>6, <3>1 DEF Right
    <3>3. HidesLegacy(d) \/ Picture(display[d].shown) = PictureOf(d, r)
      BY <1>6, <3>1 DEF Fits
    <3> QED BY <3>1, <3>2, <3>3, WantedIs
  <2> QED BY <1>8, <2>1
<1> QED BY <1>7, <1>8

(* A change of settings, of the wallpaper's own layout, of a display's     *)
(* size, its link or its pool reaches the picture: a display that no task  *)
(* is on its way to is bound to the pool of its link and draws it by the   *)
(* layout that its settings resolve to now (resync_display_set_config,     *)
(* sync_display).  One connection asks for changes, and no two displays    *)
(* share a name or a key.                                                  *)
THEOREM LayoutsConfigsAreCurrent ==
  OneConnection /\ KeysApart /\ LayoutSpec => []ConfigsAreCurrent
<1> SUFFICES ASSUME OneConnection, KeysApart PROVE LayoutSpec => []ConfigsAreCurrent
  OBVIOUS
<1>1. LayoutInit => LayoutsInv
  BY LayoutsInvInit
<1>2. LayoutsInv /\ [LayoutNext]_allVars => LayoutsInv'
  BY LayoutsInvStep
<1>3. LayoutsInv => ConfigsAreCurrent
  BY NothingIsLeft
<1> QED BY <1>1, <1>2, <1>3, PTL DEF LayoutSpec

-----------------------------------------------------------------------------
(* Projections, for every unit and all sizes that it makes exact.          *)

\* A size whose sides are positive and divide the unit.
Measured(s) ==
  /\ s[1] \in Nat \ {0} /\ Unit % s[1] = 0
  /\ s[2] \in Nat \ {0} /\ Unit % s[2] = 0

LEMMA QuotientIs ==
  ASSUME NEW n \in Nat \ {0}, NEW q \in Int
  PROVE  (q * n) \div n = q
OBVIOUS

LEMMA QuotientOfMultiple ==
  ASSUME NEW m \in Nat, NEW n \in Nat \ {0}, m % n = 0
  PROVE  \E k \in Nat : m = k * n
<1> DEFINE k == m \div n
<1>1. m = n * k + (m % n) /\ k \in Nat
  OBVIOUS
<1> HIDE DEF k
<1>2. m = k * n
  BY <1>1
<1> QED BY <1>1, <1>2

LEMMA ShareIs ==
  ASSUME NEW length \in Nat, NEW percent \in Percent
  PROVE  Share(length, percent) \in Nat /\ Share(length, percent) <= length
<1> DEFINE p == length * percent
<1>1. p \in Nat
  BY DEF Percent
<1>2. p <= 100 * length
  BY DEF Percent
<1> HIDE DEF p
<1>3. p \div 100 \in Nat /\ p \div 100 <= length
  BY <1>1, <1>2
<1> QED BY <1>3 DEF Share, p

\* What is scaled by a quotient of two sizes is scaled exactly.
LEMMA ScaledIs ==
  ASSUME NEW a \in Nat, NEW num \in Nat, NEW den \in Nat \ {0}, Unit \in Nat, Unit % den = 0
  PROVE  Scaled(a, num, den) \in Nat /\ Scaled(a, num, den) * den = Unit * a * num
<1>1. PICK k \in Nat : Unit = k * den
  BY QuotientOfMultiple
<1>2. Unit * a * num = (k * a * num) * den /\ k * a * num \in Nat
  BY <1>1
<1>3. Scaled(a, num, den) = k * a * num
  BY <1>2, QuotientIs DEF Scaled
<1> QED BY <1>2, <1>3

LEMMA Cancel ==
  ASSUME NEW a \in Nat, NEW b \in Nat, NEW n \in Nat \ {0}, a * n <= b * n
  PROVE  a <= b
<1> SUFFICES ASSUME ~(a <= b) PROVE FALSE
  OBVIOUS
<1>1. a >= b + 1 /\ (b + 1) * n = b * n + n
  OBVIOUS
<1>2. a * n >= (b + 1) * n
  BY <1>1
<1> QED BY <1>1, <1>2

LEMMA Grows ==
  ASSUME NEW a \in Nat, NEW b \in Nat, NEW n \in Nat, a <= b
  PROVE  a * n <= b * n
OBVIOUS

LEMMA PositiveFactor ==
  ASSUME NEW a \in Nat, NEW n \in Nat, a * n > 0
  PROVE  a > 0
OBVIOUS

LEMMA PositiveProduct ==
  ASSUME NEW a \in Nat \ {0}, NEW b \in Nat \ {0}
  PROVE  a * b \in Nat \ {0}
OBVIOUS

\* What is scaled to the inside of a frame lies in it, keeps its aspect and
\* touches two sides.
LEMMA InsideIs ==
  ASSUME NEW size, NEW frame, Measured(size), Measured(frame), Unit \in Nat \ {0},
         NEW in, in = Inside(size, frame)
  PROVE  /\ in[1] \in Nat \ {0} /\ in[1] <= Unit * frame[1]
         /\ in[2] \in Nat \ {0} /\ in[2] <= Unit * frame[2]
         /\ in[1] * size[2] = in[2] * size[1]
         /\ in[1] = Unit * frame[1] \/ in[2] = Unit * frame[2]
<1> DEFINE s1 == size[1]
           s2 == size[2]
           f1 == frame[1]
           f2 == frame[2]
<1>0. /\ s1 \in Nat \ {0} /\ s2 \in Nat \ {0} /\ f1 \in Nat \ {0} /\ f2 \in Nat \ {0}
      /\ Unit % s1 = 0 /\ Unit % s2 = 0
  BY DEF Measured
<1>1. CASE Narrower(frame, size)
  <2> DEFINE h == Scaled(s2, f1, s1)
  <2>1. in[1] = Unit * f1 /\ in[2] = h
    BY <1>1 DEF Inside
  <2>2. h \in Nat /\ h * s1 = Unit * s2 * f1
    BY <1>0, ScaledIs
  <2>3. f1 * s2 <= f2 * s1
    BY <1>1 DEF Narrower
  <2> HIDE DEF h, s1, s2, f1, f2
  <2>4. Unit * f1 \in Nat \ {0} /\ Unit * f2 \in Nat /\ f1 * s2 \in Nat \ {0} /\ f2 * s1 \in Nat
    BY <1>0, PositiveProduct
  <2>5. h * s1 = Unit * (f1 * s2)
    BY <1>0, <2>2
  <2>6. h * s1 > 0
    BY <2>4, <2>5, PositiveProduct
  <2>7. h > 0
    BY <1>0, <2>2, <2>6, PositiveFactor
  <2>8. h * s1 <= (Unit * f2) * s1
    <3>1. Unit * (f1 * s2) <= Unit * (f2 * s1)
      BY <2>3, <2>4, Grows
    <3>2. Unit * (f2 * s1) = (Unit * f2) * s1
      BY <1>0
    <3> QED BY <2>5, <3>1, <3>2
  <2>9. h <= Unit * f2
    BY <1>0, <2>2, <2>4, <2>8, Cancel
  <2>10. (Unit * f1) * s2 = h * s1
    BY <1>0, <2>5
  <2> QED BY <2>1, <2>2, <2>4, <2>7, <2>9, <2>10 DEF s1, s2, f1, f2
<1>2. CASE ~Narrower(frame, size)
  <2> DEFINE w == Scaled(s1, f2, s2)
  <2>1. in[1] = w /\ in[2] = Unit * f2
    BY <1>2 DEF Inside
  <2>2. w \in Nat /\ w * s2 = Unit * s1 * f2
    BY <1>0, ScaledIs
  <2>3. f2 * s1 <= f1 * s2
    BY <1>0, <1>2 DEF Narrower
  <2> HIDE DEF w, s1, s2, f1, f2
  <2>4. Unit * f2 \in Nat \ {0} /\ Unit * f1 \in Nat /\ f2 * s1 \in Nat \ {0} /\ f1 * s2 \in Nat
    BY <1>0, PositiveProduct
  <2>5. w * s2 = Unit * (f2 * s1)
    BY <1>0, <2>2
  <2>6. w * s2 > 0
    BY <2>4, <2>5, PositiveProduct
  <2>7. w > 0
    BY <1>0, <2>2, <2>6, PositiveFactor
  <2>8. w * s2 <= (Unit * f1) * s2
    <3>1. Unit * (f2 * s1) <= Unit * (f1 * s2)
      BY <2>3, <2>4, Grows
    <3>2. Unit * (f1 * s2) = (Unit * f1) * s2
      BY <1>0
    <3> QED BY <2>5, <3>1, <3>2
  <2>9. w <= Unit * f1
    BY <1>0, <2>2, <2>4, <2>8, Cancel
  <2>10. w * s2 = (Unit * f2) * s1
    BY <1>0, <2>5
  <2> QED BY <2>1, <2>2, <2>4, <2>7, <2>9, <2>10 DEF s1, s2, f1, f2
<1> QED BY <1>1, <1>2

\* A rectangle of whole units in a surface, and not empty.
Lies(rect, size) ==
  /\ rect = Rect(rect.x, rect.y, rect.w, rect.h)
  /\ rect.x \in Nat /\ rect.w \in Nat \ {0} /\ rect.x + rect.w <= Unit * size[1]
  /\ rect.y \in Nat /\ rect.h \in Nat \ {0} /\ rect.y + rect.h <= Unit * size[2]

LEMMA WholeLies ==
  ASSUME NEW size, Measured(size), Unit \in Nat \ {0} PROVE Lies(Whole(size), size)
<1>1. Unit * size[1] \in Nat \ {0} /\ Unit * size[2] \in Nat \ {0}
  BY PositiveProduct DEF Measured
<1> QED BY <1>1 DEF Lies, Whole, Rect

LEMMA PlacedLies ==
  ASSUME NEW size, NEW frame, NEW at \in Percent \X Percent, Unit \in Nat, Measured(frame),
         size[1] \in Nat \ {0}, size[1] <= Unit * frame[1],
         size[2] \in Nat \ {0}, size[2] <= Unit * frame[2]
  PROVE  Lies(Placed(size, frame, at), frame)
<1>1. Unit * frame[1] \in Nat /\ Unit * frame[2] \in Nat
  BY DEF Measured
<1>2. /\ Unit * frame[1] - size[1] \in Nat /\ Unit * frame[2] - size[2] \in Nat
      /\ at[1] \in Percent /\ at[2] \in Percent
  BY <1>1
<1> DEFINE x == Share(Unit * frame[1] - size[1], at[1])
           y == Share(Unit * frame[2] - size[2], at[2])
<1>3. /\ x \in Nat /\ x <= Unit * frame[1] - size[1]
      /\ y \in Nat /\ y <= Unit * frame[2] - size[2]
  BY <1>2, ShareIs
<1>4. Placed(size, frame, at) = Rect(x, y, size[1], size[2])
  BY DEF Placed
<1> HIDE DEF x, y
<1>5. x + size[1] <= Unit * frame[1] /\ y + size[2] <= Unit * frame[2]
  BY <1>1, <1>3
<1> QED BY <1>3, <1>4, <1>5 DEF Lies, Rect

\* One axis shown pixel for pixel: a part of both, of one length, and the
\* whole of the shorter.
AxisFits(axis, t, d) ==
  /\ axis[1] \in Nat /\ axis[2] \in Nat \ {0} /\ axis[1] + axis[2] <= t
  /\ axis[3] \in Nat /\ axis[4] \in Nat \ {0} /\ axis[3] + axis[4] <= d
  /\ axis[2] = axis[4] /\ (axis[2] = t \/ axis[4] = d)

LEMMA AxisCenteredFits ==
  ASSUME NEW t \in Nat \ {0}, NEW d \in Nat \ {0}, NEW percent \in Percent
  PROVE  AxisFits(AxisCentered(t, d, percent), t, d)
<1> DEFINE axis == AxisCentered(t, d, percent)
<1>1. CASE t <= d
  <2>1. axis = <<0, t, Share(d - t, percent), t>>
    BY <1>1 DEF AxisCentered
  <2> DEFINE gap == Share(d - t, percent)
  <2>2. gap \in Nat /\ gap <= d - t
    BY <1>1, ShareIs
  <2> HIDE DEF axis, gap
  <2>3. axis[1] = 0 /\ axis[2] = t /\ axis[3] = gap /\ axis[4] = t
    BY <2>1 DEF gap
  <2>4. AxisFits(axis, t, d)
    BY <1>1, <2>2, <2>3 DEF AxisFits
  <2> QED BY <2>4 DEF axis
<1>2. CASE ~(t <= d)
  <2>1. axis = <<Share(t - d, percent), d, 0, d>>
    BY <1>2 DEF AxisCentered
  <2> DEFINE gap == Share(t - d, percent)
  <2>2. gap \in Nat /\ gap <= t - d
    BY <1>2, ShareIs
  <2> HIDE DEF axis, gap
  <2>3. axis[1] = gap /\ axis[2] = d /\ axis[3] = 0 /\ axis[4] = d
    BY <2>1 DEF gap
  <2>4. AxisFits(axis, t, d)
    BY <1>2, <2>2, <2>3 DEF AxisFits
  <2> QED BY <2>4 DEF axis
<1> QED BY <1>1, <1>2

-----------------------------------------------------------------------------
(* What compute returns, for every location a percentage can say.          *)
AnyLayout == [fillmode : FillModes, location : Percent \X Percent, rotation : Rotations]

LEMMA ComputeIs ==
  ASSUME NEW tex, NEW disp, Measured(tex), Measured(disp), Unit \in Nat \ {0},
         NEW layout \in AnyLayout, NEW p, p = Compute(tex, disp, layout)
  PROVE  /\ p = [source |-> p.source, dest |-> p.dest]
         /\ Lies(p.source, tex) /\ Lies(p.dest, disp)
         /\ ShowsRight(layout.fillmode, tex, disp, p)
<1> DEFINE at == layout.location
           mode == layout.fillmode
<1>1. at \in Percent \X Percent /\ mode \in FillModes
  BY DEF AnyLayout
<1>2. 0 \notin {tex[1], tex[2], disp[1], disp[2]}
  BY DEF Measured
<1>3. /\ Lies(Whole(tex), tex) /\ Lies(Whole(disp), disp)
      /\ Whole(tex) = Rect(0, 0, Unit * tex[1], Unit * tex[2])
      /\ Whole(disp) = Rect(0, 0, Unit * disp[1], Unit * disp[2])
  BY WholeLies DEF Whole
<1>4. /\ tex[1] \in Nat \ {0} /\ tex[2] \in Nat \ {0}
      /\ disp[1] \in Nat \ {0} /\ disp[2] \in Nat \ {0}
  BY DEF Measured
<1>5. CASE mode = "stretched"
  <2>1. p = [source |-> Whole(tex), dest |-> Whole(disp)]
    BY <1>2, <1>5 DEF Compute, Stretched
  <2> QED BY <1>3, <1>5, <2>1 DEF ShowsRight, Rect
<1>6. CASE mode = "fit"
  <2> DEFINE in == Inside(tex, disp)
  <2>1. p = [source |-> Whole(tex), dest |-> Placed(in, disp, at)]
    BY <1>2, <1>6 DEF Compute, Fit
  <2>2. /\ in[1] \in Nat \ {0} /\ in[1] <= Unit * disp[1]
        /\ in[2] \in Nat \ {0} /\ in[2] <= Unit * disp[2]
        /\ in[1] * tex[2] = in[2] * tex[1]
    BY InsideIs
  <2>3. /\ p.source.w = Unit * tex[1] /\ p.source.h = Unit * tex[2]
        /\ p.dest.w = in[1] /\ p.dest.h = in[2]
    BY <1>3, <2>1 DEF Placed, Rect
  <2>4. Lies(p.dest, disp)
    BY <1>1, <2>1, <2>2, PlacedLies
  <2> HIDE DEF in
  <2>5. in[1] * (Unit * tex[2]) = in[2] * (Unit * tex[1])
    <3>1. in[1] * (Unit * tex[2]) = Unit * (in[1] * tex[2])
      BY <1>4, <2>2
    <3>2. in[2] * (Unit * tex[1]) = Unit * (in[2] * tex[1])
      BY <1>4, <2>2
    <3> QED BY <2>2, <3>1, <3>2
  <2> QED BY <1>3, <1>6, <2>1, <2>3, <2>4, <2>5 DEF ShowsRight
<1>7. CASE mode = "crop"
  <2> DEFINE in == Inside(disp, tex)
  <2>1. p = [source |-> Placed(in, tex, at), dest |-> Whole(disp)]
    BY <1>2, <1>7 DEF Compute, Crop
  <2>2. /\ in[1] \in Nat \ {0} /\ in[1] <= Unit * tex[1]
        /\ in[2] \in Nat \ {0} /\ in[2] <= Unit * tex[2]
        /\ in[1] * disp[2] = in[2] * disp[1]
    BY InsideIs
  <2>3. /\ p.dest.w = Unit * disp[1] /\ p.dest.h = Unit * disp[2]
        /\ p.source.w = in[1] /\ p.source.h = in[2]
    BY <1>3, <2>1 DEF Placed, Rect
  <2>4. Lies(p.source, tex)
    BY <1>1, <2>1, <2>2, PlacedLies
  <2> HIDE DEF in
  <2>5. (Unit * disp[1]) * in[2] = (Unit * disp[2]) * in[1]
    <3>1. (Unit * disp[1]) * in[2] = Unit * (in[2] * disp[1])
      BY <1>4, <2>2
    <3>2. (Unit * disp[2]) * in[1] = Unit * (in[1] * disp[2])
      BY <1>4, <2>2
    <3> QED BY <2>2, <3>1, <3>2
  <2> QED BY <1>3, <1>7, <2>1, <2>3, <2>4, <2>5 DEF ShowsRight
<1>8. CASE mode = "centered"
  <2> DEFINE tw == Unit * tex[1]
             th == Unit * tex[2]
             dw == Unit * disp[1]
             dh == Unit * disp[2]
             h == AxisCentered(tw, dw, at[1])
             v == AxisCentered(th, dh, at[2])
  <2>1. p = [source |-> Rect(h[1], v[1], h[2], v[2]), dest |-> Rect(h[3], v[3], h[4], v[4])]
    BY <1>2, <1>8 DEF Compute, Centered
  <2>2. /\ Unit * tex[1] \in Nat \ {0} /\ Unit * tex[2] \in Nat \ {0}
        /\ Unit * disp[1] \in Nat \ {0} /\ Unit * disp[2] \in Nat \ {0}
        /\ at[1] \in Percent /\ at[2] \in Percent
    BY <1>1, <1>4, PositiveProduct
  <2>3. AxisFits(h, tw, dw)
    BY <2>2, AxisCenteredFits
  <2>4. AxisFits(v, th, dh)
    BY <2>2, AxisCenteredFits
  <2> HIDE DEF h, v
  <2>5. /\ p.source.x = h[1] /\ p.source.y = v[1] /\ p.source.w = h[2] /\ p.source.h = v[2]
        /\ p.dest.x = h[3] /\ p.dest.y = v[3] /\ p.dest.w = h[4] /\ p.dest.h = v[4]
        /\ p.source = Rect(h[1], v[1], h[2], v[2]) /\ p.dest = Rect(h[3], v[3], h[4], v[4])
    BY <2>1 DEF Rect
  <2>6. Lies(p.source, tex) /\ Lies(p.dest, disp)
    BY <2>3, <2>4, <2>5 DEF AxisFits, Lies, tw, th, dw, dh
  <2>7. ShowsRight(mode, tex, disp, p)
    BY <1>8, <2>3, <2>4, <2>5 DEF AxisFits, ShowsRight, tw, th, dw, dh
  <2> QED BY <2>1, <2>5, <2>6, <2>7
<1> QED BY <1>1, <1>5, <1>6, <1>7, <1>8 DEF FillModes

-----------------------------------------------------------------------------
(* Corner on corner.                                                       *)
LEMMA PartOf ==
  ASSUME NEW n \in Nat \ {0}, NEW length \in Nat
  PROVE  (0 * length) \div n = 0 /\ (n * length) \div n = length
<1>1. n * length = length * n
  OBVIOUS
<1> QED BY <1>1, QuotientIs

\* A corner is named by two bits.
CornerAt(rect, a, b) == <<rect.x + a * rect.w, rect.y + b * rect.h>>

LEMMA CornersAre ==
  ASSUME NEW rect, rect.x \in Int, rect.y \in Int, rect.w \in Int, rect.h \in Int
  PROVE  Corners(rect) = {CornerAt(rect, a, b) : a, b \in {0, 1}}
<1>1. /\ CornerAt(rect, 0, 0) = <<rect.x, rect.y>>
      /\ CornerAt(rect, 1, 0) = <<rect.x + rect.w, rect.y>>
      /\ CornerAt(rect, 0, 1) = <<rect.x, rect.y + rect.h>>
      /\ CornerAt(rect, 1, 1) = <<rect.x + rect.w, rect.y + rect.h>>
  BY DEF CornerAt
<1>2. {CornerAt(rect, a, b) : a, b \in {0, 1}}
        = {CornerAt(rect, 0, 0), CornerAt(rect, 1, 0), CornerAt(rect, 0, 1), CornerAt(rect, 1, 1)}
  OBVIOUS
<1> QED BY <1>1, <1>2 DEF Corners

LEMMA CornerUnder ==
  ASSUME NEW cfg, NEW frame, NEW size, Lies(cfg.dest, frame), Lies(cfg.source, size),
         NEW a \in {0, 1}, NEW b \in {0, 1}, NEW c, c = CornerAt(cfg.dest, a, b),
         NEW q, q = PointToTexture(c[1], c[2], cfg)
  PROVE  /\ cfg.transform = 0 => q = CornerAt(cfg.source, a, b)
         /\ cfg.transform = 1 => q = CornerAt(cfg.source, 1 - b, a)
         /\ cfg.transform = 2 => q = CornerAt(cfg.source, 1 - a, 1 - b)
         /\ cfg.transform = 3 => q = CornerAt(cfg.source, b, 1 - a)
<1> DEFINE d == cfg.dest
           s == cfg.source
           n == d.w * d.h
           u == (c[1] - d.x) * d.h
           v == (c[2] - d.y) * d.w
           at == Untransform(cfg.transform, u, v, n)
<1>1. /\ d.x \in Nat /\ d.y \in Nat /\ d.w \in Nat \ {0} /\ d.h \in Nat \ {0}
      /\ s.x \in Nat /\ s.y \in Nat /\ s.w \in Nat \ {0} /\ s.h \in Nat \ {0}
  BY DEF Lies
<1>2. n \in Nat \ {0}
  BY <1>1, PositiveProduct
<1>3. c[1] = d.x + a * d.w /\ c[2] = d.y + b * d.h
  BY DEF CornerAt
<1>4. u = a * n /\ v = b * n
  <2>1. c[1] - d.x = a * d.w /\ c[2] - d.y = b * d.h
    BY <1>1, <1>3
  <2>2. (a * d.w) * d.h = a * (d.w * d.h) /\ (b * d.h) * d.w = b * (d.w * d.h)
    BY <1>1
  <2> QED BY <2>1, <2>2
<1>5. q = <<s.x + (at[1] * s.w) \div n, s.y + (at[2] * s.h) \div n>>
  <2>1. ~(d.w <= 0 \/ d.h <= 0)
    BY <1>1
  <2>2. a * n \in 0..n /\ b * n \in 0..n
    BY <1>2
  <2>3. ~(u \notin 0..n \/ v \notin 0..n)
    BY <1>4, <2>2
  <2> QED BY <2>1, <2>3 DEF PointToTexture
<1>6. ASSUME NEW e \in {0, 1}, NEW length \in Nat PROVE ((e * n) * length) \div n = e * length
  <2> HIDE DEF n
  <2>1. CASE e = 0
    BY <1>2, <2>1, PartOf
  <2>2. CASE e = 1
    BY <1>2, <2>2, PartOf
  <2> QED BY <2>1, <2>2
<1>7. /\ cfg.transform = 0 => at = <<a * n, b * n>>
      /\ cfg.transform = 1 => at = <<(1 - b) * n, a * n>>
      /\ cfg.transform = 2 => at = <<(1 - a) * n, (1 - b) * n>>
      /\ cfg.transform = 3 => at = <<b * n, (1 - a) * n>>
  <2> HIDE DEF n, u, v
  <2>1. n - a * n = (1 - a) * n /\ n - b * n = (1 - b) * n
    BY <1>2
  <2> QED BY <1>4, <2>1 DEF Untransform
<1>8. 1 - a \in {0, 1} /\ 1 - b \in {0, 1} /\ s.w \in Nat /\ s.h \in Nat
  BY <1>1
<1>9. ASSUME NEW e \in {0, 1}, NEW f \in {0, 1}, at = <<e * n, f * n>>
      PROVE  q = CornerAt(s, e, f)
  <2> HIDE DEF n, u, v, at, s
  <2>1. (at[1] * s.w) \div n = e * s.w /\ (at[2] * s.h) \div n = f * s.h
    BY <1>6, <1>8, <1>9
  <2> QED BY <1>5, <2>1 DEF CornerAt
<1> QED BY <1>7, <1>8, <1>9

LEMMA CornerOnCorner ==
  ASSUME NEW cfg, NEW frame, NEW size, Lies(cfg.dest, frame), Lies(cfg.source, size),
         cfg.transform \in 0..3
  PROVE  {PointToTexture(c[1], c[2], cfg) : c \in Corners(cfg.dest)} = Corners(cfg.source)
<1> DEFINE under(a, b) == PointToTexture(CornerAt(cfg.dest, a, b)[1], CornerAt(cfg.dest, a, b)[2], cfg)
           on(a, b) == CornerAt(cfg.source, a, b)
<1>1. /\ Corners(cfg.dest) = {CornerAt(cfg.dest, a, b) : a, b \in {0, 1}}
      /\ Corners(cfg.source) = {on(a, b) : a, b \in {0, 1}}
  BY CornersAre DEF Lies
<1>2. \A a, b \in {0, 1} :
        /\ cfg.transform = 0 => under(a, b) = on(a, b)
        /\ cfg.transform = 1 => under(a, b) = on(1 - b, a)
        /\ cfg.transform = 2 => under(a, b) = on(1 - a, 1 - b)
        /\ cfg.transform = 3 => under(a, b) = on(b, 1 - a)
  BY CornerUnder
<1>3. {PointToTexture(c[1], c[2], cfg) : c \in Corners(cfg.dest)} = {under(a, b) : a, b \in {0, 1}}
  BY <1>1
<1> HIDE DEF under, on
<1>4. /\ {under(a, b) : a, b \in {0, 1}} = {under(0, 0), under(0, 1), under(1, 0), under(1, 1)}
      /\ {on(a, b) : a, b \in {0, 1}} = {on(0, 0), on(0, 1), on(1, 0), on(1, 1)}
  OBVIOUS
<1>5. cfg.transform \in {0, 1, 2, 3} /\ 1 - 0 = 1 /\ 1 - 1 = 0
  OBVIOUS
<1>6. {under(0, 0), under(0, 1), under(1, 0), under(1, 1)}
        = {on(0, 0), on(0, 1), on(1, 0), on(1, 1)}
  <2>1. CASE cfg.transform = 0
    BY <1>2, <2>1
  <2>2. CASE cfg.transform = 1
    <3>1. /\ under(0, 0) = on(1, 0) /\ under(0, 1) = on(0, 0)
          /\ under(1, 0) = on(1, 1) /\ under(1, 1) = on(0, 1)
      BY <1>2, <1>5, <2>2
    <3> QED BY <3>1
  <2>3. CASE cfg.transform = 2
    <3>1. /\ under(0, 0) = on(1, 1) /\ under(0, 1) = on(1, 0)
          /\ under(1, 0) = on(0, 1) /\ under(1, 1) = on(0, 0)
      BY <1>2, <1>5, <2>3
    <3> QED BY <3>1
  <2>4. CASE cfg.transform = 3
    <3>1. /\ under(0, 0) = on(0, 1) /\ under(0, 1) = on(1, 1)
          /\ under(1, 0) = on(0, 0) /\ under(1, 1) = on(1, 0)
      BY <1>2, <1>5, <2>4
    <3> QED BY <3>1
  <2> QED BY <1>5, <2>1, <2>2, <2>3, <2>4
<1> QED BY <1>1, <1>3, <1>4, <1>6

-----------------------------------------------------------------------------
(* All of it, for every location and not only for the nine alignments.     *)
ProjectsWell(tex, disp, layout) ==
  LET p == Project("black", tex, disp, layout)
      surface == Unturned(disp, layout.rotation)
  IN  /\ Within(p.source, tex) /\ Within(p.dest, surface)
      /\ ShowsRight(layout.fillmode, tex, surface, p)
      /\ {PointToTexture(c[1], c[2], p) : c \in Corners(p.dest)} = Corners(p.source)

LEMMA PicturesAreMeasured == \A s \in Pictures : Measured(s)
<1> SUFFICES ASSUME NEW s \in Pictures PROVE Measured(s)
  OBVIOUS
<1>1. s \in Sizes /\ s[1] \in Nat \ {0} /\ s[2] \in Nat \ {0}
  BY ProjectionAssumption DEF Pictures
<1>2. ASSUME NEW m \in Nat \ {0}, Unit % (2 * m) = 0 PROVE Unit % m = 0
  <2>1. PICK k \in Nat : Unit = k * (2 * m)
    BY <1>2, ProjectionAssumption, QuotientOfMultiple
  <2>2. Unit = (2 * k) * m
    BY <2>1
  <2>3. ((2 * k) * m) % m = 0
    OBVIOUS
  <2> QED BY <2>2, <2>3
<1>3. Unit % (2 * s[1]) = 0 /\ Unit % (2 * s[2]) = 0
  BY <1>1, ProjectionAssumption
<1> QED BY <1>1, <1>2, <1>3 DEF Measured

LEMMA AnyLocationFits ==
  ASSUME NEW tex \in Pictures, NEW disp \in Pictures, NEW layout \in AnyLayout
  PROVE  ProjectsWell(tex, disp, layout)
<1> DEFINE surface == Unturned(disp, layout.rotation)
           out == Compute(tex, surface, layout)
           p == Project("black", tex, disp, layout)
<1>1. Measured(tex) /\ Measured(disp) /\ Unit \in Nat \ {0}
  BY PicturesAreMeasured, ProjectionAssumption
<1>2. Measured(surface)
  BY <1>1 DEF Unturned, Measured
<1>3. /\ Lies(out.source, tex) /\ Lies(out.dest, surface)
      /\ ShowsRight(layout.fillmode, tex, surface, out)
  <2> HIDE DEF surface
  <2> QED BY <1>1, <1>2, ComputeIs
<1>4. p.source = out.source /\ p.dest = out.dest /\ p.transform \in 0..3
  <2>1. p = [source |-> out.source, dest |-> out.dest,
             transform |-> Transform(layout.rotation), clear |-> "black"]
    BY DEF Project
  <2>2. Transform(layout.rotation) \in 0..3
    BY DEF Transform, AnyLayout, Rotations
  <2> HIDE DEF out, p
  <2> QED BY <2>1, <2>2
<1> HIDE DEF out, p, surface
<1>5. Within(p.source, tex) /\ Within(p.dest, surface)
  BY <1>3, <1>4 DEF Lies, Within
<1>6. ShowsRight(layout.fillmode, tex, surface, p)
  BY <1>3, <1>4 DEF ShowsRight
<1>7. {PointToTexture(c[1], c[2], p) : c \in Corners(p.dest)} = Corners(p.source)
  BY <1>3, <1>4, CornerOnCorner
<1> QED BY <1>5, <1>6, <1>7 DEF ProjectsWell, p, surface

LEMMA AlignmentsSurvive == \A a \in Aligns : ToAlign(FromAlign(a)) = a
BY DEF Aligns, Edges, ToAlign, FromAlign, Factor, Bucket

(* A projection lies in the texture and on the surface, shows the picture  *)
(* as its fill mode says and maps corners to corners (layout.rs): for all  *)
(* pictures and displays, and by AnyLocationFits for all locations.        *)
THEOREM LayoutsProjectionsFit == LayoutSpec => []ProjectionsFit
<1>1. Resolved \subseteq AnyLayout
  <2>1. \A a \in Aligns : FromAlign(a) \in Percent \X Percent
    BY DEF Aligns, Edges, FromAlign, Factor, Percent
  <2> QED BY <2>1 DEF Resolved, AnyLayout
<1>2. \A tex, disp \in Pictures, layout \in Resolved : ProjectsWell(tex, disp, layout)
  BY <1>1, AnyLocationFits
<1>3. ProjectionsFit
  BY <1>2, AlignmentsSurvive DEF ProjectionsFit, AllFit, ProjectsWell
<1> QED BY <1>3, PTL
=============================================================================
