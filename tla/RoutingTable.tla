---------------------------- MODULE RoutingTable ----------------------------
(***************************************************************************)
(* The daemon's routing table (src/src/routing/table.rs): links keyed by   *)
(* id, and two indexes that must stay in step with them, one per display   *)
(* and one per renderer.  The Vec of ids an index holds is a set here: no  *)
(* caller depends on its order.  An absent index entry is the empty set,   *)
(* which is how every reader treats it (unwrap_or_default).                *)
(***************************************************************************)
EXTENDS Naturals

CONSTANTS Displays, Renderers, NoRenderer,
          Geometries,       \* rectangles, transform, clear colour and z-order of a link
          DefaultGeometry,  \* FULL_SRC, FULL_DST, opaque black, z 0
          MaxLinks          \* bound on the ids handed out

ASSUME TableAssumption ==
  /\ NoRenderer \notin Renderers
  /\ DefaultGeometry \in Geometries
  /\ MaxLinks \in Nat

VARIABLES nextLinkId, renderers, links, byDisplay, byRenderer

vars == <<nextLinkId, renderers, links, byDisplay, byRenderer>>

LinkIds == 1..MaxLinks
Link == [display : Displays, renderer : Renderers, geometry : Geometries]

TypeOK ==
  /\ nextLinkId \in 0..MaxLinks
  /\ renderers \subseteq Renderers
  /\ DOMAIN links \subseteq LinkIds
  /\ links \in [DOMAIN links -> Link]
  /\ byDisplay \in [Displays -> SUBSET LinkIds]
  /\ byRenderer \in [Renderers -> SUBSET LinkIds]

Init ==
  /\ nextLinkId = 0
  /\ renderers = {}
  /\ links = [i \in {} |-> DefaultGeometry]
  /\ byDisplay = [d \in Displays |-> {}]
  /\ byRenderer = [r \in Renderers |-> {}]

-----------------------------------------------------------------------------
(* What the lookups return.                                                *)

LinksForDisplay(d) == {links[i] : i \in byDisplay[d] \cap DOMAIN links}
LinksForRenderer(r) == {links[i] : i \in byRenderer[r] \cap DOMAIN links}

\* The renderer sync_display finds for d.
RouteOf(d) ==
  IF LinksForDisplay(d) = {} THEN NoRenderer
  ELSE (CHOOSE l \in LinksForDisplay(d) : TRUE).renderer

\* The displays unregister_renderer and mark_orphans find for r.
AudienceOf(r) == {l.display : l \in LinksForRenderer(r)}

-----------------------------------------------------------------------------
(* The maps after the links `ids' are dropped one by one: each link is     *)
(* retained out of the index entries its own record names, so the index    *)
(* follows the record and not the other way round.                         *)

LinksWithout(ids) == [i \in DOMAIN links \ ids |-> links[i]]

ByDisplayWithout(ids) ==
  [d \in Displays |->
     byDisplay[d] \ {i \in ids \cap DOMAIN links : links[i].display = d}]

ByRendererForgetful(ids) == byRenderer
ByRendererWithout(ids) ==
  [r \in Renderers |->
     byRenderer[r] \ {i \in ids \cap DOMAIN links : links[i].renderer = r}]

-----------------------------------------------------------------------------
AddRenderer(r) ==
  /\ renderers' = renderers \cup {r}
  /\ UNCHANGED <<nextLinkId, links, byDisplay, byRenderer>>

RemoveRendererKeepingLinks(r) ==
  /\ renderers' = renderers \ {r}
  /\ byRenderer' = [byRenderer EXCEPT ![r] = {}]
  /\ UNCHANGED <<nextLinkId, links, byDisplay>>

RemoveRenderer(r) ==
  /\ renderers' = renderers \ {r}
  /\ links' = LinksWithout(byRenderer[r])
  /\ byDisplay' = ByDisplayWithout(byRenderer[r])
  /\ byRenderer' = [byRenderer EXCEPT ![r] = {}]
  /\ UNCHANGED nextLinkId

\* add_link first removes whatever links the display already has.  It does
\* not ask whether the renderer is in the table.
AddLink(r, d) ==
  LET id == nextLinkId + 1
      old == byDisplay[d]
  IN  /\ nextLinkId < MaxLinks
      /\ nextLinkId' = id
      /\ links' = [i \in (DOMAIN links \ old) \cup {id} |->
                     IF i = id
                     THEN [display |-> d, renderer |-> r, geometry |-> DefaultGeometry]
                     ELSE links[i]]
      /\ byDisplay' = [ByDisplayWithout(old) EXCEPT ![d] = @ \cup {id}]
      /\ byRenderer' = [ByRendererWithout(old) EXCEPT ![r] = @ \cup {id}]
      /\ UNCHANGED renderers

UpdateLinkGeometry(id, g) ==
  /\ id \in DOMAIN links
  /\ links[id].geometry # g
  /\ links' = [links EXCEPT ![id].geometry = g]
  /\ UNCHANGED <<nextLinkId, renderers, byDisplay, byRenderer>>

RemoveLink(id) ==
  /\ id \in DOMAIN links
  /\ links' = LinksWithout({id})
  /\ byDisplay' = ByDisplayWithout({id})
  /\ byRenderer' = ByRendererWithout({id})
  /\ UNCHANGED <<nextLinkId, renderers>>

RemoveDisplay(d) ==
  /\ links' = LinksWithout(byDisplay[d])
  /\ byDisplay' = [byDisplay EXCEPT ![d] = {}]
  /\ byRenderer' = ByRendererWithout(byDisplay[d])
  /\ UNCHANGED <<nextLinkId, renderers>>

Next ==
  \/ \E r \in Renderers : AddRenderer(r)
  \/ \E r \in Renderers : RemoveRenderer(r)
  \/ \E r \in Renderers, d \in Displays : AddLink(r, d)
  \/ \E id \in LinkIds, g \in Geometries : UpdateLinkGeometry(id, g)
  \/ \E id \in LinkIds : RemoveLink(id)
  \/ \E d \in Displays : RemoveDisplay(d)

Spec == Init /\ [][Next]_vars

-----------------------------------------------------------------------------
(* The indexes hold exactly the ids of the links whose record names them,  *)
(* so no operation of table.rs leaves an id behind in one index or loses   *)
(* it from the other.                                                      *)
IndexesAgree ==
  /\ \A d \in Displays :
       byDisplay[d] = {i \in DOMAIN links : links[i].display = d}
  /\ \A r \in Renderers :
       byRenderer[r] = {i \in DOMAIN links : links[i].renderer = r}

(* "exactly one active renderer" (table.rs:123): two links never name the  *)
(* same display, whichever call put them there.                            *)
OneLinkPerDisplay ==
  \A i, j \in DOMAIN links : links[i].display = links[j].display => i = j

(* Every id in the table has been handed out by the counter.               *)
IdsIssued == DOMAIN links \subseteq 1..nextLinkId

(* The two ways the router looks at a link give the same answer: the       *)
(* displays a renderer's teardown visits (links_for_renderer) are the      *)
(* displays whose own lookup (links_for_display) finds that renderer.      *)
ViewsAgree ==
  \A r \in Renderers : AudienceOf(r) = {d \in Displays : RouteOf(d) = r}

(* A link id names one display and one renderer for ever: an id that       *)
(* enters the table has never been in it before, and the edge an id stands *)
(* for never changes while it is there.  set_link_geometry takes an id its  *)
(* caller read earlier, under another hold of the lock.                    *)
LinkIdsAreStable ==
  [][/\ \A i \in DOMAIN links' \ DOMAIN links : i > nextLinkId
     /\ \A i \in DOMAIN links \cap DOMAIN links' :
          /\ links'[i].display = links[i].display
          /\ links'[i].renderer = links[i].renderer]_vars

(* The table implements the abstract assignment of renderers to displays.  *)
Abstract == INSTANCE LinkMap WITH
              live <- renderers,
              link <- [d \in Displays |-> RouteOf(d)]

ImplementsLinkMap == Abstract!Spec
=============================================================================
