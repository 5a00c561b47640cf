------------------------------ MODULE LinkMap ------------------------------
(***************************************************************************)
(* What the routing layer promises, without ids or indexes: every display  *)
(* shows at most one renderer, and removing a renderer takes it off every  *)
(* display at once.  RoutingTable implements this specification with three *)
(* hash maps; Router uses it as its own view of the table.                 *)
(***************************************************************************)
CONSTANTS Displays,    \* display ids
          Renderers,   \* renderer ids
          NoRenderer   \* the display has no link

VARIABLES live,        \* renderers in the table
          link         \* the renderer each display is linked to

vars == <<live, link>>

TypeOK ==
  /\ live \subseteq Renderers
  /\ link \in [Displays -> Renderers \cup {NoRenderer}]

Init ==
  /\ live = {}
  /\ link = [d \in Displays |-> NoRenderer]

AddRenderer(r) ==
  /\ live' = live \cup {r}
  /\ UNCHANGED link

\* Removing a renderer also unlinks every display that shows it.
RemoveRenderer(r) ==
  /\ live' = live \ {r}
  /\ link' = [d \in Displays |-> IF link[d] = r THEN NoRenderer ELSE link[d]]

\* The table does not ask whether r is live.
Assign(ds, r) ==
  /\ link' = [d \in Displays |-> IF d \in ds THEN r ELSE link[d]]
  /\ UNCHANGED live

Unassign(ds) ==
  /\ link' = [d \in Displays |-> IF d \in ds THEN NoRenderer ELSE link[d]]
  /\ UNCHANGED live

Next ==
  \/ \E r \in Renderers : AddRenderer(r)
  \/ \E r \in Renderers : RemoveRenderer(r)
  \/ \E ds \in SUBSET Displays, r \in Renderers : Assign(ds, r)
  \/ \E ds \in SUBSET Displays : Unassign(ds)

Spec == Init /\ [][Next]_vars
=============================================================================
