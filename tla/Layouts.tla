------------------------------- MODULE Layouts -------------------------------
(***************************************************************************)
(* How a change of settings reaches the picture (routing/router.rs,        *)
(* settings.rs): the layout of a display is resolved from the global       *)
(* layout, the display's own entry and the wallpaper's, and projected when *)
(* the display is bound or a task sends it a new SetConfig.  The routing   *)
(* table is the one of RoutingTable; a link's geometry is its clear        *)
(* colour, the one part of it the daemon ever changes.                     *)
(*                                                                         *)
(* One hold of the router's lock is one action.  Everything else may       *)
(* happen between two holds of the same task.                              *)
(***************************************************************************)
EXTENDS RoutingTable, Projection

CONSTANTS Clients,       \* websocket connections: each handles one request at a time
          InstanceId,    \* [Displays -> the key it advertises, or Unset]
          Name,          \* [Displays -> its name]
          FirstSize,     \* [Displays -> the size it registers with]
          FirstPrefs,    \* [Keys -> entries the settings file starts with]
          DisplayEdits, GlobalEdits, WallpaperEdits,
          MaxChanges,    \* bound on changes of settings, size and colour
          MaxComings     \* bound on displays, renderers, pools and applies

Keys == {Name[d] : d \in Displays} \cup ({InstanceId[d] : d \in Displays} \ {Unset})

\* What a level of settings may say, and what an edit may ask of it.
Locations == Percent \X Percent
Prefs == [fillmode : FillModes \cup {Unset}, location : Locations \cup {Unset},
          rotation : Rotations \cup {Unset}]
Edits == [fillmode : FillModes \cup {Unset, "clear"}, location : Locations \cup {Unset, "clear"},
          rotation : Rotations \cup {Unset, "clear"}]
Entry == [prefs : Prefs, other : BOOLEAN]

ASSUME LayoutsAssumption ==
  /\ Clients \cap (Displays \cup Renderers) = {} /\ Displays \cap Renderers = {}
  /\ Unset \notin Entry
  /\ FirstPrefs \in [Keys -> Entry \cup {Unset}]
  /\ FirstSize \in [Displays -> Nat \X Nat]
  /\ DisplayEdits \subseteq Edits

VARIABLES global,        \* settings.global.layout
          entries,       \* settings.displays: [Keys -> entry or Unset]
          overrides,     \* wallpaper_layout_overrides
          display,       \* DisplayState, and the last SetConfig sent to it
          handle,        \* RendererHandle: its pool and its clear colour
          work,          \* what each task still has to do
          left           \* what is left of the two bounds

layoutVars == <<global, entries, overrides, display, handle, work, left>>
allVars == <<vars, layoutVars>>

Tasks == Clients \cup Displays \cup Renderers

\* A task's next step: "resync" and "sync" visit the displays of `todo'.
Rest == [at |-> "rest", todo |-> {}]
Goes(t, w) == work' = [work EXCEPT ![t] = w]
Resyncs(ds) == IF ds = {} THEN Rest ELSE [at |-> "resync", todo |-> ds]
Syncs(ds) == IF ds = {} THEN Rest ELSE [at |-> "sync", todo |-> ds]
Resting(t) == work[t] = Rest

Changes == left.changes > 0 /\ left' = [left EXCEPT !.changes = @ - 1]
Comes == left.comings > 0 /\ left' = [left EXCEPT !.comings = @ - 1]

\* alias and last_wallpaper: any entry that holds more than a layout.
NoEntry == [prefs |-> NoPrefs, other |-> FALSE]
NoPool == [gen |-> 0, tex |-> <<0, 0>>]
Gone == [on |-> FALSE, size |-> <<0, 0>>, renderer |-> NoRenderer, gen |-> 0, shown |-> Unset]
Fresh == [pool |-> NoPool, colour |-> DefaultGeometry, reports |-> 0, binds |-> 0]

LayoutInit ==
  /\ Init
  /\ global = [fillmode |-> "crop", location |-> Middle, rotation |-> "normal"]
  /\ entries = FirstPrefs
  /\ overrides = [r \in Renderers |-> NoPrefs]
  /\ display = [d \in Displays |-> Gone]
  /\ handle = [r \in Renderers |-> Fresh]
  /\ work = [t \in Tasks |-> Rest]
  /\ left = [changes |-> MaxChanges, comings |-> MaxComings]

-----------------------------------------------------------------------------
(* What a display's layout resolves to now.                                *)

SettingsKey(d) == Or(InstanceId[d], Name[d])
HasEntry(k) == k # Unset /\ entries[k] # Unset

\* resolved_layout: the instance's entry hides the name's altogether.
EntryOf(d) ==
  IF HasEntry(InstanceId[d]) THEN entries[InstanceId[d]]
  ELSE IF HasEntry(Name[d]) THEN entries[Name[d]] ELSE NoEntry

LayoutOf(d, r) == Over(overrides[r], Over(EntryOf(d).prefs, global))

\* The link of d, when its renderer is in the table and has a pool.
Bindable(d) ==
  {l \in LinksForDisplay(d) : l.renderer \in renderers /\ handle[l.renderer].pool # NoPool}

Wanted(d, l) ==
  Project(l.geometry, handle[l.renderer].pool.tex, display[d].size, LayoutOf(d, l.renderer))

-----------------------------------------------------------------------------
(* The two ways a display is told.                                         *)

\* resync_display_set_config.
ResyncDisplay(t, d) ==
  /\ work[t].at = "resync" /\ d \in work[t].todo
  /\ Goes(t, Resyncs(work[t].todo \ {d}))
  /\ display' = IF display[d].on /\ Bindable(d) # {}
                THEN [display EXCEPT ![d].shown = Wanted(d, CHOOSE l \in Bindable(d) : TRUE)]
                ELSE display
  /\ UNCHANGED <<vars, global, entries, overrides, handle, left>>

\* sync_display: Unbind, or Bind and SetConfig, unless what is bound is right.
Synced(d) ==
  IF Bindable(d) = {}
  THEN [display EXCEPT ![d].renderer = NoRenderer, ![d].gen = 0]
  ELSE LET l == CHOOSE l \in Bindable(d) : TRUE
           gen == handle[l.renderer].pool.gen
       IN IF display[d].renderer = l.renderer /\ display[d].gen = gen THEN display
          ELSE [display EXCEPT ![d].renderer = l.renderer, ![d].gen = gen,
                               ![d].shown = Wanted(d, l)]

SyncDisplay(t, d) ==
  /\ work[t].at = "sync" /\ d \in work[t].todo
  /\ Goes(t, Syncs(work[t].todo \ {d}))
  /\ display' = IF display[d].on THEN Synced(d) ELSE display
  /\ UNCHANGED <<vars, global, entries, overrides, handle, left>>

-----------------------------------------------------------------------------
(* The websocket's requests.                                               *)

\* A field of an edit is Unset, "clear" or the new value; the wire's way of
\* asking to clear a location or an alignment clears both.
Edited(prefs, edit) ==
  [f \in DOMAIN prefs |->
     IF edit[f] = "clear" THEN Unset ELSE Or(edit[f], prefs[f])]

\* The entry as it is stored: an empty one is pruned.
Stored(e) == IF e = NoEntry THEN Unset ELSE e

\* resolve_display_mutation_target, in a hold of its own.
AskDisplayLayout(c, d, edit) ==
  /\ Resting(c) /\ display[d].on /\ Changes
  /\ Goes(c, [at |-> "store", todo |-> {d}, key |-> SettingsKey(d), edit |-> edit])
  /\ UNCHANGED <<vars, global, entries, overrides, display, handle>>

StoreWithoutResync(c) ==
  /\ work[c].at = "store"
  /\ LET k == work[c].key
         e == Or(entries[k], NoEntry)
     IN entries' = [entries EXCEPT ![k] = Stored([e EXCEPT !.prefs = Edited(@, work[c].edit)])]
  /\ Goes(c, Rest)
  /\ UNCHANGED <<vars, global, overrides, display, handle, left>>

StoreDisplayLayout(c) ==
  /\ work[c].at = "store"
  /\ LET k == work[c].key
         e == Or(entries[k], NoEntry)
     IN entries' = [entries EXCEPT ![k] = Stored([e EXCEPT !.prefs = Edited(@, work[c].edit)])]
  /\ Goes(c, Resyncs(work[c].todo))
  /\ UNCHANGED <<vars, global, overrides, display, handle, left>>

\* set_display_alias, and an apply that remembers its wallpaper: the entry
\* says more, or less, and nobody is told.
StoreOther(c, d, on) ==
  /\ Resting(c) /\ display[d].on /\ Changes
  /\ LET e == Or(entries[SettingsKey(d)], NoEntry)
     IN entries' = [entries EXCEPT ![SettingsKey(d)] = Stored([e EXCEPT !.other = on])]
  /\ UNCHANGED <<vars, global, overrides, display, handle, work>>

\* SettingsSet: what the global layout was, the change, and what it is now,
\* each in a hold of its own of the settings' lock.
AskGlobalLayout(c, edit) ==
  /\ Resting(c) /\ Changes
  /\ Goes(c, [at |-> "global", todo |-> {}, was |-> global, edit |-> edit])
  /\ UNCHANGED <<vars, global, entries, overrides, display, handle>>

StoreGlobalLayout(c) ==
  /\ work[c].at = "global"
  /\ global' = Over(work[c].edit, global)
  /\ Goes(c, [at |-> "compare", todo |-> {}, was |-> work[c].was])
  /\ UNCHANGED <<vars, entries, overrides, display, handle, left>>

CompareGlobalLayout(c) ==
  /\ work[c].at = "compare"
  /\ Goes(c, IF global = work[c].was THEN Rest ELSE [at |-> "collect", todo |-> {}])
  /\ UNCHANGED <<vars, global, entries, overrides, display, handle, left>>

\* resync_all_set_configs: the ids in one hold, each display in another.
ResyncAll(c) ==
  /\ work[c].at = "collect"
  /\ Goes(c, Resyncs({d \in Displays : display[d].on}))
  /\ UNCHANGED <<vars, global, entries, overrides, display, handle, left>>

Overridden(r, prefs) ==
  /\ overrides' = IF r \in renderers THEN [overrides EXCEPT ![r] = prefs] ELSE overrides
  /\ UNCHANGED <<global, entries, display, handle>>

AudienceToTell(r) == IF r \in renderers THEN AudienceOf(r) ELSE {}

\* WallpaperLayoutSet for a wallpaper that is running.
SetWallpaperLayout(c, r, prefs) ==
  /\ Resting(c) /\ Changes
  /\ Overridden(r, prefs) /\ Goes(c, Resyncs(AudienceToTell(r)))
  /\ UNCHANGED vars

\* apply_wallpaper_core with a renderer that is reused or was just spawned:
\* the wallpaper's layout, then the links.
Apply(c, r, ds, prefs) ==
  /\ Resting(c) /\ Comes
  /\ Overridden(r, prefs)
  /\ Goes(c, [at |-> "override", todo |-> AudienceToTell(r), next |-> ds, renderer |-> r])
  /\ UNCHANGED vars

ApplyResync(c, d) ==
  /\ work[c].at = "override" /\ d \in work[c].todo
  /\ Goes(c, [work[c] EXCEPT !.todo = @ \ {d}])
  /\ display' = IF display[d].on /\ Bindable(d) # {}
                THEN [display EXCEPT ![d].shown = Wanted(d, CHOOSE l \in Bindable(d) : TRUE)]
                ELSE display
  /\ UNCHANGED <<vars, global, entries, overrides, handle, left>>

ApplyRelink(c) ==
  /\ work[c].at = "override" /\ work[c].todo = {}
  /\ \E d \in work[c].next :
       IF display[d].on
       THEN AddLink(work[c].renderer, d) /\ Goes(c, Syncs({d}))
       ELSE UNCHANGED vars /\ Goes(c, Rest)
  /\ UNCHANGED <<global, entries, overrides, display, handle, left>>

-----------------------------------------------------------------------------
(* Displays: each endpoint is a task.                                      *)

\* register_display: the entry of the name is copied once to the instance.
Migrate(d) ==
  /\ Resting(d) /\ ~display[d].on /\ Comes
  /\ entries' = IF InstanceId[d] # Unset /\ ~HasEntry(InstanceId[d]) /\ HasEntry(Name[d])
                THEN [entries EXCEPT ![InstanceId[d]] = entries[Name[d]]]
                ELSE entries
  /\ Goes(d, [at |-> "register", todo |-> {}])
  /\ UNCHANGED <<vars, global, overrides, display, handle>>

Register(d) ==
  /\ work[d].at = "register"
  /\ display' = [display EXCEPT ![d] = [Gone EXCEPT !.on = TRUE, !.size = FirstSize[d]]]
  /\ IF renderers = {} THEN UNCHANGED vars ELSE \E r \in renderers : AddLink(r, d)
  /\ Goes(d, Syncs({d}))
  /\ UNCHANGED <<global, entries, overrides, handle, left>>

Unregister(d) ==
  /\ Resting(d) /\ display[d].on
  /\ display' = [display EXCEPT ![d] = Gone]
  /\ RemoveDisplay(d)
  /\ UNCHANGED <<global, entries, overrides, handle, work, left>>

\* update_display_size ignores a size with a zero side.
Resize(d, size) ==
  /\ Resting(d) /\ display[d].on /\ Changes
  /\ 0 \notin {size[1], size[2]} /\ size # display[d].size
  /\ display' = [display EXCEPT ![d].size = size]
  /\ Goes(d, Resyncs({d}))
  /\ UNCHANGED <<vars, global, entries, overrides, handle>>

-----------------------------------------------------------------------------
(* Renderers: the reader thread writes the handle, the event task reads it *)
(* later.                                                                  *)

RegisterRenderer(r) ==
  /\ r \notin renderers /\ Resting(r) /\ handle[r].pool = NoPool /\ Comes
  /\ AddRenderer(r)
  /\ UNCHANGED <<global, entries, overrides, display, handle, work>>

\* unregister_renderer, by its own task's end: the event task is aborted.
UnregisterRenderer(r) ==
  /\ r \in renderers /\ Comes
  /\ RemoveRenderer(r)
  /\ overrides' = [overrides EXCEPT ![r] = NoPrefs]
  /\ Goes(r, Syncs(AudienceOf(r)))
  /\ handle' = [handle EXCEPT ![r].reports = 0, ![r].binds = 0]
  /\ UNCHANGED <<global, entries, display>>

BindBuffers(r, tex) ==
  /\ r \in renderers /\ Comes
  /\ handle' = [handle EXCEPT ![r].pool = [gen |-> @.gen + 1, tex |-> tex], ![r].binds = @ + 1]
  /\ UNCHANGED <<vars, global, entries, overrides, display, work>>

ReportState(r, colour) ==
  /\ r \in renderers /\ Changes
  /\ handle' = [handle EXCEPT ![r].colour = colour, ![r].reports = @ + 1]
  /\ UNCHANGED <<vars, global, entries, overrides, display, work>>

OnRendererBind(r) ==
  /\ r \in renderers /\ Resting(r) /\ handle[r].binds > 0
  /\ handle' = [handle EXCEPT ![r].binds = @ - 1]
  /\ Goes(r, Syncs(AudienceOf(r)))
  /\ UNCHANGED <<vars, global, entries, overrides, display, left>>

\* on_renderer_state_changed reads the colour in one hold ...
ReadColour(r) ==
  /\ r \in renderers /\ Resting(r) /\ handle[r].reports > 0
  /\ handle' = [handle EXCEPT ![r].reports = @ - 1]
  /\ Goes(r, [at |-> "colour", todo |-> {}, colour |-> handle[r].colour])
  /\ UNCHANGED <<vars, global, entries, overrides, display, left>>

\* ... and writes it to the links in the next.
WriteColour(r) ==
  /\ work[r].at = "colour"
  /\ LET colour == work[r].colour
         stale == {i \in byRenderer[r] \cap DOMAIN links : links[i].geometry # colour}
     IN /\ links' = [i \in DOMAIN links |->
                       IF i \in stale THEN [links[i] EXCEPT !.geometry = colour] ELSE links[i]]
        /\ Goes(r, Resyncs({links[i].display : i \in stale}))
  /\ UNCHANGED <<nextLinkId, renderers, byDisplay, byRenderer,
                 global, entries, overrides, display, handle, left>>

-----------------------------------------------------------------------------
LayoutNext ==
  \/ \E t \in Tasks, d \in Displays : ResyncDisplay(t, d) \/ SyncDisplay(t, d)
  \/ \E c \in Clients, d \in Displays :
       \/ \E edit \in DisplayEdits : AskDisplayLayout(c, d, edit)
       \/ \E on \in BOOLEAN : StoreOther(c, d, on)
       \/ ApplyResync(c, d)
  \/ \E c \in Clients, edit \in GlobalEdits : AskGlobalLayout(c, edit)
  \/ \E c \in Clients :
       \/ StoreDisplayLayout(c) \/ StoreGlobalLayout(c) \/ CompareGlobalLayout(c)
       \/ ResyncAll(c) \/ ApplyRelink(c)
  \/ \E c \in Clients, r \in Renderers, prefs \in WallpaperEdits :
       \/ SetWallpaperLayout(c, r, prefs)
       \/ \E d \in Displays : Apply(c, r, {d}, prefs)
  \/ \E d \in Displays : Migrate(d) \/ Register(d) \/ Unregister(d)
  \/ \E d \in Displays, size \in Sizes : Resize(d, size)
  \/ \E r \in Renderers :
       \/ RegisterRenderer(r) \/ UnregisterRenderer(r)
       \/ OnRendererBind(r) \/ ReadColour(r) \/ WriteColour(r)
  \/ \E r \in Renderers, tex \in Pictures : BindBuffers(r, tex)
  \/ \E r \in Renderers, colour \in Geometries : ReportState(r, colour)

LayoutSpec == LayoutInit /\ [][LayoutNext]_allVars

-----------------------------------------------------------------------------
(* A task is on its way to tell d.                                         *)
OnItsWay(d) ==
  \/ \E t \in Tasks : d \in work[t].todo \/ work[t].at \in {"compare", "collect", "override"}
  \/ \E r \in Renderers : handle[r].binds > 0

\* An entry under the name that an entry under the instance hides: what
\* hides it may be pruned by a change that tells nobody.
HidesLegacy(d) == InstanceId[d] # Unset /\ HasEntry(Name[d])

\* The picture of a SetConfig: all of it but the colour around it.
Picture(cfg) == [part \in DOMAIN cfg \ {"clear"} |-> cfg[part]]

\* When no task has a display still to visit, the display is bound to the
\* pool of its link and draws it by the layout that its settings, its size
\* and its link resolve to now: no interleaving of the settings' lock, the
\* router's lock and the renderer's reports leaves it with an older one
\* (resync_display_set_config, sync_display).
ConfigsAreCurrent ==
  \A d \in Displays :
    display[d].on /\ ~OnItsWay(d) =>
      IF Bindable(d) = {} THEN display[d].renderer = NoRenderer
      ELSE \A l \in Bindable(d) :
             /\ display[d].renderer = l.renderer
             /\ display[d].gen = handle[l.renderer].pool.gen
             /\ HidesLegacy(d) \/ Picture(display[d].shown) = Picture(Wanted(d, l))

\* A projection never leaves the texture or the display it is for, shows the
\* picture as its fill mode says, and a point of the drawn rectangle lies on
\* the part of the texture that is drawn there, corner on corner; an
\* alignment survives the way to a location and back (layout.rs, project_link).
ProjectionsFit == LayoutInit => AllFit
=============================================================================
