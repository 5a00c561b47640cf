------------------------------ MODULE Lifecycle ------------------------------
(***************************************************************************)
(* Who is paused (src/src/routing/router.rs): the per-display autopause    *)
(* machine with its debounced resume, the session and manual pauses, and   *)
(* reconcile_lifecycle, which turns all of them and the links into Pause   *)
(* and Play messages.                                                      *)
(*                                                                         *)
(* Every operation changes its state in one critical section and calls     *)
(* reconcile_lifecycle in a later one; `due' counts the calls still to     *)
(* come.  An apply can be cancelled (tasks.rs) before its call.  The model *)
(* ends with what a call decides, paused_renderers: its messages go out    *)
(* later, without the lock, so those of two calls may overtake each other  *)
(* and a cancelled apply's may be lost, and what a renderer was told last  *)
(* is not modelled.                                                        *)
(***************************************************************************)
EXTENDS Naturals, FiniteSets

CONSTANTS DisplayIds, Renderers, NoRenderer,
          MaxInputs       \* bound on relinks and window, session, manual and settings inputs

ASSUME LifecycleAssumption ==
  /\ NoRenderer \notin Renderers
  /\ MaxInputs \in Nat

VARIABLES
  registered, used,        \* renderers in the table, and all there ever were
  present, seen,           \* displays connected, and all there ever were
  link,                    \* renderer of each display
  raw, requested, gen,     \* autopause::State of each display
  resumes,                 \* sleeping resume tasks: <<display, gen>>
  pauseOnLock,             \* the autopause settings of the session
  pauseOnSwitch,
  locked, inactive,        \* session flags
  sessionGen,              \* session_gen
  sessionResumes,          \* sleeping session resume tasks: gen
  manual,                  \* manual_paused
  paused,                  \* paused_renderers
  due,                     \* calls of reconcile_lifecycle still to come
  cut,                     \* did the last of them, or a setting, go without one? (history)
  inputs                   \* inputs so far

routing == <<registered, used, present, seen, link>>
autopause == <<raw, requested, gen, resumes>>
session == <<locked, inactive, sessionGen, sessionResumes>>
settings == <<pauseOnLock, pauseOnSwitch>>
calm == <<settings, cut>>
pauseVars == <<routing, autopause, session, manual, paused, due, calm, inputs>>

Gens == 0..MaxInputs
\* Whose call of reconcile_lifecycle it is: only an apply can be cancelled.
Askers == {"apply", "other"}

PauseTypeOK ==
  /\ registered \subseteq used /\ used \subseteq Renderers
  /\ present \subseteq seen /\ seen \subseteq DisplayIds
  /\ link \in [DisplayIds -> Renderers \cup {NoRenderer}]
  /\ raw \in [DisplayIds -> BOOLEAN]
  /\ requested \in [DisplayIds -> BOOLEAN]
  /\ gen \in [DisplayIds -> Gens]
  /\ resumes \subseteq DisplayIds \X Gens
  /\ pauseOnLock \in BOOLEAN /\ pauseOnSwitch \in BOOLEAN
  /\ locked \in BOOLEAN /\ inactive \in BOOLEAN
  /\ sessionGen \in Gens
  /\ sessionResumes \subseteq Gens
  /\ manual \in BOOLEAN
  /\ paused \subseteq registered
  /\ due \in [Askers -> Nat] /\ cut \in BOOLEAN
  /\ inputs \in 0..MaxInputs

PauseInit ==
  /\ registered = {} /\ used = {} /\ present = {} /\ seen = {}
  /\ link = [d \in DisplayIds |-> NoRenderer]
  /\ raw = [d \in DisplayIds |-> FALSE]
  /\ requested = [d \in DisplayIds |-> FALSE]
  /\ gen = [d \in DisplayIds |-> 0]
  /\ resumes = {}
  /\ pauseOnLock \in BOOLEAN /\ pauseOnSwitch \in BOOLEAN
  /\ locked = FALSE /\ inactive = FALSE
  /\ sessionGen = 0 /\ sessionResumes = {}
  /\ manual = FALSE
  /\ paused = {}
  /\ due = [k \in Askers |-> 0] /\ cut = FALSE
  /\ inputs = 0

-----------------------------------------------------------------------------
Audience(r) == {d \in DisplayIds : link[d] = r}

SessionPauses == (pauseOnLock /\ locked) \/ (pauseOnSwitch /\ inactive)

\* The decision of reconcile_lifecycle for one renderer of the table.
ShouldPause(r) ==
  \/ manual
  \/ Audience(r) = {}
  \/ \E d \in Audience(r) \cap present : requested[d]
  \/ SessionPauses

Owed == \E k \in Askers : due[k] > 0
ReconcileDue(k) == due' = [due EXCEPT ![k] = @ + 1]
Input == inputs < MaxInputs /\ inputs' = inputs + 1

-----------------------------------------------------------------------------
(* The router's operations, as far as they matter here.                    *)

RegisterRenderer(r, k) ==
  /\ r \notin used
  /\ used' = used \cup {r}
  /\ registered' = registered \cup {r}
  /\ ReconcileDue(k)
  /\ UNCHANGED <<calm, present, seen, link, autopause, session, manual, paused, inputs>>

\* Also removes the links to a renderer that is no longer in the table.
UnregisterRenderer(r, k) ==
  /\ r \in registered \/ Audience(r) # {}
  /\ registered' = registered \ {r}
  /\ link' = [d \in DisplayIds |-> IF link[d] = r THEN NoRenderer ELSE link[d]]
  /\ paused' = paused \ {r}
  /\ ReconcileDue(k)
  /\ UNCHANGED <<calm, used, present, seen, autopause, session, manual, inputs>>

Relink(ds, r, k) ==
  /\ Input /\ r \in used /\ ds \cap present # {}
  /\ link' = [d \in DisplayIds |-> IF d \in ds \cap present THEN r ELSE link[d]]
  /\ ReconcileDue(k)
  /\ UNCHANGED <<calm, registered, used, present, seen, autopause, session, manual, paused>>

RegisterDisplay(d) ==
  /\ d \notin seen
  /\ seen' = seen \cup {d}
  /\ present' = present \cup {d}
  /\ IF registered = {} THEN UNCHANGED link
     ELSE \E r \in registered : link' = [link EXCEPT ![d] = r]
  /\ ReconcileDue("other")
  /\ UNCHANGED <<calm, registered, used, autopause, session, manual, paused, inputs>>

UnregisterDisplay(d) ==
  /\ d \in present
  /\ present' = present \ {d}
  /\ link' = [link EXCEPT ![d] = NoRenderer]
  /\ ReconcileDue("other")
  /\ UNCHANGED <<calm, registered, used, seen, autopause, session, manual, paused, inputs>>

-----------------------------------------------------------------------------
(* Autopause, session and manual pause.                                    *)

\* update_display_window_state, once autopause::decide has turned the flags
\* into `want': a pause is immediate, a resume sleeps first.
WindowPause(d) ==
  /\ d \in present /\ Input
  /\ raw' = [raw EXCEPT ![d] = TRUE]
  /\ requested' = [requested EXCEPT ![d] = TRUE]
  /\ gen' = [gen EXCEPT ![d] = @ + 1]
  /\ IF requested[d] THEN UNCHANGED due ELSE ReconcileDue("other")
  /\ UNCHANGED <<calm, routing, resumes, session, manual, paused>>

WindowResumeKeepingGen(d) ==
  /\ d \in present /\ Input
  /\ raw' = [raw EXCEPT ![d] = FALSE]
  /\ IF requested[d] /\ raw[d]
     THEN /\ gen' = [gen EXCEPT ![d] = @ + 1]
          /\ resumes' = resumes \cup {<<d, gen[d]>>}
     ELSE UNCHANGED <<gen, resumes>>
  /\ UNCHANGED <<calm, routing, requested, session, manual, paused, due>>

WindowResume(d) ==
  /\ d \in present /\ Input
  /\ raw' = [raw EXCEPT ![d] = FALSE]
  /\ IF requested[d]
     THEN /\ gen' = [gen EXCEPT ![d] = @ + 1]
          /\ resumes' = resumes \cup {<<d, gen[d] + 1>>}
     ELSE UNCHANGED <<gen, resumes>>
  /\ UNCHANGED <<calm, routing, requested, session, manual, paused, due>>

\* The resume task after its sleep: stale or overtaken ones do nothing.
FireResumeSilently(d, g) ==
  /\ <<d, g>> \in resumes
  /\ resumes' = resumes \ {<<d, g>>}
  /\ requested' = IF d \in present /\ gen[d] = g /\ ~raw[d]
                  THEN [requested EXCEPT ![d] = FALSE] ELSE requested
  /\ UNCHANGED <<calm, routing, raw, gen, session, manual, paused, due, inputs>>

FireResume(d, g) ==
  /\ <<d, g>> \in resumes
  /\ resumes' = resumes \ {<<d, g>>}
  /\ IF d \in present /\ gen[d] = g /\ ~raw[d] /\ requested[d]
     THEN /\ requested' = [requested EXCEPT ![d] = FALSE]
          /\ ReconcileDue("other")
     ELSE UNCHANGED <<requested, due>>
  /\ UNCHANGED <<calm, routing, raw, gen, session, manual, paused, inputs>>

\* update_session_state: one flag or both may change.
SessionState(l, i) ==
  /\ Input /\ <<l, i>> # <<locked, inactive>>
  /\ locked' = l /\ inactive' = i
  /\ sessionGen' = sessionGen + 1
  /\ IF l \/ i
     THEN ReconcileDue("other") /\ UNCHANGED sessionResumes
     ELSE sessionResumes' = sessionResumes \cup {sessionGen + 1} /\ UNCHANGED due
  /\ UNCHANGED <<calm, routing, autopause, manual, paused>>

FireSessionResumeStrict(g) ==
  /\ g \in sessionResumes
  /\ sessionResumes' = sessionResumes \ {g}
  /\ IF sessionGen > g /\ ~locked /\ ~inactive THEN ReconcileDue("other") ELSE UNCHANGED due
  /\ UNCHANGED <<calm, routing, autopause, locked, inactive, sessionGen, manual, paused, inputs>>

FireSessionResume(g) ==
  /\ g \in sessionResumes
  /\ sessionResumes' = sessionResumes \ {g}
  /\ IF sessionGen = g /\ ~locked /\ ~inactive THEN ReconcileDue("other") ELSE UNCHANGED due
  /\ UNCHANGED <<calm, routing, autopause, locked, inactive, sessionGen, manual, paused, inputs>>

SetManualPause(b) ==
  /\ Input /\ b # manual
  /\ manual' = b
  /\ ReconcileDue("other")
  /\ UNCHANGED <<calm, routing, autopause, session, paused>>

\* reconcile_lifecycle: every renderer of the table, in one critical section.
Reconcile(k) ==
  /\ due[k] > 0
  /\ due' = [due EXCEPT ![k] = @ - 1] /\ cut' = FALSE
  /\ paused' = {r \in registered : ShouldPause(r)}
  /\ UNCHANGED <<routing, autopause, session, settings, manual, inputs>>

\* A cancelled apply drops its call.
CancelReconcile ==
  /\ due["apply"] > 0
  /\ due' = [due EXCEPT !["apply"] = @ - 1]
  /\ cut' = (cut \/ ~Owed')
  /\ UNCHANGED <<routing, autopause, session, settings, manual, paused, inputs>>

\* SettingsSet: nothing looks at the renderers then.
SettingsSet(l, i) ==
  /\ Input /\ <<l, i>> # settings
  /\ pauseOnLock' = l /\ pauseOnSwitch' = i
  /\ UNCHANGED <<routing, autopause, session, manual, paused, due>>
  /\ cut' = (cut \/ SessionPauses' # SessionPauses)

PauseNext ==
  \/ \E r \in Renderers, k \in Askers : RegisterRenderer(r, k)
  \/ \E r \in Renderers, k \in Askers : UnregisterRenderer(r, k)
  \/ \E ds \in SUBSET DisplayIds, r \in Renderers, k \in Askers : Relink(ds, r, k)
  \/ \E d \in DisplayIds : RegisterDisplay(d)
  \/ \E d \in DisplayIds : UnregisterDisplay(d)
  \/ \E d \in DisplayIds : WindowPause(d)
  \/ \E d \in DisplayIds : WindowResume(d)
  \/ \E d \in DisplayIds, g \in Gens : FireResume(d, g)
  \/ \E l, i \in BOOLEAN : SessionState(l, i)
  \/ \E g \in Gens : FireSessionResume(g)
  \/ \E b \in BOOLEAN : SetManualPause(b)
  \/ \E l, i \in BOOLEAN : SettingsSet(l, i)
  \/ \E k \in Askers : Reconcile(k)
  \/ CancelReconcile

PauseSpec == PauseInit /\ [][PauseNext]_pauseVars

\* Sleeping tasks wake up, and a call that is due is made or dropped: the
\* runtime polls every ready task.
FairPauseSpec ==
  /\ PauseSpec
  /\ \A k \in Askers : WF_pauseVars(Reconcile(k))
  /\ \A d \in DisplayIds, g \in Gens : WF_pauseVars(FireResume(d, g))
  /\ \A g \in Gens : WF_pauseVars(FireSessionResume(g))

-----------------------------------------------------------------------------
(* A display whose windows no longer want a pause but which is still held  *)
(* paused has the resume task of its current generation asleep: however    *)
(* the flags flap, the task that ends the pause is never the stale one.    *)
ResumePending ==
  \A d \in present : requested[d] /\ ~raw[d] => <<d, gen[d]>> \in resumes

(* Every change of what a renderer should do is followed by a reconcile,   *)
(* or by the debounced resume of the session whose timer is set, unless    *)
(* the cancelled apply's was the last one owed or the session's settings   *)
(* changed: then the renderer waits for the next change of anything else.  *)
PauseComplete ==
  \A r \in registered :
    /\ ShouldPause(r) /\ r \notin paused => Owed \/ cut
    /\ ~ShouldPause(r) /\ r \in paused => Owed \/ cut \/ sessionGen \in sessionResumes

(* No wallpaper stays frozen once the last reason to pause it is gone,     *)
(* with the same two exceptions.                                           *)
Unpauses ==
  \A r \in Renderers :
    (r \in registered /\ ~ShouldPause(r))
      ~> (r \in registered /\ ~ShouldPause(r) /\ ~cut => r \notin paused)

=============================================================================
