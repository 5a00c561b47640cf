---------------------------- MODULE ServicesProofs ----------------------------
(***************************************************************************)
(* What the settings store and the hot-plug recall guarantee for any       *)
(* number of handlers, displays and events.                                *)
(*                                                                         *)
(* ChangesAreKept is not inductive: a flush that took its snapshot before  *)
(* the last update must not write over a file that is up to date.  It      *)
(* cannot, for one flush at a time holds the lock (OneFlush) and the file  *)
(* is up to date only when none does (Kept).  RecalledOnce needs that who  *)
(* is recalled, or waits for it, was seen and is in no other group         *)
(* (RecallInv).                                                            *)
(***************************************************************************)
EXTENDS Services, TLAPS

-----------------------------------------------------------------------------
(* The settings store.                                                     *)

Places == {"idle", "mark", "notify", "debounce", "check", "lock", "snap", "write", "exited"}

SettingsTypes ==
  /\ budget \in [Kinds -> Nat]
  /\ mem \in 0..MaxChanges /\ disk \in 0..MaxChanges
  /\ dirty \in BOOLEAN /\ permit \in BOOLEAN /\ failed \in BOOLEAN
  /\ at \in [Flushers -> Places]
  /\ snap \in [Flushers -> 0..MaxChanges]
  /\ mem + budget["change"] <= MaxChanges

Marking == \E r \in Requests : at[r] = "mark"

\* flush holds write_lock from its second look at dirty to its return.
OneFlush == \A f, g \in Holding : f = g
Kept ==
  \/ dirty \/ Marking
  \/ disk = mem /\ Holding = {}
  \/ \E f \in Flushers : at[f] = "snap" \/ (at[f] = "write" /\ snap[f] = mem)

SettingsInv == SettingsTypes /\ OneFlush /\ Kept

SettingsStep ==
  \/ \E r \in Requests : Update(r) \/ Mark(r) \/ NotifyOne(r)
  \/ Notified \/ Debounced \/ Shutdown
  \/ \E f \in Flushers : CheckDirty(f) \/ SwapDirty(f) \/ Snapshot(f) \/ Write(f) \/ WriteFails(f)

LEMMA FewerEvents ==
  ASSUME budget \in [Kinds -> Nat], Next
  PROVE  budget' \in [Kinds -> Nat] /\ budget'["change"] <= budget["change"]
<1>1. ASSUME NEW kind \in Kinds, Happens(kind)
      PROVE  budget' \in [Kinds -> Nat] /\ budget'["change"] <= budget["change"]
  BY <1>1 DEF Happens, Kinds
<1>2. CASE Idle
  BY <1>2 DEF Idle, Kinds
<1>3. Idle \/ \E kind \in Kinds : Happens(kind)
  <2>1. CASE Environment
    BY <2>1 DEF Environment, Update, WriteFails, Register, Touch, Unregister, ActivateFails, Noise, SpawnFails,
       BackendExits, LockChanges, Shutdown, Kinds
  <2>2. CASE Internal
    BY <2>2 DEF Internal, Mark, NotifyOne, Notified, Debounced, CheckDirty, SwapDirty, Snapshot, Write,
       SourcesLatch, SourcesSend, DispatcherSubscribe, DispatcherReadsLatch, DispatcherLagged,
       DispatcherReceives, RecallSubscribe, RecallSweep, RecallReceives, RecallLagged, RecallFires,
       WatcherReads, WatcherSubscribes, WatcherReceives, WatcherLatch, WatcherSend,
       HotplugSubscribe, HotplugRestore, HotplugReceives, HotplugLagged, Activate,
       BackendStart, BackendRestart, BackendStop, MonitorSeeds, MonitorSubscribes, MonitorReceives,
       MonitorForwards, OnlyBoot
  <2> QED BY <2>1, <2>2 DEF Next
<1> QED BY <1>1, <1>2, <1>3

LEMMA SettingsOrElse ==
  ASSUME Next
  PROVE  SettingsStep \/ UNCHANGED settingsVars
<1>1. CASE Environment
  BY <1>1 DEF Environment, SettingsStep, Register, Touch, Unregister, ActivateFails, Noise, SpawnFails,
     BackendExits, LockChanges, OnlyRouter, OnlyBackend, OnlySession
<1>2. CASE Internal
  BY <1>2 DEF Internal, SettingsStep,
     SourcesLatch, SourcesSend, DispatcherSubscribe, DispatcherReadsLatch, DispatcherLagged,
     DispatcherReceives, RecallSubscribe, RecallSweep, RecallReceives, RecallLagged, RecallFires,
     WatcherReads, WatcherSubscribes, WatcherReceives, WatcherLatch, WatcherSend,
     HotplugSubscribe, HotplugRestore, HotplugReceives, HotplugLagged, Activate,
     BackendStart, BackendRestart, BackendStop, MonitorSeeds, MonitorSubscribes, MonitorReceives,
     MonitorForwards, OnlyBoot, OnlyBackend, OnlySession
<1> QED BY <1>1, <1>2 DEF Next

\* Where a step leaves the flusher it is of; the others stay where they are.
Moves(f, from, to) ==
  /\ at[f] \in from /\ at'[f] \in to
  /\ \A g \in Flushers : g # f => at'[g] = at[g]

LEMMA SettingsTypesStep ==
  ASSUME SettingsTypes, Next
  PROVE  SettingsTypes'
<1> USE DEF SettingsTypes
<1>1. budget' \in [Kinds -> Nat] /\ budget'["change"] <= budget["change"]
  BY FewerEvents
<1>2. budget["change"] \in Nat /\ budget'["change"] \in Nat /\ MaxChanges \in Nat
  BY <1>1, ServicesAssumption DEF Kinds
<1>3. CASE UNCHANGED settingsVars
  BY <1>1, <1>2, <1>3 DEF settingsVars
<1>4. ASSUME NEW r \in Requests, Update(r) PROVE SettingsTypes'
  <2>1. budget["change"] > 0 /\ budget'["change"] = budget["change"] - 1 /\ mem' = mem + 1
    BY <1>4 DEF Update, Happens, Kinds
  <2> QED BY <1>1, <1>2, <1>4, <2>1 DEF Update, Flushers, Places
<1>5. ASSUME NEW f \in Flushers, NEW place \in Places, at' = [at EXCEPT ![f] = place],
             mem' = mem, disk' \in 0..MaxChanges, snap' \in [Flushers -> 0..MaxChanges],
             dirty' \in BOOLEAN, permit' \in BOOLEAN, failed' \in BOOLEAN
      PROVE  SettingsTypes'
  BY <1>1, <1>2, <1>5
<1>6. ASSUME NEW r \in Requests, Mark(r) \/ NotifyOne(r) PROVE SettingsTypes'
  <2>1. r \in Flushers /\ dirty' \in BOOLEAN /\ permit' \in BOOLEAN
    BY <1>6 DEF Mark, NotifyOne, Flushers
  <2>2. \E place \in Places : at' = [at EXCEPT ![r] = place]
    BY <1>6 DEF Mark, NotifyOne, Places
  <2>3. UNCHANGED <<mem, disk, snap, failed>>
    BY <1>6 DEF Mark, NotifyOne
  <2> QED BY <1>5, <2>1, <2>2, <2>3
<1>7. CASE Notified \/ Debounced \/ Shutdown
  <2>1. permit' \in BOOLEAN /\ UNCHANGED <<mem, disk, dirty, snap, failed>>
    BY <1>7 DEF Notified, Debounced, Shutdown
  <2>2. "writer" \in Flushers /\ "main" \in Flushers /\ "debounce" \in Places /\ "check" \in Places
    BY DEF Flushers, Places
  <2>3. \/ at' = [at EXCEPT !["writer"] = "debounce"]
        \/ at' = [at EXCEPT !["writer"] = "check"]
        \/ at' = [at EXCEPT !["main"] = "check"]
    BY <1>7 DEF Notified, Debounced, Shutdown
  <2> QED BY <1>5, <2>1, <2>2, <2>3
<1>8. ASSUME NEW f \in Flushers, CheckDirty(f) \/ SwapDirty(f) \/ Write(f) \/ WriteFails(f)
      PROVE  SettingsTypes'
  <2>1. \E place \in Places : Returned(f) = [at EXCEPT ![f] = place]
    BY DEF Returned, Places
  <2>2. "lock" \in Places /\ "snap" \in Places
    BY DEF Places
  <2>3. at' = Returned(f) \/ at' = [at EXCEPT ![f] = "lock"] \/ at' = [at EXCEPT ![f] = "snap"]
    BY <1>8 DEF CheckDirty, SwapDirty, Write, WriteFails
  <2>4. disk' = disk \/ disk' = snap[f]
    BY <1>8 DEF CheckDirty, SwapDirty, Write, WriteFails
  <2>5. UNCHANGED <<mem, snap, permit>>
    BY <1>8 DEF CheckDirty, SwapDirty, Write, WriteFails
  <2>6. dirty' = dirty \/ dirty' = FALSE \/ dirty' = TRUE
    BY <1>8 DEF CheckDirty, SwapDirty, Write, WriteFails
  <2>7. failed' = failed \/ failed' = FALSE \/ failed' = TRUE
    BY <1>8 DEF CheckDirty, SwapDirty, Write, WriteFails
  <2>8. dirty' \in BOOLEAN /\ failed' \in BOOLEAN
    BY <2>6, <2>7
  <2>9. disk' \in 0..MaxChanges
    BY <2>4
  <2> QED BY <1>5, <2>1, <2>2, <2>3, <2>5, <2>8, <2>9
<1>9. ASSUME NEW f \in Flushers, Snapshot(f) PROVE SettingsTypes'
  <2>1. "write" \in Places
    BY DEF Places
  <2> QED BY <1>5, <1>9, <2>1 DEF Snapshot
<1> QED BY <1>3, <1>4, <1>5, <1>6, <1>7, <1>8, <1>9, SettingsOrElse DEF SettingsStep

LEMMA SettingsInvStep ==
  ASSUME SettingsInv, Next
  PROVE  SettingsInv'
<1>1. SettingsTypes /\ SettingsTypes' /\ OneFlush /\ Kept
  BY SettingsTypesStep DEF SettingsInv
<1> SUFFICES OneFlush' /\ Kept'
  BY <1>1 DEF SettingsInv
<1>2. CASE UNCHANGED settingsVars
  BY <1>1, <1>2 DEF settingsVars, OneFlush, Kept, Marking, Holding
<1>3. ASSUME NEW r \in Requests, Update(r) PROVE OneFlush' /\ Kept'
  <2>1. Moves(r, {"idle"}, {"mark"})
    BY <1>1, <1>3 DEF SettingsTypes, Update, Moves, Flushers
  <2> QED BY <1>1, <2>1 DEF Moves, OneFlush, Kept, Marking, Holding
<1>4. ASSUME NEW r \in Requests, Mark(r) PROVE OneFlush' /\ Kept'
  <2>1. Moves(r, {"mark"}, {"notify"}) /\ dirty'
    BY <1>1, <1>4 DEF SettingsTypes, Mark, Moves, Flushers
  <2> QED BY <1>1, <2>1 DEF Moves, OneFlush, Kept, Holding
<1>5. ASSUME NEW f \in Flushers, UNCHANGED <<mem, disk, dirty, snap>>,
             Moves(f, {"notify", "idle", "debounce", "check"}, {"idle", "check", "debounce", "lock", "exited"})
      PROVE  OneFlush' /\ Kept'
  <2>1. Holding' = Holding /\ (Marking' <=> Marking)
    BY <1>5 DEF Moves, Holding, Marking, Flushers
  <2>2. \A g \in Flushers : at[g] \in {"snap", "write"} => at'[g] = at[g]
    BY <1>5 DEF Moves
  <2> QED BY <1>1, <1>5, <2>1, <2>2 DEF OneFlush, Kept
<1>6. ASSUME NEW r \in Requests, NotifyOne(r) PROVE OneFlush' /\ Kept'
  <2>1. Moves(r, {"notify"}, {"idle", "check"}) /\ r \in Flushers
    BY <1>1, <1>6 DEF SettingsTypes, NotifyOne, Moves, Flushers
  <2> QED BY <1>5, <1>6, <2>1 DEF NotifyOne, Moves
<1>7. CASE Notified \/ Debounced
  <2>1. Moves("writer", {"idle", "debounce"}, {"debounce", "check"}) /\ "writer" \in Flushers
    BY <1>1, <1>7 DEF SettingsTypes, Notified, Debounced, Moves, Flushers
  <2> QED BY <1>5, <1>7, <2>1 DEF Notified, Debounced, Moves
<1>8. CASE Shutdown
  <2>1. Moves("main", {"idle"}, {"check"}) /\ "main" \in Flushers
    BY <1>1, <1>8 DEF SettingsTypes, Shutdown, ShuttingDown, Moves, Flushers
  <2> QED BY <1>5, <1>8, <2>1 DEF Shutdown, Moves
<1>9. ASSUME NEW f \in Flushers, CheckDirty(f) PROVE OneFlush' /\ Kept'
  <2>1. Moves(f, {"check"}, {"lock", "idle", "exited"})
    BY <1>1, <1>9 DEF SettingsTypes, CheckDirty, Returned, Moves
  <2> QED BY <1>5, <1>9, <2>1 DEF CheckDirty, Moves
<1>10. ASSUME NEW f \in Flushers, SwapDirty(f) PROVE OneFlush' /\ Kept'
  <2>1. /\ Holding = {} /\ ~dirty'
        /\ dirty => Moves(f, {"lock"}, {"snap"})
        /\ ~dirty => Moves(f, {"lock"}, {"idle", "exited"})
        /\ UNCHANGED <<mem, disk, snap>>
    BY <1>1, <1>10 DEF SettingsTypes, SwapDirty, Returned, Moves
  <2>2. CASE dirty
    BY <2>1, <2>2 DEF Moves, Holding, OneFlush, Kept
  <2>3. CASE ~dirty
    <3>1. Holding' = Holding /\ (Marking' <=> Marking)
      BY <2>1, <2>3 DEF Moves, Holding, Marking, Flushers
    <3>2. \A g \in Flushers : at[g] \in {"snap", "write"} => at'[g] = at[g]
      BY <2>1, <2>3 DEF Moves
    <3> QED BY <1>1, <2>1, <2>3, <3>1, <3>2 DEF OneFlush, Kept
  <2> QED BY <2>2, <2>3
<1>11. ASSUME NEW f \in Flushers, Snapshot(f) PROVE OneFlush' /\ Kept'
  <2>1. Moves(f, {"snap"}, {"write"}) /\ snap'[f] = mem'
    BY <1>1, <1>11 DEF SettingsTypes, Snapshot, Moves
  <2>2. Holding' = Holding
    BY <2>1 DEF Moves, Holding
  <2>3. at'[f] = "write"
    BY <2>1 DEF Moves
  <2> QED BY <1>1, <2>1, <2>2, <2>3 DEF OneFlush, Kept
<1>12. ASSUME NEW f \in Flushers, Write(f) \/ WriteFails(f) PROVE OneFlush' /\ Kept'
  <2>1. Moves(f, {"write"}, {"idle", "exited"}) /\ mem' = mem
    BY <1>1, <1>12 DEF SettingsTypes, Write, WriteFails, Returned, Moves
  <2>2. Holding = {f} /\ Holding' = {}
    BY <1>1, <2>1 DEF Moves, Holding, OneFlush
  <2>3. CASE WriteFails(f)
    BY <2>2, <2>3 DEF WriteFails, OneFlush, Kept
  <2>4. CASE Write(f)
    <3>1. dirty \/ Marking \/ snap[f] = mem
      BY <1>1, <2>1, <2>2 DEF Kept, Holding, Moves
    <3>2. Marking => Marking'
      BY <2>1 DEF Marking, Moves, Flushers
    <3>3. disk' = snap[f] /\ dirty' = dirty
      BY <2>4 DEF Write
    <3> QED BY <2>1, <2>2, <3>1, <3>2, <3>3 DEF OneFlush, Kept
  <2> QED BY <1>12, <2>3, <2>4
<1> QED BY <1>2, <1>3, <1>4, <1>6, <1>7, <1>8, <1>9, <1>10, <1>11, <1>12, SettingsOrElse
        DEF SettingsStep

(* ChangesAreKept (settings.rs, update and flush): whatever handlers       *)
(* change the settings and flush them, whatever writes fail, a change that *)
(* is not in the file is in memory with somebody due to write it.          *)
THEOREM ServicesChangesAreKept == Spec => []ChangesAreKept
<1>1. Init => SettingsInv
  <2> SUFFICES ASSUME Init PROVE SettingsInv
    OBVIOUS
  <2>1. budget \in [Kinds -> Nat] /\ budget["change"] <= MaxChanges /\ MaxChanges \in Nat
    BY ServicesAssumption DEF Init
  <2>2. dirty \in BOOLEAN /\ failed \in BOOLEAN
    <3>1. (budget["change"] > 0) \in BOOLEAN
      OBVIOUS
    <3>2. dirty \in {FALSE, budget["change"] > 0} /\ failed = dirty
      BY DEF Init
    <3>3. dirty \in BOOLEAN
      BY <3>1, <3>2, Zenon
    <3> QED BY <3>2, <3>3, Zenon
  <2>3. at \in [Flushers -> Places] /\ snap \in [Flushers -> 0..MaxChanges]
    BY <2>1 DEF Init, Places
  <2>4. budget["change"] \in Nat /\ mem = 0 /\ disk = 0 /\ permit = FALSE
    BY <2>1 DEF Init, Kinds
  <2>5. SettingsTypes
    <3>1. mem \in 0..MaxChanges /\ disk \in 0..MaxChanges /\ mem + budget["change"] <= MaxChanges
      BY <2>1, <2>4
    <3>2. permit \in BOOLEAN
      BY <2>4
    <3> QED BY <2>1, <2>2, <2>3, <3>1, <3>2, Zenon DEF SettingsTypes
  <2>6. Holding = {}
    BY DEF Init, Holding
  <2> QED BY <2>5, <2>6 DEF Init, SettingsInv, OneFlush, Kept
<1>2. SettingsInv /\ [Next]_vars => SettingsInv'
  <2>1. ASSUME SettingsInv, UNCHANGED vars PROVE SettingsInv'
    BY <2>1 DEF SettingsInv, SettingsTypes, OneFlush, Kept, Marking, Holding, vars, settingsVars
  <2> QED BY <2>1, SettingsInvStep
<1>3. SettingsInv => ChangesAreKept
  BY DEF SettingsInv, Kept, Marking, ChangesAreKept
<1> QED BY <1>1, <1>2, <1>3, PTL DEF Spec

-----------------------------------------------------------------------------
(* The hot-plug recall.                                                    *)

RecallInv ==
  /\ seen \subseteq Displays /\ here \subseteq Displays
  /\ pending \in [Wallpapers -> SUBSET Displays]
  /\ recalled \in [Displays -> 0..1]
  /\ \A w \in Wallpapers : \A d \in pending[w] :
       d \in seen /\ WallpaperOf[d] = w /\ recalled[d] = 0
  /\ \A d \in Displays : recalled[d] = 1 => d \in seen

Recalls ==
  \/ \E ds \in SUBSET Displays : See(ds)
  \/ /\ UNCHANGED seen
     /\ \E w \in Wallpapers :
          /\ pending' = [pending EXCEPT ![w] = {}]
          /\ recalled' = [d \in Displays |-> recalled[d] + IF d \in pending[w] THEN 1 ELSE 0]

LEMMA RecallsOrElse ==
  ASSUME Next, here \subseteq Displays
  PROVE  Recalls \/ UNCHANGED recallVars
<1>1. CASE Environment
  BY <1>1 DEF Environment, Update, WriteFails, Register, Touch, Unregister, ActivateFails, Noise, SpawnFails,
     BackendExits, LockChanges, Shutdown, OnlySettings, OnlyRouter, OnlyBackend, OnlySession, bootVars
<1>2. CASE RecallSweep \/ RecallReceives \/ RecallLagged \/ \E w \in Wallpapers : RecallFires(w)
  <2>1. Upserted("recall") \subseteq Displays
    BY DEF Upserted
  <2> QED BY <1>2, <2>1 DEF RecallSweep, RecallReceives, RecallLagged, RecallFires, Recalls
<1>3. CASE Internal /\ ~(RecallSweep \/ RecallReceives \/ RecallLagged \/ \E w \in Wallpapers : RecallFires(w))
  BY <1>3 DEF Internal, Mark, NotifyOne, Notified, Debounced, CheckDirty, SwapDirty, Snapshot, Write,
     SourcesLatch, SourcesSend, DispatcherSubscribe, DispatcherReadsLatch, DispatcherLagged,
     DispatcherReceives, RecallSubscribe,
     WatcherReads, WatcherSubscribes, WatcherReceives, WatcherLatch, WatcherSend,
     HotplugSubscribe, HotplugRestore, HotplugReceives, HotplugLagged, Activate,
     BackendStart, BackendRestart, BackendStop, MonitorSeeds, MonitorSubscribes, MonitorReceives,
     MonitorForwards, OnlySettings, OnlyBackend, OnlySession, bootVars
<1> QED BY <1>1, <1>2, <1>3 DEF Next

LEMMA HereStep ==
  ASSUME Next, here \subseteq Displays
  PROVE  here' \subseteq Displays
<1>1. CASE Environment
  BY <1>1 DEF Environment, Update, WriteFails, Register, Touch, Unregister, ActivateFails, Noise, SpawnFails,
     BackendExits, LockChanges, Shutdown, OnlySettings, OnlyRouter, OnlyBackend, OnlySession, routerVars
<1>2. CASE Internal
  BY <1>2 DEF Internal, Mark, NotifyOne, Notified, Debounced, CheckDirty, SwapDirty, Snapshot, Write,
     SourcesLatch, SourcesSend, DispatcherSubscribe, DispatcherReadsLatch, DispatcherLagged,
     DispatcherReceives, RecallSubscribe, RecallSweep, RecallReceives, RecallLagged, RecallFires,
     WatcherReads, WatcherSubscribes, WatcherReceives, WatcherLatch, WatcherSend,
     HotplugSubscribe, HotplugRestore, HotplugReceives, HotplugLagged, Activate,
     BackendStart, BackendRestart, BackendStop, MonitorSeeds, MonitorSubscribes, MonitorReceives,
     MonitorForwards, OnlySettings, OnlyBoot, OnlyBackend, OnlySession, routerVars
<1> QED BY <1>1, <1>2 DEF Next

LEMMA RecallInvStep ==
  ASSUME RecallInv, Next
  PROVE  RecallInv'
<1>1. here' \subseteq Displays /\ (Recalls \/ UNCHANGED recallVars)
  BY HereStep, RecallsOrElse DEF RecallInv
<1>2. CASE UNCHANGED recallVars
  BY <1>1, <1>2 DEF RecallInv, recallVars
<1>3. ASSUME NEW ds \in SUBSET Displays, See(ds) PROVE RecallInv'
  <2>1. \A d \in ToRecall(ds) : d \in Displays /\ d \notin seen
    BY DEF ToRecall
  <2>2. \A d \in ToRecall(ds) : recalled[d] = 0
    BY <2>1 DEF RecallInv
  <2>3. seen' = seen \cup ds /\ recalled' = recalled
        /\ pending' = [w \in Wallpapers |-> pending[w] \cup {d \in ToRecall(ds) : WallpaperOf[d] = w}]
    BY <1>3 DEF See
  <2>4. ToRecall(ds) \subseteq ds
    BY DEF ToRecall
  <2> QED BY <1>1, <2>1, <2>2, <2>3, <2>4 DEF RecallInv
<1>4. ASSUME NEW w \in Wallpapers, UNCHANGED seen, pending' = [pending EXCEPT ![w] = {}],
             recalled' = [d \in Displays |-> recalled[d] + IF d \in pending[w] THEN 1 ELSE 0]
      PROVE  RecallInv'
  <2>1. \A d \in Displays : /\ d \in pending[w] => recalled'[d] = 1
                            /\ d \notin pending[w] => recalled'[d] = recalled[d]
    BY <1>4 DEF RecallInv
  <2>2. \A v \in Wallpapers : v # w => pending'[v] = pending[v] /\ \A d \in pending[v] : d \notin pending[w]
    BY <1>4 DEF RecallInv
  <2>3. pending' \in [Wallpapers -> SUBSET Displays] /\ pending'[w] = {}
    BY <1>4 DEF RecallInv
  <2>4. recalled' \in [Displays -> 0..1]
    BY <1>4, <2>1 DEF RecallInv
  <2>5. \A v \in Wallpapers : \A d \in pending'[v] :
          d \in seen' /\ WallpaperOf[d] = v /\ recalled'[d] = 0
    BY <1>4, <2>1, <2>2, <2>3 DEF RecallInv
  <2>6. \A d \in Displays : recalled'[d] = 1 => d \in seen'
    BY <1>4, <2>1 DEF RecallInv
  <2> QED BY <1>1, <1>4, <2>3, <2>4, <2>5, <2>6 DEF RecallInv
<1> QED BY <1>1, <1>2, <1>3, <1>4 DEF Recalls

(* RecalledOnce (event_process.rs, record and the settle timers): however  *)
(* often a display is seen, by the sweep, by upserts or after a lag, its   *)
(* wallpaper is recalled at most once.                                     *)
THEOREM ServicesRecalledOnce == Spec => []RecalledOnce
<1>1. Init => RecallInv
  BY DEF Init, RecallInv
<1>2. RecallInv /\ [Next]_vars => RecallInv'
  <2>1. ASSUME RecallInv, UNCHANGED vars PROVE RecallInv'
    BY <2>1 DEF RecallInv, vars, routerVars, bootVars, recallVars
  <2> QED BY <2>1, RecallInvStep
<1>3. RecallInv => RecalledOnce
  BY DEF RecallInv, RecalledOnce
<1> QED BY <1>1, <1>2, <1>3, PTL DEF Spec
=============================================================================
