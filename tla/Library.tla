------------------------------ MODULE Library -------------------------------
(***************************************************************************)
(* The wallpaper library: the directories on disk, the rows of the         *)
(* database (model/repo.rs), the scans that carry one over to the other    *)
(* (control.rs refresh_sources, source_manager.rs scan_all, model/sync.rs  *)
(* sync_plugin_entries), the file-system watcher that asks for scans       *)
(* (main.rs library_watch_loop) and the probe of new items                 *)
(* (probe/task.rs).                                                        *)
(*                                                                         *)
(* One source plugin.  The database has one connection, so a statement is  *)
(* a step, and a scan interleaves with everything else between statements. *)
(***************************************************************************)
EXTENDS Naturals, FiniteSets

CONSTANTS Libs,       \* library roots
          Files,      \* wallpaper files
          Sees,       \* the files under each root (roots may nest)
          Depth,      \* length of each root's path
          Dir,        \* the root each root is a name of: itself or a symlink's target
          Media,      \* the files that are pictures or films
          Batch,      \* rows of one transaction of the probe (COMMIT_BATCH)
          Scans,      \* scans that can run at once
          Starts,     \* where behaviours begin, and the events each of them has
          MaxId       \* bound on the database's ids

Pairs == UNION {{l} \X Sees[l] : l \in Libs}
\* "watch" and "probe" only say whether the watcher and the probe have a part.
Kinds == {"scan", "direct", "cancel", "file", "mount", "lib", "fail", "restart", "watch", "probe"}

ASSUME LibraryAssumption ==
  /\ Sees \in [Libs -> SUBSET Files]
  /\ Depth \in [Libs -> Nat]
  /\ Dir \in [Libs -> Libs] /\ \A k, l \in Libs : Dir[k] = Dir[l] => Sees[k] = Sees[l]
  /\ Media \subseteq Files /\ Batch \in Nat \ {0}
  /\ Starts \subseteq [events : [Kinds -> Nat], ids : [Libs -> 0..Cardinality(Libs)],
                      mounted : SUBSET Libs, files : SUBSET Files]
  /\ MaxId \in Nat /\ IsFiniteSet(Libs) /\ Cardinality(Libs) <= MaxId

VARIABLES
  budget,   \* the events still to come
  files,    \* files that exist
  mounted,  \* roots that exist
  lib,      \* id of each library's row, 0 for none
  row,      \* id of each item's row, 0 for none
  nextId,   \* the next id (AUTOINCREMENT never uses one twice)
  scan,     \* where each scan is and what it holds
  flag,     \* AppState.scan_in_progress
  settled,  \* did a scan that no change disturbed finish last? (history)
  probed,   \* ids of the rows the probe has nothing more to do for
  probe,    \* ids and files a probe pass has collected and will look at
  batch,    \* ids it will write, and whether the file was there
  noticed,  \* an event of the watcher that is not received
  armed,    \* library_watch_loop's pending
  cooling,  \* did the watcher start a rescan less than the cooldown ago?
  watched   \* roots the watcher is attached to

diskVars == <<files, mounted>>
dbVars == <<lib, row, nextId>>
probeVars == <<probed, probe, batch>>
watchVars == <<noticed, armed, cooling, watched>>
vars == <<budget, diskVars, dbVars, scan, flag, settled, probeVars, watchVars>>

Idle == [at |-> "idle", keyed |-> FALSE, cancelled |-> FALSE, clean |-> FALSE, libs |-> {},
         roots |-> {}, left |-> {}, present |-> {}, fresh |-> {}, open |-> 0]
Running == {s \in Scans : scan[s].at # "idle"}
Happens(kind) == budget[kind] > 0 /\ budget' = [budget EXCEPT ![kind] = @ - 1]
Has(p) == row[p] # 0
Known == {l \in Libs : lib[l] # 0}

ScanStates ==
  [at : {"idle", "list", "scan", "present", "open", "items", "finish"},
   keyed : BOOLEAN, cancelled : BOOLEAN, clean : BOOLEAN, libs : SUBSET Libs,
   roots : SUBSET Libs, left : SUBSET Pairs, present : SUBSET Libs, fresh : SUBSET Pairs, open : 0..MaxId]

TypeOK ==
  /\ budget \in [Kinds -> Nat]
  /\ files \subseteq Files /\ mounted \subseteq Libs
  /\ lib \in [Libs -> 0..MaxId] /\ row \in [Pairs -> 0..MaxId] /\ nextId \in Nat \ {0}
  /\ \A p \in Pairs : Has(p) => lib[p[1]] # 0
  /\ scan \in [Scans -> ScanStates]
  /\ flag \in BOOLEAN /\ settled \in BOOLEAN
  /\ probed \subseteq 1..MaxId
  /\ probe \subseteq (1..MaxId) \X Pairs /\ batch \subseteq (1..MaxId) \X BOOLEAN
  /\ noticed \in BOOLEAN /\ armed \in BOOLEAN /\ cooling \in BOOLEAN /\ watched \subseteq Libs

\* No item is in the database yet; the watcher sees the registered roots.
Init ==
  /\ \E start \in Starts :
       budget = start.events /\ lib = start.ids /\ mounted = start.mounted /\ files = start.files
  /\ row = [p \in Pairs |-> 0] /\ nextId = Cardinality(Known) + 1
  /\ scan = [s \in Scans |-> Idle] /\ flag = FALSE /\ settled = FALSE
  /\ probed = {} /\ probe = {} /\ batch = {}
  /\ noticed = FALSE /\ armed = FALSE /\ cooling = FALSE /\ watched = Known \cap mounted

-----------------------------------------------------------------------------
(* The world.                                                              *)

\* What changes under a running scan is not seen by it for sure.
Disturb(sc) == [s \in Scans |-> [sc[s] EXCEPT !.clean = FALSE]]
Disturbed == scan' = Disturb(scan) /\ settled' = FALSE

\* notify sends an event for a change below a watched root.
Noticed(ls) == noticed' = (noticed \/ (budget["watch"] > 0 /\ ls \cap watched # {}))

FileChanges(f) ==
  /\ Happens("file")
  /\ files' \in {files \cup {f}, files \ {f}} /\ files' # files
  /\ Noticed({l \in mounted : f \in Sees[l]})
  /\ Disturbed
  /\ UNCHANGED <<mounted, dbVars, flag, probeVars, armed, cooling, watched>>

Mount(l) ==
  /\ Happens("mount")
  /\ mounted' \in {mounted \cup {l}, mounted \ {l}} /\ mounted' # mounted
  /\ Disturbed
  /\ UNCHANGED <<files, dbVars, flag, probeVars, watchVars>>

-----------------------------------------------------------------------------
(* Scans.                                                                  *)

\* refresh_sources, directly or as the task "scan/refresh", which cancels the
\* one before it.  A scan that starts while a disturbed one runs is disturbed.
Started(s, keyed, sc) ==
  [r \in Scans |->
     IF r = s THEN [Idle EXCEPT !.at = "list", !.keyed = keyed,
                                !.clean = \A t \in Running : sc[t].clean]
     ELSE [sc[r] EXCEPT !.cancelled = @ \/ (keyed /\ sc[r].keyed)]]

Start(s, keyed) ==
  /\ scan[s].at = "idle"
  /\ Happens(IF keyed THEN "scan" ELSE "direct")
  /\ scan' = Started(s, keyed, scan) /\ flag' = TRUE
  /\ UNCHANGED <<diskVars, dbVars, settled, probeVars, watchVars>>

\* A cancelled scan ends at its next await; scan_in_progress stays as it is.
Drop(s) ==
  /\ scan[s].cancelled
  /\ scan' = [scan EXCEPT ![s] = Idle]
  /\ UNCHANGED <<budget, diskVars, dbVars, flag, settled, probeVars, watchVars>>

\* Two names of one directory have one canonical path, if both are there.
Alias(k, l) == k = l \/ (k \in mounted /\ l \in mounted /\ Dir[k] = Dir[l])

\* dedup_paths_by_canonical keeps the first name of each, in order of the ids.
Firsts(ls) == {l \in ls : \A k \in ls : Alias(k, l) => lib[l] <= lib[k]}

\* list_libraries, and at once which of them are scanned.
ListLibs(s) ==
  /\ scan[s].at = "list"
  /\ scan' = [scan EXCEPT ![s].at = "scan", ![s].libs = Known, ![s].roots = Firsts(Known)]
  /\ UNCHANGED <<budget, diskVars, dbVars, flag, settled, probeVars, watchVars>>

\* scan_all: the plugin lists the files below the roots that are there.
Visible(ls) == {p \in Pairs : p[1] \in ls \cap mounted /\ p[2] \in files}

ScanLibs(s) ==
  /\ scan[s].at = "scan"
  /\ scan' = [scan EXCEPT ![s].at = "present", ![s].left = Visible(scan[s].roots)]
  /\ UNCHANGED <<budget, diskVars, dbVars, flag, settled, probeVars, watchVars>>

\* An error of the plugin is logged; what it had found is all there is.
ScanFails(s) ==
  /\ scan[s].at = "scan" /\ Happens("fail")
  /\ \E found \in SUBSET Visible(scan[s].roots) :
       scan' = [Disturb(scan) EXCEPT ![s].at = "present", ![s].left = found]
  /\ settled' = FALSE
  /\ UNCHANGED <<diskVars, dbVars, flag, probeVars, watchVars>>

LookPresentUnchecked(s) ==
  /\ scan[s].at = "present"
  /\ scan' = [scan EXCEPT ![s].at = "open", ![s].present = scan[s].libs]
  /\ UNCHANGED <<budget, diskVars, dbVars, flag, settled, probeVars, watchVars>>

\* Which roots exist is looked up after the scan, among all the names; then
\* seen_before is taken.
LookPresent(s) ==
  /\ scan[s].at = "present"
  /\ scan' = [scan EXCEPT ![s].at = "open", ![s].present = scan[s].libs \cap mounted]
  /\ UNCHANGED <<budget, diskVars, dbVars, flag, settled, probeVars, watchVars>>

\* The next library of the entries is found, or added.
OpenLib(s, l) ==
  /\ scan[s].at = "open" /\ \E p \in scan[s].left : p[1] = l
  /\ nextId <= MaxId
  /\ lib' = [lib EXCEPT ![l] = IF @ = 0 THEN nextId ELSE @]
  /\ nextId' = IF lib[l] = 0 THEN nextId + 1 ELSE nextId
  /\ scan' = [scan EXCEPT ![s].at = "items", ![s].open = lib'[l]]
  /\ UNCHANGED <<budget, diskVars, row, flag, settled, probeVars, watchVars>>

\* The library of the items a scan is about to write.
OfOpen(s) == {p \in scan[s].left : lib[p[1]] = scan[s].open}

\* upsert_item stamps the row: no scan that is past its seen_before sweeps it.
Stamped(p, sc) ==
  [s \in Scans |-> IF sc[s].at \in {"open", "items"}
                   THEN [sc[s] EXCEPT !.fresh = @ \cup {p}] ELSE sc[s]]

UpsertItem(s, p) ==
  /\ scan[s].at = "items" /\ p \in OfOpen(s)
  /\ nextId <= MaxId
  /\ row' = [row EXCEPT ![p] = IF @ = 0 THEN nextId ELSE @]
  /\ nextId' = IF Has(p) THEN nextId ELSE nextId + 1
  /\ scan' = [Stamped(p, scan) EXCEPT ![s].left = @ \ {p},
                                      ![s].at = IF OfOpen(s) = {p} THEN "open" ELSE @]
  /\ UNCHANGED <<budget, diskVars, lib, flag, settled, probeVars, watchVars>>

\* The library is gone: the foreign key fails, and the sync ends with no sweep.
UpsertFails(s) ==
  /\ scan[s].at = "items" /\ OfOpen(s) = {}
  /\ scan' = [scan EXCEPT ![s].at = "finish"]
  /\ UNCHANGED <<budget, diskVars, dbVars, flag, settled, probeVars, watchVars>>

StaleOfFound(s) == {p \in Pairs : /\ p[1] \in scan[s].present \cap {q[1] : q \in scan[s].fresh}
                                  /\ p \notin scan[s].fresh}

\* The rows of the present libraries that were not stamped since seen_before.
Stale(s) == {p \in Pairs : p[1] \in scan[s].present /\ p \notin scan[s].fresh}

Sweep(s) ==
  /\ scan[s].at = "open" /\ scan[s].left = {}
  /\ row' = [p \in Pairs |-> IF p \in Stale(s) THEN 0 ELSE row[p]]
  /\ scan' = [scan EXCEPT ![s].at = "finish"]
  /\ UNCHANGED <<budget, diskVars, lib, nextId, flag, settled, probeVars, watchVars>>

\* The flag falls; a probe pass starts over, unless it is the scheduler's.
Finish(s) ==
  /\ scan[s].at = "finish"
  /\ scan' = [scan EXCEPT ![s] = Idle]
  /\ flag' = FALSE /\ settled' = (settled \/ scan[s].clean)
  /\ UNCHANGED <<probe, batch>> \/ (probe' = {} /\ batch' = {})
  /\ UNCHANGED <<budget, diskVars, dbVars, probed, watchVars>>

\* CancelTask of the D-Bus interface.
CancelTask(s) ==
  /\ scan[s].keyed /\ ~scan[s].cancelled /\ Happens("cancel")
  /\ scan' = [scan EXCEPT ![s].cancelled = TRUE]
  /\ UNCHANGED <<diskVars, dbVars, flag, settled, probeVars, watchVars>>

-----------------------------------------------------------------------------
(* Requests about libraries, and a restart.                                *)

LibraryAdd(l, s) ==
  /\ lib[l] = 0 /\ scan[s].at = "idle" /\ nextId <= MaxId /\ Happens("lib")
  /\ lib' = [lib EXCEPT ![l] = nextId] /\ nextId' = nextId + 1
  /\ scan' = Started(s, TRUE, Disturb(scan)) /\ flag' = TRUE /\ settled' = FALSE
  /\ UNCHANGED <<diskVars, row, probeVars, watchVars>>

\* Its items go with it (ON DELETE CASCADE).
LibraryRemove(l, s) ==
  /\ lib[l] # 0 /\ scan[s].at = "idle" /\ Happens("lib")
  /\ lib' = [lib EXCEPT ![l] = 0]
  /\ row' = [p \in Pairs |-> IF p[1] = l THEN 0 ELSE row[p]]
  /\ scan' = Started(s, TRUE, Disturb(scan)) /\ flag' = TRUE /\ settled' = FALSE
  /\ UNCHANGED <<diskVars, nextId, probeVars, watchVars>>

\* dedup_key: the inode of a file that can be read, the path of another.
IsThere(p) == p[1] \in mounted /\ p[2] \in files
SameKey(p, q) ==
  /\ p[2] = q[2] /\ IsThere(p) = IsThere(q)
  /\ p = q \/ IsThere(p) \/ (Dir[p[1]] = p[1] /\ Dir[q[1]] = q[1])

\* deduplicate_db_items keeps the row of the longest root, then the oldest.
Rows(p) == {q \in Pairs : Has(q) /\ SameKey(p, q)}
Deepest(ps) == {p \in ps : \A q \in ps : Depth[q[1]] <= Depth[p[1]]}
Kept(p) == {q \in Deepest(Rows(p)) : \A o \in Deepest(Rows(p)) : row[q] <= row[o]}

\* The daemon starts again: the duplicates are deleted, the sources scanned.
Restart(s) ==
  /\ Happens("restart")
  /\ row' = [p \in Pairs |-> IF p \in Kept(p) THEN row[p] ELSE 0]
  /\ scan' = [[r \in Scans |-> Idle] EXCEPT ![s].at = "list", ![s].clean = TRUE]
  /\ flag' = TRUE /\ settled' = FALSE /\ probe' = {} /\ batch' = {}
  /\ noticed' = FALSE /\ armed' = FALSE /\ cooling' = FALSE
  /\ watched' = Known \cap mounted
  /\ UNCHANGED <<diskVars, lib, nextId, probed>>

-----------------------------------------------------------------------------
(* The probe (run_pending, at its tick or after a scan).                   *)

Ids == {row[p] : p \in Pairs} \ {0}

OnlyProbe == UNCHANGED <<budget, diskVars, dbVars, scan, flag, settled, watchVars>>
Todo == {<<row[p], p>> : p \in {q \in Pairs : Has(q) /\ row[q] \notin probed}}

ProbeCollect ==
  /\ budget["probe"] > 0 /\ probe = {} /\ batch = {} /\ OnlyProbe
  /\ Todo # {} /\ probe' = Todo
  /\ UNCHANGED <<probed, batch>>

\* An item whose file cannot be read is written only if it is a picture or film.
ProbeLook(w) ==
  /\ w \in probe /\ Cardinality(batch) < Batch /\ OnlyProbe
  /\ probe' = probe \ {w}
  /\ batch' = IF IsThere(w[2]) \/ w[2][2] \in Media
              THEN batch \cup {<<w[1], IsThere(w[2])>>} ELSE batch
  /\ UNCHANGED probed

Flushes == /\ batch # {} /\ OnlyProbe /\ UNCHANGED probe
           /\ probe = {} \/ Cardinality(batch) = Batch
Commits == {w[1] : w \in batch} \subseteq Ids

ProbeFlushKeeping ==
  /\ Flushes
  /\ probed' = IF Commits THEN probed \cup {w[1] : w \in {v \in batch : v[2]}} ELSE probed
  /\ batch' = IF Commits THEN {} ELSE batch

\* One transaction: a row that is gone rolls all of it back.  A row with no
\* stat_at is collected again.
ProbeFlush ==
  /\ Flushes
  /\ probed' = IF Commits THEN probed \cup {w[1] : w \in {v \in batch : v[2]}} ELSE probed
  /\ batch' = {}

-----------------------------------------------------------------------------
(* The watcher.                                                            *)

OnlyWatcher == UNCHANGED <<budget, diskVars, dbVars, settled, probeVars>>

WatcherReceives ==
  /\ noticed /\ OnlyWatcher
  /\ noticed' = FALSE /\ armed' = TRUE
  /\ UNCHANGED <<scan, flag, cooling, watched>>

WatcherFiresLate(s) ==
  /\ armed /\ ~cooling /\ OnlyWatcher
  /\ armed' = FALSE /\ noticed' = FALSE /\ cooling' = TRUE
  /\ watched' = Known \cap mounted
  /\ UNCHANGED <<scan, flag>>

\* The debounce is over: a rescan, unless one runs, and a new watcher ...
WatcherFires(s) ==
  /\ armed /\ ~cooling /\ OnlyWatcher
  /\ armed' = FALSE /\ noticed' = FALSE /\ cooling' = TRUE
  /\ IF flag THEN UNCHANGED <<scan, flag>>
     ELSE scan[s].at = "idle" /\ scan' = Started(s, TRUE, scan) /\ flag' = TRUE
  /\ watched' = Known \cap mounted

\* ... or nothing, in the cooldown.
WatcherSkips ==
  /\ armed /\ cooling /\ OnlyWatcher
  /\ armed' = FALSE /\ noticed' = FALSE
  /\ UNCHANGED <<scan, flag, cooling, watched>>

WatcherCools ==
  /\ cooling /\ OnlyWatcher
  /\ cooling' = FALSE
  /\ UNCHANGED <<scan, flag, noticed, armed, watched>>

-----------------------------------------------------------------------------

ScanStep(s) ==
  \/ ListLibs(s) \/ ScanLibs(s) \/ LookPresent(s)
  \/ \E l \in Libs : OpenLib(s, l)
  \/ \E p \in Pairs : UpsertItem(s, p)
  \/ UpsertFails(s) \/ Sweep(s) \/ Finish(s) \/ Drop(s)

Daemon ==
  \/ \E s \in Scans : ScanStep(s) \/ WatcherFires(s)
  \/ WatcherReceives \/ WatcherSkips \/ WatcherCools

Probe == ProbeCollect \/ ProbeFlush \/ \E w \in probe : ProbeLook(w)

Internal == Daemon \/ Probe

Environment ==
  \/ \E s \in Scans :
       \/ Start(s, TRUE) \/ Start(s, FALSE) \/ ScanFails(s) \/ CancelTask(s) \/ Restart(s)
       \/ \E l \in Libs : LibraryAdd(l, s) \/ LibraryRemove(l, s)
  \/ \E f \in Files : FileChanges(f)
  \/ \E l \in Libs : Mount(l)

Next == Internal \/ Environment

Spec == Init /\ [][Next]_vars

\* tokio polls the tasks that are ready, SQLite answers, timers expire.  Scans
\* and watcher take finitely many steps between two events of the budget; the
\* probe starts a pass at every tick as long as a file cannot be read.
Fairness == WF_vars(Daemon) /\ WF_vars(Probe)

FairSpec == Spec /\ Fairness

-----------------------------------------------------------------------------
(* What the library promises.                                              *)

\* When a scan that nothing disturbed has finished, each file of a library that
\* is mounted has a row, and one only among the names of its directory, that of
\* the name added first, and no file that is gone has one: whatever other scans
\* ran, were cancelled or swept at the same time (control.rs
\* refresh_sources_inner, dedup_paths_by_canonical).
InSync ==
  settled => \A p \in Pairs : p[1] \in Known \cap mounted =>
               (Has(p) <=> p[2] \in files /\ p[1] \in Firsts(Known))

\* An undisturbed scan sweeps no row of a file that exists, on a disk that is
\* mounted or one that is not (control.rs:810, sync.rs), unless the file keeps
\* a row under another name of its directory.
SweepsOnlyGone ==
  [][\A s \in Scans : scan[s].at = "open" /\ scan'[s].at = "finish" /\ scan[s].clean =>
       \A p \in Pairs : Has(p) /\ row'[p] = 0 =>
         \/ p[2] \notin files
         \/ \E q \in Pairs : q[2] = p[2] /\ Alias(q[1], p[1]) /\ row'[q] # 0]_vars

\* Every row whose file can be read is probed, however often a batch loses its
\* transaction to a row that goes, and whatever files cannot be (probe/task.rs).
RowsAreProbed ==
  []<>(budget["probe"] > 0 => \A p \in Pairs : Has(p) /\ IsThere(p) => row[p] \in probed)

\* A change the watcher hears of outside the cooldown, with no scan under way,
\* gets the file its row (main.rs library_watch_loop).
Missing(p) == p[1] \in Firsts(Known) \cap mounted /\ p[2] \in files /\ ~Has(p)
Quiet == ~cooling /\ ~flag /\ Running = {}
HeardFilesAreFound ==
  \A p \in Pairs : (noticed /\ Quiet /\ Missing(p)) ~> ~Missing(p)

=============================================================================
