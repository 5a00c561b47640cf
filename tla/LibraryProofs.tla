--------------------------- MODULE LibraryProofs ----------------------------
(***************************************************************************)
(* What the library guarantees for any roots, nested or not, any files,    *)
(* any number of scans and any mixture of events.                          *)
(*                                                                         *)
(* InSync is not inductive.  It needs what a scan that nothing disturbed   *)
(* knows at each stage: which libraries there are, which files they hold,  *)
(* and that a file it has carried over is stamped, so that no scan that    *)
(* runs beside it sweeps the file's row.                                   *)
(***************************************************************************)
EXTENDS Library, FiniteSetTheorems, WellFoundedInduction, TLAPS

\* The items there should be, and no other of the libraries that are mounted.
Wanted == Visible(Firsts(Known))
Synced == \A p \in Pairs : p[1] \in Known \cap mounted => (Has(p) <=> p \in Wanted)

Past(r, places) == scan[r].at \in places

\* What a scan that nothing disturbed knows of the disk and the database.
Unstamped(r) == Past(r, {"list", "scan", "present"}) => scan[r].fresh = {}
KnowsLibs(r) == Past(r, {"scan", "present"}) => scan[r].libs = Known /\ scan[r].roots = Firsts(Known)
HasListed(r) == Past(r, {"present"}) => scan[r].left = Wanted
CarriesOver(r) ==
  Past(r, {"open", "items"}) =>
    /\ scan[r].present = Known \cap mounted
    /\ scan[r].left \subseteq Wanted /\ scan[r].fresh \subseteq Wanted
    /\ \A p \in Wanted : p \in scan[r].left \/ (Has(p) /\ p \in scan[r].fresh)
HasOpen(r) == Past(r, {"items"}) => OfOpen(r) # {}
HasSwept(r) == Past(r, {"finish"}) => Synced

Right(r) ==
  Unstamped(r) /\ KnowsLibs(r) /\ HasListed(r) /\ CarriesOver(r) /\ HasOpen(r) /\ HasSwept(r)

IsClean(r) == r \in Running /\ scan[r].clean
CleanAreRight == \A r \in Scans : IsClean(r) => Right(r)

\* A change disturbs all the scans that run, or none.
AllOrNone == (settled \/ \E r \in Scans : IsClean(r)) => \A r \in Running : scan[r].clean

\* The library a scan writes items of is a row.
OpenIsRow == \A r \in Scans : Past(r, {"items"}) => scan[r].open # 0

SyncInv == TypeOK /\ OpenIsRow /\ CleanAreRight /\ AllOrNone /\ (settled => Synced)
-----------------------------------------------------------------------------
(* Types.                                                                  *)

LEMMA HappensTypes ==
  ASSUME budget \in [Kinds -> Nat], NEW kind \in Kinds, Happens(kind)
  PROVE  budget' \in [Kinds -> Nat]
BY DEF Happens

LEMMA IdleState == Idle \in ScanStates /\ Idle.at = "idle" /\ Idle.fresh = {} /\ ~Idle.clean
BY LibraryAssumption DEF Idle, ScanStates

\* The parts of a scan's state that its work depends on.
SameWork(a, b) ==
  /\ a.at = b.at /\ a.clean = b.clean /\ a.libs = b.libs /\ a.roots = b.roots /\ a.left = b.left
  /\ a.present = b.present /\ a.fresh = b.fresh /\ a.open = b.open

LEMMA StartedTypes ==
  ASSUME NEW s \in Scans, NEW keyed \in BOOLEAN, NEW sc \in [Scans -> ScanStates]
  PROVE  /\ Started(s, keyed, sc) \in [Scans -> ScanStates]
         /\ Started(s, keyed, sc)[s].at = "list" /\ Started(s, keyed, sc)[s].fresh = {}
         /\ Started(s, keyed, sc)[s].clean = \A t \in Running : sc[t].clean
         /\ \A r \in Scans : r # s => SameWork(sc[r], Started(s, keyed, sc)[r])
<1> DEFINE all == \A t \in Running : sc[t].clean
           first == [Idle EXCEPT !.at = "list", !.keyed = keyed, !.clean = all]
           rest(r) == [sc[r] EXCEPT !.cancelled = @ \/ (keyed /\ sc[r].keyed)]
<1>1. first \in ScanStates /\ first.at = "list" /\ first.fresh = {} /\ first.clean = all
  BY IdleState DEF ScanStates
<1>2. ASSUME NEW r \in Scans PROVE rest(r) \in ScanStates /\ SameWork(sc[r], rest(r))
  BY DEF ScanStates, SameWork
<1>3. Started(s, keyed, sc) = [r \in Scans |-> IF r = s THEN first ELSE rest(r)]
  BY DEF Started
<1> HIDE DEF first, rest, all
<1>4. /\ Started(s, keyed, sc) \in [Scans -> ScanStates]
      /\ Started(s, keyed, sc)[s] = first
      /\ \A r \in Scans : r # s => Started(s, keyed, sc)[r] = rest(r)
  BY <1>1, <1>2, <1>3
<1> QED
  BY <1>1, <1>2, <1>4 DEF all

LEMMA DisturbTypes ==
  ASSUME NEW sc \in [Scans -> ScanStates]
  PROVE  /\ Disturb(sc) \in [Scans -> ScanStates]
         /\ \A r \in Scans : Disturb(sc)[r].at = sc[r].at /\ ~Disturb(sc)[r].clean /\ Disturb(sc)[r].open = sc[r].open
BY ZenonT(60) DEF Disturb, ScanStates

LEMMA StampedTypes ==
  ASSUME NEW sc \in [Scans -> ScanStates], NEW p \in Pairs
  PROVE  /\ Stamped(p, sc) \in [Scans -> ScanStates]
         /\ \A r \in Scans :
              /\ Stamped(p, sc)[r].at = sc[r].at /\ Stamped(p, sc)[r].clean = sc[r].clean
              /\ Stamped(p, sc)[r].libs = sc[r].libs /\ Stamped(p, sc)[r].roots = sc[r].roots /\ Stamped(p, sc)[r].left = sc[r].left
              /\ Stamped(p, sc)[r].present = sc[r].present /\ Stamped(p, sc)[r].open = sc[r].open
              /\ Stamped(p, sc)[r].fresh = IF sc[r].at \in {"open", "items"}
                                           THEN sc[r].fresh \cup {p} ELSE sc[r].fresh
BY DEF Stamped, ScanStates

LEMMA VisiblePairs == ASSUME NEW ls PROVE Visible(ls) \subseteq Pairs
BY DEF Visible

LEMMA PairsOf == ASSUME NEW p \in Pairs PROVE p[1] \in Libs /\ p[2] \in Files
BY LibraryAssumption DEF Pairs

\* A scan goes to another place with something new in its hands.
LEMMA SetScan ==
  ASSUME scan \in [Scans -> ScanStates], NEW s \in Scans, NEW v \in ScanStates,
         scan' = [scan EXCEPT ![s] = v]
  PROVE  /\ scan' \in [Scans -> ScanStates] /\ scan'[s] = v
         /\ \A r \in Scans : r # s => scan'[r] = scan[r]
OBVIOUS

LEMMA OpeningScan ==
  ASSUME NEW a \in ScanStates, NEW id \in 0..MaxId
  PROVE  LET b == [a EXCEPT !.at = "items", !.open = id]
         IN  /\ b \in ScanStates /\ b.at = "items" /\ b.open = id /\ b.clean = a.clean /\ b.fresh = a.fresh
             /\ b.left = a.left /\ b.present = a.present
BY DEF ScanStates

LEMMA ListedScan ==
  ASSUME NEW a \in ScanStates, NEW found \in SUBSET Pairs
  PROVE  LET b == [a EXCEPT !.at = "present", !.left = found]
         IN  /\ b \in ScanStates /\ b.at = "present" /\ b.left = found /\ b.libs = a.libs /\ b.roots = a.roots
             /\ b.clean = a.clean /\ b.fresh = a.fresh /\ b.open = a.open
BY DEF ScanStates

\* A scan's own step: where it is and what it holds afterwards.
LEMMA ScanMoves ==
  ASSUME TypeOK, NEW s \in Scans
  PROVE  /\ ListLibs(s) => /\ scan' \in [Scans -> ScanStates] /\ (\A r \in Scans : r # s => scan'[r] = scan[r])
                           /\ scan'[s].at = "scan" /\ scan'[s].libs = Known /\ scan'[s].roots = Firsts(Known)
                           /\ scan'[s].clean = scan[s].clean /\ scan'[s].fresh = scan[s].fresh
         /\ ScanLibs(s) => /\ scan' \in [Scans -> ScanStates] /\ (\A r \in Scans : r # s => scan'[r] = scan[r])
                           /\ scan'[s].at = "present" /\ scan'[s].libs = scan[s].libs /\ scan'[s].roots = scan[s].roots
                           /\ scan'[s].clean = scan[s].clean /\ scan'[s].fresh = scan[s].fresh
                           /\ scan'[s].left = Visible(scan[s].roots)
         /\ LookPresent(s) => /\ scan' \in [Scans -> ScanStates] /\ (\A r \in Scans : r # s => scan'[r] = scan[r])
                              /\ scan'[s].at = "open" /\ scan'[s].left = scan[s].left
                              /\ scan'[s].clean = scan[s].clean /\ scan'[s].fresh = scan[s].fresh
                              /\ scan'[s].present = scan[s].libs \cap mounted
         /\ UpsertFails(s) \/ Sweep(s) =>
                              /\ scan' \in [Scans -> ScanStates] /\ (\A r \in Scans : r # s => scan'[r] = scan[r])
                              /\ scan'[s].at = "finish" /\ scan'[s].clean = scan[s].clean
         /\ Finish(s) \/ Drop(s) =>
                              /\ scan' \in [Scans -> ScanStates] /\ (\A r \in Scans : r # s => scan'[r] = scan[r])
                              /\ scan'[s].at = "idle"
<1>0. scan \in [Scans -> ScanStates] /\ mounted \subseteq Libs /\ Known \subseteq Libs /\ Firsts(Known) \subseteq Libs
  BY DEF TypeOK, Known, Firsts
<1>1. Visible(scan[s].roots) \in SUBSET Pairs
  BY VisiblePairs
<1>2. ASSUME ListLibs(s)
      PROVE  /\ scan' \in [Scans -> ScanStates] /\ (\A r \in Scans : r # s => scan'[r] = scan[r])
             /\ scan'[s].at = "scan" /\ scan'[s].libs = Known /\ scan'[s].roots = Firsts(Known)
             /\ scan'[s].clean = scan[s].clean /\ scan'[s].fresh = scan[s].fresh
  <2> DEFINE v == [scan[s] EXCEPT !.at = "scan", !.libs = Known, !.roots = Firsts(Known)]
  <2>1. /\ v \in ScanStates /\ v.at = "scan" /\ v.libs = Known /\ v.roots = Firsts(Known)
        /\ v.clean = scan[s].clean /\ v.fresh = scan[s].fresh
    <3>1. scan[s] \in ScanStates /\ Known \in SUBSET Libs /\ Firsts(Known) \in SUBSET Libs
      BY <1>0
    <3> QED
      BY <3>1 DEF ScanStates
  <2>2. scan' = [scan EXCEPT ![s] = v]
    BY <1>0, <1>2 DEF ListLibs
  <2> HIDE DEF v
  <2> QED
    BY <1>0, <2>1, <2>2, SetScan
<1>3. ASSUME ScanLibs(s)
      PROVE  /\ scan' \in [Scans -> ScanStates] /\ (\A r \in Scans : r # s => scan'[r] = scan[r])
             /\ scan'[s].at = "present" /\ scan'[s].libs = scan[s].libs /\ scan'[s].roots = scan[s].roots
             /\ scan'[s].clean = scan[s].clean /\ scan'[s].fresh = scan[s].fresh
             /\ scan'[s].left = Visible(scan[s].roots)
  <2> DEFINE v == [scan[s] EXCEPT !.at = "present", !.left = Visible(scan[s].roots)]
  <2>1. /\ v \in ScanStates /\ v.at = "present" /\ v.left = Visible(scan[s].roots) /\ v.libs = scan[s].libs /\ v.roots = scan[s].roots
        /\ v.clean = scan[s].clean /\ v.fresh = scan[s].fresh
    BY ZenonT(60), <1>0, <1>1, ListedScan
  <2>2. scan' = [scan EXCEPT ![s] = v]
    BY <1>0, <1>3 DEF ScanLibs
  <2> HIDE DEF v
  <2> QED
    BY <1>0, <2>1, <2>2, SetScan
<1>4. ASSUME LookPresent(s)
      PROVE  /\ scan' \in [Scans -> ScanStates] /\ (\A r \in Scans : r # s => scan'[r] = scan[r])
             /\ scan'[s].at = "open" /\ scan'[s].left = scan[s].left
             /\ scan'[s].clean = scan[s].clean /\ scan'[s].fresh = scan[s].fresh
             /\ scan'[s].present = scan[s].libs \cap mounted
  BY ZenonT(60), <1>0, <1>4 DEF LookPresent, ScanStates
<1>5. ASSUME UpsertFails(s) \/ Sweep(s)
      PROVE  /\ scan' \in [Scans -> ScanStates] /\ (\A r \in Scans : r # s => scan'[r] = scan[r])
             /\ scan'[s].at = "finish" /\ scan'[s].clean = scan[s].clean
  <2>1. scan' = [scan EXCEPT ![s].at = "finish"]
    BY <1>5 DEF UpsertFails, Sweep
  <2> QED
    BY <1>0, <2>1 DEF ScanStates
<1>6. ASSUME Finish(s) \/ Drop(s)
      PROVE  /\ scan' \in [Scans -> ScanStates] /\ (\A r \in Scans : r # s => scan'[r] = scan[r])
             /\ scan'[s].at = "idle"
  <2>1. scan' = [scan EXCEPT ![s] = Idle]
    BY <1>6 DEF Finish, Drop
  <2> QED
    BY <1>0, <2>1, IdleState
<1> QED
  BY <1>2, <1>3, <1>4, <1>5, <1>6

LEMMA OpenMoves ==
  ASSUME TypeOK, NEW s \in Scans, NEW l \in Libs, OpenLib(s, l)
  PROVE  /\ scan' \in [Scans -> ScanStates] /\ (\A r \in Scans : r # s => scan'[r] = scan[r])
         /\ scan'[s].at = "items" /\ scan'[s].open = lib'[l] /\ scan'[s].clean = scan[s].clean
         /\ scan'[s].fresh = scan[s].fresh /\ scan'[s].left = scan[s].left
         /\ scan'[s].present = scan[s].present
         /\ lib' \in [Libs -> 0..MaxId] /\ lib'[l] # 0
         /\ \A k \in Libs : lib[k] # 0 => lib'[k] = lib[k]
<1>1. /\ lib' \in [Libs -> 0..MaxId] /\ lib'[l] # 0
      /\ \A k \in Libs : lib[k] # 0 => lib'[k] = lib[k]
  BY LibraryAssumption DEF OpenLib, TypeOK
<1> DEFINE v == [scan[s] EXCEPT !.at = "items", !.open = lib'[l]]
<1>2. /\ v \in ScanStates /\ v.at = "items" /\ v.open = lib'[l] /\ v.clean = scan[s].clean
      /\ v.fresh = scan[s].fresh /\ v.left = scan[s].left /\ v.present = scan[s].present
  <2>1. scan[s] \in ScanStates /\ lib'[l] \in 0..MaxId
    BY <1>1 DEF TypeOK
  <2> QED
    BY <2>1, OpeningScan
<1>3. scan \in [Scans -> ScanStates] /\ scan' = [scan EXCEPT ![s] = v]
  BY DEF TypeOK, OpenLib
<1> HIDE DEF v
<1> QED
  BY <1>1, <1>2, <1>3, SetScan

\* An item is written, and stamped for every scan that may sweep.
Writes(s, p) ==
  /\ \A r \in Scans : r # s => /\ scan'[r].at = scan[r].at /\ scan'[r].clean = scan[r].clean
                               /\ scan'[r].left = scan[r].left /\ scan'[r].open = scan[r].open
                               /\ scan'[r].present = scan[r].present /\ scan'[r].libs = scan[r].libs /\ scan'[r].roots = scan[r].roots
                               /\ scan'[r].fresh = IF scan[r].at \in {"open", "items"}
                                                   THEN scan[r].fresh \cup {p} ELSE scan[r].fresh
  /\ scan'[s].at = (IF OfOpen(s) = {p} THEN "open" ELSE "items")
  /\ scan'[s].open = scan[s].open /\ scan'[s].clean = scan[s].clean
  /\ scan'[s].fresh = scan[s].fresh \cup {p} /\ scan'[s].left = scan[s].left \ {p}
  /\ scan'[s].present = scan[s].present
  /\ row'[p] # 0 /\ \A q \in Pairs : q # p => row'[q] = row[q]

LEMMA UpsertMoves ==
  ASSUME TypeOK, NEW s \in Scans, NEW p \in Pairs, UpsertItem(s, p)
  PROVE  scan' \in [Scans -> ScanStates] /\ row' \in [Pairs -> 0..MaxId] /\ Writes(s, p)
<1>1. row' \in [Pairs -> 0..MaxId] /\ row'[p] # 0 /\ \A q \in Pairs : q # p => row'[q] = row[q]
  BY LibraryAssumption DEF UpsertItem, TypeOK, Has
<1> DEFINE sc == Stamped(p, scan)
           place == IF OfOpen(s) = {p} THEN "open" ELSE "items"
           left == scan[s].left \ {p}
           v == [sc[s] EXCEPT !.left = left, !.at = place]
<1>0. scan \in [Scans -> ScanStates] /\ scan[s].at = "items"
  BY DEF TypeOK, UpsertItem
<1>2. /\ sc \in [Scans -> ScanStates] /\ sc[s].at = "items" /\ sc[s].clean = scan[s].clean
      /\ sc[s].left = scan[s].left /\ sc[s].open = scan[s].open /\ sc[s].present = scan[s].present
      /\ sc[s].fresh = scan[s].fresh \cup {p}
      /\ \A r \in Scans : /\ sc[r].at = scan[r].at /\ sc[r].clean = scan[r].clean
                          /\ sc[r].left = scan[r].left /\ sc[r].open = scan[r].open
                          /\ sc[r].present = scan[r].present /\ sc[r].libs = scan[r].libs /\ sc[r].roots = scan[r].roots
                          /\ sc[r].fresh = IF scan[r].at \in {"open", "items"}
                                           THEN scan[r].fresh \cup {p} ELSE scan[r].fresh
  BY ZenonT(60), <1>0, StampedTypes
<1>3. left \in SUBSET Pairs /\ place \in {"open", "items"}
  BY <1>0 DEF ScanStates
<1>4. scan' = [sc EXCEPT ![s] = v]
  BY <1>0, <1>2 DEF UpsertItem
<1> HIDE DEF sc, place, left
<1>5. /\ v \in ScanStates /\ v.at = place /\ v.open = sc[s].open /\ v.clean = sc[s].clean
      /\ v.fresh = sc[s].fresh /\ v.left = left /\ v.present = sc[s].present
  <2>1. sc[s] \in ScanStates
    BY <1>2
  <2> QED
    BY <1>3, <2>1 DEF ScanStates
<1> HIDE DEF v
<1>6. /\ scan' \in [Scans -> ScanStates] /\ scan'[s] = v
      /\ \A r \in Scans : r # s => scan'[r] = sc[r]
  BY <1>2, <1>4, <1>5
<1> QED
  BY <1>1, <1>2, <1>5, <1>6 DEF left, place, Writes

LEMMA FailMoves ==
  ASSUME TypeOK, NEW s \in Scans, ScanFails(s)
  PROVE  scan' \in [Scans -> ScanStates] /\ \A r \in Scans : ~scan'[r].clean /\ (scan'[r].at = "items" => scan[r].at = "items" /\ scan'[r].open = scan[r].open)
<1> DEFINE sc == Disturb(scan)
<1>1. scan \in [Scans -> ScanStates]
  BY DEF TypeOK
<1>2. sc \in [Scans -> ScanStates] /\ \A r \in Scans : ~sc[r].clean /\ sc[r].at = scan[r].at /\ sc[r].open = scan[r].open
  BY <1>1, DisturbTypes
<1>3. PICK found \in SUBSET Visible(scan[s].roots) :
        scan' = [sc EXCEPT ![s].at = "present", ![s].left = found]
  BY DEF ScanFails
<1>4. found \in SUBSET Pairs
  BY <1>3, VisiblePairs
<1> DEFINE v == [sc[s] EXCEPT !.at = "present", !.left = found]
<1> HIDE DEF sc
<1>5. v \in ScanStates /\ v.at = "present" /\ v.clean = sc[s].clean
  <2>1. sc[s] \in ScanStates
    BY <1>2
  <2> QED
    BY ZenonT(60), <1>4, <2>1, ListedScan
<1>6. scan' = [sc EXCEPT ![s] = v]
  BY <1>2, <1>3
<1> HIDE DEF v
<1>7. /\ scan' \in [Scans -> ScanStates] /\ scan'[s] = v
      /\ \A r \in Scans : r # s => scan'[r] = sc[r]
  BY <1>2, <1>5, <1>6
<1> QED
  BY <1>2, <1>5, <1>7

\* Every step keeps the types.
LEMMA TypeStep == TypeOK /\ OpenIsRow /\ [Next]_vars => TypeOK'
<1> SUFFICES ASSUME TypeOK, OpenIsRow, [Next]_vars PROVE TypeOK'
  OBVIOUS
<1> USE LibraryAssumption DEF diskVars, dbVars, probeVars, watchVars, OnlyWatcher
<1>0. /\ scan \in [Scans -> ScanStates] /\ budget \in [Kinds -> Nat]
      /\ Known \subseteq Libs /\ Ids \subseteq 1..MaxId
  BY PairsOf DEF TypeOK, Known, Ids
<1>00. \A kind \in Kinds : Happens(kind) => budget' \in [Kinds -> Nat]
  BY <1>0, HappensTypes
<1> DEFINE Disturbs == Disturb(scan) \in [Scans -> ScanStates]
<1>01. Disturbs
  BY <1>0, DisturbTypes
<1>1. ASSUME NEW f \in Files, FileChanges(f) PROVE TypeOK'
  <2>1. scan' \in [Scans -> ScanStates] /\ settled' = FALSE /\ budget' \in [Kinds -> Nat]
    BY <1>00, <1>01, <1>1 DEF FileChanges, Disturbed, Kinds
  <2>2. noticed' \in BOOLEAN /\ files' \subseteq Files
    BY <1>1 DEF FileChanges, Noticed, TypeOK
  <2> QED
    BY <1>1, <2>1, <2>2 DEF FileChanges, TypeOK, Has
<1>2. ASSUME NEW l \in Libs, Mount(l) PROVE TypeOK'
  <2>1. scan' \in [Scans -> ScanStates] /\ settled' = FALSE /\ budget' \in [Kinds -> Nat]
    BY <1>00, <1>01, <1>2 DEF Mount, Disturbed, Kinds
  <2>2. mounted' \subseteq Libs
    BY <1>2 DEF Mount, TypeOK
  <2> QED
    BY <1>2, <2>1, <2>2 DEF Mount, TypeOK, Has
<1>3. ASSUME NEW s \in Scans, NEW keyed \in BOOLEAN, Start(s, keyed) PROVE TypeOK'
  <2>1. scan' \in [Scans -> ScanStates] /\ budget' \in [Kinds -> Nat]
    BY <1>0, <1>00, <1>3, StartedTypes DEF Start, Kinds
  <2> QED
    BY <1>3, <2>1 DEF Start, TypeOK, Has
<1>4. ASSUME NEW s \in Scans, ListLibs(s) \/ ScanLibs(s) \/ LookPresent(s) \/ UpsertFails(s) \/ Drop(s)
      PROVE  TypeOK'
  <2>1. scan' \in [Scans -> ScanStates]
    BY <1>4, ScanMoves
  <2> QED
    BY <1>4, <2>1 DEF ListLibs, ScanLibs, LookPresent, UpsertFails, Drop, TypeOK, Has
<1>5. ASSUME NEW s \in Scans, ScanFails(s) PROVE TypeOK'
  <2>1. scan' \in [Scans -> ScanStates] /\ budget' \in [Kinds -> Nat]
    BY <1>00, <1>5, FailMoves DEF ScanFails, Kinds
  <2> QED
    BY <1>5, <2>1 DEF ScanFails, TypeOK, Has
<1>6. ASSUME NEW s \in Scans, NEW l \in Libs, OpenLib(s, l) PROVE TypeOK'
  <2>1. scan' \in [Scans -> ScanStates] /\ lib' \in [Libs -> 0..MaxId] /\ \A k \in Libs : lib[k] # 0 => lib'[k] # 0
    BY <1>6, OpenMoves
  <2>2. nextId' \in Nat \ {0}
    BY <1>6 DEF OpenLib, TypeOK
  <2> QED
    BY <1>6, <2>1, <2>2, PairsOf DEF OpenLib, TypeOK, Has
<1>7. ASSUME NEW s \in Scans, NEW p \in Pairs, UpsertItem(s, p) PROVE TypeOK'
  <2>1. /\ scan' \in [Scans -> ScanStates] /\ row' \in [Pairs -> 0..MaxId]
        /\ \A q \in Pairs : q # p => row'[q] = row[q]
    BY <1>7, UpsertMoves DEF Writes
  <2>2. nextId' \in Nat \ {0}
    BY <1>7 DEF UpsertItem, TypeOK
  <2>3. lib[p[1]] # 0
    BY <1>7 DEF UpsertItem, OfOpen, OpenIsRow, Past
  <2> QED
    BY <1>7, <2>1, <2>2, <2>3 DEF UpsertItem, TypeOK, Has
<1>8. ASSUME NEW s \in Scans, Sweep(s) PROVE TypeOK'
  <2>1. scan' \in [Scans -> ScanStates]
    BY <1>8, ScanMoves
  <2>2. row' \in [Pairs -> 0..MaxId] /\ \A q \in Pairs : row'[q] # 0 => row[q] # 0
    BY <1>8 DEF Sweep, TypeOK
  <2> QED
    BY <1>8, <2>1, <2>2 DEF Sweep, TypeOK, Has
<1>9. ASSUME NEW s \in Scans, Finish(s) PROVE TypeOK'
  <2>1. scan' \in [Scans -> ScanStates]
    BY <1>9, ScanMoves
  <2>2. settled' \in BOOLEAN
    BY <1>0, <1>9 DEF Finish, TypeOK, ScanStates
  <2> QED
    BY <1>9, <2>1, <2>2 DEF Finish, TypeOK, Has
<1>10. ASSUME NEW s \in Scans, CancelTask(s) PROVE TypeOK'
  <2> DEFINE v == [scan[s] EXCEPT !.cancelled = TRUE]
  <2>0. v \in ScanStates /\ scan' = [scan EXCEPT ![s] = v]
    <3>1. scan[s] \in ScanStates /\ scan' = [scan EXCEPT ![s] = v]
      BY <1>0, <1>10 DEF CancelTask
    <3>2. v \in ScanStates
      BY <3>1 DEF ScanStates
    <3> QED
      BY <3>1, <3>2
  <2> HIDE DEF v
  <2>1. scan' \in [Scans -> ScanStates] /\ budget' \in [Kinds -> Nat]
    BY <1>0, <1>00, <1>10, <2>0, SetScan DEF CancelTask, Kinds
  <2> QED
    BY <1>10, <2>1 DEF CancelTask, TypeOK, Has
<1>11. ASSUME NEW l \in Libs, NEW s \in Scans, LibraryAdd(l, s) PROVE TypeOK'
  <2>1. scan' \in [Scans -> ScanStates] /\ budget' \in [Kinds -> Nat]
    BY <1>00, <1>01, <1>11, StartedTypes DEF LibraryAdd, Kinds
  <2>2. /\ lib' \in [Libs -> 0..MaxId] /\ nextId' \in Nat \ {0}
        /\ \A k \in Libs : lib[k] # 0 => lib'[k] # 0
    BY <1>11 DEF LibraryAdd, TypeOK
  <2> QED
    BY <1>11, <2>1, <2>2, PairsOf DEF LibraryAdd, TypeOK, Has
<1>12. ASSUME NEW l \in Libs, NEW s \in Scans, LibraryRemove(l, s) PROVE TypeOK'
  <2>1. scan' \in [Scans -> ScanStates] /\ budget' \in [Kinds -> Nat]
    BY <1>00, <1>01, <1>12, StartedTypes DEF LibraryRemove, Kinds
  <2>2. lib' \in [Libs -> 0..MaxId] /\ \A k \in Libs : k # l => lib'[k] = lib[k]
    BY <1>12 DEF LibraryRemove, TypeOK
  <2>3. row' \in [Pairs -> 0..MaxId] /\ \A q \in Pairs : row'[q] # 0 => row[q] # 0 /\ q[1] # l
    BY <1>12 DEF LibraryRemove, TypeOK
  <2> QED
    BY <1>12, <2>1, <2>2, <2>3, PairsOf DEF LibraryRemove, TypeOK, Has
<1>13. ASSUME NEW s \in Scans, Restart(s) PROVE TypeOK'
  <2> DEFINE v == [Idle EXCEPT !.at = "list", !.clean = TRUE]
             none == [r \in Scans |-> Idle]
  <2>1. v \in ScanStates /\ none \in [Scans -> ScanStates]
    BY IdleState DEF ScanStates
  <2>2. scan' = [none EXCEPT ![s] = v] /\ budget' \in [Kinds -> Nat]
    BY <1>00, <1>13 DEF Restart, Kinds
  <2> HIDE DEF v, none
  <2>3. scan' \in [Scans -> ScanStates]
    BY <2>1, <2>2
  <2>4. row' \in [Pairs -> 0..MaxId] /\ \A q \in Pairs : row'[q] # 0 => row[q] # 0
    BY <1>13 DEF Restart, TypeOK
  <2> QED
    BY <1>0, <1>13, <2>2, <2>3, <2>4 DEF Restart, TypeOK, Has
<1>14. ASSUME Probe PROVE TypeOK'
  <2>1. probed' \subseteq 1..MaxId /\ probe' \subseteq (1..MaxId) \X Pairs /\ batch' \subseteq (1..MaxId) \X BOOLEAN
    <3>0. /\ probed \subseteq 1..MaxId /\ probe \subseteq (1..MaxId) \X Pairs
          /\ batch \subseteq (1..MaxId) \X BOOLEAN
      BY DEF TypeOK
    <3>1. CASE ProbeCollect
      <4>1. Todo \subseteq (1..MaxId) \X Pairs
        BY DEF Todo, TypeOK, Has
      <4> QED
        BY <3>0, <3>1, <4>1 DEF ProbeCollect
    <3>2. CASE ProbeFlush
      BY <3>0, <3>2 DEF ProbeFlush, Flushes
    <3>3. ASSUME NEW w \in probe, ProbeLook(w)
          PROVE  probed' \subseteq 1..MaxId /\ probe' \subseteq (1..MaxId) \X Pairs /\ batch' \subseteq (1..MaxId) \X BOOLEAN
      <4>1. w[1] \in 1..MaxId /\ IsThere(w[2]) \in BOOLEAN
        BY <3>0 DEF IsThere
      <4> HIDE DEF IsThere
      <4> QED
        BY <3>0, <3>3, <4>1 DEF ProbeLook
    <3> QED
      BY <1>14, <3>1, <3>2, <3>3 DEF Probe
  <2>2. OnlyProbe
    BY <1>14 DEF Probe, ProbeCollect, ProbeFlush, ProbeLook, Flushes
  <2> QED
    BY <2>1, <2>2 DEF OnlyProbe, TypeOK, Has
<1>15. ASSUME WatcherReceives \/ WatcherSkips \/ WatcherCools PROVE TypeOK'
  BY <1>15 DEF WatcherReceives, WatcherSkips, WatcherCools, TypeOK, Has
<1>16. ASSUME NEW s \in Scans, WatcherFires(s) PROVE TypeOK'
  <2>1. scan' \in [Scans -> ScanStates] /\ flag' \in BOOLEAN
    <3>1. Started(s, TRUE, scan) \in [Scans -> ScanStates]
      BY <1>0, StartedTypes
    <3> QED
      BY <1>0, <1>16, <3>1 DEF WatcherFires, TypeOK
  <2> QED
    BY <1>0, <1>16, <2>1 DEF WatcherFires, TypeOK, Has
<1>17. CASE UNCHANGED vars
  BY <1>17 DEF vars, TypeOK, Has
<1> QED
  BY <1>1, <1>2, <1>3, <1>4, <1>5, <1>6, <1>7, <1>8, <1>9, <1>10, <1>11, <1>12, <1>13, <1>14, <1>15, <1>16, <1>17
     DEF Next, Internal, Daemon, Environment, ScanStep

LEMMA OpenIsRowStep == TypeOK /\ OpenIsRow /\ [Next]_vars => OpenIsRow'
<1> SUFFICES ASSUME TypeOK, OpenIsRow, [Next]_vars, NEW r \in Scans, scan'[r].at = "items"
             PROVE  scan'[r].open # 0
  BY DEF OpenIsRow, Past
<1> DEFINE Before == scan[r].at = "items" /\ scan'[r].open = scan[r].open
<1>0. scan \in [Scans -> ScanStates] /\ (Before => scan'[r].open # 0)
  BY DEF TypeOK, OpenIsRow, Past
<1>1. ASSUME Disturbed PROVE Before
  BY <1>0, <1>1, DisturbTypes DEF Disturbed
<1>2. ASSUME NEW s \in Scans, NEW keyed \in BOOLEAN, scan' = Started(s, keyed, scan) PROVE Before
  <2>1. scan'[s].at = "list" /\ (r # s => SameWork(scan[r], scan'[r]))
    BY ZenonT(60), <1>0, <1>2, StartedTypes
  <2> QED
    BY <2>1 DEF SameWork
<1>3. ASSUME NEW s \in Scans, NEW keyed \in BOOLEAN, scan' = Started(s, keyed, Disturb(scan)) PROVE Before
  <2> DEFINE sc == Disturb(scan)
  <2>1. sc \in [Scans -> ScanStates] /\ sc[r].at = scan[r].at /\ sc[r].open = scan[r].open
    BY <1>0, DisturbTypes
  <2> HIDE DEF sc
  <2>2. scan' = Started(s, keyed, sc)
    BY <1>3 DEF sc
  <2>3. scan'[s].at = "list" /\ (r # s => SameWork(sc[r], scan'[r]))
    BY ZenonT(60), <2>1, <2>2, StartedTypes
  <2> QED
    BY <2>1, <2>3 DEF SameWork
<1>4. ASSUME NEW s \in Scans,
             ListLibs(s) \/ ScanLibs(s) \/ LookPresent(s) \/ UpsertFails(s) \/ Sweep(s) \/ Finish(s) \/ Drop(s)
      PROVE  Before
  BY <1>4, ScanMoves
<1>5. ASSUME NEW s \in Scans, ScanFails(s) PROVE Before
  BY <1>5, FailMoves
<1>6. ASSUME NEW s \in Scans, NEW l \in Libs, OpenLib(s, l) PROVE scan'[r].open # 0
  BY <1>0, <1>6, OpenMoves
<1>7. ASSUME NEW s \in Scans, NEW p \in Pairs, UpsertItem(s, p) PROVE Before
  BY ZenonT(60), <1>7, UpsertMoves DEF UpsertItem, Writes
<1>8. ASSUME NEW s \in Scans, CancelTask(s) PROVE Before
  <2> DEFINE v == [scan[s] EXCEPT !.cancelled = TRUE]
  <2>1. v \in ScanStates /\ v.at = scan[s].at /\ v.open = scan[s].open /\ scan' = [scan EXCEPT ![s] = v]
    BY <1>0, <1>8 DEF CancelTask, ScanStates
  <2> HIDE DEF v
  <2> QED
    BY <1>0, <2>1, SetScan
<1>9. ASSUME NEW s \in Scans, Restart(s) PROVE FALSE
  BY <1>9, IdleState DEF Restart
<1>10. ASSUME UNCHANGED scan PROVE Before
  BY <1>10
<1>11. ASSUME NEW s \in Scans, \/ Start(s, TRUE) \/ Start(s, FALSE) \/ WatcherFires(s)
                              \/ \E l \in Libs : LibraryAdd(l, s) \/ LibraryRemove(l, s)
       PROVE  Before
  BY <1>2, <1>3, <1>10, <1>11 DEF Start, LibraryAdd, LibraryRemove, WatcherFires
<1>12. ASSUME \/ \E f \in Files : FileChanges(f)
              \/ \E l \in Libs : Mount(l)
              \/ Probe \/ WatcherReceives \/ WatcherSkips \/ WatcherCools \/ UNCHANGED vars
       PROVE  Before
  BY <1>1, <1>10, <1>12 DEF FileChanges, Mount, Probe, ProbeCollect, ProbeFlush, ProbeLook, Flushes, OnlyProbe, WatcherReceives, WatcherSkips,
     WatcherCools, OnlyWatcher, vars
<1> QED
  BY <1>0, <1>4, <1>5, <1>6, <1>7, <1>8, <1>9, <1>11, <1>12 DEF Next, Internal, Daemon, Environment, ScanStep

-----------------------------------------------------------------------------
(* Scans that run undisturbed.                                             *)

Undisturbed == CleanAreRight /\ AllOrNone /\ (settled => Synced)

LEMMA WantedOf ==
  \A p : p \in Wanted <=> p \in Pairs /\ p[1] \in Firsts(Known) \cap mounted /\ p[2] \in files
BY DEF Wanted, Visible

LEMMA SameDisk ==
  ASSUME UNCHANGED <<files, mounted, lib>>
  PROVE  Known' = Known /\ Firsts(Known)' = Firsts(Known) /\ Wanted' = Wanted
BY DEF Known, Firsts, Alias, Wanted, Visible

LEMMA Stays ==
  ASSUME NEW r \in Scans, SameWork(scan[r], scan'[r]), UNCHANGED <<files, mounted, lib, row>>, Right(r)
  PROVE  Right(r)'
<1>1. Known' = Known /\ Firsts(Known)' = Firsts(Known) /\ Wanted' = Wanted
  BY SameDisk
<1> QED
  BY <1>1 DEF SameWork, Right, Unstamped, KnowsLibs, HasListed, CarriesOver, HasOpen, HasSwept, Past,
     Has, OfOpen, Synced

\* A scan begins.
Begins(r) ==
  /\ scan[r].at = "idle" /\ scan'[r].at = "list" /\ scan'[r].fresh = {}
  /\ scan'[r].clean = \A t \in Running : scan[t].clean

LEMMA BeginsRight ==
  ASSUME NEW r \in Scans, scan'[r].at = "list", scan'[r].fresh = {}
  PROVE  Right(r)'
BY DEF Right, Unstamped, KnowsLibs, HasListed, CarriesOver, HasOpen, HasSwept, Past

\* Scans begin, go on or end, and the world stays as it is.
LEMMA QuietKeeps ==
  ASSUME Undisturbed, UNCHANGED <<files, mounted, lib, row>>, settled' = settled,
         \A r \in Scans : SameWork(scan[r], scan'[r]) \/ scan'[r].at = "idle" \/ Begins(r)
  PROVE  Undisturbed'
<1>1. ASSUME NEW r \in Scans, IsClean(r)' PROVE Right(r)' /\ \A t \in Running : scan[t].clean
  <2>1. CASE SameWork(scan[r], scan'[r])
    <3>1. IsClean(r)
      BY <1>1, <2>1 DEF IsClean, Running, SameWork
    <3>2. Right(r) /\ \A t \in Running : scan[t].clean
      BY <3>1 DEF Undisturbed, CleanAreRight, AllOrNone
    <3> QED
      BY <2>1, <3>2, Stays
  <2>2. CASE Begins(r)
    BY <1>1, <2>2, BeginsRight DEF Begins, IsClean
  <2> QED
    BY <1>1, <2>1, <2>2 DEF IsClean, Running
<1>2. (\A t \in Running : scan[t].clean) => \A t \in Running' : scan'[t].clean
  BY DEF Running, SameWork, Begins
<1>3. AllOrNone'
  BY <1>1, <1>2 DEF Undisturbed, AllOrNone
<1>4. settled' => Synced'
  BY SameDisk DEF Undisturbed, Synced, Has
<1> QED
  BY <1>1, <1>3, <1>4 DEF Undisturbed, CleanAreRight

\* Something changes under the scans that run.
LEMMA DisturbedKeeps ==
  ASSUME ~settled', \A r \in Scans : ~IsClean(r)'
  PROVE  Undisturbed'
BY DEF Undisturbed, CleanAreRight, AllOrNone

\* ... and one scan begins, undisturbed if no other runs.
LEMMA OnlyOneKeeps ==
  ASSUME NEW s \in Scans, ~settled', scan'[s].at = "list", scan'[s].fresh = {},
         scan'[s].clean => \A r \in Scans : r # s => scan'[r].at = "idle",
         \A r \in Scans : r # s => ~scan'[r].clean
  PROVE  Undisturbed'
<1>1. ASSUME NEW r \in Scans, IsClean(r)' PROVE r = s /\ Right(r)'
  BY <1>1, BeginsRight DEF IsClean
<1> QED
  BY <1>1 DEF Undisturbed, CleanAreRight, AllOrNone, IsClean, Running

\* A scan that was disturbed does anything.
LEMMA DirtyKeeps ==
  ASSUME Undisturbed, NEW s \in Running, ~scan[s].clean, settled' = settled,
         \A r \in Scans : IsClean(r)' => IsClean(r)
  PROVE  Undisturbed'
<1>1. ~settled /\ \A r \in Scans : ~IsClean(r)
  BY DEF Undisturbed, AllOrNone
<1> QED
  BY <1>1, DisturbedKeeps

\* A scan that was not disturbed takes a step of its own.
LEMMA Era ==
  ASSUME Undisturbed, NEW s \in Running, scan[s].clean
  PROVE  \A r \in Running : scan[r].clean /\ Right(r)
BY DEF Undisturbed, CleanAreRight, AllOrNone, IsClean, Running

LEMMA OneMoves ==
  ASSUME Undisturbed, NEW s \in Running, scan[s].clean, settled' = settled,
         scan'[s].clean, scan'[s].at # "idle", Right(s)',
         \A r \in Scans : r # s => scan'[r] = scan[r], UNCHANGED <<files, mounted, lib, row>>
  PROVE  Undisturbed'
<1>1. \A r \in Running : scan[r].clean /\ Right(r)
  BY Era
<1>2. ASSUME NEW r \in Scans, IsClean(r)' PROVE Right(r)'
  <2>1. CASE r = s
    BY <2>1
  <2>2. CASE r # s
    <3>1. Right(r) /\ SameWork(scan[r], scan'[r])
      BY <1>1, <1>2, <2>2 DEF IsClean, Running, SameWork
    <3> QED
      BY <3>1, Stays
  <2> QED
    BY <2>1, <2>2
<1>3. AllOrNone'
  BY <1>1 DEF AllOrNone, Running
<1>4. settled' => Synced'
  BY SameDisk DEF Undisturbed, Synced, Has
<1> QED
  BY <1>2, <1>3, <1>4 DEF Undisturbed, CleanAreRight

LEMMA ListLibsKeeps == ASSUME TypeOK, Undisturbed, NEW s \in Running, scan[s].clean, ListLibs(s) PROVE Undisturbed'
<1> USE DEF diskVars, dbVars
<1>1. /\ \A r \in Scans : r # s => scan'[r] = scan[r]
      /\ scan'[s].at = "scan" /\ scan'[s].libs = Known /\ scan'[s].roots = Firsts(Known) /\ scan'[s].clean
      /\ scan'[s].fresh = scan[s].fresh /\ scan[s].at = "list"
      /\ UNCHANGED <<files, mounted, lib, row, settled>>
  BY ScanMoves DEF Running, ListLibs
<1>2. Right(s)
  BY Era
<1>3. Known' = Known /\ Firsts(Known)' = Firsts(Known)
  BY <1>1, SameDisk
<1>4. Right(s)'
  BY <1>1, <1>2, <1>3 DEF Right, Unstamped, KnowsLibs, HasListed, CarriesOver, HasOpen, HasSwept, Past
<1> QED
  BY <1>1, <1>4, OneMoves

LEMMA ScanLibsKeeps == ASSUME TypeOK, Undisturbed, NEW s \in Running, scan[s].clean, ScanLibs(s) PROVE Undisturbed'
<1> USE DEF diskVars, dbVars
<1>1. /\ \A r \in Scans : r # s => scan'[r] = scan[r]
      /\ scan'[s].at = "present" /\ scan'[s].libs = scan[s].libs /\ scan'[s].roots = scan[s].roots
      /\ scan'[s].clean /\ scan'[s].fresh = scan[s].fresh /\ scan[s].at = "scan" /\ scan'[s].left = Visible(scan[s].roots)
      /\ UNCHANGED <<files, mounted, lib, row, settled>>
  BY ScanMoves DEF Running, ScanLibs
<1>2. Right(s)
  BY Era
<1>3. /\ scan'[s].left = Wanted /\ Wanted' = Wanted
      /\ Known' = Known /\ Firsts(Known)' = Firsts(Known)
  BY <1>1, <1>2, SameDisk DEF Right, KnowsLibs, Past, Wanted
<1>4. Right(s)'
  BY <1>1, <1>2, <1>3 DEF Right, Unstamped, KnowsLibs, HasListed, CarriesOver, HasOpen, HasSwept, Past
<1> QED
  BY <1>1, <1>4, OneMoves

LEMMA LookPresentKeeps == ASSUME TypeOK, Undisturbed, NEW s \in Running, scan[s].clean, LookPresent(s) PROVE Undisturbed'
<1> USE DEF diskVars, dbVars
<1>1. /\ \A r \in Scans : r # s => scan'[r] = scan[r]
      /\ scan'[s].at = "open" /\ scan'[s].left = scan[s].left /\ scan'[s].clean
      /\ scan'[s].fresh = scan[s].fresh /\ scan[s].at = "present"
      /\ scan'[s].present = scan[s].libs \cap mounted
      /\ UNCHANGED <<files, mounted, lib, row, settled>>
  BY ScanMoves DEF Running, LookPresent
<1>2. Right(s)
  BY Era
<1>3. scan[s].left = Wanted /\ scan[s].libs = Known /\ scan[s].fresh = {}
  BY <1>1, <1>2 DEF Right, Unstamped, KnowsLibs, HasListed, Past
<1>4. Known' = Known /\ Wanted' = Wanted /\ mounted' = mounted
  BY <1>1, SameDisk
<1>5. CarriesOver(s)'
  BY <1>1, <1>3, <1>4 DEF CarriesOver
<1>6. Right(s)'
  BY <1>1, <1>5 DEF Right, Unstamped, KnowsLibs, HasListed, HasOpen, HasSwept, Past
<1> QED
  BY <1>1, <1>6, OneMoves

LEMMA OpenLibKeeps ==
  ASSUME TypeOK, Undisturbed, NEW s \in Running, scan[s].clean, NEW l \in Libs, OpenLib(s, l)
  PROVE  Undisturbed'
<1> USE DEF diskVars, dbVars
<1>1. /\ \A r \in Scans : r # s => scan'[r] = scan[r]
      /\ scan'[s].at = "items" /\ scan'[s].open = lib'[l] /\ scan'[s].clean
      /\ scan'[s].fresh = scan[s].fresh /\ scan'[s].left = scan[s].left
      /\ scan'[s].present = scan[s].present /\ scan[s].at = "open"
      /\ \A k \in Libs : lib[k] # 0 => lib'[k] = lib[k]
      /\ UNCHANGED <<files, mounted, row, settled>>
  <2>1. s \in Scans /\ scan[s].at = "open" /\ UNCHANGED <<files, mounted, row, settled>>
    BY DEF Running, OpenLib
  <2>2. /\ \A r \in Scans : r # s => scan'[r] = scan[r]
        /\ scan'[s].at = "items" /\ scan'[s].open = lib'[l] /\ scan'[s].clean = scan[s].clean
        /\ scan'[s].fresh = scan[s].fresh /\ scan'[s].left = scan[s].left
        /\ scan'[s].present = scan[s].present
        /\ \A k \in Libs : lib[k] # 0 => lib'[k] = lib[k]
    BY <2>1, OpenMoves
  <2> QED
    BY <2>1, <2>2
<1>2. CarriesOver(s) /\ scan[s].left \subseteq Wanted
  BY <1>1, Era DEF Right, CarriesOver, Past
<1>3. PICK p \in scan[s].left : p[1] = l
  BY DEF OpenLib
<1>4. l \in Known
  BY <1>2, <1>3, WantedOf DEF Firsts
<1>5. lib' = lib
  BY <1>4 DEF OpenLib, TypeOK, Known
<1>6. Known' = Known /\ Wanted' = Wanted
  BY <1>1, <1>5, SameDisk
<1>7. CarriesOver(s)'
  BY <1>1, <1>2, <1>6 DEF CarriesOver, Past, Has
<1>8. p \in OfOpen(s)'
  BY <1>1, <1>3, <1>5 DEF OfOpen
<1>9. Right(s)'
  BY <1>1, <1>7, <1>8 DEF Right, Unstamped, KnowsLibs, HasListed, HasOpen, HasSwept, Past
<1> QED
  BY <1>1, <1>5, <1>9, OneMoves

LEMMA UpsertItemKeeps ==
  ASSUME TypeOK, Undisturbed, NEW s \in Running, scan[s].clean, NEW p \in Pairs, UpsertItem(s, p)
  PROVE  Undisturbed'
<1> USE DEF diskVars, dbVars
<1>0. s \in Scans /\ scan[s].at = "items" /\ p \in OfOpen(s) /\ UNCHANGED <<files, mounted, lib, settled>>
  BY DEF Running, UpsertItem
<1>1. /\ \A r \in Scans : r # s => /\ scan'[r].at = scan[r].at /\ scan'[r].clean = scan[r].clean
                                   /\ scan'[r].left = scan[r].left /\ scan'[r].open = scan[r].open
                                   /\ scan'[r].present = scan[r].present /\ scan'[r].libs = scan[r].libs /\ scan'[r].roots = scan[r].roots
                                   /\ scan'[r].fresh = IF scan[r].at \in {"open", "items"}
                                                       THEN scan[r].fresh \cup {p} ELSE scan[r].fresh
      /\ scan'[s].at = (IF OfOpen(s) = {p} THEN "open" ELSE "items")
      /\ scan'[s].open = scan[s].open /\ scan'[s].clean = scan[s].clean
      /\ scan'[s].fresh = scan[s].fresh \cup {p} /\ scan'[s].left = scan[s].left \ {p}
      /\ scan'[s].present = scan[s].present
  <2>1. Writes(s, p)
    BY <1>0, UpsertMoves
  <2> QED
    BY <2>1 DEF Writes
<1>2. row'[p] # 0 /\ \A q \in Pairs : q # p => row'[q] = row[q]
  BY <1>0, UpsertMoves DEF Writes
<1>3. \A r \in Running : scan[r].clean /\ Right(r)
  BY Era
<1>4. /\ Known' = Known /\ Firsts(Known)' = Firsts(Known) /\ Wanted' = Wanted
      /\ mounted' = mounted /\ files' = files
  BY <1>0, SameDisk
<1>5. CarriesOver(s) /\ p \in scan[s].left /\ p \in Wanted
  BY <1>0, <1>3 DEF Right, CarriesOver, Past, OfOpen
<1>6. \A q \in Pairs : Has(q) => Has(q)'
  BY <1>2 DEF Has
<1>7. Synced => Synced'
  BY <1>2, <1>4, <1>5, <1>6 DEF Synced, Has
<1>8. CarriesOver(s)'
  <2>1. scan'[s].present = Known' \cap mounted' /\ scan'[s].left \subseteq Wanted' /\ scan'[s].fresh \subseteq Wanted'
    BY <1>0, <1>1, <1>4, <1>5 DEF CarriesOver, Past
  <2>2. ASSUME NEW q \in Wanted
        PROVE  q \in scan'[s].left \/ (Has(q)' /\ q \in scan'[s].fresh)
    <3>1. q \in Pairs
      BY WantedOf
    <3>2. q \in scan[s].left \/ (Has(q) /\ q \in scan[s].fresh)
      BY <1>0, <1>5 DEF CarriesOver, Past
    <3> QED
      BY <1>1, <1>2, <1>6, <3>1, <3>2 DEF Has
  <2> QED
    BY <1>4, <2>1, <2>2 DEF CarriesOver
<1>9. HasOpen(s)'
  <2>1. SUFFICES ASSUME OfOpen(s) # {p} PROVE OfOpen(s)' # {}
    BY <1>1 DEF HasOpen, Past
  <2>2. PICK q \in OfOpen(s) : q # p
    BY <1>0, <2>1
  <2>3. q \in OfOpen(s)'
    BY <1>0, <1>1, <2>2 DEF OfOpen
  <2> QED
    BY <2>3
<1>10. Right(s)'
  BY <1>1, <1>8, <1>9 DEF Right, Unstamped, KnowsLibs, HasListed, HasSwept, Past
<1>11. ASSUME NEW r \in Scans, r # s, r \in Running PROVE Right(r)'
  <2>1. Right(r) /\ scan[r].clean
    BY <1>3, <1>11
  <2>2. CarriesOver(r)'
    <3>1. CASE scan[r].at \in {"open", "items"}
      <4>1. /\ scan'[r].present = Known' \cap mounted' /\ scan'[r].left \subseteq Wanted'
            /\ scan'[r].fresh \subseteq Wanted'
        <5>1. /\ scan[r].present = Known \cap mounted /\ scan[r].left \subseteq Wanted
              /\ scan[r].fresh \subseteq Wanted
          BY <2>1, <3>1 DEF Right, CarriesOver, Past
        <5>2. /\ scan'[r].present = scan[r].present /\ scan'[r].left = scan[r].left
              /\ scan'[r].fresh = scan[r].fresh \cup {p}
          BY <1>1, <1>11, <3>1
        <5> QED
          BY <1>4, <1>5, <5>1, <5>2
      <4>2. ASSUME NEW q \in Wanted
            PROVE  q \in scan'[r].left \/ (Has(q)' /\ q \in scan'[r].fresh)
        <5>1. q \in Pairs
          BY WantedOf
        <5>2. q \in scan[r].left \/ (Has(q) /\ q \in scan[r].fresh)
          BY <2>1, <3>1 DEF Right, CarriesOver, Past
        <5> QED
          BY <1>1, <1>6, <1>11, <3>1, <5>1, <5>2
      <4> QED
        BY <1>4, <4>1, <4>2 DEF CarriesOver
    <3>2. CASE scan[r].at \notin {"open", "items"}
      BY <1>1, <1>11, <3>2 DEF CarriesOver, Past
    <3> QED
      BY <3>1, <3>2
  <2>3. HasOpen(r)'
    BY ZenonT(60), <1>0, <1>1, <1>11, <2>1 DEF Right, HasOpen, Past, OfOpen
  <2>4. Unstamped(r)' /\ KnowsLibs(r)' /\ HasListed(r)' /\ HasSwept(r)'
    BY <1>1, <1>4, <1>7, <1>11, <2>1 DEF Right, Unstamped, KnowsLibs, HasListed, HasSwept, Past
  <2> QED
    BY <2>2, <2>3, <2>4 DEF Right
<1>12. CleanAreRight'
  BY <1>1, <1>10, <1>11 DEF CleanAreRight, IsClean, Running
<1>13. AllOrNone'
  BY <1>1, <1>3 DEF AllOrNone, Running
<1> QED
  BY <1>0, <1>7, <1>12, <1>13 DEF Undisturbed

\* What an undisturbed scan sweeps is gone from the disk.
LEMMA SweepIsRight ==
  ASSUME Undisturbed, NEW s \in Running, scan[s].clean, scan[s].at = "open", scan[s].left = {}
  PROVE  /\ scan[s].present = Known \cap mounted
         /\ \A p \in Wanted : Has(p) /\ p \notin Stale(s)
         /\ \A p \in Pairs : p[1] \in Known \cap mounted /\ p \notin Wanted => p \in Stale(s)
<1>1. CarriesOver(s)
  BY Era DEF Right
<1>2. /\ scan[s].present = Known \cap mounted /\ scan[s].fresh \subseteq Wanted
      /\ \A p \in Wanted : Has(p) /\ p \in scan[s].fresh
  BY <1>1 DEF CarriesOver, Past
<1> QED
  BY <1>2 DEF Stale

LEMMA SweepKeeps == ASSUME TypeOK, Undisturbed, NEW s \in Running, scan[s].clean, Sweep(s) PROVE Undisturbed'
<1> USE DEF diskVars, dbVars
<1>0. s \in Scans /\ scan[s].at = "open" /\ scan[s].left = {} /\ UNCHANGED <<files, mounted, lib, settled>>
  BY DEF Running, Sweep
<1>1. scan'[s].at = "finish" /\ scan'[s].clean /\ \A r \in Scans : r # s => scan'[r] = scan[r]
  BY <1>0, ScanMoves
<1>2. \A q \in Pairs : row'[q] = IF q \in Stale(s) THEN 0 ELSE row[q]
  BY DEF Sweep
<1>3. \A r \in Running : scan[r].clean /\ Right(r)
  BY Era
<1>4. /\ Known' = Known /\ Firsts(Known)' = Firsts(Known) /\ Wanted' = Wanted
      /\ mounted' = mounted /\ files' = files
  BY <1>0, SameDisk
<1>5. /\ \A q \in Wanted : Has(q)'
      /\ \A q \in Pairs : q[1] \in Known \cap mounted /\ q \notin Wanted => ~Has(q)'
  BY <1>0, <1>2, SweepIsRight, WantedOf DEF Has
<1>6. Synced'
  BY <1>4, <1>5 DEF Synced
<1>7. Right(s)'
  BY <1>1, <1>6 DEF Right, Unstamped, KnowsLibs, HasListed, CarriesOver, HasOpen, HasSwept, Past
<1>8. ASSUME NEW r \in Scans, r # s, r \in Running PROVE Right(r)'
  <2>1. Right(r) /\ scan[r].clean /\ scan'[r] = scan[r]
    BY <1>1, <1>3, <1>8
  <2>2. CarriesOver(r)'
    BY <1>4, <1>5, <2>1 DEF Right, CarriesOver, Past
  <2>3. HasOpen(r)'
    BY <1>0, <2>1 DEF Right, HasOpen, Past, OfOpen
  <2> QED
    BY <1>4, <1>6, <2>1, <2>2, <2>3 DEF Right, Unstamped, KnowsLibs, HasListed, HasSwept, Past
<1>9. CleanAreRight'
  BY <1>1, <1>7, <1>8 DEF CleanAreRight, IsClean, Running
<1>10. AllOrNone'
  BY <1>1, <1>3 DEF AllOrNone, Running
<1> QED
  BY <1>6, <1>9, <1>10 DEF Undisturbed

LEMMA FinishKeeps == ASSUME TypeOK, Undisturbed, NEW s \in Running, Finish(s) PROVE Undisturbed'
<1> USE DEF diskVars, dbVars
<1>0. s \in Scans /\ scan[s].at = "finish" /\ UNCHANGED <<files, mounted, lib, row>>
  BY DEF Running, Finish
<1>1. scan'[s].at = "idle" /\ \A r \in Scans : r # s => scan'[r] = scan[r]
  BY <1>0, ScanMoves
<1>2. CASE scan[s].clean
  <2>1. \A r \in Running : scan[r].clean /\ Right(r)
    BY <1>2, Era
  <2>2. Synced
    BY <1>0, <2>1 DEF Right, HasSwept, Past
  <2>3. Synced'
    BY <1>0, <2>2, SameDisk DEF Synced, Has
  <2>4. ASSUME NEW r \in Scans, IsClean(r)' PROVE Right(r)'
    <3>1. r # s /\ SameWork(scan[r], scan'[r]) /\ r \in Running
      BY <1>1, <2>4 DEF IsClean, Running, SameWork
    <3> QED
      BY <1>0, <2>1, <3>1, Stays
  <2>5. AllOrNone'
    BY <1>1, <2>1 DEF AllOrNone, Running
  <2> QED
    BY <2>3, <2>4, <2>5 DEF Undisturbed, CleanAreRight
<1>3. CASE ~scan[s].clean
  <2>1. settled' = settled
    <3>1. settled \in BOOLEAN
      BY DEF TypeOK
    <3>2. settled' = (settled \/ scan[s].clean)
      BY DEF Finish
    <3> QED
      BY <1>3, <3>1, <3>2
  <2>2. \A r \in Scans : IsClean(r)' => IsClean(r)
    BY <1>1 DEF IsClean, Running
  <2> QED
    BY <1>3, <2>1, <2>2, DirtyKeeps
<1> QED
  BY <1>2, <1>3

LEMMA DirtyScanStep ==
  ASSUME TypeOK, NEW s \in Scans, ScanStep(s), ~Drop(s), ~Finish(s)
  PROVE  s \in Running /\ settled' = settled /\ scan'[s].clean = scan[s].clean
         /\ \A r \in Scans : IsClean(r)' => r = s \/ IsClean(r)
<1>1. ASSUME ListLibs(s) \/ ScanLibs(s) \/ LookPresent(s) \/ UpsertFails(s) \/ Sweep(s)
      PROVE  /\ s \in Running /\ settled' = settled /\ scan'[s].clean = scan[s].clean
             /\ \A r \in Scans : r # s => scan'[r] = scan[r]
  <2>1. s \in Running /\ settled' = settled
    BY <1>1 DEF Running, ListLibs, ScanLibs, LookPresent, UpsertFails, Sweep
  <2>2. scan'[s].clean = scan[s].clean /\ \A r \in Scans : r # s => scan'[r] = scan[r]
    BY <1>1, ScanMoves
  <2> QED
    BY <2>1, <2>2
<1>2. ASSUME NEW l \in Libs, OpenLib(s, l)
      PROVE  /\ s \in Running /\ settled' = settled /\ scan'[s].clean = scan[s].clean
             /\ \A r \in Scans : r # s => scan'[r] = scan[r]
  <2>1. s \in Running /\ settled' = settled
    BY <1>2 DEF Running, OpenLib
  <2>2. scan'[s].clean = scan[s].clean /\ \A r \in Scans : r # s => scan'[r] = scan[r]
    BY <1>2, OpenMoves
  <2> QED
    BY <2>1, <2>2
<1>3. ASSUME NEW p \in Pairs, UpsertItem(s, p)
      PROVE  /\ s \in Running /\ settled' = settled /\ scan'[s].clean = scan[s].clean
             /\ \A r \in Scans : r # s => scan'[r].at = scan[r].at /\ scan'[r].clean = scan[r].clean
  <2>1. s \in Running /\ settled' = settled
    BY <1>3 DEF Running, UpsertItem
  <2>2. Writes(s, p)
    BY <1>3, UpsertMoves
  <2> QED
    BY <2>1, <2>2 DEF Writes
<1> QED
  BY <1>1, <1>2, <1>3 DEF ScanStep, IsClean, Running

LEMMA ScanStepKeeps == ASSUME TypeOK, Undisturbed, NEW s \in Scans, ScanStep(s) PROVE Undisturbed'
<1>1. CASE Drop(s)
  <2>1. scan'[s].at = "idle" /\ (\A r \in Scans : r # s => scan'[r] = scan[r])
    BY <1>1, ScanMoves
  <2>2. UNCHANGED <<files, mounted, lib, row, settled>>
    BY <1>1 DEF Drop, diskVars, dbVars
  <2> QED
    BY <2>1, <2>2, QuietKeeps DEF SameWork
<1>2. CASE Finish(s)
  BY <1>2, FinishKeeps DEF Running, Finish
<1>3. CASE ~Drop(s) /\ ~Finish(s)
  <2>1. /\ s \in Running /\ settled' = settled /\ scan'[s].clean = scan[s].clean
        /\ \A r \in Scans : IsClean(r)' => r = s \/ IsClean(r)
    BY <1>3, DirtyScanStep
  <2>2. CASE ~scan[s].clean
    BY <2>1, <2>2, DirtyKeeps DEF IsClean
  <2>3. CASE scan[s].clean
    <3>1. ASSUME UpsertFails(s) PROVE FALSE
      BY <2>1, <2>3, <3>1, Era DEF Right, HasOpen, Past, UpsertFails
    <3> QED
      BY <1>3, <2>1, <2>3, <3>1, ListLibsKeeps, ScanLibsKeeps, LookPresentKeeps, OpenLibKeeps,
         UpsertItemKeeps, SweepKeeps DEF ScanStep
  <2> QED
    BY <2>2, <2>3
<1> QED
  BY <1>1, <1>2, <1>3

LEMMA UndisturbedStep == TypeOK /\ Undisturbed /\ [Next]_vars => Undisturbed'
<1> SUFFICES ASSUME TypeOK, Undisturbed, [Next]_vars PROVE Undisturbed'
  OBVIOUS
<1> USE DEF diskVars, dbVars
<1>0. scan \in [Scans -> ScanStates]
  BY DEF TypeOK
<1>1. ASSUME NEW s \in Scans, ScanStep(s) PROVE Undisturbed'
  BY <1>1, ScanStepKeeps
<1>2. ASSUME NEW s \in Scans, NEW keyed \in BOOLEAN, scan[s].at = "idle", scan' = Started(s, keyed, scan),
             UNCHANGED <<files, mounted, lib, row, settled>>
      PROVE  Undisturbed'
  <2>1. Begins(s) /\ \A r \in Scans : r # s => SameWork(scan[r], scan'[r])
    BY <1>0, <1>2, StartedTypes DEF Begins
  <2> QED
    BY <1>2, <2>1, QuietKeeps
<1>3. ASSUME NEW s \in Scans, Start(s, TRUE) \/ Start(s, FALSE) PROVE Undisturbed'
  BY <1>2, <1>3 DEF Start
<1>4. ASSUME UNCHANGED <<files, mounted, lib, row, settled, scan>> PROVE Undisturbed'
  <2>1. \A r \in Scans : SameWork(scan[r], scan'[r])
    BY <1>4 DEF SameWork
  <2> QED
    BY <1>4, <2>1, QuietKeeps
<1>5. ASSUME NEW s \in Scans, WatcherFires(s) PROVE Undisturbed'
  BY <1>2, <1>4, <1>5 DEF WatcherFires, OnlyWatcher
<1>6. ASSUME NEW s \in Scans, CancelTask(s) PROVE Undisturbed'
  <2> DEFINE v == [scan[s] EXCEPT !.cancelled = TRUE]
  <2>1. v \in ScanStates /\ SameWork(scan[s], v) /\ scan' = [scan EXCEPT ![s] = v]
    BY <1>0, <1>6 DEF CancelTask, ScanStates, SameWork
  <2> HIDE DEF v
  <2>2. \A r \in Scans : SameWork(scan[r], scan'[r])
    BY <1>0, <2>1, SetScan DEF SameWork
  <2> QED
    BY <1>6, <2>2, QuietKeeps DEF CancelTask
<1>7. ASSUME NEW s \in Scans, ScanFails(s) PROVE Undisturbed'
  BY <1>7, FailMoves, DisturbedKeeps DEF ScanFails, IsClean
<1>8. ASSUME Disturbed PROVE Undisturbed'
  BY <1>0, <1>8, DisturbTypes, DisturbedKeeps DEF Disturbed, IsClean
<1>9. ASSUME NEW l \in Libs, NEW s \in Scans, LibraryAdd(l, s) \/ LibraryRemove(l, s) PROVE Undisturbed'
  <2> DEFINE sc == Disturb(scan)
  <2>1. sc \in [Scans -> ScanStates] /\ \A r \in Scans : ~sc[r].clean /\ sc[r].at = scan[r].at
    BY <1>0, DisturbTypes
  <2>2. scan' = Started(s, TRUE, sc) /\ ~settled' /\ scan[s].at = "idle"
    BY <1>9 DEF LibraryAdd, LibraryRemove
  <2> HIDE DEF sc
  <2>3. /\ scan'[s].at = "list" /\ scan'[s].fresh = {}
        /\ scan'[s].clean = \A t \in Running : sc[t].clean
        /\ \A r \in Scans : r # s => SameWork(sc[r], scan'[r])
    BY <2>1, <2>2, StartedTypes
  <2>4. \A r \in Scans : r # s => ~scan'[r].clean /\ scan'[r].at = scan[r].at
    BY <2>1, <2>3 DEF SameWork
  <2>5. scan'[s].clean => \A r \in Scans : r # s => scan'[r].at = "idle"
    BY <2>1, <2>3, <2>4 DEF Running
  <2> QED
    BY <2>2, <2>3, <2>4, <2>5, OnlyOneKeeps
<1>10. ASSUME NEW s \in Scans, Restart(s) PROVE Undisturbed'
  <2> DEFINE v == [Idle EXCEPT !.at = "list", !.clean = TRUE]
             none == [r \in Scans |-> Idle]
  <2>1. v.at = "list" /\ v.fresh = {} /\ none \in [Scans -> ScanStates]
    BY IdleState DEF ScanStates
  <2>2. scan' = [none EXCEPT ![s] = v] /\ ~settled'
    BY <1>10 DEF Restart
  <2>3. \A r \in Scans : r # s => none[r].at = "idle" /\ ~none[r].clean
    BY IdleState
  <2> HIDE DEF v, none
  <2>4. /\ scan'[s].at = "list" /\ scan'[s].fresh = {}
        /\ \A r \in Scans : r # s => scan'[r].at = "idle" /\ ~scan'[r].clean
    BY <2>1, <2>2, <2>3
  <2> QED
    BY <2>2, <2>4, OnlyOneKeeps
<1>11. ASSUME \/ Probe \/ WatcherReceives \/ WatcherSkips \/ WatcherCools \/ UNCHANGED vars
       PROVE  Undisturbed'
  BY <1>4, <1>11 DEF Probe, ProbeCollect, ProbeFlush, ProbeLook, Flushes, OnlyProbe, WatcherReceives, WatcherSkips, WatcherCools, OnlyWatcher, vars
<1>12. ASSUME \/ \E f \in Files : FileChanges(f)
              \/ \E l \in Libs : Mount(l)
       PROVE  Undisturbed'
  BY <1>8, <1>12 DEF FileChanges, Mount
<1> QED
  BY <1>1, <1>3, <1>5, <1>6, <1>7, <1>9, <1>10, <1>11, <1>12 DEF Next, Internal, Daemon, Environment

-----------------------------------------------------------------------------
LEMMA SyncInvHolds == Spec => []SyncInv
<1>1. Init => SyncInv
  <2> SUFFICES ASSUME Init PROVE SyncInv
    OBVIOUS
  <2>1. TypeOK
    <3>1. Cardinality(Libs) \in Nat /\ Cardinality(Libs) <= MaxId /\ MaxId \in Nat
      BY LibraryAssumption, FS_CardinalityType
    <3>2. /\ lib \in [Libs -> 0..MaxId] /\ budget \in [Kinds -> Nat]
          /\ mounted \subseteq Libs /\ files \subseteq Files
      <4>1. PICK start \in Starts : budget = start.events /\ lib = start.ids /\ mounted = start.mounted /\ files = start.files
        BY DEF Init
      <4>2. /\ lib \in [Libs -> 0..Cardinality(Libs)] /\ budget \in [Kinds -> Nat]
            /\ mounted \subseteq Libs /\ files \subseteq Files
        BY <4>1, LibraryAssumption
      <4>3. 0..Cardinality(Libs) \subseteq 0..MaxId
        BY <3>1
      <4> QED
        BY <4>2, <4>3
    <3>3. Cardinality(Known) \in Nat
      <4>1. Known \subseteq Libs /\ IsFiniteSet(Libs)
        BY LibraryAssumption DEF Known
      <4> HIDE DEF Known
      <4>2. IsFiniteSet(Known)
        BY <4>1, FS_Subset
      <4> QED
        BY <4>2, FS_CardinalityType
    <3>4. nextId \in Nat \ {0}
      BY <3>3 DEF Init
    <3>5. /\ row \in [Pairs -> 0..MaxId] /\ \A p \in Pairs : ~Has(p)
      BY <3>1 DEF Init, Has
    <3>6. scan \in [Scans -> ScanStates] /\ watched \subseteq Libs
      BY IdleState, LibraryAssumption DEF Init, Known
    <3> QED
      BY <3>2, <3>4, <3>5, <3>6 DEF Init, TypeOK
  <2>2. \A r \in Scans : scan[r].at = "idle"
    BY IdleState DEF Init
  <2> QED
    BY <2>1, <2>2 DEF SyncInv, OpenIsRow, Past, CleanAreRight, AllOrNone, IsClean, Running, Init
<1>2. SyncInv /\ [Next]_vars => SyncInv'
  BY TypeStep, OpenIsRowStep, UndisturbedStep DEF SyncInv, Undisturbed
<1> QED
  BY <1>1, <1>2, PTL DEF Spec

(* Every row is of a library that has one, and every id is in its bounds.  *)
THEOREM LibraryTypeOK == Spec => []TypeOK
<1>1. SyncInv => TypeOK
  BY DEF SyncInv
<1> QED
  BY <1>1, SyncInvHolds, PTL

(* InSync (control.rs refresh_sources_inner): once a scan that nothing      *)
(* disturbed has finished, each file of a mounted library has a row, and    *)
(* one only among the names of its directory, whatever scans ran, were      *)
(* cancelled or swept beside it.                                            *)
THEOREM LibraryInSync == Spec => []InSync
<1>1. SyncInv => InSync
  BY WantedOf DEF SyncInv, Synced, InSync
<1> QED
  BY <1>1, SyncInvHolds, PTL

-----------------------------------------------------------------------------
\* A step that is neither a sweep, a removal nor a restart deletes no row.
LEMMA OthersKeepRows ==
  ASSUME SyncInv, [Next]_vars,
         \A r \in Scans : ~Sweep(r) /\ ~Restart(r) /\ \A l \in Libs : ~LibraryRemove(l, r)
  PROVE  \A p \in Pairs : Has(p) => row'[p] # 0
<1> USE DEF diskVars, dbVars, OnlyWatcher
<1>0. TypeOK
  BY DEF SyncInv
<1>1. row' = row => \A p \in Pairs : Has(p) => row'[p] # 0
  BY DEF Has
<1>2. ASSUME NEW s \in Scans, NEW p \in Pairs, UpsertItem(s, p)
      PROVE  \A q \in Pairs : Has(q) => row'[q] # 0
  BY <1>0, <1>2 DEF UpsertItem, TypeOK, Has
<1>3. ASSUME NEW s \in Scans, ScanStep(s), \A p \in Pairs : ~UpsertItem(s, p) PROVE row' = row
  BY <1>3 DEF ScanStep, ListLibs, ScanLibs, LookPresent, OpenLib, UpsertFails, Finish, Drop
<1>4. ASSUME Internal, \A s \in Scans : ~ScanStep(s) PROVE row' = row
  BY <1>4 DEF Internal, Daemon, WatcherFires, Probe, ProbeCollect, ProbeFlush, ProbeLook, Flushes, OnlyProbe, WatcherReceives, WatcherSkips, WatcherCools
<1>5. ASSUME Environment PROVE row' = row
  BY <1>5 DEF Environment, Start, ScanFails, CancelTask, LibraryAdd, FileChanges, Mount
<1>6. CASE UNCHANGED vars
  BY <1>1, <1>6 DEF vars
<1> QED
  BY <1>1, <1>2, <1>3, <1>4, <1>5, <1>6 DEF Next, ScanStep

\* A sweep or a restart brings only the scan that makes it to an end.
LEMMA OnlyItsSweep ==
  ASSUME SyncInv, NEW s \in Scans, scan[s].at = "open", scan'[s].at = "finish", NEW r \in Scans
  PROVE  /\ ~Restart(r) /\ \A l \in Libs : ~LibraryRemove(l, r)
         /\ Sweep(r) => r = s
<1>0. TypeOK
  BY DEF SyncInv
<1>1. Sweep(r) => r = s
  <2>1. Sweep(r) => \A t \in Scans : t # r => scan'[t] = scan[t]
    BY <1>0, ScanMoves
  <2> QED
    BY <2>1
<1>2. ~Restart(r)
  <2> SUFFICES ASSUME Restart(r) PROVE FALSE
    OBVIOUS
  <2> DEFINE v == [Idle EXCEPT !.at = "list", !.clean = TRUE]
             none == [t \in Scans |-> Idle]
  <2>1. v.at = "list" /\ none[s].at = "idle" /\ none \in [Scans -> ScanStates]
    BY IdleState DEF ScanStates
  <2>2. scan' = [none EXCEPT ![r] = v]
    BY DEF Restart
  <2> HIDE DEF v, none
  <2> QED
    BY <2>1, <2>2
<1>3. ASSUME NEW l \in Libs, LibraryRemove(l, r) PROVE FALSE
  <2> DEFINE sc == Disturb(scan)
  <2>1. sc \in [Scans -> ScanStates] /\ sc[s].at = "open"
    BY <1>0, DisturbTypes DEF TypeOK
  <2> HIDE DEF sc
  <2>2. scan' = Started(r, TRUE, sc)
    BY <1>3 DEF LibraryRemove, sc
  <2>3. scan'[r].at = "list" /\ \A t \in Scans : t # r => SameWork(sc[t], scan'[t])
    <3> HIDE <1>3
    <3> QED
      BY <2>1, <2>2, StartedTypes
  <2> QED
    BY <2>1, <2>3 DEF SameWork
<1> QED
  BY <1>1, <1>2, <1>3

\* Of the names of a directory one is scanned.
LEMMA LeastNumber ==
  ASSUME NEW T \in SUBSET Nat, T # {}
  PROVE  \E n \in T : \A m \in T : n <= m
<1> DEFINE R == OpToRel(<, Nat)
<1>1. IsWellFoundedOn(R, Nat)
  BY NatLessThanWellFounded
<1>2. \A x, y \in Nat : x < y => <<x, y>> \in R
  BY DEF OpToRel
<1> HIDE DEF R
<1>3. PICK n \in T : \A m \in T : ~(<<m, n>> \in R)
  BY <1>1, WFMin
<1>4. \A m \in T : m \in Nat /\ n \in Nat /\ ~(m < n)
  BY <1>2, <1>3
<1>5. \A m \in T : n <= m
  BY <1>4
<1> QED
  BY <1>5

LEMMA OneIsScanned ==
  ASSUME TypeOK, NEW l \in Known \cap mounted
  PROVE  \E k \in Firsts(Known) : Alias(k, l)
<1> DEFINE names == {k \in Known : Alias(k, l)}
           ids == {lib[k] : k \in names}
<1>0. l \in names /\ \A k \in names : lib[k] \in Nat
  BY LibraryAssumption DEF TypeOK, Known, Alias
<1>1. ids \in SUBSET Nat /\ ids # {}
  BY <1>0
<1>2. PICK n \in ids : \A m \in ids : n <= m
  BY <1>1, LeastNumber
<1>3. PICK k \in names : lib[k] = n
  BY <1>2
<1>4. \A j \in Known : Alias(j, k) => j \in names
  BY <1>3 DEF Alias
<1>5. k \in Firsts(Known)
  BY <1>2, <1>3, <1>4 DEF Firsts
<1> QED
  BY <1>3, <1>5

(* SweepsOnlyGone (model/sync.rs, control.rs:810): a scan that nothing      *)
(* disturbed deletes no row of a file that exists, unless the file keeps a  *)
(* row under another name of its directory.                                 *)
THEOREM LibrarySweepsOnlyGone == Spec => SweepsOnlyGone
<1>1. SyncInv /\ [Next]_vars =>
        [\A s \in Scans : scan[s].at = "open" /\ scan'[s].at = "finish" /\ scan[s].clean =>
           \A p \in Pairs : Has(p) /\ row'[p] = 0 =>
             \/ p[2] \notin files
             \/ \E q \in Pairs : q[2] = p[2] /\ Alias(q[1], p[1]) /\ row'[q] # 0]_vars
  <2> SUFFICES ASSUME SyncInv, [Next]_vars, NEW s \in Scans, scan[s].at = "open", scan'[s].at = "finish", scan[s].clean,
                      NEW p \in Pairs, Has(p), row'[p] = 0, p[2] \in files
               PROVE  \E q \in Pairs : q[2] = p[2] /\ Alias(q[1], p[1]) /\ row'[q] # 0
    OBVIOUS
  <2>1. Sweep(s)
    BY OthersKeepRows, OnlyItsSweep
  <2>2. p \in Stale(s) /\ scan[s].left = {}
    BY <2>1 DEF Sweep, Has
  <2>3. TypeOK /\ Undisturbed /\ s \in Running
    BY DEF SyncInv, Undisturbed, Running
  <2>4. scan[s].present = Known \cap mounted /\ \A q \in Wanted : Has(q) /\ q \notin Stale(s)
    BY <2>2, <2>3, SweepIsRight
  <2>5. p[1] \in Known \cap mounted
    BY <2>2, <2>4 DEF Stale
  <2>6. PICK k \in Firsts(Known) : Alias(k, p[1])
    BY <2>3, <2>5, OneIsScanned
  <2>7. k \in mounted /\ k \in Libs /\ Dir[k] = Dir[p[1]]
    BY <2>5, <2>6 DEF Alias, Firsts, Known
  <2>8. p[1] \in Libs /\ p[2] \in Sees[p[1]]
    BY DEF Pairs
  <2>9. p[2] \in Sees[k]
    BY <2>7, <2>8, LibraryAssumption
  <2> DEFINE q == <<k, p[2]>>
  <2>10. q \in Pairs /\ q[1] = k /\ q[2] = p[2]
    BY <2>7, <2>9 DEF Pairs
  <2>11. q \in Wanted
    BY <2>6, <2>7, <2>10, WantedOf
  <2>12. row'[q] # 0
    BY <2>1, <2>4, <2>10, <2>11 DEF Sweep, Has
  <2> QED
    BY <2>6, <2>10, <2>12
<1> QED
  BY <1>1, SyncInvHolds, PTL DEF Spec, SweepsOnlyGone
=============================================================================
