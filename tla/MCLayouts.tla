------------------------------ MODULE MCLayouts ------------------------------
(***************************************************************************)
(* Layouts for TLC: d1 advertises an instance and was known by its name    *)
(* before, d2 only has a name.                                             *)
(***************************************************************************)
EXTENDS Layouts, TLC

CONSTANTS d1, d2

MCInstanceId == [d \in Displays |-> IF d = d1 THEN "iid" ELSE Unset]
MCName == [d \in Displays |-> IF d = d1 THEN "one" ELSE "two"]
MCFirstSize == [d \in Displays |-> IF d = d1 THEN <<2, 1>> ELSE <<1, 2>>]
MCFirstPrefs ==
  [k \in Keys |-> IF k = "one" THEN [prefs |-> [NoPrefs EXCEPT !.fillmode = "fit"], other |-> FALSE]
                  ELSE Unset]

Keep == NoPrefs
MCDisplayEdits ==
  {[Keep EXCEPT !.fillmode = "centered"], [Keep EXCEPT !.fillmode = "clear"],
   [Keep EXCEPT !.rotation = "cw90"]}
MCGlobalEdits == {[Keep EXCEPT !.location = <<0, 100>>]}
MCWallpaperEdits == {NoPrefs, [Keep EXCEPT !.fillmode = "stretched"]}
Symmetry == Permutations(Renderers)
MCSizes == {<<2, 1>>, <<1, 2>>}
=============================================================================
