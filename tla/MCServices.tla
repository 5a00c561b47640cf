----------------------------- MODULE MCServices -----------------------------
(***************************************************************************)
(* Services for TLC.  A behaviour has the events of one scenario, so that  *)
(* the parts that do not interact are not multiplied with one another.     *)
(***************************************************************************)
EXTENDS Services

CONSTANTS d1, d2, w1
Remembered == (d1 :> w1 @@ d2 :> NoWallpaper)

Nothing == [k \in Kinds |-> 0]
Events(some) == some @@ Nothing
AllScenarios == {
  Events([change |-> 2, fail |-> 1, quit |-> 1]),
  Events([boot |-> 1, come |-> 1, go |-> 1, noise |-> 1]),
  Events([come |-> 2, go |-> 1, touch |-> 1, refuse |-> 1]),
  Events([boot |-> 1, come |-> 1, crash |-> 1]),
  Events([lock |-> 2, crash |-> 1, quit |-> 1])}
=============================================================================
