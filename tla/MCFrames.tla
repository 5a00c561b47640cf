------------------------------ MODULE MCFrames ------------------------------
(***************************************************************************)
(* Frames for TLC.  A behaviour has the events of one scenario: displays   *)
(* that only come, that die or leave, and a pool that is replaced.         *)
(***************************************************************************)
EXTENDS Frames, TLC

Nothing == [k \in Kinds |-> 0]
Events(some) == some @@ Nothing
AllScenarios == {
  Events([rebind |-> 1, come |-> 2, frame |-> 3]),
  Events([rebind |-> 1, come |-> 2, frame |-> 2, crash |-> 1]),
  Events([rebind |-> 1, come |-> 1, frame |-> 2, leave |-> 1, unlink |-> 1]),
  Events([rebind |-> 1, come |-> 1, frame |-> 3, unlink |-> 1]),
  Events([rebind |-> 2, come |-> 1, frame |-> 3]),
  Events([rebind |-> 2, come |-> 1, frame |-> 3, image |-> 1])}
=============================================================================
