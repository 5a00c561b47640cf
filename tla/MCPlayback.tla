----------------------------- MODULE MCPlayback -----------------------------
(***************************************************************************)
(* Playback for TLC.                                                       *)
(***************************************************************************)
EXTENDS Playback

CONSTANTS w1, w2, w3
SomeLists == {<<>>, <<w1, w2, w3>>, <<w2, w1>>}
SomeQueue == <<w1, w2, w3>>

Nothing == [k \in Kinds |-> 0]
Events(some) == some @@ Nothing
AllScenarios == {
  Events([request |-> 2, alone |-> 1, go |-> 1]),
  Events([request |-> 1, alone |-> 1, tick |-> 1, go |-> 1, plain |-> 1]),
  Events([request |-> 2, alone |-> 1, go |-> 1, plain |-> 1, overlap |-> 1]),
  Events([request |-> 3, alone |-> 1, plain |-> 1]),
  Events([request |-> 2, alone |-> 1, sweep |-> 1, plain |-> 1, overlap |-> 1]),
  Events([request |-> 1, alone |-> 1, come |-> 1, auto |-> 1, plain |-> 1]),
  Events([request |-> 1, alone |-> 1, touch |-> 1, auto |-> 1, plain |-> 1]),
  Events([request |-> 1, tick |-> 1]),
  Events([request |-> 1, go |-> 1]),
  Events([come |-> 2, touch |-> 1, auto |-> 1]),
  Events([come |-> 1, rotate |-> 1, tick |-> 1, plain |-> 1]),
  Events([request |-> 1, alone |-> 1, endless |-> 1]),
  Events([request |-> 2, alone |-> 1, endless |-> 1, plain |-> 1]),
  Events([alone |-> 1, endless |-> 1, step |-> 2, plain |-> 1]),
  Events([alone |-> 1, sweep |-> 3, step |-> 1, plain |-> 1]),
  Events([alone |-> 1, step |-> 3, reset |-> 1, plain |-> 1])}

ResetScenarios == {Events([step |-> 2, reset |-> 1, plain |-> 1])}
=============================================================================
