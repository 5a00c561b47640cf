------------------------------ MODULE MCTasks -------------------------------
(***************************************************************************)
(* Tasks for TLC: one caller submits under the key, the other submits      *)
(* plain tasks and cancels by id.                                          *)
(***************************************************************************)
EXTENDS Tasks, TLC

CONSTANTS c1, c2, k1
OneSubmitter == (k1 :> {c1})
=============================================================================
