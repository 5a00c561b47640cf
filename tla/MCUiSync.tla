------------------------------ MODULE MCUiSync ------------------------------
(* UiSync with two displays, two renderers and two writers.                *)
EXTENDS UiSync

CONSTANTS d1, d2, r1, r2, l1, a, b
=============================================================================
