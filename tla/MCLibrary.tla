----------------------------- MODULE MCLibrary ------------------------------
(***************************************************************************)
(* Library for TLC: the root "outer" holds the root "inner", of which      *)
(* "link" is another name that was added before it.                        *)
(***************************************************************************)
EXTENDS Library, TLC

CONSTANTS outer, inner, link, f1, f2
Nested == (outer :> {f1, f2} @@ inner :> {f1} @@ link :> {f1})
Depths == (outer :> 1 @@ inner :> 2 @@ link :> 1)
Targets == (outer :> outer @@ inner :> inner @@ link :> inner)

Three == (link :> 1 @@ outer :> 2 @@ inner :> 3)
Two == (outer :> 1 @@ inner :> 2 @@ link :> 0)

Nothing == [k \in Kinds |-> 0]
From(ids, there, fs, some) == [events |-> some @@ Nothing, ids |-> ids, mounted |-> there, files |-> fs]
AllStarts == {
  From(Three, Libs, Files, [direct |-> 1, scan |-> 1, file |-> 1]),
  From(Three, {outer, inner}, Files, [direct |-> 2, mount |-> 1]),
  From(Two, Libs, Files, [direct |-> 2, mount |-> 1]),
  From(Three, {outer, inner}, Files, [direct |-> 1, mount |-> 1, restart |-> 1]),
  From(Three, Libs, Files, [direct |-> 1, restart |-> 1, file |-> 1]),
  From(Three, Libs, Files, [direct |-> 2, fail |-> 1]),
  From(Three, Libs, Files, [scan |-> 2, cancel |-> 1]),
  From(Two, Libs, Files, [lib |-> 2]),
  From(Two, Libs, {f1}, [direct |-> 1, lib |-> 1, probe |-> 1]),
  From(Two, Libs, Files, [direct |-> 1, file |-> 1, probe |-> 1]),
  From(Three, Libs, Files, [watch |-> 1, file |-> 2])}
=============================================================================
