------------------------------- MODULE MCGaNb -------------------------------
(* Instances of GaNb for TLC.                                              *)
EXTENDS GaNb

(* A put sends a header and its data, a get a header and awaits the data.  *)
TwoMessages == [k \in Kind |-> IF k = "put" THEN {<<2, 0>>} ELSE {<<1, 1>>}]

(* One piece, one on each side of the node, and more than there are        *)
(* handles.                                                                *)
Mixed == {[pieces |-> 1, shared |-> 0, last |-> TRUE],
          [pieces |-> 1, shared |-> 1, last |-> FALSE],
          [pieces |-> NbMax + 1, shared |-> 0, last |-> TRUE]}
=============================================================================
