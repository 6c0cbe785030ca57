--------------------------- MODULE MCMaAllocator ---------------------------
(* Sizes, requests and segments for the model checker.                     *)
EXTENDS MaAllocator

(* Doubles and double complex numbers; the base array of the doubles is    *)
(* not aligned with the segment.                                           *)
DblDcpl == {"dbl", "dcpl"}
Sizes == [dbl |-> 8, dcpl |-> 16]
Bases == [dbl |-> 4, dcpl |-> 0]

(* Room for one block on either side, or two and one.                      *)
Regions ==
  {[datatype |-> "dbl", stack |-> 8, heap |-> 12],
   [datatype |-> "dcpl", stack |-> 0, heap |-> 10]}

\* The theorem about inquiries is about machines like this one.
ASSUME Machine == PowersOfTwo /\ Addressable
=============================================================================
