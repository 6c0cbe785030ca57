------------------------------- MODULE MCDra -------------------------------
EXTENDS DraRequests

MCArray == [dims |-> <<7, 1>>, chunk |-> <<2, 1>>, ioprocs |-> 2, files |-> TRUE]

Inner == [lo |-> <<2, 1>>, hi |-> <<6, 1>>]
Edge == [lo |-> <<7, 1>>, hi |-> <<7, 1>>]

MCTransfers == {[op |-> "write", sect |-> Inner], [op |-> "read", sect |-> Inner],
                [op |-> "write", sect |-> Edge]}
MCShapes ==
  [dims : {<<4, 3>>, <<5, 2>>}, chunk : {<<2, 2>>, <<2, 1>>, <<3, 2>>},
   ioprocs : {1, 2}, files : BOOLEAN]
  \union [dims : {<<4, 5, 2>>}, chunk : {<<2, 2, 1>>, <<3, 2, 2>>}, ioprocs : {2},
          files : BOOLEAN]

\* The theorems of DraRequestsProofs are about these transfers.
ASSUME TransfersDecomposed == Decomposed
ASSUME TransfersWellPlaced == WellPlaced
=============================================================================
