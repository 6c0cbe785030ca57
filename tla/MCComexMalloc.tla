--------------------------- MODULE MCComexMalloc ---------------------------
(* Jobs for the model checker: six ranks.                                  *)
EXTENDS ComexMalloc

TwoNodes == {0, 1}
TwoAddresses == {1, 2}

Malloc(g) == [op |-> "malloc", group |-> g, of |-> 0]
Free(g, k) == [op |-> "free", group |-> g, of |-> k]

(* One progress rank on each of two nodes: workers 0, 1 and 3, 4.          *)
TwoHosts == [host |-> [r \in Rank |-> IF r < 3 THEN 0 ELSE 1],
             num |-> 1, packed |-> TRUE, smallest |-> FALSE, smp |-> TRUE]

(* Two progress ranks on one node: workers 0, 1 and 3, 4 when PACKED.      *)
OneHost == [host |-> [r \in Rank |-> 0],
            num |-> 2, packed |-> TRUE, smallest |-> FALSE, smp |-> TRUE]

WorkersOf(l) == {r \in Rank : AllMasters(l)[r] # r}

(* Memory of one group is given back and its addresses are used again by   *)
(* another; two groups hold memory at once.                                *)
Reuse(g, h) == <<Malloc(g), Free(g, 1), Malloc(h), Free(h, 3)>>
Nested(g, h) == <<Malloc(g), Malloc(h), Free(g, 1), Free(h, 2)>>

(* Overlapping groups, on one node and across both.                        *)
GroupJobs ==
  {[layout |-> TwoHosts, program |-> Reuse({0, 1, 3}, {0, 3}), puts |-> 2]} \cup
  {[layout |-> TwoHosts, program |-> Nested({0, 1, 3}, h), puts |-> 1] : h \in {{1, 3}, {3, 4}}}

(* The world group, however the progress ranks are chosen.                 *)
WorldJobs ==
  {[layout |-> l, program |-> <<Malloc(WorkersOf(l)), Free(WorkersOf(l), 1)>>, puts |-> 0] :
     l \in {[k EXCEPT !.packed = p, !.smallest = s] :
              k \in {TwoHosts, OneHost}, p, s \in BOOLEAN}}

AllJobs == GroupJobs \cup WorldJobs

SubgroupJobs ==
  {[layout |-> OneHost, program |-> <<Malloc({0, 3, 4})>>, puts |-> 1]}

\* The theorems of ComexMallocProofs are about the first jobs, not the last.
ASSUME JobsApart ==
  /\ \A j \in AllJobs : WellFormed(j) /\ SpokenFor(j) /\ Served(j)
  /\ \A j \in SubgroupJobs : WellFormed(j) /\ Served(j) /\ ~SpokenFor(j)
=============================================================================
