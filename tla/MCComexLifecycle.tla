-------------------------- MODULE MCComexLifecycle --------------------------
(* Environments for the model checker.                                     *)
EXTENDS ComexLifecycle

CONSTANT MaxNum  \* most progress ranks per node

TwoNodes == {0, 1}

(* n consecutive ranks on consecutive nodes: up to rank b on node 0.       *)
BlockHosts(n) == {[r \in 0 .. (n - 1) |-> IF r <= b THEN 0 ELSE 1] : b \in 0 .. (n - 1)}

With(hosts, nums) ==
  [host : hosts, num : nums, packed : BOOLEAN, smallest : BOOLEAN, smp : BOOLEAN]

(* What works: on consecutive ranks, everything but a single CYCLIC        *)
(* progress rank, taken from the largest ranks, on a second node.          *)
Sound(layouts) ==
  {l \in layouts :
     l.packed \/ l.num > 1 \/ l.smallest \/ \A r \in DOMAIN l.host : l.host[r] = 0}

(* Every build and environment, with and without shared memory, that       *)
(* starts on these ranks, and one that is refused.                         *)
StartingLayouts ==
  LET all == Sound(With(BlockHosts(Size), 1 .. MaxNum))
  IN {l \in all : ~Refused(l)} \cup {CHOOSE l \in all : Refused(l)}

(* Up to four progress ranks on each of two nodes of up to twelve ranks.   *)
LargeLayouts == Sound({l \in With(BlockHosts(8) \cup BlockHosts(12), 1 .. 4) : l.smp})
NoLayouts == {}

CyclicLayouts ==
  {l \in With(BlockHosts(Size), {1}) : ~l.packed /\ ~l.smallest /\ l.smp}

\* The theorems of ComexLifecycleProofs are about the first two, not the last.
ASSUME LayoutsApart ==
  /\ \A l \in StartingLayouts : Contiguous(Size, l) /\ Workable(Size, l)
  /\ \A l \in LargeLayouts : \E n \in {8, 12} :
       l \in Environment(n) /\ Contiguous(n, l) /\ Workable(n, l)
  /\ \A l \in CyclicLayouts : Contiguous(Size, l)
  /\ ~ \A l \in CyclicLayouts : Workable(Size, l)
=============================================================================
