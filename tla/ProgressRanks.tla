---------------------------- MODULE ProgressRanks ----------------------------
(***************************************************************************)
(* How the progress-rank runtime divides the ranks of a job into workers   *)
(* and progress ranks (comex/src-mpi-pr/groups.h and groups.c), and which  *)
(* worker tells which progress rank to stop.                               *)
(*                                                                         *)
(* A layout is the environment of a job: the node of each rank, the number *)
(* of progress ranks per node, whether their groups are PACKED or CYCLIC,  *)
(* the build option MASTER_IS_SMALLEST_SMP_RANK, and whether ranks with    *)
(* the same progress rank reach each other through shared memory.          *)
(***************************************************************************)
EXTENDS Integers, FiniteSets

CONSTANTS
  Size, \* g_state.size
  Node  \* host names

ASSUME SizeAssumption == Size \in Nat \ {0}

Rank == 0 .. (Size - 1)

Layout == [host : [Rank -> Node], num : 1 .. 15, packed : BOOLEAN,
           smallest : BOOLEAN, smp : BOOLEAN]

(* Ranks of S on the same host as r, and the smallest and largest rank     *)
(* there; r itself bounds the search.                                      *)
SameHost(l, S, r) == {q \in S : l.host[q] = l.host[r]} \cup {r}
SmallestOn(l, S, r) == CHOOSE q \in SameHost(l, S, r) : \A p \in SameHost(l, S, r) : q <= p
LargestOn(l, S, r) == CHOOSE q \in SameHost(l, S, r) : \A p \in SameHost(l, S, r) : q >= p

NodeSize(l, r) == Cardinality(SameHost(l, DOMAIN l.host, r))
SplitGroupSize(l, r) == NodeSize(l, r) \div l.num

(* comex_group_init gives up on a node with too few ranks for its progress *)
(* ranks, or that they do not divide.                                      *)
Refused(l) ==
  \E r \in DOMAIN l.host : NodeSize(l, r) < 2 * l.num \/ NodeSize(l, r) % l.num > 0

(* The arithmetic of get_my_master_rank_with_same_hostid and               *)
(* get_my_rank_to_free: the end of the own block of split consecutive      *)
(* ranks, or the place in the last (or first) num ranks of the node.       *)
BlockLast(r, split, largest) == largest - split * ((largest - r) \div split)
BlockFirst(r, split, smallest) == smallest + split * ((r - smallest) \div split)
CyclicLast(r, num, smallest, largest) == (largest - num + 1) + ((r - smallest) % num)
CyclicFirst(r, num, smallest) == smallest + ((r - smallest) % num)

(* Bug variants: a block ends one rank too late; blocks are counted from   *)
(* rank 0 instead of the first rank of the node.                           *)
master_after_block(l, r, split, smallest, largest) == 1 + BlockLast(r, split, largest)
master_of_world(l, r, split, smallest, largest) == BlockFirst(r, split, 0)

get_my_master_rank_with_same_hostid(l, r, split, smallest, largest) ==
  LET cyclic == ~l.packed /\ l.num # 1
  IN IF l.smallest
     THEN IF cyclic THEN CyclicFirst(r, l.num, smallest) ELSE BlockFirst(r, split, smallest)
     ELSE IF cyclic THEN CyclicLast(r, l.num, smallest, largest)
                    ELSE BlockLast(r, split, largest)

(* Bug variant: the first rank of the node is forgotten, so that rank 0 is *)
(* meant everywhere.                                                       *)
rank_to_free_zero(l, r, split, smallest, largest) == split * ((r - smallest) \div split)

get_my_rank_to_free(l, r, split, smallest, largest) ==
  IF l.smallest
  THEN CASE l.packed -> BlockLast(r, split, largest)
         [] ~l.packed /\ l.num = 1 ->
              largest - 2 * (split * (((largest - r) \div 2) \div split))
         [] OTHER -> CyclicFirst(r, l.num, smallest)
  ELSE CASE l.packed -> BlockFirst(r, split, smallest)
         [] ~l.packed /\ l.num = 1 -> 2 * (split * (((r - smallest) \div 2) \div split))
         [] OTHER -> CyclicLast(r, l.num, smallest, largest)

(* g_state.master, after the MPI_Allgather of comex_group_init.            *)
AllMasters(l) ==
  LET all == DOMAIN l.host
  IN [r \in all |-> get_my_master_rank_with_same_hostid(l, r, SplitGroupSize(l, r),
                       SmallestOn(l, all, r), LargestOn(l, all, r))]

(* The rank that stops the progress rank of its group.  The smallest and   *)
(* largest ranks are now those of group_list, the workers; node_size       *)
(* counts the ranks with the same split group stamp.                       *)
Notifies(l, masters, c) ==
  LET node_size == Cardinality({r \in DOMAIN l.host : masters[r] = masters[c]})
      group_list == {r \in DOMAIN l.host : masters[r] # r}
  IN c = get_my_rank_to_free(l, c, node_size,
           SmallestOn(l, group_list, c), LargestOn(l, group_list, c))

(* A division of ranks into workers and progress ranks that works: every   *)
(* rank is served by a progress rank of its node, every progress rank has  *)
(* equally many ranks, and exactly one of its workers will stop it.        *)
ServesNodes(l, masters) ==
  \A r \in DOMAIN l.host :
    /\ masters[masters[r]] = masters[r]
    /\ l.host[masters[r]] = l.host[r]
    /\ LET own == {q \in DOMAIN l.host : masters[q] = masters[r]}
       IN /\ Cardinality(own) = SplitGroupSize(l, r)
          /\ Cardinality({c \in own \ {masters[r]} : Notifies(l, masters, c)}) = 1

(***************************************************************************)
(* What the theorems ask of an environment.                                *)
(***************************************************************************)
(* The environments of a job of n ranks; Layout is the one of Size ranks.  *)
Ranks(n) == 0 .. (n - 1)
Environment(n) == [host : [Ranks(n) -> Node], num : 1 .. 15, packed : BOOLEAN,
                   smallest : BOOLEAN, smp : BOOLEAN]

(* The ranks of a node are consecutive, as mpirun places them by default.  *)
Contiguous(n, l) ==
  \A p, q, r \in Ranks(n) :
    p <= q /\ q <= r /\ l.host[p] = l.host[r] => l.host[q] = l.host[p]

(* All but a single CYCLIC progress rank, taken from the largest ranks, on *)
(* a second node.                                                          *)
Workable(n, l) ==
  l.packed \/ l.num > 1 \/ l.smallest \/ \A r \in Ranks(n) : l.host[r] = l.host[0]
=============================================================================
