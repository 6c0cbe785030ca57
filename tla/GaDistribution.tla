--------------------------- MODULE GaDistribution ---------------------------
(***************************************************************************)
(* How a global array is laid out over its processes: the descriptors that *)
(* the set_... calls and pnga_allocate build (global/src/base.c), the      *)
(* index arithmetic of base.h, and the amount of memory each process       *)
(* allocates.  All of it is a function of the descriptor A:                *)
(*                                                                         *)
(*   type        REGULAR, BLOCK_CYCLIC, SCALAPACK, TILED or TILED_IRREG    *)
(*   dims        the extent of each dimension; subscripts start at 1       *)
(*   block_dims  the extents of a block        (the three blocked types)   *)
(*   num_blocks  blocks in each dimension      (all but REGULAR)           *)
(*   nblock      the process grid              (all but BLOCK_CYCLIC)      *)
(*   mapc        first subscript of each block (REGULAR, TILED_IRREG)      *)
(*   width       ghost cells on either side    (REGULAR)                   *)
(*   nproc       processes of the group of the array, the world            *)
(*   rstrctd     the processes that hold data, <<>> when all of them may   *)
(*                                                                         *)
(* Processes, blocks and block indices count from 0, dimensions from 1.    *)
(***************************************************************************)
EXTENDS Integers, Sequences, FiniteSets, SequencesExt, FiniteSetsExt

(* One value for each dimension; arrays here have one or two. *)
Each(n, f(_)) ==
  CASE n = 0 -> << >> [] n = 1 -> <<f(1)>> [] n = 2 -> <<f(1), f(2)>>

Product(s) ==
  LET upto[i \in 0..Len(s)] == IF i = 0 THEN 1 ELSE upto[i - 1] * s[i]
  IN upto[Len(s)]

Dim(A) == 1..Len(A.dims)

\* The product of the first d - 1 extents: the stride of dimension d.
Stride(ext, d) == Product(SubSeq(ext, 1, d - 1))

(* ga_ComputeIndexM: the first subscript changes first. *)
ComputeIndex(sub, ext) ==
  LET upto[d \in 0..Len(sub)] ==
        IF d = 0 THEN 0 ELSE upto[d - 1] + sub[d] * Stride(ext, d)
  IN upto[Len(sub)]

(* gam_find_block_indices and gam_find_proc_indices: the inverse. *)
FindIndices(n, ext) ==
  Each(Len(ext), LAMBDA d : (n \div Stride(ext, d)) % ext[d])

Extents(lo, hi) == Each(Len(lo), LAMBDA d : hi[d] - lo[d] + 1)

Size(b) == Product(Extents(b.lo, b.hi))

(***************************************************************************)
(* Blocks.                                                                 *)
(***************************************************************************)
MappedBounds(A, n, index) ==
  [lo |-> Each(Len(A.dims), LAMBDA d : A.mapc[d][index[d] + 1]),
   hi |-> Each(Len(A.dims), LAMBDA d : IF index[d] = n[d] - 1 THEN A.dims[d]
                            ELSE A.mapc[d][index[d] + 2] - 1)]

(* The bounds of the block with these block indices. *)
BlockBounds(A, index) ==
  IF A.type = "TILED_IRREG" THEN MappedBounds(A, A.num_blocks, index)
  ELSE [lo |-> Each(Len(A.dims), LAMBDA d : index[d] * A.block_dims[d] + 1),
        hi |-> Each(Len(A.dims), LAMBDA d :
                  LET top == (index[d] + 1) * A.block_dims[d]
                  IN IF top > A.dims[d] THEN A.dims[d] ELSE top)]

(* ga_ownsM: what process (REGULAR) or block (otherwise) proc holds. *)
Owns(A, proc) ==
  IF A.type # "REGULAR"
  THEN BlockBounds(A, FindIndices(proc, A.num_blocks))
  ELSE IF \/ proc < 0 \/ proc > Product(A.nblock) - 1
          \/ A.rstrctd # <<>> /\ proc >= Len(A.rstrctd)
       THEN [lo |-> Each(Len(A.dims), LAMBDA d : 0),
             hi |-> Each(Len(A.dims), LAMBDA d : -1)]
       ELSE MappedBounds(A, A.nblock, FindIndices(proc, A.nblock))

BlockTotal(A) == Product(A.num_blocks)

(* Processes that hold data, and the position of a process among them. *)
NumHolders(A) == IF A.rstrctd = <<>> THEN A.nproc ELSE Len(A.rstrctd)

Holder(A, r) == IF A.rstrctd = <<>> THEN r ELSE A.rstrctd[r + 1]

RankRstrctd(A, p) ==
  IF A.rstrctd = <<>> THEN p
  ELSE IF \E i \in 1..Len(A.rstrctd) : A.rstrctd[i] = p
       THEN (CHOOSE i \in 1..Len(A.rstrctd) : A.rstrctd[i] = p) - 1
       ELSE -1

(* findblock: the search starts at (int)(scale * elem), where scale is the *)
(* double n / dim, and goes up or down the map of n block starts.  The     *)
(* product may be rounded to just below a whole number, so the search may  *)
(* also start one block below the exact quotient.                          *)
FindBlock(map, n, candidate, elem) ==
  LET start == IF candidate = n THEN n - 1 ELSE candidate
      up == {b \in start..(n - 2) : map[b + 2] > elem}
      down == {b \in 0..(start - 1) : map[b + 1] <= elem}
      hits == IF map[start + 1] <= elem THEN up ELSE down
  IN IF hits = {} THEN n - 1
     ELSE IF map[start + 1] <= elem
          THEN CHOOSE b \in hits : \A c \in hits : b <= c
          ELSE CHOOSE b \in hits : \A c \in hits : b >= c

Candidates(n, dim, elem) ==
  {(n * elem) \div dim}
    \union (IF (n * elem) % dim = 0 /\ n * elem # 0
            THEN {(n * elem) \div dim - 1} ELSE {})

(***************************************************************************)
(* The default distribution of pnga_allocate.                              *)
(***************************************************************************)
Lesser(x, y) == IF x < y THEN x ELSE y

CeilDiv(x, y) == (x + y - 1) \div y

(* ddb_h2: deal the prime divisors of npes, the largest first, to the      *)
(* dimensions.  Each goes where the fewest elements are left over, as a    *)
(* fraction of the dimension; 11/10 stands for a dimension that is         *)
(* too short.  The dimension tried first moves on by one each time.        *)
IsPrime(p) == p > 1 /\ \A q \in 2..(p - 1) : p % q # 0

PrimeDivisors(n) ==
  LET primes == {p \in 2..n : IsPrime(p) /\ n % p = 0}
      Times(p) == Cardinality({k \in 1..n : n % (p ^ k) = 0})
  IN FoldLeft(\o, <<>>,
       [i \in 1..Cardinality(primes) |->
          LET p == CHOOSE x \in primes :
                     Cardinality({y \in primes : y > x}) = i - 1
          IN [k \in 1..Times(p) |-> p]])

LeftOver(extent, procs) ==
  IF extent < procs THEN <<11, 10>> ELSE <<extent % procs, extent>>

Fewer(q, r) == q[1] * r[2] < r[1] * q[2]

Deal(tard, pedims, istart, p) ==
  LET n == Len(tard)
      Look(j) == ((istart + j) % n) + 1
      q(j) == LeftOver(tard[Look(j)], p * pedims[Look(j)])
      best == CHOOSE j \in 0..(n - 1) :
                /\ \A k \in 0..(n - 1) : ~ Fewer(q(k), q(j))
                /\ \A k \in 0..(j - 1) : Fewer(q(j), q(k))
  IN [pedims EXCEPT ![Look(best)] = @ * p]

ddb_h2(tard, npes) ==
  LET primes == PrimeDivisors(npes)
  IN FoldLeft(LAMBDA pe, k : Deal(tard, pe, (k - 1) % Len(tard), primes[k]),
              Each(Len(tard), LAMBDA d : 1), [k \in 1..Len(primes) |-> k])

(* The starts of the blocks of one dimension: the first pcut of the pe     *)
(* processes get blk units, the rest one unit less, until the dimension is *)
(* used up.  A unit is a chunk of the size asked for, or one element.      *)
Unit(chunk, dim) == IF chunk > 1 THEN Lesser(chunk, dim) ELSE 1

Pcut(dim, unit, blk, pe) == CeilDiv(dim, unit) - (blk - 1) * pe

(* Bug variant: a block may start just behind the dimension.               *)
MapDimensionLong(dim, chunk, blk, pe) ==
  LET unit == Unit(chunk, dim)
      pcut == Pcut(dim, unit, blk, pe)
      first(p) == IF p <= pcut THEN p * blk
                  ELSE IF pcut <= 0 THEN p * (blk - 1)
                  ELSE pcut * blk + (p - pcut) * (blk - 1)
      used == {p \in 0..(pe - 1) : first(p) * unit <= dim}
  IN [i \in 1..Cardinality(used) |-> first(i - 1) * unit + 1]

MapDimension(dim, chunk, blk, pe) ==
  LET unit == Unit(chunk, dim)
      pcut == Pcut(dim, unit, blk, pe)
      first(p) == IF p <= pcut THEN p * blk
                  ELSE IF pcut <= 0 THEN p * (blk - 1)
                  ELSE pcut * blk + (p - pcut) * (blk - 1)
      used == {p \in 0..(pe - 1) : first(p) * unit < dim}
  IN [i \in 1..Cardinality(used) |-> first(i - 1) * unit + 1]

(* chunk[1] = 0 asks for no granularity in any dimension. *)
Granule(dims, chunk, d) ==
  IF dims[d] = 1 \/ chunk[1] = 0 \/ chunk[d] < 1 THEN 1
  ELSE Lesser(chunk[d], dims[d])

DefaultMap(dims, chunk, npes) ==
  LET n == Len(dims)
      tard == Each(n, LAMBDA d : CeilDiv(dims[d], Granule(dims, chunk, d)))
      pe == ddb_h2(tard, npes)
  IN Each(n, LAMBDA d :
        MapDimension(dims[d], chunk[d], CeilDiv(tard[d], pe[d]), pe[d]))

(***************************************************************************)
(* Descriptors, as the calls that set up an array leave them.              *)
(***************************************************************************)
Regular(dims, map, width, nproc, rstrctd) ==
  [type |-> "REGULAR", dims |-> dims, mapc |-> map, width |-> width,
   nblock |-> Each(Len(dims), LAMBDA d : Len(map[d])),
   nproc |-> nproc, rstrctd |-> rstrctd]

(* No distribution given: pnga_allocate makes one for the holders. *)
Default(dims, chunk, nproc, rstrctd) ==
  Regular(dims,
          DefaultMap(dims, chunk,
                     IF rstrctd = <<>> THEN nproc ELSE Len(rstrctd)),
          Each(Len(dims), LAMBDA d : 0), nproc, rstrctd)

(* pnga_set_block_cyclic. *)
BlockCyclic(dims, bdims, nproc) ==
  [type |-> "BLOCK_CYCLIC", dims |-> dims, block_dims |-> bdims,
   num_blocks |-> Each(Len(dims), LAMBDA d : CeilDiv(dims[d], bdims[d])),
   nproc |-> nproc, rstrctd |-> <<>>]

(* pnga_set_block_cyclic_proc_grid and pnga_set_tiled_proc_grid; that the  *)
(* grid has as many places as there are processes is checked when the      *)
(* array is allocated.                                                     *)
ProcGrid(type, dims, bdims, grid) ==
  [type |-> type, dims |-> dims, block_dims |-> bdims,
   num_blocks |-> Each(Len(dims), LAMBDA d : CeilDiv(dims[d], bdims[d])),
   nblock |-> grid, nproc |-> Product(grid), rstrctd |-> <<>>]

(* pnga_set_tiled_irreg_proc_grid. *)
TiledIrreg(dims, map, grid) ==
  [type |-> "TILED_IRREG", dims |-> dims, mapc |-> map,
   num_blocks |-> Each(Len(dims), LAMBDA d : Len(map[d])),
   nblock |-> grid, nproc |-> Product(grid), rstrctd |-> <<>>]

(***************************************************************************)
(* pnga_allocate: the elements process p allocates.                        *)
(***************************************************************************)
Total(S, f(_)) == MapThenSumSet(f, S)

(* The blocks along dimension d of the process at pos in the grid. *)
HeldIndices(A, pos, d) ==
  {j \in 0..(A.num_blocks[d] - 1) : j % A.nblock[d] = pos[d]}

(* The length of the j-th block along dimension d. *)
BlockLength(A, d, j) ==
  LET b == BlockBounds(A, Each(Len(A.dims), LAMBDA e : IF e = d THEN j ELSE 0))
  IN b.hi[d] - b.lo[d] + 1

AllocatedSize(A, p) ==
  CASE A.type = "REGULAR" ->
         LET b == Owns(A, RankRstrctd(A, p))
         IN IF A.rstrctd # <<>> /\ RankRstrctd(A, p) = -1 THEN 0
            ELSE Product(Each(Len(A.dims), LAMBDA d :
                            b.hi[d] - b.lo[d] + 1 + 2 * A.width[d]))
    [] A.type = "BLOCK_CYCLIC" ->
         LET size(b) == Size(Owns(A, b))
         IN Total({b \in 0..(BlockTotal(A) - 1) : b % A.nproc = p}, size)
    [] OTHER ->
         LET pos == FindIndices(p, A.nblock)
         IN Product(Each(Len(A.dims), LAMBDA d :
              LET len(j) == BlockLength(A, d, j)
              IN Total(HeldIndices(A, pos, d), len)))

(***************************************************************************)
(* The layout every path to the data has to agree on: for each element the *)
(* process that holds it and its place in that process's memory, written   *)
(* down without the short cuts of the code.  A process stores              *)
(*   REGULAR    its one block, ghost cells around it, first index fastest; *)
(*   SCALAPACK  all its elements as one array, first index fastest;        *)
(*   otherwise  its blocks one after the other in the order of the blocks, *)
(*              each with its first index fastest.                         *)
(***************************************************************************)
Elements(A) ==
  IF Len(A.dims) = 1 THEN {<<i>> : i \in 1..A.dims[1]}
  ELSE {<<i, j>> : i \in 1..A.dims[1], j \in 1..A.dims[2]}

Within(s, b) == \A d \in 1..Len(s) : b.lo[d] <= s[d] /\ s[d] <= b.hi[d]

Minus(s, t) == Each(Len(s), LAMBDA d : s[d] - t[d])

HomeBlock(A, s) ==
  CHOOSE b \in 0..((IF A.type = "REGULAR" THEN Product(A.nblock)
                    ELSE BlockTotal(A)) - 1) : Within(s, Owns(A, b))

BlockHolder(A, b) ==
  IF A.type = "REGULAR" THEN Holder(A, b)
  ELSE IF A.type = "BLOCK_CYCLIC" THEN b % A.nproc
  ELSE ComputeIndex(Each(Len(A.dims), LAMBDA d :
                       FindIndices(b, A.num_blocks)[d] % A.nblock[d]),
                    A.nblock)

Address(A, s) ==
  LET b == HomeBlock(A, s)
      box == Owns(A, b)
      at == ComputeIndex(Minus(s, box.lo), Extents(box.lo, box.hi))
      size(c) == Size(Owns(A, c))
      Mine(d, t) == (((t - 1) \div A.block_dims[d]) % A.nblock[d])
                      = (((s[d] - 1) \div A.block_dims[d]) % A.nblock[d])
  IN <<BlockHolder(A, b),
       CASE A.type = "REGULAR" ->
              ComputeIndex(
                Each(Len(A.dims), LAMBDA d : s[d] - box.lo[d] + A.width[d]),
                Each(Len(A.dims), LAMBDA d :
                       box.hi[d] - box.lo[d] + 1 + 2 * A.width[d]))
         [] A.type = "SCALAPACK" ->
              ComputeIndex(
                Each(Len(A.dims), LAMBDA d :
                   Cardinality({t \in 1..(s[d] - 1) : Mine(d, t)})),
                Each(Len(A.dims), LAMBDA d :
                   Cardinality({t \in 1..A.dims[d] : Mine(d, t)})))
         [] OTHER ->
              at + Total({c \in 0..(b - 1) :
                            BlockHolder(A, c) = BlockHolder(A, b)}, size)>>
=============================================================================
