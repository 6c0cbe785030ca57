----------------------------- MODULE GaIterator -----------------------------
(***************************************************************************)
(* The iterators of global/src/iterator.c, which every put, get and        *)
(* accumulate (gai_iterator_...) and every collective operation on local   *)
(* data (pnga_local_iterator_...) uses to walk over the pieces of a patch, *)
(* and the three kinds of caller:                                          *)
(*                                                                         *)
(*   common   ngai_put_common, ngai_get_common, ngai_acc_common: two       *)
(*            passes, each after a reset, the first for the processes on   *)
(*            other nodes and the second for the ones on this node;        *)
(*   strided  pnga_strided_put, _get, _acc: one pass, no reset;            *)
(*   local    each process walks over the blocks it holds.                 *)
(*                                                                         *)
(* The loop inside gai_iterator_next that passes over blocks outside the   *)
(* patch is one action per block.  MAX_INT_VALUE is a limit on the         *)
(* elements of a piece.                                                    *)
(***************************************************************************)
EXTENDS GaDistribution

CONSTANTS
  Jobs,          \* what may be asked: [op, array, lo, hi, me, smp]
  MaxElems,      \* the largest piece the transport takes
  Garbage        \* values an uninitialized offset may have

VARIABLES
  job,           \* the operation under way, never changed
  store,         \* the array's memory: where each element is, and its size
  pc,            \* init, reset, next, done, aborted
  loop,          \* the pass (common) or the process (local)
  h,             \* the iterator's handle
  piece,         \* the piece handed out last
  moved          \* element -> how often it was transferred

vars == <<job, store, pc, loop, h, piece, moved>>

A == job.array
last == Len(A.dims)

NoPiece == [proc |-> -1]

Patch == [lo |-> job.lo, hi |-> job.hi]

(* The places of a piece's elements: off is the place of its lower corner, *)
(* ld the physical extents of all dimensions but the last.                 *)
PlaceIn(p, s) == p.off + ComputeIndex(Minus(s, p.lo), p.ld \o <<0>>)

Transfer(p) ==
  moved' = [s \in DOMAIN moved |->
              IF Within(s, p) THEN moved[s] + 1 ELSE moved[s]]

(* gam_GetBlockPatch *)
GetBlockPatch(b) ==
  LET Inside(x, d) == b.lo[d] <= x /\ x <= b.hi[d]
  IN [lo |-> Each(last, LAMBDA d :
               IF Inside(job.lo[d], d) THEN job.lo[d] ELSE b.lo[d]),
      hi |-> Each(last, LAMBDA d :
               IF Inside(job.hi[d], d) THEN job.hi[d] ELSE b.hi[d])]

(* Bug variant: a patch that lies inside a block is not noticed.           *)
OverlapsByEnds(b) ==
  \A d \in Dim(A) :
    \/ b.lo[d] >= job.lo[d] /\ b.lo[d] <= job.hi[d]
    \/ b.hi[d] >= job.lo[d] /\ b.hi[d] <= job.hi[d]

(* The test of iterator.c that a block overlaps the patch: in every        *)
(* dimension an end of the block is in the patch or the patch is in the    *)
(* block.                                                                  *)
Overlaps(b) ==
  \A d \in Dim(A) :
    \/ b.lo[d] >= job.lo[d] /\ b.lo[d] <= job.hi[d]
    \/ b.hi[d] >= job.lo[d] /\ b.hi[d] <= job.hi[d]
    \/ job.lo[d] >= b.lo[d] /\ job.hi[d] <= b.hi[d]

\* A caller with two passes moves the pieces of the other nodes first.
Wanted(proc) ==
  job.op = "common" => ((loop = 0) <=> (proc \notin job.smp))

Hand(p) ==
  /\ piece' = p
  /\ IF Wanted(p.proc) THEN Transfer(p) ELSE UNCHANGED moved

(***************************************************************************)
(* gai_iterator_init and gai_iterator_reset.                               *)
(***************************************************************************)
(* pnga_locate_region for a REGULAR array: the ranks whose blocks lie      *)
(* between the blocks of the two corners of the patch.  below is the       *)
(* rounding in findblock.                                                  *)
BlockOf(d, elem, below) ==
  LET n == A.nblock[d]
      cands == Candidates(n, A.dims[d], elem)
  IN FindBlock(A.mapc[d], n,
               CHOOSE x \in cands :
                 \A y \in cands : IF below THEN x <= y ELSE x >= y, elem)

LocateRegion(t, b) ==
  {r \in 0..(Product(A.nblock) - 1) :
     \A d \in Dim(A) :
       FindIndices(r, A.nblock)[d]
         \in BlockOf(d, job.lo[d], t)..BlockOf(d, job.hi[d], b)}

(* gaPermuteProcList puts the processes of the region in a random order,   *)
(* so the next one is any that is left.  While a block that is too large   *)
(* is handed out in parts, at is its rank.                                 *)
StartRegular ==
  \E region \in {LocateRegion(t, b) : t \in BOOLEAN, b \in BOOLEAN} :
    h' = [region |-> region, left |-> region, at |-> -1,
          blk_size |-> <<>>, blk_inc |-> <<>>]

AtProc(iproc) ==
  [iproc |-> iproc, offset |-> 0,
   proc_index |-> FindIndices(iproc, A.nblock),
   index |-> FindIndices(iproc, A.nblock)]

gai_iterator_init ==
  /\ pc = "init" /\ job.op # "local"
  /\ pc' = IF job.op = "common" THEN "reset" ELSE "next"
  /\ CASE A.type = "REGULAR" -> StartRegular
       [] A.type = "BLOCK_CYCLIC" ->
            \E g \in Garbage :
              h' = [iproc |-> 0, iblock |-> job.me, offset |-> g]
       [] OTHER -> h' = AtProc(0)
  /\ UNCHANGED <<job, store, loop, piece, moved>>

gai_iterator_reset ==
  /\ pc = "reset"
  /\ pc' = "next"
  /\ h' = CASE A.type = "REGULAR" -> [h EXCEPT !.left = h.region]
            [] A.type = "BLOCK_CYCLIC" ->
                 [iproc |-> 0, iblock |-> 0, offset |-> 0]
            [] OTHER -> AtProc(0)
  /\ UNCHANGED <<job, store, loop, piece, moved>>

(***************************************************************************)
(* gai_iterator_next, REGULAR.                                             *)
(***************************************************************************)
PartOf(r) ==
  LET b == Owns(A, r)
  IN [lo |-> Each(last, LAMBDA d :
               IF job.lo[d] < b.lo[d] THEN b.lo[d] ELSE job.lo[d]),
      hi |-> Each(last, LAMBDA d :
               IF job.hi[d] > b.hi[d] THEN b.hi[d] ELSE job.hi[d])]

Empty(b) == \E d \in Dim(A) : b.hi[d] < b.lo[d]

(* The longest dimension is halved until the piece is small enough.        *)
(* maxint is not reset, so it is the same dimension each time.             *)
SplitSize(b) ==
  LET ext == Extents(b.lo, b.hi)
      d == CHOOSE x \in Dim(A) : /\ \A y \in Dim(A) : ext[x] >= ext[y]
                                 /\ \A y \in 1..(x - 1) : ext[x] > ext[y]
      fits == {k \in 0..ext[d] : Product([ext EXCEPT ![d] = @ \div (2 ^ k)])
                                   <= MaxElems}
      k == CHOOSE x \in fits : \A y \in fits : x <= y
  IN [ext EXCEPT ![d] = @ \div (2 ^ k)]

Oversize == h.at # -1

BlkDim(b, size) ==
  Each(last, LAMBDA d : CeilDiv(b.hi[d] - b.lo[d] + 1, size[d]))

SubBlock(b, size, inc) ==
  [lo |-> Each(last, LAMBDA d : b.lo[d] + inc[d] * size[d]),
   hi |-> Each(last, LAMBDA d :
            Lesser(b.lo[d] + (inc[d] + 1) * size[d] - 1, b.hi[d]))]

(* Odometer over the sub-blocks. *)
Carry(inc, size) ==
  LET up == [inc EXCEPT ![1] = @ + 1]
  IN IF last = 2 /\ up[1] >= size[1] THEN <<0, up[2] + 1>> ELSE up

(* gam_Location *)
Location(r, s) ==
  LET box == Owns(A, r)
      ld == Each(last, LAMBDA d : box.hi[d] - box.lo[d] + 1 + 2 * A.width[d])
      at == Each(last, LAMBDA d : s[d] - box.lo[d] + A.width[d])
  IN [off |-> ComputeIndex(at, ld),
      ld |-> SubSeq(ld, 1, last - 1)]

(* Some processes of an irregular distribution have no data. *)
NextRegularEmpty ==
  /\ pc = "next" /\ A.type = "REGULAR" /\ job.op # "local"
  /\ ~ Oversize
  /\ \E r \in h.left :
       /\ Empty(PartOf(r))
       /\ h' = [h EXCEPT !.left = @ \ {r}]
  /\ UNCHANGED <<job, store, pc, loop, piece, moved>>

NextRegular ==
  /\ pc = "next" /\ A.type = "REGULAR" /\ job.op # "local"
  /\ \E r \in IF Oversize THEN {h.at} ELSE h.left :
       LET b == PartOf(r)
           split == Oversize \/ Size(b) > MaxElems
           size == IF Oversize THEN h.blk_size ELSE SplitSize(b)
           inc == IF Oversize THEN h.blk_inc ELSE Each(last, LAMBDA d : 0)
           sub == IF split THEN SubBlock(b, size, inc) ELSE b
           loc == Location(r, sub.lo)
           num == BlkDim(b, size)
           next == Carry(inc, num)
       IN /\ ~ Empty(b)
          /\ Hand([proc |-> Holder(A, r), lo |-> sub.lo, hi |-> sub.hi,
                   off |-> loc.off, ld |-> loc.ld])
          /\ h' = IF split /\ next[last] < num[last]
                  THEN [h EXCEPT !.at = r, !.blk_size = size, !.blk_inc = next]
                  ELSE [h EXCEPT !.at = -1, !.left = @ \ {r},
                                 !.blk_size = <<>>, !.blk_inc = <<>>]
  /\ UNCHANGED <<job, store, pc, loop>>

(***************************************************************************)
(* gai_iterator_next, BLOCK_CYCLIC: the blocks of process iproc are iproc, *)
(* iproc + nnodes, ...; offset is where the current one starts in its      *)
(* memory.                                                                 *)
(***************************************************************************)
BlockOffset == IF h.iblock = h.iproc THEN 0 ELSE h.offset

NextCyclicBlock(b) ==
  h' = IF h.iblock + A.nproc >= BlockTotal(A)
       THEN [iproc |-> h.iproc + 1, iblock |-> h.iproc + 1, offset |-> 0]
       ELSE [iproc |-> h.iproc, iblock |-> h.iblock + A.nproc,
             offset |-> BlockOffset + Size(b)]

(* Bug variant: the block is taken for the process.                        *)
CyclicProcUnwrapped == h.iblock

CyclicProc == h.iblock % NumHolders(A)

InBlock(b, clo) == ComputeIndex(Minus(clo, b.lo), Extents(b.lo, b.hi))

NextCyclicSkip ==
  /\ pc = "next" /\ A.type = "BLOCK_CYCLIC" /\ job.op # "local"
  /\ h.iproc < NumHolders(A)
  /\ LET b == Owns(A, h.iblock)
     IN /\ ~ Overlaps(b)
        /\ NextCyclicBlock(b)
  /\ UNCHANGED <<job, store, pc, loop, piece, moved>>

NextCyclic ==
  /\ pc = "next" /\ A.type = "BLOCK_CYCLIC" /\ job.op # "local"
  /\ h.iproc < NumHolders(A)
  /\ LET b == Owns(A, h.iblock)
         c == GetBlockPatch(b)
     IN /\ Overlaps(b)
        /\ Hand([proc |-> CyclicProc, lo |-> c.lo, hi |-> c.hi,
                 off |-> BlockOffset + InBlock(b, c.lo),
                 ld |-> SubSeq(Extents(b.lo, b.hi), 1, last - 1)])
        /\ NextCyclicBlock(b)
  /\ UNCHANGED <<job, store, pc, loop>>

(***************************************************************************)
(* gai_iterator_next, SCALAPACK, TILED and TILED_IRREG: index runs over    *)
(* the blocks of process iproc, whose place in the grid is proc_index.     *)
(***************************************************************************)
Grid == {"SCALAPACK", "TILED", "TILED_IRREG"}

(* The index of the process's next block; past the end in the last         *)
(* dimension when it has none.                                             *)
Advance(index, proc_index) ==
  LET up == [index EXCEPT ![1] = @ + A.nblock[1]]
  IN IF last = 2 /\ up[1] >= A.num_blocks[1]
     THEN <<proc_index[1], up[2] + A.nblock[2]>> ELSE up

NextGridBlock(b) ==
  LET next == Advance(h.index, h.proc_index)
  IN h' = IF next[last] >= A.num_blocks[last] THEN AtProc(h.iproc + 1)
          ELSE [h EXCEPT !.index = next, !.offset = @ + Size(b)]

(* Bug variant: the process with the incomplete block counts a full one.   *)
ScaLDRounded(proc_index, d) ==
  LET blk_dim == A.block_dims[d] * A.nblock[d]
      blk_num == A.dims[d] \div blk_dim
      blk_inc == A.dims[d] - blk_num * blk_dim
  IN blk_num * A.block_dims[d]
       + (IF proc_index[d] * A.block_dims[d] < blk_inc THEN A.block_dims[d]
          ELSE 0)

(* The length of dimension d in the memory of the process: whole repeats   *)
(* of the grid, and what it has of the incomplete one.                     *)
ScaLD(proc_index, d) ==
  LET blk_dim == A.block_dims[d] * A.nblock[d]
      blk_num == A.dims[d] \div blk_dim
      blk_inc == A.dims[d] - blk_num * blk_dim
      hlf_blk == blk_inc \div A.block_dims[d]
  IN blk_num * A.block_dims[d]
       + (IF blk_inc = 0 THEN A.dims[d] % A.block_dims[d]
          ELSE IF proc_index[d] < hlf_blk THEN A.block_dims[d]
          ELSE IF proc_index[d] = hlf_blk THEN blk_inc % A.block_dims[d]
          ELSE 0)

ScaOffset(b, clo, ld) ==
  ComputeIndex(Each(last, LAMBDA d :
                  clo[d] - b.lo[d]
                    + ((b.lo[d] - 1) \div (A.block_dims[d] * A.nblock[d]))
                        * A.block_dims[d]),
               ld \o <<0>>)

GridPiece(b, c) ==
  LET ld == IF A.type = "SCALAPACK"
            THEN Each(last - 1, LAMBDA d : ScaLD(h.proc_index, d))
            ELSE SubSeq(Extents(b.lo, b.hi), 1, last - 1)
  IN [proc |-> Holder(A, h.iproc), lo |-> c.lo, hi |-> c.hi, ld |-> ld,
      off |-> IF A.type = "SCALAPACK" THEN ScaOffset(b, c.lo, ld)
              ELSE h.offset + InBlock(b, c.lo)]

NextGridSkip ==
  /\ pc = "next" /\ A.type \in Grid /\ job.op # "local"
  /\ h.iproc < NumHolders(A)
  /\ LET b == BlockBounds(A, h.index)
     IN /\ ~ Overlaps(b)
        /\ NextGridBlock(b)
  /\ UNCHANGED <<job, store, pc, loop, piece, moved>>

NextGrid ==
  /\ pc = "next" /\ A.type \in Grid /\ job.op # "local"
  /\ h.iproc < NumHolders(A)
  /\ LET b == BlockBounds(A, h.index)
     IN /\ Overlaps(b)
        /\ Hand(GridPiece(b, GetBlockPatch(b)))
        /\ NextGridBlock(b)
  /\ UNCHANGED <<job, store, pc, loop>>

(* gai_iterator_next returns 0: the caller's pass is over. *)
PassEnds ==
  /\ pc = "next" /\ job.op # "local"
  /\ IF A.type = "REGULAR" THEN h.left = {}
     ELSE h.iproc >= NumHolders(A)
  /\ IF job.op = "common" /\ loop = 0 THEN pc' = "reset" /\ loop' = 1
     ELSE pc' = "done" /\ UNCHANGED loop
  /\ UNCHANGED <<job, store, h, piece, moved>>

(***************************************************************************)
(* pnga_local_iterator_init and pnga_local_iterator_next; loop is the      *)
(* process.                                                                *)
(***************************************************************************)
pnga_local_iterator_init ==
  /\ pc = "init" /\ job.op = "local"
  /\ pc' = "next"
  /\ h' = CASE A.type = "REGULAR" -> [count |-> 0]
            [] A.type = "BLOCK_CYCLIC" -> [count |-> loop]
            [] OTHER -> AtProc(loop)
  /\ UNCHANGED <<job, store, loop, piece, moved>>

(* pnga_access_block_ptr, BLOCK_CYCLIC: the sizes of the blocks of the     *)
(* process before this one.                                                *)
AccessCyclic(i) ==
  LET size(c) == Size(Owns(A, c))
  IN Total({c \in 0..(i - 1) : c % A.nproc = i % A.nproc}, size)

(* pnga_access_block_grid_ptr, TILED: block_idx is the position of the     *)
(* block among the process's blocks, ldim how many there are, lld the      *)
(* elements in them.                                                       *)
TiledIdx(index, pos, d) == (index[d] - pos[d] + 1) \div A.nblock[d]

TiledCount(pos, d) == (A.num_blocks[d] - pos[d] + 1) \div A.nblock[d]

TiledLLD(pos, d) ==
  LET ldim == TiledCount(pos, d)
      part == A.dims[d] % A.block_dims[d]
  IN IF (A.num_blocks[d] - pos[d] + 1) % A.nblock[d] = 0 /\ part # 0
     THEN (ldim - 1) * A.block_dims[d] + part
     ELSE ldim * A.block_dims[d]

AccessTiled(index, pos) ==
  LET b == BlockBounds(A, index)
      factor(i) ==
        Product(Each(last, LAMBDA j :
          IF j < i THEN TiledLLD(pos, j)
          ELSE IF j > i /\ TiledIdx(index, pos, j) = TiledCount(pos, j) - 1
               THEN b.hi[j] - b.lo[j] + 1
               ELSE A.block_dims[j]))
      term(i) == TiledIdx(index, pos, i) * factor(i)
  IN Total(Dim(A), term)

(* TILED_IRREG: lld the elements of the process's blocks, ldidx of the     *)
(* ones before this.                                                       *)
IrregSum(pos, d, below) ==
  LET len(j) == BlockLength(A, d, j)
  IN Total({j \in HeldIndices(A, pos, d) : j < below}, len)

AccessIrreg(index, pos) ==
  LET b == BlockBounds(A, index)
      term(i) == Product(Each(last, LAMBDA j :
                   IF j < i THEN IrregSum(pos, j, A.num_blocks[j])
                   ELSE IF j = i THEN IrregSum(pos, i, index[i])
                   ELSE b.hi[j] - b.lo[j] + 1))
  IN Total(Dim(A), term)

(* SCALAPACK *)
AccessSca(index, pos) ==
  ComputeIndex(Each(last, LAMBDA d : ((index[d] - pos[d]) \div A.nblock[d])
                                       * A.block_dims[d]),
               Each(last - 1, LAMBDA d : ScaLD(pos, d)) \o <<0>>)

AccessGrid(index) ==
  LET pos == Each(last, LAMBDA d : index[d] % A.nblock[d])
      b == BlockBounds(A, index)
  IN [proc |-> ComputeIndex(pos, A.nblock), lo |-> b.lo, hi |-> b.hi,
      off |-> CASE A.type = "TILED" -> AccessTiled(index, pos)
                [] A.type = "TILED_IRREG" -> AccessIrreg(index, pos)
                [] OTHER -> AccessSca(index, pos),
      ld |-> IF A.type = "SCALAPACK"
             THEN Each(last - 1, LAMBDA d : ScaLD(pos, d))
             ELSE SubSeq(Extents(b.lo, b.hi), 1, last - 1)]

LocalRegular ==
  /\ pc = "next" /\ job.op = "local" /\ A.type = "REGULAR" /\ h.count = 0
  /\ LET r == RankRstrctd(A, loop)
         b == Owns(A, r)
     IN /\ ~ Empty(b)
        /\ Hand([proc |-> loop, lo |-> b.lo, hi |-> b.hi,
                 off |-> Location(r, b.lo).off, ld |-> Location(r, b.lo).ld])
  /\ h' = [count |-> 1]
  /\ UNCHANGED <<job, store, pc, loop>>

LocalCyclic ==
  /\ pc = "next" /\ job.op = "local" /\ A.type = "BLOCK_CYCLIC"
  /\ h.count < BlockTotal(A)
  /\ LET b == Owns(A, h.count)
     IN Hand([proc |-> h.count % A.nproc, lo |-> b.lo, hi |-> b.hi,
              off |-> AccessCyclic(h.count),
              ld |-> SubSeq(Extents(b.lo, b.hi), 1, last - 1)])
  /\ h' = [count |-> h.count + A.nproc]
  /\ UNCHANGED <<job, store, pc, loop>>

LocalGrid ==
  /\ pc = "next" /\ job.op = "local" /\ A.type \in Grid
  /\ h.index[last] < A.num_blocks[last]
  /\ \A d \in Dim(A) : h.index[d] < A.num_blocks[d]
  /\ Hand(AccessGrid(h.index))
  /\ h' = [h EXCEPT !.index = Advance(h.index, h.proc_index)]
  /\ UNCHANGED <<job, store, pc, loop>>

(* pnga_access_block_grid_ptr stops the program for a block outside the    *)
(* array: a process of a grid with more rows than there are rows of blocks.*)
LocalAbort ==
  /\ pc = "next" /\ job.op = "local" /\ A.type \in Grid
  /\ h.index[last] < A.num_blocks[last]
  /\ \E d \in Dim(A) : h.index[d] >= A.num_blocks[d]
  /\ pc' = "aborted"
  /\ UNCHANGED <<job, store, loop, h, piece, moved>>

LocalEnds ==
  /\ pc = "next" /\ job.op = "local"
  /\ CASE A.type = "REGULAR" ->
            h.count > 0 \/ Empty(Owns(A, RankRstrctd(A, loop)))
       [] A.type = "BLOCK_CYCLIC" -> h.count >= BlockTotal(A)
       [] OTHER -> h.index[last] >= A.num_blocks[last]
  /\ IF loop + 1 < A.nproc THEN pc' = "init" /\ loop' = loop + 1
     ELSE pc' = "done" /\ UNCHANGED loop
  /\ UNCHANGED <<job, store, h, piece, moved>>

(***************************************************************************)
(* Specification.                                                          *)
(***************************************************************************)
Init ==
  /\ job \in Jobs
  /\ pc = "init" /\ loop = 0
  /\ h = [count |-> 0]
  /\ piece = NoPiece
  /\ moved = [s \in Elements(A) |-> 0]
  /\ store = [home |-> [s \in Elements(A) |-> Address(A, s)],
              size |-> [p \in 0..(A.nproc - 1) |-> AllocatedSize(A, p)]]

(* The operation is over, or pnga_error has stopped the program. *)
Finished == pc \in {"done", "aborted"} /\ UNCHANGED vars

Next ==
  \/ gai_iterator_init \/ gai_iterator_reset
  \/ NextRegularEmpty \/ NextRegular
  \/ NextCyclicSkip \/ NextCyclic
  \/ NextGridSkip \/ NextGrid
  \/ PassEnds
  \/ pnga_local_iterator_init
  \/ LocalRegular \/ LocalCyclic \/ LocalGrid \/ LocalAbort \/ LocalEnds
  \/ Finished

Spec == Init /\ [][Next]_vars

(***************************************************************************)
(* Properties.                                                             *)
(***************************************************************************)
(* The variables have the shapes the code gives them. *)
TypeOK ==
  /\ job.op \in {"common", "strided", "local"}
  /\ pc \in {"init", "reset", "next", "done", "aborted"}
  /\ loop \in 0..(A.nproc + 1)
  /\ moved \in [DOMAIN store.home -> Nat]
  /\ piece # NoPiece => piece.proc \in 0..(A.nproc - 1)

(* A piece that an iterator hands out has at least one element in every    *)
(* dimension and none outside the patch (gai_iterator_next skips the       *)
(* blocks that do not overlap it).                                         *)
PiecesInPatch ==
  piece # NoPiece =>
    \A d \in Dim(A) : /\ piece.lo[d] <= piece.hi[d]
                      /\ job.lo[d] <= piece.lo[d] /\ piece.hi[d] <= job.hi[d]

(* Every path to the data computes the same place for it: the process, the *)
(* pointer and the strides that an iterator hands out lead, for every      *)
(* element of the piece, to where the layout puts that element.            *)
PiecesInPlace ==
  piece # NoPiece =>
    \A s \in DOMAIN moved :
      Within(s, piece) => <<piece.proc, PlaceIn(piece, s)>> = store.home[s]

(* What an iterator hands out lies in the memory that pnga_allocate        *)
(* reserved on that process.                                               *)
PiecesInMemory ==
  piece # NoPiece =>
    \A s \in DOMAIN moved :
      Within(s, piece) => PlaceIn(piece, s) < store.size[piece.proc]

(* A piece is a part of the patch, in the place and in the memory it has.  *)
PiecesSound == PiecesInPatch /\ PiecesInPlace /\ PiecesInMemory

(* No element is ever transferred twice, and when the operation is over    *)
(* every element of the patch was transferred and no other: no block is    *)
(* missed by the walk, none is visited under two processes, in neither     *)
(* pass, whatever the order of the processes and the rounding of the       *)
(* search for the corners.                                                 *)
EachElementOnce ==
  \A s \in DOMAIN moved :
    /\ moved[s] <= 1
    /\ pc = "done" => moved[s] = IF Within(s, Patch) THEN 1 ELSE 0

(* The default distribution respects the granularity asked for: all blocks *)
(* of a dimension but the last are at least a chunk long, the blocks cover *)
(* the dimension in order, and there are no more of them than processes.   *)
DefaultMapSound ==
  A.type = "REGULAR" /\ job.chunk # <<>> =>
    /\ Product(A.nblock) <= NumHolders(A)
    /\ \A d \in Dim(A) :
         /\ A.mapc[d][1] = 1
         /\ \A i \in 2..Len(A.mapc[d]) :
              A.mapc[d][i] - A.mapc[d][i - 1] >= Unit(job.chunk[d], A.dims[d])
         /\ A.mapc[d][Len(A.mapc[d])] <= A.dims[d]
=============================================================================
