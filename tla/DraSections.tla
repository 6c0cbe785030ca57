---------------------------- MODULE DraSections ----------------------------
(***************************************************************************)
(* How a section of a disk resident array is cut up for transfer, and      *)
(* where the pieces are in the files (pario/dra/disk.arrays.c).  An array  *)
(* A is stored in chunks:                                                  *)
(*                                                                         *)
(*   dims     the extent of each dimension; subscripts start at 1          *)
(*   chunk    the extents of a chunk                                       *)
(*   ioprocs  the number of processes that do its I/O                      *)
(*   files    whether each of them has a file of its own                   *)
(*                                                                         *)
(* A section is a record of lowest and highest subscripts, lo and hi.      *)
(***************************************************************************)
EXTENDS Integers, Sequences, FiniteSets, SequencesExt, FiniteSetsExt

Dim(A) == 1..Len(A.dims)
Last1(A) == Len(A.dims)

Lesser(a, b) == IF a <= b THEN a ELSE b
Greater(a, b) == IF a >= b THEN a ELSE b

Product(f) == FoldLeft(LAMBDA a, b : a * b, 1, f)

Elements(s) ==
  {e \in [DOMAIN s.lo -> Min(ToSet(s.lo))..Max(ToSet(s.hi))] :
     \A i \in DOMAIN s.lo : s.lo[i] <= e[i] /\ e[i] <= s.hi[i]}

(***************************************************************************)
(* Decomposition.                                                          *)
(***************************************************************************)
OffLow(A, s, i) == (s.lo[i] - 1) % A.chunk[i]
OffHi(A, s, i) == s.hi[i] % A.chunk[i]

\* In one dimension, the chunks that s touches and the chunks inside s.
CoverLo(A, s, i) == s.lo[i] - OffLow(A, s, i)
CoverHi(A, s, i) ==
  IF OffHi(A, s, i) = 0 THEN s.hi[i]
  ELSE Lesser((s.hi[i] \div A.chunk[i] + 1) * A.chunk[i], A.dims[i])
AlignedLo(A, s, i) ==
  IF OffLow(A, s, i) = 0 THEN s.lo[i] ELSE CoverLo(A, s, i) + A.chunk[i]
AlignedHi(A, s, i) == s.hi[i] - OffHi(A, s, i)

\* A section with bounds Lo and Hi in all but the last dimension, where it
\* is as wide as s.
Slab(A, s, Lo(_), Hi(_)) ==
  [lo |-> [i \in Dim(A) |-> IF i < Last1(A) THEN Lo(i) ELSE s.lo[i]],
   hi |-> [i \in Dim(A) |-> IF i < Last1(A) THEN Hi(i) ELSE s.hi[i]]]

Aligned(A, s) ==
  Slab(A, s, LAMBDA i : AlignedLo(A, s, i), LAMBDA i : AlignedHi(A, s, i))

HasAligned(A, s) ==
  \A i \in 1..(Last1(A) - 1) : AlignedLo(A, s, i) <= AlignedHi(A, s, i)

(* The section along one side of dimension d that starts in the chunk at   *)
(* first: its cover, a whole number of chunks, and the part of it that is  *)
(* asked for.  Dimensions before d extend over the sides that they have,   *)
(* those after it keep to the aligned section.                             *)
Side(A, s, d, first, from) ==
  LET end == Lesser(first + A.chunk[d] - 1, A.dims[d])
      Lo(i) == CASE i < d -> CoverLo(A, s, i)
                 [] i = d -> first
                 [] i > d -> AlignedLo(A, s, i)
      Hi(i) == CASE i < d -> CoverHi(A, s, i)
                 [] i = d -> end
                 [] i > d -> AlignedHi(A, s, i)
      PartLo(i) == IF i = d THEN from ELSE s.lo[i]
      PartHi(i) == IF i = d THEN Lesser(s.hi[i], end) ELSE s.hi[i]
  IN [cover |-> Slab(A, s, Lo, Hi), part |-> Slab(A, s, PartLo, PartHi)]

LowSide(A, s, d) == Side(A, s, d, CoverLo(A, s, d), s.lo[d])

(* Bug variant: the upper side begins a chunk late when s ends on the last *)
(* subscript.                                                              *)
HighSideLate(A, s, d) ==
  LET first == ((s.hi[d] - 1) \div A.chunk[d]) * A.chunk[d] + 1
  IN Side(A, s, d, first, s.hi[d])

HighSide(A, s, d) ==
  LET first == AlignedHi(A, s, d) + 1 IN Side(A, s, d, first, first)

AddLow(A, s, d, list) ==
  IF OffLow(A, s, d) = 0 THEN list ELSE Append(list, LowSide(A, s, d))

(* The upper side of a dimension is left out when the cover before it in   *)
(* the list reaches as far; the entry in front of the first one is zero.   *)
AddHigh(A, s, d, list) ==
  IF \/ OffHi(A, s, d) = 0
     \/ list # <<>> /\ Last(list).cover.hi[d] >= s.hi[d]
  THEN list ELSE Append(list, HighSide(A, s, d))

(* ndai_decomp_section: the unaligned subsections and their covers. *)
Sides(A, s) ==
  IF ~ HasAligned(A, s)
  THEN <<[cover |-> Slab(A, s, LAMBDA i : CoverLo(A, s, i),
                               LAMBDA i : CoverHi(A, s, i)),
          part |-> s]>>
  ELSE FoldLeft(LAMBDA list, d : AddHigh(A, s, d, AddLow(A, s, d, list)), <<>>,
                [d \in 1..(Last1(A) - 1) |-> d])

(***************************************************************************)
(* The chunks of a cover or an aligned section, one after the other.       *)
(***************************************************************************)
ndai_next(lo, cover, inc) ==
  LET n == Len(lo)
      d == Min({i \in 1..n : lo[i] + inc[i] <= cover.hi[i]} \union {n})
  IN IF \E i \in 1..n : lo[i] = 0 THEN cover.lo
     ELSE [i \in 1..n |-> CASE i < d -> cover.lo[i]
                            [] i = d -> lo[i] + inc[i]
                            [] i > d -> lo[i]]

(* The chunk after the one at lo, or after none when lo is zero.  In the   *)
(* last dimension chunks end on chunk boundaries wherever the cover begins. *)
ndai_next_chunk(A, cover, at) ==
  LET n == Last1(A)
      c == A.chunk[n]
      start == IF at[n] = 0 THEN 0 ELSE ((at[n] - 1) \div c) * c + 1
      Hi(lo, i) == Lesser(cover.hi[i], lo[i] + A.chunk[i] - 1)
      From(lo) ==
        [more |-> lo[n] <= cover.hi[n],
         lo |-> Append(Front(lo), Greater(lo[n], cover.lo[n])),
         hi |-> [i \in Dim(A) |->
                   IF i < n THEN Hi(lo, i)
                   ELSE Lesser(Hi(lo, n), ((lo[n] + c - 1) \div c) * c)]]
  IN From(ndai_next(Append(Front(at), start), cover, A.chunk))

Chunks(A, cover) ==
  LET With(got, c) ==
        [list |-> IF c.more THEN Append(got.list, [lo |-> c.lo, hi |-> c.hi])
                  ELSE got.list,
         at |-> c.lo, more |-> c.more]
      Step(got, k) ==
        IF got.more THEN With(got, ndai_next_chunk(A, cover, got.at)) ELSE got
      most == Product([i \in Dim(A) |-> cover.hi[i] - cover.lo[i] + 1]) + 1
  IN FoldLeft(Step, [list |-> <<>>, at |-> [i \in Dim(A) |-> 0], more |-> TRUE],
              [k \in 1..most |-> k]).list

Intersects(r, s) ==
  \A i \in DOMAIN r.lo : /\ r.lo[i] <= s.hi[i] /\ s.lo[i] <= r.hi[i]
                         /\ r.lo[i] <= r.hi[i] /\ s.lo[i] <= s.hi[i]

dai_section_intersect(r, s) ==
  [lo |-> [i \in DOMAIN r.lo |-> Greater(r.lo[i], s.lo[i])],
   hi |-> [i \in DOMAIN r.lo |-> Lesser(r.hi[i], s.hi[i])]]

(* The transfers of a section, in the order they are made: unaligned ones  *)
(* and then aligned ones, each of one chunk.                               *)
Pieces(A, s) ==
  LET Unaligned(side) ==
        LET Piece(c) == [align |-> FALSE, chunk |-> c,
                         part |-> dai_section_intersect(c, side.part)]
        IN FoldLeft(LAMBDA list, c : Append(list, Piece(c)), <<>>, Chunks(A, side.cover))
      AddWhole(list, c) == Append(list, [align |-> TRUE, chunk |-> c, part |-> c])
      unaligned == FoldLeft(LAMBDA list, side : list \o Unaligned(side), <<>>, Sides(A, s))
  IN IF HasAligned(A, s) THEN FoldLeft(AddWhole, unaligned, Chunks(A, Aligned(A, s)))
     ELSE unaligned

(***************************************************************************)
(* Files.                                                                  *)
(***************************************************************************)
BlockDims(A, i) == (A.dims[i] + A.chunk[i] - 1) \div A.chunk[i]

Block(A, c, i) == (c.lo[i] - 1) \div A.chunk[i]

nsect_to_block(A, c) ==
  FoldLeft(LAMBDA CR, i : CR * BlockDims(A, i) + Block(A, c, i), 0,
           [k \in Dim(A) |-> Last1(A) + 1 - k])

\* dai_myturn: the process that transfers chunk c.
Turn(A, c) == nsect_to_block(A, c) % A.ioprocs

nblock_to_indices(A, CR) ==
  LET rest[i \in Dim(A)] ==
        IF i = 1 THEN CR ELSE rest[i - 1] \div BlockDims(A, i - 1)
  IN [i \in Dim(A) |-> rest[i] % BlockDims(A, i)]

\* The extent of the chunks with index b in dimension i.
Extent(A, i, b) ==
  IF b < BlockDims(A, i) - 1 \/ A.dims[i] % A.chunk[i] = 0 THEN A.chunk[i]
  ELSE A.dims[i] % A.chunk[i]

(* The place of c in the file of its process: behind the chunks of that    *)
(* process that come before it, and as far into its own chunk as it begins. *)
InOwnFile(A, c) ==
  LET n == Last1(A)
      CR == nsect_to_block(A, c)
      Size(k) == LET b == nblock_to_indices(A, k)
                 IN Product([i \in Dim(A) |-> Extent(A, i, b[i])])
      before == {k \in 0..(CR - 1) : k % A.ioprocs = CR % A.ioprocs}
      b == nblock_to_indices(A, CR)
  IN MapThenSumSet(Size, before)
       + Product([i \in 1..(n - 1) |-> Extent(A, i, b[i])])
           * ((c.lo[n] - 1) % A.chunk[n])

InSharedFile(A, c) ==
  LET n == Last1(A)
      Ld(i) == IF Block(A, c, i) = A.dims[i] \div A.chunk[i]
               THEN A.dims[i] % A.chunk[i] ELSE A.chunk[i]
      Before(i) == IF i = n THEN c.lo[n] - 1 ELSE Block(A, c, i) * A.chunk[i]
      Term(i) == Product([j \in Dim(A) |-> CASE j < i -> Ld(j)
                                             [] j = i -> Before(i)
                                             [] j > i -> A.dims[j]])
  IN MapThenSumSet(Term, Dim(A))

ndai_file_location(A, c) ==
  IF A.files THEN <<Turn(A, c), InOwnFile(A, c)>> ELSE <<0, InSharedFile(A, c)>>

(* Where the transfer of chunk c puts element e: a chunk is transferred as *)
(* it is in the buffer, first dimension fastest.                           *)
Location(A, c, e) ==
  LET at == ndai_file_location(A, c)
      inside == FoldLeft(LAMBDA a, i : a * (c.hi[i] - c.lo[i] + 1) + e[i] - c.lo[i],
                         0, [k \in Dim(A) |-> Last1(A) + 1 - k])
  IN <<at[1], at[2] + inside>>

(***************************************************************************)
(* What is expected.                                                       *)
(***************************************************************************)
Sections(A) ==
  LET whole == [lo |-> [i \in Dim(A) |-> 1], hi |-> A.dims]
  IN {s \in [lo : Elements(whole), hi : Elements(whole)] :
        \A i \in Dim(A) : s.lo[i] <= s.hi[i]}

(* The pieces hold each element of s once, and nothing else, and each is   *)
(* within one chunk that begins where files allow it.                      *)
Exactly(A, s, pieces) ==
  /\ \A k \in DOMAIN pieces :
       /\ Intersects(pieces[k].chunk, pieces[k].part)
       /\ Elements(pieces[k].part) \subseteq Elements(pieces[k].chunk)
       /\ \A i \in 1..(Last1(A) - 1) : (pieces[k].chunk.lo[i] - 1) % A.chunk[i] = 0
       /\ \A l \in 1..(k - 1) : ~ Intersects(pieces[k].part, pieces[l].part)
  /\ UNION {Elements(pieces[k].part) : k \in DOMAIN pieces} = Elements(s)

DecomposedExactly(A, s) == Exactly(A, s, Pieces(A, s))

\* The elements of the chunks that are transferred with section s, placed.
PlacedWith(A, s) ==
  UNION {{<<e, Location(A, x.chunk, e)>> : e \in Elements(x.chunk)} :
           x \in ToSet(Pieces(A, s))}

OneToOne(pairs) == \A x, y \in pairs : (x[1] = y[1]) <=> (x[2] = y[2])

PlacedConsistently(A) == OneToOne(UNION {PlacedWith(A, s) : s \in Sections(A)})
=============================================================================
