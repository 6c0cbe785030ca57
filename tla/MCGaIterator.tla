---------------------------- MODULE MCGaIterator ----------------------------
(***************************************************************************)
(* Small arrays of all five distributions and all patches of them.         *)
(***************************************************************************)
EXTENDS GaIterator

Boxes(A1) ==
  {[lo |-> l, hi |-> u] : l \in Elements(A1), u \in Elements(A1)}

Patches(A1) ==
  {b \in Boxes(A1) : \A d \in Dim(A1) : b.lo[d] <= b.hi[d]}

Whole(A1) == [lo |-> [d \in Dim(A1) |-> 1], hi |-> A1.dims]

Job(op, A1, chunk, b, me, smp) ==
  [op |-> op, array |-> A1, chunk |-> chunk, lo |-> b.lo, hi |-> b.hi,
   me |-> me, smp |-> smp]

\* Arrays with a distribution given by the user.
Irregular ==
  {Regular(<<5>>, << <<1, 3, 3>> >>, <<1>>, 3, <<>>),
   Regular(<<4, 3>>, << <<1, 2>>, <<1, 3>> >>, <<0, 1>>, 4, <<>>),
   Regular(<<4, 3>>, << <<1, 4>>, <<1>> >>, <<0, 0>>, 3, <<2, 0>>)}

Cyclic ==
  {BlockCyclic(<<7>>, <<2>>, 3), BlockCyclic(<<5, 3>>, <<2, 2>>, 2),
   BlockCyclic(<<3, 3>>, <<3, 1>>, 3)}

\* Every process of the grid has a block.
Grids ==
  {ProcGrid("SCALAPACK", <<5, 4>>, <<2, 1>>, <<2, 2>>),
   ProcGrid("SCALAPACK", <<5, 3>>, <<1, 2>>, <<3, 1>>),
   ProcGrid("SCALAPACK", <<7>>, <<2>>, <<3>>),
   ProcGrid("TILED", <<5, 4>>, <<2, 1>>, <<2, 2>>),
   ProcGrid("TILED", <<5, 5>>, <<2, 2>>, <<2, 2>>),
   TiledIrreg(<<5, 4>>, << <<1, 2, 5>>, <<1, 3, 4>> >>, <<2, 2>>),
   TiledIrreg(<<6>>, << <<1, 2, 5>> >>, <<3>>)}

\* The walks over remote blocks are right for any grid that is filled.
WideGrids ==
  {ProcGrid("TILED", <<6, 3>>, <<2, 2>>, <<3, 1>>),
   ProcGrid("TILED", <<4, 3>>, <<1, 1>>, <<1, 3>>)}

Defaults ==
  {<<dims, chunk, n>> :
     dims \in {<<5>>, <<7>>, <<1, 5>>, <<4, 3>>, <<5, 4>>},
     chunk \in {<<0, 0>>, <<2, 1>>, <<3, 2>>, <<1, 3>>, <<0, 2>>},
     n \in {1, 2, 3, 4, 6}}

GivenJobs ==
  UNION {{Job("common", A1, <<>>, b, 1, smp) :
            b \in Patches(A1), smp \in {{0, 1}}} :
         A1 \in Irregular \union Cyclic \union Grids \union WideGrids}

StridedJobs ==
  {Job("strided", A1, <<>>, Whole(A1), 0, {}) :
     A1 \in Irregular \union Cyclic \union Grids \union WideGrids}

\* Some processes of these grids have no block.
IdleGrids ==
  {ProcGrid("SCALAPACK", <<2, 3>>, <<2, 1>>, <<2, 1>>),
   ProcGrid("TILED", <<3>>, <<2>>, <<3>>)}

LocalJobs ==
  {Job("local", A1, <<>>, Whole(A1), 0, {}) :
     A1 \in Irregular \union Cyclic \union Grids \union IdleGrids}

DefaultJobs ==
  UNION {{Job(op, Default(x[1], x[2], x[3], <<>>), x[2],
              Whole(Default(x[1], x[2], x[3], <<>>)), 0, {0}) :
            op \in {"local"} \union (IF x[3] <= 3 THEN {"strided"} ELSE {})} :
         x \in Defaults}

\* A strided operation on a block-cyclic array, by another process than 0.
StridedOtherJobs ==
  {Job("strided", A1, <<>>, Whole(A1), me, {}) : A1 \in Cyclic, me \in {1}}

SoundJobs == GivenJobs \union StridedJobs \union LocalJobs \union DefaultJobs
=============================================================================
