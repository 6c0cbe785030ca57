# A TLA+ verification of Global Arrays

Global Arrays (GA) gives the processes of an MPI job a shared-memory view of
distributed arrays. Everything GA does is built on one-sided communication:
put, get and accumulate on another process's memory, atomic
read-modify-write, mutexes and fences. In the default runtime, ComEx MPI-PR
(`comex/src-mpi-pr`), some MPI ranks of each node stop being user processes
and become *progress ranks* that serve these operations for their neighbours.
That protocol is where most of the concurrency of the system is. Above it this
development models the non-blocking handles of ComEx and GA, the distribution
of arrays and the walks over their blocks, and beside it the MA allocator and
the asynchronous transfers of disk resident arrays (DRA).

## 1. Inventory

| Part | State it keeps | Operations | What makes it correct |
|---|---|---|---|
| **ComEx MPI-PR, mutexes** (`comex.c:2197-2357`, handlers `4511-4622`) | worker: `num_mutexes`, `fence_array`; progress rank: `mutexes`, `lq_heads` | create, destroy, lock, unlock | exclusion, no lost waiter, destruction finds nothing in use |
| **ComEx MPI-PR, one-sided operations** (`875-1235`, `2115-2193`, `6059-6339`, handlers `3568-4508`) | the memory, `fence_array`, posted receives, `semaphores` | put, get, acc, rmw, fence, barrier; strided and vector forms | atomicity, order per location, own answer to each question, fences mean what they say |
| **ComEx MPI-PR, start-up and shutdown** (`391-856`, `2812-2976`, `3379-3565`, `groups.c:408-636`, `groups.h`) | `g_state.master`, semaphores, the server loop | `comex_init`, `comex_finalize` | a progress rank for every rank, on its node; exactly one OP_QUIT each, after everything else |
| **ComEx MPI-PR, allocation** (`2359-2605`, `2978-3186`, handlers `4625-4815`, `reg_cache.c`) | a registration cache per rank, shared-memory segments | `comex_malloc`, `comex_free`, local forms | the caches know every live segment and no dead one |
| **ComEx MPI-PR, non-blocking handles** (`1776-1850`, `5405-6056`) | the ring `nb_state`, send and receive lists | wait, test, wait_all, taking a handle | a wait covers the operation it is for, however handles are reused |
| **ComEx MPI-PR, groups** (`groups.c:226-400`) | list of igroups | create, free | ids unique, ranks translated |
| **cmx**, other **ComEx ports** | as above | as above | alternatives to MPI-PR, a fork of it or other networks |
| **Legacy ARMCI** (`armci/src`) | mutexes, K&R heap, message buffers, devices | the ARMCI interface | exclusion, no overlap of blocks |
| **GA non-blocking handles** (`global/src/nbutil.c`) | two arrays of handles linked into lists | init, wait, test | a wait completes exactly its transfers |
| **GA arrays** (`base.c`, `decomp.c`, `iterator.c`) | array table, maps of distributions, iterators | create, locate, distribution, patch iteration | every element has one owner, patches cover exactly once |
| **GA one-sided** (`onesided.c`) | fence set, mutex count | put, get, acc, read_inc, lock | reduction to ARMCI per patch |
| **MA** (`ma/ma.c`, `table.c`) | stack and heap in one segment, free list, handle table | alloc, push, free, pop, chop, inquire | blocks tile the segment, free space coalesced, handles name live blocks, inquiries can be kept |
| **DRA** (`pario/dra`) over **ELIO**; EAF, SF | request handles, buffers, aio table, files | asynchronous read, write, wait, probe, flick | sections cut exactly, one place per element, complete means complete, tables agree |
| **TCGMSG-MPI** (`tcgmsg`) | the NXTVAL counter | nxtval, reset | each value handed out once |
| **GP arrays**, GA linear algebra, ghosts, bindings, LinAlg, tools | over GA | numerical | not protocol |

### How the parts interact

A worker calls ComEx; ComEx either works on shared memory at once (own memory,
or a neighbour with the same progress rank, if the `COMEX_ENABLE_*`
shortcuts are on) or sends a `header_t` to the progress rank of the target
(`g_state.master[proc]`), possibly followed by chunks of payload. The progress
rank takes messages with `MPI_Recv(MPI_ANY_SOURCE)` one at a time and runs the
handler to its end, receiving chunks from the sender it is serving. Replies go
back under the one tag all messages have. `fence_array[m]` records that
messages to `m` are not known to have been handled; a fence is a message that
comes back. Collectives (`comex_barrier`, allocation, mutex creation,
finalize) are fences followed by MPI collectives among the workers. Workers
never talk to each other except through MPI collectives and shared memory.

A GA put, get or accumulate asks the patch iterator for the pieces of the
patch, one per block of the distribution, first those of other nodes and then
those of its own, and makes an ARMCI call for each. The non-blocking calls
take an entry of `armci_ihdl_array` for each piece and link it into the list
of the GA handle; the entry holds the index of a ComEx handle, which heads the
lists of MPI requests. All three levels are small fixed tables: when one is
full the next entry in turn is completed and taken from its owner. DRA cuts a
section into chunks that processes take in turn, moves each through a buffer
with `elio` on one side and GA put and get on the other, and leaves the last
of these under way when the call returns.

### What is hard here

Two paths to the same memory (message and shortcut) that must not overtake
each other; replies told apart only by order; a header and its payload whose
separation is decided twice; integer arithmetic on ranks that decides who
serves whom, who is told to stop and who registers memory; addresses reused
while old messages may be on their way; handles, buffers and request slots
reused while their former owners have them; index arithmetic of block layouts
at the edges of arrays; an allocator whose state is a long history of splits
and joins. `PROJECT.json` lists these hazards line by line.

## 2. Modules

| Module | Models | Extends |
|---|---|---|
| `ComexMutex` | mutexes, with fences and barriers | |
| `ComexMutexProofs` | the theorems about `ComexMutex` | `ComexMutex` |
| `ProgressRanks` | the arithmetic of `groups.h` and `comex_group_init` | |
| `ProgressRanksProofs` | that the division of the ranks works | `ProgressRanks` |
| `ComexLifecycle` | `comex_init`, traffic, `comex_finalize` | `ProgressRanks` |
| `ComexLifecycleProofs` | the theorems about `ComexLifecycle` | `ComexLifecycle`, `ProgressRanksProofs` |
| `ComexMalloc` | `comex_malloc`, `comex_free`, registration caches, puts | `ProgressRanks` |
| `ComexMallocProofs` | the theorems about `ComexMalloc` | `ComexMalloc`, `ProgressRanksProofs` |
| `OneSidedMemory` | what the one-sided operations promise, without messages | |
| `ComexOneSided` | put, get, acc, rmw, fence and barrier as implemented | instantiates `OneSidedMemory` |
| `ComexOneSidedProofs` | the theorems about `ComexOneSided` | `ComexOneSided` |
| `ComexNb` | the ring of ComEx handles and their request lists | |
| `GaNb` | GA and ARMCI handles, the calls that use them | `ComexNb` (the composition) |
| `GaNbProofs` | the theorems about `ComexNb` and `GaNb` | `GaNb` |
| `GaDistribution` | the five distributions, the default decomposition, `findblock` | |
| `GaIterator` | the patch and local iterators and the operations that walk with them | `GaDistribution` |
| `MaAllocator` | stack, heap, handle table and inquiries of MA | |
| `MaAllocatorProofs` | the theorems about `MaAllocator` | `MaAllocator` |
| `DraSections` | decomposition, chunks and file offsets of DRA | |
| `DraRequests` | transfers, buffers, waits, probes and flicks of DRA | `DraSections` |
| `DraRequestsProofs` | the theorems about `DraRequests` | `DraRequests` |
| `MC...` | layouts, programs and settings for TLC | one of the above |

**Common conventions.** MPI is external: `req[c][m]` and `rep[c][m]` are FIFO
queues per ordered pair of ranks (MPI's non-overtaking rule, one tag, one
communicator); a progress rank may take the oldest message of any sender; a
collective is left in one step once all have entered. Leaving is local, so a
rank that lingers in a collective is one that has left and not moved. A worker
is single-threaded: `pc[c]` says where it is, and a call that blocks
(`nb_wait_for_all`) is a point it cannot leave before the reply is there. A
message is sent and its receive posted in one step when nothing another rank
can see happens in between. Where a definition has a *bug variant* next to it
(`..._unfenced`, `..._le`), the variant is a plausible mistake in that code,
kept to show that the properties notice it; no specification uses it.

**`ComexMutex`.** `mutexes`, `lq_heads` and `allocated` are the server's
arrays, indexed by `<<owner, index>>`. `comex_lock` sends LOCK and waits for the
index; `lock_handler` grants or queues; `unlock_handler` hands over to the
head of the queue. `comex_unlock` only raises the fence flag. Creation is an
Allgather of the counts, CREATE to the own progress rank, an acknowledgment and
a barrier; destruction is a fence and barrier, DESTROY by one worker per
progress rank, an acknowledgment. Bounds: `MaxMutexes` per worker, `MaxHeld`
locks of one worker at a time.

**`ProgressRanks`, `ComexLifecycle`.** A *layout* is the environment of a job:
the host of each rank, the number of progress ranks per node, PACKED or
CYCLIC, the build option `MASTER_IS_SMALLEST_SMP_RANK`, and whether shared
memory is used. `get_my_master_rank_with_same_hostid` and
`get_my_rank_to_free` are transcribed branch by branch. `comex_finalize` is a
fence, a barrier, the release of the semaphores, `comex_wait_all`, a second
fence and barrier, OP_QUIT by the chosen workers and the world barrier, in the
order of the code; accumulates (which need a semaphore) and unawaited gets
(which leave receives posted) may be in flight when it is called. Bounds:
`MaxOps` operations per worker, `MaxInits` starts.

**`ComexMalloc`.** A *job* is a layout and the collective calls the program
makes, each with its group; a worker goes through those of its groups in
order. `reg_cache[r]` is the set of segments `<<owner, address>>` rank `r` has
registered. The operations are split at their collectives: fence and barrier,
own segment (any address that is free in the process, or none), Allgather,
update of the own cache and message of the notifier, acknowledgment, release,
barrier. Who is a notifier, and whose segments a member maps, are the
arithmetic of the code. Between calls workers put by message. Bounds: the
jobs (which say how many puts there may be), the addresses.

**`ComexOneSided`, `OneSidedMemory`.** Each worker exposes one location. An
operation on it is either *direct* (after `_fence_master`, if the flag of that
progress rank is up) or a header with the payload inside or after it, as
`eager_check` says; the handler decides the same question again and receives
the chunks. Accumulates read and write in two steps under the semaphore of
the target. A payload is one value: that a reader may see half of a transfer
in progress is not modelled. The program is assumed to keep puts, accumulates
and read-modify-writes of one location apart (`OneSidedAssumption`): the code
makes each kind atomic only among itself. `OneSidedMemory` is the promise:
atomic locations, per process and location a queue of operations that take
effect in order and answers that come back in order, direct operations only
when that queue is empty, and barriers that wait for writes.
The refinement mapping reads the queue off the message queues and the request
in service (`Outstanding`) and the answers off the replies matched with posted
receives (`Returning`).

**`ComexNb`, `GaNb`.** One process; MPI finishes posted requests in any order
(`MpiProgress`). `nb_state[h]` has two lists with head, tail and size as the
code keeps them, including what `comex_test` leaves behind; a list maps the
place at which a message was linked to the message, so that unlinking one moves
no other. A GA handle variable of the program (`hv`) holds an index and a tag
of `ga_ihdl`; entries of `armci_ihdl` are doubly linked into its list, and
`Chain(i)` is what the code reaches by following `next` from the head of
slot `i`. `owner[m]` is a ghost: the
variable for whose transfer a request was posted. A blocking get makes a handle
within its call, a put/notify two behind one slot, and the ghost updates and
fences use ComEx handles that GA knows nothing of. Bounds: `NbMax` handles
at all levels (`COMEX_MAX_NB_OUTSTANDING`, `MAX_NUM_NB_HDLS`), `MsgMax` requests per
handle, `TagMod` (2^24 in the code), `PutSlots`, `MaxOps` calls. `GaNbAssumption`
only asks that a piece and a fence get by with the `MsgMax` messages of a handle
and that a patch has a piece.

**`GaDistribution`, `GaIterator`.** An array is a record of its kind (REGULAR,
BLOCK_CYCLIC, SCALAPACK, TILED, TILED_IRREG), dimensions, maps or block
dimensions, grid and restricted process list. Every definition of an owner,
an offset or a leading dimension is that of the code; the reference is
independent of it: `HomeBlock` and `Address` say where an element is by
counting the elements in front of it. The real-number arithmetic of
`findblock` is a set of candidates (any start of the search), so that no
rounding matters. An operation is a sequence of
steps, each handing out one piece; `Garbage` are the values of memory that
was never set. The model is restricted to arrays of the world group, to one
or two dimensions and no ghost cells. Bound: `MaxElems`, the size above which
a block is handed out in parts.

**`MaAllocator`.** Addresses are integers; blocks are records at the address of
their descriptor. `balloc_after` and `balloc_before` compute the client space
with the two alignments; `list_coalesce`, `block_free_heap` and `block_split`
are sets and functions over addresses. The inquiries are operators of the
state, with `size_t` lengths modulo `SizeMod`. The handle table doubles when
full, or fails to: then the block is taken and nobody has it. Bounds:
`InitArgs`, `Segments`, `Counts`, `NumAligns`, `MaxLost` lost blocks.

**`DraSections`, `DraRequests`.** The decomposition, the order of chunks and the
file offsets are operators, for any number of dimensions; `DraRequests` moves
data through buffers: `disk` and `got` are what is on disk and in the global
array, and `file` and `want` the reference, fixed when a transfer is issued.
All calls are collective: `prog` is the calls some process is in,
`at` how far each has come. A disk operation is done on the spot when elio's
table is full. The application issues no transfer that touches a chunk of an
outstanding one unless both are reads, which the code needs (see below).
Bounds: `NBuf`, `MaxAio`, `MaxReq`, `MaxTransfers`.

## 3. Runs

| Run | Instance | Checks |
|---|---|---|
| `mutex` | 3 workers, 1 progress rank, 1 mutex each, with fairness | `TypeOK`, `MutualExclusion`, `RepliesMatchReceives`, `DestroyFindsUnlocked`, `IndicesAllocated`, `CallsReturn` |
| `lifecycle` | 4 ranks started and shut down twice under every layout that works, an operation each, with and without shared memory, with fairness; the division of 8 and 12 ranks with up to 4 progress ranks per node | `TypeOK`, `MastersServeTheirNode`, `QuitIsLast`, `SemaphoresOutliveAccs`, `FinalizeReturns` |
| `lifecycle_cyclic` | one CYCLIC progress rank on each of two nodes | violation of `FinalizeReturns` |
| `malloc_groups` | 6 ranks on 2 nodes, overlapping groups, nested and reusing programs with up to 2 puts; the world group under every choice of progress ranks; 2 addresses | `TypeOK`, `RegistrationSound`, `PutFindsRegistration` |
| `malloc_subgroup` | a subgroup on a node with two progress ranks | violation of `PutFindsRegistration` |
| `onesided_shortcuts` | 2 workers that write by message, eager and chunked, and read through shared memory | `TypeOK`, `UnflaggedMeansDone`, `ImplementsMemory` |
| `onesided_rmw` | fetch-and-add and swap with unawaited gets, and accumulates at another worker by message and in shared memory, with fairness | `ChannelsInStep`, `ImplementsMemory`, `NothingWaitsForever` |
| `nonblocking` | tables of 2 handles, 3 operations of up to 3 pieces, 2 requests each, a tag that wraps after 3, with fairness | `TypeOK`, `RingIntact`, `HandleListsIntact`, `AnswersHonest`, `WaitCompletes`, `CallsReturn` |
| `ga_iterator` | all patches of 15 small arrays of the five distributions, strided and local walks, 125 default decompositions | `TypeOK`, `PiecesSound`, `EachElementOnce`, `DefaultMapSound` |
| `ga_strided` | strided operations on block-cyclic arrays by process 1 | violation of `EachElementOnce` |
| `ma_allocator` | two segments, doubles and double complex numbers of 1 or 13 elements, two alignments, a table that starts with one entry | `TypeOK`, `SegmentTiled`, `HandlesSound`, `InquiriesHold` |
| `dra` | 2 processes, 2 buffers, 1 disk operation at a time, 2 request handles, 2 transfers of an array of 4 chunks; 28 shapes for the layout | `TypeOK`, `LayoutSound`, `CompletedIsDone`, `TablesSound`, `NoReuseInFlight`, `ProbesSucceed` |

Several properties are conjunctions of named parts, each stated and commented
in its module: `RegistrationSound` (caches know every live segment and no dead
one, an insertion finds no overlap, a release finds its entry),
`ChannelsInStep` (payloads follow their headers, replies match receives),
`NothingWaitsForever` (calls return, writes land), `RingIntact`,
`HandleListsIntact`, `AnswersHonest`, `PiecesSound`, `SegmentTiled`,
`HandlesSound`, `LayoutSound`, `CompletedIsDone`, `TablesSound`.

*Why the bounds are enough to be interesting.* Three workers at one mutex give
a holder, a queue and a newcomer, and the counts of mutexes include 0. In the
one-sided runs a header has 1 byte, the threshold is 4 and messages have 2
bytes: a length of 2 is eager, 3 is the boundary and takes two chunks, and
`ScaleSize` 1 moves an accumulate of 2 across it. Three operations of one
worker are a write, a read and an unawaited get on one channel. In the
allocation runs two addresses are fewer than the segments over time, so that
addresses are reused; a group of three with two members on one node has a
notifier and a member that is not one, and the second group {0, 3} lets the
latter speak for the node. Two handles and operations of three pieces make
every table overflow within a call, and a user's handle is recycled while the
program has it; the tag wraps within a behaviour. The arrays have short last
blocks, blocks wider than their neighbours, processes without a block and
restricted process lists, and `MaxElems` 4 splits blocks in both dimensions.
The segments hold two or three blocks, so that the stack runs into the heap
and over the partition, and blocks are freed in the middle. An array of four
chunks, the last one short, has two processes with more pieces than buffers,
and a section that is aligned at neither end.

Deadlock is checked except in `ma_allocator`, where a client all of whose
requests fail may have nothing left to do, and in `nonblocking`, where the
program ends after its last operation. Elsewhere a program that has made all
its calls stutters explicitly.

*Fairness.* The runs with a liveness property assume that a worker inside a call keeps going
(weak fairness of its continuation), that MPI delivers replies, and that every
message at the head of its channel is taken eventually: `_progress_server` loops for ever on
`MPI_Recv(MPI_ANY_SOURCE)` and MPI does not starve a sender. Users are never
forced to call anything; for mutexes, a holder is assumed to unlock,
and in `CallsReturn` of `ComexMutex` a member is assumed to reach the
collective that the others are in. In `nonblocking` a call that has begun
goes on and MPI finishes posted requests, since every wait is inside MPI; in
`dra` the disk and the communication library finish what they have begun and
processes inside a call go on, but nothing makes the application probe:
`ProbesSucceed` is about one that does. The allocation model needs no
fairness: its behaviours are finite, so the absence of deadlock is the
statement that all collectives return.

### What the runs found

1. With CYCLIC distribution and one progress rank per node,
   `get_my_rank_to_free` (`groups.h:191`) is not relative to the node:
   the second node's progress rank is never told to stop (`lifecycle_cyclic`).
2. With two or more progress ranks per node, `comex_malloc` on a subgroup may
   find no notifier for one of them (`comex.c:2407`), and the memory of that
   member is unknown to the progress rank that serves it (`malloc_subgroup`).
3. A strided put, get or accumulate on a block-cyclic array starts its walk at
   the caller's own process with an offset that was never set
   (`iterator.c:225`): called by another process than 0 it moves blocks twice
   and misses others (`ga_strided`).

Other instances of the same modules show more. They are kept out of the runs,
whose constants avoid them:

* `ComexMutex` with workers {0, 2} and progress ranks {1, 3} violates
  `IndicesAllocated`: `comex_destroy_mutexes` indexes `num_mutexes` with the
  world rank (`comex.c:2273`), everything else with the rank among the
  workers.
* `ComexLifecycle` with ranks placed round-robin on two nodes violates
  `MastersServeTheirNode`: `get_my_master_rank_with_same_hostid` needs
  consecutive ranks on a node (`groups.h:135`), which nothing checks.
* `GaIterator` with a local walk over a TILED array on a grid of 3 by 1 or 1
  by 3 violates `PiecesSound`: `pnga_access_block_grid_ptr` uses the wrong
  factors (`onesided.c:1682-1683`), right for grids two processes wide.
  Processes of a grid row without blocks are handed empty pieces, and the
  local iterator may abort there (`LocalAbort`).
* `MaAllocator`: when the stack has crossed the partition, `MA_inquire_stack`
  wraps to a huge number (the guard is commented out, `ma.c:2949`; a test
  expects 0). When the heap has crossed it, `MA_inquire_stack_check_heap`
  measures the gap from the heap but lays a block out from the partition
  (`ma.c:3015-3017`): where the two differ in alignment it promises an element
  more than can be pushed, although its comment says that it is right "whether
  or not the heap has overgrown the partition" (`ma.c:2964`). `InquiriesHold`
  asks the two only while neither side has crossed. As first stated, for the
  heap that has crossed too, it passed the run and could not be proved; with a
  heap for 1 double, a stack for 20 and `Counts` {1, 4} TLC shows why, and a
  program linked with `ma.c` does the same. With `AlignAnyTime` TRUE,
  `MA_free_heap_piece` after a change of alignment leaves a client space that
  its block length no longer fits (`HandlesSound`). A block taken when the
  handle table cannot grow is lost for good.

Reading the code for the models also showed, without a run: `pnga_locate_region`,
`pnga_locate_nnodes` and `pnga_locate_num_blocks` on block-cyclic arrays test
ends and miss a block that strictly contains the patch; block-cyclic arrays
on subgroups mix `GAme` with group ranks, and strided operations translate
the process twice; unaligned DRA writes of disjoint sections of one chunk read,
change and write the whole chunk, so that one may undo the other unless the
program waits in between (hence the application's discipline in
`DraRequests`); a transposed DRA write uses the data of a non-blocking get
before it is waited for; the status of `dra_probe` is the opposite of what its
document says; `ndai_decomp_section` looks at the cover in front of the first
one; and `get_buf` waits for the buffer after the last one handed out, which a
comment calls the oldest.

Two questions of the code get an answer: the barrier that
ends `comex_free` ("Is this needed?", `comex.c:3181`) is needed, since
`RegistrationSound` fails without it: a member returns, free to map the same
address anew in another group, before a slow notifier has reported. And the
list that `comex_test` leaves with a head and no tail (`comex.c:5811`) does no
harm, because a handle is given out only when nothing is left in it
(`RingIntact`).

## 4. Proofs

Eight modules hold theorems; each is about every value of the constants its
component declares, under the named assumptions of that module (ranks, sizes
and bounds are numbers; workers and progress ranks are finite sets). Where a
theorem needs more of a job, an environment or an array, that is a named
hypothesis (`OrderlyLayouts`, `JobsServed`, ...) defined at the end of the
component's module; the `MC` module states it as an `ASSUME` of the instances
that are run, so that TLC shows with each run that the hypothesis can be met,
and that the jobs of the findings are those it excludes.

| Module | Theorem | Property | Hypothesis |
|---|---|---|---|
| `ComexMutexProofs` | `TypeCorrect`, `MutexSafety`, `DestroySafety`, `ReplySafety` | `TypeOK`, `MutualExclusion`, `DestroyFindsUnlocked`, `RepliesMatchReceives` | |
| | `IndexSafety` | `IndicesAllocated` | `NotifiersFirst` |
| `ComexOneSidedProofs` | `TypeCorrect`, `FenceSafety`, `ChannelSafety` | `TypeOK`, `UnflaggedMeansDone`, `ChannelsInStep` | |
| | `Refinement` | `ImplementsMemory` | `GetsTakeShortcuts` |
| `ProgressRanksProofs` | `DivisionServes` | (`ServesNodes`) | `Contiguous`, `Workable` |
| `ComexLifecycleProofs` | `TypeCorrect` | `TypeOK` | |
| | `QuitSafety`, `SemaphoreSafety` | `QuitIsLast`, `SemaphoresOutliveAccs` | `OrderlyLayouts` |
| | `DivisionSafety` | `MastersServeTheirNode` | `OrderlyLayouts`, `OrderlyDivisions` |
| `ComexMallocProofs` | `TypeCorrect`, `RegistrationSafety`, `PutSafety` | `TypeOK`, `RegistrationSound`, `PutFindsRegistration` | `JobsServed` |
| `GaNbProofs` | `TypeCorrect`, `RingSafety`, `ListSafety`, `AnswerSafety`, `WaitSafety` | `TypeOK`, `RingIntact`, `HandleListsIntact`, `AnswersHonest`, `WaitCompletes` | |
| `MaAllocatorProofs` | `TypeCorrect`, `TilingSafety` | `TypeOK`, `SegmentTiled` | |
| | `HandleSafety` | `HandlesSound` | `~ AlignAnyTime` |
| | `InquirySafety` | `InquiriesHold` | `PowersOfTwo`, `Addressable` |
| `DraRequestsProofs` | `TypeCorrect`, `TableSafety`, `NoReuse` | `TypeOK`, `TablesSound`, `NoReuseInFlight` | `Decomposed` |
| | `CompletionSound` | `CompletedIsDone` | `Decomposed`, `WellPlaced` |

Each but `ProgressRanksProofs` also has a theorem `Invariance` (`Spec => []IInv`,
of its inductive invariant), and the proof that `IInv` is inductive has one
lemma per action.

**Mutexes.** `MutualExclusion` speaks of `held`, which workers update when
a grant arrives; the server decides long before. `IInv` therefore follows the
*right* to a mutex (`Token`): it is with a worker that holds the mutex, or in
a grant on its way to it, or in an unlock on its way back, and `TokenInv` says
that this is the case exactly for the worker the server has in `mutexes`. As
`mutexes[x]` is one value, two holders are impossible. To keep `TokenInv`, an
unlock must be in flight at most once and only for a mutex no longer held
(`UnlocksAt`), a queued worker must be waiting for that very mutex with
nothing in flight (`QueueInv`), and a reply must be the last word between its
worker and its server, for the call the worker is in (`RequestsAt`,
`RepliesAt`). `UnlocksAt` also says that an unlock in flight is covered by the
fence flag; with `QuietAt` (outside the use stage there is no flag up) and
`StageInv` (collectives keep the workers in one stage) this gives
`DestroyFindsUnlocked`. For `IndicesAllocated`, `AllocatedInv` says that from
the acknowledgment of CREATE to DESTROY the server has allocated what the
Allgather told every worker. It needs that the worker which sends DESTROY
finds its count where `comex_destroy_mutexes` looks for it (`NotifiersFirst`:
all ranks below that worker are workers); the code is wrong elsewhere, as
said above.

**One-sided operations.** The invariant is kept per channel from a worker to a
progress rank. `Framed` says that behind a header come exactly the chunks it
announces (`Following`), after those the handler of an earlier one still waits
for (`Owed`). `Matched` says that the receives a worker has posted are those
of the replies in flight followed by those of the replies to the requests in
flight: `Offsets` is the list of the places where the receives of each
request begin. `ChannelsInStep` is read off these two. A flag that is down
means that the channel holds nothing that writes and that nothing from it is
in service (`Clear`); to keep that when a fence returns, `Covered` says that
the request of a fence under way is the last in its channel, or has been
taken by a progress rank that is done with the others. The operations that
shared memory overtakes are then over (`UnflaggedMeansDone`).

*The refinement.* Every step is shown to be a step of `OneSidedMemory` or none.
The issuing of an operation that goes by message adds it to the queue of its
worker and location; it takes effect in its handler (get, read-modify-write),
where the handler has all chunks of a put (`PutEnd`), or where an accumulate
writes what it has read and added to. A reply that is received is the front of
the answers. An operation through shared memory takes effect at once and needs
an empty queue (`NothingBefore`). All else (fences, chunks, semaphores, the
first half of an accumulate) maps to no step. The mapping takes from the
queues what is an operation on one location (`Operations`) or a last reply to
a get (`Fetches`); that these distribute over appending, and are empty exactly
where nothing is selected, is proved once, by the least length at which it
might fail. `IInv` is strengthened by what messages stand for (`RInv`):
requests are such as a worker sends (`Legal`, `Asked`), the request in service
is one that this progress rank serves and the chunks it has taken carry its
value (`Serves`), a worker in a shortcut is entitled to it (`Calls`), and who
has a semaphore still finds the value it has read in memory (`Locked`).
`Expects` says that a worker waits for values from the progress rank of the
location only, so that what it receives is an answer to its own question.
`GetsTakeShortcuts` says that a worker whose puts or accumulates to a location
take a shortcut gets through the shortcut, too. That is so by default (every
`COMEX_ENABLE_*` is on, `comex.c:438`) and in both runs. It is needed: a get
by message raises no fence flag, so nothing would keep a later direct put to
the same location from overtaking it, and TLC finds `ImplementsMemory`
violated with such settings.

**The division of the ranks.** `DivisionServes` is arithmetic, for any number of
ranks, of nodes and of progress ranks per node up to 15: ranks of a node are
an interval; the block of ranks a progress rank serves is found by division
from its smallest or largest rank, in each of the branches of
`get_my_master_rank_with_same_hostid`; no block crosses to the next one
because the code refuses a node that is no multiple of its progress ranks;
and of the workers of a block `get_my_rank_to_free` names one. `Contiguous` is
what mpirun does by default. `Workable` leaves out the one environment for
which the division is wrong, which is the finding `LifecycleCyclic`.

**Start-up and shutdown.** Of every channel, `Balance` counts the receives
posted against the replies in flight and those still to come (`Counted`): a
worker that has fenced holds no accumulate in flight, and after
`comex_wait_all` there is nothing it waits for. All ranks are in one of four
stages (`Asleep`, `Running`, `Draining`, `Leaving`), which change only at a
collective call. OP_QUIT is sent in the last one, by one worker per
progress rank (`DivisionServes`), and nothing else is in a channel then
(`Stopping`), so it is the last message (`QuitIsLast`); and a semaphore is
destroyed when no channel holds an accumulate any more.

**Allocation and registration.** The caches hold exactly what the ranks' places
say (`Known`): what a rank owns, what it has mapped and what it has been told,
each from the step in which the code registers it until the one in which it
forgets it. A collective keeps the members `Together`, so that an address is
in use once (`Distinct`) as long as anyone knows it, and between a worker and
its progress rank there are some puts and at most one message that is answered
(`ChannelAt`): a put has its target known until the fence before `comex_free`
has passed it. `JobsServed` asks that the program frees what it has allocated,
once and with the same group of workers; that every rank is served by a
progress rank of its node; and that the members of a group which have one
progress rank have one member that speaks for them, to that progress rank
(`SpokenFor`). The last fails for the group of the finding `MallocSubgroup`,
and only that.

**Non-blocking handles.** Of the ring, `RingSound` says that what is reached from
the two lists of a handle is what is posted on it (`On`), although the tail of
a list may be cleared while messages are left: then nothing is ever linked
behind, as a handle in use is given to another operation only once both
of its lists are drained. Of the tables, `Lists` says that the entries
reached from a slot name it, are linked in both directions and are as many as
it counts. There are four ways in which the code changes the lists, each
a lemma of its own: an entry taken out (`CutLists`), put in front
(`PushLists`), a slot emptied (`ClearLists`), and an entry freed that no list
has (`FreeLists`). They rest on one fact about `LinkedFrom`, that it is the
least set with the head and closed under `next`. The two are tied together by
`Owned`: a transfer that is not complete is on the ComEx handle of an entry in
the list of a variable whose tag is current (`Listed`), or the process is
blocked in it, or it belongs to an update of ghost cells. Every step either
keeps this entry, its handle and its tag where they are or has waited for all
that is posted on that handle (`Keeps`); this is why an operation may lose its
slot, its entries or its ComEx handles to others and still be waited for
rightly. An entry whose piece is not posted yet has the handle of whoever had
it before and counts for nobody (`Kept`). `Calling` says whose call is under
way and how far it is: a wait or a test goes through a variable that is current
or has nothing under way, and what the library keeps in handles of its own is
over when it returns. `WaitCompletes` is an action property, from the same
invariant. Nothing is assumed of the order in which MPI finishes requests.

**Disk resident arrays.** The processes are at most one call apart (`Barriers`), and
what a call does to the table of requests does not depend on who makes it:
all processes go through the same chain of tables, each as far as it has
come (`TablesChain`). A handle that is pending is `Owed` by a transfer that
the process does not know complete; with fewer than `MaxReq` of these there is
a free handle for the next, by the pigeonhole principle, and it is the same in
all processes. `BufferSound` says of a buffer in every stage of a call what
it may still have under way: a put from it only where a `pnga_sync` has not
yet passed, a disk operation only while it is active, a cover only while its
piece is being made. `get_buf` and `wait_buf` then hand out a buffer that is
at rest. `Decomposed` asks of the array and the sections what
`DraSections` computes: pieces lie in the files of the array, and an aligned
one is a whole chunk.
`CompletionSound` keeps account of what is owed, in a second invariant, `DInv`,
on top of `IInv`. The model's `file` is what the disk should hold after the
writes issued so far; where `disk` differs from it, some process has yet to
move a piece of an uncomplete write that reaches the place (`WritesOwed`), and
a piece of a read that is not in `got` as `want` has it is one that its process
has yet to move (`ReadsOwed`). To have yet to move a piece (`Unmoved`) is not
to have come to the transfer, to have the piece left, or to have it in a buffer
that is busy. A step that takes a piece from one of these places must put it
into the next or deliver it, and delivers it rightly because a busy buffer
carries data that agree with `file` (`Carried`); this is where an unaligned
write might put back what it read of the rest of its chunk, and does not as
transfers that overlap are not under way together (`Apart`). A wait or a probe
that reports a transfer has found every process done with it (`Settlement`),
so that nothing is owed for it. `WellPlaced` asks for what makes a piece's
account its own: an element has one place in the files and a place one element,
whichever section it is moved with, every piece is some process's turn, and a
chunk holds no element of the section but those of its own part. TLC
found `DInv` to hold in every state of the instance of the run `dra`.

**The allocator.** `Region(used, free, lo, hi)` says that the blocks of two lists
tile an interval. A block may be split, grown at the end, pushed in front, cut
off and merged with its neighbours, and what results is a tiling (`TileSplit`
to `TileCoalesce`, on the ends of blocks by their starts); every action is one
or two of these. `list_coalesce` is right because a run of free blocks ends
where no free block begins, and `block_free_heap` because the blocks behind
the last used one are all free. That the new block fits its request is
arithmetic of remainders (`BlockAfter`, `BlockBefore`), for which `IInv` keeps
addresses aligned. The handles: the search of `ma_table_allocate` comes to
every slot, and a table that is not full has one that is free, as
`ma_table_entries` is the number of those that are not. `MA_free_heap_piece`
computes a block anew from the alignment in force; `HandleSafety` therefore
also needs `Placed`, that this is the alignment the block was made with, which
is true if it is set only while nothing is allocated (`AlignAnyTime` FALSE, as
in the run; see the observations above for the other case).
`InquirySafety` rests on `EitherEnd`: a block for given elements fits from the
front of the gap just if it fits from the back. `balloc_after` takes the least
place that `Suits` the datatype and the alignment asked for (`UpwardLeast`),
`balloc_before` is the same on the other side of zero (`OppositeSuits`), and
both fit if there is a place between that suits. That these are least and
greatest needs that of an element size and an alignment one divides the other
(`PowersOfTwo`; a `long double` of 12 bytes is left out); that a difference of
pointers is what it seems, that the segment is smaller than the address space
(`Addressable`).

*Techniques.* Facts that need induction over the naturals (the least element
of a set, a pigeon hole) come from the well-founded sets of the library:
`WFMin` with `NatLessThanWellFounded`. A lemma `A => B` about a state is used
about the next state as `A' => B'` by `PTL`.

*Only model-checked:* liveness (`CallsReturn`, `FinalizeReturns`,
`NothingWaitsForever`, `ProbesSucceed`), which is out of the prover's reach;
what the folds over sequences of `GaDistribution`, `GaIterator` and
`DraSections` compute (`LayoutSound`, `EachElementOnce`, `PiecesSound`,
`DefaultMapSound`, and with them the type of the iterator's state), which
needs induction over data. `Decomposed` and `WellPlaced`, which `DraRequests`
needs of these folds, are therefore hypotheses of its theorems, and hold of the
array of the run (`MCDra`); `LayoutSound` is about every section of 28 shapes.

## 5. What is not modelled

*Inside the modelled parts:* partial visibility of a transfer; failures of
MPI, of `shm_open`, of the disk or of a process (the runtime aborts the job);
integer widths except in MA's inquiries; the packing of strided and vector
data; the lists and the interval comparison of `reg_cache.c`; arrays with more
than two dimensions, on groups, mirrored or with ghost cells; DRA's
transposition and its two-dimensional interface; file extents of `elio`. The
uninitialized return of `get_num_progress_ranks_per_node` for a setting
outside 1..15 is listed as a hazard: any number from 1 to 15 is a layout.

*Whole parts:* the other ComEx ports, `cmx` and legacy ARMCI, which are
alternatives to the runtime modelled here, most of them for networks outside
the repository; the numerical algorithms, bindings and third-party linear
algebra; EAF, SF, GP arrays, TCGMSG. Most of the repository's 200,000 lines
are of these kinds, so the modules cover a small share of its lines: a
twentieth of all, two fifths to three quarters of the files with the
protocols (`comex.c`, `nbutil.c`, `iterator.c`, `ma.c`, `groups.h`) and a
third of `disk.arrays.c`.

## 6. Plan

Every invariant and action property of the runs that does not rest on a fold
is stated by a theorem. That every array satisfies `Decomposed` and
`WellPlaced`, which would rid `DraRequests` of its hypotheses, waits for a
prover with induction over data.

Modules that would be worth adding: `RegCache` (the lists of `reg_cache.c`,
implementing the sets of `ComexMalloc`), `Strided` (`pack` and `unpack`),
`GaMutex` and `Nxtval` over `ComexMutex` and `ComexOneSided`, and the mutexes
and the K&R allocator of legacy ARMCI.
