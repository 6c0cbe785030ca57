---------------------------- MODULE MaAllocator ----------------------------
(***************************************************************************)
(* The memory allocator of ma/ma.c and its table of handles, ma/table.c.   *)
(* One segment is a heap that grows upward from its start and a stack that *)
(* grows downward from its end:                                            *)
(*                                                                         *)
(*   segment = heap_region stack_region                                    *)
(*   block   = AD gap1 guard1 client_space guard2 gap2                     *)
(*                                                                         *)
(* Addresses are bytes.  A block on a used list is an allocation           *)
(* descriptor indexed by its address; the free list is kept in the order   *)
(* of the addresses, and of its descriptors only the length is used, so    *)
(* that it is the lengths by address.  A call that fails prints a message  *)
(* and changes nothing, unless an action below says so; a client stays     *)
(* inside its client space, so the checksums and the guards that mh2ad     *)
(* looks at are intact as long as blocks do not overlap.                   *)
(***************************************************************************)
EXTENDS Integers, FiniteSets, Functions, FiniteSetsExt

CONSTANTS
  Datatype,        \* the datatypes a client uses
  ma_sizeof,       \* their sizes, powers of two
  ma_base,         \* the addresses of their base arrays
  AdSize,          \* sizeof(AD)
  GuardSize,       \* sizeof(Guard)
  Alignment,       \* ALIGNMENT, sizeof(size_t)
  SizeMod,         \* size_t arithmetic is modulo this
  DefaultTotal,    \* DEFAULT_TOTAL_HEAP, DEFAULT_TOTAL_STACK
  TableEntries,    \* DEFAULT_TABLE_ENTRIES
  InitArgs,        \* arguments of MA_init: [datatype, stack, heap]
  Segments,        \* addresses malloc may return
  Counts,          \* numbers of elements that clients ask for
  NumAligns,       \* arguments of MA_set_numalign
  AlignAnyTime,    \* whether it may be called while blocks are allocated
  MaxLost          \* bound on allocations for which the table cannot grow

(* malloc returns addresses that suit any type.                            *)
ASSUME MaAssumption ==
  /\ ma_sizeof \in [Datatype -> Nat \ {0}]
  /\ ma_base \in [Datatype -> Nat]
  /\ AdSize \in Nat \ {0} /\ GuardSize \in Nat /\ Alignment \in Nat \ {0}
  /\ SizeMod \in Nat \ {0} /\ DefaultTotal \in Nat
  /\ TableEntries \in Nat \ {0} /\ MaxLost \in Nat
  /\ InitArgs \subseteq [datatype : Datatype, stack : Int, heap : Int]
  /\ Segments \subseteq {a \in Nat : a % Alignment = 0}
  /\ Counts \subseteq Nat
  /\ AlignAnyTime \in BOOLEAN

None == -1     \* no block

VARIABLES
  ma_initialized,
  ma_segment, ma_partition, ma_eos,
  ma_hp, ma_sp,
  ma_hfree,        \* address -> nbytes
  ma_hused,        \* address -> [datatype, nelem, client_space, nbytes]
  ma_sused,        \* the same for the stack
  ma_numalign,
  ma_table,        \* slot -> address, or None when the slot is not in use
  ma_table_entries,
  ma_table_next_slot,
  lost             \* history: blocks for which there was no handle

segment == <<ma_initialized, ma_segment, ma_partition, ma_eos>>
table == <<ma_table, ma_table_entries, ma_table_next_slot>>
vars == <<segment, ma_hp, ma_sp, ma_hfree, ma_hused, ma_sused, ma_numalign,
          table, lost>>

(***************************************************************************)
(* Sizes.                                                                  *)
(***************************************************************************)
RoundUp(value, unit) == value + ((- value) % unit)

BlockOverheadFixed == AdSize + 2 * GuardSize

MinBlockSize == RoundUp(Alignment + BlockOverheadFixed, Alignment)

MaxBlockOverhead(d) ==
  BlockOverheadFixed + (ma_sizeof[d] - 1) + (Alignment - 1)

AR(d, n) == [datatype |-> d, nelem |-> n]

Length(ar) == ar.nelem * ma_sizeof[ar.datatype]

(* Bug variant: realigned whether or not the datatype allows it. *)
balloc_after_realigned(ar, address) ==
  LET gap1 == (ma_base[ar.datatype] - address - AdSize - GuardSize)
                % ma_sizeof[ar.datatype]
      first == address + AdSize + gap1 + GuardSize
      client == first + ((- first) % (2 ^ ma_numalign))
      gap2 == (address - client - Length(ar) - GuardSize) % Alignment
  IN [client_space |-> client,
      nbytes |-> client + Length(ar) + GuardSize + gap2 - address]

(* The block for ar that starts at address: the first place for the client *)
(* space that suits its datatype, moved up to the alignment asked for if   *)
(* that keeps the first.                                                   *)
balloc_after(ar, address) ==
  LET size == ma_sizeof[ar.datatype]
      gap1 == (ma_base[ar.datatype] - address - AdSize - GuardSize) % size
      first == address + AdSize + gap1 + GuardSize
      up == (- first) % (2 ^ ma_numalign)
      client == IF up % size = 0 THEN first + up ELSE first
      gap2 == (address - client - Length(ar) - GuardSize) % Alignment
  IN [client_space |-> client,
      nbytes |-> client + Length(ar) + GuardSize + gap2 - address]

(* The block for ar that ends before address. *)
balloc_before(ar, address) ==
  LET size == ma_sizeof[ar.datatype]
      gap2 == (address - GuardSize - Length(ar) - ma_base[ar.datatype]) % size
      first == address - gap2 - GuardSize - Length(ar)
      down == first % (2 ^ ma_numalign)
      client == IF down % size = 0 THEN first - down ELSE first
      gap1 == (client - GuardSize - AdSize) % Alignment
  IN [client_space |-> client,
      nbytes |-> address - client + GuardSize + gap1 + AdSize]

(***************************************************************************)
(* The free list.                                                          *)
(***************************************************************************)
list_insert_ordered(ad, list) ==
  [a \in DOMAIN list \union {ad.at} |-> IF a = ad.at THEN ad.nbytes ELSE list[a]]

(* Each run of contiguous blocks becomes one: it goes from a block that    *)
(* follows none to the next end at which no block begins.                  *)
list_coalesce(list) ==
  LET ends == {a + list[a] : a \in DOMAIN list}
      beyond(a) == Min({e \in ends \ DOMAIN list : a < e})
  IN [a \in DOMAIN list \ ends |-> beyond(a) - a]

(* Bug variant: free blocks behind the last used one stay on the list. *)
block_free_heap_keep(ad, used) ==
  IF DOMAIN used = {} THEN ma_hp' = ma_segment /\ ma_hfree' = <<>>
  ELSE LET max_ad == Max(DOMAIN used)
       IN /\ ma_hp' = max_ad + used[max_ad].nbytes
          /\ ma_hfree' = IF ad.at < max_ad
                         THEN list_coalesce(list_insert_ordered(ad, ma_hfree))
                         ELSE ma_hfree

(* block_free_heap, once the used list is `used': the heap ends behind its *)
(* rightmost used block.                                                   *)
block_free_heap(ad, used) ==
  IF DOMAIN used = {} THEN ma_hp' = ma_segment /\ ma_hfree' = <<>>
  ELSE LET max_ad == Max(DOMAIN used)
           left == Restrict(ma_hfree, {a \in DOMAIN ma_hfree : a <= max_ad})
       IN /\ ma_hp' = max_ad + used[max_ad].nbytes
          /\ ma_hfree' = IF ad.at < max_ad
                         THEN list_coalesce(list_insert_ordered(ad, left))
                         ELSE left

(* Bug variant: any rest will do. *)
SplitsAlways(nbytes, bytes_needed) == nbytes - bytes_needed >= 0

(* block_split: the rest of a block is worth a block of its own. *)
Splits(nbytes, bytes_needed) == nbytes - bytes_needed >= MinBlockSize

ad_big_enough(at, ar) == balloc_after(ar, at).nbytes <= ma_hfree[at]

(***************************************************************************)
(* The table of handles.                                                   *)
(***************************************************************************)
Capacity == Cardinality(DOMAIN ma_table)

TableFull == ma_table_entries >= Capacity

(* The next free slot is sought from where the last one was found; a full  *)
(* table is doubled first, for which there may be no memory.               *)
ma_table_allocate(at) ==
  LET cap == IF ~ TableFull THEN Capacity
             ELSE IF Capacity = 0 THEN TableEntries ELSE 2 * Capacity
      start == IF TableFull THEN Capacity ELSE ma_table_next_slot
      new == [i \in 0..(cap - 1) |->
                IF i < Capacity THEN ma_table[i] ELSE None]
      tries == {k \in 0..(cap - 1) : new[(start + k) % cap] = None}
      slot == (start + Min(tries)) % cap
  IN /\ ma_table' = [new EXCEPT ![slot] = at]
     /\ ma_table_entries' = ma_table_entries + 1
     /\ ma_table_next_slot' = (slot + 1) % cap

(* The caller keeps the block when there is no handle for it. *)
TakeHandle(at) ==
  \/ ma_table_allocate(at) /\ UNCHANGED lost
  \/ /\ TableFull /\ Cardinality(lost) < MaxLost
     /\ lost' = lost \union {at}
     /\ UNCHANGED table

ma_table_deallocate(slots) ==
  /\ ma_table' = [i \in DOMAIN ma_table |->
                    IF i \in slots THEN None ELSE ma_table[i]]
  /\ ma_table_entries' = ma_table_entries - Cardinality(slots)
  /\ UNCHANGED ma_table_next_slot

\* mh2ad: the handles of blocks on a used list.
Handles(used) == {i \in DOMAIN ma_table : ma_table[i] \in DOMAIN used}

AddBlock(used, at, ad) ==
  [a \in DOMAIN used \union {at} |-> IF a = at THEN ad ELSE used[a]]

Block(ar, t, nbytes) ==
  [datatype |-> ar.datatype, nelem |-> ar.nelem,
   client_space |-> t.client_space, nbytes |-> nbytes]

(***************************************************************************)
(* Calls.                                                                  *)
(***************************************************************************)
RegionBytes(nominal, d) ==
  RoundUp(IF nominal < 0 THEN DefaultTotal
          ELSE nominal * ma_sizeof[d] + MaxBlockOverhead(d), Alignment)

MA_init(args, address) ==
  /\ ~ ma_initialized
  /\ LET heap_bytes == RegionBytes(args.heap, args.datatype)
         stack_bytes == RegionBytes(args.stack, args.datatype)
     IN /\ ma_segment' = address
        /\ ma_partition' = address + heap_bytes
        /\ ma_eos' = address + heap_bytes + stack_bytes
        /\ ma_hp' = address
        /\ ma_sp' = address + heap_bytes + stack_bytes
  /\ ma_initialized' = TRUE
  /\ ma_hfree' = <<>> /\ ma_hused' = <<>> /\ ma_sused' = <<>>
  /\ UNCHANGED <<ma_numalign, table, lost>>

(* MA_allocate_heap from the free list: the first block that is big        *)
(* enough, less what is worth splitting off.                               *)
AllocateFromFree(ar) ==
  /\ ma_initialized
  /\ \E at \in DOMAIN ma_hfree :
       LET nbytes == ma_hfree[at]
           left == Restrict(ma_hfree, DOMAIN ma_hfree \ {at})
           t == balloc_after(ar, at)
           split == Splits(nbytes, t.nbytes)
           rest == [at |-> at + t.nbytes, nbytes |-> nbytes - t.nbytes]
       IN /\ ad_big_enough(at, ar)
          /\ \A a \in DOMAIN ma_hfree : a < at => ~ ad_big_enough(a, ar)
          /\ ma_hfree' = IF split THEN list_insert_ordered(rest, left) ELSE left
          /\ ma_hused' = AddBlock(ma_hused, at,
                 Block(ar, t, IF split THEN t.nbytes ELSE nbytes))
          /\ TakeHandle(at)
  /\ UNCHANGED <<segment, ma_hp, ma_sp, ma_sused, ma_numalign>>

(* MA_allocate_heap when no free block will do. *)
AllocateFromGap(ar) ==
  /\ ma_initialized
  /\ \A at \in DOMAIN ma_hfree : ~ ad_big_enough(at, ar)
  /\ LET t == balloc_after(ar, ma_hp)
     IN /\ ma_hp + t.nbytes <= ma_sp
        /\ ma_hp' = ma_hp + t.nbytes
        /\ ma_hused' = AddBlock(ma_hused, ma_hp, Block(ar, t, t.nbytes))
        /\ TakeHandle(ma_hp)
  /\ UNCHANGED <<segment, ma_sp, ma_hfree, ma_sused, ma_numalign>>

MA_allocate_heap(ar) == AllocateFromFree(ar) \/ AllocateFromGap(ar)

MA_free_heap(h) ==
  /\ h \in Handles(ma_hused)
  /\ LET at == ma_table[h]
         used == Restrict(ma_hused, DOMAIN ma_hused \ {at})
     IN /\ ma_hused' = used
        /\ block_free_heap([at |-> at, nbytes |-> ma_hused[at].nbytes], used)
  /\ ma_table_deallocate({h})
  /\ UNCHANGED <<segment, ma_sp, ma_sused, ma_numalign, lost>>

(* Keep the first elements of a block and give back the rest, if it is     *)
(* worth a block; a client that gives back all calls MA_free_heap.         *)
MA_free_heap_piece(h, nelem) ==
  /\ h \in Handles(ma_hused)
  /\ LET at == ma_table[h]
         ad == ma_hused[at]
         keep == AR(ad.datatype, ad.nelem - nelem)
         t == balloc_after(keep, at)
         split == t.nbytes < ad.nbytes /\ Splits(ad.nbytes, t.nbytes)
         used == [ma_hused EXCEPT
                    ![at].nelem = keep.nelem,
                    ![at].nbytes = IF split THEN t.nbytes ELSE @]
     IN /\ nelem < ad.nelem
        /\ ma_hused' = used
        /\ IF split
           THEN block_free_heap([at |-> at + t.nbytes,
                                 nbytes |-> ad.nbytes - t.nbytes], used)
           ELSE UNCHANGED <<ma_hp, ma_hfree>>
  /\ UNCHANGED <<segment, ma_sp, ma_sused, ma_numalign, table, lost>>

MA_push_stack(ar) ==
  /\ ma_initialized
  /\ LET t == balloc_before(ar, ma_sp)
         new_sp == ma_sp - t.nbytes
     IN /\ ma_sp - ma_hp >= t.nbytes
        /\ ma_sp' = new_sp
        /\ ma_sused' = AddBlock(ma_sused, new_sp, Block(ar, t, t.nbytes))
        /\ TakeHandle(new_sp)
  /\ UNCHANGED <<segment, ma_hp, ma_hfree, ma_hused, ma_numalign>>

MA_pop_stack(h) ==
  /\ h \in Handles(ma_sused)
  /\ ma_table[h] = ma_sp
  /\ ma_sp' = ma_sp + ma_sused[ma_sp].nbytes
  /\ ma_sused' = Restrict(ma_sused, DOMAIN ma_sused \ {ma_sp})
  /\ ma_table_deallocate({h})
  /\ UNCHANGED <<segment, ma_hp, ma_hfree, ma_hused, ma_numalign, lost>>

(* Pop the block of h and all blocks pushed after it. *)
MA_chop_stack(h) ==
  /\ h \in Handles(ma_sused)
  /\ LET at == ma_table[h]
         above == {a \in DOMAIN ma_sused : a <= at}
     IN /\ ma_sp' = at + ma_sused[at].nbytes
        /\ ma_sused' = Restrict(ma_sused, DOMAIN ma_sused \ above)
        /\ ma_table_deallocate({i \in Handles(ma_sused) : ma_table[i] \in above})
        /\ lost' = lost \ above
  /\ UNCHANGED <<segment, ma_hp, ma_hfree, ma_hused, ma_numalign>>

MA_set_numalign(value) ==
  /\ value \in 0..30
  /\ AlignAnyTime \/ DOMAIN ma_hused \union DOMAIN ma_sused = {}
  /\ ma_numalign' = value
  /\ UNCHANGED <<segment, ma_hp, ma_sp, ma_hfree, ma_hused, ma_sused, table,
                 lost>>

(***************************************************************************)
(* Inquiries.                                                              *)
(***************************************************************************)
\* The difference of two pointers as a size_t.
SizeT(x) == x % SizeMod

(* Bug variant: the gaps are not counted. *)
ma_nelem_gapless(address, length, d) ==
  IF length <= BlockOverheadFixed THEN 0
  ELSE (length - BlockOverheadFixed) \div ma_sizeof[d]

(* The most elements that fit in length bytes from address, counted down   *)
(* from what would fit without gaps.                                       *)
ma_nelem(address, length, d) ==
  LET most == (length - BlockOverheadFixed) \div ma_sizeof[d]
      Fits(n) == n = 0 \/ balloc_after(AR(d, n), address).nbytes <= length
  IN IF length <= BlockOverheadFixed THEN 0
     ELSE most - CHOOSE k \in 0..most :
                   Fits(most - k) /\ \A j \in 0..(k - 1) : ~ Fits(most - j)

(* The same for the blocks of the free list, as far as they are in front   *)
(* of the partition, that have room for min_nelem elements.                *)
ma_max_heap_frag_nelem(d, min_nelem) ==
  LET min_bytes == min_nelem * ma_sizeof[d] + BlockOverheadFixed
      Bytes(at) == Min({ma_hfree[at], ma_partition - at})
      frags == {at \in DOMAIN ma_hfree :
                  at < ma_partition /\ Bytes(at) >= min_bytes}
  IN Max({0} \union {ma_nelem(at, Bytes(at), d) : at \in frags})

WithFragments(d, gap) == Max({gap, ma_max_heap_frag_nelem(d, gap)})

(* MA_inquire_stack_no_partition is the same. *)
MA_inquire_avail(d) == ma_nelem(ma_hp, SizeT(ma_sp - ma_hp), d)

MA_inquire_heap(d) ==
  WithFragments(d, IF ma_partition > ma_hp
                   THEN ma_nelem(ma_hp, SizeT(ma_partition - ma_hp), d)
                   ELSE 0)

MA_inquire_heap_check_stack(d) ==
  LET gap == Min({SizeT(ma_partition - ma_hp), SizeT(ma_sp - ma_hp)})
  IN WithFragments(d, ma_nelem(ma_hp, gap, d))

MA_inquire_heap_no_partition(d) == WithFragments(d, MA_inquire_avail(d))

MA_inquire_stack(d) ==
  ma_nelem(ma_partition, SizeT(ma_sp - ma_partition), d)

MA_inquire_stack_check_heap(d) ==
  LET gap == Min({SizeT(ma_sp - ma_partition), SizeT(ma_sp - ma_hp)})
  IN ma_nelem(ma_partition, gap, d)

(***************************************************************************)
(* Specification.                                                          *)
(***************************************************************************)
Init ==
  /\ ma_initialized = FALSE
  /\ ma_segment = 0 /\ ma_partition = 0 /\ ma_eos = 0
  /\ ma_hp = 0 /\ ma_sp = 0
  /\ ma_hfree = <<>> /\ ma_hused = <<>> /\ ma_sused = <<>>
  /\ ma_numalign = 0
  /\ ma_table = <<>> /\ ma_table_entries = 0 /\ ma_table_next_slot = 0
  /\ lost = {}

Next ==
  \/ \E args \in InitArgs, address \in Segments : MA_init(args, address)
  \/ \E d \in Datatype, n \in Counts :
       MA_allocate_heap(AR(d, n)) \/ MA_push_stack(AR(d, n))
  \/ \E h \in DOMAIN ma_table :
       MA_free_heap(h) \/ MA_pop_stack(h) \/ MA_chop_stack(h)
  \/ \E h \in DOMAIN ma_table, n \in Counts : MA_free_heap_piece(h, n)
  \/ \E value \in NumAligns : MA_set_numalign(value)

Spec == Init /\ [][Next]_vars

(***************************************************************************)
(* Properties.                                                             *)
(***************************************************************************)
(* The variables have the shapes the code gives them. *)
TypeOK ==
  /\ ma_initialized \in BOOLEAN
  /\ {ma_segment, ma_partition, ma_eos, ma_hp, ma_sp} \subseteq Nat
  /\ \A a \in DOMAIN ma_hfree : a \in Nat /\ ma_hfree[a] \in Nat \ {0}
  /\ \A used \in {ma_hused, ma_sused} : \A a \in DOMAIN used :
       used[a].datatype \in Datatype /\ used[a].nelem \in Nat
  /\ ma_table_next_slot \in 0..Capacity

(* Blocks, given by the end of each by its start, fill the bytes from lo   *)
(* to hi, each byte once: they do not overlap, and where one ends another  *)
(* begins.                                                                 *)
Tile(end, lo, hi) ==
  /\ \A a \in DOMAIN end : lo <= a /\ a < end[a] /\ end[a] <= hi
  /\ \A a, b \in DOMAIN end : a < b => end[a] <= b
  /\ lo # hi => lo \in DOMAIN end
  /\ \A a \in DOMAIN end : end[a] # hi => end[a] \in DOMAIN end

Ends(used, free) ==
  [a \in DOMAIN used \union DOMAIN free |->
     a + IF a \in DOMAIN used THEN used[a].nbytes ELSE free[a]]

(* The heap and the stack do not collide; the used and the free blocks     *)
(* fill the heap, and the used blocks the stack, without overlap, and      *)
(* after any sequence of allocations, splits, partial and full frees and   *)
(* merges no byte is lost ("preventing any memory leakage").               *)
RegionsTiled ==
  /\ ma_segment <= ma_hp /\ ma_hp <= ma_sp /\ ma_sp <= ma_eos
  /\ DOMAIN ma_hused \intersect DOMAIN ma_hfree = {}
  /\ Tile(Ends(ma_hused, ma_hfree), ma_segment, ma_hp)
  /\ Tile(Ends(ma_sused, <<>>), ma_sp, ma_eos)

(* In every block the descriptor, the guards and the client space follow   *)
(* each other without overlap and within the block, the descriptor is      *)
(* aligned, and the client space is a whole number of elements from the    *)
(* base array of its datatype, so that MA_get_index is exact.              *)
BlocksWellFormed ==
  \A used \in {ma_hused, ma_sused} : \A a \in DOMAIN used :
    LET b == used[a]
    IN /\ a % Alignment = 0
       /\ a + AdSize + GuardSize <= b.client_space
       /\ b.client_space + Length(b) + GuardSize <= a + b.nbytes
       /\ (b.client_space - ma_base[b.datatype]) % ma_sizeof[b.datatype] = 0

(* What can be merged on the free list is merged, and no free block is     *)
(* behind the last used one, where it belongs to the gap.                  *)
FreeListCoalesced ==
  \A a \in DOMAIN ma_hfree :
    /\ a + ma_hfree[a] \notin DOMAIN ma_hfree
    /\ \E u \in DOMAIN ma_hused : u > a

(* Every byte of the segment is in one block or in the gap, and what is    *)
(* free is as large as it can be.                                          *)
SegmentTiled == RegionsTiled /\ FreeListCoalesced

(* Every handle stands for one used block, every used block has one handle *)
(* or none because the table could not grow, and the count that decides    *)
(* when the table grows is right.                                          *)
HandlesMatchBlocks ==
  LET taken == {i \in DOMAIN ma_table : ma_table[i] # None}
  IN /\ ma_table_entries = Cardinality(taken)
     /\ \A i, j \in taken : ma_table[i] = ma_table[j] => i = j
     /\ {ma_table[i] : i \in taken} \intersect lost = {}
     /\ {ma_table[i] : i \in taken} \union lost
          = DOMAIN ma_hused \union DOMAIN ma_sused

(* What a handle stands for is a block that a client can use.              *)
HandlesSound == HandlesMatchBlocks /\ BlocksWellFormed

CanAllocate(d, n) ==
  \/ \E at \in DOMAIN ma_hfree : ad_big_enough(at, AR(d, n))
  \/ ma_hp + balloc_after(AR(d, n), ma_hp).nbytes <= ma_sp

CanPush(d, n) == balloc_before(AR(d, n), ma_sp).nbytes <= ma_sp - ma_hp

Allocatable(d, n) == n = 0 \/ CanAllocate(d, n)

Pushable(d, n) == n = 0 \/ CanPush(d, n)

(* The inquiries that promise it can be relied on: as many elements as     *)
(* they return (if any) can be had at once, on the heap, on the stack or,  *)
(* for MA_inquire_avail, on either, although stack blocks are laid out     *)
(* from the other end; and of the gap nothing more could be had.  The ones *)
(* that do not look at the other end promise it while that end has not     *)
(* crossed the partition, and MA_inquire_stack_check_heap, which counts    *)
(* from the partition, while neither has.                                  *)
InquiriesHold ==
  ma_initialized =>
    \A d \in Datatype :
      /\ Allocatable(d, MA_inquire_avail(d)) /\ Pushable(d, MA_inquire_avail(d))
      /\ ~ CanPush(d, MA_inquire_avail(d) + 1)
      /\ Allocatable(d, MA_inquire_heap_check_stack(d))
      /\ Allocatable(d, MA_inquire_heap_no_partition(d))
      /\ ma_sp >= ma_partition => Allocatable(d, MA_inquire_heap(d))
      /\ ma_hp <= ma_partition /\ ma_partition <= ma_sp =>
           /\ Pushable(d, MA_inquire_stack(d))
           /\ Pushable(d, MA_inquire_stack_check_heap(d))

(* The theorem about inquiries needs two things of the machine.  Of a      *)
(* datatype's size and an alignment one divides the other, since both are  *)
(* powers of two; and the segment is smaller than the address space.       *)
PowersOfTwo ==
  \A d \in Datatype, value \in (NumAligns \intersect 0..30) \union {0} :
    (2 ^ value) % ma_sizeof[d] = 0 \/ ma_sizeof[d] % (2 ^ value) = 0

Addressable ==
  \A args \in InitArgs :
    RegionBytes(args.heap, args.datatype) + RegionBytes(args.stack, args.datatype)
      < SizeMod
=============================================================================
