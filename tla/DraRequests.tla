---------------------------- MODULE DraRequests ----------------------------
(***************************************************************************)
(* Asynchronous transfers between a global array and a disk resident array *)
(* (pario/dra/disk.arrays.c, buffers.c, over pario/elio/elio.c).           *)
(*                                                                         *)
(* All calls are collective: every process makes the same calls in the     *)
(* same order, and they meet in the pnga_sync or the pnga_gop of a call.   *)
(* A transfer is cut into pieces (module DraSections); the process whose   *)
(* turn a piece is moves it through one of its NBuf buffers and returns    *)
(* while disk operations and moves to the global array are still under     *)
(* way.  dra_wait_, dra_probe_ and a later transfer that needs a buffer    *)
(* complete them.                                                          *)
(*                                                                         *)
(* The application keeps at most MaxReq transfers outstanding, and issues  *)
(* none that touches chunks of an outstanding one unless both are reads.   *)
(***************************************************************************)
EXTENDS DraSections

CONSTANTS Array,       \* the disk resident array, as in DraSections
          Transfers,   \* the transfers an application may ask for: op, sect
          NBuf,        \* nbuf, buffers of a process
          MaxAio,      \* MAX_AIO_REQ, disk operations under way in a process
          MaxReq,      \* MAX_REQ, request handles
          MaxTransfers, \* bound on the transfers issued
          Shapes       \* arrays for the properties of DraSections

ASSUME DraBounds ==
  /\ NBuf \in Nat \ {0} /\ MaxAio \in Nat
  /\ MaxReq \in Nat \ {0} /\ MaxTransfers \in Nat

VARIABLES
  prog,     \* the calls some process is in: the one the last process is in,
            \* and the next one if a process is already there
  at,       \* process -> which of these, and how far it has come in it
  left,     \* process -> pieces of its transfer it has yet to begin
  buf,      \* process -> buffer -> its state
  last_buf, \* process -> the buffer handed out last
  pending,  \* process -> request handle -> Requests[].num_pending
  handle,   \* process -> transfer -> the request handle it was given
  known,    \* process -> transfers it has been told are complete
  disk,     \* file and offset -> value
  got,      \* transfer -> element -> what a read has put in the global array
  asked,    \* the transfers issued, in order
  file,     \* file and offset -> value the issued writes leave
  want      \* transfer -> elements with the values a read should deliver

vars == <<prog, at, left, buf, last_buf, pending, handle, known, disk, got,
          asked, file, want>>

None == -1
Proc == 0..(Array.ioprocs - 1)
Slots == 1..MaxReq
Whole == [lo |-> [i \in Dim(Array) |-> 1], hi |-> Array.dims]
Cells == Elements(Whole)

\* The elements of section s with their places on disk, and the places of
\* all elements in the chunks that a transfer of s touches.
PlacesOf(s) ==
  UNION {{<<e, Location(Array, x.chunk, e)>> : e \in Elements(x.part)} :
           x \in ToSet(Pieces(Array, s))}
Touched(s) ==
  UNION {{Location(Array, x.chunk, e) : e \in Elements(x.chunk)} :
           x \in ToSet(Pieces(Array, s))}

(***************************************************************************)
(* The stages of a call.  A pnga_sync is entered when the process has no   *)
(* move to the global array under way and left when all have entered it.   *)
(***************************************************************************)
Enter1 == 1
Leave1 == 2
Work == 3
Enter2 == 4
Leave2 == 5
Out == 6

Call(p) == prog[at[p].n]
In(p, kinds, stage) == Call(p).kind \in kinds /\ at[p].stage = stage
Goto(p, stage) == at' = [at EXCEPT ![p].stage = stage]

AllReached(n, stage) ==
  \A q \in Proc : at[q].n > n \/ (at[q].n = n /\ at[q].stage >= stage)

(* Bug variant: pnga_sync is a barrier and no fence. *)
FencedNot(p) == TRUE

Fenced(p) == \A b \in 1..NBuf : ~ buf[p][b].mov

Sync(p) ==
  \/ /\ \/ In(p, {"write", "read"}, Enter1)
        \/ In(p, {"write", "wait"}, Enter2)
     /\ Fenced(p)
     /\ Goto(p, at[p].stage + 1)
     /\ UNCHANGED <<prog, left, buf, last_buf, pending, handle, known, disk, got,
                    asked, file, want>>
  \/ /\ In(p, {"write", "wait"}, Leave2)
     /\ AllReached(at[p].n, Leave2)
     /\ Goto(p, Out)
     /\ known' = IF Call(p).kind = "wait"
                 THEN [known EXCEPT ![p] = @ \union {Call(p).t}] ELSE known
     /\ UNCHANGED <<prog, left, buf, last_buf, pending, handle, disk, got, asked,
                    file, want>>

(***************************************************************************)
(* Buffers: get_buf, wait_buf, ga_dra_free_buf.                            *)
(*                                                                         *)
(* The io of a buffer is "none", "read" or "write" while the disk works on *)
(* it, or "ready": done, but elio has not been asked and keeps its entry.  *)
(* mov is whether a non-blocking put from it is under way.                 *)
(***************************************************************************)
FreeBuf ==
  [active |-> FALSE, call |-> None, t |-> None, op |-> "none", align |-> FALSE,
   callback |-> FALSE, io |-> "none", mov |-> FALSE,
   piece |-> [align |-> FALSE, chunk |-> Whole, part |-> Whole],
   where |-> <<>>, data |-> <<>>]

(* The global array after the part of the buffer's piece that was asked    *)
(* for has been put there.                                                 *)
Stored(b) ==
  [got EXCEPT ![b.t] = [e \in Cells |-> IF e \in Elements(b.piece.part)
                                        THEN b.data[e] ELSE @[e]]]

\* wait_buf returns when this holds, and leaves b so.
Waited(b) ==
  CASE b.op = "write" -> b.io \notin {"read", "write"}
    [] b.op = "read" /\ ~ b.align -> ~ b.mov
    [] b.op = "read" /\ b.align -> b.io \notin {"read", "write"}
    [] OTHER -> TRUE

CallbackDue(b) == b.op = "read" /\ b.align /\ b.callback

(* Bug variant: elio_wait returns without giving up its entry. *)
AfterWaitKeepsEntry(b) ==
  [b EXCEPT !.callback = IF CallbackDue(b) THEN FALSE ELSE @,
            !.active = IF CallbackDue(b) THEN FALSE ELSE @]

AfterWait(b) ==
  [b EXCEPT !.io = "none",
            !.callback = IF CallbackDue(b) THEN FALSE ELSE @,
            !.active = IF CallbackDue(b) THEN FALSE ELSE @]

GaAfterWait(b) == IF CallbackDue(b) THEN Stored(b) ELSE got

(* The buffer get_buf hands out: the first inactive one, or else the one   *)
(* after the last one handed out, which it waits for.                      *)
NextBuf(p) ==
  LET free == {b \in 1..NBuf : ~ buf[p][b].active}
  IN IF free # {} THEN Min(free) ELSE (last_buf[p] % NBuf) + 1

Taken(p, b) == IF buf[p][b].active THEN AfterWait(buf[p][b]) ELSE buf[p][b]

\* Room in elio's table: the disk operation need not be done on the spot.
AioFree(p) ==
  Cardinality({b \in 1..NBuf : buf[p][b].io # "none"}) < MaxAio

\* The data that disk has for buffer b, and the disk with the data of b.
OnDisk(b) == [e \in DOMAIN b.where |-> disk[b.where[e]]]
WithChunk(b) ==
  [x \in DOMAIN disk |->
     IF \E e \in DOMAIN b.where : b.where[e] = x
     THEN b.data[CHOOSE e \in DOMAIN b.where : b.where[e] = x]
     ELSE disk[x]]

\* elio_aread and elio_awrite, which work on the spot when the table is full.
Read(p, b) ==
  IF AioFree(p) THEN [b EXCEPT !.io = "read"]
  ELSE [b EXCEPT !.data = OnDisk(b)]
Written(p, b) == IF AioFree(p) THEN [b EXCEPT !.io = "write"] ELSE b
DiskWritten(p, b) ==
  IF AioFree(p) THEN disk ELSE WithChunk(b)

\* nga_move with LOAD, and its wait: the application's values are those of
\* the transfer, one for all its elements.
Loaded(b) ==
  [b EXCEPT !.data = [e \in Elements(b.piece.chunk) |->
     IF e \in Elements(b.piece.part) THEN b.t ELSE @[e]]]

(***************************************************************************)
(* ndra_write_section_ and ndra_read_section_.                             *)
(***************************************************************************)
MyTurn(p, s) == SelectSeq(Pieces(Array, s), LAMBDA x : Turn(Array, x.chunk) = p)

FreeSlots(p) == {i \in Slots : ~ pending[p][i]}

(* dai_assign_request_handle and ndai_decomp_section, after the first      *)
(* pnga_sync.  Without a free handle the program is aborted.               *)
AssignRequest(p) ==
  /\ In(p, {"write", "read"}, Leave1)
  /\ AllReached(at[p].n, Leave1)
  /\ FreeSlots(p) # {}
  /\ LET i == Min(FreeSlots(p))
     IN /\ pending' = [pending EXCEPT ![p][i] = TRUE]
        /\ handle' = [handle EXCEPT ![p][Call(p).t] = i]
  /\ left' = [left EXCEPT ![p] = MyTurn(p, asked[Call(p).t].sect)]
  /\ Goto(p, Work)
  /\ UNCHANGED <<prog, buf, last_buf, known, disk, got, asked, file, want>>

(* The next piece gets a buffer.  Aligned: the data is loaded and written, *)
(* or read with a callback that will store it.  Unaligned: the chunk is    *)
(* read first; its piece stays at the head of left.                        *)
BeginPiece(p) ==
  /\ In(p, {"write", "read"}, Work) /\ left[p] # <<>>
  /\ \A b \in 1..NBuf : buf[p][b].op # "cover"
  /\ LET n == NextBuf(p)
         old == buf[p][n]
         x == Head(left[p])
         mine == [Taken(p, n) EXCEPT
                    !.active = TRUE, !.call = handle[p][Call(p).t],
                    !.t = Call(p).t, !.align = x.align, !.piece = x,
                    !.where = [e \in Elements(x.chunk) |-> Location(Array, x.chunk, e)],
                    !.op = IF x.align THEN Call(p).kind ELSE "cover",
                    !.callback = IF x.align THEN Call(p).kind = "read" ELSE @]
         loaded == Loaded(mine)
         writes == x.align /\ Call(p).kind = "write"
     IN /\ old.active => Waited(old)
        /\ got' = IF old.active THEN GaAfterWait(old) ELSE got
        /\ buf' = [buf EXCEPT ![p][n] = IF writes THEN Written(p, loaded)
                                        ELSE Read(p, mine)]
        /\ disk' = IF writes THEN DiskWritten(p, loaded) ELSE disk
        /\ last_buf' = [last_buf EXCEPT ![p] = n]
        /\ left' = IF x.align THEN [left EXCEPT ![p] = Tail(@)] ELSE left
  /\ UNCHANGED <<prog, at, pending, handle, known, asked, file, want>>

(* An unaligned piece, its chunk read: the part that is asked for is       *)
(* loaded into it and the chunk written back, or stored.                   *)
EndPiece(p) ==
  /\ In(p, {"write", "read"}, Work)
  /\ \E n \in 1..NBuf :
       LET b == [buf[p][n] EXCEPT !.io = "none", !.op = Call(p).kind]
       IN /\ buf[p][n].op = "cover" /\ buf[p][n].io # "read"
          /\ buf' = [buf EXCEPT ![p][n] =
                       IF b.op = "write" THEN Written(p, Loaded(b))
                       ELSE [b EXCEPT !.mov = TRUE]]
          /\ disk' = IF b.op = "write" THEN DiskWritten(p, Loaded(b)) ELSE disk
  /\ left' = [left EXCEPT ![p] = Tail(@)]
  /\ UNCHANGED <<prog, at, last_buf, pending, handle, known, got, asked, file,
                 want>>

(* A write ends with a pnga_sync, a read does not. *)
EndTransfer(p) ==
  /\ In(p, {"write", "read"}, Work) /\ left[p] = <<>>
  /\ Goto(p, IF Call(p).kind = "write" THEN Enter2 ELSE Out)
  /\ UNCHANGED <<prog, left, buf, last_buf, pending, handle, known, disk, got,
                 asked, file, want>>

(***************************************************************************)
(* dra_wait_.                                                              *)
(***************************************************************************)
ActiveOf(p, i) == {b \in 1..NBuf : buf[p][b].call = i /\ buf[p][b].active}

\* buf_complete_call, one buffer.
CompleteBuf(p) ==
  /\ In(p, {"wait"}, Work)
  /\ LET bufs == ActiveOf(p, handle[p][Call(p).t])
         n == Min(bufs)
     IN /\ bufs # {} /\ Waited(buf[p][n])
        /\ buf' = [buf EXCEPT ![p][n] = [AfterWait(buf[p][n]) EXCEPT !.active = FALSE]]
        /\ got' = GaAfterWait(buf[p][n])
  /\ UNCHANGED <<prog, at, left, last_buf, pending, handle, known, disk, asked,
                 file, want>>

WaitCompletes(p) ==
  /\ In(p, {"wait"}, Work)
  /\ LET i == handle[p][Call(p).t]
     IN ActiveOf(p, i) = {} /\ pending' = [pending EXCEPT ![p][i] = FALSE]
  /\ Goto(p, Enter2)
  /\ UNCHANGED <<prog, left, buf, last_buf, handle, known, disk, got, asked, file,
                 want>>

(***************************************************************************)
(* dra_probe_ and dra_flick_.                                              *)
(***************************************************************************)
(* Bug variant: an aligned read is taken to be done when it is off disk. *)
ProbedOnDisk(b) ==
  IF b.op = "read" /\ ~ b.align THEN ~ b.mov ELSE b.io \notin {"read", "write"}

\* What dra_probe_ finds of a buffer: whether its work is done.
Probed(b) ==
  CASE b.op = "write" -> b.io \notin {"read", "write"}
    [] b.op = "read" /\ ~ b.align -> ~ b.mov
    [] b.op = "read" /\ b.align ->
         b.io \notin {"read", "write"} /\ ~ b.callback /\ ~ b.mov
    [] OTHER -> TRUE

(* elio_probe gives up the entry of a finished disk operation. *)
AfterProbe(b) ==
  [b EXCEPT !.active = IF b.op # "none" /\ Probed(b) THEN FALSE ELSE @,
            !.io = IF @ = "ready" THEN "none" ELSE @]

Probing(p) ==
  IF Call(p).kind = "flick" THEN Call(p).slot ELSE handle[p][Call(p).t]

OfCall(p, i) == {b \in 1..NBuf : buf[p][b].call = i}

ProbeScan(p) ==
  /\ In(p, {"probe", "flick"}, Work)
  /\ LET bufs == OfCall(p, Probing(p))
     IN /\ prog' = [prog EXCEPT ![at[p].n].done =
                      @ /\ \A b \in bufs : Probed(buf[p][b])]
        /\ buf' = [buf EXCEPT ![p] = [b \in 1..NBuf |->
                     IF b \in bufs THEN AfterProbe(@[b]) ELSE @[b]]]
  /\ Goto(p, Leave2)
  /\ UNCHANGED <<left, last_buf, pending, handle, known, disk, got, asked, file,
                 want>>

(* Bug variant: no callback is executed. *)
CallbackOfNone(p) == {}

\* The buffers whose callback a probe that is not done executes.
CallbackOf(p) ==
  {b \in OfCall(p, Probing(p)) :
     CallbackDue(buf[p][b]) /\ buf[p][b].io = "none"}

(* Bug variant: a process goes by what it has found itself. *)
AgreedAlone(p) == TRUE

\* The pnga_gop is over: done holds the product.
Agreed(p) == AllReached(at[p].n, Leave2)

PendingAfterProbe(p) ==
  IF Call(p).done THEN [pending EXCEPT ![p][Probing(p)] = FALSE] ELSE pending

(* After the pnga_gop.  A callback that the scan has marked is executed:   *)
(* a non-blocking put starts.                                              *)
ProbeEnds(p) ==
  /\ In(p, {"probe", "flick"}, Leave2)
  /\ Agreed(p)
  /\ pending' = PendingAfterProbe(p)
  /\ known' = IF Call(p).done /\ Call(p).kind = "probe"
              THEN [known EXCEPT ![p] = @ \union {Call(p).t}] ELSE known
  /\ buf' = IF Call(p).done THEN buf
            ELSE [buf EXCEPT ![p] = [b \in 1..NBuf |->
                    IF b \in CallbackOf(p)
                    THEN [@[b] EXCEPT !.callback = FALSE, !.mov = TRUE] ELSE @[b]]]
  /\ Goto(p, Out)
  /\ UNCHANGED <<prog, left, last_buf, handle, disk, got, asked, file, want>>

(***************************************************************************)
(* The disk and the communication library, at any time.                    *)
(***************************************************************************)
DiskDone(p, n) ==
  LET b == buf[p][n]
  IN /\ b.io \in {"read", "write"}
     /\ buf' = [buf EXCEPT ![p][n].io = "ready",
                           ![p][n].data = IF b.io = "read" THEN OnDisk(b)
                                          ELSE @]
     /\ disk' = IF b.io = "write" THEN WithChunk(b) ELSE disk
     /\ UNCHANGED <<prog, at, left, last_buf, pending, handle, known, got, asked,
                    file, want>>

MoveDone(p, n) ==
  /\ buf[p][n].mov
  /\ buf' = [buf EXCEPT ![p][n].mov = FALSE]
  /\ got' = Stored(buf[p][n])
  /\ UNCHANGED <<prog, at, left, last_buf, pending, handle, known, disk, asked,
                 file, want>>

(***************************************************************************)
(* The application.  The process that first comes to the end of the calls  *)
(* made so far says which is next.                                         *)
(***************************************************************************)
Outstanding(p) == (DOMAIN asked) \ known[p]

MayIssue(p, x) ==
  /\ Len(asked) < MaxTransfers
  /\ Cardinality(Outstanding(p)) < MaxReq
  /\ \A t \in Outstanding(p) :
       \/ x.op = "read" /\ asked[t].op = "read"
       \/ Touched(x.sect) \intersect asked[t].touched = {}

\* The handle dra_flick_ probes next, of those above i.
FlickNext(p, i) == {j \in Slots : j > i /\ pending[p][j]}
FlickSlots(p) ==
  LET i == IF Call(p).kind = "flick" THEN Call(p).slot ELSE 0
      next == FlickNext(p, i)
  IN IF next = {} THEN {} ELSE {Min(next)}

InFlick(p) == Call(p).kind = "flick" /\ FlickSlots(p) # {}

NextCalls(p) ==
  IF InFlick(p)
  THEN {[kind |-> "flick", t |-> None, slot |-> i, done |-> TRUE] : i \in FlickSlots(p)}
  ELSE {[kind |-> k, t |-> t, slot |-> None, done |-> TRUE] :
          k \in {"wait", "probe"}, t \in Outstanding(p)}
       \union {[kind |-> "flick", t |-> None, slot |-> i, done |-> TRUE] :
                 i \in FlickSlots(p)}

FirstStage(c) == IF c.kind \in {"write", "read"} THEN Enter1 ELSE Work

(* p takes up the call after the one it is in; a call that no process is   *)
(* in any more is forgotten.                                               *)
TakeUp(p, calls) ==
  LET n == at[p].n + 1
      shift == IF at[p].n = 1 /\ \A q \in Proc \ {p} : at[q].n = 2 THEN 1 ELSE 0
  IN /\ at' = [q \in Proc |->
                 IF q = p THEN [n |-> n - shift, stage |-> FirstStage(calls[n])]
                 ELSE [at[q] EXCEPT !.n = @ - shift]]
     /\ prog' = IF shift = 1 THEN Tail(calls) ELSE calls

Follow(p) ==
  /\ at[p].stage = Out /\ at[p].n < Len(prog)
  /\ TakeUp(p, prog)
  /\ UNCHANGED <<left, buf, last_buf, pending, handle, known, disk, got, asked,
                 file, want>>

CallNext(p) ==
  /\ at[p].stage = Out /\ at[p].n = Len(prog)
  /\ \E c \in NextCalls(p) : TakeUp(p, Append(prog, c))
  /\ UNCHANGED <<left, buf, last_buf, pending, handle, known, disk, got, asked,
                 file, want>>

Issue(p) ==
  /\ at[p].stage = Out /\ at[p].n = Len(prog)
  /\ ~ InFlick(p)
  /\ \E x \in Transfers :
       LET t == Len(asked) + 1
           places == PlacesOf(x.sect)
       IN /\ MayIssue(p, x)
          /\ asked' = Append(asked, [op |-> x.op, sect |-> x.sect,
                                     touched |-> Touched(x.sect)])
          /\ file' = IF x.op = "read" THEN file
                     ELSE [l \in DOMAIN file |->
                             IF \E y \in places : y[2] = l THEN t ELSE file[l]]
          /\ want' = [want EXCEPT ![t] =
                        IF x.op = "read" THEN {<<y[1], file[y[2]]>> : y \in places}
                        ELSE {}]
          /\ TakeUp(p, Append(prog, [kind |-> x.op, t |-> t, slot |-> None,
                                     done |-> TRUE]))
  /\ UNCHANGED <<left, buf, last_buf, pending, handle, known, disk, got>>

Init ==
  /\ prog = <<[kind |-> "none", t |-> None, slot |-> None, done |-> TRUE]>>
  /\ at = [p \in Proc |-> [n |-> 1, stage |-> Out]]
  /\ left = [p \in Proc |-> <<>>]
  /\ buf = [p \in Proc |-> [b \in 1..NBuf |-> FreeBuf]]
  /\ last_buf = [p \in Proc |-> NBuf]
  /\ pending = [p \in Proc |-> [i \in Slots |-> FALSE]]
  /\ handle = [p \in Proc |-> [t \in 1..MaxTransfers |-> None]]
  /\ known = [p \in Proc |-> {}]
  /\ disk = [x \in Touched(Whole) |-> 0]
  /\ got = [t \in 1..MaxTransfers |-> [e \in Cells |-> None]]
  /\ asked = <<>>
  /\ file = disk
  /\ want = [t \in 1..MaxTransfers |-> {}]

\* The application has issued all its transfers and knows them complete.
Finished ==
  /\ Len(asked) = MaxTransfers
  /\ \A p \in Proc : at[p].stage = Out /\ at[p].n = Len(prog) /\ Outstanding(p) = {}
  /\ UNCHANGED vars

Steps(p) ==
  \/ Sync(p) \/ AssignRequest(p) \/ BeginPiece(p) \/ EndPiece(p) \/ EndTransfer(p)
  \/ CompleteBuf(p) \/ WaitCompletes(p) \/ ProbeScan(p) \/ ProbeEnds(p)
  \/ Follow(p)

Next ==
  \/ \E p \in Proc :
       \/ Steps(p) \/ CallNext(p) \/ Issue(p)
       \/ \E n \in 1..NBuf : DiskDone(p, n) \/ MoveDone(p, n)
  \/ Finished

(***************************************************************************)
(* The disk and the communication library complete what they have begun.   *)
(***************************************************************************)
Fairness ==
  \A p \in Proc, n \in 1..NBuf : WF_vars(DiskDone(p, n)) /\ WF_vars(MoveDone(p, n))

Spec == Init /\ [][Next]_vars /\ Fairness

(***************************************************************************)
(* Properties.                                                             *)
(***************************************************************************)
(* The variables keep their types: at most two calls are under way, a      *)
(* buffer that is in use belongs to a request and has a piece.             *)
TypeOK ==
  /\ Len(prog) \in 1..2
  /\ at \in [Proc -> [n : 1..2, stage : Enter1..Out]]
  /\ \A p \in Proc : at[p].n <= Len(prog)
  /\ \A p \in Proc, b \in 1..NBuf :
       /\ buf[p][b].io \in {"none", "read", "write", "ready"}
       /\ buf[p][b].active => buf[p][b].call \in Slots /\ buf[p][b].t \in DOMAIN asked
  /\ last_buf \in [Proc -> 1..NBuf]
  /\ pending \in [Proc -> [Slots -> BOOLEAN]]
  /\ handle \in [Proc -> [1..MaxTransfers -> Slots \union {None}]]
  /\ known \in [Proc -> SUBSET (1..MaxTransfers)]
  /\ \A x \in DOMAIN disk : disk[x] \in 0..MaxTransfers

(* The pieces that ndai_decomp_section and ndai_next_chunk make of any     *)
(* section of any array in Shapes hold each of its elements once, each     *)
(* within a chunk that begins where ndai_file_location allows.             *)
SectionsDecomposed ==
  asked = <<>> => \A A \in Shapes : \A s \in Sections(A) : DecomposedExactly(A, s)

(* Whichever section it is transferred with, an element of an array in     *)
(* Shapes has one place in the files, and no other element has it.         *)
PlacesConsistent ==
  asked = <<>> => \A A \in Shapes : PlacedConsistently(A)

(* Every section is moved whole, to and from the same places in the files. *)
LayoutSound == SectionsDecomposed /\ PlacesConsistent

Issued == DOMAIN asked
Complete == UNION {known[p] : p \in Proc}

(* A read that any process has been told is complete, by dra_wait_ or by a *)
(* probe, has put every element of its section into the global array, with *)
(* the value of the last write issued before it.                           *)
CompletedReadsDelivered ==
  \A t \in Complete :
    asked[t].op = "read" => \A y \in want[t] : got[t][y[1]] = y[2]

(* When the writes that touch an element's chunk are complete, the element *)
(* is on disk with the value of the last one that wrote it: none lost its  *)
(* data in a shared chunk, a reused buffer or a forgotten disk operation.  *)
CompletedWritesOnDisk ==
  \A x \in DOMAIN disk :
    (\A t \in Issued : asked[t].op = "write" /\ x \in asked[t].touched
                           => t \in Complete)
      => disk[x] = file[x]

(* What is said to be complete is done.                                    *)
CompletedIsDone == CompletedReadsDelivered /\ CompletedWritesOnDisk

(* The processes give a transfer the same handle, and with no more than    *)
(* MaxReq transfers outstanding there always is one to give:               *)
(* dai_assign_request_handle never aborts the program.                     *)
HandlesAgree ==
  /\ \A p, q \in Proc : \A t \in Issued :
       None \notin {handle[p][t], handle[q][t]} => handle[p][t] = handle[q][t]
  /\ \A p \in Proc : In(p, {"write", "read"}, Leave1) => FreeSlots(p) # {}

(* A buffer that is given back has no entry in elio's table and no         *)
(* callback to run: elio's table does not fill up with finished            *)
(* operations, and no data read from disk is forgotten in a buffer.        *)
InactiveIsQuiet ==
  \A p \in Proc, b \in 1..NBuf :
    ~ buf[p][b].active => buf[p][b].io = "none" /\ ~ buf[p][b].callback

(* The tables of requests and buffers neither run full nor fall apart.     *)
TablesSound == HandlesAgree /\ InactiveIsQuiet

(* A buffer is not given to another piece while the disk works on it or a  *)
(* put from it is under way.                                               *)
NoReuseInFlight ==
  [][\A p \in Proc, b \in 1..NBuf :
       buf[p][b].io \in {"read", "write"} \/ buf[p][b].mov
         => <<buf'[p][b].t, buf'[p][b].piece>> = <<buf[p][b].t, buf[p][b].piece>>]_vars

(* No transfer is probed again and again without end: the callbacks that   *)
(* probes start bring the data home, and a later probe says so.            *)
ProbesSucceed ==
  \A t \in 1..MaxTransfers :
    <>[][\A p \in Proc : ~ (ProbeEnds(p) /\ Call(p).t = t)]_vars

(***************************************************************************)
(* What the theorems ask of the sections that are transferred.  A process  *)
(* gets pieces of the section; each lies in the files of the array, and an *)
(* aligned one is a whole chunk.                                           *)
(***************************************************************************)
PieceSet == UNION {ToSet(Pieces(Array, x.sect)) : x \in Transfers}

Decomposed ==
  /\ \A x \in Transfers :
       /\ x.op \in {"write", "read"}
       /\ \A p \in Proc : MyTurn(p, x.sect) \in Seq(PieceSet)
  /\ \A y \in PieceSet :
       /\ y.align \in BOOLEAN
       /\ \A e \in Elements(y.chunk) : Location(Array, y.chunk, e) \in Touched(Whole)
       /\ y.align => Elements(y.part) = Elements(y.chunk)

(* And of where they are in the files, so that no transfer is lost: an     *)
(* element has one place and a place one element, every piece is some      *)
(* process's turn, and a chunk holds no element of the section but those   *)
(* of its own part.                                                        *)
WellPlaced ==
  /\ OneToOne(UNION {PlacedWith(Array, x.sect) : x \in Transfers})
  /\ \A x \in Transfers :
       /\ ToSet(Pieces(Array, x.sect)) = UNION {ToSet(MyTurn(p, x.sect)) : p \in Proc}
       /\ \A y, z \in ToSet(Pieces(Array, x.sect)) :
            /\ Elements(y.part) \subseteq Elements(y.chunk) \intersect Cells
            /\ Elements(y.chunk) \intersect Elements(z.part) \subseteq Elements(y.part)
=============================================================================
