-------------------------- MODULE ComexMutexProofs --------------------------
(***************************************************************************)
(* Proofs about the mutexes of the progress-rank runtime, for any number   *)
(* of workers, progress ranks and mutexes.                                 *)
(***************************************************************************)
EXTENDS ComexMutex, SequenceTheorems, FiniteSetTheorems, TLAPS

-----------------------------------------------------------------------------
(* Types.                                                                  *)

(* Appending to one of the sequences of a table keeps it typed.            *)
LEMMA AppendTyped ==
  ASSUME NEW S, NEW C, NEW D, NEW f \in [C -> [D -> Seq(S)]],
         NEW c \in C, NEW d \in D, NEW v \in S
  PROVE  [f EXCEPT ![c][d] = Append(@, v)] \in [C -> [D -> Seq(S)]]
OBVIOUS

(* So does taking the oldest element of one that has elements.             *)
LEMMA TailTyped ==
  ASSUME NEW S, NEW C, NEW D, NEW f \in [C -> [D -> Seq(S)]],
         NEW c \in C, NEW d \in D, f[c][d] # << >>
  PROVE  /\ [f EXCEPT ![c][d] = Tail(@)] \in [C -> [D -> Seq(S)]]
         /\ Head(f[c][d]) \in S
OBVIOUS

(* What the workers and the servers build is a header or a reply.          *)
LEMMA HeaderTyped ==
  ASSUME NEW r \in Worker
  PROVE  /\ \A op \in CountOp, n \in 0 .. MaxMutexes : Hdr(op, r, n) \in Header
         /\ \A op \in IndexOp, n \in Id : Hdr(op, r, n) \in Header
BY DEF Hdr, Header

(* A header that names a mutex names one there is.                         *)
LEMMA TargetTyped ==
  ASSUME NEW h \in Header
  PROVE  /\ h.rank \in Worker /\ h.length \in 0 .. MaxMutexes
         /\ h.op \in IndexOp => Target(h) \in Mutex
<1>1. h.rank \in Worker /\ h.length \in 0 .. MaxMutexes
  BY MutexAssumption DEF Header, Id, MutexAssumption
<1>2. h.op \in IndexOp => h.length \in Id
  BY DEF Header, CountOp, IndexOp
<1>3. QED
  BY <1>1, <1>2 DEF Target, Mutex

(* Acknowledgments and grants are replies.                                 *)
LEMMA ReplyTyped == Ack \in Reply /\ \A n \in 0 .. MaxMutexes : Grant(n) \in Reply
BY MutexAssumption DEF Ack, Grant, Reply, MutexAssumption

(* The name of a mutex and the master that serves it.                      *)
LEMMA MutexTyped ==
  ASSUME NEW x \in Mutex
  PROVE  /\ x = <<x[1], x[2]>>
         /\ x[1] \in Worker /\ x[2] \in Id /\ x[2] \in 0 .. MaxMutexes
         /\ x \in Worker \X Nat
         /\ MasterOf[x[1]] \in Master
<1>1. PICK r \in Worker, i \in Id : x = <<r, i>>
  BY DEF Mutex
<1>2. i \in 0 .. MaxMutexes /\ i \in Nat /\ MasterOf[r] \in Master
  BY MutexAssumption DEF Id, MutexAssumption
<1>3. QED
  BY <1>1, <1>2

(* Sending a header, taking a reply, fencing and receiving a header keep   *)
(* the channels typed.                                                     *)
LEMMA SendTyped ==
  ASSUME TypeOK, NEW c \in Worker, NEW m \in Master, NEW h \in Header,
         nb_send_header(c, m, h)
  PROVE  req' \in [Worker -> [Master -> Seq(Header)]]
BY AppendTyped DEF nb_send_header, TypeOK

(* Taking the oldest reply keeps the types.                                *)
LEMMA TakeTyped ==
  ASSUME TypeOK, NEW c \in Worker, NEW m \in Master, Replied(c, m), TakeReply(c, m)
  PROVE  rep' \in [Worker -> [Master -> Seq(Reply)]]
BY TailTyped DEF Replied, TakeReply, TypeOK

(* A fence of the caller keeps the types.                                  *)
LEMMA FenceTyped ==
  ASSUME TypeOK, NEW c \in Worker, NEW ms \in SUBSET Master, NEW w \in Point,
         NEW d \in Point, w # "lock", d # "lock", Fence(c, ms, w, d)
  PROVE  /\ pc' \in [Worker -> Point]
         /\ \A e \in Worker : pc'[e] = "lock" => pc[e] = "lock"
         /\ fencing' \in [Worker -> SUBSET Master]
         /\ req' \in [Worker -> [Master -> Seq(Header)]]
<1>1. Hdr("FENCE", c, 0) \in Header
  BY MutexAssumption, HeaderTyped DEF CountOp, MutexAssumption
<1>2. \A m \in Master : Append(req[c][m], Hdr("FENCE", c, 0)) \in Seq(Header)
  BY <1>1 DEF TypeOK
<1>3. req' \in [Worker -> [Master -> Seq(Header)]]
  BY <1>2 DEF Fence, TypeOK
<1>4. QED
  BY <1>3 DEF Fence, Goto, TypeOK

(* A handler takes the oldest request of a channel.                        *)
LEMMA RecvTyped ==
  ASSUME TypeOK, NEW m \in Master, NEW c \in Worker, progress_server(m, c)
  PROVE  /\ req[c][m] # << >> /\ ProgressRecv(m, c)
         /\ req' \in [Worker -> [Master -> Seq(Header)]]
         /\ Head(req[c][m]) \in Header
<1>1. req[c][m] # << >> /\ ProgressRecv(m, c)
  BY DEF progress_server, fence_handler, mutex_create_handler, Pending,
         mutex_destroy_handler, lock_handler, unlock_handler
<1>2. QED
  BY SMTT(30), <1>1, TailTyped DEF ProgressRecv, TypeOK

(* A handler of the progress rank keeps the types.                         *)
LEMMA ServeTyped ==
  ASSUME TypeOK, NEW c \in Worker, NEW m \in Master, NEW r \in Reply,
         server_send(m, c, r)
  PROVE  rep' \in [Worker -> [Master -> Seq(Reply)]]
BY AppendTyped DEF server_send, TypeOK

(* The steps of the workers.                                               *)
LEMMA WorkerTyped ==
  ASSUME TypeOK, NEW c \in Worker, UserCall(c) \/ Unlock(c) \/ Continue(c)
  PROVE  TypeOK'
<1> USE MutexAssumption
<1> USE DEF Goto, serverVars, Point, CreatePoint, UsePoint, DestroyPoint
<1>0. MasterOf[c] \in Master
  BY DEF MutexAssumption
<1>1. ASSUME NEW n \in Counts[c], comex_create_mutexes(c, n) PROVE TypeOK'
  BY <1>1 DEF TypeOK, comex_create_mutexes, MutexAssumption
<1>2. ASSUME NEW x \in Mutex, comex_lock(c, x) PROVE TypeOK'
  <2>1. Hdr("LOCK", x[1], x[2]) \in Header
    BY HeaderTyped, MutexTyped DEF IndexOp
  <2>2. req' \in [Worker -> [Master -> Seq(Header)]]
    BY <1>2, <2>1, MutexTyped, SendTyped DEF comex_lock
  <2>3. cur' \in [Worker -> Worker \X Nat]
    BY <1>2, MutexTyped DEF comex_lock, TypeOK
  <2>4. \A d \in Worker : pc'[d] = "lock" => cur'[d] \in Mutex
    BY <1>2 DEF comex_lock, TypeOK
  <2>5. QED
    BY <1>2, <2>2, <2>3, <2>4 DEF comex_lock, TypeOK
<1>3. CASE comex_fence_all(c)
  <2>1. fence_array[c] \in SUBSET Master
    BY DEF TypeOK
  <2>2. Fence(c, fence_array[c], "fence", "ready")
    BY <1>3 DEF comex_fence_all
  <2>3. QED
    BY <1>3, <2>1, <2>2, FenceTyped DEF comex_fence_all, TypeOK
<1>4. ASSUME NEW m \in Master, comex_fence_proc(c, m) PROVE TypeOK'
  <2>1. Fence(c, {m}, "fence", "ready")
    BY <1>4 DEF comex_fence_proc
  <2>2. QED
    BY <1>4, <2>1, FenceTyped DEF comex_fence_proc, TypeOK
<1>5. CASE comex_destroy_mutexes(c)
  <2>1. fence_array[c] \in SUBSET Master
    BY DEF TypeOK
  <2>2. Fence(c, fence_array[c], "destroy_fence", "destroy_barrier")
    BY <1>5 DEF comex_destroy_mutexes
  <2>3. QED
    BY <1>5, <2>1, <2>2, FenceTyped DEF comex_destroy_mutexes, TypeOK
<1>6. ASSUME NEW x \in Mutex, comex_unlock(c, x) PROVE TypeOK'
  <2>1. Hdr("UNLOCK", x[1], x[2]) \in Header
    BY HeaderTyped, MutexTyped DEF IndexOp
  <2>2. req' \in [Worker -> [Master -> Seq(Header)]]
    BY <1>6, <2>1, MutexTyped, SendTyped DEF comex_unlock
  <2>3. fence_array' \in [Worker -> SUBSET Master]
    BY ZenonT(60), <1>6, MutexTyped DEF comex_unlock, TypeOK
  <2>4. held' \in [Worker -> SUBSET Mutex]
    BY <1>6 DEF comex_unlock, TypeOK
  <2>5. QED
    BY <1>6, <2>2, <2>3, <2>4 DEF comex_unlock, TypeOK
<1>7. CASE CreateSend(c)
  <2>1. Hdr("CREATE_MUTEXES", c, num[c]) \in Header
    BY HeaderTyped DEF CountOp, TypeOK
  <2>2. req' \in [Worker -> [Master -> Seq(Header)]]
    BY <1>0, <1>7, <2>1, SendTyped DEF CreateSend
  <2>3. QED
    BY <1>7, <2>2 DEF CreateSend, TypeOK
<1>8. CASE CreateAcked(c)
  <2>1. rep' \in [Worker -> [Master -> Seq(Reply)]]
    BY <1>0, <1>8, TakeTyped DEF CreateAcked
  <2>2. fence_array[c] \in SUBSET Master
    BY DEF TypeOK
  <2>3. Fence(c, fence_array[c], "create_fence", "create_barrier")
    BY <1>8 DEF CreateAcked
  <2>4. QED
    BY <1>8, <2>1, <2>2, <2>3, FenceTyped DEF CreateAcked, TypeOK
<1>9. CASE FenceDone(c)
  <2>1. \A m \in fencing[c] : Tail(rep[c][m]) \in Seq(Reply)
    BY <1>9 DEF FenceDone, Replied, TypeOK
  <2>2. rep' \in [Worker -> [Master -> Seq(Reply)]]
    BY SMTT(30), <1>9, <2>1 DEF FenceDone, TypeOK
  <2>3. After[pc[c]] \in Point
    BY <1>9 DEF FenceDone, After, FencePoint
  <2>4. After[pc[c]] # "lock"
    BY <1>9 DEF FenceDone, After, FencePoint
  <2>5. \A d \in Worker : pc'[d] = "lock" => pc[d] = "lock"
    BY <1>9, <2>4 DEF FenceDone, TypeOK
  <2>6. QED
    BY <1>9, <2>2, <2>3, <2>5 DEF FenceDone, TypeOK
<1>10. CASE LockGranted(c)
  <2>1. MasterOf[cur[c][1]] \in Master
    BY DEF TypeOK, MutexAssumption
  <2>2. rep' \in [Worker -> [Master -> Seq(Reply)]]
    BY <1>10, <2>1, TakeTyped DEF LockGranted
  <2>3. cur[c] \in Mutex
    BY <1>10 DEF LockGranted, TypeOK
  <2>4. held' \in [Worker -> SUBSET Mutex]
    BY <1>10, <2>3 DEF LockGranted, TypeOK
  <2>5. cur' \in [Worker -> Worker \X Nat]
    BY <1>10 DEF LockGranted, TypeOK
  <2>6. \A d \in Worker : pc'[d] = "lock" => pc[d] = "lock" /\ cur'[d] = cur[d]
    BY <1>10 DEF LockGranted, TypeOK
  <2>7. QED
    BY <1>10, <2>2, <2>4, <2>5, <2>6 DEF LockGranted, TypeOK
<1>11. CASE DestroySend(c)
  <2>1. DestroyLength(c) \subseteq 0 .. MaxMutexes
    BY DEF DestroyLength, TypeOK
  <2>2. PICK n \in DestroyLength(c) :
          nb_send_header(c, MasterOf[c], Hdr("DESTROY_MUTEXES", c, n))
    BY <1>11 DEF DestroySend
  <2>3. Hdr("DESTROY_MUTEXES", c, n) \in Header
    BY <2>1, HeaderTyped DEF CountOp
  <2>4. req' \in [Worker -> [Master -> Seq(Header)]]
    BY <1>0, <2>2, <2>3, SendTyped
  <2>5. QED
    BY <1>11, <2>4 DEF DestroySend, TypeOK
<1>12. CASE DestroyAcked(c)
  <2>1. rep' \in [Worker -> [Master -> Seq(Reply)]]
    BY <1>0, <1>12, TakeTyped DEF DestroyAcked
  <2>2. QED
    BY <1>12, <2>1 DEF DestroyAcked, TypeOK
<1>13. QED
  BY <1>1, <1>2, <1>3, <1>4, <1>5, <1>6, <1>7, <1>8, <1>9, <1>10, <1>11, <1>12
     DEF UserCall, Unlock, Continue

(* The steps of the servers.                                               *)
LEMMA ServerTyped ==
  ASSUME TypeOK, NEW m \in Master, NEW c \in Worker, progress_server(m, c)
  PROVE  TypeOK'
<1> DEFINE h == Head(req[c][m])
           x == Target(h)
<1>0. /\ req' \in [Worker -> [Master -> Seq(Header)]]
      /\ h.length \in 0 .. MaxMutexes
      /\ x[2] \in 0 .. MaxMutexes
  BY RecvTyped, TargetTyped DEF Target
<1> HIDE DEF h, x
<1>1. CASE fence_handler(m, c)
  <2>1. rep' \in [Worker -> [Master -> Seq(Reply)]]
    BY <1>1, ServeTyped, ReplyTyped DEF fence_handler
  <2>2. QED
    BY <1>0, <1>1, <2>1 DEF fence_handler, TypeOK, workerVars, serverVars
<1>2. CASE mutex_create_handler(m, c)
  <2>1. rep' \in [Worker -> [Master -> Seq(Reply)]]
    BY <1>2, ServeTyped, ReplyTyped DEF mutex_create_handler
  <2>2. allocated' \in [Worker -> 0 .. MaxMutexes]
    BY <1>0, <1>2 DEF mutex_create_handler, h, TypeOK
  <2>3. mutexes' \in [Mutex -> Worker \cup {UNLOCKED}]
    BY <1>2 DEF mutex_create_handler, TypeOK
  <2>4. lq_heads' \in [Mutex -> Seq(Worker)]
    BY <1>2 DEF mutex_create_handler, TypeOK
  <2>5. QED
    BY <1>0, <1>2, <2>1, <2>2, <2>3, <2>4 DEF mutex_create_handler, TypeOK, workerVars
<1>3. CASE mutex_destroy_handler(m, c)
  <2>1. rep' \in [Worker -> [Master -> Seq(Reply)]]
    BY <1>3, ServeTyped, ReplyTyped DEF mutex_destroy_handler
  <2>2. allocated' \in [Worker -> 0 .. MaxMutexes]
    BY <1>3, MutexAssumption DEF mutex_destroy_handler, TypeOK, MutexAssumption
  <2>3. QED
    BY <1>0, <1>3, <2>1, <2>2 DEF mutex_destroy_handler, TypeOK, workerVars
<1>4. CASE lock_handler(m, c)
  <2>0. UNCHANGED <<workerVars, allocated>>
    BY <1>4 DEF lock_handler
  <2>1. CASE /\ mutexes' = [mutexes EXCEPT ![x] = c]
             /\ server_send(m, c, Grant(x[2]))
             /\ UNCHANGED lq_heads
    <3>1. rep' \in [Worker -> [Master -> Seq(Reply)]]
      BY <1>0, <2>1, ServeTyped, ReplyTyped
    <3>2. QED
      BY <1>0, <2>0, <2>1, <3>1 DEF TypeOK, workerVars
  <2>2. CASE /\ lq_heads' = [lq_heads EXCEPT ![x] = Append(@, c)]
             /\ UNCHANGED <<mutexes, rep>>
    <3>1. Append(lq_heads[x], c) \in Seq(Worker)
      <4>1. h \in Header /\ h.op \in IndexOp
        BY <1>4, RecvTyped DEF lock_handler, Pending, IndexOp, h
      <4>2. x \in Mutex
        BY <4>1, TargetTyped DEF x
      <4>3. QED
        BY <4>2 DEF TypeOK
    <3>2. lq_heads' \in [Mutex -> Seq(Worker)]
      BY <2>2, <3>1 DEF TypeOK
    <3>3. QED
      BY <1>0, <2>0, <2>2, <3>2 DEF TypeOK, workerVars
  <2>3. QED
    BY <1>4, <2>1, <2>2 DEF lock_handler, h, x
<1>5. CASE unlock_handler(m, c)
  <2>0. UNCHANGED <<workerVars, allocated>>
    BY <1>5 DEF unlock_handler
  <2>1. CASE /\ lq_heads[x] # << >>
             /\ lq_heads' = [lq_heads EXCEPT ![x] = Tail(@)]
             /\ mutexes' = [mutexes EXCEPT ![x] = Head(lq_heads[x])]
             /\ server_send(m, Head(lq_heads[x]), Grant(x[2]))
    <3>0. x \in Mutex
      <4>1. h \in Header /\ h.op \in IndexOp
        BY <1>5, RecvTyped DEF unlock_handler, Pending, IndexOp, h
      <4>2. QED
        BY <4>1, TargetTyped DEF x
    <3>1. Head(lq_heads[x]) \in Worker /\ Tail(lq_heads[x]) \in Seq(Worker)
      BY <2>1, <3>0 DEF TypeOK
    <3>2. rep' \in [Worker -> [Master -> Seq(Reply)]]
      BY <1>0, <2>1, <3>1, ServeTyped, ReplyTyped
    <3>3. lq_heads' \in [Mutex -> Seq(Worker)]
      BY <2>1, <3>1 DEF TypeOK
    <3>4. mutexes' \in [Mutex -> Worker \cup {UNLOCKED}]
      BY <2>1, <3>1 DEF TypeOK
    <3>5. QED
      BY <1>0, <2>0, <2>1, <3>2, <3>3, <3>4 DEF TypeOK, workerVars
  <2>2. CASE /\ mutexes' = [mutexes EXCEPT ![x] = UNLOCKED]
             /\ UNCHANGED <<lq_heads, rep>>
    BY <1>0, <2>0, <2>2 DEF TypeOK, workerVars
  <2>3. QED
    BY <1>5, <2>1, <2>2 DEF unlock_handler, h, x
<1>6. QED
  BY <1>1, <1>2, <1>3, <1>4, <1>5 DEF progress_server

(* Every variable keeps the type its C counterpart declares, whatever the  *)
(* workers call and in whatever order the servers take their messages.     *)
THEOREM TypeCorrect == Spec => []TypeOK
<1>1. Init => TypeOK
  BY MutexAssumption DEF Init, TypeOK, Point, DestroyPoint, MutexAssumption, UNLOCKED
<1>2. TypeOK /\ [Next]_vars => TypeOK'
  <2> SUFFICES ASSUME TypeOK, [Next]_vars PROVE TypeOK'
    OBVIOUS
  <2>1. CASE Allgather
    BY <2>1 DEF Allgather, TypeOK, serverVars, Point, CreatePoint
  <2>2. CASE Barrier
    BY <2>2 DEF Barrier, TypeOK, serverVars, Point, UsePoint, DestroyPoint
  <2>3. CASE UNCHANGED vars
    BY <2>3 DEF vars, TypeOK
  <2>4. QED
    BY <2>1, <2>2, <2>3, WorkerTyped, ServerTyped DEF Next
<1>3. QED
  BY <1>1, <1>2, PTL DEF Spec

-----------------------------------------------------------------------------
(* Mutual exclusion: the inductive invariant is preserved by every step.   *)

(* The types as primed facts, for the steps that reason about the new      *)
(* state.                                                                  *)
LEMMA SendFacts ==
  ASSUME TypeOK, NEW c \in Worker, NEW m \in Master, NEW h \in Header,
         nb_send_header(c, m, h)
  PROVE  /\ \A d \in Worker \ {c} : req'[d] = req[d]
         /\ \A k \in Master \ {m} : req'[c][k] = req[c][k]
         /\ Len(req[c][m]) \in Nat /\ Len(req'[c][m]) = Len(req[c][m]) + 1
         /\ \A i \in 1 .. Len(req[c][m]) : req'[c][m][i] = req[c][m][i]
         /\ req'[c][m][Len(req[c][m]) + 1] = h
<1>1. req[c][m] \in Seq(Header)
  BY DEF TypeOK
<1>2. req'[c][m] = Append(req[c][m], h)
  BY DEF nb_send_header, TypeOK
<1>3. \A d \in Worker \ {c} : req'[d] = req[d]
  BY DEF nb_send_header, TypeOK
<1>4. \A k \in Master \ {m} : req'[c][k] = req[c][k]
  BY DEF nb_send_header, TypeOK
<1>5. QED
  BY <1>1, <1>2, <1>3, <1>4

(* A worker that waits for nothing has no reply coming and only unlocks    *)
(* under way; one without raised flags has nothing under way.              *)
LEMMA IdleFacts ==
  ASSUME IInv, NEW c \in Worker, NEW m \in Master,
         pc[c] \notin {"lock", "create_ack", "destroy_ack"},
         pc[c] \notin FencePoint
  PROVE  /\ rep[c][m] = << >>
         /\ \A i \in 1 .. Len(req[c][m]) : req[c][m][i].op = "UNLOCK"
         /\ fence_array[c] = {} => req[c][m] = << >>
<1>1. WorkerInv(c)
  BY DEF IInv
<1>2. fencing[c] = {}
  BY <1>1 DEF WorkerInv, QuietAt
<1>3. rep[c][m] = << >>
  BY <1>1, <1>2 DEF WorkerInv, RepliesAt
<1>4. \A i \in 1 .. Len(req[c][m]) : req[c][m][i].op = "UNLOCK"
  BY <1>1, <1>2 DEF WorkerInv, RequestsAt, Awaits
<1>5. fence_array[c] = {} => \A i \in 1 .. Len(req[c][m]) : FALSE
  BY <1>1, <1>4 DEF WorkerInv, UnlocksAt
<1>6. req[c][m] \in Seq(Header)
  BY DEF IInv, TypeOK
<1>7. QED
  BY <1>3, <1>4, <1>5, <1>6

(* Only workers in comex_lock are in a queue.                              *)
NotQueued(c) == \A x \in Mutex : \A i \in 1 .. Len(lq_heads[x]) : lq_heads[x][i] # c

(* A worker that is not in comex_lock waits in no queue.                   *)
LEMMA NotQueuedFacts ==
  ASSUME IInv, NEW c \in Worker, pc[c] # "lock"
  PROVE  NotQueued(c)
BY DEF IInv, QueueInv, Waits, NotQueued

(* What a worker does to its own state disturbs no other worker's part of  *)
(* the invariant.                                                          *)
SameAt(d) ==
  /\ pc'[d] = pc[d] /\ cur'[d] = cur[d] /\ held'[d] = held[d]
  /\ fence_array'[d] = fence_array[d] /\ fencing'[d] = fencing[d]
  /\ req'[d] = req[d] /\ rep'[d] = rep[d]

(* What holds of a worker whose state a step keeps holds after the step.   *)
LEMMA SameFacts ==
  ASSUME NEW d \in Worker, SameAt(d)
  PROVE  /\ WorkerInv(d) => WorkerInv(d)'
         /\ \A x \in Mutex : Token(d, x)' <=> Token(d, x)
         /\ \A x \in Mutex : Waits(d, x)' <=> Waits(d, x)
<1>1. QuietAt(d) => QuietAt(d)'
  BY DEF SameAt, QuietAt
<1>2. \A m \in Master : RequestsAt(d, m) => RequestsAt(d, m)'
  BY DEF SameAt, RequestsAt, Awaits
<1>3. \A m \in Master : RepliesAt(d, m) => RepliesAt(d, m)'
  BY DEF SameAt, RepliesAt
<1>4. \A m \in Master : UnlocksAt(d, m) => UnlocksAt(d, m)'
  BY DEF SameAt, UnlocksAt
<1>5. \A x \in Mutex : Token(d, x)' <=> Token(d, x)
  BY DEF SameAt, Token
<1>6. \A x \in Mutex : Waits(d, x)' <=> Waits(d, x)
  BY DEF SameAt, Waits
<1>7. QED
  BY <1>1, <1>2, <1>3, <1>4, <1>5, <1>6 DEF WorkerInv

(* A step of one worker leaves the others as they were.                    *)
LEMMA WorkerFrame ==
  ASSUME IInv, TypeOK', NEW c \in Worker, UNCHANGED serverVars,
         \A d \in Worker \ {c} : SameAt(d),
         NEW S \in {UsePoint, DestroyPoint, CreatePoint}, pc[c] \in S, pc'[c] \in S,
         NotQueued(c), WorkerInv(c)',
         \A x \in Mutex : Token(c, x)' <=> Token(c, x)
  PROVE  IInv'
<1>1. StageInv'
  BY DEF IInv, StageInv, SameAt, UsePoint, DestroyPoint, CreatePoint
<1>2. \A d \in Worker : WorkerInv(d)'
  BY SameFacts DEF IInv
<1>3. QueueInv'
  <2>1. lq_heads' = lq_heads
    BY DEF serverVars
  <2>2. \A x \in Mutex : \A i \in 1 .. Len(lq_heads[x]) :
          lq_heads[x][i] \in Worker \ {c}
    BY SMTT(30) DEF IInv, TypeOK, NotQueued
  <2>3. \A x \in Mutex, d \in Worker \ {c} : Waits(d, x) => Waits(d, x)'
    BY SameFacts
  <2>4. QED
    BY <2>1, <2>2, <2>3 DEF IInv, QueueInv, Waits
<1>4. TokenInv'
  <2>1. mutexes' = mutexes
    BY DEF serverVars
  <2>2. \A d \in Worker, x \in Mutex : Token(d, x)' <=> Token(d, x)
    BY SameFacts
  <2>3. QED
    BY <2>1, <2>2 DEF IInv, TokenInv
<1>5. QED
  BY <1>1, <1>2, <1>3, <1>4 DEF IInv

(* The three situations of a worker that waits for nothing: its program    *)
(* point changes, it sends a request, or it starts a fence.                *)
Idle(c) == pc[c] \notin {"lock", "create_ack", "destroy_ack"} /\ pc[c] \notin FencePoint

(* A step of a worker that sends nothing keeps its part of the invariant.  *)
LEMMA MoveKeeps ==
  ASSUME IInv, NEW c \in Worker, Idle(c), Idle(c)',
         cur'[c] = cur[c], held'[c] = held[c], fence_array'[c] = fence_array[c],
         fencing'[c] = fencing[c], req'[c] = req[c], rep'[c] = rep[c], QuietAt(c)'
  PROVE  /\ WorkerInv(c)'
         /\ \A x \in Mutex : Token(c, x)' <=> Token(c, x)
<1>1. WorkerInv(c)
  BY DEF IInv
<1>2. \A m \in Master : /\ rep[c][m] = << >>
                        /\ \A i \in 1 .. Len(req[c][m]) : req[c][m][i].op = "UNLOCK"
  BY IdleFacts DEF Idle
<1>3. \A m \in Master : RequestsAt(c, m)'
  BY <1>2 DEF RequestsAt
<1>4. \A m \in Master : RepliesAt(c, m)'
  BY <1>2 DEF RepliesAt
<1>5. \A m \in Master : UnlocksAt(c, m)'
  BY <1>1 DEF WorkerInv, UnlocksAt
<1>6. \A x \in Mutex : Token(c, x)' <=> Token(c, x)
  BY DEF Token, Idle
<1>7. QED
  BY <1>3, <1>4, <1>5, <1>6 DEF WorkerInv

(* So does one that sends a request.                                       *)
LEMMA RequestKeeps ==
  ASSUME IInv, NEW c \in Worker, NEW m \in Master, NEW h \in Header, Idle(c),
         nb_send_header(c, m, h), h.op # "UNLOCK",
         held'[c] = held[c], fence_array'[c] = fence_array[c], rep'[c] = rep[c],
         QuietAt(c)', Awaits(c, m, h)'
  PROVE  /\ WorkerInv(c)'
         /\ \A x \in Mutex : Token(c, x)' <=> Token(c, x)
<1>1. WorkerInv(c) /\ TypeOK
  BY DEF IInv
<1>2. \A k \in Master : /\ rep[c][k] = << >>
                        /\ \A i \in 1 .. Len(req[c][k]) : req[c][k][i].op = "UNLOCK"
  BY IdleFacts DEF Idle
<1> DEFINE n == Len(req[c][m])
<1>3. /\ \A k \in Master \ {m} : req'[c][k] = req[c][k]
      /\ n \in Nat /\ Len(req'[c][m]) = n + 1
      /\ \A i \in 1 .. n : req'[c][m][i] = req[c][m][i]
      /\ req'[c][m][n + 1] = h
  BY <1>1, SendFacts
<1> HIDE DEF n
<1>4. \A i \in 1 .. n + 1 : i \in 1 .. n \/ i = n + 1
  BY <1>3
<1>5. \A k \in Master : RequestsAt(c, k)'
  <2>1. RequestsAt(c, m)'
    BY ZenonT(60), <1>2, <1>3, <1>4 DEF RequestsAt, n
  <2>2. QED
    BY <1>2, <1>3, <2>1 DEF RequestsAt
<1>6. \A k \in Master : RepliesAt(c, k)'
  BY <1>2 DEF RepliesAt
<1>7. \A k \in Master : UnlocksAt(c, k)'
  <2>1. UnlocksAt(c, m)'
    <3> SUFFICES ASSUME NEW i \in 1 .. n + 1, req'[c][m][i].op = "UNLOCK"
                 PROVE  /\ m = MasterOf[req'[c][m][i].rank]
                        /\ m \in fence_array'[c]
                        /\ Target(req'[c][m][i]) \notin held'[c]
                        /\ \A j \in 1 .. n + 1 : req'[c][m][j] = req'[c][m][i] => i = j
      BY <1>3 DEF UnlocksAt, Target
    <3>1. i \in 1 .. n /\ req'[c][m][i] = req[c][m][i]
      BY <1>3, <1>4
    <3>2. UnlocksAt(c, m)
      BY <1>1 DEF WorkerInv
    <3>3. \A j \in 1 .. n + 1 : req'[c][m][j] = req'[c][m][i] => j \in 1 .. n
      BY <1>3, <1>4
    <3>4. QED
      BY <1>3, <3>1, <3>2, <3>3 DEF UnlocksAt, n
  <2>2. ASSUME NEW k \in Master \ {m} PROVE UnlocksAt(c, k)'
    <3>1. UnlocksAt(c, k)
      BY <1>1 DEF WorkerInv
    <3>2. QED
      BY <1>3, <3>1 DEF UnlocksAt
  <2>3. QED
    BY <2>1, <2>2
<1>8. ASSUME NEW x \in Mutex PROVE Token(c, x)' <=> Token(c, x)
  <2>1. UnlockHdr(x) # h /\ MasterOf[x[1]] \in Master
    BY MutexTyped DEF UnlockHdr, Hdr
  <2>2. (\E i \in 1 .. Len(req[c][MasterOf[x[1]]])' :
          req'[c][MasterOf[x[1]]][i] = UnlockHdr(x))
        <=> (\E i \in 1 .. Len(req[c][MasterOf[x[1]]]) :
              req[c][MasterOf[x[1]]][i] = UnlockHdr(x))
    <3>1. CASE MasterOf[x[1]] = m
      <4>1. (\E i \in 1 .. n + 1 : req'[c][m][i] = UnlockHdr(x))
            <=> (\E i \in 1 .. n : req[c][m][i] = UnlockHdr(x))
        BY SMTT(30), <1>3, <1>4, <2>1
      <4>2. QED
        BY <1>3, <3>1, <4>1 DEF n
    <3>2. CASE MasterOf[x[1]] # m
      BY <1>3, <2>1, <3>2
    <3>3. QED
      BY <3>1, <3>2
  <2>3. rep'[c][MasterOf[x[1]]] = << >> /\ rep[c][MasterOf[x[1]]] = << >>
    BY <1>2, <2>1
  <2>4. QED
    BY <2>2, <2>3 DEF Token
<1>9. QED
  BY <1>5, <1>6, <1>7, <1>8 DEF WorkerInv

(* So does one that sends fences.                                          *)
LEMMA FenceKeeps ==
  ASSUME IInv, TypeOK', NEW c \in Worker, NEW ms \in SUBSET Master, NEW w, NEW d,
         Idle(c), Fence(c, ms, w, d), w # "lock", d # "lock",
         held'[c] = held[c], fence_array'[c] = fence_array[c], rep'[c] = rep[c],
         QuietAt(c)'
  PROVE  /\ \A e \in Worker \ {c} : pc'[e] = pc[e] /\ req'[e] = req[e]
                                    /\ fencing'[e] = fencing[e]
         /\ WorkerInv(c)'
         /\ \A x \in Mutex : Token(c, x)' <=> Token(c, x)
<1>1. WorkerInv(c) /\ TypeOK
  BY DEF IInv
<1>2. \A k \in Master : /\ rep[c][k] = << >>
                        /\ \A i \in 1 .. Len(req[c][k]) : req[c][k][i].op = "UNLOCK"
  BY IdleFacts DEF Idle
<1>3. /\ \A e \in Worker \ {c} : pc'[e] = pc[e] /\ req'[e] = req[e]
                                 /\ fencing'[e] = fencing[e]
      /\ pc'[c] # "lock" /\ fencing'[c] = ms
  BY <1>1 DEF Fence, Goto, TypeOK
<1>4. \A k \in Master : req'[c][k] = IF k \in ms
                                     THEN Append(req[c][k], Hdr("FENCE", c, 0))
                                     ELSE req[c][k]
  BY <1>1 DEF Fence, TypeOK
<1>5. ASSUME NEW k \in ms
      PROVE  /\ Len(req[c][k]) \in Nat /\ Len(req'[c][k]) = Len(req[c][k]) + 1
             /\ \A i \in 1 .. Len(req[c][k]) : req'[c][k][i] = req[c][k][i]
             /\ req'[c][k][Len(req[c][k]) + 1].op = "FENCE"
  <2>1. k \in Master /\ req'[c][k] = Append(req[c][k], Hdr("FENCE", c, 0))
    BY <1>4
  <2>2. req[c][k] \in Seq(Header)
    BY <1>1, <2>1 DEF TypeOK
  <2>3. Hdr("FENCE", c, 0).op = "FENCE"
    BY DEF Hdr
  <2>4. QED
    BY <2>1, <2>2, <2>3
<1>6. \A k \in Master : RequestsAt(c, k)'
  <2>1. ASSUME NEW k \in ms PROVE RequestsAt(c, k)'
    <3> DEFINE n == Len(req[c][k])
    <3>0. /\ n \in Nat /\ Len(req'[c][k]) = n + 1
          /\ \A i \in 1 .. n : req'[c][k][i] = req[c][k][i]
          /\ req'[c][k][n + 1].op = "FENCE"
      BY <1>5
    <3>1. \A i \in 1 .. n : req'[c][k][i].op = "UNLOCK"
      BY ZenonT(60), <1>2, <3>0
    <3>2. rep'[c][k] = << >> /\ k \in fencing'[c]
      BY <1>2, <1>3
    <3> HIDE DEF n
    <3>3. \A i \in 1 .. n + 1 : i \in 1 .. n \/ i = n + 1
      BY <3>0
    <3>4. QED
      BY <3>0, <3>1, <3>2, <3>3 DEF RequestsAt, Awaits
  <2>2. ASSUME NEW k \in Master \ ms PROVE RequestsAt(c, k)'
    BY <1>2, <1>4 DEF RequestsAt
  <2>3. QED
    BY <2>1, <2>2
<1>7. \A k \in Master : RepliesAt(c, k)'
  BY <1>2 DEF RepliesAt
<1>8. \A k \in Master : UnlocksAt(c, k)'
  <2>1. ASSUME NEW k \in ms PROVE UnlocksAt(c, k)'
    <3> DEFINE n == Len(req[c][k])
    <3>0. /\ n \in Nat /\ Len(req'[c][k]) = n + 1
          /\ \A i \in 1 .. n : req'[c][k][i] = req[c][k][i]
          /\ \A i \in 1 .. n + 1 : req'[c][k][i].op = "UNLOCK" => i \in 1 .. n
      BY SMTT(30), <1>5
    <3> HIDE DEF n
    <3> SUFFICES ASSUME NEW i \in 1 .. n + 1, req'[c][k][i].op = "UNLOCK"
                 PROVE  /\ k = MasterOf[req'[c][k][i].rank]
                        /\ k \in fence_array'[c]
                        /\ Target(req'[c][k][i]) \notin held'[c]
                        /\ \A j \in 1 .. n + 1 : req'[c][k][j] = req'[c][k][i] => i = j
      BY <3>0 DEF UnlocksAt, Target
    <3>1. i \in 1 .. n /\ req'[c][k][i] = req[c][k][i]
      BY <3>0
    <3>2. UnlocksAt(c, k)
      BY <1>1 DEF WorkerInv
    <3>3. \A j \in 1 .. n + 1 : req'[c][k][j] = req'[c][k][i] => j \in 1 .. n
      BY <3>0
    <3>4. QED
      BY <3>0, <3>1, <3>2, <3>3 DEF UnlocksAt, n
  <2>2. ASSUME NEW k \in Master \ ms PROVE UnlocksAt(c, k)'
    <3>1. UnlocksAt(c, k)
      BY <1>1 DEF WorkerInv
    <3>2. QED
      BY <1>4, <3>1 DEF UnlocksAt
  <2>3. QED
    BY <2>1, <2>2
<1>9. ASSUME NEW x \in Mutex PROVE Token(c, x)' <=> Token(c, x)
  <2> DEFINE k == MasterOf[x[1]]
  <2>1. k \in Master /\ UnlockHdr(x).op = "UNLOCK"
    BY MutexTyped DEF UnlockHdr, Hdr
  <2> HIDE DEF k
  <2>2. (\E i \in 1 .. Len(req'[c][k]) : req'[c][k][i] = UnlockHdr(x))
        <=> (\E i \in 1 .. Len(req[c][k]) : req[c][k][i] = UnlockHdr(x))
    <3>1. CASE k \in ms
      <4> DEFINE n == Len(req[c][k])
      <4>0. /\ n \in Nat /\ Len(req'[c][k]) = n + 1
            /\ \A i \in 1 .. n : req'[c][k][i] = req[c][k][i]
            /\ \A i \in 1 .. n + 1 : req'[c][k][i].op = "UNLOCK" => i \in 1 .. n
        BY SMTT(30), <1>5, <3>1
      <4> HIDE DEF n
      <4>1. (\E i \in 1 .. n + 1 : req'[c][k][i] = UnlockHdr(x))
            <=> (\E i \in 1 .. n : req[c][k][i] = UnlockHdr(x))
        BY <2>1, <4>0
      <4>2. QED
        BY <4>0, <4>1 DEF n
    <3>2. CASE k \notin ms
      BY <1>4, <2>1, <3>2
    <3>3. QED
      BY <3>1, <3>2
  <2>3. QED
    BY <1>3, <2>2 DEF Token, Idle, k
<1>10. QED
  BY <1>3, <1>6, <1>7, <1>8, <1>9 DEF WorkerInv

(* The reply a worker takes was the only one; nothing else was under way   *)
(* to that master, and only unlocks to the others.                         *)
LEMMA TakeFacts ==
  ASSUME IInv, NEW c \in Worker, NEW m \in Master, Replied(c, m), TakeReply(c, m),
         pc[c] \in {"lock", "create_ack", "destroy_ack"},
         m = IF pc[c] = "lock" THEN MasterOf[cur[c][1]] ELSE MasterOf[c]
  PROVE  /\ \A d \in Worker \ {c} : rep'[d] = rep[d]
         /\ \A k \in Master : rep'[c][k] = << >>
         /\ req[c][m] = << >>
         /\ \A k \in Master, i \in Nat :
              i \in 1 .. Len(req[c][k]) => req[c][k][i].op = "UNLOCK"
<1>1. WorkerInv(c) /\ TypeOK
  BY DEF IInv
<1>2. fencing[c] = {}
  BY <1>1 DEF WorkerInv, QuietAt, FencePoint
<1>3. req[c][m] = << >> /\ Len(rep[c][m]) = 1
  BY <1>1 DEF WorkerInv, RepliesAt, Replied
<1>4. \A k \in Master \ {m} : rep[c][k] = << >>
  BY <1>1, <1>2 DEF WorkerInv, RepliesAt
<1>5. rep'[c][m] = Tail(rep[c][m]) /\ \A k \in Master \ {m} : rep'[c][k] = rep[c][k]
  BY <1>1 DEF TakeReply, TypeOK
<1>6. rep'[c][m] = << >>
  <2>1. rep[c][m] \in Seq(Reply)
    BY <1>1 DEF TypeOK
  <2>2. Tail(rep[c][m]) \in Seq(Reply) /\ Len(Tail(rep[c][m])) = 0
    BY SMTT(30), <1>3, <2>1
  <2>3. QED
    BY <1>5, <2>2, EmptySeq
<1>7. \A d \in Worker \ {c} : rep'[d] = rep[d]
  BY <1>1 DEF TakeReply, TypeOK
<1>8. \A k \in Master \ {m} : \A i \in 1 .. Len(req[c][k]) : req[c][k][i].op = "UNLOCK"
  BY <1>1, <1>2 DEF WorkerInv, RequestsAt, Awaits
<1>9. QED
  BY <1>3, <1>4, <1>5, <1>6, <1>7, <1>8

(* Taking a reply leaves only unlocks under way and no reply, whatever the *)
(* worker does next without sending.                                       *)
LEMMA TakenKeeps ==
  ASSUME IInv, NEW c \in Worker, req'[c] = req[c],
         \A k \in Master : rep'[c][k] = << >>,
         \A k \in Master, i \in Nat :
           i \in 1 .. Len(req[c][k]) => req[c][k][i].op = "UNLOCK"
  PROVE  \A k \in Master : RequestsAt(c, k)' /\ RepliesAt(c, k)'
<1>1. \A k \in Master : RequestsAt(c, k)'
  <2> SUFFICES ASSUME NEW k \in Master, NEW i \in 1 .. Len(req[c][k])
               PROVE  req[c][k][i].op = "UNLOCK"
    BY DEF RequestsAt
  <2>1. i \in Nat
    BY DEF IInv, TypeOK
  <2>2. QED
    BY <2>1
<1>2. \A k \in Master : RepliesAt(c, k)'
  BY DEF RepliesAt
<1>3. QED
  BY <1>1, <1>2

(* A granted lock: the right to the mutex moves from the reply to held.    *)
LEMMA LockGrantedKeeps ==
  ASSUME IInv, TypeOK', NEW c \in Worker, LockGranted(c)
  PROVE  IInv'
<1>0. PICK x \in Mutex : x = cur[c]
  BY DEF IInv, LockGranted, TypeOK
<1> DEFINE m == MasterOf[x[1]]
<1>1. WorkerInv(c) /\ TypeOK /\ pc[c] = "lock"
  BY DEF IInv, LockGranted
<1>2. m \in Master
  BY <1>1, MutexTyped
<1>3. /\ \A d \in Worker \ {c} : rep'[d] = rep[d]
      /\ \A k \in Master : rep'[c][k] = << >>
      /\ req[c][m] = << >>
      /\ \A k \in Master, i \in Nat :
           i \in 1 .. Len(req[c][k]) => req[c][k][i].op = "UNLOCK"
  BY <1>0, <1>1, <1>2, TakeFacts DEF LockGranted
<1>4. rep[c][m] # << >> /\ fencing[c] = {}
  BY <1>0, <1>1 DEF LockGranted, Replied, WorkerInv, QuietAt, FencePoint
<1>5. /\ held'[c] = held[c] \cup {x} /\ pc'[c] = "ready"
      /\ req' = req /\ fence_array' = fence_array /\ fencing' = fencing
      /\ \A d \in Worker \ {c} :
           pc'[d] = pc[d] /\ cur'[d] = cur[d] /\ held'[d] = held[d]
  BY <1>0, <1>1 DEF LockGranted, Goto, TypeOK
<1> HIDE DEF m
<1>6. \A d \in Worker \ {c} : SameAt(d)
  BY <1>3, <1>5 DEF SameAt
<1>7. NotQueued(c)
  BY <1>0, <1>1, <1>4 DEF NotQueued, IInv, QueueInv, Waits, m
<1>8. WorkerInv(c)'
  <2>1. QuietAt(c)'
    BY <1>4, <1>5 DEF QuietAt
  <2>2. \A k \in Master : RequestsAt(c, k)' /\ RepliesAt(c, k)'
    BY <1>3, <1>5, TakenKeeps
  <2>3. ASSUME NEW k \in Master PROVE UnlocksAt(c, k)'
    <3>1. UnlocksAt(c, k)
      BY <1>1 DEF WorkerInv
    <3>2. ASSUME NEW i \in 1 .. Len(req[c][k]), req[c][k][i].op = "UNLOCK"
          PROVE  Target(req[c][k][i]) # x
      BY <1>3, <3>1, <3>2 DEF UnlocksAt, Target, m
    <3>3. QED
      BY <1>5, <3>1, <3>2 DEF UnlocksAt, Target
  <2>4. QED
    BY <2>1, <2>2, <2>3 DEF WorkerInv
<1>9. ASSUME NEW y \in Mutex PROVE Token(c, y)' <=> Token(c, y)
  <2>1. Token(c, x)
    BY <1>0, <1>1, <1>4 DEF Token, m
  <2>2. Token(c, x)'
    BY <1>5 DEF Token
  <2>3. CASE y # x
    BY <1>0, <1>5, <2>3 DEF Token
  <2>4. QED
    BY <2>1, <2>2, <2>3
<1>10. /\ UsePoint \in {UsePoint, DestroyPoint, CreatePoint}
       /\ pc[c] \in UsePoint /\ pc'[c] \in UsePoint
  BY <1>1, <1>5 DEF UsePoint
<1>11. UNCHANGED serverVars
  BY DEF LockGranted
<1>12. QED
  BY <1>6, <1>7, <1>8, <1>9, <1>10, <1>11, WorkerFrame

(* An unlock: the right to the mutex moves from held to the header.        *)
LEMMA UnlockKeeps ==
  ASSUME IInv, TypeOK', NEW c \in Worker, NEW x \in Mutex, comex_unlock(c, x)
  PROVE  IInv'
<1> DEFINE m == MasterOf[x[1]]
           h == UnlockHdr(x)
           n == Len(req[c][m])
<1>1. WorkerInv(c) /\ TypeOK /\ m \in Master /\ pc[c] = "ready" /\ x \in held[c]
  BY MutexTyped DEF IInv, comex_unlock
<1>2. h \in Header /\ h.op = "UNLOCK" /\ h.rank = x[1] /\ Target(h) = x
  <2>1. h \in Header
    BY HeaderTyped, MutexTyped DEF IndexOp, UnlockHdr
  <2>2. QED
    BY <2>1, MutexTyped DEF UnlockHdr, Hdr, Target
<1>3. /\ \A d \in Worker \ {c} : req'[d] = req[d]
      /\ \A k \in Master \ {m} : req'[c][k] = req[c][k]
      /\ n \in Nat /\ Len(req'[c][m]) = n + 1
      /\ \A i \in 1 .. n : req'[c][m][i] = req[c][m][i]
      /\ req'[c][m][n + 1] = h
  BY ZenonT(60), <1>1, <1>2, SendFacts DEF comex_unlock, UnlockHdr
<1>4. \A k \in Master : /\ rep[c][k] = << >>
                        /\ \A i \in 1 .. Len(req[c][k]) : req[c][k][i].op = "UNLOCK"
  BY <1>1, IdleFacts DEF FencePoint
<1>5. /\ fence_array'[c] = fence_array[c] \cup {m} /\ held'[c] = held[c] \ {x}
      /\ pc' = pc /\ cur' = cur /\ fencing' = fencing /\ rep' = rep
      /\ \A d \in Worker \ {c} : fence_array'[d] = fence_array[d] /\ held'[d] = held[d]
  BY <1>1 DEF comex_unlock, TypeOK
<1> HIDE DEF m, h, n
<1>6. \A i \in 1 .. n + 1 : i \in 1 .. n \/ i = n + 1
  BY <1>3
<1>7. \A i \in 1 .. n : req[c][m][i] # h
  BY <1>1, <1>2 DEF WorkerInv, UnlocksAt, n
<1>8. WorkerInv(c)'
  <2>1. QuietAt(c)'
    BY <1>1, <1>5 DEF WorkerInv, QuietAt
  <2>2. \A k \in Master : RequestsAt(c, k)'
    <3>1. \A i \in 1 .. n + 1 : req'[c][m][i].op = "UNLOCK"
      BY SMTT(30), <1>1, <1>2, <1>3, <1>4, <1>6 DEF n
    <3>2. RequestsAt(c, m)'
      BY <1>3, <3>1 DEF RequestsAt
    <3>3. QED
      BY <1>3, <1>4, <3>2 DEF RequestsAt
  <2>3. \A k \in Master : RepliesAt(c, k)'
    BY <1>4, <1>5 DEF RepliesAt
  <2>4. UnlocksAt(c, m)'
    <3> SUFFICES ASSUME NEW i \in 1 .. n + 1, req'[c][m][i].op = "UNLOCK"
                 PROVE  /\ m = MasterOf[req'[c][m][i].rank]
                        /\ m \in fence_array'[c]
                        /\ Target(req'[c][m][i]) \notin held'[c]
                        /\ \A j \in 1 .. n + 1 : req'[c][m][j] = req'[c][m][i] => i = j
      BY <1>3 DEF UnlocksAt, Target
    <3>1. UnlocksAt(c, m)
      BY <1>1 DEF WorkerInv
    <3>2. CASE i = n + 1
      BY <1>2, <1>3, <1>5, <1>6, <1>7, <3>2 DEF m
    <3>3. CASE i \in 1 .. n
      <4>1. req'[c][m][i] = req[c][m][i] /\ req[c][m][i] # h
        BY <1>3, <1>7, <3>3
      <4>2. \A j \in 1 .. n + 1 : req'[c][m][j] = req'[c][m][i] => j \in 1 .. n
        BY <1>3, <1>6, <4>1
      <4>3. QED
        BY <1>3, <1>5, <3>1, <3>3, <4>1, <4>2 DEF UnlocksAt, n
    <3>4. QED
      BY <1>6, <3>2, <3>3
  <2>5. ASSUME NEW k \in Master \ {m} PROVE UnlocksAt(c, k)'
    <3>1. UnlocksAt(c, k)
      BY <1>1 DEF WorkerInv
    <3>2. QED
      BY <1>3, <1>5, <3>1 DEF UnlocksAt, Target
  <2>6. QED
    BY <2>1, <2>2, <2>3, <2>4, <2>5 DEF WorkerInv
<1>9. ASSUME NEW y \in Mutex PROVE Token(c, y)' <=> Token(c, y)
  <2>1. Token(c, x)
    BY <1>1 DEF Token
  <2>2. Token(c, x)'
    <3>1. n + 1 \in 1 .. Len(req'[c][m])
      BY <1>3
    <3>2. QED
      BY <1>3, <3>1 DEF Token, h, m
  <2>3. CASE y # x
    <3> DEFINE k == MasterOf[y[1]]
    <3>1. UnlockHdr(y) # h
      <4>1. h.rank = x[1] /\ h.length = x[2]
        BY DEF h, UnlockHdr, Hdr
      <4>2. UnlockHdr(y).rank = y[1] /\ UnlockHdr(y).length = y[2]
        BY DEF UnlockHdr, Hdr
      <4>3. QED
        BY <2>3, <4>1, <4>2, MutexTyped
    <3>2. k \in Master
      BY MutexTyped
    <3> HIDE DEF k
    <3>3. (\E i \in 1 .. Len(req'[c][k]) : req'[c][k][i] = UnlockHdr(y))
          <=> (\E i \in 1 .. Len(req[c][k]) : req[c][k][i] = UnlockHdr(y))
      <4>1. CASE k = m
        <5>1. (\E i \in 1 .. n + 1 : req'[c][m][i] = UnlockHdr(y))
              <=> (\E i \in 1 .. n : req[c][m][i] = UnlockHdr(y))
          BY <1>3, <1>6, <3>1
        <5>2. QED
          BY <1>3, <4>1, <5>1 DEF n
      <4>2. QED
        BY <1>3, <3>2, <4>1
    <3>4. QED
      BY <1>5, <2>3, <3>3 DEF Token, k
  <2>4. QED
    BY <2>1, <2>2, <2>3
<1>10. \A d \in Worker \ {c} : SameAt(d)
  BY <1>3, <1>5 DEF SameAt
<1>11. NotQueued(c)
  BY <1>1, NotQueuedFacts
<1>12. /\ UsePoint \in {UsePoint, DestroyPoint, CreatePoint}
       /\ pc[c] \in UsePoint /\ pc'[c] \in UsePoint
  BY <1>1, <1>5 DEF UsePoint
<1>13. UNCHANGED serverVars
  BY DEF comex_unlock
<1>14. QED
  BY <1>8, <1>9, <1>10, <1>11, <1>12, <1>13, WorkerFrame

(* A fence that is over has seen every unlock it covers handled.           *)
LEMMA FenceDoneKeeps ==
  ASSUME IInv, TypeOK', NEW c \in Worker, FenceDone(c)
  PROVE  IInv'
<1>1. WorkerInv(c) /\ TypeOK /\ pc[c] \in FencePoint
  BY DEF IInv, FenceDone
<1>2. /\ \A m \in fencing[c] : m \in Master /\ rep[c][m] # << >>
      /\ \A m \in Master : rep'[c][m] = IF m \in fencing[c] THEN Tail(rep[c][m])
                                        ELSE rep[c][m]
      /\ fence_array'[c] = fence_array[c] \ fencing[c] /\ fencing'[c] = {}
      /\ pc'[c] = After[pc[c]] /\ cur' = cur /\ held' = held /\ req' = req
      /\ \A d \in Worker \ {c} :
           /\ pc'[d] = pc[d] /\ rep'[d] = rep[d]
           /\ fence_array'[d] = fence_array[d] /\ fencing'[d] = fencing[d]
  BY <1>1 DEF FenceDone, Replied, Goto, TypeOK
<1>3. \A m \in fencing[c] : req[c][m] = << >> /\ Len(rep[c][m]) = 1
  BY <1>1, <1>2 DEF WorkerInv, RepliesAt
<1>4. \A m \in Master : rep'[c][m] = << >>
  <2>1. ASSUME NEW m \in fencing[c] PROVE rep'[c][m] = << >>
    <3>1. rep[c][m] \in Seq(Reply)
      BY <1>1, <1>2 DEF TypeOK
    <3>2. Tail(rep[c][m]) \in Seq(Reply) /\ Len(Tail(rep[c][m])) = 0
      BY <1>2, <1>3, <3>1
    <3>3. QED
      BY <1>2, <3>2, EmptySeq
  <2>2. ASSUME NEW m \in Master \ fencing[c] PROVE rep[c][m] = << >>
    BY <1>1 DEF WorkerInv, RepliesAt, FencePoint
  <2>3. QED
    BY <1>2, <2>1, <2>2
<1>5. \A m \in Master, i \in Nat :
        i \in 1 .. Len(req[c][m]) => m \notin fencing[c] /\ req[c][m][i].op = "UNLOCK"
  BY <1>1, <1>3 DEF WorkerInv, RequestsAt, Awaits, FencePoint
<1>6. WorkerInv(c)'
  <2>1. QuietAt(c)'
    BY <1>1, <1>2 DEF WorkerInv, QuietAt, FencePoint, After
  <2>2. \A m \in Master : RequestsAt(c, m)' /\ RepliesAt(c, m)'
    BY <1>2, <1>4, <1>5, TakenKeeps
  <2>3. ASSUME NEW m \in Master PROVE UnlocksAt(c, m)'
    <3>1. UnlocksAt(c, m)
      BY <1>1 DEF WorkerInv
    <3>2. \A i \in 1 .. Len(req[c][m]) : m \notin fencing[c]
      BY <1>3
    <3>3. QED
      BY <1>2, <3>1, <3>2 DEF UnlocksAt, Target
  <2>4. QED
    BY <2>1, <2>2, <2>3 DEF WorkerInv
<1>7. \A x \in Mutex : Token(c, x)' <=> Token(c, x)
  <2>1. pc[c] # "lock" /\ pc'[c] # "lock"
    BY <1>1, <1>2 DEF FencePoint, After
  <2>2. QED
    BY <1>2, <2>1 DEF Token
<1>8. \A d \in Worker \ {c} : SameAt(d)
  BY <1>2 DEF SameAt
<1>9. NotQueued(c)
  BY <1>1, NotQueuedFacts DEF FencePoint
<1>10. \E S \in {UsePoint, DestroyPoint, CreatePoint} : pc[c] \in S /\ pc'[c] \in S
  BY <1>1, <1>2 DEF FencePoint, After, UsePoint, CreatePoint
<1>11. UNCHANGED serverVars
  BY DEF FenceDone
<1>12. QED
  BY <1>6, <1>7, <1>8, <1>9, <1>10, <1>11, WorkerFrame

(* Every step of a worker.                                                 *)
LEMMA WorkerKeeps ==
  ASSUME IInv, TypeOK', NEW c \in Worker, UserCall(c) \/ Unlock(c) \/ Continue(c)
  PROVE  IInv'
<1>0. WorkerInv(c) /\ TypeOK /\ MasterOf[c] \in Master
  BY MutexAssumption DEF IInv, MutexAssumption
<1>1. ASSUME NEW n \in Counts[c], comex_create_mutexes(c, n) PROVE IInv'
  <2>1. /\ pc[c] = "none" /\ pc'[c] = "allgather"
        /\ \A d \in Worker \ {c} : pc'[d] = pc[d]
        /\ cur' = cur /\ held' = held /\ fence_array' = fence_array
        /\ fencing' = fencing /\ req' = req /\ rep' = rep /\ UNCHANGED serverVars
    BY <1>0, <1>1 DEF comex_create_mutexes, Goto, TypeOK
  <2>2. QuietAt(c)'
    BY <1>0, <2>1 DEF WorkerInv, QuietAt, FencePoint
  <2>3. WorkerInv(c)' /\ \A x \in Mutex : Token(c, x)' <=> Token(c, x)
    BY <2>1, <2>2, MoveKeeps DEF Idle, FencePoint
  <2>4. \A d \in Worker \ {c} : SameAt(d)
    BY <2>1 DEF SameAt
  <2>5. NotQueued(c) /\ pc[c] \in DestroyPoint /\ pc'[c] \in DestroyPoint
    BY <2>1, NotQueuedFacts DEF DestroyPoint
  <2>6. QED
    BY <2>1, <2>3, <2>4, <2>5, WorkerFrame
<1>2. ASSUME NEW x \in Mutex, comex_lock(c, x) PROVE IInv'
  <2> DEFINE h == Hdr("LOCK", x[1], x[2])
             m == MasterOf[x[1]]
  <2>1. /\ pc[c] = "ready" /\ pc'[c] = "lock" /\ x \notin held[c] /\ cur'[c] = x
        /\ \A d \in Worker \ {c} : pc'[d] = pc[d] /\ cur'[d] = cur[d]
        /\ held' = held /\ fence_array' = fence_array
        /\ fencing' = fencing /\ rep' = rep /\ UNCHANGED serverVars
        /\ nb_send_header(c, m, h)
    BY <1>0, <1>2 DEF comex_lock, Goto, TypeOK
  <2>2. h \in Header /\ h.op = "LOCK" /\ Target(h) = x /\ m \in Master
    <3>1. h \in Header /\ m \in Master
      BY HeaderTyped, MutexTyped DEF IndexOp
    <3>2. QED
      BY <3>1, MutexTyped DEF Hdr, Target
  <2>3. \A d \in Worker \ {c} : req'[d] = req[d]
    BY <1>0, <2>1, <2>2, SendFacts
  <2> HIDE DEF h, m
  <2>4. QuietAt(c)'
    BY <1>0, <2>1 DEF WorkerInv, QuietAt, FencePoint
  <2>5. Awaits(c, m, h)'
    BY <2>1, <2>2 DEF Awaits, h, m, Target
  <2>6. WorkerInv(c)' /\ \A y \in Mutex : Token(c, y)' <=> Token(c, y)
    BY <2>1, <2>2, <2>4, <2>5, RequestKeeps DEF Idle, FencePoint
  <2>7. \A d \in Worker \ {c} : SameAt(d)
    BY <2>1, <2>3 DEF SameAt
  <2>8. NotQueued(c) /\ pc[c] \in UsePoint /\ pc'[c] \in UsePoint
    BY <2>1, NotQueuedFacts DEF UsePoint
  <2>9. QED
    BY <2>1, <2>6, <2>7, <2>8, WorkerFrame
<1>fence. ASSUME NEW ms \in SUBSET Master, NEW w \in UsePoint, NEW d \in UsePoint,
                 w # "lock", d # "lock", pc[c] = "ready", Fence(c, ms, w, d),
                 UNCHANGED <<num, num_mutexes, cur, held, fence_array, rep, serverVars>>,
                 QuietAt(c)'
          PROVE  IInv'
  <2>1. /\ \A e \in Worker \ {c} : pc'[e] = pc[e] /\ req'[e] = req[e]
                                   /\ fencing'[e] = fencing[e]
        /\ WorkerInv(c)'
        /\ \A x \in Mutex : Token(c, x)' <=> Token(c, x)
    BY <1>fence, FenceKeeps DEF Idle, FencePoint
  <2>2. \A e \in Worker \ {c} : SameAt(e)
    BY <1>fence, <2>1 DEF SameAt
  <2>3. NotQueued(c) /\ pc[c] \in UsePoint /\ pc'[c] \in UsePoint
    BY <1>0, <1>fence, NotQueuedFacts DEF UsePoint, Fence, Goto, TypeOK
  <2>4. QED
    BY <1>fence, <2>1, <2>2, <2>3, WorkerFrame
<1>3. CASE comex_fence_all(c)
  <2>1. QuietAt(c)'
    BY <1>0, <1>3 DEF comex_fence_all, Fence, Goto, TypeOK, WorkerInv, QuietAt, FencePoint
  <2>2. fence_array[c] \in SUBSET Master
    BY <1>0 DEF TypeOK
  <2>3. QED
    BY <1>3, <1>fence, <2>1, <2>2 DEF comex_fence_all, UsePoint
<1>4. ASSUME NEW m \in Master, comex_fence_proc(c, m) PROVE IInv'
  <2>1. QuietAt(c)'
    BY <1>0, <1>4 DEF comex_fence_proc, Fence, Goto, TypeOK, WorkerInv, QuietAt, FencePoint
  <2>2. QED
    BY <1>4, <1>fence, <2>1 DEF comex_fence_proc, UsePoint
<1>5. CASE comex_destroy_mutexes(c)
  <2>1. QuietAt(c)'
    BY <1>0, <1>5 DEF comex_destroy_mutexes, Fence, Goto, TypeOK, WorkerInv, QuietAt,
                      FencePoint
  <2>2. fence_array[c] \in SUBSET Master
    BY <1>0 DEF TypeOK
  <2>3. QED
    BY <1>5, <1>fence, <2>1, <2>2 DEF comex_destroy_mutexes, UsePoint
<1>6. ASSUME NEW h \in Header, nb_send_header(c, MasterOf[c], h), h.op # "UNLOCK",
             Idle(c), UNCHANGED <<cur, held, fence_array, fencing, rep, serverVars>>,
             \A d \in Worker \ {c} : pc'[d] = pc[d],
             NEW S \in {UsePoint, DestroyPoint, CreatePoint}, pc[c] \in S, pc'[c] \in S,
             QuietAt(c)', Awaits(c, MasterOf[c], h)'
      PROVE  IInv'
  <2>1. WorkerInv(c)' /\ \A x \in Mutex : Token(c, x)' <=> Token(c, x)
    BY <1>0, <1>6, RequestKeeps
  <2>2. \A d \in Worker \ {c} : req'[d] = req[d]
    BY <1>0, <1>6, SendFacts
  <2>3. \A d \in Worker \ {c} : SameAt(d)
    BY <1>6, <2>2 DEF SameAt
  <2>4. NotQueued(c)
    BY <1>6, NotQueuedFacts DEF Idle
  <2>5. QED
    BY <1>6, <2>1, <2>3, <2>4, WorkerFrame
<1>7. CASE CreateSend(c)
  <2> DEFINE h == Hdr("CREATE_MUTEXES", c, num[c])
  <2>1. /\ pc[c] = "create_send" /\ pc'[c] = "create_ack"
        /\ \A d \in Worker \ {c} : pc'[d] = pc[d]
        /\ nb_send_header(c, MasterOf[c], h)
        /\ UNCHANGED <<num, cur, held, fence_array, fencing, rep, serverVars>>
    BY <1>0, <1>7 DEF CreateSend, Goto, TypeOK
  <2>2. h \in Header /\ h.op = "CREATE_MUTEXES"
    <3>1. h \in Header
      BY <1>0, HeaderTyped DEF CountOp, TypeOK
    <3>2. QED
      BY <3>1 DEF Hdr
  <2>3. PICK g \in Header : g = h
    BY <2>2
  <2> HIDE DEF h
  <2>4. QuietAt(c)'
    BY <1>0, <2>1 DEF WorkerInv, QuietAt, FencePoint
  <2>5. Awaits(c, MasterOf[c], g)'
    BY <2>1, <2>2, <2>3 DEF Awaits
  <2>6. QED
    BY <1>6, <2>1, <2>2, <2>3, <2>4, <2>5 DEF Idle, FencePoint, CreatePoint
<1>8. CASE CreateAcked(c)
  <2>1. /\ pc[c] = "create_ack" /\ Replied(c, MasterOf[c])
        /\ TakeReply(c, MasterOf[c])
        /\ Fence(c, fence_array[c], "create_fence", "create_barrier")
        /\ UNCHANGED <<cur, held, fence_array, serverVars>>
    BY <1>8 DEF CreateAcked
  <2>2. fence_array[c] = {} /\ fencing[c] = {} /\ held[c] = {}
    BY <1>0, <2>1 DEF WorkerInv, QuietAt, FencePoint
  <2>3. pc'[c] = "create_barrier" /\ fencing'[c] = {} /\ req'[c] = req[c]
    <3>1. pc'[c] = "create_barrier" /\ fencing'[c] = {}
      BY <1>0, <2>1, <2>2 DEF Fence, Goto, TypeOK
    <3>2. req'[c] = [m \in Master |-> req[c][m]]
      BY <1>0, <2>1, <2>2 DEF Fence, TypeOK
    <3>3. QED
      BY <1>0, <3>1, <3>2 DEF TypeOK
  <2>4. \A d \in Worker \ {c} : pc'[d] = pc[d] /\ fencing'[d] = fencing[d]
                                /\ req'[d] = req[d]
    BY <1>0, <2>1 DEF Fence, Goto, TypeOK
  <2>5. /\ \A d \in Worker \ {c} : rep'[d] = rep[d]
        /\ \A k \in Master : rep'[c][k] = << >>
        /\ \A k \in Master, i \in Nat :
             i \in 1 .. Len(req[c][k]) => req[c][k][i].op = "UNLOCK"
    BY <1>0, <2>1, TakeFacts
  <2>6. WorkerInv(c)'
    <3>1. QuietAt(c)'
      BY <2>1, <2>2, <2>3 DEF QuietAt
    <3>2. \A k \in Master : RequestsAt(c, k)' /\ RepliesAt(c, k)'
      BY <2>3, <2>5, TakenKeeps
    <3>3. \A k \in Master : UnlocksAt(c, k)'
      BY <1>0, <2>1, <2>3 DEF WorkerInv, UnlocksAt, Target
    <3>4. QED
      BY <3>1, <3>2, <3>3 DEF WorkerInv
  <2>7. \A x \in Mutex : Token(c, x)' <=> Token(c, x)
    BY <2>1, <2>3 DEF Token
  <2>8. \A d \in Worker \ {c} : SameAt(d)
    BY <2>1, <2>4, <2>5 DEF SameAt
  <2>9. NotQueued(c) /\ pc[c] \in CreatePoint /\ pc'[c] \in CreatePoint
    BY <2>1, <2>3, NotQueuedFacts DEF CreatePoint
  <2>10. QED
    BY <2>1, <2>6, <2>7, <2>8, <2>9, WorkerFrame
<1>9. CASE DestroySend(c)
  <2>1. /\ pc[c] = "destroy_send" /\ pc'[c] = "destroy_ack"
        /\ \A d \in Worker \ {c} : pc'[d] = pc[d]
        /\ UNCHANGED <<num, cur, held, fence_array, fencing, rep, serverVars>>
    BY <1>0, <1>9 DEF DestroySend, Goto, TypeOK
  <2>2. PICK n \in DestroyLength(c) :
          nb_send_header(c, MasterOf[c], Hdr("DESTROY_MUTEXES", c, n))
    BY <1>9 DEF DestroySend
  <2>3. n \in 0 .. MaxMutexes
    BY <1>0 DEF DestroyLength, TypeOK
  <2>4. PICK g \in Header : g = Hdr("DESTROY_MUTEXES", c, n)
    BY <2>3, HeaderTyped DEF CountOp
  <2>5. g.op = "DESTROY_MUTEXES"
    BY <2>4 DEF Hdr
  <2>6. QuietAt(c)'
    BY <1>0, <2>1 DEF WorkerInv, QuietAt, FencePoint
  <2>7. Awaits(c, MasterOf[c], g)'
    BY <2>1, <2>5 DEF Awaits
  <2>8. QED
    BY <1>6, <2>1, <2>2, <2>4, <2>5, <2>6, <2>7 DEF Idle, FencePoint, DestroyPoint
<1>10. CASE DestroyAcked(c)
  <2>1. /\ pc[c] = "destroy_ack" /\ Replied(c, MasterOf[c]) /\ pc'[c] = "none"
        /\ TakeReply(c, MasterOf[c])
        /\ \A d \in Worker \ {c} : pc'[d] = pc[d]
        /\ UNCHANGED <<cur, held, fence_array, fencing, req, serverVars>>
    BY <1>0, <1>10 DEF DestroyAcked, Goto, TypeOK
  <2>2. /\ \A d \in Worker \ {c} : rep'[d] = rep[d]
        /\ \A k \in Master : rep'[c][k] = << >>
        /\ \A k \in Master, i \in Nat :
             i \in 1 .. Len(req[c][k]) => req[c][k][i].op = "UNLOCK"
    BY <1>0, <2>1, TakeFacts
  <2>3. WorkerInv(c)'
    <3>1. QuietAt(c)'
      BY <1>0, <2>1 DEF WorkerInv, QuietAt, FencePoint
    <3>2. \A k \in Master : RequestsAt(c, k)' /\ RepliesAt(c, k)'
      BY <2>1, <2>2, TakenKeeps
    <3>3. \A k \in Master : UnlocksAt(c, k)'
      BY <1>0, <2>1 DEF WorkerInv, UnlocksAt, Target
    <3>4. QED
      BY <3>1, <3>2, <3>3 DEF WorkerInv
  <2>4. \A x \in Mutex : Token(c, x)' <=> Token(c, x)
    BY <2>1 DEF Token
  <2>5. \A d \in Worker \ {c} : SameAt(d)
    BY <2>1, <2>2 DEF SameAt
  <2>6. NotQueued(c) /\ pc[c] \in DestroyPoint /\ pc'[c] \in DestroyPoint
    BY <2>1, NotQueuedFacts DEF DestroyPoint
  <2>7. QED
    BY <2>1, <2>3, <2>4, <2>5, <2>6, WorkerFrame
<1>11. QED
  BY <1>1, <1>2, <1>3, <1>4, <1>5, <1>7, <1>8, <1>9, <1>10, UnlockKeeps,
     LockGrantedKeeps, FenceDoneKeeps DEF UserCall, Unlock, Continue

(* The collectives move workers that wait for nothing.                     *)
LEMMA CollectiveKeeps ==
  ASSUME IInv, TypeOK', Allgather \/ Barrier
  PROVE  IInv'
<1>1. /\ UNCHANGED <<cur, held, fence_array, fencing, req, rep, serverVars>>
      /\ StageInv' /\ \A c \in Worker : Idle(c) /\ Idle(c)' /\ QuietAt(c)'
  <2>0. \A c \in Worker : QuietAt(c)
    BY DEF IInv, WorkerInv
  <2>1. CASE Allgather
    <3>1. \A c \in Worker : pc[c] = "allgather" /\ pc'[c] = "create_send"
      BY <2>1 DEF Allgather
    <3>2. UNCHANGED <<cur, held, fence_array, fencing, req, rep, serverVars>>
      BY <2>1 DEF Allgather
    <3>3. QED
      BY <2>0, <3>1, <3>2 DEF StageInv, CreatePoint, Idle, QuietAt, FencePoint
  <2>2. CASE Barrier
    <3>1. UNCHANGED <<cur, held, fence_array, fencing, req, rep, serverVars>>
      BY <2>2 DEF Barrier
    <3>2. \A c \in Worker : /\ pc[c] \in {"create_barrier", "destroy_barrier"}
                            /\ pc[c] = "create_barrier" => pc'[c] = "ready"
                            /\ pc[c] = "destroy_barrier" => pc'[c] \in {"destroy_send", "none"}
      BY <2>2 DEF Barrier
    <3>3. StageInv'
      BY <3>2 DEF IInv, StageInv, UsePoint, DestroyPoint, CreatePoint
    <3>4. QED
      BY <2>0, <3>1, <3>2, <3>3 DEF Idle, QuietAt, FencePoint
  <2>3. QED
    BY <2>1, <2>2
<1>2. ASSUME NEW c \in Worker
      PROVE  WorkerInv(c)' /\ \A x \in Mutex : Token(c, x)' <=> Token(c, x)
  BY <1>1, MoveKeeps
<1>3. QueueInv'
  <2>1. lq_heads' = lq_heads
    BY <1>1 DEF serverVars
  <2>2. \A x \in Mutex : \A i \in 1 .. Len(lq_heads[x]) : FALSE
    <3>1. \A x \in Mutex : \A i \in 1 .. Len(lq_heads[x]) : lq_heads[x][i] \in Worker
      BY DEF IInv, TypeOK
    <3>2. \A x \in Mutex : \A i \in 1 .. Len(lq_heads[x]) : pc[lq_heads[x][i]] = "lock"
      BY DEF IInv, QueueInv, Waits
    <3>3. QED
      BY <1>1, <3>1, <3>2 DEF Idle
  <2>3. QED
    BY <2>1, <2>2 DEF QueueInv
<1>4. TokenInv'
  <2>1. mutexes' = mutexes
    BY <1>1 DEF serverVars
  <2>2. QED
    BY <1>2, <2>1 DEF IInv, TokenInv
<1>5. QED
  BY <1>1, <1>2, <1>3, <1>4 DEF IInv

-----------------------------------------------------------------------------
(* The steps of the servers.                                               *)

(* Taking the oldest header of a channel shifts the others.                *)
LEMMA RecvFacts ==
  ASSUME TypeOK, NEW m \in Master, NEW c \in Worker, req[c][m] # << >>,
         ProgressRecv(m, c)
  PROVE  /\ \A d \in Worker \ {c} : req'[d] = req[d]
         /\ \A k \in Master \ {m} : req'[c][k] = req[c][k]
         /\ Len(req[c][m]) \in Nat \ {0} /\ Len(req'[c][m]) = Len(req[c][m]) - 1
         /\ \A i \in 1 .. Len(req'[c][m]) : req'[c][m][i] = req[c][m][i + 1]
         /\ Head(req[c][m]) = req[c][m][1]
         /\ Len(req[c][m]) = 1 => req'[c][m] = << >>
<1>1. req[c][m] \in Seq(Header)
  BY DEF TypeOK
<1>2. req'[c][m] = Tail(req[c][m])
  BY DEF ProgressRecv, TypeOK
<1>3. \A d \in Worker \ {c} : req'[d] = req[d]
  BY DEF ProgressRecv, TypeOK
<1>4. \A k \in Master \ {m} : req'[c][k] = req[c][k]
  BY DEF ProgressRecv, TypeOK
<1>5. /\ Len(req[c][m]) \in Nat \ {0} /\ Tail(req[c][m]) \in Seq(Header)
      /\ Len(Tail(req[c][m])) = Len(req[c][m]) - 1
      /\ \A i \in 1 .. Len(Tail(req[c][m])) : Tail(req[c][m])[i] = req[c][m][i + 1]
      /\ Head(req[c][m]) = req[c][m][1]
  BY <1>1, EmptySeq
<1>6. Len(req[c][m]) = 1 => Tail(req[c][m]) = << >>
  <2>1. Len(req[c][m]) = 1 => Len(Tail(req[c][m])) = 0
    BY <1>5
  <2>2. Len(Tail(req[c][m])) = 0 => Tail(req[c][m]) = << >>
    BY <1>5, EmptySeq
  <2>3. QED
    BY <2>1, <2>2
<1>7. QED
  BY <1>2, <1>3, <1>4, <1>5, <1>6

(* A reply on an empty channel is its only content.                        *)
LEMMA ServeFacts ==
  ASSUME TypeOK, NEW m \in Master, NEW c \in Worker, NEW r \in Reply,
         server_send(m, c, r), rep[c][m] = << >>
  PROVE  /\ \A d \in Worker \ {c} : rep'[d] = rep[d]
         /\ \A k \in Master \ {m} : rep'[c][k] = rep[c][k]
         /\ Len(rep'[c][m]) = 1 /\ rep'[c][m][1] = r /\ rep'[c][m] # << >>
<1>1. rep'[c][m] = Append(<< >>, r)
  BY DEF server_send, TypeOK
<1>2. Append(<< >>, r) = <<r>>
  BY EmptySeq, AppendProperties
<1>3. \A d \in Worker \ {c} : rep'[d] = rep[d]
  BY DEF server_send, TypeOK
<1>4. \A k \in Master \ {m} : rep'[c][k] = rep[c][k]
  BY DEF server_send, TypeOK
<1>5. QED
  BY <1>1, <1>2, <1>3, <1>4

(* A request that wants an answer is alone in its channel.                 *)
LEMMA RequestAlone ==
  ASSUME IInv, NEW m \in Master, NEW c \in Worker, req[c][m] # << >>,
         ProgressRecv(m, c), Head(req[c][m]).op # "UNLOCK"
  PROVE  /\ Awaits(c, m, Head(req[c][m])) /\ rep[c][m] = << >>
         /\ Len(req[c][m]) = 1 /\ req[c][m][1] = Head(req[c][m])
         /\ req'[c][m] = << >>
         /\ \A d \in Worker \ {c} : req'[d] = req[d]
         /\ \A k \in Master \ {m} : req'[c][k] = req[c][k]
<1>1. TypeOK /\ RequestsAt(c, m)
  BY DEF IInv, WorkerInv
<1>2. 1 \in 1 .. Len(req[c][m]) /\ Head(req[c][m]) = req[c][m][1]
  BY <1>1, RecvFacts
<1>3. Len(req[c][m]) = 1 /\ Awaits(c, m, Head(req[c][m])) /\ rep[c][m] = << >>
  BY <1>1, <1>2 DEF RequestsAt
<1>4. QED
  BY <1>1, <1>2, <1>3, RecvFacts

(* A server step leaves the worker's own variables and its channels to the *)
(* other servers alone; an emptied channel holds nothing to be wrong.      *)
LEMMA ChannelFacts ==
  ASSUME UNCHANGED workerVars, NEW c \in Worker, NEW k \in Master
  PROVE  /\ req'[c][k] = req[c][k] /\ rep'[c][k] = rep[c][k] =>
              /\ RequestsAt(c, k) => RequestsAt(c, k)'
              /\ RepliesAt(c, k) => RepliesAt(c, k)'
              /\ UnlocksAt(c, k) => UnlocksAt(c, k)'
         /\ req'[c][k] = << >> => RequestsAt(c, k)' /\ UnlocksAt(c, k)'
         /\ QuietAt(c) => QuietAt(c)'
<1> USE DEF workerVars
<1>1. ASSUME req'[c][k] = req[c][k], rep'[c][k] = rep[c][k], RequestsAt(c, k)
      PROVE  RequestsAt(c, k)'
  BY <1>1 DEF RequestsAt, Awaits, Target
<1>2. ASSUME req'[c][k] = req[c][k], rep'[c][k] = rep[c][k], RepliesAt(c, k)
      PROVE  RepliesAt(c, k)'
  BY <1>2 DEF RepliesAt
<1>3. ASSUME req'[c][k] = req[c][k], UnlocksAt(c, k) PROVE UnlocksAt(c, k)'
  BY <1>3 DEF UnlocksAt, Target
<1>4. ASSUME req'[c][k] = << >> PROVE RequestsAt(c, k)' /\ UnlocksAt(c, k)'
  <2>1. Len(req'[c][k]) = 0
    BY <1>4
  <2>2. QED
    BY <2>1 DEF RequestsAt, UnlocksAt
<1>5. QuietAt(c) => QuietAt(c)'
  BY DEF QuietAt
<1>6. QED
  BY <1>1, <1>2, <1>3, <1>4, <1>5

(* The unlocks a worker has under way are the same before and after.       *)
LEMMA TokenFacts ==
  ASSUME UNCHANGED workerVars, NEW c \in Worker, NEW x \in Mutex,
         LET k == MasterOf[x[1]]
         IN  \/ req'[c][k] = req[c][k] /\ rep'[c][k] = rep[c][k]
             \/ /\ Len(req[c][k]) = 1 /\ req[c][k][1] # UnlockHdr(x)
                /\ req'[c][k] = << >> /\ (pc[c] # "lock" \/ cur[c] # x)
             \/ /\ Len(req[c][k]) = 1 /\ req[c][k][1] # UnlockHdr(x)
                /\ req'[c][k] = << >> /\ rep'[c][k] = rep[c][k]
  PROVE  Token(c, x)' <=> Token(c, x)
<1> DEFINE k == MasterOf[x[1]]
<1>1. CASE req'[c][k] = req[c][k] /\ rep'[c][k] = rep[c][k]
  BY <1>1 DEF Token, workerVars
<1>2. CASE /\ Len(req[c][k]) = 1 /\ req[c][k][1] # UnlockHdr(x) /\ req'[c][k] = << >>
           /\ (pc[c] # "lock" \/ cur[c] # x) \/ rep'[c][k] = rep[c][k]
  <2>1. Len(req'[c][k]) = 0
    BY <1>2
  <2>2. \A i \in 1 .. Len(req'[c][k]) : FALSE
    BY <2>1
  <2>3. \A i \in 1 .. Len(req[c][k]) : req[c][k][i] # UnlockHdr(x)
    BY <1>2
  <2>4. QED
    BY <1>2, <2>2, <2>3 DEF Token, workerVars
<1>3. QED
  BY <1>1, <1>2

(* The queues hold workers.                                                *)
LEMMA QueuedTyped ==
  ASSUME TypeOK
  PROVE  \A x \in Mutex : \A i \in 1 .. Len(lq_heads[x]) : lq_heads[x][i] \in Worker
BY DEF TypeOK

(* Handlers that acknowledge and leave the mutexes as they are.            *)
LEMMA AckKeeps ==
  ASSUME IInv, TypeOK', NEW m \in Master, NEW c \in Worker, UNCHANGED workerVars,
         req[c][m] # << >>, ProgressRecv(m, c), server_send(m, c, Ack),
         Head(req[c][m]).op \in CountOp,
         \A x \in Mutex : mutexes'[x] = mutexes[x] /\ lq_heads'[x] = lq_heads[x]
  PROVE  IInv'
<1>1. TypeOK /\ StageInv /\ WorkerInv(c)
  BY DEF IInv
<1>2. /\ Awaits(c, m, Head(req[c][m])) /\ rep[c][m] = << >>
      /\ Len(req[c][m]) = 1 /\ req[c][m][1] = Head(req[c][m])
      /\ req'[c][m] = << >>
      /\ \A d \in Worker \ {c} : req'[d] = req[d]
      /\ \A k \in Master \ {m} : req'[c][k] = req[c][k]
  BY RequestAlone DEF CountOp
<1>3. /\ \A d \in Worker \ {c} : rep'[d] = rep[d]
      /\ \A k \in Master \ {m} : rep'[c][k] = rep[c][k]
      /\ Len(rep'[c][m]) = 1 /\ rep'[c][m][1] = Ack
  BY <1>1, <1>2, ServeFacts, ReplyTyped
<1>4. \/ m \in fencing[c] /\ pc[c] \in FencePoint
      \/ pc[c] \in {"create_ack", "destroy_ack"} /\ m = MasterOf[c]
  BY <1>1, <1>2 DEF Awaits, CountOp, WorkerInv, QuietAt
<1>5. pc[c] # "lock" /\ NotQueued(c)
  <2>1. pc[c] # "lock"
    BY <1>4 DEF FencePoint
  <2>2. QED
    BY <2>1, NotQueuedFacts
<1>6. \A d \in Worker \ {c} : SameAt(d)
  BY <1>2, <1>3 DEF SameAt, workerVars
<1>7. StageInv'
  BY <1>1 DEF StageInv, workerVars
<1>8. WorkerInv(c)'
  <2>1. RequestsAt(c, m)' /\ UnlocksAt(c, m)' /\ QuietAt(c)'
    BY <1>1, <1>2, ChannelFacts DEF WorkerInv
  <2>2. RepliesAt(c, m)'
    BY <1>2, <1>3, <1>4 DEF RepliesAt, workerVars
  <2>3. ASSUME NEW k \in Master \ {m}
        PROVE  RequestsAt(c, k)' /\ RepliesAt(c, k)' /\ UnlocksAt(c, k)'
    <3>1. RequestsAt(c, k) /\ RepliesAt(c, k) /\ UnlocksAt(c, k)
      BY <1>1 DEF WorkerInv
    <3>2. QED
      BY <1>2, <1>3, <3>1, ChannelFacts
  <2>4. QED
    BY <2>1, <2>2, <2>3 DEF WorkerInv
<1>9. ASSUME NEW x \in Mutex PROVE Token(c, x)' <=> Token(c, x)
  <2>1. MasterOf[x[1]] \in Master /\ UnlockHdr(x).op = "UNLOCK"
    BY MutexTyped DEF UnlockHdr, Hdr
  <2>2. UnlockHdr(x) # req[c][m][1]
    BY <1>2, <2>1 DEF CountOp
  <2>3. QED
    BY <1>2, <1>3, <1>5, <2>1, <2>2, TokenFacts
<1>10. QueueInv'
  <2>1. \A x \in Mutex : \A i \in 1 .. Len(lq_heads[x]) : lq_heads[x][i] \in Worker \ {c}
    BY <1>1, <1>5, QueuedTyped DEF NotQueued
  <2>2. \A x \in Mutex, d \in Worker \ {c} : Waits(d, x) => Waits(d, x)'
    BY <1>6, SameFacts
  <2>3. QED
    BY SMTT(30), <2>1, <2>2 DEF IInv, QueueInv, Waits
<1>11. TokenInv'
  BY <1>6, <1>9, SameFacts DEF IInv, TokenInv
<1>12. \A d \in Worker : WorkerInv(d)'
  BY <1>6, <1>8, SameFacts DEF IInv
<1>13. QED
  BY <1>7, <1>10, <1>11, <1>12 DEF IInv

(* While mutexes are created or destroyed nobody has a right to any.       *)
LEMMA QuietFacts ==
  ASSUME IInv, \A c \in Worker : pc[c] \notin UsePoint
  PROVE  \A x \in Mutex : mutexes[x] = UNLOCKED /\ lq_heads[x] = << >>
<1>1. TypeOK
  BY DEF IInv
<1>2. ASSUME NEW x \in Mutex, NEW c \in Worker PROVE ~Token(c, x)
  <2> DEFINE k == MasterOf[x[1]]
  <2>1. k \in Master /\ UnlockHdr(x).op = "UNLOCK"
    BY MutexTyped DEF UnlockHdr, Hdr
  <2>2. WorkerInv(c) /\ pc[c] \notin {"ready", "lock", "fence", "destroy_fence"}
    BY DEF IInv, UsePoint
  <2>3. held[c] = {} /\ fence_array[c] = {}
    BY <2>2 DEF WorkerInv, QuietAt
  <2>4. \A i \in 1 .. Len(req[c][k]) : req[c][k][i].op # "UNLOCK"
    BY <2>1, <2>2, <2>3 DEF WorkerInv, UnlocksAt
  <2>5. QED
    BY <2>1, <2>2, <2>3, <2>4 DEF Token
<1>3. ASSUME NEW x \in Mutex PROVE mutexes[x] = UNLOCKED
  BY <1>1, <1>2 DEF IInv, TokenInv, TypeOK
<1>4. ASSUME NEW x \in Mutex PROVE lq_heads[x] = << >>
  <2>1. lq_heads[x] \in Seq(Worker)
    BY <1>1 DEF TypeOK
  <2>2. \A i \in 1 .. Len(lq_heads[x]) : FALSE
    BY <1>1, QueuedTyped DEF IInv, QueueInv, Waits, UsePoint
  <2>3. QED
    BY <2>1, <2>2
<1>5. QED
  BY <1>3, <1>4

(* The handler of OP_CREATE_MUTEXES keeps the invariant.                   *)
LEMMA CreateHandlerKeeps ==
  ASSUME IInv, TypeOK', NEW m \in Master, NEW c \in Worker, mutex_create_handler(m, c)
  PROVE  IInv'
<1>1. /\ req[c][m] # << >> /\ Head(req[c][m]).op = "CREATE_MUTEXES"
      /\ ProgressRecv(m, c) /\ server_send(m, c, Ack) /\ UNCHANGED workerVars
  BY DEF mutex_create_handler, Pending
<1>2. pc[c] = "create_ack"
  BY <1>1, RequestAlone DEF Awaits
<1>3. \A d \in Worker : pc[d] \notin UsePoint
  BY <1>2 DEF IInv, StageInv, UsePoint, CreatePoint, DestroyPoint
<1>4. \A x \in Mutex : mutexes[x] = UNLOCKED /\ lq_heads[x] = << >>
  BY <1>3, QuietFacts
<1>5. \A x \in Mutex : mutexes'[x] = mutexes[x] /\ lq_heads'[x] = lq_heads[x]
  BY <1>4 DEF mutex_create_handler
<1>6. QED
  BY <1>1, <1>5, AckKeeps DEF CountOp

(* Granting a free mutex, or queueing the request for one in use.          *)
LEMMA LockHandlerKeeps ==
  ASSUME IInv, TypeOK', NEW m \in Master, NEW c \in Worker, lock_handler(m, c)
  PROVE  IInv'
<1>1. /\ TypeOK /\ StageInv /\ WorkerInv(c)
      /\ req[c][m] # << >> /\ Head(req[c][m]).op = "LOCK"
      /\ ProgressRecv(m, c) /\ UNCHANGED workerVars
  BY DEF lock_handler, Pending, IInv
<1>2. /\ Awaits(c, m, Head(req[c][m])) /\ rep[c][m] = << >>
      /\ Len(req[c][m]) = 1 /\ req[c][m][1] = Head(req[c][m])
      /\ req'[c][m] = << >>
      /\ \A d \in Worker \ {c} : req'[d] = req[d]
      /\ \A k \in Master \ {m} : req'[c][k] = req[c][k]
  BY <1>1, RequestAlone
<1>3. PICK x \in Mutex : x = cur[c] /\ x = Target(Head(req[c][m]))
                         /\ m = MasterOf[x[1]] /\ pc[c] = "lock"
  BY <1>1, <1>2, Zenon DEF Awaits, TypeOK
<1>4. \/ /\ mutexes[x] = UNLOCKED
         /\ mutexes' = [mutexes EXCEPT ![x] = c]
         /\ server_send(m, c, Grant(x[2]))
         /\ UNCHANGED lq_heads
      \/ /\ mutexes[x] # UNLOCKED
         /\ lq_heads' = [lq_heads EXCEPT ![x] = Append(@, c)]
         /\ UNCHANGED <<mutexes, rep>>
  BY <1>3, Zenon DEF lock_handler
<1>5. NotQueued(c)
  <2>1. \A y \in Mutex : ~Waits(c, y)
    BY <1>1, <1>3, Zenon DEF Waits
  <2>2. QED
    BY <2>1 DEF NotQueued, IInv, QueueInv
<1>6. StageInv'
  BY <1>1 DEF StageInv, workerVars
<1>7. /\ \A d \in Worker \ {c} : rep'[d] = rep[d]
      /\ \A k \in Master \ {m} : rep'[c][k] = rep[c][k]
      /\ rep'[c][m] # << >> => Len(rep'[c][m]) = 1 /\ rep'[c][m][1] = Grant(x[2])
  <2>1. Grant(x[2]) \in Reply
    BY ReplyTyped, MutexTyped
  <2>2. CASE server_send(m, c, Grant(x[2]))
    BY <1>1, <1>2, <2>1, <2>2, ServeFacts
  <2>3. CASE UNCHANGED rep
    BY <1>2, <2>3
  <2>4. QED
    BY <1>4, <2>2, <2>3
<1>8. \A d \in Worker \ {c} : SameAt(d)
  BY <1>1, <1>2, <1>7 DEF SameAt, workerVars
<1>9. \A d \in Worker : WorkerInv(d)'
  <2>1. RequestsAt(c, m)' /\ UnlocksAt(c, m)' /\ QuietAt(c)'
    BY <1>1, <1>2, ChannelFacts DEF WorkerInv
  <2>2. RepliesAt(c, m)'
    BY <1>1, <1>2, <1>3, <1>7, Zenon DEF RepliesAt, workerVars
  <2>3. ASSUME NEW k \in Master \ {m}
        PROVE  RequestsAt(c, k)' /\ RepliesAt(c, k)' /\ UnlocksAt(c, k)'
    <3>1. RequestsAt(c, k) /\ RepliesAt(c, k) /\ UnlocksAt(c, k)
      BY <1>1 DEF WorkerInv
    <3>2. QED
      BY <1>1, <1>2, <1>7, <3>1, ChannelFacts
  <2>4. WorkerInv(c)'
    BY <2>1, <2>2, <2>3 DEF WorkerInv
  <2>5. QED
    BY <1>8, <2>4, SameFacts DEF IInv
<1>10. \A y \in Mutex, d \in Worker \ {c} : /\ Token(d, y)' <=> Token(d, y)
                                            /\ Waits(d, y) => Waits(d, y)'
  BY <1>8, SameFacts
<1>11. \A y \in Mutex : UnlockHdr(y) # req[c][m][1] /\ MasterOf[y[1]] \in Master
  BY <1>1, <1>2, MutexTyped DEF UnlockHdr, Hdr
<1>12. ASSUME NEW y \in Mutex, y # x PROVE Token(c, y)' <=> Token(c, y)
  <2>1. CASE MasterOf[y[1]] = m
    <3>1. cur[c] # y
      BY <1>3, <1>12, Zenon
    <3>2. QED
      BY <1>1, <1>2, <1>11, <2>1, <3>1, TokenFacts
  <2>2. CASE MasterOf[y[1]] # m
    BY <1>1, <1>2, <1>7, <1>11, <2>2, TokenFacts
  <2>3. QED
    BY <2>1, <2>2
<1>13. \A y \in Mutex : \A i \in 1 .. Len(lq_heads[y]) : lq_heads[y][i] \in Worker \ {c}
  BY <1>1, <1>5, QueuedTyped DEF NotQueued
<1>14. CASE /\ mutexes[x] = UNLOCKED
            /\ mutexes' = [mutexes EXCEPT ![x] = c]
            /\ server_send(m, c, Grant(x[2]))
            /\ UNCHANGED lq_heads
  <2>1. QueueInv'
    BY <1>10, <1>13, <1>14 DEF IInv, QueueInv, Waits
  <2>2. rep'[c][m] # << >>
    <3>1. Grant(x[2]) \in Reply
      BY ReplyTyped, MutexTyped
    <3>2. QED
      BY <1>1, <1>2, <1>14, <3>1, ServeFacts
  <2>3. Token(c, x)'
    BY <1>1, <1>3, <2>2, Zenon DEF Token, workerVars
  <2>4. mutexes'[x] = c /\ \A y \in Mutex \ {x} : mutexes'[y] = mutexes[y]
    BY <1>1, <1>14 DEF TypeOK
  <2>5. \A d \in Worker : mutexes[x] # d
    BY <1>14, MutexAssumption DEF UNLOCKED, MutexAssumption
  <2>6. TokenInv'
    <3> SUFFICES ASSUME NEW d \in Worker, NEW y \in Mutex
                 PROVE  Token(d, y)' <=> mutexes'[y] = d
      BY DEF TokenInv
    <3>1. Token(d, y) <=> mutexes[y] = d
      BY DEF IInv, TokenInv
    <3>2. QED
      BY <1>10, <1>12, <2>3, <2>4, <2>5, <3>1
  <2>7. QED
    BY <1>6, <1>9, <2>1, <2>6 DEF IInv
<1>15. CASE /\ mutexes[x] # UNLOCKED
            /\ lq_heads' = [lq_heads EXCEPT ![x] = Append(@, c)]
            /\ UNCHANGED <<mutexes, rep>>
  <2>1. Waits(c, x)'
    BY <1>1, <1>2, <1>3, <1>15, Zenon DEF Waits, workerVars
  <2> DEFINE q == lq_heads[x]
             n == Len(q)
  <2>2. /\ n \in Nat /\ Len(lq_heads'[x]) = n + 1
        /\ \A i \in 1 .. n : lq_heads'[x][i] = q[i]
        /\ lq_heads'[x][n + 1] = c
        /\ \A y \in Mutex \ {x} : lq_heads'[y] = lq_heads[y]
    <3>1. q \in Seq(Worker) /\ lq_heads'[x] = Append(q, c)
      BY <1>1, <1>15 DEF TypeOK
    <3>2. \A y \in Mutex \ {x} : lq_heads'[y] = lq_heads[y]
      BY <1>1, <1>15 DEF TypeOK
    <3>3. QED
      BY <3>1, <3>2
  <2> HIDE DEF n, q
  <2>3. \A i \in 1 .. n + 1 : i \in 1 .. n \/ i = n + 1
    BY <2>2
  <2>4. ASSUME NEW i \in 1 .. n + 1
        PROVE  /\ Waits(lq_heads[x][i], x)'
               /\ \A j \in 1 .. n + 1 : lq_heads'[x][j] = lq_heads'[x][i] => i = j
    <3>1. CASE i = n + 1
      BY <1>13, <2>1, <2>2, <2>3, <3>1 DEF n, q, Waits
    <3>2. CASE i \in 1 .. n
      <4>1. q[i] \in Worker \ {c} /\ Waits(q[i], x)
        BY <1>13, <3>2 DEF IInv, QueueInv, n, q
      <4>2. \A j \in 1 .. n : q[j] = q[i] => i = j
        BY <3>2 DEF IInv, QueueInv, n, q
      <4>3. PICK d \in Worker \ {c} : d = q[i]
        BY <4>1
      <4>4. Waits(d, x)' /\ lq_heads'[x][i] = d
        BY <1>10, <2>2, <3>2, <4>1, <4>3
      <4>5. QED
        BY <2>2, <2>3, <3>2, <4>2, <4>3, <4>4 DEF Waits
    <3>3. QED
      BY <2>3, <3>1, <3>2
  <2>5. QueueInv'
    <3> SUFFICES ASSUME NEW y \in Mutex, NEW i \in 1 .. Len(lq_heads'[y])
                 PROVE  /\ Waits(lq_heads[y][i], y)'
                        /\ \A j \in 1 .. Len(lq_heads'[y]) :
                             lq_heads'[y][j] = lq_heads'[y][i] => i = j
      BY DEF QueueInv
    <3>1. CASE y = x
      BY <2>2, <2>4, <3>1
    <3>2. CASE y # x
      <4>1. lq_heads'[y] = lq_heads[y] /\ i \in 1 .. Len(lq_heads[y])
        BY <2>2, <3>2
      <4>2. PICK d \in Worker \ {c} : d = lq_heads[y][i]
        BY <1>13, <4>1
      <4>3. Waits(d, y)
        BY <4>1, <4>2 DEF IInv, QueueInv
      <4>4. Waits(d, y)'
        BY <1>10, <4>3
      <4>5. \A j \in 1 .. Len(lq_heads[y]) : lq_heads[y][j] = lq_heads[y][i] => i = j
        BY <4>1 DEF IInv, QueueInv
      <4>6. QED
        BY <4>1, <4>2, <4>4, <4>5 DEF Waits
    <3>3. QED
      BY <3>1, <3>2
  <2>6. TokenInv'
    <3>1. Token(c, x)' <=> Token(c, x)
      BY <1>1, <1>2, <1>3, <1>11, <1>15, TokenFacts, Zenon
    <3>2. QED
      BY <1>10, <1>12, <1>15, <3>1 DEF IInv, TokenInv
  <2>7. QED
    BY <1>6, <1>9, <2>5, <2>6 DEF IInv
<1>16. QED
  BY <1>4, <1>14, <1>15

(* Passing a mutex on to the head of its queue, or freeing it.             *)
LEMMA UnlockHandlerKeeps ==
  ASSUME IInv, TypeOK', NEW m \in Master, NEW c \in Worker, unlock_handler(m, c)
  PROVE  IInv'
<1> DEFINE n == Len(req[c][m])
<1>1. /\ TypeOK /\ StageInv /\ WorkerInv(c)
      /\ req[c][m] # << >> /\ Head(req[c][m]).op = "UNLOCK"
      /\ ProgressRecv(m, c) /\ UNCHANGED workerVars
  BY DEF unlock_handler, Pending, IInv
<1>2. /\ \A d \in Worker \ {c} : req'[d] = req[d]
      /\ \A k \in Master \ {m} : req'[c][k] = req[c][k]
      /\ n \in Nat \ {0} /\ Len(req'[c][m]) = n - 1
      /\ \A i \in 1 .. n - 1 : req'[c][m][i] = req[c][m][i + 1]
      /\ Head(req[c][m]) = req[c][m][1]
  BY <1>1, RecvFacts
<1> HIDE DEF n
<1>3. RequestsAt(c, m) /\ RepliesAt(c, m) /\ UnlocksAt(c, m)
  BY <1>1 DEF WorkerInv
<1>4. PICK x \in Mutex : /\ x = Target(Head(req[c][m])) /\ req[c][m][1] = UnlockHdr(x)
                         /\ m = MasterOf[x[1]] /\ x \notin held[c]
  <2> DEFINE h == Head(req[c][m])
  <2>1. h \in Header
    BY <1>1, RecvTyped DEF progress_server
  <2>2. Target(h) \in Mutex
    BY <1>1, <2>1, TargetTyped DEF IndexOp
  <2>3. h = Hdr("UNLOCK", h.rank, h.length)
    BY <1>1, <2>1 DEF Header, Hdr
  <2>4. m = MasterOf[h.rank] /\ Target(h) \notin held[c]
    BY <1>1, <1>2, <1>3 DEF UnlocksAt, n
  <2>5. Target(h)[1] = h.rank /\ Target(h)[2] = h.length
    BY DEF Target
  <2>6. QED
    BY <1>2, <2>2, <2>3, <2>4, <2>5 DEF UnlockHdr
<1>5. rep[c][m] = << >>
  BY <1>1, <1>3 DEF RepliesAt
<1>6. Token(c, x) /\ mutexes[x] = c
  <2>1. 1 \in 1 .. Len(req[c][m])
    BY <1>2 DEF n
  <2>2. Token(c, x)
    BY <1>4, <2>1, Zenon DEF Token
  <2>3. QED
    BY <2>2 DEF IInv, TokenInv
<1>7. \A i \in 1 .. n - 1 : i + 1 \in 1 .. n /\ req'[c][m][i] = req[c][m][i + 1]
  BY <1>2
<1>8. \A i \in 1 .. n : i = 1 \/ (i - 1 \in 1 .. n - 1 /\ req'[c][m][i - 1] = req[c][m][i])
  BY <1>2
<1>9. StageInv'
  BY <1>1 DEF StageInv, workerVars
<1>10. \/ /\ lq_heads[x] # << >>
          /\ lq_heads' = [lq_heads EXCEPT ![x] = Tail(@)]
          /\ mutexes' = [mutexes EXCEPT ![x] = Head(lq_heads[x])]
          /\ server_send(m, Head(lq_heads[x]), Grant(x[2]))
       \/ /\ lq_heads[x] = << >>
          /\ mutexes' = [mutexes EXCEPT ![x] = UNLOCKED]
          /\ UNCHANGED <<lq_heads, rep>>
  BY <1>4, Zenon DEF unlock_handler
<1>11. \A y \in Mutex : Waits(c, y) => MasterOf[y[1]] # m
  BY <1>1 DEF Waits
(* What the worker that unlocked keeps, as long as no reply goes to it.    *)
<1>12. ASSUME rep'[c] = rep[c]
       PROVE  /\ WorkerInv(c)'
              /\ ~Token(c, x)'
              /\ \A y \in Mutex \ {x} : Token(c, y)' <=> Token(c, y)
              /\ \A y \in Mutex : Waits(c, y) => Waits(c, y)'
  <2>1. RequestsAt(c, m)'
    <3> SUFFICES ASSUME NEW i \in 1 .. n - 1
                 PROVE  \/ req'[c][m][i].op = "UNLOCK"
                        \/ /\ i = n - 1 /\ Awaits(c, m, req[c][m][i])'
                           /\ rep'[c][m] = << >>
      BY <1>2 DEF RequestsAt
    <3>1. PICK h : h = req[c][m][i + 1] /\ h = req'[c][m][i]
      BY <1>7
    <3>2. h.op = "UNLOCK" \/ (i + 1 = n /\ Awaits(c, m, h))
      BY <1>3, <1>7, <3>1 DEF RequestsAt, n
    <3>3. Awaits(c, m, h) => Awaits(c, m, h)'
      BY <1>1 DEF Awaits, workerVars
    <3>4. i + 1 = n => i = n - 1
      BY <1>2
    <3>5. QED
      BY <1>5, <1>12, <3>1, <3>2, <3>3, <3>4 DEF Awaits
  <2>2. RepliesAt(c, m)'
    BY <1>5, <1>12 DEF RepliesAt
  <2>3. UnlocksAt(c, m)'
    <3> SUFFICES ASSUME NEW i \in 1 .. n - 1, req'[c][m][i].op = "UNLOCK"
                 PROVE  /\ m = MasterOf[req'[c][m][i].rank]
                        /\ m \in fence_array'[c]
                        /\ Target(req'[c][m][i]) \notin held'[c]
                        /\ \A j \in 1 .. n - 1 : req'[c][m][j] = req'[c][m][i] => i = j
      BY <1>2 DEF UnlocksAt, Target
    <3>1. i + 1 \in 1 .. n /\ req'[c][m][i] = req[c][m][i + 1]
      BY <1>7
    <3>2. \A j \in 1 .. n : req[c][m][j] = req[c][m][i + 1] => i + 1 = j
      BY <1>3, <3>1 DEF UnlocksAt, n
    <3>3. \A j \in 1 .. n - 1 : req'[c][m][j] = req'[c][m][i] => i = j
      BY <1>7, <3>1, <3>2
    <3>4. QED
      BY <1>1, <1>3, <3>1, <3>3 DEF UnlocksAt, n, workerVars, Target
  <2>4. ASSUME NEW k \in Master \ {m}
        PROVE  RequestsAt(c, k)' /\ RepliesAt(c, k)' /\ UnlocksAt(c, k)'
    <3>1. RequestsAt(c, k) /\ RepliesAt(c, k) /\ UnlocksAt(c, k)
      BY <1>1 DEF WorkerInv
    <3>2. QED
      BY <1>1, <1>2, <1>12, <3>1, ChannelFacts
  <2>5. QuietAt(c)'
    BY <1>1, ChannelFacts DEF WorkerInv
  <2>6. WorkerInv(c)'
    BY <2>1, <2>2, <2>3, <2>4, <2>5 DEF WorkerInv
  <2>7. ~Token(c, x)'
    <3>1. UnlockHdr(x).op = "UNLOCK"
      BY DEF UnlockHdr, Hdr
    <3>2. \A i \in 1 .. n : req[c][m][i] = UnlockHdr(x) => i = 1
      <4>0. req[c][m][1].op = "UNLOCK"
        BY <1>4, <3>1, Zenon
      <4>1. 1 \in 1 .. n
        BY <1>2
      <4>2. \A j \in 1 .. n : req[c][m][j] = req[c][m][1] => 1 = j
        BY <1>3, <4>0, <4>1 DEF UnlocksAt, n
      <4>3. req[c][m][1] = UnlockHdr(x)
        BY <1>4, Zenon
      <4>4. QED
        BY <4>2, <4>3
    <3>3. \A i \in 1 .. n - 1 : req'[c][m][i] # UnlockHdr(x)
      BY <1>2, <1>7, <3>2
    <3>4. m = MasterOf[x[1]] /\ x \notin held[c] /\ Len(req'[c][m]) = n - 1
      BY <1>2, <1>4, Zenon
    <3>5. held' = held /\ rep'[c][m] = << >>
      BY <1>1, <1>5, <1>12 DEF workerVars
    <3>6. QED
      BY <3>3, <3>4, <3>5 DEF Token
  <2>8. ASSUME NEW y \in Mutex \ {x} PROVE Token(c, y)' <=> Token(c, y)
    <3>1. MasterOf[y[1]] \in Master
      BY MutexTyped
    <3>2. CASE MasterOf[y[1]] # m
      BY <1>1, <1>2, <1>12, <3>1, <3>2, TokenFacts
    <3>3. CASE MasterOf[y[1]] = m
      <4>1. UnlockHdr(y) # UnlockHdr(x)
        <5>1. UnlockHdr(x).rank = x[1] /\ UnlockHdr(x).length = x[2]
          BY DEF UnlockHdr, Hdr
        <5>2. UnlockHdr(y).rank = y[1] /\ UnlockHdr(y).length = y[2]
          BY DEF UnlockHdr, Hdr
        <5>3. QED
          BY <5>1, <5>2, MutexTyped
      <4>2. (\E i \in 1 .. n - 1 : req'[c][m][i] = UnlockHdr(y))
            <=> (\E i \in 1 .. n : req[c][m][i] = UnlockHdr(y))
        <5>1. req[c][m][1] # UnlockHdr(y)
          BY <1>4, <4>1, Zenon
        <5>2. ASSUME NEW i \in 1 .. n - 1, req'[c][m][i] = UnlockHdr(y)
              PROVE  \E j \in 1 .. n : req[c][m][j] = UnlockHdr(y)
          BY <1>7, <5>2
        <5>3. ASSUME NEW i \in 1 .. n, req[c][m][i] = UnlockHdr(y)
              PROVE  \E j \in 1 .. n - 1 : req'[c][m][j] = UnlockHdr(y)
          BY <1>8, <5>1, <5>3
        <5>4. QED
          BY <5>2, <5>3
      <4>3. QED
        BY <1>1, <1>2, <1>12, <3>3, <4>2 DEF Token, workerVars, n
    <3>4. QED
      BY <3>2, <3>3
  <2>9. ASSUME NEW y \in Mutex, Waits(c, y) PROVE Waits(c, y)'
    <3>1. MasterOf[y[1]] \in Master \ {m}
      BY <1>11, <2>9, MutexTyped
    <3>2. QED
      BY <1>1, <1>2, <1>12, <2>9, <3>1 DEF Waits, workerVars
  <2>10. QED
    BY <2>6, <2>7, <2>8, <2>9
<1>13. CASE /\ lq_heads[x] = << >>
            /\ mutexes' = [mutexes EXCEPT ![x] = UNLOCKED]
            /\ UNCHANGED <<lq_heads, rep>>
  <2>1. \A d \in Worker \ {c} : SameAt(d)
    BY <1>1, <1>2, <1>13 DEF SameAt, workerVars
  <2>2. \A d \in Worker : WorkerInv(d)'
    BY <1>12, <1>13, <2>1, SameFacts DEF IInv
  <2>3. \A d \in Worker, y \in Mutex : Waits(d, y) => Waits(d, y)'
    BY <1>12, <1>13, <2>1, SameFacts
  <2>4. QueueInv'
    <3>1. lq_heads' = lq_heads
      BY <1>13
    <3>2. \A y \in Mutex : \A i \in 1 .. Len(lq_heads[y]) : lq_heads[y][i] \in Worker
      BY <1>1, QueuedTyped
    <3>3. QED
      BY <2>3, <3>1, <3>2 DEF IInv, QueueInv, Waits
  <2>5. mutexes'[x] = UNLOCKED /\ \A y \in Mutex \ {x} : mutexes'[y] = mutexes[y]
    BY <1>1, <1>13 DEF TypeOK
  <2>6. \A d \in Worker : UNLOCKED # d
    BY MutexAssumption DEF UNLOCKED, MutexAssumption
  <2>7. TokenInv'
    <3> SUFFICES ASSUME NEW d \in Worker, NEW y \in Mutex
                 PROVE  Token(d, y)' <=> mutexes'[y] = d
      BY DEF TokenInv
    <3>1. Token(d, y) <=> mutexes[y] = d
      BY DEF IInv, TokenInv
    <3>2. d # c => (Token(d, y)' <=> Token(d, y))
      BY <2>1, SameFacts
    <3>3. QED
      BY <1>6, <1>12, <1>13, <2>5, <2>6, <3>1, <3>2
  <2>8. QED
    BY <1>9, <2>2, <2>4, <2>7 DEF IInv
<1>14. CASE /\ lq_heads[x] # << >>
            /\ lq_heads' = [lq_heads EXCEPT ![x] = Tail(@)]
            /\ mutexes' = [mutexes EXCEPT ![x] = Head(lq_heads[x])]
            /\ server_send(m, Head(lq_heads[x]), Grant(x[2]))
  <2> DEFINE q == lq_heads[x]
             l == Len(q)
  <2>1. /\ l \in Nat \ {0} /\ Head(q) = q[1] /\ 1 \in 1 .. l
        /\ Len(lq_heads'[x]) = l - 1
        /\ \A i \in 1 .. l - 1 : i + 1 \in 1 .. l /\ lq_heads'[x][i] = q[i + 1]
        /\ \A y \in Mutex \ {x} : lq_heads'[y] = lq_heads[y]
    <3>1. q \in Seq(Worker) /\ lq_heads'[x] = Tail(q)
      BY <1>1, <1>14 DEF TypeOK
    <3>2. \A y \in Mutex \ {x} : lq_heads'[y] = lq_heads[y]
      BY <1>1, <1>14 DEF TypeOK
    <3>3. l \in Nat \ {0} /\ Head(q) = q[1] /\ Len(Tail(q)) = l - 1
          /\ \A i \in 1 .. l - 1 : Tail(q)[i] = q[i + 1]
      BY <1>14, <3>1, EmptySeq
    <3>4. QED
      BY <3>1, <3>2, <3>3
  <2> HIDE DEF q, l
  <2>2. PICK d \in Worker : d = q[1]
    BY <1>1, <2>1, QueuedTyped DEF q, l
  <2>3. Waits(d, x) /\ \A j \in 1 .. l : q[j] = d => j = 1
    BY <2>1, <2>2 DEF IInv, QueueInv, q, l
  <2>4. d # c
    BY <1>4, <1>11, <2>3, Zenon
  <2>5. /\ \A e \in Worker \ {d} : rep'[e] = rep[e]
        /\ \A k \in Master \ {m} : rep'[d][k] = rep[d][k]
        /\ Len(rep'[d][m]) = 1 /\ rep'[d][m][1] = Grant(x[2]) /\ rep'[d][m] # << >>
    <3>1. Grant(x[2]) \in Reply
      BY ReplyTyped, MutexTyped
    <3>2. rep[d][m] = << >> /\ server_send(m, d, Grant(x[2]))
      BY <1>4, <1>14, <2>1, <2>2, <2>3, Zenon DEF Waits, q
    <3>3. QED
      BY <1>1, <3>1, <3>2, ServeFacts
  <2>6. /\ WorkerInv(c)' /\ ~Token(c, x)'
        /\ \A y \in Mutex \ {x} : Token(c, y)' <=> Token(c, y)
        /\ \A y \in Mutex : Waits(c, y) => Waits(c, y)'
    BY <1>12, <2>4, <2>5
  <2>7. \A e \in Worker \ {c, d} : SameAt(e)
    BY <1>1, <1>2, <2>5 DEF SameAt, workerVars
  <2>8. req'[d] = req[d] /\ req'[d][m] = << >> /\ pc[d] = "lock" /\ cur[d] = x
    BY <1>2, <1>4, <2>3, <2>4, Zenon DEF Waits
  <2>9. WorkerInv(d)'
    <3>0. WorkerInv(d)
      BY DEF IInv
    <3>1. RequestsAt(d, m)' /\ UnlocksAt(d, m)' /\ QuietAt(d)'
      BY <1>1, <2>8, <3>0, ChannelFacts DEF WorkerInv
    <3>2. RepliesAt(d, m)'
      BY <1>1, <1>4, <2>5, <2>8, Zenon DEF RepliesAt, workerVars
    <3>3. ASSUME NEW k \in Master \ {m}
          PROVE  RequestsAt(d, k)' /\ RepliesAt(d, k)' /\ UnlocksAt(d, k)'
      <4>1. RequestsAt(d, k) /\ RepliesAt(d, k) /\ UnlocksAt(d, k)
        BY <3>0 DEF WorkerInv
      <4>2. QED
        BY <1>1, <2>5, <2>8, <4>1, ChannelFacts
    <3>4. QED
      BY <3>1, <3>2, <3>3 DEF WorkerInv
  <2>10. \A e \in Worker : WorkerInv(e)'
    BY <2>6, <2>7, <2>9, SameFacts DEF IInv
  <2>11. Token(d, x)'
    BY <1>1, <1>4, <2>5, <2>8, Zenon DEF Token, workerVars
  <2>12. ASSUME NEW y \in Mutex \ {x} PROVE Token(d, y)' <=> Token(d, y)
    BY <1>1, <2>8 DEF Token, workerVars
  <2>13. mutexes'[x] = d /\ \A y \in Mutex \ {x} : mutexes'[y] = mutexes[y]
    BY <1>1, <1>14, <2>1, <2>2 DEF TypeOK, q
  <2>14. TokenInv'
    <3> SUFFICES ASSUME NEW e \in Worker, NEW y \in Mutex
                 PROVE  Token(e, y)' <=> mutexes'[y] = e
      BY DEF TokenInv
    <3>1. Token(e, y) <=> mutexes[y] = e
      BY DEF IInv, TokenInv
    <3>2. e \notin {c, d} => (Token(e, y)' <=> Token(e, y))
      BY <2>7, SameFacts
    <3>3. QED
      BY <1>6, <2>4, <2>6, <2>11, <2>12, <2>13, <3>1, <3>2
  <2>15. \A e \in Worker \ {d}, y \in Mutex : Waits(e, y) => Waits(e, y)'
    BY <2>6, <2>7, SameFacts
  <2>16. \A y \in Mutex \ {x} : ~Waits(d, y)
    BY <2>8 DEF Waits
  <2>17. QueueInv'
    <3> SUFFICES ASSUME NEW y \in Mutex, NEW i \in 1 .. Len(lq_heads'[y])
                 PROVE  /\ Waits(lq_heads[y][i], y)'
                        /\ \A j \in 1 .. Len(lq_heads'[y]) :
                             lq_heads'[y][j] = lq_heads'[y][i] => i = j
      BY DEF QueueInv
    <3>1. CASE y = x
      <4>1. i \in 1 .. l - 1 /\ i + 1 \in 1 .. l /\ lq_heads'[x][i] = q[i + 1]
        BY <2>1, <3>1
      <4>2. q[i + 1] \in Worker /\ Waits(q[i + 1], x)
        BY <1>1, <4>1, QueuedTyped DEF IInv, QueueInv, q, l
      <4>3. PICK e \in Worker \ {d} : e = q[i + 1]
        BY <2>3, <4>1, <4>2
      <4>4. Waits(e, x)' /\ lq_heads'[x][i] = e
        BY <2>15, <4>1, <4>2, <4>3
      <4>5. \A j \in 1 .. l : q[j] = q[i + 1] => i + 1 = j
        BY <4>1 DEF IInv, QueueInv, q, l
      <4>6. \A j \in 1 .. l - 1 : lq_heads'[x][j] = lq_heads'[x][i] => i = j
        BY <2>1, <4>1, <4>5
      <4>7. QED
        BY <2>1, <3>1, <4>4, <4>6 DEF Waits
    <3>2. CASE y # x
      <4>1. lq_heads'[y] = lq_heads[y] /\ i \in 1 .. Len(lq_heads[y])
        BY <2>1, <3>2
      <4>2. PICK e \in Worker : e = lq_heads[y][i]
        BY <1>1, <4>1, QueuedTyped
      <4>3. Waits(e, y)
        BY <4>1, <4>2 DEF IInv, QueueInv
      <4>4. Waits(e, y)'
        BY <2>15, <2>16, <3>2, <4>3
      <4>5. \A j \in 1 .. Len(lq_heads[y]) : lq_heads[y][j] = lq_heads[y][i] => i = j
        BY <4>1 DEF IInv, QueueInv
      <4>6. QED
        BY <4>1, <4>2, <4>4, <4>5 DEF Waits
    <3>3. QED
      BY <3>1, <3>2
  <2>18. QED
    BY <1>9, <2>10, <2>14, <2>17 DEF IInv
<1>15. QED
  BY <1>10, <1>13, <1>14

(* Every message a server handles.                                         *)
LEMMA ServerKeeps ==
  ASSUME IInv, TypeOK', NEW m \in Master, NEW c \in Worker, progress_server(m, c)
  PROVE  IInv'
<1>1. CASE fence_handler(m, c)
  BY <1>1, AckKeeps DEF fence_handler, Pending, CountOp, serverVars
<1>2. CASE mutex_destroy_handler(m, c)
  BY <1>2, AckKeeps DEF mutex_destroy_handler, Pending, CountOp
<1>3. QED
  BY <1>1, <1>2, CreateHandlerKeeps, LockHandlerKeeps, UnlockHandlerKeeps
     DEF progress_server

(* IInv holds in every state the runtime reaches.                          *)
THEOREM Invariance == Spec => []IInv
<1>1. Init => IInv
  <2> SUFFICES ASSUME Init PROVE IInv
    OBVIOUS
  <2>1. TypeOK
    BY MutexAssumption DEF Init, TypeOK, Point, DestroyPoint, MutexAssumption, UNLOCKED
  <2>2. StageInv
    BY DEF Init, StageInv, DestroyPoint
  <2>3. ASSUME NEW c \in Worker PROVE WorkerInv(c)
    BY DEF Init, WorkerInv, QuietAt, RequestsAt, RepliesAt, UnlocksAt
  <2>4. QueueInv
    BY DEF Init, QueueInv
  <2>5. TokenInv
    <3> SUFFICES ASSUME NEW c \in Worker, NEW x \in Mutex
                 PROVE  ~Token(c, x) /\ mutexes[x] # c
      BY DEF TokenInv
    <3>1. MasterOf[x[1]] \in Master
      BY MutexTyped
    <3>2. QED
      BY <3>1, MutexAssumption DEF Init, Token, UNLOCKED, MutexAssumption
  <2>6. QED
    BY <2>1, <2>2, <2>3, <2>4, <2>5 DEF IInv
<1>2. IInv /\ TypeOK' /\ [Next]_vars => IInv'
  <2> SUFFICES ASSUME IInv, TypeOK', [Next]_vars PROVE IInv'
    OBVIOUS
  <2>1. CASE UNCHANGED vars
    <3>1. \A c \in Worker : SameAt(c)
      BY <2>1 DEF vars, SameAt
    <3>2. \A c \in Worker : WorkerInv(c)'
      BY <3>1, SameFacts DEF IInv
    <3>3. StageInv'
      BY <2>1 DEF vars, IInv, StageInv
    <3>4. QueueInv'
      BY <2>1 DEF vars, IInv, QueueInv, Waits
    <3>5. TokenInv'
      BY <2>1, <3>1, SameFacts DEF vars, IInv, TokenInv
    <3>6. QED
      BY <3>2, <3>3, <3>4, <3>5 DEF IInv
  <2>2. QED
    BY <2>1, WorkerKeeps, CollectiveKeeps, ServerKeeps DEF Next
<1>3. QED
  BY <1>1, <1>2, TypeCorrect, PTL DEF Spec

(* comex_lock never returns to two processes for the same mutex: the right *)
(* to a mutex is unique because the server's word on its holder is.        *)
THEOREM MutexSafety == Spec => []MutualExclusion
<1>1. IInv => MutualExclusion
  <2> SUFFICES ASSUME IInv, NEW c \in Worker, NEW d \in Worker, c # d,
                      NEW x \in held[c], x \in held[d]
               PROVE  FALSE
    BY DEF MutualExclusion
  <2>1. x \in Mutex
    BY DEF IInv, TypeOK
  <2>2. Token(c, x) /\ Token(d, x)
    BY DEF Token
  <2>3. QED
    BY <2>1, <2>2 DEF IInv, TokenInv
<1>2. QED
  BY <1>1, Invariance, PTL

(* The barrier of comex_destroy_mutexes does what its comment promises:    *)
(* when DESTROY_MUTEXES is sent and handled every mutex is free, every     *)
(* queue empty, and no lock or unlock is on its way.                       *)
THEOREM DestroySafety == Spec => []DestroyFindsUnlocked
<1>1. IInv => DestroyFindsUnlocked
  <2> SUFFICES ASSUME IInv, NEW c \in Worker, pc[c] \in {"destroy_send", "destroy_ack"}
               PROVE  /\ \A x \in Mutex : mutexes[x] = UNLOCKED /\ lq_heads[x] = << >>
                      /\ \A d \in Worker, m \in Master : \A h \in InFlight(d, m) :
                           h.op \notin {"LOCK", "UNLOCK"}
    BY DEF DestroyFindsUnlocked
  <2>1. \A d \in Worker : pc[d] \notin UsePoint
    BY DEF IInv, StageInv, UsePoint, CreatePoint, DestroyPoint
  <2>2. ASSUME NEW d \in Worker, NEW m \in Master, NEW i \in DOMAIN req[d][m]
        PROVE  req[d][m][i].op \notin {"LOCK", "UNLOCK"}
    <3>1. WorkerInv(d) /\ pc[d] \notin {"ready", "lock", "fence", "destroy_fence"}
      BY <2>1 DEF IInv, UsePoint
    <3>2. i \in 1 .. Len(req[d][m])
      BY DEF IInv, TypeOK
    <3>3. fence_array[d] = {}
      BY <3>1 DEF WorkerInv, QuietAt
    <3>4. QED
      BY <3>1, <3>2, <3>3 DEF WorkerInv, RequestsAt, UnlocksAt, Awaits
  <2>3. QED
    BY <2>1, <2>2, QuietFacts DEF InFlight
<1>2. QED
  BY <1>1, Invariance, PTL

(* All replies carry one tag, yet the reply a call receives is the one it  *)
(* waits for: in particular the index asserted by comex_lock is its own.   *)
THEOREM ReplySafety == Spec => []RepliesMatchReceives
<1>1. IInv => RepliesMatchReceives
  <2> SUFFICES ASSUME IInv, NEW c \in Worker, NEW m \in Master, Replied(c, m)
               PROVE  /\ Len(rep[c][m]) = 1
                      /\ \/ /\ pc[c] = "lock" /\ m = MasterOf[cur[c][1]]
                            /\ Head(rep[c][m]) = Grant(cur[c][2])
                         \/ /\ pc[c] \in {"create_ack", "destroy_ack"} /\ m = MasterOf[c]
                            /\ Head(rep[c][m]) = Ack
                         \/ /\ m \in fencing[c] /\ Head(rep[c][m]) = Ack
    BY DEF RepliesMatchReceives
  <2>1. RepliesAt(c, m) /\ rep[c][m] \in Seq(Reply)
    BY DEF IInv, WorkerInv, TypeOK
  <2>2. Head(rep[c][m]) = rep[c][m][1]
    BY <2>1 DEF Replied
  <2>3. QED
    BY <2>1, <2>2 DEF RepliesAt, Replied
<1>2. QED
  BY <1>1, Invariance, PTL
-----------------------------------------------------------------------------
(* The indices on their way to the servers name what the servers have.     *)

(* A worker above none but workers has its world rank in group_list too.   *)
LEMMA GroupRankExact ==
  ASSUME NEW c \in Worker, \A r \in 0 .. (c - 1) : r \in Worker
  PROVE  GroupRank(c) = c
<1>1. c \in Nat /\ \A d \in Worker : d \in Nat
  BY MutexAssumption DEF MutexAssumption
<1>2. {d \in Worker : d < c} = 0 .. (c - 1)
  <2>1. ASSUME NEW d \in Worker, d < c PROVE d \in 0 .. (c - 1)
    BY <1>1, <2>1
  <2>2. ASSUME NEW d \in 0 .. (c - 1) PROVE d < c
    BY <1>1
  <2>3. QED
    BY <2>1, <2>2
<1>3. Cardinality(0 .. (c - 1)) = c
  BY <1>1, FS_Interval
<1>4. QED
  BY <1>2, <1>3 DEF GroupRank

(* Whatever lies above it has a larger rank there.                         *)
LEMMA GroupRankAbove ==
  ASSUME NEW c \in Worker, NEW d \in Worker, c < d, GroupRank(c) = c
  PROVE  GroupRank(d) > c
<1> DEFINE B(n) == {e \in Worker : e < n}
<1>1. c \in Nat /\ d \in Nat /\ \A e \in Worker : e \in Nat
  BY MutexAssumption DEF MutexAssumption
<1>2. IsFiniteSet(B(d)) /\ IsFiniteSet(B(c))
  BY FS_Subset, MutexAssumption DEF MutexAssumption
<1>3. B(c) \subseteq B(d) /\ c \in B(d) /\ c \notin B(c)
  <2>1. \A e \in Worker : e < c => e < d
    BY <1>1
  <2>2. ~(c < c)
    BY <1>1
  <2>3. QED
    BY <2>1, <2>2
<1>4. Cardinality(B(c)) < Cardinality(B(d))
  <2>1. B(c) # B(d)
    BY <1>3
  <2>2. Cardinality(B(c)) <= Cardinality(B(d)) /\ Cardinality(B(c)) # Cardinality(B(d))
    BY <1>2, <1>3, <2>1, FS_Subset
  <2>3. Cardinality(B(c)) \in Nat /\ Cardinality(B(d)) \in Nat
    BY <1>2, FS_CardinalityType
  <2>4. QED
    BY <2>2, <2>3
<1>5. QED
  BY <1>4 DEF GroupRank

(* So the count that comex_destroy_mutexes sends is the sender's own.      *)
LEMMA DestroyLengthExact ==
  ASSUME NotifiersFirst, NEW c \in Worker, IsNotifier(c)
  PROVE  \A n \in DestroyLength(c) : n = num_mutexes[c]
<1>1. GroupRank(c) = c
  BY GroupRankExact DEF NotifiersFirst
<1>2. ASSUME NEW d \in Worker, GroupRank(d) = c PROVE d = c
  <2>1. c \in Nat /\ d \in Nat
    BY MutexAssumption DEF MutexAssumption
  <2>2. CASE d < c
    <3>1. \A r \in 0 .. (d - 1) : r \in 0 .. (c - 1)
      BY <2>1, <2>2
    <3>2. \A r \in 0 .. (d - 1) : r \in Worker
      BY <3>1 DEF NotifiersFirst
    <3>3. GroupRank(d) = d
      BY <3>2, GroupRankExact
    <3>4. QED
      BY <1>2, <3>3
  <2>3. CASE c < d
    <3>1. GroupRank(d) > c
      BY <1>1, <2>3, GroupRankAbove
    <3>2. QED
      BY <1>2, <2>1, <3>1
  <2>4. QED
    BY <2>1, <2>2, <2>3
<1>3. QED
  BY <1>1, <1>2 DEF DestroyLength

(* Headers are sound by the counts the workers hold, which no step but the *)
(* MPI_Allgather changes.                                                  *)
LEMMA NextSound ==
  ASSUME NEW c \in Worker, num_mutexes' = num_mutexes,
         \A m \in Master : \A i \in 1 .. Len(req'[c][m]) :
           HeaderSound(c, req'[c][m][i])
  PROVE  HeadersSound(c)'
BY DEF HeadersSound, HeaderSound

(* A sound header on top of sound ones.                                    *)
LEMMA SentSound ==
  ASSUME TypeOK, NEW c \in Worker, NEW m \in Master, NEW h \in Header,
         nb_send_header(c, m, h), HeadersSound(c), HeaderSound(c, h),
         num_mutexes' = num_mutexes
  PROVE  HeadersSound(c)'
<1> DEFINE n == Len(req[c][m])
<1>1. /\ \A k \in Master \ {m} : req'[c][k] = req[c][k]
      /\ n \in Nat /\ Len(req'[c][m]) = n + 1
      /\ \A i \in 1 .. n : req'[c][m][i] = req[c][m][i]
      /\ req'[c][m][n + 1] = h
  BY SendFacts
<1>2. \A i \in 1 .. n : HeaderSound(c, req[c][m][i])
  BY DEF HeadersSound
<1> HIDE DEF n
<1>3. ASSUME NEW i \in 1 .. n + 1 PROVE HeaderSound(c, req'[c][m][i])
  <2>1. i \in 1 .. n \/ i = n + 1
    BY <1>1
  <2>2. QED
    BY <1>1, <1>2, <2>1
<1>4. ASSUME NEW k \in Master \ {m}, NEW i \in 1 .. Len(req'[c][k])
      PROVE  HeaderSound(c, req'[c][k][i])
  BY <1>1 DEF HeadersSound
<1>5. ASSUME NEW k \in Master, NEW i \in 1 .. Len(req'[c][k])
      PROVE  HeaderSound(c, req'[c][k][i])
  BY <1>1, <1>3, <1>4
<1>6. QED
  BY <1>5, NextSound

(* Fences name no count.                                                   *)
LEMMA FencedSound ==
  ASSUME TypeOK, NEW c \in Worker, NEW ms \in SUBSET Master, NEW w, NEW d,
         Fence(c, ms, w, d), HeadersSound(c), num_mutexes' = num_mutexes
  PROVE  HeadersSound(c)'
<1> SUFFICES ASSUME NEW k \in Master, NEW i \in 1 .. Len(req'[c][k])
             PROVE  HeaderSound(c, req'[c][k][i])
  BY NextSound
<1>0. \A j \in 1 .. Len(req[c][k]) : HeaderSound(c, req[c][k][j])
  BY DEF HeadersSound
<1>1. CASE k \in ms
  <2> DEFINE h == Hdr("FENCE", c, 0)
             n == Len(req[c][k])
  <2>1. req'[c][k] = Append(req[c][k], h) /\ req[c][k] \in Seq(Header)
    BY <1>1 DEF Fence, TypeOK
  <2>2. h.op = "FENCE"
    BY DEF Hdr
  <2> HIDE DEF h
  <2>3. /\ n \in Nat /\ Len(req'[c][k]) = n + 1
        /\ \A j \in 1 .. n : req'[c][k][j] = req[c][k][j]
        /\ req'[c][k][n + 1] = h
    BY <2>1
  <2> HIDE DEF n
  <2>4. i \in 1 .. n \/ i = n + 1
    BY <2>3
  <2>5. i \in 1 .. n => HeaderSound(c, req'[c][k][i])
    BY <1>0, <2>3 DEF n
  <2>6. HeaderSound(c, h)
    BY <2>2 DEF HeaderSound, IndexOp
  <2>7. QED
    BY <2>3, <2>4, <2>5, <2>6
<1>2. CASE k \notin ms
  <2>1. req'[c][k] = req[c][k]
    BY <1>2 DEF Fence, TypeOK
  <2>2. QED
    BY <1>0, <2>1
<1>3. QED
  BY <1>1, <1>2

(* What is left in a channel that a server has read was sound before.      *)
LEMMA ReceivedSound ==
  ASSUME TypeOK, NEW c \in Worker, NEW m \in Master, req[c][m] # << >>,
         ProgressRecv(m, c), UNCHANGED workerVars
  PROVE  \A d \in Worker : HeadersSound(d) => HeadersSound(d)'
<1>1. /\ \A d \in Worker \ {c} : req'[d] = req[d]
      /\ \A k \in Master \ {m} : req'[c][k] = req[c][k]
      /\ Len(req[c][m]) \in Nat \ {0} /\ Len(req'[c][m]) = Len(req[c][m]) - 1
      /\ \A i \in 1 .. Len(req'[c][m]) : req'[c][m][i] = req[c][m][i + 1]
  BY RecvFacts
<1>2. num_mutexes' = num_mutexes
  BY DEF workerVars
<1>3. ASSUME NEW d \in Worker \ {c}, HeadersSound(d) PROVE HeadersSound(d)'
  BY <1>1, <1>2, <1>3 DEF HeadersSound, HeaderSound
<1>4. ASSUME HeadersSound(c) PROVE HeadersSound(c)'
  <2> SUFFICES ASSUME NEW k \in Master, NEW i \in 1 .. Len(req'[c][k])
               PROVE  HeaderSound(c, req'[c][k][i])
    BY <1>2, NextSound
  <2>1. \A j \in 1 .. Len(req[c][k]) : HeaderSound(c, req[c][k][j])
    BY <1>4 DEF HeadersSound
  <2>2. CASE k = m
    <3>1. i + 1 \in 1 .. Len(req[c][m]) /\ req'[c][m][i] = req[c][m][i + 1]
      BY <1>1, <2>2
    <3>2. QED
      BY <2>1, <2>2, <3>1
  <2>3. CASE k # m
    BY <1>1, <2>1, <2>3
  <2>4. QED
    BY <2>2, <2>3
<1>5. QED
  BY <1>3, <1>4

(* A worker's part of AllocatedInv, and that a step keeps it.              *)
AllocatedAt(c) ==
  CountsAt(c) /\ HeadersSound(c) /\ (Created(c) => allocated[c] = num_mutexes[c])

(* It is about the worker's own state, the counts and its own array.       *)
LEMMA SameAllocated ==
  ASSUME NEW d \in Worker, AllocatedAt(d), SameAt(d), num'[d] = num[d],
         num_mutexes' = num_mutexes, allocated'[d] = allocated[d]
  PROVE  AllocatedAt(d)'
<1>1. CountsAt(d)'
  BY DEF AllocatedAt, CountsAt, SameAt, IsNotifier
<1>2. HeadersSound(d)'
  BY DEF AllocatedAt, HeadersSound, HeaderSound, SameAt
<1>3. Created(d)' => Created(d)
  BY DEF Created, SameAt
<1>4. QED
  BY <1>1, <1>2, <1>3 DEF AllocatedAt

(* A worker's own step, seen from its own part of the invariant.           *)
LEMMA OwnStepAllocated ==
  ASSUME IInv, AllocatedInv, NEW c \in Worker, \A d \in Worker \ {c} : SameAt(d),
         \A d \in Worker \ {c} : num'[d] = num[d], num_mutexes' = num_mutexes,
         UNCHANGED serverVars, CountsAt(c)', HeadersSound(c)',
         Created(c)' => Created(c)
  PROVE  AllocatedInv'
<1>1. allocated' = allocated
  BY DEF serverVars
<1>2. ASSUME NEW d \in Worker \ {c} PROVE AllocatedAt(d)'
  BY <1>1, <1>2, SameAllocated DEF AllocatedInv, AllocatedAt
<1>3. AllocatedAt(c)'
  BY <1>1 DEF AllocatedInv, AllocatedAt
<1>4. QED
  BY <1>2, <1>3 DEF AllocatedInv, AllocatedAt

(* Every step of a worker.                                                 *)
LEMMA WorkerAllocated ==
  ASSUME NotifiersFirst, IInv, AllocatedInv, NEW c \in Worker,
         UserCall(c) \/ Unlock(c) \/ Continue(c)
  PROVE  AllocatedInv'
<1>0. /\ WorkerInv(c) /\ TypeOK /\ MasterOf[c] \in Master
      /\ CountsAt(c) /\ HeadersSound(c) /\ (Created(c) => allocated[c] = num_mutexes[c])
  BY MutexAssumption DEF IInv, MutexAssumption, AllocatedInv
<1>1. ASSUME NEW n \in Counts[c], comex_create_mutexes(c, n) PROVE AllocatedInv'
  <2>1. /\ pc[c] = "none" /\ pc'[c] = "allgather"
        /\ \A d \in Worker \ {c} : pc'[d] = pc[d] /\ num'[d] = num[d]
        /\ num_mutexes' = num_mutexes /\ cur' = cur /\ held' = held
        /\ fence_array' = fence_array
        /\ fencing' = fencing /\ req' = req /\ rep' = rep /\ UNCHANGED serverVars
    BY <1>0, <1>1 DEF comex_create_mutexes, Goto, TypeOK
  <2>2. \A d \in Worker \ {c} : SameAt(d)
    BY <2>1 DEF SameAt
  <2>3. CountsAt(c)'
    BY <1>0, <2>1 DEF CountsAt, CreatePoint
  <2>4. HeadersSound(c)'
    BY <1>0, <2>1, NextSound DEF HeadersSound
  <2>5. ~Created(c)'
    BY <2>1 DEF Created, UsePoint
  <2>6. QED
    BY <2>1, <2>2, <2>3, <2>4, <2>5, OwnStepAllocated
<1>2. ASSUME NEW x \in Mutex, comex_lock(c, x) PROVE AllocatedInv'
  <2> DEFINE h == Hdr("LOCK", x[1], x[2])
             m == MasterOf[x[1]]
  <2>1. /\ pc[c] = "ready" /\ pc'[c] = "lock" /\ x[2] < num_mutexes[x[1]]
        /\ \A d \in Worker \ {c} : pc'[d] = pc[d] /\ cur'[d] = cur[d]
        /\ cur'[c] = x /\ held' = held /\ fence_array' = fence_array
        /\ num' = num /\ num_mutexes' = num_mutexes
        /\ fencing' = fencing /\ rep' = rep /\ UNCHANGED serverVars
        /\ nb_send_header(c, m, h)
    BY <1>0, <1>2 DEF comex_lock, Goto, TypeOK
  <2>2. h \in Header /\ h.op = "LOCK" /\ h.rank = x[1] /\ h.length = x[2] /\ m \in Master
    <3>1. h \in Header /\ m \in Master
      BY HeaderTyped, MutexTyped DEF IndexOp
    <3>2. QED
      BY <3>1 DEF Hdr
  <2> HIDE DEF h, m
  <2>3. \A d \in Worker \ {c} : req'[d] = req[d]
    BY <1>0, <2>1, <2>2, SendFacts
  <2>4. HeaderSound(c, h)
    BY <2>1, <2>2 DEF HeaderSound
  <2>5. HeadersSound(c)'
    BY <1>0, <2>1, <2>2, <2>4, SentSound
  <2>6. CountsAt(c)'
    BY <1>0, <2>1 DEF CountsAt, CreatePoint
  <2>7. \A d \in Worker \ {c} : SameAt(d)
    BY <2>1, <2>3 DEF SameAt
  <2>8. Created(c)
    BY <2>1 DEF Created, UsePoint
  <2>9. QED
    BY <2>1, <2>5, <2>6, <2>7, <2>8, OwnStepAllocated
<1>fence. ASSUME NEW ms \in SUBSET Master, NEW w \in UsePoint, NEW d \in UsePoint,
                 w # "lock", d # "lock", pc[c] = "ready", Fence(c, ms, w, d),
                 UNCHANGED <<num, num_mutexes, cur, held, fence_array, rep, serverVars>>
          PROVE  AllocatedInv'
  <2>1. /\ \A e \in Worker \ {c} : pc'[e] = pc[e] /\ req'[e] = req[e]
                                   /\ fencing'[e] = fencing[e]
        /\ pc'[c] \in {w, d}
    BY <1>0, <1>fence DEF Fence, Goto, TypeOK
  <2>2. \A e \in Worker \ {c} : SameAt(e)
    BY <1>fence, <2>1 DEF SameAt
  <2>3. HeadersSound(c)'
    BY <1>0, <1>fence, FencedSound
  <2>4. CountsAt(c)'
    BY <1>0, <1>fence, <2>1 DEF CountsAt, CreatePoint, UsePoint
  <2>5. Created(c)
    BY <1>fence DEF Created, UsePoint
  <2>6. QED
    BY <1>fence, <2>2, <2>3, <2>4, <2>5, OwnStepAllocated
<1>3. CASE comex_fence_all(c)
  <2>1. fence_array[c] \in SUBSET Master
    BY <1>0 DEF TypeOK
  <2>2. QED
    BY <1>3, <1>fence, <2>1 DEF comex_fence_all, UsePoint
<1>4. ASSUME NEW m \in Master, comex_fence_proc(c, m) PROVE AllocatedInv'
  BY <1>4, <1>fence DEF comex_fence_proc, UsePoint
<1>5. CASE comex_destroy_mutexes(c)
  <2>1. fence_array[c] \in SUBSET Master
    BY <1>0 DEF TypeOK
  <2>2. QED
    BY <1>5, <1>fence, <2>1 DEF comex_destroy_mutexes, UsePoint
<1>6. ASSUME NEW x \in Mutex, comex_unlock(c, x) PROVE AllocatedInv'
  <2> DEFINE h == Hdr("UNLOCK", x[1], x[2])
             m == MasterOf[x[1]]
  <2>1. /\ pc[c] = "ready" /\ x \in held[c] /\ held'[c] \subseteq held[c]
        /\ \A d \in Worker \ {c} : held'[d] = held[d] /\ fence_array'[d] = fence_array[d]
        /\ pc' = pc /\ cur' = cur /\ num' = num /\ num_mutexes' = num_mutexes
        /\ fencing' = fencing /\ rep' = rep /\ UNCHANGED serverVars
        /\ nb_send_header(c, m, h)
    BY <1>0, <1>6 DEF comex_unlock, TypeOK
  <2>2. h \in Header /\ h.op = "UNLOCK" /\ h.rank = x[1] /\ h.length = x[2] /\ m \in Master
    <3>1. h \in Header /\ m \in Master
      BY HeaderTyped, MutexTyped DEF IndexOp
    <3>2. QED
      BY <3>1 DEF Hdr
  <2> HIDE DEF h, m
  <2>3. \A d \in Worker \ {c} : req'[d] = req[d]
    BY <1>0, <2>1, <2>2, SendFacts
  <2>4. HeaderSound(c, h)
    BY <1>0, <2>1, <2>2 DEF HeaderSound, CountsAt
  <2>5. HeadersSound(c)'
    BY <1>0, <2>1, <2>2, <2>4, SentSound
  <2>6. CountsAt(c)'
    BY <1>0, <2>1 DEF CountsAt, CreatePoint
  <2>7. \A d \in Worker \ {c} : SameAt(d)
    BY <2>1, <2>3 DEF SameAt
  <2>8. Created(c)
    BY <2>1 DEF Created, UsePoint
  <2>9. QED
    BY <2>1, <2>5, <2>6, <2>7, <2>8, OwnStepAllocated
<1>7. CASE CreateSend(c)
  <2> DEFINE h == Hdr("CREATE_MUTEXES", c, num[c])
  <2>1. /\ pc[c] = "create_send" /\ pc'[c] = "create_ack"
        /\ \A d \in Worker \ {c} : pc'[d] = pc[d]
        /\ nb_send_header(c, MasterOf[c], h)
        /\ UNCHANGED <<num, num_mutexes, cur, held, fence_array, fencing, rep, serverVars>>
    BY <1>0, <1>7 DEF CreateSend, Goto, TypeOK
  <2>2. h \in Header /\ h.op = "CREATE_MUTEXES" /\ h.length = num[c]
    <3>1. h \in Header
      BY <1>0, HeaderTyped DEF CountOp, TypeOK
    <3>2. QED
      BY <3>1 DEF Hdr
  <2>3. PICK g \in Header : g = h
    BY <2>2
  <2> HIDE DEF h
  <2>4. HeaderSound(c, g)
    BY <1>0, <2>1, <2>2, <2>3 DEF HeaderSound, CountsAt, CreatePoint, IndexOp
  <2>5. HeadersSound(c)' /\ \A d \in Worker \ {c} : req'[d] = req[d]
    BY <1>0, <2>1, <2>3, <2>4, SentSound, SendFacts
  <2>6. CountsAt(c)'
    BY <1>0, <2>1 DEF CountsAt, CreatePoint
  <2>7. \A d \in Worker \ {c} : SameAt(d)
    BY <2>1, <2>5 DEF SameAt
  <2>8. ~Created(c)'
    <3>1. rep[c][MasterOf[c]] = << >>
      BY <1>0, <2>1, IdleFacts DEF FencePoint
    <3>2. QED
      BY <2>1, <3>1 DEF Created, UsePoint
  <2>9. QED
    BY <2>1, <2>5, <2>6, <2>7, <2>8, OwnStepAllocated
<1>8. CASE CreateAcked(c)
  <2>1. /\ pc[c] = "create_ack" /\ Replied(c, MasterOf[c])
        /\ TakeReply(c, MasterOf[c])
        /\ Fence(c, fence_array[c], "create_fence", "create_barrier")
        /\ UNCHANGED <<num, num_mutexes, cur, held, fence_array, serverVars>>
    BY <1>8 DEF CreateAcked
  <2>2. /\ \A d \in Worker \ {c} : pc'[d] = pc[d] /\ fencing'[d] = fencing[d]
                                  /\ req'[d] = req[d]
        /\ pc'[c] \in {"create_fence", "create_barrier"}
    BY <1>0, <2>1 DEF Fence, Goto, TypeOK
  <2>3. \A d \in Worker \ {c} : rep'[d] = rep[d]
    BY <1>0, <2>1, TakeFacts
  <2>4. HeadersSound(c)'
    <3>1. fence_array[c] \in SUBSET Master
      BY <1>0 DEF TypeOK
    <3>2. QED
      BY <1>0, <2>1, <3>1, FencedSound
  <2>5. CountsAt(c)'
    BY <1>0, <2>1, <2>2 DEF CountsAt, CreatePoint
  <2>6. \A d \in Worker \ {c} : SameAt(d)
    BY <2>1, <2>2, <2>3 DEF SameAt
  <2>7. Created(c)
    BY <2>1 DEF Created, Replied
  <2>8. QED
    BY <2>1, <2>4, <2>5, <2>6, <2>7, OwnStepAllocated
<1>9. CASE FenceDone(c)
  <2>1. /\ pc[c] \in FencePoint /\ pc'[c] = After[pc[c]]
        /\ UNCHANGED <<num, num_mutexes, cur, held, req, serverVars>>
        /\ \A d \in Worker \ {c} :
             /\ pc'[d] = pc[d] /\ rep'[d] = rep[d]
             /\ fence_array'[d] = fence_array[d] /\ fencing'[d] = fencing[d]
    BY <1>0, <1>9 DEF FenceDone, Goto, TypeOK
  <2>2. \A d \in Worker \ {c} : SameAt(d)
    BY <2>1 DEF SameAt
  <2>3. CountsAt(c)'
    BY <1>0, <2>1 DEF CountsAt, CreatePoint, FencePoint, After
  <2>4. HeadersSound(c)'
    BY <1>0, <2>1, NextSound DEF HeadersSound
  <2>5. Created(c)
    BY <2>1 DEF Created, UsePoint, FencePoint
  <2>6. QED
    BY <2>1, <2>2, <2>3, <2>4, <2>5, OwnStepAllocated
<1>10. CASE LockGranted(c)
  <2>1. /\ pc[c] = "lock" /\ pc'[c] = "ready" /\ held'[c] = held[c] \cup {cur[c]}
        /\ UNCHANGED <<num, num_mutexes, fence_array, fencing, req, serverVars>>
        /\ \A d \in Worker \ {c} :
             pc'[d] = pc[d] /\ cur'[d] = cur[d] /\ held'[d] = held[d] /\ rep'[d] = rep[d]
    <3>1. \A d \in Worker \ {c} : rep'[d] = rep[d]
      BY <1>0, <1>10 DEF LockGranted, TakeReply, TypeOK
    <3>2. QED
      BY <1>0, <1>10, <3>1 DEF LockGranted, Goto, TypeOK
  <2>2. \A d \in Worker \ {c} : SameAt(d)
    BY <2>1 DEF SameAt
  <2>3. CountsAt(c)'
    BY <1>0, <2>1 DEF CountsAt, CreatePoint
  <2>4. HeadersSound(c)'
    BY <1>0, <2>1, NextSound DEF HeadersSound
  <2>5. Created(c)
    BY <2>1 DEF Created, UsePoint
  <2>6. QED
    BY <2>1, <2>2, <2>3, <2>4, <2>5, OwnStepAllocated
<1>11. CASE DestroySend(c)
  <2>1. /\ pc[c] = "destroy_send" /\ pc'[c] = "destroy_ack"
        /\ \A d \in Worker \ {c} : pc'[d] = pc[d]
        /\ UNCHANGED <<num, num_mutexes, cur, held, fence_array, fencing, rep, serverVars>>
    BY <1>0, <1>11 DEF DestroySend, Goto, TypeOK
  <2>2. PICK n \in DestroyLength(c) :
          nb_send_header(c, MasterOf[c], Hdr("DESTROY_MUTEXES", c, n))
    BY <1>11 DEF DestroySend
  <2>3. n = num_mutexes[c] /\ n \in 0 .. MaxMutexes
    BY <1>0, <2>1, <2>2, DestroyLengthExact DEF CountsAt, TypeOK
  <2>4. PICK g \in Header : g = Hdr("DESTROY_MUTEXES", c, n)
    BY <2>3, HeaderTyped DEF CountOp
  <2>5. g.op = "DESTROY_MUTEXES" /\ g.length = n
    BY <2>4 DEF Hdr
  <2>6. HeaderSound(c, g)
    BY <2>3, <2>5 DEF HeaderSound, IndexOp
  <2>7. HeadersSound(c)' /\ \A d \in Worker \ {c} : req'[d] = req[d]
    BY <1>0, <2>1, <2>2, <2>4, <2>6, SentSound, SendFacts
  <2>8. CountsAt(c)'
    BY <1>0, <2>1 DEF CountsAt, CreatePoint
  <2>9. \A d \in Worker \ {c} : SameAt(d)
    BY <2>1, <2>7 DEF SameAt
  <2>10. Created(c)
    BY <2>1 DEF Created
  <2>11. QED
    BY <2>1, <2>7, <2>8, <2>9, <2>10, OwnStepAllocated
<1>12. CASE DestroyAcked(c)
  <2>1. /\ pc[c] = "destroy_ack" /\ pc'[c] = "none"
        /\ UNCHANGED <<num, num_mutexes, cur, held, fence_array, fencing, req, serverVars>>
        /\ \A d \in Worker \ {c} : pc'[d] = pc[d] /\ rep'[d] = rep[d]
    BY <1>0, <1>12 DEF DestroyAcked, TakeReply, Goto, TypeOK
  <2>2. \A d \in Worker \ {c} : SameAt(d)
    BY <2>1 DEF SameAt
  <2>3. CountsAt(c)'
    BY <1>0, <2>1 DEF CountsAt, CreatePoint
  <2>4. HeadersSound(c)'
    BY <1>0, <2>1, NextSound DEF HeadersSound
  <2>5. ~Created(c)'
    BY <2>1 DEF Created, UsePoint
  <2>6. QED
    BY <2>1, <2>2, <2>3, <2>4, <2>5, OwnStepAllocated
<1>13. QED
  BY <1>1, <1>2, <1>3, <1>4, <1>5, <1>6, <1>7, <1>8, <1>9, <1>10, <1>11, <1>12
     DEF UserCall, Unlock, Continue

(* The collectives: MPI_Allgather hands out the new counts while no index  *)
(* is held or under way.                                                   *)
LEMMA CollectiveAllocated ==
  ASSUME IInv, AllocatedInv, Allgather \/ Barrier
  PROVE  AllocatedInv'
<1> SUFFICES ASSUME NEW c \in Worker PROVE AllocatedAt(c)'
  BY DEF AllocatedInv, AllocatedAt
<1>1. TypeOK /\ WorkerInv(c) /\ AllocatedAt(c)
  BY DEF IInv, AllocatedInv, AllocatedAt
<1>2. CASE Allgather
  <2>1. /\ pc[c] = "allgather" /\ pc'[c] = "create_send" /\ num_mutexes' = num
        /\ UNCHANGED <<num, cur, held, req, rep, serverVars>>
    BY <1>2 DEF Allgather
  <2>2. held[c] = {} /\ fence_array[c] = {}
    BY <1>1, <2>1 DEF WorkerInv, QuietAt
  <2>3. \A m \in Master : req[c][m] = << >>
    BY <2>1, <2>2, IdleFacts DEF FencePoint
  <2>4. \A m \in Master : \A i \in 1 .. Len(req'[c][m]) : FALSE
    <3>1. ASSUME NEW m \in Master PROVE Len(req'[c][m]) = 0
      BY <2>1, <2>3
    <3>2. QED
      BY <3>1
  <2>5. HeadersSound(c)'
    BY <2>4 DEF HeadersSound
  <2>6. CountsAt(c)'
    BY <2>1, <2>2 DEF CountsAt
  <2>7. ~Created(c)'
    BY <2>1 DEF Created, UsePoint
  <2>8. QED
    BY <2>5, <2>6, <2>7 DEF AllocatedAt
<1>3. CASE Barrier
  <2>1. /\ pc[c] \in {"create_barrier", "destroy_barrier"}
        /\ pc'[c] \in {"ready", "destroy_send", "none"}
        /\ pc'[c] = "destroy_send" => IsNotifier(c)
        /\ UNCHANGED <<num, num_mutexes, cur, held, req, rep, serverVars>>
    BY <1>3 DEF Barrier
  <2>2. HeadersSound(c)'
    BY <1>1, <2>1, NextSound DEF AllocatedAt, HeadersSound
  <2>3. CountsAt(c)'
    BY <1>1, <2>1 DEF AllocatedAt, CountsAt, CreatePoint, IsNotifier
  <2>4. allocated'[c] = num_mutexes'[c]
    BY <1>1, <2>1 DEF AllocatedAt, Created, UsePoint, serverVars
  <2>5. QED
    BY <2>2, <2>3, <2>4 DEF AllocatedAt
<1>4. QED
  BY <1>2, <1>3

(* A handler that answers none of the ranks in comex_create_mutexes leaves *)
(* nobody waiting with less than the server has.                           *)
LEMMA ServedAllocated ==
  ASSUME TypeOK, AllocatedInv, NEW m \in Master, NEW c \in Worker,
         req[c][m] # << >>, ProgressRecv(m, c), UNCHANGED workerVars,
         \A d \in Worker : pc[d] = "create_ack" => rep'[d] = rep[d],
         \A d \in Worker : Created(d)' => allocated'[d] = allocated[d]
  PROVE  AllocatedInv'
<1> SUFFICES ASSUME NEW d \in Worker PROVE AllocatedAt(d)'
  BY DEF AllocatedInv, AllocatedAt
<1>1. AllocatedAt(d)
  BY DEF AllocatedInv, AllocatedAt
<1>2. CountsAt(d)'
  BY <1>1 DEF AllocatedAt, CountsAt, workerVars, IsNotifier
<1>3. HeadersSound(d)'
  BY <1>1, ReceivedSound DEF AllocatedAt
<1>4. ASSUME Created(d)' PROVE Created(d)
  <2>1. CASE pc[d] = "destroy_ack"
    <3>1. req'[d][MasterOf[d]] # << >> /\ MasterOf[d] \in Master
      BY <1>4, <2>1, MutexAssumption DEF Created, workerVars, UsePoint, MutexAssumption
    <3>2. req[d][MasterOf[d]] # << >>
      BY <3>1, RecvFacts
    <3>3. QED
      BY <2>1, <3>2 DEF Created
  <2>2. CASE pc[d] # "destroy_ack"
    BY <1>4, <2>2 DEF Created, workerVars
  <2>3. QED
    BY <2>1, <2>2
<1>5. num_mutexes' = num_mutexes
  BY DEF workerVars
<1>6. QED
  BY <1>1, <1>2, <1>3, <1>4, <1>5 DEF AllocatedAt

(* Every message a server handles.                                         *)
LEMMA ServerAllocated ==
  ASSUME IInv, AllocatedInv, NEW m \in Master, NEW c \in Worker, progress_server(m, c)
  PROVE  AllocatedInv'
<1>0. TypeOK /\ WorkerInv(c)
  BY DEF IInv
<1>1. CASE fence_handler(m, c)
  <2>1. /\ req[c][m] # << >> /\ Head(req[c][m]).op = "FENCE"
        /\ ProgressRecv(m, c) /\ server_send(m, c, Ack)
        /\ UNCHANGED <<workerVars, serverVars>>
    BY <1>1 DEF fence_handler, Pending
  <2>2. m \in fencing[c] /\ rep[c][m] = << >>
    BY <2>1, RequestAlone DEF Awaits
  <2>3. pc[c] # "create_ack"
    BY <1>0, <2>2 DEF WorkerInv, QuietAt, FencePoint
  <2>4. \A d \in Worker \ {c} : rep'[d] = rep[d]
    BY <1>0, <2>1, <2>2, ServeFacts, ReplyTyped
  <2>5. QED
    BY <1>0, <2>1, <2>3, <2>4, ServedAllocated DEF serverVars
<1>2. CASE mutex_create_handler(m, c)
  <2>1. /\ req[c][m] # << >> /\ Head(req[c][m]).op = "CREATE_MUTEXES"
        /\ ProgressRecv(m, c) /\ server_send(m, c, Ack) /\ UNCHANGED workerVars
        /\ allocated' = [allocated EXCEPT ![c] = Head(req[c][m]).length]
    BY <1>2 DEF mutex_create_handler, Pending
  <2>2. /\ pc[c] = "create_ack" /\ m = MasterOf[c] /\ rep[c][m] = << >>
        /\ Len(req[c][m]) = 1 /\ req[c][m][1] = Head(req[c][m])
    BY <2>1, RequestAlone DEF Awaits
  <2>3. Head(req[c][m]).length = num_mutexes[c]
    <3>1. HeaderSound(c, req[c][m][1])
      BY <2>2 DEF AllocatedInv, HeadersSound
    <3>2. QED
      BY <2>1, <2>2, <3>1 DEF HeaderSound
  <2>4. allocated'[c] = num_mutexes[c] /\ \A d \in Worker \ {c} : allocated'[d] = allocated[d]
    BY <1>0, <2>1, <2>3 DEF TypeOK
  <2>5. \A d \in Worker \ {c} : rep'[d] = rep[d] /\ req'[d] = req[d]
    BY <1>0, <2>1, <2>2, ServeFacts, ReplyTyped, RecvFacts
  <2>6. num' = num /\ num_mutexes' = num_mutexes
    BY <2>1 DEF workerVars
  <2>7. ASSUME NEW d \in Worker \ {c} PROVE AllocatedAt(d)'
    <3>1. SameAt(d)
      BY <2>1, <2>5 DEF SameAt, workerVars
    <3>2. QED
      BY <2>4, <2>6, <3>1, SameAllocated DEF AllocatedInv, AllocatedAt
  <2>8. AllocatedAt(c)'
    <3>1. CountsAt(c)'
      BY <2>1 DEF AllocatedInv, CountsAt, workerVars, IsNotifier
    <3>2. HeadersSound(c)'
      BY <1>0, <2>1, ReceivedSound DEF AllocatedInv
    <3>3. QED
      BY <2>4, <2>6, <3>1, <3>2 DEF AllocatedAt
  <2>9. QED
    BY <2>7, <2>8 DEF AllocatedInv, AllocatedAt
<1>3. CASE mutex_destroy_handler(m, c)
  <2>1. /\ req[c][m] # << >> /\ Head(req[c][m]).op = "DESTROY_MUTEXES"
        /\ ProgressRecv(m, c) /\ server_send(m, c, Ack) /\ UNCHANGED workerVars
        /\ allocated' = [allocated EXCEPT ![c] = 0]
    BY <1>3 DEF mutex_destroy_handler, Pending
  <2>2. pc[c] = "destroy_ack" /\ m = MasterOf[c] /\ rep[c][m] = << >> /\ req'[c][m] = << >>
    BY <2>1, RequestAlone DEF Awaits
  <2>3. \A d \in Worker \ {c} : allocated'[d] = allocated[d] /\ rep'[d] = rep[d]
    BY ZenonT(60), <1>0, <2>1, <2>2, ServeFacts, ReplyTyped DEF TypeOK
  <2>4. ~Created(c)'
    BY <2>1, <2>2 DEF Created, UsePoint, workerVars
  <2>5. QED
    BY <1>0, <2>1, <2>2, <2>3, <2>4, ServedAllocated
<1>4. CASE lock_handler(m, c)
  <2> DEFINE x == Target(Head(req[c][m]))
  <2>1. /\ req[c][m] # << >> /\ Head(req[c][m]).op = "LOCK"
        /\ ProgressRecv(m, c) /\ UNCHANGED <<workerVars, allocated>>
        /\ server_send(m, c, Grant(x[2])) \/ rep' = rep
    BY <1>4 DEF lock_handler, Pending
  <2>2. pc[c] = "lock" /\ x = cur[c]
    BY <2>1, RequestAlone DEF Awaits
  <2>3. \A d \in Worker \ {c} : rep'[d] = rep[d]
    BY <1>0, <2>1 DEF server_send, TypeOK
  <2>4. QED
    BY <1>0, <2>1, <2>2, <2>3, ServedAllocated
<1>5. CASE unlock_handler(m, c)
  <2> DEFINE x == Target(Head(req[c][m]))
  <2>1. /\ req[c][m] # << >> /\ Head(req[c][m]).op = "UNLOCK"
        /\ ProgressRecv(m, c) /\ UNCHANGED <<workerVars, allocated>>
        /\ \/ lq_heads[x] # << >> /\ server_send(m, Head(lq_heads[x]), Grant(x[2]))
           \/ rep' = rep
    BY <1>5 DEF unlock_handler, Pending
  <2>2. Head(req[c][m]) \in Header /\ x \in Mutex
    <3>1. Head(req[c][m]) \in Header
      BY <1>0, <1>5, RecvTyped DEF progress_server
    <3>2. QED
      BY <2>1, <3>1, TargetTyped DEF IndexOp
  <2> HIDE DEF x
  <2>3. ASSUME NEW d \in Worker, pc[d] = "create_ack" PROVE rep'[d] = rep[d]
    <3>1. CASE lq_heads[x] # << >> /\ server_send(m, Head(lq_heads[x]), Grant(x[2]))
      <4>1. lq_heads[x] \in Seq(Worker)
        BY <1>0, <2>2 DEF TypeOK
      <4>2. 1 \in 1 .. Len(lq_heads[x]) /\ Head(lq_heads[x]) = lq_heads[x][1]
        BY <3>1, <4>1, EmptySeq
      <4>3. pc[lq_heads[x][1]] = "lock"
        BY <2>2, <4>2 DEF IInv, QueueInv, Waits
      <4>4. Head(lq_heads[x]) # d
        BY <2>3, <4>2, <4>3
      <4>5. QED
        BY <1>0, <3>1, <4>4 DEF server_send, TypeOK
    <3>2. QED
      BY <2>1, <3>1
  <2>4. QED
    BY <1>0, <2>1, <2>3, ServedAllocated
<1>6. QED
  BY <1>1, <1>2, <1>3, <1>4, <1>5 DEF progress_server

(* Under NotifiersFirst, a lock or unlock on its way names an entry of the *)
(* array its server has allocated, and a destroy the length of the array   *)
(* its sender created: the handlers need no bound check.  Without it the   *)
(* count a destroy carries is another rank's or lies past the end of       *)
(* num_mutexes.                                                            *)
THEOREM IndexSafety ==
  ASSUME NotifiersFirst
  PROVE  Spec => []IndicesAllocated
<1>1. Init => AllocatedInv
  <2> SUFFICES ASSUME Init, NEW c \in Worker PROVE AllocatedAt(c)
    BY DEF AllocatedInv, AllocatedAt
  <2>1. pc[c] = "none" /\ held[c] = {} /\ \A m \in Master : req[c][m] = << >>
    BY DEF Init
  <2>2. QED
    BY <2>1 DEF AllocatedAt, CountsAt, HeadersSound, Created, UsePoint, CreatePoint
<1>2. IInv /\ AllocatedInv /\ [Next]_vars => AllocatedInv'
  <2> SUFFICES ASSUME IInv, AllocatedInv, [Next]_vars PROVE AllocatedInv'
    OBVIOUS
  <2>1. CASE UNCHANGED vars
    <3>1. \A d \in Worker : SameAt(d)
      BY <2>1 DEF vars, SameAt
    <3>2. QED
      BY <2>1, <3>1, SameAllocated DEF vars, AllocatedInv, AllocatedAt
  <2>2. QED
    BY <2>1, WorkerAllocated, CollectiveAllocated, ServerAllocated DEF Next
<1>3. IInv /\ AllocatedInv => IndicesAllocated
  <2> SUFFICES ASSUME IInv, AllocatedInv, NEW c \in Worker, NEW m \in Master,
                      NEW i \in DOMAIN req[c][m]
               PROVE  LET h == req[c][m][i] IN
                        /\ h.op \in {"LOCK", "UNLOCK"} => h.length < allocated[h.rank]
                        /\ h.op = "DESTROY_MUTEXES" => h.length = allocated[c]
    BY DEF IndicesAllocated, InFlight
  <2> DEFINE h == req[c][m][i]
  <2>1. TypeOK /\ WorkerInv(c) /\ i \in 1 .. Len(req[c][m]) /\ h \in Header
    BY DEF IInv, TypeOK
  <2>2. HeaderSound(c, h)
    BY <2>1 DEF AllocatedInv, HeadersSound
  <2>3. h.rank \in Worker
    BY <2>1, TargetTyped
  <2>4. \/ h.op = "UNLOCK" /\ m \in fence_array[c]
        \/ Awaits(c, m, h)
    BY <2>1 DEF WorkerInv, RequestsAt, UnlocksAt
  <2> HIDE DEF h
  <2>5. ASSUME h.op \in {"LOCK", "UNLOCK"} PROVE h.length < allocated[h.rank]
    <3>1. pc[c] \in UsePoint
      BY <2>1, <2>4, <2>5 DEF Awaits, WorkerInv, QuietAt, UsePoint
    <3>2. \A d \in Worker : pc[d] \in UsePoint
      BY <3>1 DEF IInv, StageInv, UsePoint, CreatePoint, DestroyPoint
    <3>3. Created(h.rank)
      BY <2>3, <3>2 DEF Created
    <3>4. allocated[h.rank] = num_mutexes[h.rank]
      BY <2>3, <3>3 DEF AllocatedInv
    <3>5. QED
      BY <2>2, <2>5, <3>4 DEF HeaderSound, IndexOp
  <2>6. ASSUME h.op = "DESTROY_MUTEXES" PROVE h.length = allocated[c]
    <3>1. pc[c] = "destroy_ack" /\ m = MasterOf[c]
      BY <2>4, <2>6 DEF Awaits
    <3>2. req[c][m] # << >>
      BY <2>1
    <3>3. Created(c)
      BY <3>1, <3>2 DEF Created
    <3>4. QED
      BY <2>2, <2>6, <3>3 DEF HeaderSound, AllocatedInv
  <2>7. QED
    BY <2>5, <2>6 DEF h
<1>4. QED
  BY <1>1, <1>2, <1>3, Invariance, PTL DEF Spec
=============================================================================
