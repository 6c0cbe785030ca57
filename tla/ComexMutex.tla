----------------------------- MODULE ComexMutex -----------------------------
(***************************************************************************)
(* The mutexes of the ComEx MPI progress-rank runtime                      *)
(* (comex/src-mpi-pr/comex.c).  Worker ranks call comex_create_mutexes,    *)
(* comex_lock, comex_unlock, comex_destroy_mutexes and the fences; each    *)
(* call turns into header messages to the progress rank (the master) that  *)
(* serves the mutex, whose _progress_server loop handles one message at a  *)
(* time.                                                                   *)
(*                                                                         *)
(* MPI is external: messages between one pair of ranks arrive in the order *)
(* they were sent, MPI_Recv(MPI_ANY_SOURCE) may take the oldest message of *)
(* any sender, and a collective lets nobody leave before all have entered. *)
(* All ranks leave a collective in one step: leaving is local, so a rank   *)
(* that lingers inside is one that has left and not moved yet.             *)
(***************************************************************************)
EXTENDS Integers, Sequences, FiniteSets

CONSTANTS
  Worker,     \* world ranks of the user processes (group_list)
  Master,     \* world ranks of the progress servers
  MasterOf,   \* g_state.master: the progress rank that serves a worker
  Host,       \* g_state.host: the node of a worker
  MaxMutexes, \* bound: largest argument of comex_create_mutexes
  Counts,     \* the arguments each worker may pass to it
  MaxHeld     \* bound: mutexes one process holds at the same time

ASSUME MutexAssumption ==
  /\ Worker \subseteq Nat /\ Worker # {} /\ IsFiniteSet(Worker)
  /\ Master \subseteq Nat
  /\ MasterOf \in [Worker -> Master]
  /\ DOMAIN Host = Worker
  /\ MaxMutexes \in Nat /\ MaxHeld \in Nat
  /\ Counts \in [Worker -> SUBSET (0 .. MaxMutexes)]

VARIABLES
  pc,          \* where each worker is in the call it is executing
  num,         \* argument of a worker's last comex_create_mutexes
  num_mutexes, \* the counts of all workers, as the last MPI_Allgather left them
  cur,         \* the mutex a worker in comex_lock asked for, <<c, 0>> elsewhere
  held,        \* mutexes whose comex_lock returned and that were not unlocked
  fence_array, \* fence_array[c]: masters with messages of c nobody waited for
  fencing,     \* masters whose acknowledgment c awaits in a fence
  req,         \* headers in flight from a worker to a master
  rep,         \* replies in flight from a master to a worker
  mutexes,     \* server: rank of the holder of a mutex, or UNLOCKED
  lq_heads,    \* server: queue of the ranks waiting for a mutex
  allocated    \* server: length of the array mutexes[rank], 0 if not allocated

vars == <<pc, num, num_mutexes, cur, held, fence_array, fencing, req, rep,
          mutexes, lq_heads, allocated>>
workerVars == <<pc, num, num_mutexes, cur, held, fence_array, fencing>>
serverVars == <<mutexes, lq_heads, allocated>>

UNLOCKED == -1          \* no rank
Id == 0 .. (MaxMutexes - 1)
Mutex == Worker \X Id   \* a mutex is named by its owner's rank and an index

(* header_t: an operation, a target rank and a length, which carries the   *)
(* number of mutexes or the index of one.                                  *)
CountOp == {"CREATE_MUTEXES", "DESTROY_MUTEXES", "FENCE"}
IndexOp == {"LOCK", "UNLOCK"}
Header == [op : CountOp, rank : Worker, length : 0 .. MaxMutexes]
            \cup [op : IndexOp, rank : Worker, length : Id]
Hdr(op, rank, length) == [op |-> op, rank |-> rank, length |-> length]

(* A reply is an empty acknowledgment or the index of the granted mutex.   *)
Reply == [op : {"ACK", "LOCK"}, length : 0 .. MaxMutexes]
Ack == [op |-> "ACK", length |-> 0]
Grant(id) == [op |-> "LOCK", length |-> id]

(* Program points.  The calls that end in a barrier go through a fence     *)
(* point (waiting for the acknowledgments) and a barrier point.            *)
CreatePoint == {"create_send", "create_ack", "create_fence", "create_barrier"}
UsePoint == {"ready", "lock", "fence", "destroy_fence", "destroy_barrier"}
DestroyPoint == {"destroy_send", "destroy_ack", "none", "allgather"}
Point == CreatePoint \cup UsePoint \cup DestroyPoint

Init ==
  /\ pc = [c \in Worker |-> "none"]
  /\ num = [c \in Worker |-> 0]
  /\ num_mutexes = [c \in Worker |-> 0]
  /\ cur = [c \in Worker |-> <<c, 0>>]
  /\ held = [c \in Worker |-> {}]
  /\ fence_array = [c \in Worker |-> {}]
  /\ fencing = [c \in Worker |-> {}]
  /\ req = [c \in Worker |-> [m \in Master |-> << >>]]
  /\ rep = [c \in Worker |-> [m \in Master |-> << >>]]
  /\ mutexes = [x \in Mutex |-> UNLOCKED]
  /\ lq_heads = [x \in Mutex |-> << >>]
  /\ allocated = [c \in Worker |-> 0]

-----------------------------------------------------------------------------
(* Worker side.                                                            *)

Goto(c, point) == pc' = [pc EXCEPT ![c] = point]

nb_send_header(c, m, h) == req' = [req EXCEPT ![c][m] = Append(@, h)]

Replied(c, m) == rep[c][m] # << >>
TakeReply(c, m) == rep' = [rep EXCEPT ![c][m] = Tail(@)]

(* Post a FENCE to every master in ms and wait at waitPoint; a fence with  *)
(* nothing to wait for goes straight on to donePoint.                      *)
Fence(c, ms, waitPoint, donePoint) ==
  /\ req' = [req EXCEPT ![c] = [m \in Master |->
               IF m \in ms THEN Append(@[m], Hdr("FENCE", c, 0)) ELSE @[m]]]
  /\ fencing' = [fencing EXCEPT ![c] = ms]
  /\ Goto(c, IF ms = {} THEN donePoint ELSE waitPoint)

(* nb_wait_for_all at the end of a fence: every acknowledgment is there.   *)
After == [fence |-> "ready", create_fence |-> "create_barrier",
          destroy_fence |-> "destroy_barrier"]
FencePoint == {"fence", "create_fence", "destroy_fence"}

FenceDone(c) ==
  /\ pc[c] \in FencePoint
  /\ \A m \in fencing[c] : Replied(c, m)
  /\ rep' = [rep EXCEPT ![c] = [m \in Master |->
               IF m \in fencing[c] THEN Tail(@[m]) ELSE @[m]]]
  /\ fence_array' = [fence_array EXCEPT ![c] = @ \ fencing[c]]
  /\ fencing' = [fencing EXCEPT ![c] = {}]
  /\ Goto(c, After[pc[c]])
  /\ UNCHANGED <<num, num_mutexes, cur, held, req, serverVars>>

(* comex_create_mutexes: record the own count and enter MPI_Allgather.     *)
comex_create_mutexes(c, n) ==
  /\ pc[c] = "none"
  /\ num' = [num EXCEPT ![c] = n]
  /\ Goto(c, "allgather")
  /\ UNCHANGED <<num_mutexes, cur, held, fence_array, fencing, req, rep, serverVars>>

Allgather ==
  /\ \A c \in Worker : pc[c] = "allgather"
  /\ pc' = [c \in Worker |-> "create_send"]
  /\ num_mutexes' = num
  /\ UNCHANGED <<num, cur, held, fence_array, fencing, req, rep,
                 serverVars>>

CreateSend(c) ==
  /\ pc[c] = "create_send"
  /\ nb_send_header(c, MasterOf[c], Hdr("CREATE_MUTEXES", c, num[c]))
  /\ Goto(c, "create_ack")
  /\ UNCHANGED <<num, num_mutexes, cur, held, fence_array, fencing, rep, serverVars>>

(* Bug variant: the barrier after the acknowledgment is missing.           *)
CreateAckedNoBarrier(c) ==
  /\ pc[c] = "create_ack" /\ Replied(c, MasterOf[c])
  /\ TakeReply(c, MasterOf[c])
  /\ Goto(c, "ready")
  /\ UNCHANGED <<num, num_mutexes, cur, held, fence_array, fencing, req,
                 serverVars>>

(* The acknowledgment arrives and comex_barrier begins with its fence.     *)
CreateAcked(c) ==
  /\ pc[c] = "create_ack" /\ Replied(c, MasterOf[c])
  /\ TakeReply(c, MasterOf[c])
  /\ Fence(c, fence_array[c], "create_fence", "create_barrier")
  /\ UNCHANGED <<num, num_mutexes, cur, held, fence_array, serverVars>>

(* comex_lock: post the receive of the grant, send LOCK and wait.  The     *)
(* caller names a mutex that exists and that it does not hold.             *)
comex_lock(c, x) ==
  /\ pc[c] = "ready"
  /\ x \notin held[c] /\ x[2] < num_mutexes[x[1]]
  /\ Cardinality(held[c]) < MaxHeld
  /\ nb_send_header(c, MasterOf[x[1]], Hdr("LOCK", x[1], x[2]))
  /\ cur' = [cur EXCEPT ![c] = x]
  /\ Goto(c, "lock")
  /\ UNCHANGED <<num, num_mutexes, held, fence_array, fencing, rep, serverVars>>

LockGranted(c) ==
  /\ pc[c] = "lock" /\ Replied(c, MasterOf[cur[c][1]])
  /\ TakeReply(c, MasterOf[cur[c][1]])
  /\ held' = [held EXCEPT ![c] = @ \cup {cur[c]}]
  /\ cur' = [cur EXCEPT ![c] = <<c, 0>>]
  /\ Goto(c, "ready")
  /\ UNCHANGED <<num, num_mutexes, fence_array, fencing, req, serverVars>>

(* Bug variant: the unlock does not raise the fence flag.                  *)
comex_unlock_unfenced(c, x) ==
  /\ pc[c] = "ready" /\ x \in held[c]
  /\ nb_send_header(c, MasterOf[x[1]], Hdr("UNLOCK", x[1], x[2]))
  /\ held' = [held EXCEPT ![c] = @ \ {x}]
  /\ UNCHANGED <<pc, num, num_mutexes, cur, fence_array, fencing, rep, serverVars>>

(* comex_unlock returns once the header has left: nobody acknowledges it.  *)
comex_unlock(c, x) ==
  /\ pc[c] = "ready" /\ x \in held[c]
  /\ fence_array' = [fence_array EXCEPT ![c] = @ \cup {MasterOf[x[1]]}]
  /\ nb_send_header(c, MasterOf[x[1]], Hdr("UNLOCK", x[1], x[2]))
  /\ held' = [held EXCEPT ![c] = @ \ {x}]
  /\ UNCHANGED <<pc, num, num_mutexes, cur, fencing, rep, serverVars>>

(* comex_fence_all, and comex_fence_proc through _fence_master: without a  *)
(* raised flag they return at once.                                        *)
comex_fence_all(c) ==
  /\ pc[c] = "ready" /\ fence_array[c] # {}
  /\ Fence(c, fence_array[c], "fence", "ready")
  /\ UNCHANGED <<num, num_mutexes, cur, held, fence_array, rep, serverVars>>

comex_fence_proc(c, m) ==
  /\ pc[c] = "ready" /\ m \in fence_array[c]
  /\ Fence(c, {m}, "fence", "ready")
  /\ UNCHANGED <<num, num_mutexes, cur, held, fence_array, rep, serverVars>>

(* comex_destroy_mutexes starts with comex_barrier.  The caller holds no   *)
(* mutex: the handler asserts that.                                        *)
comex_destroy_mutexes(c) ==
  /\ pc[c] = "ready" /\ held[c] = {}
  /\ Fence(c, fence_array[c], "destroy_fence", "destroy_barrier")
  /\ UNCHANGED <<num, num_mutexes, cur, held, fence_array, rep, serverVars>>

(* _smallest_world_rank_with_same_hostid(group_list) == g_state.rank       *)
IsNotifier(c) == \A d \in Worker : Host[d] = Host[c] => c <= d

(* MPI_Barrier on the world group, at the end of comex_barrier.  After the *)
(* one of comex_destroy_mutexes, the ranks that notify nobody return with  *)
(* num_mutexes freed.                                                      *)
Barrier ==
  /\ \A c \in Worker : pc[c] \in {"create_barrier", "destroy_barrier"}
  /\ pc' = [c \in Worker |->
              IF pc[c] = "create_barrier" THEN "ready"
              ELSE IF IsNotifier(c) THEN "destroy_send" ELSE "none"]
  /\ UNCHANGED <<num, num_mutexes, cur, held, fence_array, fencing, req, rep, serverVars>>

(* The rank of a worker in group_list->comm, which orders them by world    *)
(* rank.                                                                   *)
GroupRank(c) == Cardinality({d \in Worker : d < c})

(* num_mutexes[g_state.rank]: the array is indexed by ranks of group_list  *)
(* and read at a world rank.  Past its end the read yields anything.       *)
DestroyLength(c) ==
  IF \E d \in Worker : GroupRank(d) = c
  THEN {num_mutexes[d] : d \in {d \in Worker : GroupRank(d) = c}}
  ELSE 0 .. MaxMutexes

DestroySend(c) ==
  /\ pc[c] = "destroy_send"
  /\ \E n \in DestroyLength(c) :
       nb_send_header(c, MasterOf[c], Hdr("DESTROY_MUTEXES", c, n))
  /\ Goto(c, "destroy_ack")
  /\ UNCHANGED <<num, num_mutexes, cur, held, fence_array, fencing, rep,
                 serverVars>>

DestroyAcked(c) ==
  /\ pc[c] = "destroy_ack" /\ Replied(c, MasterOf[c])
  /\ TakeReply(c, MasterOf[c])
  /\ Goto(c, "none")
  /\ UNCHANGED <<num, num_mutexes, cur, held, fence_array, fencing, req,
                 serverVars>>

-----------------------------------------------------------------------------
(* Server side: _progress_server takes the oldest header of some worker    *)
(* and runs its handler to the end.                                        *)

Pending(m, c, op) == req[c][m] # << >> /\ Head(req[c][m]).op = op
ProgressRecv(m, c) == req' = [req EXCEPT ![c][m] = Tail(@)]
server_send(m, c, r) == rep' = [rep EXCEPT ![c][m] = Append(@, r)]

fence_handler(m, c) ==
  /\ Pending(m, c, "FENCE")
  /\ ProgressRecv(m, c)
  /\ server_send(m, c, Ack)
  /\ UNCHANGED <<workerVars, serverVars>>
(* Bug variant: one entry too many.                                        *)
mutex_create_handler_plus1(m, c) ==
  /\ Pending(m, c, "CREATE_MUTEXES")
  /\ ProgressRecv(m, c)
  /\ allocated' = [allocated EXCEPT ![c] = Head(req[c][m]).length + 1]
  /\ server_send(m, c, Ack)
  /\ UNCHANGED <<workerVars, mutexes, lq_heads>>

mutex_create_handler(m, c) ==
  /\ Pending(m, c, "CREATE_MUTEXES")
  /\ ProgressRecv(m, c)
  /\ LET n == Head(req[c][m]).length
         fresh == {c} \X {i \in Id : i < n}
     IN /\ allocated' = [allocated EXCEPT ![c] = n]
        /\ mutexes' = [x \in Mutex |-> IF x \in fresh THEN UNLOCKED ELSE mutexes[x]]
        /\ lq_heads' = [x \in Mutex |-> IF x \in fresh THEN << >> ELSE lq_heads[x]]
  /\ server_send(m, c, Ack)
  /\ UNCHANGED workerVars

(* The assertions of _mutex_destroy_handler are DestroyFindsUnlocked.      *)
mutex_destroy_handler(m, c) ==
  /\ Pending(m, c, "DESTROY_MUTEXES")
  /\ ProgressRecv(m, c)
  /\ allocated' = [allocated EXCEPT ![c] = 0]
  /\ server_send(m, c, Ack)
  /\ UNCHANGED <<workerVars, mutexes, lq_heads>>

Target(h) == <<h.rank, h.length>>
(* Bug variant: a new request replaces the queue.                          *)
lock_handler_new_head(m, c) ==
  /\ Pending(m, c, "LOCK")
  /\ ProgressRecv(m, c)
  /\ LET x == Target(Head(req[c][m]))
     IN \/ /\ mutexes[x] = UNLOCKED
           /\ mutexes' = [mutexes EXCEPT ![x] = c]
           /\ server_send(m, c, Grant(x[2]))
           /\ UNCHANGED lq_heads
        \/ /\ mutexes[x] # UNLOCKED
           /\ lq_heads' = [lq_heads EXCEPT ![x] = <<c>>]
           /\ UNCHANGED <<mutexes, rep>>
  /\ UNCHANGED <<workerVars, allocated>>

lock_handler(m, c) ==
  /\ Pending(m, c, "LOCK")
  /\ ProgressRecv(m, c)
  /\ LET x == Target(Head(req[c][m]))
     IN \/ /\ mutexes[x] = UNLOCKED
           /\ mutexes' = [mutexes EXCEPT ![x] = c]
           /\ server_send(m, c, Grant(x[2]))
           /\ UNCHANGED lq_heads
        \/ /\ mutexes[x] # UNLOCKED
           /\ lq_heads' = [lq_heads EXCEPT ![x] = Append(@, c)]
           /\ UNCHANGED <<mutexes, rep>>
  /\ UNCHANGED <<workerVars, allocated>>
(* Bug variants: the mutex is handed on but marked free; the grant goes to *)
(* the rank that unlocks.                                                  *)
HandOver(m, c, holder(_), dest(_)) ==
  /\ Pending(m, c, "UNLOCK")
  /\ ProgressRecv(m, c)
  /\ LET x == Target(Head(req[c][m]))
     IN \/ /\ lq_heads[x] # << >>
           /\ lq_heads' = [lq_heads EXCEPT ![x] = Tail(@)]
           /\ mutexes' = [mutexes EXCEPT ![x] = holder(Head(lq_heads[x]))]
           /\ server_send(m, dest(Head(lq_heads[x])), Grant(x[2]))
        \/ /\ lq_heads[x] = << >>
           /\ mutexes' = [mutexes EXCEPT ![x] = UNLOCKED]
           /\ UNCHANGED <<lq_heads, rep>>
  /\ UNCHANGED <<workerVars, allocated>>

unlock_handler_marks_free(m, c) ==
  HandOver(m, c, LAMBDA r : UNLOCKED, LAMBDA r : r)
unlock_handler_wrong_dest(m, c) ==
  HandOver(m, c, LAMBDA r : r, LAMBDA r : c)

unlock_handler(m, c) ==
  /\ Pending(m, c, "UNLOCK")
  /\ ProgressRecv(m, c)
  /\ LET x == Target(Head(req[c][m]))
     IN \/ /\ lq_heads[x] # << >>
           /\ lq_heads' = [lq_heads EXCEPT ![x] = Tail(@)]
           /\ mutexes' = [mutexes EXCEPT ![x] = Head(lq_heads[x])]
           /\ server_send(m, Head(lq_heads[x]), Grant(x[2]))
        \/ /\ lq_heads[x] = << >>
           /\ mutexes' = [mutexes EXCEPT ![x] = UNLOCKED]
           /\ UNCHANGED <<lq_heads, rep>>
  /\ UNCHANGED <<workerVars, allocated>>

progress_server(m, c) ==
  \/ fence_handler(m, c)
  \/ mutex_create_handler(m, c)
  \/ mutex_destroy_handler(m, c)
  \/ lock_handler(m, c)
  \/ unlock_handler(m, c)

-----------------------------------------------------------------------------
(* What the user program decides.                                          *)
UserCall(c) ==
  \/ \E n \in Counts[c] : comex_create_mutexes(c, n)
  \/ \E x \in Mutex : comex_lock(c, x)
  \/ comex_fence_all(c)
  \/ \E m \in Master : comex_fence_proc(c, m)
  \/ comex_destroy_mutexes(c)

(* What the library does by itself once a call is under way.               *)
Continue(c) ==
  \/ CreateSend(c)
  \/ CreateAcked(c)
  \/ FenceDone(c)
  \/ LockGranted(c)
  \/ DestroySend(c)
  \/ DestroyAcked(c)

Unlock(c) == \E x \in Mutex : comex_unlock(c, x)

Next ==
  \/ \E c \in Worker : UserCall(c) \/ Unlock(c) \/ Continue(c)
  \/ Allgather
  \/ Barrier
  \/ \E m \in Master, c \in Worker : progress_server(m, c)

Spec == Init /\ [][Next]_vars

(* MPI delivers what was sent and the progress rank does nothing but       *)
(* receive, so every message is handled; a call under way goes on; a user  *)
(* that holds a mutex eventually unlocks it.  No call is forced to begin.  *)
Fairness ==
  /\ \A m \in Master, c \in Worker : WF_vars(progress_server(m, c))
  /\ \A c \in Worker : WF_vars(Continue(c)) /\ WF_vars(Unlock(c))
  /\ WF_vars(Allgather) /\ WF_vars(Barrier)

FairSpec == Spec /\ Fairness

-----------------------------------------------------------------------------
TypeOK ==
  /\ pc \in [Worker -> Point]
  /\ num \in [Worker -> 0 .. MaxMutexes]
  /\ num_mutexes \in [Worker -> 0 .. MaxMutexes]
  /\ cur \in [Worker -> Worker \X Nat]
  /\ \A c \in Worker : pc[c] = "lock" => cur[c] \in Mutex
  /\ held \in [Worker -> SUBSET Mutex]
  /\ fence_array \in [Worker -> SUBSET Master]
  /\ fencing \in [Worker -> SUBSET Master]
  /\ req \in [Worker -> [Master -> Seq(Header)]]
  /\ rep \in [Worker -> [Master -> Seq(Reply)]]
  /\ mutexes \in [Mutex -> Worker \cup {UNLOCKED}]
  /\ lq_heads \in [Mutex -> Seq(Worker)]
  /\ allocated \in [Worker -> 0 .. MaxMutexes]

(* Messages of worker c on their way to master m.                          *)
InFlight(c, m) == {req[c][m][i] : i \in DOMAIN req[c][m]}

(* Mutual exclusion: comex_lock never returns to two processes for the     *)
(* same mutex before one of them unlocked it, across destroy and create.   *)
MutualExclusion ==
  \A c, d \in Worker : c # d => held[c] \cap held[d] = {}

(* The comment of comex_destroy_mutexes, "this barrier ensures there are   *)
(* no outstanding lock requests", with the assertions of                   *)
(* _mutex_destroy_handler: once a rank is past the barrier, every mutex is *)
(* UNLOCKED, every queue is empty and no lock or unlock is in flight.      *)
DestroyFindsUnlocked ==
  \A c \in Worker : pc[c] \in {"destroy_send", "destroy_ack"} =>
    /\ \A x \in Mutex : mutexes[x] = UNLOCKED /\ lq_heads[x] = << >>
    /\ \A d \in Worker, m \in Master : \A h \in InFlight(d, m) :
         h.op \notin {"LOCK", "UNLOCK"}

(* COMEX_ASSERT(mutex == ack) of comex_lock and the pre-posted receives of *)
(* the other calls: all replies share one tag, yet the oldest reply of a   *)
(* master is always the one that the call under way is waiting for.        *)
RepliesMatchReceives ==
  \A c \in Worker, m \in Master : Replied(c, m) =>
    /\ Len(rep[c][m]) = 1
    /\ \/ /\ pc[c] = "lock" /\ m = MasterOf[cur[c][1]]
          /\ Head(rep[c][m]) = Grant(cur[c][2])
       \/ /\ pc[c] \in {"create_ack", "destroy_ack"} /\ m = MasterOf[c]
          /\ Head(rep[c][m]) = Ack
       \/ /\ m \in fencing[c] /\ Head(rep[c][m]) = Ack

(* A lock or unlock on its way names an entry of the array its master      *)
(* allocated: the handlers index mutexes[rank][id] without a bound check.  *)
(* And a destroy walks what its sender created: "how many mutexes on each  *)
(* process" (comex.c:168) is read at a world rank but kept by ranks of     *)
(* group_list, so this part needs workers without a progress rank among    *)
(* them, as on one node.                                                   *)
IndicesAllocated ==
  \A c \in Worker, m \in Master : \A h \in InFlight(c, m) :
    /\ h.op \in {"LOCK", "UNLOCK"} => h.length < allocated[h.rank]
    /\ h.op = "DESTROY_MUTEXES" => h.length = allocated[c]

(* Every call comes back: a lock request is not forgotten in the queue or  *)
(* overtaken for ever, a fence is acknowledged, and the collective calls   *)
(* get through their messages and barriers.                                *)
CallsReturn ==
  \A c \in Worker :
    pc[c] \in {"lock", "fence", "create_send", "destroy_send"}
      ~> pc[c] \in {"ready", "none"}

-----------------------------------------------------------------------------
(* The inductive invariant behind MutualExclusion and DestroyFindsUnlocked.*)

(* The workers use the mutexes, are done with them, or create them: the    *)
(* collectives let nobody run ahead into the next stage.                   *)
StageInv ==
  \/ \A c \in Worker : pc[c] \in UsePoint
  \/ \A c \in Worker : pc[c] \in DestroyPoint
  \/ \A c \in Worker : pc[c] \in CreatePoint

(* Outside the use stage a worker holds nothing and has nothing unfenced.  *)
QuietAt(c) ==
  /\ pc[c] \notin {"ready", "lock", "fence"} => held[c] = {}
  /\ pc[c] = "destroy_fence" => fencing[c] = fence_array[c]
  /\ pc[c] \notin {"ready", "lock", "fence", "destroy_fence"} => fence_array[c] = {}
  /\ pc[c] \notin FencePoint => fencing[c] = {}
  /\ pc[c] = "lock" => cur[c] \notin held[c]

(* Only the newest header of a worker asks for a reply, and the worker is  *)
(* waiting for it.                                                         *)
Awaits(c, m, h) ==
  \/ h.op = "FENCE" /\ m \in fencing[c]
  \/ h.op = "CREATE_MUTEXES" /\ pc[c] = "create_ack" /\ m = MasterOf[c]
  \/ h.op = "DESTROY_MUTEXES" /\ pc[c] = "destroy_ack" /\ m = MasterOf[c]
  \/ /\ h.op = "LOCK" /\ pc[c] = "lock" /\ Target(h) = cur[c]
     /\ m = MasterOf[cur[c][1]]

RequestsAt(c, m) ==
  \A i \in 1 .. Len(req[c][m]) :
    \/ req[c][m][i].op = "UNLOCK"
    \/ i = Len(req[c][m]) /\ Awaits(c, m, req[c][m][i]) /\ rep[c][m] = << >>

(* A reply is the last word between its worker and its server.             *)
RepliesAt(c, m) ==
  rep[c][m] # << >> =>
    /\ req[c][m] = << >>
    /\ Len(rep[c][m]) = 1
    /\ \/ /\ pc[c] = "lock" /\ m = MasterOf[cur[c][1]]
          /\ rep[c][m][1] = Grant(cur[c][2])
       \/ /\ pc[c] \in {"create_ack", "destroy_ack"} /\ m = MasterOf[c]
          /\ rep[c][m][1] = Ack
       \/ m \in fencing[c] /\ rep[c][m][1] = Ack

(* An unlock is sent once, to the mutex's master, for a mutex no longer    *)
(* held, and is covered by the fence flag.                                 *)
UnlocksAt(c, m) ==
  \A i \in 1 .. Len(req[c][m]) : req[c][m][i].op = "UNLOCK" =>
    /\ m = MasterOf[req[c][m][i].rank]
    /\ m \in fence_array[c]
    /\ Target(req[c][m][i]) \notin held[c]
    /\ \A j \in 1 .. Len(req[c][m]) : req[c][m][j] = req[c][m][i] => i = j

WorkerInv(c) ==
  /\ QuietAt(c)
  /\ \A m \in Master : RequestsAt(c, m) /\ RepliesAt(c, m) /\ UnlocksAt(c, m)

(* A queued worker waits for that mutex, once, with nothing in flight.     *)
Waits(d, x) ==
  /\ pc[d] = "lock" /\ cur[d] = x
  /\ req[d][MasterOf[x[1]]] = << >> /\ rep[d][MasterOf[x[1]]] = << >>

QueueInv ==
  \A x \in Mutex : \A i \in 1 .. Len(lq_heads[x]) :
    /\ Waits(lq_heads[x][i], x)
    /\ \A j \in 1 .. Len(lq_heads[x]) : lq_heads[x][j] = lq_heads[x][i] => i = j

(* The right to a mutex is with its holder, in a grant on its way to the   *)
(* holder or in an unlock on its way back; the server knows whose it is.   *)
UnlockHdr(x) == Hdr("UNLOCK", x[1], x[2])
Token(c, x) ==
  \/ x \in held[c]
  \/ \E i \in 1 .. Len(req[c][MasterOf[x[1]]]) :
       req[c][MasterOf[x[1]]][i] = UnlockHdr(x)
  \/ pc[c] = "lock" /\ cur[c] = x /\ rep[c][MasterOf[x[1]]] # << >>

TokenInv == \A c \in Worker, x \in Mutex : Token(c, x) <=> mutexes[x] = c

(* The conjunction is preserved by every step.                             *)
IInv ==
  /\ TypeOK
  /\ StageInv
  /\ \A c \in Worker : WorkerInv(c)
  /\ QueueInv
  /\ TokenInv

(* The invariant behind IndicesAllocated: what the servers have allocated, *)
(* and what is under way to them, agrees with the counts the workers hold  *)
(* since the MPI_Allgather.                                                *)
HeaderSound(c, h) ==
  /\ h.op \in IndexOp => h.length < num_mutexes[h.rank]
  /\ h.op \in {"CREATE_MUTEXES", "DESTROY_MUTEXES"} => h.length = num_mutexes[c]

HeadersSound(c) ==
  \A m \in Master : \A i \in 1 .. Len(req[c][m]) : HeaderSound(c, req[c][m][i])

(* Where the server has created what c asked for, and not yet destroyed it.*)
Created(c) ==
  \/ pc[c] \in UsePoint \cup {"create_fence", "create_barrier", "destroy_send"}
  \/ pc[c] = "create_ack" /\ rep[c][MasterOf[c]] # << >>
  \/ pc[c] = "destroy_ack" /\ req[c][MasterOf[c]] # << >>

CountsAt(c) ==
  /\ pc[c] \in CreatePoint => num[c] = num_mutexes[c]
  /\ pc[c] = "destroy_send" => IsNotifier(c)
  /\ \A x \in held[c] : x[2] < num_mutexes[x[1]]
  /\ pc[c] = "lock" => cur[c][2] < num_mutexes[cur[c][1]]

AllocatedInv ==
  \A c \in Worker :
    /\ CountsAt(c) /\ HeadersSound(c)
    /\ Created(c) => allocated[c] = num_mutexes[c]

(* comex_destroy_mutexes reads num_mutexes, which is kept by ranks of      *)
(* group_list, at a world rank.  The two are the same for the rank that    *)
(* speaks for its node when all ranks below it are workers: on one node,   *)
(* whose progress ranks are its largest ones.                              *)
NotifiersFirst ==
  \A c \in Worker : IsNotifier(c) => \A r \in 0 .. (c - 1) : r \in Worker
=============================================================================
