--------------------------- MODULE ComexLifecycle ---------------------------
(***************************************************************************)
(* Start-up and shutdown of the ComEx MPI progress-rank runtime            *)
(* (comex/src-mpi-pr/comex.c and groups.c): comex_init divides the ranks   *)
(* into workers and progress ranks; comex_finalize drains what the workers *)
(* have in flight, releases the semaphores and stops the progress ranks,   *)
(* after which a job that used comex_init_comm may start again.            *)
(*                                                                         *)
(* MPI is external, as in ComexMutex: messages of one pair of ranks keep   *)
(* their order, and a collective is left in one step once all are in it.   *)
(***************************************************************************)
EXTENDS ProgressRanks, Sequences

CONSTANTS
  Layouts,  \* the environments a job may run in
  Divisions, \* larger environments, for which only the division is computed
  MaxOps,   \* bound: one-sided operations of one worker between init and finalize
  MaxInits  \* bound: how often the runtime is started

ASSUME LifecycleAssumption ==
  Layouts \subseteq Layout /\ MaxOps \in Nat /\ MaxInits \in Nat

VARIABLES
  layout,      \* the environment: set at start, never changed
  pc,          \* where each rank is
  master,      \* g_state.master
  fence_array, \* fence_array[c]: masters with messages of c nobody waited for
  req,         \* requests in flight from a rank to a rank
  rep,         \* number of replies in flight, per worker and master
  posted,      \* number of posted receives, per worker and master
  semaphores,  \* ranks whose own semaphore exists
  ops, inits   \* counters for the bounds

vars == <<layout, pc, master, fence_array, req, rep, posted, semaphores, ops, inits>>

WorkerPoint == {"user", "fence1", "barrier1", "free", "wait", "fence2", "barrier2", "notify"}
Point == {"off", "aborted", "serving", "world"} \cup WorkerPoint

Request == [op : {"ACC", "GET", "FENCE", "QUIT"}, rank : Rank]
Req(op, rank) == [op |-> op, rank |-> rank]

AllPairs(x) == [c \in Rank |-> [m \in Rank |-> x]]

Init ==
  /\ layout \in Layouts
  /\ pc = [r \in Rank |-> "off"]
  /\ master = [r \in Rank |-> r]
  /\ fence_array = [r \in Rank |-> {}]
  /\ req = AllPairs(<< >>)
  /\ rep = AllPairs(0)
  /\ posted = AllPairs(0)
  /\ semaphores = {}
  /\ ops = [r \in Rank |-> 0]
  /\ inits = 0

Goto(c, point) == pc' = [pc EXCEPT ![c] = point]

IsMaster(r) == master[r] = r
Worker == {r \in Rank : ~IsMaster(r)}  \* group_list

-----------------------------------------------------------------------------
(* _comex_init: collective up to the semaphores and, for the workers, the  *)
(* barriers at its end.  comex_error in comex_group_init aborts the job.   *)
comex_init ==
  /\ \A r \in Rank : pc[r] = "off"
  /\ inits < MaxInits
  /\ inits' = inits + 1
  /\ IF Refused(layout)
     THEN /\ pc' = [r \in Rank |-> "aborted"]
          /\ UNCHANGED <<layout, master, fence_array, req, rep, posted, semaphores, ops>>
     ELSE /\ master' = AllMasters(layout)
          /\ pc' = [r \in Rank |-> IF master'[r] = r THEN "serving" ELSE "user"]
          /\ fence_array' = [r \in Rank |-> {}]
          /\ semaphores' = Rank
          /\ ops' = [r \in Rank |-> 0]
          /\ UNCHANGED <<layout, req, rep, posted>>

(* Operations on oneself, or through shared memory, are over when they     *)
(* return; the others become messages to the target's master.              *)
ByMessage(c, t) == t # c /\ (layout.smp => master[t] # master[c])

CanIssue(c, t) ==
  /\ pc[c] = "user" /\ ops[c] < MaxOps
  /\ t \in Worker /\ ByMessage(c, t)

nb_send_header(c, m, h) == req' = [req EXCEPT ![c][m] = Append(@, h)]

(* A one-way operation; an accumulate will take the target's semaphore.    *)
nb_acc(c, t) ==
  /\ CanIssue(c, t)
  /\ fence_array' = [fence_array EXCEPT ![c] = @ \cup {master[t]}]
  /\ nb_send_header(c, master[t], Req("ACC", t))
  /\ ops' = [ops EXCEPT ![c] = @ + 1]
  /\ UNCHANGED <<layout, pc, master, rep, posted, semaphores, inits>>

(* A non-blocking get that nobody has waited for: the receive is posted,   *)
(* no fence flag is raised.                                                *)
nb_get(c, t) ==
  /\ CanIssue(c, t)
  /\ posted' = [posted EXCEPT ![c][master[t]] = @ + 1]
  /\ nb_send_header(c, master[t], Req("GET", t))
  /\ ops' = [ops EXCEPT ![c] = @ + 1]
  /\ UNCHANGED <<layout, pc, master, fence_array, rep, semaphores, inits>>

(* MPI completes the oldest posted receive.                                *)
RecvReply(c, m) ==
  /\ rep[c][m] > 0 /\ posted[c][m] > 0
  /\ rep' = [rep EXCEPT ![c][m] = @ - 1]
  /\ posted' = [posted EXCEPT ![c][m] = @ - 1]
  /\ UNCHANGED <<layout, pc, master, fence_array, req, semaphores, ops, inits>>

(* comex_fence_all at the head of comex_barrier.                           *)
comex_fence_all(c, waitPoint, donePoint) ==
  LET flagged(m, x, y) == IF m \in fence_array[c] THEN x ELSE y
  IN /\ posted' = [posted EXCEPT ![c] = [m \in Rank |-> flagged(m, @[m] + 1, @[m])]]
     /\ req' = [req EXCEPT ![c] = [m \in Rank |->
                  flagged(m, Append(@[m], Req("FENCE", c)), @[m])]]
     /\ Goto(c, IF fence_array[c] = {} THEN donePoint ELSE waitPoint)

(* The acknowledgment is the last receive posted to its master, so it is   *)
(* there when all of them are.                                             *)
FenceDone(c) ==
  /\ pc[c] \in {"fence1", "fence2"}
  /\ \A m \in fence_array[c] : posted[c][m] = 0
  /\ fence_array' = [fence_array EXCEPT ![c] = {}]
  /\ Goto(c, IF pc[c] = "fence1" THEN "barrier1" ELSE "barrier2")
  /\ UNCHANGED <<layout, master, req, rep, posted, semaphores, ops, inits>>

-----------------------------------------------------------------------------
(* comex_finalize: comex_barrier, _free_semaphore, comex_wait_all,         *)
(* comex_barrier, OP_QUIT from one rank of each group, MPI_Barrier.        *)

(* Bug variant: the semaphore goes before the first barrier.               *)
comex_finalize_frees_first(c) ==
  /\ pc[c] = "user"
  /\ comex_fence_all(c, "fence1", "barrier1")
  /\ semaphores' = semaphores \ {c}
  /\ UNCHANGED <<layout, master, fence_array, rep, ops, inits>>

comex_finalize(c) ==
  /\ pc[c] = "user"
  /\ comex_fence_all(c, "fence1", "barrier1")
  /\ UNCHANGED <<layout, master, fence_array, rep, semaphores, ops, inits>>

Barrier ==
  \E b \in {"barrier1", "barrier2"} :
    /\ Worker # {} /\ \A c \in Worker : pc[c] = b
    /\ pc' = [r \in Rank |->
                IF IsMaster(r) THEN pc[r] ELSE IF b = "barrier1" THEN "free" ELSE "notify"]
    /\ UNCHANGED <<layout, master, fence_array, req, rep, posted, semaphores, ops, inits>>

(* _free_semaphore of a worker: sem_destroy and shm_unlink of its own one. *)
free_semaphore(c) ==
  /\ pc[c] = "free"
  /\ semaphores' = semaphores \ {c}
  /\ Goto(c, "wait")
  /\ UNCHANGED <<layout, master, fence_array, req, rep, posted, ops, inits>>

(* Bug variant: the second barrier is missing.                             *)
comex_wait_all_no_barrier(c) ==
  /\ pc[c] = "wait"
  /\ \A m \in Rank : posted[c][m] = 0
  /\ Goto(c, "notify")
  /\ UNCHANGED <<layout, master, fence_array, req, rep, posted, semaphores, ops, inits>>

comex_wait_all(c) ==
  /\ pc[c] = "wait"
  /\ \A m \in Rank : posted[c][m] = 0
  /\ comex_fence_all(c, "fence2", "barrier2")
  /\ UNCHANGED <<layout, master, fence_array, rep, semaphores, ops, inits>>

Notify(c) ==
  /\ pc[c] = "notify"
  /\ IF Notifies(layout, master, c) THEN nb_send_header(c, master[c], Req("QUIT", 0)) ELSE UNCHANGED req
  /\ Goto(c, "world")
  /\ UNCHANGED <<layout, master, fence_array, rep, posted, semaphores, ops, inits>>

(* MPI_Barrier(g_state.comm), then the groups are destroyed.               *)
WorldBarrier ==
  /\ \A r \in Rank : pc[r] = "world"
  /\ pc' = [r \in Rank |-> "off"]
  /\ UNCHANGED <<layout, master, fence_array, req, rep, posted, semaphores, ops, inits>>

-----------------------------------------------------------------------------
(* _progress_server: takes the oldest request of any rank.                 *)
Pending(m, c, S) == pc[m] = "serving" /\ req[c][m] # << >> /\ Head(req[c][m]).op \in S
ProgressRecv(m, c) == req' = [req EXCEPT ![c][m] = Tail(@)]

acc_handler(m, c) ==
  /\ Pending(m, c, {"ACC"})
  /\ ProgressRecv(m, c)
  /\ UNCHANGED <<layout, pc, master, fence_array, rep, posted, semaphores, ops, inits>>

(* _get_handler and _fence_handler answer.                                 *)
ReplyHandler(m, c) ==
  /\ Pending(m, c, {"GET", "FENCE"})
  /\ ProgressRecv(m, c)
  /\ rep' = [rep EXCEPT ![c][m] = @ + 1]
  /\ UNCHANGED <<layout, pc, master, fence_array, posted, semaphores, ops, inits>>

(* OP_QUIT leaves the loop; _free_semaphore and the world barrier follow.  *)
Quit(m, c) ==
  /\ Pending(m, c, {"QUIT"})
  /\ ProgressRecv(m, c)
  /\ semaphores' = semaphores \ {m}
  /\ Goto(m, "world")
  /\ UNCHANGED <<layout, master, fence_array, rep, posted, ops, inits>>

progress_server(m, c) == acc_handler(m, c) \/ ReplyHandler(m, c) \/ Quit(m, c)

(* The job is over, by a call of exit or an abort.                         *)
Stopped ==
  /\ \A r \in Rank : pc[r] = "aborted" \/ (pc[r] = "off" /\ inits = MaxInits)
  /\ UNCHANGED vars

(* What a worker does by itself on its way out of comex_finalize.          *)
FinalizeStep(c) == FenceDone(c) \/ free_semaphore(c) \/ comex_wait_all(c) \/ Notify(c)

Next ==
  \/ comex_init \/ Barrier \/ WorldBarrier \/ Stopped
  \/ \E c \in Rank : comex_finalize(c) \/ FinalizeStep(c)
  \/ \E c, t \in Rank : nb_acc(c, t) \/ nb_get(c, t)
  \/ \E c, m \in Rank : RecvReply(c, m) \/ progress_server(m, c)

Spec == Init /\ [][Next]_vars

(* A progress rank takes every message that stays in its queue, MPI        *)
(* delivers, and a worker in comex_finalize keeps going; nobody is forced  *)
(* to start, to communicate or to finalize.                                *)
Fairness ==
  /\ WF_vars(Barrier) /\ WF_vars(WorldBarrier)
  /\ \A c \in Rank : WF_vars(FinalizeStep(c))
  /\ \A c, m \in Rank : WF_vars(RecvReply(c, m)) /\ WF_vars(progress_server(m, c))

FairSpec == Spec /\ Fairness

-----------------------------------------------------------------------------
TypeOK ==
  /\ layout \in Layouts
  /\ pc \in [Rank -> Point]
  /\ master \in [Rank -> Rank]
  /\ fence_array \in [Rank -> SUBSET Rank]
  /\ \A c, m \in Rank : \A i \in DOMAIN req[c][m] : req[c][m][i] \in Request
  /\ \A c, m \in Rank : rep[c][m] \in 0 .. posted[c][m]
  /\ \A c, m \in Rank : posted[c][m] \in 0 .. (MaxOps + 1)
  /\ semaphores \subseteq Rank
  /\ ops \in [Rank -> 0 .. MaxOps]
  /\ inits \in 0 .. MaxInits

(* Once a progress rank has left its loop, nothing is on its way to it or  *)
(* from it and nobody waits for it: OP_QUIT is the last message, and there *)
(* is one.  A later message would be lost with the communicator, or wait   *)
(* for a reply that never comes.                                           *)
QuitIsLast ==
  \A m \in Rank : IsMaster(m) /\ pc[m] # "serving" =>
    \A c \in Rank : req[c][m] = << >> /\ rep[c][m] = 0 /\ posted[c][m] = 0

(* An accumulate that still has to be applied finds the semaphore of its   *)
(* target and the handle its progress rank has for it: no rank destroys    *)
(* its semaphore while _acc_handler may wait on it.                        *)
SemaphoresOutliveAccs ==
  \A c, m \in Rank : \A i \in DOMAIN req[c][m] :
    req[c][m][i].op = "ACC" => {req[c][m][i].rank, m} \subseteq semaphores

LargerJobsServed == \A l \in Divisions : Refused(l) \/ ServesNodes(l, AllMasters(l))

(* comex_group_init either refuses an environment or divides its ranks so  *)
(* that each node is served by its own progress ranks and shutdown reaches *)
(* each of them once: "The progress rank is the largest rank on each       *)
(* compute node" (comex/src-mpi-pr/NOTES.md:68).  Said of a job as it      *)
(* starts and, before that, of the larger environments.                    *)
MastersServeTheirNode ==
  /\ (\A r \in Rank : pc[r] \in {"serving", "user"}) => ServesNodes(layout, master)
  /\ inits = 0 => LargerJobsServed

(* When every worker is in comex_finalize, all of them return from it and  *)
(* every progress rank stops.                                              *)
FinalizeReturns ==
  (\A r \in Rank : pc[r] \notin {"off", "aborted", "user"})
    ~> (\A r \in Rank : pc[r] = "off")

(* The environments the theorems are about: consecutive ranks share a node,*)
(* and a single CYCLIC progress rank per node is not the largest one when  *)
(* there is a second node.                                                 *)
OrderlyLayouts == \A l \in Layouts : Contiguous(Size, l) /\ Workable(Size, l)
OrderlyDivisions ==
  \A l \in Divisions :
    \E n \in Nat \ {0} : l \in Environment(n) /\ Contiguous(n, l) /\ Workable(n, l)
=============================================================================
