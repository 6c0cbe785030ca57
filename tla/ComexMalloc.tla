---------------------------- MODULE ComexMalloc ----------------------------
(***************************************************************************)
(* Collective allocation in the ComEx MPI progress-rank runtime            *)
(* (comex/src-mpi-pr/comex.c and reg_cache.c): comex_malloc and comex_free *)
(* keep the registration caches of the workers and of the progress ranks   *)
(* in step with the shared memory the workers own, while puts to that      *)
(* memory are in flight.                                                   *)
(*                                                                         *)
(* A segment is one address of its owner: the caches are searched by       *)
(* containment, and segments of one process never overlap while mapped.    *)
(* An address is used again after it was freed.  MPI is external, as in    *)
(* ComexMutex; a collective is left in one step once all members are in.   *)
(***************************************************************************)
EXTENDS ProgressRanks, Sequences

CONSTANTS
  Jobs,   \* environments, each with the collective calls the program makes
          \* and, as a bound, the number of puts of all workers together
  Address \* where segments may be mapped

NULL == 0
Call == [op : {"malloc", "free"}, group : SUBSET Rank, of : Nat]

ASSUME MallocAssumption ==
  /\ Address \subseteq Nat \ {NULL}
  /\ \A j \in Jobs : /\ j.layout \in Layout /\ ~Refused(j.layout) /\ j.puts \in Nat
                     /\ j.program \in Seq(Call)

VARIABLES
  layout, program, \* the job: never changed
  master,      \* g_state.master, set by comex_group_init
  pc,          \* where each worker is
  step,        \* the call a worker is in, or makes next
  ptrs,        \* ptrs[k][c]: the segment of c in the k-th call, a comex_malloc
  reg_cache,   \* segments <<rank, address>> registered at each rank
  fence_array, \* fence_array[c]: masters with puts of c nobody waited for
  req,         \* requests in flight from a worker to a master
  rep,         \* number of acknowledgments in flight to a worker
  puts         \* puts left of the bound

vars == <<layout, program, master, pc, step, ptrs, reg_cache, fence_array, req, rep, puts>>

Master == {r \in Rank : master[r] = r}
Worker == Rank \ Master

(* The first call from the k-th on that c takes part in.                   *)
NextCall(c, k) ==
  LET mine == {j \in k .. Len(program) : c \in program[j].group}
  IN IF mine = {} THEN Len(program) + 1 ELSE CHOOSE j \in mine : \A i \in mine : j <= i

Init ==
  /\ \E j \in Jobs : layout = j.layout /\ program = j.program /\ puts = j.puts
  /\ master = AllMasters(layout)
  /\ pc = [r \in Rank |-> "user"]
  /\ step = [r \in Rank |-> NextCall(r, 1)]
  /\ ptrs = [k \in DOMAIN program |-> [r \in Rank |-> NULL]]
  /\ reg_cache = [r \in Rank |-> {}]
  /\ fence_array = [r \in Rank |-> {}]
  /\ req = [c \in Rank |-> [m \in Rank |-> << >>]]
  /\ rep = [c \in Rank |-> [m \in Rank |-> 0]]

Goto(c, point) == pc' = [pc EXCEPT ![c] = point]
InCall(c) == program[step[c]]
In(c, point, op) == pc[c] = point /\ InCall(c).op = op

Header(op, entries) == [op |-> op, entries |-> entries]
nb_send_header(c, m, h) == req' = [req EXCEPT ![c][m] = Append(@, h)]

-----------------------------------------------------------------------------
(* Worker side.                                                            *)

(* Worker c has segment k: it returned from comex_malloc and did not call  *)
(* comex_free.                                                             *)
Holds(c, k) ==
  /\ program[k].op = "malloc" /\ c \in program[k].group /\ k < step[c]
  /\ \A j \in DOMAIN program :
       (program[j].op = "free" /\ program[j].of = k) =>
         step[c] < j \/ (step[c] = j /\ pc[c] = "user")

ByMessage(c, t) == t # c /\ (layout.smp => master[t] # master[c])

nb_put(c, k, t) ==
  /\ pc[c] = "user" /\ puts > 0
  /\ Holds(c, k) /\ t \in program[k].group /\ ptrs[k][t] # NULL
  /\ ByMessage(c, t)
  /\ puts' = puts - 1
  /\ fence_array' = [fence_array EXCEPT ![c] = @ \cup {master[t]}]
  /\ nb_send_header(c, master[t], Header("PUT", {<<t, ptrs[k][t]>>}))
  /\ UNCHANGED <<layout, program, master, pc, step, ptrs, reg_cache, rep>>

(* Bug variant: no fence before the first barrier.                         *)
CallCollective_unfenced(c) ==
  /\ pc[c] = "user" /\ step[c] \in DOMAIN program
  /\ Goto(c, "barrier")
  /\ UNCHANGED <<layout, program, master, step, ptrs, reg_cache, fence_array, req, rep, puts>>

(* comex_malloc or comex_free is called: comex_fence_all, then MPI_Barrier.*)
CallCollective(c) ==
  /\ pc[c] = "user" /\ step[c] \in DOMAIN program
  /\ req' = [req EXCEPT ![c] = [m \in Rank |->
               IF m \in fence_array[c] THEN Append(@[m], Header("FENCE", {})) ELSE @[m]]]
  /\ Goto(c, "fence")
  /\ UNCHANGED <<layout, program, master, step, ptrs, reg_cache, fence_array, rep, puts>>

FenceDone(c) ==
  /\ pc[c] = "fence"
  /\ \A m \in fence_array[c] : rep[c][m] > 0
  /\ rep' = [rep EXCEPT ![c] = [m \in Rank |-> 0]]
  /\ fence_array' = [fence_array EXCEPT ![c] = {}]
  /\ Goto(c, "barrier")
  /\ UNCHANGED <<layout, program, master, step, ptrs, reg_cache, req, puts>>

(* The members of the k-th call leave a collective they are all in.        *)
Leave(k, point, next) ==
  /\ \A c \in program[k].group : step[c] = k /\ pc[c] = point
  /\ pc' = [c \in Rank |-> IF c \in program[k].group THEN next ELSE pc[c]]

FirstBarrier(k) ==
  /\ Leave(k, "barrier", IF program[k].op = "malloc" THEN "allocate" ELSE "gather")
  /\ UNCHANGED <<layout, program, master, step, ptrs, reg_cache, fence_array, req, rep, puts>>

(* _comex_malloc_local: the system maps a segment where the process has    *)
(* none; a member that asks for 0 bytes gets none.                         *)
comex_malloc_local(c) ==
  /\ In(c, "allocate", "malloc")
  /\ \E a \in Address \cup {NULL} :
       /\ <<c, a>> \notin reg_cache[c]
       /\ ptrs' = [ptrs EXCEPT ![step[c]][c] = a]
       /\ reg_cache' = IF a = NULL THEN reg_cache
                       ELSE [reg_cache EXCEPT ![c] = @ \cup {<<c, a>>}]
  /\ Goto(c, "gather")
  /\ UNCHANGED <<layout, program, master, step, fence_array, req, rep, puts>>

MPI_Allgather(k) ==
  /\ Leave(k, "gather", "update")
  /\ UNCHANGED <<layout, program, master, step, ptrs, reg_cache, fence_array, req, rep, puts>>

(* The member that speaks to the progress rank for c.                      *)
Notifier(c) ==
  LET S == InCall(c).group
  IN get_my_master_rank_with_same_hostid(layout, c, SplitGroupSize(layout, c),
       SmallestOn(layout, S, c), LargestOn(layout, S, c))

(* Segments of the call: of the k-th one if it is a comex_malloc, of the   *)
(* comex_malloc it undoes otherwise.                                       *)
Segment(c) == LET k == IF InCall(c).op = "malloc" THEN step[c] ELSE InCall(c).of
              IN [t \in InCall(c).group |-> ptrs[k][t]]

(* The other members' segments that c maps, and unmaps: those whose master *)
(* is that of c's notifier.                                                *)
Mapped(c) ==
  {<<t, Segment(c)[t]>> : t \in {t \in InCall(c).group \ {c} :
      Segment(c)[t] # NULL /\ master[t] = master[Notifier(c)]}}

(* The own segment goes to the progress rank too; comex_free sends it even *)
(* when there is none.                                                     *)
Own(c) ==
  {s \in {<<c, Segment(c)[c]>>} : InCall(c).op = "malloc" => s[2] # NULL}

(* What follows the loop over the members: the notifier sends its list and *)
(* waits, the others go on.                                                *)
Notify(c, op, next) ==
  IF Notifier(c) = c
  THEN nb_send_header(c, master[c], Header(op, Mapped(c) \cup Own(c))) /\ Goto(c, "ack")
  ELSE Goto(c, next) /\ UNCHANGED req

Register(c) ==
  /\ In(c, "update", "malloc")
  /\ reg_cache' = [reg_cache EXCEPT ![c] = @ \cup Mapped(c)]
  /\ Notify(c, "MALLOC", "end")
  /\ UNCHANGED <<layout, program, master, step, ptrs, fence_array, rep, puts>>

Unregister(c) ==
  /\ In(c, "update", "free")
  /\ reg_cache' = [reg_cache EXCEPT ![c] = @ \ Mapped(c)]
  /\ Notify(c, "FREE", "local")
  /\ UNCHANGED <<layout, program, master, step, ptrs, fence_array, rep, puts>>

Acknowledged(c) ==
  /\ pc[c] = "ack" /\ rep[c][master[c]] > 0
  /\ rep' = [rep EXCEPT ![c][master[c]] = @ - 1]
  /\ Goto(c, IF InCall(c).op = "malloc" THEN "end" ELSE "local")
  /\ UNCHANGED <<layout, program, master, step, ptrs, reg_cache, fence_array, req, puts>>

(* comex_free_local; nothing is found for a NULL pointer.                  *)
comex_free_local(c) ==
  /\ pc[c] = "local"
  /\ reg_cache' = [reg_cache EXCEPT ![c] = @ \ Own(c)]
  /\ Goto(c, "end")
  /\ UNCHANGED <<layout, program, master, step, ptrs, fence_array, req, rep, puts>>

(* Bug variant: comex_free returns without the last barrier.               *)
LastBarrier_none(k) ==
  \E S \in SUBSET program[k].group :
    /\ S # {} /\ (program[k].op = "malloc" => S = program[k].group)
    /\ \A c \in S : step[c] = k /\ pc[c] = "end"
    /\ pc' = [c \in Rank |-> IF c \in S THEN "user" ELSE pc[c]]
    /\ step' = [c \in Rank |-> IF c \in S THEN NextCall(c, k + 1) ELSE step[c]]
    /\ UNCHANGED <<layout, program, master, ptrs, reg_cache, fence_array, req, rep, puts>>

(* The barrier that both end with: nothing is left to fence.  "Is this     *)
(* needed?", comex_free asks: NoStaleMapping depends on it.                *)
LastBarrier(k) ==
  /\ Leave(k, "end", "user")
  /\ step' = [c \in Rank |-> IF c \in program[k].group THEN NextCall(c, k + 1) ELSE step[c]]
  /\ UNCHANGED <<layout, program, master, ptrs, reg_cache, fence_array, req, rep, puts>>

-----------------------------------------------------------------------------
(* Server side.                                                            *)

Pending(m, c, op) == req[c][m] # << >> /\ Head(req[c][m]).op = op
TakeFrom(m, c) == req' = [req EXCEPT ![c][m] = Tail(@)]
server_send(m, c) == rep' = [rep EXCEPT ![c][m] = @ + 1]

(* The entries of a request that exist and are of the progress rank's node.*)
Entries(m, c) ==
  {s \in Head(req[c][m]).entries : s[2] # NULL /\ layout.host[s[1]] = layout.host[m]}

put_handler(m, c) ==
  /\ Pending(m, c, "PUT")
  /\ TakeFrom(m, c)
  /\ UNCHANGED <<layout, program, master, pc, step, ptrs, reg_cache, fence_array, rep, puts>>

fence_handler(m, c) ==
  /\ Pending(m, c, "FENCE")
  /\ TakeFrom(m, c)
  /\ server_send(m, c)
  /\ UNCHANGED <<layout, program, master, pc, step, ptrs, reg_cache, fence_array, puts>>

(* Bug variant: the acknowledgment is sent in the loop.                    *)
malloc_handler_acks_each(m, c) ==
  /\ Pending(m, c, "MALLOC")
  /\ TakeFrom(m, c)
  /\ reg_cache' = [reg_cache EXCEPT ![m] = @ \cup Entries(m, c)]
  /\ rep' = [rep EXCEPT ![c][m] = @ + Cardinality(Entries(m, c))]
  /\ UNCHANGED <<layout, program, master, pc, step, ptrs, fence_array, puts>>

malloc_handler(m, c) ==
  /\ Pending(m, c, "MALLOC")
  /\ TakeFrom(m, c)
  /\ reg_cache' = [reg_cache EXCEPT ![m] = @ \cup Entries(m, c)]
  /\ server_send(m, c)
  /\ UNCHANGED <<layout, program, master, pc, step, ptrs, fence_array, puts>>

free_handler(m, c) ==
  /\ Pending(m, c, "FREE")
  /\ TakeFrom(m, c)
  /\ reg_cache' = [reg_cache EXCEPT ![m] = @ \ Entries(m, c)]
  /\ server_send(m, c)
  /\ UNCHANGED <<layout, program, master, pc, step, ptrs, fence_array, puts>>

progress_server(m, c) ==
  put_handler(m, c) \/ fence_handler(m, c) \/ malloc_handler(m, c) \/ free_handler(m, c)

-----------------------------------------------------------------------------
(* The program has made all its calls.                                     *)
Ended ==
  /\ \A c \in Worker : pc[c] = "user" /\ step[c] > Len(program)
  /\ UNCHANGED vars

WorkerStep(c) ==
  \/ CallCollective(c) \/ FenceDone(c) \/ comex_malloc_local(c) \/ Register(c)
  \/ Unregister(c) \/ Acknowledged(c) \/ comex_free_local(c)

Next ==
  \/ Ended
  \/ \E c \in Worker : WorkerStep(c)
  \/ \E c, t \in Worker, k \in DOMAIN program : nb_put(c, k, t)
  \/ \E k \in DOMAIN program : FirstBarrier(k) \/ MPI_Allgather(k) \/ LastBarrier(k)
  \/ \E m \in Master, c \in Worker : progress_server(m, c)

Spec == Init /\ [][Next]_vars

-----------------------------------------------------------------------------
Point == {"user", "fence", "barrier", "allocate", "gather", "update", "ack", "local", "end"}

TypeOK ==
  /\ pc \in [Rank -> Point]
  /\ step \in [Rank -> 1 .. (Len(program) + 1)]
  /\ \A c \in Rank : pc[c] # "user" => c \in Worker /\ step[c] \in DOMAIN program
  /\ ptrs \in [DOMAIN program -> [Rank -> Address \cup {NULL}]]
  /\ reg_cache \in [Rank -> SUBSET (Worker \X Address)]
  /\ fence_array \in [Rank -> SUBSET Master]
  /\ \A c, m \in Rank : rep[c][m] \in 0 .. 1
  /\ puts \in Nat

(* What comex_malloc is for: while a member holds an allocation, every     *)
(* member's segment is registered with that member's progress rank, which  *)
(* serves the messages for it, and with all workers that reach it through  *)
(* shared memory.                                                          *)
RegistrationComplete ==
  \A c \in Worker, k \in DOMAIN program : Holds(c, k) =>
    \A t \in program[k].group : ptrs[k][t] # NULL =>
      /\ <<t, ptrs[k][t]>> \in reg_cache[master[t]]
      /\ master[t] = master[c] => <<t, ptrs[k][t]>> \in reg_cache[c]

(* The COMEX_ASSERT(reg_entry) of _put_handler: no put finds its target    *)
(* unregistered, however late the progress rank takes it.                  *)
PutFindsRegistration ==
  \A m \in Master, c \in Worker :
    Pending(m, c, "PUT") => Head(req[c][m]).entries \subseteq reg_cache[m]

(* The assertions of reg_cache_insert, in _malloc_handler and in the       *)
(* workers: an address that is handed out again is registered nowhere.     *)
InsertFindsNoOverlap ==
  /\ \A c \in Worker : In(c, "update", "malloc") => Mapped(c) \cap reg_cache[c] = {}
  /\ \A m \in Master, c \in Worker :
       Pending(m, c, "MALLOC") => Entries(m, c) \cap reg_cache[m] = {}

(* The assertions of comex_free, comex_free_local and _free_handler: what  *)
(* is to be unmapped is registered.                                        *)
FreeFindsRegistration ==
  /\ \A c \in Worker : In(c, "update", "free") => Mapped(c) \subseteq reg_cache[c]
  /\ \A c \in Worker : pc[c] = "local" => \A s \in Own(c) : s[2] # NULL => s \in reg_cache[c]
  /\ \A m \in Master, c \in Worker :
       Pending(m, c, "FREE") => Entries(m, c) \subseteq reg_cache[m]

(* A worker outside a collective owns every segment that anyone has mapped *)
(* of it: nobody keeps a mapping of memory that was given back.            *)
NoStaleMapping ==
  \A t \in Worker, r \in Rank : pc[t] = "user" =>
    \A s \in reg_cache[r] : s[1] = t => s \in reg_cache[t]

(* The registration caches of all ranks follow the life of a segment: it   *)
(* is known where it must be, once, until it is given back, and then       *)
(* nowhere.                                                                *)
RegistrationSound ==
  RegistrationComplete /\ InsertFindsNoOverlap /\ FreeFindsRegistration /\ NoStaleMapping

(***************************************************************************)
(* What the theorems ask of a job.                                         *)
(***************************************************************************)

(* The rank that speaks to the progress rank for member c of group S.      *)
NotifierIn(l, S, c) ==
  get_my_master_rank_with_same_hostid(l, c, SplitGroupSize(l, c),
    SmallestOn(l, S, c), LargestOn(l, S, c))

(* The program frees what it has allocated, with the group it was          *)
(* allocated with, and once; groups are made of workers.                   *)
WellFormed(j) ==
  LET p == j.program IN
  /\ \A k \in DOMAIN p : \A c \in p[k].group : AllMasters(j.layout)[c] # c
  /\ \A k \in DOMAIN p : p[k].op = "free" =>
       /\ p[k].of \in 1 .. (k - 1)
       /\ p[p[k].of].op = "malloc" /\ p[p[k].of].group = p[k].group
       /\ \A i \in DOMAIN p : p[i].op = "free" /\ p[i].of = p[k].of => i = k

(* Members of a group with one progress rank have one member that speaks   *)
(* for them, and it speaks to that progress rank.                          *)
SpokenFor(j) ==
  LET M == AllMasters(j.layout) IN
  \A k \in DOMAIN j.program :
    LET S == j.program[k].group IN
    \A c \in S :
      /\ NotifierIn(j.layout, S, c) \in S
      /\ M[NotifierIn(j.layout, S, c)] = M[c]
      /\ \A d \in S : M[d] = M[c] => NotifierIn(j.layout, S, d) = NotifierIn(j.layout, S, c)

(* Every rank is served by a progress rank of its node.                    *)
Served(j) ==
  LET M == AllMasters(j.layout) IN
  \A r \in Rank : M[M[r]] = M[r] /\ j.layout.host[M[r]] = j.layout.host[r]

JobsServed == \A j \in Jobs : WellFormed(j) /\ SpokenFor(j) /\ Served(j)
=============================================================================
