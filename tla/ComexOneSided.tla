--------------------------- MODULE ComexOneSided ---------------------------
(***************************************************************************)
(* The one-sided operations of the ComEx MPI progress-rank runtime         *)
(* (comex/src-mpi-pr/comex.c): put, get, accumulate, fetch-and-add and     *)
(* swap, through messages to the target's progress rank or directly in     *)
(* shared memory, with the fences that keep the two in step.               *)
(*                                                                         *)
(* Every worker exposes one location, of Length bytes.  A transfer is one  *)
(* value however many chunks carry it: what a reader sees of a transfer in *)
(* progress is not modelled.  Strided and I/O-vector operations take the   *)
(* same paths.  MPI is external, as in ComexMutex: messages between two    *)
(* ranks keep their order and match posted receives in order.              *)
(***************************************************************************)
EXTENDS Integers, Sequences, FiniteSets, SequencesExt

CONSTANTS
  Worker, Master,   \* world ranks
  MasterOf,         \* g_state.master
  Allowed,          \* operations the program uses on a worker's location
  Length,           \* bytes of an operation on a worker's location
  Shortcut,         \* COMEX_ENABLE_<op>_SELF and COMEX_ENABLE_<op>_SMP
  HeaderSize,       \* sizeof(header_t)
  ScaleSize,        \* size of the scale of an accumulate
  eager_threshold, max_message_size,
  Value,            \* what a put or a swap writes
  MaxOps            \* bound: operations of each worker

NoRank == -1
Written == {"PUT", "ACC"}
Fetched == {"GET", "FETCH_AND_ADD", "SWAP"}

(* The program keeps puts, accumulates and read-modify-writes of a         *)
(* location apart: they exclude only their own kind.                       *)
ASSUME OneSidedAssumption ==
  /\ Worker \subseteq Nat /\ Master \subseteq Nat /\ Worker \cap Master = {}
  /\ MasterOf \in [Worker -> Master]
  /\ Allowed \in [Worker -> (SUBSET {"PUT", "GET"}) \cup (SUBSET {"ACC", "GET"})
                           \cup (SUBSET {"FETCH_AND_ADD", "SWAP", "GET"})]
  /\ Length \in [Worker -> Nat \ {0}]
  /\ Shortcut \subseteq {"PUT", "GET", "ACC"} \X {"SELF", "SMP"}
  /\ HeaderSize \in Nat /\ ScaleSize \in Nat /\ eager_threshold \in Int
  /\ max_message_size \in Nat \ {0} /\ Value \subseteq Nat /\ MaxOps \in [Worker -> Nat]

VARIABLES
  pc,          \* where each worker is
  todo,        \* the shortcut operation a worker is in
  tmp,         \* the value an accumulate has read, per process
  buf,         \* the last value a worker fetched, and where from
  fence_array, \* fence_array[c]: masters with messages of c nobody waited for
  req,         \* messages in flight from a worker to a master
  rep,         \* messages in flight from a master to a worker
  posted,      \* receives a worker has posted for messages of a master
  serving,     \* the request a master is in the middle of
  mem,         \* the location of each worker, in shared memory
  semaphores,  \* rank that holds the semaphore of a worker, or NoRank
  round,       \* parity of the number of barriers
  ops          \* counter for the bound

vars == <<pc, todo, tmp, buf, fence_array, req, rep, posted, serving, mem,
          semaphores, round, ops>>

Message(op, rank, val) == [op |-> op, rank |-> rank, val |-> val]
NoOp == Message("NONE", NoRank, 0)
Idle == [src |-> NoRank, msg |-> NoOp, left |-> 0]
NoAnswer == <<NoRank, 0>>

Init ==
  /\ pc = [c \in Worker |-> "ready"]
  /\ todo = [c \in Worker |-> NoOp]
  /\ tmp = [r \in Worker \cup Master |-> 0]
  /\ buf = [c \in Worker |-> NoAnswer]
  /\ fence_array = [c \in Worker |-> {}]
  /\ req = [c \in Worker |-> [m \in Master |-> << >>]]
  /\ rep = [c \in Worker |-> [m \in Master |-> << >>]]
  /\ posted = [c \in Worker |-> [m \in Master |-> << >>]]
  /\ serving = [m \in Master |-> Idle]
  /\ mem = [c \in Worker |-> 0]
  /\ semaphores = [c \in Worker |-> NoRank]
  /\ round = 0
  /\ ops = [c \in Worker |-> 0]

Goto(c, point) == pc' = [pc EXCEPT ![c] = point]

(* Bug variant: the boundary belongs to the eager messages.                *)
eager_check_le(extra_bytes) == HeaderSize + extra_bytes <= eager_threshold

eager_check(extra_bytes) == HeaderSize + extra_bytes < eager_threshold

Chunks(bytes) == (bytes + max_message_size - 1) \div max_message_size

Extra(op) == IF op = "ACC" THEN ScaleSize ELSE 0

(* Header and payload in one message, or followed by chunks of payload.    *)
PayloadMessages(h) ==
  IF eager_check(Extra(h.op) + Length[h.rank])
  THEN <<h>>
  ELSE <<h>> \o [i \in 1 .. Chunks(Length[h.rank]) |-> Message("DATA", h.rank, h.val)]

nb_send(c, m, msgs) == req' = [req EXCEPT ![c][m] = @ \o msgs]

(* A posted receive; the last one of an operation completes it.            *)
Receive(op, rank, last) == [op |-> op, rank |-> rank, last |-> last]
nb_recv(c, m, recvs) == posted' = [posted EXCEPT ![c][m] = @ \o recvs]

-----------------------------------------------------------------------------
(* Worker side.                                                            *)

(* The shortcuts: memcpy on oneself or through the shared memory of ranks  *)
(* with the same master.                                                   *)
Direct(c, op, t) ==
  \/ <<op, "SELF">> \in Shortcut /\ t = c
  \/ <<op, "SMP">> \in Shortcut /\ MasterOf[t] = MasterOf[c]

CanCall(c, op, t) ==
  /\ pc[c] = "ready" /\ ops[c] < MaxOps[c] /\ op \in Allowed[t]
  /\ ops' = [ops EXCEPT ![c] = @ + 1]

(* What an operation carries: a put or a swap any value, an accumulate or  *)
(* a fetch-and-add the increment 1.                                        *)
Carried(op) ==
  CASE op \in {"PUT", "SWAP"} -> Value
    [] op \in {"ACC", "FETCH_AND_ADD"} -> {1}
    [] OTHER -> {0}

(* Bug variant: the shortcut does not wait for the own messages.           *)
CallDirect_unfenced(c, op, t) ==
  /\ CanCall(c, op, t) /\ Direct(c, op, t)
  /\ \E v \in Carried(op) : todo' = [todo EXCEPT ![c] = Message(op, t, v)]
  /\ Goto(c, "direct")
  /\ UNCHANGED <<tmp, buf, fence_array, req, rep, posted, serving, mem, semaphores, round>>

(* nb_put, nb_get and nb_acc on a shortcut: messages of the caller to that *)
(* master are waited for with _fence_master first.                         *)
CallDirect(c, op, t) ==
  /\ CanCall(c, op, t) /\ Direct(c, op, t)
  /\ \E v \in Carried(op) : todo' = [todo EXCEPT ![c] = Message(op, t, v)]
  /\ IF MasterOf[t] \in fence_array[c]
     THEN /\ nb_recv(c, MasterOf[t], <<Receive("FENCE", c, TRUE)>>)
          /\ nb_send(c, MasterOf[t], <<Message("FENCE", c, 0)>>)
          /\ Goto(c, "fence_master")
     ELSE Goto(c, "direct") /\ UNCHANGED <<req, posted>>
  /\ UNCHANGED <<tmp, buf, fence_array, rep, serving, mem, semaphores, round>>

(* Bug variant: the caller returns without doing what it fenced for.       *)
FenceMasterDone_returns(c) ==
  /\ pc[c] = "fence_master"
  /\ posted[c][MasterOf[todo[c].rank]] = << >>
  /\ fence_array' = [fence_array EXCEPT ![c] = @ \ {MasterOf[todo[c].rank]}]
  /\ Goto(c, "ready")
  /\ UNCHANGED <<todo, tmp, buf, req, rep, posted, serving, mem, semaphores, round, ops>>

FenceMasterDone(c) ==
  /\ pc[c] = "fence_master"
  /\ posted[c][MasterOf[todo[c].rank]] = << >>
  /\ fence_array' = [fence_array EXCEPT ![c] = @ \ {MasterOf[todo[c].rank]}]
  /\ Goto(c, "direct")
  /\ UNCHANGED <<todo, tmp, buf, req, rep, posted, serving, mem, semaphores, round, ops>>

DirectDone(c) == Goto(c, "ready") /\ todo' = [todo EXCEPT ![c] = NoOp]

DirectPut(c) ==
  /\ pc[c] = "direct" /\ todo[c].op = "PUT"
  /\ mem' = [mem EXCEPT ![todo[c].rank] = todo[c].val]
  /\ DirectDone(c)
  /\ UNCHANGED <<tmp, buf, fence_array, req, rep, posted, serving, semaphores, round, ops>>

DirectGet(c) ==
  /\ pc[c] = "direct" /\ todo[c].op = "GET"
  /\ buf' = [buf EXCEPT ![c] = <<todo[c].rank, mem[todo[c].rank]>>]
  /\ DirectDone(c)
  /\ UNCHANGED <<tmp, fence_array, req, rep, posted, serving, mem, semaphores, round, ops>>

(* _acc between sem_wait and sem_post, by any process p: it reads the      *)
(* location and, in a later step, writes it.                               *)
AccRead(p, t) ==
  /\ semaphores[t] = NoRank
  /\ semaphores' = [semaphores EXCEPT ![t] = p]
  /\ tmp' = [tmp EXCEPT ![p] = mem[t]]

AccWrite(p, t, v) ==
  /\ mem' = [mem EXCEPT ![t] = tmp[p] + v]
  /\ semaphores' = [semaphores EXCEPT ![t] = NoRank]
  /\ tmp' = [tmp EXCEPT ![p] = 0]

DirectAccRead(c) ==
  /\ pc[c] = "direct" /\ todo[c].op = "ACC"
  /\ AccRead(c, todo[c].rank)
  /\ Goto(c, "acc")
  /\ UNCHANGED <<todo, buf, fence_array, req, rep, posted, serving, mem, round, ops>>

DirectAccWrite(c) ==
  /\ pc[c] = "acc"
  /\ AccWrite(c, todo[c].rank, todo[c].val)
  /\ DirectDone(c)
  /\ UNCHANGED <<buf, fence_array, req, rep, posted, serving, round, ops>>

(* Bug variant: the message is not counted for the next fence.             *)
CallWrite_unflagged(c, op, t) ==
  /\ CanCall(c, op, t) /\ op \in Written /\ ~Direct(c, op, t)
  /\ \E v \in Carried(op) : nb_send(c, MasterOf[t], PayloadMessages(Message(op, t, v)))
  /\ UNCHANGED <<pc, todo, tmp, buf, fence_array, rep, posted, serving, mem, semaphores, round>>

(* nb_put and nb_acc by messages: over when the messages have left.        *)
CallWrite(c, op, t) ==
  /\ CanCall(c, op, t) /\ op \in Written /\ ~Direct(c, op, t)
  /\ fence_array' = [fence_array EXCEPT ![c] = @ \cup {MasterOf[t]}]
  /\ \E v \in Carried(op) : nb_send(c, MasterOf[t], PayloadMessages(Message(op, t, v)))
  /\ UNCHANGED <<pc, todo, tmp, buf, rep, posted, serving, mem, semaphores, round>>

(* nb_get by message: all receives are posted first.  Whether the caller   *)
(* waits makes no difference here.                                         *)
CallGet(c, t) ==
  /\ CanCall(c, "GET", t) /\ ~Direct(c, "GET", t)
  /\ LET n == Chunks(Length[t])
     IN nb_recv(c, MasterOf[t], [i \in 1 .. n |-> Receive("GET", t, i = n)])
  /\ nb_send(c, MasterOf[t], <<Message("GET", t, 0)>>)
  /\ UNCHANGED <<pc, todo, tmp, buf, fence_array, rep, serving, mem, semaphores, round>>

(* comex_rmw always asks the master, and waits.                            *)
comex_rmw(c, op, t) ==
  /\ CanCall(c, op, t) /\ op \in {"FETCH_AND_ADD", "SWAP"}
  /\ nb_recv(c, MasterOf[t], <<Receive(op, t, TRUE)>>)
  /\ \E v \in Carried(op) : nb_send(c, MasterOf[t], <<Message(op, t, v)>>)
  /\ todo' = [todo EXCEPT ![c] = Message(op, t, 0)]
  /\ Goto(c, "rmw")
  /\ UNCHANGED <<tmp, buf, fence_array, rep, serving, mem, semaphores, round>>

RmwDone(c) ==
  /\ pc[c] = "rmw" /\ posted[c][MasterOf[todo[c].rank]] = << >>
  /\ DirectDone(c)
  /\ UNCHANGED <<tmp, buf, fence_array, req, rep, posted, serving, mem, semaphores, round, ops>>

(* MPI completes the oldest receive; the last one of an operation fills    *)
(* the caller's buffer.                                                    *)
RecvReply(c, m) ==
  /\ rep[c][m] # << >> /\ posted[c][m] # << >>
  /\ rep' = [rep EXCEPT ![c][m] = Tail(@)]
  /\ posted' = [posted EXCEPT ![c][m] = Tail(@)]
  /\ LET r == Head(posted[c][m])
     IN buf' = IF r.op \in Fetched /\ r.last
               THEN [buf EXCEPT ![c] = <<r.rank, Head(rep[c][m]).val>>] ELSE buf
  /\ UNCHANGED <<pc, todo, tmp, fence_array, req, serving, mem, semaphores, round, ops>>

(* comex_fence_all, alone or at the head of comex_barrier.                 *)
FenceAll(c, waitPoint, donePoint) ==
  LET flagged(m, x, y) == IF m \in fence_array[c] THEN x ELSE y
  IN /\ posted' = [posted EXCEPT ![c] = [m \in Master |->
                     flagged(m, Append(@[m], Receive("FENCE", c, TRUE)), @[m])]]
     /\ req' = [req EXCEPT ![c] = [m \in Master |->
                  flagged(m, Append(@[m], Message("FENCE", c, 0)), @[m])]]
     /\ Goto(c, IF fence_array[c] = {} THEN donePoint ELSE waitPoint)

comex_fence_all(c) ==
  /\ pc[c] = "ready" /\ fence_array[c] # {}
  /\ FenceAll(c, "fence_all", "ready")
  /\ UNCHANGED <<todo, tmp, buf, fence_array, rep, serving, mem, semaphores, round, ops>>

comex_barrier(c) ==
  /\ pc[c] = "ready"
  /\ FenceAll(c, "barrier_fence", "barrier")
  /\ UNCHANGED <<todo, tmp, buf, fence_array, rep, serving, mem, semaphores, round, ops>>

FenceAllDone(c) ==
  /\ pc[c] \in {"fence_all", "barrier_fence"}
  /\ \A m \in fence_array[c] : posted[c][m] = << >>
  /\ fence_array' = [fence_array EXCEPT ![c] = {}]
  /\ Goto(c, IF pc[c] = "fence_all" THEN "ready" ELSE "barrier")
  /\ UNCHANGED <<todo, tmp, buf, req, rep, posted, serving, mem, semaphores, round, ops>>

MPI_Barrier ==
  /\ \A c \in Worker : pc[c] = "barrier"
  /\ pc' = [c \in Worker |-> "ready"]
  /\ round' = 1 - round
  /\ UNCHANGED <<todo, tmp, buf, fence_array, req, rep, posted, serving, mem, semaphores, ops>>

-----------------------------------------------------------------------------
(* Server side.                                                            *)

TakeFrom(m, c) == req' = [req EXCEPT ![c][m] = Tail(@)]
server_send(m, c, msgs) == rep' = [rep EXCEPT ![c][m] = @ \o msgs]

Pending(m, c, S) ==
  serving[m] = Idle /\ req[c][m] # << >> /\ Head(req[c][m]).op \in S

(* Bug variant: the handler takes the boundary for eager.                  *)
Begin_le(m, c) ==
  LET h == Head(req[c][m])
      left == IF eager_check_le(Extra(h.op) + Length[h.rank]) THEN 0 ELSE Chunks(Length[h.rank])
  IN serving' = [serving EXCEPT ![m] = [src |-> c, msg |-> h, left |-> left]]

(* The head of _put_handler and _acc_handler: how many chunks follow.      *)
Begin(m, c) ==
  LET h == Head(req[c][m])
      left == IF eager_check(Extra(h.op) + Length[h.rank]) THEN 0 ELSE Chunks(Length[h.rank])
  IN serving' = [serving EXCEPT ![m] = [src |-> c, msg |-> h, left |-> left]]

WriteBegin(m, c) ==
  /\ Pending(m, c, Written)
  /\ Begin(m, c)
  /\ TakeFrom(m, c)
  /\ UNCHANGED <<pc, todo, tmp, buf, fence_array, rep, posted, mem, semaphores, round, ops>>

(* server_recv waits for the next message of the same sender.              *)
server_recv(m, c) ==
  /\ serving[m].src = c /\ serving[m].left > 0
  /\ req[c][m] # << >>
  /\ LET h == serving[m].msg
         chunk == Message(h.op, h.rank, Head(req[c][m]).val)
     IN serving' = [serving EXCEPT ![m] = [src |-> c, msg |-> chunk, left |-> @.left - 1]]
  /\ TakeFrom(m, c)
  /\ UNCHANGED <<pc, todo, tmp, buf, fence_array, rep, posted, mem, semaphores, round, ops>>

HasPayload(m, op) == serving[m].msg.op = op /\ serving[m].left = 0

PutEnd(m) ==
  /\ HasPayload(m, "PUT")
  /\ mem' = [mem EXCEPT ![serving[m].msg.rank] = serving[m].msg.val]
  /\ serving' = [serving EXCEPT ![m] = Idle]
  /\ UNCHANGED <<pc, todo, tmp, buf, fence_array, req, rep, posted, semaphores, round, ops>>

(* Without any accumulate shortcut the handler takes no semaphore, and is  *)
(* alone: taking it always changes nothing.                                *)
HandlerAccRead(m) ==
  /\ HasPayload(m, "ACC") /\ semaphores[serving[m].msg.rank] # m
  /\ AccRead(m, serving[m].msg.rank)
  /\ UNCHANGED <<pc, todo, buf, fence_array, req, rep, posted, serving, mem, round, ops>>

HandlerAccWrite(m) ==
  /\ HasPayload(m, "ACC") /\ semaphores[serving[m].msg.rank] = m
  /\ AccWrite(m, serving[m].msg.rank, serving[m].msg.val)
  /\ serving' = [serving EXCEPT ![m] = Idle]
  /\ UNCHANGED <<pc, todo, buf, fence_array, req, rep, posted, round, ops>>

(* Bug variant: the loop ends below 0, and a last message is empty.        *)
get_handler_extra(m, c) ==
  /\ Pending(m, c, {"GET"})
  /\ TakeFrom(m, c)
  /\ LET t == Head(req[c][m]).rank
         n == (Length[t] \div max_message_size) + 1
     IN server_send(m, c, [i \in 1 .. n |-> Message("DATA", t, mem[t])])
  /\ UNCHANGED <<pc, todo, tmp, buf, fence_array, posted, serving, mem, semaphores, round, ops>>

get_handler(m, c) ==
  /\ Pending(m, c, {"GET"})
  /\ TakeFrom(m, c)
  /\ LET t == Head(req[c][m]).rank
     IN server_send(m, c, [i \in 1 .. Chunks(Length[t]) |-> Message("DATA", t, mem[t])])
  /\ UNCHANGED <<pc, todo, tmp, buf, fence_array, posted, serving, mem, semaphores, round, ops>>

(* Bug variant: the new value is sent back.                                *)
rmw_handler_after(m, c) ==
  /\ Pending(m, c, {"FETCH_AND_ADD", "SWAP"})
  /\ TakeFrom(m, c)
  /\ LET h == Head(req[c][m])
     IN /\ mem' = [mem EXCEPT ![h.rank] = IF h.op = "SWAP" THEN h.val ELSE @ + h.val]
        /\ server_send(m, c, <<Message("DATA", h.rank, mem'[h.rank])>>)
  /\ UNCHANGED <<pc, todo, tmp, buf, fence_array, posted, serving, semaphores, round, ops>>

(* _fetch_and_add_handler and _swap_handler.                               *)
rmw_handler(m, c) ==
  /\ Pending(m, c, {"FETCH_AND_ADD", "SWAP"})
  /\ TakeFrom(m, c)
  /\ LET h == Head(req[c][m])
     IN /\ server_send(m, c, <<Message("DATA", h.rank, mem[h.rank])>>)
        /\ mem' = [mem EXCEPT ![h.rank] = IF h.op = "SWAP" THEN h.val ELSE @ + h.val]
  /\ UNCHANGED <<pc, todo, tmp, buf, fence_array, posted, serving, semaphores, round, ops>>

fence_handler(m, c) ==
  /\ Pending(m, c, {"FENCE"})
  /\ TakeFrom(m, c)
  /\ server_send(m, c, <<Message("ACK", c, 0)>>)
  /\ UNCHANGED <<pc, todo, tmp, buf, fence_array, posted, serving, mem, semaphores, round, ops>>

-----------------------------------------------------------------------------
Call(c, t) ==
  \/ \E op \in {"PUT", "GET", "ACC"} : CallDirect(c, op, t)
  \/ \E op \in {"PUT", "ACC"} : CallWrite(c, op, t)
  \/ CallGet(c, t)
  \/ \E op \in {"FETCH_AND_ADD", "SWAP"} : comex_rmw(c, op, t)

Continue(c) ==
  \/ FenceMasterDone(c) \/ DirectPut(c) \/ DirectGet(c) \/ DirectAccRead(c)
  \/ DirectAccWrite(c) \/ RmwDone(c) \/ FenceAllDone(c)

progress_server(m, c) ==
  \/ WriteBegin(m, c) \/ server_recv(m, c) \/ get_handler(m, c)
  \/ rmw_handler(m, c) \/ fence_handler(m, c)

Handle(m) == PutEnd(m) \/ HandlerAccRead(m) \/ HandlerAccWrite(m)

Next ==
  \/ MPI_Barrier
  \/ \E c, t \in Worker : Call(c, t)
  \/ \E c \in Worker : Continue(c) \/ comex_fence_all(c) \/ comex_barrier(c)
  \/ \E c \in Worker, m \in Master : RecvReply(c, m) \/ progress_server(m, c)
  \/ \E m \in Master : Handle(m)

Spec == Init /\ [][Next]_vars

(* A worker inside a call and a progress rank keep going, MPI delivers and *)
(* the progress rank takes every message that waits for it.                *)
Fairness ==
  /\ \A c \in Worker : WF_vars(Continue(c))
  /\ \A c \in Worker, m \in Master : WF_vars(RecvReply(c, m)) /\ WF_vars(progress_server(m, c))
  /\ \A m \in Master : WF_vars(Handle(m))

FairSpec == Spec /\ Fairness

-----------------------------------------------------------------------------
Point == {"ready", "fence_master", "direct", "acc", "rmw", "fence_all",
          "barrier_fence", "barrier"}

TypeOK ==
  /\ pc \in [Worker -> Point]
  /\ \A c \in Worker : todo[c] = NoOp <=> pc[c] \notin {"fence_master", "direct", "acc", "rmw"}
  /\ tmp \in [Worker \cup Master -> Nat]
  /\ \A c \in Worker : buf[c][1] \in Worker \cup {NoRank} /\ buf[c][2] \in Nat
  /\ fence_array \in [Worker -> SUBSET Master]
  /\ \A c \in Worker, m \in Master : \A i \in DOMAIN req[c][m] :
       req[c][m][i].op \in Written \cup Fetched \cup {"DATA", "FENCE"}
  /\ \A c \in Worker, m \in Master : \A i \in DOMAIN posted[c][m] :
       posted[c][m][i] \in [op : Fetched \cup {"FENCE"}, rank : Worker, last : BOOLEAN]
  /\ \A m \in Master : serving[m].src \in Worker \cup {NoRank} /\ serving[m].left \in Nat
  /\ mem \in [Worker -> Nat]
  /\ semaphores \in [Worker -> Worker \cup Master \cup {NoRank}]
  /\ round \in {0, 1}
  /\ \A c \in Worker : ops[c] \in 0 .. MaxOps[c]

(* A master whose fence flag is down has nothing of that worker's puts and *)
(* accumulates, neither in its queue nor in its hands: a fence that skips  *)
(* it, or that has returned, leaves no write behind.                       *)
UnflaggedMeansDone ==
  \A c \in Worker, m \in Master : m \notin fence_array[c] =>
    /\ serving[m].src # c
    /\ \A i \in DOMAIN req[c][m] : req[c][m][i].op \notin Written \cup {"DATA"}

(* The sender and the handler agree on where a payload is: _progress_server*)
(* never takes a chunk for a header, and server_recv never takes a header, *)
(* or a chunk of another operation, for the chunk it waits for.            *)
PayloadInStep ==
  \A c \in Worker, m \in Master : req[c][m] # << >> =>
    LET h == Head(req[c][m])
        expects == serving[m].src = c /\ serving[m].left > 0
    IN /\ expects <=> h.op = "DATA"
       /\ expects => h.rank = serving[m].msg.rank

(* All messages share one tag, so a reply is told from another only by its *)
(* place: the i-th reply in flight is for the i-th receive posted.         *)
RepliesMatchReceives ==
  \A c \in Worker, m \in Master :
    /\ Len(rep[c][m]) <= Len(posted[c][m])
    /\ \A i \in DOMAIN rep[c][m] :
         /\ rep[c][m][i].op = IF posted[c][m][i].op = "FENCE" THEN "ACK" ELSE "DATA"
         /\ rep[c][m][i].rank = posted[c][m][i].rank

(* Both directions of a channel: requests with their payload, and replies. *)
ChannelsInStep == PayloadInStep /\ RepliesMatchReceives

(* The operations on the location of t that messages s carry; and the      *)
(* values of t among answers p, which receives r tell apart.               *)
Operations(s, t) ==
  FlattenSeq([i \in DOMAIN s |->
    IF s[i].rank = t /\ s[i].op \in Written \cup Fetched
    THEN <<[op |-> s[i].op, val |-> s[i].val]>> ELSE << >>])

Fetches(p, r, t) ==
  FlattenSeq([i \in DOMAIN p |->
    IF r[i].rank = t /\ r[i].op \in Fetched /\ r[i].last THEN <<p[i].val>> ELSE << >>])

(* The operations of c on the location of t that have not taken effect,    *)
(* oldest first, and the values on their way back.                         *)
Outstanding(c, t) ==
  LET m == MasterOf[t]
      current == IF serving[m].src = c THEN <<serving[m].msg>> ELSE << >>
  IN Operations(current \o req[c][m], t)

Returning(c, t) == Fetches(rep[c][MasterOf[t]], posted[c][MasterOf[t]], t)

Memory == INSTANCE OneSidedMemory WITH
  Process <- Worker, Location <- Worker, Value <- Value \cup {0, 1},
  queue <- [c \in Worker |-> [t \in Worker |-> Outstanding(c, t)]],
  answers <- [c \in Worker |-> [t \in Worker |-> Returning(c, t)]]

(* The runtime implements the memory of OneSidedMemory: whatever mixture   *)
(* of messages and shared memory serves them, operations are atomic, those *)
(* of one worker on one location stay in order (it reads its own writes),  *)
(* no accumulate is lost, every get and read-modify-write gets its own     *)
(* answer, and a barrier waits for all writes.                             *)
ImplementsMemory == Memory!Spec

(* Every call returns, as far as it depends on the progress ranks.         *)
CallsReturn ==
  \A c \in Worker : (pc[c] \notin {"ready", "barrier"}) ~> (pc[c] \in {"ready", "barrier"})

(* Writes that nobody fences land all the same.                            *)
WritesLand ==
  \A c \in Worker, m \in Master :
    (\E i \in DOMAIN req[c][m] : req[c][m][i].op \in Written)
      ~> (req[c][m] = << >> /\ serving[m].src # c)

(* Nobody waits for the runtime for ever, and nothing is left in it.       *)
NothingWaitsForever == CallsReturn /\ WritesLand

(* A worker whose puts or accumulates to a location take a shortcut uses   *)
(* the shortcut for gets from there, too, as it does unless                *)
(* COMEX_ENABLE_GET_SELF or COMEX_ENABLE_GET_SMP is switched off alone.    *)
(* Otherwise a get by message, which sets no flag and so is not waited for *)
(* by the fence of a shortcut, may come back with what was put after it.   *)
GetsTakeShortcuts ==
  \A c, t \in Worker, op \in Written : Direct(c, op, t) => Direct(c, "GET", t)

=============================================================================
