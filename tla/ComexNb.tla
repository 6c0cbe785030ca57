------------------------------- MODULE ComexNb -------------------------------
(***************************************************************************)
(* The ring of non-blocking handles of one ComEx MPI-PR process            *)
(* (comex/src-mpi-pr/comex.c).  A handle holds the MPI requests of one     *)
(* operation in two linked lists; the ring is finite, so a handle the      *)
(* caller still holds may be completed and given to another operation.     *)
(*                                                                         *)
(* The process has one thread.  Only MPI runs beside it: Complete(m) is    *)
(* MPI finishing a request, in any order.  A call that blocks in MPI_Wait  *)
(* is one action that is enabled when all it waits for is done.            *)
(***************************************************************************)
EXTENDS Integers, FiniteSets, Functions, FiniteSetsExt

CONSTANTS
  NbMax,  \* nb_max_outstanding
  MsgMax, \* bound: message_t allocated for one handle at a time
  NULL    \* no message, no handle

Ring == 0 .. NbMax - 1

(* A message_t is named after the handle it is allocated for; a freed one  *)
(* is used again.                                                          *)
Msg == Ring \X (1 .. MsgMax)

ASSUME NbAssumption ==
  /\ NbMax \in Nat \ {0} /\ MsgMax \in Nat
  /\ NULL \notin Msg \cup Nat

(* Bug variant: the index does not wrap around.                            *)
Next1_nowrap(i) == i + 1

Next1(i) == (i + 1) % NbMax

(* The first member of free from start on, around the ring; start itself   *)
(* if there is none.                                                       *)
FirstFrom(start, free) ==
  IF free = {} THEN start
  ELSE CHOOSE i \in free : \A j \in free : (i + NbMax - start) % NbMax <= (j + NbMax - start) % NbMax

VARIABLES
  nb_state, \* nb_state[h]: in_use and the lists of sends and receives of h
  nb_index, \* where the search for a handle starts
  posted,   \* messages allocated, their request not yet waited for or tested
            \* with success: nb_count_event - nb_count_event_processed of them
  done,     \* the posted messages whose request MPI has finished
  blocked   \* the handle a blocking operation waits for, or NULL

nbvars == <<nb_state, nb_index, posted, done, blocked>>

(* A list: the messages that can be reached from head, each at the place   *)
(* at which it was linked (unlinking one moves no other), the pointer to   *)
(* the last one, and the number of messages counted.                       *)
Empty == [head |-> << >>, tail |-> NULL, size |-> 0]
List == [head : UNION {[P -> Msg] : P \in SUBSET (1 .. MsgMax)},
         tail : Msg \cup {NULL}, size : Nat]
Handle == [in_use : BOOLEAN, send : List, recv : List]

NbInit ==
  /\ nb_state = [h \in Ring |-> [in_use |-> FALSE, send |-> Empty, recv |-> Empty]]
  /\ nb_index = 0
  /\ posted = {} /\ done = {}
  /\ blocked = NULL

-----------------------------------------------------------------------------
(* Appending messages: the first becomes the head of an empty list or the  *)
(* successor of the tail, so they are reached only if the tail is the last *)
(* reachable message.                                                      *)
PushAll(l, new) ==
  LET places == DOMAIN l.head
      end == Max({0} \cup places)
      behind == {end + p : p \in DOMAIN new}
  IN IF DOMAIN new = {} THEN l
     ELSE [head |-> IF places = {} \/ l.tail = l.head[end]
                    THEN [p \in places \cup behind |-> IF p \in places THEN l.head[p] ELSE new[p - end]]
                    ELSE l.head,
           tail |-> new[Max(DOMAIN new)],
           size |-> l.size + Cardinality(DOMAIN new)]

(* Waiting for the head until there is none.                               *)
Drained(l) ==
  IF DOMAIN l.head = {} THEN l
  ELSE [head |-> << >>, tail |-> NULL, size |-> l.size - Cardinality(DOMAIN l.head)]

(* Testing every message once: the finished ones are unlinked; the tail is *)
(* cleared when the last message of the list is among them, even if others *)
(* are left.                                                               *)
Tested(l) ==
  LET places == DOMAIN l.head
      finished == {p \in places : l.head[p] \in done}
  IN [head |-> Restrict(l.head, places \ finished),
      tail |-> IF places # {} /\ Max(places) \in finished THEN NULL ELSE l.tail,
      size |-> l.size - Cardinality(finished)]

Reached(h) == Range(nb_state[h].send.head) \cup Range(nb_state[h].recv.head)

Retire(ms) == posted' = posted \ ms /\ done' = done \ ms

Released(nb) == [in_use |-> FALSE, send |-> Drained(nb.send), recv |-> Drained(nb.recv)]

(* nb_wait_for_all on every handle of hs, one after the other.             *)
nb_wait_for_all(hs) ==
  /\ \A h \in hs : Reached(h) \subseteq done
  /\ nb_state' = [h \in Ring |-> IF h \in hs THEN Released(nb_state[h]) ELSE nb_state[h]]
  /\ Retire(UNION {Reached(h) : h \in hs})

(* Bug variant: the handle is free after a test, whatever it found.        *)
nb_test_for_all_frees(h) ==
  /\ nb_state' = [nb_state EXCEPT ![h] =
        [in_use |-> FALSE, send |-> Tested(@.send), recv |-> Tested(@.recv)]]
  /\ Retire(Reached(h) \cap done)

nb_test_for_all(h) ==
  LET send == Tested(nb_state[h].send)
      recv == Tested(nb_state[h].recv)
  IN /\ nb_state' = [nb_state EXCEPT ![h] =
           [in_use |-> @.in_use /\ DOMAIN send.head \cup DOMAIN recv.head # {},
            send |-> send, recv |-> recv]]
     /\ Retire(Reached(h) \cap done)

(* The handle nb_wait_for_handle returns: a free one, else the one at      *)
(* nb_index, once it is completed.                                         *)
Unused == {h \in Ring : ~nb_state[h].in_use}
Chosen == FirstFrom(nb_index, Unused)

(* The messages of an operation that posts n.                              *)
Fresh(n) ==
  LET kept == IF Unused = {} THEN posted \ Reached(Chosen) ELSE posted
  IN CHOOSE S \in SUBSET ({Chosen} \X (1 .. MsgMax) \ kept) : Cardinality(S) = n

(* nb_wait_for_handle, and the sends and receives of one operation posted  *)
(* on the handle.                                                          *)
nb_post(sends, recvs) ==
  LET h == Chosen
      nb == IF Unused = {} THEN Released(nb_state[h]) ELSE nb_state[h]
      ms == Fresh(sends + recvs)
      order == CHOOSE f \in [1 .. sends + recvs -> ms] : Range(f) = ms
  IN /\ Unused = {} => Reached(h) \subseteq done
     /\ nb_index' = Next1(h)
     /\ nb_state' = [nb_state EXCEPT ![h] =
           [in_use |-> TRUE,
            send |-> PushAll(nb.send, Restrict(order, 1 .. sends)),
            recv |-> PushAll(nb.recv, Restrict(order, sends + 1 .. sends + recvs))]]
     /\ LET old == IF Unused = {} THEN Reached(h) ELSE {}
        IN posted' = (posted \ old) \cup ms /\ done' = done \ old

-----------------------------------------------------------------------------
(* The interface.                                                          *)

(* comex_nbput, comex_nbget, comex_nbacc and their strided and vector      *)
(* forms; the caller gets the index of the handle, Chosen.                 *)
comex_nb(sends, recvs) ==
  /\ blocked = NULL
  /\ nb_post(sends, recvs)
  /\ UNCHANGED blocked

(* comex_put, comex_get, comex_acc, their forms, and the fences: the same, *)
(* then a wait on the handle.                                              *)
comex_blocking(sends, recvs) ==
  /\ blocked = NULL
  /\ nb_post(sends, recvs)
  /\ blocked' = Chosen

comex_blocking_returns ==
  /\ blocked # NULL
  /\ nb_wait_for_all({blocked})
  /\ blocked' = NULL
  /\ UNCHANGED nb_index

comex_wait(h) ==
  /\ blocked = NULL
  /\ nb_wait_for_all({h})
  /\ UNCHANGED <<nb_index, blocked>>

comex_test(h) ==
  /\ blocked = NULL
  /\ nb_test_for_all(h)
  /\ UNCHANGED <<nb_index, blocked>>

(* What comex_test answers: 0, completed, when no message was left.        *)
TestsComplete(h) == Reached(h) \subseteq done

comex_wait_all ==
  /\ blocked = NULL
  /\ nb_wait_for_all(Ring)
  /\ UNCHANGED <<nb_index, blocked>>

(* MPI finishes a request.                                                 *)
Complete(m) ==
  /\ m \in posted \ done
  /\ done' = done \cup {m}
  /\ UNCHANGED <<nb_state, nb_index, posted, blocked>>

-----------------------------------------------------------------------------
NbTypeOK ==
  /\ nb_state \in [Ring -> Handle]
  /\ nb_index \in Ring
  /\ posted \subseteq Msg /\ done \subseteq posted
  /\ blocked \in Ring \cup {NULL}

(* No message is lost: each posted message can be reached from the head of *)
(* a list, so some wait or test will find it, although nb_test_for_all     *)
(* clears the tail of a list that still has messages.                      *)
EveryMessageReachable == posted = UNION {Reached(h) : h \in Ring}

(* The assertions of comex_test and nb_wait_all: a list without a head has *)
(* counted no message and has no tail.                                     *)
EmptyListsAreClean ==
  \A h \in Ring : \A l \in {nb_state[h].send, nb_state[h].recv} :
    DOMAIN l.head = {} => l = Empty

(* A handle that nb_wait_for_handle may give away without waiting holds no *)
(* message of the operation that had it before.                            *)
UnusedHandlesEmpty == \A h \in Unused : Reached(h) = {}

(* The handles and the lists of their messages are consistent, although a  *)
(* handle in use may be completed and given away, and a test may find the  *)
(* messages done in any order.                                             *)
RingIntact == EveryMessageReachable /\ EmptyListsAreClean /\ UnusedHandlesEmpty
=============================================================================
