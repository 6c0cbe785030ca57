-------------------------------- MODULE GaNb --------------------------------
(***************************************************************************)
(* Non-blocking one-sided operations of Global Arrays, in one process:     *)
(* global/src/nbutil.c and its users in onesided.c and ghosts.c, on the    *)
(* ring of ComEx handles of ComexNb.                                       *)
(*                                                                         *)
(* A GA operation on a patch makes one ARMCI operation per piece of the    *)
(* patch that another process holds.  Its GA handle is an index in         *)
(* ga_ihdl_array and a tag; the slot holds a doubly linked list of entries *)
(* of armci_ihdl_array, each with the ComEx handle of one piece.  All      *)
(* three arrays are finite and have the same length, and each takes back   *)
(* entries that are still in use when it is full.                          *)
(***************************************************************************)
EXTENDS ComexNb

CONSTANTS
  User,      \* the handle variables of the program
  TagMod,    \* tags repeat after TagMod calls (2^24 in the code)
  PutSlots,  \* HANDLES_OUTSTANDING: the put/notify operations under way
  Patches,   \* how the patches of the program lie: pieces on other nodes,
             \* pieces on the own node, and whether the iterator knows the
             \* last piece to be one on another node
  MaxOps,    \* bound: operations the program starts
  Shapes     \* Shapes[kind]: the possible <<sends, receives>> of one piece
             \* on another node

Kind == {"put", "get"} \* an accumulate is a put here

(* Handle variables: the program's, the local one of a blocking call, the  *)
(* one of ngai_gets, and the two of each put/notify.                       *)
Slot == 1 .. PutSlots
Var == {<<"user", u>> : u \in User} \cup {<<"ga_nbhandle", NULL>>, <<"handle", NULL>>}
       \cup {"firsthdl", "elementhdl"} \X Slot

ASSUME GaNbAssumption ==
  /\ TagMod \in Nat \ {0} /\ PutSlots \in Nat \ {0}
  /\ MaxOps \in Nat /\ MsgMax >= 2
  /\ NULL \notin User \cup Var \cup [index : Ring, tag : 0 .. TagMod - 1]
  /\ \A p \in Patches : /\ p \in [pieces : Nat, shared : Nat, last : BOOLEAN]
                        /\ p.pieces + p.shared > 0
                        /\ p.last => p.pieces > 0
  /\ DOMAIN Shapes = Kind
  /\ \A k \in Kind : \A s \in Shapes[k] : s \in Nat \X Nat /\ s[1] + s[2] <= MsgMax

Temp == <<"ga_nbhandle", NULL>>
Nested == <<"handle", NULL>>

VARIABLES
  ga_ihdl,    \* ga_ihdl_array
  armci_ihdl, \* armci_ihdl_array
  lastGA, lastARMCI, \* the last entries given
  ga_nb_tag,
  hv,    \* the values of the handle variables: [index, tag], or NULL
  putn,  \* putn[s]: the address the s-th put/notify is known by, or NULL
  call,  \* the call under way
  ops,   \* operations left of the bound
  owner  \* history: the variable, or other purpose, each message was posted for

gavars == <<ga_ihdl, armci_ihdl, lastGA, lastARMCI, ga_nb_tag, hv, putn, call>>
vars == <<nbvars, gavars, ops, owner>>

(* An entry that is given back; what its other fields hold is not read     *)
(* again.                                                                  *)
FreeEntry == [handle |-> 0, next |-> NULL, previous |-> NULL, ga |-> 0, active |-> FALSE]

Idle == [pc |-> "idle", kind |-> "put", blocking |-> FALSE, var |-> Temp,
         pieces |-> 0, shared |-> 0, last |-> FALSE, cur |-> NULL, then |-> NULL]

Init ==
  /\ NbInit
  /\ ga_ihdl = [i \in Ring |-> [ahandle |-> NULL, count |-> 0, tag |-> TagMod, active |-> FALSE]]
  /\ armci_ihdl = [i \in Ring |-> FreeEntry]
  /\ lastGA = NbMax - 1 /\ lastARMCI = NbMax - 1
  /\ ga_nb_tag = TagMod - 1
  /\ hv = [v \in Var |-> NULL]
  /\ putn = [s \in Slot |-> NULL]
  /\ call = Idle
  /\ ops = MaxOps
  /\ owner = [m \in Msg |-> NULL]

(* Messages posted for v that nobody has waited for.                       *)
Pending(v) == {m \in posted : owner[m] = v}

(* A step posts ms for v; messages that are freed belong to nobody.        *)
Own(v, ms) ==
  owner' = [m \in Msg |-> IF m \in ms THEN v ELSE IF m \in posted' THEN owner[m] ELSE NULL]
KeepOwners == Own(NULL, {})

-----------------------------------------------------------------------------
(* Handles.                                                                *)

(* What is linked from head: it is in every set that has the head and,     *)
(* with an entry, the next one.                                            *)
LinkedFrom(head, next) ==
  LET Closed(S) == head \in S \cup {NULL} /\ \A a \in S : next[a] \in S \cup {NULL}
  IN {a \in Ring : \A S \in SUBSET Ring : Closed(S) => a \in S}

(* The entries of GA slot i.                                               *)
Chain(i) == LinkedFrom(ga_ihdl[i].ahandle, [a \in Ring |-> armci_ihdl[a].next])

(* Entry a taken out of the list it is in: the two arrays afterwards.      *)
Unlinked(a) ==
  LET e == armci_ihdl[a]
      back == IF e.next = NULL THEN armci_ihdl
              ELSE [armci_ihdl EXCEPT ![e.next].previous = e.previous]
  IN [armci |-> IF e.previous = NULL THEN back ELSE [back EXCEPT ![e.previous].next = e.next],
      ga |-> [ga_ihdl EXCEPT ![e.ga].ahandle = IF e.previous = NULL THEN e.next ELSE @,
                             ![e.ga].count = @ - 1]]

(* Entry a made the first of the list of GA slot i.                        *)
Linked(arrays, a, i) ==
  LET head == arrays.ga[i].ahandle
      front == IF head = NULL THEN arrays.armci ELSE [arrays.armci EXCEPT ![head].previous = a]
  IN [armci |-> [front EXCEPT ![a] = [handle |-> @.handle, next |-> head, previous |-> NULL,
                                      ga |-> i, active |-> TRUE]],
      ga |-> [arrays.ga EXCEPT ![i].ahandle = a, ![i].count = @ + 1]]

(* Bug variant: an entry in use is taken without waiting for it.           *)
get_armci_nbhandle_nowait(i) ==
  LET a == FirstFrom(Next1(lastARMCI), {a \in Ring : ~armci_ihdl[a].active})
      arrays == Linked(IF armci_ihdl[a].active THEN Unlinked(a)
                       ELSE [armci |-> armci_ihdl, ga |-> ga_ihdl], a, i)
  IN /\ armci_ihdl' = arrays.armci
     /\ ga_ihdl' = arrays.ga
     /\ lastARMCI' = a
     /\ UNCHANGED nbvars

(* get_armci_nbhandle: a free entry, or the next one after it is waited    *)
(* for, becomes an entry of GA slot i.  The tag is not looked at.          *)
get_armci_nbhandle(i) ==
  LET free == {a \in Ring : ~armci_ihdl[a].active}
      a == FirstFrom(Next1(lastARMCI), free)
      taken == armci_ihdl[a].active
      arrays == Linked(IF taken THEN Unlinked(a) ELSE [armci |-> armci_ihdl, ga |-> ga_ihdl], a, i)
  IN /\ IF taken THEN comex_wait(armci_ihdl[a].handle) ELSE UNCHANGED nbvars
     /\ armci_ihdl' = arrays.armci
     /\ ga_ihdl' = arrays.ga
     /\ lastARMCI' = a

(* The part of nga_wait_internal past the comparison of tags.              *)
WaitFor(i) ==
  LET entries == Chain(i)
  IN /\ nb_wait_for_all({armci_ihdl[a].handle : a \in entries})
     /\ UNCHANGED <<nb_index, blocked>>
     /\ armci_ihdl' = [a \in Ring |-> IF a \in entries THEN FreeEntry ELSE armci_ihdl[a]]

(* Bug variant: only the first entry is waited for.                        *)
nga_wait_internal_first(v) ==
  LET i == hv[v].index
      a == ga_ihdl[i].ahandle
  IN IF hv[v].tag = ga_ihdl[i].tag
     THEN /\ IF a = NULL THEN UNCHANGED nbvars ELSE comex_wait(armci_ihdl[a].handle)
          /\ armci_ihdl' = [b \in Ring |-> IF b \in Chain(i) THEN FreeEntry ELSE armci_ihdl[b]]
          /\ ga_ihdl' = [ga_ihdl EXCEPT ![i] = [@ EXCEPT !.ahandle = NULL, !.count = 0, !.active = FALSE]]
     ELSE UNCHANGED <<nbvars, armci_ihdl, ga_ihdl>>

nga_wait_internal(v) ==
  LET i == hv[v].index
  IN IF hv[v].tag = ga_ihdl[i].tag
     THEN /\ WaitFor(i)
          /\ ga_ihdl' = [ga_ihdl EXCEPT ![i] = [@ EXCEPT !.ahandle = NULL, !.count = 0, !.active = FALSE]]
     ELSE UNCHANGED <<nbvars, armci_ihdl, ga_ihdl>>

get_next_tag == (ga_nb_tag + 1) % TagMod

(* Bug variant: a slot in use is given away without waiting for it.        *)
ga_init_nbhandle_nowait(v) ==
  LET i == FirstFrom(Next1(lastGA), {i \in Ring : ga_ihdl[i].ahandle = NULL})
  IN /\ ga_nb_tag' = get_next_tag
     /\ hv' = [hv EXCEPT ![v] = [index |-> i, tag |-> get_next_tag]]
     /\ ga_ihdl' = [ga_ihdl EXCEPT ![i] =
                      [ahandle |-> NULL, count |-> 0, active |-> TRUE, tag |-> get_next_tag]]
     /\ lastGA' = i
     /\ UNCHANGED <<nbvars, armci_ihdl>>

(* ga_init_nbhandle: a slot without entries, or the next one after it is   *)
(* waited for, becomes the slot of v.                                      *)
ga_init_nbhandle(v) ==
  LET free == {i \in Ring : ga_ihdl[i].ahandle = NULL}
      i == FirstFrom(Next1(lastGA), free)
  IN /\ IF i \in free THEN UNCHANGED <<nbvars, armci_ihdl>> ELSE WaitFor(i)
     /\ ga_nb_tag' = get_next_tag
     /\ hv' = [hv EXCEPT ![v] = [index |-> i, tag |-> get_next_tag]]
     /\ ga_ihdl' = [ga_ihdl EXCEPT ![i] =
                      [ahandle |-> NULL, count |-> 0, active |-> TRUE, tag |-> get_next_tag]]
     /\ lastGA' = i

-----------------------------------------------------------------------------
(* Operations on a patch: ngai_put_common, ngai_get_common and the         *)
(* accumulate.  The pieces on other nodes come first, then those on the    *)
(* own node.                                                               *)
Goto(pc) == call' = [call EXCEPT !.pc = pc]

Begin == call.pc = "idle" /\ ops > 0 /\ ops' = ops - 1

Start(kind, blocking, v, then) ==
  /\ Begin
  /\ \E p \in Patches :
       call' = [pc |-> "init", kind |-> kind, blocking |-> blocking, var |-> v, pieces |-> p.pieces,
                shared |-> p.shared, last |-> p.last, cur |-> NULL, then |-> then]
  \* the earlier operation of a handle variable is the program's to forget
  /\ owner' = [m \in Msg |-> IF owner[m] = v THEN NULL ELSE owner[m]]

(* pnga_nbput, pnga_nbget, pnga_nbacc; pnga_update_ghosts_nb is one too.   *)
pnga_nb(u, kind) ==
  /\ Start(kind, FALSE, <<"user", u>>, NULL)
  /\ UNCHANGED <<nbvars, ga_ihdl, armci_ihdl, lastGA, lastARMCI, ga_nb_tag, hv, putn>>

(* pnga_put, pnga_get, pnga_acc.                                           *)
pnga_blocking(kind) ==
  /\ Start(kind, TRUE, Temp, NULL)
  /\ UNCHANGED <<nbvars, ga_ihdl, armci_ihdl, lastGA, lastARMCI, ga_nb_tag, hv, putn>>

(* pnga_nbput_notify: a put of the patch, then one of the element.  With   *)
(* no slot left the program is stopped.                                    *)
pnga_nbput_notify(u) ==
  LET s == CHOOSE s \in Slot : putn[s] = NULL /\ \A r \in Slot : r < s => putn[r] # NULL
  IN /\ \E r \in Slot : putn[r] = NULL
     /\ putn' = [putn EXCEPT ![s] = u]
     /\ Start("put", FALSE, <<"firsthdl", s>>, s)
     /\ UNCHANGED <<nbvars, ga_ihdl, armci_ihdl, lastGA, lastARMCI, ga_nb_tag, hv>>

InitHandle ==
  /\ call.pc = "init"
  /\ ga_init_nbhandle(call.var)
  /\ Goto("pieces")
  /\ KeepOwners
  /\ UNCHANGED <<lastARMCI, putn, ops>>

(* The next piece is done with a blocking ARMCI call: the last of all, and *)
(* those on the own node.                                                  *)
NextBlocks == call.blocking /\ (call.pieces = 0 \/ (call.pieces = 1 /\ call.last))
PiecesLeft == call.pieces + call.shared > 0
Shape == IF call.pieces > 0 THEN Shapes[call.kind] ELSE {<<0, 0>>}

(* Bug variant: the iterator stays at the pieces on the own node.          *)
OneLess_stays(pc) ==
  call' = [call EXCEPT !.pc = pc, !.cur = NULL, !.pieces = IF @ > 0 THEN @ - 1 ELSE 0]

OneLess(pc) ==
  call' = [call EXCEPT !.pc = pc, !.cur = NULL,
                       !.pieces = IF @ > 0 THEN @ - 1 ELSE 0,
                       !.shared = IF call.pieces > 0 THEN @ ELSE @ - 1]

NbPiece ==
  /\ call.pc = "pieces" /\ PiecesLeft /\ ~NextBlocks
  /\ get_armci_nbhandle(hv[call.var].index)
  /\ call' = [call EXCEPT !.pc = "armci", !.cur = lastARMCI']
  /\ KeepOwners
  /\ UNCHANGED <<lastGA, ga_nb_tag, hv, putn, ops>>

(* ARMCI_NbPutS and its kin: the entry gets the ComEx handle.              *)
PostFor(v, shape) ==
  /\ comex_nb(shape[1], shape[2])
  /\ armci_ihdl' = [armci_ihdl EXCEPT ![call.cur].handle = Chosen]
  /\ Own(v, Fresh(shape[1] + shape[2]))

ArmciNb ==
  /\ call.pc = "armci"
  /\ \E shape \in Shape : PostFor(call.var, shape)
  /\ OneLess("pieces")
  /\ UNCHANGED <<ga_ihdl, lastGA, lastARMCI, ga_nb_tag, hv, putn, ops>>

(* ngai_puts: a blocking ComEx call.                                       *)
BlockingPut ==
  /\ call.pc = "pieces" /\ PiecesLeft /\ NextBlocks /\ call.kind = "put"
  /\ \E shape \in Shape :
       /\ comex_blocking(shape[1], shape[2])
       /\ Own(Temp, Fresh(shape[1] + shape[2]))
  /\ OneLess("blocked")
  /\ UNCHANGED <<ga_ihdl, armci_ihdl, lastGA, lastARMCI, ga_nb_tag, hv, putn, ops>>

BlockingPutReturns ==
  /\ call.pc = "blocked"
  /\ comex_blocking_returns
  /\ call' = IF call.var = Temp THEN [call EXCEPT !.pc = "pieces"] ELSE Idle
  /\ KeepOwners
  /\ UNCHANGED <<ga_ihdl, armci_ihdl, lastGA, lastARMCI, ga_nb_tag, hv, putn, ops>>

(* ngai_gets: a GA handle of its own, within that of the call.             *)
BlockingGet ==
  /\ call.pc = "pieces" /\ PiecesLeft /\ NextBlocks /\ call.kind = "get"
  /\ ga_init_nbhandle(Nested)
  /\ Goto("gets")
  /\ KeepOwners
  /\ UNCHANGED <<lastARMCI, putn, ops>>

NestedHandle ==
  /\ call.pc = "gets"
  /\ get_armci_nbhandle(hv[Nested].index)
  /\ call' = [call EXCEPT !.pc = "gets_nb", !.cur = lastARMCI']
  /\ KeepOwners
  /\ UNCHANGED <<lastGA, ga_nb_tag, hv, putn, ops>>

NestedNb ==
  /\ call.pc = "gets_nb"
  /\ \E shape \in Shape : PostFor(Nested, shape)
  /\ OneLess("gets_wait")
  /\ UNCHANGED <<ga_ihdl, lastGA, lastARMCI, ga_nb_tag, hv, putn, ops>>

NestedWait ==
  /\ call.pc = "gets_wait"
  /\ nga_wait_internal(Nested)
  /\ Goto("pieces")
  /\ hv' = [hv EXCEPT ![Nested] = NULL]
  /\ KeepOwners
  /\ UNCHANGED <<lastGA, lastARMCI, ga_nb_tag, putn, ops>>

(* The end of the call: a blocking one waits for its handle, the first put *)
(* of a put/notify is followed by that of the element.                     *)
Return ==
  /\ call.pc = "pieces" /\ ~PiecesLeft
  /\ IF call.blocking THEN nga_wait_internal(Temp) ELSE UNCHANGED <<nbvars, armci_ihdl, ga_ihdl>>
  /\ call' = IF call.then = NULL THEN Idle
             ELSE [Idle EXCEPT !.pc = "init", !.pieces = 1, !.var = <<"elementhdl", call.then>>]
  /\ hv' = [hv EXCEPT ![Temp] = NULL]
  /\ KeepOwners
  /\ UNCHANGED <<lastGA, lastARMCI, ga_nb_tag, putn, ops>>

-----------------------------------------------------------------------------
(* Completion.                                                             *)
pnga_nbwait(u) ==
  /\ call.pc = "idle" /\ hv[<<"user", u>>] # NULL
  /\ nga_wait_internal(<<"user", u>>)
  /\ KeepOwners
  /\ UNCHANGED <<lastGA, lastARMCI, ga_nb_tag, hv, putn, call, ops>>

(* pnga_nbwait_notify: the first slot known by the address; the call does  *)
(* nothing without one.                                                    *)
pnga_nbwait_notify(u) ==
  /\ call.pc = "idle"
  /\ \E s \in Slot :
       /\ putn[s] = u /\ \A r \in Slot : r < s => putn[r] # u
       /\ nga_wait_internal(<<"firsthdl", s>>)
       /\ call' = [Idle EXCEPT !.pc = "notify", !.then = s]
  /\ KeepOwners
  /\ UNCHANGED <<lastGA, lastARMCI, ga_nb_tag, hv, putn, ops>>

NotifyWaitReturns ==
  /\ call.pc = "notify"
  /\ nga_wait_internal(<<"elementhdl", call.then>>)
  /\ putn' = [putn EXCEPT ![call.then] = NULL]
  /\ hv' = [hv EXCEPT ![<<"firsthdl", call.then>>] = NULL, ![<<"elementhdl", call.then>>] = NULL]
  /\ call' = Idle
  /\ KeepOwners
  /\ UNCHANGED <<lastGA, lastARMCI, ga_nb_tag, ops>>

(* pnga_nbtest: nga_test_internal walks the list, unless the tag is old.   *)
pnga_nbtest(u) ==
  LET v == <<"user", u>>
  IN /\ call.pc = "idle" /\ hv[v] # NULL
     /\ hv[v].tag = ga_ihdl[hv[v].index].tag
     /\ call' = [Idle EXCEPT !.pc = "test", !.var = v, !.cur = ga_ihdl[hv[v].index].ahandle]
     /\ UNCHANGED <<nbvars, ga_ihdl, armci_ihdl, lastGA, lastARMCI, ga_nb_tag, hv, putn, owner, ops>>

TestEntry ==
  LET a == call.cur
      arrays == Unlinked(a)
  IN /\ call.pc = "test" /\ a # NULL
     /\ comex_test(armci_ihdl[a].handle)
     /\ IF TestsComplete(armci_ihdl[a].handle)
        THEN /\ ga_ihdl' = arrays.ga
             /\ armci_ihdl' = [arrays.armci EXCEPT ![a] = FreeEntry]
        ELSE UNCHANGED <<ga_ihdl, armci_ihdl>>
     /\ call' = [call EXCEPT !.cur = armci_ihdl[a].next]
     /\ KeepOwners
     /\ UNCHANGED <<lastGA, lastARMCI, ga_nb_tag, hv, putn, ops>>

TestReturns ==
  LET i == hv[call.var].index
  IN /\ call.pc = "test" /\ call.cur = NULL
     /\ ga_ihdl' = IF ga_ihdl[i].count = 0
                   THEN [ga_ihdl EXCEPT ![i] = [@ EXCEPT !.ahandle = NULL, !.active = FALSE]]
                   ELSE ga_ihdl
     /\ call' = Idle
     /\ UNCHANGED <<nbvars, armci_ihdl, lastGA, lastARMCI, ga_nb_tag, hv, putn, owner, ops>>

(* Whether the last step of pnga_nbtest(u) answers that the operation is   *)
(* complete: a tag that was given again says so too.                       *)
TestSaysDone(u) ==
  LET v == <<"user", u>>
      slot == ga_ihdl[hv[v].index]
  IN \/ call.pc = "test" /\ call.cur = NULL /\ call.var = v /\ slot.count = 0
     \/ call.pc = "idle" /\ hv[v] # NULL /\ hv[v].tag # slot.tag

-----------------------------------------------------------------------------
(* Calls that go past the GA handles: a fence, and an update of ghost      *)
(* cells with implicit handles that ends in ARMCI_WaitAll.                 *)
Fence ==
  /\ Begin
  /\ comex_blocking(1, 1)
  /\ Own(Nested, Fresh(2))
  /\ call' = [Idle EXCEPT !.pc = "blocked", !.var = Nested]
  /\ UNCHANGED <<ga_ihdl, armci_ihdl, lastGA, lastARMCI, ga_nb_tag, hv, putn>>

UpdateGhosts ==
  /\ Begin
  /\ \E kind \in Kind : call' = [Idle EXCEPT !.pc = "ghosts", !.kind = kind, !.pieces = NbMax + 1]
  /\ UNCHANGED <<nbvars, ga_ihdl, armci_ihdl, lastGA, lastARMCI, ga_nb_tag, hv, putn, owner>>

GhostPiece ==
  /\ call.pc = "ghosts" /\ call.pieces > 0
  /\ \E shape \in Shape :
       /\ comex_nb(shape[1], shape[2])
       /\ Own(Temp, Fresh(shape[1] + shape[2]))
  /\ OneLess("ghosts")
  /\ UNCHANGED <<ga_ihdl, armci_ihdl, lastGA, lastARMCI, ga_nb_tag, hv, putn, ops>>

GhostsReturn ==
  /\ call.pc = "ghosts" /\ call.pieces = 0
  /\ comex_wait_all
  /\ call' = Idle
  /\ KeepOwners
  /\ UNCHANGED <<ga_ihdl, armci_ihdl, lastGA, lastARMCI, ga_nb_tag, hv, putn, ops>>

-----------------------------------------------------------------------------
Calls ==
  \/ \E u \in User : \/ \E k \in Kind : pnga_nb(u, k)
                     \/ pnga_nbput_notify(u)
                     \/ pnga_nbwait(u)
                     \/ pnga_nbwait_notify(u)
                     \/ pnga_nbtest(u)
  \/ \E k \in Kind : pnga_blocking(k)
  \/ Fence
  \/ UpdateGhosts

Steps ==
  \/ InitHandle \/ NbPiece \/ ArmciNb
  \/ BlockingPut \/ BlockingPutReturns
  \/ BlockingGet \/ NestedHandle \/ NestedNb \/ NestedWait
  \/ Return
  \/ NotifyWaitReturns
  \/ TestEntry \/ TestReturns
  \/ GhostPiece \/ GhostsReturn

MpiCompletes(m) == Complete(m) /\ UNCHANGED <<gavars, ops, owner>>

MpiProgress == \E m \in Msg : MpiCompletes(m)

Next == Calls \/ Steps \/ MpiProgress

(* The process goes on when it can, and MPI does not stop while a request  *)
(* is unfinished.                                                          *)
Fairness == WF_vars(Steps) /\ WF_vars(MpiProgress)

Spec == Init /\ [][Next]_vars /\ Fairness

-----------------------------------------------------------------------------
TypeOK ==
  /\ NbTypeOK
  /\ ga_ihdl \in [Ring -> [ahandle : Ring \cup {NULL}, count : Nat, tag : 0 .. TagMod, active : BOOLEAN]]
  /\ armci_ihdl \in [Ring -> [handle : Ring, next : Ring \cup {NULL}, previous : Ring \cup {NULL},
                              ga : Ring, active : BOOLEAN]]
  /\ lastGA \in Ring /\ lastARMCI \in Ring /\ ga_nb_tag \in 0 .. TagMod - 1
  /\ hv \in [Var -> [index : Ring, tag : 0 .. TagMod - 1] \cup {NULL}]
  /\ putn \in [Slot -> User \cup {NULL}]
  /\ ops \in 0 .. MaxOps
  /\ owner \in [Msg -> Var \cup {NULL}]

(* The lists of get_armci_nbhandle, nga_wait_internal and                  *)
(* nga_test_internal stay lists: an active entry is linked from exactly    *)
(* one GA slot, the one it names, in both directions; the counts agree.    *)
ListsIntact ==
  /\ \A i \in Ring :
       /\ ga_ihdl[i].count = Cardinality(Chain(i))
       /\ \A a \in Chain(i) :
            LET e == armci_ihdl[a]
            IN /\ e.active /\ e.ga = i
               /\ e.next # NULL => armci_ihdl[e.next].previous = a
               /\ IF a = ga_ihdl[i].ahandle THEN e.previous = NULL
                  ELSE e.previous \in Chain(i) /\ armci_ihdl[e.previous].next = a
  /\ \A a \in Ring : armci_ihdl[a].active => a \in Chain(armci_ihdl[a].ga)

(* While the handle of a call is current, a transfer of it that is not     *)
(* complete is in the list a wait on the handle walks: whoever took its    *)
(* entries, its ComEx handle or its GA slot has completed it.              *)
PendingIsListed ==
  \A v \in Var : \A m \in Pending(v) :
    \/ call.pc = "blocked"
    \/ call.pc = "ghosts"
    \/ /\ hv[v].tag = ga_ihdl[hv[v].index].tag
       /\ \E a \in Chain(hv[v].index) : m \in Reached(armci_ihdl[a].handle)

(* The two tables of handles, across all takings and recyclings.           *)
HandleListsIntact == ListsIntact /\ PendingIsListed

(* When pnga_nbwait returns, all transfers of the operation are complete,  *)
(* even if the handle was given to another operation in the meantime.      *)
WaitCompletes == [][\A u \in User : pnga_nbwait(u) => Pending(<<"user", u>>)' = {}]_vars

(* pnga_nbtest never says that an operation is complete that is not.       *)
TestIsHonest == \A u \in User : TestSaysDone(u) => Pending(<<"user", u>>) = {}

(* A blocking put, get or accumulate, a fence and an update of ghost cells *)
(* return with nothing of theirs pending: the buffers are the caller's.    *)
BlockingCompletes == call.pc = "idle" => Pending(Temp) = {} /\ Pending(Nested) = {}

(* pnga_nbwait_notify frees the copy of the element only when no message   *)
(* reads it, and its slot only when both puts are complete.                *)
NotifySlotsComplete ==
  \A s \in Slot : putn[s] = NULL => Pending(<<"firsthdl", s>>) = {} /\ Pending(<<"elementhdl", s>>) = {}

(* Whoever is told that an operation is over, by the return of a blocking  *)
(* call, a test or the release of a notify slot, is told the truth.        *)
AnswersHonest == TestIsHonest /\ BlockingCompletes /\ NotifySlotsComplete

(* Every call returns: no handle is waited for that nobody will complete.  *)
CallsReturn == (call.pc # "idle") ~> (call.pc = "idle")
=============================================================================
