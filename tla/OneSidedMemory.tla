--------------------------- MODULE OneSidedMemory ---------------------------
(***************************************************************************)
(* What the one-sided operations of ComEx promise, without messages:       *)
(* every location changes atomically; the operations of one process on one *)
(* location take effect in the order of its calls, so that a process reads *)
(* its own writes; answers come back in that order too; and a barrier      *)
(* completes only when every write issued before it has taken effect.      *)
(***************************************************************************)
EXTENDS Integers, Sequences

CONSTANTS
  Process, Location,
  Value,    \* what an operation may carry
  NoAnswer

VARIABLES
  mem,     \* value of each location
  queue,   \* queue[p][l]: operations of p on l that have not taken effect
  answers, \* answers[p][l]: values on their way back to p
  buf,     \* the last answer p received, and where from
  round    \* parity of the number of barriers

vars == <<mem, queue, answers, buf, round>>

Write == {"PUT", "ACC"}
Fetch == {"GET", "FETCH_AND_ADD", "SWAP"}

(* The value a location has after an operation.                            *)
Effect(o, old) ==
  CASE o.op \in {"PUT", "SWAP"} -> o.val
    [] o.op \in {"ACC", "FETCH_AND_ADD"} -> old + o.val
    [] OTHER -> old

Init ==
  /\ mem = [l \in Location |-> 0]
  /\ queue = [p \in Process |-> [l \in Location |-> << >>]]
  /\ answers = [p \in Process |-> [l \in Location |-> << >>]]
  /\ buf = [p \in Process |-> NoAnswer]
  /\ round = 0

(* The first two conjuncts spare the model checker most of the third.      *)
Issue(p, l) ==
  /\ UNCHANGED <<mem, buf, round>>
  /\ Len(queue'[p][l]) > Len(queue[p][l])
  /\ \E op \in Write \cup Fetch, val \in Value :
       queue' = [queue EXCEPT ![p][l] = Append(@, [op |-> op, val |-> val])]
  /\ UNCHANGED answers

Apply(p, l) ==
  /\ queue[p][l] # << >>
  /\ LET o == Head(queue[p][l])
     IN /\ mem' = [mem EXCEPT ![l] = Effect(o, @)]
        /\ answers' = [answers EXCEPT ![p][l] =
                         IF o.op \in Fetch THEN Append(@, mem[l]) ELSE @]
  /\ queue' = [queue EXCEPT ![p][l] = Tail(@)]
  /\ UNCHANGED <<buf, round>>

Receive(p, l) ==
  /\ answers[p][l] # << >>
  /\ buf' = [buf EXCEPT ![p] = <<l, Head(answers[p][l])>>]
  /\ answers' = [answers EXCEPT ![p][l] = Tail(@)]
  /\ UNCHANGED <<mem, queue, round>>

(* An operation that is issued, applied and answered at once; nothing that *)
(* p issued on l before may be outstanding.                                *)
Direct(p, l) ==
  /\ queue[p][l] = << >> /\ UNCHANGED round
  /\ \/ \E op \in Write, val \in Value :
          /\ mem' = [mem EXCEPT ![l] = Effect([op |-> op, val |-> val], @)]
          /\ UNCHANGED buf
     \/ /\ buf' = [buf EXCEPT ![p] = <<l, mem[l]>>]
        /\ UNCHANGED mem
  /\ UNCHANGED <<queue, answers>>

Barrier ==
  /\ round' = 1 - round
  /\ \A p \in Process, l \in Location : \A i \in DOMAIN queue[p][l] :
       queue[p][l][i].op \notin Write
  /\ UNCHANGED <<mem, queue, answers, buf>>

Next ==
  \/ Barrier
  \/ \E p \in Process, l \in Location :
       Issue(p, l) \/ Apply(p, l) \/ Receive(p, l) \/ Direct(p, l)

Spec == Init /\ [][Next]_vars

=============================================================================
