----------------------------- MODULE GaNbProofs -----------------------------
(***************************************************************************)
(* Proofs about the non-blocking handles, of ComEx and of Global Arrays,   *)
(* for rings of any length, any patches and any number of operations.      *)
(***************************************************************************)
EXTENDS GaNb, FiniteSetTheorems, WellFoundedInduction, TLAPS

-----------------------------------------------------------------------------
(* The invariant.                                                          *)

(* A list of messages of handle h, as nb_wait_for_all and nb_test_for_all  *)
(* leave it: the tail may be cleared early, it never points elsewhere.     *)
ListSound(l, h) ==
  /\ l \in List
  /\ \A p \in DOMAIN l.head : l.head[p][1] = h
  /\ l.size = Cardinality(DOMAIN l.head)
  /\ DOMAIN l.head = {} => l.tail = NULL
  /\ DOMAIN l.head # {} => l.tail \in {NULL, l.head[Max(DOMAIN l.head)]}

(* The messages posted on h.                                               *)
On(h) == {m \in posted : m[1] = h}

RingSound ==
  /\ nb_state \in [Ring -> Handle]
  /\ nb_index \in Ring
  /\ \A h \in Ring : ListSound(nb_state[h].send, h) /\ ListSound(nb_state[h].recv, h)
  /\ \A h \in Ring : Reached(h) = On(h)
  /\ posted \subseteq Msg /\ done \subseteq posted
  /\ UnusedHandlesEmpty

-----------------------------------------------------------------------------
(* Searching a ring, and the largest place of a list.                      *)

(* A remainder is below the divisor.                                       *)
LEMMA Remainder ==
  ASSUME NEW x \in Int, NEW n \in Nat \ {0}
  PROVE  x % n \in 0 .. n - 1
OBVIOUS

(* A set of natural numbers has a smallest one.                            *)
LEMMA Smallest ==
  ASSUME NEW S \in SUBSET Nat, S # {}
  PROVE  \E n \in S : \A m \in S : n <= m
<1>1. \E n \in S : \A m \in S : ~ (<<m, n>> \in OpToRel(<, Nat))
  BY NatLessThanWellFounded, WFMin, Zenon
<1>2. PICK n \in S : \A m \in S : ~ (m < n)
  BY <1>1, Zenon DEF OpToRel
<1>3. QED
  BY <1>2

(* The place of the last message of a list that has one.                   *)
LEMMA LastPlace ==
  ASSUME NEW n \in Nat, NEW S \in SUBSET (0 .. n), S # {}
  PROVE  Max(S) \in S /\ \A p \in S : p <= Max(S)
<1> DEFINE D == {n - p : p \in S}
<1>1. D \in SUBSET Nat /\ D # {}
  <2>1. \A p \in S : n - p \in Nat
    OBVIOUS
  <2>2. QED
    BY <2>1
<1>2. PICK d \in D : \A e \in D : d <= e
  BY <1>1, Smallest
<1>3. PICK p \in S : d = n - p
  BY <1>2
<1>4. \A q \in S : p >= q
  <2>1. TAKE q \in S
  <2>2. n - q \in D
    OBVIOUS
  <2>3. n - p <= n - q /\ p \in Int /\ q \in Int
    BY <1>2, <1>3, <2>2
  <2>4. QED
    BY <2>3
<1>5. QED
  BY <1>4 DEF Max

(* The handle, slot or entry the searches around the ring end at is free   *)
(* if there is a free one, and the one they start from otherwise.          *)
LEMMA FirstFromFact ==
  ASSUME NEW start \in Ring, NEW free \in SUBSET Ring
  PROVE  /\ FirstFrom(start, free) \in Ring
         /\ free # {} => FirstFrom(start, free) \in free
         /\ free = {} => FirstFrom(start, free) = start
<1>1. CASE free = {}
  BY <1>1 DEF FirstFrom
<1>2. CASE free # {}
  <2> DEFINE D(i) == (i + NbMax - start) % NbMax
             S == {D(i) : i \in free}
  <2>1. \A i \in free : D(i) \in Nat
    <3>1. TAKE i \in free
    <3>2. i + NbMax - start \in Int /\ NbMax \in Nat \ {0}
      BY NbAssumption DEF Ring
    <3>3. D(i) \in 0 .. NbMax - 1
      BY <3>2, Remainder
    <3>4. QED
      BY <3>2, <3>3
  <2>2. S \in SUBSET Nat /\ S # {}
    <3> HIDE DEF D
    <3>1. QED
      BY <1>2, <2>1
  <2>3. PICK d \in S : \A e \in S : d <= e
    BY <2>2, Smallest
  <2>4. \E i \in free : \A j \in free : D(i) <= D(j)
    <3> HIDE DEF D
    <3>1. QED
      BY <2>3
  <2>5. FirstFrom(start, free) = CHOOSE i \in free : \A j \in free : D(i) <= D(j)
    BY <1>2 DEF FirstFrom
  <2>6. FirstFrom(start, free) \in free
    <3> HIDE DEF D
    <3>1. QED
      BY <2>4, <2>5
  <2>7. QED
    BY <1>2, <2>6
<1>3. QED
  BY <1>1, <1>2

(* The searches go on from a handle of the ring.                           *)
LEMMA Next1Fact == \A i \in Ring : Next1(i) \in Ring
<1>1. TAKE i \in Ring
<1>2. i + 1 \in Int /\ NbMax \in Nat \ {0}
  BY NbAssumption DEF Ring
<1>3. QED
  BY <1>2, Remainder DEF Next1, Ring

-----------------------------------------------------------------------------
(* Lists of messages.                                                      *)

(* A record of a list, put together again.                                 *)
LEMMA ListTyped ==
  ASSUME NEW P \in SUBSET (1 .. MsgMax), NEW f \in [P -> Msg], NEW t \in Msg \cup {NULL}, NEW n \in Nat
  PROVE  [head |-> f, tail |-> t, size |-> n] \in List
BY DEF List

(* The head, tail and size of a list of message_t, and that it is finite.  *)
LEMMA ListFacts ==
  ASSUME NEW l \in List
  PROVE  /\ DOMAIN l.head \in SUBSET (1 .. MsgMax)
         /\ l.head \in [DOMAIN l.head -> Msg]
         /\ l.tail \in Msg \cup {NULL}
         /\ l.size \in Nat
         /\ l = [head |-> l.head, tail |-> l.tail, size |-> l.size]
         /\ IsFiniteSet(DOMAIN l.head)
<1>1. PICK P \in SUBSET (1 .. MsgMax) : l.head \in [P -> Msg]
  BY DEF List
<1>2. DOMAIN l.head = P
  BY <1>1
<1>3. l.tail \in Msg \cup {NULL} /\ l.size \in Nat
      /\ l = [head |-> l.head, tail |-> l.tail, size |-> l.size]
  BY DEF List
<1>4. IsFiniteSet(1 .. MsgMax)
  BY FS_Interval, NbAssumption
<1>5. IsFiniteSet(P)
  BY <1>4, FS_Subset
<1>6. QED
  BY <1>1, <1>2, <1>3, <1>5

(* A list without messages is like the one comex_init made.                *)
LEMMA EmptySound ==
  ASSUME NEW h
  PROVE  ListSound(Empty, h) /\ DOMAIN Empty.head = {}
<1>1. << >> \in [{} -> Msg] /\ DOMAIN << >> = {}
  OBVIOUS
<1>2. Empty \in List
  BY <1>1, ListTyped DEF Empty
<1>3. Cardinality({}) = 0
  BY FS_EmptySet
<1>4. QED
  BY <1>1, <1>2, <1>3 DEF Empty, ListSound

(* The assertions of comex_test and nb_wait_all.                           *)
LEMMA NothingLeft ==
  ASSUME NEW h, NEW l, ListSound(l, h), DOMAIN l.head = {}
  PROVE  l = Empty
<1>1. l \in List
  BY DEF ListSound
<1>2. l.size = 0 /\ l.tail = NULL
  BY FS_EmptySet DEF ListSound
<1>3. l.head = << >>
  <2>1. l.head \in [{} -> Msg]
    BY <1>1, ListFacts
  <2>2. QED
    BY <2>1
<1>4. QED
  BY <1>1, <1>2, <1>3, ListFacts DEF Empty

(* nb_wait_for_all leaves a list empty.                                    *)
LEMMA DrainedFact ==
  ASSUME NEW h, NEW l, ListSound(l, h)
  PROVE  Drained(l) = Empty
<1>1. CASE DOMAIN l.head = {}
  BY <1>1, NothingLeft DEF Drained
<1>2. CASE DOMAIN l.head # {}
  <2>1. l.size = Cardinality(DOMAIN l.head) /\ l.size \in Nat
    BY ListFacts DEF ListSound
  <2>2. l.size - Cardinality(DOMAIN l.head) = 0
    BY <2>1
  <2>3. QED
    BY <1>2, <2>2 DEF Drained, Empty
<1>3. QED
  BY <1>1, <1>2

(* nb_test_for_all takes the messages out that are done and no other, and  *)
(* clears the tail only of a list whose last message is done.              *)
LEMMA TestedFact ==
  ASSUME NEW h, NEW l, ListSound(l, h)
  PROVE  /\ ListSound(Tested(l), h)
         /\ Range(Tested(l).head) = Range(l.head) \ done
         /\ DOMAIN Tested(l).head = {p \in DOMAIN l.head : l.head[p] \notin done}
<1> DEFINE places == DOMAIN l.head
           finished == {p \in places : l.head[p] \in done}
           left == places \ finished
           tail == IF places # {} /\ Max(places) \in finished THEN NULL ELSE l.tail
           size == l.size - Cardinality(finished)
<1>1. l \in List /\ places \in SUBSET (1 .. MsgMax) /\ l.head \in [places -> Msg]
      /\ l.tail \in Msg \cup {NULL} /\ IsFiniteSet(places)
  BY ListFacts DEF ListSound
<1>2. Tested(l) = [head |-> Restrict(l.head, left), tail |-> tail, size |-> size]
  BY DEF Tested
<1>3. Restrict(l.head, left) \in [left -> Msg] /\ DOMAIN Restrict(l.head, left) = left
      /\ \A p \in left : Restrict(l.head, left)[p] = l.head[p]
  BY <1>1 DEF Restrict
<1>4. size = Cardinality(left) /\ size \in Nat
  <2>1. IsFiniteSet(finished) /\ IsFiniteSet(left) /\ finished \cap left = {}
        /\ finished \cup left = places
    BY <1>1, FS_Subset
  <2>2. Cardinality(places) = Cardinality(finished) + Cardinality(left) - Cardinality(finished \cap left)
    <3> HIDE DEF finished, left, places
    <3>1. QED
      BY <2>1, FS_Union
  <2>3. Cardinality(finished) \in Nat /\ Cardinality(left) \in Nat /\ Cardinality(finished \cap left) = 0
    BY <2>1, FS_CardinalityType, FS_EmptySet
  <2>4. l.size = Cardinality(places)
    BY DEF ListSound
  <2>5. QED
    <3> HIDE DEF finished, left, places
    <3>1. QED
      BY <2>2, <2>3, <2>4
<1>5. tail \in Msg \cup {NULL}
  BY <1>1
<1>6. Tested(l) \in List
  <2> HIDE DEF size, tail
  <2>1. left \in SUBSET (1 .. MsgMax)
    BY <1>1
  <2> HIDE DEF left
  <2>2. QED
    BY <1>2, <1>3, <1>4, <1>5, <2>1, ListTyped
<1>7. \A p \in left : l.head[p][1] = h
  BY DEF ListSound
<1>8. left = {} => tail = NULL
  <2>1. CASE places = {}
    BY <2>1 DEF ListSound
  <2>2. CASE places # {}
    <3>1. places \in SUBSET (0 .. MsgMax) /\ MsgMax \in Nat
      BY <1>1, NbAssumption
    <3>2. Max(places) \in places
      BY <2>2, <3>1, LastPlace
    <3>3. QED
      BY <2>2, <3>2
  <2>3. QED
    BY <2>1, <2>2
<1>9. left # {} => tail \in {NULL, l.head[Max(left)]}
  <2>1. ASSUME left # {}, tail # NULL PROVE tail = l.head[Max(left)]
    <3>1. places \in SUBSET (0 .. MsgMax) /\ MsgMax \in Nat /\ left \in SUBSET (0 .. MsgMax)
      BY <1>1, NbAssumption
    <3>2. /\ Max(places) \in places /\ \A p \in places : p <= Max(places)
          /\ Max(left) \in left /\ \A p \in left : p <= Max(left)
      <4> HIDE DEF left
      <4>1. left \subseteq places
        BY DEF left
      <4>2. places # {}
        BY <4>1, <2>1
      <4>3. QED
        BY <2>1, <4>2, <3>1, LastPlace
    <3>3. Max(places) \notin finished /\ tail = l.tail
      BY <2>1, <3>2
    <3>4. Max(places) \in left
      BY <3>2, <3>3
    <3>5. Max(left) = Max(places)
      <4>1. Max(places) <= Max(left) /\ Max(left) <= Max(places)
            /\ Max(places) \in Int /\ Max(left) \in Int
        BY <3>1, <3>2, <3>4
      <4>2. QED
        BY <4>1
    <3>6. l.tail \in {NULL, l.head[Max(places)]}
      BY <3>2 DEF ListSound
    <3>7. QED
      BY <2>1, <3>3, <3>5, <3>6
  <2>2. QED
    BY <2>1
<1>10. Range(Restrict(l.head, left)) = Range(l.head) \ done
  BY <1>1, <1>3 DEF Range
<1>11. ListSound(Tested(l), h)
  <2>1. DOMAIN Tested(l).head = left /\ Tested(l).tail = tail /\ Tested(l).size = size
        /\ \A p \in left : Tested(l).head[p] = l.head[p]
    BY <1>2, <1>3
  <2>2. left # {} => Tested(l).head[Max(left)] = l.head[Max(left)]
    <3>1. left \in SUBSET (0 .. MsgMax) /\ MsgMax \in Nat
      BY <1>1, NbAssumption
    <3> HIDE DEF left
    <3>2. left # {} => Max(left) \in left
      BY <3>1, LastPlace
    <3>3. QED
      BY <2>1, <3>2
  <2> HIDE DEF left, size, tail
  <2>3. QED
    BY <1>4, <1>6, <1>7, <1>8, <1>9, <2>1, <2>2 DEF ListSound
<1>12. left = {p \in DOMAIN l.head : l.head[p] \notin done}
  OBVIOUS
<1>13. Tested(l).head = Restrict(l.head, left)
  BY <1>2
<1>14. QED
  BY <1>3, <1>10, <1>11, <1>12, <1>13

(* The messages of an operation are reached, in the order they are posted, *)
(* from a list that had none.                                              *)
LEMMA PushFact ==
  ASSUME NEW h \in Ring, NEW P \in SUBSET (1 .. MsgMax),
         NEW new \in [P -> {h} \X (1 .. MsgMax)]
  PROVE  ListSound(PushAll(Empty, new), h) /\ Range(PushAll(Empty, new).head) = Range(new)
<1>1. DOMAIN new = P /\ DOMAIN Empty.head = {} /\ Empty.size = 0
  BY EmptySound DEF Empty
<1>2. CASE P = {}
  <2>1. PushAll(Empty, new) = Empty
    BY <1>1, <1>2 DEF PushAll
  <2>2. QED
    BY <1>1, <1>2, <2>1, EmptySound DEF Range
<1>3. CASE P # {}
  <2> DEFINE l == PushAll(Empty, new)
             behind == {0 + p : p \in P}
  <2>1. Max({0} \cup {}) = 0
    <3>1. {0} \cup {} \in SUBSET (0 .. 0) /\ 0 \in Nat /\ {0} \cup {} # {}
      OBVIOUS
    <3>2. Max({0} \cup {}) \in {0} \cup {}
      BY <3>1, LastPlace
    <3>3. QED
      BY <3>2
  <2>2. behind = P
    <3>1. \A p \in P : 0 + p = p
      OBVIOUS
    <3>2. QED
      BY <3>1
  <2>3. l = [head |-> [p \in P |-> new[p - 0]], tail |-> new[Max(P)], size |-> 0 + Cardinality(P)]
    BY <1>1, <1>3, <2>1, <2>2 DEF PushAll
  <2>4. [p \in P |-> new[p - 0]] = new
    <3>1. \A p \in P : p - 0 = p
      OBVIOUS
    <3>2. QED
      BY <3>1
  <2>5. P \in SUBSET (0 .. MsgMax) /\ MsgMax \in Nat
    BY NbAssumption
  <2>6. Max(P) \in P
    BY <1>3, <2>5, LastPlace
  <2>7. IsFiniteSet(P) /\ Cardinality(P) \in Nat
    <3>1. IsFiniteSet(0 .. MsgMax)
      BY <2>5, FS_Interval
    <3>2. IsFiniteSet(P)
      BY <2>5, <3>1, FS_Subset
    <3>3. QED
      BY <3>2, FS_CardinalityType
  <2>8. l = [head |-> new, tail |-> new[Max(P)], size |-> Cardinality(P)]
    <3>1. 0 + Cardinality(P) = Cardinality(P)
      BY <2>7
    <3>2. QED
      BY <2>3, <2>4, <3>1
  <2> HIDE DEF l
  <2>9. new \in [P -> Msg] /\ new[Max(P)] \in Msg /\ \A p \in P : new[p][1] = h
    BY <2>6 DEF Msg
  <2>10. l \in List
    BY <2>7, <2>8, <2>9, ListTyped
  <2>11. l.head = new /\ l.tail = new[Max(P)] /\ l.size = Cardinality(P)
    BY <2>8
  <2>12. ListSound(l, h)
    BY <1>1, <1>3, <2>9, <2>10, <2>11 DEF ListSound
  <2>13. QED
    BY <2>11, <2>12 DEF l
<1>4. QED
  BY <1>2, <1>3

-----------------------------------------------------------------------------
(* Handles of the ring.                                                    *)

Messages(nb) == Range(nb.send.head) \cup Range(nb.recv.head)

HandleSound(nb, h) ==
  /\ nb \in Handle
  /\ ListSound(nb.send, h) /\ ListSound(nb.recv, h)
  /\ ~ nb.in_use => Messages(nb) = {}

(* The invariant of the ring says this of each handle.                     *)
LEMMA RingFacts ==
  ASSUME RingSound, NEW h \in Ring
  PROVE  /\ HandleSound(nb_state[h], h)
         /\ Messages(nb_state[h]) = On(h)
         /\ Reached(h) = On(h)
<1>1. Reached(h) = Messages(nb_state[h])
  BY DEF Reached, Messages
<1>2. ~ nb_state[h].in_use => Reached(h) = {}
  BY DEF RingSound, UnusedHandlesEmpty, Unused
<1>3. QED
  BY <1>1, <1>2 DEF RingSound, HandleSound

(* And follows from it.                                                    *)
LEMMA RingStep ==
  ASSUME nb_state' \in [Ring -> Handle],
         \A h \in Ring : HandleSound(nb_state'[h], h) /\ Messages(nb_state'[h]) = On(h)',
         nb_index' \in Ring, posted' \subseteq Msg, done' \subseteq posted'
  PROVE  RingSound'
<1>1. \A h \in Ring : Reached(h)' = Messages(nb_state'[h])
  BY DEF Reached, Messages
<1>2. UnusedHandlesEmpty'
  <2>1. ASSUME NEW h \in Unused' PROVE Reached(h)' = {}
    <3>1. h \in Ring /\ ~ nb_state'[h].in_use
      BY <2>1 DEF Unused
    <3>2. QED
      BY <1>1, <3>1 DEF HandleSound
  <2>2. QED
    BY <2>1 DEF UnusedHandlesEmpty
<1>3. \A h \in Ring : ListSound(nb_state'[h].send, h) /\ ListSound(nb_state'[h].recv, h)
  BY DEF HandleSound
<1>4. \A h \in Ring : ListSound(nb_state[h].send, h)' /\ ListSound(nb_state[h].recv, h)'
  BY <1>3 DEF ListSound
<1>5. \A h \in Ring : Reached(h)' = On(h)'
  BY <1>1
<1>6. QED
  BY <1>2, <1>4, <1>5 DEF RingSound

(* nb_wait_for_all on a handle leaves it free and empty.                   *)
LEMMA ReleasedFact ==
  ASSUME NEW h, NEW nb, HandleSound(nb, h)
  PROVE  /\ Released(nb) = [in_use |-> FALSE, send |-> Empty, recv |-> Empty]
         /\ HandleSound(Released(nb), h)
         /\ Messages(Released(nb)) = {}
<1>1. Released(nb) = [in_use |-> FALSE, send |-> Empty, recv |-> Empty]
  BY DrainedFact DEF Released, HandleSound
<1>2. Empty \in List /\ ListSound(Empty, h) /\ Range(Empty.head) = {}
  BY EmptySound DEF ListSound, Range
<1>3. Released(nb).send = Empty /\ Released(nb).recv = Empty /\ Released(nb).in_use = FALSE
  BY <1>1
<1>4. Messages(Released(nb)) = {}
  BY <1>2, <1>3 DEF Messages
<1>5. Released(nb) \in Handle
  BY <1>1, <1>2 DEF Handle
<1>6. QED
  BY <1>1, <1>2, <1>3, <1>4, <1>5 DEF HandleSound

(* nb_wait_for_all: what was posted on the handles is gone, the rest is    *)
(* still there.                                                            *)
LEMMA WaitRing ==
  ASSUME RingSound, NEW hs \in SUBSET Ring, nb_wait_for_all(hs), nb_index' = nb_index
  PROVE  RingSound' /\ posted' = {m \in posted : m[1] \notin hs}
<1>1. posted \subseteq Msg /\ done \subseteq posted /\ nb_index \in Ring
  BY DEF RingSound
<1> DEFINE gone == UNION {Reached(h) : h \in hs}
<1>2. \A m \in posted : m \in gone <=> m[1] \in hs
  BY RingFacts DEF On
<1>3. posted' = posted \ gone /\ done' = done \ gone
  BY DEF nb_wait_for_all, Retire
<1> HIDE DEF gone
<1>4. posted' = {m \in posted : m[1] \notin hs}
  BY <1>2, <1>3
<1>5. nb_state' = [h \in Ring |-> IF h \in hs THEN Released(nb_state[h]) ELSE nb_state[h]]
  BY DEF nb_wait_for_all
<1>6. ASSUME NEW h \in Ring
      PROVE  HandleSound(nb_state'[h], h) /\ Messages(nb_state'[h]) = On(h)'
  <2>1. HandleSound(nb_state[h], h) /\ Messages(nb_state[h]) = On(h)
    BY RingFacts
  <2>2. CASE h \in hs
    <3>1. nb_state'[h] = Released(nb_state[h])
      BY <1>5, <2>2
    <3>2. On(h)' = {}
      BY <1>4, <2>2 DEF On
    <3>3. QED
      BY <2>1, <3>1, <3>2, ReleasedFact
  <2>3. CASE h \notin hs
    <3>1. nb_state'[h] = nb_state[h]
      BY <1>5, <2>3
    <3>2. On(h)' = On(h)
      BY <1>4, <2>3 DEF On
    <3>3. QED
      BY <2>1, <3>1, <3>2
  <2>4. QED
    BY <2>2, <2>3
<1>7. nb_state' \in [Ring -> Handle]
  BY <1>5, <1>6 DEF HandleSound
<1>8. posted' \subseteq Msg /\ done' \subseteq posted'
  BY <1>1, <1>3
<1>9. QED
  BY <1>1, <1>4, <1>6, <1>7, <1>8, RingStep

(* nb_test_for_all: the messages that are done are gone, and the handle is *)
(* free once it has none.                                                  *)
LEMMA TestRing ==
  ASSUME RingSound, NEW h \in Ring, nb_test_for_all(h), nb_index' = nb_index
  PROVE  /\ RingSound'
         /\ posted' \subseteq posted
         /\ TestsComplete(h) => posted' = {m \in posted : m[1] # h}
<1>1. posted \subseteq Msg /\ done \subseteq posted /\ nb_index \in Ring
      /\ nb_state \in [Ring -> Handle]
  BY DEF RingSound
<1>2. posted' = posted \ (Reached(h) \cap done) /\ done' = done \ (Reached(h) \cap done)
  BY DEF nb_test_for_all, Retire
<1>3. Reached(h) = On(h) /\ HandleSound(nb_state[h], h)
  BY RingFacts
<1>4. TestsComplete(h) => posted' = {m \in posted : m[1] # h}
  BY <1>2, <1>3 DEF TestsComplete, On
<1> DEFINE send == Tested(nb_state[h].send)
           recv == Tested(nb_state[h].recv)
           left == DOMAIN send.head \cup DOMAIN recv.head
           nb == [in_use |-> nb_state[h].in_use /\ left # {}, send |-> send, recv |-> recv]
<1>5. nb_state' = [nb_state EXCEPT ![h] = nb]
  BY <1>1 DEF nb_test_for_all
<1>6. /\ ListSound(send, h) /\ ListSound(recv, h)
      /\ Range(send.head) = Range(nb_state[h].send.head) \ done
      /\ Range(recv.head) = Range(nb_state[h].recv.head) \ done
  BY <1>3, TestedFact DEF HandleSound
<1>7. /\ Range(nb_state[h].send.head) \cup Range(nb_state[h].recv.head) = On(h)
      /\ ~ nb_state[h].in_use => On(h) = {}
  BY <1>3, RingFacts DEF HandleSound, Messages
<1>8. Range(send.head) \cup Range(recv.head) = On(h) \ done
  BY <1>6, <1>7
<1>9. left = {} => Range(send.head) \cup Range(recv.head) = {}
  <2> HIDE DEF send, recv
  <2>1. QED
    BY DEF Range
<1> HIDE DEF left
<1>10. nb \in Handle
  <2>1. send \in List /\ recv \in List
    BY <1>6 DEF ListSound
  <2>2. (nb_state[h].in_use /\ left # {}) \in BOOLEAN
    BY <1>3 DEF HandleSound, Handle
  <2> HIDE DEF send, recv
  <2>3. QED
    BY <2>1, <2>2 DEF Handle
<1>11. nb.send = send /\ nb.recv = recv /\ (nb.in_use <=> nb_state[h].in_use /\ left # {})
  OBVIOUS
<1> HIDE DEF nb, send, recv
<1>12. Messages(nb) = On(h) \ done
  BY <1>8, <1>11 DEF Messages
<1>13. HandleSound(nb, h)
  <2>1. ~ nb.in_use => Messages(nb) = {}
    BY <1>7, <1>8, <1>9, <1>11, <1>12
  <2>2. QED
    BY <1>6, <1>10, <1>11, <2>1 DEF HandleSound
<1>14. ASSUME NEW g \in Ring
       PROVE  HandleSound(nb_state'[g], g) /\ Messages(nb_state'[g]) = On(g)'
  <2>1. CASE g = h
    <3>1. nb_state'[g] = nb
      BY <1>1, <1>5, <2>1
    <3>2. On(g)' = On(h) \ done
      BY <1>2, <1>3, <2>1 DEF On
    <3>3. QED
      BY <1>12, <1>13, <2>1, <3>1, <3>2
  <2>2. CASE g # h
    <3>1. nb_state'[g] = nb_state[g]
      BY <1>1, <1>5, <2>2
    <3>2. On(g)' = On(g)
      BY <1>2, <1>3, <2>2 DEF On
    <3>3. QED
      BY <3>1, <3>2, RingFacts
  <2>3. QED
    BY <2>1, <2>2
<1>15. nb_state' \in [Ring -> Handle]
  BY <1>1, <1>5, <1>10
<1>16. posted' \subseteq Msg /\ done' \subseteq posted' /\ nb_index' \in Ring
  BY <1>1, <1>2
<1>17. QED
  BY <1>2, <1>4, <1>14, <1>15, <1>16, RingStep

(* MPI finishes a request.                                                 *)
LEMMA CompleteRing ==
  ASSUME RingSound, NEW m, Complete(m)
  PROVE  RingSound' /\ posted' = posted
<1>1. /\ m \in posted /\ done' = done \cup {m}
      /\ nb_state' = nb_state /\ nb_index' = nb_index /\ posted' = posted
  BY DEF Complete
<1>2. \A h \in Ring : HandleSound(nb_state'[h], h) /\ Messages(nb_state'[h]) = On(h)'
  BY <1>1, RingFacts DEF On
<1>3. nb_state' \in [Ring -> Handle] /\ nb_index' \in Ring /\ posted' \subseteq Msg /\ done' \subseteq posted'
  BY <1>1 DEF RingSound
<1>4. QED
  BY <1>1, <1>2, <1>3, RingStep

(* The handle given away is one of the ring; without waiting only one that *)
(* has no message.                                                         *)
LEMMA ChosenFact ==
  ASSUME RingSound
  PROVE  Chosen \in Ring /\ (Unused # {} => On(Chosen) = {})
<1>1. nb_index \in Ring /\ Unused \in SUBSET Ring
  BY DEF RingSound, Unused
<1>2. Chosen \in Ring /\ (Unused # {} => Chosen \in Unused)
  BY <1>1, FirstFromFact DEF Chosen
<1>3. Unused # {} => Reached(Chosen) = {}
  BY <1>2 DEF RingSound, UnusedHandlesEmpty
<1>4. QED
  BY <1>2, <1>3, RingFacts

(* There are always messages for an operation, none of them in use.        *)
LEMMA FreshFact ==
  ASSUME RingSound, NEW n \in Nat, n <= MsgMax
  PROVE  /\ Fresh(n) \in SUBSET ({Chosen} \X (1 .. MsgMax))
         /\ Cardinality(Fresh(n)) = n
<1> DEFINE kept == IF Unused = {} THEN posted \ Reached(Chosen) ELSE posted
           all == {Chosen} \X (1 .. MsgMax)
           S == {Chosen} \X (1 .. n)
<1>1. Chosen \in Ring /\ MsgMax \in Nat /\ posted \subseteq Msg
  BY ChosenFact, NbAssumption DEF RingSound
<1>2. all \ kept = all
  <2>1. ASSUME NEW m \in all PROVE m \notin kept
    <3>1. m[1] = Chosen
      OBVIOUS
    <3>2. m \in posted => m \in On(Chosen)
      BY <3>1 DEF On
    <3>3. On(Chosen) = Reached(Chosen)
      BY <1>1, RingFacts
    <3>4. QED
      BY <3>2, <3>3, ChosenFact
  <2>2. QED
    BY <2>1
<1>3. S \in SUBSET all
  BY <1>1
<1>4. IsFiniteSet(1 .. n) /\ Cardinality(1 .. n) = n
  <2>1. IsFiniteSet(1 .. n) /\ Cardinality(1 .. n) = IF 1 > n THEN 0 ELSE n - 1 + 1
    BY FS_Interval
  <2>2. QED
    BY <2>1
<1>5. ExistsBijection(1 .. n, S)
  <2> DEFINE f == [k \in 1 .. n |-> <<Chosen, k>>]
  <2>1. f \in [1 .. n -> S]
    OBVIOUS
  <2>2. \A x \in S : \E k \in 1 .. n : f[k] = x
    OBVIOUS
  <2>3. \A j, k \in 1 .. n : f[j] = f[k] => j = k
    OBVIOUS
  <2> HIDE DEF f, S
  <2>4. f \in Bijection(1 .. n, S)
    BY <2>1, <2>2, <2>3 DEF Bijection, Injection, Surjection, IsInjective
  <2>5. QED
    BY <2>4 DEF ExistsBijection
<1>6. Cardinality(S) = n
  <2> HIDE DEF S
  <2>1. QED
    BY <1>4, <1>5, FS_Bijection
<1>7. Fresh(n) = CHOOSE T \in SUBSET (all \ kept) : Cardinality(T) = n
  BY DEF Fresh
<1> HIDE DEF S, kept
<1>8. QED
  BY <1>2, <1>3, <1>6, <1>7

(* The messages in the order they are posted.                              *)
LEMMA OrderFact ==
  ASSUME NEW ms, IsFiniteSet(ms), NEW n \in Nat, Cardinality(ms) = n
  PROVE  \E f \in [1 .. n -> ms] : Range(f) = ms
<1>1. PICK f : f \in Bijection(1 .. n, ms)
  BY FS_CardinalityType DEF ExistsBijection
<1>2. f \in [1 .. n -> ms] /\ \A m \in ms : \E k \in 1 .. n : f[k] = m
  BY <1>1 DEF Bijection, Surjection
<1>3. QED
  BY <1>2 DEF Range

(* nb_wait_for_handle and the sends and receives after it: the handle has  *)
(* the messages of the operation and no other.                             *)
LEMMA PostRing ==
  ASSUME RingSound, NEW s \in Nat, NEW r \in Nat, s + r <= MsgMax, nb_post(s, r)
  PROVE  /\ RingSound'
         /\ Chosen \in Ring
         /\ \A m \in Fresh(s + r) : m \in Msg /\ m[1] = Chosen
         /\ posted' = {m \in posted : m[1] # Chosen} \cup Fresh(s + r)
<1> DEFINE h == Chosen
           ms == Fresh(s + r)
           nb == IF Unused = {} THEN Released(nb_state[h]) ELSE nb_state[h]
           order == CHOOSE f \in [1 .. s + r -> ms] : Range(f) = ms
           sends == Restrict(order, 1 .. s)
           recvs == Restrict(order, s + 1 .. s + r)
           send == PushAll(nb.send, sends)
           recv == PushAll(nb.recv, recvs)
           new == [in_use |-> TRUE, send |-> send, recv |-> recv]
           old == IF Unused = {} THEN Reached(h) ELSE {}
<1>1. /\ nb_index' = Next1(h)
      /\ nb_state' = [nb_state EXCEPT ![h] = new]
      /\ posted' = (posted \ old) \cup ms
      /\ done' = done \ old
      /\ Unused = {} => Reached(h) \subseteq done
  BY DEF nb_post
<1>2. h \in Ring /\ (Unused # {} => On(h) = {}) /\ Reached(h) = On(h)
      /\ HandleSound(nb_state[h], h) /\ Messages(nb_state[h]) = On(h)
  BY ChosenFact, RingFacts
<1>3. posted \subseteq Msg /\ done \subseteq posted /\ nb_state \in [Ring -> Handle]
  BY DEF RingSound
<1>4. ms \in SUBSET ({h} \X (1 .. MsgMax)) /\ Cardinality(ms) = s + r
  BY FreshFact
<1>5. \A m \in ms : m \in Msg /\ m[1] = h
  BY <1>2, <1>4 DEF Msg
<1>6. On(h) = old
  BY <1>2
<1>7. nb.send = Empty /\ nb.recv = Empty
  <2>1. CASE Unused = {}
    <3>1. nb = Released(nb_state[h])
      BY <2>1
    <3>2. Released(nb_state[h]) = [in_use |-> FALSE, send |-> Empty, recv |-> Empty]
      BY <1>2, ReleasedFact
    <3>3. QED
      BY <3>1, <3>2
  <2>2. CASE Unused # {}
    <3>1. nb = nb_state[h]
      BY <2>2
    <3>2. Range(nb_state[h].send.head) = {} /\ Range(nb_state[h].recv.head) = {}
      BY <1>2, <2>2 DEF Messages
    <3>3. DOMAIN nb_state[h].send.head = {} /\ DOMAIN nb_state[h].recv.head = {}
      BY <3>2 DEF Range
    <3>4. nb_state[h].send = Empty /\ nb_state[h].recv = Empty
      BY <1>2, <3>3, NothingLeft DEF HandleSound
    <3>5. QED
      BY <3>1, <3>4
  <2>3. QED
    BY <2>1, <2>2
<1>8. order \in [1 .. s + r -> ms] /\ Range(order) = ms
  <2>1. IsFiniteSet(ms)
    <3>1. IsFiniteSet(1 .. MsgMax)
      BY NbAssumption, FS_Interval
    <3>2. IsFiniteSet({h} \X (1 .. MsgMax))
      BY <3>1, FS_Singleton, FS_Product
    <3>3. QED
      BY <1>4, <3>2, FS_Subset
  <2>2. s + r \in Nat
    OBVIOUS
  <2> HIDE DEF ms
  <2>3. \E f \in [1 .. s + r -> ms] : Range(f) = ms
    BY <1>4, <2>1, <2>2, OrderFact
  <2>4. QED
    BY <2>3
<1> HIDE DEF ms, order, nb, old
<1>9. /\ sends \in [1 .. s -> {h} \X (1 .. MsgMax)]
      /\ recvs \in [s + 1 .. s + r -> {h} \X (1 .. MsgMax)]
      /\ Range(sends) \cup Range(recvs) = ms
  <2>1. DOMAIN order = 1 .. s + r /\ \A k \in 1 .. s + r : order[k] \in ms
    BY <1>8
  <2>2. (1 .. s) \cup (s + 1 .. s + r) = 1 .. s + r
    OBVIOUS
  <2>3. \A k \in 1 .. s + r : order[k] \in {h} \X (1 .. MsgMax)
    BY <1>4, <2>1
  <2>4. sends = [k \in 1 .. s |-> order[k]] /\ recvs = [k \in s + 1 .. s + r |-> order[k]]
    BY <2>1, <2>2 DEF Restrict
  <2>5. Range(sends) \cup Range(recvs) = Range(order)
    BY <2>1, <2>2, <2>4 DEF Range
  <2>6. QED
    BY <1>8, <2>2, <2>3, <2>4, <2>5
<1>10. /\ ListSound(send, h) /\ ListSound(recv, h)
       /\ Range(send.head) \cup Range(recv.head) = ms
  <2>1. 1 .. s \in SUBSET (1 .. MsgMax) /\ s + 1 .. s + r \in SUBSET (1 .. MsgMax)
    BY NbAssumption
  <2> HIDE DEF sends, recvs
  <2>2. ListSound(PushAll(Empty, sends), h) /\ Range(PushAll(Empty, sends).head) = Range(sends)
    BY <1>2, <1>9, <2>1, PushFact
  <2>3. ListSound(PushAll(Empty, recvs), h) /\ Range(PushAll(Empty, recvs).head) = Range(recvs)
    BY <1>2, <1>9, <2>1, PushFact
  <2>4. QED
    BY <1>7, <1>9, <2>2, <2>3
<1> HIDE DEF send, recv
<1>11. new.send = send /\ new.recv = recv /\ new.in_use = TRUE /\ new \in Handle
  BY <1>10 DEF Handle, ListSound
<1> HIDE DEF new
<1>12. HandleSound(new, h) /\ Messages(new) = ms
  BY <1>10, <1>11 DEF HandleSound, Messages
<1>13. posted' = {m \in posted : m[1] # h} \cup ms
  BY <1>1, <1>6 DEF On
<1>14. ASSUME NEW g \in Ring
       PROVE  HandleSound(nb_state'[g], g) /\ Messages(nb_state'[g]) = On(g)'
  <2>1. CASE g = h
    <3>1. nb_state'[g] = new
      BY <1>1, <1>3, <2>1
    <3>2. On(g)' = ms
      BY <1>5, <1>13, <2>1 DEF On, ms
    <3>3. QED
      BY <1>12, <2>1, <3>1, <3>2
  <2>2. CASE g # h
    <3>1. nb_state'[g] = nb_state[g]
      BY <1>1, <1>3, <2>2
    <3>2. On(g)' = On(g)
      BY <1>5, <1>13, <2>2 DEF On, ms
    <3>3. QED
      BY <3>1, <3>2, RingFacts
  <2>3. QED
    BY <2>1, <2>2
<1>15. nb_state' \in [Ring -> Handle] /\ nb_index' \in Ring
  BY <1>1, <1>2, <1>3, <1>11, Next1Fact
<1>16. posted' \subseteq Msg /\ done' \subseteq posted'
  BY <1>1, <1>3, <1>5 DEF ms
<1>17. RingSound'
  BY <1>14, <1>15, <1>16, RingStep
<1>18. QED
  BY <1>2, <1>5, <1>13, <1>17 DEF ms

(* comex_init.                                                             *)
LEMMA InitRing ==
  ASSUME NbInit
  PROVE  RingSound
<1>1. nb_state = [h \in Ring |-> [in_use |-> FALSE, send |-> Empty, recv |-> Empty]]
      /\ nb_index = 0 /\ posted = {} /\ done = {}
  BY DEF NbInit
<1>2. Empty \in List /\ Range(Empty.head) = {}
  BY EmptySound DEF ListSound, Range
<1>3. [in_use |-> FALSE, send |-> Empty, recv |-> Empty] \in Handle
  BY <1>2 DEF Handle
<1>4. \A h \in Ring : nb_state[h].send = Empty /\ nb_state[h].recv = Empty
  BY <1>1
<1>5. \A h \in Ring : Reached(h) = {} /\ On(h) = {}
  BY <1>1, <1>2, <1>4 DEF Reached, On
<1>6. nb_index \in Ring
  BY <1>1, NbAssumption DEF Ring
<1>7. nb_state \in [Ring -> Handle]
  BY <1>1, <1>3
<1>8. QED
  BY <1>1, <1>4, <1>5, <1>6, <1>7, EmptySound DEF RingSound, UnusedHandlesEmpty, Unused

(* What the invariant of the ring is for.                                  *)
LEMMA RingFollows ==
  ASSUME RingSound
  PROVE  RingIntact
<1>1. EveryMessageReachable
  <2>1. \A m \in posted : m[1] \in Ring
    BY DEF RingSound, Msg
  <2>2. \A m : m \in posted <=> \E h \in Ring : m \in Reached(h)
    BY <2>1, RingFacts DEF On
  <2>3. QED
    BY <2>2 DEF EveryMessageReachable
<1>2. EmptyListsAreClean
  BY NothingLeft DEF EmptyListsAreClean, RingSound
<1>3. QED
  BY <1>1, <1>2 DEF RingIntact, RingSound

-----------------------------------------------------------------------------
(* What is linked from an entry.                                           *)

Links == [Ring -> Ring \cup {NULL}]

Closed(head, next, S) == head \in S \cup {NULL} /\ \A a \in S : next[a] \in S \cup {NULL}

(* NULL is no entry.                                                       *)
LEMMA NullFact == NULL \notin Ring /\ NULL \notin Msg
BY NbAssumption DEF Ring

(* The head and the successors of the entries are linked, and every set    *)
(* that has them has all that is linked.                                   *)
LEMMA LinkedLeast ==
  ASSUME NEW next \in Links, NEW head \in Ring \cup {NULL}
  PROVE  /\ LinkedFrom(head, next) \in SUBSET Ring
         /\ Closed(head, next, LinkedFrom(head, next))
         /\ \A S \in SUBSET Ring : Closed(head, next, S) => LinkedFrom(head, next) \subseteq S
<1>1. LinkedFrom(head, next) = {a \in Ring : \A S \in SUBSET Ring : Closed(head, next, S) => a \in S}
  BY DEF LinkedFrom, Closed
<1>2. Closed(head, next, Ring)
  BY DEF Closed, Links
<1> DEFINE L == LinkedFrom(head, next)
<1>3. head \in L \cup {NULL}
  <2>1. \A S \in SUBSET Ring : Closed(head, next, S) => head \in S \cup {NULL}
    BY DEF Closed
  <2>2. QED
    BY <1>1, <2>1
<1>4. ASSUME NEW a \in L PROVE next[a] \in L \cup {NULL}
  <2>1. \A S \in SUBSET Ring : Closed(head, next, S) => next[a] \in S \cup {NULL}
    BY <1>1 DEF Closed
  <2>2. next[a] \in Ring \cup {NULL}
    BY <1>1 DEF Links
  <2>3. QED
    BY <1>1, <2>1, <2>2
<1>5. QED
  BY <1>1, <1>3, <1>4 DEF Closed

(* An empty list.                                                          *)
LEMMA LinkedNone ==
  ASSUME NEW next \in Links
  PROVE  LinkedFrom(NULL, next) = {}
<1>1. Closed(NULL, next, {})
  BY DEF Closed
<1>2. QED
  BY <1>1, LinkedLeast

(* A list does not change with the pointers of entries it has not.         *)
LEMMA LinkedFrame ==
  ASSUME NEW next \in Links, NEW next2 \in Links, NEW head \in Ring \cup {NULL},
         \A a \in LinkedFrom(head, next) : next2[a] = next[a]
  PROVE  LinkedFrom(head, next2) = LinkedFrom(head, next)
<1> DEFINE L == LinkedFrom(head, next)
           M == LinkedFrom(head, next2)
<1>1. L \in SUBSET Ring /\ Closed(head, next, L) /\ M \in SUBSET Ring /\ Closed(head, next2, M)
  BY LinkedLeast
<1>2. M \subseteq L
  <2>1. Closed(head, next2, L)
    BY <1>1 DEF Closed
  <2>2. QED
    BY <1>1, <2>1, LinkedLeast
<1>3. L \subseteq M
  <2>1. Closed(head, next, M)
    BY <1>1, <1>2 DEF Closed
  <2>2. QED
    BY <1>1, <2>1, LinkedLeast
<1>4. QED
  BY <1>2, <1>3

(* An entry put in front.                                                  *)
LEMMA LinkedPush ==
  ASSUME NEW next \in Links, NEW next2 \in Links, NEW head \in Ring \cup {NULL}, NEW a \in Ring,
         a \notin LinkedFrom(head, next), next2[a] = head,
         \A b \in LinkedFrom(head, next) : next2[b] = next[b]
  PROVE  LinkedFrom(a, next2) = {a} \cup LinkedFrom(head, next)
<1> DEFINE L == LinkedFrom(head, next)
           M == LinkedFrom(a, next2)
<1>1. L \in SUBSET Ring /\ Closed(head, next, L) /\ M \in SUBSET Ring /\ Closed(a, next2, M)
  BY LinkedLeast
<1>2. M \subseteq {a} \cup L
  <2>1. Closed(a, next2, {a} \cup L)
    BY <1>1 DEF Closed
  <2>2. QED
    BY <1>1, <2>1, LinkedLeast
<1>3. a \in M
  BY <1>1, NullFact DEF Closed
<1>4. L \subseteq M
  <2>1. Closed(head, next, M \cap L)
    BY <1>1, <1>3 DEF Closed
  <2>2. QED
    BY <1>1, <2>1, LinkedLeast
<1>5. QED
  BY <1>2, <1>3, <1>4

(* An entry a list has is its head or the successor of another.            *)
LEMMA LinkedBehind ==
  ASSUME NEW next \in Links, NEW head \in Ring \cup {NULL}, NEW a \in LinkedFrom(head, next), a # head
  PROVE  \E b \in LinkedFrom(head, next) \ {a} : next[b] = a
<1> DEFINE L == LinkedFrom(head, next)
<1>1. L \in SUBSET Ring /\ Closed(head, next, L)
  BY LinkedLeast
<1>2. SUFFICES ASSUME \A b \in L \ {a} : next[b] # a PROVE FALSE
  OBVIOUS
<1>3. Closed(head, next, L \ {a})
  BY <1>1, <1>2 DEF Closed
<1>4. QED
  BY <1>1, <1>3, LinkedLeast

(* The head taken out.                                                     *)
LEMMA LinkedPop ==
  ASSUME NEW next \in Links, NEW a \in Ring, \A b \in LinkedFrom(a, next) : next[b] # a
  PROVE  LinkedFrom(next[a], next) = LinkedFrom(a, next) \ {a}
<1> DEFINE L == LinkedFrom(a, next)
           M == LinkedFrom(next[a], next)
<1>1. next[a] \in Ring \cup {NULL}
  BY DEF Links
<1>2. L \in SUBSET Ring /\ Closed(a, next, L) /\ M \in SUBSET Ring /\ Closed(next[a], next, M)
  BY <1>1, LinkedLeast
<1>3. a \in L
  BY <1>2, NullFact DEF Closed
<1>4. M \subseteq L \ {a}
  <2>1. Closed(next[a], next, L \ {a})
    BY <1>2, <1>3 DEF Closed
  <2>2. QED
    BY <1>1, <1>2, <2>1, LinkedLeast
<1>5. L \subseteq {a} \cup M
  <2>1. Closed(a, next, {a} \cup M)
    BY <1>2 DEF Closed
  <2>2. QED
    BY <1>2, <2>1, LinkedLeast
<1>6. QED
  BY <1>4, <1>5

(* An entry taken out behind another.                                      *)
LEMMA LinkedCut ==
  ASSUME NEW next \in Links, NEW next2 \in Links, NEW head \in Ring \cup {NULL},
         NEW a \in LinkedFrom(head, next), NEW p \in LinkedFrom(head, next), a # head, p # a,
         next[p] = a, \A b \in LinkedFrom(head, next) \ {p} : next[b] # a,
         next2[p] = next[a], \A b \in LinkedFrom(head, next) \ {p} : next2[b] = next[b]
  PROVE  LinkedFrom(head, next2) = LinkedFrom(head, next) \ {a}
<1> DEFINE L == LinkedFrom(head, next)
           M == LinkedFrom(head, next2)
<1>1. L \in SUBSET Ring /\ Closed(head, next, L) /\ M \in SUBSET Ring /\ Closed(head, next2, M)
  BY LinkedLeast
<1>2. M \subseteq L \ {a}
  <2>1. Closed(head, next2, L \ {a})
    BY <1>1 DEF Closed
  <2>2. QED
    BY <1>1, <2>1, LinkedLeast
<1>3. L \subseteq M \cup {a}
  <2> DEFINE S == IF p \in M THEN M \cup {a} ELSE M
  <2>1. Closed(head, next, S)
    BY <1>1, <1>2 DEF Closed
  <2>2. S \in SUBSET Ring /\ S \subseteq M \cup {a}
    BY <1>1
  <2>3. QED
    BY <2>1, <2>2, LinkedLeast
<1>4. QED
  BY <1>2, <1>3

-----------------------------------------------------------------------------
(* The tables of handles of Global Arrays.                                 *)

GaTable == [Ring -> [ahandle : Ring \cup {NULL}, count : Nat, tag : 0 .. TagMod, active : BOOLEAN]]
ArmciTable == [Ring -> [handle : Ring, next : Ring \cup {NULL}, previous : Ring \cup {NULL},
                        ga : Ring, active : BOOLEAN]]

ChainOf(ga, armci, i) == LinkedFrom(ga[i].ahandle, [a \in Ring |-> armci[a].next])

(* C is the list of slot i.                                                *)
ListOf(ga, armci, i, C) ==
  /\ ga[i].count = Cardinality(C)
  /\ \A a \in C :
       /\ armci[a].active /\ armci[a].ga = i
       /\ armci[a].next # NULL => armci[armci[a].next].previous = a
       /\ IF a = ga[i].ahandle THEN armci[a].previous = NULL
          ELSE armci[a].previous \in C /\ armci[armci[a].previous].next = a

(* The tables, but for the entries of out, which no list has.              *)
Lists(ga, armci, out) ==
  /\ ga \in GaTable /\ armci \in ArmciTable
  /\ \A i \in Ring : ListOf(ga, armci, i, ChainOf(ga, armci, i)) /\ ChainOf(ga, armci, i) \cap out = {}
  /\ \A a \in Ring \ out : armci[a].active => a \in ChainOf(ga, armci, armci[a].ga)

(* How the lists of two tables compare.                                    *)
SameChains(ga, armci, ga2, armci2) ==
  \A i \in Ring : ChainOf(ga2, armci2, i) = ChainOf(ga, armci, i)

(* Entry b points and belongs where it did.                                *)
SameLinks(armci, armci2, b) ==
  /\ armci2[b].next = armci[b].next /\ armci2[b].previous = armci[b].previous
  /\ armci2[b].ga = armci[b].ga /\ armci2[b].active = armci[b].active

(* The fields of an entry of a table.                                      *)
LEMMA TableFacts ==
  ASSUME NEW ga \in GaTable, NEW armci \in ArmciTable
  PROVE  /\ \A i \in Ring : ga[i].ahandle \in Ring \cup {NULL} /\ ga[i].count \in Nat
         /\ \A a \in Ring : /\ armci[a].next \in Ring \cup {NULL}
                            /\ armci[a].previous \in Ring \cup {NULL}
                            /\ armci[a].ga \in Ring /\ armci[a].handle \in Ring
                            /\ armci[a].active \in BOOLEAN
         /\ [a \in Ring |-> armci[a].next] \in Links
BY DEF GaTable, ArmciTable, Links

(* The list of a slot.                                                     *)
LEMMA ChainFacts ==
  ASSUME NEW ga \in GaTable, NEW armci \in ArmciTable, NEW i \in Ring
  PROVE  /\ ChainOf(ga, armci, i) \in SUBSET Ring
         /\ ga[i].ahandle \in ChainOf(ga, armci, i) \cup {NULL}
         /\ \A a \in ChainOf(ga, armci, i) : armci[a].next \in ChainOf(ga, armci, i) \cup {NULL}
         /\ IsFiniteSet(ChainOf(ga, armci, i))
<1> DEFINE next == [a \in Ring |-> armci[a].next]
           C == ChainOf(ga, armci, i)
<1>1. next \in Links /\ ga[i].ahandle \in Ring \cup {NULL}
  BY TableFacts
<1>2. C = LinkedFrom(ga[i].ahandle, next)
  BY DEF ChainOf
<1>3. \A a \in Ring : next[a] = armci[a].next
  OBVIOUS
<1> HIDE DEF next, C
<1>4. C \in SUBSET Ring /\ Closed(ga[i].ahandle, next, C)
  BY <1>1, <1>2, LinkedLeast
<1>5. IsFiniteSet(Ring)
  BY NbAssumption, FS_Interval DEF Ring
<1>6. IsFiniteSet(C)
  BY <1>4, <1>5, FS_Subset
<1>7. QED
  BY <1>3, <1>4, <1>6 DEF Closed, C

(* A list all of whose entries are as they were is as it was.              *)
LEMMA ListFrame ==
  ASSUME NEW ga \in GaTable, NEW armci \in ArmciTable, NEW ga2 \in GaTable, NEW armci2 \in ArmciTable,
         NEW i \in Ring, ga2[i].ahandle = ga[i].ahandle, ga2[i].count = ga[i].count,
         ListOf(ga, armci, i, ChainOf(ga, armci, i)),
         \A b \in ChainOf(ga, armci, i) : SameLinks(armci, armci2, b)
  PROVE  /\ ChainOf(ga2, armci2, i) = ChainOf(ga, armci, i)
         /\ ListOf(ga2, armci2, i, ChainOf(ga2, armci2, i))
<1> DEFINE next == [a \in Ring |-> armci[a].next]
           next2 == [a \in Ring |-> armci2[a].next]
           C == ChainOf(ga, armci, i)
<1>1. next \in Links /\ next2 \in Links /\ ga[i].ahandle \in Ring \cup {NULL}
  BY TableFacts
<1>2. C \in SUBSET Ring /\ \A b \in C : armci[b].next \in C \cup {NULL}
  BY ChainFacts
<1>3. C = LinkedFrom(ga[i].ahandle, next) /\ ChainOf(ga2, armci2, i) = LinkedFrom(ga[i].ahandle, next2)
  BY DEF ChainOf
<1>4. \A b \in C : next2[b] = next[b]
  BY <1>2 DEF SameLinks
<1> HIDE DEF next, next2
<1>5. ChainOf(ga2, armci2, i) = C
  BY <1>1, <1>3, <1>4, LinkedFrame
<1>6. ListOf(ga2, armci2, i, C)
  BY <1>2 DEF ListOf, SameLinks
<1>7. QED
  BY <1>5, <1>6

(* Tables whose lists and entries are the same.                            *)
LEMMA ListsFrame ==
  ASSUME NEW ga, NEW armci, NEW out, Lists(ga, armci, out),
         NEW ga2 \in GaTable, NEW armci2 \in ArmciTable,
         \A i \in Ring : ga2[i].ahandle = ga[i].ahandle /\ ga2[i].count = ga[i].count,
         \A b \in Ring : SameLinks(armci, armci2, b)
  PROVE  Lists(ga2, armci2, out) /\ SameChains(ga, armci, ga2, armci2)
<1>1. ga \in GaTable /\ armci \in ArmciTable
  BY DEF Lists
<1>2. \A i \in Ring : ListOf(ga, armci, i, ChainOf(ga, armci, i)) /\ ChainOf(ga, armci, i) \in SUBSET Ring
  BY <1>1, ChainFacts DEF Lists
<1>3. \A i \in Ring : /\ ChainOf(ga2, armci2, i) = ChainOf(ga, armci, i)
                      /\ ListOf(ga2, armci2, i, ChainOf(ga2, armci2, i))
  BY <1>1, <1>2, ListFrame
<1>4. \A a \in Ring \ out : armci2[a].active => a \in ChainOf(ga2, armci2, armci2[a].ga)
  <2>1. \A a \in Ring : armci2[a].active = armci[a].active /\ armci2[a].ga = armci[a].ga /\ armci[a].ga \in Ring
    BY <1>1, TableFacts DEF SameLinks
  <2>2. QED
    BY <1>3, <2>1 DEF Lists
<1>5. QED
  BY <1>1, <1>3, <1>4 DEF Lists, SameChains

(* Each entry is in one list.                                              *)
LEMMA ChainsApart ==
  ASSUME NEW ga, NEW armci, NEW out, Lists(ga, armci, out), NEW i \in Ring, NEW j \in Ring,
         NEW a \in ChainOf(ga, armci, i), a \in ChainOf(ga, armci, j)
  PROVE  i = j
BY DEF Lists, ListOf

-----------------------------------------------------------------------------
(* The four ways the lists change.                                         *)

(* Entry a unlinked.                                                       *)
TakenOut(ga, armci, ga2, armci2, a) ==
  LET e == armci[a]
  IN /\ ga2 \in GaTable /\ armci2 \in ArmciTable
     /\ \A b \in Ring :
          /\ armci2[b].active = armci[b].active /\ armci2[b].ga = armci[b].ga
          /\ armci2[b].handle = armci[b].handle
          /\ armci2[b].next = IF b = e.previous THEN e.next ELSE armci[b].next
          /\ armci2[b].previous = IF b = e.next THEN e.previous ELSE armci[b].previous
     /\ \A i \in Ring :
          /\ ga2[i].ahandle = IF i = e.ga /\ e.previous = NULL THEN e.next ELSE ga[i].ahandle
          /\ ga2[i].count = IF i = e.ga THEN ga[i].count - 1 ELSE ga[i].count
          /\ ga2[i].tag = ga[i].tag

(* The lists without a.                                                    *)
ChainsWithout(ga, armci, ga2, armci2, a) ==
  \A i \in Ring : ChainOf(ga2, armci2, i) = ChainOf(ga, armci, i) \ {a}

(* The list a was in.                                                      *)
LEMMA CutList ==
  ASSUME NEW ga, NEW armci, NEW ga2, NEW armci2, NEW a \in Ring,
         Lists(ga, armci, {}), armci[a].active, TakenOut(ga, armci, ga2, armci2, a),
         NEW i, i = armci[a].ga
  PROVE  /\ ChainOf(ga2, armci2, i) = ChainOf(ga, armci, i) \ {a}
         /\ ListOf(ga2, armci2, i, ChainOf(ga, armci, i) \ {a})
<1> DEFINE C == ChainOf(ga, armci, i)
           next == [b \in Ring |-> armci[b].next]
           next2 == [b \in Ring |-> armci2[b].next]
           head == ga[i].ahandle
           p == armci[a].previous
           n == armci[a].next
<1>1. ga \in GaTable /\ armci \in ArmciTable /\ ga2 \in GaTable /\ armci2 \in ArmciTable
  BY DEF Lists, TakenOut
<1>2. /\ i \in Ring /\ p \in Ring \cup {NULL} /\ n \in Ring \cup {NULL} /\ head \in Ring \cup {NULL}
      /\ next \in Links /\ next2 \in Links
  BY <1>1, TableFacts
<1>3. /\ C \in SUBSET Ring /\ head \in C \cup {NULL} /\ IsFiniteSet(C)
      /\ \A b \in C : armci[b].next \in C \cup {NULL}
  BY <1>1, <1>2, ChainFacts
<1>4. a \in C /\ ListOf(ga, armci, i, C)
  BY <1>2 DEF Lists
<1>5. C = LinkedFrom(head, next) /\ ChainOf(ga2, armci2, i) = LinkedFrom(ga2[i].ahandle, next2)
  BY DEF ChainOf
<1>6. /\ \A b \in Ring : next[b] = armci[b].next
      /\ \A b \in Ring : next2[b] = IF b = p THEN n ELSE next[b]
  BY DEF TakenOut
<1>7. NULL \notin Ring
  BY NullFact
<1>8. \A b \in C : armci[b].next = a => b = p
  BY <1>4, <1>3, <1>7 DEF ListOf
<1>9. p # NULL => p \in C \ {a} /\ armci[p].next = a /\ a # head
  <2>1. ASSUME p # NULL PROVE a # head /\ p \in C /\ armci[p].next = a
    BY <1>4, <2>1 DEF ListOf
  <2>2. ASSUME p # NULL PROVE p # a
    <3>1. a \in LinkedFrom(head, next) /\ a # head
      BY <1>4, <1>5, <2>1, <2>2
    <3> HIDE DEF next, head, p
    <3>2. \E b \in LinkedFrom(head, next) \ {a} : next[b] = a
      BY <1>2, <3>1, LinkedBehind
    <3>3. QED
      BY <1>3, <1>5, <1>6, <1>8, <3>2
  <2>3. QED
    BY <2>1, <2>2
<1>10. p = NULL => a = head
  <2>1. a # head => p \in C
    BY <1>4 DEF ListOf
  <2>2. QED
    BY <1>3, <1>7, <2>1
<1>11. ga2[i].ahandle = IF p = NULL THEN n ELSE head
  BY <1>2 DEF TakenOut
<1>12. ChainOf(ga2, armci2, i) = C \ {a}
  <2>1. CASE p = NULL
    <3>1. \A b \in C : next[b] # a
      BY <1>3, <1>6, <1>7, <1>8, <2>1
    <3>2. LinkedFrom(next[a], next) = C \ {a}
      <4>1. C = LinkedFrom(a, next)
        BY <1>5, <1>10, <2>1
      <4> HIDE DEF next, C
      <4>2. QED
        BY <1>2, <3>1, <4>1, LinkedPop
    <3>3. next2 = next
      BY <1>2, <1>6, <1>7, <2>1 DEF Links
    <3>4. QED
      BY <1>5, <1>6, <1>11, <2>1, <3>2, <3>3
  <2>2. CASE p # NULL
    <3>1. /\ a \in LinkedFrom(head, next) /\ p \in LinkedFrom(head, next) /\ a # head /\ p # a
          /\ next[p] = a /\ next2[p] = next[a]
          /\ \A b \in LinkedFrom(head, next) \ {p} : next[b] # a /\ next2[b] = next[b]
      BY <1>3, <1>4, <1>5, <1>6, <1>8, <1>9, <2>2
    <3> HIDE DEF next, next2, head, p
    <3>2. LinkedFrom(head, next2) = LinkedFrom(head, next) \ {a}
      BY <1>2, <3>1, LinkedCut
    <3>3. QED
      BY <1>5, <1>11, <2>2, <3>2
  <2>3. QED
    BY <2>1, <2>2
<1>13. ga2[i].count = Cardinality(C \ {a})
  <2>1. ga2[i].count = ga[i].count - 1
    BY <1>2 DEF TakenOut
  <2>2. ga[i].count = Cardinality(C)
    BY <1>4 DEF ListOf
  <2> HIDE DEF C
  <2>3. Cardinality(C \ {a}) = Cardinality(C) - 1
    BY <1>3, <1>4, FS_RemoveElement
  <2>4. QED
    BY <2>1, <2>2, <2>3
<1>14. ASSUME NEW b \in C \ {a}
       PROVE  /\ armci2[b].active /\ armci2[b].ga = i
              /\ armci2[b].next # NULL => armci2[armci2[b].next].previous = b
              /\ IF b = ga2[i].ahandle THEN armci2[b].previous = NULL
                 ELSE armci2[b].previous \in C \ {a} /\ armci2[armci2[b].previous].next = b
  <2>1. b \in Ring /\ b \in C /\ b # a
    BY <1>3
  <2>2. armci2[b].active /\ armci2[b].ga = i
    BY <1>4, <2>1 DEF TakenOut, ListOf
  <2>3. /\ armci2[b].next = IF b = p THEN n ELSE armci[b].next
        /\ armci2[b].previous = IF b = n THEN p ELSE armci[b].previous
        /\ \A c \in Ring : armci2[c].previous = IF c = n THEN p ELSE armci[c].previous
        /\ \A c \in Ring : armci2[c].next = IF c = p THEN n ELSE armci[c].next
    BY <2>1 DEF TakenOut
  <2>4. /\ armci[b].next # NULL => armci[armci[b].next].previous = b
        /\ IF b = head THEN armci[b].previous = NULL
           ELSE armci[b].previous \in C /\ armci[armci[b].previous].next = b
        /\ n # NULL => armci[n].previous = a
        /\ armci[b].next \in Ring \cup {NULL}
    BY <1>1, <1>4, <2>1, TableFacts DEF ListOf
  <2>5. armci2[b].next # NULL => armci2[armci2[b].next].previous = b
    <3>1. CASE b = p
      BY <1>2, <2>1, <2>3, <3>1
    <3>2. CASE b # p
      BY <1>8, <2>1, <2>3, <2>4, <3>2
    <3>3. QED
      BY <3>1, <3>2
  <2>6. IF b = ga2[i].ahandle THEN armci2[b].previous = NULL
        ELSE armci2[b].previous \in C \ {a} /\ armci2[armci2[b].previous].next = b
    <3>1. CASE b = n
      <4>1. armci2[b].previous = p
        BY <2>3, <3>1
      <4>2. b # head
        BY <1>7, <2>1, <2>4, <3>1, <1>3
      <4>3. p = NULL => b = ga2[i].ahandle
        BY <1>11, <3>1
      <4>4. p # NULL => b # ga2[i].ahandle /\ p \in C \ {a} /\ armci2[p].next = b
        BY <1>3, <1>9, <1>11, <2>3, <3>1, <4>2
      <4>5. QED
        BY <4>1, <4>3, <4>4
    <3>2. CASE b # n
      <4>1. armci2[b].previous = armci[b].previous
        BY <2>3, <3>2
      <4>2. b = ga2[i].ahandle <=> b = head
        BY <1>10, <1>11, <2>1, <3>2
      <4>3. b # head => /\ armci[b].previous \in C \ {a}
                        /\ armci2[armci[b].previous].next = b
        <5>1. ASSUME b # head PROVE armci[b].previous # a /\ armci[b].previous # p
          BY <1>9, <1>7, <1>3, <2>1, <2>4, <3>2, <5>1
        <5>2. QED
          BY <1>3, <2>3, <2>4, <5>1
      <4>4. QED
        BY <2>4, <4>1, <4>2, <4>3
    <3>3. QED
      BY <3>1, <3>2
  <2>7. QED
    BY <2>2, <2>5, <2>6
<1>15. ListOf(ga2, armci2, i, C \ {a})
  BY <1>13, <1>14 DEF ListOf
<1>16. QED
  BY <1>12, <1>15

(* TestEntry and the taking of an entry in use: every list is right, and   *)
(* has lost a.                                                             *)
LEMMA CutLists ==
  ASSUME NEW ga, NEW armci, NEW ga2, NEW armci2, NEW a \in Ring,
         Lists(ga, armci, {}), armci[a].active, TakenOut(ga, armci, ga2, armci2, a)
  PROVE  Lists(ga2, armci2, {a}) /\ ChainsWithout(ga, armci, ga2, armci2, a)
<1>1. ga \in GaTable /\ armci \in ArmciTable /\ ga2 \in GaTable /\ armci2 \in ArmciTable
  BY DEF Lists, TakenOut
<1>2. \A i \in Ring : ListOf(ga, armci, i, ChainOf(ga, armci, i)) /\ ChainOf(ga, armci, i) \in SUBSET Ring
  BY <1>1, ChainFacts DEF Lists
<1>3. ASSUME NEW i \in Ring
      PROVE  /\ ChainOf(ga2, armci2, i) = ChainOf(ga, armci, i) \ {a}
             /\ ListOf(ga2, armci2, i, ChainOf(ga2, armci2, i))
  <2>1. CASE i = armci[a].ga
    <3>1. /\ ChainOf(ga2, armci2, i) = ChainOf(ga, armci, i) \ {a}
          /\ ListOf(ga2, armci2, i, ChainOf(ga, armci, i) \ {a})
      BY <2>1, CutList
    <3>2. QED
      BY <3>1
  <2>2. CASE i # armci[a].ga
    <3> DEFINE j == armci[a].ga
               C == ChainOf(ga, armci, i)
    <3>1. j \in Ring /\ a \in ChainOf(ga, armci, j)
      BY <1>1, TableFacts DEF Lists
    <3>2. /\ armci[a].next \in ChainOf(ga, armci, j) \cup {NULL}
          /\ armci[a].previous \in ChainOf(ga, armci, j) \cup {NULL}
      BY <1>1, <1>2, <3>1, ChainFacts DEF ListOf
    <3>3. a \notin C /\ armci[a].next \notin C /\ armci[a].previous \notin C
      <4>1. C \in SUBSET Ring
        BY <1>2
      <4> HIDE DEF C, j
      <4>2. ASSUME NEW b \in C, b \in ChainOf(ga, armci, j) PROVE FALSE
        BY <2>2, <3>1, <4>2, ChainsApart DEF C, j
      <4>3. QED
        BY <3>1, <3>2, <4>1, <4>2, NullFact DEF j
    <3>4. \A b \in C : SameLinks(armci, armci2, b)
      BY <1>2, <3>3 DEF TakenOut, SameLinks
    <3>5. ga2[i].ahandle = ga[i].ahandle /\ ga2[i].count = ga[i].count
      BY <2>2 DEF TakenOut
    <3>6. ChainOf(ga2, armci2, i) = C /\ ListOf(ga2, armci2, i, ChainOf(ga2, armci2, i))
      BY <1>1, <1>2, <3>4, <3>5, ListFrame
    <3>7. QED
      BY <3>3, <3>6
  <2>3. QED
    BY <2>1, <2>2
<1>4. \A b \in Ring \ {a} : armci2[b].active => b \in ChainOf(ga2, armci2, armci2[b].ga)
  <2>1. TAKE b \in Ring \ {a}
  <2>2. armci2[b].active = armci[b].active /\ armci2[b].ga = armci[b].ga /\ armci[b].ga \in Ring
    BY <1>1, TableFacts DEF TakenOut
  <2>3. QED
    BY <1>3, <2>2 DEF Lists
<1>5. QED
  BY <1>1, <1>3, <1>4 DEF Lists, ChainsWithout

(* Entry a made the first of the list of slot i.                           *)
PutIn(ga, armci, ga2, armci2, a, i) ==
  LET head == ga[i].ahandle
  IN /\ ga2 \in GaTable /\ armci2 \in ArmciTable
     /\ \A b \in Ring :
          /\ armci2[b].handle = armci[b].handle
          /\ IF b = a
             THEN /\ armci2[b].next = head /\ armci2[b].previous = NULL
                  /\ armci2[b].ga = i /\ armci2[b].active
             ELSE /\ armci2[b].next = armci[b].next /\ armci2[b].ga = armci[b].ga
                  /\ armci2[b].active = armci[b].active
                  /\ armci2[b].previous = IF b = head THEN a ELSE armci[b].previous
     /\ \A j \in Ring :
          /\ ga2[j].ahandle = IF j = i THEN a ELSE ga[j].ahandle
          /\ ga2[j].count = IF j = i THEN ga[j].count + 1 ELSE ga[j].count
          /\ ga2[j].tag = ga[j].tag

ChainsWith(ga, armci, ga2, armci2, a, i) ==
  \A j \in Ring : ChainOf(ga2, armci2, j) = ChainOf(ga, armci, j) \cup (IF j = i THEN {a} ELSE {})

(* The end of get_armci_nbhandle.                                          *)
LEMMA PushLists ==
  ASSUME NEW ga, NEW armci, NEW ga2, NEW armci2, NEW a \in Ring, NEW i \in Ring,
         Lists(ga, armci, {a}), PutIn(ga, armci, ga2, armci2, a, i)
  PROVE  Lists(ga2, armci2, {}) /\ ChainsWith(ga, armci, ga2, armci2, a, i)
<1>1. ga \in GaTable /\ armci \in ArmciTable /\ ga2 \in GaTable /\ armci2 \in ArmciTable
  BY DEF Lists, PutIn
<1>2. \A j \in Ring : /\ ListOf(ga, armci, j, ChainOf(ga, armci, j))
                      /\ ChainOf(ga, armci, j) \in SUBSET Ring /\ a \notin ChainOf(ga, armci, j)
  BY <1>1, ChainFacts DEF Lists
<1> DEFINE C == ChainOf(ga, armci, i)
           head == ga[i].ahandle
<1>3. head \in C \cup {NULL} /\ IsFiniteSet(C) /\ \A b \in C : armci[b].next \in C \cup {NULL}
  BY <1>1, ChainFacts
<1>4. ChainOf(ga2, armci2, i) = {a} \cup C
  <2> DEFINE next == [b \in Ring |-> armci[b].next]
             next2 == [b \in Ring |-> armci2[b].next]
  <2>1. next \in Links /\ next2 \in Links /\ head \in Ring \cup {NULL}
    BY <1>1, TableFacts
  <2>2. C = LinkedFrom(head, next) /\ ChainOf(ga2, armci2, i) = LinkedFrom(a, next2)
    BY DEF ChainOf, PutIn
  <2>3. next2[a] = head /\ (\A b \in C : next2[b] = next[b]) /\ a \notin C
    BY <1>2 DEF PutIn
  <2> HIDE DEF next, next2, C, head
  <2>4. QED
    BY <2>1, <2>2, <2>3, LinkedPush
<1>5. ListOf(ga2, armci2, i, {a} \cup C)
  <2>1. ga2[i].count = Cardinality({a} \cup C)
    <3>1. ga2[i].count = ga[i].count + 1 /\ ga[i].count = Cardinality(C)
      BY <1>2 DEF PutIn, ListOf
    <3> HIDE DEF C
    <3>2. Cardinality(C \cup {a}) = Cardinality(C) + 1
      BY <1>2, <1>3, FS_AddElement DEF C
    <3>3. C \cup {a} = {a} \cup C
      OBVIOUS
    <3>4. QED
      BY <3>1, <3>2, <3>3
  <2>2. ASSUME NEW b \in {a} \cup C
        PROVE  /\ armci2[b].active /\ armci2[b].ga = i
               /\ armci2[b].next # NULL => armci2[armci2[b].next].previous = b
               /\ IF b = ga2[i].ahandle THEN armci2[b].previous = NULL
                  ELSE armci2[b].previous \in {a} \cup C /\ armci2[armci2[b].previous].next = b
    <3>1. ga2[i].ahandle = a
      BY DEF PutIn
    <3>2. CASE b = a
      <4>1. head # NULL => head \in C /\ head \in Ring /\ head # a
        BY <1>2, <1>3
      <4>2. head # NULL => armci2[head].previous = a
        BY <4>1 DEF PutIn
      <4>3. QED
        BY <3>1, <3>2, <4>2 DEF PutIn
    <3>3. CASE b \in C
      <4>1. b # a /\ b \in Ring
        BY <1>2, <3>3
      <4>2. /\ armci2[b].active /\ armci2[b].ga = i /\ armci2[b].next = armci[b].next
            /\ armci2[b].previous = IF b = head THEN a ELSE armci[b].previous
        BY <1>2, <3>3, <4>1 DEF PutIn, ListOf
      <4>3. armci[b].next # NULL => armci[b].next # head /\ armci[b].next # a /\ armci[b].next \in Ring
        <5>1. ASSUME armci[b].next # NULL, armci[b].next = head PROVE FALSE
          <6>1. armci[head].previous = b /\ head \in C
            BY <1>2, <1>3, <3>3, <5>1 DEF ListOf
          <6>2. armci[head].previous = NULL
            BY <1>2, <6>1 DEF ListOf
          <6>3. QED
            BY <4>1, <6>1, <6>2, NullFact
        <5>2. armci[b].next \in C \cup {NULL}
          BY <1>3, <3>3
        <5>3. QED
          BY <1>2, <5>1, <5>2
      <4>4. armci[b].next # NULL => armci2[armci[b].next].previous = b
        BY <1>2, <3>3, <4>3 DEF PutIn, ListOf
      <4>5. CASE b = head
        BY <3>1, <4>1, <4>2, <4>4, <4>5 DEF PutIn
      <4>6. CASE b # head
        <5>1. armci[b].previous \in C /\ armci[armci[b].previous].next = b
          BY <1>2, <3>3, <4>6 DEF ListOf
        <5>2. armci2[armci[b].previous].next = b
          BY <1>2, <5>1 DEF PutIn
        <5>3. QED
          BY <3>1, <4>1, <4>2, <4>4, <4>6, <5>1, <5>2
      <4>7. QED
        BY <4>5, <4>6
    <3>4. QED
      BY <3>2, <3>3
  <2>3. QED
    BY <2>1, <2>2 DEF ListOf
<1>6. ASSUME NEW j \in Ring, j # i
      PROVE  /\ ChainOf(ga2, armci2, j) = ChainOf(ga, armci, j)
             /\ ListOf(ga2, armci2, j, ChainOf(ga2, armci2, j))
  <2>1. a \notin ChainOf(ga, armci, j) /\ head \notin ChainOf(ga, armci, j)
    <3>1. ASSUME NEW b \in C, b \in ChainOf(ga, armci, j) PROVE FALSE
      BY <1>6, <3>1, ChainsApart
    <3>2. QED
      BY <1>2, <1>3, <3>1, NullFact
  <2>2. \A b \in ChainOf(ga, armci, j) : SameLinks(armci, armci2, b)
    BY <1>2, <2>1 DEF PutIn, SameLinks
  <2>3. ga2[j].ahandle = ga[j].ahandle /\ ga2[j].count = ga[j].count
    BY <1>6 DEF PutIn
  <2>4. QED
    BY <1>1, <1>2, <2>2, <2>3, ListFrame
<1>7. \A j \in Ring : /\ ChainOf(ga2, armci2, j) = ChainOf(ga, armci, j) \cup (IF j = i THEN {a} ELSE {})
                      /\ ListOf(ga2, armci2, j, ChainOf(ga2, armci2, j))
  BY <1>4, <1>5, <1>6
<1>8. ASSUME NEW b \in Ring, armci2[b].active PROVE b \in ChainOf(ga2, armci2, armci2[b].ga)
  <2>1. CASE b = a
    BY <1>7, <2>1 DEF PutIn
  <2>2. CASE b # a
    <3>1. armci[b].active /\ armci2[b].ga = armci[b].ga /\ armci[b].ga \in Ring
      BY <1>1, <1>8, <2>2, TableFacts DEF PutIn
    <3>2. QED
      BY <1>7, <2>2, <3>1 DEF Lists
  <2>3. QED
    BY <2>1, <2>2
<1>9. QED
  BY <1>1, <1>7, <1>8 DEF Lists, ChainsWith

(* The entries of slot i given back.                                       *)
Cleared(ga, armci, ga2, armci2, i) ==
  /\ ga2 \in GaTable
  /\ armci2 = [b \in Ring |-> IF b \in ChainOf(ga, armci, i) THEN FreeEntry ELSE armci[b]]
  /\ ga2[i].ahandle = NULL /\ ga2[i].count = 0
  /\ \A j \in Ring \ {i} : ga2[j] = ga[j]

ChainsBut(ga, armci, ga2, armci2, i) ==
  \A j \in Ring : ChainOf(ga2, armci2, j) = IF j = i THEN {} ELSE ChainOf(ga, armci, j)

(* nga_wait_internal and ga_init_nbhandle: the list of the slot is empty,  *)
(* the others are untouched.                                               *)
LEMMA ClearLists ==
  ASSUME NEW ga, NEW armci, NEW ga2, NEW armci2, NEW i \in Ring,
         Lists(ga, armci, {}), Cleared(ga, armci, ga2, armci2, i)
  PROVE  Lists(ga2, armci2, {}) /\ ChainsBut(ga, armci, ga2, armci2, i)
<1>1. ga \in GaTable /\ armci \in ArmciTable /\ ga2 \in GaTable
  BY DEF Lists, Cleared
<1>2. FreeEntry \in [handle : Ring, next : Ring \cup {NULL}, previous : Ring \cup {NULL},
                     ga : Ring, active : BOOLEAN]
  <2>1. 0 \in Ring
    BY NbAssumption DEF Ring
  <2>2. QED
    BY <2>1 DEF FreeEntry
<1>3. armci2 \in ArmciTable
  BY <1>1, <1>2 DEF ArmciTable, Cleared
<1>4. \A j \in Ring : ListOf(ga, armci, j, ChainOf(ga, armci, j)) /\ ChainOf(ga, armci, j) \in SUBSET Ring
  BY <1>1, ChainFacts DEF Lists
<1>5. /\ ChainOf(ga2, armci2, i) = {}
      /\ ListOf(ga2, armci2, i, {})
  <2> DEFINE next2 == [b \in Ring |-> armci2[b].next]
  <2>1. next2 \in Links
    BY <1>1, <1>3, TableFacts
  <2>2. ChainOf(ga2, armci2, i) = LinkedFrom(NULL, next2)
    BY DEF ChainOf, Cleared
  <2> HIDE DEF next2
  <2>3. ChainOf(ga2, armci2, i) = {}
    BY <2>1, <2>2, LinkedNone
  <2>4. ListOf(ga2, armci2, i, {})
    BY FS_EmptySet DEF ListOf, Cleared
  <2>5. QED
    BY <2>3, <2>4
<1>6. ASSUME NEW j \in Ring, j # i
      PROVE  /\ ChainOf(ga2, armci2, j) = ChainOf(ga, armci, j)
             /\ ListOf(ga2, armci2, j, ChainOf(ga2, armci2, j))
  <2>1. \A b \in ChainOf(ga, armci, j) : b \notin ChainOf(ga, armci, i)
    BY <1>6, ChainsApart
  <2>2. \A b \in ChainOf(ga, armci, j) : SameLinks(armci, armci2, b)
    BY <1>4, <2>1 DEF Cleared, SameLinks
  <2>3. ga2[j].ahandle = ga[j].ahandle /\ ga2[j].count = ga[j].count
    BY <1>6 DEF Cleared
  <2>4. QED
    BY <1>1, <1>3, <1>4, <2>2, <2>3, ListFrame
<1>7. ASSUME NEW b \in Ring, armci2[b].active PROVE b \in ChainOf(ga2, armci2, armci2[b].ga)
  <2>1. b \notin ChainOf(ga, armci, i) /\ armci2[b] = armci[b]
    BY <1>7 DEF Cleared, FreeEntry
  <2>2. armci[b].ga \in Ring /\ b \in ChainOf(ga, armci, armci[b].ga)
    BY <1>1, <1>7, <2>1, TableFacts DEF Lists
  <2>3. QED
    BY <1>6, <2>1, <2>2
<1>8. QED
  BY <1>1, <1>3, <1>5, <1>6, <1>7 DEF Lists, ChainsBut

(* An entry in no list given back.                                         *)
LEMMA FreeLists ==
  ASSUME NEW ga, NEW armci, NEW armci2, NEW a \in Ring, Lists(ga, armci, {a}),
         armci2 = [armci EXCEPT ![a] = FreeEntry]
  PROVE  Lists(ga, armci2, {}) /\ SameChains(ga, armci, ga, armci2)
<1>1. ga \in GaTable /\ armci \in ArmciTable
  BY DEF Lists
<1>2. FreeEntry \in [handle : Ring, next : Ring \cup {NULL}, previous : Ring \cup {NULL},
                     ga : Ring, active : BOOLEAN]
  <2>1. 0 \in Ring
    BY NbAssumption DEF Ring
  <2>2. QED
    BY <2>1 DEF FreeEntry
<1>3. armci2 \in ArmciTable /\ armci2[a] = FreeEntry /\ \A b \in Ring \ {a} : armci2[b] = armci[b]
  BY <1>1, <1>2 DEF ArmciTable
<1>4. \A j \in Ring : /\ ListOf(ga, armci, j, ChainOf(ga, armci, j))
                      /\ ChainOf(ga, armci, j) \in SUBSET Ring /\ a \notin ChainOf(ga, armci, j)
  BY <1>1, ChainFacts DEF Lists
<1>5. \A j \in Ring : /\ ChainOf(ga, armci2, j) = ChainOf(ga, armci, j)
                      /\ ListOf(ga, armci2, j, ChainOf(ga, armci2, j))
  <2>1. TAKE j \in Ring
  <2>2. \A b \in ChainOf(ga, armci, j) : SameLinks(armci, armci2, b)
    BY <1>3, <1>4 DEF SameLinks
  <2>3. ListOf(ga, armci, j, ChainOf(ga, armci, j)) /\ armci2 \in ArmciTable
    BY <1>3, <1>4
  <2>4. QED
    BY <1>1, <2>2, <2>3, ListFrame, Zenon
<1>6. ASSUME NEW b \in Ring, armci2[b].active PROVE b \in ChainOf(ga, armci2, armci2[b].ga)
  <2>1. b # a
    BY <1>3, <1>6 DEF FreeEntry
  <2>2. armci2[b] = armci[b] /\ armci[b].ga \in Ring
    BY <1>1, <1>3, <2>1, TableFacts
  <2>3. QED
    BY <1>5, <1>6, <2>1, <2>2 DEF Lists
<1>7. QED
  BY <1>1, <1>3, <1>5, <1>6 DEF Lists, SameChains

-----------------------------------------------------------------------------
(* The tables after the steps of the code.                                 *)

TablesSound ==
  /\ Lists(ga_ihdl, armci_ihdl, {})
  /\ lastGA \in Ring /\ lastARMCI \in Ring
  /\ ga_nb_tag \in 0 .. TagMod - 1

(* The list of a GA slot, in terms of the two tables.                      *)
LEMMA ChainIs == \A i : Chain(i) = ChainOf(ga_ihdl, armci_ihdl, i)
BY DEF Chain, ChainOf

(* The two assignments to the neighbours and those to the slot take the    *)
(* entry out.                                                              *)
LEMMA UnlinkedFact ==
  ASSUME TablesSound, NEW a \in Ring, armci_ihdl[a].active
  PROVE  TakenOut(ga_ihdl, armci_ihdl, Unlinked(a).ga, Unlinked(a).armci, a)
<1> DEFINE e == armci_ihdl[a]
           g == e.ga
           n == e.next
           p == e.previous
           G == ga_ihdl
           A == armci_ihdl
           back == IF n = NULL THEN A ELSE [A EXCEPT ![n].previous = p]
           A2 == IF p = NULL THEN back ELSE [back EXCEPT ![p].next = n]
           G2 == [G EXCEPT ![g].ahandle = IF p = NULL THEN n ELSE @, ![g].count = @ - 1]
<1>1. Unlinked(a).armci = A2 /\ Unlinked(a).ga = G2
  BY DEF Unlinked
<1>2. G \in GaTable /\ A \in ArmciTable
  BY DEF TablesSound, Lists
<1>3. g \in Ring /\ n \in Ring \cup {NULL} /\ p \in Ring \cup {NULL} /\ a \in ChainOf(G, A, g)
  BY <1>2, TableFacts DEF TablesSound, Lists
<1>4. G[g].count \in Nat /\ G[g].count - 1 \in Nat
  <2> DEFINE C == ChainOf(G, A, g)
  <2>1. IsFiniteSet(C) /\ G[g].count = Cardinality(C) /\ a \in C
    BY <1>2, <1>3, ChainFacts DEF TablesSound, Lists, ListOf
  <2> HIDE DEF C
  <2>2. Cardinality(C) \in Nat /\ Cardinality(C) # 0
    BY <2>1, FS_CardinalityType, FS_EmptySet
  <2>3. QED
    BY <2>1, <2>2
<1> HIDE DEF e, g, n, p, G, A
<1>5. back \in ArmciTable
      /\ \A b \in Ring : /\ back[b].previous = IF b = n THEN p ELSE A[b].previous
                         /\ back[b].next = A[b].next /\ back[b].active = A[b].active
                         /\ back[b].ga = A[b].ga /\ back[b].handle = A[b].handle
  BY <1>2, <1>3, NullFact DEF ArmciTable
<1> HIDE DEF back
<1>6. A2 \in ArmciTable
      /\ \A b \in Ring : /\ A2[b].next = IF b = p THEN n ELSE back[b].next
                         /\ A2[b].previous = back[b].previous /\ A2[b].active = back[b].active
                         /\ A2[b].ga = back[b].ga /\ A2[b].handle = back[b].handle
  <2>1. CASE p = NULL
    BY <1>5, <2>1, NullFact
  <2>2. CASE p # NULL
    <3>1. back \in ArmciTable /\ p \in Ring /\ A2 = [back EXCEPT ![p].next = n]
      BY <1>3, <1>5, <2>2
    <3> HIDE DEF A2
    <3>2. QED
      BY <1>3, <3>1 DEF ArmciTable
  <2>3. QED
    BY <2>1, <2>2
<1>7. /\ G2 \in GaTable
      /\ \A i \in Ring : /\ G2[i].ahandle = IF i = g /\ p = NULL THEN n ELSE G[i].ahandle
                         /\ G2[i].count = IF i = g THEN G[i].count - 1 ELSE G[i].count
                         /\ G2[i].tag = G[i].tag
  BY <1>2, <1>3, <1>4 DEF GaTable
<1> HIDE DEF A2, G2
<1>8. TakenOut(G, A, G2, A2, a)
  BY <1>5, <1>6, <1>7 DEF TakenOut, g, n, p, e, A, G
<1>9. QED
  BY <1>1, <1>8 DEF A, G

(* The assignments at the end of get_armci_nbhandle put it in.             *)
LEMMA LinkedFact ==
  ASSUME NEW a \in Ring, NEW i \in Ring, NEW arrays, Lists(arrays.ga, arrays.armci, {a})
  PROVE  PutIn(arrays.ga, arrays.armci, Linked(arrays, a, i).ga, Linked(arrays, a, i).armci, a, i)
<1> DEFINE G == arrays.ga
           A == arrays.armci
           head == G[i].ahandle
           front == IF head = NULL THEN A ELSE [A EXCEPT ![head].previous = a]
           A2 == [front EXCEPT ![a] = [handle |-> @.handle, next |-> head, previous |-> NULL,
                                       ga |-> i, active |-> TRUE]]
           G2 == [G EXCEPT ![i].ahandle = a, ![i].count = @ + 1]
<1>1. Linked(arrays, a, i).ga = G2 /\ Linked(arrays, a, i).armci = A2
  BY DEF Linked
<1>2. G \in GaTable /\ A \in ArmciTable
  BY DEF Lists
<1>3. head \in Ring \cup {NULL} /\ G[i].count \in Nat /\ head # a
  <2>1. head \in Ring \cup {NULL} /\ G[i].count \in Nat /\ head \in ChainOf(G, A, i) \cup {NULL}
    BY <1>2, TableFacts, ChainFacts
  <2>2. a \notin ChainOf(G, A, i) /\ a # NULL
    BY NullFact DEF Lists
  <2>3. QED
    BY <2>1, <2>2
<1> HIDE DEF G, A, head
<1>4. G2 \in GaTable
      /\ \A j \in Ring : /\ G2[j].ahandle = IF j = i THEN a ELSE G[j].ahandle
                         /\ G2[j].count = IF j = i THEN G[j].count + 1 ELSE G[j].count
                         /\ G2[j].tag = G[j].tag
  <2>1. G[i].count + 1 \in Nat
    BY <1>3
  <2>2. QED
    BY <1>2, <2>1 DEF GaTable
<1>5. front \in ArmciTable
      /\ \A b \in Ring : /\ front[b].previous = IF b = head THEN a ELSE A[b].previous
                         /\ front[b].next = A[b].next /\ front[b].active = A[b].active
                         /\ front[b].ga = A[b].ga /\ front[b].handle = A[b].handle
  BY <1>2, <1>3, NullFact DEF ArmciTable
<1> HIDE DEF front
<1>6. A2 \in ArmciTable
      /\ A2[a] = [handle |-> front[a].handle, next |-> head, previous |-> NULL, ga |-> i, active |-> TRUE]
      /\ \A b \in Ring \ {a} : A2[b] = front[b]
  BY <1>3, <1>5 DEF ArmciTable
<1> HIDE DEF A2, G2
<1>7. \A b \in Ring :
          /\ A2[b].handle = A[b].handle
          /\ IF b = a
             THEN /\ A2[b].next = head /\ A2[b].previous = NULL
                  /\ A2[b].ga = i /\ A2[b].active
             ELSE /\ A2[b].next = A[b].next /\ A2[b].ga = A[b].ga
                  /\ A2[b].active = A[b].active
                  /\ A2[b].previous = IF b = head THEN a ELSE A[b].previous
  BY <1>5, <1>6
<1>8. PutIn(G, A, G2, A2, a, i)
  BY <1>4, <1>6, <1>7 DEF PutIn, head
<1>9. QED
  BY <1>1, <1>8 DEF G, A

-----------------------------------------------------------------------------
(* What the steps leave of the operations under way.                       *)

(* The ComEx handle of the entry a call has just taken is that of whoever  *)
(* had the entry before; the others say where the messages are.            *)
Kept == IF call.pc \in {"armci", "gets_nb"} THEN Ring \ {call.cur} ELSE Ring

(* A step that posts nothing: an entry stays in the list of its slot, with *)
(* its ComEx handle, or nothing is posted on that handle any more.         *)
Keeps ==
  /\ posted' \subseteq posted
  /\ \A j \in Ring : \A b \in Chain(j) :
       \/ \A m \in posted' : m[1] # armci_ihdl[b].handle
       \/ /\ b \in Chain(j)' /\ b \in Kept'
          /\ armci_ihdl'[b].handle = armci_ihdl[b].handle
          /\ ga_ihdl'[j].tag = ga_ihdl[j].tag

SameTags == \A j \in Ring : ga_ihdl'[j].tag = ga_ihdl[j].tag

(* The ring when nothing is called.                                        *)
LEMMA SameRing ==
  ASSUME RingSound, UNCHANGED nbvars
  PROVE  RingSound' /\ posted' = posted /\ blocked' = blocked
<1>1. nb_state' = nb_state /\ nb_index' = nb_index /\ posted' = posted /\ done' = done /\ blocked' = blocked
  BY DEF nbvars
<1>2. \A h \in Ring : HandleSound(nb_state'[h], h) /\ Messages(nb_state'[h]) = On(h)'
  BY <1>1, RingFacts DEF On
<1>3. nb_state' \in [Ring -> Handle] /\ nb_index' \in Ring /\ posted' \subseteq Msg /\ done' \subseteq posted'
  BY <1>1 DEF RingSound
<1>4. QED
  BY <1>1, <1>2, <1>3, RingStep

(* get_armci_nbhandle: every entry but the one taken stays in its list;    *)
(* what was posted on the handle of that one is complete if it was in one. *)
LEMMA TakeEntry ==
  ASSUME RingSound, TablesSound, NEW i \in Ring, get_armci_nbhandle(i),
         lastGA' = lastGA, ga_nb_tag' = ga_nb_tag, Ring \ {lastARMCI'} \subseteq Kept'
  PROVE  /\ RingSound' /\ TablesSound'
         /\ Keeps /\ SameTags
         /\ lastARMCI' \in Ring /\ lastARMCI' \in Chain(i)'
         /\ blocked' = blocked
<1> DEFINE free == {a \in Ring : ~armci_ihdl[a].active}
           a == FirstFrom(Next1(lastARMCI), free)
           taken == armci_ihdl[a].active
           before == IF taken THEN Unlinked(a) ELSE [armci |-> armci_ihdl, ga |-> ga_ihdl]
           arrays == Linked(before, a, i)
<1>1. /\ IF taken THEN comex_wait(armci_ihdl[a].handle) ELSE UNCHANGED nbvars
      /\ armci_ihdl' = arrays.armci /\ ga_ihdl' = arrays.ga /\ lastARMCI' = a
  BY DEF get_armci_nbhandle
<1>2. a \in Ring
  <2>1. Next1(lastARMCI) \in Ring /\ free \in SUBSET Ring
    BY Next1Fact DEF TablesSound
  <2> HIDE DEF free
  <2>2. QED
    BY <2>1, FirstFromFact
<1>3. ga_ihdl \in GaTable /\ armci_ihdl \in ArmciTable /\ Lists(ga_ihdl, armci_ihdl, {})
  BY DEF TablesSound, Lists
<1> HIDE DEF a
<1>4. /\ Lists(before.ga, before.armci, {a})
      /\ \A j \in Ring : ChainOf(before.ga, before.armci, j) = Chain(j) \ {a}
      /\ \A b \in Ring : before.armci[b].handle = armci_ihdl[b].handle
      /\ \A j \in Ring : before.ga[j].tag = ga_ihdl[j].tag
  <2>1. CASE taken
    <3>1. before = Unlinked(a)
      BY <2>1
    <3>2. TakenOut(ga_ihdl, armci_ihdl, Unlinked(a).ga, Unlinked(a).armci, a)
      BY <1>2, <2>1, UnlinkedFact
    <3>3. Lists(Unlinked(a).ga, Unlinked(a).armci, {a})
          /\ ChainsWithout(ga_ihdl, armci_ihdl, Unlinked(a).ga, Unlinked(a).armci, a)
      BY <1>2, <1>3, <2>1, <3>2, CutLists
    <3>4. QED
      BY <3>1, <3>2, <3>3, ChainIs DEF TakenOut, ChainsWithout
  <2>2. CASE ~ taken
    <3>1. before.armci = armci_ihdl /\ before.ga = ga_ihdl
      BY <2>2
    <3>2. \A j \in Ring : a \notin ChainOf(ga_ihdl, armci_ihdl, j)
      BY <1>3, <2>2 DEF Lists, ListOf
    <3>3. Lists(ga_ihdl, armci_ihdl, {a})
      BY <1>3, <3>2 DEF Lists
    <3>4. QED
      BY <3>1, <3>2, <3>3, ChainIs
  <2>3. QED
    BY <2>1, <2>2
<1> HIDE DEF before
<1>5. PutIn(before.ga, before.armci, arrays.ga, arrays.armci, a, i)
  BY <1>2, <1>4, LinkedFact
<1> HIDE DEF arrays
<1>6. Lists(arrays.ga, arrays.armci, {}) /\ ChainsWith(before.ga, before.armci, arrays.ga, arrays.armci, a, i)
  BY <1>2, <1>4, <1>5, PushLists
<1>7. TablesSound'
  BY <1>1, <1>2, <1>6 DEF TablesSound
<1>8. \A j \in Ring : Chain(j)' = (Chain(j) \ {a}) \cup (IF j = i THEN {a} ELSE {})
  <2>1. \A j \in Ring : Chain(j)' = ChainOf(arrays.ga, arrays.armci, j)
    BY <1>1 DEF Chain, ChainOf
  <2>2. QED
    BY <1>4, <1>6, <2>1 DEF ChainsWith
<1>9. /\ \A b \in Ring : armci_ihdl'[b].handle = armci_ihdl[b].handle
      /\ \A j \in Ring : ga_ihdl'[j].tag = ga_ihdl[j].tag
  BY <1>1, <1>4, <1>5 DEF PutIn
<1>10. /\ RingSound' /\ posted' \subseteq posted /\ blocked' = blocked
       /\ taken => \A m \in posted' : m[1] # armci_ihdl[a].handle
  <2>1. CASE taken
    <3>1. nb_wait_for_all({armci_ihdl[a].handle}) /\ nb_index' = nb_index /\ blocked' = blocked
      BY <1>1, <2>1 DEF comex_wait
    <3>2. {armci_ihdl[a].handle} \in SUBSET Ring
      BY <1>2, <1>3, TableFacts
    <3>3. RingSound' /\ posted' = {m \in posted : m[1] \notin {armci_ihdl[a].handle}}
      BY <3>1, <3>2, WaitRing
    <3>4. QED
      BY <3>1, <3>3
  <2>2. CASE ~ taken
    BY <1>1, <2>2, SameRing
  <2>3. QED
    BY <2>1, <2>2
<1>11. Keeps
  <2>1. ASSUME NEW j \in Ring, NEW b \in Chain(j)
        PROVE  \/ \A m \in posted' : m[1] # armci_ihdl[b].handle
               \/ /\ b \in Chain(j)' /\ b \in Kept'
                  /\ armci_ihdl'[b].handle = armci_ihdl[b].handle
                  /\ ga_ihdl'[j].tag = ga_ihdl[j].tag
    <3>1. b \in Ring /\ armci_ihdl[b].active
      BY <1>3, ChainIs, ChainFacts DEF Lists, ListOf
    <3>2. CASE b = a
      BY <1>10, <3>1, <3>2
    <3>3. CASE b # a
      BY <1>1, <1>8, <1>9, <3>1, <3>3
    <3>4. QED
      BY <3>2, <3>3
  <2>2. QED
    BY <1>10, <2>1 DEF Keeps
<1>12. QED
  BY <1>1, <1>2, <1>7, <1>8, <1>9, <1>10, <1>11 DEF SameTags

(* The part of nga_wait_internal and ga_init_nbhandle that waits for a     *)
(* slot: nothing is posted any more on the handles of its entries.         *)
LEMMA WaitSlot ==
  ASSUME RingSound, TablesSound, NEW i \in Ring, WaitFor(i), Kept' = Ring,
         ga_ihdl' \in GaTable, ga_ihdl'[i].ahandle = NULL, ga_ihdl'[i].count = 0,
         \A j \in Ring \ {i} : ga_ihdl'[j] = ga_ihdl[j]
  PROVE  /\ RingSound' /\ Lists(ga_ihdl, armci_ihdl, {})'
         /\ Keeps
         /\ blocked' = blocked
         /\ \A m \in posted' : \A b \in Chain(i) : m[1] # armci_ihdl[b].handle
<1> DEFINE hs == {armci_ihdl[b].handle : b \in Chain(i)}
<1>1. /\ nb_wait_for_all(hs) /\ nb_index' = nb_index /\ blocked' = blocked
      /\ armci_ihdl' = [b \in Ring |-> IF b \in Chain(i) THEN FreeEntry ELSE armci_ihdl[b]]
  BY DEF WaitFor
<1>2. ga_ihdl \in GaTable /\ armci_ihdl \in ArmciTable /\ Lists(ga_ihdl, armci_ihdl, {})
  BY DEF TablesSound, Lists
<1>3. \A j \in Ring : Chain(j) \in SUBSET Ring
  BY <1>2, ChainIs, ChainFacts
<1>4. hs \in SUBSET Ring
  BY <1>2, <1>3, TableFacts
<1>5. RingSound' /\ posted' = {m \in posted : m[1] \notin hs}
  <2> HIDE DEF hs
  <2>1. QED
    BY <1>1, <1>4, WaitRing
<1>6. \A m \in posted' : \A b \in Chain(i) : m[1] # armci_ihdl[b].handle
  BY <1>5
<1>7. Cleared(ga_ihdl, armci_ihdl, ga_ihdl', armci_ihdl', i)
  BY <1>1, ChainIs DEF Cleared
<1>8. Lists(ga_ihdl', armci_ihdl', {}) /\ ChainsBut(ga_ihdl, armci_ihdl, ga_ihdl', armci_ihdl', i)
  BY <1>2, <1>7, ClearLists
<1>9. \A j \in Ring \ {i} : Chain(j)' = Chain(j)
  <2>1. \A j \in Ring : Chain(j)' = ChainOf(ga_ihdl', armci_ihdl', j)
    BY DEF Chain, ChainOf
  <2>2. QED
    BY <1>8, <2>1, ChainIs DEF ChainsBut
<1>10. Keeps
  <2>1. ASSUME NEW j \in Ring, NEW b \in Chain(j), j # i
        PROVE  /\ b \in Chain(j)' /\ b \in Kept'
               /\ armci_ihdl'[b].handle = armci_ihdl[b].handle
               /\ ga_ihdl'[j].tag = ga_ihdl[j].tag
    <3>1. b \notin Chain(i) /\ b \in Ring
      BY <1>2, <1>3, <2>1, ChainIs, ChainsApart
    <3>2. QED
      BY <1>1, <1>9, <2>1, <3>1
  <2>2. posted' \subseteq posted
    BY <1>5
  <2>3. QED
    BY <1>6, <2>1, <2>2 DEF Keeps
<1>11. QED
  BY <1>1, <1>5, <1>6, <1>8, <1>10

(* ga_init_nbhandle: the handle variable gets a slot and its tag.          *)
LEMMA InitSlot ==
  ASSUME RingSound, TablesSound, NEW v, ga_init_nbhandle(v), lastARMCI' = lastARMCI, Kept' = Ring
  PROVE  /\ RingSound' /\ TablesSound'
         /\ Keeps
         /\ blocked' = blocked
         /\ \E i \in Ring : \E t \in 0 .. TagMod - 1 :
              hv' = [hv EXCEPT ![v] = [index |-> i, tag |-> t]] /\ ga_ihdl'[i].tag = t
<1> DEFINE free == {j \in Ring : ga_ihdl[j].ahandle = NULL}
           i == FirstFrom(Next1(lastGA), free)
           t == get_next_tag
<1>1. /\ IF i \in free THEN UNCHANGED <<nbvars, armci_ihdl>> ELSE WaitFor(i)
      /\ ga_nb_tag' = t
      /\ hv' = [hv EXCEPT ![v] = [index |-> i, tag |-> t]]
      /\ ga_ihdl' = [ga_ihdl EXCEPT ![i] = [ahandle |-> NULL, count |-> 0, active |-> TRUE, tag |-> t]]
      /\ lastGA' = i
  BY DEF ga_init_nbhandle
<1>2. i \in Ring
  <2>1. Next1(lastGA) \in Ring /\ free \in SUBSET Ring
    BY Next1Fact DEF TablesSound
  <2> HIDE DEF free
  <2>2. QED
    BY <2>1, FirstFromFact
<1>3. t \in 0 .. TagMod - 1
  <2>1. ga_nb_tag + 1 \in Int /\ TagMod \in Nat \ {0}
    BY GaNbAssumption DEF TablesSound
  <2>2. QED
    BY <2>1, Remainder DEF get_next_tag
<1>4. t \in 0 .. TagMod
  BY <1>3, GaNbAssumption
<1>5. ga_ihdl \in GaTable /\ armci_ihdl \in ArmciTable /\ Lists(ga_ihdl, armci_ihdl, {})
  BY DEF TablesSound, Lists
<1>6. (i \in free) => ga_ihdl[i].ahandle = NULL
  OBVIOUS
<1> HIDE DEF i, free, t
<1>7. /\ ga_ihdl' \in GaTable
      /\ ga_ihdl'[i] = [ahandle |-> NULL, count |-> 0, active |-> TRUE, tag |-> t]
      /\ \A j \in Ring \ {i} : ga_ihdl'[j] = ga_ihdl[j]
  BY <1>1, <1>2, <1>4, <1>5 DEF GaTable
<1>8. RingSound' /\ Lists(ga_ihdl, armci_ihdl, {})' /\ Keeps /\ blocked' = blocked
  <2>1. CASE i \in free
    <3>1. RingSound' /\ posted' = posted /\ blocked' = blocked /\ armci_ihdl' = armci_ihdl
      BY <1>1, <2>1, SameRing
    <3>2. Chain(i) = {}
      <4>1. [a \in Ring |-> armci_ihdl[a].next] \in Links
        BY <1>5, TableFacts
      <4>2. Chain(i) = LinkedFrom(NULL, [a \in Ring |-> armci_ihdl[a].next])
        BY <1>6, <2>1 DEF Chain
      <4>3. QED
        BY <4>1, <4>2, LinkedNone
    <3>3. ga_ihdl[i].count = 0
      BY <1>2, <1>5, <3>2, ChainIs, FS_EmptySet DEF Lists, ListOf
    <3>4. /\ \A j \in Ring : ga_ihdl'[j].ahandle = ga_ihdl[j].ahandle /\ ga_ihdl'[j].count = ga_ihdl[j].count
          /\ \A b \in Ring : SameLinks(armci_ihdl, armci_ihdl', b)
          /\ armci_ihdl' \in ArmciTable
      BY <1>5, <1>6, <1>7, <2>1, <3>1, <3>3 DEF SameLinks
    <3>5. Lists(ga_ihdl', armci_ihdl', {}) /\ SameChains(ga_ihdl, armci_ihdl, ga_ihdl', armci_ihdl')
      BY <1>5, <1>7, <3>4, ListsFrame
    <3>6. \A j \in Ring : Chain(j)' = Chain(j)
      <4>1. \A j \in Ring : Chain(j)' = ChainOf(ga_ihdl', armci_ihdl', j)
        BY DEF Chain, ChainOf
      <4>2. QED
        BY <3>5, <4>1, ChainIs DEF SameChains
    <3>7. \A j \in Ring : Chain(j) \in SUBSET Ring
      BY <1>5, ChainIs, ChainFacts
    <3>8. Keeps
      BY <1>7, <3>1, <3>2, <3>6, <3>7 DEF Keeps
    <3>9. QED
      BY <3>1, <3>5, <3>8
  <2>2. CASE i \notin free
    <3>1. WaitFor(i)
      BY <1>1, <2>2
    <3>2. ga_ihdl'[i].ahandle = NULL /\ ga_ihdl'[i].count = 0
      BY <1>7
    <3>3. QED
      BY <1>2, <1>7, <3>1, <3>2, WaitSlot
  <2>3. QED
    BY <2>1, <2>2
<1>9. TablesSound'
  BY <1>1, <1>2, <1>3, <1>8 DEF TablesSound
<1>10. ga_ihdl'[i].tag = t
  BY <1>7
<1>11. QED
  BY <1>1, <1>2, <1>3, <1>8, <1>9, <1>10

(* Whether the handle a variable holds is still its own.                   *)
Current(v) == hv[v] # NULL /\ hv[v].tag = ga_ihdl[hv[v].index].tag

(* nga_wait_internal on a handle variable.                                 *)
LEMMA WaitCall ==
  ASSUME RingSound, TablesSound, NEW v, hv[v].index \in Ring, nga_wait_internal(v), Kept' = Ring,
         lastGA' = lastGA, lastARMCI' = lastARMCI, ga_nb_tag' = ga_nb_tag
  PROVE  /\ RingSound' /\ TablesSound'
         /\ Keeps /\ SameTags
         /\ blocked' = blocked
         /\ Current(v) => \A m \in posted' : \A b \in Chain(hv[v].index) : m[1] # armci_ihdl[b].handle
<1> DEFINE i == hv[v].index
<1>1. ga_ihdl \in GaTable /\ armci_ihdl \in ArmciTable /\ Lists(ga_ihdl, armci_ihdl, {})
  BY DEF TablesSound, Lists
<1>2. CASE hv[v].tag = ga_ihdl[i].tag
  <2>1. /\ WaitFor(i)
        /\ ga_ihdl' = [ga_ihdl EXCEPT ![i] = [@ EXCEPT !.ahandle = NULL, !.count = 0, !.active = FALSE]]
    BY <1>2 DEF nga_wait_internal
  <2> HIDE DEF i
  <2>2. i \in Ring
    BY DEF i
  <2>3. /\ ga_ihdl' \in GaTable
        /\ ga_ihdl'[i].ahandle = NULL /\ ga_ihdl'[i].count = 0 /\ ga_ihdl'[i].tag = ga_ihdl[i].tag
        /\ \A j \in Ring \ {i} : ga_ihdl'[j] = ga_ihdl[j]
    BY <1>1, <2>1, <2>2 DEF GaTable
  <2>4. /\ RingSound' /\ Lists(ga_ihdl, armci_ihdl, {})' /\ Keeps /\ blocked' = blocked
        /\ \A m \in posted' : \A b \in Chain(i) : m[1] # armci_ihdl[b].handle
    BY <2>1, <2>2, <2>3, WaitSlot
  <2>5. SameTags
    BY <2>3 DEF SameTags
  <2>6. TablesSound'
    BY <2>4 DEF TablesSound
  <2>7. QED
    BY <2>4, <2>5, <2>6 DEF i
<1>3. CASE hv[v].tag # ga_ihdl[i].tag
  <2>1. UNCHANGED nbvars /\ armci_ihdl' = armci_ihdl /\ ga_ihdl' = ga_ihdl
    BY <1>3 DEF nga_wait_internal
  <2>2. RingSound' /\ posted' = posted /\ blocked' = blocked
    BY <2>1, SameRing
  <2>3. \A j \in Ring : Chain(j) \in SUBSET Ring /\ Chain(j)' = Chain(j)
    BY <1>1, <2>1, ChainIs, ChainFacts DEF Chain
  <2>4. Keeps /\ SameTags
    BY <2>1, <2>2, <2>3 DEF Keeps, SameTags
  <2>5. TablesSound'
    BY <2>1 DEF TablesSound
  <2>6. QED
    BY <1>3, <2>2, <2>4, <2>5 DEF Current
<1>4. QED
  BY <1>2, <1>3

(* No entry follows itself.                                                *)
LEMMA NextIsOther ==
  ASSUME NEW ga, NEW armci, Lists(ga, armci, {}), NEW i \in Ring, NEW a \in ChainOf(ga, armci, i)
  PROVE  armci[a].next # a
<1> DEFINE next == [b \in Ring |-> armci[b].next]
           head == ga[i].ahandle
           C == ChainOf(ga, armci, i)
<1>1. ga \in GaTable /\ armci \in ArmciTable /\ ListOf(ga, armci, i, C)
  BY DEF Lists
<1>2. next \in Links /\ head \in Ring \cup {NULL} /\ C = LinkedFrom(head, next) /\ C \in SUBSET Ring
  BY <1>1, TableFacts, ChainFacts DEF ChainOf
<1>3. SUFFICES ASSUME armci[a].next = a PROVE FALSE
  OBVIOUS
<1>4. armci[a].previous = a /\ a \in Ring
  BY <1>1, <1>2, <1>3, NullFact DEF ListOf
<1>5. a # head
  BY <1>1, <1>4, NullFact DEF ListOf
<1>6. \E b \in C \ {a} : next[b] = a
  <2>1. a \in LinkedFrom(head, next)
    BY <1>2
  <2> HIDE DEF next, head, C
  <2>2. QED
    BY <1>2, <1>5, <2>1, LinkedBehind
<1>7. PICK b \in C \ {a} : armci[b].next = a
  BY <1>2, <1>6
<1>8. armci[a].previous = b
  BY <1>1, <1>4, <1>7, NullFact DEF ListOf
<1>9. QED
  BY <1>4, <1>7, <1>8

(* nga_test_internal at one entry: an entry leaves its list only when      *)
(* nothing is posted on its handle, and the walk goes on from one that is  *)
(* still in the list.                                                      *)
LEMMA TestOne ==
  ASSUME RingSound, TablesSound, NEW i \in Ring, NEW a \in Chain(i), comex_test(armci_ihdl[a].handle),
         IF TestsComplete(armci_ihdl[a].handle)
         THEN /\ ga_ihdl' = Unlinked(a).ga
              /\ armci_ihdl' = [Unlinked(a).armci EXCEPT ![a] = FreeEntry]
         ELSE UNCHANGED <<ga_ihdl, armci_ihdl>>,
         lastGA' = lastGA, lastARMCI' = lastARMCI, ga_nb_tag' = ga_nb_tag, Kept' = Ring
  PROVE  /\ RingSound' /\ TablesSound'
         /\ Keeps /\ SameTags
         /\ armci_ihdl[a].next \in Chain(i)' \cup {NULL}
<1> DEFINE h == armci_ihdl[a].handle
<1>1. ga_ihdl \in GaTable /\ armci_ihdl \in ArmciTable /\ Lists(ga_ihdl, armci_ihdl, {})
  BY DEF TablesSound, Lists
<1>2. /\ a \in Ring /\ a \in ChainOf(ga_ihdl, armci_ihdl, i) /\ armci_ihdl[a].active /\ h \in Ring
      /\ armci_ihdl[a].next \in Chain(i) \cup {NULL} /\ armci_ihdl[a].next # a
      /\ \A j \in Ring : Chain(j) \in SUBSET Ring
  <2>1. a \in ChainOf(ga_ihdl, armci_ihdl, i)
    BY ChainIs
  <2>2. a \in Ring /\ armci_ihdl[a].active
    BY <1>1, <2>1, ChainFacts DEF Lists, ListOf
  <2>3. \A j \in Ring : Chain(j) \in SUBSET Ring
    BY <1>1, ChainIs, ChainFacts
  <2>4. armci_ihdl[a].next \in Chain(i) \cup {NULL}
    BY <1>1, <2>1, ChainIs, ChainFacts
  <2>5. armci_ihdl[a].next # a
    BY <1>1, <2>1, NextIsOther
  <2>6. h \in Ring
    BY <1>1, <2>2, TableFacts
  <2>7. QED
    BY <2>1, <2>2, <2>3, <2>4, <2>5, <2>6
<1>3. nb_test_for_all(h) /\ nb_index' = nb_index
  BY DEF comex_test
<1> HIDE DEF h
<1>4. RingSound' /\ posted' \subseteq posted
      /\ (TestsComplete(h) => posted' = {m \in posted : m[1] # h})
  BY <1>2, <1>3, TestRing
<1>5. CASE TestsComplete(h)
  <2> DEFINE G == Unlinked(a).ga
             A == Unlinked(a).armci
             A2 == [A EXCEPT ![a] = FreeEntry]
  <2>1. ga_ihdl' = G /\ armci_ihdl' = A2
    BY <1>5 DEF h
  <2>2. TakenOut(ga_ihdl, armci_ihdl, G, A, a)
    BY <1>2, UnlinkedFact
  <2> HIDE DEF G, A
  <2>3. Lists(G, A, {a}) /\ ChainsWithout(ga_ihdl, armci_ihdl, G, A, a)
    BY <1>1, <1>2, <2>2, CutLists
  <2>4. Lists(G, A2, {}) /\ SameChains(G, A, G, A2)
    BY <1>2, <2>3, FreeLists
  <2>5. \A j \in Ring : Chain(j)' = Chain(j) \ {a}
    <3>1. \A j \in Ring : Chain(j)' = ChainOf(G, A2, j)
      BY <2>1 DEF Chain, ChainOf
    <3>2. QED
      BY <2>3, <2>4, <3>1, ChainIs DEF SameChains, ChainsWithout
  <2>6. /\ \A b \in Ring \ {a} : armci_ihdl'[b].handle = armci_ihdl[b].handle
        /\ \A j \in Ring : ga_ihdl'[j].tag = ga_ihdl[j].tag
    BY <2>1, <2>2 DEF TakenOut, ArmciTable
  <2>7. \A m \in posted' : m[1] # armci_ihdl[a].handle
    BY <1>4, <1>5 DEF h
  <2>8. Keeps
    BY <1>2, <1>4, <2>5, <2>6, <2>7 DEF Keeps
  <2>9. TablesSound'
    BY <2>1, <2>4 DEF TablesSound
  <2>10. QED
    BY <1>2, <1>4, <2>5, <2>6, <2>8, <2>9 DEF SameTags
<1>6. CASE ~ TestsComplete(h)
  <2>1. armci_ihdl' = armci_ihdl /\ ga_ihdl' = ga_ihdl
    BY <1>6 DEF h
  <2>2. \A j \in Ring : Chain(j)' = Chain(j)
    BY <2>1 DEF Chain
  <2>3. Keeps /\ SameTags
    BY <1>2, <1>4, <2>1, <2>2 DEF Keeps, SameTags
  <2>4. TablesSound'
    BY <2>1 DEF TablesSound
  <2>5. QED
    BY <1>2, <1>4, <2>2, <2>3, <2>4
<1>7. QED
  BY <1>5, <1>6

(* A step after which an entry that says where messages are is where it    *)
(* was and has its handle.                                                 *)
Carries ==
  \A j \in Ring : \A b \in Chain(j) : b \in Kept =>
     /\ b \in Chain(j)' /\ b \in Kept'
     /\ armci_ihdl'[b].handle = armci_ihdl[b].handle
     /\ ga_ihdl'[j].tag = ga_ihdl[j].tag

(* The tables when no handle is touched.                                   *)
LEMMA SameTables ==
  ASSUME TablesSound, UNCHANGED <<ga_ihdl, armci_ihdl, lastGA, lastARMCI, ga_nb_tag>>
  PROVE  /\ TablesSound' /\ SameTags
         /\ \A j \in Ring : Chain(j)' = Chain(j) /\ Chain(j) \in SUBSET Ring
         /\ Kept \subseteq Kept' => Carries
         /\ posted' \subseteq posted /\ Kept' = Ring => Keeps
<1>1. ga_ihdl \in GaTable /\ armci_ihdl \in ArmciTable
  BY DEF TablesSound, Lists
<1>2. \A j \in Ring : Chain(j)' = Chain(j) /\ Chain(j) \in SUBSET Ring
  BY <1>1, ChainIs, ChainFacts DEF Chain
<1>3. QED
  BY <1>2 DEF Keeps, Carries, SameTags, TablesSound

(* A piece posted for an entry: the entry has the handle of the piece, the *)
(* lists are the same.                                                     *)
LEMMA PostEntry ==
  ASSUME RingSound, TablesSound, NEW c \in Ring, Kept = Ring \ {c}, Kept' = Ring,
         armci_ihdl' = [armci_ihdl EXCEPT ![c].handle = Chosen],
         UNCHANGED <<ga_ihdl, lastGA, lastARMCI, ga_nb_tag>>
  PROVE  /\ TablesSound' /\ SameTags
         /\ Carries
         /\ armci_ihdl'[c].handle = Chosen
         /\ \A j \in Ring : Chain(j)' = Chain(j) /\ Chain(j) \in SUBSET Ring
<1>1. ga_ihdl \in GaTable /\ armci_ihdl \in ArmciTable /\ Lists(ga_ihdl, armci_ihdl, {})
  BY DEF TablesSound, Lists
<1>2. Chosen \in Ring
  BY ChosenFact
<1>3. /\ armci_ihdl' \in ArmciTable /\ armci_ihdl'[c].handle = Chosen
      /\ \A b \in Ring : SameLinks(armci_ihdl, armci_ihdl', b)
      /\ \A b \in Ring \ {c} : armci_ihdl'[b].handle = armci_ihdl[b].handle
  BY <1>1, <1>2 DEF ArmciTable, SameLinks
<1>4. \A j \in Ring : ga_ihdl'[j].ahandle = ga_ihdl[j].ahandle /\ ga_ihdl'[j].count = ga_ihdl[j].count
  OBVIOUS
<1>5. ga_ihdl' \in GaTable
  BY <1>1
<1>6. Lists(ga_ihdl', armci_ihdl', {}) /\ SameChains(ga_ihdl, armci_ihdl, ga_ihdl', armci_ihdl')
  BY <1>1, <1>3, <1>4, <1>5, ListsFrame
<1>7. \A j \in Ring : Chain(j)' = Chain(j) /\ Chain(j) \in SUBSET Ring
  <2>1. \A j \in Ring : Chain(j)' = ChainOf(ga_ihdl', armci_ihdl', j)
    BY DEF Chain, ChainOf
  <2>2. QED
    BY <1>1, <1>6, <2>1, ChainIs, ChainFacts DEF SameChains
<1>8. Carries /\ SameTags
  BY <1>3, <1>7 DEF Carries, SameTags
<1>9. TablesSound'
  BY <1>6 DEF TablesSound
<1>10. QED
  BY <1>3, <1>7, <1>8, <1>9

-----------------------------------------------------------------------------
(* The calls.                                                              *)

UserOf(u) == <<"user", u>>
First(s) == <<"firsthdl", s>>
Element(s) == <<"elementhdl", s>>
UserVar == {UserOf(u) : u \in User}

PCs == {"idle", "init", "pieces", "armci", "blocked", "gets", "gets_nb", "gets_wait",
        "notify", "test", "ghosts"}

CallRecord ==
  [pc : PCs, kind : Kind, blocking : BOOLEAN, var : Var, pieces : Nat, shared : Nat,
   last : BOOLEAN, cur : Ring \cup {NULL}, then : Slot \cup {NULL}]

HandleValue == [index : Ring, tag : 0 .. TagMod - 1]

Variables ==
  /\ hv \in [Var -> HandleValue \cup {NULL}]
  /\ putn \in [Slot -> User \cup {NULL}]
  /\ ops \in 0 .. MaxOps
  /\ owner \in [Msg -> Var \cup {NULL}]
  /\ blocked \in Ring \cup {NULL}
  /\ call \in CallRecord

(* Message m is on the ComEx handle of an entry of the list a wait on v    *)
(* would walk.                                                             *)
Listed(m, v) ==
  Current(v) /\ \E a \in Chain(hv[v].index) : a \in Kept /\ armci_ihdl[a].handle = m[1]

(* Nothing under way is lost: it is listed, or the process is blocked in   *)
(* it, or it belongs to an update of ghost cells, which waits for all.     *)
Owned ==
  \A v \in Var : \A m \in Pending(v) :
     \/ Listed(m, v)
     \/ call.pc = "blocked" /\ m[1] = blocked
     \/ call.pc = "ghosts" /\ v = Temp

(* Whose call it is.                                                       *)
Patch == {"init", "pieces", "armci"}
Gets == {"gets", "gets_nb", "gets_wait"}

CallVar ==
  /\ call.pc \in Patch =>
       \/ call.var = Temp /\ call.blocking /\ call.then = NULL
       \/ call.var \in UserVar /\ ~ call.blocking /\ call.then = NULL
       \/ call.then # NULL /\ ~ call.blocking /\ call.var = First(call.then)
       \/ call.then = NULL /\ ~ call.blocking /\ \E s \in Slot : call.var = Element(s)
  /\ call.pc \in Gets => call.var = Temp /\ call.blocking /\ call.then = NULL
  /\ call.pc = "blocked" => call.then = NULL /\ call.var = (IF call.blocking THEN Temp ELSE Nested)
  /\ call.pc = "test" => call.var \in UserVar /\ call.then = NULL /\ ~ call.blocking
  /\ call.pc = "notify" => call.then # NULL /\ ~ call.blocking
  /\ call.pc \in {"idle", "ghosts"} => call.then = NULL /\ ~ call.blocking

(* How far it is.                                                          *)
CallStage ==
  /\ blocked = NULL <=> call.pc # "blocked"
  /\ call.blocking /\ call.pc # "init" => hv[Temp] # NULL
  /\ call.pc \in {"gets_wait", "blocked"} => call.pieces = 0
  /\ call.pc \in {"gets", "gets_nb"} => PiecesLeft /\ (call.pieces = 0 \/ (call.pieces = 1 /\ call.last))
  /\ call.pc \in {"pieces", "armci"} /\ (~ call.blocking \/ call.pieces > 0) => Current(call.var)
  /\ call.pc = "armci" =>
       /\ call.cur \in Chain(hv[call.var].index) /\ PiecesLeft
       /\ call.blocking => call.pieces > 0
  /\ IF call.pc \in Gets THEN Current(Nested) ELSE hv[Nested] = NULL
  /\ call.pc = "gets_nb" => call.cur \in Chain(hv[Nested].index)
  /\ call.pc = "test" => Current(call.var) /\ call.cur \in Chain(hv[call.var].index) \cup {NULL}

(* For whom nothing is under way.                                          *)
Quiet ==
  /\ Pending(Temp) # {} => call.blocking \/ call.pc = "ghosts"
  /\ Pending(Nested) # {} => call.pc = "gets_wait" \/ (call.pc = "blocked" /\ ~ call.blocking)
  /\ call.pc = "init" => Pending(call.var) = {}
  /\ call.pc \in Patch /\ call.then # NULL => Pending(Element(call.then)) = {}
  /\ call.pc = "notify" => Pending(First(call.then)) = {}
  /\ \A s \in Slot : putn[s] = NULL => Pending(First(s)) = {} /\ Pending(Element(s)) = {}

(* The handles of a put/notify that is known by an address.                *)
Notifies ==
  /\ \A s \in Slot : putn[s] # NULL =>
       /\ hv[First(s)] # NULL \/ (call.pc = "init" /\ call.var = First(s))
       /\ \/ hv[Element(s)] # NULL
          \/ call.pc \in Patch /\ call.then = s
          \/ call.pc = "init" /\ call.var = Element(s)
  /\ call.then # NULL => putn[call.then] # NULL
  /\ call.pc \in Patch => \A s \in Slot : call.var = Element(s) => putn[s] # NULL

Calling == Variables /\ CallVar /\ CallStage /\ Quiet /\ Notifies

IInv == RingSound /\ TablesSound /\ Owned /\ Calling

(* The handle variables are different ones.                                *)
LEMMA VarFacts ==
  /\ Temp \in Var /\ Nested \in Var /\ Temp # Nested /\ NULL \notin Var /\ NULL \notin Slot
  /\ \A u \in User : UserOf(u) \in Var /\ UserOf(u) \in UserVar /\ u # NULL
  /\ \A v \in UserVar : v \in Var /\ v # Temp /\ v # Nested /\ \A s \in Slot : v # First(s) /\ v # Element(s)
  /\ \A s \in Slot : /\ First(s) \in Var /\ Element(s) \in Var
                     /\ First(s) # Temp /\ First(s) # Nested /\ Element(s) # Temp /\ Element(s) # Nested
  /\ \A s, t \in Slot : /\ First(s) # Element(t)
                        /\ First(s) = First(t) => s = t
                        /\ Element(s) = Element(t) => s = t
<1>1. Temp \in Var /\ Nested \in Var
  BY DEF Temp, Nested, Var
<1>2. Temp # Nested
  BY DEF Temp, Nested
<1>3. NULL \notin Var /\ NULL \notin Slot /\ \A u \in User : u # NULL
  BY NbAssumption, GaNbAssumption DEF Slot
<1>4. \A u \in User : UserOf(u) \in Var /\ UserOf(u) \in UserVar
  BY DEF Var, UserVar, UserOf
<1>5. \A v \in UserVar : v \in Var /\ v # Temp /\ v # Nested /\ \A s \in Slot : v # First(s) /\ v # Element(s)
  <2>1. TAKE v \in UserVar
  <2>2. PICK u \in User : v = <<"user", u>>
    BY DEF UserVar, UserOf
  <2>3. QED
    BY <1>4, <2>2 DEF Temp, Nested, First, Element, UserOf
<1>6. \A s \in Slot : /\ First(s) \in Var /\ Element(s) \in Var
                      /\ First(s) # Temp /\ First(s) # Nested /\ Element(s) # Temp /\ Element(s) # Nested
  BY DEF Var, First, Element, Temp, Nested
<1>7. \A s, t \in Slot : /\ First(s) # Element(t)
                         /\ First(s) = First(t) => s = t
                         /\ Element(s) = Element(t) => s = t
  BY DEF First, Element
<1>8. QED
  BY <1>1, <1>2, <1>3, <1>4, <1>5, <1>6, <1>7

(* Every step is one of the values the fields of a call have.              *)
LEMMA CallFields ==
  ASSUME call \in CallRecord
  PROVE  /\ call.pc \in PCs /\ call.kind \in Kind /\ call.blocking \in BOOLEAN /\ call.var \in Var
         /\ call.pieces \in Nat /\ call.shared \in Nat /\ call.last \in BOOLEAN
         /\ call.cur \in Ring \cup {NULL} /\ call.then \in Slot \cup {NULL}
         /\ call = [pc |-> call.pc, kind |-> call.kind, blocking |-> call.blocking, var |-> call.var,
                    pieces |-> call.pieces, shared |-> call.shared, last |-> call.last,
                    cur |-> call.cur, then |-> call.then]
BY DEF CallRecord

-----------------------------------------------------------------------------
(* What is under way after a step.                                         *)

(* A step that posts nothing adds nothing to anyone's.                     *)
LEMMA PendingFewer ==
  ASSUME KeepOwners, posted' \subseteq posted, RingSound, NEW v \in Var
  PROVE  Pending(v)' \subseteq Pending(v)
<1>1. posted \subseteq Msg /\ v # NULL
  BY VarFacts DEF RingSound
<1>2. owner' = [m \in Msg |-> IF m \in {} THEN NULL ELSE IF m \in posted' THEN owner[m] ELSE NULL]
  BY DEF KeepOwners, Own
<1>3. \A m \in posted' : m \in posted /\ owner'[m] = owner[m]
  BY <1>1, <1>2
<1>4. QED
  BY <1>3 DEF Pending

(* And keeps the types of the owners.                                      *)
LEMMA OwnerTyped ==
  ASSUME Variables, NEW v \in Var \cup {NULL}, NEW ms, Own(v, ms)
  PROVE  owner' \in [Msg -> Var \cup {NULL}]
BY DEF Own, Variables

(* The same for the waits and tests, which post nothing.                   *)
LEMMA KeptOwnerTyped ==
  ASSUME Variables, KeepOwners
  PROVE  owner' \in [Msg -> Var \cup {NULL}]
<1>1. Own(NULL, {})
  BY DEF KeepOwners
<1>2. QED
  BY <1>1, OwnerTyped

(* What is listed and not complete stays listed.                           *)
LEMMA StillListed ==
  ASSUME Variables, Keeps, NEW v \in Var, hv'[v] = hv[v], NEW m \in posted', Listed(m, v)
  PROVE  Listed(m, v)'
<1> DEFINE j == hv[v].index
<1>1. j \in Ring /\ hv[v] # NULL /\ hv[v].tag = ga_ihdl[j].tag
  BY DEF Listed, Current, Variables, HandleValue
<1>2. PICK b \in Chain(j) : b \in Kept /\ armci_ihdl[b].handle = m[1]
  BY DEF Listed
<1>3. b \in Chain(j)' /\ b \in Kept' /\ armci_ihdl'[b].handle = m[1] /\ ga_ihdl'[j].tag = ga_ihdl[j].tag
  BY <1>1, <1>2 DEF Keeps
<1>4. hv'[v].index = j
  OBVIOUS
<1>5. b \in Chain(hv[v].index)'
  <2>1. Chain(hv[v].index)' = LinkedFrom(ga_ihdl'[hv'[v].index].ahandle, [a \in Ring |-> armci_ihdl'[a].next])
    BY DEF Chain
  <2>2. Chain(j)' = LinkedFrom(ga_ihdl'[hv'[v].index].ahandle, [a \in Ring |-> armci_ihdl'[a].next])
    BY DEF Chain
  <2>3. QED
    BY <1>3, <2>1, <2>2
<1>6. Current(v)'
  BY <1>1, <1>3, <1>4 DEF Current
<1>7. QED
  BY <1>3, <1>5, <1>6 DEF Listed

(* The same for the steps that post.                                       *)
LEMMA CarriedListed ==
  ASSUME Variables, Carries, NEW v \in Var, hv'[v] = hv[v], NEW m, Listed(m, v)
  PROVE  Listed(m, v)'
<1>1. PICK j \in Ring : j = hv[v].index
  BY DEF Listed, Current, Variables, HandleValue
<1>2. hv[v] # NULL /\ hv[v].tag = ga_ihdl[j].tag
  BY <1>1 DEF Listed, Current
<1>3. PICK b \in Chain(j) : b \in Kept /\ armci_ihdl[b].handle = m[1]
  BY <1>1 DEF Listed
<1>4. b \in Chain(j)' /\ b \in Kept' /\ armci_ihdl'[b].handle = m[1] /\ ga_ihdl'[j].tag = ga_ihdl[j].tag
  BY <1>1, <1>3 DEF Carries
<1>5. hv'[v].index = j
  BY <1>1
<1>6. Current(v)'
  BY <1>2, <1>4, <1>5 DEF Current
<1>7. QED
  BY <1>4, <1>5, <1>6 DEF Listed

(* A step that posts nothing, of a call that is not blocked in ComEx.      *)
LEMMA OwnedKept ==
  ASSUME RingSound, Variables, Owned, Keeps, KeepOwners, call.pc \notin {"blocked", "ghosts"},
         \A v \in Var : hv'[v] = hv[v] \/ Pending(v)' = {}
  PROVE  Owned'
<1>1. ASSUME NEW v \in Var, NEW m \in Pending(v)'
      PROVE  Listed(m, v)'
  <2>1. hv'[v] = hv[v]
    BY <1>1
  <2>2. posted' \subseteq posted
    BY DEF Keeps
  <2>3. m \in Pending(v) /\ m \in posted'
    <3>1. Pending(v)' \subseteq Pending(v)
      BY <2>2, PendingFewer
    <3>2. m \in posted'
      BY <1>1 DEF Pending
    <3>3. QED
      BY <1>1, <3>1, <3>2
  <2>4. Listed(m, v)
    BY <2>3 DEF Owned
  <2>5. QED
    BY <2>1, <2>3, <2>4, StillListed
<1>2. QED
  BY <1>1 DEF Owned

(* A wait on a handle variable: nothing of it is under way any more.       *)
LEMMA Waited ==
  ASSUME RingSound, Owned, Keeps, KeepOwners, Kept = Ring, call.pc \notin {"blocked", "ghosts"},
         NEW v \in Var,
         Current(v) => \A m \in posted' : \A b \in Chain(hv[v].index) : m[1] # armci_ihdl[b].handle
  PROVE  Pending(v)' = {}
<1>1. SUFFICES ASSUME NEW m \in Pending(v)' PROVE FALSE
  OBVIOUS
<1>2. Pending(v)' \subseteq Pending(v)
  BY PendingFewer DEF Keeps
<1>3. m \in posted' /\ Listed(m, v)
  BY <1>1, <1>2 DEF Owned, Pending
<1>4. QED
  BY <1>3 DEF Listed

(* A step that posts messages for v.                                       *)
LEMMA OwnedPosts ==
  ASSUME RingSound, Variables, Owned, Carries, hv' = hv, call.pc # "blocked",
         NEW s \in Nat, NEW r \in Nat, s + r <= MsgMax, nb_post(s, r), NEW v \in Var, Own(v, Fresh(s + r)),
         call.pc = "ghosts" => call'.pc = "ghosts",
         \A m \in Fresh(s + r) : \/ Listed(m, v)'
                                 \/ call'.pc = "blocked" /\ m[1] = blocked'
                                 \/ call'.pc = "ghosts" /\ v = Temp
  PROVE  Owned' /\ \A w \in Var \ {v} : Pending(w)' \subseteq Pending(w)
<1>1. posted' = {m \in posted : m[1] # Chosen} \cup Fresh(s + r) /\ posted \subseteq Msg
      /\ \A m \in Fresh(s + r) : m \in Msg
  BY PostRing DEF RingSound
<1>2. \A m \in posted' : owner'[m] = IF m \in Fresh(s + r) THEN v ELSE owner[m]
  BY <1>1 DEF Own
<1>3. ASSUME NEW w \in Var, NEW m \in Pending(w)'
      PROVE  (m \in Fresh(s + r) /\ w = v) \/ (m \notin Fresh(s + r) /\ m \in Pending(w))
  BY <1>1, <1>2, <1>3 DEF Pending
<1>4. \A w \in Var \ {v} : Pending(w)' \subseteq Pending(w)
  BY <1>3
<1>5. ASSUME NEW w \in Var, NEW m \in Pending(w)'
      PROVE  \/ Listed(m, w)'
             \/ call'.pc = "blocked" /\ m[1] = blocked'
             \/ call'.pc = "ghosts" /\ w = Temp
  <2>1. CASE m \in Fresh(s + r) /\ w = v
    BY <2>1
  <2>2. CASE m \notin Fresh(s + r) /\ m \in Pending(w)
    <3>1. Listed(m, w) \/ (call.pc = "ghosts" /\ w = Temp)
      BY <2>2 DEF Owned
    <3>2. Listed(m, w) => Listed(m, w)'
      BY CarriedListed
    <3>3. QED
      BY <3>1, <3>2
  <2>3. QED
    BY <1>3, <1>5, <2>1, <2>2
<1>6. QED
  BY <1>4, <1>5 DEF Owned

(* Whether a variable is current only depends on it and on the tags.       *)
LEMMA StillCurrent ==
  ASSUME Variables, SameTags, NEW v \in Var, hv'[v] = hv[v], Current(v)
  PROVE  Current(v)'
BY DEF Variables, SameTags, Current, HandleValue

(* A step that gives a slot to a variable.                                 *)
LEMMA NowCurrent ==
  ASSUME Variables, NEW v \in Var, NEW i \in Ring, NEW t \in 0 .. TagMod - 1,
         hv' = [hv EXCEPT ![v] = [index |-> i, tag |-> t]], ga_ihdl'[i].tag = t
  PROVE  /\ hv' \in [Var -> HandleValue \cup {NULL}]
         /\ hv'[v] # NULL /\ Current(v)'
         /\ \A w \in Var \ {v} : hv'[w] = hv[w]
<1>1. NULL \notin HandleValue
  BY GaNbAssumption DEF HandleValue
<1>2. QED
  BY <1>1 DEF Variables, Current, HandleValue

-----------------------------------------------------------------------------
(* Calls that begin.                                                       *)

(* When no call is under way.                                              *)
LEMMA IdleFacts ==
  ASSUME Calling, call.pc = "idle"
  PROVE  /\ blocked = NULL /\ hv[Nested] = NULL /\ Kept = Ring
         /\ Pending(Temp) = {} /\ Pending(Nested) = {}
         /\ \A s \in Slot : putn[s] # NULL => hv[First(s)] # NULL /\ hv[Element(s)] # NULL
<1>1. ~ call.blocking
  BY DEF Calling, CallVar
<1>2. blocked = NULL /\ hv[Nested] = NULL
  BY DEF Calling, CallStage, Gets
<1>3. Pending(Temp) = {} /\ Pending(Nested) = {}
  BY <1>1 DEF Calling, Quiet
<1>4. \A s \in Slot : putn[s] # NULL => hv[First(s)] # NULL /\ hv[Element(s)] # NULL
  BY DEF Calling, Notifies, Patch
<1>5. QED
  BY <1>2, <1>3, <1>4 DEF Kept

(* pnga_nbput, pnga_nbget, pnga_nbacc, their blocking forms and            *)
(* pnga_nbput_notify, up to the handle.                                    *)
LEMMA StartStep ==
  ASSUME IInv, NEW kind \in Kind, NEW blocking \in BOOLEAN, NEW v \in Var, NEW then \in Slot \cup {NULL},
         Start(kind, blocking, v, then),
         UNCHANGED <<nbvars, ga_ihdl, armci_ihdl, lastGA, lastARMCI, ga_nb_tag, hv>>,
         \/ /\ putn' = putn /\ then = NULL
            /\ (v = Temp /\ blocking) \/ (v \in UserVar /\ ~ blocking)
         \/ /\ then \in Slot /\ v = First(then) /\ ~ blocking /\ putn[then] = NULL
            /\ \E u \in User : putn' = [putn EXCEPT ![then] = u]
  PROVE  IInv'
<1>1. PICK p \in Patches :
        call' = [pc |-> "init", kind |-> kind, blocking |-> blocking, var |-> v, pieces |-> p.pieces,
                 shared |-> p.shared, last |-> p.last, cur |-> NULL, then |-> then]
  BY DEF Start
<1>2. /\ call.pc = "idle" /\ ops > 0 /\ ops' = ops - 1
      /\ owner' = [m \in Msg |-> IF owner[m] = v THEN NULL ELSE owner[m]]
  BY DEF Start, Begin
<1>3. RingSound /\ TablesSound /\ Owned /\ Calling /\ Variables
  BY DEF IInv, Calling
<1>4. call'.pc = "init" /\ call'.blocking = blocking /\ call'.var = v /\ call'.then = then
  BY <1>1
<1>5. /\ blocked = NULL /\ hv[Nested] = NULL /\ Kept = Ring
      /\ Pending(Temp) = {} /\ Pending(Nested) = {}
      /\ \A s \in Slot : putn[s] # NULL => hv[First(s)] # NULL /\ hv[Element(s)] # NULL
  BY <1>2, <1>3, IdleFacts
<1>6. RingSound' /\ posted' = posted /\ blocked' = blocked
  BY <1>3, SameRing
<1>7. Kept' = Ring
  BY <1>4 DEF Kept
<1>8. TablesSound' /\ Keeps
  BY <1>3, <1>6, <1>7, SameTables
<1>9. /\ Pending(v)' = {}
      /\ \A w \in Var : Pending(w)' \subseteq Pending(w)
  <2>1. posted \subseteq Msg /\ v # NULL /\ \A w \in Var : w # NULL
    BY <1>3, VarFacts DEF RingSound
  <2>2. QED
    BY <1>2, <1>6, <2>1 DEF Pending
<1>10. Owned'
  <2>1. ASSUME NEW w \in Var, NEW m \in Pending(w)' PROVE Listed(m, w)'
    <3>1. m \in Pending(w) /\ m \in posted'
      BY <1>9, <2>1 DEF Pending
    <3>2. Listed(m, w)
      BY <1>2, <1>3, <3>1 DEF Owned
    <3>3. QED
      BY <1>3, <1>8, <3>1, <3>2, StillListed
  <2>2. QED
    BY <2>1 DEF Owned
<1>11. Variables'
  <2>1. call' \in CallRecord
    <3>1. p \in [pieces : Nat, shared : Nat, last : BOOLEAN]
      BY GaNbAssumption
    <3>2. QED
      BY <1>1, <3>1 DEF CallRecord, PCs
  <2>2. ops' \in 0 .. MaxOps
    BY <1>2, <1>3, GaNbAssumption DEF Variables
  <2>3. owner' \in [Msg -> Var \cup {NULL}]
    BY <1>2, <1>3 DEF Variables
  <2>4. putn' \in [Slot -> User \cup {NULL}]
    BY <1>3 DEF Variables
  <2>5. QED
    BY <1>3, <1>6, <2>1, <2>2, <2>3, <2>4 DEF Variables
<1>12. CallVar'
  BY <1>4, VarFacts DEF CallVar, Patch, Gets
<1>13. CallStage'
  BY <1>4, <1>5, <1>6 DEF CallStage, Gets
<1>14. \A s \in Slot : putn'[s] = NULL => putn[s] = NULL
  BY <1>3, VarFacts DEF Variables
<1>15. Quiet'
  <2>1. Pending(Temp)' = {} /\ Pending(Nested)' = {}
    BY <1>5, <1>9, VarFacts
  <2>2. \A s \in Slot : putn[s] = NULL => Pending(First(s))' = {} /\ Pending(Element(s))' = {}
    BY <1>3, <1>9, VarFacts DEF Calling, Quiet
  <2>3. then # NULL => Pending(Element(then))' = {}
    BY <2>2
  <2>4. Pending(call.var)' = {}
    BY <1>4, <1>9
  <2>5. Pending(Element(call.then))' = Pending(Element(then))'
    BY <1>4
  <2>6. QED
    BY <1>4, <1>14, <2>1, <2>2, <2>3, <2>4, <2>5 DEF Quiet
<1>16. Notifies'
  <2>1. ASSUME NEW s \in Slot, putn'[s] # NULL
        PROVE  /\ hv'[First(s)] # NULL \/ call'.var = First(s)
               /\ hv'[Element(s)] # NULL \/ call'.then = s
    <3>1. CASE putn[s] # NULL
      BY <1>5, <3>1
    <3>2. CASE putn[s] = NULL
      <4>1. then = s
        BY <1>3, <2>1, <3>2 DEF Variables
      <4>2. QED
        BY <1>4, <3>2, <4>1, <2>1, VarFacts
    <3>3. QED
      BY <3>1, <3>2
  <2>2. then # NULL => putn'[then] # NULL
    BY <1>3, VarFacts DEF Variables
  <2>3. \A s \in Slot : v # Element(s)
    BY VarFacts
  <2>4. QED
    BY <1>4, <2>1, <2>2, <2>3 DEF Notifies, Patch
<1>17. QED
  BY <1>6, <1>8, <1>10, <1>11, <1>12, <1>13, <1>15, <1>16 DEF IInv, Calling

(* pnga_nbput, pnga_nbget and pnga_nbacc.                                  *)
LEMMA NbStep ==
  ASSUME IInv, NEW u \in User, NEW kind \in Kind, pnga_nb(u, kind)
  PROVE  IInv'
<1>1. /\ Start(kind, FALSE, UserOf(u), NULL)
      /\ UNCHANGED <<nbvars, ga_ihdl, armci_ihdl, lastGA, lastARMCI, ga_nb_tag, hv>> /\ putn' = putn
  BY DEF pnga_nb, UserOf
<1>2. UserOf(u) \in Var /\ UserOf(u) \in UserVar
  BY VarFacts
<1> HIDE DEF UserOf
<1>3. QED
  BY <1>1, <1>2, StartStep

(* pnga_put, pnga_get and pnga_acc.                                        *)
LEMMA BlockingStep ==
  ASSUME IInv, NEW kind \in Kind, pnga_blocking(kind)
  PROVE  IInv'
<1>1. /\ Start(kind, TRUE, Temp, NULL)
      /\ UNCHANGED <<nbvars, ga_ihdl, armci_ihdl, lastGA, lastARMCI, ga_nb_tag, hv>> /\ putn' = putn
  BY DEF pnga_blocking
<1>2. QED
  BY <1>1, VarFacts, StartStep

(* pnga_nbput_notify takes a slot that is free.                            *)
LEMMA PutNotifyStep ==
  ASSUME IInv, NEW u \in User, pnga_nbput_notify(u)
  PROVE  IInv'
<1> DEFINE free == {r \in Slot : putn[r] = NULL}
           s == CHOOSE s \in Slot : putn[s] = NULL /\ \A r \in Slot : r < s => putn[r] # NULL
<1>1. free \in SUBSET Nat /\ free # {}
  BY DEF pnga_nbput_notify, Slot
<1>2. PICK n \in free : \A r \in free : n <= r
  BY <1>1, Smallest
<1>3. \A r \in Slot : r < n => putn[r] # NULL
  BY <1>2 DEF Slot
<1>4. s \in Slot /\ putn[s] = NULL
  BY <1>2, <1>3
<1>5. /\ putn' = [putn EXCEPT ![s] = u]
      /\ Start("put", FALSE, First(s), s)
      /\ UNCHANGED <<nbvars, ga_ihdl, armci_ihdl, lastGA, lastARMCI, ga_nb_tag, hv>>
  BY DEF pnga_nbput_notify, First
<1>6. "put" \in Kind
  BY DEF Kind
<1> HIDE DEF s
<1>7. First(s) \in Var
  BY <1>4, VarFacts
<1>8. QED
  BY <1>4, <1>5, <1>6, <1>7, StartStep

-----------------------------------------------------------------------------
(* Steps of a patch.                                                       *)

(* ga_init_nbhandle at the start of a call: what another variable had in   *)
(* the slot is complete.                                                   *)
LEMMA InitHandleStep ==
  ASSUME IInv, InitHandle
  PROVE  IInv'
<1>1. /\ call.pc = "init" /\ ga_init_nbhandle(call.var) /\ call' = [call EXCEPT !.pc = "pieces"]
      /\ KeepOwners /\ UNCHANGED <<lastARMCI, putn, ops>>
  BY DEF InitHandle, Goto
<1>2. RingSound /\ TablesSound /\ Owned /\ Calling /\ Variables
  BY DEF IInv, Calling
<1>3. call.var \in Var /\ call.then \in Slot \cup {NULL} /\ call \in CallRecord
  BY <1>2, CallFields DEF Variables
<1> PICK v \in Var : v = call.var
  BY <1>3
<1> PICK th \in Slot \cup {NULL} : th = call.then
  BY <1>3
<1>4. /\ call'.pc = "pieces" /\ call'.blocking = call.blocking /\ call'.var = v /\ call'.then = th
      /\ call' \in CallRecord
  BY <1>1, <1>3 DEF CallRecord, PCs
<1>5. Kept' = Ring
  BY <1>4 DEF Kept
<1>6. /\ RingSound' /\ TablesSound' /\ Keeps /\ blocked' = blocked
      /\ \E i \in Ring : \E t \in 0 .. TagMod - 1 :
           hv' = [hv EXCEPT ![v] = [index |-> i, tag |-> t]] /\ ga_ihdl'[i].tag = t
  <2>1. ga_init_nbhandle(v)
    BY <1>1
  <2>2. QED
    BY <1>1, <1>2, <1>5, <2>1, InitSlot
<1>7. /\ hv' \in [Var -> HandleValue \cup {NULL}] /\ hv'[v] # NULL /\ Current(v)'
      /\ \A w \in Var \ {v} : hv'[w] = hv[w]
  <2>1. PICK i \in Ring, t \in 0 .. TagMod - 1 :
          hv' = [hv EXCEPT ![v] = [index |-> i, tag |-> t]] /\ ga_ihdl'[i].tag = t
    BY <1>6
  <2>2. QED
    BY <1>2, <2>1, NowCurrent
<1>8. \A w \in Var : Pending(w)' \subseteq Pending(w)
  BY <1>1, <1>2, <1>6, PendingFewer DEF Keeps
<1>9. Pending(v) = {}
  BY <1>1, <1>2 DEF Calling, Quiet
<1>10. Owned'
  <2>1. \A w \in Var : hv'[w] = hv[w] \/ Pending(w)' = {}
    BY <1>3, <1>7, <1>8, <1>9
  <2>2. QED
    BY <1>1, <1>2, <1>6, <2>1, OwnedKept
<1>11. Variables'
  <2>1. owner' \in [Msg -> Var \cup {NULL}]
    BY <1>1, <1>2, KeptOwnerTyped
  <2>2. QED
    BY <1>1, <1>2, <1>4, <1>6, <1>7, <2>1 DEF Variables
<1>12. CallVar /\ CallStage /\ Quiet /\ Notifies
  BY <1>2 DEF Calling
<1>13. v # Nested
  BY <1>1, <1>12, VarFacts DEF CallVar, Patch
<1>14. CallVar'
  BY <1>1, <1>4, <1>12 DEF CallVar, Patch, Gets
<1>15. CallStage'
  <2>1. blocked = NULL /\ hv[Nested] = NULL
    BY <1>1, <1>12 DEF CallStage, Gets
  <2>2. hv'[Nested] = NULL
    BY <1>7, <1>13, <2>1, VarFacts
  <2>3. call.blocking => hv'[Temp] # NULL
    <3>1. call.blocking => v = Temp
      BY <1>1, <1>12 DEF CallVar, Patch
    <3>2. QED
      BY <1>7, <3>1
  <2>4. Current(call.var)'
    BY <1>4, <1>7
  <2>5. QED
    BY <1>4, <1>6, <2>1, <2>2, <2>3, <2>4 DEF CallStage, Gets
<1>16. Quiet'
  <2>1. /\ Pending(Temp)' # {} => call.blocking
        /\ Pending(Nested)' = {}
    BY <1>1, <1>8, <1>12, VarFacts DEF Quiet
  <2>2. th # NULL => Pending(Element(th))' = {}
    BY <1>1, <1>3, <1>8, <1>12, VarFacts DEF Quiet, Patch
  <2>3. \A s \in Slot : putn'[s] = NULL => Pending(First(s))' = {} /\ Pending(Element(s))' = {}
    BY <1>1, <1>8, <1>12, VarFacts DEF Quiet
  <2>4. Pending(Element(call.then))' = Pending(Element(th))'
    BY <1>4
  <2>5. QED
    BY <1>4, <2>1, <2>2, <2>3, <2>4 DEF Quiet
<1>17. Notifies'
  <2>1. ASSUME NEW s \in Slot, putn'[s] # NULL
        PROVE  /\ hv'[First(s)] # NULL
               /\ hv'[Element(s)] # NULL \/ (call'.pc \in Patch /\ call'.then = s)
    <3>1. putn[s] # NULL /\ First(s) \in Var /\ Element(s) \in Var
      BY <1>1, <2>1, VarFacts
    <3>2. hv[First(s)] # NULL \/ v = First(s)
      BY <1>12, <3>1 DEF Notifies
    <3>3. hv[Element(s)] # NULL \/ th = s \/ v = Element(s)
      BY <1>12, <3>1 DEF Notifies
    <3>4. QED
      BY <1>4, <1>7, <3>1, <3>2, <3>3 DEF Patch
  <2>2. call'.then # NULL => putn'[call'.then] # NULL
    BY <1>1, <1>4, <1>12 DEF Notifies
  <2>3. \A s \in Slot : v = Element(s) => putn[s] # NULL
    BY <1>1, <1>12 DEF Notifies, Patch
  <2>4. QED
    BY <1>1, <1>4, <2>1, <2>2, <2>3 DEF Notifies
<1>18. QED
  BY <1>6, <1>10, <1>11, <1>14, <1>15, <1>16, <1>17 DEF IInv, Calling

(* get_armci_nbhandle for a piece: whoever had the entry has nothing under *)
(* way on it any more.                                                     *)
LEMMA NbPieceStep ==
  ASSUME IInv, NbPiece
  PROVE  IInv'
<1>1. /\ call.pc = "pieces" /\ PiecesLeft /\ ~ NextBlocks /\ get_armci_nbhandle(hv[call.var].index)
      /\ call' = [call EXCEPT !.pc = "armci", !.cur = lastARMCI']
      /\ KeepOwners /\ UNCHANGED <<lastGA, ga_nb_tag, hv, putn, ops>>
  BY DEF NbPiece
<1>2. RingSound /\ TablesSound /\ Owned /\ Calling /\ Variables
  BY DEF IInv, Calling
<1>3. CallVar /\ CallStage /\ Quiet /\ Notifies
  BY <1>2 DEF Calling
<1>4. /\ call.var \in Var /\ call.then \in Slot \cup {NULL} /\ call \in CallRecord
      /\ call.pieces \in Nat /\ call.shared \in Nat /\ call.blocking \in BOOLEAN
  BY <1>2, CallFields DEF Variables
<1> PICK v \in Var : v = call.var
  BY <1>4
<1> PICK th \in Slot \cup {NULL} : th = call.then
  BY <1>4
<1>5. call.blocking => call.pieces > 0
  BY <1>1, <1>4 DEF NextBlocks
<1>6. Current(v)
  BY <1>1, <1>3, <1>5 DEF CallStage
<1> PICK i \in Ring : i = hv[v].index
  BY <1>2, <1>6 DEF Current, Variables, HandleValue
<1>7. /\ call'.pc = "armci" /\ call'.cur = lastARMCI' /\ call'.blocking = call.blocking
      /\ call'.var = v /\ call'.then = th
      /\ call'.pieces = call.pieces /\ call'.shared = call.shared
  BY <1>1, <1>4 DEF CallRecord
<1>8. Kept' = Ring \ {lastARMCI'}
  BY <1>7 DEF Kept
<1>9. /\ RingSound' /\ TablesSound' /\ Keeps /\ SameTags
      /\ lastARMCI' \in Ring /\ lastARMCI' \in Chain(i)' /\ blocked' = blocked
  <2>1. get_armci_nbhandle(i) /\ lastGA' = lastGA /\ ga_nb_tag' = ga_nb_tag
    BY <1>1
  <2>2. Ring \ {lastARMCI'} \subseteq Kept'
    BY <1>8
  <2>3. QED
    BY <1>2, <2>1, <2>2, TakeEntry
<1>10. \A w \in Var : Pending(w)' \subseteq Pending(w)
  BY <1>1, <1>2, <1>9, PendingFewer DEF Keeps
<1>11. Owned'
  <2>1. \A w \in Var : hv'[w] = hv[w] \/ Pending(w)' = {}
    BY <1>1
  <2>2. QED
    BY <1>1, <1>2, <1>9, <2>1, OwnedKept
<1>12. Variables'
  <2>1. owner' \in [Msg -> Var \cup {NULL}]
    BY <1>1, <1>2, KeptOwnerTyped
  <2>2. call' \in CallRecord
    BY <1>1, <1>4, <1>9 DEF CallRecord, PCs
  <2>3. QED
    BY <1>1, <1>2, <1>9, <2>1, <2>2 DEF Variables
<1>13. CallVar'
  BY <1>1, <1>3, <1>7 DEF CallVar, Patch, Gets
<1>14. CallStage'
  <2>1. blocked = NULL /\ hv'[Nested] = NULL /\ (call.blocking => hv'[Temp] # NULL)
    BY <1>1, <1>3 DEF CallStage, Gets
  <2>2. Current(v)'
    BY <1>1, <1>2, <1>6, <1>9, StillCurrent
  <2>3. Current(call.var)'
    BY <1>7, <2>2
  <2>4. call'.cur \in Chain(hv[call.var].index)'
    <3>1. hv'[call'.var].index = i
      BY <1>1, <1>7
    <3>2. QED
      BY <1>7, <1>9, <3>1
  <2>5. PiecesLeft'
    BY <1>1, <1>7 DEF PiecesLeft
  <2>6. QED
    BY <1>5, <1>7, <1>9, <2>1, <2>3, <2>4, <2>5 DEF CallStage, Gets
<1>15. Quiet'
  <2>1. /\ Pending(Temp)' # {} => call.blocking
        /\ Pending(Nested)' = {}
    BY <1>1, <1>10, <1>3, VarFacts DEF Quiet
  <2>2. th # NULL => Pending(Element(th))' = {}
    BY <1>1, <1>4, <1>10, <1>3, VarFacts DEF Quiet, Patch
  <2>3. \A s \in Slot : putn'[s] = NULL => Pending(First(s))' = {} /\ Pending(Element(s))' = {}
    BY <1>1, <1>10, <1>3, VarFacts DEF Quiet
  <2>4. Pending(Element(call.then))' = Pending(Element(th))'
    BY <1>7
  <2>5. QED
    BY <1>7, <2>1, <2>2, <2>3, <2>4 DEF Quiet
<1>16. Notifies'
  BY <1>1, <1>3, <1>7 DEF Notifies, Patch
<1>17. QED
  BY <1>9, <1>11, <1>12, <1>13, <1>14, <1>15, <1>16 DEF IInv, Calling

(* What a piece may be posted as.                                          *)
LEMMA ShapeFacts ==
  ASSUME Variables, NEW shape \in Shape
  PROVE  /\ shape[1] \in Nat /\ shape[2] \in Nat
         /\ shape[1] + shape[2] <= MsgMax
<1>1. CASE call.pieces > 0
  <2>1. call.kind \in Kind /\ shape \in Shapes[call.kind]
    BY <1>1, CallFields DEF Shape, Variables
  <2>2. shape \in Nat \X Nat /\ shape[1] + shape[2] <= MsgMax
    BY <2>1, GaNbAssumption
  <2>3. QED
    BY <2>2
<1>2. CASE ~ (call.pieces > 0)
  BY <1>2, NbAssumption DEF Shape
<1>3. QED
  BY <1>1, <1>2

(* The messages of a piece are on the handle of its entry.                 *)
LEMMA PostListed ==
  ASSUME RingSound, TablesSound, Variables, Owned, NEW v \in Var, NEW c \in Ring, c = call.cur,
         NEW shape \in Shape, PostFor(v, shape), Current(v), c \in Chain(hv[v].index),
         Kept = Ring \ {c}, Kept' = Ring, hv' = hv, call.pc \in {"armci", "gets_nb"},
         UNCHANGED <<ga_ihdl, lastGA, lastARMCI, ga_nb_tag>>
  PROVE  /\ RingSound' /\ TablesSound' /\ SameTags
         /\ Owned'
         /\ blocked' = blocked
         /\ \A w \in Var \ {v} : Pending(w)' \subseteq Pending(w)
         /\ owner' \in [Msg -> Var \cup {NULL}]
<1>1. /\ nb_post(shape[1], shape[2]) /\ blocked' = blocked
      /\ armci_ihdl' = [armci_ihdl EXCEPT ![c].handle = Chosen]
      /\ Own(v, Fresh(shape[1] + shape[2]))
  BY DEF PostFor, comex_nb
<1> PICK s \in Nat, r \in Nat : s = shape[1] /\ r = shape[2] /\ s + r <= MsgMax
  BY ShapeFacts
<1>2. nb_post(s, r) /\ Own(v, Fresh(s + r))
  BY <1>1
<1>3. RingSound' /\ \A m \in Fresh(s + r) : m \in Msg /\ m[1] = Chosen
  BY <1>2, PostRing
<1>4. /\ TablesSound' /\ SameTags /\ Carries /\ armci_ihdl'[c].handle = Chosen
      /\ \A j \in Ring : Chain(j)' = Chain(j) /\ Chain(j) \in SUBSET Ring
  BY <1>1, PostEntry
<1>5. ASSUME NEW m \in Fresh(s + r) PROVE Listed(m, v)'
  <2>1. PICK j \in Ring : j = hv[v].index
    BY DEF Current, Variables, HandleValue
  <2>2. Current(v)'
    BY <1>4, StillCurrent
  <2>3. c \in Chain(j)' /\ c \in Kept' /\ armci_ihdl'[c].handle = m[1]
    BY <1>3, <1>4, <1>5, <2>1
  <2>4. hv'[v].index = j
    BY <2>1
  <2>5. QED
    BY <2>2, <2>3, <2>4 DEF Listed
<1>6. Owned' /\ \A w \in Var \ {v} : Pending(w)' \subseteq Pending(w)
  BY <1>2, <1>4, <1>5, OwnedPosts
<1>7. owner' \in [Msg -> Var \cup {NULL}]
  BY <1>1, OwnerTyped
<1>8. QED
  BY <1>1, <1>3, <1>4, <1>6, <1>7

(* The iterator goes on.                                                   *)
LEMMA OneLessFacts ==
  ASSUME call \in CallRecord, PiecesLeft, NEW pc \in PCs, OneLess(pc)
  PROVE  /\ call' \in CallRecord
         /\ call'.pc = pc /\ call'.blocking = call.blocking /\ call'.var = call.var
         /\ call'.then = call.then /\ call'.cur = NULL
         /\ call'.pieces = IF call.pieces > 0 THEN call.pieces - 1 ELSE 0
<1>1. call.pieces \in Nat /\ call.shared \in Nat /\ call.pieces + call.shared > 0
  BY CallFields DEF PiecesLeft
<1>2. /\ (IF call.pieces > 0 THEN call.pieces - 1 ELSE 0) \in Nat
      /\ (IF call.pieces > 0 THEN call.shared ELSE call.shared - 1) \in Nat
  BY <1>1
<1>3. call' = [pc |-> pc, kind |-> call.kind, blocking |-> call.blocking, var |-> call.var,
               pieces |-> IF call.pieces > 0 THEN call.pieces - 1 ELSE 0,
               shared |-> IF call.pieces > 0 THEN call.shared ELSE call.shared - 1,
               last |-> call.last, cur |-> NULL, then |-> call.then]
  BY CallFields DEF OneLess
<1>4. QED
  BY <1>2, <1>3, CallFields DEF CallRecord

(* A piece posted for the entry just taken.                                *)
LEMMA ArmciNbStep ==
  ASSUME IInv, ArmciNb
  PROVE  IInv'
<1>1. /\ call.pc = "armci" /\ (\E shape \in Shape : PostFor(call.var, shape)) /\ OneLess("pieces")
      /\ UNCHANGED <<ga_ihdl, lastGA, lastARMCI, ga_nb_tag, hv, putn, ops>>
  BY DEF ArmciNb
<1>2. RingSound /\ TablesSound /\ Owned /\ Calling /\ Variables
  BY DEF IInv, Calling
<1>3. CallVar /\ CallStage /\ Quiet /\ Notifies
  BY <1>2 DEF Calling
<1>4. /\ call.var \in Var /\ call.then \in Slot \cup {NULL} /\ call \in CallRecord
      /\ call.pieces \in Nat /\ call.blocking \in BOOLEAN
  BY <1>2, CallFields DEF Variables
<1> PICK v \in Var : v = call.var
  BY <1>4
<1> PICK th \in Slot \cup {NULL} : th = call.then
  BY <1>4
<1>5. Current(v) /\ call.cur \in Chain(hv[v].index) /\ PiecesLeft
  BY <1>1, <1>3 DEF CallStage
<1>6. hv[v].index \in Ring
  BY <1>2, <1>5 DEF Current, Variables, HandleValue
<1> PICK c \in Ring : c = call.cur
  <2>1. Chain(hv[v].index) \in SUBSET Ring
    BY <1>2, <1>6, ChainIs, ChainFacts DEF TablesSound, Lists
  <2>2. QED
    BY <1>5, <2>1
<1>7. /\ call' \in CallRecord
      /\ call'.pc = "pieces" /\ call'.blocking = call.blocking /\ call'.var = v /\ call'.then = th
      /\ call'.pieces = IF call.pieces > 0 THEN call.pieces - 1 ELSE 0
  BY <1>1, <1>4, <1>5, OneLessFacts DEF PCs
<1>8. Kept = Ring \ {c} /\ Kept' = Ring
  BY <1>1, <1>7 DEF Kept
<1>9. /\ RingSound' /\ TablesSound' /\ SameTags /\ Owned' /\ blocked' = blocked
      /\ \A w \in Var \ {v} : Pending(w)' \subseteq Pending(w)
      /\ owner' \in [Msg -> Var \cup {NULL}]
  <2>1. PICK shape \in Shape : PostFor(v, shape)
    BY <1>1
  <2>2. QED
    BY <1>1, <1>2, <1>5, <1>8, <2>1, PostListed
<1>10. Variables'
  BY <1>1, <1>2, <1>7, <1>9 DEF Variables
<1>11. CallVar'
  BY <1>1, <1>3, <1>7 DEF CallVar, Patch, Gets
<1>12. CallStage'
  <2>1. blocked = NULL /\ hv'[Nested] = NULL /\ (call.blocking => hv'[Temp] # NULL)
    BY <1>1, <1>3 DEF CallStage, Gets
  <2>2. Current(v)'
    BY <1>1, <1>2, <1>5, <1>9, StillCurrent
  <2>3. Current(call.var)'
    BY <1>7, <2>2
  <2>4. QED
    BY <1>7, <1>9, <2>1, <2>3 DEF CallStage, Gets
<1>13. Quiet'
  <2>1. v # Nested /\ (v = Temp => call.blocking)
    BY <1>1, <1>3, VarFacts DEF CallVar, Patch
  <2>2. Pending(Temp)' # {} => call.blocking
    <3>1. CASE v = Temp
      BY <2>1, <3>1
    <3>2. CASE v # Temp
      BY <1>1, <1>3, <1>9, <3>2, VarFacts DEF Quiet
    <3>3. QED
      BY <3>1, <3>2
  <2>3. Pending(Nested)' = {}
    BY <1>1, <1>3, <1>9, <2>1, VarFacts DEF Quiet
  <2>4. th # NULL => Pending(Element(th))' = {}
    <3>1. ASSUME th # NULL PROVE th \in Slot /\ v = First(th)
      BY <1>1, <1>3, <3>1 DEF CallVar, Patch
    <3>2. ASSUME th # NULL PROVE Element(th) \in Var \ {v} /\ Pending(Element(th)) = {}
      BY <1>1, <1>3, <3>1, <3>2, VarFacts DEF Quiet, Patch
    <3>3. QED
      BY <1>9, <3>2
  <2>5. ASSUME NEW s \in Slot, putn'[s] = NULL
        PROVE  Pending(First(s))' = {} /\ Pending(Element(s))' = {}
    <3>1. putn[s] = NULL
      BY <1>1, <2>5
    <3>2. Pending(First(s)) = {} /\ Pending(Element(s)) = {}
      BY <1>3, <3>1 DEF Quiet
    <3>3. v # First(s)
      <4>1. ASSUME v = First(s) PROVE th = s
        BY <1>1, <1>3, <4>1, VarFacts DEF CallVar, Patch
      <4>2. s # NULL
        BY VarFacts
      <4>3. QED
        BY <1>3, <3>1, <4>1, <4>2 DEF Notifies
    <3>4. v # Element(s)
      BY <1>1, <1>3, <3>1 DEF Notifies, Patch
    <3>5. QED
      BY <1>9, <3>2, <3>3, <3>4, VarFacts
  <2>6. Pending(Element(call.then))' = Pending(Element(th))'
    BY <1>7
  <2>7. QED
    BY <1>7, <2>2, <2>3, <2>4, <2>5, <2>6 DEF Quiet
<1>14. Notifies'
  BY <1>1, <1>3, <1>7 DEF Notifies, Patch
<1>15. QED
  BY <1>9, <1>10, <1>11, <1>12, <1>13, <1>14 DEF IInv, Calling

-----------------------------------------------------------------------------
(* The blocking get of the last piece, with a handle of its own.           *)

(* For a step that posts nothing and leaves the notify slots alone.        *)
LEMMA SlotsQuiet ==
  ASSUME Quiet, putn' = putn, \A w \in Var : Pending(w)' \subseteq Pending(w)
  PROVE  \A s \in Slot : putn'[s] = NULL => Pending(First(s))' = {} /\ Pending(Element(s))' = {}
BY VarFacts DEF Quiet

(* ngai_gets: ga_init_nbhandle.                                            *)
LEMMA BlockingGetStep ==
  ASSUME IInv, BlockingGet
  PROVE  IInv'
<1>1. /\ call.pc = "pieces" /\ PiecesLeft /\ NextBlocks /\ ga_init_nbhandle(Nested)
      /\ call' = [call EXCEPT !.pc = "gets"]
      /\ KeepOwners /\ UNCHANGED <<lastARMCI, putn, ops>>
  BY DEF BlockingGet, Goto
<1>2. RingSound /\ TablesSound /\ Owned /\ Calling /\ Variables
  BY DEF IInv, Calling
<1>3. CallVar /\ CallStage /\ Quiet /\ Notifies
  BY <1>2 DEF Calling
<1>4. call \in CallRecord /\ Nested \in Var
  BY <1>2, VarFacts DEF Variables
<1>5. /\ call' \in CallRecord
      /\ call'.pc = "gets" /\ call'.blocking = call.blocking /\ call'.var = call.var
      /\ call'.then = call.then /\ call'.pieces = call.pieces /\ call'.shared = call.shared
      /\ call'.last = call.last
  BY <1>1, <1>4 DEF CallRecord, PCs
<1>6. call.blocking /\ call.var = Temp /\ call.then = NULL
      /\ (call.pieces = 0 \/ (call.pieces = 1 /\ call.last))
  <2>1. call.blocking /\ (call.pieces = 0 \/ (call.pieces = 1 /\ call.last))
    BY <1>1 DEF NextBlocks
  <2>2. QED
    BY <1>1, <1>3, <2>1 DEF CallVar, Patch
<1>7. Kept' = Ring
  BY <1>5 DEF Kept
<1>8. /\ RingSound' /\ TablesSound' /\ Keeps /\ blocked' = blocked
      /\ \E i \in Ring : \E t \in 0 .. TagMod - 1 :
           hv' = [hv EXCEPT ![Nested] = [index |-> i, tag |-> t]] /\ ga_ihdl'[i].tag = t
  BY <1>1, <1>2, <1>7, InitSlot
<1>9. /\ hv' \in [Var -> HandleValue \cup {NULL}] /\ Current(Nested)'
      /\ \A w \in Var \ {Nested} : hv'[w] = hv[w]
  <2>1. PICK i \in Ring, t \in 0 .. TagMod - 1 :
          hv' = [hv EXCEPT ![Nested] = [index |-> i, tag |-> t]] /\ ga_ihdl'[i].tag = t
    BY <1>8
  <2>2. QED
    BY <1>2, <1>4, <2>1, NowCurrent
<1>10. \A w \in Var : Pending(w)' \subseteq Pending(w)
  BY <1>1, <1>2, <1>8, PendingFewer DEF Keeps
<1>11. Pending(Nested)' = {}
  BY <1>1, <1>3, <1>4, <1>10 DEF Quiet
<1>12. Owned'
  <2>1. \A w \in Var : hv'[w] = hv[w] \/ Pending(w)' = {}
    BY <1>9, <1>11
  <2>2. QED
    BY <1>1, <1>2, <1>8, <2>1, OwnedKept
<1>13. Variables'
  <2>1. owner' \in [Msg -> Var \cup {NULL}]
    BY <1>1, <1>2, KeptOwnerTyped
  <2>2. QED
    BY <1>1, <1>2, <1>5, <1>8, <1>9, <2>1 DEF Variables
<1>14. CallVar'
  BY <1>5, <1>6 DEF CallVar, Patch, Gets
<1>15. CallStage'
  <2>1. blocked = NULL /\ hv[Temp] # NULL
    BY <1>1, <1>3, <1>6 DEF CallStage
  <2>2. hv'[Temp] # NULL
    BY <1>9, <2>1, VarFacts
  <2>3. PiecesLeft'
    BY <1>1, <1>5 DEF PiecesLeft
  <2>4. QED
    BY <1>5, <1>6, <1>8, <1>9, <2>1, <2>2, <2>3 DEF CallStage, Gets
<1>16. Quiet'
  <2>1. \A s \in Slot : putn'[s] = NULL => Pending(First(s))' = {} /\ Pending(Element(s))' = {}
    BY <1>1, <1>3, <1>10, SlotsQuiet
  <2>2. QED
    BY <1>5, <1>6, <1>11, <2>1 DEF Quiet, Patch
<1>17. Notifies'
  <2>1. ASSUME NEW s \in Slot, putn'[s] # NULL PROVE hv'[First(s)] # NULL /\ hv'[Element(s)] # NULL
    <3>1. putn[s] # NULL /\ s # NULL /\ First(s) \in Var \ {Nested} /\ Element(s) \in Var \ {Nested}
      BY <1>1, <2>1, VarFacts
    <3>2. hv[First(s)] # NULL /\ hv[Element(s)] # NULL
      BY <1>1, <1>3, <1>6, <3>1 DEF Notifies, Patch
    <3>3. QED
      BY <1>9, <3>1, <3>2
  <2>2. QED
    BY <1>5, <1>6, <2>1 DEF Notifies, Patch
<1>18. QED
  BY <1>8, <1>12, <1>13, <1>14, <1>15, <1>16, <1>17 DEF IInv, Calling

(* What holds while ngai_gets runs.                                        *)
LEMMA GetsFacts ==
  ASSUME Calling, call.pc \in Gets
  PROVE  /\ call.blocking /\ call.var = Temp /\ call.then = NULL
         /\ blocked = NULL /\ hv[Temp] # NULL /\ Current(Nested)
         /\ hv[Nested].index \in Ring
         /\ \A s \in Slot : putn[s] # NULL => hv[First(s)] # NULL /\ hv[Element(s)] # NULL
<1>1. call.blocking /\ call.var = Temp /\ call.then = NULL
  BY DEF Calling, CallVar
<1>2. blocked = NULL /\ hv[Temp] # NULL /\ Current(Nested)
  BY <1>1 DEF Calling, CallStage, Gets
<1>3. hv[Nested].index \in Ring
  BY <1>2, VarFacts DEF Current, Calling, Variables, HandleValue
<1>4. \A s \in Slot : putn[s] # NULL => hv[First(s)] # NULL /\ hv[Element(s)] # NULL
  BY DEF Calling, Notifies, Patch, Gets
<1>5. QED
  BY <1>1, <1>2, <1>3, <1>4

(* ngai_gets: get_armci_nbhandle.                                          *)
LEMMA NestedHandleStep ==
  ASSUME IInv, NestedHandle
  PROVE  IInv'
<1>1. /\ call.pc = "gets" /\ get_armci_nbhandle(hv[Nested].index)
      /\ call' = [call EXCEPT !.pc = "gets_nb", !.cur = lastARMCI']
      /\ KeepOwners /\ UNCHANGED <<lastGA, ga_nb_tag, hv, putn, ops>>
  BY DEF NestedHandle
<1>2. RingSound /\ TablesSound /\ Owned /\ Calling /\ Variables
  BY DEF IInv, Calling
<1>3. CallVar /\ CallStage /\ Quiet /\ Notifies
  BY <1>2 DEF Calling
<1>4. call \in CallRecord /\ Nested \in Var
  BY <1>2, VarFacts DEF Variables
<1>5. /\ call.blocking /\ call.var = Temp /\ call.then = NULL
      /\ blocked = NULL /\ hv[Temp] # NULL /\ Current(Nested) /\ hv[Nested].index \in Ring
      /\ \A s \in Slot : putn[s] # NULL => hv[First(s)] # NULL /\ hv[Element(s)] # NULL
  BY <1>1, <1>2, GetsFacts DEF Gets
<1> PICK i \in Ring : i = hv[Nested].index
  BY <1>5
<1>6. /\ call'.pc = "gets_nb" /\ call'.cur = lastARMCI' /\ call'.blocking = call.blocking
      /\ call'.var = call.var /\ call'.then = call.then
      /\ call'.pieces = call.pieces /\ call'.shared = call.shared /\ call'.last = call.last
  BY <1>1, <1>4 DEF CallRecord
<1>7. Kept' = Ring \ {lastARMCI'}
  BY <1>6 DEF Kept
<1>8. /\ RingSound' /\ TablesSound' /\ Keeps /\ SameTags
      /\ lastARMCI' \in Ring /\ lastARMCI' \in Chain(i)' /\ blocked' = blocked
  <2>1. get_armci_nbhandle(i) /\ lastGA' = lastGA /\ ga_nb_tag' = ga_nb_tag
    BY <1>1
  <2>2. Ring \ {lastARMCI'} \subseteq Kept'
    BY <1>7
  <2>3. QED
    BY <1>2, <2>1, <2>2, TakeEntry
<1>9. \A w \in Var : Pending(w)' \subseteq Pending(w)
  BY <1>1, <1>2, <1>8, PendingFewer DEF Keeps
<1>10. Owned'
  <2>1. \A w \in Var : hv'[w] = hv[w] \/ Pending(w)' = {}
    BY <1>1
  <2>2. QED
    BY <1>1, <1>2, <1>8, <2>1, OwnedKept
<1>11. Variables'
  <2>1. owner' \in [Msg -> Var \cup {NULL}]
    BY <1>1, <1>2, KeptOwnerTyped
  <2>2. call' \in CallRecord
    BY <1>1, <1>4, <1>8 DEF CallRecord, PCs
  <2>3. QED
    BY <1>1, <1>2, <1>8, <2>1, <2>2 DEF Variables
<1>12. CallVar'
  BY <1>5, <1>6 DEF CallVar, Patch, Gets
<1>13. CallStage'
  <2>1. Current(Nested)'
    BY <1>1, <1>2, <1>4, <1>5, <1>8, StillCurrent
  <2>2. call'.cur \in Chain(hv[Nested].index)'
    <3>1. hv'[Nested].index = i
      BY <1>1
    <3>2. QED
      BY <1>6, <1>8, <3>1
  <2>3. PiecesLeft' /\ (call'.pieces = 0 \/ (call'.pieces = 1 /\ call'.last))
    BY <1>1, <1>3, <1>6 DEF PiecesLeft, CallStage
  <2>4. QED
    BY <1>1, <1>5, <1>6, <1>8, <2>1, <2>2, <2>3 DEF CallStage, Gets
<1>14. Quiet'
  <2>1. \A s \in Slot : putn'[s] = NULL => Pending(First(s))' = {} /\ Pending(Element(s))' = {}
    BY <1>1, <1>3, <1>9, SlotsQuiet
  <2>2. Pending(Nested)' = {}
    BY <1>1, <1>3, <1>4, <1>9 DEF Quiet
  <2>3. QED
    BY <1>5, <1>6, <2>1, <2>2 DEF Quiet, Patch
<1>15. Notifies'
  BY <1>1, <1>5, <1>6 DEF Notifies, Patch
<1>16. QED
  BY <1>8, <1>10, <1>11, <1>12, <1>13, <1>14, <1>15 DEF IInv, Calling

(* ngai_gets: the piece posted for the entry.                              *)
LEMMA NestedNbStep ==
  ASSUME IInv, NestedNb
  PROVE  IInv'
<1>1. /\ call.pc = "gets_nb" /\ (\E shape \in Shape : PostFor(Nested, shape)) /\ OneLess("gets_wait")
      /\ UNCHANGED <<ga_ihdl, lastGA, lastARMCI, ga_nb_tag, hv, putn, ops>>
  BY DEF NestedNb
<1>2. RingSound /\ TablesSound /\ Owned /\ Calling /\ Variables
  BY DEF IInv, Calling
<1>3. CallVar /\ CallStage /\ Quiet /\ Notifies
  BY <1>2 DEF Calling
<1>4. call \in CallRecord /\ Nested \in Var
  BY <1>2, VarFacts DEF Variables
<1>5. /\ call.blocking /\ call.var = Temp /\ call.then = NULL
      /\ blocked = NULL /\ hv[Temp] # NULL /\ Current(Nested) /\ hv[Nested].index \in Ring
      /\ \A s \in Slot : putn[s] # NULL => hv[First(s)] # NULL /\ hv[Element(s)] # NULL
  BY <1>1, <1>2, GetsFacts DEF Gets
<1>6. call.cur \in Chain(hv[Nested].index) /\ PiecesLeft /\ call.pieces \in {0, 1}
  BY <1>1, <1>3 DEF CallStage
<1> PICK c \in Ring : c = call.cur
  <2>1. Chain(hv[Nested].index) \in SUBSET Ring
    BY <1>2, <1>5, ChainIs, ChainFacts DEF TablesSound, Lists
  <2>2. QED
    BY <1>6, <2>1
<1>7. /\ call' \in CallRecord
      /\ call'.pc = "gets_wait" /\ call'.blocking = call.blocking /\ call'.var = call.var
      /\ call'.then = call.then
      /\ call'.pieces = IF call.pieces > 0 THEN call.pieces - 1 ELSE 0
  BY <1>1, <1>4, <1>6, OneLessFacts DEF PCs
<1>8. Kept = Ring \ {c} /\ Kept' = Ring
  BY <1>1, <1>7 DEF Kept
<1>9. /\ RingSound' /\ TablesSound' /\ SameTags /\ Owned' /\ blocked' = blocked
      /\ \A w \in Var \ {Nested} : Pending(w)' \subseteq Pending(w)
      /\ owner' \in [Msg -> Var \cup {NULL}]
  <2>1. PICK shape \in Shape : PostFor(Nested, shape)
    BY <1>1
  <2>2. c \in Chain(hv[Nested].index)
    BY <1>6
  <2>3. QED
    BY <1>1, <1>2, <1>4, <1>5, <1>8, <2>1, <2>2, PostListed
<1>10. Variables'
  BY <1>1, <1>2, <1>7, <1>9 DEF Variables
<1>11. CallVar'
  BY <1>5, <1>7 DEF CallVar, Patch, Gets
<1>12. CallStage'
  <2>1. Current(Nested)'
    BY <1>1, <1>2, <1>4, <1>5, <1>9, StillCurrent
  <2>2. call'.pieces = 0
    BY <1>6, <1>7
  <2>3. QED
    BY <1>1, <1>5, <1>7, <1>9, <2>1, <2>2 DEF CallStage, Gets
<1>13. Quiet'
  <2>1. ASSUME NEW s \in Slot, putn'[s] = NULL
        PROVE  Pending(First(s))' = {} /\ Pending(Element(s))' = {}
    <3>1. First(s) \in Var \ {Nested} /\ Element(s) \in Var \ {Nested}
      BY VarFacts
    <3>2. Pending(First(s)) = {} /\ Pending(Element(s)) = {}
      BY <1>1, <1>3, <2>1 DEF Quiet
    <3>3. QED
      BY <1>9, <3>1, <3>2
  <2>2. QED
    BY <1>5, <1>7, <2>1 DEF Quiet, Patch
<1>14. Notifies'
  BY <1>1, <1>5, <1>7 DEF Notifies, Patch
<1>15. QED
  BY <1>9, <1>10, <1>11, <1>12, <1>13, <1>14 DEF IInv, Calling

(* ngai_gets: the wait on its handle.                                      *)
LEMMA NestedWaitStep ==
  ASSUME IInv, NestedWait
  PROVE  IInv'
<1>1. /\ call.pc = "gets_wait" /\ nga_wait_internal(Nested)
      /\ call' = [call EXCEPT !.pc = "pieces"]
      /\ hv' = [hv EXCEPT ![Nested] = NULL]
      /\ KeepOwners /\ UNCHANGED <<lastGA, lastARMCI, ga_nb_tag, putn, ops>>
  BY DEF NestedWait, Goto
<1>2. RingSound /\ TablesSound /\ Owned /\ Calling /\ Variables
  BY DEF IInv, Calling
<1>3. CallVar /\ CallStage /\ Quiet /\ Notifies
  BY <1>2 DEF Calling
<1>4. call \in CallRecord /\ Nested \in Var
  BY <1>2, VarFacts DEF Variables
<1>5. /\ call.blocking /\ call.var = Temp /\ call.then = NULL
      /\ blocked = NULL /\ hv[Temp] # NULL /\ Current(Nested) /\ hv[Nested].index \in Ring
      /\ \A s \in Slot : putn[s] # NULL => hv[First(s)] # NULL /\ hv[Element(s)] # NULL
  BY <1>1, <1>2, GetsFacts DEF Gets
<1>6. /\ call' \in CallRecord
      /\ call'.pc = "pieces" /\ call'.blocking = call.blocking /\ call'.var = call.var
      /\ call'.then = call.then /\ call'.pieces = call.pieces
  BY <1>1, <1>4 DEF CallRecord, PCs
<1>7. Kept = Ring /\ Kept' = Ring
  BY <1>1, <1>6 DEF Kept
<1>8. /\ RingSound' /\ TablesSound' /\ Keeps /\ SameTags /\ blocked' = blocked
      /\ Current(Nested) => \A m \in posted' : \A b \in Chain(hv[Nested].index) : m[1] # armci_ihdl[b].handle
  BY <1>1, <1>2, <1>5, <1>7, WaitCall
<1>9. Pending(Nested)' = {}
  BY <1>1, <1>2, <1>4, <1>7, <1>8, Waited
<1>10. \A w \in Var : Pending(w)' \subseteq Pending(w)
  BY <1>1, <1>2, <1>8, PendingFewer DEF Keeps
<1>11. /\ hv' \in [Var -> HandleValue \cup {NULL}] /\ hv'[Nested] = NULL
       /\ \A w \in Var \ {Nested} : hv'[w] = hv[w]
  BY <1>1, <1>2, <1>4 DEF Variables
<1>12. Owned'
  <2>1. \A w \in Var : hv'[w] = hv[w] \/ Pending(w)' = {}
    BY <1>9, <1>11
  <2>2. QED
    BY <1>1, <1>2, <1>8, <2>1, OwnedKept
<1>13. Variables'
  <2>1. owner' \in [Msg -> Var \cup {NULL}]
    BY <1>1, <1>2, KeptOwnerTyped
  <2>2. QED
    BY <1>1, <1>2, <1>6, <1>8, <1>11, <2>1 DEF Variables
<1>14. CallVar'
  BY <1>5, <1>6 DEF CallVar, Patch, Gets
<1>15. CallStage'
  <2>1. hv'[Temp] # NULL
    BY <1>5, <1>11, VarFacts
  <2>2. call.pieces = 0
    BY <1>1, <1>3 DEF CallStage
  <2>3. QED
    BY <1>5, <1>6, <1>8, <1>11, <2>1, <2>2 DEF CallStage, Gets
<1>16. Quiet'
  <2>1. \A s \in Slot : putn'[s] = NULL => Pending(First(s))' = {} /\ Pending(Element(s))' = {}
    BY <1>1, <1>3, <1>10, SlotsQuiet
  <2>2. QED
    BY <1>5, <1>6, <1>9, <2>1 DEF Quiet, Patch
<1>17. Notifies'
  <2>1. \A s \in Slot : putn'[s] # NULL => hv'[First(s)] # NULL /\ hv'[Element(s)] # NULL
    BY <1>1, <1>5, <1>11, VarFacts
  <2>2. \A s \in Slot : call'.var # Element(s)
    BY <1>5, <1>6, VarFacts
  <2>3. QED
    BY <1>5, <1>6, <2>1, <2>2 DEF Notifies, Patch
<1>18. QED
  BY <1>8, <1>12, <1>13, <1>14, <1>15, <1>16, <1>17 DEF IInv, Calling

-----------------------------------------------------------------------------
(* The blocking put of the last piece, and the calls that go past the      *)
(* handles of Global Arrays.                                               *)

(* Outside pnga_nbput_notify the put/notify operations have their handles. *)
LEMMA SlotsHeld ==
  ASSUME Calling, call.then = NULL, call.pc # "init"
  PROVE  \A s \in Slot : putn[s] # NULL => hv[First(s)] # NULL /\ hv[Element(s)] # NULL
BY VarFacts DEF Calling, Notifies

(* For a step that posts for a handle of the library.                      *)
LEMMA SlotsQuietToo ==
  ASSUME Quiet, putn' = putn, NEW v \in {Temp, Nested},
         \A w \in Var \ {v} : Pending(w)' \subseteq Pending(w)
  PROVE  \A s \in Slot : putn'[s] = NULL => Pending(First(s))' = {} /\ Pending(Element(s))' = {}
<1>1. TAKE s \in Slot
<1>2. HAVE putn'[s] = NULL
<1>3. Pending(First(s)) = {} /\ Pending(Element(s)) = {}
  BY <1>2 DEF Quiet
<1>4. First(s) \in Var \ {v} /\ Element(s) \in Var \ {v}
  BY VarFacts
<1>5. QED
  BY <1>3, <1>4

(* A ComEx call made without a GA handle: its messages are on the handle   *)
(* the process is blocked in, or are those of an update of ghost cells.    *)
LEMMA PostPast ==
  ASSUME RingSound, TablesSound, Variables, Owned, NEW v \in Var, NEW s \in Nat, NEW r \in Nat,
         s + r <= MsgMax, nb_post(s, r), Own(v, Fresh(s + r)), hv' = hv, Kept \subseteq Kept',
         \/ call.pc \notin {"blocked", "ghosts"} /\ call'.pc = "blocked" /\ blocked' = Chosen
         \/ call.pc # "blocked" /\ call'.pc = "ghosts" /\ v = Temp,
         UNCHANGED <<ga_ihdl, armci_ihdl, lastGA, lastARMCI, ga_nb_tag>>
  PROVE  /\ RingSound' /\ TablesSound' /\ SameTags
         /\ Owned'
         /\ \A w \in Var \ {v} : Pending(w)' \subseteq Pending(w)
         /\ owner' \in [Msg -> Var \cup {NULL}]
         /\ Chosen \in Ring
<1>1. RingSound' /\ Chosen \in Ring /\ \A m \in Fresh(s + r) : m \in Msg /\ m[1] = Chosen
  BY PostRing
<1>2. TablesSound' /\ SameTags /\ Carries
  BY SameTables
<1>3. \A m \in Fresh(s + r) : \/ call'.pc = "blocked" /\ m[1] = blocked'
                              \/ call'.pc = "ghosts" /\ v = Temp
  BY <1>1
<1>4. Owned' /\ \A w \in Var \ {v} : Pending(w)' \subseteq Pending(w)
  <2>1. \A m \in Fresh(s + r) : \/ Listed(m, v)'
                                \/ call'.pc = "blocked" /\ m[1] = blocked'
                                \/ call'.pc = "ghosts" /\ v = Temp
    BY <1>3
  <2>2. call.pc # "blocked" /\ (call.pc = "ghosts" => call'.pc = "ghosts")
    OBVIOUS
  <2>3. QED
    BY <1>2, <2>1, <2>2, OwnedPosts
<1>5. owner' \in [Msg -> Var \cup {NULL}]
  BY OwnerTyped
<1>6. QED
  BY <1>1, <1>2, <1>4, <1>5

(* ngai_puts.                                                              *)
LEMMA BlockingPutStep ==
  ASSUME IInv, BlockingPut
  PROVE  IInv'
<1>1. /\ call.pc = "pieces" /\ PiecesLeft /\ NextBlocks
      /\ OneLess("blocked")
      /\ UNCHANGED <<ga_ihdl, armci_ihdl, lastGA, lastARMCI, ga_nb_tag, hv, putn, ops>>
  BY DEF BlockingPut
<1> PICK shape \in Shape : comex_blocking(shape[1], shape[2]) /\ Own(Temp, Fresh(shape[1] + shape[2]))
  BY DEF BlockingPut
<1>2. RingSound /\ TablesSound /\ Owned /\ Calling /\ Variables
  BY DEF IInv, Calling
<1>3. CallVar /\ CallStage /\ Quiet /\ Notifies
  BY <1>2 DEF Calling
<1>4. call \in CallRecord /\ Temp \in Var /\ Nested \in Var \ {Temp} /\ call.pieces \in Nat
  BY <1>2, CallFields, VarFacts DEF Variables
<1>5. call.blocking /\ call.var = Temp /\ call.then = NULL /\ call.pieces \in {0, 1}
  <2>1. call.blocking /\ call.pieces \in {0, 1}
    BY <1>1 DEF NextBlocks
  <2>2. QED
    BY <1>1, <1>3, <2>1 DEF CallVar, Patch
<1>6. /\ call' \in CallRecord
      /\ call'.pc = "blocked" /\ call'.blocking = call.blocking /\ call'.var = call.var
      /\ call'.then = call.then /\ call'.pieces = 0
  <2>1. "blocked" \in PCs
    BY DEF PCs
  <2>2. call'.pieces = IF call.pieces > 0 THEN call.pieces - 1 ELSE 0
    BY <1>1, <1>4, <2>1, OneLessFacts
  <2>3. call'.pieces = 0
    BY <1>5, <2>2
  <2>4. QED
    BY <1>1, <1>4, <2>1, <2>3, OneLessFacts
<1>7. Kept = Ring /\ Kept' = Ring
  BY <1>1, <1>6 DEF Kept
<1>8. /\ RingSound' /\ TablesSound' /\ Owned' /\ blocked' \in Ring
      /\ \A w \in Var \ {Temp} : Pending(w)' \subseteq Pending(w)
      /\ owner' \in [Msg -> Var \cup {NULL}]
  <2> PICK s \in Nat, r \in Nat : s = shape[1] /\ r = shape[2] /\ s + r <= MsgMax
    BY <1>2, ShapeFacts
  <2>1. nb_post(s, r) /\ blocked' = Chosen /\ Own(Temp, Fresh(s + r))
    BY DEF comex_blocking
  <2>2. Kept \subseteq Kept'
    BY <1>7
  <2>3. QED
    BY <1>1, <1>2, <1>4, <1>6, <2>1, <2>2, PostPast
<1>9. Variables'
  BY <1>1, <1>2, <1>6, <1>8 DEF Variables
<1>10. CallVar'
  BY <1>5, <1>6 DEF CallVar, Patch, Gets
<1>11. CallStage'
  <2>1. hv'[Nested] = NULL /\ hv'[Temp] # NULL
    BY <1>1, <1>3, <1>5 DEF CallStage, Gets
  <2>2. blocked' # NULL
    BY <1>8, NullFact
  <2>3. QED
    BY <1>6, <2>1, <2>2 DEF CallStage, Gets
<1>12. Quiet'
  <2>1. \A s \in Slot : putn'[s] = NULL => Pending(First(s))' = {} /\ Pending(Element(s))' = {}
    BY <1>1, <1>3, <1>8, SlotsQuietToo
  <2>2. Pending(Nested)' = {}
    BY <1>1, <1>3, <1>4, <1>8 DEF Quiet
  <2>3. QED
    BY <1>5, <1>6, <2>1, <2>2 DEF Quiet, Patch
<1>13. Notifies'
  <2>1. \A s \in Slot : putn'[s] # NULL => hv'[First(s)] # NULL /\ hv'[Element(s)] # NULL
    BY <1>1, <1>2, <1>5, SlotsHeld
  <2>2. QED
    BY <1>5, <1>6, <2>1 DEF Notifies, Patch
<1>14. QED
  BY <1>8, <1>9, <1>10, <1>11, <1>12, <1>13 DEF IInv, Calling

(* A fence: a blocking call of one send and one receive.                   *)
LEMMA FenceStep ==
  ASSUME IInv, Fence
  PROVE  IInv'
<1>1. /\ call.pc = "idle" /\ ops > 0 /\ ops' = ops - 1
      /\ comex_blocking(1, 1) /\ Own(Nested, Fresh(2))
      /\ call' = [Idle EXCEPT !.pc = "blocked", !.var = Nested]
      /\ UNCHANGED <<ga_ihdl, armci_ihdl, lastGA, lastARMCI, ga_nb_tag, hv, putn>>
  BY DEF Fence, Begin
<1>2. RingSound /\ TablesSound /\ Owned /\ Calling /\ Variables
  BY DEF IInv, Calling
<1>3. Quiet /\ call.then = NULL
  BY <1>1, <1>2 DEF Calling, CallVar
<1>4. /\ hv[Nested] = NULL /\ Kept = Ring
      /\ Pending(Temp) = {}
      /\ \A s \in Slot : putn[s] # NULL => hv[First(s)] # NULL /\ hv[Element(s)] # NULL
  BY <1>1, <1>2, IdleFacts
<1>5. Nested \in Var /\ Temp \in Var \ {Nested}
  BY VarFacts
<1>6. /\ call'.pc = "blocked" /\ call'.blocking = FALSE /\ call'.var = Nested
      /\ call'.then = NULL /\ call'.pieces = 0
  BY <1>1 DEF Idle
<1>7. call' \in CallRecord
  BY <1>1, <1>5 DEF Idle, CallRecord, PCs, Kind
<1>8. Kept' = Ring
  BY <1>6 DEF Kept
<1>9. /\ RingSound' /\ TablesSound' /\ Owned' /\ blocked' \in Ring
      /\ \A w \in Var \ {Nested} : Pending(w)' \subseteq Pending(w)
      /\ owner' \in [Msg -> Var \cup {NULL}]
  <2> PICK s \in Nat, r \in Nat : s = 1 /\ r = 1
    OBVIOUS
  <2>1. nb_post(s, r) /\ blocked' = Chosen /\ Own(Nested, Fresh(s + r)) /\ s + r <= MsgMax
    BY <1>1, NbAssumption, GaNbAssumption DEF comex_blocking
  <2>2. Kept \subseteq Kept'
    BY <1>4, <1>8
  <2>3. QED
    BY <1>1, <1>2, <1>5, <1>6, <2>1, <2>2, PostPast
<1>10. Variables'
  <2>1. ops' \in 0 .. MaxOps
    BY <1>1, <1>2, GaNbAssumption DEF Variables
  <2>2. QED
    BY <1>1, <1>2, <1>7, <1>9, <2>1 DEF Variables
<1>11. CallVar'
  BY <1>6 DEF CallVar, Patch, Gets
<1>12. CallStage'
  <2>1. blocked' # NULL
    BY <1>9, NullFact
  <2>2. QED
    BY <1>1, <1>4, <1>6, <2>1 DEF CallStage, Gets
<1>13. Quiet'
  <2>1. \A s \in Slot : putn'[s] = NULL => Pending(First(s))' = {} /\ Pending(Element(s))' = {}
    BY <1>1, <1>3, <1>9, SlotsQuietToo
  <2>2. Pending(Temp)' = {}
    BY <1>4, <1>5, <1>9
  <2>3. QED
    BY <1>6, <2>1, <2>2 DEF Quiet, Patch
<1>14. Notifies'
  BY <1>1, <1>4, <1>6 DEF Notifies, Patch
<1>15. QED
  BY <1>9, <1>10, <1>11, <1>12, <1>13, <1>14 DEF IInv, Calling

(* The wait at the end of a blocking ComEx call: the put of a piece goes   *)
(* on with the patch, a fence is over.                                     *)
LEMMA BlockingPutReturnsStep ==
  ASSUME IInv, BlockingPutReturns
  PROVE  IInv'
<1>1. /\ call.pc = "blocked" /\ comex_blocking_returns
      /\ call' = IF call.var = Temp THEN [call EXCEPT !.pc = "pieces"] ELSE Idle
      /\ KeepOwners
      /\ UNCHANGED <<ga_ihdl, armci_ihdl, lastGA, lastARMCI, ga_nb_tag, hv, putn, ops>>
  BY DEF BlockingPutReturns
<1>2. RingSound /\ TablesSound /\ Owned /\ Calling /\ Variables
  BY DEF IInv, Calling
<1>3. CallVar /\ CallStage /\ Quiet /\ Notifies
  BY <1>2 DEF Calling
<1>4. call \in CallRecord /\ Temp \in Var /\ Nested \in Var /\ Temp # Nested
  BY <1>2, VarFacts DEF Variables
<1>5. /\ blocked \in Ring /\ blocked' = NULL /\ nb_index' = nb_index
      /\ nb_wait_for_all({blocked})
  BY <1>1, <1>2 DEF comex_blocking_returns, Variables
<1>6. RingSound' /\ posted' = {m \in posted : m[1] \notin {blocked}}
  BY <1>2, <1>5, WaitRing
<1>7. call.then = NULL /\ call.var = (IF call.blocking THEN Temp ELSE Nested) /\ call.pieces = 0
      /\ hv[Nested] = NULL /\ (call.blocking => hv[Temp] # NULL)
  BY <1>1, <1>3 DEF CallVar, CallStage, Gets
<1>8. /\ call' \in CallRecord /\ call'.then = NULL /\ call'.pc \in {"pieces", "idle"}
      /\ call.blocking => /\ call'.pc = "pieces" /\ call'.blocking /\ call'.var = Temp
                          /\ call'.pieces = 0
      /\ ~ call.blocking => call'.pc = "idle" /\ ~ call'.blocking
  <2>1. CASE call.blocking
    <3>1. call' = [call EXCEPT !.pc = "pieces"]
      BY <1>1, <1>7, <2>1
    <3>2. QED
      BY <1>4, <1>7, <2>1, <3>1 DEF CallRecord, PCs
  <2>2. CASE ~ call.blocking
    <3>1. call' = Idle
      BY <1>1, <1>4, <1>7, <2>2
    <3>2. QED
      BY <1>4, <2>2, <3>1 DEF Idle, CallRecord, PCs, Kind
  <2>3. QED
    BY <2>1, <2>2
<1>9. Kept = Ring /\ Kept' = Ring
  BY <1>1, <1>8 DEF Kept
<1>10. TablesSound' /\ Keeps
  BY <1>1, <1>2, <1>6, <1>9, SameTables
<1>11. \A w \in Var : Pending(w)' \subseteq Pending(w)
  BY <1>1, <1>2, <1>6, PendingFewer
<1>12. ASSUME NEW v \in Var, NEW m \in Pending(v)' PROVE Listed(m, v) /\ Listed(m, v)'
  <2>1. m \in Pending(v) /\ m \in posted' /\ m[1] # blocked
    BY <1>6, <1>11, <1>12 DEF Pending
  <2>2. Listed(m, v)
    BY <1>1, <1>2, <2>1 DEF Owned
  <2>3. QED
    BY <1>1, <1>2, <1>10, <2>1, <2>2, StillListed
<1>13. Owned'
  BY <1>12 DEF Owned
<1>14. Variables'
  <2>1. owner' \in [Msg -> Var \cup {NULL}]
    BY <1>1, <1>2, KeptOwnerTyped
  <2>2. QED
    BY <1>1, <1>2, <1>5, <1>8, <2>1 DEF Variables
<1>15. CallVar'
  BY <1>8 DEF CallVar, Patch, Gets
<1>16. CallStage'
  BY <1>1, <1>5, <1>7, <1>8 DEF CallStage, Gets
<1>17. Quiet'
  <2>1. \A s \in Slot : putn'[s] = NULL => Pending(First(s))' = {} /\ Pending(Element(s))' = {}
    BY <1>1, <1>3, <1>11, SlotsQuiet
  <2>2. Pending(Nested)' = {}
    BY <1>4, <1>7, <1>12 DEF Listed, Current
  <2>3. ~ call.blocking => Pending(Temp)' = {}
    BY <1>1, <1>3, <1>4, <1>11 DEF Quiet
  <2>4. QED
    BY <1>8, <2>1, <2>2, <2>3 DEF Quiet, Patch
<1>18. Notifies'
  <2>1. \A s \in Slot : putn'[s] # NULL => hv'[First(s)] # NULL /\ hv'[Element(s)] # NULL
    BY <1>1, <1>2, <1>7, SlotsHeld
  <2>2. call'.pc \in Patch => \A s \in Slot : call'.var # Element(s)
    BY <1>8, VarFacts DEF Patch
  <2>3. QED
    BY <1>8, <2>1, <2>2 DEF Notifies, Patch
<1>19. QED
  BY <1>6, <1>10, <1>13, <1>14, <1>15, <1>16, <1>17, <1>18 DEF IInv, Calling

(* A step of an idle process, or of an update of ghost cells, that touches *)
(* no handle of Global Arrays.                                             *)
LEMMA GhostsCalling ==
  ASSUME Calling, call.pc \in {"idle", "ghosts"}, call'.pc \in {"idle", "ghosts"},
         call' \in CallRecord, call'.then = NULL, ~ call'.blocking,
         UNCHANGED <<hv, putn, blocked>>, ops' \in 0 .. MaxOps, owner' \in [Msg -> Var \cup {NULL}],
         call'.pc = "idle" => Pending(Temp)' = {},
         \A w \in Var \ {Temp} : Pending(w)' \subseteq Pending(w)
  PROVE  Calling'
<1>1. Variables /\ CallVar /\ CallStage /\ Quiet /\ Notifies
  BY DEF Calling
<1>2. Variables'
  BY <1>1 DEF Variables
<1>3. CallVar'
  BY DEF CallVar, Patch, Gets
<1>4. CallStage'
  BY <1>1 DEF CallStage, Gets
<1>5. call.then = NULL
  BY <1>1 DEF CallVar
<1>6. Quiet'
  <2>1. \A s \in Slot : putn'[s] = NULL => Pending(First(s))' = {} /\ Pending(Element(s))' = {}
    BY <1>1, SlotsQuietToo
  <2>2. Pending(Nested)' = {}
    BY <1>1, VarFacts DEF Quiet
  <2>3. QED
    BY <2>1, <2>2 DEF Quiet, Patch
<1>7. Notifies'
  <2>1. \A s \in Slot : putn'[s] # NULL => hv'[First(s)] # NULL /\ hv'[Element(s)] # NULL
    BY <1>5, SlotsHeld
  <2>2. QED
    BY <2>1 DEF Notifies, Patch
<1>8. QED
  BY <1>2, <1>3, <1>4, <1>6, <1>7 DEF Calling

(* An update of ghost cells begins.                                        *)
LEMMA UpdateGhostsStep ==
  ASSUME IInv, UpdateGhosts
  PROVE  IInv'
<1>1. /\ call.pc = "idle" /\ ops > 0 /\ ops' = ops - 1
      /\ UNCHANGED <<nbvars, ga_ihdl, armci_ihdl, lastGA, lastARMCI, ga_nb_tag, hv, putn, owner>>
  BY DEF UpdateGhosts, Begin
<1> PICK kind \in Kind : call' = [Idle EXCEPT !.pc = "ghosts", !.kind = kind, !.pieces = NbMax + 1]
  BY Zenon DEF UpdateGhosts
<1>2. RingSound /\ TablesSound /\ Owned /\ Calling /\ Variables
  BY DEF IInv, Calling
<1>3. RingSound' /\ posted' = posted /\ blocked' = blocked
  BY <1>1, <1>2, SameRing
<1>4. call'.pc = "ghosts" /\ call'.then = NULL /\ ~ call'.blocking
  BY DEF Idle
<1>5. call' \in CallRecord
  <2>1. Temp \in Var /\ NbMax + 1 \in Nat
    BY VarFacts, NbAssumption
  <2>2. QED
    BY <2>1 DEF Idle, CallRecord, PCs
<1>6. Kept = Ring /\ Kept' = Ring
  BY <1>1, <1>4 DEF Kept
<1>7. TablesSound' /\ Keeps
  BY <1>1, <1>2, <1>3, <1>6, SameTables
<1>8. \A w \in Var : Pending(w)' = Pending(w)
  BY <1>1, <1>3 DEF Pending
<1>9. Owned'
  <2>1. ASSUME NEW v \in Var, NEW m \in Pending(v)' PROVE Listed(m, v)'
    <3>1. m \in Pending(v) /\ m \in posted'
      BY <1>8, <2>1 DEF Pending
    <3>2. Listed(m, v)
      BY <1>1, <1>2, <3>1 DEF Owned
    <3>3. QED
      BY <1>1, <1>2, <1>7, <3>1, <3>2, StillListed
  <2>2. QED
    BY <2>1 DEF Owned
<1>10. Calling'
  <2>1. ops' \in 0 .. MaxOps /\ owner' \in [Msg -> Var \cup {NULL}]
    BY <1>1, <1>2, GaNbAssumption DEF Variables
  <2>2. \A w \in Var \ {Temp} : Pending(w)' \subseteq Pending(w)
    BY <1>8
  <2>3. QED
    BY <1>1, <1>2, <1>3, <1>4, <1>5, <2>1, <2>2, GhostsCalling
<1>11. QED
  BY <1>3, <1>7, <1>9, <1>10 DEF IInv

(* A piece of the ghost cells, with an implicit handle.                    *)
LEMMA GhostPieceStep ==
  ASSUME IInv, GhostPiece
  PROVE  IInv'
<1>1. /\ call.pc = "ghosts" /\ call.pieces > 0 /\ OneLess("ghosts")
      /\ UNCHANGED <<ga_ihdl, armci_ihdl, lastGA, lastARMCI, ga_nb_tag, hv, putn, ops>>
  BY DEF GhostPiece
<1> PICK shape \in Shape : comex_nb(shape[1], shape[2]) /\ Own(Temp, Fresh(shape[1] + shape[2]))
  BY DEF GhostPiece
<1>2. RingSound /\ TablesSound /\ Owned /\ Calling /\ Variables
  BY DEF IInv, Calling
<1>3. call \in CallRecord /\ Temp \in Var /\ call.then = NULL /\ ~ call.blocking
  BY <1>1, <1>2, VarFacts DEF Variables, Calling, CallVar
<1>4. /\ call' \in CallRecord /\ call'.pc = "ghosts" /\ call'.then = NULL /\ ~ call'.blocking
  <2>1. "ghosts" \in PCs
    BY DEF PCs
  <2>2. PiecesLeft
    BY <1>1, <1>3, CallFields DEF PiecesLeft
  <2>3. QED
    BY <1>1, <1>3, <2>1, <2>2, OneLessFacts
<1>5. Kept = Ring /\ Kept' = Ring
  BY <1>1, <1>4 DEF Kept
<1>6. blocked' = blocked
  BY DEF comex_nb
<1>7. /\ RingSound' /\ TablesSound' /\ Owned'
      /\ \A w \in Var \ {Temp} : Pending(w)' \subseteq Pending(w)
      /\ owner' \in [Msg -> Var \cup {NULL}]
  <2> PICK s \in Nat, r \in Nat : s = shape[1] /\ r = shape[2] /\ s + r <= MsgMax
    BY <1>2, ShapeFacts
  <2>1. nb_post(s, r) /\ Own(Temp, Fresh(s + r))
    BY DEF comex_nb
  <2>2. Kept \subseteq Kept'
    BY <1>5
  <2>3. QED
    BY <1>1, <1>2, <1>3, <1>4, <2>1, <2>2, PostPast
<1>8. Calling'
  <2>1. ops' \in 0 .. MaxOps
    BY <1>1, <1>2 DEF Variables
  <2>2. QED
    BY <1>1, <1>2, <1>4, <1>6, <1>7, <2>1, GhostsCalling
<1>9. QED
  BY <1>7, <1>8 DEF IInv

(* ARMCI_WaitAll at its end: nothing is under way in the whole process.    *)
LEMMA GhostsReturnStep ==
  ASSUME IInv, GhostsReturn
  PROVE  IInv'
<1>1. /\ call.pc = "ghosts" /\ comex_wait_all /\ call' = Idle /\ KeepOwners
      /\ UNCHANGED <<ga_ihdl, armci_ihdl, lastGA, lastARMCI, ga_nb_tag, hv, putn, ops>>
  BY DEF GhostsReturn
<1>2. RingSound /\ TablesSound /\ Owned /\ Calling /\ Variables
  BY DEF IInv, Calling
<1>3. /\ nb_wait_for_all(Ring) /\ nb_index' = nb_index /\ blocked' = blocked
  BY <1>1 DEF comex_wait_all
<1>4. RingSound' /\ posted' = {}
  <2>1. Ring \in SUBSET Ring
    OBVIOUS
  <2>2. RingSound' /\ posted' = {m \in posted : m[1] \notin Ring}
    BY <1>2, <1>3, <2>1, WaitRing
  <2>3. \A m \in posted : m[1] \in Ring
    BY <1>2 DEF RingSound, Msg
  <2>4. QED
    BY <2>2, <2>3
<1>5. call'.pc = "idle" /\ call'.then = NULL /\ ~ call'.blocking /\ call' \in CallRecord
  BY <1>1, VarFacts DEF Idle, CallRecord, PCs, Kind
<1>6. Kept' = Ring
  BY <1>5 DEF Kept
<1>7. TablesSound'
  BY <1>1, <1>2, SameTables
<1>8. \A w \in Var : Pending(w)' = {}
  BY <1>4 DEF Pending
<1>9. Owned'
  BY <1>8 DEF Owned
<1>10. Calling'
  <2>1. owner' \in [Msg -> Var \cup {NULL}] /\ ops' \in 0 .. MaxOps
    BY <1>1, <1>2, KeptOwnerTyped DEF Variables
  <2>2. Pending(Temp)' = {} /\ \A w \in Var \ {Temp} : Pending(w)' \subseteq Pending(w)
    BY <1>8, VarFacts
  <2>3. QED
    BY <1>1, <1>2, <1>3, <1>5, <2>1, <2>2, GhostsCalling
<1>11. QED
  BY <1>4, <1>7, <1>9, <1>10 DEF IInv

-----------------------------------------------------------------------------
(* The end of a call, the waits and the tests.                             *)

(* A blocking call waits for its handle; pnga_nbput_notify goes on with    *)
(* the put of the element.                                                 *)
LEMMA ReturnStep ==
  ASSUME IInv, Return
  PROVE  IInv'
<1>1. /\ call.pc = "pieces"
      /\ IF call.blocking THEN nga_wait_internal(Temp) ELSE UNCHANGED <<nbvars, armci_ihdl, ga_ihdl>>
      /\ call' = IF call.then = NULL THEN Idle
                 ELSE [Idle EXCEPT !.pc = "init", !.pieces = 1, !.var = <<"elementhdl", call.then>>]
      /\ hv' = [hv EXCEPT ![Temp] = NULL]
      /\ KeepOwners /\ UNCHANGED <<lastGA, lastARMCI, ga_nb_tag, putn, ops>>
  BY DEF Return
<1>2. RingSound /\ TablesSound /\ Owned /\ Calling /\ Variables
  BY DEF IInv, Calling
<1>3. CallVar /\ CallStage /\ Quiet /\ Notifies
  BY <1>2 DEF Calling
<1>4. /\ call.then \in Slot \cup {NULL} /\ call \in CallRecord
      /\ Temp \in Var /\ Nested \in Var \ {Temp}
  BY <1>2, CallFields, VarFacts DEF Variables
<1> PICK th \in Slot \cup {NULL} : th = call.then
  BY <1>4
<1>5. /\ call'.then = NULL /\ ~ call'.blocking /\ call' \in CallRecord
      /\ th = NULL => call'.pc = "idle"
      /\ th # NULL => call'.pc = "init" /\ call'.var = Element(th)
  <2>1. CASE th = NULL
    <3>1. call' = Idle
      BY <1>1, <2>1
    <3>2. QED
      BY <1>4, <2>1, <3>1 DEF Idle, CallRecord, PCs, Kind
  <2>2. CASE th # NULL
    <3>1. call' = [Idle EXCEPT !.pc = "init", !.pieces = 1, !.var = Element(th)] /\ Element(th) \in Var
      BY <1>1, <2>2, VarFacts DEF Element
    <3>2. QED
      BY <2>2, <3>1 DEF Idle, CallRecord, PCs, Kind
  <2>3. QED
    BY <2>1, <2>2
<1>6. Kept = Ring /\ Kept' = Ring
  BY <1>1, <1>5 DEF Kept
<1>7. /\ RingSound' /\ TablesSound' /\ Keeps /\ blocked' = blocked
      /\ Pending(Temp)' = {}
  <2>1. CASE call.blocking
    <3>1. hv[Temp].index \in Ring
      <4>1. hv[Temp] # NULL
        BY <1>1, <1>3, <2>1 DEF CallStage
      <4>2. QED
        BY <1>2, <1>4, <4>1 DEF Variables, HandleValue
    <3>2. /\ RingSound' /\ TablesSound' /\ Keeps /\ blocked' = blocked
          /\ Current(Temp) => \A m \in posted' : \A b \in Chain(hv[Temp].index) : m[1] # armci_ihdl[b].handle
      BY <1>1, <1>2, <1>6, <2>1, <3>1, WaitCall
    <3>3. Pending(Temp)' = {}
      BY <1>1, <1>2, <1>4, <1>6, <3>2, Waited
    <3>4. QED
      BY <3>2, <3>3
  <2>2. CASE ~ call.blocking
    <3>1. RingSound' /\ posted' = posted /\ blocked' = blocked
      BY <1>1, <1>2, <2>2, SameRing
    <3>2. TablesSound' /\ Keeps
      BY <1>1, <1>2, <1>6, <2>2, <3>1, SameTables
    <3>3. Pending(Temp) = {}
      BY <1>1, <1>3, <2>2 DEF Quiet
    <3>4. Pending(Temp)' = {}
      BY <1>1, <1>2, <1>4, <3>1, <3>3, PendingFewer
    <3>5. QED
      BY <3>1, <3>2, <3>4
  <2>3. QED
    BY <2>1, <2>2
<1>8. \A w \in Var : Pending(w)' \subseteq Pending(w)
  BY <1>1, <1>2, <1>7, PendingFewer DEF Keeps
<1>9. /\ hv' \in [Var -> HandleValue \cup {NULL}]
      /\ \A w \in Var \ {Temp} : hv'[w] = hv[w]
  BY <1>1, <1>2 DEF Variables
<1>10. Owned'
  <2>1. \A w \in Var : hv'[w] = hv[w] \/ Pending(w)' = {}
    BY <1>7, <1>9
  <2>2. QED
    BY <1>1, <1>2, <1>7, <2>1, OwnedKept
<1>11. Variables'
  <2>1. owner' \in [Msg -> Var \cup {NULL}]
    BY <1>1, <1>2, KeptOwnerTyped
  <2>2. QED
    BY <1>1, <1>2, <1>5, <1>7, <1>9, <2>1 DEF Variables
<1>12. CallVar'
  BY <1>5 DEF CallVar, Patch, Gets
<1>13. CallStage'
  <2>1. blocked = NULL /\ hv[Nested] = NULL
    BY <1>1, <1>3 DEF CallStage, Gets
  <2>2. hv'[Nested] = NULL
    BY <1>4, <1>9, <2>1
  <2>3. QED
    BY <1>5, <1>7, <2>1, <2>2 DEF CallStage, Gets
<1>14. Quiet'
  <2>1. \A s \in Slot : putn'[s] = NULL => Pending(First(s))' = {} /\ Pending(Element(s))' = {}
    BY <1>1, <1>3, <1>8, SlotsQuiet
  <2>2. Pending(Nested)' = {}
    BY <1>1, <1>3, <1>4, <1>8 DEF Quiet
  <2>3. th # NULL => Pending(Element(th))' = {}
    BY <1>1, <1>3, <1>8, VarFacts DEF Quiet, Patch
  <2>4. th # NULL => Pending(call.var)' = {}
    BY <1>5, <2>3
  <2>5. QED
    BY <1>5, <1>7, <2>1, <2>2, <2>4 DEF Quiet, Patch
<1>15. Notifies'
  <2>1. ASSUME NEW s \in Slot, putn'[s] # NULL
        PROVE  hv'[First(s)] # NULL /\ (hv'[Element(s)] # NULL \/ th = s)
    <3>1. First(s) \in Var \ {Temp} /\ Element(s) \in Var \ {Temp}
      BY VarFacts
    <3>2. hv[First(s)] # NULL /\ (hv[Element(s)] # NULL \/ th = s)
      BY <1>1, <1>3, <2>1 DEF Notifies
    <3>3. QED
      BY <1>9, <3>1, <3>2
  <2>2. ASSUME NEW s \in Slot, th # NULL, Element(th) = Element(s) PROVE putn'[s] # NULL
    <3>1. th = s
      BY <2>2, VarFacts
    <3>2. QED
      BY <1>1, <1>3, <2>2, <3>1 DEF Notifies
  <2>3. \A s \in Slot : s # NULL
    BY VarFacts
  <2>4. QED
    BY <1>5, <2>1, <2>2, <2>3 DEF Notifies, Patch
<1>16. QED
  BY <1>7, <1>10, <1>11, <1>12, <1>13, <1>14, <1>15 DEF IInv, Calling

(* pnga_nbwait: what it is for, and that it disturbs no other operation.   *)
LEMMA NbWaitStep ==
  ASSUME IInv, NEW u \in User, pnga_nbwait(u)
  PROVE  IInv' /\ Pending(UserOf(u))' = {}
<1>1. /\ call.pc = "idle" /\ hv[UserOf(u)] # NULL /\ nga_wait_internal(UserOf(u)) /\ KeepOwners
      /\ UNCHANGED <<lastGA, lastARMCI, ga_nb_tag, hv, putn, call, ops>>
  BY DEF pnga_nbwait, UserOf
<1>2. RingSound /\ TablesSound /\ Owned /\ Calling /\ Variables
  BY DEF IInv, Calling
<1> PICK v \in Var : v = UserOf(u)
  BY VarFacts
<1>3. hv[v].index \in Ring
  BY <1>1, <1>2 DEF Variables, HandleValue
<1>4. Kept = Ring /\ Kept' = Ring
  BY <1>1 DEF Kept
<1>5. /\ RingSound' /\ TablesSound' /\ Keeps /\ blocked' = blocked
      /\ Current(v) => \A m \in posted' : \A b \in Chain(hv[v].index) : m[1] # armci_ihdl[b].handle
  BY <1>1, <1>2, <1>3, <1>4, WaitCall
<1>6. Pending(v)' = {}
  BY <1>1, <1>2, <1>4, <1>5, Waited
<1>7. Owned'
  BY <1>1, <1>2, <1>5, OwnedKept
<1>8. \A w \in Var : Pending(w)' \subseteq Pending(w)
  BY <1>1, <1>2, <1>5, PendingFewer DEF Keeps
<1>9. Calling'
  <2>1. owner' \in [Msg -> Var \cup {NULL}] /\ ops' \in 0 .. MaxOps /\ call' \in CallRecord
    BY <1>1, <1>2, KeptOwnerTyped DEF Variables
  <2>2. Pending(Temp)' = {}
    BY <1>1, <1>2, <1>8, IdleFacts, VarFacts
  <2>3. call.then = NULL /\ ~ call.blocking
    BY <1>1, <1>2 DEF Calling, CallVar
  <2>4. QED
    BY <1>1, <1>2, <1>5, <1>8, <2>1, <2>2, <2>3, GhostsCalling
<1>10. Pending(UserOf(u))' = {}
  <2>1. Pending(UserOf(u))' = Pending(v)'
    BY DEF Pending
  <2>2. QED
    BY <1>6, <2>1
<1>11. QED
  BY <1>5, <1>7, <1>9, <1>10 DEF IInv

(* pnga_nbwait_notify, up to the end of the first wait.                    *)
LEMMA WaitNotifyStep ==
  ASSUME IInv, NEW u \in User, pnga_nbwait_notify(u)
  PROVE  IInv'
<1>1. call.pc = "idle" /\ KeepOwners /\ UNCHANGED <<lastGA, lastARMCI, ga_nb_tag, hv, putn, ops>>
  BY DEF pnga_nbwait_notify
<1> PICK s \in Slot : putn[s] = u /\ nga_wait_internal(First(s)) /\ call' = [Idle EXCEPT !.pc = "notify", !.then = s]
  BY Zenon DEF pnga_nbwait_notify, First
<1>2. RingSound /\ TablesSound /\ Owned /\ Calling /\ Variables
  BY DEF IInv, Calling
<1>3. CallVar /\ CallStage /\ Quiet /\ Notifies
  BY <1>2 DEF Calling
<1>4. /\ blocked = NULL /\ hv[Nested] = NULL /\ Kept = Ring
      /\ Pending(Temp) = {} /\ Pending(Nested) = {}
      /\ \A r \in Slot : putn[r] # NULL => hv[First(r)] # NULL /\ hv[Element(r)] # NULL
  BY <1>1, <1>2, IdleFacts
<1> PICK v \in Var : v = First(s)
  BY VarFacts
<1>5. putn[s] # NULL /\ s # NULL /\ hv[v].index \in Ring
  <2>1. putn[s] # NULL /\ s # NULL
    BY VarFacts
  <2>2. hv[v] # NULL
    BY <1>4, <2>1
  <2>3. QED
    BY <1>2, <2>1, <2>2 DEF Variables, HandleValue
<1>6. call'.pc = "notify" /\ call'.then = s /\ ~ call'.blocking /\ call' \in CallRecord
  BY VarFacts DEF Idle, CallRecord, PCs, Kind
<1>7. Kept' = Ring
  BY <1>6 DEF Kept
<1>8. /\ RingSound' /\ TablesSound' /\ Keeps /\ blocked' = blocked
      /\ Current(v) => \A m \in posted' : \A b \in Chain(hv[v].index) : m[1] # armci_ihdl[b].handle
  BY <1>1, <1>2, <1>5, <1>7, WaitCall
<1>9. Pending(v)' = {}
  BY <1>1, <1>2, <1>4, <1>8, Waited
<1>10. Owned'
  BY <1>1, <1>2, <1>8, OwnedKept
<1>11. \A w \in Var : Pending(w)' \subseteq Pending(w)
  BY <1>1, <1>2, <1>8, PendingFewer DEF Keeps
<1>12. Variables'
  <2>1. owner' \in [Msg -> Var \cup {NULL}]
    BY <1>1, <1>2, KeptOwnerTyped
  <2>2. QED
    BY <1>1, <1>2, <1>6, <1>8, <2>1 DEF Variables
<1>13. CallVar'
  BY <1>5, <1>6 DEF CallVar, Patch, Gets
<1>14. CallStage'
  BY <1>1, <1>4, <1>6, <1>8 DEF CallStage, Gets
<1>15. Quiet'
  <2>1. \A r \in Slot : putn'[r] = NULL => Pending(First(r))' = {} /\ Pending(Element(r))' = {}
    BY <1>1, <1>3, <1>11, SlotsQuiet
  <2>2. Pending(Temp)' = {} /\ Pending(Nested)' = {}
    BY <1>4, <1>11, VarFacts
  <2>3. Pending(First(call.then))' = Pending(v)'
    BY <1>6 DEF Pending
  <2>4. QED
    BY <1>6, <1>9, <2>1, <2>2, <2>3 DEF Quiet, Patch
<1>16. Notifies'
  BY <1>1, <1>4, <1>5, <1>6 DEF Notifies, Patch
<1>17. QED
  BY <1>8, <1>10, <1>12, <1>13, <1>14, <1>15, <1>16 DEF IInv, Calling

(* The second wait; the slot is free.                                      *)
LEMMA NotifyReturnsStep ==
  ASSUME IInv, NotifyWaitReturns
  PROVE  IInv'
<1>1. /\ call.pc = "notify" /\ nga_wait_internal(Element(call.then))
      /\ putn' = [putn EXCEPT ![call.then] = NULL]
      /\ hv' = [hv EXCEPT ![First(call.then)] = NULL, ![Element(call.then)] = NULL]
      /\ call' = Idle
      /\ KeepOwners /\ UNCHANGED <<lastGA, lastARMCI, ga_nb_tag, ops>>
  BY DEF NotifyWaitReturns, First, Element
<1>2. RingSound /\ TablesSound /\ Owned /\ Calling /\ Variables
  BY DEF IInv, Calling
<1>3. CallVar /\ CallStage /\ Quiet /\ Notifies
  BY <1>2 DEF Calling
<1>4. call.then \in Slot /\ ~ call.blocking
  BY <1>1, <1>2, <1>3, CallFields DEF Variables, CallVar
<1> PICK s \in Slot : s = call.then
  BY <1>4
<1> PICK v \in Var : v = Element(s)
  BY VarFacts
<1> PICK f \in Var : f = First(s)
  BY VarFacts
<1>5. putn[s] # NULL /\ hv[v] # NULL /\ hv[v].index \in Ring
  <2>1. s # NULL
    BY VarFacts
  <2>2. putn[s] # NULL
    BY <1>3, <2>1 DEF Notifies
  <2>3. hv[v] # NULL
    BY <1>1, <1>3, <2>2 DEF Notifies, Patch
  <2>4. QED
    BY <1>2, <2>2, <2>3 DEF Variables, HandleValue
<1>6. call'.pc = "idle" /\ call'.then = NULL /\ ~ call'.blocking /\ call' \in CallRecord
  BY <1>1, VarFacts DEF Idle, CallRecord, PCs, Kind
<1>7. Kept = Ring /\ Kept' = Ring
  BY <1>1, <1>6 DEF Kept
<1>8. /\ RingSound' /\ TablesSound' /\ Keeps /\ blocked' = blocked
      /\ Current(v) => \A m \in posted' : \A b \in Chain(hv[v].index) : m[1] # armci_ihdl[b].handle
  <2>1. nga_wait_internal(v)
    BY <1>1
  <2>2. QED
    BY <1>1, <1>2, <1>5, <1>7, <2>1, WaitCall
<1>9. Pending(v)' = {}
  BY <1>1, <1>2, <1>7, <1>8, Waited
<1>10. \A w \in Var : Pending(w)' \subseteq Pending(w)
  BY <1>1, <1>2, <1>8, PendingFewer DEF Keeps
<1>11. Pending(f)' = {}
  <2>1. Pending(First(call.then)) = {}
    BY <1>1, <1>3 DEF Quiet
  <2>2. Pending(f) = {}
    BY <2>1 DEF Pending
  <2>3. QED
    BY <1>10, <2>2
<1>12. /\ hv' \in [Var -> HandleValue \cup {NULL}] /\ putn' \in [Slot -> User \cup {NULL}]
       /\ \A w \in Var \ {f, v} : hv'[w] = hv[w]
       /\ putn'[s] = NULL /\ \A r \in Slot \ {s} : putn'[r] = putn[r]
  <2>1. hv' = [hv EXCEPT ![f] = NULL, ![v] = NULL] /\ putn' = [putn EXCEPT ![s] = NULL]
    BY <1>1
  <2>2. QED
    BY <1>2, <2>1 DEF Variables
<1>13. Owned'
  <2>1. \A w \in Var : hv'[w] = hv[w] \/ Pending(w)' = {}
    BY <1>9, <1>11, <1>12
  <2>2. QED
    BY <1>1, <1>2, <1>8, <2>1, OwnedKept
<1>14. Variables'
  <2>1. owner' \in [Msg -> Var \cup {NULL}]
    BY <1>1, <1>2, KeptOwnerTyped
  <2>2. QED
    BY <1>1, <1>2, <1>6, <1>8, <1>12, <2>1 DEF Variables
<1>15. CallVar'
  BY <1>6 DEF CallVar, Patch, Gets
<1>16. CallStage'
  <2>1. hv'[Nested] = NULL
    <3>1. hv[Nested] = NULL
      BY <1>1, <1>3 DEF CallStage, Gets
    <3>2. Nested \in Var \ {f, v}
      BY VarFacts
    <3>3. QED
      BY <1>12, <3>1, <3>2
  <2>2. QED
    BY <1>1, <1>3, <1>6, <1>8, <2>1 DEF CallStage, Gets
<1>17. Quiet'
  <2>1. ASSUME NEW r \in Slot, putn'[r] = NULL
        PROVE  Pending(First(r))' = {} /\ Pending(Element(r))' = {}
    <3>1. CASE r = s
      <4>1. Pending(First(r))' = Pending(f)' /\ Pending(Element(r))' = Pending(v)'
        BY <3>1 DEF Pending
      <4>2. QED
        BY <1>9, <1>11, <4>1
    <3>2. CASE r # s
      BY <1>3, <1>10, <1>12, <2>1, <3>2, VarFacts DEF Quiet
    <3>3. QED
      BY <3>1, <3>2
  <2>2. Pending(Temp)' = {} /\ Pending(Nested)' = {}
    BY <1>1, <1>3, <1>4, <1>10, VarFacts DEF Quiet
  <2>3. QED
    BY <1>6, <2>1, <2>2 DEF Quiet, Patch
<1>18. Notifies'
  <2>1. ASSUME NEW r \in Slot, putn'[r] # NULL PROVE hv'[First(r)] # NULL /\ hv'[Element(r)] # NULL
    <3>1. r # s /\ putn[r] # NULL
      BY <1>12, <2>1
    <3>2. First(r) \in Var \ {f, v} /\ Element(r) \in Var \ {f, v}
      BY <3>1, VarFacts
    <3>3. hv[First(r)] # NULL /\ hv[Element(r)] # NULL
      BY <1>1, <1>3, <3>1 DEF Notifies, Patch
    <3>4. QED
      BY <1>12, <3>2, <3>3
  <2>2. QED
    BY <1>6, <2>1 DEF Notifies, Patch
<1>19. QED
  BY <1>8, <1>13, <1>14, <1>15, <1>16, <1>17, <1>18 DEF IInv, Calling

(* pnga_nbtest: a walk that begins at the first entry.                     *)
LEMMA NbTestStep ==
  ASSUME IInv, NEW u \in User, pnga_nbtest(u)
  PROVE  IInv'
<1>1. /\ call.pc = "idle" /\ Current(UserOf(u))
      /\ call' = [Idle EXCEPT !.pc = "test", !.var = UserOf(u),
                              !.cur = ga_ihdl[hv[UserOf(u)].index].ahandle]
      /\ UNCHANGED <<nbvars, ga_ihdl, armci_ihdl, lastGA, lastARMCI, ga_nb_tag, hv, putn, owner, ops>>
  BY DEF pnga_nbtest, UserOf, Current
<1>2. RingSound /\ TablesSound /\ Owned /\ Calling /\ Variables
  BY DEF IInv, Calling
<1>3. CallVar /\ CallStage /\ Quiet /\ Notifies
  BY <1>2 DEF Calling
<1>4. /\ blocked = NULL /\ hv[Nested] = NULL /\ Kept = Ring
      /\ Pending(Temp) = {} /\ Pending(Nested) = {}
      /\ \A r \in Slot : putn[r] # NULL => hv[First(r)] # NULL /\ hv[Element(r)] # NULL
  BY <1>1, <1>2, IdleFacts
<1> PICK v \in UserVar : v = UserOf(u)
  BY VarFacts
<1>5. v \in Var /\ Current(v)
  BY <1>1, VarFacts
<1> PICK i \in Ring : i = hv[v].index
  BY <1>2, <1>5 DEF Current, Variables, HandleValue
<1>6. ga_ihdl[i].ahandle \in Chain(i) \cup {NULL} /\ ga_ihdl[i].ahandle \in Ring \cup {NULL}
  <2>1. ga_ihdl \in GaTable /\ armci_ihdl \in ArmciTable
    BY <1>2 DEF TablesSound, Lists
  <2>2. QED
    BY <2>1, ChainFacts, ChainIs, TableFacts
<1>7. /\ call'.pc = "test" /\ call'.var = v /\ call'.cur = ga_ihdl[i].ahandle
      /\ call'.then = NULL /\ ~ call'.blocking
  BY <1>1 DEF Idle
<1>8. call' \in CallRecord
  BY <1>1, <1>5, <1>6 DEF Idle, CallRecord, PCs, Kind
<1>9. Kept' = Ring
  BY <1>7 DEF Kept
<1>10. RingSound' /\ posted' = posted /\ blocked' = blocked
  BY <1>1, <1>2, SameRing
<1>11. /\ TablesSound' /\ SameTags /\ Keeps
       /\ \A j \in Ring : Chain(j)' = Chain(j)
  BY <1>1, <1>2, <1>9, <1>10, SameTables
<1>12. \A w \in Var : Pending(w)' = Pending(w)
  BY <1>1, <1>10 DEF Pending
<1>13. Owned'
  <2>1. ASSUME NEW w \in Var, NEW m \in Pending(w)' PROVE Listed(m, w)'
    <3>1. m \in Pending(w) /\ m \in posted'
      BY <1>12, <2>1 DEF Pending
    <3>2. Listed(m, w)
      BY <1>1, <1>2, <3>1 DEF Owned
    <3>3. QED
      BY <1>1, <1>2, <1>11, <3>1, <3>2, StillListed
  <2>2. QED
    BY <2>1 DEF Owned
<1>14. Variables'
  BY <1>1, <1>2, <1>8, <1>10 DEF Variables
<1>15. CallVar'
  BY <1>7 DEF CallVar, Patch, Gets
<1>16. CallStage'
  <2>1. Current(v)'
    BY <1>1, <1>2, <1>5, <1>11, StillCurrent
  <2>2. Current(call.var)'
    BY <1>7, <2>1
  <2>3. call'.cur \in Chain(hv[call.var].index)' \cup {NULL}
    <3>1. hv'[call'.var].index = i
      BY <1>1, <1>7
    <3>2. QED
      BY <1>6, <1>7, <1>11, <3>1
  <2>4. QED
    BY <1>1, <1>4, <1>7, <1>10, <2>2, <2>3 DEF CallStage, Gets
<1>17. Quiet'
  <2>1. \A r \in Slot : putn'[r] = NULL => Pending(First(r))' = {} /\ Pending(Element(r))' = {}
    BY <1>1, <1>3, <1>12, SlotsQuiet
  <2>2. Pending(Temp)' = {} /\ Pending(Nested)' = {}
    BY <1>4, <1>12, VarFacts
  <2>3. QED
    BY <1>7, <2>1, <2>2 DEF Quiet, Patch
<1>18. Notifies'
  BY <1>1, <1>4, <1>7 DEF Notifies, Patch
<1>19. QED
  BY <1>10, <1>11, <1>13, <1>14, <1>15, <1>16, <1>17, <1>18 DEF IInv, Calling

(* What holds while a test walks the list of its variable.                 *)
LEMMA TestFacts ==
  ASSUME Calling, call.pc = "test"
  PROVE  /\ call.var \in Var /\ Current(call.var) /\ hv[call.var].index \in Ring
         /\ call.cur \in Chain(hv[call.var].index) \cup {NULL}
         /\ call.then = NULL /\ ~ call.blocking /\ call.var \in UserVar
         /\ blocked = NULL /\ hv[Nested] = NULL
         /\ Pending(Temp) = {} /\ Pending(Nested) = {}
         /\ \A s \in Slot : putn[s] # NULL => hv[First(s)] # NULL /\ hv[Element(s)] # NULL
<1>1. call.then = NULL /\ ~ call.blocking /\ call.var \in UserVar
  BY DEF Calling, CallVar
<1>2. /\ Current(call.var) /\ call.cur \in Chain(hv[call.var].index) \cup {NULL}
      /\ blocked = NULL /\ hv[Nested] = NULL
  BY DEF Calling, CallStage, Gets
<1>3. call.var \in Var
  BY <1>1, VarFacts
<1>4. hv[call.var].index \in Ring
  BY <1>2, <1>3 DEF Calling, Variables, Current, HandleValue
<1>5. Pending(Temp) = {} /\ Pending(Nested) = {}
  BY <1>1 DEF Calling, Quiet
<1>6. \A s \in Slot : putn[s] # NULL => hv[First(s)] # NULL /\ hv[Element(s)] # NULL
  BY <1>1, SlotsHeld
<1>7. QED
  BY <1>1, <1>2, <1>3, <1>4, <1>5, <1>6

(* One step of the walk of nga_test_internal.                              *)
LEMMA TestEntryStep ==
  ASSUME IInv, TestEntry
  PROVE  IInv'
<1>1. /\ call.pc = "test" /\ call.cur # NULL
      /\ comex_test(armci_ihdl[call.cur].handle)
      /\ IF TestsComplete(armci_ihdl[call.cur].handle)
         THEN /\ ga_ihdl' = Unlinked(call.cur).ga
              /\ armci_ihdl' = [Unlinked(call.cur).armci EXCEPT ![call.cur] = FreeEntry]
         ELSE UNCHANGED <<ga_ihdl, armci_ihdl>>
      /\ call' = [call EXCEPT !.cur = armci_ihdl[call.cur].next]
      /\ KeepOwners /\ UNCHANGED <<lastGA, lastARMCI, ga_nb_tag, hv, putn, ops>>
  BY DEF TestEntry
<1>2. RingSound /\ TablesSound /\ Owned /\ Calling /\ Variables
  BY DEF IInv, Calling
<1>3. CallVar /\ CallStage /\ Quiet /\ Notifies /\ call \in CallRecord
  BY <1>2 DEF Calling, Variables
<1>4. /\ call.var \in Var /\ Current(call.var) /\ hv[call.var].index \in Ring
      /\ call.cur \in Chain(hv[call.var].index) \cup {NULL}
      /\ call.then = NULL /\ ~ call.blocking /\ call.var \in UserVar
      /\ blocked = NULL /\ hv[Nested] = NULL
      /\ Pending(Temp) = {} /\ Pending(Nested) = {}
      /\ \A s \in Slot : putn[s] # NULL => hv[First(s)] # NULL /\ hv[Element(s)] # NULL
  BY <1>1, <1>2, TestFacts
<1> PICK v \in Var : v = call.var
  BY <1>4
<1> PICK i \in Ring : i = hv[v].index
  BY <1>4
<1> PICK a \in Chain(i) : a = call.cur
  BY <1>1, <1>4
<1>5. /\ call'.pc = "test" /\ call'.var = v /\ call'.cur = armci_ihdl[a].next
      /\ call'.then = NULL /\ ~ call'.blocking
  BY <1>1, <1>3, <1>4 DEF CallRecord
<1>6. call' \in CallRecord
  <2>1. armci_ihdl \in ArmciTable /\ a \in Ring
    BY <1>2, ChainIs, ChainFacts DEF TablesSound, Lists
  <2>2. armci_ihdl[a].next \in Ring \cup {NULL}
    BY <2>1, TableFacts DEF ArmciTable
  <2>3. QED
    BY <1>1, <1>3, <2>2 DEF CallRecord
<1>7. Kept = Ring /\ Kept' = Ring
  BY <1>1, <1>5 DEF Kept
<1>8. /\ RingSound' /\ TablesSound' /\ Keeps /\ SameTags
      /\ armci_ihdl[a].next \in Chain(i)' \cup {NULL}
  <2>1. /\ comex_test(armci_ihdl[a].handle)
        /\ IF TestsComplete(armci_ihdl[a].handle)
           THEN /\ ga_ihdl' = Unlinked(a).ga
                /\ armci_ihdl' = [Unlinked(a).armci EXCEPT ![a] = FreeEntry]
           ELSE UNCHANGED <<ga_ihdl, armci_ihdl>>
    BY <1>1
  <2>2. QED
    BY <1>1, <1>2, <1>7, <2>1, TestOne
<1>9. blocked' = blocked
  BY <1>1 DEF comex_test
<1>10. \A w \in Var : Pending(w)' \subseteq Pending(w)
  BY <1>1, <1>2, <1>8, PendingFewer DEF Keeps
<1>11. Owned'
  <2>1. \A w \in Var : hv'[w] = hv[w] \/ Pending(w)' = {}
    BY <1>1
  <2>2. QED
    BY <1>1, <1>2, <1>8, <2>1, OwnedKept
<1>12. Variables'
  <2>1. owner' \in [Msg -> Var \cup {NULL}]
    BY <1>1, <1>2, KeptOwnerTyped
  <2>2. QED
    BY <1>1, <1>2, <1>6, <1>9, <2>1 DEF Variables
<1>13. CallVar'
  BY <1>4, <1>5 DEF CallVar, Patch, Gets
<1>14. CallStage'
  <2>1. Current(v)'
    BY <1>1, <1>2, <1>4, <1>8, StillCurrent
  <2>2. Current(call.var)'
    BY <1>5, <2>1
  <2>3. call'.cur \in Chain(hv[call.var].index)' \cup {NULL}
    <3>1. hv'[call'.var].index = i
      BY <1>1, <1>5
    <3>2. QED
      BY <1>5, <1>8, <3>1
  <2>4. QED
    BY <1>1, <1>4, <1>5, <1>9, <2>2, <2>3 DEF CallStage, Gets
<1>15. Quiet'
  <2>1. \A r \in Slot : putn'[r] = NULL => Pending(First(r))' = {} /\ Pending(Element(r))' = {}
    BY <1>1, <1>3, <1>10, SlotsQuiet
  <2>2. Pending(Temp)' = {} /\ Pending(Nested)' = {}
    BY <1>4, <1>10, VarFacts
  <2>3. QED
    BY <1>5, <2>1, <2>2 DEF Quiet, Patch
<1>16. Notifies'
  BY <1>1, <1>4, <1>5 DEF Notifies, Patch
<1>17. QED
  BY <1>8, <1>11, <1>12, <1>13, <1>14, <1>15, <1>16 DEF IInv, Calling

(* A slot with no entry left has no first one, and nothing is under way    *)
(* for a current variable of the slot.                                     *)
LEMMA NoneLeft ==
  ASSUME RingSound, TablesSound, Owned, Kept = Ring, call.pc \notin {"blocked", "ghosts"},
         NEW v \in Var, Current(v), NEW i \in Ring, i = hv[v].index, ga_ihdl[i].count = 0
  PROVE  ga_ihdl[i].ahandle = NULL /\ Pending(v) = {}
<1>1. ga_ihdl \in GaTable /\ armci_ihdl \in ArmciTable /\ ListOf(ga_ihdl, armci_ihdl, i, Chain(i))
  BY ChainIs DEF TablesSound, Lists
<1>2. IsFiniteSet(Chain(i)) /\ ga_ihdl[i].ahandle \in Chain(i) \cup {NULL}
  BY <1>1, ChainIs, ChainFacts
<1>3. Chain(i) = {}
  BY <1>1, <1>2, FS_EmptySet DEF ListOf
<1>4. \A m \in Pending(v) : Listed(m, v)
  BY DEF Owned
<1>5. \A m : ~ Listed(m, v)
  BY <1>3 DEF Listed
<1>6. QED
  BY <1>2, <1>3, <1>4, <1>5

(* The end of the walk: the slot is cleared when it has no entry left.     *)
LEMMA TestReturnsStep ==
  ASSUME IInv, TestReturns
  PROVE  IInv'
<1>1. /\ call.pc = "test" /\ call' = Idle
      /\ ga_ihdl' = IF ga_ihdl[hv[call.var].index].count = 0
                    THEN [ga_ihdl EXCEPT ![hv[call.var].index] = [@ EXCEPT !.ahandle = NULL, !.active = FALSE]]
                    ELSE ga_ihdl
      /\ UNCHANGED <<nbvars, armci_ihdl, lastGA, lastARMCI, ga_nb_tag, hv, putn, owner, ops>>
  BY DEF TestReturns
<1>2. RingSound /\ TablesSound /\ Owned /\ Calling /\ Variables
  BY DEF IInv, Calling
<1>3. /\ call.var \in Var /\ Current(call.var) /\ hv[call.var].index \in Ring
      /\ blocked = NULL /\ hv[Nested] = NULL
      /\ Pending(Temp) = {} /\ Pending(Nested) = {}
      /\ \A s \in Slot : putn[s] # NULL => hv[First(s)] # NULL /\ hv[Element(s)] # NULL
  BY <1>1, <1>2, TestFacts
<1> PICK v \in Var : v = call.var
  BY <1>3
<1> PICK i \in Ring : i = hv[v].index
  BY <1>3
<1>4. call'.pc = "idle" /\ call'.then = NULL /\ ~ call'.blocking /\ call' \in CallRecord
  BY <1>1, VarFacts DEF Idle, CallRecord, PCs, Kind
<1>5. Kept = Ring /\ Kept' = Ring
  BY <1>1, <1>4 DEF Kept
<1>6. RingSound' /\ posted' = posted /\ blocked' = blocked
  BY <1>1, <1>2, SameRing
<1>7. ga_ihdl \in GaTable /\ armci_ihdl \in ArmciTable /\ Lists(ga_ihdl, armci_ihdl, {})
  BY <1>2 DEF TablesSound, Lists
<1>8. /\ ga_ihdl' \in GaTable
      /\ \A j \in Ring : /\ ga_ihdl'[j].ahandle = ga_ihdl[j].ahandle
                         /\ ga_ihdl'[j].count = ga_ihdl[j].count /\ ga_ihdl'[j].tag = ga_ihdl[j].tag
  <2>1. CASE ga_ihdl[i].count = 0
    <3>1. ga_ihdl[i].ahandle = NULL
      BY <1>1, <1>2, <1>3, <1>5, <2>1, NoneLeft
    <3>2. ga_ihdl' = [ga_ihdl EXCEPT ![i] = [@ EXCEPT !.ahandle = NULL, !.active = FALSE]]
      BY <1>1, <2>1
    <3>3. ga_ihdl[i] \in [ahandle : Ring \cup {NULL}, count : Nat, tag : 0 .. TagMod, active : BOOLEAN]
      BY <1>7 DEF GaTable
    <3> PICK e \in [ahandle : Ring \cup {NULL}, count : Nat, tag : 0 .. TagMod, active : BOOLEAN] :
           e = [ga_ihdl[i] EXCEPT !.ahandle = NULL, !.active = FALSE]
      BY <3>3
    <3>4. e.ahandle = ga_ihdl[i].ahandle /\ e.count = ga_ihdl[i].count /\ e.tag = ga_ihdl[i].tag
      BY <3>1, <3>3
    <3>5. ga_ihdl' = [ga_ihdl EXCEPT ![i] = e]
      BY <3>2
    <3>6. QED
      BY <1>7, <3>4, <3>5 DEF GaTable
  <2>2. CASE ga_ihdl[i].count # 0
    BY <1>1, <1>7, <2>2
  <2>3. QED
    BY <2>1, <2>2
<1>9. Lists(ga_ihdl', armci_ihdl', {}) /\ SameChains(ga_ihdl, armci_ihdl, ga_ihdl', armci_ihdl')
  <2>1. \A b \in Ring : SameLinks(armci_ihdl, armci_ihdl', b)
    BY <1>1 DEF SameLinks
  <2>2. armci_ihdl' \in ArmciTable
    BY <1>1, <1>7
  <2>3. QED
    BY <1>7, <1>8, <2>1, <2>2, ListsFrame
<1>10. \A j \in Ring : Chain(j)' = Chain(j) /\ Chain(j) \in SUBSET Ring
  <2>1. \A j \in Ring : Chain(j)' = ChainOf(ga_ihdl', armci_ihdl', j)
    BY DEF Chain, ChainOf
  <2>2. QED
    BY <1>7, <1>9, <2>1, ChainIs, ChainFacts DEF SameChains
<1>11. TablesSound'
  BY <1>1, <1>2, <1>9 DEF TablesSound
<1>12. Keeps
  BY <1>1, <1>5, <1>6, <1>8, <1>10 DEF Keeps
<1>13. \A w \in Var : Pending(w)' = Pending(w)
  BY <1>1, <1>6 DEF Pending
<1>14. Owned'
  <2>1. ASSUME NEW w \in Var, NEW m \in Pending(w)' PROVE Listed(m, w)'
    <3>1. m \in Pending(w) /\ m \in posted'
      BY <1>13, <2>1 DEF Pending
    <3>2. Listed(m, w)
      BY <1>1, <1>2, <3>1 DEF Owned
    <3>3. QED
      BY <1>1, <1>2, <1>12, <3>1, <3>2, StillListed
  <2>2. QED
    BY <2>1 DEF Owned
<1>15. Variables'
  BY <1>1, <1>2, <1>4, <1>6 DEF Variables
<1>16. CallVar'
  BY <1>4 DEF CallVar, Patch, Gets
<1>17. CallStage'
  BY <1>1, <1>3, <1>4, <1>6 DEF CallStage, Gets
<1>18. Quiet'
  <2>1. \A r \in Slot : putn'[r] = NULL => Pending(First(r))' = {} /\ Pending(Element(r))' = {}
    BY <1>1, <1>2, <1>13, SlotsQuiet DEF Calling
  <2>2. Pending(Temp)' = {} /\ Pending(Nested)' = {}
    BY <1>3, <1>13, VarFacts
  <2>3. QED
    BY <1>4, <2>1, <2>2 DEF Quiet, Patch
<1>19. Notifies'
  BY <1>1, <1>3, <1>4 DEF Notifies, Patch
<1>20. QED
  BY <1>6, <1>11, <1>14, <1>15, <1>16, <1>17, <1>18, <1>19 DEF IInv, Calling

(* A step of MPI, and one that changes nothing.                            *)
LEMMA SameCalling ==
  ASSUME RingSound', TablesSound, Owned, Calling, posted' = posted, blocked' = blocked,
         UNCHANGED <<gavars, ops, owner>>
  PROVE  IInv'
<1>1. /\ ga_ihdl' = ga_ihdl /\ armci_ihdl' = armci_ihdl /\ lastGA' = lastGA /\ lastARMCI' = lastARMCI
      /\ ga_nb_tag' = ga_nb_tag /\ hv' = hv /\ putn' = putn /\ call' = call /\ ops' = ops /\ owner' = owner
  BY DEF gavars
<1>2. TablesSound' /\ Kept' = Kept
  BY <1>1 DEF TablesSound, Kept
<1>3. \A v : Pending(v)' = Pending(v)
  BY <1>1 DEF Pending
<1>4. \A v : Current(v)' <=> Current(v)
  BY <1>1 DEF Current
<1>5. \A i : Chain(i)' = Chain(i)
  BY <1>1 DEF Chain
<1>6. \A m, v : Listed(m, v)' <=> Listed(m, v)
  <2>1. \A v : Chain(hv[v].index)' = Chain(hv[v].index)
    BY <1>1, <1>5
  <2>2. QED
    BY <1>1, <1>2, <1>4, <2>1 DEF Listed
<1>7. Owned'
  BY <1>1, <1>3, <1>6 DEF Owned
<1>8. Variables /\ CallVar /\ CallStage /\ Quiet /\ Notifies
  BY DEF Calling
<1>9. Variables'
  BY <1>1, <1>8 DEF Variables
<1>10. CallVar'
  BY <1>1, <1>8 DEF CallVar
<1>11. CallStage'
  <2>1. /\ Chain(hv[call.var].index)' = Chain(hv[call.var].index)
        /\ Chain(hv[Nested].index)' = Chain(hv[Nested].index)
        /\ Current(call.var)' <=> Current(call.var)
        /\ Current(Nested)' <=> Current(Nested)
        /\ PiecesLeft' <=> PiecesLeft
    BY <1>1 DEF Chain, Current, PiecesLeft
  <2>2. QED
    BY <1>1, <1>8, <2>1 DEF CallStage
<1>12. Quiet'
  <2>1. /\ Pending(Temp)' = Pending(Temp) /\ Pending(Nested)' = Pending(Nested)
        /\ Pending(call.var)' = Pending(call.var)
        /\ Pending(Element(call.then))' = Pending(Element(call.then))
        /\ Pending(First(call.then))' = Pending(First(call.then))
        /\ \A s \in Slot : Pending(First(s))' = Pending(First(s)) /\ Pending(Element(s))' = Pending(Element(s))
    BY <1>1 DEF Pending
  <2>2. QED
    BY <1>1, <1>8, <2>1 DEF Quiet
<1>13. Notifies'
  BY <1>1, <1>8 DEF Notifies
<1>14. QED
  BY <1>2, <1>7, <1>9, <1>10, <1>11, <1>12, <1>13 DEF IInv, Calling

-----------------------------------------------------------------------------
(* The theorems.                                                           *)

(* gai_nb_init: no call is under way, no slot has an entry.                *)
LEMMA InitInv == Init => IInv
<1> SUFFICES ASSUME Init PROVE IInv
  OBVIOUS
<1>1. /\ NbInit
      /\ ga_ihdl = [i \in Ring |-> [ahandle |-> NULL, count |-> 0, tag |-> TagMod, active |-> FALSE]]
      /\ armci_ihdl = [i \in Ring |-> FreeEntry]
      /\ lastGA = NbMax - 1 /\ lastARMCI = NbMax - 1 /\ ga_nb_tag = TagMod - 1
      /\ hv = [v \in Var |-> NULL] /\ putn = [s \in Slot |-> NULL]
      /\ call = Idle /\ ops = MaxOps /\ owner = [m \in Msg |-> NULL]
  BY DEF Init
<1>2. RingSound
  BY <1>1, InitRing
<1>3. posted = {} /\ blocked = NULL
  BY <1>1 DEF NbInit
<1>4. TablesSound
  <2>1. ga_ihdl \in GaTable
    BY <1>1, GaNbAssumption DEF GaTable
  <2>2. 0 \in Ring
    BY NbAssumption DEF Ring
  <2>3. armci_ihdl \in ArmciTable
    BY <1>1, <2>2 DEF ArmciTable, FreeEntry
  <2>4. \A i \in Ring : ChainOf(ga_ihdl, armci_ihdl, i) = {}
    <3>1. TAKE i \in Ring
    <3>2. [a \in Ring |-> armci_ihdl[a].next] \in Links
      BY <2>1, <2>3, TableFacts
    <3>3. ChainOf(ga_ihdl, armci_ihdl, i) = LinkedFrom(NULL, [a \in Ring |-> armci_ihdl[a].next])
      BY <1>1 DEF ChainOf
    <3>4. QED
      BY <3>2, <3>3, LinkedNone
  <2>5. \A i \in Ring : ListOf(ga_ihdl, armci_ihdl, i, {})
    BY <1>1, FS_EmptySet DEF ListOf
  <2>6. \A a \in Ring : ~ armci_ihdl[a].active
    BY <1>1 DEF FreeEntry
  <2>7. Lists(ga_ihdl, armci_ihdl, {})
    BY <2>1, <2>3, <2>4, <2>5, <2>6 DEF Lists
  <2>8. NbMax - 1 \in Ring /\ TagMod - 1 \in 0 .. TagMod - 1
    BY NbAssumption, GaNbAssumption DEF Ring
  <2>9. QED
    BY <1>1, <2>7, <2>8 DEF TablesSound
<1>5. \A v : Pending(v) = {}
  BY <1>3 DEF Pending
<1>6. Owned
  BY <1>5 DEF Owned
<1>7. call.pc = "idle" /\ call.then = NULL /\ ~ call.blocking /\ call \in CallRecord
  BY <1>1, VarFacts DEF Idle, CallRecord, PCs, Kind
<1>8. Variables
  BY <1>1, <1>3, <1>7, GaNbAssumption DEF Variables
<1>9. CallVar
  BY <1>7 DEF CallVar, Patch, Gets
<1>10. CallStage
  BY <1>1, <1>3, <1>7, VarFacts DEF CallStage, Gets
<1>11. Quiet
  BY <1>5, <1>7 DEF Quiet, Patch
<1>12. Notifies
  BY <1>1, <1>7 DEF Notifies, Patch
<1>13. QED
  BY <1>2, <1>4, <1>6, <1>8, <1>9, <1>10, <1>11, <1>12 DEF IInv, Calling

(* Every step of the process and of MPI keeps the invariant.               *)
LEMMA StepInv == IInv /\ [Next]_vars => IInv'
<1> SUFFICES ASSUME IInv, [Next]_vars PROVE IInv'
  OBVIOUS
<1>1. ASSUME Calls PROVE IInv'
  <2>1. ASSUME NEW u \in User, NEW k \in Kind, pnga_nb(u, k) PROVE IInv'
    BY <2>1, NbStep
  <2>2. ASSUME NEW u \in User, pnga_nbput_notify(u) PROVE IInv'
    BY <2>2, PutNotifyStep
  <2>3. ASSUME NEW u \in User, pnga_nbwait(u) PROVE IInv'
    BY <2>3, NbWaitStep
  <2>4. ASSUME NEW u \in User, pnga_nbwait_notify(u) PROVE IInv'
    BY <2>4, WaitNotifyStep
  <2>5. ASSUME NEW u \in User, pnga_nbtest(u) PROVE IInv'
    BY <2>5, NbTestStep
  <2>6. ASSUME NEW k \in Kind, pnga_blocking(k) PROVE IInv'
    BY <2>6, BlockingStep
  <2>7. CASE Fence
    BY <2>7, FenceStep
  <2>8. CASE UpdateGhosts
    BY <2>8, UpdateGhostsStep
  <2>9. QED
    BY <1>1, <2>1, <2>2, <2>3, <2>4, <2>5, <2>6, <2>7, <2>8 DEF Calls
<1>2. ASSUME Steps PROVE IInv'
  BY <1>2, InitHandleStep, NbPieceStep, ArmciNbStep, BlockingPutStep, BlockingPutReturnsStep,
     BlockingGetStep, NestedHandleStep, NestedNbStep, NestedWaitStep, ReturnStep, NotifyReturnsStep,
     TestEntryStep, TestReturnsStep, GhostPieceStep, GhostsReturnStep DEF Steps
<1>3. ASSUME NEW m \in Msg, MpiCompletes(m) PROVE IInv'
  <2>1. Complete(m) /\ UNCHANGED <<gavars, ops, owner>>
    BY <1>3 DEF MpiCompletes
  <2>2. RingSound' /\ posted' = posted
    BY <2>1, CompleteRing DEF IInv
  <2>3. blocked' = blocked
    BY <2>1 DEF Complete
  <2>4. QED
    BY <2>1, <2>2, <2>3, SameCalling DEF IInv
<1>4. ASSUME UNCHANGED vars PROVE IInv'
  <2>1. UNCHANGED nbvars /\ UNCHANGED <<gavars, ops, owner>>
    BY <1>4 DEF vars
  <2>2. RingSound' /\ posted' = posted /\ blocked' = blocked
    BY <2>1, SameRing DEF IInv
  <2>3. QED
    BY <2>1, <2>2, SameCalling DEF IInv
<1>5. QED
  BY <1>1, <1>2, <1>3, <1>4 DEF Next, MpiProgress

(* The invariant of the ring and of the tables holds in all reachable      *)
(* states, with any number of handles, variables and pieces.               *)
THEOREM Invariance == Spec => []IInv
<1>1. Init => IInv
  BY InitInv
<1>2. IInv /\ [Next]_vars => IInv'
  BY StepInv
<1>3. QED
  BY <1>1, <1>2, PTL DEF Spec

(* The variables of the ring and of the tables keep their types.           *)
THEOREM TypeCorrect == Spec => []TypeOK
<1>1. ASSUME IInv PROVE TypeOK
  <2>1. RingSound /\ TablesSound /\ Variables
    BY <1>1 DEF IInv, Calling
  <2>2. NbTypeOK
    BY <2>1 DEF NbTypeOK, RingSound, Variables
  <2>3. /\ ga_ihdl \in [Ring -> [ahandle : Ring \cup {NULL}, count : Nat, tag : 0 .. TagMod, active : BOOLEAN]]
        /\ armci_ihdl \in [Ring -> [handle : Ring, next : Ring \cup {NULL}, previous : Ring \cup {NULL},
                                    ga : Ring, active : BOOLEAN]]
    BY <2>1 DEF TablesSound, Lists, GaTable, ArmciTable
  <2>4. hv \in [Var -> [index : Ring, tag : 0 .. TagMod - 1] \cup {NULL}]
    BY <2>1 DEF Variables, HandleValue
  <2>5. QED
    BY <2>1, <2>2, <2>3, <2>4 DEF TypeOK, TablesSound, Variables
<1>2. IInv => TypeOK
  BY <1>1
<1>3. QED
  BY <1>2, Invariance, PTL

(* No message of the ring of ComEx handles is ever lost: waits and tests   *)
(* reach each one that is posted, in whatever order MPI finishes them.     *)
THEOREM RingSafety == Spec => []RingIntact
<1>1. IInv => RingIntact
  BY RingFollows DEF IInv
<1>2. QED
  BY <1>1, Invariance, PTL

(* The lists of get_armci_nbhandle stay lists, and a transfer that is not  *)
(* complete is in the list a wait on its handle walks, whoever took        *)
(* entries, handles or slots from the operation in the meantime.           *)
THEOREM ListSafety == Spec => []HandleListsIntact
<1>1. ASSUME IInv PROVE ListsIntact
  <2>1. Lists(ga_ihdl, armci_ihdl, {})
    BY <1>1 DEF IInv, TablesSound
  <2>2. \A i \in Ring : ListOf(ga_ihdl, armci_ihdl, i, Chain(i))
    BY <2>1, ChainIs DEF Lists
  <2>3. \A a \in Ring : armci_ihdl[a].active => a \in Chain(armci_ihdl[a].ga)
    BY <2>1, ChainIs DEF Lists
  <2>4. QED
    BY <2>2, <2>3 DEF ListsIntact, ListOf
<1>2. ASSUME IInv PROVE PendingIsListed
  <2>1. RingSound /\ TablesSound /\ Owned /\ Variables
    BY <1>2 DEF IInv, Calling
  <2>2. ga_ihdl \in GaTable /\ armci_ihdl \in ArmciTable
    BY <2>1 DEF TablesSound, Lists
  <2>3. ASSUME NEW v \in Var, NEW m \in Pending(v), Listed(m, v)
        PROVE  /\ hv[v].tag = ga_ihdl[hv[v].index].tag
               /\ \E a \in Chain(hv[v].index) : m \in Reached(armci_ihdl[a].handle)
    <3>1. Current(v) /\ m \in posted
      BY <2>3 DEF Listed, Pending
    <3> PICK i \in Ring : i = hv[v].index
      BY <2>1, <3>1 DEF Current, Variables, HandleValue
    <3>2. PICK a \in Chain(i) : armci_ihdl[a].handle = m[1]
      BY <2>3 DEF Listed
    <3>3. armci_ihdl[a].handle \in Ring
      BY <2>2, ChainIs, ChainFacts, TableFacts
    <3>4. m \in Reached(armci_ihdl[a].handle)
      BY <2>1, <3>1, <3>2, <3>3, RingFacts DEF On
    <3>5. QED
      BY <3>1, <3>4 DEF Current
  <2>4. QED
    BY <2>1, <2>3 DEF PendingIsListed, Owned
<1>3. IInv => HandleListsIntact
  BY <1>1, <1>2 DEF HandleListsIntact
<1>4. QED
  BY <1>3, Invariance, PTL

(* Whoever is told that an operation is over, by a test, by the return of  *)
(* a blocking call or by the release of a notify slot, is told the truth.  *)
THEOREM AnswerSafety == Spec => []AnswersHonest
<1>1. ASSUME IInv PROVE TestIsHonest
  <2>1. RingSound /\ TablesSound /\ Owned /\ Calling /\ Variables
    BY <1>1 DEF IInv, Calling
  <2>2. ASSUME NEW u \in User, TestSaysDone(u) PROVE Pending(<<"user", u>>) = {}
    <3> PICK v \in Var : v = <<"user", u>>
      BY VarFacts DEF UserOf
    <3>1. CASE call.pc = "test" /\ call.cur = NULL /\ call.var = v /\ ga_ihdl[hv[v].index].count = 0
      <4>1. Current(v) /\ hv[v].index \in Ring
        BY <2>1, <3>1, TestFacts
      <4> PICK i \in Ring : i = hv[v].index
        BY <4>1
      <4>2. Kept = Ring /\ ga_ihdl[i].count = 0
        BY <3>1 DEF Kept
      <4>3. Pending(v) = {}
        BY <2>1, <3>1, <4>1, <4>2, NoneLeft
      <4>4. QED
        BY <4>3
    <3>2. CASE call.pc = "idle" /\ hv[v] # NULL /\ hv[v].tag # ga_ihdl[hv[v].index].tag
      <4>1. ~ Current(v)
        BY <3>2 DEF Current
      <4>2. \A m \in Pending(v) : Listed(m, v)
        BY <2>1, <3>2 DEF Owned
      <4>3. QED
        BY <4>1, <4>2 DEF Listed
    <3>3. QED
      BY <2>2, <3>1, <3>2 DEF TestSaysDone
  <2>3. QED
    BY <2>2 DEF TestIsHonest
<1>2. ASSUME IInv PROVE BlockingCompletes
  BY <1>2, IdleFacts DEF IInv, BlockingCompletes
<1>3. ASSUME IInv PROVE NotifySlotsComplete
  <2>1. Quiet
    BY <1>3 DEF IInv, Calling
  <2>2. QED
    BY <2>1 DEF Quiet, NotifySlotsComplete, First, Element
<1>4. IInv => AnswersHonest
  BY <1>1, <1>2, <1>3 DEF AnswersHonest
<1>5. QED
  BY <1>4, Invariance, PTL

(* A step that is the return of pnga_nbwait leaves nothing of the          *)
(* operation under way, even when its handle was given away.               *)
THEOREM WaitSafety == Spec => WaitCompletes
<1>1. ASSUME IInv, NEW u \in User, pnga_nbwait(u) PROVE Pending(<<"user", u>>)' = {}
  BY <1>1, NbWaitStep DEF UserOf
<1>2. IInv => [\A u \in User : pnga_nbwait(u) => Pending(<<"user", u>>)' = {}]_vars
  BY <1>1
<1>3. QED
  BY <1>2, Invariance, PTL DEF WaitCompletes
=============================================================================
