------------------------- MODULE ComexMallocProofs -------------------------
(***************************************************************************)
(* Proofs about collective allocation and the registration caches, for any *)
(* number of ranks, nodes, progress ranks, calls, groups and addresses.    *)
(***************************************************************************)
EXTENDS ComexMalloc, ProgressRanksProofs, SequenceTheorems

-----------------------------------------------------------------------------
(* The inductive invariant.                                                *)

Setting == \E j \in Jobs : /\ layout = j.layout /\ program = j.program
                           /\ master = AllMasters(j.layout)

Members(k) == program[k].group
Mallocs == {k \in DOMAIN program : program[k].op = "malloc"}
Frees(k) == {j \in DOMAIN program : program[j].op = "free" /\ program[j].of = k}
Spokesman(k, c) == NotifierIn(layout, Members(k), c)

Message == [op : {"PUT", "FENCE", "MALLOC", "FREE"},
            entries : SUBSET (Worker \X (Address \cup {NULL}))]

Types ==
  /\ pc \in [Rank -> Point]
  /\ step \in [Rank -> 1 .. (Len(program) + 1)]
  /\ ptrs \in [DOMAIN program -> [Rank -> Address \cup {NULL}]]
  /\ reg_cache \in [Rank -> SUBSET (Worker \X Address)]
  /\ fence_array \in [Rank -> SUBSET Master]
  /\ req \in [Rank -> [Rank -> Seq(Message)]]
  /\ rep \in [Rank -> [Rank -> 0 .. 1]]
  /\ puts \in Nat

(* Between the barriers of a call, and after the MPI_Allgather in it.      *)
Within == {"allocate", "gather"}
Beyond == {"update", "ack", "local", "end"}

(* Where a worker is fits the call it is in.                               *)
PlaceAt(c) ==
  /\ step[c] \in DOMAIN program => c \in Members(step[c])
  /\ pc[c] # "user" => step[c] \in DOMAIN program
  /\ pc[c] = "allocate" => InCall(c).op = "malloc"
  /\ pc[c] = "local" => InCall(c).op = "free"
  /\ pc[c] = "ack" => Notifier(c) = c
  /\ pc[c] \notin {"user", "fence"} => fence_array[c] = {}

(* The members of a call go through its collectives together.              *)
Together(k) ==
  \A c, d \in Members(k) :
    /\ step[c] > k => step[d] > k
    /\ step[c] = k /\ pc[c] \in Within => step[d] = k /\ pc[d] \in Within
    /\ step[c] = k /\ pc[c] \in Beyond => step[d] = k /\ pc[d] \in Beyond

(* c has come past some point of the k-th call, one of those in P: it has  *)
(* mapped its own segment; it has dealt with those it reaches; it has gone *)
(* through the call but for the last barrier.                              *)
Past(c, k, P) == step[c] > k \/ (step[c] = k /\ pc[c] \in P)
Allocated(c, k) == Past(c, k, {"gather", "update", "ack", "end"})
Mapping(c, k) == Past(c, k, {"ack", "local", "end"})
Finished(c, k) == Past(c, k, {"end"})

(* c, if it speaks for its progress rank, had its answer.                  *)
Answered(c, k) == step[c] = k /\ pc[c] = "ack" /\ rep[c][master[c]] > 0
Spoken(c, k) == Past(c, k, {"local", "end"}) \/ Answered(c, k)

(* Of the k-th call, a comex_malloc, and the calls that free it: t has its *)
(* own segment in its cache, or could still have it in another's; r has    *)
(* the segments it reaches; c has had its progress rank take those that it *)
(* serves.                                                                 *)
Owned(t, k) == Allocated(t, k) /\ \A j \in Frees(k) : ~Finished(t, j)
Mine(t, k) == Allocated(t, k) /\ \A j \in Frees(k) : step[t] <= j
MappedBy(r, k) == Mapping(r, k) /\ \A j \in Frees(k) : ~Mapping(r, j)
Told(c, k) == Spoken(c, k) /\ \A j \in Frees(k) : ~Spoken(c, j)

(* The cache of r has the segment of t.                                    *)
Known(r, k, t) ==
  \/ r = t /\ Owned(t, k)
  \/ r \in Members(k) \ {t} /\ master[r] = master[t] /\ MappedBy(r, k)
  \/ r = master[t] /\ Told(Spokesman(k, t), k)

CacheAt(r) ==
  \A t \in Worker, a \in Address :
    <<t, a>> \in reg_cache[r] <=>
      \E k \in Mallocs : t \in Members(k) /\ ptrs[k][t] = a /\ Known(r, k, t)

(* The segments a process has at a time are different.                     *)
Distinct ==
  \A k, i \in Mallocs : \A t \in Members(k) \cap Members(i) :
    Mine(t, k) /\ Mine(t, i) /\ ptrs[k][t] = ptrs[i][t] /\ ptrs[k][t] # NULL => k = i

(* What is on its way from c to m.                                         *)
Asks(c, m) ==
  \/ pc[c] = "fence" /\ m \in fence_array[c]
  \/ pc[c] = "ack" /\ m = master[c]

PutSound(c, m, E) ==
  \E k \in Mallocs : \E t \in Members(k) :
    /\ c \in Members(k) /\ step[c] > k /\ \A j \in Frees(k) : step[c] <= j
    /\ master[t] = m /\ ptrs[k][t] # NULL /\ E = {<<t, ptrs[k][t]>>}

RequestAt(c, m, h) ==
  \/ /\ h.op = "PUT" /\ pc[c] \in {"user", "fence"} /\ m \in fence_array[c]
     /\ PutSound(c, m, h.entries)
  \/ h.op = "FENCE" /\ pc[c] = "fence" /\ m \in fence_array[c]
  \/ /\ pc[c] = "ack" /\ m = master[c]
     /\ h = Header(IF InCall(c).op = "malloc" THEN "MALLOC" ELSE "FREE",
                   Mapped(c) \cup Own(c))

ChannelAt(c, m) ==
  /\ \A i \in 1 .. Len(req[c][m]) :
       /\ RequestAt(c, m, req[c][m][i])
       /\ req[c][m][i].op # "PUT" => i = Len(req[c][m]) /\ rep[c][m] = 0
  /\ rep[c][m] > 0 => Asks(c, m) /\ req[c][m] = << >>

Places == \A c \in Rank : PlaceAt(c)
Marches == \A k \in DOMAIN program : Together(k)
Caches == \A r \in Rank : CacheAt(r)
Channels == \A c \in Worker, m \in Rank : ChannelAt(c, m)

IInv == Setting /\ Types /\ Places /\ Marches /\ Caches /\ Distinct /\ Channels

-----------------------------------------------------------------------------
(* What the job says of the calls and of who speaks for whom.              *)

CallsSound ==
  /\ program \in Seq(Call)
  /\ \A k \in DOMAIN program : Members(k) \subseteq Worker
  /\ \A j \in DOMAIN program : program[j].op = "free" =>
       /\ program[j].of \in Mallocs /\ program[j].of < j
       /\ Members(program[j].of) = Members(j)
       /\ \A i \in DOMAIN program :
            program[i].op = "free" /\ program[i].of = program[j].of => i = j

RanksSound ==
  /\ master \in [Rank -> Rank]
  /\ \A r \in Rank : /\ master[master[r]] = master[r]
                     /\ layout.host[master[r]] = layout.host[r]

SpeakersSound ==
  \A k \in DOMAIN program : \A c \in Members(k) :
    /\ Spokesman(k, c) \in Members(k) /\ master[Spokesman(k, c)] = master[c]
    /\ \A d \in Members(k) : master[d] = master[c] => Spokesman(k, d) = Spokesman(k, c)

(* The jobs the theorems are about have all this.                          *)
LEMMA Grounds ==
  ASSUME JobsServed, Setting
  PROVE  CallsSound /\ RanksSound /\ SpeakersSound
<1>1. PICK j \in Jobs : layout = j.layout /\ program = j.program /\ master = AllMasters(j.layout)
  BY DEF Setting
<1>2. WellFormed(j) /\ SpokenFor(j) /\ Served(j)
  BY DEF JobsServed
<1>3. program \in Seq(Call) /\ layout \in Layout /\ ~Refused(layout)
  BY <1>1, MallocAssumption
<1>4. AllMasters(layout) \in [Rank -> Rank]
  <2>1. Layout = Environment(Size) /\ Ranks(Size) = Rank
    BY DEF Layout, Environment, Ranks, Rank
  <2>2. QED
    BY <1>3, <2>1, SizeAssumption, MastersTyped
<1>5. RanksSound
  BY <1>1, <1>2, <1>4 DEF RanksSound, Served
<1>6. SpeakersSound
  BY <1>1, <1>2 DEF SpeakersSound, SpokenFor, Spokesman, Members
<1>7. CallsSound
  <2>1. ASSUME NEW k \in DOMAIN program PROVE program[k] \in Call
    BY <1>3, ElementOfSeq
  <2>2. ASSUME NEW k \in DOMAIN program PROVE Members(k) \subseteq Worker
    <3>1. program[k].group \subseteq Rank
      BY <2>1 DEF Call
    <3>2. \A c \in program[k].group : master[c] # c
      BY <1>1, <1>2 DEF WellFormed
    <3>3. QED
      BY <3>1, <3>2 DEF Members, Worker, Master
  <2>3. ASSUME NEW i \in DOMAIN program, program[i].op = "free"
        PROVE  /\ program[i].of \in Mallocs /\ program[i].of < i
               /\ Members(program[i].of) = Members(i)
               /\ \A h \in DOMAIN program :
                    program[h].op = "free" /\ program[h].of = program[i].of => h = i
    <3>1. /\ program[i].of \in 1 .. (i - 1)
          /\ program[program[i].of].op = "malloc"
          /\ program[program[i].of].group = program[i].group
          /\ \A h \in DOMAIN program :
               program[h].op = "free" /\ program[h].of = program[i].of => h = i
      BY <1>1, <1>2, <2>3 DEF WellFormed
    <3>2. DOMAIN program = 1 .. Len(program) /\ Len(program) \in Nat
      BY <1>3
    <3>3. program[i].of \in DOMAIN program /\ program[i].of < i
      BY <3>1, <3>2
    <3>4. QED
      BY <3>1, <3>3 DEF Mallocs, Members
  <2>4. QED
    BY <1>3, <2>2, <2>3 DEF CallsSound
<1>8. QED
  BY <1>5, <1>6, <1>7

(* A call allocates or frees; what frees the k-th call comes after it, is  *)
(* of the same members, and is the only one.                               *)
LEMMA CallFacts ==
  ASSUME CallsSound
  PROVE  /\ DOMAIN program = 1 .. Len(program) /\ Len(program) \in Nat
         /\ \A k \in DOMAIN program : /\ program[k].op \in {"malloc", "free"}
                                      /\ Members(k) \subseteq Worker /\ Members(k) \subseteq Rank
                                      /\ program[k].op # "malloc" => program[k].of \in Mallocs
         /\ \A k \in Mallocs : k \in DOMAIN program /\ k \in Nat
         /\ \A k \in Mallocs : \A j \in Frees(k) :
              /\ j \in DOMAIN program /\ j \in Nat /\ k < j
              /\ program[j].op = "free" /\ program[j].of = k /\ Members(j) = Members(k)
              /\ \A i \in Frees(k) : i = j
         /\ \A j \in DOMAIN program : program[j].op = "free" => j \in Frees(program[j].of)
<1>1. program \in Seq(Call) /\ DOMAIN program = 1 .. Len(program) /\ Len(program) \in Nat
  BY DEF CallsSound
<1>2. ASSUME NEW k \in DOMAIN program
      PROVE  /\ program[k].op \in {"malloc", "free"}
             /\ Members(k) \subseteq Worker /\ Members(k) \subseteq Rank
             /\ program[k].op # "malloc" => program[k].of \in Mallocs
  <2>1. program[k] \in Call
    BY <1>1, ElementOfSeq
  <2>2. program[k].op \in {"malloc", "free"}
    BY <2>1 DEF Call
  <2>3. Members(k) \subseteq Worker
    BY DEF CallsSound
  <2>4. QED
    BY <2>2, <2>3 DEF Worker, CallsSound
<1>3. \A k \in Mallocs : k \in DOMAIN program /\ k \in Nat
  BY <1>1 DEF Mallocs
<1>4. ASSUME NEW k \in Mallocs, NEW j \in Frees(k)
      PROVE  /\ j \in DOMAIN program /\ j \in Nat /\ k < j
             /\ program[j].op = "free" /\ program[j].of = k /\ Members(j) = Members(k)
             /\ \A i \in Frees(k) : i = j
  <2>1. j \in DOMAIN program /\ program[j].op = "free" /\ program[j].of = k
    BY DEF Frees
  <2>2. QED
    BY <1>1, <2>1 DEF CallsSound, Frees
<1>5. \A j \in DOMAIN program : program[j].op = "free" => j \in Frees(program[j].of)
  BY DEF Frees
<1>6. QED
  BY <1>1, <1>2, <1>3, <1>4, <1>5

(* The next call of c is one of c's, the first from the k-th on.           *)
LEMMA NextSound ==
  ASSUME CallsSound, NEW c \in Rank, NEW k \in Nat, k > 0, k <= Len(program) + 1
  PROVE  /\ NextCall(c, k) \in k .. (Len(program) + 1)
         /\ NextCall(c, k) \in DOMAIN program => c \in Members(NextCall(c, k))
         /\ \A j \in DOMAIN program : k <= j /\ c \in Members(j) => NextCall(c, k) <= j
<1> DEFINE mine == {j \in k .. Len(program) : c \in program[j].group}
<1>1. DOMAIN program = 1 .. Len(program) /\ Len(program) \in Nat
  BY DEF CallsSound
<1>2. CASE mine = {}
  <2>1. NextCall(c, k) = Len(program) + 1
    BY <1>2 DEF NextCall
  <2>2. QED
    BY <1>1, <1>2, <2>1 DEF Members
<1>3. CASE mine # {}
  <2>1. mine \subseteq Nat
    BY <1>1
  <2>2. \E x \in mine : \A y \in mine : x <= y
    BY <1>3, <2>1, LeastElement
  <2>3. NextCall(c, k) = CHOOSE j \in mine : \A i \in mine : j <= i
    BY <1>3 DEF NextCall
  <2>4. NextCall(c, k) \in mine /\ \A i \in mine : NextCall(c, k) <= i
    BY <2>2, <2>3
  <2>5. QED
    BY <1>1, <2>4 DEF Members
<1>4. QED
  BY <1>2, <1>3

-----------------------------------------------------------------------------
(* Types, and where each worker is.                                        *)

(* The job is the same after a step.                                       *)
LEMMA SameJob ==
  ASSUME layout' = layout, program' = program, master' = master
  PROVE  /\ Worker' = Worker /\ Master' = Master /\ Mallocs' = Mallocs
         /\ \A k : Members(k)' = Members(k) /\ Frees(k)' = Frees(k)
         /\ \A k, c : Spokesman(k, c)' = Spokesman(k, c)
         /\ Message' = Message
<1>1. Worker' = Worker /\ Master' = Master
  BY DEF Worker, Master
<1>2. Mallocs' = Mallocs /\ \A k : Members(k)' = Members(k) /\ Frees(k)' = Frees(k)
  BY DEF Mallocs, Members, Frees
<1>3. \A k, c : Spokesman(k, c)' = Spokesman(k, c)
  BY <1>2 DEF Spokesman
<1>4. Message' = Message
  BY <1>1 DEF Message
<1>5. QED
  BY <1>1, <1>2, <1>3, <1>4

(* The job never changes.                                                  *)
LEMMA JobStays ==
  ASSUME [Next]_vars
  PROVE  layout' = layout /\ program' = program /\ master' = master
<1>1. ASSUME NEW c \in Worker, WorkerStep(c)
      PROVE  layout' = layout /\ program' = program /\ master' = master
  BY <1>1 DEF WorkerStep, CallCollective, FenceDone, comex_malloc_local, Register, Unregister,
              Acknowledged, comex_free_local
<1>2. ASSUME NEW c \in Worker, NEW t \in Worker, NEW k \in DOMAIN program, nb_put(c, k, t)
      PROVE  layout' = layout /\ program' = program /\ master' = master
  BY <1>2 DEF nb_put
<1>3. ASSUME NEW k \in DOMAIN program, FirstBarrier(k) \/ MPI_Allgather(k) \/ LastBarrier(k)
      PROVE  layout' = layout /\ program' = program /\ master' = master
  BY <1>3 DEF FirstBarrier, MPI_Allgather, LastBarrier
<1>4. ASSUME NEW m \in Master, NEW c \in Worker, progress_server(m, c)
      PROVE  layout' = layout /\ program' = program /\ master' = master
  BY <1>4 DEF progress_server, put_handler, fence_handler, malloc_handler, free_handler
<1>5. QED
  BY <1>1, <1>2, <1>3, <1>4 DEF Next, Ended, vars

(* The first request of a channel is one that was sent; only puts have     *)
(* others after them.                                                      *)
LEMMA HeadFacts ==
  ASSUME Types, Channels, NEW c \in Worker, NEW m \in Rank, req[c][m] # << >>
  PROVE  /\ RequestAt(c, m, Head(req[c][m])) /\ Head(req[c][m]) \in Message
         /\ Tail(req[c][m]) \in Seq(Message)
         /\ Len(Tail(req[c][m])) = Len(req[c][m]) - 1
         /\ \A i \in 1 .. Len(Tail(req[c][m])) : Tail(req[c][m])[i] = req[c][m][i + 1]
         /\ Head(req[c][m]).op # "PUT" => Tail(req[c][m]) = << >> /\ rep[c][m] = 0
         /\ rep[c][m] = 0
<1> DEFINE q == req[c][m]
<1>1. c \in Rank /\ q \in Seq(Message)
  BY DEF Types, Worker
<1>2. ChannelAt(c, m)
  BY DEF Channels
<1>3. /\ Len(q) \in Nat /\ Len(q) > 0 /\ Head(q) = q[1] /\ q[1] \in Message
      /\ Tail(q) \in Seq(Message) /\ Len(Tail(q)) = Len(q) - 1
      /\ \A i \in 1 .. Len(Tail(q)) : Tail(q)[i] = q[i + 1]
  BY <1>1, HeadTailProperties
<1>4. RequestAt(c, m, q[1]) /\ (q[1].op # "PUT" => 1 = Len(q) /\ rep[c][m] = 0)
  <2>1. \A i \in 1 .. Len(q) :
          RequestAt(c, m, q[i]) /\ (q[i].op # "PUT" => i = Len(q) /\ rep[c][m] = 0)
    BY <1>2, Zenon DEF ChannelAt
  <2>2. 1 \in 1 .. Len(q)
    BY <1>3
  <2>3. QED
    BY <2>1, <2>2, Zenon
<1>5. rep[c][m] = 0
  BY <1>1, <1>2 DEF ChannelAt, Types
<1>6. q[1].op # "PUT" => Tail(q) = << >>
  <2>1. ASSUME q[1].op # "PUT" PROVE Len(Tail(q)) = 0
    BY <1>3, <1>4, <2>1
  <2>2. Tail(q) # << >> => Len(Tail(q)) \in Nat \ {0}
    BY <1>3, EmptySeq, Zenon
  <2>3. QED
    BY <2>1, <2>2
<1>7. QED
  BY <1>3, <1>4, <1>5, <1>6

(* The comex_malloc that the call of c makes or undoes.                    *)
About(c) == IF InCall(c).op = "malloc" THEN step[c] ELSE InCall(c).of

(* The segments a call maps or unmaps are those of this comex_malloc, of   *)
(* the members that have c's progress rank.                                *)
LEMMA SegmentFacts ==
  ASSUME CallsSound, SpeakersSound, Types, Places, NEW c \in Rank, step[c] \in DOMAIN program
  PROVE  /\ About(c) \in Mallocs /\ c \in Members(About(c)) /\ Members(About(c)) = Members(step[c])
         /\ InCall(c).op = "malloc" => About(c) = step[c]
         /\ InCall(c).op # "malloc" => /\ InCall(c).op = "free" /\ step[c] \in Frees(About(c))
         /\ Notifier(c) = Spokesman(step[c], c) /\ Notifier(c) \in Members(step[c])
         /\ master[Notifier(c)] = master[c]
         /\ \A s : s \in Mapped(c) <=>
              \E t \in Members(About(c)) : /\ t # c /\ ptrs[About(c)][t] # NULL
                                           /\ master[t] = master[c] /\ s = <<t, ptrs[About(c)][t]>>
         /\ \A s : s \in Own(c) <=>
              s = <<c, ptrs[About(c)][c]>>
                /\ (InCall(c).op = "malloc" => ptrs[About(c)][c] # NULL)
         /\ Mapped(c) \subseteq Worker \X Address
         /\ Own(c) \subseteq Worker \X (Address \cup {NULL})
<1> DEFINE k == About(c)
<1>1. program[step[c]].op \in {"malloc", "free"} /\ InCall(c) = program[step[c]]
  BY CallFacts DEF InCall
<1>2. c \in Members(step[c])
  BY DEF Places, PlaceAt
<1>3. /\ k \in Mallocs /\ Members(k) = Members(step[c])
      /\ InCall(c).op = "malloc" => k = step[c]
      /\ InCall(c).op # "malloc" => /\ InCall(c).op = "free" /\ step[c] \in Frees(k)
  BY <1>1 DEF CallsSound, About, Mallocs, Frees
<1> HIDE DEF k
<1>4. /\ Notifier(c) = Spokesman(step[c], c) /\ Notifier(c) \in Members(step[c])
      /\ master[Notifier(c)] = master[c]
  BY <1>1, <1>2 DEF SpeakersSound, Notifier, Spokesman, NotifierIn, Members
<1>5. Segment(c) = [t \in Members(k) |-> ptrs[k][t]] /\ InCall(c).group = Members(k)
  BY <1>1, <1>3, Zenon DEF Segment, About, k, Members
<1>6. \A s : s \in Mapped(c) <=>
              \E t \in Members(k) : /\ t # c /\ ptrs[k][t] # NULL
                                    /\ master[t] = master[c] /\ s = <<t, ptrs[k][t]>>
  BY <1>4, <1>5 DEF Mapped
<1>7. \A s : s \in Own(c) <=>
              s = <<c, ptrs[k][c]>> /\ (InCall(c).op = "malloc" => ptrs[k][c] # NULL)
  BY <1>2, <1>3, <1>5 DEF Own
<1>8. k \in DOMAIN program /\ Members(k) \subseteq Worker /\ Members(k) \subseteq Rank
  BY <1>3, CallFacts
<1>9. \A t \in Members(k) : ptrs[k][t] \in Address \cup {NULL}
  BY <1>8 DEF Types
<1>10. Mapped(c) \subseteq Worker \X Address
  BY <1>6, <1>8, <1>9
<1>11. Own(c) \subseteq Worker \X (Address \cup {NULL})
  BY <1>2, <1>3, <1>7, <1>8, <1>9
<1>12. QED
  BY <1>2, <1>3, <1>4, <1>6, <1>7, <1>10, <1>11 DEF k

(* Every step keeps the types; a progress rank answers a worker only when  *)
(* no answer is on its way.                                                *)
LEMMA TypesStep ==
  ASSUME CallsSound, RanksSound, SpeakersSound, Types, Places, Channels, [Next]_vars
  PROVE  Types'
<1>1. layout' = layout /\ program' = program /\ master' = master
  BY JobStays
<1>2. Master' = Master /\ Worker' = Worker /\ Message' = Message /\ Worker \subseteq Rank
  BY <1>1, SameJob DEF Worker
<1>3. ASSUME NEW r \in Rank, pc[r] # "user" PROVE step[r] \in DOMAIN program
  BY <1>3 DEF Places, PlaceAt
<1>4. ASSUME NEW c \in Worker, CallCollective(c) PROVE Types'
  <2>1. ASSUME NEW m \in Rank
        PROVE  (IF m \in fence_array[c] THEN Append(req[c][m], Header("FENCE", {})) ELSE req[c][m])
                 \in Seq(Message)
    <3>1. Header("FENCE", {}) \in Message
      BY SMT DEF Header, Message
    <3>2. req[c][m] \in Seq(Message)
      BY <1>2 DEF Types
    <3>3. QED
      BY <3>1, <3>2, AppendProperties
  <2>2. req' \in [Rank -> [Rank -> Seq(Message)]]
    BY <1>2, <1>4, <2>1 DEF CallCollective, Types
  <2>3. pc' \in [Rank -> Point]
    BY <1>4 DEF CallCollective, Goto, Types, Point
  <2>4. QED
    BY <1>1, <1>2, <1>4, <2>2, <2>3 DEF CallCollective, Types
<1>5. ASSUME NEW c \in Worker, FenceDone(c) PROVE Types'
  <2>1. pc' \in [Rank -> Point]
    BY <1>5 DEF FenceDone, Goto, Types, Point
  <2>2. rep' \in [Rank -> [Rank -> 0 .. 1]] /\ fence_array' \in [Rank -> SUBSET Master]
    BY <1>2, <1>5 DEF FenceDone, Types
  <2>3. QED
    BY <1>1, <1>2, <1>5, <2>1, <2>2 DEF FenceDone, Types
<1>6. ASSUME NEW c \in Worker, comex_malloc_local(c) PROVE Types'
  <2>1. PICK a \in Address \cup {NULL} :
          /\ ptrs' = [ptrs EXCEPT ![step[c]][c] = a]
          /\ reg_cache' = IF a = NULL THEN reg_cache
                          ELSE [reg_cache EXCEPT ![c] = @ \cup {<<c, a>>}]
    BY <1>6 DEF comex_malloc_local
  <2>2. pc' \in [Rank -> Point]
    BY <1>6 DEF comex_malloc_local, Goto, Types, Point
  <2>3. ptrs' \in [DOMAIN program -> [Rank -> Address \cup {NULL}]]
    BY <1>2, <2>1 DEF Types
  <2>4. reg_cache' \in [Rank -> SUBSET (Worker \X Address)]
    BY <1>2, <2>1 DEF Types
  <2>5. QED
    BY <1>1, <1>2, <1>6, <2>2, <2>3, <2>4 DEF comex_malloc_local, Types
<1>7. ASSUME NEW c \in Worker, NEW op \in {"MALLOC", "FREE"}, NEW next \in Point,
             step[c] \in DOMAIN program, Notify(c, op, next)
      PROVE  pc' \in [Rank -> Point] /\ req' \in [Rank -> [Rank -> Seq(Message)]]
  <2>1. pc' \in [Rank -> Point]
    BY <1>7 DEF Notify, Goto, Types, Point
  <2>2. Mapped(c) \cup Own(c) \subseteq Worker \X (Address \cup {NULL})
    BY <1>2, <1>7, SegmentFacts
  <2>3. Header(op, Mapped(c) \cup Own(c)) \in Message
    BY <2>2 DEF Header, Message
  <2>4. master[c] \in Rank /\ req[c][master[c]] \in Seq(Message)
    BY <1>2 DEF RanksSound, Types
  <2>5. Append(req[c][master[c]], Header(op, Mapped(c) \cup Own(c))) \in Seq(Message)
    BY <2>3, <2>4, AppendProperties
  <2>6. req' \in [Rank -> [Rank -> Seq(Message)]]
    <3>1. CASE Notifier(c) = c
      <4>1. req' = [req EXCEPT ![c][master[c]] = Append(@, Header(op, Mapped(c) \cup Own(c)))]
        BY <1>7, <3>1 DEF Notify, nb_send_header
      <4>2. QED
        BY <1>2, <2>4, <2>5, <4>1 DEF Types
    <3>2. CASE Notifier(c) # c
      BY <1>7, <3>2 DEF Notify, Types
    <3>3. QED
      BY <3>1, <3>2
  <2>7. QED
    BY <2>1, <2>6
<1>8. ASSUME NEW c \in Worker, Register(c) PROVE Types'
  <2>1. step[c] \in DOMAIN program
    BY <1>2, <1>3, <1>8 DEF Register, In
  <2>2. pc' \in [Rank -> Point] /\ req' \in [Rank -> [Rank -> Seq(Message)]]
    BY <1>7, <1>8, <2>1 DEF Register, Point
  <2>3. Mapped(c) \subseteq Worker \X Address
    BY <1>2, <2>1, SegmentFacts
  <2>4. reg_cache' \in [Rank -> SUBSET (Worker \X Address)]
    BY <1>2, <1>8, <2>3 DEF Register, Types
  <2>5. QED
    BY <1>1, <1>2, <1>8, <2>2, <2>4 DEF Register, Types
<1>9. ASSUME NEW c \in Worker, Unregister(c) PROVE Types'
  <2>1. step[c] \in DOMAIN program
    BY <1>2, <1>3, <1>9 DEF Unregister, In
  <2>2. pc' \in [Rank -> Point] /\ req' \in [Rank -> [Rank -> Seq(Message)]]
    BY <1>7, <1>9, <2>1 DEF Unregister, Point
  <2>3. reg_cache' \in [Rank -> SUBSET (Worker \X Address)]
    BY <1>2, <1>9 DEF Unregister, Types
  <2>4. QED
    BY <1>1, <1>2, <1>9, <2>2, <2>3 DEF Unregister, Types
<1>10. ASSUME NEW c \in Worker, Acknowledged(c) PROVE Types'
  <2>1. pc' \in [Rank -> Point]
    BY <1>10 DEF Acknowledged, Goto, Types, Point
  <2>2. rep' \in [Rank -> [Rank -> 0 .. 1]]
    BY <1>2, <1>10 DEF Acknowledged, Types, RanksSound
  <2>3. QED
    BY <1>1, <1>2, <1>10, <2>1, <2>2 DEF Acknowledged, Types
<1>11. ASSUME NEW c \in Worker, comex_free_local(c) PROVE Types'
  <2>1. pc' \in [Rank -> Point]
    BY <1>11 DEF comex_free_local, Goto, Types, Point
  <2>2. reg_cache' \in [Rank -> SUBSET (Worker \X Address)]
    BY <1>2, <1>11 DEF comex_free_local, Types
  <2>3. QED
    BY <1>1, <1>2, <1>11, <2>1, <2>2 DEF comex_free_local, Types
<1>12. ASSUME NEW c \in Worker, NEW t \in Worker, NEW k \in DOMAIN program, nb_put(c, k, t)
       PROVE  Types'
  <2>1. master[t] \in Master /\ master[t] \in Rank
    BY <1>2 DEF RanksSound, Master
  <2>2. ptrs[k][t] \in Address \cup {NULL}
    BY <1>2 DEF Types
  <2>3. Header("PUT", {<<t, ptrs[k][t]>>}) \in Message /\ req[c][master[t]] \in Seq(Message)
    <3>1. {<<t, ptrs[k][t]>>} \subseteq Worker \X (Address \cup {NULL})
      BY <2>2
    <3>2. Header("PUT", {<<t, ptrs[k][t]>>}) \in Message
      BY <3>1 DEF Header, Message
    <3>3. QED
      BY <1>2, <2>1, <3>2 DEF Types
  <2>4. Append(req[c][master[t]], Header("PUT", {<<t, ptrs[k][t]>>})) \in Seq(Message)
    BY <2>3, AppendProperties
  <2>5. req' \in [Rank -> [Rank -> Seq(Message)]]
    BY <1>2, <1>12, <2>1, <2>4 DEF nb_put, nb_send_header, Types
  <2>6. fence_array' \in [Rank -> SUBSET Master] /\ puts' \in Nat
    BY <1>2, <1>12, <2>1 DEF nb_put, Types
  <2>7. QED
    BY <1>1, <1>2, <1>12, <2>5, <2>6 DEF nb_put, Types
<1>13. ASSUME NEW k \in DOMAIN program, FirstBarrier(k) \/ MPI_Allgather(k) \/ LastBarrier(k)
       PROVE  Types'
  <2>1. pc' \in [Rank -> Point]
    BY <1>13 DEF FirstBarrier, MPI_Allgather, LastBarrier, Leave, Types, Point
  <2>2. step' \in [Rank -> 1 .. (Len(program) + 1)]
    <3>1. k \in Nat /\ k > 0 /\ k + 1 <= Len(program) + 1 /\ Len(program) \in Nat
      BY CallFacts
    <3>2. \A c \in Rank : NextCall(c, k + 1) \in (k + 1) .. (Len(program) + 1)
      BY <3>1, NextSound
    <3>3. \A c \in Rank : NextCall(c, k + 1) \in 1 .. (Len(program) + 1)
      BY <3>1, <3>2
    <3>4. QED
      BY SMTT(30), <1>13, <3>3 DEF FirstBarrier, MPI_Allgather, LastBarrier, Types
  <2>3. QED
    BY <1>1, <1>2, <1>13, <2>1, <2>2 DEF FirstBarrier, MPI_Allgather, LastBarrier, Types
<1>14. ASSUME NEW m \in Master, NEW c \in Worker, progress_server(m, c) PROVE Types'
  <2>1. m \in Rank /\ req[c][m] # << >>
    BY <1>14 DEF Master, progress_server, put_handler, fence_handler, malloc_handler, free_handler,
                 Pending
  <2>2. /\ Head(req[c][m]) \in Message /\ Tail(req[c][m]) \in Seq(Message)
        /\ rep[c][m] = 0
    BY <2>1, HeadFacts
  <2>3. Head(req[c][m]).entries \subseteq Worker \X (Address \cup {NULL})
    BY <2>2 DEF Message
  <2>4. Entries(m, c) \subseteq Worker \X Address
    BY <2>3 DEF Entries
  <2>5. req' \in [Rank -> [Rank -> Seq(Message)]]
    <3>1. req' = [req EXCEPT ![c][m] = Tail(@)]
      BY <1>14 DEF progress_server, put_handler, fence_handler, malloc_handler, free_handler, TakeFrom
    <3>2. QED
      BY <1>2, <2>1, <2>2, <3>1 DEF Types
  <2>6. rep' \in [Rank -> [Rank -> 0 .. 1]]
    <3>1. rep' = rep \/ rep' = [rep EXCEPT ![c][m] = @ + 1]
      BY <1>14 DEF progress_server, put_handler, fence_handler, malloc_handler, free_handler,
                   server_send
    <3>2. [rep EXCEPT ![c][m] = @ + 1] \in [Rank -> [Rank -> 0 .. 1]]
      BY <1>2, <2>1, <2>2 DEF Types
    <3>3. QED
      BY <3>1, <3>2 DEF Types
  <2>7. reg_cache' \in [Rank -> SUBSET (Worker \X Address)]
    BY SMTT(30), <1>2, <1>14, <2>1, <2>4 DEF progress_server, put_handler, fence_handler, malloc_handler,
         free_handler, Types
  <2>8. QED
    BY <1>1, <1>2, <1>14, <2>5, <2>6, <2>7 DEF progress_server, put_handler, fence_handler,
         malloc_handler, free_handler, Types
<1>15. CASE UNCHANGED vars
  BY <1>2, <1>15 DEF vars, Types
<1>16. QED
  BY <1>4, <1>5, <1>6, <1>8, <1>9, <1>10, <1>11, <1>12, <1>13, <1>14, <1>15
  DEF Next, WorkerStep, Ended

(* A worker whose call stays the same speaks through the same member.      *)
LEMMA SameCall ==
  ASSUME layout' = layout, program' = program, NEW c, step'[c] = step[c]
  PROVE  InCall(c)' = InCall(c) /\ Notifier(c)' = Notifier(c)
<1>1. InCall(c)' = InCall(c)
  BY DEF InCall
<1>2. QED
  BY <1>1 DEF Notifier

(* A worker that keeps its call fits it where it goes.                     *)
LEMMA PlaceKept ==
  ASSUME CallsSound, layout' = layout, program' = program, master' = master, NEW c \in Rank,
         PlaceAt(c), step'[c] = step[c],
         \/ pc'[c] = pc[c] /\ fence_array'[c] = fence_array[c]
         \/ pc'[c] = "user" /\ pc[c] = "user"
         \/ /\ step[c] \in DOMAIN program
            /\ pc'[c] = "allocate" => InCall(c).op = "malloc"
            /\ pc'[c] = "local" => InCall(c).op = "free"
            /\ pc'[c] = "ack" => Notifier(c) = c
            /\ fence_array'[c] = {} \/ (pc'[c] = "fence" /\ pc[c] = "user")
  PROVE  PlaceAt(c)'
<1>1. InCall(c)' = InCall(c) /\ Notifier(c)' = Notifier(c)
  BY SameCall
<1>2. Members(step[c])' = Members(step[c])
  BY DEF Members
<1>3. QED
  BY <1>1, <1>2 DEF PlaceAt, Members

(* Where a worker is fits its call after every step.                       *)
LEMMA PlacesStep ==
  ASSUME CallsSound, RanksSound, SpeakersSound, Types, Places, Channels, [Next]_vars
  PROVE  Places'
<1>1. layout' = layout /\ program' = program /\ master' = master
  BY JobStays
<1>2. Worker \subseteq Rank
  BY DEF Worker
<1>3. ASSUME NEW r \in Rank
      PROVE  PlaceAt(r) /\ (pc[r] # "user" => step[r] \in DOMAIN program)
  BY DEF Places, PlaceAt
<1>4. SUFFICES ASSUME NEW r \in Rank PROVE PlaceAt(r)'
  BY DEF Places
<1>5. ASSUME step'[r] = step[r], pc'[r] = pc[r], fence_array'[r] = fence_array[r]
      PROVE  PlaceAt(r)'
  BY <1>1, <1>3, <1>5, PlaceKept
<1>6. ASSUME NEW c \in Worker, CallCollective(c) PROVE PlaceAt(r)'
  <2>1. /\ pc[c] = "user" /\ step[c] \in DOMAIN program /\ pc' = [pc EXCEPT ![c] = "fence"]
        /\ step' = step /\ fence_array' = fence_array
    BY <1>6 DEF CallCollective, Goto
  <2>2. CASE r = c
    BY <1>1, <1>2, <1>3, <2>1, <2>2, PlaceKept DEF Types
  <2>3. CASE r # c
    BY <1>2, <1>5, <2>1, <2>3 DEF Types
  <2>4. QED
    BY <2>2, <2>3
<1>7. ASSUME NEW c \in Worker, FenceDone(c) PROVE PlaceAt(r)'
  <2>1. /\ pc[c] = "fence" /\ pc' = [pc EXCEPT ![c] = "barrier"]
        /\ step' = step /\ fence_array' = [fence_array EXCEPT ![c] = {}]
    BY <1>7 DEF FenceDone, Goto
  <2>2. CASE r = c
    BY <1>1, <1>2, <1>3, <2>1, <2>2, PlaceKept DEF Types
  <2>3. CASE r # c
    BY <1>2, <1>5, <2>1, <2>3 DEF Types
  <2>4. QED
    BY <2>2, <2>3
<1>8. ASSUME NEW c \in Worker, NEW p \in {"gather", "ack", "end", "local"},
             pc[c] \notin {"user", "fence"}, pc' = [pc EXCEPT ![c] = p],
             p = "local" => InCall(c).op = "free", p = "ack" => Notifier(c) = c,
             step' = step, fence_array' = fence_array
      PROVE  PlaceAt(r)'
  <2>1. CASE r = c
    <3>1. fence_array[c] = {} /\ step[c] \in DOMAIN program
      BY <1>2, <1>3, <1>8 DEF PlaceAt
    <3>2. QED
      BY <1>1, <1>2, <1>3, <1>8, <2>1, <3>1, PlaceKept DEF Types
  <2>2. CASE r # c
    BY <1>2, <1>5, <1>8, <2>2 DEF Types
  <2>3. QED
    BY <2>1, <2>2
<1>9. ASSUME NEW c \in Worker, comex_malloc_local(c) PROVE PlaceAt(r)'
  BY <1>8, <1>9 DEF comex_malloc_local, In, Goto
<1>10. ASSUME NEW c \in Worker, Register(c) PROVE PlaceAt(r)'
  BY <1>8, <1>10 DEF Register, In, Notify, Goto
<1>11. ASSUME NEW c \in Worker, Unregister(c) PROVE PlaceAt(r)'
  BY <1>8, <1>11 DEF Unregister, In, Notify, Goto
<1>12. ASSUME NEW c \in Worker, Acknowledged(c) PROVE PlaceAt(r)'
  <2>1. step[c] \in DOMAIN program
    BY <1>2, <1>3, <1>12 DEF Acknowledged
  <2>2. InCall(c).op \in {"malloc", "free"}
    BY <2>1, CallFacts DEF InCall
  <2>3. pc[c] = "ack" /\ step' = step /\ fence_array' = fence_array
    BY <1>12 DEF Acknowledged
  <2>4. CASE InCall(c).op = "malloc"
    BY <1>8, <1>12, <2>3, <2>4 DEF Acknowledged, Goto
  <2>5. CASE InCall(c).op = "free"
    BY <1>8, <1>12, <2>3, <2>5 DEF Acknowledged, Goto
  <2>6. QED
    BY <2>2, <2>4, <2>5
<1>13. ASSUME NEW c \in Worker, comex_free_local(c) PROVE PlaceAt(r)'
  BY <1>8, <1>13 DEF comex_free_local, Goto
<1>14. ASSUME NEW c \in Worker, NEW t \in Worker, NEW k \in DOMAIN program, nb_put(c, k, t)
       PROVE  PlaceAt(r)'
  <2>1. /\ pc[c] = "user" /\ pc' = pc /\ step' = step
        /\ fence_array' = [fence_array EXCEPT ![c] = @ \cup {master[t]}]
    BY <1>14 DEF nb_put
  <2>2. CASE r = c
    BY <1>1, <1>3, <2>1, <2>2, PlaceKept
  <2>3. CASE r # c
    BY <1>2, <1>5, <2>1, <2>3 DEF Types
  <2>4. QED
    BY <2>2, <2>3
<1>15. ASSUME NEW k \in DOMAIN program, NEW p \in Point, NEW q \in {"allocate", "gather", "update"},
              p \notin {"user", "fence"}, Leave(k, p, q), q = "allocate" => program[k].op = "malloc",
              step' = step, fence_array' = fence_array
       PROVE  PlaceAt(r)'
  <2>1. CASE r \in Members(k)
    <3>1. step[r] = k /\ pc[r] = p /\ pc'[r] = q
      BY <1>15, <2>1 DEF Leave, Members
    <3>2. fence_array[r] = {} /\ InCall(r) = program[k]
      BY <1>3, <1>15, <3>1 DEF PlaceAt, InCall
    <3>3. QED
      BY <1>1, <1>3, <1>15, <3>1, <3>2, PlaceKept
  <2>2. CASE r \notin Members(k)
    <3>1. pc'[r] = pc[r]
      BY <1>15, <2>2 DEF Leave, Members
    <3>2. QED
      BY <1>5, <1>15, <3>1
  <2>3. QED
    BY <2>1, <2>2
<1>16. ASSUME NEW k \in DOMAIN program, FirstBarrier(k) \/ MPI_Allgather(k) PROVE PlaceAt(r)'
  <2>1. CASE FirstBarrier(k)
    BY <1>15, <2>1 DEF FirstBarrier, Point
  <2>2. CASE MPI_Allgather(k)
    BY <1>15, <2>2 DEF MPI_Allgather, Point
  <2>3. QED
    BY <1>16, <2>1, <2>2
<1>17. ASSUME NEW k \in DOMAIN program, LastBarrier(k) PROVE PlaceAt(r)'
  <2>1. CASE r \in Members(k)
    <3>1. k \in Nat /\ k + 1 > 0 /\ k + 1 <= Len(program) + 1
      BY CallFacts
    <3>2. pc'[r] = "user" /\ step'[r] = NextCall(r, k + 1)
      BY <1>17, <2>1 DEF LastBarrier, Leave, Members
    <3>3. NextCall(r, k + 1) \in DOMAIN program => r \in Members(NextCall(r, k + 1))
      BY <3>1, NextSound
    <3>4. QED
      BY <1>1, <3>2, <3>3 DEF PlaceAt, Members
  <2>2. CASE r \notin Members(k)
    <3>1. pc'[r] = pc[r] /\ step'[r] = step[r] /\ fence_array' = fence_array
      BY <1>17, <2>2 DEF LastBarrier, Leave, Members
    <3>2. QED
      BY <1>5, <3>1
  <2>3. QED
    BY <2>1, <2>2
<1>18. ASSUME NEW m \in Master, NEW c \in Worker, progress_server(m, c) PROVE PlaceAt(r)'
  <2>1. pc' = pc /\ step' = step /\ fence_array' = fence_array
    BY <1>18 DEF progress_server, put_handler, fence_handler, malloc_handler, free_handler
  <2>2. QED
    BY <1>5, <2>1
<1>19. CASE UNCHANGED vars
  BY <1>5, <1>19 DEF vars
<1>20. QED
  BY <1>6, <1>7, <1>9, <1>10, <1>11, <1>12, <1>13, <1>14, <1>16, <1>17, <1>18, <1>19
  DEF Next, WorkerStep, Ended

(* The members of a call are together after every step.                    *)
LEMMA MarchesStep ==
  ASSUME CallsSound, Types, Places, Marches, [Next]_vars
  PROVE  Marches'
<1>1. layout' = layout /\ program' = program /\ master' = master
  BY JobStays
<1>2. Worker \subseteq Rank
  BY DEF Worker
<1>3. SUFFICES ASSUME NEW k \in DOMAIN program, NEW c \in Members(k), NEW d \in Members(k)
               PROVE  /\ step'[c] > k => step'[d] > k
                      /\ step'[c] = k /\ pc'[c] \in Within => step'[d] = k /\ pc'[d] \in Within
                      /\ step'[c] = k /\ pc'[c] \in Beyond => step'[d] = k /\ pc'[d] \in Beyond
  BY <1>1 DEF Marches, Together, Members
<1>4. /\ k \in Nat /\ c \in Rank /\ d \in Rank
      /\ step[c] \in Nat /\ step[d] \in Nat
  BY CallFacts DEF Types
<1>5. /\ step[c] > k => step[d] > k
      /\ step[d] > k => step[c] > k
      /\ step[c] = k /\ pc[c] \in Within => step[d] = k /\ pc[d] \in Within
      /\ step[c] = k /\ pc[c] \in Beyond => step[d] = k /\ pc[d] \in Beyond
  BY DEF Marches, Together
<1> DEFINE Goal == /\ step'[c] > k => step'[d] > k
                   /\ step'[c] = k /\ pc'[c] \in Within => step'[d] = k /\ pc'[d] \in Within
                   /\ step'[c] = k /\ pc'[c] \in Beyond => step'[d] = k /\ pc'[d] \in Beyond
<1>6. ASSUME step' = step,
             \A r \in Rank : /\ pc'[r] \in Within <=> pc[r] \in Within
                             /\ pc'[r] \in Beyond <=> pc[r] \in Beyond
      PROVE  Goal
  BY <1>4, <1>5, <1>6
<1>7. ASSUME NEW b \in Worker, NEW p \in Point, pc' = [pc EXCEPT ![b] = p], step' = step,
             p \in Within <=> pc[b] \in Within, p \in Beyond <=> pc[b] \in Beyond
      PROVE  Goal
  <2>1. \A r \in Rank : pc'[r] = IF r = b THEN p ELSE pc[r]
    BY <1>7 DEF Types
  <2>2. QED
    BY <1>6, <1>7, <2>1
<1> HIDE DEF Goal
<1>8. ASSUME NEW b \in Worker, WorkerStep(b) PROVE Goal
  <2>1. CASE CallCollective(b)
    BY <1>7, <2>1 DEF CallCollective, Goto, Point, Within, Beyond
  <2>2. CASE FenceDone(b)
    BY <1>7, <2>2 DEF FenceDone, Goto, Point, Within, Beyond
  <2>3. CASE comex_malloc_local(b)
    BY <1>7, <2>3 DEF comex_malloc_local, In, Goto, Point, Within, Beyond
  <2>4. CASE Register(b)
    BY <1>7, <2>4 DEF Register, In, Notify, Goto, Point, Within, Beyond
  <2>5. CASE Unregister(b)
    BY <1>7, <2>5 DEF Unregister, In, Notify, Goto, Point, Within, Beyond
  <2>6. CASE Acknowledged(b)
    BY <1>7, <2>6 DEF Acknowledged, Goto, Point, Within, Beyond
  <2>7. CASE comex_free_local(b)
    BY <1>7, <2>7 DEF comex_free_local, Goto, Point, Within, Beyond
  <2>8. QED
    BY <1>8, <2>1, <2>2, <2>3, <2>4, <2>5, <2>6, <2>7 DEF WorkerStep
<1>9. ASSUME NEW j \in DOMAIN program, FirstBarrier(j) \/ MPI_Allgather(j)
      PROVE  Goal
  <2>1. PICK p \in Point, q \in Point :
          /\ Leave(j, p, q) /\ step' = step
          /\ q \in Within \/ q \in Beyond
          /\ q \in Within => p = "barrier"
          /\ q \in Beyond => p = "gather"
    <3>1. CASE FirstBarrier(j)
      BY <3>1 DEF FirstBarrier, Point, Within, Beyond
    <3>2. CASE MPI_Allgather(j)
      BY <3>2 DEF MPI_Allgather, Point, Within, Beyond
    <3>3. QED
      BY <1>9, <3>1, <3>2
  <2>2. \A r \in Rank : IF r \in Members(j) THEN step[r] = j /\ pc[r] = p /\ pc'[r] = q
                                            ELSE pc'[r] = pc[r]
    BY <2>1, CallFacts DEF Leave, Members
  <2>3. CASE j = k
    BY <1>3, <1>4, <2>1, <2>2, <2>3 DEF Goal, Within, Beyond
  <2>4. CASE j # k
    BY <1>3, <1>4, <1>5, <2>1, <2>2, <2>4 DEF Goal, Within, Beyond
  <2>5. QED
    BY <2>3, <2>4
<1>10. ASSUME NEW j \in DOMAIN program, LastBarrier(j) PROVE Goal
  <2>1. j \in Nat /\ j + 1 > 0 /\ j + 1 <= Len(program) + 1 /\ Len(program) \in Nat
    BY CallFacts
  <2>2. \A r \in Rank : IF r \in Members(j) THEN /\ step[r] = j /\ pc[r] = "end" /\ pc'[r] = "user"
                                                 /\ step'[r] = NextCall(r, j + 1)
                                            ELSE pc'[r] = pc[r] /\ step'[r] = step[r]
    BY <1>10, CallFacts DEF LastBarrier, Leave, Members
  <2>3. \A r \in {c, d} : /\ NextCall(r, j + 1) \in Nat /\ NextCall(r, j + 1) > j
                          /\ j < k => NextCall(r, j + 1) <= k
    <3>1. ASSUME NEW r \in {c, d} PROVE r \in Rank /\ r \in Members(k) /\ j + 1 \in Nat
      BY <1>4, <2>1
    <3>2. ASSUME NEW r \in {c, d}
          PROVE  /\ NextCall(r, j + 1) \in (j + 1) .. (Len(program) + 1)
                 /\ \A i \in DOMAIN program : j + 1 <= i /\ r \in Members(i) => NextCall(r, j + 1) <= i
      BY <2>1, <3>1, NextSound
    <3>3. QED
      BY <1>4, <2>1, <3>1, <3>2
  <2>4. CASE j = k
    BY <1>4, <2>2, <2>3, <2>4 DEF Goal, Within, Beyond
  <2>5. CASE j # k
    <3>1. step'[c] > k => step'[d] > k
      BY <1>4, <1>5, <2>1, <2>2, <2>3, <2>5
    <3>2. step'[c] = k /\ pc'[c] \in Within => step'[d] = k /\ pc'[d] \in Within
      BY <1>4, <1>5, <2>1, <2>2, <2>5 DEF Within
    <3>3. step'[c] = k /\ pc'[c] \in Beyond => step'[d] = k /\ pc'[d] \in Beyond
      BY <1>4, <1>5, <2>1, <2>2, <2>5 DEF Within, Beyond
    <3>4. QED
      BY <3>1, <3>2, <3>3 DEF Goal
  <2>6. QED
    BY <2>4, <2>5
<1>11. ASSUME pc' = pc, step' = step PROVE Goal
  BY <1>6, <1>11
<1>12. ASSUME NEW b \in Worker, NEW t \in Worker, NEW j \in DOMAIN program, nb_put(b, j, t)
       PROVE  Goal
  BY <1>11, <1>12 DEF nb_put
<1>13. ASSUME NEW m \in Master, NEW b \in Worker, progress_server(m, b) PROVE Goal
  BY <1>11, <1>13 DEF progress_server, put_handler, fence_handler, malloc_handler, free_handler
<1>14. ASSUME UNCHANGED vars PROVE Goal
  BY <1>11, <1>14 DEF vars
<1>15. QED
  <2>1. Goal
    BY <1>8, <1>9, <1>10, <1>12, <1>13, <1>14 DEF Next, Ended
  <2>2. QED
    BY <2>1 DEF Goal

-----------------------------------------------------------------------------
(* What is in flight.                                                      *)

(* What can be in flight where a worker is.                                *)
LEMMA FlightFacts ==
  ASSUME Types, Channels, NEW c \in Worker, NEW m \in Rank
  PROVE  /\ req[c][m] \in Seq(Message) /\ Len(req[c][m]) \in Nat /\ rep[c][m] \in 0 .. 1
         /\ \A i \in 1 .. Len(req[c][m]) :
              /\ RequestAt(c, m, req[c][m][i])
              /\ req[c][m][i].op # "PUT" => i = Len(req[c][m]) /\ rep[c][m] = 0
         /\ rep[c][m] > 0 => Asks(c, m) /\ req[c][m] = << >>
         /\ pc[c] \notin {"user", "fence", "ack"} => req[c][m] = << >> /\ rep[c][m] = 0
         /\ pc[c] = "user" => /\ rep[c][m] = 0
                              /\ \A i \in 1 .. Len(req[c][m]) : req[c][m][i].op = "PUT"
         /\ pc[c] = "fence" /\ m \notin fence_array[c] => req[c][m] = << >> /\ rep[c][m] = 0
         /\ pc[c] = "ack" /\ m # master[c] => req[c][m] = << >> /\ rep[c][m] = 0
<1> DEFINE q == req[c][m]
<1>1. c \in Rank /\ q \in Seq(Message) /\ rep[c][m] \in 0 .. 1
  BY DEF Types, Worker
<1>2. Len(q) \in Nat /\ (q # << >> => Len(q) > 0)
  BY <1>1, EmptySeq
<1>3. /\ \A i \in 1 .. Len(q) : /\ RequestAt(c, m, q[i])
                                /\ q[i].op # "PUT" => i = Len(q) /\ rep[c][m] = 0
      /\ rep[c][m] > 0 => Asks(c, m) /\ q = << >>
  BY Zenon DEF Channels, ChannelAt
<1> HIDE DEF q
<1>4. ASSUME rep[c][m] = 0 \/ ~Asks(c, m) PROVE rep[c][m] = 0
  BY <1>1, <1>3, <1>4
<1>5. ASSUME \A h \in Message : ~RequestAt(c, m, h) PROVE q = << >>
  <2>1. SUFFICES ASSUME q # << >> PROVE FALSE
    OBVIOUS
  <2>2. 1 \in 1 .. Len(q) /\ q[1] \in Message
    BY <1>1, <1>2, <2>1
  <2>3. QED
    BY <1>3, <1>5, <2>2
<1>6. pc[c] \notin {"user", "fence", "ack"} => q = << >> /\ rep[c][m] = 0
  BY <1>4, <1>5 DEF RequestAt, Asks
<1>7. pc[c] = "user" => /\ rep[c][m] = 0
                        /\ \A i \in 1 .. Len(q) : q[i].op = "PUT"
  BY <1>3, <1>4 DEF RequestAt, Asks
<1>8. pc[c] = "fence" /\ m \notin fence_array[c] => q = << >> /\ rep[c][m] = 0
  BY <1>4, <1>5 DEF RequestAt, Asks
<1>9. pc[c] = "ack" /\ m # master[c] => q = << >> /\ rep[c][m] = 0
  BY <1>4, <1>5 DEF RequestAt, Asks
<1>10. QED
  BY <1>1, <1>2, <1>3, <1>6, <1>7, <1>8, <1>9 DEF q

(* A request stays right while its worker stays where it is, and the       *)
(* segments it could know of stay the same.                                *)
LEMMA RequestKept ==
  ASSUME CallsSound, SpeakersSound, Types, Places, NEW c \in Worker,
         layout' = layout, program' = program, master' = master,
         step'[c] = step[c], pc'[c] = pc[c], fence_array'[c] = fence_array[c],
         \A k \in Mallocs : \A t \in Members(k) :
           c \in Members(k) /\ (step[c] > k \/ (step[c] = k /\ pc[c] \in Beyond)) =>
             ptrs'[k][t] = ptrs[k][t]
  PROVE  \A m \in Rank, h \in Message : RequestAt(c, m, h) => RequestAt(c, m, h)'
<1>1. c \in Rank /\ step[c] \in Nat
  BY DEF Worker, Types
<1>2. ASSUME NEW m \in Rank, NEW E, PutSound(c, m, E) PROVE PutSound(c, m, E)'
  <2>1. PICK k \in Mallocs : \E t \in Members(k) :
          /\ c \in Members(k) /\ step[c] > k /\ \A j \in Frees(k) : step[c] <= j
          /\ master[t] = m /\ ptrs[k][t] # NULL /\ E = {<<t, ptrs[k][t]>>}
    BY <1>2 DEF PutSound
  <2>2. PICK t \in Members(k) :
          /\ c \in Members(k) /\ step[c] > k /\ \A j \in Frees(k) : step[c] <= j
          /\ master[t] = m /\ ptrs[k][t] # NULL /\ E = {<<t, ptrs[k][t]>>}
    BY <2>1
  <2>3. ptrs'[k][t] = ptrs[k][t]
    BY <2>2
  <2>4. QED
    BY <2>2, <2>3, SameJob DEF PutSound
<1>3. ASSUME pc[c] = "ack"
      PROVE  Mapped(c)' = Mapped(c) /\ Own(c)' = Own(c) /\ InCall(c)' = InCall(c)
  <2>1. step[c] \in DOMAIN program
    BY <1>1, <1>3 DEF Places, PlaceAt
  <2>2. InCall(c)' = InCall(c) /\ Notifier(c)' = Notifier(c)
    BY SameCall
  <2>3. About(c)' = About(c)
    BY <2>2 DEF About
  <2>4. /\ About(c) \in Mallocs /\ c \in Members(About(c)) /\ Members(About(c)) = Members(step[c])
        /\ InCall(c).op = "malloc" => About(c) = step[c]
        /\ InCall(c).op # "malloc" => step[c] \in Frees(About(c))
    BY <1>1, <2>1, SegmentFacts
  <2>5. step[c] > About(c) \/ (step[c] = About(c) /\ pc[c] \in Beyond)
    BY <1>3, <2>4, CallFacts DEF Beyond
  <2>6. \A t \in Members(step[c]) : ptrs'[About(c)][t] = ptrs[About(c)][t]
    BY <2>4, <2>5
  <2>7. InCall(c).group = Members(step[c])
    BY DEF InCall, Members
  <2>8. Segment(c)' = Segment(c)
    <3>1. Segment(c) = [t \in Members(step[c]) |-> ptrs[About(c)][t]]
      BY <2>7, Zenon DEF Segment, About
    <3>2. Segment(c)' = [t \in Members(step[c]) |-> ptrs'[About(c)][t]]
      BY <2>2, <2>3, <2>7, Zenon DEF Segment, About
    <3>3. QED
      BY <2>6, <3>1, <3>2
  <2>9. QED
    BY <2>2, <2>8 DEF Mapped, Own
<1>4. QED
  BY <1>2, <1>3 DEF RequestAt, Header

(* With one more request at the end, the puts before it stay.              *)
LEMMA Appended ==
  ASSUME NEW q \in Seq(Message), NEW h \in Message, \A i \in 1 .. Len(q) : q[i].op = "PUT"
  PROVE  /\ Append(q, h) # << >> /\ Len(Append(q, h)) = Len(q) + 1 /\ Len(q) \in Nat
         /\ \A i \in 1 .. Len(Append(q, h)) :
              \/ i \in 1 .. Len(q) /\ Append(q, h)[i] = q[i] /\ q[i].op = "PUT"
              \/ i = Len(Append(q, h)) /\ Append(q, h)[i] = h
<1>1. /\ Append(q, h) \in Seq(Message) /\ Len(Append(q, h)) = Len(q) + 1 /\ Len(q) \in Nat
      /\ \A i \in 1 .. Len(q) : Append(q, h)[i] = q[i]
      /\ Append(q, h)[Len(q) + 1] = h
  BY AppendProperties, LenProperties
<1>2. \A i \in 1 .. (Len(q) + 1) : i \in 1 .. Len(q) \/ i = Len(q) + 1
  BY <1>1
<1>3. Append(q, h) # << >>
  <2>1. Len(Append(q, h)) # 0
    BY <1>1
  <2>2. Len(<< >>) = 0
    OBVIOUS
  <2>3. QED
    BY <2>1, <2>2, Zenon
<1> DEFINE a == Append(q, h)
<1> HIDE DEF a
<1>4. /\ a # << >> /\ Len(a) = Len(q) + 1 /\ Len(q) \in Nat
      /\ \A i \in 1 .. Len(q) : a[i] = q[i]
      /\ a[Len(q) + 1] = h
  BY <1>1, <1>3 DEF a
<1>5. ASSUME NEW i \in 1 .. Len(a)
      PROVE  \/ i \in 1 .. Len(q) /\ a[i] = q[i] /\ q[i].op = "PUT"
             \/ i = Len(a) /\ a[i] = h
  <2>1. i \in 1 .. Len(q) \/ i = Len(q) + 1
    BY <1>2, <1>4, Zenon
  <2>2. CASE i \in 1 .. Len(q)
    BY <1>4, <2>2
  <2>3. CASE i = Len(q) + 1
    BY <1>4, <2>3
  <2>4. QED
    BY <2>1, <2>2, <2>3
<1>6. QED
  BY <1>4, <1>5 DEF a

(* Every step keeps what is in flight right.                               *)
LEMMA ChannelsStep ==
  ASSUME CallsSound, RanksSound, SpeakersSound, Types, Places, Marches, Channels, [Next]_vars
  PROVE  Channels'
<1>1. layout' = layout /\ program' = program /\ master' = master /\ Worker' = Worker
  BY JobStays, SameJob
<1>2. SUFFICES ASSUME NEW c \in Worker, NEW m \in Rank PROVE ChannelAt(c, m)'
  BY <1>1 DEF Channels
<1> DEFINE q == req[c][m]
           Wanted == ChannelAt(c, m)'
<1>3. c \in Rank /\ Worker \subseteq Rank
  BY DEF Worker
<1>4. /\ q \in Seq(Message) /\ Len(q) \in Nat /\ rep[c][m] \in 0 .. 1
      /\ \A i \in 1 .. Len(q) : /\ RequestAt(c, m, q[i])
                                /\ q[i].op # "PUT" => i = Len(q) /\ rep[c][m] = 0
      /\ rep[c][m] > 0 => Asks(c, m) /\ q = << >>
      /\ pc[c] \notin {"user", "fence", "ack"} => q = << >> /\ rep[c][m] = 0
      /\ pc[c] = "user" => /\ rep[c][m] = 0
                           /\ \A i \in 1 .. Len(q) : q[i].op = "PUT"
      /\ pc[c] = "fence" /\ m \notin fence_array[c] => q = << >> /\ rep[c][m] = 0
      /\ pc[c] = "ack" /\ m # master[c] => q = << >> /\ rep[c][m] = 0
  BY FlightFacts
<1>5. ASSUME req'[c][m] = << >>, rep'[c][m] = 0 PROVE Wanted
  BY <1>5 DEF ChannelAt
<1>6. ASSUME step'[c] = step[c], pc'[c] = pc[c], fence_array'[c] = fence_array[c],
             req'[c][m] = q, rep'[c][m] = rep[c][m],
             \A k \in Mallocs : \A t \in Members(k) :
               c \in Members(k) /\ (step[c] > k \/ (step[c] = k /\ pc[c] \in Beyond)) =>
                 ptrs'[k][t] = ptrs[k][t]
      PROVE  Wanted
  <2>1. \A h \in Message : RequestAt(c, m, h) => RequestAt(c, m, h)'
    BY <1>1, <1>6, RequestKept
  <2>2. \A i \in 1 .. Len(q) : q[i] \in Message
    BY <1>4
  <2>3. Asks(c, m)' = Asks(c, m)
    BY <1>1, <1>6 DEF Asks
  <2>4. \A i \in 1 .. Len(q) : \A h \in Message : h = q[i] => RequestAt(c, m, h)'
    BY <1>4, <2>1
  <2>5. QED
    BY <1>4, <1>6, <2>3, <2>4 DEF ChannelAt
<1> HIDE DEF q, Wanted
<1>7. ASSUME ptrs' = ptrs, step'[c] = step[c], pc'[c] = pc[c], fence_array'[c] = fence_array[c],
             req'[c][m] = req[c][m], rep'[c][m] = rep[c][m]
      PROVE  Wanted
  BY <1>6, <1>7 DEF q
<1>8. ASSUME NEW b \in Worker, CallCollective(b) PROVE Wanted
  <2>1. /\ pc[b] = "user" /\ pc' = [pc EXCEPT ![b] = "fence"] /\ step' = step /\ ptrs' = ptrs
        /\ fence_array' = fence_array /\ rep' = rep
        /\ req' = [req EXCEPT ![b] = [n \in Rank |->
             IF n \in fence_array[b] THEN Append(@[n], Header("FENCE", {})) ELSE @[n]]]
    BY <1>8 DEF CallCollective, Goto
  <2>2. CASE b # c
    BY <1>3, <1>7, <2>1, <2>2 DEF Types
  <2>3. CASE b = c
    <3>1. /\ pc[c] = "user" /\ pc'[c] = "fence" /\ rep'[c][m] = 0
          /\ req'[c][m] = IF m \in fence_array[c] THEN Append(q, Header("FENCE", {})) ELSE q
      BY <1>3, <1>4, <2>1, <2>3 DEF Types, q
    <3>2. \A h \in Message : h.op = "PUT" /\ RequestAt(c, m, h) =>
            m \in fence_array[c] /\ RequestAt(c, m, h)'
      <4>1. \A E : PutSound(c, m, E) => PutSound(c, m, E)'
        BY <1>1, <2>1, SameJob DEF PutSound
      <4>2. QED
        BY <2>1, <3>1, <4>1 DEF RequestAt, Header
    <3>3. \A i \in 1 .. Len(q) : q[i] \in Message /\ q[i].op = "PUT" /\ RequestAt(c, m, q[i])
      BY <1>4, <3>1
    <3>4. CASE m \in fence_array[c]
      <4>1. Header("FENCE", {}) \in Message
        BY SMT DEF Header, Message
      <4>2. /\ Len(Append(q, Header("FENCE", {}))) = Len(q) + 1
            /\ \A i \in 1 .. Len(Append(q, Header("FENCE", {}))) :
                 \/ /\ i \in 1 .. Len(q) /\ Append(q, Header("FENCE", {}))[i] = q[i]
                    /\ q[i].op = "PUT"
                 \/ /\ i = Len(Append(q, Header("FENCE", {})))
                    /\ Append(q, Header("FENCE", {}))[i] = Header("FENCE", {})
        BY <1>4, <3>3, <4>1, Appended
      <4>3. \A h : h = Header("FENCE", {}) => RequestAt(c, m, h)'
        BY <2>1, <3>1, <3>4 DEF RequestAt, Header
      <4>4. \A i \in 1 .. Len(q) : \A h : h = q[i] => RequestAt(c, m, h)'
        BY <3>2, <3>3
      <4>5. QED
        BY <3>1, <3>4, <4>2, <4>3, <4>4 DEF Wanted, ChannelAt
    <3>5. CASE m \notin fence_array[c]
      <4>1. \A i \in 1 .. Len(q) : \A h : h = q[i] => RequestAt(c, m, h)'
        BY <3>2, <3>3
      <4>2. QED
        BY <3>1, <3>3, <3>5, <4>1 DEF Wanted, ChannelAt
    <3>6. QED
      BY <3>4, <3>5
  <2>4. QED
    BY <2>2, <2>3
<1>9. ASSUME NEW b \in Worker, FenceDone(b) PROVE Wanted
  <2>1. /\ pc[b] = "fence" /\ pc' = [pc EXCEPT ![b] = "barrier"] /\ step' = step /\ ptrs' = ptrs
        /\ \A n \in fence_array[b] : rep[b][n] > 0
        /\ fence_array' = [fence_array EXCEPT ![b] = {}] /\ req' = req
        /\ rep' = [rep EXCEPT ![b] = [n \in Rank |-> 0]]
    BY <1>9 DEF FenceDone, Goto
  <2>2. CASE b # c
    BY <1>3, <1>7, <2>1, <2>2 DEF Types
  <2>3. CASE b = c
    <3>1. q = << >>
      BY <1>4, <2>1, <2>3 DEF q
    <3>2. req'[c][m] = << >> /\ rep'[c][m] = 0
      BY <1>3, <2>1, <2>3, <3>1 DEF q, Types
    <3>3. QED
      BY <1>5, <3>2
  <2>4. QED
    BY <2>2, <2>3
<1>10. ASSUME NEW b \in Worker, comex_malloc_local(b) PROVE Wanted
  <2>1. PICK a \in Address \cup {NULL} : ptrs' = [ptrs EXCEPT ![step[b]][b] = a]
    BY <1>10 DEF comex_malloc_local
  <2>2. /\ pc[b] = "allocate" /\ pc' = [pc EXCEPT ![b] = "gather"]
        /\ step' = step /\ fence_array' = fence_array /\ req' = req /\ rep' = rep
    BY <1>10 DEF comex_malloc_local, In, Goto
  <2>3. CASE b # c
    <3>1. step[b] \in DOMAIN program /\ b \in Members(step[b]) /\ step[b] \in Nat /\ b \in Rank
      BY <1>3, <2>2, CallFacts DEF Places, PlaceAt
    <3>2. ASSUME NEW k \in Mallocs, NEW t \in Members(k), c \in Members(k),
                 step[c] > k \/ (step[c] = k /\ pc[c] \in Beyond)
          PROVE  ptrs'[k][t] = ptrs[k][t]
      <4>1. k \in DOMAIN program /\ k \in Nat /\ t \in Rank
        BY CallFacts
      <4>2. Together(k)
        BY <4>1 DEF Marches
      <4>3. k # step[b] \/ t # b
        BY <2>2, <3>1, <3>2, <4>1, <4>2 DEF Together, Beyond
      <4>4. QED
        BY <2>1, <3>1, <4>1, <4>3 DEF Types
    <3>3. pc'[c] = pc[c] /\ step'[c] = step[c] /\ fence_array'[c] = fence_array[c]
      BY <1>3, <2>2, <2>3 DEF Types
    <3>4. req'[c][m] = q /\ rep'[c][m] = rep[c][m]
      BY <2>2 DEF q
    <3>5. QED
      BY <1>6, <3>2, <3>3, <3>4
  <2>4. CASE b = c
    BY <1>4, <1>5, <2>2, <2>4 DEF q
  <2>5. QED
    BY <2>3, <2>4
<1>11. ASSUME NEW b \in Worker, NEW next \in {"end", "local"},
              In(b, "update", "malloc") \/ In(b, "update", "free"),
              Notify(b, IF InCall(b).op = "malloc" THEN "MALLOC" ELSE "FREE", next),
              step' = step, ptrs' = ptrs, fence_array' = fence_array, rep' = rep
       PROVE  Wanted
  <2>1. pc[b] = "update"
    BY <1>11 DEF In
  <2>2. CASE b # c
    <3>1. pc'[c] = pc[c] /\ req'[c][m] = req[c][m]
      BY <1>3, <1>11, <2>2 DEF Notify, Goto, nb_send_header, Types
    <3>2. QED
      BY <1>7, <1>11, <3>1
  <2>3. CASE b = c
    <3>1. q = << >> /\ rep[c][m] = 0 /\ req[c][master[c]] = << >>
      <4>1. master[c] \in Rank
        BY <1>3 DEF RanksSound
      <4>2. req[c][master[c]] = << >>
        BY <2>1, <2>3, <4>1, FlightFacts
      <4>3. QED
        BY <1>4, <2>1, <2>3, <4>2
    <3>2. CASE Notifier(c) = c /\ m = master[c]
      <4>1. PICK h : h = Header(IF InCall(c).op = "malloc" THEN "MALLOC" ELSE "FREE",
                                Mapped(c) \cup Own(c))
        OBVIOUS
      <4>2. req' = [req EXCEPT ![c][m] = Append(@, h)] /\ pc' = [pc EXCEPT ![c] = "ack"]
        BY <1>11, <2>3, <3>2, <4>1 DEF Notify, nb_send_header, Goto
      <4>3. req'[c][m] = <<h>> /\ pc'[c] = "ack" /\ rep'[c][m] = 0
        BY SMTT(30), <1>3, <1>11, <3>1, <3>2, <4>2 DEF Types, q
      <4>4. Mapped(c)' = Mapped(c) /\ Own(c)' = Own(c) /\ InCall(c)' = InCall(c)
        <5>1. InCall(c)' = InCall(c) /\ Notifier(c)' = Notifier(c)
          BY <1>1, <1>11, SameCall
        <5>2. Segment(c)' = Segment(c)
          BY <1>11, <5>1 DEF Segment
        <5>3. QED
          BY <1>1, <5>1, <5>2 DEF Mapped, Own
      <4>5. \A g : g = h => RequestAt(c, m, g)'
        BY <1>1, <3>2, <4>1, <4>3, <4>4 DEF RequestAt, Header
      <4>6. QED
        BY <4>3, <4>5 DEF Wanted, ChannelAt
    <3>3. CASE Notifier(c) # c \/ m # master[c]
      <4>1. req'[c][m] = << >>
        BY <1>3, <1>11, <2>3, <3>1, <3>3 DEF Notify, nb_send_header, Types, q
      <4>2. QED
        BY <1>5, <1>11, <3>1, <4>1
    <3>4. QED
      BY <3>2, <3>3
  <2>4. QED
    BY <2>2, <2>3
<1>12. ASSUME NEW b \in Worker, Register(b) PROVE Wanted
  <2>1. InCall(b).op = "malloc"
    BY <1>12 DEF Register, In
  <2>2. QED
    BY <1>11, <1>12, <2>1 DEF Register
<1>13. ASSUME NEW b \in Worker, Unregister(b) PROVE Wanted
  <2>1. InCall(b).op # "malloc"
    BY <1>13 DEF Unregister, In
  <2>2. QED
    BY <1>11, <1>13, <2>1 DEF Unregister
<1>14. ASSUME NEW b \in Worker, Acknowledged(b) PROVE Wanted
  <2>1. /\ pc[b] = "ack" /\ step' = step /\ ptrs' = ptrs /\ fence_array' = fence_array /\ req' = req
        /\ rep[b][master[b]] > 0 /\ rep' = [rep EXCEPT ![b][master[b]] = @ - 1]
        /\ pc' = [pc EXCEPT ![b] = IF InCall(b).op = "malloc" THEN "end" ELSE "local"]
    BY <1>14 DEF Acknowledged, Goto
  <2>2. CASE b # c
    BY <1>3, <1>7, <2>1, <2>2 DEF Types
  <2>3. CASE b = c
    <3>1. q = << >>
      BY <1>4, <2>1, <2>3
    <3>2. rep'[c][m] = 0
      BY SMTT(30), <1>3, <1>4, <2>1, <2>3 DEF Types
    <3>3. QED
      BY <1>5, <2>1, <3>1, <3>2 DEF q
  <2>4. QED
    BY <2>2, <2>3
<1>15. ASSUME NEW b \in Worker, comex_free_local(b) PROVE Wanted
  <2>1. /\ pc[b] = "local" /\ pc' = [pc EXCEPT ![b] = "end"] /\ step' = step /\ ptrs' = ptrs
        /\ fence_array' = fence_array /\ req' = req /\ rep' = rep
    BY <1>15 DEF comex_free_local, Goto
  <2>2. CASE b # c
    BY <1>3, <1>7, <2>1, <2>2 DEF Types
  <2>3. CASE b = c
    BY <1>4, <1>5, <2>1, <2>3 DEF q
  <2>4. QED
    BY <2>2, <2>3
<1>16. ASSUME NEW b \in Worker, NEW t \in Worker, NEW k \in DOMAIN program, nb_put(b, k, t)
       PROVE  Wanted
  <2>1. /\ pc[b] = "user" /\ Holds(b, k) /\ t \in Members(k) /\ ptrs[k][t] # NULL
        /\ pc' = pc /\ step' = step /\ ptrs' = ptrs /\ rep' = rep
        /\ fence_array' = [fence_array EXCEPT ![b] = @ \cup {master[t]}]
        /\ req' = [req EXCEPT ![b][master[t]] = Append(@, Header("PUT", {<<t, ptrs[k][t]>>}))]
    BY <1>16 DEF nb_put, nb_send_header, Members
  <2>2. CASE b # c
    BY <1>3, <1>7, <2>1, <2>2 DEF Types
  <2>3. CASE b = c
    <3>1. /\ pc[c] = "user" /\ pc'[c] = "user" /\ rep'[c][m] = 0
          /\ fence_array'[c] = fence_array[c] \cup {master[t]}
      BY <1>3, <1>4, <2>1, <2>3 DEF Types
    <3>2. \A h \in Message : h.op = "PUT" /\ RequestAt(c, m, h) => RequestAt(c, m, h)'
      <4>1. \A E : PutSound(c, m, E) => PutSound(c, m, E)'
        BY <1>1, <2>1, SameJob DEF PutSound
      <4>2. QED
        BY <2>1, <3>1, <4>1 DEF RequestAt, Header
    <3>3. \A i \in 1 .. Len(q) : q[i] \in Message /\ q[i].op = "PUT" /\ RequestAt(c, m, q[i])
      BY <1>4, <3>1
    <3>4. \A i \in 1 .. Len(q) : \A h : h = q[i] => RequestAt(c, m, h)'
      BY <3>2, <3>3
    <3>5. CASE m = master[t]
      <4>1. PICK g : g = Header("PUT", {<<t, ptrs[k][t]>>})
        OBVIOUS
      <4>2. g \in Message
        <5>1. ptrs[k][t] \in Address \cup {NULL}
          BY <1>3 DEF Types
        <5>2. {<<t, ptrs[k][t]>>} \subseteq Worker \X (Address \cup {NULL})
          BY <5>1
        <5>3. QED
          BY <4>1, <5>2 DEF Header, Message
      <4>3. req'[c][m] = Append(q, g)
        BY <1>3, <2>1, <2>3, <3>5, <4>1 DEF Types, q
      <4>4. /\ Len(Append(q, g)) = Len(q) + 1
            /\ \A i \in 1 .. Len(Append(q, g)) :
                 \/ i \in 1 .. Len(q) /\ Append(q, g)[i] = q[i] /\ q[i].op = "PUT"
                 \/ i = Len(Append(q, g)) /\ Append(q, g)[i] = g
        BY <1>4, <3>3, <4>2, Appended
      <4>5. PutSound(c, m, g.entries)'
        <5>1. k \in Mallocs /\ c \in Members(k) /\ step[c] > k /\ \A j \in Frees(k) : step[c] <= j
          <6>1. /\ program[k].op = "malloc" /\ c \in program[k].group /\ k < step[c]
                /\ \A j \in Frees(k) : step[c] < j \/ step[c] = j
            BY <2>1, <2>3 DEF Holds, Frees
          <6>2. k \in Nat /\ step[c] \in Nat /\ \A j \in Frees(k) : j \in Nat
            <7>1. DOMAIN program \subseteq Nat
              BY CallFacts
            <7>2. step[c] \in Nat
              BY <1>3 DEF Types
            <7>3. QED
              BY <7>1, <7>2 DEF Frees
          <6>3. QED
            BY <6>1, <6>2 DEF Mallocs, Members
        <5>2. g.entries = {<<t, ptrs[k][t]>>}
          BY <4>1 DEF Header
        <5>3. QED
          BY <1>1, <2>1, <3>5, <5>1, <5>2, SameJob DEF PutSound
      <4>6. \A h : h = g => RequestAt(c, m, h)'
        BY <3>1, <3>5, <4>1, <4>5 DEF RequestAt, Header
      <4>7. g.op = "PUT"
        BY <4>1 DEF Header
      <4>8. QED
        BY <3>1, <3>3, <3>4, <4>3, <4>4, <4>6, <4>7 DEF Wanted, ChannelAt
    <3>6. CASE m # master[t]
      <4>1. req'[c][m] = q
        BY <1>3, <2>1, <2>3, <3>6 DEF Types, q
      <4>2. QED
        BY <3>1, <3>3, <3>4, <4>1 DEF Wanted, ChannelAt
    <3>7. QED
      BY <3>5, <3>6
  <2>4. QED
    BY <2>2, <2>3
<1>17. ASSUME NEW k \in DOMAIN program, FirstBarrier(k) \/ MPI_Allgather(k) \/ LastBarrier(k)
       PROVE  Wanted
  <2>1. req' = req /\ rep' = rep /\ ptrs' = ptrs /\ fence_array' = fence_array
    BY <1>17 DEF FirstBarrier, MPI_Allgather, LastBarrier
  <2>2. CASE c \in Members(k)
    <3>1. pc[c] \in {"barrier", "gather", "end"}
      BY <1>17, <2>2 DEF FirstBarrier, MPI_Allgather, LastBarrier, Leave, Members
    <3>2. QED
      BY <1>4, <1>5, <2>1, <3>1 DEF q
  <2>3. CASE c \notin Members(k)
    <3>1. pc'[c] = pc[c] /\ step'[c] = step[c]
      BY <1>3, <1>17, <2>3 DEF FirstBarrier, MPI_Allgather, LastBarrier, Leave, Members
    <3>2. QED
      BY <1>7, <2>1, <3>1
  <2>4. QED
    BY <2>2, <2>3
<1>18. ASSUME NEW n \in Master, NEW b \in Worker, progress_server(n, b) PROVE Wanted
  <2>1. /\ n \in Rank /\ req[b][n] # << >> /\ req' = [req EXCEPT ![b][n] = Tail(@)]
        /\ pc' = pc /\ step' = step /\ ptrs' = ptrs /\ fence_array' = fence_array
    BY <1>18 DEF Master, progress_server, put_handler, fence_handler, malloc_handler, free_handler,
                 Pending, TakeFrom
  <2>2. \/ Head(req[b][n]).op = "PUT" /\ rep' = rep
        \/ Head(req[b][n]).op # "PUT" /\ rep' = [rep EXCEPT ![b][n] = @ + 1]
    BY <1>18 DEF progress_server, put_handler, fence_handler, malloc_handler, free_handler,
                 Pending, server_send
  <2>3. CASE b # c \/ n # m
    <3>1. req'[c][m] = req[c][m] /\ rep'[c][m] = rep[c][m]
      <4>1. b \in Rank /\ m \in Rank /\ n \in Rank /\ c \in Rank
        BY <1>3, <2>1
      <4>2. req'[c][m] = req[c][m]
        BY <2>1, <2>3, <4>1 DEF Types
      <4>3. CASE rep' = rep
        BY <4>2, <4>3
      <4>4. CASE rep' = [rep EXCEPT ![b][n] = @ + 1]
        BY <2>3, <4>1, <4>2, <4>4 DEF Types
      <4>5. QED
        BY <2>2, <4>3, <4>4
    <3>2. QED
      BY <1>7, <2>1, <3>1
  <2>4. CASE b = c /\ n = m
    <3>1. /\ RequestAt(c, m, Head(q)) /\ Len(Tail(q)) = Len(q) - 1
          /\ \A i \in 1 .. Len(Tail(q)) : Tail(q)[i] = q[i + 1]
          /\ Head(q).op # "PUT" => Tail(q) = << >>
          /\ rep[c][m] = 0
      BY <2>1, <2>4, HeadFacts DEF q
    <3>2. req'[c][m] = Tail(q)
      BY <1>3, <2>1, <2>4 DEF Types, q
    <3>3. CASE Head(q).op = "PUT"
      <4>1. rep'[c][m] = 0
        BY <2>2, <2>4, <3>1, <3>3 DEF q
      <4>2. \A h \in Message : RequestAt(c, m, h) => RequestAt(c, m, h)'
        BY <1>1, <2>1, RequestKept
      <4>3. \A i \in 1 .. Len(Tail(q)) :
              /\ i + 1 \in 1 .. Len(q) /\ Tail(q)[i] = q[i + 1]
              /\ i + 1 = Len(q) => i = Len(Tail(q))
        BY <1>4, <3>1
      <4>4. \A i \in 1 .. Len(Tail(q)) :
              /\ Tail(q)[i] \in Message /\ RequestAt(c, m, Tail(q)[i])
              /\ Tail(q)[i].op # "PUT" => i = Len(Tail(q))
        BY <1>4, <4>3
      <4>5. \A i \in 1 .. Len(Tail(q)) : \A h : h = Tail(q)[i] => RequestAt(c, m, h)'
        BY <4>2, <4>4
      <4>6. QED
        BY <3>2, <4>1, <4>4, <4>5 DEF Wanted, ChannelAt
    <3>4. CASE Head(q).op # "PUT"
      <4>1. rep'[c][m] = 1 /\ req'[c][m] = << >>
        BY <1>3, <2>2, <2>4, <3>1, <3>2, <3>4 DEF Types, q
      <4>2. Asks(c, m)
        BY <3>1, <3>4 DEF RequestAt, Asks
      <4>3. Asks(c, m)'
        BY <1>1, <2>1, <4>2 DEF Asks
      <4>4. QED
        BY <4>1, <4>3 DEF Wanted, ChannelAt
    <3>5. QED
      BY <3>3, <3>4
  <2>5. QED
    BY <2>3, <2>4
<1>19. ASSUME UNCHANGED vars PROVE Wanted
  BY <1>7, <1>19 DEF vars
<1>20. Wanted
  BY <1>8, <1>9, <1>10, <1>12, <1>13, <1>14, <1>15, <1>16, <1>17, <1>18, <1>19
  DEF Next, WorkerStep, Ended
<1>21. QED
  BY <1>20 DEF Wanted

-----------------------------------------------------------------------------
(* The registration caches.                                                *)

(* Whoever knows of a segment does so while its owner could have it.       *)
LEMMA KnownIsMine ==
  ASSUME CallsSound, SpeakersSound, Types, Places, Marches,
         NEW k \in Mallocs, NEW t \in Members(k), NEW r, Known(r, k, t)
  PROVE  Mine(t, k)
<1>1. /\ k \in DOMAIN program /\ k \in Nat /\ program[k].op = "malloc"
      /\ Members(k) \subseteq Rank
      /\ \A j \in Frees(k) : j \in DOMAIN program /\ j \in Nat /\ Members(j) = Members(k)
  BY CallFacts DEF Mallocs
<1>2. \A d \in Members(k) : step[d] \in Nat
  BY <1>1 DEF Types
<1>3. ASSUME NEW d \in Members(k), step[d] > k \/ (step[d] = k /\ pc[d] \in Beyond),
             \A j \in Frees(k) : step[d] <= j
      PROVE  Mine(t, k)
  <2>1. step[t] > k \/ (step[t] = k /\ pc[t] \in Beyond)
    BY <1>1, <1>3 DEF Marches, Together
  <2>2. step[t] = k => pc[t] # "local"
    BY <1>1 DEF Places, PlaceAt, InCall
  <2>3. Allocated(t, k)
    BY <2>1, <2>2 DEF Allocated, Past, Beyond
  <2>4. ASSUME NEW j \in Frees(k) PROVE step[t] <= j
    <3>1. step[t] > j => step[d] > j
      BY <1>1 DEF Marches, Together
    <3>2. QED
      BY <1>1, <1>2, <1>3, <3>1
  <2>5. QED
    BY <2>3, <2>4 DEF Mine
<1>4. CASE Owned(t, k)
  <2>1. \A j \in Frees(k) : ~(step[t] > j)
    BY <1>4 DEF Owned, Finished, Past
  <2>2. QED
    BY <1>1, <1>2, <1>4, <2>1 DEF Owned, Mine
<1>5. CASE r \in Members(k) /\ MappedBy(r, k)
  <2>1. step[r] > k \/ (step[r] = k /\ pc[r] \in Beyond)
    BY <1>5 DEF MappedBy, Mapping, Past, Beyond
  <2>2. \A j \in Frees(k) : ~(step[r] > j)
    BY <1>5 DEF MappedBy, Mapping, Past
  <2>3. QED
    BY <1>1, <1>2, <1>3, <1>5, <2>1, <2>2
<1>6. CASE Told(Spokesman(k, t), k)
  <2>1. PICK s \in Members(k) : s = Spokesman(k, t)
    BY <1>1 DEF SpeakersSound
  <2>2. step[s] > k \/ (step[s] = k /\ pc[s] \in Beyond)
    BY <1>6, <2>1 DEF Told, Spoken, Answered, Past, Beyond
  <2>3. \A j \in Frees(k) : ~(step[s] > j)
    BY <1>6, <2>1 DEF Told, Spoken, Past
  <2>4. QED
    BY <1>1, <1>2, <1>3, <2>2, <2>3
<1>7. QED
  BY <1>4, <1>5, <1>6 DEF Known

(* What is to be shown of the caches after a step that gives nobody a      *)
(* segment.                                                                *)
LEMMA CachesAfter ==
  ASSUME layout' = layout, program' = program, master' = master, ptrs' = ptrs,
         \A r \in Rank, t \in Worker, a \in Address :
           <<t, a>> \in reg_cache'[r] <=>
             \E k \in Mallocs : t \in Members(k) /\ ptrs[k][t] = a /\ Known(r, k, t)'
  PROVE  Caches'
<1>1. Worker' = Worker /\ Mallocs' = Mallocs /\ \A k : Members(k)' = Members(k)
  BY SameJob
<1>2. ASSUME NEW r \in Rank PROVE CacheAt(r)'
  BY <1>1 DEF CacheAt
<1>3. QED
  BY <1>2 DEF Caches

(* The caches follow when more is known of one comex_malloc by one rank.   *)
LEMMA CachesGrow ==
  ASSUME CallsSound, Types, Caches,
         layout' = layout, program' = program, master' = master, ptrs' = ptrs,
         NEW r0 \in Rank, NEW k0 \in Mallocs, NEW T, NEW N, T \subseteq Members(k0),
         \A r \in Rank, k \in Mallocs : \A t \in Members(k) :
           Known(r, k, t)' <=> Known(r, k, t) \/ (r = r0 /\ k = k0 /\ t \in T),
         reg_cache' = [reg_cache EXCEPT ![r0] = @ \cup N],
         \A t \in Worker, a \in Address : <<t, a>> \in N <=> t \in T /\ ptrs[k0][t] = a
  PROVE  Caches'
<1>1. SUFFICES ASSUME NEW r \in Rank, NEW t \in Worker, NEW a \in Address
               PROVE  <<t, a>> \in reg_cache'[r] <=>
                        \E k \in Mallocs : t \in Members(k) /\ ptrs[k][t] = a /\ Known(r, k, t)'
  BY CachesAfter
<1>2. <<t, a>> \in reg_cache[r] <=>
        \E k \in Mallocs : t \in Members(k) /\ ptrs[k][t] = a /\ Known(r, k, t)
  BY DEF Caches, CacheAt
<1>3. <<t, a>> \in reg_cache'[r] <=>
        <<t, a>> \in reg_cache[r] \/ (r = r0 /\ t \in T /\ ptrs[k0][t] = a)
  BY DEF Types
<1>4. QED
  BY <1>2, <1>3

(* They follow when less is known, for a process never has two segments    *)
(* of one address.                                                         *)
LEMMA CachesShrink ==
  ASSUME CallsSound, SpeakersSound, Types, Places, Marches, Caches, Distinct,
         layout' = layout, program' = program, master' = master, ptrs' = ptrs,
         NEW r0 \in Rank, NEW k0 \in Mallocs, NEW T, NEW N, T \subseteq Members(k0),
         \A t \in T : Mine(t, k0),
         \A r \in Rank, k \in Mallocs : \A t \in Members(k) :
           Known(r, k, t)' <=> Known(r, k, t) /\ ~(r = r0 /\ k = k0 /\ t \in T),
         reg_cache' = [reg_cache EXCEPT ![r0] = @ \ N],
         \A t \in Worker, a \in Address : <<t, a>> \in N <=> t \in T /\ ptrs[k0][t] = a
  PROVE  Caches'
<1>1. SUFFICES ASSUME NEW r \in Rank, NEW t \in Worker, NEW a \in Address
               PROVE  <<t, a>> \in reg_cache'[r] <=>
                        \E k \in Mallocs : t \in Members(k) /\ ptrs[k][t] = a /\ Known(r, k, t)'
  BY CachesAfter
<1>2. <<t, a>> \in reg_cache[r] <=>
        \E k \in Mallocs : t \in Members(k) /\ ptrs[k][t] = a /\ Known(r, k, t)
  BY DEF Caches, CacheAt
<1>3. <<t, a>> \in reg_cache'[r] <=>
        <<t, a>> \in reg_cache[r] /\ ~(r = r0 /\ t \in T /\ ptrs[k0][t] = a)
  BY DEF Types
<1>4. ASSUME r = r0, t \in T, ptrs[k0][t] = a, NEW k \in Mallocs, t \in Members(k),
             ptrs[k][t] = a, Known(r, k, t)
      PROVE  k = k0
  <2>1. Mine(t, k) /\ Mine(t, k0)
    BY <1>4, KnownIsMine
  <2>2. a # NULL
    BY MallocAssumption
  <2>3. QED
    BY <1>4, <2>1, <2>2 DEF Distinct
<1>5. QED
  BY <1>2, <1>3, <1>4

(* They follow when nothing changes.                                       *)
LEMMA CachesStay ==
  ASSUME CallsSound, Caches,
         layout' = layout, program' = program, master' = master, ptrs' = ptrs,
         reg_cache' = reg_cache,
         \A r \in Rank, k \in Mallocs : \A t \in Members(k) : Known(r, k, t)' <=> Known(r, k, t)
  PROVE  Caches'
<1>1. SUFFICES ASSUME NEW r \in Rank, NEW t \in Worker, NEW a \in Address
               PROVE  <<t, a>> \in reg_cache'[r] <=>
                        \E k \in Mallocs : t \in Members(k) /\ ptrs[k][t] = a /\ Known(r, k, t)'
  BY CachesAfter
<1>2. <<t, a>> \in reg_cache[r] <=>
        \E k \in Mallocs : t \in Members(k) /\ ptrs[k][t] = a /\ Known(r, k, t)
  BY DEF Caches, CacheAt
<1>3. QED
  BY <1>2

(* Segments stay different while nobody gets one.                          *)
LEMMA DistinctStays ==
  ASSUME layout' = layout, program' = program, master' = master, ptrs' = ptrs, Distinct,
         \A k \in Mallocs : \A t \in Members(k) : Mine(t, k)' => Mine(t, k)
  PROVE  Distinct'
BY SameJob DEF Distinct

(* What a worker knows of the segments of its call follows from where it   *)
(* is in it.                                                               *)
Stage(b) ==
  /\ Owned(b, About(b)) <=> IF InCall(b).op = "malloc"
                            THEN pc[b] \in {"gather", "update", "ack", "end"}
                            ELSE pc[b] # "end"
  /\ Mine(b, About(b)) <=> (InCall(b).op = "malloc" =>
                              pc[b] \in {"gather", "update", "ack", "end"})
  /\ MappedBy(b, About(b)) <=> IF InCall(b).op = "malloc"
                               THEN pc[b] \in {"ack", "local", "end"}
                               ELSE pc[b] \notin {"ack", "local", "end"}
  /\ Told(b, About(b)) <=>
       IF InCall(b).op = "malloc"
       THEN pc[b] \in {"local", "end"} \/ (pc[b] = "ack" /\ rep[b][master[b]] > 0)
       ELSE ~(pc[b] \in {"local", "end"} \/ (pc[b] = "ack" /\ rep[b][master[b]] > 0))

Stages == \A b \in Rank : step[b] \in DOMAIN program => Stage(b)

(* In all states.                                                          *)
LEMMA StageFacts == CallsSound /\ Types => Stages
<1> SUFFICES ASSUME CallsSound, Types, NEW b \in Rank, step[b] \in DOMAIN program
             PROVE  Stage(b)
  BY DEF Stages
<1>1. step[b] \in Nat /\ InCall(b) = program[step[b]]
  BY CallFacts DEF InCall
<1>2. CASE InCall(b).op = "malloc"
  <2>1. About(b) = step[b] /\ step[b] \in Mallocs
    BY <1>1, <1>2 DEF About, Mallocs
  <2>2. \A j \in Frees(step[b]) : j \in Nat /\ step[b] < j
    BY <2>1, CallFacts
  <2>3. \A j \in Frees(step[b]) : /\ ~Finished(b, j) /\ ~Mapping(b, j) /\ ~Spoken(b, j)
                                  /\ step[b] <= j
    BY <1>1, <2>2 DEF Finished, Mapping, Spoken, Answered, Past
  <2>4. /\ Allocated(b, step[b]) <=> pc[b] \in {"gather", "update", "ack", "end"}
        /\ Mapping(b, step[b]) <=> pc[b] \in {"ack", "local", "end"}
        /\ Spoken(b, step[b]) <=>
             pc[b] \in {"local", "end"} \/ (pc[b] = "ack" /\ rep[b][master[b]] > 0)
    BY <1>1 DEF Allocated, Mapping, Spoken, Answered, Past
  <2>5. QED
    BY <1>2, <2>1, <2>3, <2>4, Zenon DEF Owned, Mine, MappedBy, Told, Stage
<1>3. CASE InCall(b).op # "malloc"
  <2>1. /\ About(b) \in Mallocs /\ About(b) \in Nat /\ About(b) < step[b]
        /\ step[b] \in Frees(About(b)) /\ \A j \in Frees(About(b)) : j = step[b]
    <3>1. About(b) = program[step[b]].of /\ program[step[b]].op = "free"
      BY <1>1, <1>3, CallFacts DEF About
    <3>2. About(b) \in Mallocs /\ step[b] \in Frees(About(b))
      BY <1>1, <3>1, CallFacts DEF Frees
    <3>3. QED
      BY <3>2, CallFacts
  <2>2. Allocated(b, About(b)) /\ Mapping(b, About(b)) /\ Spoken(b, About(b))
    BY <1>1, <2>1 DEF Allocated, Mapping, Spoken, Past
  <2>3. /\ Finished(b, step[b]) <=> pc[b] = "end"
        /\ Mapping(b, step[b]) <=> pc[b] \in {"ack", "local", "end"}
        /\ Spoken(b, step[b]) <=>
             pc[b] \in {"local", "end"} \/ (pc[b] = "ack" /\ rep[b][master[b]] > 0)
    BY <1>1 DEF Finished, Mapping, Spoken, Answered, Past
  <2>4. step[b] <= step[b]
    BY <1>1
  <2>5. Owned(b, About(b)) <=> pc[b] # "end"
    BY <2>1, <2>2, <2>3 DEF Owned
  <2>6. Mine(b, About(b))
    BY <2>1, <2>2, <2>4 DEF Mine
  <2>7. MappedBy(b, About(b)) <=> pc[b] \notin {"ack", "local", "end"}
    BY <2>1, <2>2, <2>3 DEF MappedBy
  <2>8. Told(b, About(b)) <=>
          ~(pc[b] \in {"local", "end"} \/ (pc[b] = "ack" /\ rep[b][master[b]] > 0))
    BY <2>1, <2>2, <2>3 DEF Told
  <2>9. QED
    BY <1>3, <2>5, <2>6, <2>7, <2>8 DEF Stage
<1>4. QED
  BY <1>2, <1>3

(* A worker that moves within its call changes nothing for the others, nor *)
(* for other segments.                                                     *)
LEMMA OthersKnow ==
  ASSUME CallsSound, Types, layout' = layout, program' = program, master' = master, step' = step,
         NEW b \in Rank, step[b] \in DOMAIN program,
         \A d \in Rank \ {b} : pc'[d] = pc[d] /\ rep'[d][master[d]] = rep[d][master[d]]
  PROVE  /\ About(b)' = About(b) /\ InCall(b)' = InCall(b)
         /\ \A k \in Mallocs, d \in Rank : d # b \/ k # About(b) =>
              /\ Owned(d, k)' <=> Owned(d, k)
              /\ Mine(d, k)' <=> Mine(d, k)
              /\ MappedBy(d, k)' <=> MappedBy(d, k)
              /\ Told(d, k)' <=> Told(d, k)
<1>1. About(b)' = About(b) /\ InCall(b)' = InCall(b)
  BY SameCall DEF About
<1>2. ASSUME NEW d \in Rank, NEW k \in DOMAIN program, d # b \/ k # step[b]
      PROVE  /\ Allocated(d, k)' <=> Allocated(d, k)
             /\ Mapping(d, k)' <=> Mapping(d, k)
             /\ Spoken(d, k)' <=> Spoken(d, k)
             /\ Finished(d, k)' <=> Finished(d, k)
             /\ step'[d] <= k <=> step[d] <= k
  BY <1>2 DEF Allocated, Mapping, Spoken, Answered, Finished, Past
<1>3. ASSUME NEW d \in Rank, NEW k \in Mallocs, d # b \/ k # About(b)
      PROVE  /\ Owned(d, k)' <=> Owned(d, k)
             /\ Mine(d, k)' <=> Mine(d, k)
             /\ MappedBy(d, k)' <=> MappedBy(d, k)
             /\ Told(d, k)' <=> Told(d, k)
  <2>1. Frees(k)' = Frees(k) /\ k \in DOMAIN program
    BY SameJob, CallFacts
  <2>2. d # b \/ k # step[b]
    BY <1>3, CallFacts DEF About, InCall, Mallocs
  <2>3. \A j \in Frees(k) : j \in DOMAIN program /\ (d # b \/ j # step[b])
    BY <1>3, <2>1, CallFacts DEF About, InCall
  <2>4. /\ Allocated(d, k)' <=> Allocated(d, k)
        /\ Mapping(d, k)' <=> Mapping(d, k)
        /\ Spoken(d, k)' <=> Spoken(d, k)
    BY <1>2, <2>1, <2>2
  <2>5. \A j \in Frees(k) : /\ Mapping(d, j)' <=> Mapping(d, j)
                            /\ Spoken(d, j)' <=> Spoken(d, j)
                            /\ Finished(d, j)' <=> Finished(d, j)
                            /\ step'[d] <= j <=> step[d] <= j
    BY <1>2, <2>3
  <2>6. QED
    BY <2>1, <2>4, <2>5 DEF Owned, Mine, MappedBy, Told
<1>4. QED
  BY <1>1, <1>3

Scene ==
  /\ CallsSound /\ RanksSound /\ SpeakersSound
  /\ Types /\ Places /\ Marches /\ Caches /\ Distinct /\ Channels

(* Before and after a step within the call.                                *)
LEMMA StageKept ==
  ASSUME CallsSound, Types, Types', layout' = layout, program' = program, master' = master,
         NEW b \in Rank, step[b] \in DOMAIN program, step'[b] = step[b]
  PROVE  Stage(b) /\ Stage(b)'
<1>1. CallsSound'
  BY SameJob DEF CallsSound
<1>2. Stages
  BY StageFacts
<1>3. (CallsSound /\ Types)' => Stages'
  BY StageFacts, PTL
<1>4. QED
  BY <1>1, <1>2, <1>3 DEF Stages

(* When nobody knows more or less, the caches stay right.                  *)
LEMMA SameKnowledge ==
  ASSUME CallsSound, SpeakersSound, Caches, Distinct,
         layout' = layout, program' = program, master' = master, ptrs' = ptrs,
         reg_cache' = reg_cache,
         \A k \in Mallocs, d \in Rank :
           d \in Members(k) => /\ Owned(d, k)' <=> Owned(d, k)
                               /\ Mine(d, k)' => Mine(d, k)
                               /\ MappedBy(d, k)' <=> MappedBy(d, k)
                               /\ Told(d, k)' <=> Told(d, k)
  PROVE  Caches' /\ Distinct'
<1>1. \A k \in Mallocs : /\ Members(k) \subseteq Rank /\ Members(k)' = Members(k)
                         /\ \A t \in Members(k) : /\ Spokesman(k, t) \in Members(k)
                                                  /\ Spokesman(k, t)' = Spokesman(k, t)
  BY CallFacts, SameJob DEF SpeakersSound
<1>2. ASSUME NEW r \in Rank, NEW k \in Mallocs, NEW t \in Members(k)
      PROVE  Known(r, k, t)' <=> Known(r, k, t)
  <2>1. PICK s \in Members(k) : s = Spokesman(k, t) /\ s = Spokesman(k, t)'
    BY <1>1
  <2>2. Told(Spokesman(k, t), k)' <=> Told(s, k)'
    BY <2>1
  <2>3. QED
    BY <1>1, <2>1, <2>2 DEF Known
<1>3. Caches'
  BY <1>2, CachesStay
<1>4. Distinct'
  BY <1>1, DistinctStays
<1>5. QED
  BY <1>3, <1>4

(* A worker that moves within its call, and still knows what it knew,      *)
(* changes no cache.                                                       *)
LEMMA QuietMove ==
  ASSUME Scene, Types', layout' = layout, program' = program, master' = master, step' = step,
         ptrs' = ptrs, reg_cache' = reg_cache,
         NEW b \in Rank, step[b] \in DOMAIN program,
         \A d \in Rank \ {b} : pc'[d] = pc[d] /\ rep'[d][master[d]] = rep[d][master[d]],
         \/ /\ pc[b] \in {"user", "fence", "barrier"}
            /\ pc'[b] \in {"user", "fence", "barrier"}
         \/ /\ pc[b] = "ack" /\ rep[b][master[b]] > 0
            /\ pc'[b] = IF InCall(b).op = "malloc" THEN "end" ELSE "local"
  PROVE  Caches' /\ Distinct'
<1>1. CallsSound /\ Types /\ SpeakersSound /\ Caches /\ Distinct
  BY DEF Scene
<1>2. Stage(b) /\ Stage(b)'
  BY <1>1, StageKept
<1>3. /\ About(b)' = About(b) /\ InCall(b)' = InCall(b)
      /\ \A k \in Mallocs, d \in Rank : d # b \/ k # About(b) =>
           /\ Owned(d, k)' <=> Owned(d, k)
           /\ Mine(d, k)' <=> Mine(d, k)
           /\ MappedBy(d, k)' <=> MappedBy(d, k)
           /\ Told(d, k)' <=> Told(d, k)
  BY <1>1, OthersKnow
<1>4. /\ Owned(b, About(b))' <=> Owned(b, About(b))
      /\ Mine(b, About(b))' <=> Mine(b, About(b))
      /\ MappedBy(b, About(b))' <=> MappedBy(b, About(b))
      /\ Told(b, About(b))' <=> Told(b, About(b))
  BY <1>2, <1>3 DEF Stage
<1>5. \A k \in Mallocs, d \in Rank :
        /\ Owned(d, k)' <=> Owned(d, k)
        /\ Mine(d, k)' <=> Mine(d, k)
        /\ MappedBy(d, k)' <=> MappedBy(d, k)
        /\ Told(d, k)' <=> Told(d, k)
  BY <1>3, <1>4
<1>6. QED
  BY <1>1, <1>5, SameKnowledge

(* A member speaks for those who have its progress rank, or for nobody.    *)
LEMMA SpeaksForSelf ==
  ASSUME CallsSound, SpeakersSound, Types, Places, NEW c \in Rank, step[c] \in DOMAIN program,
         NEW t \in Members(About(c))
  PROVE  /\ Spokesman(About(c), t) \in Rank
         /\ Spokesman(About(c), t) = c <=> Notifier(c) = c /\ master[t] = master[c]
<1>1. /\ About(c) \in Mallocs /\ c \in Members(About(c)) /\ Members(About(c)) = Members(step[c])
      /\ Notifier(c) = Spokesman(step[c], c)
  BY SegmentFacts
<1>2. About(c) \in DOMAIN program /\ Members(About(c)) \subseteq Rank
  BY <1>1, CallFacts
<1>3. Notifier(c) = Spokesman(About(c), c)
  BY <1>1 DEF Spokesman
<1>4. QED
  BY <1>1, <1>2, <1>3 DEF SpeakersSound

(* Register and Unregister: c maps, and unmaps, the segments it reaches.   *)
LEMMA UpdateStep ==
  ASSUME Scene, Types', NEW c \in Worker, Register(c) \/ Unregister(c)
  PROVE  Caches' /\ Distinct'
<1>1. /\ CallsSound /\ Types /\ SpeakersSound /\ Caches /\ Distinct /\ Places /\ Marches
      /\ c \in Rank
  BY DEF Scene, Worker
<1>2. /\ layout' = layout /\ program' = program /\ master' = master /\ step' = step /\ ptrs' = ptrs
      /\ rep' = rep /\ pc[c] = "update"
      /\ Register(c) => InCall(c).op = "malloc" /\ reg_cache' = [reg_cache EXCEPT ![c] = @ \cup Mapped(c)]
      /\ Unregister(c) => InCall(c).op = "free" /\ reg_cache' = [reg_cache EXCEPT ![c] = @ \ Mapped(c)]
  BY DEF Register, Unregister, In
<1>3. step[c] \in DOMAIN program
  BY <1>1, <1>2 DEF Places, PlaceAt
<1>4. pc' = [pc EXCEPT ![c] = IF Notifier(c) = c THEN "ack"
                              ELSE IF InCall(c).op = "malloc" THEN "end" ELSE "local"]
  BY <1>2 DEF Register, Unregister, Notify, Goto
<1>5. PICK k0 \in Mallocs :
        /\ k0 = About(c) /\ c \in Members(k0) /\ Members(k0) = Members(step[c])
        /\ \A s : s \in Mapped(c) <=>
             \E t \in Members(k0) : /\ t # c /\ ptrs[k0][t] # NULL
                                    /\ master[t] = master[c] /\ s = <<t, ptrs[k0][t]>>
  BY <1>1, <1>3, SegmentFacts
<1>6. Stage(c) /\ Stage(c)'
  BY <1>1, <1>2, <1>3, StageKept
<1>7. \A d \in Rank \ {c} : pc'[d] = pc[d] /\ rep'[d][master[d]] = rep[d][master[d]]
  BY <1>1, <1>2, <1>4 DEF Types
<1>8. /\ About(c)' = k0 /\ InCall(c)' = InCall(c)
      /\ \A k \in Mallocs, d \in Rank : d # c \/ k # k0 =>
           /\ Owned(d, k)' <=> Owned(d, k)
           /\ Mine(d, k)' <=> Mine(d, k)
           /\ MappedBy(d, k)' <=> MappedBy(d, k)
           /\ Told(d, k)' <=> Told(d, k)
  <2>1. About(c)' = About(c) /\ InCall(c)' = InCall(c)
    BY <1>1, <1>2, <1>3, <1>7, OthersKnow
  <2>2. \A k \in Mallocs, d \in Rank : d # c \/ k # About(c) =>
           /\ Owned(d, k)' <=> Owned(d, k)
           /\ Mine(d, k)' <=> Mine(d, k)
           /\ MappedBy(d, k)' <=> MappedBy(d, k)
           /\ Told(d, k)' <=> Told(d, k)
    BY <1>1, <1>2, <1>3, <1>7, OthersKnow
  <2>3. QED
    BY <1>5, <2>1, <2>2
<1>9. pc'[c] \in {"ack", "end", "local"} /\ (pc'[c] = "local" => InCall(c).op = "free")
      /\ (pc'[c] = "end" => InCall(c).op = "malloc")
  BY <1>1, <1>2, <1>4 DEF Types
<1>10. /\ Owned(c, k0)' <=> Owned(c, k0)
       /\ Mine(c, k0)' <=> Mine(c, k0)
       /\ MappedBy(c, k0)' <=> InCall(c).op = "malloc"
       /\ MappedBy(c, k0) <=> InCall(c).op # "malloc"
  BY <1>2, <1>5, <1>6, <1>8, <1>9 DEF Stage
<1>11. Notifier(c) = c => (Told(c, k0)' <=> Told(c, k0))
  <2>1. master[c] \in Rank
    BY <1>1 DEF Scene, RanksSound
  <2>2. rep[c][master[c]] = 0
    BY <1>2, <2>1, FlightFacts DEF Scene
  <2>3. Notifier(c) = c => pc'[c] = "ack"
    BY <1>1, <1>4 DEF Types
  <2>4. QED
    BY <1>2, <1>5, <1>6, <1>8, <2>2, <2>3 DEF Stage
<1>12. ASSUME NEW t \in Members(k0)
       PROVE  Told(Spokesman(k0, t), k0)' <=> Told(Spokesman(k0, t), k0)
  <2>1. Spokesman(k0, t) \in Rank /\ (Spokesman(k0, t) = c => Notifier(c) = c)
    BY <1>1, <1>3, <1>5, SpeaksForSelf
  <2>2. PICK s \in Rank : s = Spokesman(k0, t) /\ s = Spokesman(k0, t)'
    BY <1>2, <2>1, SameJob
  <2>3. Told(s, k0)' <=> Told(s, k0)
    BY <1>8, <1>11, <2>1, <2>2
  <2>4. QED
    BY <2>2, <2>3
<1>13. \A t \in Members(k0) : c # master[t] /\ t \in Rank
  BY <1>1, <1>5, CallFacts DEF Scene, RanksSound, Worker, Master
<1> DEFINE T == {t \in Members(k0) : t # c /\ master[t] = master[c]}
<1>14. ASSUME NEW r \in Rank, NEW k \in Mallocs, NEW t \in Members(k)
       PROVE  /\ k # k0 \/ r # c \/ t \notin T => (Known(r, k, t)' <=> Known(r, k, t))
              /\ k = k0 /\ r = c /\ t \in T => /\ Known(r, k, t)' <=> InCall(c).op = "malloc"
                                               /\ Known(r, k, t) <=> InCall(c).op # "malloc"
  <2>1. /\ Spokesman(k, t)' = Spokesman(k, t) /\ Members(k)' = Members(k)
        /\ Spokesman(k, t) \in Rank /\ t \in Rank
    BY <1>1, <1>2, CallFacts, SameJob DEF SpeakersSound
  <2>2. PICK s \in Rank : s = Spokesman(k, t) /\ s = Spokesman(k, t)'
    BY <2>1
  <2>3. Told(Spokesman(k, t), k)' <=> Told(s, k)'
    BY <2>2
  <2>4. Told(s, k)' <=> Told(s, k)
    BY <1>8, <1>12, <2>2, <2>3
  <2>5. Owned(t, k)' <=> Owned(t, k)
    BY <1>8, <1>10, <2>1
  <2>6. MappedBy(r, k)' <=> IF r = c /\ k = k0 THEN InCall(c).op = "malloc" ELSE MappedBy(r, k)
    BY <1>8, <1>10
  <2>7. Known(r, k, t)' <=> \/ r = t /\ Owned(t, k)
                            \/ r \in Members(k) \ {t} /\ master[r] = master[t] /\ MappedBy(r, k)'
                            \/ r = master[t] /\ Told(s, k)
    BY <1>2, <2>1, <2>3, <2>4, <2>5 DEF Known
  <2>8. Known(r, k, t) <=> \/ r = t /\ Owned(t, k)
                           \/ r \in Members(k) \ {t} /\ master[r] = master[t] /\ MappedBy(r, k)
                           \/ r = master[t] /\ Told(s, k)
    BY <2>2 DEF Known
  <2>9. QED
    BY <1>5, <1>10, <1>13, <2>6, <2>7, <2>8
<1>15. \A t \in Worker, a \in Address : <<t, a>> \in Mapped(c) <=> t \in T /\ ptrs[k0][t] = a
  BY <1>5, MallocAssumption
<1>16. T \subseteq Members(k0)
  OBVIOUS
<1>17. Distinct'
  <2>1. \A k \in Mallocs : \A t \in Members(k) : Mine(t, k)' => Mine(t, k)
    BY <1>1, <1>8, <1>10, CallFacts
  <2>2. QED
    BY <1>1, <1>2, <2>1, DistinctStays
<1> HIDE DEF T
<1>18. CASE Register(c)
  <2>1. \A r \in Rank, k \in Mallocs : \A t \in Members(k) :
          Known(r, k, t)' <=> Known(r, k, t) \/ (r = c /\ k = k0 /\ t \in T)
    BY <1>2, <1>14, <1>18
  <2>2. reg_cache' = [reg_cache EXCEPT ![c] = @ \cup Mapped(c)]
    BY <1>2, <1>18
  <2>3. /\ layout' = layout /\ program' = program /\ master' = master /\ ptrs' = ptrs
        /\ CallsSound /\ Types /\ Caches /\ c \in Rank
    BY <1>1, <1>2
  <2>4. Caches'
    BY <1>15, <1>16, <2>1, <2>2, <2>3, CachesGrow
  <2>5. QED
    BY <1>17, <2>4
<1>19. CASE Unregister(c)
  <2>1. \A r \in Rank, k \in Mallocs : \A t \in Members(k) :
          Known(r, k, t)' <=> Known(r, k, t) /\ ~(r = c /\ k = k0 /\ t \in T)
    BY <1>2, <1>14, <1>19
  <2>2. \A t \in T : Mine(t, k0)
    <3>1. \A t \in T : t \in Members(k0) /\ Known(c, k0, t)
      BY <1>1, <1>2, <1>5, <1>14, <1>16, <1>19
    <3>2. QED
      BY <1>1, <1>5, <3>1, KnownIsMine
  <2>3. Caches'
    BY SMTT(30), <1>1, <1>2, <1>5, <1>15, <1>16, <1>19, <2>1, <2>2, CachesShrink
  <2>4. QED
    BY <1>17, <2>3
<1>20. QED
  BY <1>18, <1>19


(* comex_malloc_local: what c gets was not in its cache.                   *)
LEMMA AllocateStep ==
  ASSUME Scene, Types', NEW c \in Worker, comex_malloc_local(c)
  PROVE  Caches' /\ Distinct'
<1>1. /\ CallsSound /\ Types /\ SpeakersSound /\ Caches /\ Distinct /\ Places /\ Marches
      /\ c \in Rank
  BY DEF Scene, Worker
<1>2. /\ layout' = layout /\ program' = program /\ master' = master /\ step' = step
      /\ rep' = rep /\ pc[c] = "allocate" /\ InCall(c).op = "malloc"
      /\ pc' = [pc EXCEPT ![c] = "gather"]
  BY DEF comex_malloc_local, In, Goto
<1>3. PICK a \in Address \cup {NULL} :
        /\ <<c, a>> \notin reg_cache[c]
        /\ ptrs' = [ptrs EXCEPT ![step[c]][c] = a]
        /\ reg_cache' = IF a = NULL THEN reg_cache
                        ELSE [reg_cache EXCEPT ![c] = @ \cup {<<c, a>>}]
  BY DEF comex_malloc_local
<1>4. step[c] \in DOMAIN program
  BY <1>1, <1>2 DEF Places, PlaceAt
<1>5. PICK k0 \in Mallocs : k0 = About(c) /\ k0 = step[c] /\ c \in Members(k0) /\ k0 \in DOMAIN program
  BY <1>1, <1>2, <1>4, SegmentFacts
<1>6. Stage(c) /\ Stage(c)'
  BY <1>1, <1>2, <1>4, StageKept
<1>7. \A d \in Rank \ {c} : pc'[d] = pc[d] /\ rep'[d][master[d]] = rep[d][master[d]]
  BY <1>1, <1>2 DEF Types
<1>8. About(c)' = k0 /\ InCall(c)' = InCall(c)
  BY <1>1, <1>2, <1>4, <1>5, <1>7, OthersKnow
<1>9. \A k \in Mallocs, d \in Rank : d # c \/ k # k0 =>
        /\ Owned(d, k)' <=> Owned(d, k)
        /\ Mine(d, k)' <=> Mine(d, k)
        /\ MappedBy(d, k)' <=> MappedBy(d, k)
        /\ Told(d, k)' <=> Told(d, k)
  BY <1>1, <1>2, <1>4, <1>5, <1>7, OthersKnow
<1>10. /\ Owned(c, k0)' /\ Mine(c, k0)' /\ ~Owned(c, k0) /\ ~Mine(c, k0)
       /\ MappedBy(c, k0)' <=> MappedBy(c, k0)
       /\ Told(c, k0)' <=> Told(c, k0)
  <2>1. pc'[c] = "gather"
    BY <1>1, <1>2 DEF Types
  <2>2. QED
    BY <1>2, <1>5, <1>6, <1>8, <2>1 DEF Stage
<1>11. ASSUME NEW r \in Rank, NEW k \in Mallocs, NEW t \in Members(k)
       PROVE  /\ Known(r, k, t)' <=> Known(r, k, t) \/ (r = c /\ k = k0 /\ t = c)
              /\ k = k0 /\ t = c => ~Known(r, k, t)
              /\ ptrs'[k][t] = IF k = k0 /\ t = c THEN a ELSE ptrs[k][t]
              /\ Mine(t, k)' <=> Mine(t, k) \/ (k = k0 /\ t = c)
              /\ t \in Rank
  <2>1. /\ Members(k)' = Members(k) /\ Spokesman(k, t) \in Rank /\ t \in Rank
        /\ Spokesman(k, t)' = Spokesman(k, t) /\ k \in DOMAIN program
    BY <1>1, <1>2, CallFacts, SameJob DEF SpeakersSound
  <2>2. PICK s \in Rank : s = Spokesman(k, t) /\ s = Spokesman(k, t)'
    BY <2>1
  <2>3. Told(s, k)' <=> Told(s, k)
    BY <1>9, <1>10
  <2>4. MappedBy(r, k)' <=> MappedBy(r, k)
    BY <1>9, <1>10
  <2>5. Owned(t, k)' <=> Owned(t, k) \/ (k = k0 /\ t = c)
    BY <1>9, <1>10, <2>1
  <2>6. Told(Spokesman(k, t), k)' <=> Told(s, k)'
    BY <2>2
  <2>7. k = k0 /\ t = c => ~Known(r, k, t)
    BY <1>1, <1>10, KnownIsMine
  <2>8. Known(r, k, t)' <=> \/ r = t /\ Owned(t, k)'
                            \/ r \in Members(k) \ {t} /\ master[r] = master[t] /\ MappedBy(r, k)
                            \/ r = master[t] /\ Told(s, k)
    BY <1>2, <2>1, <2>3, <2>4, <2>6 DEF Known
  <2>9. Known(r, k, t) <=> \/ r = t /\ Owned(t, k)
                           \/ r \in Members(k) \ {t} /\ master[r] = master[t] /\ MappedBy(r, k)
                           \/ r = master[t] /\ Told(s, k)
    BY <2>2 DEF Known
  <2>10. ptrs'[k][t] = IF k = k0 /\ t = c THEN a ELSE ptrs[k][t]
    BY <1>1, <1>3, <1>5, <2>1 DEF Types
  <2>11. Mine(t, k)' <=> Mine(t, k) \/ (k = k0 /\ t = c)
    BY <1>9, <1>10, <2>1
  <2>12. QED
    BY <2>1, <2>5, <2>7, <2>8, <2>9, <2>10, <2>11
<1>12. Worker' = Worker /\ Mallocs' = Mallocs /\ \A k : Members(k)' = Members(k)
  BY <1>2, SameJob
<1>13. Caches'
  <2>1. ASSUME NEW r \in Rank, NEW t \in Worker, NEW b \in Address
        PROVE  <<t, b>> \in reg_cache'[r] <=>
                 \E k \in Mallocs : t \in Members(k) /\ ptrs'[k][t] = b /\ Known(r, k, t)'
    <3>1. <<t, b>> \in reg_cache[r] <=>
            \E k \in Mallocs : t \in Members(k) /\ ptrs[k][t] = b /\ Known(r, k, t)
      BY <1>1 DEF Caches, CacheAt
    <3>2. <<t, b>> \in reg_cache'[r] <=> <<t, b>> \in reg_cache[r] \/ (r = c /\ t = c /\ a = b)
      <4>1. b # NULL
        BY MallocAssumption
      <4>2. QED
        BY <1>1, <1>3, <4>1 DEF Types
    <3>3. QED
      BY <1>5, <1>11, <3>1, <3>2
  <2>2. ASSUME NEW r \in Rank PROVE CacheAt(r)'
    BY <1>12, <2>1 DEF CacheAt
  <2>3. QED
    BY <2>2 DEF Caches
<1>14. ASSUME NEW i \in Mallocs, i # k0, c \in Members(i), Mine(c, i), a # NULL, ptrs[i][c] = a
       PROVE  FALSE
  <2>1. \A j \in Frees(i) : j \in Nat /\ program[j].op = "free"
    BY <1>1, CallFacts
  <2>2. \A j \in Frees(i) : ~Finished(c, j)
    BY <1>1, <1>2, <1>14, <2>1 DEF Mine, Finished, Past, Types
  <2>3. Known(c, i, c)
    BY <1>14, <2>2 DEF Mine, Owned, Known
  <2>4. QED
    BY <1>1, <1>3, <1>14, <2>3 DEF Caches, CacheAt
<1>15. Distinct'
  <2>1. ASSUME NEW k \in Mallocs, NEW i \in Mallocs, NEW t \in Members(k) \cap Members(i),
               Mine(t, k)', Mine(t, i)', ptrs'[k][t] = ptrs'[i][t], ptrs'[k][t] # NULL
        PROVE  k = i
    <3>1. ASSUME NEW h \in {k, i}
          PROVE  /\ ptrs'[h][t] = IF h = k0 /\ t = c THEN a ELSE ptrs[h][t]
                 /\ Mine(t, h)' <=> Mine(t, h) \/ (h = k0 /\ t = c)
      BY <1>1, <1>11
    <3>2. CASE t # c \/ (k # k0 /\ i # k0)
      BY <1>1, <2>1, <3>1, <3>2 DEF Distinct
    <3>3. CASE t = c /\ k = k0
      <4>1. i # k0 => Mine(c, i) /\ ptrs[i][c] = a /\ a # NULL
        BY <2>1, <3>1, <3>3
      <4>2. QED
        BY <1>14, <3>3, <4>1
    <3>4. CASE t = c /\ i = k0
      <4>1. k # k0 => Mine(c, k) /\ ptrs[k][c] = a /\ a # NULL
        BY <2>1, <3>1, <3>4
      <4>2. QED
        BY <1>14, <3>4, <4>1
    <3>5. QED
      BY <3>2, <3>3, <3>4
  <2>2. QED
    BY <1>12, <2>1 DEF Distinct
<1>16. QED
  BY <1>13, <1>15

(* comex_free_local: c gives its own segment back.                         *)
LEMMA GiveBackStep ==
  ASSUME Scene, Types', NEW c \in Worker, comex_free_local(c)
  PROVE  Caches' /\ Distinct'
<1>1. /\ CallsSound /\ Types /\ SpeakersSound /\ Caches /\ Distinct /\ Places /\ Marches
      /\ c \in Rank
  BY DEF Scene, Worker
<1>2. /\ layout' = layout /\ program' = program /\ master' = master /\ step' = step /\ ptrs' = ptrs
      /\ rep' = rep /\ pc[c] = "local"
      /\ pc' = [pc EXCEPT ![c] = "end"]
      /\ reg_cache' = [reg_cache EXCEPT ![c] = @ \ Own(c)]
  BY DEF comex_free_local, Goto
<1>3. step[c] \in DOMAIN program /\ InCall(c).op = "free"
  BY <1>1, <1>2 DEF Places, PlaceAt
<1>4. PICK k0 \in Mallocs :
        /\ k0 = About(c) /\ c \in Members(k0)
        /\ \A s : s \in Own(c) <=>
             s = <<c, ptrs[k0][c]>> /\ (InCall(c).op = "malloc" => ptrs[k0][c] # NULL)
  BY <1>1, <1>3, SegmentFacts
<1>5. Stage(c) /\ Stage(c)'
  BY <1>1, <1>2, <1>3, StageKept
<1>6. \A d \in Rank \ {c} : pc'[d] = pc[d] /\ rep'[d][master[d]] = rep[d][master[d]]
  BY <1>1, <1>2 DEF Types
<1>7. About(c)' = k0 /\ InCall(c)' = InCall(c)
  BY <1>1, <1>2, <1>3, <1>4, <1>6, OthersKnow
<1>8. \A k \in Mallocs, d \in Rank : d # c \/ k # k0 =>
        /\ Owned(d, k)' <=> Owned(d, k)
        /\ Mine(d, k)' <=> Mine(d, k)
        /\ MappedBy(d, k)' <=> MappedBy(d, k)
        /\ Told(d, k)' <=> Told(d, k)
  BY <1>1, <1>2, <1>3, <1>4, <1>6, OthersKnow
<1>9. /\ ~Owned(c, k0)' /\ Mine(c, k0)' /\ Owned(c, k0) /\ Mine(c, k0)
      /\ MappedBy(c, k0)' <=> MappedBy(c, k0)
      /\ Told(c, k0)' <=> Told(c, k0)
  <2>1. pc'[c] = "end"
    BY <1>1, <1>2 DEF Types
  <2>2. QED
    BY <1>2, <1>3, <1>4, <1>5, <1>7, <2>1 DEF Stage
<1>10. \A t \in Worker : t # master[t]
  BY DEF Worker, Master
<1>11. ASSUME NEW r \in Rank, NEW k \in Mallocs, NEW t \in Members(k)
       PROVE  /\ Known(r, k, t)' <=> Known(r, k, t) /\ ~(r = c /\ k = k0 /\ t \in {c})
              /\ Mine(t, k)' <=> Mine(t, k)
  <2>1. /\ Members(k)' = Members(k) /\ Spokesman(k, t) \in Rank /\ t \in Rank
        /\ Spokesman(k, t)' = Spokesman(k, t) /\ k \in DOMAIN program
    BY <1>1, <1>2, CallFacts, SameJob DEF SpeakersSound
  <2>2. PICK s \in Rank : s = Spokesman(k, t) /\ s = Spokesman(k, t)'
    BY <2>1
  <2>3. Told(s, k)' <=> Told(s, k)
    BY <1>8, <1>9
  <2>4. MappedBy(r, k)' <=> MappedBy(r, k)
    BY <1>8, <1>9
  <2>5. Owned(t, k)' <=> Owned(t, k) /\ ~(k = k0 /\ t = c)
    BY <1>8, <1>9, <2>1
  <2>6. Told(Spokesman(k, t), k)' <=> Told(s, k)'
    BY <2>2
  <2>7. t # master[t]
    BY <1>1, <1>10, CallFacts
  <2>8. Known(r, k, t)' <=> \/ r = t /\ Owned(t, k)'
                            \/ r \in Members(k) \ {t} /\ master[r] = master[t] /\ MappedBy(r, k)
                            \/ r = master[t] /\ Told(s, k)
    BY <1>2, <2>1, <2>3, <2>4, <2>6 DEF Known
  <2>9. Known(r, k, t) <=> \/ r = t /\ Owned(t, k)
                           \/ r \in Members(k) \ {t} /\ master[r] = master[t] /\ MappedBy(r, k)
                           \/ r = master[t] /\ Told(s, k)
    BY <2>2 DEF Known
  <2>10. Mine(t, k)' <=> Mine(t, k)
    BY <1>8, <1>9, <2>1
  <2>11. QED
    BY <2>5, <2>7, <2>8, <2>9, <2>10
<1>12. Caches'
  <2>1. {c} \subseteq Members(k0) /\ \A t \in {c} : Mine(t, k0)
    BY <1>4, <1>9
  <2>2. \A t \in Worker, a \in Address : <<t, a>> \in Own(c) <=> t \in {c} /\ ptrs[k0][t] = a
    BY <1>3, <1>4
  <2>3. \A r \in Rank, k \in Mallocs : \A t \in Members(k) :
          Known(r, k, t)' <=> Known(r, k, t) /\ ~(r = c /\ k = k0 /\ t \in {c})
    BY <1>11
  <2>4. reg_cache' = [reg_cache EXCEPT ![c] = @ \ Own(c)]
    BY <1>2
  <2>5. layout' = layout /\ program' = program /\ master' = master /\ ptrs' = ptrs
    BY <1>2
  <2>6. QED
    BY ZenonT(60), <1>1, <2>1, <2>2, <2>3, <2>4, <2>5, CachesShrink
<1>13. Distinct'
  <2>1. \A k \in Mallocs : \A t \in Members(k) : Mine(t, k)' => Mine(t, k)
    BY <1>1, <1>11
  <2>2. QED
    BY <1>1, <1>2, <2>1, DistinctStays
<1>14. QED
  BY <1>12, <1>13

(* What a progress rank is asked to map, or to unmap: all segments of the  *)
(* call that it serves.                                                    *)
LEMMA AskedFacts ==
  ASSUME Scene, NEW m \in Master, NEW c \in Worker,
         Pending(m, c, "MALLOC") \/ Pending(m, c, "FREE")
  PROVE  /\ pc[c] = "ack" /\ m = master[c] /\ Notifier(c) = c /\ step[c] \in DOMAIN program
         /\ rep[c][m] = 0
         /\ Pending(m, c, "MALLOC") <=> InCall(c).op = "malloc"
         /\ Pending(m, c, "FREE") <=> InCall(c).op # "malloc"
         /\ About(c) \in Mallocs
         /\ \A t \in Members(About(c)) : Spokesman(About(c), t) = c <=> master[t] = m
         /\ \A t \in Worker, a \in Address :
              <<t, a>> \in Entries(m, c) <=>
                t \in {u \in Members(About(c)) : master[u] = m} /\ ptrs[About(c)][t] = a
<1>1. /\ CallsSound /\ RanksSound /\ Types /\ SpeakersSound /\ Places /\ Channels
      /\ c \in Rank /\ m \in Rank
  BY DEF Scene, Worker, Master
<1>2. req[c][m] # << >> /\ Head(req[c][m]).op \in {"MALLOC", "FREE"}
  BY DEF Pending
<1>3. RequestAt(c, m, Head(req[c][m])) /\ rep[c][m] = 0
  BY <1>1, <1>2, HeadFacts
<1>4. /\ pc[c] = "ack" /\ m = master[c]
      /\ Head(req[c][m]) = Header(IF InCall(c).op = "malloc" THEN "MALLOC" ELSE "FREE",
                                  Mapped(c) \cup Own(c))
  BY <1>2, <1>3 DEF RequestAt
<1>5. Notifier(c) = c /\ step[c] \in DOMAIN program
  BY <1>1, <1>4 DEF Places, PlaceAt
<1>6. PICK k0 \in Mallocs :
        /\ k0 = About(c) /\ c \in Members(k0)
        /\ \A s : s \in Mapped(c) <=>
             \E t \in Members(k0) : /\ t # c /\ ptrs[k0][t] # NULL
                                    /\ master[t] = master[c] /\ s = <<t, ptrs[k0][t]>>
        /\ \A s : s \in Own(c) <=>
             s = <<c, ptrs[k0][c]>> /\ (InCall(c).op = "malloc" => ptrs[k0][c] # NULL)
  BY <1>1, <1>5, SegmentFacts
<1>7. \A t \in Members(k0) : Spokesman(k0, t) = c <=> master[t] = m
  BY <1>1, <1>4, <1>5, <1>6, SpeaksForSelf
<1>8. ASSUME NEW t \in Worker, NEW a \in Address
      PROVE  <<t, a>> \in Entries(m, c) <=>
               t \in {u \in Members(k0) : master[u] = m} /\ ptrs[k0][t] = a
  <2>1. a # NULL /\ t \in Rank
    BY MallocAssumption DEF Worker
  <2>2. <<t, a>> \in Head(req[c][m]).entries <=>
          t \in {u \in Members(k0) : master[u] = m} /\ ptrs[k0][t] = a
    <3>1. Head(req[c][m]).entries = Mapped(c) \cup Own(c)
      BY <1>4 DEF Header
    <3>2. <<t, a>> \in Own(c) <=> t = c /\ ptrs[k0][c] = a
      BY <1>6, <2>1
    <3>3. <<t, a>> \in Mapped(c) <=> /\ t \in Members(k0) /\ t # c /\ ptrs[k0][t] = a
                                     /\ master[t] = m
      BY <1>4, <1>6, <2>1
    <3>4. QED
      BY <1>4, <1>6, <3>1, <3>2, <3>3
  <2>3. master[t] = m => layout.host[t] = layout.host[m]
    BY <1>1, <2>1 DEF RanksSound
  <2>4. <<t, a>> \in Entries(m, c) <=>
          <<t, a>> \in Head(req[c][m]).entries /\ layout.host[t] = layout.host[m]
    BY <2>1 DEF Entries
  <2>5. QED
    BY <2>2, <2>3, <2>4
<1>9. /\ Pending(m, c, "MALLOC") <=> InCall(c).op = "malloc"
      /\ Pending(m, c, "FREE") <=> InCall(c).op # "malloc"
  BY <1>2, <1>4 DEF Pending, Header
<1>10. QED
  BY <1>3, <1>4, <1>5, <1>6, <1>7, <1>8, <1>9

(* _malloc_handler and _free_handler: the progress rank maps, and unmaps,  *)
(* the segments it serves.                                                 *)
LEMMA HandlerStep ==
  ASSUME Scene, Types', NEW m \in Master, NEW c \in Worker, malloc_handler(m, c) \/ free_handler(m, c)
  PROVE  Caches' /\ Distinct'
<1>1. /\ CallsSound /\ RanksSound /\ Types /\ SpeakersSound /\ Caches /\ Distinct /\ Places
      /\ Marches /\ c \in Rank /\ m \in Rank
  BY DEF Scene, Worker, Master
<1>2. /\ layout' = layout /\ program' = program /\ master' = master /\ step' = step /\ ptrs' = ptrs
      /\ pc' = pc /\ rep' = [rep EXCEPT ![c][m] = @ + 1]
  BY DEF malloc_handler, free_handler, server_send
<1>3. /\ malloc_handler(m, c) => /\ Pending(m, c, "MALLOC")
                                 /\ reg_cache' = [reg_cache EXCEPT ![m] = @ \cup Entries(m, c)]
      /\ free_handler(m, c) => /\ Pending(m, c, "FREE")
                               /\ reg_cache' = [reg_cache EXCEPT ![m] = @ \ Entries(m, c)]
  BY DEF malloc_handler, free_handler
<1>4. PICK k0 \in Mallocs : k0 = About(c)
  BY <1>3, AskedFacts
<1>5. PICK T : T = {u \in Members(k0) : master[u] = m}
  OBVIOUS
<1>6. /\ pc[c] = "ack" /\ m = master[c] /\ Notifier(c) = c /\ step[c] \in DOMAIN program
      /\ rep[c][m] = 0
      /\ Pending(m, c, "MALLOC") <=> InCall(c).op = "malloc"
      /\ Pending(m, c, "FREE") <=> InCall(c).op # "malloc"
      /\ \A t \in Members(k0) : Spokesman(k0, t) = c <=> master[t] = m
      /\ \A t \in Worker, a \in Address : <<t, a>> \in Entries(m, c) <=> t \in T /\ ptrs[k0][t] = a
  BY <1>3, <1>4, <1>5, AskedFacts
<1>7. Stage(c) /\ Stage(c)'
  BY <1>1, <1>2, <1>6, StageKept
<1>8. \A d \in Rank \ {c} : pc'[d] = pc[d] /\ rep'[d][master[d]] = rep[d][master[d]]
  BY <1>1, <1>2 DEF Types
<1>9. About(c)' = k0 /\ InCall(c)' = InCall(c)
  BY <1>1, <1>2, <1>4, <1>6, <1>8, OthersKnow
<1>10. \A k \in Mallocs, d \in Rank : d # c \/ k # k0 =>
         /\ Owned(d, k)' <=> Owned(d, k)
         /\ Mine(d, k)' <=> Mine(d, k)
         /\ MappedBy(d, k)' <=> MappedBy(d, k)
         /\ Told(d, k)' <=> Told(d, k)
  BY <1>1, <1>2, <1>4, <1>6, <1>8, OthersKnow
<1>11. /\ Owned(c, k0)' <=> Owned(c, k0)
       /\ Mine(c, k0)' <=> Mine(c, k0)
       /\ MappedBy(c, k0)' <=> MappedBy(c, k0)
       /\ Told(c, k0)' <=> InCall(c).op = "malloc"
       /\ Told(c, k0) <=> InCall(c).op # "malloc"
  <2>1. rep'[c][master[c]] > 0 /\ ~(rep[c][master[c]] > 0)
    BY <1>1, <1>2, <1>6 DEF Types
  <2>2. QED
    BY <1>2, <1>4, <1>6, <1>7, <1>9, <2>1 DEF Stage
<1>12. ASSUME NEW r \in Rank, NEW k \in Mallocs, NEW t \in Members(k)
       PROVE  /\ k # k0 \/ r # m \/ t \notin T => (Known(r, k, t)' <=> Known(r, k, t))
              /\ k = k0 /\ r = m /\ t \in T => /\ Known(r, k, t)' <=> InCall(c).op = "malloc"
                                               /\ Known(r, k, t) <=> InCall(c).op # "malloc"
              /\ Mine(t, k)' <=> Mine(t, k)
  <2>1. /\ Members(k)' = Members(k) /\ Spokesman(k, t) \in Rank /\ t \in Rank
        /\ Spokesman(k, t)' = Spokesman(k, t) /\ k \in DOMAIN program /\ Members(k) \subseteq Worker
    BY <1>1, <1>2, CallFacts, SameJob DEF SpeakersSound
  <2>2. PICK s \in Rank : s = Spokesman(k, t) /\ s = Spokesman(k, t)'
    BY <2>1
  <2>3. MappedBy(r, k)' <=> MappedBy(r, k)
    BY <1>10, <1>11
  <2>4. Owned(t, k)' <=> Owned(t, k)
    BY <1>10, <1>11, <2>1
  <2>5. Told(Spokesman(k, t), k)' <=> Told(s, k)'
    BY <2>2
  <2>6. Told(s, k)' <=> IF s = c /\ k = k0 THEN InCall(c).op = "malloc" ELSE Told(s, k)
    BY <1>10, <1>11
  <2>7. Known(r, k, t)' <=> \/ r = t /\ Owned(t, k)
                            \/ r \in Members(k) \ {t} /\ master[r] = master[t] /\ MappedBy(r, k)
                            \/ r = master[t] /\ Told(s, k)'
    BY <1>2, <2>1, <2>3, <2>4, <2>5 DEF Known
  <2>8. Known(r, k, t) <=> \/ r = t /\ Owned(t, k)
                           \/ r \in Members(k) \ {t} /\ master[r] = master[t] /\ MappedBy(r, k)
                           \/ r = master[t] /\ Told(s, k)
    BY <2>2 DEF Known
  <2>9. m \notin Members(k)
    BY <2>1 DEF Worker
  <2>10. k = k0 => (s = c <=> t \in T)
    BY <1>5, <1>6, <2>2
  <2>11. t \in T => master[t] = m
    BY <1>5
  <2>12. k # k0 \/ r # m \/ t \notin T => (Known(r, k, t)' <=> Known(r, k, t))
    <3>1. CASE k # k0 \/ s # c
      BY <2>6, <2>7, <2>8, <3>1
    <3>2. CASE k = k0 /\ s = c /\ r # m
      <4>1. master[t] = m
        BY <2>10, <2>11, <3>2
      <4>2. QED
        BY <2>7, <2>8, <3>2, <4>1
    <3>3. QED
      BY <2>10, <3>1, <3>2
  <2>13. k = k0 /\ r = m /\ t \in T => /\ Known(r, k, t)' <=> InCall(c).op = "malloc"
                                       /\ Known(r, k, t) <=> InCall(c).op # "malloc"
    BY <1>11, <2>6, <2>7, <2>8, <2>9, <2>10, <2>11
  <2>14. Mine(t, k)' <=> Mine(t, k)
    BY <1>10, <1>11, <2>1
  <2>15. QED
    BY <2>12, <2>13, <2>14
<1>13. T \subseteq Members(k0)
  BY <1>5
<1>14. Distinct'
  <2>1. \A k \in Mallocs : \A t \in Members(k) : Mine(t, k)' => Mine(t, k)
    BY <1>1, <1>12
  <2>2. QED
    BY <1>1, <1>2, <2>1, DistinctStays
<1>15. /\ layout' = layout /\ program' = program /\ master' = master /\ ptrs' = ptrs
       /\ CallsSound /\ SpeakersSound /\ Types /\ Places /\ Marches /\ Caches /\ Distinct
       /\ m \in Rank
       /\ \A t \in Worker, a \in Address : <<t, a>> \in Entries(m, c) <=> t \in T /\ ptrs[k0][t] = a
  BY <1>1, <1>2, <1>6
<1>16. CASE malloc_handler(m, c)
  <2>1. \A r \in Rank, k \in Mallocs : \A t \in Members(k) :
          Known(r, k, t)' <=> Known(r, k, t) \/ (r = m /\ k = k0 /\ t \in T)
    BY <1>3, <1>6, <1>12, <1>16
  <2>2. reg_cache' = [reg_cache EXCEPT ![m] = @ \cup Entries(m, c)]
    BY <1>3, <1>16
  <2>3. Caches'
    BY ZenonT(60), <1>13, <1>15, <2>1, <2>2, CachesGrow
  <2>4. QED
    BY <1>14, <2>3
<1>17. CASE free_handler(m, c)
  <2>1. \A r \in Rank, k \in Mallocs : \A t \in Members(k) :
          Known(r, k, t)' <=> Known(r, k, t) /\ ~(r = m /\ k = k0 /\ t \in T)
    BY <1>3, <1>6, <1>12, <1>17
  <2>2. reg_cache' = [reg_cache EXCEPT ![m] = @ \ Entries(m, c)]
    BY <1>3, <1>17
  <2>3. \A t \in T : Mine(t, k0)
    <3>1. \A t \in T : t \in Members(k0) /\ Known(m, k0, t)
      BY <1>1, <1>3, <1>6, <1>12, <1>13, <1>17
    <3>2. QED
      BY <1>1, <3>1, KnownIsMine
  <2>4. Caches'
    BY ZenonT(60), <1>13, <1>15, <2>1, <2>2, <2>3, CachesShrink
  <2>5. QED
    BY <1>14, <2>4
<1>18. QED
  BY <1>16, <1>17

(* The collectives change no cache: nobody knows more or less for entering *)
(* or leaving one.                                                         *)
LEMMA CollectiveStep ==
  ASSUME Scene, NEW j \in DOMAIN program, FirstBarrier(j) \/ MPI_Allgather(j) \/ LastBarrier(j)
  PROVE  Caches' /\ Distinct'
<1>1. /\ CallsSound /\ Types /\ SpeakersSound /\ Caches /\ Distinct
  BY DEF Scene
<1>2. /\ layout' = layout /\ program' = program /\ master' = master /\ ptrs' = ptrs
      /\ reg_cache' = reg_cache /\ rep' = rep
  BY DEF FirstBarrier, MPI_Allgather, LastBarrier
<1>3. j \in Nat /\ j + 1 \in Nat /\ j + 1 > 0 /\ j + 1 <= Len(program) + 1 /\ Len(program) \in Nat
  BY <1>1, CallFacts
<1>4. ASSUME NEW k \in DOMAIN program, NEW d \in Members(k)
      PROVE  /\ program[k].op = "malloc" => (Allocated(d, k)' <=> Allocated(d, k))
             /\ Mapping(d, k)' <=> Mapping(d, k)
             /\ Spoken(d, k)' <=> Spoken(d, k)
             /\ Finished(d, k)' <=> Finished(d, k)
             /\ step[d] > k => step'[d] > k
  <2>1. d \in Rank /\ k \in Nat /\ step[d] \in Nat
    BY <1>1, CallFacts DEF Types
  <2>2. CASE d \notin Members(j)
    <3>1. pc'[d] = pc[d] /\ step'[d] = step[d]
      BY <2>1, <2>2 DEF FirstBarrier, MPI_Allgather, LastBarrier, Leave, Members
    <3>2. QED
      BY <1>2, <3>1 DEF Allocated, Mapping, Spoken, Finished, Answered, Past
  <2>3. CASE d \in Members(j) /\ FirstBarrier(j)
    <3>1. /\ step[d] = j /\ pc[d] = "barrier" /\ step'[d] = j
          /\ pc'[d] = IF program[j].op = "malloc" THEN "allocate" ELSE "gather"
      BY <2>1, <2>3 DEF FirstBarrier, Leave, Members
    <3>2. QED
      BY <1>2, <1>3, <2>1, <3>1 DEF Allocated, Mapping, Spoken, Finished, Answered, Past
  <2>4. CASE d \in Members(j) /\ MPI_Allgather(j)
    <3>1. step[d] = j /\ pc[d] = "gather" /\ step'[d] = j /\ pc'[d] = "update"
      BY <2>1, <2>4 DEF MPI_Allgather, Leave, Members
    <3>2. QED
      BY <1>2, <1>3, <2>1, <3>1 DEF Allocated, Mapping, Spoken, Finished, Answered, Past
  <2>5. CASE d \in Members(j) /\ LastBarrier(j)
    <3>1. /\ step[d] = j /\ pc[d] = "end" /\ pc'[d] = "user" /\ step'[d] = NextCall(d, j + 1)
      BY <2>1, <2>5 DEF LastBarrier, Leave, Members
    <3>2. /\ NextCall(d, j + 1) \in (j + 1) .. (Len(program) + 1)
          /\ \A i \in DOMAIN program : j + 1 <= i /\ d \in Members(i) => NextCall(d, j + 1) <= i
      BY <1>1, <1>3, <2>1, NextSound
    <3>3. /\ step'[d] \in Nat /\ step'[d] > j
          /\ j < k => step'[d] <= k
      BY <1>3, <2>1, <3>1, <3>2
    <3>4. QED
      BY <1>3, <2>1, <3>1, <3>3 DEF Allocated, Mapping, Spoken, Finished, Answered, Past
  <2>6. QED
    BY <2>2, <2>3, <2>4, <2>5
<1>5. ASSUME NEW k \in Mallocs, NEW d \in Members(k)
      PROVE  /\ Owned(d, k)' <=> Owned(d, k)
             /\ Mine(d, k)' => Mine(d, k)
             /\ MappedBy(d, k)' <=> MappedBy(d, k)
             /\ Told(d, k)' <=> Told(d, k)
  <2>1. /\ k \in DOMAIN program /\ program[k].op = "malloc" /\ Frees(k)' = Frees(k)
        /\ d \in Rank /\ step[d] \in Nat /\ step'[d] \in Nat
    <3>1. step'[d] \in Nat
      <4>1. d \in Rank
        BY <1>1, CallFacts
      <4>2. NextCall(d, j + 1) \in (j + 1) .. (Len(program) + 1)
        BY <1>1, <1>3, <4>1, NextSound
      <4>3. step'[d] = step[d] \/ step'[d] = NextCall(d, j + 1)
        BY <4>1 DEF FirstBarrier, MPI_Allgather, LastBarrier
      <4>4. QED
        BY <1>1, <1>3, <4>1, <4>2, <4>3 DEF Types
    <3>2. QED
      BY <1>1, <1>2, <3>1, CallFacts, SameJob DEF Mallocs, Types
  <2>2. /\ Allocated(d, k)' <=> Allocated(d, k)
        /\ Mapping(d, k)' <=> Mapping(d, k)
        /\ Spoken(d, k)' <=> Spoken(d, k)
    BY <1>4, <2>1
  <2>3. \A i \in Frees(k) : /\ Mapping(d, i)' <=> Mapping(d, i)
                            /\ Spoken(d, i)' <=> Spoken(d, i)
                            /\ Finished(d, i)' <=> Finished(d, i)
                            /\ step'[d] <= i => step[d] <= i
    <3>1. \A i \in Frees(k) : i \in DOMAIN program /\ i \in Nat /\ d \in Members(i)
      BY <1>1, CallFacts
    <3>2. QED
      BY <1>4, <2>1, <3>1
  <2>4. QED
    BY <2>1, <2>2, <2>3 DEF Owned, Mine, MappedBy, Told
<1>6. \A k \in Mallocs, d \in Rank :
        d \in Members(k) => /\ Owned(d, k)' <=> Owned(d, k)
                            /\ Mine(d, k)' => Mine(d, k)
                            /\ MappedBy(d, k)' <=> MappedBy(d, k)
                            /\ Told(d, k)' <=> Told(d, k)
  BY <1>5
<1>7. QED
  BY <1>1, <1>2, <1>6, SameKnowledge

(* While every worker stays where it is, only an answer to one that waits  *)
(* for its progress rank is news.                                          *)
LEMMA StillStep ==
  ASSUME Scene, layout' = layout, program' = program, master' = master, ptrs' = ptrs,
         reg_cache' = reg_cache, pc' = pc, step' = step,
         \A d \in Rank : pc[d] = "ack" => rep'[d][master[d]] = rep[d][master[d]]
  PROVE  Caches' /\ Distinct'
<1>1. CallsSound /\ Types /\ SpeakersSound /\ Caches /\ Distinct
  BY DEF Scene
<1>2. ASSUME NEW d \in Rank, NEW k
      PROVE  /\ Allocated(d, k)' <=> Allocated(d, k)
             /\ Mapping(d, k)' <=> Mapping(d, k)
             /\ Spoken(d, k)' <=> Spoken(d, k)
             /\ Finished(d, k)' <=> Finished(d, k)
             /\ step'[d] <= k <=> step[d] <= k
  BY DEF Allocated, Mapping, Spoken, Answered, Finished, Past
<1>3. ASSUME NEW k \in Mallocs, NEW d \in Rank
      PROVE  /\ Owned(d, k)' <=> Owned(d, k)
             /\ Mine(d, k)' => Mine(d, k)
             /\ MappedBy(d, k)' <=> MappedBy(d, k)
             /\ Told(d, k)' <=> Told(d, k)
  BY <1>2, SameJob DEF Owned, Mine, MappedBy, Told
<1>4. QED
  BY <1>1, <1>3, SameKnowledge

(* Every step keeps the caches in step with the segments.                  *)
LEMMA CachesStep ==
  ASSUME Scene, Types', [Next]_vars
  PROVE  Caches' /\ Distinct'
<1>1. Types /\ Places /\ Channels /\ Worker \subseteq Rank /\ Master \subseteq Rank
  BY DEF Scene, Worker, Master
<1>2. ASSUME NEW c \in Worker, WorkerStep(c) PROVE Caches' /\ Distinct'
  <2>1. CASE CallCollective(c)
    BY <1>1, <2>1, QuietMove DEF CallCollective, Goto, Types
  <2>2. CASE FenceDone(c)
    <3>1. /\ layout' = layout /\ program' = program /\ master' = master /\ step' = step
          /\ ptrs' = ptrs /\ reg_cache' = reg_cache /\ pc[c] = "fence" /\ pc'[c] = "barrier"
          /\ \A d \in Rank \ {c} : pc'[d] = pc[d] /\ rep'[d][master[d]] = rep[d][master[d]]
      BY <1>1, <2>2 DEF FenceDone, Goto, Types
    <3>2. step[c] \in DOMAIN program
      BY <1>1, <3>1 DEF Places, PlaceAt
    <3>3. QED
      BY <1>1, <3>1, <3>2, QuietMove
  <2>3. CASE comex_malloc_local(c)
    BY <2>3, AllocateStep
  <2>4. CASE Register(c) \/ Unregister(c)
    BY <2>4, UpdateStep
  <2>5. CASE Acknowledged(c)
    <3>1. /\ layout' = layout /\ program' = program /\ master' = master /\ step' = step
          /\ ptrs' = ptrs /\ reg_cache' = reg_cache /\ pc[c] = "ack" /\ rep[c][master[c]] > 0
          /\ pc'[c] = IF InCall(c).op = "malloc" THEN "end" ELSE "local"
          /\ \A d \in Rank \ {c} : pc'[d] = pc[d] /\ rep'[d][master[d]] = rep[d][master[d]]
      BY <1>1, <2>5 DEF Acknowledged, Goto, Types
    <3>2. step[c] \in DOMAIN program
      BY <1>1, <3>1 DEF Places, PlaceAt
    <3>3. QED
      BY <1>1, <3>1, <3>2, QuietMove
  <2>6. CASE comex_free_local(c)
    BY <2>6, GiveBackStep
  <2>7. QED
    BY <1>2, <2>1, <2>2, <2>3, <2>4, <2>5, <2>6 DEF WorkerStep
<1>3. ASSUME NEW c \in Worker, NEW t \in Worker, NEW k \in DOMAIN program, nb_put(c, k, t)
      PROVE  Caches' /\ Distinct'
  BY <1>3, StillStep DEF nb_put
<1>4. ASSUME NEW k \in DOMAIN program, FirstBarrier(k) \/ MPI_Allgather(k) \/ LastBarrier(k)
      PROVE  Caches' /\ Distinct'
  BY <1>4, CollectiveStep
<1>5. ASSUME NEW m \in Master, NEW c \in Worker, progress_server(m, c)
      PROVE  Caches' /\ Distinct'
  <2>1. CASE put_handler(m, c)
    BY <2>1, StillStep DEF put_handler
  <2>2. CASE fence_handler(m, c)
    <3>1. req[c][m] # << >> /\ Head(req[c][m]).op = "FENCE"
      BY <2>2 DEF fence_handler, Pending
    <3>2. RequestAt(c, m, Head(req[c][m]))
      BY <1>1, <3>1, HeadFacts
    <3>3. pc[c] = "fence"
      BY <3>1, <3>2 DEF RequestAt, Header
    <3>4. \A d \in Rank : pc[d] = "ack" => rep'[d][master[d]] = rep[d][master[d]]
      BY <1>1, <2>2, <3>3 DEF fence_handler, server_send, Types
    <3>5. QED
      BY <2>2, <3>4, StillStep DEF fence_handler
  <2>3. CASE malloc_handler(m, c) \/ free_handler(m, c)
    BY <2>3, HandlerStep
  <2>4. QED
    BY <1>5, <2>1, <2>2, <2>3 DEF progress_server
<1>6. CASE UNCHANGED vars
  BY <1>6, StillStep DEF vars
<1>7. QED
  BY <1>2, <1>3, <1>4, <1>5, <1>6 DEF Next, Ended

(* The inductive invariant holds at first.                                 *)
LEMMA Initially ==
  ASSUME JobsServed, Init
  PROVE  IInv
<1>1. Setting
  BY DEF Init, Setting
<1>2. CallsSound /\ RanksSound /\ SpeakersSound
  BY <1>1, Grounds
<1>3. /\ DOMAIN program = 1 .. Len(program) /\ Len(program) \in Nat /\ Worker \subseteq Rank
      /\ \A k \in DOMAIN program : Members(k) \subseteq Rank
  BY <1>2, CallFacts DEF Worker
<1>4. /\ pc = [r \in Rank |-> "user"] /\ step = [r \in Rank |-> NextCall(r, 1)]
      /\ ptrs = [k \in DOMAIN program |-> [r \in Rank |-> NULL]]
      /\ reg_cache = [r \in Rank |-> {}] /\ fence_array = [r \in Rank |-> {}]
      /\ req = [c \in Rank |-> [m \in Rank |-> << >>]]
      /\ rep = [c \in Rank |-> [m \in Rank |-> 0]]
  BY DEF Init
<1>5. ASSUME NEW r \in Rank
      PROVE  /\ step[r] \in 1 .. (Len(program) + 1) /\ pc[r] = "user"
             /\ step[r] \in DOMAIN program => r \in Members(step[r])
             /\ \A k \in DOMAIN program : r \in Members(k) => ~(step[r] > k)
  <2>1. /\ NextCall(r, 1) \in 1 .. (Len(program) + 1)
        /\ NextCall(r, 1) \in DOMAIN program => r \in Members(NextCall(r, 1))
        /\ \A j \in DOMAIN program : 1 <= j /\ r \in Members(j) => NextCall(r, 1) <= j
    BY <1>2, <1>3, NextSound
  <2>2. QED
    BY <1>3, <1>4, <2>1
<1>6. Types
  <2>1. puts \in Nat
    BY MallocAssumption DEF Init
  <2>2. << >> \in Seq(Message)
    BY EmptySeq
  <2>3. req \in [Rank -> [Rank -> Seq(Message)]]
    BY <1>4, <2>2
  <2>4. pc \in [Rank -> Point] /\ step \in [Rank -> 1 .. (Len(program) + 1)]
    BY <1>4, <1>5 DEF Point
  <2>5. /\ ptrs \in [DOMAIN program -> [Rank -> Address \cup {NULL}]]
        /\ reg_cache \in [Rank -> SUBSET (Worker \X Address)]
        /\ fence_array \in [Rank -> SUBSET Master]
        /\ rep \in [Rank -> [Rank -> 0 .. 1]]
    BY <1>4
  <2>6. QED
    BY <2>1, <2>3, <2>4, <2>5 DEF Types
<1>7. Places
  BY <1>4, <1>5 DEF Places, PlaceAt
<1>8. Marches
  BY <1>3, <1>5 DEF Marches, Together, Within, Beyond
<1>9. \A k \in Mallocs : \A d \in Members(k) : ~Allocated(d, k) /\ ~Mapping(d, k) /\ ~Spoken(d, k)
  BY <1>3, <1>5 DEF Mallocs, Allocated, Mapping, Spoken, Answered, Past
<1>10. Caches
  <2>1. ASSUME NEW r \in Rank, NEW t \in Worker, NEW a \in Address, NEW k \in Mallocs, t \in Members(k)
        PROVE  ~Known(r, k, t)
    <3>1. Spokesman(k, t) \in Members(k)
      BY <1>2, <2>1 DEF SpeakersSound, Mallocs
    <3>2. QED
      BY <1>9, <2>1, <3>1 DEF Known, Owned, MappedBy, Told
  <2>2. QED
    BY <1>4, <2>1 DEF Caches, CacheAt
<1>11. Distinct
  BY <1>9 DEF Distinct, Mine
<1>12. Channels
  BY <1>3, <1>4 DEF Channels, ChannelAt
<1>13. QED
  BY <1>1, <1>6, <1>7, <1>8, <1>10, <1>11, <1>12 DEF IInv

(* Every step keeps it.                                                    *)
LEMMA Inductive ==
  ASSUME JobsServed, IInv, [Next]_vars
  PROVE  IInv'
<1>1. layout' = layout /\ program' = program /\ master' = master
  BY JobStays
<1>2. Setting'
  BY <1>1 DEF IInv, Setting
<1>3. CallsSound /\ RanksSound /\ SpeakersSound
  BY Grounds DEF IInv
<1>4. Scene
  BY <1>3 DEF IInv, Scene
<1>5. Types'
  BY <1>3, TypesStep DEF IInv
<1>6. Places'
  BY <1>3, PlacesStep DEF IInv
<1>7. Marches'
  BY <1>3, MarchesStep DEF IInv
<1>8. Channels'
  BY <1>3, ChannelsStep DEF IInv
<1>9. Caches' /\ Distinct'
  BY <1>4, <1>5, CachesStep
<1>10. QED
  BY <1>2, <1>5, <1>6, <1>7, <1>8, <1>9 DEF IInv

-----------------------------------------------------------------------------
(* What it is for.                                                         *)

(* Whoever holds an allocation, or is in a call that has yet to undo it,   *)
(* finds its segments where they are reached.                              *)
LEMMA InUse ==
  ASSUME CallsSound, RanksSound, SpeakersSound, Types, Places, Marches, Caches,
         NEW c \in Worker, NEW k \in Mallocs, c \in Members(k), step[c] > k,
         \A j \in Frees(k) : step[c] < j \/ (step[c] = j /\ pc[c] \notin Beyond),
         NEW t \in Members(k), ptrs[k][t] # NULL
  PROVE  /\ <<t, ptrs[k][t]>> \in reg_cache[master[t]]
         /\ master[t] = master[c] => <<t, ptrs[k][t]>> \in reg_cache[c]
<1>1. /\ k \in DOMAIN program /\ k \in Nat /\ Members(k) \subseteq Rank /\ Members(k) \subseteq Worker
      /\ \A j \in Frees(k) : j \in DOMAIN program /\ j \in Nat /\ Members(j) = Members(k)
  BY CallFacts
<1>2. \A d \in Members(k) : step[d] \in Nat
  BY <1>1 DEF Types
<1>3. ASSUME NEW d \in Members(k)
      PROVE  /\ Allocated(d, k) /\ Mapping(d, k) /\ Spoken(d, k)
             /\ \A j \in Frees(k) : ~Finished(d, j) /\ ~Mapping(d, j) /\ ~Spoken(d, j)
  <2>1. step[d] > k
    BY <1>1 DEF Marches, Together
  <2>2. ASSUME NEW j \in Frees(k)
        PROVE  ~(step[d] > j) /\ ~(step[d] = j /\ pc[d] \in Beyond)
    <3>1. /\ step[d] > j => step[c] > j
          /\ step[d] = j /\ pc[d] \in Beyond => step[c] = j /\ pc[c] \in Beyond
      BY <1>1 DEF Marches, Together
    <3>2. step[c] < j \/ (step[c] = j /\ pc[c] \notin Beyond)
      OBVIOUS
    <3>3. QED
      BY <1>1, <1>2, <3>1, <3>2
  <2>3. QED
    BY <2>1, <2>2 DEF Allocated, Mapping, Spoken, Answered, Finished, Past, Beyond
<1>4. ptrs[k][t] \in Address /\ t \in Worker /\ t \in Rank
  BY <1>1 DEF Types
<1>5. Spokesman(k, t) \in Members(k)
  BY <1>1 DEF SpeakersSound
<1>6. Known(master[t], k, t)
  BY <1>3, <1>5 DEF Known, Told
<1>7. master[t] = master[c] => Known(c, k, t)
  BY <1>3 DEF Known, Owned, MappedBy
<1>8. c \in Rank
  BY <1>1
<1>9. \A r \in Rank : Known(r, k, t) => <<t, ptrs[k][t]>> \in reg_cache[r]
  BY <1>4 DEF Caches, CacheAt
<1>10. master[t] \in Rank
  BY <1>4 DEF RanksSound
<1>11. QED
  BY <1>6, <1>7, <1>8, <1>9, <1>10

(* What holds of the caches and the segments of a call that is about to    *)
(* register or to unregister them.                                         *)
LEMMA RegistrationFollows ==
  ASSUME JobsServed, IInv
  PROVE  RegistrationSound
<1>1. /\ CallsSound /\ RanksSound /\ SpeakersSound /\ Types /\ Places /\ Marches /\ Caches /\ Distinct
      /\ Channels /\ Scene /\ Worker \subseteq Rank /\ Master \subseteq Rank
  BY Grounds DEF IInv, Scene, Worker, Master
<1>2. \A b \in Rank : step[b] \in DOMAIN program => Stage(b)
  BY <1>1, StageFacts DEF Stages
<1>3. /\ \A k \in Mallocs : k \in DOMAIN program /\ Members(k) \subseteq Rank /\ Members(k) \subseteq Worker
      /\ \A r \in Rank, t \in Worker, a \in Address :
           <<t, a>> \in reg_cache[r] <=>
             \E k \in Mallocs : t \in Members(k) /\ ptrs[k][t] = a /\ Known(r, k, t)
  BY <1>1, CallFacts DEF Caches, CacheAt
<1>4. \A t \in Worker : master[t] # t /\ t \notin Master
  BY DEF Worker, Master
<1>5. RegistrationComplete
  <2>1. ASSUME NEW c \in Worker, NEW k \in DOMAIN program, Holds(c, k),
               NEW t \in program[k].group, ptrs[k][t] # NULL
        PROVE  /\ <<t, ptrs[k][t]>> \in reg_cache[master[t]]
               /\ master[t] = master[c] => <<t, ptrs[k][t]>> \in reg_cache[c]
    <3>1. /\ k \in Mallocs /\ c \in Members(k) /\ k < step[c] /\ t \in Members(k)
          /\ \A j \in Frees(k) : step[c] < j \/ (step[c] = j /\ pc[c] = "user")
      BY <2>1 DEF Holds, Mallocs, Members, Frees
    <3>2. step[c] \in Nat /\ k \in Nat
      BY <1>1, <3>1, CallFacts DEF Types
    <3>3. step[c] > k /\ \A j \in Frees(k) : step[c] < j \/ (step[c] = j /\ pc[c] \notin Beyond)
      BY <3>1, <3>2 DEF Beyond
    <3>4. QED
      BY <1>1, <2>1, <3>1, <3>3, InUse
  <2>2. QED
    BY <2>1 DEF RegistrationComplete
<1>6. ASSUME NEW c \in Worker, In(c, "update", "malloc"), NEW s \in Mapped(c)
      PROVE  s \notin reg_cache[c]
  <2>1. /\ step[c] \in DOMAIN program /\ pc[c] = "update" /\ InCall(c).op = "malloc" /\ c \in Rank
    BY <1>1, <1>6 DEF In, Places, PlaceAt
  <2>2. PICK k0 \in Mallocs :
          /\ k0 = About(c) /\ k0 = step[c] /\ c \in Members(k0)
          /\ \E t \in Members(k0) : t # c /\ ptrs[k0][t] # NULL /\ s = <<t, ptrs[k0][t]>>
    BY <1>1, <1>6, <2>1, SegmentFacts
  <2>3. PICK t \in Members(k0) : t # c /\ ptrs[k0][t] # NULL /\ s = <<t, ptrs[k0][t]>>
    BY <2>2
  <2>4. t \in Worker /\ t \in Rank /\ ptrs[k0][t] \in Address
    BY <1>1, <1>3, <2>3 DEF Types
  <2>5. Mine(t, k0)
    <3>1. step[t] = k0 /\ pc[t] \in Beyond
      BY <1>1, <1>3, <2>1, <2>2 DEF Marches, Together, Beyond
    <3>2. pc[t] # "local" /\ InCall(t) = InCall(c)
      BY <1>1, <2>1, <2>2, <2>4, <3>1 DEF Places, PlaceAt, InCall
    <3>3. \A j \in Frees(k0) : step[t] <= j
      BY <1>1, <3>1, CallFacts
    <3>4. QED
      BY <3>1, <3>2, <3>3 DEF Mine, Allocated, Past, Beyond
  <2>6. SUFFICES ASSUME s \in reg_cache[c] PROVE FALSE
    OBVIOUS
  <2>7. PICK k \in Mallocs : t \in Members(k) /\ ptrs[k][t] = ptrs[k0][t] /\ Known(c, k, t)
    BY <1>3, <2>1, <2>3, <2>4, <2>6
  <2>8. Mine(t, k)
    BY <1>1, <2>7, KnownIsMine
  <2>9. k = k0
    BY <1>1, <2>3, <2>5, <2>7, <2>8 DEF Distinct
  <2>10. MappedBy(c, k0)
    <3>1. c # master[t]
      BY <1>1, <1>4, <2>4 DEF RanksSound
    <3>2. QED
      BY <2>3, <2>7, <2>9, <3>1 DEF Known
  <2>11. QED
    BY <1>2, <2>1, <2>2, <2>10 DEF Stage
<1>7. ASSUME NEW m \in Master, NEW c \in Worker, Pending(m, c, "MALLOC"), NEW s \in Entries(m, c)
      PROVE  s \notin reg_cache[m]
  <2>1. PICK k0 \in Mallocs :
          /\ k0 = About(c) /\ pc[c] = "ack" /\ m = master[c] /\ step[c] \in DOMAIN program
          /\ rep[c][m] = 0 /\ InCall(c).op = "malloc"
          /\ \A t \in Members(k0) : Spokesman(k0, t) = c <=> master[t] = m
          /\ \A t \in Worker, a \in Address :
               <<t, a>> \in Entries(m, c) <=>
                 t \in {u \in Members(k0) : master[u] = m} /\ ptrs[k0][t] = a
    BY <1>1, <1>7, AskedFacts
  <2>2. m \in Rank /\ c \in Rank /\ req[c][m] # << >>
    BY <1>1, <1>7 DEF Pending
  <2>3. PICK t \in Worker, a \in Address : s = <<t, a>>
    <3>1. Head(req[c][m]) \in Message
      BY <1>1, <2>2, HeadFacts
    <3>2. Head(req[c][m]).entries \subseteq Worker \X (Address \cup {NULL})
      BY <3>1 DEF Message
    <3>3. QED
      BY <1>7, <3>2 DEF Entries
  <2>4. t \in Members(k0) /\ master[t] = m /\ ptrs[k0][t] = a /\ a # NULL
    BY <1>7, <2>1, <2>3, MallocAssumption
  <2>5. k0 = step[c] /\ c \in Members(k0) /\ InCall(c) = program[step[c]] /\ k0 \in DOMAIN program
    BY <1>1, <2>1, <2>2 DEF About, Places, PlaceAt, InCall
  <2>6. Mine(t, k0)
    <3>1. step[t] = k0 /\ pc[t] \in Beyond
      BY <1>1, <2>1, <2>4, <2>5 DEF Marches, Together, Beyond
    <3>2. pc[t] # "local"
      BY <1>1, <2>1, <2>3, <2>5, <3>1 DEF Places, PlaceAt, InCall
    <3>3. \A j \in Frees(k0) : step[t] <= j
      BY <1>1, <3>1, CallFacts
    <3>4. QED
      BY <3>1, <3>2, <3>3 DEF Mine, Allocated, Past, Beyond
  <2>7. SUFFICES ASSUME s \in reg_cache[m] PROVE FALSE
    OBVIOUS
  <2>8. PICK k \in Mallocs : t \in Members(k) /\ ptrs[k][t] = a /\ Known(m, k, t)
    BY <1>3, <2>2, <2>3, <2>7
  <2>9. Mine(t, k)
    BY <1>1, <2>8, KnownIsMine
  <2>10. k = k0
    BY <1>1, <2>4, <2>6, <2>8, <2>9 DEF Distinct
  <2>11. m \notin Members(k0) /\ m # t
    BY <1>3, <1>4
  <2>12. Told(c, k0)
    BY <2>1, <2>4, <2>8, <2>10, <2>11 DEF Known
  <2>13. QED
    BY <1>2, <2>1, <2>2, <2>12 DEF Stage
<1>8. InsertFindsNoOverlap
  BY <1>6, <1>7 DEF InsertFindsNoOverlap
<1>9. ASSUME NEW c \in Worker, In(c, "update", "free"), NEW s \in Mapped(c)
      PROVE  s \in reg_cache[c]
  <2>1. /\ step[c] \in DOMAIN program /\ pc[c] = "update" /\ InCall(c).op = "free" /\ c \in Rank
    BY <1>1, <1>9 DEF In, Places, PlaceAt
  <2>2. PICK k0 \in Mallocs :
          /\ k0 = About(c) /\ c \in Members(k0)
          /\ \E t \in Members(k0) : /\ t # c /\ ptrs[k0][t] # NULL
                                    /\ master[t] = master[c] /\ s = <<t, ptrs[k0][t]>>
    BY <1>1, <1>9, <2>1, SegmentFacts
  <2>3. PICK t \in Members(k0) : /\ t # c /\ ptrs[k0][t] # NULL
                                 /\ master[t] = master[c] /\ s = <<t, ptrs[k0][t]>>
    BY <2>2
  <2>4. t \in Worker /\ t \in Rank /\ ptrs[k0][t] \in Address
    BY <1>1, <1>3, <2>3 DEF Types
  <2>5. MappedBy(c, k0)
    BY <1>2, <2>1, <2>2 DEF Stage
  <2>6. Known(c, k0, t)
    BY <2>2, <2>3, <2>5 DEF Known
  <2>7. QED
    BY <1>3, <2>1, <2>3, <2>4, <2>6
<1>10. ASSUME NEW c \in Worker, pc[c] = "local", NEW s \in Own(c), s[2] # NULL
       PROVE  s \in reg_cache[c]
  <2>1. step[c] \in DOMAIN program /\ InCall(c).op = "free" /\ c \in Rank
    BY <1>1, <1>10 DEF Places, PlaceAt
  <2>2. PICK k0 \in Mallocs : k0 = About(c) /\ c \in Members(k0) /\ s = <<c, ptrs[k0][c]>>
    BY <1>1, <1>10, <2>1, SegmentFacts
  <2>3. ptrs[k0][c] \in Address
    BY <1>1, <1>3, <1>10, <2>1, <2>2 DEF Types
  <2>4. Owned(c, k0)
    BY <1>2, <1>10, <2>1, <2>2 DEF Stage
  <2>5. QED
    BY <1>3, <2>1, <2>2, <2>3, <2>4 DEF Known
<1>11. ASSUME NEW m \in Master, NEW c \in Worker, Pending(m, c, "FREE"), NEW s \in Entries(m, c)
       PROVE  s \in reg_cache[m]
  <2>1. PICK k0 \in Mallocs :
          /\ k0 = About(c) /\ pc[c] = "ack" /\ m = master[c] /\ step[c] \in DOMAIN program
          /\ rep[c][m] = 0 /\ InCall(c).op # "malloc"
          /\ \A t \in Members(k0) : Spokesman(k0, t) = c <=> master[t] = m
          /\ \A t \in Worker, a \in Address :
               <<t, a>> \in Entries(m, c) <=>
                 t \in {u \in Members(k0) : master[u] = m} /\ ptrs[k0][t] = a
    BY <1>1, <1>11, AskedFacts
  <2>2. m \in Rank /\ c \in Rank /\ req[c][m] # << >>
    BY <1>1, <1>11 DEF Pending
  <2>3. PICK t \in Worker, a \in Address : s = <<t, a>>
    <3>1. Head(req[c][m]) \in Message
      BY <1>1, <2>2, HeadFacts
    <3>2. Head(req[c][m]).entries \subseteq Worker \X (Address \cup {NULL})
      BY <3>1 DEF Message
    <3>3. QED
      BY <1>11, <3>2 DEF Entries
  <2>4. t \in Members(k0) /\ master[t] = m /\ ptrs[k0][t] = a
    BY <1>11, <2>1, <2>3
  <2>5. Told(c, k0)
    BY <1>2, <2>1, <2>2 DEF Stage
  <2>6. Known(m, k0, t)
    BY <2>1, <2>4, <2>5 DEF Known
  <2>7. QED
    BY <1>3, <2>2, <2>3, <2>4, <2>6
<1>12. FreeFindsRegistration
  BY <1>9, <1>10, <1>11 DEF FreeFindsRegistration
<1>13. NoStaleMapping
  <2>1. ASSUME NEW t \in Worker, NEW r \in Rank, pc[t] = "user", NEW s \in reg_cache[r], s[1] = t
        PROVE  s \in reg_cache[t]
    <3>1. PICK a \in Address : s = <<t, a>>
      BY <1>1, <2>1 DEF Types
    <3>2. PICK k \in Mallocs : t \in Members(k) /\ ptrs[k][t] = a /\ Known(r, k, t)
      BY <1>3, <2>1, <3>1
    <3>3. Mine(t, k)
      BY <1>1, <3>2, KnownIsMine
    <3>4. \A j \in Frees(k) : j \in Nat /\ step[t] \in Nat
      BY <1>1, CallFacts DEF Types
    <3>5. Owned(t, k)
      BY <2>1, <3>3, <3>4 DEF Mine, Owned, Finished, Past
    <3>6. Known(t, k, t)
      BY <3>5 DEF Known
    <3>7. QED
      BY <1>1, <1>3, <3>1, <3>2, <3>6
  <2>2. QED
    BY <2>1 DEF NoStaleMapping
<1>14. QED
  BY <1>5, <1>8, <1>12, <1>13 DEF RegistrationSound

(* A put in flight finds its target registered.                            *)
LEMMA PutsFollow ==
  ASSUME JobsServed, IInv
  PROVE  PutFindsRegistration
<1>1. /\ CallsSound /\ RanksSound /\ SpeakersSound /\ Types /\ Places /\ Marches /\ Caches
      /\ Channels /\ Worker \subseteq Rank /\ Master \subseteq Rank
  BY Grounds DEF IInv, Worker, Master
<1>2. ASSUME NEW m \in Master, NEW c \in Worker, Pending(m, c, "PUT")
      PROVE  Head(req[c][m]).entries \subseteq reg_cache[m]
  <2>1. req[c][m] # << >> /\ Head(req[c][m]).op = "PUT" /\ m \in Rank
    BY <1>1, <1>2 DEF Pending
  <2>2. RequestAt(c, m, Head(req[c][m]))
    BY <1>1, <2>1, HeadFacts
  <2>3. pc[c] \in {"user", "fence"} /\ PutSound(c, m, Head(req[c][m]).entries)
    BY <2>1, <2>2 DEF RequestAt, Header
  <2>4. PICK k \in Mallocs : \E t \in Members(k) :
          /\ c \in Members(k) /\ step[c] > k /\ \A j \in Frees(k) : step[c] <= j
          /\ master[t] = m /\ ptrs[k][t] # NULL /\ Head(req[c][m]).entries = {<<t, ptrs[k][t]>>}
    BY <2>3 DEF PutSound
  <2>5. PICK t \in Members(k) :
          /\ c \in Members(k) /\ step[c] > k /\ \A j \in Frees(k) : step[c] <= j
          /\ master[t] = m /\ ptrs[k][t] # NULL /\ Head(req[c][m]).entries = {<<t, ptrs[k][t]>>}
    BY <2>4
  <2>6. \A j \in Frees(k) : j \in Nat /\ step[c] \in Nat
    BY <1>1, CallFacts DEF Types
  <2>7. \A j \in Frees(k) : step[c] < j \/ (step[c] = j /\ pc[c] \notin Beyond)
    BY <2>3, <2>5, <2>6 DEF Beyond
  <2>8. <<t, ptrs[k][t]>> \in reg_cache[master[t]]
    BY <1>1, <2>5, <2>7, InUse
  <2>9. QED
    BY <2>5, <2>8
<1>3. QED
  BY <1>2 DEF PutFindsRegistration

-----------------------------------------------------------------------------
(* The theorems.                                                           *)

(* The caches follow the calls: what each rank has registered is what the  *)
(* places of the workers in comex_malloc and comex_free say.               *)
THEOREM Invariance ==
  ASSUME JobsServed
  PROVE  Spec => []IInv
<1>1. Init => IInv
  BY Initially
<1>2. IInv /\ [Next]_vars => IInv'
  BY Inductive
<1>3. QED
  BY <1>1, <1>2, PTL DEF Spec

(* Every variable has its type; at most one acknowledgment is in flight    *)
(* from a progress rank to a worker.                                       *)
THEOREM TypeCorrect ==
  ASSUME JobsServed
  PROVE  Spec => []TypeOK
<1>1. IInv => TypeOK
  <2>1. SUFFICES ASSUME IInv PROVE TypeOK
    OBVIOUS
  <2>2. Types /\ Places /\ CallsSound
    BY <2>1, Grounds DEF IInv
  <2>3. ASSUME NEW c \in Rank, pc[c] # "user" PROVE c \in Worker /\ step[c] \in DOMAIN program
    BY <2>2, <2>3, CallFacts DEF Places, PlaceAt
  <2>4. \A c, m \in Rank : rep[c][m] \in 0 .. 1
    BY <2>2 DEF Types
  <2>5. QED
    BY <2>2, <2>3, <2>4 DEF Types, TypeOK
<1>2. QED
  BY <1>1, Invariance, PTL

(* comex_malloc and comex_free keep the caches right: a segment is         *)
(* registered wherever a member that holds it reaches it, no insertion     *)
(* finds its address taken, no removal finds it missing, and nobody keeps  *)
(* a mapping of memory given back.                                         *)
THEOREM RegistrationSafety ==
  ASSUME JobsServed
  PROVE  Spec => []RegistrationSound
<1>1. IInv => RegistrationSound
  BY RegistrationFollows
<1>2. QED
  BY <1>1, Invariance, PTL

(* No put meets its target unregistered, however late the progress rank    *)
(* takes it: the COMEX_ASSERT of _put_handler.                             *)
THEOREM PutSafety ==
  ASSUME JobsServed
  PROVE  Spec => []PutFindsRegistration
<1>1. IInv => PutFindsRegistration
  BY PutsFollow
<1>2. QED
  BY <1>1, Invariance, PTL
=============================================================================
