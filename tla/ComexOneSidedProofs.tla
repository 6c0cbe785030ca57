----------------------- MODULE ComexOneSidedProofs -----------------------
(***************************************************************************)
(* Proofs about the one-sided operations of the progress-rank runtime, for *)
(* any number of workers and progress ranks, any sizes of messages and any *)
(* choice of shortcuts.                                                    *)
(***************************************************************************)
EXTENDS ComexOneSided, SequenceTheorems, WellFoundedInduction, TLAPS

-----------------------------------------------------------------------------
(* The inductive invariant.                                                *)

Op == Written \cup Fetched
ReqMsg == [op : Op \cup {"DATA", "FENCE"}, rank : Worker, val : Nat]
RepMsg == [op : {"DATA", "ACK"}, rank : Worker, val : Nat]
Recv == [op : Fetched \cup {"FENCE"}, rank : Worker, last : BOOLEAN]
Busy == [src : Worker, msg : [op : Written, rank : Worker, val : Nat], left : Nat]
InShortcut == {"fence_master", "direct", "acc"}
Todo == [op : Op, rank : Worker, val : Nat]

(* TypeOK with the shapes of the messages.                                 *)
Typed ==
  /\ pc \in [Worker -> Point]
  /\ todo \in [Worker -> Todo \cup {NoOp}]
  /\ \A c \in Worker : pc[c] \in InShortcut \cup {"rmw"} <=> todo[c] # NoOp
  /\ tmp \in [Worker \cup Master -> Nat]
  /\ buf \in [Worker -> (Worker \cup {NoRank}) \X Nat]
  /\ fence_array \in [Worker -> SUBSET Master]
  /\ req \in [Worker -> [Master -> Seq(ReqMsg)]]
  /\ rep \in [Worker -> [Master -> Seq(RepMsg)]]
  /\ posted \in [Worker -> [Master -> Seq(Recv)]]
  /\ serving \in [Master -> Busy \cup {Idle}]
  /\ mem \in [Worker -> Nat]
  /\ semaphores \in [Worker -> Worker \cup Master \cup {NoRank}]
  /\ round \in {0, 1}
  /\ ops \in [Worker -> Nat]
  /\ \A c \in Worker : ops[c] <= MaxOps[c]

(* The chunks of payload that follow a header, and the ones the handler is *)
(* still waiting for.                                                      *)
Following(h) ==
  IF h.op \in Written /\ ~eager_check(Extra(h.op) + Length[h.rank])
  THEN Chunks(Length[h.rank]) ELSE 0

Owed(s, c) == IF s.src = c THEN s.left ELSE 0

(* Channel q from c to a master in state s carries headers, each with its  *)
(* chunks, of its value, behind it, after the chunks that s is waiting for.*)
Framed(q, s, c) ==
  /\ \A k \in 1 .. Owed(s, c) :
       k <= Len(q) /\ q[k].op = "DATA" /\ q[k].rank = s.msg.rank /\ q[k].val = s.msg.val
  /\ \A i \in 1 .. Len(q) : \A k \in 1 .. Following(q[i]) :
       i + k <= Len(q) /\ q[i + k].op = "DATA" /\ q[i + k].rank = q[i].rank /\ q[i + k].val = q[i].val
  /\ \A i \in 1 .. Len(q) : q[i].op = "DATA" =>
       i <= Owed(s, c) \/ \E j \in 1 .. (i - 1) : i - j <= Following(q[j])

(* The number of replies to a request.                                     *)
Answers(h) ==
  IF h.op = "GET" THEN Chunks(Length[h.rank])
  ELSE IF h.op \in {"FETCH_AND_ADD", "SWAP", "FENCE"} THEN 1 ELSE 0

(* The receive for the k-th of them.                                       *)
Wanted(h, k) == Receive(h.op, h.rank, k = Answers(h))

(* The receives posted are those for the replies in flight, then, from     *)
(* off[i] on, those for the replies to the i-th request in flight.         *)
Offsets(off, n, q, r) ==
  /\ off[1] = n /\ off[Len(q) + 1] = Len(r)
  /\ \A i, j \in 1 .. (Len(q) + 1) : i <= j => off[i] <= off[j]
  /\ \A i \in 1 .. Len(q) :
       /\ off[i + 1] = off[i] + Answers(q[i])
       /\ \A k \in 1 .. Answers(q[i]) :
            r[off[i] + k] = Wanted(q[i], k)

Matched(p, q, r) ==
  /\ \E off \in [1 .. (Len(q) + 1) -> 0 .. Len(r)] : Offsets(off, Len(p), q, r)
  /\ \A i \in 1 .. Len(p) :
       /\ p[i].op = IF r[i].op = "FENCE" THEN "ACK" ELSE "DATA"
       /\ p[i].rank = r[i].rank

(* A fence that c is in covers all its messages to m: its request is the   *)
(* last one, or the progress rank has taken it after all others.           *)
Covered(q, s, c) ==
  \/ q = << >> /\ s.src # c
  \/ q # << >> /\ q[Len(q)].op = "FENCE"

Fencing(c, m) ==
  \/ pc[c] = "fence_master" /\ m = MasterOf[todo[c].rank]
  \/ pc[c] \in {"fence_all", "barrier_fence"} /\ m \in fence_array[c]

Clear(q, s, c) ==
  s.src # c /\ \A i \in 1 .. Len(q) : q[i].op \notin Written \cup {"DATA"}

Channel(c, m) ==
  /\ Framed(req[c][m], serving[m], c)
  /\ Matched(rep[c][m], req[c][m], posted[c][m])
  /\ \A i \in 1 .. Len(req[c][m]) :
       /\ req[c][m][i].op = "FENCE" => req[c][m][i].rank = c
       /\ req[c][m][i].op # "FENCE" => MasterOf[req[c][m][i].rank] = m
  /\ Fencing(c, m) => Covered(req[c][m], serving[m], c)
  /\ m \notin fence_array[c] => Clear(req[c][m], serving[m], c)

IInv ==
  /\ Typed
  /\ \A c \in Worker, m \in Master : Channel(c, m)
  /\ \A c \in Worker : pc[c] = "barrier" => fence_array[c] = {}

-----------------------------------------------------------------------------
(* Channels as sequences.                                                  *)

(* The elements of a concatenation and of a tail.                          *)
LEMMA ConcatElements ==
  ASSUME NEW S, NEW q \in Seq(S), NEW t \in Seq(S)
  PROVE  /\ q \o t \in Seq(S)
         /\ Len(q \o t) = Len(q) + Len(t) /\ Len(q) \in Nat /\ Len(t) \in Nat
         /\ \A i \in 1 .. Len(q) : (q \o t)[i] = q[i]
         /\ \A i \in 1 .. Len(t) : (q \o t)[Len(q) + i] = t[i]
         /\ \A i \in 1 .. Len(q \o t) : i > Len(q) =>
              (q \o t)[i] = t[i - Len(q)] /\ i - Len(q) \in 1 .. Len(t)
OBVIOUS

(* The head of a sequence and what is left behind it.                      *)
LEMMA TailElements ==
  ASSUME NEW S, NEW q \in Seq(S), q # << >>
  PROVE  /\ Tail(q) \in Seq(S)
         /\ Len(Tail(q)) = Len(q) - 1 /\ Len(Tail(q)) \in Nat /\ Len(q) \in Nat /\ Len(q) > 0
         /\ Head(q) = q[1] /\ q[1] \in S
         /\ \A i \in 1 .. Len(Tail(q)) : Tail(q)[i] = q[i + 1] /\ i + 1 \in 1 .. Len(q)
OBVIOUS

(* A number of chunks is a number, and not 0.                              *)
LEMMA ChunksTyped == \A t \in Worker : Chunks(Length[t]) \in Nat \ {0}
<1>1. ASSUME NEW a \in Nat \ {0}, NEW b \in Nat \ {0}
      PROVE  (a + b - 1) \div b \in Nat \ {0}
  OBVIOUS
<1>2. QED
  BY <1>1, OneSidedAssumption DEF OneSidedAssumption, Chunks

(* What follows and what answers a header is counted in naturals.          *)
LEMMA CountsTyped ==
  ASSUME NEW h \in ReqMsg
  PROVE  Following(h) \in Nat /\ Answers(h) \in Nat
BY ChunksTyped DEF Following, Answers, ReqMsg

(* What is framed by itself can be sent behind what is framed.             *)
LEMMA FramedConcat ==
  ASSUME NEW q \in Seq(ReqMsg), NEW t \in Seq(ReqMsg), NEW c \in Worker,
         NEW s \in Busy \cup {Idle}, Framed(q, s, c), Framed(t, Idle, c)
  PROVE  Framed(q \o t, s, c)
<1> DEFINE u == q \o t
<1>1. /\ Len(u) = Len(q) + Len(t) /\ Len(q) \in Nat /\ Len(t) \in Nat
      /\ \A i \in 1 .. Len(q) : u[i] = q[i]
      /\ \A i \in (Len(q) + 1) .. Len(u) : u[i] = t[i - Len(q)]
  OBVIOUS
<1>2. Owed(s, c) \in Nat /\ Owed(Idle, c) = 0
  BY OneSidedAssumption DEF OneSidedAssumption, Owed, Idle, NoRank, Busy
<1>3. /\ \A i \in 1 .. Len(q) : Following(q[i]) \in Nat
      /\ \A i \in 1 .. Len(t) : Following(t[i]) \in Nat
  <2>1. /\ \A i \in 1 .. Len(q) : q[i] \in ReqMsg
        /\ \A i \in 1 .. Len(t) : t[i] \in ReqMsg
    OBVIOUS
  <2>2. QED
    BY <2>1, CountsTyped
<1> HIDE DEF u
<1>4. \A k \in 1 .. Owed(s, c) :
        k <= Len(u) /\ u[k].op = "DATA" /\ u[k].rank = s.msg.rank /\ u[k].val = s.msg.val
  BY <1>1, <1>2 DEF Framed
<1>5. ASSUME NEW i \in 1 .. Len(u), NEW k \in 1 .. Following(u[i])
      PROVE  i + k <= Len(u) /\ u[i + k].op = "DATA" /\ u[i + k].rank = u[i].rank /\ u[i + k].val = u[i].val
  <2>0. i \in Nat /\ k \in Nat
    BY <1>1, <1>3
  <2>1. CASE i <= Len(q)
    <3>1. i \in 1 .. Len(q) /\ u[i] = q[i]
      BY <1>1, <2>0, <2>1
    <3>2. /\ i + k <= Len(q) /\ q[i + k].op = "DATA"
          /\ q[i + k].rank = q[i].rank /\ q[i + k].val = q[i].val
      BY <3>1 DEF Framed
    <3>3. i + k \in 1 .. Len(q) /\ i + k <= Len(u)
      BY <1>1, <2>0, <3>2
    <3>4. QED
      BY <3>1, <3>2, <3>3, <1>1
  <2>2. CASE i > Len(q)
    <3>1. i - Len(q) \in 1 .. Len(t) /\ u[i] = t[i - Len(q)]
      BY <1>1, <2>2
    <3>2. k \in 1 .. Following(t[i - Len(q)]) /\ k \in Nat
      BY <3>1, <1>3
    <3>3. /\ (i - Len(q)) + k <= Len(t) /\ t[(i - Len(q)) + k].op = "DATA"
          /\ t[(i - Len(q)) + k].rank = t[i - Len(q)].rank
          /\ t[(i - Len(q)) + k].val = t[i - Len(q)].val
      BY <3>1, <3>2 DEF Framed
    <3>4. i + k \in (Len(q) + 1) .. Len(u) /\ (i + k) - Len(q) = (i - Len(q)) + k
      BY <3>1, <3>2, <3>3, <1>1
    <3>5. QED
      BY <3>1, <3>3, <3>4, <1>1
  <2>3. QED
    BY <1>1, <2>1, <2>2
<1>6. ASSUME NEW i \in 1 .. Len(u), u[i].op = "DATA"
      PROVE  i <= Owed(s, c) \/ \E j \in 1 .. (i - 1) : i - j <= Following(u[j])
  <2>1. CASE i <= Len(q)
    <3>1. i \in 1 .. Len(q) /\ u[i] = q[i]
      BY <1>1, <2>1
    <3>2. i <= Owed(s, c) \/ \E j \in 1 .. (i - 1) : i - j <= Following(q[j])
      BY <3>1, <1>6 DEF Framed
    <3>3. \A j \in 1 .. (i - 1) : u[j] = q[j]
      BY <3>1, <1>1
    <3>4. QED
      BY <3>2, <3>3
  <2>2. CASE i > Len(q)
    <3>1. i - Len(q) \in 1 .. Len(t) /\ u[i] = t[i - Len(q)]
      BY <1>1, <2>2
    <3>2. PICK j \in 1 .. ((i - Len(q)) - 1) : (i - Len(q)) - j <= Following(t[j])
      BY <3>1, <1>2, <1>6 DEF Framed
    <3>3. /\ j + Len(q) \in 1 .. (i - 1)
          /\ i - (j + Len(q)) = (i - Len(q)) - j
          /\ j + Len(q) \in (Len(q) + 1) .. Len(u) /\ (j + Len(q)) - Len(q) = j
      BY <3>1, <1>1
    <3>4. u[j + Len(q)] = t[j]
      BY <3>3, <1>1
    <3>5. QED
      BY <3>2, <3>3, <3>4
  <2>3. QED
    BY <1>1, <2>1, <2>2
<1>7. QED
  BY <1>4, <1>5, <1>6 DEF Framed, u

(* A message that stands alone, and a header with its chunks.              *)
LEMMA FramedOne ==
  ASSUME NEW c \in Worker, NEW h \in ReqMsg, h.op # "DATA", Following(h) = 0
  PROVE  Framed(<<h>>, Idle, c)
BY OneSidedAssumption DEF OneSidedAssumption, Framed, Owed, Idle, NoRank

(* The messages of a payload, sent together, are framed.                   *)
LEMMA FramedPayload ==
  ASSUME NEW c \in Worker, NEW h \in ReqMsg, h.op \in Written
  PROVE  /\ Framed(PayloadMessages(h), Idle, c)
         /\ PayloadMessages(h) \in Seq(ReqMsg)
         /\ PayloadMessages(h) # << >> /\ PayloadMessages(h)[1] = h
         /\ \A i \in 2 .. Len(PayloadMessages(h)) : PayloadMessages(h)[i].op = "DATA"
         /\ \A i \in 1 .. Len(PayloadMessages(h)) :
              /\ PayloadMessages(h)[i].rank = h.rank
              /\ PayloadMessages(h)[i].op \in Written \cup {"DATA"}
<1> DEFINE n == Chunks(Length[h.rank])
           d == Message("DATA", h.rank, h.val)
           t == [i \in 1 .. n |-> d]
<1>1. h.op # "DATA" /\ h.rank \in Worker /\ n \in Nat
  BY ChunksTyped DEF ReqMsg, Written
<1>2. CASE eager_check(Extra(h.op) + Length[h.rank])
  <2>1. PayloadMessages(h) = <<h>> /\ Following(h) = 0
    BY <1>2 DEF PayloadMessages, Following
  <2>2. QED
    BY <2>1, <1>1, FramedOne
<1>3. CASE ~eager_check(Extra(h.op) + Length[h.rank])
  <2>1. PayloadMessages(h) = <<h>> \o t /\ Following(h) = n
    BY <1>3 DEF PayloadMessages, Following
  <2>2. /\ d \in ReqMsg /\ d.op = "DATA" /\ d.rank = h.rank /\ d.val = h.val
        /\ Following(d) = 0
    BY <1>1 DEF ReqMsg, Message, Following, Written
  <2>3. t \in Seq(ReqMsg) /\ Len(t) = n
    BY <2>2, <1>1
  <2> DEFINE u == <<h>> \o t
  <2>4. /\ u \in Seq(ReqMsg) /\ Len(u) = n + 1 /\ u[1] = h
        /\ \A i \in 2 .. (n + 1) : u[i] = d
    BY <2>3, <1>1
  <2>5. Owed(Idle, c) = 0
    BY OneSidedAssumption DEF OneSidedAssumption, Owed, Idle, NoRank
  <2> HIDE DEF u, t, d, n
  <2>6. Framed(u, Idle, c)
    <3>1. \A i \in 1 .. Len(u) : i = 1 \/ i \in 2 .. (n + 1)
      BY <2>4, <1>1
    <3>2. ASSUME NEW i \in 1 .. Len(u), NEW k \in 1 .. Following(u[i])
          PROVE  i = 1 /\ i + k \in 2 .. (n + 1)
      <4>1. i # 1 => Following(u[i]) = 0
        BY <3>1, <2>2, <2>4
      <4>2. i = 1
        BY <4>1
      <4>3. QED
        BY <4>2, <2>1, <2>4, <1>1
    <3>3. \A i \in 1 .. Len(u) : u[i].op = "DATA" => 1 \in 1 .. (i - 1) /\ i - 1 <= Following(u[1])
      BY <3>1, <2>1, <2>4, <1>1
    <3>4. QED
      BY <3>2, <3>3, <2>2, <2>4, <2>5, <1>1 DEF Framed
  <2>7. QED
    BY <2>1, <2>2, <2>4, <2>6, <1>1 DEF u
<1>4. QED
  BY <1>2, <1>3

(* The oldest message of a framed channel is taken: a header, after which  *)
(* the handler waits for its chunks, or the chunk the handler waits for.   *)
LEMMA FramedTail ==
  ASSUME NEW q \in Seq(ReqMsg), q # << >>, NEW c \in Worker, NEW s \in Busy \cup {Idle},
         NEW s2 \in Busy \cup {Idle}, Framed(q, s, c),
         \/ /\ Owed(s, c) = 0 /\ Owed(s2, c) = Following(q[1])
            /\ Owed(s2, c) > 0 => s2.msg.rank = q[1].rank /\ s2.msg.val = q[1].val
         \/ /\ Owed(s, c) > 0 /\ Owed(s2, c) = Owed(s, c) - 1
            /\ s2.msg.rank = s.msg.rank /\ s2.msg.val = s.msg.val
  PROVE  Framed(Tail(q), s2, c)
<1> DEFINE u == Tail(q)
<1>1. /\ Len(u) = Len(q) - 1 /\ Len(q) \in Nat /\ Len(u) \in Nat
      /\ \A i \in 1 .. Len(u) : u[i] = q[i + 1] /\ i + 1 \in 1 .. Len(q)
      /\ 1 \in 1 .. Len(q)
  OBVIOUS
<1>2. Owed(s, c) \in Nat /\ Owed(s2, c) \in Nat
  BY SMTT(30), OneSidedAssumption DEF OneSidedAssumption, Owed, Idle, NoRank, Busy
<1>3. \A i \in 1 .. Len(q) : Following(q[i]) \in Nat
  <2>1. \A i \in 1 .. Len(q) : q[i] \in ReqMsg
    OBVIOUS
  <2>2. QED
    BY <2>1, CountsTyped
<1> HIDE DEF u
<1>4. ASSUME NEW k \in 1 .. Owed(s2, c)
      PROVE  k <= Len(u) /\ u[k].op = "DATA" /\ u[k].rank = s2.msg.rank /\ u[k].val = s2.msg.val
  <2>1. CASE Owed(s, c) = 0
    <3>1. k \in 1 .. Following(q[1]) /\ s2.msg.rank = q[1].rank /\ s2.msg.val = q[1].val
      BY <2>1, <1>2
    <3>2. 1 + k <= Len(q) /\ q[1 + k].op = "DATA" /\ q[1 + k].rank = q[1].rank /\ q[1 + k].val = q[1].val
      BY <3>1, <1>1 DEF Framed
    <3>3. k \in 1 .. Len(u) /\ k + 1 = 1 + k
      BY <3>2, <1>1, <1>2
    <3>4. QED
      BY <3>1, <3>2, <3>3, <1>1
  <2>2. CASE Owed(s, c) > 0
    <3>1. k + 1 \in 1 .. Owed(s, c) /\ s2.msg.rank = s.msg.rank /\ s2.msg.val = s.msg.val
      BY <2>2, <1>2
    <3>2. k + 1 <= Len(q) /\ q[k + 1].op = "DATA" /\ q[k + 1].rank = s.msg.rank /\ q[k + 1].val = s.msg.val
      BY <3>1 DEF Framed
    <3>3. k \in 1 .. Len(u)
      BY <3>2, <1>1, <1>2
    <3>4. QED
      BY <3>1, <3>2, <3>3, <1>1
  <2>3. QED
    BY <2>1, <2>2
<1>5. ASSUME NEW i \in 1 .. Len(u), NEW k \in 1 .. Following(u[i])
      PROVE  i + k <= Len(u) /\ u[i + k].op = "DATA" /\ u[i + k].rank = u[i].rank /\ u[i + k].val = u[i].val
  <2>1. u[i] = q[i + 1] /\ i + 1 \in 1 .. Len(q) /\ Following(u[i]) \in Nat
    BY <1>1, <1>3
  <2>2. /\ (i + 1) + k <= Len(q) /\ q[(i + 1) + k].op = "DATA"
        /\ q[(i + 1) + k].rank = q[i + 1].rank /\ q[(i + 1) + k].val = q[i + 1].val
    BY <2>1 DEF Framed
  <2>3. i + k \in 1 .. Len(u) /\ (i + k) + 1 = (i + 1) + k
    BY <2>1, <2>2, <1>1
  <2>4. u[i + k] = q[(i + 1) + k]
    BY <2>3, <1>1
  <2>5. i + k <= Len(u)
    BY <2>3, <1>1
  <2>6. QED
    BY <2>1, <2>2, <2>4, <2>5
<1>6. ASSUME NEW i \in 1 .. Len(u), u[i].op = "DATA"
      PROVE  i <= Owed(s2, c) \/ \E j \in 1 .. (i - 1) : i - j <= Following(u[j])
  <2>1. u[i] = q[i + 1] /\ i + 1 \in 1 .. Len(q)
    BY <1>1
  <2>2. CASE i + 1 <= Owed(s, c)
    BY <2>2, <1>1, <1>2
  <2>3. ASSUME NEW j \in 1 .. ((i + 1) - 1), (i + 1) - j <= Following(q[j])
        PROVE  i <= Owed(s2, c) \/ \E l \in 1 .. (i - 1) : i - l <= Following(u[l])
    <3>1. CASE j = 1
      <4>1. i <= Following(q[1])
        BY <2>3, <3>1, <1>1, <1>3
      <4>2. 1 + 0 \in 1 .. Len(q) /\ Following(q[1]) > 0
        BY <4>1, <1>1, <1>3
      <4>3. Owed(s, c) = 0
        <5>1. SUFFICES ASSUME Owed(s, c) > 0 PROVE FALSE
          BY <1>2
        <5>2. q[1].op = "DATA"
          BY <5>1, <1>2 DEF Framed
        <5>3. QED
          BY <4>2, <5>2 DEF Following, Written
      <4>4. QED
        BY <4>1, <4>3
    <3>2. CASE j # 1
      <4>1. /\ j - 1 \in 1 .. (i - 1) /\ j - 1 \in 1 .. Len(u) /\ (j - 1) + 1 = j
            /\ i - (j - 1) = (i + 1) - j
        BY <3>2, <1>1
      <4>2. u[j - 1] = q[j]
        BY <4>1, <1>1
      <4>3. QED
        BY <4>1, <4>2, <2>3
    <3>3. QED
      BY <3>1, <3>2
  <2>4. QED
    BY <2>1, <2>2, <2>3, <1>6 DEF Framed
<1>7. QED
  BY <1>4, <1>5, <1>6 DEF Framed, u

(* What a handler that serves another worker does is no matter.            *)
LEMMA FramedOther ==
  ASSUME NEW q, NEW s, NEW s2, NEW c, Framed(q, s, c), Owed(s, c) = 0, Owed(s2, c) = 0
  PROVE  Framed(q, s2, c)
BY DEF Framed

(* Where the receives of the requests begin, as requests come and go.      *)
LEMMA OffsetsSilent ==
  ASSUME NEW n \in Nat, NEW q \in Seq(ReqMsg), NEW r \in Seq(Recv),
         NEW t \in Seq(ReqMsg), \A i \in 1 .. Len(t) : Answers(t[i]) = 0,
         NEW off \in [1 .. (Len(q) + 1) -> 0 .. Len(r)], Offsets(off, n, q, r)
  PROVE  \E new \in [1 .. (Len(q \o t) + 1) -> 0 .. Len(r)] : Offsets(new, n, q \o t, r)
<1> DEFINE u == q \o t
           new == [i \in 1 .. (Len(u) + 1) |-> IF i <= Len(q) + 1 THEN off[i] ELSE Len(r)]
<1>a. off[1] = n /\ off[Len(q) + 1] = Len(r)
  BY DEF Offsets
<1>b. \A i, j \in 1 .. (Len(q) + 1) : i <= j => off[i] <= off[j]
  BY DEF Offsets
<1>c. \A i \in 1 .. Len(q) : off[i + 1] = off[i] + Answers(q[i])
  BY DEF Offsets
<1>d. \A i \in 1 .. Len(q) : \A k \in 1 .. Answers(q[i]) :
        r[off[i] + k] = Wanted(q[i], k)
  BY DEF Offsets
<1>1. /\ Len(u) = Len(q) + Len(t) /\ Len(q) \in Nat /\ Len(t) \in Nat /\ Len(r) \in Nat
      /\ \A i \in 1 .. Len(q) : u[i] = q[i]
      /\ \A i \in 1 .. Len(u) : i > Len(q) => u[i] = t[i - Len(q)] /\ i - Len(q) \in 1 .. Len(t)
  BY ConcatElements
<1>2. \A i \in 1 .. (Len(u) + 1) :
        /\ i <= Len(q) + 1 => new[i] = off[i] /\ off[i] \in 0 .. Len(r) /\ i \in 1 .. (Len(q) + 1)
        /\ i > Len(q) + 1 => new[i] = Len(r)
  BY <1>1
<1> HIDE DEF u
<1>3. new \in [1 .. (Len(u) + 1) -> 0 .. Len(r)]
  BY <1>1
<1> HIDE DEF new
<1>4. new[1] = n /\ new[Len(u) + 1] = Len(r) /\ new[Len(q) + 1] = Len(r)
  <2>1. /\ 1 \in 1 .. (Len(u) + 1) /\ Len(u) + 1 \in 1 .. (Len(u) + 1)
        /\ Len(q) + 1 \in 1 .. (Len(u) + 1)
        /\ Len(u) + 1 # Len(q) + 1 => Len(u) + 1 > Len(q) + 1
        /\ 1 <= Len(q) + 1 /\ Len(q) + 1 <= Len(q) + 1
    BY <1>1
  <2>2. new[1] = n
    BY <2>1, <1>2, <1>a
  <2>3. new[Len(q) + 1] = Len(r)
    BY <2>1, <1>2, <1>a
  <2>4. Len(u) + 1 # Len(q) + 1 => new[Len(u) + 1] = Len(r)
    BY <2>1, <1>2
  <2>5. QED
    BY <2>2, <2>3, <2>4
<1>5. ASSUME NEW i \in 1 .. (Len(u) + 1), NEW j \in 1 .. (Len(u) + 1), i <= j
      PROVE  new[i] <= new[j]
  <2>1. CASE j <= Len(q) + 1
    <3>1. i <= Len(q) + 1
      BY <1>1, <1>5, <2>1
    <3>2. QED
      BY <1>2, <1>5, <2>1, <3>1, <1>b
  <2>2. CASE j > Len(q) + 1
    <3>1. new[j] = Len(r)
      BY <1>2, <2>2
    <3>2. new[i] \in 0 .. Len(r)
      BY <1>3
    <3>3. QED
      BY <1>1, <3>1, <3>2
  <2>3. j <= Len(q) + 1 \/ j > Len(q) + 1
    BY <1>1
  <2>4. QED
    BY <2>1, <2>2, <2>3
<1>6. ASSUME NEW i \in 1 .. Len(u)
      PROVE  /\ new[i + 1] = new[i] + Answers(u[i])
             /\ \A k \in 1 .. Answers(u[i]) :
                  r[new[i] + k] = Wanted(u[i], k)
  <2>1. CASE i <= Len(q)
    <3>1. i \in 1 .. Len(q) /\ i + 1 <= Len(q) + 1 /\ i <= Len(q) + 1
      BY <1>1, <2>1
    <3>4. i \in 1 .. (Len(u) + 1) /\ i + 1 \in 1 .. (Len(u) + 1)
      BY <1>1
    <3>2. u[i] = q[i] /\ new[i] = off[i] /\ new[i + 1] = off[i + 1]
      BY <1>1, <1>2, <3>1, <3>4
    <3>3. QED
      BY <3>1, <3>2, <1>c, <1>d
  <2>2. CASE i > Len(q)
    <3>1. Answers(u[i]) = 0
      BY <2>2, <1>1
    <3>2. i + 1 \in 1 .. (Len(u) + 1) /\ i + 1 > Len(q) + 1 /\ (i = Len(q) + 1 \/ i > Len(q) + 1)
      BY <2>2, <1>1
    <3>3. new[i] = Len(r) /\ new[i + 1] = Len(r)
      BY <3>2, <1>2, <1>4
    <3>4. QED
      BY <3>1, <3>3, <1>1
  <2>3. QED
    BY <2>1, <2>2, <1>1
<1>7. Offsets(new, n, u, r)
  BY <1>4, <1>5, <1>6 DEF Offsets
<1>8. QED
  BY <1>3, <1>7 DEF u

(* Sending a request extends the running counts.                           *)
LEMMA OffsetsSend ==
  ASSUME NEW n \in Nat, NEW q \in Seq(ReqMsg), NEW r \in Seq(Recv),
         NEW h \in ReqMsg, NEW v \in Seq(Recv), Len(v) = Answers(h),
         \A k \in 1 .. Answers(h) : v[k] = Wanted(h, k),
         NEW off \in [1 .. (Len(q) + 1) -> 0 .. Len(r)], Offsets(off, n, q, r)
  PROVE  \E new \in [1 .. (Len(q \o <<h>>) + 1) -> 0 .. Len(r \o v)] :
           Offsets(new, n, q \o <<h>>, r \o v)
<1> DEFINE w == r \o v
<1>2. /\ Len(w) = Len(r) + Len(v) /\ Len(r) \in Nat /\ Len(w) \in Nat
      /\ \A i \in 1 .. Len(r) : w[i] = r[i]
      /\ \A k \in 1 .. Len(v) : w[Len(r) + k] = v[k]
  <2>1. \A x, y \in Seq(Recv) :
          /\ Len(x \o y) = Len(x) + Len(y) /\ Len(x) \in Nat /\ Len(x \o y) \in Nat
          /\ \A i \in 1 .. Len(x) : (x \o y)[i] = x[i]
          /\ \A k \in 1 .. Len(y) : (x \o y)[Len(x) + k] = y[k]
    <3>1. TAKE x \in Seq(Recv), y \in Seq(Recv)
    <3>2. QED
      BY ConcatElements
  <2>2. QED
    BY <2>1
<1> HIDE DEF w
<1> DEFINE u == q \o <<h>>
           new == [i \in 1 .. (Len(u) + 1) |-> IF i <= Len(q) + 1 THEN off[i] ELSE Len(w)]
<1>a. off[1] = n /\ off[Len(q) + 1] = Len(r)
  BY DEF Offsets
<1>b. \A i, j \in 1 .. (Len(q) + 1) : i <= j => off[i] <= off[j]
  BY DEF Offsets
<1>c. \A i \in 1 .. Len(q) : off[i + 1] = off[i] + Answers(q[i])
  BY DEF Offsets
<1>d. \A i \in 1 .. Len(q) : \A k \in 1 .. Answers(q[i]) :
        r[off[i] + k] = Wanted(q[i], k)
  BY DEF Offsets
<1>0. Answers(h) \in Nat /\ \A i \in 1 .. Len(q) : Answers(q[i]) \in Nat
  <2>1. \A i \in 1 .. Len(q) : q[i] \in ReqMsg
    OBVIOUS
  <2>2. QED
    BY <2>1, CountsTyped
<1>1. /\ Len(u) = Len(q) + 1 /\ Len(q) \in Nat /\ u[Len(q) + 1] = h
      /\ \A i \in 1 .. Len(q) : u[i] = q[i]
  <2>1. <<h>> \in Seq(ReqMsg) /\ Len(<<h>>) = 1 /\ <<h>>[1] = h
    OBVIOUS
  <2>2. QED
    BY <2>1, ConcatElements
<1> HIDE DEF u
<1>3. \A i \in 1 .. (Len(u) + 1) :
        /\ i <= Len(q) + 1 => new[i] = off[i] /\ off[i] \in 0 .. Len(r) /\ i \in 1 .. (Len(q) + 1)
        /\ i > Len(q) + 1 => new[i] = Len(w)
  <2>1. \A i \in 1 .. (Len(u) + 1) : i <= Len(q) + 1 => i \in 1 .. (Len(q) + 1)
    BY <1>1
  <2>2. QED
    BY SMTT(30), <2>1, <1>1
<1>4. new \in [1 .. (Len(u) + 1) -> 0 .. Len(w)]
  <2>1. 0 .. Len(r) \subseteq 0 .. Len(w) /\ Len(w) \in 0 .. Len(w)
    <3>1. Len(w) \in Nat /\ Len(r) \in Nat /\ Len(r) <= Len(w)
      BY <1>2
    <3>2. QED
      BY <3>1
  <2>2. QED
    BY <1>1, <2>1
<1> HIDE DEF new
<1>5. new[1] = n /\ new[Len(u) + 1] = Len(w) /\ new[Len(q) + 1] = Len(r)
  <2>1. /\ 1 \in 1 .. (Len(u) + 1) /\ Len(u) + 1 \in 1 .. (Len(u) + 1)
        /\ Len(q) + 1 \in 1 .. (Len(u) + 1)
        /\ Len(u) + 1 > Len(q) + 1 /\ 1 <= Len(q) + 1 /\ Len(q) + 1 <= Len(q) + 1
    BY <1>1
  <2>2. new[1] = n
    BY <2>1, <1>3, <1>a
  <2>3. new[Len(q) + 1] = Len(r)
    BY <2>1, <1>3, <1>a
  <2>4. new[Len(u) + 1] = Len(w)
    BY <2>1, <1>3
  <2>5. QED
    BY <2>2, <2>3, <2>4
<1>6. ASSUME NEW i \in 1 .. (Len(u) + 1), NEW j \in 1 .. (Len(u) + 1), i <= j
      PROVE  new[i] <= new[j]
  <2>1. CASE j <= Len(q) + 1
    <3>1. i <= Len(q) + 1
      BY <1>1, <1>6, <2>1
    <3>2. QED
      BY <1>3, <1>6, <2>1, <3>1, <1>b
  <2>2. CASE j > Len(q) + 1
    <3>1. new[j] = Len(w) /\ new[i] \in 0 .. Len(w)
      BY <1>3, <1>4, <2>2
    <3>2. QED
      BY <3>1, <1>2
  <2>3. QED
    BY <2>1, <2>2, <1>1
<1>7. ASSUME NEW i \in 1 .. Len(u)
      PROVE  /\ new[i + 1] = new[i] + Answers(u[i])
             /\ \A k \in 1 .. Answers(u[i]) :
                  w[new[i] + k] = Wanted(u[i], k)
  <2>1. CASE i <= Len(q)
    <3>1. i \in 1 .. Len(q) /\ i + 1 \in 1 .. (Len(u) + 1) /\ i + 1 <= Len(q) + 1 /\ i <= Len(q) + 1
      BY <1>1, <2>1
    <3>2. u[i] = q[i] /\ new[i] = off[i] /\ new[i + 1] = off[i + 1] /\ off[i] \in 0 .. Len(r)
          /\ off[i + 1] \in 0 .. Len(r)
      <4>1. i \in 1 .. (Len(u) + 1)
        BY <3>1, <1>1
      <4>2. QED
        BY <4>1, <1>1, <1>3, <3>1
    <3>3. off[i + 1] = off[i] + Answers(q[i])
      BY <3>1, <1>c
    <3>4. ASSUME NEW k \in 1 .. Answers(u[i])
          PROVE  w[new[i] + k] = Wanted(u[i], k)
      <4>0. k \in 1 .. Answers(q[i]) /\ Answers(q[i]) \in Nat
        BY <3>1, <3>2, <1>0
      <4>1. /\ off[i] \in Nat /\ off[i + 1] \in Nat /\ off[i + 1] <= Len(r) /\ Len(r) \in Nat
            /\ k \in Nat /\ k > 0 /\ k <= Answers(q[i])
        BY SMTT(30), <4>0, <3>2, <1>2
      <4>2. off[i] + k \in 1 .. Len(r)
        <5>1. \A x, y, z, l, n0 \in Nat : y = x + z /\ l > 0 /\ l <= z /\ y <= n0 => x + l \in 1 .. n0
          OBVIOUS
        <5>2. QED
          BY <4>0, <4>1, <5>1, <3>3
      <4>3. w[off[i] + k] = r[off[i] + k]
        BY <4>2, <1>2
      <4>4. r[off[i] + k] = Wanted(q[i], k)
        BY <4>0, <3>1, <1>d
      <4>5. QED
        BY <4>3, <4>4, <3>2
    <3>5. QED
      BY <3>2, <3>3, <3>4
  <2>2. CASE i = Len(q) + 1
    <3>1. u[i] = h /\ new[i] = Len(r) /\ new[i + 1] = Len(w)
      BY <2>2, <1>1, <1>5
    <3>2. \A k \in 1 .. Answers(h) : w[Len(r) + k] = Wanted(h, k)
      BY <1>0, <1>2
    <3>3. Len(w) = Len(r) + Answers(h)
      BY <1>2
    <3>4. QED
      BY <3>1, <3>2, <3>3
  <2>3. QED
    BY <2>1, <2>2, <1>1
<1>8. Offsets(new, n, u, w)
  BY <1>5, <1>6, <1>7 DEF Offsets
<1>9. QED
  BY <1>4, <1>8 DEF u, w

(* Handling the oldest request shifts them.                                *)
LEMMA OffsetsTake ==
  ASSUME NEW n \in Nat, NEW q \in Seq(ReqMsg), NEW r \in Seq(Recv), q # << >>,
         NEW off \in [1 .. (Len(q) + 1) -> 0 .. Len(r)], Offsets(off, n, q, r)
  PROVE  \E new \in [1 .. (Len(Tail(q)) + 1) -> 0 .. Len(r)] :
           Offsets(new, n + Answers(q[1]), Tail(q), r)
<1> DEFINE u == Tail(q)
           new == [i \in 1 .. (Len(u) + 1) |-> off[i + 1]]
<1>a. off[1] = n /\ off[Len(q) + 1] = Len(r)
  BY DEF Offsets
<1>b. \A i, j \in 1 .. (Len(q) + 1) : i <= j => off[i] <= off[j]
  BY DEF Offsets
<1>c. \A i \in 1 .. Len(q) : off[i + 1] = off[i] + Answers(q[i])
  BY DEF Offsets
<1>d. \A i \in 1 .. Len(q) : \A k \in 1 .. Answers(q[i]) :
        r[off[i] + k] = Wanted(q[i], k)
  BY DEF Offsets
<1>1. /\ Len(u) = Len(q) - 1 /\ Len(q) \in Nat /\ Len(u) \in Nat /\ Len(q) > 0
      /\ \A i \in 1 .. Len(u) : u[i] = q[i + 1]
  BY TailElements
<1>2. \A i \in 1 .. (Len(u) + 1) : new[i] = off[i + 1] /\ i + 1 \in 1 .. (Len(q) + 1)
  BY <1>1
<1> HIDE DEF u
<1>3. new \in [1 .. (Len(u) + 1) -> 0 .. Len(r)]
  BY <1>1
<1> HIDE DEF new
<1>4. new[1] = n + Answers(q[1]) /\ new[Len(u) + 1] = Len(r)
  <2>1. 1 \in 1 .. (Len(u) + 1) /\ Len(u) + 1 \in 1 .. (Len(u) + 1) /\ 1 \in 1 .. Len(q)
        /\ (Len(u) + 1) + 1 = Len(q) + 1
    BY <1>1
  <2>2. QED
    BY <2>1, <1>2, <1>a, <1>c
<1>5. ASSUME NEW i \in 1 .. (Len(u) + 1), NEW j \in 1 .. (Len(u) + 1), i <= j
      PROVE  new[i] <= new[j]
  <2>1. i + 1 \in 1 .. (Len(q) + 1) /\ j + 1 \in 1 .. (Len(q) + 1) /\ i + 1 <= j + 1
    BY <1>1, <1>5
  <2>2. QED
    BY <2>1, <1>2, <1>b
<1>6. ASSUME NEW i \in 1 .. Len(u)
      PROVE  /\ new[i + 1] = new[i] + Answers(u[i])
             /\ \A k \in 1 .. Answers(u[i]) :
                  r[new[i] + k] = Wanted(u[i], k)
  <2>1. /\ i + 1 \in 1 .. Len(q) /\ i + 1 \in 1 .. (Len(u) + 1) /\ u[i] = q[i + 1]
        /\ i \in 1 .. (Len(u) + 1)
    BY <1>1
  <2>2. new[i] = off[i + 1] /\ new[i + 1] = off[(i + 1) + 1]
    BY <2>1, <1>2
  <2>3. QED
    BY <2>1, <2>2, <1>c, <1>d
<1>7. Offsets(new, n + Answers(q[1]), u, r)
  BY <1>4, <1>5, <1>6 DEF Offsets
<1>8. QED
  BY <1>3, <1>7 DEF u

(* Receiving a reply lowers them.                                          *)
LEMMA OffsetsRecv ==
  ASSUME NEW n \in Nat \ {0}, NEW q \in Seq(ReqMsg), NEW r \in Seq(Recv), r # << >>,
         NEW off \in [1 .. (Len(q) + 1) -> 0 .. Len(r)], Offsets(off, n, q, r)
  PROVE  \E new \in [1 .. (Len(q) + 1) -> 0 .. Len(Tail(r))] : Offsets(new, n - 1, q, Tail(r))
<1> DEFINE w == Tail(r)
           new == [i \in 1 .. (Len(q) + 1) |-> off[i] - 1]
<1>a. off[1] = n /\ off[Len(q) + 1] = Len(r)
  BY DEF Offsets
<1>b. \A i, j \in 1 .. (Len(q) + 1) : i <= j => off[i] <= off[j]
  BY DEF Offsets
<1>c. \A i \in 1 .. Len(q) : off[i + 1] = off[i] + Answers(q[i])
  BY DEF Offsets
<1>d. \A i \in 1 .. Len(q) : \A k \in 1 .. Answers(q[i]) :
        r[off[i] + k] = Wanted(q[i], k)
  BY DEF Offsets
<1>1. /\ Len(w) = Len(r) - 1 /\ Len(r) \in Nat /\ Len(w) \in Nat /\ Len(q) \in Nat
      /\ \A i \in 1 .. Len(w) : w[i] = r[i + 1]
  BY TailElements
<1>0. \A i \in 1 .. Len(q) : Answers(q[i]) \in Nat
  <2>1. \A i \in 1 .. Len(q) : q[i] \in ReqMsg
    OBVIOUS
  <2>2. QED
    BY <2>1, CountsTyped
<1> HIDE DEF w
<1>2. \A i \in 1 .. (Len(q) + 1) : off[i] \in 1 .. Len(r)
  <2>1. 1 \in 1 .. (Len(q) + 1)
    BY <1>1
  <2>2. \A i \in 1 .. (Len(q) + 1) : 1 <= i /\ off[1] <= off[i] /\ off[i] \in 0 .. Len(r)
    BY <2>1, <1>1, <1>b
  <2>3. QED
    BY <2>2, <1>1, <1>a
<1>3. \A i \in 1 .. (Len(q) + 1) : new[i] = off[i] - 1
  OBVIOUS
<1>4. new \in [1 .. (Len(q) + 1) -> 0 .. Len(w)]
  BY <1>1, <1>2
<1> HIDE DEF new
<1>5. new[1] = n - 1 /\ new[Len(q) + 1] = Len(w)
  <2>1. 1 \in 1 .. (Len(q) + 1) /\ Len(q) + 1 \in 1 .. (Len(q) + 1)
    BY <1>1
  <2>2. QED
    BY <2>1, <1>1, <1>3, <1>a
<1>6. \A i, j \in 1 .. (Len(q) + 1) : i <= j => new[i] <= new[j]
  BY <1>2, <1>3, <1>b
<1>7. ASSUME NEW i \in 1 .. Len(q)
      PROVE  /\ new[i + 1] = new[i] + Answers(q[i])
             /\ \A k \in 1 .. Answers(q[i]) :
                  w[new[i] + k] = Wanted(q[i], k)
  <2>1. i \in 1 .. (Len(q) + 1) /\ i + 1 \in 1 .. (Len(q) + 1)
    BY <1>1
  <2>2. off[i + 1] = off[i] + Answers(q[i])
    BY <1>c
  <2>3. ASSUME NEW k \in 1 .. Answers(q[i])
        PROVE  w[new[i] + k] = Wanted(q[i], k)
    <3>1. off[i] \in 1 .. Len(r) /\ off[i + 1] \in 1 .. Len(r) /\ new[i] = off[i] - 1
      BY <1>2, <1>3, <2>1
    <3>2. (off[i] - 1) + k \in 1 .. Len(w) /\ ((off[i] - 1) + k) + 1 = off[i] + k
      BY SMTT(30), <3>1, <2>2, <1>0, <1>1
    <3>3. w[new[i] + k] = r[off[i] + k]
      BY <3>1, <3>2, <1>1
    <3>4. QED
      BY <3>3, <1>d
  <2>4. new[i + 1] = new[i] + Answers(q[i])
    <3>1. off[i] \in Nat /\ Answers(q[i]) \in Nat
      BY <2>1, <1>0, <1>2
    <3>2. QED
      BY SMTT(30), <3>1, <2>1, <2>2, <1>3
  <2>5. QED
    BY <2>3, <2>4
<1>8. Offsets(new, n - 1, q, w)
  BY <1>5, <1>6, <1>7 DEF Offsets
<1>9. QED
  BY <1>4, <1>8 DEF w

(* Sending messages that are not answered.                                 *)
LEMMA MatchedSilent ==
  ASSUME NEW p \in Seq(RepMsg), NEW q \in Seq(ReqMsg), NEW r \in Seq(Recv),
         NEW t \in Seq(ReqMsg), Matched(p, q, r),
         \A i \in 1 .. Len(t) : Answers(t[i]) = 0
  PROVE  Matched(p, q \o t, r)
<1>1. Len(p) \in Nat
  OBVIOUS
<1>2. QED
  BY <1>1, OffsetsSilent DEF Matched

(* The replies in flight are for receives that are posted.                 *)
LEMMA MatchedLen ==
  ASSUME NEW p \in Seq(RepMsg), NEW q \in Seq(ReqMsg), NEW r \in Seq(Recv), Matched(p, q, r)
  PROVE  Len(p) <= Len(r)
<1>1. PICK off \in [1 .. (Len(q) + 1) -> 0 .. Len(r)] : Offsets(off, Len(p), q, r)
  BY DEF Matched
<1>2. Len(p) \in Nat /\ Len(q) \in Nat /\ Len(r) \in Nat
  OBVIOUS
<1>3. 1 \in 1 .. (Len(q) + 1)
  BY <1>2
<1>4. QED
  BY <1>1, <1>2, <1>3 DEF Offsets

(* Sending a request after its receives are posted.                        *)
LEMMA MatchedSend ==
  ASSUME NEW p \in Seq(RepMsg), NEW q \in Seq(ReqMsg), NEW r \in Seq(Recv),
         NEW h \in ReqMsg, NEW v \in Seq(Recv), Matched(p, q, r), Len(v) = Answers(h),
         \A k \in 1 .. Answers(h) : v[k] = Wanted(h, k)
  PROVE  Matched(p, q \o <<h>>, r \o v)
<1>1. Len(p) \in Nat
  OBVIOUS
<1>2. \A i \in 1 .. Len(p) : (r \o v)[i] = r[i]
  BY MatchedLen
<1>3. QED
  BY <1>1, <1>2, OffsetsSend DEF Matched

(* A request is taken, and the messages a are its answer.                  *)
LEMMA MatchedAnswer ==
  ASSUME NEW p \in Seq(RepMsg), NEW q \in Seq(ReqMsg), NEW r \in Seq(Recv),
         NEW a \in Seq(RepMsg), Matched(p, q, r), q # << >>, Len(a) = Answers(q[1]),
         \A k \in 1 .. Len(a) :
           /\ a[k].op = IF q[1].op = "FENCE" THEN "ACK" ELSE "DATA"
           /\ a[k].rank = q[1].rank
  PROVE  Matched(p \o a, Tail(q), r)
<1> DEFINE b == p \o a
<1>1. /\ Len(b) = Len(p) + Len(a) /\ Len(p) \in Nat /\ Len(a) \in Nat
      /\ \A i \in 1 .. Len(p) : b[i] = p[i]
      /\ \A i \in 1 .. Len(b) : i > Len(p) => b[i] = a[i - Len(p)] /\ i - Len(p) \in 1 .. Len(a)
  BY ConcatElements
<1>0. 1 \in 1 .. Len(q)
  OBVIOUS
<1> HIDE DEF b
<1>2. PICK off \in [1 .. (Len(q) + 1) -> 0 .. Len(r)] : Offsets(off, Len(p), q, r)
  BY DEF Matched
<1>3. \E new \in [1 .. (Len(Tail(q)) + 1) -> 0 .. Len(r)] : Offsets(new, Len(b), Tail(q), r)
  BY <1>1, <1>2, OffsetsTake
<1>4. ASSUME NEW i \in 1 .. Len(b)
      PROVE  /\ b[i].op = IF r[i].op = "FENCE" THEN "ACK" ELSE "DATA"
             /\ b[i].rank = r[i].rank
  <2>1. CASE i <= Len(p)
    <3>1. i \in 1 .. Len(p) /\ b[i] = p[i]
      BY <1>1, <2>1
    <3>2. QED
      BY <3>1 DEF Matched
  <2>2. CASE i > Len(p)
    <3>1. i - Len(p) \in 1 .. Len(a) /\ b[i] = a[i - Len(p)] /\ Len(p) + (i - Len(p)) = i
      BY <2>2, <1>1
    <3>2. r[Len(p) + (i - Len(p))] = Wanted(q[1], i - Len(p))
      BY <3>1, <1>0, <1>2 DEF Offsets
    <3>3. r[i].op = q[1].op /\ r[i].rank = q[1].rank
      BY <3>1, <3>2 DEF Receive, Wanted
    <3>4. QED
      BY <3>1, <3>3
  <2>3. QED
    BY <2>1, <2>2, <1>1
<1>5. QED
  BY <1>3, <1>4 DEF Matched, b

(* MPI completes the oldest receive with the oldest reply.                 *)
LEMMA MatchedRecv ==
  ASSUME NEW p \in Seq(RepMsg), NEW q \in Seq(ReqMsg), NEW r \in Seq(Recv),
         Matched(p, q, r), p # << >>, r # << >>
  PROVE  Matched(Tail(p), q, Tail(r))
<1> DEFINE b == Tail(p)
           w == Tail(r)
<1>0. Len(p) <= Len(r)
  BY MatchedLen
<1>1. /\ Len(b) = Len(p) - 1 /\ Len(p) \in Nat \ {0} /\ Len(r) \in Nat
      /\ \A i \in 1 .. Len(b) : b[i] = p[i + 1] /\ i + 1 \in 1 .. Len(p)
      /\ Len(w) = Len(r) - 1 /\ \A i \in 1 .. Len(w) : w[i] = r[i + 1]
  OBVIOUS
<1>2. PICK off \in [1 .. (Len(q) + 1) -> 0 .. Len(r)] : Offsets(off, Len(p), q, r)
  BY DEF Matched
<1>3. \E new \in [1 .. (Len(q) + 1) -> 0 .. Len(w)] : Offsets(new, Len(b), q, w)
  BY <1>1, <1>2, OffsetsRecv
<1> HIDE DEF b, w
<1>4. \A i \in 1 .. Len(b) : i \in 1 .. Len(w)
  BY <1>0, <1>1
<1>5. QED
  BY <1>1, <1>3, <1>4 DEF Matched, b, w

-----------------------------------------------------------------------------
(* Types are kept.                                                         *)

(* What an operation carries is a number.                                  *)
LEMMA CarriedTyped == \A op \in Op : Carried(op) \subseteq Nat
<1>1. Value \subseteq Nat
  BY OneSidedAssumption DEF OneSidedAssumption
<1> SUFFICES ASSUME NEW op \in Op PROVE Carried(op) \subseteq Nat
  OBVIOUS
<1>2. CASE op \in {"PUT", "SWAP"}
  <2>1. Carried(op) = Value
    BY <1>2, Zenon DEF Carried
  <2>2. QED
    BY <2>1, <1>1
<1>3. CASE op \in {"ACC", "FETCH_AND_ADD"}
  <2>1. op \notin {"PUT", "SWAP"}
    BY <1>3
  <2>2. Carried(op) = {1}
    BY <1>3, <2>1, Zenon DEF Carried
  <2>3. QED
    BY <2>2
<1>4. CASE op = "GET"
  <2>1. op \notin {"PUT", "SWAP"} /\ op \notin {"ACC", "FETCH_AND_ADD"}
    BY <1>4
  <2>2. Carried(op) = {0}
    BY <2>1, Zenon DEF Carried
  <2>3. QED
    BY <2>2
<1>5. QED
  BY <1>2, <1>3, <1>4 DEF Op, Written, Fetched

(* The constants of a call.                                                *)
LEMMA ConstantsTyped ==
  /\ \A c \in Worker : MasterOf[c] \in Master
  /\ \A c \in Worker, m \in Master : c # m
  /\ NoRank \notin Worker /\ NoRank \notin Master
  /\ \A c \in Worker : Allowed[c] \subseteq Op
  /\ \A c \in Worker : MaxOps[c] \in Nat
BY OneSidedAssumption DEF OneSidedAssumption, NoRank, Op, Written, Fetched

(* A message put at the end of a channel, and one taken from its head.     *)
LEMMA SendTyped ==
  ASSUME NEW S, NEW q \in [Worker -> [Master -> Seq(S)]], NEW c \in Worker, NEW m \in Master,
         NEW t \in Seq(S)
  PROVE  [q EXCEPT ![c][m] = @ \o t] \in [Worker -> [Master -> Seq(S)]]
<1>1. q[c] \in [Master -> Seq(S)] /\ q[c][m] \o t \in Seq(S)
  OBVIOUS
<1>2. QED
  BY <1>1

(* Taking a message keeps the types.                                       *)
LEMMA TakeTyped ==
  ASSUME NEW S, NEW q \in [Worker -> [Master -> Seq(S)]], NEW c \in Worker, NEW m \in Master,
         q[c][m] # << >>
  PROVE  [q EXCEPT ![c][m] = Tail(@)] \in [Worker -> [Master -> Seq(S)]]
<1>1. q[c] \in [Master -> Seq(S)] /\ Tail(q[c][m]) \in Seq(S)
  OBVIOUS
<1>2. QED
  BY <1>1

(* A worker moves on.                                                      *)
LEMMA GotoTyped ==
  ASSUME Typed, NEW c \in Worker, NEW point \in Point, Goto(c, point)
  PROVE  /\ pc' \in [Worker -> Point] /\ pc'[c] = point
         /\ \A d \in Worker : d # c => pc'[d] = pc[d]
BY DEF Typed, Goto

(* A worker calls.                                                         *)
LEMMA CallTyped ==
  ASSUME Typed, NEW c \in Worker, NEW t \in Worker, Call(c, t)
  PROVE  Typed'
<1>1. MasterOf[t] \in Master /\ Allowed[t] \subseteq Op
  BY ConstantsTyped
<1>2. ASSUME NEW op \in Op, CanCall(c, op, t)
      PROVE  ops' \in [Worker -> Nat] /\ \A d \in Worker : ops'[d] <= MaxOps[d]
  BY <1>2, ConstantsTyped DEF CanCall, Typed
<1>3. ASSUME NEW op \in Op, NEW v \in Carried(op)
      PROVE  /\ Message(op, t, v) \in Todo /\ Message(op, t, v) # NoOp
             /\ Message(op, t, v) \in ReqMsg
  <2>1. v \in Nat
    BY CarriedTyped
  <2>2. QED
    BY <2>1 DEF Message, Todo, ReqMsg, NoOp, Op, Written, Fetched
<1>4. ASSUME NEW h \in ReqMsg, nb_send(c, MasterOf[t], <<h>>)
      PROVE  req' \in [Worker -> [Master -> Seq(ReqMsg)]]
  BY SMTT(30), <1>1, <1>4, SendTyped DEF nb_send, Typed
<1>5. ASSUME NEW op \in {"PUT", "GET", "ACC"}, CallDirect(c, op, t)
      PROVE  Typed'
  <2>1. PICK v \in Carried(op) : todo' = [todo EXCEPT ![c] = Message(op, t, v)]
    BY <1>5 DEF CallDirect
  <2>2. /\ op \in Op /\ ops' \in [Worker -> Nat] /\ \A d \in Worker : ops'[d] <= MaxOps[d]
        /\ Message(op, t, v) \in Todo /\ Message(op, t, v) # NoOp
    BY <1>2, <1>3, <1>5, <2>1 DEF Op, Written, Fetched, CallDirect
  <2>3. /\ req' \in [Worker -> [Master -> Seq(ReqMsg)]]
        /\ posted' \in [Worker -> [Master -> Seq(Recv)]]
    <3>1. CASE MasterOf[t] \in fence_array[c]
      <4>1. Message("FENCE", c, 0) \in ReqMsg /\ Receive("FENCE", c, TRUE) \in Recv
        BY DEF Message, Receive, ReqMsg, Recv
      <4>2. <<Receive("FENCE", c, TRUE)>> \in Seq(Recv)
        BY <4>1 DEF Receive
      <4>3. /\ nb_recv(c, MasterOf[t], <<Receive("FENCE", c, TRUE)>>)
            /\ nb_send(c, MasterOf[t], <<Message("FENCE", c, 0)>>)
        BY <1>5, <3>1 DEF CallDirect
      <4>4. QED
        BY <1>1, <1>4, <4>1, <4>2, <4>3, SendTyped DEF Typed, nb_recv
    <3>2. CASE MasterOf[t] \notin fence_array[c]
      BY <1>5, <3>2 DEF CallDirect, Typed
    <3>3. QED
      BY <3>1, <3>2
  <2>4. PICK point \in {"fence_master", "direct"} : Goto(c, point)
    BY <1>5 DEF CallDirect
  <2>5. /\ todo' \in [Worker -> Todo \cup {NoOp}] /\ todo'[c] # NoOp
        /\ \A d \in Worker : d # c => todo'[d] = todo[d]
    BY <2>1, <2>2 DEF Typed
  <2>6. /\ pc' \in [Worker -> Point] /\ pc'[c] \in InShortcut
        /\ \A d \in Worker : d # c => pc'[d] = pc[d]
    BY <2>4, GotoTyped DEF InShortcut, Point
  <2>7. \A d \in Worker : pc'[d] \in InShortcut \cup {"rmw"} <=> todo'[d] # NoOp
    BY <2>5, <2>6 DEF Typed
  <2>8. QED
    BY <1>5, <2>2, <2>3, <2>5, <2>6, <2>7 DEF CallDirect, Typed
<1>6. ASSUME NEW op \in {"PUT", "ACC"}, CallWrite(c, op, t)
      PROVE  Typed'
  <2>1. PICK v \in Carried(op) : nb_send(c, MasterOf[t], PayloadMessages(Message(op, t, v)))
    BY <1>6 DEF CallWrite
  <2>2. /\ op \in Op /\ ops' \in [Worker -> Nat] /\ \A d \in Worker : ops'[d] <= MaxOps[d]
        /\ Message(op, t, v) \in ReqMsg /\ Message(op, t, v).op \in Written
    BY <1>2, <1>3, <1>6, <2>1 DEF Op, Written, Fetched, CallWrite, Message
  <2>3. req' \in [Worker -> [Master -> Seq(ReqMsg)]]
    BY <1>1, <2>1, <2>2, FramedPayload, SendTyped DEF nb_send, Typed
  <2>4. fence_array' \in [Worker -> SUBSET Master]
    BY <1>1, <1>6 DEF CallWrite, Typed
  <2>5. QED
    BY <1>6, <2>2, <2>3, <2>4 DEF CallWrite, Typed
<1>7. ASSUME CallGet(c, t)
      PROVE  Typed'
  <2> DEFINE n == Chunks(Length[t])
             v == [i \in 1 .. n |-> Receive("GET", t, i = n)]
  <2>1. ops' \in [Worker -> Nat] /\ \A d \in Worker : ops'[d] <= MaxOps[d]
    BY <1>2, <1>7 DEF Op, Written, Fetched, CallGet
  <2>2. v \in Seq(Recv)
    <3>1. n \in Nat /\ \A i \in 1 .. n : Receive("GET", t, i = n) \in Recv
      BY ChunksTyped DEF Receive, Recv, Fetched
    <3> HIDE DEF n
    <3>2. QED
      BY <3>1
  <2>3. Message("GET", t, 0) \in ReqMsg
    BY DEF Message, ReqMsg, Op, Fetched
  <2>4. /\ req' \in [Worker -> [Master -> Seq(ReqMsg)]]
        /\ posted' = [posted EXCEPT ![c][MasterOf[t]] = @ \o v]
    BY <1>4, <1>7, <2>3 DEF CallGet, nb_recv
  <2> HIDE DEF v
  <2>5. posted' \in [Worker -> [Master -> Seq(Recv)]]
    BY <1>1, <2>2, <2>4, SendTyped DEF Typed
  <2>6. QED
    BY <1>7, <2>1, <2>4, <2>5 DEF CallGet, Typed
<1>8. ASSUME NEW op \in {"FETCH_AND_ADD", "SWAP"}, comex_rmw(c, op, t)
      PROVE  Typed'
  <2>1. PICK v \in Carried(op) : nb_send(c, MasterOf[t], <<Message(op, t, v)>>)
    BY <1>8 DEF comex_rmw
  <2>2. /\ op \in Op /\ ops' \in [Worker -> Nat] /\ \A d \in Worker : ops'[d] <= MaxOps[d]
        /\ Message(op, t, v) \in ReqMsg
    BY <1>2, <1>3, <1>8, <2>1 DEF Op, Written, Fetched, comex_rmw
  <2>3. Message(op, t, 0) \in Todo /\ Message(op, t, 0) # NoOp
    BY <2>2 DEF Message, Todo, NoOp
  <2>4. <<Receive(op, t, TRUE)>> \in Seq(Recv)
    BY DEF Receive, Recv, Fetched
  <2>5. /\ req' \in [Worker -> [Master -> Seq(ReqMsg)]]
        /\ posted' \in [Worker -> [Master -> Seq(Recv)]]
    BY <1>1, <1>4, <1>8, <2>1, <2>2, <2>4, SendTyped DEF comex_rmw, nb_recv, Typed
  <2>6. /\ todo' \in [Worker -> Todo \cup {NoOp}] /\ todo'[c] # NoOp
        /\ \A d \in Worker : d # c => todo'[d] = todo[d]
    BY <1>8, <2>3 DEF comex_rmw, Typed
  <2>7. pc' \in [Worker -> Point] /\ pc'[c] = "rmw" /\ \A d \in Worker : d # c => pc'[d] = pc[d]
    BY <1>8, GotoTyped DEF comex_rmw, Point
  <2>8. \A d \in Worker : pc'[d] \in InShortcut \cup {"rmw"} <=> todo'[d] # NoOp
    BY <2>6, <2>7 DEF Typed
  <2>9. QED
    BY <1>8, <2>2, <2>5, <2>6, <2>7, <2>8 DEF comex_rmw, Typed
<1>9. QED
  BY <1>5, <1>6, <1>7, <1>8 DEF Call

(* A call that is over.                                                    *)
LEMMA DoneTyped ==
  ASSUME Typed, NEW c \in Worker, DirectDone(c)
  PROVE  /\ pc' \in [Worker -> Point]
         /\ todo' \in [Worker -> Todo \cup {NoOp}]
         /\ \A d \in Worker : pc'[d] \in InShortcut \cup {"rmw"} <=> todo'[d] # NoOp
<1>1. /\ pc' \in [Worker -> Point] /\ pc'[c] = "ready"
      /\ \A d \in Worker : d # c => pc'[d] = pc[d]
  BY GotoTyped DEF DirectDone, Point
<1>2. /\ todo' \in [Worker -> Todo \cup {NoOp}] /\ todo'[c] = NoOp
      /\ \A d \in Worker : d # c => todo'[d] = todo[d]
  BY DEF DirectDone, Typed
<1>3. QED
  BY <1>1, <1>2 DEF Typed, InShortcut

(* A worker goes from one point inside a shortcut operation to another, or *)
(* from one outside to another.                                            *)
LEMMA MoveTyped ==
  ASSUME Typed, NEW c \in Worker, NEW point \in Point, Goto(c, point),
         pc[c] \in InShortcut \cup {"rmw"} <=> point \in InShortcut \cup {"rmw"},
         UNCHANGED todo
  PROVE  /\ pc' \in [Worker -> Point]
         /\ \A d \in Worker : pc'[d] \in InShortcut \cup {"rmw"} <=> todo'[d] # NoOp
<1>1. /\ pc' \in [Worker -> Point] /\ pc'[c] = point
      /\ \A d \in Worker : d # c => pc'[d] = pc[d]
  BY GotoTyped
<1>2. QED
  BY <1>1 DEF Typed

(* A worker continues the call it is in.                                   *)
LEMMA ContinueTyped ==
  ASSUME Typed, NEW c \in Worker, Continue(c)
  PROVE  Typed'
<1>1. ASSUME pc[c] \in InShortcut \cup {"rmw"}
      PROVE  todo[c] \in Todo
  BY <1>1 DEF Typed
<1>2. CASE FenceMasterDone(c)
  <2>1. fence_array' \in [Worker -> SUBSET Master]
    BY <1>2 DEF FenceMasterDone, Typed
  <2>2. /\ pc' \in [Worker -> Point]
        /\ \A d \in Worker : pc'[d] \in InShortcut \cup {"rmw"} <=> todo'[d] # NoOp
    BY <1>2, MoveTyped DEF FenceMasterDone, Point, InShortcut
  <2>3. QED
    BY <1>2, <2>1, <2>2 DEF FenceMasterDone, Typed
<1>3. CASE DirectPut(c)
  <2>1. mem' \in [Worker -> Nat]
    BY <1>1, <1>3 DEF DirectPut, InShortcut, Typed, Todo
  <2>2. QED
    BY <1>3, <2>1, DoneTyped DEF DirectPut, Typed
<1>4. CASE DirectGet(c)
  <2>1. buf' \in [Worker -> (Worker \cup {NoRank}) \X Nat]
    BY <1>1, <1>4 DEF DirectGet, InShortcut, Typed, Todo
  <2>2. QED
    BY <1>4, <2>1, DoneTyped DEF DirectGet, Typed
<1>5. CASE DirectAccRead(c)
  <2>1. /\ semaphores' \in [Worker -> Worker \cup Master \cup {NoRank}]
        /\ tmp' \in [Worker \cup Master -> Nat]
    BY <1>1, <1>5 DEF DirectAccRead, AccRead, InShortcut, Typed, Todo
  <2>2. /\ pc' \in [Worker -> Point]
        /\ \A d \in Worker : pc'[d] \in InShortcut \cup {"rmw"} <=> todo'[d] # NoOp
    BY <1>5, MoveTyped DEF DirectAccRead, Point, InShortcut
  <2>3. QED
    BY <1>5, <2>1, <2>2 DEF DirectAccRead, Typed
<1>6. CASE DirectAccWrite(c)
  <2>1. /\ semaphores' \in [Worker -> Worker \cup Master \cup {NoRank}]
        /\ tmp' \in [Worker \cup Master -> Nat] /\ mem' \in [Worker -> Nat]
    BY <1>1, <1>6 DEF DirectAccWrite, AccWrite, InShortcut, Typed, Todo
  <2>2. QED
    BY <1>6, <2>1, DoneTyped DEF DirectAccWrite, Typed
<1>7. CASE RmwDone(c)
  BY <1>7, DoneTyped DEF RmwDone, Typed
<1>8. CASE FenceAllDone(c)
  <2>1. fence_array' \in [Worker -> SUBSET Master]
    BY <1>8 DEF FenceAllDone, Typed
  <2>2. /\ pc' \in [Worker -> Point]
        /\ \A d \in Worker : pc'[d] \in InShortcut \cup {"rmw"} <=> todo'[d] # NoOp
    BY <1>8, MoveTyped DEF FenceAllDone, Point, InShortcut
  <2>3. QED
    BY <1>8, <2>1, <2>2 DEF FenceAllDone, Typed
<1>9. QED
  BY <1>2, <1>3, <1>4, <1>5, <1>6, <1>7, <1>8 DEF Continue

(* Fences of a worker.                                                     *)
LEMMA FenceTyped ==
  ASSUME Typed, NEW c \in Worker, pc[c] = "ready",
         NEW x \in {"fence_all", "barrier_fence"}, NEW y \in {"ready", "barrier"},
         FenceAll(c, x, y),
         UNCHANGED <<todo, tmp, buf, fence_array, rep, serving, mem, semaphores, round, ops>>
  PROVE  Typed'
<1>1. Message("FENCE", c, 0) \in ReqMsg /\ Receive("FENCE", c, TRUE) \in Recv
  BY DEF Message, Receive, ReqMsg, Recv
<1>2. ASSUME NEW m \in Master
      PROVE  /\ req[c][m] \in Seq(ReqMsg) /\ posted[c][m] \in Seq(Recv)
             /\ Append(req[c][m], Message("FENCE", c, 0)) \in Seq(ReqMsg)
             /\ Append(posted[c][m], Receive("FENCE", c, TRUE)) \in Seq(Recv)
  BY <1>1 DEF Typed, Receive
<1> DEFINE q == [m \in Master |-> IF m \in fence_array[c]
                   THEN Append(req[c][m], Message("FENCE", c, 0)) ELSE req[c][m]]
           r == [m \in Master |-> IF m \in fence_array[c]
                   THEN Append(posted[c][m], Receive("FENCE", c, TRUE)) ELSE posted[c][m]]
<1>3. q \in [Master -> Seq(ReqMsg)] /\ r \in [Master -> Seq(Recv)]
  BY <1>2
<1>4. /\ req' = [req EXCEPT ![c] = q] /\ posted' = [posted EXCEPT ![c] = r]
  BY DEF FenceAll, Typed
<1> HIDE DEF q, r
<1>5. /\ req' \in [Worker -> [Master -> Seq(ReqMsg)]]
      /\ posted' \in [Worker -> [Master -> Seq(Recv)]]
  BY <1>3, <1>4 DEF Typed
<1>6. /\ pc' \in [Worker -> Point]
      /\ \A d \in Worker : pc'[d] \in InShortcut \cup {"rmw"} <=> todo'[d] # NoOp
  BY MoveTyped DEF FenceAll, Point, InShortcut
<1>7. QED
  BY <1>5, <1>6 DEF Typed

(* A receive completes.                                                    *)
LEMMA RecvTyped ==
  ASSUME Typed, NEW c \in Worker, NEW m \in Master, RecvReply(c, m)
  PROVE  Typed'
<1>1. /\ rep[c][m] \in Seq(RepMsg) /\ rep[c][m] # << >>
      /\ posted[c][m] \in Seq(Recv) /\ posted[c][m] # << >>
  BY DEF RecvReply, Typed
<1>2. Head(rep[c][m]) \in RepMsg /\ Head(posted[c][m]) \in Recv
  BY <1>1, TailElements
<1>3. rep' \in [Worker -> [Master -> Seq(RepMsg)]] /\ posted' \in [Worker -> [Master -> Seq(Recv)]]
  BY <1>1, TakeTyped DEF RecvReply, Typed
<1>4. buf' \in [Worker -> (Worker \cup {NoRank}) \X Nat]
  BY <1>2 DEF RecvReply, Typed, Recv, RepMsg
<1>5. QED
  BY <1>3, <1>4 DEF RecvReply, Typed

(* The oldest request of a worker.                                         *)
LEMMA HeadTyped ==
  ASSUME Typed, NEW c \in Worker, NEW m \in Master, req[c][m] # << >>
  PROVE  /\ req[c][m] \in Seq(ReqMsg) /\ rep[c][m] \in Seq(RepMsg) /\ posted[c][m] \in Seq(Recv)
         /\ Head(req[c][m]) = req[c][m][1] /\ req[c][m][1] \in ReqMsg
         /\ 1 \in 1 .. Len(req[c][m])
<1>1. req[c][m] \in Seq(ReqMsg) /\ rep[c][m] \in Seq(RepMsg) /\ posted[c][m] \in Seq(Recv)
  BY DEF Typed
<1>2. QED
  BY <1>1, TailElements

(* The progress rank takes a message.                                      *)
LEMMA ServerTyped ==
  ASSUME Typed, NEW c \in Worker, NEW m \in Master, progress_server(m, c)
  PROVE  Typed'
<1> DEFINE h == Head(req[c][m])
<1>1. req[c][m] # << >> /\ TakeFrom(m, c)
  BY DEF progress_server, WriteBegin, server_recv, get_handler, rmw_handler, fence_handler, Pending
<1>2. h \in ReqMsg
  BY <1>1, HeadTyped
<1>3. req' \in [Worker -> [Master -> Seq(ReqMsg)]]
  BY <1>1, TakeTyped DEF TakeFrom, Typed
<1>4. ASSUME NEW a \in Seq(RepMsg), server_send(m, c, a)
      PROVE  rep' \in [Worker -> [Master -> Seq(RepMsg)]]
  BY <1>4, SendTyped DEF server_send, Typed
<1> HIDE DEF h
<1>0. ASSUME NEW d \in RepMsg, server_send(m, c, <<d>>)
      PROVE  rep' \in [Worker -> [Master -> Seq(RepMsg)]]
  <2>1. <<d>> \in Seq(RepMsg)
    OBVIOUS
  <2>2. QED
    BY <1>0, <1>4, <2>1
<1>5. CASE WriteBegin(m, c)
  <2>1. h.op \in Written
    BY <1>5 DEF WriteBegin, Pending, h
  <2>2. h \in [op : Written, rank : Worker, val : Nat] /\ Chunks(Length[h.rank]) \in Nat
    BY <2>1, <1>2, ChunksTyped DEF ReqMsg
  <2>3. PICK n \in Nat : serving' = [serving EXCEPT ![m] = [src |-> c, msg |-> h, left |-> n]]
    BY <1>5, <2>2 DEF WriteBegin, Begin, h
  <2>4. serving' \in [Master -> Busy \cup {Idle}]
    BY <2>2, <2>3 DEF Typed, Busy
  <2>5. QED
    BY <1>3, <1>5, <2>4 DEF WriteBegin, Typed
<1>6. CASE server_recv(m, c)
  <2>1. serving[m] \in Busy
    BY <1>6, ConstantsTyped DEF server_recv, Typed, Idle
  <2> DEFINE chunk == Message(serving[m].msg.op, serving[m].msg.rank, h.val)
  <2>2. serving' = [serving EXCEPT ![m] =
                      [src |-> c, msg |-> chunk, left |-> serving[m].left - 1]]
    BY <1>6 DEF server_recv, h
  <2>3. [src |-> c, msg |-> chunk, left |-> serving[m].left - 1] \in Busy
    BY <1>2, <1>6, <2>1 DEF server_recv, Busy, ReqMsg, Message
  <2>4. serving' \in [Master -> Busy \cup {Idle}]
    BY <2>2, <2>3 DEF Typed
  <2>5. QED
    BY <1>3, <1>6, <2>4 DEF server_recv, Typed
<1>7. CASE get_handler(m, c)
  <2> DEFINE n == Chunks(Length[h.rank])
             d == Message("DATA", h.rank, mem[h.rank])
             a == [i \in 1 .. n |-> d]
  <2>1. n \in Nat /\ d \in RepMsg
    BY <1>2, ChunksTyped DEF ReqMsg, RepMsg, Message, Typed
  <2>2. server_send(m, c, a)
    BY <1>7 DEF get_handler, h
  <2>3. a \in Seq(RepMsg)
    <3> HIDE DEF n, d
    <3>1. QED
      BY <2>1
  <2> HIDE DEF a
  <2>4. QED
    BY <1>3, <1>4, <1>7, <2>2, <2>3 DEF get_handler, Typed
<1>8. CASE rmw_handler(m, c)
  <2>1. Message("DATA", h.rank, mem[h.rank]) \in RepMsg
    BY <1>2 DEF ReqMsg, RepMsg, Message, Typed
  <2>2. server_send(m, c, <<Message("DATA", h.rank, mem[h.rank])>>)
    BY <1>8 DEF rmw_handler, h
  <2>3. mem' = [mem EXCEPT ![h.rank] = IF h.op = "SWAP" THEN h.val ELSE @ + h.val]
    BY <1>8 DEF rmw_handler, h
  <2>4. mem' \in [Worker -> Nat]
    BY SMTT(30), <1>2, <2>3 DEF ReqMsg, Typed
  <2>5. rep' \in [Worker -> [Master -> Seq(RepMsg)]]
    BY <1>0, <2>1, <2>2
  <2>6. QED
    BY <1>3, <1>8, <2>4, <2>5 DEF rmw_handler, Typed
<1>9. CASE fence_handler(m, c)
  <2>1. Message("ACK", c, 0) \in RepMsg
    BY DEF RepMsg, Message
  <2>2. server_send(m, c, <<Message("ACK", c, 0)>>)
    BY <1>9 DEF fence_handler
  <2>3. rep' \in [Worker -> [Master -> Seq(RepMsg)]]
    BY <1>0, <2>1, <2>2
  <2>4. QED
    BY <1>3, <1>9, <2>3 DEF fence_handler, Typed
<1>10. QED
  BY <1>5, <1>6, <1>7, <1>8, <1>9 DEF progress_server

(* The progress rank goes on with a put or an accumulate.                  *)
LEMMA HandleTyped ==
  ASSUME Typed, NEW m \in Master, Handle(m)
  PROVE  Typed' /\ serving[m] \in Busy
<1>1. serving[m] \in Busy
  BY ConstantsTyped DEF Handle, PutEnd, HandlerAccRead, HandlerAccWrite, HasPayload, Typed, Idle,
                        NoOp, Message
<1>2. CASE PutEnd(m)
  <2>1. mem' \in [Worker -> Nat] /\ serving' \in [Master -> Busy \cup {Idle}]
    BY <1>1, <1>2 DEF PutEnd, Typed, Busy
  <2>2. QED
    BY <1>1, <1>2, <2>1 DEF PutEnd, Typed
<1>3. CASE HandlerAccRead(m)
  <2>1. /\ semaphores' \in [Worker -> Worker \cup Master \cup {NoRank}]
        /\ tmp' \in [Worker \cup Master -> Nat]
    BY <1>1, <1>3 DEF HandlerAccRead, AccRead, Typed, Busy
  <2>2. QED
    BY <1>1, <1>3, <2>1 DEF HandlerAccRead, Typed
<1>4. CASE HandlerAccWrite(m)
  <2>1. /\ semaphores' \in [Worker -> Worker \cup Master \cup {NoRank}]
        /\ tmp' \in [Worker \cup Master -> Nat]
        /\ serving' \in [Master -> Busy \cup {Idle}]
    BY <1>4 DEF HandlerAccWrite, AccWrite, Typed
  <2>2. mem' \in [Worker -> Nat]
    BY SMTT(30), <1>1, <1>4 DEF HandlerAccWrite, AccWrite, Typed, Busy
  <2>3. QED
    BY <1>1, <1>4, <2>1, <2>2 DEF HandlerAccWrite, Typed
<1>5. QED
  BY <1>1, <1>2, <1>3, <1>4 DEF Handle

(* The types hold in every state the runtime reaches.                      *)
LEMMA TypedStep ==
  ASSUME Typed, [Next]_vars
  PROVE  Typed'
<1>1. CASE UNCHANGED vars
  BY <1>1 DEF vars, Typed
<1>2. CASE MPI_Barrier
  <2>1. \A c \in Worker : todo[c] = NoOp
    BY <1>2 DEF MPI_Barrier, Typed, InShortcut
  <2>2. QED
    BY <1>2, <2>1 DEF MPI_Barrier, Typed, Point, InShortcut
<1>3. ASSUME NEW c \in Worker, comex_fence_all(c) \/ comex_barrier(c)
      PROVE  Typed'
  BY <1>3, FenceTyped DEF comex_fence_all, comex_barrier
<1>4. QED
  BY <1>1, <1>2, <1>3, CallTyped, ContinueTyped, RecvTyped, ServerTyped, HandleTyped DEF Next

(* The initial state has the types.                                        *)
LEMMA TypedInit == Init => Typed
<1> SUFFICES ASSUME Init PROVE Typed
  OBVIOUS
<1>1. NoOp \in Todo \cup {NoOp} /\ "ready" \in Point /\ "ready" \notin InShortcut \cup {"rmw"}
  BY DEF Point, InShortcut
<1>2. QED
  BY <1>1, ConstantsTyped DEF Init, Typed, NoAnswer

(* TypeOK holds in every state the runtime reaches, for any workers,       *)
(* progress ranks, sizes and shortcuts.                                    *)
THEOREM TypeCorrect == Spec => []TypeOK
<1>1. Typed => TypeOK
  <2> SUFFICES ASSUME Typed PROVE TypeOK
    OBVIOUS
  <2>1. \A c \in Worker : todo[c] = NoOp <=> pc[c] \notin {"fence_master", "direct", "acc", "rmw"}
    BY DEF Typed, InShortcut
  <2>2. \A c \in Worker : buf[c][1] \in Worker \cup {NoRank} /\ buf[c][2] \in Nat
    BY DEF Typed
  <2>3. ASSUME NEW c \in Worker, NEW m \in Master, NEW i \in DOMAIN req[c][m]
        PROVE  req[c][m][i].op \in Written \cup Fetched \cup {"DATA", "FENCE"}
    <3>1. req[c][m] \in Seq(ReqMsg)
      BY DEF Typed
    <3>2. req[c][m][i] \in ReqMsg
      BY <3>1
    <3>3. QED
      BY <3>2 DEF ReqMsg, Op
  <2>4. ASSUME NEW c \in Worker, NEW m \in Master, NEW i \in DOMAIN posted[c][m]
        PROVE  posted[c][m][i] \in Recv
    <3>1. posted[c][m] \in Seq(Recv)
      BY DEF Typed
    <3>2. QED
      BY <3>1
  <2>5. \A m \in Master : serving[m].src \in Worker \cup {NoRank} /\ serving[m].left \in Nat
    BY SMTT(30) DEF Typed, Busy, Idle
  <2>6. \A c \in Worker : ops[c] \in 0 .. MaxOps[c]
    BY ConstantsTyped DEF Typed
  <2>7. QED
    BY <2>1, <2>2, <2>3, <2>4, <2>5, <2>6 DEF TypeOK, Typed, Recv
<1>2. QED
  BY <1>1, TypedInit, TypedStep, PTL DEF Spec

-----------------------------------------------------------------------------
(* The channels stay in step.                                              *)

(* When all receives of a fence have completed, nothing that it covers is  *)
(* left: its request would have a receive.                                 *)
LEMMA CoveredClear ==
  ASSUME NEW p \in Seq(RepMsg), NEW q \in Seq(ReqMsg), NEW r \in Seq(Recv), NEW s, NEW c,
         Matched(p, q, r), r = << >>, Covered(q, s, c)
  PROVE  Clear(q, s, c)
<1>1. Len(q) \in Nat /\ Len(r) = 0 /\ Len(p) \in Nat
  OBVIOUS
<1>2. ASSUME q # << >>, q[Len(q)].op = "FENCE"
      PROVE  FALSE
  <2>1. PICK off \in [1 .. (Len(q) + 1) -> 0 .. Len(r)] : Offsets(off, Len(p), q, r)
    BY DEF Matched
  <2>2. Len(q) \in 1 .. Len(q) /\ Len(q) \in 1 .. (Len(q) + 1) /\ Len(q) + 1 \in 1 .. (Len(q) + 1)
    BY <1>1, <1>2
  <2>3. Answers(q[Len(q)]) = 1
    BY <1>2 DEF Answers
  <2>4. off[Len(q) + 1] = off[Len(q)] + 1
    BY <2>1, <2>2, <2>3 DEF Offsets
  <2>5. off[Len(q)] \in 0 .. 0 /\ off[Len(q) + 1] \in 0 .. 0
    BY <1>1, <2>1, <2>2
  <2>6. QED
    BY <2>4, <2>5
<1>3. q = << >> /\ s.src # c
  BY <1>2 DEF Covered
<1>4. QED
  BY <1>3 DEF Clear

(* A channel that no action touches.                                       *)
LEMMA SameKeeps ==
  ASSUME NEW c \in Worker, NEW m \in Master, Channel(c, m),
         req'[c][m] = req[c][m], rep'[c][m] = rep[c][m], posted'[c][m] = posted[c][m],
         serving'[m] = serving[m], Fencing(c, m)' => Fencing(c, m),
         m \in fence_array[c] => m \in fence_array'[c]
  PROVE  Channel(c, m)'
BY DEF Channel

(* Where a worker stays is where it fences.                                *)
LEMMA StayFences ==
  ASSUME NEW c \in Worker, NEW m \in Master, pc'[c] = pc[c], todo'[c] = todo[c],
         fence_array'[c] = fence_array[c]
  PROVE  Fencing(c, m)' <=> Fencing(c, m)
BY SMTT(30) DEF Fencing

(* A worker sends, after posting the receives for the answers.             *)
LEMMA SendKeeps ==
  ASSUME Typed, NEW c \in Worker, NEW m \in Master, Channel(c, m),
         NEW t \in Seq(ReqMsg), NEW r \in Seq(Recv), t # << >>,
         req'[c][m] = req[c][m] \o t, posted'[c][m] = r, rep'[c][m] = rep[c][m],
         serving'[m] = serving[m],
         Framed(t, Idle, c), Matched(rep[c][m], req[c][m] \o t, r),
         \A i \in 1 .. Len(t) :
           /\ t[i].op = "FENCE" => t[i].rank = c
           /\ t[i].op # "FENCE" => MasterOf[t[i].rank] = m,
         Fencing(c, m)' => t[Len(t)].op = "FENCE",
         m \notin fence_array'[c] =>
           m \notin fence_array[c] /\ \A i \in 1 .. Len(t) : t[i].op \notin Written \cup {"DATA"}
  PROVE  Channel(c, m)'
<1> DEFINE q == req[c][m]
           u == q \o t
<1>1. q \in Seq(ReqMsg) /\ serving[m] \in Busy \cup {Idle}
  BY DEF Typed
<1>2. /\ Len(u) = Len(q) + Len(t) /\ Len(q) \in Nat /\ Len(t) \in Nat
      /\ \A i \in 1 .. Len(q) : u[i] = q[i]
      /\ \A i \in 1 .. Len(u) : i > Len(q) => u[i] = t[i - Len(q)] /\ i - Len(q) \in 1 .. Len(t)
      /\ \A i \in 1 .. Len(t) : u[Len(q) + i] = t[i]
  <2> HIDE DEF q
  <2>1. QED
    BY <1>1, ConcatElements
<1>3. Framed(u, serving[m], c)
  BY <1>1, FramedConcat DEF Channel
<1>4. req'[c][m] = u
  OBVIOUS
<1>5. Len(t) > 0
  BY <1>2
<1> HIDE DEF u
<1>6. ASSUME NEW i \in 1 .. Len(u)
      PROVE  (i \in 1 .. Len(q) /\ u[i] = q[i]) \/ \E k \in 1 .. Len(t) : u[i] = t[k]
  <2>1. i > Len(q) \/ i \in 1 .. Len(q)
    BY <1>2
  <2>2. QED
    BY <2>1, <1>2
<1>7. \A i \in 1 .. Len(u) : /\ u[i].op = "FENCE" => u[i].rank = c
                             /\ u[i].op # "FENCE" => MasterOf[u[i].rank] = m
  BY ZenonT(60), <1>6 DEF Channel
<1>8. Fencing(c, m)' => Covered(u, serving[m], c)
  <2>1. u[Len(u)] = t[Len(t)] /\ u # << >>
    BY <1>2, <1>5
  <2>2. QED
    BY <2>1 DEF Covered
<1>9. m \notin fence_array'[c] => Clear(u, serving[m], c)
  BY <1>6 DEF Channel, Clear
<1>10. QED
  BY <1>3, <1>4, <1>7, <1>8, <1>9 DEF Channel, u

(* A progress rank goes from state s to s2 when it takes message h of c:   *)
(* a header whose chunks it waits for then, or a chunk it has waited for.  *)
Taken(s, s2, h, c) ==
  /\ \/ /\ Owed(s, c) = 0 /\ Owed(s2, c) = Following(h)
        /\ Owed(s2, c) > 0 => s2.msg.rank = h.rank /\ s2.msg.val = h.val
     \/ /\ Owed(s, c) > 0 /\ Owed(s2, c) = Owed(s, c) - 1
        /\ s2.msg.rank = s.msg.rank /\ s2.msg.val = s.msg.val
  /\ s2.src = c => h.op \in Written \cup {"DATA"}
  /\ \A d \in Worker \ {c} : Owed(s, d) = 0 /\ s2.src # d

(* Messages a answer request h.                                            *)
Replies(a, h) ==
  /\ Len(a) = Answers(h)
  /\ \A k \in 1 .. Len(a) :
       a[k].op = (IF h.op = "FENCE" THEN "ACK" ELSE "DATA") /\ a[k].rank = h.rank

(* The progress rank takes the oldest message of a worker and answers it.  *)
LEMMA TakeKeeps ==
  ASSUME Typed, Typed', NEW c \in Worker, NEW m \in Master, Channel(c, m),
         req[c][m] # << >>, req'[c][m] = Tail(req[c][m]), posted'[c][m] = posted[c][m],
         NEW a \in Seq(RepMsg), rep'[c][m] = rep[c][m] \o a, Replies(a, req[c][m][1]),
         Taken(serving[m], serving'[m], req[c][m][1], c),
         pc'[c] = pc[c], todo'[c] = todo[c], fence_array'[c] = fence_array[c]
  PROVE  Channel(c, m)'
<1> DEFINE q == req[c][m]
           u == Tail(q)
           s == serving[m]
           s2 == serving'[m]
<1>1. q \in Seq(ReqMsg) /\ rep[c][m] \in Seq(RepMsg) /\ posted[c][m] \in Seq(Recv)
      /\ s \in Busy \cup {Idle} /\ s2 \in Busy \cup {Idle}
  BY ZenonT(60) DEF Typed
<1>2. Framed(q, s, c) /\ Matched(rep[c][m], q, posted[c][m])
  BY DEF Channel
<1>3. /\ \A i \in 1 .. Len(q) : /\ q[i].op = "FENCE" => q[i].rank = c
                                /\ q[i].op # "FENCE" => MasterOf[q[i].rank] = m
      /\ Fencing(c, m) => Covered(q, s, c)
      /\ m \notin fence_array[c] => Clear(q, s, c)
  BY DEF Channel
<1> HIDE DEF q, s, s2
<1>4. Framed(u, s2, c)
  BY <1>1, <1>2, FramedTail DEF q, s, s2, Taken
<1>5. Matched(rep[c][m] \o a, u, posted[c][m])
  BY <1>1, <1>2, MatchedAnswer DEF q, Replies
<1>6. /\ Len(u) = Len(q) - 1 /\ Len(u) \in Nat /\ Len(q) \in Nat /\ Len(q) > 0
      /\ \A i \in 1 .. Len(u) : u[i] = q[i + 1] /\ i + 1 \in 1 .. Len(q)
      /\ 1 \in 1 .. Len(q) /\ Len(q) \in 1 .. Len(q)
  BY <1>1, TailElements DEF q
<1> HIDE DEF u
<1>7. \A i \in 1 .. Len(u) : /\ u[i].op = "FENCE" => u[i].rank = c
                             /\ u[i].op # "FENCE" => MasterOf[u[i].rank] = m
  BY <1>3, <1>6
<1>8. Covered(q, s, c) => Covered(u, s2, c)
  <2> SUFFICES ASSUME Covered(q, s, c) PROVE Covered(u, s2, c)
    OBVIOUS
  <2>1. q[Len(q)].op = "FENCE"
    BY <1>6 DEF Covered, q
  <2>2. CASE u = << >>
    <3>1. Len(u) = 0
      BY <2>2
    <3>2. q[1].op = "FENCE"
      <4>1. Len(q) = 1
        BY <3>1, <1>6
      <4>2. QED
        BY <2>1, <4>1
    <3>3. s2.src # c
      BY <3>2 DEF q, s2, Written, Taken
    <3>4. QED
      BY <2>2, <3>3 DEF Covered
  <2>3. CASE u # << >>
    <3>1. u \in Seq(ReqMsg)
      BY <1>1, <1>6, TailElements DEF u
    <3>2. Len(u) \in 1 .. Len(u) /\ Len(u) + 1 = Len(q)
      BY <2>3, <3>1, <1>6
    <3>3. u[Len(u)] = q[Len(q)]
      BY <3>2, <1>6
    <3>4. QED
      BY <2>1, <2>3, <3>3 DEF Covered
  <2>4. QED
    BY <2>2, <2>3
<1>9. Clear(q, s, c) => Clear(u, s2, c)
  <2> SUFFICES ASSUME Clear(q, s, c) PROVE Clear(u, s2, c)
    OBVIOUS
  <2>1. q[1].op \notin Written \cup {"DATA"}
    BY <1>6 DEF Clear
  <2>2. s2.src # c
    BY <2>1 DEF q, s2, Taken
  <2>3. QED
    BY <2>2, <1>6 DEF Clear
<1>10. Fencing(c, m)' <=> Fencing(c, m)
  BY StayFences
<1>11. QED
  BY <1>3, <1>4, <1>5, <1>7, <1>8, <1>9, <1>10 DEF Channel, u, q, s2

(* A channel whose worker the progress rank does not serve now.            *)
LEMMA OtherKeeps ==
  ASSUME NEW d \in Worker, NEW m \in Master, Channel(d, m),
         req'[d][m] = req[d][m], rep'[d][m] = rep[d][m], posted'[d][m] = posted[d][m],
         Owed(serving[m], d) = 0, serving'[m].src # d,
         pc'[d] = pc[d], todo'[d] = todo[d], fence_array'[d] = fence_array[d]
  PROVE  Channel(d, m)'
<1>1. Owed(serving'[m], d) = 0
  BY DEF Owed
<1>2. Framed(req[d][m], serving'[m], d)
  BY <1>1, FramedOther DEF Channel
<1>3. Fencing(d, m)' <=> Fencing(d, m)
  BY StayFences
<1>4. Fencing(d, m) => Covered(req[d][m], serving'[m], d)
  BY DEF Channel, Covered
<1>5. m \notin fence_array[d] => Clear(req[d][m], serving'[m], d)
  BY DEF Channel, Clear
<1>6. QED
  BY <1>2, <1>3, <1>4, <1>5 DEF Channel

(* What a worker does concerns its own channels only.                      *)
LEMMA WorkerFrame ==
  ASSUME IInv, Typed', NEW c \in Worker, UNCHANGED serving,
         \A d \in Worker \ {c} :
           /\ pc'[d] = pc[d] /\ todo'[d] = todo[d] /\ fence_array'[d] = fence_array[d]
           /\ req'[d] = req[d] /\ rep'[d] = rep[d] /\ posted'[d] = posted[d],
         \A m \in Master : Channel(c, m)',
         pc'[c] = "barrier" => fence_array'[c] = {}
  PROVE  IInv'
<1>1. ASSUME NEW d \in Worker, NEW m \in Master
      PROVE  Channel(d, m)'
  <2>1. CASE d = c
    BY <2>1
  <2>2. CASE d # c
    <3>1. Channel(d, m)
      BY DEF IInv
    <3>2. Fencing(d, m)' <=> Fencing(d, m)
      BY <2>2, StayFences
    <3>3. QED
      BY <2>2, <3>1, <3>2, SameKeeps
  <2>3. QED
    BY <2>1, <2>2
<1>2. \A d \in Worker : pc'[d] = "barrier" => fence_array'[d] = {}
  BY DEF IInv
<1>3. QED
  BY <1>1, <1>2 DEF IInv

(* What changes of a channel when a message is put at its end.             *)
LEMMA PutAtEnd ==
  ASSUME NEW S, NEW q \in [Worker -> [Master -> Seq(S)]], NEW c \in Worker, NEW m \in Master,
         NEW t, NEW q2, q2 = [q EXCEPT ![c][m] = @ \o t]
  PROVE  /\ q2[c][m] = q[c][m] \o t
         /\ \A n \in Master \ {m} : q2[c][n] = q[c][n]
         /\ \A d \in Worker \ {c} : q2[d] = q[d]
OBVIOUS

(* A message and the receives for its answers.                             *)
LEMMA RequestKeeps ==
  ASSUME IInv, Typed', NEW c \in Worker, NEW m \in Master, NEW h \in ReqMsg, NEW v \in Seq(Recv),
         nb_send(c, m, <<h>>), nb_recv(c, m, v), UNCHANGED <<rep, serving>>,
         h.op # "DATA", Following(h) = 0,
         Len(v) = Answers(h), \A k \in 1 .. Answers(h) : v[k] = Wanted(h, k),
         h.op = "FENCE" => h.rank = c, h.op # "FENCE" => MasterOf[h.rank] = m,
         Fencing(c, m)' => h.op = "FENCE",
         \A n \in Master \ {m} : ~Fencing(c, n)',
         h.op \in Written => m \in fence_array'[c],
         fence_array[c] \subseteq fence_array'[c], pc'[c] # "barrier",
         \A d \in Worker \ {c} :
           pc'[d] = pc[d] /\ todo'[d] = todo[d] /\ fence_array'[d] = fence_array[d]
  PROVE  IInv'
<1>1. /\ req \in [Worker -> [Master -> Seq(ReqMsg)]]
      /\ posted \in [Worker -> [Master -> Seq(Recv)]]
      /\ req[c][m] \in Seq(ReqMsg) /\ posted[c][m] \in Seq(Recv) /\ rep[c][m] \in Seq(RepMsg)
  BY DEF IInv, Typed
<1>2. /\ req'[c][m] = req[c][m] \o <<h>>
      /\ \A n \in Master \ {m} : req'[c][n] = req[c][n]
      /\ \A d \in Worker \ {c} : req'[d] = req[d]
  BY <1>1, PutAtEnd DEF nb_send
<1>3. /\ posted'[c][m] = posted[c][m] \o v
      /\ \A n \in Master \ {m} : posted'[c][n] = posted[c][n]
      /\ \A d \in Worker \ {c} : posted'[d] = posted[d]
  BY <1>1, PutAtEnd DEF nb_recv
<1>4. Channel(c, m)'
  <2>1. /\ <<h>> \in Seq(ReqMsg) /\ <<h>> # << >> /\ Len(<<h>>) = 1 /\ <<h>>[1] = h
        /\ posted[c][m] \o v \in Seq(Recv)
    BY <1>1, ConcatElements
  <2>2. Framed(<<h>>, Idle, c)
    BY FramedOne
  <2>3. Matched(rep[c][m], req[c][m] \o <<h>>, posted[c][m] \o v)
    <3>1. Matched(rep[c][m], req[c][m], posted[c][m])
      BY DEF IInv, Channel
    <3>2. QED
      BY <1>1, <3>1, MatchedSend
  <2>4. \A i \in 1 .. Len(<<h>>) : <<h>>[i] = h
    BY <2>1
  <2>5. Channel(c, m) /\ Typed
    BY DEF IInv
  <2> DEFINE t == <<h>>
             r == posted[c][m] \o v
  <2>6. /\ t \in Seq(ReqMsg) /\ t # << >> /\ r \in Seq(Recv) /\ t[Len(t)] = h
        /\ \A i \in 1 .. Len(t) : t[i] = h
        /\ Framed(t, Idle, c) /\ Matched(rep[c][m], req[c][m] \o t, r)
        /\ req'[c][m] = req[c][m] \o t /\ posted'[c][m] = r
    BY <1>2, <1>3, <2>1, <2>2, <2>3, <2>4
  <2> HIDE DEF t, r
  <2>7. /\ Fencing(c, m)' => t[Len(t)].op = "FENCE"
        /\ m \notin fence_array'[c] =>
             m \notin fence_array[c] /\ \A i \in 1 .. Len(t) : t[i].op \notin Written \cup {"DATA"}
        /\ \A i \in 1 .. Len(t) : /\ t[i].op = "FENCE" => t[i].rank = c
                                  /\ t[i].op # "FENCE" => MasterOf[t[i].rank] = m
    BY <2>6
  <2>8. rep'[c][m] = rep[c][m] /\ serving'[m] = serving[m]
    OBVIOUS
  <2>9. QED
    BY <2>5, <2>6, <2>7, <2>8, SendKeeps
<1>5. ASSUME NEW n \in Master, n # m
      PROVE  Channel(c, n)'
  <2>1. Channel(c, n)
    BY DEF IInv
  <2>2. QED
    BY <1>2, <1>3, <1>5, <2>1, SameKeeps
<1>6. QED
  BY <1>2, <1>3, <1>4, <1>5, WorkerFrame

(* A worker calls.                                                         *)
LEMMA CallKeeps ==
  ASSUME IInv, Typed', NEW c \in Worker, NEW t \in Worker, Call(c, t)
  PROVE  IInv'
<1> DEFINE m == MasterOf[t]
<1>1. m \in Master /\ Typed
  BY ConstantsTyped DEF IInv
<1> HIDE DEF m
<1>2. pc \in [Worker -> Point] /\ todo \in [Worker -> Todo \cup {NoOp}]
      /\ fence_array \in [Worker -> SUBSET Master]
  BY <1>1 DEF Typed
<1>3. ASSUME NEW op \in Op, NEW v \in Carried(op)
      PROVE  /\ Message(op, t, v) \in ReqMsg /\ Message(op, t, v).op = op
             /\ Message(op, t, v).rank = t
  <2>1. v \in Nat
    BY CarriedTyped
  <2>2. QED
    BY <2>1 DEF Message, ReqMsg
<1>4. ASSUME NEW op \in {"PUT", "GET", "ACC"}, CallDirect(c, op, t), m \in fence_array[c]
      PROVE  IInv'
  <2> DEFINE h == Message("FENCE", c, 0)
             w == Receive("FENCE", c, TRUE)
             v == <<w>>
  <2>1. h \in ReqMsg /\ h.op = "FENCE" /\ h.rank = c /\ Following(h) = 0 /\ Answers(h) = 1
    BY DEF Message, ReqMsg, Following, Answers, Written
  <2>2. w \in Recv /\ Wanted(h, 1) = w
    <3>1. w \in Recv
      BY DEF Receive, Recv
    <3>2. Wanted(h, 1) = w
      BY <2>1 DEF Wanted, Receive
    <3>3. QED
      BY <3>1, <3>2
  <2>3. nb_send(c, m, <<h>>) /\ nb_recv(c, m, v) /\ Goto(c, "fence_master")
    BY <1>4 DEF CallDirect, m
  <2>4. PICK x \in Carried(op) : todo' = [todo EXCEPT ![c] = Message(op, t, x)]
    BY <1>4 DEF CallDirect
  <2>5. /\ pc'[c] = "fence_master" /\ todo'[c].rank = t
        /\ \A d \in Worker \ {c} : pc'[d] = pc[d] /\ todo'[d] = todo[d]
    BY <1>2, <2>3, <2>4 DEF Goto, Message
  <2>6. UNCHANGED <<rep, serving, fence_array>>
    BY <1>4 DEF CallDirect
  <2>7. \A n \in Master \ {m} : ~Fencing(c, n)'
    BY <2>5 DEF Fencing, m
  <2> HIDE DEF w, h
  <2>8. v \in Seq(Recv) /\ Len(v) = 1 /\ v[1] = w
    BY <2>2
  <2> HIDE DEF v
  <2>9. /\ \A k \in 1 .. Answers(h) : v[k] = Wanted(h, k)
        /\ Len(v) = Answers(h) /\ h.op # "DATA" /\ h.op \notin Written
        /\ pc'[c] # "barrier" /\ fence_array' = fence_array
    BY <2>1, <2>2, <2>5, <2>6, <2>8 DEF Written
  <2>10. QED
    BY <1>1, <2>1, <2>3, <2>5, <2>6, <2>7, <2>8, <2>9, RequestKeeps
<1>5. ASSUME NEW op \in {"PUT", "GET", "ACC"}, CallDirect(c, op, t), m \notin fence_array[c]
      PROVE  IInv'
  <2>1. Goto(c, "direct") /\ UNCHANGED <<req, rep, posted, serving, fence_array>>
    BY <1>5 DEF CallDirect, m
  <2>2. \A d \in Worker \ {c} : todo'[d] = todo[d]
    BY <1>2, <1>5 DEF CallDirect
  <2>3. pc'[c] = "direct" /\ \A d \in Worker \ {c} : pc'[d] = pc[d]
    BY <1>2, <2>1 DEF Goto
  <2>4. ASSUME NEW n \in Master
        PROVE  Channel(c, n)'
    <3>1. Channel(c, n) /\ ~Fencing(c, n)'
      BY <2>3 DEF IInv, Fencing
    <3>2. QED
      BY <2>1, <3>1, SameKeeps
  <2>5. QED
    BY <2>1, <2>2, <2>3, <2>4, WorkerFrame
<1>6. ASSUME NEW op \in {"PUT", "ACC"}, CallWrite(c, op, t)
      PROVE  IInv'
  <2>1. PICK v \in Carried(op) : nb_send(c, m, PayloadMessages(Message(op, t, v)))
    BY <1>6 DEF CallWrite, m
  <2> DEFINE h == Message(op, t, v)
             p == PayloadMessages(h)
             q == req[c][m]
             r == posted[c][m]
  <2>2. h \in ReqMsg /\ h.op \in Written /\ h.rank = t
    BY <1>3 DEF Op, Written
  <2> HIDE DEF h
  <2>3. /\ Framed(p, Idle, c) /\ p \in Seq(ReqMsg) /\ p # << >>
        /\ \A i \in 1 .. Len(p) : p[i].rank = t /\ p[i].op \in Written \cup {"DATA"}
    BY <2>2, FramedPayload
  <2> HIDE DEF p
  <2>4. /\ pc[c] = "ready" /\ fence_array' = [fence_array EXCEPT ![c] = @ \cup {m}]
        /\ UNCHANGED <<pc, todo, rep, posted, serving>>
    BY <1>6 DEF CallWrite, CanCall, m
  <2>5. /\ m \in fence_array'[c] /\ \A n \in Master : n \in fence_array[c] => n \in fence_array'[c]
        /\ \A d \in Worker \ {c} : fence_array'[d] = fence_array[d]
    BY <1>1, <1>2, <2>4
  <2>6. /\ req'[c][m] = q \o p /\ \A n \in Master \ {m} : req'[c][n] = req[c][n]
        /\ \A d \in Worker \ {c} : req'[d] = req[d]
    <3>1. req \in [Worker -> [Master -> Seq(ReqMsg)]]
      BY <1>1 DEF Typed
    <3>2. req' = [req EXCEPT ![c][m] = @ \o p]
      BY <2>1 DEF nb_send, p, h
    <3>3. QED
      BY <1>1, <3>1, <3>2, PutAtEnd
  <2>7. \A n \in Master : ~Fencing(c, n)'
    BY <2>4 DEF Fencing
  <2>8. Channel(c, m)'
    <3>1. q \in Seq(ReqMsg) /\ r \in Seq(Recv) /\ rep[c][m] \in Seq(RepMsg)
      BY <1>1 DEF Typed
    <3>2. Channel(c, m) /\ Matched(rep[c][m], q, r)
      BY <1>1 DEF IInv, Channel
    <3>3. \A i \in 1 .. Len(p) : Answers(p[i]) = 0
      BY <2>3 DEF Answers, Written
    <3>4. Matched(rep[c][m], q \o p, r)
      BY <2>3, <3>1, <3>2, <3>3, MatchedSilent
    <3>5. \A i \in 1 .. Len(p) : /\ p[i].op = "FENCE" => p[i].rank = c
                                 /\ p[i].op # "FENCE" => MasterOf[p[i].rank] = m
      BY <2>3 DEF Written, m
    <3>6. posted'[c][m] = r /\ rep'[c][m] = rep[c][m] /\ serving'[m] = serving[m]
      BY <2>4
    <3> HIDE DEF q, r
    <3>7. QED
      BY <1>1, <2>3, <2>5, <2>6, <2>7, <3>1, <3>2, <3>4, <3>5, <3>6, SendKeeps DEF q, r
  <2>9. ASSUME NEW n \in Master, n # m
        PROVE  Channel(c, n)'
    <3>1. Channel(c, n)
      BY DEF IInv
    <3>2. QED
      BY <2>4, <2>5, <2>6, <2>7, <2>9, <3>1, SameKeeps
  <2>10. QED
    BY <2>4, <2>5, <2>6, <2>8, <2>9, WorkerFrame
<1>7. ASSUME CallGet(c, t)
      PROVE  IInv'
  <2> DEFINE h == Message("GET", t, 0)
             n == Chunks(Length[t])
             v == [i \in 1 .. n |-> Receive("GET", t, i = n)]
  <2>1. /\ h \in ReqMsg /\ h.op = "GET" /\ h.rank = t /\ Following(h) = 0 /\ Answers(h) = n
    BY DEF Message, ReqMsg, Following, Answers, Written, Fetched, Op
  <2>2. nb_send(c, m, <<h>>) /\ nb_recv(c, m, v)
    BY <1>7 DEF CallGet, m
  <2>3. /\ pc[c] = "ready" /\ UNCHANGED <<pc, todo, fence_array, rep, serving>>
    BY <1>7 DEF CallGet, CanCall
  <2>4. \A x \in Master : ~Fencing(c, x)'
    BY <2>3 DEF Fencing
  <2>5. /\ v \in Seq(Recv) /\ Len(v) = n
        /\ \A k \in 1 .. n : v[k] = Wanted(h, k)
    <3>1. /\ n \in Nat /\ \A i \in 1 .. n : Receive("GET", t, i = n) \in Recv
      BY ChunksTyped DEF Receive, Recv, Fetched
    <3>2. \A k \in 1 .. n : Wanted(h, k) = Receive("GET", t, k = n)
      BY <2>1 DEF Wanted, Receive
    <3> HIDE DEF n, h
    <3>3. v \in Seq(Recv) /\ Len(v) = n /\ \A k \in 1 .. n : v[k] = Receive("GET", t, k = n)
      BY <3>1 DEF Receive
    <3>4. QED
      BY <3>2, <3>3
  <2> HIDE DEF h, n, v
  <2>6. /\ h.op # "DATA" /\ h.op # "FENCE" /\ h.op \notin Written /\ MasterOf[h.rank] = m
        /\ pc'[c] # "barrier"
    BY <2>1, <2>3 DEF Written, m
  <2>7. QED
    BY <1>1, <2>1, <2>2, <2>3, <2>4, <2>5, <2>6, RequestKeeps
<1>8. ASSUME NEW op \in {"FETCH_AND_ADD", "SWAP"}, comex_rmw(c, op, t)
      PROVE  IInv'
  <2>1. PICK x \in Carried(op) : nb_send(c, m, <<Message(op, t, x)>>)
    BY <1>8 DEF comex_rmw, m
  <2> DEFINE h == Message(op, t, x)
             w == Receive(op, t, TRUE)
             v == <<w>>
  <2>2. h \in ReqMsg /\ h.op = op /\ h.rank = t
    BY <1>3 DEF Op, Fetched
  <2> HIDE DEF h
  <2>3. Following(h) = 0 /\ Answers(h) = 1
    BY <2>2 DEF Following, Answers, Written
  <2>4. w \in Recv /\ Wanted(h, 1) = w
    <3>1. w \in Recv
      BY DEF Receive, Recv, Fetched
    <3>2. Wanted(h, 1) = w
      BY <2>2, <2>3 DEF Wanted, Receive
    <3>3. QED
      BY <3>1, <3>2
  <2>5. nb_send(c, m, <<h>>) /\ nb_recv(c, m, v)
    BY <1>8, <2>1 DEF comex_rmw, m, h
  <2>6. /\ Goto(c, "rmw") /\ UNCHANGED <<fence_array, rep, serving>>
        /\ todo' = [todo EXCEPT ![c] = Message(op, t, 0)]
    BY <1>8 DEF comex_rmw
  <2>7. /\ pc'[c] = "rmw"
        /\ \A d \in Worker \ {c} : pc'[d] = pc[d] /\ todo'[d] = todo[d]
    BY <1>2, <2>6 DEF Goto
  <2>8. \A n \in Master : ~Fencing(c, n)'
    BY <2>7 DEF Fencing
  <2> HIDE DEF w
  <2>9. v \in Seq(Recv) /\ Len(v) = 1 /\ v[1] = w
    BY <2>4
  <2> HIDE DEF v
  <2>10. /\ \A k \in 1 .. Answers(h) : v[k] = Wanted(h, k)
         /\ Len(v) = Answers(h) /\ h.op # "DATA" /\ h.op # "FENCE" /\ h.op \notin Written
         /\ MasterOf[h.rank] = m /\ pc'[c] # "barrier" /\ fence_array' = fence_array
    BY <2>2, <2>3, <2>4, <2>6, <2>7, <2>9 DEF Written, m
  <2>11. QED
    BY <1>1, <2>2, <2>3, <2>5, <2>6, <2>7, <2>8, <2>9, <2>10, RequestKeeps
<1>9. QED
  BY <1>4, <1>5, <1>6, <1>7, <1>8 DEF Call

(* What a shortcut does in shared memory, and the end of a call.           *)
LEMMA LocalKeeps ==
  ASSUME IInv, Typed', NEW c \in Worker, NEW point \in Point, Goto(c, point),
         point \notin {"fence_master", "fence_all", "barrier_fence", "barrier"},
         \A d \in Worker \ {c} : todo'[d] = todo[d],
         UNCHANGED <<fence_array, req, rep, posted, serving>>
  PROVE  IInv'
<1>1. pc'[c] = point /\ \A d \in Worker \ {c} : pc'[d] = pc[d]
  BY DEF IInv, Typed, Goto
<1>2. ASSUME NEW m \in Master
      PROVE  Channel(c, m)'
  <2>1. Channel(c, m) /\ ~Fencing(c, m)'
    BY <1>1 DEF IInv, Fencing
  <2>2. QED
    BY <2>1, SameKeeps
<1>3. QED
  BY <1>1, <1>2, WorkerFrame

(* A fence of one master returns, or one of all flagged masters: the flags *)
(* in S go down.                                                           *)
LEMMA FenceDoneKeeps ==
  ASSUME IInv, Typed', NEW c \in Worker, NEW S \in SUBSET Master,
         \A m \in S : Fencing(c, m) /\ posted[c][m] = << >>,
         fence_array' = [fence_array EXCEPT ![c] = @ \ S],
         NEW point \in Point, Goto(c, point),
         point \notin {"fence_master", "fence_all", "barrier_fence"},
         point = "barrier" => fence_array[c] \subseteq S,
         UNCHANGED <<todo, req, rep, posted, serving>>
  PROVE  IInv'
<1>1. /\ pc'[c] = point /\ \A d \in Worker \ {c} : pc'[d] = pc[d]
      /\ fence_array'[c] = fence_array[c] \ S
      /\ \A d \in Worker \ {c} : fence_array'[d] = fence_array[d]
  BY DEF IInv, Typed, Goto
<1>2. ASSUME NEW m \in Master
      PROVE  Channel(c, m)'
  <2>1. Channel(c, m) /\ ~Fencing(c, m)'
    BY <1>1 DEF IInv, Fencing
  <2>2. CASE m \notin S
    BY <1>1, <2>1, <2>2, SameKeeps
  <2>3. CASE m \in S
    <3>1. /\ req[c][m] \in Seq(ReqMsg) /\ rep[c][m] \in Seq(RepMsg) /\ posted[c][m] \in Seq(Recv)
      BY DEF IInv, Typed
    <3>2. Matched(rep[c][m], req[c][m], posted[c][m]) /\ Covered(req[c][m], serving[m], c)
      BY <2>1, <2>3 DEF Channel
    <3>3. Clear(req[c][m], serving[m], c)
      BY <2>3, <3>1, <3>2, CoveredClear
    <3>4. QED
      BY <2>1, <3>3 DEF Channel
  <2>4. QED
    BY <2>2, <2>3
<1>3. QED
  BY <1>1, <1>2, WorkerFrame

(* A worker continues the call it is in.                                   *)
LEMMA ContinueKeeps ==
  ASSUME IInv, Typed', NEW c \in Worker, Continue(c)
  PROVE  IInv'
<1>1. Typed
  BY DEF IInv
<1>2. CASE FenceMasterDone(c)
  <2> DEFINE S == {MasterOf[todo[c].rank]}
  <2>1. MasterOf[todo[c].rank] \in Master
    <3>1. todo[c] \in Todo
      BY <1>1, <1>2 DEF FenceMasterDone, Typed, InShortcut
    <3>2. QED
      BY <3>1, ConstantsTyped DEF Todo
  <2>2. \A m \in S : Fencing(c, m) /\ posted[c][m] = << >>
    BY <1>2 DEF FenceMasterDone, Fencing
  <2>3. /\ fence_array' = [fence_array EXCEPT ![c] = @ \ S] /\ Goto(c, "direct")
        /\ UNCHANGED <<todo, req, rep, posted, serving>>
    BY <1>2 DEF FenceMasterDone
  <2>4. S \in SUBSET Master /\ "direct" \in Point
    BY <2>1 DEF Point
  <2> HIDE DEF S
  <2>5. QED
    BY <2>2, <2>3, <2>4, FenceDoneKeeps
<1>3. CASE FenceAllDone(c)
  <2> DEFINE S == fence_array[c]
  <2>1. S \in SUBSET Master
    BY <1>1 DEF Typed
  <2>2. \A m \in S : Fencing(c, m) /\ posted[c][m] = << >>
    BY <1>3 DEF FenceAllDone, Fencing
  <2>3. PICK point \in {"ready", "barrier"} : Goto(c, point)
    BY <1>3 DEF FenceAllDone
  <2>4. fence_array' = [fence_array EXCEPT ![c] = @ \ S]
    <3>1. fence_array' = [fence_array EXCEPT ![c] = {}] /\ fence_array[c] \ S = {}
      BY <1>3 DEF FenceAllDone
    <3>2. QED
      BY <3>1
  <2>5. UNCHANGED <<todo, req, rep, posted, serving>> /\ point \in Point
    BY <1>3, <2>3 DEF FenceAllDone, Point
  <2>6. point = "barrier" => fence_array[c] \subseteq S
    OBVIOUS
  <2> HIDE DEF S
  <2>7. QED
    BY <2>1, <2>2, <2>3, <2>4, <2>5, <2>6, FenceDoneKeeps
<1>4. CASE DirectAccRead(c)
  BY <1>4, LocalKeeps DEF DirectAccRead, Point
<1>5. CASE DirectPut(c) \/ DirectGet(c) \/ DirectAccWrite(c) \/ RmwDone(c)
  <2>1. DirectDone(c) /\ UNCHANGED <<fence_array, req, rep, posted, serving>>
    BY <1>5 DEF DirectPut, DirectGet, DirectAccWrite, RmwDone
  <2>2. Goto(c, "ready") /\ \A d \in Worker \ {c} : todo'[d] = todo[d]
    BY <1>1, <2>1 DEF DirectDone, Typed
  <2>3. "ready" \in Point
    BY DEF Point
  <2>4. QED
    BY <2>1, <2>2, <2>3, LocalKeeps
<1>6. QED
  BY <1>2, <1>3, <1>4, <1>5 DEF Continue

(* A worker fences all flagged masters.                                    *)
LEMMA FenceKeeps ==
  ASSUME IInv, Typed', NEW c \in Worker, pc[c] = "ready",
         NEW x \in {"fence_all", "barrier_fence"}, NEW y \in {"ready", "barrier"},
         FenceAll(c, x, y), UNCHANGED <<todo, fence_array, rep, serving>>
  PROVE  IInv'
<1> DEFINE h == Message("FENCE", c, 0)
           w == Receive("FENCE", c, TRUE)
<1>1. /\ pc \in [Worker -> Point] /\ req \in [Worker -> [Master -> Seq(ReqMsg)]]
      /\ posted \in [Worker -> [Master -> Seq(Recv)]]
  BY DEF IInv, Typed
<1>2. /\ pc'[c] = IF fence_array[c] = {} THEN y ELSE x
      /\ \A d \in Worker \ {c} : pc'[d] = pc[d]
  BY <1>1 DEF FenceAll, Goto
<1>3. \A d \in Worker \ {c} : req'[d] = req[d] /\ posted'[d] = posted[d]
  BY <1>1 DEF FenceAll
<1>4. /\ h \in ReqMsg /\ h.op = "FENCE" /\ h.rank = c /\ Following(h) = 0 /\ Answers(h) = 1
      /\ w \in Recv /\ Wanted(h, 1) = w
  <2>1. h \in ReqMsg /\ h.op = "FENCE" /\ h.rank = c
    BY DEF Message, ReqMsg
  <2>2. Following(h) = 0 /\ Answers(h) = 1
    BY <2>1 DEF Following, Answers, Written
  <2>3. w \in Recv
    BY DEF Receive, Recv
  <2>4. Wanted(h, 1) = w
    BY <2>1, <2>2 DEF Wanted, Receive
  <2>5. QED
    BY <2>1, <2>2, <2>3, <2>4
<1>5. ASSUME NEW m \in Master
      PROVE  Channel(c, m)'
  <2>1. Channel(c, m) /\ req[c][m] \in Seq(ReqMsg) /\ posted[c][m] \in Seq(Recv)
        /\ rep[c][m] \in Seq(RepMsg)
    BY DEF IInv, Typed
  <2>2. CASE m \notin fence_array[c]
    <3>1. req'[c][m] = req[c][m] /\ posted'[c][m] = posted[c][m]
      BY <1>1, <2>2 DEF FenceAll
    <3>2. ~Fencing(c, m)'
      BY <1>2, <2>2 DEF Fencing
    <3>3. QED
      BY <2>1, <2>2, <3>1, <3>2, SameKeeps
  <2>3. CASE m \in fence_array[c]
    <3>1. req'[c][m] = Append(req[c][m], h) /\ posted'[c][m] = Append(posted[c][m], w)
      BY <1>1, <2>3 DEF FenceAll
    <3> HIDE DEF h, w
    <3> DEFINE t == <<h>>
               v == <<w>>
               r == posted[c][m] \o v
    <3>2. /\ req'[c][m] = req[c][m] \o t /\ posted'[c][m] = r /\ r \in Seq(Recv)
          /\ t \in Seq(ReqMsg) /\ t # << >> /\ Len(t) = 1 /\ \A i \in 1 .. Len(t) : t[i] = h
          /\ v \in Seq(Recv) /\ Len(v) = 1 /\ v[1] = w
      <4>1. h \in ReqMsg /\ w \in Recv
        BY <1>4
      <4>2. /\ t \in Seq(ReqMsg) /\ t # << >> /\ Len(t) = 1 /\ \A i \in 1 .. Len(t) : t[i] = h
            /\ v \in Seq(Recv) /\ Len(v) = 1 /\ v[1] = w
        BY <4>1
      <4>3. \A q \in Seq(ReqMsg) : Append(q, h) = q \o t
        BY <4>1
      <4>4. \A q \in Seq(Recv) : Append(q, w) = q \o v
        BY <4>1
      <4>5. r \in Seq(Recv)
        BY <2>1, <4>2, ConcatElements
      <4>6. QED
        BY <2>1, <3>1, <4>2, <4>3, <4>4, <4>5
    <3>3. Framed(t, Idle, c)
      BY <1>4, FramedOne
    <3> HIDE DEF v
    <3>4. Matched(rep[c][m], req[c][m] \o t, r)
      <4>1. Matched(rep[c][m], req[c][m], posted[c][m])
        BY <2>1 DEF Channel
      <4>2. Len(v) = Answers(h) /\ \A k \in 1 .. Answers(h) : v[k] = Wanted(h, k)
        BY <1>4, <3>2
      <4>3. QED
        BY <1>4, <2>1, <3>2, <4>1, <4>2, MatchedSend
    <3> HIDE DEF t, r
    <3>5. /\ t[Len(t)].op = "FENCE"
          /\ \A i \in 1 .. Len(t) : /\ t[i].op = "FENCE" => t[i].rank = c
                                    /\ t[i].op # "FENCE" => MasterOf[t[i].rank] = m
      BY <1>4, <3>2
    <3>6. rep'[c][m] = rep[c][m] /\ serving'[m] = serving[m] /\ m \in fence_array'[c] /\ Typed
      BY <2>3 DEF IInv
    <3>7. QED
      BY <2>1, <3>2, <3>3, <3>4, <3>5, <3>6, SendKeeps
  <2>4. QED
    BY <2>2, <2>3
<1>6. QED
  BY <1>2, <1>3, <1>5, WorkerFrame

(* A receive completes.                                                    *)
LEMMA RecvKeeps ==
  ASSUME IInv, Typed', NEW c \in Worker, NEW m \in Master, RecvReply(c, m)
  PROVE  IInv'
<1>1. /\ req[c][m] \in Seq(ReqMsg) /\ rep[c][m] \in Seq(RepMsg) /\ posted[c][m] \in Seq(Recv)
      /\ rep \in [Worker -> [Master -> Seq(RepMsg)]]
      /\ posted \in [Worker -> [Master -> Seq(Recv)]]
  BY SMTT(30) DEF IInv, Typed
<1>2. /\ rep[c][m] # << >> /\ posted[c][m] # << >>
      /\ rep' = [rep EXCEPT ![c][m] = Tail(@)] /\ posted' = [posted EXCEPT ![c][m] = Tail(@)]
      /\ UNCHANGED <<pc, todo, fence_array, req, serving>>
  BY DEF RecvReply
<1>3. /\ rep'[c][m] = Tail(rep[c][m]) /\ posted'[c][m] = Tail(posted[c][m])
      /\ \A n \in Master \ {m} : rep'[c][n] = rep[c][n] /\ posted'[c][n] = posted[c][n]
      /\ \A d \in Worker \ {c} : rep'[d] = rep[d] /\ posted'[d] = posted[d]
  BY <1>1, <1>2
<1>4. ASSUME NEW n \in Master
      PROVE  Channel(c, n)'
  <2>1. Channel(c, n) /\ (Fencing(c, n)' <=> Fencing(c, n))
    BY <1>2, StayFences DEF IInv
  <2>2. CASE n # m
    BY <1>2, <1>3, <2>1, <2>2, SameKeeps
  <2>3. CASE n = m
    <3>1. Matched(Tail(rep[c][m]), req[c][m], Tail(posted[c][m]))
      BY <1>1, <1>2, <2>1, <2>3, MatchedRecv DEF Channel
    <3>2. QED
      BY <1>2, <1>3, <2>1, <2>3, <3>1 DEF Channel
  <2>4. QED
    BY <2>2, <2>3
<1>5. QED
  BY <1>2, <1>3, <1>4, WorkerFrame DEF IInv

(* The next message of the worker that is served is a chunk of its         *)
(* payload, and that of another worker is not.                             *)
LEMMA ChunkNext ==
  ASSUME NEW q \in Seq(ReqMsg), q # << >>, NEW c \in Worker, NEW s \in Busy \cup {Idle},
         Framed(q, s, c)
  PROVE  /\ q[1].op = "DATA" <=> s.src = c /\ s.left > 0
         /\ s.src = c /\ s.left > 0 => q[1].rank = s.msg.rank /\ q[1].val = s.msg.val
<1>1. 1 \in 1 .. Len(q)
  BY TailElements
<1>2. Owed(s, c) \in Nat /\ (Owed(s, c) > 0 <=> s.src = c /\ s.left > 0)
  BY ConstantsTyped DEF Owed, Busy, Idle
<1>3. ASSUME q[1].op = "DATA"
      PROVE  Owed(s, c) > 0
  <2>1. 1 <= Owed(s, c) \/ \E j \in 1 .. (1 - 1) : 1 - j <= Following(q[j])
    BY <1>1, <1>3 DEF Framed
  <2>2. QED
    BY <1>2, <2>1
<1>4. ASSUME Owed(s, c) > 0
      PROVE  q[1].op = "DATA" /\ q[1].rank = s.msg.rank /\ q[1].val = s.msg.val
  BY <1>2, <1>4 DEF Framed
<1>5. QED
  BY <1>2, <1>3, <1>4

(* What a progress rank does for a worker concerns its channel to it only. *)
LEMMA ServerFrame ==
  ASSUME IInv, Typed', NEW c \in Worker, NEW m \in Master,
         UNCHANGED <<pc, todo, fence_array, posted>>,
         \A n \in Master \ {m} : serving'[n] = serving[n],
         \A d \in Worker \ {c} : Owed(serving[m], d) = 0 /\ serving'[m].src # d,
         \A d \in Worker, n \in Master : d # c \/ n # m =>
            req'[d][n] = req[d][n] /\ rep'[d][n] = rep[d][n],
         Channel(c, m)'
  PROVE  IInv'
<1>1. ASSUME NEW d \in Worker, NEW n \in Master
      PROVE  Channel(d, n)'
  <2>1. Channel(d, n) /\ (Fencing(d, n)' <=> Fencing(d, n))
    BY StayFences DEF IInv
  <2>2. CASE n # m
    BY <2>1, <2>2, SameKeeps
  <2>3. CASE n = m /\ d # c
    BY <2>1, <2>3, OtherKeeps
  <2>4. QED
    BY <2>2, <2>3
<1>2. QED
  BY <1>1 DEF IInv

(* The progress rank takes a message.                                      *)
LEMMA ServerKeeps ==
  ASSUME IInv, Typed', NEW c \in Worker, NEW m \in Master, progress_server(m, c)
  PROVE  IInv'
<1> DEFINE h == req[c][m][1]
           s == serving[m]
<1>1. req[c][m] # << >> /\ TakeFrom(m, c) /\ UNCHANGED <<pc, todo, fence_array, posted>>
  BY DEF progress_server, WriteBegin, server_recv, get_handler, rmw_handler, fence_handler, Pending
<1>2. /\ Typed /\ Head(req[c][m]) = h /\ h \in ReqMsg /\ req[c][m] \in Seq(ReqMsg)
      /\ Channel(c, m) /\ s \in Busy \cup {Idle}
      /\ req \in [Worker -> [Master -> Seq(ReqMsg)]] /\ rep \in [Worker -> [Master -> Seq(RepMsg)]]
      /\ rep[c][m] \in Seq(RepMsg) /\ serving \in [Master -> Busy \cup {Idle}]
  BY ZenonT(60), <1>1, HeadTyped DEF IInv, Typed
<1> HIDE DEF h, s
<1>3. /\ req'[c][m] = Tail(req[c][m])
      /\ \A d \in Worker, n \in Master : d # c \/ n # m => req'[d][n] = req[d][n]
  BY <1>1, <1>2 DEF TakeFrom
<1>4. ASSUME NEW a \in Seq(RepMsg), rep' = [rep EXCEPT ![c][m] = @ \o a], Replies(a, h),
             Taken(s, serving'[m], h, c), \A n \in Master \ {m} : serving'[n] = serving[n]
      PROVE  IInv'
  <2>1. /\ rep'[c][m] = rep[c][m] \o a
        /\ \A d \in Worker, n \in Master : d # c \/ n # m => rep'[d][n] = rep[d][n]
    BY <1>2, <1>4
  <2>2. Channel(c, m)'
    BY <1>1, <1>2, <1>3, <1>4, <2>1, TakeKeeps DEF h, s
  <2>3. \A d \in Worker \ {c} : Owed(s, d) = 0 /\ serving'[m].src # d
    BY <1>4 DEF Taken
  <2>4. QED
    BY <1>1, <1>3, <1>4, <2>1, <2>2, <2>3, ServerFrame DEF s
<1>5. ASSUME UNCHANGED rep, Answers(h) = 0
      PROVE  /\ << >> \in Seq(RepMsg) /\ rep' = [rep EXCEPT ![c][m] = @ \o << >>]
             /\ Replies(<< >>, h)
  <2>1. rep[c][m] \o << >> = rep[c][m]
    BY <1>2
  <2>2. rep = [rep EXCEPT ![c][m] = rep[c][m]]
    BY <1>2
  <2>3. Replies(<< >>, h)
    BY <1>5 DEF Replies
  <2>4. QED
    BY <1>5, <2>1, <2>2, <2>3
<1>6. CASE WriteBegin(m, c)
  <2>1. h.op \in Written /\ s = Idle /\ UNCHANGED rep
    BY <1>2, <1>6 DEF WriteBegin, Pending, s
  <2>2. serving' = [serving EXCEPT ![m] = [src |-> c, msg |-> h, left |-> Following(h)]]
    BY <1>2, <1>6, <2>1 DEF WriteBegin, Begin, Following
  <2>3. /\ serving'[m].src = c /\ serving'[m].left = Following(h) /\ serving'[m].msg = h
        /\ \A n \in Master \ {m} : serving'[n] = serving[n]
    BY <1>2, <2>2
  <2>4. /\ Owed(s, c) = 0 /\ Owed(serving'[m], c) = Following(h)
        /\ \A d \in Worker \ {c} : Owed(s, d) = 0 /\ serving'[m].src # d
    BY <2>1, <2>3, ConstantsTyped DEF Owed, Idle
  <2>5. Answers(h) = 0
    BY <2>1 DEF Answers, Written
  <2>6. Taken(s, serving'[m], h, c)
    BY <2>1, <2>3, <2>4 DEF Taken
  <2>7. QED
    BY <1>4, <1>5, <2>1, <2>3, <2>5, <2>6
<1>7. CASE server_recv(m, c)
  <2>1. s.src = c /\ s.left > 0 /\ UNCHANGED rep /\ s \in Busy
    BY <1>2, <1>7, ConstantsTyped DEF server_recv, Idle, s
  <2>2. h.op = "DATA" /\ h.rank = s.msg.rank /\ h.val = s.msg.val
    BY <1>1, <1>2, <2>1, ChunkNext DEF Channel, h, s
  <2>3. /\ serving'[m].src = c /\ serving'[m].left = s.left - 1
        /\ serving'[m].msg.rank = s.msg.rank /\ serving'[m].msg.val = s.msg.val
        /\ \A n \in Master \ {m} : serving'[n] = serving[n]
    BY <1>2, <1>7, <2>2 DEF server_recv, Message, s
  <2>4. /\ Owed(s, c) > 0 /\ Owed(serving'[m], c) = Owed(s, c) - 1
        /\ \A d \in Worker \ {c} : Owed(s, d) = 0 /\ serving'[m].src # d
    BY <2>1, <2>3 DEF Owed
  <2>5. Answers(h) = 0
    BY <2>2 DEF Answers
  <2>6. Taken(s, serving'[m], h, c)
    BY <2>1, <2>2, <2>3, <2>4 DEF Taken
  <2>7. QED
    BY <1>4, <1>5, <2>1, <2>3, <2>5, <2>6
<1>8. ASSUME s = Idle, UNCHANGED serving, h.op \in Fetched \cup {"FENCE"}
      PROVE  Taken(s, serving'[m], h, c) /\ \A n \in Master \ {m} : serving'[n] = serving[n]
  BY <1>8, ConstantsTyped DEF Owed, Idle, Following, Fetched, Written, Taken, s
<1>9. CASE get_handler(m, c)
  <2> DEFINE n == Chunks(Length[h.rank])
             d == Message("DATA", h.rank, mem[h.rank])
             a == [i \in 1 .. n |-> d]
  <2>1. h.op = "GET" /\ s = Idle /\ UNCHANGED serving /\ rep' = [rep EXCEPT ![c][m] = @ \o a]
    BY ZenonT(60), <1>2, <1>9 DEF get_handler, Pending, server_send, s
  <2>2. n \in Nat /\ d \in RepMsg /\ d.op = "DATA" /\ d.rank = h.rank /\ Answers(h) = n
    BY <1>2, <2>1, ChunksTyped DEF ReqMsg, RepMsg, Message, Typed, Answers
  <2> HIDE DEF n, d
  <2>3. a \in Seq(RepMsg) /\ Len(a) = n /\ \A k \in 1 .. Len(a) : a[k] = d
    BY <2>2
  <2> HIDE DEF a
  <2>4. h.op \in Fetched /\ Replies(a, h)
    BY <2>1, <2>2, <2>3 DEF Fetched, Replies
  <2>5. QED
    BY ZenonT(60), <1>4, <1>8, <2>1, <2>3, <2>4
<1>10. ASSUME NEW d \in RepMsg, rep' = [rep EXCEPT ![c][m] = @ \o <<d>>],
              h.op \in {"FETCH_AND_ADD", "SWAP", "FENCE"},
              d.op = IF h.op = "FENCE" THEN "ACK" ELSE "DATA", d.rank = h.rank,
              s = Idle, UNCHANGED serving
       PROVE  IInv'
  <2> DEFINE a == <<d>>
  <2>1. a \in Seq(RepMsg) /\ Len(a) = 1 /\ \A k \in 1 .. Len(a) : a[k] = d
    OBVIOUS
  <2>2. h.op \in Fetched \cup {"FENCE"} /\ Replies(a, h)
    BY <1>10, <2>1 DEF Fetched, Answers, Replies
  <2>3. rep' = [rep EXCEPT ![c][m] = @ \o a]
    BY <1>10
  <2> HIDE DEF a
  <2>4. QED
    BY <1>4, <1>8, <1>10, <2>1, <2>2, <2>3
<1>11. CASE rmw_handler(m, c)
  <2> DEFINE d == Message("DATA", h.rank, mem[h.rank])
  <2>1. /\ h.op \in {"FETCH_AND_ADD", "SWAP"} /\ s = Idle /\ UNCHANGED serving
        /\ rep' = [rep EXCEPT ![c][m] = @ \o <<d>>]
    BY <1>2, <1>11 DEF rmw_handler, Pending, server_send, s
  <2>2. d \in RepMsg /\ d.op = "DATA" /\ d.rank = h.rank
    BY <1>2 DEF ReqMsg, RepMsg, Message, Typed
  <2> HIDE DEF d
  <2>3. QED
    BY <1>10, <2>1, <2>2
<1>12. CASE fence_handler(m, c)
  <2> DEFINE d == Message("ACK", c, 0)
  <2>1. /\ h.op = "FENCE" /\ s = Idle /\ UNCHANGED serving
        /\ rep' = [rep EXCEPT ![c][m] = @ \o <<d>>]
    BY <1>2, <1>12 DEF fence_handler, Pending, server_send, s
  <2>2. h.rank = c
    <3>1. 1 \in 1 .. Len(req[c][m])
      BY <1>1, <1>2, HeadTyped
    <3>2. QED
      BY <1>2, <2>1, <3>1 DEF Channel, h
  <2>3. d \in RepMsg /\ d.op = "ACK" /\ d.rank = h.rank
    BY <2>2 DEF RepMsg, Message
  <2> HIDE DEF d
  <2>4. QED
    BY <1>10, <2>1, <2>3
<1>13. QED
  BY SMTT(30), <1>6, <1>7, <1>9, <1>11, <1>12 DEF progress_server

(* The progress rank goes on with a put or an accumulate.                  *)
LEMMA HandleKeeps ==
  ASSUME IInv, Typed', NEW m \in Master, Handle(m)
  PROVE  IInv'
<1>1. UNCHANGED <<pc, todo, fence_array, posted, req, rep>>
  BY DEF Handle, PutEnd, HandlerAccRead, HandlerAccWrite
<1>2. CASE HandlerAccRead(m)
  <2>1. UNCHANGED serving
    BY <1>2 DEF HandlerAccRead
  <2>2. \A d \in Worker, n \in Master : Channel(d, n) /\ (Fencing(d, n)' <=> Fencing(d, n))
    BY <1>1, StayFences DEF IInv
  <2>3. QED
    BY <1>1, <2>1, <2>2, SameKeeps DEF IInv
<1>3. CASE PutEnd(m) \/ HandlerAccWrite(m)
  <2>1. serving[m].left = 0 /\ serving' = [serving EXCEPT ![m] = Idle]
        /\ serving \in [Master -> Busy \cup {Idle}]
    BY <1>3 DEF PutEnd, HandlerAccWrite, HasPayload, IInv, Typed
  <2>2. serving'[m] = Idle /\ \A n \in Master \ {m} : serving'[n] = serving[n]
    BY <2>1
  <2>3. \A d \in Worker : Owed(serving[m], d) = 0 /\ serving'[m].src # d
    BY <2>1, <2>2, ConstantsTyped DEF Owed, Idle
  <2>4. ASSUME NEW d \in Worker, NEW n \in Master
        PROVE  Channel(d, n)'
    <3>1. Channel(d, n) /\ (Fencing(d, n)' <=> Fencing(d, n))
      BY <1>1, StayFences DEF IInv
    <3>2. CASE n # m
      BY <1>1, <2>2, <3>1, <3>2, SameKeeps
    <3>3. CASE n = m
      BY <1>1, <2>3, <3>1, <3>3, OtherKeeps
    <3>4. QED
      BY <3>2, <3>3
  <2>5. QED
    BY <1>1, <2>4 DEF IInv
<1>4. QED
  BY <1>2, <1>3 DEF Handle

(* Every step keeps IInv.                                                  *)
LEMMA InvariantStep == IInv /\ [Next]_vars => IInv'
<1> SUFFICES ASSUME IInv, [Next]_vars PROVE IInv'
  OBVIOUS
<1>1. Typed'
  BY TypedStep DEF IInv
<1>2. CASE UNCHANGED vars
  <2>1. \A c \in Worker, m \in Master : Channel(c, m) /\ (Fencing(c, m)' <=> Fencing(c, m))
    BY <1>2, StayFences DEF vars, IInv
  <2>2. \A c \in Worker, m \in Master : Channel(c, m)'
    BY <1>2, <2>1, SameKeeps DEF vars
  <2>3. QED
    BY <1>1, <1>2, <2>2 DEF vars, IInv
<1>3. CASE MPI_Barrier
  <2>1. \A c \in Worker, m \in Master : Channel(c, m) /\ ~Fencing(c, m)'
    BY <1>3 DEF MPI_Barrier, IInv, Fencing
  <2>2. UNCHANGED <<req, rep, posted, serving, fence_array>>
    BY <1>3 DEF MPI_Barrier
  <2>3. \A c \in Worker, m \in Master : Channel(c, m)'
    BY <2>1, <2>2, SameKeeps
  <2>4. \A c \in Worker : pc'[c] # "barrier"
    BY <1>3 DEF MPI_Barrier
  <2>5. QED
    BY <1>1, <2>3, <2>4 DEF IInv
<1>4. ASSUME NEW c \in Worker, comex_fence_all(c) \/ comex_barrier(c)
      PROVE  IInv'
  BY <1>1, <1>4, FenceKeeps DEF comex_fence_all, comex_barrier
<1>5. QED
  BY <1>1, <1>2, <1>3, <1>4, CallKeeps, ContinueKeeps, RecvKeeps, ServerKeeps, HandleKeeps DEF Next

(* The initial states satisfy it.                                          *)
LEMMA InvariantInit == Init => IInv
<1> SUFFICES ASSUME Init PROVE IInv
  OBVIOUS
<1>1. Typed
  BY TypedInit
<1>2. ASSUME NEW c \in Worker, NEW m \in Master
      PROVE  Channel(c, m)
  <2>1. /\ req[c][m] = << >> /\ rep[c][m] = << >> /\ posted[c][m] = << >>
        /\ serving[m] = Idle /\ pc[c] = "ready"
    BY DEF Init
  <2>2. Idle.src # c /\ Owed(Idle, c) = 0
    BY ConstantsTyped DEF Idle, Owed
  <2>3. Framed(<< >>, Idle, c) /\ Clear(<< >>, Idle, c) /\ ~Fencing(c, m)
    BY <2>1, <2>2 DEF Framed, Clear, Fencing
  <2>4. Matched(<< >>, << >>, << >>)
    <3> DEFINE off == [i \in 1 .. 1 |-> 0]
    <3>1. Offsets(off, Len(<< >>), << >>, << >>)
      BY DEF Offsets
    <3>2. off \in [1 .. (Len(<< >>) + 1) -> 0 .. Len(<< >>)]
      OBVIOUS
    <3> HIDE DEF off
    <3>3. QED
      BY <3>1, <3>2 DEF Matched
  <2>5. QED
    BY <2>1, <2>3, <2>4 DEF Channel
<1>3. \A c \in Worker : pc[c] # "barrier"
  BY DEF Init
<1>4. QED
  BY <1>1, <1>2, <1>3 DEF IInv

(* IInv holds in every state the runtime reaches.                          *)
THEOREM Invariance == Spec => []IInv
BY InvariantInit, InvariantStep, PTL DEF Spec

(* A fence that skips a master, because its flag is down, or that has      *)
(* returned from it, leaves no put or accumulate of that worker behind:    *)
(* not in the master's queue and not in its hands.  The flag may be        *)
(* lowered because the receive of a fence completes only when its request, *)
(* sent after all writes, has been taken.                                  *)
THEOREM FenceSafety == Spec => []UnflaggedMeansDone
<1>1. IInv => UnflaggedMeansDone
  <2> SUFFICES ASSUME IInv, NEW c \in Worker, NEW m \in Master, m \notin fence_array[c]
               PROVE  /\ serving[m].src # c
                      /\ \A i \in DOMAIN req[c][m] : req[c][m][i].op \notin Written \cup {"DATA"}
    BY DEF UnflaggedMeansDone
  <2>1. Clear(req[c][m], serving[m], c) /\ req[c][m] \in Seq(ReqMsg)
    BY DEF IInv, Channel, Typed
  <2>2. DOMAIN req[c][m] = 1 .. Len(req[c][m])
    BY <2>1
  <2>3. QED
    BY <2>1, <2>2 DEF Clear
<1>2. QED
  BY <1>1, Invariance, PTL

(* Neither side of a channel mistakes a message: _progress_server never    *)
(* takes a chunk for a header, server_recv never takes a header for the    *)
(* chunk it waits for, and though all replies carry one tag each completes *)
(* the receive that was posted for it.                                     *)
THEOREM ChannelSafety == Spec => []ChannelsInStep
<1>1. IInv => PayloadInStep
  <2> SUFFICES ASSUME IInv, NEW c \in Worker, NEW m \in Master, req[c][m] # << >>
               PROVE  LET h == Head(req[c][m])
                          expects == serving[m].src = c /\ serving[m].left > 0
                      IN (expects <=> h.op = "DATA") /\ (expects => h.rank = serving[m].msg.rank)
    BY DEF PayloadInStep
  <2>1. /\ req[c][m] \in Seq(ReqMsg) /\ Head(req[c][m]) = req[c][m][1]
        /\ serving[m] \in Busy \cup {Idle} /\ Framed(req[c][m], serving[m], c)
    BY HeadTyped DEF IInv, Channel, Typed
  <2>2. QED
    BY <2>1, ChunkNext
<1>2. IInv => RepliesMatchReceives
  <2> SUFFICES ASSUME IInv, NEW c \in Worker, NEW m \in Master
               PROVE  /\ Len(rep[c][m]) <= Len(posted[c][m])
                      /\ \A i \in DOMAIN rep[c][m] :
                           /\ rep[c][m][i].op = IF posted[c][m][i].op = "FENCE" THEN "ACK" ELSE "DATA"
                           /\ rep[c][m][i].rank = posted[c][m][i].rank
    BY DEF RepliesMatchReceives
  <2>1. /\ req[c][m] \in Seq(ReqMsg) /\ rep[c][m] \in Seq(RepMsg) /\ posted[c][m] \in Seq(Recv)
        /\ Matched(rep[c][m], req[c][m], posted[c][m])
    BY DEF IInv, Channel, Typed
  <2>2. DOMAIN rep[c][m] = 1 .. Len(rep[c][m])
    BY <2>1
  <2>3. QED
    BY <2>1, <2>2, MatchedLen DEF Matched
<1>3. QED
  BY <1>1, <1>2, Invariance, PTL DEF ChannelsInStep

-----------------------------------------------------------------------------
(* Flattening a sequence of sequences, one at a time.                      *)

(* A set of natural numbers has a smallest one.                            *)
LEMMA Smallest ==
  ASSUME NEW T \in SUBSET Nat, T # {}
  PROVE  \E n \in T : \A k \in T : n <= k
<1>1. \E n \in T : \A k \in T : ~ (<<k, n>> \in OpToRel(<, Nat))
  BY NatLessThanWellFounded, WFMin, Zenon
<1>2. PICK n \in T : \A k \in T : ~ (k < n)
  BY <1>1, Zenon DEF OpToRel
<1>3. QED
  BY <1>2

(* f[i] is the first i sequences of s, flattened.                          *)
Flattens(f, n, s) ==
  f = [i \in 1 .. n |-> IF i = 1 THEN s[i] ELSE f[i - 1] \o s[i]]

(* There is such a function ...                                            *)
LEMMA FlattensExists ==
  ASSUME NEW s, NEW n \in Nat \ {0}
  PROVE  \E f : Flattens(f, n, s)
<1> DEFINE T == {k \in Nat \ {0} : ~ \E f : Flattens(f, k, s)}
<1>1. SUFFICES ASSUME T # {} PROVE FALSE
  OBVIOUS
<1>2. T \in SUBSET Nat
  OBVIOUS
<1> HIDE DEF T
<1>3. PICK k \in T : \A j \in T : k <= j
  BY <1>1, <1>2, Smallest
<1>4. k \in Nat \ {0} /\ ~ \E f : Flattens(f, k, s)
  BY <1>3 DEF T
<1>5. CASE k = 1
  <2> DEFINE f == [i \in 1 .. 1 |-> s[1]]
  <2>1. f = [i \in 1 .. 1 |-> IF i = 1 THEN s[i] ELSE f[i - 1] \o s[i]]
    OBVIOUS
  <2>2. QED
    BY <2>1, <1>4, <1>5 DEF Flattens
<1>6. CASE k # 1
  <2>1. k - 1 \in Nat \ {0} /\ k - 1 \notin T
    BY <1>3, <1>4, <1>6
  <2>2. PICK f : Flattens(f, k - 1, s)
    BY <2>1 DEF T
  <2> DEFINE g == [i \in 1 .. k |-> IF i = k THEN f[k - 1] \o s[k] ELSE f[i]]
  <2>3. ASSUME NEW i \in 1 .. k
        PROVE  g[i] = IF i = 1 THEN s[i] ELSE g[i - 1] \o s[i]
    <3>1. CASE i = k
      <4>1. k - 1 \in 1 .. k /\ k - 1 # k /\ i # 1
        BY <3>1, <1>4, <1>6
      <4>2. g[i] = f[k - 1] \o s[k] /\ g[i - 1] = f[k - 1]
        BY <4>1, <3>1
      <4>3. QED
        BY <4>1, <4>2, <3>1
    <3>2. CASE i # k
      <4>1. i \in 1 .. (k - 1) /\ (i # 1 => i - 1 \in 1 .. k /\ i - 1 # k)
        BY <3>2, <1>4
      <4>2. f[i] = IF i = 1 THEN s[i] ELSE f[i - 1] \o s[i]
        BY <2>2, <4>1 DEF Flattens
      <4>3. g[i] = f[i] /\ (i # 1 => g[i - 1] = f[i - 1])
        BY <4>1, <3>2
      <4>4. QED
        BY <4>2, <4>3
    <3>3. QED
      BY <3>1, <3>2
  <2>4. g = [i \in 1 .. k |-> g[i]]
    OBVIOUS
  <2> HIDE DEF g
  <2>5. g = [i \in 1 .. k |-> IF i = 1 THEN s[i] ELSE g[i - 1] \o s[i]]
    BY <2>3, <2>4
  <2>6. QED
    BY <2>5, <1>4 DEF Flattens
<1>7. QED
  BY <1>5, <1>6

(* ... and only one, whose first part depends on the first part of s.      *)
LEMMA FlattensUnique ==
  ASSUME NEW s, NEW s2, NEW n \in Nat \ {0}, NEW n2 \in Nat, n <= n2,
         NEW f, NEW g, Flattens(f, n, s), Flattens(g, n2, s2), \A i \in 1 .. n : s2[i] = s[i]
  PROVE  \A i \in 1 .. n : f[i] = g[i]
<1> DEFINE T == {i \in 1 .. n : f[i] # g[i]}
<1>1. SUFFICES ASSUME T # {} PROVE FALSE
  OBVIOUS
<1>2. T \in SUBSET Nat
  OBVIOUS
<1> HIDE DEF T
<1>3. PICK k \in T : \A j \in T : k <= j
  BY <1>1, <1>2, Smallest
<1>4. k \in 1 .. n /\ k \in 1 .. n2 /\ f[k] # g[k]
  BY <1>3 DEF T
<1>5. /\ f[k] = IF k = 1 THEN s[k] ELSE f[k - 1] \o s[k]
      /\ g[k] = IF k = 1 THEN s[k] ELSE g[k - 1] \o s[k]
  BY <1>4 DEF Flattens
<1>6. CASE k # 1
  <2>1. k - 1 \in 1 .. n /\ k - 1 \notin T
    BY <1>3, <1>4, <1>6
  <2>2. f[k - 1] = g[k - 1]
    BY <2>1 DEF T
  <2>3. QED
    BY <1>4, <1>5, <2>2
<1>7. QED
  BY <1>4, <1>5, <1>6

(* What FlattenSeq returns, from any such function.                        *)
LEMMA FlattenIs ==
  ASSUME NEW s, Len(s) \in Nat \ {0}, NEW f, Flattens(f, Len(s), s)
  PROVE  FlattenSeq(s) = f[Len(s)]
<1> DEFINE g == CHOOSE h : h = [i \in 1 .. Len(s) |-> IF i = 1 THEN s[i] ELSE h[i - 1] \o s[i]]
<1>1. FlattenSeq(s) = g[Len(s)]
  BY DEF FlattenSeq
<1>2. \E h : h = [i \in 1 .. Len(s) |-> IF i = 1 THEN s[i] ELSE h[i - 1] \o s[i]]
  BY FlattensExists DEF Flattens
<1>3. g = [i \in 1 .. Len(s) |-> IF i = 1 THEN s[i] ELSE g[i - 1] \o s[i]]
  BY <1>2, Zenon
<1> HIDE DEF g
<1>4. Flattens(g, Len(s), s)
  BY <1>3 DEF Flattens
<1>5. \A i \in 1 .. Len(s) : f[i] = g[i]
  BY <1>4, FlattensUnique
<1>6. QED
  BY <1>1, <1>5

(* Nothing, and one sequence more.                                         *)
LEMMA FlattenStep ==
  ASSUME NEW S, NEW s \in Seq(Seq(S)), NEW x \in Seq(S)
  PROVE  FlattenSeq(Append(s, x)) = (IF s = << >> THEN x ELSE FlattenSeq(s) \o x)
<1> DEFINE n == Len(s)
           u == Append(s, x)
<1>1. n \in Nat /\ Len(u) = n + 1 /\ u[n + 1] = x /\ \A i \in 1 .. n : u[i] = s[i]
  OBVIOUS
<1>2. s = << >> <=> n = 0
  OBVIOUS
<1> HIDE DEF n, u
<1>3. PICK g : Flattens(g, n + 1, u)
  <2>1. n + 1 \in Nat \ {0}
    BY <1>1
  <2>2. QED
    BY <2>1, FlattensExists
<1>4. FlattenSeq(u) = g[n + 1]
  BY <1>1, <1>3, FlattenIs
<1>5. g[n + 1] = IF n + 1 = 1 THEN u[n + 1] ELSE g[(n + 1) - 1] \o u[n + 1]
  <2>1. n + 1 \in 1 .. (n + 1)
    BY <1>1
  <2>2. QED
    BY <2>1, <1>3 DEF Flattens
<1>6. CASE n # 0
  <2>1. PICK f : Flattens(f, n, s)
    BY <1>1, <1>6, FlattensExists
  <2>2. FlattenSeq(s) = f[n]
    BY <1>1, <1>6, <2>1, FlattenIs DEF n
  <2>3. \A i \in 1 .. n : f[i] = g[i]
    BY SMTT(30), <1>1, <1>3, <1>6, <2>1, FlattensUnique
  <2>4. n \in 1 .. n /\ (n + 1) - 1 = n
    BY <1>1, <1>6
  <2>5. QED
    BY <1>1, <1>2, <1>4, <1>5, <1>6, <2>2, <2>3, <2>4 DEF u
<1>7. QED
  BY <1>1, <1>2, <1>4, <1>5, <1>6 DEF u

(* No sequence, and one.                                                   *)
LEMMA FlattenOne ==
  /\ FlattenSeq(<< >>) = << >>
  /\ \A S : \A x \in Seq(S) : FlattenSeq(<<x>>) = x
<1>1. FlattenSeq(<< >>) = << >>
  BY DEF FlattenSeq
<1>2. ASSUME NEW S, NEW x \in Seq(S)
      PROVE  FlattenSeq(<<x>>) = x
  <2>1. << >> \in Seq(Seq(S)) /\ Append(<< >>, x) = <<x>>
    OBVIOUS
  <2>2. QED
    BY <2>1, FlattenStep
<1>3. QED
  BY <1>1, <1>2

(* A sequence that is not empty, without its last element.                 *)
LEMMA Butlast ==
  ASSUME NEW S, NEW s \in Seq(S), s # << >>
  PROVE  \E p \in Seq(S) : \E x \in S : s = Append(p, x) /\ Len(p) = Len(s) - 1
<1> DEFINE p == [i \in 1 .. (Len(s) - 1) |-> s[i]]
<1>1. p \in Seq(S) /\ Len(p) = Len(s) - 1 /\ s[Len(s)] \in S
  OBVIOUS
<1>2. s = Append(p, s[Len(s)])
  OBVIOUS
<1>3. QED
  BY <1>1, <1>2

(* The type of the result.                                                 *)
LEMMA FlattenTyped ==
  ASSUME NEW S, NEW s \in Seq(Seq(S))
  PROVE  FlattenSeq(s) \in Seq(S)
<1> DEFINE T == {n \in Nat : \E t \in Seq(Seq(S)) : Len(t) = n /\ FlattenSeq(t) \notin Seq(S)}
<1>1. SUFFICES ASSUME T # {} PROVE FALSE
  <2>1. Len(s) \in Nat
    OBVIOUS
  <2>2. QED
    BY <2>1
<1>2. T \in SUBSET Nat
  OBVIOUS
<1>3. PICK n \in T : \A k \in T : n <= k
  BY <1>1, <1>2, Smallest
<1>4. PICK t \in Seq(Seq(S)) : Len(t) = n /\ FlattenSeq(t) \notin Seq(S)
  BY <1>3
<1>5. t # << >>
  <2>1. << >> \in Seq(S)
    OBVIOUS
  <2>2. QED
    BY <1>4, <2>1, FlattenOne
<1>6. PICK p \in Seq(Seq(S)), x \in Seq(S) : t = Append(p, x) /\ Len(p) = Len(t) - 1
  BY <1>5, Butlast
<1>7. FlattenSeq(p) \in Seq(S)
  <2>1. Len(p) \in Nat /\ ~(n <= Len(p))
    BY <1>3, <1>4, <1>6
  <2>2. Len(p) \notin T
    BY <2>1, <1>3
  <2>3. QED
    BY <2>1, <2>2
<1>8. FlattenSeq(t) = (IF p = << >> THEN x ELSE FlattenSeq(p) \o x)
  BY <1>6, FlattenStep
<1>9. QED
  BY <1>4, <1>7, <1>8

(* One element more at the end of a concatenation.                         *)
LEMMA ConcatAppend ==
  ASSUME NEW S, NEW a \in Seq(S), NEW b \in Seq(S), NEW y \in S
  PROVE  a \o Append(b, y) = Append(a \o b, y)
OBVIOUS

(* Concatenation is associative.                                           *)
LEMMA ConcatThree ==
  \A S : \A a, b, c \in Seq(S) : (a \o b) \o c = a \o (b \o c)
BY ConcatAssociative

(* The result of a concatenation.                                          *)
LEMMA FlattenConcat ==
  ASSUME NEW S, NEW s \in Seq(Seq(S)), NEW t \in Seq(Seq(S))
  PROVE  FlattenSeq(s \o t) = FlattenSeq(s) \o FlattenSeq(t)
<1> DEFINE Q == Seq(Seq(S))
           T == {n \in Nat : \E v \in Q : Len(v) = n /\ FlattenSeq(s \o v) # FlattenSeq(s) \o FlattenSeq(v)}
<1>1. SUFFICES ASSUME T # {} PROVE FALSE
  <2>1. Len(t) \in Nat
    OBVIOUS
  <2>2. QED
    BY <2>1
<1>2. T \in SUBSET Nat
  OBVIOUS
<1> HIDE DEF T
<1>3. PICK n \in T : \A k \in T : n <= k
  BY <1>1, <1>2, Smallest
<1>4. PICK v \in Q : Len(v) = n /\ FlattenSeq(s \o v) # FlattenSeq(s) \o FlattenSeq(v)
  BY <1>3 DEF T
<1>5. FlattenSeq(s) \in Seq(S) /\ FlattenSeq(v) \in Seq(S)
  BY FlattenTyped
<1>6. v # << >>
  <2>1. s \o << >> = s /\ FlattenSeq(s) \o << >> = FlattenSeq(s)
    BY <1>5
  <2>2. QED
    BY <1>4, <2>1, FlattenOne
<1>7. PICK p \in Q, x \in Seq(S) : v = Append(p, x) /\ Len(p) = Len(v) - 1
  BY <1>6, Butlast
<1>8. FlattenSeq(s \o p) = FlattenSeq(s) \o FlattenSeq(p)
  <2>1. Len(p) \in Nat /\ ~(n <= Len(p))
    BY <1>3, <1>4, <1>7
  <2>2. Len(p) \notin T
    BY <2>1, <1>3
  <2>3. QED
    BY <2>1, <2>2 DEF T
<1>9. s \o v = Append(s \o p, x) /\ s \o p \in Seq(Seq(S)) /\ FlattenSeq(p) \in Seq(S)
  <2>1. FlattenSeq(p) \in Seq(S)
    BY FlattenTyped
  <2>2. s \o Append(p, x) = Append(s \o p, x) /\ s \o p \in Seq(Seq(S))
    BY SMTT(30), ConcatAppend
  <2>3. QED
    BY <1>7, <2>1, <2>2, Zenon
<1>10. /\ FlattenSeq(s \o v) = (IF s \o p = << >> THEN x ELSE FlattenSeq(s \o p) \o x)
       /\ FlattenSeq(v) = (IF p = << >> THEN x ELSE FlattenSeq(p) \o x)
  BY <1>7, <1>9, FlattenStep
<1>11. CASE s \o p = << >>
  <2>1. s = << >> /\ p = << >>
    BY <1>11, <1>7
  <2>2. << >> \o x = x
    BY <1>7
  <2>3. QED
    BY <1>4, <1>10, <1>11, <2>1, <2>2, FlattenOne
<1>12. CASE s \o p # << >>
  <2>1. FlattenSeq(v) = FlattenSeq(p) \o x
    <3>1. << >> \o x = x
      BY <1>7
    <3>2. QED
      BY <1>10, <3>1, FlattenOne
  <2>2. (FlattenSeq(s) \o FlattenSeq(p)) \o x = FlattenSeq(s) \o (FlattenSeq(p) \o x)
    <3>1. \A a, b, c \in Seq(S) : (a \o b) \o c = a \o (b \o c)
      BY SMTT(60), ConcatThree
    <3>2. QED
      BY <1>5, <1>9, <3>1
  <2>3. QED
    BY <1>4, <1>8, <1>10, <1>12, <2>1, <2>2
<1>13. QED
  BY <1>11, <1>12

(* Empty sequences leave nothing.                                          *)
LEMMA FlattenEmpty ==
  ASSUME NEW S, NEW s \in Seq(Seq(S)), \A i \in 1 .. Len(s) : s[i] = << >>
  PROVE  FlattenSeq(s) = << >>
<1> DEFINE E(t) == \A i \in 1 .. Len(t) : t[i] = << >>
           T == {n \in Nat : \E t \in Seq(Seq(S)) : Len(t) = n /\ E(t) /\ FlattenSeq(t) # << >>}
<1>1. SUFFICES ASSUME T # {} PROVE FALSE
  <2>1. Len(s) \in Nat
    OBVIOUS
  <2>2. QED
    BY <2>1
<1>2. T \in SUBSET Nat
  OBVIOUS
<1>3. PICK n \in T : \A k \in T : n <= k
  BY <1>1, <1>2, Smallest
<1>4. PICK t \in Seq(Seq(S)) : Len(t) = n /\ E(t) /\ FlattenSeq(t) # << >>
  BY <1>3
<1>5. t # << >>
  BY <1>4, FlattenOne
<1>6. PICK p \in Seq(Seq(S)), x \in Seq(S) : t = Append(p, x) /\ Len(p) = Len(t) - 1
  BY <1>5, Butlast
<1>7. x = << >> /\ E(p)
  <2>1. /\ Len(t) \in 1 .. Len(t) /\ t[Len(t)] = x
        /\ \A i \in 1 .. Len(p) : i \in 1 .. Len(t) /\ t[i] = p[i]
    BY <1>6
  <2>2. QED
    BY <1>4, <2>1
<1>8. FlattenSeq(p) = << >>
  <2>1. Len(p) \in Nat /\ ~(n <= Len(p))
    BY <1>3, <1>4, <1>6
  <2>2. Len(p) \notin T
    BY <2>1, <1>3
  <2>3. QED
    BY <1>7, <2>1, <2>2
<1>9. FlattenSeq(t) = (IF p = << >> THEN x ELSE FlattenSeq(p) \o x)
  BY <1>6, FlattenStep
<1>10. << >> \o << >> = << >>
  OBVIOUS
<1>11. QED
  BY <1>4, <1>7, <1>8, <1>9, <1>10

-----------------------------------------------------------------------------
(* What the channels hold, as the operations and answers of OneSidedMemory.*)

Item == [op : Op, val : Nat]
Content == Nat

(* What message h is for the location of t: an operation, or nothing; and  *)
(* what answer a to receive w is for it: a value, or nothing.              *)
Operation(h, t) ==
  IF h.rank = t /\ h.op \in Op THEN <<[op |-> h.op, val |-> h.val]>> ELSE << >>

Fetch(w, a, t) ==
  IF w.rank = t /\ w.op \in Fetched /\ w.last THEN <<a.val>> ELSE << >>

(* The definitions again, with these.                                      *)
LEMMA OperationsIs ==
  ASSUME NEW q \in Seq(ReqMsg), NEW t
  PROVE  /\ Operations(q, t) = FlattenSeq([i \in 1 .. Len(q) |-> Operation(q[i], t)])
         /\ [i \in 1 .. Len(q) |-> Operation(q[i], t)] \in Seq(Seq(Item))
         /\ Operations(q, t) \in Seq(Item)
<1> DEFINE f == [i \in 1 .. Len(q) |-> Operation(q[i], t)]
<1>1. DOMAIN q = 1 .. Len(q) /\ Len(q) \in Nat
  OBVIOUS
<1>2. Operations(q, t) = FlattenSeq(f)
  BY <1>1 DEF Operations, Operation, Op
<1>3. ASSUME NEW i \in 1 .. Len(q)
      PROVE  Operation(q[i], t) \in Seq(Item)
  <2>1. q[i] \in ReqMsg
    BY <1>3
  <2>2. q[i].op \in Op => [op |-> q[i].op, val |-> q[i].val] \in Item
    BY <2>1 DEF ReqMsg, Item
  <2>3. QED
    BY <2>2 DEF Operation
<1>4. f \in Seq(Seq(Item))
  BY <1>1, <1>3
<1>5. QED
  BY <1>2, <1>4, FlattenTyped

(* The values fetched, again message by message.                           *)
LEMMA FetchesIs ==
  ASSUME NEW p \in Seq(RepMsg), NEW r, NEW t
  PROVE  /\ Fetches(p, r, t) = FlattenSeq([i \in 1 .. Len(p) |-> Fetch(r[i], p[i], t)])
         /\ [i \in 1 .. Len(p) |-> Fetch(r[i], p[i], t)] \in Seq(Seq(Content))
         /\ Fetches(p, r, t) \in Seq(Content)
<1> DEFINE f == [i \in 1 .. Len(p) |-> Fetch(r[i], p[i], t)]
<1>1. DOMAIN p = 1 .. Len(p) /\ Len(p) \in Nat
  OBVIOUS
<1>2. Fetches(p, r, t) = FlattenSeq(f)
  BY <1>1 DEF Fetches, Fetch
<1>3. ASSUME NEW i \in 1 .. Len(p)
      PROVE  Fetch(r[i], p[i], t) \in Seq(Content)
  <2>1. p[i] \in RepMsg
    BY <1>3
  <2>2. p[i].val \in Nat
    BY <2>1 DEF RepMsg
  <2>3. QED
    BY <2>2 DEF Fetch, Content
<1>4. f \in Seq(Seq(Content))
  BY <1>1, <1>3
<1>5. QED
  BY <1>2, <1>4, FlattenTyped

(* Messages sent later are operations that come later.                     *)
LEMMA OperationsConcat ==
  ASSUME NEW q \in Seq(ReqMsg), NEW u \in Seq(ReqMsg), NEW t
  PROVE  Operations(q \o u, t) = Operations(q, t) \o Operations(u, t)
<1> DEFINE f == [i \in 1 .. Len(q) |-> Operation(q[i], t)]
           g == [i \in 1 .. Len(u) |-> Operation(u[i], t)]
           h == [i \in 1 .. Len(q \o u) |-> Operation((q \o u)[i], t)]
<1>1. /\ Operations(q, t) = FlattenSeq(f) /\ f \in Seq(Seq(Item))
      /\ Operations(u, t) = FlattenSeq(g) /\ g \in Seq(Seq(Item))
  BY OperationsIs
<1>2. /\ q \o u \in Seq(ReqMsg) /\ Len(q \o u) = Len(q) + Len(u) /\ Len(q) \in Nat /\ Len(u) \in Nat
      /\ \A i \in 1 .. Len(q) : (q \o u)[i] = q[i]
      /\ \A i \in 1 .. Len(q \o u) : i > Len(q) => (q \o u)[i] = u[i - Len(q)] /\ i - Len(q) \in 1 .. Len(u)
  BY ConcatElements
<1>3. Operations(q \o u, t) = FlattenSeq(h)
  BY <1>2, OperationsIs
<1>4. h = f \o g
  <2>1. /\ f \o g \in Seq(Seq(Item)) /\ Len(f \o g) = Len(q) + Len(u)
        /\ \A i \in 1 .. (Len(q) + Len(u)) :
             (f \o g)[i] = IF i <= Len(q) THEN f[i] ELSE g[i - Len(q)]
    <3>1. Len(f) = Len(q) /\ Len(g) = Len(u)
      BY <1>2
    <3> HIDE DEF f, g
    <3>2. QED
      BY <1>1, <1>2, <3>1, ConcatProperties
  <2>2. ASSUME NEW i \in 1 .. (Len(q) + Len(u))
        PROVE  h[i] = IF i <= Len(q) THEN f[i] ELSE g[i - Len(q)]
    <3>1. CASE i <= Len(q)
      BY <1>2, <3>1
    <3>2. CASE ~(i <= Len(q))
      <4>1. i - Len(q) \in 1 .. Len(u) /\ (q \o u)[i] = u[i - Len(q)] /\ i \in 1 .. Len(q \o u)
        BY <1>2, <3>2
      <4>2. QED
        BY <3>2, <4>1
    <3>3. QED
      BY <3>1, <3>2
  <2>3. h \in Seq(Seq(Item)) /\ Len(h) = Len(q) + Len(u)
    <3>1. Len(q \o u) \in Nat /\ q \o u \in Seq(ReqMsg)
      BY <1>2
    <3>2. h \in Seq(Seq(Item))
      BY <3>1, OperationsIs
    <3>3. Len(h) = Len(q \o u)
      BY <3>1
    <3>4. QED
      BY <3>2, <3>3, <1>2
  <2> HIDE DEF f, g, h
  <2>4. QED
    BY <2>1, <2>2, <2>3, SeqEqual
<1> HIDE DEF f, g, h
<1>5. QED
  BY <1>1, <1>3, <1>4, FlattenConcat

(* A single message.                                                       *)
LEMMA OperationsOne ==
  ASSUME NEW h \in ReqMsg, NEW t
  PROVE  Operations(<<h>>, t) = Operation(h, t)
<1> DEFINE f == [i \in 1 .. Len(<<h>>) |-> Operation(<<h>>[i], t)]
<1>1. <<h>> \in Seq(ReqMsg) /\ Len(<<h>>) = 1 /\ <<h>>[1] = h
  OBVIOUS
<1>2. Operations(<<h>>, t) = FlattenSeq(f) /\ f \in Seq(Seq(Item))
  BY <1>1, OperationsIs
<1>3. f = <<Operation(h, t)>>
  BY <1>1
<1>4. Operation(h, t) \in Seq(Item)
  <2>1. h.op \in Op => [op |-> h.op, val |-> h.val] \in Item
    BY DEF ReqMsg, Item
  <2>2. QED
    BY <2>1 DEF Operation
<1> HIDE DEF f
<1>5. QED
  BY <1>2, <1>3, <1>4, FlattenOne

(* Messages that are nothing for t.                                        *)
LEMMA OperationsSilent ==
  ASSUME NEW q \in Seq(ReqMsg), NEW t,
         \A i \in 1 .. Len(q) : q[i].rank # t \/ q[i].op \notin Op
  PROVE  Operations(q, t) = << >>
<1> DEFINE f == [i \in 1 .. Len(q) |-> Operation(q[i], t)]
<1>1. Operations(q, t) = FlattenSeq(f) /\ f \in Seq(Seq(Item))
  BY OperationsIs
<1>2. Len(f) = Len(q) /\ \A i \in 1 .. Len(f) : f[i] = << >>
  <2>1. Len(q) \in Nat
    OBVIOUS
  <2>2. QED
    BY <2>1 DEF Operation
<1> HIDE DEF f
<1>3. QED
  BY <1>1, <1>2, FlattenEmpty

(* The oldest message, and the others.                                     *)
LEMMA OperationsTail ==
  ASSUME NEW q \in Seq(ReqMsg), q # << >>, NEW t
  PROVE  Operations(q, t) = Operation(q[1], t) \o Operations(Tail(q), t)
<1>1. q = <<q[1]>> \o Tail(q) /\ q[1] \in ReqMsg /\ Tail(q) \in Seq(ReqMsg) /\ <<q[1]>> \in Seq(ReqMsg)
  OBVIOUS
<1>2. Operations(<<q[1]>> \o Tail(q), t) = Operations(<<q[1]>>, t) \o Operations(Tail(q), t)
  BY <1>1, OperationsConcat
<1>3. QED
  BY <1>1, <1>2, OperationsOne

(* Only the receives of the answers in flight matter.                      *)
LEMMA FetchesSame ==
  ASSUME NEW p \in Seq(RepMsg), NEW r, NEW r2, NEW t, \A i \in 1 .. Len(p) : r2[i] = r[i]
  PROVE  Fetches(p, r2, t) = Fetches(p, r, t)
<1>1. [i \in 1 .. Len(p) |-> Fetch(r2[i], p[i], t)] = [i \in 1 .. Len(p) |-> Fetch(r[i], p[i], t)]
  OBVIOUS
<1>2. Fetches(p, r, t) = FlattenSeq([i \in 1 .. Len(p) |-> Fetch(r[i], p[i], t)])
  BY FetchesIs, Zenon
<1>3. Fetches(p, r2, t) = FlattenSeq([i \in 1 .. Len(p) |-> Fetch(r2[i], p[i], t)])
  BY FetchesIs, Zenon
<1>4. QED
  BY <1>1, <1>2, <1>3, Zenon

(* The receives r2 are those of r for answers a behind n others.           *)
Behind(r2, r, n, a) == \A i \in 1 .. Len(a) : r2[i] = r[n + i]

(* Answers sent later are for receives posted later.                       *)
LEMMA FetchesConcat ==
  ASSUME NEW p \in Seq(RepMsg), NEW a \in Seq(RepMsg), NEW r, NEW r2, NEW t,
         Behind(r2, r, Len(p), a)
  PROVE  Fetches(p \o a, r, t) = Fetches(p, r, t) \o Fetches(a, r2, t)
<1> DEFINE f == [i \in 1 .. Len(p) |-> Fetch(r[i], p[i], t)]
           g == [i \in 1 .. Len(a) |-> Fetch(r2[i], a[i], t)]
           h == [i \in 1 .. Len(p \o a) |-> Fetch(r[i], (p \o a)[i], t)]
<1>1. /\ Fetches(p, r, t) = FlattenSeq(f) /\ f \in Seq(Seq(Content))
      /\ Fetches(a, r2, t) = FlattenSeq(g) /\ g \in Seq(Seq(Content))
  BY FetchesIs
<1>2. /\ p \o a \in Seq(RepMsg) /\ Len(p \o a) = Len(p) + Len(a) /\ Len(p) \in Nat /\ Len(a) \in Nat
      /\ \A i \in 1 .. Len(p) : (p \o a)[i] = p[i]
      /\ \A i \in 1 .. Len(p \o a) : i > Len(p) => (p \o a)[i] = a[i - Len(p)] /\ i - Len(p) \in 1 .. Len(a)
  BY ConcatElements
<1>3. Fetches(p \o a, r, t) = FlattenSeq(h) /\ h \in Seq(Seq(Content))
  <2> DEFINE b == p \o a
  <2>1. b \in Seq(RepMsg)
    BY <1>2
  <2> HIDE DEF b
  <2>2. /\ Fetches(b, r, t) = FlattenSeq([i \in 1 .. Len(b) |-> Fetch(r[i], b[i], t)])
        /\ [i \in 1 .. Len(b) |-> Fetch(r[i], b[i], t)] \in Seq(Seq(Content))
    BY <2>1, FetchesIs, Zenon
  <2>3. QED
    BY <2>2 DEF b
<1>4. h = f \o g
  <2>1. /\ f \o g \in Seq(Seq(Content)) /\ Len(f \o g) = Len(p) + Len(a)
        /\ \A i \in 1 .. (Len(p) + Len(a)) :
             (f \o g)[i] = IF i <= Len(p) THEN f[i] ELSE g[i - Len(p)]
    <3>1. Len(f) = Len(p) /\ Len(g) = Len(a)
      BY <1>2
    <3> HIDE DEF f, g
    <3>2. QED
      <4>1. /\ f \o g \in Seq(Seq(Content)) /\ Len(f \o g) = Len(f) + Len(g)
            /\ \A i \in 1 .. (Len(f) + Len(g)) :
                 (f \o g)[i] = IF i <= Len(f) THEN f[i] ELSE g[i - Len(f)]
        BY <1>1, ConcatProperties
      <4>2. QED
        BY <3>1, <4>1
  <2>2. ASSUME NEW i \in 1 .. (Len(p) + Len(a))
        PROVE  h[i] = IF i <= Len(p) THEN f[i] ELSE g[i - Len(p)]
    <3>1. CASE i <= Len(p)
      BY <1>2, <3>1
    <3>2. CASE ~(i <= Len(p))
      <4>1. /\ i - Len(p) \in 1 .. Len(a) /\ (p \o a)[i] = a[i - Len(p)] /\ i \in 1 .. Len(p \o a)
            /\ Len(p) + (i - Len(p)) = i
        BY <1>2, <3>2
      <4>2. r2[i - Len(p)] = r[i]
        BY <4>1 DEF Behind
      <4>3. QED
        BY <3>2, <4>1, <4>2
    <3>3. QED
      BY <3>1, <3>2
  <2>3. Len(h) = Len(p) + Len(a)
    <3>1. Len(p \o a) \in Nat
      BY <1>2
    <3>2. Len(h) = Len(p \o a)
      BY <3>1
    <3>3. QED
      BY <3>2, <1>2
  <2> HIDE DEF f, g, h
  <2>4. QED
    BY <1>3, <2>1, <2>2, <2>3, SeqEqual
<1> HIDE DEF f, g, h
<1>5. QED
  <2>1. FlattenSeq(f \o g) = FlattenSeq(f) \o FlattenSeq(g)
    BY <1>1, FlattenConcat
  <2>2. QED
    BY <1>1, <1>3, <1>4, <2>1, Zenon

(* A single answer.                                                        *)
LEMMA FetchesOne ==
  ASSUME NEW a \in RepMsg, NEW w, NEW t
  PROVE  Fetches(<<a>>, <<w>>, t) = Fetch(w, a, t)
<1> DEFINE f == [i \in 1 .. Len(<<a>>) |-> Fetch(<<w>>[i], <<a>>[i], t)]
<1>1. <<a>> \in Seq(RepMsg) /\ Len(<<a>>) = 1 /\ <<a>>[1] = a /\ <<w>>[1] = w
  OBVIOUS
<1>2. Fetches(<<a>>, <<w>>, t) = FlattenSeq(f) /\ f \in Seq(Seq(Content))
  BY <1>1, FetchesIs
<1>3. f = <<Fetch(w, a, t)>>
  BY <1>1
<1>4. Fetch(w, a, t) \in Seq(Content)
  <2>1. a.val \in Nat
    BY DEF RepMsg
  <2>2. QED
    BY <2>1 DEF Fetch, Content
<1> HIDE DEF f
<1>5. QED
  BY <1>2, <1>3, <1>4, FlattenOne

(* Answers that are nothing for t.                                         *)
LEMMA FetchesSilent ==
  ASSUME NEW p \in Seq(RepMsg), NEW r, NEW t,
         \A i \in 1 .. Len(p) : r[i].rank # t \/ r[i].op \notin Fetched \/ ~r[i].last
  PROVE  Fetches(p, r, t) = << >>
<1> DEFINE f == [i \in 1 .. Len(p) |-> Fetch(r[i], p[i], t)]
<1>1. Fetches(p, r, t) = FlattenSeq(f) /\ f \in Seq(Seq(Content))
  BY FetchesIs
<1>2. Len(f) = Len(p) /\ \A i \in 1 .. Len(f) : f[i] = << >>
  <2>1. Len(p) \in Nat
    OBVIOUS
  <2>2. QED
    BY <2>1 DEF Fetch
<1> HIDE DEF f
<1>3. QED
  BY <1>1, <1>2, FlattenEmpty

(* The oldest answer, and the others.                                      *)
LEMMA FetchesTail ==
  ASSUME NEW p \in Seq(RepMsg), NEW r \in Seq(Recv), p # << >>, r # << >>, Len(p) <= Len(r), NEW t
  PROVE  Fetches(p, r, t) = Fetch(r[1], p[1], t) \o Fetches(Tail(p), Tail(r), t)
<1>1. p = <<p[1]>> \o Tail(p) /\ p[1] \in RepMsg /\ Tail(p) \in Seq(RepMsg) /\ <<p[1]>> \in Seq(RepMsg)
  OBVIOUS
<1>2. Len(<<p[1]>>) = 1 /\ Len(Tail(p)) = Len(p) - 1 /\ Len(p) \in Nat /\ Len(r) \in Nat
  OBVIOUS
<1>3. Behind(Tail(r), r, 1, Tail(p))
  <2>1. ASSUME NEW i \in 1 .. Len(Tail(p))
        PROVE  Tail(r)[i] = r[1 + i]
    <3>1. i \in 1 .. Len(Tail(r)) /\ i + 1 = 1 + i
      BY <1>2, TailElements
    <3>2. QED
      BY <3>1, TailElements
  <2>2. QED
    BY <2>1 DEF Behind
<1>4. Fetches(<<p[1]>> \o Tail(p), r, t) = Fetches(<<p[1]>>, r, t) \o Fetches(Tail(p), Tail(r), t)
  <2> DEFINE o == <<p[1]>>
             u == Tail(p)
             w == Tail(r)
  <2>1. o \in Seq(RepMsg) /\ u \in Seq(RepMsg) /\ Behind(w, r, Len(o), u)
    BY <1>1, <1>2, <1>3
  <2> HIDE DEF o, u, w
  <2>2. Fetches(o \o u, r, t) = Fetches(o, r, t) \o Fetches(u, w, t)
    BY <2>1, FetchesConcat
  <2>3. QED
    BY <2>2 DEF o, u, w
<1>5. Fetches(<<p[1]>>, r, t) = Fetches(<<p[1]>>, <<r[1]>>, t)
  <2>1. \A i \in 1 .. Len(<<p[1]>>) : r[i] = <<r[1]>>[i]
    OBVIOUS
  <2>2. QED
    BY ZenonT(60), <1>1, <2>1, FetchesSame
<1>6. QED
  BY <1>1, <1>4, <1>5, FetchesOne

(* Sequence a is b with x behind it.                                       *)
Prolongs(a, b, x) == a = b \o x

(* What request h fetches from t when the value there is v.                *)
Given(h, v, t) == IF h.rank = t /\ h.op \in Fetched THEN <<v>> ELSE << >>

(* All answers to request h: one value if h fetches from t.                *)
LEMMA FetchesAnswer ==
  ASSUME NEW p \in Seq(RepMsg), NEW a \in Seq(RepMsg), NEW r, NEW t, NEW h \in ReqMsg, NEW v \in Nat,
         Len(a) = Answers(h), \A k \in 1 .. Len(a) : a[k].val = v,
         \A k \in 1 .. Answers(h) : r[Len(p) + k] = Wanted(h, k),
         h.op \in Fetched => Answers(h) > 0, NEW z, Prolongs(z, p, a)
  PROVE  Prolongs(Fetches(z, r, t), Fetches(p, r, t), Given(h, v, t))
<1> SUFFICES Fetches(p \o a, r, t)
               = Fetches(p, r, t) \o (IF h.rank = t /\ h.op \in Fetched THEN <<v>> ELSE << >>)
  BY Zenon DEF Prolongs, Given
<1> DEFINE w == [k \in 1 .. Len(a) |-> Wanted(h, k)]
<1>1. \A k \in 1 .. Len(a) : w[k] = r[Len(p) + k] /\ w[k] = Wanted(h, k)
  OBVIOUS
<1>2. Fetches(p \o a, r, t) = Fetches(p, r, t) \o Fetches(a, w, t)
  <2> HIDE DEF w
  <2>1. Behind(w, r, Len(p), a)
    BY <1>1 DEF Behind
  <2>2. QED
    BY <2>1, FetchesConcat
<1>3. CASE ~(h.rank = t /\ h.op \in Fetched)
  <2>1. \A k \in 1 .. Len(a) : w[k].rank # t \/ w[k].op \notin Fetched
    BY <1>1, <1>3 DEF Wanted, Receive
  <2>2. Fetches(a, w, t) = << >>
    BY <2>1, FetchesSilent
  <2>3. QED
    BY <1>2, <1>3, <2>2
<1>4. CASE h.rank = t /\ h.op \in Fetched
  <2>1. Len(a) \in Nat /\ Len(a) > 0 /\ a # << >>
    BY <1>4
  <2>2. PICK b \in Seq(RepMsg), x \in RepMsg : a = Append(b, x) /\ Len(b) = Len(a) - 1
    BY <2>1, Butlast
  <2>3. /\ a = b \o <<x>> /\ <<x>> \in Seq(RepMsg) /\ Len(<<x>>) = 1
        /\ Len(b) \in Nat /\ a[Len(a)] = x
    BY <2>1, <2>2
  <2>4. Len(a) \in 1 .. Len(a) /\ Len(b) + 1 = Len(a)
    BY <2>1, <2>2
  <2>5. /\ w[Len(a)].rank = t /\ w[Len(a)].op \in Fetched /\ w[Len(a)].last
        /\ x.val = v
    BY ZenonT(60), <1>1, <1>4, <2>3, <2>4 DEF Wanted, Receive
  <2>6. \A k \in 1 .. Len(b) : ~w[k].last
    <3>1. \A k \in 1 .. Len(b) : k \in 1 .. Len(a) /\ k # Answers(h)
      BY <2>1, <2>2
    <3>2. QED
      BY <1>1, <3>1 DEF Wanted, Receive
  <2>7. Fetches(b, w, t) = << >>
    BY <2>6, FetchesSilent
  <2> DEFINE y == <<w[Len(a)]>>
  <2>8. \A i \in 1 .. Len(<<x>>) : y[i] = w[Len(b) + i]
    BY <2>4
  <2>9. Fetches(b \o <<x>>, w, t) = Fetches(b, w, t) \o Fetches(<<x>>, y, t)
    <3> DEFINE o == <<x>>
    <3>1. o \in Seq(RepMsg) /\ Behind(y, w, Len(b), o)
      BY <2>3, <2>8 DEF Behind
    <3> HIDE DEF o, w, y
    <3>2. Fetches(b \o o, w, t) = Fetches(b, w, t) \o Fetches(o, y, t)
      BY <3>1, FetchesConcat
    <3>3. QED
      BY <3>2 DEF o
  <2>10. Fetches(<<x>>, y, t) = <<v>>
    <3>1. Fetches(<<x>>, y, t) = Fetch(w[Len(a)], x, t)
      BY FetchesOne, Zenon
    <3>2. QED
      BY <2>5, <3>1, Zenon DEF Fetch
  <2> HIDE DEF w, y
  <2>11. << >> \o <<v>> = <<v>>
    OBVIOUS
  <2>12. QED
    BY <1>2, <1>4, <2>3, <2>7, <2>9, <2>10, <2>11
<1>5. QED
  BY <1>3, <1>4

-----------------------------------------------------------------------------
(* Steps of OneSidedMemory, from what becomes of what they mention.        *)

(* Nothing of it changes.                                                  *)
LEMMA MapsToStutter ==
  ASSUME UNCHANGED <<mem, buf, round>>,
         \A c, t \in Worker : /\ Outstanding(c, t)' = Outstanding(c, t)
                              /\ Returning(c, t)' = Returning(c, t)
  PROVE  UNCHANGED Memory!vars
BY DEF Memory!vars

(* An operation of c on the location of t is issued.                       *)
LEMMA MapsToIssue ==
  ASSUME NEW c \in Worker, NEW t \in Worker, NEW op \in Op, NEW val \in Value \cup {0, 1},
         UNCHANGED <<mem, buf, round>>, Outstanding(c, t) \in Seq(Item),
         Outstanding(c, t)' = Append(Outstanding(c, t), [op |-> op, val |-> val]),
         \A d, u \in Worker : d # c \/ u # t => Outstanding(d, u)' = Outstanding(d, u),
         \A d, u \in Worker : Returning(d, u)' = Returning(d, u)
  PROVE  Memory!Next
<1> DEFINE Q == [d \in Worker |-> [u \in Worker |-> Outstanding(d, u)]]
           A == [d \in Worker |-> [u \in Worker |-> Returning(d, u)]]
<1>1. Q' = [Q EXCEPT ![c][t] = Append(@, [op |-> op, val |-> val])]
  OBVIOUS
<1>2. UNCHANGED A
  OBVIOUS
<1>3. Len(Q'[c][t]) > Len(Q[c][t])
  <2>1. Q'[c][t] = Append(Outstanding(c, t), [op |-> op, val |-> val]) /\ Q[c][t] = Outstanding(c, t)
    OBVIOUS
  <2>2. \A s \in Seq(Item) : \A x : Len(Append(s, x)) > Len(s)
    OBVIOUS
  <2> HIDE DEF Q
  <2>3. QED
    BY <2>1, <2>2, Zenon
<1>4. op \in Memory!Write \cup Memory!Fetch
  BY DEF Op, Written, Fetched, Memory!Write, Memory!Fetch
<1> HIDE DEF Q, A
<1>5. Memory!Issue(c, t)
  BY <1>1, <1>2, <1>3, <1>4 DEF Memory!Issue, Q, A
<1>6. QED
  BY <1>5 DEF Memory!Next

(* The oldest one takes effect, and answers if it fetches.                 *)
LEMMA MapsToApply ==
  ASSUME NEW c \in Worker, NEW t \in Worker, NEW o \in Item, NEW rest \in Seq(Item),
         UNCHANGED <<buf, round>>,
         Prolongs(Outstanding(c, t), <<o>>, rest), Outstanding(c, t)' = rest,
         \A d, u \in Worker : d # c \/ u # t => Outstanding(d, u)' = Outstanding(d, u),
         Returning(c, t) \in Seq(Content), mem[t] \in Nat,
         Prolongs(Returning(c, t)', Returning(c, t), IF o.op \in Fetched THEN <<mem[t]>> ELSE << >>),
         \A d, u \in Worker : d # c \/ u # t => Returning(d, u)' = Returning(d, u),
         mem' = [mem EXCEPT ![t] = Memory!Effect(o, @)]
  PROVE  Memory!Next
<1> DEFINE Q == [d \in Worker |-> [u \in Worker |-> Outstanding(d, u)]]
           A == [d \in Worker |-> [u \in Worker |-> Returning(d, u)]]
<1>1. Q[c][t] # << >> /\ Head(Q[c][t]) = o /\ Tail(Q[c][t]) = rest
  BY DEF Prolongs
<1>2. Q' = [Q EXCEPT ![c][t] = Tail(@)]
  <2>1. Q' = [Q EXCEPT ![c][t] = rest]
    OBVIOUS
  <2> HIDE DEF Q
  <2>2. QED
    BY <1>1, <2>1
<1>3. A' = [A EXCEPT ![c][t] = IF o.op \in Memory!Fetch THEN Append(@, mem[t]) ELSE @]
  <2>1. Returning(c, t)' = IF o.op \in Fetched THEN Append(Returning(c, t), mem[t]) ELSE Returning(c, t)
    BY DEF Content, Prolongs
  <2>2. Fetched = Memory!Fetch
    BY DEF Fetched, Memory!Fetch
  <2>3. QED
    BY <2>1, <2>2
<1> HIDE DEF Q, A
<1>4. Memory!Apply(c, t)
  BY <1>1, <1>2, <1>3 DEF Memory!Apply, Q, A
<1>5. QED
  BY <1>4 DEF Memory!Next

(* The oldest answer reaches the buffer.                                   *)
LEMMA MapsToReceive ==
  ASSUME NEW c \in Worker, NEW t \in Worker, NEW v \in Nat, NEW rest \in Seq(Content),
         UNCHANGED <<mem, round>>,
         \A d, u \in Worker : Outstanding(d, u)' = Outstanding(d, u),
         Returning(c, t) = <<v>> \o rest, Returning(c, t)' = rest,
         \A d, u \in Worker : d # c \/ u # t => Returning(d, u)' = Returning(d, u),
         buf' = [buf EXCEPT ![c] = <<t, v>>]
  PROVE  Memory!Next
<1> DEFINE Q == [d \in Worker |-> [u \in Worker |-> Outstanding(d, u)]]
           A == [d \in Worker |-> [u \in Worker |-> Returning(d, u)]]
<1>1. A[c][t] # << >> /\ Head(A[c][t]) = v /\ Tail(A[c][t]) = rest
  BY DEF Content
<1>2. A' = [A EXCEPT ![c][t] = Tail(@)]
  <2>1. A' = [A EXCEPT ![c][t] = rest]
    OBVIOUS
  <2> HIDE DEF A
  <2>2. QED
    BY <1>1, <2>1
<1>3. UNCHANGED Q
  OBVIOUS
<1> HIDE DEF Q, A
<1>4. Memory!Receive(c, t)
  BY <1>1, <1>2, <1>3 DEF Memory!Receive, Q, A
<1>5. QED
  BY <1>4 DEF Memory!Next

(* An operation is issued and done at once.                                *)
LEMMA MapsToDirect ==
  ASSUME NEW c \in Worker, NEW t \in Worker, UNCHANGED round,
         Outstanding(c, t) = << >>,
         \A d, u \in Worker : /\ Outstanding(d, u)' = Outstanding(d, u)
                              /\ Returning(d, u)' = Returning(d, u),
         \/ \E op \in Written, val \in Value \cup {0, 1} :
              /\ mem' = [mem EXCEPT ![t] = Memory!Effect([op |-> op, val |-> val], @)]
              /\ UNCHANGED buf
         \/ buf' = [buf EXCEPT ![c] = <<t, mem[t]>>] /\ UNCHANGED mem
  PROVE  Memory!Next
<1> DEFINE Q == [d \in Worker |-> [u \in Worker |-> Outstanding(d, u)]]
           A == [d \in Worker |-> [u \in Worker |-> Returning(d, u)]]
<1>1. Q[c][t] = << >> /\ UNCHANGED <<Q, A>>
  OBVIOUS
<1>2. Written = Memory!Write
  BY DEF Written, Memory!Write
<1> HIDE DEF Q, A
<1>3. Memory!Direct(c, t)
  BY <1>1, <1>2 DEF Memory!Direct, Q, A
<1>4. QED
  BY <1>3 DEF Memory!Next

(* A barrier completes.                                                    *)
LEMMA MapsToBarrier ==
  ASSUME UNCHANGED <<mem, buf>>, round' = 1 - round,
         \A c, t \in Worker : /\ Outstanding(c, t)' = Outstanding(c, t)
                              /\ Returning(c, t)' = Returning(c, t)
                              /\ \A i \in DOMAIN Outstanding(c, t) : Outstanding(c, t)[i].op \notin Written
  PROVE  Memory!Next
<1> DEFINE Q == [d \in Worker |-> [u \in Worker |-> Outstanding(d, u)]]
           A == [d \in Worker |-> [u \in Worker |-> Returning(d, u)]]
<1>1. UNCHANGED <<Q, A>>
  OBVIOUS
<1>2. Written = Memory!Write
  BY DEF Written, Memory!Write
<1>3. \A c, t \in Worker : \A i \in DOMAIN Q[c][t] : Q[c][t][i].op \notin Memory!Write
  BY <1>2
<1> HIDE DEF Q, A
<1>4. Memory!Barrier
  BY <1>1, <1>3 DEF Memory!Barrier, Q, A
<1>5. QED
  BY <1>4 DEF Memory!Next

-----------------------------------------------------------------------------
(* What the messages and the semaphores stand for.                         *)

RMW == {"FETCH_AND_ADD", "SWAP"}

(* Message h of worker c: the program does this to the location, and a get *)
(* is sent only where there is no shortcut for it.                         *)
Legal(h, c) ==
  /\ h.op \in Op => h.op \in Allowed[h.rank]
  /\ h.op = "GET" => ~Direct(c, "GET", h.rank)

Asked(c, m) ==
  \A i \in 1 .. Len(req[c][m]) :
    /\ Legal(req[c][m][i], c)
    /\ req[c][m][i].op \in RMW => pc[c] = "rmw" /\ MasterOf[todo[c].rank] = m

Serves(m) ==
  serving[m] # Idle =>
    /\ serving[m].msg.op \in Allowed[serving[m].msg.rank]
    /\ MasterOf[serving[m].msg.rank] = m

(* A worker inside a shortcut has left no write with that master.          *)
Calls(c) ==
  /\ pc[c] \in InShortcut =>
       /\ todo[c].op \in {"PUT", "GET", "ACC"} \cap Allowed[todo[c].rank]
       /\ Direct(c, todo[c].op, todo[c].rank)
       /\ todo[c].val \in Carried(todo[c].op)
  /\ pc[c] \in {"direct", "acc"} => MasterOf[todo[c].rank] \notin fence_array[c]
  /\ pc[c] = "acc" => todo[c].op = "ACC" /\ semaphores[todo[c].rank] = c

(* Process p is in the middle of an accumulate to the location of t.       *)
Accumulates(p, t) ==
  \/ p \in Worker /\ pc[p] = "acc" /\ todo[p].rank = t
  \/ p \in Master /\ HasPayload(p, "ACC") /\ serving[p].msg.rank = t

(* What it has read is still there: nobody else writes the location.       *)
Locked(t) ==
  semaphores[t] # NoRank =>
    /\ Accumulates(semaphores[t], t)
    /\ tmp[semaphores[t]] = mem[t]
    /\ "ACC" \in Allowed[t]

RInv ==
  /\ IInv
  /\ \A c \in Worker : Calls(c)
  /\ \A c \in Worker, m \in Master : Asked(c, m)
  /\ \A m \in Master : Serves(m)
  /\ \A t \in Worker : Locked(t)

(* Puts and read-modify-writes of a location exclude accumulates.          *)
LEMMA Apart ==
  ASSUME NEW t \in Worker, "PUT" \in Allowed[t] \/ \E op \in RMW : op \in Allowed[t]
  PROVE  "ACC" \notin Allowed[t]
<1>1. Allowed[t] \in (SUBSET {"PUT", "GET"}) \cup (SUBSET {"ACC", "GET"})
                           \cup (SUBSET {"FETCH_AND_ADD", "SWAP", "GET"})
  BY OneSidedAssumption DEF OneSidedAssumption
<1>2. QED
  BY <1>1 DEF RMW

(* What a worker does that is not in an accumulate.                        *)
LEMMA WorkerMeans ==
  ASSUME RInv, IInv', NEW c \in Worker, pc[c] # "acc", pc'[c] # "acc",
         UNCHANGED <<serving, semaphores, tmp>>,
         \A d \in Worker \ {c} :
           pc'[d] = pc[d] /\ todo'[d] = todo[d] /\ fence_array'[d] = fence_array[d] /\ req'[d] = req[d],
         \A u \in Worker : semaphores[u] # NoRank => mem'[u] = mem[u],
         Calls(c)', \A m \in Master : Asked(c, m)'
  PROVE  RInv'
<1>1. ASSUME NEW d \in Worker
      PROVE  Calls(d)' /\ \A m \in Master : Asked(d, m)'
  <2>1. CASE d = c
    BY <2>1
  <2>2. CASE d # c
    BY <2>2 DEF RInv, Calls, Asked
  <2>3. QED
    BY <2>1, <2>2
<1>2. ASSUME NEW m \in Master
      PROVE  Serves(m)'
  BY DEF RInv, Serves
<1>3. ASSUME NEW t \in Worker
      PROVE  Locked(t)'
  <2>1. SUFFICES ASSUME semaphores[t] # NoRank PROVE Locked(t)'
    BY DEF Locked
  <2>2. Accumulates(semaphores[t], t) /\ tmp[semaphores[t]] = mem[t] /\ "ACC" \in Allowed[t]
    BY <2>1 DEF RInv, Locked
  <2>3. Accumulates(semaphores[t], t)'
    BY <2>2 DEF Accumulates, HasPayload
  <2>4. QED
    BY <2>1, <2>2, <2>3 DEF Locked
<1>4. QED
  BY <1>1, <1>2, <1>3 DEF RInv

(* What a progress rank does that is not in an accumulate.                 *)
LEMMA ServerMeans ==
  ASSUME RInv, IInv', NEW m \in Master, \A t \in Worker : semaphores[t] # m,
         UNCHANGED <<pc, todo, fence_array, semaphores, tmp>>,
         \A n \in Master \ {m} : serving'[n] = serving[n], Serves(m)',
         \A d \in Worker, n \in Master : Asked(d, n)',
         \A u \in Worker : semaphores[u] # NoRank => mem'[u] = mem[u]
  PROVE  RInv'
<1>1. ASSUME NEW d \in Worker
      PROVE  Calls(d)'
  BY DEF RInv, Calls
<1>2. ASSUME NEW n \in Master
      PROVE  Serves(n)'
  BY DEF RInv, Serves
<1>3. ASSUME NEW t \in Worker
      PROVE  Locked(t)'
  <2>1. SUFFICES ASSUME semaphores[t] # NoRank PROVE Locked(t)'
    BY DEF Locked
  <2>2. Accumulates(semaphores[t], t) /\ tmp[semaphores[t]] = mem[t] /\ "ACC" \in Allowed[t]
    BY <2>1 DEF RInv, Locked
  <2>3. Accumulates(semaphores[t], t)'
    BY <2>2 DEF Accumulates, HasPayload
  <2>4. QED
    BY <2>1, <2>2, <2>3 DEF Locked
<1>4. QED
  BY <1>1, <1>2, <1>3 DEF RInv

(* What a message is for leaves its queue as it was, or is behind it.      *)
LEMMA AskedSame ==
  ASSUME NEW c \in Worker, NEW n \in Master, Asked(c, n), req'[c][n] = req[c][n],
         pc[c] # "rmw" \/ (pc'[c] = pc[c] /\ todo'[c] = todo[c])
  PROVE  Asked(c, n)'
BY DEF Asked, Legal, RMW

(* Messages are sent that the worker may send.                             *)
LEMMA AskedMore ==
  ASSUME NEW c \in Worker, NEW n \in Master, Asked(c, n), pc[c] # "rmw",
         req[c][n] \in Seq(ReqMsg), NEW u \in Seq(ReqMsg), req'[c][n] = req[c][n] \o u,
         \A i \in 1 .. Len(u) :
           Legal(u[i], c) /\ (u[i].op \in RMW => pc'[c] = "rmw" /\ MasterOf[todo'[c].rank] = n)
  PROVE  Asked(c, n)'
<1> DEFINE q == req[c][n]
           w == q \o u
<1>1. /\ Len(w) = Len(q) + Len(u) /\ Len(q) \in Nat /\ Len(u) \in Nat
      /\ \A i \in 1 .. Len(q) : w[i] = q[i]
      /\ \A i \in 1 .. Len(w) : i > Len(q) => w[i] = u[i - Len(q)] /\ i - Len(q) \in 1 .. Len(u)
  BY ConcatElements
<1>2. \A i \in 1 .. Len(q) : Legal(q[i], c) /\ q[i].op \notin RMW
  BY DEF Asked
<1>3. req'[c][n] = w
  OBVIOUS
<1> HIDE DEF q, w
<1>4. ASSUME NEW i \in 1 .. Len(w)
      PROVE  Legal(w[i], c) /\ (w[i].op \in RMW => pc'[c] = "rmw" /\ MasterOf[todo'[c].rank] = n)
  <2>1. CASE i > Len(q)
    BY <1>1, <2>1
  <2>2. CASE i <= Len(q)
    BY <1>1, <1>2, <2>2
  <2>3. QED
    BY <1>1, <2>1, <2>2
<1>5. QED
  BY <1>3, <1>4 DEF Asked, Legal

(* The oldest message is taken.                                            *)
LEMMA AskedLess ==
  ASSUME NEW c \in Worker, NEW n \in Master, Asked(c, n), req[c][n] # << >>,
         req[c][n] \in Seq(ReqMsg), req'[c][n] = Tail(req[c][n]),
         pc'[c] = pc[c], todo'[c] = todo[c]
  PROVE  Asked(c, n)'
<1>1. /\ Len(Tail(req[c][n])) = Len(req[c][n]) - 1
      /\ \A i \in 1 .. Len(Tail(req[c][n])) :
           Tail(req[c][n])[i] = req[c][n][i + 1] /\ i + 1 \in 1 .. Len(req[c][n])
  BY TailElements
<1>2. QED
  BY <1>1 DEF Asked, Legal

(* A worker calls.                                                         *)
LEMMA CallMeans ==
  ASSUME RInv, IInv', NEW c \in Worker, NEW t \in Worker, Call(c, t)
  PROVE  RInv'
<1> DEFINE m == MasterOf[t]
<1>1. m \in Master /\ Typed /\ Calls(c) /\ \A n \in Master : Asked(c, n)
  BY ConstantsTyped DEF RInv, IInv
<1> HIDE DEF m
<1>2. /\ pc \in [Worker -> Point] /\ todo \in [Worker -> Todo \cup {NoOp}]
      /\ fence_array \in [Worker -> SUBSET Master]
      /\ req \in [Worker -> [Master -> Seq(ReqMsg)]]
  BY <1>1 DEF Typed
<1>3. pc[c] = "ready" /\ pc[c] # "rmw"
  BY DEF Call, CallDirect, CallWrite, CallGet, comex_rmw, CanCall
<1>4. /\ UNCHANGED <<mem, serving, semaphores, tmp>>
      /\ fence_array' = fence_array \/ fence_array' = [fence_array EXCEPT ![c] = @ \cup {m}]
  <2>1. ASSUME NEW op \in {"PUT", "ACC"}, CallWrite(c, op, t)
        PROVE  /\ UNCHANGED <<mem, serving, semaphores, tmp>>
               /\ fence_array' = [fence_array EXCEPT ![c] = @ \cup {m}]
    BY <2>1 DEF CallWrite, m
  <2>2. ASSUME NEW op, CallDirect(c, op, t) \/ CallGet(c, t) \/ comex_rmw(c, op, t)
        PROVE  UNCHANGED <<mem, serving, semaphores, tmp, fence_array>>
    BY <2>2 DEF CallDirect, CallGet, comex_rmw
  <2>3. QED
    BY <2>1, <2>2 DEF Call
<1>5. ASSUME NEW u \in Seq(ReqMsg), req' = [req EXCEPT ![c][m] = @ \o u],
             \A d \in Worker \ {c} : pc'[d] = pc[d] /\ todo'[d] = todo[d],
             pc'[c] # "acc", Calls(c)',
             \A i \in 1 .. Len(u) : /\ Legal(u[i], c)
                                    /\ u[i].op \in RMW => pc'[c] = "rmw" /\ MasterOf[todo'[c].rank] = m
      PROVE  RInv'
  <2>1. /\ req'[c][m] = req[c][m] \o u
        /\ \A n \in Master \ {m} : req'[c][n] = req[c][n]
        /\ \A d \in Worker \ {c} : req'[d] = req[d]
    BY <1>1, <1>2, <1>5, PutAtEnd
  <2>2. \A d \in Worker \ {c} : fence_array'[d] = fence_array[d]
    BY <1>2, <1>4
  <2>3. Asked(c, m)'
    <3>1. req[c][m] \in Seq(ReqMsg)
      BY <1>1, <1>2
    <3>2. QED
      BY <1>1, <1>3, <1>5, <2>1, <3>1, AskedMore
  <2>4. ASSUME NEW n \in Master
        PROVE  Asked(c, n)'
    <3>1. CASE n = m
      BY <2>3, <3>1
    <3>2. CASE n # m
      <4>1. Asked(c, n) /\ req'[c][n] = req[c][n]
        BY <1>1, <2>1, <3>2
      <4>2. QED
        BY <1>3, <4>1, AskedSame
    <3>3. QED
      BY <3>1, <3>2
  <2>5. UNCHANGED <<mem, serving, semaphores, tmp>>
    BY <1>4
  <2>6. QED
    BY <1>3, <1>5, <2>1, <2>2, <2>4, <2>5, WorkerMeans
<1>6. ASSUME NEW op \in {"PUT", "GET", "ACC"}, CallDirect(c, op, t)
      PROVE  RInv'
  <2>1. PICK x \in Carried(op) : todo' = [todo EXCEPT ![c] = Message(op, t, x)]
    BY <1>6 DEF CallDirect
  <2>2. /\ todo'[c].op = op /\ todo'[c].rank = t /\ todo'[c].val = x
        /\ \A d \in Worker \ {c} : todo'[d] = todo[d]
    BY <1>2, <2>1 DEF Message
  <2>3. op \in Allowed[t] /\ Direct(c, op, t)
    BY <1>6 DEF CallDirect, CanCall
  <2>4. CASE m \in fence_array[c]
    <3> DEFINE h == Message("FENCE", c, 0)
               u == <<h>>
    <3>1. Goto(c, "fence_master") /\ req' = [req EXCEPT ![c][m] = @ \o u]
      BY <1>6, <2>4 DEF CallDirect, nb_send, m
    <3>2. pc'[c] = "fence_master" /\ \A d \in Worker \ {c} : pc'[d] = pc[d]
      BY <1>2, <3>1 DEF Goto
    <3>3. Calls(c)'
      BY <2>2, <2>3, <3>2 DEF Calls, Direct
    <3>4. h \in ReqMsg /\ h.op = "FENCE" /\ Legal(h, c) /\ h.op \notin RMW
      BY DEF h, Message, ReqMsg, Legal, RMW, Op, Written, Fetched
    <3> HIDE DEF h
    <3>5. u \in Seq(ReqMsg) /\ \A i \in 1 .. Len(u) : u[i] = h
      BY <3>4
    <3> HIDE DEF u
    <3>6. QED
      BY <1>5, <2>2, <3>1, <3>2, <3>3, <3>4, <3>5
  <2>5. CASE m \notin fence_array[c]
    <3>1. Goto(c, "direct") /\ UNCHANGED <<req, fence_array, mem, serving, semaphores, tmp>>
      BY <1>6, <2>5 DEF CallDirect, m
    <3>2. pc'[c] = "direct" /\ \A d \in Worker \ {c} : pc'[d] = pc[d]
      BY <1>2, <3>1 DEF Goto
    <3>3. Calls(c)'
      BY <2>2, <2>3, <2>5, <3>1, <3>2 DEF Calls, Direct, m
    <3>4. \A n \in Master : Asked(c, n)'
      <4>1. \A n \in Master : Asked(c, n) /\ req'[c][n] = req[c][n]
        BY <1>1, <3>1
      <4>2. QED
        BY <1>3, <4>1, AskedSame
    <3>5. QED
      BY <1>3, <2>2, <3>1, <3>2, <3>3, <3>4, WorkerMeans
  <2>6. QED
    BY <2>4, <2>5
<1>7. ASSUME UNCHANGED <<pc, todo>>
      PROVE  /\ Calls(c)' /\ pc'[c] # "acc"
             /\ \A d \in Worker \ {c} : pc'[d] = pc[d] /\ todo'[d] = todo[d]
  BY <1>3, <1>7 DEF Calls, InShortcut
<1>8. ASSUME NEW op \in {"PUT", "ACC"}, CallWrite(c, op, t)
      PROVE  RInv'
  <2>1. PICK v \in Carried(op) : nb_send(c, MasterOf[t], PayloadMessages(Message(op, t, v)))
    BY <1>8 DEF CallWrite
  <2> DEFINE h == Message(op, t, v)
             u == PayloadMessages(h)
  <2>2. h \in ReqMsg /\ h.op = op /\ h.rank = t /\ op \in Written
    BY CarriedTyped DEF h, Message, ReqMsg, Op, Written
  <2>3. op \in Allowed[t] /\ UNCHANGED <<pc, todo>> /\ req' = [req EXCEPT ![c][m] = @ \o u]
    BY <1>8, <2>1 DEF CallWrite, CanCall, nb_send, m
  <2> HIDE DEF h
  <2>4. /\ u \in Seq(ReqMsg)
        /\ \A i \in 1 .. Len(u) : u[i].rank = t /\ u[i].op \in Written \cup {"DATA"}
        /\ u # << >> /\ u[1] = h /\ \A i \in 2 .. Len(u) : u[i].op = "DATA"
    BY <2>2, FramedPayload
  <2> HIDE DEF u
  <2>5. ASSUME NEW i \in 1 .. Len(u)
        PROVE  Legal(u[i], c) /\ u[i].op \notin RMW
    <3>1. i = 1 \/ i \in 2 .. Len(u)
      BY <2>4
    <3>2. u[i].op = op \/ u[i].op = "DATA"
      BY <2>2, <2>4, <3>1
    <3>3. QED
      BY <2>2, <2>3, <2>4, <3>2 DEF Legal, RMW, Op, Written, Fetched
  <2>6. QED
    BY <1>5, <1>7, <2>3, <2>4, <2>5
<1>9. CASE CallGet(c, t)
  <2> DEFINE h == Message("GET", t, 0)
             u == <<h>>
  <2>1. /\ "GET" \in Allowed[t] /\ ~Direct(c, "GET", t) /\ UNCHANGED <<pc, todo>>
        /\ req' = [req EXCEPT ![c][m] = @ \o u]
    BY <1>9 DEF CallGet, CanCall, nb_send, m
  <2>2. h \in ReqMsg /\ h.op = "GET" /\ Legal(h, c) /\ h.op \notin RMW
    BY <2>1 DEF h, Message, ReqMsg, Legal, RMW, Op, Written, Fetched
  <2> HIDE DEF h
  <2>3. u \in Seq(ReqMsg) /\ \A i \in 1 .. Len(u) : u[i] = h
    BY <2>2
  <2> HIDE DEF u
  <2>4. QED
    BY <1>5, <1>7, <2>1, <2>2, <2>3
<1>10. ASSUME NEW op \in RMW, comex_rmw(c, op, t)
       PROVE  RInv'
  <2>1. PICK v \in Carried(op) : nb_send(c, MasterOf[t], <<Message(op, t, v)>>)
    BY <1>10 DEF comex_rmw
  <2> DEFINE h == Message(op, t, v)
             u == <<h>>
  <2>2. /\ op \in Allowed[t] /\ todo' = [todo EXCEPT ![c] = Message(op, t, 0)] /\ Goto(c, "rmw")
        /\ req' = [req EXCEPT ![c][m] = @ \o u]
    BY <1>10, <2>1 DEF comex_rmw, CanCall, nb_send, m
  <2>3. /\ pc'[c] = "rmw" /\ todo'[c].rank = t
        /\ \A d \in Worker \ {c} : pc'[d] = pc[d] /\ todo'[d] = todo[d]
    BY <1>2, <2>2 DEF Goto, Message
  <2>4. Calls(c)'
    BY <2>3 DEF Calls, InShortcut
  <2>5. h \in ReqMsg /\ Legal(h, c)
    BY <2>2, CarriedTyped DEF h, Message, ReqMsg, Legal, RMW, Op, Written, Fetched
  <2> HIDE DEF h
  <2>6. u \in Seq(ReqMsg) /\ \A i \in 1 .. Len(u) : u[i] = h
    BY <2>5
  <2> HIDE DEF u
  <2>7. QED
    BY <1>5, <2>2, <2>3, <2>4, <2>5, <2>6 DEF m
<1>11. QED
  BY <1>6, <1>8, <1>9, <1>10 DEF Call, RMW

(* A process reads the location in an accumulate, or writes it.            *)
LEMMA ReadMeans ==
  ASSUME RInv, IInv', NEW p \in Worker \cup Master, NEW t \in Worker, AccRead(p, t),
         \A u \in Worker : semaphores[u] # p, "ACC" \in Allowed[t], UNCHANGED mem,
         Accumulates(p, t)',
         \A q, u : q # p /\ Accumulates(q, u) => Accumulates(q, u)',
         \A d \in Worker : Calls(d)', \A d \in Worker, n \in Master : Asked(d, n)',
         \A n \in Master : Serves(n)'
  PROVE  RInv'
<1>1. /\ semaphores \in [Worker -> Worker \cup Master \cup {NoRank}]
      /\ tmp \in [Worker \cup Master -> Nat]
  BY DEF RInv, IInv, Typed
<1>2. /\ semaphores'[t] = p /\ tmp'[p] = mem[t]
      /\ \A u \in Worker \ {t} : semaphores'[u] = semaphores[u]
      /\ \A q \in (Worker \cup Master) \ {p} : tmp'[q] = tmp[q]
  BY <1>1 DEF AccRead
<1>3. ASSUME NEW u \in Worker
      PROVE  Locked(u)'
  <2>1. CASE u = t
    BY <1>2, <2>1 DEF Locked
  <2>2. CASE u # t
    <3> SUFFICES ASSUME semaphores[u] # NoRank PROVE Locked(u)'
      BY <1>2, <2>2 DEF Locked
    <3>1. /\ semaphores'[u] = semaphores[u] /\ semaphores[u] \in (Worker \cup Master) \ {p}
          /\ Accumulates(semaphores[u], u) /\ tmp[semaphores[u]] = mem[u] /\ "ACC" \in Allowed[u]
      BY <1>1, <1>2, <2>2 DEF RInv, Locked
    <3>2. Accumulates(semaphores[u], u)' /\ tmp'[semaphores[u]] = mem'[u]
      BY <1>2, <3>1
    <3>3. QED
      BY <3>1, <3>2 DEF Locked, Accumulates
  <2>3. QED
    BY <2>1, <2>2
<1>4. QED
  BY <1>3 DEF RInv

(* An accumulate writes: nobody is in its middle any more.                 *)
LEMMA WriteMeans ==
  ASSUME RInv, IInv', NEW p \in Worker \cup Master, NEW t \in Worker, NEW v, AccWrite(p, t, v),
         \A u \in Worker \ {t} : semaphores[u] # p,
         \A q, u : q # p /\ Accumulates(q, u) => Accumulates(q, u)',
         \A d \in Worker : Calls(d)', \A d \in Worker, n \in Master : Asked(d, n)',
         \A n \in Master : Serves(n)'
  PROVE  RInv'
<1>1. /\ semaphores \in [Worker -> Worker \cup Master \cup {NoRank}]
      /\ tmp \in [Worker \cup Master -> Nat] /\ mem \in [Worker -> Nat]
  BY DEF RInv, IInv, Typed
<1>2. /\ semaphores'[t] = NoRank
      /\ \A u \in Worker \ {t} : semaphores'[u] = semaphores[u] /\ mem'[u] = mem[u]
      /\ \A q \in (Worker \cup Master) \ {p} : tmp'[q] = tmp[q]
  BY <1>1 DEF AccWrite
<1>3. ASSUME NEW u \in Worker
      PROVE  Locked(u)'
  <2>1. CASE u = t
    BY <1>2, <2>1 DEF Locked
  <2>2. CASE u # t
    <3> SUFFICES ASSUME semaphores[u] # NoRank PROVE Locked(u)'
      BY <1>2, <2>2 DEF Locked
    <3>1. /\ semaphores'[u] = semaphores[u] /\ semaphores[u] \in (Worker \cup Master) \ {p}
          /\ Accumulates(semaphores[u], u) /\ tmp[semaphores[u]] = mem[u] /\ "ACC" \in Allowed[u]
      BY <1>1, <1>2, <2>2 DEF RInv, Locked
    <3>2. Accumulates(semaphores[u], u)' /\ tmp'[semaphores[u]] = mem'[u]
      BY <1>2, <2>2, <3>1
    <3>3. QED
      BY <3>1, <3>2 DEF Locked, Accumulates
  <2>3. QED
    BY <2>1, <2>2
<1>4. QED
  BY <1>3 DEF RInv

(* No request of a worker is left whose receive has completed.             *)
LEMMA AllAnswered ==
  ASSUME NEW q \in Seq(ReqMsg), NEW p \in Seq(RepMsg), NEW r \in Seq(Recv), r = << >>, Matched(p, q, r)
  PROVE  \A i \in 1 .. Len(q) : q[i].op \notin RMW
<1>1. PICK off \in [1 .. (Len(q) + 1) -> 0 .. Len(r)] : Offsets(off, Len(p), q, r)
  BY DEF Matched
<1>2. Len(r) = 0 /\ Len(q) \in Nat
  OBVIOUS
<1>3. ASSUME NEW i \in 1 .. Len(q)
      PROVE  Answers(q[i]) = 0
  <2>1. /\ i \in 1 .. (Len(q) + 1) /\ i + 1 \in 1 .. (Len(q) + 1)
        /\ off[i + 1] = off[i] + Answers(q[i])
    BY <1>1, <1>2 DEF Offsets
  <2>2. off[i] = 0 /\ off[i + 1] = 0
    BY <1>1, <1>2, <2>1
  <2>3. q[i] \in ReqMsg /\ Answers(q[i]) \in Nat
    BY CountsTyped
  <2>4. QED
    BY <2>1, <2>2, <2>3
<1>4. QED
  BY <1>3 DEF Answers, RMW

(* A worker continues the call it is in.                                   *)
LEMMA ContinueMeans ==
  ASSUME RInv, IInv', NEW c \in Worker, Continue(c)
  PROVE  RInv'
<1>1. /\ Typed /\ Calls(c) /\ \A n \in Master : Asked(c, n)
      /\ pc \in [Worker -> Point] /\ todo \in [Worker -> Todo \cup {NoOp}]
      /\ fence_array \in [Worker -> SUBSET Master]
  BY DEF RInv, IInv, Typed
<1> DEFINE t == todo[c].rank
<1>2. CASE FenceMasterDone(c)
  <2>1. /\ pc'[c] = "direct" /\ \A d \in Worker \ {c} : pc'[d] = pc[d]
        /\ fence_array'[c] = fence_array[c] \ {MasterOf[t]}
        /\ \A d \in Worker \ {c} : fence_array'[d] = fence_array[d]
        /\ pc[c] = "fence_master"
        /\ UNCHANGED <<todo, serving, semaphores, tmp, req, mem>>
    BY <1>1, <1>2 DEF FenceMasterDone, Goto
  <2>2. Calls(c)'
    BY <1>1, <2>1 DEF Calls, InShortcut, Direct
  <2>3. pc[c] # "rmw" /\ pc[c] # "acc" /\ pc'[c] # "acc"
    BY <2>1
  <2>4. \A n \in Master : Asked(c, n)'
    BY <1>1, <2>1, <2>3, AskedSame
  <2>5. QED
    BY <2>1, <2>2, <2>3, <2>4, WorkerMeans
<1>3. ASSUME pc[c] \notin {"acc", "rmw"}, UNCHANGED <<serving, semaphores, tmp, fence_array, req>>,
             DirectDone(c), \A u \in Worker : semaphores[u] # NoRank => mem'[u] = mem[u]
      PROVE  RInv'
  <2>1. /\ pc'[c] = "ready" /\ \A d \in Worker \ {c} : pc'[d] = pc[d] /\ todo'[d] = todo[d]
        /\ pc[c] # "acc" /\ pc'[c] # "acc" /\ pc[c] # "rmw"
    BY <1>1, <1>3 DEF DirectDone, Goto
  <2>2. Calls(c)'
    BY <2>1 DEF Calls, InShortcut
  <2>3. \A n \in Master : Asked(c, n)'
    BY <1>1, <1>3, <2>1, AskedSame
  <2>4. QED
    BY <1>3, <2>1, <2>2, <2>3, WorkerMeans
<1>4. CASE DirectPut(c)
  <2>1. /\ UNCHANGED <<serving, semaphores, tmp, fence_array, req>> /\ DirectDone(c)
        /\ mem' = [mem EXCEPT ![t] = todo[c].val] /\ pc[c] = "direct" /\ todo[c].op = "PUT"
    BY <1>4 DEF DirectPut
  <2>2. t \in Worker /\ "PUT" \in Allowed[t]
    <3>1. todo[c] # NoOp
      BY <1>1, <2>1 DEF Typed, InShortcut
    <3>2. QED
      BY <1>1, <2>1, <3>1 DEF Calls, InShortcut, Todo
  <2>3. semaphores[t] = NoRank
    BY <2>2, Apart DEF RInv, Locked
  <2>4. \A u \in Worker : semaphores[u] # NoRank => mem'[u] = mem[u]
    BY <1>1, <2>1, <2>3 DEF Typed
  <2>5. QED
    BY <1>3, <2>1, <2>4
<1>5. CASE DirectGet(c)
  BY <1>3, <1>5 DEF DirectGet
<1>6. CASE RmwDone(c)
  <2>1. /\ pc[c] = "rmw" /\ posted[c][MasterOf[t]] = << >> /\ DirectDone(c)
        /\ UNCHANGED <<serving, semaphores, tmp, fence_array, req, mem>>
    BY <1>6 DEF RmwDone
  <2>2. /\ pc'[c] = "ready" /\ \A d \in Worker \ {c} : pc'[d] = pc[d] /\ todo'[d] = todo[d]
        /\ pc[c] # "acc" /\ pc'[c] # "acc"
    BY <1>1, <2>1 DEF DirectDone, Goto
  <2>3. Calls(c)'
    BY <2>2 DEF Calls, InShortcut
  <2>4. ASSUME NEW n \in Master
        PROVE  Asked(c, n)'
    <3>1. /\ req[c][n] \in Seq(ReqMsg) /\ rep[c][n] \in Seq(RepMsg) /\ posted[c][n] \in Seq(Recv)
          /\ Matched(rep[c][n], req[c][n], posted[c][n]) /\ Asked(c, n)
      BY <1>1 DEF RInv, IInv, Channel, Typed
    <3>2. \A i \in 1 .. Len(req[c][n]) : req[c][n][i].op \notin RMW
      <4>1. CASE n = MasterOf[t]
        BY <2>1, <3>1, <4>1, AllAnswered
      <4>2. CASE n # MasterOf[t]
        BY <3>1, <4>2 DEF Asked
      <4>3. QED
        BY <4>1, <4>2
    <3>3. QED
      BY <2>1, <3>1, <3>2 DEF Asked, Legal
  <2>5. QED
    BY <2>1, <2>2, <2>3, <2>4, WorkerMeans
<1>7. CASE FenceAllDone(c)
  <2>1. /\ pc'[c] \in {"ready", "barrier"} /\ \A d \in Worker \ {c} : pc'[d] = pc[d]
        /\ \A d \in Worker \ {c} : fence_array'[d] = fence_array[d]
        /\ pc[c] \in {"fence_all", "barrier_fence"}
        /\ UNCHANGED <<todo, serving, semaphores, tmp, req, mem>>
    BY <1>1, <1>7 DEF FenceAllDone, Goto
  <2>2. Calls(c)' /\ pc[c] # "acc" /\ pc'[c] # "acc" /\ pc[c] # "rmw"
    BY <2>1 DEF Calls, InShortcut
  <2>3. \A n \in Master : Asked(c, n)'
    BY <1>1, <2>1, <2>2, AskedSame
  <2>4. QED
    BY <2>1, <2>2, <2>3, WorkerMeans
<1>8. ASSUME pc[c] \in {"direct", "acc"}
      PROVE  /\ t \in Worker /\ c \notin Master /\ Calls(c)
             /\ \A u \in Worker : Accumulates(c, u) => pc[c] = "acc" /\ u = t
  <2>1. todo[c] # NoOp
    BY <1>1, <1>8 DEF Typed, InShortcut
  <2>2. c \notin Master
    BY OneSidedAssumption DEF OneSidedAssumption
  <2>3. QED
    BY <1>1, <2>1, <2>2 DEF Todo, Accumulates
<1>9. ASSUME UNCHANGED <<req, serving>>, \A d \in Worker \ {c} : pc'[d] = pc[d] /\ todo'[d] = todo[d],
             pc[c] # "rmw"
      PROVE  /\ \A d \in Worker, n \in Master : Asked(d, n)'
             /\ \A n \in Master : Serves(n)'
             /\ \A q, u : q # c /\ Accumulates(q, u) => Accumulates(q, u)'
  <2>1. ASSUME NEW d \in Worker, NEW n \in Master
        PROVE  Asked(d, n)'
    <3>1. Asked(d, n) /\ req'[d][n] = req[d][n] /\ (pc[d] # "rmw" \/ (pc'[d] = pc[d] /\ todo'[d] = todo[d]))
      BY <1>9 DEF RInv
    <3>2. QED
      BY <3>1, AskedSame
  <2>2. \A n \in Master : Serves(n)'
    BY <1>9 DEF RInv, Serves
  <2>3. \A q, u : q # c /\ Accumulates(q, u) => Accumulates(q, u)'
    BY <1>9 DEF Accumulates, HasPayload
  <2>4. QED
    BY <2>1, <2>2, <2>3
<1>10. CASE DirectAccRead(c)
  <2>1. /\ pc[c] = "direct" /\ todo[c].op = "ACC" /\ AccRead(c, t) /\ Goto(c, "acc")
        /\ UNCHANGED <<todo, fence_array, req, serving, mem>>
    BY <1>10 DEF DirectAccRead
  <2>2. /\ pc'[c] = "acc" /\ \A d \in Worker \ {c} : pc'[d] = pc[d] /\ todo'[d] = todo[d]
        /\ pc[c] # "rmw" /\ pc[c] # "acc" /\ pc[c] \in {"direct", "acc"}
    BY <1>1, <2>1 DEF Goto
  <2>3. t \in Worker /\ "ACC" \in Allowed[t] /\ Accumulates(c, t)'
    BY <1>8, <2>1, <2>2 DEF Calls, InShortcut, Accumulates
  <2>4. \A u \in Worker : semaphores[u] # c
    BY <1>8, <2>2, ConstantsTyped DEF RInv, Locked
  <2>5. semaphores[t] = NoRank /\ semaphores'[t] = c /\ \A u \in Worker \ {t} : semaphores'[u] = semaphores[u]
    BY <1>1, <2>1, <2>3 DEF AccRead, Typed
  <2>6. ASSUME NEW d \in Worker
        PROVE  Calls(d)'
    <3>1. CASE d = c
      BY <1>1, <2>1, <2>2, <2>5, <3>1 DEF Calls, InShortcut, Direct
    <3>2. CASE d # c
      <4>1. Calls(d) /\ pc'[d] = pc[d] /\ todo'[d] = todo[d] /\ fence_array'[d] = fence_array[d]
        BY <2>1, <2>2, <3>2 DEF RInv
      <4>2. pc[d] = "acc" => semaphores'[todo[d].rank] = d
        <5> SUFFICES ASSUME pc[d] = "acc" PROVE semaphores'[todo[d].rank] = d
          OBVIOUS
        <5>1. todo[d] \in Todo
          BY <1>1 DEF Typed, InShortcut
        <5>2. semaphores[todo[d].rank] = d /\ d # NoRank
          BY <4>1, ConstantsTyped DEF Calls
        <5>3. QED
          BY <2>5, <5>1, <5>2 DEF Todo
      <4>3. QED
        BY <4>1, <4>2 DEF Calls, Direct
    <3>3. QED
      BY <3>1, <3>2
  <2>7. QED
    BY <1>9, <2>1, <2>2, <2>3, <2>4, <2>6, ReadMeans
<1>11. CASE DirectAccWrite(c)
  <2>1. /\ pc[c] = "acc" /\ AccWrite(c, t, todo[c].val) /\ DirectDone(c)
        /\ UNCHANGED <<fence_array, req, serving>>
    BY <1>11 DEF DirectAccWrite
  <2>2. /\ pc'[c] = "ready" /\ \A d \in Worker \ {c} : pc'[d] = pc[d] /\ todo'[d] = todo[d]
        /\ pc[c] # "rmw" /\ pc[c] \in {"direct", "acc"}
    BY <1>1, <2>1 DEF DirectDone, Goto
  <2>3. t \in Worker /\ semaphores[t] = c
    BY <1>8, <2>1, <2>2 DEF Calls
  <2>4. \A u \in Worker \ {t} : semaphores[u] # c
    BY <1>8, <2>2, ConstantsTyped DEF RInv, Locked
  <2>5. \A u \in Worker \ {t} : semaphores'[u] = semaphores[u]
    BY <1>1, <2>1, <2>3 DEF AccWrite, Typed
  <2>6. ASSUME NEW d \in Worker
        PROVE  Calls(d)'
    <3>1. CASE d = c
      BY <2>2, <3>1 DEF Calls, InShortcut
    <3>2. CASE d # c
      <4>1. Calls(d) /\ pc'[d] = pc[d] /\ todo'[d] = todo[d] /\ fence_array'[d] = fence_array[d]
        BY <2>1, <2>2, <3>2 DEF RInv
      <4>2. pc[d] = "acc" => semaphores'[todo[d].rank] = d
        <5> SUFFICES ASSUME pc[d] = "acc" PROVE semaphores'[todo[d].rank] = d
          OBVIOUS
        <5>1. todo[d] \in Todo
          BY <1>1 DEF Typed, InShortcut
        <5>2. semaphores[todo[d].rank] = d
          BY <4>1 DEF Calls
        <5>3. QED
          BY <2>3, <2>5, <3>2, <5>1, <5>2 DEF Todo
      <4>3. QED
        BY <4>1, <4>2 DEF Calls, Direct
    <3>3. QED
      BY <3>1, <3>2
  <2>7. QED
    BY <1>9, <2>1, <2>2, <2>3, <2>4, <2>6, WriteMeans
<1>12. QED
  BY <1>2, <1>4, <1>5, <1>6, <1>7, <1>10, <1>11 DEF Continue

(* A worker fences, or a receive of it completes.                          *)
LEMMA FenceMeans ==
  ASSUME RInv, IInv', NEW c \in Worker, comex_fence_all(c) \/ comex_barrier(c)
  PROVE  RInv'
<1> DEFINE h == Message("FENCE", c, 0)
<1>1. /\ Typed /\ \A n \in Master : Asked(c, n)
      /\ pc \in [Worker -> Point] /\ req \in [Worker -> [Master -> Seq(ReqMsg)]]
  BY DEF RInv, IInv, Typed
<1>2. /\ pc[c] = "ready" /\ UNCHANGED <<todo, fence_array, serving, mem, semaphores, tmp>>
      /\ \E x, y \in {"fence_all", "barrier_fence", "ready", "barrier"} : FenceAll(c, x, y)
  BY DEF comex_fence_all, comex_barrier
<1>3. PICK x, y \in {"fence_all", "barrier_fence", "ready", "barrier"} : FenceAll(c, x, y)
  BY <1>2
<1>4. /\ pc'[c] \in {"fence_all", "barrier_fence", "ready", "barrier"}
      /\ \A d \in Worker \ {c} : pc'[d] = pc[d] /\ req'[d] = req[d]
      /\ \A n \in Master : req'[c][n] = IF n \in fence_array[c] THEN Append(req[c][n], h) ELSE req[c][n]
  BY <1>1, <1>3 DEF FenceAll, Goto
<1>5. pc[c] # "acc" /\ pc'[c] # "acc" /\ pc[c] # "rmw" /\ Calls(c)'
  BY <1>2, <1>4 DEF Calls, InShortcut
<1>6. h \in ReqMsg /\ Legal(h, c) /\ h.op \notin RMW
  BY DEF h, Message, ReqMsg, Legal, RMW, Op, Written, Fetched
<1> HIDE DEF h
<1>7. ASSUME NEW n \in Master
      PROVE  Asked(c, n)'
  <2>1. CASE n \notin fence_array[c]
    <3>1. Asked(c, n) /\ req'[c][n] = req[c][n]
      BY <1>1, <1>4, <2>1
    <3>2. QED
      BY <1>5, <3>1, AskedSame
  <2>2. CASE n \in fence_array[c]
    <3> DEFINE u == <<h>>
    <3>1. /\ Asked(c, n) /\ req[c][n] \in Seq(ReqMsg) /\ u \in Seq(ReqMsg)
          /\ \A i \in 1 .. Len(u) : u[i] = h
      BY <1>1, <1>6
    <3>2. req'[c][n] = req[c][n] \o u
      <4>1. \A q \in Seq(ReqMsg) : Append(q, h) = q \o u
        BY <1>6
      <4>2. QED
        BY <1>4, <2>2, <3>1, <4>1
    <3> HIDE DEF u
    <3>3. QED
      BY <1>5, <1>6, <3>1, <3>2, AskedMore
  <2>3. QED
    BY <2>1, <2>2
<1>8. QED
  BY <1>2, <1>4, <1>5, <1>7, WorkerMeans

(* A worker receives an answer.                                            *)
LEMMA RecvMeans ==
  ASSUME RInv, IInv', NEW c \in Worker, NEW m \in Master, RecvReply(c, m)
  PROVE  RInv'
<1>1. UNCHANGED <<pc, todo, tmp, fence_array, req, serving, mem, semaphores>>
  BY DEF RecvReply
<1>2. (\A d \in Worker : Calls(d)') /\ (\A d \in Worker, n \in Master : Asked(d, n)')
  BY <1>1 DEF RInv, Calls, Asked
<1>3. (\A n \in Master : Serves(n)') /\ (\A t \in Worker : Locked(t)')
  BY <1>1 DEF RInv, Serves, Locked, Accumulates, HasPayload
<1>4. QED
  BY <1>2, <1>3 DEF RInv

(* The progress rank takes a message.                                      *)
LEMMA ProgressMeans ==
  ASSUME RInv, IInv', NEW c \in Worker, NEW m \in Master, progress_server(m, c)
  PROVE  RInv'
<1> DEFINE h == req[c][m][1]
<1>1. req[c][m] # << >> /\ TakeFrom(m, c) /\ UNCHANGED <<pc, todo, fence_array, semaphores, tmp>>
  BY DEF progress_server, WriteBegin, server_recv, get_handler, rmw_handler, fence_handler, Pending
<1>2. /\ Head(req[c][m]) = h /\ h \in ReqMsg /\ req[c][m] \in Seq(ReqMsg)
      /\ req \in [Worker -> [Master -> Seq(ReqMsg)]]
      /\ serving \in [Master -> Busy \cup {Idle}] /\ mem \in [Worker -> Nat]
      /\ 1 \in 1 .. Len(req[c][m])
  BY <1>1, HeadTyped DEF RInv, IInv, Typed
<1>3. Legal(h, c) /\ (h.op # "FENCE" => MasterOf[h.rank] = m)
  BY <1>2 DEF RInv, IInv, Asked, Channel
<1> HIDE DEF h
<1>4. ASSUME NEW d \in Worker, NEW n \in Master
      PROVE  Asked(d, n)'
  <2>1. Asked(d, n)
    BY DEF RInv
  <2>2. CASE d = c /\ n = m
    <3>1. req'[c][m] = Tail(req[c][m])
      BY <1>1, <1>2 DEF TakeFrom
    <3>2. QED
      BY <1>1, <1>2, <2>1, <2>2, <3>1, AskedLess
  <2>3. CASE d # c \/ n # m
    <3>1. req'[d][n] = req[d][n]
      BY <1>1, <1>2, <2>3 DEF TakeFrom
    <3>2. QED
      BY <1>1, <2>1, <3>1, AskedSame
  <2>4. QED
    BY <2>2, <2>3
<1>5. ASSUME serving[m] = Idle \/ serving[m].left > 0
      PROVE  \A t \in Worker : semaphores[t] # m
  <2>1. ~HasPayload(m, "ACC")
    BY <1>2, <1>5 DEF HasPayload, Idle, NoOp, Message, Busy
  <2>2. m # NoRank /\ m \notin Worker
    BY ConstantsTyped, OneSidedAssumption DEF OneSidedAssumption
  <2>3. QED
    BY <2>1, <2>2 DEF RInv, Locked, Accumulates
<1>6. CASE WriteBegin(m, c)
  <2>1. /\ h.op \in Written /\ serving[m] = Idle /\ UNCHANGED mem
        /\ serving' = [serving EXCEPT ![m] = [src |-> c, msg |-> h, left |-> Following(h)]]
    BY <1>2, <1>6 DEF WriteBegin, Pending, Begin, Following
  <2>2. Serves(m)' /\ \A n \in Master \ {m} : serving'[n] = serving[n]
    BY <1>2, <1>3, <2>1 DEF Serves, Legal, Written, Op
  <2>3. QED
    BY <1>1, <1>4, <1>5, <2>1, <2>2, ServerMeans
<1>7. CASE server_recv(m, c)
  <2>1. /\ serving[m].src = c /\ serving[m].left > 0 /\ UNCHANGED mem /\ serving[m] \in Busy
    BY <1>2, <1>7, ConstantsTyped DEF server_recv, Idle
  <2>2. /\ serving'[m].msg.op = serving[m].msg.op /\ serving'[m].msg.rank = serving[m].msg.rank
        /\ \A n \in Master \ {m} : serving'[n] = serving[n]
    BY <1>2, <1>7 DEF server_recv, Message
  <2>3. Serves(m) /\ serving[m] # Idle
    BY <2>1, ConstantsTyped DEF RInv, Idle
  <2>4. Serves(m)'
    BY <2>2, <2>3 DEF Serves
  <2>5. QED
    BY <1>1, <1>4, <1>5, <2>1, <2>2, <2>4, ServerMeans
<1>8. ASSUME serving[m] = Idle, UNCHANGED serving,
             \A u \in Worker : semaphores[u] # NoRank => mem'[u] = mem[u]
      PROVE  RInv'
  <2>1. Serves(m)'
    BY <1>8 DEF Serves
  <2>2. QED
    BY <1>1, <1>4, <1>5, <1>8, <2>1, ServerMeans
<1>9. CASE get_handler(m, c) \/ fence_handler(m, c)
  BY <1>8, <1>9 DEF get_handler, fence_handler, Pending
<1>10. CASE rmw_handler(m, c)
  <2>1. /\ h.op \in RMW /\ serving[m] = Idle /\ UNCHANGED serving
        /\ \E v : mem' = [mem EXCEPT ![h.rank] = v]
    BY <1>2, <1>10 DEF rmw_handler, Pending, RMW
  <2>2. semaphores[h.rank] = NoRank
    <3>1. h.rank \in Worker /\ h.op \in Allowed[h.rank]
      BY <1>2, <1>3, <2>1 DEF ReqMsg, Legal, Op, Fetched, RMW
    <3>2. QED
      BY <2>1, <3>1, Apart DEF RInv, Locked
  <2>3. \A u \in Worker : semaphores[u] # NoRank => mem'[u] = mem[u]
    BY <1>2, <2>1, <2>2
  <2>4. QED
    BY <1>8, <2>1, <2>3
<1>11. QED
  BY SMTT(30), <1>6, <1>7, <1>9, <1>10 DEF progress_server

(* The progress rank goes on with a put or an accumulate.                  *)
LEMMA HandleMeans ==
  ASSUME RInv, IInv', NEW m \in Master, Handle(m)
  PROVE  RInv'
<1> DEFINE t == serving[m].msg.rank
<1>1. /\ UNCHANGED <<pc, todo, fence_array, req>> /\ serving[m].msg.op \in Written /\ serving[m].left = 0
      /\ serving \in [Master -> Busy \cup {Idle}] /\ mem \in [Worker -> Nat]
      /\ semaphores \in [Worker -> Worker \cup Master \cup {NoRank}]
  BY DEF Handle, PutEnd, HandlerAccRead, HandlerAccWrite, HasPayload, Written, RInv, IInv, Typed
<1>2. serving[m] # Idle
  BY <1>1 DEF Written, Idle, NoOp, Message
<1>3. /\ t \in Worker /\ serving[m].msg.op \in Allowed[t] /\ m # NoRank /\ m \notin Worker
  BY <1>1, <1>2, ConstantsTyped, OneSidedAssumption DEF OneSidedAssumption, Busy, RInv, Serves
<1>4. \A d \in Worker, n \in Master : Asked(d, n)'
  BY <1>1 DEF RInv, Asked
<1>5. \A u \in Worker : semaphores[u] = m => HasPayload(m, "ACC") /\ u = t
  BY <1>3 DEF RInv, Locked, Accumulates
<1>6. ASSUME NEW d \in Worker, \A u \in Worker : semaphores[u] = d => semaphores'[u] = d
      PROVE  Calls(d)'
  <2>1. Calls(d) /\ todo \in [Worker -> Todo \cup {NoOp}] /\ (pc[d] = "acc" => todo[d] # NoOp)
    BY DEF RInv, IInv, Typed, InShortcut
  <2>2. pc[d] = "acc" => semaphores'[todo[d].rank] = d
    BY <1>6, <2>1 DEF Calls, Todo
  <2>3. QED
    BY <1>1, <2>1, <2>2 DEF Calls, Direct
<1>7. CASE PutEnd(m)
  <2>1. /\ serving[m].msg.op = "PUT" /\ \E v : mem' = [mem EXCEPT ![t] = v]
        /\ serving' = [serving EXCEPT ![m] = Idle] /\ UNCHANGED <<semaphores, tmp>>
    BY <1>7 DEF PutEnd, HasPayload
  <2>2. Serves(m)' /\ \A n \in Master \ {m} : serving'[n] = serving[n]
    BY <1>1, <2>1 DEF Serves
  <2>3. \A u \in Worker : semaphores[u] # m
    BY <1>5, <2>1 DEF HasPayload
  <2>4. semaphores[t] = NoRank
    BY <1>3, <2>1, Apart DEF RInv, Locked
  <2>5. \A u \in Worker : semaphores[u] # NoRank => mem'[u] = mem[u]
    BY <1>1, <2>1, <2>4
  <2>6. QED
    BY <1>1, <1>4, <2>1, <2>2, <2>3, <2>5, ServerMeans
<1>8. CASE HandlerAccRead(m)
  <2>1. /\ HasPayload(m, "ACC") /\ semaphores[t] # m /\ AccRead(m, t) /\ UNCHANGED <<serving, mem>>
    BY <1>8 DEF HandlerAccRead
  <2>2. \A u \in Worker : semaphores[u] # m
    BY <1>5, <2>1
  <2>3. "ACC" \in Allowed[t]
    BY <1>3, <2>1 DEF HasPayload
  <2>4. /\ Accumulates(m, t)' /\ \A q, u : q # m /\ Accumulates(q, u) => Accumulates(q, u)'
        /\ \A n \in Master : Serves(n)'
    BY <1>1, <2>1 DEF Accumulates, HasPayload, RInv, Serves
  <2>5. \A d \in Worker : Calls(d)'
    <3>1. semaphores[t] = NoRank /\ \A u \in Worker \ {t} : semaphores'[u] = semaphores[u]
      BY <1>1, <1>3, <2>1 DEF AccRead
    <3>2. \A d \in Worker : d # NoRank
      BY ConstantsTyped
    <3>3. QED
      BY <1>6, <3>1, <3>2
  <2>6. QED
    BY <1>3, <1>4, <2>1, <2>2, <2>3, <2>4, <2>5, ReadMeans
<1>9. CASE HandlerAccWrite(m)
  <2>1. /\ HasPayload(m, "ACC") /\ semaphores[t] = m /\ AccWrite(m, t, serving[m].msg.val)
        /\ serving' = [serving EXCEPT ![m] = Idle]
    BY <1>9 DEF HandlerAccWrite
  <2>2. \A u \in Worker \ {t} : semaphores[u] # m
    BY <1>5
  <2>3. serving'[m] = Idle /\ \A n \in Master \ {m} : serving'[n] = serving[n]
    BY <1>1, <2>1
  <2>4. /\ \A q, u : q # m /\ Accumulates(q, u) => Accumulates(q, u)'
        /\ \A n \in Master : Serves(n)'
    BY <1>1, <2>3 DEF Accumulates, HasPayload, RInv, Serves
  <2>5. \A d \in Worker : Calls(d)'
    <3>1. \A u \in Worker \ {t} : semaphores'[u] = semaphores[u]
      BY <1>1, <1>3, <2>1 DEF AccWrite
    <3>2. QED
      BY <1>3, <1>6, <2>1, <3>1
  <2>6. QED
    BY <1>3, <1>4, <2>1, <2>2, <2>4, <2>5, WriteMeans
<1>10. QED
  BY <1>7, <1>8, <1>9 DEF Handle

(* The invariant of the refinement.                                        *)
LEMMA MeaningInit == Init => RInv
<1> SUFFICES ASSUME Init PROVE RInv
  OBVIOUS
<1>1. \A c \in Worker : Calls(c)
  BY DEF Init, Calls, InShortcut
<1>2. \A c \in Worker, m \in Master : Asked(c, m)
  BY DEF Init, Asked
<1>3. (\A m \in Master : Serves(m)) /\ (\A t \in Worker : Locked(t))
  BY DEF Init, Serves, Locked
<1>4. QED
  BY <1>1, <1>2, <1>3, InvariantInit DEF RInv

(* Every step keeps it.                                                    *)
LEMMA MeaningStep == RInv /\ [Next]_vars => RInv'
<1> SUFFICES ASSUME RInv, [Next]_vars PROVE RInv'
  OBVIOUS
<1>1. IInv'
  BY InvariantStep DEF RInv
<1>2. CASE UNCHANGED vars
  <2>1. UNCHANGED <<pc, todo, tmp, fence_array, req, serving, mem, semaphores>>
    BY <1>2 DEF vars
  <2>2. (\A d \in Worker : Calls(d)') /\ (\A d \in Worker, n \in Master : Asked(d, n)')
    BY <2>1 DEF RInv, Calls, Asked
  <2>3. (\A n \in Master : Serves(n)') /\ (\A t \in Worker : Locked(t)')
    BY <2>1 DEF RInv, Serves, Locked, Accumulates, HasPayload
  <2>4. QED
    BY <1>1, <2>2, <2>3 DEF RInv
<1>3. CASE MPI_Barrier
  <2>1. /\ UNCHANGED <<todo, tmp, fence_array, req, serving, mem, semaphores>>
        /\ \A c \in Worker : pc[c] = "barrier" /\ pc'[c] = "ready"
    BY <1>3 DEF MPI_Barrier
  <2>2. \A d \in Worker : Calls(d)'
    BY <2>1 DEF Calls, InShortcut
  <2>3. \A d \in Worker, n \in Master : Asked(d, n)'
    BY <2>1 DEF RInv, Asked, Legal
  <2>4. (\A n \in Master : Serves(n)') /\ (\A t \in Worker : Locked(t)')
    BY <2>1 DEF RInv, Serves, Locked, Accumulates, HasPayload
  <2>5. QED
    BY <1>1, <2>2, <2>3, <2>4 DEF RInv
<1>4. QED
  BY <1>1, <1>2, <1>3, CallMeans, ContinueMeans, FenceMeans, RecvMeans, ProgressMeans, HandleMeans DEF Next

-----------------------------------------------------------------------------
(* What the steps of the runtime make of the operations and the answers.   *)

(* The operations of c for the location of t that a master in state s with *)
(* queue q has.                                                            *)
Line(s, q, c, t) == Operations((IF s.src = c THEN <<s.msg>> ELSE << >>) \o q, t)

(* The one in its hands.                                                   *)
Held(s, c, t) == IF s.src = c THEN Operation(s.msg, t) ELSE << >>

(* The message in the hands of the master comes first.                     *)
LEMMA LineIs ==
  ASSUME NEW s \in Busy \cup {Idle}, NEW q \in Seq(ReqMsg), NEW c \in Worker, NEW t
  PROVE  /\ Line(s, q, c, t) = Held(s, c, t) \o Operations(q, t)
         /\ Held(s, c, t) \in Seq(Item) /\ Operations(q, t) \in Seq(Item)
         /\ Line(s, q, c, t) \in Seq(Item)
<1>1. Operations(q, t) \in Seq(Item)
  BY OperationsIs
<1>2. CASE s.src = c
  <2>1. s.msg \in ReqMsg
    <3>1. s # Idle
      BY <1>2, ConstantsTyped DEF Idle
    <3>2. QED
      BY <3>1 DEF Busy, ReqMsg, Op
  <2> DEFINE u == <<s.msg>>
  <2>2. u \in Seq(ReqMsg) /\ Operations(u, t) = Operation(s.msg, t) /\ Operations(u, t) \in Seq(Item)
    <3>1. u \in Seq(ReqMsg)
      BY <2>1
    <3>2. Operations(u, t) = Operation(s.msg, t)
      BY <2>1, OperationsOne
    <3> HIDE DEF u
    <3>3. Operations(u, t) \in Seq(Item)
      BY <3>1, OperationsIs
    <3>4. QED
      BY <3>1, <3>2, <3>3
  <2>3. Line(s, q, c, t) = Operations(u \o q, t) /\ Held(s, c, t) = Operation(s.msg, t)
    BY <1>2 DEF Line, Held
  <2> HIDE DEF u
  <2>4. Line(s, q, c, t) = Operations(u, t) \o Operations(q, t)
    BY <2>2, <2>3, OperationsConcat
  <2> DEFINE a == Operations(u, t)
             b == Operations(q, t)
  <2>5. a \in Seq(Item) /\ b \in Seq(Item) /\ Line(s, q, c, t) = a \o b /\ Held(s, c, t) = a
    BY <1>1, <2>2, <2>3, <2>4
  <2> HIDE DEF a, b
  <2>6. a \o b \in Seq(Item)
    BY <2>5, ConcatElements
  <2>7. QED
    BY <2>5, <2>6 DEF b
<1>3. CASE s.src # c
  <2>1. << >> \o q = q
    OBVIOUS
  <2>2. Line(s, q, c, t) = Operations(q, t) /\ Held(s, c, t) = << >>
    BY <1>3, <2>1 DEF Line, Held
  <2>3. \A a \in Seq(Item) : << >> \o a = a /\ << >> \in Seq(Item)
    OBVIOUS
  <2>4. QED
    BY <1>1, <2>2, <2>3
<1>4. QED
  BY <1>2, <1>3

(* A message is sent.                                                      *)
LEMMA LineSend ==
  ASSUME NEW s \in Busy \cup {Idle}, NEW q \in Seq(ReqMsg), NEW u \in Seq(ReqMsg),
         NEW c \in Worker, NEW t, NEW w, Prolongs(w, q, u)
  PROVE  Prolongs(Line(s, w, c, t), Line(s, q, c, t), Operations(u, t))
<1> DEFINE a == Held(s, c, t)
           b == Operations(q, t)
           d == Operations(u, t)
<1>1. /\ Line(s, q, c, t) = a \o b /\ a \in Seq(Item) /\ b \in Seq(Item) /\ d \in Seq(Item)
      /\ w \in Seq(ReqMsg)
  BY LineIs, OperationsIs, ConcatElements DEF Prolongs
<1>2. Operations(w, t) = b \o d
  BY OperationsConcat DEF Prolongs
<1> HIDE DEF a, b, d
<1>3. Line(s, w, c, t) = a \o (b \o d)
  <2>1. Line(s, w, c, t) = a \o Operations(w, t)
    BY <1>1, LineIs DEF a
  <2>2. QED
    BY <1>2, <2>1
<1>4. a \o (b \o d) = (a \o b) \o d
  <2>1. \A x, y, z \in Seq(Item) : (x \o y) \o z = x \o (y \o z)
    BY SMTT(60), ConcatThree
  <2>2. QED
    BY <1>1, <2>1
<1>5. QED
  BY <1>1, <1>3, <1>4 DEF d, Prolongs

(* A handler takes the header of a put or an accumulate, or a chunk of it, *)
(* and is done with it.                                                    *)
LEMMA LineHold ==
  ASSUME NEW s \in Busy \cup {Idle}, NEW s2 \in Busy \cup {Idle}, NEW q \in Seq(ReqMsg), q # << >>,
         NEW c \in Worker, NEW t, s2.src = c,
         \/ s.src # c /\ s2.msg = q[1]
         \/ s.src = c /\ s2.msg = s.msg /\ q[1].op = "DATA"
  PROVE  Line(s2, Tail(q), c, t) = Line(s, q, c, t)
<1> DEFINE a == Operation(q[1], t)
           b == Operations(Tail(q), t)
           d == Held(s, c, t)
           e == Held(s2, c, t)
<1>1. Tail(q) \in Seq(ReqMsg) /\ q[1] \in ReqMsg
  BY TailElements
<1>2. /\ Line(s, q, c, t) = d \o (a \o b) /\ Line(s2, Tail(q), c, t) = e \o b
      /\ b \in Seq(Item) /\ d \in Seq(Item)
  <2> HIDE DEF a
  <2>1. Line(s, q, c, t) = d \o Operations(q, t) /\ d \in Seq(Item)
    BY LineIs
  <2>2. Operations(q, t) = a \o b
    BY OperationsTail DEF a
  <2>3. Line(s2, Tail(q), c, t) = e \o b /\ b \in Seq(Item)
    BY ZenonT(60), <1>1, LineIs
  <2>4. QED
    BY <2>1, <2>2, <2>3
<1>3. CASE s.src # c /\ s2.msg = q[1]
  <2>1. d = << >> /\ e = a
    BY <1>3 DEF Held
  <2>2. a \o b \in Seq(Item)
    BY <1>2, OperationsIs, OperationsTail
  <2> HIDE DEF a, b, d, e
  <2>3. << >> \o (a \o b) = a \o b
    BY <2>2
  <2>4. QED
    BY <1>2, <2>1, <2>3
<1>4. CASE s.src = c /\ s2.msg = s.msg /\ q[1].op = "DATA"
  <2>1. a = << >> /\ e = d
    BY <1>4 DEF Held, Operation, Op, Written, Fetched
  <2> HIDE DEF a, b, d, e
  <2>2. << >> \o b = b
    BY <1>2
  <2>3. QED
    BY <1>2, <2>1, <2>2
<1>5. QED
  BY <1>3, <1>4

(* A message is taken whose worker the handler does not serve.             *)
LEMMA LineTake ==
  ASSUME NEW s \in Busy \cup {Idle}, NEW q \in Seq(ReqMsg), q # << >>, NEW c \in Worker, NEW t, s.src # c
  PROVE  /\ Line(s, q, c, t) = Operation(q[1], t) \o Line(s, Tail(q), c, t)
         /\ Line(s, Tail(q), c, t) \in Seq(Item)
<1> DEFINE a == Operation(q[1], t)
           b == Operations(Tail(q), t)
<1>1. Tail(q) \in Seq(ReqMsg) /\ q[1] \in ReqMsg /\ Held(s, c, t) = << >>
  BY TailElements DEF Held
<1>2. Line(s, q, c, t) = << >> \o (a \o b) /\ Line(s, Tail(q), c, t) = << >> \o b /\ b \in Seq(Item)
  <2> HIDE DEF a
  <2>1. Line(s, q, c, t) = Held(s, c, t) \o Operations(q, t)
    BY LineIs
  <2>2. Operations(q, t) = a \o b
    BY OperationsTail DEF a
  <2>3. Line(s, Tail(q), c, t) = Held(s, c, t) \o b /\ b \in Seq(Item)
    BY <1>1, LineIs
  <2>4. QED
    BY <1>1, <2>1, <2>2, <2>3
<1>3. a \o b \in Seq(Item)
  BY OperationsIs, OperationsTail
<1> HIDE DEF a, b
<1>4. << >> \o (a \o b) = a \o b /\ << >> \o b = b
  BY <1>2, <1>3
<1>5. QED
  BY <1>2, <1>4 DEF a

(* The handler is done with a put or an accumulate.                        *)
LEMMA LineDone ==
  ASSUME NEW s \in Busy \cup {Idle}, NEW q \in Seq(ReqMsg), NEW c \in Worker, NEW t
  PROVE  /\ Line(s, q, c, t) = Held(s, c, t) \o Line(Idle, q, c, t)
         /\ Line(Idle, q, c, t) \in Seq(Item)
<1>1. Held(Idle, c, t) = << >>
  BY ConstantsTyped DEF Held, Idle
<1> DEFINE b == Operations(q, t)
<1>2. Line(s, q, c, t) = Held(s, c, t) \o b /\ Line(Idle, q, c, t) = << >> \o b /\ b \in Seq(Item)
  <2>1. Line(s, q, c, t) = Held(s, c, t) \o b /\ b \in Seq(Item)
    BY LineIs
  <2>2. Line(Idle, q, c, t) = Held(Idle, c, t) \o b
    BY LineIs
  <2>3. QED
    BY <1>1, <2>1, <2>2
<1> HIDE DEF b
<1>3. << >> \o b = b
  BY <1>2
<1>4. QED
  BY <1>2, <1>3

(* Where a channel stays, operations and answers do.                       *)
LEMMA OutstandingSame ==
  ASSUME NEW c \in Worker, NEW t \in Worker,
         req'[c][MasterOf[t]] = req[c][MasterOf[t]], serving'[MasterOf[t]] = serving[MasterOf[t]]
  PROVE  Outstanding(c, t)' = Outstanding(c, t)
BY DEF Outstanding

(* Outstanding is the line before its master.                              *)
LEMMA OutstandingIs ==
  ASSUME Typed, NEW c \in Worker, NEW t \in Worker
  PROVE  /\ Outstanding(c, t) = Line(serving[MasterOf[t]], req[c][MasterOf[t]], c, t)
         /\ Outstanding(c, t)' = Line(serving'[MasterOf[t]], req'[c][MasterOf[t]], c, t)
         /\ Outstanding(c, t) \in Seq(Item)
         /\ MasterOf[t] \in Master /\ serving[MasterOf[t]] \in Busy \cup {Idle}
         /\ req[c][MasterOf[t]] \in Seq(ReqMsg)
<1>1. /\ MasterOf[t] \in Master /\ serving[MasterOf[t]] \in Busy \cup {Idle}
      /\ req[c][MasterOf[t]] \in Seq(ReqMsg)
  BY ConstantsTyped DEF Typed
<1>2. /\ Outstanding(c, t) = Line(serving[MasterOf[t]], req[c][MasterOf[t]], c, t)
      /\ Outstanding(c, t)' = Line(serving'[MasterOf[t]], req'[c][MasterOf[t]], c, t)
  BY DEF Outstanding, Line
<1>3. QED
  BY <1>1, <1>2, LineIs

(* A receive posted for later answers makes no difference to those that    *)
(* are in flight.                                                          *)
LEMMA ReturningSame ==
  ASSUME IInv, NEW c \in Worker, NEW t \in Worker, rep'[c] = rep[c],
         \A n \in Master : \A i \in 1 .. Len(posted[c][n]) : posted'[c][n][i] = posted[c][n][i]
  PROVE  Returning(c, t)' = Returning(c, t)
<1> DEFINE m == MasterOf[t]
<1>1. /\ m \in Master /\ rep[c][m] \in Seq(RepMsg) /\ posted[c][m] \in Seq(Recv) /\ req[c][m] \in Seq(ReqMsg)
      /\ Matched(rep[c][m], req[c][m], posted[c][m])
  BY ConstantsTyped DEF IInv, Typed, Channel
<1>2. Len(rep[c][m]) <= Len(posted[c][m]) /\ Len(rep[c][m]) \in Nat /\ Len(posted[c][m]) \in Nat
  BY <1>1, MatchedLen
<1>3. \A i \in 1 .. Len(rep[c][m]) : posted'[c][m][i] = posted[c][m][i]
  BY <1>1, <1>2
<1>4. Fetches(rep[c][m], posted'[c][m], t) = Fetches(rep[c][m], posted[c][m], t)
  <2> DEFINE p == rep[c][m]
             r == posted[c][m]
             r2 == posted'[c][m]
  <2>1. p \in Seq(RepMsg) /\ \A i \in 1 .. Len(p) : r2[i] = r[i]
    BY <1>1, <1>3
  <2> HIDE DEF p, r, r2
  <2>2. Fetches(p, r2, t) = Fetches(p, r, t)
    BY <2>1, FetchesSame
  <2>3. QED
    BY <2>2 DEF p, r, r2
<1>5. Returning(c, t)' = Fetches(rep'[c][m], posted'[c][m], t)
  BY DEF Returning
<1>6. QED
  BY <1>4, <1>5 DEF Returning

(* Messages behind a channel are operations behind those outstanding.      *)
LEMMA OutstandingMore ==
  ASSUME Typed, NEW c \in Worker, NEW t \in Worker, NEW u \in Seq(ReqMsg),
         req'[c][MasterOf[t]] = req[c][MasterOf[t]] \o u, serving'[MasterOf[t]] = serving[MasterOf[t]]
  PROVE  Prolongs(Outstanding(c, t)', Outstanding(c, t), Operations(u, t))
<1> DEFINE s == serving[MasterOf[t]]
           q == req[c][MasterOf[t]]
           w == req'[c][MasterOf[t]]
<1>1. /\ Outstanding(c, t) = Line(s, q, c, t) /\ Outstanding(c, t)' = Line(s, w, c, t)
      /\ s \in Busy \cup {Idle} /\ q \in Seq(ReqMsg)
  BY OutstandingIs
<1>2. Prolongs(w, q, u)
  BY DEF Prolongs
<1> HIDE DEF s, q, w
<1>3. Prolongs(Line(s, w, c, t), Line(s, q, c, t), Operations(u, t))
  BY <1>1, <1>2, LineSend
<1>4. QED
  BY <1>1, <1>3

(* A worker sends messages, with or without receives for answers.          *)
LEMMA SendMaps ==
  ASSUME RInv, NEW c \in Worker, NEW m \in Master, NEW u \in Seq(ReqMsg), NEW v \in Seq(Recv),
         req' = [req EXCEPT ![c][m] = @ \o u],
         \/ posted' = posted
         \/ posted' = [posted EXCEPT ![c][m] = @ \o v],
         UNCHANGED <<rep, serving>>
  PROVE  /\ \A t \in Worker : MasterOf[t] = m =>
              Prolongs(Outstanding(c, t)', Outstanding(c, t), Operations(u, t))
         /\ \A d, t \in Worker : d # c \/ MasterOf[t] # m => Outstanding(d, t)' = Outstanding(d, t)
         /\ \A d, t \in Worker : Returning(d, t)' = Returning(d, t)
<1>1. /\ IInv /\ Typed /\ req \in [Worker -> [Master -> Seq(ReqMsg)]]
      /\ posted \in [Worker -> [Master -> Seq(Recv)]]
  BY DEF RInv, IInv, Typed
<1>2. /\ req'[c][m] = req[c][m] \o u
      /\ \A n \in Master \ {m} : req'[c][n] = req[c][n]
      /\ \A d \in Worker \ {c} : req'[d] = req[d]
  BY <1>1, PutAtEnd
<1>3. ASSUME NEW t \in Worker, MasterOf[t] = m
      PROVE  Prolongs(Outstanding(c, t)', Outstanding(c, t), Operations(u, t))
  BY <1>1, <1>2, <1>3, OutstandingMore
<1>4. ASSUME NEW d \in Worker, NEW t \in Worker, d # c \/ MasterOf[t] # m
      PROVE  Outstanding(d, t)' = Outstanding(d, t)
  <2>1. req'[d][MasterOf[t]] = req[d][MasterOf[t]] /\ serving'[MasterOf[t]] = serving[MasterOf[t]]
    BY <1>2, <1>4, ConstantsTyped
  <2>2. QED
    BY <2>1, OutstandingSame
<1>5. ASSUME NEW d \in Worker, NEW n \in Master, NEW i \in 1 .. Len(posted[d][n])
      PROVE  posted'[d][n][i] = posted[d][n][i]
  <2>1. CASE posted' = posted
    BY <2>1
  <2>2. CASE posted' = [posted EXCEPT ![c][m] = @ \o v]
    <3>1. /\ posted'[c][m] = posted[c][m] \o v
          /\ \A k \in Master \ {m} : posted'[c][k] = posted[c][k]
          /\ \A e \in Worker \ {c} : posted'[e] = posted[e]
      BY <1>1, <2>2, PutAtEnd
    <3>2. CASE d # c \/ n # m
      BY <3>1, <3>2
    <3>3. CASE d = c /\ n = m
      <4>1. posted[c][m] \in Seq(Recv)
        BY <1>1
      <4>2. \A k \in 1 .. Len(posted[c][m]) : (posted[c][m] \o v)[k] = posted[c][m][k]
        BY <4>1, ConcatElements
      <4>3. QED
        BY <1>5, <3>1, <3>3, <4>2
    <3>4. QED
      BY <3>2, <3>3
  <2>3. QED
    BY <2>1, <2>2
<1>6. \A d, t \in Worker : Returning(d, t)' = Returning(d, t)
  BY <1>1, <1>5, ReturningSame
<1>7. QED
  BY <1>3, <1>4, <1>6

(* A header with its chunks is one operation.                              *)
LEMMA PayloadMeans ==
  ASSUME NEW h \in ReqMsg, h.op \in Op, NEW u \in Seq(ReqMsg), u # << >>, u[1] = h,
         \A i \in 2 .. Len(u) : u[i].op = "DATA", NEW t
  PROVE  Operations(u, t) = Operation(h, t)
<1> DEFINE w == Tail(u)
<1>1. w \in Seq(ReqMsg) /\ \A i \in 1 .. Len(w) : w[i] = u[i + 1] /\ i + 1 \in 2 .. Len(u)
  <2>1. /\ Tail(u) \in Seq(ReqMsg) /\ Len(u) \in Nat
        /\ \A i \in 1 .. Len(Tail(u)) : Tail(u)[i] = u[i + 1] /\ i + 1 \in 1 .. Len(u)
    BY TailElements
  <2>2. QED
    BY <2>1
<1>2. Operations(u, t) = Operation(h, t) \o Operations(w, t)
  BY OperationsTail
<1>3. Operation(h, t) \in Seq(Item)
  <2>1. [op |-> h.op, val |-> h.val] \in Item
    BY DEF ReqMsg, Item
  <2>2. QED
    BY <2>1 DEF Operation
<1> HIDE DEF w
<1>4. Operations(w, t) = << >>
  BY <1>1, OperationsSilent DEF Op, Written, Fetched
<1> DEFINE a == Operation(h, t)
<1>5. a \in Seq(Item) /\ Operations(u, t) = a \o << >>
  BY <1>2, <1>3, <1>4
<1> HIDE DEF a
<1>6. a \o << >> = a
  BY <1>5
<1>7. QED
  BY <1>5, <1>6 DEF a

(* An operation goes to the progress rank.                                 *)
LEMMA IssueMaps ==
  ASSUME RInv, NEW c \in Worker, NEW h \in ReqMsg, h.op \in Op, h.val \in Value \cup {0, 1},
         NEW u \in Seq(ReqMsg), u # << >>, u[1] = h, \A i \in 2 .. Len(u) : u[i].op = "DATA",
         NEW v \in Seq(Recv),
         req' = [req EXCEPT ![c][MasterOf[h.rank]] = @ \o u],
         \/ posted' = posted
         \/ posted' = [posted EXCEPT ![c][MasterOf[h.rank]] = @ \o v],
         UNCHANGED <<rep, serving, mem, buf, round>>
  PROVE  Memory!Next
<1> DEFINE t == h.rank
           m == MasterOf[t]
           o == [op |-> h.op, val |-> h.val]
<1>1. t \in Worker /\ m \in Master
  BY ConstantsTyped DEF ReqMsg
<1>2. /\ \A x \in Worker : MasterOf[x] = m =>
           Prolongs(Outstanding(c, x)', Outstanding(c, x), Operations(u, x))
      /\ \A d, x \in Worker : d # c \/ MasterOf[x] # m => Outstanding(d, x)' = Outstanding(d, x)
      /\ \A d, x \in Worker : Returning(d, x)' = Returning(d, x)
  BY ZenonT(60), <1>1, SendMaps
<1>3. \A x \in Worker : Outstanding(c, x) \in Seq(Item)
  BY SMTT(30), OutstandingIs DEF RInv, IInv
<1>4. ASSUME NEW x \in Worker, x # t
      PROVE  Outstanding(c, x)' = Outstanding(c, x)
  <2>1. CASE MasterOf[x] = m
    <3>1. Operations(u, x) = << >>
      BY SMTT(30), <1>4, PayloadMeans DEF Operation
    <3> DEFINE a == Outstanding(c, x)
    <3>2. a \in Seq(Item) /\ Outstanding(c, x)' = a \o << >>
      BY <1>2, <1>3, <2>1, <3>1 DEF Prolongs
    <3>3. a \o << >> = a
      <4> HIDE DEF a
      <4>1. QED
        BY SMTT(30), <3>2
    <3>4. QED
      BY SMTT(30), <3>2, <3>3
  <2>2. CASE MasterOf[x] # m
    BY SMTT(30), <1>2, <2>2
  <2>3. QED
    BY SMTT(30), <2>1, <2>2
<1>5. Outstanding(c, t)' = Append(Outstanding(c, t), o)
  <2>1. Operations(u, t) = <<o>>
    BY PayloadMeans DEF Operation
  <2>2. o \in Item
    BY DEF ReqMsg, Item
  <2> HIDE DEF o
  <2>3. \A a \in Seq(Item) : a \o <<o>> = Append(a, o)
    BY <2>2
  <2>4. QED
    BY <1>1, <1>2, <1>3, <2>1, <2>3 DEF Prolongs
<1>6. \A d, x \in Worker : d # c \/ x # t => Outstanding(d, x)' = Outstanding(d, x)
  BY <1>2, <1>4
<1>7. Outstanding(c, t) \in Seq(Item) /\ t \in Worker /\ UNCHANGED <<mem, buf, round>>
  BY <1>1, <1>3
<1> HIDE DEF t, m
<1>8. QED
  BY <1>2, <1>5, <1>6, <1>7, MapsToIssue

(* A sequence of one element.                                              *)
LEMMA Singleton == \A S, x : x \in S => <<x>> \in Seq(S)
OBVIOUS

(* A fence is no operation.                                                *)
LEMMA FenceSilent ==
  ASSUME Typed, NEW c \in Worker, NEW t \in Worker,
         req'[c][MasterOf[t]] = req[c][MasterOf[t]] \o <<Message("FENCE", c, 0)>>,
         serving'[MasterOf[t]] = serving[MasterOf[t]]
  PROVE  Outstanding(c, t)' = Outstanding(c, t)
<1> DEFINE h == Message("FENCE", c, 0)
           u == <<h>>
           a == Outstanding(c, t)
<1>1. h \in ReqMsg /\ h.op \notin Op
  BY DEF Message, ReqMsg, Op, Written, Fetched
<1>2. req'[c][MasterOf[t]] = req[c][MasterOf[t]] \o u
  OBVIOUS
<1> HIDE DEF h
<1>3. u \in Seq(ReqMsg) /\ \A i \in 1 .. Len(u) : u[i] = h
  BY <1>1
<1> HIDE DEF u
<1>4. Operations(u, t) = << >>
  BY <1>1, <1>3, OperationsSilent
<1>5. Prolongs(Outstanding(c, t)', a, Operations(u, t)) /\ a \in Seq(Item)
  BY <1>2, <1>3, OutstandingMore, OutstandingIs
<1> HIDE DEF a
<1>6. a \o << >> = a
  BY <1>5
<1>7. QED
  BY <1>4, <1>5, <1>6 DEF a, Prolongs

(* A worker calls.                                                         *)
LEMMA CallMaps ==
  ASSUME RInv, NEW c \in Worker, NEW t \in Worker, Call(c, t)
  PROVE  Memory!Next \/ UNCHANGED Memory!vars
<1> DEFINE m == MasterOf[t]
<1>1. m \in Master /\ Typed /\ IInv
  BY ConstantsTyped DEF RInv, IInv
<1>2. /\ req \in [Worker -> [Master -> Seq(ReqMsg)]] /\ posted \in [Worker -> [Master -> Seq(Recv)]]
  BY <1>1 DEF Typed
<1>3. ASSUME NEW op \in Op, NEW v \in Carried(op)
      PROVE  /\ Message(op, t, v) \in ReqMsg /\ Message(op, t, v).op = op
             /\ Message(op, t, v).rank = t /\ Message(op, t, v).val \in Value \cup {0, 1}
  <2>1. v \in Nat /\ v \in Value \cup {0, 1}
    BY CarriedTyped DEF Carried
  <2>2. QED
    BY <2>1 DEF Message, ReqMsg
<1>4. ASSUME NEW op \in {"PUT", "GET", "ACC"}, CallDirect(c, op, t)
      PROVE  UNCHANGED Memory!vars
  <2>1. UNCHANGED <<mem, buf, round, serving, rep>>
    BY <1>4 DEF CallDirect
  <2>2. CASE m \notin fence_array[c]
    <3>1. UNCHANGED <<req, posted>>
      BY <1>4, <2>2 DEF CallDirect
    <3>2. \A d, x \in Worker : Outstanding(d, x)' = Outstanding(d, x) /\ Returning(d, x)' = Returning(d, x)
      BY <1>1, <2>1, <3>1, OutstandingSame, ReturningSame
    <3>3. QED
      BY <2>1, <3>2, MapsToStutter
  <2>3. CASE m \in fence_array[c]
    <3> DEFINE u == <<Message("FENCE", c, 0)>>
               v == <<Receive("FENCE", c, TRUE)>>
    <3>1. /\ req' = [req EXCEPT ![c][m] = @ \o u]
          /\ posted' = [posted EXCEPT ![c][m] = @ \o v]
      BY <1>4, <2>3 DEF CallDirect, nb_send, nb_recv
    <3>2. u \in Seq(ReqMsg) /\ v \in Seq(Recv)
      <4>1. Message("FENCE", c, 0) \in ReqMsg /\ Receive("FENCE", c, TRUE) \in Recv
        BY DEF Message, ReqMsg, Receive, Recv
      <4>2. QED
        BY <4>1, Singleton, Zenon
    <3>3. req'[c][m] = req[c][m] \o u
      BY <1>1, <1>2, <3>1, PutAtEnd
    <3>4. ASSUME NEW x \in Worker, MasterOf[x] = m
          PROVE  Outstanding(c, x)' = Outstanding(c, x)
      BY <1>1, <2>1, <3>3, <3>4, FenceSilent
    <3> HIDE DEF u, v
    <3>5. /\ \A d, x \in Worker : d # c \/ MasterOf[x] # m => Outstanding(d, x)' = Outstanding(d, x)
          /\ \A d, x \in Worker : Returning(d, x)' = Returning(d, x)
      BY <1>1, <2>1, <3>1, <3>2, SendMaps
    <3>6. QED
      BY <2>1, <3>4, <3>5, MapsToStutter
  <2>4. QED
    BY <2>2, <2>3
<1>5. ASSUME NEW op \in {"PUT", "ACC"}, CallWrite(c, op, t)
      PROVE  Memory!Next
  <2>1. PICK v \in Carried(op) : nb_send(c, m, PayloadMessages(Message(op, t, v)))
    BY <1>5 DEF CallWrite
  <2> DEFINE h == Message(op, t, v)
             u == PayloadMessages(h)
  <2>2. h \in ReqMsg /\ h.op = op /\ h.rank = t /\ h.val \in Value \cup {0, 1} /\ op \in Written /\ op \in Op
    BY <1>3 DEF Op, Written
  <2>3. req' = [req EXCEPT ![c][m] = @ \o u] /\ UNCHANGED <<posted, rep, serving, mem, buf, round>>
    BY <1>5, <2>1 DEF CallWrite, nb_send
  <2> HIDE DEF h
  <2>4. u \in Seq(ReqMsg) /\ u # << >> /\ u[1] = h /\ \A i \in 2 .. Len(u) : u[i].op = "DATA"
    BY <2>2, FramedPayload
  <2>5. << >> \in Seq(Recv)
    OBVIOUS
  <2> HIDE DEF u
  <2>6. QED
    BY <2>2, <2>3, <2>4, <2>5, IssueMaps
<1>6. ASSUME NEW h \in ReqMsg, h.op \in Op, h.rank = t, h.val \in Value \cup {0, 1},
             req' = [req EXCEPT ![c][m] = @ \o <<h>>],
             NEW v \in Seq(Recv), posted' = [posted EXCEPT ![c][m] = @ \o v],
             UNCHANGED <<rep, serving, mem, buf, round>>
      PROVE  Memory!Next
  <2> DEFINE u == <<h>>
  <2>1. u \in Seq(ReqMsg) /\ u # << >> /\ u[1] = h /\ \A i \in 2 .. Len(u) : u[i].op = "DATA"
    OBVIOUS
  <2>2. /\ req' = [req EXCEPT ![c][MasterOf[h.rank]] = @ \o u]
        /\ \/ posted' = posted
           \/ posted' = [posted EXCEPT ![c][MasterOf[h.rank]] = @ \o v]
    BY <1>6
  <2>3. /\ h.op \in Op /\ h.val \in Value \cup {0, 1}
        /\ UNCHANGED <<rep, serving, mem, buf, round>>
    BY <1>6
  <2> HIDE DEF u
  <2>4. QED
    BY ZenonT(60), <2>1, <2>2, <2>3, IssueMaps
<1>7. CASE CallGet(c, t)
  <2> DEFINE h == Message("GET", t, 0)
             n == Chunks(Length[t])
             v == [i \in 1 .. n |-> Receive("GET", t, i = n)]
  <2>1. h \in ReqMsg /\ h.op \in Op /\ h.rank = t /\ h.val \in Value \cup {0, 1}
    BY DEF Message, ReqMsg, Op, Fetched
  <2>2. v \in Seq(Recv)
    <3>1. n \in Nat /\ \A i \in 1 .. n : Receive("GET", t, i = n) \in Recv
      BY ChunksTyped DEF Receive, Recv, Fetched
    <3> HIDE DEF n
    <3>2. QED
      BY <3>1
  <2>3. /\ req' = [req EXCEPT ![c][m] = @ \o <<h>>] /\ posted' = [posted EXCEPT ![c][m] = @ \o v]
        /\ UNCHANGED <<rep, serving, mem, buf, round>>
    BY <1>7 DEF CallGet, nb_send, nb_recv
  <2> HIDE DEF h, v, n
  <2>4. QED
    BY <1>6, <2>1, <2>2, <2>3
<1>8. ASSUME NEW op \in RMW, comex_rmw(c, op, t)
      PROVE  Memory!Next
  <2>1. PICK x \in Carried(op) : nb_send(c, m, <<Message(op, t, x)>>)
    BY <1>8 DEF comex_rmw
  <2> DEFINE h == Message(op, t, x)
             v == <<Receive(op, t, TRUE)>>
  <2>2. h \in ReqMsg /\ h.op \in Op /\ h.rank = t /\ h.val \in Value \cup {0, 1}
    BY <1>3 DEF Op, Fetched, RMW
  <2>3. v \in Seq(Recv)
    <3>1. Receive(op, t, TRUE) \in Recv
      BY DEF Receive, Recv, Fetched, RMW
    <3>2. QED
      BY <3>1, Singleton, Zenon
  <2>4. /\ req' = [req EXCEPT ![c][m] = @ \o <<h>>] /\ posted' = [posted EXCEPT ![c][m] = @ \o v]
        /\ UNCHANGED <<rep, serving, mem, buf, round>>
    BY <1>8, <2>1 DEF comex_rmw, nb_send, nb_recv
  <2> HIDE DEF h, v
  <2>5. QED
    BY <1>6, <2>2, <2>3, <2>4
<1>9. QED
  BY <1>4, <1>5, <1>7, <1>8 DEF Call, RMW

(* Steps that concern neither messages nor memory.                         *)
LEMMA QuietMaps ==
  ASSUME UNCHANGED <<req, rep, posted, serving, mem, buf, round>>
  PROVE  UNCHANGED Memory!vars
<1>1. \A c, t \in Worker : /\ Outstanding(c, t)' = Outstanding(c, t)
                           /\ Returning(c, t)' = Returning(c, t)
  BY DEF Outstanding, Returning
<1>2. QED
  BY <1>1, MapsToStutter

(* A worker fences all flagged masters.                                    *)
LEMMA FenceMaps ==
  ASSUME RInv, NEW c \in Worker, comex_fence_all(c) \/ comex_barrier(c)
  PROVE  UNCHANGED Memory!vars
<1> DEFINE h == Message("FENCE", c, 0)
           w == Receive("FENCE", c, TRUE)
<1>1. /\ Typed /\ IInv /\ req \in [Worker -> [Master -> Seq(ReqMsg)]]
      /\ posted \in [Worker -> [Master -> Seq(Recv)]]
  BY DEF RInv, IInv, Typed
<1>2. /\ UNCHANGED <<serving, mem, buf, round, rep>>
      /\ \E x, y \in {"fence_all", "barrier_fence", "ready", "barrier"} : FenceAll(c, x, y)
  BY DEF comex_fence_all, comex_barrier
<1>3. PICK x, y \in {"fence_all", "barrier_fence", "ready", "barrier"} : FenceAll(c, x, y)
  BY <1>2
<1>4. /\ \A d \in Worker \ {c} : req'[d] = req[d] /\ posted'[d] = posted[d]
      /\ \A n \in Master : /\ req'[c][n] = IF n \in fence_array[c] THEN Append(req[c][n], h) ELSE req[c][n]
                           /\ posted'[c][n] = IF n \in fence_array[c] THEN Append(posted[c][n], w)
                                                                      ELSE posted[c][n]
  BY <1>1, <1>3 DEF FenceAll
<1>5. h \in ReqMsg /\ w \in Recv
  BY DEF Message, ReqMsg, Receive, Recv
<1> HIDE DEF w
<1>6. ASSUME NEW d \in Worker, NEW t \in Worker
      PROVE  Outstanding(d, t)' = Outstanding(d, t)
  <2>1. MasterOf[t] \in Master /\ req[c][MasterOf[t]] \in Seq(ReqMsg)
    BY <1>1, ConstantsTyped
  <2>2. CASE d # c \/ MasterOf[t] \notin fence_array[c]
    BY <1>2, <1>4, <2>1, <2>2, OutstandingSame
  <2>3. CASE d = c /\ MasterOf[t] \in fence_array[c]
    <3>1. req'[c][MasterOf[t]] = req[c][MasterOf[t]] \o <<h>>
      <4> HIDE DEF h
      <4>1. \A q \in Seq(ReqMsg) : Append(q, h) = q \o <<h>>
        BY <1>5
      <4>2. QED
        BY <1>4, <2>1, <2>3, <4>1
    <3>2. QED
      BY <1>1, <1>2, <2>3, <3>1, FenceSilent
  <2>4. QED
    BY <2>2, <2>3
<1> HIDE DEF h
<1>7. ASSUME NEW d \in Worker, NEW n \in Master, NEW i \in 1 .. Len(posted[d][n])
      PROVE  posted'[d][n][i] = posted[d][n][i]
  <2>1. \A q \in Seq(Recv) : \A k \in 1 .. Len(q) : Append(q, w)[k] = q[k]
    BY <1>5
  <2>2. posted[d][n] \in Seq(Recv)
    BY <1>1
  <2>3. posted'[d][n] = posted[d][n] \/ posted'[d][n] = Append(posted[d][n], w)
    BY <1>4
  <2>4. QED
    BY <2>1, <2>2, <2>3
<1>8. \A d, t \in Worker : Returning(d, t)' = Returning(d, t)
  BY <1>1, <1>2, <1>7, ReturningSame
<1>9. QED
  BY <1>2, <1>6, <1>8, MapsToStutter

(* A queue without writes is operations that only fetch.                   *)
LEMMA OperationsReads ==
  ASSUME NEW q \in Seq(ReqMsg), NEW t, \A i \in 1 .. Len(q) : q[i].op \notin Written
  PROVE  \A i \in DOMAIN Operations(q, t) : Operations(q, t)[i].op \notin Written
<1> DEFINE R == [op : Fetched, val : Nat]
           f == [i \in 1 .. Len(q) |-> Operation(q[i], t)]
<1>1. Operations(q, t) = FlattenSeq(f) /\ Len(q) \in Nat
  BY OperationsIs
<1>2. ASSUME NEW i \in 1 .. Len(q)
      PROVE  Operation(q[i], t) \in Seq(R)
  <2>1. q[i] \in ReqMsg
    BY <1>2
  <2>2. q[i].op \in Op => [op |-> q[i].op, val |-> q[i].val] \in R
    BY <2>1 DEF ReqMsg, Op
  <2> HIDE DEF R
  <2>3. QED
    BY <2>2 DEF Operation
<1> HIDE DEF R
<1>3. f \in Seq(Seq(R))
  BY <1>1, <1>2
<1> HIDE DEF f
<1>4. Operations(q, t) \in Seq(R)
  BY <1>1, <1>3, FlattenTyped
<1>5. \A i \in DOMAIN Operations(q, t) : Operations(q, t)[i] \in R
  BY <1>4
<1>6. QED
  BY <1>5 DEF R, Fetched, Written

(* A barrier: nobody has flagged masters, so nobody has writes under way.  *)
LEMMA BarrierMaps ==
  ASSUME RInv, MPI_Barrier
  PROVE  Memory!Next
<1>1. UNCHANGED <<req, rep, posted, serving, mem, buf>> /\ round' = 1 - round
  BY DEF MPI_Barrier
<1>2. \A c, t \in Worker : Outstanding(c, t)' = Outstanding(c, t) /\ Returning(c, t)' = Returning(c, t)
  BY <1>1 DEF Outstanding, Returning
<1>3. ASSUME NEW c \in Worker, NEW t \in Worker
      PROVE  \A i \in DOMAIN Outstanding(c, t) : Outstanding(c, t)[i].op \notin Written
  <2> DEFINE m == MasterOf[t]
             q == req[c][m]
  <2>1. /\ m \in Master /\ fence_array[c] = {} /\ Typed /\ q \in Seq(ReqMsg)
        /\ Outstanding(c, t) = Line(serving[m], q, c, t)
    BY OutstandingIs, ConstantsTyped DEF MPI_Barrier, RInv, IInv
  <2>2. Clear(q, serving[m], c)
    BY <2>1 DEF RInv, IInv, Channel
  <2> HIDE DEF m, q
  <2>3. << >> \o q = q
    BY <2>1
  <2>4. Outstanding(c, t) = Operations(q, t)
    BY <2>1, <2>2, <2>3 DEF Line, Clear
  <2>5. \A i \in 1 .. Len(q) : q[i].op \notin Written
    BY <2>2 DEF Clear
  <2>6. QED
    BY <2>1, <2>4, <2>5, OperationsReads
<1>4. QED
  BY <1>1, <1>2, <1>3, MapsToBarrier

(* The worker in a shortcut has nothing under way to that location.        *)
LEMMA NothingBefore ==
  ASSUME RInv, GetsTakeShortcuts, NEW c \in Worker, pc[c] \in {"direct", "acc"}
  PROVE  todo[c].rank \in Worker /\ Outstanding(c, todo[c].rank) = << >>
<1> DEFINE t == todo[c].rank
           m == MasterOf[t]
           q == req[c][m]
<1>1. Typed /\ Calls(c) /\ todo[c] \in Todo /\ t \in Worker
  <2>1. Typed /\ Calls(c) /\ todo[c] \in Todo
    BY DEF RInv, IInv, Typed, InShortcut
  <2>2. QED
    BY <2>1 DEF Todo
<1>2. /\ m \in Master /\ q \in Seq(ReqMsg) /\ Outstanding(c, t) = Line(serving[m], q, c, t)
  BY <1>1, OutstandingIs
<1>3. Clear(q, serving[m], c) /\ Asked(c, m)
  BY <1>1, <1>2 DEF Calls, RInv, IInv, Channel
<1>4. Direct(c, "GET", t)
  <2>1. Direct(c, todo[c].op, t) /\ todo[c].op \in Written \cup {"GET"}
    BY <1>1 DEF Calls, InShortcut, Written
  <2>2. QED
    BY <1>1, <2>1 DEF GetsTakeShortcuts
<1>5. ASSUME NEW i \in 1 .. Len(q)
      PROVE  q[i].rank # t \/ q[i].op \notin Op
  <2>1. /\ q[i].op \notin Written \cup {"DATA"} /\ q[i].op \notin RMW
        /\ q[i].op = "GET" => ~Direct(c, "GET", q[i].rank)
    BY ZenonT(60), <1>3 DEF Clear, Asked, Legal
  <2>2. QED
    BY SMTT(30), <1>4, <2>1 DEF Op, Fetched, RMW
<1> HIDE DEF t, m, q
<1>6. << >> \o q = q
  BY <1>2
<1>7. Outstanding(c, t) = Operations(q, t)
  BY <1>2, <1>3, <1>6 DEF Line, Clear
<1>8. QED
  BY <1>1, <1>2, <1>5, <1>7, OperationsSilent DEF t

(* What the operations do to a location.                                   *)
LEMMA EffectIs ==
  ASSUME NEW op, NEW val, NEW old
  PROVE  /\ op \in {"PUT", "SWAP"} => Memory!Effect([op |-> op, val |-> val], old) = val
         /\ op \in {"ACC", "FETCH_AND_ADD"} => Memory!Effect([op |-> op, val |-> val], old) = old + val
         /\ op = "GET" => Memory!Effect([op |-> op, val |-> val], old) = old
<1> DEFINE o == [op |-> op, val |-> val]
<1>1. o.op = op /\ o.val = val
  OBVIOUS
<1> HIDE DEF o
<1>2. CASE op \in {"PUT", "SWAP"}
  <2>1. Memory!Effect(o, old) = val /\ op \notin {"ACC", "FETCH_AND_ADD"} /\ op # "GET"
    BY <1>1, <1>2 DEF Memory!Effect
  <2>2. QED
    BY <1>2, <2>1 DEF o
<1>3. CASE op \in {"ACC", "FETCH_AND_ADD"}
  <2>1. Memory!Effect(o, old) = old + val /\ op \notin {"PUT", "SWAP"} /\ op # "GET"
    BY <1>1, <1>3 DEF Memory!Effect
  <2>2. QED
    BY <1>3, <2>1 DEF o
<1>4. CASE op = "GET"
  <2>1. Memory!Effect(o, old) = old /\ op \notin {"PUT", "SWAP"} /\ op \notin {"ACC", "FETCH_AND_ADD"}
    BY <1>1, <1>4 DEF Memory!Effect
  <2>2. QED
    BY <1>4, <2>1 DEF o
<1>5. QED
  BY <1>2, <1>3, <1>4

(* A worker continues the call it is in.                                   *)
LEMMA ContinueMaps ==
  ASSUME RInv, GetsTakeShortcuts, NEW c \in Worker, Continue(c)
  PROVE  Memory!Next \/ UNCHANGED Memory!vars
<1> DEFINE t == todo[c].rank
           val == todo[c].val
<1>1. CASE FenceMasterDone(c) \/ FenceAllDone(c) \/ RmwDone(c) \/ DirectAccRead(c)
  BY <1>1, QuietMaps DEF FenceMasterDone, FenceAllDone, RmwDone, DirectAccRead
<1>2. ASSUME pc[c] \in {"direct", "acc"}, UNCHANGED <<req, rep, posted, serving, round>>,
             \/ \E op \in Written : /\ mem' = [mem EXCEPT ![t] = Memory!Effect([op |-> op, val |-> val], @)]
                                    /\ val \in Value \cup {0, 1} /\ UNCHANGED buf
             \/ buf' = [buf EXCEPT ![c] = <<t, mem[t]>>] /\ UNCHANGED mem
      PROVE  Memory!Next
  <2>1. t \in Worker /\ Outstanding(c, t) = << >>
    BY <1>2, NothingBefore
  <2>2. \A d, u \in Worker : Outstanding(d, u)' = Outstanding(d, u) /\ Returning(d, u)' = Returning(d, u)
    BY <1>2 DEF Outstanding, Returning
  <2> HIDE DEF t, val
  <2>3. QED
    BY <1>2, <2>1, <2>2, MapsToDirect
<1>3. ASSUME pc[c] \in {"direct", "acc"}
      PROVE  val \in Value \cup {0, 1} /\ t \in Worker
  <2>1. todo[c] \in Todo /\ val \in Carried(todo[c].op)
    BY <1>3 DEF RInv, IInv, Typed, InShortcut, Calls
  <2>2. QED
    BY <2>1 DEF Carried, Todo
<1>4. CASE DirectPut(c)
  <2>1. /\ pc[c] = "direct" /\ UNCHANGED <<req, rep, posted, serving, round, buf>>
        /\ mem' = [mem EXCEPT ![t] = val]
    BY <1>4 DEF DirectPut
  <2>2. \A old : Memory!Effect([op |-> "PUT", val |-> val], old) = val
    BY EffectIs
  <2>3. mem' = [mem EXCEPT ![t] = Memory!Effect([op |-> "PUT", val |-> val], @)]
    BY <2>1, <2>2
  <2>4. QED
    BY <1>2, <1>3, <2>1, <2>3 DEF Written
<1>5. CASE DirectGet(c)
  <2>1. /\ pc[c] = "direct" /\ UNCHANGED <<req, rep, posted, serving, round, mem>>
        /\ buf' = [buf EXCEPT ![c] = <<t, mem[t]>>]
    BY <1>5 DEF DirectGet
  <2>2. QED
    BY <1>2, <2>1
<1>6. CASE DirectAccWrite(c)
  <2>1. /\ pc[c] = "acc" /\ UNCHANGED <<req, rep, posted, serving, round, buf>>
        /\ mem' = [mem EXCEPT ![t] = tmp[c] + val]
    BY <1>6 DEF DirectAccWrite, AccWrite
  <2>2. tmp[c] = mem[t]
    BY <1>3, <2>1, ConstantsTyped DEF RInv, Calls, Locked
  <2>3. \A old : Memory!Effect([op |-> "ACC", val |-> val], old) = old + val
    BY EffectIs
  <2>4. mem' = [mem EXCEPT ![t] = Memory!Effect([op |-> "ACC", val |-> val], @)]
    BY <2>1, <2>2, <2>3
  <2>5. QED
    BY <1>2, <1>3, <2>1, <2>4 DEF Written
<1>7. QED
  BY <1>1, <1>4, <1>5, <1>6 DEF Continue

-----------------------------------------------------------------------------
(* Where the answers come from.                                            *)

(* A worker expects the values of a location from its master.              *)
Expects(r, m) ==
  \A i \in 1 .. Len(r) : r[i].op \in Fetched => MasterOf[r[i].rank] = m

AllExpect == \A c \in Worker, m \in Master : Expects(posted[c][m], m)

(* More receives are posted.                                               *)
LEMMA ExpectsMore ==
  ASSUME NEW r \in Seq(Recv), NEW v \in Seq(Recv), NEW m, Expects(r, m), Expects(v, m),
         NEW w, Prolongs(w, r, v)
  PROVE  Expects(w, m)
<1>1. /\ \A i \in 1 .. Len(r) : w[i] = r[i]
      /\ \A i \in 1 .. Len(w) : i > Len(r) => w[i] = v[i - Len(r)] /\ i - Len(r) \in 1 .. Len(v)
      /\ Len(w) = Len(r) + Len(v) /\ Len(r) \in Nat /\ Len(v) \in Nat
  BY ConcatElements DEF Prolongs
<1>2. ASSUME NEW i \in 1 .. Len(w), w[i].op \in Fetched
      PROVE  MasterOf[w[i].rank] = m
  <2>1. CASE i <= Len(r)
    <3>1. i \in 1 .. Len(r) /\ w[i] = r[i]
      BY <1>1, <2>1
    <3>2. QED
      BY <1>2, <3>1 DEF Expects
  <2>2. CASE i > Len(r)
    <3>1. i - Len(r) \in 1 .. Len(v) /\ w[i] = v[i - Len(r)]
      BY <1>1, <2>2
    <3>2. QED
      BY <1>2, <3>1 DEF Expects
  <2>3. QED
    BY <1>1, <2>1, <2>2
<1>3. QED
  BY <1>2 DEF Expects

(* Every step keeps it.                                                    *)
LEMMA ExpectsStep ==
  ASSUME Typed, AllExpect, [Next]_vars
  PROVE  AllExpect'
<1>1. posted \in [Worker -> [Master -> Seq(Recv)]]
  BY DEF Typed
<1>2. ASSUME UNCHANGED posted
      PROVE  AllExpect'
  BY <1>2 DEF AllExpect, Expects
<1>3. ASSUME NEW c \in Worker, NEW m \in Master, NEW v \in Seq(Recv), Expects(v, m),
             posted' = [posted EXCEPT ![c][m] = @ \o v]
      PROVE  AllExpect'
  <2>1. /\ Prolongs(posted'[c][m], posted[c][m], v)
        /\ \A n \in Master \ {m} : posted'[c][n] = posted[c][n]
        /\ \A d \in Worker \ {c} : posted'[d] = posted[d]
    BY <1>1, <1>3, PutAtEnd DEF Prolongs
  <2>2. posted[c][m] \in Seq(Recv) /\ Expects(posted[c][m], m)
    BY <1>1 DEF AllExpect
  <2>3. Expects(posted'[c][m], m)
    BY <1>3, <2>1, <2>2, ExpectsMore
  <2>4. QED
    BY <2>1, <2>3 DEF AllExpect
<1>4. ASSUME NEW c \in Worker, NEW t \in Worker, Call(c, t)
      PROVE  AllExpect'
  <2> DEFINE m == MasterOf[t]
             n == Chunks(Length[t])
             g == [i \in 1 .. n |-> Receive("GET", t, i = n)]
             f == Receive("FENCE", c, TRUE)
  <2>1. m \in Master
    BY ConstantsTyped
  <2>2. g \in Seq(Recv) /\ Expects(g, m)
    <3>1. n \in Nat /\ \A i \in 1 .. n : Receive("GET", t, i = n) \in Recv
      BY ChunksTyped DEF Receive, Recv, Fetched
    <3>2. g \in Seq(Recv) /\ \A i \in 1 .. Len(g) : g[i].rank = t
      <4> HIDE DEF n
      <4>1. QED
        BY <3>1 DEF Receive
    <3>3. QED
      BY <3>2 DEF Expects
  <2>3. ASSUME NEW op \in Fetched \cup {"FENCE"}, NEW x \in Worker, op \in Fetched => x = t
        PROVE  <<Receive(op, x, TRUE)>> \in Seq(Recv) /\ Expects(<<Receive(op, x, TRUE)>>, m)
    BY <2>3 DEF Receive, Recv, Expects
  <2>4. CASE CallGet(c, t)
    <3>1. posted' = [posted EXCEPT ![c][m] = @ \o g]
      BY <2>4 DEF CallGet, nb_recv
    <3> HIDE DEF g, m, n
    <3>2. QED
      BY <1>3, <2>1, <2>2, <3>1
  <2>5. ASSUME NEW op \in RMW, comex_rmw(c, op, t)
        PROVE  AllExpect'
    <3> DEFINE v == <<Receive(op, t, TRUE)>>
    <3>1. posted' = [posted EXCEPT ![c][m] = @ \o v]
      BY <2>5 DEF comex_rmw, nb_recv
    <3>2. v \in Seq(Recv) /\ Expects(v, m)
      BY <2>3 DEF RMW, Fetched
    <3> HIDE DEF v, m
    <3>3. QED
      BY <1>3, <2>1, <3>1, <3>2
  <2>6. ASSUME NEW op \in {"PUT", "GET", "ACC"}, CallDirect(c, op, t)
        PROVE  AllExpect'
    <3> DEFINE v == <<Receive("FENCE", c, TRUE)>>
    <3>1. posted' = [posted EXCEPT ![c][m] = @ \o v] \/ posted' = posted
      BY <2>6 DEF CallDirect, nb_recv
    <3>2. v \in Seq(Recv) /\ Expects(v, m)
      BY <2>3 DEF Fetched
    <3> HIDE DEF v, m
    <3>3. QED
      BY <1>2, <1>3, <2>1, <3>1, <3>2
  <2>7. ASSUME NEW op \in {"PUT", "ACC"}, CallWrite(c, op, t)
        PROVE  AllExpect'
    BY <1>2, <2>7 DEF CallWrite
  <2>8. QED
    BY <1>4, <2>4, <2>5, <2>6, <2>7 DEF Call, RMW
<1>5. ASSUME NEW c \in Worker, comex_fence_all(c) \/ comex_barrier(c)
      PROVE  AllExpect'
  <2> DEFINE w == Receive("FENCE", c, TRUE)
             v == <<w>>
  <2>1. PICK x, y \in {"fence_all", "barrier_fence", "ready", "barrier"} : FenceAll(c, x, y)
    BY <1>5 DEF comex_fence_all, comex_barrier
  <2>2. /\ \A d \in Worker \ {c} : posted'[d] = posted[d]
        /\ \A n \in Master : posted'[c][n] = IF n \in fence_array[c] THEN Append(posted[c][n], w)
                                                                    ELSE posted[c][n]
    BY <1>1, <2>1 DEF FenceAll
  <2>3. w \in Recv /\ v \in Seq(Recv) /\ \A n \in Master : Expects(v, n)
    BY DEF Receive, Recv, Expects, Fetched
  <2> HIDE DEF w
  <2>4. \A r \in Seq(Recv) : Append(r, w) = r \o v
    BY <2>3
  <2> HIDE DEF v
  <2>5. ASSUME NEW n \in Master
        PROVE  Expects(posted'[c][n], n)
    <3>1. posted[c][n] \in Seq(Recv) /\ Expects(posted[c][n], n)
      BY <1>1 DEF AllExpect
    <3>2. CASE n \in fence_array[c]
      <4>1. Prolongs(posted'[c][n], posted[c][n], v)
        BY <2>2, <2>4, <3>1, <3>2 DEF Prolongs
      <4>2. QED
        BY <2>3, <3>1, <4>1, ExpectsMore
    <3>3. QED
      BY <2>2, <3>1, <3>2
  <2>6. QED
    BY <2>2, <2>5 DEF AllExpect
<1>6. ASSUME NEW c \in Worker, NEW m \in Master, RecvReply(c, m)
      PROVE  AllExpect'
  <2>1. /\ posted[c][m] # << >> /\ posted' = [posted EXCEPT ![c][m] = Tail(@)]
        /\ posted[c][m] \in Seq(Recv) /\ Expects(posted[c][m], m)
    BY <1>1, <1>6 DEF RecvReply, AllExpect
  <2>2. /\ posted'[c][m] = Tail(posted[c][m])
        /\ \A n \in Master \ {m} : posted'[c][n] = posted[c][n]
        /\ \A d \in Worker \ {c} : posted'[d] = posted[d]
    BY <1>1, <2>1
  <2>3. \A i \in 1 .. Len(Tail(posted[c][m])) :
          Tail(posted[c][m])[i] = posted[c][m][i + 1] /\ i + 1 \in 1 .. Len(posted[c][m])
    BY <2>1, TailElements
  <2>4. Expects(posted'[c][m], m)
    BY <2>1, <2>2, <2>3 DEF Expects
  <2>5. QED
    BY <2>2, <2>4 DEF AllExpect
<1>7. ASSUME NEW c \in Worker, NEW m \in Master, progress_server(m, c)
      PROVE  AllExpect'
  BY <1>2, <1>7 DEF progress_server, WriteBegin, server_recv, get_handler, rmw_handler, fence_handler
<1>8. ASSUME NEW m \in Master, Handle(m)
      PROVE  AllExpect'
  BY <1>2, <1>8 DEF Handle, PutEnd, HandlerAccRead, HandlerAccWrite
<1>9. ASSUME NEW c \in Worker, Continue(c)
      PROVE  AllExpect'
  BY <1>2, <1>9 DEF Continue, FenceMasterDone, DirectPut, DirectGet, DirectAccRead, DirectAccWrite,
                    RmwDone, FenceAllDone
<1>10. CASE MPI_Barrier \/ UNCHANGED vars
  BY <1>2, <1>10 DEF MPI_Barrier, vars
<1>11. QED
  BY <1>4, <1>5, <1>6, <1>7, <1>8, <1>9, <1>10 DEF Next

(* A worker receives an answer: it fills the buffer, or, being the answer  *)
(* to a fence or an early chunk, is nothing.                               *)
LEMMA RecvMaps ==
  ASSUME RInv, AllExpect, NEW c \in Worker, NEW m \in Master, RecvReply(c, m)
  PROVE  Memory!Next \/ UNCHANGED Memory!vars
<1> DEFINE p == rep[c][m]
           r == posted[c][m]
           w == r[1]
           v == p[1].val
           rest(u) == Fetches(Tail(p), Tail(r), u)
<1>1. /\ Typed /\ p \in Seq(RepMsg) /\ r \in Seq(Recv) /\ Matched(p, req[c][m], r) /\ Expects(r, m)
      /\ req[c][m] \in Seq(ReqMsg) /\ rep \in [Worker -> [Master -> Seq(RepMsg)]]
      /\ posted \in [Worker -> [Master -> Seq(Recv)]]
  BY SMTT(30) DEF RInv, IInv, Typed, Channel, AllExpect
<1>2. /\ p # << >> /\ r # << >>
      /\ rep' = [rep EXCEPT ![c][m] = Tail(@)] /\ posted' = [posted EXCEPT ![c][m] = Tail(@)]
      /\ buf' = IF w.op \in Fetched /\ w.last THEN [buf EXCEPT ![c] = <<w.rank, v>>] ELSE buf
      /\ UNCHANGED <<req, serving, mem, round>>
  <2>1. p # << >> /\ r # << >> /\ Head(p) = p[1] /\ Head(r) = r[1]
    BY <1>1, TailElements DEF RecvReply
  <2>2. QED
    BY <2>1 DEF RecvReply
<1>3. /\ rep'[c][m] = Tail(p) /\ posted'[c][m] = Tail(r)
      /\ \A n \in Master \ {m} : rep'[c][n] = rep[c][n] /\ posted'[c][n] = posted[c][n]
      /\ \A d \in Worker \ {c} : rep'[d] = rep[d] /\ posted'[d] = posted[d]
  BY <1>1, <1>2
<1>4. Len(p) <= Len(r) /\ Tail(p) \in Seq(RepMsg) /\ p[1] \in RepMsg /\ w \in Recv /\ 1 \in 1 .. Len(r)
  <2>1. Len(p) <= Len(r)
    BY <1>1, MatchedLen
  <2>2. QED
    BY <1>1, <1>2, <2>1, TailElements
<1>5. \A d, u \in Worker : Outstanding(d, u)' = Outstanding(d, u)
  BY <1>2, OutstandingSame
<1>6. ASSUME NEW d \in Worker, NEW u \in Worker, d # c \/ MasterOf[u] # m
      PROVE  Returning(d, u)' = Returning(d, u)
  <2>1. MasterOf[u] \in Master
    BY ConstantsTyped
  <2>2. QED
    BY <1>3, <1>6, <2>1 DEF Returning
<1>7. ASSUME NEW u \in Worker, MasterOf[u] = m
      PROVE  /\ Returning(c, u) = Fetch(w, p[1], u) \o rest(u)
             /\ Returning(c, u)' = rest(u) /\ rest(u) \in Seq(Content)
  <2>1. Returning(c, u) = Fetches(p, r, u)
    BY <1>7 DEF Returning
  <2>2. Returning(c, u)' = rest(u)
    BY <1>3, <1>7 DEF Returning
  <2>3. Fetches(p, r, u) = Fetch(w, p[1], u) \o rest(u)
    <3> HIDE DEF p, r
    <3>1. QED
      BY <1>1, <1>2, <1>4, FetchesTail
  <2>4. rest(u) \in Seq(Content)
    BY <1>4, FetchesIs
  <2>5. QED
    BY <2>1, <2>2, <2>3, <2>4
<1>8. ASSUME NEW u \in Worker, Fetch(w, p[1], u) = << >>
      PROVE  Returning(c, u)' = Returning(c, u)
  <2>1. CASE MasterOf[u] = m
    <3> DEFINE s == rest(u)
    <3>1. s \in Seq(Content) /\ Returning(c, u)' = s /\ Returning(c, u) = << >> \o s
      BY <1>7, <1>8, <2>1
    <3> HIDE DEF s
    <3>2. << >> \o s = s
      BY <3>1
    <3>3. QED
      BY <3>1, <3>2
  <2>2. CASE MasterOf[u] # m
    BY <1>6, <2>2
  <2>3. QED
    BY <2>1, <2>2
<1>9. CASE ~(w.op \in Fetched /\ w.last)
  <2>1. \A u \in Worker : Fetch(w, p[1], u) = << >>
    BY <1>9 DEF Fetch
  <2>2. \A d, u \in Worker : Returning(d, u)' = Returning(d, u)
    BY <1>6, <1>8, <2>1
  <2>3. UNCHANGED <<mem, buf, round>>
    BY <1>2, <1>9
  <2>4. QED
    BY <1>5, <2>2, <2>3, MapsToStutter
<1>10. CASE w.op \in Fetched /\ w.last
  <2>1. w.rank \in Worker /\ MasterOf[w.rank] = m /\ v \in Nat
    BY <1>1, <1>4, <1>10 DEF Expects, Recv, RepMsg
  <2>2. PICK t \in Worker, x \in Nat : t = w.rank /\ x = v
    BY <2>1
  <2>3. Fetch(w, p[1], t) = <<x>> /\ \A u \in Worker : u # t => Fetch(w, p[1], u) = << >>
    BY <1>10, <2>2 DEF Fetch
  <2>4. \A d, u \in Worker : d # c \/ u # t => Returning(d, u)' = Returning(d, u)
    BY <1>6, <1>8, <2>3
  <2>5. PICK s \in Seq(Content) : Returning(c, t) = <<x>> \o s /\ Returning(c, t)' = s
    <3>1. /\ Returning(c, t) = Fetch(w, p[1], t) \o rest(t)
          /\ Returning(c, t)' = rest(t) /\ rest(t) \in Seq(Content)
      BY <1>7, <2>1, <2>2
    <3>2. QED
      BY <2>3, <3>1, Zenon
  <2>6. buf' = [buf EXCEPT ![c] = <<t, x>>] /\ UNCHANGED <<mem, round>>
    BY <1>2, <1>10, <2>2
  <2>7. QED
    BY <1>5, <2>4, <2>5, <2>6, MapsToReceive
<1>11. QED
  BY <1>9, <1>10

(* A handler takes the header of a put or an accumulate, or a chunk.       *)
LEMMA HoldMaps ==
  ASSUME RInv, NEW c \in Worker, NEW m \in Master, NEW s \in Busy, s.src = c,
         req[c][m] # << >>, TakeFrom(m, c), serving' = [serving EXCEPT ![m] = s],
         \/ serving[m] = Idle /\ s.msg = req[c][m][1]
         \/ serving[m].src = c /\ s.msg = serving[m].msg /\ req[c][m][1].op = "DATA",
         UNCHANGED <<rep, posted, mem, buf, round>>
  PROVE  UNCHANGED Memory!vars
<1>1. /\ Typed /\ req \in [Worker -> [Master -> Seq(ReqMsg)]] /\ serving \in [Master -> Busy \cup {Idle}]
      /\ req[c][m] \in Seq(ReqMsg) /\ serving[m] \in Busy \cup {Idle}
  BY DEF RInv, IInv, Typed
<1>2. /\ req'[c][m] = Tail(req[c][m])
      /\ \A d \in Worker, n \in Master : d # c \/ n # m => req'[d][n] = req[d][n]
      /\ serving'[m] = s /\ \A n \in Master \ {m} : serving'[n] = serving[n]
  BY <1>1 DEF TakeFrom
<1>3. \A d, u \in Worker : Returning(d, u)' = Returning(d, u)
  BY DEF Returning
<1>4. serving[m] = Idle => \A d \in Worker : serving[m].src # d
  BY ConstantsTyped DEF Idle
<1>5. ASSUME NEW u \in Worker, MasterOf[u] = m
      PROVE  Outstanding(c, u)' = Outstanding(c, u)
  <2>1. /\ Outstanding(c, u) = Line(serving[m], req[c][m], c, u)
        /\ Outstanding(c, u)' = Line(s, Tail(req[c][m]), c, u)
    BY <1>1, <1>2, <1>5, OutstandingIs
  <2>2. \/ serving[m].src # c /\ s.msg = req[c][m][1]
        \/ serving[m].src = c /\ s.msg = serving[m].msg /\ req[c][m][1].op = "DATA"
    BY <1>4
  <2> DEFINE q == req[c][m]
             s0 == serving[m]
  <2>3. /\ q \in Seq(ReqMsg) /\ q # << >> /\ s0 \in Busy \cup {Idle} /\ s \in Busy \cup {Idle}
        /\ s.src = c
        /\ \/ s0.src # c /\ s.msg = q[1]
           \/ s0.src = c /\ s.msg = s0.msg /\ q[1].op = "DATA"
    BY <1>1, <2>2
  <2> HIDE DEF q, s0
  <2>4. Line(s, Tail(q), c, u) = Line(s0, q, c, u)
    BY <2>3, LineHold
  <2>5. QED
    BY <2>1, <2>4 DEF q, s0
<1>6. ASSUME NEW d \in Worker, NEW u \in Worker, d # c \/ MasterOf[u] # m
      PROVE  Outstanding(d, u)' = Outstanding(d, u)
  <2>1. MasterOf[u] \in Master
    BY ConstantsTyped
  <2>2. CASE MasterOf[u] # m
    BY <1>2, <2>1, <2>2, OutstandingSame
  <2>3. CASE MasterOf[u] = m
    <3>1. serving[m].src # d /\ serving'[m].src # d /\ req'[d][m] = req[d][m]
      BY <1>2, <1>4, <1>6, <2>3
    <3>2. QED
      BY <2>3, <3>1 DEF Outstanding
  <2>4. QED
    BY <2>2, <2>3
<1>7. QED
  BY <1>3, <1>5, <1>6, MapsToStutter

(* The progress rank takes request h and answers it with value v.          *)
LEMMA AnswerMaps ==
  ASSUME RInv, NEW c \in Worker, NEW m \in Master, serving[m] = Idle, UNCHANGED <<serving, posted>>,
         req[c][m] # << >>, TakeFrom(m, c), NEW h \in ReqMsg, h = req[c][m][1],
         NEW a \in Seq(RepMsg), server_send(m, c, a), Len(a) = Answers(h),
         NEW v \in Nat, \A k \in 1 .. Len(a) : a[k].val = v
  PROVE  /\ \A u \in Worker : MasterOf[u] = m =>
              /\ Prolongs(Outstanding(c, u), Operation(h, u), Outstanding(c, u)')
              /\ Outstanding(c, u)' \in Seq(Item)
              /\ Prolongs(Returning(c, u)', Returning(c, u), Given(h, v, u))
              /\ Returning(c, u) \in Seq(Content)
         /\ \A d, u \in Worker : d # c \/ MasterOf[u] # m =>
              Outstanding(d, u)' = Outstanding(d, u) /\ Returning(d, u)' = Returning(d, u)
<1> DEFINE q == req[c][m]
           p == rep[c][m]
           r == posted[c][m]
<1>1. /\ Typed /\ req \in [Worker -> [Master -> Seq(ReqMsg)]] /\ rep \in [Worker -> [Master -> Seq(RepMsg)]]
      /\ q \in Seq(ReqMsg) /\ p \in Seq(RepMsg) /\ r \in Seq(Recv) /\ Matched(p, q, r)
  BY SMTT(30) DEF RInv, IInv, Typed, Channel
<1>2. /\ req'[c][m] = Tail(q)
      /\ \A d \in Worker, n \in Master : d # c \/ n # m => req'[d][n] = req[d][n]
  BY <1>1 DEF TakeFrom
<1>3. /\ rep'[c][m] = p \o a
      /\ \A d \in Worker, n \in Master : d # c \/ n # m => rep'[d][n] = rep[d][n]
  BY <1>1 DEF server_send
<1>4. Idle.src # c /\ q # << >> /\ h = q[1]
  BY ConstantsTyped DEF Idle
<1>5. \A k \in 1 .. Answers(h) : r[Len(p) + k] = Wanted(h, k)
  <2>1. PICK off \in [1 .. (Len(q) + 1) -> 0 .. Len(r)] : Offsets(off, Len(p), q, r)
    BY <1>1 DEF Matched
  <2>2. 1 \in 1 .. Len(q)
    BY <1>1, <1>4, TailElements
  <2> HIDE DEF p, q, r
  <2>3. QED
    BY <1>4, <2>1, <2>2 DEF Offsets
<1>6. h.op \in Fetched => Answers(h) > 0
  BY ChunksTyped DEF Fetched, Answers, ReqMsg
<1>7. ASSUME NEW u \in Worker, MasterOf[u] = m
      PROVE  /\ Prolongs(Outstanding(c, u), Operation(h, u), Outstanding(c, u)')
             /\ Outstanding(c, u)' \in Seq(Item)
  <2>1. Outstanding(c, u) = Line(Idle, q, c, u) /\ Outstanding(c, u)' = Line(Idle, Tail(q), c, u)
    BY <1>1, <1>2, <1>7, OutstandingIs
  <2>2. Idle \in Busy \cup {Idle}
    OBVIOUS
  <2> HIDE DEF q
  <2>3. /\ Line(Idle, q, c, u) = Operation(q[1], u) \o Line(Idle, Tail(q), c, u)
        /\ Line(Idle, Tail(q), c, u) \in Seq(Item)
    BY <1>1, <1>4, <2>2, LineTake
  <2>4. QED
    BY <1>4, <2>1, <2>3 DEF Prolongs
<1>8. ASSUME NEW u \in Worker, MasterOf[u] = m
      PROVE  Prolongs(Returning(c, u)', Returning(c, u), Given(h, v, u)) /\ Returning(c, u) \in Seq(Content)
  <2>1. Returning(c, u) = Fetches(p, r, u) /\ Returning(c, u)' = Fetches(p \o a, r, u)
    BY <1>3, <1>8 DEF Returning
  <2> HIDE DEF p, q, r
  <2> DEFINE z == p \o a
  <2>2. Prolongs(Fetches(z, r, u), Fetches(p, r, u), Given(h, v, u))
    <3>1. /\ p \in Seq(RepMsg) /\ a \in Seq(RepMsg) /\ h \in ReqMsg /\ v \in Nat
          /\ Len(a) = Answers(h) /\ \A k \in 1 .. Len(a) : a[k].val = v
          /\ \A k \in 1 .. Answers(h) : r[Len(p) + k] = Wanted(h, k)
          /\ h.op \in Fetched => Answers(h) > 0
          /\ Prolongs(z, p, a)
      BY <1>1, <1>5, <1>6 DEF Prolongs
    <3> HIDE DEF z
    <3>2. QED
      BY <3>1, FetchesAnswer
  <2>3. Fetches(p, r, u) \in Seq(Content)
    BY <1>1, FetchesIs
  <2>4. QED
    BY <2>1, <2>2, <2>3 DEF Prolongs
<1>9. ASSUME NEW d \in Worker, NEW u \in Worker, d # c \/ MasterOf[u] # m
      PROVE  Outstanding(d, u)' = Outstanding(d, u) /\ Returning(d, u)' = Returning(d, u)
  <2>1. MasterOf[u] \in Master
    BY ConstantsTyped
  <2>2. req'[d][MasterOf[u]] = req[d][MasterOf[u]] /\ rep'[d][MasterOf[u]] = rep[d][MasterOf[u]]
    BY <1>2, <1>3, <1>9, <2>1
  <2>3. QED
    BY <2>2, OutstandingSame DEF Returning
<1>10. QED
  BY <1>7, <1>8, <1>9

(* The progress rank serves a fetching request: it takes effect, and the   *)
(* value that was there is the answer.                                     *)
LEMMA FetchMaps ==
  ASSUME RInv, NEW c \in Worker, NEW m \in Master, serving[m] = Idle,
         UNCHANGED <<serving, posted, buf, round>>,
         req[c][m] # << >>, TakeFrom(m, c), NEW h \in ReqMsg, h = req[c][m][1], h.op \in Fetched,
         NEW a \in Seq(RepMsg), server_send(m, c, a), Len(a) = Answers(h),
         \A k \in 1 .. Len(a) : a[k].val = mem[h.rank],
         mem' = [mem EXCEPT ![h.rank] = Memory!Effect([op |-> h.op, val |-> h.val], @)]
  PROVE  Memory!Next
<1>1. h.rank \in Worker /\ mem[h.rank] \in Nat /\ [op |-> h.op, val |-> h.val] \in Item
      /\ MasterOf[h.rank] = m
  <2>1. h.rank \in Worker /\ [op |-> h.op, val |-> h.val] \in Item
    BY DEF ReqMsg, Item, Op
  <2>2. mem[h.rank] \in Nat
    BY <2>1 DEF RInv, IInv, Typed
  <2>3. 1 \in 1 .. Len(req[c][m])
    BY HeadTyped DEF RInv, IInv
  <2>4. MasterOf[h.rank] = m
    BY <2>3 DEF RInv, IInv, Channel, Fetched
  <2>5. QED
    BY <2>1, <2>2, <2>4
<1>2. PICK t \in Worker, v \in Nat, o \in Item :
        t = h.rank /\ v = mem[h.rank] /\ o = [op |-> h.op, val |-> h.val]
  BY <1>1
<1>3. /\ \A u \in Worker : MasterOf[u] = m =>
           /\ Prolongs(Outstanding(c, u), Operation(h, u), Outstanding(c, u)')
           /\ Outstanding(c, u)' \in Seq(Item)
           /\ Prolongs(Returning(c, u)', Returning(c, u), Given(h, v, u))
           /\ Returning(c, u) \in Seq(Content)
      /\ \A d, u \in Worker : d # c \/ MasterOf[u] # m =>
           Outstanding(d, u)' = Outstanding(d, u) /\ Returning(d, u)' = Returning(d, u)
  <2>1. \A k \in 1 .. Len(a) : a[k].val = v
    BY <1>2
  <2>2. UNCHANGED <<serving, posted>>
    OBVIOUS
  <2>3. QED
    BY <2>1, <2>2, AnswerMaps
<1>4. \A u \in Worker : u # t => Operation(h, u) = << >> /\ Given(h, v, u) = << >>
  BY <1>2 DEF Operation, Given
<1>5. Operation(h, t) = <<o>> /\ Given(h, v, t) = <<v>> /\ o.op \in Fetched
  BY <1>2 DEF Operation, Given, Op
<1>6. ASSUME NEW u \in Worker, MasterOf[u] = m, u # t
      PROVE  Outstanding(c, u)' = Outstanding(c, u) /\ Returning(c, u)' = Returning(c, u)
  <2> DEFINE x == Outstanding(c, u)'
             y == Returning(c, u)
  <2>1. /\ Outstanding(c, u) = << >> \o x /\ x \in Seq(Item)
        /\ Returning(c, u)' = y \o << >> /\ y \in Seq(Content)
    BY <1>3, <1>4, <1>6 DEF Prolongs
  <2> HIDE DEF x, y
  <2>2. << >> \o x = x /\ y \o << >> = y
    BY <2>1
  <2>3. QED
    BY <2>1, <2>2 DEF x, y
<1>7. \A d, u \in Worker : d # c \/ u # t =>
        Outstanding(d, u)' = Outstanding(d, u) /\ Returning(d, u)' = Returning(d, u)
  BY SMTT(30), <1>3, <1>6
<1>8. PICK rest \in Seq(Item) : rest = Outstanding(c, t)' /\ Prolongs(Outstanding(c, t), <<o>>, rest)
  BY <1>1, <1>2, <1>3, <1>5
<1>9. Prolongs(Outstanding(c, t), <<o>>, rest) /\ Outstanding(c, t)' = rest
  BY <1>8
<1>10. /\ Returning(c, t) \in Seq(Content)
       /\ Prolongs(Returning(c, t)', Returning(c, t), <<v>>)
  BY SMTT(30), <1>1, <1>2, <1>3, <1>5
<1>11. Prolongs(Returning(c, t)', Returning(c, t), IF o.op \in Fetched THEN <<mem[t]>> ELSE << >>)
  BY <1>2, <1>5, <1>10
<1>12. mem' = [mem EXCEPT ![t] = Memory!Effect(o, @)] /\ UNCHANGED <<buf, round>> /\ mem[t] \in Nat
  BY <1>1, <1>2
<1>13. /\ \A d, u \in Worker : d # c \/ u # t => Outstanding(d, u)' = Outstanding(d, u)
       /\ \A d, u \in Worker : d # c \/ u # t => Returning(d, u)' = Returning(d, u)
  BY <1>7
<1>14. QED
  BY ZenonT(60), <1>9, <1>10, <1>11, <1>12, <1>13, MapsToApply

(* The progress rank takes a message.                                      *)
LEMMA ServerMaps ==
  ASSUME RInv, NEW c \in Worker, NEW m \in Master, progress_server(m, c)
  PROVE  Memory!Next \/ UNCHANGED Memory!vars
<1>1. req[c][m] # << >> /\ TakeFrom(m, c) /\ UNCHANGED <<posted, buf, round>>
  BY DEF progress_server, WriteBegin, server_recv, get_handler, rmw_handler, fence_handler, Pending
<1>2. PICK h \in ReqMsg : h = req[c][m][1] /\ Head(req[c][m]) = h
  BY <1>1, HeadTyped DEF RInv, IInv
<1>3. /\ serving \in [Master -> Busy \cup {Idle}] /\ mem \in [Worker -> Nat]
      /\ req[c][m] \in Seq(ReqMsg) /\ Channel(c, m) /\ serving[m] \in Busy \cup {Idle}
      /\ rep \in [Worker -> [Master -> Seq(RepMsg)]] /\ 1 \in 1 .. Len(req[c][m])
  BY <1>1, HeadTyped DEF RInv, IInv, Typed
<1>4. CASE WriteBegin(m, c)
  <2> DEFINE s == [src |-> c, msg |-> h, left |-> Following(h)]
  <2>1. /\ h.op \in Written /\ serving[m] = Idle /\ UNCHANGED <<rep, mem>>
        /\ serving' = [serving EXCEPT ![m] = s]
    BY <1>2, <1>4 DEF WriteBegin, Pending, Begin, Following
  <2>2. s \in Busy /\ s.src = c /\ s.msg = req[c][m][1]
    BY <1>2, <2>1, CountsTyped DEF Busy, ReqMsg
  <2> HIDE DEF s
  <2>3. UNCHANGED <<rep, posted, mem, buf, round>>
    BY <1>1, <2>1
  <2>4. QED
    BY <1>1, <2>1, <2>2, <2>3, HoldMaps
<1>5. CASE server_recv(m, c)
  <2>1. /\ serving[m].src = c /\ serving[m].left > 0 /\ UNCHANGED <<rep, mem>> /\ serving[m] \in Busy
    BY <1>3, <1>5, ConstantsTyped DEF server_recv, Idle
  <2>2. h.op = "DATA" /\ h.val = serving[m].msg.val
    BY <1>1, <1>2, <1>3, <2>1, ChunkNext DEF Channel
  <2> DEFINE s == [src |-> c, msg |-> serving[m].msg, left |-> serving[m].left - 1]
  <2>3. Message(serving[m].msg.op, serving[m].msg.rank, h.val) = serving[m].msg
    BY <2>1, <2>2 DEF Message, Busy
  <2>4. serving' = [serving EXCEPT ![m] = s]
    BY <1>2, <1>5, <2>3 DEF server_recv
  <2>5. s \in Busy /\ s.src = c /\ s.msg = serving[m].msg
    BY <2>1 DEF Busy
  <2>6. PICK s2 \in Busy : s2 = s
    BY <2>5
  <2> HIDE DEF s
  <2>7. UNCHANGED <<rep, posted, mem, buf, round>>
    BY <1>1, <2>1
  <2>8. /\ serving' = [serving EXCEPT ![m] = s2] /\ s2.src = c
        /\ serving[m].src = c /\ s2.msg = serving[m].msg /\ req[c][m][1].op = "DATA"
    BY SMTT(30), <1>2, <2>1, <2>2, <2>4, <2>5, <2>6
  <2>9. QED
    BY <1>1, <2>7, <2>8, HoldMaps
<1>6. CASE get_handler(m, c)
  <2> DEFINE n == Chunks(Length[h.rank])
             d == Message("DATA", h.rank, mem[h.rank])
  <2>1. /\ h.op = "GET" /\ serving[m] = Idle /\ UNCHANGED <<serving, mem>>
        /\ server_send(m, c, [i \in 1 .. n |-> d])
    BY <1>2, <1>6 DEF get_handler, Pending
  <2>2. n \in Nat /\ d \in RepMsg /\ d.val = mem[h.rank] /\ Answers(h) = n /\ h.rank \in Worker
    BY <1>2, <1>3, <2>1, ChunksTyped DEF ReqMsg, RepMsg, Message, Answers
  <2> HIDE DEF n, d
  <2>3. PICK a \in Seq(RepMsg) : a = [i \in 1 .. n |-> d]
    <3>1. [i \in 1 .. n |-> d] \in Seq(RepMsg)
      BY <2>2
    <3>2. QED
      BY <3>1, Zenon
  <2>4. Len(a) = Answers(h) /\ \A k \in 1 .. Len(a) : a[k].val = mem[h.rank]
    BY <2>2, <2>3
  <2>5. mem' = [mem EXCEPT ![h.rank] = Memory!Effect([op |-> h.op, val |-> h.val], @)]
    <3>1. Memory!Effect([op |-> h.op, val |-> h.val], mem[h.rank]) = mem[h.rank]
      BY <2>1, EffectIs
    <3>2. QED
      BY <1>3, <2>1, <2>2, <3>1
  <2>6. /\ UNCHANGED <<serving, posted, buf, round>> /\ h.op \in Fetched
        /\ server_send(m, c, a)
    BY <1>1, <2>1, <2>3 DEF Fetched
  <2>7. QED
    BY <1>1, <1>2, <2>1, <2>4, <2>5, <2>6, FetchMaps
<1>7. CASE rmw_handler(m, c)
  <2> DEFINE d == Message("DATA", h.rank, mem[h.rank])
  <2>1. /\ h.op \in RMW /\ serving[m] = Idle /\ UNCHANGED serving
        /\ server_send(m, c, <<d>>)
        /\ mem' = [mem EXCEPT ![h.rank] = IF h.op = "SWAP" THEN h.val ELSE @ + h.val]
    BY <1>2, <1>7 DEF rmw_handler, Pending, RMW
  <2>2. d \in RepMsg /\ d.val = mem[h.rank] /\ Answers(h) = 1
    BY <1>2, <1>3, <2>1 DEF ReqMsg, RepMsg, Message, Answers, RMW
  <2> HIDE DEF d
  <2>3. PICK a \in Seq(RepMsg) : a = <<d>>
    BY <2>2, Singleton, Zenon
  <2>4. Len(a) = Answers(h) /\ \A k \in 1 .. Len(a) : a[k].val = mem[h.rank]
    BY <2>2, <2>3
  <2>5. mem' = [mem EXCEPT ![h.rank] = Memory!Effect([op |-> h.op, val |-> h.val], @)]
    <3>1. \A old : Memory!Effect([op |-> h.op, val |-> h.val], old)
                     = IF h.op = "SWAP" THEN h.val ELSE old + h.val
      BY <2>1, EffectIs DEF RMW
    <3>2. QED
      BY <2>1, <3>1
  <2>6. /\ UNCHANGED <<serving, posted, buf, round>> /\ h.op \in Fetched
        /\ server_send(m, c, a)
    BY <1>1, <2>1, <2>3 DEF Fetched, RMW
  <2>7. QED
    BY <1>1, <1>2, <2>1, <2>4, <2>5, <2>6, FetchMaps
<1>8. CASE fence_handler(m, c)
  <2> DEFINE d == Message("ACK", c, 0)
  <2>1. /\ h.op = "FENCE" /\ serving[m] = Idle /\ UNCHANGED <<serving, mem>>
        /\ server_send(m, c, <<d>>)
    BY <1>2, <1>8 DEF fence_handler, Pending
  <2>2. d \in RepMsg /\ d.val = 0 /\ Answers(h) = 1
    BY <2>1 DEF RepMsg, Message, Answers
  <2> HIDE DEF d
  <2>3. PICK a \in Seq(RepMsg) : a = <<d>>
    BY <2>2, Singleton, Zenon
  <2>4. /\ Len(a) = Answers(h) /\ \A k \in 1 .. Len(a) : a[k].val = 0
        /\ server_send(m, c, a) /\ UNCHANGED <<serving, posted>> /\ 0 \in Nat
    BY <1>1, <2>1, <2>2, <2>3
  <2>5. /\ \A u \in Worker : MasterOf[u] = m =>
             /\ Prolongs(Outstanding(c, u), Operation(h, u), Outstanding(c, u)')
             /\ Outstanding(c, u)' \in Seq(Item)
             /\ Prolongs(Returning(c, u)', Returning(c, u), Given(h, 0, u))
             /\ Returning(c, u) \in Seq(Content)
        /\ \A d2, u \in Worker : d2 # c \/ MasterOf[u] # m =>
             Outstanding(d2, u)' = Outstanding(d2, u) /\ Returning(d2, u)' = Returning(d2, u)
    <3>1. /\ serving[m] = Idle /\ UNCHANGED <<serving, posted>> /\ req[c][m] # << >> /\ TakeFrom(m, c)
          /\ h = req[c][m][1] /\ server_send(m, c, a) /\ Len(a) = Answers(h) /\ 0 \in Nat
          /\ \A k \in 1 .. Len(a) : a[k].val = 0
      BY <1>1, <1>2, <2>1, <2>4
    <3>2. QED
      BY <3>1, AnswerMaps
  <2>6. ASSUME NEW u \in Worker, MasterOf[u] = m
        PROVE  Outstanding(c, u)' = Outstanding(c, u) /\ Returning(c, u)' = Returning(c, u)
    <3> DEFINE x == Outstanding(c, u)'
               y == Returning(c, u)
    <3>1. Operation(h, u) = << >> /\ Given(h, 0, u) = << >>
      BY <2>1 DEF Operation, Given, Op, Written, Fetched
    <3>2. /\ Outstanding(c, u) = << >> \o x /\ x \in Seq(Item)
          /\ Returning(c, u)' = y \o << >> /\ y \in Seq(Content)
      BY <2>5, <2>6, <3>1 DEF Prolongs
    <3> HIDE DEF x, y
    <3>3. << >> \o x = x /\ y \o << >> = y
      BY <3>2
    <3>4. QED
      BY <3>2, <3>3 DEF x, y
  <2>7. \A e, u \in Worker : Outstanding(e, u)' = Outstanding(e, u) /\ Returning(e, u)' = Returning(e, u)
    BY <2>5, <2>6
  <2>8. UNCHANGED <<mem, buf, round>>
    BY <1>1, <2>1
  <2>9. QED
    BY <2>7, <2>8, MapsToStutter
<1>9. QED
  BY <1>4, <1>5, <1>6, <1>7, <1>8 DEF progress_server

(* A handler is done with a put or an accumulate: it takes effect.         *)
LEMMA DoneMaps ==
  ASSUME RInv, NEW m \in Master, serving[m].msg.op \in Written,
         serving' = [serving EXCEPT ![m] = Idle], UNCHANGED <<req, rep, posted, buf, round>>,
         NEW o \in Item, o = [op |-> serving[m].msg.op, val |-> serving[m].msg.val],
         mem' = [mem EXCEPT ![serving[m].msg.rank] = Memory!Effect(o, @)]
  PROVE  Memory!Next
<1>1. serving \in [Master -> Busy \cup {Idle}] /\ Typed /\ mem \in [Worker -> Nat]
  BY DEF RInv, IInv, Typed
<1>2. serving[m] # Idle /\ serving[m] \in Busy
  BY <1>1 DEF Idle, NoOp, Message, Written
<1>3. PICK c \in Worker, t \in Worker : c = serving[m].src /\ t = serving[m].msg.rank
  BY <1>2 DEF Busy
<1>4. MasterOf[t] = m
  BY <1>2, <1>3 DEF RInv, Serves
<1>5. serving'[m] = Idle /\ \A n \in Master \ {m} : serving'[n] = serving[n]
  BY <1>1
<1>6. /\ \A u \in Worker : u # t => Held(serving[m], c, u) = << >>
      /\ Held(serving[m], c, t) = <<o>>
  BY <1>3 DEF Held, Operation, Op
<1>7. ASSUME NEW u \in Worker, MasterOf[u] = m
      PROVE  /\ Prolongs(Outstanding(c, u), Held(serving[m], c, u), Outstanding(c, u)')
             /\ Outstanding(c, u)' \in Seq(Item)
  <2> DEFINE q == req[c][m]
             s == serving[m]
  <2>1. /\ Outstanding(c, u) = Line(s, q, c, u) /\ Outstanding(c, u)' = Line(Idle, q, c, u)
        /\ s \in Busy \cup {Idle} /\ q \in Seq(ReqMsg)
    BY <1>1, <1>5, <1>7, OutstandingIs
  <2> HIDE DEF q, s
  <2>2. /\ Line(s, q, c, u) = Held(s, c, u) \o Line(Idle, q, c, u)
        /\ Line(Idle, q, c, u) \in Seq(Item)
    BY Zenon, <2>1, LineDone
  <2>3. QED
    BY <2>1, <2>2 DEF s, Prolongs
<1>8. ASSUME NEW d \in Worker, NEW u \in Worker, d # c \/ u # t
      PROVE  Outstanding(d, u)' = Outstanding(d, u)
  <2>1. MasterOf[u] \in Master
    BY ConstantsTyped
  <2>2. CASE MasterOf[u] # m
    BY <1>5, <2>1, <2>2, OutstandingSame
  <2>3. CASE MasterOf[u] = m /\ d # c
    <3>1. serving[m].src # d /\ serving'[m].src # d
      BY <1>3, <1>5, <2>3, ConstantsTyped DEF Idle
    <3>2. QED
      BY <2>3, <3>1 DEF Outstanding
  <2>4. CASE MasterOf[u] = m /\ d = c
    <3> DEFINE x == Outstanding(c, u)'
    <3>1. Outstanding(c, u) = << >> \o x /\ x \in Seq(Item)
      BY <1>6, <1>7, <1>8, <2>4 DEF Prolongs
    <3> HIDE DEF x
    <3>2. << >> \o x = x
      BY <3>1
    <3>3. QED
      BY <2>4, <3>1, <3>2 DEF x
  <2>5. QED
    BY <2>2, <2>3, <2>4
<1>9. \A d, u \in Worker : Returning(d, u)' = Returning(d, u)
  BY DEF Returning
<1>10. PICK rest \in Seq(Item) : rest = Outstanding(c, t)' /\ Prolongs(Outstanding(c, t), <<o>>, rest)
  BY <1>4, <1>6, <1>7
<1>11. Returning(c, t) \in Seq(Content)
  <2>1. MasterOf[t] \in Master
    BY ConstantsTyped
  <2>2. rep[c][MasterOf[t]] \in Seq(RepMsg)
    BY <1>1, <2>1 DEF Typed
  <2>3. QED
    BY <2>2, FetchesIs DEF Returning
<1>12. Prolongs(Returning(c, t)', Returning(c, t), IF o.op \in Fetched THEN <<mem[t]>> ELSE << >>)
  <2> DEFINE y == Returning(c, t)
  <2>1. y \in Seq(Content) /\ Returning(c, t)' = y
    BY <1>9, <1>11
  <2> HIDE DEF y
  <2>2. y \o << >> = y
    BY <2>1
  <2>3. (IF o.op \in Fetched THEN <<mem[t]>> ELSE << >>) = << >>
    BY DEF Written, Fetched
  <2>4. Prolongs(y, y, << >>)
    BY <2>2 DEF Prolongs
  <2>5. QED
    BY <2>1, <2>3, <2>4 DEF y
<1>13. mem' = [mem EXCEPT ![t] = Memory!Effect(o, @)] /\ UNCHANGED <<buf, round>> /\ mem[t] \in Nat
  BY <1>1, <1>3
<1>14. \A d, u \in Worker : d # c \/ u # t => Returning(d, u)' = Returning(d, u)
  BY <1>9
<1>15. QED
  BY ZenonT(60), <1>8, <1>10, <1>11, <1>12, <1>13, <1>14, MapsToApply

(* The progress rank goes on with a put or an accumulate.                  *)
LEMMA HandleMaps ==
  ASSUME RInv, NEW m \in Master, Handle(m)
  PROVE  Memory!Next \/ UNCHANGED Memory!vars
<1> DEFINE msg == serving[m].msg
<1>1. serving \in [Master -> Busy \cup {Idle}] /\ mem \in [Worker -> Nat] /\ msg.op \in Written
  BY DEF RInv, IInv, Typed, Handle, PutEnd, HandlerAccRead, HandlerAccWrite, HasPayload, Written
<1>2. serving[m] \in Busy
  BY <1>1 DEF Idle, NoOp, Message, Written
<1>3. PICK o \in Item : o = [op |-> msg.op, val |-> msg.val]
  BY <1>2 DEF Busy, Item, Op
<1>4. CASE HandlerAccRead(m)
  BY <1>4, QuietMaps DEF HandlerAccRead
<1>5. CASE PutEnd(m)
  <2>1. /\ msg.op = "PUT" /\ mem' = [mem EXCEPT ![msg.rank] = msg.val]
        /\ serving' = [serving EXCEPT ![m] = Idle] /\ UNCHANGED <<req, rep, posted, buf, round>>
    BY <1>5 DEF PutEnd, HasPayload
  <2>2. \A old : Memory!Effect(o, old) = msg.val
    BY <1>3, <2>1, EffectIs
  <2>3. mem' = [mem EXCEPT ![msg.rank] = Memory!Effect(o, @)]
    BY <2>1, <2>2
  <2>4. QED
    BY <1>1, <1>3, <2>1, <2>3, DoneMaps
<1>6. CASE HandlerAccWrite(m)
  <2>1. /\ msg.op = "ACC" /\ mem' = [mem EXCEPT ![msg.rank] = tmp[m] + msg.val]
        /\ semaphores[msg.rank] = m
        /\ serving' = [serving EXCEPT ![m] = Idle] /\ UNCHANGED <<req, rep, posted, buf, round>>
    BY <1>6 DEF HandlerAccWrite, HasPayload, AccWrite
  <2>2. tmp[m] = mem[msg.rank]
    <3>1. msg.rank \in Worker /\ m # NoRank
      BY <1>2, ConstantsTyped DEF Busy
    <3>2. QED
      BY <2>1, <3>1 DEF RInv, Locked
  <2>3. \A old : Memory!Effect(o, old) = old + msg.val
    BY <1>3, <2>1, EffectIs
  <2>4. mem' = [mem EXCEPT ![msg.rank] = Memory!Effect(o, @)]
    BY <2>1, <2>2, <2>3
  <2>5. QED
    BY <1>1, <1>3, <2>1, <2>4, DoneMaps
<1>7. QED
  BY <1>4, <1>5, <1>6 DEF Handle

(* Nothing is under way at first.                                          *)
LEMMA RefinementInit == Init => Memory!Init
<1> SUFFICES ASSUME Init PROVE Memory!Init
  OBVIOUS
<1>1. ASSUME NEW c \in Worker, NEW t \in Worker
      PROVE  Outstanding(c, t) = << >> /\ Returning(c, t) = << >>
  <2>1. /\ MasterOf[t] \in Master /\ req[c][MasterOf[t]] = << >> /\ rep[c][MasterOf[t]] = << >>
        /\ serving[MasterOf[t]].src # c
    BY ConstantsTyped DEF Init, Idle
  <2>2. << >> \o << >> = << >> /\ << >> \in Seq(ReqMsg) /\ << >> \in Seq(RepMsg) /\ Len(<< >>) = 0
    OBVIOUS
  <2>3. Outstanding(c, t) = Operations(<< >>, t)
    BY <2>1, <2>2 DEF Outstanding
  <2>4. Returning(c, t) = Fetches(<< >>, posted[c][MasterOf[t]], t)
    BY <2>1 DEF Returning
  <2>5. ASSUME NEW q \in Seq(ReqMsg), q = << >>
        PROVE  Operations(q, t) = << >>
    <3>1. 1 .. Len(q) = {}
      BY <2>5
    <3>2. \A i \in 1 .. Len(q) : q[i].rank # t \/ q[i].op \notin Op
      BY <3>1, Zenon
    <3>3. QED
      BY ONLY <2>5, <3>2, OperationsSilent
  <2>6. ASSUME NEW p \in Seq(RepMsg), p = << >>, NEW r
        PROVE  Fetches(p, r, t) = << >>
    <3>1. 1 .. Len(p) = {}
      BY <2>6
    <3>2. \A i \in 1 .. Len(p) : r[i].rank # t \/ r[i].op \notin Fetched \/ ~r[i].last
      BY <3>1, Zenon
    <3>3. QED
      BY ONLY <2>6, <3>2, FetchesSilent
  <2>7. QED
    BY <2>2, <2>3, <2>4, <2>5, <2>6
<1>2. QED
  BY <1>1 DEF Init, Memory!Init

(* Every step of the runtime is a step of the memory, or none.             *)
LEMMA RefinementStep ==
  ASSUME GetsTakeShortcuts, RInv, AllExpect, [Next]_vars
  PROVE  [Memory!Next]_(Memory!vars)
<1>1. CASE UNCHANGED vars
  BY <1>1, QuietMaps DEF vars
<1>2. CASE Next
  BY <1>2, BarrierMaps, CallMaps, ContinueMaps, FenceMaps, RecvMaps, ServerMaps, HandleMaps DEF Next
<1>3. QED
  BY <1>1, <1>2

(* The runtime implements the memory of OneSidedMemory for any mixture of  *)
(* messages and shared memory in which gets take the shortcuts that puts   *)
(* or accumulates take.                                                    *)
THEOREM Refinement == ASSUME GetsTakeShortcuts PROVE Spec => ImplementsMemory
<1>1. Init => RInv /\ AllExpect
  <2>1. Init => AllExpect
    BY DEF Init, AllExpect, Expects
  <2>2. QED
    BY <2>1, MeaningInit
<1>2. RInv /\ AllExpect /\ [Next]_vars => (RInv /\ AllExpect)'
  BY MeaningStep, ExpectsStep DEF RInv, IInv
<1>3. Init => Memory!Init
  BY RefinementInit
<1>4. RInv /\ AllExpect /\ [Next]_vars => [Memory!Next]_(Memory!vars)
  BY RefinementStep
<1>5. QED
  BY <1>1, <1>2, <1>3, <1>4, PTL DEF Spec, ImplementsMemory, Memory!Spec
=============================================================================
