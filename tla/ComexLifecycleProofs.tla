------------------------ MODULE ComexLifecycleProofs ------------------------
(***************************************************************************)
(* Proofs about start-up and shutdown of the progress-rank runtime, for    *)
(* any number of ranks, nodes and operations, and any layout.              *)
(***************************************************************************)
EXTENDS ComexLifecycle, ProgressRanksProofs

-----------------------------------------------------------------------------
(* The inductive invariant of each rank by itself.                         *)

Typed ==
  /\ layout \in Layouts
  /\ pc \in [Rank -> Point]
  /\ master \in [Rank -> Rank]
  /\ fence_array \in [Rank -> SUBSET Rank]
  /\ req \in [Rank -> [Rank -> Seq(Request)]]
  /\ rep \in [Rank -> [Rank -> Nat]]
  /\ posted \in [Rank -> [Rank -> Nat]]
  /\ semaphores \in SUBSET Rank
  /\ ops \in [Rank -> 0 .. MaxOps]
  /\ inits \in 0 .. MaxInits

Answers(h) == IF h.op \in {"GET", "FENCE"} THEN 1 ELSE 0

(* p receives are posted for n replies in flight and the ones that the     *)
(* requests in q will have: f counts them along the channel.               *)
Counts(f, n, q, p) ==
  /\ f[1] = n /\ f[Len(q) + 1] = p
  /\ \A i, j \in 1 .. (Len(q) + 1) : i <= j => f[i] <= f[j]
  /\ \A i \in 1 .. Len(q) : f[i + 1] = f[i] + Answers(q[i])

Counted(n, q, p) == \E f \in [1 .. (Len(q) + 1) -> n .. p] : Counts(f, n, q, p)

(* Points at which a worker may have receives posted.                      *)
Waiting == {"user", "fence1", "barrier1", "free", "wait"}

(* The channel from c to m: n replies and the requests q in flight, p      *)
(* receives posted, after o operations of c, whose flags are F, at a point *)
(* of comex_finalize.                                                      *)
Balance(n, q, p, o, F, m, at) ==
  /\ Counted(n, q, p)
  /\ p <= o + 1
  /\ at # "fence1" \/ m \notin F => p <= o
  /\ at \notin Waiting => p = 0
  /\ m \notin F => \A i \in 1 .. Len(q) : q[i].op # "ACC"
  /\ at = "fence1" /\ m \in F /\ q # << >> => q[Len(q)].op = "FENCE"

Account(c, m) ==
  Balance(rep[c][m], req[c][m], posted[c][m], ops[c], fence_array[c], m, pc[c])

Flags(c) ==
  /\ pc[c] \notin {"user", "fence1"} => fence_array[c] = {}
  /\ pc[c] # "fence2"

RankInv ==
  /\ Typed
  /\ \A c, m \in Rank : Account(c, m)
  /\ \A c \in Rank : Flags(c)

-----------------------------------------------------------------------------
(* The inductive invariant of the job.                                     *)

(* The layouts of a job divide its ranks well: see DivisionServes.         *)
LayoutsServed == \A l \in Layouts : Refused(l) \/ ServesNodes(l, AllMasters(l))

Notifier(c, m) == master[c] = m /\ c # m /\ Notifies(layout, master, c)

Divided == ~Refused(layout) /\ master = AllMasters(layout)

AllAt(S, T) ==
  \A r \in Rank : IF IsMaster(r) THEN pc[r] \in S ELSE pc[r] \in T

NoQuit == \A c, m \in Rank : \A i \in 1 .. Len(req[c][m]) : req[c][m][i].op # "QUIT"

(* Nothing but OP_QUIT is left, from the notifier of a progress rank that  *)
(* still serves.                                                           *)
Stopping ==
  /\ \A c, m \in Rank :
       \/ req[c][m] = << >>
       \/ /\ req[c][m] = <<Req("QUIT", 0)>>
          /\ pc[m] = "serving" /\ pc[c] = "world" /\ Notifier(c, m)
  /\ \A c, m \in Rank : pc[m] = "world" /\ IsMaster(m) /\ Notifier(c, m) => pc[c] = "world"

Asleep == AllAt({"off", "aborted"}, {"off", "aborted"}) /\ \A c, m \in Rank : req[c][m] = << >>
Running == Divided /\ AllAt({"serving"}, {"user", "fence1", "barrier1"}) /\ NoQuit /\ semaphores = Rank
Draining == Divided /\ AllAt({"serving"}, {"free", "wait", "barrier2"}) /\ NoQuit
Leaving == Divided /\ AllAt({"serving", "world"}, {"notify", "world"}) /\ Stopping

IInv == RankInv /\ (Asleep \/ Running \/ Draining \/ Leaving)

-----------------------------------------------------------------------------
(* Counting the answers of a channel.                                      *)

(* A request has one answer or none.                                       *)
LEMMA AnswersType ==
  ASSUME NEW h
  PROVE  Answers(h) \in {0, 1}
BY DEF Answers

(* No more replies are in flight than receives are posted.                 *)
LEMMA CountedLe ==
  ASSUME NEW n \in Nat, NEW p \in Nat, NEW q \in Seq(Request), Counted(n, q, p)
  PROVE  n <= p
<1>1. PICK f \in [1 .. (Len(q) + 1) -> n .. p] : Counts(f, n, q, p)
  BY DEF Counted
<1>2. Len(q) \in Nat /\ 1 \in 1 .. (Len(q) + 1) /\ Len(q) + 1 \in 1 .. (Len(q) + 1)
  OBVIOUS
<1>3. f[1] = n /\ f[Len(q) + 1] = p /\ f[1] <= f[Len(q) + 1]
  BY <1>1, <1>2 DEF Counts
<1>4. QED
  BY <1>3

(* When no receive is posted, no reply and no request that has one is on   *)
(* its way.                                                                *)
LEMMA CountedZero ==
  ASSUME NEW n \in Nat, NEW q \in Seq(Request), Counted(n, q, 0)
  PROVE  n = 0 /\ \A i \in 1 .. Len(q) : q[i].op \notin {"GET", "FENCE"}
<1>1. n = 0
  BY CountedLe
<1>2. PICK f \in [1 .. (Len(q) + 1) -> n .. 0] : Counts(f, n, q, 0)
  BY DEF Counted
<1>3. ASSUME NEW i \in 1 .. Len(q) PROVE q[i].op \notin {"GET", "FENCE"}
  <2>1. i \in 1 .. (Len(q) + 1) /\ i + 1 \in 1 .. (Len(q) + 1)
    BY <1>3
  <2>2. f[i] = 0 /\ f[i + 1] = 0
    BY <1>1, <1>2, <2>1
  <2>3. f[i + 1] = f[i] + Answers(q[i])
    BY <1>2, <1>3 DEF Counts
  <2>4. Answers(q[i]) = 0
    BY <2>2, <2>3, AnswersType
  <2>5. QED
    BY <2>4 DEF Answers
<1>4. QED
  BY <1>1, <1>3

(* A request that is sent posts the receive of its answer.                 *)
LEMMA CountedAppend ==
  ASSUME NEW n \in Nat, NEW p \in Nat, NEW q \in Seq(Request), NEW h \in Request, Counted(n, q, p)
  PROVE  Counted(n, Append(q, h), p + Answers(h))
<1>1. PICK f \in [1 .. (Len(q) + 1) -> n .. p] : Counts(f, n, q, p)
  BY DEF Counted
<1> DEFINE w == Append(q, h)
           g == [i \in 1 .. (Len(q) + 2) |-> IF i <= Len(q) + 1 THEN f[i] ELSE p + Answers(h)]
<1>2. /\ Len(q) \in Nat /\ Len(w) + 1 = Len(q) + 2
      /\ \A i \in 1 .. Len(q) : w[i] = q[i]
      /\ w[Len(q) + 1] = h
  OBVIOUS
<1>3. Answers(h) \in Nat
  BY AnswersType
<1>4. /\ f[1] = n /\ f[Len(q) + 1] = p
      /\ \A i, j \in 1 .. (Len(q) + 1) : i <= j => f[i] <= f[j]
      /\ \A i \in 1 .. Len(q) : f[i + 1] = f[i] + Answers(q[i])
  BY <1>1 DEF Counts
<1>5. \A i \in 1 .. (Len(q) + 1) : f[i] \in Nat /\ n <= f[i] /\ f[i] <= p
  BY <1>1
<1>6. /\ \A i \in 1 .. (Len(q) + 1) : g[i] = f[i]
      /\ g[Len(q) + 2] = p + Answers(h)
      /\ DOMAIN g = 1 .. (Len(q) + 2)
  BY <1>2
<1> HIDE DEF w, g
<1>7. g \in [1 .. (Len(q) + 2) -> n .. (p + Answers(h))]
  <2>1. \A i \in 1 .. (Len(q) + 2) : g[i] \in n .. (p + Answers(h))
    <3>1. ASSUME NEW i \in 1 .. (Len(q) + 2) PROVE g[i] \in n .. (p + Answers(h))
      <4>1. CASE i \in 1 .. (Len(q) + 1)
        BY <1>3, <1>5, <1>6, <4>1
      <4>2. CASE i = Len(q) + 2
        <5>1. n <= p
          BY CountedLe
        <5>2. QED
          BY <1>3, <1>6, <4>2, <5>1
      <4>3. QED
        BY <1>2, <4>1, <4>2
    <3>2. QED
      BY <3>1
  <2>2. QED
    BY <1>6, <2>1 DEF g
<1>8. Counts(g, n, w, p + Answers(h))
  <2>1. g[1] = n /\ g[Len(w) + 1] = p + Answers(h)
    BY <1>2, <1>4, <1>6
  <2>2. ASSUME NEW i \in 1 .. (Len(w) + 1), NEW j \in 1 .. (Len(w) + 1), i <= j
        PROVE  g[i] <= g[j]
    <3>1. CASE j \in 1 .. (Len(q) + 1)
      <4>1. i \in 1 .. (Len(q) + 1)
        BY <1>2, <2>2, <3>1
      <4>2. g[i] = f[i] /\ g[j] = f[j] /\ f[i] <= f[j]
        BY <1>4, <1>6, <2>2, <3>1, <4>1
      <4>3. QED
        BY <4>2
    <3>2. CASE j = Len(q) + 2
      <4>1. g[i] \in n .. (p + Answers(h)) /\ g[j] = p + Answers(h)
        BY <1>2, <1>6, <1>7, <3>2
      <4>2. QED
        BY <4>1, <1>3
    <3>3. QED
      BY <1>2, <3>1, <3>2
  <2>3. ASSUME NEW i \in 1 .. Len(w) PROVE g[i + 1] = g[i] + Answers(w[i])
    <3>1. CASE i \in 1 .. Len(q)
      <4>1. g[i] = f[i] /\ g[i + 1] = f[i + 1] /\ w[i] = q[i]
        BY <1>2, <1>6, <3>1
      <4>2. QED
        BY <1>4, <3>1, <4>1
    <3>2. CASE i = Len(q) + 1
      <4>1. g[i] = p /\ g[i + 1] = p + Answers(h) /\ w[i] = h
        BY <1>2, <1>4, <1>6, <3>2
      <4>2. QED
        BY <4>1
    <3>3. QED
      BY <1>2, <3>1, <3>2
  <2>4. QED
    BY <2>1, <2>2, <2>3 DEF Counts
<1>9. QED
  BY <1>2, <1>7, <1>8 DEF Counted, w

(* A request that is taken sends its answer.                               *)
LEMMA CountedTake ==
  ASSUME NEW n \in Nat, NEW p \in Nat, NEW q \in Seq(Request), q # << >>, Counted(n, q, p)
  PROVE  Counted(n + Answers(Head(q)), Tail(q), p)
<1>1. PICK f \in [1 .. (Len(q) + 1) -> n .. p] : Counts(f, n, q, p)
  BY DEF Counted
<1> DEFINE w == Tail(q)
           k == n + Answers(Head(q))
           g == [i \in 1 .. Len(q) |-> f[i + 1]]
<1>2. /\ Len(q) \in Nat \ {0} /\ Len(w) + 1 = Len(q)
      /\ \A i \in 1 .. Len(w) : w[i] = q[i + 1]
      /\ Head(q) = q[1]
  OBVIOUS
<1>3. /\ f[1] = n /\ f[Len(q) + 1] = p
      /\ \A i, j \in 1 .. (Len(q) + 1) : i <= j => f[i] <= f[j]
      /\ \A i \in 1 .. Len(q) : f[i + 1] = f[i] + Answers(q[i])
  BY <1>1 DEF Counts
<1>4. \A i \in 1 .. (Len(q) + 1) : f[i] \in Nat /\ n <= f[i] /\ f[i] <= p
  BY <1>1
<1>5. \A i \in 1 .. Len(q) : g[i] = f[i + 1]
  OBVIOUS
<1>6. f[2] = k
  BY <1>2, <1>3
<1> HIDE DEF w, g, k
<1>7. \A i \in 1 .. Len(q) : g[i] \in k .. p
  <2>1. ASSUME NEW i \in 1 .. Len(q) PROVE g[i] \in k .. p
    <3>1. 2 \in 1 .. (Len(q) + 1) /\ i + 1 \in 1 .. (Len(q) + 1) /\ 2 <= i + 1
      BY <1>2
    <3>2. f[2] <= f[i + 1] /\ f[2] \in Nat /\ f[i + 1] \in Nat /\ f[i + 1] <= p
      BY <1>3, <1>4, <3>1
    <3>3. QED
      BY <1>5, <1>6, <3>2
  <2>2. QED
    BY <2>1
<1>8. g \in [1 .. (Len(w) + 1) -> k .. p]
  BY <1>2, <1>7 DEF g
<1>9. Counts(g, k, w, p)
  <2>1. g[1] = k /\ g[Len(w) + 1] = p
    BY <1>2, <1>3, <1>5, <1>6
  <2>2. ASSUME NEW i \in 1 .. (Len(w) + 1), NEW j \in 1 .. (Len(w) + 1), i <= j
        PROVE  g[i] <= g[j]
    <3>1. i + 1 \in 1 .. (Len(q) + 1) /\ j + 1 \in 1 .. (Len(q) + 1) /\ i + 1 <= j + 1
      BY <1>2, <2>2
    <3>2. f[i + 1] <= f[j + 1] /\ g[i] = f[i + 1] /\ g[j] = f[j + 1]
      BY <1>2, <1>3, <1>5, <3>1
    <3>3. QED
      BY <3>2
  <2>3. ASSUME NEW i \in 1 .. Len(w) PROVE g[i + 1] = g[i] + Answers(w[i])
    <3>1. i \in 1 .. Len(q) /\ i + 1 \in 1 .. Len(q)
      BY <1>2
    <3>2. g[i] = f[i + 1] /\ g[i + 1] = f[(i + 1) + 1] /\ w[i] = q[i + 1]
      BY <1>2, <1>5, <3>1
    <3>3. QED
      BY <1>3, <3>1, <3>2
  <2>4. QED
    BY <2>1, <2>2, <2>3 DEF Counts
<1>10. QED
  BY <1>8, <1>9 DEF Counted, w, k

(* A reply that is received completes a posted receive.                    *)
LEMMA CountedRecv ==
  ASSUME NEW n \in Nat, NEW p \in Nat, NEW q \in Seq(Request), n > 0, Counted(n, q, p)
  PROVE  Counted(n - 1, q, p - 1)
<1>1. PICK f \in [1 .. (Len(q) + 1) -> n .. p] : Counts(f, n, q, p)
  BY DEF Counted
<1> DEFINE g == [i \in 1 .. (Len(q) + 1) |-> f[i] - 1]
<1>2. Len(q) \in Nat /\ n - 1 \in Nat
  OBVIOUS
<1>3. /\ f[1] = n /\ f[Len(q) + 1] = p
      /\ \A i, j \in 1 .. (Len(q) + 1) : i <= j => f[i] <= f[j]
      /\ \A i \in 1 .. Len(q) : f[i + 1] = f[i] + Answers(q[i])
  BY <1>1 DEF Counts
<1>4. \A i \in 1 .. (Len(q) + 1) : f[i] \in Nat /\ n <= f[i] /\ f[i] <= p
  BY <1>1
<1>5. \A i \in 1 .. (Len(q) + 1) : g[i] = f[i] - 1
  OBVIOUS
<1> HIDE DEF g
<1>6. \A i \in 1 .. (Len(q) + 1) : g[i] \in (n - 1) .. (p - 1)
  BY <1>2, <1>4, <1>5
<1>7. g \in [1 .. (Len(q) + 1) -> (n - 1) .. (p - 1)]
  BY <1>6 DEF g
<1>8. Counts(g, n - 1, q, p - 1)
  <2>1. g[1] = n - 1 /\ g[Len(q) + 1] = p - 1
    BY <1>2, <1>3, <1>5
  <2>2. ASSUME NEW i \in 1 .. (Len(q) + 1), NEW j \in 1 .. (Len(q) + 1), i <= j
        PROVE  g[i] <= g[j]
    BY <1>3, <1>4, <1>5, <2>2
  <2>3. ASSUME NEW i \in 1 .. Len(q) PROVE g[i + 1] = g[i] + Answers(q[i])
    <3>1. i \in 1 .. (Len(q) + 1) /\ i + 1 \in 1 .. (Len(q) + 1)
      BY <1>2
    <3>2. f[i + 1] = f[i] + Answers(q[i]) /\ f[i] \in Nat /\ Answers(q[i]) \in Nat
      BY <1>3, <1>4, <3>1, AnswersType
    <3>3. QED
      BY <1>5, <3>1, <3>2
  <2>4. QED
    BY <2>1, <2>2, <2>3 DEF Counts
<1>9. QED
  BY <1>7, <1>8 DEF Counted

(* An empty channel.                                                       *)
LEMMA CountedEmpty ==
  Counted(0, << >>, 0)
<1> DEFINE f == [i \in 1 .. 1 |-> 0]
<1>1. f \in [1 .. (Len(<< >>) + 1) -> 0 .. 0]
  OBVIOUS
<1>2. Counts(f, 0, << >>, 0)
  BY DEF Counts
<1>3. QED
  BY <1>1, <1>2 DEF Counted

-----------------------------------------------------------------------------
(* What a step does to a channel.                                          *)

(* The requests of a worker.                                               *)
LEMMA RequestFacts ==
  ASSUME NEW t \in Rank
  PROVE  /\ Req("ACC", t) \in Request /\ Req("ACC", t).op = "ACC" /\ Answers(Req("ACC", t)) = 0
         /\ Req("GET", t) \in Request /\ Req("GET", t).op = "GET" /\ Answers(Req("GET", t)) = 1
         /\ Req("FENCE", t) \in Request /\ Req("FENCE", t).op = "FENCE" /\ Answers(Req("FENCE", t)) = 1
         /\ Req("QUIT", t) \in Request /\ Req("QUIT", t).op = "QUIT" /\ Answers(Req("QUIT", t)) = 0
BY DEF Req, Request, Answers

(* Elements of a queue that grew, and of one that lost its head.           *)
LEMMA AppendFacts ==
  ASSUME NEW S, NEW q \in Seq(S), NEW h \in S
  PROVE  /\ Append(q, h) \in Seq(S) /\ Append(q, h) # << >> /\ Len(q) \in Nat
         /\ Len(Append(q, h)) = Len(q) + 1 /\ Append(q, h)[Len(q) + 1] = h
         /\ \A i \in 1 .. Len(q) : Append(q, h)[i] = q[i]
OBVIOUS

(* The head of a queue and what is left behind it.                         *)
LEMMA TailFacts ==
  ASSUME NEW S, NEW q \in Seq(S), q # << >>
  PROVE  /\ Tail(q) \in Seq(S) /\ Head(q) \in S /\ Len(q) \in Nat \ {0}
         /\ Head(q) = q[1] /\ Len(Tail(q)) = Len(q) - 1
         /\ \A i \in 1 .. Len(Tail(q)) : i + 1 \in 1 .. Len(q) /\ Tail(q)[i] = q[i + 1]
OBVIOUS

(* nb_get.                                                                 *)
LEMMA BalanceGet ==
  ASSUME NEW n \in Nat, NEW q \in Seq(Request), NEW p \in Nat, NEW o \in Nat, NEW F, NEW m,
         NEW t \in Rank, Balance(n, q, p, o, F, m, "user")
  PROVE  Balance(n, Append(q, Req("GET", t)), p + 1, o + 1, F, m, "user")
<1> DEFINE h == Req("GET", t)
           w == Append(q, h)
<1>1. h \in Request /\ h.op = "GET" /\ Answers(h) = 1
  BY RequestFacts
<1> HIDE DEF h
<1>2. Len(q) \in Nat /\ Len(w) = Len(q) + 1 /\ w[Len(q) + 1] = h /\ \A i \in 1 .. Len(q) : w[i] = q[i]
  BY <1>1, AppendFacts
<1>3. Counted(n, w, p + 1)
  BY <1>1, CountedAppend DEF Balance
<1> HIDE DEF w
<1>4. m \notin F => \A i \in 1 .. Len(w) : w[i].op # "ACC"
  <2>1. \A i \in 1 .. Len(w) : i \in 1 .. Len(q) \/ i = Len(q) + 1
    BY <1>2
  <2>2. m \notin F => \A i \in 1 .. Len(q) : q[i].op # "ACC"
    BY DEF Balance
  <2>3. QED
    BY <1>1, <1>2, <2>1, <2>2
<1>5. p <= o
  BY DEF Balance
<1>6. Balance(n, w, p + 1, o + 1, F, m, "user")
  BY <1>3, <1>4, <1>5 DEF Balance, Waiting
<1>7. QED
  BY <1>6 DEF w, h

(* nb_acc.                                                                 *)
LEMMA BalanceAcc ==
  ASSUME NEW n \in Nat, NEW q \in Seq(Request), NEW p \in Nat, NEW o \in Nat, NEW F, NEW m,
         NEW t \in Rank, Balance(n, q, p, o, F, m, "user")
  PROVE  Balance(n, Append(q, Req("ACC", t)), p, o + 1, F \cup {m}, m, "user")
<1>1. Req("ACC", t) \in Request /\ Answers(Req("ACC", t)) = 0
  BY RequestFacts
<1>2. Counted(n, Append(q, Req("ACC", t)), p + 0)
  BY <1>1, CountedAppend DEF Balance
<1>3. p <= o /\ p + 0 = p
  BY DEF Balance
<1>4. QED
  BY <1>2, <1>3 DEF Balance, Waiting

(* An operation to another master.                                         *)
LEMMA BalanceOther ==
  ASSUME NEW n \in Nat, NEW q \in Seq(Request), NEW p \in Nat, NEW o \in Nat, NEW F, NEW m, NEW k,
         Balance(n, q, p, o, F, m, "user")
  PROVE  Balance(n, q, p, o + 1, F, m, "user") /\ Balance(n, q, p, o + 1, F \cup {k}, m, "user")
BY DEF Balance, Waiting

(* comex_fence_all to a flagged master, and to another.                    *)
LEMMA BalanceFence ==
  ASSUME NEW n \in Nat, NEW q \in Seq(Request), NEW p \in Nat, NEW o \in Nat, NEW F, NEW m \in F,
         NEW t \in Rank, Balance(n, q, p, o, F, m, "user")
  PROVE  Balance(n, Append(q, Req("FENCE", t)), p + 1, o, F, m, "fence1")
<1> DEFINE h == Req("FENCE", t)
           w == Append(q, h)
<1>1. h \in Request /\ h.op = "FENCE" /\ Answers(h) = 1
  BY RequestFacts
<1> HIDE DEF h
<1>2. Len(w) = Len(q) + 1 /\ w[Len(q) + 1] = h
  BY <1>1, AppendFacts
<1>3. Counted(n, w, p + 1)
  BY <1>1, CountedAppend DEF Balance
<1> HIDE DEF w
<1>4. p <= o
  BY DEF Balance
<1>5. Balance(n, w, p + 1, o, F, m, "fence1")
  BY <1>1, <1>2, <1>3, <1>4 DEF Balance, Waiting
<1>6. QED
  BY <1>5 DEF w, h

(* comex_fence_all sends nothing to a master whose flag is not raised.     *)
LEMMA BalanceNoFence ==
  ASSUME NEW n \in Nat, NEW q \in Seq(Request), NEW p \in Nat, NEW o \in Nat, NEW F, NEW m,
         NEW at \in {"fence1", "barrier1"}, m \notin F, Balance(n, q, p, o, F, m, "user")
  PROVE  Balance(n, q, p, o, F, m, at)
BY DEF Balance, Waiting

(* FenceDone.                                                              *)
LEMMA BalanceFenceDone ==
  ASSUME NEW n \in Nat, NEW q \in Seq(Request), NEW p \in Nat, NEW o \in Nat, NEW F, NEW m,
         m \in F => p = 0, Balance(n, q, p, o, F, m, "fence1")
  PROVE  Balance(n, q, p, o, {}, m, "barrier1")
<1>1. CASE m \notin F
  BY <1>1 DEF Balance, Waiting
<1>2. CASE m \in F
  <2>1. Len(q) \in Nat
    OBVIOUS
  <2>2. Counted(n, q, p) /\ (q # << >> => q[Len(q)].op = "FENCE")
    BY <1>2 DEF Balance
  <2>3. p = 0 /\ \A i \in 1 .. Len(q) : q[i].op \notin {"GET", "FENCE"}
    BY <1>2, <2>2, CountedZero
  <2>4. q = << >>
    <3>1. CASE q # << >>
      <4>1. Len(q) \in 1 .. Len(q)
        BY <2>1, <3>1
      <4>2. QED
        BY <2>2, <2>3, <3>1, <4>1
    <3>2. QED
      BY <3>1
  <2>5. Len(q) = 0
    BY <2>4
  <2>6. \A i \in 1 .. Len(q) : q[i].op # "ACC"
    BY <2>5
  <2>7. QED
    BY <2>2, <2>3, <2>6 DEF Balance, Waiting
<1>3. QED
  BY <1>1, <1>2

(* OP_QUIT.                                                                *)
LEMMA BalanceQuit ==
  ASSUME NEW n \in Nat, NEW q \in Seq(Request), NEW p \in Nat, NEW o \in Nat, NEW F, NEW m,
         Balance(n, q, p, o, F, m, "notify")
  PROVE  Balance(n, Append(q, Req("QUIT", 0)), p, o, F, m, "world")
<1> DEFINE h == Req("QUIT", 0)
           w == Append(q, h)
<1>1. h \in Request /\ h.op = "QUIT" /\ Answers(h) = 0
  <2>1. 0 \in Rank
    BY SizeAssumption DEF SizeAssumption, Rank
  <2>2. QED
    BY <2>1, RequestFacts
<1> HIDE DEF h
<1>2. Len(q) \in Nat /\ Len(w) = Len(q) + 1 /\ w[Len(q) + 1] = h /\ \A i \in 1 .. Len(q) : w[i] = q[i]
  BY <1>1, AppendFacts
<1>3. Counted(n, w, p + 0) /\ p + 0 = p
  BY <1>1, CountedAppend DEF Balance
<1> HIDE DEF w
<1>4. m \notin F => \A i \in 1 .. Len(w) : w[i].op # "ACC"
  <2>1. \A i \in 1 .. Len(w) : i \in 1 .. Len(q) \/ i = Len(q) + 1
    BY <1>2
  <2>2. m \notin F => \A i \in 1 .. Len(q) : q[i].op # "ACC"
    BY DEF Balance
  <2>3. QED
    BY <1>1, <1>2, <2>1, <2>2
<1>5. Balance(n, w, p, o, F, m, "world")
  BY <1>3, <1>4 DEF Balance, Waiting
<1>6. QED
  BY <1>5 DEF w, h

(* The handler of a progress rank.                                         *)
LEMMA BalanceTake ==
  ASSUME NEW n \in Nat, NEW q \in Seq(Request), NEW p \in Nat, NEW o \in Nat, NEW F, NEW m, NEW at,
         q # << >>, Balance(n, q, p, o, F, m, at)
  PROVE  Balance(n + Answers(Head(q)), Tail(q), p, o, F, m, at)
<1> DEFINE w == Tail(q)
<1>1. /\ Len(q) \in Nat \ {0} /\ Len(w) = Len(q) - 1 /\ w \in Seq(Request)
      /\ \A i \in 1 .. Len(w) : i + 1 \in 1 .. Len(q) /\ w[i] = q[i + 1]
  BY TailFacts
<1>2. Counted(n + Answers(Head(q)), w, p)
  BY CountedTake DEF Balance
<1> HIDE DEF w
<1>3. m \notin F => \A i \in 1 .. Len(w) : w[i].op # "ACC"
  BY <1>1 DEF Balance
<1>4. at = "fence1" /\ m \in F /\ w # << >> => w[Len(w)].op = "FENCE"
  <2>1. CASE w # << >>
    <3>1. Len(w) \in 1 .. Len(w) /\ Len(w) + 1 = Len(q)
      BY <1>1, <2>1
    <3>2. w[Len(w)] = q[Len(q)]
      BY <1>1, <3>1
    <3>3. QED
      BY <3>2 DEF Balance
  <2>2. QED
    BY <2>1
<1>5. Balance(n + Answers(Head(q)), w, p, o, F, m, at)
  BY <1>2, <1>3, <1>4 DEF Balance
<1>6. QED
  BY <1>5 DEF w

(* RecvReply.                                                              *)
LEMMA BalanceRecv ==
  ASSUME NEW n \in Nat, NEW q \in Seq(Request), NEW p \in Nat, NEW o \in Nat, NEW F, NEW m, NEW at,
         n > 0, p > 0, Balance(n, q, p, o, F, m, at)
  PROVE  Balance(n - 1, q, p - 1, o, F, m, at)
<1>1. Counted(n - 1, q, p - 1)
  BY CountedRecv DEF Balance
<1>2. QED
  BY <1>1 DEF Balance

(* A step between points that are not the fence's.                         *)
LEMMA BalanceMove ==
  ASSUME NEW n \in Nat, NEW q \in Seq(Request), NEW p \in Nat, NEW o \in Nat, NEW F, NEW m, NEW at, NEW to,
         at # "fence1", to # "fence1", to \notin Waiting => p = 0, Balance(n, q, p, o, F, m, at)
  PROVE  Balance(n, q, p, o, F, m, to)
BY DEF Balance

(* comex_init.                                                             *)
LEMMA BalanceInit ==
  ASSUME NEW n \in Nat, NEW q \in Seq(Request), NEW p \in Nat, NEW o \in Nat, NEW m,
         NEW to, to # "fence1", Balance(n, q, p, o, {}, m, "off")
  PROVE  Balance(n, q, p, 0, {}, m, to)
BY DEF Balance, Waiting

-----------------------------------------------------------------------------
(* Each action keeps the invariant of the ranks.                           *)

(* A change of one channel.                                                *)
LEMMA OneChannel ==
  ASSUME NEW S, NEW f \in [Rank -> [Rank -> S]], NEW c \in Rank, NEW k \in Rank, NEW v \in S
  PROVE  /\ [f EXCEPT ![c][k] = v] \in [Rank -> [Rank -> S]]
         /\ [f EXCEPT ![c][k] = v][c][k] = v
         /\ \A d, m \in Rank : ~(d = c /\ m = k) => [f EXCEPT ![c][k] = v][d][m] = f[d][m]
OBVIOUS

(* What the invariant says of one channel.                                 *)
LEMMA ChannelParts ==
  ASSUME Typed, NEW c \in Rank, NEW m \in Rank
  PROVE  /\ rep[c][m] \in Nat /\ posted[c][m] \in Nat /\ req[c][m] \in Seq(Request)
         /\ ops[c] \in Nat /\ fence_array[c] \in SUBSET Rank /\ pc[c] \in Point
         /\ rep[c] \in [Rank -> Nat] /\ posted[c] \in [Rank -> Nat]
         /\ req[c] \in [Rank -> Seq(Request)] /\ master[c] \in Rank
<1>1. rep[c] \in [Rank -> Nat] /\ posted[c] \in [Rank -> Nat] /\ req[c] \in [Rank -> Seq(Request)]
  BY DEF Typed
<1>2. rep[c][m] \in Nat /\ posted[c][m] \in Nat
  BY <1>1
<1>3. req[c][m] \in Seq(Request)
  BY <1>1
<1>4. ops[c] \in Nat
  BY LifecycleAssumption DEF Typed, LifecycleAssumption
<1>5. fence_array[c] \in SUBSET Rank /\ pc[c] \in Point /\ master[c] \in Rank
  BY DEF Typed
<1>6. QED
  BY <1>1, <1>2, <1>3, <1>4, <1>5

(* The points of the code.                                                 *)
LEMMA Points ==
  {"off", "aborted", "serving", "world", "user", "fence1", "barrier1", "free", "wait",
   "fence2", "barrier2", "notify"} \subseteq Point
BY DEF Point, WorkerPoint

(* The runtime that has not started.                                       *)
LEMMA RankInit ==
  ASSUME Init
  PROVE  RankInv
<1>1. Typed
  <2>1. << >> \in Seq(Request)
    OBVIOUS
  <2>2. AllPairs(<< >>) \in [Rank -> [Rank -> Seq(Request)]] /\ AllPairs(0) \in [Rank -> [Rank -> Nat]]
    BY <2>1 DEF AllPairs
  <2>3. 0 \in 0 .. MaxOps /\ 0 \in 0 .. MaxInits
    BY LifecycleAssumption DEF LifecycleAssumption
  <2>4. /\ [r \in Rank |-> "off"] \in [Rank -> Point] /\ [r \in Rank |-> r] \in [Rank -> Rank]
        /\ [r \in Rank |-> {}] \in [Rank -> SUBSET Rank] /\ [r \in Rank |-> 0] \in [Rank -> 0 .. MaxOps]
    BY <2>3, Points
  <2>5. QED
    BY <2>2, <2>3, <2>4 DEF Init, Typed
<1>2. ASSUME NEW c \in Rank, NEW m \in Rank PROVE Account(c, m)
  <2>1. /\ rep[c][m] = 0 /\ req[c][m] = << >> /\ posted[c][m] = 0 /\ ops[c] = 0 /\ pc[c] = "off"
        /\ fence_array[c] = {}
    BY DEF Init, AllPairs
  <2>2. Balance(0, << >>, 0, 0, {}, m, "off")
    BY CountedEmpty DEF Balance
  <2>3. QED
    BY <2>1, <2>2 DEF Account
<1>3. ASSUME NEW c \in Rank PROVE Flags(c)
  BY DEF Init, Flags
<1>4. QED
  BY <1>1, <1>2, <1>3 DEF RankInv

(* comex_init.                                                             *)
LEMMA RankComexInit ==
  ASSUME RankInv, comex_init
  PROVE  RankInv'
<1>1. Typed /\ inits' \in 0 .. MaxInits
  BY LifecycleAssumption DEF RankInv, Typed, comex_init, LifecycleAssumption
<1>2. CASE Refused(layout)
  <2>1. /\ pc' = [r \in Rank |-> "aborted"]
        /\ UNCHANGED <<layout, master, fence_array, req, rep, posted, semaphores, ops>>
    BY <1>2 DEF comex_init
  <2>2. Typed'
    BY <1>1, <2>1, Points DEF Typed
  <2>3. ASSUME NEW c \in Rank, NEW m \in Rank PROVE Account(c, m)'
    <3>1. Account(c, m) /\ Flags(c) /\ pc[c] = "off" /\ pc'[c] = "aborted"
      BY <2>1 DEF RankInv, comex_init
    <3>2. Balance(rep[c][m], req[c][m], posted[c][m], ops[c], fence_array[c], m, "off")
      BY <3>1 DEF Account
    <3>3. posted[c][m] = 0
      BY <3>2 DEF Balance, Waiting
    <3>4. Balance(rep[c][m], req[c][m], posted[c][m], ops[c], fence_array[c], m, "aborted")
      BY <1>1, <3>2, <3>3, ChannelParts, BalanceMove
    <3>5. QED
      BY <2>1, <3>1, <3>4 DEF Account
  <2>4. ASSUME NEW c \in Rank PROVE Flags(c)'
    BY <2>1 DEF Flags, RankInv, comex_init
  <2>5. QED
    BY <2>2, <2>3, <2>4 DEF RankInv
<1>3. CASE ~Refused(layout)
  <2>1. /\ master' = AllMasters(layout)
        /\ pc' = [r \in Rank |-> IF master'[r] = r THEN "serving" ELSE "user"]
        /\ fence_array' = [r \in Rank |-> {}]
        /\ semaphores' = Rank
        /\ ops' = [r \in Rank |-> 0]
        /\ UNCHANGED <<layout, req, rep, posted>>
    BY <1>3 DEF comex_init
  <2>2. layout \in Layout /\ 0 \in 0 .. MaxOps
    BY <1>1, LifecycleAssumption DEF Typed, LifecycleAssumption
  <2>3. master' \in [Rank -> Rank]
    <3>1. Size \in Nat \ {0} /\ Rank = Ranks(Size) /\ layout \in Environment(Size)
      BY <2>2, SizeAssumption DEF SizeAssumption, Rank, Ranks, Layout, Environment
    <3>2. AllMasters(layout) \in [Rank -> Rank]
      BY <1>3, <3>1, MastersTyped
    <3>3. QED
      BY <2>1, <3>2
  <2>4. Typed'
    BY <1>1, <2>1, <2>2, <2>3, Points DEF Typed
  <2>5. ASSUME NEW c \in Rank, NEW m \in Rank PROVE Account(c, m)'
    <3>1. Account(c, m) /\ Flags(c) /\ pc[c] = "off" /\ pc'[c] \in {"serving", "user"}
      BY <2>1 DEF RankInv, comex_init
    <3>2. fence_array[c] = {} /\ fence_array'[c] = {} /\ ops'[c] = 0
      BY <2>1, <3>1 DEF Flags
    <3>3. Balance(rep[c][m], req[c][m], posted[c][m], ops[c], {}, m, "off")
      BY <3>1, <3>2 DEF Account
    <3>4. Balance(rep[c][m], req[c][m], posted[c][m], 0, {}, m, pc'[c])
      BY <1>1, <3>1, <3>3, ChannelParts, BalanceInit
    <3>5. QED
      BY <2>1, <3>2, <3>4 DEF Account
  <2>6. ASSUME NEW c \in Rank PROVE Flags(c)'
    BY <2>1 DEF Flags
  <2>7. QED
    BY <2>4, <2>5, <2>6 DEF RankInv
<1>4. QED
  BY <1>2, <1>3

(* nb_acc.                                                                 *)
LEMMA RankAcc ==
  ASSUME RankInv, NEW c \in Rank, NEW t \in Rank, nb_acc(c, t)
  PROVE  RankInv'
<1> DEFINE k == master[t]
<1>1. Typed /\ pc[c] = "user" /\ ops[c] < MaxOps /\ k \in Rank /\ ops[c] \in 0 .. MaxOps
  BY DEF RankInv, Typed, nb_acc, CanIssue
<1>2. /\ fence_array' = [fence_array EXCEPT ![c] = @ \cup {k}]
      /\ req' = [req EXCEPT ![c][k] = Append(@, Req("ACC", t))]
      /\ ops' = [ops EXCEPT ![c] = @ + 1]
      /\ UNCHANGED <<layout, pc, master, rep, posted, semaphores, inits>>
  BY DEF nb_acc, nb_send_header
<1> HIDE DEF k
<1>3. Req("ACC", t) \in Request
  BY RequestFacts
<1>4. Typed'
  <2>1. Append(req[c][k], Req("ACC", t)) \in Seq(Request)
    BY <1>1, <1>3, ChannelParts, AppendFacts
  <2>2. req' \in [Rank -> [Rank -> Seq(Request)]]
    BY <1>1, <1>2, <2>1 DEF Typed
  <2>3. ops[c] + 1 \in 0 .. MaxOps
    BY <1>1, LifecycleAssumption DEF LifecycleAssumption
  <2>4. ops' \in [Rank -> 0 .. MaxOps] /\ fence_array' \in [Rank -> SUBSET Rank]
    BY <1>1, <1>2, <2>3 DEF Typed
  <2>5. QED
    BY <1>1, <1>2, <2>2, <2>4 DEF Typed
<1>5. ASSUME NEW d \in Rank, NEW m \in Rank PROVE Account(d, m)'
  <2>1. Account(d, m)
    BY DEF RankInv
  <2>2. CASE d # c
    <3>1. req'[d][m] = req[d][m] /\ ops'[d] = ops[d] /\ fence_array'[d] = fence_array[d]
      BY <1>1, <1>2, <2>2 DEF Typed
    <3>2. QED
      BY <1>2, <2>1, <3>1 DEF Account
  <2>3. CASE d = c
    <3>1. Balance(rep[c][m], req[c][m], posted[c][m], ops[c], fence_array[c], m, "user")
      BY <1>1, <2>1, <2>3 DEF Account
    <3>2. ops'[c] = ops[c] + 1 /\ fence_array'[c] = fence_array[c] \cup {k}
      BY <1>1, <1>2 DEF Typed
    <3>3. CASE m = k
      <4>1. req'[c][m] = Append(req[c][m], Req("ACC", t))
        BY <1>1, <1>2, <3>3 DEF Typed
      <4>2. Balance(rep[c][m], Append(req[c][m], Req("ACC", t)), posted[c][m], ops[c] + 1,
                    fence_array[c] \cup {m}, m, "user")
        BY <1>1, <3>1, ChannelParts, BalanceAcc
      <4>3. QED
        BY <1>1, <1>2, <2>3, <3>2, <3>3, <4>1, <4>2 DEF Account
    <3>4. CASE m # k
      <4>1. req'[c][m] = req[c][m]
        BY <1>1, <1>2, <3>4 DEF Typed
      <4>2. Balance(rep[c][m], req[c][m], posted[c][m], ops[c] + 1, fence_array[c] \cup {k}, m, "user")
        BY <1>1, <3>1, ChannelParts, BalanceOther
      <4>3. QED
        BY <1>1, <1>2, <2>3, <3>2, <4>1, <4>2 DEF Account
    <3>5. QED
      BY <3>3, <3>4
  <2>4. QED
    BY <2>2, <2>3
<1>6. ASSUME NEW d \in Rank PROVE Flags(d)'
  <2>1. Flags(d)
    BY DEF RankInv
  <2>2. d # c => fence_array'[d] = fence_array[d]
    BY <1>1, <1>2 DEF Typed
  <2>3. QED
    BY <1>1, <1>2, <2>1, <2>2 DEF Flags
<1>7. QED
  BY <1>4, <1>5, <1>6 DEF RankInv

(* nb_get.                                                                 *)
LEMMA RankGet ==
  ASSUME RankInv, NEW c \in Rank, NEW t \in Rank, nb_get(c, t)
  PROVE  RankInv'
<1> DEFINE k == master[t]
<1>1. Typed /\ pc[c] = "user" /\ ops[c] < MaxOps /\ k \in Rank /\ ops[c] \in 0 .. MaxOps
  BY DEF RankInv, Typed, nb_get, CanIssue
<1>2. /\ posted' = [posted EXCEPT ![c][k] = @ + 1]
      /\ req' = [req EXCEPT ![c][k] = Append(@, Req("GET", t))]
      /\ ops' = [ops EXCEPT ![c] = @ + 1]
      /\ UNCHANGED <<layout, pc, master, fence_array, rep, semaphores, inits>>
  BY DEF nb_get, nb_send_header
<1> HIDE DEF k
<1>3. Req("GET", t) \in Request
  BY RequestFacts
<1>4. Typed'
  <2>1. Append(req[c][k], Req("GET", t)) \in Seq(Request)
    BY <1>1, <1>3, ChannelParts, AppendFacts
  <2>2. /\ req' \in [Rank -> [Rank -> Seq(Request)]]
        /\ posted' \in [Rank -> [Rank -> Nat]]
    <3>1. req' \in [Rank -> [Rank -> Seq(Request)]]
      BY <1>1, <1>2, <2>1 DEF Typed
    <3>2. posted[c][k] + 1 \in Nat
      BY <1>1, ChannelParts
    <3>3. posted' \in [Rank -> [Rank -> Nat]]
      BY <1>1, <1>2, <3>2 DEF Typed
    <3>4. QED
      BY <3>1, <3>3
  <2>3. ops[c] + 1 \in 0 .. MaxOps
    BY <1>1, LifecycleAssumption DEF LifecycleAssumption
  <2>4. ops' \in [Rank -> 0 .. MaxOps]
    BY <1>1, <1>2, <2>3 DEF Typed
  <2>5. QED
    BY <1>1, <1>2, <2>2, <2>4 DEF Typed
<1>5. ASSUME NEW d \in Rank, NEW m \in Rank PROVE Account(d, m)'
  <2>1. Account(d, m)
    BY DEF RankInv
  <2>2. CASE d # c
    <3>1. req'[d][m] = req[d][m] /\ ops'[d] = ops[d] /\ posted'[d][m] = posted[d][m]
      BY <1>1, <1>2, <2>2 DEF Typed
    <3>2. QED
      BY <1>2, <2>1, <3>1 DEF Account
  <2>3. CASE d = c
    <3>1. Balance(rep[c][m], req[c][m], posted[c][m], ops[c], fence_array[c], m, "user")
      BY <1>1, <2>1, <2>3 DEF Account
    <3>2. ops'[c] = ops[c] + 1
      BY <1>1, <1>2 DEF Typed
    <3>3. CASE m = k
      <4>1. req'[c][m] = Append(req[c][m], Req("GET", t)) /\ posted'[c][m] = posted[c][m] + 1
        BY <1>1, <1>2, <3>3 DEF Typed
      <4>2. Balance(rep[c][m], Append(req[c][m], Req("GET", t)), posted[c][m] + 1, ops[c] + 1,
                    fence_array[c], m, "user")
        BY <1>1, <3>1, ChannelParts, BalanceGet
      <4>3. QED
        BY <1>1, <1>2, <2>3, <3>2, <4>1, <4>2 DEF Account
    <3>4. CASE m # k
      <4>1. req'[c][m] = req[c][m] /\ posted'[c][m] = posted[c][m]
        BY <1>1, <1>2, <3>4 DEF Typed
      <4>2. Balance(rep[c][m], req[c][m], posted[c][m], ops[c] + 1, fence_array[c], m, "user")
        BY <1>1, <3>1, ChannelParts, BalanceOther
      <4>3. QED
        BY <1>1, <1>2, <2>3, <3>2, <4>1, <4>2 DEF Account
    <3>5. QED
      BY <3>3, <3>4
  <2>4. QED
    BY <2>2, <2>3
<1>6. ASSUME NEW d \in Rank PROVE Flags(d)'
  BY <1>2 DEF RankInv, Flags
<1>7. QED
  BY <1>4, <1>5, <1>6 DEF RankInv

(* RecvReply.                                                              *)
LEMMA RankRecv ==
  ASSUME RankInv, NEW c \in Rank, NEW k \in Rank, RecvReply(c, k)
  PROVE  RankInv'
<1>1. Typed /\ rep[c][k] > 0 /\ posted[c][k] > 0 /\ rep[c][k] \in Nat /\ posted[c][k] \in Nat
  BY ChannelParts DEF RankInv, RecvReply
<1>2. /\ rep' = [rep EXCEPT ![c][k] = @ - 1]
      /\ posted' = [posted EXCEPT ![c][k] = @ - 1]
      /\ UNCHANGED <<layout, pc, master, fence_array, req, semaphores, ops, inits>>
  BY DEF RecvReply
<1>3. Typed'
  <2>1. rep[c][k] - 1 \in Nat /\ posted[c][k] - 1 \in Nat
    BY <1>1
  <2>2. rep' \in [Rank -> [Rank -> Nat]]
    BY <1>1, <1>2, <2>1 DEF Typed
  <2>3. posted' \in [Rank -> [Rank -> Nat]]
    BY <1>1, <1>2, <2>1 DEF Typed
  <2>4. QED
    BY <1>1, <1>2, <2>2, <2>3 DEF Typed
<1>4. ASSUME NEW d \in Rank, NEW m \in Rank PROVE Account(d, m)'
  <2>1. Account(d, m)
    BY DEF RankInv
  <2>2. CASE d = c /\ m = k
    <3>1. rep'[c][k] = rep[c][k] - 1 /\ posted'[c][k] = posted[c][k] - 1
      BY <1>1, <1>2 DEF Typed
    <3>2. Balance(rep[c][k], req[c][k], posted[c][k], ops[c], fence_array[c], k, pc[c])
      BY <2>1, <2>2 DEF Account
    <3>3. Balance(rep[c][k] - 1, req[c][k], posted[c][k] - 1, ops[c], fence_array[c], k, pc[c])
      BY <1>1, <3>2, ChannelParts, BalanceRecv
    <3>4. QED
      BY <1>2, <2>2, <3>1, <3>3 DEF Account
  <2>3. CASE ~(d = c /\ m = k)
    <3>1. rep'[d][m] = rep[d][m] /\ posted'[d][m] = posted[d][m]
      BY <1>1, <1>2, <2>3 DEF Typed
    <3>2. QED
      BY <1>2, <2>1, <3>1 DEF Account
  <2>4. QED
    BY <2>2, <2>3
<1>5. ASSUME NEW d \in Rank PROVE Flags(d)'
  BY <1>2 DEF RankInv, Flags
<1>6. QED
  BY <1>3, <1>4, <1>5 DEF RankInv

(* comex_finalize: the fence of its first barrier.                         *)
LEMMA RankFinalize ==
  ASSUME RankInv, NEW c \in Rank, comex_finalize(c)
  PROVE  RankInv'
<1> DEFINE F == fence_array[c]
           to == IF F = {} THEN "barrier1" ELSE "fence1"
           P == [m \in Rank |-> IF m \in F THEN posted[c][m] + 1 ELSE posted[c][m]]
           Q == [m \in Rank |-> IF m \in F THEN Append(req[c][m], Req("FENCE", c)) ELSE req[c][m]]
<1>1. Typed /\ pc[c] = "user" /\ F \in SUBSET Rank
  BY DEF RankInv, Typed, comex_finalize
<1>2. /\ posted' = [posted EXCEPT ![c] = P]
      /\ req' = [req EXCEPT ![c] = Q]
      /\ pc' = [pc EXCEPT ![c] = to]
      /\ UNCHANGED <<layout, master, fence_array, rep, semaphores, ops, inits>>
  <2>1. /\ comex_fence_all(c, "fence1", "barrier1")
        /\ UNCHANGED <<layout, master, fence_array, rep, semaphores, ops, inits>>
    BY DEF comex_finalize
  <2>2. pc' = [pc EXCEPT ![c] = to]
    BY <2>1, Zenon DEF comex_fence_all, Goto, to, F
  <2>3. posted' = [posted EXCEPT ![c] = P]
    <3>1. posted' = [posted EXCEPT ![c] = [m \in Rank |-> IF m \in F THEN posted[c][m] + 1 ELSE posted[c][m]]]
      BY <1>1, <2>1 DEF comex_fence_all, Typed
    <3>2. QED
      BY <3>1
  <2>4. req' = [req EXCEPT ![c] = Q]
    <3>1. req' = [req EXCEPT ![c] = [m \in Rank |->
                    IF m \in F THEN Append(req[c][m], Req("FENCE", c)) ELSE req[c][m]]]
      BY <1>1, <2>1 DEF comex_fence_all, Typed
    <3>2. QED
      BY <3>1
  <2>5. QED
    BY <2>1, <2>2, <2>3, <2>4
<1>3. \A m \in Rank :
        /\ m \in F => P[m] = posted[c][m] + 1 /\ Q[m] = Append(req[c][m], Req("FENCE", c))
        /\ m \notin F => P[m] = posted[c][m] /\ Q[m] = req[c][m]
  OBVIOUS
<1>4. P \in [Rank -> Nat] /\ Q \in [Rank -> Seq(Request)]
  <2>1. ASSUME NEW m \in Rank PROVE P[m] \in Nat /\ Q[m] \in Seq(Request)
    <3>1. Append(req[c][m], Req("FENCE", c)) \in Seq(Request) /\ posted[c][m] + 1 \in Nat
      BY <1>1, ChannelParts, RequestFacts, AppendFacts
    <3>2. QED
      BY <1>1, <1>3, <3>1, ChannelParts
  <2>2. QED
    BY <2>1
<1>5. to \in {"fence1", "barrier1"} /\ (F # {} => to = "fence1") /\ (F = {} => to = "barrier1")
  OBVIOUS
<1> HIDE DEF P, Q, to, F
<1>6. Typed'
  <2>1. posted' \in [Rank -> [Rank -> Nat]]
    BY <1>1, <1>2, <1>4 DEF Typed
  <2>2. req' \in [Rank -> [Rank -> Seq(Request)]]
    BY <1>1, <1>2, <1>4 DEF Typed
  <2>3. pc' \in [Rank -> Point]
    BY <1>1, <1>2, <1>5, Points DEF Typed
  <2>4. QED
    BY <1>1, <1>2, <2>1, <2>2, <2>3 DEF Typed
<1>7. ASSUME NEW d \in Rank, NEW m \in Rank PROVE Account(d, m)'
  <2>1. Account(d, m)
    BY DEF RankInv
  <2>2. CASE d # c
    <3>1. req'[d] = req[d] /\ posted'[d] = posted[d] /\ pc'[d] = pc[d]
      BY <1>1, <1>2, <2>2 DEF Typed
    <3>2. QED
      BY <1>2, <2>1, <3>1 DEF Account
  <2>3. CASE d = c
    <3>1. req'[c][m] = Q[m] /\ posted'[c][m] = P[m] /\ pc'[c] = to
      BY <1>1, <1>2 DEF Typed
    <3>2. Balance(rep[c][m], req[c][m], posted[c][m], ops[c], F, m, "user")
      BY <1>1, <2>1, <2>3 DEF Account, F
    <3>3. Balance(rep[c][m], Q[m], P[m], ops[c], F, m, to)
      <4>1. rep[c][m] \in Nat /\ req[c][m] \in Seq(Request) /\ posted[c][m] \in Nat /\ ops[c] \in Nat
        BY <1>1, ChannelParts
      <4>2. CASE m \in F
        <5>1. to = "fence1" /\ Q[m] = Append(req[c][m], Req("FENCE", c)) /\ P[m] = posted[c][m] + 1
          BY <1>3, <1>5, <4>2
        <5>2. Balance(rep[c][m], Append(req[c][m], Req("FENCE", c)), posted[c][m] + 1, ops[c], F, m, "fence1")
          BY <3>2, <4>1, <4>2, BalanceFence
        <5>3. QED
          BY <5>1, <5>2
      <4>3. CASE m \notin F
        <5>1. Q[m] = req[c][m] /\ P[m] = posted[c][m]
          BY <1>3, <4>3
        <5>2. Balance(rep[c][m], req[c][m], posted[c][m], ops[c], F, m, to)
          BY <1>5, <3>2, <4>1, <4>3, BalanceNoFence
        <5>3. QED
          BY <5>1, <5>2
      <4>4. QED
        BY <4>2, <4>3
    <3>4. QED
      BY <1>2, <2>3, <3>1, <3>3 DEF Account, F
  <2>4. QED
    BY <2>2, <2>3
<1>8. ASSUME NEW d \in Rank PROVE Flags(d)'
  <2>1. Flags(d) /\ fence_array'[d] = fence_array[d]
    BY <1>2 DEF RankInv
  <2>2. CASE d # c
    <3>1. pc'[d] = pc[d]
      BY <1>1, <1>2, <2>2 DEF Typed
    <3>2. QED
      BY <2>1, <3>1 DEF Flags
  <2>3. CASE d = c
    <3>1. pc'[d] = to
      BY <1>1, <1>2, <2>3 DEF Typed
    <3>2. QED
      BY <1>5, <2>1, <2>3, <3>1 DEF Flags, F
  <2>4. QED
    BY <2>2, <2>3
<1>9. QED
  BY <1>6, <1>7, <1>8 DEF RankInv

(* FenceDone.                                                              *)
LEMMA RankFenceDone ==
  ASSUME RankInv, NEW c \in Rank, FenceDone(c)
  PROVE  RankInv'
<1>1. Typed /\ pc[c] = "fence1" /\ \A m \in fence_array[c] : posted[c][m] = 0
  BY DEF RankInv, FenceDone, Flags
<1>2. /\ fence_array' = [fence_array EXCEPT ![c] = {}]
      /\ pc' = [pc EXCEPT ![c] = "barrier1"]
      /\ UNCHANGED <<layout, master, req, rep, posted, semaphores, ops, inits>>
  BY <1>1 DEF FenceDone, Goto
<1>3. Typed'
  BY <1>1, <1>2, Points DEF Typed
<1>4. ASSUME NEW d \in Rank, NEW m \in Rank PROVE Account(d, m)'
  <2>1. Account(d, m)
    BY DEF RankInv
  <2>2. CASE d # c
    <3>1. fence_array'[d] = fence_array[d] /\ pc'[d] = pc[d]
      BY <1>1, <1>2, <2>2 DEF Typed
    <3>2. QED
      BY <1>2, <2>1, <3>1 DEF Account
  <2>3. CASE d = c
    <3>1. fence_array'[c] = {} /\ pc'[c] = "barrier1"
      BY <1>1, <1>2 DEF Typed
    <3>2. Balance(rep[c][m], req[c][m], posted[c][m], ops[c], fence_array[c], m, "fence1")
      BY <1>1, <2>1, <2>3 DEF Account
    <3>3. Balance(rep[c][m], req[c][m], posted[c][m], ops[c], {}, m, "barrier1")
      BY <1>1, <3>2, ChannelParts, BalanceFenceDone
    <3>4. QED
      BY <1>2, <2>3, <3>1, <3>3 DEF Account
  <2>4. QED
    BY <2>2, <2>3
<1>5. ASSUME NEW d \in Rank PROVE Flags(d)'
  <2>1. Flags(d)
    BY DEF RankInv
  <2>2. QED
    BY <1>1, <1>2, <2>1 DEF Flags, Typed
<1>6. QED
  BY <1>3, <1>4, <1>5 DEF RankInv

(* A step that only moves ranks, and not into or out of a fence: Barrier,  *)
(* free_semaphore, comex_wait_all, WorldBarrier.                           *)
LEMMA RankMove ==
  ASSUME RankInv, pc' \in [Rank -> Point], semaphores' \in SUBSET Rank,
         UNCHANGED <<layout, master, fence_array, req, rep, posted, ops, inits>>,
         \A d \in Rank :
           \/ pc'[d] = pc[d]
           \/ /\ pc[d] \notin {"user", "fence1"} /\ pc'[d] \notin {"user", "fence1", "fence2"}
              /\ pc'[d] \notin Waiting => \A m \in Rank : posted[d][m] = 0
  PROVE  RankInv'
<1>1. Typed /\ Typed'
  BY DEF RankInv, Typed
<1>2. ASSUME NEW d \in Rank, NEW m \in Rank PROVE Account(d, m)'
  <2>1. Account(d, m)
    BY DEF RankInv
  <2>2. CASE pc'[d] = pc[d]
    BY <2>1, <2>2 DEF Account
  <2>3. CASE pc'[d] # pc[d]
    <3>1. pc[d] # "fence1" /\ pc'[d] # "fence1" /\ (pc'[d] \notin Waiting => posted[d][m] = 0)
      BY <2>3
    <3>2. Balance(rep[d][m], req[d][m], posted[d][m], ops[d], fence_array[d], m, pc[d])
      BY <2>1 DEF Account
    <3>3. Balance(rep[d][m], req[d][m], posted[d][m], ops[d], fence_array[d], m, pc'[d])
      BY <1>1, <3>1, <3>2, ChannelParts, BalanceMove
    <3>4. QED
      BY <3>3 DEF Account
  <2>4. QED
    BY <2>2, <2>3
<1>3. ASSUME NEW d \in Rank PROVE Flags(d)'
  <2>1. Flags(d)
    BY DEF RankInv
  <2>2. QED
    BY <2>1 DEF Flags
<1>4. QED
  BY <1>1, <1>2, <1>3 DEF RankInv

(* A barrier of comex_finalize is left with the accounts as they were.     *)
LEMMA RankBarrier ==
  ASSUME RankInv, Barrier
  PROVE  RankInv'
<1>1. PICK b \in {"barrier1", "barrier2"} :
        /\ Worker # {} /\ \A c \in Worker : pc[c] = b
        /\ pc' = [r \in Rank |->
                    IF IsMaster(r) THEN pc[r] ELSE IF b = "barrier1" THEN "free" ELSE "notify"]
        /\ UNCHANGED <<layout, master, fence_array, req, rep, posted, semaphores, ops, inits>>
  BY DEF Barrier
<1>2. Typed
  BY DEF RankInv
<1>3. pc' \in [Rank -> Point]
  <2>1. \A r \in Rank : pc'[r] \in Point
    BY <1>1, <1>2, Points DEF Typed
  <2>2. QED
    BY <1>1, <2>1
<1>4. ASSUME NEW d \in Rank
      PROVE  \/ pc'[d] = pc[d]
             \/ /\ pc[d] \notin {"user", "fence1"} /\ pc'[d] \notin {"user", "fence1", "fence2"}
                /\ pc'[d] \notin Waiting => \A m \in Rank : posted[d][m] = 0
  <2>1. CASE IsMaster(d)
    BY <1>1, <2>1
  <2>2. CASE ~IsMaster(d)
    <3>1. pc[d] = b /\ pc'[d] = IF b = "barrier1" THEN "free" ELSE "notify"
      BY <1>1, <2>2 DEF Worker
    <3>2. \A m \in Rank : pc[d] \notin Waiting => posted[d][m] = 0
      BY DEF RankInv, Account, Balance
    <3>3. QED
      BY <3>1, <3>2 DEF Waiting
  <2>3. QED
    BY <2>1, <2>2
<1>5. QED
  BY <1>1, <1>2, <1>3, <1>4, RankMove DEF Typed

(* _free_semaphore touches no message.                                     *)
LEMMA RankFreeSemaphore ==
  ASSUME RankInv, NEW c \in Rank, free_semaphore(c)
  PROVE  RankInv'
<1>1. /\ pc[c] = "free" /\ semaphores' = semaphores \ {c} /\ pc' = [pc EXCEPT ![c] = "wait"]
      /\ UNCHANGED <<layout, master, fence_array, req, rep, posted, ops, inits>>
  BY DEF free_semaphore, Goto
<1>2. Typed
  BY DEF RankInv
<1>3. pc' \in [Rank -> Point] /\ semaphores' \in SUBSET Rank
  BY <1>1, <1>2, Points DEF Typed
<1>4. \A d \in Rank : pc'[d] = pc[d] \/ (d = c /\ pc'[d] = "wait")
  BY <1>1, <1>2 DEF Typed
<1>5. QED
  BY <1>1, <1>3, <1>4, RankMove DEF Waiting

(* Nothing is flagged any more when comex_wait_all returns, so the fence   *)
(* of the second barrier sends nothing.                                    *)
LEMMA WaitAllMoves ==
  ASSUME RankInv, NEW c \in Rank, comex_wait_all(c)
  PROVE  /\ pc[c] = "wait" /\ pc' = [pc EXCEPT ![c] = "barrier2"]
         /\ \A m \in Rank : posted[c][m] = 0
         /\ UNCHANGED <<layout, master, fence_array, req, rep, posted, semaphores, ops, inits>>
<1>1. /\ pc[c] = "wait" /\ \A m \in Rank : posted[c][m] = 0
      /\ comex_fence_all(c, "fence2", "barrier2")
      /\ UNCHANGED <<layout, master, fence_array, rep, semaphores, ops, inits>>
  BY DEF comex_wait_all
<1>2. Typed /\ fence_array[c] = {}
  BY <1>1 DEF RankInv, Flags
<1>3. pc' = [pc EXCEPT ![c] = "barrier2"]
  BY <1>1, <1>2 DEF comex_fence_all, Goto
<1>4. posted' = posted
  <2>1. posted' = [posted EXCEPT ![c] = [m \in Rank |-> posted[c][m]]]
    BY <1>1, <1>2 DEF comex_fence_all, Typed
  <2>2. [m \in Rank |-> posted[c][m]] = posted[c]
    BY <1>2 DEF Typed
  <2>3. QED
    BY <1>2, <2>1, <2>2 DEF Typed
<1>5. req' = req
  <2>1. req' = [req EXCEPT ![c] = [m \in Rank |-> req[c][m]]]
    BY <1>1, <1>2 DEF comex_fence_all, Typed
  <2>2. [m \in Rank |-> req[c][m]] = req[c]
    BY <1>2 DEF Typed
  <2>3. QED
    BY <1>2, <2>1, <2>2 DEF Typed
<1>6. QED
  BY <1>1, <1>3, <1>4, <1>5

(* comex_wait_all leaves no receive posted.                                *)
LEMMA RankWaitAll ==
  ASSUME RankInv, NEW c \in Rank, comex_wait_all(c)
  PROVE  RankInv'
<1>1. /\ pc[c] = "wait" /\ pc' = [pc EXCEPT ![c] = "barrier2"]
      /\ \A m \in Rank : posted[c][m] = 0
      /\ UNCHANGED <<layout, master, fence_array, req, rep, posted, semaphores, ops, inits>>
  BY WaitAllMoves
<1>2. Typed
  BY DEF RankInv
<1>3. pc' \in [Rank -> Point] /\ semaphores' \in SUBSET Rank
  BY <1>1, <1>2, Points DEF Typed
<1>4. \A d \in Rank : pc'[d] = pc[d] \/ (d = c /\ pc'[d] = "barrier2")
  BY <1>1, <1>2 DEF Typed
<1>5. QED
  BY <1>1, <1>3, <1>4, RankMove

(* The world barrier leaves the accounts as they were.                     *)
LEMMA RankWorldBarrier ==
  ASSUME RankInv, WorldBarrier
  PROVE  RankInv'
<1>1. /\ \A r \in Rank : pc[r] = "world"
      /\ pc' = [r \in Rank |-> "off"]
      /\ UNCHANGED <<layout, master, fence_array, req, rep, posted, semaphores, ops, inits>>
  BY DEF WorldBarrier
<1>2. Typed /\ \A d, m \in Rank : pc[d] \notin Waiting => posted[d][m] = 0
  BY DEF RankInv, Account, Balance
<1>3. pc' \in [Rank -> Point] /\ semaphores' \in SUBSET Rank
  BY <1>1, <1>2, Points DEF Typed
<1>4. \A d, m \in Rank : posted[d][m] = 0
  BY <1>1, <1>2 DEF Waiting
<1>5. \A d \in Rank : pc[d] = "world" /\ pc'[d] = "off"
  BY <1>1
<1>6. QED
  BY <1>1, <1>3, <1>4, <1>5, RankMove

(* The notifier's OP_QUIT.                                                 *)
LEMMA RankNotify ==
  ASSUME RankInv, NEW c \in Rank, Notify(c)
  PROVE  RankInv'
<1> DEFINE k == master[c]
<1>1. /\ Typed /\ pc[c] = "notify" /\ k \in Rank
  BY DEF RankInv, Typed, Notify
<1>2. /\ pc' = [pc EXCEPT ![c] = "world"]
      /\ req' = [req EXCEPT ![c][k] = Append(@, Req("QUIT", 0))] \/ req' = req
      /\ UNCHANGED <<layout, master, fence_array, rep, posted, semaphores, ops, inits>>
  BY DEF Notify, nb_send_header, Goto
<1> HIDE DEF k
<1>3. Typed'
  <2>1. Append(req[c][k], Req("QUIT", 0)) \in Seq(Request)
    <3>1. 0 \in Rank
      BY SizeAssumption DEF SizeAssumption, Rank
    <3>2. QED
      BY <1>1, <3>1, ChannelParts, RequestFacts, AppendFacts
  <2>2. req' \in [Rank -> [Rank -> Seq(Request)]]
    <3>1. req \in [Rank -> [Rank -> Seq(Request)]]
      BY <1>1 DEF Typed
    <3>2. [req EXCEPT ![c][k] = Append(req[c][k], Req("QUIT", 0))] \in [Rank -> [Rank -> Seq(Request)]]
      BY <1>1, <2>1, <3>1, OneChannel
    <3>3. QED
      BY <1>2, <3>1, <3>2
  <2>3. pc' \in [Rank -> Point]
    BY <1>1, <1>2, Points DEF Typed
  <2>4. QED
    BY <1>1, <1>2, <2>2, <2>3 DEF Typed
<1>4. ASSUME NEW d \in Rank, NEW m \in Rank PROVE Account(d, m)'
  <2>1. Account(d, m)
    BY DEF RankInv
  <2>2. CASE d # c
    <3>1. req'[d][m] = req[d][m] /\ pc'[d] = pc[d]
      BY <1>1, <1>2, <2>2 DEF Typed
    <3>2. QED
      BY <1>2, <2>1, <3>1 DEF Account
  <2>3. CASE d = c
    <3>1. Balance(rep[c][m], req[c][m], posted[c][m], ops[c], fence_array[c], m, "notify")
      BY <1>1, <2>1, <2>3 DEF Account
    <3>2. pc'[c] = "world" /\ (req'[c][m] = req[c][m] \/ req'[c][m] = Append(req[c][m], Req("QUIT", 0)))
      <4>1. pc'[c] = "world" /\ req \in [Rank -> [Rank -> Seq(Request)]]
        BY <1>1, <1>2 DEF Typed
      <4>2. CASE req' = [req EXCEPT ![c][k] = Append(@, Req("QUIT", 0))]
        BY <1>1, <4>1, <4>2
      <4>3. CASE req' = req
        BY <4>1, <4>3
      <4>4. QED
        BY <1>2, <4>1, <4>2, <4>3
    <3>3. posted[c][m] = 0
      BY <3>1 DEF Balance, Waiting
    <3>4. rep[c][m] \in Nat /\ req[c][m] \in Seq(Request) /\ posted[c][m] \in Nat /\ ops[c] \in Nat
      BY <1>1, ChannelParts
    <3>5. /\ Balance(rep[c][m], req[c][m], posted[c][m], ops[c], fence_array[c], m, "world")
          /\ Balance(rep[c][m], Append(req[c][m], Req("QUIT", 0)), posted[c][m], ops[c], fence_array[c], m, "world")
      BY <3>1, <3>3, <3>4, BalanceMove, BalanceQuit
    <3>6. QED
      BY <1>2, <2>3, <3>2, <3>5 DEF Account
  <2>4. QED
    BY <2>2, <2>3
<1>5. ASSUME NEW d \in Rank PROVE Flags(d)'
  <2>1. Flags(d)
    BY DEF RankInv
  <2>2. pc'[d] = pc[d] \/ (pc[d] = "notify" /\ pc'[d] = "world")
    BY <1>1, <1>2 DEF Typed
  <2>3. QED
    BY <1>2, <2>1, <2>2 DEF Flags
<1>6. QED
  BY <1>3, <1>4, <1>5 DEF RankInv

(* A handler of a progress rank, or OP_QUIT: the head of one channel is    *)
(* taken, and its answer is sent.                                          *)
LEMMA RankTake ==
  ASSUME RankInv, NEW c \in Rank, NEW k \in Rank, req[c][k] # << >>,
         req' = [req EXCEPT ![c][k] = Tail(@)],
         rep' = [rep EXCEPT ![c][k] = @ + Answers(Head(req[c][k]))],
         pc' \in [Rank -> Point], semaphores' \in SUBSET Rank,
         \A d \in Rank : pc'[d] = pc[d] \/ (pc[d] = "serving" /\ pc'[d] = "world"),
         UNCHANGED <<layout, master, fence_array, posted, ops, inits>>
  PROVE  RankInv'
<1> DEFINE a == Answers(Head(req[c][k]))
<1>1. Typed /\ a \in Nat
  BY AnswersType DEF RankInv
<1>2. rep' = [rep EXCEPT ![c][k] = @ + a]
  OBVIOUS
<1> HIDE DEF a
<1>3. Typed'
  <2>1. rep[c][k] + a \in Nat /\ Tail(req[c][k]) \in Seq(Request)
    BY <1>1, ChannelParts, TailFacts
  <2>2. rep' \in [Rank -> [Rank -> Nat]]
    <3>1. rep \in [Rank -> [Rank -> Nat]]
      BY <1>1 DEF Typed
    <3>2. [rep EXCEPT ![c][k] = rep[c][k] + a] \in [Rank -> [Rank -> Nat]]
      BY <2>1, <3>1, OneChannel
    <3>3. QED
      BY <1>2, <3>2
  <2>3. req' \in [Rank -> [Rank -> Seq(Request)]]
    BY <1>1, <2>1 DEF Typed
  <2>4. QED
    BY <1>1, <2>2, <2>3 DEF Typed
<1>0. ASSUME NEW d \in Rank, NEW m \in Rank
      PROVE  /\ d = c /\ m = k => rep'[d][m] = rep[d][m] + a /\ req'[d][m] = Tail(req[d][m])
             /\ ~(d = c /\ m = k) => rep'[d][m] = rep[d][m] /\ req'[d][m] = req[d][m]
  <2>1. rep \in [Rank -> [Rank -> Nat]] /\ rep[c][k] + a \in Nat
    <3>1. rep[c][k] \in Nat
      BY <1>1, ChannelParts
    <3>2. rep[c][k] + a \in Nat
      BY <1>1, <3>1
    <3>3. QED
      BY <1>1, <3>2, Zenon DEF Typed
  <2>2. /\ [rep EXCEPT ![c][k] = rep[c][k] + a][c][k] = rep[c][k] + a
        /\ ~(d = c /\ m = k) => [rep EXCEPT ![c][k] = rep[c][k] + a][d][m] = rep[d][m]
    BY <2>1, OneChannel
  <2>3. req \in [Rank -> [Rank -> Seq(Request)]] /\ Tail(req[c][k]) \in Seq(Request)
    <3>1. req[c][k] \in Seq(Request)
      BY <1>1, ChannelParts
    <3>2. QED
      BY <1>1, <3>1, TailFacts DEF Typed
  <2>4. /\ [req EXCEPT ![c][k] = Tail(req[c][k])][c][k] = Tail(req[c][k])
        /\ ~(d = c /\ m = k) => [req EXCEPT ![c][k] = Tail(req[c][k])][d][m] = req[d][m]
    BY <2>3, OneChannel
  <2>5. QED
    BY <1>2, <2>2, <2>4
<1>4. ASSUME NEW d \in Rank, NEW m \in Rank PROVE Account(d, m)'
  <2>1. Balance(rep[d][m], req[d][m], posted[d][m], ops[d], fence_array[d], m, pc[d])
    BY DEF RankInv, Account
  <2>2. rep[d][m] \in Nat /\ req[d][m] \in Seq(Request) /\ posted[d][m] \in Nat /\ ops[d] \in Nat
    BY <1>1, ChannelParts
  <2>3. Balance(rep'[d][m], req'[d][m], posted[d][m], ops[d], fence_array[d], m, pc[d])
    <3>1. CASE d = c /\ m = k
      <4>1. rep'[d][m] = rep[d][m] + a /\ req'[d][m] = Tail(req[d][m]) /\ req[d][m] # << >>
        BY <1>0, <3>1
      <4>2. Balance(rep[d][m] + a, Tail(req[d][m]), posted[d][m], ops[d], fence_array[d], m, pc[d])
        BY <2>1, <2>2, <3>1, <4>1, BalanceTake DEF a
      <4>3. QED
        BY <4>1, <4>2
    <3>2. CASE ~(d = c /\ m = k)
      <4>1. rep'[d][m] = rep[d][m] /\ req'[d][m] = req[d][m]
        BY <1>0, <3>2
      <4>2. QED
        BY <2>1, <4>1
    <3>3. QED
      BY <3>1, <3>2
  <2>4. CASE pc'[d] = pc[d]
    BY <2>3, <2>4 DEF Account
  <2>5. CASE pc[d] = "serving" /\ pc'[d] = "world"
    <3>1. posted[d][m] = 0
      BY <2>1, <2>5 DEF Balance, Waiting
    <3>2. rep'[d][m] \in Nat /\ req'[d][m] \in Seq(Request)
      <4>1. rep' \in [Rank -> [Rank -> Nat]]
        BY <1>3 DEF Typed
      <4>2. req' \in [Rank -> [Rank -> Seq(Request)]]
        BY <1>3 DEF Typed
      <4>3. QED
        BY <4>1, <4>2
    <3>3. Balance(rep'[d][m], req'[d][m], posted[d][m], ops[d], fence_array[d], m, "world")
      BY <2>2, <2>3, <2>5, <3>1, <3>2, BalanceMove
    <3>4. QED
      BY <2>5, <3>3 DEF Account
  <2>6. QED
    BY <2>4, <2>5
<1>5. ASSUME NEW d \in Rank PROVE Flags(d)'
  <2>1. Flags(d)
    BY DEF RankInv
  <2>2. QED
    BY <2>1 DEF Flags
<1>6. QED
  BY <1>3, <1>4, <1>5 DEF RankInv

(* Each handler of the progress rank keeps the accounts.                   *)
LEMMA RankServer ==
  ASSUME RankInv, NEW m \in Rank, NEW c \in Rank, progress_server(m, c)
  PROVE  RankInv'
<1>1. Typed
  BY DEF RankInv
<1>2. CASE acc_handler(m, c)
  <2>1. /\ req[c][m] # << >> /\ Head(req[c][m]).op = "ACC" /\ req' = [req EXCEPT ![c][m] = Tail(@)]
        /\ UNCHANGED <<layout, pc, master, fence_array, rep, posted, semaphores, ops, inits>>
    BY <1>2 DEF acc_handler, Pending, ProgressRecv
  <2>2. Answers(Head(req[c][m])) = 0 /\ rep[c][m] \in Nat
    BY <1>1, <2>1, ChannelParts DEF Answers
  <2>3. rep' = [rep EXCEPT ![c][m] = @ + Answers(Head(req[c][m]))]
    BY <1>1, <2>1, <2>2 DEF Typed
  <2>4. QED
    BY <1>1, <2>1, <2>3, RankTake DEF Typed
<1>3. CASE ReplyHandler(m, c)
  <2>1. /\ req[c][m] # << >> /\ Head(req[c][m]).op \in {"GET", "FENCE"} /\ req' = [req EXCEPT ![c][m] = Tail(@)]
        /\ rep' = [rep EXCEPT ![c][m] = @ + 1]
        /\ UNCHANGED <<layout, pc, master, fence_array, posted, semaphores, ops, inits>>
    BY <1>3 DEF ReplyHandler, Pending, ProgressRecv
  <2>2. Answers(Head(req[c][m])) = 1
    BY <2>1 DEF Answers
  <2>3. rep' = [rep EXCEPT ![c][m] = @ + Answers(Head(req[c][m]))]
    BY <2>1, <2>2
  <2>4. QED
    BY <1>1, <2>1, <2>3, RankTake DEF Typed
<1>4. CASE Quit(m, c)
  <2>1. /\ pc[m] = "serving" /\ req[c][m] # << >> /\ Head(req[c][m]).op = "QUIT"
        /\ req' = [req EXCEPT ![c][m] = Tail(@)]
        /\ semaphores' = semaphores \ {m} /\ pc' = [pc EXCEPT ![m] = "world"]
        /\ UNCHANGED <<layout, master, fence_array, rep, posted, ops, inits>>
    BY <1>4 DEF Quit, Pending, ProgressRecv, Goto
  <2>2. Answers(Head(req[c][m])) = 0 /\ rep[c][m] \in Nat
    BY <1>1, <2>1, ChannelParts DEF Answers
  <2>3. rep' = [rep EXCEPT ![c][m] = @ + Answers(Head(req[c][m]))]
    BY <1>1, <2>1, <2>2 DEF Typed
  <2>4. /\ pc' \in [Rank -> Point] /\ semaphores' \in SUBSET Rank
        /\ \A d \in Rank : pc'[d] = pc[d] \/ (pc[d] = "serving" /\ pc'[d] = "world")
    BY <1>1, <2>1, Points DEF Typed
  <2>5. QED
    BY <2>1, <2>3, <2>4, RankTake
<1>5. QED
  BY <1>2, <1>3, <1>4 DEF progress_server

(* Every step keeps the invariant of the ranks.                            *)
LEMMA RankStep ==
  ASSUME RankInv, [Next]_vars
  PROVE  RankInv'
<1>1. CASE Next
  <2>1. ASSUME NEW c \in Rank, FinalizeStep(c) PROVE RankInv'
    BY <2>1, RankFenceDone, RankFreeSemaphore, RankWaitAll, RankNotify DEF FinalizeStep
  <2>2. ASSUME NEW c \in Rank, NEW m \in Rank, RecvReply(c, m) \/ progress_server(m, c) PROVE RankInv'
    BY <2>2, RankRecv, RankServer
  <2>3. CASE Stopped
    BY <2>3 DEF Stopped, vars, RankInv, Typed, Account, Flags
  <2>4. QED
    BY <1>1, <2>1, <2>2, <2>3, RankComexInit, RankBarrier, RankWorldBarrier, RankFinalize, RankAcc, RankGet
    DEF Next
<1>2. CASE UNCHANGED vars
  BY <1>2 DEF vars, RankInv, Typed, Account, Flags
<1>3. QED
  BY <1>1, <1>2

(* The types of the state, with what makes the counters of the receives    *)
(* consistent: replies in flight are for receives that are posted, of      *)
(* which a worker has at most one for each operation and one for a fence.  *)
THEOREM TypeCorrect == Spec => []TypeOK
<1>1. Init => RankInv
  BY RankInit
<1>2. RankInv /\ [Next]_vars => RankInv'
  BY RankStep
<1>3. RankInv => TypeOK
  <2>1. ASSUME RankInv PROVE TypeOK
    <3>1. Typed
      BY <2>1 DEF RankInv
    <3>2. ASSUME NEW c \in Rank, NEW m \in Rank
          PROVE  /\ \A i \in DOMAIN req[c][m] : req[c][m][i] \in Request
                 /\ rep[c][m] \in 0 .. posted[c][m]
                 /\ posted[c][m] \in 0 .. (MaxOps + 1)
      <4>1. Account(c, m)
        BY <2>1 DEF RankInv
      <4>2. Counted(rep[c][m], req[c][m], posted[c][m]) /\ posted[c][m] <= ops[c] + 1
        BY <4>1 DEF Account, Balance
      <4>3. rep[c][m] \in Nat /\ req[c][m] \in Seq(Request) /\ posted[c][m] \in Nat
        BY <3>1, ChannelParts
      <4>4. ops[c] \in 0 .. MaxOps /\ MaxOps \in Nat
        BY <3>1, LifecycleAssumption DEF Typed, LifecycleAssumption
      <4>5. rep[c][m] <= posted[c][m]
        BY <4>2, <4>3, CountedLe
      <4>6. QED
        BY <4>2, <4>3, <4>4, <4>5
    <3>3. QED
      BY <3>1, <3>2 DEF Typed, TypeOK
  <2>2. QED
    BY <2>1
<1>4. QED
  BY <1>1, <1>2, <1>3, PTL DEF Spec

-----------------------------------------------------------------------------
(* The stages of the job.                                                  *)

(* In a job that is divided well each progress rank is its own, and has at *)
(* most one notifier.                                                      *)
LEMMA ServedFacts ==
  ASSUME LayoutsServed, Typed, Divided
  PROVE  /\ \A r \in Rank : IsMaster(master[r])
         /\ \A c, d, m \in Rank : Notifier(c, m) /\ Notifier(d, m) => c = d
<1>1. layout \in Layout /\ DOMAIN layout.host = Rank /\ master = AllMasters(layout)
  BY LifecycleAssumption DEF Typed, Divided, LifecycleAssumption, Layout
<1>2. ServesNodes(layout, master)
  BY DEF LayoutsServed, Typed, Divided
<1>3. \A r \in Rank : master[master[r]] = master[r]
  BY <1>1, <1>2 DEF ServesNodes
<1>4. ASSUME NEW c \in Rank, NEW d \in Rank, NEW m \in Rank, Notifier(c, m), Notifier(d, m)
      PROVE  c = d
  <2> DEFINE N == {x \in {q \in Rank : master[q] = master[c]} \ {master[c]} : Notifies(layout, master, x)}
  <2>1. Cardinality(N) = 1
    BY <1>1, <1>2 DEF ServesNodes
  <2>2. c \in N /\ d \in N
    BY <1>4 DEF Notifier
  <2>3. IsFiniteSet(N)
    <3>1. IsFiniteSet(Rank) /\ N \subseteq Rank
      BY SizeAssumption, FS_Interval DEF SizeAssumption, Rank
    <3>2. QED
      BY <3>1, FS_Subset
  <2> HIDE DEF N
  <2>4. PICK x : N = {x}
    BY <2>1, <2>3, FS_Singleton
  <2>5. QED
    BY <2>2, <2>4
<1>5. QED
  BY <1>3, <1>4 DEF IsMaster

(* The stages exclude one another, and tell who is where.                  *)
LEMMA StageFacts ==
  ASSUME NEW r \in Rank
  PROVE  /\ Asleep => pc[r] \in {"off", "aborted"}
         /\ Running => pc[r] \in {"serving", "user", "fence1", "barrier1"} /\ (pc[r] = "serving" <=> IsMaster(r))
         /\ Draining => pc[r] \in {"serving", "free", "wait", "barrier2"} /\ (pc[r] = "serving" <=> IsMaster(r))
         /\ Leaving => /\ pc[r] \in {"serving", "world", "notify"}
                       /\ IsMaster(r) => pc[r] # "notify"
                       /\ ~IsMaster(r) => pc[r] # "serving"
<1>1. Asleep => pc[r] \in {"off", "aborted"}
  BY DEF Asleep, AllAt
<1>2. Running => pc[r] \in {"serving", "user", "fence1", "barrier1"} /\ (pc[r] = "serving" <=> IsMaster(r))
  BY DEF Running, AllAt
<1>3. Draining => pc[r] \in {"serving", "free", "wait", "barrier2"} /\ (pc[r] = "serving" <=> IsMaster(r))
  BY DEF Draining, AllAt
<1>4. Leaving => /\ pc[r] \in {"serving", "world", "notify"}
                 /\ IsMaster(r) => pc[r] # "notify"
                 /\ ~IsMaster(r) => pc[r] # "serving"
  BY DEF Leaving, AllAt
<1>5. QED
  BY <1>1, <1>2, <1>3, <1>4

(* A step of one worker keeps the others where they are.                   *)
LEMMA WorkerMoves ==
  ASSUME Typed, NEW c \in Rank, ~IsMaster(c), NEW to, NEW S, NEW T, to \in T, AllAt(S, T),
         pc' = [pc EXCEPT ![c] = to], master' = master
  PROVE  AllAt(S, T)'
<1>1. ASSUME NEW r \in Rank PROVE pc'[r] = IF r = c THEN to ELSE pc[r]
  BY DEF Typed
<1>2. QED
  BY <1>1 DEF AllAt, IsMaster

(* Nobody moves.                                                           *)
LEMMA NobodyMoves ==
  ASSUME NEW S, NEW T, AllAt(S, T), pc' = pc, master' = master
  PROVE  AllAt(S, T)'
BY DEF AllAt, IsMaster

(* Requests other than OP_QUIT are sent, and requests are taken.           *)
LEMMA NoQuitAppend ==
  ASSUME Typed, NoQuit, NEW c \in Rank, NEW k \in Rank, NEW h \in Request, h.op # "QUIT",
         req' = [req EXCEPT ![c][k] = Append(@, h)]
  PROVE  NoQuit'
<1>1. /\ req[c][k] \in Seq(Request) /\ req \in [Rank -> [Rank -> Seq(Request)]]
      /\ Append(req[c][k], h) \in Seq(Request)
  <2>1. req[c][k] \in Seq(Request)
    BY ChannelParts
  <2>2. QED
    BY <2>1, AppendFacts DEF Typed
<1>2. ASSUME NEW d \in Rank, NEW m \in Rank, NEW i \in 1 .. Len(req'[d][m])
      PROVE  req'[d][m][i].op # "QUIT"
  <2>1. CASE d = c /\ m = k
    <3> DEFINE w == Append(req[c][k], h)
    <3>1. req'[d][m] = w
      BY <1>1, <2>1
    <3>2. /\ Len(w) = Len(req[c][k]) + 1 /\ Len(req[c][k]) \in Nat
          /\ w[Len(req[c][k]) + 1] = h
          /\ \A j \in 1 .. Len(req[c][k]) : w[j] = req[c][k][j]
      <4>1. req[c][k] \in Seq(Request) /\ h \in Request
        BY <1>1
      <4>2. QED
        BY <4>1, AppendFacts
    <3> HIDE DEF w
    <3>3. i \in 1 .. Len(req[c][k]) \/ i = Len(req[c][k]) + 1
      BY <1>2, <3>1, <3>2
    <3>4. QED
      BY <3>1, <3>2, <3>3 DEF NoQuit
  <2>2. CASE ~(d = c /\ m = k)
    <3>1. req'[d][m] = req[d][m]
      BY <1>1, <2>2, OneChannel
    <3>2. QED
      BY <1>2, <3>1 DEF NoQuit
  <2>3. QED
    BY <2>1, <2>2
<1>3. QED
  BY <1>2 DEF NoQuit

(* Taking a request leaves no OP_QUIT behind that was not there.           *)
LEMMA NoQuitTail ==
  ASSUME Typed, NoQuit, NEW c \in Rank, NEW k \in Rank, req[c][k] # << >>,
         req' = [req EXCEPT ![c][k] = Tail(@)]
  PROVE  NoQuit'
<1>1. req[c][k] \in Seq(Request) /\ req \in [Rank -> [Rank -> Seq(Request)]]
  BY ChannelParts DEF Typed
<1>2. /\ Tail(req[c][k]) \in Seq(Request)
      /\ \A i \in 1 .. Len(Tail(req[c][k])) :
           i + 1 \in 1 .. Len(req[c][k]) /\ Tail(req[c][k])[i] = req[c][k][i + 1]
  BY <1>1, TailFacts
<1>3. ASSUME NEW d \in Rank, NEW m \in Rank, NEW i \in 1 .. Len(req'[d][m])
      PROVE  req'[d][m][i].op # "QUIT"
  <2>1. CASE d = c /\ m = k
    <3>1. req'[d][m] = Tail(req[c][k])
      BY <1>1, <2>1
    <3>2. i + 1 \in 1 .. Len(req[c][k]) /\ req'[d][m][i] = req[c][k][i + 1]
      BY <1>2, <1>3, <3>1
    <3>3. QED
      BY <3>2 DEF NoQuit
  <2>2. CASE ~(d = c /\ m = k)
    <3>1. req'[d][m] = req[d][m]
      BY <1>1, <1>2, <2>2, OneChannel
    <3>2. QED
      BY <1>3, <3>1 DEF NoQuit
  <2>3. QED
    BY <2>1, <2>2
<1>4. QED
  BY <1>3 DEF NoQuit

(* OP_QUIT is not what a progress rank finds.                              *)
LEMMA NoQuitHead ==
  ASSUME Typed, NoQuit, NEW c \in Rank, NEW k \in Rank, req[c][k] # << >>
  PROVE  Head(req[c][k]).op # "QUIT"
<1>1. req[c][k] \in Seq(Request)
  BY ChannelParts
<1>2. Head(req[c][k]) = req[c][k][1] /\ 1 \in 1 .. Len(req[c][k])
  BY <1>1, TailFacts
<1>3. QED
  BY <1>2 DEF NoQuit

(* A progress rank that serves while the workers are not finished.         *)
LEMMA NoQuitServer ==
  ASSUME Typed, NoQuit, NEW c \in Rank, NEW m \in Rank, progress_server(m, c)
  PROVE  NoQuit' /\ UNCHANGED <<layout, pc, master, semaphores>>
<1>1. req[c][m] # << >> /\ req' = [req EXCEPT ![c][m] = Tail(@)]
  BY DEF progress_server, acc_handler, ReplyHandler, Quit, Pending, ProgressRecv
<1>2. ~Quit(m, c)
  BY NoQuitHead DEF Quit, Pending
<1>3. UNCHANGED <<layout, pc, master, semaphores>>
  BY <1>2 DEF progress_server, acc_handler, ReplyHandler
<1>4. QED
  BY <1>1, <1>3, NoQuitTail

(* From comex_finalize or an abort to the next comex_init.                 *)
LEMMA AsleepStep ==
  ASSUME RankInv, Asleep, Next
  PROVE  Asleep' \/ Running'
<1>1. Typed /\ \A r \in Rank : pc[r] \in {"off", "aborted"}
  BY StageFacts DEF RankInv
<1>2. 0 \in Rank
  BY SizeAssumption DEF SizeAssumption, Rank
<1>3. CASE comex_init
  <2>1. CASE Refused(layout)
    <3>1. pc' = [r \in Rank |-> "aborted"] /\ UNCHANGED <<master, req>>
      BY <1>3, <2>1 DEF comex_init
    <3>2. QED
      BY <3>1 DEF Asleep, AllAt, IsMaster
  <2>2. CASE ~Refused(layout)
    <3>1. /\ master' = AllMasters(layout)
          /\ pc' = [r \in Rank |-> IF master'[r] = r THEN "serving" ELSE "user"]
          /\ semaphores' = Rank /\ layout' = layout /\ req' = req
      BY <1>3, <2>2 DEF comex_init
    <3>2. Divided'
      BY <2>2, <3>1 DEF Divided
    <3>3. AllAt({"serving"}, {"user", "fence1", "barrier1"})'
      BY <3>1 DEF AllAt, IsMaster
    <3>4. NoQuit'
      <4>1. \A c, m \in Rank : req'[c][m] = << >>
        BY <3>1 DEF Asleep
      <4>2. Len(<< >>) = 0
        OBVIOUS
      <4>3. QED
        BY <4>1, <4>2 DEF NoQuit
    <3>5. QED
      BY <3>1, <3>2, <3>3, <3>4 DEF Running
  <2>3. QED
    BY <2>1, <2>2
<1>4. CASE Stopped
  BY <1>4 DEF Stopped, vars, Asleep, AllAt, IsMaster
<1>5. ~Barrier /\ ~WorldBarrier
  BY <1>1, <1>2 DEF Barrier, WorldBarrier, Worker
<1>6. ASSUME NEW c \in Rank PROVE ~comex_finalize(c) /\ ~FinalizeStep(c)
  BY <1>1 DEF comex_finalize, FinalizeStep, FenceDone, free_semaphore, comex_wait_all, Notify
<1>7. ASSUME NEW c \in Rank, NEW t \in Rank PROVE ~nb_acc(c, t) /\ ~nb_get(c, t)
  BY <1>1 DEF nb_acc, nb_get, CanIssue
<1>8. ASSUME NEW c \in Rank, NEW m \in Rank PROVE ~progress_server(m, c)
  BY <1>1 DEF progress_server, acc_handler, ReplyHandler, Quit, Pending
<1>9. ASSUME NEW c \in Rank, NEW m \in Rank, RecvReply(c, m) PROVE Asleep'
  BY <1>9 DEF RecvReply, Asleep, AllAt, IsMaster
<1>10. QED
  BY <1>3, <1>4, <1>5, <1>6, <1>7, <1>8, <1>9 DEF Next

(* While the workers compute or enter comex_finalize.                      *)
LEMMA RunningStep ==
  ASSUME RankInv, Running, Next
  PROVE  Running' \/ Draining'
<1>1. /\ Typed /\ Divided /\ NoQuit /\ semaphores = Rank
      /\ AllAt({"serving"}, {"user", "fence1", "barrier1"})
  BY DEF RankInv, Running
<1>2. \A r \in Rank : /\ pc[r] \in {"serving", "user", "fence1", "barrier1"}
                      /\ pc[r] = "serving" <=> IsMaster(r)
  BY StageFacts
<1>3. 0 \in Rank
  BY SizeAssumption DEF SizeAssumption, Rank
<1>4. ~comex_init /\ ~WorldBarrier /\ ~Stopped
  BY <1>2, <1>3 DEF comex_init, WorldBarrier, Stopped
<1>5. CASE Barrier
  <2>1. PICK b \in {"barrier1", "barrier2"} :
          /\ Worker # {} /\ \A c \in Worker : pc[c] = b
          /\ pc' = [r \in Rank |->
                      IF IsMaster(r) THEN pc[r] ELSE IF b = "barrier1" THEN "free" ELSE "notify"]
          /\ UNCHANGED <<layout, master, fence_array, req, rep, posted, semaphores, ops, inits>>
    BY <1>5 DEF Barrier
  <2>2. b = "barrier1"
    BY <1>2, <2>1 DEF Worker
  <2>3. AllAt({"serving"}, {"free", "wait", "barrier2"})'
    BY <1>2, <2>1, <2>2 DEF AllAt, IsMaster
  <2>4. QED
    BY <1>1, <2>1, <2>3 DEF Draining, Divided, NoQuit
<1>6. ASSUME NEW c \in Rank, comex_finalize(c) PROVE Running'
  <2> DEFINE F == fence_array[c]
             Q == [m \in Rank |-> IF m \in F THEN Append(req[c][m], Req("FENCE", c)) ELSE req[c][m]]
             to == IF F = {} THEN "barrier1" ELSE "fence1"
  <2>1. /\ pc[c] = "user" /\ comex_fence_all(c, "fence1", "barrier1")
        /\ UNCHANGED <<layout, master, fence_array, rep, semaphores, ops, inits>>
    BY <1>6 DEF comex_finalize
  <2>2. pc' = [pc EXCEPT ![c] = to] /\ ~IsMaster(c)
    BY <1>2, <2>1, Zenon DEF comex_fence_all, Goto, to, F
  <2>3. to \in {"user", "fence1", "barrier1"}
    OBVIOUS
  <2>4. req' = [req EXCEPT ![c] = Q]
    <3>1. req' = [req EXCEPT ![c] = [m \in Rank |->
                    IF m \in F THEN Append(req[c][m], Req("FENCE", c)) ELSE req[c][m]]]
      BY <1>1, <2>1 DEF comex_fence_all, Typed
    <3>2. QED
      BY <3>1
  <2>5. ASSUME NEW m \in Rank, NEW i \in 1 .. Len(Q[m]) PROVE Q[m][i].op # "QUIT"
    <3>1. req[c][m] \in Seq(Request) /\ Req("FENCE", c) \in Request /\ Req("FENCE", c).op = "FENCE"
      BY <1>1, ChannelParts, RequestFacts
    <3>2. CASE m \in F
      <4>1. Q[m] = Append(req[c][m], Req("FENCE", c))
        BY <3>2
      <4> HIDE DEF Q
      <4>2. /\ Len(Q[m]) = Len(req[c][m]) + 1 /\ Len(req[c][m]) \in Nat
            /\ Q[m][Len(req[c][m]) + 1] = Req("FENCE", c)
            /\ \A j \in 1 .. Len(req[c][m]) : Q[m][j] = req[c][m][j]
        BY <3>1, <4>1, AppendFacts
      <4>3. i \in 1 .. Len(req[c][m]) \/ i = Len(req[c][m]) + 1
        BY <2>5, <4>2
      <4>4. QED
        BY <1>1, <3>1, <4>2, <4>3 DEF NoQuit
    <3>3. CASE m \notin F
      <4>1. Q[m] = req[c][m]
        BY <3>3
      <4>2. QED
        BY <1>1, <2>5, <4>1 DEF NoQuit
    <3>4. QED
      BY <3>2, <3>3
  <2> HIDE DEF Q, to
  <2>6. NoQuit'
    <3>1. \A d \in Rank : req'[d] = IF d = c THEN Q ELSE req[d]
      BY <1>1, <2>4 DEF Typed
    <3>2. QED
      BY <1>1, <2>5, <3>1 DEF NoQuit
  <2>7. AllAt({"serving"}, {"user", "fence1", "barrier1"})'
    BY <1>1, <2>1, <2>2, <2>3, WorkerMoves
  <2>8. QED
    BY <1>1, <2>1, <2>6, <2>7 DEF Running, Divided
<1>7. ASSUME NEW c \in Rank, FinalizeStep(c) PROVE Running'
  <2>1. FenceDone(c)
    BY <1>2, <1>7 DEF FinalizeStep, free_semaphore, comex_wait_all, Notify
  <2>2. pc[c] = "fence1" /\ pc' = [pc EXCEPT ![c] = "barrier1"] /\ UNCHANGED <<layout, master, req, semaphores>>
    BY <1>2, <2>1 DEF FenceDone, Goto
  <2>3. ~IsMaster(c) /\ "barrier1" \in {"user", "fence1", "barrier1"} /\ master' = master
    BY <1>2, <2>2
  <2>4. AllAt({"serving"}, {"user", "fence1", "barrier1"})'
    BY <1>1, <2>2, <2>3, WorkerMoves
  <2>5. QED
    BY <1>1, <2>2, <2>4 DEF Running, Divided, NoQuit
<1>8. ASSUME NEW c \in Rank, NEW t \in Rank, nb_acc(c, t) \/ nb_get(c, t) PROVE Running'
  <2>1. /\ UNCHANGED <<layout, pc, master, semaphores>>
        /\ \/ req' = [req EXCEPT ![c][master[t]] = Append(@, Req("ACC", t))]
           \/ req' = [req EXCEPT ![c][master[t]] = Append(@, Req("GET", t))]
    BY <1>8 DEF nb_acc, nb_get, nb_send_header
  <2>2. /\ master[t] \in Rank /\ Req("ACC", t) \in Request /\ Req("GET", t) \in Request
        /\ Req("ACC", t).op # "QUIT" /\ Req("GET", t).op # "QUIT"
    BY <1>1, RequestFacts DEF Typed
  <2>3. NoQuit'
    BY <1>1, <2>1, <2>2, NoQuitAppend
  <2>4. QED
    BY <1>1, <2>1, <2>3, NobodyMoves DEF Running, Divided
<1>9. ASSUME NEW c \in Rank, NEW m \in Rank, RecvReply(c, m) \/ progress_server(m, c) PROVE Running'
  <2>1. NoQuit' /\ UNCHANGED <<layout, pc, master, semaphores>>
    <3>1. CASE RecvReply(c, m)
      BY <1>1, <3>1 DEF RecvReply, NoQuit
    <3>2. CASE progress_server(m, c)
      BY <1>1, <3>2, NoQuitServer
    <3>3. QED
      BY <1>9, <3>1, <3>2
  <2>2. QED
    BY <1>1, <2>1, NobodyMoves DEF Running, Divided
<1>10. QED
  BY <1>4, <1>5, <1>6, <1>7, <1>8, <1>9 DEF Next

(* While the workers leave comex_finalize, to its second barrier.  All     *)
(* channels are empty when they pass it.                                   *)
LEMMA DrainingStep ==
  ASSUME RankInv, Draining, Next
  PROVE  Draining' \/ Leaving'
<1>1. /\ Typed /\ Divided /\ NoQuit
      /\ AllAt({"serving"}, {"free", "wait", "barrier2"})
  BY DEF RankInv, Draining
<1>2. \A r \in Rank : /\ pc[r] \in {"serving", "free", "wait", "barrier2"}
                      /\ pc[r] = "serving" <=> IsMaster(r)
  BY StageFacts
<1>3. 0 \in Rank
  BY SizeAssumption DEF SizeAssumption, Rank
<1>4. ~comex_init /\ ~WorldBarrier /\ ~Stopped
  BY <1>2, <1>3 DEF comex_init, WorldBarrier, Stopped
<1>5. CASE Barrier
  <2>1. PICK b \in {"barrier1", "barrier2"} :
          /\ Worker # {} /\ \A c \in Worker : pc[c] = b
          /\ pc' = [r \in Rank |->
                      IF IsMaster(r) THEN pc[r] ELSE IF b = "barrier1" THEN "free" ELSE "notify"]
          /\ UNCHANGED <<layout, master, fence_array, req, rep, posted, semaphores, ops, inits>>
    BY <1>5 DEF Barrier
  <2>2. b = "barrier2"
    BY <1>2, <2>1 DEF Worker
  <2>3. AllAt({"serving", "world"}, {"notify", "world"})'
    BY <1>2, <2>1, <2>2 DEF AllAt, IsMaster
  <2>4. ASSUME NEW c \in Rank, NEW m \in Rank PROVE req[c][m] = << >>
    <3>1. pc[c] \in {"serving", "barrier2"}
      BY <1>2, <2>1, <2>2 DEF Worker
    <3>2. posted[c][m] = 0 /\ fence_array[c] = {} /\ Counted(rep[c][m], req[c][m], posted[c][m])
      BY <3>1 DEF RankInv, Account, Balance, Flags, Waiting
    <3>3. rep[c][m] \in Nat /\ req[c][m] \in Seq(Request)
      BY <1>1, ChannelParts
    <3>4. \A i \in 1 .. Len(req[c][m]) : req[c][m][i].op \notin {"GET", "FENCE"}
      BY <3>2, <3>3, CountedZero
    <3>5. \A i \in 1 .. Len(req[c][m]) : req[c][m][i].op # "ACC"
      BY <3>2 DEF RankInv, Account, Balance
    <3>6. \A i \in 1 .. Len(req[c][m]) : req[c][m][i].op # "QUIT"
      BY <1>1 DEF NoQuit
    <3>7. ~(1 \in 1 .. Len(req[c][m]))
      <4>1. \A i \in 1 .. Len(req[c][m]) : req[c][m][i] \in Request
        BY <3>3
      <4>2. \A h \in Request : h.op \in {"ACC", "GET", "FENCE", "QUIT"}
        BY DEF Request
      <4>3. QED
        BY <3>4, <3>5, <3>6, <4>1, <4>2
    <3>8. QED
      BY <3>3, <3>7
  <2>5. Stopping'
    <3>1. \A m \in Rank : IsMaster(m) => pc'[m] = "serving"
      BY <1>2, <2>1
    <3>2. \A c, m \in Rank : req'[c][m] = << >>
      BY <2>1, <2>4
    <3>3. master' = master
      BY <2>1
    <3>4. QED
      BY <3>1, <3>2, <3>3 DEF Stopping, IsMaster
  <2>6. QED
    BY <1>1, <2>1, <2>3, <2>5 DEF Leaving, Divided
<1>6. ASSUME NEW c \in Rank PROVE ~comex_finalize(c)
  BY <1>2 DEF comex_finalize
<1>7. ASSUME NEW c \in Rank, FinalizeStep(c) PROVE Draining'
  <2>1. free_semaphore(c) \/ comex_wait_all(c)
    BY <1>2, <1>7 DEF FinalizeStep, FenceDone, Notify
  <2>2. PICK to \in {"free", "wait", "barrier2"} :
          pc' = [pc EXCEPT ![c] = to] /\ pc[c] \in {"free", "wait"} /\ UNCHANGED <<layout, master, req>>
    <3>1. CASE free_semaphore(c)
      BY <3>1 DEF free_semaphore, Goto
    <3>2. CASE comex_wait_all(c)
      BY <3>2, WaitAllMoves
    <3>3. QED
      BY <2>1, <3>1, <3>2
  <2>3. ~IsMaster(c) /\ master' = master
    BY <1>2, <2>2
  <2>4. AllAt({"serving"}, {"free", "wait", "barrier2"})'
    BY <1>1, <2>2, <2>3, WorkerMoves
  <2>5. QED
    BY <1>1, <2>2, <2>4 DEF Draining, Divided, NoQuit
<1>8. ASSUME NEW c \in Rank, NEW t \in Rank PROVE ~nb_acc(c, t) /\ ~nb_get(c, t)
  BY <1>2 DEF nb_acc, nb_get, CanIssue
<1>9. ASSUME NEW c \in Rank, NEW m \in Rank, RecvReply(c, m) \/ progress_server(m, c) PROVE Draining'
  <2>1. NoQuit' /\ UNCHANGED <<layout, pc, master>>
    <3>1. CASE RecvReply(c, m)
      BY <1>1, <3>1 DEF RecvReply, NoQuit
    <3>2. CASE progress_server(m, c)
      BY <1>1, <3>2, NoQuitServer
    <3>3. QED
      BY <1>9, <3>1, <3>2
  <2>2. QED
    BY <1>1, <2>1, NobodyMoves DEF Draining, Divided
<1>10. QED
  BY <1>4, <1>5, <1>6, <1>7, <1>8, <1>9 DEF Next

(* A notifier stops its progress rank.                                     *)
LEMMA LeavingNotify ==
  ASSUME LayoutsServed, RankInv, Leaving, NEW c \in Rank, Notify(c)
  PROVE  Leaving'
<1> DEFINE k == master[c]
<1>1. /\ Typed /\ Divided /\ Stopping /\ AllAt({"serving", "world"}, {"notify", "world"})
  BY DEF RankInv, Leaving
<1>2. /\ pc[c] = "notify" /\ pc' = [pc EXCEPT ![c] = "world"]
      /\ UNCHANGED <<layout, master>>
      /\ IF Notifies(layout, master, c) THEN req' = [req EXCEPT ![c][k] = Append(@, Req("QUIT", 0))]
                                        ELSE req' = req
  BY DEF Notify, Goto, nb_send_header
<1>3. ~IsMaster(c) /\ k \in Rank /\ k # c
  BY <1>1, <1>2, StageFacts DEF IsMaster, Typed
<1>4. IsMaster(k)
  BY <1>1, ServedFacts
<1> HIDE DEF k
<1>5. AllAt({"serving", "world"}, {"notify", "world"})'
  <2>1. "world" \in {"notify", "world"} /\ master' = master
    BY <1>2
  <2>2. QED
    BY <1>1, <1>2, <1>3, <2>1, WorkerMoves
<1>6. \A r \in Rank : pc'[r] = IF r = c THEN "world" ELSE pc[r]
  BY <1>1, <1>2 DEF Typed
<1>7. \A d, m \in Rank : Notifier(d, m)' <=> Notifier(d, m)
  BY <1>2 DEF Notifier
<1>8. ASSUME NEW d \in Rank, NEW m \in Rank
      PROVE  \/ req'[d][m] = << >>
             \/ /\ req'[d][m] = <<Req("QUIT", 0)>>
                /\ pc'[m] = "serving" /\ pc'[d] = "world" /\ Notifier(d, m)
  <2>1. \/ req[d][m] = << >>
        \/ /\ req[d][m] = <<Req("QUIT", 0)>>
           /\ pc[m] = "serving" /\ pc[d] = "world" /\ Notifier(d, m)
    BY <1>1 DEF Stopping
  <2>2. CASE req'[d][m] = req[d][m]
    BY <1>2, <1>6, <2>1, <2>2
  <2>3. CASE req'[d][m] # req[d][m]
    <3>1. Notifies(layout, master, c) /\ req' = [req EXCEPT ![c][k] = Append(@, Req("QUIT", 0))]
      BY <1>2, <2>3
    <3>2. req \in [Rank -> [Rank -> Seq(Request)]]
      BY <1>1 DEF Typed
    <3>3. d = c /\ m = k /\ req'[d][m] = Append(req[c][k], Req("QUIT", 0))
      BY <1>3, <2>3, <3>1, <3>2
    <3>4. req[c][k] = << >>
      BY <1>2, <2>1, <3>3
    <3>5. req'[d][m] = <<Req("QUIT", 0)>>
      BY <3>3, <3>4
    <3>6. Notifier(c, k)
      BY <1>3, <3>1 DEF Notifier, k
    <3>7. pc[k] \in {"serving", "world"}
      BY <1>3, <1>4, StageFacts
    <3>8. pc[k] = "serving"
      BY <1>1, <1>2, <1>3, <1>4, <3>6, <3>7 DEF Stopping
    <3>9. QED
      BY <1>3, <1>6, <3>3, <3>5, <3>6, <3>8
  <2>4. QED
    BY <2>2, <2>3
<1>9. ASSUME NEW d \in Rank, NEW m \in Rank, pc'[m] = "world", IsMaster(m), Notifier(d, m)
      PROVE  pc'[d] = "world"
  BY <1>1, <1>3, <1>6, <1>9 DEF Stopping
<1>10. Stopping'
  BY <1>2, <1>7, <1>8, <1>9 DEF Stopping, IsMaster
<1>11. QED
  BY <1>1, <1>2, <1>5, <1>10 DEF Leaving, Divided

(* A progress rank finds OP_QUIT, and nothing else.                        *)
LEMMA LeavingServer ==
  ASSUME LayoutsServed, RankInv, Leaving, NEW c \in Rank, NEW m \in Rank, progress_server(m, c)
  PROVE  Leaving'
<1>1. /\ Typed /\ Divided /\ Stopping /\ AllAt({"serving", "world"}, {"notify", "world"})
  BY DEF RankInv, Leaving
<1>2. pc[m] = "serving" /\ req[c][m] # << >> /\ Head(req[c][m]).op \in {"ACC", "GET", "FENCE", "QUIT"}
  BY DEF progress_server, acc_handler, ReplyHandler, Quit, Pending
<1>3. req[c][m] = <<Req("QUIT", 0)>> /\ pc[c] = "world" /\ Notifier(c, m)
  BY <1>1, <1>2 DEF Stopping
<1>4. Head(req[c][m]).op = "QUIT" /\ Tail(req[c][m]) = << >>
  BY <1>3 DEF Req
<1>5. Quit(m, c)
  BY <1>4 DEF progress_server, acc_handler, ReplyHandler, Pending
<1>6. /\ req' = [req EXCEPT ![c][m] = << >>] /\ pc' = [pc EXCEPT ![m] = "world"]
      /\ UNCHANGED <<layout, master>>
  BY <1>4, <1>5 DEF Quit, ProgressRecv, Goto
<1>7. IsMaster(m)
  BY <1>2, StageFacts
<1>8. \A r \in Rank : pc'[r] = IF r = m THEN "world" ELSE pc[r]
  BY <1>1, <1>6 DEF Typed
<1>9. AllAt({"serving", "world"}, {"notify", "world"})'
  BY <1>1, <1>6, <1>7, <1>8 DEF AllAt, IsMaster
<1>10. \A x, y \in Rank : Notifier(x, y)' <=> Notifier(x, y)
  BY <1>6 DEF Notifier
<1>11. ASSUME NEW x \in Rank, NEW y \in Rank
       PROVE  \/ req'[x][y] = << >>
              \/ /\ req'[x][y] = <<Req("QUIT", 0)>>
                 /\ pc'[y] = "serving" /\ pc'[x] = "world" /\ Notifier(x, y)
  <2>1. req'[x][y] = IF x = c /\ y = m THEN << >> ELSE req[x][y]
    BY <1>1, <1>6 DEF Typed
  <2>2. \/ req[x][y] = << >>
        \/ /\ req[x][y] = <<Req("QUIT", 0)>>
           /\ pc[y] = "serving" /\ pc[x] = "world" /\ Notifier(x, y)
    BY <1>1 DEF Stopping
  <2>3. CASE y = m
    <3>1. Notifier(x, m) => x = c
      BY <1>1, <1>3, ServedFacts
    <3>2. QED
      BY <2>1, <2>2, <2>3, <3>1
  <2>4. CASE y # m
    BY <1>8, <2>1, <2>2, <2>4
  <2>5. QED
    BY <2>3, <2>4
<1>12. ASSUME NEW x \in Rank, NEW y \in Rank, pc'[y] = "world", IsMaster(y), Notifier(x, y)
       PROVE  pc'[x] = "world"
  <2>1. CASE y = m
    <3>1. x = c
      BY <1>1, <1>3, <1>12, <2>1, ServedFacts
    <3>2. QED
      BY <1>3, <1>8, <3>1
  <2>2. CASE y # m
    <3>1. pc[x] = "world"
      BY <1>1, <1>8, <1>12, <2>2 DEF Stopping
    <3>2. QED
      BY <1>8, <3>1
  <2>3. QED
    BY <2>1, <2>2
<1>13. Stopping'
  BY <1>6, <1>10, <1>11, <1>12 DEF Stopping, IsMaster
<1>14. QED
  BY <1>1, <1>6, <1>9, <1>13 DEF Leaving, Divided

(* Until everyone is in the last barrier.                                  *)
LEMMA LeavingStep ==
  ASSUME LayoutsServed, RankInv, Leaving, Next
  PROVE  Leaving' \/ Asleep'
<1>1. /\ Typed /\ Divided /\ Stopping /\ AllAt({"serving", "world"}, {"notify", "world"})
  BY DEF RankInv, Leaving
<1>2. \A r \in Rank : /\ pc[r] \in {"serving", "world", "notify"}
                      /\ ~IsMaster(r) => pc[r] # "serving"
  BY StageFacts
<1>3. 0 \in Rank
  BY SizeAssumption DEF SizeAssumption, Rank
<1>4. ~comex_init /\ ~Stopped /\ ~Barrier
  BY <1>2, <1>3 DEF comex_init, Stopped, Barrier, Worker
<1>5. CASE WorldBarrier
  <2>1. /\ \A r \in Rank : pc[r] = "world"
        /\ pc' = [r \in Rank |-> "off"] /\ UNCHANGED <<master, req>>
    BY <1>5 DEF WorldBarrier
  <2>2. \A c, m \in Rank : req[c][m] = << >>
    BY <1>1, <2>1 DEF Stopping
  <2>3. QED
    BY <2>1, <2>2 DEF Asleep, AllAt, IsMaster
<1>6. ASSUME NEW c \in Rank PROVE ~comex_finalize(c)
  BY <1>2 DEF comex_finalize
<1>7. ASSUME NEW c \in Rank, FinalizeStep(c) PROVE Leaving'
  <2>1. Notify(c)
    BY <1>2, <1>7 DEF FinalizeStep, FenceDone, free_semaphore, comex_wait_all
  <2>2. QED
    BY <2>1, LeavingNotify
<1>8. ASSUME NEW c \in Rank, NEW t \in Rank PROVE ~nb_acc(c, t) /\ ~nb_get(c, t)
  BY <1>2 DEF nb_acc, nb_get, CanIssue
<1>9. ASSUME NEW c \in Rank, NEW m \in Rank, RecvReply(c, m) \/ progress_server(m, c) PROVE Leaving'
  <2>1. CASE RecvReply(c, m)
    BY <2>1 DEF RecvReply, Leaving, Divided, AllAt, IsMaster, Stopping, Notifier
  <2>2. CASE progress_server(m, c)
    BY <2>2, LeavingServer
  <2>3. QED
    BY <1>9, <2>1, <2>2
<1>10. QED
  BY <1>4, <1>5, <1>6, <1>7, <1>8, <1>9 DEF Next

(* IInv is inductive in a job whose layouts are divided well.              *)
LEMMA JobInit ==
  ASSUME Init
  PROVE  IInv
<1>1. RankInv
  BY RankInit
<1>2. Asleep
  BY DEF Init, Asleep, AllAt, AllPairs
<1>3. QED
  BY <1>1, <1>2 DEF IInv

(* The invariant is inductive when the layouts are served.                 *)
LEMMA JobStep ==
  ASSUME LayoutsServed, IInv, [Next]_vars
  PROVE  IInv'
<1>1. RankInv /\ RankInv'
  BY RankStep DEF IInv
<1>2. CASE Next
  BY <1>1, <1>2, AsleepStep, RunningStep, DrainingStep, LeavingStep DEF IInv
<1>3. CASE UNCHANGED vars
  <2>1. UNCHANGED <<layout, pc, master, req, semaphores>>
    BY <1>3 DEF vars
  <2>2. /\ Asleep => Asleep'
        /\ Running => Running'
        /\ Draining => Draining'
        /\ Leaving => Leaving'
    BY <2>1 DEF Asleep, Running, Draining, Leaving, Divided, AllAt, IsMaster, NoQuit, Stopping, Notifier
  <2>3. QED
    BY <1>1, <2>2 DEF IInv
<1>4. QED
  BY <1>2, <1>3

-----------------------------------------------------------------------------
(* What the invariant says of the job.                                     *)

(* Nothing of a rank that is not waiting for replies is under way.         *)
LEMMA QuietChannel ==
  ASSUME RankInv, NEW c \in Rank, NEW m \in Rank, pc[c] \notin Waiting
  PROVE  rep[c][m] = 0 /\ posted[c][m] = 0
<1>1. Account(c, m) /\ Typed
  BY DEF RankInv
<1>2. Counted(rep[c][m], req[c][m], posted[c][m]) /\ posted[c][m] = 0
  BY <1>1 DEF Account, Balance
<1>3. rep[c][m] \in Nat /\ req[c][m] \in Seq(Request)
  BY <1>1, ChannelParts
<1>4. QED
  BY <1>2, <1>3, CountedZero

(* Asleep and leaving jobs have nothing in flight but OP_QUIT.             *)
LEMMA NothingAfterQuit ==
  ASSUME IInv
  PROVE  QuitIsLast
<1>1. ASSUME NEW m \in Rank, IsMaster(m), pc[m] # "serving", NEW c \in Rank
      PROVE  req[c][m] = << >> /\ rep[c][m] = 0 /\ posted[c][m] = 0
  <2>1. Asleep \/ Leaving
    <3>1. ~Running /\ ~Draining
      BY <1>1, StageFacts
    <3>2. QED
      BY <3>1 DEF IInv
  <2>2. req[c][m] = << >>
    <3>1. CASE Asleep
      BY <3>1 DEF Asleep
    <3>2. CASE Leaving
      BY <1>1, <3>2 DEF Leaving, Stopping
    <3>3. QED
      BY <2>1, <3>1, <3>2
  <2>3. pc[c] \notin Waiting
    BY <2>1, StageFacts DEF Waiting
  <2>4. QED
    BY <2>2, <2>3, QuietChannel DEF IInv
<1>2. QED
  BY <1>1 DEF QuitIsLast

(* Accumulates are in flight only while all semaphores exist.              *)
LEMMA AccsFindSemaphores ==
  ASSUME IInv
  PROVE  SemaphoresOutliveAccs
<1>1. ASSUME NEW c \in Rank, NEW m \in Rank, NEW i \in DOMAIN req[c][m], req[c][m][i].op = "ACC"
      PROVE  {req[c][m][i].rank, m} \subseteq semaphores
  <2>1. RankInv /\ Typed
    BY DEF IInv, RankInv
  <2>2. req[c][m] \in Seq(Request)
    BY <2>1, ChannelParts
  <2>3. i \in 1 .. Len(req[c][m]) /\ req[c][m][i] \in Request
    BY <1>1, <2>2
  <2>4. req[c][m][i].rank \in Rank
    BY <2>3 DEF Request
  <2>5. CASE Running
    BY <2>4, <2>5 DEF Running
  <2>6. CASE Asleep
    <3>1. req[c][m] = << >>
      BY <2>6 DEF Asleep
    <3>2. QED
      BY <2>3, <3>1
  <2>7. CASE Draining
    <3>1. pc[c] \in {"serving", "free", "wait", "barrier2"}
      BY <2>7, StageFacts
    <3>2. fence_array[c] = {}
      BY <2>1, <3>1 DEF RankInv, Flags
    <3>3. \A j \in 1 .. Len(req[c][m]) : req[c][m][j].op # "ACC"
      BY <2>1, <3>2 DEF RankInv, Account, Balance
    <3>4. QED
      BY <1>1, <2>3, <3>3
  <2>8. CASE Leaving
    <3>1. req[c][m] = << >> \/ req[c][m] = <<Req("QUIT", 0)>>
      BY <2>8 DEF Leaving, Stopping
    <3>2. req[c][m] # << >>
      BY <2>3
    <3>3. req[c][m] = <<Req("QUIT", 0)>>
      BY <3>1, <3>2
    <3>4. i = 1
      BY <2>3, <3>3
    <3>5. req[c][m][i].op = "QUIT"
      BY <3>3, <3>4 DEF Req
    <3>6. QED
      BY <1>1, <3>5
  <2>9. QED
    BY <2>5, <2>6, <2>7, <2>8 DEF IInv
<1>2. QED
  BY <1>1 DEF SemaphoresOutliveAccs

(* A job whose progress ranks serve and whose workers compute is running.  *)
LEMMA RunningIsServed ==
  ASSUME LayoutsServed, IInv, \A r \in Rank : pc[r] \in {"serving", "user"}
  PROVE  ServesNodes(layout, master)
<1>1. 0 \in Rank
  BY SizeAssumption DEF SizeAssumption, Rank
<1>2. ASSUME Draining PROVE Divided
  BY <1>2 DEF Draining
<1>3. ASSUME Leaving PROVE Divided
  BY <1>3 DEF Leaving
<1>4. ASSUME Running PROVE Divided
  BY <1>4 DEF Running
<1>5. ~Asleep
  BY <1>1, StageFacts
<1>6. Divided /\ layout \in Layouts
  BY <1>2, <1>3, <1>4, <1>5 DEF IInv, RankInv, Typed
<1>7. QED
  BY <1>6 DEF LayoutsServed, Divided

-----------------------------------------------------------------------------
(* The theorems, of orderly layouts.                                       *)

(* The layouts of an orderly job are served.                               *)
LEMMA OrderlyServed ==
  ASSUME OrderlyLayouts
  PROVE  LayoutsServed
<1>1. ASSUME NEW l \in Layouts, ~Refused(l) PROVE ServesNodes(l, AllMasters(l))
  <2>1. l \in Layout /\ Size \in Nat \ {0}
    BY LifecycleAssumption, SizeAssumption DEF LifecycleAssumption, SizeAssumption
  <2>2. l \in Environment(Size)
    BY <2>1 DEF Layout, Environment, Rank, Ranks
  <2>3. Contiguous(Size, l) /\ Workable(Size, l)
    BY DEF OrderlyLayouts
  <2>4. QED
    BY <1>1, <2>1, <2>2, <2>3, DivisionServes
<1>2. QED
  BY <1>1 DEF LayoutsServed

(* So are the larger environments.                                         *)
LEMMA OrderlyDivided ==
  ASSUME OrderlyDivisions
  PROVE  LargerJobsServed
<1>1. ASSUME NEW l \in Divisions, ~Refused(l) PROVE ServesNodes(l, AllMasters(l))
  <2>1. PICK n \in Nat \ {0} : l \in Environment(n) /\ Contiguous(n, l) /\ Workable(n, l)
    BY DEF OrderlyDivisions
  <2>2. QED
    BY <1>1, <2>1, DivisionServes
<1>2. QED
  BY <1>1 DEF LargerJobsServed

(* The stages of start-up and shutdown follow one another: every reachable *)
(* state of an orderly job is asleep, running, draining or leaving, with   *)
(* the accounts of its channels balanced.                                  *)
THEOREM Invariance ==
  ASSUME OrderlyLayouts
  PROVE  Spec => []IInv
<1>1. LayoutsServed
  BY OrderlyServed
<1>2. Init => IInv
  BY JobInit
<1>3. IInv /\ [Next]_vars => IInv'
  BY <1>1, JobStep
<1>4. QED
  BY <1>2, <1>3, PTL DEF Spec

(* No progress rank of an orderly job leaves its loop while a message to or*)
(* from it is under way or somebody waits for it: the drain of             *)
(* comex_finalize comes before OP_QUIT, and each progress rank gets one.   *)
THEOREM QuitSafety ==
  ASSUME OrderlyLayouts
  PROVE  Spec => []QuitIsLast
<1>1. Spec => []IInv
  BY Invariance
<1>2. IInv => QuitIsLast
  BY NothingAfterQuit
<1>3. QED
  BY <1>1, <1>2, PTL

(* No rank of an orderly job destroys its semaphore while an accumulate    *)
(* that will take it is under way: the fence and the barrier at the head of*)
(* comex_finalize come before _free_semaphore.                             *)
THEOREM SemaphoreSafety ==
  ASSUME OrderlyLayouts
  PROVE  Spec => []SemaphoresOutliveAccs
<1>1. Spec => []IInv
  BY Invariance
<1>2. IInv => SemaphoresOutliveAccs
  BY AccsFindSemaphores
<1>3. QED
  BY <1>1, <1>2, PTL

(* Every node of an orderly job is served by its own progress ranks while  *)
(* it runs, and so is any other orderly job, of whatever size.             *)
THEOREM DivisionSafety ==
  ASSUME OrderlyLayouts, OrderlyDivisions
  PROVE  Spec => []MastersServeTheirNode
<1>1. LayoutsServed /\ LargerJobsServed
  BY OrderlyServed, OrderlyDivided
<1>2. Spec => []IInv
  BY Invariance
<1>3. IInv => MastersServeTheirNode
  BY <1>1, RunningIsServed DEF MastersServeTheirNode
<1>4. QED
  BY <1>2, <1>3, PTL

=============================================================================
