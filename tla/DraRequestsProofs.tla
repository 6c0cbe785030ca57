------------------------- MODULE DraRequestsProofs -------------------------
(***************************************************************************)
(* Theorems about the asynchronous transfers of disk resident arrays.      *)
(***************************************************************************)
EXTENDS DraRequests, FiniteSetTheorems, WellFoundedInduction, TLAPS

-----------------------------------------------------------------------------
(* The inductive invariant.                                                *)

Placing(y) == [e \in Elements(y.chunk) |-> Location(Array, y.chunk, e)]

Kinds == {"none", "write", "read", "wait", "probe", "flick"}
Ops == {"none", "cover", "write", "read"}

Calls == [kind : Kinds, t : (1..MaxTransfers) \cup {None},
          slot : Slots \cup {None}, done : BOOLEAN]
Issues == {[op |-> x.op, sect |-> x.sect, touched |-> Touched(x.sect)] : x \in Transfers}
Values == 0..MaxTransfers
Wheres == {<<>>} \cup {Placing(y) : y \in PieceSet}
Datas == {<<>>} \cup UNION {[Elements(y.chunk) -> Values] : y \in PieceSet}

Buffer ==
  [active : BOOLEAN, call : Slots \cup {None}, t : (1..MaxTransfers) \cup {None},
   op : Ops, align : BOOLEAN, callback : BOOLEAN,
   io : {"none", "read", "write", "ready"}, mov : BOOLEAN,
   piece : PieceSet \cup {FreeBuf.piece}, where : Wheres, data : Datas]

Types ==
  /\ prog \in Seq(Calls) /\ Len(prog) \in 1..2
  /\ at \in [Proc -> [n : 1..2, stage : Enter1..Out]]
  /\ left \in [Proc -> Seq(PieceSet)]
  /\ buf \in [Proc -> [1..NBuf -> Buffer]]
  /\ last_buf \in [Proc -> 1..NBuf]
  /\ pending \in [Proc -> [Slots -> BOOLEAN]]
  /\ handle \in [Proc -> [1..MaxTransfers -> Slots \cup {None}]]
  /\ known \in [Proc -> SUBSET (1..MaxTransfers)]
  /\ asked \in Seq(Issues) /\ Len(asked) \in 0..MaxTransfers
  /\ disk \in [Touched(Whole) -> Values]

(* The calls under way.                                                    *)
StagesOf(kind) ==
  CASE kind = "none" -> {Out}
    [] kind = "write" -> Enter1..Out
    [] kind = "read" -> {Enter1, Leave1, Work, Out}
    [] kind = "wait" -> {Work, Enter2, Leave2, Out}
    [] OTHER -> {Work, Leave2, Out}

CallsSound ==
  /\ Len(prog) = 2 => \E q \in Proc : at[q].n = 2
  /\ \A k \in DOMAIN prog :
       /\ prog[k].kind = "none" => k = 1
       /\ prog[k].kind \notin {"none", "flick"} => prog[k].t \in DOMAIN asked
       /\ prog[k].kind = "flick" => prog[k].slot \in Slots
  /\ \A p \in Proc :
       /\ at[p].n \in DOMAIN prog
       /\ at[p].stage \in StagesOf(Call(p).kind)
       /\ at[p].n = 2 => \E q \in Proc : at[q].n = 1

(* What p has passed in call n every process has reached.                  *)
Passes(p, n, stage) == at[p].n > n \/ (at[p].n = n /\ at[p].stage > stage)

Barriers ==
  \A p \in Proc : \A n \in DOMAIN prog :
    /\ prog[n].kind \in {"write", "read"} /\ Passes(p, n, Leave1) => AllReached(n, Leave1)
    /\ prog[n].kind \notin {"none", "read"} /\ Passes(p, n, Leave2) => AllReached(n, Leave2)

(* What a call does to the table of requests, wherever it is made.         *)
Table(p) == [pending |-> pending[p], handle |-> handle[p]]
Tables == [pending : [Slots -> BOOLEAN], handle : [1..MaxTransfers -> Slots \cup {None}]]

Give(c, T) ==
  LET i == Min({j \in Slots : ~ T.pending[j]})
  IN [pending |-> [T.pending EXCEPT ![i] = TRUE], handle |-> [T.handle EXCEPT ![c.t] = i]]
Clear(T, i) == [pending |-> [T.pending EXCEPT ![i] = FALSE], handle |-> T.handle]

Effect(c, T) ==
  CASE c.kind \in {"write", "read"} -> Give(c, T)
    [] c.kind = "wait" -> Clear(T, T.handle[c.t])
    [] c.kind = "probe" /\ c.done -> Clear(T, T.handle[c.t])
    [] c.kind = "flick" /\ c.done -> Clear(T, c.slot)
    [] OTHER -> T

Applied(p) ==
  CASE Call(p).kind = "none" -> TRUE
    [] Call(p).kind \in {"write", "read"} -> at[p].stage >= Work
    [] Call(p).kind = "wait" -> at[p].stage >= Enter2
    [] OTHER -> at[p].stage = Out
Count(p) == IF Applied(p) THEN at[p].n ELSE at[p].n - 1

(* The processes go through the same tables, one after each call.  A       *)
(* transfer finds a free handle and has none yet; one that is waited for   *)
(* or probed has been given one, and all have when all calls are through.  *)
TablesChain(T) ==
  /\ \A k \in DOMAIN prog :
       /\ T[k] = Effect(prog[k], T[k - 1])
       /\ \A t \in 1..MaxTransfers : t > Len(asked) => T[k].handle[t] = None
       /\ prog[k].kind \in {"write", "read"} =>
            /\ \E i \in Slots : ~ T[k - 1].pending[i]
            /\ \A t \in 1..MaxTransfers : t >= prog[k].t => T[k - 1].handle[t] = None
       /\ prog[k].kind \in {"wait", "probe"} => T[k - 1].handle[prog[k].t] \in Slots
  /\ \A t \in DOMAIN asked : T[Len(prog)].handle[t] \in Slots
  /\ \A p \in Proc : Table(p) = T[Count(p)]

TablesInStep == \E T \in [0..2 -> Tables] : TablesChain(T)

(* A request that is pending is that of a transfer not known complete.     *)
Owing(p, i, t) ==
  /\ handle[p][t] = i /\ t \notin known[p]
  /\ ~ (Call(p).kind = "wait" /\ at[p].stage \in {Enter2, Leave2} /\ t = Call(p).t)

Owed ==
  \A p \in Proc, i \in Slots : pending[p][i] => \E t \in 1..MaxTransfers : Owing(p, i, t)

(* A transfer that is complete has been given a handle.                    *)
Handled == \A p \in Proc : \A t \in known[p] : handle[p][t] \in Slots

(* And so has one that a process is at work on.                            *)
Named ==
  \A p \in Proc :
    \/ Call(p).kind \in {"write", "read"} /\ at[p].stage >= Work
    \/ Call(p).kind \in {"wait", "probe"}
    => handle[p][Call(p).t] \in Slots

(* A buffer that has a chunk and its place, with its data in it.            *)
Placed(x) == x.piece \in PieceSet /\ x.where = Placing(x.piece)
Filled(x) == x.data \in [Elements(x.piece.chunk) -> Values]

(* A buffer of a process in a call of a kind, at a stage, that has the rest *)
(* of its pieces to begin, when so many transfers have been issued.        *)
BufferSound(x, kind, stage, rest, issued) ==
  LET transfer == kind \in {"write", "read"} IN
  /\ x.active => x.op # "none" /\ x.call \in Slots /\ x.t \in 1..issued
  /\ ~ x.active => x.io = "none" /\ ~ x.callback
  /\ x.callback => x.op = "read" /\ x.align
  /\ x.op = "read" /\ ~ x.align => x.io = "none"
  /\ x.mov => x.op = "read" /\ (x.active \/ x.align)
  /\ x.mov => ~ (transfer /\ stage = Leave1)
  /\ x.mov /\ x.align => ~ (transfer /\ stage = Work)
  /\ x.op = "cover" => /\ x.active /\ ~ x.align /\ rest # <<>>
                       /\ transfer /\ stage = Work
  /\ x.io = "write" => x.op = "write"
  /\ x.io = "read" => x.op \in {"cover", "read"}
  /\ x.op # "none" => Placed(x)
  /\ x.op = "write" \/ (x.op = "cover" /\ x.io # "read") => Filled(x)

Sound(p, b) ==
  BufferSound(buf[p][b], Call(p).kind, at[p].stage, left[p], Len(asked))

Buffers ==
  /\ \A p \in Proc, b \in 1..NBuf : Sound(p, b)
  /\ \A p \in Proc, b, c \in 1..NBuf :
       buf[p][b].op = "cover" /\ buf[p][c].op = "cover" => b = c

IInv ==
  /\ Types /\ CallsSound /\ Barriers /\ TablesInStep /\ Owed /\ Handled
  /\ Buffers

-----------------------------------------------------------------------------
(* Numbers.                                                                *)

(* Min of a nonempty set of naturals is its least element: get_buf and     *)
(* dai_assign_request_handle take the first free entry.                    *)
LEMMA MinFact ==
  ASSUME NEW S, S \subseteq Nat, S # {}
  PROVE  Min(S) \in S /\ \A y \in S : Min(S) <= y
<1>1. \E x \in S : \A y \in S : ~(<<y, x>> \in OpToRel(<, Nat))
  BY NatLessThanWellFounded, WFMin, Zenon
<1>2. \E x \in S : \A y \in S : ~(y < x)
  BY <1>1, Zenon DEF OpToRel
<1>3. \E x \in S : \A y \in S : x <= y
  BY <1>2
<1>4. QED
  BY <1>3, Zenon DEF Min

(* The constants are numbers, and None is no index.                        *)
LEMMA Numbers ==
  /\ NBuf \in Nat \ {0} /\ MaxReq \in Nat \ {0} /\ MaxTransfers \in Nat
  /\ 1..NBuf \subseteq Nat /\ Slots \subseteq Nat /\ None \notin Slots
  /\ 0 \in Values /\ 1..MaxTransfers \subseteq Values
  BY DraBounds DEF Slots, None, Values

(* The buffer that get_buf hands out is one of the process's, and active   *)
(* only if all of them are.                                                *)
LEMMA NextBufFact ==
  ASSUME NEW p \in Proc, Types
  PROVE  /\ NextBuf(p) \in 1..NBuf
         /\ buf[p][NextBuf(p)].active => \A b \in 1..NBuf : buf[p][b].active
<1> DEFINE free == {b \in 1..NBuf : ~ buf[p][b].active}
<1>1. CASE free # {}
  <2>1. Min(free) \in free
    BY <1>1, MinFact, Numbers
  <2>2. NextBuf(p) = Min(free)
    BY <1>1 DEF NextBuf
  <2>3. QED
    BY <2>1, <2>2
<1>2. CASE free = {}
  <2>1. NextBuf(p) = (last_buf[p] % NBuf) + 1
    BY <1>2 DEF NextBuf
  <2>2. last_buf[p] \in 1..NBuf /\ NBuf \in Nat \ {0}
    BY Numbers DEF Types
  <2>3. (last_buf[p] % NBuf) + 1 \in 1..NBuf
    BY <2>2
  <2>4. \A b \in 1..NBuf : buf[p][b].active
    BY <1>2
  <2>5. QED
    BY <2>1, <2>3, <2>4
<1>3. QED
  BY <1>1, <1>2

(* The request handle that is given is a free one.                         *)
LEMMA FreeSlotFact ==
  ASSUME NEW p \in Proc, Types, FreeSlots(p) # {}
  PROVE  Min(FreeSlots(p)) \in Slots /\ ~ pending[p][Min(FreeSlots(p))]
<1>1. FreeSlots(p) \subseteq Nat
  BY Numbers DEF FreeSlots
<1>2. Min(FreeSlots(p)) \in FreeSlots(p)
  BY <1>1, MinFact
<1>3. QED
  BY <1>2 DEF FreeSlots

-----------------------------------------------------------------------------
(* Buffers and their data.                                                 *)

(* What the disk has for a buffer are values.                              *)
LEMMA OnDiskTyped ==
  ASSUME Decomposed, Types, NEW x, Placed(x)
  PROVE  OnDisk(x) \in [Elements(x.piece.chunk) -> Values] /\ OnDisk(x) \in Datas
<1>1. x.where = [e \in Elements(x.piece.chunk) |-> Location(Array, x.piece.chunk, e)]
  BY DEF Placed, Placing
<1>2. \A e \in Elements(x.piece.chunk) : x.where[e] \in Touched(Whole)
  BY <1>1 DEF Placed, Decomposed
<1>3. \A e \in Elements(x.piece.chunk) : disk[x.where[e]] \in Values
  BY <1>2 DEF Types
<1>4. DOMAIN x.where = Elements(x.piece.chunk)
  BY <1>1
<1>5. OnDisk(x) \in [Elements(x.piece.chunk) -> Values]
  BY <1>3, <1>4 DEF OnDisk
<1>6. QED
  BY <1>5 DEF Datas, Placed

(* Writing a filled buffer keeps the type of the disk.                     *)
LEMMA WithChunkTyped ==
  ASSUME Types, NEW x, Placed(x), Filled(x)
  PROVE  WithChunk(x) \in [Touched(Whole) -> Values]
<1>1. DOMAIN x.where = Elements(x.piece.chunk)
  BY DEF Placed, Placing
<1>2. disk \in [Touched(Whole) -> Values]
  BY DEF Types
<1>3. ASSUME NEW l \in Touched(Whole)
      PROVE  (IF \E e \in DOMAIN x.where : x.where[e] = l
              THEN x.data[CHOOSE e \in DOMAIN x.where : x.where[e] = l] ELSE disk[l]) \in Values
  <2>1. CASE \E e \in DOMAIN x.where : x.where[e] = l
    <3>1. (CHOOSE e \in DOMAIN x.where : x.where[e] = l) \in DOMAIN x.where
      BY <2>1
    <3>2. QED
      BY <2>1, <3>1, <1>1 DEF Filled
  <2>2. CASE ~ \E e \in DOMAIN x.where : x.where[e] = l
    BY <2>2, <1>2
  <2>3. QED
    BY <2>1, <2>2
<1>4. QED
  BY <1>2, <1>3 DEF WithChunk

(* Loading fills a buffer: with the values of the transfer where it was    *)
(* asked for, elsewhere the chunk keeps what the disk had.                 *)
LEMMA LoadedTyped ==
  ASSUME Decomposed, NEW x \in Buffer, Placed(x), x.t \in 1..MaxTransfers,
         x.piece.align \/ Filled(x)
  PROVE  /\ Loaded(x) \in Buffer /\ Filled(Loaded(x)) /\ Placed(Loaded(x))
         /\ Loaded(x) = [x EXCEPT !.data = Loaded(x).data]
<1> DEFINE new == [e \in Elements(x.piece.chunk) |->
                     IF e \in Elements(x.piece.part) THEN x.t ELSE x.data[e]]
<1>1. Loaded(x) = [x EXCEPT !.data = new]
  BY DEF Loaded, Buffer
<1>2. new \in [Elements(x.piece.chunk) -> Values]
  <2>1. x.t \in Values
    BY Numbers
  <2>2. x.piece.align => Elements(x.piece.part) = Elements(x.piece.chunk)
    BY DEF Decomposed, Placed
  <2>3. ASSUME NEW e \in Elements(x.piece.chunk), e \notin Elements(x.piece.part)
        PROVE  x.data[e] \in Values
    BY <2>2, <2>3 DEF Filled
  <2>4. QED
    BY <2>1, <2>3
<1>3. new \in Datas
  BY <1>2 DEF Datas, Placed
<1> HIDE DEF new
<1>4. Loaded(x).data = new /\ Loaded(x).piece = x.piece /\ Loaded(x).where = x.where
  BY <1>1 DEF Buffer
<1>5. Loaded(x) \in Buffer
  BY <1>1, <1>3 DEF Buffer
<1>6. QED
  BY <1>1, <1>2, <1>4, <1>5 DEF Filled, Placed

(* wait_buf leaves a buffer with no disk operation and no callback.        *)
LEMMA AfterWaitFact ==
  ASSUME NEW x \in Buffer, NEW k, NEW s, NEW r, NEW n, BufferSound(x, k, s, r, n),
         x.op # "cover"
  PROVE  /\ AfterWait(x) \in Buffer
         /\ AfterWait(x).io = "none" /\ ~ AfterWait(x).callback
         /\ AfterWait(x) = [x EXCEPT !.io = "none", !.callback = FALSE,
                                     !.active = AfterWait(x).active]
         /\ AfterWait(x).active => x.active
<1>1. AfterWait(x) = [x EXCEPT !.io = "none",
                        !.callback = IF CallbackDue(x) THEN FALSE ELSE x.callback,
                        !.active = IF CallbackDue(x) THEN FALSE ELSE x.active]
  BY DEF AfterWait, Buffer
<1>2. ~ (IF CallbackDue(x) THEN FALSE ELSE x.callback)
  BY DEF CallbackDue, BufferSound, Buffer
<1>3. QED
  BY <1>1, <1>2 DEF Buffer

(* A sound buffer stays sound while its process is where it is.            *)
LEMMA SoundKept ==
  ASSUME NEW x, NEW k, NEW s, NEW r, NEW n, BufferSound(x, k, s, r, n),
         NEW r2, x.op = "cover" => r2 # <<>>
  PROVE  BufferSound(x, k, s, r2, n)
BY DEF BufferSound

(* One buffer of one process changes.                                      *)
LEMMA BufferStep ==
  ASSUME Types, Buffers, NEW p \in Proc, NEW n \in 1..NBuf, NEW y \in Buffer,
         buf' = [buf EXCEPT ![p][n] = y], UNCHANGED <<prog, at, asked>>,
         \A q \in Proc : q # p => left'[q] = left[q],
         BufferSound(y, Call(p).kind, at[p].stage, left'[p], Len(asked)),
         \A b \in 1..NBuf : b # n /\ buf[p][b].op = "cover"
                              => left'[p] # <<>> /\ y.op # "cover"
  PROVE  Buffers' /\ buf' \in [Proc -> [1..NBuf -> Buffer]]
<1>1. buf \in [Proc -> [1..NBuf -> Buffer]]
  BY DEF Types
<1>2. buf'[p][n] = y
  BY <1>1
<1>3. \A q \in Proc, b \in 1..NBuf : q # p \/ b # n => buf'[q][b] = buf[q][b]
  BY <1>1
<1>4. \A q \in Proc : Call(q)' = Call(q) /\ at'[q] = at[q]
  BY DEF Call
<1>5. ASSUME NEW q \in Proc, NEW b \in 1..NBuf PROVE Sound(q, b)'
  <2>1. CASE q = p /\ b = n
    BY <2>1, <1>2, <1>4 DEF Sound
  <2>2. CASE ~ (q = p /\ b = n)
    <3>1. BufferSound(buf[q][b], Call(q).kind, at[q].stage, left[q], Len(asked))
      BY DEF Buffers, Sound
    <3>2. buf[q][b].op = "cover" => left'[q] # <<>>
      <4>1. CASE q = p
        BY <2>2, <4>1
      <4>2. CASE q # p
        BY <3>1, <4>2 DEF BufferSound
      <4>3. QED
        BY <4>1, <4>2
    <3>3. BufferSound(buf[q][b], Call(q).kind, at[q].stage, left'[q], Len(asked))
      BY <3>1, <3>2, SoundKept
    <3>4. QED
      BY <3>3, <2>2, <1>3, <1>4 DEF Sound
  <2>3. QED
    BY <2>1, <2>2
<1>6. ASSUME NEW q \in Proc, NEW b \in 1..NBuf, NEW c \in 1..NBuf,
             buf'[q][b].op = "cover", buf'[q][c].op = "cover"
      PROVE  b = c
  <2>1. buf[q][b].op = "cover" /\ buf[q][c].op = "cover" => b = c
    BY DEF Buffers
  <2>2. CASE q # p
    BY <2>1, <2>2, <1>3, <1>6
  <2>3. CASE q = p
    BY <2>1, <2>3, <1>2, <1>3, <1>6
  <2>4. QED
    BY <2>2, <2>3
<1>7. buf' \in [Proc -> [1..NBuf -> Buffer]]
  BY <1>1
<1>8. QED
  BY <1>5, <1>6, <1>7 DEF Buffers

(* Reading and writing in elio, on the spot or not.                        *)
LEMMA ReadFact ==
  ASSUME Decomposed, Types, NEW p \in Proc, NEW x \in Buffer, Placed(x), x.io = "none"
  PROVE  /\ Read(p, x) \in Buffer
         /\ Read(p, x) = [x EXCEPT !.io = Read(p, x).io, !.data = Read(p, x).data]
         /\ \/ Read(p, x).io = "read"
            \/ Read(p, x).io = "none" /\ Read(p, x).data \in [Elements(x.piece.chunk) -> Values]
<1>1. CASE AioFree(p)
  BY <1>1 DEF Read, Buffer
<1>2. CASE ~ AioFree(p)
  <2>1. OnDisk(x) \in [Elements(x.piece.chunk) -> Values] /\ OnDisk(x) \in Datas
    BY OnDiskTyped
  <2>2. Read(p, x) = [x EXCEPT !.data = OnDisk(x)]
    BY <1>2 DEF Read
  <2> HIDE DEF OnDisk
  <2>3. QED
    BY <2>1, <2>2 DEF Buffer
<1>3. QED
  BY <1>1, <1>2

(* And writing: a filled buffer is on its way to disk or there already.    *)
LEMMA WrittenFact ==
  ASSUME Types, NEW p \in Proc, NEW x \in Buffer, Placed(x), Filled(x), x.io = "none"
  PROVE  /\ Written(p, x) \in Buffer
         /\ Written(p, x) = [x EXCEPT !.io = Written(p, x).io]
         /\ Written(p, x).io \in {"none", "write"}
         /\ DiskWritten(p, x) \in [Touched(Whole) -> Values]
<1>1. WithChunk(x) \in [Touched(Whole) -> Values]
  BY WithChunkTyped
<1>2. disk \in [Touched(Whole) -> Values]
  BY DEF Types
<1>3. DiskWritten(p, x) \in [Touched(Whole) -> Values]
  BY <1>1, <1>2 DEF DiskWritten
<1>4. /\ Written(p, x) \in Buffer
      /\ Written(p, x) = [x EXCEPT !.io = Written(p, x).io]
      /\ Written(p, x).io \in {"none", "write"}
  BY DEF Written, Buffer
<1>5. QED
  BY <1>3, <1>4

-----------------------------------------------------------------------------
(* The steps that work on a buffer.                                        *)

(* The call a process is in.                                               *)
LEMMA CallFact ==
  ASSUME Types, CallsSound, NEW p \in Proc
  PROVE  /\ at[p].n \in DOMAIN prog /\ at[p].n \in 1..2 /\ at[p].stage \in Enter1..Out
         /\ Call(p) \in Calls
         /\ Call(p).kind \notin {"none", "flick"} => Call(p).t \in 1..Len(asked)
         /\ Call(p).t \in (1..MaxTransfers) \cup {None}
         /\ at[p].stage \in StagesOf(Call(p).kind)
         /\ DOMAIN asked = 1..Len(asked) /\ 1..Len(asked) \subseteq 1..MaxTransfers
<1>1. /\ prog \in Seq(Calls) /\ at \in [Proc -> [n : 1..2, stage : Enter1..Out]]
      /\ asked \in Seq(Issues) /\ Len(asked) \in 0..MaxTransfers
  BY DEF Types
<1>2. at[p].n \in DOMAIN prog /\ at[p].stage \in StagesOf(Call(p).kind)
  BY DEF CallsSound
<1>3. Call(p) \in Calls
  BY <1>1, <1>2 DEF Call
<1>4. DOMAIN asked = 1..Len(asked) /\ 1..Len(asked) \subseteq 1..MaxTransfers
  BY <1>1, Numbers
<1>5. Call(p).kind \notin {"none", "flick"} => Call(p).t \in 1..Len(asked)
  BY <1>2, <1>4 DEF CallsSound, Call
<1>6. QED
  BY <1>1, <1>2, <1>3, <1>4, <1>5 DEF Calls

(* The buffer of a process at work on a transfer that get_buf hands out is *)
(* as good as new when wait_buf is through with it: no disk operation, no  *)
(* callback and no put to the global array is under way from it.           *)
LEMMA TakenFact ==
  ASSUME Types, CallsSound, Buffers, NEW p \in Proc, NEW n \in 1..NBuf,
         In(p, {"write", "read"}, Work), buf[p][n].op # "cover",
         buf[p][n].active => Waited(buf[p][n])
  PROVE  /\ Taken(p, n) \in Buffer
         /\ Taken(p, n).io = "none" /\ ~ Taken(p, n).callback /\ ~ Taken(p, n).mov
         /\ buf[p][n].io \notin {"read", "write"} /\ ~ buf[p][n].mov
<1> DEFINE x == buf[p][n]
<1>1. x \in Buffer
  <2>1. buf \in [Proc -> [1..NBuf -> Buffer]]
    BY DEF Types
  <2>2. QED
    BY <2>1
<1>2. BufferSound(x, Call(p).kind, at[p].stage, left[p], Len(asked))
  BY DEF Buffers, Sound
<1>3. Call(p).kind \in {"write", "read"} /\ at[p].stage = Work
  BY DEF In
<1> HIDE DEF x
<1>4. CASE x.active
  <2>1. x.op \in {"write", "read"} /\ Waited(x)
    BY <1>1, <1>2, <1>4 DEF x, BufferSound, Buffer, Ops
  <2>2. ~ x.mov /\ x.io \notin {"read", "write"}
    BY <1>1, <1>2, <1>3, <2>1 DEF BufferSound, Waited, Buffer, Work, Leave1
  <2>3. /\ AfterWait(x) \in Buffer /\ AfterWait(x).io = "none" /\ ~ AfterWait(x).callback
        /\ AfterWait(x) = [x EXCEPT !.io = "none", !.callback = FALSE,
                                    !.active = AfterWait(x).active]
    BY <1>1, <1>2, <2>1, AfterWaitFact
  <2>4. AfterWait(x).mov = x.mov
    BY <2>3, <1>1 DEF Buffer
  <2>5. Taken(p, n) = AfterWait(x)
    BY <1>4 DEF Taken, x
  <2>6. QED
    BY <2>2, <2>3, <2>4, <2>5 DEF x
<1>5. CASE ~ x.active
  <2>1. ~ x.mov /\ x.io = "none" /\ ~ x.callback
    BY <1>1, <1>2, <1>3, <1>5 DEF BufferSound
  <2>2. Taken(p, n) = x
    BY <1>5 DEF Taken, x
  <2>3. QED
    BY <1>1, <2>1, <2>2 DEF x
<1>6. QED
  BY <1>4, <1>5

(* The next piece gets a buffer that is free of its former piece.          *)
LEMMA BeginPieceStep ==
  ASSUME Decomposed, Types, CallsSound, Named, Buffers, NEW p \in Proc, BeginPiece(p)
  PROVE  /\ Buffers' /\ buf' \in [Proc -> [1..NBuf -> Buffer]]
         /\ left' \in [Proc -> Seq(PieceSet)] /\ disk' \in [Touched(Whole) -> Values]
         /\ last_buf' \in [Proc -> 1..NBuf]
         /\ \E n \in 1..NBuf :
              /\ \A q \in Proc, b \in 1..NBuf : q # p \/ b # n => buf'[q][b] = buf[q][b]
              /\ buf[p][n].io \notin {"read", "write"} /\ ~ buf[p][n].mov
<1> DEFINE n == NextBuf(p)
           x == Head(left[p])
           old == Taken(p, n)
           kind == IF x.align THEN Call(p).kind ELSE "cover"
           where == Placing(x)
           mine == [old EXCEPT
                     !.active = TRUE, !.call = handle[p][Call(p).t],
                     !.t = Call(p).t, !.align = x.align, !.piece = x,
                     !.where = where, !.op = kind,
                     !.callback = IF x.align THEN Call(p).kind = "read" ELSE old.callback]
           loaded == Loaded(mine)
           writes == x.align /\ Call(p).kind = "write"
           new == IF writes THEN Written(p, loaded) ELSE Read(p, mine)
<1>1. /\ In(p, {"write", "read"}, Work) /\ left[p] # <<>>
      /\ \A b \in 1..NBuf : buf[p][b].op # "cover"
      /\ buf[p][n].active => Waited(buf[p][n])
      /\ buf' = [buf EXCEPT ![p][n] = new]
      /\ disk' = IF writes THEN DiskWritten(p, loaded) ELSE disk
      /\ last_buf' = [last_buf EXCEPT ![p] = n]
      /\ left' = IF x.align THEN [left EXCEPT ![p] = Tail(@)] ELSE left
      /\ UNCHANGED <<prog, at, asked>>
  BY DEF BeginPiece, Placing
<1>2. n \in 1..NBuf
  BY NextBufFact
<1>3. x \in PieceSet /\ Tail(left[p]) \in Seq(PieceSet) /\ left \in [Proc -> Seq(PieceSet)]
  BY <1>1 DEF Types
<1>4. x.align \in BOOLEAN /\ where \in Wheres
  BY <1>3 DEF Decomposed, Wheres
<1>5. /\ Call(p).kind \in {"write", "read"} /\ at[p].stage = Work
      /\ Call(p).t \in 1..Len(asked) /\ Call(p).t \in 1..MaxTransfers
      /\ handle[p][Call(p).t] \in Slots
  BY <1>1, CallFact DEF In, Named, Work
<1>6. /\ old \in Buffer /\ old.io = "none" /\ ~ old.callback /\ ~ old.mov
      /\ buf[p][n].io \notin {"read", "write"} /\ ~ buf[p][n].mov
  BY <1>1, <1>2, TakenFact
<1>7. kind \in {"cover", "write", "read"} /\ (x.align => kind = Call(p).kind)
      /\ (~ x.align => kind = "cover")
  BY <1>4, <1>5
<1> HIDE DEF n, x, old, where, kind
<1>8. /\ mine \in Buffer /\ mine.active /\ mine.call \in Slots /\ mine.t \in 1..Len(asked)
      /\ mine.t \in 1..MaxTransfers
      /\ mine.align = x.align /\ mine.piece = x /\ mine.where = where /\ mine.op = kind
      /\ mine.callback = (IF x.align THEN Call(p).kind = "read" ELSE FALSE)
      /\ mine.io = "none" /\ mine.mov = FALSE
  BY <1>3, <1>4, <1>5, <1>6, <1>7 DEF Buffer, Ops
<1> HIDE DEF mine
<1>9. Placed(mine)
  BY <1>3, <1>8 DEF Placed, where
<1>10. left' \in [Proc -> Seq(PieceSet)]
  BY <1>1, <1>3
<1>11. last_buf' \in [Proc -> 1..NBuf]
  <2>1. last_buf \in [Proc -> 1..NBuf]
    BY DEF Types
  <2>2. QED
    BY <1>1, <1>2, <2>1
<1>12. \E m \in 1..NBuf :
         /\ \A q \in Proc, b \in 1..NBuf : q # p \/ b # m => buf'[q][b] = buf[q][b]
         /\ buf[p][m].io \notin {"read", "write"} /\ ~ buf[p][m].mov
  <2>1. buf \in [Proc -> [1..NBuf -> Buffer]]
    BY DEF Types
  <2>2. \A q \in Proc, b \in 1..NBuf : q # p \/ b # n => buf'[q][b] = buf[q][b]
    BY <1>1, <2>1
  <2>3. QED
    BY <1>2, <1>6, <2>2
<1>13. CASE writes
  <2>1. mine.piece.align /\ kind = "write"
    BY <1>7, <1>8, <1>13
  <2>2. /\ loaded \in Buffer /\ Filled(loaded) /\ Placed(loaded)
        /\ loaded = [mine EXCEPT !.data = loaded.data]
    BY <1>8, <1>9, <2>1, LoadedTyped
  <2> HIDE DEF loaded
  <2>3. loaded.io = "none"
    BY <1>8, <2>2 DEF Buffer
  <2>4. /\ Written(p, loaded) \in Buffer
        /\ Written(p, loaded) = [loaded EXCEPT !.io = Written(p, loaded).io]
        /\ Written(p, loaded).io \in {"none", "write"}
        /\ DiskWritten(p, loaded) \in [Touched(Whole) -> Values]
    BY <2>2, <2>3, WrittenFact
  <2>5. new = Written(p, loaded)
    BY <1>13
  <2> HIDE DEF new
  <2>6. /\ new.active /\ new.call \in Slots /\ new.t \in 1..Len(asked) /\ new.align
        /\ new.op = "write" /\ new.mov = FALSE /\ new.callback = FALSE
        /\ new.io \in {"none", "write"} /\ new \in Buffer
        /\ new.piece = loaded.piece /\ new.where = loaded.where /\ new.data = loaded.data
    <3>1. new \in Buffer /\ new.io \in {"none", "write"} /\ new = [loaded EXCEPT !.io = new.io]
      BY <2>4, <2>5
    <3>2. /\ new.active = loaded.active /\ new.call = loaded.call /\ new.t = loaded.t
          /\ new.align = loaded.align /\ new.op = loaded.op /\ new.mov = loaded.mov
          /\ new.callback = loaded.callback /\ new.piece = loaded.piece
          /\ new.where = loaded.where /\ new.data = loaded.data
      BY <2>2, <3>1 DEF Buffer
    <3>3. /\ loaded.active = mine.active /\ loaded.call = mine.call /\ loaded.t = mine.t
          /\ loaded.align = mine.align /\ loaded.op = mine.op /\ loaded.mov = mine.mov
          /\ loaded.callback = mine.callback
      BY <1>8, <2>2 DEF Buffer
    <3>4. mine.callback = FALSE
      BY <1>8, <1>13
    <3>5. QED
      BY <1>8, <1>13, <2>1, <3>1, <3>2, <3>3, <3>4
  <2>7. Placed(new) /\ Filled(new)
    BY <2>2, <2>6 DEF Placed, Filled
  <2>8. BufferSound(new, Call(p).kind, at[p].stage, left'[p], Len(asked))
    BY <2>6, <2>7 DEF BufferSound
  <2>9. Buffers' /\ buf' \in [Proc -> [1..NBuf -> Buffer]]
    <3>1. \A q \in Proc : q # p => left'[q] = left[q]
      BY <1>1, <1>3
    <3>2. QED
      BY <1>1, <1>2, <2>6, <2>8, <3>1, BufferStep
  <2>10. disk' \in [Touched(Whole) -> Values]
    BY <1>1, <1>13, <2>4
  <2>11. QED
    BY <1>10, <1>11, <1>12, <2>9, <2>10
<1>14. CASE ~ writes
  <2>1. /\ Read(p, mine) \in Buffer
        /\ Read(p, mine) = [mine EXCEPT !.io = Read(p, mine).io, !.data = Read(p, mine).data]
        /\ \/ Read(p, mine).io = "read"
           \/ /\ Read(p, mine).io = "none"
              /\ Read(p, mine).data \in [Elements(mine.piece.chunk) -> Values]
    BY <1>8, <1>9, ReadFact
  <2>2. new = Read(p, mine)
    BY <1>14
  <2> HIDE DEF new
  <2>3. /\ new.active /\ new.call \in Slots /\ new.t \in 1..Len(asked) /\ new.align = x.align
        /\ new.op = kind /\ new.mov = FALSE /\ new \in Buffer
        /\ new.callback = (IF x.align THEN Call(p).kind = "read" ELSE FALSE)
        /\ new.piece = mine.piece /\ new.where = mine.where
    BY <1>8, <2>1, <2>2 DEF Buffer
  <2>4. kind \in {"cover", "read"} /\ (x.align => kind = "read" /\ Call(p).kind = "read")
    BY <1>5, <1>7, <1>14
  <2>5. Placed(new)
    BY <1>9, <2>3 DEF Placed
  <2>6. new.io = "read" \/ (new.io = "none" /\ Filled(new))
    BY <2>1, <2>2, <2>3 DEF Filled
  <2>7. ~ x.align => left'[p] = left[p]
    BY <1>1
  <2>8. BufferSound(new, Call(p).kind, at[p].stage, left'[p], Len(asked))
    BY <1>1, <1>4, <1>5, <1>7, <2>3, <2>4, <2>5, <2>6, <2>7 DEF BufferSound
  <2>9. Buffers' /\ buf' \in [Proc -> [1..NBuf -> Buffer]]
    <3>1. \A q \in Proc : q # p => left'[q] = left[q]
      BY <1>1, <1>3
    <3>2. QED
      BY <1>1, <1>2, <2>3, <2>8, <3>1, BufferStep
  <2>10. disk' \in [Touched(Whole) -> Values]
    BY <1>1, <1>14 DEF Types
  <2>11. QED
    BY <1>10, <1>11, <1>12, <2>9, <2>10
<1>15. QED
  BY <1>13, <1>14

(* The second half of an unaligned piece: its buffer holds the chunk.      *)
LEMMA EndPieceStep ==
  ASSUME Decomposed, Types, CallsSound, Buffers, NEW p \in Proc, EndPiece(p)
  PROVE  /\ Buffers' /\ buf' \in [Proc -> [1..NBuf -> Buffer]]
         /\ left' \in [Proc -> Seq(PieceSet)] /\ disk' \in [Touched(Whole) -> Values]
         /\ \E n \in 1..NBuf :
              /\ \A q \in Proc, b \in 1..NBuf : q # p \/ b # n => buf'[q][b] = buf[q][b]
              /\ buf'[p][n].piece = buf[p][n].piece /\ buf'[p][n].t = buf[p][n].t
<1>1. /\ In(p, {"write", "read"}, Work) /\ UNCHANGED <<prog, at, asked>>
      /\ left' = [left EXCEPT ![p] = Tail(@)]
  BY DEF EndPiece
<1>2. PICK n \in 1..NBuf :
        LET b == [buf[p][n] EXCEPT !.io = "none", !.op = Call(p).kind]
        IN /\ buf[p][n].op = "cover" /\ buf[p][n].io # "read"
           /\ buf' = [buf EXCEPT ![p][n] =
                       IF b.op = "write" THEN Written(p, Loaded(b))
                       ELSE [b EXCEPT !.mov = TRUE]]
           /\ disk' = IF b.op = "write" THEN DiskWritten(p, Loaded(b)) ELSE disk
  BY DEF EndPiece
<1> DEFINE x == buf[p][n]
           b == [x EXCEPT !.io = "none", !.op = Call(p).kind]
           new == IF b.op = "write" THEN Written(p, Loaded(b)) ELSE [b EXCEPT !.mov = TRUE]
<1>3. /\ x.op = "cover" /\ x.io # "read" /\ buf' = [buf EXCEPT ![p][n] = new]
      /\ disk' = IF b.op = "write" THEN DiskWritten(p, Loaded(b)) ELSE disk
  BY <1>2
<1>4. buf \in [Proc -> [1..NBuf -> Buffer]] /\ x \in Buffer
  <2>1. buf \in [Proc -> [1..NBuf -> Buffer]]
    BY DEF Types
  <2>2. QED
    BY <2>1
<1>5. Call(p).kind \in {"write", "read"} /\ at[p].stage = Work
  BY <1>1 DEF In
<1>6. BufferSound(x, Call(p).kind, at[p].stage, left[p], Len(asked))
  BY DEF Buffers, Sound
<1>7. left \in [Proc -> Seq(PieceSet)] /\ left[p] # <<>>
  BY <1>3, <1>6 DEF Types, BufferSound
<1>8. left' \in [Proc -> Seq(PieceSet)] /\ \A q \in Proc : q # p => left'[q] = left[q]
  BY <1>1, <1>7
<1>9. \A c \in 1..NBuf : c # n => buf[p][c].op # "cover"
  BY <1>3 DEF Buffers
<1> HIDE DEF x
<1>10. /\ x.active /\ ~ x.align /\ ~ x.callback /\ ~ x.mov /\ x.call \in Slots
       /\ x.t \in 1..Len(asked) /\ x.t \in 1..MaxTransfers /\ Placed(x) /\ Filled(x)
  BY <1>3, <1>4, <1>6, CallFact DEF BufferSound
<1>11. /\ b \in Buffer /\ b.io = "none" /\ b.op = Call(p).kind /\ b.active /\ ~ b.align
       /\ ~ b.callback /\ ~ b.mov /\ b.call = x.call /\ b.t = x.t /\ b.piece = x.piece
       /\ b.where = x.where /\ b.data = x.data
  BY <1>4, <1>5, <1>10 DEF Buffer, Ops
<1> HIDE DEF b
<1>12. Placed(b) /\ Filled(b)
  BY <1>10, <1>11 DEF Placed, Filled
<1>13. /\ new \in Buffer /\ disk' \in [Touched(Whole) -> Values]
       /\ BufferSound(new, Call(p).kind, at[p].stage, left'[p], Len(asked))
       /\ new.op # "cover" /\ new.piece = x.piece /\ new.t = x.t
  <2>1. CASE b.op = "write"
    <3>1. /\ Loaded(b) \in Buffer /\ Filled(Loaded(b)) /\ Placed(Loaded(b))
          /\ Loaded(b) = [b EXCEPT !.data = Loaded(b).data]
      BY <1>10, <1>11, <1>12, LoadedTyped
    <3> DEFINE loaded == Loaded(b)
    <3> HIDE DEF loaded
    <3>2. /\ loaded \in Buffer /\ loaded.io = "none" /\ loaded.op = "write" /\ loaded.active
          /\ ~ loaded.align /\ ~ loaded.callback /\ ~ loaded.mov /\ loaded.call = x.call
          /\ loaded.t = x.t /\ loaded.piece = x.piece /\ Filled(loaded) /\ Placed(loaded)
      BY <1>11, <2>1, <3>1 DEF Buffer, loaded
    <3>3. /\ Written(p, loaded) \in Buffer
          /\ Written(p, loaded) = [loaded EXCEPT !.io = Written(p, loaded).io]
          /\ Written(p, loaded).io \in {"none", "write"}
          /\ DiskWritten(p, loaded) \in [Touched(Whole) -> Values]
      BY <3>2, WrittenFact
    <3>4. new = Written(p, loaded) /\ disk' = DiskWritten(p, loaded)
      BY <1>3, <2>1 DEF loaded
    <3> HIDE DEF new
    <3>5. /\ new.op = "write" /\ new.active /\ ~ new.align /\ ~ new.callback /\ ~ new.mov
          /\ new.call = x.call /\ new.t = x.t /\ new.piece = loaded.piece
          /\ new.where = loaded.where /\ new.data = loaded.data /\ new.io \in {"none", "write"}
      BY <3>2, <3>3, <3>4 DEF Buffer
    <3>6. Placed(new) /\ Filled(new)
      BY <3>2, <3>5 DEF Placed, Filled
    <3>7. BufferSound(new, Call(p).kind, at[p].stage, left'[p], Len(asked))
      BY <1>10, <3>5, <3>6 DEF BufferSound
    <3>8. QED
      BY <3>2, <3>3, <3>4, <3>5, <3>7
  <2>2. CASE b.op # "write"
    <3>1. new = [b EXCEPT !.mov = TRUE] /\ disk' = disk /\ b.op = "read"
      BY <1>3, <1>5, <1>11, <2>2
    <3>2. disk' \in [Touched(Whole) -> Values]
      BY <3>1 DEF Types
    <3> HIDE DEF new
    <3>3. /\ new \in Buffer /\ new.op = "read" /\ new.active /\ ~ new.align /\ ~ new.callback
          /\ new.mov = TRUE /\ new.call = x.call /\ new.t = x.t /\ new.piece = b.piece
          /\ new.where = b.where /\ new.data = b.data /\ new.io = "none"
      BY <1>11, <3>1 DEF Buffer
    <3>4. Placed(new) /\ Filled(new)
      BY <1>12, <3>3 DEF Placed, Filled
    <3>5. BufferSound(new, Call(p).kind, at[p].stage, left'[p], Len(asked))
      BY <1>5, <1>10, <3>3, <3>4 DEF BufferSound, Work, Leave1
    <3>6. QED
      BY <1>11, <3>2, <3>3, <3>5
  <2>3. QED
    BY <2>1, <2>2
<1> HIDE DEF new
<1>14. Buffers' /\ buf' \in [Proc -> [1..NBuf -> Buffer]]
  BY <1>1, <1>3, <1>8, <1>9, <1>13, BufferStep
<1>15. /\ \A q \in Proc, c \in 1..NBuf : q # p \/ c # n => buf'[q][c] = buf[q][c]
       /\ buf'[p][n] = new
  BY <1>3, <1>4
<1>16. QED
  BY <1>8, <1>13, <1>14, <1>15 DEF x

(* dra_wait_ is through with a buffer.                                     *)
LEMMA CompleteBufStep ==
  ASSUME Types, CallsSound, Buffers, NEW p \in Proc, CompleteBuf(p)
  PROVE  /\ Buffers' /\ buf' \in [Proc -> [1..NBuf -> Buffer]]
         /\ \A q \in Proc, b \in 1..NBuf :
              buf'[q][b].piece = buf[q][b].piece /\ buf'[q][b].t = buf[q][b].t
<1> DEFINE bufs == ActiveOf(p, handle[p][Call(p).t])
           n == Min(bufs)
           x == buf[p][n]
           new == [AfterWait(x) EXCEPT !.active = FALSE]
<1>1. /\ In(p, {"wait"}, Work) /\ UNCHANGED <<prog, at, asked, left>>
      /\ bufs # {} /\ Waited(x) /\ buf' = [buf EXCEPT ![p][n] = new]
  BY DEF CompleteBuf
<1>2. n \in bufs
  <2>1. bufs \subseteq Nat
    BY Numbers DEF ActiveOf
  <2>2. QED
    BY <1>1, <2>1, MinFact
<1>3. n \in 1..NBuf /\ x.active
  BY <1>2 DEF ActiveOf
<1> HIDE DEF n
<1>4. buf \in [Proc -> [1..NBuf -> Buffer]] /\ x \in Buffer
  <2>1. buf \in [Proc -> [1..NBuf -> Buffer]]
    BY DEF Types
  <2>2. QED
    BY <1>3, <2>1
<1>5. Call(p).kind = "wait" /\ at[p].stage = Work
  BY <1>1 DEF In
<1>6. BufferSound(x, Call(p).kind, at[p].stage, left[p], Len(asked))
  BY <1>3 DEF Buffers, Sound
<1> HIDE DEF x
<1>7. x.op # "cover"
  BY <1>5, <1>6 DEF BufferSound
<1>8. /\ AfterWait(x) \in Buffer /\ AfterWait(x).io = "none" /\ ~ AfterWait(x).callback
      /\ AfterWait(x) = [x EXCEPT !.io = "none", !.callback = FALSE,
                                  !.active = AfterWait(x).active]
  BY <1>4, <1>6, <1>7, AfterWaitFact
<1>9. /\ new \in Buffer /\ new.io = "none" /\ ~ new.callback /\ ~ new.active
      /\ new.op = x.op /\ new.align = x.align /\ new.mov = x.mov /\ new.piece = x.piece
      /\ new.where = x.where /\ new.data = x.data /\ new.t = x.t
  BY <1>4, <1>8 DEF Buffer
<1> HIDE DEF new
<1>10. x.mov => x.align
  BY <1>1, <1>4, <1>6 DEF Waited, BufferSound, Buffer
<1>11. (Placed(x) => Placed(new)) /\ (Filled(x) => Filled(new))
  BY <1>9 DEF Placed, Filled
<1>12. BufferSound(new, Call(p).kind, at[p].stage, left[p], Len(asked))
  BY <1>5, <1>6, <1>7, <1>9, <1>10, <1>11 DEF BufferSound
<1>13. \A b \in 1..NBuf : buf[p][b].op # "cover"
  BY <1>5 DEF Buffers, Sound, BufferSound
<1>14. Buffers' /\ buf' \in [Proc -> [1..NBuf -> Buffer]]
  BY <1>1, <1>3, <1>9, <1>12, <1>13, BufferStep
<1>15. \A q \in Proc, b \in 1..NBuf : buf'[q][b] = IF q = p /\ b = n THEN new ELSE buf[q][b]
  BY <1>1, <1>3, <1>4
<1>16. QED
  BY <1>9, <1>14, <1>15 DEF x

(* The disk is through with a buffer.                                      *)
LEMMA DiskDoneStep ==
  ASSUME Decomposed, Types, CallsSound, Buffers, NEW p \in Proc, NEW n \in 1..NBuf,
         DiskDone(p, n)
  PROVE  /\ Buffers' /\ buf' \in [Proc -> [1..NBuf -> Buffer]]
         /\ disk' \in [Touched(Whole) -> Values]
         /\ \A q \in Proc, b \in 1..NBuf :
              buf'[q][b].piece = buf[q][b].piece /\ buf'[q][b].t = buf[q][b].t
<1> DEFINE x == buf[p][n]
           data == IF x.io = "read" THEN OnDisk(x) ELSE x.data
           new == [x EXCEPT !.io = "ready", !.data = data]
<1>1. buf \in [Proc -> [1..NBuf -> Buffer]] /\ x \in Buffer
  <2>1. buf \in [Proc -> [1..NBuf -> Buffer]]
    BY DEF Types
  <2>2. QED
    BY <2>1
<1>2. /\ x.io \in {"read", "write"} /\ UNCHANGED <<prog, at, asked, left>>
      /\ disk' = IF x.io = "write" THEN WithChunk(x) ELSE disk
  BY DEF DiskDone
<1>3. buf' = [buf EXCEPT ![p][n] = new]
  <2>1. buf' = [buf EXCEPT ![p][n].io = "ready", ![p][n].data = data]
    BY DEF DiskDone
  <2> HIDE DEF data
  <2>2. QED
    BY <1>1, <2>1
<1>4. BufferSound(x, Call(p).kind, at[p].stage, left[p], Len(asked))
  BY DEF Buffers, Sound
<1> HIDE DEF x
<1>5. x.op # "none" /\ x.active /\ Placed(x) /\ (x.io = "write" => x.op = "write" /\ Filled(x))
  BY <1>1, <1>2, <1>4 DEF BufferSound
<1>6. /\ OnDisk(x) \in [Elements(x.piece.chunk) -> Values] /\ OnDisk(x) \in Datas
  BY <1>5, OnDiskTyped
<1>7. data \in Datas /\ data \in [Elements(x.piece.chunk) -> Values]
  BY <1>1, <1>2, <1>5, <1>6 DEF Buffer, Filled
<1> HIDE DEF data
<1>8. /\ new \in Buffer /\ new.io = "ready" /\ new.active = x.active /\ new.call = x.call
      /\ new.callback = x.callback /\ new.op = x.op /\ new.align = x.align
      /\ new.mov = x.mov /\ new.piece = x.piece /\ new.where = x.where
      /\ new.data = data /\ new.t = x.t
  BY <1>1, <1>7 DEF Buffer
<1> HIDE DEF new
<1>9. Placed(new) /\ Filled(new)
  BY <1>5, <1>7, <1>8 DEF Placed, Filled
<1>10. x.io \in {"read", "write"} => ~ (x.op = "read" /\ ~ x.align)
  BY <1>4 DEF BufferSound
<1>11. BufferSound(new, Call(p).kind, at[p].stage, left[p], Len(asked))
  BY <1>2, <1>4, <1>5, <1>8, <1>9, <1>10 DEF BufferSound
<1>12. \A b \in 1..NBuf : b # n /\ buf[p][b].op = "cover"
                            => left'[p] # <<>> /\ new.op # "cover"
  <2> SUFFICES ASSUME NEW b \in 1..NBuf, b # n, buf[p][b].op = "cover"
               PROVE  left'[p] # <<>> /\ new.op # "cover"
    OBVIOUS
  <2>1. x.op # "cover"
    BY DEF Buffers, x
  <2>2. left[p] # <<>>
    BY DEF Buffers, Sound, BufferSound
  <2>3. QED
    BY <1>2, <1>8, <2>1, <2>2
<1>13. Buffers' /\ buf' \in [Proc -> [1..NBuf -> Buffer]]
  BY <1>2, <1>3, <1>8, <1>11, <1>12, BufferStep
<1>14. disk' \in [Touched(Whole) -> Values]
  <2>1. CASE x.io = "write"
    BY <1>2, <1>5, <2>1, WithChunkTyped
  <2>2. CASE x.io # "write"
    BY <1>2, <2>2 DEF Types
  <2>3. QED
    BY <2>1, <2>2
<1>15. \A q \in Proc, b \in 1..NBuf : buf'[q][b] = IF q = p /\ b = n THEN new ELSE buf[q][b]
  BY <1>1, <1>3
<1>16. QED
  BY <1>8, <1>13, <1>14, <1>15 DEF x

(* A put to the global array is done.                                      *)
LEMMA MoveDoneStep ==
  ASSUME Types, CallsSound, Buffers, NEW p \in Proc, NEW n \in 1..NBuf, MoveDone(p, n)
  PROVE  /\ Buffers' /\ buf' \in [Proc -> [1..NBuf -> Buffer]]
         /\ \A q \in Proc, b \in 1..NBuf :
              buf'[q][b].piece = buf[q][b].piece /\ buf'[q][b].t = buf[q][b].t
<1> DEFINE x == buf[p][n]
           new == [x EXCEPT !.mov = FALSE]
<1>1. buf \in [Proc -> [1..NBuf -> Buffer]] /\ x \in Buffer
  <2>1. buf \in [Proc -> [1..NBuf -> Buffer]]
    BY DEF Types
  <2>2. QED
    BY <2>1
<1>2. x.mov /\ UNCHANGED <<prog, at, asked, left>> /\ buf' = [buf EXCEPT ![p][n] = new]
  BY DEF MoveDone
<1>3. BufferSound(x, Call(p).kind, at[p].stage, left[p], Len(asked))
  BY DEF Buffers, Sound
<1> HIDE DEF x
<1>4. /\ new \in Buffer /\ new.io = x.io /\ new.active = x.active /\ new.call = x.call
      /\ new.callback = x.callback /\ new.op = x.op /\ new.align = x.align
      /\ ~ new.mov /\ new.piece = x.piece /\ new.where = x.where
      /\ new.data = x.data /\ new.t = x.t
  BY <1>1 DEF Buffer
<1> HIDE DEF new
<1>5. (Placed(x) => Placed(new)) /\ (Filled(x) => Filled(new)) /\ x.op = "read"
  BY <1>2, <1>3, <1>4 DEF Placed, Filled, BufferSound
<1>6. BufferSound(new, Call(p).kind, at[p].stage, left[p], Len(asked))
  BY <1>3, <1>4, <1>5 DEF BufferSound
<1>7. \A b \in 1..NBuf : b # n /\ buf[p][b].op = "cover"
                           => left'[p] # <<>> /\ new.op # "cover"
  BY <1>2, <1>4, <1>5 DEF Buffers, Sound, BufferSound
<1>8. Buffers' /\ buf' \in [Proc -> [1..NBuf -> Buffer]]
  BY <1>2, <1>4, <1>6, <1>7, BufferStep
<1>9. \A q \in Proc, b \in 1..NBuf : buf'[q][b] = IF q = p /\ b = n THEN new ELSE buf[q][b]
  BY <1>1, <1>2
<1>10. QED
  BY <1>4, <1>8, <1>9 DEF x

(* Buffers of a process that comes to a stage of a call at which it may    *)
(* still have them as they are.                                            *)
LEMMA SoundMoves ==
  ASSUME NEW x, NEW k, NEW s, NEW r, NEW n, BufferSound(x, k, s, r, n),
         NEW k2, NEW s2, NEW r2, NEW n2, n \in Nat, n2 \in Nat, n <= n2,
         x.op # "cover",
         k2 \in {"write", "read"} /\ s2 = Leave1 => ~ x.mov,
         k2 \in {"write", "read"} /\ s2 = Work => ~ (x.mov /\ x.align)
  PROVE  BufferSound(x, k2, s2, r2, n2)
BY DEF BufferSound

(* dra_probe_ looks at a buffer.                                           *)
LEMMA ProbedSound ==
  ASSUME NEW x \in Buffer, NEW k, NEW s, NEW r, NEW n, BufferSound(x, k, s, r, n),
         x.op # "cover"
  PROVE  /\ AfterProbe(x) \in Buffer /\ BufferSound(AfterProbe(x), k, s, r, n)
         /\ AfterProbe(x).op = x.op /\ AfterProbe(x).mov = x.mov
         /\ AfterProbe(x).align = x.align
         /\ AfterProbe(x).piece = x.piece /\ AfterProbe(x).t = x.t
<1> DEFINE active == IF x.op # "none" /\ Probed(x) THEN FALSE ELSE x.active
           io == IF x.io = "ready" THEN "none" ELSE x.io
           new == AfterProbe(x)
<1>1. new = [x EXCEPT !.active = active, !.io = io]
  BY DEF AfterProbe, Buffer
<1>2. /\ new \in Buffer /\ new.io = io /\ new.active = active /\ new.call = x.call
      /\ new.callback = x.callback /\ new.op = x.op /\ new.align = x.align
      /\ new.mov = x.mov /\ new.piece = x.piece /\ new.where = x.where
      /\ new.data = x.data /\ new.t = x.t
  BY <1>1 DEF Buffer
<1> HIDE DEF new
<1>3. (Placed(x) => Placed(new)) /\ (Filled(x) => Filled(new))
  BY <1>2 DEF Placed, Filled
<1>4. io \in {"none", "read", "write"} /\ (io # "none" => io = x.io)
  BY DEF Buffer
<1>5. ~ active => io = "none" /\ ~ x.callback
  <2>1. CASE ~ x.active
    BY <2>1 DEF BufferSound
  <2>2. CASE x.op # "none" /\ Probed(x)
    <3>1. CASE x.op = "write"
      BY <2>2, <3>1, <1>4 DEF Probed, BufferSound
    <3>2. CASE x.op = "read" /\ ~ x.align
      BY <2>2, <3>2, <1>4 DEF BufferSound
    <3>3. CASE x.op = "read" /\ x.align
      BY <2>2, <3>3, <1>4 DEF Probed
    <3>4. QED
      BY <2>2, <3>1, <3>2, <3>3 DEF Buffer, Ops
  <2>3. QED
    BY <2>1, <2>2
<1>6. (active => x.active) /\ (x.mov /\ ~ x.align => active)
  <2>1. active => x.active
    OBVIOUS
  <2>2. ASSUME x.mov, ~ x.align PROVE active
    BY <2>2 DEF BufferSound, Probed
  <2>3. QED
    BY <2>1, <2>2
<1> HIDE DEF active, io
<1>7. BufferSound(new, k, s, r, n)
  <2>1. /\ new.active => new.op # "none" /\ new.call \in Slots /\ new.t \in 1..n
        /\ ~ new.active => new.io = "none" /\ ~ new.callback
        /\ new.callback => new.op = "read" /\ new.align
        /\ new.op = "read" /\ ~ new.align => new.io = "none"
        /\ new.mov => new.op = "read" /\ (new.active \/ new.align)
    BY <1>2, <1>4, <1>5, <1>6 DEF BufferSound
  <2>2. /\ new.io = "write" => new.op = "write"
        /\ new.io = "read" => new.op \in {"cover", "read"}
        /\ new.op # "none" => Placed(new)
        /\ new.op = "write" => Filled(new)
    BY <1>2, <1>3, <1>4 DEF BufferSound
  <2>3. QED
    BY <2>1, <2>2, <1>2 DEF BufferSound
<1>8. QED
  BY <1>2, <1>7 DEF new

-----------------------------------------------------------------------------
(* The steps that take a process from one stage of its call to another.    *)

(* The buffers, when processes move and the buffers stay as they are.      *)
LEMMA BuffersMove ==
  ASSUME Types, Buffers, buf' = buf, Len(asked)' \in Nat, Len(asked) <= Len(asked)',
         \A q \in Proc :
           \/ /\ Call(q)'.kind = Call(q).kind /\ at'[q].stage = at[q].stage
              /\ left'[q] = left[q]
           \/ \A b \in 1..NBuf :
                /\ buf[q][b].op # "cover"
                /\ Call(q)'.kind \in {"write", "read"} /\ at'[q].stage = Leave1
                     => ~ buf[q][b].mov
                /\ Call(q)'.kind \in {"write", "read"} /\ at'[q].stage = Work
                     => ~ (buf[q][b].mov /\ buf[q][b].align)
  PROVE  Buffers'
<1>1. Len(asked) \in Nat
  BY DEF Types
<1>2. ASSUME NEW q \in Proc, NEW b \in 1..NBuf PROVE Sound(q, b)'
  <2>1. BufferSound(buf[q][b], Call(q).kind, at[q].stage, left[q], Len(asked))
    BY DEF Buffers, Sound
  <2>2. CASE /\ Call(q)'.kind = Call(q).kind /\ at'[q].stage = at[q].stage
             /\ left'[q] = left[q]
    <3>1. BufferSound(buf[q][b], Call(q).kind, at[q].stage, left[q], Len(asked)')
      BY <2>1, <1>1 DEF BufferSound
    <3>2. QED
      BY <2>2, <3>1 DEF Sound
  <2>3. CASE /\ buf[q][b].op # "cover"
             /\ Call(q)'.kind \in {"write", "read"} /\ at'[q].stage = Leave1
                  => ~ buf[q][b].mov
             /\ Call(q)'.kind \in {"write", "read"} /\ at'[q].stage = Work
                  => ~ (buf[q][b].mov /\ buf[q][b].align)
    <3>1. BufferSound(buf[q][b], Call(q)'.kind, at'[q].stage, left'[q], Len(asked)')
      BY <2>1, <2>3, <1>1, SoundMoves
    <3>2. QED
      BY <3>1 DEF Sound
  <2>4. QED
    BY <2>2, <2>3
<1>3. \A q \in Proc, b, c \in 1..NBuf :
        buf'[q][b].op = "cover" /\ buf'[q][c].op = "cover" => b = c
  BY DEF Buffers
<1>4. QED
  BY <1>2, <1>3 DEF Buffers

(* A process goes to another stage of its call.                            *)
Advances(p, s) ==
  /\ Goto(p, s) /\ s \in StagesOf(Call(p).kind) /\ UNCHANGED asked
  /\ prog' \in Seq(Calls) /\ Len(prog') = Len(prog)
  /\ \A k \in DOMAIN prog : /\ prog'[k].kind = prog[k].kind /\ prog'[k].t = prog[k].t
                            /\ prog'[k].slot = prog[k].slot

(* Only the process that advances moves, and all calls are what they were. *)
LEMMA AdvanceFacts ==
  ASSUME Types, CallsSound, NEW p \in Proc, NEW s, Advances(p, s)
  PROVE  /\ CallsSound' /\ at' \in [Proc -> [n : 1..2, stage : Enter1..Out]]
         /\ DOMAIN prog' = DOMAIN prog /\ Len(prog') \in 1..2
         /\ \A q \in Proc :
              /\ Call(q)'.kind = Call(q).kind /\ Call(q)'.t = Call(q).t
              /\ Call(q)'.slot = Call(q).slot
              /\ at'[q].n = at[q].n /\ (q # p => at'[q].stage = at[q].stage)
         /\ at'[p].stage = s
<1>1. /\ at \in [Proc -> [n : 1..2, stage : Enter1..Out]]
      /\ prog \in Seq(Calls) /\ Len(prog) \in 1..2
  BY DEF Types
<1>2. /\ at' = [at EXCEPT ![p].stage = s] /\ s \in StagesOf(Call(p).kind) /\ UNCHANGED asked
      /\ prog' \in Seq(Calls) /\ Len(prog') = Len(prog)
      /\ \A k \in DOMAIN prog : /\ prog'[k].kind = prog[k].kind /\ prog'[k].t = prog[k].t
                                /\ prog'[k].slot = prog[k].slot
  BY DEF Advances, Goto
<1>3. s \in Enter1..Out
  BY <1>2 DEF StagesOf, Enter1, Leave1, Work, Enter2, Leave2, Out
<1>4. DOMAIN prog' = DOMAIN prog
  BY <1>1, <1>2
<1>5. \A q \in Proc : /\ at'[q].n = at[q].n /\ (q # p => at'[q].stage = at[q].stage)
  BY <1>1, <1>2
<1>6. at' \in [Proc -> [n : 1..2, stage : Enter1..Out]] /\ at'[p].stage = s
  BY <1>1, <1>2, <1>3
<1>7. \A q \in Proc : at[q].n \in DOMAIN prog
  BY DEF CallsSound
<1>8. \A q \in Proc : /\ Call(q)'.kind = Call(q).kind /\ Call(q)'.t = Call(q).t
                      /\ Call(q)'.slot = Call(q).slot
  BY <1>2, <1>5, <1>7 DEF Call
<1>9. CallsSound'
  <2>1. ASSUME NEW k \in DOMAIN prog'
        PROVE  /\ prog'[k].kind = "none" => k = 1
               /\ prog'[k].kind \notin {"none", "flick"} => prog'[k].t \in DOMAIN asked'
               /\ prog'[k].kind = "flick" => prog'[k].slot \in Slots
    BY <1>2, <1>4, <2>1 DEF CallsSound
  <2>2. ASSUME NEW q \in Proc
        PROVE  /\ at'[q].n \in DOMAIN prog'
               /\ at'[q].stage \in StagesOf(Call(q)'.kind)
               /\ at'[q].n = 2 => \E r \in Proc : at'[r].n = 1
    <3>1. at'[q].stage \in StagesOf(Call(q).kind)
      BY <1>2, <1>5, <1>6 DEF CallsSound
    <3>2. at[q].n = 2 => \E r \in Proc : at[r].n = 1
      BY DEF CallsSound
    <3>3. QED
      BY <1>4, <1>5, <1>7, <1>8, <3>1, <3>2
  <2>3. Len(prog)' = 2 => \E q \in Proc : at'[q].n = 2
    BY <1>2, <1>5 DEF CallsSound
  <2>4. QED
    BY <2>1, <2>2, <2>3 DEF CallsSound
<1>10. QED
  BY <1>1, <1>2, <1>4, <1>5, <1>6, <1>8, <1>9

(* It leaves a pnga_sync or a pnga_gop when all have entered it.           *)
LEMMA AdvanceBarriers ==
  ASSUME Types, CallsSound, Barriers, NEW p \in Proc, NEW s, Advances(p, s),
         at[p].stage <= s,
         Call(p).kind \in {"write", "read"} /\ s > Leave1
           => at[p].stage > Leave1 \/ AllReached(at[p].n, Leave1),
         Call(p).kind \notin {"none", "read"} /\ s > Leave2
           => at[p].stage > Leave2 \/ AllReached(at[p].n, Leave2)
  PROVE  Barriers'
<1>1. /\ DOMAIN prog' = DOMAIN prog
      /\ \A k \in DOMAIN prog : prog'[k].kind = prog[k].kind
      /\ \A q \in Proc : at'[q].n = at[q].n /\ (q # p => at'[q].stage = at[q].stage)
      /\ at'[p].stage = s
  BY AdvanceFacts DEF Advances
<1>2. /\ \A q \in Proc : at[q].n \in 1..2 /\ at[q].stage \in Enter1..Out
      /\ s \in Enter1..Out
  <2>1. s \in Enter1..Out
    BY DEF Advances, StagesOf, Enter1, Leave1, Work, Enter2, Leave2, Out
  <2>2. QED
    BY <2>1 DEF Types
<1>3. \A q \in Proc : at'[q].stage >= at[q].stage
  BY <1>1, <1>2 DEF Enter1, Out
<1>4. ASSUME NEW n \in DOMAIN prog, NEW i \in {Leave1, Leave2}, AllReached(n, i)
      PROVE  AllReached(n, i)'
  BY <1>1, <1>2, <1>3, <1>4 DEF AllReached, Enter1, Out, Leave1, Leave2
<1>5. ASSUME NEW q \in Proc, NEW n \in DOMAIN prog, NEW i \in {Leave1, Leave2},
             Passes(q, n, i)'
      PROVE  Passes(q, n, i) \/ (q = p /\ n = at[p].n /\ s > i /\ ~ (at[p].stage > i))
  BY <1>1, <1>2, <1>5 DEF Passes, Enter1, Out, Leave1, Leave2
<1>6. prog[at[p].n] = Call(p)
  BY DEF Call
<1>7. ASSUME NEW q \in Proc, NEW n \in DOMAIN prog
      PROVE  /\ prog[n].kind \in {"write", "read"} /\ Passes(q, n, Leave1)'
                  => AllReached(n, Leave1)
             /\ prog[n].kind \notin {"none", "read"} /\ Passes(q, n, Leave2)'
                  => AllReached(n, Leave2)
  <2>1. /\ prog[n].kind \in {"write", "read"} /\ Passes(q, n, Leave1) => AllReached(n, Leave1)
        /\ prog[n].kind \notin {"none", "read"} /\ Passes(q, n, Leave2) => AllReached(n, Leave2)
    BY DEF Barriers
  <2>2. ASSUME Passes(q, n, Leave1)', prog[n].kind \in {"write", "read"}
        PROVE  AllReached(n, Leave1)
    BY <1>5, <1>6, <2>1, <2>2
  <2>3. ASSUME Passes(q, n, Leave2)', prog[n].kind \notin {"none", "read"}
        PROVE  AllReached(n, Leave2)
    BY <1>5, <1>6, <2>1, <2>3
  <2>4. QED
    BY <2>2, <2>3
<1>8. QED
  BY <1>1, <1>4, <1>7 DEF Barriers

-----------------------------------------------------------------------------
(* The table of requests.                                                  *)

(* A new transfer gets a free handle; no other transfer's handle changes.  *)
LEMMA GiveFact ==
  ASSUME NEW T \in Tables, NEW c, c.t \in 1..MaxTransfers, \E i \in Slots : ~ T.pending[i]
  PROVE  /\ Give(c, T) \in Tables /\ Give(c, T).handle[c.t] \in Slots
         /\ \A t \in 1..MaxTransfers : t # c.t => Give(c, T).handle[t] = T.handle[t]
         /\ \A j \in Slots : Give(c, T).pending[j] => T.pending[j] \/ j = Give(c, T).handle[c.t]
<1> DEFINE free == {j \in Slots : ~ T.pending[j]}
           i == Min(free)
<1>1. i \in free
  <2>1. free \subseteq Nat
    BY Numbers
  <2>2. QED
    BY <2>1, MinFact
<1>2. Give(c, T) = [pending |-> [T.pending EXCEPT ![i] = TRUE],
                    handle |-> [T.handle EXCEPT ![c.t] = i]]
  BY DEF Give
<1>3. i \in Slots
  BY <1>1
<1> HIDE DEF i
<1>4. T.pending \in [Slots -> BOOLEAN] /\ T.handle \in [1..MaxTransfers -> Slots \cup {None}]
  BY DEF Tables
<1>5. /\ Give(c, T).pending = [T.pending EXCEPT ![i] = TRUE]
      /\ Give(c, T).handle = [T.handle EXCEPT ![c.t] = i]
  BY <1>2
<1>6. Give(c, T) \in Tables
  BY <1>2, <1>3, <1>4 DEF Tables
<1>7. /\ Give(c, T).handle[c.t] = i
      /\ \A t \in 1..MaxTransfers : t # c.t => Give(c, T).handle[t] = T.handle[t]
  BY <1>4, <1>5
<1>8. \A j \in Slots : Give(c, T).pending[j] => T.pending[j] \/ j = i
  BY <1>4, <1>5
<1>9. QED
  BY <1>3, <1>6, <1>7, <1>8

(* The end of a transfer frees its handle.                                 *)
LEMMA ClearFact ==
  ASSUME NEW T \in Tables, NEW i
  PROVE  /\ Clear(T, i) \in Tables /\ Clear(T, i).handle = T.handle
         /\ \A j \in Slots : Clear(T, i).pending[j] <=> T.pending[j] /\ j # i
BY DEF Clear, Tables

(* A call changes no handle but that of the transfer it issues.            *)
LEMMA EffectFact ==
  ASSUME NEW T \in Tables, NEW c \in Calls,
         c.kind \in {"write", "read"} =>
           c.t \in 1..MaxTransfers /\ \E i \in Slots : ~ T.pending[i]
  PROVE  /\ Effect(c, T) \in Tables
         /\ \A t \in 1..MaxTransfers :
              Effect(c, T).handle[t] = T.handle[t]
                \/ (c.kind \in {"write", "read"} /\ t = c.t)
<1>1. CASE c.kind \in {"write", "read"}
  <2>1. Effect(c, T) = Give(c, T)
    BY <1>1 DEF Effect
  <2>2. QED
    BY <1>1, <2>1, GiveFact
<1>2. CASE c.kind \notin {"write", "read"}
  <2>1. Effect(c, T) = T \/ \E i : Effect(c, T) = Clear(T, i)
    BY <1>2 DEF Effect
  <2>2. QED
    BY <2>1, ClearFact
<1>3. QED
  BY <1>1, <1>2

(* The tables of a chain keep their type from call to call.                *)
LEMMA ChainFact ==
  ASSUME Types, CallsSound, NEW T \in [0..2 -> Tables], TablesChain(T), NEW k \in DOMAIN prog
  PROVE  /\ T[k - 1] \in Tables /\ T[k] \in Tables /\ k \in 1..2 /\ prog[k] \in Calls
         /\ \A t \in 1..MaxTransfers :
              T[k].handle[t] = T[k - 1].handle[t] \/ T[k - 1].handle[t] = None
<1>1. k \in 1..2 /\ prog[k] \in Calls
  BY DEF Types
<1>2. T[k - 1] \in Tables /\ T[k] \in Tables
  BY <1>1
<1>3. T[k] = Effect(prog[k], T[k - 1])
  BY DEF TablesChain
<1>4. prog[k].kind \in {"write", "read"} =>
        /\ \E i \in Slots : ~ T[k - 1].pending[i]
        /\ \A t \in 1..MaxTransfers : t >= prog[k].t => T[k - 1].handle[t] = None
        /\ prog[k].t \in 1..MaxTransfers
  <2>1. prog[k].kind \in {"write", "read"} => prog[k].t \in DOMAIN asked
    BY DEF CallsSound
  <2>2. DOMAIN asked \subseteq 1..MaxTransfers
    BY Numbers DEF Types
  <2>3. QED
    BY <2>1, <2>2 DEF TablesChain
<1>5. \A t \in 1..MaxTransfers :
        T[k].handle[t] = T[k - 1].handle[t]
          \/ (prog[k].kind \in {"write", "read"} /\ t = prog[k].t)
  BY <1>1, <1>2, <1>3, <1>4, EffectFact
<1>6. QED
  BY <1>1, <1>2, <1>4, <1>5

(* How many calls a process has gone through.                              *)
LEMMA CountFact ==
  ASSUME Types, CallsSound, NEW p \in Proc
  PROVE  /\ Count(p) \in 0..2 /\ Count(p) \in {at[p].n, at[p].n - 1}
         /\ Count(p) <= Len(prog) /\ (at[p].stage = Out => Count(p) = at[p].n)
         /\ Call(p).kind \in {"write", "read"} /\ at[p].stage = Leave1 => Count(p) = at[p].n - 1
<1>1. /\ at[p].n \in 1..2 /\ at[p].n \in 1..Len(prog) /\ Len(prog) \in 1..2
      /\ at[p].stage \in Enter1..Out /\ Call(p).kind \in Kinds
  BY CallFact DEF Types, Calls
<1>2. at[p].stage = Out => Applied(p)
  BY <1>1 DEF Applied, Kinds, Work, Enter2, Out
<1>3. Call(p).kind \in {"write", "read"} /\ at[p].stage = Leave1 => ~ Applied(p)
  BY DEF Applied, Leave1, Work
<1>4. QED
  BY <1>1, <1>2, <1>3 DEF Count

(* A process that applies its call to its table comes to the next one of   *)
(* the chain.                                                              *)
LEMMA TablesAdvance ==
  ASSUME Types, CallsSound, TablesInStep, NEW p \in Proc, NEW s, Advances(p, s), prog' = prog,
         \A q \in Proc : q # p => Table(q)' = Table(q),
         \/ (Applied(p)' <=> Applied(p)) /\ Table(p)' = Table(p)
         \/ ~ Applied(p) /\ Applied(p)' /\ Table(p)' = Effect(Call(p), Table(p))
  PROVE  TablesInStep'
<1>1. PICK T \in [0..2 -> Tables] : TablesChain(T)
  BY DEF TablesInStep
<1>2. /\ UNCHANGED asked
      /\ \A q \in Proc : /\ Call(q)'.kind = Call(q).kind /\ at'[q].n = at[q].n
                         /\ (q # p => at'[q].stage = at[q].stage)
  BY AdvanceFacts DEF Advances
<1>3. \A q \in Proc : q # p => (Applied(q)' <=> Applied(q))
  BY <1>2 DEF Applied
<1>4. \A q \in Proc : q # p => Count(q)' = Count(q)
  BY <1>2, <1>3 DEF Count
<1>5. \A q \in Proc : Table(q) = T[Count(q)]
  BY <1>1 DEF TablesChain
<1>6. Table(p)' = T[Count(p)']
  <2>1. CASE (Applied(p)' <=> Applied(p)) /\ Table(p)' = Table(p)
    <3>1. Count(p)' = Count(p)
      BY <2>1, <1>2 DEF Count
    <3>2. QED
      BY <2>1, <3>1, <1>5
  <2>2. CASE ~ Applied(p) /\ Applied(p)' /\ Table(p)' = Effect(Call(p), Table(p))
    <3>1. Count(p)' = at[p].n /\ Count(p) = at[p].n - 1
      BY <2>2, <1>2 DEF Count
    <3>2. T[at[p].n] = Effect(prog[at[p].n], T[at[p].n - 1])
      BY <1>1, CallFact DEF TablesChain
    <3>3. QED
      BY <2>2, <3>1, <3>2, <1>5 DEF Call
  <2>3. QED
    BY <2>1, <2>2
<1>7. \A q \in Proc : Table(q)' = T[Count(q)']
  BY <1>4, <1>5, <1>6
<1>8. TablesChain(T)'
  BY <1>1, <1>2, <1>7 DEF TablesChain
<1>9. QED
  BY <1>8 DEF TablesInStep

(* A scan of the buffers of a probed transfer may change what the probe    *)
(* will do, but no process has done it yet.                                *)
LEMMA TablesProbe ==
  ASSUME Types, CallsSound, Barriers, TablesInStep, NEW p \in Proc, Advances(p, Leave2),
         Call(p).kind \in {"probe", "flick"}, at[p].stage = Work,
         \A k \in DOMAIN prog : k # at[p].n => prog'[k] = prog[k],
         \A q \in Proc : Table(q)' = Table(q)
  PROVE  TablesInStep'
<1> DEFINE n == at[p].n
<1>1. PICK T \in [0..2 -> Tables] : TablesChain(T)
  BY DEF TablesInStep
<1>2. /\ n \in DOMAIN prog /\ n \in 1..2 /\ Len(prog) \in 1..2 /\ DOMAIN prog = 1..Len(prog)
      /\ DOMAIN prog' = DOMAIN prog
  BY CallFact, AdvanceFacts DEF Types
<1>3. \A q \in Proc : at[q].n < n \/ (at[q].n = n /\ at[q].stage <= Leave2)
  <2> SUFFICES ASSUME NEW q \in Proc, ~ (at[q].n < n \/ (at[q].n = n /\ at[q].stage <= Leave2))
               PROVE  FALSE
    OBVIOUS
  <2>1. at[q].n \in 1..2 /\ at[q].stage \in Enter1..Out
    BY CallFact
  <2>2. Passes(q, n, Leave2)
    BY <1>2, <2>1 DEF Passes, Enter1, Leave2, Out
  <2>3. prog[n].kind \notin {"none", "read"}
    BY DEF Call
  <2>4. AllReached(n, Leave2)
    BY <1>2, <2>2, <2>3 DEF Barriers
  <2>5. QED
    BY <1>2, <2>4 DEF AllReached, Work, Leave2
<1>4. n = Len(prog)
  <2> SUFFICES ASSUME n # Len(prog) PROVE FALSE
    OBVIOUS
  <2>1. n = 1 /\ Len(prog) = 2
    BY <1>2
  <2>2. PICK q \in Proc : at[q].n = 2
    BY <2>1 DEF CallsSound
  <2>3. QED
    BY <1>3, <2>1, <2>2
<1>5. /\ \A q \in Proc : /\ Call(q)'.kind = Call(q).kind /\ at'[q].n = at[q].n
                         /\ (q # p => at'[q].stage = at[q].stage)
      /\ at'[p].stage = Leave2 /\ UNCHANGED asked
      /\ \A k \in DOMAIN prog : /\ prog'[k].kind = prog[k].kind /\ prog'[k].t = prog[k].t
  BY AdvanceFacts DEF Advances
<1>6. \A q \in Proc : Applied(q)' <=> Applied(q)
  BY <1>5 DEF Applied, Work, Leave2, Out
<1>7. \A q \in Proc : Count(q)' = Count(q) /\ Count(q) \in 0..2 /\ Count(q) # n
  <2> SUFFICES ASSUME NEW q \in Proc
               PROVE  Count(q)' = Count(q) /\ Count(q) \in 0..2 /\ Count(q) # n
    OBVIOUS
  <2>1. Count(q)' = Count(q) /\ Count(q) \in 0..2
    BY <1>5, <1>6, CountFact DEF Count
  <2>2. ASSUME Count(q) = n PROVE FALSE
    <3>1. at[q].n = n /\ Applied(q)
      BY <1>2, <1>3, <2>2, CallFact DEF Count
    <3>2. at[q].stage # Out
      BY <1>2, <1>3, <3>1 DEF Leave2, Out
    <3>3. Call(q).kind \in {"probe", "flick"}
      BY <3>1 DEF Call
    <3>4. QED
      BY <3>1, <3>2, <3>3 DEF Applied
  <2>3. QED
    BY <2>1, <2>2
<1>8. PICK c : c = prog'[n]
  OBVIOUS
<1>9. c \in Calls /\ c.kind \in {"probe", "flick"}
  BY <1>2, <1>5, <1>8 DEF Advances, Call
<1>10. T[n - 1] \in Tables /\ T[n] \in Tables
  BY <1>1, <1>2, ChainFact
<1>11. /\ Effect(c, T[n - 1]) \in Tables
       /\ \A t \in 1..MaxTransfers : Effect(c, T[n - 1]).handle[t] = T[n - 1].handle[t]
  BY <1>9, <1>10, EffectFact
<1>12. PICK U \in [0..2 -> Tables] : /\ U[n] = Effect(c, T[n - 1])
                                      /\ \A k \in 0..2 : k # n => U[k] = T[k]
  <2>1. [T EXCEPT ![n] = Effect(c, T[n - 1])] \in [0..2 -> Tables]
    BY <1>2, <1>11
  <2>2. QED
    BY <1>2, <2>1
<1>13. \A t \in 1..MaxTransfers : T[n].handle[t] = T[n - 1].handle[t]
  <2>1. T[n] = Effect(prog[n], T[n - 1]) /\ prog[n].kind \in {"probe", "flick"}
    BY <1>1, <1>2 DEF TablesChain, Call
  <2>2. prog[n] \in Calls
    BY <1>1, <1>2, ChainFact
  <2>3. QED
    BY <1>10, <2>1, <2>2, EffectFact
<1>14. TablesChain(U)'
  <2>1. ASSUME NEW k \in DOMAIN prog
        PROVE  /\ U[k] = Effect(prog'[k], U[k - 1])
               /\ \A t \in 1..MaxTransfers : t > Len(asked)' => U[k].handle[t] = None
               /\ prog'[k].kind \in {"write", "read"} =>
                    /\ \E i \in Slots : ~ U[k - 1].pending[i]
                    /\ \A t \in 1..MaxTransfers : t >= prog'[k].t => U[k - 1].handle[t] = None
               /\ prog'[k].kind \in {"wait", "probe"} =>
                    U[k - 1].handle[prog'[k].t] \in Slots
    <3>0. /\ T[k] = Effect(prog[k], T[k - 1])
          /\ \A t \in 1..MaxTransfers : t > Len(asked) => T[k].handle[t] = None
          /\ prog[k].kind \in {"write", "read"} =>
               /\ \E i \in Slots : ~ T[k - 1].pending[i]
               /\ \A t \in 1..MaxTransfers : t >= prog[k].t => T[k - 1].handle[t] = None
          /\ prog[k].kind \in {"wait", "probe"} => T[k - 1].handle[prog[k].t] \in Slots
      BY <1>1 DEF TablesChain
    <3>1. U[k - 1] = T[k - 1] /\ k \in 1..2 /\ k \in 0..2
      BY <1>2, <1>4, <1>12
    <3>2. CASE k = n
      BY <1>5, <1>8, <1>9, <1>11, <1>12, <1>13, <3>0, <3>1, <3>2
    <3>3. CASE k # n
      <4>1. prog'[k] = prog[k] /\ U[k] = T[k]
        BY <1>12, <3>1, <3>3
      <4>2. QED
        BY <1>5, <3>0, <3>1, <4>1
    <3>4. QED
      BY <3>2, <3>3
  <2>2. \A q \in Proc : Table(q)' = U[Count(q)']
    BY <1>1, <1>7, <1>12 DEF TablesChain
  <2>3. \A t \in DOMAIN asked' : U[Len(prog)'].handle[t] \in Slots
    <3>1. Len(prog)' = n /\ asked' = asked
      BY <1>4, <1>5 DEF Advances
    <3>2. \A t \in DOMAIN asked : t \in 1..MaxTransfers /\ T[n].handle[t] \in Slots
      BY <1>1, <1>4, CallFact DEF TablesChain
    <3>3. U[n].handle = Effect(c, T[n - 1]).handle
      BY <1>12
    <3>4. QED
      BY <1>11, <1>13, <3>1, <3>2, <3>3
  <2>4. QED
    BY <1>2, <2>1, <2>2, <2>3 DEF TablesChain
<1>15. QED
  BY <1>12, <1>14 DEF TablesInStep

-----------------------------------------------------------------------------
(* A process takes up the next call.                                       *)

(* What a call that the application makes next may be, when p makes it.    *)
NewCall(p, c) ==
  /\ c \in Calls /\ c.kind # "none"
  /\ c.kind = "flick" => c.slot \in Slots
  /\ c.kind \in {"wait", "probe"} => c.t \in DOMAIN asked
  /\ c.kind \notin {"write", "read"} => asked' = asked
  /\ c.kind \in {"write", "read"} =>
       /\ c.t = Len(asked) + 1 /\ Len(asked') = Len(asked) + 1 /\ FreeSlots(p) # {}

Takes(p, calls) ==
  /\ at[p].stage = Out /\ TakeUp(p, calls)
  /\ \/ at[p].n < Len(prog) /\ calls = prog /\ asked' = asked
     \/ at[p].n = Len(prog) /\ \E c : NewCall(p, c) /\ calls = Append(prog, c)
  /\ asked' \in Seq(Issues) /\ Len(asked') \in 0..MaxTransfers
  /\ UNCHANGED <<left, buf, pending, handle, known>>

(* A process does not run two calls ahead of another: it leaves its call   *)
(* for the second one under way, and a call no process is in is forgotten. *)
LEMMA TakesFacts ==
  ASSUME Types, CallsSound, Barriers, NEW p \in Proc, NEW calls, Takes(p, calls)
  PROVE  /\ at[p].n = 1 /\ calls \in Seq(Calls) /\ Len(calls) = 2
         /\ calls[1] = prog[1] /\ calls[2].kind # "none"
         /\ \A k \in DOMAIN prog : calls[k] = prog[k]
         /\ prog' \in Seq(Calls)
         /\ \/ /\ prog' = calls /\ \E q \in Proc : q # p /\ at[q].n = 1
               /\ at'[p].n = 2 /\ \A q \in Proc : q # p => at'[q].n = at[q].n
            \/ /\ Len(prog') = 1 /\ prog'[1] = calls[2] /\ at'[p].n = 1
               /\ \A q \in Proc : q # p => at[q].n = 2 /\ at'[q].n = 1
         /\ at' \in [Proc -> [n : 1..2, stage : Enter1..Out]]
         /\ at'[p].stage = FirstStage(calls[2])
         /\ \A q \in Proc : q # p => at'[q].stage = at[q].stage
         /\ Call(p)' = calls[2] /\ \A q \in Proc : q # p => Call(q)' = Call(q)
<1> DEFINE first == FirstStage(calls[2])
           shift == IF at[p].n = 1 /\ \A q \in Proc \ {p} : at[q].n = 2 THEN 1 ELSE 0
<1>1. /\ at \in [Proc -> [n : 1..2, stage : Enter1..Out]]
      /\ prog \in Seq(Calls) /\ Len(prog) \in 1..2
  BY DEF Types
<1>2. \A q \in Proc : at[q].n \in 1..Len(prog)
  BY <1>1 DEF CallsSound
<1>3. at[p].n = 1
  <2> SUFFICES ASSUME at[p].n # 1 PROVE FALSE
    OBVIOUS
  <2>1. at[p].n = 2 /\ 2 \in DOMAIN prog
    BY <1>1, <1>2
  <2>2. PICK q \in Proc : at[q].n = 1
    BY <2>1 DEF CallsSound
  <2>3. prog[2].kind # "none"
    BY <2>1 DEF CallsSound
  <2>4. at[p].stage = Out
    BY DEF Takes
  <2>5. Passes(p, 2, Leave1) /\ Passes(p, 2, Leave2)
    BY <2>1, <2>4 DEF Passes, Leave1, Leave2, Out
  <2>6. AllReached(2, Leave1) \/ AllReached(2, Leave2)
    BY <2>1, <2>3, <2>5 DEF Barriers
  <2>7. QED
    BY <2>2, <2>6 DEF AllReached
<1>4. /\ calls \in Seq(Calls) /\ Len(calls) = 2 /\ calls[2].kind # "none"
      /\ \A k \in DOMAIN prog : calls[k] = prog[k]
  <2>1. CASE at[p].n < Len(prog) /\ calls = prog
    <3>1. Len(prog) = 2
      <4>1. 1 < Len(prog)
        BY <1>3, <2>1
      <4>2. Len(prog) \in 1..2
        BY <1>1
      <4>3. QED
        BY <4>1, <4>2
    <3>2. 2 \in DOMAIN prog
      BY <1>1, <3>1
    <3>3. prog[2].kind # "none"
      BY <3>2 DEF CallsSound
    <3>4. QED
      BY <1>1, <2>1, <3>1, <3>3
  <2>2. CASE at[p].n = Len(prog) /\ \E c : NewCall(p, c) /\ calls = Append(prog, c)
    BY <1>1, <1>3, <2>2 DEF NewCall
  <2>3. QED
    BY <2>1, <2>2 DEF Takes
<1>5. /\ at' = [q \in Proc |-> IF q = p THEN [n |-> 2 - shift, stage |-> first]
                               ELSE [at[q] EXCEPT !.n = @ - shift]]
      /\ prog' = IF shift = 1 THEN Tail(calls) ELSE calls
  BY <1>3 DEF Takes, TakeUp
<1>6. first \in Enter1..Out
  BY DEF FirstStage, Enter1, Work, Out
<1>7. /\ \A k \in DOMAIN prog : k \in 1..2
      /\ 1 \in DOMAIN prog /\ calls[1] = prog[1]
  BY <1>1, <1>4
<1> HIDE DEF first
<1>8. CASE shift = 1
  <2>1. \A q \in Proc : q # p => at[q].n = 2
    BY <1>8
  <2>2. at'[p] = [n |-> 1, stage |-> first]
    BY <1>5, <1>8
  <2>3. \A q \in Proc : q # p => at'[q] = [at[q] EXCEPT !.n = 1]
    BY <1>1, <1>5, <1>8, <2>1
  <2>4. ASSUME NEW q \in Proc, q # p
        PROVE  at'[q].n = 1 /\ at'[q].stage = at[q].stage /\ at[q].stage \in Enter1..Out
    <3>1. at[q] \in [n : 1..2, stage : Enter1..Out]
      BY <1>1
    <3>2. at'[q] = [at[q] EXCEPT !.n = 1]
      BY <2>3, <2>4
    <3>3. QED
      BY <3>1, <3>2
  <2>5. prog' \in Seq(Calls) /\ Len(prog') = 1 /\ prog'[1] = calls[2]
    <3>1. prog' = Tail(calls)
      BY <1>5, <1>8
    <3>2. QED
      BY <1>4, <3>1
  <2>6. at' \in [Proc -> [n : 1..2, stage : Enter1..Out]]
    <3>1. ASSUME NEW q \in Proc PROVE at'[q] \in [n : 1..2, stage : Enter1..Out]
      <4>1. CASE q = p
        BY <1>6, <2>2, <4>1
      <4>2. CASE q # p
        <5>1. at[q] \in [n : 1..2, stage : Enter1..Out]
          BY <1>1
        <5>2. at'[q] = [at[q] EXCEPT !.n = 1]
          BY <2>3, <4>2
        <5>3. QED
          BY <5>1, <5>2
      <4>3. QED
        BY <4>1, <4>2
    <3>2. at' = [q \in Proc |-> at'[q]]
      BY <1>5
    <3>3. QED
      BY <3>1, <3>2
  <2>7. Call(p)' = calls[2]
    BY <2>2, <2>5 DEF Call
  <2>8. ASSUME NEW q \in Proc, q # p PROVE Call(q)' = Call(q)
    <3>1. at[q].n = 2 /\ at'[q].n = 1 /\ 2 \in DOMAIN prog
      BY <1>1, <1>2, <2>1, <2>4, <2>8
    <3>2. calls[2] = prog[2]
      BY <1>4, <3>1
    <3>3. QED
      BY <2>5, <3>1, <3>2 DEF Call
  <2>9. QED
    BY <1>3, <1>4, <1>7, <2>1, <2>2, <2>4, <2>5, <2>6, <2>7, <2>8 DEF first
<1>9. CASE shift # 1
  <2>1. \E q \in Proc : q # p /\ at[q].n = 1
    <3>1. PICK q \in Proc \ {p} : at[q].n # 2
      BY <1>3, <1>9
    <3>2. QED
      BY <1>1, <3>1
  <2>2. shift = 0 /\ prog' = calls
    BY <1>5, <1>9
  <2>3. at'[p] = [n |-> 2, stage |-> first]
    BY <1>5, <2>2
  <2>4. \A q \in Proc : q # p => at'[q] = at[q]
    BY <1>1, <1>5, <2>2
  <2>5. at' \in [Proc -> [n : 1..2, stage : Enter1..Out]]
    <3>1. \A q \in Proc : at'[q] \in [n : 1..2, stage : Enter1..Out]
      BY <1>1, <1>6, <2>3, <2>4
    <3>2. at' = [q \in Proc |-> at'[q]]
      BY <1>5
    <3>3. QED
      BY <3>1, <3>2
  <2>6. Call(p)' = calls[2]
    BY <2>2, <2>3 DEF Call
  <2>7. ASSUME NEW q \in Proc, q # p PROVE Call(q)' = Call(q)
    BY <1>1, <1>2, <1>4, <2>2, <2>4, <2>7 DEF Call
  <2>8. QED
    BY <1>3, <1>4, <1>7, <2>1, <2>2, <2>3, <2>4, <2>5, <2>6, <2>7 DEF first
<1>10. QED
  BY <1>8, <1>9

(* The calls under way are as they should be when another is taken up.     *)
LEMMA TakesCalls ==
  ASSUME Types, CallsSound, Barriers, NEW p \in Proc, NEW calls, Takes(p, calls)
  PROVE  CallsSound' /\ Len(prog)' \in 1..2
<1>1. /\ at[p].n = 1 /\ calls \in Seq(Calls) /\ Len(calls) = 2
      /\ calls[1] = prog[1] /\ calls[2].kind # "none"
      /\ \A k \in DOMAIN prog : calls[k] = prog[k]
      /\ prog' \in Seq(Calls)
      /\ at'[p].stage = FirstStage(calls[2])
      /\ \A q \in Proc : q # p => at'[q].stage = at[q].stage
      /\ Call(p)' = calls[2] /\ \A q \in Proc : q # p => Call(q)' = Call(q)
  BY TakesFacts
<1>2. \/ /\ prog' = calls /\ \E q \in Proc : q # p /\ at[q].n = 1
         /\ at'[p].n = 2 /\ \A q \in Proc : q # p => at'[q].n = at[q].n
      \/ /\ Len(prog') = 1 /\ prog'[1] = calls[2] /\ at'[p].n = 1
         /\ \A q \in Proc : q # p => at[q].n = 2 /\ at'[q].n = 1
  BY TakesFacts
<1>3. \A q \in Proc : at[q].n \in 1..2 /\ at[q].stage \in StagesOf(Call(q).kind)
  BY CallFact
<1>4. /\ DOMAIN prog = 1..Len(prog) /\ Len(prog) \in 1..2
      /\ DOMAIN asked = 1..Len(asked) /\ Len(asked) \in Nat
  BY DEF Types
<1>5. Len(asked)' \in Nat /\ DOMAIN asked' = 1..Len(asked)' /\ Len(asked) <= Len(asked)'
  <2>1. Len(asked)' \in Nat /\ DOMAIN asked' = 1..Len(asked)'
    BY DEF Takes
  <2>2. Len(asked)' = Len(asked) \/ Len(asked)' = Len(asked) + 1
    BY DEF Takes, NewCall
  <2>3. \A a, b \in Nat : b = a \/ b = a + 1 => a <= b
    OBVIOUS
  <2>4. Len(asked) \in Nat
    BY <1>4
  <2>5. Len(asked) <= Len(asked)'
    BY <2>1, <2>2, <2>3, <2>4, Zenon
  <2>6. QED
    BY <2>1, <2>5
<1>6. DOMAIN asked \subseteq DOMAIN asked'
  BY <1>4, <1>5
<1> DEFINE Fine(c) == /\ c.kind \notin {"none", "flick"} => c.t \in DOMAIN asked'
                      /\ c.kind = "flick" => c.slot \in Slots
<1>7. \A k \in DOMAIN prog : Fine(prog[k])
  BY <1>6 DEF CallsSound
<1>8. Fine(calls[2])
  <2>1. CASE at[p].n < Len(prog) /\ calls = prog
    <3>1. 1 < Len(prog)
      BY <1>1, <2>1
    <3>2. 2 \in DOMAIN prog
      BY <1>4, <3>1
    <3>3. QED
      BY <1>7, <2>1, <3>2
  <2>2. ASSUME at[p].n = Len(prog), NEW c, NewCall(p, c), calls = Append(prog, c)
        PROVE  Fine(calls[2])
    <3>1. calls[2] = c
      BY <1>1, <2>2 DEF Types
    <3>2. c \in Calls /\ c.kind \in Kinds
      BY <2>2 DEF NewCall, Calls
    <3>3. CASE c.kind \in {"write", "read"}
      <4>1. c.t = Len(asked) + 1 /\ Len(asked') = Len(asked) + 1
        BY <2>2, <3>3 DEF NewCall
      <4>2. QED
        BY <1>4, <1>5, <3>1, <3>3, <4>1
    <3>4. CASE c.kind \notin {"write", "read"}
      BY <1>6, <2>2, <3>1, <3>2, <3>4 DEF NewCall, Kinds
    <3>5. QED
      BY <3>3, <3>4
  <2>3. QED
    BY <2>1, <2>2 DEF Takes
<1>9. Fine(calls[1])
  BY <1>1, <1>4, <1>7
<1> HIDE DEF Fine
<1>10. FirstStage(calls[2]) \in StagesOf(calls[2].kind)
  <2>1. calls[2] \in Calls
    BY <1>1
  <2>2. calls[2].kind \in Kinds \ {"none"}
    BY <1>1, <2>1 DEF Calls
  <2>3. QED
    BY <2>2 DEF FirstStage, StagesOf, Kinds, Enter1, Leave1, Work, Enter2, Leave2, Out
<1>11. \A q \in Proc : at'[q].stage \in StagesOf(Call(q)'.kind)
  BY <1>1, <1>3, <1>10
<1>12. CASE /\ prog' = calls /\ \E q \in Proc : q # p /\ at[q].n = 1
            /\ at'[p].n = 2 /\ \A q \in Proc : q # p => at'[q].n = at[q].n
  <2>1. Len(prog)' = 2 /\ DOMAIN prog' = {1, 2}
    BY <1>1, <1>12
  <2>2. \A q \in Proc : at'[q].n \in {1, 2}
    BY <1>3, <1>12
  <2>3. \E q \in Proc : at'[q].n = 1
    BY <1>12
  <2>4. ASSUME NEW k \in DOMAIN prog'
        PROVE  /\ prog'[k].kind = "none" => k = 1
               /\ prog'[k].kind \notin {"none", "flick"} => prog'[k].t \in DOMAIN asked'
               /\ prog'[k].kind = "flick" => prog'[k].slot \in Slots
    BY <1>1, <1>8, <1>9, <1>12, <2>1 DEF Fine
  <2>5. QED
    BY <1>11, <1>12, <2>1, <2>2, <2>3, <2>4 DEF CallsSound
<1>13. CASE /\ Len(prog') = 1 /\ prog'[1] = calls[2] /\ at'[p].n = 1
            /\ \A q \in Proc : q # p => at[q].n = 2 /\ at'[q].n = 1
  <2>1. DOMAIN prog' = {1}
    BY <1>1, <1>13
  <2>2. \A q \in Proc : at'[q].n = 1
    BY <1>13
  <2>3. QED
    BY <1>1, <1>8, <1>11, <1>13, <2>1, <2>2 DEF CallsSound, Fine
<1>14. QED
  BY <1>2, <1>12, <1>13

(* Nobody has passed a pnga_sync of the call that is taken up.             *)
LEMMA TakesBarriers ==
  ASSUME Types, CallsSound, Barriers, NEW p \in Proc, NEW calls, Takes(p, calls)
  PROVE  Barriers'
<1>1. /\ at[p].n = 1 /\ calls \in Seq(Calls) /\ Len(calls) = 2
      /\ calls[1] = prog[1] /\ calls[2].kind # "none"
      /\ \A k \in DOMAIN prog : calls[k] = prog[k]
      /\ prog' \in Seq(Calls)
      /\ at'[p].stage = FirstStage(calls[2])
      /\ \A q \in Proc : q # p => at'[q].stage = at[q].stage
  BY TakesFacts
<1>2. \/ /\ prog' = calls /\ \E q \in Proc : q # p /\ at[q].n = 1
         /\ at'[p].n = 2 /\ \A q \in Proc : q # p => at'[q].n = at[q].n
      \/ /\ Len(prog') = 1 /\ prog'[1] = calls[2] /\ at'[p].n = 1
         /\ \A q \in Proc : q # p => at[q].n = 2 /\ at'[q].n = 1
  BY TakesFacts
<1>3. /\ \A q \in Proc : at[q].n \in 1..Len(prog) /\ at[q].stage \in 1..6 /\ Len(prog) \in 1..2
      /\ DOMAIN prog = 1..Len(prog)
  BY CallFact DEF Types, Enter1, Out
<1>4. at[p].stage = 6
  BY DEF Takes, Out
<1>5. /\ at'[p].stage <= Work /\ at'[p].stage \in Nat
      /\ calls[2].kind \in {"write", "read"} => at'[p].stage = Enter1
  BY <1>1 DEF FirstStage, Enter1, Work
<1>6. ASSUME NEW q \in Proc, NEW n \in DOMAIN prog
      PROVE  /\ prog[n].kind \in {"write", "read"} /\ Passes(q, n, Leave1) => AllReached(n, Leave1)
             /\ prog[n].kind \notin {"none", "read"} /\ Passes(q, n, Leave2)
                  => AllReached(n, Leave2)
  BY DEF Barriers
<1>7. ASSUME 2 \in DOMAIN prog, NEW i PROVE ~ AllReached(2, i)
  BY <1>1, <1>7 DEF AllReached
<1>8. CASE /\ prog' = calls /\ \E q \in Proc : q # p /\ at[q].n = 1
           /\ at'[p].n = 2 /\ \A q \in Proc : q # p => at'[q].n = at[q].n
  <2>1. DOMAIN prog' = {1, 2}
    BY <1>1, <1>8
  <2>2. ASSUME NEW i \in {Leave1, Leave2}, AllReached(1, i) PROVE AllReached(1, i)'
    BY <1>1, <1>3, <1>8, <2>2 DEF AllReached
  <2>3. Passes(p, 1, Leave1) /\ Passes(p, 1, Leave2)
    BY <1>1, <1>4 DEF Passes, Leave1, Leave2
  <2>4. ASSUME NEW q \in Proc
        PROVE  /\ prog'[1].kind \in {"write", "read"} => AllReached(1, Leave1)'
               /\ prog'[1].kind \notin {"none", "read"} => AllReached(1, Leave2)'
    BY <1>1, <1>3, <1>6, <1>8, <2>2, <2>3
  <2>5. ASSUME NEW q \in Proc
        PROVE  /\ prog'[2].kind \in {"write", "read"} => ~ Passes(q, 2, Leave1)'
               /\ prog'[2].kind \notin {"none", "read"} => ~ Passes(q, 2, Leave2)'
    <3>1. CASE q = p
      BY <1>1, <1>5, <1>8, <3>1 DEF Passes, Leave1, Leave2, Enter1, Work
    <3>2. CASE q # p /\ at[q].n = 1
      BY <1>8, <3>2 DEF Passes
    <3>3. CASE q # p /\ at[q].n # 1
      <4>1. 2 \in DOMAIN prog /\ at[q].n = 2 /\ prog'[2] = prog[2]
        BY <1>1, <1>3, <1>8, <3>3
      <4>2. /\ prog[2].kind \in {"write", "read"} => ~ Passes(q, 2, Leave1)
            /\ prog[2].kind \notin {"none", "read"} => ~ Passes(q, 2, Leave2)
        BY <1>6, <1>7, <4>1
      <4>3. /\ Passes(q, 2, Leave1)' => Passes(q, 2, Leave1)
            /\ Passes(q, 2, Leave2)' => Passes(q, 2, Leave2)
        BY <1>1, <1>8, <3>3 DEF Passes
      <4>4. QED
        BY <4>1, <4>2, <4>3
    <3>4. QED
      BY <3>1, <3>2, <3>3
  <2>6. QED
    BY <2>1, <2>4, <2>5 DEF Barriers
<1>9. CASE /\ Len(prog') = 1 /\ prog'[1] = calls[2] /\ at'[p].n = 1
           /\ \A q \in Proc : q # p => at[q].n = 2 /\ at'[q].n = 1
  <2>1. DOMAIN prog' = {1}
    BY <1>1, <1>9
  <2>2. ASSUME NEW q \in Proc
        PROVE  /\ prog'[1].kind \in {"write", "read"} => ~ Passes(q, 1, Leave1)'
               /\ prog'[1].kind \notin {"none", "read"} => ~ Passes(q, 1, Leave2)'
    <3>1. CASE q = p
      BY <1>1, <1>5, <1>9, <3>1 DEF Passes, Leave1, Leave2, Enter1, Work
    <3>2. CASE q # p
      <4>1. 2 \in DOMAIN prog /\ at[q].n = 2
        BY <1>3, <1>9, <3>2
      <4>2. prog'[1] = prog[2]
        BY <1>1, <1>9, <4>1
      <4>3. /\ prog[2].kind \in {"write", "read"} => ~ Passes(q, 2, Leave1)
            /\ prog[2].kind \notin {"none", "read"} => ~ Passes(q, 2, Leave2)
        BY <1>6, <1>7, <4>1
      <4>4. /\ Passes(q, 1, Leave1)' => Passes(q, 2, Leave1)
            /\ Passes(q, 1, Leave2)' => Passes(q, 2, Leave2)
        BY <1>1, <1>9, <3>2 DEF Passes
      <4>5. QED
        BY <4>2, <4>3, <4>4
    <3>3. QED
      BY <3>1, <3>2
  <2>3. QED
    BY <2>1, <2>2 DEF Barriers
<1>10. QED
  BY <1>2, <1>8, <1>9

(* The chain of tables grows with a new call, and loses its first when the *)
(* last process has left it.                                               *)
LEMMA TakesTables ==
  ASSUME Types, CallsSound, Barriers, TablesInStep, NEW p \in Proc, NEW calls, Takes(p, calls)
  PROVE  TablesInStep'
<1>1. /\ at[p].n = 1 /\ calls \in Seq(Calls) /\ Len(calls) = 2
      /\ calls[1] = prog[1] /\ calls[2].kind # "none"
      /\ \A k \in DOMAIN prog : calls[k] = prog[k]
      /\ prog' \in Seq(Calls)
      /\ at'[p].stage = FirstStage(calls[2])
      /\ \A q \in Proc : q # p => at'[q].stage = at[q].stage
      /\ Call(p)' = calls[2] /\ \A q \in Proc : q # p => Call(q)' = Call(q)
  BY TakesFacts
<1>2. \/ /\ prog' = calls /\ \E q \in Proc : q # p /\ at[q].n = 1
         /\ at'[p].n = 2 /\ \A q \in Proc : q # p => at'[q].n = at[q].n
      \/ /\ Len(prog') = 1 /\ prog'[1] = calls[2] /\ at'[p].n = 1
         /\ \A q \in Proc : q # p => at[q].n = 2 /\ at'[q].n = 1
  BY TakesFacts
<1>3. PICK T \in [0..2 -> Tables] : TablesChain(T)
  BY DEF TablesInStep
<1>4. /\ DOMAIN prog = 1..Len(prog) /\ Len(prog) \in 1..2 /\ Len(asked) \in Nat
      /\ 1 \in DOMAIN prog /\ Len(asked) \in 0..MaxTransfers /\ MaxTransfers \in Nat
  BY Numbers DEF Types
<1>5. \A q \in Proc : Table(q)' = Table(q)
  BY DEF Takes, Table
<1>6. \A q \in Proc : q # p => (Applied(q)' <=> Applied(q))
  BY <1>1 DEF Applied
<1>7. ~ Applied(p)'
  <2>1. calls[2] \in Calls
    <3>1. calls \in Seq(Calls) /\ Len(calls) = 2
      BY <1>1
    <3>2. QED
      BY <3>1
  <2>2. calls[2].kind \in Kinds \ {"none"}
    BY <1>1, <2>1 DEF Calls
  <2>3. QED
    BY <1>1, <2>2 DEF FirstStage, Applied, Kinds, Enter1, Work, Enter2, Out
<1>8. Count(p) = 1 /\ \A q \in Proc : Count(q) \in 0..2 /\ Count(q) <= Len(prog)
  BY <1>1, CountFact DEF Takes
<1>9. \A q \in Proc : Table(q) = T[Count(q)]
  BY <1>3 DEF TablesChain
<1>10. \A k \in DOMAIN prog :
         /\ T[k] = Effect(prog[k], T[k - 1])
         /\ \A t \in 1..MaxTransfers : t > Len(asked) => T[k].handle[t] = None
         /\ prog[k].kind \in {"write", "read"} =>
              /\ \E i \in Slots : ~ T[k - 1].pending[i]
              /\ \A t \in 1..MaxTransfers : t >= prog[k].t => T[k - 1].handle[t] = None
         /\ prog[k].kind \in {"wait", "probe"} => T[k - 1].handle[prog[k].t] \in Slots
  BY <1>3 DEF TablesChain
<1>11. Len(asked)' \in Nat /\ Len(asked) <= Len(asked)'
  <2>1. Len(asked)' \in Nat
    BY DEF Takes
  <2>2. Len(asked)' = Len(asked) \/ Len(asked)' = Len(asked) + 1
    BY DEF Takes, NewCall
  <2>3. \A a, b \in Nat : b = a \/ b = a + 1 => a <= b
    OBVIOUS
  <2>4. Len(asked) <= Len(asked)'
    BY <1>4, <2>1, <2>2, <2>3, Zenon
  <2>5. QED
    BY <2>1, <2>4
<1>12. T[1] \in Tables /\ T[0] \in Tables /\ T[2] \in Tables
  OBVIOUS
<1> DEFINE Linked(U, k) ==
      /\ U[k] = Effect(calls[k], U[k - 1])
      /\ \A t \in 1..MaxTransfers : t > Len(asked') => U[k].handle[t] = None
      /\ calls[k].kind \in {"write", "read"} =>
           /\ \E i \in Slots : ~ U[k - 1].pending[i]
           /\ \A t \in 1..MaxTransfers : t >= calls[k].t => U[k - 1].handle[t] = None
      /\ calls[k].kind \in {"wait", "probe"} => U[k - 1].handle[calls[k].t] \in Slots
<1>13. \E U \in [0..2 -> Tables] :
         /\ Linked(U, 1) /\ Linked(U, 2)
         /\ \A t \in DOMAIN asked' : U[2].handle[t] \in Slots
         /\ \A k \in 0..2 : k <= Len(prog) => U[k] = T[k]
  <2>1. CASE at[p].n < Len(prog) /\ calls = prog
    <3>1. 1 < Len(prog)
      BY <1>1, <2>1
    <3>2. 2 \in DOMAIN prog
      BY <1>4, <3>1
    <3>3. Linked(T, 1) /\ Linked(T, 2)
      <4>1. \A t \in Nat : t > Len(asked)' => t > Len(asked)
        BY <1>4, <1>11
      <4>2. \A k \in DOMAIN prog : Linked(T, k)
        BY <1>10, <2>1, <4>1
      <4> HIDE DEF Linked
      <4>3. QED
        BY <1>4, <3>2, <4>2
    <3>4. asked' = asked
      BY <2>1 DEF Takes
    <3>5. Len(prog) = 2
      BY <1>4, <3>1
    <3>6. \A t \in DOMAIN asked' : T[2].handle[t] \in Slots
      BY <1>3, <3>4, <3>5 DEF TablesChain
    <3> HIDE DEF Linked
    <3>7. QED
      BY <3>3, <3>6
  <2>2. ASSUME at[p].n = Len(prog), NEW c, NewCall(p, c), calls = Append(prog, c)
        PROVE  \E U \in [0..2 -> Tables] :
                 /\ Linked(U, 1) /\ Linked(U, 2)
                 /\ \A t \in DOMAIN asked' : U[2].handle[t] \in Slots
                 /\ \A k \in 0..2 : k <= Len(prog) => U[k] = T[k]
    <3>1. Len(prog) = 1 /\ calls[2] = c /\ c \in Calls /\ prog \in Seq(Calls)
      BY <1>1, <2>2 DEF NewCall, Types
    <3>2. T[1] = Table(p)
      BY <1>8, <1>9
    <3>3. c.kind \in {"write", "read"} =>
            /\ c.t = Len(asked) + 1 /\ Len(asked') = Len(asked) + 1
            /\ c.t \in 1..MaxTransfers
            /\ \E i \in Slots : ~ T[1].pending[i]
      <4>1. ASSUME c.kind \in {"write", "read"}
            PROVE  c.t = Len(asked) + 1 /\ Len(asked') = Len(asked) + 1 /\ FreeSlots(p) # {}
        BY <2>2, <4>1 DEF NewCall
      <4>2. Len(asked') \in 0..MaxTransfers
        BY DEF Takes
      <4>3. FreeSlots(p) # {} => \E i \in Slots : ~ T[1].pending[i]
        BY <3>2 DEF FreeSlots, Table
      <4>4. Len(asked') = Len(asked) + 1 => Len(asked) + 1 \in 1..MaxTransfers
        BY <1>4, <4>2
      <4>5. QED
        BY <4>1, <4>3, <4>4
    <3>4. /\ Effect(c, T[1]) \in Tables
          /\ \A t \in 1..MaxTransfers :
               Effect(c, T[1]).handle[t] = T[1].handle[t]
                 \/ (c.kind \in {"write", "read"} /\ t = c.t)
      BY <1>12, <3>1, <3>3, EffectFact
    <3>5. PICK U \in [0..2 -> Tables] : U[0] = T[0] /\ U[1] = T[1] /\ U[2] = Effect(c, T[1])
      <4> DEFINE W == [T EXCEPT ![2] = Effect(c, T[1])]
      <4>1. W \in [0..2 -> Tables] /\ W[0] = T[0] /\ W[1] = T[1] /\ W[2] = Effect(c, T[1])
        BY <3>4
      <4> HIDE DEF W
      <4>2. QED
        BY <4>1
    <3>6. \A t \in 1..MaxTransfers : t > Len(asked) => T[1].handle[t] = None
      BY <1>4, <1>10
    <3>7. \A t \in DOMAIN asked : T[1].handle[t] \in Slots
      BY <1>3, <3>1 DEF TablesChain
    <3>8. Linked(U, 1)
      <4>1. \A t \in Nat : t > Len(asked)' => t > Len(asked)
        BY <1>4, <1>11
      <4>2. \A t \in 1..MaxTransfers : t > Len(asked') => U[1].handle[t] = None
        BY <3>5, <3>6, <4>1
      <4>3. U[1] = Effect(calls[1], U[0])
        BY <1>1, <1>4, <1>10, <3>5
      <4>4. /\ calls[1].kind \in {"write", "read"} =>
                 /\ \E i \in Slots : ~ U[0].pending[i]
                 /\ \A t \in 1..MaxTransfers : t >= calls[1].t => U[0].handle[t] = None
            /\ calls[1].kind \in {"wait", "probe"} => U[0].handle[calls[1].t] \in Slots
        BY <1>1, <1>4, <1>10, <3>5
      <4>5. QED
        BY <4>2, <4>3, <4>4
    <3>9. Linked(U, 2)
      <4>1. \A t \in 1..MaxTransfers : t > Len(asked') => U[2].handle[t] = None
        <5> SUFFICES ASSUME NEW t \in 1..MaxTransfers, t > Len(asked') PROVE U[2].handle[t] = None
          OBVIOUS
        <5>1. t > Len(asked)
          BY <1>4, <1>11
        <5>2. c.kind \in {"write", "read"} => t # c.t
          BY <1>4, <3>3
        <5>3. QED
          BY <3>4, <3>5, <3>6, <5>1, <5>2
      <4>2. U[2] = Effect(calls[2], U[1])
        BY <3>1, <3>5
      <4>3. c.kind \in {"write", "read"} =>
              /\ \E i \in Slots : ~ U[1].pending[i]
              /\ \A t \in 1..MaxTransfers : t >= c.t => U[1].handle[t] = None
        BY <1>4, <3>3, <3>5, <3>6
      <4>4. c.kind \in {"wait", "probe"} => U[1].handle[c.t] \in Slots
        BY <2>2, <3>5, <3>7 DEF NewCall
      <4>5. QED
        BY <3>1, <4>1, <4>2, <4>3, <4>4
    <3>10. \A t \in DOMAIN asked' : U[2].handle[t] \in Slots
      <4>1. CASE c.kind \in {"write", "read"}
        <5>1. U[2] = Give(c, T[1])
          BY <3>5, <4>1 DEF Effect
        <5>2. /\ Give(c, T[1]).handle[c.t] \in Slots
              /\ \A t \in 1..MaxTransfers : t # c.t => Give(c, T[1]).handle[t] = T[1].handle[t]
          BY <1>12, <3>3, <4>1, GiveFact
        <5>3. \A t \in DOMAIN asked' : t = c.t \/ (t \in DOMAIN asked /\ t \in 1..MaxTransfers)
          <6>1. DOMAIN asked' = 1..Len(asked') /\ DOMAIN asked = 1..Len(asked)
            BY DEF Takes, Types
          <6>2. Len(asked') = Len(asked) + 1 /\ c.t = Len(asked) + 1
            BY <3>3, <4>1
          <6>3. QED
            BY <1>4, <6>1, <6>2
        <5>4. QED
          BY <3>7, <5>1, <5>2, <5>3
      <4>2. CASE c.kind \notin {"write", "read"}
        <5>1. asked' = asked
          BY <2>2, <4>2 DEF NewCall
        <5>2. \A t \in DOMAIN asked : t \in 1..MaxTransfers
          BY CallFact
        <5>3. QED
          BY <3>4, <3>5, <3>7, <4>2, <5>1, <5>2
      <4>3. QED
        BY <4>1, <4>2
    <3> HIDE DEF Linked
    <3>11. QED
      BY <3>1, <3>5, <3>8, <3>9, <3>10
  <2>3. QED
    BY <2>1, <2>2 DEF Takes
<1>14. PICK U \in [0..2 -> Tables] :
         /\ Linked(U, 1) /\ Linked(U, 2)
         /\ \A t \in DOMAIN asked' : U[2].handle[t] \in Slots
         /\ \A k \in 0..2 : k <= Len(prog) => U[k] = T[k]
  BY <1>13
<1>15. \A q \in Proc : Table(q)' = U[Count(q)]
  BY <1>5, <1>8, <1>9, <1>14
<1>16. CASE /\ prog' = calls /\ \E q \in Proc : q # p /\ at[q].n = 1
            /\ at'[p].n = 2 /\ \A q \in Proc : q # p => at'[q].n = at[q].n
  <2>1. \A q \in Proc : q # p => Count(q)' = Count(q)
    BY <1>6, <1>16 DEF Count
  <2>2. Count(p)' = 1
    BY <1>7, <1>16 DEF Count
  <2>3. \A q \in Proc : Table(q)' = U[Count(q)']
    BY <1>8, <1>15, <2>1, <2>2
  <2>4. DOMAIN prog' = {1, 2}
    BY <1>1, <1>16
  <2>5. Len(prog)' = 2
    BY <1>1, <1>16
  <2>6. TablesChain(U)'
    BY <1>14, <1>16, <2>3, <2>4, <2>5 DEF TablesChain
  <2>7. QED
    BY <2>6 DEF TablesInStep
<1>17. CASE /\ Len(prog') = 1 /\ prog'[1] = calls[2] /\ at'[p].n = 1
            /\ \A q \in Proc : q # p => at[q].n = 2 /\ at'[q].n = 1
  <2>1. PICK V \in [0..2 -> Tables] : V[0] = U[1] /\ V[1] = U[2] /\ V[2] = U[2]
    <3> DEFINE W == [k \in 0..2 |-> IF k = 0 THEN U[1] ELSE U[2]]
    <3>1. W \in [0..2 -> Tables] /\ W[0] = U[1] /\ W[1] = U[2] /\ W[2] = U[2]
      OBVIOUS
    <3> HIDE DEF W
    <3>2. QED
      BY <3>1
  <2>2. \A q \in Proc : q # p => Count(q) \in {1, 2} /\ Count(q)' = Count(q) - 1
    BY <1>6, <1>17 DEF Count
  <2>3. Count(p)' = 0
    BY <1>7, <1>17 DEF Count
  <2>4. \A q \in Proc : Table(q)' = V[Count(q)']
    BY <1>8, <1>15, <2>1, <2>2, <2>3
  <2>5. DOMAIN prog' = {1}
    BY <1>1, <1>17
  <2>6. TablesChain(V)'
    BY <1>14, <1>17, <2>1, <2>4, <2>5 DEF TablesChain
  <2>7. QED
    BY <2>6 DEF TablesInStep
<1>18. QED
  BY <1>2, <1>16, <1>17

(* The buffers stay as they are when the next call is taken up.            *)
LEMMA TakesBuffers ==
  ASSUME Types, CallsSound, Barriers, Buffers, NEW p \in Proc, NEW calls, Takes(p, calls)
  PROVE  Buffers'
<1>1. /\ at'[p].stage = FirstStage(calls[2]) /\ Call(p)' = calls[2]
      /\ \A q \in Proc : q # p => at'[q].stage = at[q].stage
      /\ \A q \in Proc : q # p => Call(q)' = Call(q)
  BY TakesFacts
<1>2. Len(asked)' \in Nat /\ Len(asked) \in Nat /\ buf' = buf /\ left' = left
  BY DEF Takes, Types
<1>3. Len(asked) <= Len(asked)'
  <2>1. Len(asked)' = Len(asked) \/ Len(asked)' = Len(asked) + 1
    BY DEF Takes, NewCall
  <2>2. \A a, b \in Nat : b = a \/ b = a + 1 => a <= b
    OBVIOUS
  <2>3. QED
    BY <1>2, <2>1, <2>2, Zenon
<1>4. at[p].stage = Out
  BY DEF Takes
<1>5. \A b \in 1..NBuf : buf[p][b].op # "cover"
  BY <1>4 DEF Buffers, Sound, BufferSound, Work, Out
<1>6. Call(p)'.kind \in {"write", "read"} => at'[p].stage = Enter1
  BY <1>1 DEF FirstStage
<1>7. QED
  BY <1>1, <1>2, <1>3, <1>5, <1>6, BuffersMove DEF Enter1, Leave1, Work

-----------------------------------------------------------------------------
(* Handles and what is outstanding.                                        *)

(* The handle that a process works with, waits for or probes is one.       *)
LEMMA NamedFact ==
  ASSUME Types, CallsSound, TablesInStep
  PROVE  Named
<1> SUFFICES ASSUME NEW p \in Proc,
                    \/ Call(p).kind \in {"write", "read"} /\ at[p].stage >= Work
                    \/ Call(p).kind \in {"wait", "probe"}
             PROVE  handle[p][Call(p).t] \in Slots
  BY DEF Named
<1> DEFINE n == at[p].n
           t == Call(p).t
<1>1. PICK T \in [0..2 -> Tables] : TablesChain(T)
  BY DEF TablesInStep
<1>2. n \in DOMAIN prog /\ t \in 1..MaxTransfers /\ prog[n] = Call(p)
  BY CallFact DEF Call
<1>3. T[n - 1] \in Tables /\ T[n] = Effect(Call(p), T[n - 1]) /\ Call(p) \in Calls
  BY <1>1, <1>2, ChainFact DEF TablesChain
<1>4. handle[p] = T[Count(p)].handle
  <2>1. Table(p) = T[Count(p)]
    BY <1>1 DEF TablesChain
  <2>2. handle[p] = Table(p).handle
    BY DEF Table
  <2>3. QED
    BY <2>1, <2>2
<1> HIDE DEF n, t
<1>5. CASE Call(p).kind \in {"write", "read"} /\ at[p].stage >= Work
  <2>1. Count(p) = n
    BY <1>5 DEF Count, Applied, n
  <2>2. T[n] = Give(Call(p), T[n - 1])
    BY <1>3, <1>5 DEF Effect
  <2>3. \E i \in Slots : ~ T[n - 1].pending[i]
    BY <1>1, <1>2, <1>5 DEF TablesChain
  <2>4. QED
    BY <1>2, <1>3, <1>4, <2>1, <2>2, <2>3, GiveFact DEF t
<1>6. CASE Call(p).kind \in {"wait", "probe"}
  <2>1. T[n - 1].handle[t] \in Slots
    BY <1>1, <1>2, <1>6 DEF TablesChain, t
  <2>2. T[n].handle = T[n - 1].handle
    <3>1. T[n] = T[n - 1] \/ \E i : T[n] = Clear(T[n - 1], i)
      BY <1>3, <1>6 DEF Effect
    <3>2. QED
      BY <1>3, <3>1, ClearFact
  <2>3. Count(p) = n \/ Count(p) = n - 1
    BY DEF Count, n
  <2>4. QED
    BY <1>4, <2>1, <2>2, <2>3 DEF t
<1>7. QED
  BY <1>5, <1>6

(* The table of a process that comes to its first pnga_sync of a transfer  *)
(* has a free handle, and none yet for this transfer.                      *)
LEMMA AboutToAssign ==
  ASSUME Types, CallsSound, TablesInStep, NEW p \in Proc, In(p, {"write", "read"}, Leave1)
  PROVE  /\ FreeSlots(p) # {} /\ handle[p][Call(p).t] = None
         /\ Call(p).t \in 1..MaxTransfers
<1>1. PICK T \in [0..2 -> Tables] : TablesChain(T)
  BY DEF TablesInStep
<1>2. Table(p) = T[at[p].n - 1]
  <2>1. Table(p) = T[Count(p)]
    BY <1>1 DEF TablesChain
  <2>2. Count(p) = at[p].n - 1
    BY CountFact DEF In
  <2>3. QED
    BY <2>1, <2>2
<1>3. at[p].n \in DOMAIN prog /\ prog[at[p].n] = Call(p) /\ Call(p).t \in 1..MaxTransfers
  BY CallFact DEF Call, In
<1>4. Call(p).kind \in {"write", "read"}
  BY DEF In
<1>5. /\ \E i \in Slots : ~ T[at[p].n - 1].pending[i]
      /\ \A t \in 1..MaxTransfers : t >= Call(p).t => T[at[p].n - 1].handle[t] = None
  BY <1>1, <1>3, <1>4 DEF TablesChain
<1>6. Call(p).t >= Call(p).t
  BY <1>3
<1>7. QED
  BY <1>2, <1>3, <1>5, <1>6 DEF Table, FreeSlots

(* A process that knows fewer than MaxReq transfers outstanding has a free *)
(* handle for the next one, when all calls made so far are through: each   *)
(* pending request is that of one of them.                                 *)
LEMMA RoomForOneMore ==
  ASSUME Types, CallsSound, TablesInStep, Owed, NEW p \in Proc,
         at[p].stage = Out, at[p].n = Len(prog), Cardinality(Outstanding(p)) < MaxReq
  PROVE  FreeSlots(p) # {}
<1> SUFFICES ASSUME FreeSlots(p) = {} PROVE FALSE
  OBVIOUS
<1>1. PICK T \in [0..2 -> Tables] : TablesChain(T)
  BY DEF TablesInStep
<1>2. handle[p] = T[Len(prog)].handle
  <2>1. Table(p) = T[Count(p)]
    BY <1>1 DEF TablesChain
  <2>2. Count(p) = Len(prog)
    BY CountFact
  <2>3. handle[p] = Table(p).handle
    BY DEF Table
  <2>4. QED
    BY <2>1, <2>2, <2>3
<1>3. Len(prog) \in DOMAIN prog
  BY DEF Types
<1>4. \A t \in 1..MaxTransfers : t > Len(asked) => handle[p][t] = None
  BY <1>1, <1>2, <1>3 DEF TablesChain
<1>5. \A i \in Slots : pending[p][i]
  BY DEF FreeSlots
<1> DEFINE f == [i \in Slots |-> CHOOSE t \in 1..MaxTransfers : Owing(p, i, t)]
<1>6. ASSUME NEW i \in Slots PROVE f[i] \in 1..MaxTransfers /\ Owing(p, i, f[i])
  <2>1. \E t \in 1..MaxTransfers : Owing(p, i, t)
    BY <1>5 DEF Owed
  <2>2. f[i] = CHOOSE t \in 1..MaxTransfers : Owing(p, i, t)
    OBVIOUS
  <2>3. QED
    BY <2>1, <2>2, Zenon
<1>7. f = [i \in Slots |-> f[i]]
  OBVIOUS
<1> HIDE DEF f
<1>8. ASSUME NEW i \in Slots PROVE f[i] \in Outstanding(p) /\ handle[p][f[i]] = i
  <2>1. handle[p][f[i]] = i /\ f[i] \notin known[p] /\ f[i] \in 1..MaxTransfers
    BY <1>6 DEF Owing
  <2>2. i # None
    BY Numbers
  <2>3. ~ (f[i] > Len(asked))
    BY <1>4, <2>1, <2>2
  <2>4. DOMAIN asked = 1..Len(asked) /\ Len(asked) \in Nat
    BY DEF Types
  <2>5. f[i] \in DOMAIN asked
    BY <2>1, <2>3, <2>4, Numbers
  <2>6. QED
    BY <2>1, <2>5 DEF Outstanding
<1>9. f \in Injection(Slots, Outstanding(p))
  <2>1. f \in [Slots -> Outstanding(p)]
    BY <1>7, <1>8
  <2>2. \A i, j \in Slots : f[i] = f[j] => i = j
    BY <1>8
  <2>3. QED
    BY <2>1, <2>2 DEF Injection, IsInjective
<1>10. IsFiniteSet(Outstanding(p))
  <2>1. DOMAIN asked = 1..Len(asked) /\ Len(asked) \in Nat
    BY DEF Types
  <2>2. IsFiniteSet(DOMAIN asked)
    BY <2>1, FS_Interval
  <2>3. QED
    BY <2>2, FS_Subset DEF Outstanding
<1>11. Cardinality(Slots) <= Cardinality(Outstanding(p))
  BY <1>9, <1>10, FS_Injection
<1>12. Cardinality(Slots) = MaxReq
  BY Numbers, FS_Interval DEF Slots
<1>13. Cardinality(Outstanding(p)) \in Nat
  BY <1>10, FS_CardinalityType
<1>14. QED
  BY <1>11, <1>12, <1>13, Numbers

-----------------------------------------------------------------------------
(* What is owed, step by step.                                             *)

(* The ledger of one process changes.                                      *)
LEMMA LedgerStep ==
  ASSUME Types, Owed, Handled, NEW p \in Proc,
         \A q \in Proc : q # p =>
           /\ pending'[q] = pending[q] /\ handle'[q] = handle[q] /\ known'[q] = known[q]
           /\ Call(q)'.kind = Call(q).kind /\ Call(q)'.t = Call(q).t
           /\ at'[q].stage = at[q].stage,
         \A i \in Slots : pending'[p][i] => \E t \in 1..MaxTransfers : Owing(p, i, t)',
         \A t \in known'[p] : handle'[p][t] \in Slots
  PROVE  Owed' /\ Handled'
<1>1. ASSUME NEW q \in Proc, NEW i \in Slots, pending'[q][i]
      PROVE  \E t \in 1..MaxTransfers : Owing(q, i, t)'
  <2>1. CASE q = p
    BY <1>1, <2>1
  <2>2. CASE q # p
    <3>1. PICK t \in 1..MaxTransfers : Owing(q, i, t)
      BY <1>1, <2>2 DEF Owed
    <3>2. Owing(q, i, t)'
      BY <2>2, <3>1 DEF Owing
    <3>3. QED
      BY <3>2
  <2>3. QED
    BY <2>1, <2>2
<1>2. ASSUME NEW q \in Proc, NEW t \in known'[q] PROVE handle'[q][t] \in Slots
  BY <1>2 DEF Handled
<1>3. QED
  BY <1>1, <1>2 DEF Owed, Handled

(* Nothing is given and nothing completes.                                 *)
LEMMA LedgerKept ==
  ASSUME Types, Owed, Handled, UNCHANGED <<pending, handle, known>>,
         \A q \in Proc :
           Call(q)'.kind = "wait" /\ at'[q].stage \in {Enter2, Leave2}
             => /\ Call(q).kind = "wait" /\ at[q].stage \in {Enter2, Leave2}
                /\ Call(q)'.t = Call(q).t
  PROVE  Owed' /\ Handled'
<1>1. ASSUME NEW q \in Proc, NEW i \in Slots, pending'[q][i]
      PROVE  \E t \in 1..MaxTransfers : Owing(q, i, t)'
  <2>1. PICK t \in 1..MaxTransfers : Owing(q, i, t)
    BY <1>1 DEF Owed
  <2>2. Owing(q, i, t)'
    BY <2>1 DEF Owing
  <2>3. QED
    BY <2>2
<1>2. QED
  BY <1>1 DEF Owed, Handled

-----------------------------------------------------------------------------
(* The steps, one by one.                                                  *)

(* A pnga_sync is entered by a process without puts under way, and left    *)
(* when all have entered it; with that of dra_wait_ a transfer is known to *)
(* be complete.                                                            *)
LEMMA SyncStep ==
  ASSUME IInv, NEW p \in Proc, Sync(p)
  PROVE  IInv'
<1>1. /\ Types /\ CallsSound /\ Barriers /\ TablesInStep /\ Owed /\ Handled /\ Buffers
  BY DEF IInv
<1>2. /\ Call(p).kind \in {"write", "read", "wait"}
      /\ UNCHANGED <<prog, left, buf, last_buf, pending, handle, disk, asked>>
  BY DEF Sync, In
<1>3. PICK s : /\ Goto(p, s)
               /\ \/ /\ s = Leave1 /\ at[p].stage = Enter1 /\ Fenced(p)
                     /\ Call(p).kind \in {"write", "read"} /\ known' = known
                  \/ /\ s = Leave2 /\ at[p].stage = Enter2 /\ Fenced(p)
                     /\ Call(p).kind \in {"write", "wait"} /\ known' = known
                  \/ /\ s = Out /\ at[p].stage = Leave2 /\ AllReached(at[p].n, Leave2)
                     /\ Call(p).kind \in {"write", "wait"}
                     /\ known' = IF Call(p).kind = "wait"
                                 THEN [known EXCEPT ![p] = @ \cup {Call(p).t}] ELSE known
  <2>1. CASE In(p, {"write", "read"}, Enter1) /\ Fenced(p) /\ Goto(p, at[p].stage + 1)
             /\ known' = known
    BY <2>1 DEF In, Enter1, Leave1
  <2>2. CASE In(p, {"write", "wait"}, Enter2) /\ Fenced(p) /\ Goto(p, at[p].stage + 1)
             /\ known' = known
    BY <2>2 DEF In, Enter2, Leave2
  <2>3. CASE In(p, {"write", "wait"}, Leave2) /\ AllReached(at[p].n, Leave2) /\ Goto(p, Out)
             /\ known' = IF Call(p).kind = "wait"
                         THEN [known EXCEPT ![p] = @ \cup {Call(p).t}] ELSE known
    BY <2>3 DEF In
  <2>4. QED
    BY <2>1, <2>2, <2>3 DEF Sync
<1>4. Advances(p, s)
  <2>1. s \in StagesOf(Call(p).kind)
    BY <1>3 DEF StagesOf, Enter1, Leave1, Enter2, Leave2, Work, Out
  <2>2. prog' \in Seq(Calls)
    BY <1>1, <1>2 DEF Types
  <2>3. QED
    BY <1>2, <1>3, <2>1, <2>2 DEF Advances
<1>5. /\ CallsSound' /\ at' \in [Proc -> [n : 1..2, stage : Enter1..Out]]
      /\ \A q \in Proc : /\ Call(q)'.kind = Call(q).kind /\ Call(q)'.t = Call(q).t
                         /\ at'[q].n = at[q].n /\ (q # p => at'[q].stage = at[q].stage)
      /\ at'[p].stage = s
  BY <1>1, <1>4, AdvanceFacts
<1>6. Barriers'
  <2>1. at[p].stage <= s
    BY <1>3 DEF Enter1, Leave1, Enter2, Leave2, Out
  <2>2. Call(p).kind \in {"write", "read"} /\ s > Leave1
          => at[p].stage > Leave1 \/ AllReached(at[p].n, Leave1)
    BY <1>3 DEF Enter1, Leave1, Enter2, Leave2, Out
  <2>3. Call(p).kind \notin {"none", "read"} /\ s > Leave2
          => at[p].stage > Leave2 \/ AllReached(at[p].n, Leave2)
    BY <1>3 DEF Enter1, Leave1, Enter2, Leave2, Out
  <2>4. QED
    BY <1>1, <1>4, <2>1, <2>2, <2>3, AdvanceBarriers
<1>7. TablesInStep'
  <2>1. Applied(p)' <=> Applied(p)
    BY <1>2, <1>3, <1>5 DEF Applied, Enter1, Leave1, Work, Enter2, Leave2, Out
  <2>2. \A q \in Proc : Table(q)' = Table(q)
    BY <1>2 DEF Table
  <2>3. QED
    BY <1>1, <1>2, <1>4, <2>1, <2>2, TablesAdvance
<1>8. Buffers'
  <2>1. ASSUME NEW b \in 1..NBuf
        PROVE  buf[p][b].op # "cover" /\ (s = Leave1 => ~ buf[p][b].mov)
    <3>1. buf[p][b].op # "cover"
      BY <1>1, <1>3 DEF Buffers, Sound, BufferSound, Enter1, Leave1, Work, Enter2, Leave2, Out
    <3>2. s = Leave1 => ~ buf[p][b].mov
      BY <1>3 DEF Fenced, Leave1, Leave2, Out
    <3>3. QED
      BY <3>1, <3>2
  <2>2. s # Work
    BY <1>3 DEF Work, Leave1, Leave2, Out
  <2>3. Len(asked) \in Nat /\ Len(asked)' = Len(asked)
    BY <1>1, <1>2 DEF Types
  <2>4. QED
    BY <1>1, <1>2, <1>5, <2>1, <2>2, <2>3, BuffersMove
<1>9. Owed' /\ Handled' /\ known' \in [Proc -> SUBSET (1..MaxTransfers)]
  <2>1. known \in [Proc -> SUBSET (1..MaxTransfers)]
    BY <1>1 DEF Types
  <2>2. CASE known' = known
    <3>1. \A q \in Proc :
           Call(q)'.kind = "wait" /\ at'[q].stage \in {Enter2, Leave2}
             => /\ Call(q).kind = "wait" /\ at[q].stage \in {Enter2, Leave2}
                /\ Call(q)'.t = Call(q).t
      BY <1>3, <1>5 DEF Enter1, Leave1, Enter2, Leave2, Out
    <3>2. QED
      BY <1>1, <1>2, <2>1, <2>2, <3>1, LedgerKept
  <2>3. CASE /\ s = Out /\ at[p].stage = Leave2 /\ Call(p).kind = "wait"
             /\ known' = [known EXCEPT ![p] = @ \cup {Call(p).t}]
    <3>1. /\ known'[p] = known[p] \cup {Call(p).t}
          /\ \A q \in Proc : q # p => known'[q] = known[q]
      BY <2>1, <2>3
    <3>2. Call(p).t \in 1..MaxTransfers
      BY <1>1, <2>3, CallFact
    <3>3. ASSUME NEW i \in Slots, pending'[p][i]
          PROVE  \E t \in 1..MaxTransfers : Owing(p, i, t)'
      <4>1. PICK t \in 1..MaxTransfers : Owing(p, i, t)
        BY <1>1, <1>2, <3>3 DEF Owed
      <4>2. Owing(p, i, t)'
        BY <1>2, <1>5, <2>3, <3>1, <4>1 DEF Owing, Leave2, Enter2, Out
      <4>3. QED
        BY <4>2
    <3>4. \A t \in known'[p] : handle'[p][t] \in Slots
      BY <1>1, <1>2, <2>3, <3>1, NamedFact DEF Handled, Named
    <3>5. known' \in [Proc -> SUBSET (1..MaxTransfers)]
      BY <2>1, <2>3, <3>2
    <3>6. QED
      BY <1>1, <1>2, <1>5, <3>1, <3>3, <3>4, <3>5, LedgerStep
  <2>4. QED
    BY <1>3, <2>2, <2>3
<1>10. Types'
  BY <1>1, <1>2, <1>5, <1>9 DEF Types
<1>11. QED
  BY <1>5, <1>6, <1>7, <1>8, <1>9, <1>10 DEF IInv

(* dai_assign_request_handle gives the transfer the same handle in every   *)
(* process, the first of those that are free.                              *)
LEMMA AssignRequestStep ==
  ASSUME Decomposed, IInv, NEW p \in Proc, AssignRequest(p)
  PROVE  IInv'
<1> DEFINE t == Call(p).t
           i == Min(FreeSlots(p))
<1>1. /\ Types /\ CallsSound /\ Barriers /\ TablesInStep /\ Owed /\ Handled /\ Buffers
  BY DEF IInv
<1>2. /\ Call(p).kind \in {"write", "read"} /\ at[p].stage = Leave1 /\ AllReached(at[p].n, Leave1)
      /\ FreeSlots(p) # {} /\ Goto(p, Work)
      /\ pending' = [pending EXCEPT ![p][i] = TRUE]
      /\ handle' = [handle EXCEPT ![p][t] = i]
      /\ left' = [left EXCEPT ![p] = MyTurn(p, asked[t].sect)]
      /\ UNCHANGED <<prog, buf, last_buf, known, disk, asked>>
  BY DEF AssignRequest, In
<1>3. /\ pending \in [Proc -> [Slots -> BOOLEAN]]
      /\ handle \in [Proc -> [1..MaxTransfers -> Slots \cup {None}]]
      /\ left \in [Proc -> Seq(PieceSet)]
      /\ prog \in Seq(Calls) /\ asked \in Seq(Issues) /\ Len(asked) \in Nat
  BY <1>1 DEF Types
<1>4. handle[p][t] = None /\ t \in 1..MaxTransfers /\ t \in DOMAIN asked
  BY <1>1, <1>2, AboutToAssign, CallFact DEF In
<1>5. i \in Slots
  BY <1>1, <1>2, FreeSlotFact
<1>6. MyTurn(p, asked[t].sect) \in Seq(PieceSet)
  <2>1. asked[t] \in Issues
    BY <1>3, <1>4
  <2>2. PICK x \in Transfers :
          asked[t] = [op |-> x.op, sect |-> x.sect, touched |-> Touched(x.sect)]
    BY <2>1, Zenon DEF Issues
  <2>3. MyTurn(p, x.sect) \in Seq(PieceSet) /\ asked[t].sect = x.sect
    BY <2>2 DEF Decomposed
  <2>4. QED
    BY <2>2, <2>3
<1>7. Advances(p, Work)
  BY <1>2, <1>3 DEF Advances, StagesOf, Enter1, Leave1, Work, Out
<1>8. /\ CallsSound' /\ at' \in [Proc -> [n : 1..2, stage : Enter1..Out]]
      /\ \A q \in Proc : /\ Call(q)'.kind = Call(q).kind /\ Call(q)'.t = Call(q).t
                         /\ at'[q].n = at[q].n /\ (q # p => at'[q].stage = at[q].stage)
      /\ at'[p].stage = Work
  BY <1>1, <1>7, AdvanceFacts
<1>9. Barriers'
  BY <1>1, <1>2, <1>7, AdvanceBarriers DEF Leave1, Work, Leave2
<1> HIDE DEF t, i
<1>10. /\ pending'[p] = [pending[p] EXCEPT ![i] = TRUE]
       /\ handle'[p] = [handle[p] EXCEPT ![t] = i]
       /\ \A q \in Proc : q # p => pending'[q] = pending[q] /\ handle'[q] = handle[q]
                                   /\ left'[q] = left[q]
  BY <1>2, <1>3
<1>11. TablesInStep'
  <2>1. ~ Applied(p) /\ Applied(p)'
    BY <1>2, <1>8 DEF Applied, Leave1, Work
  <2>2. Table(p)' = Effect(Call(p), Table(p))
    <3>1. FreeSlots(p) = {j \in Slots : ~ Table(p).pending[j]}
      BY DEF FreeSlots, Table
    <3>2. Effect(Call(p), Table(p)) = Give(Call(p), Table(p))
      BY <1>2 DEF Effect
    <3>3. Give(Call(p), Table(p)) = [pending |-> [pending[p] EXCEPT ![i] = TRUE],
                                     handle |-> [handle[p] EXCEPT ![t] = i]]
      BY <3>1 DEF Give, i, t, Table
    <3>4. QED
      BY <1>10, <3>2, <3>3 DEF Table
  <2>3. \A q \in Proc : q # p => Table(q)' = Table(q)
    BY <1>10 DEF Table
  <2>4. QED
    BY <1>1, <1>2, <1>7, <2>1, <2>2, <2>3, TablesAdvance
<1>12. Buffers'
  <2>1. ASSUME NEW b \in 1..NBuf
        PROVE  buf[p][b].op # "cover" /\ ~ buf[p][b].mov
    BY <1>1, <1>2 DEF Buffers, Sound, BufferSound, Leave1, Work
  <2>2. Len(asked)' = Len(asked)
    BY <1>2
  <2>3. QED
    BY <1>1, <1>2, <1>3, <1>8, <1>10, <2>1, <2>2, BuffersMove
<1>13. Owed' /\ Handled'
  <2>1. t \notin known[p]
    BY <1>1, <1>4, Numbers DEF Handled
  <2>2. ASSUME NEW j \in Slots, pending'[p][j]
        PROVE  \E u \in 1..MaxTransfers : Owing(p, j, u)'
    <3>1. CASE j = i
      <4>1. PICK u \in 1..MaxTransfers : u = t
        BY <1>4
      <4>2. handle'[p][u] = j
        BY <1>3, <1>4, <1>10, <3>1, <4>1
      <4>3. u \notin known'[p] /\ Call(p)'.kind # "wait"
        BY <1>2, <1>8, <2>1, <4>1
      <4>4. Owing(p, j, u)'
        BY <4>2, <4>3 DEF Owing
      <4>5. QED
        BY <4>4
    <3>2. CASE j # i
      <4>1. pending[p][j]
        BY <1>3, <1>10, <2>2, <3>2
      <4>2. PICK u \in 1..MaxTransfers : Owing(p, j, u)
        BY <1>1, <4>1 DEF Owed
      <4>3. u # t
        BY <1>4, <4>2, Numbers DEF Owing
      <4>4. handle'[p][u] = handle[p][u]
        BY <1>3, <1>10, <4>3
      <4>5. Owing(p, j, u)'
        BY <1>2, <1>8, <4>2, <4>4 DEF Owing
      <4>6. QED
        BY <4>5
    <3>3. QED
      BY <3>1, <3>2
  <2>3. ASSUME NEW u \in known'[p] PROVE handle'[p][u] \in Slots
    <3>1. u \in known[p] /\ u \in 1..MaxTransfers
      BY <1>1, <1>2, <2>3 DEF Types
    <3>2. handle[p][u] \in Slots
      BY <1>1, <3>1 DEF Handled
    <3>3. QED
      BY <1>3, <1>5, <1>10, <3>1, <3>2
  <2>4. QED
    BY <1>1, <1>2, <1>8, <1>10, <2>2, <2>3, LedgerStep
<1>14. Types'
  <2>1. pending' \in [Proc -> [Slots -> BOOLEAN]]
    BY <1>2, <1>3
  <2>2. handle' \in [Proc -> [1..MaxTransfers -> Slots \cup {None}]]
    BY <1>2, <1>3, <1>5
  <2>3. left' \in [Proc -> Seq(PieceSet)]
    BY <1>2, <1>3, <1>6
  <2>4. QED
    BY <1>1, <1>2, <1>8, <2>1, <2>2, <2>3 DEF Types
<1>15. QED
  BY <1>8, <1>9, <1>11, <1>12, <1>13, <1>14 DEF IInv

(* A transfer with no piece left to begin: a write goes to its last        *)
(* pnga_sync, a read is through.                                           *)
LEMMA EndTransferStep ==
  ASSUME IInv, NEW p \in Proc, EndTransfer(p)
  PROVE  IInv'
<1> DEFINE s == IF Call(p).kind = "write" THEN Enter2 ELSE Out
<1>1. /\ Types /\ CallsSound /\ Barriers /\ TablesInStep /\ Owed /\ Handled /\ Buffers
  BY DEF IInv
<1>2. /\ Call(p).kind \in {"write", "read"} /\ at[p].stage = Work /\ left[p] = <<>> /\ Goto(p, s)
      /\ UNCHANGED <<prog, left, buf, last_buf, pending, handle, known, disk, asked>>
  BY DEF EndTransfer, In
<1>3. prog \in Seq(Calls) /\ Len(asked) \in Nat
  BY <1>1 DEF Types
<1>4. Advances(p, s)
  BY <1>2, <1>3 DEF Advances, StagesOf, Enter1, Leave1, Work, Enter2, Out
<1>5. /\ CallsSound' /\ at' \in [Proc -> [n : 1..2, stage : Enter1..Out]]
      /\ \A q \in Proc : /\ Call(q)'.kind = Call(q).kind /\ Call(q)'.t = Call(q).t
                         /\ at'[q].n = at[q].n /\ (q # p => at'[q].stage = at[q].stage)
      /\ at'[p].stage = s
  BY <1>1, <1>4, AdvanceFacts
<1>6. Barriers'
  <2>1. at[p].stage <= s /\ at[p].stage > Leave1
    BY <1>2 DEF Leave1, Work, Enter2, Out
  <2>2. Call(p).kind \notin {"none", "read"} => ~ (s > Leave2)
    BY <1>2 DEF Enter2, Leave2
  <2>3. QED
    BY <1>1, <1>4, <2>1, <2>2, AdvanceBarriers
<1>7. TablesInStep'
  <2>1. Applied(p)' <=> Applied(p)
    BY <1>2, <1>5 DEF Applied, Work, Enter2, Out
  <2>2. \A q \in Proc : Table(q)' = Table(q)
    BY <1>2 DEF Table
  <2>3. QED
    BY <1>1, <1>2, <1>4, <2>1, <2>2, TablesAdvance
<1>8. Buffers'
  <2>1. s # Leave1 /\ s # Work
    BY DEF Leave1, Work, Enter2, Out
  <2>2. \A b \in 1..NBuf : buf[p][b].op # "cover"
    BY <1>1, <1>2 DEF Buffers, Sound, BufferSound
  <2>3. Len(asked)' = Len(asked)
    BY <1>2
  <2>4. QED
    BY <1>1, <1>2, <1>3, <1>5, <2>1, <2>2, <2>3, BuffersMove
<1>9. Owed' /\ Handled'
  BY <1>1, <1>2, <1>5, LedgerKept
<1>10. Types'
  BY <1>1, <1>2, <1>5 DEF Types
<1>11. QED
  BY <1>5, <1>6, <1>7, <1>8, <1>9, <1>10 DEF IInv

(* dra_wait_ has completed the buffers of its request, and frees it.       *)
LEMMA WaitCompletesStep ==
  ASSUME IInv, NEW p \in Proc, WaitCompletes(p)
  PROVE  IInv'
<1> DEFINE t == Call(p).t
           i == handle[p][t]
<1>1. /\ Types /\ CallsSound /\ Barriers /\ TablesInStep /\ Owed /\ Handled /\ Buffers
  BY DEF IInv
<1>2. /\ Call(p).kind = "wait" /\ at[p].stage = Work /\ Goto(p, Enter2)
      /\ pending' = [pending EXCEPT ![p][i] = FALSE]
      /\ UNCHANGED <<prog, left, buf, last_buf, handle, known, disk, asked>>
  BY DEF WaitCompletes, In
<1>3. /\ pending \in [Proc -> [Slots -> BOOLEAN]]
      /\ prog \in Seq(Calls) /\ Len(asked) \in Nat
  BY <1>1 DEF Types
<1>4. Advances(p, Enter2)
  BY <1>2, <1>3 DEF Advances, StagesOf, Enter1, Leave1, Work, Enter2, Out
<1>5. /\ CallsSound' /\ at' \in [Proc -> [n : 1..2, stage : Enter1..Out]]
      /\ \A q \in Proc : /\ Call(q)'.kind = Call(q).kind /\ Call(q)'.t = Call(q).t
                         /\ at'[q].n = at[q].n /\ (q # p => at'[q].stage = at[q].stage)
      /\ at'[p].stage = Enter2
  BY <1>1, <1>4, AdvanceFacts
<1>6. Barriers'
  BY <1>1, <1>2, <1>4, AdvanceBarriers DEF Leave1, Work, Enter2, Leave2
<1> HIDE DEF t, i
<1>7. /\ pending'[p] = [pending[p] EXCEPT ![i] = FALSE]
      /\ \A q \in Proc : q # p => pending'[q] = pending[q]
  BY <1>2, <1>3
<1>8. TablesInStep'
  <2>1. ~ Applied(p) /\ Applied(p)'
    BY <1>2, <1>5 DEF Applied, Work, Enter2
  <2>2. Effect(Call(p), Table(p)) = Clear(Table(p), i)
    BY <1>2 DEF Effect, Table, i, t
  <2>3. Table(p)' = Effect(Call(p), Table(p))
    BY <1>2, <1>7, <2>2 DEF Clear, Table
  <2>4. \A q \in Proc : q # p => Table(q)' = Table(q)
    BY <1>2, <1>7 DEF Table
  <2>5. QED
    BY <1>1, <1>2, <1>4, <2>1, <2>3, <2>4, TablesAdvance
<1>9. Buffers'
  <2>1. \A b \in 1..NBuf : buf[p][b].op # "cover"
    BY <1>1, <1>2 DEF Buffers, Sound, BufferSound
  <2>2. Len(asked)' = Len(asked)
    BY <1>2
  <2>3. QED
    BY <1>1, <1>2, <1>3, <1>5, <2>1, <2>2, BuffersMove DEF Enter2, Leave1, Work
<1>10. Owed' /\ Handled'
  <2>1. ASSUME NEW j \in Slots, pending'[p][j]
        PROVE  \E u \in 1..MaxTransfers : Owing(p, j, u)'
    <3>1. pending[p][j] /\ j # i
      BY <1>3, <1>7, <2>1
    <3>2. PICK u \in 1..MaxTransfers : Owing(p, j, u)
      BY <1>1, <3>1 DEF Owed
    <3>3. u # t
      BY <3>1, <3>2 DEF Owing, i
    <3>4. Owing(p, j, u)'
      BY <1>2, <1>5, <3>2, <3>3 DEF Owing, t
    <3>5. QED
      BY <3>4
  <2>2. \A u \in known'[p] : handle'[p][u] \in Slots
    BY <1>1, <1>2 DEF Handled
  <2>3. QED
    BY <1>1, <1>2, <1>5, <1>7, <2>1, <2>2, LedgerStep
<1>11. Types'
  <2>1. pending' \in [Proc -> [Slots -> BOOLEAN]]
    BY <1>2, <1>3
  <2>2. QED
    BY <1>1, <1>2, <1>5, <2>1 DEF Types
<1>12. QED
  BY <1>5, <1>6, <1>8, <1>9, <1>10, <1>11 DEF IInv

(* A process in a probe looks at all buffers of a request at once.         *)
LEMMA BuffersProbe ==
  ASSUME Types, Buffers, NEW p \in Proc, NEW g \in [1..NBuf -> Buffer],
         buf' = [buf EXCEPT ![p] = g], UNCHANGED <<left, asked>>,
         \A q \in Proc : q # p => Call(q)'.kind = Call(q).kind /\ at'[q].stage = at[q].stage,
         Call(p)'.kind \notin {"write", "read"},
         \A b \in 1..NBuf :
           /\ g[b].op # "cover" /\ g[b].piece = buf[p][b].piece /\ g[b].t = buf[p][b].t
           /\ BufferSound(g[b], Call(p).kind, at[p].stage, left[p], Len(asked))
  PROVE  /\ Buffers' /\ buf' \in [Proc -> [1..NBuf -> Buffer]]
         /\ \A q \in Proc, b \in 1..NBuf :
              buf'[q][b].piece = buf[q][b].piece /\ buf'[q][b].t = buf[q][b].t
<1>1. buf \in [Proc -> [1..NBuf -> Buffer]] /\ Len(asked) \in Nat
  BY DEF Types
<1>2. buf'[p] = g /\ \A q \in Proc : q # p => buf'[q] = buf[q]
  BY <1>1
<1>3. ASSUME NEW q \in Proc, NEW b \in 1..NBuf PROVE Sound(q, b)'
  <2>1. CASE q = p
    <3>1. BufferSound(g[b], Call(p)'.kind, at'[p].stage, left'[p], Len(asked)')
      BY <1>1, SoundMoves
    <3>2. QED
      BY <1>2, <2>1, <3>1 DEF Sound
  <2>2. CASE q # p
    <3>1. BufferSound(buf[q][b], Call(q).kind, at[q].stage, left[q], Len(asked))
      BY DEF Buffers, Sound
    <3>2. QED
      BY <1>2, <2>2, <3>1 DEF Sound
  <2>3. QED
    BY <2>1, <2>2
<1>4. ASSUME NEW q \in Proc, NEW b \in 1..NBuf, NEW c \in 1..NBuf,
             buf'[q][b].op = "cover", buf'[q][c].op = "cover"
      PROVE  b = c
  <2>1. q # p
    BY <1>2, <1>4
  <2>2. QED
    BY <1>2, <1>4, <2>1 DEF Buffers
<1>5. buf' \in [Proc -> [1..NBuf -> Buffer]]
  BY <1>1
<1>6. \A q \in Proc, b \in 1..NBuf :
        buf'[q][b].piece = buf[q][b].piece /\ buf'[q][b].t = buf[q][b].t
  BY <1>2
<1>7. QED
  BY <1>3, <1>4, <1>5, <1>6 DEF Buffers

(* A probe looks at the buffers of its request, and goes to the pnga_gop   *)
(* with what it has found.                                                 *)
LEMMA ProbeScanStep ==
  ASSUME IInv, NEW p \in Proc, ProbeScan(p)
  PROVE  /\ IInv'
         /\ \A q \in Proc, b \in 1..NBuf :
              buf'[q][b].piece = buf[q][b].piece /\ buf'[q][b].t = buf[q][b].t
<1> DEFINE n == at[p].n
           bufs == OfCall(p, Probing(p))
           done == prog[n].done /\ \A b \in bufs : Probed(buf[p][b])
           g == [b \in 1..NBuf |-> IF b \in bufs THEN AfterProbe(buf[p][b]) ELSE buf[p][b]]
<1>1. /\ Types /\ CallsSound /\ Barriers /\ TablesInStep /\ Owed /\ Handled /\ Buffers
  BY DEF IInv
<1>2. /\ buf \in [Proc -> [1..NBuf -> Buffer]] /\ prog \in Seq(Calls) /\ n \in DOMAIN prog
  BY <1>1, CallFact DEF Types
<1>3. /\ Call(p).kind \in {"probe", "flick"} /\ at[p].stage = Work /\ Goto(p, Leave2)
      /\ UNCHANGED <<left, last_buf, pending, handle, known, disk, asked>>
  BY DEF ProbeScan, In
<1>4. prog' = [prog EXCEPT ![n] = [prog[n] EXCEPT !.done = done]]
  <2>1. prog' = [prog EXCEPT ![n].done = @ /\ \A b \in bufs : Probed(buf[p][b])]
    BY DEF ProbeScan
  <2> HIDE DEF bufs
  <2>2. QED
    BY <1>2, <2>1
<1>5. buf' = [buf EXCEPT ![p] = g]
  <2>1. buf' = [buf EXCEPT ![p] = [b \in 1..NBuf |->
                     IF b \in bufs THEN AfterProbe(@[b]) ELSE @[b]]]
    BY DEF ProbeScan
  <2> HIDE DEF bufs
  <2>2. QED
    BY <1>2, <2>1
<1>6. done \in BOOLEAN
  <2>1. prog[n] \in Calls
    BY <1>2
  <2>2. QED
    BY <2>1 DEF Calls
<1> HIDE DEF done
<1>7. /\ prog' \in Seq(Calls) /\ Len(prog') = Len(prog)
      /\ \A k \in DOMAIN prog : /\ prog'[k].kind = prog[k].kind /\ prog'[k].t = prog[k].t
                                /\ prog'[k].slot = prog[k].slot
      /\ \A k \in DOMAIN prog : k # n => prog'[k] = prog[k]
  <2>1. prog[n] \in Calls
    BY <1>2
  <2> DEFINE c == [prog[n] EXCEPT !.done = done]
  <2>2. /\ c \in Calls /\ c.kind = prog[n].kind /\ c.t = prog[n].t /\ c.slot = prog[n].slot
    BY <1>6, <2>1 DEF Calls
  <2>3. prog' = [prog EXCEPT ![n] = c]
    BY <1>4
  <2> HIDE DEF c
  <2>4. prog' \in Seq(Calls) /\ Len(prog') = Len(prog)
    BY <1>2, <2>2, <2>3
  <2>5. \A k \in DOMAIN prog : prog'[k] = IF k = n THEN c ELSE prog[k]
    BY <1>2, <2>3
  <2>6. QED
    BY <2>2, <2>4, <2>5
<1>8. Advances(p, Leave2)
  BY <1>3, <1>7 DEF Advances, StagesOf, Work, Leave2, Out
<1>9. /\ CallsSound' /\ at' \in [Proc -> [n : 1..2, stage : Enter1..Out]]
      /\ Len(prog') \in 1..2
      /\ \A q \in Proc : /\ Call(q)'.kind = Call(q).kind /\ Call(q)'.t = Call(q).t
                         /\ at'[q].n = at[q].n /\ (q # p => at'[q].stage = at[q].stage)
      /\ at'[p].stage = Leave2
  BY <1>1, <1>8, AdvanceFacts
<1>10. Barriers'
  BY <1>1, <1>3, <1>8, AdvanceBarriers DEF Leave1, Work, Leave2
<1>11. TablesInStep'
  <2>1. \A q \in Proc : Table(q)' = Table(q)
    BY <1>3 DEF Table
  <2>2. QED
    BY <1>1, <1>3, <1>7, <1>8, <2>1, TablesProbe
<1>12. ASSUME NEW b \in 1..NBuf
       PROVE  /\ g[b] \in Buffer /\ g[b].op # "cover"
              /\ g[b].piece = buf[p][b].piece /\ g[b].t = buf[p][b].t
              /\ BufferSound(g[b], Call(p).kind, at[p].stage, left[p], Len(asked))
  <2>1. buf[p][b] \in Buffer
    BY <1>2
  <2>2. BufferSound(buf[p][b], Call(p).kind, at[p].stage, left[p], Len(asked))
    BY <1>1 DEF Buffers, Sound
  <2>3. buf[p][b].op # "cover"
    BY <1>3, <2>2 DEF BufferSound
  <2>4. CASE b \in bufs
    <3>1. g[b] = AfterProbe(buf[p][b])
      BY <2>4
    <3> HIDE DEF g, bufs
    <3>2. QED
      BY <2>1, <2>2, <2>3, <3>1, ProbedSound
  <2>5. CASE b \notin bufs
    <3>1. g[b] = buf[p][b]
      BY <2>5
    <3> HIDE DEF g, bufs
    <3>2. QED
      BY <2>1, <2>2, <2>3, <3>1
  <2>6. QED
    BY <2>4, <2>5
<1>13. g \in [1..NBuf -> Buffer]
  <2>1. g = [b \in 1..NBuf |-> g[b]]
    OBVIOUS
  <2> HIDE DEF g
  <2>2. QED
    BY <2>1, <1>12
<1> HIDE DEF g, bufs
<1>14. /\ Buffers' /\ buf' \in [Proc -> [1..NBuf -> Buffer]]
       /\ \A q \in Proc, b \in 1..NBuf :
            buf'[q][b].piece = buf[q][b].piece /\ buf'[q][b].t = buf[q][b].t
  <2>1. Call(p)'.kind \notin {"write", "read"}
    BY <1>3, <1>9
  <2>2. UNCHANGED <<left, asked>>
    BY <1>3
  <2>3. \A q \in Proc : q # p => Call(q)'.kind = Call(q).kind /\ at'[q].stage = at[q].stage
    BY <1>9
  <2>4. QED
    BY <1>1, <1>5, <1>12, <1>13, <2>1, <2>2, <2>3, BuffersProbe
<1>15. Owed' /\ Handled'
  <2>1. \A q \in Proc :
          Call(q)'.kind = "wait" /\ at'[q].stage \in {Enter2, Leave2}
            => /\ Call(q).kind = "wait" /\ at[q].stage \in {Enter2, Leave2}
               /\ Call(q)'.t = Call(q).t
    BY <1>3, <1>9
  <2>2. UNCHANGED <<pending, handle, known>>
    BY <1>3
  <2>3. QED
    BY <1>1, <2>1, <2>2, LedgerKept
<1>16. Types'
  BY <1>1, <1>3, <1>7, <1>9, <1>14 DEF Types
<1>17. QED
  BY <1>9, <1>10, <1>11, <1>14, <1>15, <1>16 DEF IInv

(* After the pnga_gop a probe frees its request everywhere, or starts the  *)
(* callbacks of the process's buffers.                                     *)
LEMMA ProbeEndsStep ==
  ASSUME IInv, NEW p \in Proc, ProbeEnds(p)
  PROVE  /\ IInv'
         /\ \A q \in Proc, b \in 1..NBuf :
              buf'[q][b].piece = buf[q][b].piece /\ buf'[q][b].t = buf[q][b].t
<1> DEFINE t == Call(p).t
           i == Probing(p)
           g == [b \in 1..NBuf |-> IF b \in CallbackOf(p)
                                   THEN [buf[p][b] EXCEPT !.callback = FALSE, !.mov = TRUE]
                                   ELSE buf[p][b]]
<1>1. /\ Types /\ CallsSound /\ Barriers /\ TablesInStep /\ Owed /\ Handled /\ Buffers
  BY DEF IInv
<1>2. /\ buf \in [Proc -> [1..NBuf -> Buffer]] /\ prog \in Seq(Calls) /\ Len(asked) \in Nat
      /\ pending \in [Proc -> [Slots -> BOOLEAN]]
      /\ known \in [Proc -> SUBSET (1..MaxTransfers)]
  BY <1>1 DEF Types
<1>3. /\ Call(p).kind \in {"probe", "flick"} /\ at[p].stage = Leave2 /\ Goto(p, Out)
      /\ AllReached(at[p].n, Leave2)
      /\ pending' = IF Call(p).done THEN [pending EXCEPT ![p][i] = FALSE] ELSE pending
      /\ known' = IF Call(p).done /\ Call(p).kind = "probe"
                  THEN [known EXCEPT ![p] = @ \cup {t}] ELSE known
      /\ UNCHANGED <<prog, left, last_buf, handle, disk, asked>>
  BY DEF ProbeEnds, In, Agreed, PendingAfterProbe
<1>4. buf' = buf \/ buf' = [buf EXCEPT ![p] = g]
  <2>1. buf' = IF Call(p).done THEN buf
               ELSE [buf EXCEPT ![p] = [b \in 1..NBuf |->
                    IF b \in CallbackOf(p)
                    THEN [@[b] EXCEPT !.callback = FALSE, !.mov = TRUE] ELSE @[b]]]
    BY DEF ProbeEnds
  <2>2. QED
    BY <1>2, <2>1
<1>5. Advances(p, Out)
  BY <1>2, <1>3 DEF Advances, StagesOf, Work, Leave2, Out
<1>6. /\ CallsSound' /\ at' \in [Proc -> [n : 1..2, stage : Enter1..Out]]
      /\ \A q \in Proc : /\ Call(q)'.kind = Call(q).kind /\ Call(q)'.t = Call(q).t
                         /\ at'[q].n = at[q].n /\ (q # p => at'[q].stage = at[q].stage)
      /\ at'[p].stage = Out
  BY <1>1, <1>5, AdvanceFacts
<1>7. Barriers'
  BY <1>1, <1>3, <1>5, AdvanceBarriers DEF Leave1, Work, Leave2, Out
<1>8. Call(p).kind = "probe" => t \in 1..MaxTransfers /\ handle[p][t] \in Slots /\ i = handle[p][t]
  BY <1>1, CallFact, NamedFact DEF Named, Probing
<1>9. Call(p).kind = "flick" => i = Call(p).slot
  BY DEF Probing
<1>10. ASSUME NEW b \in 1..NBuf
       PROVE  /\ g[b] \in Buffer /\ g[b].op # "cover"
              /\ g[b].piece = buf[p][b].piece /\ g[b].t = buf[p][b].t
              /\ BufferSound(g[b], Call(p).kind, at[p].stage, left[p], Len(asked))
  <2> DEFINE x == buf[p][b]
             new == [x EXCEPT !.callback = FALSE, !.mov = TRUE]
  <2>1. x \in Buffer
    BY <1>2
  <2>2. BufferSound(x, Call(p).kind, at[p].stage, left[p], Len(asked))
    BY <1>1 DEF Buffers, Sound
  <2>3. x.op # "cover"
    BY <1>3, <2>2 DEF BufferSound
  <2>4. CASE b \in CallbackOf(p)
    <3>1. g[b] = new /\ CallbackDue(x) /\ x.io = "none"
      BY <2>4 DEF CallbackOf
    <3> HIDE DEF g, x
    <3>2. /\ new \in Buffer /\ new.io = x.io /\ new.active = x.active /\ new.call = x.call
          /\ ~ new.callback /\ new.op = x.op /\ new.align = x.align
          /\ new.mov /\ new.piece = x.piece /\ new.where = x.where
          /\ new.data = x.data /\ new.t = x.t
      BY <2>1 DEF Buffer
    <3> HIDE DEF new
    <3>3. (Placed(x) => Placed(new)) /\ x.op = "read" /\ x.align /\ x.callback
      BY <3>1, <3>2 DEF Placed, CallbackDue
    <3>4. BufferSound(new, Call(p).kind, at[p].stage, left[p], Len(asked))
      BY <1>3, <2>2, <3>1, <3>2, <3>3 DEF BufferSound
    <3>5. QED
      BY <2>3, <3>1, <3>2, <3>4 DEF x
  <2>5. CASE b \notin CallbackOf(p)
    <3>1. g[b] = x
      BY <2>5
    <3> HIDE DEF g
    <3>2. QED
      BY <2>1, <2>2, <2>3, <3>1
  <2>6. QED
    BY <2>4, <2>5
<1>11. g \in [1..NBuf -> Buffer]
  <2>1. g = [b \in 1..NBuf |-> g[b]]
    OBVIOUS
  <2> HIDE DEF g
  <2>2. QED
    BY <2>1, <1>10
<1> HIDE DEF g, t, i
<1>12. /\ Buffers' /\ buf' \in [Proc -> [1..NBuf -> Buffer]]
       /\ \A q \in Proc, b \in 1..NBuf :
            buf'[q][b].piece = buf[q][b].piece /\ buf'[q][b].t = buf[q][b].t
  <2>1. Call(p)'.kind \notin {"write", "read"} /\ UNCHANGED <<left, asked>>
    BY <1>3, <1>6
  <2>2. \A q \in Proc : q # p => Call(q)'.kind = Call(q).kind /\ at'[q].stage = at[q].stage
    BY <1>6
  <2>3. CASE buf' = [buf EXCEPT ![p] = g]
    BY <1>1, <1>10, <1>11, <2>1, <2>2, <2>3, BuffersProbe
  <2>4. CASE buf' = buf
    <3>1. \A b \in 1..NBuf : buf[p][b].op # "cover"
      BY <1>1, <1>3 DEF Buffers, Sound, BufferSound
    <3>2. Len(asked)' = Len(asked)
      BY <1>3
    <3>3. Buffers'
      BY <1>1, <1>2, <2>1, <2>2, <2>4, <3>1, <3>2, BuffersMove
    <3>4. QED
      BY <1>2, <2>4, <3>3
  <2>5. QED
    BY <1>4, <2>3, <2>4
<1>13. CASE ~ Call(p).done
  <2>1. pending' = pending /\ known' = known
    BY <1>3, <1>13
  <2>2. Applied(p)' /\ ~ Applied(p)
    BY <1>3, <1>6 DEF Applied, Leave2, Out
  <2>3. Effect(Call(p), Table(p)) = Table(p)
    BY <1>3, <1>13 DEF Effect
  <2>4. \A q \in Proc : Table(q)' = Table(q)
    BY <1>3, <2>1 DEF Table
  <2>5. TablesInStep'
    BY <1>1, <1>3, <1>5, <2>2, <2>3, <2>4, TablesAdvance
  <2>6. Owed' /\ Handled'
    <3>1. \A q \in Proc :
            Call(q)'.kind = "wait" /\ at'[q].stage \in {Enter2, Leave2}
              => /\ Call(q).kind = "wait" /\ at[q].stage \in {Enter2, Leave2}
                 /\ Call(q)'.t = Call(q).t
      BY <1>3, <1>6
    <3>2. QED
      BY <1>1, <1>3, <2>1, <3>1, LedgerKept
  <2>7. Types'
    BY <1>1, <1>3, <1>6, <1>12, <2>1 DEF Types
  <2>8. QED
    BY <1>6, <1>7, <1>12, <2>5, <2>6, <2>7 DEF IInv
<1>14. CASE Call(p).done
  <2>1. /\ pending' = [pending EXCEPT ![p][i] = FALSE]
        /\ known' = IF Call(p).kind = "probe" THEN [known EXCEPT ![p] = @ \cup {t}] ELSE known
    BY <1>3, <1>14
  <2>2. /\ pending'[p] = [pending[p] EXCEPT ![i] = FALSE]
        /\ known'[p] = IF Call(p).kind = "probe" THEN known[p] \cup {t} ELSE known[p]
        /\ \A q \in Proc : q # p => pending'[q] = pending[q] /\ known'[q] = known[q]
    BY <1>2, <2>1
  <2>3. TablesInStep'
    <3>1. Applied(p)' /\ ~ Applied(p)
      BY <1>3, <1>6 DEF Applied, Leave2, Out
    <3>2. Effect(Call(p), Table(p)) = Clear(Table(p), i)
      <4>1. CASE Call(p).kind = "probe"
        BY <1>8, <1>14, <4>1 DEF Effect, Table, t
      <4>2. CASE Call(p).kind = "flick"
        BY <1>9, <1>14, <4>2 DEF Effect
      <4>3. QED
        BY <1>3, <4>1, <4>2
    <3>3. Table(p)' = Effect(Call(p), Table(p))
      BY <1>3, <2>2, <3>2 DEF Clear, Table
    <3>4. \A q \in Proc : q # p => Table(q)' = Table(q)
      BY <1>3, <2>2 DEF Table
    <3>5. QED
      BY <1>1, <1>3, <1>5, <3>1, <3>3, <3>4, TablesAdvance
  <2>4. ASSUME NEW j \in Slots, pending'[p][j]
        PROVE  \E u \in 1..MaxTransfers : Owing(p, j, u)'
    <3>1. pending[p][j] /\ j # i
      BY <1>2, <2>2, <2>4
    <3>2. PICK u \in 1..MaxTransfers : Owing(p, j, u)
      BY <1>1, <3>1 DEF Owed
    <3>3. u \notin known'[p]
      BY <1>8, <2>2, <3>1, <3>2 DEF Owing
    <3>4. Owing(p, j, u)'
      BY <1>3, <1>6, <3>2, <3>3 DEF Owing
    <3>5. QED
      BY <3>4
  <2>5. \A u \in known'[p] : handle'[p][u] \in Slots
    BY <1>1, <1>3, <1>8, <2>2 DEF Handled
  <2>6. Owed' /\ Handled'
    BY <1>1, <1>3, <1>6, <2>2, <2>4, <2>5, LedgerStep
  <2>7. Types'
    <3>1. pending' \in [Proc -> [Slots -> BOOLEAN]]
      BY <1>2, <2>1
    <3>2. known' \in [Proc -> SUBSET (1..MaxTransfers)]
      BY <1>2, <1>8, <2>1
    <3>3. QED
      BY <1>1, <1>3, <1>6, <1>12, <3>1, <3>2 DEF Types
  <2>8. QED
    BY <1>6, <1>7, <1>12, <2>3, <2>6, <2>7 DEF IInv
<1>15. QED
  BY <1>13, <1>14

(* A process takes up a call that another has made, or its own.            *)
LEMMA TakesStep ==
  ASSUME IInv, NEW p \in Proc, NEW calls, Takes(p, calls), UNCHANGED <<last_buf, disk>>
  PROVE  IInv'
<1>1. /\ Types /\ CallsSound /\ Barriers /\ TablesInStep /\ Owed /\ Handled /\ Buffers
  BY DEF IInv
<1>2. /\ asked' \in Seq(Issues) /\ Len(asked') \in 0..MaxTransfers
      /\ UNCHANGED <<left, buf, pending, handle, known>>
  BY DEF Takes
<1>3. /\ prog' \in Seq(Calls) /\ at' \in [Proc -> [n : 1..2, stage : Enter1..Out]]
      /\ at'[p].stage = FirstStage(calls[2])
      /\ \A q \in Proc : q # p => at'[q].stage = at[q].stage
      /\ \A q \in Proc : q # p => Call(q)' = Call(q)
  BY <1>1, TakesFacts
<1>4. /\ CallsSound' /\ Len(prog)' \in 1..2 /\ Barriers' /\ TablesInStep' /\ Buffers'
  BY <1>1, TakesCalls, TakesBarriers, TakesTables, TakesBuffers
<1>5. Owed' /\ Handled'
  <2>1. at'[p].stage \notin {Enter2, Leave2}
    BY <1>3 DEF FirstStage, Enter1, Work, Enter2, Leave2
  <2>2. QED
    BY <1>1, <1>2, <1>3, <2>1, LedgerKept
<1>6. Types'
  BY <1>1, <1>2, <1>3, <1>4 DEF Types
<1>7. QED
  BY <1>4, <1>5, <1>6 DEF IInv

(* The call another process has made.                                      *)
LEMMA FollowStep ==
  ASSUME IInv, NEW p \in Proc, Follow(p)
  PROVE  IInv'
<1>1. Types
  BY DEF IInv
<1>2. Takes(p, prog)
  BY <1>1 DEF Follow, Takes, Types
<1>3. QED
  BY <1>2, TakesStep DEF Follow

(* A wait, a probe, or the next probe of a flick: of a transfer that has   *)
(* been issued, or of a request that is pending.                           *)
LEMMA CallNextTakes ==
  ASSUME Types, NEW p \in Proc, CallNext(p)
  PROVE  \E c : Takes(p, Append(prog, c)) /\ c.kind \notin {"write", "read"}
<1>2. PICK c \in NextCalls(p) : TakeUp(p, Append(prog, c))
  BY DEF CallNext
<1>3. /\ at[p].stage = Out /\ at[p].n = Len(prog)
      /\ UNCHANGED <<left, buf, last_buf, pending, handle, known, disk, asked>>
  BY DEF CallNext
<1>4. FlickSlots(p) \subseteq Slots
  <2> DEFINE i == IF Call(p).kind = "flick" THEN Call(p).slot ELSE 0
             next == FlickNext(p, i)
  <2>1. FlickSlots(p) = IF next = {} THEN {} ELSE {Min(next)}
    BY DEF FlickSlots
  <2>2. next \subseteq Slots /\ next \subseteq Nat
    BY Numbers DEF FlickNext
  <2> HIDE DEF next
  <2>3. next # {} => Min(next) \in next
    BY <2>2, MinFact
  <2>4. QED
    BY <2>1, <2>2, <2>3
<1>5. Outstanding(p) \subseteq DOMAIN asked /\ DOMAIN asked \subseteq 1..MaxTransfers
  BY Numbers DEF Outstanding, Types
<1>6. \/ \E i \in FlickSlots(p) :
           c = [kind |-> "flick", t |-> None, slot |-> i, done |-> TRUE]
      \/ \E k \in {"wait", "probe"}, t \in Outstanding(p) :
           c = [kind |-> k, t |-> t, slot |-> None, done |-> TRUE]
  BY <1>2 DEF NextCalls
<1>7. NewCall(p, c) /\ c.kind \notin {"write", "read"}
  <2>1. CASE \E i \in FlickSlots(p) :
               c = [kind |-> "flick", t |-> None, slot |-> i, done |-> TRUE]
    <3>1. PICK i \in FlickSlots(p) :
            c = [kind |-> "flick", t |-> None, slot |-> i, done |-> TRUE]
      BY <2>1
    <3>2. QED
      BY <1>3, <1>4, <3>1 DEF NewCall, Calls, Kinds
  <2>2. CASE \E k \in {"wait", "probe"}, t \in Outstanding(p) :
               c = [kind |-> k, t |-> t, slot |-> None, done |-> TRUE]
    <3>1. PICK k \in {"wait", "probe"}, t \in Outstanding(p) :
            c = [kind |-> k, t |-> t, slot |-> None, done |-> TRUE]
      BY <2>2
    <3>2. QED
      BY <1>3, <1>5, <3>1 DEF NewCall, Calls, Kinds
  <2>3. QED
    BY <1>6, <2>1, <2>2
<1>8. Takes(p, Append(prog, c))
  BY <1>2, <1>3, <1>7 DEF Takes, Types
<1>9. QED
  BY <1>7, <1>8

(* So the invariant is kept when such a call is taken up.                  *)
LEMMA CallNextStep ==
  ASSUME IInv, NEW p \in Proc, CallNext(p)
  PROVE  IInv'
<1>1. PICK c : Takes(p, Append(prog, c))
  BY CallNextTakes DEF IInv
<1>2. QED
  BY <1>1, TakesStep DEF CallNext

(* A transfer is issued: with fewer than MaxReq outstanding there will be  *)
(* a request handle for it.                                                *)
LEMMA IssueTakes ==
  ASSUME Decomposed, IInv, NEW p \in Proc, Issue(p), NEW x \in Transfers, NEW c,
         MayIssue(p, x),
         asked' = Append(asked, [op |-> x.op, sect |-> x.sect, touched |-> Touched(x.sect)]),
         c = [kind |-> x.op, t |-> Len(asked) + 1, slot |-> None, done |-> TRUE],
         TakeUp(p, Append(prog, c))
  PROVE  Takes(p, Append(prog, c))
<1>1. /\ Types /\ CallsSound /\ TablesInStep /\ Owed
  BY DEF IInv
<1> DEFINE t == Len(asked) + 1
<1>3. /\ at[p].stage = Out /\ at[p].n = Len(prog)
      /\ UNCHANGED <<left, buf, last_buf, pending, handle, known, disk>>
  BY DEF Issue, TakeUp
<1>5. PICK y \in Issues :
        y = [op |-> x.op, sect |-> x.sect, touched |-> Touched(x.sect)]
  BY DEF Issues
<1>6. /\ asked \in Seq(Issues) /\ Len(asked) \in Nat /\ MaxTransfers \in Nat
      /\ Len(asked) < MaxTransfers /\ Cardinality(Outstanding(p)) < MaxReq
  BY <1>1, Numbers DEF Types, MayIssue
<1>7. asked' = Append(asked, y)
  BY <1>5
<1>8. asked' \in Seq(Issues) /\ Len(asked') = Len(asked) + 1 /\ Len(asked') \in 0..MaxTransfers
  BY <1>6, <1>7
<1>9. x.op \in {"write", "read"}
  BY DEF Decomposed
<1>10. FreeSlots(p) # {}
  BY <1>1, <1>3, <1>6, RoomForOneMore
<1>11. NewCall(p, c)
  <2>1. t \in 1..MaxTransfers
    BY <1>6
  <2>2. c \in Calls /\ c.kind \in {"write", "read"} /\ c.t = t
    BY <1>9, <2>1 DEF Calls, Kinds
  <2>3. QED
    BY <1>8, <1>10, <2>2 DEF NewCall
<1>12. QED
  BY <1>3, <1>8, <1>11 DEF Takes

(* So the invariant is kept when a transfer is issued.                     *)
LEMMA IssueStep ==
  ASSUME Decomposed, IInv, NEW p \in Proc, Issue(p)
  PROVE  IInv'
<1>1. PICK x \in Transfers :
        /\ MayIssue(p, x)
        /\ asked' = Append(asked, [op |-> x.op, sect |-> x.sect, touched |-> Touched(x.sect)])
        /\ TakeUp(p, Append(prog, [kind |-> x.op, t |-> Len(asked) + 1, slot |-> None,
                                  done |-> TRUE]))
  BY DEF Issue
<1>2. PICK c : c = [kind |-> x.op, t |-> Len(asked) + 1, slot |-> None, done |-> TRUE]
  OBVIOUS
<1>3. Takes(p, Append(prog, c))
  BY <1>1, <1>2, IssueTakes
<1>4. QED
  BY <1>3, TakesStep DEF Issue

(* Work on a buffer, the call and the table of requests as they are.       *)
LEMMA WorkStep ==
  ASSUME IInv, UNCHANGED <<prog, at, pending, handle, known, asked>>, Buffers',
         buf' \in [Proc -> [1..NBuf -> Buffer]], left' \in [Proc -> Seq(PieceSet)],
         last_buf' \in [Proc -> 1..NBuf], disk' \in [Touched(Whole) -> Values]
  PROVE  IInv'
<1>1. /\ Types /\ CallsSound /\ Barriers /\ TablesInStep /\ Owed /\ Handled
  BY DEF IInv
<1>2. \A q \in Proc : Call(q)' = Call(q)
  BY DEF Call
<1>3. Types'
  BY <1>1 DEF Types
<1>4. CallsSound'
  BY <1>1, <1>2 DEF CallsSound
<1>5. Barriers'
  BY <1>1 DEF Barriers, Passes, AllReached
<1>6. TablesInStep'
  <2>1. PICK T \in [0..2 -> Tables] : TablesChain(T)
    BY <1>1 DEF TablesInStep
  <2>2. \A q \in Proc : Table(q)' = Table(q) /\ Count(q)' = Count(q)
    BY <1>2 DEF Table, Count, Applied
  <2>3. TablesChain(T)'
    BY <2>1, <2>2 DEF TablesChain
  <2>4. QED
    BY <2>3 DEF TablesInStep
<1>7. Owed' /\ Handled'
  BY <1>1, <1>2, LedgerKept
<1>8. QED
  BY <1>3, <1>4, <1>5, <1>6, <1>7 DEF IInv

(* Where a step leaves a buffer in flight, it leaves it its transfer and   *)
(* its piece.                                                              *)
Undisturbed ==
  \A p \in Proc, b \in 1..NBuf :
    buf[p][b].io \in {"read", "write"} \/ buf[p][b].mov
      => <<buf'[p][b].t, buf'[p][b].piece>> = <<buf[p][b].t, buf[p][b].piece>>

(* The steps that work on one buffer.                                      *)
LEMMA BufferSteps ==
  ASSUME Decomposed, IInv, NEW p \in Proc,
         \/ BeginPiece(p) \/ EndPiece(p) \/ CompleteBuf(p)
         \/ \E n \in 1..NBuf : DiskDone(p, n) \/ MoveDone(p, n)
  PROVE  IInv' /\ Undisturbed
<1>1. /\ Types /\ CallsSound /\ TablesInStep /\ Buffers /\ Named
  BY NamedFact DEF IInv
<1>2. /\ left \in [Proc -> Seq(PieceSet)] /\ last_buf \in [Proc -> 1..NBuf]
      /\ disk \in [Touched(Whole) -> Values]
  BY <1>1 DEF Types
<1>3. CASE BeginPiece(p)
  <2>1. UNCHANGED <<prog, at, pending, handle, known, asked>>
    BY <1>3 DEF BeginPiece
  <2>2. /\ Buffers' /\ buf' \in [Proc -> [1..NBuf -> Buffer]]
        /\ left' \in [Proc -> Seq(PieceSet)] /\ disk' \in [Touched(Whole) -> Values]
        /\ last_buf' \in [Proc -> 1..NBuf]
        /\ \E n \in 1..NBuf :
             /\ \A q \in Proc, b \in 1..NBuf : q # p \/ b # n => buf'[q][b] = buf[q][b]
             /\ buf[p][n].io \notin {"read", "write"} /\ ~ buf[p][n].mov
    BY <1>1, <1>3, BeginPieceStep
  <2>3. Undisturbed
    BY <2>2 DEF Undisturbed
  <2>4. QED
    BY <2>1, <2>2, <2>3, WorkStep
<1>4. CASE EndPiece(p)
  <2>1. UNCHANGED <<prog, at, last_buf, pending, handle, known, asked>>
    BY <1>4 DEF EndPiece
  <2>2. /\ Buffers' /\ buf' \in [Proc -> [1..NBuf -> Buffer]]
        /\ left' \in [Proc -> Seq(PieceSet)] /\ disk' \in [Touched(Whole) -> Values]
        /\ \E n \in 1..NBuf :
             /\ \A q \in Proc, b \in 1..NBuf : q # p \/ b # n => buf'[q][b] = buf[q][b]
             /\ buf'[p][n].piece = buf[p][n].piece /\ buf'[p][n].t = buf[p][n].t
    BY <1>1, <1>4, EndPieceStep
  <2>3. Undisturbed
    BY <2>2 DEF Undisturbed
  <2>4. QED
    BY <1>2, <2>1, <2>2, <2>3, WorkStep
<1>5. CASE CompleteBuf(p)
  <2>1. UNCHANGED <<prog, at, left, last_buf, pending, handle, known, disk, asked>>
    BY <1>5 DEF CompleteBuf
  <2>2. /\ Buffers' /\ buf' \in [Proc -> [1..NBuf -> Buffer]]
        /\ \A q \in Proc, b \in 1..NBuf :
             buf'[q][b].piece = buf[q][b].piece /\ buf'[q][b].t = buf[q][b].t
    BY <1>1, <1>5, CompleteBufStep
  <2>3. Undisturbed
    BY <2>2 DEF Undisturbed
  <2>4. QED
    BY <1>2, <2>1, <2>2, <2>3, WorkStep
<1>6. CASE \E n \in 1..NBuf : DiskDone(p, n)
  <2>1. PICK n \in 1..NBuf : DiskDone(p, n)
    BY <1>6
  <2>2. UNCHANGED <<prog, at, left, last_buf, pending, handle, known, asked>>
    BY <2>1 DEF DiskDone
  <2>3. /\ Buffers' /\ buf' \in [Proc -> [1..NBuf -> Buffer]]
        /\ disk' \in [Touched(Whole) -> Values]
        /\ \A q \in Proc, b \in 1..NBuf :
             buf'[q][b].piece = buf[q][b].piece /\ buf'[q][b].t = buf[q][b].t
    BY <1>1, <2>1, DiskDoneStep
  <2>4. Undisturbed
    BY <2>3 DEF Undisturbed
  <2>5. QED
    BY <1>2, <2>2, <2>3, <2>4, WorkStep
<1>7. CASE \E n \in 1..NBuf : MoveDone(p, n)
  <2>1. PICK n \in 1..NBuf : MoveDone(p, n)
    BY <1>7
  <2>2. UNCHANGED <<prog, at, left, last_buf, pending, handle, known, disk, asked>>
    BY <2>1 DEF MoveDone
  <2>3. /\ Buffers' /\ buf' \in [Proc -> [1..NBuf -> Buffer]]
        /\ \A q \in Proc, b \in 1..NBuf :
             buf'[q][b].piece = buf[q][b].piece /\ buf'[q][b].t = buf[q][b].t
    BY <1>1, <2>1, MoveDoneStep
  <2>4. Undisturbed
    BY <2>3 DEF Undisturbed
  <2>5. QED
    BY <1>2, <2>2, <2>3, <2>4, WorkStep
<1>8. QED
  BY <1>3, <1>4, <1>5, <1>6, <1>7

-----------------------------------------------------------------------------
(* The theorems.                                                           *)

(* The program starts with no call made, no request and no buffer in use.  *)
LEMMA Initially == Init => IInv
<1> SUFFICES ASSUME Init PROVE IInv
  OBVIOUS
<1> DEFINE c == [kind |-> "none", t |-> None, slot |-> None, done |-> TRUE]
           free == [pending |-> [i \in Slots |-> FALSE],
                    handle |-> [t \in 1..MaxTransfers |-> None]]
<1>1. /\ prog = <<c>> /\ asked = <<>>
      /\ at = [p \in Proc |-> [n |-> 1, stage |-> Out]]
      /\ left = [p \in Proc |-> <<>>]
      /\ buf = [p \in Proc |-> [b \in 1..NBuf |-> FreeBuf]]
      /\ last_buf = [p \in Proc |-> NBuf]
      /\ pending = [p \in Proc |-> [i \in Slots |-> FALSE]]
      /\ handle = [p \in Proc |-> [t \in 1..MaxTransfers |-> None]]
      /\ known = [p \in Proc |-> {}]
      /\ disk = [x \in Touched(Whole) |-> 0]
  BY DEF Init
<1>2. c \in Calls /\ c.kind = "none"
  BY DEF Calls, Kinds
<1>3. /\ FreeBuf \in Buffer /\ ~ FreeBuf.active /\ FreeBuf.op = "none"
      /\ FreeBuf.io = "none" /\ ~ FreeBuf.callback /\ ~ FreeBuf.mov
  BY DEF FreeBuf, Buffer, Ops, Wheres, Datas
<1> HIDE DEF c
<1>4. prog \in Seq(Calls) /\ Len(prog) = 1 /\ DOMAIN prog = {1} /\ prog[1] = c
  BY <1>1, <1>2
<1>5. Types
  <2>1. asked \in Seq(Issues) /\ Len(asked) \in 0..MaxTransfers
    BY <1>1, Numbers
  <2>2. at \in [Proc -> [n : 1..2, stage : Enter1..Out]]
    BY <1>1 DEF Enter1, Out
  <2>3. left \in [Proc -> Seq(PieceSet)]
    <3>1. <<>> \in Seq(PieceSet)
      OBVIOUS
    <3>2. QED
      BY <1>1, <3>1
  <2>4. buf \in [Proc -> [1..NBuf -> Buffer]]
    BY <1>1, <1>3
  <2>5. last_buf \in [Proc -> 1..NBuf]
    BY <1>1, Numbers
  <2>6. /\ pending \in [Proc -> [Slots -> BOOLEAN]]
        /\ handle \in [Proc -> [1..MaxTransfers -> Slots \cup {None}]]
        /\ known \in [Proc -> SUBSET (1..MaxTransfers)]
    BY <1>1
  <2>7. disk \in [Touched(Whole) -> Values]
    BY <1>1, Numbers
  <2>8. QED
    BY <1>4, <2>1, <2>2, <2>3, <2>4, <2>5, <2>6, <2>7 DEF Types
<1>6. \A p \in Proc : at[p].n = 1 /\ at[p].stage = Out /\ Call(p) = c
  BY <1>1, <1>4 DEF Call
<1>7. CallsSound
  <2>1. \A p \in Proc : at[p].stage \in StagesOf(Call(p).kind)
    BY <1>2, <1>6 DEF StagesOf
  <2>2. QED
    BY <1>2, <1>4, <1>6, <2>1 DEF CallsSound
<1>8. Barriers
  BY <1>2, <1>4 DEF Barriers
<1>9. TablesInStep
  <2>1. free \in Tables
    BY DEF Tables
  <2>2. \A p \in Proc : Table(p) = free /\ Count(p) = 1
    BY <1>1, <1>2, <1>6 DEF Table, Count, Applied
  <2>3. free.handle = [t \in 1..MaxTransfers |-> None]
    OBVIOUS
  <2> HIDE DEF free
  <2>4. PICK T \in [0..2 -> Tables] : \A k \in 0..2 : T[k] = free
    <3>1. [k \in 0..2 |-> free] \in [0..2 -> Tables]
      BY <2>1
    <3>2. QED
      BY <3>1
  <2>5. Effect(c, free) = free
    BY <1>2 DEF Effect
  <2>6. TablesChain(T)
    <3>1. T[1] = free /\ T[0] = free /\ DOMAIN asked = {}
      BY <1>1, <2>4
    <3>2. \A k \in DOMAIN prog :
           /\ T[k] = Effect(prog[k], T[k - 1])
           /\ \A t \in 1..MaxTransfers : t > Len(asked) => T[k].handle[t] = None
           /\ prog[k].kind \notin {"write", "read", "wait", "probe"}
      <4> SUFFICES ASSUME NEW k \in DOMAIN prog
                   PROVE  /\ T[k] = Effect(prog[k], T[k - 1])
                          /\ \A t \in 1..MaxTransfers : T[k].handle[t] = None
                          /\ prog[k].kind = "none"
        OBVIOUS
      <4>1. k = 1 /\ prog[k] = c /\ T[k] = free /\ T[k - 1] = free
        BY <1>4, <3>1
      <4>2. T[k] = Effect(prog[k], T[k - 1])
        BY <2>5, <4>1
      <4>3. \A t \in 1..MaxTransfers : T[k].handle[t] = None
        BY <2>3, <4>1
      <4>4. QED
        BY <1>2, <4>1, <4>2, <4>3
    <3>3. QED
      BY <1>4, <2>2, <3>1, <3>2 DEF TablesChain
  <2>7. QED
    BY <2>6 DEF TablesInStep
<1>10. Owed /\ Handled
  BY <1>1 DEF Owed, Handled
<1>11. Buffers
  <2>1. \A p \in Proc, b \in 1..NBuf : buf[p][b] = FreeBuf
    BY <1>1
  <2>2. QED
    BY <1>3, <2>1 DEF Buffers, Sound, BufferSound
<1>12. QED
  BY <1>5, <1>7, <1>8, <1>9, <1>10, <1>11 DEF IInv

(* Every step keeps the invariant, and leaves the buffers in flight alone. *)
LEMMA Inductive ==
  ASSUME Decomposed, IInv, [Next]_vars
  PROVE  IInv' /\ Undisturbed
<1>1. CASE UNCHANGED vars
  <2>1. UNCHANGED <<prog, at, left, buf, last_buf, pending, handle, known, disk, asked>>
    BY <1>1 DEF vars
  <2>2. Types /\ Buffers
    BY DEF IInv
  <2>3. Types'
    BY <2>1, <2>2 DEF Types
  <2>4. Buffers'
    BY <2>1, <2>2 DEF Buffers, Sound, Call
  <2>5. Undisturbed
    BY <2>1 DEF Undisturbed
  <2>6. IInv'
    BY <2>1, <2>3, <2>4, WorkStep DEF Types
  <2>7. QED
    BY <2>5, <2>6
<1>2. ASSUME NEW p \in Proc, Steps(p) \/ CallNext(p) \/ Issue(p)
      PROVE  IInv' /\ Undisturbed
  <2>1. CASE BeginPiece(p) \/ EndPiece(p) \/ CompleteBuf(p)
    BY <2>1, BufferSteps
  <2>2. CASE ProbeScan(p) \/ ProbeEnds(p)
    BY <2>2, ProbeScanStep, ProbeEndsStep DEF Undisturbed
  <2>3. CASE Sync(p) \/ AssignRequest(p) \/ EndTransfer(p) \/ WaitCompletes(p)
    <3>1. buf' = buf
      BY <2>3 DEF Sync, AssignRequest, EndTransfer, WaitCompletes
    <3>2. Undisturbed
      BY <3>1 DEF Undisturbed
    <3>3. QED
      BY <2>3, <3>2, SyncStep, AssignRequestStep, EndTransferStep, WaitCompletesStep
  <2>4. CASE Follow(p) \/ CallNext(p) \/ Issue(p)
    <3>1. buf' = buf
      BY <2>4 DEF Follow, CallNext, Issue
    <3>2. Undisturbed
      BY <3>1 DEF Undisturbed
    <3>3. QED
      BY <2>4, <3>2, FollowStep, CallNextStep, IssueStep
  <2>5. QED
    BY <1>2, <2>1, <2>2, <2>3, <2>4 DEF Steps
<1>3. ASSUME NEW p \in Proc, NEW n \in 1..NBuf, DiskDone(p, n) \/ MoveDone(p, n)
      PROVE  IInv' /\ Undisturbed
  BY <1>3, BufferSteps
<1>4. CASE Finished
  BY <1>1, <1>4 DEF Finished
<1>5. QED
  BY <1>1, <1>2, <1>3, <1>4 DEF Next

(* The inductive invariant holds throughout every run.                     *)
THEOREM Invariance ==
  ASSUME Decomposed
  PROVE  Spec => []IInv
<1>1. IInv /\ [Next]_vars => IInv'
  BY Inductive
<1>2. QED
  BY Initially, <1>1, PTL DEF Spec

(* A buffer in use belongs to a request and to a transfer that was issued. *)
THEOREM TypeCorrect ==
  ASSUME Decomposed
  PROVE  Spec => []TypeOK
<1>1. IInv => TypeOK
  <2> SUFFICES ASSUME IInv PROVE TypeOK
    OBVIOUS
  <2>1. Types /\ CallsSound /\ Buffers
    BY DEF IInv
  <2>2. buf \in [Proc -> [1..NBuf -> Buffer]]
    BY <2>1 DEF Types
  <2>3. ASSUME NEW p \in Proc, NEW b \in 1..NBuf
        PROVE  /\ buf[p][b].io \in {"none", "read", "write", "ready"}
               /\ buf[p][b].active => buf[p][b].call \in Slots /\ buf[p][b].t \in DOMAIN asked
    <3>1. buf[p][b] \in Buffer
      BY <2>2
    <3>2. DOMAIN asked = 1..Len(asked)
      BY <2>1 DEF Types
    <3>3. QED
      BY <2>1, <3>1, <3>2 DEF Buffer, Buffers, Sound, BufferSound
  <2>4. \A p \in Proc : at[p].n <= Len(prog)
    BY <2>1 DEF CallsSound, Types
  <2>5. QED
    BY <2>1, <2>3, <2>4 DEF TypeOK, Types, Values
<1>2. QED
  BY Invariance, <1>1, PTL

(* The tables of requests neither fall apart nor run full:                 *)
(* dai_assign_request_handle finds a free handle, and the same in every    *)
(* process.  A buffer that is given back has no disk operation and no      *)
(* callback left.                                                          *)
THEOREM TableSafety ==
  ASSUME Decomposed
  PROVE  Spec => []TablesSound
<1>1. IInv => TablesSound
  <2> SUFFICES ASSUME IInv PROVE TablesSound
    OBVIOUS
  <2>1. Types /\ CallsSound /\ TablesInStep /\ Buffers
    BY DEF IInv
  <2>2. PICK T \in [0..2 -> Tables] : TablesChain(T)
    BY <2>1 DEF TablesInStep
  <2>3. /\ DOMAIN asked \subseteq 1..MaxTransfers
        /\ Len(prog) \in 1..2 /\ DOMAIN prog = 1..Len(prog)
    BY <2>1, Numbers DEF Types
  <2>4. ASSUME NEW t \in DOMAIN asked, NEW j \in 0..Len(prog), NEW k \in 0..Len(prog),
               T[j].handle[t] # None, T[k].handle[t] # None
        PROVE  T[j].handle[t] = T[k].handle[t]
    <3>1. t \in 1..MaxTransfers
      BY <2>3
    <3>0. \A m \in DOMAIN prog :
            T[m].handle[t] = T[m - 1].handle[t] \/ T[m - 1].handle[t] = None
      BY <2>1, <2>2, <3>1, ChainFact
    <3>2. T[1].handle[t] = T[0].handle[t] \/ T[0].handle[t] = None
      <4>1. 1 \in DOMAIN prog /\ 1 - 1 = 0
        BY <2>3
      <4>2. QED
        BY <3>0, <4>1
    <3>3. Len(prog) = 2 => T[2].handle[t] = T[1].handle[t] \/ T[1].handle[t] = None
      <4>1. Len(prog) = 2 => 2 \in DOMAIN prog
        BY <2>3
      <4>2. 2 - 1 = 1
        OBVIOUS
      <4>3. QED
        BY <3>0, <4>1, <4>2
    <3>4. j \in 0..2 /\ k \in 0..2
      BY <2>3
    <3>5. CASE T[1].handle[t] = None
      BY <2>3, <2>4, <3>2, <3>3, <3>4, <3>5
    <3>6. CASE T[1].handle[t] # None
      BY <2>3, <2>4, <3>2, <3>3, <3>4, <3>6
    <3>7. QED
      BY <3>5, <3>6
  <2>5. ASSUME NEW p \in Proc
        PROVE  Count(p) \in 0..Len(prog) /\ handle[p] = T[Count(p)].handle
    <3>1. Table(p) = T[Count(p)]
      BY <2>2 DEF TablesChain
    <3>2. handle[p] = Table(p).handle
      BY DEF Table
    <3>3. Count(p) \in 0..Len(prog)
      BY <2>1, <2>3, CountFact
    <3>4. QED
      BY <3>1, <3>2, <3>3
  <2>6. ASSUME NEW p \in Proc, NEW q \in Proc, NEW t \in DOMAIN asked,
               None \notin {handle[p][t], handle[q][t]}
        PROVE  handle[p][t] = handle[q][t]
    <3>1. T[Count(p)].handle[t] # None /\ T[Count(q)].handle[t] # None
      BY <2>5, <2>6
    <3>2. QED
      BY <2>4, <2>5, <3>1
  <2>7. ASSUME NEW p \in Proc, In(p, {"write", "read"}, Leave1)
        PROVE  FreeSlots(p) # {}
    BY <2>1, <2>7, AboutToAssign
  <2>8. InactiveIsQuiet
    BY <2>1 DEF InactiveIsQuiet, Buffers, Sound, BufferSound
  <2>9. QED
    BY <2>6, <2>7, <2>8 DEF TablesSound, HandlesAgree, Issued
<1>2. QED
  BY Invariance, <1>1, PTL

(* No buffer is given to another piece while the disk works on it or a put *)
(* to the global array is under way from it.                               *)
THEOREM NoReuse ==
  ASSUME Decomposed
  PROVE  Spec => NoReuseInFlight
<1>1. IInv /\ [Next]_vars
        => [\A p \in Proc, b \in 1..NBuf :
              buf[p][b].io \in {"read", "write"} \/ buf[p][b].mov
                => <<buf'[p][b].t, buf'[p][b].piece>> = <<buf[p][b].t, buf[p][b].piece>>]_vars
  BY Inductive DEF Undisturbed
<1>2. QED
  BY Invariance, <1>1, PTL DEF Spec, NoReuseInFlight

-----------------------------------------------------------------------------
(* What is said to be complete is done: the invariant.                     *)

(* The pieces of transfer t whose turn is p's, and whether p is at work on *)
(* a transfer.                                                             *)
Mine(p, t) == ToSet(MyTurn(p, asked[t].sect))
Moving(p) == In(p, {"write", "read"}, Work)

(* A buffer whose data has yet to come to the disk or the global array.    *)
Busy(x) ==
  \/ x.op = "write" /\ x.io = "write"
  \/ x.op = "read" /\ (x.mov \/ x.callback)

(* Process p has yet to move piece y of transfer t: it has not come to the *)
(* transfer, or not to the piece, or a buffer is busy with it.             *)
Unmoved(p, t, y) ==
  \/ handle[p][t] = None
  \/ Moving(p) /\ Call(p).t = t /\ y \in ToSet(left[p])
  \/ \E b \in 1..NBuf : buf[p][b].t = t /\ buf[p][b].piece = y /\ Busy(buf[p][b])

(* Process p has no more to do for transfer t.                             *)
Settled(p, t) ==
  /\ handle[p][t] # None
  /\ Moving(p) /\ Call(p).t = t => left[p] = <<>>
  /\ \A b \in 1..NBuf : buf[p][b].t = t => ~ Busy(buf[p][b])

(* The buffer has the value for element e that the file should have.       *)
Right(x, e) == x.data[e] = file[x.where[e]]

(* The variables that only the properties read.                            *)
Books ==
  /\ file \in [Touched(Whole) -> Values]
  /\ got = [t \in 1..MaxTransfers |-> got[t]]
  /\ want = [t \in 1..MaxTransfers |-> want[t]]

(* A call is of the kind its transfer was asked for, and a process has its *)
(* own pieces of it left.                                                  *)
Asked ==
  /\ \A k \in DOMAIN prog :
       prog[k].kind \in {"write", "read"} => asked[prog[k].t].op = prog[k].kind
  /\ \A p \in Proc : Moving(p) => ToSet(left[p]) \subseteq Mine(p, Call(p).t)

(* A transfer said to be complete is settled everywhere: so it is for a    *)
(* process that is through with a wait for it or with a probe that finds   *)
(* it done, and between the two the process has no active buffer of it.    *)
Tells(c) == c.kind = "wait" \/ (c.kind = "probe" /\ c.done)
Reached(p, n, stage) == at[p].n > n \/ (at[p].n = n /\ at[p].stage >= stage)

Settlement ==
  /\ Complete \subseteq Issued
  /\ \A t \in Complete, p \in Proc : Settled(p, t)
  /\ \A k \in DOMAIN prog, p \in Proc :
       Tells(prog[k]) /\ Reached(p, k, Leave2) => Settled(p, prog[k].t)
  /\ \A p \in Proc, b \in 1..NBuf :
       In(p, {"wait"}, Enter2) /\ buf[p][b].t = Call(p).t => ~ buf[p][b].active

(* What a buffer of p carries.  Its transfer has been issued and has given *)
(* it its handle; the data it has to deliver is right.                     *)
Carries(p, x) ==
  /\ x.op # "none" =>
       /\ x.t \in DOMAIN asked /\ x.call = handle[p][x.t] /\ x.call # None
       /\ x.piece \in Mine(p, x.t)
       /\ x.op # "cover" => asked[x.t].op = x.op
  /\ x.op = "cover" => x.t = Call(p).t /\ left[p] # <<>> /\ x.piece = Head(left[p])
  /\ x.op = "read" /\ x.io = "read" => x.callback /\ ~ x.mov
  /\ x.op = "cover" /\ x.io # "read" =>
       \A e \in Elements(x.piece.chunk) :
         Right(x, e) \/ (e \in Elements(x.piece.part) /\ asked[x.t].op = "write")
  /\ x.op = "write" /\ x.io = "write" => \A e \in Elements(x.piece.chunk) : Right(x, e)
  /\ x.op = "read" /\ Busy(x) /\ x.io # "read" =>
       \A e \in Elements(x.piece.part) : Right(x, e)

Carried == \A p \in Proc, b \in 1..NBuf : Carries(p, buf[p][b])

(* A write that is not complete shares no chunk with another transfer.     *)
Apart ==
  \A t, u \in Issued \ Complete :
    t # u /\ asked[t].op = "write" => asked[t].touched \intersect asked[u].touched = {}

(* Until a transfer is complete, what it writes is what the file should    *)
(* have, and what it should read is what the file should have.             *)
Expected ==
  \A t \in Issued :
    /\ asked[t].op = "write" /\ t \notin Complete =>
         \A z \in PlacesOf(asked[t].sect) : file[z[2]] = t
    /\ asked[t].op = "read" => \A w \in want[t] :
         /\ \E z \in PlacesOf(asked[t].sect) : z[1] = w[1]
         /\ t \notin Complete =>
              \A z \in PlacesOf(asked[t].sect) : z[1] = w[1] => w[2] = file[z[2]]

(* The place of element e of the part of some piece of transfer t is l.    *)
Reaches(t, y, l) == \E e \in Elements(y.part) : l = Location(Array, y.chunk, e)

(* A place on disk is as it should be, or some process has yet to write it. *)
WritesOwed ==
  \A l \in DOMAIN disk :
    disk[l] = file[l]
      \/ \E t \in Issued, p \in Proc : asked[t].op = "write" /\
           \E y \in Mine(p, t) : Reaches(t, y, l) /\ Unmoved(p, t, y)

(* A piece that is read is in the global array, or some process has yet to *)
(* put it there.                                                           *)
Delivered(t, y) ==
  \A w \in want[t] : w[1] \in Elements(y.part) => got[t][w[1]] = w[2]

ReadsOwed ==
  \A t \in Issued, p \in Proc : asked[t].op = "read" =>
    \A y \in Mine(p, t) : Unmoved(p, t, y) \/ Delivered(t, y)

DInv ==
  /\ Books /\ Asked /\ Settlement /\ Carried /\ Apart /\ Expected /\ WritesOwed
  /\ ReadsOwed

-----------------------------------------------------------------------------
(* Pieces and places.                                                      *)

(* The pieces of a transfer that has been issued.                          *)
LEMMA PieceFact ==
  ASSUME Decomposed, WellPlaced, Types, NEW t \in DOMAIN asked, NEW p \in Proc,
         NEW y \in Mine(p, t)
  PROVE  /\ y \in PieceSet /\ asked[t].op \in {"write", "read"}
         /\ Elements(y.part) \subseteq Elements(y.chunk)
         /\ Elements(y.part) \subseteq Cells
         /\ \A e \in Elements(y.chunk) :
              /\ Location(Array, y.chunk, e) \in asked[t].touched
              /\ Location(Array, y.chunk, e) \in Touched(Whole)
         /\ \A e \in Elements(y.part) :
              <<e, Location(Array, y.chunk, e)>> \in PlacesOf(asked[t].sect)
<1>1. PICK x \in Transfers :
        asked[t] = [op |-> x.op, sect |-> x.sect, touched |-> Touched(x.sect)]
  <2>1. asked[t] \in Issues
    BY DEF Types
  <2>2. QED
    BY <2>1 DEF Issues
<1> DEFINE pieces == ToSet(Pieces(Array, x.sect))
<1>2. y \in pieces
  BY <1>1 DEF WellPlaced, Mine
<1>3. /\ Elements(y.part) \subseteq Elements(y.chunk) \intersect Cells
  BY <1>2 DEF WellPlaced
<1>4. y \in PieceSet
  BY <1>2 DEF PieceSet
<1>5. \A e \in Elements(y.chunk) : Location(Array, y.chunk, e) \in Touched(Whole)
  BY <1>4 DEF Decomposed
<1>6. \A e \in Elements(y.chunk) : Location(Array, y.chunk, e) \in Touched(x.sect)
  BY <1>2 DEF Touched
<1>7. \A e \in Elements(y.part) : <<e, Location(Array, y.chunk, e)>> \in PlacesOf(x.sect)
  BY <1>2 DEF PlacesOf
<1>8. x.op \in {"write", "read"}
  BY DEF Decomposed
<1>9. QED
  BY <1>1, <1>3, <1>4, <1>5, <1>6, <1>7, <1>8

(* The elements of a transfer are those of the processes' pieces of it.    *)
LEMMA PlacesFact ==
  ASSUME WellPlaced, Types, NEW t \in DOMAIN asked, NEW z \in PlacesOf(asked[t].sect)
  PROVE  \E p \in Proc : \E y \in Mine(p, t) : \E e \in Elements(y.part) :
           z = <<e, Location(Array, y.chunk, e)>>
<1>1. PICK x \in Transfers :
        asked[t] = [op |-> x.op, sect |-> x.sect, touched |-> Touched(x.sect)]
  <2>1. asked[t] \in Issues
    BY DEF Types
  <2>2. QED
    BY <2>1 DEF Issues
<1>2. PICK y \in ToSet(Pieces(Array, x.sect)) : \E e \in Elements(y.part) :
        z = <<e, Location(Array, y.chunk, e)>>
  BY <1>1 DEF PlacesOf
<1>3. PICK p \in Proc : y \in ToSet(MyTurn(p, x.sect))
  BY <1>2 DEF WellPlaced
<1>4. QED
  BY <1>1, <1>2, <1>3 DEF Mine

(* An element has one place, whichever transfer moves it.                  *)
LEMMA OnePlace ==
  ASSUME Decomposed, WellPlaced, Types, NEW t \in DOMAIN asked, NEW u \in DOMAIN asked,
         NEW p \in Proc, NEW q \in Proc, NEW y \in Mine(p, t), NEW z \in Mine(q, u),
         NEW e \in Elements(y.chunk), NEW f \in Elements(z.chunk)
  PROVE  e = f <=> Location(Array, y.chunk, e) = Location(Array, z.chunk, f)
<1> DEFINE pairs == UNION {PlacedWith(Array, x.sect) : x \in Transfers}
<1>1. ASSUME NEW v \in DOMAIN asked, NEW r \in Proc, NEW a \in Mine(r, v),
             NEW g \in Elements(a.chunk)
      PROVE  <<g, Location(Array, a.chunk, g)>> \in pairs
  <2>1. PICK x \in Transfers :
          asked[v] = [op |-> x.op, sect |-> x.sect, touched |-> Touched(x.sect)]
    <3>1. asked[v] \in Issues
      BY DEF Types
    <3>2. QED
      BY <3>1 DEF Issues
  <2>2. a \in ToSet(Pieces(Array, x.sect))
    BY <2>1 DEF WellPlaced, Mine
  <2>3. <<g, Location(Array, a.chunk, g)>> \in PlacedWith(Array, x.sect)
    BY <2>2 DEF PlacedWith
  <2>4. QED
    BY <2>3
<1>2. OneToOne(pairs)
  BY DEF WellPlaced
<1>3. /\ <<e, Location(Array, y.chunk, e)>> \in pairs
      /\ <<f, Location(Array, z.chunk, f)>> \in pairs
  BY <1>1
<1> HIDE DEF pairs
<1>4. QED
  BY <1>2, <1>3 DEF OneToOne

(* A chunk holds no element of its transfer but those of its own part.     *)
LEMMA OwnPart ==
  ASSUME WellPlaced, Types, NEW t \in DOMAIN asked, NEW p \in Proc, NEW q \in Proc,
         NEW y \in Mine(p, t), NEW z \in Mine(q, t),
         NEW e \in Elements(y.chunk), e \in Elements(z.part)
  PROVE  e \in Elements(y.part)
<1>1. PICK x \in Transfers :
        asked[t] = [op |-> x.op, sect |-> x.sect, touched |-> Touched(x.sect)]
  <2>1. asked[t] \in Issues
    BY DEF Types
  <2>2. QED
    BY <2>1 DEF Issues
<1>2. y \in ToSet(Pieces(Array, x.sect)) /\ z \in ToSet(Pieces(Array, x.sect))
  BY <1>1 DEF WellPlaced, Mine
<1>3. QED
  BY <1>2 DEF WellPlaced

-----------------------------------------------------------------------------
(* What the invariant says of a state.                                     *)

(* A settled process has nothing left to move.                             *)
LEMMA SettledFact ==
  ASSUME NEW p, NEW t, NEW y, Settled(p, t)
  PROVE  ~ Unmoved(p, t, y)
<1>1. left[p] = <<>> => ToSet(left[p]) = {}
  BY DEF ToSet
<1>2. QED
  BY <1>1 DEF Settled, Unmoved

(* A busy buffer, or one whose chunk is read to be changed, is of a        *)
(* transfer that is not complete.                                          *)
LEMMA OpenBuffer ==
  ASSUME Buffers, Settlement, Carried, NEW p \in Proc, NEW b \in 1..NBuf,
         Busy(buf[p][b]) \/ buf[p][b].op = "cover"
  PROVE  buf[p][b].t \in Issued /\ buf[p][b].t \notin Complete
<1> DEFINE x == buf[p][b]
<1>1. Carries(p, x)
  BY DEF Carried
<1>2. x.op # "none"
  BY DEF Busy
<1>3. x.t \in Issued
  BY <1>1, <1>2 DEF Carries, Issued
<1>4. ~ Settled(p, x.t)
  <2>1. CASE Busy(x)
    BY <2>1 DEF Settled
  <2>2. CASE x.op = "cover"
    <3>1. Moving(p)
      BY <2>2 DEF Buffers, Sound, BufferSound, Moving, In
    <3>2. x.t = Call(p).t /\ left[p] # <<>>
      BY <1>1, <2>2 DEF Carries
    <3>3. QED
      BY <3>1, <3>2 DEF Settled
  <2>3. QED
    BY <2>1, <2>2
<1>5. QED
  BY <1>3, <1>4 DEF Settlement

(* Where nobody has yet to write, the disk has what the file should have:  *)
(* a chunk that is read, for a read or to be changed in part, is right.    *)
LEMMA DiskRight ==
  ASSUME Decomposed, WellPlaced, Types, Settlement, Apart, WritesOwed,
         NEW t \in Issued, t \notin Complete, NEW p \in Proc, NEW y \in Mine(p, t),
         NEW e \in Elements(y.chunk), asked[t].op = "read" \/ e \notin Elements(y.part)
  PROVE  disk[Location(Array, y.chunk, e)] = file[Location(Array, y.chunk, e)]
<1> DEFINE l == Location(Array, y.chunk, e)
<1>0. Issued = DOMAIN asked
  BY DEF Issued
<1>1. l \in asked[t].touched /\ l \in DOMAIN disk
  BY <1>0, PieceFact DEF Types
<1> SUFFICES ASSUME disk[l] # file[l] PROVE FALSE
  OBVIOUS
<1>2. PICK u \in Issued, q \in Proc : asked[u].op = "write" /\
        \E z \in Mine(q, u) : Reaches(u, z, l) /\ Unmoved(q, u, z)
  BY <1>1 DEF WritesOwed
<1>3. PICK z \in Mine(q, u) : Reaches(u, z, l) /\ Unmoved(q, u, z)
  BY <1>2
<1>4. PICK f \in Elements(z.part) : l = Location(Array, z.chunk, f)
  BY <1>3 DEF Reaches
<1>5. f \in Elements(z.chunk) /\ l \in asked[u].touched
  BY <1>0, <1>4, PieceFact
<1>6. u \notin Complete
  BY <1>3, SettledFact DEF Settlement
<1>7. CASE u # t
  BY <1>1, <1>2, <1>5, <1>6, <1>7 DEF Apart
<1>8. CASE u = t
  <2>1. e = f
    BY <1>0, <1>4, <1>5, OnePlace
  <2>2. z \in Mine(q, t)
    BY <1>8
  <2>3. e \in Elements(y.part)
    BY <1>0, <1>4, <2>1, <2>2, OwnPart
  <2>4. QED
    BY <1>2, <1>8, <2>3
<1>9. QED
  BY <1>7, <1>8

(* What a transfer that is not complete writes is what the file should     *)
(* have.                                                                   *)
LEMMA FileRight ==
  ASSUME Decomposed, WellPlaced, Types, Expected, NEW t \in Issued, t \notin Complete,
         NEW p \in Proc, NEW y \in Mine(p, t), NEW e \in Elements(y.part),
         asked[t].op = "write"
  PROVE  file[Location(Array, y.chunk, e)] = t
<1>1. <<e, Location(Array, y.chunk, e)>> \in PlacesOf(asked[t].sect)
  BY PieceFact DEF Issued
<1>2. QED
  BY <1>1 DEF Expected

(* A piece that is read from a right chunk is delivered.                   *)
LEMMA WantRight ==
  ASSUME Decomposed, WellPlaced, Types, Expected, NEW t \in Issued, t \notin Complete,
         NEW p \in Proc, NEW y \in Mine(p, t), asked[t].op = "read",
         NEW w \in want[t], w[1] \in Elements(y.part)
  PROVE  w[2] = file[Location(Array, y.chunk, w[1])]
<1>1. <<w[1], Location(Array, y.chunk, w[1])>> \in PlacesOf(asked[t].sect)
  BY PieceFact DEF Issued
<1>2. QED
  BY <1>1 DEF Expected

-----------------------------------------------------------------------------
(* Data that comes to the disk or to the global array.                     *)

(* A chunk that is right makes the disk right where it is written.         *)
LEMMA ChunkArrives ==
  ASSUME NEW x, Placed(x), \A e \in Elements(x.piece.chunk) : Right(x, e)
  PROVE  /\ DOMAIN WithChunk(x) = DOMAIN disk
         /\ \A l \in DOMAIN disk : WithChunk(x)[l] = disk[l] \/ WithChunk(x)[l] = file[l]
         /\ \A e \in Elements(x.piece.chunk) :
              LET l == Location(Array, x.piece.chunk, e)
              IN l \in DOMAIN disk => WithChunk(x)[l] = file[l]
<1>1. /\ DOMAIN x.where = Elements(x.piece.chunk)
      /\ \A e \in DOMAIN x.where : x.where[e] = Location(Array, x.piece.chunk, e)
  BY DEF Placed, Placing
<1>2. WithChunk(x) = [l \in DOMAIN disk |->
        IF \E e \in DOMAIN x.where : x.where[e] = l
        THEN x.data[CHOOSE e \in DOMAIN x.where : x.where[e] = l] ELSE disk[l]]
  BY DEF WithChunk
<1>3. ASSUME NEW l \in DOMAIN disk, \E e \in DOMAIN x.where : x.where[e] = l
      PROVE  WithChunk(x)[l] = file[l]
  <2> DEFINE f == CHOOSE e \in DOMAIN x.where : x.where[e] = l
  <2>1. f \in DOMAIN x.where /\ x.where[f] = l
    BY <1>3
  <2>2. WithChunk(x)[l] = x.data[f]
    BY <1>2, <1>3
  <2> HIDE DEF f
  <2>3. QED
    BY <1>1, <2>1, <2>2 DEF Right
<1>4. ASSUME NEW l \in DOMAIN disk, ~ \E e \in DOMAIN x.where : x.where[e] = l
      PROVE  WithChunk(x)[l] = disk[l]
  BY <1>2, <1>4
<1>5. QED
  BY <1>1, <1>2, <1>3, <1>4

(* A piece that is right makes the global array right where it is stored,  *)
(* and takes nothing away that was right.                                  *)
LEMMA PieceArrives ==
  ASSUME Decomposed, WellPlaced, Types, Books, Expected, NEW p \in Proc, NEW x,
         x.t \in Issued, x.t \notin Complete, asked[x.t].op = "read",
         x.piece \in Mine(p, x.t), Placed(x),
         \A e \in Elements(x.piece.part) : Right(x, e),
         got' = Stored(x), UNCHANGED <<asked, want>>
  PROVE  /\ got' = [t \in 1..MaxTransfers |-> got'[t]]
         /\ Delivered(x.t, x.piece)'
         /\ \A u \in Issued, q \in Proc : \A z \in Mine(q, u) :
              Delivered(u, z) => Delivered(u, z)'
<1> DEFINE new == [e \in Cells |-> IF e \in Elements(x.piece.part)
                                   THEN x.data[e] ELSE got[x.t][e]]
<1>0. Issued = DOMAIN asked /\ Issued \subseteq 1..MaxTransfers
  BY Numbers DEF Issued, Types
<1>1. got' = [got EXCEPT ![x.t] = new]
  BY DEF Stored
<1>2. /\ got' = [t \in 1..MaxTransfers |-> got'[t]]
      /\ got'[x.t] = new /\ \A t \in 1..MaxTransfers : t # x.t => got'[t] = got[t]
  BY <1>0, <1>1 DEF Books
<1>3. ASSUME NEW w \in want[x.t], w[1] \in Elements(x.piece.part)
      PROVE  got'[x.t][w[1]] = w[2]
  <2>1. w[1] \in Cells /\ w[1] \in Elements(x.piece.chunk)
    BY <1>0, <1>3, PieceFact
  <2>2. x.where[w[1]] = Location(Array, x.piece.chunk, w[1])
    BY <2>1 DEF Placed, Placing
  <2>3. x.data[w[1]] = w[2]
    BY <1>3, <2>2, WantRight DEF Right
  <2>4. QED
    BY <1>2, <1>3, <2>1, <2>3
<1>4. Delivered(x.t, x.piece)'
  BY <1>3 DEF Delivered
<1>5. ASSUME NEW u \in Issued, NEW q \in Proc, NEW z \in Mine(q, u), Delivered(u, z)
      PROVE  Delivered(u, z)'
  <2>1. ASSUME NEW w \in want[u], w[1] \in Elements(z.part)
        PROVE  got'[u][w[1]] = w[2]
    <3>1. got[u][w[1]] = w[2]
      BY <1>5, <2>1 DEF Delivered
    <3>2. CASE u # x.t
      BY <1>0, <1>2, <3>1, <3>2
    <3>3. CASE u = x.t
      <4>1. w[1] \in Cells
        BY <1>0, <2>1, PieceFact
      <4>2. CASE w[1] \in Elements(x.piece.part)
        BY <1>3, <2>1, <3>3, <4>2
      <4>3. CASE w[1] \notin Elements(x.piece.part)
        BY <1>2, <3>1, <3>3, <4>1, <4>3
      <4>4. QED
        BY <4>2, <4>3
    <3>4. QED
      BY <3>2, <3>3
  <2>2. QED
    BY <2>1 DEF Delivered
<1>6. QED
  BY <1>2, <1>4, <1>5

(* Piece y of transfer t has come to where it is to be moved.              *)
Arrived(t, y) ==
  /\ asked[t].op = "write" => \A l \in DOMAIN disk : Reaches(t, y, l) => disk[l] = file[l]
  /\ asked[t].op = "read" => Delivered(t, y)

(* What is owed stays owed by the process that owes it until it arrives.   *)
LEMMA OwedStays ==
  ASSUME WritesOwed, ReadsOwed, UNCHANGED <<asked, file, want>>, DOMAIN disk' = DOMAIN disk,
         \A t \in Issued, q \in Proc : \A y \in Mine(q, t) :
           Unmoved(q, t, y) => Unmoved(q, t, y)' \/ Arrived(t, y)',
         \A l \in DOMAIN disk : disk'[l] = disk[l] \/ disk'[l] = file[l],
         \A t \in Issued, q \in Proc : \A y \in Mine(q, t) : Delivered(t, y) => Delivered(t, y)'
  PROVE  WritesOwed' /\ ReadsOwed'
<1>1. /\ Issued' = Issued
      /\ \A q \in Proc, t \in Issued : Mine(q, t)' = Mine(q, t)
  BY DEF Issued, Mine
<1>2. ASSUME NEW l \in DOMAIN disk, disk'[l] # file[l]
      PROVE  \E t \in Issued, q \in Proc : asked[t].op = "write" /\
               \E y \in Mine(q, t) : Reaches(t, y, l) /\ Unmoved(q, t, y)'
  <2>1. disk[l] # file[l]
    BY <1>2
  <2>2. PICK t \in Issued, q \in Proc : asked[t].op = "write" /\
               \E y \in Mine(q, t) : Reaches(t, y, l) /\ Unmoved(q, t, y)
    BY <2>1 DEF WritesOwed
  <2>3. PICK y \in Mine(q, t) : Reaches(t, y, l) /\ Unmoved(q, t, y)
    BY <2>2
  <2>4. ~ Arrived(t, y)'
    BY <1>2, <2>2, <2>3 DEF Arrived, Reaches
  <2>5. QED
    BY <2>2, <2>3, <2>4
<1>3. WritesOwed'
  <2>1. ASSUME NEW l \in DOMAIN disk'
        PROVE  disk'[l] = file'[l]
                 \/ \E t \in Issued', q \in Proc : asked'[t].op = "write" /\
                      \E y \in Mine(q, t)' : Reaches(t, y, l)' /\ Unmoved(q, t, y)'
    <3>1. CASE disk'[l] = file[l]
      BY <3>1
    <3>2. CASE disk'[l] # file[l]
      <4>1. PICK t \in Issued, q \in Proc : asked[t].op = "write" /\
               \E y \in Mine(q, t) : Reaches(t, y, l) /\ Unmoved(q, t, y)'
        BY <1>2, <3>2
      <4>2. PICK y \in Mine(q, t) : Reaches(t, y, l) /\ Unmoved(q, t, y)'
        BY <4>1
      <4>3. Reaches(t, y, l)' /\ y \in Mine(q, t)' /\ t \in Issued' /\ asked'[t].op = "write"
        BY <1>1, <4>1, <4>2 DEF Reaches
      <4>4. QED
        BY <4>2, <4>3
    <3>3. QED
      BY <3>1, <3>2
  <2>2. QED
    BY <2>1 DEF WritesOwed
<1>4. ReadsOwed'
  <2>1. ASSUME NEW t \in Issued, NEW q \in Proc, asked[t].op = "read", NEW y \in Mine(q, t)
        PROVE  Unmoved(q, t, y)' \/ Delivered(t, y)'
    BY <2>1 DEF ReadsOwed, Arrived
  <2>2. QED
    BY <1>1, <2>1 DEF ReadsOwed
<1>5. QED
  BY <1>3, <1>4

-----------------------------------------------------------------------------
(* The steps that work on a buffer.                                        *)

(* One buffer of p changes, and at most the piece at the head of its list  *)
(* is taken off.                                                           *)
LEMMA WorkKeeps ==
  ASSUME Types, Buffers, DInv, Books', NEW p \in Proc, NEW n \in 1..NBuf, NEW x,
         UNCHANGED <<prog, at, handle, known, asked, file, want>>,
         \A q \in Proc, b \in 1..NBuf : q # p \/ b # n => buf'[q][b] = buf[q][b],
         \A q \in Proc : q # p => left'[q] = left[q],
         \/ left'[p] = left[p]
         \/ /\ Moving(p) /\ left[p] # <<>> /\ left'[p] = Tail(left[p])
            /\ \A b \in 1..NBuf : b # n => buf[p][b].op # "cover",
         buf'[p][n] = x, Carries(p, x)', Busy(x) => ~ Settled(p, x.t),
         x.active => (buf[p][n].active /\ x.t = buf[p][n].t) \/ Moving(p),
         \A t \in Issued : \A y \in Mine(p, t) :
           \/ buf[p][n].t = t /\ buf[p][n].piece = y /\ Busy(buf[p][n])
           \/ Moving(p) /\ Call(p).t = t /\ left'[p] # left[p] /\ y = Head(left[p])
           => Unmoved(p, t, y)' \/ Arrived(t, y)',
         DOMAIN disk' = DOMAIN disk,
         \A l \in DOMAIN disk : disk'[l] = disk[l] \/ disk'[l] = file[l],
         \A t \in Issued, q \in Proc : \A y \in Mine(q, t) : Delivered(t, y) => Delivered(t, y)'
  PROVE  DInv'
<1>0. /\ Asked /\ Settlement /\ Carried /\ Apart /\ Expected /\ WritesOwed /\ ReadsOwed
      /\ left \in [Proc -> Seq(PieceSet)]
  BY DEF DInv, Types
<1>1. /\ Issued' = Issued /\ Complete' = Complete
      /\ \A q \in Proc : Call(q)' = Call(q) /\ (Moving(q)' <=> Moving(q))
      /\ \A q \in Proc, t \in Issued : Mine(q, t)' = Mine(q, t)
  BY DEF Issued, Complete, Call, Moving, In, Mine
<1>2. ToSet(left'[p]) \subseteq ToSet(left[p])
  <2>1. CASE left'[p] = left[p]
    BY <2>1
  <2>2. CASE left[p] # <<>> /\ left'[p] = Tail(left[p])
    <3>1. left[p] \in Seq(PieceSet)
      BY <1>0
    <3>2. /\ \A i \in DOMAIN Tail(left[p]) : i + 1 \in DOMAIN left[p]
          /\ \A i \in DOMAIN Tail(left[p]) : Tail(left[p])[i] = left[p][i + 1]
      BY <2>2, <3>1
    <3>3. QED
      BY <2>2, <3>2 DEF ToSet
  <2>3. QED
    BY <2>1, <2>2
<1>3. ToSet(left[p]) \subseteq ToSet(left'[p]) \cup {Head(left[p])}
  <2>1. CASE left'[p] = left[p]
    BY <2>1
  <2>2. CASE left[p] # <<>> /\ left'[p] = Tail(left[p])
    <3>1. left[p] \in Seq(PieceSet)
      BY <1>0
    <3>2. ASSUME NEW i \in DOMAIN left[p]
          PROVE  left[p][i] = Head(left[p]) \/ left[p][i] \in ToSet(Tail(left[p]))
      <4>1. CASE i = 1
        BY <2>2, <3>1, <4>1
      <4>2. CASE i # 1
        <5>1. i - 1 \in DOMAIN Tail(left[p]) /\ left[p][i] = Tail(left[p])[i - 1]
          BY <2>2, <3>1, <4>2
        <5>2. QED
          BY <5>1 DEF ToSet
      <4>3. QED
        BY <4>1, <4>2
    <3>3. QED
      BY <2>2, <3>2 DEF ToSet
  <2>3. QED
    BY <2>1, <2>2
<1>4. left[p] = <<>> => left'[p] = <<>>
  OBVIOUS
<1>5. ASSUME NEW q \in Proc, NEW t, Settled(q, t)
      PROVE  Settled(q, t)'
  <2>1. Moving(q)' /\ Call(q)'.t = t => left'[q] = <<>>
    BY <1>1, <1>4, <1>5 DEF Settled
  <2>2. ASSUME NEW b \in 1..NBuf, buf'[q][b].t = t, Busy(buf'[q][b])
        PROVE  FALSE
    <3>1. CASE q = p /\ b = n
      BY <1>5, <2>2, <3>1
    <3>2. CASE q # p \/ b # n
      BY <1>5, <2>2, <3>2 DEF Settled
    <3>3. QED
      BY <3>1, <3>2
  <2>3. \A b \in 1..NBuf : buf'[q][b].t = t => ~ Busy(buf[q][b])'
    BY <2>2 DEF Busy
  <2>4. QED
    BY <1>5, <2>1, <2>3 DEF Settled
<1>6. Asked'
  <2>1. \A q \in Proc : Moving(q)' => ToSet(left'[q]) \subseteq Mine(q, Call(q).t)'
    BY <1>0, <1>1, <1>2 DEF Asked, Mine
  <2>2. QED
    BY <1>0, <1>1, <2>1 DEF Asked
<1>7. Settlement'
  <2>1. \A t \in Complete', q \in Proc : Settled(q, t)'
    BY <1>0, <1>1, <1>5 DEF Settlement
  <2>2. \A k \in DOMAIN prog, q \in Proc :
          Tells(prog[k])' /\ Reached(q, k, Leave2)' => Settled(q, prog[k].t)'
    <3>1. \A k \in DOMAIN prog, q \in Proc :
            (Tells(prog[k])' <=> Tells(prog[k]))
              /\ (Reached(q, k, Leave2)' <=> Reached(q, k, Leave2))
      BY DEF Tells, Reached
    <3>2. QED
      BY <1>0, <1>5, <3>1 DEF Settlement
  <2>3. ASSUME NEW q \in Proc, NEW b \in 1..NBuf,
               In(q, {"wait"}, Enter2)', buf'[q][b].t = Call(q)'.t, buf'[q][b].active
        PROVE  FALSE
    <3>1. In(q, {"wait"}, Enter2) /\ Call(q)'.t = Call(q).t /\ ~ Moving(q)
      BY <1>1, <2>3 DEF In, Moving, Enter2, Work
    <3>2. buf[q][b].active /\ buf[q][b].t = Call(q).t
      BY <2>3, <3>1
    <3>3. QED
      BY <1>0, <3>1, <3>2 DEF Settlement
  <2>4. QED
    BY <1>0, <1>1, <2>1, <2>2, <2>3 DEF Settlement
<1>8. Carried'
  <2>1. ASSUME NEW q \in Proc, NEW b \in 1..NBuf
        PROVE  Carries(q, buf[q][b])'
    <3>1. CASE q = p /\ b = n
      BY <3>1 DEF Carries, Busy, Right
    <3>2. CASE q # p \/ b # n
      <4>1. Carries(q, buf[q][b]) /\ buf'[q][b] = buf[q][b]
        BY <1>0, <3>2 DEF Carried
      <4>2. buf[q][b].op = "cover" => left'[q] = left[q]
        BY <3>2
      <4>3. Mine(q, buf[q][b].t)' = Mine(q, buf[q][b].t)
        BY <4>1 DEF Mine
      <4>4. QED
        BY <1>1, <4>1, <4>2, <4>3 DEF Carries, Busy, Right
    <3>3. QED
      BY <3>1, <3>2
  <2>2. QED
    BY <2>1 DEF Carried
<1>9. Apart' /\ Expected'
  BY <1>0, <1>1 DEF Apart, Expected
<1>10. ASSUME NEW t \in Issued, NEW q \in Proc, NEW y \in Mine(q, t), Unmoved(q, t, y)
       PROVE  Unmoved(q, t, y)' \/ Arrived(t, y)'
  <2>1. CASE handle[q][t] = None
    BY <2>1 DEF Unmoved
  <2>2. CASE Moving(q) /\ Call(q).t = t /\ y \in ToSet(left[q])
    <3>1. CASE y \in ToSet(left'[q])
      BY <1>1, <2>2, <3>1 DEF Unmoved
    <3>2. CASE y \notin ToSet(left'[q])
      <4>1. q = p /\ left'[p] # left[p] /\ y = Head(left[p])
        BY <1>3, <2>2, <3>2
      <4>2. QED
        BY <2>2, <4>1
    <3>3. QED
      BY <3>1, <3>2
  <2>3. CASE \E b \in 1..NBuf : buf[q][b].t = t /\ buf[q][b].piece = y /\ Busy(buf[q][b])
    <3>1. PICK b \in 1..NBuf : buf[q][b].t = t /\ buf[q][b].piece = y /\ Busy(buf[q][b])
      BY <2>3
    <3>2. CASE q = p /\ b = n
      BY <3>1, <3>2
    <3>3. CASE q # p \/ b # n
      <4>1. buf'[q][b] = buf[q][b]
        BY <3>3
      <4>2. QED
        BY <3>1, <4>1 DEF Unmoved, Busy
    <3>4. QED
      BY <3>2, <3>3
  <2>4. QED
    BY <1>10, <2>1, <2>2, <2>3 DEF Unmoved
<1>11. WritesOwed' /\ ReadsOwed'
  BY <1>0, <1>10, OwedStays
<1>12. QED
  BY <1>6, <1>7, <1>8, <1>9, <1>11 DEF DInv

(* A disk operation is done.                                               *)
LEMMA DiskDoneDelivers ==
  ASSUME Decomposed, WellPlaced, IInv, DInv, NEW p \in Proc, NEW n \in 1..NBuf,
         DiskDone(p, n)
  PROVE  DInv'
<1>0. PICK x : x = buf[p][n]
  OBVIOUS
<1>a. PICK data : data = IF x.io = "read" THEN OnDisk(x) ELSE x.data
  OBVIOUS
<1>b. PICK new : new = [x EXCEPT !.io = "ready", !.data = data]
  OBVIOUS
<1>1. /\ Types /\ Buffers /\ Books /\ Settlement /\ Carried /\ Apart /\ Expected /\ WritesOwed
      /\ buf \in [Proc -> [1..NBuf -> Buffer]] /\ x \in Buffer
  <2>1. /\ Types /\ Buffers /\ Books /\ Settlement /\ Carried /\ Apart /\ Expected /\ WritesOwed
        /\ buf \in [Proc -> [1..NBuf -> Buffer]]
    BY DEF IInv, DInv, Types
  <2>2. QED
    BY <1>0, <2>1
<1>2. /\ x.io \in {"read", "write"}
      /\ UNCHANGED <<prog, at, left, handle, known, got, asked, file, want>>
      /\ disk' = IF x.io = "write" THEN WithChunk(x) ELSE disk
  BY <1>0 DEF DiskDone
<1>3. buf' = [buf EXCEPT ![p][n] = new]
  <2>1. buf' = [buf EXCEPT ![p][n].io = "ready", ![p][n].data = data]
    BY <1>0, <1>a DEF DiskDone
  <2>2. QED
    BY <1>0, <1>1, <1>b, <2>1
<1>4. /\ BufferSound(x, Call(p).kind, at[p].stage, left[p], Len(asked)) /\ Carries(p, x)
  BY <1>0, <1>1 DEF Buffers, Sound, Carried
<1>5. /\ x.op # "none" /\ (x.io = "write" => x.op = "write")
      /\ (x.io = "read" => x.op = "cover" \/ (x.op = "read" /\ x.callback))
  BY <1>2, <1>4 DEF BufferSound, Carries
<1>6. x.t \in Issued /\ x.t \notin Complete
  BY <1>0, <1>1, <1>2, <1>5, OpenBuffer DEF Busy
<1>7. /\ Placed(x) /\ x.piece \in Mine(p, x.t) /\ x.t \in DOMAIN asked
      /\ x.op # "cover" => asked[x.t].op = x.op
  BY <1>4, <1>5 DEF BufferSound, Carries
<1>8. \A q \in Proc, b \in 1..NBuf : q # p \/ b # n => buf'[q][b] = buf[q][b]
  BY <1>1, <1>3
<1>9. buf'[p][n] = new
  BY <1>1, <1>3
<1>10. /\ new.io = "ready" /\ new.active = x.active /\ new.call = x.call /\ new.op = x.op
       /\ new.callback = x.callback /\ new.align = x.align /\ new.mov = x.mov
       /\ new.piece = x.piece /\ new.where = x.where /\ new.data = data /\ new.t = x.t
  BY <1>1, <1>b DEF Buffer
<1>11. /\ Elements(x.piece.part) \subseteq Elements(x.piece.chunk)
       /\ asked[x.t].op \in {"write", "read"}
  BY <1>1, <1>7, PieceFact
<1>12. /\ Mine(p, x.t)' = Mine(p, x.t) /\ Call(p)' = Call(p)
       /\ \A t \in Issued : \A y : Delivered(t, y)' <=> Delivered(t, y)
  BY <1>2 DEF Mine, Call, Delivered
<1>13. CASE x.io = "write"
  <2>1. \A e \in Elements(x.piece.chunk) : Right(x, e)
    BY <1>4, <1>5, <1>13 DEF Carries
  <2>2. /\ DOMAIN disk' = DOMAIN disk
        /\ \A l \in DOMAIN disk : disk'[l] = disk[l] \/ disk'[l] = file[l]
        /\ \A e \in Elements(x.piece.chunk) :
             LET l == Location(Array, x.piece.chunk, e) IN l \in DOMAIN disk => disk'[l] = file[l]
    BY <1>2, <1>7, <1>13, <2>1, ChunkArrives
  <2>3. Arrived(x.t, x.piece)'
    <3>1. asked[x.t].op = "write"
      BY <1>5, <1>7, <1>13
    <3>2. QED
      BY <1>2, <1>11, <2>2, <3>1 DEF Arrived, Reaches
  <2>4. ~ Busy(new)
    BY <1>5, <1>10, <1>13 DEF Busy
  <2>5. Carries(p, new)'
    BY <1>2, <1>4, <1>5, <1>10, <1>12, <1>13 DEF Carries
  <2>6. Books'
    <3>1. UNCHANGED <<file, got, want>>
      BY <1>2
    <3>2. QED
      BY <1>1, <3>1 DEF Books
  <2>7. QED
    BY <1>0, <1>1, <1>2, <1>8, <1>9, <1>10, <1>12, <2>2, <2>3, <2>4, <2>5, <2>6, WorkKeeps
<1>14. CASE x.io = "read"
  <2>1. ASSUME NEW e \in Elements(x.piece.chunk),
               asked[x.t].op = "read" \/ e \notin Elements(x.piece.part)
        PROVE  new.data[e] = file[new.where[e]]
    <3>1. /\ DOMAIN x.where = Elements(x.piece.chunk)
          /\ x.where[e] = Location(Array, x.piece.chunk, e)
      BY <1>7 DEF Placed, Placing
    <3>2. new.data[e] = disk[x.where[e]]
      BY <1>a, <1>10, <1>14, <3>1 DEF OnDisk
    <3>3. disk[x.where[e]] = file[x.where[e]]
      BY <1>1, <1>6, <1>7, <2>1, <3>1, DiskRight
    <3>4. QED
      BY <1>10, <3>2, <3>3
  <2>2. Busy(new) <=> Busy(x)
    BY <1>5, <1>10, <1>14 DEF Busy
  <2>3. Carries(p, new)'
    BY <1>2, <1>4, <1>5, <1>7, <1>10, <1>11, <1>12, <1>14, <2>1 DEF Carries, Right
  <2>4. Books'
    <3>1. UNCHANGED <<file, got, want>>
      BY <1>2
    <3>2. QED
      BY <1>1, <3>1 DEF Books
  <2>6. disk' = disk
    BY <1>2, <1>14
  <2>7. Busy(new) => ~ Settled(p, new.t)
    BY <1>0, <1>10, <2>2 DEF Settled
  <2>8. \A y : x.t \in Issued /\ x.piece = y /\ Busy(x) => Unmoved(p, x.t, y)'
    BY <1>9, <1>10, <2>2 DEF Unmoved, Busy
  <2>9. QED
    BY <1>0, <1>1, <1>2, <1>8, <1>9, <1>10, <1>12, <2>3, <2>4, <2>6, <2>7, <2>8, WorkKeeps
<1>15. QED
  BY <1>2, <1>13, <1>14

(* A put to the global array is done.                                      *)
LEMMA MoveDoneDelivers ==
  ASSUME Decomposed, WellPlaced, IInv, DInv, NEW p \in Proc, NEW n \in 1..NBuf,
         MoveDone(p, n)
  PROVE  DInv'
<1>1. PICK x : x = buf[p][n]
  OBVIOUS
<1>2. PICK new : new = [x EXCEPT !.mov = FALSE]
  OBVIOUS
<1>3. /\ Types /\ Buffers /\ Books /\ Settlement /\ Carried /\ Expected
      /\ buf \in [Proc -> [1..NBuf -> Buffer]] /\ x \in Buffer
  <2>1. /\ Types /\ Buffers /\ Books /\ Settlement /\ Carried /\ Expected
        /\ buf \in [Proc -> [1..NBuf -> Buffer]]
    BY DEF IInv, DInv, Types
  <2>2. QED
    BY <1>1, <2>1
<1>4. /\ x.mov /\ got' = Stored(x) /\ buf' = [buf EXCEPT ![p][n] = new]
      /\ UNCHANGED <<prog, at, left, handle, known, disk, asked, file, want>>
  BY <1>1, <1>2 DEF MoveDone
<1>5. BufferSound(x, Call(p).kind, at[p].stage, left[p], Len(asked)) /\ Carries(p, x)
  BY <1>1, <1>3 DEF Buffers, Sound, Carried
<1>6. x.op = "read" /\ x.io # "read" /\ Busy(x)
  BY <1>4, <1>5 DEF BufferSound, Carries, Busy
<1>7. x.t \in Issued /\ x.t \notin Complete
  BY <1>1, <1>3, <1>6, OpenBuffer
<1>8. /\ Placed(x) /\ x.piece \in Mine(p, x.t) /\ asked[x.t].op = "read"
      /\ \A e \in Elements(x.piece.part) : Right(x, e)
  BY <1>5, <1>6 DEF BufferSound, Carries
<1>9. /\ got' = [t \in 1..MaxTransfers |-> got'[t]] /\ Delivered(x.t, x.piece)'
      /\ \A u \in Issued, q \in Proc : \A z \in Mine(q, u) : Delivered(u, z) => Delivered(u, z)'
  BY <1>3, <1>4, <1>7, <1>8, PieceArrives
<1>10. /\ \A q \in Proc, b \in 1..NBuf : q # p \/ b # n => buf'[q][b] = buf[q][b]
       /\ buf'[p][n] = new
  BY <1>3, <1>4
<1>11. /\ new.io = x.io /\ new.active = x.active /\ new.call = x.call /\ new.op = x.op
       /\ new.callback = x.callback /\ new.align = x.align /\ ~ new.mov
       /\ new.piece = x.piece /\ new.where = x.where /\ new.data = x.data /\ new.t = x.t
  BY <1>2, <1>3 DEF Buffer
<1>12. Arrived(x.t, x.piece)'
  BY <1>4, <1>8, <1>9 DEF Arrived
<1>13. Books'
  BY <1>3, <1>4, <1>9 DEF Books
<1>14. Mine(p, x.t)' = Mine(p, x.t) /\ Call(p)' = Call(p)
  BY <1>4 DEF Mine, Call
<1>15. Carries(p, new)'
  BY <1>4, <1>5, <1>6, <1>8, <1>11, <1>14 DEF Carries, Right
<1>16. Busy(new) => ~ Settled(p, new.t)
  BY <1>1, <1>6, <1>11 DEF Settled
<1>17. QED
  BY <1>1, <1>3, <1>4, <1>9, <1>10, <1>11, <1>12, <1>13, <1>15, <1>16, WorkKeeps

(* wait_buf returns, and if a callback was due it has stored the piece.    *)
LEMMA WaitedArrives ==
  ASSUME Decomposed, WellPlaced, IInv, DInv, NEW p \in Proc, NEW n \in 1..NBuf, NEW x,
         x = buf[p][n], x.op # "cover", Waited(x), got' = GaAfterWait(x),
         UNCHANGED <<asked, want>>
  PROVE  /\ got' = [t \in 1..MaxTransfers |-> got'[t]]
         /\ Busy(x) /\ ~ x.mov => asked[x.t].op = "read" /\ Delivered(x.t, x.piece)'
         /\ \A u \in Issued, q \in Proc : \A z \in Mine(q, u) :
              Delivered(u, z) => Delivered(u, z)'
<1>1. /\ Types /\ Buffers /\ Books /\ Settlement /\ Carried /\ Expected
      /\ x \in Buffer
  <2>1. /\ Types /\ Buffers /\ Books /\ Settlement /\ Carried /\ Expected
        /\ buf \in [Proc -> [1..NBuf -> Buffer]]
    BY DEF IInv, DInv, Types
  <2>2. QED
    BY <2>1
<1>2. BufferSound(x, Call(p).kind, at[p].stage, left[p], Len(asked)) /\ Carries(p, x)
  BY <1>1 DEF Buffers, Sound, Carried
<1>3. CASE CallbackDue(x)
  <2>1. x.op = "read" /\ x.align /\ x.callback /\ x.io # "read" /\ Busy(x)
    BY <1>3 DEF CallbackDue, Waited, Busy
  <2>2. x.t \in Issued /\ x.t \notin Complete
    BY <1>1, <2>1, OpenBuffer
  <2>3. /\ Placed(x) /\ x.piece \in Mine(p, x.t) /\ asked[x.t].op = "read"
        /\ \A e \in Elements(x.piece.part) : Right(x, e)
    BY <1>2, <2>1 DEF BufferSound, Carries
  <2>4. got' = Stored(x)
    BY <1>3 DEF GaAfterWait
  <2>5. QED
    BY <1>1, <2>2, <2>3, <2>4, PieceArrives
<1>4. CASE ~ CallbackDue(x)
  <2>1. got' = got
    BY <1>4 DEF GaAfterWait
  <2>2. Busy(x) => x.mov
    BY <1>2, <1>4 DEF Busy, CallbackDue, Waited, BufferSound
  <2>3. \A u, z : Delivered(u, z) => Delivered(u, z)'
    BY <2>1 DEF Delivered
  <2>4. QED
    BY <1>1, <2>1, <2>2, <2>3 DEF Books
<1>5. QED
  BY <1>3, <1>4

(* buf_complete_call is through with a buffer.                             *)
LEMMA CompleteBufDelivers ==
  ASSUME Decomposed, WellPlaced, IInv, DInv, NEW p \in Proc, CompleteBuf(p)
  PROVE  DInv'
<1>1. /\ Types /\ Buffers /\ Books /\ Settlement /\ Carried
      /\ buf \in [Proc -> [1..NBuf -> Buffer]]
  BY DEF IInv, DInv, Types
<1>2. PICK n \in 1..NBuf : /\ buf[p][n].active /\ Waited(buf[p][n])
                           /\ got' = GaAfterWait(buf[p][n])
                           /\ buf' = [buf EXCEPT ![p][n] = [AfterWait(buf[p][n]) EXCEPT !.active = FALSE]]
  <2>1. ActiveOf(p, handle[p][Call(p).t]) \subseteq Nat
    BY Numbers DEF ActiveOf
  <2>2. Min(ActiveOf(p, handle[p][Call(p).t])) \in ActiveOf(p, handle[p][Call(p).t])
    BY <2>1, MinFact DEF CompleteBuf
  <2>3. QED
    BY <2>2 DEF CompleteBuf, ActiveOf
<1>3. /\ In(p, {"wait"}, Work)
      /\ UNCHANGED <<prog, at, left, handle, known, disk, asked, file, want>>
  BY DEF CompleteBuf
<1>4. PICK x : x = buf[p][n]
  OBVIOUS
<1>5. PICK new : new = [AfterWait(x) EXCEPT !.active = FALSE]
  OBVIOUS
<1>6. /\ x \in Buffer /\ Carries(p, x)
      /\ BufferSound(x, Call(p).kind, at[p].stage, left[p], Len(asked))
  BY <1>1, <1>4 DEF Buffers, Sound, Carried
<1>7. x.op # "cover"
  BY <1>3, <1>6 DEF BufferSound, In
<1>8. /\ AfterWait(x) \in Buffer
      /\ AfterWait(x) = [x EXCEPT !.io = "none", !.callback = FALSE,
                                  !.active = AfterWait(x).active]
  BY <1>6, <1>7, AfterWaitFact
<1>9. /\ new.io = "none" /\ ~ new.active /\ new.call = x.call /\ new.op = x.op
      /\ ~ new.callback /\ new.align = x.align /\ new.mov = x.mov
      /\ new.piece = x.piece /\ new.where = x.where /\ new.data = x.data /\ new.t = x.t
  BY <1>5, <1>6, <1>8 DEF Buffer
<1>10. /\ \A q \in Proc, b \in 1..NBuf : q # p \/ b # n => buf'[q][b] = buf[q][b]
       /\ buf'[p][n] = new
  BY <1>1, <1>2, <1>4, <1>5
<1>11. /\ got' = [t \in 1..MaxTransfers |-> got'[t]]
       /\ Busy(x) /\ ~ x.mov => asked[x.t].op = "read" /\ Delivered(x.t, x.piece)'
       /\ \A u \in Issued, q \in Proc : \A z \in Mine(q, u) : Delivered(u, z) => Delivered(u, z)'
  BY <1>2, <1>3, <1>4, <1>7, WaitedArrives
<1>12. Busy(new) => Busy(x)
  BY <1>9 DEF Busy
<1>13. Busy(x) => Busy(new) \/ Arrived(x.t, x.piece)'
  <2>1. CASE x.mov
    <3>1. x.op = "read"
      BY <1>6, <2>1 DEF BufferSound
    <3>2. QED
      BY <1>9, <2>1, <3>1 DEF Busy
  <2>2. CASE ~ x.mov
    BY <1>3, <1>11, <2>2 DEF Arrived
  <2>3. QED
    BY <2>1, <2>2
<1>14. Books'
  BY <1>1, <1>3, <1>11 DEF Books
<1>15. Mine(p, x.t)' = Mine(p, x.t) /\ Call(p)' = Call(p)
  BY <1>3 DEF Mine, Call
<1>16. Carries(p, new)'
  <2>1. Busy(x) => x.op # "write" /\ x.io # "read"
    BY <1>2, <1>4, <1>6 DEF Busy, Waited, BufferSound, Carries
  <2>2. QED
    BY <1>3, <1>6, <1>7, <1>9, <1>12, <1>15, <2>1 DEF Carries, Right
<1>17. Busy(new) => ~ Settled(p, new.t)
  BY <1>4, <1>9, <1>12 DEF Settled
<1>18. Busy(x) => Unmoved(p, x.t, x.piece)' \/ Arrived(x.t, x.piece)'
  BY <1>9, <1>10, <1>13 DEF Unmoved, Busy
<1>19. QED
  BY <1>1, <1>3, <1>4, <1>9, <1>10, <1>11, <1>14, <1>16, <1>17, <1>18, WorkKeeps

(* A process with pieces left is at work on a transfer that is not         *)
(* complete.                                                               *)
LEMMA OpenTransfer ==
  ASSUME Types, CallsSound, Asked, Settlement, NEW p \in Proc, Moving(p), left[p] # <<>>
  PROVE  /\ Call(p).t \in Issued /\ Call(p).t \notin Complete
         /\ Call(p).kind \in {"write", "read"} /\ asked[Call(p).t].op = Call(p).kind
         /\ Head(left[p]) \in Mine(p, Call(p).t)
<1>1. Call(p).kind \in {"write", "read"}
  BY DEF Moving, In
<1>2. Call(p).t \in Issued /\ at[p].n \in DOMAIN prog
  BY <1>1, CallFact DEF Issued
<1>3. Call(p).t \notin Complete
  BY DEF Settlement, Settled
<1>4. asked[Call(p).t].op = Call(p).kind
  BY <1>1, <1>2 DEF Asked, Call
<1>5. Head(left[p]) \in ToSet(left[p])
  <2>1. left[p] \in Seq(PieceSet)
    BY DEF Types
  <2>2. 1 \in DOMAIN left[p] /\ Head(left[p]) = left[p][1]
    BY <2>1
  <2>3. QED
    BY <2>2 DEF ToSet
<1>6. QED
  BY <1>1, <1>2, <1>3, <1>4, <1>5 DEF Asked

(* A buffer with a piece of a transfer that is not complete, and what it   *)
(* becomes when its chunk is read or written.                              *)
Ready(p, b) ==
  /\ b \in Buffer /\ Placed(b) /\ b.io = "none"
  /\ b.t \in Issued /\ b.t \notin Complete /\ b.piece \in Mine(p, b.t)

Becomes(b, new) ==
  /\ new.active = b.active /\ new.call = b.call /\ new.t = b.t /\ new.op = b.op /\ new.align = b.align
  /\ new.callback = b.callback /\ new.mov = b.mov /\ new.piece = b.piece /\ new.where = b.where
  /\ new \in Buffer

(* Whatever is written to disk is what the file should have.               *)
DiskGains ==
  /\ DOMAIN disk' = DOMAIN disk
  /\ \A l \in DOMAIN disk : disk'[l] = disk[l] \/ disk'[l] = file[l]

(* A chunk is written: it is right, and it is on its way or there.         *)
LEMMA WriteBegins ==
  ASSUME Decomposed, WellPlaced, Types, Expected, UNCHANGED <<asked, file>>,
         NEW p \in Proc, NEW b, Ready(p, b), b.piece.align \/ Filled(b),
         b.op = "write", asked[b.t].op = "write",
         \A e \in Elements(b.piece.chunk) : e \in Elements(b.piece.part) \/ Right(b, e),
         NEW new, new = Written(p, Loaded(b)), disk' = DiskWritten(p, Loaded(b))
  PROVE  /\ Becomes(b, new) /\ new.io \in {"none", "write"}
         /\ \A e \in Elements(b.piece.chunk) : Right(new, e)
         /\ new.io = "none" => Arrived(b.t, b.piece)'
         /\ DiskGains
<1>0. /\ b \in Buffer /\ Placed(b) /\ b.io = "none"
      /\ b.t \in Issued /\ b.t \notin Complete /\ b.piece \in Mine(p, b.t)
  BY DEF Ready
<1>1. Issued = DOMAIN asked /\ Issued \subseteq 1..MaxTransfers
  BY Numbers DEF Issued, Types
<1>2. PICK x : x = Loaded(b)
  OBVIOUS
<1>3. /\ x \in Buffer /\ Filled(x) /\ Placed(x) /\ x = [b EXCEPT !.data = x.data]
  BY <1>0, <1>1, <1>2, LoadedTyped
<1>4. x.io = "none" /\ x.piece = b.piece /\ x.where = b.where
  BY <1>0, <1>3 DEF Buffer
<1>5. ASSUME NEW e \in Elements(b.piece.chunk)
      PROVE  Right(x, e)
  <2>1. b.where[e] = Location(Array, b.piece.chunk, e)
    BY <1>0 DEF Placed, Placing
  <2>2. x.data[e] = IF e \in Elements(b.piece.part) THEN b.t ELSE b.data[e]
    BY <1>0, <1>2 DEF Loaded, Buffer
  <2>3. e \in Elements(b.piece.part) => file[b.where[e]] = b.t
    BY <1>0, <2>1, FileRight
  <2>4. QED
    BY <1>4, <2>2, <2>3 DEF Right
<1>6. /\ new \in Buffer /\ new = [x EXCEPT !.io = new.io] /\ new.io \in {"none", "write"}
  BY <1>2, <1>3, <1>4, WrittenFact
<1>7. new.data = x.data /\ new.where = b.where /\ Becomes(b, new)
  <2>1. /\ new.data = x.data
        /\ new.active = x.active /\ new.call = x.call /\ new.t = x.t /\ new.op = x.op /\ new.align = x.align
        /\ new.callback = x.callback /\ new.mov = x.mov /\ new.piece = x.piece /\ new.where = x.where
    BY <1>3, <1>6 DEF Buffer
  <2>2. /\ x.active = b.active /\ x.call = b.call /\ x.t = b.t /\ x.op = b.op /\ x.align = b.align
        /\ x.callback = b.callback /\ x.mov = b.mov /\ x.piece = b.piece /\ x.where = b.where
    BY <1>0, <1>3 DEF Buffer
  <2>3. QED
    BY <1>6, <2>1, <2>2 DEF Becomes
<1>8. \A e \in Elements(b.piece.chunk) : Right(new, e)
  BY <1>4, <1>5, <1>7 DEF Right
<1>9. CASE AioFree(p)
  <2>1. disk' = disk /\ new.io = "write"
    BY <1>2, <1>3, <1>9 DEF DiskWritten, Written, Buffer
  <2>2. DiskGains
    BY <2>1 DEF DiskGains
  <2>3. QED
    BY <1>6, <1>7, <1>8, <2>1, <2>2
<1>10. CASE ~ AioFree(p)
  <2>1. disk' = WithChunk(x)
    BY <1>2, <1>10 DEF DiskWritten
  <2>2. /\ DOMAIN disk' = DOMAIN disk
        /\ \A l \in DOMAIN disk : disk'[l] = disk[l] \/ disk'[l] = file[l]
        /\ \A e \in Elements(b.piece.chunk) :
             LET l == Location(Array, b.piece.chunk, e) IN l \in DOMAIN disk => disk'[l] = file[l]
    <3>1. \A e \in Elements(x.piece.chunk) : Right(x, e)
      BY <1>4, <1>5
    <3>2. /\ DOMAIN WithChunk(x) = DOMAIN disk
          /\ \A l \in DOMAIN disk : WithChunk(x)[l] = disk[l] \/ WithChunk(x)[l] = file[l]
          /\ \A e \in Elements(x.piece.chunk) :
               LET l == Location(Array, x.piece.chunk, e)
               IN l \in DOMAIN disk => WithChunk(x)[l] = file[l]
      BY <1>3, <3>1, ChunkArrives
    <3>3. QED
      BY <1>4, <2>1, <3>2
  <2>3. Elements(b.piece.part) \subseteq Elements(b.piece.chunk)
    BY <1>0, <1>1, PieceFact
  <2>4. Arrived(b.t, b.piece)'
    BY <2>2, <2>3 DEF Arrived, Reaches
  <2>5. DiskGains
    BY <2>2 DEF DiskGains
  <2>6. QED
    BY <1>6, <1>7, <1>8, <2>4, <2>5
<1>11. QED
  BY <1>9, <1>10

(* A chunk is read: what is asked for of it, and what is not written, is   *)
(* right when it comes.                                                    *)
LEMMA ReadBegins ==
  ASSUME Decomposed, WellPlaced, Types, Settlement, Apart, WritesOwed,
         NEW p \in Proc, NEW x, Ready(p, x), NEW new, new = Read(p, x)
  PROVE  /\ Becomes(x, new) /\ new.io \in {"none", "read"}
         /\ new.io = "none" => \A e \in Elements(x.piece.chunk) :
              Right(new, e) \/ (e \in Elements(x.piece.part) /\ asked[x.t].op # "read")
<1>0. /\ x \in Buffer /\ Placed(x) /\ x.io = "none"
      /\ x.t \in Issued /\ x.t \notin Complete /\ x.piece \in Mine(p, x.t)
  BY DEF Ready
<1>1. /\ new \in Buffer /\ new = [x EXCEPT !.io = new.io, !.data = new.data]
      /\ new.io \in {"none", "read"}
  BY <1>0, ReadFact
<1>2. Becomes(x, new)
  BY <1>0, <1>1 DEF Buffer, Becomes
<1>3. ASSUME new.io = "none", NEW e \in Elements(x.piece.chunk),
             asked[x.t].op = "read" \/ e \notin Elements(x.piece.part)
      PROVE  Right(new, e)
  <2>1. /\ DOMAIN x.where = Elements(x.piece.chunk)
        /\ x.where[e] = Location(Array, x.piece.chunk, e)
    BY <1>0 DEF Placed, Placing
  <2>2. new = [x EXCEPT !.data = OnDisk(x)]
    BY <1>0, <1>3 DEF Read, Buffer
  <2>3. new.data[e] = disk[x.where[e]] /\ new.where = x.where
    BY <1>0, <2>1, <2>2 DEF OnDisk, Buffer
  <2>4. disk[x.where[e]] = file[x.where[e]]
    BY <1>0, <1>3, <2>1, DiskRight
  <2>5. QED
    BY <2>3, <2>4 DEF Right
<1>4. QED
  BY <1>1, <1>2, <1>3

(* An unaligned piece is ended.                                            *)
LEMMA EndPieceDelivers ==
  ASSUME Decomposed, WellPlaced, IInv, DInv, NEW p \in Proc, EndPiece(p)
  PROVE  DInv'
<1>1. /\ Types /\ CallsSound /\ Buffers /\ Books /\ Asked /\ Settlement /\ Carried
      /\ Expected /\ buf \in [Proc -> [1..NBuf -> Buffer]] /\ left \in [Proc -> Seq(PieceSet)]
  BY DEF IInv, DInv, Types
<1>2. /\ Moving(p) /\ UNCHANGED <<prog, at, handle, known, got, asked, file, want>>
      /\ left' = [left EXCEPT ![p] = Tail(@)]
  BY DEF EndPiece, Moving
<1>3. PICK n \in 1..NBuf :
        LET b == [buf[p][n] EXCEPT !.io = "none", !.op = Call(p).kind]
        IN /\ buf[p][n].op = "cover" /\ buf[p][n].io # "read"
           /\ buf' = [buf EXCEPT ![p][n] =
                       IF b.op = "write" THEN Written(p, Loaded(b))
                       ELSE [b EXCEPT !.mov = TRUE]]
           /\ disk' = IF b.op = "write" THEN DiskWritten(p, Loaded(b)) ELSE disk
  BY DEF EndPiece
<1>4. PICK x : x = buf[p][n]
  OBVIOUS
<1>5. PICK b : b = [x EXCEPT !.io = "none", !.op = Call(p).kind]
  OBVIOUS
<1>6. PICK new : new = IF b.op = "write" THEN Written(p, Loaded(b)) ELSE [b EXCEPT !.mov = TRUE]
  OBVIOUS
<1>7. /\ x.op = "cover" /\ x.io # "read" /\ buf' = [buf EXCEPT ![p][n] = new]
      /\ disk' = IF b.op = "write" THEN DiskWritten(p, Loaded(b)) ELSE disk
  BY <1>3, <1>4, <1>5, <1>6
<1>8. /\ x \in Buffer /\ Carries(p, x)
      /\ BufferSound(x, Call(p).kind, at[p].stage, left[p], Len(asked))
  BY <1>1, <1>4 DEF Buffers, Sound, Carried
<1>9. /\ x.t = Call(p).t /\ left[p] # <<>> /\ x.piece = Head(left[p]) /\ x.active /\ ~ x.align
      /\ ~ x.mov /\ ~ x.callback /\ Placed(x) /\ Filled(x)
      /\ x.t \in DOMAIN asked /\ x.call = handle[p][x.t] /\ x.call # None
      /\ \A e \in Elements(x.piece.chunk) :
           Right(x, e) \/ (e \in Elements(x.piece.part) /\ asked[x.t].op = "write")
  BY <1>7, <1>8 DEF BufferSound, Carries, Busy
<1>10. /\ x.t \in Issued /\ x.t \notin Complete /\ x.piece \in Mine(p, x.t)
       /\ Call(p).kind \in {"write", "read"} /\ asked[x.t].op = Call(p).kind
  BY <1>1, <1>2, <1>9, OpenTransfer
<1>11. /\ b \in Buffer /\ b.op = Call(p).kind /\ b.io = "none" /\ b.active /\ ~ b.callback
       /\ b.mov = x.mov /\ ~ b.align /\ b.t = x.t /\ b.call = x.call
       /\ b.piece = x.piece /\ b.where = x.where /\ b.data = x.data
  BY <1>5, <1>8, <1>9, <1>10 DEF Buffer, Ops
<1>21. Ready(p, b)
  <2>1. Placed(b)
    BY <1>9, <1>11 DEF Placed
  <2>2. QED
    BY <1>10, <1>11, <2>1 DEF Ready
<1>12. /\ \A q \in Proc, m \in 1..NBuf : q # p \/ m # n => buf'[q][m] = buf[q][m]
       /\ buf'[p][n] = new
  BY <1>1, <1>7
<1>13. /\ \A q \in Proc : q # p => left'[q] = left[q]
       /\ left'[p] = Tail(left[p])
       /\ \A m \in 1..NBuf : m # n => buf[p][m].op # "cover"
  BY <1>1, <1>2, <1>4, <1>7 DEF Buffers
<1>14. Mine(p, x.t)' = Mine(p, x.t) /\ Call(p)' = Call(p)
  BY <1>2 DEF Mine, Call
<1>15. ~ Settled(p, x.t)
  BY <1>2, <1>9 DEF Settled
<1>16. Books'
  <2>1. UNCHANGED <<file, got, want>>
    BY <1>2
  <2>2. QED
    BY <1>1, <2>1 DEF Books
<1>17. \A t \in Issued, q \in Proc : \A y \in Mine(q, t) : Delivered(t, y) => Delivered(t, y)'
  BY <1>2 DEF Delivered
<1>18. CASE Call(p).kind = "write"
  <2>1. /\ Becomes(b, new) /\ new.io \in {"none", "write"}
        /\ \A e \in Elements(b.piece.chunk) : Right(new, e)
        /\ new.io = "none" => Arrived(b.t, b.piece)'
        /\ DiskGains
    <3>1. Filled(b)
      BY <1>9, <1>11 DEF Filled
    <3>2. \A e \in Elements(b.piece.chunk) : e \in Elements(b.piece.part) \/ Right(b, e)
      BY <1>9, <1>11 DEF Right
    <3>3. new = Written(p, Loaded(b)) /\ disk' = DiskWritten(p, Loaded(b)) /\ b.op = "write"
      BY <1>6, <1>7, <1>11, <1>18
    <3>4. UNCHANGED <<asked, file>>
      BY <1>2
    <3>5. asked[b.t].op = "write"
      BY <1>10, <1>11, <1>18
    <3>6. QED
      BY <1>1, <1>21, <3>1, <3>2, <3>3, <3>4, <3>5, WriteBegins
  <2>2. /\ new.op = "write" /\ new.t = x.t /\ new.piece = x.piece /\ new.call = x.call
        /\ ~ new.callback /\ new.where = x.where /\ new.active
    BY <1>11, <1>18, <2>1 DEF Becomes
  <2>3. Carries(p, new)'
    BY <1>2, <1>9, <1>10, <1>11, <1>14, <1>18, <2>1, <2>2 DEF Carries, Right
  <2>4. Unmoved(p, x.t, x.piece)' \/ Arrived(x.t, x.piece)'
    <3>1. CASE new.io = "none"
      BY <1>11, <2>1, <3>1
    <3>2. CASE new.io = "write"
      BY <1>12, <2>2, <3>2 DEF Unmoved, Busy
    <3>3. QED
      BY <2>1, <3>1, <3>2
  <2>5. Busy(new) => ~ Settled(p, new.t)
    BY <1>15, <2>2
  <2>6. \A t \in Issued : \A y \in Mine(p, t) :
          \/ buf[p][n].t = t /\ buf[p][n].piece = y /\ Busy(buf[p][n])
          \/ Moving(p) /\ Call(p).t = t /\ left'[p] # left[p] /\ y = Head(left[p])
          => Unmoved(p, t, y)' \/ Arrived(t, y)'
    BY <1>4, <1>9, <2>4
  <2>7. /\ DOMAIN disk' = DOMAIN disk
        /\ \A l \in DOMAIN disk : disk'[l] = disk[l] \/ disk'[l] = file[l]
    BY <2>1 DEF DiskGains
  <2>8. QED
    BY <1>1, <1>2, <1>9, <1>12, <1>13, <1>16, <1>17, <2>3, <2>5, <2>6, <2>7, WorkKeeps
<1>19. CASE Call(p).kind = "read"
  <2>1. new = [b EXCEPT !.mov = TRUE] /\ disk' = disk
    BY <1>6, <1>7, <1>11, <1>19
  <2>2. /\ new.op = "read" /\ new.io = "none" /\ new.mov /\ new.t = x.t /\ new.piece = x.piece
        /\ new.call = x.call /\ new.where = x.where /\ new.data = x.data
    BY <1>11, <1>19, <2>1 DEF Buffer
  <2>3. Elements(x.piece.part) \subseteq Elements(x.piece.chunk)
    BY <1>1, <1>9, <1>10, PieceFact
  <2>4. Carries(p, new)'
    BY <1>2, <1>9, <1>10, <1>14, <1>19, <2>2, <2>3 DEF Carries, Right
  <2>5. Unmoved(p, x.t, x.piece)'
    BY <1>12, <2>2 DEF Unmoved, Busy
  <2>6. \A t \in Issued : \A y \in Mine(p, t) :
          \/ buf[p][n].t = t /\ buf[p][n].piece = y /\ Busy(buf[p][n])
          \/ Moving(p) /\ Call(p).t = t /\ left'[p] # left[p] /\ y = Head(left[p])
          => Unmoved(p, t, y)' \/ Arrived(t, y)'
    BY <1>4, <1>9, <2>5
  <2>7. Busy(new) => ~ Settled(p, new.t)
    BY <1>15, <2>2
  <2>8. QED
    BY <1>1, <1>2, <1>9, <1>12, <1>13, <1>16, <1>17, <2>1, <2>4, <2>6, <2>7, WorkKeeps
<1>20. QED
  BY <1>10, <1>18, <1>19

(* A piece is begun in a buffer that is as good as new.                    *)
LEMMA BeginPieceDelivers ==
  ASSUME Decomposed, WellPlaced, IInv, DInv, NEW p \in Proc, BeginPiece(p)
  PROVE  DInv'
<1>1. /\ Types /\ CallsSound /\ Buffers /\ Books /\ Asked /\ Settlement /\ Carried /\ Named
      /\ Apart /\ Expected /\ WritesOwed
      /\ buf \in [Proc -> [1..NBuf -> Buffer]] /\ left \in [Proc -> Seq(PieceSet)]
  BY NamedFact DEF IInv, DInv, Types
<1>2. PICK n : n = NextBuf(p)
  OBVIOUS
<1>3. PICK y : y = Head(left[p])
  OBVIOUS
<1>t. PICK t : t = Call(p).t
  OBVIOUS
<1>4. PICK old : old = Taken(p, n)
  OBVIOUS
<1>5. PICK kind : kind = IF y.align THEN Call(p).kind ELSE "cover"
  OBVIOUS
<1>6. PICK mine : mine =
        [old EXCEPT
           !.active = TRUE, !.call = handle[p][t],
           !.t = t, !.align = y.align, !.piece = y,
           !.where = Placing(y), !.op = kind,
           !.callback = IF y.align THEN Call(p).kind = "read" ELSE old.callback]
  OBVIOUS
<1> DEFINE writes == y.align /\ Call(p).kind = "write"
<1>7. PICK new : new = IF writes THEN Written(p, Loaded(mine)) ELSE Read(p, mine)
  OBVIOUS
<1>8. PICK x : x = buf[p][n]
  OBVIOUS
<1>9. /\ Moving(p) /\ In(p, {"write", "read"}, Work) /\ left[p] # <<>>
      /\ \A b \in 1..NBuf : buf[p][b].op # "cover"
      /\ x.active => Waited(x)
      /\ got' = IF x.active THEN GaAfterWait(x) ELSE got
      /\ buf' = [buf EXCEPT ![p][n] = new]
      /\ disk' = IF writes THEN DiskWritten(p, Loaded(mine)) ELSE disk
      /\ left' = IF y.align THEN [left EXCEPT ![p] = Tail(@)] ELSE left
      /\ UNCHANGED <<prog, at, handle, known, asked, file, want>>
  BY <1>2, <1>3, <1>4, <1>5, <1>6, <1>7, <1>8, <1>t DEF BeginPiece, Placing, Moving
<1>10. n \in 1..NBuf
  BY <1>1, <1>2, NextBufFact
<1>11. /\ t \in Issued /\ t \notin Complete /\ y \in Mine(p, t)
       /\ Call(p).kind \in {"write", "read"} /\ asked[t].op = Call(p).kind
       /\ t \in DOMAIN asked /\ t \in 1..MaxTransfers
       /\ handle[p][t] \in Slots /\ handle[p][t] # None
  <2>1. /\ Call(p).t \in Issued /\ Call(p).t \notin Complete /\ y \in Mine(p, Call(p).t)
        /\ Call(p).kind \in {"write", "read"} /\ asked[Call(p).t].op = Call(p).kind
    BY <1>1, <1>3, <1>9, OpenTransfer
  <2>2. Call(p).t \in DOMAIN asked /\ Call(p).t \in 1..MaxTransfers
    BY <1>1, <2>1, CallFact DEF Issued
  <2>3. handle[p][Call(p).t] \in Slots
    BY <1>1, <1>9 DEF Named, In, Work
  <2>4. QED
    BY <2>1, <2>2, <2>3, <1>t, Numbers
<1>12. /\ old \in Buffer /\ old.io = "none" /\ ~ old.callback /\ ~ old.mov /\ ~ x.mov
  BY <1>1, <1>4, <1>8, <1>9, <1>10, TakenFact
<1>13. /\ y \in PieceSet /\ y.align \in BOOLEAN /\ Placing(y) \in Wheres
       /\ Elements(y.part) \subseteq Elements(y.chunk)
  <2>1. y \in PieceSet /\ Elements(y.part) \subseteq Elements(y.chunk)
    BY <1>1, <1>11, PieceFact
  <2>2. QED
    BY <2>1 DEF Decomposed, Wheres
<1>14. kind \in {"cover", "write", "read"} /\ kind \in Ops
  BY <1>5, <1>11 DEF Ops
<1>15. /\ mine \in Buffer /\ mine.active /\ mine.call = handle[p][t]
       /\ mine.t = t /\ mine.align = y.align /\ mine.piece = y
       /\ mine.where = Placing(y) /\ mine.op = kind /\ mine.io = "none" /\ ~ mine.mov
       /\ (mine.callback <=> y.align /\ Call(p).kind = "read")
  BY <1>6, <1>11, <1>12, <1>13, <1>14 DEF Buffer
<1>16. Placed(mine)
  BY <1>13, <1>15 DEF Placed
<1>29. Ready(p, mine)
  BY <1>11, <1>15, <1>16 DEF Ready
<1>17. /\ \A q \in Proc, b \in 1..NBuf : q # p \/ b # n => buf'[q][b] = buf[q][b]
       /\ buf'[p][n] = new
  BY <1>1, <1>9, <1>10
<1>18. /\ \A q \in Proc : q # p => left'[q] = left[q]
       /\ left'[p] = IF y.align THEN Tail(left[p]) ELSE left[p]
  BY <1>1, <1>9
<1>19. /\ got' = [u \in 1..MaxTransfers |-> got'[u]]
       /\ Busy(x) => Arrived(x.t, x.piece)'
       /\ \A u \in Issued, q \in Proc : \A z \in Mine(q, u) : Delivered(u, z) => Delivered(u, z)'
  <2>1. CASE x.active
    <3>1. x.op # "cover" /\ Waited(x) /\ got' = GaAfterWait(x) /\ UNCHANGED <<asked, want>>
      BY <1>8, <1>9, <1>10, <2>1
    <3>2. /\ got' = [u \in 1..MaxTransfers |-> got'[u]]
          /\ Busy(x) /\ ~ x.mov => asked[x.t].op = "read" /\ Delivered(x.t, x.piece)'
          /\ \A u \in Issued, q \in Proc : \A z \in Mine(q, u) :
               Delivered(u, z) => Delivered(u, z)'
      BY <1>8, <1>10, <3>1, WaitedArrives
    <3>3. QED
      BY <1>12, <3>1, <3>2 DEF Arrived
  <2>2. CASE ~ x.active
    <3>1. got' = got /\ want' = want
      BY <1>9, <2>2
    <3>2. BufferSound(x, Call(p).kind, at[p].stage, left[p], Len(asked))
      BY <1>1, <1>8, <1>10 DEF Buffers, Sound
    <3>3. ~ Busy(x)
      BY <1>12, <2>2, <3>2 DEF Busy, BufferSound
    <3>4. \A u, z : Delivered(u, z) => Delivered(u, z)'
      BY <3>1 DEF Delivered
    <3>5. QED
      BY <1>1, <3>1, <3>3, <3>4 DEF Books
  <2>3. QED
    BY <2>1, <2>2
<1>20. Books'
  BY <1>1, <1>9, <1>19 DEF Books
<1>21. Mine(p, t)' = Mine(p, t) /\ Call(p)' = Call(p)
  BY <1>9 DEF Mine, Call
<1>22. ~ Settled(p, t)
  BY <1>9, <1>t DEF Settled
<1>27. /\ Moving(p) /\ left[p] # <<>> /\ \A b \in 1..NBuf : buf[p][b].op # "cover"
       /\ UNCHANGED <<prog, at, handle, known, asked, file, want>>
  BY <1>9
<1>25. left'[p] = left[p] \/ left'[p] = Tail(left[p])
  BY <1>18
<1>28. \A q \in Proc : q # p => left'[q] = left[q]
  BY <1>18
<1>23. CASE writes
  <2>1. /\ Becomes(mine, new) /\ new.io \in {"none", "write"}
        /\ \A e \in Elements(y.chunk) : Right(new, e)
        /\ new.io = "none" => Arrived(t, y)'
        /\ DiskGains
    <3>1. Elements(y.part) = Elements(y.chunk)
      BY <1>13, <1>23 DEF Decomposed
    <3>2. new = Written(p, Loaded(mine)) /\ disk' = DiskWritten(p, Loaded(mine))
      BY <1>7, <1>9, <1>23
    <3>3. mine.op = "write" /\ mine.piece.align
      BY <1>5, <1>15, <1>23
    <3>4. UNCHANGED <<asked, file>>
      BY <1>9
    <3>5. asked[mine.t].op = "write"
      BY <1>11, <1>15, <1>23
    <3>6. \A e \in Elements(mine.piece.chunk) : e \in Elements(mine.piece.part) \/ Right(mine, e)
      BY <1>15, <3>1
    <3>7. /\ Becomes(mine, new) /\ new.io \in {"none", "write"}
          /\ \A e \in Elements(mine.piece.chunk) : Right(new, e)
          /\ new.io = "none" => Arrived(mine.t, mine.piece)'
          /\ DiskGains
      BY <1>1, <1>29, <3>2, <3>3, <3>4, <3>5, <3>6, WriteBegins
    <3>8. QED
      BY <1>15, <3>7
  <2>2. /\ new.op = "write" /\ new.t = t /\ new.piece = y /\ new.active
        /\ new.call = handle[p][t]
    BY <1>5, <1>15, <1>23, <2>1 DEF Becomes
  <2>3. Carries(p, new)'
    BY <1>9, <1>11, <1>21, <1>23, <2>1, <2>2 DEF Carries, Right
  <2>4. Unmoved(p, t, y)' \/ Arrived(t, y)'
    <3>1. CASE new.io = "none"
      BY <2>1, <3>1
    <3>2. CASE new.io = "write"
      BY <1>10, <1>17, <2>2, <3>2 DEF Unmoved, Busy
    <3>3. QED
      BY <2>1, <3>1, <3>2
  <2>5. Busy(new) => ~ Settled(p, new.t)
    BY <1>22, <2>2
  <2>6. \A u \in Issued : \A z \in Mine(p, u) :
          \/ buf[p][n].t = u /\ buf[p][n].piece = z /\ Busy(buf[p][n])
          \/ Moving(p) /\ Call(p).t = u /\ left'[p] # left[p] /\ z = Head(left[p])
          => Unmoved(p, u, z)' \/ Arrived(u, z)'
    BY <1>3, <1>8, <1>19, <1>t, <2>4
  <2>7. /\ DOMAIN disk' = DOMAIN disk
        /\ \A l \in DOMAIN disk : disk'[l] = disk[l] \/ disk'[l] = file[l]
    BY <2>1 DEF DiskGains
  <2>8. QED
    BY <1>1, <1>10, <1>17, <1>19, <1>20, <1>25, <1>28, <1>27, <2>3, <2>5, <2>6, <2>7, WorkKeeps
<1>24. CASE ~ writes
  <2>1. /\ Becomes(mine, new) /\ new.io \in {"none", "read"}
        /\ new.io = "none" => \A e \in Elements(y.chunk) :
             Right(new, e) \/ (e \in Elements(y.part) /\ asked[t].op # "read")
    <3>1. new = Read(p, mine)
      BY <1>7, <1>24
    <3>3. /\ Becomes(mine, new) /\ new.io \in {"none", "read"}
          /\ new.io = "none" => \A e \in Elements(mine.piece.chunk) :
               Right(new, e) \/ (e \in Elements(mine.piece.part) /\ asked[mine.t].op # "read")
      BY <1>1, <1>29, <3>1, ReadBegins
    <3>4. QED
      BY <1>15, <3>3
  <2>2. /\ new.op = kind /\ new.t = t /\ new.piece = y /\ new.active
        /\ new.call = handle[p][t] /\ ~ new.mov
        /\ (new.callback <=> y.align /\ Call(p).kind = "read")
    BY <1>15, <2>1 DEF Becomes
  <2>3. (kind = "cover" /\ ~ y.align) \/ (kind = "read" /\ y.align /\ Call(p).kind = "read")
    <3>1. CASE y.align
      BY <1>5, <1>11, <1>24, <3>1
    <3>2. CASE ~ y.align
      BY <1>5, <3>2
    <3>3. QED
      BY <3>1, <3>2
  <2>4. disk' = disk
    BY <1>9, <1>24
  <2>5. kind = "cover" => left'[p] = left[p]
    BY <1>5, <1>11, <1>18
  <2>6. Carries(p, new)'
    <3>1. /\ asked'[t].op = asked[t].op /\ handle'[p][t] = handle[p][t] /\ t \in DOMAIN asked'
          /\ y \in Mine(p, t)' /\ Call(p)' = Call(p)
          /\ \A e : Right(new, e)' <=> Right(new, e)
      BY <1>9, <1>11, <1>21 DEF Right
    <3>2. CASE kind = "cover"
      <4>1. ~ Busy(new)
        BY <2>2, <3>2 DEF Busy
      <4>2. y = Head(left'[p]) /\ left'[p] # <<>> /\ t = Call(p)'.t
        BY <1>3, <1>9, <1>t, <2>5, <3>1, <3>2
      <4>3. new.io # "read" => \A e \in Elements(y.chunk) :
              Right(new, e) \/ (e \in Elements(y.part) /\ asked[t].op = "write")
        BY <1>11, <2>1
      <4>4. QED
        BY <1>11, <2>1, <2>2, <3>1, <3>2, <4>1, <4>2, <4>3 DEF Carries, Busy
    <3>3. CASE kind = "read" /\ y.align /\ Call(p).kind = "read"
      <4>1. new.io # "read" => \A e \in Elements(y.part) : Right(new, e)
        BY <1>11, <1>13, <2>1, <3>3
      <4>2. QED
        BY <1>11, <2>1, <2>2, <3>1, <3>3, <4>1 DEF Carries, Busy
    <3>4. QED
      BY <2>3, <3>2, <3>3
  <2>7. kind = "read" => Unmoved(p, t, y)'
    BY <1>10, <1>17, <2>2, <2>3 DEF Unmoved, Busy
  <2>8. left'[p] # left[p] => kind = "read"
    BY <1>18, <2>3
  <2>9. Busy(new) => ~ Settled(p, new.t)
    BY <1>22, <2>2
  <2>10. \A u \in Issued : \A z \in Mine(p, u) :
          \/ buf[p][n].t = u /\ buf[p][n].piece = z /\ Busy(buf[p][n])
          \/ Moving(p) /\ Call(p).t = u /\ left'[p] # left[p] /\ z = Head(left[p])
          => Unmoved(p, u, z)' \/ Arrived(u, z)'
    BY <1>3, <1>8, <1>19, <1>t, <2>7, <2>8
  <2>11. QED
    BY <1>1, <1>10, <1>17, <1>19, <1>20, <1>25, <1>28, <1>27, <2>4, <2>6, <2>9, <2>10, WorkKeeps
<1>26. QED
  BY <1>23, <1>24

-----------------------------------------------------------------------------
(* The steps to another stage of a call.                                   *)

(* Buffer y has what x has, and as much yet to do.                         *)
Alike(x, y) ==
  /\ y.t = x.t /\ y.piece = x.piece /\ y.op = x.op /\ y.call = x.call
  /\ y.where = x.where /\ y.data = x.data /\ (y.active => x.active)
  /\ (y.io = "read" <=> x.io = "read") /\ (y.io = "write" <=> x.io = "write")
  /\ (Busy(y) <=> Busy(x))
  /\ y.op = "read" /\ y.io = "read" => (y.callback <=> x.callback) /\ (y.mov <=> x.mov)

(* A process advances that is not in the middle of a transfer.  When it    *)
(* begins one, it has all its pieces before it; when it is through with a  *)
(* wait or a probe, or learns that a transfer is complete, that transfer   *)
(* is settled.                                                             *)
LEMMA AdvanceKeeps ==
  ASSUME Types, CallsSound, Buffers, DInv, NEW p \in Proc, NEW s, Advances(p, s),
         UNCHANGED <<file, want, disk, got>>,
         \A q \in Proc, b \in 1..NBuf : Alike(buf[q][b], buf'[q][b]),
         \A q \in Proc : q # p => handle'[q] = handle[q] /\ left'[q] = left[q],
         \A t \in Issued : handle'[p][t] = handle[p][t] \/ (Moving(p)' /\ t = Call(p).t),
         Moving(p) => left[p] = <<>>,
         Moving(p)' => handle[p][Call(p).t] = None /\ ToSet(left'[p]) = Mine(p, Call(p).t),
         \A k \in DOMAIN prog : Tells(prog'[k]) => Tells(prog[k]),
         Tells(prog'[at[p].n]) /\ s >= Leave2 =>
           at[p].stage >= Leave2 \/ Settled(p, Call(p).t),
         Call(p).kind = "wait" /\ s = Enter2 =>
           \A b \in 1..NBuf : buf[p][b].t = Call(p).t => ~ buf[p][b].active,
         Complete \subseteq Complete',
         \A t \in Complete' : t \notin Complete =>
           t \in Issued /\ \A q \in Proc : Settled(q, t)
  PROVE  DInv'
<1>1. /\ Books /\ Asked /\ Settlement /\ Carried /\ Apart /\ Expected /\ WritesOwed /\ ReadsOwed
      /\ UNCHANGED asked /\ \A k \in DOMAIN prog : prog'[k].kind = prog[k].kind /\ prog'[k].t = prog[k].t
  BY DEF DInv, Advances
<1>2. /\ DOMAIN prog' = DOMAIN prog /\ at'[p].stage = s
      /\ \A q \in Proc :
           /\ Call(q)'.kind = Call(q).kind /\ Call(q)'.t = Call(q).t
           /\ at'[q].n = at[q].n /\ (q # p => at'[q].stage = at[q].stage)
  BY AdvanceFacts
<1>3. /\ Issued' = Issued /\ \A q \in Proc : \A t : Mine(q, t)' = Mine(q, t)
      /\ \A q \in Proc : q # p => (Moving(q)' <=> Moving(q))
  BY <1>1, <1>2 DEF Issued, Mine, Moving, In
<1>4. \A q \in Proc : \A t \in Issued : handle[q][t] # None => handle'[q][t] = handle[q][t]
  OBVIOUS
<1>5. ASSUME NEW q \in Proc, NEW b \in 1..NBuf
      PROVE  /\ Alike(buf[q][b], buf'[q][b]) /\ (Busy(buf[q][b])' <=> Busy(buf[q][b]))
             /\ q = p => buf[q][b].op # "cover"
  <2>1. Alike(buf[q][b], buf'[q][b])
    OBVIOUS
  <2>2. Busy(buf[q][b])' <=> Busy(buf[q][b])
    BY <2>1 DEF Alike, Busy
  <2>3. q = p => buf[q][b].op # "cover"
    BY DEF Buffers, Sound, BufferSound, Moving, In
  <2>4. QED
    BY <2>1, <2>2, <2>3
<1>6. ASSUME NEW q \in Proc, NEW t \in Issued, Settled(q, t)
      PROVE  Settled(q, t)'
  <2>1. handle'[q][t] # None
    BY <1>4, <1>6 DEF Settled
  <2>2. Moving(q)' /\ Call(q)'.t = t => left'[q] = <<>>
    BY <1>2, <1>3, <1>6 DEF Settled
  <2>3. \A b \in 1..NBuf : buf'[q][b].t = t => ~ Busy(buf[q][b])'
    BY <1>5, <1>6 DEF Settled, Alike
  <2>4. QED
    BY <2>1, <2>2, <2>3 DEF Settled
<1>7. Books'
  <2>1. UNCHANGED <<file, got, want>>
    OBVIOUS
  <2>2. QED
    BY <1>1, <2>1 DEF Books
<1>8. Asked'
  <2>1. \A k \in DOMAIN prog' : prog'[k].kind \in {"write", "read"}
          => asked'[prog'[k].t].op = prog'[k].kind
    BY <1>1, <1>2 DEF Asked
  <2>2. \A q \in Proc : Moving(q)' => ToSet(left'[q]) \subseteq Mine(q, Call(q).t)'
    BY <1>1, <1>2, <1>3 DEF Asked, Mine
  <2>3. QED
    BY <2>1, <2>2 DEF Asked
<1>9. Settlement'
  <2>1. Complete' \subseteq Issued'
    BY <1>1, <1>3 DEF Settlement
  <2>2. \A t \in Complete', q \in Proc : Settled(q, t)'
    BY <1>1, <1>6 DEF Settlement
  <2>3. ASSUME NEW k \in DOMAIN prog', NEW q \in Proc, Tells(prog'[k]), Reached(q, k, Leave2)'
        PROVE  Settled(q, prog[k].t)'
    <3>0. PICK t : t = prog[k].t
      OBVIOUS
    <3>1. Tells(prog[k]) /\ prog'[k].t = t /\ k \in DOMAIN prog
      BY <1>1, <1>2, <2>3, <3>0
    <3>2. t \in Issued
      BY <3>0, <3>1 DEF Tells, CallsSound, Issued
    <3>6. Settled(q, t)' => Settled(q, prog[k].t)'
      BY <3>1 DEF Settled
    <3>3. CASE Reached(q, k, Leave2)
      <4>1. Settled(q, t)
        BY <1>1, <3>0, <3>1, <3>3 DEF Settlement
      <4>2. QED
        BY <1>6, <3>2, <3>6, <4>1
    <3>4. CASE ~ Reached(q, k, Leave2)
      <4>1. q = p /\ at[p].n = k /\ s >= Leave2 /\ ~ (at[p].stage >= Leave2)
        BY <1>2, <2>3, <3>4 DEF Reached
      <4>2. Settled(p, Call(p).t) /\ Call(p).t = t
        BY <2>3, <3>0, <4>1 DEF Call
      <4>3. QED
        BY <1>6, <3>2, <3>6, <4>1, <4>2
    <3>5. QED
      BY <3>3, <3>4
  <2>4. ASSUME NEW q \in Proc, NEW b \in 1..NBuf,
               In(q, {"wait"}, Enter2)', buf'[q][b].t = Call(q)'.t, buf'[q][b].active
        PROVE  FALSE
    <3>1. buf[q][b].t = Call(q).t /\ buf[q][b].active
      BY <1>2, <1>5, <2>4 DEF Alike
    <3>2. CASE q = p
      BY <1>2, <2>4, <3>1, <3>2 DEF In
    <3>3. CASE q # p
      <4>1. In(q, {"wait"}, Enter2)
        BY <1>2, <2>4, <3>3 DEF In
      <4>2. QED
        BY <1>1, <3>1, <4>1 DEF Settlement
    <3>4. QED
      BY <3>2, <3>3
  <2>5. QED
    BY <2>1, <2>2, <2>3, <2>4 DEF Settlement
<1>10. Carried'
  <2>1. ASSUME NEW q \in Proc, NEW b \in 1..NBuf
        PROVE  Carries(q, buf[q][b])'
    <3>0. PICK x : x = buf[q][b]
      OBVIOUS
    <3>1. Carries(q, x)
      BY <1>1, <3>0 DEF Carried
    <3>2. PICK new : new = buf'[q][b]
      OBVIOUS
    <3>3. Alike(x, new)
      BY <1>5, <3>0, <3>2
    <3>4. new.op # "none" =>
            /\ new.t \in DOMAIN asked' /\ new.call = handle'[q][new.t] /\ new.call # None
            /\ new.piece \in Mine(q, new.t)'
            /\ new.op # "cover" => asked'[new.t].op = new.op
      <4>1. x.op # "none" => x.t \in Issued /\ handle'[q][x.t] = handle[q][x.t]
        BY <1>4, <3>1 DEF Carries, Issued
      <4>2. \A t : Mine(q, t)' = Mine(q, t)
        BY <1>3
      <4>3. QED
        BY <1>1, <3>1, <3>3, <4>1, <4>2 DEF Carries, Alike
    <3>5. new.op = "cover" => new.t = Call(q)'.t /\ left'[q] # <<>> /\ new.piece = Head(left'[q])
      <4>1. x.op = "cover" => x.t = Call(q).t /\ left[q] # <<>> /\ x.piece = Head(left[q])
        BY <3>1 DEF Carries
      <4>2. new.op = x.op /\ new.t = x.t /\ new.piece = x.piece
        BY <3>3 DEF Alike
      <4>3. x.op = "cover" => left'[q] = left[q]
        BY <1>5, <3>0
      <4>4. QED
        BY <1>2, <4>1, <4>2, <4>3
    <3>6. /\ new.op = "read" /\ new.io = "read" => new.callback /\ ~ new.mov
          /\ new.op = "cover" /\ new.io # "read" =>
               \A e \in Elements(new.piece.chunk) :
                 Right(new, e)' \/ (e \in Elements(new.piece.part) /\ asked'[new.t].op = "write")
          /\ new.op = "write" /\ new.io = "write" =>
               \A e \in Elements(new.piece.chunk) : Right(new, e)'
      BY <1>1, <3>1, <3>3 DEF Carries, Alike, Right
    <3>7. new.op = "read" /\ Busy(new) /\ new.io # "read" =>
            \A e \in Elements(new.piece.part) : Right(new, e)'
      BY <3>1, <3>3 DEF Carries, Alike, Right
    <3>8. Carries(q, new)'
      BY <3>4, <3>5, <3>6, <3>7 DEF Carries, Busy, Right
    <3>9. QED
      BY <3>2, <3>8 DEF Carries, Busy, Right
  <2>2. QED
    BY <2>1 DEF Carried
<1>11. Apart' /\ Expected'
  BY <1>1, <1>3 DEF Apart, Expected
<1>12. ASSUME NEW t \in Issued, NEW q \in Proc, NEW y \in Mine(q, t), Unmoved(q, t, y)
       PROVE  Unmoved(q, t, y)'
  <2>1. CASE handle[q][t] = None
    <3>1. CASE handle'[q][t] = None
      BY <3>1 DEF Unmoved
    <3>2. CASE handle'[q][t] # None
      <4>1. q = p /\ Moving(p)' /\ t = Call(p).t
        BY <2>1, <3>2
      <4>2. QED
        BY <1>2, <4>1 DEF Unmoved
    <3>3. QED
      BY <3>1, <3>2
  <2>2. CASE Moving(q) /\ Call(q).t = t /\ y \in ToSet(left[q])
    <3>1. q # p
      <4>1. ToSet(<<>>) = {}
        BY DEF ToSet
      <4>2. QED
        BY <2>2, <4>1
    <3>2. QED
      BY <1>2, <1>3, <2>2, <3>1 DEF Unmoved
  <2>3. CASE \E b \in 1..NBuf : buf[q][b].t = t /\ buf[q][b].piece = y /\ Busy(buf[q][b])
    BY <1>5, <2>3 DEF Unmoved, Alike
  <2>4. QED
    BY <1>12, <2>1, <2>2, <2>3 DEF Unmoved
<1>13. WritesOwed' /\ ReadsOwed'
  <2>1. \A t, y : Delivered(t, y)' <=> Delivered(t, y)
    BY DEF Delivered
  <2>2. QED
    BY <1>1, <1>12, <2>1, OwedStays
<1>14. QED
  BY <1>7, <1>8, <1>9, <1>10, <1>11, <1>13 DEF DInv

(* A buffer that does not change.                                          *)
LEMMA SameBuffers ==
  ASSUME buf' = buf
  PROVE  \A q \in Proc, b \in 1..NBuf : Alike(buf[q][b], buf'[q][b])
BY DEF Alike

(* A process enters or leaves a pnga_sync.  In that of a wait it has no    *)
(* active buffer of the transfer, and leaves none with a put under way:    *)
(* when all have entered it, the transfer is settled everywhere.           *)
LEMMA SyncDelivers ==
  ASSUME IInv, DInv, NEW p \in Proc, Sync(p)
  PROVE  DInv'
<1>0. PICK t : t = Call(p).t
  OBVIOUS
<1>1. Types /\ CallsSound /\ TablesInStep /\ Buffers /\ Settlement
  BY DEF IInv, DInv
<1>2. /\ Call(p).kind \in {"write", "read", "wait"} /\ at[p].stage \in {Enter1, Enter2, Leave2}
      /\ UNCHANGED <<prog, left, buf, handle, disk, got, asked, file, want>>
  BY DEF Sync, In
<1>3. PICK s : /\ Goto(p, s)
               /\ \/ /\ s = Leave1 /\ at[p].stage = Enter1
                     /\ Call(p).kind \in {"write", "read"} /\ known' = known
                  \/ /\ s = Leave2 /\ at[p].stage = Enter2 /\ Fenced(p)
                     /\ Call(p).kind \in {"write", "wait"} /\ known' = known
                  \/ /\ s = Out /\ at[p].stage = Leave2 /\ AllReached(at[p].n, Leave2)
                     /\ Call(p).kind \in {"write", "wait"}
                     /\ known' = IF Call(p).kind = "wait"
                                 THEN [known EXCEPT ![p] = @ \cup {t}] ELSE known
  <2>1. CASE In(p, {"write", "read"}, Enter1) /\ Goto(p, at[p].stage + 1) /\ known' = known
    BY <2>1 DEF In, Enter1, Leave1
  <2>2. CASE In(p, {"write", "wait"}, Enter2) /\ Fenced(p) /\ Goto(p, at[p].stage + 1)
             /\ known' = known
    BY <2>2 DEF In, Enter2, Leave2
  <2>3. CASE In(p, {"write", "wait"}, Leave2) /\ AllReached(at[p].n, Leave2) /\ Goto(p, Out)
             /\ known' = IF Call(p).kind = "wait"
                         THEN [known EXCEPT ![p] = @ \cup {t}] ELSE known
    BY <2>3 DEF In
  <2>4. QED
    BY <1>0, <2>1, <2>2, <2>3 DEF Sync
<1>4. Advances(p, s)
  <2>1. s \in StagesOf(Call(p).kind)
    BY <1>3 DEF StagesOf, Enter1, Leave1, Enter2, Leave2, Work, Out
  <2>2. prog' \in Seq(Calls)
    BY <1>1, <1>2 DEF Types
  <2>3. QED
    BY <1>2, <1>3, <2>1, <2>2 DEF Advances
<1>5. ~ Moving(p) /\ ~ Moving(p)' /\ s # Enter2
  <2>1. at'[p].stage = s
    BY <1>1, <1>4, AdvanceFacts
  <2>2. QED
    BY <1>2, <1>3, <2>1 DEF Moving, In, Enter1, Leave1, Work, Enter2, Leave2, Out
<1>6. Tells(prog'[at[p].n]) /\ s >= Leave2 => at[p].stage >= Leave2 \/ Settled(p, Call(p).t)
  <2> SUFFICES ASSUME Tells(prog[at[p].n]), s >= Leave2, ~ (at[p].stage >= Leave2)
               PROVE  Settled(p, t)
    BY <1>0, <1>2
  <2>1. Call(p).kind = "wait" /\ at[p].stage = Enter2 /\ Fenced(p)
    BY <1>3 DEF Tells, Call, Leave1, Leave2, Enter1, Enter2, Out
  <2>2. handle[p][t] # None
    BY <1>0, <1>1, <2>1, NamedFact, Numbers DEF Named
  <2>3. ASSUME NEW b \in 1..NBuf, buf[p][b].t = t
        PROVE  ~ Busy(buf[p][b])
    <3>1. ~ buf[p][b].active /\ ~ buf[p][b].mov
      BY <1>0, <1>1, <2>1, <2>3 DEF Settlement, In, Fenced
    <3>2. QED
      BY <1>1, <3>1 DEF Busy, Buffers, Sound, BufferSound
  <2>4. QED
    BY <1>5, <2>2, <2>3 DEF Settled
<1>7. /\ Complete \subseteq Complete'
      /\ \A u \in Complete' : u \notin Complete => u \in Issued /\ \A q \in Proc : Settled(q, u)
  <2>1. known \in [Proc -> SUBSET (1..MaxTransfers)]
    BY <1>1 DEF Types
  <2>2. CASE known' = known
    BY <2>2 DEF Complete
  <2>3. CASE /\ AllReached(at[p].n, Leave2) /\ Call(p).kind = "wait"
             /\ known' = [known EXCEPT ![p] = @ \cup {t}]
    <3>1. Complete \subseteq Complete' /\ \A u \in Complete' : u \in Complete \/ u = t
      BY <2>1, <2>3 DEF Complete
    <3>2. t \in Issued /\ at[p].n \in DOMAIN prog
      BY <1>0, <1>1, <2>3, CallFact DEF Issued
    <3>3. Tells(prog[at[p].n]) /\ prog[at[p].n].t = t
      BY <1>0, <2>3 DEF Tells, Call
    <3>4. \A q \in Proc : Reached(q, at[p].n, Leave2)
      BY <2>3 DEF AllReached, Reached
    <3>5. \A q \in Proc : Settled(q, t)
      BY <1>1, <3>2, <3>3, <3>4 DEF Settlement
    <3>6. QED
      BY <3>1, <3>2, <3>5
  <2>4. QED
    BY <1>3, <2>2, <2>3
<1>8. \A q \in Proc, b \in 1..NBuf : Alike(buf[q][b], buf'[q][b])
  BY <1>2, SameBuffers
<1>9. /\ UNCHANGED <<file, want, disk, got>>
      /\ \A q \in Proc : q # p => handle'[q] = handle[q] /\ left'[q] = left[q]
      /\ \A u \in Issued : handle'[p][u] = handle[p][u]
      /\ \A k \in DOMAIN prog : Tells(prog'[k]) => Tells(prog[k])
  BY <1>2
<1>10. QED
  BY <1>1, <1>4, <1>5, <1>6, <1>7, <1>8, <1>9, AdvanceKeeps

(* A transfer gets its request handle, and a process its pieces of it.     *)
LEMMA AssignRequestDelivers ==
  ASSUME IInv, DInv, NEW p \in Proc, AssignRequest(p)
  PROVE  DInv'
<1>0. PICK t : t = Call(p).t
  OBVIOUS
<1>1. Types /\ CallsSound /\ TablesInStep /\ Buffers
  BY DEF IInv
<1>2. PICK i : /\ handle' = [handle EXCEPT ![p][t] = i]
               /\ left' = [left EXCEPT ![p] = MyTurn(p, asked[t].sect)]
  BY <1>0 DEF AssignRequest
<1>3. /\ In(p, {"write", "read"}, Leave1) /\ Call(p).kind \in {"write", "read"}
      /\ at[p].stage = Leave1 /\ Goto(p, Work)
      /\ UNCHANGED <<prog, buf, known, disk, got, asked, file, want>>
  BY DEF AssignRequest, In
<1>4. /\ handle \in [Proc -> [1..MaxTransfers -> Slots \cup {None}]]
      /\ left \in [Proc -> Seq(PieceSet)] /\ prog \in Seq(Calls)
  BY <1>1 DEF Types
<1>5. handle[p][t] = None
  BY <1>0, <1>1, <1>3, AboutToAssign
<1>6. Advances(p, Work)
  BY <1>3, <1>4 DEF Advances, StagesOf, Enter1, Leave1, Work, Out
<1>7. /\ at'[p].stage = Work /\ Call(p)'.kind = Call(p).kind
  BY <1>1, <1>6, AdvanceFacts
<1>8. ~ Moving(p) /\ Moving(p)'
  BY <1>3, <1>7 DEF Moving, In, Leave1, Work
<1>9. /\ \A q \in Proc : q # p => handle'[q] = handle[q] /\ left'[q] = left[q]
      /\ \A u \in Issued : handle'[p][u] = handle[p][u] \/ u = t
      /\ ToSet(left'[p]) = Mine(p, t)
  BY <1>2, <1>4 DEF Mine
<1>10. /\ UNCHANGED <<file, want, disk, got>> /\ Complete' = Complete
       /\ \A k \in DOMAIN prog : Tells(prog'[k]) => Tells(prog[k])
       /\ ~ Tells(prog'[at[p].n]) /\ Call(p).kind # "wait"
  BY <1>3 DEF Complete, Tells, Call
<1>11. \A q \in Proc, b \in 1..NBuf : Alike(buf[q][b], buf'[q][b])
  BY <1>3, SameBuffers
<1>12. QED
  BY <1>0, <1>1, <1>5, <1>6, <1>8, <1>9, <1>10, <1>11, AdvanceKeeps

(* A process has no piece left.                                            *)
LEMMA EndTransferDelivers ==
  ASSUME IInv, DInv, NEW p \in Proc, EndTransfer(p)
  PROVE  DInv'
<1> DEFINE s == IF Call(p).kind = "write" THEN Enter2 ELSE Out
<1>1. Types /\ CallsSound /\ Buffers
  BY DEF IInv
<1>2. /\ Call(p).kind \in {"write", "read"} /\ left[p] = <<>> /\ Goto(p, s)
      /\ UNCHANGED <<prog, left, buf, handle, known, disk, got, asked, file, want>>
  BY DEF EndTransfer, In
<1>3. prog \in Seq(Calls)
  BY <1>1 DEF Types
<1>4. Advances(p, s)
  BY <1>2, <1>3 DEF Advances, StagesOf, Enter1, Leave1, Work, Enter2, Out
<1>5. at'[p].stage = s /\ s # Work
  BY <1>1, <1>4, AdvanceFacts DEF Enter2, Out, Work
<1>6. ~ Moving(p)'
  BY <1>5 DEF Moving, In
<1> HIDE DEF s
<1>7. /\ UNCHANGED <<file, want, disk, got>> /\ Complete' = Complete
      /\ \A q \in Proc : q # p => handle'[q] = handle[q] /\ left'[q] = left[q]
      /\ \A u \in Issued : handle'[p][u] = handle[p][u]
      /\ \A k \in DOMAIN prog : Tells(prog'[k]) => Tells(prog[k])
      /\ ~ Tells(prog'[at[p].n]) /\ Call(p).kind # "wait"
  BY <1>2 DEF Complete, Tells, Call
<1>8. \A q \in Proc, b \in 1..NBuf : Alike(buf[q][b], buf'[q][b])
  BY <1>2, SameBuffers
<1>9. QED
  BY <1>1, <1>2, <1>4, <1>6, <1>7, <1>8, AdvanceKeeps

(* A wait has completed all buffers of its request: none is active.        *)
LEMMA WaitCompletesDelivers ==
  ASSUME IInv, DInv, NEW p \in Proc, WaitCompletes(p)
  PROVE  DInv'
<1>1. Types /\ CallsSound /\ Buffers /\ Carried
  BY DEF IInv, DInv
<1>2. /\ Call(p).kind = "wait" /\ Goto(p, Enter2) /\ ActiveOf(p, handle[p][Call(p).t]) = {}
      /\ UNCHANGED <<prog, left, buf, handle, known, disk, got, asked, file, want>>
  BY DEF WaitCompletes, In
<1>3. prog \in Seq(Calls)
  BY <1>1 DEF Types
<1>4. Advances(p, Enter2)
  BY <1>2, <1>3 DEF Advances, StagesOf, Work, Enter2, Leave2, Out
<1>5. Call(p)'.kind = Call(p).kind
  BY <1>1, <1>4, AdvanceFacts
<1>6. ~ Moving(p) /\ ~ Moving(p)'
  BY <1>2, <1>5 DEF Moving, In
<1>7. \A b \in 1..NBuf : buf[p][b].t = Call(p).t => ~ buf[p][b].active
  <2>1. ASSUME NEW b \in 1..NBuf, buf[p][b].t = Call(p).t, buf[p][b].active
        PROVE  FALSE
    <3>1. buf[p][b].op # "none"
      BY <1>1, <2>1 DEF Buffers, Sound, BufferSound
    <3>2. buf[p][b].call = handle[p][Call(p).t]
      BY <1>1, <2>1, <3>1 DEF Carried, Carries
    <3>3. QED
      BY <1>2, <2>1, <3>2 DEF ActiveOf
  <2>2. QED
    BY <2>1
<1>8. /\ UNCHANGED <<file, want, disk, got>> /\ Complete' = Complete
      /\ \A q \in Proc : q # p => handle'[q] = handle[q] /\ left'[q] = left[q]
      /\ \A u \in Issued : handle'[p][u] = handle[p][u]
      /\ \A k \in DOMAIN prog : Tells(prog'[k]) => Tells(prog[k])
      /\ ~ (Enter2 >= Leave2)
  BY <1>2 DEF Complete, Enter2, Leave2
<1>9. \A q \in Proc, b \in 1..NBuf : Alike(buf[q][b], buf'[q][b])
  BY <1>2, SameBuffers
<1>10. QED
  BY <1>1, <1>4, <1>6, <1>7, <1>8, <1>9, AdvanceKeeps

(* A probe that finds all buffers of a request done has found the transfer *)
(* settled: what it has begun is on disk or in the global array.           *)
LEMMA ProbeScanDelivers ==
  ASSUME IInv, DInv, NEW p \in Proc, ProbeScan(p)
  PROVE  DInv'
<1> DEFINE n == at[p].n
           bufs == OfCall(p, Probing(p))
           done == prog[n].done /\ \A b \in bufs : Probed(buf[p][b])
           g == [b \in 1..NBuf |-> IF b \in bufs THEN AfterProbe(buf[p][b]) ELSE buf[p][b]]
<1>0. PICK t : t = Call(p).t
  OBVIOUS
<1>1. Types /\ CallsSound /\ TablesInStep /\ Buffers /\ Carried
  BY DEF IInv, DInv
<1>2. /\ buf \in [Proc -> [1..NBuf -> Buffer]] /\ prog \in Seq(Calls) /\ n \in DOMAIN prog
  BY <1>1, CallFact DEF Types
<1>3. /\ Call(p).kind \in {"probe", "flick"} /\ at[p].stage = Work /\ Goto(p, Leave2)
      /\ UNCHANGED <<left, handle, known, disk, got, asked, file, want>>
  BY DEF ProbeScan, In
<1>4. prog' = [prog EXCEPT ![n] = [prog[n] EXCEPT !.done = done]]
  <2>1. prog' = [prog EXCEPT ![n].done = @ /\ \A b \in bufs : Probed(buf[p][b])]
    BY DEF ProbeScan
  <2> HIDE DEF bufs
  <2>2. QED
    BY <1>2, <2>1
<1>5. buf' = [buf EXCEPT ![p] = g]
  <2>1. buf' = [buf EXCEPT ![p] = [b \in 1..NBuf |->
                     IF b \in bufs THEN AfterProbe(@[b]) ELSE @[b]]]
    BY DEF ProbeScan
  <2> HIDE DEF bufs
  <2>2. QED
    BY <1>2, <2>1
<1>6. done \in BOOLEAN /\ (done => prog[n].done /\ \A b \in bufs : Probed(buf[p][b]))
  <2>1. prog[n] \in Calls
    BY <1>2
  <2>2. QED
    BY <2>1 DEF Calls
<1> HIDE DEF done
<1>7. /\ prog' \in Seq(Calls) /\ Len(prog') = Len(prog)
      /\ \A k \in DOMAIN prog : /\ prog'[k].kind = prog[k].kind /\ prog'[k].t = prog[k].t
                                /\ prog'[k].slot = prog[k].slot
                                /\ (prog'[k].done => prog[k].done)
      /\ (prog'[n].done <=> done)
  <2>1. prog[n] \in Calls
    BY <1>2
  <2> DEFINE c == [prog[n] EXCEPT !.done = done]
  <2>2. /\ c \in Calls /\ c.kind = prog[n].kind /\ c.t = prog[n].t /\ c.slot = prog[n].slot
        /\ c.done = done
    BY <1>6, <2>1 DEF Calls
  <2>3. prog' = [prog EXCEPT ![n] = c]
    BY <1>4
  <2> HIDE DEF c
  <2>4. QED
    BY <1>2, <1>6, <2>2, <2>3
<1>8. Advances(p, Leave2)
  BY <1>3, <1>7 DEF Advances, StagesOf, Work, Leave2, Out
<1>9. Call(p)'.kind = Call(p).kind
  BY <1>1, <1>8, AdvanceFacts
<1>10. ~ Moving(p) /\ ~ Moving(p)'
  BY <1>3, <1>9 DEF Moving, In
<1>11. ASSUME NEW q \in Proc, NEW b \in 1..NBuf
       PROVE  Alike(buf[q][b], buf'[q][b])
  <2>1. buf'[q][b] = buf[q][b] \/ buf'[q][b] = AfterProbe(buf[q][b])
    BY <1>2, <1>5
  <2>2. PICK x : x = buf[q][b] /\ x \in Buffer
    BY <1>2
  <2>3. Alike(x, x)
    BY DEF Alike
  <2>4. Alike(x, AfterProbe(x))
    <3>1. PICK y : y = AfterProbe(x)
      OBVIOUS
    <3>2. /\ y.t = x.t /\ y.piece = x.piece /\ y.op = x.op /\ y.call = x.call
          /\ y.where = x.where /\ y.data = x.data /\ (y.active => x.active)
          /\ y.io = (IF x.io = "ready" THEN "none" ELSE x.io)
          /\ y.callback = x.callback /\ y.mov = x.mov
      BY <2>2, <3>1 DEF AfterProbe, Buffer
    <3>3. QED
      BY <3>1, <3>2 DEF Alike, Busy
  <2>5. QED
    BY <2>1, <2>2, <2>3, <2>4
<1>12. Tells(prog'[n]) => Settled(p, t)
  <2> SUFFICES ASSUME Tells(prog'[n]) PROVE Settled(p, t)
    OBVIOUS
  <2>1. Call(p).kind = "probe" /\ done
    BY <1>2, <1>3, <1>7 DEF Tells, Call
  <2>2. handle[p][t] # None /\ Probing(p) = handle[p][t]
    BY <1>0, <1>1, <2>1, NamedFact, Numbers DEF Named, Probing
  <2>3. ASSUME NEW b \in 1..NBuf, buf[p][b].t = t, Busy(buf[p][b])
        PROVE  FALSE
    <3>1. buf[p][b].op # "none"
      BY <2>3 DEF Busy
    <3>2. buf[p][b].call = handle[p][t]
      BY <1>1, <2>3, <3>1 DEF Carried, Carries
    <3>3. Probed(buf[p][b])
      BY <1>6, <2>1, <2>2, <3>2 DEF OfCall
    <3>4. QED
      BY <1>1, <2>3, <3>3 DEF Probed, Busy, Buffers, Sound, BufferSound
  <2>4. QED
    BY <1>10, <2>2, <2>3 DEF Settled
<1>13. /\ UNCHANGED <<file, want, disk, got>> /\ Complete' = Complete
       /\ \A q \in Proc : q # p => handle'[q] = handle[q] /\ left'[q] = left[q]
       /\ \A u \in Issued : handle'[p][u] = handle[p][u]
       /\ \A k \in DOMAIN prog : Tells(prog'[k]) => Tells(prog[k])
       /\ Call(p).kind # "wait"
  BY <1>3, <1>7 DEF Complete, Tells
<1>14. QED
  BY <1>0, <1>1, <1>8, <1>10, <1>11, <1>12, <1>13, AdvanceKeeps

(* A probe ends: what all processes have found done is complete, or a put  *)
(* is begun for what is off disk.                                          *)
LEMMA ProbeEndsDelivers ==
  ASSUME IInv, DInv, NEW p \in Proc, ProbeEnds(p)
  PROVE  DInv'
<1>0. PICK t : t = Call(p).t
  OBVIOUS
<1>1. Types /\ CallsSound /\ Buffers /\ Settlement
  BY DEF IInv, DInv
<1>2. /\ buf \in [Proc -> [1..NBuf -> Buffer]] /\ prog \in Seq(Calls)
      /\ known \in [Proc -> SUBSET (1..MaxTransfers)] /\ at[p].n \in DOMAIN prog
  BY <1>1, CallFact DEF Types
<1>3. /\ Call(p).kind \in {"probe", "flick"} /\ at[p].stage = Leave2 /\ Goto(p, Out)
      /\ AllReached(at[p].n, Leave2)
      /\ known' = IF Call(p).done /\ Call(p).kind = "probe"
                  THEN [known EXCEPT ![p] = @ \cup {t}] ELSE known
      /\ UNCHANGED <<prog, left, handle, disk, got, asked, file, want>>
  BY <1>0 DEF ProbeEnds, In, Agreed
<1>4. ASSUME NEW q \in Proc, NEW b \in 1..NBuf
      PROVE  Alike(buf[q][b], buf'[q][b])
  <2>1. PICK x : x = buf[q][b] /\ x \in Buffer
    BY <1>2
  <2>2. PICK new : new = [x EXCEPT !.callback = FALSE, !.mov = TRUE]
    OBVIOUS
  <2>3. buf'[q][b] = x \/ (CallbackDue(x) /\ x.io = "none" /\ buf'[q][b] = new)
    <3>1. CASE Call(p).done
      BY <2>1, <3>1 DEF ProbeEnds
    <3>2. CASE ~ Call(p).done
      <4>1. buf' = [buf EXCEPT ![p] = [c \in 1..NBuf |->
                    IF c \in CallbackOf(p)
                    THEN [@[c] EXCEPT !.callback = FALSE, !.mov = TRUE] ELSE @[c]]]
        BY <3>2 DEF ProbeEnds
      <4>2. buf'[q][b] = IF q = p /\ b \in CallbackOf(p) THEN new ELSE x
        BY <1>2, <2>1, <2>2, <4>1
      <4>3. q = p /\ b \in CallbackOf(p) => CallbackDue(x) /\ x.io = "none"
        BY <2>1 DEF CallbackOf
      <4>4. QED
        BY <4>2, <4>3
    <3>3. QED
      BY <3>1, <3>2
  <2>4. Alike(x, x)
    BY DEF Alike
  <2>5. CallbackDue(x) /\ x.io = "none" => Alike(x, new)
    <3>1. /\ new.t = x.t /\ new.piece = x.piece /\ new.op = x.op /\ new.call = x.call
          /\ new.where = x.where /\ new.data = x.data /\ new.active = x.active
          /\ new.io = x.io /\ new.mov
      BY <2>1, <2>2 DEF Buffer
    <3>2. QED
      BY <3>1 DEF Alike, Busy, CallbackDue
  <2>6. QED
    BY <2>1, <2>3, <2>4, <2>5
<1>5. Advances(p, Out)
  BY <1>2, <1>3 DEF Advances, StagesOf, Work, Leave2, Out
<1>6. Call(p)'.kind = Call(p).kind
  BY <1>1, <1>5, AdvanceFacts
<1>7. ~ Moving(p) /\ ~ Moving(p)'
  BY <1>3, <1>6 DEF Moving, In
<1>8. /\ Complete \subseteq Complete'
      /\ \A u \in Complete' : u \notin Complete => u \in Issued /\ \A q \in Proc : Settled(q, u)
  <2>1. CASE known' = known
    BY <2>1 DEF Complete
  <2>2. CASE /\ Call(p).done /\ Call(p).kind = "probe"
             /\ known' = [known EXCEPT ![p] = @ \cup {t}]
    <3>1. Complete \subseteq Complete' /\ \A u \in Complete' : u \in Complete \/ u = t
      BY <1>2, <2>2 DEF Complete
    <3>2. t \in Issued
      BY <1>0, <1>1, <2>2, CallFact DEF Issued
    <3>3. Tells(prog[at[p].n]) /\ prog[at[p].n].t = t
      BY <1>0, <2>2 DEF Tells, Call
    <3>4. \A q \in Proc : Reached(q, at[p].n, Leave2)
      BY <1>3 DEF AllReached, Reached
    <3>5. \A q \in Proc : Settled(q, t)
      BY <1>1, <1>2, <3>3, <3>4 DEF Settlement
    <3>6. QED
      BY <3>1, <3>2, <3>5
  <2>3. QED
    BY <1>3, <2>1, <2>2
<1>9. /\ UNCHANGED <<file, want, disk, got>> /\ at[p].stage >= Leave2
      /\ \A q \in Proc : q # p => handle'[q] = handle[q] /\ left'[q] = left[q]
      /\ \A u \in Issued : handle'[p][u] = handle[p][u]
      /\ \A k \in DOMAIN prog : Tells(prog'[k]) => Tells(prog[k])
      /\ Call(p).kind # "wait"
  BY <1>3 DEF Leave2
<1>10. QED
  BY <1>1, <1>4, <1>5, <1>7, <1>8, <1>9, AdvanceKeeps

-----------------------------------------------------------------------------
(* The steps that take up a call.                                          *)

(* A call that a process has got as far in as Leave2 was under way before. *)
LEMMA TakesReached ==
  ASSUME Types, CallsSound, Barriers, NEW p \in Proc, NEW calls, Takes(p, calls),
         NEW q \in Proc, NEW k \in DOMAIN prog', Reached(q, k, Leave2)'
  PROVE  \E j \in DOMAIN prog : prog'[k] = prog[j] /\ Reached(q, j, Leave2)
<1>1. /\ at[p].n = 1 /\ calls \in Seq(Calls) /\ Len(calls) = 2
      /\ \A j \in DOMAIN prog : calls[j] = prog[j]
      /\ \/ /\ prog' = calls
            /\ at'[p].n = 2 /\ \A r \in Proc : r # p => at'[r].n = at[r].n
         \/ /\ Len(prog') = 1 /\ prog'[1] = calls[2] /\ at'[p].n = 1
            /\ \A r \in Proc : r # p => at[r].n = 2 /\ at'[r].n = 1
      /\ at'[p].stage = FirstStage(calls[2])
      /\ \A r \in Proc : r # p => at'[r].stage = at[r].stage
      /\ prog' \in Seq(Calls)
  BY TakesFacts
<1>2. at[p].stage = Out /\ \A r \in Proc : at[r].n \in DOMAIN prog /\ at[r].n \in 1..2
  BY CallFact DEF Takes
<1>3. at'[p].stage < Leave2 /\ ~ (at'[p].stage >= Leave2) /\ Out >= Leave2
  BY <1>1 DEF FirstStage, Enter1, Work, Leave2, Out
<1>4. k \in 1..Len(prog')
  BY <1>1
<1>5. CASE /\ prog' = calls
           /\ at'[p].n = 2 /\ \A r \in Proc : r # p => at'[r].n = at[r].n
  <2>1. k \in {1, 2}
    BY <1>1, <1>4, <1>5
  <2>2. CASE q = p
    <3>1. k = 1
      BY <1>3, <1>5, <2>1, <2>2 DEF Reached
    <3>2. Reached(p, 1, Leave2)
      BY <1>1, <1>2, <1>3 DEF Reached
    <3>3. QED
      BY <1>1, <1>2, <1>5, <2>2, <3>1, <3>2
  <2>3. CASE q # p
    <3>1. Reached(q, k, Leave2)
      BY <1>1, <1>5, <2>3 DEF Reached
    <3>2. k \in DOMAIN prog
      <4>1. 1 \in DOMAIN prog
        BY <1>1, <1>2
      <4>2. k = 2 => at[q].n = 2
        BY <1>2, <3>1 DEF Reached
      <4>3. QED
        BY <1>2, <2>1, <4>1, <4>2
    <3>3. QED
      BY <1>1, <1>5, <3>1, <3>2
  <2>4. QED
    BY <2>2, <2>3
<1>6. CASE /\ Len(prog') = 1 /\ prog'[1] = calls[2] /\ at'[p].n = 1
           /\ \A r \in Proc : r # p => at[r].n = 2 /\ at'[r].n = 1
  <2>1. k = 1 /\ q # p
    BY <1>3, <1>4, <1>6 DEF Reached
  <2>2. 2 \in DOMAIN prog /\ Reached(q, 2, Leave2)
    BY <1>1, <1>2, <1>6, <2>1 DEF Reached
  <2>3. QED
    BY <1>1, <1>6, <2>1, <2>2
<1>7. QED
  BY <1>1, <1>5, <1>6

(* The transfers issued before, what is expected of them and what there is *)
(* to do for them stay as they were.                                       *)
LEMMA TakesKeeps ==
  ASSUME Decomposed, WellPlaced, IInv, DInv, NEW p \in Proc, NEW calls, Takes(p, calls),
         \A t \in Issued : t \in Issued' /\ asked'[t] = asked[t],
         \A t \in Issued : t \notin Complete =>
           \A l \in asked[t].touched : file'[l] = file[l],
         calls = prog \/ (calls[2].kind \in {"write", "read"} =>
                            asked'[calls[2].t].op = calls[2].kind)
  PROVE  /\ Asked' /\ Settlement' /\ Carried' /\ Complete' = Complete
         /\ \A q \in Proc : \A t \in Issued : Mine(q, t)' = Mine(q, t)
         /\ \A q \in Proc : \A t, y : Unmoved(q, t, y)' <=> Unmoved(q, t, y)
<1>1. /\ Types /\ CallsSound /\ Barriers /\ Buffers /\ Asked /\ Settlement /\ Carried
      /\ UNCHANGED <<left, buf, handle, known>> /\ at[p].stage = Out
  BY DEF IInv, DInv, Takes
<1>2. /\ at[p].n = 1 /\ calls \in Seq(Calls) /\ Len(calls) = 2
      /\ \A j \in DOMAIN prog : calls[j] = prog[j]
      /\ \/ prog' = calls
         \/ Len(prog') = 1 /\ prog'[1] = calls[2]
      /\ prog' \in Seq(Calls) /\ at'[p].stage = FirstStage(calls[2])
      /\ \A q \in Proc : q # p => at'[q].stage = at[q].stage
      /\ Call(p)' = calls[2] /\ \A q \in Proc : q # p => Call(q)' = Call(q)
  BY <1>1, TakesFacts
<1>3. /\ ~ Moving(p) /\ ~ Moving(p)' /\ ~ In(p, {"wait"}, Enter2)'
      /\ \A q \in Proc : q # p => (Moving(q)' <=> Moving(q))
  <2>1. ~ Moving(p)
    BY <1>1 DEF Moving, In, Work, Out
  <2>2. ~ Moving(p)'
    BY <1>2 DEF Moving, In, FirstStage, Enter1, Work
  <2>3. ~ In(p, {"wait"}, Enter2)'
    BY <1>2 DEF In, FirstStage, Enter1, Work, Enter2
  <2>4. \A q \in Proc : q # p => (Moving(q)' <=> Moving(q))
    BY <1>2 DEF Moving, In
  <2>5. QED
    BY <2>1, <2>2, <2>3, <2>4
<1>4. /\ Complete' = Complete /\ \A q \in Proc : \A t \in Issued : Mine(q, t)' = Mine(q, t)
  BY <1>1 DEF Complete, Mine
<1>5. \A q \in Proc : \A b \in 1..NBuf : Busy(buf[q][b])' <=> Busy(buf[q][b])
  BY <1>1 DEF Busy
<1>6. \A q \in Proc : \A t, y : Unmoved(q, t, y)' <=> Unmoved(q, t, y)
  BY <1>1, <1>2, <1>3, <1>5 DEF Unmoved
<1>7. \A q \in Proc : \A t : Settled(q, t) => Settled(q, t)'
  BY <1>1, <1>2, <1>3, <1>5 DEF Settled
<1>8. ASSUME NEW k \in DOMAIN prog'
      PROVE  (\E j \in DOMAIN prog : prog'[k] = prog[j]) \/ (calls # prog /\ prog'[k] = calls[2])
  <2>1. k \in 1..2 /\ (prog'[k] = calls[k] \/ prog'[k] = calls[2])
    BY <1>2
  <2>2. 1 \in DOMAIN prog
    BY <1>1, <1>2, CallFact
  <2>3. calls = prog => 2 \in DOMAIN prog
    BY <1>2
  <2>4. QED
    BY <1>2, <2>1, <2>2, <2>3
<1>9. Asked'
  <2>1. ASSUME NEW k \in DOMAIN prog', prog'[k].kind \in {"write", "read"}
        PROVE  asked'[prog'[k].t].op = prog'[k].kind
    <3>1. CASE \E j \in DOMAIN prog : prog'[k] = prog[j]
      <4>1. PICK j \in DOMAIN prog : prog'[k] = prog[j]
        BY <3>1
      <4>2. prog[j].t \in Issued /\ asked[prog[j].t].op = prog[j].kind
        BY <1>1, <2>1, <4>1 DEF CallsSound, Asked, Issued
      <4>3. QED
        BY <4>1, <4>2
    <3>2. CASE calls # prog /\ prog'[k] = calls[2]
      BY <2>1, <3>2
    <3>3. QED
      BY <1>8, <3>1, <3>2
  <2>2. ASSUME NEW q \in Proc, Moving(q)'
        PROVE  ToSet(left'[q]) \subseteq Mine(q, Call(q).t)'
    <3>0. PICK t : t = Call(q).t
      OBVIOUS
    <3>1. q # p /\ Moving(q) /\ Call(q)' = Call(q)
      BY <1>2, <1>3, <2>2
    <3>2. t \in Issued
      BY <1>1, <3>0, <3>1, CallFact DEF Moving, In, Issued
    <3>3. ToSet(left[q]) \subseteq Mine(q, t)
      BY <1>1, <3>0, <3>1 DEF Asked
    <3>4. QED
      BY <1>1, <3>0, <3>1, <3>2, <3>3 DEF Mine
  <2>3. QED
    BY <2>1, <2>2 DEF Asked
<1>10. Settlement'
  <2>1. Complete' \subseteq Issued' /\ \A t \in Complete', q \in Proc : Settled(q, t)'
    BY <1>1, <1>4, <1>7 DEF Settlement
  <2>2. ASSUME NEW k \in DOMAIN prog', NEW q \in Proc, Tells(prog'[k]), Reached(q, k, Leave2)'
        PROVE  Settled(q, prog[k].t)'
    <3>1. PICK j \in DOMAIN prog : prog'[k] = prog[j] /\ Reached(q, j, Leave2)
      BY <1>1, <2>2, TakesReached
    <3>2. PICK t : t = prog[j].t
      OBVIOUS
    <3>3. Settled(q, t)'
      BY <1>1, <1>7, <2>2, <3>1, <3>2 DEF Settlement
    <3>4. QED
      BY <3>1, <3>2, <3>3 DEF Settled
  <2>3. ASSUME NEW q \in Proc, NEW b \in 1..NBuf,
               In(q, {"wait"}, Enter2)', buf'[q][b].t = Call(q)'.t
        PROVE  ~ buf'[q][b].active
    <3>1. q # p /\ In(q, {"wait"}, Enter2) /\ Call(q)' = Call(q)
      BY <1>2, <1>3, <2>3 DEF In
    <3>2. QED
      BY <1>1, <2>3, <3>1 DEF Settlement
  <2>4. QED
    BY <2>1, <2>2, <2>3 DEF Settlement
<1>11. Carried'
  <2>1. ASSUME NEW q \in Proc, NEW b \in 1..NBuf
        PROVE  Carries(q, buf[q][b])'
    <3>0. PICK x : x = buf[q][b]
      OBVIOUS
    <3>1. /\ Carries(q, x)
          /\ BufferSound(x, Call(q).kind, at[q].stage, left[q], Len(asked))
      BY <1>1, <3>0 DEF Carried, Buffers, Sound
    <3>2. x.op = "cover" => q # p
      BY <1>3, <3>0, <3>1 DEF BufferSound, Moving, In
    <3>3. ASSUME Busy(x) \/ x.op = "cover", NEW e \in Elements(x.piece.chunk)
          PROVE  Right(x, e)' <=> Right(x, e)
      <4>1. x.t \in Issued /\ x.t \notin Complete
        BY <1>1, <3>0, <3>3, OpenBuffer
      <4>2. x.piece \in Mine(q, x.t) /\ Placed(x)
        BY <3>1, <3>3 DEF Busy, Carries, BufferSound
      <4>3. x.where[e] \in asked[x.t].touched
        BY <1>1, <4>1, <4>2, PieceFact DEF Placed, Placing, Issued
      <4>4. QED
        BY <4>1, <4>3 DEF Right
    <3>4. x.op # "none" => Elements(x.piece.part) \subseteq Elements(x.piece.chunk)
      BY <1>1, <3>1, PieceFact DEF Carries
    <3>5. x.op # "none" =>
            /\ x.t \in DOMAIN asked' /\ x.call = handle'[q][x.t] /\ x.call # None
            /\ x.piece \in Mine(q, x.t)' /\ asked'[x.t] = asked[x.t]
            /\ x.op # "cover" => asked'[x.t].op = x.op
      BY <1>1, <1>4, <3>1 DEF Carries, Issued
    <3>6. x.op = "cover" => x.t = Call(q)'.t /\ left'[q] # <<>> /\ x.piece = Head(left'[q])
      BY <1>1, <1>2, <3>1, <3>2 DEF Carries
    <3>7. x.op = "cover" /\ x.io # "read" =>
             \A e \in Elements(x.piece.chunk) :
               Right(x, e)' \/ (e \in Elements(x.piece.part) /\ asked'[x.t].op = "write")
      BY <3>1, <3>3, <3>5 DEF Carries
    <3>8. x.op = "write" /\ x.io = "write" => \A e \in Elements(x.piece.chunk) : Right(x, e)'
      BY <3>1, <3>3 DEF Carries, Busy
    <3>9. x.op = "read" /\ Busy(x) /\ x.io # "read" =>
            \A e \in Elements(x.piece.part) : Right(x, e)'
      BY <3>1, <3>3, <3>4 DEF Carries
    <3>10. x.op = "read" /\ x.io = "read" => x.callback /\ ~ x.mov
      BY <3>1 DEF Carries
    <3>11. Carries(q, x)'
      BY <3>5, <3>6, <3>7, <3>8, <3>9, <3>10 DEF Carries
    <3>12. QED
      BY <1>1, <3>0, <3>11 DEF Carries, Busy, Right
  <2>2. QED
    BY <2>1 DEF Carried
<1>12. QED
  BY <1>4, <1>6, <1>9, <1>10, <1>11

(* A call of another kind than a transfer is taken up.                     *)
LEMMA TakesDelivers ==
  ASSUME Decomposed, WellPlaced, IInv, DInv, NEW p \in Proc, NEW calls, Takes(p, calls),
         calls = prog \/ calls[2].kind \notin {"write", "read"},
         UNCHANGED <<asked, disk, got, file, want>>
  PROVE  DInv'
<1>1. /\ Books /\ Apart /\ Expected /\ WritesOwed /\ ReadsOwed
  BY DEF DInv
<1>2. \A t \in Issued : t \in Issued' /\ asked'[t] = asked[t]
  BY DEF Issued
<1>3. /\ Asked' /\ Settlement' /\ Carried' /\ Complete' = Complete
      /\ \A q \in Proc : \A t, y : Unmoved(q, t, y)' <=> Unmoved(q, t, y)
  BY <1>2, TakesKeeps
<1>4. Books'
  <2>1. UNCHANGED <<file, got, want>>
    OBVIOUS
  <2>2. QED
    BY <1>1, <2>1 DEF Books
<1>5. Apart' /\ Expected'
  BY <1>1, <1>3 DEF Apart, Expected, Issued
<1>6. WritesOwed' /\ ReadsOwed'
  <2>1. \A t, y : Delivered(t, y)' <=> Delivered(t, y)
    BY DEF Delivered
  <2>2. QED
    BY <1>1, <1>3, <2>1, OwedStays
<1>7. QED
  BY <1>3, <1>4, <1>5, <1>6 DEF DInv

(* A process goes on in a call it has begun.                               *)
LEMMA FollowDelivers ==
  ASSUME Decomposed, WellPlaced, IInv, DInv, NEW p \in Proc, Follow(p)
  PROVE  DInv'
<1>1. Types
  BY DEF IInv
<1>2. Takes(p, prog)
  BY <1>1 DEF Follow, Takes, Types
<1>3. QED
  BY <1>2, TakesDelivers DEF Follow

(* A wait, a probe or the next probe of a flick is taken up.               *)
LEMMA CallNextDelivers ==
  ASSUME Decomposed, WellPlaced, IInv, DInv, NEW p \in Proc, CallNext(p)
  PROVE  DInv'
<1>1. Types /\ CallsSound /\ Barriers
  BY DEF IInv
<1>2. PICK c : Takes(p, Append(prog, c)) /\ c.kind \notin {"write", "read"}
  BY <1>1, CallNextTakes
<1>3. Append(prog, c)[2] = c
  <2>1. at[p].n = 1 /\ Len(Append(prog, c)) = 2 /\ prog \in Seq(Calls)
    BY <1>1, <1>2, TakesFacts DEF Types
  <2>2. Len(prog) = 1
    BY <2>1 DEF CallNext
  <2>3. QED
    BY <2>1, <2>2
<1>4. QED
  BY <1>2, <1>3, TakesDelivers DEF CallNext

(* The elements of a section, and their places in the files.               *)
LEMMA SectionFact ==
  ASSUME Decomposed, WellPlaced, NEW x \in Transfers, NEW z \in PlacesOf(x.sect)
  PROVE  /\ z[2] \in Touched(x.sect) /\ z[2] \in Touched(Whole)
         /\ \A w \in PlacesOf(x.sect) : z[1] = w[1] <=> z[2] = w[2]
         /\ \E p \in Proc : \E y \in ToSet(MyTurn(p, x.sect)) : \E e \in Elements(y.part) :
              z = <<e, Location(Array, y.chunk, e)>>
<1> DEFINE pieces == ToSet(Pieces(Array, x.sect))
           pairs == UNION {PlacedWith(Array, u.sect) : u \in Transfers}
<1>1. ASSUME NEW w \in PlacesOf(x.sect)
      PROVE  \E y \in pieces : \E e \in Elements(y.part) :
               w = <<e, Location(Array, y.chunk, e)>>
  BY <1>1 DEF PlacesOf
<1>2. ASSUME NEW y \in pieces, NEW e \in Elements(y.part)
      PROVE  /\ e \in Elements(y.chunk) /\ Location(Array, y.chunk, e) \in Touched(x.sect)
             /\ Location(Array, y.chunk, e) \in Touched(Whole)
             /\ <<e, Location(Array, y.chunk, e)>> \in pairs
  <2>1. e \in Elements(y.chunk)
    BY DEF WellPlaced
  <2>2. Location(Array, y.chunk, e) \in Touched(x.sect)
    BY <2>1 DEF Touched
  <2>3. Location(Array, y.chunk, e) \in Touched(Whole)
    BY <2>1 DEF Decomposed, PieceSet
  <2>4. <<e, Location(Array, y.chunk, e)>> \in PlacedWith(Array, x.sect)
    BY <2>1 DEF PlacedWith
  <2>5. QED
    BY <2>1, <2>2, <2>3, <2>4
<1>3. OneToOne(pairs)
  BY DEF WellPlaced
<1> HIDE DEF pairs
<1>4. \A w \in PlacesOf(x.sect) : z[1] = w[1] <=> z[2] = w[2]
  BY <1>1, <1>2, <1>3 DEF OneToOne
<1>5. PICK y \in pieces : \E e \in Elements(y.part) : z = <<e, Location(Array, y.chunk, e)>>
  BY <1>1
<1>6. z[2] \in Touched(x.sect) /\ z[2] \in Touched(Whole)
  BY <1>2, <1>5
<1>7. PICK p \in Proc : y \in ToSet(MyTurn(p, x.sect))
  BY DEF WellPlaced
<1>8. QED
  BY <1>4, <1>5, <1>6, <1>7

(* A transfer that has not been issued has no handle anywhere.             *)
LEMMA NotYetHandled ==
  ASSUME Types, CallsSound, TablesInStep, NEW q \in Proc, NEW t \in 1..MaxTransfers,
         t > Len(asked)
  PROVE  handle[q][t] = None
<1>1. PICK T \in [0..2 -> Tables] : TablesChain(T)
  BY DEF TablesInStep
<1>2. \A k \in DOMAIN prog : T[k].handle[t] = None
  BY <1>1 DEF TablesChain
<1>3. 1 \in DOMAIN prog
  BY DEF Types
<1>4. T[0].handle[t] = None
  <2>1. T[1].handle[t] = T[1 - 1].handle[t] \/ T[1 - 1].handle[t] = None
    BY <1>1, <1>3, ChainFact
  <2>2. QED
    BY <1>2, <1>3, <2>1
<1>5. Count(q) = 0 \/ Count(q) \in DOMAIN prog
  BY CountFact DEF Types
<1>6. Table(q) = T[Count(q)]
  BY <1>1 DEF TablesChain
<1>7. QED
  BY <1>2, <1>4, <1>5, <1>6 DEF Table

(* The places of a transfer lie in what it touches, and that in the files. *)
LEMMA TouchedFact ==
  ASSUME Decomposed, WellPlaced, Types, NEW t \in Issued
  PROVE  /\ \A z \in PlacesOf(asked[t].sect) : z[2] \in asked[t].touched
         /\ \A l \in asked[t].touched : l \in Touched(Whole)
<1>1. PICK x \in Transfers :
        asked[t] = [op |-> x.op, sect |-> x.sect, touched |-> Touched(x.sect)]
  <2>1. asked[t] \in Issues
    BY DEF Types, Issued
  <2>2. QED
    BY <2>1 DEF Issues
<1>2. \A z \in PlacesOf(x.sect) : z[2] \in Touched(x.sect)
  BY SectionFact
<1>3. \A l \in Touched(x.sect) : l \in Touched(Whole)
  <2>1. ASSUME NEW y \in ToSet(Pieces(Array, x.sect)), NEW e \in Elements(y.chunk)
        PROVE  Location(Array, y.chunk, e) \in Touched(Whole)
    BY DEF Decomposed, PieceSet
  <2>2. ASSUME NEW l \in Touched(x.sect)
        PROVE  \E y \in ToSet(Pieces(Array, x.sect)) : \E e \in Elements(y.chunk) :
                 l = Location(Array, y.chunk, e)
    BY DEF Touched
  <2>3. QED
    BY <2>1, <2>2
<1>4. QED
  BY <1>1, <1>2, <1>3

(* A transfer is issued.  It shares no chunk with one that is not complete *)
(* and is written, nor any if it writes itself; all of it has yet to be    *)
(* moved.                                                                  *)
LEMMA IssueDelivers ==
  ASSUME Decomposed, WellPlaced, IInv, DInv, NEW p \in Proc, Issue(p)
  PROVE  DInv'
<1>1. /\ Types /\ CallsSound /\ Barriers /\ TablesInStep
      /\ Books /\ Apart /\ Expected /\ WritesOwed /\ ReadsOwed /\ Settlement
      /\ asked \in Seq(Issues) /\ Len(asked) \in Nat
  BY DEF IInv, DInv, Types
<1>2. PICK t : t = Len(asked) + 1
  OBVIOUS
<1>3. PICK x \in Transfers :
        /\ MayIssue(p, x)
        /\ asked' = Append(asked, [op |-> x.op, sect |-> x.sect, touched |-> Touched(x.sect)])
        /\ file' = IF x.op = "read" THEN file
                   ELSE [l \in DOMAIN file |->
                           IF \E y \in PlacesOf(x.sect) : y[2] = l THEN t ELSE file[l]]
        /\ want' = [want EXCEPT ![t] =
                      IF x.op = "read" THEN {<<y[1], file[y[2]]>> : y \in PlacesOf(x.sect)}
                      ELSE {}]
        /\ TakeUp(p, Append(prog, [kind |-> x.op, t |-> t, slot |-> None, done |-> TRUE]))
  BY <1>2 DEF Issue
<1>4. PICK c : c = [kind |-> x.op, t |-> t, slot |-> None, done |-> TRUE]
  OBVIOUS
<1>5. Takes(p, Append(prog, c)) /\ UNCHANGED <<left, buf, handle, known, disk, got>>
  BY <1>1, <1>2, <1>3, <1>4, IssueTakes DEF IInv, Issue
<1>6. x.op \in {"write", "read"}
  BY DEF Decomposed
<1>7. PICK new : new = [op |-> x.op, sect |-> x.sect, touched |-> Touched(x.sect)]
  OBVIOUS
<1>8. /\ Issued = 1..Len(asked) /\ Issued' = Issued \cup {t} /\ t \notin Issued
      /\ asked'[t] = new /\ \A u \in Issued : asked'[u] = asked[u]
      /\ t \in 1..MaxTransfers /\ t > Len(asked) /\ Issued \subseteq 1..MaxTransfers
  <2>1. new \in Issues /\ asked' = Append(asked, new)
    BY <1>3, <1>7 DEF Issues
  <2>2. Len(asked) < MaxTransfers /\ MaxTransfers \in Nat
    BY <1>3, Numbers DEF MayIssue
  <2>3. /\ Len(asked') = Len(asked) + 1 /\ asked' \in Seq(Issues)
        /\ asked'[t] = new /\ \A u \in 1..Len(asked) : asked'[u] = asked[u]
    BY <1>1, <1>2, <2>1
  <2>4. DOMAIN asked' = 1..Len(asked') /\ DOMAIN asked = 1..Len(asked)
    BY <1>1, <2>3
  <2>5. 1..(Len(asked) + 1) = (1..Len(asked)) \cup {Len(asked) + 1}
    BY <1>1
  <2>6. QED
    BY <1>1, <1>2, <2>2, <2>3, <2>4, <2>5 DEF Issued
<1>9. \A u \in Issued : u \notin Complete =>
        \/ x.op = "read" /\ asked[u].op = "read"
        \/ Touched(x.sect) \intersect asked[u].touched = {}
  BY <1>3 DEF MayIssue, Outstanding, Issued, Complete
<1>10. \A l \in DOMAIN file : l \notin Touched(x.sect) \/ x.op = "read" => file'[l] = file[l]
  BY <1>3, SectionFact
<1>11. DOMAIN file' = DOMAIN file /\ DOMAIN file = Touched(Whole)
  BY <1>1, <1>3 DEF Books
<1>12. \A u \in Issued : \A l \in asked[u].touched : l \in DOMAIN file
  BY <1>1, <1>11, TouchedFact
<1>13. \A u \in Issued : u \notin Complete => \A l \in asked[u].touched : file'[l] = file[l]
  BY <1>9, <1>10, <1>12
<1>14. /\ Asked' /\ Settlement' /\ Carried' /\ Complete' = Complete
       /\ \A q \in Proc : \A u \in Issued : Mine(q, u)' = Mine(q, u)
       /\ \A q \in Proc : \A u, y : Unmoved(q, u, y)' <=> Unmoved(q, u, y)
  <2>1. Append(prog, c)[2] = c
    <3>1. at[p].n = 1 /\ Len(Append(prog, c)) = 2 /\ prog \in Seq(Calls)
      BY <1>1, <1>5, TakesFacts DEF Types
    <3>2. Len(prog) = 1
      BY <3>1 DEF Issue
    <3>3. QED
      BY <3>1, <3>2
  <2>2. asked'[c.t].op = c.kind
    BY <1>4, <1>7, <1>8
  <2>3. QED
    BY <1>5, <1>8, <1>13, <2>1, <2>2, TakesKeeps
<1>15. \A q \in Proc : \A y : Unmoved(q, t, y) /\ Unmoved(q, t, y)'
  <2>1. \A q \in Proc : handle[q][t] = None
    BY <1>1, <1>8, NotYetHandled
  <2>2. \A q \in Proc : \A y : Unmoved(q, t, y)
    BY <2>1 DEF Unmoved
  <2>3. QED
    BY <1>14, <2>2
<1>16. /\ want' = [u \in 1..MaxTransfers |-> want'[u]]
       /\ want'[t] = IF x.op = "read" THEN {<<y[1], file[y[2]]>> : y \in PlacesOf(x.sect)} ELSE {}
       /\ \A u \in Issued : want'[u] = want[u]
  BY <1>1, <1>3, <1>8 DEF Books
<1>17. Books'
  <2>1. file' \in [Touched(Whole) -> Values]
    BY <1>1, <1>3, <1>8, Numbers DEF Books
  <2>2. got' = got
    BY <1>5
  <2>3. QED
    BY <1>1, <1>16, <2>1, <2>2 DEF Books
<1>18. Apart'
  <2>1. ASSUME NEW u \in Issued' \ Complete', NEW v \in Issued' \ Complete',
               u # v, asked'[u].op = "write"
        PROVE  asked'[u].touched \intersect asked'[v].touched = {}
    <3>1. CASE u \in Issued /\ v \in Issued
      BY <1>1, <1>8, <1>14, <2>1, <3>1 DEF Apart
    <3>2. CASE u = t /\ v \in Issued
      BY <1>7, <1>8, <1>9, <1>14, <2>1, <3>2
    <3>3. CASE u \in Issued /\ v = t
      BY <1>7, <1>8, <1>9, <1>14, <2>1, <3>3
    <3>4. QED
      BY <1>8, <2>1, <3>1, <3>2, <3>3
  <2>2. QED
    BY <2>1 DEF Apart
<1>19. Expected'
  <2>1. ASSUME NEW u \in Issued, NEW z \in PlacesOf(asked[u].sect), u \notin Complete
        PROVE  file'[z[2]] = file[z[2]]
    BY <1>1, <1>13, <2>1, TouchedFact
  <2>2. ASSUME NEW u \in Issued
        PROVE  /\ asked'[u].op = "write" /\ u \notin Complete' =>
                    \A z \in PlacesOf(asked'[u].sect) : file'[z[2]] = u
               /\ asked'[u].op = "read" => \A w \in want'[u] :
                    /\ \E z \in PlacesOf(asked'[u].sect) : z[1] = w[1]
                    /\ u \notin Complete' =>
                         \A z \in PlacesOf(asked'[u].sect) : z[1] = w[1] => w[2] = file'[z[2]]
    BY <1>1, <1>8, <1>14, <1>16, <2>1 DEF Expected
  <2>3. ASSUME x.op = "write", NEW z \in PlacesOf(x.sect)
        PROVE  file'[z[2]] = t
    BY <1>3, <1>11, <2>3, SectionFact
  <2>4. ASSUME x.op = "read", NEW w \in want'[t]
        PROVE  /\ \E z \in PlacesOf(x.sect) : z[1] = w[1]
               /\ \A z \in PlacesOf(x.sect) : z[1] = w[1] => w[2] = file'[z[2]]
    <3>1. PICK y \in PlacesOf(x.sect) : w = <<y[1], file[y[2]]>>
      BY <1>16, <2>4
    <3>2. file' = file
      BY <1>3, <2>4
    <3>3. QED
      BY <3>1, <3>2, SectionFact
  <2>5. QED
    BY <1>7, <1>8, <2>2, <2>3, <2>4 DEF Expected
<1>20. WritesOwed'
  <2>1. ASSUME NEW l \in DOMAIN disk, disk[l] # file'[l]
        PROVE  \E u \in Issued', q \in Proc : asked'[u].op = "write" /\
                 \E y \in Mine(q, u)' : Reaches(u, y, l) /\ Unmoved(q, u, y)'
    <3>0. l \in DOMAIN file
      BY <1>1, <1>11 DEF Types
    <3>1. CASE file'[l] = file[l]
      <4>1. PICK u \in Issued, q \in Proc : asked[u].op = "write" /\
              \E y \in Mine(q, u) : Reaches(u, y, l) /\ Unmoved(q, u, y)
        BY <1>1, <2>1, <3>1 DEF WritesOwed
      <4>2. PICK y \in Mine(q, u) : Reaches(u, y, l) /\ Unmoved(q, u, y)
        BY <4>1
      <4>3. u \in Issued' /\ asked'[u].op = "write" /\ y \in Mine(q, u)' /\ Unmoved(q, u, y)'
        BY <1>8, <1>14, <4>1, <4>2
      <4>4. QED
        BY <4>2, <4>3
    <3>2. CASE file'[l] # file[l]
      <4>1. x.op = "write" /\ \E z \in PlacesOf(x.sect) : z[2] = l
        BY <1>3, <1>6, <3>0, <3>2
      <4>2. PICK z \in PlacesOf(x.sect) : z[2] = l
        BY <4>1
      <4>3. PICK q \in Proc : \E y \in ToSet(MyTurn(q, x.sect)) : \E e \in Elements(y.part) :
              z = <<e, Location(Array, y.chunk, e)>>
        BY SectionFact
      <4>4. PICK y \in ToSet(MyTurn(q, x.sect)) : \E e \in Elements(y.part) :
              z = <<e, Location(Array, y.chunk, e)>>
        BY <4>3
      <4>5. Reaches(t, y, l)
        BY <4>2, <4>4 DEF Reaches
      <4>6. y \in Mine(q, t)' /\ asked'[t].op = "write" /\ t \in Issued'
        BY <1>7, <1>8, <4>1 DEF Mine
      <4>7. QED
        BY <1>15, <4>5, <4>6
    <3>3. QED
      BY <3>1, <3>2
  <2>2. disk' = disk
    BY <1>5
  <2>3. \A u, y, l : Reaches(u, y, l)' <=> Reaches(u, y, l)
    BY DEF Reaches
  <2>4. QED
    BY <2>1, <2>2, <2>3 DEF WritesOwed
<1>21. ReadsOwed'
  <2>1. ASSUME NEW u \in Issued', NEW q \in Proc, asked'[u].op = "read", NEW y \in Mine(q, u)'
        PROVE  Unmoved(q, u, y)' \/ Delivered(u, y)'
    <3>1. CASE u = t
      BY <1>15, <3>1
    <3>2. CASE u \in Issued
      <4>1. y \in Mine(q, u) /\ asked[u].op = "read"
        BY <1>8, <1>14, <2>1, <3>2
      <4>2. Unmoved(q, u, y) \/ Delivered(u, y)
        BY <1>1, <3>2, <4>1 DEF ReadsOwed
      <4>3. Delivered(u, y) => Delivered(u, y)'
        BY <1>5, <1>16, <3>2 DEF Delivered
      <4>4. QED
        BY <1>14, <4>2, <4>3
    <3>3. QED
      BY <1>8, <3>1, <3>2
  <2>2. QED
    BY <2>1 DEF ReadsOwed
<1>22. QED
  BY <1>14, <1>17, <1>18, <1>19, <1>20, <1>21 DEF DInv

-----------------------------------------------------------------------------
(* What is said to be complete is done: the theorem.                       *)

(* Before the first call nothing is issued and the disk is as it should be. *)
LEMMA NothingOwed == Init => DInv
<1> SUFFICES ASSUME Init PROVE DInv
  OBVIOUS
<1>1. /\ prog = <<[kind |-> "none", t |-> None, slot |-> None, done |-> TRUE]>>
      /\ at = [p \in Proc |-> [n |-> 1, stage |-> Out]] /\ asked = <<>>
      /\ buf = [p \in Proc |-> [b \in 1..NBuf |-> FreeBuf]]
      /\ known = [p \in Proc |-> {}] /\ disk = [x \in Touched(Whole) |-> 0] /\ file = disk
      /\ got = [t \in 1..MaxTransfers |-> [e \in Cells |-> None]]
      /\ want = [t \in 1..MaxTransfers |-> {}]
  BY DEF Init
<1>2. Issued = {} /\ Complete = {}
  BY <1>1 DEF Issued, Complete
<1>3. /\ \A k \in DOMAIN prog : prog[k].kind = "none"
      /\ \A p \in Proc : ~ Moving(p) /\ ~ In(p, {"wait"}, Enter2)
  BY <1>1 DEF Moving, In, Work, Enter2, Out
<1>4. Books
  BY <1>1, Numbers DEF Books
<1>5. Asked
  BY <1>3 DEF Asked
<1>6. Settlement
  BY <1>2, <1>3 DEF Settlement, Tells
<1>7. Carried
  <2>1. FreeBuf.op = "none"
    BY DEF FreeBuf
  <2>2. QED
    BY <1>1, <2>1 DEF Carried, Carries, Busy
<1>8. Apart /\ Expected /\ ReadsOwed
  BY <1>2 DEF Apart, Expected, ReadsOwed
<1>9. WritesOwed
  BY <1>1 DEF WritesOwed
<1>10. QED
  BY <1>4, <1>5, <1>6, <1>7, <1>8, <1>9 DEF DInv

(* Every step keeps what is owed.                                          *)
LEMMA Deliveries ==
  ASSUME Decomposed, WellPlaced, IInv, DInv, [Next]_vars
  PROVE  DInv'
<1>1. CASE UNCHANGED vars
  <2>1. /\ UNCHANGED <<prog, at, left, buf, handle, known, disk, got, asked, file, want>>
    BY <1>1 DEF vars
  <2>2. /\ Issued' = Issued /\ Complete' = Complete
        /\ \A p \in Proc : Call(p)' = Call(p) /\ (Moving(p)' <=> Moving(p))
        /\ \A p \in Proc : \A t : /\ Mine(p, t)' = Mine(p, t)
    BY <2>1 DEF Issued, Complete, Call, Moving, In, Mine
  <2>3. /\ \A p \in Proc, b \in 1..NBuf : Busy(buf[p][b])' <=> Busy(buf[p][b])
        /\ \A x, e : Right(x, e)' <=> Right(x, e)
        /\ \A t, y, l : Reaches(t, y, l)' <=> Reaches(t, y, l)
        /\ \A t, y : Delivered(t, y)' <=> Delivered(t, y)
    BY <2>1 DEF Busy, Right, Reaches, Delivered
  <2>4. \A p \in Proc : \A t, y : /\ Settled(p, t)' <=> Settled(p, t)
                                  /\ Unmoved(p, t, y)' <=> Unmoved(p, t, y)
    BY <2>1, <2>2, <2>3 DEF Settled, Unmoved
  <2>5. Books' /\ Asked' /\ Apart' /\ Expected'
    <3>1. UNCHANGED <<file, got, want>>
      BY <2>1
    <3>2. Books /\ Asked /\ Apart /\ Expected
      BY DEF DInv
    <3>3. Books'
      BY <3>1, <3>2 DEF Books
    <3>4. \A q \in Proc : Mine(q, Call(q).t)' = Mine(q, Call(q).t)
      BY <2>1, <2>2 DEF Mine
    <3>5. Asked'
      BY <2>1, <2>2, <3>2, <3>4 DEF Asked
    <3>6. Apart'
      BY <2>1, <2>2, <3>2 DEF Apart
    <3>7. Expected'
      BY <2>1, <2>2, <3>2 DEF Expected
    <3>8. QED
      BY <3>3, <3>5, <3>6, <3>7
  <2>6. Settlement'
    <3>1. \A k \in DOMAIN prog, p \in Proc :
            /\ Tells(prog[k])' <=> Tells(prog[k])
            /\ Reached(p, k, Leave2)' <=> Reached(p, k, Leave2)
            /\ Settled(p, prog[k].t)' <=> Settled(p, prog[k].t)
            /\ In(p, {"wait"}, Enter2)' <=> In(p, {"wait"}, Enter2)
      BY <2>1, <2>2, <2>3 DEF Tells, Reached, Settled, In, Call
    <3>2. QED
      BY <2>1, <2>2, <2>4, <3>1 DEF DInv, Settlement, In
  <2>7. Carried'
    BY <2>1, <2>2, <2>3 DEF DInv, Carried, Carries, Busy, Right, Mine
  <2>8. WritesOwed' /\ ReadsOwed'
    BY <2>1, <2>2, <2>3, <2>4, OwedStays DEF DInv
  <2>9. QED
    BY <2>5, <2>6, <2>7, <2>8 DEF DInv
<1>2. ASSUME NEW p \in Proc, Steps(p) \/ CallNext(p) \/ Issue(p)
      PROVE  DInv'
  <2>1. CASE BeginPiece(p) \/ EndPiece(p) \/ CompleteBuf(p)
    BY <2>1, BeginPieceDelivers, EndPieceDelivers, CompleteBufDelivers
  <2>2. CASE ProbeScan(p) \/ ProbeEnds(p)
    BY <2>2, ProbeScanDelivers, ProbeEndsDelivers
  <2>3. CASE Sync(p) \/ AssignRequest(p) \/ EndTransfer(p) \/ WaitCompletes(p)
    BY <2>3, SyncDelivers, AssignRequestDelivers, EndTransferDelivers, WaitCompletesDelivers
  <2>4. CASE Follow(p) \/ CallNext(p) \/ Issue(p)
    BY <2>4, FollowDelivers, CallNextDelivers, IssueDelivers
  <2>5. QED
    BY <1>2, <2>1, <2>2, <2>3, <2>4 DEF Steps
<1>3. ASSUME NEW p \in Proc, NEW n \in 1..NBuf, DiskDone(p, n) \/ MoveDone(p, n)
      PROVE  DInv'
  BY <1>3, DiskDoneDelivers, MoveDoneDelivers
<1>4. CASE Finished
  BY <1>1, <1>4 DEF Finished
<1>5. QED
  BY <1>1, <1>2, <1>3, <1>4 DEF Next

(* Where a transfer is complete nobody has anything left to move for it.   *)
LEMMA CompleteIsDone ==
  ASSUME Decomposed, WellPlaced, IInv, DInv
  PROVE  CompletedIsDone
<1>1. /\ Types /\ Settlement /\ Expected /\ WritesOwed /\ ReadsOwed
  BY DEF IInv, DInv
<1>2. CompletedReadsDelivered
  <2>1. ASSUME NEW t \in Complete, asked[t].op = "read", NEW w \in want[t]
        PROVE  got[t][w[1]] = w[2]
    <3>1. t \in Issued /\ t \in DOMAIN asked
      BY <1>1 DEF Settlement, Issued
    <3>2. PICK z \in PlacesOf(asked[t].sect) : z[1] = w[1]
      BY <1>1, <2>1, <3>1 DEF Expected
    <3>3. PICK p \in Proc : \E y \in Mine(p, t) : \E e \in Elements(y.part) :
            z = <<e, Location(Array, y.chunk, e)>>
      BY <1>1, <3>1, PlacesFact
    <3>4. PICK y \in Mine(p, t) : \E e \in Elements(y.part) :
            z = <<e, Location(Array, y.chunk, e)>>
      BY <3>3
    <3>5. ~ Unmoved(p, t, y)
      BY <1>1, SettledFact DEF Settlement
    <3>6. Delivered(t, y)
      BY <1>1, <2>1, <3>1, <3>5 DEF ReadsOwed
    <3>7. QED
      BY <3>2, <3>4, <3>6 DEF Delivered
  <2>2. QED
    BY <2>1 DEF CompletedReadsDelivered
<1>3. CompletedWritesOnDisk
  <2>1. ASSUME NEW l \in DOMAIN disk, disk[l] # file[l]
        PROVE  \E t \in Issued : asked[t].op = "write" /\ l \in asked[t].touched /\ t \notin Complete
    <3>1. PICK t \in Issued, p \in Proc : asked[t].op = "write" /\
            \E y \in Mine(p, t) : Reaches(t, y, l) /\ Unmoved(p, t, y)
      BY <1>1, <2>1 DEF WritesOwed
    <3>2. PICK y \in Mine(p, t) : Reaches(t, y, l) /\ Unmoved(p, t, y)
      BY <3>1
    <3>3. l \in asked[t].touched
      BY <1>1, <3>2, PieceFact DEF Reaches, Issued
    <3>4. t \notin Complete
      BY <1>1, <3>2, SettledFact DEF Settlement
    <3>5. QED
      BY <3>1, <3>3, <3>4
  <2>2. QED
    BY <2>1 DEF CompletedWritesOnDisk
<1>4. QED
  BY <1>2, <1>3 DEF CompletedIsDone

(* What is said to be complete is done: a read that a wait or a probe has  *)
(* reported has put every element into the global array with the value of  *)
(* the last write issued before it, and what the writes reported complete  *)
(* have written is on disk.                                                *)
THEOREM CompletionSound ==
  ASSUME Decomposed, WellPlaced
  PROVE  Spec => []CompletedIsDone
<1>1. IInv /\ DInv /\ [Next]_vars => DInv'
  BY Deliveries
<1>2. IInv /\ DInv => CompletedIsDone
  BY CompleteIsDone
<1>3. QED
  BY Invariance, NothingOwed, <1>1, <1>2, PTL DEF Spec
=============================================================================
