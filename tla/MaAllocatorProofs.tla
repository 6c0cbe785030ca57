------------------------- MODULE MaAllocatorProofs -------------------------
(***************************************************************************)
(* Proofs about the memory allocator, for any segment, any datatypes and   *)
(* any requests.                                                           *)
(***************************************************************************)
EXTENDS MaAllocator, FiniteSetTheorems, WellFoundedInduction, TLAPS

-----------------------------------------------------------------------------
(* Arithmetic of the alignments.                                           *)

(* Quotient and remainder.                                                 *)
LEMMA Division ==
  ASSUME NEW x \in Int, NEW n \in Nat \ {0}
  PROVE  /\ x % n \in 0 .. (n - 1)
         /\ x \div n \in Int
         /\ x = n * (x \div n) + (x % n)
OBVIOUS

(* What is a multiple of n leaves nothing.                                 *)
LEMMA MultipleMod ==
  ASSUME NEW q \in Int, NEW n \in Nat \ {0}
  PROVE  (n * q) % n = 0
OBVIOUS

(* Sums and differences of multiples are multiples.                        *)
LEMMA MultiplesAdd ==
  ASSUME NEW x \in Int, NEW y \in Int, NEW n \in Nat \ {0}, x % n = 0, y % n = 0
  PROVE  (x + y) % n = 0 /\ (x - y) % n = 0
<1> DEFINE q == x \div n
           r == y \div n
<1>1. q \in Int /\ x = n * q
  BY Division
<1>2. r \in Int /\ y = n * r
  BY Division
<1> HIDE DEF q, r
<1>3. x + y = n * (q + r) /\ x - y = n * (q - r)
  BY <1>1, <1>2
<1>4. (n * (q + r)) % n = 0 /\ (n * (q - r)) % n = 0
  BY <1>1, <1>2, MultipleMod
<1>5. QED
  BY <1>3, <1>4

(* Rounding up and down, as mai_round and the gaps of a block do.          *)
LEMMA Rounding ==
  ASSUME NEW x \in Int, NEW n \in Nat \ {0}
  PROVE  (x + ((- x) % n)) % n = 0 /\ (x - (x % n)) % n = 0
<1> DEFINE q == (- x) \div n
           r == x \div n
           u == (- x) % n
           v == x % n
<1>1. q \in Int /\ u \in Int /\ - x = n * q + u
  BY Division
<1>2. r \in Int /\ v \in Int /\ x = n * r + v
  BY Division
<1>3. x + u = n * (- q) /\ x - v = n * r
  <2> HIDE DEF q, r, u, v
  <2>1. n * q \in Int /\ n * (- q) = - (n * q) /\ n * r \in Int
    BY <1>1, <1>2
  <2>2. QED
    BY <1>1, <1>2, <2>1
<1>4. x + ((- x) % n) = n * (- q) /\ x - (x % n) = n * r
  BY <1>3
<1>5. (n * (- q)) % n = 0 /\ (n * r) % n = 0
  BY <1>1, <1>2, MultipleMod
<1>6. QED
  BY <1>4, <1>5

(* 2^numalign is a boundary one can align to.                              *)
LEMMA PowersPositive ==
  ASSUME NEW k \in 0 .. 30
  PROVE  2 ^ k \in Nat \ {0}
<1>1. /\ 2 ^ 0 > 0 /\ 2 ^ 1 > 0 /\ 2 ^ 2 > 0 /\ 2 ^ 3 > 0
      /\ 2 ^ 4 > 0 /\ 2 ^ 5 > 0 /\ 2 ^ 6 > 0 /\ 2 ^ 7 > 0
      /\ 2 ^ 8 > 0 /\ 2 ^ 9 > 0 /\ 2 ^ 10 > 0 /\ 2 ^ 11 > 0
      /\ 2 ^ 12 > 0 /\ 2 ^ 13 > 0 /\ 2 ^ 14 > 0 /\ 2 ^ 15 > 0
  OBVIOUS
<1>2. /\ 2 ^ 16 > 0 /\ 2 ^ 17 > 0 /\ 2 ^ 18 > 0 /\ 2 ^ 19 > 0
      /\ 2 ^ 20 > 0 /\ 2 ^ 21 > 0 /\ 2 ^ 22 > 0 /\ 2 ^ 23 > 0
      /\ 2 ^ 24 > 0 /\ 2 ^ 25 > 0 /\ 2 ^ 26 > 0 /\ 2 ^ 27 > 0
      /\ 2 ^ 28 > 0 /\ 2 ^ 29 > 0 /\ 2 ^ 30 > 0
  OBVIOUS
<1>3. \/ k = 0 \/ k = 1 \/ k = 2 \/ k = 3 \/ k = 4 \/ k = 5 \/ k = 6 \/ k = 7
      \/ k = 8 \/ k = 9 \/ k = 10 \/ k = 11 \/ k = 12 \/ k = 13 \/ k = 14 \/ k = 15
      \/ k = 16 \/ k = 17 \/ k = 18 \/ k = 19 \/ k = 20 \/ k = 21 \/ k = 22 \/ k = 23
      \/ k = 24 \/ k = 25 \/ k = 26 \/ k = 27 \/ k = 28 \/ k = 29 \/ k = 30
  OBVIOUS
<1>5. 2 ^ k > 0
  BY <1>1, <1>2, <1>3, Zenon
<1>6. 2 ^ k \in Int
  OBVIOUS
<1>7. QED
  BY <1>5, <1>6

(* A set of numbers below a bound has a largest one.                       *)
LEMMA MaxExists ==
  ASSUME NEW S, S \subseteq Int, NEW lo \in Int, NEW hi \in Int, S # {},
         \A x \in S : lo <= x /\ x <= hi
  PROVE  /\ Max(S) \in S
         /\ \A x \in S : x <= Max(S)
<1>1. PICK w \in S : TRUE
  OBVIOUS
<1> DEFINE D == {n \in Nat : hi - n \in S}
<1>2. hi - w \in D
  BY <1>1
<1>3. \E n \in D : \A m \in D : ~ (<<m, n>> \in OpToRel(<, Nat))
  <2>1. D \subseteq Nat /\ D # {}
    BY <1>2
  <2> HIDE DEF D
  <2>2. QED
    BY <2>1, NatLessThanWellFounded, WFMin, Zenon
<1>4. PICK n \in D : \A m \in D : ~ (m < n)
  BY <1>3, Zenon DEF OpToRel
<1>5. hi - n \in S /\ \A x \in S : hi - n >= x
  <2>1. hi - n \in S
    OBVIOUS
  <2>2. ASSUME NEW x \in S PROVE hi - n >= x
    <3>1. hi - x \in D
      BY <2>2
    <3>2. ~ (hi - x < n)
      BY <1>4, <3>1
    <3>3. QED
      BY <3>2
  <2>3. QED
    BY <2>1, <2>2
<1>6. Max(S) \in S /\ \A x \in S : Max(S) >= x
  BY <1>5 DEF Max
<1>7. QED
  BY <1>6

(* And a smallest one.                                                     *)
LEMMA MinExists ==
  ASSUME NEW S, S \subseteq Int, NEW lo \in Int, S # {}, \A x \in S : lo <= x
  PROVE  /\ Min(S) \in S
         /\ \A x \in S : Min(S) <= x
<1>1. PICK w \in S : TRUE
  OBVIOUS
<1> DEFINE D == {n \in Nat : lo + n \in S}
<1>2. w - lo \in D
  BY <1>1
<1>3. \E n \in D : \A m \in D : ~ (<<m, n>> \in OpToRel(<, Nat))
  <2>1. D \subseteq Nat /\ D # {}
    BY <1>2
  <2> HIDE DEF D
  <2>2. QED
    BY <2>1, NatLessThanWellFounded, WFMin, Zenon
<1>4. PICK n \in D : \A m \in D : ~ (m < n)
  BY <1>3, Zenon DEF OpToRel
<1>5. lo + n \in S /\ \A x \in S : lo + n <= x
  <2>1. lo + n \in S
    OBVIOUS
  <2>2. ASSUME NEW x \in S PROVE lo + n <= x
    <3>1. x - lo \in D
      BY <2>2
    <3>2. ~ (x - lo < n)
      BY <1>4, <3>1
    <3>3. QED
      BY <3>2
  <2>3. QED
    BY <2>1, <2>2
<1>6. Min(S) \in S /\ \A x \in S : Min(S) <= x
  BY <1>5 DEF Min
<1>7. QED
  BY <1>6

-----------------------------------------------------------------------------
(* The layout of a block.                                                  *)

(* A block laid out from an address holds its descriptor, its guards and   *)
(* its elements, and is a multiple of the alignment.                       *)
LEMMA BlockAfter ==
  ASSUME ma_numalign \in 0 .. 30, NEW d \in Datatype, NEW n \in Nat, NEW address \in Int,
         NEW t, t = balloc_after(AR(d, n), address)
  PROVE  /\ t.client_space \in Int /\ t.nbytes \in Nat \ {0}
         /\ t.nbytes % Alignment = 0
         /\ address + AdSize + GuardSize <= t.client_space
         /\ t.client_space + n * ma_sizeof[d] + GuardSize <= address + t.nbytes
         /\ (t.client_space - ma_base[d]) % ma_sizeof[d] = 0
<1> DEFINE size == ma_sizeof[d]
           base == ma_base[d]
           len == n * size
           unit == 2 ^ ma_numalign
           gap1 == (base - address - AdSize - GuardSize) % size
           first == address + AdSize + gap1 + GuardSize
           up == (- first) % unit
           client == IF up % size = 0 THEN first + up ELSE first
           gap2 == (address - client - len - GuardSize) % Alignment
           nbytes == client + len + GuardSize + gap2 - address
<1>1. t = [client_space |-> client, nbytes |-> nbytes]
  BY Zenon DEF balloc_after, AR, Length
<1>2. /\ size \in Nat \ {0} /\ base \in Nat
      /\ AdSize \in Nat \ {0} /\ GuardSize \in Nat /\ Alignment \in Nat \ {0}
  BY MaAssumption DEF MaAssumption
<1>3. unit \in Nat \ {0}
  BY PowersPositive
<1>4. len \in Nat
  <2>1. ASSUME NEW x \in Nat, NEW y \in Nat PROVE x * y \in Nat
    OBVIOUS
  <2>2. QED
    BY <1>2, <2>1
<1> HIDE DEF size, base, len, unit
<1>5. gap1 \in Nat
  <2>1. base - address - AdSize - GuardSize \in Int
    BY <1>2
  <2>2. QED
    BY <1>2, <2>1, Division
<1>6. first \in Int /\ (first - base) % size = 0 /\ first >= address + AdSize + GuardSize
  <2> DEFINE x == address + AdSize + GuardSize - base
             g == (- x) % size
  <2>1. x \in Int /\ - x = base - address - AdSize - GuardSize
    BY <1>2
  <2>2. g = gap1
    BY <2>1
  <2>3. (x + g) % size = 0
    <3> HIDE DEF x
    <3>1. QED
      BY <1>2, <2>1, Rounding
  <2>4. first - base = x + g
    <3> HIDE DEF gap1, g
    <3>1. QED
      BY <1>2, <1>5, <2>2
  <2>5. (first - base) % size = 0
    BY <2>3, <2>4
  <2> HIDE DEF gap1
  <2>6. first \in Int /\ first >= address + AdSize + GuardSize
    BY <1>2, <1>5
  <2>7. QED
    BY <2>5, <2>6
<1> HIDE DEF first
<1>7. up \in Nat
  <2>1. - first \in Int
    BY <1>6
  <2>2. QED
    BY <1>3, <2>1, Division
<1> HIDE DEF up
<1>8. client \in Int /\ client >= address + AdSize + GuardSize /\ (client - base) % size = 0
  <2>1. CASE up % size = 0
    <3>1. ((first - base) + up) % size = 0
      <4> DEFINE a == first - base
      <4>1. a \in Int /\ up \in Int /\ a % size = 0
        BY <1>2, <1>6, <1>7
      <4> HIDE DEF a
      <4>2. (a + up) % size = 0
        BY <1>2, <2>1, <4>1, MultiplesAdd
      <4>3. QED
        BY <4>2 DEF a
    <3>2. client = first + up /\ (first - base) + up = client - base
      BY <1>2, <1>6, <1>7, <2>1
    <3>3. QED
      BY <1>2, <1>6, <1>7, <3>1, <3>2
  <2>2. CASE up % size # 0
    BY <1>6, <2>2
  <2>3. QED
    BY <2>1, <2>2
<1> HIDE DEF client
<1> DEFINE y == client + len + GuardSize - address
<1>9. y \in Nat \ {0} /\ - y = address - client - len - GuardSize /\ y \in Int
  BY <1>2, <1>4, <1>8
<1>10. gap2 = (- y) % Alignment
  BY <1>9
<1> HIDE DEF y
<1>11. gap2 \in Nat /\ (y + gap2) % Alignment = 0
  <2>1. (- y) % Alignment \in 0 .. (Alignment - 1) /\ (y + ((- y) % Alignment)) % Alignment = 0
    BY <1>2, <1>9, Division, Rounding
  <2>2. QED
    BY <1>2, <1>10, <2>1
<1> HIDE DEF gap2
<1>12. nbytes = y + gap2
  BY <1>2, <1>4, <1>8, <1>11 DEF y
<1>13. nbytes \in Nat \ {0} /\ nbytes % Alignment = 0
  BY <1>9, <1>11, <1>12
<1>14. client + len + GuardSize <= address + nbytes
  BY <1>2, <1>4, <1>8, <1>11
<1> HIDE DEF nbytes
<1>15. t.client_space = client /\ t.nbytes = nbytes
  BY <1>1
<1>16. QED
  BY <1>8, <1>13, <1>14, <1>15 DEF size, base, len

(* Where balloc_after puts the elements of a block at address.             *)
Place(d, address, align) ==
  LET size == ma_sizeof[d]
      first == address + AdSize
                 + ((ma_base[d] - address - AdSize - GuardSize) % size) + GuardSize
      up == (- first) % (2 ^ align)
  IN IF up % size = 0 THEN first + up ELSE first

(* It does not depend on how many elements there are: MA_free_heap_piece   *)
(* may cut a block.                                                        *)
LEMMA PlaceKept ==
  ASSUME NEW d, NEW n, NEW address
  PROVE  balloc_after(AR(d, n), address).client_space = Place(d, address, ma_numalign)
BY DEF balloc_after, AR, Place

(* A block laid out up to an address, which begins at a multiple of the    *)
(* alignment.                                                              *)
LEMMA BlockBefore ==
  ASSUME ma_numalign \in 0 .. 30, NEW d \in Datatype, NEW n \in Nat, NEW address \in Int,
         NEW t, t = balloc_before(AR(d, n), address)
  PROVE  /\ t.client_space \in Int /\ t.nbytes \in Nat \ {0}
         /\ (address - t.nbytes) % Alignment = 0
         /\ address - t.nbytes + AdSize + GuardSize <= t.client_space
         /\ t.client_space + n * ma_sizeof[d] + GuardSize <= address
         /\ (t.client_space - ma_base[d]) % ma_sizeof[d] = 0
<1> DEFINE size == ma_sizeof[d]
           base == ma_base[d]
           len == n * size
           unit == 2 ^ ma_numalign
           gap2 == (address - GuardSize - len - base) % size
           first == address - gap2 - GuardSize - len
           down == first % unit
           client == IF down % size = 0 THEN first - down ELSE first
           gap1 == (client - GuardSize - AdSize) % Alignment
           nbytes == address - client + GuardSize + gap1 + AdSize
<1>1. t = [client_space |-> client, nbytes |-> nbytes]
  BY Zenon DEF balloc_before, AR, Length
<1>2. /\ size \in Nat \ {0} /\ base \in Nat
      /\ AdSize \in Nat \ {0} /\ GuardSize \in Nat /\ Alignment \in Nat \ {0}
  BY MaAssumption DEF MaAssumption
<1>3. unit \in Nat \ {0}
  BY PowersPositive
<1>4. len \in Nat
  <2>1. ASSUME NEW x \in Nat, NEW y \in Nat PROVE x * y \in Nat
    OBVIOUS
  <2>2. QED
    BY <1>2, <2>1
<1> HIDE DEF size, base, len, unit
<1> DEFINE x == address - GuardSize - len - base
<1>5. x \in Int
  BY <1>2, <1>4
<1>6. gap2 \in Nat /\ (x - gap2) % size = 0
  <2> HIDE DEF x
  <2>1. x % size \in 0 .. (size - 1) /\ (x - (x % size)) % size = 0
    BY <1>2, <1>5, Division, Rounding
  <2>2. gap2 = x % size
    BY DEF x
  <2>3. QED
    BY <1>2, <2>1, <2>2
<1> HIDE DEF gap2
<1>7. first \in Int /\ (first - base) % size = 0 /\ first + len + GuardSize <= address
  <2>1. first - base = x - gap2
    BY <1>2, <1>4, <1>6
  <2>2. QED
    BY <1>2, <1>4, <1>6, <2>1
<1> HIDE DEF first, x
<1>8. down \in Nat
  BY <1>3, <1>7, Division
<1> HIDE DEF down
<1>9. client \in Int /\ client + len + GuardSize <= address /\ (client - base) % size = 0
  <2>1. CASE down % size = 0
    <3>1. ((first - base) - down) % size = 0
      <4> DEFINE a == first - base
      <4>1. a \in Int /\ down \in Int /\ a % size = 0
        BY <1>2, <1>7, <1>8
      <4> HIDE DEF a
      <4>2. (a - down) % size = 0
        BY <1>2, <2>1, <4>1, MultiplesAdd
      <4>3. QED
        BY <4>2 DEF a
    <3>2. client = first - down /\ (first - base) - down = client - base
      BY <1>2, <1>7, <1>8, <2>1
    <3>3. QED
      BY <1>2, <1>4, <1>7, <1>8, <3>1, <3>2
  <2>2. CASE down % size # 0
    BY <1>7, <2>2
  <2>3. QED
    BY <2>1, <2>2
<1> HIDE DEF client
<1> DEFINE z == client - GuardSize - AdSize
<1>10. z \in Int
  BY <1>2, <1>9
<1> HIDE DEF z
<1>11. gap1 \in Nat /\ (z - gap1) % Alignment = 0
  <2>1. z % Alignment \in 0 .. (Alignment - 1) /\ (z - (z % Alignment)) % Alignment = 0
    BY <1>2, <1>10, Division, Rounding
  <2>2. gap1 = z % Alignment
    BY DEF z
  <2>3. QED
    BY <1>2, <2>1, <2>2
<1> HIDE DEF gap1
<1>12. address - nbytes = z - gap1 /\ nbytes \in Nat \ {0} /\ address - nbytes + AdSize + GuardSize <= client
  BY <1>2, <1>4, <1>9, <1>11 DEF z
<1>13. (address - nbytes) % Alignment = 0
  BY <1>11, <1>12
<1> HIDE DEF nbytes
<1>14. t.client_space = client /\ t.nbytes = nbytes
  BY <1>1
<1>15. QED
  BY <1>9, <1>12, <1>13, <1>14 DEF size, base, len

-----------------------------------------------------------------------------
(* Tilings: ends of blocks by their starts.                                *)

Numbers(E) == DOMAIN E \subseteq Int /\ E \in [DOMAIN E -> Int]

(* A block may be split where neither part is empty.                       *)
LEMMA TileSplit ==
  ASSUME NEW E, Numbers(E), NEW lo \in Int, NEW hi \in Int, Tile(E, lo, hi),
         NEW at \in DOMAIN E, NEW mid \in Int, at < mid, mid < E[at],
         NEW G, DOMAIN G = DOMAIN E \cup {mid}, G[at] = mid, G[mid] = E[at],
         \A a \in DOMAIN E : a # at => G[a] = E[a]
  PROVE  Tile(G, lo, hi) /\ mid \notin DOMAIN E
<1>1. /\ DOMAIN E \subseteq Int /\ \A a \in DOMAIN E : E[a] \in Int
      /\ \A a \in DOMAIN E : lo <= a /\ a < E[a] /\ E[a] <= hi
      /\ \A a, b \in DOMAIN E : a < b => E[a] <= b
      /\ lo # hi => lo \in DOMAIN E
      /\ \A a \in DOMAIN E : E[a] # hi => E[a] \in DOMAIN E
  BY DEF Tile, Numbers
<1>2. mid \notin DOMAIN E
  BY <1>1
<1>3. /\ DOMAIN G = DOMAIN E \cup {mid}
      /\ G[at] = mid /\ G[mid] = E[at]
      /\ \A a \in DOMAIN E : a # at => G[a] = E[a]
  BY <1>2
<1>4. \A a \in DOMAIN G : lo <= a /\ a < G[a] /\ G[a] <= hi
  BY <1>1, <1>3
<1>5. ASSUME NEW a \in DOMAIN G, NEW b \in DOMAIN G, a < b PROVE G[a] <= b
  <2>1. CASE a = at
    BY <1>1, <1>3, <1>5, <2>1
  <2>2. CASE a = mid
    <3>1. b \in DOMAIN E /\ at < b
      BY <1>1, <1>3, <1>5, <2>2
    <3>2. QED
      BY <1>1, <1>3, <2>2, <3>1
  <2>3. CASE a # at /\ a # mid /\ b = mid
    <3>1. a \in DOMAIN E /\ G[a] = E[a]
      BY <1>3, <2>3
    <3>2. CASE a < at
      BY <1>1, <2>3, <3>1, <3>2
    <3>3. CASE at < a
      BY <1>1, <1>5, <2>3, <3>1, <3>3
    <3>4. QED
      BY <1>1, <2>3, <3>1, <3>2, <3>3
  <2>4. CASE a # at /\ a # mid /\ b # mid
    BY <1>1, <1>3, <1>5, <2>4
  <2>5. QED
    BY <2>1, <2>2, <2>3, <2>4
<1>6. lo # hi => lo \in DOMAIN G
  BY <1>1, <1>3
<1>7. \A a \in DOMAIN G : G[a] # hi => G[a] \in DOMAIN G
  BY <1>1, <1>3
<1>8. QED
  BY <1>2, <1>4, <1>5, <1>6, <1>7 DEF Tile

(* A block may be put behind the last one.                                 *)
LEMMA TileGrow ==
  ASSUME NEW E, Numbers(E), NEW lo \in Int, NEW hi \in Int, Tile(E, lo, hi),
         NEW top \in Int, hi < top, lo <= hi,
         NEW G, DOMAIN G = DOMAIN E \cup {hi}, G[hi] = top,
         \A a \in DOMAIN E : G[a] = E[a]
  PROVE  Tile(G, lo, top) /\ hi \notin DOMAIN E
<1>1. /\ DOMAIN E \subseteq Int /\ \A a \in DOMAIN E : E[a] \in Int
      /\ \A a \in DOMAIN E : lo <= a /\ a < E[a] /\ E[a] <= hi
      /\ \A a, b \in DOMAIN E : a < b => E[a] <= b
      /\ lo # hi => lo \in DOMAIN E
      /\ \A a \in DOMAIN E : E[a] # hi => E[a] \in DOMAIN E
  BY DEF Tile, Numbers
<1>2. hi \notin DOMAIN E
  BY <1>1
<1>3. /\ DOMAIN G = DOMAIN E \cup {hi}
      /\ G[hi] = top
      /\ \A a \in DOMAIN E : G[a] = E[a] /\ a < hi
  BY <1>1, <1>2
<1>4. \A a \in DOMAIN G : lo <= a /\ a < G[a] /\ G[a] <= top
  BY <1>1, <1>3
<1>5. ASSUME NEW a \in DOMAIN G, NEW b \in DOMAIN G, a < b PROVE G[a] <= b
  <2>1. a \in DOMAIN E
    BY <1>1, <1>3, <1>5
  <2>2. QED
    BY <1>1, <1>3, <1>5, <2>1
<1>6. lo \in DOMAIN G
  BY <1>1, <1>3
<1>7. \A a \in DOMAIN G : G[a] # top => G[a] \in DOMAIN G
  BY <1>1, <1>3
<1>8. QED
  BY <1>2, <1>4, <1>5, <1>6, <1>7 DEF Tile

(* Or in front of the first one.                                           *)
LEMMA TilePush ==
  ASSUME NEW E, Numbers(E), NEW lo \in Int, NEW hi \in Int, Tile(E, lo, hi),
         NEW new \in Int, new < lo, lo <= hi,
         NEW G, DOMAIN G = DOMAIN E \cup {new}, G[new] = lo,
         \A a \in DOMAIN E : G[a] = E[a]
  PROVE  Tile(G, new, hi) /\ new \notin DOMAIN E
<1>1. /\ DOMAIN E \subseteq Int /\ \A a \in DOMAIN E : E[a] \in Int
      /\ \A a \in DOMAIN E : lo <= a /\ a < E[a] /\ E[a] <= hi
      /\ \A a, b \in DOMAIN E : a < b => E[a] <= b
      /\ lo # hi => lo \in DOMAIN E
      /\ \A a \in DOMAIN E : E[a] # hi => E[a] \in DOMAIN E
  BY DEF Tile, Numbers
<1>2. new \notin DOMAIN E
  BY <1>1
<1>3. /\ DOMAIN G = DOMAIN E \cup {new}
      /\ G[new] = lo
      /\ \A a \in DOMAIN E : G[a] = E[a] /\ new < a
  BY <1>1, <1>2
<1>4. \A a \in DOMAIN G : new <= a /\ a < G[a] /\ G[a] <= hi
  BY <1>1, <1>3
<1>5. ASSUME NEW a \in DOMAIN G, NEW b \in DOMAIN G, a < b PROVE G[a] <= b
  <2>1. b \in DOMAIN E
    BY <1>1, <1>3, <1>5
  <2>2. QED
    BY <1>1, <1>3, <1>5, <2>1
<1>6. new \in DOMAIN G
  BY <1>3
<1>7. \A a \in DOMAIN G : G[a] # hi => G[a] \in DOMAIN G
  BY <1>1, <1>3
<1>8. QED
  BY <1>2, <1>4, <1>5, <1>6, <1>7 DEF Tile

(* What ends with a block is a tiling, and so is what follows it.          *)
LEMMA TileCut ==
  ASSUME NEW E, Numbers(E), NEW lo \in Int, NEW hi \in Int, Tile(E, lo, hi),
         NEW at \in DOMAIN E,
         NEW G, DOMAIN G = {b \in DOMAIN E : b <= at}, \A a \in DOMAIN G : G[a] = E[a],
         NEW H, DOMAIN H = {b \in DOMAIN E : at < b}, \A a \in DOMAIN H : H[a] = E[a]
  PROVE  Tile(G, lo, E[at]) /\ Tile(H, E[at], hi)
<1>1. /\ DOMAIN E \subseteq Int /\ \A a \in DOMAIN E : E[a] \in Int
      /\ \A a \in DOMAIN E : lo <= a /\ a < E[a] /\ E[a] <= hi
      /\ \A a, b \in DOMAIN E : a < b => E[a] <= b
      /\ lo # hi => lo \in DOMAIN E
      /\ \A a \in DOMAIN E : E[a] # hi => E[a] \in DOMAIN E
  BY DEF Tile, Numbers
<1>2. /\ DOMAIN G = {b \in DOMAIN E : b <= at} /\ \A a \in DOMAIN G : G[a] = E[a]
      /\ DOMAIN H = {b \in DOMAIN E : at < b} /\ \A a \in DOMAIN H : H[a] = E[a]
  OBVIOUS
<1>3. Tile(G, lo, E[at])
  <2>1. \A a \in DOMAIN G : lo <= a /\ a < G[a] /\ G[a] <= E[at]
    <3>1. ASSUME NEW a \in DOMAIN G PROVE lo <= a /\ a < G[a] /\ G[a] <= E[at]
      <4>1. a \in DOMAIN E /\ a <= at /\ G[a] = E[a]
        BY <1>2
      <4>2. a = at \/ a < at
        BY <1>1, <4>1
      <4>3. QED
        BY <1>1, <4>1, <4>2
    <3>2. QED
      BY <3>1
  <2>2. \A a, b \in DOMAIN G : a < b => G[a] <= b
    BY <1>1, <1>2
  <2>3. lo # E[at] => lo \in DOMAIN G
    BY <1>1, <1>2
  <2>4. \A a \in DOMAIN G : G[a] # E[at] => G[a] \in DOMAIN G
    <3>1. ASSUME NEW a \in DOMAIN G, G[a] # E[at] PROVE G[a] \in DOMAIN G
      <4>1. a \in DOMAIN E /\ a < at /\ G[a] = E[a]
        BY <1>1, <1>2, <3>1
      <4>2. E[a] <= at /\ E[a] # hi
        BY <1>1, <4>1
      <4>3. QED
        BY <1>1, <1>2, <4>1, <4>2
    <3>2. QED
      BY <3>1
  <2>5. QED
    BY <2>1, <2>2, <2>3, <2>4 DEF Tile
<1>4. Tile(H, E[at], hi)
  <2>1. \A a \in DOMAIN H : E[at] <= a /\ a < H[a] /\ H[a] <= hi
    BY <1>1, <1>2
  <2>2. \A a, b \in DOMAIN H : a < b => H[a] <= b
    BY <1>1, <1>2
  <2>3. E[at] # hi => E[at] \in DOMAIN H
    BY <1>1, <1>2
  <2>4. \A a \in DOMAIN H : H[a] # hi => H[a] \in DOMAIN H
    BY <1>1, <1>2
  <2>5. QED
    BY <2>1, <2>2, <2>3, <2>4 DEF Tile
<1>5. QED
  BY <1>3, <1>4

(* list_coalesce keeps a tiling, and afterwards no free block follows      *)
(* another one.                                                            *)
LEMMA TileCoalesce ==
  ASSUME NEW E, Numbers(E), NEW lo \in Int, NEW hi \in Int, Tile(E, lo, hi),
         NEW free, free \in [DOMAIN free -> Nat \ {0}], DOMAIN free \subseteq DOMAIN E,
         \A a \in DOMAIN free : E[a] = a + free[a],
         NEW c, c = list_coalesce(free),
         NEW G, DOMAIN G = (DOMAIN E \ DOMAIN free) \cup DOMAIN c,
         \A a \in DOMAIN c : G[a] = a + c[a],
         \A a \in DOMAIN E \ DOMAIN free : G[a] = E[a]
  PROVE  /\ Tile(G, lo, hi)
         /\ DOMAIN c \subseteq DOMAIN free /\ c \in [DOMAIN c -> Nat \ {0}]
         /\ \A a \in DOMAIN c : a + c[a] \notin DOMAIN free
<1>1. /\ DOMAIN E \subseteq Int /\ \A a \in DOMAIN E : E[a] \in Int
      /\ \A a \in DOMAIN E : lo <= a /\ a < E[a] /\ E[a] <= hi
      /\ \A a, b \in DOMAIN E : a < b => E[a] <= b
      /\ lo # hi => lo \in DOMAIN E
      /\ \A a \in DOMAIN E : E[a] # hi => E[a] \in DOMAIN E
  BY DEF Tile, Numbers
<1> DEFINE ends == {a + free[a] : a \in DOMAIN free}
           Behind(a) == {e \in ends \ DOMAIN free : a < e}
           next(a) == Min(Behind(a))
<1>2. c = [a \in DOMAIN free \ ends |-> next(a) - a]
  BY Zenon DEF list_coalesce
<1>3. /\ ends \subseteq Int /\ \A e \in ends : e <= hi /\ lo <= e
      /\ \A e \in ends : \E a \in DOMAIN free : e = E[a]
      /\ \A a \in DOMAIN free : E[a] \in ends
  BY <1>1
<1> HIDE DEF ends
(* Every run has an end.                                                   *)
<1>4. ASSUME NEW a \in DOMAIN free PROVE Behind(a) # {}
  <2> DEFINE S == {e \in ends : a < e}
  <2>1. S \subseteq Int /\ S # {} /\ \A e \in S : lo <= e /\ e <= hi
    BY <1>1, <1>3
  <2> HIDE DEF S
  <2>2. Max(S) \in S /\ \A e \in S : e <= Max(S)
    BY <2>1, MaxExists
  <2>3. Max(S) \notin DOMAIN free
    <3>1. SUFFICES ASSUME Max(S) \in DOMAIN free PROVE FALSE
      OBVIOUS
    <3>2. E[Max(S)] \in ends /\ Max(S) < E[Max(S)]
      BY <1>1, <1>3, <3>1
    <3>3. a < E[Max(S)]
      BY <1>1, <2>1, <2>2, <3>1, <3>2 DEF S
    <3>4. E[Max(S)] <= Max(S)
      BY <2>2, <3>2, <3>3 DEF S
    <3>5. QED
      BY <1>1, <1>3, <3>1, <3>2, <3>4
  <2>4. QED
    BY <2>2, <2>3 DEF S
<1>5. ASSUME NEW a \in DOMAIN free
      PROVE  /\ next(a) \in ends /\ next(a) \notin DOMAIN free /\ a < next(a)
             /\ \A e \in ends : a < e /\ e < next(a) => e \in DOMAIN free
  <2>1. Behind(a) \subseteq Int /\ \A e \in Behind(a) : lo <= e
    BY <1>3
  <2>2. next(a) \in Behind(a) /\ \A e \in Behind(a) : next(a) <= e
    <3>1. Behind(a) # {}
      BY <1>4
    <3> HIDE DEF Behind
    <3>2. QED
      BY <2>1, <3>1, MinExists
  <2> HIDE DEF next
  <2>3. QED
    BY <1>3, <2>1, <2>2
<1> HIDE DEF next
<1>6. /\ DOMAIN c = DOMAIN free \ ends
      /\ \A a \in DOMAIN c : a + c[a] = next(a) /\ c[a] \in Nat \ {0}
  <2>1. DOMAIN c = DOMAIN free \ ends /\ \A a \in DOMAIN c : c[a] = next(a) - a
    BY <1>2
  <2>2. QED
    BY <1>1, <1>3, <1>5, <2>1
(* No other block begins within a run, but those that it takes in.         *)
<1>7. ASSUME NEW a \in DOMAIN free, NEW s \in DOMAIN E, a < s, s < next(a),
             s \notin DOMAIN free \/ s \notin ends
      PROVE  FALSE
  <2> DEFINE S == {x \in DOMAIN free : a <= x /\ x <= s}
  <2>1. S \subseteq Int /\ S # {} /\ \A x \in S : lo <= x /\ x <= hi
    BY <1>1, <1>7
  <2>2. Max(S) \in S /\ \A x \in S : x <= Max(S)
    <3> HIDE DEF S
    <3>1. QED
      BY <2>1, MaxExists
  <2> DEFINE x == Max(S)
  <2>3. x \in DOMAIN free /\ a <= x /\ x <= s /\ \A z \in DOMAIN free : a <= z /\ z <= s => z <= x
    BY <2>2
  <2> HIDE DEF x, S
  <2>4. CASE x < s
    <3>1. E[x] <= s /\ x < E[x] /\ E[x] \in ends
      BY <1>1, <1>3, <2>3, <2>4
    <3>2. a < E[x] /\ E[x] < next(a)
      BY <1>1, <1>3, <1>5, <1>7, <2>3, <3>1
    <3>3. E[x] \in DOMAIN free
      BY <1>5, <3>1, <3>2
    <3>4. E[x] <= x
      BY <1>1, <2>3, <3>1, <3>2, <3>3
    <3>5. QED
      BY <1>1, <2>3, <3>1, <3>4
  <2>5. CASE x = s
    <3>1. s \in DOMAIN free /\ s \notin ends
      BY <1>7, <2>3, <2>5
    <3> DEFINE T == {y \in DOMAIN free : a <= y /\ y < s}
    <3>2. T \subseteq Int /\ T # {} /\ \A y \in T : lo <= y /\ y <= hi
      BY <1>1, <1>7
    <3>3. Max(T) \in T /\ \A y \in T : y <= Max(T)
      <4> HIDE DEF T
      <4>1. QED
        BY <3>2, MaxExists
    <3> DEFINE y == Max(T)
    <3>4. y \in DOMAIN free /\ a <= y /\ y < s /\ \A z \in DOMAIN free : a <= z /\ z < s => z <= y
      BY <3>3
    <3> HIDE DEF y, T
    <3>5. E[y] <= s /\ y < E[y] /\ E[y] \in ends
      BY <1>1, <1>3, <3>4
    <3>6. E[y] # s /\ E[y] < s
      BY <1>1, <3>1, <3>4, <3>5
    <3>7. a < E[y] /\ E[y] < next(a)
      BY <1>1, <1>3, <1>5, <1>7, <3>4, <3>5, <3>6
    <3>8. E[y] \in DOMAIN free
      BY <1>5, <3>5, <3>7
    <3>9. E[y] <= y
      BY <1>1, <3>4, <3>6, <3>7, <3>8
    <3>10. QED
      BY <1>1, <3>4, <3>5, <3>9
  <2>6. QED
    BY <1>1, <2>3, <2>4, <2>5
<1>8. /\ DOMAIN G = (DOMAIN E \ DOMAIN free) \cup DOMAIN c
      /\ \A a \in DOMAIN c : G[a] = next(a)
      /\ \A a \in DOMAIN E \ DOMAIN free : G[a] = E[a]
      /\ DOMAIN G \subseteq DOMAIN E
  BY <1>6
<1>9. \A a \in DOMAIN G : lo <= a /\ a < G[a] /\ G[a] <= hi
  BY <1>1, <1>3, <1>5, <1>6, <1>8
<1>10. ASSUME NEW a \in DOMAIN G, NEW b \in DOMAIN G, a < b PROVE G[a] <= b
  <2>1. CASE a \in DOMAIN E \ DOMAIN free
    BY <1>1, <1>8, <1>10, <2>1
  <2>2. CASE a \in DOMAIN c
    <3>1. a \in DOMAIN free /\ G[a] = next(a) /\ b \in DOMAIN E /\ (b \notin DOMAIN free \/ b \notin ends)
      BY <1>6, <1>8, <2>2
    <3>2. ~ (b < next(a))
      BY <1>7, <1>10, <3>1
    <3>3. QED
      BY <1>1, <1>3, <1>5, <3>1, <3>2
  <2>3. QED
    BY <1>8, <2>1, <2>2
(* No used block ends where a free one does.                               *)
<1>11. ASSUME NEW u \in DOMAIN E \ DOMAIN free PROVE E[u] \notin ends
  <2>1. SUFFICES ASSUME E[u] \in ends PROVE FALSE
    OBVIOUS
  <2>2. PICK a \in DOMAIN free : E[u] = E[a]
    BY <1>3, <2>1
  <2>3. u < a \/ a < u
    BY <1>1, <2>2
  <2>4. QED
    BY <1>1, <2>2, <2>3
<1>12. lo # hi => lo \in DOMAIN G
  <2>1. SUFFICES ASSUME lo # hi PROVE lo \in DOMAIN G
    OBVIOUS
  <2>2. lo \in DOMAIN E /\ lo \notin ends
    BY <1>1, <1>3, <2>1
  <2>3. QED
    BY <1>6, <1>8, <2>2
<1>13. ASSUME NEW a \in DOMAIN G, G[a] # hi PROVE G[a] \in DOMAIN G
  <2>1. CASE a \in DOMAIN E \ DOMAIN free
    <3>1. G[a] = E[a] /\ E[a] \in DOMAIN E /\ E[a] \notin ends
      BY <1>1, <1>8, <1>11, <1>13, <2>1
    <3>2. QED
      BY <1>6, <1>8, <3>1
  <2>2. CASE a \in DOMAIN c
    <3>1. a \in DOMAIN free /\ G[a] = next(a) /\ next(a) \in ends /\ next(a) \notin DOMAIN free
      BY <1>5, <1>6, <1>8, <2>2
    <3>2. PICK x \in DOMAIN free : next(a) = E[x]
      BY <1>3, <3>1
    <3>3. next(a) \in DOMAIN E
      BY <1>1, <1>13, <3>1, <3>2
    <3>4. QED
      BY <1>8, <3>1, <3>3
  <2>3. QED
    BY <1>8, <2>1, <2>2
<1>14. Tile(G, lo, hi)
  BY <1>9, <1>10, <1>12, <1>13 DEF Tile
<1>15. c \in [DOMAIN c -> Nat \ {0}]
  BY <1>2, <1>6
<1>16. QED
  BY <1>5, <1>6, <1>14, <1>15

-----------------------------------------------------------------------------
(* The inductive invariant.                                                *)

Used == [datatype : Datatype, nelem : Nat, client_space : Int, nbytes : Nat \ {0}]

Lists(used, free) ==
  /\ used \in [DOMAIN used -> Used] /\ DOMAIN used \subseteq Nat
  /\ free \in [DOMAIN free -> Nat \ {0}] /\ DOMAIN free \subseteq Nat
  /\ DOMAIN used \intersect DOMAIN free = {}

Region(used, free, lo, hi) == Lists(used, free) /\ Tile(Ends(used, free), lo, hi)

(* Nothing on the free list can be merged or belongs to the gap.           *)
Coalesced(used, free) ==
  \A a \in DOMAIN free :
    /\ a + free[a] \notin DOMAIN free
    /\ \E u \in DOMAIN used : u > a

Typed ==
  /\ ma_initialized \in BOOLEAN
  /\ ma_segment \in Nat /\ ma_partition \in Nat /\ ma_eos \in Nat
  /\ ma_hp \in Nat /\ ma_sp \in Nat
  /\ ma_numalign \in 0 .. 30

Regions ==
  /\ ma_segment <= ma_hp /\ ma_hp <= ma_sp /\ ma_sp <= ma_eos
  /\ Region(ma_hused, ma_hfree, ma_segment, ma_hp)
  /\ Coalesced(ma_hused, ma_hfree)
  /\ Region(ma_sused, <<>>, ma_sp, ma_eos)

Aligned ==
  /\ ma_segment % Alignment = 0 /\ ma_hp % Alignment = 0
  /\ \A a \in DOMAIN ma_hused \cup DOMAIN ma_hfree \cup DOMAIN ma_sused : a % Alignment = 0

Fresh == ma_initialized \/ DOMAIN ma_hused \cup DOMAIN ma_sused = {}

(* The regions and their blocks, whatever the handles.                     *)
Laid == Typed /\ Regions /\ Aligned /\ Fresh

TableTyped ==
  \E cap \in Nat :
    /\ ma_table \in [0 .. (cap - 1) -> Nat \cup {None}]
    /\ ma_table_next_slot \in 0 .. cap

IInv == Laid /\ TableTyped /\ HandlesMatchBlocks

(* A block is as BlocksWellFormed says.                                    *)
Formed(b, a) ==
  /\ a % Alignment = 0
  /\ a + AdSize + GuardSize <= b.client_space
  /\ b.client_space + Length(b) + GuardSize <= a + b.nbytes
  /\ (b.client_space - ma_base[b.datatype]) % ma_sizeof[b.datatype] = 0

AllFormed(used) == \A a \in DOMAIN used : Formed(used[a], a)

AllPlaced(used, align) ==
  \A a \in DOMAIN used : used[a].client_space = Place(used[a].datatype, a, align)

(* A used block of the heap has its elements where balloc_after would put  *)
(* them now: the alignment is as it was when the block was allocated.      *)
Placed ==
  AllFormed(ma_hused) /\ AllFormed(ma_sused) /\ AllPlaced(ma_hused, ma_numalign)

-----------------------------------------------------------------------------
(* The heap: its used list and its free list tile it.                      *)

(* E is the ends of the blocks of two lists.                               *)
Measured(E, used, free) ==
  /\ Numbers(E) /\ DOMAIN E = DOMAIN used \cup DOMAIN free
  /\ \A a \in DOMAIN used : E[a] = a + used[a].nbytes /\ used[a].nbytes \in Nat \ {0}
  /\ \A a \in DOMAIN free : E[a] = a + free[a] /\ free[a] \in Nat \ {0}

(* Ends measures the blocks of two lists.                                  *)
LEMMA EndsElements ==
  ASSUME NEW used, NEW free, Lists(used, free)
  PROVE  Measured(Ends(used, free), used, free)
<1> DEFINE E == Ends(used, free)
           e(a) == a + IF a \in DOMAIN used THEN used[a].nbytes ELSE free[a]
<1>1. E = [a \in DOMAIN used \cup DOMAIN free |-> e(a)]
  BY DEF Ends
<1> HIDE DEF E
<1>2. \A a \in DOMAIN used : a \in Nat /\ used[a].nbytes \in Nat \ {0} /\ e(a) = a + used[a].nbytes
  BY DEF Lists, Used
<1>3. \A a \in DOMAIN free : a \in Nat /\ free[a] \in Nat \ {0} /\ e(a) = a + free[a]
  BY DEF Lists
<1> HIDE DEF e
<1>4. \A a \in DOMAIN used \cup DOMAIN free : a \in Int /\ e(a) \in Int
  BY <1>2, <1>3
<1>5. DOMAIN E = DOMAIN used \cup DOMAIN free /\ \A a \in DOMAIN E : E[a] = e(a)
  BY <1>1
<1>6. E \in [DOMAIN E -> Int] /\ DOMAIN E \subseteq Int
  BY <1>1, <1>4
<1>7. QED
  BY <1>2, <1>3, <1>5, <1>6 DEF E, Numbers, Measured

(* A descriptor that is put on the free list.                              *)
LEMMA InsertElements ==
  ASSUME NEW free, free \in [DOMAIN free -> Nat \ {0}],
         NEW ad, ad.nbytes \in Nat \ {0},
         NEW l, l = list_insert_ordered(ad, free)
  PROVE  /\ DOMAIN l = DOMAIN free \cup {ad.at} /\ l[ad.at] = ad.nbytes
         /\ \A a \in DOMAIN free : a # ad.at => l[a] = free[a]
         /\ l \in [DOMAIN l -> Nat \ {0}]
BY DEF list_insert_ordered

(* The lists after the whole block of the free list at `at' is used.       *)
WholeTaken(used, free, at, u, f, lo, hi) ==
  /\ Region(u, f, lo, hi)
  /\ Coalesced(used, free) => Coalesced(u, f)
  /\ DOMAIN u = DOMAIN used \cup {at} /\ DOMAIN f = DOMAIN free \ {at}

(* A whole block of the free list is used.                                 *)
LEMMA TakeWhole ==
  ASSUME NEW used, NEW free, NEW lo \in Int, NEW hi \in Int, Region(used, free, lo, hi),
         NEW at \in DOMAIN free, NEW b \in Used, b.nbytes = free[at],
         NEW u, u = AddBlock(used, at, b),
         NEW f, f = Restrict(free, DOMAIN free \ {at})
  PROVE  WholeTaken(used, free, at, u, f, lo, hi)
<1>1. Lists(used, free) /\ at \notin DOMAIN used
  BY DEF Region, Lists
<1>a. used \in [DOMAIN used -> Used] /\ free \in [DOMAIN free -> Nat \ {0}]
  BY <1>1 DEF Lists
<1>2. /\ DOMAIN u = DOMAIN used \cup {at} /\ u[at] = b
      /\ \A a \in DOMAIN used : a # at => u[a] = used[a]
      /\ u \in [DOMAIN u -> Used]
  BY <1>a DEF AddBlock
<1>3. /\ DOMAIN f = DOMAIN free \ {at} /\ \A a \in DOMAIN f : f[a] = free[a]
      /\ f \in [DOMAIN f -> Nat \ {0}]
  BY <1>a DEF Restrict
<1>4. Lists(u, f)
  BY <1>1, <1>2, <1>3 DEF Lists
<1>5. /\ DOMAIN Ends(u, f) = DOMAIN Ends(used, free)
      /\ \A a \in DOMAIN Ends(used, free) : Ends(u, f)[a] = Ends(used, free)[a]
  <2>1. Measured(Ends(used, free), used, free) /\ Measured(Ends(u, f), u, f)
    BY <1>1, <1>4, EndsElements
  <2> DEFINE E == Ends(used, free)
             G == Ends(u, f)
  <2> HIDE DEF E, G
  <2>2. /\ DOMAIN E = DOMAIN used \cup DOMAIN free
        /\ \A a \in DOMAIN used : E[a] = a + used[a].nbytes
        /\ \A a \in DOMAIN free : E[a] = a + free[a]
        /\ DOMAIN G = DOMAIN u \cup DOMAIN f
        /\ \A a \in DOMAIN u : G[a] = a + u[a].nbytes
        /\ \A a \in DOMAIN f : G[a] = a + f[a]
    BY <2>1 DEF Measured, E, G
  <2>3. DOMAIN G = DOMAIN E
    BY <1>2, <1>3, <2>2
  <2>4. ASSUME NEW a \in DOMAIN E PROVE G[a] = E[a]
    <3>1. CASE a = at
      <4>1. G[at] = at + b.nbytes /\ E[at] = at + free[at]
        BY <1>2, <2>2
      <4>2. QED
        BY <3>1, <4>1
    <3>2. CASE a # at /\ a \in DOMAIN used
      <4>1. G[a] = a + u[a].nbytes /\ u[a] = used[a] /\ E[a] = a + used[a].nbytes
        BY <1>2, <2>2, <3>2
      <4>2. QED
        BY <4>1
    <3>3. CASE a # at /\ a \in DOMAIN free
      <4>1. G[a] = a + f[a] /\ f[a] = free[a] /\ E[a] = a + free[a]
        BY <1>3, <2>2, <3>3
      <4>2. QED
        BY <4>1
    <3>4. QED
      BY <2>2, <3>1, <3>2, <3>3
  <2>5. QED
    BY <2>3, <2>4 DEF E, G
<1>6. Tile(Ends(u, f), lo, hi)
  BY <1>5 DEF Region, Tile
<1>7. Coalesced(used, free) => Coalesced(u, f)
  <2>1. DOMAIN used \subseteq DOMAIN u /\ DOMAIN f \subseteq DOMAIN free
    BY <1>2, <1>3
  <2>2. QED
    BY <1>3, <2>1 DEF Coalesced
<1>8. QED
  BY <1>2, <1>3, <1>4, <1>6, <1>7 DEF Region, WholeTaken

(* The lists after the front of the block at `at' is used, up to mid, and  *)
(* the rest of it is free.                                                 *)
FrontTaken(used, free, at, mid, u, f, lo, hi) ==
  /\ Region(u, f, lo, hi)
  /\ mid \notin DOMAIN used \cup DOMAIN free
  /\ DOMAIN f = (DOMAIN free \ {at}) \cup {mid}
  /\ at \in DOMAIN free /\ Coalesced(used, free) => Coalesced(u, f)

(* The front of a block is used, the rest of it is free: of a block that   *)
(* was free, or of one that is cut.                                        *)
LEMMA TakeFront ==
  ASSUME NEW used, NEW free, NEW lo \in Int, NEW hi \in Int, Region(used, free, lo, hi),
         NEW at \in DOMAIN used \cup DOMAIN free, NEW b \in Used,
         at + b.nbytes < Ends(used, free)[at],
         NEW u, u \in [DOMAIN u -> Used], DOMAIN u = DOMAIN used \cup {at}, u[at] = b,
         \A a \in DOMAIN used : a # at => u[a] = used[a],
         NEW rest, rest.at = at + b.nbytes, rest.nbytes = Ends(used, free)[at] - (at + b.nbytes),
         NEW f, f = list_insert_ordered(rest, Restrict(free, DOMAIN free \ {at}))
  PROVE  FrontTaken(used, free, at, at + b.nbytes, u, f, lo, hi)
<1> DEFINE E == Ends(used, free)
           mid == at + b.nbytes
           left == Restrict(free, DOMAIN free \ {at})
<1>1. Lists(used, free) /\ Tile(E, lo, hi)
  BY DEF Region
<1>a. Measured(E, used, free)
  BY <1>1, EndsElements
<1> HIDE DEF E
<1>2. /\ Numbers(E) /\ DOMAIN E = DOMAIN used \cup DOMAIN free
      /\ \A a \in DOMAIN used : E[a] = a + used[a].nbytes
      /\ \A a \in DOMAIN free : E[a] = a + free[a]
  BY <1>a DEF Measured
<1>3. b.nbytes \in Nat \ {0} /\ at \in Nat
  BY <1>1 DEF Lists, Used
<1>4. mid \in Nat /\ at < mid /\ mid < E[at] /\ E[at] \in Int
  BY <1>2, <1>3 DEF Numbers, E
<1>5. mid \notin DOMAIN E
  BY <1>1, <1>2, <1>4 DEF Tile, Numbers
<1>6. /\ DOMAIN left = DOMAIN free \ {at} /\ \A a \in DOMAIN left : left[a] = free[a]
      /\ left \in [DOMAIN left -> Nat \ {0}]
  <2>1. free \in [DOMAIN free -> Nat \ {0}]
    BY <1>1 DEF Lists
  <2>2. QED
    BY <2>1 DEF Restrict
<1>7. /\ DOMAIN f = DOMAIN left \cup {mid} /\ f[mid] = E[at] - mid
      /\ \A a \in DOMAIN left : a # mid => f[a] = left[a]
      /\ f \in [DOMAIN f -> Nat \ {0}]
  <2>1. rest.at = mid /\ rest.nbytes = E[at] - mid /\ rest.nbytes \in Nat \ {0}
    BY <1>4 DEF E
  <2> HIDE DEF E, mid, left
  <2>2. f = list_insert_ordered(rest, left)
    BY DEF left
  <2>3. /\ DOMAIN f = DOMAIN left \cup {rest.at} /\ f[rest.at] = rest.nbytes
        /\ \A a \in DOMAIN left : a # rest.at => f[a] = left[a]
        /\ f \in [DOMAIN f -> Nat \ {0}]
    BY <1>6, <2>1, <2>2, InsertElements
  <2>4. QED
    BY <2>1, <2>3
<1> HIDE DEF E, mid, left
<1>8. /\ DOMAIN f = (DOMAIN free \ {at}) \cup {mid} /\ f[mid] = E[at] - mid
      /\ \A a \in DOMAIN free : a # at => f[a] = free[a]
  BY <1>2, <1>5, <1>6, <1>7
<1>9. Lists(u, f)
  BY <1>1, <1>2, <1>3, <1>4, <1>5, <1>7, <1>8 DEF Lists
<1> DEFINE G == Ends(u, f)
<1>b. Measured(G, u, f)
  BY <1>9, EndsElements
<1> HIDE DEF G
<1>10. /\ DOMAIN G = DOMAIN u \cup DOMAIN f
       /\ \A a \in DOMAIN u : G[a] = a + u[a].nbytes
       /\ \A a \in DOMAIN f : G[a] = a + f[a]
  BY <1>b DEF Measured
<1>11. /\ DOMAIN G = DOMAIN E \cup {mid} /\ G[at] = mid /\ G[mid] = E[at]
       /\ \A a \in DOMAIN E : a # at => G[a] = E[a]
  <2>1. DOMAIN G = DOMAIN E \cup {mid}
    BY <1>2, <1>8, <1>10
  <2>2. G[at] = mid
    BY <1>10 DEF mid
  <2>3. G[mid] = E[at]
    <3>1. mid \in DOMAIN f /\ f[mid] = E[at] - mid
      BY <1>8
    <3>2. G[mid] = mid + (E[at] - mid)
      BY <1>10, <3>1
    <3>3. QED
      BY <1>4, <3>2
  <2>4. ASSUME NEW a \in DOMAIN E, a # at PROVE G[a] = E[a]
    <3>1. CASE a \in DOMAIN used
      <4>1. a \in DOMAIN u /\ u[a] = used[a]
        BY <2>4, <3>1
      <4>2. G[a] = a + u[a].nbytes /\ E[a] = a + used[a].nbytes
        BY <1>2, <1>10, <3>1, <4>1
      <4>3. QED
        BY <4>1, <4>2
    <3>2. CASE a \in DOMAIN free
      <4>1. a \in DOMAIN f /\ f[a] = free[a]
        BY <1>8, <2>4, <3>2
      <4>2. G[a] = a + f[a] /\ E[a] = a + free[a]
        BY <1>2, <1>10, <3>2, <4>1
      <4>3. QED
        BY <4>1, <4>2
    <3>3. QED
      BY <1>2, <3>1, <3>2
  <2>5. QED
    BY <2>1, <2>2, <2>3, <2>4
<1>12. Tile(G, lo, hi)
  BY <1>1, <1>2, <1>4, <1>11, TileSplit
<1>13. ASSUME at \in DOMAIN free, Coalesced(used, free) PROVE Coalesced(u, f)
  <2>1. /\ \A a \in DOMAIN E : a \in Int /\ E[a] \in Int /\ a < E[a]
        /\ \A a, b2 \in DOMAIN E : a < b2 => E[a] <= b2
    BY <1>1, <1>2 DEF Tile, Numbers
  <2>2. at \in DOMAIN E /\ \A a \in DOMAIN free : E[a] \notin DOMAIN free
    BY <1>2, <1>13 DEF Coalesced
  <2>3. \A a \in DOMAIN free : a # at => E[a] # mid
    <3>1. ASSUME NEW a \in DOMAIN free, a # at PROVE E[a] # mid
      <4>1. a \in DOMAIN E /\ (a < at \/ at < a)
        BY <1>2, <2>1, <2>2, <3>1
      <4>2. CASE a < at
        <5>1. E[a] <= at
          BY <2>1, <2>2, <4>1, <4>2
        <5>2. QED
          BY <1>4, <2>1, <2>2, <4>1, <5>1
      <4>3. CASE at < a
        <5>1. E[at] <= a /\ a < E[a]
          BY <2>1, <2>2, <4>1, <4>3
        <5>2. QED
          BY <1>4, <2>1, <2>2, <4>1, <5>1
      <4>4. QED
        BY <4>1, <4>2, <4>3
    <3>2. QED
      BY <3>1
  <2>4. \A a \in DOMAIN f : a + f[a] \notin DOMAIN f
    <3>1. ASSUME NEW a \in DOMAIN f PROVE a + f[a] \notin DOMAIN f
      <4>1. CASE a = mid
        <5>1. a + f[a] = E[at]
          BY <1>4, <1>8, <4>1
        <5>2. E[at] \notin DOMAIN free /\ E[at] # mid
          BY <1>4, <1>13, <2>2
        <5>3. QED
          BY <1>8, <5>1, <5>2
      <4>2. CASE a # mid
        <5>1. a \in DOMAIN free /\ a # at
          BY <1>8, <4>2
        <5>2. f[a] = free[a] /\ E[a] = a + free[a]
          BY <1>2, <1>8, <5>1
        <5>3. E[a] \notin DOMAIN free /\ E[a] # mid
          BY <2>2, <2>3, <5>1
        <5>4. QED
          BY <1>8, <5>2, <5>3
      <4>3. QED
        BY <4>1, <4>2
    <3>2. QED
      BY <3>1
  <2>5. \A a \in DOMAIN f : \E x \in DOMAIN u : x > a
    <3>1. ASSUME NEW a \in DOMAIN f PROVE \E x \in DOMAIN u : x > a
      <4>1. CASE a = mid
        <5>1. PICK x \in DOMAIN used : x > at
          BY <1>13 DEF Coalesced
        <5>2. x \in DOMAIN E /\ x \in DOMAIN u
          BY <1>2, <5>1
        <5>3. E[at] <= x
          BY <2>1, <2>2, <5>1, <5>2
        <5>4. QED
          BY <1>4, <2>1, <4>1, <5>2, <5>3
      <4>2. CASE a # mid
        <5>1. a \in DOMAIN free
          BY <1>8, <4>2
        <5>2. PICK x \in DOMAIN used : x > a
          BY <1>13, <5>1 DEF Coalesced
        <5>3. QED
          BY <5>2
      <4>3. QED
        BY <4>1, <4>2
    <3>2. QED
      BY <3>1
  <2>6. QED
    BY <2>4, <2>5 DEF Coalesced
<1>14. QED
  BY <1>2, <1>5, <1>8, <1>9, <1>12, <1>13 DEF Region, E, mid, G, FrontTaken

(* What block_free_heap computes when blocks are in use: max, the part     *)
(* left of the free list, and the new one, f.                              *)
Frees(ad, used, free, max, left, f) ==
  /\ max = Max(DOMAIN used)
  /\ left = Restrict(free, {a \in DOMAIN free : a <= max})
  /\ f = IF ad.at < max THEN list_coalesce(list_insert_ordered(ad, left)) ELSE left

(* And what comes of it in a heap from lo to hi.                           *)
Freed(ad, used, free, lo, hi, max, f) ==
  /\ Region(used, f, lo, max + used[max].nbytes)
  /\ Coalesced(used, f)
  /\ max \in DOMAIN used /\ lo <= max /\ max + used[max].nbytes <= hi
  /\ max + used[max].nbytes \in Nat /\ max < max + used[max].nbytes
  /\ max + used[max].nbytes \in {hi, ad.at} \cup DOMAIN used \cup DOMAIN free
  /\ DOMAIN f \subseteq DOMAIN free \cup {ad.at}

(* When ad is free but not on the list, block_free_heap leaves a heap that *)
(* is tiled up to its new end and coalesced.                               *)
LEMMA FreeBlock ==
  ASSUME NEW used, NEW free, NEW lo \in Int, NEW hi \in Int,
         NEW ad, ad.at \in Nat, ad.nbytes \in Nat \ {0},
         Region(used, list_insert_ordered(ad, free), lo, hi),
         free \in [DOMAIN free -> Nat \ {0}], ad.at \notin DOMAIN free,
         \A a \in DOMAIN free : a + free[a] \notin DOMAIN free,
         DOMAIN used # {},
         NEW max, NEW left, NEW f, Frees(ad, used, free, max, left, f)
  PROVE  Freed(ad, used, free, lo, hi, max, f)
<1>0. /\ max = Max(DOMAIN used)
      /\ left = Restrict(free, {a \in DOMAIN free : a <= max})
      /\ f = IF ad.at < max THEN list_coalesce(list_insert_ordered(ad, left)) ELSE left
  BY DEF Frees
<1> USE <1>0
<1> DEFINE all == list_insert_ordered(ad, free)
           E == Ends(used, all)
           top == max + used[max].nbytes
<1>1. /\ DOMAIN all = DOMAIN free \cup {ad.at} /\ all[ad.at] = ad.nbytes
      /\ \A a \in DOMAIN free : a # ad.at => all[a] = free[a]
      /\ all \in [DOMAIN all -> Nat \ {0}]
  BY InsertElements
<1>2. Lists(used, all) /\ Tile(E, lo, hi)
  BY DEF Region
<1> HIDE DEF all
<1>a. Measured(E, used, all)
  BY <1>2, EndsElements
<1> HIDE DEF E
<1>3. /\ Numbers(E) /\ DOMAIN E = DOMAIN used \cup DOMAIN all
      /\ \A a \in DOMAIN used : E[a] = a + used[a].nbytes
      /\ \A a \in DOMAIN all : E[a] = a + all[a]
  BY <1>a DEF Measured
<1>4. /\ \A a \in DOMAIN E : lo <= a /\ a < E[a] /\ E[a] <= hi
      /\ \A a \in DOMAIN E : a \in Int /\ E[a] \in Int
  BY <1>2, <1>3 DEF Tile, Numbers
<1>5. max \in DOMAIN used /\ \A a \in DOMAIN used : a <= max
  <2>1. DOMAIN used \subseteq Int /\ \A a \in DOMAIN used : lo <= a /\ a <= hi
    BY <1>3, <1>4
  <2>2. QED
    BY <2>1, MaxExists
<1>6. max \in DOMAIN E /\ E[max] = top /\ max \in Nat /\ max \notin DOMAIN all
  BY <1>2, <1>3, <1>5 DEF Lists
<1>7. lo <= max /\ top <= hi /\ max < top /\ top \in Nat
  BY <1>4, <1>6
<1>c. top \in {hi, ad.at} \cup DOMAIN used \cup DOMAIN free
  BY <1>1, <1>2, <1>3, <1>6 DEF Tile
<1>8. /\ DOMAIN left = {a \in DOMAIN free : a <= max} /\ \A a \in DOMAIN left : left[a] = free[a]
      /\ left \in [DOMAIN left -> Nat \ {0}]
  BY DEF Restrict
(* The blocks up to max.                                                   *)
<1> DEFINE l == IF ad.at < max THEN list_insert_ordered(ad, left) ELSE left
<1>9. /\ DOMAIN l = {a \in DOMAIN all : a <= max} /\ \A a \in DOMAIN l : l[a] = all[a]
      /\ l \in [DOMAIN l -> Nat \ {0}]
  <2>1. CASE ad.at < max
    <3>a. l = list_insert_ordered(ad, left)
      BY <2>1
    <3> HIDE DEF l
    <3>1. /\ DOMAIN l = DOMAIN left \cup {ad.at} /\ l[ad.at] = ad.nbytes
          /\ \A a \in DOMAIN left : a # ad.at => l[a] = left[a]
          /\ l \in [DOMAIN l -> Nat \ {0}]
      <4>1. left \in [DOMAIN left -> Nat \ {0}]
        BY <1>8
      <4>2. ad.nbytes \in Nat \ {0}
        OBVIOUS
      <4>3. QED
        BY <3>a, <4>1, <4>2 DEF list_insert_ordered
    <3>2. ad.at <= max
      BY <1>6, <2>1
    <3>3. QED
      BY <1>1, <1>8, <3>1, <3>2
  <2>2. CASE ~ (ad.at < max)
    <3>1. l = left /\ ~ (ad.at <= max)
      BY <1>1, <1>6, <2>2
    <3> HIDE DEF l
    <3>2. QED
      BY <1>1, <1>8, <3>1
  <2>3. QED
    BY <2>1, <2>2
<1>10. f = IF ad.at < max THEN list_coalesce(l) ELSE l
  OBVIOUS
<1> HIDE DEF l, top
<1>11. Lists(used, l)
  BY <1>2, <1>9 DEF Lists
<1> DEFINE G == Ends(used, l)
<1>b. Measured(G, used, l)
  BY <1>11, EndsElements
<1> HIDE DEF G
<1>12. /\ Numbers(G) /\ DOMAIN G = DOMAIN used \cup DOMAIN l
       /\ \A a \in DOMAIN used : G[a] = a + used[a].nbytes
       /\ \A a \in DOMAIN l : G[a] = a + l[a]
  BY <1>b DEF Measured
<1>13. DOMAIN G = {a \in DOMAIN E : a <= max} /\ \A a \in DOMAIN G : G[a] = E[a]
  BY <1>3, <1>5, <1>9, <1>12
<1>14. Tile(G, lo, top)
  <2> DEFINE H == [a \in {b \in DOMAIN E : max < b} |-> E[a]]
  <2>1. DOMAIN H = {b \in DOMAIN E : max < b} /\ \A a \in DOMAIN H : H[a] = E[a]
    OBVIOUS
  <2> HIDE DEF H
  <2>2. QED
    BY <1>2, <1>3, <1>6, <1>13, <2>1, TileCut
<1>15. top \in Int
  BY <1>4, <1>6
<1>16. CASE ad.at < max
  <2> DEFINE c == list_coalesce(l)
             J == Ends(used, c)
             K == [a \in (DOMAIN G \ DOMAIN l) \cup DOMAIN c |-> IF a \in DOMAIN c THEN a + c[a] ELSE G[a]]
  <2>1. f = c
    BY <1>10, <1>16
  <2>2. K = [a \in (DOMAIN G \ DOMAIN l) \cup DOMAIN c |-> IF a \in DOMAIN c THEN a + c[a] ELSE G[a]]
    OBVIOUS
  <2> HIDE DEF c, K
  <2>3. DOMAIN c \subseteq DOMAIN l
    BY DEF c, list_coalesce
  <2>4. /\ DOMAIN K = (DOMAIN G \ DOMAIN l) \cup DOMAIN c
        /\ \A a \in DOMAIN c : K[a] = a + c[a]
        /\ \A a \in DOMAIN G \ DOMAIN l : K[a] = G[a]
    BY <2>2, <2>3
  <2>5. /\ Tile(K, lo, top)
        /\ c \in [DOMAIN c -> Nat \ {0}]
        /\ \A a \in DOMAIN c : a + c[a] \notin DOMAIN l
    <3>1. DOMAIN l \subseteq DOMAIN G /\ c = list_coalesce(l)
      BY <1>12 DEF c
    <3>2. l \in [DOMAIN l -> Nat \ {0}] /\ \A a \in DOMAIN l : G[a] = a + l[a]
      BY <1>9, <1>12
    <3>3. Numbers(G)
      BY <1>12
    <3> HIDE <1>0
    <3>4. QED
      BY <1>14, <1>15, <2>4, <3>1, <3>2, <3>3, TileCoalesce
  <2>6. Lists(used, c)
    BY <1>11, <2>3, <2>5 DEF Lists
  <2>a. Measured(J, used, c)
    BY <2>6, EndsElements
  <2> HIDE DEF J
  <2>7. /\ DOMAIN J = DOMAIN used \cup DOMAIN c
        /\ \A a \in DOMAIN used : J[a] = a + used[a].nbytes
        /\ \A a \in DOMAIN c : J[a] = a + c[a]
    BY <2>a DEF Measured
  <2>8. DOMAIN J = DOMAIN K /\ \A a \in DOMAIN J : J[a] = K[a]
    BY <1>11, <1>12, <2>3, <2>4, <2>7 DEF Lists
  <2>9. Tile(J, lo, top)
    BY <2>5, <2>8 DEF Tile
  <2>10. Coalesced(used, c)
    <3>1. ASSUME NEW a \in DOMAIN c PROVE a + c[a] \notin DOMAIN c /\ max > a
      <4>1. a \in DOMAIN all /\ a <= max /\ a # max /\ a \in Nat
        BY <1>2, <1>6, <1>9, <2>3 DEF Lists
      <4>2. QED
        BY <1>6, <2>3, <2>5, <4>1
    <3>2. QED
      BY <1>5, <3>1 DEF Coalesced
  <2>11. QED
    BY <1>1, <1>5, <1>7, <1>9, <1>c, <2>1, <2>3, <2>6, <2>9, <2>10 DEF Region, J, top, Freed
<1>17. CASE ~ (ad.at < max)
  <2>1. f = l /\ l = left
    BY <1>10, <1>17 DEF l
  <2>2. Coalesced(used, l)
    <3>1. ASSUME NEW a \in DOMAIN l PROVE a + l[a] \notin DOMAIN l /\ max > a
      <4>1. a \in DOMAIN all /\ a <= max /\ a # max /\ a \in Nat
        BY <1>2, <1>6, <1>9 DEF Lists
      <4>2. a \in DOMAIN free /\ l[a] = free[a] /\ DOMAIN l \subseteq DOMAIN free
        BY <1>8, <2>1
      <4>3. QED
        BY <1>6, <4>1, <4>2
    <3>2. QED
      BY <1>5, <3>1 DEF Coalesced
  <2>3. QED
    BY <1>1, <1>5, <1>7, <1>9, <1>11, <1>14, <1>c, <2>1, <2>2 DEF Region, G, top, Freed
<1>18. QED
  BY <1>16, <1>17

(* A used block that is given back is a block of the free list.            *)
LEMMA GiveBack ==
  ASSUME NEW used, NEW free, NEW lo \in Int, NEW hi \in Int, Region(used, free, lo, hi),
         NEW at \in DOMAIN used,
         NEW ad, ad.at = at, ad.nbytes = used[at].nbytes,
         NEW u, u = Restrict(used, DOMAIN used \ {at})
  PROVE  /\ Region(u, list_insert_ordered(ad, free), lo, hi)
         /\ at \notin DOMAIN free /\ at \in Nat /\ ad.nbytes \in Nat \ {0}
         /\ DOMAIN u = DOMAIN used \ {at}
<1> DEFINE f == list_insert_ordered(ad, free)
           E == Ends(used, free)
           G == Ends(u, f)
<1>1. Lists(used, free) /\ Tile(E, lo, hi)
  BY DEF Region
<1>2. /\ at \notin DOMAIN free /\ at \in Nat /\ ad.nbytes \in Nat \ {0}
      /\ used \in [DOMAIN used -> Used] /\ free \in [DOMAIN free -> Nat \ {0}]
  BY <1>1 DEF Lists, Used
<1>3. /\ DOMAIN u = DOMAIN used \ {at} /\ \A a \in DOMAIN u : u[a] = used[a]
      /\ u \in [DOMAIN u -> Used]
  BY <1>2 DEF Restrict
<1>4. /\ DOMAIN f = DOMAIN free \cup {at} /\ f[at] = used[at].nbytes
      /\ \A a \in DOMAIN free : f[a] = free[a]
      /\ f \in [DOMAIN f -> Nat \ {0}]
  BY <1>2 DEF list_insert_ordered
<1> HIDE DEF f
<1>5. Lists(u, f)
  BY <1>1, <1>2, <1>3, <1>4 DEF Lists
<1>6. Measured(E, used, free) /\ Measured(G, u, f)
  BY <1>1, <1>5, EndsElements
<1> HIDE DEF E, G
<1>7. /\ DOMAIN E = DOMAIN used \cup DOMAIN free
      /\ \A a \in DOMAIN used : E[a] = a + used[a].nbytes
      /\ \A a \in DOMAIN free : E[a] = a + free[a]
      /\ DOMAIN G = DOMAIN u \cup DOMAIN f
      /\ \A a \in DOMAIN u : G[a] = a + u[a].nbytes
      /\ \A a \in DOMAIN f : G[a] = a + f[a]
  BY <1>6 DEF Measured
<1>8. DOMAIN G = DOMAIN E
  BY <1>3, <1>4, <1>7
<1>9. ASSUME NEW a \in DOMAIN E PROVE G[a] = E[a]
  <2>1. CASE a = at
    <3>1. G[at] = at + f[at] /\ E[at] = at + used[at].nbytes
      BY <1>4, <1>7
    <3>2. QED
      BY <1>4, <2>1, <3>1
  <2>2. CASE a # at /\ a \in DOMAIN used
    <3>1. G[a] = a + u[a].nbytes /\ u[a] = used[a] /\ E[a] = a + used[a].nbytes
      BY <1>3, <1>7, <2>2
    <3>2. QED
      BY <3>1
  <2>3. CASE a # at /\ a \in DOMAIN free
    <3>1. G[a] = a + f[a] /\ f[a] = free[a] /\ E[a] = a + free[a]
      BY <1>4, <1>7, <2>3
    <3>2. QED
      BY <3>1
  <2>4. QED
    BY <1>7, <2>1, <2>2, <2>3
<1>10. Tile(G, lo, hi)
  BY <1>1, <1>8, <1>9 DEF Tile
<1>11. QED
  BY <1>2, <1>3, <1>5, <1>10 DEF Region, f, G

(* block_free_heap leaves the heap tiled and coalesced, and its end where  *)
(* the stack does not begin.                                               *)
LEMMA HeapFreed ==
  ASSUME Laid, NEW used, NEW ad, ad.at \in Nat, ad.nbytes \in Nat \ {0},
         ad.at \notin DOMAIN ma_hfree, ad.at % Alignment = 0,
         DOMAIN used \subseteq DOMAIN ma_hused,
         Region(used, list_insert_ordered(ad, ma_hfree), ma_segment, ma_hp),
         block_free_heap(ad, used)
  PROVE  /\ ma_hp' \in Nat /\ ma_segment <= ma_hp' /\ ma_hp' <= ma_hp
         /\ Region(used, ma_hfree', ma_segment, ma_hp')
         /\ Coalesced(used, ma_hfree')
         /\ ma_hp' % Alignment = 0
         /\ \A a \in DOMAIN ma_hfree' : a % Alignment = 0
<1> USE DEF Laid
<1>1. /\ ma_segment \in Nat /\ ma_hp \in Nat /\ ma_segment <= ma_hp
      /\ Lists(ma_hused, ma_hfree) /\ Coalesced(ma_hused, ma_hfree)
  BY DEF Typed, Regions, Region
<1>2. /\ ma_segment % Alignment = 0 /\ ma_hp % Alignment = 0
      /\ \A a \in DOMAIN ma_hused \cup DOMAIN ma_hfree : a % Alignment = 0
  BY DEF Aligned
<1>3. CASE DOMAIN used = {}
  <2>1. ma_hp' = ma_segment /\ ma_hfree' = <<>>
    BY <1>3 DEF block_free_heap
  <2>2. DOMAIN <<>> = {} /\ <<>> \in [DOMAIN <<>> -> Nat \ {0}]
    OBVIOUS
  <2>3. Lists(used, <<>>)
    <3>1. used \in [DOMAIN used -> Used]
      BY DEF Region, Lists
    <3>2. QED
      BY <1>3, <2>2, <3>1 DEF Lists
  <2>4. Measured(Ends(used, <<>>), used, <<>>)
    BY <2>3, EndsElements
  <2>5. DOMAIN Ends(used, <<>>) = {}
    BY <1>3, <2>2, <2>4 DEF Measured
  <2>6. Tile(Ends(used, <<>>), ma_segment, ma_segment)
    BY <2>5 DEF Tile
  <2>7. Coalesced(used, <<>>)
    BY <2>2 DEF Coalesced
  <2>8. QED
    BY <1>1, <1>2, <2>1, <2>2, <2>3, <2>6, <2>7 DEF Region
<1>4. CASE DOMAIN used # {}
  <2> DEFINE max == Max(DOMAIN used)
             left == Restrict(ma_hfree, {a \in DOMAIN ma_hfree : a <= max})
             f == IF ad.at < max THEN list_coalesce(list_insert_ordered(ad, left)) ELSE left
  <2>1. ma_hp' = max + used[max].nbytes /\ ma_hfree' = f
    BY <1>4 DEF block_free_heap
  <2>2. \A a \in DOMAIN ma_hfree : a + ma_hfree[a] \notin DOMAIN ma_hfree
    BY <1>1 DEF Coalesced
  <2>3. ma_hfree \in [DOMAIN ma_hfree -> Nat \ {0}] /\ ma_segment \in Int /\ ma_hp \in Int
    BY <1>1 DEF Lists
  <2>4. /\ Region(used, f, ma_segment, max + used[max].nbytes)
        /\ Coalesced(used, f)
        /\ max \in DOMAIN used /\ ma_segment <= max /\ max + used[max].nbytes <= ma_hp
        /\ max + used[max].nbytes \in Nat /\ max < max + used[max].nbytes
        /\ max + used[max].nbytes \in {ma_hp, ad.at} \cup DOMAIN used \cup DOMAIN ma_hfree
        /\ DOMAIN f \subseteq DOMAIN ma_hfree \cup {ad.at}
    <3>1. Frees(ad, used, ma_hfree, max, left, f)
      BY Zenon DEF Frees
    <3> HIDE DEF f, left, max
    <3>2. Freed(ad, used, ma_hfree, ma_segment, ma_hp, max, f)
      BY <1>4, <2>2, <2>3, <3>1, FreeBlock
    <3>3. QED
      BY <3>2 DEF Freed
  <2> HIDE DEF f, max
  <2>5. max \in Nat
    BY <1>1, <2>4 DEF Lists
  <2>6. QED
    BY <1>1, <1>2, <2>1, <2>4, <2>5
<1>5. QED
  BY <1>3, <1>4

-----------------------------------------------------------------------------
(* Each call leaves the regions laid.                                      *)

(* A list of used blocks as the second list of a region.                   *)
LEMMA NoFree ==
  ASSUME NEW used, used \in [DOMAIN used -> Used], DOMAIN used \subseteq Nat
  PROVE  Lists(used, <<>>)
<1>1. DOMAIN <<>> = {} /\ <<>> \in [DOMAIN <<>> -> Nat \ {0}]
  OBVIOUS
<1>2. QED
  BY <1>1 DEF Lists

(* A region without blocks.                                                *)
LEMMA EmptyRegion ==
  ASSUME NEW lo
  PROVE  Region(<<>>, <<>>, lo, lo) /\ Coalesced(<<>>, <<>>)
<1>1. DOMAIN <<>> = {} /\ <<>> \in [DOMAIN <<>> -> Used]
  OBVIOUS
<1>2. Lists(<<>>, <<>>)
  BY <1>1, NoFree
<1>3. Measured(Ends(<<>>, <<>>), <<>>, <<>>)
  BY <1>2, EndsElements
<1>4. DOMAIN Ends(<<>>, <<>>) = {}
  BY <1>1, <1>3 DEF Measured
<1>5. Tile(Ends(<<>>, <<>>), lo, lo)
  BY <1>4 DEF Tile
<1>6. QED
  BY <1>1, <1>2, <1>5 DEF Region, Coalesced

(* A region has room for its blocks.                                       *)
LEMMA RegionBytesPositive ==
  ASSUME NEW nominal \in Int, NEW d \in Datatype
  PROVE  RegionBytes(nominal, d) \in Nat /\ RegionBytes(nominal, d) % Alignment = 0
<1> DEFINE bytes == IF nominal < 0 THEN DefaultTotal ELSE nominal * ma_sizeof[d] + MaxBlockOverhead(d)
<1>1. /\ ma_sizeof[d] \in Nat \ {0} /\ AdSize \in Nat /\ GuardSize \in Nat
      /\ Alignment \in Nat \ {0} /\ DefaultTotal \in Nat
  BY MaAssumption DEF MaAssumption
<1>2. MaxBlockOverhead(d) \in Nat
  BY <1>1 DEF MaxBlockOverhead, BlockOverheadFixed
<1>3. bytes \in Nat
  <2>1. ASSUME NEW x \in Nat, NEW y \in Nat PROVE x * y \in Nat
    OBVIOUS
  <2>2. CASE nominal < 0
    BY <1>1, <2>2
  <2>3. CASE ~ (nominal < 0)
    <3>1. nominal * ma_sizeof[d] \in Nat
      BY <1>1, <2>1, <2>3
    <3>2. QED
      BY <1>2, <2>3, <3>1
  <2>4. QED
    BY <2>2, <2>3
<1> HIDE DEF bytes
<1>4. (- bytes) % Alignment \in 0 .. (Alignment - 1) /\ (bytes + ((- bytes) % Alignment)) % Alignment = 0
  BY <1>1, <1>3, Division, Rounding
<1>5. RegionBytes(nominal, d) = bytes + ((- bytes) % Alignment)
  BY DEF RegionBytes, RoundUp, bytes
<1>6. QED
  BY <1>1, <1>3, <1>4, <1>5

(* MA_init lays out an empty heap and an empty stack.                      *)
LEMMA InitLaid ==
  ASSUME Laid, NEW args \in InitArgs, NEW address \in Segments, MA_init(args, address)
  PROVE  Laid'
<1> DEFINE h == RegionBytes(args.heap, args.datatype)
           s == RegionBytes(args.stack, args.datatype)
<1>1. args.datatype \in Datatype /\ args.heap \in Int /\ args.stack \in Int
  BY MaAssumption DEF MaAssumption
<1>2. h \in Nat /\ h % Alignment = 0 /\ s \in Nat /\ s % Alignment = 0
  BY <1>1, RegionBytesPositive
<1>3. address \in Nat /\ address % Alignment = 0 /\ Alignment \in Nat \ {0}
  BY MaAssumption DEF MaAssumption
<1>4. /\ ma_segment' = address /\ ma_partition' = address + h /\ ma_eos' = address + h + s
      /\ ma_hp' = address /\ ma_sp' = address + h + s
      /\ ma_initialized' = TRUE
      /\ ma_hfree' = <<>> /\ ma_hused' = <<>> /\ ma_sused' = <<>>
      /\ ma_numalign' = ma_numalign
  BY DEF MA_init
<1> HIDE DEF h, s
<1>5. (address + h + s) % Alignment = 0
  <2>1. address \in Int /\ h \in Int /\ s \in Int
    BY <1>2, <1>3
  <2> DEFINE x == address + h
  <2>2. x \in Int
    BY <2>1
  <2>3. x % Alignment = 0
    BY <1>2, <1>3, <2>1, MultiplesAdd
  <2> HIDE DEF x
  <2>4. (x + s) % Alignment = 0
    BY <1>2, <1>3, <2>1, <2>2, <2>3, MultiplesAdd
  <2>5. QED
    BY <2>4 DEF x
<1>6. Typed'
  BY <1>2, <1>3, <1>4 DEF Typed, Laid
<1>7. Regions'
  <2>1. /\ Region(<<>>, <<>>, ma_segment', ma_hp') /\ Coalesced(<<>>, <<>>)
        /\ Region(<<>>, <<>>, ma_sp', ma_eos')
    BY <1>4, EmptyRegion
  <2>2. QED
    BY <1>2, <1>3, <1>4, <2>1 DEF Regions
<1>8. Aligned'
  <2>1. DOMAIN <<>> = {}
    OBVIOUS
  <2>2. QED
    BY <1>3, <1>4, <1>5, <2>1 DEF Aligned
<1>9. QED
  BY <1>4, <1>6, <1>7, <1>8 DEF Laid, Fresh

(* What is known of the heap and the stack.                                *)
LEMMA LaidFacts ==
  ASSUME Laid
  PROVE  /\ ma_initialized \in BOOLEAN /\ ma_segment \in Nat /\ ma_partition \in Nat /\ ma_eos \in Nat
         /\ ma_hp \in Nat /\ ma_sp \in Nat /\ ma_numalign \in 0 .. 30
         /\ ma_segment <= ma_hp /\ ma_hp <= ma_sp /\ ma_sp <= ma_eos
         /\ ma_hused \in [DOMAIN ma_hused -> Used] /\ DOMAIN ma_hused \subseteq Nat
         /\ ma_hfree \in [DOMAIN ma_hfree -> Nat \ {0}] /\ DOMAIN ma_hfree \subseteq Nat
         /\ ma_sused \in [DOMAIN ma_sused -> Used] /\ DOMAIN ma_sused \subseteq Nat
         /\ DOMAIN ma_hused \intersect DOMAIN ma_hfree = {}
         /\ Region(ma_hused, ma_hfree, ma_segment, ma_hp) /\ Coalesced(ma_hused, ma_hfree)
         /\ Region(ma_sused, <<>>, ma_sp, ma_eos)
         /\ Alignment \in Nat \ {0}
         /\ ma_segment % Alignment = 0 /\ ma_hp % Alignment = 0
         /\ \A a \in DOMAIN ma_hused \cup DOMAIN ma_hfree \cup DOMAIN ma_sused : a % Alignment = 0
BY MaAssumption DEF Laid, Typed, Regions, Region, Lists, Aligned, MaAssumption

(* The rest of a block that is split off is not empty.                     *)
LEMMA SplitRest ==
  ASSUME NEW n \in Int, NEW m \in Int, Splits(n, m)
  PROVE  m < n
<1>1. Alignment \in Nat \ {0} /\ AdSize \in Nat /\ GuardSize \in Nat
  BY MaAssumption DEF MaAssumption
<1> DEFINE x == Alignment + BlockOverheadFixed
<1>2. x \in Nat \ {0}
  BY <1>1 DEF BlockOverheadFixed
<1> HIDE DEF x
<1>3. (- x) % Alignment \in 0 .. (Alignment - 1)
  BY <1>1, <1>2, Division
<1>4. MinBlockSize \in Nat \ {0}
  BY <1>1, <1>2, <1>3 DEF MinBlockSize, RoundUp, x
<1>5. QED
  BY <1>4 DEF Splits

(* MA_allocate_heap uses a block of the free list, or the front of one.    *)
LEMMA FromFreeLaid ==
  ASSUME Laid, NEW d \in Datatype, NEW n \in Nat, AllocateFromFree(AR(d, n))
  PROVE  Laid' /\ \E at \in DOMAIN ma_hfree : DOMAIN ma_hused' = DOMAIN ma_hused \cup {at} /\ TakeHandle(at)
<1> DEFINE ar == AR(d, n)
<1>1. PICK at \in DOMAIN ma_hfree :
        LET nbytes == ma_hfree[at]
            left == Restrict(ma_hfree, DOMAIN ma_hfree \ {at})
            t == balloc_after(ar, at)
            split == Splits(nbytes, t.nbytes)
            rest == [at |-> at + t.nbytes, nbytes |-> nbytes - t.nbytes]
        IN /\ ad_big_enough(at, ar)
           /\ ma_hfree' = IF split THEN list_insert_ordered(rest, left) ELSE left
           /\ ma_hused' = AddBlock(ma_hused, at,
                  Block(ar, t, IF split THEN t.nbytes ELSE nbytes))
           /\ TakeHandle(at)
  BY DEF AllocateFromFree
<1>2. /\ ma_initialized
      /\ UNCHANGED <<segment, ma_hp, ma_sp, ma_sused, ma_numalign>>
  BY DEF AllocateFromFree
<1> DEFINE t == balloc_after(ar, at)
           nbytes == ma_hfree[at]
           left == Restrict(ma_hfree, DOMAIN ma_hfree \ {at})
           split == Splits(nbytes, t.nbytes)
           rest == [at |-> at + t.nbytes, nbytes |-> nbytes - t.nbytes]
           b == Block(ar, t, IF split THEN t.nbytes ELSE nbytes)
<1>3. /\ ma_hfree' = IF split THEN list_insert_ordered(rest, left) ELSE left
      /\ ma_hused' = AddBlock(ma_hused, at, b)
      /\ TakeHandle(at)
  BY <1>1
<1>4. /\ ma_segment \in Int /\ ma_hp \in Int /\ ma_numalign \in 0 .. 30
      /\ ma_hused \in [DOMAIN ma_hused -> Used]
      /\ ma_hfree \in [DOMAIN ma_hfree -> Nat \ {0}] /\ DOMAIN ma_hfree \subseteq Nat
      /\ DOMAIN ma_hused \intersect DOMAIN ma_hfree = {}
      /\ Region(ma_hused, ma_hfree, ma_segment, ma_hp) /\ Coalesced(ma_hused, ma_hfree)
      /\ Alignment \in Nat \ {0} /\ at % Alignment = 0
  BY LaidFacts
<1>5. at \in Nat /\ at \in Int /\ nbytes \in Nat \ {0}
  BY <1>4
<1>6. t.client_space \in Int /\ t.nbytes \in Nat \ {0} /\ t.nbytes % Alignment = 0
  BY <1>4, <1>5, BlockAfter
<1> HIDE DEF t
<1>7. b = [datatype |-> d, nelem |-> n, client_space |-> t.client_space,
           nbytes |-> IF split THEN t.nbytes ELSE nbytes]
  BY DEF Block, AR
<1>8. b \in Used /\ b.nbytes = (IF split THEN t.nbytes ELSE nbytes)
  BY <1>5, <1>6, <1>7 DEF Used
<1> HIDE DEF b, ar
<1>9. DOMAIN ma_hused' = DOMAIN ma_hused \cup {at} /\ ma_hused'[at] = b
      /\ ma_hused' \in [DOMAIN ma_hused' -> Used]
      /\ \A a \in DOMAIN ma_hused : a # at => ma_hused'[a] = ma_hused[a]
  BY <1>3, <1>4, <1>8 DEF AddBlock
<1>10. /\ Region(ma_hused', ma_hfree', ma_segment, ma_hp) /\ Coalesced(ma_hused', ma_hfree')
       /\ \A a \in DOMAIN ma_hfree' : a \in DOMAIN ma_hfree \/ a = at + t.nbytes
  <2>1. CASE split
    <3> DEFINE E == Ends(ma_hused, ma_hfree)
    <3>1. Measured(E, ma_hused, ma_hfree)
      <4>1. Lists(ma_hused, ma_hfree)
        BY <1>4 DEF Region
      <4>2. QED
        BY <4>1, EndsElements
    <3>2. E[at] = at + nbytes
      BY <3>1 DEF Measured
    <3> HIDE DEF E
    <3>3. t.nbytes < nbytes
      BY <1>5, <1>6, <2>1, SplitRest
    <3>4. b.nbytes = t.nbytes
      BY <1>8, <2>1
    <3>5. at + b.nbytes < E[at] /\ E[at] - (at + b.nbytes) = nbytes - t.nbytes
      BY <1>5, <1>6, <3>2, <3>3, <3>4
    <3>6. rest.at = at + b.nbytes /\ rest.nbytes = E[at] - (at + b.nbytes)
      BY <3>4, <3>5
    <3> HIDE DEF rest
    <3>7. ma_hfree' = list_insert_ordered(rest, left)
      BY <1>3, <2>1
    <3> DEFINE u == ma_hused'
               f == ma_hfree'
    <3>8. /\ u \in [DOMAIN u -> Used] /\ DOMAIN u = DOMAIN ma_hused \cup {at} /\ u[at] = b
          /\ \A a \in DOMAIN ma_hused : a # at => u[a] = ma_hused[a]
          /\ f = list_insert_ordered(rest, Restrict(ma_hfree, DOMAIN ma_hfree \ {at}))
      BY <1>9, <3>7
    <3> HIDE DEF u, f
    <3>9. FrontTaken(ma_hused, ma_hfree, at, at + b.nbytes, u, f, ma_segment, ma_hp)
      BY <1>4, <1>8, <3>5, <3>6, <3>8, TakeFront DEF E
    <3>10. QED
      BY <1>4, <3>4, <3>9 DEF u, f, FrontTaken
  <2>2. CASE ~ split
    <3>1. b.nbytes = ma_hfree[at] /\ ma_hfree' = left
      BY <1>3, <1>8, <2>2
    <3>2. WholeTaken(ma_hused, ma_hfree, at, ma_hused', left, ma_segment, ma_hp)
      BY <1>3, <1>4, <1>8, <3>1, TakeWhole
    <3>3. QED
      BY <1>4, <3>1, <3>2 DEF WholeTaken
  <2>3. QED
    BY <2>1, <2>2
<1>11. Regions' /\ Typed'
  BY <1>2, <1>10 DEF Laid, Typed, Regions, segment
<1>12. Aligned'
  <2>1. (at + t.nbytes) % Alignment = 0
    <3>1. at \in Int /\ t.nbytes \in Int
      BY <1>5, <1>6
    <3>2. QED
      BY <1>4, <1>6, <3>1, MultiplesAdd
  <2>2. QED
    BY <1>2, <1>9, <1>10, <2>1 DEF Laid, Aligned, segment
<1>13. Laid'
  BY <1>2, <1>11, <1>12 DEF Laid, Fresh, segment
<1>14. QED
  BY <1>3, <1>9, <1>13

(* The blocks of a region lie in it, in the order of their addresses.      *)
LEMMA RegionBounds ==
  ASSUME NEW used, NEW free, NEW lo \in Int, NEW hi \in Int, Region(used, free, lo, hi)
  PROVE  /\ \A a \in DOMAIN used : lo <= a /\ a < a + used[a].nbytes /\ a + used[a].nbytes <= hi
         /\ \A a \in DOMAIN free : lo <= a /\ a < a + free[a] /\ a + free[a] <= hi
<1>1. Measured(Ends(used, free), used, free)
  BY EndsElements DEF Region
<1>2. QED
  BY <1>1 DEF Region, Tile, Measured

(* A new block of the heap has an address that no other block has.         *)
LEMMA HeapAddressNew ==
  ASSUME Laid, NEW at, at \in DOMAIN ma_hfree \/ (at = ma_hp /\ at < ma_sp)
  PROVE  at \in Nat /\ at \notin DOMAIN ma_hused \cup DOMAIN ma_sused
<1>1. /\ \A a \in DOMAIN ma_hused : a < a + ma_hused[a].nbytes /\ a + ma_hused[a].nbytes <= ma_hp
      /\ \A a \in DOMAIN ma_hfree : a < a + ma_hfree[a] /\ a + ma_hfree[a] <= ma_hp
  <2>1. ma_segment \in Int /\ ma_hp \in Int /\ Region(ma_hused, ma_hfree, ma_segment, ma_hp)
    BY LaidFacts
  <2>2. QED
    BY <2>1, RegionBounds
<1>2. \A a \in DOMAIN ma_sused : ma_sp <= a
  <2>1. ma_sp \in Int /\ ma_eos \in Int /\ Region(ma_sused, <<>>, ma_sp, ma_eos)
    BY LaidFacts
  <2>2. QED
    BY <2>1, RegionBounds
<1>3. /\ ma_hp \in Nat /\ ma_sp \in Nat /\ ma_hp <= ma_sp
      /\ DOMAIN ma_hused \intersect DOMAIN ma_hfree = {}
      /\ DOMAIN ma_hused \subseteq Nat /\ DOMAIN ma_hfree \subseteq Nat /\ DOMAIN ma_sused \subseteq Nat
      /\ ma_hused \in [DOMAIN ma_hused -> Used] /\ ma_hfree \in [DOMAIN ma_hfree -> Nat \ {0}]
  BY LaidFacts
<1>4. \A a \in DOMAIN ma_hused : ma_hused[a].nbytes \in Nat
  BY <1>3 DEF Used
<1>5. \A a \in DOMAIN ma_hused : a < ma_hp
  BY <1>1, <1>3, <1>4
<1>6. \A a \in DOMAIN ma_hfree : a < ma_hp
  BY <1>1, <1>3
<1>7. QED
  BY <1>2, <1>3, <1>5, <1>6

(* MA_allocate_heap extends the heap into the gap.                         *)
LEMMA FromGapLaid ==
  ASSUME Laid, NEW d \in Datatype, NEW n \in Nat, AllocateFromGap(AR(d, n))
  PROVE  Laid' /\ ma_hp < ma_sp /\ DOMAIN ma_hused' = DOMAIN ma_hused \cup {ma_hp} /\ TakeHandle(ma_hp)
<1> DEFINE ar == AR(d, n)
           t == balloc_after(ar, ma_hp)
           b == Block(ar, t, t.nbytes)
<1>1. /\ ma_initialized
      /\ ma_hp + t.nbytes <= ma_sp
      /\ ma_hp' = ma_hp + t.nbytes
      /\ ma_hused' = AddBlock(ma_hused, ma_hp, b)
      /\ TakeHandle(ma_hp)
      /\ UNCHANGED <<segment, ma_sp, ma_hfree, ma_sused, ma_numalign>>
  BY DEF AllocateFromGap
<1>2. /\ ma_segment \in Int /\ ma_hp \in Int /\ ma_hp \in Nat /\ ma_sp \in Nat /\ ma_numalign \in 0 .. 30
      /\ ma_segment <= ma_hp /\ ma_hp <= ma_sp
      /\ ma_hused \in [DOMAIN ma_hused -> Used] /\ DOMAIN ma_hused \subseteq Nat
      /\ ma_hfree \in [DOMAIN ma_hfree -> Nat \ {0}] /\ DOMAIN ma_hfree \subseteq Nat
      /\ DOMAIN ma_hused \intersect DOMAIN ma_hfree = {}
      /\ Region(ma_hused, ma_hfree, ma_segment, ma_hp) /\ Coalesced(ma_hused, ma_hfree)
      /\ Alignment \in Nat \ {0} /\ ma_hp % Alignment = 0
  BY LaidFacts
<1>3. t.client_space \in Int /\ t.nbytes \in Nat \ {0} /\ t.nbytes % Alignment = 0
  BY <1>2, BlockAfter
<1> HIDE DEF t
<1>4. b = [datatype |-> d, nelem |-> n, client_space |-> t.client_space, nbytes |-> t.nbytes]
  BY DEF Block, AR
<1>5. b \in Used /\ b.nbytes = t.nbytes
  BY <1>3, <1>4 DEF Used
<1> HIDE DEF b, ar
<1>6. ma_hp < ma_sp /\ ma_hp \notin DOMAIN ma_hused \cup DOMAIN ma_hfree
  <2>1. ma_hp < ma_sp
    BY <1>1, <1>2, <1>3
  <2>2. \A a \in DOMAIN ma_hfree : a < a + ma_hfree[a] /\ a + ma_hfree[a] <= ma_hp
    BY <1>2, RegionBounds
  <2>3. \A a \in DOMAIN ma_hfree : a < ma_hp
    BY <1>2, <2>2
  <2>4. ma_hp \notin DOMAIN ma_hfree
    BY <1>2, <2>3
  <2>5. QED
    BY <2>1, <2>4, HeapAddressNew
<1>7. /\ DOMAIN ma_hused' = DOMAIN ma_hused \cup {ma_hp} /\ ma_hused'[ma_hp] = b
      /\ ma_hused' \in [DOMAIN ma_hused' -> Used]
      /\ \A a \in DOMAIN ma_hused : ma_hused'[a] = ma_hused[a]
  BY <1>1, <1>2, <1>5, <1>6 DEF AddBlock
<1>8. ma_hfree' = ma_hfree
  BY <1>1
<1>9. Lists(ma_hused', ma_hfree)
  BY <1>2, <1>6, <1>7 DEF Lists
<1>10. Region(ma_hused', ma_hfree, ma_segment, ma_hp')
  <2> DEFINE E == Ends(ma_hused, ma_hfree)
             u == ma_hused'
             G == Ends(u, ma_hfree)
             top == ma_hp + t.nbytes
  <2>1. Measured(E, ma_hused, ma_hfree) /\ Tile(E, ma_segment, ma_hp)
    BY <1>2, EndsElements DEF Region
  <2>2. Measured(G, u, ma_hfree)
    BY <1>9, EndsElements
  <2> HIDE DEF E, G, u
  <2>3. top \in Int /\ ma_hp < top
    BY <1>2, <1>3
  <2>4. DOMAIN u = DOMAIN ma_hused \cup {ma_hp} /\ u[ma_hp] = b /\ \A a \in DOMAIN ma_hused : u[a] = ma_hused[a]
    BY <1>7 DEF u
  <2>5. Numbers(E) /\ DOMAIN G = DOMAIN E \cup {ma_hp} /\ G[ma_hp] = top
    BY <1>5, <2>1, <2>2, <2>4 DEF Measured
  <2>6. \A a \in DOMAIN E : G[a] = E[a]
    <3>1. ASSUME NEW a \in DOMAIN ma_hused PROVE G[a] = E[a]
      BY <2>1, <2>2, <2>4 DEF Measured
    <3>2. ASSUME NEW a \in DOMAIN ma_hfree PROVE G[a] = E[a]
      BY <2>1, <2>2 DEF Measured
    <3>3. QED
      BY <2>1, <3>1, <3>2 DEF Measured
  <2> HIDE DEF top
  <2>7. Tile(G, ma_segment, top)
    BY <1>2, <2>1, <2>3, <2>5, <2>6, TileGrow
  <2>8. QED
    BY <1>1, <1>9, <2>7 DEF Region, G, top, u
<1>11. Coalesced(ma_hused', ma_hfree)
  BY <1>2, <1>7 DEF Coalesced
<1>12. Regions' /\ Typed'
  BY <1>1, <1>2, <1>3, <1>8, <1>10, <1>11 DEF Laid, Typed, Regions, segment
<1>13. Aligned'
  <2>1. (ma_hp + t.nbytes) % Alignment = 0
    <3>1. t.nbytes \in Int
      BY <1>3
    <3>2. QED
      BY <1>2, <1>3, <3>1, MultiplesAdd
  <2>2. QED
    BY <1>1, <1>2, <1>7, <2>1 DEF Laid, Aligned, segment
<1>14. QED
  BY <1>1, <1>6, <1>7, <1>12, <1>13 DEF Laid, Fresh, segment

(* What block_free_heap leaves when a block is given back is laid.         *)
LEMMA FreedLaid ==
  ASSUME Laid, NEW ad, ad.at \in Nat, ad.nbytes \in Nat \ {0},
         ad.at \notin DOMAIN ma_hfree, ad.at % Alignment = 0,
         NEW used, ma_hused' = used, DOMAIN used \subseteq DOMAIN ma_hused,
         Region(used, list_insert_ordered(ad, ma_hfree), ma_segment, ma_hp),
         block_free_heap(ad, used),
         UNCHANGED <<segment, ma_sp, ma_sused, ma_numalign>>
  PROVE  Laid'
<1>1. /\ ma_hp' \in Nat /\ ma_segment <= ma_hp' /\ ma_hp' <= ma_hp
      /\ Region(used, ma_hfree', ma_segment, ma_hp')
      /\ Coalesced(used, ma_hfree')
      /\ ma_hp' % Alignment = 0
      /\ \A a \in DOMAIN ma_hfree' : a % Alignment = 0
  BY HeapFreed
<1>2. /\ ma_hp \in Nat /\ ma_sp \in Nat /\ ma_hp <= ma_sp /\ ma_sp <= ma_eos
      /\ \A a \in DOMAIN ma_hused \cup DOMAIN ma_sused : a % Alignment = 0
      /\ ma_segment % Alignment = 0
      /\ Region(ma_sused, <<>>, ma_sp, ma_eos)
  BY LaidFacts
<1>3. Typed'
  BY <1>1 DEF Laid, Typed, segment
<1>4. Regions'
  BY <1>1, <1>2 DEF Regions, segment
<1>5. Aligned'
  BY <1>1, <1>2 DEF Aligned, segment
<1>6. QED
  BY <1>3, <1>4, <1>5 DEF Laid, Fresh, segment

(* MA_free_heap takes one block off the used list.                         *)
LEMMA FreeHeapLaid ==
  ASSUME Laid, NEW h, MA_free_heap(h)
  PROVE  Laid' /\ DOMAIN ma_hused' = DOMAIN ma_hused \ {ma_table[h]}
<1> DEFINE at == ma_table[h]
           used == Restrict(ma_hused, DOMAIN ma_hused \ {at})
           ad == [at |-> at, nbytes |-> ma_hused[at].nbytes]
<1>1. /\ ma_hused' = used /\ block_free_heap(ad, used)
      /\ UNCHANGED <<segment, ma_sp, ma_sused, ma_numalign>>
  BY DEF MA_free_heap
<1>2. at \in DOMAIN ma_hused
  BY DEF MA_free_heap, Handles
<1>3. ad.at = at /\ ad.nbytes = ma_hused[at].nbytes
  OBVIOUS
<1>4. /\ ma_segment \in Int /\ ma_hp \in Int /\ Region(ma_hused, ma_hfree, ma_segment, ma_hp)
      /\ at % Alignment = 0
  BY <1>2, LaidFacts
<1>5. used = Restrict(ma_hused, DOMAIN ma_hused \ {at})
  OBVIOUS
<1> HIDE DEF at, ad, used
<1>6. /\ Region(used, list_insert_ordered(ad, ma_hfree), ma_segment, ma_hp)
      /\ at \notin DOMAIN ma_hfree /\ at \in Nat /\ ad.nbytes \in Nat \ {0}
      /\ DOMAIN used = DOMAIN ma_hused \ {at}
  BY <1>2, <1>3, <1>4, <1>5, GiveBack
<1>7. Laid'
  <2>1. PICK u : u = used
    OBVIOUS
  <2>2. PICK a : a = ad
    OBVIOUS
  <2>3. /\ a.at \in Nat /\ a.nbytes \in Nat \ {0} /\ a.at \notin DOMAIN ma_hfree /\ a.at % Alignment = 0
        /\ ma_hused' = u /\ DOMAIN u \subseteq DOMAIN ma_hused
        /\ Region(u, list_insert_ordered(a, ma_hfree), ma_segment, ma_hp)
    BY <1>1, <1>3, <1>4, <1>6, <2>1, <2>2
  <2>4. block_free_heap(a, u)
    BY <1>1, <2>1, <2>2
  <2>5. QED
    BY <1>1, <2>3, <2>4, FreedLaid
<1>8. QED
  BY <1>1, <1>6, <1>7 DEF at

(* MA_free_heap_piece cuts a block, or takes a smaller number of elements  *)
(* for what it has.                                                        *)
LEMMA FreePieceLaid ==
  ASSUME Laid, NEW h, NEW nelem \in Nat, MA_free_heap_piece(h, nelem)
  PROVE  /\ Laid' /\ DOMAIN ma_hused' = DOMAIN ma_hused
<1> DEFINE at == ma_table[h]
           ad == ma_hused[at]
           keep == AR(ad.datatype, ad.nelem - nelem)
           t == balloc_after(keep, at)
           split == t.nbytes < ad.nbytes /\ Splits(ad.nbytes, t.nbytes)
           used == [ma_hused EXCEPT
                      ![at].nelem = keep.nelem,
                      ![at].nbytes = IF split THEN t.nbytes ELSE @]
           rest == [at |-> at + t.nbytes, nbytes |-> ad.nbytes - t.nbytes]
<1>1. /\ nelem < ad.nelem
      /\ ma_hused' = used
      /\ IF split THEN block_free_heap(rest, used) ELSE UNCHANGED <<ma_hp, ma_hfree>>
      /\ UNCHANGED <<segment, ma_sp, ma_sused, ma_numalign>>
  BY DEF MA_free_heap_piece
<1>2. at \in DOMAIN ma_hused
  BY DEF MA_free_heap_piece, Handles
<1>3. /\ ma_segment \in Int /\ ma_hp \in Int /\ Region(ma_hused, ma_hfree, ma_segment, ma_hp)
      /\ at % Alignment = 0 /\ ma_numalign \in 0 .. 30 /\ Alignment \in Nat \ {0}
      /\ ma_hused \in [DOMAIN ma_hused -> Used] /\ DOMAIN ma_hused \subseteq Nat
      /\ ma_hfree \in [DOMAIN ma_hfree -> Nat \ {0}] /\ DOMAIN ma_hfree \subseteq Nat
      /\ DOMAIN ma_hused \intersect DOMAIN ma_hfree = {} /\ Coalesced(ma_hused, ma_hfree)
  BY <1>2, LaidFacts
<1>4. at \in Nat /\ at \in Int /\ ad \in Used
  BY <1>2, <1>3
<1>5. ad.datatype \in Datatype /\ ad.nelem - nelem \in Nat /\ ad.nbytes \in Nat \ {0} /\ ad.client_space \in Int
  BY <1>1, <1>4 DEF Used
<1>6. t.nbytes \in Nat \ {0} /\ t.nbytes % Alignment = 0
  <2> HIDE DEF ad, at
  <2>1. QED
    BY <1>3, <1>4, <1>5, BlockAfter
<1>7. keep.nelem = ad.nelem - nelem
  BY DEF AR
<1> DEFINE b == [datatype |-> ad.datatype, nelem |-> ad.nelem - nelem, client_space |-> ad.client_space,
                 nbytes |-> IF split THEN t.nbytes ELSE ad.nbytes]
<1>8. /\ DOMAIN used = DOMAIN ma_hused /\ used[at] = b
      /\ \A a \in DOMAIN ma_hused : a # at => used[a] = ma_hused[a]
  <2> HIDE DEF keep, split, t
  <2>1. ad = [datatype |-> ad.datatype, nelem |-> ad.nelem, client_space |-> ad.client_space, nbytes |-> ad.nbytes]
    <3> HIDE DEF ad
    <3>1. QED
      BY <1>4 DEF Used
  <2>2. used[at] = [[ad EXCEPT !.nelem = keep.nelem] EXCEPT !.nbytes = IF split THEN t.nbytes ELSE @]
    BY <1>2
  <2>3. QED
    BY <1>2, <1>7, <2>1, <2>2
<1>9. b \in Used /\ b.nbytes = IF split THEN t.nbytes ELSE ad.nbytes
  <2> HIDE DEF t, split, ad
  <2>1. QED
    BY <1>5, <1>6 DEF Used
<1> HIDE DEF b
<1>10. used \in [DOMAIN used -> Used]
  <2>1. \A a \in DOMAIN used : used[a] \in Used
    <3> HIDE DEF used, at
    <3>1. QED
      BY <1>3, <1>8, <1>9
  <2>2. used = [a \in DOMAIN used |-> used[a]]
    OBVIOUS
  <2> HIDE DEF used
  <2>3. QED
    BY <2>1, <2>2
<1> DEFINE E == Ends(ma_hused, ma_hfree)
<1>11. Measured(E, ma_hused, ma_hfree)
  <2>1. Lists(ma_hused, ma_hfree)
    BY <1>3 DEF Region
  <2>2. QED
    BY <2>1, EndsElements
<1>12. rest.at = at + t.nbytes /\ rest.nbytes = ad.nbytes - t.nbytes
  OBVIOUS
<1>13. E[at] = at + ad.nbytes
  BY <1>2, <1>11 DEF Measured
<1>14. split => t.nbytes < ad.nbytes
  OBVIOUS
<1>15. used = ma_hused'
  BY <1>1
<1> HIDE DEF at, ad, keep, t, split, used, rest, E
<1>16. CASE split
  <2>1. b.nbytes = t.nbytes /\ t.nbytes < ad.nbytes
    BY <1>9, <1>14, <1>16
  <2>2. at + b.nbytes < E[at] /\ rest.at = at + b.nbytes /\ rest.nbytes = E[at] - (at + b.nbytes)
    BY <1>4, <1>5, <1>6, <1>12, <1>13, <2>1
  <2> DEFINE f == list_insert_ordered(rest, ma_hfree)
  <2>3. f = list_insert_ordered(rest, Restrict(ma_hfree, DOMAIN ma_hfree \ {at}))
    <3>1. at \notin DOMAIN ma_hfree
      BY <1>2, <1>3
    <3>2. Restrict(ma_hfree, DOMAIN ma_hfree \ {at}) = ma_hfree
      BY <1>3, <3>1 DEF Restrict
    <3>3. QED
      BY <3>2
  <2>4. DOMAIN used = DOMAIN ma_hused \cup {at} /\ at \in DOMAIN ma_hused \cup DOMAIN ma_hfree
    BY <1>2, <1>8
  <2> HIDE DEF f
  <2>5. FrontTaken(ma_hused, ma_hfree, at, at + b.nbytes, used, f, ma_segment, ma_hp)
    BY <1>3, <1>8, <1>9, <1>10, <2>2, <2>3, <2>4, TakeFront DEF E
  <2>6. Region(used, f, ma_segment, ma_hp) /\ at + b.nbytes \notin DOMAIN ma_hfree
    BY <2>5 DEF FrontTaken
  <2>7. rest.at \in Nat /\ rest.nbytes \in Nat \ {0}
    BY <1>4, <1>5, <1>6, <1>12, <2>1
  <2>8. rest.at % Alignment = 0
    <3>1. t.nbytes \in Int
      BY <1>6
    <3>2. QED
      BY <1>3, <1>4, <1>6, <1>12, <3>1, MultiplesAdd
  <2>9. PICK u : u = used
    OBVIOUS
  <2>10. PICK r : r = rest
    OBVIOUS
  <2>11. /\ r.at \in Nat /\ r.nbytes \in Nat \ {0} /\ r.at \notin DOMAIN ma_hfree /\ r.at % Alignment = 0
         /\ ma_hused' = u /\ DOMAIN u \subseteq DOMAIN ma_hused
         /\ Region(u, list_insert_ordered(r, ma_hfree), ma_segment, ma_hp)
    BY <1>8, <1>15, <2>2, <2>6, <2>7, <2>8, <2>9, <2>10 DEF f
  <2>12. block_free_heap(r, u)
    BY <1>1, <1>16, <2>9, <2>10
  <2>13. Laid'
    BY <1>1, <2>11, <2>12, FreedLaid
  <2>14. QED
    BY <1>8, <1>15, <2>13
<1>17. CASE ~ split
  <2>1. b.nbytes = ad.nbytes
    BY <1>9, <1>17
  <2>2. ma_hp' = ma_hp /\ ma_hfree' = ma_hfree
    BY <1>1, <1>17
  <2>3. Lists(used, ma_hfree)
    BY <1>3, <1>8, <1>10 DEF Lists
  <2> DEFINE G == Ends(used, ma_hfree)
  <2>4. Measured(G, used, ma_hfree)
    BY <2>3, EndsElements
  <2> HIDE DEF G
  <2>5. DOMAIN G = DOMAIN E /\ G \in [DOMAIN G -> Int] /\ E \in [DOMAIN E -> Int]
    BY <1>8, <1>11, <2>4 DEF Measured, Numbers
  <2>6. \A a \in DOMAIN E : G[a] = E[a]
    <3>1. \A a \in DOMAIN used : used[a].nbytes = ma_hused[a].nbytes
      BY <1>8, <2>1 DEF ad
    <3>2. ASSUME NEW a \in DOMAIN ma_hused PROVE G[a] = E[a]
      BY <1>8, <1>11, <2>4, <3>1 DEF Measured
    <3>3. ASSUME NEW a \in DOMAIN ma_hfree PROVE G[a] = E[a]
      BY <1>11, <2>4 DEF Measured
    <3>4. QED
      BY <1>11, <3>2, <3>3 DEF Measured
  <2>7. G = E
    BY <2>5, <2>6
  <2>8. Region(used, ma_hfree, ma_segment, ma_hp)
    BY <1>3, <2>3, <2>7 DEF Region, E, G
  <2>9. Coalesced(used, ma_hfree)
    BY <1>3, <1>8 DEF Coalesced
  <2>10. Typed'
    BY <1>1, <2>2 DEF Laid, Typed, segment
  <2>11. Regions'
    <3>1. Region(ma_hused', ma_hfree', ma_segment', ma_hp') /\ Coalesced(ma_hused', ma_hfree')
      BY <1>1, <1>15, <2>2, <2>8, <2>9 DEF segment
    <3>2. QED
      BY <1>1, <2>2, <3>1 DEF Laid, Regions, segment
  <2>12. Aligned'
    BY <1>1, <1>8, <1>15, <2>2 DEF Laid, Aligned, segment
  <2>13. QED
    BY <1>1, <1>8, <1>15, <2>10, <2>11, <2>12 DEF Laid, Fresh, segment
<1>18. QED
  BY <1>16, <1>17

(* A call that moves the stack pointer and keeps the heap.                 *)
LEMMA StackLaid ==
  ASSUME Laid, NEW used, ma_sused' = used, Region(used, <<>>, ma_sp', ma_eos),
         ma_sp' \in Nat, ma_hp <= ma_sp', ma_sp' <= ma_eos,
         \A a \in DOMAIN used : a % Alignment = 0,
         ma_initialized \/ used = ma_sused,
         UNCHANGED <<segment, ma_hp, ma_hfree, ma_hused, ma_numalign>>
  PROVE  Laid'
<1>1. Typed'
  BY DEF Laid, Typed, segment
<1>2. Regions'
  BY DEF Laid, Regions, segment
<1>3. Aligned'
  BY DEF Laid, Aligned, segment
<1>4. QED
  BY <1>1, <1>2, <1>3 DEF Laid, Fresh, segment

(* MA_push_stack puts a block in front of the stack.                       *)
LEMMA PushLaid ==
  ASSUME Laid, NEW d \in Datatype, NEW n \in Nat, MA_push_stack(AR(d, n))
  PROVE  /\ Laid' /\ DOMAIN ma_sused' = DOMAIN ma_sused \cup {ma_sp'} /\ TakeHandle(ma_sp')
         /\ ma_sp' \in Nat /\ ma_sp' \notin DOMAIN ma_hused \cup DOMAIN ma_sused
<1> DEFINE ar == AR(d, n)
           t == balloc_before(ar, ma_sp)
           b == Block(ar, t, t.nbytes)
           new == ma_sp - t.nbytes
           used == AddBlock(ma_sused, new, b)
<1>1. /\ ma_initialized
      /\ ma_sp - ma_hp >= t.nbytes
      /\ ma_sp' = new
      /\ ma_sused' = used
      /\ TakeHandle(new)
      /\ UNCHANGED <<segment, ma_hp, ma_hfree, ma_hused, ma_numalign>>
  BY DEF MA_push_stack
<1>2. /\ ma_hp \in Nat /\ ma_sp \in Nat /\ ma_sp \in Int /\ ma_numalign \in 0 .. 30
      /\ ma_eos \in Nat /\ ma_eos \in Int /\ ma_sp <= ma_eos
      /\ ma_hp \in Int /\ ma_segment \in Int
      /\ ma_sused \in [DOMAIN ma_sused -> Used] /\ DOMAIN ma_sused \subseteq Nat
      /\ Region(ma_sused, <<>>, ma_sp, ma_eos)
      /\ Region(ma_hused, ma_hfree, ma_segment, ma_hp)
      /\ ma_hused \in [DOMAIN ma_hused -> Used] /\ DOMAIN ma_hused \subseteq Nat
      /\ \A a \in DOMAIN ma_sused : a % Alignment = 0
  BY LaidFacts
<1>3. t.client_space \in Int /\ t.nbytes \in Nat \ {0} /\ (ma_sp - t.nbytes) % Alignment = 0
  BY <1>2, BlockBefore
<1> HIDE DEF t
<1>4. b = [datatype |-> d, nelem |-> n, client_space |-> t.client_space, nbytes |-> t.nbytes]
  BY DEF Block, AR
<1>5. b \in Used /\ b.nbytes = t.nbytes
  BY <1>3, <1>4 DEF Used
<1> HIDE DEF b, ar
<1>6. new \in Nat /\ new \in Int /\ new < ma_sp /\ ma_hp <= new /\ new % Alignment = 0 /\ new + t.nbytes = ma_sp
  BY <1>1, <1>2, <1>3
<1>7. new \notin DOMAIN ma_hused \cup DOMAIN ma_sused
  <2>1. \A a \in DOMAIN ma_hused : a < a + ma_hused[a].nbytes /\ a + ma_hused[a].nbytes <= ma_hp
    BY <1>2, RegionBounds
  <2>2. \A a \in DOMAIN ma_sused : ma_sp <= a
    BY <1>2, RegionBounds
  <2>3. \A a \in DOMAIN ma_hused : ma_hused[a].nbytes \in Nat
    BY <1>2 DEF Used
  <2>4. \A a \in DOMAIN ma_hused : a < ma_hp
    BY <1>2, <2>1, <2>3
  <2> HIDE DEF new
  <2>5. QED
    BY <1>2, <1>6, <2>2, <2>4
<1>8. /\ DOMAIN used = DOMAIN ma_sused \cup {new} /\ used[new] = b
      /\ used \in [DOMAIN used -> Used]
      /\ \A a \in DOMAIN ma_sused : used[a] = ma_sused[a]
  <2> HIDE DEF new
  <2>1. QED
    BY <1>2, <1>5, <1>7 DEF AddBlock
<1> HIDE DEF new, used
<1>9. Lists(used, <<>>) /\ Lists(ma_sused, <<>>)
  BY <1>2, <1>6, <1>8, NoFree
<1>10. Region(used, <<>>, new, ma_eos)
  <2> DEFINE E == Ends(ma_sused, <<>>)
             G == Ends(used, <<>>)
  <2>1. Measured(E, ma_sused, <<>>) /\ Tile(E, ma_sp, ma_eos)
    BY <1>2, <1>9, EndsElements DEF Region
  <2>2. Measured(G, used, <<>>)
    BY <1>9, EndsElements
  <2> HIDE DEF E, G
  <2>3. DOMAIN <<>> = {}
    OBVIOUS
  <2>4. Numbers(E) /\ DOMAIN E = DOMAIN ma_sused /\ DOMAIN G = DOMAIN E \cup {new}
    BY <1>8, <2>1, <2>2, <2>3 DEF Measured
  <2>5. G[new] = ma_sp
    BY <1>5, <1>6, <1>8, <2>2 DEF Measured
  <2>6. \A a \in DOMAIN E : G[a] = E[a]
    BY <1>8, <2>1, <2>2, <2>4 DEF Measured
  <2>7. Tile(G, new, ma_eos)
    BY <1>2, <1>6, <2>1, <2>4, <2>5, <2>6, TilePush
  <2>8. QED
    BY <1>9, <2>7 DEF Region, G
<1>11. Laid'
  <2>1. PICK u : u = used
    OBVIOUS
  <2>2. ma_sused' = u /\ Region(u, <<>>, ma_sp', ma_eos) /\ ma_sp' \in Nat /\ ma_hp <= ma_sp' /\ ma_sp' <= ma_eos
    BY <1>1, <1>2, <1>6, <1>10, <2>1
  <2>3. \A a \in DOMAIN u : a % Alignment = 0
    BY <1>2, <1>6, <1>8, <2>1
  <2>4. QED
    BY <1>1, <2>2, <2>3, StackLaid
<1>12. QED
  BY <1>1, <1>6, <1>7, <1>8, <1>11

(* The stack that is left when all blocks up to at are popped.             *)
LEMMA StackCut ==
  ASSUME NEW used, NEW lo \in Int, NEW hi \in Int, Region(used, <<>>, lo, hi),
         NEW at \in DOMAIN used,
         NEW u, u = Restrict(used, {a \in DOMAIN used : at < a})
  PROVE  Region(u, <<>>, at + used[at].nbytes, hi)
<1> DEFINE E == Ends(used, <<>>)
           F == Restrict(E, {a \in DOMAIN E : a <= at})
           G == Ends(u, <<>>)
<1>1. Lists(used, <<>>) /\ Measured(E, used, <<>>) /\ Tile(E, lo, hi)
  BY EndsElements DEF Region
<1>2. used \in [DOMAIN used -> Used] /\ DOMAIN used \subseteq Nat
  BY <1>1 DEF Lists
<1>3. /\ DOMAIN u = {a \in DOMAIN used : at < a} /\ \A a \in DOMAIN u : u[a] = used[a]
      /\ u \in [DOMAIN u -> Used]
  BY <1>2 DEF Restrict
<1>4. Lists(u, <<>>)
  BY <1>2, <1>3, NoFree
<1>5. Measured(G, u, <<>>)
  BY <1>4, EndsElements
<1>6. DOMAIN F = {a \in DOMAIN E : a <= at} /\ \A a \in DOMAIN F : F[a] = E[a]
  BY DEF Restrict
<1> HIDE DEF E, F, G
<1>7. DOMAIN <<>> = {}
  OBVIOUS
<1>8. Numbers(E) /\ DOMAIN E = DOMAIN used /\ DOMAIN G = DOMAIN u /\ E[at] = at + used[at].nbytes
  BY <1>1, <1>5, <1>7 DEF Measured
<1>9. \A a \in DOMAIN G : G[a] = E[a]
  BY <1>1, <1>3, <1>5, <1>8 DEF Measured
<1>10. DOMAIN G = {a \in DOMAIN E : at < a} /\ at \in DOMAIN E
  BY <1>3, <1>8
<1>11. Tile(G, E[at], hi)
  BY <1>1, <1>6, <1>8, <1>9, <1>10, TileCut
<1>12. QED
  BY <1>4, <1>8, <1>11 DEF Region, G

(* MA_pop_stack and MA_chop_stack: the blocks up to one of the stack go.   *)
LEMMA CutLaid ==
  ASSUME Laid, NEW at \in DOMAIN ma_sused,
         ma_sp' = at + ma_sused[at].nbytes,
         NEW gone, gone = {a \in DOMAIN ma_sused : a <= at},
         ma_sused' = Restrict(ma_sused, DOMAIN ma_sused \ gone),
         UNCHANGED <<segment, ma_hp, ma_hfree, ma_hused, ma_numalign>>
  PROVE  Laid' /\ DOMAIN ma_sused' = DOMAIN ma_sused \ gone
<1> DEFINE used == Restrict(ma_sused, DOMAIN ma_sused \ gone)
           sp == at + ma_sused[at].nbytes
<1>1. /\ ma_hp \in Nat /\ ma_sp \in Nat /\ ma_sp \in Int /\ ma_hp <= ma_sp
      /\ ma_eos \in Nat /\ ma_eos \in Int /\ ma_sp <= ma_eos
      /\ ma_sused \in [DOMAIN ma_sused -> Used] /\ DOMAIN ma_sused \subseteq Nat
      /\ Region(ma_sused, <<>>, ma_sp, ma_eos)
      /\ Alignment \in Nat \ {0}
      /\ \A a \in DOMAIN ma_sused : a % Alignment = 0
      /\ ma_eos \in Nat
  BY LaidFacts
<1>2. ma_initialized
  BY DEF Laid, Fresh
<1>3. DOMAIN ma_sused \ gone = {a \in DOMAIN ma_sused : at < a}
  BY <1>1
<1>4. used = Restrict(ma_sused, {a \in DOMAIN ma_sused : at < a})
  BY <1>3
<1>5. DOMAIN used = DOMAIN ma_sused \ gone
  BY DEF Restrict
<1> HIDE DEF used
<1>6. Region(used, <<>>, sp, ma_eos)
  BY <1>1, <1>4, StackCut
<1>7. ma_sused[at].nbytes \in Nat \ {0} /\ at \in Nat
  BY <1>1 DEF Used
<1>8. ma_sp <= at /\ sp <= ma_eos
  BY <1>1, RegionBounds
<1>9. sp \in Nat /\ ma_hp <= sp
  BY <1>1, <1>7, <1>8
<1> HIDE DEF sp
<1>10. PICK u : u = used
  OBVIOUS
<1>11. QED
  <2>1. /\ ma_sused' = u /\ Region(u, <<>>, ma_sp', ma_eos) /\ ma_sp' \in Nat /\ ma_hp <= ma_sp' /\ ma_sp' <= ma_eos
    BY <1>6, <1>8, <1>9, <1>10 DEF used, sp
  <2>2. \A a \in DOMAIN u : a % Alignment = 0
    BY <1>1, <1>5, <1>10
  <2>3. Laid'
    BY <1>2, <2>1, <2>2, StackLaid
  <2>4. QED
    BY <1>5, <2>3 DEF used

(* At start there is no segment.                                           *)
LEMMA StartLaid ==
  Init => Laid
<1> SUFFICES ASSUME Init PROVE Laid
  OBVIOUS
<1>1. /\ ma_initialized = FALSE /\ ma_segment = 0 /\ ma_partition = 0 /\ ma_eos = 0
      /\ ma_hp = 0 /\ ma_sp = 0 /\ ma_numalign = 0
      /\ ma_hfree = <<>> /\ ma_hused = <<>> /\ ma_sused = <<>>
  BY DEF Init
<1>2. Region(<<>>, <<>>, 0, 0) /\ Coalesced(<<>>, <<>>) /\ DOMAIN <<>> = {}
  BY EmptyRegion
<1>3. 0 % Alignment = 0
  BY MaAssumption DEF MaAssumption
<1>4. Typed
  <2>1. ma_initialized \in BOOLEAN
    BY <1>1
  <2>2. ma_numalign \in 0 .. 30 /\ ma_hp \in Nat /\ ma_sp \in Nat
    BY <1>1
  <2>3. ma_segment \in Nat /\ ma_partition \in Nat /\ ma_eos \in Nat
    BY <1>1
  <2>4. QED
    BY <2>1, <2>2, <2>3 DEF Typed
<1>5. Regions
  BY <1>1, <1>2 DEF Regions
<1>6. Aligned
  BY <1>1, <1>2, <1>3 DEF Aligned
<1>7. Fresh
  BY <1>1, <1>2 DEF Fresh
<1>8. QED
  BY <1>4, <1>5, <1>6, <1>7 DEF Laid

(* No block is both on the heap and on the stack.                          *)
LEMMA ListsApart ==
  ASSUME Laid
  PROVE  DOMAIN ma_hused \intersect DOMAIN ma_sused = {}
<1>1. /\ ma_segment \in Int /\ ma_hp \in Int /\ ma_sp \in Int /\ ma_eos \in Int /\ ma_hp <= ma_sp
      /\ Region(ma_hused, ma_hfree, ma_segment, ma_hp)
      /\ Region(ma_sused, <<>>, ma_sp, ma_eos)
      /\ ma_hused \in [DOMAIN ma_hused -> Used] /\ DOMAIN ma_hused \subseteq Nat
      /\ DOMAIN ma_sused \subseteq Nat
  BY LaidFacts
<1>2. \A a \in DOMAIN ma_hused : a < a + ma_hused[a].nbytes /\ a + ma_hused[a].nbytes <= ma_hp
  BY <1>1, RegionBounds
<1>3. \A a \in DOMAIN ma_sused : ma_sp <= a
  BY <1>1, RegionBounds
<1>4. \A a \in DOMAIN ma_hused : ma_hused[a].nbytes \in Nat
  BY <1>1 DEF Used
<1>5. \A a \in DOMAIN ma_hused : a < ma_hp
  BY <1>1, <1>2, <1>4
<1>6. QED
  BY <1>1, <1>3, <1>5

(* The addresses of the used blocks.                                       *)
Live == DOMAIN ma_hused \cup DOMAIN ma_sused

(* What a call does to the used blocks and to the table: it allocates one, *)
(* frees those with some handles, or changes neither.                      *)
Allocates(at) ==
  /\ at \in Nat \ Live /\ Live' = Live \cup {at}
  /\ TakeHandle(at)

Deallocates(slots, gone) ==
  /\ slots = {i \in DOMAIN ma_table : ma_table[i] \in gone}
  /\ gone \subseteq Live /\ Live' = Live \ gone
  /\ ma_table_deallocate(slots)
  /\ lost' = lost \ gone

KeepsHandles == Live' = Live /\ UNCHANGED <<table, lost>>

(* What is known of the handles.                                           *)
LEMMA HandleFacts ==
  ASSUME IInv
  PROVE  /\ Live \subseteq Nat /\ lost \subseteq Live
         /\ \A i, j \in DOMAIN ma_table : ma_table[i] = ma_table[j] /\ ma_table[i] \in Live => i = j
         /\ \A i \in DOMAIN ma_table : ma_table[i] \notin lost
<1> DEFINE taken == {i \in DOMAIN ma_table : ma_table[i] # None}
           vals == {ma_table[i] : i \in taken}
<1>1. Live \subseteq Nat
  BY LaidFacts DEF IInv, Live
<1>2. /\ \A i, j \in taken : ma_table[i] = ma_table[j] => i = j
      /\ vals \intersect lost = {} /\ vals \cup lost = Live
  BY DEF IInv, HandlesMatchBlocks, Live
<1>3. None \notin Live
  BY <1>1 DEF None
<1>4. QED
  BY <1>1, <1>2, <1>3

(* The blocks of a list that go, with their handles, are freed.            *)
LEMMA GoneFreed ==
  ASSUME IInv, NEW gone, gone \subseteq Live, Live' = Live \ gone,
         NEW slots, slots \subseteq DOMAIN ma_table,
         \A i \in DOMAIN ma_table : i \in slots <=> ma_table[i] \in gone,
         ma_table_deallocate(slots), lost' = lost \ gone
  PROVE  Deallocates(slots, gone)
BY DEF Deallocates

(* Every step keeps the heap and the stack laid out, whatever the handles. *)
LEMMA NextLaid ==
  ASSUME IInv, Next
  PROVE  /\ Laid'
         /\ \/ \E at : Allocates(at)
            \/ \E slots, gone : Deallocates(slots, gone)
            \/ KeepsHandles
<1>1. Laid
  BY DEF IInv
<1>2. ASSUME NEW args \in InitArgs, NEW address \in Segments, MA_init(args, address)
      PROVE  Laid' /\ KeepsHandles
  <2>1. Laid'
    BY <1>1, <1>2, InitLaid
  <2>2. DOMAIN <<>> = {}
    OBVIOUS
  <2>3. /\ ma_hused' = <<>> /\ ma_sused' = <<>> /\ ~ ma_initialized
        /\ UNCHANGED <<table, lost>>
    BY <1>2 DEF MA_init
  <2>4. Live = {}
    BY <1>1, <2>3 DEF Laid, Fresh, Live
  <2>5. QED
    BY <2>1, <2>2, <2>3, <2>4 DEF KeepsHandles, Live
<1>3. ASSUME NEW d \in Datatype, NEW n \in Counts, MA_allocate_heap(AR(d, n))
      PROVE  Laid' /\ \E at : Allocates(at)
  <2>1. n \in Nat
    BY MaAssumption DEF MaAssumption
  <2>2. CASE AllocateFromFree(AR(d, n))
    <3>1. Laid'
      BY <1>1, <2>1, <2>2, FromFreeLaid
    <3>2. PICK at \in DOMAIN ma_hfree : DOMAIN ma_hused' = DOMAIN ma_hused \cup {at} /\ TakeHandle(at)
      BY <1>1, <2>1, <2>2, FromFreeLaid
    <3>3. at \in Nat /\ at \notin DOMAIN ma_hused \cup DOMAIN ma_sused
      BY <1>1, <3>2, HeapAddressNew
    <3>4. ma_sused' = ma_sused
      BY <2>2 DEF AllocateFromFree
    <3>5. Live' = Live \cup {at}
      BY <3>2, <3>4 DEF Live
    <3>6. Allocates(at)
      BY <3>2, <3>3, <3>5 DEF Allocates, Live
    <3>7. QED
      BY <3>1, <3>6
  <2>3. CASE AllocateFromGap(AR(d, n))
    <3>1. Laid' /\ ma_hp < ma_sp /\ DOMAIN ma_hused' = DOMAIN ma_hused \cup {ma_hp} /\ TakeHandle(ma_hp)
      BY <1>1, <2>1, <2>3, FromGapLaid
    <3>2. ma_hp \in Nat /\ ma_hp \notin DOMAIN ma_hused \cup DOMAIN ma_sused
      BY <1>1, <3>1, HeapAddressNew
    <3>3. ma_sused' = ma_sused
      BY <2>3 DEF AllocateFromGap
    <3>4. Live' = Live \cup {ma_hp}
      BY <3>1, <3>3 DEF Live
    <3>5. Allocates(ma_hp)
      BY <3>1, <3>2, <3>4 DEF Allocates, Live
    <3>6. QED
      BY <3>1, <3>5
  <2>4. QED
    BY <1>3, <2>2, <2>3 DEF MA_allocate_heap
<1>4. ASSUME NEW d \in Datatype, NEW n \in Counts, MA_push_stack(AR(d, n))
      PROVE  Laid' /\ \E at : Allocates(at)
  <2>1. n \in Nat
    BY MaAssumption DEF MaAssumption
  <2>2. /\ Laid' /\ DOMAIN ma_sused' = DOMAIN ma_sused \cup {ma_sp'} /\ TakeHandle(ma_sp')
        /\ ma_sp' \in Nat /\ ma_sp' \notin DOMAIN ma_hused \cup DOMAIN ma_sused
    BY <1>1, <1>4, <2>1, PushLaid
  <2>3. ma_hused' = ma_hused
    BY <1>4 DEF MA_push_stack
  <2>4. Allocates(ma_sp')
    BY <2>2, <2>3 DEF Allocates, Live
  <2>5. QED
    BY <2>2, <2>4
<1>5. ASSUME NEW h, MA_free_heap(h)
      PROVE  Laid' /\ \E slots, gone : Deallocates(slots, gone)
  <2> DEFINE at == ma_table[h]
  <2>1. Laid' /\ DOMAIN ma_hused' = DOMAIN ma_hused \ {at}
    BY <1>1, <1>5, FreeHeapLaid
  <2>2. /\ h \in DOMAIN ma_table /\ at \in DOMAIN ma_hused /\ ma_table_deallocate({h})
        /\ ma_sused' = ma_sused /\ lost' = lost
    BY <1>5 DEF MA_free_heap, Handles
  <2>3. at \notin DOMAIN ma_sused
    BY <1>1, <2>2, ListsApart
  <2>4. Live' = Live \ {at} /\ at \in Live
    BY <2>1, <2>2, <2>3 DEF Live
  <2>5. lost' = lost \ {at} /\ \A i \in DOMAIN ma_table : i \in {h} <=> ma_table[i] \in {at}
    BY <2>2, <2>4, HandleFacts
  <2> HIDE DEF at
  <2>6. Deallocates({h}, {at})
    BY <2>2, <2>4, <2>5, GoneFreed
  <2>7. QED
    BY <2>1, <2>6
<1>6. ASSUME NEW h, NEW n \in Counts, MA_free_heap_piece(h, n)
      PROVE  Laid' /\ KeepsHandles
  <2>1. n \in Nat
    BY MaAssumption DEF MaAssumption
  <2>2. Laid' /\ DOMAIN ma_hused' = DOMAIN ma_hused
    BY <1>1, <1>6, <2>1, FreePieceLaid
  <2>3. UNCHANGED <<ma_sused, table, lost>>
    BY <1>6 DEF MA_free_heap_piece
  <2>4. QED
    BY <2>2, <2>3 DEF KeepsHandles, Live
<1>7. ASSUME NEW h, MA_pop_stack(h)
      PROVE  Laid' /\ \E slots, gone : Deallocates(slots, gone)
  <2> DEFINE gone == {a \in DOMAIN ma_sused : a <= ma_sp}
  <2>1. /\ h \in DOMAIN ma_table /\ ma_sp \in DOMAIN ma_sused /\ ma_table[h] = ma_sp
        /\ ma_sp' = ma_sp + ma_sused[ma_sp].nbytes
        /\ ma_sused' = Restrict(ma_sused, DOMAIN ma_sused \ {ma_sp})
        /\ ma_table_deallocate({h}) /\ lost' = lost
        /\ UNCHANGED <<segment, ma_hp, ma_hfree, ma_hused, ma_numalign>>
    BY <1>7 DEF MA_pop_stack, Handles
  <2>2. gone = {ma_sp}
    <3>1. /\ ma_sp \in Int /\ ma_eos \in Int /\ Region(ma_sused, <<>>, ma_sp, ma_eos)
          /\ DOMAIN ma_sused \subseteq Nat
      BY <1>1, LaidFacts
    <3>2. \A a \in DOMAIN ma_sused : ma_sp <= a
      BY <3>1, RegionBounds
    <3>3. QED
      BY <2>1, <3>1, <3>2
  <2>3. ma_sused' = Restrict(ma_sused, DOMAIN ma_sused \ gone)
    BY <2>1, <2>2
  <2> HIDE DEF gone
  <2>4. Laid' /\ DOMAIN ma_sused' = DOMAIN ma_sused \ gone
    BY <1>1, <2>1, <2>3, CutLaid DEF gone
  <2>5. ma_sp \notin DOMAIN ma_hused
    BY <1>1, <2>1, ListsApart
  <2>6. Live' = Live \ gone /\ gone \subseteq Live /\ ma_sp \in Live
    BY <2>1, <2>2, <2>4, <2>5 DEF Live
  <2>7. lost' = lost \ gone /\ \A i \in DOMAIN ma_table : i \in {h} <=> ma_table[i] \in gone
    BY <2>1, <2>2, <2>6, HandleFacts
  <2>8. Deallocates({h}, gone)
    BY <2>1, <2>6, <2>7, GoneFreed
  <2>9. QED
    BY <2>4, <2>8
<1>8. ASSUME NEW h, MA_chop_stack(h)
      PROVE  Laid' /\ \E slots, gone : Deallocates(slots, gone)
  <2> DEFINE at == ma_table[h]
             gone == {a \in DOMAIN ma_sused : a <= at}
             slots == {i \in Handles(ma_sused) : ma_table[i] \in gone}
  <2>1. /\ at \in DOMAIN ma_sused
        /\ ma_sp' = at + ma_sused[at].nbytes
        /\ ma_sused' = Restrict(ma_sused, DOMAIN ma_sused \ gone)
        /\ ma_table_deallocate(slots) /\ lost' = lost \ gone
        /\ UNCHANGED <<segment, ma_hp, ma_hfree, ma_hused, ma_numalign>>
    BY <1>8 DEF MA_chop_stack, Handles
  <2>2. slots \subseteq DOMAIN ma_table /\ \A i \in DOMAIN ma_table : i \in slots <=> ma_table[i] \in gone
    BY DEF Handles
  <2>3. gone \subseteq DOMAIN ma_sused
    OBVIOUS
  <2> HIDE DEF gone, slots
  <2>4. Laid' /\ DOMAIN ma_sused' = DOMAIN ma_sused \ gone
    <3> HIDE DEF at
    <3>1. gone = {a \in DOMAIN ma_sused : a <= at}
      BY DEF gone
    <3>2. QED
      BY <1>1, <2>1, <3>1, CutLaid
  <2>5. \A a \in gone : a \notin DOMAIN ma_hused
    BY <1>1, <2>3, ListsApart
  <2>6. Live' = Live \ gone /\ gone \subseteq Live
    BY <2>1, <2>3, <2>4, <2>5 DEF Live
  <2>7. Deallocates(slots, gone)
    BY <2>1, <2>2, <2>6, GoneFreed
  <2>8. QED
    BY <2>4, <2>7
<1>9. ASSUME NEW value, MA_set_numalign(value)
      PROVE  Laid' /\ KeepsHandles
  <2>1. /\ value \in 0 .. 30 /\ ma_numalign' = value
        /\ UNCHANGED <<segment, ma_hp, ma_sp, ma_hfree, ma_hused, ma_sused, table, lost>>
    BY <1>9 DEF MA_set_numalign
  <2>2. Laid'
    <3>1. Typed' /\ Aligned'
      BY <1>1, <2>1 DEF Laid, Typed, Aligned, segment
    <3>2. Regions'
      BY <1>1, <2>1 DEF Laid, Regions, segment
    <3>3. QED
      BY <1>1, <2>1, <3>1, <3>2 DEF Laid, Fresh, segment
  <2>3. QED
    BY <2>1, <2>2 DEF KeepsHandles, Live
<1>10. QED
  BY <1>2, <1>3, <1>4, <1>5, <1>6, <1>7, <1>8, <1>9 DEF Next


-----------------------------------------------------------------------------
(* The table of handles.                                                   *)

(* From any slot the search of ma_table_allocate comes to each slot.       *)
LEMMA SlotReached ==
  ASSUME NEW c \in Nat \ {0}, NEW s \in Nat, NEW i \in 0 .. (c - 1)
  PROVE  \E k \in 0 .. (c - 1) : (s + k) % c = i
<1> DEFINE x == i - s
           k == x % c
           q == x \div c
<1>1. x \in Int
  OBVIOUS
<1> HIDE DEF x
<1>2. k \in 0 .. (c - 1) /\ q \in Int /\ x = c * q + k
  BY <1>1, Division
<1> HIDE DEF k, q
<1>3. c * q \in Int /\ c * (- q) = - (c * q)
  BY <1>2
<1>4. s + k = c * (- q) + i
  BY <1>2, <1>3 DEF x
<1>5. ASSUME NEW r \in Int PROVE (c * r + i) % c = i
  OBVIOUS
<1>6. (c * (- q) + i) % c = i
  BY <1>2, <1>5
<1>7. QED
  BY <1>2, <1>4, <1>6

(* What is known of a table with cap slots.                                *)
Slots(cap) ==
  /\ cap \in Nat /\ DOMAIN ma_table = 0 .. (cap - 1) /\ Capacity = cap
  /\ ma_table \in [0 .. (cap - 1) -> Nat \cup {None}]
  /\ ma_table_next_slot \in 0 .. cap

Taken == {i \in DOMAIN ma_table : ma_table[i] # None}

(* The table is a number of slots.                                         *)
LEMMA TableSlots ==
  ASSUME IInv
  PROVE  /\ \E cap : Slots(cap)
         /\ IsFiniteSet(Taken) /\ ma_table_entries = Cardinality(Taken) /\ ma_table_entries \in Nat
<1>1. PICK cap \in Nat : /\ ma_table \in [0 .. (cap - 1) -> Nat \cup {None}]
                         /\ ma_table_next_slot \in 0 .. cap
  BY DEF IInv, TableTyped
<1>2. DOMAIN ma_table = 0 .. (cap - 1)
  BY <1>1
<1>3. IsFiniteSet(0 .. (cap - 1)) /\ Cardinality(0 .. (cap - 1)) = cap
  <2>1. 0 \in Int /\ cap - 1 \in Int
    OBVIOUS
  <2>2. QED
    BY <2>1, FS_Interval
<1>4. Slots(cap)
  BY <1>1, <1>2, <1>3 DEF Slots, Capacity
<1>5. Taken \subseteq 0 .. (cap - 1)
  BY <1>2 DEF Taken
<1>6. IsFiniteSet(Taken) /\ Cardinality(Taken) \in Nat
  BY <1>3, <1>5, FS_Subset, FS_CardinalityType
<1>7. ma_table_entries = Cardinality(Taken)
  BY DEF IInv, HandlesMatchBlocks, Taken
<1>8. QED
  BY <1>4, <1>6, <1>7

(* A table that is not full has a slot that is not in use.                 *)
LEMMA SlotLeft ==
  ASSUME IInv, NEW cap, Slots(cap), ~ TableFull
  PROVE  \E i \in 0 .. (cap - 1) : ma_table[i] = None
<1> SUFFICES ASSUME \A i \in 0 .. (cap - 1) : ma_table[i] # None PROVE FALSE
  OBVIOUS
<1>1. Taken = DOMAIN ma_table
  BY DEF Taken, Slots
<1>2. ma_table_entries = Capacity
  BY <1>1, TableSlots DEF Capacity
<1>3. QED
  BY <1>2, TableSlots DEF TableFull, Slots

(* A slot is found, in the table or in what it grows by.                   *)
Put(at, cap, more, slot) ==
  /\ more \in Nat /\ cap <= more /\ slot \in 0 .. (more - 1)
  /\ slot < cap => ma_table[slot] = None
  /\ ma_table' \in [0 .. (more - 1) -> Nat \cup {None}] /\ ma_table'[slot] = at
  /\ \A i \in 0 .. (more - 1) :
       i # slot => ma_table'[i] = IF i < cap THEN ma_table[i] ELSE None
  /\ ma_table_entries' = ma_table_entries + 1
  /\ ma_table_next_slot' \in 0 .. more

(* ma_table_allocate finds one.                                            *)
LEMMA SlotFound ==
  ASSUME IInv, NEW at \in Nat, NEW c, Slots(c), ma_table_allocate(at)
  PROVE  \E more, slot : Put(at, c, more, slot)
<1> DEFINE cap == IF ~ TableFull THEN Capacity
                  ELSE IF Capacity = 0 THEN TableEntries ELSE 2 * Capacity
           start == IF TableFull THEN Capacity ELSE ma_table_next_slot
           new == [i \in 0..(cap - 1) |->
                     IF i < Capacity THEN ma_table[i] ELSE None]
           tries == {k \in 0..(cap - 1) : new[(start + k) % cap] = None}
           slot == (start + Min(tries)) % cap
<1>1. /\ ma_table' = [new EXCEPT ![slot] = at]
      /\ ma_table_entries' = ma_table_entries + 1
      /\ ma_table_next_slot' = (slot + 1) % cap
  BY DEF ma_table_allocate
<1>2. /\ c \in Nat /\ Capacity = c /\ DOMAIN ma_table = 0 .. (c - 1)
      /\ ma_table \in [0 .. (c - 1) -> Nat \cup {None}]
      /\ ma_table_next_slot \in 0 .. c
      /\ ma_table_entries \in Nat
  BY TableSlots DEF Slots
<1>3. TableEntries \in Nat \ {0}
  BY MaAssumption DEF MaAssumption
<1>4. cap \in Nat \ {0} /\ c <= cap /\ start \in Nat
  <2>1. CASE TableFull
    BY <1>2, <1>3, <2>1
  <2>2. CASE ~ TableFull
    <3>1. c # 0
      BY <1>2, <2>2 DEF TableFull
    <3>2. QED
      BY <1>2, <2>2, <3>1
  <2>3. QED
    BY <2>1, <2>2
<1>5. \E i \in 0 .. (cap - 1) : new[i] = None
  <2>1. CASE TableFull
    <3>1. c \in 0 .. (cap - 1)
      BY <1>2, <1>3, <2>1
    <3>2. new[c] = None
      BY <1>2, <3>1
    <3>3. QED
      BY <3>1, <3>2
  <2>2. CASE ~ TableFull
    <3>1. PICK i \in 0 .. (c - 1) : ma_table[i] = None
      BY <2>2, SlotLeft
    <3>2. cap = c /\ i \in 0 .. (cap - 1) /\ i < Capacity
      BY <1>2, <2>2
    <3>3. new[i] = None
      BY <3>1, <3>2
    <3>4. QED
      BY <3>2, <3>3
  <2>3. QED
    BY <2>1, <2>2
<1>6. new \in [0 .. (cap - 1) -> Nat \cup {None}]
  BY <1>2
<1>7. \A i \in 0 .. (cap - 1) : new[i] = IF i < c THEN ma_table[i] ELSE None
  BY <1>2
<1> HIDE DEF cap, start, new
<1>8. Min(tries) \in tries
  <2>1. PICK i \in 0 .. (cap - 1) : new[i] = None
    BY <1>5
  <2>2. PICK k \in 0 .. (cap - 1) : (start + k) % cap = i
    BY <1>4, SlotReached
  <2>3. k \in tries
    BY <2>1, <2>2
  <2>4. tries \subseteq 0 .. (cap - 1)
    OBVIOUS
  <2> HIDE DEF tries
  <2>5. tries \subseteq Int /\ tries # {} /\ \A j \in tries : 0 <= j
    BY <2>3, <2>4
  <2>6. 0 \in Int
    OBVIOUS
  <2>7. QED
    BY <2>5, <2>6, MinExists, Zenon
<1>9. Min(tries) \in Nat /\ new[slot] = None
  BY <1>4, <1>8
<1>10. slot \in 0 .. (cap - 1)
  <2> HIDE DEF tries
  <2>1. start + Min(tries) \in Int
    BY <1>4, <1>9
  <2>2. QED
    BY <1>4, <2>1, Division
<1> HIDE DEF slot, tries
<1>11. (slot + 1) % cap \in 0 .. (cap - 1)
  <2>1. slot + 1 \in Int
    BY <1>4, <1>10
  <2>2. QED
    BY <1>4, <2>1, Division
<1>12. slot < c => ma_table[slot] = None
  BY <1>7, <1>9, <1>10
<1>13. /\ ma_table' \in [0 .. (cap - 1) -> Nat \cup {None}] /\ ma_table'[slot] = at
       /\ \A i \in 0 .. (cap - 1) : i # slot => ma_table'[i] = new[i]
  BY <1>1, <1>6, <1>10
<1>14. ma_table_next_slot' \in 0 .. cap
  BY <1>1, <1>4, <1>11
<1>15. Put(at, c, cap, slot)
  BY <1>1, <1>4, <1>7, <1>10, <1>12, <1>13, <1>14 DEF Put
<1>16. QED
  BY <1>15

(* A new handle stands for the new block and for it alone.                 *)
LEMMA AllocatesHandle ==
  ASSUME IInv, NEW at, Allocates(at)
  PROVE  TableTyped' /\ HandlesMatchBlocks'
<1> DEFINE vals == {ma_table[i] : i \in Taken}
<1>1. PICK cap : Slots(cap)
  BY TableSlots
<1>2. /\ cap \in Nat /\ DOMAIN ma_table = 0 .. (cap - 1)
      /\ ma_table \in [0 .. (cap - 1) -> Nat \cup {None}]
      /\ ma_table_next_slot \in 0 .. cap
  BY <1>1 DEF Slots
<1>3. at \in Nat /\ at \notin Live /\ Live' = Live \cup {at} /\ TakeHandle(at)
  BY DEF Allocates
<1>4. /\ \A i, j \in Taken : ma_table[i] = ma_table[j] => i = j
      /\ vals \intersect lost = {} /\ vals \cup lost = Live
  BY DEF IInv, HandlesMatchBlocks, Live, Taken
<1>5. IsFiniteSet(Taken) /\ ma_table_entries = Cardinality(Taken) /\ ma_table_entries \in Nat
  BY TableSlots
<1>6. CASE ma_table_allocate(at) /\ UNCHANGED lost
  <2>1. PICK more, slot : Put(at, cap, more, slot)
    BY <1>1, <1>3, <1>6, SlotFound
  <2>2. /\ more \in Nat /\ cap <= more /\ slot \in 0 .. (more - 1)
        /\ slot < cap => ma_table[slot] = None
        /\ DOMAIN ma_table' = 0 .. (more - 1) /\ ma_table'[slot] = at
        /\ \A i \in 0 .. (more - 1) : i # slot => ma_table'[i] = IF i < cap THEN ma_table[i] ELSE None
        /\ ma_table_entries' = ma_table_entries + 1
    BY <2>1 DEF Put
  <2>3. TableTyped'
    BY <2>1 DEF Put, TableTyped
  <2>4. at # None
    BY <1>3 DEF None
  <2>5. slot \notin Taken
    BY <1>2, <2>2 DEF Taken
  <2>6. Taken' = Taken \cup {slot}
    <3>1. ASSUME NEW i \in Taken' PROVE i \in Taken \cup {slot}
      <4>1. i \in 0 .. (more - 1) /\ ma_table'[i] # None
        BY <2>2 DEF Taken
      <4>2. CASE i # slot
        <5>1. i < cap /\ ma_table[i] # None
          BY <2>2, <4>1, <4>2
        <5>2. i \in DOMAIN ma_table
          BY <1>2, <4>1, <5>1
        <5>3. QED
          BY <5>1, <5>2 DEF Taken
      <4>3. QED
        BY <4>2
    <3>2. ASSUME NEW i \in Taken PROVE i \in Taken'
      <4>1. i \in 0 .. (cap - 1) /\ ma_table[i] # None
        BY <1>2 DEF Taken
      <4>2. i \in 0 .. (more - 1) /\ i # slot /\ i < cap
        BY <1>2, <2>2, <2>5, <4>1
      <4>3. ma_table'[i] = ma_table[i]
        BY <2>2, <4>2
      <4>4. QED
        BY <2>2, <4>1, <4>2, <4>3 DEF Taken
    <3>3. slot \in Taken'
      BY <2>2, <2>4 DEF Taken
    <3>4. QED
      BY <3>1, <3>2, <3>3
  <2>7. \A i \in Taken : ma_table'[i] = ma_table[i] /\ ma_table[i] \in Live
    <3>1. ASSUME NEW i \in Taken PROVE ma_table'[i] = ma_table[i]
      <4>1. i \in 0 .. (cap - 1)
        BY <1>2 DEF Taken
      <4>2. i \in 0 .. (more - 1) /\ i # slot /\ i < cap
        BY <1>2, <2>2, <2>5, <4>1
      <4>3. QED
        BY <2>2, <4>2
    <3>2. QED
      BY <1>4, <3>1
  <2>8. ma_table_entries' = Cardinality(Taken')
    BY <1>5, <2>2, <2>5, <2>6, FS_AddElement
  <2>9. \A i, j \in Taken' : ma_table'[i] = ma_table'[j] => i = j
    BY <1>3, <1>4, <2>2, <2>6, <2>7
  <2>10. {ma_table'[i] : i \in Taken'} = vals \cup {at}
    <3>1. ASSUME NEW v, v \in {ma_table'[i] : i \in Taken'} PROVE v \in vals \cup {at}
      BY <2>2, <2>6, <2>7, <3>1
    <3>2. ASSUME NEW v \in vals PROVE v \in {ma_table'[i] : i \in Taken'}
      BY <2>6, <2>7
    <3>3. at \in {ma_table'[i] : i \in Taken'}
      BY <2>2, <2>6
    <3>4. QED
      BY <3>1, <3>2, <3>3
  <2> HIDE DEF vals
  <2>11. {ma_table'[i] : i \in Taken'} \intersect lost' = {} /\ {ma_table'[i] : i \in Taken'} \cup lost' = Live'
    BY <1>3, <1>4, <1>6, <2>10
  <2>12. HandlesMatchBlocks'
    BY <2>8, <2>9, <2>11 DEF HandlesMatchBlocks, Taken, Live
  <2>13. QED
    BY <2>3, <2>12
<1>7. CASE lost' = lost \cup {at} /\ UNCHANGED table
  <2>1. ma_table' = ma_table /\ ma_table_entries' = ma_table_entries /\ ma_table_next_slot' = ma_table_next_slot
    BY <1>7 DEF table
  <2>2. TableTyped'
    BY <2>1 DEF IInv, TableTyped
  <2>3. Taken' = Taken /\ {ma_table'[i] : i \in Taken'} = vals
    BY <2>1 DEF Taken
  <2>4. at \notin vals
    BY <1>3, <1>4
  <2> HIDE DEF vals
  <2>5. vals \intersect lost' = {} /\ vals \cup lost' = Live'
    BY <1>3, <1>4, <1>7, <2>4
  <2>6. HandlesMatchBlocks'
    BY <1>4, <1>5, <2>1, <2>3, <2>5 DEF HandlesMatchBlocks, Taken, Live
  <2>7. QED
    BY <2>2, <2>6
<1>8. QED
  BY <1>3, <1>6, <1>7 DEF TakeHandle

(* The handles of the freed blocks go, the others stay.                    *)
LEMMA DeallocatesHandles ==
  ASSUME IInv, NEW slots, NEW gone, Deallocates(slots, gone)
  PROVE  TableTyped' /\ HandlesMatchBlocks'
<1> DEFINE vals == {ma_table[i] : i \in Taken}
<1>1. PICK cap : Slots(cap)
  BY TableSlots
<1>2. /\ cap \in Nat /\ DOMAIN ma_table = 0 .. (cap - 1)
      /\ ma_table \in [0 .. (cap - 1) -> Nat \cup {None}]
      /\ ma_table_next_slot \in 0 .. cap
  BY <1>1 DEF Slots
<1>3. /\ slots = {i \in DOMAIN ma_table : ma_table[i] \in gone}
      /\ gone \subseteq Live /\ Live' = Live \ gone
      /\ ma_table' = [i \in DOMAIN ma_table |-> IF i \in slots THEN None ELSE ma_table[i]]
      /\ ma_table_entries' = ma_table_entries - Cardinality(slots)
      /\ ma_table_next_slot' = ma_table_next_slot
      /\ lost' = lost \ gone
  BY DEF Deallocates, ma_table_deallocate
<1>4. /\ \A i, j \in Taken : ma_table[i] = ma_table[j] => i = j
      /\ vals \intersect lost = {} /\ vals \cup lost = Live
  BY DEF IInv, HandlesMatchBlocks, Live, Taken
<1>5. IsFiniteSet(Taken) /\ ma_table_entries = Cardinality(Taken) /\ ma_table_entries \in Nat
  BY TableSlots
<1>6. TableTyped'
  <2>1. ma_table' \in [0 .. (cap - 1) -> Nat \cup {None}]
    BY <1>2, <1>3
  <2>2. QED
    BY <1>2, <1>3, <2>1 DEF TableTyped
<1>7. slots \subseteq Taken
  <2>1. None \notin Live
    BY HandleFacts DEF None
  <2>2. QED
    BY <1>3, <2>1 DEF Taken
<1>8. Taken' = Taken \ slots
  BY <1>3 DEF Taken
<1>9. \A i \in Taken' : ma_table'[i] = ma_table[i]
  BY <1>3, <1>8 DEF Taken
<1>10. ma_table_entries' = Cardinality(Taken')
  <2>1. Taken \cap slots = slots
    BY <1>7
  <2>2. Cardinality(Taken \ slots) = Cardinality(Taken) - Cardinality(slots)
    BY <1>5, <2>1, FS_Difference
  <2>3. QED
    BY <1>3, <1>5, <1>8, <2>2
<1>11. \A i, j \in Taken' : ma_table'[i] = ma_table'[j] => i = j
  BY <1>4, <1>8, <1>9
<1>12. {ma_table'[i] : i \in Taken'} = vals \ gone
  <2>1. \A i \in Taken : i \in slots <=> ma_table[i] \in gone
    BY <1>3 DEF Taken
  <2>2. ASSUME NEW v, v \in {ma_table'[i] : i \in Taken'} PROVE v \in vals \ gone
    BY <1>8, <1>9, <2>1, <2>2
  <2>3. ASSUME NEW v \in vals \ gone PROVE v \in {ma_table'[i] : i \in Taken'}
    BY <1>8, <1>9, <2>1
  <2>4. QED
    BY <2>2, <2>3
<1> HIDE DEF vals
<1>13. (vals \ gone) \intersect lost' = {} /\ (vals \ gone) \cup lost' = Live'
  BY <1>3, <1>4
<1>14. HandlesMatchBlocks'
  BY <1>10, <1>11, <1>12, <1>13 DEF HandlesMatchBlocks, Taken, Live
<1>15. QED
  BY <1>6, <1>14

(* Where no block is allocated or freed nothing happens to the handles.    *)
LEMMA HandlesKept ==
  ASSUME IInv, KeepsHandles
  PROVE  TableTyped' /\ HandlesMatchBlocks'
<1>1. /\ Live' = Live /\ ma_table' = ma_table /\ ma_table_entries' = ma_table_entries
      /\ ma_table_next_slot' = ma_table_next_slot /\ lost' = lost
  BY DEF KeepsHandles, table
<1>2. TableTyped'
  BY <1>1 DEF IInv, TableTyped
<1>3. HandlesMatchBlocks'
  BY <1>1 DEF IInv, HandlesMatchBlocks, Live
<1>4. QED
  BY <1>2, <1>3

(* At start no block is used and no slot is.                               *)
LEMMA StartHandles ==
  Init => TableTyped /\ HandlesMatchBlocks
<1> SUFFICES ASSUME Init PROVE TableTyped /\ HandlesMatchBlocks
  OBVIOUS
<1>1. /\ ma_hused = <<>> /\ ma_sused = <<>> /\ ma_table = <<>> /\ ma_table_entries = 0
      /\ ma_table_next_slot = 0 /\ lost = {}
  BY DEF Init
<1>2. DOMAIN <<>> = {} /\ 0 .. (0 - 1) = {}
  OBVIOUS
<1>3. TableTyped
  <2>1. ma_table \in [0 .. (0 - 1) -> Nat \cup {None}] /\ ma_table_next_slot \in 0 .. 0
    BY <1>1, <1>2
  <2>2. QED
    BY <2>1 DEF TableTyped
<1>4. Taken = {}
  BY <1>1, <1>2 DEF Taken
<1>5. HandlesMatchBlocks
  <2>1. Cardinality({}) = 0
    BY FS_EmptySet
  <2>2. DOMAIN ma_hused \union DOMAIN ma_sused = {}
    BY <1>1, <1>2
  <2>3. {ma_table[i] : i \in Taken} = {}
    BY <1>4
  <2>4. QED
    BY <1>1, <1>4, <2>1, <2>2, <2>3 DEF HandlesMatchBlocks, Taken
<1>6. QED
  BY <1>3, <1>5

-----------------------------------------------------------------------------
(* The clients' space in the blocks.                                       *)

(* A block on the heap that has at least the length balloc_after asks for. *)
LEMMA HeapBlock ==
  ASSUME ma_numalign \in 0 .. 30, NEW d \in Datatype, NEW n \in Nat, NEW at \in Int, at % Alignment = 0,
         NEW t, t = balloc_after(AR(d, n), at), NEW nbytes \in Int, t.nbytes <= nbytes,
         NEW b, b = Block(AR(d, n), t, nbytes)
  PROVE  Formed(b, at) /\ b.client_space = Place(b.datatype, at, ma_numalign)
<1>1. b.datatype = d /\ b.nelem = n /\ b.client_space = t.client_space /\ b.nbytes = nbytes
  BY DEF Block, AR
<1>2. /\ t.client_space \in Int /\ t.nbytes \in Nat \ {0}
      /\ at + AdSize + GuardSize <= t.client_space
      /\ t.client_space + n * ma_sizeof[d] + GuardSize <= at + t.nbytes
      /\ (t.client_space - ma_base[d]) % ma_sizeof[d] = 0
  BY BlockAfter
<1>3. Length(b) = n * ma_sizeof[d]
  BY <1>1 DEF Length
<1>4. n * ma_sizeof[d] \in Int /\ GuardSize \in Int /\ AdSize \in Int
  <2>1. ma_sizeof[d] \in Int /\ n \in Int
    BY MaAssumption DEF MaAssumption
  <2>2. ASSUME NEW x \in Int, NEW y \in Int PROVE x * y \in Int
    OBVIOUS
  <2>3. QED
    BY <2>1, <2>2, MaAssumption DEF MaAssumption
<1> DEFINE len == n * ma_sizeof[d]
<1> HIDE DEF len
<1>5. t.client_space + len + GuardSize <= at + nbytes
  BY <1>2, <1>4 DEF len
<1>6. Formed(b, at)
  BY <1>1, <1>2, <1>3, <1>5 DEF Formed, len
<1>7. b.client_space = Place(b.datatype, at, ma_numalign)
  BY <1>1, PlaceKept
<1>8. QED
  BY <1>6, <1>7

(* A block that is added to a list, by an allocation.                      *)
LEMMA FormedAdded ==
  ASSUME NEW used, NEW at, NEW b, NEW align
  PROVE  /\ AllFormed(used) /\ Formed(b, at) => AllFormed(AddBlock(used, at, b))
         /\ AllPlaced(used, align) /\ b.client_space = Place(b.datatype, at, align)
              => AllPlaced(AddBlock(used, at, b), align)
<1> DEFINE u == AddBlock(used, at, b)
<1>1. /\ DOMAIN u = DOMAIN used \cup {at} /\ u[at] = b
      /\ \A a \in DOMAIN used : a # at => u[a] = used[a]
  BY DEF AddBlock
<1> HIDE DEF u
<1>2. AllFormed(used) /\ Formed(b, at) => AllFormed(u)
  BY <1>1 DEF AllFormed
<1>3. AllPlaced(used, align) /\ b.client_space = Place(b.datatype, at, align) => AllPlaced(u, align)
  BY <1>1 DEF AllPlaced
<1>4. QED
  BY <1>2, <1>3 DEF u

(* The blocks that are left on a list when some are freed.                 *)
LEMMA FormedLeft ==
  ASSUME NEW used, NEW S, S \subseteq DOMAIN used, NEW align
  PROVE  /\ AllFormed(used) => AllFormed(Restrict(used, S))
         /\ AllPlaced(used, align) => AllPlaced(Restrict(used, S), align)
<1> DEFINE u == Restrict(used, S)
<1>1. DOMAIN u = S /\ \A a \in S : u[a] = used[a]
  BY DEF Restrict
<1> HIDE DEF u
<1>2. QED
  BY <1>1 DEF u, AllFormed, AllPlaced

(* No list, no block.                                                      *)
LEMMA NoneFormed ==
  ASSUME NEW align, NEW used, DOMAIN used = {}
  PROVE  AllFormed(used) /\ AllPlaced(used, align)
BY DEF AllFormed, AllPlaced

(* MA_free_heap_piece leaves the elements where they are, and their block  *)
(* is long enough.                                                         *)
LEMMA PieceFormed ==
  ASSUME Laid, Placed, NEW h, NEW nelem \in Nat, MA_free_heap_piece(h, nelem)
  PROVE  AllFormed(ma_hused') /\ AllPlaced(ma_hused', ma_numalign)
<1> DEFINE at == ma_table[h]
           ad == ma_hused[at]
           keep == AR(ad.datatype, ad.nelem - nelem)
           t == balloc_after(keep, at)
           split == t.nbytes < ad.nbytes /\ Splits(ad.nbytes, t.nbytes)
           used == [ma_hused EXCEPT
                      ![at].nelem = keep.nelem,
                      ![at].nbytes = IF split THEN t.nbytes ELSE @]
           b == used[at]
<1>1. nelem < ad.nelem /\ ma_hused' = used
  BY DEF MA_free_heap_piece
<1>2. at \in DOMAIN ma_hused
  BY DEF MA_free_heap_piece, Handles
<1>3. /\ at % Alignment = 0 /\ ma_numalign \in 0 .. 30
      /\ ma_hused \in [DOMAIN ma_hused -> Used] /\ DOMAIN ma_hused \subseteq Nat
  BY <1>2, LaidFacts
<1>4. at \in Int /\ ad \in Used
  BY <1>2, <1>3
<1>5. ad.datatype \in Datatype /\ ad.nelem \in Nat /\ ad.nelem - nelem \in Nat /\ ad.nbytes \in Nat \ {0}
      /\ ad.client_space \in Int
  BY <1>1, <1>4 DEF Used
<1>6. /\ t.client_space \in Int /\ t.nbytes \in Nat \ {0}
      /\ t.client_space + (ad.nelem - nelem) * ma_sizeof[ad.datatype] + GuardSize <= at + t.nbytes
  <2> HIDE DEF ad, at
  <2>1. QED
    BY <1>3, <1>4, <1>5, BlockAfter
<1>7. t.client_space = Place(ad.datatype, at, ma_numalign)
  <2> HIDE DEF ad, at
  <2>1. QED
    BY PlaceKept
<1>8. Formed(ad, at) /\ ad.client_space = Place(ad.datatype, at, ma_numalign)
  BY <1>2 DEF Placed, AllFormed, AllPlaced
<1>9. keep.nelem = ad.nelem - nelem
  BY DEF AR
<1>10. /\ DOMAIN used = DOMAIN ma_hused
       /\ \A a \in DOMAIN ma_hused : a # at => used[a] = ma_hused[a]
       /\ b.datatype = ad.datatype /\ b.nelem = ad.nelem - nelem /\ b.client_space = ad.client_space
       /\ b.nbytes = IF split THEN t.nbytes ELSE ad.nbytes
  <2> HIDE DEF keep, split, t
  <2>1. DOMAIN used = DOMAIN ma_hused /\ \A a \in DOMAIN ma_hused : a # at => used[a] = ma_hused[a]
    OBVIOUS
  <2>2. ad = [datatype |-> ad.datatype, nelem |-> ad.nelem, client_space |-> ad.client_space, nbytes |-> ad.nbytes]
    <3> HIDE DEF ad
    <3>1. QED
      BY <1>4 DEF Used
  <2>3. b = [[ad EXCEPT !.nelem = keep.nelem] EXCEPT !.nbytes = IF split THEN t.nbytes ELSE @]
    BY <1>2
  <2> HIDE DEF used, b, ad, at
  <2>4. b = [datatype |-> ad.datatype, nelem |-> keep.nelem, client_space |-> ad.client_space,
             nbytes |-> IF split THEN t.nbytes ELSE ad.nbytes]
    BY <2>2, <2>3
  <2>5. QED
    BY <1>9, <2>1, <2>4
<1> HIDE DEF at, ad, keep, t, split, used, b
<1> DEFINE size == ma_sizeof[ad.datatype]
           len == (ad.nelem - nelem) * size
           all == ad.nelem * size
<1>11. size \in Nat \ {0} /\ GuardSize \in Nat
  BY <1>5, MaAssumption DEF MaAssumption
<1>12. len \in Int /\ all \in Int /\ len <= all
  <2> HIDE DEF size
  <2>1. ASSUME NEW x \in Nat, NEW y \in Nat PROVE x * y \in Nat
    OBVIOUS
  <2>2. (ad.nelem - nelem) * size = ad.nelem * size - nelem * size
    BY <1>5, <1>11
  <2>3. nelem * size \in Nat /\ ad.nelem * size \in Nat /\ (ad.nelem - nelem) * size \in Nat
    BY <1>5, <1>11, <2>1
  <2>4. QED
    BY <2>2, <2>3
<1>13. Length(ad) = all /\ Length(b) = len
  BY <1>10 DEF Length
<1>14. t.client_space + len + GuardSize <= at + t.nbytes
  BY <1>6
<1> HIDE DEF len, all, size
<1>15. ad.client_space + all + GuardSize <= at + ad.nbytes
  BY <1>8, <1>13 DEF Formed
<1>16. b.client_space + len + GuardSize <= at + b.nbytes
  BY <1>4, <1>5, <1>6, <1>7, <1>8, <1>10, <1>11, <1>12, <1>14, <1>15
<1>17. Formed(b, at)
  BY <1>8, <1>10, <1>13, <1>16 DEF Formed
<1>18. b.client_space = Place(b.datatype, at, ma_numalign)
  BY <1>8, <1>10
<1>19. \A a \in DOMAIN used : a = at \/ used[a] = ma_hused[a]
  BY <1>10
<1>20. used[at] = b
  BY DEF b
<1>21. AllFormed(used)
  BY <1>10, <1>17, <1>19, <1>20 DEF Placed, AllFormed
<1>22. AllPlaced(used, ma_numalign)
  BY <1>10, <1>18, <1>19, <1>20 DEF Placed, AllPlaced
<1>23. QED
  BY <1>1, <1>21, <1>22 DEF used

(* Every step keeps the blocks well formed, as long as the alignment       *)
(* changes only while none is allocated.                                   *)
LEMMA NextPlaced ==
  ASSUME Laid, Placed, Next, ~ AlignAnyTime
  PROVE  Placed'
<1>1. /\ AllFormed(ma_hused) /\ AllFormed(ma_sused) /\ AllPlaced(ma_hused, ma_numalign)
      /\ ma_numalign \in 0 .. 30 /\ ma_hp \in Int /\ ma_hp % Alignment = 0
      /\ \A a \in DOMAIN ma_hfree : a \in Int /\ a % Alignment = 0 /\ ma_hfree[a] \in Int
  <2>1. /\ ma_hfree \in [DOMAIN ma_hfree -> Nat \ {0}] /\ DOMAIN ma_hfree \subseteq Nat
        /\ ma_hp \in Int /\ ma_hp % Alignment = 0 /\ ma_numalign \in 0 .. 30
        /\ \A a \in DOMAIN ma_hfree : a % Alignment = 0
    BY LaidFacts
  <2>2. \A a \in DOMAIN ma_hfree : a \in Int /\ ma_hfree[a] \in Int
    BY <2>1
  <2>3. QED
    BY <2>1, <2>2 DEF Placed
<1>2. ASSUME AllFormed(ma_hused'), AllFormed(ma_sused'), AllPlaced(ma_hused', ma_numalign')
      PROVE  Placed'
  BY <1>2 DEF Placed
<1>3. ASSUME NEW args \in InitArgs, NEW address \in Segments, MA_init(args, address)
      PROVE  Placed'
  <2>1. ma_hused' = <<>> /\ ma_sused' = <<>> /\ DOMAIN <<>> = {}
    BY <1>3 DEF MA_init
  <2>2. AllFormed(<<>>) /\ AllPlaced(<<>>, ma_numalign')
    BY <2>1, NoneFormed
  <2>3. QED
    BY <1>2, <2>1, <2>2
<1>4. ASSUME NEW d \in Datatype, NEW n \in Counts, MA_allocate_heap(AR(d, n))
      PROVE  Placed'
  <2>1. n \in Nat
    BY MaAssumption DEF MaAssumption
  <2>2. \E at \in Int, nbytes \in Int :
          /\ at % Alignment = 0 /\ balloc_after(AR(d, n), at).nbytes <= nbytes
          /\ ma_hused' = AddBlock(ma_hused, at, Block(AR(d, n), balloc_after(AR(d, n), at), nbytes))
    <3>1. CASE AllocateFromFree(AR(d, n))
      <4>1. PICK at \in DOMAIN ma_hfree :
              LET t == balloc_after(AR(d, n), at)
                  split == Splits(ma_hfree[at], t.nbytes)
              IN /\ t.nbytes <= ma_hfree[at]
                 /\ ma_hused' = AddBlock(ma_hused, at, Block(AR(d, n), t, IF split THEN t.nbytes ELSE ma_hfree[at]))
        BY <3>1 DEF AllocateFromFree, ad_big_enough
      <4>2. at \in Int /\ at % Alignment = 0 /\ ma_hfree[at] \in Int
        BY <1>1, <4>1
      <4> DEFINE t == balloc_after(AR(d, n), at)
      <4>3. t.nbytes \in Int
        BY <1>1, <2>1, <4>2, BlockAfter
      <4> HIDE DEF t
      <4> DEFINE k == IF Splits(ma_hfree[at], t.nbytes) THEN t.nbytes ELSE ma_hfree[at]
      <4>4. ma_hused' = AddBlock(ma_hused, at, Block(AR(d, n), t, k)) /\ t.nbytes <= ma_hfree[at]
        BY <4>1 DEF t
      <4>5. k \in Int /\ t.nbytes <= k
        BY <4>2, <4>3, <4>4
      <4> HIDE DEF k
      <4>6. QED
        BY <4>2, <4>4, <4>5 DEF t
    <3>2. CASE AllocateFromGap(AR(d, n))
      <4> DEFINE t == balloc_after(AR(d, n), ma_hp)
      <4>1. ma_hused' = AddBlock(ma_hused, ma_hp, Block(AR(d, n), t, t.nbytes))
        BY <3>2 DEF AllocateFromGap
      <4>2. t.nbytes \in Int
        BY <1>1, <2>1, BlockAfter
      <4> HIDE DEF t
      <4>3. t.nbytes <= t.nbytes
        BY <4>2
      <4>4. QED
        BY <1>1, <4>1, <4>2, <4>3 DEF t
    <3>3. QED
      BY <1>4, <3>1, <3>2 DEF MA_allocate_heap
  <2>3. PICK at \in Int, nbytes \in Int :
          /\ at % Alignment = 0 /\ balloc_after(AR(d, n), at).nbytes <= nbytes
          /\ ma_hused' = AddBlock(ma_hused, at, Block(AR(d, n), balloc_after(AR(d, n), at), nbytes))
    BY <2>2
  <2>4. PICK t : t = balloc_after(AR(d, n), at)
    OBVIOUS
  <2>5. PICK b : b = Block(AR(d, n), t, nbytes)
    OBVIOUS
  <2>6. at % Alignment = 0 /\ t.nbytes <= nbytes /\ ma_hused' = AddBlock(ma_hused, at, b)
    BY <2>3, <2>4, <2>5
  <2>7. Formed(b, at) /\ b.client_space = Place(b.datatype, at, ma_numalign)
    BY <1>1, <2>1, <2>4, <2>5, <2>6, HeapBlock
  <2>8. AllFormed(AddBlock(ma_hused, at, b)) /\ AllPlaced(AddBlock(ma_hused, at, b), ma_numalign)
    BY <1>1, <2>7, FormedAdded
  <2>9. ma_sused' = ma_sused /\ ma_numalign' = ma_numalign
    BY <1>4 DEF MA_allocate_heap, AllocateFromFree, AllocateFromGap
  <2>10. QED
    BY <1>1, <1>2, <2>6, <2>8, <2>9
<1>5. ASSUME NEW d \in Datatype, NEW n \in Counts, MA_push_stack(AR(d, n))
      PROVE  Placed'
  <2>1. n \in Nat /\ ma_sp \in Int
    BY LaidFacts, MaAssumption DEF MaAssumption
  <2>2. PICK t : t = balloc_before(AR(d, n), ma_sp)
    OBVIOUS
  <2>3. PICK b : b = Block(AR(d, n), t, t.nbytes)
    OBVIOUS
  <2>4. PICK new : new = ma_sp - t.nbytes
    OBVIOUS
  <2>5. /\ ma_sused' = AddBlock(ma_sused, new, b)
        /\ ma_hused' = ma_hused /\ ma_numalign' = ma_numalign
    BY <1>5, <2>2, <2>3, <2>4 DEF MA_push_stack
  <2>6. /\ t.client_space \in Int /\ t.nbytes \in Nat \ {0}
        /\ (ma_sp - t.nbytes) % Alignment = 0
        /\ ma_sp - t.nbytes + AdSize + GuardSize <= t.client_space
        /\ t.client_space + n * ma_sizeof[d] + GuardSize <= ma_sp
        /\ (t.client_space - ma_base[d]) % ma_sizeof[d] = 0
    BY <1>1, <2>1, <2>2, BlockBefore
  <2>7. b.datatype = d /\ b.nelem = n /\ b.client_space = t.client_space /\ b.nbytes = t.nbytes
    BY <2>3 DEF Block, AR
  <2>8. new + t.nbytes = ma_sp
    BY <2>1, <2>4, <2>6
  <2>9. Formed(b, new)
    BY <2>4, <2>6, <2>7, <2>8 DEF Formed, Length
  <2>10. AllFormed(AddBlock(ma_sused, new, b))
    BY <1>1, <2>9, FormedAdded
  <2>11. QED
    BY <1>1, <1>2, <2>5, <2>10
<1>6. ASSUME NEW h, MA_free_heap(h)
      PROVE  Placed'
  <2> DEFINE S == DOMAIN ma_hused \ {ma_table[h]}
  <2>1. /\ ma_hused' = Restrict(ma_hused, S) /\ ma_sused' = ma_sused /\ ma_numalign' = ma_numalign
    BY <1>6 DEF MA_free_heap
  <2>2. S \subseteq DOMAIN ma_hused
    OBVIOUS
  <2> HIDE DEF S
  <2>3. AllFormed(Restrict(ma_hused, S)) /\ AllPlaced(Restrict(ma_hused, S), ma_numalign)
    BY <1>1, <2>2, FormedLeft
  <2>4. QED
    BY <1>1, <1>2, <2>1, <2>3
<1>7. ASSUME NEW h, NEW n \in Counts, MA_free_heap_piece(h, n)
      PROVE  Placed'
  <2>1. n \in Nat
    BY MaAssumption DEF MaAssumption
  <2>2. AllFormed(ma_hused') /\ AllPlaced(ma_hused', ma_numalign)
    BY <1>7, <2>1, PieceFormed
  <2>3. ma_sused' = ma_sused /\ ma_numalign' = ma_numalign
    BY <1>7 DEF MA_free_heap_piece
  <2>4. QED
    BY <1>1, <1>2, <2>2, <2>3
<1>8. ASSUME NEW h, MA_pop_stack(h) \/ MA_chop_stack(h)
      PROVE  Placed'
  <2>1. \E gone : ma_sused' = Restrict(ma_sused, DOMAIN ma_sused \ gone)
    BY <1>8 DEF MA_pop_stack, MA_chop_stack
  <2>2. PICK gone : ma_sused' = Restrict(ma_sused, DOMAIN ma_sused \ gone)
    BY <2>1
  <2> DEFINE S == DOMAIN ma_sused \ gone
  <2>3. ma_sused' = Restrict(ma_sused, S) /\ S \subseteq DOMAIN ma_sused
    BY <2>2
  <2> HIDE DEF S
  <2>4. AllFormed(Restrict(ma_sused, S))
    BY <1>1, <2>3, FormedLeft
  <2>5. ma_hused' = ma_hused /\ ma_numalign' = ma_numalign
    BY <1>8 DEF MA_pop_stack, MA_chop_stack
  <2>6. QED
    BY <1>1, <1>2, <2>3, <2>4, <2>5
<1>9. ASSUME NEW value, MA_set_numalign(value)
      PROVE  Placed'
  <2>1. /\ DOMAIN ma_hused \cup DOMAIN ma_sused = {}
        /\ ma_hused' = ma_hused /\ ma_sused' = ma_sused
    BY <1>9 DEF MA_set_numalign
  <2>2. DOMAIN ma_hused = {} /\ DOMAIN ma_sused = {}
    BY <2>1
  <2>3. AllPlaced(ma_hused, ma_numalign')
    BY <2>2, NoneFormed
  <2>4. QED
    BY <1>1, <1>2, <2>1, <2>3
<1>10. QED
  BY <1>3, <1>4, <1>5, <1>6, <1>7, <1>8, <1>9 DEF Next

-----------------------------------------------------------------------------
(* Theorems.                                                               *)

(* The heap and the stack are laid out and the table of handles matches    *)
(* their blocks, after any sequence of calls of MA.                        *)
THEOREM Invariance == Spec => []IInv
<1>1. Init => IInv
  BY StartLaid, StartHandles DEF IInv
<1>2. IInv /\ [Next]_vars => IInv'
  <2> SUFFICES ASSUME IInv, [Next]_vars PROVE IInv'
    OBVIOUS
  <2>1. CASE Next
    <3>1. Laid'
      BY <2>1, NextLaid
    <3>2. CASE \E at : Allocates(at)
      <4>1. TableTyped' /\ HandlesMatchBlocks'
        BY <3>2, AllocatesHandle
      <4>2. QED
        BY <3>1, <4>1 DEF IInv
    <3>3. CASE \E slots, gone : Deallocates(slots, gone)
      <4>1. TableTyped' /\ HandlesMatchBlocks'
        BY <3>3, DeallocatesHandles
      <4>2. QED
        BY <3>1, <4>1 DEF IInv
    <3>4. CASE KeepsHandles
      <4>1. TableTyped' /\ HandlesMatchBlocks'
        BY <3>4, HandlesKept
      <4>2. QED
        BY <3>1, <4>1 DEF IInv
    <3>5. QED
      BY <2>1, <3>2, <3>3, <3>4, NextLaid
  <2>2. CASE UNCHANGED vars
    <3>1. /\ UNCHANGED <<segment, ma_hp, ma_sp, ma_hfree, ma_hused, ma_sused, ma_numalign>>
          /\ UNCHANGED <<table, lost>>
      BY <2>2 DEF vars
    <3>2. Laid
      BY DEF IInv
    <3>3. Typed' /\ Aligned'
      BY <3>1, <3>2 DEF Laid, Typed, Aligned, segment
    <3>4. Regions' /\ Fresh'
      BY <3>1, <3>2 DEF Laid, Regions, Fresh, segment
    <3>5. KeepsHandles
      BY <3>1 DEF KeepsHandles, Live
    <3>6. TableTyped' /\ HandlesMatchBlocks'
      BY <3>5, HandlesKept
    <3>7. QED
      BY <3>3, <3>4, <3>6 DEF IInv, Laid
  <2>3. QED
    BY <2>1, <2>2
<1>3. QED
  BY <1>1, <1>2, PTL DEF Spec

(* The variables have the shapes the code gives them.                      *)
THEOREM TypeCorrect == Spec => []TypeOK
<1>1. IInv => TypeOK
  <2> SUFFICES ASSUME IInv PROVE TypeOK
    OBVIOUS
  <2>1. Laid
    BY DEF IInv
  <2>2. /\ ma_initialized \in BOOLEAN /\ ma_segment \in Nat /\ ma_partition \in Nat /\ ma_eos \in Nat
        /\ ma_hp \in Nat /\ ma_sp \in Nat
        /\ ma_hused \in [DOMAIN ma_hused -> Used] /\ ma_sused \in [DOMAIN ma_sused -> Used]
        /\ ma_hfree \in [DOMAIN ma_hfree -> Nat \ {0}] /\ DOMAIN ma_hfree \subseteq Nat
    BY <2>1, LaidFacts
  <2>3. ASSUME NEW used, used \in [DOMAIN used -> Used], NEW a \in DOMAIN used
        PROVE  used[a].datatype \in Datatype /\ used[a].nelem \in Nat
    BY <2>3 DEF Used
  <2>4. \A used \in {ma_hused, ma_sused} : \A a \in DOMAIN used :
          used[a].datatype \in Datatype /\ used[a].nelem \in Nat
    BY <2>2, <2>3
  <2>5. ma_table_next_slot \in 0 .. Capacity
    <3>1. PICK cap : Slots(cap)
      BY TableSlots
    <3>2. QED
      BY <3>1 DEF Slots
  <2>6. QED
    BY <2>2, <2>4, <2>5 DEF TypeOK
<1>2. QED
  BY <1>1, Invariance, PTL

(* The allocator loses no byte of the segment and hands out none twice;    *)
(* what is free is merged.                                                 *)
THEOREM TilingSafety == Spec => []SegmentTiled
<1>1. IInv => SegmentTiled
  <2> SUFFICES ASSUME IInv PROVE SegmentTiled
    OBVIOUS
  <2>1. Regions
    BY DEF IInv, Laid
  <2>2. RegionsTiled
    BY <2>1 DEF Regions, Region, Lists, RegionsTiled
  <2>3. FreeListCoalesced
    BY <2>1 DEF Regions, Coalesced, FreeListCoalesced
  <2>4. QED
    BY <2>2, <2>3 DEF SegmentTiled
<1>2. QED
  BY <1>1, Invariance, PTL

(* As long as the alignment is set only while nothing is allocated, every  *)
(* handle stands for one block, and the block holds its elements.          *)
THEOREM HandleSafety ==
  ASSUME ~ AlignAnyTime
  PROVE  Spec => []HandlesSound
<1>1. Init => Placed
  <2> SUFFICES ASSUME Init PROVE Placed
    OBVIOUS
  <2>1. ma_hused = <<>> /\ ma_sused = <<>> /\ DOMAIN <<>> = {}
    BY DEF Init
  <2>2. AllFormed(<<>>) /\ AllPlaced(<<>>, ma_numalign)
    BY <2>1, NoneFormed
  <2>3. QED
    BY <2>1, <2>2 DEF Placed
<1>2. IInv /\ Placed /\ [Next]_vars => Placed'
  <2> SUFFICES ASSUME IInv, Placed, [Next]_vars PROVE Placed'
    OBVIOUS
  <2>1. CASE Next
    <3>1. Laid
      BY DEF IInv
    <3>2. QED
      BY <2>1, <3>1, NextPlaced
  <2>2. CASE UNCHANGED vars
    BY <2>2 DEF vars, Placed
  <2>3. QED
    BY <2>1, <2>2
<1>3. IInv /\ Placed => HandlesSound
  <2> SUFFICES ASSUME IInv, Placed PROVE HandlesSound
    OBVIOUS
  <2>1. BlocksWellFormed
    BY DEF Placed, AllFormed, Formed, BlocksWellFormed
  <2>2. QED
    BY <2>1 DEF IInv, HandlesSound
<1>4. QED
  BY <1>1, <1>2, <1>3, Invariance, PTL DEF Spec

-----------------------------------------------------------------------------
(* Inquiries.                                                              *)

(* A multiple of a multiple is a multiple, and so is its opposite.         *)
LEMMA MultiplesOf ==
  ASSUME NEW x \in Int, NEW m \in Nat \ {0}, NEW n \in Nat \ {0}, x % m = 0, m % n = 0
  PROVE  x % n = 0
<1> DEFINE q == x \div m
           r == m \div n
<1>1. q \in Int /\ x = m * q
  BY Division
<1>2. r \in Int /\ m = n * r
  BY Division
<1> HIDE DEF q, r
<1>3. x = n * (r * q) /\ r * q \in Int
  BY <1>1, <1>2
<1>4. QED
  BY <1>3, MultipleMod

LEMMA OppositeMod ==
  ASSUME NEW x \in Int, NEW n \in Nat \ {0}, x % n = 0
  PROVE  (- x) % n = 0
<1> DEFINE q == x \div n
<1>1. q \in Int /\ x = n * q
  BY Division
<1> HIDE DEF q
<1>2. - x = n * (- q) /\ - q \in Int
  BY <1>1
<1>3. QED
  BY <1>2, MultipleMod

(* Rounding goes to the nearest multiple.                                  *)
LEMMA RoundedUp ==
  ASSUME NEW x \in Int, NEW n \in Nat \ {0}, NEW z \in Int, z % n = 0, x <= z
  PROVE  x + ((- x) % n) <= z
<1> DEFINE u == (- x) % n
           d == z - (x + u)
           q == d \div n
<1>1. u \in 0 .. (n - 1) /\ (x + u) % n = 0
  BY Division, Rounding
<1> HIDE DEF u
<1>2. d \in Int /\ d > - n /\ d % n = 0
  <2>1. d \in Int /\ d > - n
    BY <1>1
  <2>2. x + u \in Int
    BY <1>1
  <2> DEFINE w == x + u
  <2>3. (z - w) % n = 0
    <3> HIDE DEF w
    <3>1. w \in Int /\ w % n = 0
      BY <1>1, <2>2 DEF w
    <3>2. QED
      BY <3>1, MultiplesAdd
  <2>4. QED
    BY <2>1, <2>3
<1> HIDE DEF d
<1>3. q \in Int /\ d = n * q
  BY <1>2, Division
<1> HIDE DEF q
<1>4. q >= 0
  <2>1. ASSUME q <= -1 PROVE FALSE
    <3>1. n * q <= n * (-1)
      BY <1>3, <2>1
    <3>2. QED
      BY <1>2, <1>3, <3>1
  <2>2. QED
    BY <1>3, <2>1
<1>5. d >= 0
  BY <1>3, <1>4
<1>6. QED
  BY <1>1, <1>5 DEF d, u

LEMMA RoundedDown ==
  ASSUME NEW x \in Int, NEW n \in Nat \ {0}, NEW z \in Int, z % n = 0, z <= x
  PROVE  z <= x - (x % n)
<1>1. (- z) % n = 0 /\ - z \in Int /\ - x \in Int /\ - x <= - z /\ - (- x) = x
  <2>1. (- z) % n = 0
    BY OppositeMod
  <2>2. QED
    BY <2>1
<1>2. (- x) + ((- (- x)) % n) <= - z
  BY <1>1, RoundedUp
<1>3. x % n \in Int
  BY Division
<1>4. QED
  BY <1>1, <1>2, <1>3

(* Where elements may start: at whole elements from the base array, and at *)
(* the alignment asked for if the base array is whole elements from zero.  *)
Suits(z, base, size, unit) ==
  /\ (z - base) % size = 0
  /\ base % size = 0 /\ unit % size = 0 => z % unit = 0

First(x, base, size) == x + ((base - x) % size)

Upward(x, base, size, unit) ==
  LET up == (- First(x, base, size)) % unit
  IN IF up % size = 0 THEN First(x, base, size) + up ELSE First(x, base, size)

LEMMA FirstSuits ==
  ASSUME NEW x \in Int, NEW base \in Int, NEW size \in Nat \ {0}
  PROVE  LET first == First(x, base, size)
         IN /\ first \in Int /\ x <= first /\ (first - base) % size = 0
            /\ \A z \in Int : (z - base) % size = 0 /\ x <= z => first <= z
<1> DEFINE y == x - base
           g == (- y) % size
           first == First(x, base, size)
<1>1. y \in Int /\ - y = base - x
  OBVIOUS
<1>2. first = x + g
  BY <1>1 DEF First
<1> HIDE DEF y, first
<1>3. g \in 0 .. (size - 1) /\ (y + g) % size = 0
  BY <1>1, Division, Rounding
<1>4. ASSUME NEW z \in Int, (z - base) % size = 0, x <= z PROVE y + g <= z - base
  <2>1. z - base \in Int /\ y <= z - base
    BY <1>4 DEF y
  <2>2. QED
    BY <1>1, <1>4, <2>1, RoundedUp
<1> HIDE DEF g
<1>5. first - base = y + g /\ first \in Int /\ x <= first
  BY <1>2, <1>3 DEF y
<1>6. ASSUME NEW z \in Int, (z - base) % size = 0, x <= z PROVE first <= z
  <2>1. y + g <= z - base
    BY <1>4, <1>6
  <2>2. QED
    BY <1>5, <2>1
<1>7. (first - base) % size = 0
  BY <1>3, <1>5
<1>8. QED
  BY <1>5, <1>6, <1>7 DEF first

(* balloc_after takes the first place that suits.                          *)
LEMMA UpwardLeast ==
  ASSUME NEW x \in Int, NEW base \in Int, NEW size \in Nat \ {0}, NEW unit \in Nat \ {0},
         unit % size = 0 \/ size % unit = 0
  PROVE  LET up == Upward(x, base, size, unit)
         IN /\ up \in Int /\ x <= up /\ Suits(up, base, size, unit)
            /\ \A z \in Int : Suits(z, base, size, unit) /\ x <= z => up <= z
<1> DEFINE first == First(x, base, size)
           u == (- first) % unit
<1>1. /\ first \in Int /\ x <= first /\ (first - base) % size = 0
      /\ \A z \in Int : (z - base) % size = 0 /\ x <= z => first <= z
  BY FirstSuits
<1> HIDE DEF first
<1>2. u \in 0 .. (unit - 1) /\ (first + u) % unit = 0
  BY <1>1, Division, Rounding
<1>3. ASSUME NEW z \in Int, z % unit = 0, first <= z PROVE first + u <= z
  BY <1>1, <1>3, RoundedUp
<1> HIDE DEF u
(* Up to the alignment and still whole elements from the base, just if     *)
(* the base is, too, unless there is nothing to move.                      *)
<1>4. CASE u = 0
  <2>1. Upward(x, base, size, unit) = first
    BY <1>1, <1>4 DEF Upward, first, u
  <2>2. Suits(first, base, size, unit)
    BY <1>1, <1>2, <1>4 DEF Suits
  <2>3. QED
    BY <1>1, <2>1, <2>2 DEF Suits
<1>5. CASE u # 0 /\ unit % size = 0
  <2>1. (first + u) % size = 0 /\ first + u \in Int
    <3> DEFINE a == first + u
    <3>1. a \in Int /\ a % unit = 0
      BY <1>1, <1>2
    <3> HIDE DEF a
    <3>2. a % size = 0
      BY <1>5, <3>1, MultiplesOf
    <3>3. QED
      BY <3>1, <3>2 DEF a
  <2>2. CASE base % size = 0
    <3>1. first % size = 0
      <4>1. ((first - base) + base) % size = 0
        <5> DEFINE a == first - base
        <5>1. a \in Int /\ a % size = 0
          BY <1>1
        <5> HIDE DEF a
        <5>2. (a + base) % size = 0
          BY <2>2, <5>1, MultiplesAdd
        <5>3. QED
          BY <5>2 DEF a
      <4>2. (first - base) + base = first
        BY <1>1
      <4>3. QED
        BY <4>1, <4>2
    <3>2. u % size = 0
      <4> DEFINE a == first + u
      <4>1. a \in Int /\ a % size = 0 /\ a - first = u
        BY <1>1, <1>2, <2>1
      <4> HIDE DEF a
      <4>2. QED
        BY <1>1, <3>1, <4>1, MultiplesAdd
    <3>3. Upward(x, base, size, unit) = first + u
      BY <3>2 DEF Upward, first, u
    <3>4. ((first + u) - base) % size = 0
      <4> DEFINE a == first + u
      <4>1. a \in Int /\ a % size = 0
        BY <2>1
      <4> HIDE DEF a
      <4>2. (a - base) % size = 0
        BY <2>2, <4>1, MultiplesAdd
      <4>3. QED
        BY <4>2, Zenon DEF a
    <3>5. Suits(first + u, base, size, unit)
      BY <1>2, <3>4, Zenon DEF Suits
    <3>6. ASSUME NEW z \in Int, Suits(z, base, size, unit), x <= z PROVE first + u <= z
      <4>1. z % unit = 0 /\ (z - base) % size = 0
        BY <1>5, <2>2, <3>6 DEF Suits
      <4>2. QED
        BY <1>1, <1>3, <3>6, <4>1
    <3>7. QED
      BY <1>1, <1>2, <3>3, <3>5, <3>6
  <2>3. CASE base % size # 0
    <3>1. u % size # 0
      <4> SUFFICES ASSUME u % size = 0 PROVE FALSE
        OBVIOUS
      <4> DEFINE a == first + u
                 b == first - base
      <4>1. a \in Int /\ a % size = 0 /\ a - u = first /\ b \in Int /\ b % size = 0 /\ first - b = base
        BY <1>1, <1>2, <2>1
      <4> HIDE DEF a, b
      <4>2. first % size = 0
        <5>1. u \in Int
          BY <1>2
        <5>2. (a - u) % size = 0
          BY <4>1, <5>1, MultiplesAdd
        <5>3. QED
          BY <4>1, <5>2
      <4>3. (first - b) % size = 0
        BY <1>1, <4>1, <4>2, MultiplesAdd
      <4>4. QED
        BY <2>3, <4>1, <4>3
    <3>2. Upward(x, base, size, unit) = first
      BY <3>1 DEF Upward, first, u
    <3>3. Suits(first, base, size, unit)
      BY <1>1, <2>3 DEF Suits
    <3>4. QED
      BY <1>1, <3>2, <3>3 DEF Suits
  <2>4. QED
    BY <2>2, <2>3
<1>6. CASE u # 0 /\ unit % size # 0
  <2>1. unit <= size
    <3> DEFINE q == size \div unit
    <3>1. q \in Int /\ size = unit * q
      BY <1>6, Division
    <3> HIDE DEF q
    <3>2. q >= 1
      <4>1. ASSUME q <= 0 PROVE FALSE
        <5>1. unit * q <= 0
          BY <3>1, <4>1
        <5>2. QED
          BY <3>1, <5>1
      <4>2. QED
        BY <3>1, <4>1
    <3>3. unit * q >= unit
      BY <3>1, <3>2
    <3>4. QED
      BY <3>1, <3>3
  <2>2. u % size = u
    <3>1. u \in 0 .. (size - 1)
      BY <1>2, <2>1
    <3>2. QED
      BY <3>1
  <2>3. Upward(x, base, size, unit) = first
    BY <1>6, <2>2 DEF Upward, first, u
  <2>4. Suits(first, base, size, unit)
    BY <1>1, <1>6 DEF Suits
  <2>5. QED
    BY <1>1, <2>3, <2>4 DEF Suits
<1>7. QED
  BY <1>4, <1>5, <1>6

(* Downward is upward on the other side of zero.                           *)
LEMMA OppositeSuits ==
  ASSUME NEW z \in Int, NEW base \in Int, NEW size \in Nat \ {0}, NEW unit \in Nat \ {0},
         Suits(z, base, size, unit)
  PROVE  Suits(- z, - base, size, unit)
<1> DEFINE w == z - base
<1>1. w \in Int /\ w % size = 0 /\ - w = (- z) - (- base)
  BY DEF Suits
<1> HIDE DEF w
<1>2. (- w) % size = 0
  BY <1>1, OppositeMod
<1>3. ((- z) - (- base)) % size = 0
  BY <1>1, <1>2
<1>4. ASSUME (- base) % size = 0, unit % size = 0 PROVE (- z) % unit = 0
  <2>1. - base \in Int /\ - (- base) = base
    OBVIOUS
  <2>2. (- (- base)) % size = 0
    BY <1>4, <2>1, OppositeMod
  <2>3. base % size = 0
    BY <2>1, <2>2
  <2>4. z % unit = 0
    BY <1>4, <2>3 DEF Suits
  <2>5. QED
    BY <2>4, OppositeMod
<1>5. QED
  BY <1>3, <1>4 DEF Suits

(* A block from lo fits in front of hi if its elements can start early     *)
(* enough; and a block up to hi fits behind lo if they can start late      *)
(* enough.                                                                 *)
LEMMA AfterFits ==
  ASSUME ma_numalign \in 0 .. 30, NEW d \in Datatype, NEW n \in Nat, NEW lo \in Int, NEW hi \in Int,
         lo % Alignment = 0, hi % Alignment = 0
  PROVE  balloc_after(AR(d, n), lo).nbytes <= hi - lo
           <=> Upward(lo + AdSize + GuardSize, ma_base[d], ma_sizeof[d], 2 ^ ma_numalign)
                 <= hi - GuardSize - n * ma_sizeof[d]
<1> DEFINE size == ma_sizeof[d]
           base == ma_base[d]
           len == n * size
           unit == 2 ^ ma_numalign
           x == lo + AdSize + GuardSize
           gap1 == (base - lo - AdSize - GuardSize) % size
           first == lo + AdSize + gap1 + GuardSize
           up == (- first) % unit
           client == IF up % size = 0 THEN first + up ELSE first
           gap2 == (lo - client - len - GuardSize) % Alignment
           t == balloc_after(AR(d, n), lo)
           y == client + len + GuardSize - lo
           room == hi - lo
<1>1. t.client_space = client /\ t.nbytes = client + len + GuardSize + gap2 - lo
  <2>1. t = [client_space |-> client, nbytes |-> client + len + GuardSize + gap2 - lo]
    BY Zenon DEF balloc_after, AR, Length
  <2>2. QED
    BY <2>1
<1>2. /\ size \in Nat \ {0} /\ base \in Nat
      /\ AdSize \in Nat \ {0} /\ GuardSize \in Nat /\ Alignment \in Nat \ {0}
  BY MaAssumption DEF MaAssumption
<1>3. client \in Int
  BY <1>1, BlockAfter
<1>4. len \in Nat
  <2>1. ASSUME NEW a \in Nat, NEW b \in Nat PROVE a * b \in Nat
    OBVIOUS
  <2>2. QED
    BY <1>2, <2>1
<1>5. client = Upward(x, base, size, unit)
  <2>1. base - lo - AdSize - GuardSize = base - x /\ base - x \in Int
    <3> HIDE DEF base
    <3>1. QED
      BY <1>2
  <2>2. gap1 = (base - x) % size
    BY <2>1
  <2>3. gap1 \in Int
    <3> HIDE DEF base, x, size, gap1
    <3>1. QED
      BY <1>2, <2>1, <2>2, Division
  <2>4. first = First(x, base, size)
    <3>1. lo + AdSize + gap1 + GuardSize = x + gap1
      <4> HIDE DEF gap1
      <4>1. QED
        BY <1>2, <2>3
    <3>2. QED
      BY <2>2, <3>1 DEF First
  <2> HIDE DEF first, x
  <2>5. QED
    BY <2>4, Zenon DEF Upward
<1> HIDE DEF size, base, len, unit, t, client
<1>6. y \in Int /\ - y = lo - client - len - GuardSize /\ room \in Int /\ room % Alignment = 0
  <2>1. y \in Int /\ - y = lo - client - len - GuardSize /\ room \in Int
    BY <1>2, <1>3, <1>4
  <2>2. room % Alignment = 0
    BY <1>2, MultiplesAdd
  <2>3. QED
    BY <2>1, <2>2
<1>7. gap2 = (- y) % Alignment
  BY <1>6
<1> HIDE DEF y, room
<1>8. gap2 \in Nat /\ y <= room => y + gap2 <= room
  BY <1>2, <1>6, <1>7, RoundedUp
<1>9. gap2 \in Nat
  <2> DEFINE w == - y
  <2>1. w \in Int /\ gap2 = w % Alignment
    BY <1>6, <1>7
  <2> HIDE DEF w
  <2>2. w % Alignment \in 0 .. (Alignment - 1)
    BY <1>2, <2>1, Division
  <2>3. QED
    BY <1>2, <2>1, <2>2
<1> HIDE DEF gap2
<1>10. t.nbytes = y + gap2
  BY <1>1, <1>2, <1>3, <1>4, <1>9 DEF y
<1>11. t.nbytes <= room <=> y <= room
  BY <1>6, <1>8, <1>9, <1>10
<1>12. y <= room <=> client <= hi - GuardSize - len
  BY <1>2, <1>3, <1>4 DEF y, room
<1>13. t.nbytes <= room <=> Upward(x, base, size, unit) <= hi - GuardSize - len
  BY <1>5, <1>11, <1>12
<1>14. QED
  BY <1>13 DEF t, room, x, base, size, unit, len

LEMMA BeforeFits ==
  ASSUME ma_numalign \in 0 .. 30, NEW d \in Datatype, NEW n \in Nat, NEW lo \in Int, NEW hi \in Int,
         lo % Alignment = 0, hi % Alignment = 0
  PROVE  balloc_before(AR(d, n), hi).nbytes <= hi - lo
           <=> Upward(- (hi - GuardSize - n * ma_sizeof[d]), - ma_base[d], ma_sizeof[d],
                      2 ^ ma_numalign)
                 <= - (lo + AdSize + GuardSize)
<1> DEFINE size == ma_sizeof[d]
           base == ma_base[d]
           len == n * size
           unit == 2 ^ ma_numalign
           x == - (hi - GuardSize - len)
           gap2 == (hi - GuardSize - len - base) % size
           first == hi - gap2 - GuardSize - len
           down == first % unit
           client == IF down % size = 0 THEN first - down ELSE first
           gap1 == (client - GuardSize - AdSize) % Alignment
           t == balloc_before(AR(d, n), hi)
           y == client - GuardSize - AdSize
<1>1. t.client_space = client /\ t.nbytes = hi - client + GuardSize + gap1 + AdSize
  <2>1. t = [client_space |-> client, nbytes |-> hi - client + GuardSize + gap1 + AdSize]
    BY Zenon DEF balloc_before, AR, Length
  <2>2. QED
    BY <2>1
<1>2. /\ size \in Nat \ {0} /\ base \in Nat
      /\ AdSize \in Nat \ {0} /\ GuardSize \in Nat /\ Alignment \in Nat \ {0}
  BY MaAssumption DEF MaAssumption
<1>3. client \in Int
  BY <1>1, BlockBefore
<1>4. len \in Nat
  <2>1. ASSUME NEW a \in Nat, NEW b \in Nat PROVE a * b \in Nat
    OBVIOUS
  <2>2. QED
    BY <1>2, <2>1
<1>5. - client = Upward(x, - base, size, unit)
  <2>1. hi - GuardSize - len - base = (- base) - x
    BY <1>2, <1>4
  <2>2. gap2 = ((- base) - x) % size
    BY <2>1
  <2>3. gap2 \in Int
    <3> DEFINE w == (- base) - x
    <3>1. w \in Int
      <4> HIDE DEF base, len
      <4>1. QED
        BY <1>2, <1>4
    <3>2. gap2 = w % size
      BY <2>2
    <3> HIDE DEF w, size, gap2
    <3>3. QED
      BY <1>2, <3>1, <3>2, Division
  <2>4. - first = First(x, - base, size) /\ first \in Int
    <3>1. - first = x + gap2 /\ first \in Int
      <4> HIDE DEF gap2, len
      <4>1. QED
        BY <1>2, <1>4, <2>3
    <3>2. QED
      BY <2>2, <3>1 DEF First
  <2> DEFINE f == First(x, - base, size)
             u == (- f) % unit
  <2>5. - f = first
    <3> HIDE DEF first, f
    <3>1. - first = f
      BY <2>4 DEF f
    <3>2. QED
      BY <2>4, <3>1
  <2>6. u = down
    BY <2>5
  <2>7. Upward(x, - base, size, unit) = IF u % size = 0 THEN f + u ELSE f
    BY Zenon DEF Upward
  <2>8. unit \in Nat \ {0}
    BY PowersPositive
  <2>9. down \in Int
    <3> HIDE DEF first
    <3>1. QED
      BY <2>4, <2>8, Division
  <2>10. f \in Int
    <3> HIDE DEF first, f
    <3>1. - first = f
      BY <2>4 DEF f
    <3>2. QED
      BY <2>4, <3>1
  <2> HIDE DEF first, down, f, u
  <2>11. CASE down % size = 0
    BY <2>4, <2>5, <2>6, <2>7, <2>9, <2>10, <2>11
  <2>12. CASE down % size # 0
    BY <2>4, <2>5, <2>6, <2>7, <2>10, <2>12
  <2>13. QED
    BY <2>11, <2>12
<1> HIDE DEF size, base, len, unit, t, client
<1>6. y \in Int
  BY <1>2, <1>3
<1> HIDE DEF y
<1>7. gap1 = y % Alignment
  BY DEF y
<1>8. lo <= y => lo <= y - gap1
  BY <1>2, <1>6, <1>7, RoundedDown
<1>9. gap1 \in Nat
  <2>1. y % Alignment \in 0 .. (Alignment - 1)
    BY <1>2, <1>6, Division
  <2>2. QED
    BY <1>2, <1>7, <2>1
<1> HIDE DEF gap1
<1>10. t.nbytes = hi - (y - gap1)
  BY <1>1, <1>2, <1>3, <1>4, <1>9 DEF y
<1>11. t.nbytes <= hi - lo <=> lo <= y
  BY <1>6, <1>8, <1>9, <1>10
<1>12. lo <= y <=> - client <= - (lo + AdSize + GuardSize)
  BY <1>2, <1>3, <1>4 DEF y
<1>13. t.nbytes <= hi - lo <=> Upward(x, - base, size, unit) <= - (lo + AdSize + GuardSize)
  BY <1>5, <1>11, <1>12
<1>14. QED
  BY <1>13 DEF t, x, base, size, unit, len

(* Between two boundaries a block fits from the front just if it fits from *)
(* the back: either way, if there is a place between that suits.           *)
LEMMA EitherEnd ==
  ASSUME ma_numalign \in 0 .. 30, NEW d \in Datatype, NEW n \in Nat, NEW lo \in Int, NEW hi \in Int,
         lo % Alignment = 0, hi % Alignment = 0,
         (2 ^ ma_numalign) % ma_sizeof[d] = 0 \/ ma_sizeof[d] % (2 ^ ma_numalign) = 0
  PROVE  balloc_after(AR(d, n), lo).nbytes <= hi - lo
           <=> balloc_before(AR(d, n), hi).nbytes <= hi - lo
<1> DEFINE size == ma_sizeof[d]
           base == ma_base[d]
           unit == 2 ^ ma_numalign
           x == lo + AdSize + GuardSize
           y == hi - GuardSize - n * size
           a == Upward(x, base, size, unit)
           b == Upward(- y, - base, size, unit)
<1>1. /\ size \in Nat \ {0} /\ base \in Nat /\ AdSize \in Nat \ {0} /\ GuardSize \in Nat
      /\ unit \in Nat \ {0}
  BY PowersPositive, MaAssumption DEF MaAssumption
<1>2. x \in Int /\ y \in Int
  <2>1. n * size \in Int
    BY <1>1
  <2>2. QED
    BY <1>1, <2>1
<1>3. unit % size = 0 \/ size % unit = 0
  OBVIOUS
<1>4. balloc_after(AR(d, n), lo).nbytes <= hi - lo <=> a <= y
  BY AfterFits
<1>5. balloc_before(AR(d, n), hi).nbytes <= hi - lo <=> b <= - x
  BY BeforeFits
<1> HIDE DEF size, base, unit, x, y
<1>6. /\ a \in Int /\ x <= a /\ Suits(a, base, size, unit)
      /\ \A z \in Int : Suits(z, base, size, unit) /\ x <= z => a <= z
  <2>1. base \in Int
    BY <1>1
  <2>2. QED
    BY <1>1, <1>2, <1>3, <2>1, UpwardLeast
<1>7. /\ b \in Int /\ - y <= b /\ Suits(b, - base, size, unit)
      /\ \A z \in Int : Suits(z, - base, size, unit) /\ - y <= z => b <= z
  <2>1. - y \in Int /\ - base \in Int
    BY <1>1, <1>2
  <2>2. QED
    BY <1>1, <1>3, <2>1, UpwardLeast
<1> HIDE DEF a, b
<1>8. Suits(- a, - base, size, unit)
  BY <1>1, <1>6, OppositeSuits
<1>9. Suits(- b, base, size, unit)
  <2>1. - base \in Int /\ - (- base) = base
    BY <1>1
  <2>2. Suits(- b, - (- base), size, unit)
    BY <1>1, <1>7, <2>1, OppositeSuits
  <2>3. QED
    BY <2>1, <2>2
<1>10. a <= y => b <= - a
  <2>1. a <= y => - y <= - a
    BY <1>2, <1>6
  <2>2. - a \in Int
    BY <1>6
  <2>3. QED
    BY <1>7, <1>8, <2>1, <2>2
<1>11. b <= - x => a <= - b
  <2>1. b <= - x => x <= - b
    BY <1>2, <1>7
  <2>2. - b \in Int
    BY <1>7
  <2>3. QED
    BY <1>6, <1>9, <2>1, <2>2
<1>12. a <= y <=> b <= - x
  BY <1>2, <1>6, <1>7, <1>10, <1>11
<1>13. QED
  BY <1>4, <1>5, <1>12

(* ma_nelem counts down to the most elements for which there is room.      *)
LEMMA NelemMost ==
  ASSUME ma_numalign \in 0 .. 30, NEW d \in Datatype, NEW address \in Int, NEW length \in Nat
  PROVE  LET n == ma_nelem(address, length, d)
         IN /\ n \in Nat /\ n <= length
            /\ n # 0 => balloc_after(AR(d, n), address).nbytes <= length
            /\ balloc_after(AR(d, n + 1), address).nbytes > length
<1> DEFINE size == ma_sizeof[d]
           over == BlockOverheadFixed
           bytes(n) == balloc_after(AR(d, n), address).nbytes
           Fits(n) == n = 0 \/ bytes(n) <= length
           nelem == ma_nelem(address, length, d)
<1>1. size \in Nat \ {0} /\ AdSize \in Nat \ {0} /\ GuardSize \in Nat /\ over \in Nat \ {0}
  BY MaAssumption DEF MaAssumption, BlockOverheadFixed
<1>2. ASSUME NEW n \in Nat PROVE bytes(n) \in Nat /\ bytes(n) >= n * size + over
  <2> DEFINE t == balloc_after(AR(d, n), address)
  <2>1. /\ t.client_space \in Int /\ t.nbytes \in Nat \ {0}
        /\ address + AdSize + GuardSize <= t.client_space
        /\ t.client_space + n * ma_sizeof[d] + GuardSize <= address + t.nbytes
    BY BlockAfter
  <2>2. over = AdSize + 2 * GuardSize
    BY DEF BlockOverheadFixed
  <2>3. n * size \in Int
    BY <1>1
  <2> HIDE DEF t, over, size
  <2>4. t.nbytes >= n * size + over
    BY <1>1, <2>1, <2>2, <2>3 DEF size
  <2>5. QED
    BY <2>1, <2>4 DEF t
<1>3. CASE length <= over
  <2>1. nelem = 0
    BY <1>3 DEF ma_nelem
  <2>2. bytes(0 + 1) > length
    <3>1. bytes(1) \in Nat /\ bytes(1) >= 1 * size + over
      BY <1>2
    <3> HIDE DEF size, over, bytes
    <3>2. bytes(1) > length
      BY <1>1, <1>3, <3>1
    <3>3. QED
      BY <3>2
  <2>3. QED
    BY <2>1, <2>2
<1>4. CASE ~ (length <= over)
  <2> DEFINE rest == length - over
             most == rest \div size
             K == {k \in 0 .. most : Fits(most - k)}
             last == CHOOSE k \in 0 .. most :
                       Fits(most - k) /\ \A j \in 0 .. (k - 1) : ~ Fits(most - j)
  <2>1. nelem = most - last
    BY <1>4, Zenon DEF ma_nelem
  <2>2. rest \in Nat
    <3> HIDE DEF over
    <3>1. QED
      BY <1>1, <1>4
  <2> HIDE DEF nelem, over, size, bytes, rest
  <2>3. most \in Int /\ rest % size \in 0 .. (size - 1) /\ rest = size * most + (rest % size)
    BY <1>1, <2>2, Division
  <2> HIDE DEF most
  <2> DEFINE r == rest % size
  <2>4. r \in 0 .. (size - 1) /\ rest = size * most + r
    BY <2>3
  <2> HIDE DEF r
  <2>5. most \in Nat
    <3>1. ASSUME most <= -1 PROVE FALSE
      <4> DEFINE p == size * most
      <4>1. p \in Int /\ p <= - size
        BY <1>1, <2>3, <3>1
      <4>2. rest = p + r
        BY <2>4
      <4> HIDE DEF p
      <4>3. QED
        BY <1>1, <2>2, <2>4, <4>1, <4>2
    <3>2. QED
      BY <2>3, <3>1
  <2>6. most <= rest /\ rest < (most + 1) * size
    <3>1. size * most >= most /\ (most + 1) * size = size * most + size
      BY <1>1, <2>5
    <3>2. QED
      BY <1>1, <2>2, <2>4, <2>5, <3>1
  <2>7. Min(K) \in K /\ \A k \in K : Min(K) <= k
    <3>1. K \subseteq Int /\ \A k \in K : 0 <= k
      BY <2>5
    <3>2. most \in K
      BY <2>5
    <3> HIDE DEF K
    <3>3. K # {} /\ 0 \in Int
      BY <3>2
    <3>4. QED
      BY <3>1, <3>3, MinExists, Zenon
  <2>8. last \in 0 .. most /\ Fits(most - last) /\ \A j \in 0 .. (last - 1) : ~ Fits(most - j)
    <3> DEFINE Counted(k) == Fits(most - k) /\ \A j \in 0 .. (k - 1) : ~ Fits(most - j)
               m == Min(K)
    <3>1. m \in 0 .. most /\ Fits(most - m)
      BY <2>7
    <3>2. ASSUME NEW j \in 0 .. (m - 1) PROVE ~ Fits(most - j)
      <4>1. j \in 0 .. most /\ ~ (m <= j)
        BY <2>5, <3>1
      <4>2. j \notin K
        BY <2>7, <4>1
      <4>3. QED
        BY <4>1, <4>2
    <3>3. Counted(m)
      BY <3>1, <3>2
    <3> HIDE DEF m, K, Fits
    <3>4. \E k \in 0 .. most : Counted(k)
      BY <3>1, <3>3
    <3>5. Counted(last)
      BY <3>4
    <3>6. last \in 0 .. most
      BY <3>4
    <3>7. QED
      BY <3>5, <3>6
  <2> HIDE DEF last
  <2>9. nelem \in Nat /\ nelem <= length
    BY <1>1, <2>1, <2>2, <2>5, <2>6, <2>8 DEF rest
  <2>10. nelem # 0 => bytes(nelem) <= length
    BY <2>1, <2>8
  <2>11. bytes(nelem + 1) > length
    <3>1. bytes(nelem + 1) \in Nat /\ bytes(nelem + 1) >= (nelem + 1) * size + over
      BY <1>2, <2>9
    <3>2. CASE last = 0
      <4>1. nelem = most
        BY <2>1, <2>5, <3>2
      <4>2. (most + 1) * size + over > length /\ (most + 1) * size \in Int
        BY <1>1, <2>2, <2>5, <2>6 DEF rest
      <4>3. QED
        BY <1>1, <3>1, <4>1, <4>2
    <3>3. CASE last # 0
      <4>1. last - 1 \in 0 .. (last - 1) /\ most - (last - 1) = nelem + 1
        BY <2>1, <2>5, <2>8, <3>3
      <4>2. ~ Fits(nelem + 1)
        BY <2>8, <4>1
      <4>3. QED
        BY <2>9, <3>1, <4>2
    <3>4. QED
      BY <3>2, <3>3
  <2>12. QED
    BY <2>9, <2>10, <2>11 DEF bytes, nelem
<1>5. QED
  BY <1>3, <1>4

(* The smaller of two, and the larger.                                     *)
LEMMA PairBounds ==
  ASSUME NEW x \in Int, NEW y \in Int
  PROVE  /\ Min({x, y}) \in {x, y} /\ Min({x, y}) <= x /\ Min({x, y}) <= y
         /\ Max({x, y}) \in {x, y}
<1> DEFINE S == {x, y}
<1>1. PICK lo \in S : \A z \in S : lo <= z
  OBVIOUS
<1>2. PICK hi \in S : \A z \in S : z <= hi
  OBVIOUS
<1>3. S \subseteq Int /\ S # {} /\ lo \in Int /\ hi \in Int
  OBVIOUS
<1> HIDE DEF S
<1>4. Min(S) \in S /\ (\A z \in S : Min(S) <= z) /\ Max(S) \in S
  BY <1>1, <1>2, <1>3, MinExists, MaxExists
<1>5. QED
  BY <1>4 DEF S

(* What the inquiries rest on: the boundaries are aligned and the segment  *)
(* is addressable.                                                         *)
Divided ==
  /\ ma_numalign \in NumAligns \cup {0}
  /\ ma_initialized =>
       /\ ma_partition % Alignment = 0 /\ ma_eos % Alignment = 0
       /\ ma_eos - ma_segment < SizeMod

LEMMA NextDivided ==
  ASSUME Addressable, Divided, Next
  PROVE  Divided'
<1>1. ASSUME NEW args \in InitArgs, NEW address \in Segments, MA_init(args, address)
      PROVE  Divided'
  <2> DEFINE h == RegionBytes(args.heap, args.datatype)
             s == RegionBytes(args.stack, args.datatype)
  <2>1. args.datatype \in Datatype /\ args.heap \in Int /\ args.stack \in Int
    BY MaAssumption DEF MaAssumption
  <2>2. h \in Nat /\ h % Alignment = 0 /\ s \in Nat /\ s % Alignment = 0
    BY <2>1, RegionBytesPositive
  <2>3. /\ address \in Nat /\ address % Alignment = 0 /\ Alignment \in Nat \ {0}
        /\ SizeMod \in Nat \ {0}
    BY MaAssumption DEF MaAssumption
  <2>4. h + s < SizeMod
    BY DEF Addressable
  <2>5. /\ ma_segment' = address /\ ma_partition' = address + h /\ ma_eos' = address + h + s
        /\ ma_numalign' = ma_numalign
    BY <1>1 DEF MA_init
  <2> HIDE DEF h, s
  <2> DEFINE x == address + h
  <2>6. x \in Int /\ x % Alignment = 0
    <3>1. address \in Int /\ h \in Int
      BY <2>2, <2>3
    <3>2. x % Alignment = 0
      BY <2>2, <2>3, <3>1, MultiplesAdd
    <3>3. QED
      BY <3>1, <3>2
  <2>7. (x + s) % Alignment = 0
    <3> HIDE DEF x
    <3>1. s \in Int
      BY <2>2
    <3>2. QED
      BY <2>2, <2>3, <2>6, <3>1, MultiplesAdd
  <2>8. ma_eos' - ma_segment' < SizeMod
    BY <2>2, <2>3, <2>4, <2>5
  <2>9. QED
    BY <2>5, <2>6, <2>7, <2>8 DEF Divided
<1>2. ASSUME NEW value \in NumAligns, MA_set_numalign(value) PROVE Divided'
  BY <1>2 DEF MA_set_numalign, Divided, segment
<1>3. ASSUME UNCHANGED <<segment, ma_numalign>> PROVE Divided'
  BY <1>3 DEF Divided, segment
<1>4. ASSUME NEW ar, MA_allocate_heap(ar) \/ MA_push_stack(ar) PROVE Divided'
  BY <1>3, <1>4 DEF MA_allocate_heap, AllocateFromFree, AllocateFromGap, MA_push_stack
<1>5. ASSUME NEW h, MA_free_heap(h) \/ MA_pop_stack(h) \/ MA_chop_stack(h) PROVE Divided'
  BY <1>3, <1>5 DEF MA_free_heap, MA_pop_stack, MA_chop_stack
<1>6. ASSUME NEW h, NEW n, MA_free_heap_piece(h, n) PROVE Divided'
  BY <1>3, <1>6 DEF MA_free_heap_piece
<1>7. QED
  BY <1>1, <1>2, <1>4, <1>5, <1>6 DEF Next

(* What an inquiry can rely on.                                            *)
LEMMA Boundaries ==
  ASSUME PowersOfTwo, IInv, Divided, ma_initialized, NEW d \in Datatype
  PROVE  /\ ma_numalign \in 0 .. 30
         /\ ma_hp \in Nat /\ ma_sp \in Nat /\ ma_partition \in Nat /\ ma_hp <= ma_sp
         /\ ma_hp % Alignment = 0 /\ ma_sp % Alignment = 0 /\ ma_partition % Alignment = 0
         /\ ma_sp - ma_hp < SizeMod /\ SizeMod \in Nat \ {0}
         /\ ma_hfree \in [DOMAIN ma_hfree -> Nat \ {0}] /\ DOMAIN ma_hfree \subseteq Nat
         /\ \A a \in DOMAIN ma_hfree : ma_hfree[a] <= ma_hp
         /\ (2 ^ ma_numalign) % ma_sizeof[d] = 0 \/ ma_sizeof[d] % (2 ^ ma_numalign) = 0
<1>1. /\ ma_segment \in Nat /\ ma_partition \in Nat /\ ma_eos \in Nat
      /\ ma_hp \in Nat /\ ma_sp \in Nat /\ ma_numalign \in 0 .. 30
      /\ ma_segment <= ma_hp /\ ma_hp <= ma_sp /\ ma_sp <= ma_eos
      /\ ma_hfree \in [DOMAIN ma_hfree -> Nat \ {0}] /\ DOMAIN ma_hfree \subseteq Nat
      /\ DOMAIN ma_hused \intersect DOMAIN ma_hfree = {}
      /\ Region(ma_hused, ma_hfree, ma_segment, ma_hp)
      /\ Region(ma_sused, <<>>, ma_sp, ma_eos)
      /\ ma_hp % Alignment = 0
      /\ \A a \in DOMAIN ma_hused \cup DOMAIN ma_hfree \cup DOMAIN ma_sused : a % Alignment = 0
  BY LaidFacts DEF IInv
<1>2. /\ ma_partition % Alignment = 0 /\ ma_eos % Alignment = 0
      /\ ma_eos - ma_segment < SizeMod /\ ma_numalign \in NumAligns \cup {0}
  BY DEF Divided
<1>3. SizeMod \in Nat \ {0}
  BY MaAssumption DEF MaAssumption
<1>4. ma_sp - ma_hp < SizeMod
  BY <1>1, <1>2, <1>3
<1>5. ma_sp % Alignment = 0
  <2>1. ma_sp # ma_eos => ma_sp \in DOMAIN Ends(ma_sused, <<>>)
    BY <1>1 DEF Region, Tile
  <2>2. DOMAIN Ends(ma_sused, <<>>) = DOMAIN ma_sused
    <3>1. DOMAIN <<>> = {}
      OBVIOUS
    <3>2. QED
      BY <3>1 DEF Ends
  <2>3. QED
    BY <1>1, <1>2, <2>1, <2>2
<1>6. ASSUME NEW a \in DOMAIN ma_hfree PROVE ma_hfree[a] <= ma_hp
  <2> DEFINE E == Ends(ma_hused, ma_hfree)
  <2>1. a \in DOMAIN E /\ E[a] = a + ma_hfree[a]
    BY <1>1 DEF Ends
  <2> HIDE DEF E
  <2>2. E[a] <= ma_hp
    BY <1>1, <2>1 DEF Region, Tile, E
  <2>3. a \in Nat /\ ma_hfree[a] \in Nat
    BY <1>1
  <2>4. QED
    BY <1>1, <2>1, <2>2, <2>3
<1>7. (2 ^ ma_numalign) % ma_sizeof[d] = 0 \/ ma_sizeof[d] % (2 ^ ma_numalign) = 0
  <2>1. ma_numalign \in (NumAligns \intersect 0 .. 30) \union {0}
    BY <1>1, <1>2
  <2>2. QED
    BY <2>1 DEF PowersOfTwo
<1>8. QED
  BY <1>1, <1>2, <1>3, <1>4, <1>5, <1>6, <1>7

(* A difference that is not negative stays what it is or gets smaller.     *)
LEMMA SizeTBounds ==
  ASSUME NEW x \in Int
  PROVE  SizeT(x) \in Nat /\ (x >= 0 => SizeT(x) <= x) /\ (x >= 0 /\ x < SizeMod => SizeT(x) = x)
<1>1. SizeMod \in Nat \ {0}
  BY MaAssumption DEF MaAssumption
<1>2. SizeT(x) \in 0 .. (SizeMod - 1)
  BY <1>1, Division DEF SizeT
<1>3. CASE x < SizeMod /\ x >= 0
  BY <1>1, <1>3 DEF SizeT
<1>4. CASE x >= SizeMod
  BY <1>1, <1>2, <1>4
<1>5. QED
  BY <1>1, <1>2, <1>3, <1>4

(* What fits behind the heap can be allocated.                             *)
LEMMA GapGood ==
  ASSUME PowersOfTwo, IInv, Divided, ma_initialized, NEW d \in Datatype,
         NEW length \in Nat, length <= ma_sp - ma_hp
  PROVE  /\ ma_nelem(ma_hp, length, d) \in Nat
         /\ Allocatable(d, ma_nelem(ma_hp, length, d))
<1> DEFINE n == ma_nelem(ma_hp, length, d)
           bytes == balloc_after(AR(d, n), ma_hp).nbytes
<1>1. ma_numalign \in 0 .. 30 /\ ma_hp \in Nat /\ ma_sp \in Nat
  BY Boundaries
<1>2. n \in Nat /\ (n # 0 => bytes <= length)
  BY <1>1, NelemMost
<1>3. bytes \in Nat
  <2> HIDE DEF n
  <2>1. QED
    BY <1>1, <1>2, BlockAfter
<1> HIDE DEF bytes
<1>4. n # 0 => ma_hp + bytes <= ma_sp
  BY <1>1, <1>2, <1>3
<1> HIDE DEF n
<1>5. Allocatable(d, n)
  BY <1>4 DEF Allocatable, CanAllocate, bytes
<1>6. QED
  BY <1>2, <1>5 DEF n

(* And what fits in a free block, too.                                     *)
LEMMA FragmentsGood ==
  ASSUME PowersOfTwo, IInv, Divided, ma_initialized, NEW d \in Datatype,
         NEW gap \in Nat, Allocatable(d, gap)
  PROVE  Allocatable(d, WithFragments(d, gap))
<1> DEFINE min_bytes == gap * ma_sizeof[d] + BlockOverheadFixed
           Bytes(at) == Min({ma_hfree[at], ma_partition - at})
           frags == {at \in DOMAIN ma_hfree : at < ma_partition /\ Bytes(at) >= min_bytes}
           found == {ma_nelem(at, Bytes(at), d) : at \in frags}
           S == {0} \union found
           f == ma_max_heap_frag_nelem(d, gap)
<1>1. /\ ma_numalign \in 0 .. 30 /\ ma_hp \in Nat /\ ma_partition \in Nat
      /\ ma_hfree \in [DOMAIN ma_hfree -> Nat \ {0}] /\ DOMAIN ma_hfree \subseteq Nat
      /\ \A a \in DOMAIN ma_hfree : ma_hfree[a] <= ma_hp
  BY Boundaries
<1>2. ASSUME NEW at \in DOMAIN ma_hfree, at < ma_partition
      PROVE  Bytes(at) \in Nat /\ Bytes(at) <= ma_hfree[at]
  <2> DEFINE a == ma_hfree[at]
             b == ma_partition - at
  <2>1. a \in Nat /\ b \in Nat /\ a \in Int /\ b \in Int
    BY <1>1, <1>2
  <2> HIDE DEF a, b
  <2>2. Min({a, b}) \in {a, b} /\ Min({a, b}) <= a
    BY <2>1, PairBounds
  <2>3. Min({a, b}) \in Nat
    BY <2>1, <2>2
  <2>4. QED
    BY <2>2, <2>3 DEF a, b
<1>3. f = Max(S)
  BY Zenon DEF ma_max_heap_frag_nelem
<1> HIDE DEF min_bytes, Bytes, f
<1>4. ASSUME NEW at \in frags
      PROVE  LET n == ma_nelem(at, Bytes(at), d) IN n \in Nat /\ n <= ma_hp /\ Allocatable(d, n)
  <2> DEFINE n == ma_nelem(at, Bytes(at), d)
             t == balloc_after(AR(d, n), at)
  <2>1. /\ at \in DOMAIN ma_hfree /\ at \in Int /\ Bytes(at) \in Nat
        /\ Bytes(at) <= ma_hfree[at] /\ ma_hfree[at] \in Nat /\ ma_hfree[at] <= ma_hp
    BY <1>1, <1>2
  <2>2. n \in Nat /\ n <= Bytes(at) /\ (n # 0 => t.nbytes <= Bytes(at))
    BY <1>1, <2>1, NelemMost
  <2> HIDE DEF n
  <2>3. t.nbytes \in Nat
    BY <1>1, <2>1, <2>2, BlockAfter
  <2> HIDE DEF t
  <2>4. n # 0 => t.nbytes <= ma_hfree[at]
    BY <2>1, <2>2, <2>3
  <2>5. n # 0 => ad_big_enough(at, AR(d, n))
    BY <2>4 DEF ad_big_enough, t
  <2>6. Allocatable(d, n)
    BY <2>1, <2>5 DEF Allocatable, CanAllocate
  <2>7. n \in Nat /\ n <= ma_hp
    BY <1>1, <2>1, <2>2
  <2>8. QED
    BY <2>6, <2>7 DEF n
<1> HIDE DEF frags
<1>5. \A n \in S : n \in Nat /\ 0 <= n /\ n <= ma_hp /\ Allocatable(d, n)
  BY <1>1, <1>4 DEF Allocatable
<1>6. f \in S
  <2>1. S \subseteq Int /\ S # {} /\ 0 \in Int /\ ma_hp \in Int
    BY <1>1, <1>5
  <2>2. \A n \in S : 0 <= n /\ n <= ma_hp
    BY <1>5
  <2> HIDE DEF S
  <2>3. Max(S) \in S
    BY <2>1, <2>2, MaxExists, Zenon
  <2>4. QED
    BY <1>3, <2>3
<1>7. f \in Int /\ Allocatable(d, f)
  BY <1>5, <1>6
<1>8. Max({gap, f}) \in {gap, f}
  BY <1>7, PairBounds
<1>9. WithFragments(d, gap) = Max({gap, f})
  BY Zenon DEF WithFragments, f
<1>10. QED
  BY <1>7, <1>8, <1>9

(* What fits between the partition and the stack can be pushed.            *)
LEMMA StackGood ==
  ASSUME PowersOfTwo, IInv, Divided, ma_initialized, NEW d \in Datatype,
         ma_hp <= ma_partition, ma_partition <= ma_sp,
         NEW length \in Nat, length <= ma_sp - ma_partition
  PROVE  Pushable(d, ma_nelem(ma_partition, length, d))
<1> DEFINE n == ma_nelem(ma_partition, length, d)
           after == balloc_after(AR(d, n), ma_partition).nbytes
           before == balloc_before(AR(d, n), ma_sp).nbytes
<1>1. /\ ma_numalign \in 0 .. 30 /\ ma_hp \in Nat /\ ma_sp \in Nat /\ ma_partition \in Nat
      /\ ma_sp % Alignment = 0 /\ ma_partition % Alignment = 0
      /\ (2 ^ ma_numalign) % ma_sizeof[d] = 0 \/ ma_sizeof[d] % (2 ^ ma_numalign) = 0
  BY Boundaries
<1>2. n \in Nat /\ (n # 0 => after <= length)
  BY <1>1, NelemMost
<1> HIDE DEF n
<1>3. after \in Nat /\ before \in Nat
  BY <1>1, <1>2, BlockAfter, BlockBefore
<1>4. after <= ma_sp - ma_partition <=> before <= ma_sp - ma_partition
  BY <1>1, <1>2, EitherEnd
<1> HIDE DEF after, before
<1>5. n # 0 => before <= ma_sp - ma_hp
  BY <1>1, <1>2, <1>3, <1>4
<1>6. QED
  BY <1>5 DEF Pushable, CanPush, before, n

(* What MA_inquire_avail says can be had at either end, and no more.       *)
LEMMA AvailGood ==
  ASSUME PowersOfTwo, IInv, Divided, ma_initialized, NEW d \in Datatype
  PROVE  LET avail == MA_inquire_avail(d)
         IN avail \in Nat /\ Allocatable(d, avail) /\ Pushable(d, avail) /\ ~ CanPush(d, avail + 1)
<1> DEFINE n == ma_nelem(ma_hp, ma_sp - ma_hp, d)
           after(k) == balloc_after(AR(d, k), ma_hp).nbytes
           before(k) == balloc_before(AR(d, k), ma_sp).nbytes
<1>1. /\ ma_numalign \in 0 .. 30 /\ ma_hp \in Nat /\ ma_sp \in Nat /\ ma_hp <= ma_sp
      /\ ma_sp - ma_hp < SizeMod /\ ma_hp % Alignment = 0 /\ ma_sp % Alignment = 0
      /\ (2 ^ ma_numalign) % ma_sizeof[d] = 0 \/ ma_sizeof[d] % (2 ^ ma_numalign) = 0
  BY Boundaries
<1>2. ma_sp - ma_hp \in Nat /\ ma_sp - ma_hp \in Int /\ SizeT(ma_sp - ma_hp) = ma_sp - ma_hp
  BY <1>1, SizeTBounds
<1>3. MA_inquire_avail(d) = n
  BY <1>2 DEF MA_inquire_avail
<1>4. /\ n \in Nat /\ (n # 0 => after(n) <= ma_sp - ma_hp)
      /\ after(n + 1) > ma_sp - ma_hp
  BY <1>1, <1>2, NelemMost
<1>5. Allocatable(d, n)
  BY <1>1, <1>2, GapGood
<1> HIDE DEF n
<1>6. ASSUME NEW k \in Nat PROVE after(k) <= ma_sp - ma_hp <=> before(k) <= ma_sp - ma_hp
  BY <1>1, EitherEnd
<1>7. after(n + 1) \in Nat /\ n + 1 \in Nat
  <2>1. n + 1 \in Nat
    BY <1>4
  <2>2. QED
    BY <1>1, <2>1, BlockAfter
<1> HIDE DEF after, before
<1>8. Pushable(d, n)
  BY <1>4, <1>6 DEF Pushable, CanPush, before
<1>9. ~ (before(n + 1) <= ma_sp - ma_hp)
  BY <1>2, <1>4, <1>6, <1>7
<1>10. ~ CanPush(d, n + 1)
  BY <1>9 DEF CanPush, before
<1>11. QED
  BY <1>3, <1>4, <1>5, <1>8, <1>10

(* What the inquiries promise can be had, on every machine that has sizes  *)
(* and alignments of which one divides the other and addresses for the     *)
(* segment: the two ends of the gap agree on what fits, and the fragments  *)
(* of the heap count only as far as they are free.                         *)
THEOREM InquirySafety ==
  ASSUME PowersOfTwo, Addressable
  PROVE  Spec => []InquiriesHold
<1>1. Init => Divided
  BY DEF Init, Divided
<1>2. Divided /\ [Next]_vars => Divided'
  <2>1. ASSUME Divided, UNCHANGED vars PROVE Divided'
    BY <2>1 DEF Divided, vars, segment
  <2>2. QED
    BY <2>1, NextDivided
<1>3. IInv /\ Divided => InquiriesHold
  <2> SUFFICES ASSUME IInv, Divided, ma_initialized, NEW d \in Datatype
               PROVE  /\ Allocatable(d, MA_inquire_avail(d)) /\ Pushable(d, MA_inquire_avail(d))
                      /\ ~ CanPush(d, MA_inquire_avail(d) + 1)
                      /\ Allocatable(d, MA_inquire_heap_check_stack(d))
                      /\ Allocatable(d, MA_inquire_heap_no_partition(d))
                      /\ ma_sp >= ma_partition => Allocatable(d, MA_inquire_heap(d))
                      /\ ma_hp <= ma_partition /\ ma_partition <= ma_sp =>
                           /\ Pushable(d, MA_inquire_stack(d))
                           /\ Pushable(d, MA_inquire_stack_check_heap(d))
    BY Zenon DEF InquiriesHold
  <2> DEFINE toheap == SizeT(ma_partition - ma_hp)
             tostack == SizeT(ma_sp - ma_partition)
             between == SizeT(ma_sp - ma_hp)
  <2>1. ma_hp \in Nat /\ ma_sp \in Nat /\ ma_partition \in Nat /\ ma_hp <= ma_sp
    BY Boundaries
  <2>2. /\ toheap \in Nat /\ tostack \in Nat /\ between \in Nat
        /\ between <= ma_sp - ma_hp
        /\ ma_partition >= ma_hp => toheap <= ma_partition - ma_hp
        /\ ma_sp >= ma_partition => tostack <= ma_sp - ma_partition
    BY <2>1, SizeTBounds
  <2> HIDE DEF toheap, tostack, between
  <2>3. /\ MA_inquire_avail(d) \in Nat /\ Allocatable(d, MA_inquire_avail(d))
        /\ Pushable(d, MA_inquire_avail(d)) /\ ~ CanPush(d, MA_inquire_avail(d) + 1)
    BY AvailGood
  <2>4. Allocatable(d, MA_inquire_heap_no_partition(d))
    BY <2>3, FragmentsGood DEF MA_inquire_heap_no_partition
  <2>5. Allocatable(d, MA_inquire_heap_check_stack(d))
    <3> DEFINE gap == Min({toheap, between})
    <3>1. gap \in Nat /\ gap <= ma_sp - ma_hp
      <4>1. gap \in {toheap, between} /\ gap <= between
        <5>1. toheap \in Int /\ between \in Int
          BY <2>2
        <5>2. QED
          BY <5>1, PairBounds
      <4> HIDE DEF gap
      <4>2. QED
        BY <2>1, <2>2, <4>1
    <3>2. MA_inquire_heap_check_stack(d) = WithFragments(d, ma_nelem(ma_hp, gap, d))
      BY Zenon DEF MA_inquire_heap_check_stack, toheap, between
    <3> HIDE DEF gap
    <3>3. QED
      BY <3>1, <3>2, GapGood, FragmentsGood
  <2>6. ma_sp >= ma_partition => Allocatable(d, MA_inquire_heap(d))
    <3> SUFFICES ASSUME ma_sp >= ma_partition PROVE Allocatable(d, MA_inquire_heap(d))
      OBVIOUS
    <3> DEFINE gap == IF ma_partition > ma_hp THEN ma_nelem(ma_hp, toheap, d) ELSE 0
    <3>1. gap \in Nat /\ Allocatable(d, gap)
      <4>1. CASE ma_partition > ma_hp
        <5>1. toheap <= ma_sp - ma_hp
          BY <2>1, <2>2, <4>1
        <5>2. QED
          BY <2>2, <4>1, <5>1, GapGood
      <4>2. CASE ~ (ma_partition > ma_hp)
        BY <4>2 DEF Allocatable
      <4>3. QED
        BY <4>1, <4>2
    <3>2. MA_inquire_heap(d) = WithFragments(d, gap)
      BY Zenon DEF MA_inquire_heap, toheap
    <3> HIDE DEF gap
    <3>3. QED
      BY <3>1, <3>2, FragmentsGood
  <2>7. ASSUME ma_hp <= ma_partition, ma_partition <= ma_sp
        PROVE  Pushable(d, MA_inquire_stack(d)) /\ Pushable(d, MA_inquire_stack_check_heap(d))
    <3> DEFINE gap == Min({tostack, between})
    <3>1. tostack <= ma_sp - ma_partition
      BY <2>1, <2>2, <2>7
    <3>2. Pushable(d, MA_inquire_stack(d))
      BY <2>2, <2>7, <3>1, StackGood DEF MA_inquire_stack, tostack
    <3>3. gap \in Nat /\ gap <= ma_sp - ma_partition
      <4>1. gap \in {tostack, between} /\ gap <= tostack
        <5>1. tostack \in Int /\ between \in Int
          BY <2>2
        <5>2. QED
          BY <5>1, PairBounds
      <4> HIDE DEF gap
      <4>2. QED
        BY <2>1, <2>2, <3>1, <4>1
    <3>4. MA_inquire_stack_check_heap(d) = ma_nelem(ma_partition, gap, d)
      BY Zenon DEF MA_inquire_stack_check_heap, tostack, between
    <3> HIDE DEF gap
    <3>5. QED
      BY <2>7, <3>2, <3>3, <3>4, StackGood
  <2>8. QED
    BY <2>3, <2>4, <2>5, <2>6, <2>7
<1>4. QED
  BY <1>1, <1>2, <1>3, Invariance, PTL DEF Spec
=============================================================================
