------------------------- MODULE ProgressRanksProofs -------------------------
(***************************************************************************)
(* Proofs about the division of the ranks of a job into workers and        *)
(* progress ranks, for any number of ranks, nodes and progress ranks per   *)
(* node.                                                                   *)
(***************************************************************************)
EXTENDS ProgressRanks, FiniteSetTheorems, WellFoundedInduction, TLAPS

-----------------------------------------------------------------------------
(* The division of the ranks.                                              *)

(* A set of numbers has a least element.                                   *)
LEMMA LeastElement ==
  ASSUME NEW T, T \subseteq Nat, T # {}
  PROVE  \E x \in T : \A y \in T : x <= y
<1>1. \E x \in T : \A y \in T : ~(<<y, x>> \in OpToRel(<, Nat))
  BY NatLessThanWellFounded, WFMin, Zenon
<1>2. PICK x \in T : \A y \in T : ~(y < x)
  BY <1>1, Zenon DEF OpToRel
<1>3. QED
  BY <1>2

(* A bounded one has a largest.                                            *)
LEMMA LargestElement ==
  ASSUME NEW T, NEW n \in Nat, T \subseteq 0 .. n, T # {}
  PROVE  \E x \in T : \A y \in T : x >= y
<1> DEFINE U == {k \in Nat : n - k \in T}
<1>1. U # {}
  <2>1. PICK x \in T : TRUE
    OBVIOUS
  <2>2. n - x \in Nat /\ n - (n - x) = x
    OBVIOUS
  <2>3. n - x \in U
    BY <2>2
  <2>4. QED
    BY <2>3
<1>2. PICK k \in U : \A j \in U : k <= j
  <2>1. U \subseteq Nat
    OBVIOUS
  <2> HIDE DEF U
  <2>2. QED
    BY <1>1, <2>1, LeastElement
<1>3. ASSUME NEW y \in T PROVE n - k >= y
  <2>1. n - y \in Nat /\ n - (n - y) = y
    OBVIOUS
  <2>2. n - y \in U
    BY <2>1
  <2>3. k <= n - y
    BY <1>2, <2>2
  <2>4. QED
    BY <1>2, <2>1, <2>3
<1>4. QED
  BY <1>2, <1>3

(* The ranks of a node.                                                    *)
LEMMA HostFacts ==
  ASSUME NEW n \in Nat \ {0}, NEW l \in Environment(n), NEW r \in Ranks(n), NEW S \in SUBSET Ranks(n)
  PROVE  /\ SameHost(l, S, r) \subseteq Ranks(n) /\ r \in SameHost(l, S, r)
         /\ SmallestOn(l, S, r) \in SameHost(l, S, r)
         /\ \A q \in SameHost(l, S, r) : SmallestOn(l, S, r) <= q
         /\ LargestOn(l, S, r) \in SameHost(l, S, r)
         /\ \A q \in SameHost(l, S, r) : LargestOn(l, S, r) >= q
<1> DEFINE T == SameHost(l, S, r)
<1>1. T \subseteq Ranks(n) /\ r \in T
  BY DEF SameHost
<1>2. n - 1 \in Nat /\ T \subseteq 0 .. (n - 1) /\ T \subseteq Nat /\ T # {}
  BY <1>1 DEF Ranks
<1> HIDE DEF T
<1>3. \E x \in T : \A y \in T : x <= y
  BY <1>2, LeastElement
<1>4. \E x \in T : \A y \in T : x >= y
  BY <1>2, LargestElement
<1>5. SmallestOn(l, S, r) \in T /\ \A q \in T : SmallestOn(l, S, r) <= q
  BY <1>3, Zenon DEF SmallestOn, T
<1>6. LargestOn(l, S, r) \in T /\ \A q \in T : LargestOn(l, S, r) >= q
  BY <1>4, Zenon DEF LargestOn, T
<1>7. QED
  BY <1>1, <1>5, <1>6 DEF T

(* Quotient and remainder.                                                 *)
LEMMA Remainder ==
  ASSUME NEW n \in Nat, NEW k \in Nat \ {0}
  PROVE  n = k * (n \div k) + (n % k)
OBVIOUS

(* Quotient and remainder have their types.                                *)
LEMMA Division ==
  ASSUME NEW n \in Nat, NEW k \in Nat \ {0}
  PROVE  /\ n = k * (n \div k) + (n % k) /\ n \div k \in Nat /\ n % k \in 0 .. (k - 1)
<1>1. n \div k \in Nat
  OBVIOUS
<1>2. n % k \in 0 .. (k - 1)
  OBVIOUS
<1>3. QED
  BY <1>1, <1>2, Remainder

(* They are the only such numbers.                                         *)
LEMMA Quotient ==
  ASSUME NEW n \in Nat, NEW k \in Nat \ {0}, NEW q \in Nat, NEW r \in Nat, r < k, n = k * q + r
  PROVE  n \div k = q /\ n % k = r
OBVIOUS

(* A node that is not refused holds two ranks for each progress rank.      *)
LEMMA NodeFacts ==
  ASSUME NEW n \in Nat \ {0}, NEW l \in Environment(n), NEW r \in Ranks(n), ~Refused(l)
  PROVE  /\ NodeSize(l, r) \in Nat /\ l.num \in Nat \ {0} /\ NodeSize(l, r) >= 2 * l.num
         /\ NodeSize(l, r) = l.num * SplitGroupSize(l, r)
         /\ SplitGroupSize(l, r) \in Nat /\ SplitGroupSize(l, r) >= 2
         /\ NodeSize(l, r) <= LargestOn(l, Ranks(n), r) - SmallestOn(l, Ranks(n), r) + 1
<1> DEFINE T == SameHost(l, Ranks(n), r)
           a == SmallestOn(l, Ranks(n), r)
           b == LargestOn(l, Ranks(n), r)
<1>1. DOMAIN l.host = Ranks(n) /\ l.num \in Nat \ {0}
  BY DEF Environment
<1>2. a \in Nat /\ b \in Nat /\ a <= b /\ T \subseteq a .. b
  <2>1. Ranks(n) \in SUBSET Ranks(n) /\ Ranks(n) \subseteq Nat
    BY DEF Ranks
  <2>2. /\ T \subseteq Nat /\ a \in T /\ b \in T
        /\ \A q \in T : a <= q /\ b >= q
    BY <2>1, HostFacts
  <2>3. QED
    BY <2>2
<1>3. NodeSize(l, r) = Cardinality(T)
  BY <1>1 DEF NodeSize
<1> HIDE DEF a, b, T
<1>4. /\ IsFiniteSet(a .. b) /\ Cardinality(a .. b) = b - a + 1
  BY <1>2, FS_Interval
<1>5. IsFiniteSet(T) /\ Cardinality(T) <= b - a + 1 /\ Cardinality(T) \in Nat
  BY <1>2, <1>4, FS_Subset, FS_CardinalityType
<1>6. NodeSize(l, r) >= 2 * l.num /\ NodeSize(l, r) % l.num = 0
  <2>1. ~(NodeSize(l, r) < 2 * l.num) /\ ~(NodeSize(l, r) % l.num > 0)
    BY <1>1 DEF Refused
  <2>2. ASSUME NEW x \in Nat, NEW k \in Nat \ {0}, ~(x < 2 * k), ~(x % k > 0)
        PROVE  x >= 2 * k /\ x % k = 0
    <3>1. x % k \in 0 .. (k - 1)
      OBVIOUS
    <3>2. QED
      BY <2>2, <3>1
  <2>3. NodeSize(l, r) \in Nat
    BY <1>3, <1>5
  <2>4. QED
    BY <1>1, <2>1, <2>2, <2>3, Zenon
<1>7. ASSUME NEW x \in Nat, NEW k \in Nat \ {0}, x >= 2 * k, x % k = 0
      PROVE  x = k * (x \div k) /\ x \div k \in Nat /\ x \div k >= 2
  <2>1. x = k * (x \div k) /\ x \div k \in Nat
    <3>1. x = k * (x \div k) + (x % k) /\ x \div k \in Nat
      BY Division, Zenon
    <3>2. k * (x \div k) \in Nat
      BY <3>1
    <3>3. QED
      BY <1>7, <3>1, <3>2
  <2>2. ASSUME NEW q \in Nat, k * q >= 2 * k
        PROVE  q >= 2
    BY <2>2
  <2>3. QED
    BY <1>7, <2>1, <2>2
<1>8. QED
  BY <1>1, <1>3, <1>5, <1>6, <1>7 DEF SplitGroupSize, a, b

(* A block begins and ends between its rank and the end of the node.       *)
LEMMA Multiple ==
  ASSUME NEW n \in Nat, NEW k \in Nat \ {0}
  PROVE  k * (n \div k) \in 0 .. n
<1>1. n = k * (n \div k) + (n % k) /\ n \div k \in Nat /\ n % k \in 0 .. (k - 1)
  BY Division
<1>2. k * (n \div k) \in Nat
  BY <1>1
<1>3. QED
  BY <1>1, <1>2

(* The ends of the own block stay between the ends of the node.            *)
LEMMA BlockBounds ==
  ASSUME NEW a \in Nat, NEW b \in Nat, NEW r \in a .. b, NEW k \in Nat \ {0}
  PROVE  BlockLast(r, k, b) \in r .. b /\ BlockFirst(r, k, a) \in a .. r
<1>1. b - r \in Nat /\ r - a \in Nat
  OBVIOUS
<1>2. k * ((b - r) \div k) \in 0 .. (b - r) /\ k * ((r - a) \div k) \in 0 .. (r - a)
  BY <1>1, Multiple
<1>3. QED
  BY <1>2 DEF BlockLast, BlockFirst

(* So do the places of CYCLIC groups.                                      *)
LEMMA CyclicBounds ==
  ASSUME NEW a \in Nat, NEW b \in Nat, NEW r \in a .. b, NEW n \in Nat \ {0}, 2 * n <= b - a + 1
  PROVE  CyclicLast(r, n, a, b) \in a .. b /\ CyclicFirst(r, n, a) \in a .. b
<1>1. r - a \in Nat
  OBVIOUS
<1>2. (r - a) % n \in 0 .. (n - 1)
  BY <1>1, Division
<1>3. QED
  BY <1>2 DEF CyclicLast, CyclicFirst

(* The ends of a node, and the rank between them.                          *)
LEMMA NodeBounds ==
  ASSUME NEW n \in Nat \ {0}, NEW l \in Environment(n), NEW r \in Ranks(n)
  PROVE  /\ SmallestOn(l, Ranks(n), r) \in Ranks(n) /\ LargestOn(l, Ranks(n), r) \in Ranks(n)
         /\ r \in SmallestOn(l, Ranks(n), r) .. LargestOn(l, Ranks(n), r)
<1>1. Ranks(n) \in SUBSET Ranks(n) /\ Ranks(n) \subseteq Nat
  BY DEF Ranks
<1>2. /\ SmallestOn(l, Ranks(n), r) \in Ranks(n) /\ LargestOn(l, Ranks(n), r) \in Ranks(n)
      /\ SmallestOn(l, Ranks(n), r) <= r /\ r <= LargestOn(l, Ranks(n), r)
  <2>1. /\ SameHost(l, Ranks(n), r) \subseteq Ranks(n) /\ r \in SameHost(l, Ranks(n), r)
        /\ SmallestOn(l, Ranks(n), r) \in SameHost(l, Ranks(n), r)
        /\ \A q \in SameHost(l, Ranks(n), r) : SmallestOn(l, Ranks(n), r) <= q
        /\ LargestOn(l, Ranks(n), r) \in SameHost(l, Ranks(n), r)
        /\ \A q \in SameHost(l, Ranks(n), r) : LargestOn(l, Ranks(n), r) >= q
    BY <1>1, HostFacts
  <2>2. SmallestOn(l, Ranks(n), r) \in Ranks(n) /\ LargestOn(l, Ranks(n), r) \in Ranks(n)
    BY <2>1
  <2>3. SmallestOn(l, Ranks(n), r) <= r /\ LargestOn(l, Ranks(n), r) >= r
    BY <2>1
  <2>4. QED
    BY <1>1, <2>2, <2>3
<1>3. QED
  BY <1>1, <1>2

(* Every rank gets a rank as its progress rank.                            *)
LEMMA MastersTyped ==
  ASSUME NEW n \in Nat \ {0}, NEW l \in Environment(n), ~Refused(l)
  PROVE  AllMasters(l) \in [Ranks(n) -> Ranks(n)]
<1>1. DOMAIN l.host = Ranks(n) /\ l.num \in Nat \ {0}
  BY DEF Environment
<1>2. ASSUME NEW r \in Ranks(n)
      PROVE  get_my_master_rank_with_same_hostid(l, r, SplitGroupSize(l, r),
               SmallestOn(l, Ranks(n), r), LargestOn(l, Ranks(n), r)) \in Ranks(n)
  <2> DEFINE k == SplitGroupSize(l, r)
             a == SmallestOn(l, Ranks(n), r)
             b == LargestOn(l, Ranks(n), r)
  <2>1. a \in Ranks(n) /\ b \in Ranks(n) /\ r \in a .. b /\ a \in Nat /\ b \in Nat
    BY NodeBounds DEF Ranks
  <2>2. k \in Nat \ {0} /\ 2 * l.num <= b - a + 1
    <3>1. /\ k \in Nat /\ k >= 2 /\ NodeSize(l, r) \in Nat
          /\ NodeSize(l, r) >= 2 * l.num /\ NodeSize(l, r) <= b - a + 1
      BY NodeFacts
    <3> HIDE DEF a, b, k
    <3>2. QED
      BY <1>1, <2>1, <3>1
  <2> HIDE DEF a, b, k
  <2>3. a .. b \subseteq Ranks(n) /\ r .. b \subseteq Ranks(n) /\ a .. r \subseteq Ranks(n)
    <3>1. r \in Nat
      BY <2>1
    <3>2. \A x \in Ranks(n), y \in Ranks(n) : x .. y \subseteq Ranks(n)
      BY <3>1 DEF Ranks
    <3>3. QED
      BY <2>1, <3>2
  <2>4. BlockLast(r, k, b) \in Ranks(n) /\ BlockFirst(r, k, a) \in Ranks(n)
    BY <2>1, <2>2, <2>3, BlockBounds
  <2>5. CyclicLast(r, l.num, a, b) \in Ranks(n) /\ CyclicFirst(r, l.num, a) \in Ranks(n)
    BY <1>1, <2>1, <2>2, <2>3, CyclicBounds
  <2>6. QED
    BY <2>4, <2>5 DEF get_my_master_rank_with_same_hostid, a, b, k
<1>3. QED
  BY <1>1, <1>2 DEF AllMasters


-----------------------------------------------------------------------------
(* Blocks of k consecutive ranks.                                          *)

(* The numbers that share a quotient.                                      *)
LEMMA InBlock ==
  ASSUME NEW x \in Nat, NEW k \in Nat \ {0}, NEW i \in Nat
  PROVE  k * (x \div k) = k * i <=> (k * i <= x /\ x <= k * i + k - 1)
<1>1. x = k * (x \div k) + (x % k) /\ x \div k \in Nat /\ x % k \in 0 .. (k - 1)
  BY Division
<1>2. k * i \in Nat
  OBVIOUS
<1>3. ASSUME k * (x \div k) = k * i PROVE k * i <= x /\ x <= k * i + k - 1
  BY <1>1, <1>2, <1>3
<1>4. ASSUME k * i <= x, x <= k * i + k - 1 PROVE x \div k = i
  <2>1. x - k * i \in Nat /\ x - k * i < k /\ x = k * i + (x - k * i)
    BY <1>2, <1>4
  <2>2. QED
    BY <2>1, Quotient
<1>5. QED
  BY <1>3, <1>4

(* A number below num * k lies in one of num blocks: i are before it and j *)
(* after it.                                                               *)
LEMMA Blocks ==
  ASSUME NEW num \in Nat \ {0}, NEW k \in Nat \ {0}, NEW x \in Nat, x < num * k
  PROVE  \E i, j \in Nat : x \div k = i /\ num * k = k * i + k * j + k
<1> DEFINE i == x \div k
<1>1. i \in Nat /\ x = k * i + (x % k) /\ x % k \in 0 .. (k - 1)
  BY Division
<1> HIDE DEF i
<1>2. k * i < num * k
  <2>1. k * i \in Nat /\ num * k \in Nat
    BY <1>1
  <2>2. QED
    BY <1>1, <2>1
<1>3. i < num
  BY <1>1, <1>2
<1>4. num - 1 - i \in Nat
  BY <1>1, <1>3
<1>5. num * k = k * i + k * (num - 1 - i) + k
  BY <1>1, <1>4
<1>6. QED
  BY <1>1, <1>4, <1>5 DEF i

(* The ranks of a node are num blocks of k ranks.                          *)
Tiles(a, b, num, k) ==
  a \in Nat /\ b \in Nat /\ num \in Nat \ {0} /\ k \in Nat \ {0} /\ b - a + 1 = num * k

(* Progress ranks at the end of their blocks, and who tells them to stop.  *)
LEMMA LastBlock ==
  ASSUME NEW a, NEW b, NEW k, NEW num, Tiles(a, b, num, k), NEW r \in a .. b,
         NEW m, m = BlockLast(r, k, b)
  PROVE  /\ m \in r .. b /\ m - k + 1 \in a .. b
         /\ \A q \in a .. b : BlockLast(q, k, b) = m <=> m - k + 1 <= q /\ q <= m
         /\ \A q \in a .. b : m - k + 1 <= q /\ q <= m => (q = BlockFirst(q, k, a) <=> q = m - k + 1)
<1>0. a \in Nat /\ b \in Nat /\ num \in Nat \ {0} /\ k \in Nat \ {0} /\ b - a + 1 = num * k
  BY DEF Tiles
<1> USE <1>0
<1>1. m \in r .. b
  BY BlockBounds
<1>2. PICK i \in Nat, j \in Nat : (b - r) \div k = i /\ num * k = k * i + k * j + k
  <2>1. b - r \in Nat /\ b - r < num * k
    BY Blocks
  <2>2. QED
    BY ZenonT(60), <2>1, Blocks
<1> DEFINE u == k * i
           w == k * j
<1>3. u \in Nat /\ w \in Nat
  OBVIOUS
<1>4. m = b - u /\ b - a + 1 = u + w + k
  BY <1>2 DEF BlockLast
<1>5. ASSUME NEW q \in a .. b PROVE BlockLast(q, k, b) = m <=> m - k + 1 <= q /\ q <= m
  <2> DEFINE y == k * ((b - q) \div k)
  <2>1. b - q \in Nat
    OBVIOUS
  <2>2. y = u <=> (u <= b - q /\ b - q <= u + k - 1)
    BY <2>1, InBlock
  <2>3. y \in Nat /\ BlockLast(q, k, b) = b - y
    BY <2>1, Multiple DEF BlockLast
  <2> HIDE DEF y, u
  <2>4. QED
    BY <1>3, <1>4, <2>2, <2>3
<1>6. m - k + 1 = a + w
  <2> HIDE DEF u, w
  <2>1. QED
    BY <1>3, <1>4
<1>7. ASSUME NEW q \in a .. b, m - k + 1 <= q, q <= m
      PROVE  q = BlockFirst(q, k, a) <=> q = m - k + 1
  <2> DEFINE z == k * ((q - a) \div k)
  <2>1. q - a \in Nat /\ w <= q - a /\ q - a <= w + k - 1
    <3> HIDE DEF u, w
    <3>1. QED
      BY <1>1, <1>3, <1>6, <1>7
  <2>2. z = w
    <3>0. q - a \in Nat
      BY <2>1
    <3>1. z = w <=> (w <= q - a /\ q - a <= w + k - 1)
      BY <3>0, InBlock
    <3> HIDE DEF z, w
    <3>2. QED
      BY <2>1, <3>1
  <2>3. BlockFirst(q, k, a) = a + z
    BY DEF BlockFirst
  <2> HIDE DEF z, w
  <2>4. QED
    BY <1>1, <1>3, <1>6, <2>2, <2>3
<1>8. m - k + 1 \in a .. b
  <2> HIDE DEF u, w
  <2>1. QED
    BY <1>1, <1>3, <1>6
<1>9. QED
  BY <1>1, <1>5, <1>7, <1>8

(* Progress ranks at the beginning of their blocks.                        *)
LEMMA FirstBlock ==
  ASSUME NEW a, NEW b, NEW k, NEW num, Tiles(a, b, num, k), NEW r \in a .. b,
         NEW m, m = BlockFirst(r, k, a)
  PROVE  /\ m \in a .. r /\ m + k - 1 \in a .. b
         /\ \A q \in a .. b : BlockFirst(q, k, a) = m <=> m <= q /\ q <= m + k - 1
         /\ \A q \in a .. b : m <= q /\ q <= m + k - 1 => (q = BlockLast(q, k, b) <=> q = m + k - 1)
<1>0. a \in Nat /\ b \in Nat /\ num \in Nat \ {0} /\ k \in Nat \ {0} /\ b - a + 1 = num * k
  BY DEF Tiles
<1> USE <1>0
<1>1. m \in a .. r
  BY BlockBounds
<1>2. PICK i \in Nat, j \in Nat : (r - a) \div k = i /\ num * k = k * i + k * j + k
  <2>1. r - a \in Nat /\ r - a < num * k
    BY Blocks
  <2>2. QED
    BY <2>1, Blocks
<1> DEFINE u == k * i
           w == k * j
<1>3. u \in Nat /\ w \in Nat
  OBVIOUS
<1>4. m = a + u /\ b - a + 1 = u + w + k
  BY <1>2 DEF BlockFirst
<1>5. ASSUME NEW q \in a .. b PROVE BlockFirst(q, k, a) = m <=> m <= q /\ q <= m + k - 1
  <2> DEFINE y == k * ((q - a) \div k)
  <2>1. q - a \in Nat
    OBVIOUS
  <2>2. y = u <=> (u <= q - a /\ q - a <= u + k - 1)
    BY <2>1, InBlock
  <2>3. y \in Nat /\ BlockFirst(q, k, a) = a + y
    BY <2>1, Multiple DEF BlockFirst
  <2> HIDE DEF y, u
  <2>4. QED
    BY <1>3, <1>4, <2>2, <2>3
<1>6. m + k - 1 = b - w
  <2> HIDE DEF u, w
  <2>1. QED
    BY <1>3, <1>4
<1>7. ASSUME NEW q \in a .. b, m <= q, q <= m + k - 1
      PROVE  q = BlockLast(q, k, b) <=> q = m + k - 1
  <2> DEFINE z == k * ((b - q) \div k)
  <2>1. b - q \in Nat /\ w <= b - q /\ b - q <= w + k - 1
    <3> HIDE DEF u, w
    <3>1. QED
      BY <1>1, <1>3, <1>6, <1>7
  <2>2. z = w
    <3>0. b - q \in Nat
      BY <2>1
    <3>1. z = w <=> (w <= b - q /\ b - q <= w + k - 1)
      BY <3>0, InBlock
    <3> HIDE DEF z, w
    <3>2. QED
      BY <2>1, <3>1
  <2>3. BlockLast(q, k, b) = b - z
    BY DEF BlockLast
  <2> HIDE DEF z, w
  <2>4. QED
    BY <1>1, <1>3, <1>6, <2>2, <2>3
<1>8. m + k - 1 \in a .. b
  <2> HIDE DEF u, w
  <2>1. QED
    BY <1>1, <1>3, <1>6
<1>9. QED
  BY <1>1, <1>5, <1>7, <1>8

-----------------------------------------------------------------------------
(* Every num-th rank.                                                      *)

(* The ranks of a residue, num of them k times.                            *)
LEMMA SameResidue ==
  ASSUME NEW x \in Nat, NEW num \in Nat \ {0}, NEW j \in Nat, NEW v \in 0 .. (num - 1), x = num * j + v
  PROVE  x % num = v
<1>1. v < num /\ v \in Nat
  OBVIOUS
<1>2. QED
  BY <1>1, Quotient

(* The remainder does not change by adding the divisor.                    *)
LEMMA Shifted ==
  ASSUME NEW x \in Nat, NEW num \in Nat \ {0}
  PROVE  (x + num) % num = x % num
<1>1. x = num * (x \div num) + (x % num) /\ x \div num \in Nat /\ x % num \in 0 .. (num - 1)
  BY Division
<1> DEFINE d == x \div num
           v == x % num
<1> HIDE DEF d, v
<1>2. d + 1 \in Nat /\ num * (d + 1) = num * d + num /\ num * d \in Nat
  BY <1>1 DEF d
<1>3. x + num = num * (d + 1) + v /\ v \in 0 .. (num - 1) /\ x + num \in Nat
  BY <1>1, <1>2 DEF d, v
<1>4. (x + num) % num = v
  BY <1>2, <1>3, SameResidue
<1>5. QED
  BY <1>4 DEF v

(* A number below num * k is in row j of num columns.                      *)
LEMMA ResidueIndex ==
  ASSUME NEW x \in Nat, NEW num \in Nat \ {0}, NEW k \in Nat, x < num * k
  PROVE  \E j \in 0 .. (k - 1) : x = num * j + (x % num)
<1> DEFINE j == x \div num
<1>1. x = num * j + (x % num) /\ j \in Nat /\ x % num \in 0 .. (num - 1)
  BY Division
<1> HIDE DEF j
<1>2. num * j < num * k
  <2>1. num * j \in Nat /\ num * k \in Nat
    BY <1>1
  <2>2. QED
    BY <1>1, <2>1
<1>3. j \in 0 .. (k - 1)
  <2>1. j < k
    BY <1>1, <1>2
  <2>2. QED
    BY <1>1, <2>1
<1>4. QED
  BY <1>1, <1>3, Zenon

(* A column of num * k numbers has k of them.                              *)
LEMMA ResidueCount ==
  ASSUME NEW a, NEW b, NEW k, NEW num, Tiles(a, b, num, k), NEW v \in 0 .. (num - 1)
  PROVE  Cardinality({q \in a .. b : (q - a) % num = v}) = k
<1>0. a \in Nat /\ b \in Nat /\ num \in Nat \ {0} /\ k \in Nat \ {0} /\ b - a + 1 = num * k
  BY DEF Tiles
<1> USE <1>0
<1> DEFINE T == {q \in a .. b : (q - a) % num = v}
           f == [j \in 0 .. (k - 1) |-> a + v + num * j]
<1>1. ASSUME NEW j \in 0 .. (k - 1) PROVE f[j] \in T
  <2> DEFINE w == num * j
  <2>1. w \in Nat /\ w + num <= num * k
    <3>1. k - 1 - j \in Nat /\ num * k = num * j + num * (k - 1 - j) + num
      OBVIOUS
    <3>2. num * (k - 1 - j) \in Nat
      BY <3>1
    <3>3. QED
      BY <3>1, <3>2
  <2>2. f[j] = a + v + w
    OBVIOUS
  <2>3. v + w \in Nat /\ j \in Nat /\ v + w = num * j + v
    BY <2>1
  <2>4. (v + w) % num = v
    BY <2>3, SameResidue
  <2> HIDE DEF w, f
  <2>5. f[j] \in a .. b /\ f[j] - a = v + w
    BY <2>1, <2>2
  <2>6. QED
    BY <2>4, <2>5
<1>2. ASSUME NEW i \in 0 .. (k - 1), NEW j \in 0 .. (k - 1), f[i] = f[j] PROVE i = j
  <2>1. a + v + num * i = a + v + num * j
    BY <1>2
  <2>2. num * i \in Nat /\ num * j \in Nat
    OBVIOUS
  <2>3. num * i = num * j
    BY <2>1, <2>2
  <2>4. QED
    BY <2>3
<1>3. ASSUME NEW q \in T PROVE \E j \in 0 .. (k - 1) : f[j] = q
  <2>1. q \in a .. b /\ (q - a) % num = v /\ q - a \in Nat /\ q - a < num * k
    OBVIOUS
  <2>2. PICK j \in 0 .. (k - 1) : q - a = num * j + ((q - a) % num)
    BY <2>1, ResidueIndex
  <2>3. num * j \in Nat
    OBVIOUS
  <2>4. q = a + v + num * j
    BY <2>1, <2>2, <2>3
  <2>5. QED
    BY <2>4
<1>4. f \in Bijection(0 .. (k - 1), T)
  <2>1. f \in [0 .. (k - 1) -> T]
    BY <1>1
  <2> HIDE DEF f, T
  <2>2. QED
    BY <1>2, <1>3, <2>1, Zenon DEF Bijection, Injection, IsInjective, Surjection
<1>5. IsFiniteSet(0 .. (k - 1)) /\ Cardinality(0 .. (k - 1)) = k
  BY FS_Interval
<1>6. QED
  BY <1>4, <1>5, FS_Bijection DEF ExistsBijection

-----------------------------------------------------------------------------
(* The ranks of a node, when they are consecutive.                         *)

(* The smallest and the largest are the only ones that bound the others.   *)
LEMMA ExtremeOn ==
  ASSUME NEW n \in Nat \ {0}, NEW l \in Environment(n), NEW r \in Ranks(n), NEW S \in SUBSET Ranks(n),
         NEW x \in SameHost(l, S, r)
  PROVE  /\ (\A y \in SameHost(l, S, r) : x <= y) => SmallestOn(l, S, r) = x
         /\ (\A y \in SameHost(l, S, r) : x >= y) => LargestOn(l, S, r) = x
<1> DEFINE T == SameHost(l, S, r)
<1>1. /\ T \subseteq Nat
      /\ SmallestOn(l, S, r) \in T /\ \A q \in T : SmallestOn(l, S, r) <= q
      /\ LargestOn(l, S, r) \in T /\ \A q \in T : LargestOn(l, S, r) >= q
  <2>1. T \subseteq Ranks(n) /\ Ranks(n) \subseteq Nat
    BY HostFacts DEF Ranks
  <2>2. QED
    BY <2>1, HostFacts
<1> HIDE DEF T
<1>2. x \in T
  BY DEF T
<1> DEFINE s == SmallestOn(l, S, r)
           g == LargestOn(l, S, r)
<1>0. s \in Nat /\ g \in Nat /\ x \in Nat /\ s <= x /\ x <= g /\ s \in T /\ g \in T
  BY <1>1, <1>2
<1> HIDE DEF s, g
<1>3. (\A y \in T : x <= y) => s = x
  <2>1. ASSUME \A y \in T : x <= y PROVE s = x
    <3>1. x <= s
      BY <1>0, <2>1
    <3>2. QED
      BY <1>0, <3>1
  <2>2. QED
    BY <2>1
<1>4. (\A y \in T : x >= y) => g = x
  <2>1. ASSUME \A y \in T : x >= y PROVE g = x
    <3>1. x >= g
      BY <1>0, <2>1
    <3>2. QED
      BY <1>0, <3>1
  <2>2. QED
    BY <2>1
<1>5. QED
  BY <1>3, <1>4 DEF T, s, g

(* A node is an interval of ranks, num blocks of equal size.               *)
LEMMA NodeShape ==
  ASSUME NEW n \in Nat \ {0}, NEW l \in Environment(n), Contiguous(n, l), ~Refused(l), NEW r \in Ranks(n),
         NEW a, a = SmallestOn(l, Ranks(n), r), NEW b, b = LargestOn(l, Ranks(n), r)
  PROVE  /\ a \in Nat /\ b \in Nat /\ r \in a .. b /\ a .. b \subseteq Ranks(n)
         /\ \A q \in Ranks(n) : q \in a .. b <=> l.host[q] = l.host[r]
         /\ SplitGroupSize(l, r) \in Nat /\ SplitGroupSize(l, r) >= 2 /\ l.num \in Nat \ {0}
         /\ b - a + 1 = l.num * SplitGroupSize(l, r)
         /\ \A q \in a .. b : /\ SmallestOn(l, Ranks(n), q) = a /\ LargestOn(l, Ranks(n), q) = b
                              /\ SplitGroupSize(l, q) = SplitGroupSize(l, r)
<1> DEFINE R == Ranks(n)
<1>1. R \in SUBSET R /\ R \subseteq Nat /\ DOMAIN l.host = R
  BY DEF Ranks, Environment
<1>2. a \in R /\ b \in R /\ r \in a .. b
  BY NodeBounds
<1>3. a .. b \subseteq R
  BY <1>2 DEF Ranks
<1>4. \A q \in R : q \in SameHost(l, R, r) <=> l.host[q] = l.host[r]
  BY DEF SameHost
<1>5. /\ a \in SameHost(l, R, r) /\ b \in SameHost(l, R, r)
      /\ \A q \in SameHost(l, R, r) : a <= q /\ b >= q
  BY <1>1, HostFacts
<1>6. ASSUME NEW q \in R PROVE q \in a .. b <=> l.host[q] = l.host[r]
  <2>1. ASSUME q \in a .. b PROVE l.host[q] = l.host[r]
    <3>1. l.host[a] = l.host[r] /\ l.host[b] = l.host[r] /\ a <= q /\ q <= b
      BY <1>2, <1>4, <1>5, <2>1
    <3>2. l.host[q] = l.host[a]
      BY <1>2, <3>1 DEF Contiguous
    <3>3. QED
      BY <3>1, <3>2
  <2>2. ASSUME l.host[q] = l.host[r] PROVE q \in a .. b
    <3>1. a <= q /\ b >= q
      BY <1>4, <1>5, <2>2
    <3>2. QED
      BY <1>1, <1>2, <3>1
  <2>3. QED
    BY <2>1, <2>2
<1>7. SameHost(l, R, r) = a .. b
  <2>1. SameHost(l, R, r) \subseteq R
    BY DEF SameHost
  <2>2. QED
    BY <1>3, <1>4, <1>6, <2>1
<1>8. \A q \in a .. b : SameHost(l, R, q) = SameHost(l, R, r)
  BY <1>3, <1>6 DEF SameHost
<1>9. ASSUME NEW q \in a .. b
      PROVE  /\ SmallestOn(l, R, q) = a /\ LargestOn(l, R, q) = b
             /\ SplitGroupSize(l, q) = SplitGroupSize(l, r)
  <2>1. SameHost(l, R, q) = SameHost(l, R, r)
    BY <1>8
  <2>2. SmallestOn(l, R, q) = a /\ LargestOn(l, R, q) = b
    BY <2>1, Zenon DEF SmallestOn, LargestOn
  <2>3. SplitGroupSize(l, q) = SplitGroupSize(l, r)
    BY <1>1, <2>1, Zenon DEF SplitGroupSize, NodeSize
  <2>4. QED
    BY <2>2, <2>3
<1>10. NodeSize(l, r) = b - a + 1
  <2>1. a \in Int /\ b \in Int /\ a <= b
    BY <1>1, <1>2
  <2>2. Cardinality(a .. b) = b - a + 1
    BY <2>1, FS_Interval
  <2>3. NodeSize(l, r) = Cardinality(a .. b)
    BY <1>1, <1>7, Zenon DEF NodeSize
  <2>4. QED
    BY <2>2, <2>3
<1>11. /\ NodeSize(l, r) = l.num * SplitGroupSize(l, r) /\ l.num \in Nat \ {0}
       /\ SplitGroupSize(l, r) \in Nat /\ SplitGroupSize(l, r) >= 2
  BY NodeFacts
<1>12. QED
  BY <1>1, <1>2, <1>3, <1>6, <1>9, <1>10, <1>11

(* A progress rank is on the node of the ranks it serves.                  *)
LEMMA MasterOnNode ==
  ASSUME NEW n \in Nat \ {0}, NEW l \in Environment(n), Contiguous(n, l), ~Refused(l), NEW r \in Ranks(n)
  PROVE  AllMasters(l)[r] \in Ranks(n) /\ l.host[AllMasters(l)[r]] = l.host[r]
<1> DEFINE a == SmallestOn(l, Ranks(n), r)
           b == LargestOn(l, Ranks(n), r)
           k == SplitGroupSize(l, r)
           m == get_my_master_rank_with_same_hostid(l, r, k, a, b)
<1>1. /\ a \in Nat /\ b \in Nat /\ r \in a .. b /\ a .. b \subseteq Ranks(n)
      /\ \A q \in Ranks(n) : q \in a .. b <=> l.host[q] = l.host[r]
      /\ k \in Nat /\ k >= 2 /\ l.num \in Nat \ {0} /\ b - a + 1 = l.num * k
  BY NodeShape
<1>2. AllMasters(l)[r] = m
  <2>1. DOMAIN l.host = Ranks(n)
    BY DEF Environment
  <2>2. QED
    BY <2>1 DEF AllMasters
<1> HIDE DEF a, b, k
<1>3. 2 * l.num <= b - a + 1
  <2>1. ASSUME NEW x \in Nat, NEW y \in Nat, y >= 2 PROVE 2 * x <= x * y
    <3>1. x * (y - 2) \in Nat /\ x * y = x * 2 + x * (y - 2)
      BY <2>1
    <3>2. QED
      BY <3>1
  <2>2. QED
    BY <1>1, <2>1
<1>4. BlockLast(r, k, b) \in a .. b /\ BlockFirst(r, k, a) \in a .. b
  <2>1. k \in Nat \ {0} /\ r \in a .. b /\ a \in Nat /\ b \in Nat
    BY <1>1
  <2>2. BlockLast(r, k, b) \in r .. b /\ BlockFirst(r, k, a) \in a .. r
    BY <2>1, BlockBounds, Zenon
  <2>3. QED
    BY <2>1, <2>2
<1>5. CyclicLast(r, l.num, a, b) \in a .. b /\ CyclicFirst(r, l.num, a) \in a .. b
  BY <1>1, <1>3, CyclicBounds
<1>6. m \in a .. b
  BY <1>4, <1>5 DEF get_my_master_rank_with_same_hostid
<1>7. QED
  BY <1>1, <1>2, <1>6

(* A rank of a node that has a group B of k ranks, of which w alone is to  *)
(* stop the progress rank m: what ServesNodes asks.                        *)
Group(n, l, r, k, m, B, w) ==
  LET M == AllMasters(l)
      W == {q \in Ranks(n) : M[q] # q}
  IN /\ M[r] = m /\ m \in B /\ w \in B /\ w # m /\ Cardinality(B) = k
     /\ \A q \in Ranks(n) : l.host[q] = l.host[r] => (M[q] = m <=> q \in B)
     /\ B \subseteq {q \in Ranks(n) : l.host[q] = l.host[r]}
     /\ \A q \in B \ {m} :
          q = get_my_rank_to_free(l, q, k, SmallestOn(l, W, q), LargestOn(l, W, q)) <=> q = w

(* A group of that kind serves its ranks.                                  *)
LEMMA Grouped ==
  ASSUME NEW n \in Nat \ {0}, NEW l \in Environment(n), Contiguous(n, l), ~Refused(l), NEW r \in Ranks(n),
         NEW m, NEW B, NEW w, Group(n, l, r, SplitGroupSize(l, r), m, B, w)
  PROVE  LET masters == AllMasters(l)
             own == {q \in DOMAIN l.host : masters[q] = masters[r]}
         IN /\ masters[masters[r]] = masters[r]
            /\ l.host[masters[r]] = l.host[r]
            /\ Cardinality(own) = SplitGroupSize(l, r)
            /\ Cardinality({c \in own \ {masters[r]} : Notifies(l, masters, c)}) = 1
<1> DEFINE M == AllMasters(l)
           W == {q \in Ranks(n) : M[q] # q}
           k == SplitGroupSize(l, r)
           own == {q \in Ranks(n) : M[q] = M[r]}
<1>1. DOMAIN l.host = Ranks(n)
  BY DEF Environment
<1>2. /\ M[r] = m /\ m \in B /\ w \in B /\ w # m /\ Cardinality(B) = k
      /\ \A q \in Ranks(n) : l.host[q] = l.host[r] => (M[q] = m <=> q \in B)
      /\ B \subseteq {q \in Ranks(n) : l.host[q] = l.host[r]}
      /\ \A q \in B \ {m} :
           q = get_my_rank_to_free(l, q, k, SmallestOn(l, W, q), LargestOn(l, W, q)) <=> q = w
  BY DEF Group
<1>3. \A q \in Ranks(n) : M[q] \in Ranks(n) /\ l.host[M[q]] = l.host[q]
  BY MasterOnNode
<1> HIDE DEF M, k
<1>4. own = B
  <2>1. ASSUME NEW q \in Ranks(n), M[q] = m PROVE l.host[q] = l.host[r]
    BY <1>2, <1>3, <2>1
  <2>2. QED
    BY <1>2, <2>1
<1>5. M[M[r]] = M[r] /\ l.host[M[r]] = l.host[r]
  BY <1>2, <1>3
<1>6. ASSUME NEW q \in B \ {m} PROVE Notifies(l, M, q) <=> q = w
  <2>1. M[q] = M[r]
    BY <1>2
  <2>2. {x \in Ranks(n) : M[x] = M[q]} = B
    BY <1>4, <2>1
  <2>3. Notifies(l, M, q) <=> q = get_my_rank_to_free(l, q, k, SmallestOn(l, W, q), LargestOn(l, W, q))
    BY <1>1, <1>2, <2>2, Zenon DEF Notifies, W
  <2>4. QED
    BY <1>2, <2>3
<1>7. {c \in own \ {M[r]} : Notifies(l, M, c)} = {w}
  BY <1>2, <1>4, <1>6
<1>8. Cardinality({w}) = 1
  BY FS_Singleton
<1>9. QED
  BY <1>1, <1>2, <1>4, <1>5, <1>7, <1>8 DEF M, k

(* The cases of the code.                                                  *)
LEMMA MasterCases ==
  ASSUME NEW n \in Nat \ {0}, NEW l \in Environment(n), NEW r, NEW k, NEW a, NEW b
  PROVE  LET m == get_my_master_rank_with_same_hostid(l, r, k, a, b)
             cyclic == ~l.packed /\ l.num # 1
         IN /\ ~l.smallest /\ ~cyclic => m = BlockLast(r, k, b)
            /\ ~l.smallest /\ cyclic => m = CyclicLast(r, l.num, a, b)
            /\ l.smallest /\ ~cyclic => m = BlockFirst(r, k, a)
            /\ l.smallest /\ cyclic => m = CyclicFirst(r, l.num, a)
BY DEF get_my_master_rank_with_same_hostid

(* The formulas of get_my_rank_to_free, one per environment.               *)
LEMMA FreeCases ==
  ASSUME NEW n \in Nat \ {0}, NEW l \in Environment(n), NEW c, NEW k, NEW a, NEW b
  PROVE  LET f == get_my_rank_to_free(l, c, k, a, b)
         IN /\ ~l.smallest /\ l.packed => f = BlockFirst(c, k, a)
            /\ ~l.smallest /\ ~l.packed /\ l.num = 1 => f = 2 * (k * (((c - a) \div 2) \div k))
            /\ ~l.smallest /\ ~l.packed /\ l.num # 1 => f = CyclicLast(c, l.num, a, b)
            /\ l.smallest /\ l.packed => f = BlockLast(c, k, b)
            /\ l.smallest /\ ~l.packed /\ l.num = 1 => f = b - 2 * (k * (((b - c) \div 2) \div k))
            /\ l.smallest /\ ~l.packed /\ l.num # 1 => f = CyclicFirst(c, l.num, a)
BY Zenon DEF get_my_rank_to_free

(* The masters of a node.                                                  *)
LEMMA MastersOf ==
  ASSUME NEW n \in Nat \ {0}, NEW l \in Environment(n), Contiguous(n, l), ~Refused(l), NEW r \in Ranks(n),
         NEW a, a = SmallestOn(l, Ranks(n), r), NEW b, b = LargestOn(l, Ranks(n), r),
         NEW q \in a .. b
  PROVE  AllMasters(l)[q] = get_my_master_rank_with_same_hostid(l, q, SplitGroupSize(l, r), a, b)
<1>1. /\ a .. b \subseteq Ranks(n) /\ SmallestOn(l, Ranks(n), q) = a /\ LargestOn(l, Ranks(n), q) = b
      /\ SplitGroupSize(l, q) = SplitGroupSize(l, r)
  BY NodeShape
<1>2. DOMAIN l.host = Ranks(n) /\ q \in Ranks(n)
  BY <1>1 DEF Environment
<1>3. QED
  BY <1>1, <1>2 DEF AllMasters

(* The workers of a node: s and g are its smallest and largest.            *)
LEMMA WorkersOf ==
  ASSUME NEW n \in Nat \ {0}, NEW l \in Environment(n), Contiguous(n, l), ~Refused(l), NEW r \in Ranks(n),
         NEW a, a = SmallestOn(l, Ranks(n), r), NEW b, b = LargestOn(l, Ranks(n), r),
         NEW c \in a .. b, NEW x \in a .. b, AllMasters(l)[c] # c, AllMasters(l)[x] # x
  PROVE  LET W == {q \in Ranks(n) : AllMasters(l)[q] # q}
         IN /\ (\A y \in a .. b : AllMasters(l)[y] # y => x <= y) => SmallestOn(l, W, c) = x
            /\ (\A y \in a .. b : AllMasters(l)[y] # y => x >= y) => LargestOn(l, W, c) = x
<1> DEFINE M == AllMasters(l)
           W == {q \in Ranks(n) : M[q] # q}
<1>1. /\ a .. b \subseteq Ranks(n)
      /\ \A q \in Ranks(n) : q \in a .. b <=> l.host[q] = l.host[r]
  BY NodeShape
<1> HIDE DEF M
<1>2. M[c] # c /\ M[x] # x
  BY DEF M
<1>3. c \in Ranks(n) /\ x \in Ranks(n) /\ l.host[c] = l.host[r] /\ l.host[x] = l.host[r]
  BY <1>1
<1>4. x \in SameHost(l, W, c)
  BY <1>2, <1>3 DEF SameHost
<1>5. \A y \in SameHost(l, W, c) : y \in a .. b /\ M[y] # y
  BY <1>1, <1>2, <1>3 DEF SameHost
<1>6. W \in SUBSET Ranks(n)
  OBVIOUS
<1> HIDE DEF W
<1>7. /\ (\A y \in SameHost(l, W, c) : x <= y) => SmallestOn(l, W, c) = x
      /\ (\A y \in SameHost(l, W, c) : x >= y) => LargestOn(l, W, c) = x
  BY <1>3, <1>4, <1>6, ExtremeOn
<1>8. /\ (\A y \in a .. b : M[y] # y => x <= y) => SmallestOn(l, W, c) = x
      /\ (\A y \in a .. b : M[y] # y => x >= y) => LargestOn(l, W, c) = x
  BY <1>5, <1>7
<1>9. QED
  BY <1>8 DEF W, M

(* What the code divides by when there is one progress rank.               *)
LEMMA SmallQuotient ==
  ASSUME NEW y \in Nat, NEW k \in Nat \ {0}, y < k
  PROVE  y \div k = 0
<1>1. y = k * 0 + y
  OBVIOUS
<1>2. QED
  BY <1>1, Quotient

(* Half of a number below k has no whole k in it.                          *)
LEMMA HalfQuotient ==
  ASSUME NEW x \in Nat, NEW k \in Nat \ {0}, x < k
  PROVE  k * ((x \div 2) \div k) = 0
<1> DEFINE y == x \div 2
<1>1. y \in Nat /\ y <= x
  OBVIOUS
<1> HIDE DEF y
<1>2. y \in Nat /\ y < k
  BY <1>1
<1>3. y \div k = 0
  BY <1>2, SmallQuotient
<1>4. k * (y \div k) = 0
  BY <1>3
<1>5. QED
  BY <1>4 DEF y

(* PACKED groups, and a single progress rank, taken from the end.          *)
LEMMA LastServes ==
  ASSUME NEW n \in Nat \ {0}, NEW l \in Environment(n), Contiguous(n, l), ~Refused(l), NEW r \in Ranks(n),
         ~l.smallest, l.packed \/ (l.num = 1 /\ \A q \in Ranks(n) : l.host[q] = l.host[0])
  PROVE  \E m, B, w : Group(n, l, r, SplitGroupSize(l, r), m, B, w)
<1> DEFINE a == SmallestOn(l, Ranks(n), r)
           b == LargestOn(l, Ranks(n), r)
           k == SplitGroupSize(l, r)
           M == AllMasters(l)
           W == {q \in Ranks(n) : M[q] # q}
           m == BlockLast(r, k, b)
           w == m - k + 1
           B == w .. m
<1>1. /\ a \in Nat /\ b \in Nat /\ r \in a .. b /\ a .. b \subseteq Ranks(n)
      /\ \A q \in Ranks(n) : q \in a .. b <=> l.host[q] = l.host[r]
      /\ k \in Nat \ {0} /\ k >= 2 /\ l.num \in Nat \ {0} /\ b - a + 1 = l.num * k
      /\ Tiles(a, b, l.num, k)
  BY NodeShape DEF Tiles
<1>2. \A q \in a .. b : M[q] = BlockLast(q, k, b)
  <2>1. ASSUME NEW q \in a .. b PROVE M[q] = BlockLast(q, k, b)
    <3>1. M[q] = get_my_master_rank_with_same_hostid(l, q, k, a, b)
      BY MastersOf
    <3>2. QED
      BY <3>1, MasterCases
  <2>2. QED
    BY <2>1
<1> HIDE DEF a, b, k, M
<1>3. /\ m \in r .. b /\ m - k + 1 \in a .. b
      /\ \A q \in a .. b : BlockLast(q, k, b) = m <=> m - k + 1 <= q /\ q <= m
      /\ \A q \in a .. b : m - k + 1 <= q /\ q <= m => (q = BlockFirst(q, k, a) <=> q = m - k + 1)
  BY ZenonT(60), <1>1, LastBlock
<1>4. M[a] # a
  <2>1. a \in a .. b
    BY <1>1
  <2>2. BlockLast(a, k, b) - k + 1 \in a .. b /\ BlockLast(a, k, b) \in a .. b
    BY <1>1, <2>1, LastBlock
  <2>3. BlockLast(a, k, b) # a
    BY <1>1, <2>2
  <2>4. QED
    BY <1>2, <2>1, <2>3
<1> HIDE DEF m
<1>5. /\ m \in Nat /\ w \in Nat /\ m \in B /\ w \in B /\ w # m /\ B \subseteq a .. b
  BY <1>1, <1>3
<1>6. Cardinality(B) = k
  <2>1. w \in Int /\ m \in Int /\ w <= m /\ m - w + 1 = k
    BY <1>1, <1>5
  <2>2. QED
    BY <2>1, FS_Interval
<1>7. M[r] = m
  BY <1>1, <1>2 DEF m
<1>8. ASSUME NEW q \in B \ {m}
      PROVE  q = get_my_rank_to_free(l, q, k, SmallestOn(l, W, q), LargestOn(l, W, q)) <=> q = w
  <2>1. q \in a .. b /\ M[q] # q
    <3>1. q \in a .. b /\ M[q] = m
      BY <1>2, <1>3, <1>5
    <3>2. QED
      BY <3>1
  <2>2. a \in a .. b /\ \A y \in a .. b : M[y] # y => a <= y
    BY <1>1
  <2>3. SmallestOn(l, W, q) = a
    BY <1>4, <2>1, <2>2, WorkersOf DEF a, b, M
  <2>4. CASE l.packed
    <3>1. get_my_rank_to_free(l, q, k, a, LargestOn(l, W, q)) = BlockFirst(q, k, a)
      BY <2>4, FreeCases
    <3>2. q = BlockFirst(q, k, a) <=> q = w
      BY <1>3, <1>5, <2>1
    <3>3. QED
      BY <2>3, <3>1, <3>2
  <2>5. CASE ~l.packed
    <3>1. l.num = 1 /\ \A x \in Ranks(n) : l.host[x] = l.host[0]
      BY <2>5
    <3>2. a = 0
      <4>1. 0 \in Ranks(n) /\ r \in Ranks(n)
        BY <1>1 DEF Ranks
      <4>2. 0 \in a .. b
        BY <1>1, <3>1, <4>1
      <4>3. QED
        BY <1>1, <4>2
    <3>3. k = b + 1
      BY <1>1, <3>1, <3>2
    <3>4. m = b /\ w = 0
      BY <1>1, <1>3, <1>5, <3>2, <3>3
    <3>5. get_my_rank_to_free(l, q, k, a, LargestOn(l, W, q)) = 2 * (k * (((q - a) \div 2) \div k))
      BY <2>5, <3>1, FreeCases
    <3>6. k * (((q - a) \div 2) \div k) = 0
      <4>1. q - a \in Nat /\ q - a < k
        BY <1>1, <2>1, <3>2, <3>3
      <4>2. QED
        BY <1>1, <4>1, HalfQuotient
    <3>7. QED
      BY <2>3, <3>4, <3>5, <3>6
  <2>6. QED
    BY <2>4, <2>5
<1>9. /\ \A q \in Ranks(n) : l.host[q] = l.host[r] => (M[q] = m <=> q \in B)
      /\ B \subseteq {q \in Ranks(n) : l.host[q] = l.host[r]}
  BY <1>1, <1>2, <1>3, <1>5
<1>10. Group(n, l, r, k, m, B, w)
  <2> HIDE DEF B, w, W
  <2>1. QED
    BY <1>5, <1>6, <1>7, <1>8, <1>9 DEF Group, M, W
<1>11. QED
  BY <1>10 DEF k

(* The same from the beginning of the blocks.                              *)
LEMMA FirstServes ==
  ASSUME NEW n \in Nat \ {0}, NEW l \in Environment(n), Contiguous(n, l), ~Refused(l), NEW r \in Ranks(n),
         l.smallest, l.packed \/ l.num = 1
  PROVE  \E m, B, w : Group(n, l, r, SplitGroupSize(l, r), m, B, w)
<1> DEFINE a == SmallestOn(l, Ranks(n), r)
           b == LargestOn(l, Ranks(n), r)
           k == SplitGroupSize(l, r)
           M == AllMasters(l)
           W == {q \in Ranks(n) : M[q] # q}
           m == BlockFirst(r, k, a)
           w == m + k - 1
           B == m .. w
<1>1. /\ a \in Nat /\ b \in Nat /\ r \in a .. b /\ a .. b \subseteq Ranks(n)
      /\ \A q \in Ranks(n) : q \in a .. b <=> l.host[q] = l.host[r]
      /\ k \in Nat \ {0} /\ k >= 2 /\ l.num \in Nat \ {0} /\ b - a + 1 = l.num * k
      /\ Tiles(a, b, l.num, k)
  BY NodeShape DEF Tiles
<1>2. \A q \in a .. b : M[q] = BlockFirst(q, k, a)
  <2>1. ASSUME NEW q \in a .. b PROVE M[q] = BlockFirst(q, k, a)
    <3>1. M[q] = get_my_master_rank_with_same_hostid(l, q, k, a, b)
      BY MastersOf
    <3>2. QED
      BY <3>1, MasterCases
  <2>2. QED
    BY <2>1
<1> HIDE DEF a, b, k, M
<1>3. /\ m \in a .. r /\ m + k - 1 \in a .. b
      /\ \A q \in a .. b : BlockFirst(q, k, a) = m <=> m <= q /\ q <= m + k - 1
      /\ \A q \in a .. b : m <= q /\ q <= m + k - 1 => (q = BlockLast(q, k, b) <=> q = m + k - 1)
  BY SMTT(30), <1>1, FirstBlock
<1>4. M[b] # b
  <2>1. b \in a .. b
    BY <1>1
  <2>2. BlockFirst(b, k, a) + k - 1 \in a .. b /\ BlockFirst(b, k, a) \in a .. b
    BY <1>1, <2>1, FirstBlock
  <2>3. BlockFirst(b, k, a) # b
    BY <1>1, <2>2
  <2>4. QED
    BY <1>2, <2>1, <2>3
<1> HIDE DEF m
<1>5. /\ m \in Nat /\ w \in Nat /\ m \in B /\ w \in B /\ w # m /\ B \subseteq a .. b
  BY <1>1, <1>3
<1>6. Cardinality(B) = k
  <2>1. w \in Int /\ m \in Int /\ m <= w /\ w - m + 1 = k
    BY <1>1, <1>5
  <2>2. QED
    BY <2>1, FS_Interval
<1>7. M[r] = m
  BY <1>1, <1>2 DEF m
<1>8. ASSUME NEW q \in B \ {m}
      PROVE  q = get_my_rank_to_free(l, q, k, SmallestOn(l, W, q), LargestOn(l, W, q)) <=> q = w
  <2>1. q \in a .. b /\ M[q] # q
    <3>1. q \in a .. b /\ M[q] = m
      BY <1>2, <1>3, <1>5
    <3>2. QED
      BY <3>1
  <2>2. b \in a .. b /\ \A y \in a .. b : M[y] # y => b >= y
    BY <1>1
  <2>3. LargestOn(l, W, q) = b
    <3>1. \A x \in a .. b, c \in a .. b :
            M[c] # c /\ M[x] # x /\ (\A y \in a .. b : M[y] # y => x >= y) => LargestOn(l, W, c) = x
      <4>1. ASSUME NEW x \in a .. b, NEW c \in a .. b, M[c] # c, M[x] # x,
                   \A y \in a .. b : M[y] # y => x >= y
            PROVE  LargestOn(l, W, c) = x
        BY SMTT(30), <4>1, WorkersOf DEF a, b, M
      <4>2. QED
        BY <4>1
    <3> HIDE DEF W
    <3>2. QED
      BY <1>4, <2>1, <2>2, <3>1
  <2>4. CASE l.packed
    <3>1. get_my_rank_to_free(l, q, k, SmallestOn(l, W, q), b) = BlockLast(q, k, b)
      BY <2>4, FreeCases
    <3>2. q = BlockLast(q, k, b) <=> q = w
      BY <1>3, <1>5, <2>1
    <3>3. QED
      BY <2>3, <3>1, <3>2
  <2>5. CASE ~l.packed
    <3>1. l.num = 1
      BY <2>5
    <3>2. k = b - a + 1
      BY <1>1, <3>1
    <3>3. w = b
      BY <1>1, <1>3, <1>5, <3>2
    <3>4. get_my_rank_to_free(l, q, k, SmallestOn(l, W, q), b) = b - 2 * (k * (((b - q) \div 2) \div k))
      BY <2>5, <3>1, FreeCases
    <3>5. k * (((b - q) \div 2) \div k) = 0
      <4>1. b - q \in Nat /\ b - q < k
        BY <1>1, <2>1, <3>2
      <4>2. QED
        BY <1>1, <4>1, HalfQuotient
    <3>6. b - 2 * 0 = b
      BY <1>1
    <3>7. QED
      BY <2>3, <3>3, <3>4, <3>5, <3>6
  <2>6. QED
    BY <2>4, <2>5
<1>9. /\ \A q \in Ranks(n) : l.host[q] = l.host[r] => (M[q] = m <=> q \in B)
      /\ B \subseteq {q \in Ranks(n) : l.host[q] = l.host[r]}
  BY <1>1, <1>2, <1>3, <1>5
<1>10. Group(n, l, r, k, m, B, w)
  <2> HIDE DEF B, w, W
  <2>1. QED
    BY <1>5, <1>6, <1>7, <1>8, <1>9 DEF Group, M, W
<1>11. QED
  BY <1>10 DEF k

(* The place of a rank in the last or first num ranks of its node.         *)
Place(q, a, num) == (q - a) % num

(* Places lie below num and repeat every num ranks.                        *)
LEMMA PlaceFacts ==
  ASSUME NEW a \in Nat, NEW num \in Nat \ {0}, NEW q \in Nat, a <= q
  PROVE  /\ Place(q, a, num) \in 0 .. (num - 1)
         /\ Place(q + num, a, num) = Place(q, a, num)
         /\ Place(q + num, a + num, num) = Place(q, a, num)
         /\ q - a < num => Place(q, a, num) = q - a
<1>1. q - a \in Nat
  OBVIOUS
<1>2. (q - a) % num \in 0 .. (num - 1)
  BY <1>1, Division
<1>3. ((q - a) + num) % num = (q - a) % num
  BY <1>1, Shifted
<1>4. (q + num) - a = (q - a) + num /\ (q + num) - (a + num) = q - a
  OBVIOUS
<1>5. q - a < num => (q - a) % num = q - a
  <2>1. ASSUME q - a < num PROVE (q - a) % num = q - a
    <3>1. q - a \in 0 .. (num - 1) /\ q - a = num * 0 + (q - a) /\ 0 \in Nat
      BY <1>1, <2>1
    <3>2. QED
      BY <1>1, <3>1, SameResidue
  <2>2. QED
    BY <2>1
<1>6. QED
  BY <1>2, <1>3, <1>4, <1>5 DEF Place

(* The places of the last and of the last but one num ranks.               *)
LEMMA PlaceFromEnd ==
  ASSUME NEW a, NEW b, NEW k, NEW num, Tiles(a, b, num, k), k >= 2, NEW v \in 0 .. (num - 1)
  PROVE  /\ Place(b - num + 1 + v, a, num) = v /\ Place(b - num - num + 1 + v, a, num) = v
         /\ a + num + num <= b + 1
<1>0. a \in Nat /\ b \in Nat /\ num \in Nat \ {0} /\ k \in Nat \ {0} /\ b - a + 1 = num * k
  BY DEF Tiles
<1> USE <1>0
<1>1. /\ num * k = num * (k - 1) + num /\ num * k = num * (k - 2) + num + num
      /\ k - 1 \in Nat /\ k - 2 \in Nat /\ num * (k - 1) \in Nat /\ num * (k - 2) \in Nat
  OBVIOUS
<1> DEFINE x == num * (k - 1)
           y == num * (k - 2)
<1>2. (b - num + 1 + v) - a = x + v /\ (b - num - num + 1 + v) - a = y + v
  <2>1. x \in Nat /\ y \in Nat /\ b - a + 1 = x + num /\ b - a + 1 = y + num + num
    BY <1>1
  <2> HIDE DEF x, y
  <2>2. QED
    BY <2>1
<1>3. (x + v) % num = v /\ (y + v) % num = v
  <2>1. x + v \in Nat /\ y + v \in Nat
    BY <1>1
  <2>2. (x + v) % num = v
    BY <1>1, <2>1, SameResidue
  <2>3. (y + v) % num = v
    BY <1>1, <2>1, SameResidue
  <2>4. QED
    BY <2>2, <2>3
<1>4. a + num + num <= b + 1
  <2>1. y \in Nat /\ b - a + 1 = y + num + num
    BY <1>1
  <2> HIDE DEF y
  <2>2. QED
    BY <2>1
<1>5. QED
  BY <1>2, <1>3, <1>4 DEF Place

(* CYCLIC groups of the last ranks: B has the ranks of one residue.        *)
LEMMA CyclicLastServes ==
  ASSUME NEW n \in Nat \ {0}, NEW l \in Environment(n), Contiguous(n, l), ~Refused(l), NEW r \in Ranks(n),
         ~l.smallest, ~l.packed, l.num # 1
  PROVE  \E m, B, w : Group(n, l, r, SplitGroupSize(l, r), m, B, w)
<1> DEFINE a == SmallestOn(l, Ranks(n), r)
           b == LargestOn(l, Ranks(n), r)
           k == SplitGroupSize(l, r)
           num == l.num
           M == AllMasters(l)
           W == {q \in Ranks(n) : M[q] # q}
           v == Place(r, a, num)
           m == b - num + 1 + v
           w == b - num - num + 1 + v
           B == {q \in a .. b : Place(q, a, num) = v}
<1>1. /\ a \in Nat /\ b \in Nat /\ r \in a .. b /\ a .. b \subseteq Ranks(n)
      /\ \A q \in Ranks(n) : q \in a .. b <=> l.host[q] = l.host[r]
      /\ k \in Nat \ {0} /\ k >= 2 /\ num \in Nat \ {0} /\ b - a + 1 = num * k
      /\ Tiles(a, b, num, k)
  BY NodeShape DEF Tiles
<1>2. \A q \in a .. b : M[q] = b - num + 1 + Place(q, a, num)
  <2>1. ASSUME NEW q \in a .. b PROVE M[q] = b - num + 1 + Place(q, a, num)
    <3>1. M[q] = get_my_master_rank_with_same_hostid(l, q, k, a, b)
      BY MastersOf
    <3>2. M[q] = CyclicLast(q, num, a, b)
      BY <3>1, MasterCases
    <3>3. QED
      BY <3>2 DEF CyclicLast, Place
  <2>2. QED
    BY <2>1
<1> HIDE DEF a, b, k, num, M
<1>3. \A q \in a .. b : Place(q, a, num) \in 0 .. (num - 1) /\ (q - a < num => Place(q, a, num) = q - a)
  BY <1>1, PlaceFacts
<1>4. \A u \in 0 .. (num - 1) : /\ Place(b - num + 1 + u, a, num) = u
                                /\ Place(b - num - num + 1 + u, a, num) = u
  BY <1>1, PlaceFromEnd
<1>5. a + num + num <= b + 1
  <2>1. 0 \in 0 .. (num - 1)
    BY <1>1
  <2>2. QED
    BY <1>1, <2>1, PlaceFromEnd
<1>6. v \in 0 .. (num - 1)
  BY <1>1, <1>3
<1>7. Cardinality(B) = k
  BY <1>1, <1>6, ResidueCount DEF Place
<1> HIDE DEF v
<1>8. /\ m \in a .. b /\ w \in a .. b /\ m # w /\ Place(m, a, num) = v /\ Place(w, a, num) = v
  BY <1>1, <1>4, <1>5, <1>6
<1>9. \A q \in a .. b : M[q] = m <=> Place(q, a, num) = v
  <2>1. ASSUME NEW q \in a .. b PROVE M[q] = m <=> Place(q, a, num) = v
    <3>1. M[q] = b - num + 1 + Place(q, a, num) /\ Place(q, a, num) \in 0 .. (num - 1)
      BY <1>2, <1>3
    <3>2. QED
      BY <1>1, <1>6, <3>1
  <2>2. QED
    BY <2>1
<1>10. \A y \in a .. b : M[y] # y <=> y <= b - num
  <2>1. ASSUME NEW y \in a .. b PROVE M[y] # y <=> y <= b - num
    <3>1. M[y] = b - num + 1 + Place(y, a, num) /\ Place(y, a, num) \in 0 .. (num - 1)
      BY <1>2, <1>3
    <3>2. ASSUME y > b - num PROVE M[y] = y
      <4>1. y - (b - num + 1) \in 0 .. (num - 1) /\ b - num + 1 + (y - (b - num + 1)) = y
        BY <1>1, <3>2
      <4>2. Place(y, a, num) = y - (b - num + 1)
        BY <1>4, <4>1
      <4>3. QED
        BY <1>1, <3>1, <4>2
    <3>3. QED
      BY <1>1, <3>1, <3>2
  <2>2. QED
    BY <2>1
<1>11. M[r] = m
  BY <1>1, <1>9 DEF v
<1>12. ASSUME NEW q \in B \ {m}
       PROVE  q = get_my_rank_to_free(l, q, k, SmallestOn(l, W, q), LargestOn(l, W, q)) <=> q = w
  <2>1. q \in a .. b /\ M[q] # q /\ Place(q, a, num) = v
    BY <1>9
  <2>2. a \in a .. b /\ b - num \in a .. b /\ M[a] # a /\ M[b - num] # b - num
    BY <1>1, <1>5, <1>10
  <2>3. \A x \in a .. b, c \in a .. b :
          M[c] # c /\ M[x] # x =>
            /\ (\A y \in a .. b : M[y] # y => x <= y) => SmallestOn(l, W, c) = x
            /\ (\A y \in a .. b : M[y] # y => x >= y) => LargestOn(l, W, c) = x
    <3>1. ASSUME NEW x \in a .. b, NEW c \in a .. b, M[c] # c, M[x] # x
          PROVE  /\ (\A y \in a .. b : M[y] # y => x <= y) => SmallestOn(l, W, c) = x
                 /\ (\A y \in a .. b : M[y] # y => x >= y) => LargestOn(l, W, c) = x
      BY SMTT(30), <3>1, WorkersOf DEF a, b, M
    <3>2. QED
      BY <3>1
  <2>4. SmallestOn(l, W, q) = a
    <3>1. \A y \in a .. b : M[y] # y => a <= y
      BY <1>1
    <3> HIDE DEF W
    <3>2. QED
      BY <2>1, <2>2, <2>3, <3>1
  <2>5. LargestOn(l, W, q) = b - num
    <3>1. \A y \in a .. b : M[y] # y => b - num >= y
      BY <1>1, <1>10
    <3> HIDE DEF W
    <3>2. QED
      BY <2>1, <2>2, <2>3, <3>1
  <2>6. get_my_rank_to_free(l, q, k, a, b - num) = CyclicLast(q, num, a, b - num)
    BY FreeCases DEF num
  <2>7. CyclicLast(q, num, a, b - num) = w
    BY <1>1, <1>6, <2>1 DEF CyclicLast, Place
  <2>8. QED
    BY <2>4, <2>5, <2>6, <2>7
<1>13. /\ \A q \in Ranks(n) : l.host[q] = l.host[r] => (M[q] = m <=> q \in B)
       /\ B \subseteq {q \in Ranks(n) : l.host[q] = l.host[r]}
       /\ m \in B /\ w \in B /\ w # m
  BY <1>1, <1>8, <1>9
<1>14. Group(n, l, r, k, m, B, w)
  <2> HIDE DEF m, B, w, W
  <2>1. QED
    BY <1>7, <1>11, <1>12, <1>13 DEF Group, M, W
<1>15. QED
  BY <1>14 DEF k

(* CYCLIC groups of the first ranks.                                       *)
LEMMA CyclicFirstServes ==
  ASSUME NEW n \in Nat \ {0}, NEW l \in Environment(n), Contiguous(n, l), ~Refused(l), NEW r \in Ranks(n),
         l.smallest, ~l.packed, l.num # 1
  PROVE  \E m, B, w : Group(n, l, r, SplitGroupSize(l, r), m, B, w)
<1> DEFINE a == SmallestOn(l, Ranks(n), r)
           b == LargestOn(l, Ranks(n), r)
           k == SplitGroupSize(l, r)
           num == l.num
           M == AllMasters(l)
           W == {q \in Ranks(n) : M[q] # q}
           v == Place(r, a, num)
           m == a + v
           w == a + num + v
           B == {q \in a .. b : Place(q, a, num) = v}
<1>1. /\ a \in Nat /\ b \in Nat /\ r \in a .. b /\ a .. b \subseteq Ranks(n)
      /\ \A q \in Ranks(n) : q \in a .. b <=> l.host[q] = l.host[r]
      /\ k \in Nat \ {0} /\ k >= 2 /\ num \in Nat \ {0} /\ b - a + 1 = num * k
      /\ Tiles(a, b, num, k)
  BY NodeShape DEF Tiles
<1>2. \A q \in a .. b : M[q] = a + Place(q, a, num)
  <2>1. ASSUME NEW q \in a .. b PROVE M[q] = a + Place(q, a, num)
    <3>1. M[q] = get_my_master_rank_with_same_hostid(l, q, k, a, b)
      BY MastersOf
    <3>2. M[q] = CyclicFirst(q, num, a)
      BY <3>1, MasterCases
    <3>3. QED
      BY <3>2 DEF CyclicFirst, Place
  <2>2. QED
    BY <2>1
<1> HIDE DEF a, b, k, num, M
<1>3. \A q \in a .. b : Place(q, a, num) \in 0 .. (num - 1) /\ (q - a < num => Place(q, a, num) = q - a)
  BY <1>1, PlaceFacts
<1>4. \A q \in Nat : a <= q => /\ Place(q + num, a, num) = Place(q, a, num)
                               /\ Place(q + num, a + num, num) = Place(q, a, num)
  <2>1. ASSUME NEW q \in Nat, a <= q
        PROVE  /\ Place(q + num, a, num) = Place(q, a, num)
               /\ Place(q + num, a + num, num) = Place(q, a, num)
    <3>1. Place(q, a, num) \in 0 .. (num - 1)
      BY <1>1, <2>1, PlaceFacts
    <3>2. QED
      BY <1>1, <2>1, <3>1, PlaceFacts
  <2>2. QED
    BY <2>1
<1>5. a + num + num <= b + 1
  <2>1. 0 \in 0 .. (num - 1)
    BY <1>1
  <2>2. QED
    BY <1>1, <2>1, PlaceFromEnd
<1>6. v \in 0 .. (num - 1)
  BY <1>1, <1>3
<1>7. Cardinality(B) = k
  BY <1>1, <1>6, ResidueCount DEF Place
<1> HIDE DEF v
<1>8. /\ m \in a .. b /\ w \in a .. b /\ m # w /\ Place(m, a, num) = v /\ Place(w, a, num) = v
  <2>1. m \in a .. b /\ w \in a .. b /\ m # w /\ m - a < num /\ m - a = v /\ w = m + num /\ m \in Nat /\ a <= m
    BY <1>1, <1>5, <1>6
  <2>2. Place(m, a, num) = v
    BY <1>3, <2>1
  <2>3. Place(w, a, num) = v
    BY <1>4, <2>1, <2>2
  <2>4. QED
    BY <2>1, <2>2, <2>3
<1>9. \A q \in a .. b : M[q] = m <=> Place(q, a, num) = v
  <2>1. ASSUME NEW q \in a .. b PROVE M[q] = m <=> Place(q, a, num) = v
    <3>1. M[q] = a + Place(q, a, num) /\ Place(q, a, num) \in 0 .. (num - 1)
      BY <1>2, <1>3
    <3>2. QED
      BY <1>1, <1>6, <3>1
  <2>2. QED
    BY <2>1
<1>10. \A y \in a .. b : M[y] # y <=> y >= a + num
  <2>1. ASSUME NEW y \in a .. b PROVE M[y] # y <=> y >= a + num
    <3>1. M[y] = a + Place(y, a, num) /\ Place(y, a, num) \in 0 .. (num - 1)
      BY <1>2, <1>3
    <3>2. ASSUME y < a + num PROVE M[y] = y
      <4>1. Place(y, a, num) = y - a
        BY <1>1, <1>3, <3>2
      <4>2. QED
        BY <1>1, <3>1, <4>1
    <3>3. QED
      BY <1>1, <3>1, <3>2
  <2>2. QED
    BY <2>1
<1>11. M[r] = m
  BY <1>1, <1>9 DEF v
<1>12. ASSUME NEW q \in B \ {m}
       PROVE  q = get_my_rank_to_free(l, q, k, SmallestOn(l, W, q), LargestOn(l, W, q)) <=> q = w
  <2>1. q \in a .. b /\ M[q] # q /\ Place(q, a, num) = v /\ q >= a + num
    BY <1>9, <1>10
  <2>2. a + num \in a .. b /\ M[a + num] # a + num
    BY <1>1, <1>5, <1>10
  <2>3. ASSUME NEW x \in a .. b, M[x] # x, \A y \in a .. b : M[y] # y => x <= y
        PROVE  SmallestOn(l, W, q) = x
    BY <2>1, <2>3, WorkersOf DEF a, b, M
  <2>4. SmallestOn(l, W, q) = a + num
    <3>1. \A y \in a .. b : M[y] # y => a + num <= y
      BY <1>1, <1>10
    <3> HIDE DEF W
    <3>2. QED
      BY <2>2, <2>3, <3>1
  <2>5. get_my_rank_to_free(l, q, k, a + num, LargestOn(l, W, q)) = CyclicFirst(q, num, a + num)
    BY FreeCases DEF num
  <2>6. CyclicFirst(q, num, a + num) = w
    <3>1. q - num \in Nat /\ a <= q - num /\ (q - num) + num = q
      BY <1>1, <2>1
    <3>2. Place(q, a + num, num) = v
      BY <1>4, <2>1, <3>1
    <3>3. CyclicFirst(q, num, a + num) = a + num + Place(q, a + num, num)
      BY DEF CyclicFirst, Place
    <3>4. QED
      BY <3>2, <3>3
  <2>7. QED
    BY <2>4, <2>5, <2>6
<1>13. /\ \A q \in Ranks(n) : l.host[q] = l.host[r] => (M[q] = m <=> q \in B)
       /\ B \subseteq {q \in Ranks(n) : l.host[q] = l.host[r]}
       /\ m \in B /\ w \in B /\ w # m
  BY <1>1, <1>8, <1>9
<1>14. Group(n, l, r, k, m, B, w)
  <2> HIDE DEF m, B, w, W
  <2>1. QED
    BY <1>7, <1>11, <1>12, <1>13 DEF Group, M, W
<1>15. QED
  BY <1>14 DEF k

(* comex_group_init divides the ranks of any job of consecutive ranks so   *)
(* that each node is served by its own progress ranks, all with equally    *)
(* many ranks, and exactly one worker of each will send it OP_QUIT.  Only a*)
(* single CYCLIC progress rank, taken from the largest ranks, on a second  *)
(* node is left out: get_my_rank_to_free returns a rank of the first node. *)
THEOREM DivisionServes ==
  ASSUME NEW n \in Nat \ {0}, NEW l \in Environment(n), Contiguous(n, l), Workable(n, l), ~Refused(l)
  PROVE  ServesNodes(l, AllMasters(l))
<1>1. DOMAIN l.host = Ranks(n) /\ l.num \in 1 .. 15 /\ l.packed \in BOOLEAN /\ l.smallest \in BOOLEAN
  BY DEF Environment
<1>2. ASSUME NEW r \in Ranks(n)
      PROVE  \E m, B, w : Group(n, l, r, SplitGroupSize(l, r), m, B, w)
  <2>1. CASE l.packed \/ l.num = 1
    <3>1. CASE l.smallest
      BY <2>1, <3>1, FirstServes
    <3>2. CASE ~l.smallest
      <4>1. l.packed \/ (l.num = 1 /\ \A q \in Ranks(n) : l.host[q] = l.host[0])
        BY <1>1, <2>1, <3>2 DEF Workable
      <4>2. QED
        BY <3>2, <4>1, LastServes
    <3>3. QED
      BY <3>1, <3>2
  <2>2. CASE ~(l.packed \/ l.num = 1)
    BY <2>2, CyclicFirstServes, CyclicLastServes
  <2>3. QED
    BY <2>1, <2>2
<1>3. QED
  BY <1>1, <1>2, Grouped DEF ServesNodes
=============================================================================
