-------------------------- MODULE RtpReorderProofs --------------------------
(***************************************************************************)
(* Without FEC and for every window, sequence space, first sequence number *)
(* and number of packets: the reorder buffer delivers in order and without *)
(* duplicates, and what it stored is delivered or still waits and counted. *)
(*                                                                         *)
(* The proof follows the packet number b whose sequence number is          *)
(* base_seq.  Every occupied slot holds a packet of b .. b + window - 1 in *)
(* the slot of its number, so no two packets of the window contend for one *)
(* slot, and everything delivered lies below b.                            *)
(***************************************************************************)
EXTENDS RtpReorder, NaturalsInduction, WellFoundedInduction, FunctionTheorems, FiniteSetTheorems, SequenceTheorems, TLAPS

LEMMA Numbers ==
  /\ SeqSpace \in Nat \ {0} /\ WINDOW_SIZE \in Nat \ {0} /\ INIT_COLLECT \in Nat \ {0}
  /\ Packets \in Nat /\ FirstSeq \in Nat /\ InitialSpread \in Nat
  /\ SeqSpace % WINDOW_SIZE = 0 /\ 2 * Packets <= SeqSpace
  BY ReorderAssumption

-----------------------------------------------------------------------------
(* Sequence numbers *)

\* Division with remainder.
LEMMA Division ==
  ASSUME NEW S \in Nat \ {0}, NEW x \in Int
  PROVE  x = S * (x \div S) + (x % S) /\ x \div S \in Int /\ x % S \in 0 .. (S - 1)
  OBVIOUS

LEMMA Remainder ==
  ASSUME NEW S \in Nat \ {0}, NEW q \in Int, NEW m \in 0 .. (S - 1)
  PROVE  (S * q + m) % S = m
  OBVIOUS

\* Adding a multiple does not change the remainder.
LEMMA Multiple ==
  ASSUME NEW S \in Nat \ {0}, NEW x \in Int, NEW k \in Int
  PROVE  (x + S * k) % S = x % S
<1> DEFINE q == x \div S
           m == x % S
<1>1. x = S * q + m /\ q \in Int /\ m \in 0 .. (S - 1) BY Division
<1> HIDE DEF q, m
<1>2. x + S * k = S * (q + k) + m BY <1>1
<1>3. (S * (q + k) + m) % S = m BY <1>1, Remainder
<1> QED BY <1>2, <1>3 DEF m

\* Remainders may be taken on the way.
LEMMA Wrapping ==
  ASSUME NEW S \in Nat \ {0}, NEW x \in Int, NEW y \in Int
  PROVE  /\ ((x % S) + y) % S = (x + y) % S
         /\ ((x % S) - (y % S)) % S = (x - y) % S
<1>1. PICK q \in Int : x % S = x + S * q
  <2>1. x = S * (x \div S) + (x % S) /\ x \div S \in Int /\ x % S \in Int
    BY Division
  <2>2. x % S = x + S * (- (x \div S)) /\ - (x \div S) \in Int
    BY <2>1
  <2> QED BY <2>2
<1>2. PICK k \in Int : y % S = y + S * k
  <2>1. y = S * (y \div S) + (y % S) /\ y \div S \in Int /\ y % S \in Int
    BY Division
  <2>2. y % S = y + S * (- (y \div S)) /\ - (y \div S) \in Int
    BY <2>1
  <2> QED BY <2>2
<1>3. (x % S) + y = (x + y) + S * q /\ (x % S) - (y % S) = (x - y) + S * (q - k)
  BY <1>1, <1>2
<1>4. ASSUME NEW z \in Int, NEW j \in Int
      PROVE  (z + S * j) % S = z % S
  BY Multiple
<1>5. ((x + y) + S * q) % S = (x + y) % S
  <2> DEFINE z == x + y
  <2>1. z \in Int
    OBVIOUS
  <2> HIDE DEF z
  <2>2. (z + S * q) % S = z % S BY <2>1, <1>4
  <2> QED BY <2>2 DEF z
<1>6. ((x - y) + S * (q - k)) % S = (x - y) % S
  <2> DEFINE z == x - y
             j == q - k
  <2>1. z \in Int /\ j \in Int
    OBVIOUS
  <2> HIDE DEF z, j
  <2>2. (z + S * j) % S = z % S BY <2>1, <1>4
  <2> QED BY <2>2 DEF z, j
<1> QED BY <1>3, <1>5, <1>6

\* A divisor of the modulus sees through it.
LEMMA Nested ==
  ASSUME NEW S \in Nat \ {0}, NEW W \in Nat \ {0}, S % W = 0, NEW x \in Int
  PROVE  (x % S) % W = x % W
<1>1. PICK k \in Int : S = W * k
  <2>1. S = W * (S \div W) + (S % W) /\ S \div W \in Int BY Division
  <2> QED BY <2>1
<1>2. PICK q \in Int : x % S = x + S * q
  <2>1. x = S * (x \div S) + (x % S) /\ x \div S \in Int /\ x % S \in Int
    BY Division
  <2>2. x % S = x + S * (- (x \div S)) /\ - (x \div S) \in Int
    BY <2>1
  <2> QED BY <2>2
<1>3. PICK j \in Int : x % S = x + W * j
  <2>1. x % S = x + W * (k * q) /\ k * q \in Int BY <1>1, <1>2
  <2> QED BY <2>1
<1>4. (x + W * j) % W = x % W BY Multiple
<1> QED BY <1>3, <1>4

\* Only zero is a multiple of W that is nearer to zero than W.
LEMMA NearMultiple ==
  ASSUME NEW W \in Nat \ {0}, NEW k \in Int, - W < W * k, W * k < W
  PROVE  k = 0
<1>1. CASE k >= 1
  <2>1. W * k >= W BY <1>1
  <2> QED BY <2>1
<1>2. CASE k <= -1
  <2>1. W * k <= - W BY <1>2
  <2> QED BY <2>1
<1> QED BY <1>1, <1>2

LEMMA SeqnType == \A n \in Int : Seqn(n) \in 0 .. (SeqSpace - 1)
<1> SUFFICES ASSUME NEW n \in Int PROVE Seqn(n) \in 0 .. (SeqSpace - 1)
  OBVIOUS
<1> DEFINE x == FirstSeq + n
<1>1. x \in Int /\ SeqSpace \in Nat \ {0} BY Numbers
<1> HIDE DEF x
<1>2. x % SeqSpace \in 0 .. (SeqSpace - 1) BY <1>1, Division
<1> QED BY <1>2 DEF Seqn, x

LEMMA SlotType == \A q \in Int : SlotOf(q) \in Slot
  BY Numbers, Division DEF SlotOf, Slot

\* Counting on from a sequence number.
LEMMA SeqnNext ==
  ASSUME NEW n \in Int, NEW j \in Int
  PROVE  (Seqn(n) + j) % SeqSpace = Seqn(n + j)
<1> DEFINE x == FirstSeq + n
<1>1. x \in Int /\ FirstSeq + (n + j) = x + j BY Numbers
<1> HIDE DEF x
<1>2. ((x % SeqSpace) + j) % SeqSpace = (x + j) % SeqSpace
  BY <1>1, Numbers, Wrapping
<1> QED BY <1>1, <1>2 DEF Seqn, x

\* The distance of two sequence numbers is that of their packets.
LEMMA DiffIs ==
  ASSUME NEW n \in Packet, NEW m \in 0 .. Packets
  PROVE  Diff(Seqn(n), Seqn(m)) = n - m
<1> DEFINE x == FirstSeq + n
           y == FirstSeq + m
           d == (Seqn(n) - Seqn(m)) % SeqSpace
<1>1. x \in Int /\ y \in Int /\ x - y = n - m BY Numbers DEF Packet
<1>2. d = (n - m) % SeqSpace
  <2> HIDE DEF x, y
  <2>1. ((x % SeqSpace) - (y % SeqSpace)) % SeqSpace = (x - y) % SeqSpace
    BY <1>1, Numbers, Wrapping
  <2> QED BY <1>1, <2>1 DEF Seqn, x, y
<1> HIDE DEF d
<1>h. SeqSpace \div 2 \in Nat /\ SeqSpace \div 2 >= Packets /\ SeqSpace \in Nat \ {0} /\ 2 * Packets <= SeqSpace
      /\ 2 * (SeqSpace \div 2) <= SeqSpace
  BY Numbers
<1>3. CASE n >= m
  <2>1. n - m \in 0 .. (SeqSpace - 1) /\ n - m < SeqSpace \div 2
    BY <1>3, <1>h, Numbers DEF Packet
  <2>2. d = n - m BY <2>1, <1>2, <1>h
  <2> QED BY <2>1, <2>2 DEF Diff, d
<1>4. CASE n < m
  <2>1. (n - m) + SeqSpace \in 0 .. (SeqSpace - 1) /\ ~((n - m) + SeqSpace < SeqSpace \div 2)
    BY <1>4, <1>h, Numbers DEF Packet
  <2>2. ((n - m) + SeqSpace * 1) % SeqSpace = (n - m) % SeqSpace
    <3> DEFINE z == n - m
           k == 1
    <3>1. z \in Int /\ k \in Int /\ SeqSpace \in Nat \ {0} BY Numbers DEF Packet
    <3> HIDE DEF z, k
    <3>2. (z + SeqSpace * k) % SeqSpace = z % SeqSpace BY <3>1, Multiple
    <3> QED BY <3>2 DEF z, k
  <2>3. ((n - m) + SeqSpace) % SeqSpace = (n - m) + SeqSpace
    BY <2>1, <1>h
  <2>4. d = (n - m) + SeqSpace BY <2>2, <2>3, <1>2, <1>h DEF Packet
  <2>5. Diff(Seqn(n), Seqn(m)) = IF d < SeqSpace \div 2 THEN d ELSE d - SeqSpace
    BY DEF Diff, d
  <2> QED BY <2>1, <2>4, <2>5, <1>h DEF Packet
<1> QED BY <1>3, <1>4 DEF Packet

\* A packet's slot, also counted from the sequence number of another.
LEMMA SlotIs ==
  ASSUME NEW n \in Int, NEW j \in Int
  PROVE  /\ SlotOf(Seqn(n)) = (FirstSeq + n) % WINDOW_SIZE
         /\ SlotOf(Seqn(n) + j) = SlotOf(Seqn(n + j))
<1> DEFINE x == FirstSeq + n
           y == FirstSeq + (n + j)
<1>1. x \in Int /\ y \in Int /\ y = x + j /\ x % SeqSpace \in Int
  <2>1. x \in Int /\ y \in Int /\ y = x + j BY Numbers
  <2> HIDE DEF x
  <2> QED BY <2>1, Numbers, Division
<1> HIDE DEF x, y
<1>2. (x % SeqSpace) % WINDOW_SIZE = x % WINDOW_SIZE /\ (y % SeqSpace) % WINDOW_SIZE = y % WINDOW_SIZE
  <2>1. ASSUME NEW z \in Int
        PROVE  (z % SeqSpace) % WINDOW_SIZE = z % WINDOW_SIZE
    BY Numbers, Nested
  <2> QED BY <1>1, <2>1
<1>3. ((x % SeqSpace) + j) % WINDOW_SIZE = y % WINDOW_SIZE
  <2> DEFINE u == x % SeqSpace
  <2>1. u \in Int /\ u % WINDOW_SIZE = x % WINDOW_SIZE BY <1>1, <1>2
  <2> HIDE DEF u
  <2>2. ((u % WINDOW_SIZE) + j) % WINDOW_SIZE = (u + j) % WINDOW_SIZE
    BY <2>1, Numbers, Wrapping
  <2>3. ((x % WINDOW_SIZE) + j) % WINDOW_SIZE = (x + j) % WINDOW_SIZE
    BY <1>1, Numbers, Wrapping
  <2>4. (u + j) % WINDOW_SIZE = y % WINDOW_SIZE BY <2>1, <2>2, <2>3, <1>1
  <2> QED BY <2>4 DEF u
<1> QED BY <1>2, <1>3 DEF SlotOf, Seqn, x, y

\* Two packets of one window do not share a slot.
LEMMA SlotsDiffer ==
  ASSUME NEW n \in Int, NEW m \in Int, SlotOf(Seqn(n)) = SlotOf(Seqn(m)),
         n - m < WINDOW_SIZE, m - n < WINDOW_SIZE
  PROVE  n = m
<1> DEFINE x == FirstSeq + n
           y == FirstSeq + m
<1>a. x \in Int /\ y \in Int /\ x - y = n - m /\ WINDOW_SIZE \in Nat \ {0}
  BY Numbers
<1>b. SlotOf(Seqn(n)) = x % WINDOW_SIZE /\ SlotOf(Seqn(m)) = y % WINDOW_SIZE
  BY SlotIs
<1> HIDE DEF x, y
<1>1. x % WINDOW_SIZE = y % WINDOW_SIZE BY <1>b
<1>2. /\ x = WINDOW_SIZE * (x \div WINDOW_SIZE) + (x % WINDOW_SIZE)
      /\ y = WINDOW_SIZE * (y \div WINDOW_SIZE) + (y % WINDOW_SIZE)
      /\ x \div WINDOW_SIZE \in Int /\ y \div WINDOW_SIZE \in Int /\ y % WINDOW_SIZE \in Int
  <2>1. \A z \in Int : z = WINDOW_SIZE * (z \div WINDOW_SIZE) + (z % WINDOW_SIZE)
                        /\ z \div WINDOW_SIZE \in Int /\ z % WINDOW_SIZE \in Int
    BY <1>a, Division
  <2> QED BY ONLY <2>1, <1>a
<1>3. PICK k \in Int : x - y = WINDOW_SIZE * k
  <2>1. x - y = WINDOW_SIZE * ((x \div WINDOW_SIZE) - (y \div WINDOW_SIZE))
    BY <1>1, <1>2, <1>a
  <2>2. (x \div WINDOW_SIZE) - (y \div WINDOW_SIZE) \in Int
    BY <1>2
  <2> QED BY <2>1, <2>2
<1>4. k = 0 BY <1>a, <1>3, NearMultiple
<1> QED BY <1>a, <1>3, <1>4

\* The slot of a packet in the window, counted from the slot of base_seq.
LEMMA SlotRank ==
  ASSUME NEW b \in Int, NEW n \in Int, b <= n, n < b + WINDOW_SIZE
  PROVE  (SlotOf(Seqn(n)) - Seqn(b)) % WINDOW_SIZE = n - b
<1> DEFINE x == FirstSeq + n
           q == Seqn(b)
<1>1. x \in Int /\ q \in Int BY Numbers, SeqnType
<1>2. q % WINDOW_SIZE = (FirstSeq + b) % WINDOW_SIZE BY SlotIs DEF SlotOf
<1>3. SlotOf(Seqn(n)) = x % WINDOW_SIZE BY SlotIs
<1>4. FirstSeq + b \in Int /\ x - (FirstSeq + b) = n - b BY Numbers
<1> DEFINE y == FirstSeq + b
           w == WINDOW_SIZE
<1> HIDE DEF x, q, y
<1>y. y \in Int
  BY <1>4 DEF y
<1>w. w \in Nat \ {0}
  BY Numbers
<1> HIDE DEF w
<1>5. /\ ((x % w) - (y % w)) % w = (x - y) % w
      /\ (x % w) % w = x % w
      /\ x % w \in Int
  <2>1. ((x % w) - (y % w)) % w = (x - y) % w BY <1>1, <1>y, <1>w, Wrapping
  <2>2. x % w \in 0 .. (w - 1) BY <1>1, <1>w, Division
  <2>3. (x % w) % w = x % w BY <2>2, <1>w
  <2> QED BY <2>1, <2>2, <2>3, <1>w
<1>6. (((x % w) % w) - (q % w)) % w = ((x % w) - q) % w
  <2> DEFINE u == x % w
  <2>1. u \in Int BY <1>5
  <2> HIDE DEF u
  <2>2. ((u % w) - (q % w)) % w = (u - q) % w BY <2>1, <1>1, <1>w, Wrapping
  <2> QED BY <2>2 DEF u
<1>7. ((x % w) - q) % w = (n - b) % w
  <2>1. q % w = y % w BY <1>2 DEF y, w
  <2>2. x - y = n - b BY <1>4 DEF y
  <2> QED BY <2>1, <2>2, <1>5, <1>6
<1>8. (n - b) % w = n - b
  <2>1. n - b \in 0 .. (w - 1) BY <1>w DEF w
  <2> QED BY <2>1, <1>w
<1> QED BY <1>3, <1>7, <1>8 DEF q, w


-----------------------------------------------------------------------------
(* Rings and deliveries *)

RangeOf(o) == {o[i] : i \in 1 .. Len(o)}
Rising(o) == \A i, j \in 1 .. Len(o) : i < j => o[i] < o[j]
Waiting(sl) == {sl[s] : s \in Slot} \ {None}

\* The slots sl hold packets of the window that begins with packet b, each in
\* its own slot.
InWindow(sl, b) ==
  \A s \in Slot : sl[s] # None => sl[s] \in b .. (b + WINDOW_SIZE - 1) /\ SlotOf(Seqn(sl[s])) = s

\* A ring whose base_seq is that of packet b, with slots sl and count k, that has
\* delivered o.
Aligned(sl, k, o, b) ==
  /\ b \in 0 .. Packets
  /\ sl \in [Slot -> Packet \cup {None}]
  /\ o \in Seq(Packet)
  /\ InWindow(sl, b)
  /\ Rising(o)
  /\ \A i \in 1 .. Len(o) : o[i] < b
  /\ k \in Nat
  /\ Cardinality(Waiting(sl)) <= k
  /\ k <= Cardinality(Waiting(sl)) + b

LEMMA PacketNat == Packet \subseteq Nat /\ IsFiniteSet(Packet) /\ Cardinality(Packet) = Packets
                   /\ None \notin Packet /\ \A p \in Packet : p < Packets
<1>1. Packets \in Nat BY Numbers
<1>2. IsFiniteSet(0 .. (Packets - 1)) /\ Cardinality(0 .. (Packets - 1)) = Packets
  BY <1>1, FS_Interval
<1> QED BY <1>1, <1>2 DEF Packet, None

LEMMA WaitingFinite ==
  ASSUME NEW sl \in [Slot -> Packet \cup {None}]
  PROVE  Waiting(sl) \subseteq Packet /\ IsFiniteSet(Waiting(sl)) /\ Cardinality(Waiting(sl)) \in Nat
<1>1. Waiting(sl) \subseteq Packet BY DEF Waiting
<1> QED BY <1>1, PacketNat, FS_Subset, FS_CardinalityType

\* A rising sequence names as many packets as it is long.
LEMMA RisingCount ==
  ASSUME NEW o \in Seq(Packet), Rising(o)
  PROVE  IsFiniteSet(RangeOf(o)) /\ Cardinality(RangeOf(o)) = Len(o) /\ Len(o) \in Nat
<1> DEFINE f == [i \in 1 .. Len(o) |-> o[i]]
<1>0. Len(o) \in Nat /\ \A i \in 1 .. Len(o) : o[i] \in Nat
  <2>1. Len(o) \in Nat /\ \A i \in 1 .. Len(o) : o[i] \in Packet
    OBVIOUS
  <2> QED BY <2>1, PacketNat
<1>1. \A i, j \in 1 .. Len(o) : i # j => o[i] # o[j]
  <2> TAKE i, j \in 1 .. Len(o)
  <2>1. i \in Nat /\ j \in Nat /\ o[i] \in Nat /\ o[j] \in Nat
    BY <1>0
  <2>2. i < j => o[i] < o[j] BY DEF Rising
  <2>3. j < i => o[j] < o[i] BY DEF Rising
  <2> QED BY <2>1, <2>2, <2>3
<1>2. f \in Bijection(1 .. Len(o), RangeOf(o))
  <2>1. f \in [1 .. Len(o) -> RangeOf(o)] BY DEF RangeOf
  <2>2. \A i, j \in 1 .. Len(o) : f[i] = f[j] => i = j BY <1>1
  <2>3. \A t \in RangeOf(o) : \E i \in 1 .. Len(o) : f[i] = t
    BY DEF RangeOf
  <2> HIDE DEF f
  <2> QED BY <2>1, <2>2, <2>3, Fun_IsBij DEF ExistsBijection
<1> HIDE DEF f
<1>3. ExistsBijection(1 .. Len(o), RangeOf(o)) BY <1>2 DEF ExistsBijection
<1>4. IsFiniteSet(1 .. Len(o)) /\ Cardinality(1 .. Len(o)) = Len(o)
  BY <1>0, FS_Interval
<1> QED BY <1>0, <1>3, <1>4, FS_Bijection

\* Two rising sequences, the second above the first.
LEMMA RisingJoin ==
  ASSUME NEW o \in Seq(Packet), NEW t \in Seq(Packet), Rising(o), Rising(t),
         \A i \in 1 .. Len(o), j \in 1 .. Len(t) : o[i] < t[j]
  PROVE  o \o t \in Seq(Packet) /\ Rising(o \o t) /\ RangeOf(o \o t) = RangeOf(o) \cup RangeOf(t)
<1> DEFINE u == o \o t
           m == Len(o)
           n == Len(t)
<1>1. m \in Nat /\ n \in Nat /\ u \in Seq(Packet) /\ Len(u) = m + n
  BY ConcatProperties
<1>2. \A i \in 1 .. (m + n) : u[i] = IF i <= m THEN o[i] ELSE t[i - m]
  BY ConcatProperties
<1>3. \A i \in 1 .. m, j \in 1 .. n : o[i] < t[j]
  OBVIOUS
<1> HIDE DEF u
<1>4. Rising(u)
  <2> SUFFICES ASSUME NEW i \in 1 .. (m + n), NEW j \in 1 .. (m + n), i < j
               PROVE  u[i] < u[j]
    BY <1>1 DEF Rising
  <2>1. CASE j <= m
    <3>1. i \in 1 .. m /\ j \in 1 .. m BY <1>1, <2>1
    <3> QED BY <3>1, <1>2, <2>1 DEF Rising
  <2>2. CASE i <= m /\ ~(j <= m)
    <3>1. i \in 1 .. m /\ j - m \in 1 .. n BY <1>1, <2>2
    <3> QED BY <3>1, <1>2, <1>3, <2>2
  <2>3. CASE ~(i <= m) /\ ~(j <= m)
    <3>1. i - m \in 1 .. n /\ j - m \in 1 .. n /\ i - m < j - m
      BY <1>1, <2>3
    <3> QED BY <3>1, <1>2, <2>3 DEF Rising
  <2> QED BY <1>1, <2>1, <2>2, <2>3
<1>5. RangeOf(u) \subseteq RangeOf(o) \cup RangeOf(t)
  <2> SUFFICES ASSUME NEW i \in 1 .. (m + n)
               PROVE  u[i] \in RangeOf(o) \cup RangeOf(t)
    BY <1>1 DEF RangeOf
  <2>1. CASE i <= m
    <3>1. i \in 1 .. m /\ u[i] = o[i] BY <1>1, <1>2, <2>1
    <3> QED BY <3>1 DEF RangeOf
  <2>2. CASE ~(i <= m)
    <3>1. i - m \in 1 .. n /\ u[i] = t[i - m] BY <1>1, <1>2, <2>2
    <3> QED BY <3>1 DEF RangeOf
  <2> QED BY <2>1, <2>2
<1>6. RangeOf(o) \cup RangeOf(t) \subseteq RangeOf(u)
  <2>1. ASSUME NEW i \in 1 .. m
        PROVE  o[i] \in RangeOf(u)
    <3>1. i \in 1 .. (m + n) /\ u[i] = o[i] BY <1>1, <1>2
    <3> QED BY <3>1, <1>1 DEF RangeOf
  <2>2. ASSUME NEW i \in 1 .. n
        PROVE  t[i] \in RangeOf(u)
    <3>1. m + i \in 1 .. (m + n) /\ ~(m + i <= m) /\ (m + i) - m = i
      BY <1>1
    <3>2. u[m + i] = t[i] BY <3>1, <1>2
    <3> QED BY <3>1, <3>2, <1>1 DEF RangeOf
  <2> QED BY <2>1, <2>2 DEF RangeOf
<1> QED BY <1>1, <1>4, <1>5, <1>6 DEF u

\* A slot of the window holds the packet whose slot it is, or nothing.
LEMMA OwnSlot ==
  ASSUME NEW b \in 0 .. Packets, NEW sl \in [Slot -> Packet \cup {None}], InWindow(sl, b),
         NEW n \in Int, b <= n, n < b + WINDOW_SIZE, sl[SlotOf(Seqn(n))] # None
  PROVE  sl[SlotOf(Seqn(n))] = n
<1> DEFINE s == SlotOf(Seqn(n))
           p == sl[s]
<1>0. b \in Int /\ WINDOW_SIZE \in Nat BY Numbers
<1>1. s \in Slot BY SeqnType, SlotType
<1>2. p \in b .. (b + WINDOW_SIZE - 1) /\ SlotOf(Seqn(p)) = s
  BY <1>1 DEF InWindow
<1>3. p \in Int /\ p - n < WINDOW_SIZE /\ n - p < WINDOW_SIZE
  BY <1>0, <1>2
<1> HIDE DEF p
<1>4. p = n BY <1>2, <1>3, SlotsDiffer
<1> QED BY <1>4 DEF p

\* The n slots from base_seq on: what they hold, and the ring without it.
Passed(b, sl, n) == [j \in 1 .. n |-> sl[SlotOf(Seqn(b) + j - 1)]]
Emptied(b, sl, n) == [s \in Slot |-> IF (s - Seqn(b)) % WINDOW_SIZE < n THEN None ELSE sl[s]]

\* The slots before packet c are emptied when base_seq moves from b to c.
Below(sl, c) == [s \in Slot |-> IF sl[s] < c THEN None ELSE sl[s]]

LEMMA EmptiedIs ==
  ASSUME NEW b \in 0 .. Packets, NEW c \in 0 .. Packets, b <= c,
         NEW sl \in [Slot -> Packet \cup {None}], InWindow(sl, b)
  PROVE  Emptied(b, sl, c - b) = Below(sl, c)
<1>0. b \in Int /\ c \in Int /\ Packets \in Nat /\ WINDOW_SIZE \in Nat \ {0}
  BY Numbers
<1>1. ASSUME NEW s \in Slot
      PROVE  (IF (s - Seqn(b)) % WINDOW_SIZE < c - b THEN None ELSE sl[s])
             = (IF sl[s] < c THEN None ELSE sl[s])
  <2>1. CASE sl[s] = None BY <2>1
  <2>2. CASE sl[s] # None
    <3> DEFINE p == sl[s]
    <3>1. p \in b .. (b + WINDOW_SIZE - 1) /\ SlotOf(Seqn(p)) = s
      BY <2>2 DEF InWindow
    <3> HIDE DEF p
    <3>2. p \in Int /\ b <= p /\ p < b + WINDOW_SIZE BY <1>0, <3>1
    <3>3. (s - Seqn(b)) % WINDOW_SIZE = p - b BY <1>0, <3>1, <3>2, SlotRank
    <3>4. p - b < c - b <=> p < c BY <1>0, <3>2
    <3> QED BY <3>3, <3>4 DEF p
  <2> QED BY <2>1, <2>2
<1> QED BY <1>1 DEF Below, Emptied

LEMMA BelowWaits ==
  ASSUME NEW c \in 0 .. Packets, NEW sl \in [Slot -> Packet \cup {None}]
  PROVE  /\ Below(sl, c) \in [Slot -> Packet \cup {None}]
         /\ Waiting(Below(sl, c)) = Waiting(sl) \ {p \in Waiting(sl) : p < c}
<1>0. Packets \in Nat /\ \A s \in Slot : sl[s] \in Nat
  <2>1. \A s \in Slot : sl[s] \in Packet \cup {None}
    OBVIOUS
  <2> QED BY <2>1, PacketNat, Numbers DEF None
<1>1. \A s \in Slot : Below(sl, c)[s] = IF sl[s] < c THEN None ELSE sl[s]
  BY DEF Below
<1>2. Below(sl, c) \in [Slot -> Packet \cup {None}] BY DEF Below
<1>3. Waiting(Below(sl, c)) \subseteq Waiting(sl) \ {p \in Waiting(sl) : p < c}
  BY <1>1 DEF Waiting
<1>4. Waiting(sl) \ {p \in Waiting(sl) : p < c} \subseteq Waiting(Below(sl, c))
  BY <1>1 DEF Waiting
<1> QED BY <1>2, <1>3, <1>4

\* base_seq moves from b to c, delivering what waits in between.
LEMMA Moved ==
  ASSUME NEW sl, NEW k, NEW o, NEW b, Aligned(sl, k, o, b),
         NEW c \in 0 .. Packets, b <= c,
         NEW sent \in Seq(Packet), Rising(sent),
         RangeOf(sent) = {p \in Waiting(sl) : p < c}
  PROVE  /\ Aligned(Below(sl, c), k - Len(sent), o \o sent, c)
         /\ Len(sent) \in Nat
         /\ Cardinality(Waiting(Below(sl, c))) = Cardinality(Waiting(sl)) - Len(sent)
         /\ RangeOf(o \o sent) \cup Waiting(Below(sl, c)) = RangeOf(o) \cup Waiting(sl)
         /\ k - Len(sent) <= Cardinality(Waiting(Below(sl, c))) + b
<1> DEFINE z == Below(sl, c)
           gone == {p \in Waiting(sl) : p < c}
           m == Cardinality(Waiting(sl))
           d == Len(sent)
<1>0. /\ b \in 0 .. Packets /\ sl \in [Slot -> Packet \cup {None}] /\ o \in Seq(Packet) /\ InWindow(sl, b)
      /\ Rising(o) /\ (\A i \in 1 .. Len(o) : o[i] < b) /\ k \in Nat /\ m <= k /\ k <= m + b
  BY DEF Aligned
<1>n. b \in Nat /\ c \in Nat /\ WINDOW_SIZE \in Nat \ {0}
  BY <1>0, Numbers
<1>1. Waiting(sl) \subseteq Packet /\ IsFiniteSet(Waiting(sl)) /\ m \in Nat
  BY <1>0, WaitingFinite
<1>2. z \in [Slot -> Packet \cup {None}] /\ Waiting(z) = Waiting(sl) \ gone
  BY <1>0, BelowWaits
<1>3. Cardinality(gone) = d /\ d \in Nat BY RisingCount
<1>4. Cardinality(Waiting(z)) = m - d
  <2>1. Cardinality(Waiting(sl) \ gone) = m - Cardinality(Waiting(sl) \cap gone)
    BY <1>1, FS_Difference
  <2>2. Waiting(sl) \cap gone = gone
    OBVIOUS
  <2> QED BY <2>1, <2>2, <1>2, <1>3
<1>5. ASSUME NEW p \in Waiting(sl)
      PROVE  b <= p /\ p < b + WINDOW_SIZE /\ p \in Nat
  <2>1. PICK s \in Slot : p = sl[s] /\ sl[s] # None BY DEF Waiting
  <2>2. p \in b .. (b + WINDOW_SIZE - 1) BY <1>0, <2>1 DEF InWindow
  <2> QED BY <1>n, <2>2
<1>6. \A j \in 1 .. Len(sent) : sent[j] \in gone BY DEF RangeOf
<1>7. /\ o \o sent \in Seq(Packet) /\ Rising(o \o sent)
      /\ RangeOf(o \o sent) = RangeOf(o) \cup gone
  <2>1. ASSUME NEW i \in 1 .. Len(o), NEW j \in 1 .. Len(sent)
        PROVE  o[i] < sent[j]
    <3>1. o[i] \in Packet /\ o[i] < b BY <1>0
    <3>2. o[i] \in Nat BY <3>1, PacketNat
    <3>3. sent[j] \in Waiting(sl) BY <1>6
    <3>4. b <= sent[j] /\ sent[j] \in Nat BY <3>3, <1>5
    <3> QED BY <3>1, <3>2, <3>4, <1>n
  <2> QED BY <2>1, <1>0, RisingJoin
<1>8. InWindow(z, c)
  <2> SUFFICES ASSUME NEW s \in Slot, z[s] # None
               PROVE  z[s] \in c .. (c + WINDOW_SIZE - 1) /\ SlotOf(Seqn(z[s])) = s
    BY DEF InWindow
  <2>1. z[s] = sl[s] /\ ~(sl[s] < c) /\ sl[s] # None BY DEF Below
  <2>2. sl[s] \in Waiting(sl) /\ SlotOf(Seqn(sl[s])) = s BY <2>1, <1>0 DEF Waiting, InWindow
  <2>3. sl[s] \in Nat /\ sl[s] < b + WINDOW_SIZE BY <2>2, <1>5
  <2>4. sl[s] \in c .. (c + WINDOW_SIZE - 1) BY <2>1, <2>3, <1>n
  <2> QED BY <2>1, <2>2, <2>4
<1>9. \A i \in 1 .. Len(o \o sent) : (o \o sent)[i] < c
  <2> SUFFICES ASSUME NEW i \in 1 .. Len(o \o sent)
               PROVE  (o \o sent)[i] < c
    OBVIOUS
  <2>1. (o \o sent)[i] \in RangeOf(o) \cup gone BY <1>7 DEF RangeOf
  <2>2. ASSUME NEW q \in RangeOf(o)
        PROVE  q < c
    <3>1. PICK j \in 1 .. Len(o) : q = o[j] BY DEF RangeOf
    <3>2. o[j] < b /\ o[j] \in Packet BY <1>0
    <3>3. o[j] \in Nat BY <3>2, PacketNat
    <3> QED BY <3>1, <3>2, <3>3, <1>n
  <2> QED BY <2>1, <2>2
<1>10. k - d \in Nat /\ m - d <= k - d /\ k - d <= (m - d) + b /\ k - d <= (m - d) + c
  <2>1. m - d >= 0
    <3>1. IsFiniteSet(Waiting(z)) /\ Cardinality(Waiting(z)) \in Nat
      BY <1>2, WaitingFinite
    <3> QED BY <3>1, <1>4, <1>1, <1>3
  <2> HIDE DEF m, d
  <2> QED BY <2>1, <1>0, <1>1, <1>3, <1>n
<1>11. Aligned(z, k - d, o \o sent, c)
  <2> HIDE DEF z, m, d
  <2> QED BY <1>2, <1>4, <1>7, <1>8, <1>9, <1>10 DEF Aligned
<1>12. RangeOf(o \o sent) \cup Waiting(z) = RangeOf(o) \cup Waiting(sl)
  <2> HIDE DEF z
  <2> QED BY <1>2, <1>7
<1> QED BY <1>3, <1>4, <1>10, <1>11, <1>12

-----------------------------------------------------------------------------
(* What force_flush_until delivers *)

\* Every set of numbers that is not empty has a least element: an induction
\* over a length looks at the least length that fails.
LEMMA LeastNumber ==
  ASSUME NEW S \in SUBSET Nat, S # {}
  PROVE  \E m \in S : \A k \in S : m <= k
<1> DEFINE R == OpToRel(<, Nat)
<1>1. IsWellFoundedOn(R, Nat) BY NatLessThanWellFounded
<1>2. \A k, m \in Nat : k < m => <<k, m>> \in R BY DEF OpToRel
<1> HIDE DEF R
<1>3. PICK m \in S : \A k \in S : ~(<<k, m>> \in R) BY <1>1, WFMin
<1>4. \A k \in S : ~(k < m) BY <1>2, <1>3
<1> QED BY <1>4

\* f keeps the packets among the first n slots of t, slot by slot.
Keeps(f, t, n) ==
  f = [j \in 0 .. n |->
         IF j = 0 THEN <<>> ELSE IF t[j] = None THEN f[j - 1] ELSE Append(f[j - 1], t[j])]

LEMMA KeepsDefined ==
  ASSUME NEW t, NEW N \in Nat
  PROVE  \E f : Keeps(f, t, N)
<1> DEFINE Bad == {n \in 0 .. N : ~ \E f : Keeps(f, t, n)}
<1>1. ASSUME Bad # {}
      PROVE  FALSE
  <2>1. PICK m \in Bad : \A k \in Bad : m <= k
    <3>1. Bad \subseteq Nat
      OBVIOUS
    <3> HIDE DEF Bad
    <3> QED BY <1>1, <3>1, LeastNumber
  <2>2. CASE m = 0
    <3> DEFINE f == [j \in 0 .. 0 |-> <<>>]
               h == [j \in 0 .. 0 |->
                       IF j = 0 THEN <<>> ELSE IF t[j] = None THEN f[j - 1] ELSE Append(f[j - 1], t[j])]
    <3>1. \A j \in 0 .. 0 : f[j] = h[j]
      OBVIOUS
    <3>2. f = h BY <3>1, ZenonT(60)
    <3>3. Keeps(f, t, 0) BY <3>2 DEF Keeps
    <3> HIDE DEF f, h
    <3> QED BY <2>2, <3>3
  <2>3. CASE m # 0
    <3>1. m - 1 \in 0 .. N /\ ~(m <= m - 1) /\ m \in Nat /\ m >= 1
      BY <2>3
    <3>2. \E g : Keeps(g, t, m - 1) BY <2>1, <3>1
    <3>3. PICK g : Keeps(g, t, m - 1) BY <3>2
    <3> DEFINE next(j) == IF t[j] = None THEN g[j - 1] ELSE Append(g[j - 1], t[j])
               f == [j \in 0 .. m |-> IF j < m THEN g[j] ELSE next(j)]
               h == [j \in 0 .. m |->
                       IF j = 0 THEN <<>> ELSE IF t[j] = None THEN f[j - 1] ELSE Append(f[j - 1], t[j])]
    <3>4. ASSUME NEW j \in 0 .. m
          PROVE  f[j] = h[j]
      <4>1. j # 0 => j - 1 \in 0 .. m /\ j - 1 < m /\ f[j - 1] = g[j - 1]
        BY <3>1
      <4>2. CASE j < m
        <5>1. j \in 0 .. m - 1 BY <3>1, <4>2
        <5>2. g[j] = IF j = 0 THEN <<>> ELSE next(j) BY <3>3, <5>1 DEF Keeps
        <5> QED BY <4>1, <4>2, <5>2
      <4>3. CASE ~(j < m)
        <5>1. j # 0 BY <3>1, <4>3
        <5> QED BY <4>1, <4>3, <5>1
      <4> QED BY <4>2, <4>3
    <3>5. f = h BY <3>4, ZenonT(60)
    <3>6. Keeps(f, t, m) BY <3>5 DEF Keeps
    <3> HIDE DEF f, h
    <3> QED BY <3>6
  <2> QED BY <2>2, <2>3
<1>2. N \notin Bad
  <2> HIDE DEF Bad
  <2> QED BY <1>1
<1> QED BY <1>2

\* Entry j of t is packet b + j - 1 or nothing.
CountsFrom(t, N, b) == \A j \in 1 .. N : t[j] \in Packet \cup {None} /\ (t[j] # None => t[j] = b + j - 1)

\* The packets among the first j entries.
Held(t, j) == {t[i] : i \in 1 .. j} \ {None}

\* What is kept of such slots is in order.
LEMMA KeptIs ==
  ASSUME NEW t, NEW N \in Nat, NEW f, Keeps(f, t, N), NEW b \in Nat, CountsFrom(t, N, b), NEW j \in 0 .. N
  PROVE  f[j] \in Seq(Packet) /\ Rising(f[j]) /\ RangeOf(f[j]) = Held(t, j)
<1> DEFINE Good(i) == f[i] \in Seq(Packet) /\ Rising(f[i]) /\ RangeOf(f[i]) = {t[l] : l \in 1 .. i} \ {None}
           Bad == {i \in 0 .. N : ~Good(i)}
<1>s. \A i \in 0 .. N : f[i] = IF i = 0 THEN <<>> ELSE IF t[i] = None THEN f[i - 1] ELSE Append(f[i - 1], t[i])
  BY DEF Keeps
<1>c. \A i \in 1 .. N : t[i] \in Packet \cup {None} /\ (t[i] # None => t[i] = b + i - 1)
  BY DEF CountsFrom
<1>z. Good(0)
  <2>1. f[0] = <<>> BY <1>s
  <2>2. {t[l] : l \in 1 .. 0} = {}
    OBVIOUS
  <2> QED BY <2>1, <2>2 DEF Rising, RangeOf
<1>i. ASSUME NEW i \in 1 .. N, Good(i - 1)
      PROVE  Good(i)
  <2>1. {t[l] : l \in 1 .. i} = {t[l] : l \in 1 .. (i - 1)} \cup {t[i]}
    <3>1. 1 .. i = (1 .. (i - 1)) \cup {i}
      OBVIOUS
    <3> QED BY <3>1
  <2>2. CASE t[i] = None
    <3>1. f[i] = f[i - 1] BY <1>s, <2>2
    <3> QED BY <1>i, <2>1, <2>2, <3>1
  <2>3. CASE t[i] # None
    <3> DEFINE u == <<t[i]>>
    <3>0. i \in 0 .. N /\ i # 0
      OBVIOUS
    <3>a. f[i] = Append(f[i - 1], t[i])
      BY <1>s, <3>0, <2>3
    <3>1. f[i] = Append(f[i - 1], t[i]) /\ t[i] \in Packet /\ t[i] = b + i - 1
      BY <3>a, <2>3, <1>c
    <3>2. u \in Seq(Packet) /\ Len(u) = 1 /\ u[1] = t[i] BY <3>1
    <3>3. Rising(u) /\ RangeOf(u) = {t[i]} BY <3>2 DEF Rising, RangeOf
    <3>4. f[i] = f[i - 1] \o u
      <4>1. f[i - 1] \in Seq(Packet) /\ t[i] \in Packet BY <1>i, <3>1
      <4>2. Append(f[i - 1], t[i]) = f[i - 1] \o <<t[i]>> BY ONLY <4>1, AppendIsConcat
      <4> QED BY <3>1, <4>2
    <3>5. ASSUME NEW a \in 1 .. Len(f[i - 1]), NEW c \in 1 .. Len(u)
          PROVE  f[i - 1][a] < u[c]
      <4>1. f[i - 1][a] \in {t[l] : l \in 1 .. (i - 1)} \ {None}
        BY <1>i DEF RangeOf
      <4>2. PICK l \in 1 .. (i - 1) : f[i - 1][a] = t[l] /\ t[l] # None
        BY <4>1
      <4>3. t[l] = b + l - 1 /\ l \in Nat BY <4>2, <1>c
      <4>4. u[c] = b + i - 1 BY <3>1, <3>2
      <4> QED BY <4>2, <4>3, <4>4
    <3> HIDE DEF u
    <3>6. f[i - 1] \o u \in Seq(Packet) /\ Rising(f[i - 1] \o u)
          /\ RangeOf(f[i - 1] \o u) = RangeOf(f[i - 1]) \cup RangeOf(u)
      BY <1>i, <3>2, <3>3, <3>5, RisingJoin
    <3>7. RangeOf(f[i]) = {t[l] : l \in 1 .. i} \ {None}
      BY <1>i, <2>1, <2>3, <3>3, <3>4, <3>6
    <3> QED BY <3>4, <3>6, <3>7
  <2> QED BY <2>2, <2>3
<1>1. ASSUME Bad # {}
      PROVE  FALSE
  <2>1. PICK m \in Bad : \A k \in Bad : m <= k
    <3>1. Bad \subseteq Nat
      OBVIOUS
    <3> HIDE DEF Bad
    <3> QED BY <1>1, <3>1, LeastNumber
  <2>2. m # 0 /\ m \in 0 .. N /\ ~Good(m) BY <2>1, <1>z
  <2>3. m \in 1 .. N /\ m - 1 \in 0 .. N /\ ~(m <= m - 1) BY <2>2
  <2>4. Good(m - 1) BY <2>1, <2>3
  <2> HIDE DEF Good
  <2> QED BY <2>2, <2>3, <2>4, <1>i
<1> QED
  <2>1. j \notin Bad BY <1>1
  <2> QED BY <2>1 DEF Held

-----------------------------------------------------------------------------
(* The handlers without FEC *)

NoFec == [port |-> FALSE, active |-> FALSE, groups |-> [i \in 1 .. FEC_MAX_GROUPS |-> NoGroup], minEnd |-> NoSeq]

\* The state of a handler: phase, base_seq or its packet, slots, count, delivered.
Ring(ph, q, sl, k, o) ==
  [r |-> [phase |-> ph, base |-> q, slots |-> sl, count |-> k], fec |-> NoFec, out |-> o]
Rec(ph, b, sl, k, o) == Ring(ph, Seqn(b), sl, k, o)

\* After n packets there is nothing more to deliver in order.
Stops(b, sl, k, n) ==
  /\ n \in 0 .. k
  /\ n <= WINDOW_SIZE
  /\ \A j \in 0 .. (n - 1) : sl[SlotOf(Seqn(b + j))] # None
  /\ n = k \/ n = WINDOW_SIZE \/ sl[SlotOf(Seqn(b + n))] = None

\* Counting slots from base_seq is counting packets from b.
LEMMA SlotAhead ==
  ASSUME NEW b \in Int, NEW j \in Int
  PROVE  SlotOf(Seqn(b) + j) = SlotOf(Seqn(b + j)) /\ SlotOf(Seqn(b + j)) \in Slot
<1>1. b + j \in Int
  OBVIOUS
<1> QED BY <1>1, SlotIs, SeqnType, SlotType

\* An update of the ring and of what is delivered.
LEMMA FourFields ==
  ASSUME NEW x, NEW a, NEW b, NEW c, NEW d, NEW f, NEW o,
         x = [r |-> [phase |-> a, base |-> b, slots |-> c, count |-> d], fec |-> f, out |-> o],
         NEW b2, NEW d2, NEW c2, NEW o2
  PROVE  [x EXCEPT !.r.base = b2, !.r.count = d2, !.r.slots = c2, !.out = o2]
         = [r |-> [phase |-> a, base |-> b2, slots |-> c2, count |-> d2], fec |-> f, out |-> o2]
<1> DEFINE x1 == [x EXCEPT !.r.base = b2]
           x2 == [x1 EXCEPT !.r.count = d2]
           x3 == [x2 EXCEPT !.r.slots = c2]
           x4 == [x3 EXCEPT !.out = o2]
<1>1. x1 = [r |-> [phase |-> a, base |-> b2, slots |-> c, count |-> d], fec |-> f, out |-> o]
  OBVIOUS
<1>2. [x EXCEPT !.r.base = b2, !.r.count = d2, !.r.slots = c2, !.out = o2] = x4
  OBVIOUS
<1> HIDE DEF x1
<1>3. x2 = [r |-> [phase |-> a, base |-> b2, slots |-> c, count |-> d2], fec |-> f, out |-> o]
  BY <1>1
<1> HIDE DEF x2
<1>4. x3 = [r |-> [phase |-> a, base |-> b2, slots |-> c2, count |-> d2], fec |-> f, out |-> o]
  BY <1>3
<1> HIDE DEF x3
<1>5. x4 = [r |-> [phase |-> a, base |-> b2, slots |-> c2, count |-> d2], fec |-> f, out |-> o2]
  BY <1>4
<1> HIDE DEF x4
<1> QED BY <1>2, <1>5

\* flush_consecutive of n packets.
LEMMA FlushFields ==
  ASSUME NEW ph, NEW b, NEW sl, NEW k, NEW o, NEW n, FlushLength(Rec(ph, b, sl, k, o)) = n
  PROVE  FlushConsecutive(Rec(ph, b, sl, k, o)) =
           Ring(ph, (Seqn(b) + n) % SeqSpace, Emptied(b, sl, n), k - n, o \o Passed(b, sl, n))
<1> DEFINE x == Rec(ph, b, sl, k, o)
           q == Seqn(b)
           b2 == (q + n) % SeqSpace
           k2 == k - n
           s2 == Emptied(b, sl, n)
           o2 == o \o Passed(b, sl, n)
           vb == (x.r.base + FlushLength(x)) % SeqSpace
           vk == x.r.count - FlushLength(x)
           vs == IF FecEnabled(x.fec) THEN x.r.slots
                 ELSE [s \in Slot |-> IF (s - x.r.base) % WINDOW_SIZE < FlushLength(x) THEN None ELSE x.r.slots[s]]
           vo == x.out \o [j \in 1 .. FlushLength(x) |-> x.r.slots[SlotOf(x.r.base + j - 1)]]
           y == [x EXCEPT !.r.base = vb, !.r.count = vk, !.r.slots = vs, !.out = vo]
<1>0. /\ x.r.base = q /\ x.r.slots = sl /\ x.r.count = k /\ x.fec = NoFec /\ x.out = o
      /\ ~FecEnabled(x.fec) /\ FlushLength(x) = n
  BY DEF Rec, Ring, FecEnabled, NoFec
<1>1. FlushConsecutive(x) = IF y.fec.minEnd # NoSeq /\ Diff(y.r.base, y.fec.minEnd) > 0 THEN ReleaseExpired(y) ELSE y
  <2> HIDE DEF x
  <2> QED BY DEF FlushConsecutive
<1>2. vb = b2 /\ vk = k2 /\ vs = s2 /\ vo = o2
  <2> HIDE DEF x
  <2> QED BY <1>0 DEF Emptied, Passed
<1> HIDE DEF vb, vk, vs, vo, b2, k2, s2, o2
<1>3. y = [r |-> [phase |-> ph, base |-> b2, slots |-> s2, count |-> k2], fec |-> NoFec, out |-> o2]
  <2>1. y = [x EXCEPT !.r.base = b2, !.r.count = k2, !.r.slots = s2, !.out = o2]
    BY <1>2
  <2>2. x = [r |-> [phase |-> ph, base |-> q, slots |-> sl, count |-> k], fec |-> NoFec, out |-> o]
    BY DEF Rec, Ring
  <2> HIDE DEF x, y
  <2> QED BY <2>1, <2>2, FourFields
<1>4. y.fec.minEnd = NoSeq
  <2> HIDE DEF y
  <2> QED BY <1>3 DEF NoFec
<1> HIDE DEF x, y
<1>5. FlushConsecutive(x) = y BY <1>1, <1>4
<1> QED BY <1>3, <1>5 DEF x, b2, k2, s2, o2, Ring

\* flush_consecutive stops: at the end of count, at a hole, or after a round.
LEMMA FlushLengthIs ==
  ASSUME NEW ph, NEW b \in 0 .. Packets, NEW sl \in [Slot -> Packet \cup {None}], NEW k \in Nat, NEW o
  PROVE  \E n : FlushLength(Rec(ph, b, sl, k, o)) = n /\ Stops(b, sl, k, n)
<1>0. WINDOW_SIZE \in Nat \ {0} /\ b \in Int BY Numbers
<1> DEFINE x == Rec(ph, b, sl, k, o)
           stop(j) == j = k \/ sl[SlotOf(Seqn(b) + j)] = None \/ (~FecEnabled(NoFec) /\ j = WINDOW_SIZE)
           ends(j) == stop(j) /\ \A i \in 0 .. (j - 1) : ~stop(i)
           S == {j \in 0 .. k : stop(j)}
<1>1. FlushLength(x) = CHOOSE j \in 0 .. k : ends(j) BY DEF FlushLength, Rec, Ring
<1>2. \E j \in 0 .. k : ends(j)
  <2>1. k \in S /\ S \in SUBSET Nat
    OBVIOUS
  <2> HIDE DEF S
  <2>2. PICK m \in S : \A i \in S : m <= i BY <2>1, LeastNumber
  <2> USE DEF S
  <2>3. m \in 0 .. k /\ stop(m)
    OBVIOUS
  <2>4. ASSUME NEW i \in 0 .. (m - 1)
        PROVE  ~stop(i)
    <3>1. i \in 0 .. k /\ ~(m <= i) BY <2>3
    <3> QED BY <3>1, <2>2
  <2> QED BY <2>3, <2>4
<1> DEFINE n == CHOOSE j \in 0 .. k : ends(j)
<1>3. n \in 0 .. k /\ ends(n) BY <1>2
<1> HIDE DEF n
<1>f. ~FecEnabled(NoFec)
  BY DEF FecEnabled, NoFec
<1>4. n <= WINDOW_SIZE
  <2>1. CASE WINDOW_SIZE < n
    <3>1. WINDOW_SIZE \in 0 .. (n - 1) /\ stop(WINDOW_SIZE) BY <2>1, <1>0, <1>3, <1>f
    <3> QED BY <3>1, <1>3
  <2> QED BY <2>1, <1>0, <1>3
<1>5. ASSUME NEW j \in 0 .. (n - 1)
      PROVE  sl[SlotOf(Seqn(b + j))] # None
  <2>1. ~stop(j) BY <1>3
  <2>2. j \in Int BY <1>3
  <2> QED BY <2>1, <2>2, <1>0, SlotAhead
<1>6. n = k \/ n = WINDOW_SIZE \/ sl[SlotOf(Seqn(b + n))] = None
  <2>1. n \in Int BY <1>3
  <2> QED BY <2>1, <1>0, <1>3, SlotAhead
<1>7. FlushLength(x) = n BY <1>1 DEF n
<1> HIDE DEF x, ends, stop
<1>8. FlushLength(x) = n /\ n \in 0 .. k BY <1>3, <1>7
<1>9. Stops(b, sl, k, n) BY <1>8, <1>4, <1>5, <1>6 DEF Stops
<1> QED BY <1>8, <1>9 DEF x

\* flush_consecutive delivers the packets from base_seq on and leaves the slot
\* of the new base_seq empty.
LEMMA FlushIs ==
  ASSUME NEW ph, NEW b, NEW sl, NEW k, NEW o, Aligned(sl, k, o, b)
  PROVE  \E c, s2, k2, o2 :
           /\ FlushConsecutive(Rec(ph, b, sl, k, o)) = Rec(ph, c, s2, k2, o2)
           /\ Aligned(s2, k2, o2, c)
           /\ s2[SlotOf(Seqn(c))] = None
           /\ RangeOf(o2) \cup Waiting(s2) = RangeOf(o) \cup Waiting(sl)
<1>0. /\ b \in 0 .. Packets /\ sl \in [Slot -> Packet \cup {None}] /\ o \in Seq(Packet) /\ InWindow(sl, b)
      /\ k \in Nat /\ Cardinality(Waiting(sl)) <= k
  BY DEF Aligned
<1>p. PICK n : FlushLength(Rec(ph, b, sl, k, o)) = n /\ Stops(b, sl, k, n)
  BY <1>0, FlushLengthIs
<1>1. /\ n \in 0 .. k
      /\ n <= WINDOW_SIZE
      /\ \A j \in 0 .. (n - 1) : sl[SlotOf(Seqn(b + j))] # None
      /\ n = k \/ n = WINDOW_SIZE \/ sl[SlotOf(Seqn(b + n))] = None
  BY <1>p DEF Stops
<1>n. WINDOW_SIZE \in Nat \ {0} /\ SeqSpace \in Nat \ {0} /\ Packets \in Nat /\ b \in Nat /\ n \in Nat
  BY <1>0, <1>1, Numbers
<1>2. ASSUME NEW j \in 0 .. (n - 1)
      PROVE  sl[SlotOf(Seqn(b + j))] = b + j /\ b + j \in Packet
  <2>1. b + j \in Int /\ b <= b + j /\ b + j < b + WINDOW_SIZE
    BY <1>n, <1>1
  <2>2. sl[SlotOf(Seqn(b + j))] = b + j BY <2>1, <1>0, <1>1, OwnSlot
  <2>3. SlotOf(Seqn(b + j)) \in Slot BY <2>1, SeqnType, SlotType
  <2> QED BY <2>2, <2>3, <1>0, <1>1
<1> DEFINE c == b + n
           sent == Passed(b, sl, n)
<1>3. c \in 0 .. Packets /\ b <= c /\ c \in Nat
  <2>1. CASE n = 0 BY <2>1, <1>0, <1>n
  <2>2. CASE n # 0
    <3>1. n - 1 \in 0 .. (n - 1) BY <2>2, <1>n
    <3>2. b + (n - 1) \in Packet BY <3>1, <1>2
    <3>3. b + (n - 1) < Packets BY <3>2, PacketNat
    <3> QED BY <3>3, <1>n
  <2> QED BY <2>1, <2>2
<1>4. ASSUME NEW j \in 1 .. n
      PROVE  sent[j] = b + j - 1 /\ b + j - 1 \in Packet
  <2>1. j - 1 \in 0 .. (n - 1) /\ j - 1 \in Int /\ b \in Int
    BY <1>n
  <2>2. SlotOf(Seqn(b) + (j - 1)) = SlotOf(Seqn(b + (j - 1)))
    BY <2>1, SlotAhead
  <2>3. Seqn(b) + (j - 1) = Seqn(b) + j - 1 /\ b + (j - 1) = b + j - 1
    BY <1>n, SeqnType
  <2>4. sl[SlotOf(Seqn(b + (j - 1)))] = b + (j - 1) /\ b + (j - 1) \in Packet
    BY <2>1, <1>2
  <2>5. sent[j] = sl[SlotOf(Seqn(b) + j - 1)] BY DEF Passed
  <2> QED BY <2>2, <2>3, <2>4, <2>5
<1>5. sent \in Seq(Packet) /\ Len(sent) = n
  <2>1. sent = [j \in 1 .. n |-> b + j - 1]
    <3>1. sent = [j \in 1 .. n |-> sl[SlotOf(Seqn(b) + j - 1)]]
      BY DEF Passed
    <3>2. \A j \in 1 .. n : sl[SlotOf(Seqn(b) + j - 1)] = b + j - 1
      BY <1>4 DEF Passed
    <3> HIDE DEF sent
    <3> QED BY <3>1, <3>2
  <2> HIDE DEF sent
  <2> QED BY <2>1, <1>1, <1>4
<1>6. Rising(sent) BY <1>n, <1>4, <1>5 DEF Rising
<1>7. RangeOf(sent) = {p \in Waiting(sl) : p < c}
  <2>1. ASSUME NEW j \in 1 .. n
        PROVE  sent[j] \in Waiting(sl) /\ sent[j] < c
    <3>1. sent[j] = b + j - 1 BY <1>4
    <3>2. b + j - 1 < c BY <1>n
    <3>3. j - 1 \in 0 .. (n - 1) /\ b + (j - 1) = b + j - 1 /\ b + (j - 1) \in Int
      BY <1>n
    <3>4. sl[SlotOf(Seqn(b + (j - 1)))] = b + (j - 1) /\ b + (j - 1) \in Packet
      BY <3>3, <1>2
    <3>5. SlotOf(Seqn(b + (j - 1))) \in Slot BY <3>3, SeqnType, SlotType
    <3>6. b + (j - 1) \in Waiting(sl) BY <3>4, <3>5, PacketNat DEF Waiting
    <3> QED BY <3>1, <3>2, <3>3, <3>6
  <2>2. ASSUME NEW p \in Waiting(sl), p < c
        PROVE  p \in RangeOf(sent)
    <3>1. PICK s \in Slot : p = sl[s] /\ sl[s] # None BY DEF Waiting
    <3>2. p \in b .. (b + WINDOW_SIZE - 1) BY <1>0, <3>1 DEF InWindow
    <3>3. p - b + 1 \in 1 .. n /\ b + (p - b + 1) - 1 = p BY <2>2, <3>2, <1>n
    <3>4. sent[p - b + 1] = p BY <3>3, <1>4
    <3> HIDE DEF sent
    <3> QED BY <3>3, <3>4, <1>5 DEF RangeOf
  <2> HIDE DEF sent
  <2> QED BY <2>1, <2>2, <1>5 DEF RangeOf
<1> DEFINE s2 == Below(sl, c)
           k2 == k - n
           o2 == o \o sent
<1>8. /\ Aligned(s2, k2, o2, c)
      /\ Cardinality(Waiting(s2)) = Cardinality(Waiting(sl)) - n
      /\ RangeOf(o2) \cup Waiting(s2) = RangeOf(o) \cup Waiting(sl)
  <2> HIDE DEF sent, c
  <2> QED BY <1>3, <1>5, <1>6, <1>7, Moved
<1>9. s2[SlotOf(Seqn(c))] = None
  <2>1. c \in Int BY <1>3
  <2>2. SlotOf(Seqn(c)) \in Slot BY <2>1, SeqnType, SlotType
  <2>3. \A s \in Slot : s2[s] = IF sl[s] < c THEN None ELSE sl[s]
    BY DEF Below
  <2>4. CASE n = k
    <3>1. s2 \in [Slot -> Packet \cup {None}] BY <1>8 DEF Aligned
    <3>2. IsFiniteSet(Waiting(s2)) /\ Cardinality(Waiting(s2)) \in Nat
      BY <3>1, WaitingFinite
    <3>3. Cardinality(Waiting(sl)) \in Nat BY <1>0, WaitingFinite
    <3>4. Cardinality(Waiting(s2)) = 0 BY <2>4, <3>2, <3>3, <1>8, <1>0
    <3>5. Waiting(s2) = {} BY <3>2, <3>4, FS_EmptySet
    <3> HIDE DEF s2, c
    <3> QED BY <3>5, <2>2 DEF Waiting
  <2>5. CASE n = WINDOW_SIZE
    <3> DEFINE s == SlotOf(Seqn(c))
    <3>1. sl[s] # None => sl[s] \in b .. (b + WINDOW_SIZE - 1)
      BY <2>2, <1>0 DEF InWindow
    <3>2. sl[s] # None => sl[s] < c BY <3>1, <2>5, <1>n
    <3> QED BY <3>2, <2>2, <2>3
  <2>6. CASE sl[SlotOf(Seqn(b + n))] = None BY <2>6, <2>2, <2>3
  <2> QED BY <2>4, <2>5, <2>6, <1>1
<1>10. FlushConsecutive(Rec(ph, b, sl, k, o)) = Rec(ph, c, s2, k2, o2)
  <2>1. (Seqn(b) + n) % SeqSpace = Seqn(c) BY <1>n, SeqnNext
  <2>2. Emptied(b, sl, n) = s2
    <3>1. c - b = n BY <1>n, <1>1
    <3> HIDE DEF c
    <3>2. Emptied(b, sl, c - b) = s2 BY <1>0, <1>3, EmptiedIs
    <3> QED BY <3>1, <3>2
  <2>3. FlushConsecutive(Rec(ph, b, sl, k, o)) =
          Ring(ph, (Seqn(b) + n) % SeqSpace, Emptied(b, sl, n), k - n, o \o Passed(b, sl, n))
    BY <1>p, FlushFields
  <2> QED BY <2>1, <2>2, <2>3 DEF Rec
<1> HIDE DEF s2, k2, o2, c
<1> QED BY <1>8, <1>9, <1>10

\* force_flush_until by n slots, of which it looks at h, one round at most.
LEMMA ForceFields ==
  ASSUME NEW ph, NEW b, NEW sl, NEW k, NEW o, NEW seqn, NEW n \in Nat, n > 0,
         Diff(seqn, Seqn(b)) - WINDOW_SIZE + 1 = n,
         NEW h \in Nat, h = IF n < WINDOW_SIZE THEN n ELSE WINDOW_SIZE
  PROVE  \E f : /\ Keeps(f, Passed(b, sl, h), h)
                /\ ForceFlushUntil(Rec(ph, b, sl, k, o), seqn) =
                     Ring(ph, (Seqn(b) + n) % SeqSpace, Emptied(b, sl, n), (k - Len(f[h])) % SeqSpace, o \o f[h])
<1> DEFINE x == Rec(ph, b, sl, k, o)
           d == Diff(seqn, x.r.base) - WINDOW_SIZE + 1
           passed == [j \in 1 .. (IF d < WINDOW_SIZE THEN d ELSE WINDOW_SIZE) |-> x.r.slots[SlotOf(x.r.base + j - 1)]]
           t == Passed(b, sl, h)
           kept == CHOOSE g : g = [j \in 0 .. Len(passed) |->
                      IF j = 0 THEN <<>> ELSE IF passed[j] = None THEN g[j - 1] ELSE Append(g[j - 1], passed[j])]
           f == CHOOSE g : Keeps(g, t, Len(t))
           vb == (x.r.base + d) % SeqSpace
           vk == (x.r.count - Len(kept[Len(passed)])) % SeqSpace
           vs == [s \in Slot |-> IF (s - x.r.base) % WINDOW_SIZE < d THEN None ELSE x.r.slots[s]]
           vo == x.out \o kept[Len(passed)]
           y == [x EXCEPT !.r.base = vb, !.r.count = vk, !.r.slots = vs, !.out = vo]
<1>0. x.r.base = Seqn(b) /\ x.r.slots = sl /\ x.r.count = k /\ x.out = o
  BY DEF Rec, Ring
<1>x. x = [r |-> [phase |-> ph, base |-> Seqn(b), slots |-> sl, count |-> k], fec |-> NoFec, out |-> o]
  BY DEF Rec, Ring
<1>1. ForceFlushUntil(x, seqn) = IF d <= 0 THEN x ELSE y
  <2> HIDE DEF x
  <2> QED BY DEF ForceFlushUntil
<1>2. d = n /\ passed = t
  <2> HIDE DEF x
  <2> QED BY <1>0 DEF Passed
<1>3. Len(t) = h BY DEF Passed
<1>4. Keeps(f, t, h) BY <1>3, KeepsDefined
<1>5. kept = f
  <2> HIDE DEF passed, t
  <2> QED BY <1>2 DEF Keeps
<1>6. /\ vb = (Seqn(b) + n) % SeqSpace /\ vk = (k - Len(f[h])) % SeqSpace
      /\ vs = Emptied(b, sl, n) /\ vo = o \o f[h]
  <2> HIDE DEF x, kept, f, passed, t, d
  <2> QED BY <1>0, <1>2, <1>3, <1>5 DEF Emptied
<1> HIDE DEF d, kept, passed, vb, vk, vs, vo
<1>7. y = Ring(ph, vb, vs, vk, vo)
  <2>1. y = [x EXCEPT !.r.base = vb, !.r.count = vk, !.r.slots = vs, !.out = vo]
    OBVIOUS
  <2> HIDE DEF x, y
  <2> QED BY <2>1, <1>x, FourFields DEF Ring
<1> HIDE DEF y, x, f, t
<1>8. ForceFlushUntil(x, seqn) = Ring(ph, (Seqn(b) + n) % SeqSpace, Emptied(b, sl, n), (k - Len(f[h])) % SeqSpace, o \o f[h])
  BY <1>1, <1>2, <1>6, <1>7
<1> QED BY <1>4, <1>8 DEF x, t

\* What waits lies between base_seq and the end of the stream.
LEMMA CountBound ==
  ASSUME NEW b \in 0 .. Packets, NEW sl \in [Slot -> Packet \cup {None}], InWindow(sl, b)
  PROVE  Cardinality(Waiting(sl)) + b <= Packets /\ Cardinality(Waiting(sl)) \in Nat
<1>0. b \in Int /\ Packets \in Nat /\ WINDOW_SIZE \in Nat
  BY Numbers
<1>1. Waiting(sl) \subseteq b .. (Packets - 1)
  <2> SUFFICES ASSUME NEW s \in Slot, sl[s] # None
               PROVE  sl[s] \in b .. (Packets - 1)
    BY DEF Waiting
  <2>1. sl[s] \in Packet /\ sl[s] \in b .. (b + WINDOW_SIZE - 1)
    BY DEF InWindow
  <2>2. sl[s] \in Nat /\ sl[s] < Packets BY <2>1, PacketNat
  <2> QED BY <2>1, <2>2, <1>0
<1>2. IsFiniteSet(b .. (Packets - 1)) /\ Cardinality(b .. (Packets - 1)) = Packets - b
  <2>1. IsFiniteSet(b .. (Packets - 1))
        /\ Cardinality(b .. (Packets - 1)) = IF b > Packets - 1 THEN 0 ELSE (Packets - 1) - b + 1
    BY <1>0, FS_Interval
  <2> QED BY <2>1, <1>0
<1>3. Cardinality(Waiting(sl)) <= Packets - b
  <2> DEFINE S == b .. (Packets - 1)
  <2>1. Waiting(sl) \in SUBSET S /\ IsFiniteSet(S) /\ Cardinality(S) = Packets - b
    BY <1>1, <1>2
  <2> HIDE DEF S
  <2> QED BY <2>1, FS_Subset
<1>4. Cardinality(Waiting(sl)) \in Nat BY WaitingFinite
<1> QED BY <1>0, <1>3, <1>4

\* The ring s2 with base_seq at c, after force_flush_until made room for packet m:
\* either nothing had to move or count has room for what waits.
MadeRoom(b, sl, k, o, m, c, s2, k2, o2) ==
  /\ Aligned(s2, k2, o2, c)
  /\ RangeOf(o2) \cup Waiting(s2) = RangeOf(o) \cup Waiting(sl)
  /\ b <= c /\ m < c + WINDOW_SIZE
  /\ \/ c = b /\ s2 = sl /\ k2 = k
     \/ c <= m /\ k2 < Cardinality(Waiting(s2)) + c

LEMMA ForceIs ==
  ASSUME NEW ph, NEW b, NEW sl, NEW k, NEW o, Aligned(sl, k, o, b), NEW m \in Packet
  PROVE  \E c, s2, k2, o2 :
           /\ ForceFlushUntil(Rec(ph, b, sl, k, o), Seqn(m)) = Rec(ph, c, s2, k2, o2)
           /\ MadeRoom(b, sl, k, o, m, c, s2, k2, o2)
<1>0. /\ b \in 0 .. Packets /\ sl \in [Slot -> Packet \cup {None}] /\ o \in Seq(Packet) /\ InWindow(sl, b)
      /\ k \in Nat /\ Cardinality(Waiting(sl)) <= k /\ k <= Cardinality(Waiting(sl)) + b
  BY DEF Aligned
<1>n. /\ WINDOW_SIZE \in Nat \ {0} /\ SeqSpace \in Nat \ {0} /\ Packets \in Nat /\ b \in Nat /\ m \in Nat
      /\ m < Packets /\ 2 * Packets <= SeqSpace
  BY <1>0, Numbers, PacketNat
<1> DEFINE n == m - b - WINDOW_SIZE + 1
           x == Rec(ph, b, sl, k, o)
<1>1. Diff(Seqn(m), Seqn(b)) = m - b BY <1>0, DiffIs
<1>2. Diff(Seqn(m), Seqn(b)) - WINDOW_SIZE + 1 = n /\ n \in Int
  BY <1>1, <1>n
<1>3. CASE n <= 0
  <2>1. x.r.base = Seqn(b) BY DEF Rec, Ring
  <2> HIDE DEF x, n
  <2>2. ForceFlushUntil(x, Seqn(m)) = x BY <1>2, <1>3, <2>1 DEF ForceFlushUntil
  <2>3. m < b + WINDOW_SIZE /\ b <= b BY <1>3, <1>n DEF n
  <2>4. MadeRoom(b, sl, k, o, m, b, sl, k, o) BY <2>3 DEF MadeRoom
  <2> QED BY <2>2, <2>4 DEF x
<1>4. CASE ~(n <= 0)
  <2> DEFINE h == IF n < WINDOW_SIZE THEN n ELSE WINDOW_SIZE
             c == b + n
             t == Passed(b, sl, h)
  <2>1. /\ n \in Nat /\ n > 0 /\ h \in Nat /\ h <= n /\ h <= WINDOW_SIZE /\ (h = n \/ h = WINDOW_SIZE)
        /\ c = m - WINDOW_SIZE + 1 /\ c <= m /\ c \in 0 .. Packets /\ b <= c /\ c \in Nat /\ b < c
        /\ m < c + WINDOW_SIZE
    BY <1>4, <1>n
  <2>2. PICK f : /\ Keeps(f, t, h)
                 /\ ForceFlushUntil(x, Seqn(m)) =
                      Ring(ph, (Seqn(b) + n) % SeqSpace, Emptied(b, sl, n), (k - Len(f[h])) % SeqSpace, o \o f[h])
    <3>1. n \in Nat /\ n > 0 /\ h \in Nat BY <2>1
    <3>2. h = IF n < WINDOW_SIZE THEN n ELSE WINDOW_SIZE
      OBVIOUS
    <3> HIDE DEF n, h
    <3> QED BY <3>1, <3>2, <1>2, ForceFields
  <2> HIDE DEF n, h
  <2>3. ASSUME NEW j \in 1 .. h
        PROVE  t[j] = sl[SlotOf(Seqn(b + (j - 1)))] /\ t[j] \in Packet \cup {None}
               /\ (t[j] # None => t[j] = b + j - 1)
    <3>1. j - 1 \in Int /\ b \in Int /\ b + (j - 1) \in Int /\ b <= b + (j - 1) /\ b + (j - 1) < b + WINDOW_SIZE
          /\ b + (j - 1) = b + j - 1
      BY <1>n, <2>1
    <3>2. SlotOf(Seqn(b) + (j - 1)) = SlotOf(Seqn(b + (j - 1))) /\ SlotOf(Seqn(b + (j - 1))) \in Slot
      BY <3>1, SlotAhead
    <3>3. Seqn(b) + (j - 1) = Seqn(b) + j - 1 BY <1>n, <2>1, SeqnType
    <3>4. t[j] = sl[SlotOf(Seqn(b) + j - 1)] BY DEF Passed
    <3>5. t[j] = sl[SlotOf(Seqn(b + (j - 1)))] BY <3>2, <3>3, <3>4
    <3>6. t[j] # None => t[j] = b + (j - 1) BY <3>1, <3>5, <1>0, OwnSlot
    <3> HIDE DEF t
    <3> QED BY <3>1, <3>2, <3>5, <3>6, <1>0
  <2> DEFINE sent == f[h]
  <2>4. sent \in Seq(Packet) /\ Rising(sent) /\ RangeOf(sent) = {t[i] : i \in 1 .. h} \ {None}
    <3>1. CountsFrom(t, h, b) BY <2>3 DEF CountsFrom
    <3>2. h \in 0 .. h /\ h \in Nat /\ b \in Nat /\ Keeps(f, t, h)
      BY <1>n, <2>1, <2>2
    <3> HIDE DEF t
    <3>3. f[h] \in Seq(Packet) /\ Rising(f[h]) /\ RangeOf(f[h]) = Held(t, h)
      BY <3>1, <3>2, KeptIs
    <3> QED BY <3>3 DEF Held
  <2>5. RangeOf(sent) = {p \in Waiting(sl) : p < c}
    <3>1. ASSUME NEW j \in 1 .. h, t[j] # None
          PROVE  t[j] \in Waiting(sl) /\ t[j] < c
      <4>1. b + (j - 1) \in Int BY <1>n, <2>1
      <4>2. SlotOf(Seqn(b + (j - 1))) \in Slot BY <4>1, SeqnType, SlotType
      <4>3. t[j] \in Waiting(sl) BY <4>2, <3>1, <2>3 DEF Waiting
      <4>4. t[j] = b + j - 1 BY <3>1, <2>3
      <4> HIDE DEF t
      <4>5. b + j - 1 < c BY <1>n, <2>1
      <4> QED BY <4>3, <4>4, <4>5
    <3>2. ASSUME NEW p \in Waiting(sl), p < c
          PROVE  \E i \in 1 .. h : t[i] = p /\ t[i] # None
      <4>1. PICK s \in Slot : p = sl[s] /\ sl[s] # None BY DEF Waiting
      <4>2. p \in b .. (b + WINDOW_SIZE - 1) /\ SlotOf(Seqn(p)) = s
        BY <1>0, <4>1 DEF InWindow
      <4>3. p - b + 1 \in 1 .. h /\ b + ((p - b + 1) - 1) = p BY <3>2, <4>2, <1>n, <2>1
      <4>4. t[p - b + 1] = sl[SlotOf(Seqn(p))]
        <5> DEFINE i == p - b + 1
        <5>1. i \in 1 .. h /\ b + (i - 1) = p BY <4>3
        <5> HIDE DEF i, t
        <5>2. t[i] = sl[SlotOf(Seqn(b + (i - 1)))] BY <5>1, <2>3
        <5> QED BY <5>1, <5>2 DEF i
      <4> HIDE DEF t
      <4> QED BY <4>1, <4>2, <4>3, <4>4
    <3> HIDE DEF t, sent, c
    <3> QED BY <3>1, <3>2, <2>4
  <2> HIDE DEF sent, t
  <2>6. /\ Aligned(Below(sl, c), k - Len(sent), o \o sent, c)
        /\ Len(sent) \in Nat
        /\ RangeOf(o \o sent) \cup Waiting(Below(sl, c)) = RangeOf(o) \cup Waiting(sl)
        /\ k - Len(sent) <= Cardinality(Waiting(Below(sl, c))) + b
    <3> HIDE DEF c
    <3> QED BY <2>1, <2>4, <2>5, Moved
  <2>7. (k - Len(sent)) % SeqSpace = k - Len(sent)
    <3>1. k - Len(sent) \in Nat BY <2>6 DEF Aligned
    <3>2. k <= Packets
      <4>1. Cardinality(Waiting(sl)) + b <= Packets /\ Cardinality(Waiting(sl)) \in Nat
        BY <1>0, CountBound
      <4> QED BY <4>1, <1>0, <1>n
    <3>3. k - Len(sent) < SeqSpace BY <3>2, <1>0, <1>n, <2>6
    <3> QED BY <3>1, <3>3, <1>n
  <2>8. (Seqn(b) + n) % SeqSpace = Seqn(c) BY <1>n, <2>1, SeqnNext
  <2>9. Emptied(b, sl, n) = Below(sl, c)
    <3>1. c - b = n BY <1>n, <2>1
    <3> HIDE DEF c
    <3>2. Emptied(b, sl, c - b) = Below(sl, c) BY <1>0, <2>1, EmptiedIs
    <3> QED BY <3>1, <3>2
  <2>10. ForceFlushUntil(x, Seqn(m)) = Rec(ph, c, Below(sl, c), k - Len(sent), o \o sent)
    BY <2>2, <2>7, <2>8, <2>9 DEF Rec, sent
  <2>11. k - Len(sent) < Cardinality(Waiting(Below(sl, c))) + c
    <3>1. k - Len(sent) \in Nat BY <2>6 DEF Aligned
    <3>2. Below(sl, c) \in [Slot -> Packet \cup {None}] BY <2>6 DEF Aligned
    <3>3. Cardinality(Waiting(Below(sl, c))) \in Nat BY <3>2, WaitingFinite
    <3> HIDE DEF c
    <3> QED BY <3>1, <3>3, <2>1, <2>6, <1>n
  <2>12. MadeRoom(b, sl, k, o, m, c, Below(sl, c), k - Len(sent), o \o sent)
    <3> HIDE DEF c, x
    <3> QED BY <2>1, <2>6, <2>11 DEF MadeRoom
  <2> HIDE DEF c, x
  <2> QED BY <2>10, <2>12 DEF x
<1> QED BY <1>3, <1>4

\* Packet m in its slot.
Filled(sl, m) == [sl EXCEPT ![SlotOf(Seqn(m))] = m]

\* A packet that gets a free slot waits there.
LEMMA FillIs ==
  ASSUME NEW b \in 0 .. Packets, NEW sl \in [Slot -> Packet \cup {None}], InWindow(sl, b),
         NEW m \in Packet, sl[SlotOf(Seqn(m))] = None
  PROVE  /\ Filled(sl, m) \in [Slot -> Packet \cup {None}]
         /\ Waiting(Filled(sl, m)) = Waiting(sl) \cup {m}
         /\ Cardinality(Waiting(Filled(sl, m))) = Cardinality(Waiting(sl)) + 1
<1> DEFINE a == SlotOf(Seqn(m))
           s2 == [sl EXCEPT ![a] = m]
<1>0. m \in Int /\ m # None /\ a \in Slot
  <2>1. m \in Nat /\ m # None BY PacketNat
  <2> QED BY <2>1, SeqnType, SlotType
<1>1. m \notin Waiting(sl)
  <2> SUFFICES ASSUME NEW s \in Slot, sl[s] = m
               PROVE  FALSE
    BY DEF Waiting
  <2>1. SlotOf(Seqn(m)) = s BY <1>0 DEF InWindow
  <2> QED BY <2>1, <1>0
<1>f. sl[a] = None
  OBVIOUS
<1> HIDE DEF a
<1>2. s2 \in [Slot -> Packet \cup {None}] BY <1>0
<1>3. Waiting(s2) = Waiting(sl) \cup {m}
  <2>1. \A s \in Slot : s2[s] = IF s = a THEN m ELSE sl[s] BY <1>0
  <2> HIDE DEF s2
  <2> QED BY <2>1, <1>0, <1>f DEF Waiting
<1>4. IsFiniteSet(Waiting(sl)) BY WaitingFinite
<1>5. Cardinality(Waiting(sl) \cup {m}) = Cardinality(Waiting(sl)) + 1
  BY <1>1, <1>4, FS_AddElement
<1> QED BY <1>2, <1>3, <1>5 DEF a, Filled

LEMMA StoreFields ==
  ASSUME NEW ph, NEW q, NEW sl, NEW k, NEW o, NEW m
  PROVE  Store(Ring(ph, q, sl, k, o), m)
         = Ring(ph, q, Filled(sl, m), (k + 1) % SeqSpace, o)
<1> DEFINE x == Ring(ph, q, sl, k, o)
           s2 == Filled(sl, m)
           vs == [x.r.slots EXCEPT ![SlotOf(Seqn(m))] = m]
           x1 == [x EXCEPT !.r.slots = vs]
           y == [x1 EXCEPT !.r.count = (x.r.count + 1) % SeqSpace]
<1>1. x.r.slots = sl /\ x.r.count = k BY DEF Ring
<1>2. Store(x, m) = y
  <2> HIDE DEF x
  <2> QED BY DEF Store
<1>3. vs = s2
  <2> HIDE DEF x
  <2> QED BY <1>1 DEF Filled
<1> HIDE DEF vs, s2
<1>4. x1 = [r |-> [phase |-> ph, base |-> q, slots |-> s2, count |-> k], fec |-> NoFec, out |-> o]
  BY <1>3 DEF Ring
<1> HIDE DEF x1, x
<1>5. y = [r |-> [phase |-> ph, base |-> q, slots |-> s2, count |-> (k + 1) % SeqSpace], fec |-> NoFec, out |-> o]
  BY <1>1, <1>4
<1> HIDE DEF y
<1> QED BY <1>2, <1>5 DEF x, s2, Ring

\* Storing packet m of the window.
LEMMA StoreIs ==
  ASSUME NEW ph, NEW b, NEW sl, NEW k, NEW o, Aligned(sl, k, o, b), NEW m \in Packet,
         b <= m, m < b + WINDOW_SIZE, sl[SlotOf(Seqn(m))] = None
  PROVE  /\ Store(Rec(ph, b, sl, k, o), m) = Rec(ph, b, Filled(sl, m), k + 1, o)
         /\ Aligned(Filled(sl, m), k + 1, o, b)
         /\ Waiting(Filled(sl, m)) = Waiting(sl) \cup {m}
         /\ Cardinality(Waiting(Filled(sl, m))) = Cardinality(Waiting(sl)) + 1
<1> DEFINE s2 == Filled(sl, m)
<1>0. /\ b \in 0 .. Packets /\ sl \in [Slot -> Packet \cup {None}] /\ o \in Seq(Packet) /\ InWindow(sl, b)
      /\ k \in Nat /\ Cardinality(Waiting(sl)) <= k /\ k <= Cardinality(Waiting(sl)) + b
      /\ Rising(o) /\ \A i \in 1 .. Len(o) : o[i] < b
  BY DEF Aligned
<1>n. /\ WINDOW_SIZE \in Nat \ {0} /\ SeqSpace \in Nat \ {0} /\ Packets \in Nat /\ b \in Nat /\ m \in Nat
      /\ m < Packets /\ 2 * Packets <= SeqSpace
  BY <1>0, Numbers, PacketNat
<1>1. /\ s2 \in [Slot -> Packet \cup {None}]
      /\ Waiting(s2) = Waiting(sl) \cup {m}
      /\ Cardinality(Waiting(s2)) = Cardinality(Waiting(sl)) + 1
  BY <1>0, FillIs
<1>2. InWindow(s2, b)
  <2> SUFFICES ASSUME NEW s \in Slot, s2[s] # None
               PROVE  s2[s] \in b .. (b + WINDOW_SIZE - 1) /\ SlotOf(Seqn(s2[s])) = s
    BY DEF InWindow
  <2>1. CASE s = SlotOf(Seqn(m))
    <3>1. s2[s] = m BY <2>1, <1>0 DEF Filled
    <3>2. m \in b .. (b + WINDOW_SIZE - 1) BY <1>n
    <3> QED BY <2>1, <3>1, <3>2
  <2>2. CASE s # SlotOf(Seqn(m))
    <3>1. s2[s] = sl[s] BY <2>2, <1>0 DEF Filled
    <3> HIDE DEF s2
    <3> QED BY <3>1, <1>0 DEF InWindow
  <2> QED BY <2>1, <2>2
<1> HIDE DEF s2
<1>3. Cardinality(Waiting(sl)) + b <= Packets /\ Cardinality(Waiting(sl)) \in Nat
  BY <1>0, CountBound
<1>4. Cardinality(Waiting(s2)) + b <= Packets BY <1>0, <1>1, <1>2, CountBound
<1>5. (k + 1) % SeqSpace = k + 1
  <2>1. k + 1 \in 0 .. (SeqSpace - 1) BY <1>0, <1>1, <1>3, <1>4, <1>n
  <2> QED BY <2>1, <1>n
<1>6. Store(Rec(ph, b, sl, k, o), m) = Rec(ph, b, s2, k + 1, o)
  BY <1>5, StoreFields DEF Rec, s2
<1>7. Aligned(s2, k + 1, o, b)
  <2>1. k + 1 \in Nat /\ Cardinality(Waiting(s2)) <= k + 1 /\ k + 1 <= Cardinality(Waiting(s2)) + b
    BY <1>0, <1>1, <1>3, <1>n
  <2> QED BY <2>1, <1>0, <1>1, <1>2 DEF Aligned
<1> QED BY <1>1, <1>6, <1>7 DEF s2

\* Phase 2: the handler delivers.  If the slot of base_seq is occupied, count
\* has room for the packet that is still to come.
Spare(sl, k, b) == sl[SlotOf(Seqn(b))] # None => k < Cardinality(Waiting(sl)) + b

Delivering(x, st) ==
  \E b, sl, k, o : /\ x = Rec(2, b, sl, k, o) /\ Aligned(sl, k, o, b) /\ Spare(sl, k, b)
                   /\ st \subseteq RangeOf(o) \cup Waiting(sl)

\* Phase 1: nothing is delivered yet, and the smallest packet that arrived is b.
Collecting(x, st) ==
  \E b, sl, k : /\ x = Rec(1, b, sl, k, <<>>) /\ Aligned(sl, k, <<>>, b)
                /\ b \in st /\ st = Waiting(sl) /\ k = Cardinality(Waiting(sl))
                /\ \A p, q \in st : p - q <= InitialSpread

LEMMA HasIs ==
  ASSUME NEW ph, NEW b, NEW sl, NEW k, NEW o, Aligned(sl, k, o, b),
         NEW m \in Packet, b <= m, m < b + WINDOW_SIZE
  PROVE  Has(Rec(ph, b, sl, k, o), Seqn(m)) <=> sl[SlotOf(Seqn(m))] # None
<1>0. b \in 0 .. Packets /\ sl \in [Slot -> Packet \cup {None}] /\ InWindow(sl, b) /\ m \in Int
  BY PacketNat DEF Aligned
<1>1. Has(Rec(ph, b, sl, k, o), Seqn(m))
      <=> sl[SlotOf(Seqn(m))] # None /\ Seqn(sl[SlotOf(Seqn(m))]) = Seqn(m)
  BY DEF Has, Rec, Ring
<1>2. sl[SlotOf(Seqn(m))] # None => sl[SlotOf(Seqn(m))] = m
  BY <1>0, OwnSlot
<1> QED BY <1>1, <1>2

LEMMA NoRecovery ==
  ASSUME NEW ph, NEW b, NEW sl, NEW k, NEW o
  PROVE  TryRecovery(Rec(ph, b, sl, k, o)) = Rec(ph, b, sl, k, o)
<1> DEFINE x == Rec(ph, b, sl, k, o)
<1>1. ~FecEnabled(x.fec) BY DEF FecEnabled, Rec, Ring, NoFec
<1> HIDE DEF x
<1>2. TryRecovery(x) = x BY <1>1 DEF TryRecovery
<1> QED BY <1>2 DEF x

\* Phase 2, ahead of base_seq.
LEMMA AheadDelivers ==
  ASSUME NEW b, NEW sl, NEW k, NEW o, Aligned(sl, k, o, b), Spare(sl, k, b), NEW m \in Packet, b < m,
         NEW st, st \subseteq RangeOf(o) \cup Waiting(sl)
  PROVE  Delivering(InsertAhead(Rec(2, b, sl, k, o), m), st)
<1> DEFINE x == Rec(2, b, sl, k, o)
<1>1. PICK c, s2, k2, o2 :
         /\ ForceFlushUntil(x, Seqn(m)) = Rec(2, c, s2, k2, o2)
         /\ MadeRoom(b, sl, k, o, m, c, s2, k2, o2)
  BY ForceIs
<1>a. /\ Aligned(s2, k2, o2, c)
      /\ RangeOf(o2) \cup Waiting(s2) = RangeOf(o) \cup Waiting(sl)
      /\ b <= c /\ m < c + WINDOW_SIZE
      /\ \/ c = b /\ s2 = sl /\ k2 = k
         \/ c <= m /\ k2 < Cardinality(Waiting(s2)) + c
  BY <1>1 DEF MadeRoom
<1> DEFINE y == Rec(2, c, s2, k2, o2)
<1>2. c <= m
  <2>1. b \in Int /\ m \in Int BY PacketNat DEF Aligned
  <2> QED BY <2>1, <1>a
<1>3. Spare(s2, k2, c) BY <1>a DEF Spare
<1>4. InsertAhead(x, m) = IF Has(y, Seqn(m)) THEN y ELSE TryRecovery(Store(y, m))
  <2> HIDE DEF x, y
  <2>1. ForceFlushUntil(x, Seqn(m)) = y BY <1>1 DEF x, y
  <2> QED BY <2>1 DEF InsertAhead
<1>5. Has(y, Seqn(m)) <=> s2[SlotOf(Seqn(m))] # None BY <1>a, <1>2, HasIs
<1>6. CASE s2[SlotOf(Seqn(m))] # None
  <2>1. InsertAhead(x, m) = Rec(2, c, s2, k2, o2) BY <1>4, <1>5, <1>6
  <2> HIDE DEF x
  <2> QED BY <2>1, <1>a, <1>3 DEF Delivering, x
<1>7. CASE s2[SlotOf(Seqn(m))] = None
  <2> DEFINE s3 == Filled(s2, m)
  <2>1. /\ Store(y, m) = Rec(2, c, s3, k2 + 1, o2)
        /\ Aligned(s3, k2 + 1, o2, c)
        /\ Waiting(s3) = Waiting(s2) \cup {m}
        /\ Cardinality(Waiting(s3)) = Cardinality(Waiting(s2)) + 1
    BY <1>a, <1>2, <1>7, StoreIs
  <2>2. InsertAhead(x, m) = Rec(2, c, s3, k2 + 1, o2) BY <1>4, <1>5, <1>7, <2>1, NoRecovery
  <2>3. Spare(s3, k2 + 1, c)
    <3>0. /\ b \in 0 .. Packets /\ c \in 0 .. Packets /\ k \in Nat /\ k2 \in Nat /\ m \in Nat /\ Packets \in Nat
          /\ sl \in [Slot -> Packet \cup {None}] /\ s2 \in [Slot -> Packet \cup {None}]
      BY <1>a, PacketNat, Numbers DEF Aligned
    <3>n. Cardinality(Waiting(s2)) \in Nat
      BY <3>0, WaitingFinite
    <3>1. CASE k2 < Cardinality(Waiting(s2)) + c
      <4>1. k2 + 1 < Cardinality(Waiting(s3)) + c BY <3>0, <3>1, <3>n, <2>1
      <4> QED BY <4>1 DEF Spare
    <3>2. CASE c = b /\ s2 = sl /\ k2 = k
      <4>1. b - m < WINDOW_SIZE /\ m - b < WINDOW_SIZE /\ b \in Int /\ m \in Int /\ b # m /\ WINDOW_SIZE \in Nat
        <5>1. WINDOW_SIZE \in Nat \ {0} /\ m < b + WINDOW_SIZE BY Numbers, <1>a, <3>2
        <5> QED BY <5>1, <3>0
      <4>2. SlotOf(Seqn(b)) # SlotOf(Seqn(m)) BY <4>1, SlotsDiffer
      <4>3. SlotOf(Seqn(b)) \in Slot BY <4>1, SeqnType, SlotType
      <4>4. s3[SlotOf(Seqn(c))] = s2[SlotOf(Seqn(c))] BY <4>2, <4>3, <3>0, <3>2 DEF Filled
      <4> HIDE DEF s3
      <4>5. s3[SlotOf(Seqn(c))] # None => k2 + 1 < Cardinality(Waiting(s3)) + c
        BY <4>4, <3>0, <3>n, <3>2, <1>3, <2>1 DEF Spare
      <4> QED BY <4>5 DEF Spare
    <3> QED BY <3>1, <3>2, <1>a
  <2>4. st \subseteq RangeOf(o2) \cup Waiting(s3)
    <3> HIDE DEF s3
    <3> QED BY <2>1, <1>a
  <2> HIDE DEF s3, x
  <2> QED BY <2>1, <2>2, <2>3, <2>4 DEF Delivering, x
<1> QED BY <1>6, <1>7

\* What flush_consecutive leaves can deliver on.
LEMMA FlushDelivers ==
  ASSUME NEW b, NEW sl, NEW k, NEW o, Aligned(sl, k, o, b),
         NEW st, st \subseteq RangeOf(o) \cup Waiting(sl)
  PROVE  Delivering(FlushConsecutive(Rec(2, b, sl, k, o)), st)
<1>1. PICK c, s2, k2, o2 :
         /\ FlushConsecutive(Rec(2, b, sl, k, o)) = Rec(2, c, s2, k2, o2)
         /\ Aligned(s2, k2, o2, c)
         /\ s2[SlotOf(Seqn(c))] = None
         /\ RangeOf(o2) \cup Waiting(s2) = RangeOf(o) \cup Waiting(sl)
  BY FlushIs
<1>2. Spare(s2, k2, c) BY <1>1 DEF Spare
<1>3. st \subseteq RangeOf(o2) \cup Waiting(s2) BY <1>1
<1> QED BY <1>1, <1>2, <1>3 DEF Delivering

\* Phase 2, the packet of base_seq.
LEMMA NextDelivers ==
  ASSUME NEW b, NEW sl, NEW k, NEW o, Aligned(sl, k, o, b), Spare(sl, k, b), b \in Packet,
         NEW st, st \subseteq RangeOf(o) \cup Waiting(sl)
  PROVE  Delivering(FlushConsecutive(Store(Rec(2, b, sl, k, o), b)), st)
<1>0. /\ b \in 0 .. Packets /\ b \in Nat /\ Packets \in Nat /\ sl \in [Slot -> Packet \cup {None}] /\ InWindow(sl, b)
      /\ WINDOW_SIZE \in Nat \ {0} /\ SeqSpace \in Nat \ {0} /\ k \in Nat /\ 2 * Packets <= SeqSpace
      /\ Cardinality(Waiting(sl)) <= k /\ b < Packets
  BY PacketNat, Numbers DEF Aligned
<1>s. SlotOf(Seqn(b)) \in Slot /\ b <= b /\ b < b + WINDOW_SIZE /\ b \in Int
  BY <1>0, SeqnType, SlotType
<1>1. CASE sl[SlotOf(Seqn(b))] = None
  <2> DEFINE s2 == Filled(sl, b)
  <2>1. /\ Store(Rec(2, b, sl, k, o), b) = Rec(2, b, s2, k + 1, o)
        /\ Aligned(s2, k + 1, o, b)
        /\ Waiting(s2) = Waiting(sl) \cup {b}
    BY <1>s, <1>1, StoreIs
  <2> HIDE DEF s2
  <2>2. st \subseteq RangeOf(o) \cup Waiting(s2) BY <2>1
  <2> QED BY <2>1, <2>2, FlushDelivers
<1>2. CASE sl[SlotOf(Seqn(b))] # None
  <2> DEFINE a == SlotOf(Seqn(b))
  <2>1. sl[a] = b BY <1>0, <1>s, <1>2, OwnSlot
  <2>2. Filled(sl, b) = sl
    <3>1. Filled(sl, b) = [sl EXCEPT ![a] = b] BY DEF Filled
    <3> HIDE DEF a
    <3> QED BY <2>1, <3>1, <1>0
  <2>3. Cardinality(Waiting(sl)) + b <= Packets /\ Cardinality(Waiting(sl)) \in Nat
    BY <1>0, CountBound
  <2>4. k < Cardinality(Waiting(sl)) + b BY <1>2 DEF Spare
  <2>5. (k + 1) % SeqSpace = k + 1
    <3>1. k + 1 \in 0 .. (SeqSpace - 1) BY <2>3, <2>4, <1>0
    <3> QED BY <3>1, <1>0
  <2>6. Store(Rec(2, b, sl, k, o), b) = Rec(2, b, sl, k + 1, o)
    BY <2>2, <2>5, StoreFields DEF Rec
  <2>7. Aligned(sl, k + 1, o, b)
    <3>1. k + 1 \in Nat /\ Cardinality(Waiting(sl)) <= k + 1 /\ k + 1 <= Cardinality(Waiting(sl)) + b
      BY <2>3, <2>4, <1>0
    <3> QED BY <3>1 DEF Aligned
  <2> QED BY <2>6, <2>7, FlushDelivers
<1> QED BY <1>1, <1>2

\* Phase 1 collects packet m, and goes on to phase 2 when enough are there.
LEMMA CollectsOn ==
  ASSUME InitialSpread < WINDOW_SIZE, NEW x, NEW st, Collecting(x, st), NEW m \in Packet,
         \A p \in st : m - p <= InitialSpread /\ p - m <= InitialSpread
  PROVE  LET y == InsertCollecting(x, m)
         IN  \/ Collecting(y, st \cup {m})
             \/ Delivering(y, st \cup {m})
<1>1. PICK b, sl, k :
         /\ x = Rec(1, b, sl, k, <<>>) /\ Aligned(sl, k, <<>>, b)
         /\ b \in st /\ st = Waiting(sl) /\ k = Cardinality(Waiting(sl))
         /\ \A p, q \in st : p - q <= InitialSpread
  BY DEF Collecting
<1>0. /\ b \in 0 .. Packets /\ sl \in [Slot -> Packet \cup {None}] /\ InWindow(sl, b) /\ k \in Nat
      /\ Cardinality(Waiting(sl)) \in Nat /\ st \subseteq Packet
  <2>1. b \in 0 .. Packets /\ sl \in [Slot -> Packet \cup {None}] /\ InWindow(sl, b) /\ k \in Nat
    BY <1>1 DEF Aligned
  <2> QED BY <2>1, <1>1, WaitingFinite
<1>n. /\ WINDOW_SIZE \in Nat \ {0} /\ SeqSpace \in Nat \ {0} /\ Packets \in Nat /\ InitialSpread \in Nat
      /\ m \in Nat /\ b \in Nat /\ m < Packets /\ 2 * Packets <= SeqSpace /\ \A p \in st : p \in Nat
  BY <1>0, Numbers, PacketNat
<1> DEFINE a == SlotOf(Seqn(m))
           z == Store(x, m)
           y == IF x.r.slots[a] # None THEN x
                ELSE IF Diff(Seqn(m), x.r.base) < 0 THEN [z EXCEPT !.r.base = Seqn(m)] ELSE z
<1>a. a \in Slot
  BY <1>n, SeqnType, SlotType
<1>2. InsertCollecting(x, m) =
        IF y.r.count >= INIT_COLLECT THEN FlushConsecutive([y EXCEPT !.r.phase = 2]) ELSE y
  BY DEF InsertCollecting
<1>3. x.r.slots = sl /\ x.r.base = Seqn(b) BY <1>1 DEF Rec, Ring
<1>4. Diff(Seqn(m), x.r.base) = m - b BY <1>0, <1>3, DiffIs
<1>5. Collecting(y, st \cup {m})
  <2>1. CASE sl[a] # None
    <3>1. sl[a] \in st BY <1>1, <1>a, <2>1 DEF Waiting
    <3>2. SlotOf(Seqn(sl[a])) = SlotOf(Seqn(m)) BY <1>0, <1>a, <2>1 DEF InWindow
    <3> DEFINE p == sl[a]
    <3>3. p \in st /\ p \in Nat /\ m - p <= InitialSpread /\ p - m <= InitialSpread
      BY <3>1, <1>n
    <3>4. p \in Int /\ m \in Int /\ p - m < WINDOW_SIZE /\ m - p < WINDOW_SIZE
      <4> HIDE DEF p
      <4> QED BY <3>3, <1>n
    <3> HIDE DEF p
    <3>5. p = m BY <3>2, <3>4, SlotsDiffer DEF p
    <3>6. st \cup {m} = st BY <3>3, <3>5
    <3>7. y = x BY <2>1, <1>3
    <3> HIDE DEF y
    <3> QED BY <3>6, <3>7
  <2>2. CASE sl[a] = None
    <3> DEFINE s2 == Filled(sl, m)
               c == IF m < b THEN m ELSE b
    <3>1. /\ s2 \in [Slot -> Packet \cup {None}] /\ Waiting(s2) = Waiting(sl) \cup {m}
          /\ Cardinality(Waiting(s2)) = Cardinality(Waiting(sl)) + 1
      BY <1>0, <2>2, FillIs
    <3>2. (k + 1) % SeqSpace = k + 1
      <4>1. Cardinality(Waiting(sl)) + b <= Packets BY <1>0, CountBound
      <4>2. b \in st /\ b < Packets BY <1>0, <1>1, PacketNat
      <4>3. Cardinality(Waiting(s2)) <= Packets
        <5>1. Waiting(s2) \subseteq Packet /\ IsFiniteSet(Packet) /\ Cardinality(Packet) = Packets
          BY <3>1, WaitingFinite, PacketNat
        <5> QED BY <5>1, FS_Subset
      <4>4. k + 1 \in 0 .. (SeqSpace - 1) BY <1>0, <1>1, <1>n, <3>1, <4>3
      <4> QED BY <4>4, <1>n
    <3>3. z = Ring(1, Seqn(b), s2, k + 1, <<>>) BY <1>1, <3>2, StoreFields DEF Rec
    <3>4. y = Rec(1, c, s2, k + 1, <<>>)
      <4>1. y = IF m < b THEN [z EXCEPT !.r.base = Seqn(m)] ELSE z
        <5> HIDE DEF z
        <5>1. Diff(Seqn(m), x.r.base) < 0 <=> m < b BY <1>4, <1>n
        <5> QED BY <5>1, <2>2, <1>3
      <4> HIDE DEF y, z, s2
      <4>2. [z EXCEPT !.r.base = Seqn(m)] = Ring(1, Seqn(m), s2, k + 1, <<>>)
        BY <3>3 DEF Ring
      <4> QED BY <4>1, <4>2, <3>3 DEF Rec
    <3>5. /\ c \in st \cup {m} /\ c \in 0 .. Packets /\ c \in Nat /\ c <= m /\ c <= b
          /\ \A p \in st \cup {m} : p \in Nat
          /\ \A p, q \in st \cup {m} : p - q <= InitialSpread
      BY <1>1, <1>n
    <3>6. InWindow(s2, c)
      <4> SUFFICES ASSUME NEW s \in Slot, s2[s] # None
                   PROVE  s2[s] \in c .. (c + WINDOW_SIZE - 1) /\ SlotOf(Seqn(s2[s])) = s
        BY DEF InWindow
      <4> DEFINE p == s2[s]
      <4>1. p \in st \cup {m}
        <5>1. p \in Waiting(s2) BY DEF Waiting
        <5> QED BY <5>1, <3>1, <1>1
      <4>2. SlotOf(Seqn(p)) = s /\ (p = m \/ p >= b)
        <5>1. CASE s = a
          <6>1. s2[s] = m BY <5>1, <1>0, <1>a DEF Filled
          <6> QED BY <5>1, <6>1
        <5>2. CASE s # a
          <6>1. s2[s] = sl[s] BY <5>2, <1>0, <1>a DEF Filled
          <6>2. sl[s] \in b .. (b + WINDOW_SIZE - 1) /\ SlotOf(Seqn(sl[s])) = s
            BY <6>1, <1>0 DEF InWindow
          <6> HIDE DEF s2
          <6> QED BY <6>1, <6>2, <1>n
        <5> QED BY <5>1, <5>2
      <4> HIDE DEF p, c
      <4>3. p \in Nat /\ p - c <= InitialSpread /\ c <= p BY <3>5, <4>1, <4>2, <1>n
      <4>4. p \in c .. (c + WINDOW_SIZE - 1) BY <4>3, <3>5, <1>n
      <4> QED BY <4>2, <4>4 DEF p
    <3> HIDE DEF s2, c, y, z, a
    <3>7. Aligned(s2, k + 1, <<>>, c)
      <4>1. <<>> \in Seq(Packet) /\ Rising(<<>>) /\ (\A i \in 1 .. Len(<<>>) : <<>>[i] < c)
        BY DEF Rising
      <4>2. k + 1 \in Nat /\ Cardinality(Waiting(s2)) = k + 1 /\ Cardinality(Waiting(s2)) <= k + 1
            /\ k + 1 <= Cardinality(Waiting(s2)) + c
        BY <1>0, <1>1, <3>1, <3>5
      <4> QED BY <3>1, <3>5, <3>6, <4>1, <4>2 DEF Aligned
    <3>8. k + 1 = Cardinality(Waiting(s2)) /\ st \cup {m} = Waiting(s2)
      BY <1>1, <3>1
    <3> QED BY <3>4, <3>5, <3>7, <3>8 DEF Collecting
  <2> QED BY <2>1, <2>2
<1> HIDE DEF y
<1>6. CASE y.r.count >= INIT_COLLECT
  <2>1. PICK c, s2, k2 :
           /\ y = Rec(1, c, s2, k2, <<>>) /\ Aligned(s2, k2, <<>>, c) /\ st \cup {m} = Waiting(s2)
    BY <1>5 DEF Collecting
  <2>2. [y EXCEPT !.r.phase = 2] = Rec(2, c, s2, k2, <<>>) BY <2>1 DEF Rec, Ring
  <2>3. st \cup {m} \subseteq RangeOf(<<>>) \cup Waiting(s2)
    BY <2>1
  <2>4. Delivering(FlushConsecutive(Rec(2, c, s2, k2, <<>>)), st \cup {m})
    BY <2>1, <2>3, FlushDelivers
  <2> QED BY <2>2, <2>4, <1>2, <1>6
<1>7. CASE ~(y.r.count >= INIT_COLLECT) BY <1>2, <1>5, <1>7
<1> QED BY <1>6, <1>7

\* Phase 0: the first packet.
LEMMA FirstCollects ==
  ASSUME NEW m \in Packet
  PROVE  Collecting(InsertFirst([r |-> NewRing, fec |-> NoFec, out |-> <<>>], m), {m})
<1> DEFINE x == [r |-> NewRing, fec |-> NoFec, out |-> <<>>]
           sl == [s \in Slot |-> None]
           s2 == Filled(sl, m)
<1>n. m \in Nat /\ m \in 0 .. Packets /\ WINDOW_SIZE \in Nat \ {0} /\ SeqSpace \in Nat \ {0} /\ Packets \in Nat
      /\ 2 * Packets <= SeqSpace /\ m < Packets /\ InitialSpread \in Nat
  BY Numbers, PacketNat
<1>a. SlotOf(Seqn(m)) \in Slot /\ sl \in [Slot -> Packet \cup {None}] /\ Waiting(sl) = {} /\ InWindow(sl, m)
  BY <1>n, SeqnType, SlotType DEF Waiting, InWindow
<1>1. [x EXCEPT !.r.base = Seqn(m), !.r.phase = 1, !.r.count = 0] = Ring(1, Seqn(m), sl, 0, <<>>)
  <2> DEFINE x1 == [x EXCEPT !.r.base = Seqn(m)]
             x2 == [x1 EXCEPT !.r.phase = 1]
             x3 == [x2 EXCEPT !.r.count = 0]
  <2>0. [x EXCEPT !.r.base = Seqn(m), !.r.phase = 1, !.r.count = 0] = x3
    OBVIOUS
  <2> HIDE DEF sl
  <2>1. x1 = [r |-> [phase |-> 0, base |-> Seqn(m), slots |-> sl, count |-> 0], fec |-> NoFec, out |-> <<>>]
    BY DEF NewRing, sl
  <2> HIDE DEF x1
  <2>2. x2 = [r |-> [phase |-> 1, base |-> Seqn(m), slots |-> sl, count |-> 0], fec |-> NoFec, out |-> <<>>]
    BY <2>1
  <2> HIDE DEF x2
  <2>3. x3 = [r |-> [phase |-> 1, base |-> Seqn(m), slots |-> sl, count |-> 0], fec |-> NoFec, out |-> <<>>]
    BY <2>2
  <2> HIDE DEF x3
  <2> QED BY <2>0, <2>3 DEF Ring
<1>2. InsertFirst(x, m) = Rec(1, m, s2, (0 + 1) % SeqSpace, <<>>)
  <2> HIDE DEF x, sl
  <2> QED BY <1>1, StoreFields DEF InsertFirst, Rec
<1>3. (0 + 1) % SeqSpace = 1
  <2>1. 1 \in 0 .. (SeqSpace - 1) /\ 0 + 1 = 1 BY <1>n
  <2> QED BY <2>1, <1>n
<1>e. <<>> \in Seq(Packet) /\ Rising(<<>>) /\ (\A i \in 1 .. Len(<<>>) : <<>>[i] < m) /\ Cardinality({}) = 0
  BY FS_EmptySet DEF Rising
<1>4. sl[SlotOf(Seqn(m))] = None BY <1>a
<1> HIDE DEF sl, x
<1>5. /\ s2 \in [Slot -> Packet \cup {None}] /\ Waiting(s2) = {m} /\ Cardinality(Waiting(s2)) = 1
  <2>1. /\ s2 \in [Slot -> Packet \cup {None}] /\ Waiting(s2) = Waiting(sl) \cup {m}
        /\ Cardinality(Waiting(s2)) = Cardinality(Waiting(sl)) + 1
    BY <1>n, <1>a, <1>4, FillIs
  <2> QED BY <2>1, <1>a, <1>e
<1>6. InWindow(s2, m)
  <2> SUFFICES ASSUME NEW s \in Slot, s2[s] # None
               PROVE  s2[s] \in m .. (m + WINDOW_SIZE - 1) /\ SlotOf(Seqn(s2[s])) = s
    BY DEF InWindow
  <2>1. s2[s] = m BY <1>5 DEF Waiting
  <2>2. s = SlotOf(Seqn(m))
    <3>1. sl[s] = None BY <1>a DEF Waiting
    <3>2. s2[s] = IF s = SlotOf(Seqn(m)) THEN m ELSE sl[s] BY <1>a DEF Filled
    <3> HIDE DEF s2
    <3> QED BY <3>1, <3>2
  <2>3. m \in m .. (m + WINDOW_SIZE - 1) BY <1>n
  <2> QED BY <2>1, <2>2, <2>3
<1> HIDE DEF s2
<1>7. Aligned(s2, 1, <<>>, m)
  <2>1. 1 \in Nat /\ Cardinality(Waiting(s2)) <= 1 /\ 1 <= Cardinality(Waiting(s2)) + m
    BY <1>5, <1>n
  <2> QED BY <2>1, <1>n, <1>e, <1>5, <1>6 DEF Aligned
<1>8. InsertFirst(x, m) = Rec(1, m, s2, 1, <<>>) BY <1>2, <1>3
<1>9. \A p, q \in {m} : p - q <= InitialSpread BY <1>n
<1>10. Collecting(InsertFirst(x, m), {m}) BY <1>5, <1>7, <1>8, <1>9 DEF Collecting
<1> QED BY <1>10 DEF x

-----------------------------------------------------------------------------
(* The inductive invariant *)

\* Before the first packet, while the first packets are collected, and after.
RingInv ==
  \/ r = NewRing /\ fec = NoFec /\ out = <<>> /\ stored = {}
  \/ Collecting(State, stored)
  \/ Delivering(State, stored)

LEMMA RingInit ==
  ASSUME TRUE \notin UseFec
  PROVE  Init => RingInv
<1> SUFFICES ASSUME Init PROVE RingInv
  OBVIOUS
<1>1. fec = NoFec
  <2>1. PICK p \in UseFec :
          fec = [port |-> p, active |-> FALSE,
                 groups |-> [i \in 1 .. FEC_MAX_GROUPS |-> NoGroup], minEnd |-> NoSeq]
    BY DEF Init
  <2>2. p = FALSE BY ReorderAssumption
  <2> QED BY <2>1, <2>2 DEF NoFec
<1> QED BY <1>1 DEF Init, RingInv

\* In phase 2 every arrival leaves a ring that can deliver on.
LEMMA DeliversOn ==
  ASSUME NEW x, NEW st, Delivering(x, st), NEW m \in Packet
  PROVE  Delivering(Insert(x, m), st)
<1>1. PICK b, sl, k, o : /\ x = Rec(2, b, sl, k, o) /\ Aligned(sl, k, o, b) /\ Spare(sl, k, b)
                         /\ st \subseteq RangeOf(o) \cup Waiting(sl)
  BY DEF Delivering
<1>0. b \in 0 .. Packets /\ b \in Int /\ m \in Int BY <1>1, PacketNat DEF Aligned
<1>2. x.r.phase = 2 /\ x.r.base = Seqn(b) BY <1>1 DEF Rec, Ring
<1>3. Diff(Seqn(m), x.r.base) = m - b BY <1>0, <1>2, DiffIs
<1> DEFINE d == Diff(Seqn(m), x.r.base)
<1>4. CASE m = b
  <2>1. d = 0 BY <1>0, <1>3, <1>4
  <2> HIDE DEF d
  <2>2. Insert(x, m) = FlushConsecutive(Store(x, m)) BY <2>1, <1>2 DEF Insert, d
  <2>3. Delivering(FlushConsecutive(Store(Rec(2, b, sl, k, o), b)), st)
    BY <1>1, <1>4, NextDelivers
  <2> QED BY <2>2, <2>3, <1>1, <1>4
<1>5. CASE m < b
  <2>1. d < 0 /\ ~(d = 0) /\ ~(d > 0) BY <1>0, <1>3, <1>5
  <2> HIDE DEF d
  <2>2. Insert(x, m) = x BY <2>1, <1>2 DEF Insert, d
  <2> QED BY <2>2
<1>6. CASE b < m
  <2>1. d > 0 /\ ~(d = 0) /\ ~(d < 0) BY <1>0, <1>3, <1>6
  <2> HIDE DEF d
  <2>2. Insert(x, m) = InsertAhead(x, m) BY <2>1, <1>2 DEF Insert, d
  <2>3. Delivering(InsertAhead(Rec(2, b, sl, k, o), m), st)
    BY <1>1, <1>6, AheadDelivers
  <2> QED BY <2>2, <2>3, <1>1
<1> QED BY <1>0, <1>4, <1>5, <1>6

LEMMA ArrivalKeeps ==
  ASSUME InitialSpread < WINDOW_SIZE, RingInv, NEW m \in Packet, RtpArrives(m)
  PROVE  RingInv'
<1> DEFINE x == Insert(State, m)
           here == m \in {x.r.slots[s] : s \in Slot} \/ m \in {x.out[i] : i \in (Len(out) + 1) .. Len(x.out)}
<1>1. r' = x.r /\ fec' = x.fec /\ out' = x.out /\ stored' = IF here THEN stored \cup {m} ELSE stored
  BY DEF RtpArrives
<1>m. m # None
  BY PacketNat
<1>s. State = [r |-> r, fec |-> fec, out |-> out] /\ State.r.phase = r.phase
  BY DEF State
<1>2. \/ Collecting(x, stored') \/ Delivering(x, stored')
  <2>0. ASSUME Collecting(x, stored \cup {m})
        PROVE  Collecting(x, stored')
    <3>1. PICK b, sl, k : x = Rec(1, b, sl, k, <<>>) /\ stored \cup {m} = Waiting(sl)
      BY <2>0 DEF Collecting
    <3>2. x.r.slots = sl BY <3>1 DEF Rec, Ring
    <3>3. m \in {x.r.slots[s] : s \in Slot}
      <4> HIDE DEF x
      <4> QED BY <3>1, <3>2 DEF Waiting
    <3>4. stored' = stored \cup {m} BY <1>1, <3>3
    <3> HIDE DEF x
    <3> QED BY <2>0, <3>4
  <2>1. ASSUME Delivering(x, stored \cup {m})
        PROVE  Delivering(x, stored')
    <3>1. stored' \subseteq stored \cup {m} BY <1>1
    <3> HIDE DEF x
    <3>2. \A st : st \subseteq stored \cup {m} => Delivering(x, st)
      BY <2>1 DEF Delivering
    <3> QED BY <3>1, <3>2
  <2>2. CASE r = NewRing /\ fec = NoFec /\ out = <<>> /\ stored = {}
    <3>1. x = InsertFirst(State, m) BY <2>2, <1>s DEF Insert, NewRing
    <3>2. State = [r |-> NewRing, fec |-> NoFec, out |-> <<>>]
      BY <2>2 DEF State
    <3> HIDE DEF x
    <3>3. Collecting(x, {m}) BY <3>1, <3>2, FirstCollects
    <3>4. stored \cup {m} = {m} BY <2>2
    <3> QED BY <3>3, <3>4, <2>0
  <2>3. CASE Collecting(State, stored)
    <3>1. PICK b, sl, k : State = Rec(1, b, sl, k, <<>>) BY <2>3 DEF Collecting
    <3>2. State.r.phase = 1 BY <3>1 DEF Rec, Ring
    <3>3. x = InsertCollecting(State, m) BY <3>2 DEF Insert
    <3>4. \A p \in stored : m - p <= InitialSpread /\ p - m <= InitialSpread
      BY <3>2, <1>s DEF RtpArrives, InitialArrival
    <3> HIDE DEF x
    <3>5. \/ Collecting(x, stored \cup {m}) \/ Delivering(x, stored \cup {m})
      BY <2>3, <3>3, <3>4, CollectsOn
    <3> QED BY <3>5, <2>0, <2>1
  <2>4. CASE Delivering(State, stored)
    <3>1. Delivering(x, stored) BY <2>4, DeliversOn
    <3>l. Len(out) \in Nat
      <4>1. PICK b, sl, k, o : State = Rec(2, b, sl, k, o) /\ Aligned(sl, k, o, b)
        BY <2>4 DEF Delivering
      <4>2. State.out = o /\ o \in Seq(Packet) BY <4>1 DEF Rec, Ring, Aligned
      <4> QED BY <4>2, <1>s
    <3> HIDE DEF x
    <3>2. PICK b, sl, k, o : /\ x = Rec(2, b, sl, k, o) /\ Aligned(sl, k, o, b) /\ Spare(sl, k, b)
                             /\ stored \subseteq RangeOf(o) \cup Waiting(sl)
      BY <3>1 DEF Delivering
    <3>3. x.r.slots = sl /\ x.out = o BY <3>2 DEF Rec, Ring
    <3>4. m \in {x.r.slots[s] : s \in Slot} => m \in Waiting(sl)
      BY <3>3, <1>m DEF Waiting
    <3>5. m \in {x.out[i] : i \in (Len(out) + 1) .. Len(x.out)} => m \in RangeOf(o)
      BY <3>3, <3>l DEF RangeOf
    <3>6. stored' \subseteq RangeOf(o) \cup Waiting(sl) BY <1>1, <3>2, <3>4, <3>5
    <3> QED BY <3>2, <3>6 DEF Delivering
  <2> QED BY <2>2, <2>3, <2>4 DEF RingInv
<1> HIDE DEF x
<1>3. State' = x
  <2>1. PICK ph, b, sl, k, o : x = Rec(ph, b, sl, k, o) BY <1>2 DEF Collecting, Delivering
  <2>2. x = [r |-> x.r, fec |-> x.fec, out |-> x.out] BY <2>1 DEF Rec, Ring
  <2>3. State' = [r |-> r', fec |-> fec', out |-> out'] BY DEF State
  <2> QED BY <1>1, <2>2, <2>3
<1> QED BY <1>2, <1>3 DEF RingInv

LEMMA NoFecKept == RingInv => fec = NoFec
<1>1. ASSUME Collecting(State, stored) \/ Delivering(State, stored)
      PROVE  fec = NoFec
  <2>1. PICK ph, b, sl, k, o : State = Rec(ph, b, sl, k, o)
    BY <1>1 DEF Collecting, Delivering
  <2>2. State.fec = NoFec BY <2>1 DEF Rec, Ring
  <2> QED BY <2>2 DEF State
<1> QED BY <1>1 DEF RingInv

LEMMA RingNext ==
  ASSUME TRUE \notin UseFec, InitialSpread < WINDOW_SIZE
  PROVE  RingInv /\ [Next]_vars => RingInv'
<1> SUFFICES ASSUME RingInv, [Next]_vars PROVE RingInv'
  OBVIOUS
<1>1. CASE \E m \in Packet : RtpArrives(m) BY <1>1, ArrivalKeeps
<1>2. CASE Restart
  <2>1. fec = NoFec BY NoFecKept
  <2>2. fec' = NoFec BY <1>2, <2>1 DEF Restart, NoFec
  <2> QED BY <1>2, <2>2 DEF Restart, RingInv
<1>3. CASE UNCHANGED vars BY <1>3 DEF vars, RingInv, State
<1> QED BY <1>1, <1>2, <1>3 DEF Next

LEMMA RingShows ==
  RingInv => InOrder /\ StoredIsAccounted
<1> SUFFICES ASSUME RingInv PROVE InOrder /\ StoredIsAccounted
  OBVIOUS
<1>n. SeqSpace \in Nat \ {0} /\ Packets \in Nat /\ 2 * Packets <= SeqSpace /\ WINDOW_SIZE \in Nat
  BY Numbers
<1>d. Delivered = RangeOf(out) /\ Buffered = Waiting(r.slots)
  BY DEF Delivered, Buffered, RangeOf, Waiting
<1>1. CASE r = NewRing /\ fec = NoFec /\ out = <<>> /\ stored = {}
  <2>1. r.slots \in [Slot -> Packet \cup {None}] /\ Waiting(r.slots) = {} /\ r.count = 0
    BY <1>1 DEF NewRing, Waiting
  <2>2. TypeOK BY <1>1, <1>n DEF TypeOK, NewRing, NoFec
  <2>3. Cardinality(Buffered \ Delivered) = 0 BY <1>d, <2>1, FS_EmptySet
  <2> QED BY <1>1, <2>1, <2>2, <2>3 DEF InOrder, StoredIsAccounted, StoredIsNeverLost, CountCoversWaiting
<1>2. ASSUME NEW ph \in {1, 2}, NEW b, NEW sl, NEW k, NEW o, State = Rec(ph, b, sl, k, o), Aligned(sl, k, o, b),
             stored \subseteq RangeOf(o) \cup Waiting(sl)
      PROVE  InOrder /\ StoredIsAccounted
  <2>1. State.r = r /\ State.fec = fec /\ State.out = out BY DEF State
  <2>2. r = [phase |-> ph, base |-> Seqn(b), slots |-> sl, count |-> k] /\ fec = NoFec /\ out = o
    BY <1>2, <2>1 DEF Rec, Ring
  <2>3. /\ b \in 0 .. Packets /\ sl \in [Slot -> Packet \cup {None}] /\ o \in Seq(Packet) /\ InWindow(sl, b)
        /\ Rising(o) /\ k \in Nat /\ Cardinality(Waiting(sl)) <= k /\ k <= Cardinality(Waiting(sl)) + b
    BY <1>2 DEF Aligned
  <2>4. Waiting(sl) \subseteq Packet /\ IsFiniteSet(Waiting(sl)) /\ Cardinality(Waiting(sl)) \in Nat
    BY <2>3, WaitingFinite
  <2>5. k \in 0 .. (SeqSpace - 1)
    <3>1. Cardinality(Waiting(sl)) + b <= Packets BY <2>3, CountBound
    <3>2. b \in Nat BY <2>3
    <3> QED BY <3>1, <3>2, <2>3, <2>4, <1>n
  <2>6. Seqn(b) \in 0 .. (SeqSpace - 1) BY <2>3, SeqnType
  <2>7. RangeOf(o) \subseteq Packet BY <2>3 DEF RangeOf
  <2>8. TypeOK
    BY <2>2, <2>3, <2>4, <2>5, <2>6, <2>7, <1>2 DEF TypeOK, NoFec
  <2>9. CountCoversWaiting
    <3>1. r.count = k /\ Buffered = Waiting(sl) BY <2>2, <1>d
    <3>2. Buffered \ Delivered \subseteq Waiting(sl) BY <3>1
    <3>3. IsFiniteSet(Buffered \ Delivered) /\ Cardinality(Buffered \ Delivered) <= Cardinality(Waiting(sl))
      BY <2>4, <3>2, FS_Subset
    <3>4. Cardinality(Buffered \ Delivered) \in Nat BY <3>3, FS_CardinalityType
    <3> QED BY <3>1, <3>3, <3>4, <2>3, <2>4 DEF CountCoversWaiting
  <2>10. StoredIsNeverLost BY <1>2, <1>d, <2>2 DEF StoredIsNeverLost
  <2>11. InOrder BY <2>2, <2>3 DEF InOrder, Rising
  <2> QED BY <2>8, <2>9, <2>10, <2>11 DEF StoredIsAccounted
<1>3. CASE Collecting(State, stored)
  <2>1. PICK b, sl, k : State = Rec(1, b, sl, k, <<>>) /\ Aligned(sl, k, <<>>, b) /\ stored = Waiting(sl)
    BY <1>3 DEF Collecting
  <2>2. stored \subseteq RangeOf(<<>>) \cup Waiting(sl) BY <2>1
  <2> QED BY <2>1, <2>2, <1>2
<1>4. CASE Delivering(State, stored)
  <2>1. PICK b, sl, k, o : State = Rec(2, b, sl, k, o) /\ Aligned(sl, k, o, b)
                           /\ stored \subseteq RangeOf(o) \cup Waiting(sl)
    BY <1>4 DEF Delivering
  <2> QED BY <2>1, <1>2
<1> QED BY <1>1, <1>3, <1>4 DEF RingInv

-----------------------------------------------------------------------------
\* Without FEC, the client gets the packets in the order the sender sent them
\* and none of them twice, whatever the network loses, repeats or reorders:
\* rtp_reorder_insert with flush_consecutive and force_flush_until.  The first
\* packets must lie within one window.
THEOREM DeliversInOrder ==
  ASSUME TRUE \notin UseFec, InitialSpread < WINDOW_SIZE
  PROVE  Spec => []InOrder
<1>1. Init => RingInv BY RingInit
<1>2. RingInv /\ [Next]_vars => RingInv' BY RingNext
<1>3. RingInv => InOrder BY RingShows
<1> QED BY <1>1, <1>2, <1>3, PTL DEF Spec

\* A packet that got a slot of the ring is delivered or still waits there, and
\* the 16-bit count covers what waits: neither rtp_reorder_insert nor the moves
\* of the window overwrite, forget or undercount it.
THEOREM StoredIsKept ==
  ASSUME TRUE \notin UseFec, InitialSpread < WINDOW_SIZE
  PROVE  Spec => []StoredIsAccounted
<1>1. Init => RingInv BY RingInit
<1>2. RingInv /\ [Next]_vars => RingInv' BY RingNext
<1>3. RingInv => StoredIsAccounted BY RingShows
<1> QED BY <1>1, <1>2, <1>3, PTL DEF Spec
=============================================================================
