-------------------------- MODULE BufferPoolProofs --------------------------
(***************************************************************************)
(* For every set of segment addresses, every size and every watermark: the *)
(* buffer pool never frees memory somebody holds, hands no buffer out      *)
(* twice, loses none, its counters are exact, and shrinking frees what it  *)
(* should and no more.                                                     *)
(*                                                                         *)
(* None of these is inductive alone.  That a segment whose num_free equals *)
(* its num_buffers is idle rests on SegmentAccounting; that counting rests *)
(* on FreeIffUnheld, which rests on the counts the owners hold.            *)
(***************************************************************************)
EXTENDS BufferPool, FiniteSetTheorems, WellFoundedInduction, TLAPS

\* The numbers of the buffers of segment s that are on the free list `list`.
FreeOf(list, s) == {i \in 1 .. SegmentLimit : <<s, i>> \in list}

\* The reference count of a buffer is the number of references on it.
RefsAreHeld == \A b \in Buffer : refcount[b] = held[b]

\* The inductive invariant.
IInv ==
  /\ TypeOK
  /\ RefsAreHeld
  /\ NoUseAfterFree
  /\ FreeIffUnheld
  /\ SegmentAccounting
  /\ PoolAccounting

-----------------------------------------------------------------------------
\* Sizes are naturals, a segment fits SegmentLimit and there are finitely
\* many buffers.
LEMMA Constants ==
  /\ SegmentLimit \in Nat \ {0}
  /\ INITIAL_SIZE <= SegmentLimit
  /\ EXPAND_SIZE <= SegmentLimit
  /\ IsFiniteSet(Buffer)
<1>1. /\ SegmentLimit \in Nat \ {0}
      /\ INITIAL_SIZE <= SegmentLimit
      /\ EXPAND_SIZE <= SegmentLimit
  BY PoolAssumption DEF SegmentLimit, Larger
<1>2. IsFiniteSet(1 .. SegmentLimit) BY <1>1, FS_Interval
<1>3. IsFiniteSet(Buffer) BY <1>2, PoolAssumption, FS_Product DEF Buffer
<1> QED BY <1>1, <1>3

\* A segment of n buffers numbers them 1 .. n.
LEMMA IntervalCount ==
  ASSUME NEW n \in Nat
  PROVE  IsFiniteSet(1 .. n) /\ Cardinality(1 .. n) = n
<1>1. /\ IsFiniteSet(1 .. n)
      /\ Cardinality(1 .. n) = IF 1 > n THEN 0 ELSE n - 1 + 1
  BY FS_Interval
<1> QED BY <1>1

\* The free buffers of one segment are finitely many.
LEMMA FreeOfFinite ==
  ASSUME NEW list, NEW s
  PROVE  IsFiniteSet(FreeOf(list, s)) /\ Cardinality(FreeOf(list, s)) \in Nat
<1>1. IsFiniteSet(1 .. SegmentLimit) BY Constants, FS_Interval
<1>2. IsFiniteSet(FreeOf(list, s)) BY <1>1, FS_Subset DEF FreeOf
<1> QED BY <1>2, FS_CardinalityType

\* A set of buffers is finite.
LEMMA BuffersFinite ==
  ASSUME NEW list \in SUBSET Buffer
  PROVE  IsFiniteSet(list) /\ Cardinality(list) \in Nat
BY Constants, FS_Subset, FS_CardinalityType

\* Disjoint sets of buffers add up, and removing a part subtracts it.
LEMMA BuffersAddUp ==
  ASSUME NEW A \in SUBSET Buffer, NEW B \in SUBSET Buffer
  PROVE  /\ A \cap B = {} => Cardinality(A \cup B) = Cardinality(A) + Cardinality(B)
         /\ B \subseteq A => Cardinality(A \ B) = Cardinality(A) - Cardinality(B)
<1>1. IsFiniteSet(A) /\ IsFiniteSet(B) /\ Cardinality(A) \in Nat /\ Cardinality(B) \in Nat
  BY BuffersFinite
<1>2. ASSUME A \cap B = {}
      PROVE  Cardinality(A \cup B) = Cardinality(A) + Cardinality(B)
  <2>1. Cardinality(A \cup B) = Cardinality(A) + Cardinality(B) - Cardinality(A \cap B)
    BY <1>1, FS_Union
  <2>2. Cardinality(A \cap B) = 0 BY <1>2, FS_EmptySet
  <2> QED BY <1>1, <2>1, <2>2
<1>3. ASSUME B \subseteq A
      PROVE  Cardinality(A \ B) = Cardinality(A) - Cardinality(B)
  <2>1. A \cap B = B BY <1>3
  <2>2. Cardinality(A \ B) = Cardinality(A) - Cardinality(A \cap B)
    BY <1>1, FS_Difference
  <2> QED BY <2>1, <2>2
<1> QED BY <1>2, <1>3

\* Taking a buffer off a free list takes one off the count of its segment and
\* leaves the counts of the others (the tail of buffer_pool_alloc_from).
LEMMA PopCounts ==
  ASSUME NEW list \in SUBSET Buffer, NEW S \in SUBSET SegId,
         NEW per \in [SegId -> Nat],
         \A s \in S : per[s] = Cardinality(FreeOf(list, s)),
         NEW b \in list, b[1] \in S
  PROVE  /\ [per EXCEPT ![b[1]] = @ - 1] \in [SegId -> Nat]
         /\ \A s \in S : [per EXCEPT ![b[1]] = @ - 1][s]
                           = Cardinality(FreeOf(list \ {b}, s))
         /\ Cardinality(list \ {b}) = Cardinality(list) - 1
         /\ Cardinality(list) - 1 \in Nat
<1>1. PICK t \in SegId, i \in 1 .. SegmentLimit : b = <<t, i>>
  BY DEF Buffer
<1>2. i \in FreeOf(list, t) /\ t \in S BY <1>1 DEF FreeOf
<1>3. FreeOf(list \ {b}, t) = FreeOf(list, t) \ {i} BY <1>1 DEF FreeOf
<1>4. \A s \in SegId \ {t} : FreeOf(list \ {b}, s) = FreeOf(list, s)
  BY <1>1 DEF FreeOf
<1>5. /\ Cardinality(FreeOf(list \ {b}, t)) = per[t] - 1
      /\ per[t] - 1 \in Nat
  <2>1. Cardinality(FreeOf(list, t) \ {i}) = Cardinality(FreeOf(list, t)) - 1
    BY <1>2, FreeOfFinite, FS_RemoveElement
  <2>2. Cardinality(FreeOf(list, t) \ {i}) \in Nat BY <1>3, FreeOfFinite
  <2> QED BY <1>2, <1>3, <2>1, <2>2
<1>6. Cardinality(list \ {b}) = Cardinality(list) - 1 BY BuffersFinite, FS_RemoveElement
<1>7. Cardinality(list \ {b}) \in Nat BY BuffersFinite
<1> QED BY <1>1, <1>4, <1>5, <1>6, <1>7

\* Putting a buffer back on a free list is the reverse (buffer_ref_put).
LEMMA PutCounts ==
  ASSUME NEW list \in SUBSET Buffer, NEW S \in SUBSET SegId,
         NEW per \in [SegId -> Nat],
         \A s \in S : per[s] = Cardinality(FreeOf(list, s)),
         NEW b \in Buffer \ list, b[1] \in S
  PROVE  /\ [per EXCEPT ![b[1]] = @ + 1] \in [SegId -> Nat]
         /\ \A s \in S : [per EXCEPT ![b[1]] = @ + 1][s]
                           = Cardinality(FreeOf(list \cup {b}, s))
         /\ Cardinality(list \cup {b}) = Cardinality(list) + 1
<1>1. PICK t \in SegId, i \in 1 .. SegmentLimit : b = <<t, i>>
  BY DEF Buffer
<1>2. i \notin FreeOf(list, t) /\ t \in S BY <1>1 DEF FreeOf
<1>3. FreeOf(list \cup {b}, t) = FreeOf(list, t) \cup {i}
  BY <1>1 DEF FreeOf
<1>4. \A s \in SegId \ {t} : FreeOf(list \cup {b}, s) = FreeOf(list, s)
  BY <1>1 DEF FreeOf
<1>5. Cardinality(FreeOf(list \cup {b}, t)) = per[t] + 1
  <2>1. Cardinality(FreeOf(list, t) \cup {i}) = Cardinality(FreeOf(list, t)) + 1
    BY <1>2, FreeOfFinite, FS_AddElement
  <2> QED BY <1>2, <1>3, <2>1
<1>6. Cardinality(list \cup {b}) = Cardinality(list) + 1 BY BuffersFinite, FS_AddElement
<1> QED BY <1>1, <1>4, <1>5, <1>6

-----------------------------------------------------------------------------
\* A pool that consists of one fresh segment satisfies the invariant, after
\* buffer_pool_init and after the restart of a worker alike.
LEMMA FreshPool ==
  ASSUME NEW s \in SegId
  PROVE  /\ SizeOfFirst(s) \in [SegId -> 0 .. SegmentLimit]
         /\ {s} \X (1 .. INITIAL_SIZE) \subseteq Buffer
         /\ Cardinality({s} \X (1 .. INITIAL_SIZE)) = INITIAL_SIZE
         /\ FreeOf({s} \X (1 .. INITIAL_SIZE), s) = 1 .. INITIAL_SIZE
         /\ Cardinality(1 .. INITIAL_SIZE) = INITIAL_SIZE
         /\ \A b \in Buffer : b \in {s} \X (1 .. INITIAL_SIZE)
              <=> b[1] \in {s} /\ b[2] <= SizeOfFirst(s)[b[1]]
<1>1. IsFiniteSet(1 .. INITIAL_SIZE) /\ Cardinality(1 .. INITIAL_SIZE) = INITIAL_SIZE
  BY PoolAssumption, FS_Interval
<1>2. IsFiniteSet({s}) /\ Cardinality({s}) = 1 BY FS_Singleton
<1>3. Cardinality({s} \X (1 .. INITIAL_SIZE)) = 1 * INITIAL_SIZE
  BY <1>1, <1>2, FS_Product, ZenonT(60)
<1>4. Cardinality({s} \X (1 .. INITIAL_SIZE)) = INITIAL_SIZE
  BY <1>3, PoolAssumption
<1>5. SizeOfFirst(s) \in [SegId -> 0 .. SegmentLimit]
  BY PoolAssumption, Constants DEF SizeOfFirst
<1>6. {s} \X (1 .. INITIAL_SIZE) \subseteq Buffer BY PoolAssumption, Constants DEF Buffer
<1>7. FreeOf({s} \X (1 .. INITIAL_SIZE), s) = 1 .. INITIAL_SIZE
  BY PoolAssumption, Constants DEF FreeOf
<1>8. \A b \in Buffer : b \in {s} \X (1 .. INITIAL_SIZE)
        <=> b[1] \in {s} /\ b[2] <= SizeOfFirst(s)[b[1]]
  BY PoolAssumption, Constants DEF Buffer, SizeOfFirst
<1> QED BY <1>1, <1>4, <1>5, <1>6, <1>7, <1>8

\* The pool starts in a state of the invariant.
LEMMA InitIInv == Init => IInv
<1> SUFFICES ASSUME Init PROVE IInv
  OBVIOUS
<1>1. PICK s \in SegId :
        /\ segments = {s}
        /\ before = {}
        /\ seg_buffers = SizeOfFirst(s)
        /\ seg_free = SizeOfFirst(s)
        /\ free_list = {s} \X (1 .. INITIAL_SIZE)
        /\ num_buffers = INITIAL_SIZE
        /\ num_free = INITIAL_SIZE
  BY DEF Init
<1>2. refcount = [b \in Buffer |-> 0] /\ held = [b \in Buffer |-> 0]
  BY DEF Init
<1>3. Live = free_list BY <1>1, FreshPool DEF Live, BuffersOf
<1>4. seg_free[s] = INITIAL_SIZE BY <1>1 DEF SizeOfFirst
<1>5. SegmentAccounting
  <2>1. Cardinality(FreeOf(free_list, s)) = seg_free[s] BY <1>1, <1>4, FreshPool
  <2> QED BY <1>1, <2>1 DEF SegmentAccounting, FreeOf
<1>6. TypeOK
  <2>1. seg_free \in [SegId -> Nat] BY <1>1, PoolAssumption DEF SizeOfFirst
  <2>2. refcount \in [Buffer -> Nat] /\ held \in [Buffer -> Nat]
    BY <1>2
  <2> QED BY <1>1, <2>1, <2>2, FreshPool, PoolAssumption DEF TypeOK
<1>7. PoolAccounting BY <1>1, <1>3, FreshPool DEF PoolAccounting
<1>8. RefsAreHeld /\ NoUseAfterFree BY <1>2 DEF RefsAreHeld, NoUseAfterFree
<1>9. FreeIffUnheld BY <1>2, <1>3 DEF FreeIffUnheld
<1> QED BY <1>5, <1>6, <1>7, <1>8, <1>9 DEF IInv

\* A worker that starts again starts with a pool of the invariant.
LEMMA RestartIInv ==
  ASSUME IInv, NEW s \in SegId, Restart(s)
  PROVE  IInv'
<1> USE DEF IInv, Restart
<1>1. \A b \in Buffer : held[b] = 0 /\ refcount[b] = 0
  BY DEF NoUseAfterFree, Live, BuffersOf, TypeOK, RefsAreHeld
<1>2. Live' = free_list' BY FreshPool DEF Live, BuffersOf
<1>3. seg_free'[s] = INITIAL_SIZE BY DEF SizeOfFirst
<1>4. SegmentAccounting'
  <2>1. Cardinality(FreeOf(free_list', s)) = seg_free'[s] BY <1>3, FreshPool
  <2> QED BY <2>1 DEF SegmentAccounting, FreeOf
<1>5. TypeOK'
  <2>1. seg_free' \in [SegId -> Nat] BY PoolAssumption DEF SizeOfFirst
  <2>2. seg_buffers' \in [SegId -> 0 .. SegmentLimit] /\ free_list' \subseteq Buffer
    BY FreshPool
  <2>3. num_buffers' \in Nat /\ num_free' \in Nat BY PoolAssumption
  <2> QED BY <2>1, <2>2, <2>3 DEF TypeOK
<1>6. PoolAccounting' BY <1>2, FreshPool DEF PoolAccounting
<1>7. RefsAreHeld' /\ NoUseAfterFree' BY <1>1 DEF RefsAreHeld, NoUseAfterFree
<1>8. FreeIffUnheld' BY <1>1, <1>2 DEF FreeIffUnheld
<1> QED BY <1>4, <1>5, <1>6, <1>7, <1>8

\* Cleanup leaves an empty pool, and no reference to anything in it.
LEMMA CleanupIInv ==
  ASSUME IInv, Cleanup
  PROVE  IInv'
<1> USE DEF IInv, Cleanup
<1>1. Live' = {} BY DEF Live, BuffersOf
<1>2. TypeOK' BY Constants DEF TypeOK
<1>3. SegmentAccounting' BY DEF SegmentAccounting
<1>4. PoolAccounting' BY <1>1, FS_EmptySet DEF PoolAccounting
<1>5. RefsAreHeld' /\ NoUseAfterFree' /\ FreeIffUnheld'
  BY <1>1 DEF RefsAreHeld, NoUseAfterFree, FreeIffUnheld, TypeOK
<1> QED BY <1>2, <1>3, <1>4, <1>5

\* Popping a buffer nobody holds from a correctly counted list of unheld live
\* buffers keeps the invariant.  It serves both forms of allocation: the lists
\* and the counters are those just before the pop.
LEMMA PopIInv ==
  ASSUME IInv,
         NEW list \in SUBSET Buffer, NEW per \in [SegId -> Nat], NEW free,
         Pop(list, per, free),
         segments' \in SUBSET SegId,
         \A s \in segments' : per[s] = Cardinality(FreeOf(list, s)),
         free = Cardinality(list),
         \A b \in Buffer : b \in list <=> b \in Live' /\ held[b] = 0,
         \A b \in Buffer : held[b] > 0 => b \in Live'
  PROVE  /\ seg_free' \in [SegId -> Nat]
         /\ free_list' \subseteq Buffer
         /\ num_free' \in Nat
         /\ num_free' = Cardinality(free_list')
         /\ refcount' \in [Buffer -> Nat]
         /\ held' \in [Buffer -> Nat]
         /\ RefsAreHeld' /\ NoUseAfterFree' /\ FreeIffUnheld' /\ SegmentAccounting'
<1>1. PICK b \in list :
        /\ free_list' = list \ {b}
        /\ seg_free' = [per EXCEPT ![b[1]] = @ - 1]
        /\ num_free' = free - 1
        /\ refcount' = [refcount EXCEPT ![b] = 1]
        /\ held' = [held EXCEPT ![b] = @ + 1]
  BY DEF Pop
<1>2. b \in Buffer /\ b \in Live' /\ held[b] = 0
  OBVIOUS
<1>3. b[1] \in segments' BY <1>2 DEF Live, BuffersOf
<1>4. /\ [per EXCEPT ![b[1]] = @ - 1] \in [SegId -> Nat]
      /\ \A s \in segments' : [per EXCEPT ![b[1]] = @ - 1][s]
                                = Cardinality(FreeOf(list \ {b}, s))
      /\ Cardinality(list \ {b}) = Cardinality(list) - 1
      /\ Cardinality(list) - 1 \in Nat
  BY <1>3, PopCounts
<1>5. held \in [Buffer -> Nat] /\ refcount \in [Buffer -> Nat] /\ RefsAreHeld
  BY DEF IInv, TypeOK
<1>6. held' \in [Buffer -> Nat] /\ refcount' \in [Buffer -> Nat]
  BY <1>1, <1>2, <1>5
<1>7. RefsAreHeld' BY <1>1, <1>2, <1>5 DEF RefsAreHeld
<1>8. NoUseAfterFree' BY <1>1, <1>2, <1>5 DEF NoUseAfterFree
<1>9. FreeIffUnheld' BY <1>1, <1>2, <1>5 DEF FreeIffUnheld
<1>10. SegmentAccounting' BY <1>1, <1>4 DEF SegmentAccounting, FreeOf
<1> QED BY <1>1, <1>4, <1>6, <1>7, <1>8, <1>9, <1>10

\* Allocation from the free list.
LEMMA AllocIInv ==
  ASSUME IInv, Alloc
  PROVE  IInv'
<1> USE DEF IInv
<1>1. Live' = Live BY DEF Alloc, Live, BuffersOf
<1>2. /\ free_list \in SUBSET Buffer /\ seg_free \in [SegId -> Nat]
      /\ segments' \in SUBSET SegId
      /\ num_free = Cardinality(free_list)
      /\ Pop(free_list, seg_free, num_free)
  BY DEF TypeOK, Alloc, PoolAccounting
<1>3. \A s \in segments' : seg_free[s] = Cardinality(FreeOf(free_list, s))
  BY DEF Alloc, SegmentAccounting, FreeOf
<1>4. /\ \A b \in Buffer : b \in free_list <=> b \in Live' /\ held[b] = 0
      /\ \A b \in Buffer : held[b] > 0 => b \in Live'
  BY <1>1 DEF FreeIffUnheld, NoUseAfterFree
<1>5. /\ seg_free' \in [SegId -> Nat]
      /\ free_list' \subseteq Buffer
      /\ num_free' \in Nat
      /\ num_free' = Cardinality(free_list')
      /\ refcount' \in [Buffer -> Nat]
      /\ held' \in [Buffer -> Nat]
      /\ RefsAreHeld' /\ NoUseAfterFree' /\ FreeIffUnheld' /\ SegmentAccounting'
  BY <1>2, <1>3, <1>4, PopIInv
<1>6. TypeOK' BY <1>5 DEF TypeOK, Alloc
<1>7. PoolAccounting' BY <1>1, <1>5 DEF PoolAccounting, Alloc
<1> QED BY <1>5, <1>6, <1>7

\* The segment an expansion adds is of a legal size and new in every respect.
LEMMA AddedBuffers ==
  ASSUME IInv, CanExpand, NEW s \in SegId \ segments
  PROVE  /\ BuffersToAdd \in 1 .. SegmentLimit
         /\ {s} \X (1 .. BuffersToAdd) \subseteq Buffer
         /\ Cardinality({s} \X (1 .. BuffersToAdd)) = BuffersToAdd
         /\ \A b \in {s} \X (1 .. BuffersToAdd) :
              held[b] = 0 /\ b \notin free_list /\ b \notin Live
<1>1. num_buffers \in Nat /\ held \in [Buffer -> Nat] BY DEF IInv, TypeOK
<1>2. BuffersToAdd \in 1 .. EXPAND_SIZE
  BY <1>1, PoolAssumption DEF CanExpand, BuffersToAdd
<1>3. BuffersToAdd \in 1 .. SegmentLimit BY <1>2, Constants, PoolAssumption
<1>4. {s} \X (1 .. BuffersToAdd) \subseteq Buffer BY <1>3, Constants DEF Buffer
<1>5. IsFiniteSet(1 .. BuffersToAdd) /\ Cardinality(1 .. BuffersToAdd) = BuffersToAdd
  BY <1>3, Constants, FS_Interval
<1>6. IsFiniteSet({s}) /\ Cardinality({s}) = 1 BY FS_Singleton
<1>7. Cardinality({s} \X (1 .. BuffersToAdd)) = 1 * BuffersToAdd
  BY <1>5, <1>6, FS_Product, ZenonT(60)
<1>8. Cardinality({s} \X (1 .. BuffersToAdd)) = BuffersToAdd
  BY <1>3, <1>7, Constants
<1>9. \A b \in {s} \X (1 .. BuffersToAdd) : b[1] = s
  OBVIOUS
<1>10. \A b \in {s} \X (1 .. BuffersToAdd) : b \notin Live
  BY <1>9 DEF Live, BuffersOf
<1>11. \A b \in {s} \X (1 .. BuffersToAdd) : held[b] = 0 /\ b \notin free_list
  BY <1>1, <1>4, <1>10 DEF IInv, NoUseAfterFree, FreeIffUnheld
<1> QED BY <1>3, <1>4, <1>8, <1>10, <1>11

\* Allocation that expands the pool first.
LEMMA AllocExpandIInv ==
  ASSUME IInv, NEW s \in SegId, AllocExpand(s)
  PROVE  IInv'
<1> DEFINE new  == {s} \X (1 .. BuffersToAdd)
           list == free_list \cup new
           per  == [seg_free EXCEPT ![s] = BuffersToAdd]
<1>1. /\ BuffersToAdd \in 1 .. SegmentLimit
      /\ new \subseteq Buffer
      /\ Cardinality(new) = BuffersToAdd
      /\ \A b \in new : held[b] = 0 /\ b \notin free_list /\ b \notin Live
  BY AddedBuffers DEF AllocExpand
<1>2. /\ segments' = segments \cup {s} /\ s \notin segments
      /\ before' = before \cup ({s} \X segments)
      /\ seg_buffers' = [seg_buffers EXCEPT ![s] = BuffersToAdd]
      /\ num_buffers' = num_buffers + BuffersToAdd
      /\ Pop(list, per, num_free + BuffersToAdd)
  BY DEF AllocExpand
<1>3. TypeOK BY DEF IInv
<1>4. /\ list \in SUBSET Buffer /\ per \in [SegId -> Nat]
      /\ segments' \in SUBSET SegId
      /\ before' \subseteq SegId \X SegId
      /\ seg_buffers' \in [SegId -> 0 .. SegmentLimit]
      /\ num_buffers' \in Nat
  BY <1>1, <1>2, <1>3, Constants DEF TypeOK
<1>5. Live' = Live \cup new
  <2>1. \A b \in Buffer : b \in new <=> b[1] = s /\ b[2] <= BuffersToAdd
    BY <1>1, Constants DEF Buffer
  <2>2. \A b \in Buffer : b[1] \in SegId BY DEF Buffer
  <2>3. \A b \in Buffer : b \in Live' <=> b \in Live \/ b \in new
    BY <1>2, <1>3, <2>1, <2>2 DEF Live, BuffersOf, TypeOK
  <2> QED BY <1>1, <2>3 DEF Live, BuffersOf
<1>6. num_free + BuffersToAdd = Cardinality(list)
  <2>1. free_list \cap new = {} BY <1>1
  <2>2. Cardinality(list) = Cardinality(free_list) + Cardinality(new)
    BY <1>1, <1>3, <2>1, BuffersAddUp DEF TypeOK
  <2>3. num_free = Cardinality(free_list) /\ num_free \in Nat
    BY <1>3 DEF IInv, PoolAccounting, TypeOK
  <2> QED BY <1>1, <2>2, <2>3, Constants
<1>7. num_buffers' = Cardinality(Live')
  <2>1. Live \cap new = {} BY <1>1
  <2>2. Live \subseteq Buffer BY DEF Live, BuffersOf
  <2>3. Cardinality(Live \cup new) = Cardinality(Live) + Cardinality(new)
    BY <1>1, <2>1, <2>2, BuffersAddUp
  <2>4. num_buffers = Cardinality(Live) /\ num_buffers \in Nat
    BY <1>3 DEF IInv, PoolAccounting, TypeOK
  <2> QED BY <1>1, <1>2, <1>5, <2>3, <2>4, Constants
<1>8. \A t \in segments' : per[t] = Cardinality(FreeOf(list, t))
  <2>1. FreeOf(list, s) = 1 .. BuffersToAdd
    <3>1. \A i \in 1 .. SegmentLimit : <<s, i>> \notin free_list
      <4>1. \A i \in 1 .. SegmentLimit : <<s, i>> \in Buffer /\ <<s, i>> \notin Live
        BY <1>2 DEF Buffer, Live, BuffersOf
      <4> QED BY <4>1 DEF IInv, FreeIffUnheld
    <3> QED BY <3>1, <1>1, Constants DEF FreeOf
  <2>2. Cardinality(1 .. BuffersToAdd) = BuffersToAdd BY <1>1, Constants, FS_Interval
  <2>3. \A t \in segments : FreeOf(list, t) = FreeOf(free_list, t)
    BY <1>2 DEF FreeOf
  <2>4. \A t \in segments : seg_free[t] = Cardinality(FreeOf(free_list, t))
    BY DEF IInv, SegmentAccounting, FreeOf
  <2>5. per[s] = BuffersToAdd BY <1>3 DEF TypeOK
  <2>6. \A t \in segments : per[t] = seg_free[t] BY <1>2, <1>3 DEF TypeOK
  <2> QED BY <1>2, <2>1, <2>2, <2>3, <2>4, <2>5, <2>6
<1>9. /\ \A b \in Buffer : b \in list <=> b \in Live' /\ held[b] = 0
      /\ \A b \in Buffer : held[b] > 0 => b \in Live'
  BY <1>1, <1>5 DEF IInv, FreeIffUnheld, NoUseAfterFree
<1> HIDE DEF list, per
<1>10. /\ seg_free' \in [SegId -> Nat]
       /\ free_list' \subseteq Buffer
       /\ num_free' \in Nat
       /\ num_free' = Cardinality(free_list')
       /\ refcount' \in [Buffer -> Nat]
       /\ held' \in [Buffer -> Nat]
       /\ RefsAreHeld' /\ NoUseAfterFree' /\ FreeIffUnheld' /\ SegmentAccounting'
  BY <1>2, <1>4, <1>6, <1>8, <1>9, PopIInv
<1>11. TypeOK' BY <1>4, <1>10 DEF TypeOK
<1>12. PoolAccounting' BY <1>7, <1>10 DEF PoolAccounting
<1> QED BY <1>10, <1>11, <1>12 DEF IInv

\* One more reference on a buffer somebody holds.
LEMMA RefGetIInv ==
  ASSUME IInv, NEW b \in Buffer, RefGet(b)
  PROVE  IInv'
<1> USE DEF IInv, RefGet
<1>1. Live' = Live BY DEF Live, BuffersOf
<1>2. TypeOK' BY DEF TypeOK
<1>3. SegmentAccounting' BY DEF SegmentAccounting
<1>4. PoolAccounting' BY <1>1 DEF PoolAccounting
<1>5. held[b] > 0 /\ held \in [Buffer -> Nat] /\ refcount \in [Buffer -> Nat]
  BY DEF TypeOK
<1>6. RefsAreHeld' /\ NoUseAfterFree' BY <1>1, <1>5 DEF RefsAreHeld, NoUseAfterFree
<1>7. FreeIffUnheld' BY <1>1, <1>5 DEF FreeIffUnheld
<1> QED BY <1>2, <1>3, <1>4, <1>6, <1>7

\* Dropping a reference returns the buffer exactly when it was the last one.
LEMMA RefPutIInv ==
  ASSUME IInv, NEW b \in Buffer, RefPut(b)
  PROVE  IInv'
<1> USE DEF IInv, RefPut
<1>1. Live' = Live BY DEF Live, BuffersOf
<1>2. /\ held \in [Buffer -> Nat] /\ refcount \in [Buffer -> Nat]
      /\ held[b] > 0 /\ refcount[b] = held[b] /\ b \in Live /\ b \notin free_list
  BY DEF TypeOK, RefsAreHeld, NoUseAfterFree, FreeIffUnheld
<1>3. /\ held' \in [Buffer -> Nat] /\ refcount' \in [Buffer -> Nat]
      /\ RefsAreHeld' /\ NoUseAfterFree'
  BY <1>1, <1>2 DEF RefsAreHeld, NoUseAfterFree
<1>4. CASE refcount[b] <= 1
  <2>1. /\ free_list' = free_list \cup {b}
        /\ seg_free' = [seg_free EXCEPT ![b[1]] = @ + 1]
        /\ num_free' = num_free + 1
        /\ held[b] = 1
    BY <1>2, <1>4
  <2>2. \A s \in segments : seg_free[s] = Cardinality(FreeOf(free_list, s))
    BY DEF SegmentAccounting, FreeOf
  <2>3. b[1] \in segments /\ b \in Buffer \ free_list BY <1>2 DEF Live, BuffersOf
  <2>4. /\ segments \in SUBSET SegId /\ free_list \in SUBSET Buffer
        /\ seg_free \in [SegId -> Nat]
    BY DEF TypeOK
  <2>5. /\ seg_free' \in [SegId -> Nat]
        /\ \A s \in segments : seg_free'[s] = Cardinality(FreeOf(free_list', s))
        /\ Cardinality(free_list') = Cardinality(free_list) + 1
    BY <2>1, <2>2, <2>3, <2>4, PutCounts
  <2>6. TypeOK' BY <1>3, <2>1, <2>5 DEF TypeOK
  <2>7. SegmentAccounting' BY <2>5 DEF SegmentAccounting, FreeOf
  <2>8. PoolAccounting' BY <1>1, <2>1, <2>5 DEF PoolAccounting
  <2>9. FreeIffUnheld' BY <1>1, <1>2, <2>1 DEF FreeIffUnheld
  <2> QED BY <1>3, <2>6, <2>7, <2>8, <2>9
<1>5. CASE ~(refcount[b] <= 1)
  <2>1. UNCHANGED <<free_list, seg_free, num_free>> BY <1>5
  <2>2. TypeOK' /\ SegmentAccounting' /\ PoolAccounting'
    BY <1>1, <1>3, <2>1 DEF TypeOK, SegmentAccounting, PoolAccounting
  <2>3. FreeIffUnheld' BY <1>1, <1>2, <1>5, <2>1 DEF FreeIffUnheld
  <2> QED BY <1>3, <2>2, <2>3
<1> QED BY <1>4, <1>5

\* A segment whose free count equals its size has all its buffers on the free
\* list: this is what the shrink walk takes for granted.
LEMMA IdleSegmentIsFree ==
  ASSUME IInv, NEW s \in segments, Idle(s)
  PROVE  \A i \in 1 .. SegmentLimit : <<s, i>> \in free_list <=> i <= seg_buffers[s]
<1>1. seg_buffers[s] \in 0 .. SegmentLimit BY DEF IInv, TypeOK
<1>2. FreeOf(free_list, s) \subseteq 1 .. seg_buffers[s]
  <2>1. ASSUME NEW i \in 1 .. SegmentLimit, <<s, i>> \in free_list
        PROVE  i <= seg_buffers[s]
    BY <2>1 DEF IInv, TypeOK, FreeIffUnheld, Live, BuffersOf
  <2> QED BY <1>1, <2>1, Constants DEF FreeOf
<1>3. IsFiniteSet(1 .. seg_buffers[s]) /\ Cardinality(1 .. seg_buffers[s]) = seg_buffers[s]
  BY <1>1, Constants, IntervalCount
<1>4. Cardinality(FreeOf(free_list, s)) = seg_buffers[s]
  BY DEF IInv, SegmentAccounting, Idle, FreeOf
<1>5. FreeOf(free_list, s) = 1 .. seg_buffers[s] BY <1>2, <1>3, <1>4, FS_Subset
<1> QED BY <1>1, <1>5, Constants DEF FreeOf

\* Shrinking frees only segments that are idle, so nothing that is held.
LEMMA TryShrinkIInv ==
  ASSUME IInv, TryShrink
  PROVE  IInv'
<1>1. PICK F \in SUBSET segments :
        /\ FreedByWalk(F)
        /\ segments' = segments \ F
        /\ before' = {p \in before : p[1] \notin F /\ p[2] \notin F}
        /\ free_list' = free_list \ FreeIn(F)
        /\ num_buffers' = num_buffers - Cardinality(BuffersOf(F))
        /\ num_free' = num_free - Cardinality(FreeIn(F))
        /\ seg_buffers' = [s \in SegId |-> IF s \in F THEN 0 ELSE seg_buffers[s]]
        /\ seg_free' = [s \in SegId |-> IF s \in F THEN 0 ELSE seg_free[s]]
  BY DEF TryShrink
<1>2. UNCHANGED <<refcount, held>> BY DEF TryShrink
<1>3. TypeOK BY DEF IInv
<1>4. \A s \in F : Idle(s) BY <1>1 DEF FreedByWalk, Removable
<1>5. BuffersOf(F) = FreeIn(F)
  <2>1. ASSUME NEW b \in Buffer
        PROVE  b \in BuffersOf(F) <=> b \in FreeIn(F)
    <3>1. PICK s \in SegId, i \in 1 .. SegmentLimit : b = <<s, i>>
      BY DEF Buffer
    <3>2. s \in F => (<<s, i>> \in free_list <=> i <= seg_buffers[s])
      BY <1>1, <1>4, IdleSegmentIsFree
    <3> QED BY <3>1, <3>2 DEF BuffersOf, FreeIn
  <2> QED BY <1>3, <2>1 DEF BuffersOf, FreeIn, TypeOK
<1>6. Live' = Live \ BuffersOf(F)
  <2>1. \A b \in Buffer : b[1] \in SegId BY DEF Buffer
  <2> QED BY <1>1, <1>3, <2>1 DEF Live, BuffersOf, TypeOK
<1>7. /\ Live \subseteq Buffer /\ free_list \subseteq Buffer
      /\ BuffersOf(F) \subseteq Live /\ FreeIn(F) \subseteq free_list
  BY <1>1, <1>3 DEF Live, BuffersOf, FreeIn, TypeOK
<1>8. num_buffers' = Cardinality(Live') /\ num_free' = Cardinality(free_list')
  <2>1. Cardinality(Live \ BuffersOf(F)) = Cardinality(Live) - Cardinality(BuffersOf(F))
    BY <1>7, BuffersAddUp
  <2>2. Cardinality(free_list \ FreeIn(F)) = Cardinality(free_list) - Cardinality(FreeIn(F))
    BY <1>7, BuffersAddUp
  <2> QED BY <1>1, <1>6, <2>1, <2>2 DEF IInv, PoolAccounting
<1>9. num_buffers' \in Nat /\ num_free' \in Nat
  <2>1. Live' \subseteq Buffer /\ free_list' \subseteq Buffer
    BY <1>1, <1>6, <1>7
  <2> QED BY <1>8, <2>1, BuffersFinite
<1>10. TypeOK'
  <2>1. seg_buffers' \in [SegId -> 0 .. SegmentLimit] /\ seg_free' \in [SegId -> Nat]
    BY <1>1, <1>3, Constants DEF TypeOK
  <2>2. segments' \subseteq SegId /\ before' \subseteq SegId \X SegId /\ free_list' \subseteq Buffer
    BY <1>1, <1>3 DEF TypeOK
  <2> QED BY <1>2, <1>3, <1>9, <2>1, <2>2 DEF TypeOK
<1>11. RefsAreHeld' BY <1>2 DEF IInv, RefsAreHeld
<1>12. FreeIffUnheld'
  BY <1>1, <1>2, <1>5, <1>6 DEF IInv, FreeIffUnheld
<1>13. NoUseAfterFree'
  <2>1. ASSUME NEW b \in Buffer, held[b] > 0
        PROVE  b \in Live'
    <3>1. b \in Live /\ held[b] # 0 BY <1>3, <2>1 DEF IInv, NoUseAfterFree, TypeOK
    <3>2. b \notin free_list BY <3>1 DEF IInv, FreeIffUnheld
    <3> QED BY <1>5, <1>6, <1>7, <3>1, <3>2
  <2> QED BY <1>2, <2>1 DEF NoUseAfterFree
<1>14. SegmentAccounting'
  <2>1. ASSUME NEW s \in segments'
        PROVE  seg_free'[s] = Cardinality(FreeOf(free_list', s))
    <3>1. s \in segments /\ s \notin F /\ s \in SegId BY <1>1, <1>3, <2>1 DEF TypeOK
    <3>2. FreeOf(free_list', s) = FreeOf(free_list, s) BY <1>1, <3>1 DEF FreeOf, FreeIn
    <3>3. seg_free[s] = Cardinality(FreeOf(free_list, s))
      BY <3>1 DEF IInv, SegmentAccounting, FreeOf
    <3> QED BY <1>1, <3>1, <3>2, <3>3
  <2> QED BY <2>1 DEF SegmentAccounting, FreeOf
<1> QED BY <1>8, <1>10, <1>11, <1>12, <1>13, <1>14 DEF IInv, PoolAccounting

-----------------------------------------------------------------------------
\* Every step keeps the invariant.
LEMMA NextIInv == IInv /\ [Next]_vars => IInv'
<1> SUFFICES ASSUME IInv, [Next]_vars PROVE IInv'
  OBVIOUS
<1>1. CASE Alloc BY <1>1, AllocIInv
<1>2. CASE \E s \in SegId : AllocExpand(s) BY <1>2, AllocExpandIInv
<1>3. CASE \E b \in Buffer : RefGet(b) \/ RefPut(b) BY <1>3, RefGetIInv, RefPutIInv
<1>4. CASE TryShrink BY <1>4, TryShrinkIInv
<1>5. CASE Cleanup BY <1>5, CleanupIInv
<1>6. CASE \E s \in SegId : Restart(s) BY <1>6, RestartIInv
<1>7. CASE UNCHANGED vars
  BY <1>7 DEF vars, IInv, TypeOK, RefsAreHeld, NoUseAfterFree, FreeIffUnheld,
              SegmentAccounting, PoolAccounting, Live, BuffersOf
<1> QED BY <1>1, <1>2, <1>3, <1>4, <1>5, <1>6, <1>7 DEF Next

\* The invariant holds of every behaviour of the pool.
THEOREM Invariance == Spec => []IInv
BY InitIInv, NextIInv, PTL DEF Spec

\* Every field of buffer_pool_t and buffer_pool_segment_t keeps its type; in
\* particular no counter goes below zero, where its size_t would wrap.
THEOREM TypeCorrect == Spec => []TypeOK
<1>1. IInv => TypeOK BY DEF IInv
<1> QED BY <1>1, Invariance, PTL

\* buffer_pool_try_shrink never frees a segment of which a buffer is held,
\* however allocation, buffer_ref_get, buffer_ref_put and shrinking alternate.
THEOREM MemorySafety == Spec => []NoUseAfterFree
<1>1. IInv => NoUseAfterFree BY DEF IInv
<1> QED BY <1>1, Invariance, PTL

\* A buffer is on the free list exactly while it is live and nobody holds it:
\* buffer_pool_alloc_from hands none out twice and buffer_ref_put loses none.
THEOREM ExclusiveOwnership == Spec => []FreeIffUnheld
<1>1. IInv => FreeIffUnheld BY DEF IInv
<1> QED BY <1>1, Invariance, PTL

\* segment->num_free, on which the shrink walk decides, and the pool's own
\* num_buffers and num_free are the true counts.
THEOREM ExactCounters == Spec => [](SegmentAccounting /\ PoolAccounting)
<1>1. IInv => SegmentAccounting /\ PoolAccounting BY DEF IInv
<1> QED BY <1>1, Invariance, PTL

-----------------------------------------------------------------------------
\* pool->segments is a list: before is a strict total order of the segments.
ListOrder ==
  /\ before \subseteq segments \X segments
  /\ \A s \in segments : <<s, s>> \notin before
  /\ \A s, t \in segments : s # t => <<s, t>> \in before \/ <<t, s>> \in before
  /\ \A s, t, u \in segments :
       <<s, t>> \in before /\ <<t, u>> \in before => <<s, u>> \in before

\* Among finite sets there is one that has no other below it.
LEMMA SmallestSet ==
  ASSUME NEW S, NEW T \in SUBSET FiniteSubsetsOf(S), T # {}
  PROVE  \E U \in T : \A V \in T : V \subseteq U => V = U
<1>1. IsWellFoundedOn(StrictSubsetOrdering(S), FiniteSubsetsOf(S))
  BY FS_StrictSubsetOrderingWellFounded
<1>2. PICK U \in T : \A V \in T : <<V, U>> \notin StrictSubsetOrdering(S)
  BY <1>1, WFMin
<1>3. \A V \in T : V \subseteq U => V = U
  BY <1>2 DEF StrictSubsetOrdering, FiniteSubsetsOf
<1> QED BY <1>3

\* The segments one walk frees have a last one, and all others came before it.
LEMMA LastFreed ==
  ASSUME IInv, ListOrder, NEW F \in SUBSET segments, F # {}
  PROVE  \E s \in F : {t \in F : <<t, s>> \in before} = F \ {s}
<1> DEFINE After(s) == {t \in F : <<s, t>> \in before}
<1> DEFINE Afters == {After(s) : s \in F}
<1>1. IsFiniteSet(F) BY FS_Subset, PoolAssumption DEF IInv, TypeOK
<1>2. Afters \in SUBSET FiniteSubsetsOf(F) /\ Afters # {}
  <2>1. ASSUME NEW s \in F
        PROVE  After(s) \in FiniteSubsetsOf(F)
    BY <1>1, FS_Subset DEF FiniteSubsetsOf
  <2> QED BY <2>1
<1>3. PICK U \in Afters : \A V \in Afters : V \subseteq U => V = U
  <2> HIDE DEF Afters
  <2> QED BY <1>2, SmallestSet
<1>4. PICK s \in F : U = After(s) BY <1>3
<1>5. ASSUME NEW t \in F, t \in After(s)
      PROVE  FALSE
  <2>1. After(t) \subseteq After(s) BY <1>5 DEF ListOrder
  <2>2. t \notin After(t) BY DEF ListOrder
  <2> QED BY <1>3, <1>4, <1>5, <2>1, <2>2
<1>6. ASSUME NEW t \in F \ {s}
      PROVE  <<t, s>> \in before
  BY <1>5 DEF ListOrder
<1>7. <<s, s>> \notin before BY DEF ListOrder
<1> QED BY <1>6, <1>7

\* A segment's buffers are counted by seg_buffers, and the walk's sums grow
\* segment by segment.
LEMMA OneMoreSegment ==
  ASSUME IInv, NEW F \in SUBSET segments, NEW s \in F
  PROVE  /\ Cardinality(BuffersOf(F)) = Cardinality(BuffersOf(F \ {s})) + seg_buffers[s]
         /\ Cardinality(FreeIn(F)) <= Cardinality(FreeIn(F \ {s})) + seg_buffers[s]
<1>0. seg_buffers[s] \in 0 .. SegmentLimit /\ s \in SegId /\ SegmentLimit \in Nat
  BY Constants DEF IInv, TypeOK
<1> DEFINE n == seg_buffers[s]
<1> DEFINE Own == {s} \X (1 .. n)
<1>1. IsFiniteSet(Own) /\ Cardinality(Own) = n
  <2>1. n \in Nat BY <1>0
  <2>2. IsFiniteSet(1 .. n) /\ Cardinality(1 .. n) = n BY <2>1, IntervalCount
  <2>3. IsFiniteSet({s}) /\ Cardinality({s}) = 1 BY FS_Singleton
  <2> HIDE DEF n
  <2>4. IsFiniteSet(Own) /\ Cardinality(Own) = 1 * n BY <2>2, <2>3, FS_Product, ZenonT(60)
  <2> QED BY <2>1, <2>4
<1>2. Own \subseteq Buffer BY <1>0 DEF Buffer
<1>3. BuffersOf(F) = BuffersOf(F \ {s}) \cup Own /\ BuffersOf(F \ {s}) \cap Own = {}
  <2>1. ASSUME NEW b \in Buffer
        PROVE  b \in BuffersOf(F) <=> b \in BuffersOf(F \ {s}) \/ b \in Own
    <3>1. PICK u \in SegId, i \in 1 .. SegmentLimit : b = <<u, i>>
      BY DEF Buffer
    <3>2. i \in Int /\ i >= 1 BY <1>0
    <3>3. u = s => (i <= n <=> i \in 1 .. n) BY <1>0, <3>2
    <3> HIDE DEF n
    <3> QED BY <3>1, <3>3 DEF BuffersOf, n
  <2>2. \A b \in Own : b[1] = s
    OBVIOUS
  <2> QED BY <1>2, <2>1, <2>2 DEF BuffersOf
<1>4. BuffersOf(F \ {s}) \in SUBSET Buffer /\ Own \in SUBSET Buffer
  BY <1>2 DEF BuffersOf
<1>5. Cardinality(BuffersOf(F)) = Cardinality(BuffersOf(F \ {s})) + n
  <2> HIDE DEF Own, n
  <2> QED BY <1>1, <1>3, <1>4, BuffersAddUp
<1> DEFINE OwnFree == FreeIn({s})
<1>6. OwnFree \subseteq Own
  <2>1. ASSUME NEW b \in free_list, b[1] = s
        PROVE  b \in Own
    <3>1. b \in Buffer /\ b[2] <= seg_buffers[b[1]]
      BY DEF IInv, TypeOK, FreeIffUnheld, Live, BuffersOf
    <3>2. PICK u \in SegId, i \in 1 .. SegmentLimit : b = <<u, i>>
      BY <3>1 DEF Buffer
    <3> QED BY <1>0, <2>1, <3>1, <3>2
  <2> QED BY <2>1 DEF FreeIn
<1>7. Cardinality(OwnFree) <= n
  <2> HIDE DEF Own, OwnFree, n
  <2> QED BY <1>1, <1>6, FS_Subset
<1>8. FreeIn(F) = FreeIn(F \ {s}) \cup OwnFree /\ FreeIn(F \ {s}) \cap OwnFree = {}
  BY DEF FreeIn
<1>9. FreeIn(F \ {s}) \in SUBSET Buffer /\ OwnFree \in SUBSET Buffer
  BY DEF FreeIn, IInv, TypeOK
<1>10. Cardinality(FreeIn(F)) = Cardinality(FreeIn(F \ {s})) + Cardinality(OwnFree)
  BY <1>8, <1>9, BuffersAddUp
<1>11. Cardinality(FreeIn(F \ {s})) \in Nat /\ Cardinality(OwnFree) \in Nat
  BY <1>9, BuffersFinite
<1> HIDE DEF OwnFree
<1> QED BY <1>0, <1>5, <1>7, <1>10, <1>11

\* What one walk of buffer_pool_try_shrink_pool does to the sizes: the last
\* segment it frees still passed both tests, after all the others.
LEMMA ShrinkSizes ==
  ASSUME IInv, ListOrder, SizeBounds, TryShrink
  PROVE  /\ num_buffers' \in INITIAL_SIZE .. num_buffers
         /\ num_free' > LOW_WATERMARK
         /\ \/ num_free' <= HIGH_WATERMARK
            \/ \A s \in segments' :
                 ~(seg_free'[s] = seg_buffers'[s] /\ num_buffers' >= seg_buffers'[s] + INITIAL_SIZE)
         /\ ListOrder'
<1>1. PICK F \in SUBSET segments :
        /\ FreedByWalk(F)
        /\ segments' = segments \ F
        /\ before' = {p \in before : p[1] \notin F /\ p[2] \notin F}
        /\ num_buffers' = num_buffers - Cardinality(BuffersOf(F))
        /\ num_free' = num_free - Cardinality(FreeIn(F))
        /\ seg_buffers' = [s \in SegId |-> IF s \in F THEN 0 ELSE seg_buffers[s]]
        /\ seg_free' = [s \in SegId |-> IF s \in F THEN 0 ELSE seg_free[s]]
  BY DEF TryShrink
<1>2. /\ num_free > HIGH_WATERMARK /\ num_buffers > INITIAL_SIZE
      /\ num_free \in Nat /\ num_buffers \in Nat
  BY DEF TryShrink, IInv, TypeOK
<1>3. ASSUME NEW G \in SUBSET F
      PROVE  /\ Cardinality(BuffersOf(G)) \in Nat /\ Cardinality(FreeIn(G)) \in Nat
             /\ Cardinality(BuffersOf(G)) <= Cardinality(BuffersOf(F))
             /\ Cardinality(FreeIn(G)) <= Cardinality(FreeIn(F))
  <2>1. BuffersOf(F) \in SUBSET Buffer /\ FreeIn(F) \in SUBSET Buffer
    BY DEF BuffersOf, FreeIn, IInv, TypeOK
  <2>2. BuffersOf(G) \subseteq BuffersOf(F) /\ FreeIn(G) \subseteq FreeIn(F)
    BY DEF BuffersOf, FreeIn
  <2>3. IsFiniteSet(BuffersOf(F)) /\ IsFiniteSet(FreeIn(F))
    BY <2>1, BuffersFinite
  <2> QED BY <2>2, <2>3, FS_Subset, FS_CardinalityType
<1>4. SegmentLimit = INITIAL_SIZE
  BY PoolAssumption, WatermarkAssumption DEF SegmentLimit, Larger
<1>5. num_buffers' \in INITIAL_SIZE .. num_buffers /\ num_free' > LOW_WATERMARK
  <2>1. CASE F = {}
    <3>1. BuffersOf(F) = {} /\ FreeIn(F) = {} BY <2>1 DEF BuffersOf, FreeIn
    <3>2. Cardinality(BuffersOf(F)) = 0 /\ Cardinality(FreeIn(F)) = 0
      BY <3>1, FS_EmptySet
    <3> QED BY <1>1, <1>2, <3>2, PoolAssumption, WatermarkAssumption
  <2>2. CASE F # {}
    <3>1. PICK s \in F : {t \in F : <<t, s>> \in before} = F \ {s}
      BY <2>2, LastFreed
    <3>2. Removable(s, F \ {s}) /\ AboveHigh(F \ {s}) BY <1>1, <3>1 DEF FreedByWalk
    <3>3. /\ Cardinality(BuffersOf(F)) = Cardinality(BuffersOf(F \ {s})) + seg_buffers[s]
          /\ Cardinality(FreeIn(F)) <= Cardinality(FreeIn(F \ {s})) + seg_buffers[s]
      BY OneMoreSegment
    <3>4. seg_buffers[s] \in 0 .. INITIAL_SIZE BY <1>4 DEF IInv, TypeOK
    <3>5. /\ Cardinality(BuffersOf(F)) \in Nat /\ Cardinality(FreeIn(F)) \in Nat
          /\ Cardinality(BuffersOf(F \ {s})) \in Nat /\ Cardinality(FreeIn(F \ {s})) \in Nat
      BY <1>3
    <3>6. num_buffers >= Cardinality(BuffersOf(F \ {s})) + seg_buffers[s] + INITIAL_SIZE
      BY <3>2 DEF Removable
    <3>7. num_free > HIGH_WATERMARK + Cardinality(FreeIn(F \ {s}))
      BY <3>2 DEF AboveHigh
    <3> QED BY <1>1, <1>2, <3>3, <3>4, <3>5, <3>6, <3>7, PoolAssumption, WatermarkAssumption
  <2> QED BY <2>1, <2>2
<1>6. ASSUME num_free' > HIGH_WATERMARK, NEW s \in segments',
             seg_free'[s] = seg_buffers'[s]
      PROVE  num_buffers' < seg_buffers'[s] + INITIAL_SIZE
  <2> DEFINE G == {t \in F : <<t, s>> \in before}
  <2>1. s \in segments /\ s \notin F /\ s \in SegId BY <1>1 DEF IInv, TypeOK
  <2>2. seg_free'[s] = seg_free[s] /\ seg_buffers'[s] = seg_buffers[s]
    BY <1>1, <2>1
  <2>3. Idle(s) BY <1>6, <2>2 DEF Idle
  <2>4. ~(Removable(s, G) /\ AboveHigh(G)) BY <1>1, <2>1 DEF FreedByWalk
  <2>5. /\ Cardinality(BuffersOf(G)) \in Nat /\ Cardinality(FreeIn(G)) \in Nat
        /\ Cardinality(BuffersOf(F)) \in Nat /\ Cardinality(FreeIn(F)) \in Nat
        /\ Cardinality(BuffersOf(G)) <= Cardinality(BuffersOf(F))
        /\ Cardinality(FreeIn(G)) <= Cardinality(FreeIn(F))
    <3>1. G \in SUBSET F /\ F \in SUBSET F
      OBVIOUS
    <3> HIDE DEF G
    <3> QED BY <1>3, <3>1
  <2>6. seg_buffers[s] \in Nat BY <2>1, Constants DEF IInv, TypeOK
  <2> HIDE DEF G
  <2>7. AboveHigh(G)
    BY <1>1, <1>2, <1>6, <2>5, PoolAssumption DEF AboveHigh
  <2>8. num_buffers < Cardinality(BuffersOf(G)) + seg_buffers[s] + INITIAL_SIZE
    BY <1>2, <2>3, <2>4, <2>5, <2>6, <2>7, PoolAssumption DEF Removable
  <2> QED BY <1>1, <1>2, <2>2, <2>5, <2>6, <2>8, PoolAssumption
<1>7. \/ num_free' <= HIGH_WATERMARK
      \/ \A s \in segments' :
           ~(seg_free'[s] = seg_buffers'[s] /\ num_buffers' >= seg_buffers'[s] + INITIAL_SIZE)
  <2>1. num_free' \in Int /\ num_buffers' \in Int BY <1>1, <1>2, <1>3
  <2>2. \A s \in segments' : seg_buffers'[s] \in Int BY <1>1, Constants DEF IInv, TypeOK
  <2> QED BY <1>6, <2>1, <2>2, PoolAssumption
<1>8. ListOrder' BY <1>1 DEF ListOrder
<1> QED BY <1>5, <1>7, <1>8

\* Every step keeps the order of the segments and the bounds of the size.
LEMMA NextSizes == IInv /\ ListOrder /\ SizeBounds /\ [Next]_vars => (ListOrder /\ SizeBounds)'
<1> SUFFICES ASSUME IInv, ListOrder, SizeBounds, [Next]_vars
             PROVE  ListOrder' /\ SizeBounds'
  OBVIOUS
<1>2. CASE \E s \in SegId : AllocExpand(s)
  <2>1. PICK s \in SegId : AllocExpand(s) BY <1>2
  <2>2. ListOrder' BY <2>1 DEF AllocExpand, ListOrder
  <2>3. SizeBounds'
    BY <2>1, PoolAssumption
    DEF AllocExpand, SizeBounds, BuffersToAdd, CanExpand, Larger, IInv, TypeOK
  <2> QED BY <2>2, <2>3
<1>3. CASE TryShrink
  <2>1. num_buffers' \in INITIAL_SIZE .. num_buffers /\ ListOrder'
    BY <1>3, ShrinkSizes
  <2>2. segments # {} => num_buffers <= Larger(INITIAL_SIZE, MAX_BUFFERS)
    BY DEF SizeBounds
  <2>3. segments' \subseteq segments BY <1>3 DEF TryShrink
  <2>4. Larger(INITIAL_SIZE, MAX_BUFFERS) \in Nat /\ num_buffers \in Nat /\ INITIAL_SIZE \in Nat
    BY PoolAssumption DEF Larger, IInv, TypeOK
  <2>5. SizeBounds' BY <2>1, <2>2, <2>3, <2>4 DEF SizeBounds
  <2> QED BY <2>1, <2>5
<1>4. CASE \E s \in SegId : Restart(s)
  <2>1. PICK s \in SegId : Restart(s) BY <1>4
  <2>2. before' = {} /\ segments' = {s} BY <2>1 DEF Restart, ListOrder
  <2>3. ListOrder' BY <2>2 DEF ListOrder
  <2>4. SizeBounds'
    BY <2>1, PoolAssumption DEF Restart, SizeBounds, Larger
  <2> QED BY <2>3, <2>4
<1>5. CASE Cleanup BY <1>5 DEF Cleanup, ListOrder, SizeBounds
<1>6. CASE Alloc \/ (\E b \in Buffer : RefGet(b) \/ RefPut(b)) \/ UNCHANGED vars
  BY <1>6 DEF Alloc, RefGet, RefPut, vars, ListOrder, SizeBounds
<1> QED BY <1>2, <1>3, <1>4, <1>5, <1>6 DEF Next

\* Growing and shrinking: num_buffers and num_free stay exact; the pool keeps
\* its initial size and its maximum; buffer_pool_try_shrink never brings the
\* free count down to the low watermark, where the next allocation would expand
\* again, and stops above the high one only when nothing more can be freed.
THEOREM ShrinkCorrect == Spec => ShrinkIsRight
<1>1. Init => ListOrder /\ SizeBounds
  BY PoolAssumption DEF Init, ListOrder, SizeBounds, Larger
<1>2. IInv /\ ListOrder /\ SizeBounds /\ [Next]_vars
        => [TryShrink => num_free' > LOW_WATERMARK]_vars
  BY ShrinkSizes
<1>3. IInv /\ ListOrder /\ SizeBounds /\ [Next]_vars
        => [TryShrink =>
              \/ num_free' <= HIGH_WATERMARK
              \/ \A s \in segments' :
                   ~(Idle(s)' /\ num_buffers' >= seg_buffers'[s] + INITIAL_SIZE)]_vars
  BY ShrinkSizes DEF Idle
<1>4. IInv => PoolAccounting BY DEF IInv
<1> QED
  BY <1>1, <1>2, <1>3, <1>4, NextSizes, Invariance, PTL
  DEF Spec, ShrinkIsRight, ShrinkDoesNotThrash, ShrinkIsThorough
=============================================================================
