----------------------------- MODULE BufferPool -----------------------------
(***************************************************************************)
(* One reference-counted buffer pool of an rtp2httpd worker                *)
(* (rtp2httpd/src/buffer_pool.c).  A worker has two: the media pool and    *)
(* the control pool.  A buffer returns to the pool of its own segment      *)
(* (segment->parent), so the two never share state and one pool with its   *)
(* constants is the whole component.                                       *)
(*                                                                         *)
(* A buffer is a pair <<s, i>>: the i-th buffer of segment s.  Segment     *)
(* identifiers stand for addresses and are reused once a segment is freed, *)
(* as malloc does.  The free list is the set of its members: which free    *)
(* buffer an allocation pops is left open.                                 *)
(***************************************************************************)
EXTENDS Naturals, FiniteSets

CONSTANTS
  SegId,          \* addresses a segment may be given by malloc
  INITIAL_SIZE,   \* initial_buffers, also the floor kept by shrinking
  EXPAND_SIZE,    \* expand_size
  MAX_BUFFERS,    \* max_buffers; the configuration only asks for >= 1
  LOW_WATERMARK,
  HIGH_WATERMARK,
  MaxRefs         \* bound: references held on one buffer

ASSUME PoolAssumption ==
  /\ IsFiniteSet(SegId)
  /\ INITIAL_SIZE \in Nat \ {0}
  /\ EXPAND_SIZE \in Nat \ {0}
  /\ MAX_BUFFERS \in Nat \ {0}
  /\ LOW_WATERMARK \in Nat
  /\ HIGH_WATERMARK \in Nat
  /\ MaxRefs \in Nat \ {0}

\* What the header's #defines add (buffer_pool.h:11-23): freeing one segment
\* from above the high watermark stays above the low one.
ASSUME WatermarkAssumption ==
  /\ LOW_WATERMARK + INITIAL_SIZE <= HIGH_WATERMARK
  /\ EXPAND_SIZE <= INITIAL_SIZE

VARIABLES
  segments,    \* the live segments
  before,      \* <<s, t>> : s comes before t in pool->segments
  seg_buffers, \* segment->num_buffers
  seg_free,    \* segment->num_free
  free_list,   \* the buffers on pool->free_list
  refcount,    \* ref->refcount
  num_buffers, \* pool->num_buffers
  num_free,    \* pool->num_free
  held         \* references the rest of the worker holds (history variable)

vars == <<segments, before, seg_buffers, seg_free, free_list, refcount,
          num_buffers, num_free, held>>

Larger(m, n) == IF m >= n THEN m ELSE n

\* A segment is created with initial_buffers or with at most expand_size.
SegmentLimit == Larger(INITIAL_SIZE, EXPAND_SIZE)
Buffer == SegId \X (1 .. SegmentLimit)

\* The buffers that lie in the memory of the segments in S.
BuffersOf(S) == {b \in Buffer : b[1] \in S /\ b[2] <= seg_buffers[b[1]]}
Live == BuffersOf(segments)

-----------------------------------------------------------------------------
\* buffer_pool_init: one segment s, everything free.
SizeOfFirst(s) == [t \in SegId |-> IF t = s THEN INITIAL_SIZE ELSE 0]

Init ==
  \E s \in SegId :
    /\ segments = {s}
    /\ before = {}
    /\ seg_buffers = SizeOfFirst(s)
    /\ seg_free = SizeOfFirst(s)
    /\ free_list = {s} \X (1 .. INITIAL_SIZE)
    /\ refcount = [b \in Buffer |-> 0]
    /\ num_buffers = INITIAL_SIZE
    /\ num_free = INITIAL_SIZE
    /\ held = [b \in Buffer |-> 0]

\* buffers_to_add of buffer_pool_expand.
BuffersToAdd ==
  IF num_buffers + EXPAND_SIZE > MAX_BUFFERS
    THEN MAX_BUFFERS - num_buffers
    ELSE EXPAND_SIZE

CanExpand == num_buffers < MAX_BUFFERS

\* The tail of buffer_pool_alloc_from: pop one buffer of the free list `list`
\* of a pool whose counters are `perSegment` and `free`.
Pop(list, perSegment, free) ==
  \E b \in list :
    /\ free_list' = list \ {b}
    /\ seg_free' = [perSegment EXCEPT ![b[1]] = @ - 1]
    /\ num_free' = free - 1
    /\ refcount' = [refcount EXCEPT ![b] = 1]
    /\ held' = [held EXCEPT ![b] = @ + 1]

\* buffer_pool_alloc_from without growing the pool: there are enough free
\* buffers, or the proactive expansion hit the limit or found no memory.
\* With an empty free list and no expansion the call returns NULL and the
\* pool stays as it is.
Alloc ==
  /\ Pop(free_list, seg_free, num_free)
  /\ UNCHANGED <<segments, before, seg_buffers, num_buffers>>

\* buffer_pool_alloc_from with buffer_pool_expand: the free list is empty, or
\* the low watermark is reached and the pool may still grow.
AllocExpand(s) ==
  /\ segments # {}
  /\ free_list = {} \/ num_free <= LOW_WATERMARK
  /\ CanExpand
  /\ s \notin segments
  /\ segments' = segments \cup {s}
  /\ before' = before \cup ({s} \X segments)
  /\ seg_buffers' = [seg_buffers EXCEPT ![s] = BuffersToAdd]
  /\ num_buffers' = num_buffers + BuffersToAdd
  /\ Pop(free_list \cup ({s} \X (1 .. BuffersToAdd)),
         [seg_free EXCEPT ![s] = BuffersToAdd],
         num_free + BuffersToAdd)

\* buffer_ref_get by an owner of the buffer (MaxRefs is a bound of the model).
RefGet(b) ==
  /\ held[b] \in 1 .. (MaxRefs - 1)
  /\ refcount' = [refcount EXCEPT ![b] = @ + 1]
  /\ held' = [held EXCEPT ![b] = @ + 1]
  /\ UNCHANGED <<segments, before, seg_buffers, seg_free, free_list,
                 num_buffers, num_free>>

\* Slip: the count is tested before it is decremented.
RefPut_Early(b) ==
  /\ held[b] > 0
  /\ held' = [held EXCEPT ![b] = @ - 1]
  /\ refcount' = [refcount EXCEPT ![b] = @ - 1]
  /\ free_list' = free_list \cup {b}
  /\ seg_free' = [seg_free EXCEPT ![b[1]] = @ + 1]
  /\ num_free' = num_free + 1
  /\ UNCHANGED <<segments, before, seg_buffers, num_buffers>>

\* Slip: the segment's own free count is forgotten.
RefPut_PoolOnly(b) ==
  /\ held[b] > 0
  /\ held' = [held EXCEPT ![b] = @ - 1]
  /\ refcount' = [refcount EXCEPT ![b] = @ - 1]
  /\ IF refcount[b] <= 1
       THEN free_list' = free_list \cup {b} /\ num_free' = num_free + 1
       ELSE UNCHANGED <<free_list, num_free>>
  /\ UNCHANGED <<segments, before, seg_buffers, seg_free, num_buffers>>

\* buffer_ref_put of a pool buffer by one of its owners.
RefPut(b) ==
  /\ held[b] > 0
  /\ held' = [held EXCEPT ![b] = @ - 1]
  /\ refcount' = [refcount EXCEPT ![b] = @ - 1]
  /\ IF refcount[b] <= 1
       THEN /\ free_list' = free_list \cup {b}
            /\ seg_free' = [seg_free EXCEPT ![b[1]] = @ + 1]
            /\ num_free' = num_free + 1
       ELSE UNCHANGED <<free_list, seg_free, num_free>>
  /\ UNCHANGED <<segments, before, seg_buffers, num_buffers>>

-----------------------------------------------------------------------------
\* The entries of the free list that lie in the segments of S.
FreeIn(S) == {b \in free_list : b[1] \in S}

\* Slip: a segment with some free buffers passes for an idle one.
Idle_Partly(s) == seg_free[s] > 0

\* The first test of the shrink loop.
Idle(s) == seg_free[s] = seg_buffers[s]

\* The whole test for segment s once the walk freed the segments in F.
Removable(s, F) ==
  /\ Idle(s)
  /\ num_buffers >= Cardinality(BuffersOf(F)) + seg_buffers[s] + INITIAL_SIZE

\* Slip: the walk does not stop at the high watermark.
AboveHigh_Never(F) == num_free > HIGH_WATERMARK

AboveHigh(F) == num_free > HIGH_WATERMARK + Cardinality(FreeIn(F))

\* F is the set of segments one walk over pool->segments frees: a segment is
\* freed when it is removable after what the walk freed before it, and the
\* walk breaks off once the free count is back at the high watermark.
FreedByWalk(F) ==
  \A s \in segments :
    LET earlier == {t \in F : <<t, s>> \in before}
    IN  s \in F <=> Removable(s, earlier) /\ AboveHigh(earlier)

\* buffer_pool_try_shrink_pool.
TryShrink ==
  /\ num_free > HIGH_WATERMARK
  /\ num_buffers > INITIAL_SIZE
  /\ \E F \in SUBSET segments :
       /\ FreedByWalk(F)
       /\ segments' = segments \ F
       /\ before' = {p \in before : p[1] \notin F /\ p[2] \notin F}
       /\ free_list' = free_list \ FreeIn(F)
       /\ num_buffers' = num_buffers - Cardinality(BuffersOf(F))
       /\ num_free' = num_free - Cardinality(FreeIn(F))
       /\ seg_buffers' = [s \in SegId |-> IF s \in F THEN 0 ELSE seg_buffers[s]]
       /\ seg_free' = [s \in SegId |-> IF s \in F THEN 0 ELSE seg_free[s]]
  /\ UNCHANGED <<refcount, held>>

\* buffer_pool_cleanup, when the worker exits: its main loop has freed every
\* connection, and with them every reference, before zerocopy_cleanup runs.
Cleanup ==
  /\ segments # {}
  /\ \A b \in Buffer : held[b] = 0
  /\ segments' = {}
  /\ before' = {}
  /\ seg_buffers' = [s \in SegId |-> 0]
  /\ seg_free' = [s \in SegId |-> 0]
  /\ free_list' = {}
  /\ num_buffers' = 0
  /\ num_free' = 0
  /\ UNCHANGED <<refcount, held>>

\* The supervisor starts another worker, which initialises its pool.
Restart(s) ==
  /\ segments = {}
  /\ segments' = {s}
  /\ seg_buffers' = SizeOfFirst(s)
  /\ seg_free' = SizeOfFirst(s)
  /\ free_list' = {s} \X (1 .. INITIAL_SIZE)
  /\ num_buffers' = INITIAL_SIZE
  /\ num_free' = INITIAL_SIZE
  /\ UNCHANGED <<before, refcount, held>>

Next ==
  \/ Alloc
  \/ \E s \in SegId : AllocExpand(s)
  \/ \E b \in Buffer : RefGet(b) \/ RefPut(b)
  \/ TryShrink
  \/ Cleanup
  \/ \E s \in SegId : Restart(s)

Spec == Init /\ [][Next]_vars

-----------------------------------------------------------------------------
\* Types of the pool's fields.
TypeOK ==
  /\ segments \subseteq SegId
  /\ before \subseteq SegId \X SegId
  /\ seg_buffers \in [SegId -> 0 .. SegmentLimit]
  /\ seg_free \in [SegId -> Nat]
  /\ free_list \subseteq Buffer
  /\ refcount \in [Buffer -> Nat]
  /\ num_buffers \in Nat
  /\ num_free \in Nat
  /\ held \in [Buffer -> Nat]

\* A buffer somebody holds is never inside freed memory: no sequence of
\* allocations, releases and shrinks frees a segment that is still in use.
NoUseAfterFree == \A b \in Buffer : held[b] > 0 => b \in Live

\* A buffer is on the free list exactly when it is live and nobody holds it:
\* it is never handed out twice and never lost.
FreeIffUnheld ==
  \A b \in Buffer : b \in free_list <=> b \in Live /\ held[b] = 0

\* The counters the shrink walk relies on agree with the free list; otherwise
\* it logs "Shrink inconsistency" and frees a segment of which buffers are in use.
SegmentAccounting ==
  \A s \in segments : seg_free[s] = Cardinality({i \in 1 .. SegmentLimit : <<s, i>> \in free_list})

\* pool->num_buffers and pool->num_free are the true counts.
PoolAccounting ==
  /\ num_buffers = Cardinality(Live)
  /\ num_free = Cardinality(free_list)

\* Shrinking keeps the initial size and growing respects max_buffers (a pool
\* configured smaller than its first segment never grows).
SizeBounds ==
  segments # {} =>
  /\ num_buffers >= INITIAL_SIZE
  /\ num_buffers <= Larger(INITIAL_SIZE, MAX_BUFFERS)

\* A shrink never brings the pool down to the low watermark, so the next
\* allocation does not have to expand again what was just freed.
ShrinkDoesNotThrash == [][TryShrink => num_free' > LOW_WATERMARK]_vars

\* A shrink that ends above the high watermark left nothing it could free.
ShrinkIsThorough ==
  [][TryShrink =>
       \/ num_free' <= HIGH_WATERMARK
       \/ \A s \in segments' :
            ~(Idle(s)' /\ num_buffers' >= seg_buffers'[s] + INITIAL_SIZE)]_vars

\* Growing and shrinking keep the pool's counters exact and its size within its
\* bounds; a shrink neither thrashes nor stops early.
ShrinkIsRight == [](PoolAccounting /\ SizeBounds) /\ ShrinkDoesNotThrash /\ ShrinkIsThorough
=============================================================================
