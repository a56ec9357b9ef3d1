----------------------------- MODULE RtpReorder -----------------------------
(***************************************************************************)
(* The RTP reorder buffer (rtp_reorder.c) and the Reed-Solomon FEC groups  *)
(* that recover its holes (rtp_fec.c), which share the slots of one ring.  *)
(*                                                                         *)
(* The sender's packets are numbered 0, 1, 2, ...; packet n carries the    *)
(* sequence number Seqn(n), which wraps.  The network loses, duplicates and*)
(* reorders them.  A slot holds the number of the packet stored in it, so  *)
(* r->seq[slot] is Seqn of the slot.                                        *)
(***************************************************************************)
EXTENDS Integers, Sequences, SequencesExt, FiniteSets

CONSTANTS
  SeqSpace,       \* 2^16: sequence numbers, and the 16-bit counter `count`
  WINDOW_SIZE,    \* window_size, a power of two
  INIT_COLLECT,   \* RTP_REORDER_INIT_COLLECT
  FEC_MAX_GROUPS,
  GroupSize,      \* k, packets protected by one FEC group
  Parity,         \* m, parity packets of a group
  Packets,        \* bound: packets 0 .. Packets - 1 are sent
  FirstSeq,       \* sequence number of packet 0
  InitialSpread,  \* how far apart the first collected packets may be
  UseFec          \* {FALSE}: no FEC; {TRUE}: FEC port configured, or both

ASSUME ReorderAssumption ==
  /\ {SeqSpace, WINDOW_SIZE, INIT_COLLECT, FEC_MAX_GROUPS, GroupSize, Parity} \subseteq Nat \ {0}
  /\ {Packets, FirstSeq, InitialSpread} \subseteq Nat
  /\ SeqSpace % WINDOW_SIZE = 0
  /\ INIT_COLLECT <= WINDOW_SIZE
  /\ 2 * Packets <= SeqSpace
  /\ UseFec \subseteq BOOLEAN

VARIABLES
  r,      \* rtp_reorder_t: phase, base_seq, slots, count
  fec,    \* fec_context_t: port, active, groups, the min_end_seq cache
  out,    \* packets delivered to the client, in order
  stored  \* packets ever stored in a slot (history variable)

vars == <<r, fec, out, stored>>

Packet == 0 .. (Packets - 1)
None == Packets            \* an empty slot
NoGroup == [begin |-> -1, got |-> {}]
NoSeq == -1                \* min_end_seq not valid

Slot == 0 .. (WINDOW_SIZE - 1)
Seqn(n) == (FirstSeq + n) % SeqSpace
NumberOf(q) == (q - FirstSeq) % SeqSpace
SlotOf(q) == q % WINDOW_SIZE

\* (int16_t)(a - b)
Diff(a, b) ==
  LET d == (a - b) % SeqSpace
  IN  IF d < SeqSpace \div 2 THEN d ELSE d - SeqSpace

End(g) == (g.begin + GroupSize - 1) % SeqSpace
InGroup(q, g) == Diff(q, g.begin) >= 0 /\ Diff(End(g), q) >= 0

FecEnabled(f) == f.port \/ f.active

\* The ring after rtp_reorder_init.
NewRing == [phase |-> 0, base |-> 0, slots |-> [s \in Slot |-> None], count |-> 0]

Init ==
  /\ r = NewRing
  /\ \E p \in UseFec :
       fec = [port |-> p, active |-> FALSE,
              groups |-> [i \in 1 .. FEC_MAX_GROUPS |-> NoGroup], minEnd |-> NoSeq]
  /\ out = <<>>
  /\ stored = {}

-----------------------------------------------------------------------------
\* The steps of one handler are functions of a record x of r, fec and out.

\* rtp_reorder_release_range for the packets of the groups in G.
ReleaseGroups(slots, G) ==
  [s \in Slot |->
     IF slots[s] # None /\ \E g \in G : InGroup(Seqn(slots[s]), g)
       THEN None ELSE slots[s]]

Active(groups) == {groups[i] : i \in DOMAIN groups} \ {NoGroup}

\* fec_recalc_min_end_seq.
MinEnd(groups) ==
  LET ends == {End(g) : g \in Active(groups)}
  IN  IF ends = {} THEN NoSeq
      ELSE CHOOSE e \in ends : \A o \in ends : Diff(e, o) <= 0

\* fec_release_expired_groups.
ReleaseExpired(x) ==
  LET gone == {g \in Active(x.fec.groups) : Diff(x.r.base, End(g)) > 0}
      left == [i \in DOMAIN x.fec.groups |->
                 IF x.fec.groups[i] \in gone THEN NoGroup ELSE x.fec.groups[i]]
  IN  [x EXCEPT !.r.slots = ReleaseGroups(@, gone),
                !.fec.groups = left,
                !.fec.minEnd = MinEnd(left)]

\* The number of packets flush_consecutive delivers: it goes on while count is
\* positive and the slot of base_seq is occupied.  Without FEC the slots are
\* emptied on the way, so it ends after one round.
FlushLength(x) ==
  LET stop(j) == \/ j = x.r.count
                 \/ x.r.slots[SlotOf(x.r.base + j)] = None
                 \/ ~FecEnabled(x.fec) /\ j = WINDOW_SIZE
  IN  CHOOSE j \in 0 .. x.r.count : stop(j) /\ \A i \in 0 .. (j - 1) : ~stop(i)

\* flush_consecutive.
FlushConsecutive(x) ==
  LET n == FlushLength(x)
      from == x.r.base
      sent == [j \in 1 .. n |-> x.r.slots[SlotOf(from + j - 1)]]
      y == [x EXCEPT
              !.r.base = (@ + n) % SeqSpace,
              !.r.count = @ - n,
              !.r.slots = IF FecEnabled(x.fec) THEN @
                          ELSE [s \in Slot |->
                                 IF (s - from) % WINDOW_SIZE < n THEN None ELSE @[s]],
              !.out = @ \o sent]
  IN  IF y.fec.minEnd # NoSeq /\ Diff(y.r.base, y.fec.minEnd) > 0
        THEN ReleaseExpired(y) ELSE y

\* Slip: the window moves on without delivering what it leaves behind.
ForceFlushUntil_Discard(x, seqn) ==
  LET n == Diff(seqn, x.r.base) - WINDOW_SIZE + 1
      from == x.r.base
  IN  IF n <= 0 THEN x
      ELSE [x EXCEPT
              !.r.base = (@ + n) % SeqSpace,
              !.r.slots = [s \in Slot |->
                             IF (s - from) % WINDOW_SIZE < n THEN None ELSE @[s]]]

\* force_flush_until: advance base_seq until seqn fits the window, delivering
\* every occupied slot on the way.  count is 16 bits wide.
ForceFlushUntil(x, seqn) ==
  LET n == Diff(seqn, x.r.base) - WINDOW_SIZE + 1
      from == x.r.base
      passed == [j \in 1 .. (IF n < WINDOW_SIZE THEN n ELSE WINDOW_SIZE) |->
                   x.r.slots[SlotOf(from + j - 1)]]
      kept[j \in 0 .. Len(passed)] ==
        IF j = 0 THEN <<>>
        ELSE IF passed[j] = None THEN kept[j - 1] ELSE Append(kept[j - 1], passed[j])
      sent == kept[Len(passed)]
  IN  IF n <= 0 THEN x
      ELSE [x EXCEPT
              !.r.base = (@ + n) % SeqSpace,
              !.r.count = (@ - Len(sent)) % SeqSpace,
              !.r.slots = [s \in Slot |->
                             IF (s - from) % WINDOW_SIZE < n THEN None ELSE @[s]],
              !.out = @ \o sent]

Store(x, n) ==
  [x EXCEPT !.r.slots[SlotOf(Seqn(n))] = n,
            !.r.count = (@ + 1) % SeqSpace]

\* rtp_reorder_get.
Has(x, q) ==
  LET p == x.r.slots[SlotOf(q)] IN p # None /\ Seqn(p) = q

\* fec_attempt_recovery of base_seq: the group that covers it has at least k of
\* its k + m packets (or the packet itself is in the ring).
CanRecover(x) ==
  \E g \in Active(x.fec.groups) :
    /\ InGroup(x.r.base, g)
    /\ GroupSize <= WINDOW_SIZE
    /\ \/ Has(x, x.r.base)
       \/ Cardinality({i \in 0 .. (GroupSize - 1) : Has(x, (g.begin + i) % SeqSpace)})
            + Cardinality(g.got) >= GroupSize

\* Case 4 of rtp_reorder_insert.
TryRecovery(x) ==
  IF FecEnabled(x.fec) /\ CanRecover(x)
    THEN FlushConsecutive([x EXCEPT !.out = Append(@, NumberOf(x.r.base)),
                                    !.r.base = (@ + 1) % SeqSpace])
    ELSE x

-----------------------------------------------------------------------------
\* rtp_reorder_insert, phase 0: the first packet starts the collection.
InsertFirst(x, n) ==
  Store([x EXCEPT !.r.base = Seqn(n), !.r.phase = 1, !.r.count = 0], n)

\* Phase 1: keep the packet if its slot is free, track the smallest sequence
\* number, and start delivering once enough packets are there.
InsertCollecting(x, n) ==
  LET y == IF x.r.slots[SlotOf(Seqn(n))] # None THEN x
           ELSE LET z == Store(x, n)
                IN  IF Diff(Seqn(n), x.r.base) < 0
                      THEN [z EXCEPT !.r.base = Seqn(n)] ELSE z
  IN  IF y.r.count >= INIT_COLLECT
        THEN FlushConsecutive([y EXCEPT !.r.phase = 2]) ELSE y

\* Phase 2, ahead of base_seq: make room, drop a duplicate, replace what the
\* ring still holds from an earlier round, then try to recover the hole.
InsertAhead(x, n) ==
  LET y == ForceFlushUntil(x, Seqn(n))
  IN  IF Has(y, Seqn(n)) THEN y ELSE TryRecovery(Store(y, n))

\* Slip: a late packet is passed on instead of dropped.
Insert_Late(x, n) ==
  LET d == Diff(Seqn(n), x.r.base)
  IN  CASE x.r.phase = 0 -> InsertFirst(x, n)
        [] x.r.phase = 1 -> InsertCollecting(x, n)
        [] x.r.phase = 2 /\ d = 0 -> FlushConsecutive(Store(x, n))
        [] x.r.phase = 2 /\ d < 0 -> [x EXCEPT !.out = Append(@, n)]
        [] x.r.phase = 2 /\ d > 0 -> InsertAhead(x, n)

Insert(x, n) ==
  LET d == Diff(Seqn(n), x.r.base)
  IN  CASE x.r.phase = 0 -> InsertFirst(x, n)
        [] x.r.phase = 1 -> InsertCollecting(x, n)
        [] x.r.phase = 2 /\ d = 0 -> FlushConsecutive(Store(x, n))
        [] x.r.phase = 2 /\ d < 0 -> x
        [] x.r.phase = 2 /\ d > 0 -> InsertAhead(x, n)

State == [r |-> r, fec |-> fec, out |-> out]

\* The first packets that arrive are close together.
InitialArrival(n) ==
  r.phase < 2 => \A p \in stored : n - p <= InitialSpread /\ p - n <= InitialSpread

\* stream_process_rtp_payload hands an RTP packet to rtp_reorder_insert.
RtpArrives(n) ==
  /\ InitialArrival(n)
  /\ LET x == Insert(State, n)
     IN  /\ r' = x.r /\ fec' = x.fec /\ out' = x.out
         /\ stored' = IF \/ n \in {x.r.slots[s] : s \in Slot}
                         \/ n \in {x.out[i] : i \in (Len(out) + 1) .. Len(x.out)}
                        THEN stored \cup {n} ELSE stored

\* fec_find_or_create_group: the array slot of a group, evicting the oldest
\* group when the array is full.
Oldest(groups, q) ==
  LET age(i) == Diff(q, groups[i].begin)
      olds == {i \in DOMAIN groups : age(i) > 0}
  IN  IF olds = {} THEN 1
      ELSE CHOOSE i \in olds :
             \A j \in olds : age(j) < age(i) \/ (age(j) = age(i) /\ i <= j)

Empty(groups) == {i \in DOMAIN groups : groups[i] = NoGroup}

\* Slip: min_end_seq is not recomputed after an eviction.
CreateGroup_StaleMin(x, q) ==
  LET free == Empty(x.fec.groups)
      at == IF free # {} THEN CHOOSE i \in free : \A j \in free : i <= j
            ELSE Oldest(x.fec.groups, q)
      new == [begin |-> q, got |-> {}]
      evicted == IF free = {} THEN {x.fec.groups[at]} ELSE {}
  IN  [x EXCEPT
         !.r.slots = ReleaseGroups(@, evicted),
         !.fec.groups = [@ EXCEPT ![at] = new],
         !.fec.minEnd = IF @ = NoSeq \/ Diff(End(new), @) < 0 THEN End(new) ELSE @]

CreateGroup(x, q) ==
  LET free == Empty(x.fec.groups)
      at == IF free # {} THEN CHOOSE i \in free : \A j \in free : i <= j
            ELSE Oldest(x.fec.groups, q)
      new == [begin |-> q, got |-> {}]
      groups == [x.fec.groups EXCEPT ![at] = new]
      evicted == IF free = {} THEN {x.fec.groups[at]} ELSE {}
  IN  [x EXCEPT
         !.r.slots = ReleaseGroups(@, evicted),
         !.fec.groups = groups,
         !.fec.minEnd = IF @ = NoSeq \/ Diff(End(new), @) < 0 THEN End(new)
                        ELSE IF evicted # {} THEN MinEnd(groups) ELSE @]

\* fec_process_packet: parity packet i of the group that begins with packet n.
FecArrives(n, i) ==
  /\ n % GroupSize = 0
  /\ LET q == Seqn(n)
         x == [State EXCEPT !.fec.active = TRUE]
         known == \E g \in Active(x.fec.groups) : g.begin = q
         y == IF known THEN x ELSE CreateGroup(x, q)
         expired == Diff(x.r.base, End([begin |-> q, got |-> {}])) > 0
         z == IF expired THEN x
              ELSE [y EXCEPT !.fec.groups =
                      [j \in DOMAIN @ |->
                         IF @[j].begin = q THEN [@[j] EXCEPT !.got = @ \cup {i}] ELSE @[j]]]
     IN  r' = z.r /\ fec' = z.fec /\ out' = z.out
  /\ UNCHANGED stored

\* rtp_reorder_cleanup and fec_cleanup, and the contexts of the next stream.
Restart ==
  /\ r.phase > 0
  /\ r' = NewRing
  /\ fec' = [fec EXCEPT !.active = FALSE,
                        !.groups = [i \in 1 .. FEC_MAX_GROUPS |-> NoGroup],
                        !.minEnd = NoSeq]
  /\ out' = <<>>
  /\ stored' = {}

Next ==
  \/ \E n \in Packet : RtpArrives(n)
  \/ \E n \in Packet, i \in 1 .. Parity : TRUE \in UseFec /\ FecArrives(n, i)
  \/ Restart

Spec == Init /\ [][Next]_vars

-----------------------------------------------------------------------------
\* Types of the two contexts.
TypeOK ==
  /\ r \in [phase : 0 .. 2, base : 0 .. (SeqSpace - 1),
            slots : [Slot -> Packet \cup {None}], count : 0 .. (SeqSpace - 1)]
  /\ fec.minEnd \in {NoSeq} \cup (0 .. (SeqSpace - 1))
  /\ stored \subseteq Packet

\* The client gets the packets in the order the sender sent them and none of
\* them twice, whatever the network did to them.
InOrder == \A i, j \in 1 .. Len(out) : i < j => out[i] < out[j]

Buffered == {r.slots[s] : s \in Slot} \ {None}
Delivered == {out[i] : i \in 1 .. Len(out)}

\* A packet that got a slot is delivered or still waits in its slot: no overwrite, flush or
\* group release loses it.
StoredIsNeverLost == stored \subseteq Delivered \cup Buffered

\* `count` never falls short of the packets that wait; if it did,
\* flush_consecutive would stop before packets that are ready.
CountCoversWaiting == r.count >= Cardinality(Buffered \ Delivered)

\* The cached min_end_seq is the smallest end of the active groups, also after
\* evictions and releases.
MinEndIsExact == fec.minEnd = MinEnd(fec.groups)

\* What got a slot is delivered or waits for delivery, and is counted.
StoredIsAccounted == TypeOK /\ StoredIsNeverLost /\ CountCoversWaiting

\* Bound: with FEC the client may get a packet again and again (RepeatsOnly).
FewDelivered == Len(out) < WINDOW_SIZE + Packets

\* With FEC delivered packets keep their slots, so that a group can be recovered, until
\* the group is released; when base_seq comes round to such a slot, flush_consecutive
\* sends it again.  That is all that goes wrong: nothing new is overtaken.  A
\* packet the client gets for the first time follows only earlier ones, through holes,
\* recoveries, forced flushes, evictions and the reuse of the ring.
RepeatsOnly ==
  \A i, j \in 1 .. Len(out) :
    i < j => \/ out[i] < out[j]
             \/ \E k \in 1 .. (j - 1) : out[k] = out[j]

\* With the ring shared between delivery and FEC groups and used again and again, no new
\* packet is overtaken, and the cached minimum stays exact through evictions.
FecKeepsOrder == RepeatsOnly /\ MinEndIsExact
=============================================================================
