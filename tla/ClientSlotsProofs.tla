------------------------- MODULE ClientSlotsProofs -------------------------
(***************************************************************************)
(* For every number of workers, process ids and slots, whichever workers   *)
(* are killed and however often: no more than maxclients slots are taken,  *)
(* a client that is let in gets a slot, no slot is written by two workers, *)
(* only clients somebody asked for are closed on request, and bytes are    *)
(* counted once.                                                           *)
(*                                                                         *)
(* The bound rests on the lock: a worker that counts or reserves holds it  *)
(* (Local), process ids tell the holders apart (PidsDistinct), so while    *)
(* one worker counts nobody else reserves, and what it has counted so far  *)
(* covers what is taken among the slots it has seen (CountCovers).         *)
(*                                                                         *)
(* What is read without the lock rests on the number of a slot: a name     *)
(* changes only under a new number (SlotEffect), so a name and a number    *)
(* read one after the other still belong together if the number has not    *)
(* moved (ReaderFacts), and a request stored under it is for that name     *)
(* (RequestFacts).  The bytes still to be counted are those of clients and *)
(* of slots between "account" and its step (Counting).                     *)
(***************************************************************************)
EXTENDS ClientSlots, FiniteSetTheorems, WellFoundedInduction, TLAPS

Taken(n) == {s \in Slots : s < n /\ owner[s] # NoPid}
Holding == {"count", "refuse", "reserve", "unlock"}
Indexing == {"count", "reserve", "refuse"} \cup Reading

PidsDistinct == \A v, w \in Workers : v # w /\ pid[v] # NoPid => pid[v] # pid[w]
ReapsTheDead == reaping # NoWorker => reaping.worker \in Workers /\ pc[reaping.worker] = "dead"

\* The slots worker w works on or has given to its connections are its own.
Owns(w) ==
  pc[w] \notin {"down", "dead"} =>
    /\ pc[w] \in Working => owner[cur[w]] = pid[w]
    /\ \A s \in conns[w] : owner[s] = pid[w]

\* What worker w holds: a pid while it lives, the lock while it admits, its slots.
Local(w) ==
  /\ pc[w] \notin Indexing => idx[w] = 0
  /\ pc[w] = "down" <=> pid[w] = NoPid
  /\ pc[w] \in Holding => lock = pid[w]
  /\ pc[w] \in {"account", "clear", "free"} => cur[w] \notin conns[w]
  /\ pc[w] \in {"down", "dead"} => conns[w] = {}
  /\ Owns(w)

Control == PidsDistinct /\ ReapsTheDead /\ \A w \in Workers : Local(w)

CountCovers == \A w \in Workers : pc[w] = "count" => Cardinality(Taken(idx[w])) <= cnt[w]
RoomLeft == \A w \in Workers : pc[w] = "reserve" => Cardinality(Reserved) < MaxClients
Bound == CountCovers /\ RoomLeft /\ AdmissionBound /\ SlotIsFound

\* The inductive invariant.
IInv == TypeOK /\ Control /\ Bound

\* What a step of worker w leaves alone: the other workers, and every lock and
\* slot that is neither free nor its own.
Frame(w) ==
  /\ UNCHANGED <<pid, reaping>>
  /\ pc[w] \notin {"down", "dead"} /\ pc'[w] # "down"
  /\ \A v \in Workers \ {w} :
       pc'[v] = pc[v] /\ idx'[v] = idx[v] /\ cnt'[v] = cnt[v] /\ cur'[v] = cur[v] /\ conns'[v] = conns[v]
  /\ lock' # lock => lock \in {NoPid, pid[w]}
  /\ \A s \in Slots : owner'[s] # owner[s] => owner[s] \in {NoPid, pid[w]}

\* A step that takes no slot.
TakesNone == \A s \in Slots : owner'[s] # NoPid => owner[s] # NoPid

-----------------------------------------------------------------------------
(* Types *)

\* The job of a worker that has none.
LEMMA NoJobType == NoJob \in Job
BY DEF NoJob, Job, NoClient

\* A slot record keeps its type with any field set.
LEMMA SlotFields ==
  ASSUME NEW r \in SlotRecord, NEW n \in Nat, NEW b \in BOOLEAN
  PROVE  /\ [r EXCEPT !.active = b] \in SlotRecord
         /\ [r EXCEPT !.generation = n] \in SlotRecord
         /\ [r EXCEPT !.disconnect_requested = n] \in SlotRecord
         /\ [r EXCEPT !.data_version = n] \in SlotRecord
         /\ [r EXCEPT !.id = n] \in SlotRecord
         /\ [r EXCEPT !.bytes_sent = n] \in SlotRecord
         /\ [r EXCEPT !.current_bandwidth = n] \in SlotRecord
         /\ Reset(r) \in SlotRecord
         /\ r.generation + 1 \in Nat /\ r.data_version + 1 \in Nat
         /\ r.bytes_sent + 1 \in Nat /\ r.current_bandwidth + 1 \in Nat
<1>1. Reset(r) \in SlotRecord BY DEF SlotRecord, Reset, NoClient
<1>2. QED BY <1>1 DEF SlotRecord

\* A job keeps its type with its client or its number of tries set.
LEMMA JobFields ==
  ASSUME NEW j \in Job, NEW n \in Nat, NEW S \in SUBSET Slots
  PROVE  /\ [j EXCEPT !.client = n] \in Job
         /\ [j EXCEPT !.tries = n] \in Job
         /\ [j EXCEPT !.version = n] \in Job
         /\ [j EXCEPT !.todo = S] \in Job
         /\ j.client \in Nat /\ j.tries + 1 \in Nat
BY DEF Job

\* The search for a client goes on within the slots.
LEMMA NextSlotTypes ==
  ASSUME TypeOK, NEW w \in Workers, idx[w] \in Slots, NextSlot(w)
  PROVE  /\ idx' \in [Workers -> 0 .. NSlots] /\ job' \in [Workers -> Job]
         /\ pc' \in [Workers -> Labels]
         /\ pc'[w] \in Reading => idx'[w] \in Slots
         /\ \A v \in Workers \ {w} : pc'[v] = pc[v] /\ idx'[v] = idx[v]
<1> USE ClientSlotsAssumption
<1>1. [NoJob EXCEPT !.client = job[w].client] \in Job BY NoJobType, JobFields DEF TypeOK
<1>2. CASE LastSlot(w)
  BY <1>2, NoJobType DEF NextSlot, TypeOK, Goto, Labels, Reading, Slots
<1>3. CASE ~LastSlot(w)
  <2>1. idx[w] + 1 \in Slots BY <1>3 DEF LastSlot, Slots
  <2>2. idx' = [idx EXCEPT ![w] = idx[w] + 1] BY <1>3 DEF NextSlot
  <2>3. job' = [job EXCEPT ![w] = [NoJob EXCEPT !.client = job[w].client]]
    BY <1>3 DEF NextSlot
  <2>4. pc' = [pc EXCEPT ![w] = "active"] BY <1>3 DEF NextSlot, Goto
  <2>5. idx' \in [Workers -> 0 .. NSlots] BY <2>1, <2>2 DEF TypeOK, Slots
  <2>6. job' \in [Workers -> Job] BY <2>3, <1>1 DEF TypeOK
  <2>7. pc' \in [Workers -> Labels] BY <2>4 DEF TypeOK, Labels
  <2>8. QED BY <2>1, <2>2, <2>4, <2>5, <2>6, <2>7 DEF TypeOK
<1>4. QED BY <1>2, <1>3

\* Freeing a client's slot keeps the types it touches.
LEMMA UnregisterTypes ==
  ASSUME TypeOK, NEW w \in Workers, NEW s \in Slots, Unregister(w, s)
  PROVE  /\ slots' \in [Slots -> SlotRecord] /\ cur' \in [Workers -> Slots]
         /\ conns' \in [Workers -> SUBSET Slots] /\ pc' \in [Workers -> Labels]
         /\ \A v \in Workers : pc'[v] \in Reading => idx'[v] \in Slots
<1>1. slots[s] \in SlotRecord BY DEF TypeOK
<1>2. [slots[s] EXCEPT !.active = FALSE] \in SlotRecord BY <1>1, SlotFields
<1>3. slots' = [slots EXCEPT ![s] = [slots[s] EXCEPT !.active = FALSE]]
  BY DEF Unregister
<1>4. slots' \in [Slots -> SlotRecord] BY <1>2, <1>3 DEF TypeOK
<1>5. cur' \in [Workers -> Slots] BY DEF Unregister, TypeOK
<1>6. conns' \in [Workers -> SUBSET Slots] BY DEF Unregister, TypeOK
<1>7. pc' \in [Workers -> Labels] BY DEF Unregister, Goto, TypeOK, Labels
<1>8. \A v \in Workers : pc'[v] \in Reading => idx'[v] \in Slots
  BY DEF Unregister, Goto, TypeOK, Reading
<1>9. QED BY <1>4, <1>5, <1>6, <1>7, <1>8

\* So does a snapshot that is tried again.
LEMMA RetryTypes ==
  ASSUME TypeOK, NEW w \in Workers, idx[w] \in Slots, Retry(w)
  PROVE  /\ idx' \in [Workers -> 0 .. NSlots] /\ job' \in [Workers -> Job]
         /\ pc' \in [Workers -> Labels]
         /\ pc'[w] \in Reading => idx'[w] \in Slots
         /\ \A v \in Workers \ {w} : pc'[v] = pc[v] /\ idx'[v] = idx[v]
<1>1. CASE job[w].tries + 1 < SNAPSHOT_ATTEMPTS
  <2>1. [job[w] EXCEPT !.tries = job[w].tries + 1] \in Job BY JobFields DEF TypeOK
  <2>2. job' \in [Workers -> Job] BY <1>1, <2>1 DEF Retry, TypeOK
  <2>3. QED BY <1>1, <2>2 DEF Retry, Goto, TypeOK, Labels
<1>2. CASE ~(job[w].tries + 1 < SNAPSHOT_ATTEMPTS) BY <1>2, NextSlotTypes DEF Retry
<1>3. QED BY <1>1, <1>2

\* A step of a worker keeps all types.
LEMMA WorkerTypes ==
  ASSUME TypeOK, Control, NEW w \in Workers, Step(w) \/ Outside(w)
  PROVE  TypeOK'
<1> USE ClientSlotsAssumption, NoJobType
<1>1. CASE Lock(w)
  <2>1. pc' \in [Workers -> Labels] BY <1>1 DEF Lock, TypeOK, Goto, Labels
  <2>2. lock' \in Pids \cup {NoPid} BY <1>1 DEF Lock, TypeOK
  <2>3. \A v \in Workers : pc'[v] \in Reading => idx'[v] \in Slots
    BY <1>1 DEF Lock, TypeOK, At, Goto, Reading, Slots, local
  <2>4. QED BY <1>1, <2>1, <2>2, <2>3 DEF Lock, TypeOK, local, shared
<1>2. CASE Count(w)
  <2>1. pc' \in [Workers -> Labels] BY <1>2 DEF Count, TypeOK, Goto, Labels
  <2>2. idx' \in [Workers -> 0 .. NSlots] BY <1>2 DEF Count, TypeOK
  <2>3. cnt' \in [Workers -> Nat] BY <1>2 DEF Count, TypeOK
  <2>4. \A v \in Workers : pc'[v] \in Reading => idx'[v] \in Slots
    BY <1>2 DEF Count, TypeOK, At, Goto, Reading, Slots, local
  <2>5. QED BY <1>2, <2>1, <2>2, <2>3, <2>4 DEF Count, TypeOK, local, shared
<1>3. CASE Counted(w)
  <2>1. pc' \in [Workers -> Labels] BY <1>3 DEF Counted, TypeOK, Goto, Labels
  <2>2. idx' \in [Workers -> 0 .. NSlots] BY <1>3 DEF Counted, TypeOK
  <2>3. cnt' \in [Workers -> Nat] BY <1>3 DEF Counted, TypeOK
  <2>4. \A v \in Workers : pc'[v] \in Reading => idx'[v] \in Slots
    BY <1>3 DEF Counted, TypeOK, At, Goto, Reading, Slots, local
  <2>5. QED BY <1>3, <2>1, <2>2, <2>3, <2>4 DEF Counted, TypeOK, local, shared
<1>4. CASE Refuse(w)
  <2>1. pc' \in [Workers -> Labels] BY <1>4 DEF Refuse, TypeOK, Goto, Labels, Return
  <2>2. lock' \in Pids \cup {NoPid} BY <1>4 DEF Refuse, TypeOK, Unlocked
  <2>3. idx' \in [Workers -> 0 .. NSlots] BY <1>4 DEF Refuse, TypeOK, Return
  <2>4. cnt' \in [Workers -> Nat] BY <1>4 DEF Refuse, TypeOK, Return
  <2>5. cur' \in [Workers -> Slots] BY <1>4 DEF Refuse, TypeOK, Return, Slots
  <2>6. job' \in [Workers -> Job] BY <1>4 DEF Refuse, TypeOK, Return
  <2>7. \A v \in Workers : pc'[v] \in Reading => idx'[v] \in Slots
    BY <1>4 DEF Refuse, TypeOK, At, Goto, Reading, Return, Slots, local
  <2>8. QED BY <1>4, <2>1, <2>2, <2>3, <2>4, <2>5, <2>6, <2>7 DEF Refuse, TypeOK, local, shared
<1>5. CASE Reserve(w)
  <2>1. pc' \in [Workers -> Labels] BY <1>5 DEF Reserve, TypeOK, Goto, Labels
  <2>2. owner' \in [Slots -> Pids \cup {NoPid}] BY <1>5 DEF Reserve, TypeOK
  <2>3. cur' \in [Workers -> Slots]
    <3>1. idx[w] \in Slots BY <1>5 DEF Reserve, TypeOK, Slots
    <3>2. cur' = [cur EXCEPT ![w] = idx[w]] \/ cur' = cur BY <1>5 DEF Reserve
    <3>3. QED BY <3>1, <3>2 DEF TypeOK
  <2>4. idx' \in [Workers -> 0 .. NSlots] BY <1>5 DEF Reserve, TypeOK
  <2>5. \A v \in Workers : pc'[v] \in Reading => idx'[v] \in Slots
    BY <1>5, ZenonT(60) DEF Reserve, TypeOK, At, Goto, Reading, Slots, local
  <2>6. QED BY <1>5, <2>1, <2>2, <2>3, <2>4, <2>5 DEF Reserve, TypeOK, local, shared
<1>6. CASE Unlock(w)
  <2>1. pc' \in [Workers -> Labels] BY <1>6 DEF Unlock, TypeOK, Goto, Labels
  <2>2. lock' \in Pids \cup {NoPid} BY <1>6 DEF Unlock, TypeOK, Unlocked
  <2>3. \A v \in Workers : pc'[v] \in Reading => idx'[v] \in Slots
    BY <1>6 DEF Unlock, TypeOK, At, Goto, Reading, Slots, local
  <2>4. QED BY <1>6, <2>1, <2>2, <2>3 DEF Unlock, TypeOK, local, shared
<1>7. CASE ResetSlot(w)
  <2>1. pc' \in [Workers -> Labels] BY <1>7 DEF ResetSlot, TypeOK, Goto, Labels
  <2>2. slots' \in [Slots -> SlotRecord]
    <3>1. slots[cur[w]] \in SlotRecord /\ cur[w] \in Slots BY DEF TypeOK
    <3>2. Reset(slots[cur[w]]) \in SlotRecord BY <3>1, SlotFields
    <3>3. QED BY <1>7, <3>1, <3>2 DEF ResetSlot, TypeOK
  <2>3. \A v \in Workers : pc'[v] \in Reading => idx'[v] \in Slots
    BY <1>7 DEF ResetSlot, TypeOK, At, Goto, Reading, Slots, local
  <2>4. QED BY <1>7, <2>1, <2>2, <2>3 DEF ResetSlot, TypeOK, local, shared
<1>8. CASE Number(w)
  <2>1. pc' \in [Workers -> Labels] BY <1>8 DEF Number, TypeOK, Goto, Labels
  <2>2. slots' \in [Slots -> SlotRecord]
    <3>1. slots[cur[w]] \in SlotRecord /\ cur[w] \in Slots BY DEF TypeOK
    <3>2. [slots[cur[w]] EXCEPT !.generation = slots[cur[w]].generation + 1] \in SlotRecord
      BY <3>1, SlotFields
    <3>3. slots' = [slots EXCEPT ![cur[w]] = [slots[cur[w]] EXCEPT !.generation = slots[cur[w]].generation + 1]]
      BY <1>8 DEF Number
    <3>4. QED BY <3>1, <3>2, <3>3 DEF TypeOK
  <2>3. \A v \in Workers : pc'[v] \in Reading => idx'[v] \in Slots
    BY <1>8 DEF Number, TypeOK, At, Goto, Reading, Slots, local
  <2>4. QED BY <1>8, <2>1, <2>2, <2>3 DEF Number, TypeOK, local, shared
<1>9. CASE Fill(w)
  <2>1. pc' \in [Workers -> Labels] BY <1>9 DEF Fill, TypeOK, Goto, Labels
  <2>2. slots' \in [Slots -> SlotRecord]
    <3>1. slots[cur[w]] \in SlotRecord /\ cur[w] \in Slots BY DEF TypeOK
    <3>2. [slots[cur[w]] EXCEPT !.id = job[w].client] \in SlotRecord
      BY <3>1, SlotFields, JobFields DEF TypeOK
    <3>3. slots' = [slots EXCEPT ![cur[w]] = [slots[cur[w]] EXCEPT !.id = job[w].client]]
      BY <1>9 DEF Fill
    <3>4. QED BY <3>1, <3>2, <3>3 DEF TypeOK
  <2>3. \A v \in Workers : pc'[v] \in Reading => idx'[v] \in Slots
    BY <1>9 DEF Fill, TypeOK, At, Goto, Reading, Slots, local
  <2>4. QED BY <1>9, <2>1, <2>2, <2>3 DEF Fill, TypeOK, local, shared
<1>10. CASE Publish(w)
  <2>1. pc' \in [Workers -> Labels]
    BY <1>10 DEF Publish, TypeOK, Goto, Labels, Return
  <2>2. slots' \in [Slots -> SlotRecord]
    <3>1. slots[cur[w]] \in SlotRecord /\ cur[w] \in Slots BY DEF TypeOK
    <3>2. [slots[cur[w]] EXCEPT !.active = TRUE] \in SlotRecord
      BY <3>1, SlotFields
    <3>3. slots' = [slots EXCEPT ![cur[w]] = [slots[cur[w]] EXCEPT !.active = TRUE]]
      BY <1>10 DEF Publish
    <3>4. QED BY <3>1, <3>2, <3>3 DEF TypeOK
  <2>3. conns' \in [Workers -> SUBSET Slots] BY <1>10 DEF Publish, TypeOK
  <2>4. idx' \in [Workers -> 0 .. NSlots] BY <1>10 DEF Publish, TypeOK, Return
  <2>5. cnt' \in [Workers -> Nat] BY <1>10 DEF Publish, TypeOK, Return
  <2>6. cur' \in [Workers -> Slots] BY <1>10 DEF Publish, TypeOK, Return, Slots
  <2>7. job' \in [Workers -> Job] BY <1>10 DEF Publish, TypeOK, Return
  <2>8. \A v \in Workers : pc'[v] \in Reading => idx'[v] \in Slots
    BY <1>10 DEF Publish, TypeOK, At, Goto, Reading, Return, Slots, local
  <2>9. QED BY <1>10, <2>1, <2>2, <2>3, <2>4, <2>5, <2>6, <2>7, <2>8 DEF Publish, TypeOK, local, shared
<1>11. CASE WriteBytes(w)
  <2>1. pc' \in [Workers -> Labels] BY <1>11 DEF WriteBytes, TypeOK, Goto, Labels
  <2>2. slots' \in [Slots -> SlotRecord]
    <3>1. slots[cur[w]] \in SlotRecord /\ cur[w] \in Slots BY DEF TypeOK
    <3>2. [slots[cur[w]] EXCEPT !.bytes_sent = slots[cur[w]].bytes_sent + 1] \in SlotRecord
      BY <3>1, SlotFields
    <3>3. slots' = [slots EXCEPT ![cur[w]] = [slots[cur[w]] EXCEPT !.bytes_sent = slots[cur[w]].bytes_sent + 1]]
      BY <1>11 DEF WriteBytes
    <3>4. QED BY <3>1, <3>2, <3>3 DEF TypeOK
  <2>3. hist' \in History
    BY <1>11, SMTT(40) DEF WriteBytes, TypeOK, History
  <2>4. \A v \in Workers : pc'[v] \in Reading => idx'[v] \in Slots
    BY <1>11 DEF WriteBytes, TypeOK, At, Goto, Reading, Slots, local
  <2>5. QED BY <1>11, <2>1, <2>2, <2>3, <2>4 DEF WriteBytes, TypeOK, local, shared
<1>12. CASE WriteBandwidth(w)
  <2>1. pc' \in [Workers -> Labels]
    BY <1>12 DEF WriteBandwidth, TypeOK, Goto, Labels
  <2>2. slots' \in [Slots -> SlotRecord]
    <3>1. slots[cur[w]] \in SlotRecord /\ cur[w] \in Slots BY DEF TypeOK
    <3>2. [slots[cur[w]] EXCEPT !.current_bandwidth = slots[cur[w]].current_bandwidth + 1] \in SlotRecord
      BY <3>1, SlotFields
    <3>3. slots' = [slots EXCEPT ![cur[w]] = [slots[cur[w]] EXCEPT !.current_bandwidth = slots[cur[w]].current_bandwidth + 1]]
      BY <1>12 DEF WriteBandwidth
    <3>4. QED BY <3>1, <3>2, <3>3 DEF TypeOK
  <2>3. \A v \in Workers : pc'[v] \in Reading => idx'[v] \in Slots
    BY <1>12 DEF WriteBandwidth, TypeOK, At, Goto, Reading, Slots, local
  <2>4. QED BY <1>12, <2>1, <2>2, <2>3 DEF WriteBandwidth, TypeOK, local, shared
<1>13. CASE WriteEnd(w)
  <2>1. pc' \in [Workers -> Labels]
    BY <1>13 DEF WriteEnd, TypeOK, Goto, Labels, Return
  <2>2. slots' \in [Slots -> SlotRecord]
    <3>1. slots[cur[w]] \in SlotRecord /\ cur[w] \in Slots BY DEF TypeOK
    <3>2. [slots[cur[w]] EXCEPT !.data_version = slots[cur[w]].data_version + 1] \in SlotRecord
      BY <3>1, SlotFields
    <3>3. slots' = [slots EXCEPT ![cur[w]] = [slots[cur[w]] EXCEPT !.data_version = slots[cur[w]].data_version + 1]]
      BY <1>13 DEF WriteEnd
    <3>4. QED BY <3>1, <3>2, <3>3 DEF TypeOK
  <2>3. idx' \in [Workers -> 0 .. NSlots] BY <1>13 DEF WriteEnd, TypeOK, Return
  <2>4. cnt' \in [Workers -> Nat] BY <1>13 DEF WriteEnd, TypeOK, Return
  <2>5. cur' \in [Workers -> Slots] BY <1>13 DEF WriteEnd, TypeOK, Return, Slots
  <2>6. job' \in [Workers -> Job] BY <1>13 DEF WriteEnd, TypeOK, Return
  <2>7. \A v \in Workers : pc'[v] \in Reading => idx'[v] \in Slots
    BY <1>13 DEF WriteEnd, TypeOK, At, Goto, Reading, Return, Slots, local
  <2>8. QED BY <1>13, <2>1, <2>2, <2>3, <2>4, <2>5, <2>6, <2>7 DEF WriteEnd, TypeOK, local, shared
<1>14. CASE Account(w)
  <2>1. pc' \in [Workers -> Labels] BY <1>14 DEF Account, TypeOK, Goto, Labels
  <2>2. counted' \in Nat BY <1>14 DEF Account, TypeOK, SlotRecord
  <2>3. \A v \in Workers : pc'[v] \in Reading => idx'[v] \in Slots
    BY <1>14 DEF Account, TypeOK, At, Goto, Reading, Slots, local
  <2>4. QED BY <1>14, <2>1, <2>2, <2>3 DEF Account, TypeOK, local, shared
<1>15. CASE Clear(w)
  <2>1. pc' \in [Workers -> Labels] BY <1>15 DEF Clear, TypeOK, Goto, Labels
  <2>2. slots' \in [Slots -> SlotRecord]
    <3>1. slots[cur[w]] \in SlotRecord /\ cur[w] \in Slots BY DEF TypeOK
    <3>2. Reset(slots[cur[w]]) \in SlotRecord BY <3>1, SlotFields
    <3>3. QED BY <1>15, <3>1, <3>2 DEF Clear, TypeOK
  <2>3. \A v \in Workers : pc'[v] \in Reading => idx'[v] \in Slots
    BY <1>15 DEF Clear, TypeOK, At, Goto, Reading, Slots, local
  <2>4. QED BY <1>15, <2>1, <2>2, <2>3 DEF Clear, TypeOK, local, shared
<1>16. CASE Free(w)
  <2>1. pc' \in [Workers -> Labels] BY <1>16 DEF Free, TypeOK, Goto, Labels
  <2>2. owner' \in [Slots -> Pids \cup {NoPid}] BY <1>16 DEF Free, TypeOK
  <2>3. cur' \in [Workers -> Slots] BY <1>16 DEF Free, TypeOK, Slots
  <2>4. \A v \in Workers : pc'[v] \in Reading => idx'[v] \in Slots
    BY <1>16 DEF Free, TypeOK, At, Goto, Reading, Slots, local
  <2>5. QED BY <1>16, <2>1, <2>2, <2>3, <2>4 DEF Free, TypeOK, local, shared
<1>17. CASE ReadActive(w)
  <2> SUFFICES /\ idx' \in [Workers -> 0 .. NSlots] /\ job' \in [Workers -> Job] /\ pc' \in [Workers -> Labels]
               /\ \A v \in Workers : pc'[v] \in Reading => idx'[v] \in Slots
    BY <1>17 DEF ReadActive, TypeOK, shared
  <2>1. idx[w] \in Slots BY <1>17 DEF ReadActive, At, Reading, TypeOK
  <2>2. CASE slots[idx[w]].active
    BY <1>17, <2>1, <2>2 DEF ReadActive, Goto, TypeOK, Labels
  <2>3. CASE ~(slots[idx[w]].active)
    BY <1>17, <2>1, <2>3, NextSlotTypes DEF ReadActive, TypeOK
  <2>4. QED BY <2>2, <2>3
<1>18. CASE ReadVersion(w)
  <2> SUFFICES /\ idx' \in [Workers -> 0 .. NSlots] /\ job' \in [Workers -> Job] /\ pc' \in [Workers -> Labels]
               /\ \A v \in Workers : pc'[v] \in Reading => idx'[v] \in Slots
    BY <1>18 DEF ReadVersion, TypeOK, shared
  <2>1. idx[w] \in Slots BY <1>18 DEF ReadVersion, At, Reading, TypeOK
  <2>2. CASE slots[idx[w]].data_version % 2 = 0
    <3>1. slots[idx[w]].data_version \in Nat BY <2>1 DEF TypeOK, SlotRecord
    <3>2. [job[w] EXCEPT !.version = slots[idx[w]].data_version] \in Job
      BY <3>1, JobFields DEF TypeOK
    <3>3. job' = [job EXCEPT ![w] = [job[w] EXCEPT !.version = slots[idx[w]].data_version]]
      BY <1>18, <2>2 DEF ReadVersion
    <3>4. job' \in [Workers -> Job] BY <3>2, <3>3 DEF TypeOK
    <3>5. pc' \in [Workers -> Labels] /\ idx' = idx
      BY <1>18, <2>2 DEF ReadVersion, Goto, TypeOK, Labels
    <3>6. \A v \in Workers \ {w} : pc'[v] = pc[v]
      BY <1>18, <2>2 DEF ReadVersion, Goto, TypeOK
    <3>7. QED BY <2>1, <3>4, <3>5, <3>6 DEF TypeOK
  <2>3. CASE ~(slots[idx[w]].data_version % 2 = 0)
    BY <1>18, <2>1, <2>3, RetryTypes DEF ReadVersion, TypeOK
  <2>4. QED BY <2>2, <2>3
<1>19. CASE ReadGeneration(w)
  <2>1. pc' \in [Workers -> Labels]
    BY <1>19 DEF ReadGeneration, TypeOK, Goto, Labels
  <2>2. job' \in [Workers -> Job]
    BY <1>19 DEF ReadGeneration, TypeOK, Job, SlotRecord, Reading, At
  <2>3. \A v \in Workers : pc'[v] \in Reading => idx'[v] \in Slots
    BY <1>19 DEF ReadGeneration, TypeOK, At, Goto, Reading, Slots, local
  <2>4. QED BY <1>19, <2>1, <2>2, <2>3 DEF ReadGeneration, TypeOK, local, shared
<1>20. CASE Copy(w)
  <2>1. pc' \in [Workers -> Labels] BY <1>20 DEF Copy, TypeOK, Goto, Labels
  <2>2. job' \in [Workers -> Job]
    BY <1>20, ZenonT(60) DEF Copy, TypeOK, Job, SlotRecord, Reading, At
  <2>3. \A v \in Workers : pc'[v] \in Reading => idx'[v] \in Slots
    BY <1>20 DEF Copy, TypeOK, At, Goto, Reading, Slots, local
  <2>4. QED BY <1>20, <2>1, <2>2, <2>3 DEF Copy, TypeOK, local, shared
<1>21. CASE CopyRest(w)
  <2>1. pc' \in [Workers -> Labels] BY <1>21 DEF CopyRest, TypeOK, Goto, Labels
  <2>2. job' \in [Workers -> Job]
    BY <1>21 DEF CopyRest, TypeOK, Job, SlotRecord, Reading, At
  <2>3. \A v \in Workers : pc'[v] \in Reading => idx'[v] \in Slots
    BY <1>21 DEF CopyRest, TypeOK, At, Goto, Reading, Slots, local
  <2>4. QED BY <1>21, <2>1, <2>2, <2>3 DEF CopyRest, TypeOK, local, shared
<1>22. CASE Check(w)
  <2> SUFFICES /\ idx' \in [Workers -> 0 .. NSlots] /\ job' \in [Workers -> Job] /\ pc' \in [Workers -> Labels]
               /\ \A v \in Workers : pc'[v] \in Reading => idx'[v] \in Slots
    BY <1>22 DEF Check, TypeOK, shared
  <2>1. idx[w] \in Slots BY <1>22 DEF Check, At, Reading, TypeOK
  <2>2. CASE Unchanged(w)
    BY <1>22, <2>1, <2>2 DEF Check, Goto, TypeOK, Labels
  <2>3. CASE ~(Unchanged(w))
    BY <1>22, <2>1, <2>3, RetryTypes DEF Check, TypeOK
  <2>4. QED BY <2>2, <2>3
<1>23. CASE Compare(w)
  <2> SUFFICES /\ idx' \in [Workers -> 0 .. NSlots] /\ job' \in [Workers -> Job] /\ pc' \in [Workers -> Labels]
               /\ \A v \in Workers : pc'[v] \in Reading => idx'[v] \in Slots
    BY <1>23 DEF Compare, TypeOK, shared
  <2>1. idx[w] \in Slots BY <1>23 DEF Compare, At, Reading, TypeOK
  <2>2. CASE job[w].id = job[w].client
    BY <1>23, <2>1, <2>2 DEF Compare, Goto, TypeOK, Labels
  <2>3. CASE ~(job[w].id = job[w].client)
    BY <1>23, <2>1, <2>3, NextSlotTypes DEF Compare, TypeOK
  <2>4. QED BY <2>2, <2>3
<1>24. CASE StoreRequest(w)
  <2>1. pc' \in [Workers -> Labels] BY <1>24 DEF StoreRequest, TypeOK, Goto, Labels
  <2>2. slots' \in [Slots -> SlotRecord]
    <3>1. slots[idx[w]] \in SlotRecord /\ idx[w] \in Slots
      BY <1>24 DEF StoreRequest, At, Reading, TypeOK
    <3>2. [slots[idx[w]] EXCEPT !.disconnect_requested = job[w].generation] \in SlotRecord
      BY <3>1, SlotFields DEF TypeOK, Job
    <3>3. slots' = [slots EXCEPT ![idx[w]] = [slots[idx[w]] EXCEPT !.disconnect_requested = job[w].generation]]
      BY <1>24 DEF StoreRequest
    <3>4. QED BY <3>1, <3>2, <3>3 DEF TypeOK
  <2>3. \A v \in Workers : pc'[v] \in Reading => idx'[v] \in Slots
    BY <1>24 DEF StoreRequest, TypeOK, At, Goto, Reading, Slots, local
  <2>4. QED BY <1>24, <2>1, <2>2, <2>3 DEF StoreRequest, TypeOK, local, shared
<1>25. CASE Found(w)
  <2> SUFFICES /\ idx' \in [Workers -> 0 .. NSlots] /\ job' \in [Workers -> Job] /\ pc' \in [Workers -> Labels]
               /\ \A v \in Workers : pc'[v] \in Reading => idx'[v] \in Slots
    BY <1>25 DEF Found, TypeOK, shared
  <2>1. idx[w] \in Slots BY <1>25 DEF Found, At, Reading, TypeOK
  <2>2. CASE slots[idx[w]].active /\ slots[idx[w]].generation = job[w].generation
    BY <1>25, <2>1, <2>2 DEF Found, Goto, TypeOK, Labels
  <2>3. CASE ~(slots[idx[w]].active /\ slots[idx[w]].generation = job[w].generation)
    BY <1>25, <2>1, <2>3, NextSlotTypes DEF Found, TypeOK
  <2>4. QED BY <2>2, <2>3
<1>26. CASE Trigger(w)
  <2>1. pc' \in [Workers -> Labels]
    BY <1>26 DEF Trigger, TypeOK, Goto, Labels, Return
  <2>2. pipe' \in [Workers -> BOOLEAN] BY <1>26 DEF Trigger, TypeOK, Wake
  <2>3. hist' \in History
    <3>1. hist.promised \cup {job[w].client} \in SUBSET Nat BY JobFields DEF TypeOK, History
    <3>2. QED BY <1>26, <3>1 DEF Trigger, TypeOK, History
  <2>4. idx' \in [Workers -> 0 .. NSlots] BY <1>26 DEF Trigger, TypeOK, Return
  <2>5. cnt' \in [Workers -> Nat] BY <1>26 DEF Trigger, TypeOK, Return
  <2>6. cur' \in [Workers -> Slots] BY <1>26 DEF Trigger, TypeOK, Return, Slots
  <2>7. job' \in [Workers -> Job] BY <1>26 DEF Trigger, TypeOK, Return
  <2>8. \A v \in Workers : pc'[v] \in Reading => idx'[v] \in Slots
    BY <1>26 DEF Trigger, TypeOK, At, Goto, Reading, Return, Slots, local
  <2>9. QED BY <1>26, <2>1, <2>2, <2>3, <2>4, <2>5, <2>6, <2>7, <2>8 DEF Trigger, TypeOK, local, shared
<1>27. CASE ReadPipe(w)
  <2>1. pc' \in [Workers -> Labels] BY <1>27 DEF ReadPipe, TypeOK, Goto, Labels
  <2>2. pipe' \in [Workers -> BOOLEAN] BY <1>27 DEF ReadPipe, TypeOK
  <2>3. job' \in [Workers -> Job] BY <1>27 DEF ReadPipe, TypeOK, Job
  <2>4. \A v \in Workers : pc'[v] \in Reading => idx'[v] \in Slots
    BY <1>27 DEF ReadPipe, TypeOK, At, Goto, Reading, Slots, local
  <2>5. QED BY <1>27, <2>1, <2>2, <2>3, <2>4 DEF ReadPipe, TypeOK, local, shared
<1>28. CASE Scan(w)
  <2>1. PICK s \in job[w].todo :
          /\ job' = [job EXCEPT ![w] = [job[w] EXCEPT !.todo = job[w].todo \ {s}]]
          /\ IF Requested(s)
               THEN /\ Unregister(w, s)
                    /\ hist' = [hist EXCEPT !.closed = hist.closed \cup {slots[s].id}]
               ELSE /\ Goto(w, IF job[w].todo # {s} THEN "scan" ELSE "idle")
                    /\ UNCHANGED <<shared, pid, idx, cnt, cur, conns, pipe, reaping, hist>>
    BY <1>28 DEF Scan
  <2>2. s \in Slots /\ job[w].todo \ {s} \in SUBSET Slots BY DEF TypeOK, Job
  <2>3. [job[w] EXCEPT !.todo = job[w].todo \ {s}] \in Job BY <2>2, JobFields DEF TypeOK
  <2>4. job' \in [Workers -> Job] BY <2>1, <2>3 DEF TypeOK
  <2>5. CASE Requested(s)
    <3>1. hist.closed \cup {slots[s].id} \in SUBSET Nat
      BY <2>2 DEF TypeOK, History, SlotRecord
    <3>2. hist' \in History BY <2>1, <2>5, <3>1 DEF TypeOK, History
    <3>3. QED BY <2>1, <2>2, <2>4, <2>5, <3>2, UnregisterTypes DEF Unregister, TypeOK
  <2>6. CASE ~Requested(s)
    <3>1. pc' \in [Workers -> Labels] /\ \A v \in Workers : pc'[v] \in Reading => pc'[v] = pc[v]
      BY <2>1, <2>6 DEF Goto, TypeOK, Labels, Reading
    <3>2. QED BY <2>1, <2>4, <2>6, <3>1 DEF TypeOK, shared
  <2>7. QED BY <2>5, <2>6
<1>29. CASE Register(w)
  <2>1. pc' \in [Workers -> Labels] BY <1>29 DEF Register, TypeOK, Goto, Labels
  <2>2. job' \in [Workers -> Job]
    <3>1. hist.starts + 1 \in Nat /\ job[w] \in Job BY DEF TypeOK, History
    <3>2. [job[w] EXCEPT !.client = hist.starts + 1] \in Job BY <3>1, JobFields
    <3>3. QED BY <1>29, <3>2 DEF Register, TypeOK
  <2>3. hist' \in History BY <1>29 DEF Register, TypeOK, History
  <2>4. \A v \in Workers : pc'[v] \in Reading => idx'[v] \in Slots
    BY <1>29 DEF Register, TypeOK, At, Goto, Reading, Slots, local
  <2>5. QED BY <1>29, <2>1, <2>2, <2>3, <2>4 DEF Register, TypeOK, local, shared
<1>30. CASE WriteBegin(w)
  <2>1. PICK s \in conns[w] :
          /\ cur' = [cur EXCEPT ![w] = s]
          /\ slots' = [slots EXCEPT ![s] = [slots[s] EXCEPT !.data_version = slots[s].data_version + 1]]
    BY <1>30 DEF WriteBegin
  <2>2. s \in Slots /\ slots[s] \in SlotRecord BY DEF TypeOK
  <2>3. [slots[s] EXCEPT !.data_version = slots[s].data_version + 1] \in SlotRecord
    BY <2>2, SlotFields
  <2>4. slots' \in [Slots -> SlotRecord] /\ cur' \in [Workers -> Slots]
    BY <2>1, <2>2, <2>3 DEF TypeOK
  <2>5. pc' \in [Workers -> Labels] /\ hist' \in History
    BY <1>30 DEF WriteBegin, TypeOK, Goto, Labels, History
  <2>6. \A v \in Workers : pc'[v] \in Reading => idx'[v] \in Slots
    BY <1>30 DEF WriteBegin, TypeOK, Goto, Reading
  <2>7. QED BY <1>30, <2>4, <2>5, <2>6 DEF WriteBegin, TypeOK
<1>31. CASE ClientLeaves(w)
  <2>1. PICK s \in conns[w] : Unregister(w, s) BY <1>31 DEF ClientLeaves
  <2>2. s \in Slots BY DEF TypeOK
  <2>3. QED BY <1>31, <2>1, <2>2, UnregisterTypes DEF ClientLeaves, Unregister, TypeOK
<1>32. CASE Request(w)
  <2>1. PICK c \in 1 .. hist.starts :
          /\ job' = [job EXCEPT ![w] = [NoJob EXCEPT !.client = c]]
          /\ hist' = [hist EXCEPT !.requests = hist.requests + 1, !.asked = hist.asked \cup {c}]
    BY <1>32 DEF Request
  <2>2. c \in Nat /\ hist.requests + 1 \in Nat /\ hist.asked \cup {c} \in SUBSET Nat
    BY DEF TypeOK, History
  <2>3. hist' \in History BY <2>1, <2>2 DEF TypeOK, History
  <2>4. [NoJob EXCEPT !.client = c] \in Job BY <2>2, NoJobType, JobFields
  <2>5. job' \in [Workers -> Job] BY <2>1, <2>4 DEF TypeOK
  <2>6. idx[w] = 0
    BY <1>32 DEF Request, At, Control, Local, Indexing, Reading
  <2>7. pc' \in [Workers -> Labels] BY <1>32 DEF Request, Goto, TypeOK, Labels
  <2>8. \A v \in Workers : pc'[v] \in Reading => idx'[v] \in Slots
    BY <1>32, <2>6 DEF Request, Goto, TypeOK, Slots
  <2>9. QED BY <1>32, <2>3, <2>5, <2>7, <2>8 DEF Request, TypeOK, shared
<1>33. CASE Crash(w)
  <2>1. pc' \in [Workers -> Labels] BY <1>33 DEF Crash, TypeOK, Goto, Labels, Return
  <2>2. conns' \in [Workers -> SUBSET Slots] BY <1>33 DEF Crash, TypeOK
  <2>3. hist' \in History BY <1>33 DEF Crash, TypeOK, History
  <2>4. idx' \in [Workers -> 0 .. NSlots] BY <1>33 DEF Crash, TypeOK, Return
  <2>5. cnt' \in [Workers -> Nat] BY <1>33 DEF Crash, TypeOK, Return
  <2>6. cur' \in [Workers -> Slots] BY <1>33 DEF Crash, TypeOK, Return, Slots
  <2>7. job' \in [Workers -> Job] BY <1>33 DEF Crash, TypeOK, Return
  <2>8. \A v \in Workers : pc'[v] \in Reading => idx'[v] \in Slots
    BY <1>33 DEF Crash, TypeOK, At, Goto, Reading, Return, Slots, local
  <2>9. QED BY <1>33, <2>1, <2>2, <2>3, <2>4, <2>5, <2>6, <2>7, <2>8 DEF Crash, TypeOK, local, shared
<1>34. QED BY <1>1, <1>2, <1>3, <1>4, <1>5, <1>6, <1>7, <1>8, <1>9, <1>10, <1>11, <1>12,
     <1>13, <1>14, <1>15, <1>16, <1>17, <1>18, <1>19, <1>20, <1>21, <1>22, <1>23, <1>24,
     <1>25, <1>26, <1>27, <1>28, <1>29, <1>30, <1>31, <1>32, <1>33
  DEF Step, Outside

\* The supervisor keeps all types.
LEMMA SupervisorTypes ==
  ASSUME TypeOK, Control, Supervise
  PROVE  TypeOK'
<1> USE ClientSlotsAssumption
<1>1. CASE ReapSlot
  <2>1. /\ reaping.slot \in Slots /\ reaping.slot + 1 \in 0 .. NSlots
    BY <1>1 DEF ReapSlot, TypeOK, Slots
  <2>2. reaping' \in [worker : Workers \cup {NoPid}, slot : 0 .. NSlots]
    BY <1>1, <2>1 DEF ReapSlot, TypeOK
  <2>3. slots[reaping.slot] \in SlotRecord /\ Uncounted(reaping.slot) \in Nat
    BY <2>1 DEF TypeOK, SlotRecord, Uncounted
  <2>4. [Reset(slots[reaping.slot]) EXCEPT !.active = FALSE] \in SlotRecord
    BY <2>3, SlotFields
  <2>5. slots' \in [Slots -> SlotRecord] BY <1>1, <2>1, <2>4 DEF ReapSlot, TypeOK
  <2>6. counted' \in Nat /\ owner' \in [Slots -> Pids \cup {NoPid}]
    BY <1>1, <2>1, <2>3 DEF ReapSlot, TypeOK
  <2>7. QED BY <1>1, <2>2, <2>5, <2>6 DEF ReapSlot, TypeOK, local
<1>2. CASE ReapLock
  <2>1. lock' \in Pids \cup {NoPid} /\ pid' \in [Workers -> Pids \cup {NoPid}]
    BY <1>2 DEF ReapLock, Reaped, TypeOK
  <2>2. pc' \in [Workers -> Labels] BY <1>2 DEF ReapLock, Goto, TypeOK, Labels
  <2>3. reaping' \in [worker : Workers \cup {NoPid}, slot : 0 .. NSlots]
    BY <1>2 DEF ReapLock, NoWorker
  <2>4. \A v \in Workers : pc'[v] \in Reading => idx'[v] \in Slots
    BY <1>2 DEF ReapLock, Goto, TypeOK, Reading, local
  <2>5. QED BY <1>2, <2>1, <2>2, <2>3, <2>4 DEF ReapLock, TypeOK, local
<1>3. ASSUME NEW w \in Workers, Waitpid(w)
      PROVE  TypeOK'
  BY <1>3 DEF Waitpid, TypeOK, local, shared
<1>4. ASSUME NEW w \in Workers, Spawn(w)
      PROVE  TypeOK'
  <2>1. pid' \in [Workers -> Pids \cup {NoPid}] BY <1>4 DEF Spawn, TypeOK
  <2>2. pc' \in [Workers -> Labels] BY <1>4 DEF Spawn, Goto, TypeOK, Labels
  <2>3. \A v \in Workers : pc'[v] \in Reading => idx'[v] \in Slots
    BY <1>4 DEF Spawn, Goto, TypeOK, Reading, local
  <2>4. QED BY <1>4, <2>1, <2>2, <2>3 DEF Spawn, TypeOK, local, shared
<1>5. QED BY <1>1, <1>2, <1>3, <1>4 DEF Supervise

-----------------------------------------------------------------------------
(* Control *)

\* A step of worker w leaves the others alone.
LEMMA WorkerFrame ==
  ASSUME TypeOK, Control, NEW w \in Workers, Step(w) \/ Outside(w)
  PROVE  Frame(w)
<1> USE DEF Frame, TypeOK, At, Goto, local, shared
<1>1. CASE Lock(w) BY <1>1 DEF Lock
<1>2. CASE Count(w) BY <1>2 DEF Count
<1>3. CASE Counted(w) BY <1>3 DEF Counted
<1>4. CASE Refuse(w) BY <1>4 DEF Refuse, Return, Unlocked
<1>5. CASE Reserve(w) BY <1>5 DEF Reserve
<1>6. CASE Unlock(w) BY <1>6 DEF Unlock, Unlocked
<1>7. CASE ResetSlot(w) BY <1>7 DEF ResetSlot
<1>8. CASE Number(w) BY <1>8 DEF Number
<1>9. CASE Fill(w) BY <1>9 DEF Fill
<1>10. CASE Publish(w) BY <1>10 DEF Publish, Return
<1>11. CASE WriteBytes(w) BY <1>11 DEF WriteBytes
<1>12. CASE WriteBandwidth(w) BY <1>12 DEF WriteBandwidth
<1>13. CASE WriteEnd(w) BY <1>13 DEF WriteEnd, Return
<1>14. CASE Account(w) BY <1>14 DEF Account
<1>15. CASE Clear(w) BY <1>15 DEF Clear
<1>16. CASE Free(w) BY <1>16 DEF Free, Control, Local, Owns, Working
<1>17. CASE ReadActive(w) BY <1>17 DEF ReadActive, NextSlot
<1>18. CASE ReadVersion(w) BY <1>18 DEF ReadVersion, Retry, NextSlot
<1>19. CASE ReadGeneration(w) BY <1>19 DEF ReadGeneration
<1>20. CASE Copy(w) BY <1>20 DEF Copy
<1>21. CASE CopyRest(w) BY <1>21 DEF CopyRest
<1>22. CASE Check(w) BY <1>22 DEF Check, Retry, NextSlot
<1>23. CASE Compare(w) BY <1>23 DEF Compare, NextSlot
<1>24. CASE StoreRequest(w) BY <1>24 DEF StoreRequest
<1>25. CASE Found(w) BY <1>25 DEF Found, NextSlot
<1>26. CASE Trigger(w) BY <1>26 DEF Trigger, Return
<1>27. CASE ReadPipe(w) BY <1>27 DEF ReadPipe
<1>28. CASE Scan(w) BY <1>28 DEF Scan, Unregister
<1>29. CASE Register(w) BY <1>29 DEF Register
<1>30. CASE WriteBegin(w) BY <1>30 DEF WriteBegin
<1>31. CASE ClientLeaves(w) BY <1>31 DEF ClientLeaves, Unregister
<1>32. CASE Request(w) BY <1>32 DEF Request
<1>33. CASE Crash(w) BY <1>33 DEF Crash, Return
<1>34. QED BY <1>1, <1>2, <1>3, <1>4, <1>5, <1>6, <1>7, <1>8, <1>9, <1>10, <1>11, <1>12,
     <1>13, <1>14, <1>15, <1>16, <1>17, <1>18, <1>19, <1>20, <1>21, <1>22, <1>23, <1>24,
     <1>25, <1>26, <1>27, <1>28, <1>29, <1>30, <1>31, <1>32, <1>33
  DEF Step, Outside

\* What worker w holds after its own step.
LEMMA WorkerLocal ==
  ASSUME TypeOK, Control, NEW w \in Workers, Step(w) \/ Outside(w)
  PROVE  Local(w)'
<1>1. Local(w) BY DEF Control
<1> USE <1>1 DEF Local, Owns, TypeOK, At, Goto, local, shared, Holding, Indexing, Reading, Working
<1>2. CASE Lock(w) BY <1>2 DEF Lock
<1>3. CASE Count(w) BY <1>3 DEF Count
<1>4. CASE Counted(w) BY <1>4 DEF Counted
<1>5. CASE Refuse(w) BY <1>5 DEF Refuse, Return, Unlocked
<1>6. CASE Reserve(w)
  <2>1. idx[w] \in Slots
    BY <1>6, ClientSlotsAssumption DEF Reserve, Slots
  <2>2. CASE owner[idx[w]] = NoPid BY <1>6, <2>1, <2>2 DEF Reserve
  <2>3. CASE owner[idx[w]] # NoPid BY <1>6, <2>3 DEF Reserve
  <2>4. QED BY <2>2, <2>3
<1>7. CASE Unlock(w) BY <1>7 DEF Unlock, Unlocked
<1>8. CASE ResetSlot(w) BY <1>8 DEF ResetSlot
<1>9. CASE Number(w) BY <1>9 DEF Number
<1>10. CASE Fill(w) BY <1>10 DEF Fill
<1>11. CASE Publish(w) BY <1>11 DEF Publish, Return
<1>12. CASE WriteBytes(w) BY <1>12 DEF WriteBytes
<1>13. CASE WriteBandwidth(w) BY <1>13 DEF WriteBandwidth
<1>14. CASE WriteEnd(w) BY <1>14 DEF WriteEnd, Return
<1>15. CASE Account(w) BY <1>15 DEF Account
<1>16. CASE Clear(w) BY <1>16 DEF Clear
<1>17. CASE Free(w) BY <1>17 DEF Free
<1>18. CASE ReadActive(w) BY <1>18 DEF ReadActive, NextSlot
<1>19. CASE ReadVersion(w) BY <1>19 DEF ReadVersion, Retry, NextSlot
<1>20. CASE ReadGeneration(w) BY <1>20 DEF ReadGeneration
<1>21. CASE Copy(w) BY <1>21 DEF Copy
<1>22. CASE CopyRest(w) BY <1>22 DEF CopyRest
<1>23. CASE Check(w) BY <1>23 DEF Check, Retry, NextSlot
<1>24. CASE Compare(w) BY <1>24 DEF Compare, NextSlot
<1>25. CASE StoreRequest(w) BY <1>25 DEF StoreRequest
<1>26. CASE Found(w) BY <1>26 DEF Found, NextSlot
<1>27. CASE Trigger(w) BY <1>27 DEF Trigger, Return
<1>28. CASE ReadPipe(w) BY <1>28 DEF ReadPipe
<1>29. CASE Scan(w)
  <2>1. PICK s \in job[w].todo :
          IF Requested(s)
            THEN Unregister(w, s)
            ELSE /\ Goto(w, IF job[w].todo # {s} THEN "scan" ELSE "idle")
                 /\ UNCHANGED <<shared, pid, idx, cnt, cur, conns, pipe, reaping>>
    BY <1>29 DEF Scan
  <2>2. s \in Slots BY DEF Job
  <2>3. CASE Requested(s)
    BY <1>29, <2>1, <2>2, <2>3 DEF Scan, Unregister, Mine
  <2>4. CASE ~Requested(s) BY <1>29, <2>1, <2>4 DEF Scan
  <2>5. QED BY <2>3, <2>4
<1>30. CASE Register(w) BY <1>30 DEF Register
<1>31. CASE WriteBegin(w) BY <1>31 DEF WriteBegin
<1>32. CASE ClientLeaves(w) BY <1>32 DEF ClientLeaves, Unregister
<1>33. CASE Request(w) BY <1>33 DEF Request
<1>34. CASE Crash(w) BY <1>34 DEF Crash, Return
<1>35. QED BY <1>2, <1>3, <1>4, <1>5, <1>6, <1>7, <1>8, <1>9, <1>10, <1>11, <1>12, <1>13,
     <1>14, <1>15, <1>16, <1>17, <1>18, <1>19, <1>20, <1>21, <1>22, <1>23, <1>24, <1>25,
     <1>26, <1>27, <1>28, <1>29, <1>30, <1>31, <1>32, <1>33, <1>34
  DEF Step, Outside

\* A step of a worker keeps who holds what.
LEMMA WorkerControl ==
  ASSUME TypeOK, Control, NEW w \in Workers, Step(w) \/ Outside(w)
  PROVE  Control'
<1>1. Frame(w) /\ Local(w)' BY WorkerFrame, WorkerLocal
<1>2. PidsDistinct' BY <1>1 DEF Frame, Control, PidsDistinct
<1>3. ReapsTheDead' BY <1>1 DEF Frame, Control, ReapsTheDead
<1>4. ASSUME NEW v \in Workers \ {w}
      PROVE  Local(v)'
  <2>1. Local(v) /\ Local(w) BY DEF Control
  <2>2. pid[w] # NoPid /\ pid[v] # pid[w]
    BY <1>1, <2>1 DEF Frame, Local, Control, PidsDistinct
  <2>3. (pc[v] \in Holding => lock = pid[v])' BY <1>1, <2>1, <2>2 DEF Frame, Local, Holding
  <2>4. ASSUME NEW s \in Slots, owner[s] = pid[v], pc[v] # "down"
        PROVE  owner'[s] = pid[v]
    BY <1>1, <2>1, <2>2, <2>4 DEF Frame, Local
  <2>5. Owns(v)'
    BY <1>1, <2>1, <2>4 DEF Frame, Local, Owns, TypeOK
  <2>6. QED BY <1>1, <2>1, <2>3, <2>5 DEF Frame, Local
<1>5. QED BY <1>1, <1>2, <1>3, <1>4 DEF Control

\* So does the supervisor: what it takes was the dead worker's.
LEMMA SupervisorControl ==
  ASSUME TypeOK, Control, Supervise
  PROVE  Control'
<1> USE ClientSlotsAssumption
<1>1. CASE ReapSlot
  <2>1. reaping.worker \in Workers /\ pc[reaping.worker] = "dead" /\ reaping.slot \in Slots
    BY <1>1 DEF ReapSlot, Control, ReapsTheDead, TypeOK, Slots
  <2>2. UNCHANGED <<lock, pid, pc, idx, cnt, cur, conns>> BY <1>1 DEF ReapSlot, local
  <2>3. reaping'.worker = reaping.worker BY <1>1 DEF ReapSlot, TypeOK
  <2>4. PidsDistinct' /\ ReapsTheDead'
    BY <2>1, <2>2, <2>3 DEF Control, PidsDistinct, ReapsTheDead
  <2>5. ASSUME NEW v \in Workers
        PROVE  Local(v)'
    <3>1. Local(v) /\ Local(reaping.worker) BY <2>1 DEF Control
    <3>2. ASSUME NEW s \in Slots, owner[s] = pid[v], pc[v] \notin {"down", "dead"}
          PROVE  owner'[s] = pid[v]
      <4>1. pid[v] # pid[reaping.worker]
        BY <2>1, <3>1, <3>2 DEF Local, Control, PidsDistinct
      <4>2. QED BY <1>1, <2>1, <3>2, <4>1 DEF ReapSlot, LeftBehind, TypeOK
    <3>3. Owns(v)' BY <2>2, <3>1, <3>2 DEF Local, Owns, TypeOK
    <3>4. QED BY <2>2, <3>1, <3>3 DEF Local
  <2>6. QED BY <2>4, <2>5 DEF Control
<1>2. CASE ReapLock
  <2>1. PICK r \in Workers : r = reaping.worker /\ pc[r] = "dead"
    BY <1>2 DEF ReapLock, Control, ReapsTheDead
  <2>2. UNCHANGED <<owner, idx, cnt, cur, conns>> /\ reaping' = NoWorker
    BY <1>2 DEF ReapLock, local
  <2>3. \A v \in Workers \ {r} : pid'[v] = pid[v] /\ pc'[v] = pc[v]
    BY <1>2, <2>1 DEF ReapLock, Goto, TypeOK
  <2>4. pid'[r] = NoPid /\ pc'[r] = "down" BY <1>2, <2>1 DEF ReapLock, Goto, TypeOK
  <2>5. PidsDistinct' BY <2>3, <2>4 DEF Control, PidsDistinct
  <2>6. ASSUME NEW v \in Workers \ {r}
        PROVE  Local(v)'
    <3>1. Local(v) /\ Local(r) BY <2>1 DEF Control
    <3>2. pc[v] \in Holding => lock' = lock
      BY <1>2, <2>1, <3>1 DEF ReapLock, Reaped, Local, Holding, Control, PidsDistinct
    <3>3. Owns(v)' BY <2>2, <2>3, <3>1 DEF Local, Owns
    <3>4. QED BY <2>2, <2>3, <3>1, <3>2, <3>3 DEF Local
  <2>7. Local(r)'
    <3>1. Local(r) BY <2>1 DEF Control
    <3>2. QED BY <2>1, <2>2, <2>4, <3>1 DEF Local, Owns, Holding, Indexing, Reading
  <2>8. QED BY <2>2, <2>5, <2>6, <2>7 DEF Control, ReapsTheDead
<1>3. ASSUME NEW w \in Workers, Waitpid(w)
      PROVE  Control'
  <2>1. UNCHANGED <<lock, owner, pid, pc, idx, cnt, cur, conns>> /\ reaping' = [worker |-> w, slot |-> 0]
    BY <1>3 DEF Waitpid, shared, local
  <2>2. PidsDistinct' /\ ReapsTheDead'
    BY <1>3, <2>1 DEF Waitpid, At, Control, PidsDistinct, ReapsTheDead
  <2>3. \A v \in Workers : Local(v)' BY <2>1 DEF Control, Local, Owns
  <2>4. QED BY <2>2, <2>3 DEF Control
<1>4. ASSUME NEW w \in Workers, Spawn(w)
      PROVE  Control'
  <2>1. UNCHANGED <<lock, owner, idx, cnt, cur, conns, reaping>> /\ reaping = NoWorker
    BY <1>4 DEF Spawn, shared, local
  <2>2. \A v \in Workers \ {w} : pid'[v] = pid[v] /\ pc'[v] = pc[v]
    BY <1>4 DEF Spawn, Goto, TypeOK
  <2>3. pid'[w] # NoPid /\ pc'[w] = "idle" /\ \A v \in Workers : pid[v] # pid'[w]
    BY <1>4 DEF Spawn, Goto, TypeOK
  <2>4. PidsDistinct' BY <2>2, <2>3 DEF Control, PidsDistinct
  <2>5. \A v \in Workers \ {w} : Local(v)' BY <2>1, <2>2 DEF Control, Local, Owns
  <2>6. Local(w)'
    <3>1. Local(w) /\ pc[w] = "down" BY <1>4 DEF Control, Spawn, At
    <3>2. QED BY <2>1, <2>3, <3>1 DEF Local, Owns, Holding, Indexing, Reading, Working
  <2>7. QED BY <2>1, <2>4, <2>5, <2>6 DEF Control, ReapsTheDead
<1>5. QED BY <1>1, <1>2, <1>3, <1>4 DEF Supervise

-----------------------------------------------------------------------------
(* The bound *)

\* Fewer slots, a smaller count; one slot more, at most one more.
LEMMA SlotCounts ==
  ASSUME NEW S \in SUBSET Slots
  PROVE  /\ Cardinality(S) \in Nat
         /\ \A R \in SUBSET S : Cardinality(R) \in Nat /\ Cardinality(R) <= Cardinality(S)
         /\ \A s \in Slots : Cardinality(S \cup {s}) <= Cardinality(S) + 1
         /\ S = {} => Cardinality(S) = 0
<1>1. IsFiniteSet(Slots) BY ClientSlotsAssumption, FS_Interval DEF Slots
<1>2. IsFiniteSet(S) BY <1>1, FS_Subset
<1>3. Cardinality(S) \in Nat BY <1>2, FS_CardinalityType
<1>4. ASSUME NEW R \in SUBSET S
      PROVE  Cardinality(R) \in Nat /\ Cardinality(R) <= Cardinality(S)
  <2>1. IsFiniteSet(R) /\ Cardinality(R) <= Cardinality(S) BY <1>2, FS_Subset
  <2>2. QED BY <2>1, FS_CardinalityType
<1>5. ASSUME NEW s \in Slots
      PROVE  Cardinality(S \cup {s}) <= Cardinality(S) + 1
  <2>1. CASE s \in S
    <3>1. S \cup {s} = S BY <2>1
    <3>2. Cardinality(S \cup {s}) = Cardinality(S) BY <3>1, Zenon
    <3>3. QED BY <1>3, <3>2
  <2>2. CASE s \notin S
    <3>1. Cardinality(S \cup {s}) = Cardinality(S) + 1 BY <1>2, <2>2, FS_AddElement, Zenon
    <3>2. QED BY <1>3, <3>1
  <2>3. QED BY <2>1, <2>2
<1>6. S = {} => Cardinality(S) = 0 BY FS_EmptySet
<1>7. QED BY <1>3, <1>4, <1>5, <1>6

\* While one worker admits a client, no other one does.
LEMMA OneAdmits ==
  ASSUME Control, NEW v \in Workers, NEW w \in Workers, v # w, pc[v] \in Holding
  PROVE  pc[w] \notin Holding
<1>1. Local(v) /\ Local(w) BY DEF Control
<1>2. pid[v] # NoPid /\ pid[v] # pid[w]
  BY <1>1 DEF Control, PidsDistinct, Local, Holding
<1>3. QED BY <1>1, <1>2 DEF Local

\* A step that takes no slot, and neither counts nor begins to, keeps the bound.
LEMMA BoundKept ==
  ASSUME TypeOK, Bound, TakesNone,
         \A v \in Workers : /\ pc'[v] = "count" => /\ pc[v] = "count"
                                                   /\ idx'[v] = idx[v] /\ cnt'[v] = cnt[v]
                            /\ pc'[v] = "reserve" =>
                                 /\ pc[v] = "reserve"
                                 /\ \/ idx'[v] = idx[v]
                                    \/ owner[idx[v]] # NoPid /\ idx'[v] = idx[v] + 1
  PROVE  Bound'
<1>1. Cardinality(Reserved) \in Nat /\ Cardinality(Reserved') \in Nat
      /\ Cardinality(Reserved') <= Cardinality(Reserved)
  <2>1. Reserved' \subseteq Reserved BY DEF TakesNone, Reserved
  <2>2. Reserved \in SUBSET Slots BY DEF Reserved
  <2>3. QED BY <2>1, <2>2, SlotCounts
<1>2. AdmissionBound'
  BY <1>1, ClientSlotsAssumption DEF Bound, AdmissionBound
<1>3. RoomLeft'
  BY <1>1, ClientSlotsAssumption DEF Bound, RoomLeft
<1>4. ASSUME NEW v \in Workers, pc'[v] = "count"
      PROVE  Cardinality(Taken(idx[v])') <= cnt'[v]
  <2>1. Taken(idx[v])' \subseteq Taken(idx[v]) /\ Taken(idx[v]) \in SUBSET Slots
    BY <1>4 DEF TakesNone, Taken
  <2>2. /\ Cardinality(Taken(idx[v])') \in Nat /\ Cardinality(Taken(idx[v])) \in Nat
        /\ Cardinality(Taken(idx[v])') <= Cardinality(Taken(idx[v]))
    BY <2>1, SlotCounts
  <2>3. cnt'[v] \in Nat /\ Cardinality(Taken(idx[v])) <= cnt'[v]
    BY <1>4 DEF Bound, CountCovers, TypeOK
  <2>4. QED BY <2>2, <2>3
<1>5. CountCovers' BY <1>4 DEF CountCovers
<1>6. ASSUME NEW v \in Workers, pc'[v] = "reserve"
      PROVE  \E s \in Slots : s >= idx'[v] /\ owner'[s] = NoPid
  <2>1. PICK s \in Slots : s >= idx[v] /\ owner[s] = NoPid BY <1>6 DEF Bound, SlotIsFound
  <2>2. s \in Int /\ idx[v] \in Int BY ClientSlotsAssumption DEF TypeOK, Slots
  <2>3. idx'[v] = idx[v] \/ (owner[idx[v]] # NoPid /\ idx'[v] = idx[v] + 1)
    BY <1>6
  <2>4. s >= idx'[v]
    <3>1. CASE idx'[v] = idx[v] BY <2>1, <3>1
    <3>2. CASE owner[idx[v]] # NoPid /\ idx'[v] = idx[v] + 1
      <4>1. s # idx[v] BY <2>1, <3>2
      <4>2. s >= idx[v] + 1 BY <2>1, <2>2, <4>1
      <4>3. QED BY <3>2, <4>2
    <3>3. QED BY <2>3, <3>1, <3>2
  <2>5. QED BY <2>1, <2>4 DEF TakesNone
<1>7. SlotIsFound' BY <1>6 DEF SlotIsFound
<1>8. QED BY <1>2, <1>3, <1>5, <1>7 DEF Bound

\* Only Reserve takes a slot; only Lock, Count and Counted lead to counting or reserving.
LEMMA TakesNoSlot ==
  ASSUME TypeOK, NEW w \in Workers, Step(w) \/ Outside(w),
         ~(Reserve(w) \/ Count(w) \/ Counted(w) \/ Lock(w))
  PROVE  TakesNone /\ pc'[w] # "count" /\ pc'[w] # "reserve"
<1> USE DEF TakesNone, TypeOK, Goto, shared
<1>1. CASE Refuse(w) BY <1>1 DEF Refuse
<1>2. CASE Unlock(w) BY <1>2 DEF Unlock
<1>3. CASE ResetSlot(w) BY <1>3 DEF ResetSlot
<1>4. CASE Number(w) BY <1>4 DEF Number
<1>5. CASE Fill(w) BY <1>5 DEF Fill
<1>6. CASE Publish(w) BY <1>6 DEF Publish
<1>7. CASE WriteBytes(w) BY <1>7 DEF WriteBytes
<1>8. CASE WriteBandwidth(w) BY <1>8 DEF WriteBandwidth
<1>9. CASE WriteEnd(w) BY <1>9 DEF WriteEnd
<1>10. CASE Account(w) BY <1>10 DEF Account
<1>11. CASE Clear(w) BY <1>11 DEF Clear
<1>12. CASE Free(w) BY <1>12 DEF Free
<1>13. CASE ReadActive(w) BY <1>13 DEF ReadActive, NextSlot
<1>14. CASE ReadVersion(w) BY <1>14 DEF ReadVersion, Retry, NextSlot
<1>15. CASE ReadGeneration(w) BY <1>15 DEF ReadGeneration
<1>16. CASE Copy(w) BY <1>16 DEF Copy
<1>17. CASE CopyRest(w) BY <1>17 DEF CopyRest
<1>18. CASE Check(w) BY <1>18 DEF Check, Retry, NextSlot
<1>19. CASE Compare(w) BY <1>19 DEF Compare, NextSlot
<1>20. CASE StoreRequest(w) BY <1>20 DEF StoreRequest
<1>21. CASE Found(w) BY <1>21 DEF Found, NextSlot
<1>22. CASE Trigger(w) BY <1>22 DEF Trigger
<1>23. CASE ReadPipe(w) BY <1>23 DEF ReadPipe
<1>24. CASE Scan(w) BY <1>24 DEF Scan, Unregister
<1>25. CASE Register(w) BY <1>25 DEF Register
<1>26. CASE WriteBegin(w) BY <1>26 DEF WriteBegin
<1>27. CASE ClientLeaves(w) BY <1>27 DEF ClientLeaves, Unregister
<1>28. CASE Request(w) BY <1>28 DEF Request
<1>29. CASE Crash(w) BY <1>29 DEF Crash
<1>30. QED BY <1>1, <1>2, <1>3, <1>4, <1>5, <1>6, <1>7, <1>8, <1>9, <1>10, <1>11, <1>12,
     <1>13, <1>14, <1>15, <1>16, <1>17, <1>18, <1>19, <1>20, <1>21, <1>22, <1>23, <1>24,
     <1>25, <1>26, <1>27, <1>28, <1>29
  DEF Step, Outside

\* A worker's step keeps the bound.
LEMMA WorkerBound ==
  ASSUME IInv, NEW w \in Workers, Step(w) \/ Outside(w)
  PROVE  Bound'
<1> USE ClientSlotsAssumption
<1> TypeOK /\ Control /\ Bound /\ Frame(w) /\ Local(w)
  BY WorkerFrame DEF IInv, Control
<1>1. CASE Reserve(w)
  <2>1. idx[w] \in Slots /\ pc[w] \in Holding
    BY <1>1 DEF Reserve, At, Holding, TypeOK, Slots
  <2>2. \A v \in Workers \ {w} : pc'[v] # "count" /\ pc'[v] # "reserve"
    BY <2>1, OneAdmits DEF Frame, Holding
  <2>3. CASE owner[idx[w]] # NoPid
    <3>1. TakesNone BY <1>1, <2>3 DEF Reserve, TakesNone
    <3>2. pc'[w] = pc[w] /\ pc[w] = "reserve" /\ idx'[w] = idx[w] + 1
      BY <1>1, <2>3 DEF Reserve, At, TypeOK
    <3>3. QED BY <2>2, <2>3, <3>1, <3>2, BoundKept
  <2>4. CASE owner[idx[w]] = NoPid
    <3>1. Reserved' = Reserved \cup {idx[w]}
      <4>1. owner' = [owner EXCEPT ![idx[w]] = pid[w]] BY <1>1, <2>4 DEF Reserve
      <4>2. pid[w] # NoPid BY <2>1 DEF Local, Holding
      <4>3. QED BY <2>1, <4>1, <4>2 DEF Reserved, TypeOK
    <3>2. Cardinality(Reserved) \in Nat /\ Cardinality(Reserved') \in Nat
      BY SlotCounts DEF Reserved
    <3>3. Cardinality(Reserved') <= Cardinality(Reserved) + 1
      <4>1. Reserved \in SUBSET Slots BY DEF Reserved
      <4>2. Cardinality(Reserved \cup {idx[w]}) <= Cardinality(Reserved) + 1
        BY <2>1, <4>1, SlotCounts
      <4>3. QED BY <3>1, <4>2
    <3>4. Cardinality(Reserved) < MaxClients BY <1>1 DEF Reserve, At, Bound, RoomLeft
    <3>5. AdmissionBound' BY <3>2, <3>3, <3>4 DEF AdmissionBound
    <3>6. pc'[w] = "unlock" BY <1>1, <2>4 DEF Reserve, Goto, TypeOK
    <3>7. QED BY <2>2, <3>5, <3>6 DEF Bound, CountCovers, RoomLeft, SlotIsFound
  <2>5. QED BY <2>3, <2>4
<1>2. CASE Count(w)
  <2>1. /\ UNCHANGED <<pc, owner>> /\ idx[w] \in Slots /\ idx'[w] = idx[w] + 1
        /\ cnt'[w] = (IF owner[idx[w]] # NoPid THEN cnt[w] + 1 ELSE cnt[w])
    BY <1>2 DEF Count, At, shared, TypeOK, Slots
  <2>2. Reserved' = Reserved BY <2>1 DEF Reserved
  <2>3. RoomLeft' /\ AdmissionBound' /\ SlotIsFound'
    <3>1. RoomLeft' /\ AdmissionBound'
      BY <2>1, <2>2 DEF Bound, RoomLeft, AdmissionBound
    <3>2. \A v \in Workers : pc'[v] # "reserve"
      BY <1>2, <2>1, OneAdmits DEF Count, At, Holding
    <3>3. QED BY <3>1, <3>2 DEF SlotIsFound
  <2>4. Cardinality(Taken(idx[w])) <= cnt[w] /\ Cardinality(Taken(idx[w])) \in Nat
        /\ cnt[w] \in Nat /\ Taken(idx[w]) \in SUBSET Slots
    <3>1. Taken(idx[w]) \in SUBSET Slots BY DEF Taken
    <3>2. QED BY <1>2, <3>1, SlotCounts DEF Count, At, Bound, CountCovers, TypeOK
  <2>5. Cardinality(Taken(idx[w])') <= cnt'[w]
    <3>1. CASE owner[idx[w]] # NoPid
      <4>1. Taken(idx[w])' = Taken(idx[w]) \cup {idx[w]} BY <2>1, <3>1 DEF Taken, Slots
      <4>2. Cardinality(Taken(idx[w]) \cup {idx[w]}) <= Cardinality(Taken(idx[w])) + 1
        BY <2>1, <2>4, SlotCounts
      <4>3. Cardinality(Taken(idx[w])') \in Nat BY SlotCounts DEF Taken
      <4>4. QED BY <2>1, <2>4, <3>1, <4>1, <4>2, <4>3
    <3>2. CASE owner[idx[w]] = NoPid
      <4>1. Taken(idx[w])' = Taken(idx[w]) BY <2>1, <3>2 DEF Taken, Slots
      <4>2. QED BY <2>1, <2>4, <3>2, <4>1
    <3>3. QED BY <3>1, <3>2
  <2>6. \A v \in Workers \ {w} : pc'[v] # "count"
    BY <1>2, <2>1, OneAdmits DEF Count, At, Holding
  <2>7. QED BY <2>3, <2>5, <2>6 DEF Bound, CountCovers
<1>3. CASE Counted(w)
  <2>1. UNCHANGED owner /\ pc'[w] # "count"
        /\ \A v \in Workers \ {w} : pc'[v] # "count" /\ pc'[v] # "reserve"
    BY <1>3, OneAdmits DEF Counted, At, Goto, Holding, shared, TypeOK
  <2>2. Reserved' = Reserved BY <2>1 DEF Reserved
  <2>3. Taken(idx[w]) = Reserved BY <1>3 DEF Counted, Taken, Reserved, Slots
  <2>4. Cardinality(Reserved) <= cnt[w] /\ cnt[w] \in Nat /\ Cardinality(Reserved) \in Nat
    <3>1. Cardinality(Reserved) \in Nat BY SlotCounts DEF Reserved
    <3>2. QED BY <1>3, <2>3, <3>1 DEF Counted, At, Bound, CountCovers, TypeOK
  <2>5. pc'[w] = "reserve" => cnt[w] < MaxClients
    BY <1>3 DEF Counted, Goto, Available, TypeOK
  <2>6. pc'[w] = "reserve" => \E s \in Slots : s >= idx'[w] /\ owner'[s] = NoPid
    <3>1. ASSUME \A s \in Slots : owner[s] # NoPid
          PROVE  Cardinality(Reserved) = NSlots
      <4>1. Reserved = 0 .. (NSlots - 1) BY <3>1 DEF Reserved, Slots
      <4>2. Cardinality(0 .. (NSlots - 1)) = NSlots BY FS_Interval
      <4>3. QED BY <4>1, <4>2
    <3>2. idx'[w] = 0 BY <1>3 DEF Counted, TypeOK
    <3>3. QED BY <2>1, <2>4, <2>5, <3>1, <3>2 DEF Slots
  <2>7. SlotIsFound' BY <2>1, <2>6 DEF SlotIsFound
  <2>8. QED BY <2>1, <2>2, <2>4, <2>5, <2>7 DEF Bound, CountCovers, RoomLeft, AdmissionBound
<1>4. CASE Lock(w)
  <2>1. UNCHANGED owner /\ idx'[w] = 0
    BY <1>4 DEF Lock, At, Local, Indexing, Reading, local, TypeOK
  <2>2. Reserved' = Reserved BY <2>1 DEF Reserved
  <2>3. Cardinality(Taken(idx[w])') = 0
    <3>1. Taken(idx[w])' = {} BY <2>1 DEF Taken, Slots
    <3>2. QED BY <3>1, FS_EmptySet
  <2>4. \A v \in Workers \ {w} : pc'[v] # "count" /\ pc'[v] # "reserve"
    <3>1. lock = NoPid BY <1>4 DEF Lock
    <3>2. QED BY <3>1 DEF Frame, Control, Local, Holding
  <2>5. pc'[w] = "count" /\ cnt'[w] \in Nat BY <1>4 DEF Lock, Goto, local, TypeOK
  <2>6. QED BY <2>2, <2>3, <2>4, <2>5 DEF Bound, CountCovers, RoomLeft, AdmissionBound, SlotIsFound
<1>5. CASE ~(Reserve(w) \/ Count(w) \/ Counted(w) \/ Lock(w))
  <2>1. TakesNone /\ pc'[w] # "count" /\ pc'[w] # "reserve"
    BY <1>5, TakesNoSlot
  <2>2. QED BY <2>1, BoundKept DEF Frame
<1>6. QED BY <1>1, <1>2, <1>3, <1>4, <1>5

\* So does the supervisor.
LEMMA SupervisorBound ==
  ASSUME IInv, Supervise
  PROVE  Bound'
<1> USE ClientSlotsAssumption
<1> TypeOK /\ Control /\ Bound
  BY DEF IInv
<1>1. CASE ReapSlot
  <2>1. TakesNone BY <1>1 DEF ReapSlot, TakesNone, TypeOK
  <2>2. UNCHANGED <<pc, idx, cnt>> BY <1>1 DEF ReapSlot, local
  <2>3. QED BY <2>1, <2>2, BoundKept
<1>2. CASE ReapLock
  <2>1. UNCHANGED <<owner, idx, cnt>> BY <1>2 DEF ReapLock, local
  <2>2. \A v \in Workers : pc'[v] \in {"count", "reserve"} => pc'[v] = pc[v]
    BY <1>2 DEF ReapLock, Goto, TypeOK
  <2>3. QED BY <2>1, <2>2, BoundKept DEF TakesNone
<1>3. ASSUME NEW w \in Workers, Waitpid(w) \/ Spawn(w)
      PROVE  Bound'
  <2>1. UNCHANGED <<owner, idx, cnt>> BY <1>3 DEF Waitpid, Spawn, local, shared
  <2>2. \A v \in Workers : pc'[v] \in {"count", "reserve"} => pc'[v] = pc[v]
    BY <1>3 DEF Waitpid, Spawn, Goto, TypeOK
  <2>3. QED BY <2>1, <2>2, BoundKept DEF TakesNone
<1>4. QED BY <1>1, <1>2, <1>3 DEF Supervise

-----------------------------------------------------------------------------
\* status_init establishes the invariant.
LEMMA InitIInv ==
  ASSUME Init
  PROVE  IInv
<1> USE ClientSlotsAssumption
<1>1. TypeOK
  <2>1. \A s \in Slots : slots[s] \in SlotRecord BY DEF Init, SlotRecord, NoClient
  <2>2. slots \in [Slots -> SlotRecord] BY <2>1 DEF Init
  <2>3. hist \in History /\ reaping \in [worker : Workers \cup {NoPid}, slot : 0 .. NSlots]
    BY DEF Init, History, NoWorker
  <2>4. job \in [Workers -> Job] BY NoJobType DEF Init
  <2>5. /\ pid \in [Workers -> Pids \cup {NoPid}] /\ pc \in [Workers -> Labels]
        /\ idx \in [Workers -> 0 .. NSlots] /\ cnt \in [Workers -> Nat] /\ cur \in [Workers -> Slots]
        /\ conns \in [Workers -> SUBSET Slots] /\ pipe \in [Workers -> BOOLEAN]
    BY DEF Init, Labels, Slots
  <2>6. \A w \in Workers : pc[w] \notin Reading BY DEF Init, Reading
  <2>7. QED BY <2>2, <2>3, <2>4, <2>5, <2>6 DEF Init, TypeOK
<1>2. Control
  BY DEF Init, Control, PidsDistinct, ReapsTheDead, Local, Owns, Holding, Indexing, Reading, Working
<1>3. Bound
  <2>1. Reserved = {} BY DEF Init, Reserved
  <2>2. Cardinality(Reserved) = 0 BY <2>1, FS_EmptySet
  <2>3. QED BY <2>2 DEF Init, Bound, CountCovers, RoomLeft, AdmissionBound, SlotIsFound
<1>4. QED BY <1>1, <1>2, <1>3 DEF IInv

\* Every step keeps it.
LEMMA StepIInv ==
  ASSUME IInv, [Next]_vars
  PROVE  IInv'
<1>1. CASE Supervise
  BY <1>1, SupervisorTypes, SupervisorControl, SupervisorBound DEF IInv
<1>2. ASSUME NEW w \in Workers, Step(w) \/ Outside(w)
      PROVE  IInv'
  BY <1>2, WorkerTypes, WorkerControl, WorkerBound DEF IInv
<1>3. CASE UNCHANGED vars
  BY <1>3 DEF vars, IInv, TypeOK, Control, PidsDistinct, ReapsTheDead, Local, Owns,
     Bound, CountCovers, Taken, RoomLeft, AdmissionBound, SlotIsFound, Reserved
<1>4. QED BY <1>1, <1>2, <1>3 DEF Next

\* The inductive invariant holds in every reachable state.
THEOREM Invariance == Spec => []IInv
BY InitIInv, StepIInv, PTL DEF Spec

\* The shared slots and all process-local indexes keep their types: no loop of
\* any worker or of the supervisor reads or writes past the last slot.
THEOREM TypesKept == Spec => []TypeOK
BY Invariance, PTL DEF IInv

\* status_register_client never admits more than maxclients clients, however
\* many workers register at once and whichever of them are killed.
THEOREM AdmissionIsBounded == Spec => []AdmissionBound
<1>1. IInv => AdmissionBound BY DEF IInv, Bound
<1>2. QED BY <1>1, Invariance, PTL

\* status_register_client finds a slot for every client it lets in: the capacity
\* check leaves one free, and while the lock is held nobody else takes it.
THEOREM AdmittedFindsSlot == Spec => []SlotIsFound
<1>1. IInv => SlotIsFound BY DEF IInv, Bound
<1>2. QED BY <1>1, Invariance, PTL

\* Every slot a worker writes is its own: status_reap_worker and the other
\* workers keep off it until its owner frees it or is dead.
THEOREM SlotOwnership == Spec => []SlotsAreOwned
<1>1. IInv => SlotsAreOwned BY DEF IInv, Control, Local, Owns, SlotsAreOwned
<1>2. QED BY <1>1, Invariance, PTL
-----------------------------------------------------------------------------
(* Reads of the shared slots without a lock *)

Named == {"lock", "count", "reserve", "unlock", "reset", "number", "fill"}
Hidden == {"unlock", "reset", "number", "fill", "publish", "account", "clear", "free"}
Blank == {"unlock", "reset", "number", "fill", "free"}
HasGeneration == {"copy", "copy2", "check", "compare", "store", "found", "trigger"}
HasId == {"copy2", "check", "compare", "store"}

\* A free slot is empty, a published one is not, and no request for a slot is of
\* a client that is still to come.
SlotFacts == \A s \in Slots :
  /\ owner[s] = NoPid => ~slots[s].active /\ slots[s].id = NoClient /\ slots[s].bytes_sent = 0
  /\ slots[s].active => slots[s].id # NoClient
  /\ slots[s].disconnect_requested <= slots[s].generation

\* The slot a worker registers or frees, step by step.
WorkerFacts(w) ==
  /\ pc[w] \in Named => job[w].client # NoClient
  /\ pc[w] \in Hidden => ~slots[cur[w]].active
  /\ pc[w] \in Blank => slots[cur[w]].id = NoClient
  /\ pc[w] \in Blank \cup {"publish"} => slots[cur[w]].bytes_sent = 0
  /\ pc[w] = "publish" => slots[cur[w]].id # NoClient

\* No worker is about to write the name of a client into slot s.
Settled(s) == \A w \in Workers : pc[w] = "fill" => cur[w] # s

\* What handle_disconnect_client has read of a slot: a name it read under the
\* slot's number of today is still the name in the slot, or the slot is empty.
ReaderFacts(w) ==
  /\ pc[w] \in Reading => job[w].client # NoClient /\ job[w].client \in hist.asked
  /\ pc[w] \in HasGeneration => job[w].generation <= slots[idx[w]].generation
  /\ (pc[w] \in HasId /\ job[w].id # NoClient /\ job[w].generation = slots[idx[w]].generation)
        => slots[idx[w]].id \in {NoClient, job[w].id} /\ Settled(idx[w])
  /\ pc[w] = "store" => job[w].id = job[w].client

\* A request with the number of today is for a client somebody asked for.
RequestFacts == \A s \in Slots :
  (slots[s].disconnect_requested # 0 /\ slots[s].disconnect_requested = slots[s].generation)
     => (slots[s].id = NoClient \/ slots[s].id \in hist.asked) /\ Settled(s)

Facts == SlotFacts /\ (\A w \in Workers : WorkerFacts(w)) /\ (\A w \in Workers : ReaderFacts(w))
         /\ RequestFacts /\ OnlyRequestedClosed

\* What a step may do to the slots: a name changes only under a new number or at
\* "fill", which is reached only with a new number.
SlotEffect == \A s \in Slots :
  /\ slots'[s].generation >= slots[s].generation
  /\ slots'[s].generation = slots[s].generation =>
       /\ slots'[s].id \in {NoClient, slots[s].id} \/ ~Settled(s)
       /\ Settled(s) => Settled(s)'

SamePayload(s) ==
  /\ slots'[s].active = slots[s].active
  /\ slots'[s].id = slots[s].id
  /\ slots'[s].bytes_sent = slots[s].bytes_sent

\* Types of the fields of a slot and of a job.
LEMMA FieldTypes ==
  ASSUME TypeOK
  PROVE  /\ \A s \in Slots :
              /\ slots[s].active \in BOOLEAN /\ slots[s].generation \in Nat
              /\ slots[s].disconnect_requested \in Nat /\ slots[s].id \in Nat
              /\ slots[s].bytes_sent \in Nat
         /\ \A w \in Workers : /\ job[w].client \in Nat /\ job[w].generation \in Nat
                               /\ job[w].id \in Nat
         /\ hist.starts \in Nat /\ hist.sent \in Nat /\ counted \in Nat
         /\ DOMAIN slots = Slots /\ DOMAIN job = Workers
<1>1. \A s \in Slots : slots[s] \in SlotRecord BY DEF TypeOK
<1>2. \A w \in Workers : job[w] \in Job BY DEF TypeOK
<1>3. hist \in History /\ counted \in Nat BY DEF TypeOK
<1>4. QED BY <1>1, <1>2, <1>3 DEF SlotRecord, Job, History, TypeOK

\* The same of the next state.
LEMMA PrimedTypes ==
  ASSUME TypeOK'
  PROVE  /\ \A s \in Slots :
              /\ slots'[s].active \in BOOLEAN /\ slots'[s].generation \in Nat
              /\ slots'[s].disconnect_requested \in Nat /\ slots'[s].id \in Nat
              /\ slots'[s].bytes_sent \in Nat
         /\ DOMAIN slots' = Slots
<1>1. \A s \in Slots : slots'[s] \in SlotRecord BY DEF TypeOK, Slots, SlotRecord
<1>2. DOMAIN slots' = Slots BY DEF TypeOK, Slots
<1>3. QED BY <1>1, <1>2 DEF SlotRecord

\* Nobody else works on a slot of worker w.
LEMMA OwnSlot ==
  ASSUME Control, NEW v \in Workers, NEW w \in Workers, v # w, NEW s \in Slots,
         pc[v] \in Working, pc[w] # "down", owner[s] = pid[w]
  PROVE  cur[v] # s
<1>1. Local(v) /\ Local(w) BY DEF Control
<1>2. pid[w] # NoPid /\ pid[v] # pid[w] BY <1>1 DEF Control, PidsDistinct, Local
<1>3. owner[cur[v]] = pid[v] BY <1>1 DEF Local, Owns, Working
<1>4. QED BY <1>2, <1>3

\* A reader that does not move keeps what it knows.
LEMMA ReaderStays ==
  ASSUME TypeOK, TypeOK', SlotEffect, NEW v \in Workers, ReaderFacts(v),
         pc'[v] = pc[v], idx'[v] = idx[v], job'[v] = job[v], hist.asked \subseteq hist'.asked
  PROVE  ReaderFacts(v)'
<1>1. pc[v] \in Reading => idx[v] \in Slots BY DEF TypeOK
<1>2. pc[v] \in HasGeneration \cup HasId => pc[v] \in Reading /\ pc[v] \in HasGeneration
  BY DEF HasGeneration, HasId, Reading
<1>3. ASSUME pc[v] \in HasGeneration
      PROVE  /\ job[v].generation <= slots'[idx[v]].generation
             /\ job[v].generation = slots'[idx[v]].generation =>
                  /\ job[v].generation = slots[idx[v]].generation
                  /\ slots'[idx[v]].generation = slots[idx[v]].generation
  <2>1. idx[v] \in Slots /\ job[v].generation <= slots[idx[v]].generation
    BY <1>1, <1>2, <1>3 DEF ReaderFacts
  <2>2. slots'[idx[v]].generation >= slots[idx[v]].generation
    BY <2>1 DEF SlotEffect
  <2>3. job[v].generation \in Nat /\ slots[idx[v]].generation \in Nat /\ slots'[idx[v]].generation \in Nat
    BY <2>1, FieldTypes, PrimedTypes
  <2> QED BY <2>1, <2>2, <2>3
<1>4. ASSUME pc[v] \in HasId, job[v].id # NoClient, job[v].generation = slots'[idx[v]].generation
      PROVE  slots'[idx[v]].id \in {NoClient, job[v].id} /\ Settled(idx[v])'
  <2>1. idx[v] \in Slots BY <1>1, <1>2, <1>4
  <2>2. /\ job[v].generation = slots[idx[v]].generation
        /\ slots'[idx[v]].generation = slots[idx[v]].generation
    BY <1>2, <1>3, <1>4
  <2>3. slots[idx[v]].id \in {NoClient, job[v].id} /\ Settled(idx[v])
    BY <1>4, <2>2 DEF ReaderFacts
  <2>4. \A s \in Slots : (slots'[s].generation = slots[s].generation /\ Settled(s)) =>
           slots'[s].id \in {NoClient, slots[s].id} /\ Settled(s)'
    BY DEF SlotEffect
  <2>5. slots'[idx[v]].id \in {NoClient, slots[idx[v]].id} /\ Settled(idx[v])'
    <3> DEFINE i == idx[v]
    <3> HIDE DEF i
    <3>1. i \in Slots /\ slots'[i].generation = slots[i].generation /\ Settled(i)
      BY <2>1, <2>2, <2>3 DEF i
    <3>2. slots'[i].id \in {NoClient, slots[i].id} /\ \A w \in Workers : pc'[w] = "fill" => cur'[w] # i
      BY <2>4, <3>1 DEF Settled
    <3> QED BY <3>2 DEF i, Settled
  <2> QED BY <2>3, <2>5
<1>5. pc[v] \in Reading => job[v].client # NoClient /\ job[v].client \in hist'.asked
  BY DEF ReaderFacts
<1>6. pc[v] = "store" => job[v].id = job[v].client BY DEF ReaderFacts
<1> QED BY <1>3, <1>4, <1>5, <1>6 DEF ReaderFacts, Settled

\* Requests that are only withdrawn stay right.
LEMMA RequestsStay ==
  ASSUME TypeOK, TypeOK', SlotEffect, SlotFacts, RequestFacts, hist.asked \subseteq hist'.asked,
         \A s \in Slots : slots'[s].disconnect_requested \in {0, slots[s].disconnect_requested}
  PROVE  RequestFacts'
<1> SUFFICES ASSUME NEW s \in Slots, slots'[s].disconnect_requested # 0,
                    slots'[s].disconnect_requested = slots'[s].generation
             PROVE  (slots'[s].id = NoClient \/ slots'[s].id \in hist'.asked) /\ Settled(s)'
  BY DEF RequestFacts
<1>1. slots[s].disconnect_requested = slots'[s].disconnect_requested
  OBVIOUS
<1>2. slots[s].disconnect_requested <= slots[s].generation
  BY DEF SlotFacts
<1>3. slots'[s].generation >= slots[s].generation BY DEF SlotEffect
<1>4. slots[s].generation \in Nat /\ slots'[s].generation \in Nat /\ slots[s].disconnect_requested \in Nat
  BY FieldTypes, PrimedTypes
<1>5. slots'[s].generation = slots[s].generation /\ slots[s].disconnect_requested = slots[s].generation
  BY <1>1, <1>2, <1>3, <1>4
<1>6. (slots[s].id = NoClient \/ slots[s].id \in hist.asked) /\ Settled(s)
  BY <1>1, <1>5 DEF RequestFacts
<1>7. slots'[s].id \in {NoClient, slots[s].id} /\ Settled(s)'
  BY <1>5, <1>6 DEF SlotEffect
<1> QED BY <1>6, <1>7

\* A worker that does not move, and whose slot nobody touches, keeps its facts.
LEMMA WorkerStays ==
  ASSUME NEW v \in Workers, WorkerFacts(v), pc'[v] = pc[v], cur'[v] = cur[v], job'[v] = job[v],
         pc[v] \in Working => SamePayload(cur[v])
  PROVE  WorkerFacts(v)'
<1>1. pc[v] \in Hidden \cup Blank \cup {"publish"} => pc[v] \in Working
  BY DEF Hidden, Blank, Working
<1> QED BY <1>1 DEF WorkerFacts, SamePayload, Hidden, Blank

\* What a worker reads and whom it looks for is its own affair; only a scan
\* closes clients, only an update sends bytes, only Account counts them.
LEMMA OthersKept ==
  ASSUME TypeOK, NEW w \in Workers, Step(w) \/ Outside(w)
  PROVE  /\ \A v \in Workers \ {w} : job'[v] = job[v]
         /\ hist.asked \subseteq hist'.asked
         /\ ~Scan(w) => hist'.closed = hist.closed
         /\ ~WriteBytes(w) => hist'.sent = hist.sent
         /\ ~Account(w) => counted' = counted
<1> {"asked", "closed", "sent"} \subseteq DOMAIN hist /\ DOMAIN job = Workers
  BY DEF TypeOK, History
<1> USE DEF Return, local, shared
<1>1. CASE Lock(w) BY <1>1 DEF Lock
<1>2. CASE Count(w) BY <1>2 DEF Count
<1>3. CASE Counted(w) BY <1>3 DEF Counted
<1>4. CASE Refuse(w) BY <1>4 DEF Refuse
<1>5. CASE Reserve(w) BY <1>5 DEF Reserve
<1>6. CASE Unlock(w) BY <1>6 DEF Unlock
<1>7. CASE ResetSlot(w) BY <1>7 DEF ResetSlot
<1>8. CASE Number(w) BY <1>8 DEF Number
<1>9. CASE Fill(w) BY <1>9 DEF Fill
<1>10. CASE Publish(w) BY <1>10 DEF Publish
<1>11. CASE WriteBytes(w) BY <1>11 DEF WriteBytes
<1>12. CASE WriteBandwidth(w) BY <1>12 DEF WriteBandwidth
<1>13. CASE WriteEnd(w) BY <1>13 DEF WriteEnd
<1>14. CASE Account(w) BY <1>14 DEF Account
<1>15. CASE Clear(w) BY <1>15 DEF Clear
<1>16. CASE Free(w) BY <1>16 DEF Free
<1>17. CASE ReadActive(w) BY <1>17 DEF ReadActive, NextSlot
<1>18. CASE ReadVersion(w) BY <1>18 DEF ReadVersion, Retry, NextSlot
<1>19. CASE ReadGeneration(w) BY <1>19 DEF ReadGeneration
<1>20. CASE Copy(w) BY <1>20 DEF Copy
<1>21. CASE CopyRest(w) BY <1>21 DEF CopyRest
<1>22. CASE Check(w) BY <1>22 DEF Check, Retry, NextSlot
<1>23. CASE Compare(w) BY <1>23 DEF Compare, NextSlot
<1>24. CASE StoreRequest(w) BY <1>24 DEF StoreRequest
<1>25. CASE Found(w) BY <1>25 DEF Found, NextSlot
<1>26. CASE Trigger(w) BY <1>26 DEF Trigger
<1>27. CASE ReadPipe(w) BY <1>27 DEF ReadPipe
<1>28. CASE Scan(w) BY <1>28 DEF Scan, Unregister
<1>29. CASE Register(w) BY <1>29 DEF Register
<1>30. CASE WriteBegin(w) BY <1>30 DEF WriteBegin
<1>31. CASE ClientLeaves(w) BY <1>31 DEF ClientLeaves, Unregister
<1>32. CASE Request(w) BY <1>32 DEF Request
<1>33. CASE Crash(w) BY <1>33 DEF Crash
<1> QED BY <1>1, <1>2, <1>3, <1>4, <1>5, <1>6, <1>7, <1>8, <1>9, <1>10, <1>11, <1>12,
     <1>13, <1>14, <1>15, <1>16, <1>17, <1>18, <1>19, <1>20, <1>21, <1>22, <1>23, <1>24,
     <1>25, <1>26, <1>27, <1>28, <1>29, <1>30, <1>31, <1>32, <1>33
  DEF Step, Outside

Writes(w) ==
  \/ ResetSlot(w) \/ Number(w) \/ Fill(w) \/ Publish(w) \/ Clear(w)
  \/ WriteBegin(w) \/ WriteBytes(w) \/ WriteBandwidth(w) \/ WriteEnd(w)
  \/ StoreRequest(w) \/ ClientLeaves(w) \/ Scan(w)

\* All other steps leave the slots alone.
LEMMA WritesNothing ==
  ASSUME TypeOK, NEW w \in Workers, Step(w) \/ Outside(w), ~Writes(w)
  PROVE  /\ UNCHANGED slots /\ pc'[w] # "fill" /\ pc'[w] # "account"
         /\ Reserve(w) \/ Free(w) \/ UNCHANGED owner
<1> USE DEF Goto, shared, TypeOK, At
<1>1. CASE Lock(w) BY <1>1 DEF Lock
<1>2. CASE Count(w) BY <1>2 DEF Count
<1>3. CASE Counted(w) BY <1>3 DEF Counted
<1>4. CASE Refuse(w) BY <1>4 DEF Refuse
<1>5. CASE Reserve(w) BY <1>5 DEF Reserve
<1>6. CASE Unlock(w) BY <1>6 DEF Unlock
<1>7. CASE Account(w) BY <1>7 DEF Account
<1>8. CASE Free(w) BY <1>8 DEF Free
<1>9. CASE ReadActive(w) BY <1>9 DEF ReadActive, NextSlot
<1>10. CASE ReadVersion(w) BY <1>10 DEF ReadVersion, Retry, NextSlot
<1>11. CASE ReadGeneration(w) BY <1>11 DEF ReadGeneration
<1>12. CASE Copy(w) BY <1>12 DEF Copy
<1>13. CASE CopyRest(w) BY <1>13 DEF CopyRest
<1>14. CASE Check(w) BY <1>14 DEF Check, Retry, NextSlot
<1>15. CASE Compare(w) BY <1>15 DEF Compare, NextSlot
<1>16. CASE Found(w) BY <1>16 DEF Found, NextSlot
<1>17. CASE Trigger(w) BY <1>17 DEF Trigger
<1>18. CASE ReadPipe(w) BY <1>18 DEF ReadPipe
<1>19. CASE Register(w) BY <1>19 DEF Register
<1>20. CASE Request(w) BY <1>20 DEF Request
<1>21. CASE Crash(w) BY <1>21 DEF Crash
<1> QED BY <1>1, <1>2, <1>3, <1>4, <1>5, <1>6, <1>7, <1>8, <1>9, <1>10, <1>11, <1>12,
     <1>13, <1>14, <1>15, <1>16, <1>17, <1>18, <1>19, <1>20, <1>21
  DEF Step, Outside, Writes

\* Only these labels say something about the slot or the snapshot of a worker.
LEMMA Quiet ==
  ASSUME NEW w \in Workers
  PROVE  /\ pc[w] \notin Named \cup Hidden => WorkerFacts(w)
         /\ pc[w] \notin Reading => ReaderFacts(w)
         /\ (pc[w] \in Reading \ HasGeneration /\ job[w].client # NoClient /\ job[w].client \in hist.asked)
              => ReaderFacts(w)
<1>1. Blank \cup {"publish"} \subseteq Hidden /\ HasId \subseteq HasGeneration
      /\ HasGeneration \subseteq Reading /\ "store" \in HasGeneration
  BY DEF Blank, Hidden, HasId, HasGeneration, Reading
<1> QED BY <1>1 DEF WorkerFacts, ReaderFacts

\* Fields of a job with one other set.
LEMMA JobEdits ==
  ASSUME NEW j \in Job, NEW n \in Nat
  PROVE  /\ [j EXCEPT !.client = n].client = n
         /\ [j EXCEPT !.tries = n].client = j.client
         /\ [j EXCEPT !.version = n].client = j.client
         /\ [j EXCEPT !.generation = n].client = j.client
         /\ [j EXCEPT !.generation = n].generation = n
         /\ [j EXCEPT !.current_bandwidth = n].client = j.client
         /\ [j EXCEPT !.current_bandwidth = n].id = j.id
         /\ [j EXCEPT !.current_bandwidth = n].generation = j.generation
         /\ [NoJob EXCEPT !.client = n].client = n
BY DEF Job, NoJob

\* A worker that registers a client, and does not write the slot in this step.
LEMMA RegisterMoves ==
  ASSUME TypeOK, Control, SlotFacts, NEW w \in Workers, WorkerFacts(w),
         Register(w) \/ Lock(w) \/ Count(w) \/ Counted(w) \/ Refuse(w) \/ Reserve(w) \/ Unlock(w)
         \/ Account(w) \/ Free(w)
  PROVE  WorkerFacts(w)' /\ pc'[w] \notin Reading
<1> USE DEF At, Goto, shared, local
<1>0. pc \in [Workers -> Labels] /\ job \in [Workers -> Job] /\ cur \in [Workers -> Slots]
      /\ idx \in [Workers -> 0 .. NSlots]
  BY DEF TypeOK
<1>1. CASE Register(w)
  <2>1. job'[w] = [job[w] EXCEPT !.client = hist.starts + 1] /\ pc'[w] = "lock"
    BY <1>0, <1>1 DEF Register
  <2>2. job'[w].client = hist.starts + 1 /\ hist.starts + 1 \in Nat /\ hist.starts + 1 # 0
    BY <1>0, <2>1, FieldTypes, JobEdits
  <2> QED BY <2>1, <2>2 DEF WorkerFacts, Hidden, Blank, NoClient, Reading
<1>2. CASE Lock(w)
  <2>1. pc[w] = "lock" /\ pc'[w] = "count" /\ UNCHANGED job
    BY <1>0, <1>2 DEF Lock
  <2> QED BY <2>1 DEF WorkerFacts, Named, Hidden, Blank, Reading
<1>3. CASE Count(w)
  <2>1. pc[w] = "count" /\ UNCHANGED <<pc, job>> BY <1>3 DEF Count
  <2> QED BY <2>1 DEF WorkerFacts, Named, Hidden, Blank, Reading
<1>4. CASE Counted(w)
  <2>1. pc[w] = "count" /\ pc'[w] \in {"reserve", "refuse"} /\ UNCHANGED job
    BY <1>0, <1>4 DEF Counted
  <2> QED BY <2>1 DEF WorkerFacts, Named, Hidden, Blank, Reading
<1>5. CASE Refuse(w)
  <2>1. pc'[w] = "idle" BY <1>0, <1>5 DEF Refuse
  <2> QED BY <2>1 DEF WorkerFacts, Named, Hidden, Blank, Reading
<1>6. CASE Reserve(w)
  <2>1. pc[w] = "reserve" /\ idx[w] \in Slots /\ UNCHANGED <<job, slots>>
    BY <1>0, <1>6, ClientSlotsAssumption DEF Reserve, Slots
  <2>2. CASE owner[idx[w]] = NoPid
    <3>1. pc'[w] = "unlock" /\ cur'[w] = idx[w] BY <1>0, <1>6, <2>2 DEF Reserve
    <3>2. ~slots[idx[w]].active /\ slots[idx[w]].id = NoClient /\ slots[idx[w]].bytes_sent = 0
      BY <2>1, <2>2 DEF SlotFacts
    <3> QED BY <2>1, <3>1, <3>2 DEF WorkerFacts, Named, Hidden, Blank, Reading
  <2>3. CASE owner[idx[w]] # NoPid
    <3>1. pc'[w] = "reserve" BY <1>6, <2>1, <2>3 DEF Reserve
    <3> QED BY <2>1, <3>1 DEF WorkerFacts, Named, Hidden, Blank, Reading
  <2> QED BY <2>2, <2>3
<1>7. CASE Unlock(w)
  <2>1. pc[w] = "unlock" /\ pc'[w] = "reset" /\ UNCHANGED <<job, cur, slots>>
    BY <1>0, <1>7 DEF Unlock
  <2> QED BY <2>1 DEF WorkerFacts, Named, Hidden, Blank, Reading
<1>8. CASE Account(w)
  <2>1. pc[w] = "account" /\ pc'[w] = "clear" /\ UNCHANGED <<job, cur, slots>>
    BY <1>0, <1>8 DEF Account
  <2> QED BY <2>1 DEF WorkerFacts, Named, Hidden, Blank, Reading
<1>9. CASE Free(w)
  <2>1. pc'[w] \in {"scan", "idle"} BY <1>0, <1>9 DEF Free
  <2> QED BY <2>1 DEF WorkerFacts, Named, Hidden, Blank, Reading
<1> QED BY <1>1, <1>2, <1>3, <1>4, <1>5, <1>6, <1>7, <1>8, <1>9

\* A search that goes on looks for the same client; one that ends is over.
LEMMA SearchGoesOn ==
  ASSUME TypeOK, NEW w \in Workers, NextSlot(w) \/ Retry(w)
  PROVE  /\ pc'[w] \in {"idle", "active"}
         /\ pc'[w] = "active" => job'[w].client = job[w].client
<1>1. job[w] \in Job /\ job \in [Workers -> Job] /\ pc \in [Workers -> Labels] /\ job[w].tries + 1 \in Nat
      /\ job[w].client \in Nat
  BY JobFields DEF TypeOK
<1>2. CASE NextSlot(w)
  <2>1. CASE LastSlot(w) BY <1>1, <1>2, <2>1 DEF NextSlot, Goto
  <2>2. CASE ~LastSlot(w)
    <3>1. job'[w] = [NoJob EXCEPT !.client = job[w].client] /\ pc'[w] = "active"
      BY <1>1, <1>2, <2>2 DEF NextSlot, Goto
    <3> QED BY <1>1, <3>1, JobEdits
  <2> QED BY <2>1, <2>2
<1>3. CASE Retry(w) /\ ~NextSlot(w)
  <2>1. job'[w] = [job[w] EXCEPT !.tries = job[w].tries + 1] /\ pc'[w] = "active"
    BY <1>1, <1>3 DEF Retry, Goto
  <2> QED BY <1>1, <2>1, JobEdits
<1> QED BY <1>2, <1>3

\* A reader's next access of shared memory.
LEMMA ReaderMoves ==
  ASSUME TypeOK, NEW w \in Workers, ReaderFacts(w), \A v \in Workers : WorkerFacts(v),
         Request(w) \/ ReadActive(w) \/ ReadVersion(w) \/ ReadGeneration(w) \/ Copy(w)
         \/ CopyRest(w) \/ Check(w) \/ Compare(w) \/ Found(w) \/ Trigger(w)
  PROVE  ReaderFacts(w)' /\ pc'[w] \notin Named \cup Hidden
<1> USE DEF At, Goto, shared
<1>0. /\ pc \in [Workers -> Labels] /\ job \in [Workers -> Job] /\ cur \in [Workers -> Slots]
      /\ idx \in [Workers -> 0 .. NSlots] /\ job[w] \in Job /\ hist \in History
      /\ pc[w] \in Reading => idx[w] \in Slots
  BY DEF TypeOK
<1>a. ASSUME pc'[w] \in {"idle", "active", "version", "generation", "trigger"},
             pc'[w] # "idle" => job'[w].client # NoClient /\ job'[w].client \in hist'.asked,
             pc'[w] # "trigger"
      PROVE  ReaderFacts(w)' /\ pc'[w] \notin Named \cup Hidden
  BY <1>a DEF ReaderFacts, HasGeneration, HasId, Reading, Named, Hidden
<1>b. ASSUME pc[w] \in Reading
      PROVE  job[w].client # NoClient /\ job[w].client \in hist.asked
  BY <1>b DEF ReaderFacts
<1>c. ASSUME NextSlot(w) \/ Retry(w), pc[w] \in Reading, UNCHANGED hist
      PROVE  ReaderFacts(w)' /\ pc'[w] \notin Named \cup Hidden
  <2>1. pc'[w] \in {"idle", "active"} /\ (pc'[w] = "active" => job'[w].client = job[w].client)
    BY <1>c, SearchGoesOn
  <2> QED BY <1>a, <1>b, <1>c, <2>1
<1>1. CASE Request(w)
  <2>1. PICK c \in 1 .. hist.starts :
          /\ job' = [job EXCEPT ![w] = [NoJob EXCEPT !.client = c]]
          /\ hist' = [hist EXCEPT !.requests = @ + 1, !.asked = @ \cup {c}]
    BY <1>1 DEF Request
  <2>2. c \in Nat /\ c # 0 BY FieldTypes
  <2>3. job'[w].client = c BY <1>0, <2>1, <2>2, JobEdits
  <2>4. c \in hist'.asked BY <1>0, <2>1 DEF History
  <2>5. pc'[w] = "active" BY <1>0, <1>1 DEF Request
  <2> QED BY <1>a, <2>2, <2>3, <2>4, <2>5 DEF NoClient
<1>2. CASE ReadActive(w)
  <2>1. pc[w] \in Reading /\ UNCHANGED hist BY <1>2 DEF ReadActive, Reading
  <2>2. CASE slots[idx[w]].active
    <3>1. pc'[w] = "version" /\ UNCHANGED job BY <1>0, <1>2, <2>2 DEF ReadActive
    <3> QED BY <1>a, <1>b, <2>1, <3>1
  <2>3. CASE ~slots[idx[w]].active BY <1>2, <1>c, <2>1, <2>3 DEF ReadActive
  <2> QED BY <2>2, <2>3
<1>3. CASE ReadVersion(w)
  <2>1. pc[w] \in Reading /\ UNCHANGED hist BY <1>3 DEF ReadVersion, Reading
  <2>2. CASE slots[idx[w]].data_version % 2 = 0
    <3>1. pc'[w] = "generation" /\ job'[w] = [job[w] EXCEPT !.version = slots[idx[w]].data_version]
      BY <1>0, <1>3, <2>2 DEF ReadVersion
    <3>2. slots[idx[w]].data_version \in Nat BY <1>0, <2>1 DEF TypeOK, SlotRecord
    <3>3. job'[w].client = job[w].client BY <1>0, <3>1, <3>2, JobEdits
    <3> QED BY <1>a, <1>b, <2>1, <3>1, <3>3
  <2>3. CASE ~(slots[idx[w]].data_version % 2 = 0) BY <1>3, <1>c, <2>1, <2>3 DEF ReadVersion
  <2> QED BY <2>2, <2>3
<1>4. CASE ReadGeneration(w)
  <2>1. pc[w] \in Reading /\ UNCHANGED <<hist, slots, idx>> /\ pc'[w] = "copy"
    BY <1>0, <1>4 DEF ReadGeneration, Reading
  <2>2. job'[w] = [job[w] EXCEPT !.generation = slots[idx[w]].generation]
    BY <1>0, <1>4 DEF ReadGeneration
  <2>3. slots[idx[w]].generation \in Nat BY <1>0, <2>1, FieldTypes
  <2>4. job'[w].client = job[w].client /\ job'[w].generation = slots[idx[w]].generation
    BY <1>0, <2>2, <2>3, JobEdits
  <2> QED BY <1>b, <2>1, <2>3, <2>4 DEF ReaderFacts, HasGeneration, HasId, Reading, Named, Hidden
<1>5. CASE Copy(w)
  <2>1. pc[w] \in Reading /\ pc[w] \in HasGeneration /\ UNCHANGED <<hist, slots, idx, cur>> /\ pc'[w] = "copy2"
    BY <1>0, <1>5 DEF Copy, Reading, HasGeneration
  <2>2. job'[w] = [job[w] EXCEPT !.id = slots[idx[w]].id, !.bytes_sent = slots[idx[w]].bytes_sent]
    BY <1>0, <1>5 DEF Copy
  <2>3. job'[w].client = job[w].client /\ job'[w].generation = job[w].generation
        /\ job'[w].id = slots[idx[w]].id
    BY <1>0, <2>2 DEF Job
  <2>4. job[w].generation <= slots[idx[w]].generation BY <2>1 DEF ReaderFacts
  <2>5. slots[idx[w]].id # NoClient => Settled(idx[w])'
    <3>1. ASSUME slots[idx[w]].id # NoClient, NEW v \in Workers, pc'[v] = "fill"
          PROVE  cur'[v] # idx'[w]
      <4>1. pc[v] = "fill" BY <1>0, <1>5, <3>1 DEF Copy
      <4>2. slots[cur[v]].id = NoClient BY <4>1 DEF WorkerFacts, Blank
      <4> QED BY <2>1, <3>1, <4>2
    <3> QED BY <3>1 DEF Settled
  <2> QED BY <1>b, <2>1, <2>3, <2>4, <2>5 DEF ReaderFacts, HasGeneration, HasId, Reading, Named, Hidden
<1>d. ASSUME pc[w] \in HasId \ {"store"}, pc'[w] \in {"check", "compare", "store"},
             UNCHANGED <<slots, idx, cur, hist>>,
             job'[w].client = job[w].client, job'[w].id = job[w].id,
             job'[w].generation = job[w].generation, pc'[w] = "store" => job[w].id = job[w].client,
             \A v \in Workers \ {w} : pc'[v] = pc[v]
      PROVE  ReaderFacts(w)' /\ pc'[w] \notin Named \cup Hidden
  <2>1. Settled(idx[w]) => Settled(idx[w])' BY <1>d DEF Settled
  <2>2. pc[w] \in Reading /\ pc[w] \in HasGeneration /\ pc[w] \in HasId
    BY <1>d DEF HasId, HasGeneration, Reading
  <2>3. (job[w].id # NoClient /\ job[w].generation = slots[idx[w]].generation)
          => slots[idx[w]].id \in {NoClient, job[w].id} /\ Settled(idx[w])'
    BY <2>1, <2>2 DEF ReaderFacts
  <2>4. job[w].generation <= slots[idx[w]].generation BY <2>2 DEF ReaderFacts
  <2> QED BY <1>b, <1>d, <2>2, <2>3, <2>4 DEF ReaderFacts, Named, Hidden
<1>6. CASE CopyRest(w)
  <2>1. /\ pc[w] = "copy2" /\ pc'[w] = "check" /\ UNCHANGED <<slots, idx, cur, hist>>
        /\ job'[w] = [job[w] EXCEPT !.current_bandwidth = slots[idx[w]].current_bandwidth]
        /\ \A v \in Workers \ {w} : pc'[v] = pc[v]
    BY <1>0, <1>6 DEF CopyRest
  <2>2. slots[idx[w]].current_bandwidth \in Nat
    BY <1>0, <2>1 DEF TypeOK, SlotRecord, Reading
  <2>3. job'[w].client = job[w].client /\ job'[w].id = job[w].id /\ job'[w].generation = job[w].generation
    BY <1>0, <2>1, <2>2, JobEdits
  <2> QED BY <1>d, <2>1, <2>3 DEF HasId
<1>7. CASE Check(w)
  <2>1. pc[w] = "check" /\ UNCHANGED <<slots, cur, hist>> BY <1>7 DEF Check
  <2>2. CASE Unchanged(w)
    <3>1. pc'[w] = "compare" /\ UNCHANGED <<idx, job>> /\ \A v \in Workers \ {w} : pc'[v] = pc[v]
      BY <1>0, <1>7, <2>2 DEF Check
    <3> QED BY <1>d, <2>1, <3>1 DEF HasId
  <2>3. CASE ~Unchanged(w) BY <1>7, <1>c, <2>1, <2>3 DEF Check, Reading
  <2> QED BY <2>2, <2>3
<1>8. CASE Compare(w)
  <2>1. pc[w] = "compare" /\ UNCHANGED <<slots, cur, hist>>
    BY <1>8 DEF Compare
  <2>2. CASE job[w].id = job[w].client
    <3>1. pc'[w] = "store" /\ UNCHANGED <<idx, job>> /\ \A v \in Workers \ {w} : pc'[v] = pc[v]
      BY <1>0, <1>8, <2>2 DEF Compare
    <3> QED BY <1>d, <2>1, <2>2, <3>1 DEF HasId
  <2>3. CASE job[w].id # job[w].client BY <1>8, <1>c, <2>1, <2>3 DEF Compare, Reading
  <2> QED BY <2>2, <2>3
<1>9. CASE Found(w)
  <2>1. pc[w] = "found" /\ UNCHANGED <<slots, cur, hist>> BY <1>9 DEF Found
  <2>2. CASE slots[idx[w]].active /\ slots[idx[w]].generation = job[w].generation
    <3>1. pc'[w] = "trigger" /\ UNCHANGED <<idx, job>> BY <1>0, <1>9, <2>2 DEF Found
    <3>2. job[w].generation <= slots[idx[w]].generation
      BY <2>1 DEF ReaderFacts, HasGeneration
    <3> QED BY <1>b, <2>1, <3>1, <3>2 DEF ReaderFacts, HasGeneration, HasId, Reading, Named, Hidden
  <2>3. CASE ~(slots[idx[w]].active /\ slots[idx[w]].generation = job[w].generation)
    BY <1>9, <1>c, <2>1, <2>3 DEF Found, Reading
  <2> QED BY <2>2, <2>3
<1>10. CASE Trigger(w)
  <2>1. pc'[w] = "idle" BY <1>0, <1>10 DEF Trigger
  <2> QED BY <1>a, <2>1
<1> QED BY <1>1, <1>2, <1>3, <1>4, <1>5, <1>6, <1>7, <1>8, <1>9, <1>10

\* A step that writes no slot keeps the facts.
LEMMA PlainStep ==
  ASSUME TypeOK, TypeOK', Control, Facts, NEW w \in Workers, Step(w) \/ Outside(w), ~Writes(w)
  PROVE  Facts'
<1>1. UNCHANGED slots /\ pc'[w] # "fill" /\ (Reserve(w) \/ Free(w) \/ UNCHANGED owner)
  BY WritesNothing
<1>2. /\ \A v \in Workers \ {w} : pc'[v] = pc[v] /\ idx'[v] = idx[v] /\ cur'[v] = cur[v] /\ job'[v] = job[v]
      /\ hist.asked \subseteq hist'.asked /\ hist'.closed = hist.closed
  BY OthersKept, WorkerFrame DEF Frame, Writes
<1>3. SlotEffect
  <2>1. \A s \in Slots : Settled(s) => Settled(s)' BY <1>1, <1>2 DEF Settled
  <2>2. \A s \in Slots : slots'[s].generation >= slots[s].generation
    BY <1>1, FieldTypes
  <2> QED BY <1>1, <2>1, <2>2 DEF SlotEffect
<1>4. RequestFacts' BY <1>1, <1>2, <1>3, RequestsStay DEF Facts
<1>5. SlotFacts'
  <2>1. CASE Free(w)
    <3>1. pc[w] = "free" /\ \A s \in Slots : owner'[s] = owner[s] \/ s = cur[w]
      BY <2>1 DEF Free, At, TypeOK
    <3>2. ~slots[cur[w]].active /\ slots[cur[w]].id = NoClient /\ slots[cur[w]].bytes_sent = 0
      BY <3>1 DEF Facts, WorkerFacts, Hidden, Blank
    <3> QED BY <1>1, <3>1, <3>2 DEF Facts, SlotFacts
  <2>2. CASE Reserve(w)
    <3>1. \A s \in Slots : owner'[s] = NoPid => owner[s] = NoPid
      BY <2>2, WorkerFrame DEF Reserve, TypeOK, Frame, Control, Local, At, Holding
    <3> QED BY <1>1, <3>1 DEF Facts, SlotFacts
  <2> QED BY <1>1, <2>1, <2>2 DEF Facts, SlotFacts
<1>6. WorkerFacts(w)' /\ ReaderFacts(w)'
  <2>1. CASE \/ Register(w) \/ Lock(w) \/ Count(w) \/ Counted(w) \/ Refuse(w) \/ Reserve(w) \/ Unlock(w)
             \/ Account(w) \/ Free(w)
    <3>1. WorkerFacts(w)' /\ pc'[w] \notin Reading BY <2>1, RegisterMoves DEF Facts
    <3> QED BY <3>1 DEF ReaderFacts, Reading, HasGeneration, HasId
  <2>2. CASE \/ Request(w) \/ ReadActive(w) \/ ReadVersion(w) \/ ReadGeneration(w) \/ Copy(w)
             \/ CopyRest(w) \/ Check(w) \/ Compare(w) \/ Found(w) \/ Trigger(w)
    <3>1. ReaderFacts(w)' /\ pc'[w] \notin Named \cup Hidden BY <2>2, ReaderMoves DEF Facts
    <3> QED BY <3>1 DEF WorkerFacts, Named, Hidden, Blank
  <2>3. CASE ReadPipe(w) \/ Crash(w)
    <3>1. pc'[w] \in {"scan", "idle", "dead"} BY <2>3 DEF ReadPipe, Crash, Goto, TypeOK
    <3> QED BY <3>1 DEF WorkerFacts, Named, Hidden, Blank, ReaderFacts, Reading, HasGeneration, HasId
  <2> QED BY <2>1, <2>2, <2>3 DEF Step, Outside, Writes
<1>7. ASSUME NEW v \in Workers, v # w
      PROVE  WorkerFacts(v)' /\ ReaderFacts(v)'
  <2>1. WorkerFacts(v)'
    BY <1>1, <1>2, <1>7, WorkerStays DEF Facts, SamePayload
  <2>2. ReaderFacts(v)' BY <1>2, <1>3, <1>7, ReaderStays DEF Facts
  <2> QED BY <2>1, <2>2
<1>8. OnlyRequestedClosed' BY <1>2 DEF Facts, OnlyRequestedClosed
<1> QED BY <1>4, <1>5, <1>6, <1>7, <1>8 DEF Facts

\* A step of worker w that writes slot c, which is its own, or asks for slot c to
\* be disconnected, keeps the facts of the others.
LEMMA WriteStep ==
  ASSUME TypeOK, TypeOK', Control, Facts, NEW w \in Workers, Step(w) \/ Outside(w),
         NEW c \in Slots, \A s \in Slots \ {c} : slots'[s] = slots[s],
         UNCHANGED owner, owner[c] = pid[w] \/ SamePayload(c),
         slots'[c].generation >= slots[c].generation,
         slots'[c].generation = slots[c].generation =>
           slots'[c].id \in {NoClient, slots[c].id} \/ (pc[w] = "fill" /\ cur[w] = c),
         pc'[w] = "fill" => cur'[w] = c /\ slots'[c].generation # slots[c].generation
  PROVE  /\ SlotEffect
         /\ \A v \in Workers \ {w} : WorkerFacts(v)' /\ ReaderFacts(v)'
<1>1. /\ \A v \in Workers \ {w} : pc'[v] = pc[v] /\ idx'[v] = idx[v] /\ cur'[v] = cur[v] /\ job'[v] = job[v]
      /\ hist.asked \subseteq hist'.asked /\ pc[w] # "down"
  BY OthersKept, WorkerFrame DEF Frame
<1>2. SlotEffect
  <2>1. ASSUME NEW s \in Slots, slots'[s].generation = slots[s].generation, Settled(s)
        PROVE  Settled(s)'
    BY <1>1, <2>1 DEF Settled
  <2>2. ASSUME NEW s \in Slots, slots'[s].generation = slots[s].generation
        PROVE  slots'[s].id \in {NoClient, slots[s].id} \/ ~Settled(s)
    BY <2>2 DEF Settled
  <2>3. \A s \in Slots : slots'[s].generation >= slots[s].generation
    BY FieldTypes
  <2> QED BY <2>1, <2>2, <2>3 DEF SlotEffect
<1>3. ASSUME NEW v \in Workers, v # w
      PROVE  WorkerFacts(v)' /\ ReaderFacts(v)'
  <2>1. pc[v] \in Working => SamePayload(cur[v])
    <3>1. cur[v] \in Slots BY DEF TypeOK
    <3>2. CASE cur[v] = c BY <1>1, <1>3, <3>2, OwnSlot
    <3>3. CASE cur[v] # c BY <3>1, <3>3 DEF SamePayload
    <3> QED BY <3>2, <3>3
  <2>2. WorkerFacts(v)' BY <1>1, <1>3, <2>1, WorkerStays DEF Facts
  <2>3. ReaderFacts(v)' BY <1>1, <1>2, <1>3, ReaderStays DEF Facts
  <2> QED BY <2>2, <2>3
<1> QED BY <1>2, <1>3

\* A step of worker w that writes its own slot keeps the facts.
LEMMA OwnWrite ==
  ASSUME TypeOK, TypeOK', Control, Facts, NEW w \in Workers, Step(w) \/ Outside(w),
         NEW c \in Slots, \A s \in Slots \ {c} : slots'[s] = slots[s],
         UNCHANGED owner, owner[c] = pid[w],
         slots'[c].generation >= slots[c].generation,
         slots'[c].generation = slots[c].generation =>
           slots'[c].id \in {NoClient, slots[c].id} \/ (pc[w] = "fill" /\ cur[w] = c),
         pc'[w] = "fill" => cur'[w] = c /\ slots'[c].generation # slots[c].generation,
         slots'[c].disconnect_requested \in {0, slots[c].disconnect_requested},
         slots'[c].active => slots'[c].id # NoClient,
         WorkerFacts(w)', pc'[w] \notin Reading, OnlyRequestedClosed'
  PROVE  Facts'
<1>1. SlotEffect /\ \A v \in Workers \ {w} : WorkerFacts(v)' /\ ReaderFacts(v)'
  BY WriteStep
<1>2. hist.asked \subseteq hist'.asked BY OthersKept
<1>3. \A s \in Slots : slots'[s].disconnect_requested \in {0, slots[s].disconnect_requested}
  OBVIOUS
<1>4. RequestFacts' BY <1>1, <1>2, <1>3, RequestsStay DEF Facts
<1>5. ReaderFacts(w)'
  BY DEF ReaderFacts, Reading, HasGeneration, HasId
<1>6. SlotFacts'
  <2>1. ASSUME NEW s \in Slots
        PROVE  slots'[s].disconnect_requested <= slots'[s].generation
    <3>1. slots[s].disconnect_requested <= slots[s].generation
      BY DEF Facts, SlotFacts
    <3>2. slots'[s].generation >= slots[s].generation BY <1>1 DEF SlotEffect
    <3>3. slots[s].generation \in Nat /\ slots'[s].generation \in Nat /\ slots[s].disconnect_requested \in Nat
      BY FieldTypes, PrimedTypes
    <3> QED BY <1>3, <3>1, <3>2, <3>3
  <2>2. owner[c] # NoPid BY WorkerFrame DEF Frame, Control, Local
  <2> QED BY <2>1, <2>2 DEF Facts, SlotFacts
<1> QED BY <1>1, <1>4, <1>5, <1>6 DEF Facts

\* Fields of a slot with one other set.
LEMMA SlotEdits ==
  ASSUME NEW r \in SlotRecord, NEW n \in Nat, NEW b \in BOOLEAN
  PROVE  LET same(q) == /\ q.generation = r.generation /\ q.disconnect_requested = r.disconnect_requested
             body(q) == q.active = r.active /\ q.id = r.id /\ q.bytes_sent = r.bytes_sent
         IN  /\ same([r EXCEPT !.data_version = n]) /\ body([r EXCEPT !.data_version = n])
             /\ same([r EXCEPT !.current_bandwidth = n]) /\ body([r EXCEPT !.current_bandwidth = n])
             /\ body([r EXCEPT !.generation = n]) /\ [r EXCEPT !.generation = n].generation = n
             /\ [r EXCEPT !.generation = n].disconnect_requested = r.disconnect_requested
             /\ body([r EXCEPT !.disconnect_requested = n])
             /\ [r EXCEPT !.disconnect_requested = n].generation = r.generation
             /\ [r EXCEPT !.disconnect_requested = n].disconnect_requested = n
BY DEF SlotRecord

\* Fields of a slot with its payload set.
LEMMA PayloadEdits ==
  ASSUME NEW r \in SlotRecord, NEW n \in Nat, NEW b \in BOOLEAN
  PROVE  LET same(q) == /\ q.generation = r.generation /\ q.disconnect_requested = r.disconnect_requested
         IN  /\ same([r EXCEPT !.id = n]) /\ same([r EXCEPT !.bytes_sent = n]) /\ same([r EXCEPT !.active = b])
             /\ [r EXCEPT !.id = n].id = n /\ [r EXCEPT !.id = n].active = r.active
             /\ [r EXCEPT !.id = n].bytes_sent = r.bytes_sent
             /\ [r EXCEPT !.bytes_sent = n].bytes_sent = n /\ [r EXCEPT !.bytes_sent = n].active = r.active
             /\ [r EXCEPT !.bytes_sent = n].id = r.id
             /\ [r EXCEPT !.active = b].active = b /\ [r EXCEPT !.active = b].id = r.id
             /\ [r EXCEPT !.active = b].bytes_sent = r.bytes_sent
BY DEF SlotRecord

\* Fields of a slot that is cleared.
LEMMA ResetEdits ==
  ASSUME NEW r \in SlotRecord
  PROVE  /\ Reset(r).active = r.active /\ Reset(r).generation = r.generation
         /\ Reset(r).disconnect_requested = 0 /\ Reset(r).id = NoClient /\ Reset(r).bytes_sent = 0
BY DEF SlotRecord, Reset

\* The slot a worker writes is its own.
LEMMA WritesItsOwn ==
  ASSUME TypeOK, Control, NEW w \in Workers, pc[w] \in Working
  PROVE  cur[w] \in Slots /\ owner[cur[w]] = pid[w] /\ slots[cur[w]] \in SlotRecord
<1>1. Local(w) /\ pc[w] \notin {"down", "dead"} BY DEF Control, Working
<1> QED BY <1>1 DEF Local, Owns, TypeOK

\* So do the steps of status_register_client that write the slot, and Clear.
LEMMA RegisterWrites ==
  ASSUME TypeOK, TypeOK', Control, Facts, NEW w \in Workers,
         ResetSlot(w) \/ Number(w) \/ Fill(w) \/ Publish(w) \/ Clear(w)
  PROVE  Facts'
<1> DEFINE c == cur[w]
<1> DEFINE r == slots[c]
<1> USE DEF At, Goto
<1>0. Step(w) /\ ~Scan(w) /\ pc[w] \in Working /\ UNCHANGED owner
  BY DEF Step, Scan, ResetSlot, Number, Fill, Publish, Clear, Working
<1>1. c \in Slots /\ owner[c] = pid[w] /\ r \in SlotRecord
  BY <1>0, WritesItsOwn
<1>2. pc \in [Workers -> Labels] /\ slots \in [Slots -> SlotRecord] /\ cur \in [Workers -> Slots]
  BY DEF TypeOK
<1>3. r.generation \in Nat /\ r.bytes_sent \in Nat /\ r.disconnect_requested \in Nat /\ job[w].client \in Nat
  BY <1>1, FieldTypes
<1>4. OnlyRequestedClosed'
  BY <1>0, OthersKept DEF Facts, OnlyRequestedClosed
<1>5. WorkerFacts(w) BY DEF Facts
<1>6. CASE ResetSlot(w) \/ Clear(w)
  <2>1. slots' = [slots EXCEPT ![c] = Reset(r)] /\ UNCHANGED <<cur, job>>
        /\ \/ pc[w] = "reset" /\ pc'[w] = "number"
           \/ pc[w] = "clear" /\ pc'[w] = "free"
    BY <1>2, <1>6 DEF ResetSlot, Clear, local
  <2>2. slots'[c] = Reset(r) /\ \A s \in Slots \ {c} : slots'[s] = slots[s]
    BY <1>1, <1>2, <2>1
  <2>3. ~r.active BY <1>5, <2>1 DEF WorkerFacts, Hidden
  <2>4. WorkerFacts(w)'
    BY <1>1, <1>5, <2>1, <2>2, <2>3, ResetEdits DEF WorkerFacts, Named, Hidden, Blank
  <2>5. pc'[w] \notin Reading /\ pc'[w] # "fill" BY <2>1 DEF Reading
  <2>6. /\ slots'[c].generation = r.generation /\ slots'[c].id = NoClient
        /\ slots'[c].disconnect_requested = 0 /\ ~slots'[c].active
    BY <1>1, <2>2, <2>3, ResetEdits
  <2> HIDE DEF c, r
  <2> QED BY <1>0, <1>1, <1>3, <1>4, <2>2, <2>4, <2>5, <2>6, OwnWrite DEF r
<1>7. CASE Number(w)
  <2>1. slots' = [slots EXCEPT ![c] = [r EXCEPT !.generation = r.generation + 1]] /\ UNCHANGED <<cur, job>>
        /\ pc[w] = "number" /\ pc'[w] = "fill"
    BY <1>2, <1>7 DEF Number, local
  <2>2. slots'[c] = [r EXCEPT !.generation = r.generation + 1] /\ \A s \in Slots \ {c} : slots'[s] = slots[s]
    BY <1>1, <1>2, <2>1
  <2>3. /\ slots'[c].generation = r.generation + 1 /\ slots'[c].id = r.id /\ slots'[c].active = r.active
        /\ slots'[c].disconnect_requested = r.disconnect_requested /\ slots'[c].bytes_sent = r.bytes_sent
    BY <1>1, <1>3, <2>2, SlotEdits
  <2>4. ~r.active BY <1>5, <2>1 DEF WorkerFacts, Hidden
  <2>5. WorkerFacts(w)'
    BY <1>1, <1>5, <2>1, <2>3 DEF WorkerFacts, Named, Hidden, Blank
  <2>6. pc'[w] \notin Reading BY <2>1 DEF Reading
  <2>7. cur'[w] = c /\ slots'[c].generation # r.generation /\ slots'[c].generation >= r.generation
    BY <1>3, <2>1, <2>3
  <2> HIDE DEF c, r
  <2> QED BY <1>0, <1>1, <1>4, <2>2, <2>3, <2>4, <2>5, <2>6, <2>7, OwnWrite DEF r
<1>8. CASE Fill(w)
  <2>1. slots' = [slots EXCEPT ![c] = [r EXCEPT !.id = job[w].client]] /\ UNCHANGED <<cur, job>>
        /\ pc[w] = "fill" /\ pc'[w] = "publish"
    BY <1>2, <1>8 DEF Fill, local
  <2>2. slots'[c] = [r EXCEPT !.id = job[w].client] /\ \A s \in Slots \ {c} : slots'[s] = slots[s]
    BY <1>1, <1>2, <2>1
  <2>3. /\ slots'[c].generation = r.generation /\ slots'[c].id = job[w].client /\ slots'[c].active = r.active
        /\ slots'[c].disconnect_requested = r.disconnect_requested /\ slots'[c].bytes_sent = r.bytes_sent
    BY <1>1, <1>3, <2>2, PayloadEdits
  <2>4. ~r.active /\ job[w].client # NoClient BY <1>5, <2>1 DEF WorkerFacts, Hidden, Named
  <2>5. WorkerFacts(w)'
    BY <1>1, <1>5, <2>1, <2>3, <2>4 DEF WorkerFacts, Named, Hidden, Blank
  <2>6. pc'[w] \notin Reading /\ pc'[w] # "fill" /\ cur[w] = c
    BY <2>1 DEF Reading
  <2>7. slots'[c].generation >= r.generation BY <1>3, <2>3
  <2> HIDE DEF c, r
  <2> QED BY <1>0, <1>1, <1>4, <2>1, <2>2, <2>3, <2>4, <2>5, <2>6, <2>7, OwnWrite DEF r
<1>9. CASE Publish(w)
  <2>1. slots' = [slots EXCEPT ![c] = [r EXCEPT !.active = TRUE]]
        /\ pc[w] = "publish" /\ pc'[w] = "idle"
    BY <1>2, <1>9 DEF Publish, Return
  <2>2. slots'[c] = [r EXCEPT !.active = TRUE] /\ \A s \in Slots \ {c} : slots'[s] = slots[s]
    BY <1>1, <1>2, <2>1
  <2>3. /\ slots'[c].generation = r.generation /\ slots'[c].id = r.id
        /\ slots'[c].disconnect_requested = r.disconnect_requested
    BY <1>1, <1>3, <2>2, PayloadEdits
  <2>4. r.id # NoClient BY <1>5, <2>1 DEF WorkerFacts
  <2>5. WorkerFacts(w)' /\ pc'[w] \notin Reading /\ pc'[w] # "fill"
    BY <2>1 DEF WorkerFacts, Named, Hidden, Blank, Reading
  <2>6. slots'[c].generation >= r.generation BY <1>3, <2>3
  <2> HIDE DEF c, r
  <2> QED BY <1>0, <1>1, <1>4, <2>2, <2>3, <2>4, <2>5, <2>6, OwnWrite DEF r
<1> QED BY <1>6, <1>7, <1>8, <1>9

\* So do the updates of statistics.
LEMMA UpdateWrites ==
  ASSUME TypeOK, TypeOK', Control, Facts, NEW w \in Workers,
         WriteBegin(w) \/ WriteBytes(w) \/ WriteBandwidth(w) \/ WriteEnd(w)
  PROVE  Facts'
<1> USE DEF At, Goto
<1>0. (Step(w) \/ Outside(w)) /\ ~Scan(w) /\ pc[w] \in {"idle", "bytes", "bandwidth", "end"} /\ UNCHANGED owner
  BY DEF Step, Outside, Scan, WriteBegin, WriteBytes, WriteBandwidth, WriteEnd
<1>1. pc \in [Workers -> Labels] /\ slots \in [Slots -> SlotRecord] /\ conns \in [Workers -> SUBSET Slots]
  BY DEF TypeOK
<1>2. PICK c \in Slots :
        /\ owner[c] = pid[w]
        /\ slots[c].data_version \in Nat /\ slots[c].bytes_sent \in Nat /\ slots[c].current_bandwidth \in Nat
        /\ \/ slots' = [slots EXCEPT ![c] = [slots[c] EXCEPT !.data_version = slots[c].data_version + 1]]
           \/ slots' = [slots EXCEPT ![c] = [slots[c] EXCEPT !.bytes_sent = slots[c].bytes_sent + 1]]
           \/ slots' = [slots EXCEPT ![c] = [slots[c] EXCEPT !.current_bandwidth = slots[c].current_bandwidth + 1]]
  <2>1. \A s \in Slots : slots[s].data_version \in Nat /\ slots[s].bytes_sent \in Nat /\ slots[s].current_bandwidth \in Nat
    BY <1>1 DEF SlotRecord
  <2>2. CASE WriteBegin(w)
    <3>1. PICK s \in conns[w] : Mine(w, s) /\ slots' = [slots EXCEPT ![s].data_version = @ + 1]
      BY <2>2 DEF WriteBegin
    <3> QED BY <1>1, <2>1, <3>1 DEF Mine
  <2>3. CASE WriteBytes(w) \/ WriteBandwidth(w) \/ WriteEnd(w)
    <3>1. cur[w] \in Slots /\ owner[cur[w]] = pid[w]
      BY <2>3, WritesItsOwn DEF WriteBytes, WriteBandwidth, WriteEnd, Working
    <3> QED BY <2>1, <2>3, <3>1 DEF WriteBytes, WriteBandwidth, WriteEnd
  <2> QED BY <2>2, <2>3
<1> DEFINE r == slots[c]
<1>3. r \in SlotRecord /\ r.generation \in Nat BY <1>1, FieldTypes
<1>4. \A s \in Slots \ {c} : slots'[s] = slots[s] BY <1>1, <1>2
<1>5. /\ slots'[c].generation = r.generation /\ slots'[c].id = r.id /\ slots'[c].active = r.active
      /\ slots'[c].disconnect_requested = r.disconnect_requested
  <2>1. CASE slots' = [slots EXCEPT ![c] = [slots[c] EXCEPT !.data_version = slots[c].data_version + 1]]
    <3>1. slots'[c] = [r EXCEPT !.data_version = r.data_version + 1] /\ r.data_version + 1 \in Nat
      BY <1>1, <1>2, <2>1
    <3> QED BY <1>3, <3>1, SlotEdits
  <2>2. CASE slots' = [slots EXCEPT ![c] = [slots[c] EXCEPT !.bytes_sent = slots[c].bytes_sent + 1]]
    <3>1. slots'[c] = [r EXCEPT !.bytes_sent = r.bytes_sent + 1] /\ r.bytes_sent + 1 \in Nat
      BY <1>1, <1>2, <2>2
    <3> QED BY <1>3, <3>1, PayloadEdits
  <2>3. CASE slots' = [slots EXCEPT ![c] = [slots[c] EXCEPT !.current_bandwidth = slots[c].current_bandwidth + 1]]
    <3>1. slots'[c] = [r EXCEPT !.current_bandwidth = r.current_bandwidth + 1] /\ r.current_bandwidth + 1 \in Nat
      BY <1>1, <1>2, <2>3
    <3> QED BY <1>3, <3>1, SlotEdits
  <2> QED BY <1>2, <2>1, <2>2, <2>3
<1>6. OnlyRequestedClosed'
  BY <1>0, OthersKept DEF Facts, OnlyRequestedClosed
<1>7. pc'[w] \in {"idle", "bytes", "bandwidth", "end"}
  BY <1>1 DEF WriteBegin, WriteBytes, WriteBandwidth, WriteEnd
<1>8. WorkerFacts(w)' /\ pc'[w] \notin Reading /\ pc'[w] # "fill"
  BY <1>7 DEF WorkerFacts, Named, Hidden, Blank, Reading
<1>9. r.active => r.id # NoClient BY DEF Facts, SlotFacts
<1>10. slots'[c].generation >= r.generation BY <1>3, <1>5
<1> HIDE DEF r
<1> QED BY <1>0, <1>2, <1>4, <1>5, <1>6, <1>8, <1>9, <1>10, OwnWrite DEF r

\* So does a client's end: it closes only a client somebody asked for, or one
\* that left by itself.
LEMMA UnregisterWrites ==
  ASSUME TypeOK, TypeOK', Control, Facts, NEW w \in Workers, Step(w) \/ Outside(w),
         NEW c \in Slots, Unregister(w, c), OnlyRequestedClosed'
  PROVE  Facts'
<1> DEFINE r == slots[c]
<1>0. owner[c] = pid[w] /\ UNCHANGED owner BY DEF Unregister, Mine
<1>1. pc \in [Workers -> Labels] /\ slots \in [Slots -> SlotRecord] /\ r \in SlotRecord /\ cur \in [Workers -> Slots]
  BY DEF TypeOK
<1>2. slots'[c] = [r EXCEPT !.active = FALSE] /\ \A s \in Slots \ {c} : slots'[s] = slots[s]
  BY <1>1 DEF Unregister
<1>3. /\ slots'[c].generation = r.generation /\ slots'[c].id = r.id /\ ~slots'[c].active
      /\ slots'[c].disconnect_requested = r.disconnect_requested
  BY <1>1, <1>2, PayloadEdits
<1>4. pc'[w] = "account" /\ cur'[w] = c BY <1>1 DEF Unregister, Goto
<1>5. WorkerFacts(w)' /\ pc'[w] \notin Reading /\ pc'[w] # "fill"
  BY <1>3, <1>4 DEF WorkerFacts, Named, Hidden, Blank, Reading
<1>6. slots'[c].generation >= r.generation BY <1>3, FieldTypes
<1> HIDE DEF r
<1> QED BY <1>0, <1>2, <1>3, <1>5, <1>6, OwnWrite DEF r

\* A request is stored under the number the client was read with.
LEMMA StoreWrites ==
  ASSUME TypeOK, TypeOK', Control, Facts, NEW w \in Workers, StoreRequest(w)
  PROVE  Facts'
<1> DEFINE c == idx[w]
<1> DEFINE r == slots[c]
<1> DEFINE g == job[w].generation
<1> USE DEF At, Goto
<1>0. Step(w) /\ ~Scan(w) /\ UNCHANGED <<owner, hist, idx, cur, job>> /\ pc[w] = "store"
  BY DEF Step, Scan, StoreRequest, local
<1>1. pc \in [Workers -> Labels] /\ slots \in [Slots -> SlotRecord] /\ c \in Slots
  BY <1>0 DEF TypeOK, Reading
<1>2. r \in SlotRecord /\ g \in Nat /\ r.generation \in Nat
  BY <1>1, FieldTypes
<1>3. slots' = [slots EXCEPT ![c] = [r EXCEPT !.disconnect_requested = g]] /\ pc' = [pc EXCEPT ![w] = "found"]
  BY <1>1 DEF StoreRequest
<1>4. slots'[c] = [r EXCEPT !.disconnect_requested = g] /\ \A s \in Slots \ {c} : slots'[s] = slots[s]
  BY <1>1, <1>3
<1>5. /\ slots'[c].generation = r.generation /\ slots'[c].disconnect_requested = g
      /\ slots'[c].id = r.id /\ slots'[c].active = r.active /\ slots'[c].bytes_sent = r.bytes_sent
  BY <1>2, <1>4, SlotEdits
<1>6. pc'[w] = "found" /\ \A v \in Workers \ {w} : pc'[v] = pc[v]
  BY <1>1, <1>3
<1>7. SamePayload(c) /\ slots'[c].generation >= r.generation
  BY <1>2, <1>5 DEF SamePayload
<1>8. SlotEffect /\ \A v \in Workers \ {w} : WorkerFacts(v)' /\ ReaderFacts(v)'
  <2> HIDE DEF c, r, g
  <2> QED BY <1>0, <1>1, <1>4, <1>5, <1>6, <1>7, WriteStep DEF r
<1>9. ReaderFacts(w) /\ job[w].client # NoClient /\ job[w].client \in hist.asked /\ job[w].id = job[w].client
      /\ g <= r.generation
  BY <1>0 DEF Facts, ReaderFacts, Reading, HasGeneration
<1>10. g = r.generation => r.id \in {NoClient, job[w].client} /\ Settled(c)'
  <2>1. Settled(c) => Settled(c)' BY <1>0, <1>6 DEF Settled
  <2> QED BY <1>0, <1>9, <2>1 DEF ReaderFacts, HasId
<1>11. RequestFacts'
  <2> SUFFICES ASSUME NEW s \in Slots, slots'[s].disconnect_requested # 0,
                      slots'[s].disconnect_requested = slots'[s].generation
               PROVE  (slots'[s].id = NoClient \/ slots'[s].id \in hist'.asked) /\ Settled(s)'
    BY DEF RequestFacts
  <2>1. CASE s = c
    <3>1. g = r.generation BY <1>5, <2>1
    <3>2. slots'[s].id \in {NoClient, job[w].client} /\ Settled(c)'
      BY <1>5, <1>10, <2>1, <3>1
    <3>3. Settled(s)' BY <1>0, <2>1, <3>2 DEF Settled
    <3> QED BY <1>0, <1>9, <3>2, <3>3
  <2>2. CASE s # c
    <3>1. slots'[s] = slots[s] BY <1>4, <2>2
    <3>2. (slots[s].id = NoClient \/ slots[s].id \in hist.asked) /\ Settled(s)
      BY <3>1 DEF Facts, RequestFacts
    <3>3. Settled(s)' BY <1>0, <1>6, <3>2 DEF Settled
    <3> QED BY <1>0, <3>1, <3>2, <3>3
  <2> QED BY <2>1, <2>2
<1>12. SlotFacts'
  <2> SUFFICES ASSUME NEW s \in Slots
               PROVE  /\ owner[s] = NoPid => ~slots'[s].active /\ slots'[s].id = NoClient /\ slots'[s].bytes_sent = 0
                      /\ slots'[s].active => slots'[s].id # NoClient
                      /\ slots'[s].disconnect_requested <= slots'[s].generation
    BY <1>0 DEF SlotFacts
  <2>1. /\ owner[s] = NoPid => ~slots[s].active /\ slots[s].id = NoClient /\ slots[s].bytes_sent = 0
        /\ slots[s].active => slots[s].id # NoClient
        /\ slots[s].disconnect_requested <= slots[s].generation
    BY DEF Facts, SlotFacts
  <2>2. CASE s = c BY <1>5, <1>9, <2>1, <2>2
  <2>3. CASE s # c BY <1>4, <2>1, <2>3
  <2> QED BY <2>2, <2>3
<1>13. WorkerFacts(w)' BY <1>6 DEF WorkerFacts, Named, Hidden, Blank
<1>14. ReaderFacts(w)'
  BY <1>0, <1>5, <1>6, <1>9 DEF ReaderFacts, Reading, HasGeneration, HasId
<1>15. OnlyRequestedClosed' BY <1>0 DEF Facts, OnlyRequestedClosed
<1> QED BY <1>8, <1>11, <1>12, <1>13, <1>14, <1>15 DEF Facts

\* A worker's step keeps the facts.
LEMMA WorkerReads ==
  ASSUME TypeOK, TypeOK', Control, Facts, NEW w \in Workers, Step(w) \/ Outside(w)
  PROVE  Facts'
<1>1. CASE ResetSlot(w) \/ Number(w) \/ Fill(w) \/ Publish(w) \/ Clear(w)
  BY <1>1, RegisterWrites
<1>2. CASE WriteBegin(w) \/ WriteBytes(w) \/ WriteBandwidth(w) \/ WriteEnd(w)
  BY <1>2, UpdateWrites
<1>3. CASE StoreRequest(w) BY <1>3, StoreWrites
<1>4. CASE ClientLeaves(w)
  <2>1. PICK s \in conns[w] : Unregister(w, s) BY <1>4 DEF ClientLeaves
  <2>2. s \in Slots BY DEF TypeOK
  <2>3. OnlyRequestedClosed'
    BY <1>4 DEF ClientLeaves, Facts, OnlyRequestedClosed
  <2> QED BY <2>1, <2>2, <2>3, UnregisterWrites
<1>5. CASE Scan(w)
  <2>1. PICK s \in job[w].todo :
          IF Requested(s)
            THEN /\ Unregister(w, s)
                 /\ hist' = [hist EXCEPT !.closed = @ \cup {slots[s].id}]
            ELSE /\ Goto(w, IF job[w].todo # {s} THEN "scan" ELSE "idle")
                 /\ UNCHANGED <<shared, pid, idx, cnt, cur, conns, pipe, reaping, hist>>
    BY <1>5 DEF Scan
  <2>2. s \in Slots
    <3>1. job[w] \in Job BY DEF TypeOK
    <3> QED BY <3>1 DEF Job
  <2>3. CASE Requested(s)
    <3>1. slots[s].id \in hist.asked
      BY <2>2, <2>3 DEF Requested, Facts, SlotFacts, RequestFacts
    <3>2. hist' = [hist EXCEPT !.closed = @ \cup {slots[s].id}] /\ hist \in History
      BY <2>1, <2>3 DEF TypeOK
    <3>3. hist'.closed = hist.closed \cup {slots[s].id} /\ hist'.asked = hist.asked
      BY <3>2 DEF History
    <3>4. OnlyRequestedClosed' BY <3>1, <3>3 DEF Facts, OnlyRequestedClosed
    <3> QED BY <2>1, <2>2, <2>3, <3>4, UnregisterWrites
  <2>4. CASE ~Requested(s)
    <3>1. /\ UNCHANGED <<slots, owner, hist, idx, cur>> /\ pc'[w] \in {"scan", "idle"}
          /\ \A v \in Workers \ {w} : pc'[v] = pc[v]
      BY <2>1, <2>4 DEF Goto, shared, TypeOK
    <3>2. \A v \in Workers \ {w} : job'[v] = job[v] BY OthersKept
    <3>3. SlotEffect
      <4>1. \A s1 \in Slots : Settled(s1) => Settled(s1)' BY <3>1 DEF Settled
      <4>2. \A s1 \in Slots : slots'[s1].generation >= slots[s1].generation
        BY <3>1, FieldTypes
      <4> QED BY <3>1, <4>1, <4>2 DEF SlotEffect
    <3>4. RequestFacts' BY <3>1, <3>3, RequestsStay DEF Facts
    <3>5. SlotFacts' /\ OnlyRequestedClosed'
      BY <3>1 DEF Facts, SlotFacts, OnlyRequestedClosed
    <3>6. WorkerFacts(w)' /\ ReaderFacts(w)'
      BY <3>1 DEF WorkerFacts, Named, Hidden, Blank, ReaderFacts, Reading, HasGeneration, HasId
    <3>7. ASSUME NEW v \in Workers, v # w
          PROVE  WorkerFacts(v)' /\ ReaderFacts(v)'
      <4>1. WorkerFacts(v)'
        BY <3>1, <3>2, <3>7, WorkerStays DEF Facts, SamePayload
      <4>2. ReaderFacts(v)' BY <3>1, <3>2, <3>3, <3>7, ReaderStays DEF Facts
      <4> QED BY <4>1, <4>2
    <3> QED BY <3>4, <3>5, <3>6, <3>7 DEF Facts
  <2> QED BY <2>3, <2>4
<1>6. CASE ~Writes(w) BY <1>6, PlainStep
<1> QED BY <1>1, <1>2, <1>3, <1>4, <1>5, <1>6 DEF Writes

\* Taking back the slots of a dead worker keeps the facts: they belong to nobody
\* who still works on them.
LEMMA SupervisorReads ==
  ASSUME TypeOK, TypeOK', Control, Facts, Supervise
  PROVE  Facts'
<1> USE ClientSlotsAssumption
<1>1. UNCHANGED <<hist, job, idx, cur>>
  BY DEF Supervise, ReapSlot, ReapLock, Waitpid, Spawn, local
<1>2. OnlyRequestedClosed' BY <1>1 DEF Facts, OnlyRequestedClosed
<1>3. CASE ReapSlot
  <2> DEFINE s == reaping.slot
  <2> DEFINE u == reaping.worker
  <2>1. s \in Slots /\ u \in Workers /\ pc[u] = "dead" /\ UNCHANGED pc
    BY <1>3 DEF ReapSlot, TypeOK, Slots, Control, ReapsTheDead
  <2>2. CASE LeftBehind(u, s)
    <3>1. /\ slots' = [slots EXCEPT ![s] = [Reset(slots[s]) EXCEPT !.active = FALSE]]
          /\ owner' = [owner EXCEPT ![s] = NoPid]
      BY <1>3, <2>2 DEF ReapSlot
    <3>2. slots[s] \in SlotRecord /\ Reset(slots[s]) \in SlotRecord
      BY <2>1, SlotFields DEF TypeOK
    <3>3. /\ slots'[s] = [Reset(slots[s]) EXCEPT !.active = FALSE]
          /\ owner'[s] = NoPid
          /\ \A q \in Slots \ {s} : slots'[q] = slots[q] /\ owner'[q] = owner[q]
      BY <2>1, <3>1 DEF TypeOK
    <3>4. /\ ~slots'[s].active /\ slots'[s].id = NoClient /\ slots'[s].bytes_sent = 0
          /\ slots'[s].generation = slots[s].generation /\ slots'[s].disconnect_requested = 0
      BY <3>2, <3>3, ResetEdits, PayloadEdits
    <3>5. owner[s] = pid[u] BY <2>2 DEF LeftBehind
    <3> HIDE DEF s, u
    <3>6. SlotEffect
      <4>1. \A q \in Slots : Settled(q) => Settled(q)' BY <1>1, <2>1 DEF Settled
      <4>2. \A q \in Slots : slots'[q].generation = slots[q].generation
        BY <3>3, <3>4
      <4>3. \A q \in Slots : slots'[q].id \in {NoClient, slots[q].id}
        BY <3>3, <3>4
      <4>4. \A q \in Slots : slots'[q].generation >= slots[q].generation
        BY <4>2, FieldTypes
      <4> QED BY <4>1, <4>3, <4>4 DEF SlotEffect
    <3>7. \A q \in Slots : slots'[q].disconnect_requested \in {0, slots[q].disconnect_requested}
      BY <3>3, <3>4
    <3>8. RequestFacts' BY <1>1, <3>6, <3>7, RequestsStay DEF Facts
    <3>9. SlotFacts'
      <4> SUFFICES ASSUME NEW q \in Slots
                   PROVE  /\ owner'[q] = NoPid => ~slots'[q].active /\ slots'[q].id = NoClient /\ slots'[q].bytes_sent = 0
                          /\ slots'[q].active => slots'[q].id # NoClient
                          /\ slots'[q].disconnect_requested <= slots'[q].generation
        BY DEF SlotFacts
      <4>1. /\ owner[q] = NoPid => ~slots[q].active /\ slots[q].id = NoClient /\ slots[q].bytes_sent = 0
            /\ slots[q].active => slots[q].id # NoClient
            /\ slots[q].disconnect_requested <= slots[q].generation
        BY DEF Facts, SlotFacts
      <4>2. slots[q].generation \in Nat BY FieldTypes
      <4>3. CASE q = s BY <3>4, <4>2, <4>3
      <4>4. CASE q # s BY <3>3, <4>1, <4>4
      <4> QED BY <4>3, <4>4
    <3>10. ASSUME NEW v \in Workers
           PROVE  WorkerFacts(v)' /\ ReaderFacts(v)'
      <4>1. pc[v] \in Working => SamePayload(cur[v])
        <5>1. ASSUME pc[v] \in Working
              PROVE  cur[v] # s /\ cur[v] \in Slots
          BY <2>1, <3>5, <5>1, OwnSlot, SMTT(40) DEF Working, TypeOK
        <5> QED BY <3>3, <5>1 DEF SamePayload
      <4>2. WorkerFacts(v)' BY <1>1, <2>1, <4>1, WorkerStays DEF Facts
      <4>3. ReaderFacts(v)' BY <1>1, <2>1, <3>6, ReaderStays DEF Facts
      <4> QED BY <4>2, <4>3
    <3> QED BY <1>2, <3>8, <3>9, <3>10 DEF Facts
  <2>3. CASE ~LeftBehind(u, s)
    <3>1. UNCHANGED <<slots, owner>> BY <1>3, <2>3 DEF ReapSlot
    <3> QED
      BY <1>1, <2>1, <3>1 DEF Facts, SlotFacts, WorkerFacts, ReaderFacts, RequestFacts, Settled,
         OnlyRequestedClosed
  <2> QED BY <2>2, <2>3
<1>4. CASE ReapLock \/ \E w \in Workers : Waitpid(w) \/ Spawn(w)
  <2>1. UNCHANGED <<slots, owner>> BY <1>4 DEF ReapLock, Waitpid, Spawn, shared
  <2>2. \A v \in Workers : pc'[v] = pc[v] \/ pc'[v] \in {"down", "idle"}
    BY <1>4 DEF ReapLock, Waitpid, Spawn, Goto, TypeOK
  <2>3. \A q \in Slots : Settled(q) => Settled(q)' BY <1>1, <2>2 DEF Settled
  <2>4. SlotFacts' /\ RequestFacts'
    BY <1>1, <2>1, <2>3 DEF Facts, SlotFacts, RequestFacts
  <2>5. ASSUME NEW v \in Workers
        PROVE  WorkerFacts(v)' /\ ReaderFacts(v)'
    <3>1. CASE pc'[v] = pc[v]
      <4>1. WorkerFacts(v)' BY <1>1, <2>1, <3>1 DEF Facts, WorkerFacts
      <4>2. pc[v] \in HasId => idx[v] \in Slots BY DEF TypeOK, HasId, Reading
      <4>3. ReaderFacts(v)'
        BY <1>1, <2>1, <2>3, <3>1, <4>2 DEF Facts, ReaderFacts, Settled
      <4> QED BY <4>1, <4>3
    <3>2. CASE pc'[v] \in {"down", "idle"}
      BY <3>2 DEF WorkerFacts, Named, Hidden, Blank, ReaderFacts, Reading, HasGeneration, HasId
    <3> QED BY <2>2, <3>1, <3>2
  <2> QED BY <1>2, <2>4, <2>5 DEF Facts
<1> QED BY <1>3, <1>4 DEF Supervise

\* Nothing is read or asked for at first.
LEMMA InitReads ==
  ASSUME Init
  PROVE  Facts
<1>1. SlotFacts /\ RequestFacts BY DEF Init, SlotFacts, RequestFacts, Slots
<1>2. \A w \in Workers : WorkerFacts(w) /\ ReaderFacts(w)
  BY DEF Init, WorkerFacts, Named, Hidden, Blank, ReaderFacts, Reading, HasGeneration, HasId
<1> QED BY <1>1, <1>2 DEF Init, Facts, OnlyRequestedClosed

\* Every step keeps what is known of the slots.
LEMMA StepReads ==
  ASSUME IInv, IInv', Facts, [Next]_vars
  PROVE  Facts'
<1>0. TypeOK /\ TypeOK' /\ Control BY DEF IInv
<1>1. CASE Supervise BY <1>0, <1>1, SupervisorReads
<1>2. ASSUME NEW w \in Workers, Step(w) \/ Outside(w)
      PROVE  Facts'
  BY <1>0, <1>2, WorkerReads
<1>3. CASE UNCHANGED vars
  BY <1>3 DEF vars, Facts, SlotFacts, WorkerFacts, ReaderFacts, RequestFacts, Settled, OnlyRequestedClosed
<1> QED BY <1>1, <1>2, <1>3 DEF Next

\* A worker that reads the slots of others without a lock, and the owner that
\* finds the request, close only clients somebody asked for, although the slot
\* may have changed hands between the reads, before the request is stored and
\* before it is seen (handle_disconnect_client, client_disconnect_requested).
THEOREM RequestsAreRespected == Spec => []OnlyRequestedClosed
<1>1. Init => Facts BY InitReads
<1>2. IInv /\ IInv' /\ Facts /\ [Next]_vars => Facts' BY StepReads
<1>3. Facts => OnlyRequestedClosed BY DEF Facts
<1> QED BY <1>1, <1>2, <1>3, Invariance, PTL DEF Spec

-----------------------------------------------------------------------------
(* Sums over the slots *)

\* Sum, of any record of the slots.
SumIn(sl, S) ==
  LET f[n \in 0 .. NSlots] == IF n = 0 THEN 0
                 ELSE f[n - 1] + (IF n - 1 \in S THEN sl[n - 1].bytes_sent ELSE 0)
  IN  f[NSlots]

\* f adds up t, slot by slot, up to n.
AddsUp(f, t, n) == /\ f \in [0 .. n -> Nat] /\ f[0] = 0
                   /\ \A i \in 1 .. n : f[i] = f[i - 1] + t[i - 1]

\* A set of numbers has a least one.
LEMMA Least ==
  ASSUME NEW T \in SUBSET Nat, T # {}
  PROVE  \E n \in T : \A m \in T : n <= m
<1> DEFINE R == OpToRel(<, Nat)
<1>1. IsWellFoundedOn(R, Nat) BY NatLessThanWellFounded
<1>2. \A m, n \in Nat : m < n => <<m, n>> \in R BY DEF OpToRel
<1> HIDE DEF R
<1>3. PICK n \in T : \A m \in T : ~(<<m, n>> \in R) BY <1>1, WFMin
<1>4. \A m \in T : ~(m < n) BY <1>2, <1>3
<1> QED BY <1>4

\* The sum of the model, with its slots named.
LEMMA SumIsSum == \A S : Sum(S) = SumIn(slots, S)
BY DEF Sum, SumIn

\* Every list of numbers adds up.
LEMMA SumExists ==
  ASSUME NEW t \in [Slots -> Nat]
  PROVE  \A n \in 0 .. NSlots : \E f : AddsUp(f, t, n)
<1> DEFINE T == {n \in 0 .. NSlots : ~\E f : AddsUp(f, t, n)}
<1> SUFFICES ASSUME T # {} PROVE FALSE
  OBVIOUS
<1>1. PICK n \in T : \A m \in T : n <= m
  <2>1. T \in SUBSET Nat BY ClientSlotsAssumption
  <2> HIDE DEF T
  <2> QED BY <2>1, Least
<1>2. n # 0
  <2>1. AddsUp([i \in 0 .. 0 |-> 0], t, 0) BY DEF AddsUp
  <2> QED BY <2>1
<1>3. PICK f : AddsUp(f, t, n - 1) BY <1>1, <1>2, ClientSlotsAssumption
<1> DEFINE g == [i \in 0 .. n |-> IF i = n THEN f[n - 1] + t[n - 1] ELSE f[i]]
<1>4. n \in 1 .. NSlots /\ n - 1 \in Slots /\ t[n - 1] \in Nat /\ f[n - 1] \in Nat
  BY <1>1, <1>2, <1>3, ClientSlotsAssumption DEF Slots, AddsUp
<1>5. \A i \in 0 .. n - 1 : f[i] \in Nat BY <1>3 DEF AddsUp
<1>6. g \in [0 .. n -> Nat] /\ g[0] = 0 BY <1>2, <1>3, <1>4, <1>5 DEF AddsUp
<1>7. ASSUME NEW i \in 1 .. n
      PROVE  g[i] = g[i - 1] + t[i - 1]
  BY <1>3, <1>4, <1>7 DEF AddsUp
<1>8. AddsUp(g, t, n) BY <1>6, <1>7 DEF AddsUp
<1> QED BY <1>1, <1>8

\* What each slot adds to the sum over S.
Terms(sl, S) == [s \in Slots |-> IF s \in S THEN sl[s].bytes_sent ELSE 0]

\* Sum is what its recursion says.
LEMMA SumInAddsUp ==
  ASSUME NEW sl, \A s \in Slots : sl[s].bytes_sent \in Nat, NEW S
  PROVE  \E f : AddsUp(f, Terms(sl, S), NSlots) /\ SumIn(sl, S) = f[NSlots]
<1> USE ClientSlotsAssumption
<1> DEFINE t == Terms(sl, S)
<1> DEFINE F(f) == [n \in 0 .. NSlots |-> IF n = 0 THEN 0
                      ELSE f[n - 1] + (IF n - 1 \in S THEN sl[n - 1].bytes_sent ELSE 0)]
<1> DEFINE h == CHOOSE f : f = F(f)
<1>1. t \in [Slots -> Nat] BY DEF Terms
<1>2. \A n \in 1 .. NSlots : n - 1 \in Slots /\ t[n - 1] = (IF n - 1 \in S THEN sl[n - 1].bytes_sent ELSE 0)
  BY DEF Terms, Slots
<1>3. PICK f : AddsUp(f, t, NSlots)
  <2> HIDE DEF t
  <2>1. NSlots \in 0 .. NSlots
    OBVIOUS
  <2> QED BY <1>1, <2>1, SumExists
<1>4. f = F(f)
  <2> HIDE DEF t
  <2>1. \A n \in 0 .. NSlots : f[n] = F(f)[n] BY <1>2, <1>3 DEF AddsUp
  <2> QED BY <1>3, <2>1 DEF AddsUp
<1>5. h = F(h)
  <2> HIDE DEF F
  <2> QED BY <1>4
<1>6. h[0] = 0 /\ \A n \in 1 .. NSlots : h[n] = h[n - 1] + t[n - 1]
  <2> HIDE DEF t, h
  <2>1. \A n \in 0 .. NSlots : h[n] = F(h)[n] BY <1>5
  <2> QED BY <1>2, <2>1
<1>7. h = [n \in 0 .. NSlots |-> h[n]]
  <2> HIDE DEF h
  <2> QED BY <1>5
<1>8. \A n \in 0 .. NSlots : h[n] \in Nat
  <2> DEFINE T == {n \in 0 .. NSlots : h[n] \notin Nat}
  <2> HIDE DEF t, h
  <2> SUFFICES ASSUME T # {} PROVE FALSE
    OBVIOUS
  <2>1. PICK n \in T : \A m \in T : n <= m
    <3>1. T \in SUBSET Nat
      OBVIOUS
    <3> HIDE DEF T
    <3> QED BY <3>1, Least
  <2>2. n \in 1 .. NSlots /\ n - 1 \in 0 .. NSlots /\ ~(n <= n - 1)
    BY <1>6, <2>1
  <2>3. h[n - 1] \in Nat /\ t[n - 1] \in Nat BY <1>1, <1>2, <2>1, <2>2
  <2> QED BY <1>6, <2>1, <2>2, <2>3
<1>9. AddsUp(h, t, NSlots)
  <2> HIDE DEF t, h
  <2> QED BY <1>6, <1>7, <1>8 DEF AddsUp
<1>10. SumIn(sl, S) = h[NSlots] BY DEF SumIn
<1> QED BY <1>9, <1>10

\* What changes in one slot, with the others no larger, bounds the sum.
LEMMA SumMoves ==
  ASSUME NEW t \in [Slots -> Nat], NEW u \in [Slots -> Nat], NEW c \in Slots, NEW k \in Int,
         \A s \in Slots \ {c} : u[s] <= t[s], u[c] <= t[c] + k,
         NEW f, AddsUp(f, t, NSlots), NEW g, AddsUp(g, u, NSlots)
  PROVE  g[NSlots] <= f[NSlots] + k
<1> USE ClientSlotsAssumption
<1> DEFINE T == {n \in 0 .. NSlots : ~(g[n] <= f[n] + (IF c < n THEN k ELSE 0))}
<1>1. \A n \in 0 .. NSlots : f[n] \in Nat /\ g[n] \in Nat
  BY DEF AddsUp
<1>2. T = {}
  <2> SUFFICES ASSUME T # {} PROVE FALSE
    OBVIOUS
  <2>1. PICK n \in T : \A m \in T : n <= m
    <3>1. T \in SUBSET Nat
      OBVIOUS
    <3> HIDE DEF T
    <3> QED BY <3>1, Least
  <2>2. n \in 0 .. NSlots /\ c \in 0 .. NSlots BY <2>1 DEF Slots
  <2>3. n # 0 BY <2>1, <2>2 DEF AddsUp, Slots
  <2>4. n \in 1 .. NSlots /\ n - 1 \in Slots /\ n - 1 \in 0 .. NSlots
    BY <2>2, <2>3 DEF Slots
  <2>5. g[n - 1] <= f[n - 1] + (IF c < n - 1 THEN k ELSE 0)
    BY <2>1, <2>2, <2>4
  <2>6. f[n] = f[n - 1] + t[n - 1] /\ g[n] = g[n - 1] + u[n - 1]
    BY <2>4 DEF AddsUp
  <2>7. t[n - 1] \in Nat /\ u[n - 1] \in Nat BY <2>4
  <2>8. ~(g[n] <= f[n] + (IF c < n THEN k ELSE 0)) BY <2>1
  <2>9. CASE n - 1 = c
    <3>1. u[n - 1] <= t[n - 1] + k BY <2>9
    <3> QED BY <1>1, <2>2, <2>4, <2>5, <2>6, <2>7, <2>8, <2>9, <3>1
  <2>10. CASE n - 1 # c
    <3>1. u[n - 1] <= t[n - 1] BY <2>4, <2>10
    <3>2. c < n - 1 <=> c < n BY <2>2, <2>10
    <3> QED BY <1>1, <2>2, <2>4, <2>5, <2>6, <2>7, <2>8, <3>1, <3>2
  <2> QED BY <2>9, <2>10
<1>3. NSlots \in 0 .. NSlots /\ c < NSlots BY DEF Slots
<1> QED BY <1>2, <1>3

\* So for the bytes of two sets of slots, before and after a step.
LEMMA SumChanges ==
  ASSUME NEW sl, NEW tl, \A s \in Slots : sl[s].bytes_sent \in Nat /\ tl[s].bytes_sent \in Nat,
         NEW S, NEW T, NEW c \in Slots, NEW k \in Int,
         \A s \in Slots \ {c} : s \in T => s \in S /\ tl[s].bytes_sent <= sl[s].bytes_sent,
         (IF c \in T THEN tl[c].bytes_sent ELSE 0) <= (IF c \in S THEN sl[c].bytes_sent ELSE 0) + k
  PROVE  SumIn(tl, T) <= SumIn(sl, S) + k
<1>1. PICK f : AddsUp(f, Terms(sl, S), NSlots) /\ SumIn(sl, S) = f[NSlots]
  BY SumInAddsUp
<1>2. PICK g : AddsUp(g, Terms(tl, T), NSlots) /\ SumIn(tl, T) = g[NSlots]
  BY SumInAddsUp
<1>3. Terms(sl, S) \in [Slots -> Nat] /\ Terms(tl, T) \in [Slots -> Nat]
  BY DEF Terms
<1>4. \A s \in Slots \ {c} : Terms(tl, T)[s] <= Terms(sl, S)[s]
  BY DEF Terms
<1>5. Terms(tl, T)[c] <= Terms(sl, S)[c] + k BY DEF Terms
<1> QED BY <1>1, <1>2, <1>3, <1>4, <1>5, SumMoves

\* The sum is a number.
LEMMA SumType ==
  ASSUME NEW sl, \A s \in Slots : sl[s].bytes_sent \in Nat, NEW S
  PROVE  SumIn(sl, S) \in Nat
<1>1. PICK f : AddsUp(f, Terms(sl, S), NSlots) /\ SumIn(sl, S) = f[NSlots]
  BY SumInAddsUp
<1> QED BY <1>1, ClientSlotsAssumption DEF AddsUp

-----------------------------------------------------------------------------
(* The bytes of a client are counted once *)

\* The slots whose bytes are still to be counted: those of clients, and those a
\* worker has taken from a client and is about to count.
Weighed == {s \in Slots : slots[s].active \/ \E w \in Workers : pc[w] = "account" /\ cur[w] = s}
Counting == counted + SumIn(slots, Weighed) <= hist.sent

\* A step changes the count by no more than what it sends less what it takes
\* from one slot.
LEMMA CountingStep ==
  ASSUME TypeOK, TypeOK', Counting, NEW c \in Slots, NEW k \in Int,
         \A s \in Slots \ {c} : slots'[s] = slots[s] /\ (s \in Weighed' => s \in Weighed),
         c \in Weighed' => slots'[c].bytes_sent <= (IF c \in Weighed THEN slots[c].bytes_sent ELSE 0) + k,
         c \notin Weighed' => 0 <= (IF c \in Weighed THEN slots[c].bytes_sent ELSE 0) + k,
         counted' + k <= counted + (hist'.sent - hist.sent)
  PROVE  Counting'
<1> DEFINE before == SumIn(slots, Weighed)
<1> DEFINE after == SumIn(slots', Weighed')
<1>1. \A s \in Slots : slots[s].bytes_sent \in Nat /\ slots'[s].bytes_sent \in Nat
  BY FieldTypes, PrimedTypes
<1>2. \A s \in Slots \ {c} : s \in Weighed' => s \in Weighed /\ slots'[s].bytes_sent <= slots[s].bytes_sent
  BY <1>1
<1>3. (IF c \in Weighed' THEN slots'[c].bytes_sent ELSE 0) <= (IF c \in Weighed THEN slots[c].bytes_sent ELSE 0) + k
  OBVIOUS
<1>4. after <= before + k BY <1>1, <1>2, <1>3, SumChanges
<1>5. before \in Nat /\ after \in Nat BY <1>1, SumType
<1>6. counted \in Nat /\ counted' \in Nat /\ hist.sent \in Nat /\ hist'.sent \in Nat
  <2>1. hist' \in History /\ counted' \in Nat BY DEF TypeOK, History
  <2> QED BY <2>1, FieldTypes DEF History
<1>7. counted + before <= hist.sent BY DEF Counting
<1>8. counted' + after <= hist'.sent
  <2> HIDE DEF before, after
  <2> QED BY <1>4, <1>5, <1>6, <1>7
<1> QED BY <1>8 DEF Counting

\* A worker that leaves its slot c alone, or begins to count it, adds no other.
LEMMA WeighedKept ==
  ASSUME NEW w \in Workers, NEW c \in Slots, \A s \in Slots \ {c} : slots'[s] = slots[s],
         \A v \in Workers \ {w} : pc'[v] = pc[v] /\ cur'[v] = cur[v],
         pc'[w] = "account" => cur'[w] = c
  PROVE  /\ \A s \in Slots \ {c} : s \in Weighed' => s \in Weighed
         /\ (c \in Weighed' /\ pc'[w] # "account" /\ (slots'[c].active => slots[c].active)) => c \in Weighed
BY DEF Weighed

\* What a step of worker w does to the bytes of slot c, its own or one it has
\* asked for: they may become fewer, or one more if one more is sent.
LEMMA WorkerCounts ==
  ASSUME TypeOK, TypeOK', Control, Facts, Counting, NEW w \in Workers, Step(w) \/ Outside(w)
  PROVE  Counting'
<1> USE DEF At, Goto
<1>1. /\ \A v \in Workers \ {w} : pc'[v] = pc[v] /\ cur'[v] = cur[v]
      /\ ~WriteBytes(w) => hist'.sent = hist.sent
      /\ ~Account(w) => counted' = counted
  BY OthersKept, WorkerFrame DEF Frame
<1>2. /\ pc \in [Workers -> Labels] /\ slots \in [Slots -> SlotRecord] /\ cur \in [Workers -> Slots]
      /\ conns \in [Workers -> SUBSET Slots]
      /\ counted \in Nat /\ hist.sent \in Nat /\ \A s \in Slots : slots[s].bytes_sent \in Nat
  BY FieldTypes DEF TypeOK
<1>3. ASSUME UNCHANGED slots, ~Account(w), ~WriteBytes(w), pc'[w] # "account"
      PROVE  Counting'
  <2>1. PICK c \in Slots : TRUE BY <1>2
  <2>2. /\ \A s \in Slots \ {c} : slots'[s] = slots[s] /\ (s \in Weighed' => s \in Weighed)
        /\ c \in Weighed' => c \in Weighed
    BY <1>1, <1>3, WeighedKept
  <2> QED BY <1>1, <1>2, <1>3, <2>2, CountingStep
<1>4. ASSUME NEW c \in Slots, \A s \in Slots \ {c} : slots'[s] = slots[s], ~Account(w), ~WriteBytes(w),
             slots'[c].bytes_sent \in {0, slots[c].bytes_sent},
             slots'[c].bytes_sent = 0 \/ (slots'[c].active => slots[c].active),
             pc'[w] # "account"
      PROVE  Counting'
  <2>1. \A s \in Slots \ {c} : slots'[s] = slots[s] /\ (s \in Weighed' => s \in Weighed)
    BY <1>1, <1>4, WeighedKept
  <2>2. (c \in Weighed' /\ (slots'[c].active => slots[c].active)) => c \in Weighed
    BY <1>1, <1>4, WeighedKept
  <2>3. c \in Weighed' => slots'[c].bytes_sent <= (IF c \in Weighed THEN slots[c].bytes_sent ELSE 0) + 0
    BY <1>2, <1>4, <2>2
  <2>4. 0 <= (IF c \in Weighed THEN slots[c].bytes_sent ELSE 0) + 0
    BY <1>2
  <2> QED BY <1>1, <1>2, <1>4, <2>1, <2>3, <2>4, CountingStep
<1>5. ASSUME NEW c \in Slots, Unregister(w, c), ~Account(w), ~WriteBytes(w)
      PROVE  Counting'
  <2>1. /\ slots' = [slots EXCEPT ![c] = [slots[c] EXCEPT !.active = FALSE]]
        /\ pc'[w] = "account" /\ cur'[w] = c /\ slots[c].active
    BY <1>2, <1>5 DEF Unregister, Mine
  <2>2. slots'[c].bytes_sent = slots[c].bytes_sent BY <1>2, <2>1, PayloadEdits
  <2>3. \A s \in Slots \ {c} : slots'[s] = slots[s] BY <1>2, <2>1
  <2>4. \A s \in Slots \ {c} : s \in Weighed' => s \in Weighed
    BY <1>1, <2>1, <2>3, WeighedKept
  <2>5. c \in Weighed /\ c \in Weighed' BY <2>1 DEF Weighed
  <2>6. slots'[c].bytes_sent <= slots[c].bytes_sent + 0 BY <1>2, <2>2
  <2> QED BY <1>1, <1>2, <1>5, <2>3, <2>4, <2>5, <2>6, CountingStep
<1>6. CASE Account(w)
  <2> DEFINE c == cur[w]
  <2>1. /\ pc[w] = "account" /\ pc'[w] = "clear" /\ UNCHANGED slots /\ c \in Slots /\ UNCHANGED cur
        /\ counted' = counted + slots[c].bytes_sent
    BY <1>2, <1>6 DEF Account, local
  <2>2. c \in Weighed /\ ~slots[c].active /\ owner[c] = pid[w]
    BY <2>1, WritesItsOwn DEF Weighed, Facts, WorkerFacts, Hidden, Working
  <2>3. \A v \in Workers \ {w} : pc[v] = "account" => cur[v] # c
    BY <2>1, <2>2, OwnSlot DEF Working
  <2>4. c \notin Weighed' BY <1>1, <2>1, <2>2, <2>3 DEF Weighed
  <2>5. \A s \in Slots \ {c} : s \in Weighed' => s \in Weighed
    BY <1>1, <2>1 DEF Weighed
  <2>6. hist'.sent = hist.sent BY <1>1, <1>6, <2>1 DEF WriteBytes
  <2> DEFINE k == 0 - slots[c].bytes_sent
  <2> HIDE DEF c
  <2>7. k \in Int /\ 0 <= slots[c].bytes_sent + k /\ counted' + k <= counted + (hist'.sent - hist.sent)
    BY <1>2, <2>1, <2>6
  <2> HIDE DEF k
  <2> QED BY <2>1, <2>2, <2>4, <2>5, <2>7, CountingStep
<1>7. CASE WriteBytes(w)
  <2> DEFINE c == cur[w]
  <2>1. /\ pc[w] = "bytes" /\ pc'[w] = "bandwidth"
        /\ slots' = [slots EXCEPT ![c] = [slots[c] EXCEPT !.bytes_sent = slots[c].bytes_sent + 1]]
        /\ c \in Slots
    BY <1>2, <1>7 DEF WriteBytes
  <2>2. hist'.sent = hist.sent + 1
    <3>1. hist' = [hist EXCEPT !.sent = hist.sent + 1] /\ hist \in History
      BY <1>7 DEF WriteBytes, TypeOK
    <3> QED BY <3>1 DEF History
  <2>3. slots[c] \in SlotRecord /\ slots[c].bytes_sent + 1 \in Nat /\ slots[c].bytes_sent \in Nat
    BY <1>2, <2>1
  <2>4. slots'[c] = [slots[c] EXCEPT !.bytes_sent = slots[c].bytes_sent + 1]
    BY <1>2, <2>1
  <2>5. slots'[c].bytes_sent = slots[c].bytes_sent + 1 /\ slots'[c].active = slots[c].active
    BY <2>3, <2>4, PayloadEdits
  <2>6. \A s \in Slots \ {c} : slots'[s] = slots[s] BY <1>2, <2>1
  <2>7. counted' = counted BY <1>7 DEF WriteBytes
  <2> HIDE DEF c
  <2>8. \A s \in Slots \ {c} : s \in Weighed' => s \in Weighed
    BY <1>1, <2>1, <2>6, WeighedKept
  <2>9. c \in Weighed' => c \in Weighed BY <1>1, <2>1, <2>5, <2>6, WeighedKept
  <2>10. c \in Weighed' => slots'[c].bytes_sent <= (IF c \in Weighed THEN slots[c].bytes_sent ELSE 0) + 1
    BY <2>3, <2>5, <2>9
  <2>11. 0 <= (IF c \in Weighed THEN slots[c].bytes_sent ELSE 0) + 1
    BY <2>3
  <2>12. counted' + 1 <= counted + (hist'.sent - hist.sent) BY <1>2, <2>2, <2>7
  <2> QED BY <2>1, <2>6, <2>8, <2>10, <2>11, <2>12, CountingStep
<1>8. CASE ResetSlot(w) \/ Clear(w) \/ Number(w) \/ Fill(w) \/ Publish(w) \/ WriteBandwidth(w) \/ WriteEnd(w)
  <2> DEFINE c == cur[w]
  <2> DEFINE r == slots[c]
  <2>1. c \in Slots /\ pc[w] \notin {"account", "bytes"} /\ r \in SlotRecord
    BY <1>2, <1>8 DEF ResetSlot, Clear, Number, Fill, Publish, WriteBandwidth, WriteEnd
  <2>2. /\ r.generation + 1 \in Nat /\ r.current_bandwidth + 1 \in Nat /\ r.data_version + 1 \in Nat
        /\ job[w].client \in Nat
    BY <2>1, SlotFields, FieldTypes
  <2>3. pc'[w] # "account"
    BY <1>2, <1>8 DEF ResetSlot, Clear, Number, Fill, Publish, WriteBandwidth, WriteEnd
  <2>4. pc[w] = "publish" => r.bytes_sent = 0 BY DEF Facts, WorkerFacts
  <2>5. /\ \/ slots' = [slots EXCEPT ![c] = Reset(r)]
           \/ slots' = [slots EXCEPT ![c] = [r EXCEPT !.generation = r.generation + 1]]
           \/ slots' = [slots EXCEPT ![c] = [r EXCEPT !.id = job[w].client]]
           \/ slots' = [slots EXCEPT ![c] = [r EXCEPT !.active = TRUE]] /\ r.bytes_sent = 0
           \/ slots' = [slots EXCEPT ![c] = [r EXCEPT !.current_bandwidth = r.current_bandwidth + 1]]
           \/ slots' = [slots EXCEPT ![c] = [r EXCEPT !.data_version = r.data_version + 1]]
    BY <1>8, <2>4 DEF ResetSlot, Clear, Number, Fill, Publish, WriteBandwidth, WriteEnd
  <2>6. \A s \in Slots \ {c} : slots'[s] = slots[s] BY <1>2, <2>1, <2>5
  <2>7. \/ slots'[c] = Reset(r)
        \/ slots'[c] = [r EXCEPT !.generation = r.generation + 1]
        \/ slots'[c] = [r EXCEPT !.id = job[w].client]
        \/ slots'[c] = [r EXCEPT !.active = TRUE] /\ r.bytes_sent = 0
        \/ slots'[c] = [r EXCEPT !.current_bandwidth = r.current_bandwidth + 1]
        \/ slots'[c] = [r EXCEPT !.data_version = r.data_version + 1]
    BY <1>2, <2>1, <2>5
  <2>8. /\ slots'[c].bytes_sent \in {0, r.bytes_sent}
        /\ slots'[c].bytes_sent = 0 \/ (slots'[c].active => r.active)
    <3> HIDE DEF r, c
    <3>1. CASE slots'[c] = Reset(r) BY <2>1, <3>1, ResetEdits
    <3>2. CASE slots'[c] = [r EXCEPT !.generation = r.generation + 1]
      BY <2>1, <2>2, <3>2, SlotEdits
    <3>3. CASE slots'[c] = [r EXCEPT !.id = job[w].client] BY <2>1, <2>2, <3>3, PayloadEdits
    <3>4. CASE slots'[c] = [r EXCEPT !.active = TRUE] /\ r.bytes_sent = 0
      <4>1. [r EXCEPT !.active = TRUE].bytes_sent = r.bytes_sent
        BY <2>1, PayloadEdits
      <4> QED BY <3>4, <4>1
    <3>5. CASE slots'[c] = [r EXCEPT !.current_bandwidth = r.current_bandwidth + 1]
      BY <2>1, <2>2, <3>5, SlotEdits
    <3>6. CASE slots'[c] = [r EXCEPT !.data_version = r.data_version + 1]
      BY <2>1, <2>2, <3>6, SlotEdits
    <3> QED BY <2>7, <3>1, <3>2, <3>3, <3>4, <3>5, <3>6
  <2>9. ~Account(w) /\ ~WriteBytes(w) BY <2>1 DEF Account, WriteBytes
  <2> HIDE DEF c
  <2> QED BY <1>4, <2>1, <2>3, <2>6, <2>8, <2>9
<1>9. CASE WriteBegin(w)
  <2>1. PICK c \in conns[w] : slots' = [slots EXCEPT ![c].data_version = @ + 1]
    BY <1>9 DEF WriteBegin
  <2>2. c \in Slots /\ slots[c] \in SlotRecord BY <1>2
  <2>3. slots[c].data_version + 1 \in Nat BY <2>2, SlotFields
  <2>4. slots'[c] = [slots[c] EXCEPT !.data_version = slots[c].data_version + 1]
        /\ \A s \in Slots \ {c} : slots'[s] = slots[s]
    BY <1>2, <2>1, <2>2
  <2>5. slots'[c].bytes_sent = slots[c].bytes_sent /\ slots'[c].active = slots[c].active
    BY <2>2, <2>3, <2>4, SlotEdits
  <2>6. ~Account(w) /\ ~WriteBytes(w) /\ pc'[w] # "account"
    BY <1>2, <1>9 DEF WriteBegin, Account, WriteBytes
  <2> QED BY <1>4, <2>2, <2>4, <2>5, <2>6
<1>10. CASE StoreRequest(w)
  <2> DEFINE c == idx[w]
  <2>1. c \in Slots /\ job[w].generation \in Nat /\ pc[w] = "store"
    BY <1>10, FieldTypes DEF StoreRequest, TypeOK, Reading
  <2>2. slots'[c] = [slots[c] EXCEPT !.disconnect_requested = job[w].generation]
        /\ \A s \in Slots \ {c} : slots'[s] = slots[s]
    BY <1>2, <1>10, <2>1 DEF StoreRequest
  <2>3. slots'[c].bytes_sent = slots[c].bytes_sent /\ slots'[c].active = slots[c].active
    BY <1>2, <2>1, <2>2, SlotEdits
  <2>4. ~Account(w) /\ ~WriteBytes(w) /\ pc'[w] # "account"
    BY <1>2, <1>10, <2>1 DEF StoreRequest, Account, WriteBytes
  <2> HIDE DEF c
  <2> QED BY <1>4, <2>1, <2>2, <2>3, <2>4
<1>11. CASE ClientLeaves(w)
  <2>1. PICK s \in conns[w] : Unregister(w, s) BY <1>11 DEF ClientLeaves
  <2>2. s \in Slots /\ ~Account(w) /\ ~WriteBytes(w)
    BY <1>2, <1>11 DEF ClientLeaves, Account, WriteBytes
  <2> QED BY <1>5, <2>1, <2>2
<1>12. CASE Scan(w)
  <2>1. ~Account(w) /\ ~WriteBytes(w) BY <1>12 DEF Scan, Account, WriteBytes
  <2>2. PICK s \in job[w].todo :
          IF Requested(s) THEN Unregister(w, s)
            ELSE /\ Goto(w, IF job[w].todo # {s} THEN "scan" ELSE "idle")
                 /\ UNCHANGED <<shared, pid, idx, cnt, cur, conns, pipe, reaping, hist>>
    BY <1>12 DEF Scan
  <2>3. CASE Requested(s)
    <3>1. job[w] \in Job BY DEF TypeOK
    <3>2. s \in Slots BY <3>1 DEF Job
    <3> QED BY <1>5, <2>1, <2>2, <2>3, <3>2
  <2>4. CASE ~Requested(s) BY <1>2, <1>3, <2>1, <2>2, <2>4 DEF shared
  <2> QED BY <2>3, <2>4
<1>13. CASE ~Writes(w) /\ ~Account(w)
  <2>1. UNCHANGED slots /\ pc'[w] # "account" /\ ~WriteBytes(w)
    BY <1>13, WritesNothing DEF Writes
  <2> QED BY <1>3, <1>13, <2>1
<1> QED BY <1>6, <1>7, <1>8, <1>9, <1>10, <1>11, <1>12, <1>13 DEF Writes

\* What the supervisor takes from a client that was killed it counts itself;
\* what its worker had begun to count it does not count again.
LEMMA SupervisorCounts ==
  ASSUME TypeOK, TypeOK', Counting, Supervise
  PROVE  Counting'
<1> USE ClientSlotsAssumption
<1>1. UNCHANGED <<hist, cur>>
  BY DEF Supervise, ReapSlot, ReapLock, Waitpid, Spawn, local
<1>2. /\ slots \in [Slots -> SlotRecord] /\ counted \in Nat /\ hist.sent \in Nat
      /\ \A s \in Slots : slots[s].bytes_sent \in Nat
  BY FieldTypes DEF TypeOK
<1>3. ASSUME UNCHANGED <<slots, counted>>, \A v \in Workers : pc'[v] = "account" => pc[v] = "account"
      PROVE  Counting'
  <2>1. PICK c \in Slots : TRUE BY DEF Slots
  <2>2. \A s \in Slots : s \in Weighed' => s \in Weighed BY <1>1, <1>3 DEF Weighed
  <2>3. \A s \in Slots \ {c} : slots'[s] = slots[s] /\ (s \in Weighed' => s \in Weighed)
    BY <1>3, <2>2
  <2>4. c \in Weighed' => slots'[c].bytes_sent <= (IF c \in Weighed THEN slots[c].bytes_sent ELSE 0) + 0
    BY <1>2, <1>3, <2>2
  <2>5. 0 <= (IF c \in Weighed THEN slots[c].bytes_sent ELSE 0) + 0
    BY <1>2
  <2>6. counted' + 0 <= counted + (hist'.sent - hist.sent) BY <1>1, <1>2, <1>3
  <2> QED BY <2>3, <2>4, <2>5, <2>6, CountingStep
<1>4. CASE ReapSlot
  <2> DEFINE s == reaping.slot
  <2> DEFINE u == reaping.worker
  <2>1. s \in Slots /\ UNCHANGED pc BY <1>4 DEF ReapSlot, TypeOK, Slots
  <2>2. CASE LeftBehind(u, s)
    <3>1. /\ slots' = [slots EXCEPT ![s] = [Reset(slots[s]) EXCEPT !.active = FALSE]]
          /\ counted' = counted + Uncounted(s)
      BY <1>4, <2>2 DEF ReapSlot
    <3>2. slots[s] \in SlotRecord /\ Reset(slots[s]) \in SlotRecord
      BY <1>2, <2>1, SlotFields
    <3>3. slots'[s] = [Reset(slots[s]) EXCEPT !.active = FALSE] /\ \A q \in Slots \ {s} : slots'[q] = slots[q]
      BY <1>2, <2>1, <3>1
    <3>4. slots'[s].bytes_sent = 0 BY <3>2, <3>3, ResetEdits, PayloadEdits
    <3> DEFINE k == 0 - Uncounted(s)
    <3> HIDE DEF s
    <3>5. Uncounted(s) \in Nat BY <1>2, <2>1 DEF Uncounted
    <3>6. Uncounted(s) <= (IF s \in Weighed THEN slots[s].bytes_sent ELSE 0)
      BY <1>2, <2>1 DEF Uncounted, Weighed
    <3>7. \A q \in Slots \ {s} : slots'[q] = slots[q] /\ (q \in Weighed' => q \in Weighed)
      BY <1>1, <2>1, <3>3 DEF Weighed
    <3>8. (IF s \in Weighed THEN slots[s].bytes_sent ELSE 0) \in Nat
      BY <1>2, <2>1
    <3>9. k \in Int /\ 0 <= (IF s \in Weighed THEN slots[s].bytes_sent ELSE 0) + k
      BY <3>5, <3>6, <3>8
    <3>10. counted' + k <= counted + (hist'.sent - hist.sent) BY <1>1, <1>2, <3>1, <3>5
    <3> HIDE DEF k
    <3> QED BY <2>1, <3>4, <3>7, <3>9, <3>10, CountingStep
  <2>3. CASE ~LeftBehind(u, s)
    <3>1. UNCHANGED <<slots, counted>> BY <1>4, <2>3 DEF ReapSlot
    <3> QED BY <1>3, <2>1, <3>1
  <2> QED BY <2>2, <2>3
<1>5. CASE ReapLock \/ \E w \in Workers : Waitpid(w) \/ Spawn(w)
  <2>1. UNCHANGED <<slots, counted>> BY <1>5 DEF ReapLock, Waitpid, Spawn, shared
  <2>2. \A v \in Workers : pc'[v] = pc[v] \/ pc'[v] \in {"down", "idle"}
    BY <1>5 DEF ReapLock, Waitpid, Spawn, Goto, TypeOK
  <2> QED BY <1>3, <2>1, <2>2
<1> QED BY <1>4, <1>5 DEF Supervise

\* Nothing is sent or counted at first.
LEMMA InitCounts ==
  ASSUME Init
  PROVE  Counting
<1> USE ClientSlotsAssumption
<1>1. \A s \in Slots : slots[s].bytes_sent = 0 /\ ~slots[s].active
  BY DEF Init
<1>2. Weighed = {} BY <1>1 DEF Init, Weighed
<1>3. PICK f : AddsUp(f, Terms(slots, {}), NSlots) /\ SumIn(slots, {}) = f[NSlots]
  BY <1>1, SumInAddsUp
<1>4. PICK c \in Slots : TRUE BY DEF Slots
<1> DEFINE t == Terms(slots, {})
<1> DEFINE z == [n \in 0 .. NSlots |-> 0]
<1>5. t \in [Slots -> Nat] /\ \A s \in Slots : t[s] = 0 BY DEF Terms
<1>6. AddsUp(z, t, NSlots)
  <2> HIDE DEF t
  <2>1. \A n \in 1 .. NSlots : n - 1 \in Slots BY DEF Slots
  <2> QED BY <1>5, <2>1 DEF AddsUp
<1>7. f[NSlots] <= z[NSlots] + 0
  <2> HIDE DEF t, z
  <2> QED BY <1>3, <1>4, <1>5, <1>6, SumMoves DEF t
<1>8. SumIn(slots, Weighed) <= 0 BY <1>2, <1>3, <1>7
<1>9. SumIn(slots, Weighed) \in Nat BY <1>1, SumType
<1>10. counted = 0 /\ hist.sent = 0 BY DEF Init
<1> QED BY <1>8, <1>9, <1>10 DEF Counting

\* Every step keeps the count.
LEMMA StepCounts ==
  ASSUME IInv, IInv', Facts, Counting, [Next]_vars
  PROVE  Counting'
<1>0. TypeOK /\ TypeOK' /\ Control BY DEF IInv
<1>1. CASE Supervise BY <1>0, <1>1, SupervisorCounts
<1>2. ASSUME NEW w \in Workers, Step(w) \/ Outside(w)
      PROVE  Counting'
  BY <1>0, <1>2, WorkerCounts
<1>3. CASE UNCHANGED vars BY <1>3 DEF vars, Counting, Weighed
<1> QED BY <1>1, <1>2, <1>3 DEF Next

\* What is counted includes the bytes of every client that is still there.
LEMMA CountsEnough ==
  ASSUME TypeOK, Counting
  PROVE  BytesCountedOnce
<1> DEFINE A == {s \in Slots : slots[s].active}
<1>1. \A s \in Slots : slots[s].bytes_sent \in Nat BY FieldTypes
<1>2. PICK c \in Slots : TRUE BY ClientSlotsAssumption DEF Slots
<1>3. \A s \in Slots : s \in A => s \in Weighed BY DEF Weighed
<1>4. (IF c \in A THEN slots[c].bytes_sent ELSE 0) <= (IF c \in Weighed THEN slots[c].bytes_sent ELSE 0) + 0
  BY <1>1, <1>3
<1>5. \A s \in Slots \ {c} : s \in A => s \in Weighed /\ slots[s].bytes_sent <= slots[s].bytes_sent
  BY <1>1, <1>3
<1>6. SumIn(slots, A) <= SumIn(slots, Weighed) + 0
  <2> HIDE DEF A
  <2> QED BY <1>1, <1>2, <1>4, <1>5, SumChanges
<1>7. SumIn(slots, A) \in Nat /\ SumIn(slots, Weighed) \in Nat
  BY <1>1, SumType
<1>8. counted \in Nat /\ hist.sent \in Nat BY FieldTypes
<1>9. counted + SumIn(slots, A) <= hist.sent
  <2> HIDE DEF A
  <2> QED BY <1>6, <1>7, <1>8 DEF Counting
<1> QED BY <1>9, SumIsSum DEF BytesCountedOnce

\* What is read of the shared slots without a lock is acted on only for the
\* client it was read of: only clients somebody asked for are closed, and the
\* bytes of a client enter the total once, whether its worker counts them in
\* status_unregister_client or the supervisor in status_reap_worker.
THEOREM SharedReads == Spec => []SharedReadsAreSound
<1>1. Init => Facts /\ Counting BY InitReads, InitCounts
<1>2. IInv /\ IInv' /\ (Facts /\ Counting) /\ [Next]_vars => (Facts /\ Counting)'
  BY StepReads, StepCounts
<1>3. IInv /\ Facts /\ Counting => SharedReadsAreSound
  BY CountsEnough DEF IInv, Facts, SharedReadsAreSound
<1> QED BY <1>1, <1>2, <1>3, Invariance, PTL DEF Spec
=============================================================================
