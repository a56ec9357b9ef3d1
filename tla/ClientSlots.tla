---------------------------- MODULE ClientSlots ----------------------------
(***************************************************************************)
(* The client slots in shared memory (status.c): worker processes admit    *)
(* clients up to config.maxclients under a spin lock named by the PID of   *)
(* its holder, publish and update their statistics, and free them; any     *)
(* worker reads the slots and asks for a client to be disconnected; the    *)
(* supervisor takes back what a worker that was killed left behind         *)
(* (status_reap_worker, supervisor_run).                                   *)
(*                                                                         *)
(* A step is one access to an atomic of the shared memory, or one write of *)
(* the payload; a worker may be killed between any two.  Memory is         *)
(* sequentially consistent.                                                *)
(***************************************************************************)
EXTENDS Integers, FiniteSets

CONSTANTS
  Workers,      \* worker indexes
  Pids,         \* process ids
  NSlots,       \* STATUS_MAX_CLIENTS
  MaxClients,   \* config.maxclients
  SNAPSHOT_ATTEMPTS,
  MaxStarts,    \* bound: clients that ask for a stream
  MaxUpdates,   \* bound: updates of statistics
  MaxRequests,  \* bound: disconnect requests
  MaxCrashes    \* bound: workers killed

NoPid == 0
NoClient == 0
Slots == 0 .. (NSlots - 1)
Clients == 1 .. MaxStarts

ASSUME ClientSlotsAssumption ==
  /\ NSlots \in Nat \ {0} /\ MaxClients \in 1 .. NSlots /\ MaxStarts \in Nat
  /\ NoPid \notin Pids /\ NoPid \notin Workers

VARIABLES
  lock,     \* client_admission_owner_pid
  owner,    \* owner_pid of every slot
  slots,    \* the other fields of every slot
  counted,  \* client_bytes_cumulative, summed over the workers
  pid, pc,  \* process of every worker, where it is
  idx, cnt, \* its loop variables
  cur,      \* the slot it registers, updates or frees
  conns,    \* status_index of its connections
  job,      \* what it reads and for whom
  pipe,     \* a disconnect event waits in the worker's pipe
  reaping,  \* supervisor: the dead worker and the next slot to look at
  hist      \* history: starts, updates, requests and crashes so far, clients
            \* promised to go, asked for and closed on request, bytes sent

shared == <<lock, owner, slots, counted>>
local == <<idx, cnt, cur, conns, job>>
vars == <<lock, owner, slots, counted, pid, pc, idx, cnt, cur, conns, job, pipe, reaping, hist>>

NoWorker == [worker |-> NoPid, slot |-> 0]
NoJob == [client |-> NoClient, tries |-> 0, version |-> 0, generation |-> 0,
          id |-> NoClient, bytes_sent |-> 0, current_bandwidth |-> 0, todo |-> {}]

\* reset_client_payload of slot record s.
Reset(s) == [s EXCEPT !.id = NoClient, !.bytes_sent = 0, !.current_bandwidth = 0,
                      !.disconnect_requested = 0, !.data_version = 0]

\* status_init, and the first workers spawned.
Init ==
  /\ lock = NoPid
  /\ owner = [s \in Slots |-> NoPid]
  /\ slots = [s \in Slots |->
       [active |-> FALSE, generation |-> 0, disconnect_requested |-> 0, data_version |-> 0,
        id |-> NoClient, bytes_sent |-> 0, current_bandwidth |-> 0]]
  /\ counted = 0
  /\ pid = [w \in Workers |-> NoPid]
  /\ pc = [w \in Workers |-> "down"]
  /\ idx = [w \in Workers |-> 0] /\ cnt = [w \in Workers |-> 0] /\ cur = [w \in Workers |-> 0]
  /\ conns = [w \in Workers |-> {}]
  /\ job = [w \in Workers |-> NoJob]
  /\ pipe = [w \in Workers |-> FALSE]
  /\ reaping = NoWorker
  /\ hist = [starts |-> 0, updates |-> 0, requests |-> 0, crashes |-> 0,
             promised |-> {}, asked |-> {}, closed |-> {}, sent |-> 0]

At(w, l) == pc[w] = l
Goto(w, l) == pc' = [pc EXCEPT ![w] = l]

\* The local variables of a function that returns.
Return(w) ==
  /\ idx' = [idx EXCEPT ![w] = 0] /\ cnt' = [cnt EXCEPT ![w] = 0] /\ cur' = [cur EXCEPT ![w] = 0]
  /\ job' = [job EXCEPT ![w] = NoJob]

-----------------------------------------------------------------------------
(* status_register_client *)

Register(w) ==
  /\ At(w, "idle") /\ hist.starts < MaxStarts
  /\ Goto(w, "lock")
  /\ job' = [job EXCEPT ![w].client = hist.starts + 1]
  /\ hist' = [hist EXCEPT !.starts = @ + 1]
  /\ UNCHANGED <<shared, pid, idx, cnt, cur, conns, pipe, reaping>>

\* lock_client_admission: compare and exchange, again until it succeeds.
Lock(w) ==
  /\ At(w, "lock") /\ lock = NoPid
  /\ lock' = pid[w]
  /\ Goto(w, "count")
  /\ UNCHANGED <<owner, slots, counted, pid, local, pipe, reaping, hist>>

\* client_capacity_is_available, slot by slot.
Count(w) ==
  /\ At(w, "count") /\ idx[w] < NSlots
  /\ cnt' = [cnt EXCEPT ![w] = IF owner[idx[w]] # NoPid THEN @ + 1 ELSE @]
  /\ idx' = [idx EXCEPT ![w] = @ + 1]
  /\ UNCHANGED <<shared, pid, pc, cur, conns, job, pipe, reaping, hist>>

Available(w) == cnt[w] < MaxClients

\* Slip: the search for a slot goes on where the count ended.
Counted_NoReset(w) ==
  /\ At(w, "count") /\ idx[w] = NSlots
  /\ Goto(w, IF Available(w) THEN "reserve" ELSE "refuse")
  /\ cnt' = [cnt EXCEPT ![w] = 0]
  /\ UNCHANGED <<shared, pid, idx, cur, conns, job, pipe, reaping, hist>>

Counted(w) ==
  /\ At(w, "count") /\ idx[w] = NSlots
  /\ Goto(w, IF Available(w) THEN "reserve" ELSE "refuse")
  /\ idx' = [idx EXCEPT ![w] = 0] /\ cnt' = [cnt EXCEPT ![w] = 0]
  /\ UNCHANGED <<shared, pid, cur, conns, job, pipe, reaping, hist>>

\* unlock_client_admission: only the holder's own lock.
Unlocked(w) == IF lock = pid[w] THEN NoPid ELSE lock

Refuse(w) ==
  /\ At(w, "refuse")
  /\ lock' = Unlocked(w)
  /\ Return(w) /\ Goto(w, "idle")
  /\ UNCHANGED <<owner, slots, counted, pid, conns, pipe, reaping, hist>>

\* The first free slot becomes this worker's; the loop always finds one
\* (SlotIsFound), so "No free client slots in status tracking" is never logged.
Reserve(w) ==
  /\ At(w, "reserve") /\ idx[w] < NSlots
  /\ IF owner[idx[w]] = NoPid
       THEN /\ owner' = [owner EXCEPT ![idx[w]] = pid[w]]
            /\ cur' = [cur EXCEPT ![w] = idx[w]]
            /\ idx' = [idx EXCEPT ![w] = 0]
            /\ Goto(w, "unlock")
       ELSE /\ idx' = [idx EXCEPT ![w] = @ + 1]
            /\ UNCHANGED <<owner, cur, pc>>
  /\ UNCHANGED <<lock, slots, counted, pid, cnt, conns, job, pipe, reaping, hist>>

Unlock(w) ==
  /\ At(w, "unlock")
  /\ lock' = Unlocked(w)
  /\ Goto(w, "reset")
  /\ UNCHANGED <<owner, slots, counted, pid, local, pipe, reaping, hist>>

\* The new payload, in the order the code writes it: cleared, numbered, filled,
\* published.
ResetSlot(w) ==
  /\ At(w, "reset")
  /\ slots' = [slots EXCEPT ![cur[w]] = Reset(@)]
  /\ Goto(w, "number")
  /\ UNCHANGED <<lock, owner, counted, pid, local, pipe, reaping, hist>>

\* Slip: a slot that is used again keeps its number.
Number_Once(w) ==
  /\ At(w, "number")
  /\ slots' = [slots EXCEPT ![cur[w]].generation = 1]
  /\ Goto(w, "fill")
  /\ UNCHANGED <<lock, owner, counted, pid, local, pipe, reaping, hist>>

Number(w) ==
  /\ At(w, "number")
  /\ slots' = [slots EXCEPT ![cur[w]].generation = @ + 1]
  /\ Goto(w, "fill")
  /\ UNCHANGED <<lock, owner, counted, pid, local, pipe, reaping, hist>>

Fill(w) ==
  /\ At(w, "fill")
  /\ slots' = [slots EXCEPT ![cur[w]].id = job[w].client]
  /\ Goto(w, "publish")
  /\ UNCHANGED <<lock, owner, counted, pid, local, pipe, reaping, hist>>

Publish(w) ==
  /\ At(w, "publish")
  /\ slots' = [slots EXCEPT ![cur[w]].active = TRUE]
  /\ conns' = [conns EXCEPT ![w] = @ \cup {cur[w]}]
  /\ Return(w) /\ Goto(w, "idle")
  /\ UNCHANGED <<lock, owner, counted, pid, pipe, reaping, hist>>

-----------------------------------------------------------------------------
(* status_update_client_bytes, as all updates between client_write_begin    *)
(* and client_write_end: the two fields stand for the payload.              *)

Mine(w, s) == owner[s] = pid[w] /\ slots[s].active

WriteBegin(w) ==
  /\ At(w, "idle") /\ hist.updates < MaxUpdates
  /\ \E s \in conns[w] :
       /\ Mine(w, s)
       /\ cur' = [cur EXCEPT ![w] = s]
       /\ slots' = [slots EXCEPT ![s].data_version = @ + 1]
  /\ Goto(w, "bytes")
  /\ hist' = [hist EXCEPT !.updates = @ + 1]
  /\ UNCHANGED <<lock, owner, counted, pid, idx, cnt, conns, job, pipe, reaping>>

WriteBytes(w) ==
  /\ At(w, "bytes")
  /\ slots' = [slots EXCEPT ![cur[w]].bytes_sent = @ + 1]
  /\ hist' = [hist EXCEPT !.sent = @ + 1]
  /\ Goto(w, "bandwidth")
  /\ UNCHANGED <<lock, owner, counted, pid, local, pipe, reaping>>

WriteBandwidth(w) ==
  /\ At(w, "bandwidth")
  /\ slots' = [slots EXCEPT ![cur[w]].current_bandwidth = @ + 1]
  /\ Goto(w, "end")
  /\ UNCHANGED <<lock, owner, counted, pid, local, pipe, reaping, hist>>

WriteEnd(w) ==
  /\ At(w, "end")
  /\ slots' = [slots EXCEPT ![cur[w]].data_version = @ + 1]
  /\ Return(w) /\ Goto(w, "idle")
  /\ UNCHANGED <<lock, owner, counted, pid, conns, pipe, reaping, hist>>

-----------------------------------------------------------------------------
(* status_unregister_client, for a connection that is closed *)

Unregister(w, s) ==
  /\ Mine(w, s)
  /\ slots' = [slots EXCEPT ![s].active = FALSE]
  /\ cur' = [cur EXCEPT ![w] = s]
  /\ conns' = [conns EXCEPT ![w] = @ \ {s}]
  /\ Goto(w, "account")
  /\ UNCHANGED <<lock, owner, counted, pid, idx, cnt, pipe, reaping>>

ClientLeaves(w) ==
  /\ At(w, "idle")
  /\ \E s \in conns[w] : Unregister(w, s)
  /\ UNCHANGED <<job, hist>>

Account(w) ==
  /\ At(w, "account")
  /\ counted' = counted + slots[cur[w]].bytes_sent
  /\ Goto(w, "clear")
  /\ UNCHANGED <<lock, owner, slots, pid, local, pipe, reaping, hist>>

Clear(w) ==
  /\ At(w, "clear")
  /\ slots' = [slots EXCEPT ![cur[w]] = Reset(@)]
  /\ Goto(w, "free")
  /\ UNCHANGED <<lock, owner, counted, pid, local, pipe, reaping, hist>>

Free(w) ==
  /\ At(w, "free")
  /\ owner' = [owner EXCEPT ![cur[w]] = NoPid]
  /\ cur' = [cur EXCEPT ![w] = 0]
  /\ Goto(w, IF job[w].todo # {} THEN "scan" ELSE "idle")
  /\ UNCHANGED <<lock, slots, counted, pid, idx, cnt, conns, job, pipe, reaping, hist>>

-----------------------------------------------------------------------------
(* handle_disconnect_client: looks for the client in snapshots of all slots *)

Request(w) ==
  /\ At(w, "idle") /\ hist.requests < MaxRequests
  /\ \E c \in 1 .. hist.starts :
       /\ job' = [job EXCEPT ![w] = [NoJob EXCEPT !.client = c]]
       /\ hist' = [hist EXCEPT !.requests = @ + 1, !.asked = @ \cup {c}]
  /\ Goto(w, "active")
  /\ UNCHANGED <<shared, pid, idx, cnt, cur, conns, pipe, reaping>>

LastSlot(w) == idx[w] = NSlots - 1

NextSlot(w) ==
  /\ idx' = [idx EXCEPT ![w] = IF LastSlot(w) THEN 0 ELSE @ + 1]
  /\ job' = [job EXCEPT ![w] = IF LastSlot(w) THEN NoJob ELSE [NoJob EXCEPT !.client = job[w].client]]
  /\ Goto(w, IF LastSlot(w) THEN "idle" ELSE "active")

\* snapshot_client: a failed attempt is repeated.
Retry(w) ==
  IF job[w].tries + 1 < SNAPSHOT_ATTEMPTS
    THEN /\ job' = [job EXCEPT ![w].tries = @ + 1]
         /\ Goto(w, "active")
         /\ UNCHANGED idx
    ELSE NextSlot(w)

ReadActive(w) ==
  /\ At(w, "active")
  /\ IF slots[idx[w]].active THEN Goto(w, "version") /\ UNCHANGED <<idx, job>> ELSE NextSlot(w)
  /\ UNCHANGED <<shared, pid, cnt, cur, conns, pipe, reaping, hist>>

ReadVersion(w) ==
  /\ At(w, "version")
  /\ IF slots[idx[w]].data_version % 2 = 0
       THEN /\ job' = [job EXCEPT ![w].version = slots[idx[w]].data_version]
            /\ Goto(w, "generation")
            /\ UNCHANGED idx
       ELSE Retry(w)
  /\ UNCHANGED <<shared, pid, cnt, cur, conns, pipe, reaping, hist>>

ReadGeneration(w) ==
  /\ At(w, "generation")
  /\ job' = [job EXCEPT ![w].generation = slots[idx[w]].generation]
  /\ Goto(w, "copy")
  /\ UNCHANGED <<shared, pid, idx, cnt, cur, conns, pipe, reaping, hist>>

\* memcpy, in two parts.
Copy(w) ==
  /\ At(w, "copy")
  /\ job' = [job EXCEPT ![w].id = slots[idx[w]].id, ![w].bytes_sent = slots[idx[w]].bytes_sent]
  /\ Goto(w, "copy2")
  /\ UNCHANGED <<shared, pid, idx, cnt, cur, conns, pipe, reaping, hist>>

CopyRest(w) ==
  /\ At(w, "copy2")
  /\ job' = [job EXCEPT ![w].current_bandwidth = slots[idx[w]].current_bandwidth]
  /\ Goto(w, "check")
  /\ UNCHANGED <<shared, pid, idx, cnt, cur, conns, pipe, reaping, hist>>

Unchanged(w) ==
  LET s == slots[idx[w]]
  IN  s.data_version = job[w].version /\ s.generation = job[w].generation /\ s.active

Check(w) ==
  /\ At(w, "check")
  /\ IF Unchanged(w) THEN Goto(w, "compare") /\ UNCHANGED <<idx, job>> ELSE Retry(w)
  /\ UNCHANGED <<shared, pid, cnt, cur, conns, pipe, reaping, hist>>

Compare(w) ==
  /\ At(w, "compare")
  /\ IF job[w].id = job[w].client THEN Goto(w, "store") /\ UNCHANGED <<idx, job>> ELSE NextSlot(w)
  /\ UNCHANGED <<shared, pid, cnt, cur, conns, pipe, reaping, hist>>

StoreRequest(w) ==
  /\ At(w, "store")
  /\ slots' = [slots EXCEPT ![idx[w]].disconnect_requested = job[w].generation]
  /\ Goto(w, "found")
  /\ UNCHANGED <<lock, owner, counted, pid, local, pipe, reaping, hist>>

\* Slip: only the worker that got the request looks for it.
Wake_Self(w) == [pipe EXCEPT ![w] = TRUE]

\* status_trigger_event writes to the pipes of all workers.
Wake(w) == [v \in Workers |-> TRUE]

\* The client is still there: wake all workers and answer that it will go.
Found(w) ==
  /\ At(w, "found")
  /\ IF slots[idx[w]].active /\ slots[idx[w]].generation = job[w].generation
       THEN Goto(w, "trigger") /\ UNCHANGED <<idx, job>>
       ELSE NextSlot(w)
  /\ UNCHANGED <<shared, pid, cnt, cur, conns, pipe, reaping, hist>>

Trigger(w) ==
  /\ At(w, "trigger")
  /\ pipe' = Wake(w)
  /\ hist' = [hist EXCEPT !.promised = @ \cup {job[w].client}]
  /\ Return(w) /\ Goto(w, "idle")
  /\ UNCHANGED <<shared, pid, conns, reaping>>

-----------------------------------------------------------------------------
(* worker_run_event_loop: STATUS_EVENT_DISCONNECT_REQUEST *)

ReadPipe(w) ==
  /\ At(w, "idle") /\ pipe[w]
  /\ pipe' = [pipe EXCEPT ![w] = FALSE]
  /\ job' = [job EXCEPT ![w] = [NoJob EXCEPT !.todo = conns[w]]]
  /\ Goto(w, IF conns[w] # {} THEN "scan" ELSE "idle")
  /\ UNCHANGED <<shared, pid, idx, cnt, cur, conns, reaping, hist>>

Requested(s) ==
  /\ slots[s].disconnect_requested # 0
  /\ slots[s].disconnect_requested = slots[s].generation
  /\ slots[s].active

Scan(w) ==
  /\ At(w, "scan")
  /\ \E s \in job[w].todo :
       /\ job' = [job EXCEPT ![w].todo = @ \ {s}]
       /\ IF Requested(s)
            THEN /\ Unregister(w, s)
                 /\ hist' = [hist EXCEPT !.closed = @ \cup {slots[s].id}]
            ELSE /\ Goto(w, IF job[w].todo # {s} THEN "scan" ELSE "idle")
                 /\ UNCHANGED <<shared, pid, idx, cnt, cur, conns, pipe, reaping, hist>>

-----------------------------------------------------------------------------
(* Crashes, and the supervisor *)

Crash(w) ==
  /\ pc[w] \notin {"down", "dead"} /\ hist.crashes < MaxCrashes
  /\ Goto(w, "dead") /\ Return(w)
  /\ conns' = [conns EXCEPT ![w] = {}]
  /\ hist' = [hist EXCEPT !.crashes = @ + 1]
  /\ UNCHANGED <<shared, pid, pipe, reaping>>

\* waitpid reports the worker.
Waitpid(w) ==
  /\ At(w, "dead") /\ reaping = NoWorker
  /\ reaping' = [worker |-> w, slot |-> 0]
  /\ UNCHANGED <<shared, pid, pc, local, pipe, hist>>

\* Slips: every slot is taken; a slot that was not published yet is not taken.
LeftBehind_All(w, s) == owner[s] # NoPid

LeftBehind(w, s) == owner[s] = pid[w]

\* Bytes of a client its worker had not begun to unregister.
Uncounted(s) == IF slots[s].active THEN slots[s].bytes_sent ELSE 0

\* status_reap_worker takes one slot back; only readers look at it meanwhile.
ReapSlot ==
  LET s == reaping.slot
  IN  /\ reaping # NoWorker /\ s < NSlots
      /\ reaping' = [reaping EXCEPT !.slot = s + 1]
      /\ IF LeftBehind(reaping.worker, s)
           THEN /\ counted' = counted + Uncounted(s)
                /\ slots' = [slots EXCEPT ![s] = [Reset(@) EXCEPT !.active = FALSE]]
                /\ owner' = [owner EXCEPT ![s] = NoPid]
           ELSE UNCHANGED <<counted, slots, owner>>
      /\ UNCHANGED <<lock, pid, pc, local, pipe, hist>>

\* Slips: the lock is opened whoever holds it, or by no one.
Reaped_Any(w) == NoPid
Reaped_Keep(w) == lock

\* It takes the lock from the dead worker w.
Reaped(w) == IF lock = pid[w] THEN NoPid ELSE lock

\* The worker's index is then free again.
ReapLock ==
  LET w == reaping.worker
  IN  /\ reaping # NoWorker /\ reaping.slot = NSlots
      /\ lock' = Reaped(w)
      /\ pid' = [pid EXCEPT ![w] = NoPid]
      /\ Goto(w, "down")
      /\ reaping' = NoWorker
      /\ UNCHANGED <<owner, slots, counted, local, pipe, hist>>

\* spawn_worker: a process id that no child has, possibly one used before.
Spawn(w) ==
  /\ At(w, "down") /\ reaping = NoWorker
  /\ \E p \in Pids :
       /\ \A v \in Workers : pid[v] # p
       /\ pid' = [pid EXCEPT ![w] = p]
  /\ Goto(w, "idle")
  /\ UNCHANGED <<shared, local, pipe, reaping, hist>>

-----------------------------------------------------------------------------
\* What a worker does on its own once it began.
Step(w) ==
  \/ Lock(w) \/ Count(w) \/ Counted(w) \/ Refuse(w) \/ Reserve(w) \/ Unlock(w)
  \/ ResetSlot(w) \/ Number(w) \/ Fill(w) \/ Publish(w)
  \/ WriteBytes(w) \/ WriteBandwidth(w) \/ WriteEnd(w)
  \/ Account(w) \/ Clear(w) \/ Free(w)
  \/ ReadActive(w) \/ ReadVersion(w) \/ ReadGeneration(w) \/ Copy(w) \/ CopyRest(w)
  \/ Check(w) \/ Compare(w) \/ StoreRequest(w) \/ Found(w) \/ Trigger(w)
  \/ ReadPipe(w) \/ Scan(w)

Outside(w) == Register(w) \/ WriteBegin(w) \/ ClientLeaves(w) \/ Request(w) \/ Crash(w)

Supervise == ReapSlot \/ ReapLock \/ \E w \in Workers : Waitpid(w) \/ Spawn(w)

Next == Supervise \/ \E w \in Workers : Step(w) \/ Outside(w)

\* Every process that can run is scheduled.
Spec == Init /\ [][Next]_vars /\ WF_vars(Supervise) /\ \A w \in Workers : WF_vars(Step(w))

-----------------------------------------------------------------------------
Labels == {"down", "dead", "idle", "lock", "count", "refuse", "reserve", "unlock", "reset", "number",
           "fill", "publish", "bytes", "bandwidth", "end", "account", "clear", "free", "active",
           "version", "generation", "copy", "copy2", "check", "compare", "store", "found",
           "trigger", "scan"}

Reading == {"active", "version", "generation", "copy", "copy2", "check", "compare", "store", "found", "trigger"}

SlotRecord == [active : BOOLEAN, generation : Nat, disconnect_requested : Nat, data_version : Nat,
               id : Nat, bytes_sent : Nat, current_bandwidth : Nat]
Job == [client : Nat, tries : Nat, version : Nat, generation : Nat,
        id : Nat, bytes_sent : Nat, current_bandwidth : Nat, todo : SUBSET Slots]
History == [starts : Nat, updates : Nat, requests : Nat, crashes : Nat,
            promised : SUBSET Nat, asked : SUBSET Nat, closed : SUBSET Nat, sent : Nat]

\* Types; no loop reads or writes past the last slot.
TypeOK ==
  /\ lock \in Pids \cup {NoPid}
  /\ owner \in [Slots -> Pids \cup {NoPid}]
  /\ slots \in [Slots -> SlotRecord]
  /\ counted \in Nat
  /\ pid \in [Workers -> Pids \cup {NoPid}]
  /\ pc \in [Workers -> Labels]
  /\ idx \in [Workers -> 0 .. NSlots] /\ cnt \in [Workers -> Nat]
  /\ cur \in [Workers -> Slots]
  /\ conns \in [Workers -> SUBSET Slots]
  /\ job \in [Workers -> Job]
  /\ pipe \in [Workers -> BOOLEAN]
  /\ reaping \in [worker : Workers \cup {NoPid}, slot : 0 .. NSlots]
  /\ hist \in History
  /\ \A w \in Workers : pc[w] \in Reading => idx[w] \in Slots

Reserved == {s \in Slots : owner[s] # NoPid}

\* Never are more clients admitted than maxclients, whichever workers are killed
\* with or without the lock.
AdmissionBound == Cardinality(Reserved) <= MaxClients

\* A worker that was let in finds a slot: one that is free lies ahead of its
\* search, whatever the others and the supervisor free behind it meanwhile.
SlotIsFound ==
  \A w \in Workers : pc[w] = "reserve" => \E s \in Slots : s >= idx[w] /\ owner[s] = NoPid

\* The slot a worker fills, updates or frees is its own, so no two workers ever
\* write one slot, and none writes a slot the supervisor has taken back.
Working == {"unlock", "reset", "number", "fill", "publish", "bytes", "bandwidth", "end",
            "account", "clear", "free"}
SlotsAreOwned ==
  \A w \in Workers : pc[w] \notin {"down", "dead"} =>
    /\ pc[w] \in Working => owner[cur[w]] = pid[w]
    /\ \A s \in conns[w] : owner[s] = pid[w]

\* A request closes only the client it names, also if another one has its slot
\* by the time the request is stored or read.
OnlyRequestedClosed == hist.closed \subseteq hist.asked

\* Total traffic: bytes of a client are counted once, whenever its worker dies.
Sum(S) == LET f[n \in 0 .. NSlots] == IF n = 0 THEN 0
                 ELSE f[n - 1] + (IF n - 1 \in S THEN slots[n - 1].bytes_sent ELSE 0)
          IN  f[NSlots]
BytesCountedOnce == counted + Sum({s \in Slots : slots[s].active}) <= hist.sent

\* A client whose disconnection was answered with success goes.
DisconnectHonoured ==
  \A c \in Clients : c \in hist.promised ~> ~\E s \in Slots : slots[s].active /\ slots[s].id = c

\* Nobody keeps the admission lock, not even a dead worker.
LockIsReleased == lock # NoPid ~> lock = NoPid

\* Slots of a dead worker come back.
DeadSlotsReturn ==
  \A s \in Slots : (\E w \in Workers : pc[w] = "dead" /\ owner[s] = pid[w]) ~> owner[s] = NoPid

\* What is read from shared memory without a lock is acted on only for the
\* client it was read of: requests to disconnect, byte counts.
SharedReadsAreSound == OnlyRequestedClosed /\ BytesCountedOnce

\* "1 once payload is fully published" (status.h, active) and "Odd while payload
\* statistics are being updated" (status.h, data_version): a snapshot that
\* snapshot_client accepted is that of a published client, between two updates.
SnapshotIsWhole ==
  \A w \in Workers : pc[w] = "compare" =>
    job[w].id # NoClient /\ job[w].bytes_sent = job[w].current_bandwidth

\* What a worker held when it died comes back: the lock and its slots.
DeathIsCleanedUp == LockIsReleased /\ DeadSlotsReturn
=============================================================================
