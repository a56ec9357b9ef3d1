----------------------------- MODULE SendQueue ------------------------------
(***************************************************************************)
(* The way one HTTP client connection sends: the zero-copy queue of        *)
(* zerocopy.c, the write path of connection.c and the client-socket branch *)
(* of the event loop of worker.c, with the kernel socket, the client and   *)
(* the edge-triggered poller they talk to.                                 *)
(*                                                                         *)
(* Data is counted in units.  A queue entry is a pool buffer ("mem") or a  *)
(* file to sendfile() ("file") and is named by the order in which it was   *)
(* queued; a unit on its way is named by its entry.  One sendmsg() is one  *)
(* step: the kernel and the client run between two of them.                *)
(***************************************************************************)
EXTENDS Naturals, Sequences, SequencesExt, FiniteSets

CONSTANTS
  MAX_IOVECS,   \* ZEROCOPY_MAX_IOVECS
  BATCH_BYTES,  \* ZEROCOPY_BATCH_BYTES, in units
  QueueLimit,   \* connection_update_queue_limit, in entries
  SocketSpace,  \* units the kernel's socket buffer holds
  IdSpace,      \* 2^32: zero-copy identifiers wrap
  SoZerocopy,   \* can SO_ZEROCOPY be set? not on a Unix-domain client
  MaxEntries,   \* bound: entries queued in one behaviour
  MaxLength     \* bound: units of an entry

ASSUME SendQueueAssumption ==
  /\ {MAX_IOVECS, BATCH_BYTES, QueueLimit, SocketSpace, IdSpace} \subseteq Nat \ {0}
  /\ {MaxEntries, MaxLength} \subseteq Nat \ {0}
  /\ IdSpace > SocketSpace
  /\ SoZerocopy \subseteq BOOLEAN

VARIABLES
  zerocopy,     \* config.zerocopy_on_send
  zc_enabled,   \* c->zerocopy_enabled: SO_ZEROCOPY is set on the socket
  streaming,    \* c->streaming
  state,        \* c->state: "OPEN", "CLOSING", or "FREED" once it is freed
  writing,      \* connection_handle_write: "no", "entered", or "sent" (total_sent > 0)
  queue,        \* queue->head ... tail
  total_bytes,  \* queue->total_bytes
  num_queued,   \* queue->num_queued
  pending,      \* queue->pending_head ... pending_tail
  num_pending,  \* queue->num_pending
  next_id,      \* queue->next_zerocopy_id
  out_armed,    \* POLLER_OUT is in the mask of the client socket
  ready,        \* the client socket is on the poller's ready list
  sock,         \* units in the kernel's send buffer, with their sendmsg id
  errqueue,     \* completion ranges on MSG_ERRQUEUE
  received,     \* units the client has read
  client,       \* "idle", "sent" (unread request bytes) or "gone" (hung up)
  accepted,     \* units accepted into the queue, in order
  entries,      \* number of entries accepted
  released      \* how often the queue's reference on each entry was dropped

queueVars  == <<queue, total_bytes, num_queued>>
pendVars   == <<pending, num_pending>>
kernelVars == <<sock, errqueue, received, client>>
vars == <<zerocopy, zc_enabled, streaming, state, writing, queue, total_bytes, num_queued,
          pending, num_pending, next_id, out_armed, ready, sock, errqueue,
          received, client, accepted, entries, released>>

Entry == 1 .. MaxEntries
NoId == IdSpace   \* the unit was copied by the kernel, not pinned

Alive == state # "FREED"
Writing == writing # "no"
Units(e, n) == [i \in 1 .. n |-> e]
UnitsOf(x, kinds) == IF x.kind \in kinds THEN Units(x.entry, x.len) ELSE <<>>
Spell(q, kinds) == FlattenSeq([i \in 1 .. Len(q) |-> UnitsOf(q[i], kinds)])
Remaining(q) == Spell(q, {"mem", "file"})
Length(q) == Len(Remaining(q))
EntriesOf(s) == {s[i].entry : i \in 1 .. Len(s)}

Writable == Len(sock) < SocketSpace
InFlight(id) == \E i \in 1 .. Len(sock) : sock[i].id = id

Init ==
  /\ zerocopy \in BOOLEAN
  /\ zc_enabled \in (IF zerocopy THEN SoZerocopy ELSE {FALSE})
  /\ streaming \in BOOLEAN
  /\ state = "OPEN"
  /\ writing = "no"
  /\ queue = <<>> /\ total_bytes = 0 /\ num_queued = 0
  /\ pending = <<>> /\ num_pending = 0 /\ next_id = 0
  /\ out_armed = FALSE
  /\ ready = FALSE
  /\ sock = <<>> /\ errqueue = <<>> /\ received = <<>> /\ client = "idle"
  /\ accepted = <<>> /\ entries = 0
  /\ released = [e \in Entry |-> 0]

-----------------------------------------------------------------------------

\* zerocopy_queue_add and zerocopy_queue_add_file; files do not count in total_bytes.
Append1(kind, n) ==
  /\ entries < MaxEntries
  /\ entries' = entries + 1
  /\ queue' = Append(queue, [entry |-> entries + 1, kind |-> kind, len |-> n])
  /\ num_queued' = num_queued + 1
  /\ total_bytes' = IF kind = "mem" THEN total_bytes + n ELSE total_bytes
  /\ accepted' = accepted \o Units(entries + 1, n)

\* connection_epoll_update_events(... POLLER_OUT ...): modifying the mask polls
\* the socket again, so an already writable one becomes ready.
Arm == out_armed' = TRUE /\ ready' = (ready \/ Writable)

\* connection_queue_zerocopy: the queue limit counts whole buffers; POLLER_OUT
\* is armed only once a batch is complete (zerocopy_should_flush).  Over the
\* limit the packet is dropped and nothing changes.  Media keeps coming while a
\* stream closes; a response's headers precede the call that closes.
QueueMem(n) ==
  /\ Alive /\ ~Writing
  /\ streaming \/ state = "OPEN"
  /\ num_queued < QueueLimit
  /\ Append1("mem", n)
  /\ IF total_bytes' >= BATCH_BYTES THEN Arm ELSE UNCHANGED <<out_armed, ready>>
  /\ UNCHANGED <<zerocopy, zc_enabled, streaming, state, writing, pendVars, next_id,
                 kernelVars, released>>

\* connection_queue_output_and_flush: the end of a response (also the 503 of a
\* stream that never got data), which closes the connection; an event-stream
\* page sends its events the same way but stays open.
QueueOutputAndFlush(n) ==
  /\ state = "OPEN" /\ ~Writing
  /\ num_queued < QueueLimit
  /\ Append1("mem", n)
  /\ Arm
  /\ state' = "CLOSING" \/ (~streaming /\ state' = "OPEN")
  /\ UNCHANGED <<zerocopy, zc_enabled, streaming, writing, pendVars, next_id, kernelVars,
                 released>>

\* connection_queue_file: no limit, always flushed, ends the connection.
QueueFile(n) ==
  /\ state = "OPEN" /\ ~Writing
  /\ Append1("file", n)
  /\ Arm
  /\ state' = "CLOSING"
  /\ UNCHANGED <<zerocopy, zc_enabled, streaming, writing, pendVars, next_id, kernelVars,
                 released>>

\* Slip: the state changes but POLLER_OUT is not armed.
BeginDrainClose_Unarmed ==
  /\ state = "OPEN" /\ ~Writing
  /\ state' = "CLOSING"
  /\ UNCHANGED <<zerocopy, zc_enabled, streaming, writing, queueVars, pendVars, next_id,
                 out_armed, ready, kernelVars, accepted, entries, released>>

\* connection_begin_drain_close.
BeginDrainClose ==
  /\ state = "OPEN" /\ ~Writing
  /\ state' = "CLOSING"
  /\ Arm
  /\ UNCHANGED <<zerocopy, zc_enabled, streaming, writing, queueVars, pendVars, next_id,
                 kernelVars, accepted, entries, released>>

\* worker_close_and_free_connection down to zerocopy_queue_cleanup: the socket
\* is closed and every queued and pending buffer is released.  q and p are the
\* queues at that moment, r the releases so far.
Free(q, p, r) ==
  /\ state' = "FREED"
  /\ writing' = "no"
  /\ queue' = <<>> /\ total_bytes' = 0 /\ num_queued' = 0
  /\ pending' = <<>> /\ num_pending' = 0 /\ next_id' = 0
  /\ released' = [e \in Entry |->
        r[e] + (IF e \in EntriesOf(q) THEN 1 ELSE 0)
             + (IF e \in EntriesOf(p) THEN 1 ELSE 0)]
  /\ ready' = FALSE /\ out_armed' = FALSE

\* The worker closes the connection for a reason of its own: the upstream
\* failed or timed out, or an administrator asked for a disconnect.
CloseFromUpstream ==
  /\ Alive /\ ~Writing /\ streaming
  /\ Free(queue, pending, released)
  /\ UNCHANGED <<zerocopy, zc_enabled, streaming, kernelVars, accepted, entries>>

-----------------------------------------------------------------------------
\* Slip: every identifier up to the end of the range counts as completed.
InRange_NoLow(id, r) == id <= r.hi

\* zerocopy_handle_completions.
InRange(id, r) ==
  IF r.lo <= r.hi THEN id \in r.lo .. r.hi ELSE id >= r.lo \/ id <= r.hi

Completed(x) == \E i \in 1 .. Len(errqueue) : InRange(x.id, errqueue[i])

\* The walk along the pending list; what is completed is unlinked.
StillPending ==
  LET kept[i \in 0 .. Len(pending)] ==
        IF i = 0 THEN <<>>
        ELSE IF Completed(pending[i]) THEN kept[i - 1]
        ELSE Append(kept[i - 1], pending[i])
  IN  kept[Len(pending)]

ReleaseCompleted ==
  [e \in Entry |-> released[e] +
     (IF \E j \in 1 .. Len(pending) : pending[j].entry = e /\ Completed(pending[j])
        THEN 1 ELSE 0)]

\* The client-socket branch of the event loop for one harvested event.  The
\* poller reports everything that holds at that moment.
PollEvent ==
  /\ Alive /\ ~Writing /\ ready
  /\ LET anyCompletion == Len(StillPending) < Len(pending)
         drained == queue = <<>> /\ StillPending = <<>>
         \* the early exits of the branch, in the order of the code
         closes == \/ anyCompletion /\ state = "CLOSING" /\ drained
                   \/ client = "gone"
                   \/ client = "sent" /\ ~streaming /\ state = "CLOSING" /\ queue = <<>>
     IN /\ errqueue' = <<>>
        /\ client' = IF client = "sent" THEN "idle" ELSE client
        /\ IF closes
             THEN Free(queue, StillPending, ReleaseCompleted)
             ELSE /\ ready' = FALSE
                  /\ pending' = StillPending
                  /\ num_pending' = num_pending - (Len(pending) - Len(StillPending))
                  /\ released' = ReleaseCompleted
                  /\ writing' = IF out_armed /\ Writable THEN "entered" ELSE "no"
                  /\ UNCHANGED <<state, queueVars, next_id, out_armed>>
  /\ UNCHANGED <<zerocopy, zc_enabled, streaming, sock, received, accepted, entries>>

-----------------------------------------------------------------------------
\* connection_handle_write, one iteration of its loop per step.  Its guard
\* against a send of nothing without EAGAIN is left out: sendmsg() of a queue
\* that is not empty sends something or fails.

\* The buffers one sendmsg() covers: the memory entries at the head, at most
\* MAX_IOVECS of them.
IovCount ==
  LET stop == {i \in 1 .. Len(queue) : queue[i].kind = "file"}
      run == IF stop = {} THEN Len(queue) ELSE (CHOOSE i \in stop : \A j \in stop : i <= j) - 1
  IN  IF run < MAX_IOVECS THEN run ELSE MAX_IOVECS
Iov == SubSeq(queue, 1, IovCount)

\* How many entries at the head n sent units complete.
Covered(n) ==
  CHOOSE k \in 0 .. Len(queue) :
    /\ Length(SubSeq(queue, 1, k)) <= n
    /\ k < Len(queue) => Length(SubSeq(queue, 1, k + 1)) > n

\* Slip: after a partial send the whole entry is kept.
Advance_Resend(n) == SubSeq(queue, Covered(n) + 1, Len(queue))

\* The queue left after n units went out.
Advance(n) ==
  LET k == Covered(n)
      rest == SubSeq(queue, k + 1, Len(queue))
      part == n - Length(SubSeq(queue, 1, k))
  IN  IF part = 0 THEN rest ELSE [rest EXCEPT ![1].len = @ - part]

ToKernel(n, id) ==
  sock' = sock \o [i \in 1 .. n |-> [entry |-> Remaining(queue)[i], id |-> id]]

\* A MSG_ZEROCOPY send whose completion was not read yet.  The kernel bounds
\* their number (ENOBUFS), far below the 2^32 identifiers.
Unreported(id) ==
  InFlight(id) \/ \E i \in 1 .. Len(errqueue) : InRange(id, errqueue[i])

\* zerocopy_send of memory buffers; the kernel takes any n units it has room for.
\* It ignores MSG_ZEROCOPY on a socket without SO_ZEROCOPY.
SendMem(n) ==
  /\ Writing /\ IovCount > 0
  /\ zc_enabled => ~Unreported(next_id)
  /\ n <= Length(Iov) /\ Len(sock) + n <= SocketSpace
  /\ queue' = Advance(n)
  /\ total_bytes' = total_bytes - n
  /\ num_queued' = num_queued - Covered(n)
  /\ LET done == SubSeq(queue, 1, Covered(n))
     IN  IF zerocopy
           THEN /\ ToKernel(n, IF zc_enabled THEN next_id ELSE NoId)
                /\ next_id' = (next_id + 1) % IdSpace
                /\ pending' = pending \o [i \in 1 .. Len(done) |->
                                  [entry |-> done[i].entry, id |-> next_id]]
                /\ num_pending' = num_pending + Len(done)
                /\ UNCHANGED released
           ELSE /\ ToKernel(n, NoId)
                /\ released' = [e \in Entry |->
                                  released[e] + (IF e \in EntriesOf(done) THEN 1 ELSE 0)]
                /\ UNCHANGED <<pendVars, next_id>>
  /\ writing' = "sent"
  /\ UNCHANGED <<zerocopy, zc_enabled, streaming, state, out_armed, ready, errqueue,
                 received, client, accepted, entries>>

\* zerocopy_send with a file at the head: sendfile().
SendFile(n) ==
  /\ Writing /\ queue # <<>> /\ Head(queue).kind = "file"
  /\ n <= Head(queue).len /\ Len(sock) + n <= SocketSpace
  /\ ToKernel(n, NoId)
  /\ queue' = Advance(n)
  /\ num_queued' = num_queued - Covered(n)
  /\ released' = IF Covered(n) = 1
                   THEN [released EXCEPT ![Head(queue).entry] = @ + 1]
                   ELSE released
  /\ writing' = "sent"
  /\ UNCHANGED <<zerocopy, zc_enabled, streaming, state, total_bytes, pendVars,
                 next_id, out_armed, ready, errqueue, received, client, accepted,
                 entries>>

\* EAGAIN, or ENOBUFS while zero-copy sends are outstanding: the loop ends and
\* waits for the next event (CONNECTION_WRITE_BLOCKED).  The mask stays as it
\* is, so what stream_on_client_drain queues here is a QueueMem step.
WriteBlocked ==
  /\ Writing /\ queue # <<>>
  /\ \/ ~Writable
     \/ Head(queue).kind = "mem" /\ \E id \in 0 .. (IdSpace - 1) : Unreported(id)
  /\ writing' = "no"
  /\ UNCHANGED <<zerocopy, zc_enabled, streaming, state, queueVars, pendVars, next_id,
                 out_armed, ready, kernelVars, accepted, entries, released>>

\* A send error ends the connection (CONNECTION_WRITE_CLOSED).
WriteFailed ==
  /\ Writing /\ queue # <<>>
  /\ client = "gone"
  /\ Free(queue, pending, released)
  /\ UNCHANGED <<zerocopy, zc_enabled, streaming, kernelVars, accepted, entries>>

\* The queue is empty: a closing connection with nothing pending is freed.
WriteClosed ==
  /\ Writing /\ queue = <<>>
  /\ state = "CLOSING" /\ pending = <<>>
  /\ Free(queue, pending, released)
  /\ UNCHANGED <<zerocopy, zc_enabled, streaming, kernelVars, accepted, entries>>

\* The queue is empty and the connection stays.  When this call sent something,
\* stream_on_client_drain may resume a paused upstream, which queues data in
\* the same call frame (n > 0); only then does POLLER_OUT stay armed.
WriteIdle(n) ==
  /\ Writing /\ queue = <<>>
  /\ ~(state = "CLOSING" /\ pending = <<>>)
  /\ writing' = "no"
  /\ IF n = 0
       THEN /\ out_armed' = FALSE
            /\ UNCHANGED <<queueVars, accepted, entries, ready>>
       ELSE /\ streaming /\ writing = "sent"
            /\ Append1("mem", n)
            /\ Arm
  /\ UNCHANGED <<zerocopy, zc_enabled, streaming, state, pendVars, next_id, kernelVars,
                 released>>

-----------------------------------------------------------------------------
\* The kernel and the client.

\* The client reads one unit and the acknowledgement reaches the kernel.  When
\* it was the last of a MSG_ZEROCOPY send the kernel posts a completion, merged
\* with the one before it when the identifiers are adjacent.
ClientReads ==
  /\ Alive /\ client # "gone" /\ sock # <<>>
  /\ sock' = Tail(sock)
  /\ received' = Append(received, Head(sock).entry)
  /\ LET id == Head(sock).id
         finished == id # NoId /\ \A i \in 2 .. Len(sock) : sock[i].id # id
         merges == errqueue # <<>> /\ id = (Last(errqueue).hi + 1) % IdSpace
     IN /\ errqueue' = IF ~finished THEN errqueue
                       ELSE IF merges
                         THEN [errqueue EXCEPT ![Len(errqueue)].hi = id]
                         ELSE Append(errqueue, [lo |-> id, hi |-> id])
        /\ ready' = (ready \/ finished \/ (out_armed /\ ~Writable))
  /\ UNCHANGED <<zerocopy, zc_enabled, streaming, state, writing, queueVars, pendVars, next_id,
                 out_armed, client, accepted, entries, released>>

\* The client sends bytes while its response is under way.
ClientSends ==
  /\ Alive /\ client = "idle" /\ Len(received) = 0
  /\ client' = "sent"
  /\ ready' = TRUE
  /\ UNCHANGED <<zerocopy, zc_enabled, streaming, state, writing, queueVars, pendVars, next_id,
                 out_armed, sock, errqueue, received, accepted, entries, released>>

\* The client hangs up or shuts its side down (POLLER_HUP, POLLER_RDHUP).
ClientHangsUp ==
  /\ Alive /\ client # "gone"
  /\ client' = "gone"
  /\ ready' = TRUE
  /\ UNCHANGED <<zerocopy, zc_enabled, streaming, state, writing, queueVars, pendVars, next_id,
                 out_armed, sock, errqueue, received, accepted, entries, released>>

Lengths == 1 .. MaxLength

Write ==
  \/ \E n \in 1 .. SocketSpace : SendMem(n) \/ SendFile(n)
  \/ WriteBlocked \/ WriteFailed \/ WriteClosed
  \/ \E n \in 0 .. MaxLength : WriteIdle(n)

Next ==
  \/ \E n \in Lengths : QueueMem(n) \/ QueueOutputAndFlush(n) \/ QueueFile(n)
  \/ BeginDrainClose \/ CloseFromUpstream
  \/ PollEvent \/ Write
  \/ ClientReads \/ ClientSends \/ ClientHangsUp

\* The worker loop runs whenever something is ready, and a connected client
\* keeps reading: TCP_USER_TIMEOUT turns one that does not into a hang-up.
Fairness == WF_vars(PollEvent) /\ WF_vars(Write) /\ WF_vars(ClientReads)

Spec == Init /\ [][Next]_vars /\ Fairness

-----------------------------------------------------------------------------
\* Types of the connection's fields.
TypeOK ==
  /\ state \in {"OPEN", "CLOSING", "FREED"}
  /\ \A i \in 1 .. Len(queue) : queue[i] \in [entry : Entry, kind : {"mem", "file"}, len : Lengths]
  /\ \A i \in 1 .. Len(pending) : pending[i] \in [entry : Entry, id : 0 .. (IdSpace - 1)]
  /\ {total_bytes, num_queued, num_pending, entries} \subseteq Nat
  /\ next_id \in 0 .. (IdSpace - 1)
  /\ Len(sock) <= SocketSpace
  /\ released \in [Entry -> Nat]
  /\ {out_armed, ready} \subseteq BOOLEAN
  /\ writing \in {"no", "entered", "sent"}

\* Whatever mixture of partial sends, sendfile() and retries happens, the
\* client reads the accepted data in order, without gap or repetition: read,
\* in flight and still queued units are together what was accepted.
StreamIntegrity ==
  Alive => received \o [i \in 1 .. Len(sock) |-> sock[i].entry] \o Remaining(queue)
             = accepted

\* queue->total_bytes (the batching test), num_queued (the queue limit) and
\* num_pending stay exact across partial sends.
QueueAccounting ==
  /\ total_bytes = Len(Spell(queue, {"mem"}))
  /\ num_queued = Len(queue)
  /\ num_pending = Len(pending)

\* While the connection lives, a pool buffer goes back to the pool only when
\* the kernel has finished with every byte of it.
NoEarlyRelease ==
  Alive => \A i \in 1 .. Len(sock) :
             sock[i].id # NoId => released[sock[i].entry] = 0

\* The queue's reference is dropped exactly once on every entry: a freed
\* connection leaks no buffer or file descriptor and closes none twice.
ReleasedOnce ==
  /\ \A e \in Entry : released[e] <= 1
  /\ ~Alive => \A e \in 1 .. entries : released[e] = 1

\* An entry that waits for a completion has a send the kernel will still
\* report: no buffer waits forever in the pending queue.
PendingWillComplete ==
  Alive => \A j \in 1 .. Len(pending) :
             InFlight(pending[j].id) \/ Completed(pending[j])

\* A connection that is closing drains and is freed.  The one exception is a
\* stream that gets less than a batch of late media after its queue ran empty:
\* it waits for more media or for the stream's data timeout.
LateMedia == streaming /\ queue # <<>> /\ ~out_armed
ClosingDrains == (state = "CLOSING") ~> (state = "FREED" \/ LateMedia)

\* Under the edge-triggered poller, data for which POLLER_OUT was armed always
\* moves on: the head entry is sent or the connection ends.
ArmedDataMoves ==
  \A e \in Entry :
    (out_armed /\ queue # <<>> /\ Head(queue).entry = e)
      ~> (state = "FREED" \/ queue = <<>> \/ Head(queue).entry > e)

\* Every buffer that was queued goes back once, when the kernel is done with it,
\* and the counters that say what is queued and what waits are exact.
BuffersReturn ==
  TypeOK /\ QueueAccounting /\ NoEarlyRelease /\ ReleasedOnce /\ PendingWillComplete

\* Queued data moves on and a closing connection comes to its end.
DataMoves == ClosingDrains /\ ArmedDataMoves
=============================================================================
