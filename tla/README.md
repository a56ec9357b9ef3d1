# D-OpenWrt in TLA+

This directory specifies, model-checks and proves properties of the programs
whose own source is kept in this repository:

* **rtp2httpd** (`src/rtp2httpd/src`), a daemon that turns multicast RTP, FCC,
  RTSP and HTTP streams of an IPTV network into HTTP responses;
* its **web player** (`src/rtp2httpd/web-ui/src/playback-engine`), which
  fetches, demuxes, remuxes and plays these streams in the browser;
* the **router pages** (`src/luci-app-*`, `src/netspeedtest`): JavaScript that
  runs in the browser, polls and commands the router through LuCI's RPC, and
  the shell scripts on the router that these pages talk to.

The rest is package recipes, scripts around third-party daemons and themes;
`PROJECT.json` lists them as not modelled.

## 1. Inventory

### 1.1 The daemon

A supervisor process forks workers. Each worker runs one event loop (epoll or
kqueue, edge-triggered) over its clients and their upstream sockets, single
threaded. Workers and supervisor share one memory segment with client slots and
statistics.

| part | state | operations | talks to | what is hard |
|---|---|---|---|---|
| buffer pool (`buffer_pool.c`) | segments, free list, counters, reference counts | alloc, get, put, expand, shrink, cleanup | everyone who queues data | shrinking while buffers are out, partial last segment |
| send queue (`zerocopy.c`, write path of `connection.c`) | send queue, pending-completion queue, ids, poller mask | queue memory or file, send, handle completions, drain-close, free | kernel socket, buffer pool, event loop | partial sends, EAGAIN/ENOBUFS, ids that wrap, merged completions, edge-triggered wake-ups |
| event loop (`worker.c`) | connection list, fd map | accept, dispatch, tick, close | all sockets | closing inside a batch of events, deferred closing |
| RTP reordering (`rtp_reorder.c`) | ring of slots, base sequence, phase, count | insert, flush, force flush, release | send queue, FEC | loss, duplication, wrap of 16 bits |
| FEC (`rtp_fec.c`, `rs_fec.c`) | groups with parity packets, min_end_seq cache | add packet, recover, expire, evict | the same ring | stale slots and caches |
| FCC session (`fcc*.c`, `multicast.c`, `stream.c`) | session state, servers, termination point, pending list, timers | request, answers, redirects, sync, unicast and multicast media, ticks, cleanup | FCC servers over UDP, multicast group, reordering | lost, late, repeated datagrams, timeouts, the hand-over |
| client status (`status.c`) | client slots, admission lock, byte totals, notification pipes | register, update, snapshot, disconnect, unregister, reap | workers and supervisor through shared memory | several processes, killed at any point |
| supervisor (`supervisor.c`) | worker table, restart times | spawn, reap, rate-limit, reload, stop | workers by signals | crashes, failing forks, reload races |
| RTSP client (`rtsp.c`, `stun.c`) | session state machine | connect, describe, setup, play, keepalive, teardown | RTSP server | asynchronous TEARDOWN, pieces of answers |
| HTTP proxy, fetch, chunked decoder | upstream connection, decoder state | request, body, rewrite, finish | upstream server | backpressure, split input |
| snapshot, M3U, EPG, services, configuration, access log, web page | caches and text | parse, format | HTTP fetch | little concurrency |

### 1.2 The web player

One main thread and one worker, joined by two message channels.

| part | state | operations | what is hard |
|---|---|---|---|
| controller, media source (`mse/`) | generation of the stream, source buffers, deferred and refused appends, pause flags | load, stop, worker messages, updateend, time updates, source closed | messages of a replaced stream, quota, two reasons to pause |
| worker, pipeline, fetch (`worker/`, `io/`) | load loops (`runId`), the gate a paused loop waits at, the one fetch, what the remuxer holds | load, pause, resume, seek, segment ends, failures and retries | a loop that is superseded while it awaits |
| HLS source (`hls/`) | last sequence number, history, failures | next, refresh, ingest | a live window that slides past, restarts or breaks |
| TS demuxer (`demux/`) | continuity, PES queues, parser carry, timestamp wraps | packets, flush, discontinuity | lost packets, configuration changes, the 33-bit wrap |
| MP4 remuxer (`remux/`) | output timeline, stashed samples, residuals | remux, flush, seek, base change | rounding, overlaps, gaps |
| PCM player (`audio/`) | seek buffer, scheduled chain, drift state | feed, tick, seek, pause, visibility | two clocks, throttled timers |

### 1.3 The router pages

Every page is a single-threaded program of callbacks; a call to the router is
sent in one and answered in another, or fails, or is answered after the page
has moved on. Polls run for ever beside the clicks of the user.

| part | state | what is hard |
|---|---|---|
| bandix (traffic, limits, DNS, connections) | device, dialog and form on top of each other, filters and pages, queries under way | answers without numbers, timers that clear what was opened meanwhile |
| lanspeed (status, client, diagnostics) | load cycle, samples shown, lookups and their cache, retained answers | samples that do not belong together, a cycle that is not armed again |
| netwiz (setup, Wi-Fi, tools, devices), netwizard | forms, dialogs, locks, queues, the router's backup and marker file | losing the router, rollbacks, partial failures |
| timecontrol | staged and committed rules, firewall, the daemon's tick, two initialisations | page and daemon write one file, daemon and init script one firewall chain |
| netspeedtest, logs, updates, adblock-fast | lock, PID and result files, jobs in the background | polls against jobs, two clicks |
| settings forms of all applications | fields, dependencies, stored options | hidden fields, values that are stored but not shown |

What makes each part correct is stated as the properties of section 4; the
hazards behind them are listed in `PROJECT.json`, each at its line.

## 2. Modules

One module per component; a `Proofs` module extends it for TLAPS. TLC runs the
component itself where its constants are plain numbers and sets, and an `MC`
module where an instance needs definitions or several components are joined.
A helper whose lines lie within those of the definition that uses it has no
entry of its own in the map of `PROJECT.json`. Operators named `X_Something` next to a
definition `X` are plausible slips of that definition; they are used to confirm
that a property would notice them and are part of no specification. What pure
functions promise (orderings, summaries, clamps, consistency of answers) is
stated as named `ASSUME`s next to them, which TLC evaluates on every run that
reaches the module.

* **BufferPool** - `buffer_pool.c`. `segments`, `before` (order of the list),
  `seg_buffers`, `seg_free`, `free_list`, `refcount`, `num_buffers`,
  `num_free`, and the history variable `held` (references somebody owns).
  Actions `Alloc`, `AllocExpand` (allocation that first grows the pool),
  `RefGet`, `RefPut`, `TryShrink` (the whole walk: watermark, floor, every idle
  segment until the high watermark), `Cleanup`, `Restart`. A failing `malloc`
  is an allocation that fails without effect.
* **SendQueue** - one client connection: `zerocopy.c`, `connection_handle_write`
  and the client-socket branch of the event loop, with the kernel socket, the
  error queue and the client as environment. One `sendmsg` or `sendfile` is one
  step, so kernel and client act between two iterations of the write loop.
  Data are units named by the queue entry they belong to.
* **RtpReorder** - the ring with its three phases (first packet, collecting,
  active) and the FEC groups that share its slots. Packets are numbers; their
  sequence numbers wrap at `SeqSpace`. Reed-Solomon decoding is abstracted to
  its condition: as many packets (media and parity) as the group has media.
* **Fcc** - one stream: session, multicast membership, delivery through the
  operators of RtpReorder (`INSTANCE`), FCC servers and the network. A server's
  behaviour is fixed by a scenario; answers may be lost, repeated and delayed
  without limit of age, media may be lost. Telecom and Huawei differ in what
  they answer and in how terminations that fail are treated.
* **ClientSlots** - `status.c` between several worker processes and the
  supervisor. Each access to an atomic in shared memory, and each part of the
  payload, is a step of its own; `Crash` kills a worker between any two. Two
  fields stand for the payload of a slot (`bytes_sent`, `current_bandwidth`),
  two steps for its `memcpy`. `pid` lets a process id be used again after its
  worker was reaped. The supervisor's walk is one step per slot.
* **BufferPoolProofs**, **SendQueueProofs**, **RtpReorderProofs**,
  **ClientSlotsProofs** - section 5.

The web player:

* **Pipeline**, **PlaybackController** - the worker and the main thread, one
  record of state each (`w`, `mt`), joined by the channels `mt.cmds` and
  `w.out`. A step is one task of an event loop with its microtasks, so
  messages, network events and media events interleave as they do in a
  browser. A stream is a *kind* (endless, list, HLS, CMAF, hidden format,
  junk), media are numbered segments named by the stream and the input they
  come from.
* **HlsSource**, **TsDemux**, **Mp4Remux**, **PcmAudio** - the four stages,
  each with its environment: the server's sliding window, the lossy transport,
  the sender's clock, the browser's two clocks. The remuxer's sender is an HLS
  playlist, a list of files or a live connection (`sender.mode`): only the last
  can send again what was sent, and all but HLS compare the times of samples
  after a reconnection (`pipeline.ts:487`, `:782`). **MCPlayerParts** runs the
  controller with its worker, or one of the stages, per behaviour.
* **ControllerProofs**, **PlayerProofs** - section 5.

The router pages; a page is one record variable, and the router's side (rpcd
script, daemon, init script, crontab, firewall) is in the same module where its
source is here:

* **BandixCharts**, **BandixDialogs** (the device dialog and the global rate
  limit), **BandixLists** - `bandix/index.js`, `dns.js`, `connection.js`.
* **LanspeedStatus**, **LanspeedDetail**, **LanspeedDiagnostics** - the three
  pages; **LanspeedRows** and **LanspeedSchema** are the pure functions behind
  them (ordering, paging and grouping of rows; validation of answers), checked
  by `ASSUME`s against reference definitions over small inputs.
* **NetwizSetup**, **NetwizWifi**, **NetwizTools**, **NetwizAdvanced**,
  **NetwizDevices**, **Netwizard** - the two wizards and the device manager,
  with the rpcd scripts' rollback, bindings and web access.
* **TimeControl**, **Netspeedtest**, **MaintenancePages**, **AdblockFast** -
  pages with a daemon or script behind them.
* **LuciForm** - how LuCI's form library (external) treats a table of fields;
  **SmartdnsForm**, **MonitorForms**, **ServiceForms** and AdblockFast hold the
  tables of the applications, **LuciPages** is a page at work on any of them,
  including what the init scripts of aria2 and rtp2httpd make of the stored
  options.
* **MCPages** (pages that wait, with fairness) and **MCRouter** (pages that
  configure and list) put them together: the pages share no variable, so a
  variable `part` chooses which one a behaviour is about; the others stand
  still. This is the product of independent specifications without their
  interleavings, and the fairness of `MCPages` is that of the chosen part.
* **PageProofs**, **RouterProofs** - section 5.

Composition: Fcc uses RtpReorder's operators on its own copy of the ring;
ClientSlots contains the parts of worker and supervisor that touch the slots.
`PROJECT.json` maps every definition to the lines it stands for.

Not everything in a handler is kept: logging, statistics for the status page,
and header formatting are left out throughout.

## 3. Runs and their bounds

A run's properties are few and each is a conjunction of named parts, defined
next to each other in the module (section 4).

| run | bounds and why they suffice |
|---|---|
| `buffer_pool` | three segments of 3, 3 and 2 buffers (the last is cut by the maximum), two references per buffer: expansion at the limit, a shrink that frees several segments and one that must stop all occur |
| `send_queue` | three entries of up to two units, two iovecs, a socket that holds two units, ids modulo 3: partial sends, full sockets and the wrap of ids happen in a few steps |
| `rtp_reorder` | eleven packets, window 4, sequence numbers modulo 32 that wrap in the middle: several windows and jumps over more than one |
| `rtp_fec` | six packets in groups of two, a ring of four slots, two groups; sequence numbers modulo 64 that wrap after the third packet: every slot is used again, forced flushes meet delivered slots, groups expire and are evicted. The client gets at most ten packets (`FewDelivered`), since repetitions have no end |
| `fcc` | five packets, backlog 2, wrap after the first packet, four control datagrams, one loss, ages counted in ticks up to their timeouts; six scenarios: grant from the same and another address, refusal, error, redirects by port and address within and over the limit. The first sequence number avoids the forced stop of section 6; joins succeed |
| `client_slots` | two workers, two pids, two slots, room for one client, two clients, one update, one disconnect request, one crash: enough for a slot and a pid to be used again while a request, an update or the reaper is under way. A second request loses the first one's (see `lost_disconnect`) |
| `player_parts` | the controller: two loads (so that everything of the first is late for the second; any of five kinds of stream first, endless, HLS or none second), one command of the user, one chunk per response and three inputs, a buffer of two segments that pauses at one: quota refusals, deferred appends and both pause reasons occur, audio may be undecodable. The stages: a window of three segments sliding over eight with two discontinuities and two failures; four units of two packets with a packet lost or repeated, a continuity counter modulo 4 and a clock modulo 8 (two losses, in a row or not, were checked once, in 2.1 million states; the proof covers every number); four samples per track, batches ended by their duration or at four samples, with jumps of -3 and +5 and one cut (two cuts were checked once, in 2.7 million states; the proof covers every number); three time units of audio |
| `pages` | two devices, ranges that need several chunks, two queries at once; two rules (at first one of them enabled), temporary blocks of at most two minutes, two changes or quick controls, a day of three seconds: a stale minute revives a block that was cancelled, and an initialisation of the daemon meets one of the init script; three speed tests, two toggles; two log lines, updates in two dialogs; a pause of two ticks and four actions; one failed answer and one rule |
| `router` | two clients and one rule; four list requests over two pages; three whitelist operations, two at once (four were checked once, in 1.7 million states; the proof covers every number); three addresses of two keys with one lookup at a time; a rollback window of four ticks and three changes; four devices of which one is foreign and bound; one or two field changes on each of 34 forms |

`CHECK_DEADLOCK FALSE` stands where the system stops by design: a freed
connection, a closed stream, a page whose bounded clicks are used up.

Three runs find a property violated; each states what a comment or document of
the repository says of the code, and each is a finding in `PROJECT.json`:

| run | what the code does |
|---|---|
| `lost_disconnect` | a late disconnect request overwrites a newer one for the slot's next client, which stays connected although its request was answered with success |
| `ranking_stuck` | an empty answer to a query of bandix's ranking leaves its button disabled, against the comment that the loading state is removed whether the query succeeds or fails |
| `torn_snapshot` | a reader that sees a slot's old client active accepts the half-filled payload of the next one, since filling it does not make the version odd (`SnapshotIsWhole`); status.h says that active means published and an odd version that the payload is being written |

## 4. Properties and fairness

*BufferPool*: no held buffer lies in freed memory (`NoUseAfterFree`), free list
and references agree (`FreeIffUnheld`), the counters are exact
(`SegmentAccounting`, `PoolAccounting`), sizes stay within their limits
(`SizeBounds`), a shrink neither forces the next allocation to expand nor leaves
what it could free (`ShrinkDoesNotThrash`, `ShrinkIsThorough`).

*SendQueue*: read, in flight and queued data are together what was accepted
(`StreamIntegrity`), counters are exact, buffers are put once and not before
the kernel is done (`ReleasedOnce`, `NoEarlyRelease`), what waits for a
completion will get it (`PendingWillComplete`), closing connections drain
(`ClosingDrains`), and data for which the poller was armed moves
(`ArmedDataMoves`). Fairness: events that are ready are delivered, the write
loop goes on, and the client reads; a client that never reads is ended by TCP
timeouts outside the model.

*RtpReorder*: packets come out in order and once (`InOrder`), what was stored is
not lost (`StoredIsNeverLost`), `count` covers what waits
(`CountCoversWaiting`), the cache is exact (`MinEndIsExact`). With FEC order is not
kept (section 6): only repetitions come late (`RepeatsOnly`).

*Fcc*: without loss or timeout the client gets every packet across the switch
(`SeamlessSwitch`), the pending list starts at the point the server was told
(`PendingStartsAtTermination`), late answers do not lead back (`NoWayBack`),
copies of a redirect do not use up the limit (`RedirectsMakeProgress`), the
server is told once to stop (`ServerReleased`), the stream reaches multicast or
ends (`ReachesMulticast`), and a silent one ends (`SilenceEndsStream`).
Fairness: the worker's loop ticks every stream every 100 ms, and a queued error
response drains. Nothing is assumed of servers and network.

*ClientSlots*: no more than maxclients are let in (`AdmissionBound`), who is let
in finds a slot (`SlotIsFound`), nobody works on another's slot
(`SlotsAreOwned`), a request closes the client it names (`OnlyRequestedClosed`),
bytes are counted once (`BytesCountedOnce`), requests are answered
(`DisconnectHonoured`), and the lock and the slots of the dead come back
(`LockIsReleased`, `DeadSlotsReturn`). That an accepted snapshot is whole
(`SnapshotIsWhole`) does not hold. Fairness: a process that can take a step
is scheduled (a worker in its event loop reads its pipe), and the supervisor,
which polls `waitpid` every 100 ms, goes on. Nothing is assumed of clients,
requests and crashes. Memory is sequentially consistent: the code's acquire and
release orders are taken to be sufficient, not checked. Generations do not
wrap, client ids are unique.

In the runs these parts are joined: `ShrinkIsRight` (pool counters, size and
both shrink properties), `BuffersReturn`, `DataMoves` (SendQueue),
`StoredIsAccounted`, `FecKeepsOrder` (RtpReorder), `HandoverIsSound` (the safety
of Fcc), `SharedReadsAreSound`, `DeathIsCleanedUp` (ClientSlots). Each includes
the module's `TypeOK` unless that is proved.

*Web player*: what the worker sends is of the stream it was told, and the
MediaSource takes the current stream's segments, all of them, once and in order,
and the PCM player its audio only (`StreamsDoNotMix`); no segment mixes samples
of two responses (`OneInputPerSegment`); no SourceBuffer is created too late
(`NoLateSourceBuffer`); controller and worker agree on who waits for whom, and
whatever is paused has something left to play down that will resume it
(`BackpressureAgrees`). The stages: `SourceIsContinuous` (segments follow each
other or are marked as a discontinuity, the history is bounded),
`DemuxedIsClean` (no sample put together across a loss, video resumes at a
keyframe, timestamps are the encoder's), `RemuxedIsWhole` (no holes, no drift
beyond rounding, no sample twice), `SyncLeavesNothing` and
`FreeRunsInBackground` (a hidden page corrects nothing, the element is slowed
only while a start is awaited). These are safety properties; no fairness.

*Pages that wait*: one speed test runs at a time (`OneSpeedTest`); rates and
totals on lanspeed's page are of one sample (`ShownBelongTogether`); the chart
catches up with the selected device and queries end with a usable page
(`ChartsCatchUp`); when the rules stay, temporary blocks run out and the
firewall does what the rules say, unless the last initialisation began inside
another (`FirewallSettles`, section 6); speed test, log, update and ad
blocker pages come back (`PagesReturn`); lanspeed's page comes to show the
latest sample and rule (`LanspeedCatchesUp`). Fairness: LuCI's poll fires, timers
that are armed fire, calls are answered or fail (LuCI's RPC times out after 20
seconds), and the router's jobs end; nothing is assumed of the user or of what
an answer says.

*Pages that configure*: `BandixTellsTheTruth` (a dialog lists and saves the
rules of its device; the badge and the whitelist tell the service's state once
no operation is under way, unless the last change was lost, or the last answer
empty or overtaken (section 6); the DNS list becomes readable, page buttons of the connections start from the page shown);
`LanspeedKeepsUp` (lookups bounded and shared, the cycle never stops by itself,
retained answers are recent); `RollbackLeadsBack` (a page that has given up on
a new address waits at one the router has); `NetwizSendsSound` (a Wi-Fi network
leaves with a name and a key, or as open as the user agreed to; the third radio
of a tri-band router, `5g2`, is exempt, since the page checks none of its fields; the guide sends what it listed, one backup is
downloaded once); `NetwizNeverStuck` (the port field's lock has a call under
way, heartbeats that wait have a slot that will be freed);
`ListsAndFormsHonoured` (saved options are shown again, rtp2httpd's pages
open at an address the server gives for itself (`OpensServer`), batches of bindings and host lists repeat nothing, the older
wizard leads to the scheme the router now serves).

## 5. Proofs

Eight proof modules extend the components' modules. What they prove holds for
every value of the constants that satisfies the assumption named with the
module. `PROJECT.json` lists the theorems; here is
what each rests on. In every case the inductive invariant was an invariant of a
TLC run before it was proved.

**BufferPoolProofs** (`PoolAssumption`: positive sizes, a finite set of
segments): `TypeCorrect`, `MemorySafety` (`NoUseAfterFree`),
`ExclusiveOwnership` (`FreeIffUnheld`), `ExactCounters` (`SegmentAccounting`),
`ShrinkCorrect` (`ShrinkIsRight`, with the action properties of a shrink).
The inductive invariant `IInv` joins types, `RefsAreHeld` (the stored count is
the number of holders), the safety properties and the pool's counters. None is
inductive alone: the shrink walk tests `num_free = num_buffers` of a segment,
which says that nobody holds one of its buffers only because the counter equals
the number of its buffers on the free list, and these are exactly the unheld
ones.

**SendQueueProofs** (`SendQueueAssumption`: positive limits, more identifiers
than the socket holds units): `StreamIsWhole` (`StreamIntegrity`: what the
client read, what is in flight and what is queued are together what was
accepted), `ReleasesAreExact` (types, exact counters, no buffer put twice or
before the kernel is done), `BuffersComeBack` (`BuffersReturn`).

* Which bytes a partial `sendmsg` or `sendfile` leaves is said by a few
  operators on sequences (`Done`, `PartOf`, `Sent`, `HeadSent`) and lemmas about
  them (`CutIs`, `IovIs`, `SendWithin`, `FileSend`); the flattening of a queue is
  a recursive function of the library, whose equations are obtained by looking
  at the least length that would break them.
* `BufferInv` says where each buffer is: queued, pinned with the identifier of
  its last send, or released, each once (`QueueOrder`, `PendingOnce`,
  `ReleasedExactly`); what the kernel has pinned belongs to a buffer that is
  held, and what waits for a completion has its units in the socket or its report
  on the error queue (`Pinned`, `CompletionInv`). Identifiers wrap; a merged range
  stands for the reports it was made of, whichever side of the wrap it ends on
  (`MergeIs`), because an identifier is not used again before its report was read
  (the guard `Unreported` of `SendMem`: the kernel answers ENOBUFS long before
  2^32 sends are outstanding).
* `BuffersComeBack` also assumes `FALSE \notin SoZerocopy`. Without it the
  theorem is false, and that is the first item of section 6.

**RtpReorderProofs** (`ReorderAssumption`, whose `SeqSpace % WINDOW_SIZE = 0`
says that the window is a power of two and whose `2 * Packets <= SeqSpace` bounds
the stream to half the sequence space, since the model compares packet numbers;
the theorems also assume `TRUE \notin UseFec` and `InitialSpread < WINDOW_SIZE`):
`DeliversInOrder` (`InOrder`), `StoredIsKept` (`StoredIsAccounted`).

* `Aligned` is the invariant of the ring: there is a packet `b` whose sequence
  number is `base_seq`; every occupied slot holds a packet of `b .. b + window - 1`
  in the slot of its number, so no two packets contend for a slot although slots
  and sequence numbers wrap (`SlotsDiffer`, `OwnSlot`); what was delivered rises
  and lies below `b`; and `count` is between the number of packets that wait and
  that number plus `b`.
* The upper bound of `count` is not tight: the packet of `base_seq` may arrive
  while its slot still holds it, and `rtp_reorder_insert` counts it again.
  `Spare` says that the bound leaves room for that; without it the bound is not
  inductive.
* `flush_consecutive` is a least number of steps (`FlushLengthIs`),
  `force_flush_until` a recursive function over the slots it passes (`KeptIs`);
  both only move `b` (`Moved`).
* Both hypotheses are needed: with FEC, `InOrder` fails once the ring is used a
  second time, and first packets further apart than the ring share slots
  (section 6).

**ClientSlotsProofs** (`ClientSlotsAssumption`: 1 <= maxclients <=
slots, as `parse_global_sec` enforces, 0 is no process id and no worker):
`TypesKept`, `AdmissionIsBounded` (`AdmissionBound`), `AdmittedFindsSlot`
(`SlotIsFound`: the message "No free client slots in status tracking" of
status.c cannot occur, and the branch is left out of the model),
`SlotOwnership` (`SlotsAreOwned`), `RequestsAreRespected`
(`OnlyRequestedClosed`), `SharedReads` (`SharedReadsAreSound`), for any number of
workers, pids, slots, clients and crashes. The inductive invariants:

* *Control*: the pids of living and unreaped workers are distinct, the
  supervisor reaps the dead only, and each worker holds what its place in the
  code says (`Local`): the lock while it admits, its slot while it works on it.
* *CountCovers*: what a worker has counted so far is at least what is taken among
  the slots it has looked at; frees only lower the truth, and nobody else can take
  a slot since the lock is held by one pid. *RoomLeft* and `SlotIsFound`: between
  counting and reserving there is room for one, ahead of the search.
* *Facts* (`SlotFacts`, `WorkerFacts`, `ReaderFacts`, `RequestFacts`): a slot's
  client changes only under a new generation (`SlotEffect`), so what a request or
  a reader remembers of a generation stays true while it is current.
* *Counting*: the reader's sum, with the bytes still to come from the slots it
  has not visited, never exceeds what was sent. The sum over slots is reasoned
  about by induction over finite sets.

The steps of workers are treated by one frame lemma (a step leaves other
workers' state, locks and slots alone) and one lemma on the worker's own state.

**PlayerProofs** (`PcmAssumption`, `HlsAssumption`: positive sizes;
`TsAssumption`; `RemuxAssumption`: a sample lasts at least a millisecond):
`SyncIsLeftClean` (`SyncLeavesNothing`), `NoJumpInBackground`
(`FreeRunsInBackground`, an action property), `HlsIsContinuous`
(`SourceIsContinuous`), `DemuxIsClean` (`DemuxedIsClean`), `RemuxIsWhole`
(`RemuxedIsWhole`). The audio invariant `AudioSound` relates the schedule's
chain of chunks, the element's rate and the pending events; the playlist's,
`HlsIInv`, relates the window of the server, what the history keeps and what was
handed out. Reading a playlist is a recursive function; that it exists and what
it keeps of the history is again shown at the least failing length.

The demuxer's invariant, `DemuxSound` (`DemuxerInvariant`), ties what it holds to
the transport by a history it does not have: per stream, the last packet that got
through.

* `TrackSound`: the last counter is that packet's; the queue holds the
  slices of its unit or nothing, and as many packets as were lost in a row lie
  between it and the next. `TsAssumption` keeps these below `CC - 1`, so the
  counter tells a repetition, a successor and a gap apart (`CounterTells`): this is
  where the assumption is needed, and it is sharp (section 6).
* `FollowsCarry`: half a frame that a parser keeps is continued by the next audio
  unit, also over the boundary of two segments of a playlist, where it is kept on
  purpose; every gap and every resumption drops it.
* `ClockSound`: the clock is that of the last video unit whose start was read, at
  most as far behind as packets were lost; a time of 33 bits then unwraps to the
  encoder's (`TimeFollows`), less the wraps before the stream was joined.
* `OutputSound`: what was handed out and what is collected is whole, at its time,
  and carries the number of losses announced before it; the first video after one
  is a keyframe.

A packet is treated in the order of the code: the clock (`ClockReads`), the counter
(`ReadyAfterCheck`), the queue and the parsers (`HandledAfterReady`).

The remuxer's invariant, `RemuxSound`, relates what it put out, what it keeps, what
the demuxer still has and what the sender will send:

* per track, what is held (the stash, then the demuxer's samples) rises in number
  and in time and lies below what comes (`Rising`, `Below`); what was put out is
  older than all of it by number (`OlderOut`), and by time as well until the clock
  jumps (`OlderLast`), unless the times are compared and repeated samples dropped
  (`DropIs`). This gives `EachSampleOnce` over stashes, batches, flushes and
  reconnections.
* `LastKept`: the end that is remembered is that of the track's last sample in the
  output, so a fragment starts there or before (`StartIs`), whatever the clock did:
  `NoHoles`.
* `OnPace`: until the first cut, twice the next position and the rest carried on
  are together twice the start and `Ref` for each sample put out, so a sample is
  never more than half a millisecond late (`Paced`): `NoDrift`, which is not
  inductive without the sum.

A batch is followed sample by sample (`BatchSound`, `FragmentGrows`); `AddSamples` is
a recursive function, whose existence is shown at the least length without one
(`AddsUpDefined`). `RemuxTrackKeeps` then serves batches, flushes and discontinuities
alike; before a flush nothing is left with the demuxer, and after it nothing is
held, so the sender may go on at any time (`RestartKeeps`). TLC checked `RemuxSound`
before the proof, with one cut and with two.

**ControllerProofs** (`ControllerAssumption`: positive bounds, `ResumeAt <=
PauseAt < Cap`): all four properties of the controller and its worker, of every
interleaving of their tasks, for all thresholds and every number of segments,
inputs, loads and messages:

* `StreamsStayApart` (`StreamsDoNotMix`), `SegmentsAreOfOneInput`
  (`OneInputPerSegment`), `SourceBuffersInTime` (`NoLateSourceBuffer`),
  `BackpressureIsShared` (`BackpressureAgrees`), each from
  `ControllerInvariant`.

None of the four is inductive: each speaks of one side, or of the moment when
nothing is under way, and an event or a command that was sent before the moment
can break it later. The invariant `Sound(w, mt)` therefore says what may be under
way. `WorkerSound` is about the worker alone: among the load loops, those of
superseded runs included, at most one is current; one that waits at the gate is
the one `resume` will wake; what the remuxer holds comes from the input the
current loop reads. `MainSound` is about the main thread alone: the source,
its buffers and its queues fit its state. `ChannelSound` allows only commands
that suit the state the worker's pipeline has when it takes them, with rising
numbers of loads, and no worker ahead of the main thread. `FlagsSound` says which
state of the worker's pause flag follows once the commands under way are taken.
`NumbersSound` says that the media segments in the worker's events, then in the
queue of appends, then in the buffer are numbered without a hole, unless the video
track is refused. `TracksSound` fixes, per
load, the set of tracks of which init segments are sent, so that the batch the
main thread waits for is complete when the first media segment comes. The
invariant is stated of a worker `s` and a main thread `x`, since the functions of
the model take and return such records: there is a lemma for each function of the
source that says what it does to the parts, and a step of the specification is a
short composition of them. TLC checked `Sound` before the proof, in all 8.6
million states of an instance with two loads, both kinds of media source and
every set of refused tracks.

**PageProofs** (`NetspeedtestAssumption`, `LanspeedAssumption`):
`OneTestAtATime` (`OneSpeedTest`: the lock names the one test that runs),
`SamplesTogether` (`ShownBelongTogether`).

**RouterProofs** (the assumptions of the modules composed in MCRouter:
`NetwizSetupAssumption`, whose `RestartTicks < Window` says that the network
restarts within the rollback's time, `LimitsAssumption`, and those of netwiz's
pages; a page outside its own part stands still):

* `RollbackIsSafe` (`RollbackLeadsBack`): `SetupInv` follows the phases of a
  change; while the page waits at a new address either the rollback is armed or
  the settings are those it shows.
* `BandixIsTruthful` (`BandixTellsTheTruth`): one invariant each for the dialogs,
  the flow table, the DNS list and the whitelist. The last, by induction over
  any number of operations at once, says of badge and list that each tells the
  truth, is in doubt, or is owed an answer: some operation has not yet come to
  ask, or its answer is still fresh. It needs `RateReopens`, that formatting a
  rate and parsing it again is stable.
* `NetwizMovesOn` (`NetwizNeverStuck`): `PortInv`; `BeatsInv`, that heartbeats
  queue only while every slot is active, and an active slot is a call or its
  cooling period.
* `NetwizIsSound` (`NetwizSendsSound`): the form, the guide's list and the
  backup.

Only model-checked:

* liveness: the prover has no ENABLED and no fairness rules that apply here
  (`DataMoves`, `ReachesMulticast`, `SilenceEndsStream`, `DisconnectHonoured`,
  `DeathIsCleanedUp` and those of the pages);
* `HandoverIsSound` of Fcc and `FecKeepsOrder` of RtpReorder: no obstacle is known
  but length (section 8);
* `LanspeedKeepsUp` and `ListsAndFormsHonoured`: they compare what folds and
  recursive definitions compute for whole lists, an induction over data. The
  library's induction theorems take an operator as a parameter and cannot be
  instantiated; a least counterexample serves for one recursive function at a
  time, not for a family of forms.

## 6. Disagreements and observations without a run

Each of the following was seen as a counterexample or read in the code while
modelling. Where a definition is named it is in the module, is stated from a
line of the repository, and is violated; it is part of no run.

The daemon:

* zero-copy is decided by the configuration, not by the socket
  (`zerocopy.c:333`): a Unix-domain client's connection never finishes closing
  (`ClosingDrains` with `SoZerocopy = {FALSE}`);
* with FEC, slots kept from the last round of the ring are delivered again
  (`rtp_reorder.c:105`; `InOrder` with `UseFec = {TRUE}` and more packets than the
  ring has slots), by `flush_consecutive` and by `force_flush_until`, and each is
  taken from `count` once more: its 16 bits run below zero, and the loop then
  goes round the ring until it meets an empty slot. `FecKeepsOrder` says what is left of
  the order: only repetitions come late;
* a hand-over at sequence number 65534 sends the server "stop now"
  (`fcc.c:706`);
* when the first FCC request cannot be sent, the connection is freed with its
  FCC socket open and registered (`connection.c:1206`);
* a fallback whose multicast join fails leaves a stream without a source that no
  timeout ends (`fcc.c:354`; `SilenceEndsStream` with failing joins);
* `zerocopy_queue_cleanup` (`zerocopy.c:142`) puts buffers back while the kernel
  may still send from them, against the comment at `zerocopy.c:417`;
* first RTP packets further apart than the ring share slots while they are
  collected (`rtp_reorder.c:196`); `InitialSpread` keeps the runs within it;
* only the read ends of the notification pipes are non-blocking
  (`status.c:320`), though `status.c:601` expects `EAGAIN` from a write;
* a restart whose `fork` fails (`supervisor.c:367`) is not tried again, since
  the worker is neither running nor marked rate limited;
* a FEC group whose slots cannot be allocated after an eviction leaves
  `min_end_seq` at the evicted group's (`rtp_fec.c:119`);
* `rtsp_session_cleanup` called again during a TEARDOWN reports no asynchronous
  work (`rtsp.c:2405`).

The web player:

* `NothingPendingAtTheEnd`, `ClosedMeansStopped` (PlaybackController, kind
  "vod"): `endOfStream` may be called while an append that was deferred waits,
  and a time update resumes a worker that `onSourceClose` had stopped;
* `SamplesMatchInit`, `NoFrameMissing` (TsDemux): the sample before a change of
  configuration leaves after the new init segment, and a change of configuration
  drops a frame without any loss;
* when exactly 15 packets of a stream are lost in a row, the next
  one has the counter of the last and is dropped as a repetition
  (`ts-demuxer.ts:429`); the one after it passes for the last one's successor, and a
  sample is put together from two units (`NoDamagedSample` without the bound on
  losses in a row);
* `ResumesAfterDiscontinuity` (Mp4Remux, with two cuts): video that backward jumps
  put before the start of the output is dropped until that start is reached again.

The router pages:

* bandix: closing a dialog clears `currentDevice` 300 ms later, also that of a
  dialog opened meanwhile (`index.js:3992`, `OpenDialogHasDevice`); the schedule
  rules are polled every 5000 seconds, though the comment says 5
  (`index.js:7492`, LuCI's intervals are seconds); rows of an earlier filter can
  stay when answers come out of order (`dns.js:848`, `connection.js:1167`), and
  so can a badge or a whitelist whose answer was overtaken by a later one, or
  was empty (`index.js:3391`, shown as disabled), and those of a change whose
  answer was lost, with a checkbox that stays as it was clicked
  (`index.js:3606`; what `doubt` exempts from `BadgeSettles`); the
  page reloads after 30 seconds while a slow installation goes on
  (`settings.js:408`, `NoReloadWhileInstalling`);
* timecontrol: the daemon's initialisation after a temporary block and the
  "flush" that the init script runs itself (`timecontrol:457`, `:583`) do not
  exclude each other: one that loaded an older configuration empties the chain
  and adds to it what the other wrote, so a stale rule can stay or the reject
  rule be lost until the next reload (what `crossed` exempts from
  `FirewallSettles`; TLC finds it when that is dropped);
* netwizard: hidden inputs of another mode still decide the redirect
  (`RedirectsToRouter`); after the side-router mode with DHCP on the LAN, going
  back to a router mode leaves the LAN's protocol at dhcp (`RouterHasAddress`);
* netspeedtest: saving iperf3's page drops homebox's automatic start
  (`AutostartKept`);
* watchdog: once a read error is shown, a log whose content equals the last one
  shown is not drawn again, since the error does not reset `lastLogContent`
  (`ComparingPageCatchesUp`, `watchdog/log.js:67-86`);
* adblock-fast: `SuspendedIsNotDisabled` - a commented (suspended) crontab line is
  shown as "auto_update disabled" (`overview.js:87`), so saving turns a suspended
  schedule into a disabled one;
* netwiz: the form rewrites stored names while it loads (`LoadKeepsStored`,
  `netwiz.js:5239`); the evasion of an address conflict can be applied without
  the rollback it announces, and fields can be changed behind the summary
  (`EvasionIsProtected`, `AppliedAsListed`); a restore with safety backup stops
  at an undeclared variable (`RestoreGoesOn`, `netwiz.js:4651`); a package
  removed from or added to the list during the upload is installed unstored or
  not at all (`AllFilesSecured`); the badge may offer an older release than the
  one checked (`BadgeOffersLatest`); a refused port leaves the switch in the
  wrong place (`SwitchShowsAccess`); binding x.5 deletes a binding of x.50, since
  the rpcd script matches text; a DMZ target goes to another device when its
  address is bound anew (`DmzPointsAtDevice`);
* rtp2httpd's page accepts client and worker numbers that the server replaces
  (`AcceptedIsHonoured`, `rtp2httpd.js:557`); a host name that gives port 80 and
  no scheme opens the listen port, since `new URL` forgets a default port, though
  the buttons follow `get_server_address`, which keeps it
  (`OpensServersAddress`, `rtp2httpd.js:252`); with several TCP entries the page
  takes the first and the server the last, since it prepends them to its list
  (`configuration.c:188`, `m3u.c:215`).

## 7. Not modelled

*Daemon*: streams that are not RTP (bare TS), the multicast FEC socket, port
ranges for FCC sockets, periodic IGMP rejoin, the queue limit that depends on
pool use, backpressure on upstream sockets, request parsing and routing, RTSP,
HTTP proxy and fetch, snapshots, the log ring and the server-sent events of the
status page, rate limits and reload of the supervisor.

*Web player*: the React components (`video-player.tsx`, channel list, EPG),
live-edge seeking and stall detection, codec bit syntax, writing of MP4 boxes.

*Router pages*: the device table, themes, formatting and style sheets of
`bandix/index.js` (three quarters of that file), the second rewrite in
`bandix_plus/index.js`, drawing of lanspeed's pages, sorting and export in
`netwiz_dev.js`, translations everywhere, and the pages of partexp, netstat,
wrtbwmon, OpenClash, passwall and OpenAppFilter. In forms, a table section is
represented by one row and texts by one valid and one invalid value.

`PROJECT.json` gives the reason for each component.

## 8. Plan

1. Proofs: of Fcc `ServerReleased`, `NoWayBack`, `RedirectsMakeProgress` and
   `PendingStartsAtTermination`, then `SeamlessSwitch`; of RtpReorder
   `MinEndIsExact`.
2. **Supervisor**: spawn, reap, rate limit with failing forks, reload with
   rollback, change of the worker count, stop; notification pipes with a
   capacity.
3. **Connection** and event batch: fd reuse, deferred closing, dynamic queue
   limit and backpressure composed with BufferPool.
4. **Rtsp**: session states, keepalive, asynchronous TEARDOWN; STUN retries.
5. **ChunkedDecoder** against a reference decoder; life of an HTTP fetch.
