------------------------------ MODULE Pipeline ------------------------------
(***************************************************************************)
(* The transmux worker of the web player: transmux-worker.ts, the load     *)
(* loop of pipeline.ts and, of fetch-loader.ts, the life of the one fetch  *)
(* that the loop waits for.                                                *)
(*                                                                         *)
(* The worker is one record w.  A handler is a function from w to w, and a *)
(* step of the worker is one task with the microtasks it queues: while     *)
(* Busy(w) a microtask is due, and no message or network event is handled. *)
(* A load loop (_run) is a record of w.loops; superseded loops stay there  *)
(* until whatever they wait for settles.  runId keeps counting             *)
(* when a new Pipeline object replaces an old one, which keeps the loops   *)
(* of the two objects apart as their different "this" does in the code.    *)
(*                                                                         *)
(* A stream is a kind: "live" (one URL without end), "list" (TS URLs),     *)
(* "vod" (an HLS list of TS segments, the second after a discontinuity),   *)
(* "cmaf" (HLS, fMP4), "hidden" (a playlist behind a URL that does not     *)
(* look like one) and "junk" (neither TS nor fMP4).  An input is one HTTP  *)
(* response whose bytes may be demuxed together.                           *)
(***************************************************************************)
EXTENDS Naturals, Sequences, FiniteSets

CONSTANTS
  MaxChunks,  \* bound: chunks of one response
  MaxInputs,  \* bound: requests for media in one behaviour
  MaxOut,     \* bound: the worker waits when so many events are undelivered
  Failures    \* may a request fail?

VARIABLE w

NoIo == [run |-> 0, load |-> 0, i |-> 0, st |-> "none", n |-> 0, paused |-> FALSE, fresh |-> FALSE]

Hls(kind) == kind \in {"vod", "cmaf"}
Segment(reset, init, fmt) == [reset |-> reset, init |-> init, fmt |-> fmt]
Segments(kind) ==
  CASE kind = "live"   -> << Segment(FALSE, 0, "ts") >>
    [] kind = "list"   -> << Segment(FALSE, 0, "ts"), Segment(FALSE, 0, "ts") >>
    [] kind = "vod"    -> << Segment(TRUE, 0, "ts"), Segment(TRUE, 0, "ts") >>
    [] kind = "cmaf"   -> << Segment(TRUE, 1, "fmp4"), Segment(FALSE, 1, "fmp4") >>
    [] kind = "hidden" -> << Segment(FALSE, 0, "playlist") >>
    [] kind = "junk"   -> << Segment(FALSE, 0, "junk") >>

WorkerInit ==
  [pipe |-> "none", made |-> [load |-> 0, kind |-> "list"], gen |-> 0, runId |-> 0,
   mode |-> "static", paused |-> FALSE, gate |-> 0, loops |-> {}, io |-> NoIo,
   fmp4 |-> FALSE, initSent |-> FALSE, lastInit |-> 0, chunks |-> FALSE, tx |-> FALSE,
   stash |-> {}, inputs |-> 0, units |-> 0, decodes |-> {}, out |-> << >>]

(* post(): every event carries the worker's gen of the moment; "of" is the *)
(* load it really comes from.                                              *)
Post(s, type, load, ins, track) ==
  [s EXCEPT !.out = Append(@, [type |-> type, gen |-> s.gen, of |-> load, track |-> track,
                               n |-> s.units, ins |-> ins])]
PostInfo(s, load) == Post(s, "media-info", load, {}, "none")
PostMedia(s, load, ins) ==
  Post([s EXCEPT !.units = @ + 1], "media-segment", load, ins, "video")

Busy(s) == \E l \in s.loops : \/ l.pc \in {"woken", "settled"}
                              \/ l.pc = "next" /\ ~Hls(l.kind)

----------------------------------------------------------------------------
(* The pieces the handlers are made of.                                    *)

Settle(s, run, res) ==
  [s EXCEPT !.loops = {IF l.run = run /\ l.pc = "load"
                       THEN [l EXCEPT !.pc = "settled", !.res = res] ELSE l : l \in @}]
AbortCurrentLoad(s) ==
  IF s.io = NoIo THEN s ELSE Settle([s EXCEPT !.io = NoIo], s.io.run, "cancelled")

WakeGate(s) ==
  [s EXCEPT !.gate = 0,
            !.loops = {IF l.run = s.gate /\ l.pc = "gate"
                       THEN [l EXCEPT !.pc = "woken"] ELSE l : l \in @}]

StaysPaused(s) ==  \* mutant: the next stream inherits the pause of this one
  WakeGate([AbortCurrentLoad(s) EXCEPT
    !.tx = FALSE, !.stash = {}, !.fmp4 = FALSE, !.initSent = FALSE, !.chunks = FALSE,
    !.lastInit = 0, !.mode = "static"])
Teardown(s) ==
  WakeGate([AbortCurrentLoad(s) EXCEPT
    !.tx = FALSE, !.stash = {}, !.fmp4 = FALSE, !.initSent = FALSE, !.chunks = FALSE,
    !.lastInit = 0, !.paused = FALSE, !.mode = "static"])

(* _audioGen++: the frames that wait for the decoder are of an earlier      *)
(* audio generation from now on.                                           *)
ResetAudioTiming(s) == [s EXCEPT !.decodes = {[d EXCEPT !.current = FALSE] : d \in @}]

FlushRemuxer(s, load) ==
  IF s.stash = {} THEN s ELSE PostMedia([s EXCEPT !.stash = {}], load, s.stash)
SkipsFlush(s, load) == ResetAudioTiming(s)  \* mutant: samples of two inputs meet
FinishTsInputBoundary(s, load) == ResetAudioTiming(FlushRemuxer(s, load))

ResetTransmux(s, load) ==
  ResetAudioTiming([(IF s.tx THEN PostInfo(s, load) ELSE s) EXCEPT !.tx = FALSE, !.stash = {}])

(* _waitIfPaused at place k of the loop, and what follows when it passes.  *)
Continue(s, l, k) ==
  CASE k = "top"  -> [s EXCEPT !.loops = @ \cup {[l EXCEPT !.pc = "next"]}]
    [] k = "init" -> [s EXCEPT !.fmp4 = TRUE, !.loops = @ \cup {[l EXCEPT !.pc = "init"]}]
    [] k = "seg"  -> [s EXCEPT !.loops = @ \cup {[l EXCEPT !.pc = "load"]},
                               !.inputs = @ + 1,
                               !.io = [NoIo EXCEPT !.run = l.run, !.load = l.load, !.i = l.i,
                                                   !.st = "connecting", !.fresh = TRUE]]
WaitIfPaused(s, l, k) ==
  IF s.runId # l.run THEN s
  ELSE IF s.paused
       THEN [s EXCEPT !.gate = l.run, !.loops = @ \cup {[l EXCEPT !.pc = "gate", !.k = k]}]
       ELSE Continue(s, l, k)

StartRun(s, load, kind) ==
  WaitIfPaused(s, [run |-> s.runId, load |-> load, kind |-> kind, i |-> 0,
                   pc |-> "gate", k |-> "top", res |-> "ok"], "top")
StartHls(s, load, kind) == StartRun([s EXCEPT !.mode = "hls"], load, kind)

Load(s, load, kind) ==
  LET t == ResetAudioTiming(PostInfo(Teardown([s EXCEPT !.runId = @ + 1]), load))
      u == [t EXCEPT !.units = 0, !.pipe = "on"]
  IN  IF Hls(kind) THEN StartHls(u, load, kind)
      ELSE StartRun([u EXCEPT !.mode = IF kind = "list" THEN "static" ELSE "continuous"],
                    load, kind)

Destroy(s) == [Teardown([s EXCEPT !.runId = @ + 1]) EXCEPT !.pipe = "none", !.decodes = {}]

----------------------------------------------------------------------------
(* The message handler of transmux-worker.ts and Pipeline's public methods *)

Working(io) == io.st \in {"connecting", "buffering"} /\ ~io.paused

PausePipeline(s) ==
  [s EXCEPT !.paused = TRUE,
            !.io.paused = @ \/ (s.mode = "continuous" /\ Working(s.io))]

(* FetchLoader.resume with resumeMode "restart": the old input's samples   *)
(* are flushed by onRestarted, then a new request is made.                 *)
Restart(s) ==
  [FinishTsInputBoundary(s, s.io.load) EXCEPT
     !.fmp4 = FALSE, !.chunks = FALSE, !.inputs = @ + 1,
     !.io = [@ EXCEPT !.paused = FALSE, !.st = "connecting", !.n = 0, !.fresh = TRUE]]
Resume(s) ==
  LET t == [s EXCEPT !.paused = FALSE] IN
  WakeGate(IF s.mode = "continuous" /\ s.io.paused THEN Restart(t) ELSE t)

HandleCommand(s, cmd) ==
  CASE cmd.c = "init"   -> [s EXCEPT !.gen = cmd.load, !.pipe = "made",
                                     !.made = [load |-> cmd.load, kind |-> cmd.kind]]
    [] cmd.c = "start"  -> IF s.pipe = "none" THEN s ELSE Load(s, s.made.load, s.made.kind)
    [] cmd.c = "load"   -> LET t == [s EXCEPT !.gen = cmd.load] IN
                           IF s.pipe = "none" THEN t ELSE Load(t, cmd.load, cmd.kind)
    [] cmd.c = "pause"  -> IF s.pipe = "none" THEN s ELSE PausePipeline(s)
    [] cmd.c = "resume" -> IF s.pipe = "none" THEN s ELSE Resume(s)
    [] cmd.c = "reset"  -> IF s.pipe = "none" THEN s ELSE Destroy(s)

----------------------------------------------------------------------------
(* Steps of the load loop.                                                 *)

Without(l) == [w EXCEPT !.loops = @ \ {l}]

(* A loop that waited for resume() looks at _paused and _runId again.      *)
LoopWakes(l) ==
  /\ l.pc = "woken"
  /\ w' = WaitIfPaused(Without(l), l, l.k)

(* source.next() settles with the next segment, or with the end; an HLS    *)
(* source has announced its first playlist (hls-info) just before.         *)
NextSegment(l) ==
  LET i == IF l.kind \in {"live", "hidden", "junk"} THEN 1 ELSE l.i + 1
      s == IF Hls(l.kind) /\ l.i = 0 /\ l.run = w.runId
           THEN Post(Without(l), "hls-info", l.load, {}, "none") ELSE Without(l)
      seg == Segments(l.kind)[i]
      t == IF seg.reset THEN ResetTransmux(s, l.load) ELSE s
      needInit == seg.init # 0 /\ seg.init # s.lastInit
  IN /\ l.pc = "next"
     /\ ~Hls(l.kind) \/ ~Busy(w)
     /\ i <= Len(Segments(l.kind)) => w.inputs < MaxInputs
     /\ w' = IF s.runId # l.run THEN s
             ELSE IF i > Len(Segments(l.kind))
             THEN Post(FlushRemuxer(s, l.load), "complete", l.load, {}, "none")
             ELSE WaitIfPaused(t, [l EXCEPT !.i = i], IF needInit THEN "init" ELSE "seg")

(* The source gives up: onIOError, unless the loop is superseded.          *)
SourceFails(l) ==
  /\ Failures /\ l.pc = "next" /\ Hls(l.kind) /\ ~Busy(w)
  /\ w' = IF w.runId = l.run THEN Post(Without(l), "error", l.load, {}, "none") ELSE Without(l)

(* _loadFmp4Init: the init segment arrives (or not) after its await.       *)
InitLoaded(l) ==
  LET s == [Post(PostInfo(Without(l), l.load), "init-segment", l.load, {}, "video")
              EXCEPT !.initSent = TRUE, !.lastInit = 1]
  IN /\ l.pc = "init" /\ ~Busy(w) /\ w.inputs < MaxInputs
     /\ w' = IF w.runId = l.run THEN WaitIfPaused(s, l, "seg") ELSE Without(l)
InitFails(l) ==
  /\ Failures /\ l.pc = "init" /\ ~Busy(w)
  /\ w' = IF w.runId = l.run THEN Post(Without(l), "error", l.load, {}, "none") ELSE Without(l)

(* _flushFmp4Segment: a whole fMP4 segment goes to the main thread.        *)
FlushFmp4Segment(s, load) ==
  IF ~s.chunks THEN s
  ELSE LET t == [s EXCEPT !.chunks = FALSE]
           u == IF s.initSent THEN t
                ELSE Post(PostInfo([t EXCEPT !.initSent = TRUE], load), "init-segment", load, {}, "video")
       IN  PostMedia(u, load, {s.inputs})

(* The promise of _loadSegment settles.                                    *)
SegmentSettles(l) ==
  LET s == Without(l)
      t == IF s.fmp4 THEN FlushFmp4Segment(s, l.load)
           ELSE IF Hls(l.kind) THEN FlushRemuxer(s, l.load)
           ELSE FinishTsInputBoundary(s, l.load)
  IN /\ l.pc = "settled"
     /\ w' = IF s.runId # l.run \/ l.res = "cancelled" THEN s
             ELSE IF l.res = "error" THEN Post(s, "error", l.load, {}, "none")
             ELSE WaitIfPaused(t, l, "top")

----------------------------------------------------------------------------
(* Events of the fetch in flight.  A paused or destroyed loader has aborted *)
(* its request, and everything that still comes of it is dropped.          *)

Format == LET k == (CHOOSE l \in w.loops : l.run = w.io.run).kind IN Segments(k)[w.io.i].fmt

(* _setupTSDemuxerRemuxer and the first parse: a new pair sends two inits, *)
(* each preceded by the track's media info; a reused pair sends none.      *)
SetupTS(s) ==
  LET a == Post(PostInfo(s, s.io.load), "init-segment", s.io.load, {}, "video")
      b == Post(PostInfo(a, s.io.load), "init-segment", s.io.load, {}, "audio")
  IN  IF s.tx THEN s ELSE [b EXCEPT !.tx = TRUE]

(* A chunk of TS: its samples are stashed with the input they came from,   *)
(* the remuxer may or may not have a batch to emit, and the raw audio      *)
(* frame waits for the decoder.                                            *)
TsChunk(emit) ==
  LET s == IF w.io.fresh THEN SetupTS(w) ELSE w
      t == [s EXCEPT !.stash = @ \cup {s.inputs}, !.io.st = "buffering", !.io.n = @ + 1,
                     !.io.fresh = FALSE,
                     !.decodes = @ \cup {[current |-> TRUE, of |-> s.io.load]}]
  IN  /\ Format = "ts" /\ ~w.fmp4 /\ w.io.n < MaxChunks
      /\ w' = IF emit THEN FlushRemuxer(t, t.io.load) ELSE t
Fmp4Chunk ==
  /\ Format = "fmp4" /\ w.io.n < MaxChunks
  /\ w' = [w EXCEPT !.fmp4 = TRUE, !.chunks = TRUE, !.io.st = "buffering", !.io.n = @ + 1]
JunkChunk ==
  /\ Format = "junk"
  /\ w' = AbortCurrentLoad(Post(w, "error", w.io.load, {}, "none"))

(* The response is a playlist: its text is read first (status kIdle), then *)
(* onHLSDetected starts an HLS run in place of this one.                   *)
PlaylistResponse ==
  /\ Format = "playlist" /\ w.io.st = "connecting"
  /\ w' = [w EXCEPT !.io.st = "text"]
HlsDetected ==
  /\ w.io.st = "text" /\ ~Busy(w)
  /\ LET s == Settle([w EXCEPT !.runId = @ + 1, !.io = NoIo], w.io.run, "cancelled")
     IN  w' = StartHls(s, w.io.load, "vod")

FetchCompletes ==
  /\ w.io.st = "buffering"
  /\ w' = Settle([w EXCEPT !.io = NoIo], w.io.run, "ok")
FetchFails ==
  /\ Failures
  /\ w' = Settle([w EXCEPT !.io = NoIo], w.io.run, "error")

FetchEvent ==
  /\ Working(w.io) /\ ~Busy(w)
  /\ \/ \E emit \in BOOLEAN : TsChunk(emit)
     \/ Fmp4Chunk
     \/ JunkChunk
     \/ PlaylistResponse
     \/ FetchCompletes
     \/ FetchFails

(* A raw audio frame is decoded once the decoder is ready; the frame of an *)
(* earlier audio generation is dropped.                                    *)
DecodeAudio(d) ==
  LET s == [w EXCEPT !.decodes = @ \ {d}] IN
  w' = IF d.current THEN Post(s, "pcm-audio-data", d.of, {}, "audio") ELSE s

LoopStep == \E l \in w.loops :
  \/ LoopWakes(l)
  \/ NextSegment(l)
  \/ SourceFails(l)
  \/ InitLoaded(l)
  \/ InitFails(l)
  \/ SegmentSettles(l)

WorkerStep ==
  /\ Len(w.out) < MaxOut \/ Busy(w)
  /\ \/ LoopStep
     \/ FetchEvent
     \/ HlsDetected
     \/ ~Busy(w) /\ \E d \in w.decodes : DecodeAudio(d)
=============================================================================
