------------------------- MODULE PlaybackController -------------------------
(***************************************************************************)
(* The main thread of the web player's MSE backend: playback-controller.ts *)
(* and media-source.ts, over the transmux worker of Pipeline.              *)
(*                                                                         *)
(* The main thread is one record mt; mt.cmds and w.out are the two          *)
(* postMessage channels.  A stream that is loaded is named by the value of *)
(* mseGeneration it was loaded under.  The buffer is counted in media      *)
(* segments: ahead of the playhead and behind it.                          *)
(***************************************************************************)
EXTENDS Pipeline

CONSTANTS
  Kinds,     \* kinds of stream the application loads
  MaxLoads,  \* bound: loads and suspensions
  MaxCmds,   \* bound: commands under way when the browser stops streaming
  Cap,       \* media segments the SourceBuffer takes ahead of the playhead
  PauseAt,   \* VOD_FORWARD_BUFFER_PAUSE, in segments
  ResumeAt,  \* BACKPRESSURE_RESUME_BUFFER_AHEAD, in segments
  MaxBack,   \* bufferCleanupMaxBackward, in segments
  Unsupported,  \* sets of tracks whose codec the browser may refuse
  Managed    \* ManagedMediaSource in place of MediaSource: a set of Booleans

ASSUME ControllerAssumption ==
  /\ {MaxChunks, MaxInputs, MaxOut, MaxLoads, MaxCmds, Cap, PauseAt, ResumeAt, MaxBack} \subseteq Nat \ {0}
  /\ ResumeAt <= PauseAt /\ PauseAt < Cap
  /\ Kinds \subseteq {"live", "list", "vod", "cmaf", "hidden", "junk"}
  /\ Managed \subseteq BOOLEAN

VARIABLE mt

vars == <<w, mt>>

MseTracks == {"video", "audio"}

MainInit(managed, unsupported) ==
  [gen |-> 0, cmds |-> << >>, wInit |-> FALSE, segs |-> "none", inits |-> << >>,
   throttle |-> FALSE, wm |-> FALSE, bf |-> FALSE,
   managed |-> managed, refuses |-> unsupported, disabled |-> {}, ms |-> "none", streaming |-> TRUE,
   sb |-> [t \in MseTracks |-> "none"], pend |-> [t \in MseTracks |-> << >>], rem |-> FALSE,
   full |-> FALSE, eos |-> FALSE, early |-> {}, parsed |-> FALSE, late |-> FALSE,
   app |-> << >>, ahead |-> 0, back |-> 0, pcm |-> {}, fed |-> {}]

Send(x, c) == [x EXCEPT !.cmds = Append(@, [c |-> c, load |-> x.gen, kind |-> x.segs])]

----------------------------------------------------------------------------
(* Back-pressure: the worker is paused while enough is buffered.           *)

UpdateFetchBackpressure(x) ==
  IF x.wm \/ x.bf
  THEN IF x.ahead < ResumeAt THEN Send([x EXCEPT !.wm = FALSE, !.bf = FALSE], "resume") ELSE x
  ELSE IF x.throttle /\ x.ahead > PauseAt THEN Send([x EXCEPT !.wm = TRUE], "pause") ELSE x

OnBufferFull(x) == Send([x EXCEPT !.bf = TRUE], "pause")

----------------------------------------------------------------------------
(* media-source.ts                                                         *)

CanAppend(x) == ~x.managed \/ x.streaming

DoRemoveRanges(x) ==
  IF x.rem /\ x.sb["video"] = "idle"
  THEN [x EXCEPT !.rem = FALSE, !.sb["video"] = "remove"] ELSE x

(* appendBuffer on one track: the entry goes in, or QuotaExceededError     *)
(* puts it back at the head of the queue.  Before it refuses, the browser  *)
(* evicts what lies behind the playhead, so only what is ahead counts.     *)
AppendEntry(x, t) ==
  LET e == Head(x.pend[t])
      y == [x EXCEPT !.pend[t] = Tail(@), !.sb[t] = e.kind, !.full = FALSE]
      z == IF e.kind = "init" THEN y
           ELSE [y EXCEPT !.app = Append(@, [of |-> e.of, n |-> e.n]), !.ahead = @ + 1]
  IN  IF x.sb[t] # "idle" \/ x.pend[t] = << >> THEN x
      ELSE IF e.kind = "media" /\ x.ahead >= Cap
      THEN [(IF x.full THEN x ELSE OnBufferFull(x)) EXCEPT !.full = TRUE]
      ELSE IF x.full THEN UpdateFetchBackpressure(z) ELSE z
DoAppendSegments(x) == AppendEntry(AppendEntry(x, "video"), "audio")

HasPending(x) == x.pend["video"] # << >> \/ x.pend["audio"] # << >>

TryAppendPending(x) ==
  IF x.ms # "open" \/ ~CanAppend(x) THEN x
  ELSE IF x.rem THEN DoRemoveRanges(x) ELSE DoAppendSegments(x)

(* createSourceBuffer: an unsupported codec disables the track; once the   *)
(* browser has parsed the init segments it has, addSourceBuffer throws     *)
(* QuotaExceededError.                                                     *)
DisableTrack(x, t) ==
  [x EXCEPT !.disabled = @ \cup {t}, !.pend[t] = << >>, !.early = @ \ {t}]
CreateSourceBuffer(x, t) ==
  IF t \in x.disabled \/ x.sb[t] # "none" \/ x.ms # "open" THEN x
  ELSE IF t \in x.refuses THEN DisableTrack(x, t)
  ELSE IF x.parsed THEN [x EXCEPT !.late = TRUE]
  ELSE [x EXCEPT !.sb[t] = "idle"]

(* pendingSourceBufferInit: creating a track's buffer again does nothing,   *)
(* and the tracks do not depend on each other, so a set stands for it.     *)
CreateEarly(x, t, early) == IF t \in early THEN CreateSourceBuffer(x, t) ELSE x
FlushPendingSourceBufferInit(x) ==
  IF x.ms # "open" THEN x
  ELSE CreateEarly(CreateEarly([x EXCEPT !.early = {}], "video", x.early), "audio", x.early)

AppendInit(x, e) ==
  LET q == [kind |-> "init", of |-> e.of, n |-> 0]
      y == CreateSourceBuffer(x, e.track)
  IN  IF e.track \in x.disabled THEN x
      ELSE IF x.ms # "open" \/ (x.managed /\ ~x.streaming)
      THEN [x EXCEPT !.early = @ \cup {e.track}, !.pend[e.track] = Append(@, q)]
      ELSE IF e.track \in y.disabled THEN y
      ELSE TryAppendPending([y EXCEPT !.pend[e.track] = Append(@, q)])

AppendMedia(x, e) ==
  LET y == [x EXCEPT !.pend[e.track] = Append(@, [kind |-> "media", of |-> e.of, n |-> e.n])]
      z == IF y.back >= MaxBack THEN DoRemoveRanges([y EXCEPT !.rem = TRUE]) ELSE y
  IN  IF e.track \in x.disabled THEN x
      ELSE IF x.ms # "open" THEN y ELSE TryAppendPending(z)

EndOfStream(x) ==
  IF x.ms # "open" THEN IF x.ms \in {"closed", "dead"} /\ HasPending(x)
                        THEN [x EXCEPT !.eos = TRUE] ELSE x
  ELSE IF \E t \in MseTracks : x.sb[t] \notin {"none", "idle"} THEN [x EXCEPT !.eos = TRUE]
  ELSE [x EXCEPT !.eos = FALSE, !.ms = "ended"]

(* updateend of one track: onBufferUpdated, then the next piece of work.   *)
OnUpdateEnd(x, t) ==
  LET y == [x EXCEPT !.sb[t] = "idle",
                     !.parsed = @ \/ x.sb[t] = "init",
                     !.back = IF x.sb[t] = "remove" THEN 0 ELSE @]
      z == UpdateFetchBackpressure(y)
  IN  IF z.rem THEN DoRemoveRanges(z)
      ELSE IF HasPending(z) THEN TryAppendPending(z)
      ELSE IF z.eos THEN EndOfStream(z)
      ELSE IF z.full THEN UpdateFetchBackpressure([z EXCEPT !.full = FALSE])
      ELSE z

----------------------------------------------------------------------------
(* playback-controller.ts                                                  *)

DestroyMSE(x) ==
  [x EXCEPT !.ms = "none", !.sb = [t \in MseTracks |-> "none"], !.rem = FALSE,
            !.pend = [t \in MseTracks |-> << >>], !.early = {}, !.full = FALSE,
            !.eos = FALSE, !.parsed = FALSE, !.late = FALSE, !.app = << >>,
            !.ahead = 0, !.back = 0, !.streaming = TRUE, !.fed = {}, !.disabled = {}]
ResetFetchBackpressure(x) == [x EXCEPT !.throttle = FALSE, !.wm = FALSE, !.bf = FALSE]

LoadSegments(kind) ==
  /\ mt.gen < MaxLoads
  /\ mt' = [ResetFetchBackpressure(DestroyMSE(mt)) EXCEPT
             !.gen = @ + 1, !.inits = << >>, !.segs = kind, !.ms = "closed"]
  /\ UNCHANGED w

Suspend ==
  /\ mt.gen < MaxLoads /\ mt.ms # "none"
  /\ LET x == [ResetFetchBackpressure(DestroyMSE(mt)) EXCEPT
                 !.gen = @ + 1, !.inits = << >>, !.segs = "none", !.wInit = FALSE]
     IN  mt' = Send(x, "reset")
  /\ UNCHANGED w

(* loadInWorker, on sourceopen                                             *)
LoadInWorker(x) ==
  IF x.segs = "none" THEN x
  ELSE [(IF x.wInit THEN Send(x, "load") ELSE Send(Send(x, "init"), "start"))
          EXCEPT !.wInit = TRUE, !.segs = "none"]
SourceOpen ==
  /\ mt.ms = "closed"
  /\ mt' = LoadInWorker(TryAppendPending(FlushPendingSourceBufferInit([mt EXCEPT !.ms = "open"])))
  /\ UNCHANGED w

(* The init segments of the batch are appended one by one.                 *)
FlushPendingInits(x) ==
  LET after[k \in 0 .. Len(x.inits)] ==
        IF k = 0 THEN x ELSE AppendInit(after[k - 1], x.inits[k])
  IN  [after[Len(x.inits)] EXCEPT !.inits = << >>]
FlushesOnInfo(type) == type # "init-segment"  \* mutant: media-info flushes the inits
FlushesInits(type) == type \notin {"init-segment", "media-info"}

OnHlsInfo(x) ==  \* a VOD playlist: throttle the fetches
  UpdateFetchBackpressure([x EXCEPT !.throttle = TRUE])

HandleWorkerMessage ==
  /\ w.out # << >>
  /\ w' = [w EXCEPT !.out = Tail(@)]
  /\ LET e == Head(w.out)
         x == IF FlushesInits(e.type) THEN FlushPendingInits(mt) ELSE mt
     IN  mt' = IF e.gen # mt.gen THEN mt
              ELSE CASE e.type = "init-segment"   -> [x EXCEPT !.inits = Append(@, e)]
                     [] e.type = "media-info"     -> x
                     [] e.type = "media-segment"  -> AppendMedia(x, e)
                     [] e.type = "error"          -> x  \* onError: the application's business
                     [] e.type = "complete"       -> EndOfStream(x)
                     [] e.type = "hls-info"       -> OnHlsInfo(x)
                     [] e.type = "pcm-audio-data" -> [x EXCEPT !.pcm = @ \cup {[gen |-> x.gen, of |-> e.of]}]

(* The PCM player's init() settles: feed() unless another load came.       *)
FeedsLateAudio == \E p \in mt.pcm :  \* mutant: the generation is not looked at again
  /\ mt' = [mt EXCEPT !.pcm = @ \ {p}, !.fed = @ \cup {p.of}]
  /\ UNCHANGED w
FeedPcm == \E p \in mt.pcm :
  /\ mt' = [mt EXCEPT !.pcm = @ \ {p}, !.fed = IF p.gen = mt.gen THEN @ \cup {p.of} ELSE @]
  /\ UNCHANGED w

UpdateEnd == \E t \in MseTracks :
  /\ mt.sb[t] \notin {"none", "idle"} /\ mt.ms \in {"open", "ended"}
  /\ mt' = OnUpdateEnd(mt, t)
  /\ UNCHANGED w

(* Playback advances and timeupdate fires.                                 *)
OnTimeUpdate ==
  /\ mt.ahead > 0 /\ mt.ms \in {"open", "ended"}
  /\ mt' = UpdateFetchBackpressure([mt EXCEPT !.ahead = @ - 1, !.back = @ + 1])
  /\ UNCHANGED w

(* ManagedMediaSource: the browser asks for data, or has enough.           *)
StartStreaming ==
  /\ mt.managed /\ ~mt.streaming /\ mt.ms \in {"open", "ended"}
  /\ LET x == TryAppendPending(FlushPendingSourceBufferInit([mt EXCEPT !.streaming = TRUE]))
     IN  mt' = IF x.wm \/ x.bf THEN UpdateFetchBackpressure(x) ELSE Send(x, "resume")
  /\ UNCHANGED w
EndStreaming ==
  /\ mt.managed /\ mt.streaming /\ mt.ms = "open" /\ mt.app # << >>
  /\ Len(mt.cmds) < MaxCmds
  /\ mt' = [mt EXCEPT !.streaming = FALSE]
  /\ UNCHANGED w

(* The browser reclaims the media pipeline: onSourceClose.                 *)
SourceClose ==
  /\ mt.ms \in {"open", "ended"}
  /\ mt' = Send([mt EXCEPT !.ms = "dead", !.sb = [t \in MseTracks |-> "none"], !.ahead = 0, !.back = 0],
               "pause")
  /\ UNCHANGED w

(* A timeupdate after the source closed sees an empty buffer.              *)
TimeUpdateClosed ==
  /\ mt.ms = "dead" /\ UpdateFetchBackpressure(mt) # mt
  /\ mt' = UpdateFetchBackpressure(mt)
  /\ UNCHANGED w

----------------------------------------------------------------------------
WorkerReceives ==
  /\ mt.cmds # << >> /\ ~Busy(w)
  /\ w' = HandleCommand(w, Head(mt.cmds))
  /\ mt' = [mt EXCEPT !.cmds = Tail(@)]

Worker == WorkerStep /\ UNCHANGED mt

Init == /\ w = WorkerInit
        /\ \E managed \in Managed, u \in Unsupported : mt = MainInit(managed, u)

Main ==
  \/ HandleWorkerMessage
  \/ SourceOpen
  \/ FeedPcm
  \/ UpdateEnd
  \/ OnTimeUpdate
  \/ StartStreaming
  \/ TimeUpdateClosed

Next ==
  \/ \E kind \in Kinds : LoadSegments(kind)
  \/ Suspend
  \/ Main
  \/ EndStreaming
  \/ SourceClose
  \/ WorkerReceives
  \/ Worker

Spec == Init /\ [][Next]_vars

----------------------------------------------------------------------------
TypeOK ==
  /\ mt.gen \in 0 .. MaxLoads /\ w.gen \in 0 .. MaxLoads
  /\ mt.ms \in {"none", "closed", "open", "ended", "dead"}
  /\ mt.sb \in [MseTracks -> {"none", "idle", "init", "media", "remove"}]
  /\ mt.ahead \in 0 .. Cap
  /\ w.mode \in {"static", "continuous", "hls"}
  /\ w.io = NoIo \/ \E l \in w.loops : l.run = w.io.run /\ l.pc = "load"
  /\ Cardinality({l \in w.loops : l.run = w.runId}) <= 1

(* Everything the worker posts under a generation comes from the stream     *)
(* that was loaded under it: no loop, loader or decode of an earlier stream *)
(* speaks after load-segments has set the new gen (_runId, _cancelLoad and  *)
(* _audioGen).                                                              *)
EventsAreCurrent == \A i \in DOMAIN w.out : w.out[i].gen = w.out[i].of

(* What plays is the current stream: the media the MediaSource takes are    *)
(* its segments, all of them so far, each once and in order, whatever was   *)
(* deferred, refused for quota and retried; and the PCM player is fed with  *)
(* its audio only, however late its own init() settles.                     *)
PlaysTheCurrentStream ==
  /\ \A i \in DOMAIN mt.app : mt.app[i] = [of |-> mt.gen, n |-> i]
  /\ mt.fed \subseteq {mt.gen}

(* No media segment mixes samples of two responses: every boundary of the   *)
(* input (segment end, restart after a pause, discontinuity) flushes or     *)
(* drops what the remuxer holds.                                            *)
OneInputPerSegment ==
  \A i \in DOMAIN w.out : Cardinality(w.out[i].ins) <= 1

(* Every SourceBuffer is created before the browser has parsed an init      *)
(* segment: what the batching of init segments in handleWorkerMessage is    *)
(* for.                                                                     *)
NoLateSourceBuffer == ~mt.late

(* Once the channels are empty, the pipeline of the current stream is       *)
(* paused exactly when the controller believes that it paused it.           *)
PauseAgrees ==
  (mt.cmds = << >> /\ w.pipe = "on" /\ w.gen = mt.gen /\ mt.ms \in {"open", "ended"})
     => (w.paused <=> (mt.wm \/ mt.bf))

(* A loop that waits at the gate is the one resume() will wake.             *)
GateWakesTheWaiter ==
  \A l \in w.loops : (l.pc = "gate" /\ l.run = w.runId) => w.gate = l.run /\ w.paused

(* No lost resume: when the worker is paused and nothing is under way, the  *)
(* buffer still has to be played down, and the timeupdate that plays it     *)
(* down resumes the worker.                                                 *)
PausedUntilPlayed ==
  (/\ w.paused /\ w.pipe = "on" /\ w.gen = mt.gen /\ mt.ms \in {"open", "ended"}
   /\ mt.cmds = << >> /\ \A t \in MseTracks : mt.sb[t] \in {"none", "idle"})
     => mt.ahead >= ResumeAt

(* "The MSE layer already defers appends while ManagedMediaSource           *)
(* streaming=false": what is deferred is still to be appended, so a         *)
(* MediaSource that ended has nothing pending.                              *)
NothingPendingAtTheEnd == mt.ms = "ended" => ~HasPending(mt)

(* "Stop fetching - this session cannot be revived": after onSourceClose    *)
(* the pipeline stays paused until another stream is loaded.                *)
ClosedMeansStopped ==
  (mt.ms = "dead" /\ mt.cmds = << >> /\ w.gen = mt.gen /\ w.pipe = "on") => w.paused

(* What the worker sends is of the stream it was told to play, and what     *)
(* plays is the current stream.                                             *)
StreamsDoNotMix == TypeOK /\ EventsAreCurrent /\ PlaysTheCurrentStream

(* The controller and the worker agree on who waits for whom: the pause     *)
(* flags match, a waiting loop is the one that will be woken, and a paused  *)
(* worker has something left to be played down.                             *)
BackpressureAgrees == PauseAgrees /\ GateWakesTheWaiter /\ PausedUntilPlayed
=============================================================================
