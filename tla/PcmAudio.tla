------------------------------ MODULE PcmAudio ------------------------------
(***************************************************************************)
(* pcm-audio-player.ts: software-decoded audio, scheduled on the clock of  *)
(* an AudioContext and kept beside the clock of the video element.         *)
(*                                                                         *)
(* a holds the player and what it sees of the browser: the page (hidden),  *)
(* the context (ctx), and the element (paused, seeking, ready, time vt,    *)
(* slow).  Time is counted in chunks.  insertToBuffer closes every hole,   *)
(* so the seek buffer is the interval from..to; the scheduled chain plays  *)
(* at..end.  None stands for null.                                         *)
(***************************************************************************)
EXTENDS Integers

CONSTANTS
  MaxTime,       \* bound: length of the stream
  Ahead,         \* SCHEDULE_AHEAD
  Lead,          \* STARTUP_MINIMUM_LEAD_SEC
  Window,        \* PENDING_REFILL_WINDOW_SEC
  HardResync,    \* HARD_RESYNC_THRESHOLD
  KeepBack       \* bufferCleanupMaxBackward

ASSUME PcmAssumption ==
  {MaxTime, Ahead, Lead, Window, HardResync, KeepBack} \subseteq Nat \ {0}

VARIABLE a
pcmVars == <<a>>
PcmNone == -1

PcmInit ==
  a \in {[sync |-> "active", startup |-> "waiting", waited |-> FALSE, timer |-> FALSE,
          buffering |-> FALSE, isSeeking |-> FALSE, slow |-> FALSE, saved |-> FALSE,
          from |-> f, to |-> f, pend |-> PcmNone, cursor |-> PcmNone,
          on |-> FALSE, at |-> 0, end |-> 0, stretcher |-> "none",
          ctx |-> "suspended", resuming |-> FALSE, unlocked |-> FALSE,
          hidden |-> FALSE, paused |-> TRUE, seeking |-> FALSE, ready |-> FALSE, vt |-> 0,
          failed |-> FALSE] : f \in 0 .. 1}

----------------------------------------------------------------------------
HasPlayableVideoData(s) == ~s.paused /\ ~s.seeking /\ ~s.isSeeking /\ s.ready
CanScheduleAudio(s) == ~s.buffering /\ HasPlayableVideoData(s)

(* setSyncState: the recovery timer belongs to the recovering state        *)
SetSyncState(s, next) ==
  IF s.sync = next THEN s ELSE [s EXCEPT !.sync = next, !.timer = next = "recovering"]

(* The playback rate is saved while startup slows the video down.          *)
BeginStartupRateControl(s) ==
  IF s.saved THEN s ELSE [s EXCEPT !.saved = TRUE, !.startup = "slowing", !.slow = TRUE]
RestoreStartupPlaybackRate(s) == IF s.saved THEN [s EXCEPT !.saved = FALSE, !.slow = FALSE] ELSE s

FailStartupSync(s) ==
  IF s.startup = "failed" THEN s
  ELSE [RestoreStartupPlaybackRate(s) EXCEPT !.startup = "failed", !.failed = TRUE]

ResetStartupSyncWait(s) ==
  IF s.startup \in {"complete", "disabled", "failed"} THEN s
  ELSE [RestoreStartupPlaybackRate(s) EXCEPT !.startup = "waiting", !.waited = FALSE]

CancelChain(s) == [s EXCEPT !.on = FALSE, !.at = 0, !.end = 0]
KeepsPending(s) == [CancelChain(s) EXCEPT !.cursor = PcmNone]  \* mutant: audio of the old place is left to play
DropChain(s) == [CancelChain(s) EXCEPT !.pend = PcmNone, !.cursor = PcmNone]

----------------------------------------------------------------------------
(* findChunkIndexByTime, trimChunkStart, refillPendingFromBuffer: where    *)
(* audio for time t starts in the buffer                                   *)
RefillStart(s, t) ==
  IF s.from = s.to \/ t >= s.to \/ s.from >= t + Window THEN PcmNone
  ELSE IF t < s.from THEN s.from ELSE t

(* scheduleOutput: the end of startup                                      *)
ScheduleOutput(s, first, last) ==
  LET t == [s EXCEPT !.on = TRUE, !.at = IF s.on /\ s.at < s.end THEN @ ELSE first,
                     !.end = last, !.cursor = last, !.pend = PcmNone]
  IN  IF s.startup = "anchoring"
      THEN RestoreStartupPlaybackRate([t EXCEPT !.startup = "complete"]) ELSE t

(* pump, once startup lets it: refill, ensureStretcher, anchor, feed.  The *)
(* chunks have one format: ensureStretcher never changes it here.          *)
PumpChain(s) ==
  LET pend == IF s.pend # PcmNone THEN s.pend
              ELSE IF s.sync = "recovering" /\ s.cursor = PcmNone THEN PcmNone
              ELSE RefillStart(s, IF s.cursor = PcmNone THEN s.vt ELSE s.cursor)
      first == IF s.cursor = PcmNone THEN pend ELSE s.cursor
      limit == (IF s.on /\ s.at < s.end THEN s.at ELSE first) + Ahead
      last == IF s.to < limit THEN s.to ELSE limit
  IN  IF pend = PcmNone \/ s.startup = "failed" THEN s
      ELSE IF s.ctx # "running" THEN [s EXCEPT !.resuming = TRUE]
      ELSE IF s.on /\ s.end - s.at >= Ahead THEN [s EXCEPT !.pend = pend]
      ELSE IF s.stretcher # "ready"
      THEN [s EXCEPT !.pend = pend, !.stretcher = IF @ = "none" THEN "loading" ELSE @]
      ELSE IF last <= first THEN [s EXCEPT !.pend = pend]
      ELSE ScheduleOutput(s, first, last)

(* resyncFromBuffer; Covered says whether it succeeds                      *)
Covered(s, t) == RefillStart(s, t) # PcmNone
ResyncFromBuffer(s, t) ==
  LET r == DropChain(s)
  IN  IF ~Covered(s, t) THEN r
      ELSE IF ~CanScheduleAudio(s) THEN [r EXCEPT !.pend = RefillStart(s, t)]
      ELSE PumpChain([r EXCEPT !.pend = RefillStart(s, t)])

(* tryStartInitialSync                                                     *)
TryStartInitialSync(s) ==
  LET later == s.from > s.vt
      target == IF later THEN s.from ELSE s.vt
      lead == IF later THEN s.to - s.from >= Lead ELSE s.vt + Lead <= s.to
      waiting == IF later THEN (IF s.startup = "slowing"
                                THEN [RestoreStartupPlaybackRate(s) EXCEPT !.startup = "waiting"] ELSE s)
                 ELSE IF s.startup = "waiting" THEN BeginStartupRateControl(s)
                 ELSE [s EXCEPT !.slow = TRUE]
  IN  IF s.sync # "active" \/ s.hidden \/ ~CanScheduleAudio(s) \/ s.from = s.to THEN s
      ELSE IF lead
      THEN LET r == ResyncFromBuffer([RestoreStartupPlaybackRate(s) EXCEPT !.startup = "anchoring"], target)
           IN  IF Covered(s, target) THEN r ELSE [r EXCEPT !.startup = "waiting"]
      ELSE IF s.waited THEN FailStartupSync(waiting) ELSE waiting

Pump(s) ==
  IF ~CanScheduleAudio(s) THEN s
  ELSE IF s.startup \in {"waiting", "slowing"} THEN TryStartInitialSync(s)
  ELSE PumpChain(s)

----------------------------------------------------------------------------
(* controlTick, controlAndPump: only while the video clock is trusted      *)
Playing(s) == s.on /\ s.at < s.end
Drift(s) == IF s.at > s.vt THEN s.at - s.vt ELSE s.vt - s.at
TicksAlways(s) ==  \* mutant: corrects against the clock of a hidden page
  s.ctx = "running" /\ s.stretcher = "ready" /\ CanScheduleAudio(s)
ControlApplies(s) ==
  s.ctx = "running" /\ s.stretcher = "ready" /\ s.sync = "active" /\ CanScheduleAudio(s)
ControlAndPump(s) ==
  IF ControlApplies(s) /\ Playing(s) /\ Drift(s) > HardResync
  THEN LET r == ResyncFromBuffer(s, s.vt) IN IF Covered(s, s.vt) THEN r ELSE Pump(r)
  ELSE IF ControlApplies(s) /\ ~s.on /\ s.pend = PcmNone /\ s.to > s.vt /\ Covered(s, s.vt)
  THEN ResyncFromBuffer(s, s.vt)
  ELSE Pump(s)

(* completeRecovery                                                        *)
CompleteRecovery(s0) ==
  LET s == SetSyncState(s0, "active") IN
  IF s.startup = "failed" THEN s
  ELSE IF s.startup \notin {"complete", "disabled"}
  THEN TryStartInitialSync([s EXCEPT !.startup = "waiting", !.waited = FALSE])
  ELSE IF Playing(s) /\ Drift(s) <= HardResync THEN s
  ELSE [ResyncFromBuffer(s, s.vt) EXCEPT !.failed = @ \/ (s.from # s.to /\ ~Covered(s, s.vt))]

----------------------------------------------------------------------------
(* feed: insertToBuffer and cleanupBuffer, then the pump                   *)
Cleanup(s) ==
  LET reference == IF s.sync = "active" THEN s.vt ELSE IF Playing(s) THEN s.at ELSE s.to
  IN  IF reference - s.from < KeepBack THEN s
      ELSE [s EXCEPT !.from = IF reference - KeepBack + 1 > @ THEN reference - KeepBack + 1 ELSE @]
InsertToBuffer(s) == [s EXCEPT !.to = @ + 1]
Feed == /\ a.to < MaxTime
        /\ a' = Pump(Cleanup(InsertToBuffer(a)))

(* The stretcher's promise                                                 *)
StretcherReady == /\ a.stretcher = "loading"
                  /\ a' = Pump([a EXCEPT !.stretcher = "ready"])
StretcherFailed ==
  /\ a.stretcher = "loading"
  /\ a' = LET s == [a EXCEPT !.stretcher = "failed", !.pend = PcmNone]
          IN  IF s.startup \in {"complete", "disabled"} THEN s ELSE FailStartupSync(s)

(* onstatechange                                                           *)
ContextInterrupted ==
  /\ a.ctx = "running"
  /\ a' = SetSyncState(ResetStartupSyncWait(DropChain([a EXCEPT !.ctx = "interrupted"])), "background")
ContextSuspended ==
  /\ a.ctx = "running"
  /\ a' = ResetStartupSyncWait(DropChain([a EXCEPT !.ctx = "suspended"]))
ContextRunning ==
  /\ a.ctx # "running" /\ (a.resuming \/ a.ctx = "interrupted")
  /\ a' = LET s == [a EXCEPT !.ctx = "running", !.resuming = FALSE, !.unlocked = TRUE]
          IN  IF s.sync = "background"
              THEN Pump(SetSyncState(s, IF s.hidden THEN "background" ELSE "recovering"))
              ELSE IF ~CanScheduleAudio(s) THEN s
              ELSE IF s.startup \in {"waiting", "slowing"} THEN TryStartInitialSync(s)
              ELSE ResyncFromBuffer(s, s.vt)

(* pause, the handler of the element's pause                               *)
OnPause(s) ==
  ResetStartupSyncWait(DropChain([s EXCEPT !.paused = TRUE, !.buffering = FALSE,
                                           !.ctx = IF @ = "running" THEN "suspended" ELSE @]))

(* notifyAutoplayBlocked: resume() is refused by the autoplay policy       *)
AutoplayBlocked ==
  /\ a.resuming /\ ~a.unlocked
  /\ a' = OnPause([a EXCEPT !.resuming = FALSE, !.unlocked = TRUE])

(* Events of the video element and the page.  The element changes, then    *)
(* its event is handled; play and pause are handled as they happen.        *)
Seeking == /\ ~a.seeking
           /\ a' = LET s == [CancelChain(a) EXCEPT !.seeking = TRUE, !.isSeeking = TRUE,
                                                   !.buffering = FALSE, !.pend = PcmNone]
                   IN  IF s.startup = "complete" THEN s
                       ELSE [RestoreStartupPlaybackRate(s) EXCEPT !.startup = "disabled"]
PcmSeeked(t) ==
  /\ a.seeking
  /\ a' = LET s == [a EXCEPT !.seeking = FALSE, !.isSeeking = FALSE, !.vt = t]
          IN  ResyncFromBuffer(IF s.sync # "recovering" THEN s
                               ELSE SetSyncState(s, IF s.hidden THEN "background" ELSE "active"), t)
Play == /\ a.paused
        /\ a' = LET s == [a EXCEPT !.paused = FALSE]
                IN  IF s.ctx # "running" THEN [s EXCEPT !.resuming = TRUE]
                    ELSE IF s.sync # "active" \/ ~CanScheduleAudio(s) THEN s
                    ELSE IF s.startup \in {"waiting", "slowing"} THEN TryStartInitialSync(s)
                    ELSE ResyncFromBuffer(s, s.vt)
Pause == ~a.paused /\ a' = OnPause(a)

EnterBuffering(s) ==
  IF s.paused \/ s.seeking \/ s.isSeeking THEN s
  ELSE ResetStartupSyncWait(DropChain([s EXCEPT !.buffering = TRUE]))
Waiting == /\ a.ready
           /\ a' = EnterBuffering([a EXCEPT !.ready = FALSE])
MaybeExitBuffering(s) ==
  LET t == [s EXCEPT !.buffering = FALSE] IN
  IF ~HasPlayableVideoData(s) \/ ~s.buffering THEN s
  ELSE IF s.sync # "active" THEN Pump(t)
  ELSE IF s.startup = "waiting" THEN TryStartInitialSync(t)
  ELSE ResyncFromBuffer(t, t.vt)
CanPlay == /\ ~a.ready
           /\ a' = MaybeExitBuffering([a EXCEPT !.ready = TRUE])

(* The video moves on; in a slowed video the clock nearly stands still.    *)
TimeUpdate ==
  /\ HasPlayableVideoData(a) /\ ~a.slow /\ a.vt < MaxTime
  /\ a' = LET s == [a EXCEPT !.vt = @ + 1]
          IN  IF s.sync = "recovering" /\ ~s.hidden THEN CompleteRecovery(s) ELSE ControlAndPump(s)

(* setInterval, ratechange                                                 *)
ControlTimer == a' = ControlAndPump(a)

(* onVisibilityChange                                                      *)
VisibilityChange ==
  a' = LET s == [a EXCEPT !.hidden = ~@]
       IN  IF s.hidden THEN SetSyncState(ResetStartupSyncWait(s), "background")
           ELSE SetSyncState(s, "recovering")

(* onRecoveryTimeout                                                       *)
RecoveryTimeout ==
  /\ a.timer
  /\ a' = [a EXCEPT !.timer = FALSE,
                    !.failed = @ \/ ~(a.paused \/ a.seeking \/ a.isSeeking \/ a.hidden)]

(* Four seconds of startup have passed.                                    *)
StartupWaited == /\ a.startup \in {"waiting", "slowing"} /\ ~a.waited
                 /\ a' = [a EXCEPT !.waited = TRUE]

(* The context plays one chunk of the chain.                               *)
AudioPlays == /\ a.ctx = "running" /\ Playing(a)
              /\ a' = [a EXCEPT !.at = @ + 1]

(* stop: another stream is loaded                                          *)
Stop == a' = SetSyncState(
                [DropChain(RestoreStartupPlaybackRate(a)) EXCEPT
                   !.from = 0, !.to = 0, !.startup = "waiting", !.waited = FALSE, !.buffering = FALSE,
                   !.isSeeking = FALSE, !.seeking = FALSE, !.vt = 0, !.ready = FALSE, !.failed = FALSE,
                   !.stretcher = IF @ = "failed" THEN "none" ELSE @],
                IF a.hidden THEN "background" ELSE "active")

PcmNext ==
  \/ Feed \/ StretcherReady \/ StretcherFailed
  \/ ContextInterrupted \/ ContextSuspended \/ ContextRunning \/ AutoplayBlocked
  \/ Seeking \/ (\E t \in 0 .. MaxTime : PcmSeeked(t)) \/ Play \/ Pause \/ Waiting \/ CanPlay
  \/ TimeUpdate \/ ControlTimer \/ VisibilityChange
  \/ RecoveryTimeout \/ StartupWaited \/ AudioPlays \/ Stop
PcmSpec == PcmInit /\ [][PcmNext]_pcmVars

----------------------------------------------------------------------------
(* The video is slowed down only while startup waits for audio to catch up  *)
(* with a playing, visible video: no event that ends the wait (a pause, a   *)
(* seek, a stall, hiding the page, losing the audio device, a failure)      *)
(* leaves the user with a video that crawls.                                *)
SlowOnlyInStartup ==
  /\ a.slow => a.startup = "slowing" /\ a.sync = "active" /\ ~a.hidden /\ CanScheduleAudio(a)
  /\ a.slow <=> a.saved

(* What is scheduled is one contiguous stretch of the buffer that the pump  *)
(* continues where it ends, and nothing is scheduled or kept pending across *)
(* a stall, a seek, a pause or a context that does not run.                 *)
OneChain ==
  /\ a.on => /\ a.at <= a.end /\ a.cursor = a.end /\ a.end <= a.to
             /\ ~a.buffering /\ ~a.isSeeking /\ ~a.paused /\ a.ctx = "running"
  /\ (a.buffering \/ a.isSeeking) => a.pend = PcmNone

(* The chain is rebuilt against the video clock only while that clock can   *)
(* be trusted: in the background and while recovering, audio that plays     *)
(* goes on without a jump.                                                  *)
FreeRunsInBackground ==
  [][(Playing(a) /\ a'.on /\ a.sync = "background" /\ a'.sync = "background" /\ a.seeking = a'.seeking)
     => a'.at \in {a.at, a.at + 1}]_pcmVars

(* Synchronising the audio leaves nothing behind: the video is slowed only  *)
(* while the start is awaited, and one chain of sources plays.              *)
SyncLeavesNothing == SlowOnlyInStartup /\ OneChain
=============================================================================
