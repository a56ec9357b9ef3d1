----------------------------- MODULE PlayerProofs ----------------------------
(***************************************************************************)
(* Theorems about four stages of the web player: HlsSource, TsDemux,       *)
(* PcmAudio and Mp4Remux.                                                  *)
(*                                                                         *)
(* Each invariant is stated of a state s (a record) and not of the         *)
(* variable, so that a lemma says what one function of the source does to  *)
(* a player that is sound, and the cases of the next-state relation put    *)
(* these lemmas together.                                                  *)
(***************************************************************************)
EXTENDS HlsSource, TsDemux, PcmAudio, Mp4Remux, FiniteSetTheorems, NaturalsInduction, WellFoundedInduction,
  SequenceTheorems, TLAPS

----------------------------------------------------------------------------
(* PcmAudio                                                                *)

\* The fields of the player, and the numbers in them.
AudioFields == {"sync", "startup", "waited", "timer", "buffering", "isSeeking", "slow", "saved", "from", "to",
           "pend", "cursor", "on", "at", "end", "stretcher", "ctx", "resuming", "unlocked", "hidden",
           "paused", "seeking", "ready", "vt", "failed"}
AudioTyped(s) ==
  /\ DOMAIN s = AudioFields
  /\ s.from \in Nat /\ s.to \in Nat /\ s.at \in Nat /\ s.end \in Nat /\ s.vt \in Nat
  /\ s.pend \in Nat \cup {PcmNone} /\ s.cursor \in Nat \cup {PcmNone}
  /\ s.saved \in BOOLEAN

\* The video is slow exactly while startup slows it down, and then the clock of
\* the video runs.
SlowState(s) ==
  /\ s.slow = s.saved
  /\ s.saved <=> s.startup = "slowing"
  /\ s.slow => s.sync = "active" /\ ~s.hidden /\ CanScheduleAudio(s)

\* What keeps audio from playing.
EventState(s) ==
  /\ s.isSeeking = s.seeking
  /\ s.buffering => ~s.ready /\ ~s.paused /\ ~s.seeking

ChainState(s) ==
  /\ s.on => /\ s.at <= s.end /\ s.cursor = s.end /\ s.end <= s.to
             /\ ~s.buffering /\ ~s.isSeeking /\ ~s.paused /\ s.ctx = "running"
  /\ (s.buffering \/ s.isSeeking) => s.pend = PcmNone

AudioSound(s) == AudioTyped(s) /\ SlowState(s) /\ EventState(s) /\ ChainState(s)

\* Stopping the sources leaves the player sound (cancelChain and what is
\* reset with it).
LEMMA DropChainSound ==
  ASSUME NEW s, AudioSound(s)
  PROVE  AudioSound(DropChain(s)) 
BY DEF AudioSound, AudioTyped, AudioFields, SlowState, EventState, ChainState, DropChain, CancelChain, PcmNone, CanScheduleAudio, HasPlayableVideoData

\* Outside the slowed start there is no rate to restore.
LEMMA RestoreSound ==
  ASSUME NEW s, AudioSound(s), s.startup # "slowing"
  PROVE  RestoreStartupPlaybackRate(s) = s
BY DEF AudioSound, SlowState, RestoreStartupPlaybackRate

\* Resetting the wait for the start gives the video its speed back, also when
\* the event before it broke the condition under which it may be slow.
LEMMA ResetSound ==
  ASSUME NEW s, AudioTyped(s), s.saved <=> s.startup = "slowing", s.slow = s.saved, EventState(s), ChainState(s)
  PROVE  AudioSound(ResetStartupSyncWait(s)) /\ ~ResetStartupSyncWait(s).saved
BY DEF AudioSound, AudioTyped, AudioFields, SlowState, EventState, ChainState, ResetStartupSyncWait, RestoreStartupPlaybackRate, CanScheduleAudio, HasPlayableVideoData

\* Output that is scheduled continues the chain, inside the buffer.
LEMMA ScheduleOutputSound ==
  ASSUME NEW s, AudioSound(s), CanScheduleAudio(s), s.ctx = "running", NEW first \in Nat, NEW last \in Nat,
         first < last, last <= s.to, s.on => first = s.end
  PROVE  AudioSound(ScheduleOutput(s, first, last))
<1> DEFINE n == IF s.on /\ s.at < s.end THEN s.at ELSE first
<1> DEFINE t == [s EXCEPT !.on = TRUE, !.at = n, !.end = last, !.cursor = last, !.pend = PcmNone]
<1>1. n \in Nat /\ n <= last BY DEF AudioSound, AudioTyped, ChainState
<1>2. AudioSound(t) /\ t.startup = s.startup /\ t.saved = s.saved
  <2> HIDE DEF n
  <2> QED
    BY <1>1 DEF AudioSound, AudioTyped, AudioFields, SlowState, EventState, ChainState, CanScheduleAudio, HasPlayableVideoData
<1>3. CASE s.startup = "anchoring"
  <2>1. ~s.saved BY <1>3 DEF AudioSound, SlowState
  <2>2. ScheduleOutput(s, first, last) = [t EXCEPT !.startup = "complete"]
    <3> DEFINE u == [t EXCEPT !.startup = "complete"]
    <3>1. ~u.saved
      <4> HIDE DEF t
      <4> QED BY <1>2, <2>1 DEF AudioSound, AudioTyped, AudioFields
    <3>2. ScheduleOutput(s, first, last) = RestoreStartupPlaybackRate(u)
      BY <1>3 DEF ScheduleOutput
    <3> QED BY <3>1, <3>2 DEF RestoreStartupPlaybackRate
  <2> HIDE DEF t
  <2> QED
    BY <1>2, <1>3, <2>1, <2>2 DEF AudioSound, AudioTyped, AudioFields, SlowState, EventState, ChainState, CanScheduleAudio,
       HasPlayableVideoData
<1>4. CASE s.startup # "anchoring"
  <2>1. ScheduleOutput(s, first, last) = t BY <1>4 DEF ScheduleOutput
  <2> QED BY <1>2, <2>1
<1> QED BY <1>3, <1>4

\* A refill starts at a time of the stream or not at all.
LEMMA RefillStartType ==
  ASSUME NEW s, AudioTyped(s), NEW t \in Nat
  PROVE  RefillStart(s, t) \in Nat \cup {PcmNone}
BY DEF AudioTyped, RefillStart

\* The pump refills, asks for the context or the stretcher, or continues the
\* chain; each of these keeps the player sound.
LEMMA PumpChainSound ==
  ASSUME NEW s, AudioSound(s), CanScheduleAudio(s)
  PROVE  AudioSound(PumpChain(s))
<1> USE PcmAssumption
<1> DEFINE pend == IF s.pend # PcmNone THEN s.pend
              ELSE IF s.sync = "recovering" /\ s.cursor = PcmNone THEN PcmNone
              ELSE RefillStart(s, IF s.cursor = PcmNone THEN s.vt ELSE s.cursor)
<1> DEFINE first == IF s.cursor = PcmNone THEN pend ELSE s.cursor
<1> DEFINE limit == (IF s.on /\ s.at < s.end THEN s.at ELSE first) + Ahead
<1> DEFINE last == IF s.to < limit THEN s.to ELSE limit
<1>0. AudioTyped(s) BY DEF AudioSound
<1>1. pend \in Nat \cup {PcmNone}
  <2>1. (IF s.cursor = PcmNone THEN s.vt ELSE s.cursor) \in Nat
    BY <1>0 DEF AudioTyped
  <2>2. RefillStart(s, IF s.cursor = PcmNone THEN s.vt ELSE s.cursor) \in Nat \cup {PcmNone}
    BY <1>0, <2>1, RefillStartType
  <2> QED BY <1>0, <2>2 DEF AudioTyped
<1> HIDE DEF pend
<1>2. CASE pend = PcmNone \/ s.startup = "failed" BY <1>2 DEF PumpChain, pend
<1>3. ASSUME pend # PcmNone
      PROVE  AudioSound([s EXCEPT !.pend = pend]) /\ AudioSound([s EXCEPT !.resuming = TRUE])
             /\ \A z : AudioSound([s EXCEPT !.pend = pend, !.stretcher = z])
  BY <1>1, <1>3 DEF AudioSound, AudioTyped, AudioFields, SlowState, EventState, ChainState, CanScheduleAudio, HasPlayableVideoData
<1>4. ASSUME pend # PcmNone, s.ctx = "running", first < last
      PROVE  AudioSound(ScheduleOutput(s, first, last))
  <2>1. first \in Nat BY <1>0, <1>1, <1>4 DEF AudioTyped
  <2>2. limit \in Nat BY <1>0, <2>1 DEF AudioTyped, PcmAssumption
  <2>3. last \in Nat /\ last <= s.to
    <3> HIDE DEF limit
    <3> QED BY <1>0, <2>2 DEF AudioTyped
  <2>4. s.on => first = s.end
    BY <1>0 DEF AudioSound, ChainState, AudioTyped, PcmNone
  <2> HIDE DEF first, last
  <2> QED BY <1>4, <2>1, <2>3, <2>4, ScheduleOutputSound
<1>5. CASE pend # PcmNone /\ s.startup # "failed"
  <2>1. \/ PumpChain(s) = [s EXCEPT !.resuming = TRUE]
        \/ PumpChain(s) = [s EXCEPT !.pend = pend]
        \/ \E z : PumpChain(s) = [s EXCEPT !.pend = pend, !.stretcher = z]
        \/ s.ctx = "running" /\ ~(last <= first) /\ PumpChain(s) = ScheduleOutput(s, first, last)
    BY <1>5 DEF PumpChain, pend
  <2>2. first \in Nat /\ last \in Int
    BY <1>0, <1>1, <1>5 DEF AudioTyped, PcmAssumption
  <2>3. ~(last <= first) => first < last
    <3> HIDE DEF first, last
    <3> QED BY <2>2
  <2> HIDE DEF first, last
  <2> QED BY <1>3, <1>4, <1>5, <2>1, <2>3
<1> QED BY <1>2, <1>5

\* What the rest of the player reads of a state; only the chain differs.
SameClock(r, s) ==
  /\ r.sync = s.sync /\ r.hidden = s.hidden /\ r.buffering = s.buffering /\ r.paused = s.paused
  /\ r.seeking = s.seeking /\ r.isSeeking = s.isSeeking /\ r.ready = s.ready

\* Stopping the sources alters nothing else that the player reads.
LEMMA DropChainKeeps ==
  ASSUME NEW s, AudioTyped(s)
  PROVE  LET r == DropChain(s)
         IN  AudioTyped(r) /\ SameClock(r, s) /\ ~r.on /\ r.pend = PcmNone /\ r.startup = s.startup /\ r.saved = s.saved
             /\ r.slow = s.slow
BY DEF AudioTyped, AudioFields, SameClock, DropChain, CancelChain, PcmNone

\* A resync outside stalls and seeks keeps the player sound.
LEMMA ResyncSound ==
  ASSUME NEW s, AudioSound(s), NEW t \in Nat, ~s.buffering, ~s.isSeeking
  PROVE  /\ AudioSound(ResyncFromBuffer(s, t))
         /\ ~Covered(s, t) => ResyncFromBuffer(s, t).startup = s.startup
<1> DEFINE r == DropChain(s)
<1> DEFINE p == [r EXCEPT !.pend = RefillStart(s, t)]
<1>1. AudioSound(r) BY DropChainSound
<1>2. AudioTyped(s) BY DEF AudioSound
<1>3. AudioTyped(r) /\ SameClock(r, s) /\ ~r.on /\ r.startup = s.startup
  BY <1>2, DropChainKeeps
<1>4. RefillStart(s, t) \in Nat \cup {PcmNone} BY <1>2, RefillStartType
<1>5. AudioSound(p) /\ SameClock(p, s)
  <2> HIDE DEF r
  <2> QED
    BY <1>1, <1>3, <1>4 DEF AudioSound, SameClock, AudioTyped, AudioFields, SlowState, EventState, ChainState, CanScheduleAudio,
       HasPlayableVideoData
<1>6. CASE ~Covered(s, t) BY <1>1, <1>3, <1>6 DEF ResyncFromBuffer
<1>7. CASE Covered(s, t) /\ ~CanScheduleAudio(s) BY <1>5, <1>7 DEF ResyncFromBuffer
<1>8. CASE Covered(s, t) /\ CanScheduleAudio(s)
  <2>1. CanScheduleAudio(p)
    <3> HIDE DEF p
    <3> QED BY <1>5, <1>8 DEF SameClock, CanScheduleAudio, HasPlayableVideoData
  <2>2. ResyncFromBuffer(s, t) = PumpChain(p) BY <1>8 DEF ResyncFromBuffer
  <2> HIDE DEF p
  <2> QED BY <1>5, <1>8, <2>1, <2>2, PumpChainSound
<1> QED BY <1>6, <1>7, <1>8

\* Ending the slowed start in another state keeps the player sound.
LEMMA RestoreKeeps ==
  ASSUME NEW s, AudioSound(s), NEW z \in {"waiting", "anchoring", "failed", "disabled"}
  PROVE  LET r == [RestoreStartupPlaybackRate(s) EXCEPT !.startup = z]
         IN  AudioSound(r) /\ SameClock(r, s) /\ r.startup = z /\ r.vt = s.vt
BY ZenonT(60) DEF AudioSound, SameClock, AudioTyped, AudioFields, SlowState, EventState, ChainState, CanScheduleAudio,
       HasPlayableVideoData, RestoreStartupPlaybackRate

\* A start that fails gives the video its speed back.
LEMMA FailSound ==
  ASSUME NEW s, AudioSound(s)
  PROVE  AudioSound(FailStartupSync(s))
<1>1. CASE s.startup = "failed" BY <1>1 DEF FailStartupSync
<1>2. CASE s.startup # "failed"
  <2> DEFINE r == [RestoreStartupPlaybackRate(s) EXCEPT !.startup = "failed"]
  <2>1. AudioSound(r) BY RestoreKeeps
  <2>2. FailStartupSync(s) = [r EXCEPT !.failed = TRUE] BY <1>2 DEF FailStartupSync
  <2> HIDE DEF r
  <2> QED
    BY <2>1, <2>2 DEF AudioSound, AudioTyped, AudioFields, SlowState, EventState, ChainState, CanScheduleAudio, HasPlayableVideoData
<1> QED BY <1>1, <1>2

\* The attempt to start: it waits, slows the video down, anchors or fails.
LEMMA TryStartSound ==
  ASSUME NEW s, AudioSound(s), s.startup \in {"waiting", "slowing"}
  PROVE  AudioSound(TryStartInitialSync(s))
<1> DEFINE later == s.from > s.vt
<1> DEFINE target == IF later THEN s.from ELSE s.vt
<1> DEFINE lead == IF later THEN s.to - s.from >= Lead ELSE s.vt + Lead <= s.to
<1> DEFINE waiting == IF later THEN (IF s.startup = "slowing"
                                THEN [RestoreStartupPlaybackRate(s) EXCEPT !.startup = "waiting"] ELSE s)
                 ELSE IF s.startup = "waiting" THEN BeginStartupRateControl(s)
                 ELSE [s EXCEPT !.slow = TRUE]
<1> DEFINE n == [RestoreStartupPlaybackRate(s) EXCEPT !.startup = "anchoring"]
<1> DEFINE r == ResyncFromBuffer(n, target)
<1>1. CASE s.sync # "active" \/ s.hidden \/ ~CanScheduleAudio(s) \/ s.from = s.to
  BY <1>1 DEF TryStartInitialSync
<1>2. CASE ~(s.sync # "active" \/ s.hidden \/ ~CanScheduleAudio(s) \/ s.from = s.to)
  <2>1. AudioSound(waiting)
    <3>1. CASE later /\ s.startup = "slowing" BY <3>1, RestoreKeeps
    <3>2. CASE later /\ s.startup # "slowing" BY <3>2
    <3>3. CASE ~later /\ s.startup = "waiting"
      <4>1. ~s.saved BY <3>3 DEF AudioSound, SlowState, AudioTyped
      <4>2. waiting = [s EXCEPT !.saved = TRUE, !.startup = "slowing", !.slow = TRUE]
        BY <3>3, <4>1 DEF BeginStartupRateControl
      <4> HIDE DEF waiting
      <4> QED
        BY <1>2, <4>2 DEF AudioSound, AudioTyped, AudioFields, SlowState, EventState, ChainState, CanScheduleAudio, HasPlayableVideoData
    <3>4. CASE ~later /\ s.startup # "waiting"
      <4>1. waiting = [s EXCEPT !.slow = TRUE] /\ s.startup = "slowing"
        BY <3>4
      <4> HIDE DEF waiting
      <4> QED
        BY <1>2, <4>1 DEF AudioSound, AudioTyped, AudioFields, SlowState, EventState, ChainState, CanScheduleAudio, HasPlayableVideoData
    <3> QED BY <3>1, <3>2, <3>3, <3>4
  <2>2. AudioSound(n) /\ SameClock(n, s) /\ n.startup = "anchoring"
    BY RestoreKeeps
  <2>3. ~n.buffering /\ ~n.isSeeking
    <3> HIDE DEF n
    <3> QED BY <1>2, <2>2 DEF SameClock, CanScheduleAudio, HasPlayableVideoData
  <2>4. target \in Nat BY DEF AudioSound, AudioTyped
  <2>5. AudioSound(r) /\ (~Covered(n, target) => r.startup = "anchoring")
    <3> HIDE DEF n, target
    <3> QED BY <2>2, <2>3, <2>4, ResyncSound
  <2>6. Covered(n, target) <=> Covered(s, target)
    <3>1. n.from = s.from /\ n.to = s.to
      BY DEF AudioSound, AudioTyped, AudioFields, RestoreStartupPlaybackRate
    <3> HIDE DEF n, target
    <3> QED BY <3>1 DEF Covered, RefillStart
  <2>7. CASE lead /\ Covered(s, target)
    <3>1. TryStartInitialSync(s) = r BY <1>2, <2>7 DEF TryStartInitialSync
    <3> HIDE DEF r
    <3> QED BY <2>5, <3>1
  <2>8. CASE lead /\ ~Covered(s, target)
    <3>1. TryStartInitialSync(s) = [r EXCEPT !.startup = "waiting"]
      BY <1>2, <2>8 DEF TryStartInitialSync
    <3>2. AudioSound(r) /\ r.startup = "anchoring" BY <2>5, <2>6, <2>8
    <3> HIDE DEF r
    <3> QED
      BY <3>1, <3>2 DEF AudioSound, AudioTyped, AudioFields, SlowState, EventState, ChainState, CanScheduleAudio, HasPlayableVideoData
  <2>9. CASE ~lead
    <3>1. TryStartInitialSync(s) = (IF s.waited THEN FailStartupSync(waiting) ELSE waiting)
      BY <1>2, <2>9 DEF TryStartInitialSync
    <3> HIDE DEF waiting
    <3> QED BY <2>1, <3>1, FailSound
  <2> QED BY <2>7, <2>8, <2>9
<1> QED BY <1>1, <1>2

\* The pump, before and after the start.
LEMMA PumpSound ==
  ASSUME NEW s, AudioSound(s)
  PROVE  AudioSound(Pump(s))
BY TryStartSound, PumpChainSound DEF Pump

\* The control tick corrects a drift, restarts a dead chain, or pumps.
LEMMA ControlSound ==
  ASSUME NEW s, AudioSound(s)
  PROVE  AudioSound(ControlAndPump(s))
<1> DEFINE r == ResyncFromBuffer(s, s.vt)
<1>1. s.vt \in Nat BY DEF AudioSound, AudioTyped
<1>2. ControlApplies(s) => AudioSound(r)
  <2> SUFFICES ASSUME ControlApplies(s) PROVE AudioSound(r)
    OBVIOUS
  <2>1. ~s.buffering /\ ~s.isSeeking
    BY DEF ControlApplies, CanScheduleAudio, HasPlayableVideoData
  <2> QED BY <1>1, <2>1, ResyncSound
<1>3. AudioSound(Pump(s)) /\ (AudioSound(r) => AudioSound(Pump(r)))
  <2> HIDE DEF r
  <2> QED BY PumpSound
<1>4. ControlAndPump(s) = r \/ ControlAndPump(s) = Pump(r) \/ ControlAndPump(s) = Pump(s)
  BY DEF ControlAndPump
<1>5. ControlApplies(s) \/ ControlAndPump(s) = Pump(s) BY DEF ControlAndPump
<1> HIDE DEF r
<1> QED BY <1>2, <1>3, <1>4, <1>5

\* The synchronisation state changes while the video is not slowed, or to
\* "active".
LEMMA SetSyncSound ==
  ASSUME NEW s, AudioSound(s), NEW z, ~s.saved \/ z = "active"
  PROVE  LET r == SetSyncState(s, z)
         IN  /\ AudioSound(r) /\ r.startup = s.startup /\ r.sync = z /\ r.vt = s.vt /\ r.on = s.on
             /\ r.hidden = s.hidden /\ r.buffering = s.buffering /\ r.paused = s.paused
             /\ r.seeking = s.seeking /\ r.isSeeking = s.isSeeking /\ r.ready = s.ready
BY DEF SetSyncState, AudioSound, AudioTyped, AudioFields, SlowState, EventState, ChainState, CanScheduleAudio,
       HasPlayableVideoData

\* The first timeupdate after the page is visible again.
LEMMA CompleteRecoverySound ==
  ASSUME NEW s0, AudioSound(s0), s0.sync = "recovering", HasPlayableVideoData(s0)
  PROVE  AudioSound(CompleteRecovery(s0))
<1> DEFINE s == SetSyncState(s0, "active")
<1> DEFINE r == ResyncFromBuffer(s, s.vt)
<1> DEFINE n == [s EXCEPT !.startup = "waiting", !.waited = FALSE]
<1> DEFINE lost == s.from # s.to /\ ~Covered(s, s.vt)
<1>1. ~s0.saved BY DEF AudioSound, SlowState, AudioTyped
<1>2. AudioSound(s) /\ s.startup = s0.startup /\ ~s.buffering /\ ~s.isSeeking
  <2>1. ~s0.buffering /\ ~s0.isSeeking
    BY DEF AudioSound, EventState, HasPlayableVideoData
  <2> QED BY <1>1, <2>1, SetSyncSound
<1>3. ~s.saved
  BY <1>1 DEF SetSyncState, AudioSound, AudioTyped, AudioFields
<1> HIDE DEF s
<1>4. CASE s.startup = "failed" BY <1>2, <1>4 DEF CompleteRecovery, s
<1>5. CASE s.startup \notin {"complete", "disabled", "failed"}
  <2>1. AudioSound(n) /\ n.startup = "waiting"
    BY <1>2, <1>3 DEF AudioSound, AudioTyped, AudioFields, SlowState, EventState, ChainState, CanScheduleAudio,
       HasPlayableVideoData
  <2>2. CompleteRecovery(s0) = TryStartInitialSync(n) BY <1>5 DEF CompleteRecovery, s
  <2> HIDE DEF n
  <2> QED BY <2>1, <2>2, TryStartSound
<1>6. CASE s.startup \in {"complete", "disabled"}
  <2>1. s.vt \in Nat BY <1>2 DEF AudioSound, AudioTyped
  <2>2. AudioSound(r) BY <1>2, <2>1, ResyncSound
  <2>3. CompleteRecovery(s0) = s \/ CompleteRecovery(s0) = [r EXCEPT !.failed = @ \/ lost]
    BY <1>6 DEF CompleteRecovery, s
  <2> HIDE DEF r, lost
  <2>4. AudioSound([r EXCEPT !.failed = @ \/ lost])
    BY <2>2 DEF AudioSound, AudioTyped, AudioFields, SlowState, EventState, ChainState, CanScheduleAudio,
       HasPlayableVideoData
  <2> QED BY <1>2, <2>3, <2>4
<1> QED BY <1>4, <1>5, <1>6

\* A chunk goes into the buffer and the oldest ones go out.
LEMMA FeedSound ==
  ASSUME NEW s, AudioSound(s)
  PROVE  AudioSound(Cleanup(InsertToBuffer(s)))
<1> USE PcmAssumption
<1> DEFINE i == InsertToBuffer(s)
<1>1. AudioSound(i)
  BY DEF InsertToBuffer, AudioSound, AudioTyped, AudioFields, SlowState, EventState, ChainState, CanScheduleAudio,
       HasPlayableVideoData
<1> HIDE DEF i
<1> DEFINE reference == IF i.sync = "active" THEN i.vt ELSE IF Playing(i) THEN i.at ELSE i.to
<1>2. reference \in Nat /\ i.from \in Nat /\ KeepBack \in Nat
  BY <1>1 DEF AudioSound, AudioTyped, PcmAssumption
<1>3. Cleanup(i) = (IF reference - i.from < KeepBack THEN i
      ELSE [i EXCEPT !.from = IF reference - KeepBack + 1 > @ THEN reference - KeepBack + 1 ELSE @])
  BY DEF Cleanup
<1> HIDE DEF reference
<1> DEFINE from == IF reference - KeepBack + 1 > i.from THEN reference - KeepBack + 1 ELSE i.from
<1>4. from \in Nat BY <1>2
<1>5. Cleanup(i) = i \/ Cleanup(i) = [i EXCEPT !.from = from]
  BY <1>3
<1> HIDE DEF from
<1>6. AudioSound([i EXCEPT !.from = from])
  BY <1>1, <1>4 DEF AudioSound, AudioTyped, AudioFields, SlowState, EventState, ChainState, CanScheduleAudio,
       HasPlayableVideoData
<1> QED BY <1>1, <1>5, <1>6 DEF i

\* The handler of a pause.
LEMMA PauseSound ==
  ASSUME NEW s, AudioSound(s)
  PROVE  AudioSound(OnPause(s))
<1> DEFINE p == [s EXCEPT !.paused = TRUE, !.buffering = FALSE, !.ctx = IF @ = "running" THEN "suspended" ELSE @]
<1> DEFINE d == DropChain(p)
<1>1. AudioTyped(d) /\ (d.saved <=> d.startup = "slowing") /\ d.slow = d.saved /\ EventState(d) /\ ChainState(d)
  BY DEF DropChain, CancelChain, PcmNone, AudioSound, AudioTyped, AudioFields, SlowState, EventState, ChainState, CanScheduleAudio,
       HasPlayableVideoData
<1>2. OnPause(s) = ResetStartupSyncWait(d) BY DEF OnPause
<1> HIDE DEF d
<1> QED BY <1>1, <1>2, ResetSound

\* The handler of a stall.
LEMMA BufferingSound ==
  ASSUME NEW s, AudioSound(s), ~s.buffering
  PROVE  AudioSound(EnterBuffering([s EXCEPT !.ready = FALSE]))
<1> DEFINE n == [s EXCEPT !.ready = FALSE]
<1> DEFINE d == DropChain([n EXCEPT !.buffering = TRUE])
<1>1. CASE n.paused \/ n.seeking \/ n.isSeeking
  <2>1. ~s.slow
    BY <1>1 DEF AudioSound, AudioTyped, AudioFields, SlowState, EventState, ChainState, CanScheduleAudio,
       HasPlayableVideoData
  <2>2. AudioSound(n)
    BY <2>1 DEF AudioSound, AudioTyped, AudioFields, SlowState, EventState, ChainState, CanScheduleAudio,
       HasPlayableVideoData
  <2> QED BY <1>1, <2>2 DEF EnterBuffering
<1>2. CASE ~(n.paused \/ n.seeking \/ n.isSeeking)
  <2>1. AudioTyped(d) /\ (d.saved <=> d.startup = "slowing") /\ d.slow = d.saved /\ EventState(d) /\ ChainState(d)
    BY <1>2 DEF DropChain, CancelChain, PcmNone, AudioSound, AudioTyped, AudioFields, SlowState, EventState, ChainState, CanScheduleAudio,
       HasPlayableVideoData
  <2>2. EnterBuffering(n) = ResetStartupSyncWait(d) BY <1>2 DEF EnterBuffering
  <2> HIDE DEF d
  <2> QED BY <2>1, <2>2, ResetSound
<1> QED BY <1>1, <1>2

\* The handler of the end of a stall.
LEMMA CanPlaySound ==
  ASSUME NEW s, AudioSound(s), ~s.ready
  PROVE  AudioSound(MaybeExitBuffering([s EXCEPT !.ready = TRUE]))
<1> DEFINE n == [s EXCEPT !.ready = TRUE]
<1> DEFINE t == [n EXCEPT !.buffering = FALSE]
<1>1. ~s.slow
  BY DEF AudioSound, AudioTyped, AudioFields, SlowState, EventState, ChainState, CanScheduleAudio,
       HasPlayableVideoData
<1>2. AudioSound(t) /\ t.sync = n.sync /\ t.startup = n.startup /\ ~t.buffering
  BY <1>1 DEF AudioSound, AudioTyped, AudioFields, SlowState, EventState, ChainState, CanScheduleAudio,
       HasPlayableVideoData
<1>3. CASE ~HasPlayableVideoData(n) \/ ~n.buffering
  <2>1. ~n.buffering
    BY <1>3 DEF AudioSound, AudioTyped, AudioFields, SlowState, EventState, ChainState, CanScheduleAudio,
       HasPlayableVideoData
  <2>2. AudioSound(n)
    BY <1>1, <2>1 DEF AudioSound, AudioTyped, AudioFields, SlowState, EventState, ChainState, CanScheduleAudio,
       HasPlayableVideoData
  <2> QED BY <1>3, <2>2 DEF MaybeExitBuffering
<1>4. CASE HasPlayableVideoData(n) /\ n.buffering
  <2>1. ~t.isSeeking /\ t.vt \in Nat
    BY <1>2, <1>4 DEF AudioSound, AudioTyped, AudioFields, SlowState, EventState, ChainState, CanScheduleAudio,
       HasPlayableVideoData
  <2>2. \/ MaybeExitBuffering(n) = Pump(t)
        \/ t.startup = "waiting" /\ MaybeExitBuffering(n) = TryStartInitialSync(t)
        \/ MaybeExitBuffering(n) = ResyncFromBuffer(t, t.vt)
    BY <1>2, <1>4 DEF MaybeExitBuffering
  <2> HIDE DEF t
  <2>3. AudioSound(Pump(t)) /\ AudioSound(ResyncFromBuffer(t, t.vt))
    BY <1>2, <2>1, PumpSound, ResyncSound
  <2>4. t.startup = "waiting" => AudioSound(TryStartInitialSync(t))
    BY <1>2, TryStartSound
  <2> QED BY <2>2, <2>3, <2>4
<1> QED BY <1>3, <1>4

\* What stop() leaves behind.
LEMMA FreshSound ==
  ASSUME NEW d, AudioTyped(d), ~d.saved, d.slow = FALSE, ~d.on, d.pend = PcmNone
  PROVE  LET s == [d EXCEPT
                   !.from = 0, !.to = 0, !.startup = "waiting", !.waited = FALSE, !.buffering = FALSE,
                   !.isSeeking = FALSE, !.seeking = FALSE, !.vt = 0, !.ready = FALSE, !.failed = FALSE,
                   !.stretcher = IF @ = "failed" THEN "none" ELSE @]
         IN  AudioSound(s) /\ ~s.saved
<1> DEFINE y == IF d.stretcher = "failed" THEN "none" ELSE d.stretcher
<1> DEFINE e == [d EXCEPT !.from = 0, !.to = 0, !.startup = "waiting", !.waited = FALSE, !.buffering = FALSE,
                          !.isSeeking = FALSE, !.seeking = FALSE]
<1> DEFINE s == [e EXCEPT !.vt = 0, !.ready = FALSE, !.failed = FALSE, !.stretcher = y]
<1>1. s = [d EXCEPT
             !.from = 0, !.to = 0, !.startup = "waiting", !.waited = FALSE, !.buffering = FALSE,
             !.isSeeking = FALSE, !.seeking = FALSE, !.vt = 0, !.ready = FALSE, !.failed = FALSE,
             !.stretcher = IF @ = "failed" THEN "none" ELSE @]
  BY DEF AudioTyped, AudioFields
<1>2. AudioTyped(e) /\ ~e.saved /\ e.slow = FALSE /\ ~e.on /\ e.pend = PcmNone /\ e.seeking = FALSE
      /\ e.isSeeking = FALSE /\ ~e.buffering /\ e.startup = "waiting"
  BY DEF AudioTyped, AudioFields
<1>3. AudioSound(s) /\ ~s.saved
  <2> HIDE DEF e, y
  <2> QED BY <1>2 DEF AudioSound, AudioTyped, AudioFields, SlowState, EventState, ChainState
<1> HIDE DEF s
<1> QED BY <1>1, <1>3

\* Every step of the player keeps the invariant; one case for each action.
LEMMA AudioStep ==
  ASSUME AudioSound(a), PcmNext
  PROVE  AudioSound(a')
<1> USE PcmAssumption
<1>0. PcmNone \notin Nat BY DEF PcmNone
<1>1. CASE Feed BY <1>1, FeedSound, PumpSound DEF Feed
<1>2. CASE StretcherReady
  <2>1. AudioSound([a EXCEPT !.stretcher = "ready"])
    BY DEF AudioSound, AudioTyped, AudioFields, SlowState, EventState, ChainState, CanScheduleAudio,
       HasPlayableVideoData
  <2> QED BY <1>2, <2>1, PumpSound DEF StretcherReady
<1>3. CASE StretcherFailed
  <2> DEFINE s == [a EXCEPT !.stretcher = "failed", !.pend = PcmNone]
  <2>1. AudioSound(s)
    BY DEF AudioSound, AudioTyped, AudioFields, SlowState, EventState, ChainState, CanScheduleAudio,
       HasPlayableVideoData
  <2>2. a' = s \/ a' = FailStartupSync(s) BY <1>3 DEF StretcherFailed
  <2> HIDE DEF s
  <2> QED BY <2>1, <2>2, FailSound
<1>4. CASE ContextInterrupted
  <2> DEFINE d == DropChain([a EXCEPT !.ctx = "interrupted"])
  <2> DEFINE r == ResetStartupSyncWait(d)
  <2>1. AudioTyped(d) /\ (d.saved <=> d.startup = "slowing") /\ d.slow = d.saved /\ EventState(d) /\ ChainState(d)
    BY DEF DropChain, CancelChain, PcmNone, AudioSound, AudioTyped, AudioFields, SlowState, EventState, ChainState, CanScheduleAudio,
       HasPlayableVideoData
  <2>2. a' = SetSyncState(r, "background") BY <1>4 DEF ContextInterrupted
  <2>3. AudioSound(r) /\ ~r.saved
    <3> HIDE DEF d
    <3> QED BY <2>1, ResetSound
  <2> HIDE DEF r
  <2> QED BY <2>2, <2>3, SetSyncSound
<1>5. CASE ContextSuspended
  <2> DEFINE d == DropChain([a EXCEPT !.ctx = "suspended"])
  <2>1. AudioTyped(d) /\ (d.saved <=> d.startup = "slowing") /\ d.slow = d.saved /\ EventState(d) /\ ChainState(d)
    BY DEF DropChain, CancelChain, PcmNone, AudioSound, AudioTyped, AudioFields, SlowState, EventState, ChainState, CanScheduleAudio,
       HasPlayableVideoData
  <2>2. a' = ResetStartupSyncWait(d) BY <1>5 DEF ContextSuspended
  <2> HIDE DEF d
  <2> QED BY <2>1, <2>2, ResetSound
<1>6. CASE ContextRunning
  <2> DEFINE s == [a EXCEPT !.ctx = "running", !.resuming = FALSE, !.unlocked = TRUE]
  <2> DEFINE z == IF s.hidden THEN "background" ELSE "recovering"
  <2>1. AudioSound(s)
    BY DEF AudioSound, AudioTyped, AudioFields, SlowState, EventState, ChainState, CanScheduleAudio,
       HasPlayableVideoData
  <2>2. \/ a' = s
        \/ s.sync = "background" /\ a' = Pump(SetSyncState(s, z))
        \/ s.startup \in {"waiting", "slowing"} /\ a' = TryStartInitialSync(s)
        \/ CanScheduleAudio(s) /\ a' = ResyncFromBuffer(s, s.vt)
    BY <1>6 DEF ContextRunning
  <2> HIDE DEF s, z
  <2>3. s.vt \in Nat /\ (s.sync = "background" => ~s.saved)
    BY <2>1 DEF AudioSound, AudioTyped, SlowState
  <2>4. s.sync = "background" => AudioSound(SetSyncState(s, z))
    BY <2>1, <2>3, SetSyncSound
  <2>5. CanScheduleAudio(s) => ~s.buffering /\ ~s.isSeeking
    BY DEF CanScheduleAudio, HasPlayableVideoData
  <2> QED BY <2>1, <2>2, <2>3, <2>4, <2>5, PumpSound, TryStartSound, ResyncSound
<1>7. CASE AutoplayBlocked
  <2>1. AudioSound([a EXCEPT !.resuming = FALSE, !.unlocked = TRUE])
    BY DEF AudioSound, AudioTyped, AudioFields, SlowState, EventState, ChainState, CanScheduleAudio,
       HasPlayableVideoData
  <2> QED BY <1>7, <2>1, PauseSound DEF AutoplayBlocked
<1>8. CASE Seeking
  <2> DEFINE s == [CancelChain(a) EXCEPT !.seeking = TRUE, !.isSeeking = TRUE, !.buffering = FALSE,
                                         !.pend = PcmNone]
  <2>1. AudioTyped(s) /\ EventState(s) /\ ChainState(s) /\ s.startup = a.startup /\ s.saved = a.saved /\ s.slow = a.slow
    BY DEF CancelChain, PcmNone, AudioSound, AudioTyped, AudioFields, SlowState, EventState, ChainState, CanScheduleAudio,
       HasPlayableVideoData
  <2>2. a' = IF s.startup = "complete" THEN s ELSE [RestoreStartupPlaybackRate(s) EXCEPT !.startup = "disabled"]
    BY <1>8 DEF Seeking
  <2> HIDE DEF s
  <2>3. CASE s.startup = "complete" BY <2>1, <2>2, <2>3 DEF AudioSound, SlowState
  <2>4. CASE s.startup # "complete"
    BY <2>1, <2>2, <2>4 DEF RestoreStartupPlaybackRate, AudioSound, AudioTyped, AudioFields, SlowState, EventState, ChainState, CanScheduleAudio,
       HasPlayableVideoData
  <2> QED BY <2>3, <2>4
<1>9. CASE \E t \in 0 .. MaxTime : PcmSeeked(t)
  <2> PICK t \in 0 .. MaxTime : PcmSeeked(t)
    BY <1>9
  <2> DEFINE s == [a EXCEPT !.seeking = FALSE, !.isSeeking = FALSE, !.vt = t]
  <2> DEFINE z == IF s.hidden THEN "background" ELSE "active"
  <2> DEFINE n == IF s.sync # "recovering" THEN s ELSE SetSyncState(s, z)
  <2>1. t \in Nat BY DEF PcmAssumption
  <2>2. AudioSound(s) /\ ~s.saved /\ ~s.buffering /\ ~s.isSeeking
    BY <2>1 DEF PcmSeeked, AudioSound, AudioTyped, AudioFields, SlowState, EventState, ChainState, CanScheduleAudio,
       HasPlayableVideoData
  <2>3. a' = ResyncFromBuffer(n, t) BY DEF PcmSeeked
  <2>4. AudioSound(n) /\ ~n.buffering /\ ~n.isSeeking
    <3> HIDE DEF s, z
    <3> QED BY <2>2, SetSyncSound
  <2> HIDE DEF n
  <2> QED BY <2>1, <2>3, <2>4, ResyncSound
<1>10. CASE Play
  <2> DEFINE s == [a EXCEPT !.paused = FALSE]
  <2>1. AudioSound(s) /\ AudioSound([s EXCEPT !.resuming = TRUE])
    BY <1>10 DEF Play, AudioSound, AudioTyped, AudioFields, SlowState, EventState, ChainState, CanScheduleAudio,
       HasPlayableVideoData
  <2>2. \/ a' = s
        \/ a' = [s EXCEPT !.resuming = TRUE]
        \/ s.startup \in {"waiting", "slowing"} /\ a' = TryStartInitialSync(s)
        \/ CanScheduleAudio(s) /\ a' = ResyncFromBuffer(s, s.vt)
    BY <1>10 DEF Play
  <2> HIDE DEF s
  <2>3. s.vt \in Nat BY <2>1 DEF AudioSound, AudioTyped
  <2>4. CanScheduleAudio(s) => ~s.buffering /\ ~s.isSeeking
    BY DEF CanScheduleAudio, HasPlayableVideoData
  <2> QED BY <2>1, <2>2, <2>3, <2>4, TryStartSound, ResyncSound
<1>11. CASE Pause BY <1>11, PauseSound DEF Pause
<1>12. CASE Waiting
  <2>1. ~a.buffering BY <1>12 DEF Waiting, AudioSound, EventState
  <2> QED BY <1>12, <2>1, BufferingSound DEF Waiting
<1>13. CASE CanPlay BY <1>13, CanPlaySound DEF CanPlay
<1>14. CASE TimeUpdate
  <2> DEFINE s == [a EXCEPT !.vt = @ + 1]
  <2>1. AudioSound(s) /\ s.sync = a.sync /\ HasPlayableVideoData(s)
    BY <1>14 DEF TimeUpdate, AudioSound, AudioTyped, AudioFields, SlowState, EventState, ChainState, CanScheduleAudio,
       HasPlayableVideoData
  <2>2. \/ s.sync = "recovering" /\ a' = CompleteRecovery(s)
        \/ a' = ControlAndPump(s)
    BY <1>14 DEF TimeUpdate
  <2> HIDE DEF s
  <2> QED BY <2>1, <2>2, CompleteRecoverySound, ControlSound
<1>15. CASE ControlTimer BY <1>15, ControlSound DEF ControlTimer
<1>16. CASE VisibilityChange
  <2> DEFINE s == [a EXCEPT !.hidden = ~@]
  <2> DEFINE r == ResetStartupSyncWait(s)
  <2>1. AudioTyped(s) /\ (s.saved <=> s.startup = "slowing") /\ s.slow = s.saved /\ EventState(s) /\ ChainState(s)
    BY DEF AudioSound, AudioTyped, AudioFields, SlowState, EventState, ChainState, CanScheduleAudio,
       HasPlayableVideoData
  <2>2. AudioSound(r) /\ ~r.saved
    <3> HIDE DEF s
    <3> QED BY <2>1, ResetSound
  <2>3. ~s.hidden => AudioSound(s) /\ ~s.saved
    BY DEF AudioSound, AudioTyped, AudioFields, SlowState, EventState, ChainState, CanScheduleAudio,
       HasPlayableVideoData
  <2>4. \/ s.hidden /\ a' = SetSyncState(r, "background")
        \/ ~s.hidden /\ a' = SetSyncState(s, "recovering")
    BY <1>16 DEF VisibilityChange
  <2> HIDE DEF s, r
  <2> QED BY <2>2, <2>3, <2>4, SetSyncSound
<1>17. CASE RecoveryTimeout
  <2> DEFINE z == a.failed \/ ~(a.paused \/ a.seeking \/ a.isSeeking \/ a.hidden)
  <2>1. a' = [a EXCEPT !.timer = FALSE, !.failed = z] BY <1>17 DEF RecoveryTimeout
  <2> HIDE DEF z
  <2> QED
    BY <2>1 DEF AudioSound, AudioTyped, AudioFields, SlowState, EventState, ChainState, CanScheduleAudio,
       HasPlayableVideoData
<1>18. CASE StartupWaited
  BY <1>18 DEF StartupWaited, AudioSound, AudioTyped, AudioFields, SlowState, EventState, ChainState, CanScheduleAudio,
       HasPlayableVideoData
<1>19. CASE AudioPlays
  BY <1>19 DEF AudioPlays, Playing, AudioSound, AudioTyped, AudioFields, SlowState, EventState, ChainState, CanScheduleAudio,
       HasPlayableVideoData
<1>20. CASE Stop
  <2> DEFINE s == [DropChain(RestoreStartupPlaybackRate(a)) EXCEPT
                   !.from = 0, !.to = 0, !.startup = "waiting", !.waited = FALSE, !.buffering = FALSE,
                   !.isSeeking = FALSE, !.seeking = FALSE, !.vt = 0, !.ready = FALSE, !.failed = FALSE,
                   !.stretcher = IF @ = "failed" THEN "none" ELSE @]
  <2> DEFINE z == IF a.hidden THEN "background" ELSE "active"
  <2>1. RestoreStartupPlaybackRate(a) = a \/ RestoreStartupPlaybackRate(a) = [a EXCEPT !.saved = FALSE, !.slow = FALSE]
    BY DEF RestoreStartupPlaybackRate
  <2>2. AudioSound(s) /\ ~s.saved
    <3> DEFINE n == RestoreStartupPlaybackRate(a)
    <3> DEFINE d == DropChain(n)
    <3>0. AudioTyped(n) /\ ~n.saved /\ n.slow = FALSE
      BY DEF RestoreStartupPlaybackRate, AudioSound, AudioTyped, AudioFields, SlowState
    <3>1. AudioTyped(d) /\ ~d.saved /\ d.slow = FALSE /\ ~d.on /\ d.pend = PcmNone
      <4> HIDE DEF n
      <4> QED BY <3>0, DropChainKeeps
    <3> QED BY ONLY <3>1, FreshSound
  <2>3. a' = SetSyncState(s, z) BY <1>20 DEF Stop
  <2> HIDE DEF s, z
  <2> QED BY <2>2, <2>3, SetSyncSound
<1> QED BY <1>1, <1>2, <1>3, <1>4, <1>5, <1>6, <1>7, <1>8, <1>9, <1>10, <1>11, <1>12, <1>13, <1>14, <1>15, <1>16,
     <1>17, <1>18, <1>19, <1>20 DEF PcmNext

\* A player that was just made is sound.
LEMMA InitSound == PcmInit => AudioSound(a)
<1> SUFFICES ASSUME PcmInit PROVE AudioSound(a)
  OBVIOUS
<1>1. PICK f \in 0 .. 1 : a =
       [sync |-> "active", startup |-> "waiting", waited |-> FALSE, timer |-> FALSE,
        buffering |-> FALSE, isSeeking |-> FALSE, slow |-> FALSE, saved |-> FALSE,
        from |-> f, to |-> f, pend |-> PcmNone, cursor |-> PcmNone,
        on |-> FALSE, at |-> 0, end |-> 0, stretcher |-> "none",
        ctx |-> "suspended", resuming |-> FALSE, unlocked |-> FALSE,
        hidden |-> FALSE, paused |-> TRUE, seeking |-> FALSE, ready |-> FALSE, vt |-> 0,
        failed |-> FALSE]
  BY DEF PcmInit
<1>2. DOMAIN a = AudioFields BY <1>1 DEF AudioFields
<1> QED
  BY <1>1, <1>2 DEF PcmNone, AudioSound, AudioTyped, SlowState, EventState, ChainState, CanScheduleAudio,
     HasPlayableVideoData

\* The same for a step that may stutter.
LEMMA NextSound == AudioSound(a) /\ [PcmNext]_pcmVars => AudioSound(a')
<1>1. CASE PcmNext BY <1>1, AudioStep
<1>2. CASE UNCHANGED pcmVars
  BY <1>2 DEF pcmVars, AudioSound, AudioTyped, AudioFields, SlowState, EventState, ChainState, CanScheduleAudio,
     HasPlayableVideoData
<1> QED BY <1>1, <1>2

(* SyncLeavesNothing, for every length of the stream and every threshold:  *)
(* the video is slow exactly while the start slows it down, and only while *)
(* the page is visible and the video can play; and what is scheduled is    *)
(* one stretch of the buffer, gone as soon as the video pauses, seeks or   *)
(* stalls (pcm-audio-player.ts).                                           *)
THEOREM SyncIsLeftClean == PcmSpec => []SyncLeavesNothing
<1>1. PcmInit => AudioSound(a) BY InitSound
<1>2. AudioSound(a) /\ [PcmNext]_pcmVars => AudioSound(a)'
  BY NextSound
<1>3. AudioSound(a) => SyncLeavesNothing
  BY DEF SyncLeavesNothing, SlowOnlyInStartup, OneChain, AudioSound, AudioTyped, SlowState, ChainState
<1> QED BY <1>1, <1>2, <1>3, PTL DEF PcmSpec

\* In the background the pump appends to a chain that plays and never moves it.
LEMMA PumpKeepsPlace ==
  ASSUME NEW s, AudioSound(s), s.sync = "background", Playing(s)
  PROVE  Pump(s).at = s.at
<1>1. TryStartInitialSync(s) = s BY DEF TryStartInitialSync
<1>2. ASSUME NEW first, NEW last
      PROVE  ScheduleOutput(s, first, last).at = s.at
  <2> DEFINE t == [s EXCEPT !.on = TRUE, !.at = s.at, !.end = last, !.cursor = last, !.pend = PcmNone]
  <2> DEFINE u == [t EXCEPT !.startup = "complete"]
  <2>1. t.at = s.at /\ DOMAIN t = AudioFields BY DEF AudioSound, AudioTyped, AudioFields
  <2>2. ScheduleOutput(s, first, last) \in {t, u, [u EXCEPT !.saved = FALSE, !.slow = FALSE]}
    BY DEF ScheduleOutput, RestoreStartupPlaybackRate, Playing
  <2> HIDE DEF t
  <2> QED BY <2>1, <2>2 DEF AudioFields
<1>3. PumpChain(s).at = s.at
  <2> DEFINE pend == IF s.pend # PcmNone THEN s.pend
                ELSE IF s.sync = "recovering" /\ s.cursor = PcmNone THEN PcmNone
                ELSE RefillStart(s, IF s.cursor = PcmNone THEN s.vt ELSE s.cursor)
  <2> DEFINE first == IF s.cursor = PcmNone THEN pend ELSE s.cursor
  <2> DEFINE limit == (IF s.on /\ s.at < s.end THEN s.at ELSE first) + Ahead
  <2> DEFINE last == IF s.to < limit THEN s.to ELSE limit
  <2>1. \/ PumpChain(s) = s
        \/ PumpChain(s) = [s EXCEPT !.resuming = TRUE]
        \/ PumpChain(s) = [s EXCEPT !.pend = pend]
        \/ \E z : PumpChain(s) = [s EXCEPT !.pend = pend, !.stretcher = z]
        \/ PumpChain(s) = ScheduleOutput(s, first, last)
    BY DEF PumpChain
  <2> HIDE DEF pend, first, last
  <2> QED BY <1>2, <2>1, ZenonT(60) DEF AudioSound, AudioTyped, AudioFields
<1> QED BY <1>1, <1>3 DEF Pump

\* Resetting the wait for the start leaves the chain alone.
LEMMA ResetKeepsPlace ==
  ASSUME NEW s, DOMAIN s = AudioFields
  PROVE  /\ ResetStartupSyncWait(s).at = s.at /\ ResetStartupSyncWait(s).on = s.on
         /\ DOMAIN ResetStartupSyncWait(s) = AudioFields
BY DEF ResetStartupSyncWait, RestoreStartupPlaybackRate, AudioFields

(* FreeRunsInBackground: audio that plays on in the background is only     *)
(* ever continued.  The invariant excludes the events that rebuild the     *)
(* chain: it plays only with a running context, outside a seek.            *)
THEOREM NoJumpInBackground == PcmSpec => FreeRunsInBackground
<1> DEFINE Quiet == Playing(a) /\ a'.on /\ a.sync = "background" /\ a'.sync = "background" /\ a.seeking = a'.seeking
<1>1. PcmInit => AudioSound(a) BY InitSound
<1>2. AudioSound(a) /\ [PcmNext]_pcmVars => AudioSound(a)'
  BY NextSound
<1>3. AudioSound(a) /\ [PcmNext]_pcmVars => [Quiet => a'.at \in {a.at, a.at + 1}]_pcmVars
  <2> SUFFICES ASSUME AudioSound(a), PcmNext, Quiet
               PROVE  a'.at \in {a.at, a.at + 1}
    BY DEF pcmVars
  <2>0. /\ DOMAIN a = AudioFields /\ a.sync = "background" /\ ~a.seeking /\ ~a.buffering /\ a.ctx = "running"
        /\ a'.on /\ a'.sync = "background" /\ ~a.paused /\ ~a.isSeeking
    BY DEF AudioSound, AudioTyped, ChainState, EventState, Playing
  <2>1. CASE Feed
    <3> DEFINE n == Cleanup(InsertToBuffer(a))
    <3>1. AudioSound(n) BY FeedSound
    <3>2. n.sync = a.sync /\ n.at = a.at /\ n.on = a.on /\ n.end = a.end
      BY <2>0 DEF Cleanup, InsertToBuffer, AudioFields
    <3>3. Playing(n)
      <4> HIDE DEF n
      <4> QED BY <3>2 DEF Playing
    <3>4. a' = Pump(n) BY <2>1 DEF Feed
    <3> HIDE DEF n
    <3> QED BY <2>0, <3>1, <3>2, <3>3, <3>4, PumpKeepsPlace
  <2>2. CASE StretcherReady
    <3> DEFINE n == [a EXCEPT !.stretcher = "ready"]
    <3>1. AudioSound(n) /\ n.sync = a.sync /\ n.at = a.at /\ Playing(n)
      BY DEF Playing, AudioSound, AudioTyped, AudioFields, SlowState, EventState, ChainState, CanScheduleAudio,
         HasPlayableVideoData
    <3>2. a' = Pump(n) BY <2>2 DEF StretcherReady
    <3> HIDE DEF n
    <3> QED BY <2>0, <3>1, <3>2, PumpKeepsPlace
  <2>3. CASE StretcherFailed
    <3> DEFINE n == [a EXCEPT !.stretcher = "failed", !.pend = PcmNone]
    <3>1. DOMAIN n = AudioFields /\ n.at = a.at BY <2>0 DEF AudioFields
    <3>2. a' = n \/ a' = FailStartupSync(n) BY <2>3 DEF StretcherFailed
    <3> HIDE DEF n
    <3> QED BY <3>1, <3>2 DEF FailStartupSync, RestoreStartupPlaybackRate, AudioFields
  <2>4. CASE ContextInterrupted \/ ContextSuspended
    <3> DEFINE d(z) == DropChain([a EXCEPT !.ctx = z])
    <3>1. ASSUME NEW z
          PROVE  DOMAIN d(z) = AudioFields /\ d(z).on = FALSE
      BY <2>0 DEF DropChain, CancelChain, AudioFields
    <3>2. PICK z : a' = SetSyncState(ResetStartupSyncWait(d(z)), "background") \/ a' = ResetStartupSyncWait(d(z))
      BY <2>4 DEF ContextInterrupted, ContextSuspended
    <3> HIDE DEF d
    <3> DEFINE r == ResetStartupSyncWait(d(z))
    <3>3. DOMAIN r = AudioFields /\ r.on = FALSE BY <3>1, ResetKeepsPlace
    <3>4. a' = SetSyncState(r, "background") \/ a' = r BY <3>2
    <3> HIDE DEF r
    <3> QED BY <2>0, <3>3, <3>4 DEF SetSyncState, AudioFields
  <2>5. CASE ContextRunning BY <2>0, <2>5 DEF ContextRunning
  <2>6. CASE AutoplayBlocked \/ Pause
    <3>1. ASSUME NEW s, DOMAIN s = AudioFields
          PROVE  OnPause(s).on = FALSE
      <4> DEFINE d == DropChain([s EXCEPT !.paused = TRUE, !.buffering = FALSE,
                                           !.ctx = IF @ = "running" THEN "suspended" ELSE @])
      <4>1. DOMAIN d = AudioFields /\ d.on = FALSE
        BY <3>1 DEF DropChain, CancelChain, AudioFields
      <4>2. OnPause(s) = ResetStartupSyncWait(d) BY DEF OnPause
      <4> HIDE DEF d
      <4> QED BY <4>1, <4>2, ResetKeepsPlace
    <3> DEFINE n == [a EXCEPT !.resuming = FALSE, !.unlocked = TRUE]
    <3>2. a' = OnPause(n) \/ a' = OnPause(a) BY <2>6 DEF AutoplayBlocked, Pause
    <3>3. DOMAIN n = AudioFields BY <2>0 DEF AudioFields
    <3> HIDE DEF n
    <3> QED BY <2>0, <3>1, <3>2, <3>3
  <2>7. CASE Seeking
    <3> DEFINE n == [CancelChain(a) EXCEPT !.seeking = TRUE, !.isSeeking = TRUE, !.buffering = FALSE,
                                           !.pend = PcmNone]
    <3>1. DOMAIN n = AudioFields /\ n.on = FALSE BY <2>0 DEF CancelChain, AudioFields
    <3>2. a' \in {n, [n EXCEPT !.startup = "disabled"], [[n EXCEPT !.saved = FALSE, !.slow = FALSE] EXCEPT !.startup = "disabled"]}
      BY <2>7 DEF Seeking, RestoreStartupPlaybackRate
    <3> HIDE DEF n
    <3> QED BY <2>0, <3>1, <3>2 DEF AudioFields
  <2>8. CASE \E t \in 0 .. MaxTime : PcmSeeked(t) BY <2>0, <2>8 DEF PcmSeeked
  <2>9. CASE Play BY <2>0, <2>9 DEF Play
  <2>10. CASE Waiting
    <3> DEFINE n == [a EXCEPT !.ready = FALSE]
    <3> DEFINE d == DropChain([n EXCEPT !.buffering = TRUE])
    <3>1. DOMAIN n = AudioFields /\ n.at = a.at BY <2>0 DEF AudioFields
    <3>2. DOMAIN d = AudioFields /\ d.on = FALSE
      BY <2>0 DEF DropChain, CancelChain, AudioFields
    <3>3. a' = n \/ a' = ResetStartupSyncWait(d) BY <2>10 DEF Waiting, EnterBuffering
    <3> HIDE DEF n, d
    <3> QED BY <2>0, <3>1, <3>2, <3>3, ResetKeepsPlace
  <2>11. CASE CanPlay
    <3>1. a' = [a EXCEPT !.ready = TRUE]
      BY <2>0, <2>11 DEF CanPlay, MaybeExitBuffering, AudioFields
    <3> QED BY <2>0, <3>1 DEF AudioFields
  <2>12. CASE TimeUpdate
    <3> DEFINE n == [a EXCEPT !.vt = @ + 1]
    <3>1. AudioSound(n) /\ n.sync = "background" /\ n.at = a.at /\ Playing(n)
      BY <2>0 DEF Playing, AudioSound, AudioTyped, AudioFields, SlowState, EventState, ChainState, CanScheduleAudio,
         HasPlayableVideoData
    <3>2. a' = ControlAndPump(n) \/ n.sync = "recovering" BY <2>12 DEF TimeUpdate
    <3> HIDE DEF n
    <3>3. ControlAndPump(n) = Pump(n) BY <3>1 DEF ControlAndPump, ControlApplies
    <3> QED BY <3>1, <3>2, <3>3, PumpKeepsPlace
  <2>13. CASE ControlTimer
    <3>1. a' = Pump(a)
      BY <2>0, <2>13 DEF ControlTimer, ControlAndPump, ControlApplies
    <3> QED BY <2>0, <3>1, PumpKeepsPlace
  <2>14. CASE VisibilityChange
    <3> DEFINE s == [a EXCEPT !.hidden = ~@]
    <3> DEFINE r == ResetStartupSyncWait(s)
    <3>1. DOMAIN s = AudioFields /\ s.at = a.at BY <2>0 DEF AudioFields
    <3>2. DOMAIN r = AudioFields /\ r.at = a.at
      <4> HIDE DEF s
      <4> QED BY <3>1, ResetKeepsPlace
    <3>3. a' = SetSyncState(r, "background") \/ a' = SetSyncState(s, "recovering")
      BY <2>14 DEF VisibilityChange
    <3> HIDE DEF s, r
    <3> QED BY <3>1, <3>2, <3>3 DEF SetSyncState, AudioFields
  <2>15. CASE RecoveryTimeout BY <2>0, <2>15 DEF RecoveryTimeout, AudioFields
  <2>16. CASE StartupWaited BY <2>0, <2>16 DEF StartupWaited, AudioFields
  <2>17. CASE AudioPlays BY <2>0, <2>17 DEF AudioPlays, AudioFields
  <2>18. CASE Stop
    <3> DEFINE n == RestoreStartupPlaybackRate(a)
    <3> DEFINE d == DropChain(n)
    <3> DEFINE e == [d EXCEPT
                   !.from = 0, !.to = 0, !.startup = "waiting", !.waited = FALSE, !.buffering = FALSE,
                   !.isSeeking = FALSE, !.seeking = FALSE, !.vt = 0, !.ready = FALSE, !.failed = FALSE,
                   !.stretcher = IF @ = "failed" THEN "none" ELSE @]
    <3> DEFINE z == IF a.hidden THEN "background" ELSE "active"
    <3>1. DOMAIN n = AudioFields
      BY <2>0 DEF RestoreStartupPlaybackRate, AudioFields
    <3>2. DOMAIN d = AudioFields /\ d.on = FALSE
      <4> HIDE DEF n
      <4> QED BY <3>1 DEF DropChain, CancelChain, AudioFields
    <3>3. a' = SetSyncState(e, z) BY <2>18 DEF Stop
    <3>4. DOMAIN e = AudioFields /\ e.on = FALSE
      <4> HIDE DEF d
      <4> QED BY <3>2 DEF AudioFields
    <3> HIDE DEF e, z
    <3> QED BY <2>0, <3>3, <3>4 DEF SetSyncState, AudioFields
  <2> QED BY <2>1, <2>2, <2>3, <2>4, <2>5, <2>6, <2>7, <2>8, <2>9, <2>10, <2>11, <2>12, <2>13, <2>14, <2>15, <2>16, <2>17,
       <2>18 DEF PcmNext
<1> QED BY <1>1, <1>2, <1>3, PTL DEF PcmSpec, FreeRunsInBackground

----------------------------------------------------------------------------
(* HlsSource                                                               *)

\* A segment as HlsSource keeps and hands it out.
Segment == [seq : Nat, start : Int, duration : Nat, resetRemuxer : BOOLEAN, seen : Int]

\* g continues p on the timeline; a jump over lost segments is marked, and was
\* made only when the playlist began with g.
Continues(g, p) ==
  /\ g.start = p.start + p.duration
  /\ g.seq > p.seq
  /\ g.seq > p.seq + 1 => g.resetRemuxer /\ g.seen = g.seq

HlsFields == {"at", "live", "ended", "segments", "nextIndex", "nextSeq", "pos", "reset", "failures",
              "news", "variant", "got"}

\* The segments that are kept lie end to end and end where the next one goes.
Kept(s) ==
  /\ DOMAIN s = HlsFields
  /\ s.segments \in Seq(Segment) /\ s.nextIndex \in 0 .. Len(s.segments)
  /\ s.nextSeq \in Int /\ s.pos \in Int
  /\ \A i \in 2 .. Len(s.segments) : Continues(s.segments[i], s.segments[i - 1])
  /\ \A i \in 1 .. Len(s.segments) : s.segments[i].seq \in Breaks => s.segments[i].resetRemuxer
  /\ IF Len(s.segments) = 0 THEN s.nextSeq = -1
     ELSE LET p == s.segments[Len(s.segments)]
          IN  s.nextSeq = p.seq + 1 /\ s.pos = p.start + p.duration

\* Where the segment after the read position starts.
NextStart(s) == IF s.nextIndex < Len(s.segments) THEN s.segments[s.nextIndex + 1].start ELSE s.pos

\* What was handed out, and how the read position goes on from it.
Handed(s) ==
  /\ s.got \in Seq(Segment)
  /\ \A i \in 2 .. Len(s.got) : Continues(s.got[i], s.got[i - 1])
  /\ \A i \in 1 .. Len(s.got) : s.got[i].seq \in Breaks => s.got[i].resetRemuxer
  /\ IF Len(s.got) = 0 THEN s.reset = TRUE /\ NextStart(s) = 0
     ELSE /\ s.reset = FALSE /\ s.nextIndex >= 1
          /\ s.got[1].start = 0 /\ s.got[1].resetRemuxer
          /\ LET p == s.segments[s.nextIndex]
                 g == s.got[Len(s.got)]
             IN  p.seq = g.seq /\ p.start = g.start /\ p.duration = g.duration

\* What holds after i segments of the playlist were ingested.
Ingested(s, i) ==
  /\ s.live => /\ Len(s.segments) <= TrimAt + MaxWindow /\ Len(s.segments) - s.nextIndex <= i
               /\ s.nextIndex <= TrimAt \/ s.nextIndex = Len(s.segments)
  /\ i > 0 => s.nextSeq >= srv.first + i

Unaltered(r, s) ==
  /\ r.at = s.at /\ r.live = s.live /\ r.ended = s.ended /\ r.got = s.got /\ r.reset = s.reset
  /\ r.failures = s.failures /\ r.variant = s.variant

\* The assumptions on the constants, one by one.
LEMMA HlsNumbers ==
  /\ MaxWindow \in Nat /\ MaxWindow >= 1 /\ TrimAt \in Nat /\ TrimKeep \in Nat /\ TrimKeep >= 1
  /\ TrimKeep <= TrimAt /\ LIVE_EDGE_SEGMENTS \in Nat /\ LIVE_EDGE_SEGMENTS >= 1
<1>1. \A c \in {MaxSeq, MaxWindow, LIVE_EDGE_SEGMENTS, MAX_REFRESH_FAILURES, TrimAt, TrimKeep} : c \in Nat /\ c >= 1
  BY HlsAssumption DEF HlsAssumption
<1> QED BY <1>1, HlsAssumption DEF HlsAssumption

\* Dropping history moves the read position with the segments.
LEMMA TrimKeeps ==
  ASSUME NEW s, Kept(s), Handed(s)
  PROVE  /\ Kept(Trim(s)) /\ Handed(Trim(s)) /\ Unaltered(Trim(s), s) /\ Trim(s).nextSeq = s.nextSeq
         /\ IF s.live /\ s.nextIndex > TrimAt
            THEN /\ Trim(s).nextIndex = TrimKeep
                 /\ Len(Trim(s).segments) = Len(s.segments) - s.nextIndex + TrimKeep
            ELSE Trim(s) = s
<1> USE HlsNumbers
<1>1. CASE ~(s.live /\ s.nextIndex > TrimAt) BY <1>1 DEF Trim, Unaltered
<1>2. CASE s.live /\ s.nextIndex > TrimAt
  <2> DEFINE k == s.nextIndex - TrimKeep
  <2> DEFINE S == s.segments
  <2> DEFINE T == SubSeq(S, k + 1, Len(S))
  <2> DEFINE r == [s EXCEPT !.segments = T, !.nextIndex = TrimKeep]
  <2>1. k \in Nat /\ k >= 1 /\ S \in Seq(Segment) /\ Len(S) \in Nat /\ s.nextIndex \in 0 .. Len(S) /\ k + 1 <= Len(S)
        /\ TrimKeep \in Nat /\ TrimKeep >= 1 /\ k + TrimKeep = s.nextIndex
    BY <1>2 DEF Kept
  <2>2. /\ T \in Seq(Segment) /\ Len(T) = Len(S) - k
        /\ \A i \in 1 .. Len(S) - k : T[i] = S[k + i]
    <3> HIDE DEF k, S
    <3> QED BY <2>1
  <2>3. r.segments = T /\ r.nextIndex = TrimKeep /\ DOMAIN r = HlsFields /\ Unaltered(r, s) /\ r.nextSeq = s.nextSeq
        /\ r.pos = s.pos
    BY DEF Kept, HlsFields, Unaltered
  <2>4. Trim(s) = r BY <1>2 DEF Trim
  <2> HIDE DEF T, r
  <2>5. Kept(r)
    <3> HIDE DEF k
    <3>2. \A i \in 2 .. Len(T) : Continues(T[i], T[i - 1])
      <4> SUFFICES ASSUME NEW i \in 2 .. Len(T) PROVE Continues(T[i], T[i - 1])
        OBVIOUS
      <4>1. i \in 1 .. Len(S) - k /\ i - 1 \in 1 .. Len(S) - k /\ k + i \in 2 .. Len(S) /\ k + (i - 1) = (k + i) - 1
        <5> HIDE DEF S
        <5>1. Len(S) \in Nat /\ Len(T) = Len(S) - k /\ k \in Nat /\ k >= 1
          BY <2>1, <2>2
        <5> QED BY ONLY <5>1, i \in 2 .. Len(T)
      <4>2. T[i] = S[k + i] /\ T[i - 1] = S[(k + i) - 1] BY <2>2, <4>1
      <4>3. Continues(S[k + i], S[(k + i) - 1]) BY <4>1 DEF Kept
      <4> QED BY <4>2, <4>3
    <3>3. \A i \in 1 .. Len(T) : T[i].seq \in Breaks => T[i].resetRemuxer
      <4> SUFFICES ASSUME NEW i \in 1 .. Len(T), T[i].seq \in Breaks PROVE T[i].resetRemuxer
        OBVIOUS
      <4>1. i \in 1 .. Len(S) - k /\ k + i \in 1 .. Len(S)
        <5> HIDE DEF S
        <5>1. Len(S) \in Nat /\ Len(T) = Len(S) - k /\ k \in Nat /\ k >= 1
          BY <2>1, <2>2
        <5> QED BY ONLY <5>1, i \in 1 .. Len(T)
      <4>2. T[i] = S[k + i] BY <2>2, <4>1
      <4> QED BY <4>1, <4>2 DEF Kept
    <3>4. Len(T) # 0 /\ T[Len(T)] = S[Len(S)] /\ TrimKeep \in 0 .. Len(T)
      BY <2>1, <2>2, SMTT(40)
    <3>5. s.nextSeq = S[Len(S)].seq + 1 /\ s.pos = S[Len(S)].start + S[Len(S)].duration
          /\ s.nextSeq \in Int /\ s.pos \in Int
      BY <2>1 DEF Kept
    <3> HIDE DEF S
    <3> QED BY <2>2, <2>3, <3>2, <3>3, <3>4, <3>5 DEF Kept
  <2>6. Handed(r)
    <3> HIDE DEF k
    <3>1. NextStart(r) = NextStart(s)
      <4>1. NextStart(r) = IF TrimKeep < Len(T) THEN T[TrimKeep + 1].start ELSE s.pos
        BY <2>3 DEF NextStart
      <4>2. NextStart(s) = IF s.nextIndex < Len(S) THEN S[s.nextIndex + 1].start ELSE s.pos
        BY DEF NextStart
      <4>3. TrimKeep < Len(T) <=> s.nextIndex < Len(S)
        <5> HIDE DEF S
        <5> QED BY <2>1, <2>2
      <4>4. TrimKeep < Len(T) => T[TrimKeep + 1] = S[s.nextIndex + 1]
        <5> HIDE DEF S
        <5> QED BY <2>1, <2>2, SMTT(40)
      <4> QED BY <4>1, <4>2, <4>3, <4>4
    <3>2. T[TrimKeep] = S[s.nextIndex] BY <2>1, <2>2
    <3>3. r.got = s.got /\ r.reset = s.reset BY <2>3 DEF Unaltered
    <3> QED BY <2>1, <2>3, <3>1, <3>2, <3>3 DEF Handed
  <2>7. Len(T) = Len(S) - s.nextIndex + TrimKeep BY <2>1, <2>2
  <2> QED BY <1>2, <2>3, <2>4, <2>5, <2>6, <2>7
<1> QED BY <1>1, <1>2

\* One segment of the playlist, as ingest appends it.
Appended(s, seg) ==
  [s EXCEPT
              !.segments = Append(@, [seq |-> seg.seq, start |-> s.pos, duration |-> seg.duration,
                                      resetRemuxer |-> seg.discontinuity \/ Skipped(s, seg),
                                      seen |-> srv.first]),
              !.pos = @ + seg.duration, !.nextSeq = seg.seq + 1, !.news = TRUE]

\* A segment of the playlist continues the ones kept, or is marked.
LEMMA AppendKeeps ==
  ASSUME NEW s, Kept(s), Handed(s), srv.first \in Nat,
         NEW seg, seg.seq \in Nat, seg.duration \in Nat, seg.discontinuity = (seg.seq \in Breaks),
         s.nextSeq = -1 \/ seg.seq >= s.nextSeq, s.nextSeq = -1 \/ seg.seq > s.nextSeq => seg.seq = srv.first
  PROVE  LET r == Appended(s, seg)
         IN  /\ Kept(r) /\ Handed(r) /\ Unaltered(r, s) /\ r.nextSeq = seg.seq + 1 /\ r.nextIndex = s.nextIndex
             /\ Len(r.segments) = Len(s.segments) + 1
<1> DEFINE S == s.segments
<1> DEFINE n == Len(S)
<1> DEFINE jump == seg.discontinuity \/ Skipped(s, seg)
<1> DEFINE g == [seq |-> seg.seq, start |-> s.pos, duration |-> seg.duration, resetRemuxer |-> jump,
                 seen |-> srv.first]
<1> DEFINE T == Append(S, g)
<1> DEFINE r == [s EXCEPT !.segments = T, !.pos = @ + seg.duration, !.nextSeq = seg.seq + 1, !.news = TRUE]
<1>1. S \in Seq(Segment) /\ n \in Nat /\ s.pos \in Int /\ s.nextSeq \in Int /\ s.nextIndex \in 0 .. n
  BY DEF Kept
<1>2. g \in Segment
  <2>1. jump \in BOOLEAN BY DEF Skipped
  <2> HIDE DEF jump
  <2> QED BY <1>1, <2>1 DEF Segment
<1>3. g.seq = seg.seq /\ g.start = s.pos /\ g.duration = seg.duration /\ g.resetRemuxer = jump /\ g.seen = srv.first
  OBVIOUS
<1>4. T \in Seq(Segment) /\ Len(T) = n + 1 /\ T[n + 1] = g /\ \A i \in 1 .. n : T[i] = S[i]
  <2> HIDE DEF S, g
  <2> QED BY <1>1, <1>2
<1>5. Appended(s, seg) = r BY DEF Appended
<1>6. /\ r.segments = T /\ r.pos = s.pos + seg.duration /\ r.nextSeq = seg.seq + 1 /\ r.nextIndex = s.nextIndex
      /\ DOMAIN r = HlsFields /\ Unaltered(r, s)
  BY DEF Kept, HlsFields, Unaltered
<1> HIDE DEF T, r
<1>7. ASSUME n > 0
      PROVE  Continues(g, S[n])
  <2>1. S[n] \in Segment BY <1>1, <1>7
  <2>2. s.nextSeq = S[n].seq + 1 /\ s.pos = S[n].start + S[n].duration
    BY <1>7 DEF Kept
  <2>3. S[n].seq \in Nat BY <2>1 DEF Segment
  <2>4. s.nextSeq # -1 BY <2>2, <2>3
  <2>5. seg.seq > s.nextSeq => jump BY <2>4 DEF Skipped
  <2> HIDE DEF g, jump
  <2> QED BY <1>3, <2>2, <2>3, <2>4, <2>5 DEF Continues
<1>8. Kept(r)
  <2>1. \A i \in 2 .. Len(T) : Continues(T[i], T[i - 1])
    <3> SUFFICES ASSUME NEW i \in 2 .. Len(T) PROVE Continues(T[i], T[i - 1])
      OBVIOUS
    <3>1. CASE i = n + 1
      <4>1. T[i] = g /\ T[i - 1] = S[n] /\ n > 0
        <5> HIDE DEF S, g
        <5> QED BY <1>1, <1>4, <3>1
      <4> QED BY <1>7, <4>1
    <3>2. CASE i # n + 1
      <4>1. i \in 2 .. n /\ T[i] = S[i] /\ T[i - 1] = S[i - 1]
        <5> HIDE DEF S, g
        <5> QED BY <1>1, <1>4, <3>2, SMTT(40)
      <4> QED BY <4>1 DEF Kept
    <3> QED BY <3>1, <3>2
  <2>2. \A i \in 1 .. Len(T) : T[i].seq \in Breaks => T[i].resetRemuxer
    <3> SUFFICES ASSUME NEW i \in 1 .. Len(T), T[i].seq \in Breaks PROVE T[i].resetRemuxer
      OBVIOUS
    <3>1. i \in 1 .. n \/ i = n + 1
      <4> HIDE DEF S
      <4> QED BY <1>1, <1>4
    <3>2. g.seq \in Breaks => g.resetRemuxer BY <1>3
    <3> QED BY <1>4, <3>1, <3>2 DEF Kept
  <2>3. Len(T) # 0 /\ s.nextIndex \in 0 .. Len(T) /\ T[Len(T)] = g
    <3> HIDE DEF g, S
    <3> QED BY <1>1, <1>4
  <2>4. seg.seq + 1 \in Int /\ s.pos + seg.duration \in Int
    BY <1>1
  <2> HIDE DEF g, S
  <2> QED BY <1>3, <1>4, <1>6, <2>1, <2>2, <2>3, <2>4, SMTT(40) DEF Kept
<1>9. Handed(r)
  <2>1. NextStart(r) = NextStart(s)
    <3>1. NextStart(r) = IF s.nextIndex < n + 1 THEN T[s.nextIndex + 1].start ELSE r.pos
      BY <1>4, <1>6 DEF NextStart
    <3>2. NextStart(s) = IF s.nextIndex < n THEN S[s.nextIndex + 1].start ELSE s.pos
      BY DEF NextStart
    <3> HIDE DEF S, g
    <3> QED BY <1>1, <1>3, <1>4, <3>1, <3>2, SMTT(40)
  <2>2. s.nextIndex >= 1 => r.segments[r.nextIndex] = S[s.nextIndex]
    <3> HIDE DEF S, g
    <3> QED BY <1>1, <1>4, <1>6
  <2>3. r.got = s.got /\ r.reset = s.reset BY <1>6 DEF Unaltered
  <2> QED BY <1>6, <2>1, <2>2, <2>3 DEF Handed
<1> QED BY <1>4, <1>5, <1>6, <1>8, <1>9

\* Ingesting one segment of the playlist keeps all of it, and the history of
\* a live stream stays inside its bound.
LEMMA IngestSegmentKeeps ==
  ASSUME NEW s, Kept(s), Handed(s), srv.first \in Nat, NEW i \in Nat, Ingested(s, i), i + 1 <= MaxWindow,
         NEW seg, seg.seq = srv.first + i, seg.duration \in Nat, seg.discontinuity = (seg.seq \in Breaks)
  PROVE  LET r == IngestSegment(s, seg)
         IN  Kept(r) /\ Handed(r) /\ Ingested(r, i + 1) /\ Unaltered(r, s)
<1> USE HlsNumbers
<1>1. CASE s.nextSeq # -1 /\ seg.seq < s.nextSeq
  <2>1. IngestSegment(s, seg) = s BY <1>1 DEF IngestSegment
  <2>2. s.nextSeq \in Int /\ s.nextIndex \in 0 .. Len(s.segments) /\ Len(s.segments) \in Nat
    BY DEF Kept
  <2>3. Ingested(s, i + 1) BY <1>1, <2>2 DEF Ingested
  <2> QED BY <2>1, <2>3 DEF Unaltered
<1>2. CASE ~(s.nextSeq # -1 /\ seg.seq < s.nextSeq)
  <2> DEFINE r == Appended(s, seg)
  <2>1. IngestSegment(s, seg) = Trim(r) BY <1>2 DEF IngestSegment, Appended
  <2>2. s.nextSeq \in Int /\ s.nextIndex \in 0 .. Len(s.segments) /\ Len(s.segments) \in Nat
    BY DEF Kept
  <2>3. seg.seq \in Nat /\ (s.nextSeq = -1 \/ seg.seq >= s.nextSeq)
        /\ (s.nextSeq = -1 \/ seg.seq > s.nextSeq => seg.seq = srv.first)
    BY <1>2, <2>2 DEF Ingested
  <2>4. /\ Kept(r) /\ Handed(r) /\ Unaltered(r, s) /\ r.nextSeq = seg.seq + 1 /\ r.nextIndex = s.nextIndex
        /\ Len(r.segments) = Len(s.segments) + 1
    BY <2>3, AppendKeeps
  <2> HIDE DEF r
  <2>5. /\ Kept(Trim(r)) /\ Handed(Trim(r)) /\ Unaltered(Trim(r), r) /\ Trim(r).nextSeq = r.nextSeq
        /\ IF r.live /\ r.nextIndex > TrimAt
           THEN /\ Trim(r).nextIndex = TrimKeep
                /\ Len(Trim(r).segments) = Len(r.segments) - r.nextIndex + TrimKeep
           ELSE Trim(r) = r
    BY <2>4, TrimKeeps
  <2>6. Trim(r).live = s.live /\ r.live = s.live BY <2>4, <2>5 DEF Unaltered
  <2>7. Ingested(Trim(r), i + 1)
    <3>0. Trim(r).nextSeq = srv.first + i + 1 BY <2>4, <2>5
    <3>1. CASE s.live /\ s.nextIndex > TrimAt
      <4>1. s.nextIndex = Len(s.segments) BY <2>2, <3>1 DEF Ingested
      <4>2. Trim(r).nextIndex = TrimKeep /\ Len(Trim(r).segments) = TrimKeep + 1
        BY <2>2, <2>4, <2>5, <2>6, <3>1, <4>1
      <4> QED BY <2>6, <3>0, <3>1, <4>2 DEF Ingested
    <3>2. CASE s.live /\ ~(s.nextIndex > TrimAt)
      <4>1. Trim(r).nextIndex = s.nextIndex /\ Len(Trim(r).segments) = Len(s.segments) + 1
        BY <2>4, <2>5, <2>6, <3>2
      <4>2. Len(s.segments) - s.nextIndex <= i /\ s.nextIndex <= TrimAt
        BY <2>2, <3>2 DEF Ingested
      <4>3. Len(s.segments) + 1 <= TrimAt + MaxWindow /\ (Len(s.segments) + 1) - s.nextIndex <= i + 1
        BY <2>2, <4>2
      <4> QED BY <2>6, <3>0, <4>1, <4>2, <4>3 DEF Ingested
    <3>3. CASE ~s.live BY <2>6, <3>0, <3>3 DEF Ingested
    <3> QED BY <3>1, <3>2, <3>3
  <2>8. Unaltered(Trim(r), s) BY <2>4, <2>5 DEF Unaltered
  <2> QED BY <2>1, <2>5, <2>7, <2>8
<1> QED BY <1>1, <1>2

\* Every set of numbers that is not empty has a least element: induction over
\* the length of a playlist looks at the least length that fails.
LEMMA LeastNumber ==
  ASSUME NEW S \in SUBSET Nat, S # {}
  PROVE  \E m \in S : \A k \in S : m <= k
<1> DEFINE R == OpToRel(<, Nat)
<1>1. IsWellFoundedOn(R, Nat) BY NatLessThanWellFounded
<1>2. \A k, m \in Nat : k < m => <<k, m>> \in R BY DEF OpToRel
<1> HIDE DEF R
<1>3. PICK m \in S : \A k \in S : ~(<<k, m>> \in R) BY <1>1, WFMin
<1>4. \A k \in S : ~(k < m) BY <1>2, <1>3
<1> QED BY <1>4

\* f is what ingest computes, segment by segment.
Ingests(f, start, P, N) ==
  f = [i \in 0 .. N |-> IF i = 0 THEN start ELSE IngestSegment(f[i - 1], P[i])]

\* The recursive function of Ingest exists: at the least length without one,
\* the function of the shorter playlist could be continued.
LEMMA IngestDefined ==
  ASSUME NEW start, NEW P, NEW N \in Nat
  PROVE  \E f : Ingests(f, start, P, N)
<1> DEFINE Is(f, n) == f = [i \in 0 .. n |-> IF i = 0 THEN start ELSE IngestSegment(f[i - 1], P[i])]
<1> DEFINE Bad == {n \in 0 .. N : ~ \E f : Is(f, n)}
<1>1. ASSUME Bad # {}
      PROVE  FALSE
  <2>1. PICK m \in Bad : \A k \in Bad : m <= k
    <3>1. Bad \subseteq Nat
      OBVIOUS
    <3> HIDE DEF Bad
    <3> QED BY <1>1, <3>1, LeastNumber
  <2>2. CASE m = 0
    <3> DEFINE f == [i \in 0 .. 0 |-> start]
    <3>1. Is(f, 0)
      OBVIOUS
    <3> QED BY <2>2, <3>1
  <2>3. CASE m # 0
    <3>1. m - 1 \in 0 .. N /\ ~(m <= m - 1) /\ m \in Nat /\ m >= 1
      BY <2>3
    <3>2. \E g : Is(g, m - 1) BY <2>1, <3>1
    <3>3. PICK g : Is(g, m - 1) BY <3>2
    <3> DEFINE f == [i \in 0 .. m |-> IF i = m THEN IngestSegment(g[m - 1], P[m]) ELSE g[i]]
    <3> DEFINE h1 == [i \in 0 .. m |-> IF i = 0 THEN start ELSE IngestSegment(f[i - 1], P[i])]
    <3>4. ASSUME NEW i \in 0 .. m
          PROVE  f[i] = h1[i]
      <4>1. CASE i = m
        <5>1. f[m - 1] = g[m - 1] BY <3>1
        <5> QED BY <3>1, <4>1, <5>1
      <4>2. CASE i # m
        <5>1. i \in 0 .. m - 1 /\ f[i] = g[i] BY <3>1, <4>2
        <5>2. g[i] = IF i = 0 THEN start ELSE IngestSegment(g[i - 1], P[i])
          BY <3>3, <5>1
        <5>3. i # 0 => f[i - 1] = g[i - 1] BY <3>1, <4>2
        <5> QED BY <5>1, <5>2, <5>3
      <4> QED BY <4>1, <4>2
    <3>5. f = h1 BY <3>4
    <3>6. Is(f, m) BY <3>5
    <3> HIDE DEF f, h1, Is
    <3> QED BY <3>6
  <2> QED BY <2>2, <2>3
<1> HIDE DEF Is
<1>2. N \notin Bad BY <1>1
<1>3. \E f : Is(f, N) BY <1>2
<1> QED BY <1>3 DEF Is, Ingests

\* Ingesting a whole playlist, by induction over its segments.
LEMMA IngestKeeps ==
  ASSUME NEW s, Kept(s), Handed(s), srv.first \in Nat, srv.last \in Nat,
         srv.first <= srv.last + 1, (srv.last - srv.first) + 1 <= MaxWindow, srv.ended \in BOOLEAN,
         s.nextIndex = Len(s.segments), Len(s.segments) <= TrimAt + MaxWindow
  PROVE  LET r == Ingest(s, Playlist)
         IN  /\ Kept(r) /\ Handed(r) /\ r.at = s.at /\ r.live = ~srv.ended /\ r.ended = srv.ended /\ r.got = s.got
             /\ r.live => Len(r.segments) <= TrimAt + MaxWindow
<1> USE HlsNumbers
<1> DEFINE N == (srv.last - srv.first) + 1
<1> DEFINE start == [s EXCEPT !.live = Playlist.live, !.ended = ~Playlist.live, !.news = FALSE]
<1> DEFINE P == Playlist.segments
<1> DEFINE Is(f) == f = [i \in 0 .. N |-> IF i = 0 THEN start ELSE IngestSegment(f[i - 1], P[i])]
<1> DEFINE after == CHOOSE f : Is(f)
<1>1. N \in Nat /\ N <= MaxWindow
  OBVIOUS
<1>2. Len(P) = N /\ Playlist.live = ~srv.ended
      /\ \A i \in 1 .. N : P[i].seq = srv.first + (i - 1) /\ P[i].duration \in Nat
                           /\ P[i].discontinuity = (P[i].seq \in Breaks)
  <2> DEFINE G == [i \in 1 .. N |-> [seq |-> srv.first + i - 1, duration |-> Duration(srv.first + i - 1),
                                     discontinuity |-> srv.first + i - 1 \in Breaks]]
  <2>1. P = G /\ Playlist.live = ~srv.ended BY DEF Playlist
  <2>2. Len(G) = N
    <3>1. G \in Seq([seq : Int, duration : {Duration(q) : q \in Int}, discontinuity : BOOLEAN])
      <4> HIDE DEF N
      <4> QED BY <1>1
    <3> HIDE DEF N
    <3> QED BY <1>1, <3>1
  <2>3. ASSUME NEW i \in 1 .. N
        PROVE  G[i].seq = srv.first + (i - 1) /\ G[i].duration = Duration(srv.first + i - 1)
               /\ G[i].discontinuity = (srv.first + i - 1 \in Breaks) /\ srv.first + i - 1 = srv.first + (i - 1)
    <3> HIDE DEF N
    <3> QED BY <1>1
  <2>4. ASSUME NEW q \in Nat
        PROVE  Duration(q) \in Nat
    BY DEF Duration
  <2> HIDE DEF G
  <2>5. ASSUME NEW i \in 1 .. N
        PROVE  P[i].seq = srv.first + (i - 1) /\ P[i].duration \in Nat /\ P[i].discontinuity = (P[i].seq \in Breaks)
    <3>1. srv.first + i - 1 \in Nat
      <4> HIDE DEF N
      <4> QED BY <1>1
    <3> HIDE DEF N
    <3>2. G[i].seq = srv.first + (i - 1) /\ G[i].duration = Duration(srv.first + i - 1)
               /\ G[i].discontinuity = (srv.first + i - 1 \in Breaks) /\ srv.first + i - 1 = srv.first + (i - 1)
      BY <2>3
    <3>3. P[i] = G[i] BY <2>1
    <3> HIDE DEF P
    <3> QED BY <2>4, <3>1, <3>2, <3>3
  <2> QED BY <2>1, <2>2, <2>5
<1>3. Ingest(s, Playlist) = after[N] BY <1>2 DEF Ingest
<1>4. Is(after)
  <2>1. \E f : Is(f)
    <3>1. PICK f : Ingests(f, start, P, N)
      <4> HIDE DEF N, P, start
      <4> QED BY <1>1, IngestDefined
    <3>2. Is(f) BY <3>1 DEF Ingests
    <3> HIDE DEF Is
    <3> QED BY <3>2
  <2> HIDE DEF Is
  <2> QED BY <2>1
<1> HIDE DEF after
<1>5. Kept(start) /\ Handed(start) /\ Ingested(start, 0) /\ start.at = s.at /\ start.live = ~srv.ended
      /\ start.ended = srv.ended /\ start.got = s.got
  <2>1. /\ DOMAIN start = HlsFields /\ start.at = s.at /\ start.live = ~srv.ended /\ start.ended = srv.ended
        /\ start.segments = s.segments /\ start.nextIndex = s.nextIndex /\ start.nextSeq = s.nextSeq
        /\ start.pos = s.pos /\ start.got = s.got /\ start.reset = s.reset
    <3> DEFINE live == Playlist.live
    <3> HIDE DEF live
    <3>1. live = ~srv.ended BY <1>2 DEF live
    <3>2. start = [s EXCEPT !.live = live, !.ended = ~live, !.news = FALSE]
      BY DEF live
    <3> HIDE DEF start
    <3> QED BY <3>1, <3>2, srv.ended \in BOOLEAN DEF Kept, HlsFields
  <2> HIDE DEF start
  <2>2. Kept(start) BY <2>1 DEF Kept
  <2>3. NextStart(start) = NextStart(s) BY <2>1 DEF NextStart
  <2>4. Handed(start) BY <2>1, <2>3 DEF Handed
  <2>5. Ingested(start, 0)
    <3>1. Len(s.segments) \in Nat BY DEF Kept
    <3> QED BY <2>1, <3>1 DEF Ingested
  <2> QED BY <2>1, <2>2, <2>4, <2>5
<1> DEFINE Fine(i) == Kept(after[i]) /\ Handed(after[i]) /\ Ingested(after[i], i) /\ Unaltered(after[i], start)
<1> DEFINE Bad == {i \in 0 .. N : ~Fine(i)}
<1>6. Bad = {}
  <2> SUFFICES ASSUME Bad # {} PROVE FALSE
    OBVIOUS
  <2>1. PICK m \in Bad : \A k \in Bad : m <= k
    <3>1. Bad \subseteq Nat BY <1>1
    <3> HIDE DEF Bad
    <3> QED BY <3>1, LeastNumber
  <2>2. m \in 0 .. N /\ ~Fine(m)
    OBVIOUS
  <2>3. m # 0
    <3>1. after[0] = start BY <1>1, <1>4
    <3>2. Unaltered(start, start) BY DEF Unaltered
    <3> HIDE DEF start, N
    <3> QED BY <1>5, <2>2, <3>1, <3>2
  <2>4. m - 1 \in 0 .. N /\ ~(m <= m - 1) /\ m - 1 \in Nat /\ (m - 1) + 1 = m /\ m \in 1 .. N
    <3> HIDE DEF N, Fine
    <3> QED BY <1>1, <2>2, <2>3
  <2>5. Fine(m - 1)
    <3> HIDE DEF N, Fine
    <3> QED BY <2>1, <2>4
  <2>6. after[m] = IngestSegment(after[m - 1], P[m])
    <3> HIDE DEF N, P, start
    <3> QED BY <1>4, <2>2, <2>3
  <2>7. P[m].seq = srv.first + (m - 1) /\ P[m].duration \in Nat /\ P[m].discontinuity = (P[m].seq \in Breaks)
    BY <1>2, <2>4
  <2>8. m <= MaxWindow
    <3> HIDE DEF N
    <3> QED BY <1>1, <2>4
  <2>9. Kept(after[m]) /\ Handed(after[m]) /\ Ingested(after[m], m) /\ Unaltered(after[m], after[m - 1])
    <3> HIDE DEF P, N, start
    <3> QED BY <2>4, <2>5, <2>6, <2>7, <2>8, IngestSegmentKeeps
  <2>10. Unaltered(after[m], start)
    <3> HIDE DEF start
    <3> QED BY <2>5, <2>9 DEF Unaltered
  <2> QED BY <2>2, <2>9, <2>10
<1>7. Fine(N)
  <2> HIDE DEF Fine
  <2> QED BY <1>1, <1>6
<1> HIDE DEF start, N
<1> QED BY <1>1, <1>3, <1>5, <1>7 DEF Unaltered, Ingested

\* Where the object stands: before its first playlist it keeps nothing, it waits
\* only with everything handed out, and a live history is bounded.
Stands(s) ==
  /\ s.at \in {"new", "init", "initRetry"} => Len(s.segments) = 0 /\ s.nextIndex = 0
  /\ s.at \in {"wait", "fetch", "retry"} => s.live /\ s.nextIndex = Len(s.segments)
  /\ s.ended = ~s.live
  /\ s.live => Len(s.segments) <= TrimAt + MaxWindow

\* The window of the playlist on the server.
SourceWindow ==
  /\ DOMAIN srv = {"first", "last", "ended", "multi"}
  /\ srv.first \in Nat /\ srv.last \in Nat /\ srv.ended \in BOOLEAN
  /\ srv.first <= srv.last + 1 /\ (srv.last - srv.first) + 1 <= MaxWindow

\* Starting at the live edge moves the timeline so that its next segment
\* starts at 0.
LEMMA RebaseKeeps ==
  ASSUME NEW s, Kept(s), Handed(s), Len(s.got) = 0
  PROVE  LET r == Rebase(s)
         IN  /\ Kept(r) /\ Handed(r) /\ Unaltered(r, s) /\ Len(r.segments) = Len(s.segments)
<1> USE HlsNumbers
<1>1. CASE ~s.live BY <1>1 DEF Rebase, Unaltered
<1>2. CASE s.live
  <2> DEFINE S == s.segments
  <2> DEFINE n == IF Len(S) > LIVE_EDGE_SEGMENTS THEN Len(S) - LIVE_EDGE_SEGMENTS ELSE 0
  <2> DEFINE base == IF n < Len(S) THEN S[n + 1].start ELSE 0
  <2> DEFINE T == [i \in DOMAIN S |-> [S[i] EXCEPT !.start = S[i].start - base]]
  <2> DEFINE r == [s EXCEPT !.nextIndex = n, !.pos = s.pos - base, !.segments = T]
  <2>1. S \in Seq(Segment) /\ Len(S) \in Nat /\ DOMAIN S = 1 .. Len(S) /\ s.pos \in Int /\ s.nextSeq \in Int
    BY DEF Kept
  <2>2. n \in 0 .. Len(S) /\ (n < Len(S) \/ Len(S) = 0)
    <3> HIDE DEF S
    <3> QED BY <2>1
  <2>3. \A i \in 1 .. Len(S) : S[i] \in Segment
    <3> HIDE DEF S
    <3> QED BY <2>1
  <2>4. base \in Int
    <3>1. n < Len(S) => n + 1 \in 1 .. Len(S)
      <4> HIDE DEF S, n
      <4> QED BY <2>1, <2>2
    <3> HIDE DEF S, n
    <3> QED BY <2>3, <3>1 DEF Segment
  <2> HIDE DEF base
  <2>5. ASSUME NEW i \in 1 .. Len(S)
        PROVE  /\ T[i] \in Segment /\ T[i].seq = S[i].seq /\ T[i].start = S[i].start - base
               /\ T[i].duration = S[i].duration /\ T[i].resetRemuxer = S[i].resetRemuxer /\ T[i].seen = S[i].seen
    <3> DEFINE g == S[i]
    <3>1. g \in Segment BY <2>3
    <3>2. T[i] = [g EXCEPT !.start = g.start - base] BY <2>1
    <3> HIDE DEF g, T
    <3>3. g.start \in Int /\ g.start - base \in Int BY <2>4, <3>1 DEF Segment
    <3>4. [g EXCEPT !.start = g.start - base] \in Segment BY <3>1, <3>3 DEF Segment
    <3> QED BY <3>1, <3>2, <3>4 DEF Segment, g
  <2>6. T \in Seq(Segment) /\ Len(T) = Len(S)
    <3>1. T = [i \in 1 .. Len(S) |-> T[i]] BY <2>1
    <3>2. T \in [1 .. Len(S) -> Segment]
      <4> HIDE DEF T, S
      <4> QED BY <2>5, <3>1
    <3> HIDE DEF T, S
    <3> QED BY <2>1, <3>2
  <2> HIDE DEF T
  <2>7. r.nextIndex = n /\ r.pos = s.pos - base /\ r.segments = T /\ DOMAIN r = HlsFields /\ Unaltered(r, s)
        /\ r.nextSeq = s.nextSeq
    <3> HIDE DEF n
    <3> QED BY DEF Kept, HlsFields, Unaltered
  <2>8. Rebase(s) = r BY <1>2 DEF Rebase, base, T
  <2>9. Kept(r)
    <3> HIDE DEF r
    <3>1. \A i \in 2 .. Len(T) : Continues(T[i], T[i - 1])
      <4> SUFFICES ASSUME NEW i \in 2 .. Len(T) PROVE Continues(T[i], T[i - 1])
        OBVIOUS
      <4>1. i \in 1 .. Len(S) /\ i - 1 \in 1 .. Len(S) /\ i \in 2 .. Len(S)
        <5> HIDE DEF S
        <5> QED BY <2>1, <2>6
      <4>2. Continues(S[i], S[i - 1]) BY <4>1 DEF Kept
      <4>3. S[i] \in Segment /\ S[i - 1] \in Segment BY <2>3, <4>1
      <4> DEFINE g == S[i]
      <4> DEFINE p == S[i - 1]
      <4>4. /\ T[i].seq = g.seq /\ T[i].start = g.start - base /\ T[i].resetRemuxer = g.resetRemuxer
            /\ T[i].seen = g.seen /\ T[i - 1].seq = p.seq /\ T[i - 1].start = p.start - base
            /\ T[i - 1].duration = p.duration
        BY <2>5, <4>1
      <4> HIDE DEF g, p
      <4>5. g.start \in Int /\ p.start \in Int /\ p.duration \in Int /\ g.start = p.start + p.duration
        BY <4>2, <4>3 DEF Continues, Segment, g, p
      <4>6. g.start - base = (p.start - base) + p.duration BY <2>4, <4>5
      <4> QED BY <4>2, <4>4, <4>6 DEF Continues, g, p
    <3>2. \A i \in 1 .. Len(T) : T[i].seq \in Breaks => T[i].resetRemuxer
      <4> SUFFICES ASSUME NEW i \in 1 .. Len(T) PROVE T[i].seq \in Breaks => T[i].resetRemuxer
        OBVIOUS
      <4>1. i \in 1 .. Len(S) BY <2>6
      <4>2. S[i].seq \in Breaks => S[i].resetRemuxer BY <4>1 DEF Kept
      <4> QED BY <2>5, <4>1, <4>2
    <3>3. IF Len(T) = 0 THEN r.nextSeq = -1
          ELSE r.nextSeq = T[Len(T)].seq + 1 /\ r.pos = T[Len(T)].start + T[Len(T)].duration
      <4>1. CASE Len(S) = 0 BY <2>6, <2>7, <4>1 DEF Kept
      <4>2. CASE Len(S) # 0
        <5>1. s.nextSeq = S[Len(S)].seq + 1 /\ s.pos = S[Len(S)].start + S[Len(S)].duration
          BY <4>2 DEF Kept
        <5>2. Len(S) \in 1 .. Len(S) BY <2>1, <4>2
        <5>3. S[Len(S)] \in Segment BY <2>3, <5>2
        <5>4. T[Len(S)].seq = S[Len(S)].seq /\ T[Len(S)].start = S[Len(S)].start - base
              /\ T[Len(S)].duration = S[Len(S)].duration
          BY <2>5, <5>2
        <5> HIDE DEF S
        <5> QED BY <2>4, <2>6, <2>7, <4>2, <5>1, <5>3, <5>4, SMTT(40) DEF Segment
      <4> QED BY <4>1, <4>2
    <3> HIDE DEF n
    <3> QED BY <2>1, <2>2, <2>4, <2>6, <2>7, <3>1, <3>2, <3>3 DEF Kept
  <2>10. NextStart(r) = 0
    <3>1. s.reset = TRUE /\ NextStart(s) = 0 BY DEF Handed
    <3>2. CASE Len(S) = 0
      <4>0. s.nextIndex \in 0 .. Len(S) BY DEF Kept
      <4>1. s.pos = 0 /\ base = 0 /\ n = 0
        BY <2>1, <2>2, <3>1, <3>2, <4>0 DEF NextStart, base
      <4> HIDE DEF r, n
      <4> QED BY <2>6, <2>7, <3>2, <4>1 DEF NextStart
    <3>3. CASE Len(S) # 0
      <4>1. n < Len(S) /\ n + 1 \in 1 .. Len(S)
        <5> HIDE DEF S, n
        <5> QED BY <2>1, <2>2, <3>3
      <4>2. base = S[n + 1].start BY <4>1 DEF base
      <4>3. T[n + 1].start = 0
        <5>1. T[n + 1].start = S[n + 1].start - base BY <2>5, <4>1
        <5> HIDE DEF S, n
        <5> QED BY <2>4, <4>2, <5>1
      <4>4. n < Len(T) BY <2>6, <4>1
      <4> HIDE DEF r, n
      <4> QED BY <2>7, <4>3, <4>4 DEF NextStart
    <3> QED BY <3>2, <3>3
  <2>11. Handed(r)
    <3>1. r.got = s.got /\ r.reset = s.reset BY <2>7 DEF Unaltered
    <3> HIDE DEF r
    <3> QED BY <2>10, <3>1 DEF Handed
  <2> HIDE DEF r
  <2> QED BY <2>6, <2>7, <2>8, <2>9, <2>11
<1> QED BY <1>1, <1>2

\* Next() hands out the segment at the read position, or waits.
LEMMA ReturnKeeps ==
  ASSUME NEW s, Kept(s), Handed(s), s.ended = ~s.live, s.live => Len(s.segments) <= TrimAt + MaxWindow
  PROVE  LET r == Return(s) IN Kept(r) /\ Handed(r) /\ Stands(r)
<1>1. CASE ~(s.nextIndex < Len(s.segments))
  <2> DEFINE z == IF s.ended THEN "done" ELSE "wait"
  <2> DEFINE r == [s EXCEPT !.at = z]
  <2>1. Return(s) = r BY <1>1 DEF Return
  <2>2. /\ DOMAIN r = HlsFields /\ r.at = z /\ r.segments = s.segments /\ r.nextIndex = s.nextIndex
        /\ r.nextSeq = s.nextSeq /\ r.pos = s.pos /\ r.live = s.live /\ r.ended = s.ended /\ r.got = s.got
        /\ r.reset = s.reset
    BY DEF Kept, HlsFields
  <2> HIDE DEF r
  <2>3. Kept(r) BY <2>2 DEF Kept
  <2>4. Handed(r)
    <3>1. NextStart(r) = NextStart(s) BY <2>2 DEF NextStart
    <3> QED BY <2>2, <3>1 DEF Handed
  <2>5. s.nextIndex = Len(s.segments) BY <1>1 DEF Kept
  <2> QED BY <2>1, <2>2, <2>3, <2>4, <2>5 DEF Stands
<1>2. CASE s.nextIndex < Len(s.segments)
  <2> DEFINE k == s.nextIndex
  <2> DEFINE S == s.segments
  <2> DEFINE n == Len(s.got)
  <2> DEFINE meta == S[k + 1]
  <2> DEFINE g == [meta EXCEPT !.resetRemuxer = @ \/ s.reset]
  <2> DEFINE G == Append(s.got, g)
  <2> DEFINE r == [s EXCEPT !.at = "idle", !.nextIndex = k + 1, !.reset = FALSE, !.got = G]
  <2>1. Return(s) = r BY <1>2 DEF Return
  <2>2. k \in Nat /\ k + 1 \in 1 .. Len(S) /\ S \in Seq(Segment) /\ n \in Nat /\ s.got \in Seq(Segment)
    BY <1>2 DEF Kept, Handed
  <2>3. meta \in Segment
    <3> HIDE DEF S, k
    <3> QED BY <2>2
  <2>4. s.reset \in BOOLEAN /\ (s.reset <=> n = 0) BY DEF Handed
  <2>5. /\ g \in Segment /\ g.seq = meta.seq /\ g.start = meta.start /\ g.duration = meta.duration
        /\ g.seen = meta.seen /\ (g.resetRemuxer <=> meta.resetRemuxer \/ s.reset)
    <3> HIDE DEF meta
    <3> QED BY <2>3, <2>4 DEF Segment
  <2> HIDE DEF g
  <2>6. G \in Seq(Segment) /\ Len(G) = n + 1 /\ G[n + 1] = g /\ \A i \in 1 .. n : G[i] = s.got[i]
    BY <2>2, <2>5
  <2> HIDE DEF G
  <2>7. /\ DOMAIN r = HlsFields /\ r.at = "idle" /\ r.segments = S /\ r.nextIndex = k + 1
        /\ r.nextSeq = s.nextSeq /\ r.pos = s.pos /\ r.live = s.live /\ r.ended = s.ended /\ r.got = G
        /\ r.reset = FALSE
    <3> HIDE DEF k
    <3> QED BY DEF Kept, HlsFields
  <2> HIDE DEF r
  <2>8. Kept(r)
    <3>1. k + 1 \in 0 .. Len(S)
      <4> HIDE DEF S, k
      <4> QED BY <2>2
    <3> QED BY <2>7, <3>1 DEF Kept
  <2>9. ASSUME n > 0
        PROVE  Continues(g, s.got[n])
    <3>1. k >= 1 /\ S[k].seq = s.got[n].seq /\ S[k].start = s.got[n].start /\ S[k].duration = s.got[n].duration
      BY <2>9 DEF Handed
    <3>2. k + 1 \in 2 .. Len(S) /\ (k + 1) - 1 = k
      <4> HIDE DEF S, k
      <4> QED BY <2>2, <3>1
    <3>3. Continues(S[k + 1], S[k])
      <4>1. Continues(S[k + 1], S[(k + 1) - 1]) BY <3>2 DEF Kept
      <4> HIDE DEF S, k
      <4> QED BY <3>2, <4>1
    <3> HIDE DEF S, k, n
    <3> QED BY <2>5, <3>1, <3>3 DEF Continues
  <2>10. Handed(r)
    <3>1. \A i \in 2 .. Len(G) : Continues(G[i], G[i - 1])
      <4> SUFFICES ASSUME NEW i \in 2 .. Len(G) PROVE Continues(G[i], G[i - 1])
        OBVIOUS
      <4>1. CASE i = n + 1
        <5>1. n > 0 /\ i - 1 = n /\ n \in 1 .. n
          <6> HIDE DEF n
          <6> QED BY <2>2, <2>6, <4>1
        <5>2. G[i] = g /\ G[i - 1] = s.got[n] BY <2>6, <4>1, <5>1
        <5> QED BY <2>9, <5>1, <5>2
      <4>2. CASE i # n + 1
        <5>1. i \in 2 .. n /\ i \in 1 .. n /\ i - 1 \in 1 .. n
          <6> HIDE DEF n
          <6> QED BY <2>2, <2>6, <4>2
        <5>2. G[i] = s.got[i] /\ G[i - 1] = s.got[i - 1] BY <2>6, <5>1
        <5> QED BY <5>1, <5>2 DEF Handed
      <4> QED BY <4>1, <4>2
    <3>2. \A i \in 1 .. Len(G) : G[i].seq \in Breaks => G[i].resetRemuxer
      <4> SUFFICES ASSUME NEW i \in 1 .. Len(G) PROVE G[i].seq \in Breaks => G[i].resetRemuxer
        OBVIOUS
      <4>1. i = n + 1 \/ i \in 1 .. n
        <5> HIDE DEF n
        <5> QED BY <2>2, <2>6
      <4>2. meta.seq \in Breaks => meta.resetRemuxer BY <2>2 DEF Kept
      <4>3. CASE i = n + 1
        <5> HIDE DEF meta
        <5> QED BY <2>5, <2>6, <4>2, <4>3
      <4>4. CASE i \in 1 .. n BY <2>6, <4>4 DEF Handed
      <4> QED BY <4>1, <4>3, <4>4
    <3>3. G[1].start = 0 /\ G[1].resetRemuxer
      <4>1. CASE n = 0
        <5>1. NextStart(s) = 0 BY <4>1 DEF Handed
        <5>2. meta.start = 0 BY <1>2, <5>1 DEF NextStart
        <5> HIDE DEF meta
        <5> QED BY <2>4, <2>5, <2>6, <4>1, <5>2
      <4>2. CASE n # 0
        <5>1. 1 \in 1 .. n BY <2>2, <4>2
        <5>2. G[1] = s.got[1] BY <2>6, <5>1
        <5> QED BY <4>2, <5>2 DEF Handed
      <4> QED BY <4>1, <4>2
    <3>4. Len(G) # 0 /\ k + 1 >= 1 /\ G[Len(G)] = g
      <4> HIDE DEF n, k
      <4> QED BY <2>2, <2>6
    <3> HIDE DEF k, S
    <3> QED BY <2>5, <2>6, <2>7, <3>1, <3>2, <3>3, <3>4 DEF Handed, meta
  <2> QED BY <2>1, <2>7, <2>8, <2>10 DEF Stands
<1> QED BY <1>1, <1>2

HlsIInv == SourceWindow /\ Kept(h) /\ Handed(h) /\ Stands(h)

\* What an action alters beside the playlist and the read position.
LEMMA SameSource ==
  ASSUME NEW s, NEW r, Kept(s), Handed(s), DOMAIN r = HlsFields,
         r.segments = s.segments, r.nextIndex = s.nextIndex, r.nextSeq = s.nextSeq, r.pos = s.pos,
         r.got = s.got, r.reset = s.reset
  PROVE  Kept(r) /\ Handed(r)
<1>1. Kept(r) BY DEF Kept
<1>2. NextStart(r) = NextStart(s) BY DEF NextStart
<1> QED BY <1>1, <1>2 DEF Handed

\* The source starts with nothing kept and a playlist inside its window.
LEMMA SourceInit == HlsInit => HlsIInv
<1> USE HlsNumbers
<1> SUFFICES ASSUME HlsInit PROVE HlsIInv
  OBVIOUS
<1>1. h = [at |-> "new", live |-> TRUE, ended |-> FALSE, segments |-> << >>, nextIndex |-> 0,
          nextSeq |-> -1, pos |-> 0, reset |-> TRUE, failures |-> 0, news |-> TRUE,
          variant |-> FALSE, got |-> << >>]
  BY DEF HlsInit
<1>2. PICK f \in 0 .. 1, l \in 0 .. MaxWindow - 1, e \in BOOLEAN, v \in BOOLEAN :
        srv = [first |-> f, last |-> l, ended |-> e, multi |-> v]
  BY DEF HlsInit
<1>3. SourceWindow BY <1>2 DEF SourceWindow
<1>4. DOMAIN h = HlsFields BY <1>1 DEF HlsFields
<1>5. Kept(h) /\ NextStart(h) = 0 BY <1>1, <1>4 DEF Kept, NextStart
<1>6. Handed(h) BY <1>1, <1>5 DEF Handed
<1>7. Stands(h)
  <2>1. h.at = "new" /\ h.ended = ~h.live /\ Len(h.segments) = 0 /\ h.nextIndex = 0
    BY <1>1
  <2> QED BY <2>1 DEF Stands
<1> QED BY <1>3, <1>5, <1>6, <1>7 DEF HlsIInv

\* Every step of the source and of the server; one case for each action.
LEMMA SourceStep ==
  ASSUME HlsIInv, HlsNext
  PROVE  HlsIInv'
<1> USE HlsNumbers DEF HlsIInv
<1>0. DOMAIN h = HlsFields /\ Len(h.segments) \in Nat BY DEF Kept
<1>1. CASE Next1
  <2>1. CASE h.at = "new"
    <3>1. h' = [h EXCEPT !.at = "init"] /\ srv' = srv BY <1>1, <2>1 DEF Next1
    <3> DEFINE r == [h EXCEPT !.at = "init"]
    <3>2. DOMAIN r = HlsFields /\ r.at = "init" /\ r.segments = h.segments /\ r.nextIndex = h.nextIndex
          /\ r.nextSeq = h.nextSeq /\ r.pos = h.pos /\ r.got = h.got /\ r.reset = h.reset /\ r.live = h.live
          /\ r.ended = h.ended
      BY <1>0 DEF HlsFields
    <3> HIDE DEF r
    <3>3. Kept(r) /\ Handed(r) /\ Stands(r) BY <2>1, <3>2, SameSource DEF Stands
    <3> QED BY <3>1, <3>3 DEF r, SourceWindow
  <2>2. CASE h.at # "new"
    <3>1. h' = Return(h) /\ srv' = srv BY <1>1, <2>2 DEF Next1
    <3>2. Kept(Return(h)) /\ Handed(Return(h)) /\ Stands(Return(h))
      BY ReturnKeeps DEF Stands
    <3> QED BY <3>1, <3>2 DEF SourceWindow
  <2> QED BY <2>1, <2>2
<1>2. CASE SleepOver
  <2> DEFINE z == IF h.at = "initRetry" THEN "init" ELSE "fetch"
  <2> DEFINE r == [h EXCEPT !.at = z]
  <2>1. h' = r /\ srv' = srv /\ h.at \in {"wait", "retry", "initRetry"}
    BY <1>2 DEF SleepOver
  <2>2. DOMAIN r = HlsFields /\ r.at = z /\ r.segments = h.segments /\ r.nextIndex = h.nextIndex
        /\ r.nextSeq = h.nextSeq /\ r.pos = h.pos /\ r.got = h.got /\ r.reset = h.reset /\ r.live = h.live
        /\ r.ended = h.ended
    BY <1>0 DEF HlsFields
  <2> HIDE DEF r
  <2>3. Kept(r) /\ Handed(r) /\ Stands(r) BY <2>1, <2>2, SameSource DEF Stands
  <2> QED BY <2>1, <2>3 DEF SourceWindow
<1>3. CASE Fetched
  <2>1. h.at \in {"init", "fetch"} /\ srv' = srv BY <1>3 DEF Fetched
  <2>2. CASE srv.multi /\ ~h.variant
    <3> DEFINE r == [h EXCEPT !.variant = TRUE]
    <3>1. h' = r BY <1>3, <2>2 DEF Fetched
    <3>2. DOMAIN r = HlsFields /\ r.at = h.at /\ r.segments = h.segments /\ r.nextIndex = h.nextIndex
          /\ r.nextSeq = h.nextSeq /\ r.pos = h.pos /\ r.got = h.got /\ r.reset = h.reset /\ r.live = h.live
          /\ r.ended = h.ended
      BY <1>0 DEF HlsFields
    <3> HIDE DEF r
    <3>3. Kept(r) /\ Handed(r) /\ Stands(r) BY <3>2, SameSource DEF Stands
    <3> QED BY <2>1, <3>1, <3>3 DEF SourceWindow
  <2>3. CASE ~(srv.multi /\ ~h.variant)
    <3> DEFINE r == [h EXCEPT !.failures = 0]
    <3> DEFINE s == Ingest(r, Playlist)
    <3> DEFINE b == IF h.at = "init" THEN Rebase(s) ELSE s
    <3>1. h' = Return(b) BY <1>3, <2>3 DEF Fetched
    <3>2. DOMAIN r = HlsFields /\ r.at = h.at /\ r.segments = h.segments /\ r.nextIndex = h.nextIndex
          /\ r.nextSeq = h.nextSeq /\ r.pos = h.pos /\ r.got = h.got /\ r.reset = h.reset /\ r.live = h.live
          /\ r.ended = h.ended
      BY <1>0 DEF HlsFields
    <3> HIDE DEF r
    <3>3. Kept(r) /\ Handed(r) BY <3>2, SameSource
    <3>4. r.nextIndex = Len(r.segments) /\ Len(r.segments) <= TrimAt + MaxWindow
      BY <2>1, <3>2 DEF Stands
    <3>5. /\ Kept(s) /\ Handed(s) /\ s.at = r.at /\ s.live = ~srv.ended /\ s.ended = srv.ended /\ s.got = r.got
          /\ s.live => Len(s.segments) <= TrimAt + MaxWindow
      BY <3>3, <3>4, IngestKeeps DEF SourceWindow
    <3>6. srv.ended \in BOOLEAN BY DEF SourceWindow
    <3> HIDE DEF s
    <3>7. h.at = "init" => Len(s.got) = 0
      <4> SUFFICES ASSUME h.at = "init" PROVE Len(s.got) = 0
        OBVIOUS
      <4>1. h.nextIndex = 0 BY DEF Stands
      <4> QED BY <3>2, <3>5, <4>1 DEF Handed
    <3>8. Kept(b) /\ Handed(b) /\ b.ended = ~b.live /\ (b.live => Len(b.segments) <= TrimAt + MaxWindow)
      <4>1. CASE h.at = "init"
        <5>1. Kept(Rebase(s)) /\ Handed(Rebase(s)) /\ Unaltered(Rebase(s), s)
              /\ Len(Rebase(s).segments) = Len(s.segments)
          BY <3>5, <3>7, <4>1, RebaseKeeps
        <5> QED BY <3>5, <3>6, <4>1, <5>1 DEF Unaltered
      <4>2. CASE h.at # "init" BY <3>5, <3>6, <4>2
      <4> QED BY <4>1, <4>2
    <3> HIDE DEF b
    <3>9. Kept(Return(b)) /\ Handed(Return(b)) /\ Stands(Return(b))
      BY <3>8, ReturnKeeps
    <3> QED BY <2>1, <3>1, <3>9 DEF SourceWindow
  <2> QED BY <2>2, <2>3
<1>4. CASE FetchFailed
  <2> DEFINE z == IF h.failures + 1 >= MAX_REFRESH_FAILURES THEN "failed"
                           ELSE IF h.at = "init" THEN "initRetry" ELSE "retry"
  <2> DEFINE r == [h EXCEPT !.failures = @ + 1, !.at = z]
  <2>1. h' = r /\ srv' = srv /\ h.at \in {"init", "fetch"} BY <1>4 DEF FetchFailed
  <2>2. z = "failed" \/ (z = "initRetry" /\ h.at = "init") \/ (z = "retry" /\ h.at # "init")
    OBVIOUS
  <2> HIDE DEF z
  <2>3. DOMAIN r = HlsFields /\ r.at = z /\ r.segments = h.segments /\ r.nextIndex = h.nextIndex
        /\ r.nextSeq = h.nextSeq /\ r.pos = h.pos /\ r.got = h.got /\ r.reset = h.reset /\ r.live = h.live
        /\ r.ended = h.ended
    BY <1>0 DEF HlsFields
  <2> HIDE DEF r
  <2>4. Kept(r) /\ Handed(r) /\ Stands(r) BY <2>1, <2>2, <2>3, SameSource DEF Stands
  <2> QED BY <2>1, <2>4 DEF SourceWindow
<1>5. CASE Publish \/ Finish
  <2>1. h' = h BY <1>5 DEF Publish, Finish
  <2>2. SourceWindow'
    <3>1. CASE Finish BY <3>1 DEF Finish, SourceWindow
    <3>2. CASE Publish
      <4> DEFINE f == IF srv.last + 1 - srv.first >= MaxWindow THEN srv.first + 1 ELSE srv.first
      <4>1. srv' = [srv EXCEPT !.last = srv.last + 1, !.first = f]
        BY <3>2 DEF Publish
      <4>2. f \in Nat /\ f <= srv.last + 2 /\ ((srv.last + 1) - f) + 1 <= MaxWindow
        BY DEF SourceWindow
      <4> HIDE DEF f
      <4>3. srv'.last = srv.last + 1 /\ srv'.first = f /\ srv'.ended = srv.ended
            /\ DOMAIN srv' = {"first", "last", "ended", "multi"}
        BY <4>1 DEF SourceWindow
      <4>4. srv.last \in Nat /\ srv.ended \in BOOLEAN BY DEF SourceWindow
      <4> QED BY <4>2, <4>3, <4>4 DEF SourceWindow
    <3> QED BY <1>5, <3>1, <3>2
  <2> QED BY <2>1, <2>2
<1> QED BY <1>1, <1>2, <1>3, <1>4, <1>5 DEF HlsNext

(* SourceIsContinuous, for every playlist window, discontinuity and trim   *)
(* limit: what HlsSource hands out is one timeline from 0, jumps are       *)
(* marked and forced by the playlist, and live history stays bounded.      *)
THEOREM HlsIsContinuous == HlsSpec => []SourceIsContinuous
<1>1. HlsInit => HlsIInv BY SourceInit
<1>2. HlsIInv /\ [HlsNext]_hlsVars => HlsIInv'
  <2>1. CASE HlsNext BY <2>1, SourceStep
  <2>2. CASE UNCHANGED hlsVars BY <2>2 DEF hlsVars, HlsIInv, SourceWindow
  <2> QED BY <2>1, <2>2
<1>3. HlsIInv => SourceIsContinuous
  <2> SUFFICES ASSUME HlsIInv PROVE SourceIsContinuous
    OBVIOUS
  <2>1. DOMAIN h.got = 1 .. Len(h.got) /\ Len(h.got) \in Nat
    BY DEF HlsIInv, Handed
  <2>2. OneTimeline
    <3> SUFFICES ASSUME NEW i \in 1 .. Len(h.got)
                 PROVE  LET g == h.got[i] IN
                        IF i = 1 THEN g.start = 0 /\ g.resetRemuxer
                        ELSE LET p == h.got[i - 1] IN
                             /\ g.start = p.start + p.duration
                             /\ g.seq > p.seq
                             /\ g.seq > p.seq + 1 => g.resetRemuxer /\ g.seen = g.seq
                             /\ g.seq \in Breaks => g.resetRemuxer
      BY <2>1 DEF OneTimeline
    <3>1. CASE i = 1
      <4>1. Len(h.got) # 0 BY <2>1
      <4> QED BY <3>1, <4>1 DEF HlsIInv, Handed
    <3>2. CASE i # 1
      <4>1. i \in 2 .. Len(h.got) BY <2>1, <3>2
      <4>2. Continues(h.got[i], h.got[i - 1]) /\ (h.got[i].seq \in Breaks => h.got[i].resetRemuxer)
        BY <4>1 DEF HlsIInv, Handed
      <4> QED BY <3>2, <4>2 DEF Continues
    <3> QED BY <3>1, <3>2
  <2>3. HistoryBounded
    <3>1. h.nextIndex <= Len(h.segments) BY DEF HlsIInv, Kept
    <3>2. h.live => Len(h.segments) <= TrimAt + MaxWindow BY DEF HlsIInv, Stands
    <3>3. h.got # << >> => h.segments[h.nextIndex].seq = h.got[Len(h.got)].seq
      <4> SUFFICES ASSUME h.got # << >> PROVE h.segments[h.nextIndex].seq = h.got[Len(h.got)].seq
        OBVIOUS
      <4>1. h.got \in Seq(Segment) BY DEF HlsIInv, Handed
      <4>2. Len(h.got) # 0 BY <4>1
      <4> QED BY <4>2 DEF HlsIInv, Handed
    <3> QED BY <3>1, <3>2, <3>3 DEF HistoryBounded
  <2> QED BY <2>2, <2>3 DEF SourceIsContinuous
<1> QED BY <1>1, <1>2, <1>3, PTL DEF HlsSpec

----------------------------------------------------------------------------
(* TsDemux                                                                 *)

\* What the demuxer holds and hands out.
Slices == [u : Nat, i : {0, 1}]
VideoItems ==
  [k : {"v"}, u : Nat, slices : Seq(Slices), key : BOOLEAN, cfg : Int, ts : Int, loss : Nat]
AudioItems == [k : {"a"}, head : Nat, tail : Nat, loss : Nat]
InitItems == [k : {"vinit", "ainit"}, cfg : Int]
Items == VideoItems \cup AudioItems \cup InitItems \cup [k : {"vdisc"}]

DemuxFields ==
  {"pat", "section", "pmt", "video", "audio", "cc", "pes", "sized", "vps", "sps", "pps", "details",
   "vInit", "aInit", "changed", "aMeta", "drop", "started", "carry", "unsynced", "vTrack", "aTrack",
   "pcr", "offset", "out"}
DemuxTyped(s) ==
  /\ DOMAIN s = DemuxFields
  /\ s.audio \in {"aac", "loas", "ac3", "eac3", "mp3"}
  /\ s.cc \in [Media -> Int] /\ s.pes \in [Media -> Seq(Slices)] /\ s.sized \in [Media -> Int]
  /\ s.carry \in Nat \cup {None} /\ s.details \in Int /\ s.pcr \in Nat \cup {None} /\ s.offset \in Int
  /\ {s.pmt, s.vInit, s.aInit, s.drop, s.started} \subseteq BOOLEAN
  /\ s.vTrack \in Seq(VideoItems) /\ s.aTrack \in Seq(AudioItems) /\ s.out \in Seq(Items)

\* A whole sample at its true time, the wraps that passed before apart; base is
\* when the sender started.
Whole(o, base, passed) ==
  /\ o.k = "v" => /\ o.slices = <<[u |-> o.u, i |-> 0], [u |-> o.u, i |-> 1]>>
                  /\ o.ts = base + o.u + Delay - passed * WRAP
  /\ o.k = "a" => o.tail = o.head + 1

\* Losses of video announced in q.
Announced(q) == Cardinality({i \in DOMAIN q : q[i].k = "vdisc"})

\* Every sample of q is collected after the losses announced before it, and the
\* first of video after a loss is a keyframe.
Resumes(q) ==
  \A i \in DOMAIN q : q[i].k \in {"v", "a"} =>
    /\ q[i].loss = Cardinality({j \in 1 .. i - 1 : q[j].k = "vdisc"})
    /\ (q[i].k = "v" /\ {j \in 1 .. i - 1 : q[j].k = "v" /\ q[j].loss = q[i].loss} = {}) => q[i].key

\* Video was handed out since the last loss.
Shown(q) == \E i \in DOMAIN q : q[i].k = "v" /\ q[i].loss = Announced(q)

\* What was handed out and what is collected.
OutputSound(s, base, passed) ==
  /\ Resumes(s.out)
  /\ \A i \in DOMAIN s.out : Whole(s.out[i], base, passed)
  /\ \A i \in DOMAIN s.vTrack : Whole(s.vTrack[i], base, passed) /\ s.vTrack[i].loss = Announced(s.out)
  /\ \A i \in DOMAIN s.aTrack : Whole(s.aTrack[i], base, passed) /\ s.aTrack[i].loss = Announced(s.out)
  /\ s.vTrack # << >> => s.vTrack[1].key \/ Shown(s.out)
  /\ s.started /\ ~s.drop => s.vTrack # << >> \/ Shown(s.out)

\* The half frame that waits for the next payload.
CarrySound(s) == s.carry # None => s.started /\ s.vInit /\ s.audio # "mp3"

\* The packet l of stream m is the last one that was parsed (None after a
\* boundary); the slices that wait are those of its unit up to it.
Queued(m, l) ==
  {<< >>} \cup (IF l = None THEN {}
                ELSE IF l % 2 = 0 THEN {<<[u |-> l \div 2, i |-> 0]>>}
                ELSE IF m = "video" THEN {<<[u |-> l \div 2, i |-> 0], [u |-> l \div 2, i |-> 1]>>}
                ELSE {})
TrackSound(s, n, m, l) ==
  /\ s.cc[m] = IF l = None THEN None ELSE l % CC
  /\ l < n.next[m] /\ (l # None => n.next[m] = l + 1 + n.gap[m])
  /\ s.pes[m] \in Queued(m, l)
  /\ s.sized[m] = IF s.pes[m] = << >> THEN None ELSE IF m = "video" THEN 0 ELSE 2

\* The unit after the half frame is the next one.
FollowsCarry(s, n, l) ==
  s.carry # None =>
    \/ l = None /\ n.hls /\ n.next["audio"] = 2 * s.carry + 2
    \/ l = 2 * s.carry + 1
    \/ l = 2 * s.carry + 2 /\ s.pes["audio"] # << >>

\* The clock follows the sender's, p being the unit whose PCR was read last.
ClockAt(s, base, p, passed) ==
  /\ s.pcr \in Nat /\ s.pcr = base + p - passed * WRAP
  /\ s.offset = s.pcr - ((base + p) % WRAP)
ClockSound(s, n, p, passed) ==
  /\ ClockAt(s, n.start, p, passed)
  /\ 2 * p < n.next["video"] /\ n.next["video"] <= 2 * (p + 1 + n.lost)
NoClock(s) ==
  /\ s.pcr = None /\ s.offset = 0 /\ s.pes["video"] = << >>
  /\ s.vTrack = << >> /\ \A i \in DOMAIN s.out : s.out[i].k # "v"

NetTyped(n) ==
  /\ DOMAIN n = {"next", "gap", "start", "lost", "cuts", "open", "hls"}
  /\ n.next \in [Media -> Nat] /\ \A m \in Media : n.next[m] <= 2 * TsUnits
  /\ n.gap \in [Media -> 0 .. MaxInRow]
  /\ n.start \in Nat /\ n.start <= WRAP /\ n.lost \in 0 .. MaxLost
  /\ n.hls \in BOOLEAN /\ (n.hls => n.lost = 0 /\ \A m \in Media : n.gap[m] = 0)

\* Before the PMT no packet of a stream is parsed.
BeforePMT(s) == NoClock(s) /\ s.carry = None /\ \A m \in Media : s.cc[m] = None

DemuxSound(s, n) ==
  /\ DemuxTyped(s) /\ NetTyped(n) /\ CarrySound(s)
  /\ \E l \in [Media -> Nat \cup {None}] :
       (\A m \in Media : TrackSound(s, n, m, l[m])) /\ FollowsCarry(s, n, l["audio"])
  /\ \E passed \in Nat :
       /\ OutputSound(s, n.start, passed)
       /\ NoClock(s) \/ \E p \in Nat : ClockSound(s, n, p, passed)
  /\ s.pmt \/ BeforePMT(s)

LEMMA TsFacts ==
  /\ CC \in Nat /\ WRAP \in Nat /\ Delay \in Nat /\ TsUnits \in Nat /\ MaxLost \in Nat
  /\ MaxInRow \in Nat /\ CC > 1 /\ WRAP > 2 /\ Delay > 0 /\ TsUnits > 0 /\ MaxInRow + 1 < CC
  /\ 2 * Delay < WRAP /\ 2 * (MaxLost + 1) < WRAP
BY TsAssumption

\* How many units up to u change a configuration is a number.
LEMMA ChangesUpTo ==
  ASSUME NEW S \in SUBSET Nat, NEW u \in Nat
  PROVE  Cardinality({c \in S : c <= u}) \in Nat
<1>1. {c \in S : c <= u} \subseteq 0 .. u
  <2>1. ASSUME NEW c \in S, c <= u
        PROVE  c \in 0 .. u
    BY <2>1
  <2> QED BY <2>1
<1>2. IsFiniteSet(0 .. u) BY FS_Interval
<1> QED BY <1>1, <1>2, FS_Subset, FS_CardinalityType

LEMMA ConfigIsNatural == \A u \in Nat : Config(u) \in Nat /\ AudioConfig(u) \in Nat
BY ChangesUpTo, TsAssumption DEF Config, AudioConfig

LEMMA AnnouncedIsNatural ==
  ASSUME NEW q \in Seq(Items)
  PROVE  Announced(q) \in Nat
<1>1. {i \in DOMAIN q : q[i].k = "vdisc"} \subseteq 1 .. Len(q) /\ Len(q) \in Nat
  OBVIOUS
<1>2. IsFiniteSet(1 .. Len(q)) BY <1>1, FS_Interval
<1> QED BY <1>1, <1>2, FS_Subset, FS_CardinalityType DEF Announced

\* Collected samples follow what was handed out.
LEMMA SamplesFollow ==
  ASSUME NEW q \in Seq(Items), NEW t \in Seq(Items), Resumes(q),
         \A i \in DOMAIN t : t[i].k \in {"v", "a"} /\ t[i].loss = Announced(q),
         \A i \in DOMAIN t : t[i].k = "v" => t[i].key \/ Shown(q) \/ \E j \in 1 .. i - 1 : t[j].k = "v"
  PROVE  /\ q \o t \in Seq(Items) /\ Resumes(q \o t) /\ Announced(q \o t) = Announced(q)
         /\ Shown(q) => Shown(q \o t)
         /\ (\E i \in DOMAIN t : t[i].k = "v") => Shown(q \o t)
<1> DEFINE r == q \o t
<1>1. /\ r \in Seq(Items) /\ DOMAIN r = 1 .. Len(q) + Len(t) /\ DOMAIN q = 1 .. Len(q) /\ DOMAIN t = 1 .. Len(t)
      /\ \A i \in 1 .. Len(q) : r[i] = q[i]
      /\ \A i \in 1 .. Len(t) : r[Len(q) + i] = t[i]
      /\ Len(q) \in Nat /\ Len(t) \in Nat
  OBVIOUS
<1>2. \A i \in Len(q) + 1 .. Len(q) + Len(t) : i - Len(q) \in 1 .. Len(t) /\ r[i] = t[i - Len(q)]
  BY <1>1
<1> HIDE DEF r
<1>3. {i \in DOMAIN r : r[i].k = "vdisc"} = {i \in DOMAIN q : q[i].k = "vdisc"}
  <2>1. ASSUME NEW i \in DOMAIN r, r[i].k = "vdisc"
        PROVE  i \in DOMAIN q /\ q[i].k = "vdisc"
    <3>1. CASE i \in 1 .. Len(q) BY <2>1, <3>1, <1>1
    <3>2. CASE i \in Len(q) + 1 .. Len(q) + Len(t) BY <2>1, <3>2, <1>1, <1>2
    <3> QED BY <1>1, <3>1, <3>2
  <2>2. ASSUME NEW i \in DOMAIN q
        PROVE  i \in DOMAIN r /\ r[i] = q[i]
    BY <1>1
  <2> QED BY <2>1, <2>2
<1>4. Announced(r) = Announced(q) BY <1>3 DEF Announced
<1>5. ASSUME NEW i \in DOMAIN r, r[i].k \in {"v", "a"}
      PROVE  /\ r[i].loss = Cardinality({j \in 1 .. i - 1 : r[j].k = "vdisc"})
             /\ (r[i].k = "v" /\ {j \in 1 .. i - 1 : r[j].k = "v" /\ r[j].loss = r[i].loss} = {}) => r[i].key
  <2>1. CASE i \in 1 .. Len(q)
    <3>1. \A j \in 1 .. i - 1 : j \in 1 .. Len(q) /\ r[j] = q[j]
      BY <1>1, <2>1
    <3>2. /\ {j \in 1 .. i - 1 : r[j].k = "vdisc"} = {j \in 1 .. i - 1 : q[j].k = "vdisc"}
          /\ {j \in 1 .. i - 1 : r[j].k = "v" /\ r[j].loss = r[i].loss}
               = {j \in 1 .. i - 1 : q[j].k = "v" /\ q[j].loss = r[i].loss}
      BY <3>1
    <3>3. i \in DOMAIN q /\ r[i] = q[i] BY <1>1, <2>1
    <3> QED BY <1>5, <3>2, <3>3 DEF Resumes
  <2>2. CASE i \in Len(q) + 1 .. Len(q) + Len(t)
    <3> DEFINE n == i - Len(q)
    <3>1. n \in 1 .. Len(t) /\ r[i] = t[n] /\ i = Len(q) + n BY <1>1, <1>2, <2>2
    <3>2. {j \in 1 .. i - 1 : r[j].k = "vdisc"} = {j \in DOMAIN q : q[j].k = "vdisc"}
      <4>1. ASSUME NEW j \in 1 .. i - 1
            PROVE  j \in DOMAIN r
        BY <1>1, <2>2
      <4>2. \A j \in DOMAIN q : j \in 1 .. i - 1 BY <1>1, <2>2
      <4> QED BY <1>3, <4>1, <4>2
    <3>3. r[i].loss = Announced(q) BY <3>1, <1>1
    <3>4. ASSUME r[i].k = "v", {j \in 1 .. i - 1 : r[j].k = "v" /\ r[j].loss = r[i].loss} = {}
          PROVE  r[i].key
      <4>1. ~Shown(q)
        <5>1. SUFFICES ASSUME NEW j \in DOMAIN q, q[j].k = "v", q[j].loss = Announced(q)
                       PROVE  FALSE
          BY DEF Shown
        <5>2. j \in 1 .. i - 1 /\ r[j] = q[j] BY <1>1, <2>2
        <5> QED BY <3>3, <3>4, <5>1, <5>2
      <4>2. ~ \E j \in 1 .. n - 1 : t[j].k = "v"
        <5>1. SUFFICES ASSUME NEW j \in 1 .. n - 1, t[j].k = "v"
                       PROVE  FALSE
          OBVIOUS
        <5>2. Len(q) + j \in 1 .. i - 1 /\ r[Len(q) + j] = t[j] /\ j \in DOMAIN t
          BY <1>1, <3>1
        <5>3. t[j].loss = Announced(q) BY <5>2
        <5> QED BY <3>3, <3>4, <5>1, <5>2, <5>3
      <4>3. n \in DOMAIN t BY <3>1, <1>1
      <4> HIDE DEF n
      <4> QED BY <3>1, <3>4, <4>1, <4>2, <4>3
    <3> QED BY <3>2, <3>3, <3>4 DEF Announced
  <2> QED BY <1>1, <2>1, <2>2
<1>6. Resumes(r) BY <1>5 DEF Resumes
<1>7. ASSUME Shown(q)
      PROVE  Shown(r)
  BY <1>7, <1>4, <1>1 DEF Shown
<1>8. ASSUME NEW i \in DOMAIN t, t[i].k = "v"
      PROVE  Shown(r)
  <2>1. Len(q) + i \in DOMAIN r /\ r[Len(q) + i] = t[i] BY <1>1
  <2> QED BY <1>4, <1>8, <2>1 DEF Shown
<1> QED BY <1>1, <1>4, <1>6, <1>7, <1>8 DEF r

\* So does the announcement of an init segment or of a loss.
LEMMA NoticeFollows ==
  ASSUME NEW q \in Seq(Items), Resumes(q), NEW e \in Items, e.k \in {"vinit", "ainit", "vdisc"}
  PROVE  LET r == Append(q, e) IN
         /\ r \in Seq(Items) /\ Resumes(r)
         /\ e.k # "vdisc" => Announced(r) = Announced(q) /\ (Shown(q) => Shown(r))
<1> DEFINE r == Append(q, e)
<1>1. /\ r \in Seq(Items) /\ DOMAIN r = 1 .. Len(q) + 1 /\ DOMAIN q = 1 .. Len(q) /\ Len(q) \in Nat
      /\ \A i \in 1 .. Len(q) : r[i] = q[i]
      /\ r[Len(q) + 1] = e
  OBVIOUS
<1> HIDE DEF r
<1>2. ASSUME NEW i \in DOMAIN r, r[i].k \in {"v", "a"}
      PROVE  /\ r[i].loss = Cardinality({j \in 1 .. i - 1 : r[j].k = "vdisc"})
             /\ (r[i].k = "v" /\ {j \in 1 .. i - 1 : r[j].k = "v" /\ r[j].loss = r[i].loss} = {}) => r[i].key
  <2>1. i \in 1 .. Len(q)
    <3>1. i # Len(q) + 1 BY <1>1, <1>2
    <3> QED BY <1>1, <3>1
  <2>2. \A j \in 1 .. i - 1 : j \in 1 .. Len(q) /\ r[j] = q[j]
    BY <1>1, <2>1
  <2>3. /\ {j \in 1 .. i - 1 : r[j].k = "vdisc"} = {j \in 1 .. i - 1 : q[j].k = "vdisc"}
        /\ {j \in 1 .. i - 1 : r[j].k = "v" /\ r[j].loss = r[i].loss}
             = {j \in 1 .. i - 1 : q[j].k = "v" /\ q[j].loss = r[i].loss}
    BY <2>2
  <2>4. i \in DOMAIN q /\ r[i] = q[i] BY <1>1, <2>1
  <2> QED BY <1>2, <2>3, <2>4 DEF Resumes
<1>3. ASSUME e.k # "vdisc"
      PROVE  Announced(r) = Announced(q)
  <2>1. {i \in DOMAIN r : r[i].k = "vdisc"} = {i \in DOMAIN q : q[i].k = "vdisc"}
    BY <1>1, <1>3
  <2> QED BY <2>1 DEF Announced
<1>4. ASSUME e.k # "vdisc", Shown(q)
      PROVE  Shown(r)
  BY <1>1, <1>3, <1>4 DEF Shown
<1> QED BY <1>1, <1>2, <1>3, <1>4 DEF Resumes, r

\* No video was collected yet.
NoVideo(s) == s.vTrack = << >> /\ \A i \in DOMAIN s.out : s.out[i].k # "v"

\* A step of a parser that concerns what is collected and handed out only.
Collects(r, s) ==
  /\ DemuxTyped(r)
  /\ r.pmt = s.pmt /\ r.audio = s.audio /\ r.cc = s.cc /\ r.pes = s.pes /\ r.sized = s.sized
  /\ r.pcr = s.pcr /\ r.offset = s.offset /\ (s.vInit => r.vInit)

LEMMA EmitsSound ==
  ASSUME NEW s, DemuxTyped(s), NEW base, NEW passed, OutputSound(s, base, passed),
         NEW video \in BOOLEAN, NEW audio \in BOOLEAN
  PROVE  LET r == Emits(s, video, audio) IN
         /\ Collects(r, s) /\ OutputSound(r, base, passed) /\ Announced(r.out) = Announced(s.out)
         /\ r.carry = s.carry /\ r.drop = s.drop /\ r.started = s.started /\ r.details = s.details
         /\ r.vInit = s.vInit /\ r.aInit = s.aInit
         /\ NoVideo(s) => NoVideo(r)
         /\ (r.vTrack = s.vTrack \/ r.vTrack = << >>) /\ (r.aTrack = s.aTrack \/ r.aTrack = << >>)
<1> DEFINE V == IF video THEN s.vTrack ELSE << >>
           A == IF audio THEN s.aTrack ELSE << >>
           r == [s EXCEPT !.out = @ \o V \o A, !.vTrack = IF video THEN << >> ELSE @,
                          !.aTrack = IF audio THEN << >> ELSE @]
           p == s.out \o V
           q == p \o A
<1>0. CASE Emits(s, video, audio) = s BY <1>0 DEF Collects
<1>1. /\ s.out \in Seq(Items) /\ V \in Seq(Items) /\ A \in Seq(Items)
      /\ V \in Seq(VideoItems) /\ A \in Seq(AudioItems)
  <2>1. s.out \in Seq(Items) /\ s.vTrack \in Seq(VideoItems) /\ s.aTrack \in Seq(AudioItems)
    BY DEF DemuxTyped
  <2>2. V \in Seq(VideoItems) /\ A \in Seq(AudioItems) BY <2>1
  <2>3. VideoItems \subseteq Items /\ AudioItems \subseteq Items
    BY DEF Items
  <2> QED BY <2>1, <2>2, <2>3
<1>2. /\ p \in Seq(Items) /\ Resumes(p) /\ Announced(p) = Announced(s.out)
      /\ Shown(s.out) => Shown(p)
      /\ (\E i \in DOMAIN V : V[i].k = "v") => Shown(p)
  <2>1. ASSUME NEW i \in DOMAIN V
        PROVE  V[i].k = "v" /\ V[i].loss = Announced(s.out) /\ (V[i].key \/ Shown(s.out) \/ \E j \in 1 .. i - 1 : V[j].k = "v")
    <3>1. video /\ V = s.vTrack BY <2>1
    <3>2. V[i] \in VideoItems /\ 1 \in DOMAIN V /\ V[1] \in VideoItems /\ i \in Nat /\ i >= 1 /\ V # << >>
      BY <1>1
    <3>3. V[i].k = "v" /\ V[1].k = "v" BY <3>2 DEF VideoItems
    <3>4. V[i].loss = Announced(s.out) /\ (V[1].key \/ Shown(s.out))
      BY <3>1, <3>2, <2>1 DEF OutputSound
    <3>5. i # 1 => 1 \in 1 .. i - 1 BY <3>2
    <3> HIDE DEF V
    <3> QED BY <3>3, <3>4, <3>5
  <2>2. Resumes(s.out) BY DEF OutputSound
  <2> HIDE DEF V
  <2> QED BY <2>1, <2>2, <1>1, SamplesFollow
<1>3. /\ q \in Seq(Items) /\ Resumes(q) /\ Announced(q) = Announced(s.out)
      /\ Shown(p) => Shown(q)
  <2>1. ASSUME NEW i \in DOMAIN A
        PROVE  A[i].k = "a" /\ A[i].loss = Announced(p)
    <3>1. audio /\ A = s.aTrack BY <2>1
    <3>2. A[i] \in AudioItems BY <1>1
    <3>3. A[i].loss = Announced(s.out) BY <3>1, <2>1 DEF OutputSound
    <3> QED BY <3>2, <3>3, <1>2 DEF AudioItems
  <2> HIDE DEF A, p
  <2> QED BY <2>1, <1>1, <1>2, SamplesFollow
<1>4. CASE Emits(s, video, audio) = r
  <2>1. /\ r.out = q /\ r.vTrack = IF video THEN << >> ELSE s.vTrack
        /\ r.aTrack = IF audio THEN << >> ELSE s.aTrack
    BY DEF DemuxTyped, DemuxFields
  <2>2. Collects(r, s)
    <3>1. r.vTrack \in Seq(VideoItems) /\ r.aTrack \in Seq(AudioItems)
      BY <2>1 DEF DemuxTyped
    <3>2. DOMAIN r = DemuxFields /\ r.out \in Seq(Items) BY <1>3, <2>1 DEF DemuxTyped
    <3>3. \A f \in DemuxFields \ {"out", "vTrack", "aTrack"} : r[f] = s[f]
      BY DEF DemuxTyped
    <3> HIDE DEF r, q
    <3> QED BY <3>1, <3>2, <3>3 DEF Collects, DemuxTyped, DemuxFields
  <2>3. r.carry = s.carry /\ r.drop = s.drop /\ r.started = s.started /\ r.details = s.details
        /\ r.vInit = s.vInit /\ r.aInit = s.aInit
    BY DEF DemuxTyped, DemuxFields
  <2>4. ASSUME NEW i \in DOMAIN q
        PROVE  \/ i \in DOMAIN s.out /\ q[i] = s.out[i]
               \/ \E j \in DOMAIN s.vTrack : q[i] = s.vTrack[j]
               \/ \E j \in DOMAIN s.aTrack : q[i] = s.aTrack[j]
    <3>1. \/ i \in DOMAIN p /\ q[i] = p[i]
          \/ i - Len(p) \in DOMAIN A /\ q[i] = A[i - Len(p)]
      <4> HIDE DEF A, p
      <4> QED BY <1>1, <1>2
    <3>2. i \in DOMAIN p => \/ i \in DOMAIN s.out /\ p[i] = s.out[i]
                            \/ i - Len(s.out) \in DOMAIN V /\ p[i] = V[i - Len(s.out)]
      <4> HIDE DEF V
      <4> QED BY <1>1
    <3>3. \A j : j \in DOMAIN V => j \in DOMAIN s.vTrack /\ V[j] = s.vTrack[j]
      OBVIOUS
    <3>4. \A j : j \in DOMAIN A => j \in DOMAIN s.aTrack /\ A[j] = s.aTrack[j]
      OBVIOUS
    <3> HIDE DEF A, V, p, q
    <3> QED BY <3>1, <3>2, <3>3, <3>4
  <2>5. \A i \in DOMAIN q : Whole(q[i], base, passed)
    <3> HIDE DEF q
    <3> QED BY <2>4 DEF OutputSound
  <2>6. s.vTrack # << >> => V = << >> \/ Shown(p)
    <3>1. ASSUME s.vTrack # << >>, video
          PROVE  Shown(p)
      <4>1. 1 \in DOMAIN V /\ V[1] \in VideoItems BY <3>1, <1>1
      <4>2. V[1].k = "v" BY <4>1 DEF VideoItems
      <4> HIDE DEF V, p
      <4> QED BY <4>1, <4>2, <1>2
    <3> HIDE DEF p
    <3> QED BY <3>1
  <2>7. OutputSound(r, base, passed)
    <3>1. r.vTrack # << >> => r.vTrack = s.vTrack /\ (r.vTrack[1].key \/ Shown(q))
      <4> HIDE DEF r, q, p
      <4> QED BY <2>1, <1>2, <1>3 DEF OutputSound
    <3>2. r.started /\ ~r.drop => r.vTrack # << >> \/ Shown(q)
      <4>1. s.vTrack # << >> /\ video => Shown(p)
        <5> HIDE DEF p
        <5> QED BY <2>6
      <4> HIDE DEF r, q, p
      <4> QED BY <2>1, <2>3, <4>1, <1>2, <1>3 DEF OutputSound
    <3>3. \A i \in DOMAIN r.vTrack : Whole(r.vTrack[i], base, passed) /\ r.vTrack[i].loss = Announced(q)
      <4> HIDE DEF r, q, p
      <4> QED BY <2>1, <1>3 DEF OutputSound
    <3>4. \A i \in DOMAIN r.aTrack : Whole(r.aTrack[i], base, passed) /\ r.aTrack[i].loss = Announced(q)
      <4> HIDE DEF r, q, p
      <4> QED BY <2>1, <1>3 DEF OutputSound
    <3> HIDE DEF r, q, p
    <3> QED BY <2>1, <2>5, <1>3, <3>1, <3>2, <3>3, <3>4 DEF OutputSound
  <2>8. ASSUME NoVideo(s)
        PROVE  NoVideo(r)
    <3>1. r.vTrack = << >> BY <2>8, <2>1 DEF NoVideo
    <3>2. ASSUME NEW i \in DOMAIN q
          PROVE  q[i].k # "v"
      <4>1. \A j \in DOMAIN s.aTrack : s.aTrack[j].k = "a"
        <5>1. \A j \in DOMAIN s.aTrack : s.aTrack[j] \in AudioItems
          BY DEF DemuxTyped
        <5> QED BY <5>1 DEF AudioItems
      <4>2. DOMAIN s.vTrack = {} BY <2>8 DEF NoVideo
      <4> HIDE DEF q
      <4> QED BY <2>8, <3>2, <2>4, <4>1, <4>2 DEF NoVideo
    <3> HIDE DEF r, q
    <3> QED BY <2>1, <3>1, <3>2 DEF NoVideo
  <2>9. (r.vTrack = s.vTrack \/ r.vTrack = << >>) /\ (r.aTrack = s.aTrack \/ r.aTrack = << >>)
    BY <2>1
  <2>10. Announced(r.out) = Announced(s.out) BY <2>1, <1>3
  <2> HIDE DEF r
  <2> QED BY <1>4, <2>2, <2>3, <2>7, <2>8, <2>9, <2>10
<1>5. Emits(s, video, audio) = s \/ Emits(s, video, audio) = r
  BY DEF Emits
<1> QED BY <1>0, <1>4, <1>5

\* A step that hands out or announces, and neither collects nor drops.
Steady(r, s, base, passed) ==
  /\ Collects(r, s) /\ OutputSound(r, base, passed) /\ Announced(r.out) = Announced(s.out)
  /\ r.carry = s.carry /\ r.drop = s.drop /\ r.started = s.started
  /\ NoVideo(s) => NoVideo(r)

LEMMA SteadySteps ==
  ASSUME NEW q, NEW r, NEW s, NEW base, NEW passed, Steady(q, r, base, passed), Steady(r, s, base, passed)
  PROVE  Steady(q, s, base, passed)
BY DEF Steady, Collects

LEMMA EmitsSteady ==
  ASSUME NEW s, DemuxTyped(s), NEW base, NEW passed, OutputSound(s, base, passed),
         NEW video \in BOOLEAN, NEW audio \in BOOLEAN
  PROVE  Steady(Emits(s, video, audio), s, base, passed)
BY EmitsSound DEF Steady

\* Fields that no sample depends on.
LEMMA OtherFields ==
  ASSUME NEW s, DemuxTyped(s), NEW base, NEW passed, OutputSound(s, base, passed),
         NEW r, DOMAIN r = DemuxFields, r.details \in Int, r.aInit \in BOOLEAN, r.vInit \in BOOLEAN, s.vInit => r.vInit,
         \A f \in DemuxFields \ {"details", "vps", "sps", "pps", "changed", "aMeta", "unsynced", "vInit", "aInit"} :
           r[f] = s[f]
  PROVE  Steady(r, s, base, passed)
<1>1. /\ r.pmt = s.pmt /\ r.audio = s.audio /\ r.cc = s.cc /\ r.pes = s.pes /\ r.sized = s.sized
      /\ r.pcr = s.pcr /\ r.offset = s.offset /\ r.carry = s.carry /\ r.drop = s.drop /\ r.started = s.started
      /\ r.out = s.out /\ r.vTrack = s.vTrack /\ r.aTrack = s.aTrack
  BY DEF DemuxFields
<1>2. DemuxTyped(r) BY <1>1 DEF DemuxTyped
<1>3. OutputSound(r, base, passed) BY <1>1 DEF OutputSound
<1>4. NoVideo(s) => NoVideo(r) BY <1>1 DEF NoVideo
<1> QED BY <1>1, <1>2, <1>3, <1>4 DEF Steady, Collects

\* The announcement of an init segment.
LEMMA InitSegmentSteady ==
  ASSUME NEW s, DemuxTyped(s), NEW base, NEW passed, OutputSound(s, base, passed),
         NEW e \in InitItems,
         NEW r, DOMAIN r = DemuxFields, r.out = Append(s.out, e),
         r.aInit \in BOOLEAN, r.vInit \in BOOLEAN, s.vInit => r.vInit,
         \A f \in DemuxFields \ {"out", "changed", "aMeta", "vInit", "aInit"} : r[f] = s[f]
  PROVE  Steady(r, s, base, passed)
<1>1. /\ r.pmt = s.pmt /\ r.audio = s.audio /\ r.cc = s.cc /\ r.pes = s.pes /\ r.sized = s.sized
      /\ r.pcr = s.pcr /\ r.offset = s.offset /\ r.carry = s.carry /\ r.drop = s.drop /\ r.started = s.started
      /\ r.vTrack = s.vTrack /\ r.aTrack = s.aTrack /\ r.details = s.details
  BY DEF DemuxFields
<1>2. e \in Items /\ e.k \in {"vinit", "ainit"} BY DEF Items, InitItems
<1>3. s.out \in Seq(Items) /\ Resumes(s.out) BY DEF DemuxTyped, OutputSound
<1>4. /\ r.out \in Seq(Items) /\ Resumes(r.out) /\ Announced(r.out) = Announced(s.out)
      /\ Shown(s.out) => Shown(r.out)
  BY <1>2, <1>3, NoticeFollows
<1>5. DemuxTyped(r) BY <1>1, <1>4 DEF DemuxTyped
<1>6. \A i \in DOMAIN r.out : (i \in DOMAIN s.out /\ r.out[i] = s.out[i]) \/ r.out[i] = e
  BY <1>2, <1>3
<1>7. \A i \in DOMAIN r.out : Whole(r.out[i], base, passed)
  <2>1. Whole(e, base, passed) BY <1>2 DEF Whole
  <2> QED BY <1>6, <2>1 DEF OutputSound
<1>8. OutputSound(r, base, passed) BY <1>1, <1>4, <1>7 DEF OutputSound
<1>9. NoVideo(s) => NoVideo(r) BY <1>1, <1>2, <1>6 DEF NoVideo
<1> QED BY <1>1, <1>4, <1>5, <1>8, <1>9 DEF Steady, Collects

\* StoreVpsAndSps and StorePps: a keyframe's parameter sets.
LEMMA ParameterSetsSteady ==
  ASSUME NEW s, DemuxTyped(s), NEW base, NEW passed, OutputSound(s, base, passed), NEW cfg \in Int
  PROVE  Steady(StorePps(StoreVpsAndSps(s, cfg), cfg), s, base, passed)
<1> DEFINE r == StoreVpsAndSps(s, cfg)
           t == [r EXCEPT !.pps = cfg]
           d == IF r.changed THEN DispatchVideoMediaSegment(t) ELSE t
<1>0. DOMAIN s = DemuxFields /\ s.vInit \in BOOLEAN /\ s.aInit \in BOOLEAN /\ s.details \in Int
  BY DEF DemuxTyped
<1>1. Steady(r, s, base, passed)
  <2>1. DOMAIN r = DemuxFields BY <1>0 DEF StoreVpsAndSps
  <2>2. r.details \in Int /\ r.vInit = s.vInit /\ r.aInit = s.aInit
    BY <1>0 DEF StoreVpsAndSps, DemuxFields
  <2>3. \A f \in DemuxFields \ {"details", "vps", "sps", "pps", "changed", "aMeta", "unsynced", "vInit", "aInit"} :
           r[f] = s[f]
    BY <1>0 DEF StoreVpsAndSps
  <2> HIDE DEF r
  <2> QED BY <1>0, <2>1, <2>2, <2>3, OtherFields
<1> HIDE DEF r
<1>2. DemuxTyped(r) /\ OutputSound(r, base, passed) /\ DOMAIN r = DemuxFields
      /\ r.vInit \in BOOLEAN /\ r.aInit \in BOOLEAN /\ r.details \in Int
  BY <1>1 DEF Steady, Collects, DemuxTyped
<1>3. Steady(t, r, base, passed)
  <2>1. DOMAIN t = DemuxFields /\ t.details \in Int /\ t.vInit = r.vInit /\ t.aInit = r.aInit
    BY <1>2 DEF DemuxFields
  <2>2. \A f \in DemuxFields \ {"details", "vps", "sps", "pps", "changed", "aMeta", "unsynced", "vInit", "aInit"} :
           t[f] = r[f]
    BY <1>2
  <2> HIDE DEF t
  <2> QED BY <1>2, <2>1, <2>2, OtherFields
<1>4. DemuxTyped(t) /\ OutputSound(t, base, passed) /\ t.changed = r.changed
  <2>1. t.changed = r.changed BY <1>2 DEF DemuxFields
  <2> QED BY <1>3, <2>1 DEF Steady, Collects
<1>5. Steady(d, t, base, passed)
  <2>1. Steady(t, t, base, passed) BY <1>4 DEF Steady, Collects
  <2> HIDE DEF t
  <2> QED BY <1>4, <2>1, EmitsSteady DEF DispatchVideoMediaSegment
<1>6. DemuxTyped(d) /\ OutputSound(d, base, passed) BY <1>5 DEF Steady, Collects
<1>7. Steady(d, s, base, passed) /\ Steady(t, s, base, passed)
  <2> HIDE DEF d, t
  <2> QED BY <1>1, <1>3, <1>5, SteadySteps
<1>8. Steady(DispatchVideoInitSegment(d), d, base, passed)
  <2> HIDE DEF d
  <2> DEFINE e == [k |-> "vinit", cfg |-> d.details]
             w == DispatchVideoInitSegment(d)
  <2>1. DOMAIN d = DemuxFields /\ d.details \in Int /\ d.aInit \in BOOLEAN
    BY <1>6 DEF DemuxTyped
  <2>2. e \in InitItems BY <2>1 DEF InitItems
  <2>3. DOMAIN w = DemuxFields /\ w.out = Append(d.out, e) /\ w.aInit = d.aInit /\ w.vInit = TRUE
    BY <2>1 DEF DispatchVideoInitSegment, DemuxFields
  <2>4. \A f \in DemuxFields \ {"out", "changed", "aMeta", "vInit", "aInit"} : w[f] = d[f]
    BY <2>1 DEF DispatchVideoInitSegment
  <2> HIDE DEF e, w
  <2>5. Steady(w, d, base, passed)
    BY <1>6, <2>1, <2>2, <2>3, <2>4, InitSegmentSteady
  <2> QED BY <2>5 DEF w
<1>9. StorePps(r, cfg) \in {r, t, DispatchVideoInitSegment(d)}
  <2>1. t.changed = r.changed BY <1>4
  <2> QED BY <2>1 DEF StorePps
<1>10. Steady(DispatchVideoInitSegment(d), s, base, passed)
  <2> HIDE DEF d
  <2> QED BY <1>7, <1>8, SteadySteps
<1>11. \A z \in {r, t, DispatchVideoInitSegment(d)} : Steady(z, s, base, passed)
  <2> HIDE DEF d, t
  <2> QED BY <1>1, <1>7, <1>10
<1> HIDE DEF d, t
<1>12. Steady(StorePps(r, cfg), s, base, passed) BY <1>9, <1>11
<1> QED BY <1>12 DEF r

\* A new configuration of audio is announced.
LEMMA AnnounceAudioSteady ==
  ASSUME NEW s, DemuxTyped(s), NEW base, NEW passed, OutputSound(s, base, passed), NEW cfg \in Int,
         NEW remembers \in BOOLEAN
  PROVE  Steady(AnnounceAudio(s, cfg, remembers), s, base, passed)
<1> DEFINE e == [k |-> "ainit", cfg |-> cfg]
<1>0. e \in InitItems BY DEF InitItems
<1>1. ASSUME NEW d, DemuxTyped(d), OutputSound(d, base, passed), NEW meta
      PROVE  Steady(DispatchAudioInitSegment([d EXCEPT !.aMeta = meta], cfg), d, base, passed)
  <2> DEFINE w == DispatchAudioInitSegment([d EXCEPT !.aMeta = meta], cfg)
  <2>1. DOMAIN d = DemuxFields /\ d.vInit \in BOOLEAN BY <1>1 DEF DemuxTyped
  <2>3. DOMAIN w = DemuxFields /\ w.out = Append(d.out, e) /\ w.vInit = d.vInit /\ w.aInit = TRUE
    BY <2>1 DEF DispatchAudioInitSegment, DemuxFields
  <2>4. \A f \in DemuxFields \ {"out", "changed", "aMeta", "vInit", "aInit"} : w[f] = d[f]
    BY <2>1 DEF DispatchAudioInitSegment
  <2> HIDE DEF e, w
  <2>5. Steady(w, d, base, passed)
    BY <1>0, <1>1, <2>1, <2>3, <2>4, InitSegmentSteady
  <2> QED BY <2>5 DEF w
<1> DEFINE d == DispatchAudioMediaSegment(s)
           meta == IF remembers THEN cfg ELSE d.aMeta
<1>2. Steady(d, s, base, passed) BY EmitsSteady DEF DispatchAudioMediaSegment
<1>3. DemuxTyped(d) /\ OutputSound(d, base, passed) BY <1>2 DEF Steady, Collects
<1>4. [d EXCEPT !.aMeta = IF remembers THEN cfg ELSE @] = [d EXCEPT !.aMeta = meta]
  OBVIOUS
<1>5. AnnounceAudio(s, cfg, remembers) \in
        {s, DispatchAudioInitSegment([s EXCEPT !.aMeta = cfg], cfg), DispatchAudioInitSegment([d EXCEPT !.aMeta = meta], cfg)}
  BY <1>4 DEF AnnounceAudio
<1> HIDE DEF d, meta
<1>6. Steady(DispatchAudioInitSegment([d EXCEPT !.aMeta = meta], cfg), d, base, passed)
  BY <1>1, <1>3
<1>7. Steady(DispatchAudioInitSegment([d EXCEPT !.aMeta = meta], cfg), s, base, passed)
  BY <1>2, <1>6, SteadySteps
<1>8. Steady(DispatchAudioInitSegment([s EXCEPT !.aMeta = cfg], cfg), s, base, passed)
  BY <1>1
<1>9. Steady(s, s, base, passed) BY DEF Steady, Collects
<1> QED BY <1>5, <1>7, <1>8, <1>9

\* The slices of a whole unit.
Unit(u) == <<[u |-> u, i |-> 0], [u |-> u, i |-> 1]>>

\* The clock turns the timestamp of unit u into its true time.
OnTime(s, u, base, passed) ==
  /\ GetTimestamp(s, Pts(u)) = base + u + Delay - passed * WRAP
  /\ base + u + Delay - passed * WRAP \in Int

\* parseH264Payload, parseH265Payload: a whole unit at its true time.
LEMMA VideoPayloadSound ==
  ASSUME NEW s, DemuxTyped(s), CarrySound(s), NEW base, NEW passed, OutputSound(s, base, passed),
         NEW u \in Nat, OnTime(s, u, base, passed)
  PROVE  LET r == ParseVideoPayload(s, Unit(u)) IN
         /\ Collects(r, s) /\ OutputSound(r, base, passed) /\ CarrySound(r)
         /\ r.carry \in {s.carry, None}
<1> DEFINE slices == Unit(u)
           key == u \in Keys
           t == IF key THEN StorePps(StoreVpsAndSps(s, Config(u)), Config(u)) ELSE s
           waits == t.drop \/ ~t.started
           q == IF waits THEN ResumeVideoOutputFromKeyframe(t) ELSE t
           e == VideoSample(q, slices)
           f == [q EXCEPT !.vTrack = Append(@, e)]
<1>0. slices[1].u = u /\ slices \in Seq(Slices) BY DEF Unit, Slices
<1>1. ParseVideoPayload(s, slices) = IF (waits /\ ~(key /\ t.vInit)) \/ ~t.vInit THEN t ELSE f
  BY <1>0 DEF ParseVideoPayload
<1>2. Steady(t, s, base, passed)
  <2>1. Config(u) \in Int BY ConfigIsNatural
  <2>2. Steady(s, s, base, passed) BY DEF Steady, Collects
  <2> QED BY <2>1, <2>2, ParameterSetsSteady
<1> HIDE DEF t
<1>3. /\ DemuxTyped(t) /\ OutputSound(t, base, passed) /\ CarrySound(t)
      /\ t.carry = s.carry /\ Collects(t, s)
  BY <1>2 DEF Steady, Collects, CarrySound
<1>4. CASE (waits /\ ~(key /\ t.vInit)) \/ ~t.vInit BY <1>1, <1>3, <1>4
<1>5. CASE ~((waits /\ ~(key /\ t.vInit)) \/ ~t.vInit)
  <2>0. DOMAIN t = DemuxFields BY <1>3 DEF DemuxTyped
  <2>1. /\ DOMAIN q = DemuxFields /\ q.out = t.out /\ q.vTrack = t.vTrack
        /\ q.aTrack = (IF waits THEN << >> ELSE t.aTrack) /\ q.carry = (IF waits THEN None ELSE t.carry)
        /\ q.started = TRUE /\ q.drop = FALSE /\ q.pcr = t.pcr /\ q.offset = t.offset
    BY <2>0, <1>3 DEF ResumeVideoOutputFromKeyframe, ResetAudioParserState, DemuxFields, DemuxTyped
  <2>2. \A g \in DemuxFields \ {"vTrack", "aTrack", "carry", "started", "drop", "unsynced"} : q[g] = t[g]
    BY <2>0 DEF ResumeVideoOutputFromKeyframe, ResetAudioParserState
  <2> HIDE DEF q
  <2>3. /\ e \in VideoItems /\ Whole(e, base, passed) /\ e.loss = Announced(t.out) /\ e.key = key
    <3>1. GetTimestamp(q, Pts(u)) = base + u + Delay - passed * WRAP
      BY <2>1, <1>3 DEF GetTimestamp, Collects, OnTime
    <3>2. Losses(q) = Announced(t.out) BY <2>1 DEF Losses, Announced
    <3>3. Announced(t.out) \in Nat BY <1>3, AnnouncedIsNatural DEF DemuxTyped
    <3>4. e = [k |-> "v", u |-> u, slices |-> slices, key |-> key, cfg |-> Config(u),
               ts |-> base + u + Delay - passed * WRAP, loss |-> Announced(t.out)]
      BY <1>0, <3>1, <3>2 DEF VideoSample
    <3>5. Config(u) \in Int BY ConfigIsNatural
    <3>6. e \in VideoItems
      <4> HIDE DEF slices, e
      <4> QED BY <1>0, <3>3, <3>4, <3>5 DEF VideoItems, OnTime
    <3>7. e.k = "v" /\ e.slices = Unit(e.u) /\ e.ts = base + e.u + Delay - passed * WRAP
          /\ e.loss = Announced(t.out) /\ e.key = key
      <4> HIDE DEF e
      <4> QED BY <3>4
    <3> HIDE DEF e, key
    <3> QED BY <3>6, <3>7 DEF Whole, Unit
  <2> HIDE DEF e
  <2>4. /\ DOMAIN f = DemuxFields /\ f.vTrack = Append(t.vTrack, e)
        /\ \A g \in DemuxFields \ {"vTrack"} : f[g] = q[g]
    BY <2>1 DEF DemuxFields
  <2> HIDE DEF f
  <2>5. /\ f.out = t.out /\ f.aTrack = (IF waits THEN << >> ELSE t.aTrack)
        /\ f.carry = (IF waits THEN None ELSE t.carry) /\ f.started = TRUE /\ f.drop = FALSE
    BY <2>1, <2>4 DEF DemuxFields
  <2>6. /\ f.pmt = t.pmt /\ f.audio = t.audio /\ f.cc = t.cc /\ f.pes = t.pes /\ f.sized = t.sized
        /\ f.pcr = t.pcr /\ f.offset = t.offset /\ f.vInit = t.vInit /\ f.aInit = t.aInit /\ f.details = t.details
    BY <2>2, <2>4 DEF DemuxFields
  <2>7. t.vTrack \in Seq(VideoItems) /\ f.vTrack \in Seq(VideoItems) /\ f.aTrack \in Seq(AudioItems)
    BY <2>3, <2>4, <2>5, <1>3 DEF DemuxTyped
  <2>8. DemuxTyped(f) BY <2>4, <2>5, <2>6, <2>7, <1>3 DEF DemuxTyped
  <2>9. \A i \in DOMAIN f.vTrack : (i \in DOMAIN t.vTrack /\ f.vTrack[i] = t.vTrack[i]) \/ f.vTrack[i] = e
    BY <2>4, <2>7
  <2>10. f.vTrack[1].key \/ Shown(f.out)
    <3>1. CASE t.vTrack = << >>
      <4>1. f.vTrack[1] = e BY <3>1, <2>4
      <4>2. waits => e.key BY <1>5, <2>3
      <4>3. ~waits => Shown(t.out) BY <1>3, <3>1 DEF OutputSound
      <4> HIDE DEF waits
      <4> QED BY <4>1, <4>2, <4>3, <2>5
    <3>2. CASE t.vTrack # << >>
      <4>1. f.vTrack[1] = t.vTrack[1] BY <3>2, <2>4, <2>7
      <4> QED BY <3>2, <4>1, <1>3, <2>5 DEF OutputSound
    <3> QED BY <3>1, <3>2
  <2>11. f.vTrack # << >> BY <2>4, <2>7
  <2>12. OutputSound(f, base, passed)
    <3>1. Resumes(f.out) /\ \A i \in DOMAIN f.out : Whole(f.out[i], base, passed)
      BY <1>3, <2>5 DEF OutputSound
    <3>2. \A i \in DOMAIN f.vTrack : Whole(f.vTrack[i], base, passed) /\ f.vTrack[i].loss = Announced(f.out)
      BY <1>3, <2>3, <2>5, <2>9 DEF OutputSound
    <3>3. \A i \in DOMAIN f.aTrack : Whole(f.aTrack[i], base, passed) /\ f.aTrack[i].loss = Announced(f.out)
      BY <1>3, <2>5 DEF OutputSound
    <3> QED BY <3>1, <3>2, <3>3, <2>10, <2>11 DEF OutputSound
  <2>13. CarrySound(f) BY <1>3, <1>5, <2>5, <2>6 DEF CarrySound
  <2>14. Collects(f, s) BY <1>3, <2>6, <2>8 DEF Collects
  <2>15. f.carry \in {s.carry, None} BY <1>3, <2>5
  <2> QED BY <1>1, <1>5, <2>12, <2>13, <2>14, <2>15
<1> QED BY <1>4, <1>5

\* A collected sample of audio.
LEMMA AudioSampleSound ==
  ASSUME NEW s, DemuxTyped(s), NEW base, NEW passed, OutputSound(s, base, passed), NEW u \in Nat,
         NEW r, DOMAIN r = DemuxFields, r.aTrack = Append(s.aTrack, AudioSample(s, u, u + 1)),
         r.carry \in Nat \cup {None},
         \A g \in DemuxFields \ {"aTrack", "carry"} : r[g] = s[g]
  PROVE  Collects(r, s) /\ OutputSound(r, base, passed) /\ r.started = s.started /\ r.vInit = s.vInit
         /\ (NoVideo(s) => NoVideo(r))
<1> DEFINE e == AudioSample(s, u, u + 1)
<1>1. /\ r.pmt = s.pmt /\ r.audio = s.audio /\ r.cc = s.cc /\ r.pes = s.pes /\ r.sized = s.sized
      /\ r.pcr = s.pcr /\ r.offset = s.offset /\ r.drop = s.drop /\ r.started = s.started
      /\ r.vTrack = s.vTrack /\ r.out = s.out /\ r.details = s.details /\ r.vInit = s.vInit /\ r.aInit = s.aInit
  BY DEF DemuxFields
<1>2. Losses(s) = Announced(s.out) /\ Losses(s) \in Nat
  BY AnnouncedIsNatural DEF Losses, Announced, DemuxTyped
<1>3. e = [k |-> "a", head |-> u, tail |-> u + 1, loss |-> Announced(s.out)]
  BY <1>2 DEF AudioSample
<1>4. e \in AudioItems /\ Whole(e, base, passed) /\ e.loss = Announced(s.out)
  <2> HIDE DEF e
  <2> QED BY <1>2, <1>3 DEF AudioItems, Whole
<1>5. r.aTrack = Append(s.aTrack, e) /\ s.aTrack \in Seq(AudioItems)
  BY DEF DemuxTyped
<1> HIDE DEF e
<1>6. r.aTrack \in Seq(AudioItems) /\ \A i \in DOMAIN r.aTrack : (i \in DOMAIN s.aTrack /\ r.aTrack[i] = s.aTrack[i]) \/ r.aTrack[i] = e
  BY <1>4, <1>5
<1>7. DemuxTyped(r) BY <1>1, <1>6 DEF DemuxTyped
<1>8. OutputSound(r, base, passed) BY <1>1, <1>4, <1>6 DEF OutputSound
<1> QED BY <1>1, <1>7, <1>8 DEF Collects, NoVideo

\* The parsers of audio: the half frame that waits is continued by the unit
\* after it.
LEMMA AudioPayloadSound ==
  ASSUME NEW s, DemuxTyped(s), CarrySound(s), NEW base, NEW passed, OutputSound(s, base, passed), s.pmt,
         NEW u \in Nat, s.carry # None => u = s.carry + 1
  PROVE  LET r == ParseAudioPayload(s, Unit(u)) IN
         /\ Collects(r, s) /\ OutputSound(r, base, passed) /\ CarrySound(r)
         /\ r.carry \in {u, None} /\ (NoVideo(s) => NoVideo(r))
<1> DEFINE slices == Unit(u)
           y == [s EXCEPT !.unsynced = FALSE]
<1>0. slices[1].u = u BY DEF Unit
<1>1. Steady(y, s, base, passed)
  <2>1. DOMAIN s = DemuxFields /\ s.details \in Int /\ s.aInit \in BOOLEAN /\ s.vInit \in BOOLEAN
    BY DEF DemuxTyped
  <2>2. DOMAIN y = DemuxFields /\ y.details = s.details /\ y.aInit = s.aInit /\ y.vInit = s.vInit
    BY <2>1 DEF DemuxFields
  <2>3. \A f \in DemuxFields \ {"details", "vps", "sps", "pps", "changed", "aMeta", "unsynced", "vInit", "aInit"} :
           y[f] = s[f]
    BY <2>1
  <2> HIDE DEF y
  <2> QED BY <2>1, <2>2, <2>3, OtherFields
<1>2. ASSUME NEW c \in Nat, NEW remembers \in BOOLEAN
      PROVE  Steady(AnnounceAudio(y, AudioConfig(c), remembers), s, base, passed)
  <2>1. DemuxTyped(y) /\ OutputSound(y, base, passed) /\ AudioConfig(c) \in Int
    BY <1>1, ConfigIsNatural DEF Steady, Collects
  <2> HIDE DEF y
  <2>2. Steady(AnnounceAudio(y, AudioConfig(c), remembers), y, base, passed)
    BY <2>1, AnnounceAudioSteady
  <2> QED BY <1>1, <2>2, SteadySteps
<1>3. ASSUME NEW remembers \in BOOLEAN, s.started, s.vInit, s.audio # "mp3"
      PROVE  LET r == ParseFrames(s, u, remembers) IN
             /\ Collects(r, s) /\ OutputSound(r, base, passed) /\ CarrySound(r) /\ r.carry = u /\ (NoVideo(s) => NoVideo(r))
  <2>1. CASE s.carry = None
    <3> DEFINE r == [s EXCEPT !.carry = u]
    <3>1. /\ DOMAIN r = DemuxFields /\ r.carry = u
          /\ \A g \in DemuxFields \ {"carry"} : r[g] = s[g]
      BY DEF DemuxTyped, DemuxFields
    <3> HIDE DEF r
    <3>2. /\ r.pmt = s.pmt /\ r.audio = s.audio /\ r.cc = s.cc /\ r.pes = s.pes /\ r.sized = s.sized
          /\ r.pcr = s.pcr /\ r.offset = s.offset /\ r.drop = s.drop /\ r.started = s.started
          /\ r.vTrack = s.vTrack /\ r.aTrack = s.aTrack /\ r.out = s.out /\ r.details = s.details
          /\ r.vInit = s.vInit /\ r.aInit = s.aInit
      BY <3>1 DEF DemuxFields
    <3>3. DemuxTyped(r) BY <3>1, <3>2 DEF DemuxTyped
    <3>4. OutputSound(r, base, passed) BY <3>2 DEF OutputSound
    <3>5. ParseFrames(s, u, remembers) = r BY <2>1 DEF ParseFrames, r
    <3> QED BY <1>3, <3>1, <3>2, <3>3, <3>4, <3>5, ZenonT(60) DEF Collects, CarrySound, NoVideo
  <2>2. CASE s.carry # None
    <3> DEFINE c == s.carry
               t == AnnounceAudio(y, AudioConfig(c), remembers)
               r == [t EXCEPT !.aTrack = Append(@, AudioSample(t, c, u)), !.carry = u]
    <3>1. c \in Nat /\ u = c + 1 BY <2>2 DEF DemuxTyped
    <3>2. Steady(t, s, base, passed) BY <3>1, <1>2
    <3>3. ParseFrames(s, u, remembers) = r BY <2>2 DEF ParseFrames
    <3> HIDE DEF t
    <3>4. DemuxTyped(t) /\ OutputSound(t, base, passed) /\ DOMAIN t = DemuxFields
      BY <3>2 DEF Steady, Collects, DemuxTyped
    <3>5. /\ DOMAIN r = DemuxFields /\ r.carry = u /\ r.aTrack = Append(t.aTrack, AudioSample(t, c, c + 1))
          /\ \A g \in DemuxFields \ {"aTrack", "carry"} : r[g] = t[g]
      BY <3>1, <3>4 DEF DemuxFields
    <3> HIDE DEF r, c
    <3>6. /\ Collects(r, t) /\ OutputSound(r, base, passed) /\ r.started = t.started /\ r.vInit = t.vInit
          /\ NoVideo(t) => NoVideo(r)
      BY <3>1, <3>4, <3>5, AudioSampleSound
    <3> QED BY <1>3, <3>2, <3>3, <3>5, <3>6 DEF Steady, Collects, CarrySound
  <2> QED BY <2>1, <2>2
<1>4. ASSUME s.started, s.vInit, s.audio = "mp3"
      PROVE  LET r == ParseMP3Payload(s, u) IN
             /\ Collects(r, s) /\ OutputSound(r, base, passed) /\ CarrySound(r) /\ r.carry = None /\ (NoVideo(s) => NoVideo(r))
  <2>1. s.carry = None BY <1>4 DEF CarrySound
  <2>2. CASE s.unsynced /\ u % 2 = 1 BY <2>1, <2>2 DEF ParseMP3Payload, Collects
  <2>3. CASE ~(s.unsynced /\ u % 2 = 1)
    <3> DEFINE t == AnnounceAudio(y, AudioConfig(u), FALSE)
               r == [t EXCEPT !.aTrack = Append(@, AudioSample(t, u, u + 1))]
    <3>2. Steady(t, s, base, passed) BY <1>2
    <3>3. ParseMP3Payload(s, u) = r BY <2>3 DEF ParseMP3Payload
    <3> HIDE DEF t
    <3>4. DemuxTyped(t) /\ OutputSound(t, base, passed) /\ DOMAIN t = DemuxFields /\ t.carry = None
      BY <2>1, <3>2 DEF Steady, Collects, DemuxTyped
    <3>5. /\ DOMAIN r = DemuxFields /\ r.carry = None /\ r.aTrack = Append(t.aTrack, AudioSample(t, u, u + 1))
          /\ \A g \in DemuxFields \ {"aTrack", "carry"} : r[g] = t[g]
      BY <3>4 DEF DemuxFields
    <3> HIDE DEF r
    <3>6. Collects(r, t) /\ OutputSound(r, base, passed) /\ (NoVideo(t) => NoVideo(r))
      BY <3>4, <3>5, AudioSampleSound
    <3> QED BY <3>2, <3>3, <3>5, <3>6 DEF Steady, Collects, CarrySound
  <2> QED BY <2>2, <2>3
<1>5. CASE ~s.vInit \/ ShouldWaitForVideoKeyframe(s)
  <2>1. s.carry = None
    BY <1>5 DEF CarrySound, ShouldWaitForVideoKeyframe
  <2>2. ParseAudioPayload(s, slices) = s BY <1>5 DEF ParseAudioPayload
  <2> QED BY <2>1, <2>2 DEF Collects
<1>6. CASE ~(~s.vInit \/ ShouldWaitForVideoKeyframe(s))
  <2>1. s.started /\ s.vInit
    BY <1>6 DEF ShouldWaitForVideoKeyframe, DemuxTyped
  <2>2. s.audio \in {"aac", "loas", "ac3", "eac3", "mp3"} BY DEF DemuxTyped
  <2>3. \/ s.audio # "mp3" /\ \E remembers \in BOOLEAN : ParseAudioPayload(s, slices) = ParseFrames(s, u, remembers)
        \/ s.audio = "mp3" /\ ParseAudioPayload(s, slices) = ParseMP3Payload(s, u)
    <3> HIDE DEF slices
    <3> QED BY <1>0, <1>6, <2>2 DEF ParseAudioPayload, ParseADTSAACPayload, ParseLOASAACPayload, ParseAC3Payload, ParseEAC3Payload
  <2> QED BY <2>1, <2>3, <1>3, <1>4
<1> QED BY <1>5, <1>6

\* A step that concerns the queues, counters and the clock only.
Requeues(r, s) ==
  /\ DOMAIN r = DemuxFields
  /\ \A f \in DemuxFields \ {"pat", "section", "pmt", "cc", "pes", "sized", "pcr", "offset"} : r[f] = s[f]
  /\ r.cc \in [Media -> Int] /\ r.pes \in [Media -> Seq(Slices)] /\ r.sized \in [Media -> Int]
  /\ r.pcr \in Nat \cup {None} /\ r.offset \in Int /\ r.pmt \in BOOLEAN

LEMMA QueueFields ==
  ASSUME NEW s, DemuxTyped(s), CarrySound(s), NEW base, NEW passed, OutputSound(s, base, passed),
         NEW r, Requeues(r, s)
  PROVE  /\ DemuxTyped(r) /\ CarrySound(r) /\ OutputSound(r, base, passed) /\ r.carry = s.carry /\ r.audio = s.audio
         /\ (NoVideo(s) => NoVideo(r)) /\ (s.vInit => r.vInit)
<1>1. /\ r.audio = s.audio /\ r.drop = s.drop /\ r.started = s.started /\ r.carry = s.carry
      /\ r.vTrack = s.vTrack /\ r.aTrack = s.aTrack /\ r.out = s.out /\ r.details = s.details
      /\ r.vInit = s.vInit /\ r.aInit = s.aInit
  BY DEF DemuxFields, Requeues
<1>2. DemuxTyped(r) BY <1>1 DEF DemuxTyped, Requeues
<1>3. OutputSound(r, base, passed) BY <1>1 DEF OutputSound
<1> QED BY <1>1, <1>2, <1>3 DEF CarrySound, NoVideo

\* A track whose queue is empty.
Cleared(s, m) == s.pes[m] = << >> /\ s.sized[m] = None

\* The demuxer r is s without the queue of track m.
QueueCleared(r, s, m, base, passed) ==
  /\ DemuxTyped(r) /\ CarrySound(r) /\ OutputSound(r, base, passed) /\ r.carry = s.carry
  /\ r.pmt = s.pmt /\ r.cc = s.cc /\ r.pcr = s.pcr /\ r.offset = s.offset
  /\ NoVideo(s) => NoVideo(r)
  /\ Cleared(r, m) /\ \A o \in Media \ {m} : r.pes[o] = s.pes[o] /\ r.sized[o] = s.sized[o]

LEMMA ClearSound ==
  ASSUME NEW s, DemuxTyped(s), CarrySound(s), NEW base, NEW passed, OutputSound(s, base, passed), NEW m \in Media
  PROVE  QueueCleared(ClearSlices(s, m), s, m, base, passed)
<1> DEFINE r == ClearSlices(s, m)
<1>1. /\ DOMAIN s = DemuxFields /\ s.cc \in [Media -> Int] /\ s.pes \in [Media -> Seq(Slices)] /\ s.sized \in [Media -> Int]
      /\ s.pcr \in Nat \cup {None} /\ s.offset \in Int /\ s.pmt \in BOOLEAN
  BY DEF DemuxTyped
<1>2. /\ DOMAIN r = DemuxFields /\ r.pmt = s.pmt /\ r.audio = s.audio /\ r.cc = s.cc /\ r.pcr = s.pcr /\ r.offset = s.offset
      /\ r.pes = [s.pes EXCEPT ![m] = << >>] /\ r.sized = [s.sized EXCEPT ![m] = None]
  BY <1>1 DEF DemuxFields, ClearSlices
<1>3. \A f \in DemuxFields \ {"pat", "section", "pmt", "cc", "pes", "sized", "pcr", "offset"} : r[f] = s[f]
  BY <1>1 DEF ClearSlices
<1>4. r.pes \in [Media -> Seq(Slices)] /\ r.sized \in [Media -> Int]
  <2>1. << >> \in Seq(Slices) /\ None \in Int BY DEF None
  <2> HIDE DEF r
  <2> QED BY <1>1, <1>2, <2>1
<1>6. Cleared(r, m) /\ \A o \in Media \ {m} : r.pes[o] = s.pes[o] /\ r.sized[o] = s.sized[o]
  <2> HIDE DEF r
  <2> QED BY <1>1, <1>2 DEF Cleared
<1> HIDE DEF r
<1>7. /\ DemuxTyped(r) /\ CarrySound(r) /\ OutputSound(r, base, passed) /\ r.carry = s.carry
      /\ (NoVideo(s) => NoVideo(r)) /\ (s.vInit => r.vInit)
  <2>1. /\ r.cc \in [Media -> Int] /\ r.pcr \in Nat \cup {None} /\ r.offset \in Int /\ r.pmt \in BOOLEAN
    BY <1>1, <1>2
  <2>2. DOMAIN r = DemuxFields BY <1>2
  <2>3. Requeues(r, s) BY <2>1, <2>2, <1>3, <1>4 DEF Requeues
  <2> QED BY <2>3, QueueFields
<1> QED BY <1>2, <1>6, <1>7 DEF r, QueueCleared

\* handleTrackDiscontinuity: what is collected goes out, and what a loss of
\* video makes undecodable does not.
LEMMA DiscontinuitySound ==
  ASSUME NEW s, DemuxTyped(s), CarrySound(s), NEW base, NEW passed, OutputSound(s, base, passed), NEW m \in Media
  PROVE  LET r == HandleTrackDiscontinuity(s, m) IN
         /\ DemuxTyped(r) /\ CarrySound(r) /\ OutputSound(r, base, passed) /\ r.carry = None
         /\ r.pmt = s.pmt /\ r.cc = s.cc /\ r.pcr = s.pcr /\ r.offset = s.offset
         /\ (NoVideo(s) => NoVideo(r))
         /\ Cleared(r, m)
         /\ \A o \in Media \ {m} : Cleared(r, o) \/ (r.pes[o] = s.pes[o] /\ r.sized[o] = s.sized[o])
<1> DEFINE y == ClearSlices(s, m)
           b == FlushMedia(y)
<1>1. /\ DemuxTyped(y) /\ CarrySound(y) /\ OutputSound(y, base, passed)
      /\ y.pmt = s.pmt /\ y.cc = s.cc /\ y.pcr = s.pcr /\ y.offset = s.offset
      /\ (NoVideo(s) => NoVideo(y))
      /\ Cleared(y, m) /\ \A o \in Media \ {m} : y.pes[o] = s.pes[o] /\ y.sized[o] = s.sized[o]
  <2>1. QueueCleared(y, s, m, base, passed) BY ClearSound
  <2> HIDE DEF y
  <2> QED BY <2>1 DEF QueueCleared
<1> HIDE DEF y
<1>2. Steady(b, y, base, passed) BY <1>1, EmitsSteady DEF FlushMedia
<1> HIDE DEF b
<1>3. /\ DemuxTyped(b) /\ CarrySound(b) /\ OutputSound(b, base, passed)
      /\ b.pmt = s.pmt /\ b.cc = s.cc /\ b.pcr = s.pcr /\ b.offset = s.offset
      /\ (NoVideo(s) => NoVideo(b)) /\ DOMAIN b = DemuxFields
      /\ b.pes = y.pes /\ b.sized = y.sized
  BY <1>1, <1>2 DEF Steady, Collects, CarrySound, DemuxTyped
<1>4. CASE m = "audio"
  <2> DEFINE r == ResetAudioParserState(b)
  <2>1. /\ DOMAIN r = DemuxFields /\ r.carry = None
        /\ \A f \in DemuxFields \ {"carry", "unsynced"} : r[f] = b[f]
    BY <1>3 DEF ResetAudioParserState, DemuxFields
  <2>2. HandleTrackDiscontinuity(s, m) = r
    BY <1>4 DEF HandleTrackDiscontinuity, ClearSlices, y, b
  <2> HIDE DEF r
  <2>3. /\ r.pmt = b.pmt /\ r.audio = b.audio /\ r.cc = b.cc /\ r.pes = b.pes /\ r.sized = b.sized
        /\ r.pcr = b.pcr /\ r.offset = b.offset /\ r.drop = b.drop /\ r.started = b.started
        /\ r.vTrack = b.vTrack /\ r.aTrack = b.aTrack /\ r.out = b.out /\ r.details = b.details
        /\ r.vInit = b.vInit /\ r.aInit = b.aInit
    BY <2>1 DEF DemuxFields
  <2>4. DemuxTyped(r) BY <1>3, <2>1, <2>3 DEF DemuxTyped
  <2>5. OutputSound(r, base, passed) BY <1>3, <2>3 DEF OutputSound
  <2> QED BY <1>1, <1>3, <2>1, <2>2, <2>3, <2>4, <2>5 DEF CarrySound, NoVideo, Cleared
<1>5. CASE m = "video"
  <2> DEFINE e == [k |-> "vdisc"]
             c == [b EXCEPT !.vTrack = << >>, !.aTrack = << >>, !.drop = TRUE, !.started = FALSE,
                            !.pes["audio"] = << >>, !.sized["audio"] = None, !.out = Append(@, e)]
             r == ResetAudioParserState(c)
  <2>1. /\ DOMAIN r = DemuxFields /\ r.carry = None /\ r.vTrack = << >> /\ r.aTrack = << >> /\ r.drop = TRUE
        /\ r.started = FALSE /\ r.out = Append(b.out, e)
        /\ r.pes = [b.pes EXCEPT !["audio"] = << >>] /\ r.sized = [b.sized EXCEPT !["audio"] = None]
    BY <1>3 DEF ResetAudioParserState, DemuxFields
  <2>2. \A f \in DemuxFields \ {"carry", "unsynced", "vTrack", "aTrack", "drop", "started", "pes", "sized", "out"} :
          r[f] = b[f]
    BY <1>3 DEF ResetAudioParserState
  <2>3. HandleTrackDiscontinuity(s, m) = r
    BY <1>5 DEF HandleTrackDiscontinuity, ClearSlices, y, b
  <2> HIDE DEF r, c
  <2>4. /\ r.pmt = b.pmt /\ r.audio = b.audio /\ r.cc = b.cc
        /\ r.pcr = b.pcr /\ r.offset = b.offset /\ r.details = b.details
        /\ r.vInit = b.vInit /\ r.aInit = b.aInit
    BY <2>2 DEF DemuxFields
  <2>5. e \in Items /\ e.k = "vdisc" BY DEF Items
  <2> HIDE DEF e
  <2>6. b.out \in Seq(Items) /\ Resumes(b.out) BY <1>3 DEF DemuxTyped, OutputSound
  <2>7. r.out \in Seq(Items) /\ Resumes(r.out) BY <2>1, <2>5, <2>6, NoticeFollows
  <2>8. \A i \in DOMAIN r.out : (i \in DOMAIN b.out /\ r.out[i] = b.out[i]) \/ r.out[i] = e
    BY <2>1, <2>5, <2>6
  <2>9. b.pes \in [Media -> Seq(Slices)] /\ b.sized \in [Media -> Int]
    BY <1>3 DEF DemuxTyped
  <2>10. r.pes \in [Media -> Seq(Slices)] /\ r.sized \in [Media -> Int]
    <3>1. << >> \in Seq(Slices) /\ None \in Int BY DEF None
    <3> QED BY <2>1, <2>9, <3>1, ZenonT(60)
  <2>11. Cleared(r, "audio") /\ Cleared(r, "video")
    <3>1. b.pes["video"] = << >> /\ b.sized["video"] = None BY <1>1, <1>3, <1>5 DEF Cleared
    <3>2. "audio" \in Media /\ "video" \in Media BY DEF Media
    <3> QED BY <2>1, <2>9, <3>1, <3>2 DEF Cleared
  <2>12. DemuxTyped(r)
    <3>1. << >> \in Seq(VideoItems) /\ << >> \in Seq(AudioItems)
      OBVIOUS
    <3>2. r.vTrack \in Seq(VideoItems) /\ r.aTrack \in Seq(AudioItems) /\ r.carry \in Nat \cup {None}
      BY <2>1, <3>1
    <3>3. /\ r.audio \in {"aac", "loas", "ac3", "eac3", "mp3"} /\ r.cc \in [Media -> Int]
          /\ r.details \in Int /\ r.pcr \in Nat \cup {None} /\ r.offset \in Int
      BY <1>3, <2>4 DEF DemuxTyped
    <3>4. {r.pmt, r.vInit, r.aInit, r.drop, r.started} \subseteq BOOLEAN
      BY <1>3, <2>1, <2>4, ZenonT(60) DEF DemuxTyped
    <3>5. DOMAIN r = DemuxFields BY <2>1
    <3> QED BY <2>7, <2>10, <3>2, <3>3, <3>4, <3>5 DEF DemuxTyped
  <2>13. OutputSound(r, base, passed)
    <3>1. Whole(e, base, passed) BY <2>5 DEF Whole
    <3>2. \A i \in DOMAIN r.out : Whole(r.out[i], base, passed)
      BY <1>3, <2>8, <3>1 DEF OutputSound
    <3> QED BY <2>1, <2>7, <3>2 DEF OutputSound
  <2>14. NoVideo(s) => NoVideo(r) BY <1>3, <2>1, <2>5, <2>8 DEF NoVideo
  <2> QED BY <1>3, <1>5, <2>1, <2>3, <2>4, <2>11, <2>12, <2>13, <2>14 DEF CarrySound, Media
<1> QED BY <1>4, <1>5 DEF Media

\* The length a queue has to have.
Sized(s, m) == s.sized[m] = IF s.pes[m] = << >> THEN None ELSE IF m = "video" THEN 0 ELSE 2

\* A step that leaves what the arriving packet is checked against.
Parses(r, s) ==
  /\ DemuxTyped(r) /\ r.pmt = s.pmt /\ r.cc = s.cc /\ r.pcr = s.pcr /\ r.offset = s.offset

\* The demuxer r after it handed unit u of track m to its parser in s.
UnitParsed(r, s, m, u, base, passed) ==
  /\ Parses(r, s) /\ OutputSound(r, base, passed) /\ CarrySound(r)
  /\ m = "video" => r.carry \in {s.carry, None}
  /\ m = "audio" => r.carry \in {u, None} /\ (NoVideo(s) => NoVideo(r))
  /\ Cleared(r, m) /\ \A o \in Media \ {m} : r.pes[o] = s.pes[o] /\ r.sized[o] = s.sized[o]

\* emitPESSlices: a whole unit leaves its queue.
LEMMA EmitSound ==
  ASSUME NEW s, DemuxTyped(s), CarrySound(s), NEW base, NEW passed, OutputSound(s, base, passed), s.pmt,
         NEW m \in Media, NEW u \in Nat, s.pes[m] = Unit(u),
         m = "video" => OnTime(s, u, base, passed),
         m = "audio" => (s.carry # None => u = s.carry + 1)
  PROVE  UnitParsed(EmitPESSlices(s, m), s, m, u, base, passed)
<1> DEFINE y == ClearSlices(s, m)
           r == EmitPESSlices(s, m)
<1>1. /\ DemuxTyped(y) /\ CarrySound(y) /\ OutputSound(y, base, passed) /\ y.carry = s.carry
      /\ y.pmt = s.pmt /\ y.cc = s.cc /\ y.pcr = s.pcr /\ y.offset = s.offset
      /\ (NoVideo(s) => NoVideo(y))
      /\ Cleared(y, m) /\ \A o \in Media \ {m} : y.pes[o] = s.pes[o] /\ y.sized[o] = s.sized[o]
  <2>1. QueueCleared(y, s, m, base, passed) BY ClearSound
  <2> HIDE DEF y
  <2> QED BY <2>1 DEF QueueCleared
<1>2. r = ParsePES(y, m, Unit(u)) BY DEF EmitPESSlices, ClearSlices
<1> HIDE DEF y, r
<1>3. Unit(u) # << >> /\ Unit(u)[1].i = 0 BY DEF Unit
<1>4. CASE m = "video"
  <2>1. r = ParseVideoPayload(y, Unit(u)) BY <1>2, <1>3, <1>4 DEF ParsePES
  <2>2. OnTime(y, u, base, passed) BY <1>1, <1>4 DEF GetTimestamp, OnTime
  <2>3. /\ Collects(r, y) /\ OutputSound(r, base, passed) /\ CarrySound(r)
        /\ r.carry \in {y.carry, None}
    BY <1>1, <1>4, <2>1, <2>2, VideoPayloadSound
  <2>4. Parses(r, s) /\ r.carry \in {s.carry, None} BY <1>1, <2>3 DEF Collects, Parses
  <2>5. Cleared(r, m) /\ \A o \in Media \ {m} : r.pes[o] = s.pes[o] /\ r.sized[o] = s.sized[o]
    BY <1>1, <2>3 DEF Collects, Cleared
  <2> QED BY <1>4, <2>3, <2>4, <2>5 DEF r, UnitParsed
<1>5. CASE m = "audio"
  <2>1. r = ParseAudioPayload(y, Unit(u)) BY <1>2, <1>3, <1>5 DEF ParsePES
  <2>3. /\ Collects(r, y) /\ OutputSound(r, base, passed) /\ CarrySound(r)
        /\ r.carry \in {u, None} /\ (NoVideo(y) => NoVideo(r))
    BY <1>1, <1>5, <2>1, AudioPayloadSound
  <2>4. Parses(r, s) /\ (NoVideo(s) => NoVideo(r)) BY <1>1, <2>3 DEF Collects, Parses
  <2>5. Cleared(r, m) /\ \A o \in Media \ {m} : r.pes[o] = s.pes[o] /\ r.sized[o] = s.sized[o]
    BY <1>1, <2>3 DEF Collects, Cleared
  <2> QED BY <1>5, <2>3, <2>4, <2>5 DEF r, UnitParsed
<1> QED BY <1>4, <1>5 DEF Media

\* A slice is put at the end of a queue: the queue is q, its length n then.
Queues(r, s, m, q, n) ==
  /\ DOMAIN r = DemuxFields
  /\ \A f \in DemuxFields \ {"pes", "sized"} : r[f] = s[f]
  /\ r.pes = [s.pes EXCEPT ![m] = q] /\ r.sized = [s.sized EXCEPT ![m] = n]

QueueSet(r, s, m, q, n, base, passed) ==
  /\ Parses(r, s) /\ OutputSound(r, base, passed) /\ CarrySound(r) /\ r.carry = s.carry
  /\ NoVideo(s) => NoVideo(r)
  /\ r.pes[m] = q /\ r.sized[m] = n
  /\ \A o \in Media \ {m} : r.pes[o] = s.pes[o] /\ r.sized[o] = s.sized[o]

LEMMA QueueSound ==
  ASSUME NEW s, DemuxTyped(s), CarrySound(s), NEW base, NEW passed, OutputSound(s, base, passed),
         NEW m \in Media, NEW q \in Seq(Slices), NEW n \in Int,
         NEW r, Queues(r, s, m, q, n)
  PROVE  QueueSet(r, s, m, q, n, base, passed)
<1>1. /\ s.cc \in [Media -> Int] /\ s.pes \in [Media -> Seq(Slices)] /\ s.sized \in [Media -> Int]
      /\ s.pcr \in Nat \cup {None} /\ s.offset \in Int /\ s.pmt \in BOOLEAN
  BY DEF DemuxTyped
<1>2. r.pmt = s.pmt /\ r.cc = s.cc /\ r.pcr = s.pcr /\ r.offset = s.offset
  BY DEF DemuxFields, Queues
<1>3. r.pes \in [Media -> Seq(Slices)] /\ r.sized \in [Media -> Int]
  BY <1>1 DEF Queues
<1>4. \A f \in DemuxFields \ {"pat", "section", "pmt", "cc", "pes", "sized", "pcr", "offset"} : r[f] = s[f]
  BY DEF Queues
<1>5. r.cc \in [Media -> Int] /\ r.pcr \in Nat \cup {None} /\ r.offset \in Int /\ r.pmt \in BOOLEAN
  BY <1>1, <1>2
<1>6. /\ DemuxTyped(r) /\ CarrySound(r) /\ OutputSound(r, base, passed) /\ r.carry = s.carry
      /\ (NoVideo(s) => NoVideo(r))
  <2>1. Requeues(r, s) BY <1>3, <1>4, <1>5 DEF Requeues, Queues
  <2> QED BY <2>1, QueueFields
<1>7. /\ r.pes[m] = q /\ r.sized[m] = n
      /\ \A o \in Media \ {m} : r.pes[o] = s.pes[o] /\ r.sized[o] = s.sized[o]
  BY <1>1 DEF Queues
<1> QED BY <1>2, <1>6, <1>7 DEF Parses, QueueSet

\* Slice k of stream m may come: the queue is empty or holds the slices before
\* it, and the half frame that waits is of the unit before.
SliceFits(s, m, k, base, passed) ==
  /\ Sized(s, m)
  /\ s.pes[m] = << >> \/ (k > 0 /\ s.pes[m] \in Queued(m, k - 1))
  /\ m = "video" /\ k % 2 = 0 /\ k > 0 => OnTime(s, k \div 2 - 1, base, passed)
  /\ m = "audio" /\ s.carry # None =>
       k = 2 * s.carry + 2 \/ (k = 2 * s.carry + 3 /\ s.pes[m] # << >>)

\* The demuxer r after it handled that slice in s.
SliceHandled(r, s, m, k, base, passed) ==
  /\ Parses(r, s) /\ OutputSound(r, base, passed) /\ CarrySound(r)
  /\ m = "video" => r.carry \in {s.carry, None}
  /\ m = "audio" /\ r.carry # None =>
       k = 2 * r.carry + 1 \/ (k = 2 * r.carry + 2 /\ r.pes[m] # << >>)
  /\ NoVideo(s) /\ ~(m = "video" /\ s.pes[m] # << >>) => NoVideo(r)
  /\ r.pes[m] \in Queued(m, k) /\ Sized(r, m)
  /\ m = "video" /\ k % 2 = 1 /\ s.pes[m] = << >> => r.pes[m] = << >>
  /\ \A o \in Media \ {m} : r.pes[o] = s.pes[o] /\ r.sized[o] = s.sized[o]

LEMMA AppendPair ==
  ASSUME NEW y \in Slices, NEW b \in Slices
  PROVE  Append(<<y>>, b) = <<y, b>>
<1> DEFINE s == Append(<<y>>, b)
<1>1. <<y>> \in Seq(Slices) /\ Len(<<y>>) = 1 /\ <<y>>[1] = y
  OBVIOUS
<1>2. s \in Seq(Slices) /\ Len(s) = 2 /\ s[1] = y /\ s[2] = b
  BY <1>1, AppendProperties
<1>3. <<y, b>> \in Seq(Slices) /\ Len(<<y, b>>) = 2 /\ <<y, b>>[1] = y /\ <<y, b>>[2] = b
  OBVIOUS
<1> HIDE DEF s
<1>4. \A i \in 1 .. Len(s) : s[i] = <<y, b>>[i]
  <2> TAKE i \in 1 .. Len(s)
  <2>1. i = 1 \/ i = 2 BY <1>2
  <2> QED BY <1>2, <1>3, <2>1
<1>5. Len(s) = Len(<<y, b>>) BY <1>2, <1>3
<1> QED BY <1>2, <1>3, <1>4, <1>5, SeqEqual DEF s

Appends(t, s, p, m) == t = [s EXCEPT !.pes[m] = Append(@, p.slice)]

\* A slice that does not open a unit.
LEMMA NextSlice ==
  ASSUME NEW s, NEW p, NEW m, p.m = m, p.slice.i # 0, s.sized[m] # None,
         NEW t, Appends(t, s, p, m)
  PROVE  HandlePESSlice(s, p) =
           IF t.sized[m] > 0 /\ Len(t.pes[m]) = t.sized[m] THEN EmitPESSlices(t, m)
           ELSE IF t.sized[m] > 0 /\ Len(t.pes[m]) > t.sized[m] THEN ClearSlices(t, m)
           ELSE t
BY DEF HandlePESSlice, Appends

Carries(p, m, k) == p.m = m /\ p.slice = [u |-> k \div 2, i |-> k % 2]

\* handlePESSlice.
LEMMA SliceSound ==
  ASSUME NEW s, DemuxTyped(s), CarrySound(s), NEW base, NEW passed, OutputSound(s, base, passed), s.pmt,
         NEW m \in Media, NEW k \in Nat, NEW p, Carries(p, m, k),
         SliceFits(s, m, k, base, passed)
  PROVE  SliceHandled(HandlePESSlice(s, p), s, m, k, base, passed)
<1> DEFINE u == k \div 2
           sl == [u |-> k \div 2, i |-> k % 2]
<1>0. /\ u \in Nat /\ k % 2 \in {0, 1} /\ k = 2 * u + (k % 2) /\ sl \in Slices
      /\ (k % 2 = 0 /\ k > 0 => u > 0 /\ (k - 1) % 2 = 1 /\ (k - 1) \div 2 = u - 1)
      /\ (k % 2 = 1 => k > 0 /\ (k - 1) % 2 = 0 /\ (k - 1) \div 2 = u)
      /\ k # None /\ k - 1 # -2 /\ sl = [u |-> u, i |-> k % 2] /\ u = k \div 2
      /\ p.m = m /\ p.slice = sl
  BY DEF Slices, None, Carries
<1> HIDE DEF u, sl
<1>1. /\ DOMAIN s = DemuxFields /\ s.pes \in [Media -> Seq(Slices)] /\ s.sized \in [Media -> Int]
      /\ s.carry \in Nat \cup {None}
  BY DEF DemuxTyped
<1>2. CASE k % 2 = 0
  <2> DEFINE n == IF m = "video" THEN 0 ELSE 2
             f == FinishPrevious(s, m)
             o == [f EXCEPT !.pes[m] = << >>, !.sized[m] = n]
             t == [o EXCEPT !.pes[m] = Append(@, sl)]
  <2>1. \/ s.pes[m] = << >> /\ s.sized[m] = None
        \/ m = "video" /\ k > 0 /\ s.pes[m] = Unit(u - 1) /\ s.sized[m] = 0
    <3>0. Sized(s, m) BY DEF SliceFits
    <3>1. CASE s.pes[m] = << >> BY <3>0, <3>1 DEF Sized
    <3>2. CASE s.pes[m] # << >>
      <4>1. k > 0 /\ s.pes[m] \in Queued(m, k - 1) BY <3>2 DEF SliceFits
      <4>2. m = "video" /\ s.pes[m] = Unit(u - 1)
        BY <3>2, <4>1, <1>0, <1>2 DEF Queued, Unit, None
      <4> QED BY <3>0, <3>2, <4>1, <4>2 DEF Sized
    <3> QED BY <3>1, <3>2
  <2>2. /\ Parses(f, s) /\ OutputSound(f, base, passed) /\ CarrySound(f) /\ f.carry \in {s.carry, None}
        /\ m = "audio" => f.carry = s.carry
        /\ (NoVideo(s) /\ s.pes[m] = << >> => NoVideo(f))
        /\ \A z \in Media \ {m} : f.pes[z] = s.pes[z] /\ f.sized[z] = s.sized[z]
    <3>1. CASE s.pes[m] = << >> /\ s.sized[m] = None
      <4>1. f = ClearSlices(s, m)
        <5>1. ~(s.sized[m] = 0 \/ s.sized[m] = Len(s.pes[m])) BY <3>1 DEF None
        <5> QED BY <5>1 DEF FinishPrevious
      <4> HIDE DEF f
      <4>2. /\ DemuxTyped(f) /\ OutputSound(f, base, passed) /\ CarrySound(f) /\ f.carry = s.carry
            /\ f.pmt = s.pmt /\ f.cc = s.cc /\ f.pcr = s.pcr /\ f.offset = s.offset
            /\ (NoVideo(s) => NoVideo(f))
            /\ \A z \in Media \ {m} : f.pes[z] = s.pes[z] /\ f.sized[z] = s.sized[z]
        <5>1. QueueCleared(f, s, m, base, passed) BY <4>1, ClearSound
        <5> QED BY <5>1 DEF QueueCleared
      <4> QED BY <4>2 DEF Parses
    <3>2. CASE m = "video" /\ k > 0 /\ s.pes[m] = Unit(u - 1) /\ s.sized[m] = 0
      <4>1. f = EmitPESSlices(s, m) BY <3>2 DEF FinishPrevious
      <4>2. u - 1 \in Nat BY <3>2, <1>0, <1>2
      <4>3. s.pes[m] # << >> BY <3>2 DEF Unit
      <4>4. OnTime(s, u - 1, base, passed) BY <1>0, <1>2, <3>2 DEF SliceFits
      <4> HIDE DEF f
      <4>5. /\ Parses(f, s) /\ OutputSound(f, base, passed) /\ CarrySound(f)
            /\ f.carry \in {s.carry, None}
            /\ \A z \in Media \ {m} : f.pes[z] = s.pes[z] /\ f.sized[z] = s.sized[z]
        <5>1. UnitParsed(f, s, m, u - 1, base, passed) BY <3>2, <4>1, <4>2, <4>4, EmitSound
        <5> QED BY <3>2, <5>1 DEF UnitParsed
      <4> QED BY <3>2, <4>3, <4>5
    <3> HIDE DEF f
    <3> QED BY <2>1, <3>1, <3>2
  <2> HIDE DEF f
  <2>3. DemuxTyped(f) /\ f.pes \in [Media -> Seq(Slices)] /\ f.sized \in [Media -> Int] /\ DOMAIN f = DemuxFields /\ f.pmt = s.pmt
    BY <2>2 DEF Parses, DemuxTyped
  <2>4. /\ DOMAIN t = DemuxFields /\ t.pes = [f.pes EXCEPT ![m] = <<sl>>] /\ t.sized = [f.sized EXCEPT ![m] = n]
        /\ \A g \in DemuxFields \ {"pes", "sized"} : t[g] = f[g]
    <3>1. /\ DOMAIN o = DemuxFields /\ o.pes = [f.pes EXCEPT ![m] = << >>] /\ o.sized = [f.sized EXCEPT ![m] = n]
          /\ \A g \in DemuxFields \ {"pes", "sized"} : o[g] = f[g]
      BY <2>3 DEF DemuxFields
    <3> HIDE DEF o
    <3>2. o.pes[m] = << >> BY <2>3, <3>1
    <3>3. Append(o.pes[m], sl) = <<sl>> BY <3>2
    <3>4. /\ DOMAIN t = DemuxFields /\ t.pes = [o.pes EXCEPT ![m] = Append(o.pes[m], sl)] /\ t.sized = o.sized
          /\ \A g \in DemuxFields \ {"pes", "sized"} : t[g] = o[g]
      BY <3>1 DEF DemuxFields
    <3> HIDE DEF t
    <3>5. t.pes = [f.pes EXCEPT ![m] = <<sl>>] BY <2>3, <3>1, <3>3, <3>4
    <3> QED BY <3>1, <3>4, <3>5
  <2>5. <<sl>> \in Seq(Slices) /\ n \in Int BY <1>0
  <2>6. /\ Parses(t, f) /\ OutputSound(t, base, passed) /\ CarrySound(t) /\ t.carry = f.carry
        /\ (NoVideo(f) => NoVideo(t))
        /\ t.pes[m] = <<sl>> /\ t.sized[m] = n
        /\ \A z \in Media \ {m} : t.pes[z] = f.pes[z] /\ t.sized[z] = f.sized[z]
    <3> HIDE DEF t, n
    <3>1. Queues(t, f, m, <<sl>>, n) BY <2>4 DEF Queues
    <3> QED
      <4>1. QueueSet(t, f, m, <<sl>>, n, base, passed) BY <2>2, <2>3, <2>5, <3>1, QueueSound
      <4> QED BY <4>1 DEF QueueSet
  <2>7. HandlePESSlice(s, p) = t
    <3>1. o.sized[m] = n BY <2>3 DEF DemuxFields
    <3>2. n # None /\ Len(<<sl>>) = 1 BY DEF None
    <3>3. ~(n > 0 /\ 1 = n) /\ ~(n > 0 /\ 1 > n)
      OBVIOUS
    <3>4. HandlePESSlice(s, p) =
            IF o.sized[m] = None THEN o
            ELSE IF t.sized[m] > 0 /\ Len(t.pes[m]) = t.sized[m] THEN EmitPESSlices(t, m)
            ELSE IF t.sized[m] > 0 /\ Len(t.pes[m]) > t.sized[m] THEN ClearSlices(t, m)
            ELSE t
      BY <1>0, <1>2 DEF HandlePESSlice, f
    <3> HIDE DEF t, o, n
    <3> QED BY <2>6, <3>1, <3>2, <3>3, <3>4
  <2>8. sl = [u |-> u, i |-> 0] BY <1>0, <1>2
  <2>9. t.pes[m] \in Queued(m, k)
    <3> HIDE DEF t
    <3> QED BY <1>0, <1>2, <2>6, <2>8 DEF Queued
  <2>10. t.pes[m] # << >>
    <3> HIDE DEF t
    <3> QED BY <2>6
  <2>11. Sized(t, m)
    <3> HIDE DEF t
    <3> QED BY <2>6, <2>10 DEF Sized
  <2>12. m = "audio" /\ t.carry # None => k = 2 * t.carry + 2
    <3> HIDE DEF t
    <3>1. m = "audio" => s.carry = t.carry BY <2>2, <2>6
    <3>2. m = "audio" => s.pes[m] = << >> BY <2>1
    <3> QED BY <3>1, <3>2 DEF SliceFits
  <2>13. Parses(t, s)
    <3> HIDE DEF t
    <3> QED BY <2>2, <2>6 DEF Parses
  <2> HIDE DEF t
  <2>14. NoVideo(s) /\ ~(m = "video" /\ s.pes[m] # << >>) => NoVideo(t)
    <3>1. s.pes[m] # << >> => m = "video" BY <2>1
    <3> QED BY <2>2, <2>6, <3>1
  <2>15. m = "video" => t.carry \in {s.carry, None} BY <2>2, <2>6
  <2>16. \A z \in Media \ {m} : t.pes[z] = s.pes[z] /\ t.sized[z] = s.sized[z]
    BY <2>2, <2>6
  <2>17. SliceHandled(t, s, m, k, base, passed)
    BY <1>2, <2>6, <2>9, <2>10, <2>11, <2>12, <2>13, <2>14, <2>15, <2>16 DEF SliceHandled
  <2> QED BY <2>7, <2>17
<1>3. CASE k % 2 = 1 /\ s.pes[m] = << >>
  <2>1. s.sized[m] = None /\ Sized(s, m) BY <1>3 DEF Sized, SliceFits
  <2>2. HandlePESSlice(s, p) = s BY <1>0, <1>3, <2>1 DEF HandlePESSlice
  <2>3. s.pes[m] \in Queued(m, k) BY <1>3 DEF Queued
  <2>4. m = "audio" => s.carry = None
    <3>1. ASSUME m = "audio", s.carry # None
          PROVE  FALSE
      <4>1. k = 2 * s.carry + 2 /\ s.carry \in Nat BY <1>1, <1>3, <3>1 DEF SliceFits
      <4> QED BY <1>3, <4>1
    <3> QED BY <3>1
  <2>5. SliceHandled(s, s, m, k, base, passed)
    BY <1>3, <2>1, <2>3, <2>4 DEF Parses, SliceHandled
  <2> QED BY <2>2, <2>5
<1>4. CASE k % 2 = 1 /\ s.pes[m] # << >>
  <2> DEFINE t == [s EXCEPT !.pes[m] = Append(@, sl)]
  <2>1. s.pes[m] = <<[u |-> u, i |-> 0]>> /\ s.sized[m] = IF m = "video" THEN 0 ELSE 2
    <3>1. k - 1 # None /\ (k - 1) % 2 = 0 /\ (k - 1) \div 2 = u
      BY <1>0, <1>4 DEF None
    <3>2. s.pes[m] \in Queued(m, k - 1) /\ Sized(s, m) BY <1>4 DEF SliceFits
    <3> QED BY <1>4, <3>1, <3>2 DEF Queued, Sized
  <2>2. Append(s.pes[m], sl) = Unit(u)
    <3>1. sl = [u |-> u, i |-> 1] BY <1>0, <1>4
    <3>2. [u |-> u, i |-> 0] \in Slices BY <1>0 DEF Slices
    <3> QED BY <1>0, <2>1, <3>1, <3>2, AppendPair DEF Unit
  <2>3. Unit(u) \in Seq(Slices) /\ Len(Unit(u)) = 2 /\ Unit(u) # << >>
    BY <1>0 DEF Unit, Slices
  <2>4. /\ DOMAIN t = DemuxFields /\ t.pes = [s.pes EXCEPT ![m] = Unit(u)] /\ t.sized = s.sized
        /\ \A g \in DemuxFields \ {"pes", "sized"} : t[g] = s[g]
    BY <1>1, <2>2 DEF DemuxFields
  <2>5. t.sized = [s.sized EXCEPT ![m] = s.sized[m]] /\ s.sized[m] \in Int
    BY <1>1, <2>4
  <2> HIDE DEF t
  <2>6. /\ Parses(t, s) /\ OutputSound(t, base, passed) /\ CarrySound(t) /\ t.carry = s.carry
        /\ (NoVideo(s) => NoVideo(t))
        /\ t.pes[m] = Unit(u) /\ t.sized[m] = s.sized[m]
        /\ \A z \in Media \ {m} : t.pes[z] = s.pes[z] /\ t.sized[z] = s.sized[z]
    <3>1. Queues(t, s, m, Unit(u), s.sized[m]) BY <2>4, <2>5 DEF Queues
    <3> QED
      <4>1. QueueSet(t, s, m, Unit(u), s.sized[m], base, passed)
        BY <2>3, <2>5, <3>1, QueueSound
      <4> QED BY <4>1 DEF QueueSet
  <2>7. HandlePESSlice(s, p) =
          IF t.sized[m] > 0 /\ Len(t.pes[m]) = t.sized[m] THEN EmitPESSlices(t, m)
          ELSE IF t.sized[m] > 0 /\ Len(t.pes[m]) > t.sized[m] THEN ClearSlices(t, m)
          ELSE t
    <3>1. p.m = m /\ p.slice.i # 0 /\ s.sized[m] # None BY <1>0, <1>4, <2>1 DEF None
    <3>2. Appends(t, s, p, m) BY <1>0 DEF t, Appends
    <3> QED BY <3>1, <3>2, NextSlice
  <2>8. CASE m = "video"
    <3>1. HandlePESSlice(s, p) = t BY <2>1, <2>6, <2>7, <2>8
    <3>2. t.pes[m] \in Queued(m, k)
      <4>1. Queued(m, k) = {<< >>} \cup {Unit(k \div 2)}
        <5>1. k # None /\ ~(k % 2 = 0) BY <1>0, <1>4
        <5> QED BY <2>8, <5>1 DEF Queued, Unit
      <4>2. u = k \div 2 BY <1>0
      <4> QED BY <2>6, <4>1, <4>2
    <3>3. Sized(t, m) BY <2>1, <2>3, <2>6, <2>8 DEF Sized
    <3>4. SliceHandled(t, s, m, k, base, passed)
      BY <1>4, <2>6, <2>8, <3>2, <3>3 DEF SliceHandled
    <3> QED BY <3>1, <3>4
  <2>9. CASE m = "audio"
    <3> DEFINE r == EmitPESSlices(t, m)
    <3>1. HandlePESSlice(s, p) = r BY <2>1, <2>3, <2>6, <2>7, <2>9
    <3>2. t.carry # None => u = t.carry + 1
      <4>1. ASSUME t.carry # None
            PROVE  u = t.carry + 1
        <5>1. t.carry \in Nat /\ (k = 2 * t.carry + 2 \/ k = 2 * t.carry + 3)
          BY <4>1, <2>6, <2>9, <1>1 DEF SliceFits
        <5>2. k = 2 * u + 1 /\ u \in Nat BY <1>0, <1>4
        <5> HIDE DEF t
        <5>3. \A c \in Nat : (k = 2 * c + 2 \/ k = 2 * c + 3) => u = c + 1
          BY <5>2
        <5> QED BY <5>1, <5>3
      <4> QED BY <4>1
    <3>3. /\ Parses(r, t) /\ OutputSound(r, base, passed) /\ CarrySound(r)
          /\ r.carry \in {u, None} /\ (NoVideo(t) => NoVideo(r))
          /\ Cleared(r, m) /\ \A o \in Media \ {m} : r.pes[o] = t.pes[o] /\ r.sized[o] = t.sized[o]
      <4>1. DemuxTyped(t) /\ t.pmt = s.pmt BY <2>6 DEF Parses
      <4>2. u \in Nat BY <1>0
      <4> QED
        <5>1. UnitParsed(r, t, m, u, base, passed)
          BY <2>6, <2>9, <3>2, <4>1, <4>2, EmitSound
        <5> HIDE DEF r
        <5> QED BY <2>9, <5>1 DEF UnitParsed
    <3> HIDE DEF r
    <3>4. r.pes[m] \in Queued(m, k) /\ Sized(r, m) BY <3>3 DEF Cleared, Queued, Sized
    <3>5. r.carry # None => k = 2 * r.carry + 1 BY <1>0, <1>4, <3>3
    <3>6. Parses(r, s) BY <2>6, <3>3 DEF Parses
    <3>7. \A z \in Media \ {m} : r.pes[z] = s.pes[z] /\ r.sized[z] = s.sized[z]
      BY <2>6, <3>3
    <3>8. SliceHandled(r, s, m, k, base, passed)
      BY <1>4, <2>6, <2>9, <3>3, <3>4, <3>5, <3>6, <3>7 DEF SliceHandled
    <3> QED BY <3>1, <3>8
  <2> QED BY <2>8, <2>9 DEF Media
<1> QED BY <1>0, <1>2, <1>3, <1>4

----------------------------------------------------------------------------
(* TsDemux: counters and the clock                                         *)

\* Division with remainder.
LEMMA Division ==
  ASSUME NEW S \in Nat \ {0}, NEW y \in Int
  PROVE  y = S * (y \div S) + (y % S) /\ y \div S \in Int /\ y % S \in 0 .. (S - 1)
OBVIOUS

LEMMA Remainder ==
  ASSUME NEW S \in Nat \ {0}, NEW q \in Int, NEW r \in 0 .. (S - 1)
  PROVE  (S * q + r) % S = r
OBVIOUS

\* A step of less than a round goes round at most once.
LEMMA RoundOnce ==
  ASSUME NEW S \in Nat \ {0}, NEW y \in Nat, NEW d \in Nat, d < S
  PROVE  (y + d) % S = (y % S) + d \/ (y + d) % S = (y % S) + d - S
<1> DEFINE q == y \div S
           r == y % S
<1>1. y = S * q + r /\ q \in Int /\ r \in 0 .. (S - 1) BY Division
<1> HIDE DEF q, r
<1>2. CASE r + d < S
  <2>1. r + d \in 0 .. (S - 1) /\ y + d = S * q + (r + d) BY <1>1, <1>2
  <2>2. (S * q + (r + d)) % S = r + d BY <1>1, <2>1, Remainder
  <2> QED BY <2>1, <2>2 DEF r
<1>3. CASE r + d >= S
  <2>1. r + d - S \in 0 .. (S - 1) /\ y + d = S * (q + 1) + (r + d - S) /\ q + 1 \in Int
    BY <1>1, <1>3
  <2>2. (S * (q + 1) + (r + d - S)) % S = r + d - S BY <2>1, Remainder
  <2> QED BY <2>1, <2>2 DEF r
<1> QED BY <1>1, <1>2, <1>3

LEMMA SameCounter ==
  ASSUME NEW S \in Nat \ {0}, NEW y \in Nat, NEW b \in Nat, y <= b, b < y + S, y % S = b % S
  PROVE  y = b
<1>1. b - y \in Nat /\ b - y < S /\ y + (b - y) = b
  OBVIOUS
<1>2. (y + (b - y)) % S = (y % S) + (b - y) \/ (y + (b - y)) % S = (y % S) + (b - y) - S
  BY <1>1, RoundOnce
<1>3. y % S \in Int BY Division
<1> QED BY <1>1, <1>2, <1>3

LEMMA NextCounter ==
  ASSUME NEW S \in Nat \ {0}, NEW y \in Nat, S > 1
  PROVE  ((y % S) + 1) % S = (y + 1) % S
<1> DEFINE r == y % S
<1>1. r \in 0 .. (S - 1) /\ r \in Nat BY Division
<1> HIDE DEF r
<1>2. r % S = r BY <1>1, Remainder
<1>3. (r + 1) % S = r + 1 \/ (r + 1) % S = r + 1 - S
  <2>1. (r + 1) % S = (r % S) + 1 \/ (r + 1) % S = (r % S) + 1 - S
    BY <1>1, RoundOnce
  <2> QED BY <1>2, <2>1
<1>4. (y + 1) % S = r + 1 \/ (y + 1) % S = r + 1 - S BY RoundOnce DEF r
<1>5. (r + 1) % S \in 0 .. (S - 1) /\ (y + 1) % S \in 0 .. (S - 1)
  BY <1>1, Division
<1>6. (r + 1) % S = (y + 1) % S BY <1>1, <1>3, <1>4, <1>5
<1> QED BY <1>6 DEF r

\* The counter kept after packet l tells packet k from a repetition and from
\* its successor, while fewer packets than a round were lost.
Counts(cc, l) == cc = IF l = None THEN None ELSE l % CC
Tells(cc, l, k) ==
  /\ cc = k % CC <=> l = k
  /\ (cc # None /\ k % CC # (cc + 1) % CC) <=> (l # None /\ k # l + 1)
LEMMA CounterTells ==
  ASSUME NEW cc, NEW l \in Nat \cup {None}, NEW k \in Nat, Counts(cc, l),
         l # None => l <= k /\ k < l + CC
  PROVE  Tells(cc, l, k)
<1>1. CC \in Nat \ {0} /\ CC > 1 BY TsFacts
<1>2. k % CC \in 0 .. (CC - 1) BY <1>1, Division
<1>3. CASE l = None BY <1>2, <1>3 DEF Counts, None, Tells
<1>4. CASE l # None
  <2>1. l \in Nat /\ l <= k /\ k < l + CC /\ cc = l % CC BY <1>4 DEF Counts
  <2>2. l % CC \in 0 .. (CC - 1) BY <1>1, <2>1, Division
  <2>3. l % CC = k % CC => l = k BY <1>1, <2>1, SameCounter
  <2>4. ((l % CC) + 1) % CC = (l + 1) % CC BY <1>1, <2>1, NextCounter
  <2>5. k % CC = (l + 1) % CC => k = l + 1
    <3>1. CASE k = l
      <4>1. (l + 1) % CC = (l % CC) + 1 \/ (l + 1) % CC = (l % CC) + 1 - CC
        BY <1>1, <2>1, RoundOnce
      <4> QED BY <1>1, <2>2, <3>1, <4>1
    <3>2. CASE k # l
      <4>1. l + 1 \in Nat /\ l + 1 <= k /\ k < (l + 1) + CC BY <1>1, <2>1, <3>2
      <4> QED BY <1>1, <4>1, SameCounter
    <3> QED BY <3>1, <3>2
  <2>6. cc # None BY <2>1, <2>2 DEF None
  <2> QED BY <1>4, <2>1, <2>3, <2>4, <2>5, <2>6 DEF Tells
<1> QED BY <1>3, <1>4

\* getTimestamp, getPcrBase: what is sent less than half a round after the time
\* that was read last gets its true time.
Followed(s, y) == s.pcr \in Nat /\ s.offset = s.pcr - (y % WRAP)
PcrSet(r, s, c, o) == r = [s EXCEPT !.pcr = c, !.offset = o]
LEMMA TimeFollows ==
  ASSUME NEW s, NEW y \in Nat, Followed(s, y), NEW d \in Nat, 2 * d < WRAP
  PROVE  /\ GetTimestamp(s, y + d) = s.pcr + d
         /\ PcrSet(GetPcrBase(s, y + d), s, s.pcr + d, (s.pcr + d) - ((y + d) % WRAP))
<1>1. WRAP \in Nat \ {0} /\ d < WRAP BY TsFacts
<1>2. (y + d) % WRAP = (y % WRAP) + d \/ (y + d) % WRAP = (y % WRAP) + d - WRAP
  BY <1>1, RoundOnce
<1>3. y % WRAP \in Int BY <1>1, Division
<1> DEFINE v == (y + d) % WRAP
           b == v + s.offset
           half == WRAP \div 2
<1>4. s.pcr \in Nat /\ s.pcr # None /\ s.offset \in Int BY <1>3 DEF Followed, None
<1>5. half \in Int /\ 2 * half <= WRAP /\ WRAP <= 2 * half + 1
  <2>1. WRAP = 2 * (WRAP \div 2) + (WRAP % 2) /\ WRAP % 2 \in 0 .. 1
    BY <1>1, Division
  <2> QED BY <1>1, <2>1
<1>6. v \in Int /\ b \in Int BY <1>2, <1>3, <1>4, <1>1
<1> HIDE DEF half
<1>7. \/ b = s.pcr + d /\ s.offset = s.pcr + d - v /\ ~(b + half < s.pcr)
      \/ b + WRAP = s.pcr + d /\ s.offset + WRAP = s.pcr + d - v /\ b + half < s.pcr
  <2> DEFINE g == y % WRAP
  <2>1. (v = g + d \/ v = g + d - WRAP) /\ s.offset = s.pcr - g /\ g \in Int
    BY <1>2, <1>3 DEF Followed
  <2> HIDE DEF v, g
  <2>2. CASE v = g + d
    <3>1. b = s.pcr + d /\ s.offset = s.pcr + d - v BY <1>4, <2>1, <2>2
    <3>2. half >= 0 BY <1>1, <1>5
    <3> HIDE DEF b
    <3> QED BY <1>4, <1>5, <3>1, <3>2
  <2>3. CASE v = g + d - WRAP
    <3>1. b + WRAP = s.pcr + d /\ s.offset + WRAP = s.pcr + d - v
      BY <1>1, <1>4, <2>1, <2>3
    <3>2. d + half < WRAP BY <1>1, <1>5
    <3>3. b + half < s.pcr BY <1>1, <1>4, <1>5, <1>6, <3>1, <3>2
    <3> QED BY <3>1, <3>3
  <2> QED BY <2>1, <2>2, <2>3
<1> HIDE DEF v
<1>8. GetTimestamp(s, y + d) = s.pcr + d
  <2>1. GetTimestamp(s, y + d) = IF s.pcr # None /\ b + half < s.pcr THEN b + WRAP ELSE b
    BY DEF GetTimestamp, v, half
  <2> HIDE DEF b
  <2> QED BY <1>4, <1>7, <2>1
<1>9. PcrSet(GetPcrBase(s, y + d), s, s.pcr + d, (s.pcr + d) - v)
  <2>1. GetPcrBase(s, y + d) =
          [s EXCEPT !.pcr = IF s.pcr # None /\ b + half < s.pcr THEN b + WRAP ELSE b,
                    !.offset = IF s.pcr # None /\ b + half < s.pcr THEN s.offset + WRAP ELSE s.offset]
    BY DEF GetPcrBase, v, half
  <2> HIDE DEF b
  <2>2. \/ ~(b + half < s.pcr) /\ b = s.pcr + d /\ s.offset = (s.pcr + d) - v
        \/ b + half < s.pcr /\ b + WRAP = s.pcr + d /\ s.offset + WRAP = (s.pcr + d) - v
    BY <1>1, <1>4, <1>6, <1>7
  <2> QED BY <1>4, <2>1, <2>2 DEF PcrSet
<1> QED BY <1>8, <1>9 DEF v
----------------------------------------------------------------------------
(* TsDemux: packets                                                        *)

\* Without video it does not matter how many wraps have passed.
LEMMA Rebased ==
  ASSUME NEW s, DemuxTyped(s), NoVideo(s), NEW base, NEW passed, NEW w, OutputSound(s, base, passed)
  PROVE  OutputSound(s, base, w)
<1>1. s.aTrack \in Seq(AudioItems) /\ s.vTrack = << >> BY DEF DemuxTyped, NoVideo
<1>2. \A i \in DOMAIN s.out : Whole(s.out[i], base, w) BY DEF OutputSound, NoVideo, Whole
<1>3. \A i \in DOMAIN s.aTrack : Whole(s.aTrack[i], base, w)
  <2> TAKE i \in DOMAIN s.aTrack
  <2>1. s.aTrack[i] \in AudioItems BY <1>1
  <2>2. s.aTrack[i].k # "v" BY <2>1 DEF AudioItems
  <2>3. Whole(s.aTrack[i], base, passed) BY DEF OutputSound
  <2> QED BY <2>2, <2>3 DEF Whole
<1> QED BY <1>1, <1>2, <1>3 DEF OutputSound

\* The demuxer t after the PCR of packet k of stream m was read in s, with q to
\* come of the transport.
Timed(t, s, q, m, k, w) ==
  /\ DemuxTyped(t) /\ CarrySound(t) /\ OutputSound(t, q.start, w) /\ t.carry = s.carry
  /\ t.pmt = s.pmt /\ t.cc = s.cc /\ t.pes = s.pes /\ t.sized = s.sized
  /\ m = "video" /\ k % 2 = 0 => ClockAt(t, q.start, k \div 2, w)
  /\ \/ NoClock(t) /\ ~(m = "video" /\ k % 2 = 0)
     \/ \E p \in Nat : ClockSound(t, q, p, w)

\* Packet k of stream m arrives, with n known of the transport before and q
\* after it: the next one, or (not in the segments of a playlist) the last one
\* again.
Arrives(n, q, m, k) ==
  /\ NetTyped(n) /\ NetTyped(q)
  /\ q.start = n.start /\ q.hls = n.hls /\ n.lost <= q.lost
  /\ q.next = [n.next EXCEPT ![m] = k + 1] /\ q.gap = [n.gap EXCEPT ![m] = 0]
  /\ k = n.next[m] \/ (k + 1 = n.next[m] /\ n.lost + 1 <= q.lost /\ ~n.hls)

Arrived(n, q, m, k) ==
  /\ n.lost \in Nat /\ q.lost \in Nat /\ n.lost <= q.lost /\ q.lost <= MaxLost
  /\ n.next[m] \in Nat /\ q.next[m] = k + 1
  /\ \A o \in Media \ {m} : q.next[o] = n.next[o]
  /\ k = n.next[m] \/ (k + 1 = n.next[m] /\ n.lost + 1 <= q.lost /\ ~n.hls)
  /\ n.next \in [Media -> Nat] /\ q.next \in [Media -> Nat]
  /\ n.gap[m] \in Nat /\ n.gap[m] <= MaxInRow /\ q.gap[m] = 0 /\ \A o \in Media \ {m} : q.gap[o] = n.gap[o]
  /\ n.gap \in [Media -> 0 .. MaxInRow]

LEMMA ArrivalFacts ==
  ASSUME NEW n, NEW q, NEW m \in Media, NEW k \in Nat, Arrives(n, q, m, k)
  PROVE  Arrived(n, q, m, k)
<1>1. /\ n.next \in [Media -> Nat] /\ q.next \in [Media -> Nat] /\ n.lost \in 0 .. MaxLost /\ q.lost \in 0 .. MaxLost
      /\ q.next = [n.next EXCEPT ![m] = k + 1] /\ n.lost <= q.lost
  BY DEF Arrives, NetTyped
<1>2. n.lost \in Nat /\ q.lost \in Nat /\ q.lost <= MaxLost
  BY <1>1, TsFacts
<1>3. k = n.next[m] \/ (k + 1 = n.next[m] /\ n.lost + 1 <= q.lost /\ ~n.hls)
  BY DEF Arrives
<1>4. /\ n.gap[m] \in Nat /\ n.gap[m] <= MaxInRow /\ q.gap[m] = 0
      /\ \A o \in Media \ {m} : q.gap[o] = n.gap[o]
      /\ n.gap \in [Media -> 0 .. MaxInRow]
  <2>1. n.gap \in [Media -> 0 .. MaxInRow] /\ q.gap = [n.gap EXCEPT ![m] = 0]
    BY DEF Arrives, NetTyped
  <2> QED BY <2>1, TsFacts
<1> QED BY <1>1, <1>2, <1>3, <1>4 DEF Arrived

\* The clock after packet k, when its PCR is not read.
LEMMA ClockGoesOn ==
  ASSUME NEW s, NEW n, NEW q, NEW m \in Media, NEW k \in Nat, Arrives(n, q, m, k),
         ~(m = "video" /\ k % 2 = 0), NEW p \in Nat, NEW w, ClockSound(s, n, p, w)
  PROVE  ClockSound(s, q, p, w)
<1>1. /\ n.lost \in Nat /\ q.lost \in Nat /\ n.lost <= q.lost /\ n.next[m] \in Nat /\ q.next[m] = k + 1
      /\ \A o \in Media \ {m} : q.next[o] = n.next[o]
      /\ k = n.next[m] \/ (k + 1 = n.next[m] /\ n.lost + 1 <= q.lost /\ ~n.hls)
      /\ n.next \in [Media -> Nat] /\ q.start = n.start
  BY ArrivalFacts DEF Arrives, Arrived
<1>2. ClockAt(s, q.start, p, w) /\ 2 * p < n.next["video"] /\ n.next["video"] <= 2 * (p + 1 + n.lost)
  BY <1>1 DEF ClockSound
<1>3. 2 * p < q.next["video"] /\ q.next["video"] <= 2 * (p + 1 + q.lost)
  <2>1. CASE m = "audio"
    <3>1. q.next["video"] = n.next["video"] /\ n.next["video"] \in Nat
      BY <1>1, <2>1 DEF Media
    <3> QED BY <1>1, <1>2, <3>1
  <2>2. CASE m = "video"
    <3>1. k = 2 * (k \div 2) + 1 /\ k \div 2 \in Nat
      <4>1. k = 2 * (k \div 2) + (k % 2) /\ k % 2 \in {0, 1} /\ k \div 2 \in Nat
        OBVIOUS
      <4> QED BY <2>2, <4>1
    <3> DEFINE half == k \div 2
    <3> HIDE DEF half
    <3>2. k = 2 * half + 1 /\ half \in Nat BY <3>1 DEF half
    <3>3. q.next["video"] = k + 1 /\ n.next["video"] \in Nat /\ (k = n.next["video"] \/ k + 1 = n.next["video"])
      BY <1>1, <2>2
    <3> QED BY <1>1, <1>2, <3>2, <3>3
  <2> QED BY <2>1, <2>2 DEF Media
<1> QED BY <1>2, <1>3 DEF ClockSound
\* The PCR of packet k was read.
LEMMA PcrRead ==
  ASSUME NEW s, NEW n, NEW q, NEW k \in Nat, Arrives(n, q, "video", k), k % 2 = 0,
         DemuxTyped(s), CarrySound(s), NEW w, OutputSound(s, n.start, w),
         NEW r, NEW c \in Nat, NEW o \in Int, PcrSet(r, s, c, o), ClockAt(r, n.start, k \div 2, w)
  PROVE  Timed(r, s, q, "video", k, w)
<1>1. DOMAIN s = DemuxFields /\ s.pcr \in Nat \cup {None} /\ s.offset \in Int
      /\ s.cc \in [Media -> Int] /\ s.pes \in [Media -> Seq(Slices)] /\ s.sized \in [Media -> Int] /\ s.pmt \in BOOLEAN
  BY DEF DemuxTyped
<1>2. /\ DOMAIN r = DemuxFields /\ r.pcr = c /\ r.offset = o
      /\ \A f \in DemuxFields \ {"pcr", "offset"} : r[f] = s[f]
  BY <1>1 DEF PcrSet, DemuxFields
<1>3. r.cc = s.cc /\ r.pes = s.pes /\ r.sized = s.sized /\ r.pmt = s.pmt
  BY <1>2 DEF DemuxFields
<1>4. Requeues(r, s) BY <1>1, <1>2, <1>3 DEF Requeues
<1>5. DemuxTyped(r) /\ CarrySound(r) /\ OutputSound(r, n.start, w) /\ r.carry = s.carry
  BY <1>4, QueueFields
<1>6. q.start = n.start BY DEF Arrives
<1>7. ClockSound(r, q, k \div 2, w)
  <2>1. q.lost \in Nat /\ q.next["video"] = k + 1
    <3>1. Arrived(n, q, "video", k) BY ArrivalFacts DEF Media
    <3> QED BY <3>1 DEF Arrived
  <2>2. k = 2 * (k \div 2)
    OBVIOUS
  <2>3. 2 * (k \div 2) < k + 1 /\ k + 1 <= 2 * ((k \div 2) + 1 + q.lost)
    BY <2>1, <2>2
  <2> QED BY <1>6, <2>1, <2>3 DEF ClockSound
<1>8. k \div 2 \in Nat
  OBVIOUS
<1> QED BY <1>3, <1>5, <1>6, <1>7, <1>8 DEF Timed

\* getPcrBase: the clock is set, or follows the sender's.
LEMMA ClockReads ==
  ASSUME NEW s, NEW n, NEW q, NEW k \in Nat, Arrives(n, q, "video", k), k % 2 = 0,
         DemuxTyped(s), CarrySound(s), NEW passed \in Nat, OutputSound(s, n.start, passed),
         NoClock(s) \/ \E p \in Nat : ClockSound(s, n, p, passed),
         n.start = net.start
  PROVE  \E w \in Nat : Timed(GetPcrBase(s, At(k \div 2)), s, q, "video", k, w)
<1> DEFINE u == k \div 2
           base == n.start
           r == GetPcrBase(s, At(u))
<1>1. u \in Nat /\ k = 2 * u
  OBVIOUS
<1>2. base \in Nat BY DEF Arrives, NetTyped
<1>3. WRAP \in Nat \ {0} /\ MaxLost \in Nat /\ 2 * (MaxLost + 1) < WRAP
  BY TsFacts
<1>4. At(u) = base + u BY DEF At
<1> HIDE DEF u, base
<1>5. CASE NoClock(s)
  <2> DEFINE y == base + u
             w == y \div WRAP
             c == y % WRAP
  <2>1. y = WRAP * w + c /\ w \in Int /\ c \in 0 .. (WRAP - 1) /\ y \in Nat
    <3>1. y \in Nat /\ y \in Int BY <1>1, <1>2
    <3> HIDE DEF y
    <3> QED BY <1>3, <3>1, Division
  <2>2. PcrSet(r, s, c, 0)
    <3>1. s.pcr = None /\ s.offset = 0 /\ y % WRAP \in Int
      BY <1>1, <1>2, <1>3, <1>5, <2>1 DEF NoClock
    <3>2. (y % WRAP) + s.offset = c BY <3>1
    <3> QED BY <1>4, <3>1, <3>2 DEF GetPcrBase, PcrSet
  <2> HIDE DEF r, w
  <2>3. w \in Nat
    <3>1. ASSUME w < 0
          PROVE  FALSE
      <4>1. w + 1 <= 0 BY <2>1, <3>1
      <4>2. WRAP * (w + 1) <= 0 BY <1>3, <2>1, <4>1
      <4> QED BY <1>3, <2>1, <4>2
    <3> QED BY <2>1, <3>1
  <2>4. ClockAt(r, base, u, w)
    <3>1. DOMAIN s = DemuxFields BY DEF DemuxTyped
    <3>2. r.pcr = c /\ r.offset = 0 BY <2>2, <3>1 DEF PcrSet, DemuxFields
    <3>3. c \in Nat /\ c = y - w * WRAP /\ 0 = c - (y % WRAP)
      BY <1>3, <2>1
    <3>4. y - w * WRAP = base + u - w * WRAP BY <1>1, <1>2, <1>3, <2>1
    <3>5. r.pcr \in Nat /\ r.pcr = base + u - w * WRAP /\ r.offset = r.pcr - ((base + u) % WRAP)
      BY <3>2, <3>3, <3>4
    <3> QED BY <3>5 DEF ClockAt
  <2>5. OutputSound(s, n.start, w) BY <1>5, Rebased DEF NoClock, NoVideo
  <2>6. Timed(r, s, q, "video", k, w) BY <2>1, <2>2, <2>4, <2>5, PcrRead DEF base, u
  <2> QED BY <2>3, <2>6 DEF r, u
<1>6. CASE ~NoClock(s)
  <2>1. PICK p \in Nat : ClockSound(s, n, p, passed) BY <1>6
  <2> DEFINE d == u - p
             y == base + p
  <2>2. d \in Nat /\ 2 * d < WRAP
    <3>1. /\ n.lost \in Nat /\ q.lost \in Nat /\ n.lost <= q.lost /\ q.lost <= MaxLost /\ n.next["video"] \in Nat
          /\ k = n.next["video"] \/ (k + 1 = n.next["video"] /\ n.lost + 1 <= q.lost)
      BY ArrivalFacts DEF Arrived, Media
    <3>2. 2 * p < n.next["video"] /\ n.next["video"] <= 2 * (p + 1 + n.lost)
      BY <2>1 DEF ClockSound
    <3>3. p <= u /\ u <= p + 1 + n.lost BY <1>1, <3>1, <3>2
    <3>4. d <= MaxLost + 1 BY <1>1, <1>3, <3>1, <3>3
    <3> QED BY <1>1, <1>3, <3>3, <3>4
  <2>3. Followed(s, y) /\ y \in Nat /\ y + d = base + u
    BY <1>1, <1>2, <2>1 DEF ClockSound, ClockAt, Followed, base
  <2> DEFINE c == s.pcr + d
             o == (s.pcr + d) - ((y + d) % WRAP)
  <2>4. PcrSet(r, s, c, o)
    <3>1. At(u) = y + d BY <1>4, <2>3
    <3> HIDE DEF y, d
    <3>2. PcrSet(GetPcrBase(s, y + d), s, s.pcr + d, (s.pcr + d) - ((y + d) % WRAP))
      BY <2>2, <2>3, TimeFollows
    <3> QED BY <3>1, <3>2
  <2>5. s.pcr \in Nat /\ s.pcr = y - passed * WRAP
    <3>1. ClockAt(s, base, p, passed) BY <2>1 DEF ClockSound, base
    <3>2. s.pcr \in Nat /\ s.pcr = base + p - passed * WRAP BY <3>1 DEF ClockAt
    <3>3. passed * WRAP \in Int BY <1>3
    <3>4. base + p - passed * WRAP = (base + p) - passed * WRAP
      BY <1>2, <3>3
    <3> QED BY <3>2, <3>4
  <2>6. c \in Nat /\ o \in Int
    <3>1. (y + d) % WRAP \in Int
      <4>1. y + d \in Int BY <2>2, <2>3
      <4> HIDE DEF y, d
      <4> QED BY <1>3, <4>1, Division
    <3> QED BY <2>2, <2>5, <3>1
  <2> HIDE DEF r
  <2>7. ClockAt(r, base, u, passed)
    <3>1. DOMAIN s = DemuxFields BY DEF DemuxTyped
    <3>2. r.pcr = c /\ r.offset = o
      <4> HIDE DEF c, o
      <4> QED BY <2>4, <3>1 DEF PcrSet, DemuxFields
    <3>3. passed * WRAP \in Int BY <1>3
    <3>4. c = (y + d) - passed * WRAP
      <4> DEFINE lap == passed * WRAP
      <4> HIDE DEF lap
      <4>1. s.pcr = y - lap /\ lap \in Int BY <2>5, <3>3 DEF lap
      <4>2. s.pcr + d = (y + d) - lap BY <2>2, <2>3, <4>1
      <4> QED BY <4>2 DEF lap
    <3>5. o = c - ((y + d) % WRAP)
      OBVIOUS
    <3> HIDE DEF c, o, y, d
    <3>6. (base + u) - passed * WRAP = base + u - passed * WRAP
      BY <1>1, <1>2, <3>3
    <3>7. r.pcr \in Nat /\ r.pcr = base + u - passed * WRAP /\ r.offset = r.pcr - ((base + u) % WRAP)
      BY <2>3, <2>6, <3>2, <3>4, <3>5, <3>6
    <3> QED BY <3>7 DEF ClockAt
  <2> HIDE DEF c, o, y, d
  <2>8. Timed(r, s, q, "video", k, passed) BY <2>4, <2>6, <2>7, PcrRead DEF base, u
  <2> QED BY <2>8 DEF r, u
<1> QED BY <1>5, <1>6

\* A unit that ends where the PCR of the next one was read gets its time.
LEMMA UnitOnTime ==
  ASSUME NEW s, NEW base \in Nat, base = net.start, NEW u \in Nat, NEW w \in Nat,
         ClockAt(s, base, u + 1, w)
  PROVE  OnTime(s, u, base, w)
<1> DEFINE y == base + (u + 1)
           d == Delay - 1
           z == w * WRAP
<1>1. Delay \in Nat /\ Delay > 0 /\ 2 * Delay < WRAP /\ WRAP \in Nat
  BY TsFacts
<1>2. y \in Nat /\ d \in Nat /\ 2 * d < WRAP /\ z \in Int
  BY <1>1
<1>3. Followed(s, y) /\ s.pcr = y - z
  <2>1. s.pcr \in Nat /\ s.pcr = base + (u + 1) - w * WRAP /\ s.offset = s.pcr - ((base + (u + 1)) % WRAP)
    BY DEF ClockAt
  <2>2. base + (u + 1) - w * WRAP = (base + (u + 1)) - w * WRAP
    BY <1>2
  <2> QED BY <2>1, <2>2 DEF Followed
<1>4. Pts(u) = y + d BY <1>1 DEF Pts, At
<1>5. GetTimestamp(s, y + d) = s.pcr + d
  <2> HIDE DEF y, d
  <2> QED BY <1>2, <1>3, TimeFollows
<1>6. s.pcr + d = base + u + Delay - z /\ base + u + Delay - z \in Int
  <2> HIDE DEF z
  <2> QED BY <1>1, <1>2, <1>3
<1> QED BY <1>4, <1>5, <1>6 DEF OnTime
\* The tracks and the half frame, with l the packets parsed last.
TracksKept(s, n, l) ==
  /\ l \in [Media -> Nat \cup {None}]
  /\ \A m \in Media : TrackSound(s, n, m, l[m])
  /\ FollowsCarry(s, n, l["audio"])

\* What packet k of stream m meets where l was the last one.
LEMMA LastAndNext ==
  ASSUME NEW s, NEW n, NEW q, NEW m \in Media, NEW k \in Nat, Arrives(n, q, m, k),
         NEW l, TracksKept(s, n, l)
  PROVE  /\ Counts(s.cc[m], l[m]) /\ l[m] \in Nat \cup {None}
         /\ l[m] # None => l[m] <= k /\ k < l[m] + CC
         /\ l[m] = k => k + 1 = n.next[m]
<1>1. TrackSound(s, n, m, l[m]) /\ l[m] \in Nat \cup {None}
  BY DEF TracksKept
<1>2. /\ Counts(s.cc[m], l[m]) /\ l[m] < n.next[m] /\ (l[m] # None => n.next[m] = l[m] + 1 + n.gap[m])
  BY <1>1 DEF TrackSound, Counts
<1>3. /\ n.gap[m] \in Nat /\ n.gap[m] <= MaxInRow /\ n.next[m] \in Nat
      /\ k = n.next[m] \/ k + 1 = n.next[m]
  BY ArrivalFacts, ZenonT(60) DEF Arrived
<1>4. MaxInRow + 1 < CC /\ CC \in Nat /\ MaxInRow \in Nat
  BY TsFacts
<1> QED BY <1>1, <1>2, <1>3, <1>4

\* Streams whose packets were not parsed stay as they are.
LEMMA TrackStays ==
  ASSUME NEW s, NEW n, NEW q, NEW m \in Media, NEW l \in Nat \cup {None}, TrackSound(s, n, m, l),
         NEW r, r.cc[m] = s.cc[m], Cleared(r, m) \/ (r.pes[m] = s.pes[m] /\ r.sized[m] = s.sized[m]),
         q.next[m] = n.next[m], q.gap[m] = n.gap[m]
  PROVE  TrackSound(r, q, m, l)
<1>1. r.cc[m] = IF l = None THEN None ELSE l % CC BY DEF TrackSound
<1>2. l < q.next[m] /\ (l # None => q.next[m] = l + 1 + q.gap[m])
  <2>1. l < n.next[m] /\ (l # None => n.next[m] = l + 1 + n.gap[m])
    BY DEF TrackSound
  <2> QED BY <2>1 DEF None
<1>3. r.pes[m] \in Queued(m, l) /\ r.sized[m] = IF r.pes[m] = << >> THEN None ELSE IF m = "video" THEN 0 ELSE 2
  BY DEF TrackSound, Cleared, Queued
<1> QED BY <1>1, <1>2, <1>3 DEF TrackSound

\* The demuxer c before packet k is put into its queue.
Ready(c, t, base, w, m, k) ==
  /\ DemuxTyped(c) /\ CarrySound(c) /\ OutputSound(c, base, w) /\ c.carry \in {t.carry, None}
  /\ c.pmt = t.pmt /\ c.cc = t.cc /\ c.pcr = t.pcr /\ c.offset = t.offset
  /\ NoVideo(t) => NoVideo(c)
  /\ c.pes[m] \in {t.pes[m], << >>}
  /\ \A o \in Media \ {m} :
       \/ Cleared(c, o) /\ (o = "audio" => c.carry = None)
       \/ c.pes[o] = t.pes[o] /\ c.sized[o] = t.sized[o]
  /\ SliceFits(c, m, k, base, w)

Continued(t, p, m) == IF Gap(t, p) THEN HandleTrackDiscontinuity(t, m) ELSE t

LEMMA ReadyAfterCheck ==
  ASSUME NEW s, NEW n, NEW q, NEW m \in Media, NEW k \in Nat, Arrives(n, q, m, k), n.start = net.start,
         NEW l, TracksKept(s, n, l), NEW w \in Nat, NEW t, Timed(t, s, q, m, k, w), NEW flagged \in BOOLEAN,
         ~Duplicate(t, Packet(m, k, flagged))
  PROVE  Ready(Continued(t, Packet(m, k, flagged), m), t, n.start, w, m, k)
<1> DEFINE p == Packet(m, k, flagged)
           base == n.start
           c == Continued(t, p, m)
<1>1. base \in Nat /\ q.start = base BY DEF Arrives, NetTyped
<1>2. /\ DemuxTyped(t) /\ CarrySound(t) /\ OutputSound(t, base, w) /\ t.carry = s.carry
      /\ t.pmt = s.pmt /\ t.cc = s.cc /\ t.pes = s.pes /\ t.sized = s.sized
  BY <1>1 DEF Timed
<1>3. /\ Counts(s.cc[m], l[m]) /\ l[m] \in Nat \cup {None}
      /\ (l[m] # None => l[m] <= k /\ k < l[m] + CC)
      /\ (l[m] = k => k + 1 = n.next[m])
  BY LastAndNext
<1>4. p.m = m /\ p.cc = k % CC /\ p.flagged = flagged BY DEF Packet
<1> HIDE DEF p
<1>5. /\ s.cc[m] = k % CC <=> l[m] = k
      /\ (s.cc[m] # None /\ k % CC # (s.cc[m] + 1) % CC) <=> (l[m] # None /\ k # l[m] + 1)
  <2>1. Tells(s.cc[m], l[m], k) BY <1>3, CounterTells
  <2> QED BY <2>1 DEF Tells
<1>6. ASSUME m = "video", k % 2 = 0, k > 0, NEW r, r.pcr = t.pcr, r.offset = t.offset
      PROVE  OnTime(r, (k \div 2) - 1, base, w)
  <2>1. ClockAt(t, base, k \div 2, w) BY <1>1, <1>6 DEF Timed
  <2>2. ClockAt(r, base, k \div 2, w) BY <1>6, <2>1 DEF ClockAt
  <2> DEFINE u == (k \div 2) - 1
  <2>3. u \in Nat /\ u + 1 = k \div 2 BY <1>6
  <2> HIDE DEF u
  <2>4. ClockAt(r, base, u + 1, w) BY <2>2, <2>3
  <2>5. OnTime(r, u, base, w) BY <1>1, <2>3, <2>4, UnitOnTime
  <2> QED BY <2>5 DEF u
<1>7. CASE Gap(t, p)
  <2>1. c = HandleTrackDiscontinuity(t, m) BY <1>7 DEF Continued
  <2> HIDE DEF c
  <2>2. /\ DemuxTyped(c) /\ CarrySound(c) /\ OutputSound(c, base, w) /\ c.carry = None
        /\ c.pmt = t.pmt /\ c.cc = t.cc /\ c.pcr = t.pcr /\ c.offset = t.offset
        /\ (NoVideo(t) => NoVideo(c))
        /\ Cleared(c, m)
        /\ \A o \in Media \ {m} : Cleared(c, o) \/ (c.pes[o] = t.pes[o] /\ c.sized[o] = t.sized[o])
    BY <1>2, <2>1, DiscontinuitySound
  <2>3. Sized(c, m) /\ c.pes[m] = << >> BY <2>2 DEF Cleared, Sized
  <2>4. m = "video" /\ k % 2 = 0 /\ k > 0 => OnTime(c, (k \div 2) - 1, base, w)
    BY <1>6, <2>2
  <2>5. SliceFits(c, m, k, base, w) BY <2>2, <2>3, <2>4 DEF SliceFits
  <2>6. Ready(c, t, base, w, m, k) BY <2>2, <2>3, <2>5 DEF Ready
  <2> QED BY <2>6 DEF c, p
<1>8. CASE ~Gap(t, p)
  <2>1. c = t BY <1>8 DEF Continued
  <2> HIDE DEF c
  <2>2. ~flagged /\ (l[m] = None \/ k = l[m] + 1) BY <1>2, <1>4, <1>5, <1>8 DEF Gap
  <2>3. TrackSound(s, n, m, l[m]) /\ FollowsCarry(s, n, l["audio"])
    BY DEF TracksKept
  <2>4. Sized(t, m) /\ t.pes[m] \in Queued(m, l[m]) BY <1>2, <2>3 DEF TrackSound, Sized
  <2>5. t.pes[m] = << >> \/ (k > 0 /\ t.pes[m] \in Queued(m, k - 1))
    <3>1. CASE l[m] = None BY <2>4, <3>1 DEF Queued
    <3>2. CASE l[m] # None
      <4>1. l[m] \in Nat /\ k = l[m] + 1 BY <1>3, <2>2, <3>2
      <4>2. k > 0 /\ k - 1 = l[m] BY <4>1
      <4> QED BY <2>4, <4>2
    <3> QED BY <3>1, <3>2
  <2>6. m = "video" /\ k % 2 = 0 /\ k > 0 => OnTime(t, (k \div 2) - 1, base, w)
    BY <1>6
  <2>7. m = "audio" /\ t.carry # None => k = 2 * t.carry + 2 \/ (k = 2 * t.carry + 3 /\ t.pes[m] # << >>)
    <3>1. ASSUME m = "audio", t.carry # None
          PROVE  k = 2 * t.carry + 2 \/ (k = 2 * t.carry + 3 /\ t.pes[m] # << >>)
      <4>1. t.carry \in Nat BY <1>2, <3>1 DEF DemuxTyped
      <4>2. \/ l[m] = None /\ n.hls /\ n.next[m] = 2 * t.carry + 2
            \/ l[m] = 2 * t.carry + 1
            \/ l[m] = 2 * t.carry + 2 /\ t.pes[m] # << >>
        BY <1>2, <2>3, <3>1 DEF FollowsCarry
      <4>3. 2 * t.carry + 1 # None /\ 2 * t.carry + 2 # None BY <4>1 DEF None
      <4>4. n.hls => k = n.next[m] BY DEF Arrives
      <4> QED BY <2>2, <4>1, <4>2, <4>3, <4>4
    <3> QED BY <3>1
  <2>8. SliceFits(t, m, k, base, w) BY <2>4, <2>5, <2>6, <2>7 DEF SliceFits
  <2>9. Ready(c, t, base, w, m, k) BY <1>2, <2>1, <2>8 DEF Ready
  <2> QED BY <2>9 DEF c, p
<1> QED BY <1>7, <1>8
\* The demuxer r after packet k of stream m was put into its queue.
PacketHandled(r, t, base, w, m, k) ==
  /\ DemuxTyped(r) /\ CarrySound(r) /\ OutputSound(r, base, w)
  /\ r.pmt = t.pmt /\ r.cc = [t.cc EXCEPT ![m] = k % CC] /\ r.pcr = t.pcr /\ r.offset = t.offset
  /\ r.pes[m] \in Queued(m, k) /\ Sized(r, m)
  /\ \A o \in Media \ {m} :
       \/ Cleared(r, o) /\ (o = "audio" => r.carry = None)
       \/ r.pes[o] = t.pes[o] /\ r.sized[o] = t.sized[o]
  /\ m = "video" => r.carry \in {t.carry, None}
  /\ m = "audio" /\ r.carry # None =>
       k = 2 * r.carry + 1 \/ (k = 2 * r.carry + 2 /\ r.pes[m] # << >>)
  /\ NoVideo(t) /\ ~(m = "video" /\ t.pes[m] # << >>) => NoVideo(r)
  /\ m = "video" /\ k % 2 = 1 /\ t.pes[m] = << >> => r.pes[m] = << >>

LEMMA HandledAfterReady ==
  ASSUME NEW t, NEW base, NEW w, NEW m \in Media, NEW k \in Nat, NEW c, Ready(c, t, base, w, m, k),
         t.pmt, t.cc \in [Media -> Int], NEW p, Carries(p, m, k), NEW d, d = [c EXCEPT !.cc[m] = k % CC]
  PROVE  PacketHandled(HandlePESSlice(d, p), t, base, w, m, k)
<1> DEFINE r == HandlePESSlice(d, p)
<1>1. /\ DemuxTyped(c) /\ CarrySound(c) /\ OutputSound(c, base, w) /\ c.carry \in {t.carry, None}
      /\ c.pmt = t.pmt /\ c.cc = t.cc /\ c.pcr = t.pcr /\ c.offset = t.offset
      /\ (NoVideo(t) => NoVideo(c))
      /\ c.pes[m] \in {t.pes[m], << >>}
      /\ SliceFits(c, m, k, base, w)
  BY DEF Ready
<1>2. /\ DOMAIN c = DemuxFields /\ c.cc \in [Media -> Int] /\ c.pes \in [Media -> Seq(Slices)]
      /\ c.sized \in [Media -> Int] /\ c.pcr \in Nat \cup {None} /\ c.offset \in Int /\ c.pmt \in BOOLEAN
  BY <1>1 DEF DemuxTyped
<1>3. k % CC \in Int BY TsFacts, Division
<1>4. /\ DOMAIN d = DemuxFields /\ d.cc = [c.cc EXCEPT ![m] = k % CC]
      /\ \A f \in DemuxFields \ {"cc"} : d[f] = c[f]
  BY <1>2 DEF DemuxFields
<1>5. d.pes = c.pes /\ d.sized = c.sized /\ d.pcr = c.pcr /\ d.offset = c.offset /\ d.pmt = c.pmt
  BY <1>4 DEF DemuxFields
<1>6. d.cc \in [Media -> Int] BY <1>2, <1>3, <1>4
<1>7. /\ DemuxTyped(d) /\ CarrySound(d) /\ OutputSound(d, base, w) /\ d.carry = c.carry
      /\ (NoVideo(c) => NoVideo(d))
  <2>1. Requeues(d, c) BY <1>2, <1>4, <1>5, <1>6 DEF Requeues
  <2> QED BY <1>1, <2>1, QueueFields
<1>8. SliceFits(d, m, k, base, w)
  <2>1. OnTime(c, (k \div 2) - 1, base, w) => OnTime(d, (k \div 2) - 1, base, w)
    BY <1>5 DEF OnTime, GetTimestamp
  <2>2. Sized(c, m) => Sized(d, m) BY <1>5 DEF Sized
  <2> QED BY <1>1, <1>5, <1>7, <2>1, <2>2 DEF SliceFits
<1>9. SliceHandled(r, d, m, k, base, w) BY <1>1, <1>5, <1>7, <1>8, SliceSound
<1> HIDE DEF r
<1>10. /\ DemuxTyped(r) /\ OutputSound(r, base, w) /\ CarrySound(r)
       /\ r.pmt = d.pmt /\ r.cc = d.cc /\ r.pcr = d.pcr /\ r.offset = d.offset
       /\ (m = "video" => r.carry \in {d.carry, None})
       /\ (m = "audio" /\ r.carry # None => k = 2 * r.carry + 1 \/ (k = 2 * r.carry + 2 /\ r.pes[m] # << >>))
       /\ (NoVideo(d) /\ ~(m = "video" /\ d.pes[m] # << >>) => NoVideo(r))
       /\ r.pes[m] \in Queued(m, k) /\ Sized(r, m)
       /\ (m = "video" /\ k % 2 = 1 /\ d.pes[m] = << >> => r.pes[m] = << >>)
       /\ \A o \in Media \ {m} : r.pes[o] = d.pes[o] /\ r.sized[o] = d.sized[o]
  BY <1>9 DEF SliceHandled, Parses
<1>11. \A o \in Media \ {m} : \/ Cleared(r, o) /\ (o = "audio" => r.carry = None)
                              \/ r.pes[o] = t.pes[o] /\ r.sized[o] = t.sized[o]
  <2> TAKE o \in Media \ {m}
  <2>1. CASE Cleared(c, o) /\ (o = "audio" => c.carry = None)
    <3>1. Cleared(r, o) BY <1>5, <1>10, <2>1 DEF Cleared
    <3>2. CASE m = "video" BY <1>7, <1>10, <2>1, <3>1, <3>2
    <3>3. CASE m = "audio" BY <3>1, <3>3 DEF Media
    <3> QED BY <3>2, <3>3 DEF Media
  <2>2. CASE c.pes[o] = t.pes[o] /\ c.sized[o] = t.sized[o]
    BY <1>5, <1>10, <2>2
  <2> QED BY <2>1, <2>2 DEF Ready
<1>12. /\ r.pmt = t.pmt /\ r.cc = [t.cc EXCEPT ![m] = k % CC] /\ r.pcr = t.pcr /\ r.offset = t.offset
  BY <1>1, <1>4, <1>5, <1>10
<1>13. m = "video" => r.carry \in {t.carry, None} BY <1>1, <1>7, <1>10
<1>14. NoVideo(t) /\ ~(m = "video" /\ t.pes[m] # << >>) => NoVideo(r)
  BY <1>1, <1>5, <1>7, <1>10
<1>15. m = "video" /\ k % 2 = 1 /\ t.pes[m] = << >> => r.pes[m] = << >>
  BY <1>1, <1>5, <1>10
<1>16. PacketHandled(r, t, base, w, m, k)
  BY <1>10, <1>11, <1>12, <1>13, <1>14, <1>15 DEF PacketHandled
<1> QED BY <1>16 DEF r
\* parseChunks: the packet leaves a sound demuxer.
LEMMA PacketSound ==
  ASSUME NEW s, NEW n, DemuxSound(s, n), n.start = net.start,
         NEW q, NEW m \in Media, NEW k \in Nat, Arrives(n, q, m, k), NEW flagged \in BOOLEAN
  PROVE  DemuxSound(ParsePacket(s, Packet(m, k, flagged)), q)
<1> DEFINE p == Packet(m, k, flagged)
           base == n.start
           t == IF p.m = "video" /\ p.slice.i = 0 /\ s.pmt THEN GetPcrBase(s, At(p.slice.u)) ELSE s
           r == ParsePacket(s, p)
<1>1. PICK l : TracksKept(s, n, l) BY DEF DemuxSound, TracksKept
<1>2. PICK passed \in Nat : OutputSound(s, base, passed) /\ (NoClock(s) \/ \E i \in Nat : ClockSound(s, n, i, passed))
  BY DEF DemuxSound
<1>3. DemuxTyped(s) /\ CarrySound(s) /\ NetTyped(n) /\ NetTyped(q) /\ (s.pmt \/ BeforePMT(s)) /\ q.start = base
  BY DEF DemuxSound, Arrives
<1>4. /\ n.lost \in Nat /\ q.lost \in Nat /\ n.lost <= q.lost /\ n.next[m] \in Nat /\ q.next[m] = k + 1
      /\ q.gap[m] = 0 /\ \A o \in Media \ {m} : q.next[o] = n.next[o] /\ q.gap[o] = n.gap[o]
      /\ k = n.next[m] \/ (k + 1 = n.next[m] /\ n.lost + 1 <= q.lost /\ ~n.hls)
      /\ n.next \in [Media -> Nat] /\ q.hls = n.hls
  BY ArrivalFacts DEF Arrived, Arrives
<1>5. p.m = m /\ p.cc = k % CC /\ p.flagged = flagged /\ p.slice = [u |-> k \div 2, i |-> k % 2]
      /\ p.slice.i = k % 2 /\ p.slice.u = k \div 2
  BY DEF Packet
<1> HIDE DEF p, base
<1>6. s.pmt \in BOOLEAN /\ s.cc \in [Media -> Int] /\ s.carry \in Nat \cup {None} /\ l \in [Media -> Nat \cup {None}]
  BY <1>1, <1>3 DEF DemuxTyped, TracksKept
<1>7. CASE ~s.pmt
  <2>1. r = s BY <1>7 DEF ParsePacket
  <2> HIDE DEF r
  <2>2. BeforePMT(s) BY <1>3, <1>7
  <2>3. ASSUME NEW o \in Media
        PROVE  TrackSound(s, q, o, l[o])
    <3>1. TrackSound(s, n, o, l[o]) /\ s.cc[o] = None /\ l[o] \in Nat \cup {None}
      BY <1>1, <1>6, <2>2 DEF BeforePMT, TracksKept
    <3>2. l[o] = None
      <4>1. ASSUME NEW j \in Nat
            PROVE  j % CC # None
        <5>1. CC \in Nat \ {0} BY TsFacts
        <5>2. j % CC \in 0 .. (CC - 1) BY <5>1, Division
        <5> QED BY <5>1, <5>2 DEF None
      <4> QED BY <3>1, <4>1 DEF TrackSound
    <3>3. q.next[o] \in Nat BY <1>3 DEF NetTyped
    <3> QED BY <3>1, <3>2, <3>3 DEF TrackSound, None
  <2>4. FollowsCarry(s, q, l["audio"]) BY <2>2 DEF BeforePMT, FollowsCarry
  <2>5. NoClock(s) BY <2>2 DEF BeforePMT
  <2>6. DemuxSound(s, q)
    BY <1>2, <1>3, <1>6, <2>3, <2>4, <2>5 DEF DemuxSound
  <2>7. DemuxSound(r, q) BY <2>1, <2>6
  <2> QED BY <2>7 DEF r, p
<1>8. CASE s.pmt
  <2>1. PICK w \in Nat : Timed(t, s, q, m, k, w)
    <3>1. CASE m = "video" /\ k % 2 = 0
      <4>1. t = GetPcrBase(s, At(k \div 2)) BY <1>5, <1>8, <3>1
      <4>2. Arrives(n, q, "video", k) BY <3>1
      <4>3. \E w \in Nat : Timed(GetPcrBase(s, At(k \div 2)), s, q, "video", k, w)
        BY <1>2, <1>3, <3>1, <4>2, ClockReads DEF base
      <4> QED BY <3>1, <4>1, <4>3
    <3>2. CASE ~(m = "video" /\ k % 2 = 0)
      <4>1. t = s BY <1>5, <3>2
      <4>2. NoClock(s) \/ \E i \in Nat : ClockSound(s, q, i, passed)
        BY <1>2, <3>2, ClockGoesOn
      <4>3. Timed(s, s, q, m, k, passed) BY <1>2, <1>3, <3>2, <4>2 DEF Timed
      <4> QED BY <4>1, <4>3
    <3> QED BY <3>1, <3>2
  <2>2. r = IF Duplicate(t, p) THEN t ELSE HandlePESSlice([Continued(t, p, m) EXCEPT !.cc[m] = k % CC], p)
    BY <1>5, <1>8 DEF ParsePacket, Continued
  <2> HIDE DEF r, t
  <2>3. /\ DemuxTyped(t) /\ CarrySound(t) /\ OutputSound(t, base, w) /\ t.carry = s.carry
        /\ t.pmt = s.pmt /\ t.cc = s.cc /\ t.pes = s.pes /\ t.sized = s.sized
        /\ \/ NoClock(t) /\ ~(m = "video" /\ k % 2 = 0)
           \/ \E i \in Nat : ClockSound(t, q, i, w)
    BY <1>3, <2>1 DEF Timed
  <2>4. CASE Duplicate(t, p)
    <3>1. r = t BY <2>2, <2>4
    <3>2. l[m] = k /\ k + 1 = n.next[m]
      <4>1. s.cc[m] = k % CC BY <1>5, <2>3, <2>4 DEF Duplicate
      <4>2. /\ Counts(s.cc[m], l[m]) /\ l[m] \in Nat \cup {None}
            /\ (l[m] # None => l[m] <= k /\ k < l[m] + CC)
            /\ (l[m] = k => k + 1 = n.next[m])
        BY <1>1, LastAndNext
      <4>3. Tells(s.cc[m], l[m], k) BY <4>2, CounterTells
      <4> QED BY <4>1, <4>2, <4>3 DEF Tells
    <3>3. ASSUME NEW o \in Media
          PROVE  TrackSound(t, q, o, l[o])
      <4>1. TrackSound(s, n, o, l[o]) /\ l[o] \in Nat \cup {None}
        BY <1>1, <1>6 DEF TracksKept
      <4>2. q.next[o] = n.next[o] BY <1>4, <3>2
      <4>3. q.gap[o] = n.gap[o]
        <5>1. CASE o = m
          <6>1. n.next[m] = l[m] + 1 + n.gap[m] BY <3>2, <4>1, <5>1 DEF TrackSound, None
          <6>2. n.gap[m] \in Nat BY <1>3, TsFacts DEF NetTyped
          <6> QED BY <1>4, <3>2, <5>1, <6>1, <6>2
        <5>2. CASE o # m BY <1>4, <5>2
        <5> QED BY <5>1, <5>2
      <4> QED BY <2>3, <4>1, <4>2, <4>3, TrackStays
    <3>4. FollowsCarry(t, q, l["audio"])
      <4>1. q.next["audio"] = n.next["audio"] BY <1>4, <3>2 DEF Media
      <4>2. FollowsCarry(s, n, l["audio"]) BY <1>1 DEF TracksKept
      <4> QED BY <1>4, <2>3, <4>1, <4>2 DEF FollowsCarry
    <3>5. NoClock(t) \/ \E i \in Nat : ClockSound(t, q, i, w)
      BY <2>3
    <3>6. DemuxSound(t, q)
      BY <1>3, <1>6, <1>8, <2>3, <3>3, <3>4, <3>5 DEF DemuxSound
    <3>7. DemuxSound(r, q) BY <3>1, <3>6
    <3> QED BY <3>7 DEF r, p
  <2>5. CASE ~Duplicate(t, p)
    <3> DEFINE c == Continued(t, p, m)
               d == [c EXCEPT !.cc[m] = k % CC]
    <3>1. r = HandlePESSlice(d, p) BY <2>2, <2>5
    <3>2. Ready(c, t, base, w, m, k) BY <1>1, <2>1, <2>5, ReadyAfterCheck DEF base, p
    <3>3. Carries(p, m, k) BY <1>5 DEF Carries
    <3>4. PacketHandled(r, t, base, w, m, k)
      <4> HIDE DEF c
      <4> QED BY <1>6, <1>8, <2>3, <3>1, <3>2, <3>3, HandledAfterReady
    <3>5. /\ DemuxTyped(r) /\ CarrySound(r) /\ OutputSound(r, base, w)
          /\ r.pmt = t.pmt /\ r.cc = [t.cc EXCEPT ![m] = k % CC] /\ r.pcr = t.pcr /\ r.offset = t.offset
          /\ r.pes[m] \in Queued(m, k) /\ Sized(r, m)
          /\ (m = "video" => r.carry \in {t.carry, None})
          /\ (m = "audio" /\ r.carry # None => k = 2 * r.carry + 1 \/ (k = 2 * r.carry + 2 /\ r.pes[m] # << >>))
          /\ (NoVideo(t) /\ ~(m = "video" /\ t.pes[m] # << >>) => NoVideo(r))
          /\ (m = "video" /\ k % 2 = 1 /\ t.pes[m] = << >> => r.pes[m] = << >>)
      BY <3>4 DEF PacketHandled
    <3>6. \A o \in Media \ {m} : \/ Cleared(r, o) /\ (o = "audio" => r.carry = None)
                                 \/ r.pes[o] = t.pes[o] /\ r.sized[o] = t.sized[o]
      BY <3>4 DEF PacketHandled
    <3> HIDE DEF c, d
    <3> DEFINE l2 == [l EXCEPT ![m] = k]
    <3>7. l2 \in [Media -> Nat \cup {None}] /\ l2[m] = k /\ \A o \in Media \ {m} : l2[o] = l[o]
      BY <1>6
    <3> HIDE DEF l2
    <3>8. ASSUME NEW o \in Media
          PROVE  TrackSound(r, q, o, l2[o])
      <4>1. CASE o = m
        <5>1. r.cc[m] = k % CC /\ k # None BY <1>6, <2>3, <3>5 DEF None
        <5>2. k < q.next[m] /\ q.next[m] = k + 1 + q.gap[m] BY <1>4
        <5> QED BY <3>5, <3>7, <4>1, <5>1, <5>2 DEF TrackSound, Sized
      <4>2. CASE o # m
        <5>1. TrackSound(s, n, o, l[o]) /\ l[o] \in Nat \cup {None}
          BY <1>1, <1>6 DEF TracksKept
        <5>2. r.cc[o] = s.cc[o] BY <1>6, <2>3, <3>5, <4>2
        <5>3. Cleared(r, o) \/ (r.pes[o] = s.pes[o] /\ r.sized[o] = s.sized[o])
          BY <2>3, <3>6, <4>2
        <5>4. q.next[o] = n.next[o] /\ q.gap[o] = n.gap[o] BY <1>4, <4>2
        <5>5. TrackSound(r, q, o, l[o]) BY <5>1, <5>2, <5>3, <5>4, TrackStays
        <5> QED BY <3>7, <4>2, <5>5
      <4> QED BY <4>1, <4>2
    <3>9. FollowsCarry(r, q, l2["audio"])
      <4>1. CASE m = "audio" BY <3>5, <3>7, <4>1 DEF FollowsCarry
      <4>2. CASE m = "video"
        <5>1. l2["audio"] = l["audio"] /\ q.next["audio"] = n.next["audio"] /\ q.hls = n.hls
          BY <1>4, <3>7, <4>2 DEF Media
        <5>2. FollowsCarry(s, n, l["audio"]) BY <1>1 DEF TracksKept
        <5>3. r.carry # None => r.carry = s.carry /\ r.pes["audio"] = s.pes["audio"]
          BY <2>3, <3>5, <3>6, <4>2 DEF Media
        <5> QED BY <5>1, <5>2, <5>3 DEF FollowsCarry
      <4> QED BY <4>1, <4>2 DEF Media
    <3>10. NoClock(r) \/ \E i \in Nat : ClockSound(r, q, i, w)
      <4>1. CASE NoClock(t) /\ ~(m = "video" /\ k % 2 = 0)
        <5>1. NoVideo(t) /\ t.pes["video"] = << >> /\ t.pcr = None /\ t.offset = 0
          BY <4>1 DEF NoClock, NoVideo
        <5>2. NoVideo(r) BY <3>5, <5>1
        <5>3. r.pes["video"] = << >>
          <6>1. CASE m = "video"
            <7>1. k % 2 = 1 BY <4>1, <6>1
            <7> QED BY <3>5, <5>1, <6>1, <7>1
          <6>2. CASE m = "audio" BY <3>6, <5>1, <6>2 DEF Media, Cleared
          <6> QED BY <6>1, <6>2 DEF Media
        <5> QED BY <3>5, <5>1, <5>2, <5>3 DEF NoClock, NoVideo
      <4>2. CASE \E i \in Nat : ClockSound(t, q, i, w)
        <5>1. PICK i \in Nat : ClockSound(t, q, i, w) BY <4>2
        <5>2. ClockSound(r, q, i, w) BY <3>5, <5>1 DEF ClockSound, ClockAt
        <5> QED BY <5>2
      <4> QED BY <2>3, <4>1, <4>2
    <3>11. r.pmt BY <1>8, <2>3, <3>5
    <3>12. DemuxSound(r, q)
      BY <1>3, <3>5, <3>7, <3>8, <3>9, <3>10, <3>11 DEF DemuxSound
    <3> QED BY <3>12 DEF r, p
  <2> QED BY <2>4, <2>5
<1> QED BY <1>6, <1>7, <1>8 DEF p
----------------------------------------------------------------------------
(* TsDemux: the steps                                                      *)

LEMMA DemuxerStarts == TsInit => DemuxSound(x, net)
<1> SUFFICES ASSUME TsInit
             PROVE  DemuxSound(x, net)
  OBVIOUS
<1>1. PICK start \in {0, WRAP - 3}, half \in BOOLEAN :
        net = [next |-> [m \in Media |-> 0], gap |-> [m \in Media |-> 0], start |-> start, lost |-> 0,
               cuts |-> 0, open |-> FALSE, hls |-> half]
  BY DEF TsInit
<1>2. PICK v \in VideoCodecs, y \in AudioCodecs :
        x = [pat |-> FALSE, section |-> 0, pmt |-> FALSE,
             video |-> v, audio |-> y,
             cc |-> [m \in Media |-> None], pes |-> [m \in Media |-> << >>],
             sized |-> [m \in Media |-> None],
             vps |-> None, sps |-> None, pps |-> None, details |-> None,
             vInit |-> FALSE, aInit |-> FALSE, changed |-> FALSE, aMeta |-> None,
             drop |-> TRUE, started |-> FALSE,
             carry |-> None, unsynced |-> FALSE,
             vTrack |-> << >>, aTrack |-> << >>,
             pcr |-> None, offset |-> 0, out |-> << >>]
  BY DEF TsInit
<1>3. /\ DOMAIN x = DemuxFields /\ x.pmt = FALSE /\ x.audio = y /\ x.cc = [m \in Media |-> None]
      /\ x.pes = [m \in Media |-> << >>] /\ x.sized = [m \in Media |-> None]
      /\ x.details = None /\ x.vInit = FALSE /\ x.aInit = FALSE /\ x.drop = TRUE /\ x.started = FALSE
      /\ x.carry = None /\ x.vTrack = << >> /\ x.aTrack = << >> /\ x.pcr = None /\ x.offset = 0 /\ x.out = << >>
  BY <1>2 DEF DemuxFields
<1>4. DemuxTyped(x)
  <2>1. y \in {"aac", "loas", "ac3", "eac3", "mp3"} BY TsAssumption
  <2>2. None \in Int BY DEF None
  <2>3. x.cc \in [Media -> Int] /\ x.pes \in [Media -> Seq(Slices)] /\ x.sized \in [Media -> Int]
    BY <1>3, <2>2
  <2>4. x.vTrack \in Seq(VideoItems) /\ x.aTrack \in Seq(AudioItems) /\ x.out \in Seq(Items)
    BY <1>3
  <2> QED
    <3>1. DOMAIN x = DemuxFields /\ x.audio \in {"aac", "loas", "ac3", "eac3", "mp3"}
      BY <1>3, <2>1
    <3>2. /\ x.carry \in Nat \cup {None} /\ x.details \in Int /\ x.pcr \in Nat \cup {None} /\ x.offset \in Int
      BY <1>3, <2>2
    <3>3. {x.pmt, x.vInit, x.aInit, x.drop, x.started} \subseteq BOOLEAN
      <4>1. x.pmt \in BOOLEAN /\ x.vInit \in BOOLEAN /\ x.aInit \in BOOLEAN /\ x.drop \in BOOLEAN /\ x.started \in BOOLEAN
        BY <1>3
      <4> QED BY <4>1, Zenon
    <3> QED BY <2>3, <2>4, <3>1, <3>2, <3>3 DEF DemuxTyped
<1>5. NetTyped(net)
  <2>1. start \in Nat /\ start <= WRAP BY TsFacts
  <2>2. 0 \in 0 .. MaxLost /\ 0 \in 0 .. MaxInRow /\ 0 <= 2 * TsUnits
    BY TsFacts
  <2>3. /\ DOMAIN net = {"next", "gap", "start", "lost", "cuts", "open", "hls"}
        /\ net.next = [m \in Media |-> 0] /\ net.gap = [m \in Media |-> 0]
        /\ net.start = start /\ net.lost = 0 /\ net.hls = half
    BY <1>1
  <2> QED BY <2>1, <2>2, <2>3 DEF NetTyped
<1>6. \A m \in Media : TrackSound(x, net, m, None)
  <2>1. net.next = [m \in Media |-> 0] BY <1>1
  <2> QED BY <1>3, <2>1 DEF TrackSound, Queued, None
<1>7. OutputSound(x, net.start, 0) BY <1>3 DEF OutputSound, Resumes
<1>8. NoClock(x) BY <1>3 DEF NoClock, Media
<1>9. BeforePMT(x) BY <1>3, <1>8 DEF BeforePMT
<1>10. CarrySound(x) /\ FollowsCarry(x, net, None) BY <1>3 DEF CarrySound, FollowsCarry
<1> DEFINE l == [m \in Media |-> None]
<1>11. l \in [Media -> Nat \cup {None}] /\ \A m \in Media : l[m] = None
  OBVIOUS
<1>12. l["audio"] = None BY DEF Media
<1> HIDE DEF l
<1> QED BY <1>4, <1>5, <1>6, <1>7, <1>8, <1>9, <1>10, <1>11, <1>12 DEF DemuxSound

\* What the transport goes on with.
Grown(n, q, m, k, gap, cost) ==
  /\ DOMAIN q = DOMAIN n /\ q.start = n.start /\ q.hls = n.hls
  /\ q.next = [n.next EXCEPT ![m] = k] /\ q.gap = [n.gap EXCEPT ![m] = gap] /\ q.lost = n.lost + cost

LEMMA GrownTyped ==
  ASSUME NEW n, NetTyped(n), NEW m \in Media, NEW k \in Nat, k <= 2 * TsUnits, NEW cost \in {0, 1},
         cost = 1 => ~n.hls /\ n.lost < MaxLost, NEW gap \in 0 .. MaxInRow, gap = 0 \/ ~n.hls,
         NEW q, Grown(n, q, m, k, gap, cost)
  PROVE  NetTyped(q) /\ n.lost \in Nat /\ q.lost = n.lost + cost
<1>1. /\ n.next \in [Media -> Nat] /\ \A o \in Media : n.next[o] <= 2 * TsUnits
      /\ n.gap \in [Media -> 0 .. MaxInRow] /\ (n.hls => \A o \in Media : n.gap[o] = 0)
      /\ n.lost \in 0 .. MaxLost /\ (n.hls => n.lost = 0) /\ n.hls \in BOOLEAN
      /\ n.start \in Nat /\ n.start <= WRAP /\ DOMAIN n = {"next", "gap", "start", "lost", "cuts", "open", "hls"}
  BY DEF NetTyped
<1>2. MaxLost \in Nat BY TsFacts
<1>3. q.lost \in 0 .. MaxLost /\ (q.hls => q.lost = 0) /\ n.lost \in Nat
  BY <1>1, <1>2 DEF Grown
<1>4. q.next \in [Media -> Nat] /\ \A o \in Media : q.next[o] <= 2 * TsUnits
  BY <1>1 DEF Grown
<1>5. q.gap \in [Media -> 0 .. MaxInRow] /\ (q.hls => \A o \in Media : q.gap[o] = 0)
  BY <1>1 DEF Grown
<1> QED BY <1>1, <1>3, <1>4, <1>5 DEF Grown, NetTyped

LEMMA ReceiveSound ==
  ASSUME DemuxSound(x, net), NEW m \in Media, Receive(m) \/ Repeat(m) \/ Flagged(m)
  PROVE  DemuxSound(x', net')
<1>1. NetTyped(net) BY DEF DemuxSound
<1>2. net.next \in [Media -> Nat] /\ \A o \in Media : net.next[o] <= 2 * TsUnits
  BY <1>1 DEF NetTyped
<1>3. DOMAIN net = {"next", "gap", "start", "lost", "cuts", "open", "hls"} /\ net.lost \in Int
  BY <1>1 DEF NetTyped
<1>4. TsUnits \in Nat /\ 0 \in 0 .. MaxInRow BY TsFacts
<1>5. CASE Receive(m)
  <2> DEFINE k == net.next[m]
  <2>1. k \in Nat /\ k + 1 \in Nat /\ k + 1 <= 2 * TsUnits
    BY <1>2, <1>4, <1>5 DEF Receive, Sent
  <2>2. Grown(net, net', m, k + 1, 0, 0) BY <1>3, <1>5 DEF Receive, Grown
  <2>3. NetTyped(net') /\ net.lost \in Nat /\ net'.lost = net.lost + 0
    BY <1>1, <1>4, <2>1, <2>2, GrownTyped
  <2>4. Arrives(net, net', m, k) BY <1>1, <2>2, <2>3 DEF Arrives, Grown
  <2> HIDE DEF k
  <2>5. DemuxSound(ParsePacket(x, Packet(m, k, FALSE)), net')
    BY <2>1, <2>4, PacketSound
  <2> QED BY <1>5, <2>5 DEF Receive, k
<1>6. CASE Flagged(m)
  <2> DEFINE k == net.next[m]
  <2>1. k \in Nat /\ k + 1 \in Nat /\ k + 1 <= 2 * TsUnits /\ ~net.hls /\ net.lost < MaxLost
    BY <1>2, <1>4, <1>6 DEF Flagged, Sent
  <2>2. Grown(net, net', m, k + 1, 0, 1) BY <1>3, <1>6 DEF Flagged, Grown
  <2>3. NetTyped(net') /\ net.lost \in Nat /\ net'.lost = net.lost + 1
    BY <1>1, <1>4, <2>1, <2>2, GrownTyped
  <2>4. Arrives(net, net', m, k) BY <1>1, <2>2, <2>3 DEF Arrives, Grown
  <2> HIDE DEF k
  <2>5. DemuxSound(ParsePacket(x, Packet(m, k, TRUE)), net')
    BY <2>1, <2>4, PacketSound
  <2> QED BY <1>6, <2>5 DEF Flagged, k
<1>7. CASE Repeat(m)
  <2> DEFINE k == net.next[m] - 1
  <2>1. k \in Nat /\ k + 1 = net.next[m] /\ net.next[m] \in Nat /\ net.next[m] <= 2 * TsUnits /\ ~net.hls /\ net.lost < MaxLost
    BY <1>2, <1>7 DEF Repeat
  <2>2. Grown(net, net', m, k + 1, 0, 1)
    <3>1. [net.next EXCEPT ![m] = k + 1] = net.next BY <1>2, <2>1
    <3> HIDE DEF k
    <3> QED BY <1>3, <1>7, <3>1 DEF Repeat, Grown
  <2>3. NetTyped(net') /\ net.lost \in Nat /\ net'.lost = net.lost + 1
    BY <1>1, <1>4, <2>1, <2>2, GrownTyped
  <2> HIDE DEF k
  <2>4. Arrives(net, net', m, k) BY <1>1, <2>1, <2>2, <2>3 DEF Arrives, Grown
  <2>5. DemuxSound(ParsePacket(x, Packet(m, k, FALSE)), net')
    BY <2>1, <2>4, PacketSound
  <2> QED BY <1>7, <2>5 DEF Repeat, k
<1> QED BY <1>5, <1>6, <1>7

LEMMA LossSound ==
  ASSUME DemuxSound(x, net), NEW m \in Media, Lose(m)
  PROVE  DemuxSound(x', net')
<1>1. NetTyped(net) /\ DemuxTyped(x) /\ CarrySound(x) /\ (x.pmt \/ BeforePMT(x)) /\ x' = x
  BY DEF DemuxSound, Lose
<1>2. /\ net.next \in [Media -> Nat] /\ DOMAIN net = {"next", "gap", "start", "lost", "cuts", "open", "hls"}
      /\ net.lost \in Int /\ net.gap \in [Media -> 0 .. MaxInRow]
  BY <1>1 DEF NetTyped
<1>3. /\ net.next[m] + 1 \in Nat /\ net.next[m] + 1 <= 2 * TsUnits /\ ~net.hls /\ net.lost < MaxLost
      /\ net.gap[m] + 1 \in 0 .. MaxInRow
  BY <1>2, TsFacts DEF Lose, Sent
<1>4. Grown(net, net', m, net.next[m] + 1, net.gap[m] + 1, 1)
  BY <1>2 DEF Lose, Grown
<1>5. NetTyped(net') /\ net.lost \in Nat /\ net'.lost = net.lost + 1
  BY <1>1, <1>3, <1>4, GrownTyped
<1>6. /\ net'.next[m] = net.next[m] + 1 /\ \A o \in Media \ {m} : net'.next[o] = net.next[o]
      /\ net'.gap[m] = net.gap[m] + 1 /\ \A o \in Media \ {m} : net'.gap[o] = net.gap[o]
      /\ net'.start = net.start
  BY <1>2, <1>4 DEF Grown
<1>7. PICK l : TracksKept(x, net, l) BY DEF DemuxSound, TracksKept
<1>8. ASSUME NEW o \in Media
      PROVE  TrackSound(x, net', o, l[o])
  <2>1. TrackSound(x, net, o, l[o]) /\ l[o] \in Nat \cup {None}
    BY <1>7 DEF TracksKept
  <2>2. /\ net.next[o] \in Nat /\ net.gap[o] \in Int
        /\ \/ net'.next[o] = net.next[o] /\ net'.gap[o] = net.gap[o]
           \/ net'.next[o] = net.next[o] + 1 /\ net'.gap[o] = net.gap[o] + 1
    BY <1>2, <1>6
  <2> QED
    <3>1. l[o] < net.next[o] /\ (l[o] # None => net.next[o] = l[o] + 1 + net.gap[o])
      BY <2>1 DEF TrackSound
    <3>2. l[o] < net'.next[o] /\ (l[o] # None => net'.next[o] = l[o] + 1 + net'.gap[o])
      BY <2>1, <2>2, <3>1 DEF None
    <3> QED BY <2>1, <3>2 DEF TrackSound
<1>9. FollowsCarry(x, net', l["audio"]) BY <1>3, <1>7 DEF TracksKept, FollowsCarry
<1>10. PICK passed \in Nat : OutputSound(x, net.start, passed) /\ (NoClock(x) \/ \E p \in Nat : ClockSound(x, net, p, passed))
  BY DEF DemuxSound
<1>11. NoClock(x) \/ \E p \in Nat : ClockSound(x, net', p, passed)
  <2>1. ASSUME NEW p \in Nat, ClockSound(x, net, p, passed)
        PROVE  ClockSound(x, net', p, passed)
    <3>1. 2 * p < net.next["video"] /\ net.next["video"] <= 2 * (p + 1 + net.lost) /\ ClockAt(x, net.start, p, passed)
      BY <2>1 DEF ClockSound
    <3>2. net.next["video"] \in Nat /\ (net'.next["video"] = net.next["video"] \/ net'.next["video"] = net.next["video"] + 1)
      BY <1>2, <1>6 DEF Media
    <3>3. 2 * p < net'.next["video"] /\ net'.next["video"] <= 2 * (p + 1 + net'.lost)
      BY <1>5, <3>1, <3>2
    <3> QED BY <1>6, <3>1, <3>3 DEF ClockSound
  <2> QED BY <1>10, <2>1
<1>12. l \in [Media -> Nat \cup {None}] BY <1>7 DEF TracksKept
<1>13. DemuxSound(x, net')
  BY <1>1, <1>5, <1>6, <1>8, <1>9, <1>10, <1>11, <1>12 DEF DemuxSound
<1> QED BY <1>1, <1>13
\* What a step needs to leave besides its own fields.
LEMMA SoundInParts ==
  ASSUME NEW r, NEW q, DemuxTyped(r), NetTyped(q), CarrySound(r), NEW l, TracksKept(r, q, l),
         NEW w \in Nat, OutputSound(r, q.start, w), NoClock(r) \/ \E p \in Nat : ClockSound(r, q, p, w),
         r.pmt \/ BeforePMT(r)
  PROVE  DemuxSound(r, q)
<1>1. /\ l \in [Media -> Nat \cup {None}] /\ \A m \in Media : TrackSound(r, q, m, l[m])
      /\ FollowsCarry(r, q, l["audio"])
  BY DEF TracksKept
<1> QED BY <1>1 DEF DemuxSound

\* The transport goes on as it was, as far as the demuxer can tell.
SameNet(q, n) ==
  /\ NetTyped(q) /\ q.next = n.next /\ q.gap = n.gap /\ q.start = n.start /\ q.lost = n.lost /\ q.hls = n.hls

\* A step that leaves the tracks and the clock.
Keeps(r, s) ==
  /\ r.cc = s.cc /\ r.pes = s.pes /\ r.sized = s.sized /\ r.pcr = s.pcr /\ r.offset = s.offset
  /\ r.carry = s.carry /\ (NoVideo(s) => NoVideo(r)) /\ (s.pmt => r.pmt)

LEMMA KeptSound ==
  ASSUME NEW s, NEW n, DemuxSound(s, n), NEW r, NEW q, SameNet(q, n), Keeps(r, s),
         DemuxTyped(r), CarrySound(r), r.pmt \in BOOLEAN,
         \A w \in Nat : OutputSound(s, n.start, w) => OutputSound(r, n.start, w)
  PROVE  DemuxSound(r, q)
<1>1. PICK l : TracksKept(s, n, l) BY DEF DemuxSound, TracksKept
<1>2. PICK w \in Nat : OutputSound(s, n.start, w) /\ (NoClock(s) \/ \E p \in Nat : ClockSound(s, n, p, w))
  BY DEF DemuxSound
<1>3. NoClock(s) => NoClock(r) BY DEF NoClock, NoVideo, Keeps
<1>4. NoClock(r) \/ \E p \in Nat : ClockSound(r, q, p, w)
  <2>1. ASSUME NEW p \in Nat, ClockSound(s, n, p, w)
        PROVE  ClockSound(r, q, p, w)
    BY <2>1 DEF ClockSound, ClockAt, Keeps, SameNet
  <2> QED BY <1>2, <1>3, <2>1
<1>5. TracksKept(r, q, l)
  BY <1>1 DEF TracksKept, TrackSound, FollowsCarry, Keeps, SameNet
<1>6. r.pmt \/ BeforePMT(r)
  <2>1. s.pmt \/ BeforePMT(s) BY DEF DemuxSound
  <2> QED BY <1>3, <2>1 DEF BeforePMT, Keeps
<1>7. OutputSound(r, q.start, w) /\ NetTyped(q) BY <1>2 DEF SameNet
<1> QED BY <1>4, <1>5, <1>6, <1>7, SoundInParts

\* parsePAT and parsePMT.
LEMMA SectionSound ==
  ASSUME DemuxSound(x, net), ParsePAT \/ HandleSectionSlice \/ ParsePMT
  PROVE  DemuxSound(x', net')
<1> DEFINE Section(r) == DOMAIN r = DemuxFields /\ (\A f \in DemuxFields \ {"pat", "section", "pmt"} : r[f] = x[f])
                         /\ r.pmt \in BOOLEAN /\ (x.pmt => r.pmt)
<1>1. DemuxTyped(x) /\ CarrySound(x) /\ NetTyped(net) BY DEF DemuxSound
<1>2. DOMAIN x = DemuxFields /\ x.pmt \in BOOLEAN BY <1>1 DEF DemuxTyped
<1>3. Section(x') /\ net' = net
  <2>1. CASE ParsePAT BY <1>2, <2>1 DEF ParsePAT, DemuxFields
  <2>2. CASE HandleSectionSlice
    BY <1>2, <2>2 DEF HandleSectionSlice, DemuxFields
  <2>3. CASE ParsePMT BY <1>2, <2>3 DEF ParsePMT, DemuxFields
  <2> QED BY <2>1, <2>2, <2>3
<1>4. ASSUME NEW r, Section(r)
      PROVE  DemuxSound(r, net)
  <2>1. /\ r.cc = x.cc /\ r.pes = x.pes /\ r.sized = x.sized /\ r.pcr = x.pcr /\ r.offset = x.offset
        /\ DOMAIN r = DemuxFields /\ r.pmt \in BOOLEAN /\ (x.pmt => r.pmt)
    BY <1>4 DEF DemuxFields
  <2>2. \A f \in DemuxFields \ {"pat", "section", "pmt", "cc", "pes", "sized", "pcr", "offset"} : r[f] = x[f]
    BY <1>4
  <2>3. Requeues(r, x) BY <1>1, <2>1, <2>2 DEF Requeues, DemuxTyped
  <2>4. \A w \in Nat : OutputSound(x, net.start, w) =>
          DemuxTyped(r) /\ CarrySound(r) /\ OutputSound(r, net.start, w) /\ r.carry = x.carry /\ (NoVideo(x) => NoVideo(r))
    BY <1>1, <2>3, QueueFields
  <2>5. \E w \in Nat : OutputSound(x, net.start, w) BY DEF DemuxSound
  <2>6. Keeps(r, x) /\ DemuxTyped(r) /\ CarrySound(r) BY <2>1, <2>4, <2>5 DEF Keeps
  <2>7. SameNet(net, net) BY <1>1 DEF SameNet
  <2> QED BY <2>1, <2>4, <2>6, <2>7, KeptSound
<1> QED BY <1>3, <1>4

\* flushMedia: the remuxer takes what was collected.
Flushed(r, s, base) ==
  /\ Keeps(r, s) /\ DemuxTyped(r) /\ CarrySound(r) /\ r.pmt = s.pmt
  /\ \A w \in Nat : OutputSound(s, base, w) => OutputSound(r, base, w)

LEMMA FlushKeeps ==
  ASSUME NEW s, NEW n, DemuxSound(s, n)
  PROVE  Flushed(FlushMedia(s), s, n.start)
<1> DEFINE r == FlushMedia(s)
<1>1. DemuxTyped(s) /\ CarrySound(s) BY DEF DemuxSound
<1>2. r = Emits(s, TRUE, TRUE) BY DEF FlushMedia
<1> HIDE DEF r
<1>3. \A w \in Nat : OutputSound(s, n.start, w) => Steady(r, s, n.start, w)
  BY <1>1, <1>2, EmitsSteady
<1>4. \E w \in Nat : OutputSound(s, n.start, w) BY DEF DemuxSound
<1>5. /\ DemuxTyped(r) /\ r.pmt = s.pmt /\ r.audio = s.audio /\ r.cc = s.cc /\ r.pes = s.pes /\ r.sized = s.sized
      /\ r.pcr = s.pcr /\ r.offset = s.offset /\ (s.vInit => r.vInit)
      /\ r.carry = s.carry /\ r.started = s.started /\ (NoVideo(s) => NoVideo(r))
  BY <1>3, <1>4 DEF Steady, Collects
<1>6. CarrySound(r) BY <1>1, <1>5 DEF CarrySound
<1>7. Flushed(r, s, n.start) BY <1>3, <1>5, <1>6 DEF Steady, Keeps, Flushed
<1> QED BY <1>7 DEF r

LEMMA ChunkEndSound ==
  ASSUME DemuxSound(x, net), ChunkEnd
  PROVE  DemuxSound(x', net')
<1>1. DemuxTyped(x) /\ CarrySound(x) /\ NetTyped(net) BY DEF DemuxSound
<1>2. DOMAIN net = {"next", "gap", "start", "lost", "cuts", "open", "hls"}
  BY <1>1 DEF NetTyped
<1>3. SameNet(net', net) BY <1>1, <1>2 DEF ChunkEnd, NetTyped, SameNet
<1>4. x.pmt \in BOOLEAN BY <1>1 DEF DemuxTyped
<1>5. CASE x' = x
  <2>1. Keeps(x, x) BY DEF Keeps
  <2>2. DemuxSound(x, net') BY <1>1, <1>3, <1>4, <2>1, KeptSound
  <2> QED BY <1>5, <2>2
<1>6. CASE x' = FlushMedia(x)
  <2> DEFINE r == FlushMedia(x)
  <2>1. Flushed(r, x, net.start) BY FlushKeeps
  <2> HIDE DEF r
  <2>2. DemuxSound(r, net') BY <1>3, <1>4, <2>1, KeptSound DEF Flushed
  <2> QED BY <1>6, <2>2 DEF r
<1> QED BY <1>5, <1>6 DEF ChunkEnd

\* flushSegmentBoundary and resetSegmentBoundary.
LEMMA BoundarySound ==
  ASSUME DemuxSound(x, net), Boundary
  PROVE  DemuxSound(x', net')
<1> DEFINE f == FlushMedia(x)
           r == ResetSegmentBoundary(f, ~net.hls)
<1>1. NetTyped(net) /\ (x.pmt \/ BeforePMT(x)) /\ DemuxTyped(x)
  BY DEF DemuxSound
<1>2. /\ DOMAIN net = {"next", "gap", "start", "lost", "cuts", "open", "hls"} /\ net.next \in [Media -> Nat]
      /\ net.lost \in Nat /\ (net.hls => \A m \in Media : net.gap[m] = 0)
  BY <1>1, TsFacts DEF NetTyped
<1>3. SameNet(net', net) BY <1>1, <1>2 DEF Boundary, NetTyped, SameNet
<1>4. Flushed(f, x, net.start) BY FlushKeeps
<1>5. x' = r BY DEF Boundary, FlushSegmentBoundary
<1> HIDE DEF f
<1>6. /\ DemuxTyped(f) /\ CarrySound(f) /\ Keeps(f, x) /\ f.pmt = x.pmt
      /\ \A w \in Nat : OutputSound(x, net.start, w) => OutputSound(f, net.start, w)
  BY <1>4 DEF Flushed
<1> DEFINE t == [f EXCEPT !.pes = [m \in Media |-> << >>], !.sized = [m \in Media |-> None],
                          !.section = 0, !.cc = [m \in Media |-> None]]
<1>7. /\ DOMAIN f = DemuxFields /\ f.pcr \in Nat \cup {None} /\ f.offset \in Int /\ f.pmt \in BOOLEAN
  BY <1>6 DEF DemuxTyped
<1>8. /\ DOMAIN t = DemuxFields /\ t.pes = [m \in Media |-> << >>] /\ t.sized = [m \in Media |-> None]
      /\ t.cc = [m \in Media |-> None] /\ \A g \in DemuxFields \ {"pes", "sized", "section", "cc"} : t[g] = f[g]
  BY <1>7 DEF DemuxFields
<1>9. r = IF ~net.hls THEN ResetAudioParserState(t) ELSE t
  BY DEF ResetSegmentBoundary
<1> HIDE DEF t, r
<1>10. t.pcr = f.pcr /\ t.offset = f.offset /\ t.pmt = f.pmt
  BY <1>8 DEF DemuxFields
<1>11. Requeues(t, f)
  <2>1. None \in Int /\ << >> \in Seq(Slices) BY DEF None
  <2>2. t.cc \in [Media -> Int] /\ t.pes \in [Media -> Seq(Slices)] /\ t.sized \in [Media -> Int]
    BY <1>8, <2>1
  <2>3. \A g \in DemuxFields \ {"pat", "section", "pmt", "cc", "pes", "sized", "pcr", "offset"} : t[g] = f[g]
    BY <1>8
  <2> QED BY <1>7, <1>8, <1>10, <2>2, <2>3 DEF Requeues
<1>12. PICK w \in Nat : OutputSound(x, net.start, w) /\ (NoClock(x) \/ \E p \in Nat : ClockSound(x, net, p, w))
  BY DEF DemuxSound
<1>13. OutputSound(f, net.start, w) BY <1>6, <1>12
<1>14. /\ DemuxTyped(t) /\ CarrySound(t) /\ OutputSound(t, net.start, w) /\ t.carry = f.carry
       /\ (NoVideo(f) => NoVideo(t))
  BY <1>6, <1>11, <1>13, QueueFields
<1>15. /\ DemuxTyped(r) /\ CarrySound(r) /\ OutputSound(r, net.start, w) /\ (NoVideo(t) => NoVideo(r))
       /\ r.carry = (IF net.hls THEN t.carry ELSE None)
       /\ r.cc = t.cc /\ r.pes = t.pes /\ r.sized = t.sized /\ r.pcr = t.pcr /\ r.offset = t.offset /\ r.pmt = t.pmt
  <2>1. CASE net.hls BY <1>9, <1>14, <2>1
  <2>2. CASE ~net.hls
    <3>1. r = ResetAudioParserState(t) BY <1>9, <2>2
    <3>2. /\ DOMAIN r = DemuxFields /\ r.carry = None
          /\ \A g \in DemuxFields \ {"carry", "unsynced"} : r[g] = t[g]
      BY <1>8, <3>1 DEF ResetAudioParserState, DemuxFields
    <3>3. /\ r.audio = t.audio /\ r.cc = t.cc /\ r.pes = t.pes /\ r.sized = t.sized /\ r.details = t.details
          /\ r.pcr = t.pcr /\ r.offset = t.offset /\ r.pmt = t.pmt /\ r.vInit = t.vInit /\ r.aInit = t.aInit
          /\ r.drop = t.drop /\ r.started = t.started /\ r.vTrack = t.vTrack /\ r.aTrack = t.aTrack /\ r.out = t.out
      BY <3>2 DEF DemuxFields
    <3>4. DemuxTyped(r) BY <1>14, <3>2, <3>3 DEF DemuxTyped
    <3>5. CarrySound(r) BY <3>2 DEF CarrySound
    <3>6. OutputSound(r, net.start, w) BY <1>14, <3>3 DEF OutputSound
    <3> QED BY <2>2, <3>2, <3>3, <3>4, <3>5, <3>6 DEF NoVideo
  <2> QED BY <2>1, <2>2
<1> DEFINE l == [m \in Media |-> None]
<1>16. l \in [Media -> Nat \cup {None}] /\ l["audio"] = None /\ \A m \in Media : l[m] = None
  BY DEF Media
<1> HIDE DEF l
<1>17. ASSUME NEW m \in Media
       PROVE  TrackSound(r, net', m, None)
  <2>1. net'.next[m] \in Nat BY <1>2, <1>3 DEF SameNet
  <2>2. r.cc[m] = None /\ r.pes[m] = << >> /\ r.sized[m] = None
    BY <1>8, <1>15
  <2> QED BY <2>1, <2>2 DEF TrackSound, Queued, None
<1>18. FollowsCarry(r, net', None)
  <2>1. ASSUME r.carry # None
        PROVE  net'.hls /\ net'.next["audio"] = 2 * r.carry + 2
    <3>1. net.hls /\ r.carry = x.carry /\ x.carry \in Nat /\ net.gap["audio"] = 0
      BY <1>1, <1>2, <1>6, <1>14, <1>15, <2>1 DEF Keeps, DemuxTyped, Media
    <3>2. PICK j : TracksKept(x, net, j) BY DEF DemuxSound, TracksKept
    <3>3. /\ net.next["audio"] \in Nat /\ net.next["audio"] % 2 = 0 /\ net'.next = net.next /\ net'.hls = net.hls
      BY <1>2, <1>3 DEF Boundary, SameNet, Media
    <3>4. FollowsCarry(x, net, j["audio"]) /\ TrackSound(x, net, "audio", j["audio"])
      BY <3>2 DEF TracksKept, Media
    <3>5. \/ net.next["audio"] = 2 * x.carry + 2
          \/ j["audio"] = 2 * x.carry + 1
          \/ j["audio"] = 2 * x.carry + 2
      BY <2>1, <3>1, <3>4 DEF FollowsCarry
    <3>6. j["audio"] < net.next["audio"] /\ (j["audio"] # None => net.next["audio"] = j["audio"] + 1 + 0)
      BY <3>1, <3>4 DEF TrackSound
    <3>7. net.next["audio"] = 2 * x.carry + 2
      <4> DEFINE y == net.next["audio"]
                 c == x.carry
      <4>1. y = 2 * c + 2 \/ (2 * c + 1 < y /\ y <= 2 * c + 2) \/ (2 * c + 2 < y /\ y <= 2 * c + 3)
        BY <3>1, <3>5, <3>6 DEF None
      <4> HIDE DEF y, c
      <4>2. y \in Nat /\ c \in Nat /\ y % 2 = 0 BY <3>1, <3>3 DEF y, c
      <4>3. y = 2 * c + 2 BY <4>1, <4>2
      <4> QED BY <4>3 DEF y, c
    <3> QED BY <3>1, <3>3, <3>7
  <2> QED BY <2>1 DEF FollowsCarry
<1>19. NoClock(x) => NoClock(r)
  <2>1. ASSUME NoClock(x)
        PROVE  NoClock(r)
    <3>1. NoVideo(x) /\ x.pcr = None /\ x.offset = 0 BY <2>1 DEF NoClock, NoVideo
    <3>2. NoVideo(r) BY <1>6, <1>14, <1>15, <3>1 DEF Keeps
    <3>3. r.pcr = None /\ r.offset = 0 /\ r.pes["video"] = << >>
      BY <1>6, <1>8, <1>10, <1>15, <3>1 DEF Keeps, Media
    <3> QED BY <3>2, <3>3 DEF NoClock, NoVideo
  <2> QED BY <2>1
<1>20. NoClock(r) \/ \E p \in Nat : ClockSound(r, net', p, w)
  <2>1. ASSUME NEW p \in Nat, ClockSound(x, net, p, w)
        PROVE  ClockSound(r, net', p, w)
    <3>1. r.pcr = x.pcr /\ r.offset = x.offset BY <1>6, <1>10, <1>15 DEF Keeps
    <3> QED BY <1>3, <2>1, <3>1 DEF ClockSound, ClockAt, SameNet
  <2> QED BY <1>12, <1>19, <2>1
<1>21. r.pmt \/ BeforePMT(r)
  <2>1. ASSUME ~r.pmt
        PROVE  BeforePMT(r)
    <3>1. BeforePMT(x) BY <1>1, <1>6, <1>10, <1>15, <2>1
    <3>2. NoClock(r) BY <1>19, <3>1 DEF BeforePMT
    <3>3. r.carry = None BY <1>6, <1>14, <1>15, <3>1 DEF BeforePMT, Keeps
    <3> QED BY <1>8, <1>15, <3>2, <3>3 DEF BeforePMT
  <2> QED BY <2>1
<1>22. TracksKept(r, net', l) BY <1>16, <1>17, <1>18 DEF TracksKept
<1>23. NetTyped(net') /\ net'.start = net.start BY <1>3 DEF SameNet
<1>24. DemuxSound(r, net')
  BY <1>15, <1>20, <1>21, <1>22, <1>23, SoundInParts
<1> QED BY <1>5, <1>24

\* The tracks, the clock and what was handed out are sound in every state.
THEOREM DemuxerInvariant == TsSpec => []DemuxSound(x, net)
<1>1. TsInit => DemuxSound(x, net) BY DemuxerStarts
<1>2. DemuxSound(x, net) /\ [TsNext]_tsVars => DemuxSound(x, net)'
  <2> SUFFICES ASSUME DemuxSound(x, net), [TsNext]_tsVars
               PROVE  DemuxSound(x', net')
    OBVIOUS
  <2>1. CASE \E m \in Media : Receive(m) \/ Repeat(m) \/ Flagged(m)
    BY <2>1, ReceiveSound
  <2>2. CASE \E m \in Media : Lose(m) BY <2>2, LossSound
  <2>3. CASE ParsePAT \/ HandleSectionSlice \/ ParsePMT BY <2>3, SectionSound
  <2>4. CASE ChunkEnd BY <2>4, ChunkEndSound
  <2>5. CASE Boundary BY <2>5, BoundarySound
  <2>6. CASE UNCHANGED tsVars BY <2>6 DEF tsVars
  <2> QED BY <2>1, <2>2, <2>3, <2>4, <2>5, <2>6 DEF TsNext
<1> QED BY <1>1, <1>2, PTL DEF TsSpec

\* Whatever packets are lost, repeated or flagged, what leaves the demuxer is
\* whole, starts with a keyframe after each loss and is at its true time.
THEOREM DemuxIsClean == TsSpec => []DemuxedIsClean
<1>1. DemuxSound(x, net) => DemuxedIsClean
  <2> SUFFICES ASSUME DemuxSound(x, net)
               PROVE  DemuxedIsClean
    OBVIOUS
  <2>1. PICK w \in Nat : OutputSound(x, net.start, w) /\ (NoClock(x) \/ \E p \in Nat : ClockSound(x, net, p, w))
    BY DEF DemuxSound
  <2>2. NoDamagedSample BY <2>1 DEF OutputSound, Whole, NoDamagedSample
  <2>3. ResumesAtKeyframe
    BY <2>1 DEF OutputSound, Resumes, ResumesAtKeyframe
  <2>4. TsUnits \in Nat /\ TsUnits > 0 /\ WRAP \in Nat /\ WRAP > 2 /\ Delay \in Nat
    BY TsFacts
  <2>5. TimestampsUnwrap
    <3>1. CASE NoClock(x)
      <4>1. 0 \in 0 .. TsUnits BY <2>4
      <4> QED BY <3>1, <4>1 DEF NoClock, TimestampsUnwrap
    <3>2. CASE \E p \in Nat : ClockSound(x, net, p, w)
      <4>1. PICK p \in Nat : ClockSound(x, net, p, w) BY <3>2
      <4>2. /\ net.start \in Nat /\ net.start <= WRAP /\ net.next["video"] \in Nat /\ net.next["video"] <= 2 * TsUnits
        BY DEF DemuxSound, NetTyped, Media
      <4>3. p < TsUnits
        <5>1. 2 * p < net.next["video"] BY <4>1 DEF ClockSound
        <5> QED BY <2>4, <4>2, <5>1
      <4>4. w * WRAP <= WRAP + p
        <5>1. x.pcr \in Nat /\ x.pcr = net.start + p - w * WRAP
          BY <4>1 DEF ClockSound, ClockAt
        <5>2. w * WRAP \in Nat BY <2>4
        <5> QED BY <2>4, <4>2, <5>1, <5>2
      <4>5. w <= TsUnits
        <5>1. ASSUME w >= TsUnits + 1
              PROVE  FALSE
          <6>1. w * WRAP >= (TsUnits + 1) * WRAP BY <2>4, <5>1
          <6>2. (TsUnits + 1) * WRAP >= WRAP + TsUnits BY <2>4
          <6>3. w * WRAP \in Nat /\ (TsUnits + 1) * WRAP \in Nat BY <2>4
          <6> QED BY <2>4, <4>3, <4>4, <6>1, <6>2, <6>3
        <5> QED BY <2>4, <5>1
      <4>6. \A i \in DOMAIN x.out : x.out[i].k = "v" => x.out[i].ts = Pts(x.out[i].u) - w * WRAP
        <5>1. ASSUME NEW i \in DOMAIN x.out, x.out[i].k = "v"
              PROVE  x.out[i].ts = Pts(x.out[i].u) - w * WRAP
          <6>1. x.out[i].u \in Nat
            <7>1. x.out \in Seq(Items) BY DEF DemuxSound, DemuxTyped
            <7>2. x.out[i] \in Items BY <5>1, <7>1
            <7> QED BY <5>1, <7>2 DEF Items, VideoItems, AudioItems, InitItems
          <6>2. x.out[i].ts = net.start + x.out[i].u + Delay - w * WRAP
            BY <2>1, <5>1 DEF OutputSound, Whole
          <6>3. w * WRAP \in Int BY <2>4
          <6>4. net.start + x.out[i].u + Delay - w * WRAP = (net.start + x.out[i].u + Delay) - w * WRAP
            BY <2>4, <4>2, <6>1, <6>3
          <6> QED BY <6>2, <6>4 DEF Pts, At
        <5> QED BY <5>1
      <4>7. w \in 0 .. TsUnits BY <2>4, <4>5
      <4> QED BY <4>6, <4>7 DEF TimestampsUnwrap
    <3> QED BY <2>1, <3>1, <3>2
  <2> QED BY <2>2, <2>3, <2>5 DEF DemuxedIsClean
<1> QED BY <1>1, DemuxerInvariant, PTL

----------------------------------------------------------------------------
(* Mp4Remux                                                                *)

\* The remuxer, a track of it, the samples it takes and those it puts out.
MuxFields == {"t", "base", "offset", "hasVideo", "presentation", "initialPresentation", "initialOutput",
              "silent", "silentLast", "normalize", "pcmEnd", "pcmOut", "out"}
LaneFields == {"pend", "stash", "next", "emitted", "meta", "lastDts", "lastEnd", "lastOut", "residual"}
Times == Int \cup {Undefined}
Collected == [dts : Int, id : Int, cts : Int]
Outputs == [t : {"video", "audio", "pcm"}, dts : Int, duration : Int, original : Int, id : Int]

LaneTyped(r) ==
  /\ DOMAIN r = LaneFields /\ r.pend \in Seq(Collected) /\ r.stash \in Seq(Collected)
  /\ r.next \in Times /\ r.lastDts \in Times /\ r.lastEnd \in Times /\ r.lastOut \in Times
  /\ r.residual \in -1 .. 0
MuxTyped(s) ==
  /\ DOMAIN s = MuxFields /\ DOMAIN s.t = Tracks
  /\ \A t \in Tracks : LaneTyped(s.t[t])
  /\ s.base \in Times /\ s.offset \in Int /\ s.normalize \in BOOLEAN
  /\ s.presentation \in Times /\ s.initialPresentation \in Times /\ s.initialOutput \in Times
  /\ s.pcmEnd \in Times /\ s.pcmOut \in Times
  /\ s.out \in Seq(Outputs)

\* Entry i of an output w is the last one of track t; where entry i ends; how
\* many entries of t there are, and how many before entry i.
LastOf(w, t, i) == i \in DOMAIN w /\ w[i].t = t /\ \A j \in DOMAIN w : j > i => w[j].t # t
Ends(w, i) == w[i].dts + w[i].duration
CountOf(w, t) == Cardinality({k \in DOMAIN w : w[k].t = t})
Before(w, t, i) == Cardinality({k \in 1 .. i - 1 : w[k].t = t})

\* The three parts of RemuxedIsWhole, of an output w.
Joined(w) ==
  \A i, j \in DOMAIN w :
    (i < j /\ w[i].t = w[j].t /\ \A k \in i + 1 .. j - 1 : w[k].t # w[i].t) => w[j].dts <= Ends(w, i)
InTurn(w, jumped) ==
  \A i, j \in DOMAIN w :
    (i < j /\ w[i].t = w[j].t /\ w[i].t \in Tracks) =>
      w[i].id < w[j].id /\ (~jumped => w[i].original < w[j].original)
Paced(w, t, from) ==
  \A i \in DOMAIN w : w[i].t = t => (2 * w[i].dts - from) - Before(w, t, i) * Ref[t] \in 0 .. 1

\* What a track holds, of numbers below n and times below d.
Holds(r) == r.stash \o r.pend
Rising(q) == \A i, j \in DOMAIN q : i < j => q[i].id < q[j].id /\ q[i].dts < q[j].dts
Below(q, n, d) == \A i \in DOMAIN q : q[i].id < n /\ q[i].dts < d

\* What a track remembers of its last output.
NoneYet(s, t) ==
  /\ \A i \in DOMAIN s.out : s.out[i].t # t
  /\ s.t[t].next = Undefined /\ s.t[t].lastEnd = Undefined /\ s.t[t].lastDts = Undefined
  /\ s.t[t].residual = 0
LastKept(s, t) ==
  \E i \in DOMAIN s.out :
    /\ LastOf(s.out, t, i)
    /\ s.t[t].lastOut = Ends(s.out, i) /\ s.t[t].lastDts = s.out[i].original
    /\ s.t[t].lastEnd \in Int /\ s.base \in Int
    /\ s.t[t].next \in {s.t[t].lastOut, Undefined}

\* What was put out is older than what is held and what will come.
OlderOut(w, t, q, n) ==
  \A i \in DOMAIN w : w[i].t = t => w[i].id < n /\ \A k \in DOMAIN q : w[i].id < q[k].id
OlderLast(s, t, q, d) ==
  s.t[t].lastDts # Undefined =>
    s.t[t].lastDts < d - s.base /\ \A k \in DOMAIN q : s.t[t].lastDts < q[k].dts - s.base
OnPace(s, t) ==
  /\ s.t[t].lastDts # Undefined =>
       s.t[t].next # Undefined
       /\ 2 * s.t[t].next + s.t[t].residual = 2 * s.offset + CountOf(s.out, t) * Ref[t]
  /\ Paced(s.out, t, 2 * s.offset)

LaneSound(s, t, n, d, jumped, cut) ==
  /\ Rising(Holds(s.t[t])) /\ Below(Holds(s.t[t]), n, d)
  /\ s.t[t].stash # << >> => s.base \in Int
  /\ NoneYet(s, t) \/ LastKept(s, t)
  /\ OlderOut(s.out, t, Holds(s.t[t]), n)
  /\ (~jumped /\ ~s.normalize) => OlderLast(s, t, Holds(s.t[t]), d)
  /\ ~cut => OnPace(s, t)

PcmKept(s) ==
  \/ s.pcmEnd = Undefined /\ \A i \in DOMAIN s.out : s.out[i].t # "pcm"
  \/ \E i \in DOMAIN s.out :
       LastOf(s.out, "pcm", i) /\ s.pcmOut = Ends(s.out, i) /\ s.pcmEnd \in Int

\* The remuxer s, to which samples numbered from n and timed from d will come.
MuxSound(s, n, d, jumped, cut) ==
  /\ MuxTyped(s)
  /\ \A t \in Tracks : LaneSound(s, t, n[t], d[t], jumped, cut)
  /\ PcmKept(s) /\ Joined(s.out) /\ InTurn(s.out, jumped)

SenderTyped(p) ==
  /\ DOMAIN p = {"dts", "n", "cuts", "jumps", "since", "mode"}
  /\ p.n \in [Tracks -> Int] /\ p.dts \in [Tracks -> Int] /\ p.cuts \in Nat /\ p.jumps \in Nat

RemuxSound(s, p) ==
  /\ SenderTyped(p)
  /\ MuxSound(s, p.n, p.dts, p.jumps > 0, p.cuts > 0)
  /\ p.mode = "hls" => ~s.normalize

----------------------------------------------------------------------------
(* Numbers                                                                 *)

LEMMA RemuxFacts ==
  /\ \A t \in Tracks : Ref[t] \in Nat /\ Ref[t] >= 2
  /\ Undefined \notin Int
  /\ BaseOffsets \subseteq Int /\ Jumps \subseteq Int
<1>1. Ref \in [Tracks -> Nat \ {0, 1}] BY RemuxAssumption DEF Tracks
<1>2. \A t \in Tracks : Ref[t] \in Nat /\ Ref[t] >= 2 BY <1>1
<1>3. BaseOffsets \subseteq Int /\ Jumps \subseteq Int /\ Undefined \notin Int
  BY RemuxAssumption
<1> QED BY <1>2, <1>3

\* Rounding a duration leaves half a millisecond at most (_nextSampleDuration).
LEMMA DurationIs ==
  ASSUME NEW ref \in Nat, ref >= 2, NEW rest \in -1 .. 0
  PROVE  /\ NextSampleDuration(ref, rest) \in Nat /\ NextSampleDuration(ref, rest) >= 1
         /\ (ref + rest) - 2 * NextSampleDuration(ref, rest) \in -1 .. 0
<1> DEFINE y == ref + rest
<1>1. y \in Nat /\ y >= 1
  OBVIOUS
<1> DEFINE c == (y + 1) \div 2
<1>2. c \in Int /\ 2 * c <= y + 1 /\ y + 1 < 2 * c + 2 BY <1>1, SMT
<1>3. c >= 1 /\ y - 2 * c \in -1 .. 0 BY <1>1, <1>2
<1>4. NextSampleDuration(ref, rest) = c BY <1>3 DEF NextSampleDuration
<1> QED BY <1>2, <1>3, <1>4

LEMMA OneMore ==
  ASSUME NEW c \in Int, NEW v \in Int
  PROVE  (c + 1) * v = c * v + v /\ c * v \in Int
BY SMT

LEMMA SumTimes ==
  ASSUME NEW c \in Int, NEW e \in Int, NEW v \in Int
  PROVE  (c + e) * v = c * v + e * v /\ c * v \in Int /\ e * v \in Int
BY SMT

----------------------------------------------------------------------------
(* A fragment: one sample after the other                                  *)

\* The parts of the remuxer that one track's fragment leaves alone, and the
\* parts of a track that it leaves to EmitFragment.
SameFrame(r, s) ==
  /\ r.base = s.base /\ r.offset = s.offset /\ r.normalize = s.normalize
  /\ r.pcmEnd = s.pcmEnd /\ r.pcmOut = s.pcmOut
SameLane(r, s) ==
  /\ r.pend = s.pend /\ r.stash = s.stash /\ r.meta = s.meta
  /\ r.next = s.next /\ r.lastDts = s.lastDts /\ r.lastEnd = s.lastEnd /\ r.lastOut = s.lastOut
SameLanes(r, s, t) == SameLane(r.t[t], s.t[t]) /\ \A u \in Tracks : u # t => r.t[u] = s.t[u]

\* A fragment f of track t is made of the first i samples of q, in their order.
MadeOf(f, t, q, base, i) ==
  /\ f \in Seq(Outputs) /\ \A k \in DOMAIN f : f[k].t = t
  /\ \A k \in DOMAIN f : \E j \in 1 .. i : f[k].id = q[j].id /\ f[k].original = q[j].dts - base
  /\ \A k, l \in DOMAIN f : k < l => f[k].id < f[l].id /\ f[k].original < f[l].original

\* It starts at start and has no hole; when the rest of the rounding before it
\* was rest, each sample is as late as the nominal durations before it say.
Chained(f, start) == \A k \in DOMAIN f : f[k].dts = IF k = 1 THEN start ELSE Ends(f, k - 1)
NominalTimes(f, t, start, rest) ==
  \A k \in DOMAIN f : (2 * f[k].dts - (2 * start + rest)) - (k - 1) * Ref[t] \in 0 .. 1
UpTo(f, t, start, rest, at, now) == 2 * at + now = (2 * start + rest) + Len(f) * Ref[t]

BatchTyped(b) ==
  /\ DOMAIN b = {"s", "dts", "correction", "mp4"}
  /\ MuxTyped(b.s) /\ b.s.base \in Int /\ b.dts \in Int /\ b.correction \in Int /\ b.mp4 \in Seq(Outputs)

\* The batch b on track t of the remuxer s, when i samples of q are added.
BatchSound(b, s, t, start, q, i) ==
  /\ BatchTyped(b)
  /\ SameFrame(b.s, s) /\ SameLanes(b.s, s, t) /\ b.s.out = s.out
  /\ MadeOf(b.mp4, t, q, s.base, i)
  /\ Chained(b.mp4, start) /\ NominalTimes(b.mp4, t, start, s.t[t].residual)
  /\ b.dts = IF b.mp4 = << >> THEN start ELSE Ends(b.mp4, Len(b.mp4))
  /\ UpTo(b.mp4, t, start, s.t[t].residual, b.dts, b.s.t[t].residual)

\* Anchoring the presentation leaves the decoding times alone.
LEMMA AnchorIs ==
  ASSUME NEW b, BatchTyped(b), NEW t \in Tracks, NEW sample \in Collected
  PROVE  LET r == Anchor(b, t, sample)
         IN  /\ BatchTyped(r) /\ r.dts = b.dts /\ r.mp4 = b.mp4
             /\ SameFrame(r.s, b.s) /\ r.s.t = b.s.t /\ r.s.out = b.s.out
<1> DEFINE p == sample.dts - b.s.base + sample.cts
                  - (IF b.s.normalize THEN b.correction ELSE 0) - b.dts
<1> DEFINE g == [b.s EXCEPT !.presentation = p, !.initialPresentation = IF @ = Undefined THEN p ELSE @]
<1> DEFINE e == [b EXCEPT !.s = g]
<1>1. CASE t = "audio" \/ b.s.presentation # Undefined BY <1>1 DEF Anchor, SameFrame
<1>2. CASE ~(t = "audio" \/ b.s.presentation # Undefined)
  <2>1. p \in Int BY DEF Collected, BatchTyped, MuxTyped
  <2>2. Anchor(b, t, sample) = e
    BY <1>2 DEF Anchor, BatchTyped, MuxTyped, MuxFields
  <2>3. /\ g.t = b.s.t /\ g.out = b.s.out /\ SameFrame(g, b.s) /\ DOMAIN g = MuxFields
        /\ g.presentation = p /\ g.initialPresentation \in Times /\ g.initialOutput = b.s.initialOutput
    BY <2>1 DEF BatchTyped, MuxTyped, MuxFields, SameFrame, Times
  <2>4. MuxTyped(g) /\ g.base \in Int
    BY <2>1, <2>3 DEF BatchTyped, MuxTyped, SameFrame, Times
  <2> HIDE DEF g
  <2>5. e.s = g /\ e.dts = b.dts /\ e.mp4 = b.mp4 /\ e.correction = b.correction /\ DOMAIN e = DOMAIN b
    BY DEF BatchTyped
  <2> HIDE DEF e
  <2>6. BatchTyped(e) BY <2>4, <2>5 DEF BatchTyped
  <2> QED BY <2>2, <2>3, <2>5, <2>6
<1> QED BY <1>1, <1>2

\* What one sample adds to a fragment (_remuxVideo, _remuxAudio).
NewEntry(b, t, sample, length) ==
  [t |-> t, dts |-> b.dts, duration |-> length, original |-> sample.dts - b.s.base, id |-> sample.id]
Added(r, b, t, sample) ==
  LET length == NextSampleDuration(Ref[t], b.s.t[t].residual)
  IN  /\ BatchTyped(r) /\ SameFrame(r.s, b.s) /\ SameLanes(r.s, b.s, t) /\ r.s.out = b.s.out
      /\ \/ r.dts = b.dts /\ r.mp4 = b.mp4 /\ r.s.t[t].residual = b.s.t[t].residual
         \/ /\ r.dts = b.dts + length
            /\ r.mp4 = Append(b.mp4, NewEntry(b, t, sample, length))
            /\ r.s.t[t].residual = (Ref[t] + b.s.t[t].residual) - 2 * length

LEMMA AddedIs ==
  ASSUME NEW b0, BatchTyped(b0), NEW t \in Tracks, NEW sample \in Collected
  PROVE  Added(AddSample(b0, t, sample), b0, t, sample)
<1> DEFINE b == Anchor(b0, t, sample)
<1>1. /\ BatchTyped(b) /\ b.dts = b0.dts /\ b.mp4 = b0.mp4
      /\ SameFrame(b.s, b0.s) /\ b.s.t = b0.s.t /\ b.s.out = b0.s.out
  BY AnchorIs
<1> DEFINE rest == b.s.t[t].residual
<1> DEFINE length == NextSampleDuration(Ref[t], rest)
<1> DEFINE entry == NewEntry(b, t, sample, length)
<1> DEFINE lane == [b.s.t[t] EXCEPT !.residual = Ref[t] + rest - 2 * length]
<1> DEFINE g == [b.s EXCEPT !.t[t] = lane,
                            !.initialOutput = IF t = "video" /\ @ = Undefined THEN b.dts ELSE @]
<1> DEFINE e == [b EXCEPT !.mp4 = Append(@, entry), !.dts = @ + length, !.s = g]
<1>2. AddSample(b0, t, sample) = IF Drops(b, t, sample) THEN b ELSE
        [b EXCEPT !.mp4 = Append(@, entry), !.dts = @ + length,
                  !.s.t[t].residual = Ref[t] + rest - 2 * length,
                  !.s.initialOutput = IF t = "video" /\ @ = Undefined THEN b.dts ELSE @]
  BY DEF AddSample, NewEntry
<1> HIDE DEF b
<1>3. LaneTyped(b.s.t[t]) /\ rest \in -1 .. 0 /\ t \in DOMAIN b.s.t
  BY <1>1 DEF BatchTyped, MuxTyped, LaneTyped
<1>4. /\ length \in Int /\ length >= 1 /\ (Ref[t] + rest) - 2 * length \in -1 .. 0
      /\ Ref[t] + rest - 2 * length = (Ref[t] + rest) - 2 * length
  <2>1. Ref[t] \in Nat /\ Ref[t] >= 2 BY RemuxFacts
  <2>2. length \in Nat /\ length >= 1 /\ (Ref[t] + rest) - 2 * length \in -1 .. 0
    BY <2>1, <1>3, DurationIs
  <2> QED BY <2>1, <2>2, <1>3
<1>5. ~Drops(b, t, sample) => AddSample(b0, t, sample) = e
  BY <1>1, <1>2, <1>3 DEF BatchTyped, MuxTyped, MuxFields
<1> HIDE DEF length, rest
<1>6. LaneTyped(lane) /\ SameLane(lane, b.s.t[t]) /\ lane.residual = (Ref[t] + rest) - 2 * length
  <2>1. /\ DOMAIN lane = LaneFields /\ SameLane(lane, b.s.t[t])
        /\ lane.residual = Ref[t] + rest - 2 * length
    BY <1>3 DEF LaneTyped, LaneFields, SameLane
  <2> HIDE DEF lane
  <2> QED BY <2>1, <1>3, <1>4 DEF LaneTyped, SameLane
<1> HIDE DEF lane
<1>7. /\ DOMAIN g = MuxFields /\ g.t = [b.s.t EXCEPT ![t] = lane] /\ SameFrame(g, b.s) /\ g.out = b.s.out
      /\ g.presentation = b.s.presentation /\ g.initialPresentation = b.s.initialPresentation
      /\ g.initialOutput \in Times
  BY <1>1 DEF BatchTyped, MuxTyped, MuxFields, SameFrame, Times
<1>8. g.t[t] = lane /\ DOMAIN g.t = Tracks /\ \A u \in Tracks : u # t => g.t[u] = b.s.t[u]
  BY <1>1, <1>7 DEF BatchTyped, MuxTyped
<1> HIDE DEF g
<1>9. MuxTyped(g) /\ g.base \in Int
  BY <1>1, <1>6, <1>7, <1>8 DEF BatchTyped, MuxTyped, SameFrame
<1>10. e.s = g /\ e.mp4 = Append(b.mp4, entry) /\ e.dts = b.dts + length
       /\ e.correction = b.correction /\ DOMAIN e = DOMAIN b
  BY <1>1 DEF BatchTyped
<1> HIDE DEF e
<1>11. entry \in Outputs
  BY <1>1, <1>4 DEF BatchTyped, NewEntry, Outputs, Collected, Tracks
<1>12. BatchTyped(e) BY <1>1, <1>4, <1>9, <1>10, <1>11 DEF BatchTyped
<1>13. entry = NewEntry(b0, t, sample, length) BY <1>1 DEF NewEntry, SameFrame
<1>14. SameLanes(b.s, b0.s, t) /\ b.s.t[t].residual = b0.s.t[t].residual
  BY <1>1 DEF SameLanes, SameLane
<1>15. SameLanes(e.s, b0.s, t) /\ SameFrame(e.s, b0.s) /\ e.s.out = b0.s.out
  BY <1>1, <1>6, <1>7, <1>8, <1>10 DEF SameLanes, SameFrame
<1>16. length = NextSampleDuration(Ref[t], b0.s.t[t].residual) /\ rest = b0.s.t[t].residual
  BY <1>1 DEF length, rest
<1>17. CASE Drops(b, t, sample)
  <2>1. AddSample(b0, t, sample) = b BY <1>2, <1>17
  <2> QED BY <2>1, <1>1, <1>14 DEF Added
<1>18. CASE ~Drops(b, t, sample)
  <2>1. AddSample(b0, t, sample) = e BY <1>5, <1>18
  <2>2. /\ e.dts = b0.dts + length
        /\ e.mp4 = Append(b0.mp4, NewEntry(b0, t, sample, length))
        /\ e.s.t[t].residual = (Ref[t] + b0.s.t[t].residual) - 2 * length
    BY <1>1, <1>6, <1>8, <1>10, <1>13, <1>16
  <2> QED BY <2>1, <2>2, <1>12, <1>15, <1>16 DEF Added
<1> QED BY <1>17, <1>18

LEMMA LateIs ==
  ASSUME NEW at \in Int, NEW now \in -1 .. 0, NEW start \in Int, NEW rest \in -1 .. 0, NEW z \in Int,
         2 * at + now = (2 * start + rest) + z
  PROVE  (2 * at - (2 * start + rest)) - z \in 0 .. 1
OBVIOUS

\* One more sample e at the end of a fragment.
Grows(f, t, q, base, i, start, rest, at, now, e) ==
  /\ t \in Tracks /\ q \in Seq(Collected) /\ Rising(q) /\ base \in Int /\ i \in 0 .. Len(q) - 1
  /\ MadeOf(f, t, q, base, i) /\ Chained(f, start) /\ NominalTimes(f, t, start, rest)
  /\ start \in Int /\ rest \in -1 .. 0 /\ at \in Int /\ now \in -1 .. 0
  /\ at = IF f = << >> THEN start ELSE Ends(f, Len(f))
  /\ UpTo(f, t, start, rest, at, now)
  /\ e \in Outputs /\ e.t = t /\ e.dts = at /\ e.original = q[i + 1].dts - base /\ e.id = q[i + 1].id
FragmentGrown(f, w, t, q, base, i, start, rest, at, e) ==
  /\ MadeOf(w, t, q, base, i + 1) /\ Chained(w, start) /\ NominalTimes(w, t, start, rest)
  /\ w # << >> /\ Ends(w, Len(w)) = at + e.duration
  /\ Len(w) * Ref[t] = Len(f) * Ref[t] + Ref[t] /\ Len(f) * Ref[t] \in Int

LEMMA FragmentGrows ==
  ASSUME NEW f, NEW t, NEW q, NEW base, NEW i, NEW start, NEW rest, NEW at, NEW now, NEW e,
         Grows(f, t, q, base, i, start, rest, at, now, e)
  PROVE  FragmentGrown(f, Append(f, e), t, q, base, i, start, rest, at, e)
<1>0. /\ t \in Tracks /\ q \in Seq(Collected) /\ Rising(q) /\ base \in Int /\ i \in 0 .. Len(q) - 1
      /\ MadeOf(f, t, q, base, i) /\ Chained(f, start) /\ NominalTimes(f, t, start, rest)
      /\ start \in Int /\ rest \in -1 .. 0 /\ at \in Int /\ now \in -1 .. 0
      /\ at = IF f = << >> THEN start ELSE Ends(f, Len(f))
      /\ UpTo(f, t, start, rest, at, now)
      /\ e \in Outputs /\ e.t = t /\ e.dts = at /\ e.original = q[i + 1].dts - base /\ e.id = q[i + 1].id
  BY DEF Grows
<1> USE <1>0
<1> DEFINE w == Append(f, e)
<1> DEFINE m == Len(f)
<1>1. /\ f \in Seq(Outputs) /\ m \in Nat /\ DOMAIN f = 1 .. m
      /\ w \in Seq(Outputs) /\ Len(w) = m + 1 /\ DOMAIN w = 1 .. m + 1 /\ w[m + 1] = e
      /\ \A k \in 1 .. m : w[k] = f[k]
  BY DEF MadeOf
<1>2. Ref[t] \in Int /\ (m + 1) * Ref[t] = m * Ref[t] + Ref[t] /\ m * Ref[t] \in Int
  <2>1. Ref[t] \in Int /\ m \in Int BY <1>1, RemuxFacts
  <2> QED BY <2>1, OneMore
<1> HIDE DEF w
<1>3. \A k \in DOMAIN w : k = m + 1 \/ (k \in 1 .. m /\ k \in DOMAIN f)
  BY <1>1
<1>4. \A j \in DOMAIN q : q[j].dts \in Int /\ q[j].id \in Int
  <2> SUFFICES ASSUME NEW j \in DOMAIN q
               PROVE  q[j].dts \in Int /\ q[j].id \in Int
    OBVIOUS
  <2>1. q[j] \in Collected
    OBVIOUS
  <2> QED BY <2>1 DEF Collected
<1>5. MadeOf(w, t, q, base, i + 1)
  <2>1. \A k \in DOMAIN w : w[k].t = t BY <1>1, <1>3 DEF MadeOf
  <2>2. ASSUME NEW k \in DOMAIN w
        PROVE  \E j \in 1 .. i + 1 : w[k].id = q[j].id /\ w[k].original = q[j].dts - base
    <3>1. CASE k = m + 1
      <4>1. i + 1 \in 1 .. i + 1
        OBVIOUS
      <4> QED BY <3>1, <4>1, <1>1
    <3>2. CASE k \in DOMAIN f
      <4>1. PICK j \in 1 .. i : f[k].id = q[j].id /\ f[k].original = q[j].dts - base
        BY <3>2 DEF MadeOf
      <4>2. j \in 1 .. i + 1 /\ w[k] = f[k] BY <3>2, <1>1
      <4> QED BY <4>1, <4>2
    <3> QED BY <3>1, <3>2, <1>3
  <2>3. ASSUME NEW k \in DOMAIN w, NEW l \in DOMAIN w, k < l
        PROVE  w[k].id < w[l].id /\ w[k].original < w[l].original
    <3>1. k \in 1 .. m /\ k \in DOMAIN f BY <2>3, <1>1, <1>3
    <3>2. CASE l = m + 1
      <4>1. PICK j \in 1 .. i : f[k].id = q[j].id /\ f[k].original = q[j].dts - base
        BY <3>1 DEF MadeOf
      <4>2. j \in DOMAIN q /\ i + 1 \in DOMAIN q /\ j < i + 1 /\ j \in 1 .. i + 1 /\ i + 1 \in 1 .. i + 1
        OBVIOUS
      <4>3. q[j].id < q[i + 1].id /\ q[j].dts < q[i + 1].dts BY <4>2 DEF Rising
      <4>4. q[j].dts \in Int /\ q[i + 1].dts \in Int BY <4>2, <1>4
      <4>5. w[k] = f[k] /\ w[l] = e BY <3>1, <3>2, <1>1
      <4>6. q[j].dts - base < q[i + 1].dts - base BY <4>3, <4>4
      <4> QED BY <4>1, <4>3, <4>5, <4>6
    <3>3. CASE l \in DOMAIN f BY <2>3, <3>1, <3>3, <1>1 DEF MadeOf
    <3> QED BY <3>2, <3>3, <1>3
  <2> QED BY <1>1, <2>1, <2>2, <2>3 DEF MadeOf
<1>6. Chained(w, start)
  <2> SUFFICES ASSUME NEW k \in DOMAIN w
               PROVE  w[k].dts = IF k = 1 THEN start ELSE Ends(w, k - 1)
    BY DEF Chained
  <2>1. CASE k = m + 1
    <3>1. f = << >> <=> m = 0 BY <1>1
    <3>2. m # 0 => Ends(w, m) = Ends(f, m)
      <4>1. m # 0 => m \in 1 .. m BY <1>1
      <4> QED BY <4>1, <1>1 DEF Ends
    <3> QED BY <2>1, <3>1, <3>2, <1>1
  <2>2. CASE k \in DOMAIN f
    <3>1. k # 1 => k - 1 \in 1 .. m /\ Ends(w, k - 1) = Ends(f, k - 1)
      <4>1. k # 1 => k - 1 \in 1 .. m BY <2>2, <1>1
      <4> QED BY <4>1, <1>1 DEF Ends
    <3>2. w[k] = f[k] BY <2>2, <1>1
    <3> QED BY <2>2, <3>1, <3>2 DEF Chained
  <2> QED BY <2>1, <2>2, <1>3
<1>7. NominalTimes(w, t, start, rest)
  <2> SUFFICES ASSUME NEW k \in DOMAIN w
               PROVE  (2 * w[k].dts - (2 * start + rest)) - (k - 1) * Ref[t] \in 0 .. 1
    BY DEF NominalTimes
  <2>1. CASE k = m + 1
    <3>1. k - 1 = m /\ w[k].dts = at BY <2>1, <1>1
    <3>2. (k - 1) * Ref[t] = m * Ref[t] BY <3>1
    <3> HIDE DEF m
    <3> DEFINE z == m * Ref[t]
    <3>3. z \in Int /\ 2 * at + now = (2 * start + rest) + z BY <1>2 DEF m, UpTo
    <3> HIDE DEF z
    <3>4. (2 * at - (2 * start + rest)) - z \in 0 .. 1 BY <3>3, LateIs
    <3> QED BY <3>1, <3>2, <3>4 DEF z
  <2>2. CASE k \in DOMAIN f
    <3>1. w[k] = f[k] BY <2>2, <1>1
    <3> QED BY <2>2, <3>1 DEF NominalTimes
  <2> QED BY <2>1, <2>2, <1>3
<1>8. w # << >> /\ Ends(w, Len(w)) = at + e.duration BY <1>1 DEF Ends
<1>9. Len(w) * Ref[t] = m * Ref[t] + Ref[t]
  <2>1. Len(w) * Ref[t] = (m + 1) * Ref[t] BY <1>1
  <2> QED BY <2>1, <1>2
<1> QED BY <1>2, <1>5, <1>6, <1>7, <1>8, <1>9 DEF w, FragmentGrown

LEMMA BatchGrows ==
  ASSUME NEW s, MuxTyped(s), NEW t \in Tracks, NEW start \in Int, NEW q \in Seq(Collected), Rising(q),
         NEW i \in 0 .. Len(q) - 1, NEW b, BatchSound(b, s, t, start, q, i)
  PROVE  BatchSound(AddSample(b, t, q[i + 1]), s, t, start, q, i + 1)
<1> DEFINE r == AddSample(b, t, q[i + 1])
<1> DEFINE f == b.mp4
<1> DEFINE rest == s.t[t].residual
<1> DEFINE now == b.s.t[t].residual
<1> DEFINE length == NextSampleDuration(Ref[t], now)
<1> DEFINE e == NewEntry(b, t, q[i + 1], length)
<1> SUFFICES BatchSound(r, s, t, start, q, i + 1)
  OBVIOUS
<1>1. /\ BatchTyped(b) /\ SameFrame(b.s, s) /\ SameLanes(b.s, s, t) /\ b.s.out = s.out
      /\ MadeOf(f, t, q, s.base, i) /\ Chained(f, start) /\ NominalTimes(f, t, start, rest)
      /\ b.dts = IF f = << >> THEN start ELSE Ends(f, Len(f))
      /\ UpTo(f, t, start, rest, b.dts, now)
  BY DEF BatchSound
<1>2. i + 1 \in DOMAIN q /\ q[i + 1] \in Collected
  OBVIOUS
<1>3. Added(r, b, t, q[i + 1]) BY <1>1, <1>2, AddedIs
<1>4. /\ BatchTyped(r) /\ SameFrame(r.s, b.s) /\ SameLanes(r.s, b.s, t) /\ r.s.out = b.s.out
      /\ \/ r.dts = b.dts /\ r.mp4 = f /\ r.s.t[t].residual = now
         \/ r.dts = b.dts + length /\ r.mp4 = Append(f, e)
            /\ r.s.t[t].residual = (Ref[t] + now) - 2 * length
  BY <1>3 DEF Added
<1>5. SameFrame(r.s, s) /\ SameLanes(r.s, s, t) /\ r.s.out = s.out
  BY <1>1, <1>4 DEF SameFrame, SameLanes, SameLane
<1> HIDE DEF r
<1>6. rest \in -1 .. 0 /\ now \in -1 .. 0 /\ s.base \in Int /\ b.dts \in Int /\ b.s.base = s.base
  BY <1>1 DEF BatchTyped, MuxTyped, LaneTyped, SameFrame
<1>7. /\ length \in Int /\ Ref[t] \in Int /\ length >= 1
  <2>1. Ref[t] \in Nat /\ Ref[t] >= 2 BY RemuxFacts
  <2> DEFINE ref == Ref[t]
  <2> HIDE DEF now, ref
  <2>2. NextSampleDuration(ref, now) \in Nat /\ NextSampleDuration(ref, now) >= 1
    BY <2>1, <1>6, DurationIs DEF ref
  <2>3. length = NextSampleDuration(ref, now) BY DEF ref, now
  <2> HIDE DEF length
  <2> QED BY <2>1, <2>2, <2>3 DEF ref
<1>8. CASE r.dts = b.dts /\ r.mp4 = f /\ r.s.t[t].residual = now
  <2>1. MadeOf(f, t, q, s.base, i + 1)
    <3>1. ASSUME NEW k \in DOMAIN f
          PROVE  \E j \in 1 .. i + 1 : f[k].id = q[j].id /\ f[k].original = q[j].dts - s.base
      <4>1. PICK j \in 1 .. i : f[k].id = q[j].id /\ f[k].original = q[j].dts - s.base
        BY <1>1 DEF MadeOf
      <4>2. j \in 1 .. i + 1
        OBVIOUS
      <4> QED BY <4>1, <4>2
    <3> QED BY <1>1, <3>1 DEF MadeOf
  <2>2. r.mp4 = f /\ r.dts = b.dts /\ r.s.t[t].residual = now /\ BatchTyped(r)
    BY <1>4, <1>8
  <2>3. UpTo(r.mp4, t, start, rest, r.dts, r.s.t[t].residual)
    BY <1>1, <2>2
  <2>4. r.dts = IF r.mp4 = << >> THEN start ELSE Ends(r.mp4, Len(r.mp4))
    BY <1>1, <2>2
  <2>5. MadeOf(r.mp4, t, q, s.base, i + 1) /\ Chained(r.mp4, start) /\ NominalTimes(r.mp4, t, start, rest)
    BY <1>1, <2>1, <2>2
  <2> QED BY <1>5, <2>2, <2>3, <2>4, <2>5 DEF BatchSound
<1>9. CASE r.dts = b.dts + length /\ r.mp4 = Append(f, e) /\ r.s.t[t].residual = (Ref[t] + now) - 2 * length
  <2>1. /\ e \in Outputs /\ e.t = t /\ e.dts = b.dts /\ e.original = q[i + 1].dts - s.base
        /\ e.id = q[i + 1].id /\ e.duration = length
    <3> DEFINE original == q[i + 1].dts - b.s.base
    <3> DEFINE id == q[i + 1].id
    <3>1. original \in Int /\ id \in Int /\ t \in {"video", "audio", "pcm"}
      <4> DEFINE y == q[i + 1]
      <4> HIDE DEF y
      <4>1. y.dts \in Int /\ y.id \in Int BY <1>2 DEF Collected, y
      <4>2. b.s.base \in Int BY <1>6
      <4>3. y.dts - b.s.base \in Int BY <4>1, <4>2
      <4> QED BY <4>1, <4>3 DEF Tracks, y
    <3> HIDE DEF length, original, id
    <3>2. e = [t |-> t, dts |-> b.dts, duration |-> length, original |-> original, id |-> id]
      BY DEF NewEntry, original, id
    <3> HIDE DEF e
    <3>3. e \in Outputs /\ e.t = t /\ e.dts = b.dts /\ e.original = original /\ e.id = id /\ e.duration = length
      BY <1>6, <1>7, <3>1, <3>2 DEF Outputs
    <3> QED BY <1>6, <3>3 DEF original, id
  <2> DEFINE w == Append(f, e)
  <2>5. FragmentGrown(f, w, t, q, s.base, i, start, rest, b.dts, e)
    <3> HIDE DEF e, now, rest, f, length
    <3>1. Grows(f, t, q, s.base, i, start, rest, b.dts, now, e)
      BY <1>1, <1>6, <2>1 DEF Grows
    <3> QED BY <3>1, FragmentGrows, Zenon
  <2>2. /\ MadeOf(w, t, q, s.base, i + 1) /\ Chained(w, start) /\ NominalTimes(w, t, start, rest)
        /\ w # << >> /\ Ends(w, Len(w)) = b.dts + e.duration
        /\ Len(w) * Ref[t] = Len(f) * Ref[t] + Ref[t] /\ Len(f) * Ref[t] \in Int
    BY <2>5 DEF FragmentGrown
  <2> HIDE DEF w, e, now, rest, f, length
  <2>3. UpTo(w, t, start, rest, r.dts, r.s.t[t].residual)
    <3> DEFINE z == Len(f) * Ref[t]
    <3>1. z \in Int /\ 2 * b.dts + now = (2 * start + rest) + z
      BY <1>1, <2>2 DEF UpTo
    <3>3. Len(w) * Ref[t] = z + Ref[t] BY <2>2
    <3> HIDE DEF z
    <3>2. 2 * (b.dts + length) + ((Ref[t] + now) - 2 * length) = (2 * start + rest) + (z + Ref[t])
      <4>1. b.dts \in Int /\ now \in Int /\ rest \in Int /\ length \in Int /\ Ref[t] \in Int
        BY <1>6, <1>7
      <4> DEFINE at == b.dts
      <4> DEFINE v == Ref[t]
      <4> HIDE DEF at, v
      <4>2. 2 * (at + length) + ((v + now) - 2 * length) = (2 * start + rest) + (z + v)
        <5>1. at \in Int /\ v \in Int /\ 2 * at + now = (2 * start + rest) + z
          BY <3>1, <4>1 DEF at, v
        <5> QED BY <3>1, <4>1, <5>1
      <4> QED BY <4>2 DEF at, v
    <3>4. 2 * r.dts + r.s.t[t].residual = (2 * start + rest) + (z + Ref[t])
      BY <3>2, <1>9 DEF length
    <3> QED BY <3>3, <3>4 DEF UpTo
  <2>4. r.mp4 = w /\ r.dts = IF w = << >> THEN start ELSE Ends(w, Len(w))
    BY <2>1, <2>2, <1>9 DEF w
  <2> QED BY <2>2, <2>3, <2>4, <1>4, <1>5 DEF BatchSound, rest
<1> QED BY <1>4, <1>8, <1>9

\* f is what the loop over the samples computes, sample by sample.
AddsUp(f, b, t, q) ==
  f = [i \in 0 .. Len(q) |-> IF i = 0 THEN b ELSE AddSample(f[i - 1], t, q[i])]

\* The recursive function of AddSamples exists: at the least length without
\* one, the function of fewer samples could be continued.
LEMMA AddsUpDefined ==
  ASSUME NEW b, NEW t, NEW q \in Seq(Collected)
  PROVE  \E f : AddsUp(f, b, t, q)
<1> DEFINE N == Len(q)
<1> DEFINE Is(f, n) == f = [i \in 0 .. n |-> IF i = 0 THEN b ELSE AddSample(f[i - 1], t, q[i])]
<1> DEFINE Bad == {n \in 0 .. N : ~ \E f : Is(f, n)}
<1>0. N \in Nat
  OBVIOUS
<1>1. ASSUME Bad # {}
      PROVE  FALSE
  <2>1. PICK m \in Bad : \A k \in Bad : m <= k
    <3>1. Bad \subseteq Nat BY <1>0
    <3> HIDE DEF Bad
    <3> QED BY <1>1, <3>1, LeastNumber
  <2>2. CASE m = 0
    <3> DEFINE f == [i \in 0 .. 0 |-> b]
    <3>1. Is(f, 0)
      OBVIOUS
    <3> QED BY <2>2, <3>1
  <2>3. CASE m # 0
    <3>1. m - 1 \in 0 .. N /\ ~(m <= m - 1) /\ m \in Nat /\ m >= 1
      BY <1>0, <2>3
    <3>2. \E g : Is(g, m - 1) BY <2>1, <3>1
    <3>3. PICK g : Is(g, m - 1) BY <3>2
    <3> DEFINE f == [i \in 0 .. m |-> IF i = m THEN AddSample(g[m - 1], t, q[m]) ELSE g[i]]
    <3> DEFINE h1 == [i \in 0 .. m |-> IF i = 0 THEN b ELSE AddSample(f[i - 1], t, q[i])]
    <3>4. ASSUME NEW i \in 0 .. m
          PROVE  f[i] = h1[i]
      <4>1. CASE i = m
        <5>1. f[m - 1] = g[m - 1] BY <3>1
        <5> QED BY <3>1, <4>1, <5>1
      <4>2. CASE i # m
        <5>1. i \in 0 .. m - 1 /\ f[i] = g[i] BY <3>1, <4>2
        <5>2. g[i] = IF i = 0 THEN b ELSE AddSample(g[i - 1], t, q[i])
          BY <3>3, <5>1
        <5>3. i # 0 => f[i - 1] = g[i - 1] BY <3>1, <4>2
        <5> QED BY <5>1, <5>2, <5>3
      <4> QED BY <4>1, <4>2
    <3>5. f = h1 BY <3>4
    <3>6. Is(f, m) BY <3>5
    <3> HIDE DEF f, h1, Is
    <3> QED BY <3>6
  <2> QED BY <2>2, <2>3
<1> HIDE DEF Is
<1>2. N \notin Bad BY <1>1
<1>3. \E f : Is(f, N) BY <1>0, <1>2
<1> QED BY <1>3 DEF Is, AddsUp

\* All samples of a batch, by induction over their number.
LEMMA BatchIs ==
  ASSUME NEW s, MuxTyped(s), NEW t \in Tracks, NEW start \in Int, NEW q \in Seq(Collected), Rising(q),
         NEW b, BatchSound(b, s, t, start, q, 0)
  PROVE  BatchSound(AddSamples(b, t, q), s, t, start, q, Len(q))
<1> DEFINE Is(f) == f = [i \in 0 .. Len(q) |-> IF i = 0 THEN b ELSE AddSample(f[i - 1], t, q[i])]
<1> DEFINE added == CHOOSE f : Is(f)
<1>1. AddSamples(b, t, q) = added[Len(q)] BY DEF AddSamples
<1>2. Is(added)
  <2>1. \E f : Is(f)
    <3>1. PICK f : AddsUp(f, b, t, q) BY AddsUpDefined
    <3>2. Is(f) BY <3>1 DEF AddsUp
    <3> HIDE DEF Is
    <3> QED BY <3>2
  <2> HIDE DEF Is
  <2> QED BY <2>1
<1> HIDE DEF added
<1>3. /\ added[0] = b
      /\ \A i \in 0 .. Len(q) - 1 : added[i + 1] = AddSample(added[i], t, q[i + 1])
  <2>1. added[0] = b BY <1>2
  <2>2. ASSUME NEW i \in 0 .. Len(q) - 1
        PROVE  added[i + 1] = AddSample(added[i], t, q[i + 1])
    <3>1. i + 1 \in 0 .. Len(q) /\ i + 1 # 0 /\ (i + 1) - 1 = i
      OBVIOUS
    <3> QED BY <1>2, <3>1
  <2> QED BY <2>1, <2>2
<1> DEFINE P(i) == BatchSound(added[i], s, t, start, q, i)
<1> DEFINE Bad == {i \in 0 .. Len(q) : ~P(i)}
<1>4. ASSUME Bad # {}
      PROVE  FALSE
  <2>1. PICK m \in Bad : \A k \in Bad : m <= k
    <3>1. Bad \subseteq Nat
      OBVIOUS
    <3> HIDE DEF Bad
    <3> QED BY <1>4, <3>1, LeastNumber
  <2>2. P(0) BY <1>3
  <2>3. m # 0 /\ m \in 0 .. Len(q) /\ ~P(m) BY <2>1, <2>2
  <2>4. m - 1 \in 0 .. Len(q) - 1 /\ (m - 1) + 1 = m /\ ~(m <= m - 1) /\ m - 1 \in 0 .. Len(q)
    BY <2>3
  <2>5. P(m - 1) BY <2>1, <2>4
  <2>6. BatchSound(AddSample(added[m - 1], t, q[m]), s, t, start, q, m)
    <3> DEFINE c == m - 1
    <3>1. c \in 0 .. Len(q) - 1 /\ BatchSound(added[c], s, t, start, q, c) /\ c + 1 = m
      BY <2>4, <2>5
    <3> HIDE DEF c
    <3>2. BatchSound(AddSample(added[c], t, q[c + 1]), s, t, start, q, c + 1)
      BY <3>1, BatchGrows
    <3> QED BY <3>1, <3>2 DEF c
  <2>7. added[m] = AddSample(added[m - 1], t, q[m]) BY <1>3, <2>4
  <2> QED BY <2>3, <2>6, <2>7
<1> HIDE DEF P
<1>5. P(Len(q))
  <2>1. Len(q) \in 0 .. Len(q) /\ Len(q) \notin Bad BY <1>4
  <2> QED BY <2>1
<1> QED BY <1>1, <1>5 DEF P

\* A batch starts empty.
LEMMA BatchStarts ==
  ASSUME NEW s, MuxTyped(s), s.base \in Int, NEW t \in Tracks, NEW start \in Int, NEW q,
         NEW correction \in Int
  PROVE  BatchSound([s |-> s, dts |-> start, correction |-> correction, mp4 |-> << >>], s, t, start, q, 0)
<1> DEFINE b == [s |-> s, dts |-> start, correction |-> correction, mp4 |-> << >>]
<1>1. BatchTyped(b) /\ b.s = s /\ b.dts = start /\ b.mp4 = << >>
  BY DEF BatchTyped
<1>2. << >> \in Seq(Outputs) /\ DOMAIN << >> = {} /\ Len(<< >>) = 0
  OBVIOUS
<1>3. MadeOf(<< >>, t, q, s.base, 0) /\ Chained(<< >>, start) /\ NominalTimes(<< >>, t, start, s.t[t].residual)
  BY <1>2 DEF MadeOf, Chained, NominalTimes
<1>4. UpTo(<< >>, t, start, s.t[t].residual, start, s.t[t].residual)
  <2>1. Ref[t] \in Int /\ s.t[t].residual \in Int BY RemuxFacts DEF MuxTyped, LaneTyped
  <2>2. 0 * Ref[t] = 0 BY <2>1
  <2> QED BY <1>2, <2>1, <2>2 DEF UpTo
<1>5. SameFrame(s, s) /\ SameLanes(s, s, t) BY DEF SameFrame, SameLanes, SameLane
<1> HIDE DEF b
<1>6. BatchSound(b, s, t, start, q, 0) BY <1>1, <1>3, <1>4, <1>5 DEF BatchSound
<1> QED BY <1>6 DEF b

----------------------------------------------------------------------------
(* A fragment at the end of the output                                     *)

\* The output w is the output v and the entries f, all of them of track t.
Longer(w, v, f, t) ==
  /\ v \in Seq(Outputs) /\ f \in Seq(Outputs) /\ w \in Seq(Outputs) /\ f # << >>
  /\ Len(w) = Len(v) + Len(f) /\ Len(f) >= 1
  /\ DOMAIN v = 1 .. Len(v) /\ DOMAIN f = 1 .. Len(f) /\ DOMAIN w = 1 .. Len(w)
  /\ \A i \in DOMAIN v : i \in DOMAIN w /\ w[i] = v[i]
  /\ \A k \in DOMAIN f : f[k].t = t
  /\ \A i \in DOMAIN w : i \in DOMAIN v \/ (i > Len(v) /\ i - Len(v) \in DOMAIN f /\ w[i] = f[i - Len(v)])

LEMMA LongerIs ==
  ASSUME NEW v \in Seq(Outputs), NEW f \in Seq(Outputs), f # << >>, NEW t, \A k \in DOMAIN f : f[k].t = t
  PROVE  Longer(v \o f, v, f, t)
<1> DEFINE w == v \o f
<1>1. /\ Len(v) \in Nat /\ Len(f) \in Nat /\ w \in Seq(Outputs) /\ Len(w) = Len(v) + Len(f)
      /\ DOMAIN v = 1 .. Len(v) /\ DOMAIN f = 1 .. Len(f) /\ DOMAIN w = 1 .. Len(v) + Len(f)
      /\ \A i \in 1 .. Len(v) + Len(f) : w[i] = IF i <= Len(v) THEN v[i] ELSE f[i - Len(v)]
  OBVIOUS
<1> HIDE DEF w
<1>2. Len(f) >= 1 BY <1>1
<1>3. \A i \in DOMAIN v : i \in DOMAIN w /\ w[i] = v[i] BY <1>1
<1>4. ASSUME NEW i \in DOMAIN w
      PROVE  i \in DOMAIN v \/ (i > Len(v) /\ i - Len(v) \in DOMAIN f /\ w[i] = f[i - Len(v)])
  BY <1>1
<1>5. Longer(w, v, f, t) BY <1>1, <1>2, <1>3, <1>4 DEF Longer
<1> QED BY <1>5 DEF w

LEMMA LastStays ==
  ASSUME NEW w, NEW v, NEW f, NEW t, Longer(w, v, f, t), NEW u, u # t, NEW i, LastOf(v, u, i)
  PROVE  i \in DOMAIN w /\ LastOf(w, u, i) /\ w[i] = v[i] /\ Ends(w, i) = Ends(v, i)
<1>1. i \in DOMAIN v /\ v[i].t = u /\ i \in DOMAIN w /\ w[i] = v[i]
  BY DEF LastOf, Longer
<1>2. ASSUME NEW j \in DOMAIN w, j > i
      PROVE  w[j].t # u
  <2>1. CASE j \in DOMAIN v BY <1>2, <2>1 DEF LastOf, Longer
  <2>2. CASE j - Len(v) \in DOMAIN f /\ w[j] = f[j - Len(v)]
    BY <2>2 DEF Longer
  <2> QED BY <2>1, <2>2 DEF Longer
<1> QED BY <1>1, <1>2 DEF LastOf, Ends

LEMMA LastMoves ==
  ASSUME NEW w, NEW v, NEW f, NEW t, Longer(w, v, f, t)
  PROVE  LastOf(w, t, Len(w)) /\ w[Len(w)] = f[Len(f)] /\ Ends(w, Len(w)) = Ends(f, Len(f)) /\ Len(w) \in DOMAIN w
<1>1. /\ Len(w) = Len(v) + Len(f) /\ Len(f) >= 1 /\ Len(v) \in Nat /\ Len(f) \in Nat
      /\ DOMAIN w = 1 .. Len(w) /\ DOMAIN v = 1 .. Len(v) /\ DOMAIN f = 1 .. Len(f)
  BY DEF Longer
<1>2. Len(w) \in DOMAIN w /\ Len(w) \notin DOMAIN v /\ Len(w) - Len(v) = Len(f)
  BY <1>1
<1>3. w[Len(w)] = f[Len(f)] /\ f[Len(f)].t = t BY <1>1, <1>2 DEF Longer
<1>4. \A j \in DOMAIN w : ~(j > Len(w)) BY <1>1
<1> QED BY <1>2, <1>3, <1>4 DEF LastOf, Ends

\* The output stays without holes when the fragment starts no later than the
\* track's output ends.
LEMMA JoinedGrows ==
  ASSUME NEW w, NEW v, NEW f, NEW t, Longer(w, v, f, t), Joined(v),
         NEW start, Chained(f, start), \A k \in DOMAIN f : f[k].dts \in Int,
         \A i \in DOMAIN v : LastOf(v, t, i) => start <= Ends(v, i)
  PROVE  Joined(w)
<1>1. /\ Len(w) = Len(v) + Len(f) /\ Len(f) >= 1 /\ Len(v) \in Nat /\ Len(f) \in Nat
      /\ DOMAIN w = 1 .. Len(w) /\ DOMAIN v = 1 .. Len(v) /\ DOMAIN f = 1 .. Len(f)
  BY DEF Longer
<1> SUFFICES ASSUME NEW i \in DOMAIN w, NEW j \in DOMAIN w,
                    i < j, w[i].t = w[j].t, \A k \in i + 1 .. j - 1 : w[k].t # w[i].t
             PROVE  w[j].dts <= Ends(w, i)
  BY DEF Joined
<1>2. CASE j \in DOMAIN v
  <2>1. i \in DOMAIN v BY <1>1, <1>2
  <2>2. w[i] = v[i] /\ w[j] = v[j] /\ Ends(w, i) = Ends(v, i)
    BY <1>2, <2>1 DEF Longer, Ends
  <2>3. \A k \in i + 1 .. j - 1 : v[k].t # v[i].t
    <3>1. ASSUME NEW k \in i + 1 .. j - 1
          PROVE  v[k].t # v[i].t
      <4>1. k \in DOMAIN v BY <1>1, <1>2, <2>1
      <4>2. w[k] = v[k] BY <4>1 DEF Longer
      <4> QED BY <2>2, <4>2
    <3> QED BY <3>1
  <2> QED BY <1>2, <2>1, <2>2, <2>3 DEF Joined
<1>3. CASE j \notin DOMAIN v
  <2> DEFINE l == j - Len(v)
  <2>1. l \in DOMAIN f /\ w[j] = f[l] /\ f[l].t = t BY <1>3 DEF Longer
  <2>2. w[i].t = t BY <2>1
  <2>3. CASE i \in DOMAIN v
    <3>1. l = 1
      <4> SUFFICES ASSUME l # 1
                   PROVE  FALSE
        OBVIOUS
      <4> DEFINE k == Len(v) + 1
      <4>1. k \in i + 1 .. j - 1 /\ k \in DOMAIN w /\ k \notin DOMAIN v /\ k - Len(v) = 1 /\ 1 \in DOMAIN f
        BY <1>1, <2>1, <2>3
      <4>2. w[k] = f[1] /\ f[1].t = t BY <4>1 DEF Longer
      <4> QED BY <2>2, <4>1, <4>2
    <3>2. LastOf(v, t, i)
      <4>1. v[i].t = t /\ w[i] = v[i] BY <2>2, <2>3 DEF Longer
      <4>2. ASSUME NEW k \in DOMAIN v, k > i
            PROVE  v[k].t # t
        <5>1. k \in i + 1 .. j - 1 BY <1>1, <1>3, <2>3, <4>2
        <5>2. w[k] = v[k] BY DEF Longer
        <5> QED BY <2>2, <5>1, <5>2
      <4> QED BY <2>3, <4>1, <4>2 DEF LastOf
    <3>3. f[l].dts = start BY <2>1, <3>1 DEF Chained
    <3>4. Ends(w, i) = Ends(v, i) BY <2>3 DEF Longer, Ends
    <3> QED BY <2>1, <2>3, <3>2, <3>3, <3>4
  <2>4. CASE i \notin DOMAIN v
    <3> DEFINE e == i - Len(v)
    <3>1. e \in DOMAIN f /\ w[i] = f[e] BY <2>4 DEF Longer
    <3>2. l = e + 1
      <4> SUFFICES ASSUME l # e + 1
                   PROVE  FALSE
        OBVIOUS
      <4>1. i + 1 \in i + 1 .. j - 1 /\ i + 1 \in DOMAIN w /\ i + 1 \notin DOMAIN v
        BY <1>1, <2>4
      <4>2. (i + 1) - Len(v) \in DOMAIN f /\ w[i + 1] = f[(i + 1) - Len(v)]
        BY <4>1 DEF Longer
      <4>3. w[i + 1].t = t BY <4>2 DEF Longer
      <4> QED BY <2>2, <4>1, <4>3
    <3>3. l # 1 /\ l - 1 = e BY <1>1, <2>1, <3>1, <3>2
    <3>4. f[l].dts = Ends(f, e) BY <2>1, <3>3 DEF Chained
    <3>5. Ends(w, i) = Ends(f, e) BY <3>1 DEF Ends
    <3>6. f[l].dts \in Int BY <2>1
    <3> QED BY <2>1, <3>4, <3>5, <3>6
  <2> QED BY <2>3, <2>4
<1> QED BY <1>2, <1>3

\* Its samples stay in turn when the fragment is in turn and later.
LEMMA InTurnGrows ==
  ASSUME NEW w, NEW v, NEW f, NEW t, Longer(w, v, f, t), NEW jumped, InTurn(v, jumped),
         t \in Tracks =>
           /\ \A k, l \in DOMAIN f : k < l => f[k].id < f[l].id /\ f[k].original < f[l].original
           /\ \A i \in DOMAIN v : v[i].t = t =>
                \A k \in DOMAIN f : v[i].id < f[k].id /\ (~jumped => v[i].original < f[k].original)
  PROVE  InTurn(w, jumped)
<1>1. /\ Len(w) = Len(v) + Len(f) /\ Len(f) >= 1 /\ Len(v) \in Nat /\ Len(f) \in Nat
      /\ DOMAIN w = 1 .. Len(w) /\ DOMAIN v = 1 .. Len(v) /\ DOMAIN f = 1 .. Len(f)
  BY DEF Longer
<1> SUFFICES ASSUME NEW i \in DOMAIN w, NEW j \in DOMAIN w, i < j, w[i].t = w[j].t, w[i].t \in Tracks
             PROVE  w[i].id < w[j].id /\ (~jumped => w[i].original < w[j].original)
  BY DEF InTurn
<1>2. CASE j \in DOMAIN v
  <2>1. i \in DOMAIN v BY <1>1, <1>2
  <2>2. w[i] = v[i] /\ w[j] = v[j] BY <1>2, <2>1 DEF Longer
  <2> QED BY <1>2, <2>1, <2>2 DEF InTurn
<1>3. CASE j \notin DOMAIN v
  <2> DEFINE l == j - Len(v)
  <2>1. l \in DOMAIN f /\ w[j] = f[l] /\ f[l].t = t BY <1>3 DEF Longer
  <2>2. w[i].t = t /\ t \in Tracks BY <2>1
  <2>3. CASE i \in DOMAIN v
    <3>1. w[i] = v[i] BY <2>3 DEF Longer
    <3> QED BY <2>1, <2>2, <2>3, <3>1
  <2>4. CASE i \notin DOMAIN v
    <3>1. i - Len(v) \in DOMAIN f /\ w[i] = f[i - Len(v)] /\ i - Len(v) < l
      <4>1. i - Len(v) \in DOMAIN f /\ w[i] = f[i - Len(v)] BY <2>4 DEF Longer
      <4>2. i \in Int /\ j \in Int BY <1>1
      <4> QED BY <1>1, <4>1, <4>2
    <3> QED BY <2>1, <2>2, <3>1
  <2> QED BY <2>3, <2>4
<1> QED BY <1>2, <1>3

\* How many entries of a track there are.
LEMMA CountIsFinite ==
  ASSUME NEW w \in Seq(Outputs), NEW u
  PROVE  IsFiniteSet({k \in DOMAIN w : w[k].t = u}) /\ CountOf(w, u) \in Nat
<1>1. DOMAIN w = 1 .. Len(w) /\ Len(w) \in Nat
  OBVIOUS
<1>2. IsFiniteSet(1 .. Len(w)) BY <1>1, FS_Interval
<1>3. IsFiniteSet({k \in DOMAIN w : w[k].t = u})
  <2>1. {k \in DOMAIN w : w[k].t = u} \in SUBSET (1 .. Len(w))
    BY <1>1
  <2> QED BY <1>2, <2>1, FS_Subset
<1> QED BY <1>3, FS_CardinalityType DEF CountOf

LEMMA CountsGrow ==
  ASSUME NEW w, NEW v, NEW f, NEW t, Longer(w, v, f, t)
  PROVE  /\ CountOf(w, t) = CountOf(v, t) + Len(f) /\ CountOf(v, t) \in Nat
         /\ \A u : u # t => CountOf(w, u) = CountOf(v, u)
         /\ \A u : \A i \in DOMAIN v : Before(w, u, i) = Before(v, u, i)
         /\ \A k \in DOMAIN f : Before(w, t, Len(v) + k) = CountOf(v, t) + (k - 1)
<1>1. /\ v \in Seq(Outputs) /\ w \in Seq(Outputs)
      /\ Len(w) = Len(v) + Len(f) /\ Len(f) >= 1 /\ Len(v) \in Nat /\ Len(f) \in Nat
      /\ DOMAIN w = 1 .. Len(w) /\ DOMAIN v = 1 .. Len(v) /\ DOMAIN f = 1 .. Len(f)
      /\ \A i \in DOMAIN v : i \in DOMAIN w /\ w[i] = v[i]
  BY DEF Longer
<1>2. ASSUME NEW i \in DOMAIN w, i \notin DOMAIN v
      PROVE  w[i].t = t
  BY <1>2 DEF Longer
<1> DEFINE In(u) == {k \in DOMAIN v : v[k].t = u}
\* The entries before position m + k are those of v and k - 1 of f.
<1>3. ASSUME NEW k \in Nat, k <= Len(f)
      PROVE  Cardinality({j \in 1 .. Len(v) + k : w[j].t = t}) = CountOf(v, t) + k
  <2> DEFINE New == Len(v) + 1 .. Len(v) + k
  <2>1. {j \in 1 .. Len(v) + k : w[j].t = t} = In(t) \cup New
    <3>1. ASSUME NEW j \in 1 .. Len(v) + k, w[j].t = t
          PROVE  j \in In(t) \cup New
      <4>1. CASE j \in DOMAIN v BY <1>1, <3>1, <4>1
      <4>2. CASE j \notin DOMAIN v BY <1>1, <4>2
      <4> QED BY <4>1, <4>2
    <3>2. ASSUME NEW j \in In(t)
          PROVE  j \in 1 .. Len(v) + k /\ w[j].t = t
      BY <1>1, <1>3
    <3>3. ASSUME NEW j \in New
          PROVE  j \in 1 .. Len(v) + k /\ w[j].t = t
      <4>1. j \in DOMAIN w /\ j \notin DOMAIN v /\ j \in 1 .. Len(v) + k
        BY <1>1, <1>3
      <4> QED BY <1>2, <4>1
    <3> HIDE DEF New, In
    <3> QED BY <3>1, <3>2, <3>3
  <2>2. IsFiniteSet(New) /\ Cardinality(New) = k
    <3>1. Len(v) + 1 \in Int /\ Len(v) + k \in Int BY <1>1
    <3>2. IsFiniteSet(New) /\ Cardinality(New) = IF Len(v) + 1 > Len(v) + k THEN 0
                                                 ELSE (Len(v) + k) - (Len(v) + 1) + 1
      BY <3>1, FS_Interval
    <3> QED BY <1>1, <3>2
  <2>3. In(t) \cap New = {} BY <1>1
  <2>4. IsFiniteSet(In(t)) /\ Cardinality(In(t)) = CountOf(v, t) /\ CountOf(v, t) \in Nat
    <3>1. IsFiniteSet(In(t)) /\ CountOf(v, t) \in Nat BY <1>1, CountIsFinite
    <3> QED BY <3>1 DEF CountOf
  <2> HIDE DEF New, In
  <2>5. Cardinality(In(t) \cup New) = Cardinality(In(t)) + Cardinality(New) - Cardinality(In(t) \cap New)
    BY <2>2, <2>4, FS_Union
  <2>6. Cardinality({}) = 0 BY FS_EmptySet
  <2>7. Cardinality(In(t) \cap New) = 0 BY <2>3, <2>6
  <2>8. Cardinality(In(t) \cup New) = CountOf(v, t) + k BY <2>2, <2>4, <2>5, <2>7
  <2> QED BY <2>1, <2>8
<1>4. CountOf(v, t) \in Nat BY <1>1, CountIsFinite
<1>5. CountOf(w, t) = CountOf(v, t) + Len(f)
  <2>1. {k \in DOMAIN w : w[k].t = t} = {j \in 1 .. Len(v) + Len(f) : w[j].t = t}
    BY <1>1
  <2> QED BY <1>1, <1>3, <2>1 DEF CountOf
<1>6. ASSUME NEW u, u # t
      PROVE  CountOf(w, u) = CountOf(v, u)
  <2>1. {k \in DOMAIN w : w[k].t = u} = {k \in DOMAIN v : v[k].t = u}
    BY <1>1, <1>2, <1>6
  <2> QED BY <2>1 DEF CountOf
<1>7. ASSUME NEW u, NEW i \in DOMAIN v
      PROVE  Before(w, u, i) = Before(v, u, i)
  <2>1. \A k \in 1 .. i - 1 : k \in DOMAIN v /\ w[k] = v[k]
    BY <1>1
  <2>2. {k \in 1 .. i - 1 : w[k].t = u} = {k \in 1 .. i - 1 : v[k].t = u}
    BY <2>1
  <2> QED BY <2>2 DEF Before
<1>8. ASSUME NEW k \in DOMAIN f
      PROVE  Before(w, t, Len(v) + k) = CountOf(v, t) + (k - 1)
  <2>1. k - 1 \in Nat /\ k - 1 <= Len(f) /\ (Len(v) + k) - 1 = Len(v) + (k - 1)
    BY <1>1
  <2>2. Cardinality({j \in 1 .. Len(v) + (k - 1) : w[j].t = t}) = CountOf(v, t) + (k - 1)
    BY <1>3, <2>1
  <2>3. 1 .. (Len(v) + k) - 1 = 1 .. Len(v) + (k - 1) BY <2>1
  <2>4. Before(w, t, Len(v) + k) = Cardinality({j \in 1 .. (Len(v) + k) - 1 : w[j].t = t})
    BY DEF Before
  <2> QED BY <2>2, <2>3, <2>4
<1> QED BY <1>4, <1>5, <1>6, <1>7, <1>8

\* The output keeps its pace.
LEMMA PacedGrows ==
  ASSUME NEW w, NEW v, NEW f, NEW t \in Tracks, Longer(w, v, f, t), NEW from \in Int, Paced(v, t, from),
         NEW start, NEW rest, NominalTimes(f, t, start, rest), 2 * start + rest = from + CountOf(v, t) * Ref[t],
         \A k \in DOMAIN f : f[k].dts \in Int
  PROVE  Paced(w, t, from)
<1>1. /\ DOMAIN f = 1 .. Len(f) /\ Len(f) \in Nat /\ Len(v) \in Nat /\ DOMAIN w = 1 .. Len(w)
      /\ CountOf(v, t) \in Nat /\ Ref[t] \in Int
  <2>1. CountOf(v, t) \in Nat BY CountsGrow
  <2>2. Ref[t] \in Int BY RemuxFacts
  <2> QED BY <2>1, <2>2 DEF Longer
<1> SUFFICES ASSUME NEW i \in DOMAIN w, w[i].t = t
             PROVE  (2 * w[i].dts - from) - Before(w, t, i) * Ref[t] \in 0 .. 1
  BY DEF Paced
<1>2. CASE i \in DOMAIN v
  <2>1. w[i] = v[i] /\ Before(w, t, i) = Before(v, t, i)
    <3>1. Before(w, t, i) = Before(v, t, i) BY <1>2, CountsGrow
    <3> QED BY <1>2, <3>1 DEF Longer
  <2>2. (2 * v[i].dts - from) - Before(v, t, i) * Ref[t] \in 0 .. 1
    BY <1>2, <2>1 DEF Paced
  <2> QED BY <2>1, <2>2
<1>3. CASE i \notin DOMAIN v
  <2> DEFINE k == i - Len(v)
  <2>1. k \in DOMAIN f /\ w[i] = f[k] /\ i = Len(v) + k
    <3>1. k \in DOMAIN f /\ w[i] = f[k] BY <1>3 DEF Longer
    <3>2. i \in Int BY <1>1
    <3> QED BY <1>1, <3>1, <3>2
  <2> HIDE DEF k
  <2>2. Before(w, t, i) = CountOf(v, t) + (k - 1) BY <2>1, CountsGrow
  <2>3. (2 * f[k].dts - (2 * start + rest)) - (k - 1) * Ref[t] \in 0 .. 1
    BY <2>1 DEF NominalTimes
  <2> DEFINE c == CountOf(v, t)
  <2> DEFINE e == k - 1
  <2> DEFINE y == c * Ref[t]
  <2> DEFINE z == e * Ref[t]
  <2>4. c \in Int /\ e \in Int /\ Ref[t] \in Int BY <1>1, <2>1
  <2> HIDE DEF c, e
  <2>5. (c + e) * Ref[t] = y + z /\ y \in Int /\ z \in Int BY <2>4, SumTimes
  <2>6. 2 * start + rest = from + y /\ (2 * f[k].dts - (2 * start + rest)) - z \in 0 .. 1
    BY <2>3 DEF c, e
  <2>7. Before(w, t, i) * Ref[t] = y + z BY <2>2, <2>5 DEF c, e
  <2> HIDE DEF y, z
  <2>8. (2 * f[k].dts - from) - (y + z) \in 0 .. 1
    <3> DEFINE at == f[k].dts
    <3>1. at \in Int BY <2>1
    <3> HIDE DEF at
    <3>2. (2 * at - (from + y)) - z \in 0 .. 1 BY <2>6 DEF at
    <3>3. (2 * at - from) - (y + z) \in 0 .. 1 BY <2>5, <3>1, <3>2
    <3> QED BY <3>3 DEF at
  <2> QED BY <2>1, <2>7, <2>8
<1> QED BY <1>2, <1>3

LEMMA PacedStays ==
  ASSUME NEW w, NEW v, NEW f, NEW t, Longer(w, v, f, t), NEW u, u # t, NEW from, Paced(v, u, from)
  PROVE  Paced(w, u, from)
<1> SUFFICES ASSUME NEW i \in DOMAIN w, w[i].t = u
             PROVE  (2 * w[i].dts - from) - Before(w, u, i) * Ref[u] \in 0 .. 1
  BY DEF Paced
<1>1. i \in DOMAIN v /\ w[i] = v[i]
  <2>1. i \in DOMAIN v BY DEF Longer
  <2> QED BY <2>1 DEF Longer
<1>2. Before(w, u, i) = Before(v, u, i) BY <1>1, CountsGrow
<1> QED BY <1>1, <1>2 DEF Paced

----------------------------------------------------------------------------
(* The samples of a fragment                                               *)

\* The samples q are some of the samples p, in order.
SomeOf(q, p) ==
  /\ q \in Seq(Collected) /\ Rising(q)
  /\ \A j \in DOMAIN q : \E k \in DOMAIN p : q[j] = p[k]

\* A track that holds p gives the samples q away and keeps those of rest.
Parted(q, rest, p) ==
  /\ SomeOf(q, p) /\ SomeOf(rest, p)
  /\ \A j \in DOMAIN q : \A k \in DOMAIN rest : q[j].id < rest[k].id /\ q[j].dts < rest[k].dts

\* A part of a sequence of samples.
LEMMA PartIs ==
  ASSUME NEW q \in Seq(Collected), NEW i \in Nat, i >= 1, NEW j \in Nat, j <= Len(q), i <= j + 1
  PROVE  /\ SubSeq(q, i, j) \in Seq(Collected) /\ Len(SubSeq(q, i, j)) = (j - i) + 1
         /\ DOMAIN SubSeq(q, i, j) = 1 .. (j - i) + 1
         /\ \A k \in 1 .. (j - i) + 1 : SubSeq(q, i, j)[k] = q[(i + k) - 1]
<1>1. \A k \in i .. j : q[k] \in Collected
  OBVIOUS
<1>2. /\ SubSeq(q, i, j) \in Seq(Collected)
      /\ Len(SubSeq(q, i, j)) = IF i <= j THEN j - i + 1 ELSE 0
      /\ \A k \in 1 .. j - i + 1 : SubSeq(q, i, j)[k] = q[i + k - 1]
  BY <1>1, SubSeqProperties
<1>3. Len(SubSeq(q, i, j)) = (j - i) + 1 BY <1>2
<1>4. ASSUME NEW k \in 1 .. (j - i) + 1
      PROVE  SubSeq(q, i, j)[k] = q[(i + k) - 1]
  <2>1. k \in 1 .. j - i + 1 /\ i + k - 1 = (i + k) - 1
    OBVIOUS
  <2> QED BY <1>2, <2>1
<1>5. DOMAIN SubSeq(q, i, j) = 1 .. Len(SubSeq(q, i, j)) BY <1>2
<1> QED BY <1>2, <1>3, <1>4, <1>5

LEMMA PartedIs ==
  ASSUME NEW stash \in Seq(Collected), NEW pend \in Seq(Collected), pend # << >>, Rising(stash \o pend),
         NEW force \in BOOLEAN
  PROVE  Parted(stash \o SubSeq(pend, 1, Len(pend) - (IF force THEN 0 ELSE 1)),
                IF force THEN << >> ELSE <<pend[Len(pend)]>>, stash \o pend)
<1> DEFINE p == stash \o pend
<1> DEFINE L == Len(stash)
<1> DEFINE K == Len(pend)
<1> DEFINE m == K - (IF force THEN 0 ELSE 1)
<1> DEFINE v == SubSeq(pend, 1, m)
<1> DEFINE q == stash \o v
<1> DEFINE rest == IF force THEN << >> ELSE <<pend[Len(pend)]>>
<1>1. /\ L \in Nat /\ K \in Nat /\ K >= 1 /\ m \in Nat /\ m <= K
      /\ ~force => m = K - 1
      /\ DOMAIN pend = 1 .. K /\ K \in DOMAIN pend /\ pend[K] \in Collected
  <2>1. L \in Nat /\ K \in Nat /\ DOMAIN pend = 1 .. K /\ K # 0
    OBVIOUS
  <2>2. K >= 1 /\ K \in DOMAIN pend BY <2>1
  <2>3. pend[K] \in Collected BY <2>2
  <2> HIDE DEF K, L
  <2> QED BY <2>1, <2>2, <2>3
<1>2. /\ p \in Seq(Collected) /\ Len(p) = L + K /\ DOMAIN p = 1 .. L + K
      /\ \A i \in 1 .. L + K : p[i] = IF i <= L THEN stash[i] ELSE pend[i - L]
  OBVIOUS
<1>3. v \in Seq(Collected) /\ Len(v) = m /\ \A i \in 1 .. m : v[i] = pend[i]
  <2> HIDE DEF m, p, q, rest, L
  <2>0. m \in Nat /\ m <= Len(pend)
    <3>1. m \in Nat /\ m <= K
      <4> HIDE DEF K
      <4> QED BY <1>1
    <3> QED BY <3>1
  <2> HIDE DEF K
  <2>1. 1 \in Nat /\ m \in Nat /\ m <= Len(pend) /\ 1 <= m + 1
    BY <2>0
  <2>2. /\ SubSeq(pend, 1, m) \in Seq(Collected) /\ Len(SubSeq(pend, 1, m)) = (m - 1) + 1
        /\ \A k \in 1 .. (m - 1) + 1 : SubSeq(pend, 1, m)[k] = pend[(1 + k) - 1]
    BY <2>1, PartIs
  <2> HIDE DEF v
  <2>3. (m - 1) + 1 = m BY <2>1
  <2>4. \A k \in 1 .. m : (1 + k) - 1 = k BY <2>1
  <2> QED BY <2>2, <2>3, <2>4 DEF v
<1> HIDE DEF v
<1>4. /\ q \in Seq(Collected) /\ Len(q) = L + m /\ DOMAIN q = 1 .. L + m
      /\ \A i \in 1 .. L + m : q[i] = IF i <= L THEN stash[i] ELSE v[i - L]
  <2> HIDE DEF m, p, rest, K
  <2> QED BY <1>1, <1>3
<1> HIDE DEF p, q, m, L, K
<1>5. \A j \in DOMAIN q : j \in DOMAIN p /\ q[j] = p[j]
  <2> SUFFICES ASSUME NEW j \in DOMAIN q
               PROVE  j \in DOMAIN p /\ q[j] = p[j]
    OBVIOUS
  <2>1. j \in DOMAIN p /\ j \in 1 .. L + m /\ j \in 1 .. L + K
    BY <1>1, <1>2, <1>4
  <2>2. ~(j <= L) => j - L \in 1 .. m BY <1>1, <2>1
  <2>3. ~(j <= L) => v[j - L] = pend[j - L] BY <1>3, <2>2
  <2> QED BY <1>2, <1>4, <2>1, <2>3
<1>6. SomeOf(q, p)
  <2>1. \A i, j \in DOMAIN q : i < j => q[i].id < q[j].id /\ q[i].dts < q[j].dts
    <3>1. Rising(p) BY DEF p
    <3> QED BY <1>5, <3>1 DEF Rising
  <2> QED BY <1>4, <1>5, <2>1 DEF SomeOf, Rising
<1>7. CASE force
  <2>1. rest = << >> /\ DOMAIN rest = {} /\ rest \in Seq(Collected)
    BY <1>7
  <2> HIDE DEF rest
  <2>2. SomeOf(rest, p) /\ \A j \in DOMAIN q : \A k \in DOMAIN rest : q[j].id < rest[k].id /\ q[j].dts < rest[k].dts
    BY <2>1 DEF SomeOf, Rising
  <2>3. Parted(q, rest, p) BY <1>6, <2>2 DEF Parted
  <2> QED BY <2>3 DEF q, rest, p, v, m, K
<1>8. CASE ~force
  <2> DEFINE last == L + K
  <2>1. last \in DOMAIN p /\ p[last] = pend[K] /\ last \in Int
    <3>1. last \in 1 .. L + K /\ ~(last <= L) /\ last - L = K /\ last \in Int
      BY <1>1
    <3> QED BY <1>2, <3>1
  <2>2. rest = <<p[last]>> /\ DOMAIN rest = {1} /\ rest \in Seq(Collected) /\ rest[1] = p[last]
    BY <1>1, <1>8, <2>1 DEF K
  <2>3. SomeOf(rest, p)
    <3> HIDE DEF rest, last
    <3> QED BY <2>1, <2>2 DEF SomeOf, Rising
  <2>4. ASSUME NEW j \in DOMAIN q, NEW k \in DOMAIN rest
        PROVE  q[j].id < rest[k].id /\ q[j].dts < rest[k].dts
    <3>1. j < last /\ j \in DOMAIN p /\ q[j] = p[j] BY <1>1, <1>4, <1>5, <1>8
    <3>2. rest[k] = p[last] BY <2>2
    <3>3. p[j].id < p[last].id /\ p[j].dts < p[last].dts BY <2>1, <3>1 DEF Rising, p
    <3> QED BY <3>1, <3>2, <3>3
  <2> HIDE DEF rest
  <2>5. Parted(q, rest, p) BY <1>6, <2>3, <2>4 DEF Parted
  <2> QED BY <2>5 DEF q, rest, p, v, m, K
<1> QED BY <1>7, <1>8

\* What a reconnected server sends again is left out (_dropOverlappingTrackSamples).
LEMMA DropIs ==
  ASSUME NEW s, MuxTyped(s), s.base \in Int, NEW t \in Tracks, NEW q \in Seq(Collected), Rising(q)
  PROVE  LET r == DropOverlapping(s, t, q)
         IN  /\ SomeOf(r, q)
             /\ (s.normalize /\ s.t[t].lastDts # Undefined) =>
                  \A j \in DOMAIN r : s.t[t].lastDts < r[j].dts - s.base
<1> DEFINE new == {i \in DOMAIN q : q[i].dts - s.base > s.t[t].lastDts}
<1> DEFINE first == CHOOSE i \in new : \A j \in new : i <= j
<1>1. CASE ~s.normalize \/ s.t[t].lastDts = Undefined
  <2>1. DropOverlapping(s, t, q) = q BY <1>1 DEF DropOverlapping
  <2>2. SomeOf(q, q) BY DEF SomeOf
  <2> QED BY <1>1, <2>1, <2>2
<1>2. CASE ~(~s.normalize \/ s.t[t].lastDts = Undefined) /\ new = {}
  <2>1. DropOverlapping(s, t, q) = << >> BY <1>2 DEF DropOverlapping
  <2>2. SomeOf(<< >>, q) BY DEF SomeOf, Rising
  <2> QED BY <2>1, <2>2
<1>3. CASE ~(~s.normalize \/ s.t[t].lastDts = Undefined) /\ new # {}
  <2> DEFINE r == SubSeq(q, first, Len(q))
  <2>1. DropOverlapping(s, t, q) = r BY <1>3 DEF DropOverlapping
  <2>2. first \in new /\ \A j \in new : first <= j
    <3>1. new \subseteq Nat /\ new # {} BY <1>3
    <3> HIDE DEF new
    <3>2. \E i \in new : \A j \in new : i <= j BY <3>1, LeastNumber
    <3> QED BY <3>2
  <2>3. first \in DOMAIN q /\ q[first].dts - s.base > s.t[t].lastDts
    BY <2>2
  <2> HIDE DEF first, new
  <2>4. first \in Nat /\ first >= 1 /\ first <= Len(q) /\ Len(q) \in Nat /\ DOMAIN q = 1 .. Len(q)
    BY <2>3
  <2>5. /\ r \in Seq(Collected) /\ Len(r) = (Len(q) - first) + 1 /\ DOMAIN r = 1 .. (Len(q) - first) + 1
        /\ \A j \in 1 .. (Len(q) - first) + 1 : r[j] = q[(first + j) - 1]
    <3>1. first <= Len(q) + 1 BY <2>4
    <3> QED BY <2>4, <3>1, PartIs
  <2> HIDE DEF r
  <2>6. ASSUME NEW j \in DOMAIN r
        PROVE  (first + j) - 1 \in DOMAIN q /\ r[j] = q[(first + j) - 1]
    BY <2>4, <2>5, SMTT(40)
  <2>7. Rising(r)
    <3> SUFFICES ASSUME NEW i \in DOMAIN r, NEW j \in DOMAIN r, i < j
                 PROVE  r[i].id < r[j].id /\ r[i].dts < r[j].dts
      BY DEF Rising
    <3>1. (first + i) - 1 < (first + j) - 1 BY <2>4, <2>5
    <3> QED BY <2>6, <3>1 DEF Rising
  <2>8. ASSUME NEW j \in DOMAIN r
        PROVE  s.t[t].lastDts < r[j].dts - s.base
    <3> DEFINE k == (first + j) - 1
    <3>1. k \in DOMAIN q /\ r[j] = q[k] /\ k >= first BY <2>4, <2>5, <2>6
    <3>2. q[k] \in Collected /\ q[first] \in Collected BY <2>3, <3>1
    <3>3. q[k].dts \in Int /\ q[first].dts \in Int BY <3>2 DEF Collected
    <3>4. q[first].dts <= q[k].dts
      <4>1. k = first \/ first < k BY <2>4, <3>1
      <4> HIDE DEF k
      <4> QED BY <2>3, <3>1, <3>3, <4>1 DEF Rising
    <3>5. s.t[t].lastDts \in Int BY <1>3 DEF MuxTyped, LaneTyped, Times
    <3> HIDE DEF k
    <3> QED BY <2>3, <3>1, <3>3, <3>4, <3>5
  <2>9. SomeOf(r, q) BY <2>5, <2>6, <2>7 DEF SomeOf
  <2> QED BY <2>1, <2>8, <2>9
<1> QED BY <1>1, <1>2, <1>3

\* A fragment starts no later than the output of its track ends
\* (_computeDtsCorrection).
StartsWell(start, s, t) ==
  /\ start \in Int
  /\ \A i \in DOMAIN s.out : LastOf(s.out, t, i) => start <= Ends(s.out, i)
  /\ s.t[t].next # Undefined => start = s.t[t].next
  /\ NoneYet(s, t) => start = s.offset

LEMMA LastIsOne ==
  ASSUME NEW w \in Seq(Outputs), NEW t, NEW i, LastOf(w, t, i), NEW j, LastOf(w, t, j)
  PROVE  i = j
<1>1. i \in DOMAIN w /\ j \in DOMAIN w /\ ~(i > j) /\ ~(j > i)
  BY DEF LastOf
<1>2. i \in Nat /\ j \in Nat BY <1>1
<1> QED BY <1>1, <1>2

LEMMA OutputsTyped ==
  ASSUME NEW w \in Seq(Outputs), NEW i \in DOMAIN w
  PROVE  /\ w[i].t \in {"video", "audio", "pcm"} /\ w[i].dts \in Int /\ w[i].duration \in Int
         /\ w[i].original \in Int /\ w[i].id \in Int /\ Ends(w, i) \in Int
<1>1. w[i] \in Outputs
  OBVIOUS
<1> QED BY <1>1 DEF Outputs, Ends

LEMMA StartIs ==
  ASSUME NEW s, MuxTyped(s), NEW t \in Tracks, NoneYet(s, t) \/ LastKept(s, t), s.base \in Int,
         NEW original \in Int
  PROVE  StartsWell(OutputStart(s, t, original), s, t)
<1> DEFINE start == OutputStart(s, t, original)
<1>0. Undefined \notin Int /\ LaneTyped(s.t[t]) /\ s.offset \in Int /\ s.out \in Seq(Outputs)
  BY RemuxFacts DEF MuxTyped
<1>1. CASE NoneYet(s, t)
  <2>1. start = s.offset BY <1>1 DEF OutputStart, NoneYet
  <2>2. s.t[t].next = Undefined /\ \A i \in DOMAIN s.out : ~LastOf(s.out, t, i)
    BY <1>1 DEF NoneYet, LastOf
  <2> QED BY <1>0, <2>1, <2>2 DEF StartsWell
<1>2. CASE ~NoneYet(s, t)
  <2>1. PICK i \in DOMAIN s.out :
          /\ LastOf(s.out, t, i)
          /\ s.t[t].lastOut = Ends(s.out, i) /\ s.t[t].lastDts = s.out[i].original
          /\ s.t[t].lastEnd \in Int /\ s.base \in Int
          /\ s.t[t].next \in {s.t[t].lastOut, Undefined}
    BY <1>2 DEF LastKept
  <2>2. Ends(s.out, i) \in Int BY <1>0, OutputsTyped
  <2>3. start \in Int /\ start <= Ends(s.out, i) /\ (s.t[t].next # Undefined => start = s.t[t].next)
    <3>1. CASE s.t[t].next # Undefined BY <2>1, <2>2, <3>1 DEF OutputStart
    <3>2. CASE s.t[t].next = Undefined
      <4> DEFINE distance == original - s.t[t].lastEnd
      <4>1. start = s.t[t].lastOut + (IF distance > 0 THEN 0 ELSE distance)
        BY <1>0, <2>1, <3>2 DEF OutputStart
      <4>2. distance \in Int BY <2>1
      <4> HIDE DEF distance, start
      <4> QED BY <2>1, <2>2, <3>2, <4>1, <4>2
    <3> QED BY <3>1, <3>2
  <2>4. \A j \in DOMAIN s.out : LastOf(s.out, t, j) => start <= Ends(s.out, j)
    BY <1>0, <2>1, <2>3, LastIsOne
  <2> QED BY <1>2, <2>3, <2>4 DEF StartsWell
<1> QED BY <1>1, <1>2

\* Changing a track twice.
WithLane(s, t, r) == [s EXCEPT !.t[t] = r]

LEMMA LaneTwice ==
  ASSUME NEW s, "t" \in DOMAIN s, NEW t \in DOMAIN s.t, NEW r, NEW k
  PROVE  WithLane(s, t, r).t[t] = r /\ WithLane(WithLane(s, t, r), t, k) = WithLane(s, t, k)
<1>1. [s EXCEPT !.t[t] = r].t = [s.t EXCEPT ![t] = r]
  OBVIOUS
<1>2. [s EXCEPT !.t[t] = r].t[t] = r BY <1>1
<1>3. [[s.t EXCEPT ![t] = r] EXCEPT ![t] = k] = [s.t EXCEPT ![t] = k]
  OBVIOUS
<1> DEFINE v == [s.t EXCEPT ![t] = r]
<1> DEFINE w == [s.t EXCEPT ![t] = k]
<1>4. [v EXCEPT ![t] = k] = w BY <1>3
<1>5. [s EXCEPT !.t = v].t = v
  OBVIOUS
<1> HIDE DEF v, w
<1>6. [[s EXCEPT !.t = v] EXCEPT !.t = w] = [s EXCEPT !.t = w]
  OBVIOUS
<1>7. [[s EXCEPT !.t = v] EXCEPT !.t = [[s EXCEPT !.t = v].t EXCEPT ![t] = k]] = [s EXCEPT !.t = w]
  BY <1>4, <1>5, <1>6
<1> QED BY <1>2, <1>7 DEF v, w, WithLane

\* Emitting the fragment f of a batch on track t (_recordTrackTiming).
Emitted(r, s, f, t) ==
  /\ MuxTyped(r) /\ SameFrame(r, s) /\ r.out = s.out \o f
  /\ \A u \in Tracks : u # t => r.t[u] = s.t[u]
  /\ r.t[t].pend = s.t[t].pend /\ r.t[t].stash = s.t[t].stash /\ r.t[t].meta = s.t[t].meta
  /\ r.t[t].residual = s.t[t].residual
  /\ r.t[t].next = Ends(f, Len(f)) /\ r.t[t].lastOut = Ends(f, Len(f))
  /\ r.t[t].lastDts = f[Len(f)].original /\ r.t[t].lastEnd \in Int

LEMMA EmitIs ==
  ASSUME NEW b, BatchTyped(b), b.mp4 # << >>, NEW t \in Tracks
  PROVE  Emitted(EmitFragment(b, t), b.s, b.mp4, t)
<1> DEFINE f == b.mp4
<1> DEFINE last == f[Len(f)]
<1> DEFINE end == last.dts + last.duration
<1> DEFINE lane == [b.s.t[t] EXCEPT !.next = end, !.lastDts = last.original,
                                    !.lastEnd = last.original + last.duration, !.lastOut = end, !.emitted = TRUE]
<1> DEFINE g == [b.s EXCEPT !.t[t] = lane, !.out = @ \o f]
<1>1. /\ f \in Seq(Outputs) /\ MuxTyped(b.s) /\ LaneTyped(b.s.t[t]) /\ t \in DOMAIN b.s.t /\ b.s.out \in Seq(Outputs)
      /\ DOMAIN b.s.t = Tracks
  BY DEF BatchTyped, MuxTyped
<1>2. Len(f) \in DOMAIN f BY <1>1
<1>3. last.dts \in Int /\ last.duration \in Int /\ last.original \in Int /\ end = Ends(f, Len(f)) /\ end \in Int
      /\ last.original + last.duration \in Int
  <2>1. last.dts \in Int /\ last.duration \in Int /\ last.original \in Int
    BY <1>1, <1>2, OutputsTyped
  <2> QED BY <2>1 DEF Ends
<1> HIDE DEF f
<1> HIDE DEF last
<1> DEFINE recorded == [b.s EXCEPT !.t[t].next = last.dts + last.duration,
                                   !.t[t].lastDts = last.original,
                                   !.t[t].lastEnd = last.original + last.duration,
                                   !.t[t].lastOut = last.dts + last.duration,
                                   !.t[t].emitted = TRUE,
                                   !.out = @ \o f]
<1>4. recorded = g
  <2> DEFINE c == b.s
  <2> DEFINE S(r) == [c EXCEPT !.t[t] = r]
  <2> DEFINE r1 == [c.t[t] EXCEPT !.next = end]
  <2> DEFINE r2 == [r1 EXCEPT !.lastDts = last.original]
  <2> DEFINE r3 == [r2 EXCEPT !.lastEnd = last.original + last.duration]
  <2> DEFINE r4 == [r3 EXCEPT !.lastOut = end]
  <2> DEFINE r5 == [r4 EXCEPT !.emitted = TRUE]
  <2>1. "t" \in DOMAIN c /\ t \in DOMAIN c.t BY <1>1 DEF MuxTyped, MuxFields
  <2> HIDE DEF c
  <2>2. \A r, k : S(r).t[t] = r /\ [S(r) EXCEPT !.t[t] = k] = S(k)
    BY <2>1, LaneTwice DEF WithLane
  <2>3. [S(r1) EXCEPT !.t[t].lastDts = last.original] = S(r2)
    <3> HIDE DEF S, r1
    <3> QED BY <2>2
  <2>4. [S(r2) EXCEPT !.t[t].lastEnd = last.original + last.duration] = S(r3)
    <3> HIDE DEF S, r2
    <3> QED BY <2>2
  <2>5. [S(r3) EXCEPT !.t[t].lastOut = end] = S(r4)
    <3> HIDE DEF S, r3
    <3> QED BY <2>2
  <2>6. [S(r4) EXCEPT !.t[t].emitted = TRUE] = S(r5)
    <3> HIDE DEF S, r4
    <3> QED BY <2>2
  <2> DEFINE G(k) == [k EXCEPT !.out = @ \o f]
  <2>7. lane = r5 /\ [c EXCEPT !.t[t].next = end] = S(r1) BY DEF c
  <2> HIDE DEF r1, r2, r3, r4, r5, S
  <2> DEFINE k1 == [c EXCEPT !.t[t].next = end]
  <2> DEFINE k2 == [k1 EXCEPT !.t[t].lastDts = last.original]
  <2> DEFINE k3 == [k2 EXCEPT !.t[t].lastEnd = last.original + last.duration]
  <2> DEFINE k4 == [k3 EXCEPT !.t[t].lastOut = end]
  <2> DEFINE k0 == [k4 EXCEPT !.t[t].emitted = TRUE]
  <2>9. recorded = G(k0) BY DEF c
  <2> HIDE DEF k1, k2, k3, k4, k0
  <2>8. k0 = S(r5)
    <3>1. k1 = S(r1) BY <2>7 DEF k1
    <3>2. k2 = S(r2) BY <2>3, <3>1 DEF k2
    <3>3. k3 = S(r3) BY <2>4, <3>2 DEF k3
    <3>4. k4 = S(r4) BY <2>5, <3>3 DEF k4
    <3> QED BY <2>6, <3>4 DEF k0
  <2>10. G(S(lane)) = g BY DEF S, c
  <2> QED BY <2>7, <2>8, <2>9, <2>10
<1> HIDE DEF last, end
<1>5. /\ LaneTyped(lane) /\ lane.pend = b.s.t[t].pend /\ lane.stash = b.s.t[t].stash
      /\ lane.meta = b.s.t[t].meta
      /\ lane.residual = b.s.t[t].residual /\ lane.next = end /\ lane.lastOut = end
      /\ lane.lastDts = last.original /\ lane.lastEnd \in Int
  <2>1. /\ DOMAIN lane = LaneFields /\ lane.pend = b.s.t[t].pend /\ lane.stash = b.s.t[t].stash
        /\ lane.meta = b.s.t[t].meta
        /\ lane.residual = b.s.t[t].residual /\ lane.next = end /\ lane.lastOut = end
        /\ lane.lastDts = last.original /\ lane.lastEnd = last.original + last.duration
    BY <1>1 DEF LaneTyped, LaneFields
  <2> HIDE DEF lane
  <2> QED BY <1>1, <1>3, <2>1 DEF LaneTyped, Times
<1> HIDE DEF lane
<1>6. /\ DOMAIN g = MuxFields /\ g.t = [b.s.t EXCEPT ![t] = lane] /\ SameFrame(g, b.s) /\ g.out = b.s.out \o f
      /\ g.presentation = b.s.presentation /\ g.initialPresentation = b.s.initialPresentation
      /\ g.initialOutput = b.s.initialOutput
  BY <1>1 DEF MuxTyped, MuxFields, SameFrame
<1>7. g.t[t] = lane /\ DOMAIN g.t = Tracks /\ \A u \in Tracks : u # t => g.t[u] = b.s.t[u]
  BY <1>1, <1>6
<1> HIDE DEF g
<1>8. MuxTyped(g)
  <2>1. g.out \in Seq(Outputs) BY <1>1, <1>6
  <2> QED BY <1>1, <1>5, <1>6, <1>7, <2>1 DEF MuxTyped, SameFrame
<1>9. Emitted(g, b.s, f, t)
  BY <1>3, <1>5, <1>6, <1>7, <1>8 DEF Emitted, last
<1>10. EmitFragment(b, t) = IF t = "video" THEN GenerateSilentAudio(g, f) ELSE g
  <2>1. EmitFragment(b, t) = IF f = << >> THEN b.s
                             ELSE IF t = "video" THEN GenerateSilentAudio(recorded, f) ELSE recorded
    BY DEF EmitFragment, f, last
  <2>2. f # << >> BY DEF f
  <2> HIDE DEF recorded
  <2> QED BY <1>4, <2>1, <2>2
<1>11. ASSUME NEW e
       PROVE  Emitted([g EXCEPT !.silentLast = e], b.s, f, t)
  <2> DEFINE k == [g EXCEPT !.silentLast = e]
  <2>1. /\ DOMAIN k = MuxFields /\ k.t = g.t /\ k.out = g.out /\ SameFrame(k, g)
        /\ k.presentation = g.presentation /\ k.initialPresentation = g.initialPresentation
        /\ k.initialOutput = g.initialOutput
    BY <1>6 DEF MuxFields, SameFrame
  <2> HIDE DEF k
  <2>2. MuxTyped(k) /\ SameFrame(k, b.s) BY <1>6, <1>8, <2>1 DEF MuxTyped, SameFrame
  <2>3. Emitted(k, b.s, f, t) BY <1>9, <2>1, <2>2 DEF Emitted
  <2> QED BY <2>3 DEF k
<1>12. Emitted(GenerateSilentAudio(g, f), b.s, f, t) BY <1>9, <1>11 DEF GenerateSilentAudio
<1> QED BY <1>9, <1>10, <1>12 DEF f

\* A fragment of track t leaves another track u alone.
LEMMA LaneStays ==
  ASSUME NEW s, NEW u, NEW n, NEW d, NEW jumped, NEW cut, LaneSound(s, u, n, d, jumped, cut),
         NEW r, SameFrame(r, s), r.t[u] = s.t[u],
         NEW f, NEW t, t # u, Longer(r.out, s.out, f, t)
  PROVE  LaneSound(r, u, n, d, jumped, cut)
<1> DEFINE p == Holds(s.t[u])
<1>1. Holds(r.t[u]) = p /\ r.base = s.base /\ r.normalize = s.normalize /\ r.offset = s.offset
  BY DEF SameFrame
<1> HIDE DEF p
<1>2. ASSUME NEW i \in DOMAIN r.out, r.out[i].t = u
      PROVE  i \in DOMAIN s.out /\ r.out[i] = s.out[i] /\ s.out[i].t = u
  <2>1. i \in DOMAIN s.out BY <1>2 DEF Longer
  <2> QED BY <1>2, <2>1 DEF Longer
<1>3. Rising(p) /\ Below(p, n, d) /\ (s.t[u].stash # << >> => s.base \in Int)
      /\ (NoneYet(s, u) \/ LastKept(s, u)) /\ OlderOut(s.out, u, p, n)
      /\ ((~jumped /\ ~s.normalize) => OlderLast(s, u, p, d)) /\ (~cut => OnPace(s, u))
  BY DEF LaneSound, p
<1>4. NoneYet(s, u) => NoneYet(r, u) BY <1>2 DEF NoneYet
<1>5. LastKept(s, u) => LastKept(r, u)
  <2> SUFFICES ASSUME LastKept(s, u)
               PROVE  LastKept(r, u)
    OBVIOUS
  <2>1. PICK i \in DOMAIN s.out :
          /\ LastOf(s.out, u, i)
          /\ s.t[u].lastOut = Ends(s.out, i) /\ s.t[u].lastDts = s.out[i].original
          /\ s.t[u].lastEnd \in Int /\ s.base \in Int
          /\ s.t[u].next \in {s.t[u].lastOut, Undefined}
    BY DEF LastKept
  <2>2. i \in DOMAIN r.out /\ LastOf(r.out, u, i) /\ r.out[i] = s.out[i] /\ Ends(r.out, i) = Ends(s.out, i)
    BY <2>1, LastStays
  <2> QED BY <1>1, <2>1, <2>2 DEF LastKept
<1>6. OlderOut(r.out, u, p, n) BY <1>2, <1>3 DEF OlderOut
<1>7. OlderLast(s, u, p, d) => OlderLast(r, u, p, d) BY <1>1 DEF OlderLast
<1>8. OnPace(s, u) => OnPace(r, u)
  <2>1. CountOf(r.out, u) = CountOf(s.out, u) BY CountsGrow
  <2>2. \A from : Paced(s.out, u, from) => Paced(r.out, u, from)
    BY PacedStays
  <2> QED BY <1>1, <2>1, <2>2 DEF OnPace
<1> QED BY <1>1, <1>3, <1>4, <1>5, <1>6, <1>7, <1>8 DEF LaneSound

LEMMA PcmStays ==
  ASSUME NEW s, PcmKept(s), NEW r, SameFrame(r, s), NEW f, NEW t, t # "pcm", Longer(r.out, s.out, f, t)
  PROVE  PcmKept(r)
<1>1. CASE s.pcmEnd = Undefined /\ \A i \in DOMAIN s.out : s.out[i].t # "pcm"
  <2>1. ASSUME NEW i \in DOMAIN r.out
        PROVE  r.out[i].t # "pcm"
    <3>1. i \in DOMAIN s.out => r.out[i] = s.out[i] BY DEF Longer
    <3>2. i \notin DOMAIN s.out => r.out[i].t = t BY DEF Longer
    <3> QED BY <1>1, <3>1, <3>2
  <2> QED BY <1>1, <2>1 DEF PcmKept, SameFrame
<1>2. CASE \E i \in DOMAIN s.out :
             LastOf(s.out, "pcm", i) /\ s.pcmOut = Ends(s.out, i) /\ s.pcmEnd \in Int
  <2>1. PICK i \in DOMAIN s.out : LastOf(s.out, "pcm", i) /\ s.pcmOut = Ends(s.out, i) /\ s.pcmEnd \in Int
    BY <1>2
  <2>2. i \in DOMAIN r.out /\ LastOf(r.out, "pcm", i) /\ Ends(r.out, i) = Ends(s.out, i)
    BY <2>1, LastStays
  <2> QED BY <2>1, <2>2 DEF PcmKept, SameFrame
<1> QED BY <1>1, <1>2 DEF PcmKept

\* The remuxer r after a fragment f of track t, made of the samples q of what
\* track t of the remuxer s held; rest is what it keeps.
Emission(s, n, d, jumped, cut, t, q, rest, start, f, r) ==
  /\ t \in Tracks /\ n \in Int /\ d \in Int
  /\ MuxTyped(s) /\ InTurn(s.out, jumped) /\ LaneSound(s, t, n, d, jumped, cut) /\ s.base \in Int
  /\ Parted(q, rest, Holds(s.t[t]))
  /\ (s.normalize /\ s.t[t].lastDts # Undefined) => \A j \in DOMAIN q : s.t[t].lastDts < q[j].dts - s.base
  /\ StartsWell(start, s, t)
  /\ f # << >> /\ MadeOf(f, t, q, s.base, Len(q)) /\ NominalTimes(f, t, start, s.t[t].residual)
  /\ UpTo(f, t, start, s.t[t].residual, Ends(f, Len(f)), r.t[t].residual)
  /\ MuxTyped(r) /\ SameFrame(r, s) /\ r.out = s.out \o f
  /\ r.t[t].pend = << >> /\ r.t[t].stash = rest
  /\ r.t[t].next = Ends(f, Len(f)) /\ r.t[t].lastOut = Ends(f, Len(f))
  /\ r.t[t].lastDts = f[Len(f)].original /\ r.t[t].lastEnd \in Int

\* What the track put out before is older than the fragment.
LEMMA EmissionIsLater ==
  ASSUME NEW s, NEW n, NEW d, NEW jumped, NEW cut, NEW t, NEW q, NEW rest, NEW start, NEW f, NEW r,
         Emission(s, n, d, jumped, cut, t, q, rest, start, f, r)
  PROVE  \A i \in DOMAIN s.out : s.out[i].t = t =>
           \A k \in DOMAIN f : s.out[i].id < f[k].id /\ (~jumped => s.out[i].original < f[k].original)
<1>1. /\ t \in Tracks /\ MuxTyped(s) /\ InTurn(s.out, jumped) /\ LaneSound(s, t, n, d, jumped, cut) /\ s.base \in Int
      /\ SomeOf(q, Holds(s.t[t])) /\ MadeOf(f, t, q, s.base, Len(q))
      /\ (s.normalize /\ s.t[t].lastDts # Undefined) => \A j \in DOMAIN q : s.t[t].lastDts < q[j].dts - s.base
  BY DEF Emission, Parted
<1> DEFINE p == Holds(s.t[t])
<1> DEFINE lastDts == s.t[t].lastDts
<1>2. /\ s.out \in Seq(Outputs) /\ q \in Seq(Collected) /\ OlderOut(s.out, t, p, n)
      /\ (~jumped /\ ~s.normalize) => OlderLast(s, t, p, d)
      /\ NoneYet(s, t) \/ LastKept(s, t)
  BY <1>1 DEF MuxTyped, LaneSound, SomeOf
<1> HIDE DEF p, lastDts
<1> SUFFICES ASSUME NEW i \in DOMAIN s.out, s.out[i].t = t, NEW k \in DOMAIN f
             PROVE  s.out[i].id < f[k].id /\ (~jumped => s.out[i].original < f[k].original)
  OBVIOUS
<1>3. PICK j \in DOMAIN q : f[k].id = q[j].id /\ f[k].original = q[j].dts - s.base
  <2>1. DOMAIN q = 1 .. Len(q) BY <1>2
  <2> QED BY <1>1, <2>1 DEF MadeOf
<1>4. PICK l \in DOMAIN p : q[j] = p[l] BY <1>1 DEF SomeOf, p
<1>5. s.out[i].id < f[k].id BY <1>2, <1>3, <1>4 DEF OlderOut
<1>6. ASSUME ~jumped
      PROVE  s.out[i].original < f[k].original
  <2>1. PICK e \in DOMAIN s.out : LastOf(s.out, t, e) /\ lastDts = s.out[e].original
    <3>1. ~NoneYet(s, t) BY DEF NoneYet
    <3> QED BY <1>2, <3>1 DEF LastKept, lastDts
  <2>2. /\ s.out[i].original \in Int /\ s.out[e].original \in Int /\ i \in Int /\ e \in Int
        /\ lastDts \in Int /\ lastDts # Undefined
    <3>1. s.out[i].original \in Int /\ s.out[e].original \in Int
      BY <1>2, OutputsTyped
    <3>2. DOMAIN s.out = 1 .. Len(s.out) BY <1>2
    <3> QED BY <2>1, <3>1, <3>2, RemuxFacts
  <2>3. s.out[i].original <= lastDts
    <3>1. i = e \/ i < e BY <2>1, <2>2 DEF LastOf
    <3>2. i < e => s.out[i].original < s.out[e].original
      <4>1. s.out[e].t = t BY <2>1 DEF LastOf
      <4> QED BY <1>1, <1>6, <4>1 DEF InTurn
    <3> QED BY <2>1, <2>2, <3>1, <3>2
  <2>4. lastDts < f[k].original
    <3>1. CASE s.normalize BY <1>1, <1>3, <2>2, <3>1 DEF lastDts
    <3>2. CASE ~s.normalize
      <4>1. OlderLast(s, t, p, d) BY <1>2, <1>6, <3>2
      <4> QED BY <1>3, <1>4, <2>2, <4>1 DEF OlderLast, lastDts
    <3> QED BY <3>1, <3>2
  <2>5. f[k].original \in Int
    <3>1. q[j] \in Collected BY <1>2
    <3> QED BY <1>1, <1>3, <3>1 DEF Collected
  <2> QED BY <2>2, <2>3, <2>4, <2>5
<1> QED BY <1>5, <1>6

LEMMA EmissionIsSound ==
  ASSUME NEW s, NEW n, NEW d, NEW jumped, NEW cut, NEW t, NEW q, NEW rest, NEW start, NEW f, NEW r,
         Emission(s, n, d, jumped, cut, t, q, rest, start, f, r)
  PROVE  LaneSound(r, t, n, d, jumped, cut) /\ InTurn(r.out, jumped) /\ Longer(r.out, s.out, f, t)
<1> DEFINE p == Holds(s.t[t])
<1> DEFINE w == r.out
<1> DEFINE last == f[Len(f)]
<1>1. /\ t \in Tracks /\ n \in Int /\ d \in Int
      /\ MuxTyped(s) /\ InTurn(s.out, jumped) /\ LaneSound(s, t, n, d, jumped, cut) /\ s.base \in Int
      /\ SomeOf(q, p) /\ SomeOf(rest, p)
      /\ \A j \in DOMAIN q : \A k \in DOMAIN rest : q[j].id < rest[k].id /\ q[j].dts < rest[k].dts
      /\ StartsWell(start, s, t)
      /\ f # << >> /\ MadeOf(f, t, q, s.base, Len(q)) /\ NominalTimes(f, t, start, s.t[t].residual)
      /\ UpTo(f, t, start, s.t[t].residual, Ends(f, Len(f)), r.t[t].residual)
      /\ MuxTyped(r) /\ SameFrame(r, s) /\ r.out = s.out \o f
      /\ r.t[t].pend = << >> /\ r.t[t].stash = rest
      /\ r.t[t].next = Ends(f, Len(f)) /\ r.t[t].lastOut = Ends(f, Len(f))
      /\ r.t[t].lastDts = f[Len(f)].original /\ r.t[t].lastEnd \in Int
  BY DEF Emission, Parted
<1>2. /\ s.out \in Seq(Outputs) /\ f \in Seq(Outputs) /\ q \in Seq(Collected) /\ rest \in Seq(Collected)
      /\ \A k \in DOMAIN f : f[k].t = t
      /\ Rising(rest) /\ Below(p, n, d) /\ OlderOut(s.out, t, p, n)
      /\ (NoneYet(s, t) \/ LastKept(s, t)) /\ (~cut => OnPace(s, t))
      /\ r.base = s.base /\ r.offset = s.offset /\ r.normalize = s.normalize
  BY <1>1 DEF MuxTyped, MadeOf, SomeOf, LaneSound, SameFrame
<1>3. Longer(w, s.out, f, t) BY <1>1, <1>2, LongerIs
<1>4. Holds(r.t[t]) = rest
  <2>1. rest \o << >> = rest BY <1>2
  <2> QED BY <1>1, <2>1 DEF Holds
<1> HIDE DEF p, w
<1>5. \A k \in DOMAIN f : \E j \in DOMAIN q : f[k].id = q[j].id /\ f[k].original = q[j].dts - s.base
  <2>1. DOMAIN q = 1 .. Len(q) BY <1>2
  <2> QED BY <1>1, <2>1 DEF MadeOf
<1>6. Below(rest, n, d) BY <1>1, <1>2 DEF Below, SomeOf
<1>7. Len(f) \in DOMAIN f /\ last.dts \in Int /\ last.original \in Int /\ Ends(f, Len(f)) \in Int
      /\ \A k \in DOMAIN f : f[k].dts \in Int /\ f[k].id \in Int
  <2>1. Len(f) \in DOMAIN f BY <1>1, <1>2
  <2> QED BY <1>2, <2>1, OutputsTyped
<1>8. InTurn(w, jumped)
  <2>1. \A i \in DOMAIN s.out : s.out[i].t = t =>
          \A k \in DOMAIN f : s.out[i].id < f[k].id /\ (~jumped => s.out[i].original < f[k].original)
    BY EmissionIsLater
  <2>2. \A k, l \in DOMAIN f : k < l => f[k].id < f[l].id /\ f[k].original < f[l].original
    BY <1>1 DEF MadeOf
  <2> QED BY <1>1, <1>3, <2>1, <2>2, InTurnGrows, SMTT(40)
<1>9. LastKept(r, t)
  <2>1. LastOf(w, t, Len(w)) /\ w[Len(w)] = last /\ Ends(w, Len(w)) = Ends(f, Len(f)) /\ Len(w) \in DOMAIN w
    BY <1>3, LastMoves
  <2> QED BY <1>1, <1>2, <2>1 DEF LastKept, w
<1>10. OlderOut(w, t, rest, n)
  <2> SUFFICES ASSUME NEW i \in DOMAIN w, w[i].t = t
               PROVE  w[i].id < n /\ \A k \in DOMAIN rest : w[i].id < rest[k].id
    BY DEF OlderOut
  <2>1. CASE i \in DOMAIN s.out
    <3>1. w[i] = s.out[i] BY <1>3, <2>1 DEF Longer
    <3>2. \A k \in DOMAIN rest : \E l \in DOMAIN p : rest[k] = p[l]
      BY <1>1 DEF SomeOf
    <3>3. s.out[i].id < n /\ \A l \in DOMAIN p : s.out[i].id < p[l].id
      BY <1>2, <2>1, <3>1 DEF OlderOut
    <3> QED BY <3>1, <3>2, <3>3
  <2>2. CASE i \notin DOMAIN s.out
    <3>1. i - Len(s.out) \in DOMAIN f /\ w[i] = f[i - Len(s.out)]
      BY <1>3, <2>2 DEF Longer
    <3>2. PICK j \in DOMAIN q : w[i].id = q[j].id BY <1>5, <3>1
    <3>3. q[j].id < n BY <1>1, <1>2 DEF Below, SomeOf
    <3> QED BY <1>1, <3>2, <3>3
  <2> QED BY <2>1, <2>2
<1>11. OlderLast(r, t, rest, d)
  <2>1. PICK j \in DOMAIN q : last.original = q[j].dts - s.base
    BY <1>5, <1>7
  <2>2. q[j] \in Collected /\ \A k \in DOMAIN rest : rest[k] \in Collected
    BY <1>2
  <2>3. q[j].dts \in Int /\ \A k \in DOMAIN rest : rest[k].dts \in Int
    BY <2>2 DEF Collected
  <2>4. q[j].dts < d /\ \A k \in DOMAIN rest : q[j].dts < rest[k].dts
    BY <1>1, <1>2 DEF Below, SomeOf
  <2>5. last.original < d - s.base BY <1>1, <2>1, <2>3, <2>4
  <2>6. \A k \in DOMAIN rest : last.original < rest[k].dts - s.base
    BY <1>1, <2>1, <2>3, <2>4
  <2> QED BY <1>1, <1>2, <2>5, <2>6 DEF OlderLast
<1>12. ~cut => OnPace(r, t)
  <2> SUFFICES ASSUME ~cut
               PROVE  OnPace(r, t)
    OBVIOUS
  <2> DEFINE residual == s.t[t].residual
  <2> DEFINE now == r.t[t].residual
  <2> DEFINE end == Ends(f, Len(f))
  <2> DEFINE c == CountOf(s.out, t)
  <2> DEFINE from == 2 * s.offset
  <2>1. OnPace(s, t) BY <1>2
  <2>2. start \in Int /\ residual \in Int /\ now \in Int /\ from \in Int /\ Ref[t] \in Int /\ end \in Int
        /\ s.offset \in Int
    <3>1. LaneTyped(s.t[t]) /\ LaneTyped(r.t[t]) /\ s.offset \in Int
      BY <1>1 DEF MuxTyped
    <3>2. residual \in Int /\ now \in Int BY <3>1 DEF LaneTyped
    <3>3. start \in Int /\ Ref[t] \in Int BY <1>1, RemuxFacts DEF StartsWell
    <3>4. from \in Int BY <3>1
    <3> QED BY <1>7, <3>1, <3>2, <3>3, <3>4
  <2>3. c \in Nat /\ CountOf(w, t) = c + Len(f) /\ Len(f) \in Nat
    BY <1>2, <1>3, CountsGrow
  <2>4. 2 * start + residual = from + c * Ref[t]
    <3>1. CASE NoneYet(s, t)
      <4>1. start = s.offset /\ residual = 0 BY <1>1, <3>1 DEF StartsWell, NoneYet
      <4>2. c = 0
        <5>1. {k \in DOMAIN s.out : s.out[k].t = t} = {} BY <3>1 DEF NoneYet
        <5> QED BY <5>1, FS_EmptySet DEF CountOf
      <4>3. c * Ref[t] = 0
        <5> HIDE DEF c
        <5> QED BY <2>2, <4>2
      <4> HIDE DEF c
      <4> QED BY <2>2, <4>1, <4>3
    <3>2. CASE LastKept(s, t)
      <4>1. s.t[t].lastDts # Undefined
        <5>1. PICK i \in DOMAIN s.out : s.t[t].lastDts = s.out[i].original
          BY <3>2 DEF LastKept
        <5>2. s.out[i].original \in Int BY <1>2, OutputsTyped
        <5> QED BY <5>1, <5>2, RemuxFacts
      <4>2. s.t[t].next # Undefined /\ 2 * s.t[t].next + residual = from + c * Ref[t]
        BY <2>1, <4>1 DEF OnPace
      <4>3. start = s.t[t].next BY <1>1, <4>2 DEF StartsWell
      <4> QED BY <4>2, <4>3
    <3> QED BY <1>2, <3>1, <3>2
  <2>5. Paced(w, t, from)
    <3>1. Paced(s.out, t, from) BY <2>1 DEF OnPace
    <3> QED BY <1>1, <1>3, <1>7, <2>2, <2>4, <3>1, PacedGrows
  <2>6. 2 * end + now = from + CountOf(w, t) * Ref[t]
    <3> DEFINE y == c * Ref[t]
    <3> DEFINE z == Len(f) * Ref[t]
    <3> DEFINE m == Len(f)
    <3>1. 2 * end + now = (2 * start + residual) + z BY <1>1 DEF UpTo
    <3>2. c \in Int /\ m \in Int /\ Ref[t] \in Int BY <2>2, <2>3
    <3> HIDE DEF c, m
    <3>3. (c + m) * Ref[t] = c * Ref[t] + m * Ref[t] /\ c * Ref[t] \in Int /\ m * Ref[t] \in Int
      BY <3>2, SumTimes
    <3>4. y \in Int /\ z \in Int /\ CountOf(w, t) * Ref[t] = y + z
      BY <2>3, <3>3 DEF m
    <3>5. 2 * start + residual = from + y BY <2>4
    <3> HIDE DEF y, z, end, now, residual, from
    <3>6. 2 * end + now = from + (y + z) BY <2>2, <3>1, <3>4, <3>5
    <3> QED BY <3>4, <3>6
  <2>7. r.t[t].next = end /\ end # Undefined BY <1>1, <2>2, RemuxFacts
  <2> QED BY <1>2, <2>5, <2>6, <2>7 DEF OnPace, w
<1> QED BY <1>1, <1>2, <1>3, <1>4, <1>6, <1>8, <1>9, <1>10, <1>11, <1>12 DEF LaneSound, w

----------------------------------------------------------------------------
(* Remuxing a track                                                        *)

\* Remuxing track t leaves the others alone, and with force nothing behind.
TrackDone(r, s, t, force) ==
  /\ SameFrame(r, s) /\ \A u \in Tracks : u # t => r.t[u] = s.t[u]
  /\ r.t[t].meta = s.t[t].meta
  /\ (force /\ s.t[t].meta) => r.t[t].pend = << >>
  /\ (force /\ s.t[t].stash = << >>) => r.t[t].stash = << >>

\* Track t has the samples pend of the demuxer and the kept ones rest, and is
\* otherwise what it was.
Taken(r, s, t, pend, rest) ==
  /\ MuxTyped(r) /\ SameFrame(r, s) /\ r.out = s.out
  /\ \A u \in Tracks : u # t => r.t[u] = s.t[u]
  /\ r.t[t].pend = pend /\ r.t[t].stash = rest /\ r.t[t].meta = s.t[t].meta
  /\ r.t[t].residual = s.t[t].residual /\ r.t[t].next = s.t[t].next
  /\ r.t[t].lastDts = s.t[t].lastDts /\ r.t[t].lastEnd = s.t[t].lastEnd
  /\ r.t[t].lastOut = s.t[t].lastOut

LEMMA TakenIs ==
  ASSUME NEW s, MuxTyped(s), NEW t \in Tracks, NEW pend \in Seq(Collected), NEW rest \in Seq(Collected)
  PROVE  Taken([s EXCEPT !.t[t].pend = pend, !.t[t].stash = rest], s, t, pend, rest)
<1> DEFINE r1 == [s.t[t] EXCEPT !.pend = pend]
<1> DEFINE lane == [r1 EXCEPT !.stash = rest]
<1> DEFINE k1 == [s EXCEPT !.t[t].pend = pend]
<1> DEFINE k2 == [k1 EXCEPT !.t[t].stash = rest]
<1> DEFINE r == [s EXCEPT !.t[t] = lane]
<1>1. LaneTyped(s.t[t]) /\ t \in DOMAIN s.t /\ DOMAIN s.t = Tracks /\ "t" \in DOMAIN s
  BY DEF MuxTyped, MuxFields
<1>2. [s EXCEPT !.t[t].pend = pend, !.t[t].stash = rest] = k2
  OBVIOUS
<1>3. k1 = [s EXCEPT !.t[t] = r1]
  OBVIOUS
<1> HIDE DEF k1
<1>4. k2 = r
  <2> HIDE DEF r1, lane
  <2>1. WithLane(s, t, r1).t[t] = r1 /\ WithLane(WithLane(s, t, r1), t, lane) = WithLane(s, t, lane)
    BY <1>1, LaneTwice
  <2>4. k1 = WithLane(s, t, r1) BY <1>3 DEF WithLane
  <2>2. k1.t[t] = r1 BY <2>1, <2>4
  <2>3. k2 = [k1 EXCEPT !.t[t] = lane] BY <2>2 DEF k2, lane
  <2>5. k2 = WithLane(k1, t, lane) BY <2>3 DEF WithLane
  <2> QED BY <2>1, <2>4, <2>5 DEF WithLane
<1> HIDE DEF k2
<1>5. /\ LaneTyped(lane) /\ lane.pend = pend /\ lane.stash = rest /\ lane.meta = s.t[t].meta
      /\ lane.residual = s.t[t].residual /\ lane.next = s.t[t].next
      /\ lane.lastDts = s.t[t].lastDts /\ lane.lastEnd = s.t[t].lastEnd /\ lane.lastOut = s.t[t].lastOut
  <2>1. /\ DOMAIN lane = LaneFields /\ lane.pend = pend /\ lane.stash = rest /\ lane.meta = s.t[t].meta
        /\ lane.residual = s.t[t].residual /\ lane.next = s.t[t].next
        /\ lane.lastDts = s.t[t].lastDts /\ lane.lastEnd = s.t[t].lastEnd /\ lane.lastOut = s.t[t].lastOut
    BY <1>1 DEF LaneTyped, LaneFields
  <2> HIDE DEF lane
  <2> QED BY <1>1, <2>1 DEF LaneTyped
<1> HIDE DEF lane
<1>6. /\ DOMAIN r = MuxFields /\ r.t = [s.t EXCEPT ![t] = lane] /\ SameFrame(r, s) /\ r.out = s.out
      /\ r.presentation = s.presentation /\ r.initialPresentation = s.initialPresentation
      /\ r.initialOutput = s.initialOutput
  BY DEF MuxTyped, MuxFields, SameFrame
<1>7. r.t[t] = lane /\ DOMAIN r.t = Tracks /\ \A u \in Tracks : u # t => r.t[u] = s.t[u]
  BY <1>1, <1>6
<1> HIDE DEF r
<1>8. MuxTyped(r) BY <1>5, <1>6, <1>7 DEF MuxTyped, SameFrame
<1>9. Taken(r, s, t, pend, rest) BY <1>5, <1>6, <1>7, <1>8 DEF Taken
<1> QED BY <1>2, <1>4, <1>9

\* A track that gives samples away without putting any out stays sound.
LEMMA LaneLoses ==
  ASSUME NEW s, NEW t, NEW n, NEW d, NEW jumped, NEW cut, LaneSound(s, t, n, d, jumped, cut),
         NEW r, SameFrame(r, s), r.out = s.out, SomeOf(Holds(r.t[t]), Holds(s.t[t])),
         r.t[t].stash # << >> => s.base \in Int,
         r.t[t].residual = s.t[t].residual, r.t[t].next = s.t[t].next,
         r.t[t].lastDts = s.t[t].lastDts, r.t[t].lastEnd = s.t[t].lastEnd, r.t[t].lastOut = s.t[t].lastOut
  PROVE  LaneSound(r, t, n, d, jumped, cut)
<1> DEFINE p == Holds(s.t[t])
<1> DEFINE q == Holds(r.t[t])
<1>1. /\ Rising(p) /\ Below(p, n, d) /\ (NoneYet(s, t) \/ LastKept(s, t)) /\ OlderOut(s.out, t, p, n)
      /\ ((~jumped /\ ~s.normalize) => OlderLast(s, t, p, d)) /\ (~cut => OnPace(s, t))
  BY DEF LaneSound
<1>2. Rising(q) /\ \A j \in DOMAIN q : \E k \in DOMAIN p : q[j] = p[k]
  BY DEF SomeOf
<1>3. r.base = s.base /\ r.offset = s.offset /\ r.normalize = s.normalize
  BY DEF SameFrame
<1> HIDE DEF p, q
<1>4. Below(q, n, d) BY <1>1, <1>2 DEF Below
<1>5. OlderOut(r.out, t, q, n)
  <2> SUFFICES ASSUME NEW i \in DOMAIN s.out, s.out[i].t = t
               PROVE  s.out[i].id < n /\ \A k \in DOMAIN q : s.out[i].id < q[k].id
    BY DEF OlderOut
  <2>1. s.out[i].id < n /\ \A k \in DOMAIN p : s.out[i].id < p[k].id
    BY <1>1 DEF OlderOut
  <2> QED BY <1>2, <2>1
<1>6. OlderLast(s, t, p, d) => OlderLast(r, t, q, d)
  <2> SUFFICES ASSUME OlderLast(s, t, p, d), s.t[t].lastDts # Undefined
               PROVE  s.t[t].lastDts < d - s.base /\ \A k \in DOMAIN q : s.t[t].lastDts < q[k].dts - s.base
    BY <1>3 DEF OlderLast
  <2>1. s.t[t].lastDts < d - s.base /\ \A k \in DOMAIN p : s.t[t].lastDts < p[k].dts - s.base
    BY DEF OlderLast
  <2> QED BY <1>2, <2>1
<1>7. (NoneYet(s, t) => NoneYet(r, t)) /\ (LastKept(s, t) => LastKept(r, t))
  BY <1>3 DEF NoneYet, LastKept
<1>8. OnPace(s, t) => OnPace(r, t) BY <1>3 DEF OnPace
<1> QED BY <1>1, <1>2, <1>3, <1>4, <1>5, <1>6, <1>7, <1>8 DEF LaneSound, q

\* Another track, when nothing is put out.
LEMMA LaneSame ==
  ASSUME NEW s, NEW u, NEW n, NEW d, NEW jumped, NEW cut, LaneSound(s, u, n, d, jumped, cut),
         NEW r, SameFrame(r, s), r.out = s.out, r.t[u] = s.t[u]
  PROVE  LaneSound(r, u, n, d, jumped, cut)
BY DEF LaneSound, NoneYet, LastKept, OlderLast, OnPace, SameFrame

LEMMA PartedLess ==
  ASSUME NEW q, NEW rest, NEW p, Parted(q, rest, p), NEW r, SomeOf(r, q)
  PROVE  Parted(r, rest, p)
<1>1. \A j \in DOMAIN r : \E k \in DOMAIN q : r[j] = q[k]
  BY DEF SomeOf
<1>2. SomeOf(r, p) BY <1>1 DEF Parted, SomeOf
<1> QED BY <1>1, <1>2 DEF Parted

\* _remuxVideo, _remuxAudio keep a sound remuxer sound.
LEMMA RemuxTrackKeeps ==
  ASSUME NEW s, NEW n, NEW d, NEW jumped, NEW cut, MuxSound(s, n, d, jumped, cut),
         \A u \in Tracks : n[u] \in Int /\ d[u] \in Int,
         s.base \in Int, NEW t \in Tracks, NEW force \in BOOLEAN
  PROVE  LET r == RemuxTrack(s, t, force)
         IN  MuxSound(r, n, d, jumped, cut) /\ TrackDone(r, s, t, force)
<1> DEFINE r == RemuxTrack(s, t, force)
<1> DEFINE pend == s.t[t].pend
<1> DEFINE rest == IF force THEN << >> ELSE <<pend[Len(pend)]>>
<1> DEFINE taken == [s EXCEPT !.t[t].pend = << >>, !.t[t].stash = rest]
<1> DEFINE p == Holds(s.t[t])
<1> DEFINE q0 == BatchSamples(s, t, force)
<1> DEFINE q == DropOverlapping(s, t, q0)
<1> DEFINE original == q[1].dts - s.base
<1> DEFINE start == OutputStart(s, t, original)
<1> DEFINE b == AddSamples([s |-> taken, dts |-> start, correction |-> original - start, mp4 |-> << >>], t, q)
<1> DEFINE Early == ~s.t[t].meta \/ pend = << >> \/ (Len(pend) = 1 /\ ~force)
<1> SUFFICES MuxSound(r, n, d, jumped, cut) /\ TrackDone(r, s, t, force)
  OBVIOUS
<1>1. r = IF Early THEN s ELSE IF q = << >> THEN taken ELSE EmitFragment(b, t)
  BY DEF RemuxTrack
<1> HIDE DEF r
<1>2. /\ MuxTyped(s) /\ \A u \in Tracks : LaneSound(s, u, n[u], d[u], jumped, cut)
      /\ PcmKept(s) /\ Joined(s.out) /\ InTurn(s.out, jumped)
  BY DEF MuxSound
<1>3. /\ LaneTyped(s.t[t]) /\ pend \in Seq(Collected) /\ s.t[t].stash \in Seq(Collected)
      /\ Rising(p) /\ (NoneYet(s, t) \/ LastKept(s, t)) /\ s.out \in Seq(Outputs)
  BY <1>2 DEF MuxTyped, LaneTyped, LaneSound
<1>4. CASE Early
  <2>1. r = s BY <1>1, <1>4
  <2>2. (force /\ s.t[t].meta) => pend = << >> BY <1>4
  <2> QED BY <2>1, <2>2 DEF TrackDone, SameFrame
<1>5. CASE ~Early
  <2>1. Parted(q0, rest, p) BY <1>3, <1>5, PartedIs DEF Holds, BatchSamples
  <2>2. q0 \in Seq(Collected) /\ Rising(q0) /\ rest \in Seq(Collected) /\ SomeOf(rest, p)
    BY <2>1 DEF Parted, SomeOf
  <2> HIDE DEF q0, p
  <2>3. /\ SomeOf(q, q0)
        /\ (s.normalize /\ s.t[t].lastDts # Undefined) => \A j \in DOMAIN q : s.t[t].lastDts < q[j].dts - s.base
    BY <1>2, <2>2, DropIs
  <2>4. Parted(q, rest, p) /\ q \in Seq(Collected) /\ Rising(q)
    BY <2>1, <2>3, PartedLess DEF SomeOf
  <2>5. force => rest = << >>
    OBVIOUS
  <2> HIDE DEF q, rest
  <2>10. Taken(taken, s, t, << >>, rest)
    <3>1. << >> \in Seq(Collected)
      OBVIOUS
    <3> QED BY <1>2, <2>2, <3>1, TakenIs
  <2> HIDE DEF taken
  <2>6. /\ MuxTyped(taken) /\ SameFrame(taken, s) /\ taken.out = s.out
        /\ \A u \in Tracks : u # t => taken.t[u] = s.t[u]
        /\ taken.t[t].pend = << >> /\ taken.t[t].stash = rest /\ taken.t[t].meta = s.t[t].meta
        /\ taken.t[t].residual = s.t[t].residual /\ taken.t[t].next = s.t[t].next
        /\ taken.t[t].lastDts = s.t[t].lastDts /\ taken.t[t].lastEnd = s.t[t].lastEnd
        /\ taken.t[t].lastOut = s.t[t].lastOut
    BY <2>10 DEF Taken
  \* A remuxer that gave the samples away without putting any out.
  <2>7. ASSUME NEW k, MuxTyped(k), SameFrame(k, taken), SameLanes(k, taken, t), k.out = s.out,
               k.t[t].residual = s.t[t].residual
        PROVE  MuxSound(k, n, d, jumped, cut) /\ TrackDone(k, s, t, force)
    <3>1. SameFrame(k, s) /\ \A u \in Tracks : u # t => k.t[u] = s.t[u]
      BY <2>6, <2>7 DEF SameFrame, SameLanes
    <3>2. /\ k.t[t].pend = << >> /\ k.t[t].stash = rest /\ k.t[t].meta = s.t[t].meta /\ k.t[t].next = s.t[t].next
          /\ k.t[t].lastDts = s.t[t].lastDts /\ k.t[t].lastEnd = s.t[t].lastEnd /\ k.t[t].lastOut = s.t[t].lastOut
      BY <2>6, <2>7 DEF SameLanes, SameLane
    <3>3. Holds(k.t[t]) = rest
      <4>1. rest \o << >> = rest BY <2>2
      <4> QED BY <3>2, <4>1 DEF Holds
    <3>4. LaneSound(k, t, n[t], d[t], jumped, cut)
      <4>1. SomeOf(Holds(k.t[t]), Holds(s.t[t])) BY <2>2, <3>3 DEF p
      <4> QED BY <1>2, <2>7, <3>1, <3>2, <4>1, LaneLoses
    <3>5. ASSUME NEW u \in Tracks, u # t
          PROVE  LaneSound(k, u, n[u], d[u], jumped, cut)
      BY <1>2, <2>7, <3>1, <3>5, LaneSame
    <3>6. PcmKept(k) BY <1>2, <2>7, <3>1 DEF PcmKept, SameFrame
    <3>7. MuxSound(k, n, d, jumped, cut) BY <1>2, <2>7, <3>4, <3>5, <3>6 DEF MuxSound
    <3>8. TrackDone(k, s, t, force) BY <2>5, <3>1, <3>2 DEF TrackDone
    <3> QED BY <3>7, <3>8
  <2>8. CASE q = << >>
    <3>1. r = taken BY <1>1, <1>5, <2>8
    <3>2. SameFrame(taken, taken) /\ SameLanes(taken, taken, t)
      BY DEF SameFrame, SameLanes, SameLane
    <3> QED BY <2>6, <2>7, <3>1, <3>2
  <2>9. CASE q # << >>
    <3>1. original \in Int
      <4>1. 1 \in DOMAIN q BY <2>4, <2>9
      <4>2. q[1] \in Collected BY <2>4, <4>1
      <4> QED BY <4>2 DEF Collected
    <3> HIDE DEF original
    <3>2. StartsWell(start, s, t) BY <1>2, <1>3, <3>1, StartIs
    <3>3. start \in Int BY <3>2 DEF StartsWell
    <3> HIDE DEF start
    <3>4. taken.base = s.base BY <2>6 DEF SameFrame
    <3>5. BatchSound(b, taken, t, start, q, Len(q))
      <4> DEFINE c == original - start
      <4>1. c \in Int BY <3>1, <3>3
      <4> HIDE DEF c
      <4> DEFINE b0 == [s |-> taken, dts |-> start, correction |-> c, mp4 |-> << >>]
      <4>2. BatchSound(b0, taken, t, start, q, 0) BY <2>6, <3>3, <3>4, <4>1, BatchStarts
      <4> HIDE DEF b0
      <4>3. BatchSound(AddSamples(b0, t, q), taken, t, start, q, Len(q))
        BY <2>4, <2>6, <3>3, <4>2, BatchIs
      <4> QED BY <4>3 DEF b0, c
    <3>6. r = EmitFragment(b, t) BY <1>1, <1>5, <2>9
    <3> HIDE DEF b
    <3> DEFINE f == b.mp4
    <3>7. /\ BatchTyped(b) /\ MuxTyped(b.s) /\ SameFrame(b.s, taken) /\ SameLanes(b.s, taken, t) /\ b.s.out = s.out
          /\ MadeOf(f, t, q, s.base, Len(q)) /\ Chained(f, start) /\ NominalTimes(f, t, start, s.t[t].residual)
          /\ b.dts = IF f = << >> THEN start ELSE Ends(f, Len(f))
          /\ UpTo(f, t, start, s.t[t].residual, b.dts, b.s.t[t].residual)
      BY <2>6, <3>4, <3>5 DEF BatchSound, BatchTyped
    <3> HIDE DEF f
    <3>8. CASE f = << >>
      <4>1. r = b.s BY <3>6, <3>8 DEF EmitFragment, f
      <4>2. b.s.t[t].residual = s.t[t].residual
        <5>1. /\ s.t[t].residual \in Int /\ b.s.t[t].residual \in Int /\ Ref[t] \in Int
          <6>1. LaneTyped(s.t[t]) /\ LaneTyped(b.s.t[t]) BY <1>2, <3>7 DEF MuxTyped
          <6> QED BY <6>1, RemuxFacts DEF LaneTyped
        <5>2. Len(f) = 0 /\ 0 * Ref[t] = 0 BY <3>8, <5>1
        <5>3. 2 * start + b.s.t[t].residual = (2 * start + s.t[t].residual) + 0
          BY <3>7, <3>8, <5>2 DEF UpTo
        <5> QED BY <3>3, <5>1, <5>3
      <4> QED BY <2>7, <3>7, <4>1, <4>2
    <3>9. CASE f # << >>
      <4>1. Emitted(r, b.s, f, t) BY <3>6, <3>7, <3>9, EmitIs DEF f
      <4>2. /\ MuxTyped(r) /\ SameFrame(r, s) /\ r.out = s.out \o f
            /\ r.t[t].pend = << >> /\ r.t[t].stash = rest /\ r.t[t].meta = s.t[t].meta
            /\ r.t[t].next = Ends(f, Len(f)) /\ r.t[t].lastOut = Ends(f, Len(f))
            /\ r.t[t].lastDts = f[Len(f)].original /\ r.t[t].lastEnd \in Int
            /\ r.t[t].residual = b.s.t[t].residual
            /\ \A u \in Tracks : u # t => r.t[u] = s.t[u]
        BY <2>6, <3>7, <4>1 DEF Emitted, SameFrame, SameLanes, SameLane
      <4>3. UpTo(f, t, start, s.t[t].residual, Ends(f, Len(f)), r.t[t].residual)
        BY <3>7, <3>9, <4>2
      <4>4. Emission(s, n[t], d[t], jumped, cut, t, q, rest, start, f, r)
        <5>1. LaneSound(s, t, n[t], d[t], jumped, cut) /\ n[t] \in Int /\ d[t] \in Int
          BY <1>2
        <5>2. Parted(q, rest, Holds(s.t[t])) BY <2>4 DEF p
        <5> QED BY <1>2, <2>3, <3>2, <3>7, <3>9, <4>2, <4>3, <5>1, <5>2 DEF Emission
      <4>5. /\ LaneSound(r, t, n[t], d[t], jumped, cut) /\ InTurn(r.out, jumped)
            /\ Longer(r.out, s.out, f, t)
        BY <4>4, EmissionIsSound
      <4>6. ASSUME NEW u \in Tracks, u # t
            PROVE  LaneSound(r, u, n[u], d[u], jumped, cut)
        BY <1>2, <4>2, <4>5, <4>6, LaneStays
      <4>7. PcmKept(r)
        <5>1. t # "pcm" BY DEF Tracks
        <5> QED BY <1>2, <4>2, <4>5, <5>1, PcmStays
      <4>8. Joined(r.out)
        <5>1. \A k \in DOMAIN f : f[k].dts \in Int
          <6>1. f \in Seq(Outputs) BY <3>7 DEF MadeOf
          <6> QED BY <6>1, OutputsTyped
        <5>2. \A i \in DOMAIN s.out : LastOf(s.out, t, i) => start <= Ends(s.out, i)
          BY <3>2 DEF StartsWell
        <5> QED BY <1>2, <3>7, <4>5, <5>1, <5>2, JoinedGrows
      <4>9. MuxSound(r, n, d, jumped, cut) BY <4>2, <4>5, <4>6, <4>7, <4>8 DEF MuxSound
      <4>10. TrackDone(r, s, t, force) BY <2>5, <4>2 DEF TrackDone
      <4> QED BY <4>9, <4>10
    <3> QED BY <3>8, <3>9
  <2> QED BY <2>8, <2>9
<1> QED BY <1>4, <1>5

----------------------------------------------------------------------------
(* A batch of both tracks                                                  *)

\* The timeline is anchored, unless nothing was demuxed (_calculateDtsBase).
Based(r, s) ==
  /\ r.t = s.t /\ r.out = s.out /\ r.offset = s.offset /\ r.normalize = s.normalize
  /\ r.base = Undefined => \A t \in Tracks : s.t[t].pend = << >>

LEMMA BaseIs ==
  ASSUME NEW s, NEW n, NEW d, NEW jumped, NEW cut, MuxSound(s, n, d, jumped, cut)
  PROVE  MuxSound(CalculateDtsBase(s), n, d, jumped, cut) /\ Based(CalculateDtsBase(s), s)
<1> DEFINE r == CalculateDtsBase(s)
<1> DEFINE video == s.t["video"].pend
<1> DEFINE first == IF video # << >> THEN video ELSE s.t["audio"].pend
<1> DEFINE base == first[1].dts - s.offset
<1> SUFFICES MuxSound(r, n, d, jumped, cut) /\ Based(r, s)
  OBVIOUS
<1>1. r = IF s.base # Undefined \/ first = << >> THEN s
          ELSE [s EXCEPT !.base = base, !.hasVideo = video # << >>]
  BY DEF CalculateDtsBase
<1>2. /\ MuxTyped(s) /\ \A u \in Tracks : LaneSound(s, u, n[u], d[u], jumped, cut)
      /\ PcmKept(s) /\ Joined(s.out) /\ InTurn(s.out, jumped)
  BY DEF MuxSound
<1>3. /\ LaneTyped(s.t["video"]) /\ LaneTyped(s.t["audio"]) /\ s.offset \in Int /\ s.base \in Times
      /\ DOMAIN s = MuxFields
  BY <1>2 DEF MuxTyped, Tracks
<1>4. first \in Seq(Collected) BY <1>3 DEF LaneTyped
<1>5. (video = << >> /\ s.t["audio"].pend = << >>) => \A t \in Tracks : s.t[t].pend = << >>
  BY DEF Tracks
<1> HIDE DEF r
<1>6. CASE s.base # Undefined \/ first = << >>
  <2>1. r = s BY <1>1, <1>6
  <2>2. first = << >> => \A t \in Tracks : s.t[t].pend = << >>
    BY <1>5
  <2> QED BY <1>6, <2>1, <2>2 DEF Based
<1>7. CASE s.base = Undefined /\ first # << >>
  <2>1. base \in Int
    <3>1. first[1] \in Collected BY <1>4, <1>7
    <3> QED BY <1>3, <3>1 DEF Collected
  <2> HIDE DEF base
  <2>2. r = [s EXCEPT !.base = base, !.hasVideo = video # << >>]
    BY <1>1, <1>7
  <2>3. /\ DOMAIN r = MuxFields /\ r.t = s.t /\ r.base = base /\ r.out = s.out /\ r.offset = s.offset
        /\ r.normalize = s.normalize /\ r.presentation = s.presentation
        /\ r.initialPresentation = s.initialPresentation /\ r.initialOutput = s.initialOutput
        /\ r.pcmEnd = s.pcmEnd /\ r.pcmOut = s.pcmOut
    BY <1>3, <2>2 DEF MuxFields
  <2>4. MuxTyped(r) BY <1>2, <2>1, <2>3 DEF MuxTyped, Times
  <2>5. ASSUME NEW t \in Tracks
        PROVE  LaneSound(r, t, n[t], d[t], jumped, cut)
    <3>1. LaneSound(s, t, n[t], d[t], jumped, cut) /\ s.base \notin Int
      BY <1>2, <1>7, RemuxFacts
    <3>2. NoneYet(s, t) BY <3>1 DEF LaneSound, LastKept
    <3>3. NoneYet(r, t) BY <2>3, <3>2 DEF NoneYet
    <3>4. OlderLast(r, t, Holds(r.t[t]), d[t]) BY <3>3 DEF OlderLast, NoneYet
    <3>5. OnPace(s, t) => OnPace(r, t) BY <2>3 DEF OnPace
    <3> QED BY <2>1, <2>3, <3>1, <3>3, <3>4, <3>5 DEF LaneSound
  <2>6. PcmKept(r) BY <1>2, <2>3 DEF PcmKept
  <2>7. r.base # Undefined BY <2>1, <2>3, RemuxFacts
  <2> QED BY <1>2, <2>3, <2>4, <2>5, <2>6, <2>7 DEF MuxSound, Based
<1> QED BY <1>6, <1>7

\* A batch, which with force and the metadata of both tracks leaves none of
\* their samples with the demuxer (remux).
Remuxed(r, s, force) ==
  /\ r.offset = s.offset /\ r.normalize = s.normalize
  /\ \A t \in Tracks : r.t[t].meta = s.t[t].meta
  /\ (force /\ \A t \in Tracks : s.t[t].meta) => \A t \in Tracks : r.t[t].pend = << >>

LEMMA RemuxKeeps ==
  ASSUME NEW s, NEW n, NEW d, NEW jumped, NEW cut, MuxSound(s, n, d, jumped, cut),
         \A u \in Tracks : n[u] \in Int /\ d[u] \in Int, NEW force \in BOOLEAN
  PROVE  MuxSound(Remux(s, force), n, d, jumped, cut) /\ Remuxed(Remux(s, force), s, force)
<1> DEFINE k == CalculateDtsBase(s)
<1> DEFINE wanted(t) == force \/ IsMediaBatchReady(k) \/ ~k.t[t].emitted
<1> DEFINE v == IF wanted("video") THEN RemuxTrack(k, "video", force) ELSE k
<1> DEFINE r == IF wanted("audio") THEN RemuxTrack(v, "audio", force) ELSE v
<1>1. Remux(s, force) = IF k.base = Undefined THEN k ELSE r
  BY DEF Remux
<1>2. MuxSound(k, n, d, jumped, cut) /\ Based(k, s) BY BaseIs
<1> HIDE DEF k
<1>3. CASE k.base = Undefined BY <1>1, <1>2, <1>3 DEF Remuxed, Based
<1>4. CASE k.base # Undefined
  <2>1. k.base \in Int /\ "video" \in Tracks /\ "audio" \in Tracks /\ \A t \in Tracks : t \in {"video", "audio"}
    BY <1>2, <1>4 DEF MuxSound, MuxTyped, Times, Tracks
  <2>2. MuxSound(v, n, d, jumped, cut) /\ (v = k \/ TrackDone(v, k, "video", force))
        /\ (force => TrackDone(v, k, "video", force))
    BY <1>2, <2>1, RemuxTrackKeeps
  <2> HIDE DEF v
  <2>3. v.base \in Int BY <2>1, <2>2 DEF TrackDone, SameFrame
  <2>4. MuxSound(r, n, d, jumped, cut) /\ (r = v \/ TrackDone(r, v, "audio", force))
        /\ (force => TrackDone(r, v, "audio", force))
    BY <2>1, <2>2, <2>3, RemuxTrackKeeps
  <2> HIDE DEF r
  <2>5. Remuxed(r, s, force)
    <3>1. r.offset = s.offset /\ r.normalize = s.normalize
      BY <1>2, <2>2, <2>4 DEF TrackDone, SameFrame, Based
    <3>2. /\ v.t["audio"] = s.t["audio"] /\ v.t["video"].meta = s.t["video"].meta
          /\ (force /\ s.t["video"].meta) => v.t["video"].pend = << >>
      BY <1>2, <2>1, <2>2 DEF TrackDone, Based
    <3>3. /\ r.t["video"] = v.t["video"] /\ r.t["audio"].meta = v.t["audio"].meta
          /\ (force /\ v.t["audio"].meta) => r.t["audio"].pend = << >>
      BY <2>1, <2>4 DEF TrackDone
    <3> QED BY <2>1, <3>1, <3>2, <3>3 DEF Remuxed
  <2> QED BY <1>1, <1>4, <2>4, <2>5
<1> QED BY <1>3, <1>4

----------------------------------------------------------------------------
(* What was kept is put out (flushStashedSamples)                          *)

LEMMA PendIs ==
  ASSUME NEW s, MuxTyped(s), NEW t \in Tracks, NEW pend \in Seq(Collected)
  PROVE  Taken([s EXCEPT !.t[t].pend = pend], s, t, pend, s.t[t].stash)
<1> DEFINE lane == [s.t[t] EXCEPT !.pend = pend]
<1> DEFINE r == [s EXCEPT !.t[t] = lane]
<1>1. LaneTyped(s.t[t]) /\ t \in DOMAIN s.t /\ DOMAIN s.t = Tracks /\ "t" \in DOMAIN s
  BY DEF MuxTyped, MuxFields
<1>2. [s EXCEPT !.t[t].pend = pend] = r
  OBVIOUS
<1>3. /\ LaneTyped(lane) /\ lane.pend = pend /\ lane.stash = s.t[t].stash /\ lane.meta = s.t[t].meta
      /\ lane.residual = s.t[t].residual /\ lane.next = s.t[t].next
      /\ lane.lastDts = s.t[t].lastDts /\ lane.lastEnd = s.t[t].lastEnd /\ lane.lastOut = s.t[t].lastOut
  <2>1. /\ DOMAIN lane = LaneFields /\ lane.pend = pend /\ lane.stash = s.t[t].stash
        /\ lane.meta = s.t[t].meta
        /\ lane.residual = s.t[t].residual /\ lane.next = s.t[t].next
        /\ lane.lastDts = s.t[t].lastDts /\ lane.lastEnd = s.t[t].lastEnd /\ lane.lastOut = s.t[t].lastOut
    BY <1>1 DEF LaneTyped, LaneFields
  <2> HIDE DEF lane
  <2> QED BY <1>1, <2>1 DEF LaneTyped
<1> HIDE DEF lane
<1>4. /\ DOMAIN r = MuxFields /\ r.t = [s.t EXCEPT ![t] = lane] /\ SameFrame(r, s) /\ r.out = s.out
      /\ r.presentation = s.presentation /\ r.initialPresentation = s.initialPresentation
      /\ r.initialOutput = s.initialOutput
  BY DEF MuxTyped, MuxFields, SameFrame
<1>5. r.t[t] = lane /\ DOMAIN r.t = Tracks /\ \A u \in Tracks : u # t => r.t[u] = s.t[u]
  BY <1>1, <1>4
<1> HIDE DEF r
<1>6. MuxTyped(r) BY <1>3, <1>4, <1>5 DEF MuxTyped, SameFrame
<1>7. Taken(r, s, t, pend, s.t[t].stash) BY <1>3, <1>4, <1>5, <1>6 DEF Taken
<1> QED BY <1>2, <1>7

\* A remuxer one of whose tracks lost samples.
LEMMA TakenKeeps ==
  ASSUME NEW s, NEW n, NEW d, NEW jumped, NEW cut, MuxSound(s, n, d, jumped, cut),
         NEW t \in Tracks, NEW pend, NEW rest, NEW r, Taken(r, s, t, pend, rest),
         SomeOf(rest \o pend, Holds(s.t[t])), rest # << >> => s.base \in Int
  PROVE  MuxSound(r, n, d, jumped, cut)
<1>1. /\ MuxTyped(s) /\ \A u \in Tracks : LaneSound(s, u, n[u], d[u], jumped, cut)
      /\ PcmKept(s) /\ Joined(s.out) /\ InTurn(s.out, jumped)
  BY DEF MuxSound
<1>2. /\ MuxTyped(r) /\ SameFrame(r, s) /\ r.out = s.out
      /\ \A u \in Tracks : u # t => r.t[u] = s.t[u]
      /\ r.t[t].pend = pend /\ r.t[t].stash = rest /\ r.t[t].meta = s.t[t].meta
      /\ r.t[t].residual = s.t[t].residual /\ r.t[t].next = s.t[t].next
      /\ r.t[t].lastDts = s.t[t].lastDts /\ r.t[t].lastEnd = s.t[t].lastEnd
      /\ r.t[t].lastOut = s.t[t].lastOut
  BY DEF Taken
<1>3. LaneSound(r, t, n[t], d[t], jumped, cut)
  <2>1. Holds(r.t[t]) = rest \o pend BY <1>2 DEF Holds
  <2> QED BY <1>1, <1>2, <2>1, LaneLoses
<1>4. ASSUME NEW u \in Tracks, u # t
      PROVE  LaneSound(r, u, n[u], d[u], jumped, cut)
  BY <1>1, <1>2, <1>4, LaneSame
<1>5. PcmKept(r) BY <1>1, <1>2 DEF PcmKept, SameFrame
<1> QED BY <1>1, <1>2, <1>3, <1>4, <1>5 DEF MuxSound

LaneFlushed(r, s, t) ==
  /\ r.normalize = s.normalize /\ r.offset = s.offset
  /\ \A u \in Tracks : u # t => r.t[u] = s.t[u]
  /\ r.t[t].meta = s.t[t].meta /\ r.t[t].pend = << >> /\ r.t[t].stash = << >>

LEMMA FlushStashedKeeps ==
  ASSUME NEW s, NEW n, NEW d, NEW jumped, NEW cut, MuxSound(s, n, d, jumped, cut),
         \A u \in Tracks : n[u] \in Int /\ d[u] \in Int,
         NEW t \in Tracks, s.t[t].meta, s.t[t].pend = << >>
  PROVE  MuxSound(FlushStashed(s, t), n, d, jumped, cut) /\ LaneFlushed(FlushStashed(s, t), s, t)
<1> DEFINE stash == s.t[t].stash
<1> DEFINE k == [s EXCEPT !.t[t].pend = stash, !.t[t].stash = << >>]
<1> DEFINE r == RemuxTrack(k, t, TRUE)
<1> DEFINE e == [r EXCEPT !.t[t].pend = << >>]
<1>1. FlushStashed(s, t) = e BY DEF FlushStashed
<1>2. /\ MuxTyped(s) /\ LaneSound(s, t, n[t], d[t], jumped, cut) /\ stash \in Seq(Collected)
      /\ << >> \in Seq(Collected) /\ s.base \in Times
  BY DEF MuxSound, MuxTyped, LaneTyped
<1>3. Rising(stash) /\ Holds(s.t[t]) = stash
  <2>1. stash \o << >> = stash BY <1>2
  <2> QED BY <1>2, <2>1 DEF Holds, LaneSound
<1>4. Taken(k, s, t, stash, << >>) BY <1>2, TakenIs
<1>5. MuxSound(k, n, d, jumped, cut)
  <2>1. << >> \o stash = stash BY <1>2
  <2>2. SomeOf(<< >> \o stash, Holds(s.t[t])) BY <1>2, <1>3, <2>1 DEF SomeOf
  <2> HIDE DEF k, stash
  <2> QED BY <1>4, <2>2, TakenKeeps
<1>6. MuxSound(r, n, d, jumped, cut) /\ LaneFlushed(r, s, t)
  <2> HIDE DEF k
  <2>1. /\ k.t[t].pend = stash /\ k.t[t].stash = << >> /\ k.t[t].meta = s.t[t].meta
        /\ SameFrame(k, s) /\ \A u \in Tracks : u # t => k.t[u] = s.t[u]
    BY <1>4 DEF Taken
  <2>2. CASE s.base \in Int
    <3>1. k.base \in Int BY <2>1, <2>2 DEF SameFrame
    <3>2. MuxSound(r, n, d, jumped, cut) /\ TrackDone(r, k, t, TRUE)
      BY <1>5, <3>1, RemuxTrackKeeps
    <3> QED BY <2>1, <3>2 DEF TrackDone, SameFrame, LaneFlushed
  <2>3. CASE s.base \notin Int
    <3>1. stash = << >> BY <1>2, <2>3 DEF LaneSound
    <3>2. r = k BY <2>1, <3>1 DEF RemuxTrack
    <3> QED BY <1>5, <2>1, <3>1, <3>2 DEF SameFrame, LaneFlushed
  <2> QED BY <2>2, <2>3
<1> HIDE DEF r
<1>7. Taken(e, r, t, << >>, r.t[t].stash)
  <2>1. MuxTyped(r) BY <1>6 DEF MuxSound
  <2> QED BY <1>2, <2>1, PendIs
<1> HIDE DEF e
<1>8. r.t[t].stash = << >> /\ Holds(r.t[t]) = << >> BY <1>6 DEF LaneFlushed, Holds
<1>9. MuxSound(e, n, d, jumped, cut)
  <2>1. SomeOf(<< >> \o << >>, Holds(r.t[t])) BY <1>2, <1>8 DEF SomeOf, Rising
  <2> QED BY <1>6, <1>7, <1>8, <2>1, TakenKeeps
<1>10. LaneFlushed(e, s, t)
  BY <1>6, <1>7, <1>8 DEF LaneFlushed, Taken, SameFrame
<1> QED BY <1>1, <1>9, <1>10

LEMMA FlushStashedSamplesKeep ==
  ASSUME NEW s, NEW n, NEW d, NEW jumped, NEW cut, MuxSound(s, n, d, jumped, cut),
         \A u \in Tracks : n[u] \in Int /\ d[u] \in Int,
         \A t \in Tracks : s.t[t].meta /\ s.t[t].pend = << >>
  PROVE  /\ MuxSound(FlushStashedSamples(s), n, d, jumped, cut)
         /\ FlushStashedSamples(s).normalize = s.normalize
         /\ \A t \in Tracks : Holds(FlushStashedSamples(s).t[t]) = << >>
<1> DEFINE v == FlushStashed(s, "video")
<1> DEFINE r == FlushStashed(v, "audio")
<1>1. FlushStashedSamples(s) = r BY DEF FlushStashedSamples
<1>2. "video" \in Tracks /\ "audio" \in Tracks /\ \A t \in Tracks : t \in {"video", "audio"}
  BY DEF Tracks
<1>3. MuxSound(v, n, d, jumped, cut) /\ LaneFlushed(v, s, "video")
  BY <1>2, FlushStashedKeeps
<1> HIDE DEF v
<1>4. v.t["audio"].meta /\ v.t["audio"].pend = << >> BY <1>2, <1>3 DEF LaneFlushed
<1>5. MuxSound(r, n, d, jumped, cut) /\ LaneFlushed(r, v, "audio")
  BY <1>2, <1>3, <1>4, FlushStashedKeeps
<1> HIDE DEF r
<1>6. r.t["audio"].pend = << >> /\ r.t["audio"].stash = << >>
      /\ r.t["video"].pend = << >> /\ r.t["video"].stash = << >>
  BY <1>2, <1>3, <1>5 DEF LaneFlushed
<1>7. \A t \in Tracks : Holds(r.t[t]) = << >> BY <1>2, <1>6 DEF Holds
<1> QED BY <1>1, <1>3, <1>5, <1>7 DEF LaneFlushed

----------------------------------------------------------------------------
(* Cuts: the timeline is begun anew (insertDiscontinuity)                  *)

LEMMA CutKeeps ==
  ASSUME NEW s, NEW n, NEW d, NEW jumped, NEW cut, MuxSound(s, n, d, jumped, cut)
  PROVE  /\ MuxSound(InsertDiscontinuity(s), n, d, jumped, TRUE)
         /\ InsertDiscontinuity(s).normalize = s.normalize
         /\ \A t \in Tracks : Holds(InsertDiscontinuity(s).t[t]) = Holds(s.t[t])
<1> DEFINE lanes == [t \in Tracks |-> [s.t[t] EXCEPT !.next = Undefined, !.emitted = FALSE]]
<1> DEFINE r == [s EXCEPT !.t = lanes, !.silentLast = Undefined, !.presentation = Undefined]
<1>1. InsertDiscontinuity(s) = r BY DEF InsertDiscontinuity
<1>2. /\ MuxTyped(s) /\ \A u \in Tracks : LaneSound(s, u, n[u], d[u], jumped, cut)
      /\ PcmKept(s) /\ Joined(s.out) /\ InTurn(s.out, jumped)
  BY DEF MuxSound
<1>3. ASSUME NEW t \in Tracks
      PROVE  /\ LaneTyped(lanes[t]) /\ lanes[t].pend = s.t[t].pend /\ lanes[t].stash = s.t[t].stash
             /\ lanes[t].next = Undefined /\ lanes[t].residual = s.t[t].residual
             /\ lanes[t].lastDts = s.t[t].lastDts /\ lanes[t].lastEnd = s.t[t].lastEnd
             /\ lanes[t].lastOut = s.t[t].lastOut
  <2> DEFINE lane == [s.t[t] EXCEPT !.next = Undefined, !.emitted = FALSE]
  <2>1. lanes[t] = lane
    OBVIOUS
  <2>2. LaneTyped(s.t[t]) BY <1>2 DEF MuxTyped
  <2>3. /\ DOMAIN lane = LaneFields /\ lane.pend = s.t[t].pend /\ lane.stash = s.t[t].stash
        /\ lane.next = Undefined /\ lane.residual = s.t[t].residual
        /\ lane.lastDts = s.t[t].lastDts /\ lane.lastEnd = s.t[t].lastEnd
        /\ lane.lastOut = s.t[t].lastOut
    BY <2>2 DEF LaneTyped, LaneFields
  <2> HIDE DEF lane, lanes
  <2>4. LaneTyped(lane) BY <2>2, <2>3 DEF LaneTyped, Times
  <2> QED BY <2>1, <2>3, <2>4
<1>4. DOMAIN lanes = Tracks
  OBVIOUS
<1> HIDE DEF lanes
<1>5. /\ DOMAIN r = MuxFields /\ r.t = lanes /\ SameFrame(r, s) /\ r.out = s.out
      /\ r.presentation = Undefined /\ r.initialPresentation = s.initialPresentation
      /\ r.initialOutput = s.initialOutput
  BY <1>2 DEF MuxTyped, MuxFields, SameFrame
<1> HIDE DEF r
<1>6. MuxTyped(r)
  BY <1>2, <1>3, <1>4, <1>5 DEF MuxTyped, SameFrame, Times
<1>7. ASSUME NEW t \in Tracks
      PROVE  LaneSound(r, t, n[t], d[t], jumped, TRUE) /\ Holds(r.t[t]) = Holds(s.t[t])
  <2>1. /\ r.t[t].pend = s.t[t].pend /\ r.t[t].stash = s.t[t].stash
        /\ r.t[t].next = Undefined /\ r.t[t].residual = s.t[t].residual
        /\ r.t[t].lastDts = s.t[t].lastDts /\ r.t[t].lastEnd = s.t[t].lastEnd
        /\ r.t[t].lastOut = s.t[t].lastOut
        /\ r.base = s.base /\ r.offset = s.offset /\ r.normalize = s.normalize
    BY <1>3, <1>5 DEF SameFrame
  <2>2. Holds(r.t[t]) = Holds(s.t[t]) BY <2>1 DEF Holds
  <2>3. LaneSound(s, t, n[t], d[t], jumped, cut) BY <1>2
  <2>4. (NoneYet(s, t) => NoneYet(r, t)) /\ (LastKept(s, t) => LastKept(r, t))
    BY <1>5, <2>1 DEF NoneYet, LastKept
  <2>5. OlderLast(s, t, Holds(s.t[t]), d[t]) => OlderLast(r, t, Holds(s.t[t]), d[t])
    BY <2>1 DEF OlderLast
  <2> QED BY <1>5, <2>1, <2>2, <2>3, <2>4, <2>5 DEF LaneSound
<1>8. PcmKept(r) BY <1>2, <1>5 DEF PcmKept, SameFrame
<1>9. MuxSound(r, n, d, jumped, TRUE) BY <1>2, <1>5, <1>6, <1>7, <1>8 DEF MuxSound
<1> QED BY <1>1, <1>5, <1>7, <1>9 DEF SameFrame

\* What the demuxer still has of the tracks is dropped (onTrackDiscontinuity).
Dropped(s) == [s EXCEPT !.t = [t \in Tracks |-> [@[t] EXCEPT !.pend = << >>]]]

LEMMA DroppedKeeps ==
  ASSUME NEW s, NEW n, NEW d, NEW jumped, NEW cut, MuxSound(s, n, d, jumped, cut)
  PROVE  /\ MuxSound(Dropped(s), n, d, jumped, cut)
         /\ Dropped(s).normalize = s.normalize
         /\ \A t \in Tracks : Dropped(s).t[t].pend = << >> /\ Dropped(s).t[t].meta = s.t[t].meta
<1> DEFINE lanes == [t \in Tracks |-> [s.t[t] EXCEPT !.pend = << >>]]
<1> DEFINE r == [s EXCEPT !.t = lanes]
<1>1. Dropped(s) = r BY DEF Dropped
<1>2. /\ MuxTyped(s) /\ \A u \in Tracks : LaneSound(s, u, n[u], d[u], jumped, cut)
      /\ PcmKept(s) /\ Joined(s.out) /\ InTurn(s.out, jumped)
  BY DEF MuxSound
<1>3. ASSUME NEW t \in Tracks
      PROVE  /\ LaneTyped(lanes[t]) /\ lanes[t].pend = << >> /\ lanes[t].stash = s.t[t].stash
             /\ lanes[t].meta = s.t[t].meta
             /\ lanes[t].next = s.t[t].next /\ lanes[t].residual = s.t[t].residual
             /\ lanes[t].lastDts = s.t[t].lastDts /\ lanes[t].lastEnd = s.t[t].lastEnd
             /\ lanes[t].lastOut = s.t[t].lastOut
  <2> DEFINE lane == [s.t[t] EXCEPT !.pend = << >>]
  <2>1. lanes[t] = lane
    OBVIOUS
  <2>2. LaneTyped(s.t[t]) /\ << >> \in Seq(Collected) BY <1>2 DEF MuxTyped
  <2>3. /\ DOMAIN lane = LaneFields /\ lane.pend = << >> /\ lane.stash = s.t[t].stash
        /\ lane.meta = s.t[t].meta
        /\ lane.next = s.t[t].next /\ lane.residual = s.t[t].residual
        /\ lane.lastDts = s.t[t].lastDts /\ lane.lastEnd = s.t[t].lastEnd
        /\ lane.lastOut = s.t[t].lastOut
    BY <2>2 DEF LaneTyped, LaneFields
  <2> HIDE DEF lane, lanes
  <2>4. LaneTyped(lane) BY <2>2, <2>3 DEF LaneTyped
  <2> QED BY <2>1, <2>3, <2>4
<1>4. DOMAIN lanes = Tracks
  OBVIOUS
<1> HIDE DEF lanes
<1>5. /\ DOMAIN r = MuxFields /\ r.t = lanes /\ SameFrame(r, s) /\ r.out = s.out
      /\ r.presentation = s.presentation /\ r.initialPresentation = s.initialPresentation
      /\ r.initialOutput = s.initialOutput
  BY <1>2 DEF MuxTyped, MuxFields, SameFrame
<1> HIDE DEF r
<1>6. MuxTyped(r)
  BY <1>2, <1>3, <1>4, <1>5 DEF MuxTyped, SameFrame
<1>7. ASSUME NEW t \in Tracks
      PROVE  LaneSound(r, t, n[t], d[t], jumped, cut)
  <2> DEFINE stash == s.t[t].stash
  <2> DEFINE pend == s.t[t].pend
  <2> DEFINE p == Holds(s.t[t])
  <2>1. LaneSound(s, t, n[t], d[t], jumped, cut) /\ stash \in Seq(Collected) /\ pend \in Seq(Collected)
    BY <1>2 DEF MuxTyped, LaneTyped
  <2>2. p = stash \o pend /\ Rising(p) BY <2>1 DEF Holds, LaneSound
  <2>3. stash \o << >> = stash BY <2>1
  <2>4. Holds(r.t[t]) = stash BY <1>3, <1>5, <2>3 DEF Holds
  <2> HIDE DEF stash, pend, p
  <2>5. \A j \in DOMAIN stash : j \in DOMAIN p /\ p[j] = stash[j]
    BY <2>1, <2>2
  <2>6. SomeOf(stash, p) BY <2>1, <2>2, <2>5 DEF SomeOf, Rising
  <2>7. stash # << >> => s.base \in Int BY <2>1 DEF LaneSound, stash
  <2>8. /\ r.t[t].stash = stash /\ r.t[t].residual = s.t[t].residual /\ r.t[t].next = s.t[t].next
        /\ r.t[t].lastDts = s.t[t].lastDts /\ r.t[t].lastEnd = s.t[t].lastEnd
        /\ r.t[t].lastOut = s.t[t].lastOut
    BY <1>3, <1>5 DEF stash
  <2>9. SomeOf(Holds(r.t[t]), Holds(s.t[t])) BY <2>4, <2>6 DEF p
  <2> QED BY <1>5, <2>1, <2>7, <2>8, <2>9, LaneLoses
<1>8. PcmKept(r) BY <1>2, <1>5 DEF PcmKept, SameFrame
<1>9. MuxSound(r, n, d, jumped, cut) BY <1>2, <1>5, <1>6, <1>7, <1>8 DEF MuxSound
<1> QED BY <1>1, <1>3, <1>5, <1>9 DEF SameFrame

\* A remuxer that holds nothing may be given samples of another time, when the
\* sender's clock jumps (jumped) or it compares their times (normalize).
LEMMA RestartKeeps ==
  ASSUME NEW s, NEW n, NEW d, NEW jumped, NEW cut, MuxSound(s, n, d, jumped, cut),
         \A t \in Tracks : Holds(s.t[t]) = << >>,
         NEW r, MuxTyped(r), r.t = s.t, r.out = s.out, r.base = s.base, r.offset = s.offset,
         r.pcmEnd = s.pcmEnd, r.pcmOut = s.pcmOut,
         NEW e, NEW now \in BOOLEAN, jumped => now,
         (~now /\ ~r.normalize) => (~s.normalize /\ \A t \in Tracks : e[t] = d[t])
  PROVE  MuxSound(r, n, e, now, TRUE)
<1>1. /\ MuxTyped(s) /\ \A u \in Tracks : LaneSound(s, u, n[u], d[u], jumped, cut)
      /\ PcmKept(s) /\ Joined(s.out) /\ InTurn(s.out, jumped)
  BY DEF MuxSound
<1>2. ASSUME NEW t \in Tracks
      PROVE  LaneSound(r, t, n[t], e[t], now, TRUE)
  <2>1. LaneSound(s, t, n[t], d[t], jumped, cut) /\ Holds(s.t[t]) = << >>
    BY <1>1
  <2>2. Below(<< >>, n[t], e[t]) BY DEF Below
  <2>3. (NoneYet(s, t) => NoneYet(r, t)) /\ (LastKept(s, t) => LastKept(r, t))
    BY DEF NoneYet, LastKept
  <2>4. (~now /\ ~r.normalize) => OlderLast(r, t, << >>, e[t])
    BY <2>1 DEF LaneSound, OlderLast
  <2> QED BY <2>1, <2>2, <2>3, <2>4 DEF LaneSound
<1>3. InTurn(r.out, now) BY <1>1 DEF InTurn
<1>4. PcmKept(r) BY <1>1 DEF PcmKept
<1> QED BY <1>1, <1>2, <1>3, <1>4 DEF MuxSound

----------------------------------------------------------------------------
(* Samples arrive                                                          *)

\* A track to which nothing happens while its next sample becomes a later one.
LEMMA LaneLater ==
  ASSUME NEW s, NEW t \in Tracks, NEW n \in Int, NEW d \in Int, NEW jumped, NEW cut, MuxTyped(s), s.base \in Int,
         LaneSound(s, t, n, d, jumped, cut), NEW m \in Int, m >= n, NEW e \in Int, e >= d
  PROVE  LaneSound(s, t, m, e, jumped, cut)
<1> DEFINE p == Holds(s.t[t])
<1>1. /\ Below(p, n, d) /\ OlderOut(s.out, t, p, n)
      /\ LaneTyped(s.t[t]) /\ s.out \in Seq(Outputs)
  BY DEF LaneSound, MuxTyped
<1>2. p \in Seq(Collected) BY <1>1 DEF Holds, LaneTyped
<1>3. \A i \in DOMAIN p : p[i].id \in Int /\ p[i].dts \in Int
  <2>1. \A i \in DOMAIN p : p[i] \in Collected BY <1>2
  <2> QED BY <2>1 DEF Collected
<1> HIDE DEF p
<1>4. Below(p, m, e) BY <1>1, <1>3 DEF Below
<1>5. OlderOut(s.out, t, p, m)
  <2>1. \A i \in DOMAIN s.out : s.out[i].id \in Int BY <1>1, OutputsTyped
  <2> QED BY <1>1, <2>1 DEF OlderOut
<1>6. OlderLast(s, t, p, d) => OlderLast(s, t, p, e)
  <2> SUFFICES ASSUME s.t[t].lastDts # Undefined, s.t[t].lastDts < d - s.base
               PROVE  s.t[t].lastDts < e - s.base
    BY DEF OlderLast
  <2>1. s.t[t].lastDts \in Int BY <1>1 DEF LaneTyped, Times
  <2> QED BY <2>1
<1> QED BY <1>4, <1>5, <1>6 DEF LaneSound, p

\* The demuxer appends a sample to its track.
SampleArrived(s, t, e) == [s EXCEPT !.t[t].pend = Append(@, e)]

LEMMA DemuxedKeeps ==
  ASSUME NEW s, NEW n, NEW d, NEW jumped, NEW cut, MuxSound(s, n, d, jumped, cut),
         NEW t \in Tracks, n[t] \in Int, d[t] \in Int,
         NEW e \in Collected, e.id = n[t], e.dts = d[t],
         NEW m, m[t] \in Int, n[t] < m[t], NEW c, c[t] \in Int, d[t] < c[t],
         \A u \in Tracks : u # t => m[u] = n[u] /\ c[u] = d[u]
  PROVE  MuxSound(SampleArrived(s, t, e), m, c, jumped, cut)
<1> DEFINE stash == s.t[t].stash
<1> DEFINE pend == s.t[t].pend
<1> DEFINE p == Holds(s.t[t])
<1> DEFINE q == Append(pend, e)
<1> DEFINE r == [s EXCEPT !.t[t].pend = q]
<1>0. SampleArrived(s, t, e) = r BY DEF SampleArrived
<1>1. /\ MuxTyped(s) /\ \A u \in Tracks : LaneSound(s, u, n[u], d[u], jumped, cut)
      /\ PcmKept(s) /\ Joined(s.out) /\ InTurn(s.out, jumped)
  BY DEF MuxSound
<1>2. stash \in Seq(Collected) /\ pend \in Seq(Collected) /\ s.out \in Seq(Outputs) /\ s.base \in Times
      /\ LaneTyped(s.t[t])
  BY <1>1 DEF MuxTyped, LaneTyped
<1>3. q \in Seq(Collected) /\ p = stash \o pend BY <1>2 DEF Holds
<1>4. stash \o q = Append(p, e) /\ p \in Seq(Collected)
  <2> HIDE DEF stash, pend, p
  <2>1. q = pend \o <<e>> /\ <<e>> \in Seq(Collected) /\ p \in Seq(Collected)
    BY <1>2, <1>3, AppendIsConcat
  <2>2. stash \o (pend \o <<e>>) = (stash \o pend) \o <<e>>
    BY <1>2, <2>1, ConcatAssociative
  <2>3. Append(p, e) = p \o <<e>> BY <2>1, AppendIsConcat
  <2> QED BY <1>3, <2>1, <2>2, <2>3
<1> HIDE DEF q
<1>5. Taken(r, s, t, q, stash) BY <1>1, <1>3, PendIs
<1> HIDE DEF r
<1>6. /\ MuxTyped(r) /\ SameFrame(r, s) /\ r.out = s.out
      /\ \A u \in Tracks : u # t => r.t[u] = s.t[u]
      /\ r.t[t].pend = q /\ r.t[t].stash = stash
      /\ r.t[t].residual = s.t[t].residual /\ r.t[t].next = s.t[t].next
      /\ r.t[t].lastDts = s.t[t].lastDts /\ r.t[t].lastEnd = s.t[t].lastEnd
      /\ r.t[t].lastOut = s.t[t].lastOut
      /\ r.base = s.base /\ r.offset = s.offset /\ r.normalize = s.normalize
  BY <1>5 DEF Taken, SameFrame
<1> DEFINE z == Append(p, e)
<1>7. Holds(r.t[t]) = z BY <1>4, <1>6 DEF Holds
<1>8. /\ DOMAIN z = 1 .. Len(p) + 1 /\ Len(p) \in Nat /\ DOMAIN p = 1 .. Len(p)
      /\ \A i \in DOMAIN p : z[i] = p[i] /\ p[i].id \in Int /\ p[i].dts \in Int
      /\ z[Len(p) + 1] = e
  <2>1. \A i \in DOMAIN p : p[i] \in Collected BY <1>4
  <2>2. DOMAIN z = 1 .. Len(p) + 1 /\ Len(p) \in Nat /\ DOMAIN p = 1 .. Len(p)
    BY <1>4
  <2>3. \A i \in DOMAIN p : z[i] = p[i] BY <1>4
  <2>4. z[Len(p) + 1] = e BY <1>4
  <2> QED BY <2>1, <2>2, <2>3, <2>4 DEF Collected
<1>9. /\ Rising(p) /\ Below(p, n[t], d[t]) /\ (NoneYet(s, t) \/ LastKept(s, t))
      /\ OlderOut(s.out, t, p, n[t])
      /\ ((~jumped /\ ~s.normalize) => OlderLast(s, t, p, d[t])) /\ (~cut => OnPace(s, t))
      /\ (stash # << >> => s.base \in Int)
  BY <1>1 DEF LaneSound
<1> HIDE DEF z, p
\* Each sample of z is one that was held, or the new one.
<1>10. \A i \in DOMAIN z : i \in DOMAIN p \/ (i = Len(p) + 1 /\ z[i] = e)
  BY <1>8
<1>11. Rising(z)
  <2> SUFFICES ASSUME NEW i \in DOMAIN z, NEW j \in DOMAIN z, i < j
               PROVE  z[i].id < z[j].id /\ z[i].dts < z[j].dts
    BY DEF Rising
  <2>1. i \in DOMAIN p BY <1>8
  <2>2. CASE j \in DOMAIN p BY <1>8, <1>9, <2>1, <2>2 DEF Rising
  <2>3. CASE j \notin DOMAIN p
    <3>1. z[j] = e BY <1>10, <2>3
    <3> QED BY <1>8, <1>9, <2>1, <3>1 DEF Below
  <2> QED BY <2>2, <2>3
<1>12. Below(z, m[t], c[t])
  <2> SUFFICES ASSUME NEW i \in DOMAIN z
               PROVE  z[i].id < m[t] /\ z[i].dts < c[t]
    BY DEF Below
  <2>1. CASE i \in DOMAIN p
    <3>1. z[i] = p[i] /\ p[i].id < n[t] /\ p[i].dts < d[t] /\ p[i].id \in Int /\ p[i].dts \in Int
      BY <1>8, <1>9, <2>1 DEF Below
    <3> QED BY <3>1
  <2>2. CASE i \notin DOMAIN p BY <1>10, <2>2
  <2> QED BY <2>1, <2>2
<1>13. OlderOut(s.out, t, z, m[t])
  <2> SUFFICES ASSUME NEW i \in DOMAIN s.out, s.out[i].t = t
               PROVE  s.out[i].id < m[t] /\ \A k \in DOMAIN z : s.out[i].id < z[k].id
    BY DEF OlderOut
  <2>1. s.out[i].id < n[t] /\ s.out[i].id \in Int /\ \A k \in DOMAIN p : s.out[i].id < p[k].id
    BY <1>2, <1>9, OutputsTyped DEF OlderOut
  <2>2. s.out[i].id < m[t] BY <2>1
  <2> QED BY <1>8, <1>10, <2>1, <2>2
<1>14. OlderLast(s, t, p, d[t]) => OlderLast(s, t, z, c[t])
  <2> SUFFICES ASSUME s.t[t].lastDts # Undefined, OlderLast(s, t, p, d[t])
               PROVE  s.t[t].lastDts < c[t] - s.base /\ \A k \in DOMAIN z : s.t[t].lastDts < z[k].dts - s.base
    BY DEF OlderLast
  <2>1. s.t[t].lastDts < d[t] - s.base /\ \A k \in DOMAIN p : s.t[t].lastDts < p[k].dts - s.base
    BY DEF OlderLast
  <2>2. s.t[t].lastDts \in Int /\ s.base \in Int
    BY <1>2, <1>9 DEF LaneTyped, Times, NoneYet, LastKept
  <2>3. s.t[t].lastDts < c[t] - s.base BY <2>1, <2>2
  <2> QED BY <1>8, <1>10, <2>1, <2>3
<1>15. LaneSound(r, t, m[t], c[t], jumped, cut)
  <2>1. (NoneYet(s, t) => NoneYet(r, t)) /\ (LastKept(s, t) => LastKept(r, t))
    BY <1>6 DEF NoneYet, LastKept
  <2>2. OnPace(s, t) => OnPace(r, t) BY <1>6 DEF OnPace
  <2>3. OlderLast(s, t, z, c[t]) => OlderLast(r, t, z, c[t])
    BY <1>6 DEF OlderLast
  <2> QED BY <1>6, <1>7, <1>9, <1>11, <1>12, <1>13, <1>14, <2>1, <2>2, <2>3 DEF LaneSound
<1>16. ASSUME NEW u \in Tracks, u # t
       PROVE  LaneSound(r, u, m[u], c[u], jumped, cut)
  BY <1>1, <1>6, <1>16, LaneSame
<1>17. PcmKept(r) BY <1>1, <1>6 DEF PcmKept, SameFrame
<1>18. MuxSound(r, m, c, jumped, cut) BY <1>1, <1>6, <1>15, <1>16, <1>17 DEF MuxSound
<1> QED BY <1>0, <1>18

SameTimes(r, s) ==
  /\ r.pend = s.pend /\ r.stash = s.stash /\ r.residual = s.residual /\ r.next = s.next
  /\ r.lastDts = s.lastDts /\ r.lastEnd = s.lastEnd /\ r.lastOut = s.lastOut

\* The metadata of a track is known (_onTrackMetadataReceived).
LEMMA MetadataKeeps ==
  ASSUME NEW s, NEW n, NEW d, NEW jumped, NEW cut, MuxSound(s, n, d, jumped, cut), NEW t \in Tracks
  PROVE  /\ MuxSound([s EXCEPT !.t[t].meta = TRUE, !.t[t].emitted = FALSE], n, d, jumped, cut)
         /\ [s EXCEPT !.t[t].meta = TRUE, !.t[t].emitted = FALSE].normalize = s.normalize
<1> DEFINE r1 == [s.t[t] EXCEPT !.meta = TRUE]
<1> DEFINE lane == [r1 EXCEPT !.emitted = FALSE]
<1> DEFINE k1 == [s EXCEPT !.t[t].meta = TRUE]
<1> DEFINE k2 == [k1 EXCEPT !.t[t].emitted = FALSE]
<1> DEFINE r == [s EXCEPT !.t[t] = lane]
<1>0. /\ MuxTyped(s) /\ \A u \in Tracks : LaneSound(s, u, n[u], d[u], jumped, cut)
      /\ PcmKept(s) /\ Joined(s.out) /\ InTurn(s.out, jumped)
  BY DEF MuxSound
<1>1. LaneTyped(s.t[t]) /\ t \in DOMAIN s.t /\ DOMAIN s.t = Tracks /\ "t" \in DOMAIN s
  BY <1>0 DEF MuxTyped, MuxFields
<1>2. [s EXCEPT !.t[t].meta = TRUE, !.t[t].emitted = FALSE] = k2
  OBVIOUS
<1>3. k1 = [s EXCEPT !.t[t] = r1]
  OBVIOUS
<1> HIDE DEF k1
<1>4. k2 = r
  <2> HIDE DEF r1, lane
  <2>1. WithLane(s, t, r1).t[t] = r1 /\ WithLane(WithLane(s, t, r1), t, lane) = WithLane(s, t, lane)
    BY <1>1, LaneTwice
  <2>2. k1 = WithLane(s, t, r1) BY <1>3 DEF WithLane
  <2>3. k1.t[t] = r1 BY <2>1, <2>2
  <2>4. k2 = [k1 EXCEPT !.t[t] = lane] BY <2>3 DEF k2, lane
  <2>5. k2 = WithLane(k1, t, lane) BY <2>4 DEF WithLane
  <2> QED BY <2>1, <2>2, <2>5 DEF WithLane
<1> HIDE DEF k2
<1>5. LaneTyped(lane) /\ SameTimes(lane, s.t[t])
  <2>1. DOMAIN lane = LaneFields /\ SameTimes(lane, s.t[t])
    BY <1>1 DEF LaneTyped, LaneFields, SameTimes
  <2> HIDE DEF lane
  <2> QED BY <1>1, <2>1 DEF LaneTyped, SameTimes
<1> HIDE DEF lane
<1>6. /\ DOMAIN r = MuxFields /\ r.t = [s.t EXCEPT ![t] = lane] /\ SameFrame(r, s) /\ r.out = s.out
      /\ r.presentation = s.presentation /\ r.initialPresentation = s.initialPresentation
      /\ r.initialOutput = s.initialOutput
  BY <1>0 DEF MuxTyped, MuxFields, SameFrame
<1>7. r.t[t] = lane /\ DOMAIN r.t = Tracks /\ \A u \in Tracks : u # t => r.t[u] = s.t[u]
  BY <1>1, <1>6
<1> HIDE DEF r
<1>8. MuxTyped(r)
  BY <1>0, <1>5, <1>6, <1>7 DEF MuxTyped, SameFrame
<1>9. ASSUME NEW u \in Tracks
      PROVE  LaneSound(r, u, n[u], d[u], jumped, cut)
  <2>1. SameTimes(r.t[u], s.t[u]) BY <1>5, <1>7 DEF SameTimes
  <2>2. LaneSound(s, u, n[u], d[u], jumped, cut) BY <1>0
  <2>3. Holds(r.t[u]) = Holds(s.t[u]) BY <2>1 DEF SameTimes, Holds
  <2> QED BY <1>6, <2>1, <2>2, <2>3 DEF SameTimes, SameFrame, LaneSound, NoneYet, LastKept, OlderLast, OnPace
<1>10. PcmKept(r) BY <1>0, <1>6 DEF PcmKept, SameFrame
<1>11. MuxSound(r, n, d, jumped, cut) BY <1>0, <1>6, <1>8, <1>9, <1>10 DEF MuxSound
<1> QED BY <1>2, <1>4, <1>6, <1>11 DEF SameFrame

----------------------------------------------------------------------------
(* Decoded audio (mapPcmTimestamp)                                         *)

LEMMA PcmTimeIs ==
  ASSUME NEW s, MuxTyped(s), PcmKept(s), s.base \in Int, NEW pts \in Int
  PROVE  /\ PcmTime(s, pts) \in Int
         /\ \A i \in DOMAIN s.out : LastOf(s.out, "pcm", i) => PcmTime(s, pts) <= Ends(s.out, i)
<1> DEFINE original == pts - s.base
<1> DEFINE floor == IF s.initialOutput = Undefined THEN 0 ELSE s.initialOutput
<1> DEFINE start == original - (IF s.initialPresentation = Undefined THEN 0 ELSE s.initialPresentation)
<1> DEFINE distance == original - s.pcmEnd
<1> DEFINE time == PcmTime(s, pts)
<1>1. time = IF s.pcmEnd = Undefined THEN (IF start < floor THEN floor ELSE start)
             ELSE s.pcmOut + (IF distance > 0 THEN 0 ELSE distance)
  BY DEF PcmTime
<1>2. original \in Int
  OBVIOUS
<1>3. floor \in Int BY DEF MuxTyped, Times
<1> HIDE DEF original
<1>4. start \in Int
  <2>1. (IF s.initialPresentation = Undefined THEN 0 ELSE s.initialPresentation) \in Int
    BY DEF MuxTyped, Times
  <2> QED BY <1>2, <2>1
<1>5. s.out \in Seq(Outputs) /\ Undefined \notin Int BY RemuxFacts DEF MuxTyped
<1> HIDE DEF floor, start, time
<1> SUFFICES time \in Int /\ \A i \in DOMAIN s.out : LastOf(s.out, "pcm", i) => time <= Ends(s.out, i)
  BY DEF time
<1>6. CASE s.pcmEnd = Undefined /\ \A i \in DOMAIN s.out : s.out[i].t # "pcm"
  <2>1. time \in Int BY <1>1, <1>3, <1>4, <1>6
  <2> QED BY <1>6, <2>1 DEF LastOf
<1>7. CASE \E i \in DOMAIN s.out :
             LastOf(s.out, "pcm", i) /\ s.pcmOut = Ends(s.out, i) /\ s.pcmEnd \in Int
  <2>1. PICK i \in DOMAIN s.out : LastOf(s.out, "pcm", i) /\ s.pcmOut = Ends(s.out, i) /\ s.pcmEnd \in Int
    BY <1>7
  <2>2. Ends(s.out, i) \in Int BY <1>5, OutputsTyped
  <2>3. distance \in Int BY <1>2, <2>1
  <2> HIDE DEF distance
  <2>4. time = Ends(s.out, i) + (IF distance > 0 THEN 0 ELSE distance)
    BY <1>1, <1>5, <2>1
  <2>5. time \in Int /\ time <= Ends(s.out, i) BY <2>2, <2>3, <2>4
  <2>6. \A j \in DOMAIN s.out : LastOf(s.out, "pcm", j) => j = i
    BY <1>5, <2>1, LastIsOne
  <2> QED BY <2>5, <2>6
<1> QED BY <1>6, <1>7 DEF PcmKept

PcmEntry(s, pts, id) ==
  [t |-> "pcm", dts |-> PcmTime(s, pts), duration |-> 1, original |-> pts - s.base, id |-> id]

PcmPut(s, pts, id) ==
  [s EXCEPT !.pcmEnd = pts - s.base + 1, !.pcmOut = PcmTime(s, pts) + 1,
            !.out = Append(@, PcmEntry(s, pts, id))]

LEMMA PcmKeeps ==
  ASSUME NEW s, NEW n, NEW d, NEW jumped, NEW cut, MuxSound(s, n, d, jumped, cut), s.base \in Int,
         NEW pts \in Int, NEW id \in Int
  PROVE  /\ MuxSound(PcmPut(s, pts, id), n, d, jumped, cut)
         /\ PcmPut(s, pts, id).normalize = s.normalize /\ PcmPut(s, pts, id).base = s.base
<1> DEFINE time == PcmTime(s, pts)
<1> DEFINE y == PcmEntry(s, pts, id)
<1> DEFINE f == <<y>>
<1> DEFINE w == Append(s.out, y)
<1> DEFINE end == pts - s.base + 1
<1> DEFINE r == [s EXCEPT !.pcmEnd = end, !.pcmOut = time + 1, !.out = w]
<1> DEFINE k == [s EXCEPT !.out = w]
<1> SUFFICES MuxSound(r, n, d, jumped, cut) /\ r.normalize = s.normalize /\ r.base = s.base
  BY DEF PcmPut
<1>1. /\ MuxTyped(s) /\ \A u \in Tracks : LaneSound(s, u, n[u], d[u], jumped, cut)
      /\ PcmKept(s) /\ Joined(s.out) /\ InTurn(s.out, jumped)
  BY DEF MuxSound
<1>2. s.out \in Seq(Outputs) /\ end \in Int BY <1>1 DEF MuxTyped
<1>3. /\ time \in Int
      /\ \A i \in DOMAIN s.out : LastOf(s.out, "pcm", i) => time <= Ends(s.out, i)
  BY <1>1, PcmTimeIs
<1> HIDE DEF time
<1>4. y \in Outputs /\ y.t = "pcm" /\ y.dts = time /\ y.duration = 1
  <2>1. pts - s.base \in Int
    OBVIOUS
  <2> QED BY <1>3, <2>1 DEF PcmEntry, Outputs, time
<1> HIDE DEF y
<1>5. f \in Seq(Outputs) /\ f # << >> /\ Len(f) = 1 /\ DOMAIN f = {1} /\ f[1] = y
  BY <1>4
<1>6. w = s.out \o f /\ w \in Seq(Outputs) BY <1>2, <1>4, AppendIsConcat
<1> HIDE DEF f, w
<1>7. Longer(w, s.out, f, "pcm") BY <1>2, <1>4, <1>5, <1>6, LongerIs
<1>8. /\ DOMAIN r = MuxFields /\ r.t = s.t /\ r.base = s.base /\ r.offset = s.offset /\ r.out = w
      /\ r.normalize = s.normalize /\ r.presentation = s.presentation
      /\ r.initialPresentation = s.initialPresentation /\ r.initialOutput = s.initialOutput
      /\ r.pcmEnd = end /\ r.pcmOut = time + 1
  BY <1>1 DEF MuxTyped, MuxFields
<1>9. SameFrame(k, s) /\ k.t = s.t /\ k.out = w BY <1>1 DEF MuxTyped, MuxFields, SameFrame
<1> HIDE DEF r, k, end
<1>10. MuxTyped(r)
  BY <1>1, <1>2, <1>3, <1>6, <1>8 DEF MuxTyped, Times
<1>11. ASSUME NEW u \in Tracks
       PROVE  LaneSound(r, u, n[u], d[u], jumped, cut)
  <2>1. u # "pcm" BY DEF Tracks
  <2>2. LaneSound(k, u, n[u], d[u], jumped, cut) BY <1>1, <1>7, <1>9, <2>1, LaneStays
  <2>3. r.t = k.t /\ r.base = k.base /\ r.offset = k.offset /\ r.normalize = k.normalize /\ r.out = k.out
    BY <1>8, <1>9 DEF SameFrame
  <2> QED BY <2>2, <2>3 DEF LaneSound, NoneYet, LastKept, OlderLast, OnPace
<1>12. Ends(f, 1) = time + 1 BY <1>4, <1>5 DEF Ends
<1>13. PcmKept(r)
  <2>1. LastOf(w, "pcm", Len(w)) /\ Ends(w, Len(w)) = Ends(f, Len(f)) /\ Len(w) \in DOMAIN w
    BY <1>7, LastMoves
  <2> QED BY <1>2, <1>5, <1>8, <1>12, <2>1 DEF PcmKept
<1>14. Joined(w)
  <2>1. Chained(f, time) BY <1>4, <1>5 DEF Chained
  <2>2. \A l \in DOMAIN f : f[l].dts \in Int BY <1>3, <1>4, <1>5
  <2> QED BY <1>1, <1>3, <1>7, <2>1, <2>2, JoinedGrows
<1>15. InTurn(w, jumped)
  <2>1. "pcm" \notin Tracks BY DEF Tracks
  <2> QED BY <1>1, <1>7, <2>1, InTurnGrows
<1>16. MuxSound(r, n, d, jumped, cut)
  BY <1>8, <1>10, <1>11, <1>13, <1>14, <1>15 DEF MuxSound
<1> QED BY <1>8, <1>16

LEMMA MuxLater ==
  ASSUME NEW s, NEW n, NEW d, NEW jumped, NEW cut, MuxSound(s, n, d, jumped, cut), s.base \in Int,
         NEW m, NEW e,
         \A t \in Tracks : /\ n[t] \in Int /\ m[t] \in Int /\ m[t] >= n[t]
                           /\ d[t] \in Int /\ e[t] \in Int /\ e[t] >= d[t]
  PROVE  MuxSound(s, m, e, jumped, cut)
<1>1. MuxTyped(s) /\ \A t \in Tracks : LaneSound(s, t, n[t], d[t], jumped, cut)
  BY DEF MuxSound
<1>2. ASSUME NEW t \in Tracks
      PROVE  LaneSound(s, t, m[t], e[t], jumped, cut)
  BY <1>1, LaneLater
<1> QED BY <1>2 DEF MuxSound

----------------------------------------------------------------------------
(* The remuxer and its sender                                              *)

LEMMA RemuxStart ==
  RemuxInit => RemuxSound(mux, sender)
<1> SUFFICES ASSUME RemuxInit
             PROVE  RemuxSound(mux, sender)
  OBVIOUS
<1> DEFINE lanes == [t \in Tracks |-> Track]
<1>1. PICK o \in {"hls", "list", "live"} :
        sender = [dts |-> [t \in Tracks |-> 10], n |-> [t \in Tracks |-> 0], cuts |-> 0, jumps |-> 0,
                  since |-> 0, mode |-> o]
  BY DEF RemuxInit
<1>2. PICK offset \in BaseOffsets, silent \in BOOLEAN :
        mux = [t |-> lanes, base |-> Undefined, offset |-> offset, hasVideo |-> FALSE,
               presentation |-> Undefined, initialPresentation |-> Undefined, initialOutput |-> Undefined,
               silent |-> silent, silentLast |-> Undefined, normalize |-> FALSE,
               pcmEnd |-> Undefined, pcmOut |-> Undefined, out |-> << >>]
  BY DEF RemuxInit
<1>3. SenderTyped(sender) /\ sender.cuts = 0 /\ sender.jumps = 0
  BY <1>1 DEF SenderTyped
<1>4. offset \in Int BY RemuxFacts
<1>5. LaneTyped(Track)
  <2>1. << >> \in Seq(Collected)
    OBVIOUS
  <2> QED BY <2>1 DEF LaneTyped, Track, LaneFields, Times
<1>6. DOMAIN lanes = Tracks /\ \A t \in Tracks : lanes[t] = Track
  OBVIOUS
<1> HIDE DEF lanes
<1>7. /\ DOMAIN mux = MuxFields /\ mux.t = lanes /\ mux.base = Undefined /\ mux.offset = offset
      /\ mux.normalize = FALSE /\ mux.presentation = Undefined /\ mux.initialPresentation = Undefined
      /\ mux.initialOutput = Undefined /\ mux.pcmEnd = Undefined /\ mux.pcmOut = Undefined /\ mux.out = << >>
  BY <1>2 DEF MuxFields
<1>8. MuxTyped(mux)
  <2>1. << >> \in Seq(Outputs)
    OBVIOUS
  <2> QED BY <1>4, <1>5, <1>6, <1>7, <2>1 DEF MuxTyped, Times
<1>9. ASSUME NEW t \in Tracks, NEW n, NEW d, NEW jumped, NEW cut
      PROVE  LaneSound(mux, t, n, d, jumped, cut)
  <2>1. /\ mux.t[t].pend = << >> /\ mux.t[t].stash = << >> /\ mux.t[t].next = Undefined
        /\ mux.t[t].lastDts = Undefined /\ mux.t[t].lastEnd = Undefined /\ mux.t[t].residual = 0
    BY <1>6, <1>7 DEF Track
  <2>2. Holds(mux.t[t]) = << >> BY <2>1 DEF Holds
  <2>3. NoneYet(mux, t) BY <1>7, <2>1 DEF NoneYet
  <2>4. OnPace(mux, t) BY <1>7, <2>1 DEF OnPace, Paced
  <2> QED BY <1>7, <2>1, <2>2, <2>3, <2>4 DEF LaneSound, Rising, Below, OlderOut, OlderLast
<1>10. PcmKept(mux) /\ Joined(mux.out) /\ InTurn(mux.out, sender.jumps > 0)
  BY <1>7 DEF PcmKept, Joined, InTurn
<1> QED BY <1>3, <1>7, <1>8, <1>9, <1>10 DEF RemuxSound, MuxSound

\* What the sender may send next.
LEMMA SenderIs ==
  ASSUME NEW p, SenderTyped(p)
  PROVE  /\ \A t \in Tracks : p.n[t] \in Int /\ p.dts[t] \in Int
         /\ p.cuts \in Nat /\ p.jumps \in Nat
         /\ (p.cuts > 0) \in BOOLEAN /\ (p.jumps > 0) \in BOOLEAN
BY DEF SenderTyped

LEMMA DemuxedStep ==
  ASSUME RemuxSound(mux, sender), NEW t \in Tracks, Demuxed(t)
  PROVE  RemuxSound(mux', sender')
<1> DEFINE n == sender.n
<1> DEFINE d == sender.dts
<1> DEFINE step == (IF n[t] % 2 = 0 THEN Ref[t] + 1 ELSE Ref[t]) \div 2
<1> DEFINE m == [n EXCEPT ![t] = @ + 1]
<1> DEFINE c == [d EXCEPT ![t] = @ + step]
<1> DEFINE e == [dts |-> d[t], id |-> n[t], cts |-> IF t = "audio" THEN 0 ELSE IF n[t] % 3 = 1 THEN 0 ELSE 3]
<1>1. /\ SenderTyped(sender) /\ MuxSound(mux, n, d, sender.jumps > 0, sender.cuts > 0)
      /\ sender.mode = "hls" => ~mux.normalize
  BY DEF RemuxSound
<1>2. n \in [Tracks -> Int] /\ d \in [Tracks -> Int] /\ n[t] \in Int /\ d[t] \in Int
  BY <1>1 DEF SenderTyped
<1>3. mux' = SampleArrived(mux, t, e) BY DEF Demuxed, SampleArrived
<1>4. sender' = [sender EXCEPT !.n[t] = @ + 1, !.dts[t] = @ + step]
  BY DEF Demuxed
<1>5. step \in Int /\ step >= 1
  <2>1. Ref[t] \in Nat /\ Ref[t] >= 2 BY RemuxFacts
  <2> DEFINE y == IF n[t] % 2 = 0 THEN Ref[t] + 1 ELSE Ref[t]
  <2>2. y \in Nat /\ y >= 2 BY <2>1
  <2> HIDE DEF y
  <2>3. y \div 2 \in Int /\ y \div 2 >= 1 BY <2>2, SMT
  <2> QED BY <2>3 DEF y
<1>6. e \in Collected /\ e.id = n[t] /\ e.dts = d[t]
  <2>1. (IF t = "audio" THEN 0 ELSE IF n[t] % 3 = 1 THEN 0 ELSE 3) \in Int
    OBVIOUS
  <2> QED BY <1>2, <2>1 DEF Collected
<1> HIDE DEF step, e
<1>7. /\ m \in [Tracks -> Int] /\ c \in [Tracks -> Int] /\ m[t] \in Int /\ n[t] < m[t] /\ c[t] \in Int /\ d[t] < c[t]
      /\ \A u \in Tracks : u # t => m[u] = n[u] /\ c[u] = d[u]
  BY <1>2, <1>5
<1>8. /\ sender'.n = m /\ sender'.dts = c /\ sender'.jumps = sender.jumps /\ sender'.cuts = sender.cuts
      /\ sender'.mode = sender.mode /\ DOMAIN sender' = DOMAIN sender
  BY <1>1, <1>4 DEF SenderTyped
<1> HIDE DEF n, d, m, c
<1>9. MuxSound(SampleArrived(mux, t, e), m, c, sender.jumps > 0, sender.cuts > 0)
  BY <1>1, <1>2, <1>6, <1>7, DemuxedKeeps
<1>10. SenderTyped(sender') BY <1>1, <1>7, <1>8 DEF SenderTyped
<1>11. mux'.normalize = mux.normalize
  <2>1. "normalize" \in DOMAIN mux BY <1>1 DEF MuxSound, MuxTyped, MuxFields
  <2> QED BY <1>3, <2>1 DEF SampleArrived
<1> QED BY <1>1, <1>3, <1>8, <1>9, <1>10, <1>11 DEF RemuxSound

LEMMA BatchStep ==
  ASSUME RemuxSound(mux, sender), Batch
  PROVE  RemuxSound(mux', sender')
<1>1. /\ SenderTyped(sender) /\ MuxSound(mux, sender.n, sender.dts, sender.jumps > 0, sender.cuts > 0)
      /\ sender.mode = "hls" => ~mux.normalize
  BY DEF RemuxSound
<1>2. mux' = Remux(mux, FALSE) /\ sender' = sender BY DEF Batch
<1>3. \A t \in Tracks : sender.n[t] \in Int /\ sender.dts[t] \in Int
  BY <1>1, SenderIs
<1>4. MuxSound(mux', sender.n, sender.dts, sender.jumps > 0, sender.cuts > 0) /\ Remuxed(mux', mux, FALSE)
  BY <1>1, <1>2, <1>3, RemuxKeeps
<1> QED BY <1>1, <1>2, <1>4 DEF RemuxSound, Remuxed

LEMMA MetadataStep ==
  ASSUME RemuxSound(mux, sender), NEW t \in Tracks, OnTrackMetadataReceived(t)
  PROVE  RemuxSound(mux', sender')
<1>1. /\ SenderTyped(sender) /\ MuxSound(mux, sender.n, sender.dts, sender.jumps > 0, sender.cuts > 0)
      /\ sender.mode = "hls" => ~mux.normalize
  BY DEF RemuxSound
<1>2. mux' = [mux EXCEPT !.t[t].meta = TRUE, !.t[t].emitted = FALSE] /\ sender' = sender
  BY DEF OnTrackMetadataReceived
<1>3. MuxSound(mux', sender.n, sender.dts, sender.jumps > 0, sender.cuts > 0) /\ mux'.normalize = mux.normalize
  BY <1>1, <1>2, MetadataKeeps
<1> QED BY <1>1, <1>2, <1>3 DEF RemuxSound

\* A cut of the sender: counted, and its clock may stand elsewhere.
LEMMA SeekedStep ==
  ASSUME RemuxSound(mux, sender), Seeked
  PROVE  RemuxSound(mux', sender')
<1>1. /\ SenderTyped(sender) /\ MuxSound(mux, sender.n, sender.dts, sender.jumps > 0, sender.cuts > 0)
      /\ sender.mode = "hls" => ~mux.normalize
  BY DEF RemuxSound
<1>2. mux' = InsertDiscontinuity(mux) /\ sender' = [sender EXCEPT !.cuts = @ + 1]
  BY DEF Seeked
<1>3. MuxSound(mux', sender.n, sender.dts, sender.jumps > 0, TRUE) /\ mux'.normalize = mux.normalize
  BY <1>1, <1>2, CutKeeps
<1>4. /\ sender'.n = sender.n /\ sender'.dts = sender.dts /\ sender'.jumps = sender.jumps
      /\ sender'.cuts = sender.cuts + 1 /\ sender'.mode = sender.mode /\ DOMAIN sender' = DOMAIN sender
  BY <1>1, <1>2 DEF SenderTyped
<1>5. SenderTyped(sender') /\ (sender'.cuts > 0) = TRUE BY <1>1, <1>4 DEF SenderTyped
<1> QED BY <1>1, <1>3, <1>4, <1>5 DEF RemuxSound

LEMMA DiscontinuityStep ==
  ASSUME RemuxSound(mux, sender), NEW jump \in Jumps, Discontinuity(jump)
  PROVE  RemuxSound(mux', sender')
<1> DEFINE n == sender.n
<1> DEFINE d == sender.dts
<1> DEFINE e == [t \in Tracks |-> d[t] + jump]
<1> DEFINE jumped == sender.jumps > 0
<1> DEFINE cut == sender.cuts > 0
<1> DEFINE s == Remux(mux, TRUE)
<1> DEFINE p == Dropped(s)
<1> DEFINE f == FlushStashedSamples(p)
<1> DEFINE r == InsertDiscontinuity(f)
<1>1. /\ SenderTyped(sender) /\ MuxSound(mux, n, d, jumped, cut)
      /\ sender.mode = "hls" => ~mux.normalize
  BY DEF RemuxSound
<1>2. /\ mux' = r /\ \A t \in Tracks : mux.t[t].meta
      /\ sender' = [sender EXCEPT !.cuts = @ + 1, !.jumps = @ + 1, !.since = sender.n["video"],
                                  !.dts = [t \in Tracks |-> @[t] + jump]]
  BY DEF Discontinuity, Dropped
<1>3. \A t \in Tracks : n[t] \in Int /\ d[t] \in Int BY <1>1, SenderIs
<1>4. /\ sender'.n = n /\ sender'.dts = e /\ sender'.jumps = sender.jumps + 1
      /\ sender'.cuts = sender.cuts + 1 /\ sender'.mode = sender.mode /\ DOMAIN sender' = DOMAIN sender
  BY <1>1, <1>2 DEF SenderTyped
<1>5. SenderTyped(sender') /\ (sender'.cuts > 0) = TRUE /\ (sender'.jumps > 0) = TRUE
  <2>1. e \in [Tracks -> Int]
    <3>1. jump \in Int BY RemuxFacts
    <3> QED BY <1>3, <3>1
  <2> HIDE DEF e
  <2> QED BY <1>1, <1>4, <2>1 DEF SenderTyped
<1> HIDE DEF n, d, e, jumped, cut
<1>6. MuxSound(s, n, d, jumped, cut) /\ Remuxed(s, mux, TRUE)
  BY <1>1, <1>3, RemuxKeeps
<1> HIDE DEF s
<1>7. /\ MuxSound(p, n, d, jumped, cut) /\ p.normalize = s.normalize
      /\ \A t \in Tracks : p.t[t].pend = << >> /\ p.t[t].meta = s.t[t].meta
  BY <1>6, DroppedKeeps
<1> HIDE DEF p
<1>8. \A t \in Tracks : p.t[t].meta /\ p.t[t].pend = << >>
  BY <1>2, <1>6, <1>7 DEF Remuxed
<1>9. /\ MuxSound(f, n, d, jumped, cut) /\ f.normalize = p.normalize
      /\ \A t \in Tracks : Holds(f.t[t]) = << >>
  BY <1>3, <1>7, <1>8, FlushStashedSamplesKeep
<1> HIDE DEF f
<1>10. /\ MuxSound(r, n, d, jumped, TRUE) /\ r.normalize = f.normalize
       /\ \A t \in Tracks : Holds(r.t[t]) = Holds(f.t[t])
  BY <1>9, CutKeeps
<1> HIDE DEF r
<1>11. MuxSound(r, n, e, TRUE, TRUE)
  <2>1. MuxTyped(r) /\ \A t \in Tracks : Holds(r.t[t]) = << >>
    BY <1>9, <1>10 DEF MuxSound
  <2> QED BY <1>10, <2>1, RestartKeeps
<1>12. r.normalize = mux.normalize BY <1>6, <1>7, <1>9, <1>10 DEF Remuxed
<1> QED BY <1>1, <1>2, <1>4, <1>5, <1>11, <1>12 DEF RemuxSound

LEMMA ReconnectStep ==
  ASSUME RemuxSound(mux, sender), NEW again \in 0 .. 2, Reconnect(again)
  PROVE  RemuxSound(mux', sender')
<1> DEFINE n == sender.n
<1> DEFINE d == sender.dts
<1> DEFINE e == [t \in Tracks |-> d[t] - again]
<1> DEFINE jumped == sender.jumps > 0
<1> DEFINE cut == sender.cuts > 0
<1> DEFINE s == Remux(mux, TRUE)
<1> DEFINE f == FlushStashedSamples(s)
<1> DEFINE normal == sender.mode # "hls"
<1> DEFINE r == [f EXCEPT !.normalize = normal]
<1>1. /\ SenderTyped(sender) /\ MuxSound(mux, n, d, jumped, cut)
      /\ sender.mode = "hls" => ~mux.normalize
  BY DEF RemuxSound
<1>2. /\ mux' = r /\ \A t \in Tracks : mux.t[t].meta
      /\ sender' = [sender EXCEPT !.cuts = @ + 1, !.dts = [t \in Tracks |-> @[t] - again]]
      /\ again > 0 => sender.mode = "live"
  BY DEF Reconnect
<1>3. \A t \in Tracks : n[t] \in Int /\ d[t] \in Int BY <1>1, SenderIs
<1>4. /\ sender'.n = n /\ sender'.dts = e /\ sender'.jumps = sender.jumps
      /\ sender'.cuts = sender.cuts + 1 /\ sender'.mode = sender.mode /\ DOMAIN sender' = DOMAIN sender
  BY <1>1, <1>2 DEF SenderTyped
<1>5. SenderTyped(sender') /\ (sender'.cuts > 0) = TRUE
  <2>1. e \in [Tracks -> Int] BY <1>3
  <2> HIDE DEF e
  <2> QED BY <1>1, <1>4, <2>1 DEF SenderTyped
<1>6. again = 0 => \A t \in Tracks : e[t] = d[t] BY <1>3
<1>7. ~normal => again = 0 BY <1>2
<1>8. jumped \in BOOLEAN
  OBVIOUS
<1>15. normal \in BOOLEAN /\ (~normal <=> sender.mode = "hls")
  OBVIOUS
<1> HIDE DEF n, d, e, cut, normal
<1>9. MuxSound(s, n, d, jumped, cut) /\ Remuxed(s, mux, TRUE)
  <2> HIDE DEF jumped
  <2> QED BY <1>1, <1>3, RemuxKeeps
<1> HIDE DEF s
<1>10. \A t \in Tracks : s.t[t].meta /\ s.t[t].pend = << >>
  BY <1>2, <1>9 DEF Remuxed
<1>11. /\ MuxSound(f, n, d, jumped, cut) /\ f.normalize = s.normalize
       /\ \A t \in Tracks : Holds(f.t[t]) = << >>
  <2> HIDE DEF jumped
  <2> QED BY <1>3, <1>9, <1>10, FlushStashedSamplesKeep
<1> HIDE DEF f
<1>12. /\ MuxTyped(r) /\ r.normalize = normal /\ r.t = f.t /\ r.out = f.out /\ r.base = f.base
       /\ r.offset = f.offset /\ r.pcmEnd = f.pcmEnd /\ r.pcmOut = f.pcmOut
  <2>1. MuxTyped(f) BY <1>11 DEF MuxSound
  <2>2. /\ DOMAIN r = MuxFields /\ r.normalize = normal /\ r.t = f.t /\ r.out = f.out /\ r.base = f.base
        /\ r.offset = f.offset /\ r.pcmEnd = f.pcmEnd /\ r.pcmOut = f.pcmOut
        /\ r.presentation = f.presentation /\ r.initialPresentation = f.initialPresentation
        /\ r.initialOutput = f.initialOutput
    BY <2>1 DEF MuxTyped, MuxFields
  <2> HIDE DEF r
  <2> QED BY <1>15, <2>1, <2>2 DEF MuxTyped
<1> HIDE DEF r
<1>13. ~normal => ~f.normalize BY <1>1, <1>9, <1>11, <1>15 DEF Remuxed
<1>14. MuxSound(r, n, e, jumped, TRUE)
  <2> HIDE DEF jumped
  <2> QED BY <1>6, <1>7, <1>8, <1>11, <1>12, <1>13, RestartKeeps, ZenonT(60)
<1> QED BY <1>1, <1>2, <1>4, <1>5, <1>12, <1>14, <1>15 DEF RemuxSound, jumped

LEMMA PcmStep ==
  ASSUME RemuxSound(mux, sender), MapPcmTimestamp
  PROVE  RemuxSound(mux', sender')
<1> DEFINE n == sender.n
<1> DEFINE d == sender.dts
<1> DEFINE jumped == sender.jumps > 0
<1> DEFINE cut == sender.cuts > 0
<1> DEFINE m == [n EXCEPT !["audio"] = @ + 1]
<1> DEFINE e == [d EXCEPT !["audio"] = @ + 1]
<1>1. /\ SenderTyped(sender) /\ MuxSound(mux, n, d, jumped, cut)
      /\ sender.mode = "hls" => ~mux.normalize
  BY DEF RemuxSound
<1>2. n \in [Tracks -> Int] /\ d \in [Tracks -> Int] /\ "audio" \in Tracks
  BY <1>1 DEF SenderTyped, Tracks
<1>3. mux.base \in Int
  BY <1>1 DEF MapPcmTimestamp, MuxSound, MuxTyped, Times
<1>4. /\ m \in [Tracks -> Int] /\ e \in [Tracks -> Int]
      /\ \A t \in Tracks : /\ n[t] \in Int /\ m[t] \in Int /\ m[t] >= n[t]
                           /\ d[t] \in Int /\ e[t] \in Int /\ e[t] >= d[t]
  BY <1>2
<1>5. sender' = [sender EXCEPT !.n["audio"] = @ + 1, !.dts["audio"] = @ + 1]
  BY DEF MapPcmTimestamp
<1>6. /\ sender'.n = m /\ sender'.dts = e /\ sender'.jumps = sender.jumps
      /\ sender'.cuts = sender.cuts /\ sender'.mode = sender.mode /\ DOMAIN sender' = DOMAIN sender
  BY <1>1, <1>5 DEF SenderTyped
<1>7. SenderTyped(sender')
  <2> HIDE DEF m, e
  <2> QED BY <1>1, <1>4, <1>6 DEF SenderTyped
<1> DEFINE pts == d["audio"]
<1> DEFINE id == n["audio"]
<1> DEFINE r == PcmPut(mux, pts, id)
<1>8. mux' = mux \/ mux' = r BY DEF MapPcmTimestamp, PcmEntry, PcmPut
<1>9. pts \in Int /\ id \in Int BY <1>2
<1> HIDE DEF n, d, m, e, pts, id, jumped, cut
<1>10. MuxSound(r, n, d, jumped, cut) /\ r.normalize = mux.normalize /\ r.base = mux.base
  BY <1>1, <1>3, <1>9, PcmKeeps
<1> HIDE DEF r
<1>11. MuxSound(mux', n, d, jumped, cut) /\ mux'.normalize = mux.normalize /\ mux'.base \in Int
  BY <1>1, <1>3, <1>8, <1>10
<1>12. MuxSound(mux', m, e, jumped, cut) BY <1>4, <1>11, MuxLater
<1> QED BY <1>1, <1>6, <1>7, <1>11, <1>12 DEF RemuxSound, jumped, cut

LEMMA RemuxStep ==
  RemuxSound(mux, sender) /\ [RemuxNext]_remuxVars => RemuxSound(mux, sender)'
<1> SUFFICES ASSUME RemuxSound(mux, sender), [RemuxNext]_remuxVars
             PROVE  RemuxSound(mux', sender')
  OBVIOUS
<1>1. ASSUME NEW t \in Tracks, Demuxed(t)
      PROVE  RemuxSound(mux', sender')
  BY <1>1, DemuxedStep
<1>2. ASSUME NEW t \in Tracks, OnTrackMetadataReceived(t)
      PROVE  RemuxSound(mux', sender')
  BY <1>2, MetadataStep
<1>3. CASE Batch BY <1>3, BatchStep
<1>4. CASE Seeked BY <1>4, SeekedStep
<1>5. CASE MapPcmTimestamp BY <1>5, PcmStep
<1>6. ASSUME NEW jump \in Jumps, Discontinuity(jump)
      PROVE  RemuxSound(mux', sender')
  BY <1>6, DiscontinuityStep
<1>7. ASSUME NEW again \in 0 .. 2, Reconnect(again)
      PROVE  RemuxSound(mux', sender')
  BY <1>7, ReconnectStep
<1>8. CASE UNCHANGED remuxVars BY <1>8 DEF remuxVars
<1> QED BY <1>1, <1>2, <1>3, <1>4, <1>5, <1>6, <1>7, <1>8 DEF RemuxNext

----------------------------------------------------------------------------
(* What a sound remuxer has put out                                        *)

\* The entries of a track from i on before j are those before j without those
\* before i.
Between(w, t, i, j) == Cardinality({k \in i .. j - 1 : w[k].t = t})

LEMMA BetweenIs ==
  ASSUME NEW w \in Seq(Outputs), NEW t, NEW i \in DOMAIN w, NEW j \in DOMAIN w, i < j
  PROVE  /\ Between(w, t, i, j) \in Nat /\ Before(w, t, i) \in Nat
         /\ Before(w, t, j) = Before(w, t, i) + Between(w, t, i, j)
<1> DEFINE A == {k \in 1 .. i - 1 : w[k].t = t}
<1> DEFINE B == {k \in i .. j - 1 : w[k].t = t}
<1> DEFINE C == {k \in 1 .. j - 1 : w[k].t = t}
<1>1. i \in Nat /\ j \in Nat /\ i >= 1
  OBVIOUS
<1>2. C = A \cup B /\ A \cap B = {} BY <1>1
<1>3. IsFiniteSet(A) /\ IsFiniteSet(B)
  <2>1. IsFiniteSet(1 .. i - 1) /\ IsFiniteSet(i .. j - 1)
    <3>1. i - 1 \in Int /\ j - 1 \in Int /\ i \in Int /\ 1 \in Int
      BY <1>1
    <3> QED BY <3>1, FS_Interval
  <2>2. A \subseteq 1 .. i - 1 /\ B \subseteq i .. j - 1
    OBVIOUS
  <2> HIDE DEF A, B
  <2> QED BY <2>1, <2>2, FS_Subset
<1>4. /\ Before(w, t, i) = Cardinality(A) /\ Before(w, t, j) = Cardinality(C)
      /\ Between(w, t, i, j) = Cardinality(B)
  BY DEF Before, Between
<1> HIDE DEF A, B, C
<1>5. Cardinality(A) \in Nat /\ Cardinality(B) \in Nat BY <1>3, FS_CardinalityType
<1>6. Cardinality(A \cup B) = Cardinality(A) + Cardinality(B) - Cardinality(A \cap B)
  BY <1>3, FS_Union
<1>7. Cardinality(A \cap B) = 0 BY <1>2, FS_EmptySet
<1>8. Cardinality(C) = Cardinality(A) + Cardinality(B) BY <1>2, <1>5, <1>6, <1>7
<1> QED BY <1>4, <1>5, <1>8

LEMMA SoundIsWhole ==
  RemuxSound(mux, sender) => RemuxedIsWhole
<1> SUFFICES ASSUME RemuxSound(mux, sender)
             PROVE  RemuxedIsWhole
  OBVIOUS
<1> DEFINE w == mux.out
<1>1. /\ SenderTyped(sender)
      /\ MuxTyped(mux) /\ Joined(w) /\ InTurn(w, sender.jumps > 0)
      /\ \A t \in Tracks : LaneSound(mux, t, sender.n[t], sender.dts[t], sender.jumps > 0, sender.cuts > 0)
  BY DEF RemuxSound, MuxSound
<1>2. w \in Seq(Outputs) /\ mux.offset \in Int BY <1>1 DEF MuxTyped
<1>3. NoHoles BY <1>1 DEF NoHoles, Follows, Joined, Ends
<1>4. EachSampleOnce BY <1>1 DEF EachSampleOnce, InTurn, SenderTyped
<1>5. NoDrift
  <2> SUFFICES ASSUME sender.cuts = 0, NEW i \in DOMAIN w, NEW j \in DOMAIN w,
                      i < j, w[i].t = w[j].t, w[i].t \in Tracks
               PROVE  2 * (w[j].dts - w[i].dts) - Between(w, w[i].t, i, j) * Ref[w[i].t] \in -1 .. 1
    BY DEF NoDrift, Between
  <2> DEFINE t == w[i].t
  <2> DEFINE from == 2 * mux.offset
  <2> DEFINE y == w[i].dts
  <2> DEFINE z == w[j].dts
  <2> DEFINE c == Before(w, t, i)
  <2> DEFINE e == Between(w, t, i, j)
  <2>1. Paced(w, t, from) BY <1>1 DEF LaneSound, OnPace
  <2>2. Before(w, t, j) = c + e /\ c \in Int /\ e \in Int BY <1>2, BetweenIs
  <2>3. y \in Int /\ z \in Int /\ from \in Int /\ Ref[t] \in Int
    <3>1. y \in Int /\ z \in Int BY <1>2, OutputsTyped
    <3>2. Ref[t] \in Int BY RemuxFacts
    <3> QED BY <1>2, <3>1, <3>2
  <2>4. (2 * y - from) - c * Ref[t] \in 0 .. 1 BY <2>1 DEF Paced
  <2>5. (2 * z - from) - Before(w, t, j) * Ref[t] \in 0 .. 1
    BY <2>1 DEF Paced
  <2> SUFFICES 2 * (z - y) - e * Ref[t] \in -1 .. 1
    OBVIOUS
  <2> HIDE DEF y, z, c, e, from
  <2> DEFINE g == c * Ref[t]
  <2> DEFINE l == e * Ref[t]
  <2>6. (c + e) * Ref[t] = g + l /\ g \in Int /\ l \in Int BY <2>2, <2>3, SumTimes
  <2>7. (2 * z - from) - (g + l) \in 0 .. 1 BY <2>2, <2>5, <2>6
  <2>8. (2 * y - from) - g \in 0 .. 1 BY <2>4
  <2> SUFFICES 2 * (z - y) - l \in -1 .. 1
    OBVIOUS
  <2> HIDE DEF g, l
  <2> QED BY <2>3, <2>6, <2>7, <2>8
<1> QED BY <1>3, <1>4, <1>5 DEF RemuxedIsWhole

\* The fragments form one timeline: however the sender's clock jumps and however
\* often it is reconnected, nothing is missing between two samples of a track,
\* none is put out twice, and rounding does not add up (MP4Remuxer).
THEOREM RemuxIsWhole == RemuxSpec => []RemuxedIsWhole
<1>1. RemuxInit => RemuxSound(mux, sender) BY RemuxStart
<1>2. RemuxSound(mux, sender) /\ [RemuxNext]_remuxVars => RemuxSound(mux, sender)'
  BY RemuxStep
<1>3. RemuxSound(mux, sender) => RemuxedIsWhole BY SoundIsWhole
<1> QED BY <1>1, <1>2, <1>3, PTL DEF RemuxSpec
=============================================================================
