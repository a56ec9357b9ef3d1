------------------------------ MODULE Mp4Remux ------------------------------
(***************************************************************************)
(* mp4-remuxer.ts: demuxed samples with the timestamps of the sender,      *)
(* turned into fragments on one continuous output timeline.                *)
(*                                                                         *)
(* sender: the timestamp its next sample of a track will have, and how it  *)
(* is read: a playlist (hls), a list of files, or a live connection.  mux  *)
(* is the MP4Remuxer together with the demuxer's tracks (pend), which it   *)
(* empties.  Times are milliseconds; a nominal sample duration is counted  *)
(* in halves of one, so that durations have to be rounded.                 *)
(***************************************************************************)
EXTENDS Integers, Sequences, FiniteSets

CONSTANTS
  Ref,            \* nominal duration of a track's samples, in halves of a millisecond
  BatchDuration,  \* DEFAULT_MEDIA_SEGMENT_BATCH_DURATION_MS
  BatchLimit,     \* the limit of 512 KB, as a number of samples
  BaseOffsets,    \* timeline positions at which playback starts
  Jumps,          \* by how much the sender's clock jumps at a discontinuity
  MaxSamples,     \* bound: samples of each track
  MaxCuts,        \* bound: discontinuities, boundaries, seeks
  Undefined       \* a field without a value

(* A sample lasts at least a millisecond: what is shorter would be rounded *)
(* up to one each time.                                                    *)
ASSUME RemuxAssumption ==
  /\ Ref \in [{"video", "audio"} -> Nat \ {0, 1}]
  /\ Undefined \notin Int
  /\ {BatchDuration, MaxSamples, MaxCuts} \subseteq Nat /\ BatchLimit \in Nat \ {0}
  /\ BaseOffsets \subseteq Nat /\ Jumps \subseteq Int

VARIABLES sender, mux
remuxVars == <<sender, mux>>

Tracks == {"video", "audio"}

(* _createTrackTimingState and the fields of a track                       *)
Track == [pend |-> << >>, stash |-> << >>, next |-> Undefined, emitted |-> FALSE, meta |-> FALSE,
          lastDts |-> Undefined, lastEnd |-> Undefined, lastOut |-> Undefined, residual |-> 0]

RemuxInit ==
  /\ sender \in {[dts |-> [t \in Tracks |-> 10], n |-> [t \in Tracks |-> 0], cuts |-> 0, jumps |-> 0,
                  since |-> 0, mode |-> o] : o \in {"hls", "list", "live"}}
  /\ mux \in {[t |-> [t \in Tracks |-> Track], base |-> Undefined, offset |-> o, hasVideo |-> FALSE,
             presentation |-> Undefined, initialPresentation |-> Undefined, initialOutput |-> Undefined,
             silent |-> s, silentLast |-> Undefined, normalize |-> FALSE,
             pcmEnd |-> Undefined, pcmOut |-> Undefined, out |-> << >>] :
               o \in BaseOffsets, s \in BOOLEAN}

----------------------------------------------------------------------------
(* _calculateDtsBase: the first video sample anchors the timeline          *)
CalculateDtsBase(s) ==
  LET video == s.t["video"].pend IN
  LET first == IF video # << >> THEN video ELSE s.t["audio"].pend IN
  IF s.base # Undefined \/ first = << >> THEN s
  ELSE [s EXCEPT !.base = first[1].dts - s.offset, !.hasVideo = video # << >>]

(* _computeDtsCorrection: where the output of a batch starts               *)
LeavesHoles(s, t, original) ==  \* mutant: a forward jump of the sender is passed on
  IF s.t[t].next # Undefined THEN s.t[t].next
  ELSE IF s.t[t].lastEnd = Undefined THEN s.offset
  ELSE s.t[t].lastOut + original - s.t[t].lastEnd
OutputStart(s, t, original) ==
  LET timing == s.t[t]
      distance == original - timing.lastEnd
  IN  IF timing.next # Undefined THEN timing.next
      ELSE IF timing.lastEnd = Undefined THEN s.offset
      ELSE timing.lastOut + (IF distance > 0 THEN 0 ELSE distance)

(* _dropOverlappingTrackSamples: what a reconnected server sends again     *)
DropOverlapping(s, t, samples) ==
  LET new == {i \in DOMAIN samples : samples[i].dts - s.base > s.t[t].lastDts}
      first == CHOOSE i \in new : \A j \in new : i <= j
  IN  IF ~s.normalize \/ s.t[t].lastDts = Undefined THEN samples
      ELSE IF new = {} THEN << >> ELSE SubSeq(samples, first, Len(samples))

(* _nextSampleDuration: Math.round with the rest carried on                *)
NextSampleDuration(ref, residual) ==
  LET d == (ref + residual + 1) \div 2 IN IF d < 1 THEN 1 ELSE d

----------------------------------------------------------------------------
(* One sample of _remuxVideo, _remuxAudio: b.s is the remuxer, b.dts the   *)
(* output position, b.start the correction, b.mp4 the fragment.            *)
Drops(b, t, sample) ==
  \/ t = "audio" /\ sample.dts < b.s.base
  \/ t = "video" /\ LET floor == IF b.s.initialOutput = Undefined THEN b.s.offset ELSE b.s.initialOutput
                        pts == sample.dts - b.s.base + sample.cts
                                 - (IF b.s.normalize THEN b.correction ELSE 0) - b.s.presentation
                    IN  pts < floor

Anchor(b, t, sample) ==
  IF t = "audio" \/ b.s.presentation # Undefined THEN b
  ELSE LET p == sample.dts - b.s.base + sample.cts
                  - (IF b.s.normalize THEN b.correction ELSE 0) - b.dts
       IN  [b EXCEPT !.s.presentation = p,
                     !.s.initialPresentation = IF @ = Undefined THEN p ELSE @]

AddSample(b0, t, sample) ==
  LET b == Anchor(b0, t, sample)
      residual == b.s.t[t].residual
      d == NextSampleDuration(Ref[t], residual)
  IN  IF Drops(b, t, sample) THEN b
      ELSE [b EXCEPT !.mp4 = Append(@, [t |-> t, dts |-> b.dts, duration |-> d,
                                        original |-> sample.dts - b.s.base, id |-> sample.id]),
                     !.dts = @ + d,
                     !.s.t[t].residual = Ref[t] + residual - 2 * d,
                     !.s.initialOutput = IF t = "video" /\ @ = Undefined THEN b.dts ELSE @]

AddSamples(b, t, samples) ==
  LET added[i \in 0 .. Len(samples)] == IF i = 0 THEN b ELSE AddSample(added[i - 1], t, samples[i])
  IN  added[Len(samples)]

(* _generateSilentAudio: silence along the video fragment                  *)
GenerateSilentAudio(s, mp4) ==
  LET end == mp4[Len(mp4)].dts + mp4[Len(mp4)].duration
      from == IF s.silentLast = Undefined THEN mp4[1].dts ELSE s.silentLast
  IN  IF ~s.silent \/ ~s.t["audio"].meta THEN s
      ELSE [s EXCEPT !.silentLast = IF from < end THEN end ELSE from]

(* _recordTrackTiming and the rest of _remuxVideo, _remuxAudio             *)
EmitFragment(b, t) ==
  LET last == b.mp4[Len(b.mp4)]
      s == [b.s EXCEPT !.t[t].next = last.dts + last.duration,
                       !.t[t].lastDts = last.original,
                       !.t[t].lastEnd = last.original + last.duration,
                       !.t[t].lastOut = last.dts + last.duration,
                       !.t[t].emitted = TRUE,
                       !.out = @ \o b.mp4]
  IN  IF b.mp4 = << >> THEN b.s ELSE IF t = "video" THEN GenerateSilentAudio(s, b.mp4) ELSE s

(* _remuxVideo, _remuxAudio: without force the last sample waits for the   *)
(* next batch, since its duration is not known.                            *)
BatchSamples(s, t, force) ==
  s.t[t].stash \o SubSeq(s.t[t].pend, 1, Len(s.t[t].pend) - (IF force THEN 0 ELSE 1))

RemuxTrack(s, t, force) ==
  LET pend == s.t[t].pend
      taken == [s EXCEPT !.t[t].pend = << >>,
                         !.t[t].stash = IF force THEN << >> ELSE <<pend[Len(pend)]>>]
      samples == DropOverlapping(s, t, BatchSamples(s, t, force))
      original == samples[1].dts - s.base
      start == OutputStart(s, t, original)
  IN  IF ~s.t[t].meta \/ pend = << >> \/ (Len(pend) = 1 /\ ~force) THEN s
      ELSE IF samples = << >> THEN taken
      ELSE EmitFragment(AddSamples([s |-> taken, dts |-> start, correction |-> original - start, mp4 |-> << >>],
                                   t, samples), t)

(* isMediaBatchReady: enough bytes, or enough time                         *)
Span(pend) == IF Len(pend) < 2 THEN 0 ELSE pend[Len(pend)].dts - pend[1].dts
IsMediaBatchReady(s) ==
  \/ Len(s.t["video"].pend) + Len(s.t["audio"].pend) >= BatchLimit
  \/ \E t \in Tracks : s.t[t].pend # << >> /\ Span(s.t[t].pend) >= BatchDuration

(* remux                                                                   *)
Remux(s0, force) ==
  LET s == CalculateDtsBase(s0)
      wanted(t) == force \/ IsMediaBatchReady(s) \/ ~s.t[t].emitted
      v == IF wanted("video") THEN RemuxTrack(s, "video", force) ELSE s
  IN  IF s.base = Undefined THEN s
      ELSE IF wanted("audio") THEN RemuxTrack(v, "audio", force) ELSE v

(* flushStashedSamples                                                     *)
FlushStashed(s, t) ==
  LET r == RemuxTrack([s EXCEPT !.t[t].pend = s.t[t].stash, !.t[t].stash = << >>], t, TRUE)
  IN  [r EXCEPT !.t[t].pend = s.t[t].pend]
FlushStashedSamples(s) == FlushStashed(FlushStashed(s, "video"), "audio")

(* insertDiscontinuity                                                     *)
InsertDiscontinuity(s) ==
  [s EXCEPT !.t = [t \in Tracks |-> [@[t] EXCEPT !.next = Undefined, !.emitted = FALSE]],
            !.silentLast = Undefined, !.presentation = Undefined]

----------------------------------------------------------------------------
(* The sender: samples of a track, with a leading picture after the first. *)
Demuxed(t) ==
  /\ sender.n[t] < MaxSamples
  /\ mux' = [mux EXCEPT !.t[t].pend =
             Append(@, [dts |-> sender.dts[t], id |-> sender.n[t],
                        cts |-> IF t = "audio" THEN 0 ELSE IF sender.n[t] % 3 = 1 THEN 0 ELSE 3])]
  /\ sender' = [sender EXCEPT !.n[t] = @ + 1,
                      !.dts[t] = @ + (IF sender.n[t] % 2 = 0 THEN Ref[t] + 1 ELSE Ref[t]) \div 2]

(* _onTrackMetadataReceived                                                *)
OnTrackMetadataReceived(t) ==
  /\ ~mux.t[t].meta
  /\ mux' = [mux EXCEPT !.t[t].meta = TRUE, !.t[t].emitted = FALSE]
  /\ UNCHANGED sender

(* A chunk ends; the demuxer offers its tracks.                            *)
Batch == /\ \E t \in Tracks : mux.t[t].pend # << >>
         /\ \A t \in Tracks : mux.t[t].meta
         /\ mux' = Remux(mux, FALSE)
         /\ UNCHANGED sender

(* onTrackDiscontinuity: what was collected goes out, the rest is dropped, *)
(* and the sender's clock jumps.                                           *)
Discontinuity(jump) ==
  /\ sender.cuts < MaxCuts /\ \A t \in Tracks : mux.t[t].meta
  /\ mux' = LET s == Remux(mux, TRUE)
          IN  InsertDiscontinuity(FlushStashedSamples([s EXCEPT !.t = [t \in Tracks |-> [@[t] EXCEPT !.pend = << >>]]]))
  /\ sender' = [sender EXCEPT !.cuts = @ + 1, !.jumps = @ + 1, !.since = sender.n["video"],
                      !.dts = [t \in Tracks |-> @[t] + jump]]

(* _finishTsInputBoundary, then a reconnected server that sends the last   *)
(* samples again (continuous live) or the next segment or file.            *)
Reconnect(again) ==
  /\ sender.cuts < MaxCuts /\ \A t \in Tracks : mux.t[t].meta
  /\ again > 0 => sender.mode = "live"
  /\ mux' = [FlushStashedSamples(Remux(mux, TRUE)) EXCEPT !.normalize = sender.mode # "hls"]
  /\ sender' = [sender EXCEPT !.cuts = @ + 1, !.dts = [t \in Tracks |-> @[t] - again]]

(* onSeeked: a paused loader that asks for a range goes on at its byte.    *)
Seeked ==
  /\ sender.cuts < MaxCuts /\ sender.mode # "live"
  /\ mux' = InsertDiscontinuity(mux)
  /\ sender' = [sender EXCEPT !.cuts = @ + 1]

(* mapPcmTimestamp for decoded audio of one millisecond at time pts        *)
PcmTime(s, pts) ==
  LET original == pts - s.base
      floor == IF s.initialOutput = Undefined THEN 0 ELSE s.initialOutput
      start == original - (IF s.initialPresentation = Undefined THEN 0 ELSE s.initialPresentation)
      distance == original - s.pcmEnd
  IN  IF s.pcmEnd = Undefined THEN (IF start < floor THEN floor ELSE start)
      ELSE s.pcmOut + (IF distance > 0 THEN 0 ELSE distance)
PcmDropped(s, pts) ==
  LET floor == IF s.initialOutput = Undefined THEN 0 ELSE s.initialOutput
      start == pts - s.base - (IF s.initialPresentation = Undefined THEN 0 ELSE s.initialPresentation)
  IN  s.pcmEnd = Undefined /\ start + 1 <= floor
MapPcmTimestamp ==
  /\ mux.silent /\ mux.base # Undefined /\ sender.n["audio"] < MaxSamples
  /\ mux.pcmEnd = Undefined => ~mux.hasVideo \/ mux.initialOutput # Undefined
  /\ mux' = LET pts == sender.dts["audio"] IN
          IF PcmDropped(mux, pts) THEN mux
          ELSE [mux EXCEPT !.pcmEnd = pts - mux.base + 1, !.pcmOut = PcmTime(mux, pts) + 1,
                         !.out = Append(@, [t |-> "pcm", dts |-> PcmTime(mux, pts), duration |-> 1,
                                            original |-> pts - mux.base, id |-> sender.n["audio"]])]
  /\ sender' = [sender EXCEPT !.n["audio"] = @ + 1, !.dts["audio"] = @ + 1]

RemuxNext ==
  \/ \E t \in Tracks : Demuxed(t) \/ OnTrackMetadataReceived(t)
  \/ Batch \/ Seeked \/ MapPcmTimestamp
  \/ \E jump \in Jumps : Discontinuity(jump)
  \/ \E again \in 0 .. 2 : Reconnect(again)
RemuxSpec == RemuxInit /\ [][RemuxNext]_remuxVars

----------------------------------------------------------------------------
(* Sample j of a track is the one after sample i in the output.            *)
Follows(i, j) ==
  /\ i < j /\ mux.out[i].t = mux.out[j].t
  /\ \A k \in i + 1 .. j - 1 : mux.out[k].t # mux.out[i].t

(* The output of a track has no hole, however the sender's clock jumps: a   *)
(* fragment starts where the last one ended, or before it when the sender   *)
(* went back.                                                               *)
NoHoles ==
  \A i, j \in DOMAIN mux.out :
    Follows(i, j) => mux.out[j].dts <= mux.out[i].dts + mux.out[i].duration

(* Samples come out in the order they were demuxed, each at most once,      *)
(* across stashes, batches and flushes; of those that a reconnected server  *)
(* sends again none comes out twice.                                        *)
EachSampleOnce ==
  \A i, j \in DOMAIN mux.out :
    (i < j /\ mux.out[i].t = mux.out[j].t /\ mux.out[i].t \in Tracks) =>
      /\ mux.out[i].id < mux.out[j].id
      /\ sender.jumps = 0 => mux.out[i].original < mux.out[j].original

(* Rounding durations to whole milliseconds does not make the output drift  *)
(* from the nominal rate: from any sample to any later one it is off by     *)
(* less than a millisecond.                                                 *)
NoDrift ==
  sender.cuts = 0 =>
    \A i, j \in DOMAIN mux.out :
      (i < j /\ mux.out[i].t = mux.out[j].t /\ mux.out[i].t \in Tracks) =>
        LET t == mux.out[i].t
            samples == Cardinality({k \in i .. j - 1 : mux.out[k].t = t})
        IN  2 * (mux.out[j].dts - mux.out[i].dts) - samples * Ref[t] \in -1 .. 1

(* Output resumes after a discontinuity: once later samples of video were   *)
(* taken from the demuxer, one of them is on its way.                       *)
ResumesAfterDiscontinuity ==
  LET v == mux.t["video"] IN
  (sender.jumps > 0 /\ v.meta /\ sender.n["video"] > sender.since + 1 /\ v.pend = << >>) =>
    \E i \in DOMAIN mux.out : mux.out[i].t = "video" /\ mux.out[i].id >= sender.since

(* The fragments form one timeline: no holes, no drift, no sample twice.    *)
RemuxedIsWhole == NoHoles /\ NoDrift /\ EachSampleOnce
=============================================================================
