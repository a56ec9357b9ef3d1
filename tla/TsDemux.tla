------------------------------ MODULE TsDemux -------------------------------
(***************************************************************************)
(* ts-demuxer.ts: MPEG-TS packets that may be lost or repeated, put        *)
(* together to video and audio samples.                                    *)
(*                                                                         *)
(* A PES packet travels in two TS packets: packet k of an elementary       *)
(* stream is slice k % 2 of unit k \div 2 and carries the continuity       *)
(* counter k % CC.  A video unit has no length (PES_packet_length = 0) and *)
(* is parsed when the next one starts; an audio unit has its length.  An   *)
(* audio unit ends in the first half of frame u, whose second half opens   *)
(* unit u + 1.  The sets Keys and Changes hold the units with a keyframe   *)
(* and those where the configuration of the stream changes.                *)
(*                                                                         *)
(* net is the transport, x the TSDemuxer object; x.out lists what it       *)
(* handed to its callbacks.                                                *)
(***************************************************************************)
EXTENDS Integers, Sequences, FiniteSets

CONSTANTS
  CC,            \* 16: continuity counters are four bits wide
  WRAP,          \* 2^33: timestamps are 33 bits wide
  Delay,         \* a unit is presented Delay after it is sent
  Keys, Changes,
  AudioChanges,
  VideoCodecs, AudioCodecs,
  TsUnits,       \* bound: units of each stream
  MaxLost,       \* bound: packets lost, repeated (see TsAssumption)
  MaxInRow,      \* bound: packets of a stream lost one after the other
  MaxBoundaries  \* bound: segment boundaries

(* A counter that has gone round cannot tell a loss: the packet after CC - 1 *)
(* lost in a row passes for a repeated one.  What is lost and the delay to   *)
(* presentation are shorter than half a round of the clock.                  *)
ASSUME TsAssumption ==
  /\ {CC, WRAP, Delay, TsUnits} \subseteq Nat \ {0}
  /\ {MaxLost, MaxInRow, MaxBoundaries} \subseteq Nat
  /\ {Keys, Changes, AudioChanges} \subseteq SUBSET Nat
  /\ AudioCodecs \subseteq {"aac", "loas", "ac3", "eac3", "mp3"}
  /\ MaxInRow + 1 < CC
  /\ 2 * Delay < WRAP /\ 2 * (MaxLost + 1) < WRAP

VARIABLES net, x
tsVars == <<net, x>>

Media == {"video", "audio"}
None == -1

(* What the encoder puts into unit u, sent at time At(u).                  *)
Config(u) == Cardinality({c \in Changes : c <= u})
AudioConfig(u) == Cardinality({c \in AudioChanges : c <= u})
At(u) == net.start + u
Pts(u) == At(u) + Delay

(* The fields of a new demuxer that waits for the first keyframe           *)
TsInit ==
  /\ net \in {[next |-> [m \in Media |-> 0], gap |-> [m \in Media |-> 0], start |-> s,
              lost |-> 0, cuts |-> 0, open |-> FALSE, hls |-> h] : s \in {0, WRAP - 3}, h \in BOOLEAN}
  /\ x \in {[pat |-> FALSE, section |-> 0, pmt |-> FALSE,
             video |-> v, audio |-> a,
             cc |-> [m \in Media |-> None], pes |-> [m \in Media |-> << >>],
             sized |-> [m \in Media |-> None],
             vps |-> None, sps |-> None, pps |-> None, details |-> None,
             vInit |-> FALSE, aInit |-> FALSE, changed |-> FALSE, aMeta |-> None,
             drop |-> TRUE, started |-> FALSE,
             carry |-> None, unsynced |-> FALSE,
             vTrack |-> << >>, aTrack |-> << >>,
             pcr |-> None, offset |-> 0, out |-> << >>] :
               v \in VideoCodecs, a \in AudioCodecs}

----------------------------------------------------------------------------
(* getPcrBase, getTimestamp: 33 bits to a growing time                     *)
GetPcrBase(s, t) ==
  LET base == (t % WRAP) + s.offset
      wraps == s.pcr # None /\ base + WRAP \div 2 < s.pcr
  IN  [s EXCEPT !.pcr = IF wraps THEN base + WRAP ELSE base,
                !.offset = IF wraps THEN @ + WRAP ELSE @]

GetTimestamp(s, t) ==
  LET ts == (t % WRAP) + s.offset
  IN  IF s.pcr # None /\ ts + WRAP \div 2 < s.pcr THEN ts + WRAP ELSE ts

----------------------------------------------------------------------------
(* Output to the remuxer                                                   *)
ShouldWaitForVideoKeyframe(s) == s.pmt /\ ~s.started
IsInitSegmentDispatched(s) == s.pmt /\ s.vInit /\ s.aInit
Emits(s, video, audio) ==
  IF ShouldWaitForVideoKeyframe(s) \/ ~IsInitSegmentDispatched(s) THEN s
  ELSE [s EXCEPT !.out = @ \o (IF video THEN s.vTrack ELSE << >>) \o (IF audio THEN s.aTrack ELSE << >>),
                 !.vTrack = IF video THEN << >> ELSE @, !.aTrack = IF audio THEN << >> ELSE @]

(* dispatchVideoMediaSegment, dispatchAudioMediaSegment, and both          *)
DispatchVideoMediaSegment(s) == Emits(s, TRUE, FALSE)
DispatchAudioMediaSegment(s) == Emits(s, FALSE, TRUE)
FlushMedia(s) == Emits(s, TRUE, TRUE)

DispatchVideoInitSegment(s) ==
  [s EXCEPT !.vInit = TRUE, !.changed = FALSE, !.out = Append(@, [k |-> "vinit", cfg |-> s.details])]
DispatchAudioInitSegment(s, cfg) ==
  [s EXCEPT !.aInit = TRUE, !.changed = FALSE, !.out = Append(@, [k |-> "ainit", cfg |-> cfg])]

(* How many losses of video the output has announced                       *)
Losses(s) == Cardinality({i \in DOMAIN s.out : s.out[i].k = "vdisc"})

----------------------------------------------------------------------------
(* Discontinuities                                                         *)
KeepsCarry(s) == [s EXCEPT !.unsynced = TRUE]  \* mutant: half a frame survives the gap
ResetAudioParserState(s) == [s EXCEPT !.carry = None, !.unsynced = TRUE]

ResumeVideoOutputFromKeyframe(s) ==
  ResetAudioParserState([s EXCEPT !.drop = FALSE, !.started = TRUE, !.aTrack = << >>])

HandleTrackDiscontinuity(s, m) ==
  LET cut == FlushMedia([s EXCEPT !.pes[m] = << >>, !.sized[m] = None])
  IN  IF m = "video"
      THEN ResetAudioParserState(
             [cut EXCEPT !.vTrack = << >>, !.aTrack = << >>, !.drop = TRUE, !.started = FALSE,
                         !.pes["audio"] = << >>, !.sized["audio"] = None,
                         !.out = Append(@, [k |-> "vdisc"])])
      ELSE ResetAudioParserState(cut)

(* shouldProcessPayload: the continuity counter of the packet p            *)
Duplicate(s, p) == ~p.flagged /\ s.cc[p.m] = p.cc
Gap(s, p) == p.flagged \/ (s.cc[p.m] # None /\ p.cc # (s.cc[p.m] + 1) % CC)

----------------------------------------------------------------------------
(* Parameter sets of a keyframe unit, in the order VPS, SPS, PPS           *)
DetectVideoMetadataChange(s, cfg) == s.details # cfg

StoreVpsAndSps(s, cfg) ==
  IF ~s.vInit
  THEN [s EXCEPT !.vps = IF s.video = "h265" THEN cfg ELSE None, !.sps = cfg, !.details = cfg]
  ELSE IF DetectVideoMetadataChange(s, cfg)
  THEN [s EXCEPT !.changed = TRUE, !.vps = None, !.sps = cfg, !.pps = None, !.details = cfg]
  ELSE s

StorePps(s, cfg) ==
  LET t == [s EXCEPT !.pps = cfg] IN
  IF s.vInit /\ ~s.changed THEN s
  ELSE IF s.video = "h265" /\ s.vps = None THEN t
  ELSE DispatchVideoInitSegment(IF s.changed THEN DispatchVideoMediaSegment(t) ELSE t)

VideoSample(s, slices) ==
  LET u == slices[1].u IN
  [k |-> "v", u |-> u, slices |-> slices, key |-> u \in Keys, cfg |-> Config(u),
   ts |-> GetTimestamp(s, Pts(u)), loss |-> Losses(s)]

(* parseH264Payload and parseH265Payload differ in the VPS only.           *)
ParseVideoPayload(s, slices) ==
  LET u == slices[1].u
      key == u \in Keys
      t == IF key THEN StorePps(StoreVpsAndSps(s, Config(u)), Config(u)) ELSE s
      waits == t.drop \/ ~t.started
      r == IF waits THEN ResumeVideoOutputFromKeyframe(t) ELSE t
  IN  IF (waits /\ ~(key /\ t.vInit)) \/ ~t.vInit THEN t
      ELSE [r EXCEPT !.vTrack = Append(@, VideoSample(r, slices))]

----------------------------------------------------------------------------
(* Audio payloads.  A new configuration is announced before its frames;    *)
(* only the AC-3 parsers remember it.                                      *)
DetectAudioMetadataChange(s, cfg) == s.aMeta # cfg
AnnounceAudio(s, cfg, remembers) ==
  IF ~s.aInit THEN DispatchAudioInitSegment([s EXCEPT !.aMeta = cfg], cfg)
  ELSE IF ~DetectAudioMetadataChange(s, cfg) THEN s
  ELSE DispatchAudioInitSegment([DispatchAudioMediaSegment(s) EXCEPT
                                   !.aMeta = IF remembers THEN cfg ELSE @], cfg)

AudioSample(s, head, u) == [k |-> "a", head |-> head, tail |-> u, loss |-> Losses(s)]

(* A parser with frames: what is left over opens the next payload.  A      *)
(* payload that begins within a frame is searched for the next header.     *)
ParseFrames(s, u, remembers) ==
  IF s.carry = None THEN [s EXCEPT !.carry = u]
  ELSE LET t == AnnounceAudio([s EXCEPT !.unsynced = FALSE], AudioConfig(s.carry), remembers)
       IN  [t EXCEPT !.aTrack = Append(@, AudioSample(t, s.carry, u)), !.carry = u]

ParseADTSAACPayload(s, u) == ParseFrames(s, u, FALSE)
ParseLOASAACPayload(s, u) == ParseFrames(s, u, FALSE)
ParseAC3Payload(s, u) == ParseFrames(s, u, TRUE)
ParseEAC3Payload(s, u) == ParseFrames(s, u, TRUE)

(* Without frames: the whole payload is one sample; after a gap it has to  *)
(* start with a sync word (the units of even number do).                   *)
ParseMP3Payload(s, u) ==
  IF s.unsynced /\ u % 2 = 1 THEN s
  ELSE LET t == AnnounceAudio([s EXCEPT !.unsynced = FALSE], AudioConfig(u), FALSE)
       IN  [t EXCEPT !.aTrack = Append(@, AudioSample(t, u, u + 1))]

ParseAudioPayload(s, slices) ==
  LET u == slices[1].u IN
  IF ~s.vInit \/ ShouldWaitForVideoKeyframe(s) THEN s
  ELSE CASE s.audio = "aac" -> ParseADTSAACPayload(s, u)
         [] s.audio = "loas" -> ParseLOASAACPayload(s, u)
         [] s.audio = "ac3" -> ParseAC3Payload(s, u)
         [] s.audio = "eac3" -> ParseEAC3Payload(s, u)
         [] s.audio = "mp3" -> ParseMP3Payload(s, u)

ParsePES(s, m, slices) ==
  IF slices = << >> \/ slices[1].i # 0 THEN s
  ELSE IF m = "video" THEN ParseVideoPayload(s, slices) ELSE ParseAudioPayload(s, slices)

----------------------------------------------------------------------------
(* emitPESSlices, clearSlices: the queue stays, without a length           *)
EmitPESSlices(s, m) == ParsePES([s EXCEPT !.pes[m] = << >>, !.sized[m] = None], m, s.pes[m])
ClearSlices(s, m) == [s EXCEPT !.pes[m] = << >>, !.sized[m] = None]

(* handlePESSlice: sized is the length the queue expects (0: until the     *)
(* next start; None: no queue, or one that was emitted or cleared).        *)
FinishPrevious(s, m) ==
  IF s.sized[m] = 0 \/ s.sized[m] = Len(s.pes[m]) THEN EmitPESSlices(s, m) ELSE ClearSlices(s, m)

HandlePESSlice(s, p) ==
  LET m == p.m
      open == IF p.slice.i = 0
              THEN [FinishPrevious(s, m) EXCEPT !.pes[m] = << >>,
                                                !.sized[m] = IF m = "video" THEN 0 ELSE 2]
              ELSE s
      t == [open EXCEPT !.pes[m] = Append(@, p.slice)]
  IN  IF open.sized[m] = None THEN open
      ELSE IF t.sized[m] > 0 /\ Len(t.pes[m]) = t.sized[m] THEN EmitPESSlices(t, m)
      ELSE IF t.sized[m] > 0 /\ Len(t.pes[m]) > t.sized[m] THEN ClearSlices(t, m)
      ELSE t

(* parseChunks: one packet of an elementary stream.  The first packet of a *)
(* video unit carries the PCR, which is read before its payload.           *)
ParsePacket(s, p) ==
  LET t == IF p.m = "video" /\ p.slice.i = 0 /\ s.pmt THEN GetPcrBase(s, At(p.slice.u)) ELSE s
      c == IF Gap(t, p) THEN HandleTrackDiscontinuity(t, p.m) ELSE t
  IN  IF ~s.pmt \/ Duplicate(t, p) THEN t
      ELSE HandlePESSlice([c EXCEPT !.cc[p.m] = p.cc], p)

Packet(m, k, flagged) ==
  [m |-> m, cc |-> k % CC, flagged |-> flagged, slice |-> [u |-> k \div 2, i |-> k % 2]]

----------------------------------------------------------------------------
(* The transport hands over the next packet of a stream.  A live stream    *)
(* (UDP) may lose it or hand over the last one again; the segments of a    *)
(* playlist come whole.                                                    *)
Sent(m) == net.next[m] < 2 * TsUnits
Receive(m) ==
  /\ Sent(m)
  /\ x' = ParsePacket(x, Packet(m, net.next[m], FALSE))
  /\ net' = [net EXCEPT !.next[m] = @ + 1, !.gap[m] = 0, !.open = TRUE]
Lose(m) ==
  /\ ~net.hls /\ Sent(m) /\ net.lost < MaxLost /\ net.gap[m] < MaxInRow
  /\ net' = [net EXCEPT !.next[m] = @ + 1, !.gap[m] = @ + 1, !.lost = @ + 1]
  /\ UNCHANGED x
Repeat(m) ==
  /\ ~net.hls /\ net.next[m] > 0 /\ net.lost < MaxLost
  /\ x' = ParsePacket(x, Packet(m, net.next[m] - 1, FALSE))
  /\ net' = [net EXCEPT !.gap[m] = 0, !.lost = @ + 1, !.open = TRUE]

(* The encoder says that the next packet does not continue the stream.     *)
Flagged(m) ==
  /\ ~net.hls /\ Sent(m) /\ net.lost < MaxLost
  /\ x' = ParsePacket(x, Packet(m, net.next[m], TRUE))
  /\ net' = [net EXCEPT !.next[m] = @ + 1, !.gap[m] = 0, !.lost = @ + 1, !.open = TRUE]

(* parsePAT, then parsePMT out of two section slices                       *)
ParsePAT == /\ ~x.pat
            /\ x' = [x EXCEPT !.pat = TRUE]
            /\ UNCHANGED net
HandleSectionSlice ==
  /\ x.pat /\ ~x.pmt /\ x.section = 0
  /\ x' = [x EXCEPT !.section = 1]
  /\ UNCHANGED net
ParsePMT ==
  /\ x.section = 1
  /\ x' = [x EXCEPT !.section = 0, !.pmt = TRUE]
  /\ UNCHANGED net

(* The end of a chunk: the remuxer takes the samples, or leaves them to    *)
(* grow to a batch.                                                        *)
ChunkEnd ==
  /\ net.open
  /\ x' \in {x, FlushMedia(x)}
  /\ net' = [net EXCEPT !.open = FALSE]

(* flushSegmentBoundary and resetSegmentBoundary: the stream goes on in    *)
(* another segment, or in another connection (which resets the audio too). *)
FlushSegmentBoundary(s) == FlushMedia(s)
ResetSegmentBoundary(s, resetAudio) ==
  LET t == [s EXCEPT !.pes = [m \in Media |-> << >>], !.sized = [m \in Media |-> None],
                     !.section = 0, !.cc = [m \in Media |-> None]]
  IN  IF resetAudio THEN ResetAudioParserState(t) ELSE t
Boundary ==
  /\ net.cuts < MaxBoundaries
  /\ \A m \in Media : net.next[m] % 2 = 0
  /\ x' = ResetSegmentBoundary(FlushSegmentBoundary(x), ~net.hls)
  /\ net' = [net EXCEPT !.cuts = @ + 1, !.open = FALSE]

TsNext ==
  \/ \E m \in Media : Receive(m) \/ Lose(m) \/ Repeat(m) \/ Flagged(m)
  \/ ParsePAT \/ HandleSectionSlice \/ ParsePMT
  \/ ChunkEnd \/ Boundary
TsSpec == TsInit /\ [][TsNext]_tsVars

----------------------------------------------------------------------------
(* Whatever packets are lost or repeated, no sample is made of slices of    *)
(* different units or of a unit that misses one, and no audio frame of the  *)
(* halves of two frames.                                                    *)
NoDamagedSample ==
  \A i \in DOMAIN x.out :
    LET o == x.out[i] IN
    /\ o.k = "v" => o.slices = <<[u |-> o.u, i |-> 0], [u |-> o.u, i |-> 1]>>
    /\ o.k = "a" => o.tail = o.head + 1

(* After a loss of video, and at the start, output resumes with a           *)
(* keyframe, and nothing that was collected before the loss comes after it. *)
ResumesAtKeyframe ==
  \A i \in DOMAIN x.out :
    LET o == x.out[i]
        since == {j \in 1 .. i - 1 : x.out[j].k = "v" /\ x.out[j].loss = o.loss}
    IN  o.k \in {"v", "a"} =>
          /\ o.loss = Cardinality({j \in 1 .. i - 1 : x.out[j].k = "vdisc"})
          /\ (o.k = "v" /\ since = {}) => o.key

(* A timestamp of 33 bits is turned into the time the encoder meant, across *)
(* the wrap, up to the wraps that passed before the stream was joined.      *)
TimestampsUnwrap ==
  \E passed \in 0 .. TsUnits :
    \A i \in DOMAIN x.out : x.out[i].k = "v" => x.out[i].ts = Pts(x.out[i].u) - passed * WRAP

(* A video sample is handed over under the configuration it was encoded in. *)
SamplesMatchInit ==
  \A i \in DOMAIN x.out :
    x.out[i].k = "v" =>
      \E j \in 1 .. i - 1 :
        /\ x.out[j].k = "vinit" /\ x.out[j].cfg = x.out[i].cfg
        /\ \A n \in j + 1 .. i - 1 : x.out[n].k # "vinit"

(* When no packet was lost, the video units of a stream come out without a  *)
(* gap.                                                                     *)
NoFrameMissing ==
  net.lost = 0 =>
    \A i, j \in DOMAIN x.out :
      (/\ x.out[i].k = "v" /\ x.out[j].k = "v" /\ i < j
       /\ \A n \in i + 1 .. j - 1 : x.out[n].k # "v")
      => x.out[j].u = x.out[i].u + 1

(* What leaves the demuxer after losses, boundaries and wraps is whole, can *)
(* be decoded from where it starts and is at its true time.                 *)
DemuxedIsClean == NoDamagedSample /\ ResumesAtKeyframe /\ TimestampsUnwrap
=============================================================================
