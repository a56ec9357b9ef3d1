-------------------------- MODULE ControllerProofs --------------------------
(***************************************************************************)
(* Theorems about the controller of the web player and its worker          *)
(* (PlaybackController over Pipeline).                                     *)
(*                                                                         *)
(* The invariant has three parts.  WorkerSound(s) is about the worker      *)
(* alone: at most one load loop is current, what it waits for, what the    *)
(* remuxer holds.  MainSound(x) is about the main thread alone.  The rest  *)
(* relates the two across the channels: which commands may be under way,   *)
(* and that the media segments in the worker's events, in the queue of     *)
(* appends and in the buffer are numbered without a hole.  The parts are   *)
(* stated of a worker s and a main thread x, so that a lemma says what one *)
(* function of the source does to them.                                    *)
(***************************************************************************)
EXTENDS PlaybackController, NaturalsInduction, WellFoundedInduction, FiniteSetTheorems, SequenceTheorems, TLAPS

----------------------------------------------------------------------------
(* The worker                                                              *)

Loads == 0 .. MaxLoads
StreamKinds == {"live", "list", "vod", "cmaf", "hidden", "junk"}

Event ==
  [type : {"media-info", "media-segment", "hls-info", "error", "init-segment", "complete", "pcm-audio-data"},
   gen : Loads, of : Loads, track : {"none", "video", "audio"}, n : Nat, ins : SUBSET Nat]
LoadLoop ==
  [run : Nat, load : Loads, kind : StreamKinds, i : Nat,
   pc : {"gate", "woken", "next", "init", "load", "settled"},
   k : {"top", "init", "seg"}, res : {"ok", "cancelled", "error"}]
Fetch ==
  [run : Nat, load : Loads, i : Nat, st : {"none", "connecting", "buffering", "text"},
   n : Nat, paused : BOOLEAN, fresh : BOOLEAN]
Decode == [current : BOOLEAN, of : Loads]

WorkerFields ==
  {"pipe", "made", "gen", "runId", "mode", "paused", "gate", "loops", "io", "fmp4", "initSent",
   "lastInit", "chunks", "tx", "stash", "inputs", "units", "decodes", "out"}
WorkerTyped(s) ==
  /\ DOMAIN s = WorkerFields
  /\ s.pipe \in {"none", "made", "on"}
  /\ s.made \in [load : Loads, kind : StreamKinds]
  /\ s.gen \in Loads /\ s.runId \in Nat
  /\ s.mode \in {"static", "continuous", "hls"} /\ s.paused \in BOOLEAN
  /\ s.loops \in SUBSET LoadLoop /\ s.io \in Fetch
  /\ s.decodes \in SUBSET Decode
  /\ s.inputs \in Nat /\ s.units \in Nat
  /\ s.out \in Seq(Event)

\* The load loop that is not superseded.
Current(s, l) == l \in s.loops /\ l.run = s.runId

\* Where a loop is inside a segment, and where it wants the init segment.
InSegment(l) == l.pc \in {"init", "load", "settled"} \/ (l.pc \in {"gate", "woken"} /\ l.k # "top")
WantsInit(l) == l.pc = "init" \/ (l.pc \in {"gate", "woken"} /\ l.k = "init")

LoopSound(s, l) ==
  /\ l.load = s.gen /\ s.pipe = "on"
  /\ InSegment(l) => l.i \in 1 .. Len(Segments(l.kind))
  /\ WantsInit(l) => l.kind = "cmaf"
  /\ l.pc = "gate" => s.gate = l.run /\ s.paused
  /\ s.stash # {} => l.pc \in {"load", "settled"} /\ Segments(l.kind)[l.i].fmt = "ts" /\ ~s.fmp4
  /\ s.chunks => l.kind = "cmaf"

LoopsSound(s) ==
  /\ \A l \in s.loops : l.run <= s.runId
  /\ \A l \in s.loops : l.run = s.runId => LoopSound(s, l)
  /\ \A l, o \in s.loops : l.run = s.runId /\ o.run = s.runId => l = o

\* The fetch in flight is the one the current loop waits for.
Awaits(s, l) ==
  /\ Current(s, l) /\ l.pc = "load" /\ l.run = s.io.run /\ l.load = s.io.load /\ l.i = s.io.i
  /\ s.io.st = "text" => l.kind = "hidden"
IoSound(s) == s.io = NoIo \/ \E l \in s.loops : Awaits(s, l)

PipeSound(s) ==
  /\ s.pipe # "on" => ~s.paused
  /\ s.pipe # "none" => s.gen >= 1
  /\ s.pipe = "made" => s.made.load = s.gen
  /\ \A d \in s.decodes : d.current => d.of = s.gen /\ s.pipe = "on"
  /\ s.stash \subseteq {s.inputs}

EventSound(s, e) ==
  /\ e.gen = e.of /\ 1 <= e.gen /\ e.gen <= s.gen
  /\ e.gen = s.gen => s.pipe # "made"
  /\ e.ins = {} \/ \E i \in Nat : e.ins = {i}
  /\ e.type = "media-segment" => e.track = "video"
  /\ e.type = "init-segment" => e.track # "none"
EventsSound(s) == \A i \in 1 .. Len(s.out) : EventSound(s, s.out[i])

WorkerSound(s) == WorkerTyped(s) /\ LoopsSound(s) /\ IoSound(s) /\ PipeSound(s) /\ EventsSound(s)

----------------------------------------------------------------------------
(* The main thread                                                         *)

Command ==
  [c : {"init", "start", "load", "pause", "resume", "reset"}, load : Loads, kind : StreamKinds \cup {"none"}]
Entry == [kind : {"init", "media"}, of : Loads, n : Nat]

MainFields ==
  {"gen", "cmds", "wInit", "segs", "inits", "throttle", "wm", "bf", "managed", "refuses", "disabled",
   "ms", "streaming", "sb", "pend", "rem", "full", "eos", "early", "parsed", "late", "app", "ahead",
   "back", "pcm", "fed"}
MainTyped(x) ==
  /\ DOMAIN x = MainFields
  /\ x.gen \in Loads /\ x.cmds \in Seq(Command) /\ x.wInit \in BOOLEAN
  /\ x.segs \in StreamKinds \cup {"none"} /\ x.inits \in Seq(Event)
  /\ x.ms \in {"none", "closed", "open", "ended", "dead"}
  /\ x.sb \in [MseTracks -> {"none", "idle", "init", "media", "remove"}]
  /\ x.pend \in [MseTracks -> Seq(Entry)]
  /\ x.app \in Seq([of : Loads, n : Nat]) /\ x.ahead \in 0 .. Cap
  /\ x.wm \in BOOLEAN /\ x.bf \in BOOLEAN

\* The states of the MediaSource: a stream is told to the worker when it opens.
StateSound(x) ==
  /\ x.segs # "none" <=> x.ms = "closed"
  /\ x.ms \in {"open", "ended", "dead"} => x.wInit
  /\ x.ms = "none" => ~x.wInit
  /\ x.ms = "closed" => x.gen >= 1
  /\ x.ms \in {"none", "closed"} => ~x.wm /\ ~x.bf /\ ~x.throttle

\* A paused worker has something left to be played down.
FlowSound(x) == (x.wm \/ x.bf) /\ x.ms \in {"open", "ended"} => x.ahead >= ResumeAt

\* Only the current stream is appended and fed; its queues hold no media of
\* another one.
QueuesSound(x) ==
  /\ \A t \in MseTracks : \A i \in 1 .. Len(x.pend[t]) :
       x.pend[t][i].kind = "media" => t = "video" /\ x.pend[t][i].of = x.gen
  /\ \A t \in MseTracks : t \in x.disabled => t \in x.refuses /\ x.pend[t] = << >>
  /\ \A i \in 1 .. Len(x.inits) : x.inits[i].track # "none"
  /\ \A i \in 1 .. Len(x.app) : x.app[i] = [of |-> x.gen, n |-> i]
  /\ \A p \in x.pcm : p.of = p.gen
  /\ x.fed \subseteq {x.gen}

MainSound(x) == MainTyped(x) /\ StateSound(x) /\ QueuesSound(x) /\ FlowSound(x)

----------------------------------------------------------------------------
(* The commands under way                                                  *)

\* The state of the worker's pipeline after a command, and the commands that
\* may come in a state.
PipeAfter(c) == IF c = "init" THEN "made" ELSE IF c = "reset" THEN "none" ELSE "on"
Allowed(p) ==
  IF p = "none" THEN {"init", "reset"}
  ELSE IF p = "made" THEN {"start"} ELSE {"load", "pause", "resume", "reset"}

PipeBefore(p, q, i) == IF i = 1 THEN p ELSE PipeAfter(q[i - 1].c)
PipeEnd(p, q) == PipeBefore(p, q, Len(q) + 1)
Obeys(p, q) == \A i \in 1 .. Len(q) : q[i].c \in Allowed(PipeBefore(p, q, i))

\* Commands that belong to a stream come in the order of the streams: after
\* stream g and up to stream b.
Dated(c) == c.c \in {"init", "load", "reset"}
LoadsRise(g, q, b) ==
  /\ \A i \in 1 .. Len(q) : Dated(q[i]) => g < q[i].load /\ q[i].load <= b
  /\ \A i, j \in 1 .. Len(q) : i < j /\ Dated(q[i]) /\ Dated(q[j]) => q[i].load < q[j].load
KindsKnown(q) == \A i \in 1 .. Len(q) : q[i].c \in {"init", "load"} => q[i].kind # "none"

LastLoad(x) == IF x.segs = "none" THEN x.gen ELSE x.gen - 1

ChannelSound(s, x) ==
  /\ Obeys(s.pipe, x.cmds)
  /\ PipeEnd(s.pipe, x.cmds) = IF x.wInit THEN "on" ELSE "none"
  /\ LoadsRise(s.gen, x.cmds, LastLoad(x))
  /\ KindsKnown(x.cmds)
  /\ s.gen <= x.gen
  /\ x.ms \in {"none", "closed"} => s.gen < x.gen \/ x.gen = 0

\* What the worker's pause flag will be when the commands are handled.
PausedEnd(p, q) == IF q = << >> THEN p ELSE q[Len(q)].c = "pause"
FlagsSound(s, x) ==
  x.ms \in {"open", "ended"} => (PausedEnd(s.paused, x.cmds) <=> (x.wm \/ x.bf))

----------------------------------------------------------------------------
(* The media segments                                                      *)

\* The worker plays the stream of the main thread.
Begun(s, x) == s.gen = x.gen /\ s.pipe = "on"

\* Nothing of the stream has come yet.
Untouched(x) ==
  /\ x.inits = << >> /\ x.early = {} /\ ~x.parsed /\ x.app = << >>
  /\ \A t \in MseTracks : x.sb[t] = "none" /\ x.pend[t] = << >>

MediaEvents(g) ==
  [type : {"media-segment"}, gen : {g}, of : Loads, track : {"none", "video", "audio"}, n : Nat, ins : SUBSET Nat]
MediaEntries == [kind : {"media"}, of : Loads, n : Nat]

\* The elements of q that are in K are numbered a + 1, ..., b.
Numbered(q, K, a, b) ==
  \E c \in [0 .. Len(q) -> Nat] :
    /\ c[0] = a /\ c[Len(q)] = b
    /\ \A i \in 1 .. Len(q) :
         IF q[i] \in K THEN c[i] = c[i - 1] + 1 /\ q[i].n = c[i] ELSE c[i] = c[i - 1]

SegmentsSent(s, x) == IF Begun(s, x) THEN s.units ELSE 0
NumbersSound(s, x) ==
  "video" \in x.disabled \/
    \E b \in Nat : /\ Numbered(x.pend["video"], MediaEntries, Len(x.app), b)
                   /\ Numbered(s.out, MediaEvents(x.gen), b, SegmentsSent(s, x))

----------------------------------------------------------------------------
(* The init segments                                                       *)

\* The tracks of a stream: their init segments come together.
BothTracks == {"video", "audio"}
TracksOf(kind) == IF kind = "cmaf" THEN {"video"} ELSE BothTracks

InitOf(e, g, t) == e.type = "init-segment" /\ e.gen = g /\ e.track = t
InfoOf(e, g) == e.type = "media-info" /\ e.gen = g
Batched(x, t) == \E i \in 1 .. Len(x.inits) : x.inits[i].track = t

\* The other half of a pair of init segments is the next that comes.
MateNext(q, g) ==
  \/ Len(q) >= 1 /\ InitOf(q[1], g, "audio")
  \/ Len(q) >= 2 /\ InfoOf(q[1], g) /\ InitOf(q[2], g, "audio")

\* In the events q of stream g the init segments of the two tracks come in
\* pairs, but for a pair that the batch in x has begun.
Paired(q, g, x) ==
  \A i \in 1 .. Len(q) :
    /\ InitOf(q[i], g, "video") =>
         i + 2 <= Len(q) /\ InfoOf(q[i + 1], g) /\ InitOf(q[i + 2], g, "audio")
    /\ InitOf(q[i], g, "audio") =>
         \/ i >= 3 /\ InitOf(q[i - 2], g, "video")
         \/ i <= 2 /\ Batched(x, "video") /\ (i = 2 => InfoOf(q[1], g))

BatchSound(q, x, T) ==
  IF T = {"video"}
    THEN /\ \A i \in 1 .. Len(q) : ~InitOf(q[i], x.gen, "audio")
         /\ ~Batched(x, "audio")
    ELSE /\ Paired(q, x.gen, x)
         /\ x.inits # << >> => Batched(x, "video")
         /\ Batched(x, "video") /\ ~Batched(x, "audio") => MateNext(q, x.gen)

\* The SourceBuffers of the tracks are created together.
Created(x, t) == x.sb[t] # "none" \/ t \in x.refuses
BuffersSound(x, T) ==
  x.ms = "open" =>
    /\ x.early \subseteq T
    /\ x.parsed \/ (\E t \in MseTracks : x.sb[t] # "none") => \A t \in T : Created(x, t)
    /\ CanAppend(x) => x.early = {}
    /\ x.early # {} => \A t \in T : Created(x, t) \/ t \in x.early

TracksSound(s, x, T) ==
  /\ s.gen = x.gen => \A l \in s.loops : l.run = s.runId => T = TracksOf(l.kind)
  /\ BatchSound(s.out, x, T)
  /\ BuffersSound(x, T)

----------------------------------------------------------------------------
\* The whole invariant.
Sound(s, x) ==
  /\ WorkerSound(s) /\ MainSound(x)
  /\ ChannelSound(s, x) /\ FlagsSound(s, x)
  /\ Begun(s, x) \/ Untouched(x)
  /\ NumbersSound(s, x)
  /\ ~x.late
  /\ \E T \in {{"video"}, BothTracks} : TracksSound(s, x, T)

----------------------------------------------------------------------------
(* Types                                                                   *)

LEMMA LoadsNatural == Loads \subseteq Nat /\ 0 \in Loads
<1>1. MaxLoads \in Nat BY ControllerAssumption
<1> QED BY <1>1 DEF Loads

LEMMA EventNatural ==
  ASSUME NEW e \in Event
  PROVE  e.gen \in Nat /\ e.of \in Nat
<1>1. e.gen \in Loads /\ e.of \in Loads BY DEF Event
<1> QED BY <1>1, LoadsNatural

\* Every set of numbers that is not empty has a least element: an induction
\* over a length looks at the least length that fails.
LEMMA LeastNumber ==
  ASSUME NEW S \in SUBSET Nat, S # {}
  PROVE  \E m \in S : \A k \in S : m <= k
<1> DEFINE R == OpToRel(<, Nat)
<1>1. IsWellFoundedOn(R, Nat) BY NatLessThanWellFounded
<1>2. \A k, m \in Nat : k < m => <<k, m>> \in R BY DEF OpToRel
<1> HIDE DEF R
<1>3. PICK m \in S : \A k \in S : ~(<<k, m>> \in R) BY <1>1, WFMin
<1>4. \A k \in S : ~(k < m) BY <1>2, <1>3
<1> QED BY <1>4

----------------------------------------------------------------------------
(* Numbered sequences                                                      *)

\* Nothing is numbered in the empty sequence.
LEMMA NumberedEmpty ==
  ASSUME NEW K, NEW a \in Nat
  PROVE  Numbered(<< >>, K, a, a)
<1> DEFINE c == [i \in 0 .. 0 |-> a]
<1>1. c \in [0 .. Len(<< >>) -> Nat] /\ c[0] = a /\ c[Len(<< >>)] = a
  OBVIOUS
<1>2. 1 .. Len(<< >>) = {}
  OBVIOUS
<1> HIDE DEF c
<1> QED BY <1>1, <1>2 DEF Numbered

LEMMA NumberedEmptyOnly ==
  ASSUME NEW K, NEW a, NEW b, Numbered(<< >>, K, a, b)
  PROVE  a = b
<1>1. Len(<< >>) = 0
  OBVIOUS
<1> QED BY <1>1 DEF Numbered

\* The next element is the next in number, or is not counted.
LEMMA NumberedAppend ==
  ASSUME NEW K, NEW S, NEW q \in Seq(S), NEW e \in S, NEW a, NEW b, Numbered(q, K, a, b),
         e \in K => e.n = b + 1
  PROVE  Numbered(Append(q, e), K, a, IF e \in K THEN b + 1 ELSE b)
<1> DEFINE r == Append(q, e)
           z == IF e \in K THEN b + 1 ELSE b
<1>1. PICK c \in [0 .. Len(q) -> Nat] :
        /\ c[0] = a /\ c[Len(q)] = b
        /\ \A i \in 1 .. Len(q) : IF q[i] \in K THEN c[i] = c[i - 1] + 1 /\ q[i].n = c[i] ELSE c[i] = c[i - 1]
  BY DEF Numbered
<1>2. Len(q) \in Nat /\ Len(r) = Len(q) + 1 /\ r[Len(q) + 1] = e /\ \A i \in 1 .. Len(q) : r[i] = q[i]
  OBVIOUS
<1>3. b \in Nat BY <1>1, <1>2
<1> DEFINE d == [i \in 0 .. Len(r) |-> IF i <= Len(q) THEN c[i] ELSE z]
<1>4. d \in [0 .. Len(r) -> Nat] BY <1>1, <1>2, <1>3
<1>5. d[0] = a /\ d[Len(r)] = z /\ d[Len(q)] = b /\ \A i \in 0 .. Len(q) : d[i] = c[i]
  BY <1>1, <1>2
<1> HIDE DEF r, z, d
<1>6. ASSUME NEW i \in 1 .. Len(r)
      PROVE  IF r[i] \in K THEN d[i] = d[i - 1] + 1 /\ r[i].n = d[i] ELSE d[i] = d[i - 1]
  <2>1. CASE i \in 1 .. Len(q)
    <3>1. i \in 0 .. Len(q) /\ i - 1 \in 0 .. Len(q) BY <2>1, <1>2
    <3> QED BY <2>1, <3>1, <1>1, <1>2, <1>5
  <2>2. CASE i = Len(q) + 1
    <3>1. i - 1 = Len(q) /\ r[i] = e /\ d[i] = z /\ d[i - 1] = b
      BY <2>2, <1>2, <1>5
    <3> QED BY <3>1 DEF z
  <2> QED BY <2>1, <2>2, <1>2
<1>7. Numbered(r, K, a, z) BY <1>4, <1>5, <1>6 DEF Numbered
<1> QED BY <1>7 DEF r, z

\* The first element takes its number with it.
LEMMA NumberedTail ==
  ASSUME NEW K, NEW S, NEW q \in Seq(S), q # << >>, NEW a, NEW b, Numbered(q, K, a, b)
  PROVE  /\ Head(q) \in K => Head(q).n = a + 1
         /\ Numbered(Tail(q), K, IF Head(q) \in K THEN a + 1 ELSE a, b)
<1> DEFINE r == Tail(q)
           y == IF Head(q) \in K THEN a + 1 ELSE a
<1>1. PICK c \in [0 .. Len(q) -> Nat] :
        /\ c[0] = a /\ c[Len(q)] = b
        /\ \A i \in 1 .. Len(q) : IF q[i] \in K THEN c[i] = c[i - 1] + 1 /\ q[i].n = c[i] ELSE c[i] = c[i - 1]
  BY DEF Numbered
<1>2. Len(q) \in Nat /\ Len(q) >= 1 /\ Head(q) = q[1] /\ Len(r) = Len(q) - 1 /\ \A i \in 1 .. Len(r) : r[i] = q[i + 1]
  <2>1. Len(q) \in Nat /\ Len(q) # 0
    OBVIOUS
  <2>2. Head(q) = q[1] /\ Len(r) = Len(q) - 1
    OBVIOUS
  <2>3. \A i \in 1 .. Len(r) : r[i] = q[i + 1] BY HeadTailProperties
  <2> QED BY <2>1, <2>2, <2>3
<1>3. 1 \in 1 .. Len(q) /\ 1 - 1 = 0 BY <1>2
<1>4. (Head(q) \in K => Head(q).n = a + 1) /\ c[1] = y BY <1>1, <1>2, <1>3
<1> DEFINE d == [i \in 0 .. Len(r) |-> c[i + 1]]
<1>5. d \in [0 .. Len(r) -> Nat] /\ d[0] = y /\ d[Len(r)] = b
  BY <1>1, <1>2, <1>4
<1>5a. \A i \in 0 .. Len(r) : d[i] = c[i + 1]
  OBVIOUS
<1> HIDE DEF r, y, d
<1>6. ASSUME NEW i \in 1 .. Len(r)
      PROVE  IF r[i] \in K THEN d[i] = d[i - 1] + 1 /\ r[i].n = d[i] ELSE d[i] = d[i - 1]
  <2>1. i + 1 \in 1 .. Len(q) /\ i - 1 \in 0 .. Len(r) /\ i \in 0 .. Len(r) /\ (i + 1) - 1 = i /\ (i - 1) + 1 = i
    BY <1>2
  <2>2. d[i] = c[i + 1] /\ d[i - 1] = c[i] /\ r[i] = q[i + 1]
    BY <2>1, <1>2, <1>5a
  <2>3. IF q[i + 1] \in K THEN c[i + 1] = c[(i + 1) - 1] + 1 /\ q[i + 1].n = c[i + 1] ELSE c[i + 1] = c[(i + 1) - 1]
    BY <2>1, <1>1
  <2> QED BY <2>1, <2>2, <2>3
<1>7. Numbered(r, K, y, b) BY <1>5, <1>6 DEF Numbered
<1> QED BY <1>4, <1>7 DEF r, y

\* A sequence in which nothing counts has no numbers.
LEMMA NumberedNone ==
  ASSUME NEW K, NEW q, Len(q) \in Nat, NEW a \in Nat, \A i \in 1 .. Len(q) : q[i] \notin K
  PROVE  Numbered(q, K, a, a)
<1> DEFINE c == [i \in 0 .. Len(q) |-> a]
<1>1. c \in [0 .. Len(q) -> Nat] /\ c[0] = a /\ c[Len(q)] = a /\ \A i \in 1 .. Len(q) : c[i] = a /\ c[i - 1] = a
  OBVIOUS
<1> HIDE DEF c
<1> QED BY <1>1 DEF Numbered

----------------------------------------------------------------------------
(* The channel of commands                                                 *)

\* Sending a command that its place allows.
LEMMA ObeysAppend ==
  ASSUME NEW p, NEW q \in Seq(Command), NEW c \in Command, Obeys(p, q), c.c \in Allowed(PipeEnd(p, q))
  PROVE  Obeys(p, Append(q, c)) /\ PipeEnd(p, Append(q, c)) = PipeAfter(c.c)
<1> DEFINE r == Append(q, c)
<1>1. Len(q) \in Nat /\ Len(r) = Len(q) + 1 /\ r[Len(q) + 1] = c /\ \A i \in 1 .. Len(q) : r[i] = q[i]
  OBVIOUS
<1> HIDE DEF r
<1>2. ASSUME NEW i \in 1 .. (Len(q) + 1)
      PROVE  PipeBefore(p, r, i) = PipeBefore(p, q, i)
  <2>1. i # 1 => i - 1 \in 1 .. Len(q) BY <1>1
  <2> QED BY <2>1, <1>1 DEF PipeBefore
<1>3. Len(q) + 1 \in 1 .. (Len(q) + 1) /\ \A i \in 1 .. (Len(q) + 1) : i \in 1 .. Len(q) \/ i = Len(q) + 1
  BY <1>1
<1>4. \A i \in 1 .. Len(q) : i \in 1 .. (Len(q) + 1) BY <1>1
<1>5. Obeys(p, r) BY <1>1, <1>2, <1>3, <1>4 DEF Obeys, PipeEnd
<1>6. PipeEnd(p, r) = PipeAfter(c.c)
  <2>1. Len(r) + 1 # 1 /\ (Len(r) + 1) - 1 = Len(q) + 1 BY <1>1
  <2> QED BY <2>1, <1>1 DEF PipeEnd, PipeBefore
<1> QED BY <1>5, <1>6 DEF r

\* Handling the first command.
LEMMA ObeysTail ==
  ASSUME NEW p, NEW q \in Seq(Command), q # << >>, Obeys(p, q)
  PROVE  /\ Head(q).c \in Allowed(p)
         /\ Obeys(PipeAfter(Head(q).c), Tail(q))
         /\ PipeEnd(PipeAfter(Head(q).c), Tail(q)) = PipeEnd(p, q)
<1> DEFINE r == Tail(q)
           t == PipeAfter(Head(q).c)
<1>1. Len(q) \in Nat /\ Len(q) >= 1 /\ Head(q) = q[1] /\ Len(r) = Len(q) - 1 /\ \A i \in 1 .. Len(r) : r[i] = q[i + 1]
  <2>1. Len(q) \in Nat /\ Len(q) # 0
    OBVIOUS
  <2>2. Head(q) = q[1] /\ Len(r) = Len(q) - 1
    OBVIOUS
  <2>3. \A i \in 1 .. Len(r) : r[i] = q[i + 1] BY HeadTailProperties
  <2> QED BY <2>1, <2>2, <2>3
<1> HIDE DEF r
<1>2. ASSUME NEW i \in 1 .. (Len(r) + 1)
      PROVE  PipeBefore(t, r, i) = PipeBefore(p, q, i + 1)
  <2>1. CASE i = 1
    <3>1. i + 1 # 1 /\ (i + 1) - 1 = 1 BY <2>1
    <3> QED BY <2>1, <3>1, <1>1 DEF PipeBefore
  <2>2. CASE i # 1
    <3>1. i + 1 # 1 /\ (i + 1) - 1 = i /\ i - 1 \in 1 .. Len(r) /\ (i - 1) + 1 = i
      BY <2>2, <1>1
    <3>2. r[i - 1] = q[i] BY <3>1, <1>1
    <3> QED BY <2>2, <3>1, <3>2 DEF PipeBefore
  <2> QED BY <2>1, <2>2
<1>3. Head(q).c \in Allowed(p)
  <2>1. 1 \in 1 .. Len(q) BY <1>1
  <2> QED BY <2>1, <1>1 DEF Obeys, PipeBefore
<1>4. Obeys(t, r)
  <2> SUFFICES ASSUME NEW i \in 1 .. Len(r)
               PROVE  r[i].c \in Allowed(PipeBefore(t, r, i))
    BY DEF Obeys
  <2>1. i + 1 \in 1 .. Len(q) /\ i \in 1 .. (Len(r) + 1) BY <1>1
  <2>2. q[i + 1].c \in Allowed(PipeBefore(p, q, i + 1)) /\ r[i] = q[i + 1]
    BY <2>1, <1>1 DEF Obeys
  <2> QED BY <2>1, <2>2, <1>2
<1>5. PipeEnd(t, r) = PipeEnd(p, q)
  <2>1. Len(r) + 1 \in 1 .. (Len(r) + 1) /\ (Len(r) + 1) + 1 = Len(q) + 1
    BY <1>1
  <2> QED BY <2>1, <1>2 DEF PipeEnd
<1> QED BY <1>3, <1>4, <1>5 DEF r

----------------------------------------------------------------------------
(* The segments of a stream                                                *)

\* Only an fMP4 stream has init segments, and it has nothing else.
LEMMA SegmentFacts ==
  ASSUME NEW kind \in StreamKinds
  PROVE  /\ Len(Segments(kind)) \in 1 .. 2
         /\ kind \in {"live", "hidden", "junk"} => Len(Segments(kind)) = 1
         /\ \A i \in 1 .. Len(Segments(kind)) :
              /\ Segments(kind)[i].fmt = "ts" => kind # "cmaf"
              /\ Segments(kind)[i].fmt = "fmp4" => kind = "cmaf"
              /\ Segments(kind)[i].init # 0 => kind = "cmaf"
              /\ Segments(kind)[i].fmt = "playlist" => kind = "hidden"
<1>1. CASE kind = "live" BY <1>1 DEF Segments, Segment
<1>2. CASE kind = "list" BY <1>2 DEF Segments, Segment
<1>3. CASE kind = "vod" BY <1>3 DEF Segments, Segment
<1>4. CASE kind = "cmaf" BY <1>4 DEF Segments, Segment
<1>5. CASE kind = "hidden" BY <1>5 DEF Segments, Segment
<1>6. CASE kind = "junk" BY <1>6 DEF Segments, Segment
<1> QED BY <1>1, <1>2, <1>3, <1>4, <1>5, <1>6 DEF StreamKinds

----------------------------------------------------------------------------
(* Init segments among the events                                          *)

\* An event that is no init segment of the stream.
LEMMA BatchOther ==
  ASSUME NEW S, NEW q \in Seq(S), NEW e \in S, NEW x, NEW T, BatchSound(q, x, T),
         \A t \in BothTracks : ~InitOf(e, x.gen, t)
  PROVE  BatchSound(Append(q, e), x, T)
<1> DEFINE r == Append(q, e)
           n == Len(q)
<1>1. n \in Nat /\ Len(r) = n + 1 /\ r[n + 1] = e /\ \A i \in 1 .. n : r[i] = q[i]
  OBVIOUS
<1>2. \A i \in 1 .. Len(r) : i \in 1 .. n \/ i = n + 1 BY <1>1
<1> HIDE DEF r, n
<1>e. ~InitOf(e, x.gen, "video") /\ ~InitOf(e, x.gen, "audio")
  BY DEF BothTracks
<1>3. CASE T = {"video"} BY <1>1, <1>2, <1>3, <1>e DEF BatchSound, n, r
<1>4. CASE T # {"video"}
  <2>0. Paired(q, x.gen, x) BY <1>4 DEF BatchSound
  <2>1. Paired(r, x.gen, x)
    <3> SUFFICES ASSUME NEW i \in 1 .. Len(r)
                 PROVE  /\ InitOf(r[i], x.gen, "video") =>
                             i + 2 <= Len(r) /\ InfoOf(r[i + 1], x.gen) /\ InitOf(r[i + 2], x.gen, "audio")
                        /\ InitOf(r[i], x.gen, "audio") =>
                             \/ i >= 3 /\ InitOf(r[i - 2], x.gen, "video")
                             \/ i <= 2 /\ Batched(x, "video") /\ (i = 2 => InfoOf(r[1], x.gen))
      BY DEF Paired
    <3>1. CASE i = n + 1 BY <3>1, <1>1, <1>e
    <3>2. CASE i \in 1 .. n
      <4>1. InitOf(q[i], x.gen, "video") =>
              i + 2 <= n /\ InfoOf(q[i + 1], x.gen) /\ InitOf(q[i + 2], x.gen, "audio")
        BY <3>2, <2>0 DEF Paired, n
      <4>2. InitOf(q[i], x.gen, "audio") =>
              \/ i >= 3 /\ InitOf(q[i - 2], x.gen, "video")
              \/ i <= 2 /\ Batched(x, "video") /\ (i = 2 => InfoOf(q[1], x.gen))
        BY <3>2, <2>0 DEF Paired, n
      <4>3. i + 2 <= n => i + 1 \in 1 .. n /\ i + 2 \in 1 .. n BY <3>2, <1>1
      <4>4. (i >= 3 => i - 2 \in 1 .. n) /\ 1 \in 1 .. n BY <3>2, <1>1
      <4> QED BY <3>2, <4>1, <4>2, <4>3, <4>4, <1>1
    <3> QED BY <3>1, <3>2, <1>2
  <2>2. MateNext(q, x.gen) => MateNext(r, x.gen)
    <3>1. (n >= 1 => r[1] = q[1]) /\ (n >= 2 => r[2] = q[2]) /\ Len(r) >= n
      BY <1>1
    <3> QED BY <3>1, <1>1 DEF MateNext, n
  <2> QED BY <1>4, <2>1, <2>2 DEF BatchSound, r
<1> QED BY <1>3, <1>4 DEF r

\* An init segment of a stream without audio.
LEMMA BatchVideo ==
  ASSUME NEW S, NEW q \in Seq(S), NEW e \in S, NEW x, BatchSound(q, x, {"video"}),
         ~InitOf(e, x.gen, "audio")
  PROVE  BatchSound(Append(q, e), x, {"video"})
<1> DEFINE r == Append(q, e)
           n == Len(q)
<1>1. n \in Nat /\ Len(r) = n + 1 /\ r[n + 1] = e /\ \A i \in 1 .. n : r[i] = q[i]
  OBVIOUS
<1>2. \A i \in 1 .. Len(r) : i \in 1 .. n \/ i = n + 1 BY <1>1
<1> HIDE DEF r, n
<1>3. BatchSound(r, x, {"video"}) BY <1>1, <1>2 DEF BatchSound, n
<1> QED BY <1>3 DEF r

\* A pair of init segments.
LEMMA BatchPair ==
  ASSUME NEW S, NEW q \in Seq(S), NEW v \in S, NEW i2 \in S, NEW a \in S, NEW x, BatchSound(q, x, BothTracks),
         InitOf(v, x.gen, "video"), InfoOf(i2, x.gen), InitOf(a, x.gen, "audio")
  PROVE  BatchSound(Append(Append(Append(q, v), i2), a), x, BothTracks)
<1> DEFINE q1 == Append(q, v)
           q2 == Append(q1, i2)
           r == Append(q2, a)
           n == Len(q)
<1>1. n \in Nat /\ Len(r) = n + 3 /\ r[n + 1] = v /\ r[n + 2] = i2 /\ r[n + 3] = a /\ \A i \in 1 .. n : r[i] = q[i]
  <2>1. q1 \in Seq(S) /\ Len(q1) = n + 1 /\ q1[n + 1] = v /\ n \in Nat /\ \A i \in 1 .. n : q1[i] = q[i]
    OBVIOUS
  <2> HIDE DEF q1, n
  <2>2. q2 \in Seq(S) /\ Len(q2) = n + 2 /\ q2[n + 2] = i2 /\ \A i \in 1 .. (n + 1) : q2[i] = q1[i]
    BY <2>1
  <2> HIDE DEF q2
  <2>3. Len(r) = n + 3 /\ r[n + 3] = a /\ \A i \in 1 .. (n + 2) : r[i] = q2[i]
    BY <2>1, <2>2
  <2> HIDE DEF r
  <2>4. n + 1 \in 1 .. (n + 1) /\ n + 1 \in 1 .. (n + 2) /\ n + 2 \in 1 .. (n + 2)
        /\ \A i \in 1 .. n : i \in 1 .. (n + 1) /\ i \in 1 .. (n + 2)
    BY <2>1
  <2> QED BY <2>1, <2>2, <2>3, <2>4
<1>2. \A i \in 1 .. Len(r) : i \in 1 .. n \/ i = n + 1 \/ i = n + 2 \/ i = n + 3
  BY <1>1
<1> HIDE DEF r, n, q1, q2
<1>e. "audio" # "video" /\ BothTracks # {"video"} /\ "media-info" # "init-segment"
  BY DEF BothTracks
<1>f. /\ ~InitOf(v, x.gen, "audio") /\ ~InitOf(a, x.gen, "video")
      /\ ~InitOf(i2, x.gen, "video") /\ ~InitOf(i2, x.gen, "audio")
  BY <1>e DEF InitOf, InfoOf
<1>4. Paired(q, x.gen, x) BY <1>e DEF BatchSound
<1>5. Paired(r, x.gen, x)
  <2> SUFFICES ASSUME NEW i \in 1 .. Len(r)
               PROVE  /\ InitOf(r[i], x.gen, "video") =>
                           i + 2 <= Len(r) /\ InfoOf(r[i + 1], x.gen) /\ InitOf(r[i + 2], x.gen, "audio")
                      /\ InitOf(r[i], x.gen, "audio") =>
                           \/ i >= 3 /\ InitOf(r[i - 2], x.gen, "video")
                           \/ i <= 2 /\ Batched(x, "video") /\ (i = 2 => InfoOf(r[1], x.gen))
    BY DEF Paired
  <2>1. CASE i = n + 1
    <3>1. i + 2 <= Len(r) /\ i + 1 = n + 2 /\ i + 2 = n + 3 BY <2>1, <1>1
    <3> QED BY <2>1, <3>1, <1>1, <1>f
  <2>2. CASE i = n + 2 BY <2>2, <1>1, <1>f
  <2>3. CASE i = n + 3
    <3>1. i >= 3 /\ i - 2 = n + 1 BY <2>3, <1>1
    <3> QED BY <2>3, <3>1, <1>1, <1>f
  <2>4. CASE i \in 1 .. n
    <3>1. InitOf(q[i], x.gen, "video") =>
            i + 2 <= n /\ InfoOf(q[i + 1], x.gen) /\ InitOf(q[i + 2], x.gen, "audio")
      BY <2>4, <1>4 DEF Paired, n
    <3>2. InitOf(q[i], x.gen, "audio") =>
            \/ i >= 3 /\ InitOf(q[i - 2], x.gen, "video")
            \/ i <= 2 /\ Batched(x, "video") /\ (i = 2 => InfoOf(q[1], x.gen))
      BY <2>4, <1>4 DEF Paired, n
    <3>3. i + 2 <= n => i + 1 \in 1 .. n /\ i + 2 \in 1 .. n /\ i + 2 <= Len(r)
      BY <2>4, <1>1
    <3>4. (i >= 3 => i - 2 \in 1 .. n) /\ 1 \in 1 .. n BY <2>4, <1>1
    <3> QED BY <2>4, <3>1, <3>2, <3>3, <3>4, <1>1
  <2> QED BY <1>2, <2>1, <2>2, <2>3, <2>4
<1>6. MateNext(q, x.gen) => MateNext(r, x.gen)
  <2>1. (n >= 1 => r[1] = q[1]) /\ (n >= 2 => r[2] = q[2]) /\ Len(r) >= n
    BY <1>1
  <2> QED BY <2>1, <1>1 DEF MateNext, n
<1>7. BatchSound(r, x, BothTracks) BY <1>5, <1>6, <1>e DEF BatchSound
<1> QED BY <1>7 DEF r, q2, q1

----------------------------------------------------------------------------
(* What the worker posts                                                   *)

\* t is the worker s but for its events.
Like(s, t) ==
  /\ DOMAIN t = WorkerFields
  /\ t.pipe = s.pipe /\ t.made = s.made /\ t.gen = s.gen /\ t.runId = s.runId /\ t.mode = s.mode
  /\ t.paused = s.paused /\ t.gate = s.gate /\ t.loops = s.loops /\ t.io = s.io /\ t.fmp4 = s.fmp4
  /\ t.initSent = s.initSent /\ t.lastInit = s.lastInit /\ t.chunks = s.chunks /\ t.tx = s.tx
  /\ t.stash = s.stash /\ t.inputs = s.inputs /\ t.decodes = s.decodes

\* What the events of t mean to the main thread x is what those of s mean.
Keeps(s, t, x, T) ==
  /\ t.gen = s.gen /\ t.pipe = s.pipe /\ t.paused = s.paused
  /\ NumbersSound(s, x) => NumbersSound(t, x)
  /\ BatchSound(s.out, x, T) => BatchSound(t.out, x, T)

LEMMA KeepsTransitive ==
  ASSUME NEW s, NEW t, NEW u, NEW x, NEW T, Keeps(s, t, x, T), Keeps(t, u, x, T)
  PROVE  Keeps(s, u, x, T)
BY DEF Keeps

\* The worker stays sound if only its events change and they stay sound.
LEMMA LikeSound ==
  ASSUME NEW s, NEW t, WorkerSound(s), Like(s, t), t.units \in Nat, t.out \in Seq(Event), EventsSound(t)
  PROVE  WorkerSound(t)
<1>1. WorkerTyped(t) BY DEF WorkerSound, WorkerTyped, Like
<1>2. LoopsSound(t) BY DEF WorkerSound, LoopsSound, LoopSound, Like
<1>3. IoSound(t)
  BY DEF WorkerSound, IoSound, Awaits, Current, Like
<1>4. PipeSound(t) BY DEF WorkerSound, PipeSound, Like
<1> QED BY <1>1, <1>2, <1>3, <1>4 DEF WorkerSound

\* Posting from the current stream.
Speaks(s, load) == load = s.gen /\ s.pipe # "made" /\ s.gen >= 1

LEMMA PostIs ==
  ASSUME NEW s, WorkerSound(s), NEW load, Speaks(s, load), NEW type, NEW ins, NEW track, NEW e,
         e = [type |-> type, gen |-> s.gen, of |-> load, track |-> track, n |-> s.units, ins |-> ins],
         type \in {"media-info", "media-segment", "hls-info", "error", "init-segment", "complete", "pcm-audio-data"},
         track \in {"none", "video", "audio"}, ins \in SUBSET Nat, ins = {} \/ \E i \in Nat : ins = {i},
         type = "media-segment" => track = "video", type = "init-segment" => track # "none"
  PROVE  LET t == Post(s, type, load, ins, track)
         IN  /\ e \in Event /\ s.out \in Seq(Event) /\ t.out = Append(s.out, e) /\ t.units = s.units
             /\ Like(s, t) /\ WorkerSound(t)
<1> DEFINE t == Post(s, type, load, ins, track)
<1>1. /\ DOMAIN s = WorkerFields /\ s.gen \in Loads /\ s.units \in Nat /\ s.out \in Seq(Event)
      /\ EventsSound(s)
  BY DEF WorkerSound, WorkerTyped
<1>2. e \in Event BY <1>1 DEF Event, Speaks
<1>3. t.out = Append(s.out, e) /\ t.units = s.units /\ Like(s, t)
  BY <1>1 DEF Post, Like, WorkerFields
<1>4. t.out \in Seq(Event) BY <1>1, <1>2, <1>3
<1>5. EventSound(t, e)
  BY <1>1, <1>3 DEF EventSound, Speaks, Like, Loads
<1> HIDE DEF t
<1>6. EventsSound(t)
  <2> SUFFICES ASSUME NEW i \in 1 .. Len(t.out)
               PROVE  EventSound(t, t.out[i])
    BY DEF EventsSound
  <2>1. CASE i = Len(s.out) + 1
    <3>1. t.out[i] = e BY <2>1, <1>1, <1>2, <1>3
    <3> QED BY <3>1, <1>5
  <2>2. CASE i \in 1 .. Len(s.out)
    <3>1. t.out[i] = s.out[i] BY <2>2, <1>1, <1>2, <1>3
    <3>2. EventSound(s, s.out[i]) BY <2>2, <1>1 DEF EventsSound
    <3> QED BY <3>1, <3>2, <1>3 DEF EventSound, Like
  <2> QED BY <2>1, <2>2, <1>1, <1>2, <1>3
<1>7. WorkerSound(t) BY <1>1, <1>3, <1>4, <1>6, LikeSound
<1> QED BY <1>1, <1>2, <1>3, <1>7 DEF t

\* An event that is no media segment leaves the numbering alone.
LEMMA NumbersOther ==
  ASSUME NEW s, NEW t, NEW e \in Event, s.out \in Seq(Event), NEW x, t.out = Append(s.out, e), t.units = s.units,
         t.gen = s.gen, t.pipe = s.pipe, NumbersSound(s, x), e.type # "media-segment"
  PROVE  NumbersSound(t, x)
<1>1. CASE "video" \in x.disabled BY <1>1 DEF NumbersSound
<1>2. CASE "video" \notin x.disabled
  <2>1. PICK b \in Nat : /\ Numbered(x.pend["video"], MediaEntries, Len(x.app), b)
                         /\ Numbered(s.out, MediaEvents(x.gen), b, SegmentsSent(s, x))
    BY <1>2 DEF NumbersSound
  <2>2. e \notin MediaEvents(x.gen) BY DEF MediaEvents
  <2>3. Numbered(t.out, MediaEvents(x.gen), b, SegmentsSent(s, x))
    BY <2>1, <2>2, NumberedAppend
  <2>4. SegmentsSent(t, x) = SegmentsSent(s, x) BY DEF SegmentsSent, Begun
  <2> QED BY <2>1, <2>3, <2>4 DEF NumbersSound
<1> QED BY <1>1, <1>2

\* Anything but a media or an init segment is posted.
LEMMA PostOther ==
  ASSUME NEW s, WorkerSound(s), NEW load, Speaks(s, load),
         NEW type \in {"media-info", "hls-info", "error", "complete", "pcm-audio-data"},
         NEW track \in {"none", "audio"}, NEW x, NEW T
  PROVE  LET t == Post(s, type, load, {}, track)
         IN  WorkerSound(t) /\ Like(s, t) /\ t.units = s.units /\ Keeps(s, t, x, T)
<1> DEFINE t == Post(s, type, load, {}, track)
           e == [type |-> type, gen |-> s.gen, of |-> load, track |-> track, n |-> s.units, ins |-> {}]
<1>1. /\ e \in Event /\ s.out \in Seq(Event) /\ t.out = Append(s.out, e) /\ t.units = s.units
      /\ Like(s, t) /\ WorkerSound(t)
  BY PostIs, ZenonT(60)
<1>2. e.type = type /\ type # "media-segment" /\ type # "init-segment"
  OBVIOUS
<1> HIDE DEF t, e
<1>3. NumbersSound(s, x) => NumbersSound(t, x) BY <1>1, <1>2, NumbersOther DEF Like
<1>4. BatchSound(s.out, x, T) => BatchSound(t.out, x, T)
  <2>1. \A u \in BothTracks : ~InitOf(e, x.gen, u) BY <1>2 DEF InitOf
  <2> QED BY <1>1, <2>1, BatchOther
<1> QED BY <1>1, <1>3, <1>4 DEF Keeps, Like, t

\* A media segment is posted.
LEMMA PostMediaSound ==
  ASSUME NEW s, WorkerSound(s), NEW load, Speaks(s, load), s.pipe = "on", NEW ins \in SUBSET Nat, NEW x, NEW T,
         ins = {} \/ \E i \in Nat : ins = {i}
  PROVE  LET t == PostMedia(s, load, ins)
         IN  WorkerSound(t) /\ Like(s, t) /\ Keeps(s, t, x, T)
<1> DEFINE u == [s EXCEPT !.units = @ + 1]
           t == Post(u, "media-segment", load, ins, "video")
           e == [type |-> "media-segment", gen |-> u.gen, of |-> load, track |-> "video", n |-> u.units, ins |-> ins]
<1>0. t = PostMedia(s, load, ins) BY DEF PostMedia
<1>1. DOMAIN s = WorkerFields /\ s.units \in Nat /\ s.out \in Seq(Event) /\ EventsSound(s) /\ s.gen \in Loads
  BY DEF WorkerSound, WorkerTyped
<1>2. Like(s, u) /\ u.units = s.units + 1 /\ u.out = s.out
  BY <1>1 DEF Like, WorkerFields
<1> HIDE DEF u
<1>3. EventsSound(u)
  <2>1. \A d : EventSound(s, d) => EventSound(u, d) BY <1>2 DEF EventSound, Like
  <2> QED BY <1>1, <1>2, <2>1 DEF EventsSound
<1>4. WorkerSound(u) BY <1>1, <1>2, <1>3, LikeSound
<1>5. Speaks(u, load) BY <1>2 DEF Speaks, Like
<1>6. /\ e \in Event /\ u.out \in Seq(Event) /\ t.out = Append(u.out, e) /\ t.units = u.units
      /\ Like(u, t) /\ WorkerSound(t)
  BY <1>4, <1>5, PostIs
<1>7. Like(s, t) BY <1>2, <1>6 DEF Like
<1>8. e.type = "media-segment" /\ e.gen = s.gen /\ e.n = s.units + 1
  BY <1>2 DEF Like
<1> HIDE DEF t, e
<1>9. ASSUME NumbersSound(s, x), "video" \notin x.disabled
      PROVE  NumbersSound(t, x)
  <2>1. PICK b \in Nat : /\ Numbered(x.pend["video"], MediaEntries, Len(x.app), b)
                         /\ Numbered(s.out, MediaEvents(x.gen), b, SegmentsSent(s, x))
    BY <1>9 DEF NumbersSound
  <2>2. CASE s.gen = x.gen
    <3>1. e \in MediaEvents(x.gen) BY <1>6, <1>8, <2>2 DEF MediaEvents, Event
    <3>2. SegmentsSent(s, x) = s.units /\ SegmentsSent(t, x) = s.units + 1
      BY <2>2, <1>2, <1>6, <1>7 DEF SegmentsSent, Begun, Like
    <3>3. Numbered(Append(s.out, e), MediaEvents(x.gen), b,
                   IF e \in MediaEvents(x.gen) THEN s.units + 1 ELSE s.units)
      BY <2>1, <3>2, <1>1, <1>6, <1>8, NumberedAppend
    <3>4. Numbered(t.out, MediaEvents(x.gen), b, s.units + 1)
      BY <3>1, <3>3, <1>2, <1>6
    <3> QED BY <2>1, <3>2, <3>4 DEF NumbersSound
  <2>3. CASE s.gen # x.gen
    <3>1. e \notin MediaEvents(x.gen) BY <1>8, <2>3 DEF MediaEvents
    <3>2. SegmentsSent(s, x) = 0 /\ SegmentsSent(t, x) = 0
      BY <2>3, <1>7 DEF SegmentsSent, Begun, Like
    <3>3. Numbered(Append(s.out, e), MediaEvents(x.gen), b,
                   IF e \in MediaEvents(x.gen) THEN 0 + 1 ELSE 0)
      BY <2>1, <3>1, <3>2, <1>1, <1>6, NumberedAppend
    <3>4. Numbered(t.out, MediaEvents(x.gen), b, 0) BY <3>1, <3>3, <1>2, <1>6
    <3> QED BY <2>1, <3>2, <3>4 DEF NumbersSound
  <2> QED BY <2>2, <2>3
<1>10. NumbersSound(s, x) => NumbersSound(t, x) BY <1>9 DEF NumbersSound
<1>11. BatchSound(s.out, x, T) => BatchSound(t.out, x, T)
  <2>1. \A v \in BothTracks : ~InitOf(e, x.gen, v) BY <1>8 DEF InitOf
  <2> QED BY <1>2, <1>6, <2>1, BatchOther
<1> QED BY <1>0, <1>6, <1>7, <1>10, <1>11 DEF Keeps, Like

\* The init segment of a stream without audio.
LEMMA PostVideoInit ==
  ASSUME NEW s, WorkerSound(s), NEW load, Speaks(s, load), NEW x, NEW T, s.gen = x.gen => T = {"video"}
  PROVE  LET t == Post(PostInfo(s, load), "init-segment", load, {}, "video")
         IN  WorkerSound(t) /\ Like(s, t) /\ Keeps(s, t, x, T)
<1> DEFINE u == PostInfo(s, load)
           t == Post(u, "init-segment", load, {}, "video")
           e == [type |-> "init-segment", gen |-> u.gen, of |-> load, track |-> "video", n |-> u.units, ins |-> {}]
<1>1. WorkerSound(u) /\ Like(s, u) /\ u.units = s.units /\ Keeps(s, u, x, T)
  BY PostOther DEF PostInfo
<1> HIDE DEF u
<1>2. Speaks(u, load) BY <1>1 DEF Speaks, Like
<1>3. /\ e \in Event /\ u.out \in Seq(Event) /\ t.out = Append(u.out, e) /\ t.units = u.units
      /\ Like(u, t) /\ WorkerSound(t)
  BY <1>1, <1>2, PostIs
<1>4. e.type = "init-segment" /\ e.gen = s.gen /\ e.track = "video"
  BY <1>1 DEF Like
<1> HIDE DEF t, e
<1>5. NumbersSound(u, x) => NumbersSound(t, x) BY <1>3, <1>4, NumbersOther DEF Like
<1>6. BatchSound(u.out, x, T) => BatchSound(t.out, x, T)
  <2>1. CASE s.gen = x.gen
    <3>1. ~InitOf(e, x.gen, "audio") BY <1>4 DEF InitOf
    <3> QED BY <2>1, <3>1, <1>3, BatchVideo
  <2>2. CASE s.gen # x.gen
    <3>1. \A v \in BothTracks : ~InitOf(e, x.gen, v) BY <2>2, <1>4 DEF InitOf
    <3> QED BY <3>1, <1>3, BatchOther
  <2> QED BY <2>1, <2>2
<1>7. Like(s, t) /\ Keeps(u, t, x, T) BY <1>1, <1>3, <1>5, <1>6 DEF Like, Keeps
<1>8. Keeps(s, t, x, T) BY <1>1, <1>7, KeepsTransitive
<1> QED BY <1>3, <1>7, <1>8 DEF t, u

\* A new demuxer and remuxer: a pair of init segments.
LEMMA PostPair ==
  ASSUME NEW s, WorkerSound(s), NEW load, Speaks(s, load), NEW x, NEW T, s.gen = x.gen => T = BothTracks
  PROVE  LET a == Post(PostInfo(s, load), "init-segment", load, {}, "video")
             b == Post(PostInfo(a, load), "init-segment", load, {}, "audio")
         IN  WorkerSound(b) /\ Like(s, b) /\ Keeps(s, b, x, T)
<1> DEFINE s1 == PostInfo(s, load)
           a == Post(s1, "init-segment", load, {}, "video")
           s2 == PostInfo(a, load)
           b == Post(s2, "init-segment", load, {}, "audio")
           ev == [type |-> "init-segment", gen |-> s1.gen, of |-> load, track |-> "video", n |-> s1.units, ins |-> {}]
           ei == [type |-> "media-info", gen |-> a.gen, of |-> load, track |-> "none", n |-> a.units, ins |-> {}]
           ea == [type |-> "init-segment", gen |-> s2.gen, of |-> load, track |-> "audio", n |-> s2.units, ins |-> {}]
<1>1. WorkerSound(s1) /\ Like(s, s1) /\ Keeps(s, s1, x, T)
  BY PostOther DEF PostInfo
<1> HIDE DEF s1
<1>2. Speaks(s1, load) BY <1>1 DEF Speaks, Like
<1>3. /\ ev \in Event /\ s1.out \in Seq(Event) /\ a.out = Append(s1.out, ev) /\ a.units = s1.units
      /\ Like(s1, a) /\ WorkerSound(a)
  BY <1>1, <1>2, PostIs
<1>3e. ev.type = "init-segment" /\ ev.gen = s.gen /\ ev.track = "video"
  BY <1>1 DEF Like
<1> HIDE DEF a, ev
<1>4. Speaks(a, load) BY <1>2, <1>3 DEF Speaks, Like
<1>5. /\ ei \in Event /\ a.out \in Seq(Event) /\ s2.out = Append(a.out, ei) /\ s2.units = a.units
      /\ Like(a, s2) /\ WorkerSound(s2)
  BY <1>3, <1>4, PostIs DEF PostInfo
<1>5e. ei.type = "media-info" /\ ei.gen = s.gen
  BY <1>1, <1>3 DEF Like
<1> HIDE DEF s2, ei
<1>6. Speaks(s2, load) BY <1>4, <1>5 DEF Speaks, Like
<1>7. /\ ea \in Event /\ s2.out \in Seq(Event) /\ b.out = Append(s2.out, ea) /\ b.units = s2.units
      /\ Like(s2, b) /\ WorkerSound(b)
  BY <1>5, <1>6, PostIs
<1>7e. ea.type = "init-segment" /\ ea.gen = s.gen /\ ea.track = "audio"
  BY <1>1, <1>3, <1>5 DEF Like
<1> HIDE DEF b, ea
<1>8. Like(s, b) /\ Like(s, a) /\ Like(s, s2) /\ Like(s1, b)
  BY <1>1, <1>3, <1>5, <1>7 DEF Like
<1>9. NumbersSound(s1, x) => NumbersSound(b, x)
  <2>1. NumbersSound(s1, x) => NumbersSound(a, x) BY <1>3, <1>3e, NumbersOther DEF Like
  <2>2. NumbersSound(a, x) => NumbersSound(s2, x) BY <1>5, <1>5e, NumbersOther DEF Like
  <2>3. NumbersSound(s2, x) => NumbersSound(b, x) BY <1>7, <1>7e, NumbersOther DEF Like
  <2> QED BY <2>1, <2>2, <2>3
<1>10. ASSUME BatchSound(s1.out, x, T)
       PROVE  BatchSound(b.out, x, T)
  <2>1. CASE s.gen = x.gen
    <3>1. InitOf(ev, x.gen, "video") /\ InfoOf(ei, x.gen) /\ InitOf(ea, x.gen, "audio") /\ T = BothTracks
      BY <2>1, <1>3e, <1>5e, <1>7e DEF InitOf, InfoOf
    <3>2. BatchSound(Append(Append(Append(s1.out, ev), ei), ea), x, BothTracks)
      BY <1>3, <1>5, <1>7, <3>1, <1>10, BatchPair
    <3> QED BY <3>1, <3>2, <1>3, <1>5, <1>7
  <2>2. CASE s.gen # x.gen
    <3>1. /\ \A v \in BothTracks : ~InitOf(ev, x.gen, v)
          /\ \A v \in BothTracks : ~InitOf(ei, x.gen, v)
          /\ \A v \in BothTracks : ~InitOf(ea, x.gen, v)
      BY <2>2, <1>3e, <1>5e, <1>7e DEF InitOf
    <3>2. BatchSound(a.out, x, T) BY <3>1, <1>3, <1>10, BatchOther
    <3>3. BatchSound(s2.out, x, T) BY <3>1, <3>2, <1>5, BatchOther
    <3> QED BY <3>1, <3>3, <1>7, BatchOther
  <2> QED BY <2>1, <2>2
<1>11. Keeps(s1, b, x, T) BY <1>8, <1>9, <1>10 DEF Keeps, Like
<1>12. Keeps(s, b, x, T) BY <1>1, <1>11, KeepsTransitive
<1> QED BY <1>7, <1>8, <1>12 DEF b, s2, a, s1

----------------------------------------------------------------------------
(* The pieces of the handlers                                              *)

\* Events and units are as they were.
LEMMA QuietKeeps ==
  ASSUME NEW s, NEW t, NEW x, NEW T, t.gen = s.gen, t.pipe = s.pipe, t.paused = s.paused,
         t.out = s.out, t.units = s.units
  PROVE  Keeps(s, t, x, T)
BY DEF Keeps, NumbersSound, SegmentsSent, Begun

\* t has the loops and the fetch of s.
SameLoops(s, t) ==
  /\ t.pipe = s.pipe /\ t.made = s.made /\ t.gen = s.gen /\ t.runId = s.runId /\ t.mode = s.mode
  /\ t.paused = s.paused /\ t.gate = s.gate /\ t.loops = s.loops /\ t.io = s.io /\ t.fmp4 = s.fmp4
  /\ t.inputs = s.inputs

LEMMA LikeSameLoops ==
  ASSUME NEW s, NEW t, Like(s, t)
  PROVE  SameLoops(s, t) /\ t.stash = s.stash /\ t.chunks = s.chunks
BY DEF Like, SameLoops

\* Dropping what the remuxer or the demuxer holds, and a new audio generation.
LEMMA DropSound ==
  ASSUME NEW s, NEW t, WorkerSound(s), DOMAIN t = WorkerFields, SameLoops(s, t),
         t.stash = s.stash \/ t.stash = {}, t.chunks = s.chunks \/ ~t.chunks,
         t.decodes = s.decodes \/ t.decodes = {[d EXCEPT !.current = FALSE] : d \in s.decodes},
         t.units = s.units, t.out = s.out, NEW x, NEW T
  PROVE  WorkerSound(t) /\ Keeps(s, t, x, T)
<1>1. t.decodes \in SUBSET Decode /\ \A d \in t.decodes : d.current => d \in s.decodes
  <2>1. s.decodes \in SUBSET Decode BY DEF WorkerSound, WorkerTyped
  <2>2. CASE t.decodes = s.decodes BY <2>1, <2>2
  <2>3. CASE t.decodes = {[d EXCEPT !.current = FALSE] : d \in s.decodes}
    BY <2>1, <2>3 DEF Decode
  <2> QED BY <2>2, <2>3
<1>2. WorkerTyped(t) BY <1>1 DEF WorkerSound, WorkerTyped, SameLoops
<1>3. LoopsSound(t)
  <2>1. \A l : LoopSound(s, l) => LoopSound(t, l) BY DEF LoopSound, SameLoops
  <2> QED BY <2>1 DEF WorkerSound, LoopsSound, SameLoops
<1>4. IoSound(t)
  BY DEF WorkerSound, IoSound, Awaits, Current, SameLoops
<1>5. PipeSound(t) BY <1>1 DEF WorkerSound, PipeSound, SameLoops
<1>6. EventsSound(t)
  <2>1. \A e : EventSound(s, e) => EventSound(t, e) BY DEF EventSound, SameLoops
  <2> QED BY <2>1 DEF WorkerSound, EventsSound
<1>7. Keeps(s, t, x, T) BY QuietKeeps DEF SameLoops
<1> QED BY <1>2, <1>3, <1>4, <1>5, <1>6, <1>7 DEF WorkerSound

LEMMA AudioTimingReset ==
  ASSUME NEW s, WorkerSound(s), NEW x, NEW T
  PROVE  LET t == ResetAudioTiming(s)
         IN  WorkerSound(t) /\ Keeps(s, t, x, T) /\ SameLoops(s, t) /\ t.stash = s.stash /\ t.chunks = s.chunks
             /\ DOMAIN t = WorkerFields
<1> DEFINE t == ResetAudioTiming(s)
<1>1. DOMAIN s = WorkerFields BY DEF WorkerSound, WorkerTyped
<1>2. /\ DOMAIN t = WorkerFields /\ SameLoops(s, t) /\ t.stash = s.stash /\ t.chunks = s.chunks
      /\ t.decodes = {[d EXCEPT !.current = FALSE] : d \in s.decodes}
      /\ t.units = s.units /\ t.out = s.out
  BY <1>1 DEF ResetAudioTiming, SameLoops, WorkerFields
<1> HIDE DEF t
<1>3. WorkerSound(t) /\ Keeps(s, t, x, T) BY <1>2, DropSound
<1> QED BY <1>2, <1>3 DEF t

\* What the remuxer holds of one input becomes one segment.
LEMMA RemuxerFlushed ==
  ASSUME NEW s, WorkerSound(s), NEW load, Speaks(s, load), s.pipe = "on", NEW x, NEW T
  PROVE  LET t == FlushRemuxer(s, load)
         IN  WorkerSound(t) /\ Keeps(s, t, x, T) /\ SameLoops(s, t) /\ t.stash = {} /\ t.chunks = s.chunks
<1>1. CASE s.stash = {}
  <2>1. FlushRemuxer(s, load) = s BY <1>1 DEF FlushRemuxer
  <2>2. Keeps(s, s, x, T) /\ SameLoops(s, s) BY DEF Keeps, SameLoops
  <2> QED BY <1>1, <2>1, <2>2
<1>2. CASE s.stash # {}
  <2> DEFINE u == [s EXCEPT !.stash = {}]
             t == PostMedia(u, load, s.stash)
  <2>1. DOMAIN s = WorkerFields /\ s.inputs \in Nat /\ s.stash \subseteq {s.inputs}
    BY DEF WorkerSound, WorkerTyped, PipeSound
  <2>2. /\ DOMAIN u = WorkerFields /\ SameLoops(s, u) /\ u.stash = {} /\ u.chunks = s.chunks
        /\ u.decodes = s.decodes /\ u.units = s.units /\ u.out = s.out
    BY <2>1 DEF SameLoops, WorkerFields
  <2>3. FlushRemuxer(s, load) = t BY <1>2 DEF FlushRemuxer
  <2> HIDE DEF u
  <2>4. WorkerSound(u) /\ Keeps(s, u, x, T) BY <2>2, DropSound
  <2>5. Speaks(u, load) /\ u.pipe = "on" BY <2>2 DEF Speaks, SameLoops
  <2>6. s.stash \in SUBSET Nat /\ \E i \in Nat : s.stash = {i}
    BY <1>2, <2>1
  <2>7. WorkerSound(t) /\ Like(u, t) /\ Keeps(u, t, x, T)
    BY <2>4, <2>5, <2>6, PostMediaSound
  <2>8. SameLoops(s, t) /\ t.stash = {} /\ t.chunks = s.chunks
    BY <2>2, <2>7 DEF Like, SameLoops
  <2>9. Keeps(s, t, x, T) BY <2>4, <2>7, KeepsTransitive
  <2> QED BY <2>3, <2>7, <2>8, <2>9
<1> QED BY <1>1, <1>2

LEMMA SameLoopsTransitive ==
  ASSUME NEW s, NEW t, NEW u, SameLoops(s, t), SameLoops(t, u)
  PROVE  SameLoops(s, u)
BY DEF SameLoops

LEMMA BoundaryFinished ==
  ASSUME NEW s, WorkerSound(s), NEW load, Speaks(s, load), s.pipe = "on", NEW x, NEW T
  PROVE  LET t == FinishTsInputBoundary(s, load)
         IN  /\ WorkerSound(t) /\ Keeps(s, t, x, T) /\ SameLoops(s, t) /\ t.stash = {} /\ t.chunks = s.chunks
             /\ DOMAIN t = WorkerFields
<1> DEFINE u == FlushRemuxer(s, load)
<1>1. WorkerSound(u) /\ Keeps(s, u, x, T) /\ SameLoops(s, u) /\ u.stash = {} /\ u.chunks = s.chunks
  BY RemuxerFlushed
<1> HIDE DEF u
<1>2. /\ WorkerSound(ResetAudioTiming(u)) /\ Keeps(u, ResetAudioTiming(u), x, T)
      /\ SameLoops(u, ResetAudioTiming(u)) /\ ResetAudioTiming(u).stash = u.stash
      /\ ResetAudioTiming(u).chunks = u.chunks /\ DOMAIN ResetAudioTiming(u) = WorkerFields
  BY <1>1, AudioTimingReset
<1>3. FinishTsInputBoundary(s, load) = ResetAudioTiming(u)
  BY DEF FinishTsInputBoundary, u
<1> QED BY <1>1, <1>2, <1>3, KeepsTransitive, SameLoopsTransitive

LEMMA TransmuxReset ==
  ASSUME NEW s, WorkerSound(s), NEW load, Speaks(s, load), NEW x, NEW T
  PROVE  LET t == ResetTransmux(s, load)
         IN  WorkerSound(t) /\ Keeps(s, t, x, T) /\ SameLoops(s, t) /\ t.stash = {} /\ t.chunks = s.chunks
<1> DEFINE u == IF s.tx THEN PostInfo(s, load) ELSE s
           v == [u EXCEPT !.tx = FALSE, !.stash = {}]
<1>1. WorkerSound(u) /\ Keeps(s, u, x, T) /\ SameLoops(s, u) /\ u.chunks = s.chunks
  <2>1. CASE s.tx BY <2>1, PostOther, LikeSameLoops DEF PostInfo
  <2>2. CASE ~s.tx BY <2>2 DEF Keeps, SameLoops
  <2> QED BY <2>1, <2>2
<1> HIDE DEF u
<1>2. DOMAIN u = WorkerFields BY <1>1 DEF WorkerSound, WorkerTyped
<1>3. /\ DOMAIN v = WorkerFields /\ SameLoops(u, v) /\ v.stash = {} /\ v.chunks = u.chunks
      /\ v.decodes = u.decodes /\ v.units = u.units /\ v.out = u.out
  BY <1>2 DEF SameLoops, WorkerFields
<1> HIDE DEF v
<1>4. WorkerSound(v) /\ Keeps(u, v, x, T) BY <1>1, <1>3, DropSound
<1>5. /\ WorkerSound(ResetAudioTiming(v)) /\ Keeps(v, ResetAudioTiming(v), x, T)
      /\ SameLoops(v, ResetAudioTiming(v)) /\ ResetAudioTiming(v).stash = v.stash
      /\ ResetAudioTiming(v).chunks = v.chunks
  BY <1>4, AudioTimingReset
<1>6. ResetTransmux(s, load) = ResetAudioTiming(v) BY DEF ResetTransmux, u, v
<1> QED BY <1>1, <1>3, <1>4, <1>5, <1>6, KeepsTransitive, SameLoopsTransitive

----------------------------------------------------------------------------
(* The load loops                                                          *)

\* No loop is current.
Idle(s) == \A l \in s.loops : l.run # s.runId

\* A loop that may go on at place k of _run.
Ready(s, l, k) ==
  /\ l.load = s.gen /\ s.pipe = "on" /\ s.stash = {}
  /\ k # "top" => l.i \in 1 .. Len(Segments(l.kind))
  /\ k = "init" => l.kind = "cmaf"
  /\ s.chunks => l.kind = "cmaf"

\* Every current loop of t is of a kind K.
KindsIn(t, K) == \A l \in t.loops : l.run = t.runId => l.kind \in K

LEMMA IdleNoFetch ==
  ASSUME NEW s, WorkerSound(s), Idle(s)
  PROVE  s.io = NoIo
BY DEF WorkerSound, IoSound, Awaits, Current, Idle

\* A single current loop is added to a worker without one.
LEMMA AddLoop ==
  ASSUME NEW s, NEW t, WorkerSound(s), Idle(s), NEW l \in LoadLoop, l.run = s.runId, LoopSound(t, l),
         DOMAIN t = WorkerFields, t.loops = s.loops \cup {l},
         t.pipe = s.pipe, t.made = s.made, t.gen = s.gen, t.runId = s.runId, t.mode = s.mode,
         t.paused = s.paused, t.decodes = s.decodes, t.units = s.units, t.out = s.out,
         t.inputs \in Nat, t.stash = {}, t.io \in Fetch,
         t.io = NoIo \/ (l.pc = "load" /\ l.run = t.io.run /\ l.load = t.io.load /\ l.i = t.io.i /\ t.io.st # "text")
  PROVE  WorkerSound(t) /\ KindsIn(t, {l.kind})
<1>1. WorkerTyped(t) BY DEF WorkerSound, WorkerTyped
<1>2. LoopsSound(t)
  <2>1. \A o \in t.loops : o.run <= t.runId BY DEF WorkerSound, LoopsSound, WorkerTyped
  <2>2. \A o \in t.loops : o.run = t.runId => o = l BY DEF Idle
  <2> QED BY <2>1, <2>2 DEF LoopsSound
<1>3. IoSound(t) BY DEF IoSound, Awaits, Current
<1>4. PipeSound(t) BY DEF WorkerSound, PipeSound
<1>5. EventsSound(t)
  <2>1. \A e : EventSound(s, e) => EventSound(t, e) BY DEF EventSound
  <2> QED BY <2>1 DEF WorkerSound, EventsSound
<1>6. KindsIn(t, {l.kind}) BY DEF KindsIn, Idle
<1> QED BY <1>1, <1>2, <1>3, <1>4, <1>5, <1>6 DEF WorkerSound

\* The loop waits for resume() or goes on; a superseded one ends.
LEMMA WaitSound ==
  ASSUME NEW s, WorkerSound(s), NEW l \in LoadLoop, NEW k \in {"top", "init", "seg"},
         l.run = s.runId => Idle(s) /\ Ready(s, l, k), NEW x, NEW T
  PROVE  LET t == WaitIfPaused(s, l, k)
         IN  /\ WorkerSound(t) /\ Keeps(s, t, x, T) /\ t.runId = s.runId
             /\ (l.run = s.runId /\ KindsIn(t, {l.kind})) \/ t = s
<1> DEFINE t == WaitIfPaused(s, l, k)
<1>0. DOMAIN s = WorkerFields /\ s.inputs \in Nat /\ s.io \in Fetch
  BY DEF WorkerSound, WorkerTyped
<1>1. CASE s.runId # l.run
  <2>1. t = s BY <1>1 DEF WaitIfPaused
  <2>2. Keeps(s, s, x, T) BY DEF Keeps
  <2> QED BY <2>1, <2>2
<1>2. CASE s.runId = l.run
  <2>0. Idle(s) /\ Ready(s, l, k) /\ s.io = NoIo BY <1>2, IdleNoFetch
  <2>1. CASE s.paused
    <3> DEFINE o == [l EXCEPT !.pc = "gate", !.k = k]
    <3>1. t = [s EXCEPT !.gate = l.run, !.loops = @ \cup {o}]
      BY <1>2, <2>1 DEF WaitIfPaused
    <3>2. /\ o \in LoadLoop /\ o.run = l.run /\ o.kind = l.kind /\ o.load = l.load /\ o.pc = "gate" /\ o.k = k
          /\ o.i = l.i
      BY DEF LoadLoop
    <3>3. /\ DOMAIN t = WorkerFields /\ t.loops = s.loops \cup {o} /\ t.gate = l.run
          /\ t.pipe = s.pipe /\ t.made = s.made /\ t.gen = s.gen /\ t.runId = s.runId /\ t.mode = s.mode
          /\ t.paused = s.paused /\ t.decodes = s.decodes /\ t.units = s.units /\ t.out = s.out
          /\ t.inputs = s.inputs /\ t.stash = s.stash /\ t.io = s.io /\ t.chunks = s.chunks
      BY <3>1, <1>0 DEF WorkerFields
    <3> HIDE DEF t, o
    <3>4. LoopSound(t, o)
      BY <2>0, <2>1, <3>2, <3>3 DEF LoopSound, Ready, InSegment, WantsInit
    <3>5. WorkerSound(t) /\ KindsIn(t, {o.kind})
      BY <1>0, <1>2, <2>0, <3>2, <3>3, <3>4, AddLoop DEF Ready
    <3> QED BY <1>2, <3>2, <3>3, <3>5, QuietKeeps DEF t
  <2>2. CASE ~s.paused /\ k = "top"
    <3> DEFINE o == [l EXCEPT !.pc = "next"]
    <3>1. t = [s EXCEPT !.loops = @ \cup {o}] BY <1>2, <2>2 DEF WaitIfPaused, Continue
    <3>2. o \in LoadLoop /\ o.run = l.run /\ o.kind = l.kind /\ o.load = l.load /\ o.pc = "next" /\ o.i = l.i
      BY DEF LoadLoop
    <3>3. /\ DOMAIN t = WorkerFields /\ t.loops = s.loops \cup {o}
          /\ t.pipe = s.pipe /\ t.made = s.made /\ t.gen = s.gen /\ t.runId = s.runId /\ t.mode = s.mode
          /\ t.paused = s.paused /\ t.decodes = s.decodes /\ t.units = s.units /\ t.out = s.out
          /\ t.inputs = s.inputs /\ t.stash = s.stash /\ t.io = s.io /\ t.chunks = s.chunks
      BY <3>1, <1>0 DEF WorkerFields
    <3> HIDE DEF t, o
    <3>4. LoopSound(t, o)
      BY <2>0, <3>2, <3>3 DEF LoopSound, Ready, InSegment, WantsInit
    <3>5. WorkerSound(t) /\ KindsIn(t, {o.kind})
      BY <1>0, <1>2, <2>0, <3>2, <3>3, <3>4, AddLoop DEF Ready
    <3> QED BY <1>2, <3>2, <3>3, <3>5, QuietKeeps DEF t
  <2>3. CASE ~s.paused /\ k = "init"
    <3> DEFINE o == [l EXCEPT !.pc = "init"]
    <3>1. t = [s EXCEPT !.fmp4 = TRUE, !.loops = @ \cup {o}]
      BY <1>2, <2>3 DEF WaitIfPaused, Continue
    <3>2. o \in LoadLoop /\ o.run = l.run /\ o.kind = l.kind /\ o.load = l.load /\ o.pc = "init" /\ o.i = l.i
      BY DEF LoadLoop
    <3>3. /\ DOMAIN t = WorkerFields /\ t.loops = s.loops \cup {o}
          /\ t.pipe = s.pipe /\ t.made = s.made /\ t.gen = s.gen /\ t.runId = s.runId /\ t.mode = s.mode
          /\ t.paused = s.paused /\ t.decodes = s.decodes /\ t.units = s.units /\ t.out = s.out
          /\ t.inputs = s.inputs /\ t.stash = s.stash /\ t.io = s.io /\ t.chunks = s.chunks
      BY <3>1, <1>0 DEF WorkerFields
    <3> HIDE DEF t, o
    <3>4. LoopSound(t, o)
      BY <2>0, <2>3, <3>2, <3>3 DEF LoopSound, Ready, InSegment, WantsInit
    <3>5. WorkerSound(t) /\ KindsIn(t, {o.kind})
      BY <1>0, <1>2, <2>0, <3>2, <3>3, <3>4, AddLoop DEF Ready
    <3> QED BY <1>2, <3>2, <3>3, <3>5, QuietKeeps DEF t
  <2>4. CASE ~s.paused /\ k = "seg"
    <3> DEFINE o == [l EXCEPT !.pc = "load"]
               f == [NoIo EXCEPT !.run = l.run, !.load = l.load, !.i = l.i, !.st = "connecting", !.fresh = TRUE]
    <3>1. t = [s EXCEPT !.loops = @ \cup {o}, !.inputs = @ + 1, !.io = f]
      BY <1>2, <2>4 DEF WaitIfPaused, Continue
    <3>2. o \in LoadLoop /\ o.run = l.run /\ o.kind = l.kind /\ o.load = l.load /\ o.pc = "load" /\ o.i = l.i
      BY DEF LoadLoop
    <3>2f. f \in Fetch /\ f.run = l.run /\ f.load = l.load /\ f.i = l.i /\ f.st # "text"
      BY DEF LoadLoop, NoIo, Fetch
    <3>3. /\ DOMAIN t = WorkerFields /\ t.loops = s.loops \cup {o}
          /\ t.pipe = s.pipe /\ t.made = s.made /\ t.gen = s.gen /\ t.runId = s.runId /\ t.mode = s.mode
          /\ t.paused = s.paused /\ t.decodes = s.decodes /\ t.units = s.units /\ t.out = s.out
          /\ t.inputs = s.inputs + 1 /\ t.stash = s.stash /\ t.io = f /\ t.chunks = s.chunks
      BY <3>1, <1>0 DEF WorkerFields
    <3> HIDE DEF t, o, f
    <3>4. LoopSound(t, o)
      BY <2>0, <2>4, <3>2, <3>3 DEF LoopSound, Ready, InSegment, WantsInit
    <3>4a. t.inputs \in Nat /\ t.stash = {} /\ t.io \in Fetch /\ o.run = s.runId
      BY <1>0, <1>2, <2>0, <3>2, <3>2f, <3>3 DEF Ready
    <3>4b. o.pc = "load" /\ o.run = t.io.run /\ o.load = t.io.load /\ o.i = t.io.i /\ t.io.st # "text"
      BY <3>2, <3>2f, <3>3
    <3>5. WorkerSound(t) /\ KindsIn(t, {o.kind})
      BY <2>0, <3>2, <3>3, <3>4, <3>4a, <3>4b, AddLoop
    <3> QED BY <1>2, <3>2, <3>3, <3>5, QuietKeeps DEF t
  <2> QED BY <2>1, <2>2, <2>3, <2>4
<1> QED BY <1>1, <1>2

\* A loop that runs on is taken out of the set first.
LEMMA WithoutSound ==
  ASSUME WorkerSound(w), NEW l \in w.loops, l.pc # "load", NEW x, NEW T
  PROVE  LET s == Without(l)
         IN  /\ WorkerSound(s) /\ Keeps(w, s, x, T) /\ s.runId = w.runId
             /\ s.stash = w.stash /\ s.chunks = w.chunks
             /\ l.run = w.runId => Idle(s) /\ LoopSound(w, l) /\ Speaks(s, l.load) /\ s.pipe = "on"
             /\ \A o \in s.loops : o \in w.loops
             /\ s.fmp4 = w.fmp4
<1> DEFINE s == Without(l)
<1>0. DOMAIN w = WorkerFields BY DEF WorkerSound, WorkerTyped
<1>1. /\ DOMAIN s = WorkerFields /\ s.loops = w.loops \ {l}
      /\ s.pipe = w.pipe /\ s.made = w.made /\ s.gen = w.gen /\ s.runId = w.runId /\ s.mode = w.mode
      /\ s.paused = w.paused /\ s.gate = w.gate /\ s.io = w.io /\ s.fmp4 = w.fmp4 /\ s.inputs = w.inputs
      /\ s.stash = w.stash /\ s.chunks = w.chunks /\ s.decodes = w.decodes /\ s.units = w.units
      /\ s.out = w.out
  BY <1>0 DEF Without, WorkerFields
<1> HIDE DEF s
<1>2. WorkerTyped(s) BY <1>1 DEF WorkerSound, WorkerTyped
<1>3. LoopsSound(s)
  <2>1. \A o : LoopSound(w, o) => LoopSound(s, o) BY <1>1 DEF LoopSound
  <2> QED BY <1>1, <2>1 DEF WorkerSound, LoopsSound
<1>4. IoSound(s)
  BY <1>1 DEF WorkerSound, IoSound, Awaits, Current
<1>5. PipeSound(s) BY <1>1 DEF WorkerSound, PipeSound
<1>6. EventsSound(s)
  <2>1. \A e : EventSound(w, e) => EventSound(s, e) BY <1>1 DEF EventSound
  <2> QED BY <1>1, <2>1 DEF WorkerSound, EventsSound
<1>7. WorkerSound(s) BY <1>2, <1>3, <1>4, <1>5, <1>6 DEF WorkerSound
<1>8. l.run = w.runId => Idle(s) /\ LoopSound(w, l) /\ Speaks(s, l.load) /\ s.pipe = "on"
  BY <1>1 DEF WorkerSound, LoopsSound, PipeSound, Idle, LoopSound, Speaks
<1> QED BY <1>1, <1>7, <1>8, QuietKeeps DEF s

----------------------------------------------------------------------------
(* Steps of the load loop                                                  *)

\* The current loop is of a kind with tracks T, if it is of the stream of x.
KindMatch(s, x, T) == s.gen = x.gen => \A l \in s.loops : l.run = s.runId => T = TracksOf(l.kind)

StepSound(s, t, x, T) == WorkerSound(t) /\ Keeps(s, t, x, T) /\ KindMatch(t, x, T)

\* What is done before a loop goes on leaves the other loops alone.
LEMMA WaitStep ==
  ASSUME NEW x, NEW T, WorkerSound(w), KindMatch(w, x, T), NEW s, WorkerSound(s), Keeps(w, s, x, T),
         s.runId = w.runId, \A o \in s.loops : o \in w.loops,
         NEW l \in w.loops, NEW m \in LoadLoop, m.run = l.run, m.kind = l.kind, NEW k \in {"top", "init", "seg"},
         m.run = s.runId => Idle(s) /\ Ready(s, m, k)
  PROVE  StepSound(w, WaitIfPaused(s, m, k), x, T)
<1> DEFINE t == WaitIfPaused(s, m, k)
<1>1. /\ WorkerSound(t) /\ Keeps(s, t, x, T) /\ t.runId = s.runId
      /\ (m.run = s.runId /\ KindsIn(t, {m.kind})) \/ t = s
  BY WaitSound
<1> HIDE DEF t
<1>2. Keeps(w, t, x, T) /\ t.gen = w.gen /\ s.gen = w.gen
  BY <1>1, KeepsTransitive DEF Keeps
<1>3. KindMatch(t, x, T)
  <2>1. CASE t = s BY <2>1, <1>2 DEF KindMatch
  <2>2. CASE m.run = s.runId /\ KindsIn(t, {m.kind}) BY <2>2, <1>2 DEF KindMatch, KindsIn
  <2> QED BY <2>1, <2>2, <1>1
<1> QED BY <1>1, <1>2, <1>3 DEF StepSound, t

\* A loop that ends.
LEMMA EndStep ==
  ASSUME NEW x, NEW T, WorkerSound(w), KindMatch(w, x, T), NEW s, WorkerSound(s), Keeps(w, s, x, T),
         s.runId = w.runId, \A o \in s.loops : o \in w.loops
  PROVE  StepSound(w, s, x, T)
BY DEF StepSound, KindMatch, Keeps

LEMMA LoopTyped ==
  ASSUME WorkerSound(w), NEW l \in w.loops
  PROVE  l \in LoadLoop
BY DEF WorkerSound, WorkerTyped

LEMMA LoopWakesSound ==
  ASSUME NEW x, NEW T, WorkerSound(w), KindMatch(w, x, T), NEW l \in w.loops, LoopWakes(l)
  PROVE  StepSound(w, w', x, T)
<1> DEFINE s == Without(l)
<1>1. l.pc = "woken" /\ w' = WaitIfPaused(s, l, l.k) /\ l \in LoadLoop
  BY LoopTyped DEF LoopWakes
<1>2. /\ WorkerSound(s) /\ Keeps(w, s, x, T) /\ s.runId = w.runId
      /\ s.stash = w.stash /\ s.chunks = w.chunks
      /\ l.run = w.runId => Idle(s) /\ LoopSound(w, l) /\ Speaks(s, l.load) /\ s.pipe = "on"
      /\ \A o \in s.loops : o \in w.loops
  BY <1>1, WithoutSound
<1> HIDE DEF s
<1>3. l.k \in {"top", "init", "seg"} BY <1>1 DEF LoadLoop
<1>4. l.run = s.runId => Idle(s) /\ Ready(s, l, l.k)
  BY <1>1, <1>2 DEF Ready, LoopSound, InSegment, WantsInit, Speaks
<1> QED BY <1>1, <1>2, <1>3, <1>4, WaitStep

LEMMA SourceFailsSound ==
  ASSUME NEW x, NEW T, WorkerSound(w), KindMatch(w, x, T), NEW l \in w.loops, SourceFails(l) \/ InitFails(l)
  PROVE  StepSound(w, w', x, T)
<1> DEFINE s == Without(l)
<1>1. /\ l.pc \in {"next", "init"}
      /\ w' = IF w.runId = l.run THEN Post(s, "error", l.load, {}, "none") ELSE s
  BY DEF SourceFails, InitFails
<1>2. /\ WorkerSound(s) /\ Keeps(w, s, x, T) /\ s.runId = w.runId
      /\ l.run = w.runId => Idle(s) /\ LoopSound(w, l) /\ Speaks(s, l.load) /\ s.pipe = "on"
      /\ \A o \in s.loops : o \in w.loops
  BY <1>1, WithoutSound
<1> HIDE DEF s
<1>3. CASE w.runId = l.run
  <2>1. WorkerSound(w') /\ Like(s, w') /\ Keeps(s, w', x, T)
    BY <1>1, <1>2, <1>3, PostOther
  <2>2. w'.runId = w.runId /\ \A o \in w'.loops : o \in w.loops
    BY <1>2, <2>1 DEF Like
  <2>3. Keeps(w, w', x, T) BY <1>2, <2>1, KeepsTransitive
  <2> QED BY <2>1, <2>2, <2>3, EndStep
<1>4. CASE w.runId # l.run BY <1>1, <1>2, <1>4, EndStep
<1> QED BY <1>3, <1>4

LEMMA NextSegmentSound ==
  ASSUME NEW x, NEW T, WorkerSound(w), KindMatch(w, x, T), NEW l \in w.loops, NextSegment(l)
  PROVE  StepSound(w, w', x, T)
<1> DEFINE i == IF l.kind \in {"live", "hidden", "junk"} THEN 1 ELSE l.i + 1
           r == Without(l)
           s == IF Hls(l.kind) /\ l.i = 0 /\ l.run = w.runId
                THEN Post(r, "hls-info", l.load, {}, "none") ELSE r
           seg == Segments(l.kind)[i]
           t == IF seg.reset THEN ResetTransmux(s, l.load) ELSE s
           needInit == seg.init # 0 /\ seg.init # s.lastInit
           m == [l EXCEPT !.i = i]
           k == IF needInit THEN "init" ELSE "seg"
<1>1. /\ l.pc = "next" /\ l \in LoadLoop
      /\ w' = IF s.runId # l.run THEN s
              ELSE IF i > Len(Segments(l.kind))
              THEN Post(FlushRemuxer(s, l.load), "complete", l.load, {}, "none")
              ELSE WaitIfPaused(t, m, k)
  BY LoopTyped DEF NextSegment
<1>2. /\ WorkerSound(r) /\ Keeps(w, r, x, T) /\ r.runId = w.runId
      /\ r.stash = w.stash /\ r.chunks = w.chunks
      /\ l.run = w.runId => Idle(r) /\ LoopSound(w, l) /\ Speaks(r, l.load) /\ r.pipe = "on"
      /\ \A o \in r.loops : o \in w.loops
  BY <1>1, WithoutSound
<1>m. /\ m \in LoadLoop /\ m.run = l.run /\ m.kind = l.kind /\ m.load = l.load /\ m.i = i /\ i \in Nat /\ i >= 1
      /\ l.kind \in StreamKinds /\ k \in {"top", "init", "seg"}
  BY <1>1 DEF LoadLoop
<1>f. /\ Len(Segments(l.kind)) \in 1 .. 2
      /\ i \in 1 .. Len(Segments(l.kind)) => (k = "init" => l.kind = "cmaf")
  BY <1>m, SegmentFacts
<1> HIDE DEF r, i, seg, needInit, m, k
<1>3. CASE w.runId # l.run
  <2>1. s = r BY <1>3
  <2>2. w' = r BY <1>1, <1>2, <1>3, <2>1
  <2> QED BY <1>2, <2>2, EndStep
<1>4. CASE w.runId = l.run
  <2>1. /\ WorkerSound(s) /\ Keeps(w, s, x, T) /\ s.runId = w.runId
        /\ s.stash = w.stash /\ s.chunks = w.chunks /\ s.loops = r.loops /\ Speaks(s, l.load) /\ s.pipe = "on"
    <3>1. CASE Hls(l.kind) /\ l.i = 0
      <4>1. s = Post(r, "hls-info", l.load, {}, "none") BY <3>1, <1>4
      <4>2. WorkerSound(s) /\ Like(r, s) /\ Keeps(r, s, x, T) BY <4>1, <1>2, <1>4, PostOther
      <4>3. Keeps(w, s, x, T) BY <4>2, <1>2, KeepsTransitive
      <4> QED BY <4>2, <4>3, <1>2, <1>4 DEF Like, Speaks
    <3>2. CASE ~(Hls(l.kind) /\ l.i = 0) BY <3>2, <1>2, <1>4
    <3> QED BY <3>1, <3>2
  <2> HIDE DEF s
  <2>2. w.stash = {} /\ (w.chunks => l.kind = "cmaf") BY <1>1, <1>2, <1>4 DEF LoopSound
  <2>3. CASE i > Len(Segments(l.kind))
    <3> DEFINE u == FlushRemuxer(s, l.load)
    <3>1. WorkerSound(u) /\ Keeps(s, u, x, T) /\ SameLoops(s, u)
      BY <2>1, RemuxerFlushed
    <3>2. w' = Post(u, "complete", l.load, {}, "none") BY <1>1, <1>4, <2>1, <2>3
    <3> HIDE DEF u
    <3>3. Speaks(u, l.load) BY <2>1, <3>1 DEF Speaks, SameLoops
    <3>4. WorkerSound(w') /\ Like(u, w') /\ Keeps(u, w', x, T)
      BY <3>1, <3>2, <3>3, PostOther
    <3>5. w'.runId = w.runId /\ \A o \in w'.loops : o \in w.loops
      BY <1>2, <2>1, <3>1, <3>4 DEF Like, SameLoops
    <3>6. Keeps(w, w', x, T) BY <2>1, <3>1, <3>4, KeepsTransitive
    <3> QED BY <3>4, <3>5, <3>6, EndStep
  <2>4. CASE ~(i > Len(Segments(l.kind)))
    <3>1. /\ WorkerSound(t) /\ Keeps(s, t, x, T) /\ t.runId = w.runId /\ t.stash = {} /\ t.chunks = w.chunks
          /\ t.loops = r.loops /\ Speaks(t, l.load) /\ t.pipe = "on"
      <4>1. CASE seg.reset
        <5>1. /\ WorkerSound(t) /\ Keeps(s, t, x, T) /\ SameLoops(s, t) /\ t.stash = {} /\ t.chunks = s.chunks
          BY <4>1, <2>1, TransmuxReset
        <5> QED BY <5>1, <2>1 DEF SameLoops, Speaks
      <4>2. CASE ~seg.reset BY <4>2, <2>1, <2>2 DEF Keeps
      <4> QED BY <4>1, <4>2
    <3>2. w' = WaitIfPaused(t, m, k) BY <1>1, <1>4, <2>1, <2>4
    <3> HIDE DEF t
    <3>3. Keeps(w, t, x, T) BY <2>1, <3>1, KeepsTransitive
    <3>4. i \in 1 .. Len(Segments(l.kind)) BY <2>4, <1>m, <1>f
    <3>5. Idle(t) BY <1>2, <1>4, <3>1 DEF Idle
    <3>6. Ready(t, m, k)
      BY <1>m, <1>f, <2>2, <3>1, <3>4 DEF Ready, Speaks
    <3>7. \A o \in t.loops : o \in w.loops BY <1>2, <3>1
    <3> QED BY <1>m, <3>1, <3>2, <3>3, <3>5, <3>6, <3>7, WaitStep
  <2> QED BY <2>3, <2>4
<1> QED BY <1>3, <1>4

LEMMA InitLoadedSound ==
  ASSUME NEW x, NEW T, WorkerSound(w), KindMatch(w, x, T), NEW l \in w.loops, InitLoaded(l)
  PROVE  StepSound(w, w', x, T)
<1> DEFINE r == Without(l)
           u == Post(PostInfo(r, l.load), "init-segment", l.load, {}, "video")
           s == [u EXCEPT !.initSent = TRUE, !.lastInit = 1]
<1>1. /\ l.pc = "init" /\ l \in LoadLoop
      /\ w' = IF w.runId = l.run THEN WaitIfPaused(s, l, "seg") ELSE r
  BY LoopTyped DEF InitLoaded
<1>2. /\ WorkerSound(r) /\ Keeps(w, r, x, T) /\ r.runId = w.runId
      /\ r.stash = w.stash /\ r.chunks = w.chunks
      /\ l.run = w.runId => Idle(r) /\ LoopSound(w, l) /\ Speaks(r, l.load) /\ r.pipe = "on"
      /\ \A o \in r.loops : o \in w.loops
  BY <1>1, WithoutSound
<1> HIDE DEF r
<1>3. CASE w.runId # l.run BY <1>1, <1>2, <1>3, EndStep
<1>4. CASE w.runId = l.run
  <2>1. l.kind = "cmaf" /\ l.i \in 1 .. Len(Segments(l.kind)) /\ w.stash = {}
    BY <1>1, <1>2, <1>4 DEF LoopSound, WantsInit, InSegment
  <2>2. r.gen = x.gen => T = {"video"}
    BY <2>1, <1>2, <1>4 DEF KindMatch, TracksOf, Keeps
  <2>3. WorkerSound(u) /\ Like(r, u) /\ Keeps(r, u, x, T) BY <1>2, <1>4, <2>2, PostVideoInit
  <2> HIDE DEF u
  <2>4. /\ DOMAIN s = WorkerFields /\ SameLoops(u, s) /\ s.stash = u.stash /\ s.chunks = u.chunks
        /\ s.decodes = u.decodes /\ s.units = u.units /\ s.out = u.out
    <3>1. DOMAIN u = WorkerFields BY <2>3 DEF Like
    <3> QED BY <3>1 DEF SameLoops, WorkerFields
  <2> HIDE DEF s
  <2>5. WorkerSound(s) /\ Keeps(u, s, x, T) BY <2>3, <2>4, DropSound
  <2>6. Keeps(w, s, x, T) BY <1>2, <2>3, <2>5, KeepsTransitive
  <2>7. s.runId = w.runId /\ s.loops = r.loops /\ s.stash = {} /\ s.pipe = "on" /\ l.load = s.gen
    BY <1>2, <1>4, <2>1, <2>3, <2>4 DEF Like, SameLoops, Speaks
  <2>8. Idle(s) /\ \A o \in s.loops : o \in w.loops BY <1>2, <1>4, <2>7 DEF Idle
  <2>9. Ready(s, l, "seg") BY <2>1, <2>7 DEF Ready
  <2>10. w' = WaitIfPaused(s, l, "seg") BY <1>1, <1>4
  <2> QED BY <1>1, <2>5, <2>6, <2>7, <2>8, <2>9, <2>10, WaitStep
<1> QED BY <1>3, <1>4

\* A whole fMP4 segment, after its init segment if there was none.
LEMMA Fmp4Flushed ==
  ASSUME NEW s, WorkerSound(s), NEW load, Speaks(s, load), s.pipe = "on", NEW x, NEW T,
         s.chunks /\ s.gen = x.gen => T = {"video"}
  PROVE  LET t == FlushFmp4Segment(s, load)
         IN  WorkerSound(t) /\ Keeps(s, t, x, T) /\ SameLoops(s, t) /\ t.stash = s.stash
             /\ (t.chunks => s.chunks)
<1>1. CASE ~s.chunks
  <2>1. FlushFmp4Segment(s, load) = s BY <1>1 DEF FlushFmp4Segment
  <2> QED BY <2>1 DEF Keeps, SameLoops
<1>2. CASE s.chunks
  <2> DEFINE a == [s EXCEPT !.chunks = FALSE]
             b == [a EXCEPT !.initSent = TRUE]
             u == IF s.initSent THEN a
                  ELSE Post(PostInfo(b, load), "init-segment", load, {}, "video")
             t == PostMedia(u, load, {s.inputs})
  <2>1. FlushFmp4Segment(s, load) = t BY <1>2 DEF FlushFmp4Segment
  <2>2. DOMAIN s = WorkerFields /\ s.inputs \in Nat BY DEF WorkerSound, WorkerTyped
  <2>3. /\ DOMAIN a = WorkerFields /\ SameLoops(s, a) /\ a.stash = s.stash /\ ~a.chunks
        /\ a.decodes = s.decodes /\ a.units = s.units /\ a.out = s.out
    BY <2>2 DEF SameLoops, WorkerFields
  <2> HIDE DEF a
  <2>4. /\ DOMAIN b = WorkerFields /\ SameLoops(s, b) /\ b.stash = s.stash /\ ~b.chunks
        /\ b.decodes = s.decodes /\ b.units = s.units /\ b.out = s.out
    BY <2>3 DEF SameLoops, WorkerFields
  <2> HIDE DEF b
  <2>5. WorkerSound(a) /\ Keeps(s, a, x, T) BY <2>3, DropSound
  <2>6. WorkerSound(b) /\ Keeps(s, b, x, T) BY <2>4, DropSound
  <2>7. WorkerSound(u) /\ Keeps(s, u, x, T) /\ SameLoops(s, u) /\ u.stash = s.stash /\ ~u.chunks
    <3>1. CASE s.initSent BY <3>1, <2>3, <2>5
    <3>2. CASE ~s.initSent
      <4>1. Speaks(b, load) BY <2>4 DEF SameLoops, Speaks
      <4>2. b.gen = x.gen => T = {"video"} BY <1>2, <2>4 DEF SameLoops
      <4>3. WorkerSound(u) /\ Like(b, u) /\ Keeps(b, u, x, T)
        BY <3>2, <2>6, <4>1, <4>2, PostVideoInit
      <4>4. Keeps(s, u, x, T) BY <2>6, <4>3, KeepsTransitive
      <4> QED BY <2>4, <4>3, <4>4 DEF Like, SameLoops
    <3> QED BY <3>1, <3>2
  <2> HIDE DEF u
  <2>8. Speaks(u, load) /\ u.pipe = "on" BY <2>7 DEF SameLoops, Speaks
  <2>9. {s.inputs} \in SUBSET Nat /\ \E i \in Nat : {s.inputs} = {i}
    BY <2>2
  <2>10. WorkerSound(t) /\ Like(u, t) /\ Keeps(u, t, x, T)
    BY <2>7, <2>8, <2>9, PostMediaSound
  <2>11. SameLoops(s, t) /\ t.stash = s.stash /\ ~t.chunks
    BY <2>7, <2>10 DEF Like, SameLoops
  <2>12. Keeps(s, t, x, T) BY <2>7, <2>10, KeepsTransitive
  <2> QED BY <2>1, <2>10, <2>11, <2>12
<1> QED BY <1>1, <1>2

LEMMA SegmentSettlesSound ==
  ASSUME NEW x, NEW T, WorkerSound(w), KindMatch(w, x, T), NEW l \in w.loops, SegmentSettles(l)
  PROVE  StepSound(w, w', x, T)
<1> DEFINE s == Without(l)
           t == IF s.fmp4 THEN FlushFmp4Segment(s, l.load)
                ELSE IF Hls(l.kind) THEN FlushRemuxer(s, l.load)
                ELSE FinishTsInputBoundary(s, l.load)
<1>1. /\ l.pc = "settled" /\ l \in LoadLoop
      /\ w' = IF s.runId # l.run \/ l.res = "cancelled" THEN s
              ELSE IF l.res = "error" THEN Post(s, "error", l.load, {}, "none")
              ELSE WaitIfPaused(t, l, "top")
  BY LoopTyped DEF SegmentSettles
<1>2. /\ WorkerSound(s) /\ Keeps(w, s, x, T) /\ s.runId = w.runId
      /\ s.stash = w.stash /\ s.chunks = w.chunks
      /\ l.run = w.runId => Idle(s) /\ LoopSound(w, l) /\ Speaks(s, l.load) /\ s.pipe = "on"
      /\ \A o \in s.loops : o \in w.loops
      /\ s.fmp4 = w.fmp4
  BY <1>1, WithoutSound
<1> HIDE DEF s
<1>3. CASE s.runId # l.run \/ l.res = "cancelled" BY <1>1, <1>2, <1>3, EndStep
<1>4. CASE s.runId = l.run /\ l.res = "error"
  <2>1. WorkerSound(w') /\ Like(s, w') /\ Keeps(s, w', x, T)
    BY <1>1, <1>2, <1>4, PostOther
  <2>2. w'.runId = w.runId /\ \A o \in w'.loops : o \in w.loops
    BY <1>2, <2>1 DEF Like
  <2>3. Keeps(w, w', x, T) BY <1>2, <2>1, KeepsTransitive
  <2> QED BY <2>1, <2>2, <2>3, EndStep
<1>5. CASE s.runId = l.run /\ l.res # "error" /\ l.res # "cancelled"
  <2>1. /\ w.chunks => l.kind = "cmaf"
        /\ w.stash # {} => ~w.fmp4
    BY <1>2, <1>5 DEF LoopSound
  <2>2. s.chunks /\ s.gen = x.gen => T = {"video"}
    BY <1>2, <1>5, <2>1 DEF KindMatch, TracksOf, Keeps
  <2>3. WorkerSound(t) /\ Keeps(s, t, x, T) /\ SameLoops(s, t) /\ t.stash = {} /\ (t.chunks => s.chunks)
    <3>1. CASE s.fmp4 BY <3>1, <1>2, <1>5, <2>1, <2>2, Fmp4Flushed
    <3>2. CASE ~s.fmp4 /\ Hls(l.kind) BY <3>2, <1>2, <1>5, RemuxerFlushed
    <3>3. CASE ~s.fmp4 /\ ~Hls(l.kind) BY <3>3, <1>2, <1>5, BoundaryFinished
    <3> QED BY <3>1, <3>2, <3>3
  <2>4. w' = WaitIfPaused(t, l, "top") BY <1>1, <1>5
  <2> HIDE DEF t
  <2>5. Keeps(w, t, x, T) BY <1>2, <2>3, KeepsTransitive
  <2>6. /\ t.runId = w.runId /\ t.loops = s.loops /\ t.pipe = "on" /\ l.load = t.gen
        /\ (t.chunks => l.kind = "cmaf")
    BY <1>2, <1>5, <2>1, <2>3 DEF SameLoops, Speaks
  <2>7. Idle(t) /\ \A o \in t.loops : o \in w.loops BY <1>2, <1>5, <2>6 DEF Idle
  <2>8. Ready(t, l, "top") BY <2>3, <2>6 DEF Ready
  <2> QED BY <1>1, <2>3, <2>4, <2>5, <2>6, <2>7, <2>8, WaitStep
<1> QED BY <1>3, <1>4, <1>5

----------------------------------------------------------------------------
(* The fetch                                                               *)

\* The fetch in flight is for a segment of the current loop's stream.
LEMMA FetchAwaited ==
  ASSUME WorkerSound(w), w.io # NoIo
  PROVE  \E l \in w.loops : /\ Awaits(w, l) /\ LoopSound(w, l) /\ l \in LoadLoop
                            /\ Format = Segments(l.kind)[l.i].fmt
                            /\ l.i \in 1 .. Len(Segments(l.kind))
                            /\ \A o \in w.loops : o.run = w.runId => o = l
                            /\ Speaks(w, w.io.load) /\ w.pipe = "on"
<1>1. PICK l \in w.loops : Awaits(w, l) BY DEF WorkerSound, IoSound
<1>2. l.run = w.runId /\ l.pc = "load" /\ l.run = w.io.run /\ l.load = w.io.load /\ l.i = w.io.i
  BY <1>1 DEF Awaits, Current
<1>3. LoopSound(w, l) /\ \A o \in w.loops : o.run = w.runId => o = l
  BY <1>2 DEF WorkerSound, LoopsSound
<1>4. (CHOOSE o \in w.loops : o.run = w.io.run) = l
  <2>1. \E o \in w.loops : o.run = w.io.run BY <1>2
  <2> DEFINE c == CHOOSE o \in w.loops : o.run = w.io.run
  <2>2. c \in w.loops /\ c.run = w.io.run BY <2>1
  <2> HIDE DEF c
  <2>3. c = l BY <2>2, <1>2, <1>3
  <2> QED BY <2>3 DEF c
<1>5. Format = Segments(l.kind)[l.i].fmt BY <1>2, <1>4 DEF Format
<1>6. l.i \in 1 .. Len(Segments(l.kind)) /\ l.load = w.gen /\ w.pipe = "on"
  BY <1>2, <1>3 DEF LoopSound, InSegment
<1>7. Speaks(w, w.io.load) BY <1>2, <1>6 DEF Speaks, WorkerSound, PipeSound
<1> QED BY <1>1, <1>3, <1>5, <1>6, <1>7, LoopTyped

\* Something of the response has come.
LEMMA FetchGoesOn ==
  ASSUME NEW s, WorkerSound(s), NEW t, DOMAIN t = WorkerFields,
         t.pipe = s.pipe, t.made = s.made, t.gen = s.gen, t.runId = s.runId, t.mode = s.mode,
         t.paused = s.paused, t.gate = s.gate, t.loops = s.loops, t.inputs \in Nat, t.units = s.units, t.out = s.out,
         t.io \in Fetch, t.decodes \in SUBSET Decode, \A d \in t.decodes : d.current => d.of = t.gen,
         t.stash \subseteq {t.inputs},
         NEW l \in s.loops, Awaits(s, l), \A o \in s.loops : o.run = s.runId => o = l, LoopSound(t, l), Awaits(t, l),
         NEW x, NEW T, KindMatch(s, x, T)
  PROVE  StepSound(s, t, x, T)
<1>1. WorkerTyped(t) BY DEF WorkerSound, WorkerTyped
<1>2. LoopsSound(t) BY DEF WorkerSound, LoopsSound
<1>3. IoSound(t) BY DEF IoSound
<1>4. s.pipe = "on" BY DEF LoopSound
<1>5. PipeSound(t) BY <1>4 DEF WorkerSound, PipeSound
<1>6. EventsSound(t)
  <2>1. \A e : EventSound(s, e) => EventSound(t, e) BY DEF EventSound
  <2> QED BY <2>1 DEF WorkerSound, EventsSound
<1>7. KindMatch(t, x, T) BY DEF KindMatch
<1> QED BY <1>1, <1>2, <1>3, <1>5, <1>6, <1>7, QuietKeeps DEF StepSound, WorkerSound

\* The promise of the fetch settles.
LEMMA SettleSound ==
  ASSUME NEW s, WorkerSound(s), NEW res \in {"ok", "cancelled", "error"}, NEW x, NEW T, KindMatch(s, x, T)
  PROVE  StepSound(s, Settle([s EXCEPT !.io = NoIo], s.io.run, res), x, T)
<1> DEFINE after(l) == IF l.run = s.io.run /\ l.pc = "load" THEN [l EXCEPT !.pc = "settled", !.res = res] ELSE l
           t == Settle([s EXCEPT !.io = NoIo], s.io.run, res)
<1>0. DOMAIN s = WorkerFields /\ s.loops \in SUBSET LoadLoop
  BY DEF WorkerSound, WorkerTyped
<1>1. /\ DOMAIN t = WorkerFields /\ t.loops = {after(l) : l \in s.loops} /\ t.io = NoIo
      /\ t.pipe = s.pipe /\ t.made = s.made /\ t.gen = s.gen /\ t.runId = s.runId /\ t.mode = s.mode
      /\ t.paused = s.paused /\ t.gate = s.gate /\ t.fmp4 = s.fmp4 /\ t.inputs = s.inputs
      /\ t.stash = s.stash /\ t.chunks = s.chunks /\ t.decodes = s.decodes /\ t.units = s.units
      /\ t.out = s.out
  BY <1>0 DEF Settle, WorkerFields
<1>2. ASSUME NEW l \in LoadLoop
      PROVE  /\ after(l) \in LoadLoop /\ after(l).run = l.run /\ after(l).load = l.load /\ after(l).kind = l.kind
             /\ after(l).i = l.i /\ after(l).k = l.k
             /\ after(l) = l \/ (l.pc = "load" /\ after(l).pc = "settled")
  <2>1. CASE l.run = s.io.run /\ l.pc = "load" BY <2>1 DEF LoadLoop
  <2>2. CASE ~(l.run = s.io.run /\ l.pc = "load") BY <2>2
  <2> QED BY <2>1, <2>2
<1> HIDE DEF after, t
<1>3. LoopsSound(t)
  <2>1. \A m \in t.loops : m.run <= t.runId BY <1>0, <1>1, <1>2 DEF WorkerSound, LoopsSound
  <2>2. ASSUME NEW m \in t.loops, m.run = t.runId
        PROVE  LoopSound(t, m)
    <3>1. PICK l \in s.loops : m = after(l) BY <1>1
    <3>2. l \in LoadLoop /\ LoopSound(s, l)
      BY <3>1, <2>2, <1>0, <1>1, <1>2 DEF WorkerSound, LoopsSound
    <3>3. CASE m = l BY <3>2, <3>3, <1>1 DEF LoopSound
    <3>4. CASE l.pc = "load" /\ m.pc = "settled"
      BY <3>1, <3>2, <3>4, <1>1, <1>2 DEF LoopSound, InSegment, WantsInit
    <3> QED BY <3>1, <3>2, <3>3, <3>4, <1>2
  <2>3. ASSUME NEW m \in t.loops, NEW o \in t.loops, m.run = t.runId, o.run = t.runId
        PROVE  m = o
    <3>1. PICK l \in s.loops : m = after(l) BY <1>1
    <3>2. PICK h \in s.loops : o = after(h) BY <1>1
    <3>3. l.run = s.runId /\ h.run = s.runId BY <3>1, <3>2, <2>3, <1>0, <1>1, <1>2
    <3>4. l = h BY <3>3 DEF WorkerSound, LoopsSound
    <3> QED BY <3>1, <3>2, <3>4
  <2> QED BY <2>1, <2>2, <2>3 DEF LoopsSound
<1>4. NoIo \in Fetch BY ControllerAssumption DEF NoIo, Fetch, Loads
<1>5. WorkerTyped(t)
  <2>1. t.loops \in SUBSET LoadLoop BY <1>0, <1>1, <1>2
  <2> QED BY <2>1, <1>1, <1>4 DEF WorkerSound, WorkerTyped
<1>6. IoSound(t) BY <1>1 DEF IoSound
<1>7. PipeSound(t) BY <1>1 DEF WorkerSound, PipeSound
<1>8. EventsSound(t)
  <2>1. \A e : EventSound(s, e) => EventSound(t, e) BY <1>1 DEF EventSound
  <2> QED BY <2>1, <1>1 DEF WorkerSound, EventsSound
<1>9. KindMatch(t, x, T)
  <2> SUFFICES ASSUME t.gen = x.gen, NEW m \in t.loops, m.run = t.runId
               PROVE  T = TracksOf(m.kind)
    BY DEF KindMatch
  <2>1. PICK l \in s.loops : m = after(l) BY <1>1
  <2>2. l.run = s.runId /\ l.kind = m.kind BY <2>1, <1>0, <1>1, <1>2
  <2> QED BY <2>2, <1>1 DEF KindMatch
<1>10. Keeps(s, t, x, T) BY <1>1, QuietKeeps
<1> QED BY <1>3, <1>5, <1>6, <1>7, <1>8, <1>9, <1>10 DEF StepSound, WorkerSound, t

\* A new demuxer and remuxer announce their tracks.
LEMMA SetupSound ==
  ASSUME NEW s, WorkerSound(s), Speaks(s, s.io.load), NEW x, NEW T, s.gen = x.gen => T = BothTracks
  PROVE  LET t == SetupTS(s)
         IN  /\ WorkerSound(t) /\ Keeps(s, t, x, T) /\ SameLoops(s, t) /\ DOMAIN t = WorkerFields
             /\ t.stash = s.stash /\ t.chunks = s.chunks /\ t.decodes = s.decodes
<1> DEFINE a == Post(PostInfo(s, s.io.load), "init-segment", s.io.load, {}, "video")
           b == Post(PostInfo(a, s.io.load), "init-segment", s.io.load, {}, "audio")
           t == [b EXCEPT !.tx = TRUE]
<1>0. DOMAIN s = WorkerFields BY DEF WorkerSound, WorkerTyped
<1>1. CASE s.tx
  <2>1. SetupTS(s) = s BY <1>1 DEF SetupTS
  <2> QED BY <1>0, <2>1 DEF Keeps, SameLoops
<1>2. CASE ~s.tx
  <2>1. SetupTS(s) = t BY <1>2 DEF SetupTS
  <2>2. WorkerSound(b) /\ Like(s, b) /\ Keeps(s, b, x, T) BY PostPair
  <2> HIDE DEF a, b
  <2>3. /\ DOMAIN t = WorkerFields /\ SameLoops(b, t) /\ t.stash = b.stash /\ t.chunks = b.chunks
        /\ t.decodes = b.decodes /\ t.units = b.units /\ t.out = b.out
    <3>1. DOMAIN b = WorkerFields BY <2>2 DEF Like
    <3> QED BY <3>1 DEF SameLoops, WorkerFields
  <2> HIDE DEF t
  <2>4. WorkerSound(t) /\ Keeps(b, t, x, T) BY <2>2, <2>3, DropSound
  <2>5. Keeps(s, t, x, T) BY <2>2, <2>4, KeepsTransitive
  <2>6. SameLoops(s, t) /\ t.stash = s.stash /\ t.chunks = s.chunks /\ t.decodes = s.decodes
    BY <2>2, <2>3 DEF Like, SameLoops
  <2> QED BY <2>1, <2>3, <2>4, <2>5, <2>6
<1> QED BY <1>1, <1>2

\* A chunk is counted.
LEMMA ChunkCounted ==
  ASSUME NEW f \in Fetch
  PROVE  LET g == [f EXCEPT !.st = "buffering", !.n = @ + 1]
         IN  g \in Fetch /\ g.run = f.run /\ g.load = f.load /\ g.i = f.i /\ g.st = "buffering"
<1>1. /\ DOMAIN f = {"run", "load", "i", "st", "n", "paused", "fresh"} /\ f.run \in Nat /\ f.load \in Loads /\ f.i \in Nat
      /\ f.n \in Nat /\ f.paused \in BOOLEAN /\ f.fresh \in BOOLEAN
  BY DEF Fetch
<1> DEFINE m == f.n + 1
           h == [run |-> f.run, load |-> f.load, i |-> f.i, st |-> "buffering", n |-> m, paused |-> f.paused,
                 fresh |-> f.fresh]
           g == [f EXCEPT !.st = "buffering", !.n = @ + 1]
<1>2. m \in Nat BY <1>1
<1>3. g = [f EXCEPT !.st = "buffering", !.n = m]
  OBVIOUS
<1> HIDE DEF m, g
<1>4. g = h BY <1>1, <1>3 DEF Fetch
<1>5. h \in Fetch /\ h.run = f.run /\ h.load = f.load /\ h.i = f.i /\ h.st = "buffering"
  BY <1>1, <1>2 DEF Fetch
<1> HIDE DEF h
<1> QED BY <1>4, <1>5 DEF g

LEMMA TsChunkSound ==
  ASSUME NEW x, NEW T, WorkerSound(w), KindMatch(w, x, T), w.io # NoIo, NEW emit \in BOOLEAN, TsChunk(emit)
  PROVE  StepSound(w, w', x, T)
<1> DEFINE s == IF w.io.fresh THEN SetupTS(w) ELSE w
           f == [s.io EXCEPT !.st = "buffering", !.n = @ + 1, !.fresh = FALSE]
           new == [current |-> TRUE, of |-> s.io.load]
           t == [s EXCEPT !.stash = @ \cup {s.inputs}, !.io.st = "buffering", !.io.n = @ + 1,
                          !.io.fresh = FALSE, !.decodes = @ \cup {new}]
<1>1. PICK l \in w.loops : /\ Awaits(w, l) /\ LoopSound(w, l) /\ l \in LoadLoop
                           /\ Format = Segments(l.kind)[l.i].fmt
                           /\ l.i \in 1 .. Len(Segments(l.kind))
                           /\ \A o \in w.loops : o.run = w.runId => o = l
                           /\ Speaks(w, w.io.load) /\ w.pipe = "on"
  BY FetchAwaited
<1>2. /\ Format = "ts" /\ ~w.fmp4
      /\ w' = IF emit THEN FlushRemuxer(t, t.io.load) ELSE t
  BY DEF TsChunk
<1>3. l.kind # "cmaf" /\ ~w.chunks
  <2>1. l.kind \in StreamKinds BY <1>1 DEF LoadLoop
  <2>2. l.kind # "cmaf" BY <1>1, <1>2, <2>1, SegmentFacts
  <2> QED BY <1>1, <2>2 DEF LoopSound
<1>4. w.gen = x.gen => T = BothTracks
  BY <1>1, <1>3 DEF KindMatch, TracksOf, Awaits, Current
<1>5. /\ WorkerSound(s) /\ Keeps(w, s, x, T) /\ SameLoops(w, s) /\ DOMAIN s = WorkerFields
      /\ s.stash = w.stash /\ s.chunks = w.chunks /\ s.decodes = w.decodes
  <2>1. CASE w.io.fresh BY <2>1, <1>1, <1>4, SetupSound
  <2>2. CASE ~w.io.fresh
    BY <2>2 DEF Keeps, SameLoops, WorkerSound, WorkerTyped
  <2> QED BY <2>1, <2>2
<1> HIDE DEF s
<1>6. s.io \in Fetch /\ s.decodes \in SUBSET Decode /\ s.inputs \in Nat /\ s.gen \in Loads /\ PipeSound(s)
  BY <1>5 DEF WorkerSound, WorkerTyped
<1>7. /\ DOMAIN t = WorkerFields
      /\ t.pipe = s.pipe /\ t.made = s.made /\ t.gen = s.gen /\ t.runId = s.runId /\ t.mode = s.mode
      /\ t.paused = s.paused /\ t.gate = s.gate /\ t.loops = s.loops /\ t.inputs = s.inputs /\ t.units = s.units
      /\ t.out = s.out /\ t.fmp4 = s.fmp4 /\ t.chunks = s.chunks
      /\ t.stash = s.stash \cup {s.inputs} /\ t.decodes = s.decodes \cup {new}
      /\ t.io = f
  BY <1>5, <1>6 DEF WorkerFields, Fetch
<1>8. f \in Fetch /\ f.run = s.io.run /\ f.load = s.io.load /\ f.i = s.io.i /\ f.st = "buffering"
  <2> DEFINE g == [s.io EXCEPT !.st = "buffering", !.n = @ + 1]
  <2>1. g \in Fetch /\ g.run = s.io.run /\ g.load = s.io.load /\ g.i = s.io.i /\ g.st = "buffering"
    BY <1>6, ChunkCounted
  <2>2. f = [g EXCEPT !.fresh = FALSE]
    OBVIOUS
  <2> HIDE DEF f, g
  <2> QED BY <2>1, <2>2 DEF Fetch
<1>9. new \in Decode /\ new.of = s.gen
  BY <1>1, <1>5, <1>6, <1>8 DEF Decode, Speaks, SameLoops, Fetch
<1> HIDE DEF t, f, new
<1>9a. Awaits(s, l)
  BY <1>1, <1>5 DEF Awaits, Current, SameLoops
<1>9b. Awaits(t, l)
  BY <1>7, <1>8, <1>9a DEF Awaits, Current
<1>9c. LoopSound(s, l) /\ Segments(l.kind)[l.i].fmt = "ts" /\ ~s.fmp4
  BY <1>1, <1>2, <1>5 DEF LoopSound, SameLoops
<1>9d. LoopSound(t, l)
  BY <1>7, <1>9a, <1>9c DEF LoopSound, Awaits
<1>10. LoopSound(t, l) /\ Awaits(t, l) /\ Awaits(s, l) BY <1>9a, <1>9b, <1>9d
<1>11. t.decodes \in SUBSET Decode /\ (\A d \in t.decodes : d.current => d.of = t.gen) /\ t.stash \subseteq {t.inputs}
       /\ t.io \in Fetch /\ t.inputs \in Nat
  BY <1>6, <1>7, <1>8, <1>9 DEF PipeSound
<1>12. l \in s.loops /\ (\A o \in s.loops : o.run = s.runId => o = l) /\ KindMatch(s, x, T)
  BY <1>1, <1>5 DEF SameLoops, KindMatch
<1>13. StepSound(s, t, x, T) BY <1>5, <1>7, <1>10, <1>11, <1>12, FetchGoesOn
<1>14. StepSound(w, t, x, T) BY <1>5, <1>13, KeepsTransitive DEF StepSound
<1>15. CASE emit
  <2>1. Speaks(t, t.io.load) /\ t.pipe = "on"
    BY <1>1, <1>5, <1>7, <1>8 DEF Speaks, SameLoops
  <2> DEFINE u == FlushRemuxer(t, t.io.load)
  <2>2. WorkerSound(u) /\ Keeps(t, u, x, T) /\ SameLoops(t, u)
    BY <1>14, <2>1, RemuxerFlushed DEF StepSound
  <2>3. w' = u BY <1>2, <1>15
  <2> HIDE DEF u
  <2>4. Keeps(w, u, x, T) /\ KindMatch(u, x, T)
    BY <1>14, <2>2, KeepsTransitive DEF StepSound, KindMatch, SameLoops
  <2> QED BY <2>2, <2>3, <2>4 DEF StepSound
<1>16. CASE ~emit BY <1>2, <1>14, <1>16
<1> QED BY <1>15, <1>16

LEMMA OtherResponseSound ==
  ASSUME NEW x, NEW T, WorkerSound(w), KindMatch(w, x, T), w.io # NoIo, Fmp4Chunk \/ PlaylistResponse
  PROVE  StepSound(w, w', x, T)
<1>1. PICK l \in w.loops : /\ Awaits(w, l) /\ LoopSound(w, l) /\ l \in LoadLoop
                           /\ Format = Segments(l.kind)[l.i].fmt
                           /\ l.i \in 1 .. Len(Segments(l.kind))
                           /\ \A o \in w.loops : o.run = w.runId => o = l
                           /\ Speaks(w, w.io.load) /\ w.pipe = "on"
  BY FetchAwaited
<1>2. /\ DOMAIN w = WorkerFields /\ w.io \in Fetch /\ w.decodes \in SUBSET Decode /\ PipeSound(w) /\ l.kind \in StreamKinds
      /\ w.inputs \in Nat
  BY <1>1 DEF WorkerSound, WorkerTyped, LoadLoop
<1>3. w.stash = {}
  BY <1>1 DEF LoopSound, Fmp4Chunk, PlaylistResponse
<1>4. (\A d \in w.decodes : d.current => d.of = w.gen) /\ w.stash \subseteq {w.inputs}
  BY <1>2 DEF PipeSound
<1>5. CASE Fmp4Chunk
  <2> DEFINE f == [w.io EXCEPT !.st = "buffering", !.n = @ + 1]
             t == [w EXCEPT !.fmp4 = TRUE, !.chunks = TRUE, !.io.st = "buffering", !.io.n = @ + 1]
  <2>1. w' = t /\ l.kind = "cmaf" BY <1>1, <1>2, <1>5, SegmentFacts DEF Fmp4Chunk
  <2>2. /\ DOMAIN t = WorkerFields
        /\ t.pipe = w.pipe /\ t.made = w.made /\ t.gen = w.gen /\ t.runId = w.runId /\ t.mode = w.mode
        /\ t.paused = w.paused /\ t.gate = w.gate /\ t.loops = w.loops /\ t.inputs = w.inputs /\ t.units = w.units
        /\ t.out = w.out /\ t.stash = w.stash /\ t.decodes = w.decodes /\ t.io = f
    BY <1>2 DEF WorkerFields, Fetch
  <2>3. f \in Fetch /\ f.run = w.io.run /\ f.load = w.io.load /\ f.i = w.io.i /\ f.st = "buffering"
    BY <1>2, ChunkCounted
  <2> HIDE DEF t, f
  <2>4. LoopSound(t, l) /\ Awaits(t, l)
    BY <1>1, <1>3, <2>1, <2>2, <2>3 DEF LoopSound, Awaits, Current
  <2> QED BY <1>1, <1>2, <1>4, <2>1, <2>2, <2>3, <2>4, FetchGoesOn
<1>6. CASE PlaylistResponse
  <2> DEFINE f == [w.io EXCEPT !.st = "text"]
             t == [w EXCEPT !.io.st = "text"]
  <2>1. w' = t /\ l.kind = "hidden"
    BY <1>1, <1>2, <1>6, SegmentFacts DEF PlaylistResponse
  <2>2. /\ DOMAIN t = WorkerFields
        /\ t.pipe = w.pipe /\ t.made = w.made /\ t.gen = w.gen /\ t.runId = w.runId /\ t.mode = w.mode
        /\ t.paused = w.paused /\ t.gate = w.gate /\ t.loops = w.loops /\ t.inputs = w.inputs /\ t.units = w.units
        /\ t.out = w.out /\ t.stash = w.stash /\ t.decodes = w.decodes /\ t.io = f /\ t.chunks = w.chunks
        /\ t.fmp4 = w.fmp4
    BY <1>2 DEF WorkerFields, Fetch
  <2>3. f \in Fetch /\ f.run = w.io.run /\ f.load = w.io.load /\ f.i = w.io.i
    BY <1>2 DEF Fetch
  <2> HIDE DEF t, f
  <2>4. LoopSound(t, l) /\ Awaits(t, l)
    BY <1>1, <1>3, <2>1, <2>2, <2>3 DEF LoopSound, Awaits, Current
  <2> QED BY <1>1, <1>2, <1>4, <2>1, <2>2, <2>3, <2>4, FetchGoesOn
<1> QED BY <1>5, <1>6

LEMMA FetchSettlesSound ==
  ASSUME NEW x, NEW T, WorkerSound(w), KindMatch(w, x, T), w.io # NoIo, JunkChunk \/ FetchCompletes \/ FetchFails
  PROVE  StepSound(w, w', x, T)
<1>1. CASE JunkChunk
  <2> DEFINE s == Post(w, "error", w.io.load, {}, "none")
  <2>1. Speaks(w, w.io.load) BY FetchAwaited
  <2>2. WorkerSound(s) /\ Like(w, s) /\ Keeps(w, s, x, T) BY <2>1, PostOther
  <2>3. w' = AbortCurrentLoad(s) BY <1>1 DEF JunkChunk
  <2> HIDE DEF s
  <2>4. s.io # NoIo /\ KindMatch(s, x, T) BY <2>2 DEF Like, KindMatch
  <2>5. w' = Settle([s EXCEPT !.io = NoIo], s.io.run, "cancelled")
    BY <2>3, <2>4 DEF AbortCurrentLoad
  <2>6. StepSound(s, w', x, T) BY <2>2, <2>4, <2>5, SettleSound
  <2> QED BY <2>2, <2>6, KeepsTransitive DEF StepSound
<1>2. CASE FetchCompletes BY <1>2, SettleSound DEF FetchCompletes
<1>3. CASE FetchFails BY <1>3, SettleSound DEF FetchFails
<1> QED BY <1>1, <1>2, <1>3

LEMMA FetchEventSound ==
  ASSUME NEW x, NEW T, WorkerSound(w), KindMatch(w, x, T), FetchEvent
  PROVE  StepSound(w, w', x, T)
<1>1. w.io # NoIo BY DEF FetchEvent, Working, NoIo
<1> QED BY <1>1, TsChunkSound, OtherResponseSound, FetchSettlesSound DEF FetchEvent

\* A raw audio frame is decoded, or dropped.
LEMMA DecodeSound ==
  ASSUME NEW x, NEW T, WorkerSound(w), KindMatch(w, x, T), NEW d \in w.decodes, DecodeAudio(d)
  PROVE  StepSound(w, w', x, T)
<1> DEFINE s == [w EXCEPT !.decodes = @ \ {d}]
<1>0. DOMAIN w = WorkerFields /\ w.decodes \in SUBSET Decode
  BY DEF WorkerSound, WorkerTyped
<1>1. w' = IF d.current THEN Post(s, "pcm-audio-data", d.of, {}, "audio") ELSE s
  BY DEF DecodeAudio
<1>2. /\ DOMAIN s = WorkerFields /\ SameLoops(w, s) /\ s.stash = w.stash /\ s.chunks = w.chunks
      /\ s.decodes = w.decodes \ {d} /\ s.units = w.units /\ s.out = w.out
  BY <1>0 DEF SameLoops, WorkerFields
<1> HIDE DEF s
<1>3. WorkerTyped(s) /\ PipeSound(s)
  BY <1>0, <1>2 DEF WorkerSound, WorkerTyped, PipeSound, SameLoops
<1>4. LoopsSound(s)
  <2>1. \A l : LoopSound(w, l) => LoopSound(s, l) BY <1>2 DEF LoopSound, SameLoops
  <2> QED BY <1>2, <2>1 DEF WorkerSound, LoopsSound, SameLoops
<1>5. IoSound(s)
  BY <1>2 DEF WorkerSound, IoSound, Awaits, Current, SameLoops
<1>6. EventsSound(s)
  <2>1. \A e : EventSound(w, e) => EventSound(s, e) BY <1>2 DEF EventSound, SameLoops
  <2> QED BY <1>2, <2>1 DEF WorkerSound, EventsSound
<1>7. WorkerSound(s) /\ Keeps(w, s, x, T) /\ KindMatch(s, x, T)
  BY <1>2, <1>3, <1>4, <1>5, <1>6, QuietKeeps DEF WorkerSound, SameLoops, KindMatch
<1>8. CASE d.current
  <2>1. Speaks(s, d.of)
    BY <1>2, <1>8 DEF Speaks, WorkerSound, PipeSound, SameLoops
  <2>2. WorkerSound(w') /\ Like(s, w') /\ Keeps(s, w', x, T)
    BY <1>1, <1>7, <1>8, <2>1, PostOther
  <2> QED BY <1>7, <2>2, KeepsTransitive DEF StepSound, Like, KindMatch
<1>9. CASE ~d.current BY <1>1, <1>7, <1>9 DEF StepSound
<1> QED BY <1>8, <1>9

\* Every loop is superseded, the fetch is dropped and nothing is held.
LEMMA SupersededSound ==
  ASSUME NEW s, WorkerSound(s), NEW t, DOMAIN t = WorkerFields, t.runId = s.runId + 1, t.loops \in SUBSET LoadLoop,
         \A m \in t.loops : \E o \in s.loops : m.run = o.run, t.io = NoIo,
         t.pipe \in {"none", "made", "on"}, t.made \in [load : Loads, kind : StreamKinds],
         t.gen \in Loads, t.mode \in {"static", "continuous", "hls"}, t.paused \in BOOLEAN,
         t.decodes \in SUBSET Decode, t.inputs \in Nat, t.units \in Nat, t.stash \subseteq {t.inputs},
         t.pipe # "on" => ~t.paused, t.pipe # "none" => t.gen >= 1,
         t.pipe = "made" => t.made.load = t.gen, \A d \in t.decodes : d.current => d.of = t.gen /\ t.pipe = "on",
         t.out \in Seq(Event), EventsSound(t)
  PROVE  WorkerSound(t) /\ Idle(t)
<1>0. s.runId \in Nat /\ \A o \in s.loops : o.run \in Nat /\ o.run <= s.runId
  BY DEF WorkerSound, WorkerTyped, LoopsSound, LoadLoop
<1>1. \A m \in t.loops : m.run <= t.runId /\ m.run # t.runId
  BY <1>0
<1>2. Idle(t) BY <1>1 DEF Idle
<1>3. LoopsSound(t) BY <1>1 DEF LoopsSound
<1>4. NoIo \in Fetch BY ControllerAssumption DEF NoIo, Fetch, Loads
<1>5. WorkerTyped(t) BY <1>0, <1>4 DEF WorkerTyped
<1>6. IoSound(t) /\ PipeSound(t) BY DEF IoSound, PipeSound
<1> QED BY <1>2, <1>3, <1>5, <1>6 DEF WorkerSound

\* A new load loop starts on an idle worker.
LEMMA RunStarts ==
  ASSUME NEW s, WorkerSound(s), Idle(s), s.stash = {}, ~s.chunks, s.pipe = "on", NEW load \in Loads, load = s.gen,
         NEW kind \in StreamKinds, NEW x, NEW T
  PROVE  LET t == StartRun(s, load, kind)
         IN  WorkerSound(t) /\ Keeps(s, t, x, T) /\ KindsIn(t, {kind})
<1> DEFINE l == [run |-> s.runId, load |-> load, kind |-> kind, i |-> 0, pc |-> "gate", k |-> "top", res |-> "ok"]
<1>1. l \in LoadLoop /\ l.run = s.runId /\ l.load = load /\ l.kind = kind
  BY DEF WorkerSound, WorkerTyped, LoadLoop
<1>2. StartRun(s, load, kind) = WaitIfPaused(s, l, "top")
  BY DEF StartRun
<1> HIDE DEF l
<1>3. Ready(s, l, "top") BY <1>1 DEF Ready
<1> DEFINE t == WaitIfPaused(s, l, "top")
<1>4. /\ WorkerSound(t) /\ Keeps(s, t, x, T) /\ t.runId = s.runId
      /\ (l.run = s.runId /\ KindsIn(t, {l.kind})) \/ t = s
  BY <1>1, <1>3, WaitSound
<1>5. KindsIn(s, {kind}) BY DEF KindsIn, Idle
<1> HIDE DEF t
<1>6. KindsIn(t, {kind}) BY <1>1, <1>4, <1>5
<1> QED BY <1>2, <1>4, <1>6 DEF t

LEMMA HlsDetectedSound ==
  ASSUME NEW x, NEW T, WorkerSound(w), KindMatch(w, x, T), HlsDetected
  PROVE  StepSound(w, w', x, T)
<1> DEFINE r == [w EXCEPT !.runId = @ + 1, !.io = NoIo]
           s == Settle(r, w.io.run, "cancelled")
           u == [s EXCEPT !.mode = "hls"]
           after(l) == IF l.run = w.io.run /\ l.pc = "load" THEN [l EXCEPT !.pc = "settled", !.res = "cancelled"] ELSE l
<1>0. w.io # NoIo BY DEF HlsDetected, NoIo
<1>1. PICK l \in w.loops : /\ Awaits(w, l) /\ LoopSound(w, l) /\ l \in LoadLoop
                           /\ Format = Segments(l.kind)[l.i].fmt
                           /\ l.i \in 1 .. Len(Segments(l.kind))
                           /\ \A o \in w.loops : o.run = w.runId => o = l
                           /\ Speaks(w, w.io.load) /\ w.pipe = "on"
  BY <1>0, FetchAwaited
<1>2. l.kind = "hidden" BY <1>1 DEF HlsDetected, Awaits
<1>3. w.stash = {} /\ ~w.chunks
  <2>1. Segments("hidden")[1].fmt # "ts" /\ Len(Segments("hidden")) = 1
    BY DEF Segments, Segment
  <2>2. l.i = 1 BY <1>1, <1>2, <2>1
  <2> QED BY <1>1, <1>2, <2>1, <2>2 DEF LoopSound
<1>4. /\ DOMAIN w = WorkerFields /\ w.loops \in SUBSET LoadLoop /\ w.runId \in Nat
      /\ w.decodes \in SUBSET Decode /\ PipeSound(w) /\ EventsSound(w) /\ w.io.load \in Loads
      /\ w.gen \in Loads /\ w.out \in Seq(Event)
  BY DEF WorkerSound, WorkerTyped, Fetch
<1>5. /\ DOMAIN u = WorkerFields /\ u.runId = w.runId + 1 /\ u.io = NoIo /\ u.mode = "hls"
      /\ u.loops = {after(o) : o \in w.loops}
      /\ u.pipe = w.pipe /\ u.made = w.made /\ u.gen = w.gen /\ u.paused = w.paused /\ u.inputs = w.inputs
      /\ u.stash = w.stash /\ u.chunks = w.chunks /\ u.decodes = w.decodes /\ u.units = w.units /\ u.out = w.out
  <2>1. /\ DOMAIN r = WorkerFields /\ r.runId = w.runId + 1 /\ r.io = NoIo /\ r.loops = w.loops
        /\ r.pipe = w.pipe /\ r.made = w.made /\ r.gen = w.gen /\ r.paused = w.paused /\ r.inputs = w.inputs
        /\ r.stash = w.stash /\ r.chunks = w.chunks /\ r.decodes = w.decodes /\ r.units = w.units /\ r.out = w.out
    BY <1>4 DEF WorkerFields
  <2> HIDE DEF r
  <2>2. /\ DOMAIN s = WorkerFields /\ s.runId = r.runId /\ s.io = r.io /\ s.loops = {after(o) : o \in r.loops}
        /\ s.pipe = r.pipe /\ s.made = r.made /\ s.gen = r.gen /\ s.paused = r.paused /\ s.inputs = r.inputs
        /\ s.stash = r.stash /\ s.chunks = r.chunks /\ s.decodes = r.decodes /\ s.units = r.units /\ s.out = r.out
    BY <2>1 DEF WorkerFields, Settle
  <2> HIDE DEF s
  <2> QED BY <2>1, <2>2 DEF WorkerFields
<1>6. ASSUME NEW o \in LoadLoop
      PROVE  after(o) \in LoadLoop /\ after(o).run = o.run
  <2>1. CASE o.run = w.io.run /\ o.pc = "load" BY <2>1 DEF LoadLoop
  <2>2. CASE ~(o.run = w.io.run /\ o.pc = "load") BY <2>2
  <2> QED BY <2>1, <2>2
<1>7. w' = StartRun(u, w.io.load, "vod") BY DEF HlsDetected, StartHls
<1> HIDE DEF u, s, r, after
<1>8. u.loops \in SUBSET LoadLoop /\ \A m \in u.loops : \E o \in w.loops : m.run = o.run
  BY <1>4, <1>5, <1>6
<1>9. EventsSound(u)
  <2>1. \A e : EventSound(w, e) => EventSound(u, e) BY <1>5 DEF EventSound
  <2> QED BY <1>4, <1>5, <2>1 DEF EventsSound
<1>10. WorkerSound(u) /\ Idle(u)
  <2>1. /\ u.pipe \in {"none", "made", "on"} /\ u.made \in [load : Loads, kind : StreamKinds] /\ u.gen \in Loads
        /\ u.mode \in {"static", "continuous", "hls"} /\ u.paused \in BOOLEAN /\ u.decodes \in SUBSET Decode
        /\ u.inputs \in Nat /\ u.units \in Nat /\ u.out \in Seq(Event)
    BY <1>5 DEF WorkerSound, WorkerTyped
  <2>2. /\ u.stash \subseteq {u.inputs} /\ (u.pipe # "on" => ~u.paused) /\ (u.pipe # "none" => u.gen >= 1)
        /\ (u.pipe = "made" => u.made.load = u.gen)
        /\ \A d \in u.decodes : d.current => d.of = u.gen /\ u.pipe = "on"
    BY <1>4, <1>5 DEF PipeSound
  <2> QED BY <1>5, <1>8, <1>9, <2>1, <2>2, SupersededSound
<1>11. w.io.load = u.gen /\ u.pipe = "on" BY <1>1, <1>5 DEF Speaks
<1>12. WorkerSound(w') /\ Keeps(u, w', x, T) /\ KindsIn(w', {"vod"})
  BY <1>3, <1>4, <1>5, <1>7, <1>10, <1>11, RunStarts DEF StreamKinds
<1>13. Keeps(w, u, x, T) BY <1>5, QuietKeeps
<1>14. Keeps(w, w', x, T) BY <1>12, <1>13, KeepsTransitive
<1>15. KindMatch(w', x, T)
  <2>1. w.gen = x.gen => T = BothTracks
    BY <1>1, <1>2 DEF KindMatch, TracksOf, Awaits, Current
  <2> QED BY <1>12, <1>14, <2>1 DEF KindMatch, KindsIn, TracksOf, Keeps
<1> QED BY <1>12, <1>14, <1>15 DEF StepSound

\* Whatever the worker does by itself.
LEMMA WorkerStepSound ==
  ASSUME NEW x, NEW T, WorkerSound(w), KindMatch(w, x, T), WorkerStep
  PROVE  StepSound(w, w', x, T)
<1>1. CASE LoopStep
  BY <1>1, LoopWakesSound, NextSegmentSound, SourceFailsSound, InitLoadedSound, SegmentSettlesSound DEF LoopStep
<1>2. CASE FetchEvent BY <1>2, FetchEventSound
<1>3. CASE HlsDetected BY <1>3, HlsDetectedSound
<1>4. CASE \E d \in w.decodes : DecodeAudio(d) BY <1>4, DecodeSound
<1> QED BY <1>1, <1>2, <1>3, <1>4 DEF WorkerStep

\* Steps of the worker keep the whole invariant.
LEMMA WorkerKeepsSound ==
  ASSUME NEW x, Sound(w, x), WorkerStep
  PROVE  Sound(w', x)
<1>1. PICK T \in {{"video"}, BothTracks} : TracksSound(w, x, T)
  BY DEF Sound
<1>2. KindMatch(w, x, T) BY <1>1 DEF TracksSound, KindMatch
<1>3. StepSound(w, w', x, T) BY <1>2, WorkerStepSound DEF Sound
<1>4. TracksSound(w', x, T)
  BY <1>1, <1>3 DEF TracksSound, StepSound, Keeps, KindMatch
<1>5. ChannelSound(w', x) /\ FlagsSound(w', x) /\ (Begun(w', x) \/ Untouched(x)) /\ NumbersSound(w', x)
  BY <1>3 DEF Sound, StepSound, Keeps, ChannelSound, FlagsSound, Begun
<1> QED BY <1>3, <1>4, <1>5 DEF Sound, StepSound
----------------------------------------------------------------------------
(* Commands                                                                *)

\* y has the buffers, the queues and the stream of x.
SameMedia(x, y) ==
  /\ DOMAIN y = MainFields
  /\ y.gen = x.gen /\ y.wInit = x.wInit /\ y.segs = x.segs /\ y.inits = x.inits /\ y.throttle = x.throttle
  /\ y.managed = x.managed /\ y.refuses = x.refuses /\ y.disabled = x.disabled
  /\ y.ms = x.ms /\ y.streaming = x.streaming /\ y.sb = x.sb /\ y.pend = x.pend /\ y.rem = x.rem
  /\ y.full = x.full /\ y.eos = x.eos /\ y.early = x.early /\ y.parsed = x.parsed /\ y.late = x.late
  /\ y.app = x.app /\ y.ahead = x.ahead /\ y.back = x.back /\ y.pcm = x.pcm /\ y.fed = x.fed

\* y is the main thread x but for the commands under way.
SameMain(x, y) == SameMedia(x, y) /\ y.wm = x.wm /\ y.bf = x.bf

LEMMA SameMediaSound ==
  ASSUME NEW x, NEW y, SameMedia(x, y)
  PROVE  /\ Untouched(x) => Untouched(y)
         /\ \A s : NumbersSound(s, x) => NumbersSound(s, y)
         /\ \A q, T : BatchSound(q, x, T) => BatchSound(q, y, T)
         /\ \A T : BuffersSound(x, T) => BuffersSound(y, T)
         /\ \A s : Begun(s, x) => Begun(s, y)
         /\ \A s, T : KindMatch(s, x, T) => KindMatch(s, y, T)
         /\ QueuesSound(x) => QueuesSound(y)
<1>2. Untouched(x) => Untouched(y) BY DEF Untouched, SameMedia
<1>3. \A s : NumbersSound(s, x) => NumbersSound(s, y)
  BY DEF NumbersSound, SegmentsSent, Begun, SameMedia
<1>4. \A q, T : BatchSound(q, x, T) => BatchSound(q, y, T)
  BY DEF BatchSound, Paired, Batched, SameMedia
<1>5. \A T : BuffersSound(x, T) => BuffersSound(y, T)
  BY DEF BuffersSound, Created, CanAppend, SameMedia
<1>6. (\A s : Begun(s, x) => Begun(s, y)) /\ (\A s, T : KindMatch(s, x, T) => KindMatch(s, y, T))
  BY DEF Begun, KindMatch, SameMedia
<1>7. QueuesSound(x) => QueuesSound(y) BY DEF QueuesSound, SameMedia
<1> QED BY <1>2, <1>3, <1>4, <1>5, <1>6, <1>7

LEMMA SameMainSound ==
  ASSUME NEW x, NEW y, SameMain(x, y), y.cmds \in Seq(Command), MainSound(x)
  PROVE  MainSound(y)
<1>1. MainTyped(y) /\ StateSound(y) /\ FlowSound(y)
  BY DEF MainSound, SameMain, SameMedia, MainTyped, StateSound, FlowSound
<1>2. QueuesSound(y) BY SameMediaSound DEF MainSound, SameMain
<1> QED BY <1>1, <1>2 DEF MainSound

\* The worker handles the first command and stays sound.
LEMMA CommandTaken ==
  ASSUME NEW s, NEW x, Sound(s, x), x.cmds # << >>, NEW c, c = Head(x.cmds),
         NEW y, SameMain(x, y), y.cmds = Tail(x.cmds),
         NEW t, WorkerSound(t), t.pipe = PipeAfter(c.c), t.paused <=> c.c = "pause",
         t.gen = IF c.c \in {"init", "load"} THEN c.load ELSE s.gen,
         Begun(t, x) \/ Untouched(x), NumbersSound(t, x),
         NEW T \in {{"video"}, BothTracks}, KindMatch(t, x, T), BatchSound(t.out, x, T), BuffersSound(x, T)
  PROVE  Sound(t, y)
<1> DEFINE q == x.cmds
           r == Tail(q)
<1>1. /\ q \in Seq(Command) /\ q # << >> /\ MainSound(x) /\ ChannelSound(s, x) /\ FlagsSound(s, x) /\ WorkerSound(s)
      /\ x.gen \in Nat /\ s.gen \in Nat
  <2>1. MainSound(x) /\ ChannelSound(s, x) /\ FlagsSound(s, x) /\ WorkerSound(s)
    BY DEF Sound
  <2>2. x.cmds \in Seq(Command) /\ x.gen \in Loads BY <2>1 DEF MainSound, MainTyped
  <2>3. s.gen \in Loads BY <2>1 DEF WorkerSound, WorkerTyped
  <2> QED BY <2>1, <2>2, <2>3, LoadsNatural
<1>2. /\ c.c \in Allowed(s.pipe) /\ Obeys(PipeAfter(c.c), r)
      /\ PipeEnd(PipeAfter(c.c), r) = PipeEnd(s.pipe, q)
  BY <1>1, ObeysTail DEF ChannelSound
<1>3. /\ Len(q) \in Nat /\ Len(q) >= 1 /\ q[1] = c /\ Len(r) = Len(q) - 1 /\ r \in Seq(Command) /\ c \in Command
      /\ \A i \in 1 .. Len(r) : r[i] = q[i + 1] /\ r[i] \in Command
  <2>1. Len(q) \in Nat /\ Len(q) # 0 BY <1>1
  <2>2. Head(q) = q[1] /\ Len(r) = Len(q) - 1 /\ r \in Seq(Command) /\ c \in Command
    BY <1>1
  <2>3. \A i \in 1 .. Len(r) : r[i] = q[i + 1] BY <1>1, HeadTailProperties
  <2>4. \A i \in 1 .. Len(r) : r[i] \in Command BY <2>2
  <2> QED BY <2>1, <2>2, <2>3, <2>4
<1> HIDE DEF q, r
<1>4. /\ \A i \in 1 .. Len(r) : i + 1 \in 1 .. Len(q) /\ 1 < i + 1
      /\ 1 \in 1 .. Len(q)
  BY <1>3
<1>5. LoadsRise(s.gen, q, LastLoad(x)) BY <1>1 DEF ChannelSound, q
<1>6. c.c \in {"init", "load"} => s.gen < c.load /\ c.load <= LastLoad(x)
  BY <1>3, <1>4, <1>5 DEF LoadsRise, Dated
<1>7. LoadsRise(t.gen, r, LastLoad(x))
  <2>1. \A i \in 1 .. Len(r) : Dated(r[i]) => s.gen < r[i].load /\ r[i].load <= LastLoad(x)
    BY <1>3, <1>4, <1>5 DEF LoadsRise
  <2>2. \A i \in 1 .. Len(r) : Dated(r[i]) /\ Dated(c) => c.load < r[i].load
    BY <1>3, <1>4, <1>5 DEF LoadsRise
  <2>3. \A i, j \in 1 .. Len(r) : i < j /\ Dated(r[i]) /\ Dated(r[j]) => r[i].load < r[j].load
    BY <1>3, <1>4, <1>5 DEF LoadsRise
  <2>4. \A i \in 1 .. Len(r) : Dated(r[i]) => t.gen < r[i].load
    BY <2>1, <2>2 DEF Dated
  <2> QED BY <2>1, <2>3, <2>4 DEF LoadsRise
<1>8. KindsKnown(r)
  BY <1>1, <1>3, <1>4 DEF ChannelSound, KindsKnown, q
<1>9. LastLoad(y) = LastLoad(x) /\ y.gen = x.gen /\ y.ms = x.ms /\ y.wInit = x.wInit /\ y.wm = x.wm /\ y.bf = x.bf
  BY DEF LastLoad, SameMain, SameMedia
<1>10. t.gen <= y.gen
  <2>1. CASE c.c \in {"init", "load"}
    <3>1. c.load \in Nat BY <1>3, ControllerAssumption DEF Command, Loads
    <3>2. c.load <= x.gen BY <3>1, <2>1, <1>1, <1>6 DEF LastLoad
    <3> QED BY <3>2, <2>1, <1>9
  <2>2. CASE c.c \notin {"init", "load"} BY <2>2, <1>1, <1>9 DEF ChannelSound
  <2> QED BY <2>1, <2>2
<1>11. x.ms \in {"none", "closed"} => t.gen < x.gen \/ x.gen = 0
  <2>1. CASE c.c \notin {"init", "load"} BY <2>1, <1>1 DEF ChannelSound
  <2>2. CASE c.c \in {"init", "load"} /\ x.ms = "closed"
    <3>1. LastLoad(x) = x.gen - 1
      BY <2>2, <1>1 DEF MainSound, StateSound, LastLoad
    <3> QED BY <2>2, <3>1, <1>1, <1>3, <1>6 DEF Command, Loads
  <2>3. CASE c.c \in {"init", "load"} /\ x.ms = "none"
    <3>1. PipeEnd(PipeAfter(c.c), r) = "none" /\ PipeAfter(c.c) # "none"
      BY <2>3, <1>1, <1>2 DEF MainSound, StateSound, ChannelSound, PipeAfter, q
    <3>2. Len(r) >= 1 BY <3>1, <1>3 DEF PipeEnd, PipeBefore
    <3>3. Len(r) + 1 # 1 /\ (Len(r) + 1) - 1 = Len(r) /\ Len(r) \in 1 .. Len(r)
      BY <3>2, <1>3
    <3>4. r[Len(r)].c = "reset" BY <3>1, <3>3 DEF PipeEnd, PipeBefore, PipeAfter
    <3>5. t.gen < r[Len(r)].load /\ r[Len(r)].load <= LastLoad(x) /\ r[Len(r)].load \in Loads
      BY <3>3, <3>4, <1>3, <1>7 DEF LoadsRise, Dated, Command
    <3>6. LastLoad(x) <= x.gen /\ LastLoad(x) \in Int BY <1>1 DEF LastLoad
    <3>7. t.gen \in Nat BY DEF WorkerSound, WorkerTyped, Loads
    <3> QED BY <3>5, <3>6, <3>7, <1>1 DEF Loads
  <2> QED BY <2>1, <2>2, <2>3
<1>12. ChannelSound(t, y)
  BY <1>1, <1>2, <1>7, <1>8, <1>9, <1>10, <1>11 DEF ChannelSound, q, r
<1>13. PausedEnd(t.paused, r) <=> PausedEnd(s.paused, q)
  <2>1. CASE r = << >>
    <3>1. Len(q) = 1 BY <2>1, <1>3
    <3> QED BY <2>1, <3>1, <1>1, <1>3 DEF PausedEnd, q
  <2>2. CASE r # << >>
    <3>1. Len(r) # 0 BY <2>2, <1>3
    <3>2. Len(r) \in 1 .. Len(r) /\ r[Len(r)] = q[Len(q)] BY <3>1, <1>3
    <3> QED BY <2>2, <3>2, <1>1 DEF PausedEnd, q
  <2> QED BY <2>1, <2>2
<1>14. FlagsSound(t, y) BY <1>1, <1>9, <1>13 DEF FlagsSound, q, r
<1>15. /\ MainSound(y) /\ NumbersSound(t, y) /\ (Begun(t, y) \/ Untouched(y)) /\ BatchSound(t.out, y, T)
       /\ BuffersSound(y, T) /\ KindMatch(t, y, T)
  <2>1. y.cmds \in Seq(Command) BY <1>3 DEF r, q
  <2>2. MainSound(y) /\ SameMedia(x, y) BY <2>1, <1>1, SameMainSound DEF SameMain
  <2>3. NumbersSound(t, y) /\ (Begun(t, x) => Begun(t, y)) /\ (Untouched(x) => Untouched(y))
    BY <2>2, SameMediaSound
  <2>4. BatchSound(t.out, y, T) BY <2>2, SameMediaSound
  <2>5. BuffersSound(y, T) BY <2>2, SameMediaSound
  <2>6. KindMatch(t, y, T) BY <2>2, SameMediaSound
  <2> QED BY <2>2, <2>3, <2>4, <2>5, <2>6
<1>16. ~y.late BY DEF Sound, SameMain, SameMedia
<1> QED BY <1>12, <1>14, <1>15, <1>16 DEF Sound, TracksSound, KindMatch

\* Each loop of L is a loop of K, further on.
Derived(K, L) == L \in SUBSET LoadLoop /\ \A m \in L : \E o \in K : m.run = o.run

LEMMA TornDown ==
  ASSUME NEW s, DOMAIN s = WorkerFields, s.loops \in SUBSET LoadLoop
  PROVE  LET t == Teardown(s)
         IN  /\ DOMAIN t = WorkerFields /\ Derived(s.loops, t.loops)
             /\ t.runId = s.runId /\ t.io = NoIo /\ t.stash = {} /\ ~t.chunks /\ t.paused = FALSE /\ t.mode = "static"
             /\ t.pipe = s.pipe /\ t.made = s.made /\ t.gen = s.gen /\ t.inputs = s.inputs
             /\ t.decodes = s.decodes /\ t.units = s.units /\ t.out = s.out
<1> DEFINE a == AbortCurrentLoad(s)
           b == [a EXCEPT !.tx = FALSE, !.stash = {}, !.fmp4 = FALSE, !.initSent = FALSE, !.chunks = FALSE,
                          !.lastInit = 0, !.paused = FALSE, !.mode = "static"]
           t == WakeGate(b)
<1>0. Teardown(s) = t BY DEF Teardown
<1>1. /\ DOMAIN a = WorkerFields /\ Derived(s.loops, a.loops)
      /\ a.runId = s.runId /\ a.io = NoIo
      /\ a.pipe = s.pipe /\ a.made = s.made /\ a.gen = s.gen /\ a.inputs = s.inputs
      /\ a.decodes = s.decodes /\ a.units = s.units /\ a.out = s.out
  <2>1. CASE s.io = NoIo
    <3>1. a = s BY <2>1 DEF AbortCurrentLoad
    <3> QED BY <2>1, <3>1 DEF Derived
  <2>2. CASE s.io # NoIo
    <3> DEFINE r == [s EXCEPT !.io = NoIo]
               L == {IF l.run = s.io.run /\ l.pc = "load" THEN [l EXCEPT !.pc = "settled", !.res = "cancelled"] ELSE l :
                       l \in s.loops}
    <3>1. a = Settle(r, s.io.run, "cancelled") BY <2>2 DEF AbortCurrentLoad
    <3>2. /\ DOMAIN r = WorkerFields /\ r.loops = s.loops /\ r.runId = s.runId /\ r.io = NoIo
          /\ r.pipe = s.pipe /\ r.made = s.made /\ r.gen = s.gen /\ r.inputs = s.inputs
          /\ r.decodes = s.decodes /\ r.units = s.units /\ r.out = s.out
      BY DEF WorkerFields
    <3> HIDE DEF r, a
    <3>3. /\ DOMAIN a = WorkerFields /\ a.loops = L /\ a.runId = r.runId /\ a.io = r.io
          /\ a.pipe = r.pipe /\ a.made = r.made /\ a.gen = r.gen /\ a.inputs = r.inputs
          /\ a.decodes = r.decodes /\ a.units = r.units /\ a.out = r.out
      BY <3>1, <3>2 DEF WorkerFields, Settle
    <3>4. ASSUME NEW m \in L
          PROVE  m \in LoadLoop /\ \E o \in s.loops : m.run = o.run
      <4>1. PICK l \in s.loops :
              m = IF l.run = s.io.run /\ l.pc = "load" THEN [l EXCEPT !.pc = "settled", !.res = "cancelled"] ELSE l
        BY <3>4
      <4>2. l \in LoadLoop
        OBVIOUS
      <4>3. m \in LoadLoop /\ m.run = l.run BY <4>1, <4>2 DEF LoadLoop
      <4> QED BY <4>3
    <3>5. Derived(s.loops, L) BY <3>4 DEF Derived
    <3> HIDE DEF L
    <3> QED BY <3>2, <3>3, <3>5
  <2> QED BY <2>1, <2>2
<1> HIDE DEF a
<1>2. /\ DOMAIN b = WorkerFields /\ b.loops = a.loops
      /\ b.runId = a.runId /\ b.io = a.io /\ b.stash = {} /\ ~b.chunks /\ b.paused = FALSE /\ b.mode = "static"
      /\ b.pipe = a.pipe /\ b.made = a.made /\ b.gen = a.gen /\ b.inputs = a.inputs
      /\ b.decodes = a.decodes /\ b.units = a.units /\ b.out = a.out
  BY <1>1 DEF WorkerFields
<1> HIDE DEF b
<1> DEFINE L == {IF l.run = b.gate /\ l.pc = "gate" THEN [l EXCEPT !.pc = "woken"] ELSE l : l \in b.loops}
<1>3. /\ DOMAIN t = WorkerFields /\ t.loops = L
      /\ t.runId = b.runId /\ t.io = b.io /\ t.stash = b.stash /\ t.chunks = b.chunks /\ t.paused = b.paused
      /\ t.mode = b.mode
      /\ t.pipe = b.pipe /\ t.made = b.made /\ t.gen = b.gen /\ t.inputs = b.inputs
      /\ t.decodes = b.decodes /\ t.units = b.units /\ t.out = b.out
  BY <1>2 DEF WorkerFields, WakeGate
<1>4. ASSUME NEW m \in L
      PROVE  m \in LoadLoop /\ \E o \in s.loops : m.run = o.run
  <2>1. PICK l \in b.loops : m = IF l.run = b.gate /\ l.pc = "gate" THEN [l EXCEPT !.pc = "woken"] ELSE l
    BY <1>4
  <2>2. l \in LoadLoop /\ \E o \in s.loops : l.run = o.run BY <1>1, <1>2 DEF Derived
  <2>3. m \in LoadLoop /\ m.run = l.run BY <2>1, <2>2 DEF LoadLoop
  <2> QED BY <2>2, <2>3
<1>5. Derived(s.loops, L) BY <1>4 DEF Derived
<1> HIDE DEF L, t
<1> QED BY <1>0, <1>1, <1>2, <1>3, <1>5

\* Events of streams before g that are followed by nothing but information.
Before(q, g) == \A i \in 1 .. Len(q) : q[i] \in Event /\ (q[i].gen < g \/ q[i].type = "media-info")

\* No event of the stream that x waits for is a segment or an init segment.
LEMMA NothingYet ==
  ASSUME NEW s, NEW x, Untouched(x), NEW g \in Nat, x.gen \in Nat, g <= x.gen, Before(s.out, g), s.out \in Seq(Event),
         SegmentsSent(s, x) = 0, NEW T \in {{"video"}, BothTracks}
  PROVE  NumbersSound(s, x) /\ BatchSound(s.out, x, T) /\ BuffersSound(x, T)
<1>1. \A i \in 1 .. Len(s.out) : s.out[i].gen # x.gen \/ s.out[i].type = "media-info"
  <2> SUFFICES ASSUME NEW i \in 1 .. Len(s.out), s.out[i].gen < g
               PROVE  s.out[i].gen # x.gen
    BY DEF Before
  <2>1. s.out[i].gen \in Nat BY EventNatural DEF Before
  <2> QED BY <2>1
<1>2. \A i \in 1 .. Len(s.out) : s.out[i] \notin MediaEvents(x.gen)
  BY <1>1 DEF MediaEvents
<1>3. Numbered(s.out, MediaEvents(x.gen), 0, 0) BY <1>2, NumberedNone
<1>4. Numbered(x.pend["video"], MediaEntries, Len(x.app), 0)
  <2>1. x.pend["video"] = << >> /\ Len(x.app) = 0 BY DEF Untouched, MseTracks
  <2> QED BY <2>1, NumberedEmpty
<1>5. NumbersSound(s, x) BY <1>3, <1>4 DEF NumbersSound
<1>6. \A i \in 1 .. Len(s.out) : \A t : ~InitOf(s.out[i], x.gen, t)
  BY <1>1 DEF InitOf
<1>7. \A t : ~Batched(x, t) BY DEF Batched, Untouched
<1>8. BatchSound(s.out, x, T) BY <1>6, <1>7 DEF BatchSound, Paired, Untouched
<1>9. BuffersSound(x, T) BY DEF BuffersSound, Untouched
<1> QED BY <1>5, <1>8, <1>9

\* A stream is loaded: everything of the one before is superseded.
LEMMA LoadSound ==
  ASSUME NEW s, WorkerSound(s), NEW r, DOMAIN r = WorkerFields,
         r.loops = s.loops, r.runId = s.runId, r.decodes = s.decodes, r.made = s.made, r.inputs = s.inputs,
         r.out = s.out, r.units = s.units, NEW load \in Loads, r.gen = load, load >= 1, s.gen <= load, s.gen = load => s.pipe = "made",
         NEW kind \in StreamKinds, NEW x, Untouched(x), x.gen \in Nat, load <= x.gen,
         NEW T \in {{"video"}, BothTracks}, T = TracksOf(kind)
  PROVE  LET t == Load(r, load, kind)
         IN  /\ WorkerSound(t) /\ t.pipe = "on" /\ ~t.paused /\ t.gen = load
             /\ NumbersSound(t, x) /\ KindMatch(t, x, T) /\ BatchSound(t.out, x, T) /\ BuffersSound(x, T)
<1> DEFINE r1 == [r EXCEPT !.runId = @ + 1]
           a == Teardown(r1)
           b == PostInfo(a, load)
           c == ResetAudioTiming(b)
           u == [c EXCEPT !.units = 0, !.pipe = "on"]
           v == [u EXCEPT !.mode = IF Hls(kind) THEN "hls" ELSE IF kind = "list" THEN "static" ELSE "continuous"]
           e == [type |-> "media-info", gen |-> a.gen, of |-> load, track |-> "none", n |-> a.units, ins |-> {}]
           t == StartRun(v, load, kind)
<1>0. /\ s.loops \in SUBSET LoadLoop /\ s.runId \in Nat /\ s.decodes \in SUBSET Decode /\ s.inputs \in Nat
      /\ s.made \in [load : Loads, kind : StreamKinds] /\ s.out \in Seq(Event) /\ EventsSound(s)
      /\ s.gen \in Nat /\ load \in Nat
  BY ControllerAssumption, SMTT(40) DEF WorkerSound, WorkerTyped, Loads
<1>1. Load(r, load, kind) = t
  <2>1. CASE Hls(kind) BY <2>1 DEF Load, StartHls
  <2>2. CASE ~Hls(kind) BY <2>2 DEF Load
  <2> QED BY <2>1, <2>2
<1>2. /\ DOMAIN r1 = WorkerFields /\ r1.runId = s.runId + 1 /\ r1.loops = s.loops
      /\ r1.decodes = s.decodes /\ r1.made = s.made /\ r1.inputs = s.inputs /\ r1.out = s.out /\ r1.gen = load
      /\ r1.units = s.units
  BY DEF WorkerFields
<1> HIDE DEF r1
<1>3. /\ DOMAIN a = WorkerFields /\ Derived(s.loops, a.loops)
      /\ a.runId = s.runId + 1 /\ a.io = NoIo /\ a.stash = {} /\ ~a.chunks /\ a.paused = FALSE /\ a.mode = "static"
      /\ a.made = s.made /\ a.gen = load /\ a.inputs = s.inputs /\ a.decodes = s.decodes /\ a.out = s.out
      /\ a.units = s.units
  BY <1>0, <1>2, TornDown, ZenonT(60)
<1> HIDE DEF a
<1>4. /\ DOMAIN b = WorkerFields /\ b.loops = a.loops /\ b.runId = a.runId /\ b.io = a.io /\ b.stash = a.stash
      /\ b.chunks = a.chunks /\ b.paused = a.paused /\ b.made = a.made /\ b.gen = a.gen
      /\ b.inputs = a.inputs /\ b.decodes = a.decodes /\ b.out = Append(a.out, e)
  BY <1>3 DEF PostInfo, Post, WorkerFields
<1> HIDE DEF b
<1>5. /\ DOMAIN c = WorkerFields /\ c.loops = b.loops /\ c.runId = b.runId /\ c.io = b.io /\ c.stash = b.stash
      /\ c.chunks = b.chunks /\ c.paused = b.paused /\ c.made = b.made /\ c.gen = b.gen
      /\ c.inputs = b.inputs /\ c.out = b.out
      /\ c.decodes = {[d EXCEPT !.current = FALSE] : d \in b.decodes}
  BY <1>4 DEF ResetAudioTiming, WorkerFields
<1> HIDE DEF c
<1>6. /\ DOMAIN v = WorkerFields /\ v.loops = c.loops /\ v.runId = c.runId /\ v.io = c.io /\ v.stash = c.stash
      /\ v.chunks = c.chunks /\ v.paused = c.paused /\ v.made = c.made /\ v.gen = c.gen
      /\ v.inputs = c.inputs /\ v.decodes = c.decodes /\ v.out = c.out
      /\ v.units = 0 /\ v.pipe = "on" /\ v.mode \in {"static", "continuous", "hls"}
  BY <1>5 DEF WorkerFields
<1>7. v.out = Append(s.out, e) /\ e.gen = load /\ e.of = load /\ e.type = "media-info" /\ e.ins = {}
  BY <1>3, <1>4, <1>5, <1>6
<1> HIDE DEF v, u
<1>8. /\ DOMAIN v = WorkerFields /\ Derived(s.loops, v.loops) /\ v.runId = s.runId + 1 /\ v.io = NoIo /\ v.stash = {}
      /\ ~v.chunks /\ v.paused = FALSE /\ v.made = s.made /\ v.gen = load /\ v.inputs = s.inputs
      /\ v.decodes = {[d EXCEPT !.current = FALSE] : d \in s.decodes}
  BY <1>3, <1>4, <1>5, <1>6
<1>9. v.decodes \in SUBSET Decode /\ \A d \in v.decodes : ~d.current
  BY <1>0, <1>8, ZenonT(60) DEF Decode
<1>10. e \in Event
  <2>1. a.units \in Nat /\ a.gen = load BY <1>3 DEF WorkerSound, WorkerTyped
  <2> QED BY <2>1 DEF Event
<1> HIDE DEF e
<1>11. /\ Len(s.out) \in Nat /\ Len(v.out) = Len(s.out) + 1 /\ v.out[Len(s.out) + 1] = e /\ v.out \in Seq(Event)
       /\ \A i \in 1 .. Len(s.out) : v.out[i] = s.out[i] /\ s.out[i] \in Event
  BY <1>0, <1>7, <1>10
<1>12. \A i \in 1 .. Len(v.out) : i \in 1 .. Len(s.out) \/ i = Len(s.out) + 1
  BY <1>11
<1>13. ASSUME NEW i \in 1 .. Len(s.out)
       PROVE  s.out[i].gen < load /\ EventSound(s, s.out[i])
  <2>1. EventSound(s, s.out[i]) /\ s.out[i].gen \in Nat
    BY <1>0, <1>11, EventNatural DEF EventsSound
  <2> QED BY <1>0, <2>1 DEF EventSound
<1>14. Before(v.out, load) BY <1>7, <1>10, <1>11, <1>12, <1>13 DEF Before
<1>15. EventsSound(v)
  <2> SUFFICES ASSUME NEW i \in 1 .. Len(v.out)
               PROVE  EventSound(v, v.out[i])
    BY DEF EventsSound
  <2>1. CASE i = Len(s.out) + 1
    <3>1. EventSound(v, e) BY <1>0, <1>6, <1>7, <1>8 DEF EventSound
    <3> QED BY <2>1, <3>1, <1>11
  <2>2. CASE i \in 1 .. Len(s.out)
    <3>1. EventSound(s, s.out[i]) /\ s.out[i].gen < load /\ s.out[i].gen \in Nat
      BY <2>2, <1>11, <1>13, EventNatural
    <3>2. EventSound(v, s.out[i]) BY <3>1, <1>0, <1>6, <1>8 DEF EventSound
    <3> QED BY <2>2, <3>2, <1>11
  <2> QED BY <2>1, <2>2, <1>12
<1>16. WorkerSound(v) /\ Idle(v)
  <2>1. v.loops \in SUBSET LoadLoop /\ \A m \in v.loops : \E o \in s.loops : m.run = o.run
    BY <1>8 DEF Derived
  <2>2. v.inputs \in Nat /\ v.units \in Nat /\ v.stash \subseteq {v.inputs} /\ v.gen \in Loads /\ v.paused \in BOOLEAN
    BY <1>0, <1>6, <1>8, 0 \in Nat
  <2> QED BY <2>1, <2>2, <1>0, <1>6, <1>8, <1>9, <1>11, <1>15, SupersededSound
<1>17. NumbersSound(v, x) /\ BatchSound(v.out, x, T) /\ BuffersSound(x, T)
  <2>1. SegmentsSent(v, x) = 0 BY <1>6 DEF SegmentsSent
  <2> QED BY <2>1, <1>0, <1>11, <1>14, NothingYet, ZenonT(60)
<1>18. WorkerSound(t) /\ Keeps(v, t, x, T) /\ KindsIn(t, {kind})
  BY <1>6, <1>8, <1>16, RunStarts
<1> HIDE DEF t
<1>19. t.pipe = "on" /\ ~t.paused /\ t.gen = load /\ NumbersSound(t, x) /\ BatchSound(t.out, x, T)
  BY <1>6, <1>8, <1>17, <1>18 DEF Keeps
<1>20. KindMatch(t, x, T) BY <1>18 DEF KindMatch, KindsIn
<1> QED BY <1>1, <1>17, <1>18, <1>19, <1>20

\* What is known of the first command.
LEMMA CommandFacts ==
  ASSUME NEW s, NEW x, Sound(s, x), x.cmds # << >>, NEW c, c = Head(x.cmds)
  PROVE  /\ c \in Command /\ c.c \in Allowed(s.pipe)
         /\ Dated(c) => s.gen < c.load /\ c.load <= x.gen
         /\ c.c \in {"init", "load"} => c.kind \in StreamKinds
         /\ x.gen \in Nat /\ s.gen \in Nat /\ c.load \in Nat
<1>1. x.cmds \in Seq(Command) /\ x.gen \in Nat /\ s.gen \in Nat /\ ChannelSound(s, x)
  BY LoadsNatural DEF Sound, MainSound, MainTyped, WorkerSound, WorkerTyped
<1>2. c \in Command /\ c = x.cmds[1] /\ 1 \in 1 .. Len(x.cmds)
  BY <1>1
<1>3. c.c \in Allowed(s.pipe) BY <1>1, ObeysTail DEF ChannelSound
<1>4. c.load \in Nat BY <1>2, LoadsNatural DEF Command
<1>5. Dated(c) => s.gen < c.load /\ c.load <= LastLoad(x)
  BY <1>1, <1>2 DEF ChannelSound, LoadsRise
<1>6. LastLoad(x) <= x.gen /\ LastLoad(x) \in Int BY <1>1 DEF LastLoad
<1>7. c.c \in {"init", "load"} => c.kind \in StreamKinds
  BY <1>1, <1>2 DEF ChannelSound, KindsKnown, Command
<1> QED BY <1>1, <1>2, <1>3, <1>4, <1>5, <1>6, <1>7

\* What is to be shown of the worker t after the command.
Handled(s, t, x, c) ==
  /\ WorkerSound(t) /\ t.pipe = PipeAfter(c.c) /\ (t.paused <=> c.c = "pause")
  /\ t.gen = IF c.c \in {"init", "load"} THEN c.load ELSE s.gen
  /\ Begun(t, x) \/ Untouched(x)
  /\ NumbersSound(t, x)
  /\ \E T \in {{"video"}, BothTracks} : KindMatch(t, x, T) /\ BatchSound(t.out, x, T) /\ BuffersSound(x, T)

LEMMA LoadHandled ==
  ASSUME NEW s, NEW x, Sound(s, x), x.cmds # << >>, NEW c, c = Head(x.cmds), c.c \in {"start", "load"}
  PROVE  Handled(s, HandleCommand(s, c), x, c)
<1>0. /\ c \in Command /\ c.c \in Allowed(s.pipe)
      /\ Dated(c) => s.gen < c.load /\ c.load <= x.gen
      /\ c.c \in {"init", "load"} => c.kind \in StreamKinds
      /\ x.gen \in Nat /\ s.gen \in Nat /\ c.load \in Nat /\ c.load \in Loads
  BY CommandFacts DEF Command
<1>1. WorkerSound(s) /\ DOMAIN s = WorkerFields /\ s.made \in [load : Loads, kind : StreamKinds]
      /\ s.gen \in Loads /\ s.gen <= x.gen /\ PipeSound(s)
  BY DEF Sound, WorkerSound, WorkerTyped, ChannelSound
<1>2. CASE c.c = "start"
  <2> DEFINE load == s.made.load
             kind == s.made.kind
             T == TracksOf(kind)
             t == Load(s, load, kind)
  <2>1. s.pipe = "made" BY <1>0, <1>2 DEF Allowed
  <2>2. HandleCommand(s, c) = t BY <1>2, <2>1 DEF HandleCommand
  <2>3. load = s.gen /\ s.gen >= 1 /\ kind \in StreamKinds /\ load \in Loads /\ s.gen <= load
    BY <1>0, <1>1, <2>1 DEF PipeSound
  <2>4. Untouched(x) BY <2>1 DEF Sound, Begun
  <2>5. T \in {{"video"}, BothTracks} /\ T = TracksOf(kind)
    BY DEF TracksOf
  <2> HIDE DEF load, kind, T
  <2>6. /\ WorkerSound(t) /\ t.pipe = "on" /\ ~t.paused /\ t.gen = load
        /\ NumbersSound(t, x) /\ KindMatch(t, x, T) /\ BatchSound(t.out, x, T) /\ BuffersSound(x, T)
    <3>1. load \in Loads /\ load >= 1 /\ s.gen <= load /\ (s.gen = load => s.pipe = "made") /\ load <= x.gen /\ s.gen = load
      BY <1>1, <2>1, <2>3
    <3>2. x.gen \in Nat /\ WorkerSound(s) /\ DOMAIN s = WorkerFields
      BY <1>0, <1>1
    <3> QED BY ONLY <2>3, <2>4, <2>5, <3>1, <3>2, LoadSound
  <2> HIDE DEF t
  <2> QED BY <1>2, <2>2, <2>3, <2>4, <2>5, <2>6 DEF Handled, PipeAfter
<1>3. CASE c.c = "load"
  <2> DEFINE load == c.load
             kind == c.kind
             T == TracksOf(kind)
             r == [s EXCEPT !.gen = load]
             t == Load(r, load, kind)
  <2>1. s.pipe # "none" BY <1>0, <1>3 DEF Allowed
  <2>2. HandleCommand(s, c) = t
    <3>1. r.pipe = s.pipe BY <1>1 DEF WorkerFields
    <3> QED BY <1>3, <2>1, <3>1 DEF HandleCommand
  <2>3. kind \in StreamKinds /\ s.gen < load /\ load >= 1 /\ load <= x.gen /\ load \in Loads /\ s.gen <= load
        /\ load # s.gen
    BY <1>0, <1>3 DEF Dated
  <2>4. Untouched(x) BY <1>0, <2>3 DEF Sound, Begun
  <2>5. T \in {{"video"}, BothTracks} /\ T = TracksOf(kind)
    BY DEF TracksOf
  <2>6. /\ DOMAIN r = WorkerFields /\ r.loops = s.loops /\ r.runId = s.runId /\ r.decodes = s.decodes /\ r.made = s.made
        /\ r.inputs = s.inputs /\ r.out = s.out /\ r.units = s.units /\ r.gen = load
    BY <1>1 DEF WorkerFields
  <2> HIDE DEF load, kind, T, r
  <2>7. /\ WorkerSound(t) /\ t.pipe = "on" /\ ~t.paused /\ t.gen = load
        /\ NumbersSound(t, x) /\ KindMatch(t, x, T) /\ BatchSound(t.out, x, T) /\ BuffersSound(x, T)
    <3>1. load \in Loads /\ load >= 1 /\ s.gen <= load /\ (s.gen = load => s.pipe = "made") /\ load <= x.gen
      BY <2>3
    <3>2. x.gen \in Nat /\ WorkerSound(s) BY <1>0, <1>1
    <3> QED BY ONLY <2>3, <2>4, <2>5, <2>6, <3>1, <3>2, LoadSound
  <2> HIDE DEF t
  <2> QED BY <1>3, <2>2, <2>4, <2>5, <2>7 DEF Handled, PipeAfter, load
<1> QED BY <1>2, <1>3

\* A Pipeline object is made, or destroyed.
LEMMA NoPipe ==
  ASSUME NEW s, WorkerSound(s), s.pipe # "on"
  PROVE  Idle(s) /\ s.io = NoIo /\ \A d \in s.decodes : ~d.current
<1>1. Idle(s) BY DEF WorkerSound, LoopsSound, LoopSound, Idle
<1> QED BY <1>1, IdleNoFetch DEF WorkerSound, PipeSound

LEMMA InitHandled ==
  ASSUME NEW s, NEW x, Sound(s, x), x.cmds # << >>, NEW c, c = Head(x.cmds), c.c = "init"
  PROVE  Handled(s, HandleCommand(s, c), x, c)
<1> DEFINE m == [load |-> c.load, kind |-> c.kind]
           t == [s EXCEPT !.gen = c.load, !.pipe = "made", !.made = m]
<1>0. /\ c \in Command /\ c.c \in Allowed(s.pipe) /\ s.gen < c.load /\ c.load <= x.gen
      /\ c.kind \in StreamKinds /\ x.gen \in Nat /\ s.gen \in Nat /\ c.load \in Nat /\ c.load \in Loads
  BY CommandFacts DEF Command, Dated
<1>1. WorkerSound(s) /\ DOMAIN s = WorkerFields /\ s.out \in Seq(Event)
  BY DEF Sound, WorkerSound, WorkerTyped
<1>2. s.pipe = "none"
  BY <1>0, <1>1 DEF Allowed, WorkerSound, WorkerTyped
<1>3. Idle(s) /\ s.io = NoIo /\ \A d \in s.decodes : ~d.current
  BY <1>1, <1>2, NoPipe
<1>4. HandleCommand(s, c) = t BY DEF HandleCommand
<1>5. /\ DOMAIN t = WorkerFields /\ t.gen = c.load /\ t.pipe = "made" /\ t.made = m
      /\ t.runId = s.runId /\ t.mode = s.mode /\ t.paused = s.paused /\ t.gate = s.gate /\ t.loops = s.loops
      /\ t.io = s.io /\ t.stash = s.stash /\ t.inputs = s.inputs /\ t.units = s.units /\ t.decodes = s.decodes
      /\ t.out = s.out
  BY <1>1 DEF WorkerFields
<1>6. m \in [load : Loads, kind : StreamKinds] /\ m.load = c.load
  BY <1>0
<1> HIDE DEF t, m
<1>7. WorkerTyped(t)
  BY <1>0, <1>1, <1>5, <1>6 DEF WorkerSound, WorkerTyped
<1>8. Idle(t) /\ LoopsSound(t)
  BY <1>1, <1>3, <1>5 DEF WorkerSound, LoopsSound, Idle
<1>9. IoSound(t) BY <1>3, <1>5 DEF IoSound
<1>10. PipeSound(t)
  BY <1>0, <1>1, <1>2, <1>3, <1>5, <1>6 DEF WorkerSound, PipeSound
<1>11. EventsSound(t)
  <2> SUFFICES ASSUME NEW i \in 1 .. Len(t.out)
               PROVE  EventSound(t, t.out[i])
    BY DEF EventsSound
  <2> DEFINE e == s.out[i]
  <2>1. EventSound(s, e) /\ e \in Event BY <1>1, <1>5 DEF WorkerSound, EventsSound
  <2>2. e.gen \in Nat BY <2>1, EventNatural
  <2> HIDE DEF e
  <2>3. EventSound(t, e) BY <1>0, <1>5, <2>1, <2>2 DEF EventSound
  <2> QED BY <2>3, <1>5 DEF e
<1>12. WorkerSound(t)
  BY <1>7, <1>8, <1>9, <1>10, <1>11 DEF WorkerSound
<1>13. Untouched(x) /\ NumbersSound(s, x) /\ ~t.paused
  BY <1>1, <1>2, <1>5 DEF Sound, Begun, WorkerSound, PipeSound
<1>14. NumbersSound(t, x)
  BY <1>2, <1>5, <1>13 DEF NumbersSound, SegmentsSent, Begun
<1>15. PICK T \in {{"video"}, BothTracks} : TracksSound(s, x, T)
  BY DEF Sound
<1>16. KindMatch(t, x, T) /\ BatchSound(t.out, x, T) /\ BuffersSound(x, T)
  BY <1>5, <1>8, <1>15 DEF TracksSound, KindMatch, Idle
<1> QED BY <1>4, <1>5, <1>12, <1>13, <1>14, <1>16 DEF Handled, PipeAfter

LEMMA ResetHandled ==
  ASSUME NEW s, NEW x, Sound(s, x), x.cmds # << >>, NEW c, c = Head(x.cmds), c.c = "reset"
  PROVE  Handled(s, HandleCommand(s, c), x, c)
<1>0. /\ c.c \in Allowed(s.pipe) /\ s.gen < c.load /\ c.load <= x.gen
      /\ x.gen \in Nat /\ s.gen \in Nat /\ c.load \in Nat
  BY CommandFacts DEF Dated
<1>1. WorkerSound(s) /\ DOMAIN s = WorkerFields /\ s.out \in Seq(Event) /\ s.loops \in SUBSET LoadLoop /\ s.runId \in Nat
  BY DEF Sound, WorkerSound, WorkerTyped
<1>2. Untouched(x) /\ NumbersSound(s, x) BY <1>0 DEF Sound, Begun
<1>3. PICK T \in {{"video"}, BothTracks} : TracksSound(s, x, T)
  BY DEF Sound
<1>4. CASE s.pipe = "none"
  <2>1. HandleCommand(s, c) = s BY <1>4 DEF HandleCommand
  <2>2. ~s.paused BY <1>1, <1>4 DEF WorkerSound, PipeSound
  <2> QED BY <1>1, <1>2, <1>3, <1>4, <2>1, <2>2 DEF Handled, PipeAfter, TracksSound, KindMatch
<1>5. CASE s.pipe # "none"
  <2> DEFINE r == [s EXCEPT !.runId = @ + 1]
             a == Teardown(r)
             t == [a EXCEPT !.pipe = "none", !.decodes = {}]
  <2>1. HandleCommand(s, c) = t BY <1>5 DEF HandleCommand, Destroy
  <2>2. /\ DOMAIN r = WorkerFields /\ r.loops = s.loops /\ r.runId = s.runId + 1
        /\ r.pipe = s.pipe /\ r.made = s.made /\ r.gen = s.gen /\ r.inputs = s.inputs /\ r.units = s.units
        /\ r.out = s.out
    BY <1>1 DEF WorkerFields
  <2> HIDE DEF r
  <2>3. /\ DOMAIN a = WorkerFields /\ Derived(s.loops, a.loops)
        /\ a.runId = s.runId + 1 /\ a.io = NoIo /\ a.stash = {} /\ a.paused = FALSE /\ a.mode = "static"
        /\ a.made = s.made /\ a.gen = s.gen /\ a.inputs = s.inputs /\ a.units = s.units /\ a.out = s.out
    BY <1>1, <2>2, TornDown
  <2> HIDE DEF a
  <2>4. /\ DOMAIN t = WorkerFields /\ t.loops = a.loops
        /\ t.runId = a.runId /\ t.io = a.io /\ t.stash = a.stash /\ t.paused = a.paused /\ t.mode = a.mode
        /\ t.made = a.made /\ t.gen = a.gen /\ t.inputs = a.inputs /\ t.units = a.units /\ t.out = a.out
        /\ t.pipe = "none" /\ t.decodes = {}
    BY <2>3 DEF WorkerFields
  <2> HIDE DEF t
  <2>5. t.loops \in SUBSET LoadLoop /\ \A m \in t.loops : \E o \in s.loops : m.run = o.run
    BY <2>3, <2>4 DEF Derived
  <2>6. /\ t.made \in [load : Loads, kind : StreamKinds] /\ t.gen \in Loads /\ t.inputs \in Nat /\ t.units \in Nat
        /\ t.out \in Seq(Event)
    BY <1>1, <2>3, <2>4 DEF WorkerSound, WorkerTyped
  <2>7. EventsSound(t)
    <3>1. \A e : EventSound(s, e) => EventSound(t, e) BY <2>3, <2>4 DEF EventSound
    <3> QED BY <1>1, <2>3, <2>4, <3>1 DEF WorkerSound, EventsSound
  <2>8. WorkerSound(t) /\ Idle(t)
    BY <1>1, <2>3, <2>4, <2>5, <2>6, <2>7, SupersededSound
  <2>9. NumbersSound(t, x)
    BY <1>0, <1>2, <2>3, <2>4 DEF NumbersSound, SegmentsSent, Begun
  <2>10. KindMatch(t, x, T) /\ BatchSound(t.out, x, T) /\ BuffersSound(x, T)
    BY <1>3, <2>3, <2>4, <2>8 DEF TracksSound, KindMatch, Idle
  <2> QED BY <1>2, <2>1, <2>3, <2>4, <2>8, <2>9, <2>10 DEF Handled, PipeAfter
<1> QED BY <1>4, <1>5

LEMMA PauseHandled ==
  ASSUME NEW s, NEW x, Sound(s, x), x.cmds # << >>, NEW c, c = Head(x.cmds), c.c = "pause"
  PROVE  Handled(s, HandleCommand(s, c), x, c)
<1> DEFINE b == s.io.paused \/ (s.mode = "continuous" /\ Working(s.io))
           f == [s.io EXCEPT !.paused = b]
           t == [s EXCEPT !.paused = TRUE, !.io.paused = b]
<1>1. WorkerSound(s) /\ DOMAIN s = WorkerFields /\ s.io \in Fetch /\ s.pipe \in {"none", "made", "on"}
  BY DEF Sound, WorkerSound, WorkerTyped
<1>2. s.pipe = "on"
  <2>1. c.c \in Allowed(s.pipe) BY CommandFacts
  <2> QED BY <1>1, <2>1 DEF Allowed
<1>3. HandleCommand(s, c) = t BY <1>2 DEF HandleCommand, PausePipeline
<1>4. /\ DOMAIN t = WorkerFields /\ t.paused = TRUE /\ t.io = f
      /\ t.pipe = s.pipe /\ t.made = s.made /\ t.gen = s.gen /\ t.runId = s.runId /\ t.mode = s.mode
      /\ t.gate = s.gate /\ t.loops = s.loops /\ t.fmp4 = s.fmp4 /\ t.inputs = s.inputs
      /\ t.stash = s.stash /\ t.chunks = s.chunks /\ t.decodes = s.decodes /\ t.units = s.units
      /\ t.out = s.out
  BY <1>1 DEF WorkerFields, Fetch
<1>5. b \in BOOLEAN BY <1>1 DEF Fetch
<1>6. f \in Fetch /\ f.run = s.io.run /\ f.load = s.io.load /\ f.i = s.io.i /\ f.st = s.io.st
  <2> HIDE DEF b
  <2> QED BY <1>1, <1>5 DEF Fetch
<1>7. ASSUME s.io = NoIo
      PROVE  f = NoIo
  <2>1. s.io.st = "none" /\ s.io.paused = FALSE BY <1>7 DEF NoIo
  <2>2. b = FALSE BY <2>1 DEF Working
  <2> HIDE DEF b
  <2>3. \A g \in Fetch : g.paused = FALSE => [g EXCEPT !.paused = FALSE] = g
    BY DEF Fetch
  <2>4. [s.io EXCEPT !.paused = FALSE] = s.io BY <1>1, <2>1, <2>3
  <2> QED BY <1>7, <2>2, <2>4
<1> HIDE DEF t, f, b
<1>8. WorkerTyped(t) BY <1>1, <1>4, <1>6 DEF WorkerSound, WorkerTyped
<1>9. LoopsSound(t)
  <2>1. \A l : LoopSound(s, l) => LoopSound(t, l) BY <1>4 DEF LoopSound
  <2> QED BY <1>1, <1>4, <2>1 DEF WorkerSound, LoopsSound
<1>10. IoSound(t)
  <2>1. \A l : Awaits(s, l) => Awaits(t, l) BY <1>4, <1>6 DEF Awaits, Current
  <2> QED BY <1>1, <1>4, <1>7, <2>1 DEF WorkerSound, IoSound
<1>11. PipeSound(t) BY <1>1, <1>2, <1>4 DEF WorkerSound, PipeSound
<1>12. EventsSound(t)
  <2>1. \A e : EventSound(s, e) => EventSound(t, e) BY <1>4 DEF EventSound
  <2> QED BY <1>1, <1>4, <2>1 DEF WorkerSound, EventsSound
<1>13. WorkerSound(t)
  BY <1>8, <1>9, <1>10, <1>11, <1>12 DEF WorkerSound
<1>14. NumbersSound(t, x) /\ (Begun(t, x) \/ Untouched(x))
  BY <1>4 DEF Sound, NumbersSound, SegmentsSent, Begun
<1>15. PICK T \in {{"video"}, BothTracks} : TracksSound(s, x, T)
  BY DEF Sound
<1>16. KindMatch(t, x, T) /\ BatchSound(t.out, x, T) /\ BuffersSound(x, T)
  BY <1>4, <1>15 DEF TracksSound, KindMatch
<1> QED BY <1>2, <1>3, <1>4, <1>13, <1>14, <1>16 DEF Handled, PipeAfter

\* The loop that waits at the gate goes on.
LEMMA GateWoken ==
  ASSUME NEW r, WorkerSound(r), NEW u, DOMAIN u = WorkerFields, ~u.paused, u.paused \in BOOLEAN,
         u.pipe = r.pipe, u.made = r.made, u.gen = r.gen, u.runId = r.runId, u.mode = r.mode,
         u.gate = r.gate, u.loops = r.loops, u.io = r.io, u.fmp4 = r.fmp4, u.inputs = r.inputs,
         u.stash = r.stash, u.chunks = r.chunks, u.decodes = r.decodes, u.units = r.units,
         u.out = r.out, NEW x, NEW T, KindMatch(r, x, T)
  PROVE  LET t == WakeGate(u)
         IN  /\ WorkerSound(t) /\ ~t.paused /\ KindMatch(t, x, T)
             /\ t.pipe = r.pipe /\ t.gen = r.gen /\ t.units = r.units /\ t.out = r.out
<1> DEFINE after(l) == IF l.run = u.gate /\ l.pc = "gate" THEN [l EXCEPT !.pc = "woken"] ELSE l
           t == WakeGate(u)
<1>0. r.loops \in SUBSET LoadLoop BY DEF WorkerSound, WorkerTyped
<1>1. /\ DOMAIN t = WorkerFields /\ t.loops = {after(l) : l \in r.loops} /\ t.io = r.io
      /\ t.pipe = r.pipe /\ t.made = r.made /\ t.gen = r.gen /\ t.runId = r.runId /\ t.mode = r.mode
      /\ t.paused = u.paused /\ t.fmp4 = r.fmp4 /\ t.inputs = r.inputs
      /\ t.stash = r.stash /\ t.chunks = r.chunks /\ t.decodes = r.decodes /\ t.units = r.units
      /\ t.out = r.out
  BY DEF WakeGate, WorkerFields
<1>2. ASSUME NEW l \in LoadLoop
      PROVE  /\ after(l) \in LoadLoop /\ after(l).run = l.run /\ after(l).load = l.load /\ after(l).kind = l.kind
             /\ after(l).i = l.i /\ after(l).k = l.k
             /\ (after(l) = l /\ ~(l.run = r.gate /\ l.pc = "gate")) \/ (l.pc = "gate" /\ after(l).pc = "woken")
  <2>1. CASE l.run = u.gate /\ l.pc = "gate" BY <2>1 DEF LoadLoop
  <2>2. CASE ~(l.run = u.gate /\ l.pc = "gate") BY <2>2
  <2> QED BY <2>1, <2>2
<1> HIDE DEF after, t
<1>3. LoopsSound(t)
  <2>1. \A m \in t.loops : m.run <= t.runId BY <1>0, <1>1, <1>2 DEF WorkerSound, LoopsSound
  <2>2. ASSUME NEW m \in t.loops, m.run = t.runId
        PROVE  LoopSound(t, m)
    <3>1. PICK l \in r.loops : m = after(l) BY <1>1
    <3>2. l \in LoadLoop /\ LoopSound(r, l)
      BY <3>1, <2>2, <1>0, <1>1, <1>2 DEF WorkerSound, LoopsSound
    <3>3. CASE m = l /\ ~(l.run = r.gate /\ l.pc = "gate") BY <3>2, <3>3, <1>1 DEF LoopSound
    <3>4. CASE l.pc = "gate" /\ m.pc = "woken"
      BY <3>1, <3>2, <3>4, <1>1, <1>2 DEF LoopSound, InSegment, WantsInit
    <3> QED BY <3>1, <3>2, <3>3, <3>4, <1>2
  <2>3. ASSUME NEW m \in t.loops, NEW o \in t.loops, m.run = t.runId, o.run = t.runId
        PROVE  m = o
    <3>1. PICK l \in r.loops : m = after(l) BY <1>1
    <3>2. PICK h \in r.loops : o = after(h) BY <1>1
    <3>3. l.run = r.runId /\ h.run = r.runId BY <3>1, <3>2, <2>3, <1>0, <1>1, <1>2
    <3>4. l = h BY <3>3 DEF WorkerSound, LoopsSound
    <3> QED BY <3>1, <3>2, <3>4
  <2> QED BY <2>1, <2>2, <2>3 DEF LoopsSound
<1>4. WorkerTyped(t)
  <2>1. t.loops \in SUBSET LoadLoop BY <1>0, <1>1, <1>2
  <2> QED BY <2>1, <1>1 DEF WorkerSound, WorkerTyped
<1>5. IoSound(t)
  <2>1. CASE r.io = NoIo BY <2>1, <1>1 DEF IoSound
  <2>2. CASE r.io # NoIo
    <3>1. PICK l \in r.loops : Awaits(r, l) BY <2>2 DEF WorkerSound, IoSound
    <3>2. l \in LoadLoop /\ l.pc = "load" BY <1>0, <3>1 DEF Awaits
    <3>3. after(l) = l BY <1>2, <3>2
    <3>4. l \in t.loops BY <1>1, <3>3
    <3> QED BY <1>1, <3>1, <3>4 DEF IoSound, Awaits, Current
  <2> QED BY <2>1, <2>2
<1>6. PipeSound(t) BY <1>1 DEF WorkerSound, PipeSound
<1>7. EventsSound(t)
  <2>1. \A e : EventSound(r, e) => EventSound(t, e) BY <1>1 DEF EventSound
  <2> QED BY <2>1, <1>1 DEF WorkerSound, EventsSound
<1>8. KindMatch(t, x, T)
  <2> SUFFICES ASSUME t.gen = x.gen, NEW m \in t.loops, m.run = t.runId
               PROVE  T = TracksOf(m.kind)
    BY DEF KindMatch
  <2>1. PICK l \in r.loops : m = after(l) BY <1>1
  <2>2. l.run = r.runId /\ l.kind = m.kind BY <2>1, <1>0, <1>1, <1>2
  <2> QED BY <2>2, <1>1 DEF KindMatch
<1> QED BY <1>1, <1>3, <1>4, <1>5, <1>6, <1>7, <1>8 DEF WorkerSound, t

\* FetchLoader.resume makes the request anew: the loop still waits.
LEMMA RestartSound ==
  ASSUME NEW s, WorkerSound(s), s.io.paused, NEW p, p = [s EXCEPT !.paused = FALSE], NEW x, NEW T, KindMatch(s, x, T)
  PROVE  StepSound(p, Restart(p), x, T) /\ Restart(p).paused = FALSE
<1>0. DOMAIN s = WorkerFields BY DEF WorkerSound, WorkerTyped
<1>1. /\ DOMAIN p = WorkerFields /\ p.paused = FALSE /\ p.io = s.io
      /\ p.pipe = s.pipe /\ p.made = s.made /\ p.gen = s.gen /\ p.runId = s.runId /\ p.mode = s.mode
      /\ p.gate = s.gate /\ p.loops = s.loops /\ p.fmp4 = s.fmp4 /\ p.inputs = s.inputs
      /\ p.stash = s.stash /\ p.chunks = s.chunks /\ p.decodes = s.decodes /\ p.units = s.units
      /\ p.out = s.out
  BY <1>0 DEF WorkerFields
<1>2. PICK l \in s.loops : Awaits(s, l)
  <2>1. s.io # NoIo BY DEF NoIo
  <2> QED BY <2>1 DEF WorkerSound, IoSound
<1>3. /\ l.run = s.runId /\ l.pc = "load" /\ LoopSound(s, l) /\ \A o \in s.loops : o.run = s.runId => o = l
  BY <1>2 DEF Awaits, Current, WorkerSound, LoopsSound
<1>4. WorkerSound(p)
  <2>1. WorkerTyped(p) /\ PipeSound(p) BY <1>1 DEF WorkerSound, WorkerTyped, PipeSound
  <2>2. LoopSound(p, l) BY <1>1, <1>3 DEF LoopSound
  <2>3. LoopsSound(p) BY <1>1, <1>3, <2>2 DEF WorkerSound, LoopsSound
  <2>4. IoSound(p) BY <1>1, <1>2 DEF IoSound, Awaits, Current
  <2>5. EventsSound(p)
    <3>1. \A e : EventSound(s, e) => EventSound(p, e) BY <1>1 DEF EventSound
    <3> QED BY <1>1, <3>1 DEF WorkerSound, EventsSound
  <2> QED BY <2>1, <2>3, <2>4, <2>5 DEF WorkerSound
<1>5. Speaks(p, p.io.load) /\ p.pipe = "on"
  <2>1. l.load = s.io.load BY <1>2 DEF Awaits
  <2>2. s.pipe = "on" /\ l.load = s.gen BY <1>3 DEF LoopSound
  <2>3. s.gen >= 1 BY <2>2 DEF WorkerSound, PipeSound
  <2> QED BY <1>1, <2>1, <2>2, <2>3, ZenonT(60) DEF Speaks
<1> DEFINE f == FinishTsInputBoundary(p, p.io.load)
           g == [f.io EXCEPT !.paused = FALSE, !.st = "connecting", !.n = 0, !.fresh = TRUE]
           u == [f EXCEPT !.fmp4 = FALSE, !.chunks = FALSE, !.inputs = @ + 1, !.io = g]
<1>6. Restart(p) = u BY DEF Restart
<1>7. /\ WorkerSound(f) /\ Keeps(p, f, x, T) /\ SameLoops(p, f) /\ f.stash = {} /\ f.chunks = p.chunks
      /\ DOMAIN f = WorkerFields
  BY <1>4, <1>5, BoundaryFinished
<1> HIDE DEF f
<1>8. f.io \in Fetch /\ f.inputs \in Nat /\ f.decodes \in SUBSET Decode /\ PipeSound(f)
  BY <1>7 DEF WorkerSound, WorkerTyped
<1>9. /\ DOMAIN u = WorkerFields
      /\ u.pipe = f.pipe /\ u.made = f.made /\ u.gen = f.gen /\ u.runId = f.runId /\ u.mode = f.mode
      /\ u.paused = f.paused /\ u.gate = f.gate /\ u.loops = f.loops /\ u.inputs = f.inputs + 1 /\ u.units = f.units
      /\ u.out = f.out /\ u.stash = f.stash /\ u.decodes = f.decodes /\ u.io = g /\ ~u.chunks /\ ~u.fmp4
  BY <1>7 DEF WorkerFields
<1>10. g \in Fetch /\ g.run = f.io.run /\ g.load = f.io.load /\ g.i = f.io.i /\ g.st = "connecting"
  BY <1>8 DEF Fetch
<1> HIDE DEF g, u
<1>11. LoopSound(u, l) /\ Awaits(u, l) /\ Awaits(f, l) /\ l \in f.loops /\ \A o \in f.loops : o.run = f.runId => o = l
  <2>1. Awaits(f, l) /\ l \in f.loops /\ \A o \in f.loops : o.run = f.runId => o = l
    <3>1. f.loops = s.loops /\ f.runId = s.runId /\ f.io = s.io
      BY <1>1, <1>7 DEF SameLoops
    <3> QED
      <4>1. l \in f.loops /\ \A o \in f.loops : o.run = f.runId => o = l
        BY <1>3, <3>1
      <4>2. Current(f, l) /\ l.pc = "load" BY <1>3, <3>1, <4>1 DEF Current
      <4>3. l.run = f.io.run /\ l.load = f.io.load /\ l.i = f.io.i
        BY <1>2, <3>1 DEF Awaits
      <4>4. f.io.st = "text" => l.kind = "hidden" BY <1>2, <3>1 DEF Awaits
      <4> QED BY <4>1, <4>2, <4>3, <4>4 DEF Awaits
  <2>2. Awaits(u, l) BY <1>9, <1>10, <2>1 DEF Awaits, Current
  <2>3. LoopSound(u, l)
    BY <1>1, <1>3, <1>7, <1>9 DEF LoopSound, SameLoops
  <2> QED BY <2>1, <2>2, <2>3
<1>12. (\A d \in u.decodes : d.current => d.of = u.gen) /\ u.stash \subseteq {u.inputs} /\ u.inputs \in Nat
       /\ u.decodes \in SUBSET Decode /\ u.io \in Fetch
  BY <1>7, <1>8, <1>9, <1>10 DEF PipeSound
<1>13. KindMatch(f, x, T) BY <1>1, <1>7 DEF KindMatch, SameLoops
<1>14. StepSound(f, u, x, T) BY <1>7, <1>9, <1>11, <1>12, <1>13, FetchGoesOn
<1>15. StepSound(p, u, x, T) BY <1>7, <1>14, KeepsTransitive DEF StepSound
<1>16. u.paused = FALSE BY <1>1, <1>7, <1>9 DEF SameLoops
<1> QED BY <1>6, <1>15, <1>16

LEMMA ResumeHandled ==
  ASSUME NEW s, NEW x, Sound(s, x), x.cmds # << >>, NEW c, c = Head(x.cmds), c.c = "resume"
  PROVE  Handled(s, HandleCommand(s, c), x, c)
<1> DEFINE p == [s EXCEPT !.paused = FALSE]
           u == IF s.mode = "continuous" /\ s.io.paused THEN Restart(p) ELSE p
           t == WakeGate(u)
<1>1. WorkerSound(s) /\ DOMAIN s = WorkerFields /\ s.pipe \in {"none", "made", "on"}
  BY DEF Sound, WorkerSound, WorkerTyped
<1>2. s.pipe = "on"
  <2>1. c.c \in Allowed(s.pipe) BY CommandFacts
  <2> QED BY <1>1, <2>1 DEF Allowed
<1>3. HandleCommand(s, c) = t BY <1>2 DEF HandleCommand, Resume
<1>4. PICK T \in {{"video"}, BothTracks} : TracksSound(s, x, T)
  BY DEF Sound
<1>5. KindMatch(s, x, T) BY <1>4 DEF TracksSound, KindMatch
<1>6. /\ DOMAIN p = WorkerFields /\ p.paused = FALSE /\ p.io = s.io
      /\ p.pipe = s.pipe /\ p.made = s.made /\ p.gen = s.gen /\ p.runId = s.runId /\ p.mode = s.mode
      /\ p.gate = s.gate /\ p.loops = s.loops /\ p.fmp4 = s.fmp4 /\ p.inputs = s.inputs
      /\ p.stash = s.stash /\ p.chunks = s.chunks /\ p.decodes = s.decodes /\ p.units = s.units
      /\ p.out = s.out
  BY <1>1 DEF WorkerFields
<1>7. NumbersSound(p, x) /\ BatchSound(p.out, x, T) /\ BuffersSound(x, T) /\ (Begun(p, x) \/ Untouched(x))
  BY <1>4, <1>6 DEF Sound, TracksSound, NumbersSound, SegmentsSent, Begun
<1>8. /\ WorkerSound(t) /\ ~t.paused /\ KindMatch(t, x, T) /\ t.pipe = "on" /\ t.gen = s.gen
      /\ NumbersSound(t, x) /\ BatchSound(t.out, x, T) /\ (Begun(t, x) \/ Untouched(x))
  <2>1. CASE s.mode = "continuous" /\ s.io.paused
    <3>1. u = Restart(p) BY <2>1
    <3>2. StepSound(p, u, x, T) /\ u.paused = FALSE BY <1>1, <1>5, <2>1, <3>1, RestartSound
    <3> HIDE DEF u, p
    <3>3. WorkerSound(u) /\ DOMAIN u = WorkerFields /\ Keeps(p, u, x, T) /\ KindMatch(u, x, T)
      BY <3>2 DEF StepSound, WorkerSound, WorkerTyped
    <3>4. /\ WorkerSound(t) /\ ~t.paused /\ KindMatch(t, x, T)
          /\ t.pipe = u.pipe /\ t.gen = u.gen /\ t.units = u.units /\ t.out = u.out
      BY <3>2, <3>3, GateWoken
    <3> HIDE DEF t
    <3>5. NumbersSound(u, x) /\ BatchSound(u.out, x, T) /\ u.pipe = "on" /\ u.gen = s.gen /\ (Begun(u, x) \/ Untouched(x))
      BY <1>2, <1>6, <1>7, <3>3 DEF Keeps, Begun
    <3> QED BY <3>4, <3>5 DEF NumbersSound, SegmentsSent, Begun
  <2>2. CASE ~(s.mode = "continuous" /\ s.io.paused)
    <3>1. u = p BY <2>2
    <3> HIDE DEF u, p
    <3>2. /\ WorkerSound(t) /\ ~t.paused /\ KindMatch(t, x, T)
          /\ t.pipe = s.pipe /\ t.gen = s.gen /\ t.units = s.units /\ t.out = s.out
      BY <1>1, <1>5, <1>6, <3>1, GateWoken, ZenonT(60)
    <3> HIDE DEF t
    <3> QED BY <1>2, <1>6, <1>7, <3>2 DEF NumbersSound, SegmentsSent, Begun
  <2> QED BY <2>1, <2>2
<1> HIDE DEF t
<1> QED BY <1>3, <1>7, <1>8 DEF Handled, PipeAfter

\* A command is handled.
LEMMA ReceivesSound ==
  ASSUME Sound(w, mt), WorkerReceives
  PROVE  Sound(w', mt')
<1> DEFINE c == Head(mt.cmds)
           t == HandleCommand(w, c)
           y == [mt EXCEPT !.cmds = Tail(@)]
<1>1. mt.cmds # << >> /\ w' = t /\ mt' = y BY DEF WorkerReceives
<1>2. c.c \in {"init", "start", "load", "pause", "resume", "reset"}
  BY <1>1, CommandFacts DEF Command
<1>3. Handled(w, t, mt, c)
  BY <1>1, <1>2, LoadHandled, InitHandled, ResetHandled, PauseHandled, ResumeHandled
<1>4. DOMAIN mt = MainFields BY DEF Sound, MainSound, MainTyped
<1>5. SameMain(mt, y) /\ y.cmds = Tail(mt.cmds) BY <1>4 DEF SameMain, SameMedia, MainFields
<1> HIDE DEF t, y
<1>6. PICK T \in {{"video"}, BothTracks} : KindMatch(t, mt, T) /\ BatchSound(t.out, mt, T) /\ BuffersSound(mt, T)
  BY <1>3 DEF Handled
<1>7. /\ WorkerSound(t) /\ t.pipe = PipeAfter(c.c) /\ (t.paused <=> c.c = "pause")
      /\ t.gen = IF c.c \in {"init", "load"} THEN c.load ELSE w.gen
      /\ Begun(t, mt) \/ Untouched(mt)
      /\ NumbersSound(t, mt)
  BY <1>3 DEF Handled
<1> HIDE DEF c
<1> QED BY <1>1, <1>5, <1>6, <1>7, CommandTaken DEF c

----------------------------------------------------------------------------
(* The main thread: pausing and resuming the worker                        *)

\* The main thread x is in order for a worker s, but for the init segments and
\* the SourceBuffers, and, if Lean, for what was just played.
Lean(s, x) ==
  /\ MainTyped(x) /\ StateSound(x) /\ QueuesSound(x)
  /\ ChannelSound(s, x) /\ FlagsSound(s, x) /\ NumbersSound(s, x)
Fine(s, x) == Lean(s, x) /\ FlowSound(x)

\* A worker that has its stream is told to pause or to resume.
Tells(x, c, y) ==
  /\ y.cmds = Append(x.cmds, [c |-> c, load |-> x.gen, kind |-> x.segs])
  /\ y.gen = x.gen /\ y.wInit = x.wInit /\ y.segs = x.segs
  /\ y.ms \in {"none", "closed"} => y.ms = x.ms

LEMMA Told ==
  ASSUME NEW s, NEW x, MainTyped(x), ChannelSound(s, x), x.wInit, NEW c \in {"pause", "resume"}, NEW y, Tells(x, c, y)
  PROVE  y.cmds \in Seq(Command) /\ ChannelSound(s, y) /\ \A p : PausedEnd(p, y.cmds) <=> c = "pause"
<1> DEFINE d == [c |-> c, load |-> x.gen, kind |-> x.segs]
           r == x.cmds
           q == y.cmds
<1>1. r \in Seq(Command) /\ d \in Command /\ d.c = c BY DEF MainTyped, Command
<1> HIDE DEF d
<1>2. q = Append(r, d) BY DEF d, Tells
<1>3. Obeys(s.pipe, r) /\ PipeEnd(s.pipe, r) = "on" /\ LoadsRise(s.gen, r, LastLoad(x)) /\ KindsKnown(r)
  BY DEF ChannelSound
<1> HIDE DEF r, q
<1>4. Obeys(s.pipe, q) /\ PipeEnd(s.pipe, q) = "on"
  <2>1. d.c \in Allowed(PipeEnd(s.pipe, r)) /\ PipeAfter(d.c) = "on"
    BY <1>1, <1>3 DEF Allowed, PipeAfter
  <2>2. Obeys(s.pipe, Append(r, d)) /\ PipeEnd(s.pipe, Append(r, d)) = PipeAfter(d.c)
    BY <2>1, <1>1, <1>3, ObeysAppend
  <2> QED BY <2>1, <2>2, <1>2
<1>5. /\ Len(r) \in Nat /\ Len(q) = Len(r) + 1 /\ q[Len(r) + 1] = d /\ q \in Seq(Command)
      /\ \A i \in 1 .. Len(r) : q[i] = r[i]
  <2>1. /\ Len(r) \in Nat /\ Len(Append(r, d)) = Len(r) + 1 /\ Append(r, d)[Len(r) + 1] = d /\ Append(r, d) \in Seq(Command)
        /\ \A i \in 1 .. Len(r) : Append(r, d)[i] = r[i]
    BY ONLY <1>1
  <2> QED BY ONLY <2>1, <1>2
<1>6. ~Dated(d) /\ \A i \in 1 .. Len(q) : i \in 1 .. Len(r) \/ i = Len(r) + 1
  BY <1>1, <1>5 DEF Dated
<1>7. LoadsRise(s.gen, q, LastLoad(x)) /\ KindsKnown(q)
  <2>1. LoadsRise(s.gen, q, LastLoad(x)) BY <1>3, <1>5, <1>6 DEF LoadsRise
  <2>2. KindsKnown(q) BY <1>1, <1>3, <1>5, <1>6 DEF KindsKnown
  <2> QED BY <2>1, <2>2
<1>8. ChannelSound(s, y)
  BY <1>4, <1>7 DEF ChannelSound, LastLoad, Tells, q
<1>9. \A p : PausedEnd(p, q) <=> c = "pause"
  <2>1. q # << >> BY <1>5
  <2> QED BY <2>1, <1>1, <1>5 DEF PausedEnd
<1> QED BY <1>5, <1>8, <1>9 DEF q

\* y is x with another command under way, and the flags that go with it.
Sent(x, y, c) ==
  SameMedia(x, y) /\ Tells(x, c, y)

LEMMA SentLean ==
  ASSUME NEW s, NEW x, Lean(s, x), x.wInit, NEW c \in {"pause", "resume"}, NEW y, Sent(x, y, c),
         y.wm \in BOOLEAN, y.bf \in BOOLEAN, c = "pause" <=> (y.wm \/ y.bf),
         x.ms \notin {"none", "closed"}
  PROVE  Lean(s, y)
<1>1. /\ MainTyped(x) /\ StateSound(x) /\ QueuesSound(x) /\ ChannelSound(s, x) /\ NumbersSound(s, x)
      /\ SameMedia(x, y) /\ Tells(x, c, y)
  BY DEF Lean, Sent
<1>2. y.gen = x.gen /\ y.wInit = x.wInit /\ y.segs = x.segs /\ y.ms = x.ms
  BY <1>1 DEF SameMedia
<1>3. y.cmds \in Seq(Command) /\ ChannelSound(s, y) /\ \A p : PausedEnd(p, y.cmds) <=> c = "pause"
  BY <1>1, <1>2, Told
<1>4. MainTyped(y) BY <1>1, <1>3 DEF MainTyped, SameMedia
<1>5. StateSound(y) BY <1>1, <1>2 DEF StateSound
<1>6. QueuesSound(y) /\ NumbersSound(s, y) BY <1>1, SameMediaSound
<1>7. FlagsSound(s, y) BY <1>3 DEF FlagsSound
<1> QED BY <1>3, <1>4, <1>5, <1>6, <1>7 DEF Lean

\* updateFetchBackpressure keeps what the flags mean.
LEMMA Backpressure ==
  ASSUME NEW s, NEW x, Lean(s, x)
  PROVE  Fine(s, UpdateFetchBackpressure(x)) /\ SameMedia(x, UpdateFetchBackpressure(x))
<1> DEFINE y == UpdateFetchBackpressure(x)
<1>1. DOMAIN x = MainFields /\ x.wm \in BOOLEAN /\ x.bf \in BOOLEAN /\ x.ahead \in 0 .. Cap /\ StateSound(x)
      /\ x.ms \in {"none", "closed", "open", "ended", "dead"}
  BY DEF Lean, MainTyped
<1>2. Cap \in Nat /\ PauseAt \in Nat /\ ResumeAt \in Nat /\ ResumeAt <= PauseAt
  BY ControllerAssumption
<1>3. x.ahead \in Nat BY <1>1, <1>2
<1>4. x.wm \/ x.bf \/ x.throttle => x.ms \in {"open", "ended", "dead"} /\ x.wInit
  BY <1>1 DEF StateSound
<1>5. CASE (x.wm \/ x.bf) /\ x.ahead < ResumeAt
  <2>1. y = Send([x EXCEPT !.wm = FALSE, !.bf = FALSE], "resume")
    BY <1>5 DEF UpdateFetchBackpressure
  <2>2. Sent(x, y, "resume") /\ y.wm = FALSE /\ y.bf = FALSE
    BY <1>1, <2>1 DEF Send, Sent, Tells, SameMedia, MainFields
  <2> HIDE DEF y
  <2>3. Lean(s, y) BY <1>4, <1>5, <2>2, SentLean
  <2>4. FlowSound(y) BY <2>2 DEF FlowSound
  <2> QED BY <2>2, <2>3, <2>4 DEF Fine, Sent, y
<1>6. CASE (x.wm \/ x.bf) /\ ~(x.ahead < ResumeAt)
  <2>1. y = x BY <1>6 DEF UpdateFetchBackpressure
  <2>2. FlowSound(x) BY <1>2, <1>3, <1>6 DEF FlowSound
  <2>3. SameMedia(x, x) BY <1>1 DEF SameMedia
  <2> QED BY <2>1, <2>2, <2>3 DEF Fine
<1>7. CASE ~(x.wm \/ x.bf) /\ x.throttle /\ x.ahead > PauseAt
  <2>1. y = Send([x EXCEPT !.wm = TRUE], "pause") BY <1>7 DEF UpdateFetchBackpressure
  <2>2. Sent(x, y, "pause") /\ y.wm = TRUE /\ y.bf = x.bf
    BY <1>1, <2>1 DEF Send, Sent, Tells, SameMedia, MainFields
  <2> HIDE DEF y
  <2>3. Lean(s, y) BY <1>1, <1>4, <1>7, <2>2, SentLean
  <2>4. y.ahead = x.ahead BY <2>2 DEF Sent, SameMedia
  <2>5. FlowSound(y) BY <1>2, <1>3, <1>7, <2>4 DEF FlowSound
  <2> QED BY <2>2, <2>3, <2>5 DEF Fine, Sent, y
<1>8. CASE ~(x.wm \/ x.bf) /\ ~(x.throttle /\ x.ahead > PauseAt)
  <2>1. y = x BY <1>8 DEF UpdateFetchBackpressure
  <2>2. FlowSound(x) BY <1>8 DEF FlowSound
  <2>3. SameMedia(x, x) BY <1>1 DEF SameMedia
  <2> QED BY <2>1, <2>2, <2>3 DEF Fine
<1> QED BY <1>5, <1>6, <1>7, <1>8

\* onBufferFull, while the buffer is full.
LEMMA BufferFull ==
  ASSUME NEW s, NEW x, Fine(s, x), x.ms = "open", x.ahead >= Cap
  PROVE  Fine(s, OnBufferFull(x)) /\ SameMedia(x, OnBufferFull(x))
<1> DEFINE y == OnBufferFull(x)
<1>1. Lean(s, x) /\ DOMAIN x = MainFields /\ x.wm \in BOOLEAN /\ x.ahead \in 0 .. Cap /\ x.wInit
  BY DEF Fine, Lean, MainTyped, StateSound
<1>2. Cap \in Nat /\ PauseAt \in Nat /\ ResumeAt \in Nat /\ ResumeAt <= PauseAt /\ PauseAt < Cap
  BY ControllerAssumption
<1>3. Sent(x, y, "pause") /\ y.wm = x.wm /\ y.bf = TRUE
  BY <1>1 DEF OnBufferFull, Send, Sent, Tells, SameMedia, MainFields
<1> HIDE DEF y
<1>4. Lean(s, y) BY <1>1, <1>3, SentLean
<1>5. y.ahead = x.ahead BY <1>3 DEF Sent, SameMedia
<1>6. FlowSound(y) BY <1>1, <1>2, <1>5 DEF FlowSound
<1> QED BY <1>3, <1>4, <1>6 DEF Fine, Sent, y

----------------------------------------------------------------------------
(* The main thread: appending                                              *)

\* y has the commands, the flags and the stream of x.
SameControl(x, y) ==
  /\ DOMAIN y = MainFields
  /\ y.gen = x.gen /\ y.cmds = x.cmds /\ y.wInit = x.wInit /\ y.segs = x.segs /\ y.inits = x.inits
  /\ y.throttle = x.throttle /\ y.wm = x.wm /\ y.bf = x.bf /\ y.ms = x.ms

\* y has the SourceBuffers of x and its early init segments.
SameShape(x, y) ==
  /\ y.gen = x.gen /\ y.inits = x.inits /\ y.managed = x.managed /\ y.refuses = x.refuses
  /\ y.disabled = x.disabled /\ y.ms = x.ms /\ y.streaming = x.streaming /\ y.early = x.early
  /\ y.parsed = x.parsed /\ y.late = x.late
  /\ \A t \in MseTracks : y.sb[t] = "none" <=> x.sb[t] = "none"

\* What a step of one stream keeps.
Progress(x, y) ==
  /\ y.gen = x.gen /\ y.inits = x.inits /\ y.late = x.late
  /\ \A T \in SUBSET MseTracks : BuffersSound(x, T) => BuffersSound(y, T)

LEMMA ShapeFacts ==
  ASSUME NEW x, NEW y
  PROVE  /\ SameShape(x, x)
         /\ SameMedia(x, y) => SameShape(x, y)
         /\ SameShape(x, y) => Progress(x, y)
         /\ \A z : SameShape(x, y) /\ SameShape(y, z) => SameShape(x, z)
         /\ \A z : Progress(x, y) /\ Progress(y, z) => Progress(x, z)
<1>1. SameShape(x, x) BY DEF SameShape
<1>2. SameMedia(x, y) => SameShape(x, y) BY DEF SameShape, SameMedia
<1>3. SameShape(x, y) => Progress(x, y)
  BY DEF SameShape, Progress, BuffersSound, Created, CanAppend
<1>4. \A z : SameShape(x, y) /\ SameShape(y, z) => SameShape(x, z)
  BY DEF SameShape
<1>5. \A z : Progress(x, y) /\ Progress(y, z) => Progress(x, z)
  BY DEF Progress
<1> QED BY <1>1, <1>2, <1>3, <1>4, <1>5

LEMMA ControlKept ==
  ASSUME NEW s, NEW x, Lean(s, x), NEW y, SameControl(x, y),
         y.sb \in [MseTracks -> {"none", "idle", "init", "media", "remove"}],
         y.pend \in [MseTracks -> Seq(Entry)], y.app \in Seq([of : Loads, n : Nat]), y.ahead \in 0 .. Cap,
         QueuesSound(y), NumbersSound(s, y)
  PROVE  Lean(s, y) /\ (FlowSound(x) /\ y.ahead >= x.ahead => Fine(s, y))
<1>1. MainTyped(y) BY DEF Lean, MainTyped, SameControl
<1>2. StateSound(y) BY DEF Lean, StateSound, SameControl
<1>3. ChannelSound(s, y) BY DEF Lean, ChannelSound, SameControl, LastLoad
<1>4. FlagsSound(s, y) BY DEF Lean, FlagsSound, SameControl
<1>5. Lean(s, y) BY <1>1, <1>2, <1>3, <1>4 DEF Lean
<1>6. ASSUME FlowSound(x), y.ahead >= x.ahead
      PROVE  FlowSound(y)
  <2>1. x.ahead \in Nat /\ y.ahead \in Nat /\ ResumeAt \in Nat
    BY ControllerAssumption DEF Lean, MainTyped
  <2> QED BY <1>6, <2>1 DEF FlowSound, SameControl
<1> QED BY <1>5, <1>6 DEF Fine

LEMMA RemoveRanges ==
  ASSUME NEW s, NEW x, Fine(s, x)
  PROVE  Fine(s, DoRemoveRanges(x)) /\ SameShape(x, DoRemoveRanges(x))
<1> DEFINE y == DoRemoveRanges(x)
<1>1. CASE ~(x.rem /\ x.sb["video"] = "idle") BY <1>1, ShapeFacts DEF DoRemoveRanges
<1>2. CASE x.rem /\ x.sb["video"] = "idle"
  <2>1. /\ DOMAIN x = MainFields /\ Lean(s, x) /\ FlowSound(x) /\ MainTyped(x)
        /\ x.sb \in [MseTracks -> {"none", "idle", "init", "media", "remove"}]
    BY DEF Fine, Lean, MainTyped
  <2>2. y = [x EXCEPT !.rem = FALSE, !.sb["video"] = "remove"]
    BY <1>2 DEF DoRemoveRanges
  <2>3. /\ DOMAIN y = MainFields
        /\ y.gen = x.gen /\ y.cmds = x.cmds /\ y.wInit = x.wInit /\ y.segs = x.segs /\ y.inits = x.inits
        /\ y.throttle = x.throttle /\ y.wm = x.wm /\ y.bf = x.bf /\ y.ms = x.ms
        /\ y.managed = x.managed /\ y.refuses = x.refuses /\ y.disabled = x.disabled /\ y.streaming = x.streaming
        /\ y.early = x.early /\ y.parsed = x.parsed /\ y.late = x.late /\ y.pend = x.pend /\ y.app = x.app
        /\ y.ahead = x.ahead /\ y.pcm = x.pcm /\ y.fed = x.fed
        /\ y.sb = [x.sb EXCEPT !["video"] = "remove"]
    BY <2>1, <2>2 DEF MainFields
  <2> HIDE DEF y
  <2>4. SameControl(x, y) BY <2>3 DEF SameControl
  <2>5. SameShape(x, y) BY <1>2, <2>1, <2>3 DEF SameShape, MseTracks
  <2>6. y.sb \in [MseTracks -> {"none", "idle", "init", "media", "remove"}]
    BY <2>1, <2>3
  <2>7. QueuesSound(y) /\ NumbersSound(s, y)
    <3>1. QueuesSound(y) BY <2>1, <2>3 DEF Lean, QueuesSound
    <3>2. NumbersSound(s, y)
      BY <2>1, <2>3 DEF Lean, NumbersSound, SegmentsSent, Begun
    <3> QED BY <3>1, <3>2
  <2>8. y.ahead >= x.ahead /\ y.ahead \in 0 .. Cap
    BY <2>1, <2>3, ControllerAssumption DEF MainTyped
  <2>9. y.pend \in [MseTracks -> Seq(Entry)] /\ y.app \in Seq([of : Loads, n : Nat])
    BY <2>1, <2>3 DEF MainTyped
  <2> QED BY <2>1, <2>4, <2>5, <2>6, <2>7, <2>8, <2>9, ControlKept DEF y
<1> QED BY <1>1, <1>2

\* The elements of a queue but the first.
LEMMA TailFacts ==
  ASSUME NEW S, NEW q \in Seq(S), q # << >>
  PROVE  /\ Head(q) \in S /\ Tail(q) \in Seq(S) /\ Head(q) = q[1] /\ Len(q) \in Nat /\ Len(q) >= 1
         /\ Len(Tail(q)) = Len(q) - 1 /\ 1 \in 1 .. Len(q)
         /\ \A i \in 1 .. Len(Tail(q)) : i + 1 \in 1 .. Len(q) /\ Tail(q)[i] = q[i + 1]
<1>1. Len(q) \in Nat /\ Len(q) # 0
  OBVIOUS
<1>2. Head(q) = q[1] /\ Len(Tail(q)) = Len(q) - 1 /\ Tail(q) \in Seq(S) /\ Head(q) \in S
  OBVIOUS
<1>3. \A i \in 1 .. Len(Tail(q)) : Tail(q)[i] = q[i + 1] BY HeadTailProperties
<1>4. Len(q) >= 1 /\ 1 \in 1 .. Len(q) /\ \A i \in 1 .. Len(Tail(q)) : i + 1 \in 1 .. Len(q)
  BY <1>1, <1>2
<1> QED BY <1>1, <1>2, <1>3, <1>4

\* appendBuffer takes the first entry of a track, and it is the next.
Taken(x, t, e, y) ==
  /\ SameControl(x, y)
  /\ y.managed = x.managed /\ y.refuses = x.refuses /\ y.disabled = x.disabled /\ y.streaming = x.streaming
  /\ y.early = x.early /\ y.parsed = x.parsed /\ y.late = x.late /\ y.pcm = x.pcm /\ y.fed = x.fed
  /\ y.pend = [x.pend EXCEPT ![t] = Tail(@)] /\ y.sb = [x.sb EXCEPT ![t] = e.kind]
  /\ e.kind = "init" => y.app = x.app /\ y.ahead = x.ahead
  /\ e.kind = "media" => y.app = Append(x.app, [of |-> e.of, n |-> e.n]) /\ y.ahead = x.ahead + 1

LEMMA EntryTaken ==
  ASSUME NEW s, NEW x, Fine(s, x), NEW t \in MseTracks, x.sb[t] = "idle", x.pend[t] # << >>, NEW e, e = Head(x.pend[t]),
         e.kind = "media" => x.ahead < Cap, NEW y, Taken(x, t, e, y)
  PROVE  Fine(s, y) /\ SameShape(x, y)
<1>0. /\ SameControl(x, y)
      /\ y.managed = x.managed /\ y.refuses = x.refuses /\ y.disabled = x.disabled /\ y.streaming = x.streaming
      /\ y.early = x.early /\ y.parsed = x.parsed /\ y.late = x.late /\ y.pcm = x.pcm /\ y.fed = x.fed
      /\ y.pend = [x.pend EXCEPT ![t] = Tail(@)] /\ y.sb = [x.sb EXCEPT ![t] = e.kind]
      /\ e.kind = "init" => y.app = x.app /\ y.ahead = x.ahead
      /\ e.kind = "media" => y.app = Append(x.app, [of |-> e.of, n |-> e.n]) /\ y.ahead = x.ahead + 1
  BY DEF Taken
<1> DEFINE q == x.pend[t]
<1>1. /\ Lean(s, x) /\ FlowSound(x) /\ MainTyped(x) /\ QueuesSound(x) /\ NumbersSound(s, x)
      /\ x.pend \in [MseTracks -> Seq(Entry)] /\ x.app \in Seq([of : Loads, n : Nat]) /\ x.ahead \in 0 .. Cap
      /\ x.sb \in [MseTracks -> {"none", "idle", "init", "media", "remove"}] /\ x.gen \in Loads
  BY DEF Fine, Lean, MainTyped
<1>2. q \in Seq(Entry) /\ Cap \in Nat /\ x.ahead \in Nat BY <1>1, ControllerAssumption
<1>3. /\ e \in Entry /\ Tail(q) \in Seq(Entry) /\ e = q[1] /\ 1 \in 1 .. Len(q)
      /\ \A i \in 1 .. Len(Tail(q)) : i + 1 \in 1 .. Len(q) /\ Tail(q)[i] = q[i + 1]
  BY <1>2, TailFacts
<1>4. e.kind \in {"init", "media"} /\ e.of \in Loads /\ e.n \in Nat
  BY <1>3 DEF Entry
<1>5. t \notin x.disabled BY <1>1 DEF QueuesSound
<1>6. e.kind = "media" => t = "video" /\ e.of = x.gen BY <1>1, <1>3 DEF QueuesSound
<1>7. /\ y.pend[t] = Tail(q) /\ \A u \in MseTracks : u # t => y.pend[u] = x.pend[u]
      /\ y.pend \in [MseTracks -> Seq(Entry)]
  BY <1>0, <1>1, <1>3
<1> HIDE DEF q
<1>8. y.sb \in [MseTracks -> {"none", "idle", "init", "media", "remove"}]
      /\ \A u \in MseTracks : y.sb[u] = "none" <=> x.sb[u] = "none"
  BY <1>0, <1>1, <1>4
<1>9. SameShape(x, y) BY <1>0, <1>8 DEF SameShape, SameControl
<1>10. y.ahead \in 0 .. Cap /\ y.ahead >= x.ahead BY <1>0, <1>1, <1>2, <1>4
<1>11. y.app \in Seq([of : Loads, n : Nat])
  <2>1. [of |-> e.of, n |-> e.n] \in [of : Loads, n : Nat] BY <1>4
  <2>2. Append(x.app, [of |-> e.of, n |-> e.n]) \in Seq([of : Loads, n : Nat])
    BY <2>1, <1>1
  <2> QED BY <2>2, <1>0, <1>1, <1>4
<1>12. /\ t = "video" /\ e.kind = "media" => e.n = Len(x.app) + 1
       /\ NumbersSound(s, y)
  <2>1. CASE "video" \in x.disabled
    <3>1. "video" \in y.disabled /\ t # "video" BY <2>1, <1>0, <1>5
    <3> QED BY <3>1 DEF NumbersSound
  <2>2. CASE "video" \notin x.disabled /\ t # "video"
    <3>1. e.kind = "init" BY <2>2, <1>4, <1>6
    <3>2. y.pend["video"] = x.pend["video"] /\ y.app = x.app /\ y.gen = x.gen
      BY <2>2, <3>1, <1>0, <1>7 DEF MseTracks, SameControl
    <3>3. NumbersSound(s, y)
      BY <3>2, <2>2, <1>1 DEF NumbersSound, SegmentsSent, Begun
    <3> QED BY <2>2, <3>3
  <2>3. CASE "video" \notin x.disabled /\ t = "video"
    <3>1. PICK b \in Nat : /\ Numbered(x.pend["video"], MediaEntries, Len(x.app), b)
                           /\ Numbered(s.out, MediaEvents(x.gen), b, SegmentsSent(s, x))
      BY <2>3, <1>1 DEF NumbersSound
    <3>2. x.pend["video"] = q /\ q # << >> /\ e = Head(q) BY <2>3 DEF q
    <3>3. /\ e \in MediaEntries => e.n = Len(x.app) + 1
          /\ Numbered(Tail(q), MediaEntries, IF e \in MediaEntries THEN Len(x.app) + 1 ELSE Len(x.app), b)
      BY <3>1, <3>2, <1>2, NumberedTail DEF q
    <3>4. e \in MediaEntries <=> e.kind = "media" BY <1>3, <1>4 DEF MediaEntries, Entry
    <3>5. Len(y.app) = IF e \in MediaEntries THEN Len(x.app) + 1 ELSE Len(x.app)
      BY <1>0, <1>1, <1>4, <3>4
    <3>6. y.pend["video"] = Tail(q) /\ y.gen = x.gen /\ SegmentsSent(s, y) = SegmentsSent(s, x)
      BY <2>3, <1>0, <1>7 DEF SegmentsSent, Begun, SameControl
    <3>7. NumbersSound(s, y) BY <3>1, <3>3, <3>5, <3>6 DEF NumbersSound
    <3> QED BY <3>3, <3>4, <3>7
  <2> QED BY <2>1, <2>2, <2>3
<1>13. QueuesSound(y)
  <2>1. ASSUME NEW u \in MseTracks, NEW i \in 1 .. Len(y.pend[u])
        PROVE  y.pend[u][i].kind = "media" => u = "video" /\ y.pend[u][i].of = y.gen
    <3>1. CASE u = t
      <4>1. y.pend[u] = Tail(q) /\ i + 1 \in 1 .. Len(q) /\ Tail(q)[i] = q[i + 1]
        BY <3>1, <2>1, <1>3, <1>7 DEF q
      <4>2. q[i + 1].kind = "media" => t = "video" /\ q[i + 1].of = x.gen
        BY <4>1, <1>1 DEF QueuesSound, q
      <4>3. y.gen = x.gen BY <1>0 DEF SameControl
      <4> QED BY ONLY <3>1, <4>1, <4>2, <4>3
    <3>2. CASE u # t
      <4>1. y.pend[u] = x.pend[u] /\ y.gen = x.gen BY <3>2, <1>0, <1>7 DEF SameControl
      <4> QED BY <4>1, <2>1, <1>1 DEF QueuesSound
    <3> QED BY <3>1, <3>2
  <2>2. \A u \in MseTracks : u \in y.disabled => u \in y.refuses /\ y.pend[u] = << >>
    BY <1>0, <1>1, <1>5, <1>7 DEF QueuesSound
  <2>3. ASSUME NEW i \in 1 .. Len(y.app)
        PROVE  y.app[i] = [of |-> y.gen, n |-> i]
    <3>1. CASE e.kind = "init"
      BY <3>1, <2>3, <1>0, <1>1 DEF QueuesSound, SameControl
    <3>2. CASE e.kind = "media"
      <4>1. e.n = Len(x.app) + 1 /\ e.of = x.gen /\ y.app = Append(x.app, [of |-> e.of, n |-> e.n])
        BY <3>2, <1>0, <1>6, <1>12
      <4>2. /\ Len(x.app) \in Nat /\ Len(y.app) = Len(x.app) + 1 /\ y.app[Len(x.app) + 1] = [of |-> e.of, n |-> e.n]
            /\ \A j \in 1 .. Len(x.app) : y.app[j] = x.app[j]
        <5>1. [of |-> e.of, n |-> e.n] \in [of : Loads, n : Nat] BY <1>4
        <5> QED BY <4>1, <5>1, <1>1
      <4>3. y.gen = x.gen /\ \A j \in 1 .. Len(x.app) : x.app[j] = [of |-> x.gen, n |-> j]
        BY <1>0, <1>1 DEF QueuesSound, SameControl
      <4>4. i \in 1 .. Len(x.app) => y.app[i] = [of |-> y.gen, n |-> i]
        BY ONLY <4>2, <4>3
      <4>5. i = Len(x.app) + 1 => y.app[i] = [of |-> y.gen, n |-> i]
        BY ONLY <4>1, <4>2, <4>3
      <4> QED BY <2>3, <4>2, <4>4, <4>5
    <3> QED BY <3>1, <3>2, <1>4
  <2>4. y.inits = x.inits /\ y.pcm = x.pcm /\ y.fed = x.fed /\ y.gen = x.gen
    BY <1>0 DEF SameControl
  <2> QED BY <2>1, <2>2, <2>3, <2>4, <1>1 DEF QueuesSound
<1> QED BY <1>0, <1>1, <1>7, <1>8, <1>9, <1>10, <1>11, <1>12, <1>13, ControlKept

LEMMA AppendEntrySound ==
  ASSUME NEW s, NEW x, Fine(s, x), x.ms = "open", NEW t \in MseTracks
  PROVE  Fine(s, AppendEntry(x, t)) /\ SameShape(x, AppendEntry(x, t))
<1> DEFINE e == Head(x.pend[t])
           y == [x EXCEPT !.pend[t] = Tail(@), !.sb[t] = e.kind, !.full = FALSE]
           m == [y EXCEPT !.app = Append(@, [of |-> e.of, n |-> e.n]), !.ahead = @ + 1]
           z == IF e.kind = "init" THEN y ELSE m
           v == AppendEntry(x, t)
<1>1. DOMAIN x = MainFields /\ Lean(s, x) BY DEF Fine, Lean, MainTyped
<1>2. CASE x.sb[t] # "idle" \/ x.pend[t] = << >>
  <2>1. v = x BY <1>2 DEF AppendEntry
  <2> QED BY <2>1, ShapeFacts
<1>3. CASE ~(x.sb[t] # "idle" \/ x.pend[t] = << >>) /\ e.kind = "media" /\ x.ahead >= Cap
  <2> DEFINE f == IF x.full THEN x ELSE OnBufferFull(x)
  <2>1. v = [f EXCEPT !.full = TRUE] BY <1>3 DEF AppendEntry
  <2>2. Fine(s, f) /\ SameShape(x, f) BY <1>3, BufferFull, ShapeFacts
  <2> HIDE DEF f
  <2>3. DOMAIN f = MainFields /\ MainTyped(f) /\ Lean(s, f) /\ FlowSound(f)
    BY <2>2 DEF Fine, Lean, MainTyped
  <2> HIDE DEF v
  <2>4. /\ DOMAIN v = MainFields
        /\ v.gen = f.gen /\ v.cmds = f.cmds /\ v.wInit = f.wInit /\ v.segs = f.segs /\ v.inits = f.inits
        /\ v.throttle = f.throttle /\ v.wm = f.wm /\ v.bf = f.bf /\ v.ms = f.ms
        /\ v.managed = f.managed /\ v.refuses = f.refuses /\ v.disabled = f.disabled /\ v.streaming = f.streaming
        /\ v.early = f.early /\ v.parsed = f.parsed /\ v.late = f.late /\ v.pend = f.pend /\ v.app = f.app
        /\ v.ahead = f.ahead /\ v.pcm = f.pcm /\ v.fed = f.fed /\ v.sb = f.sb
    BY <2>1, <2>3 DEF MainFields
  <2>5. SameControl(f, v) /\ SameShape(f, v) BY <2>4 DEF SameControl, SameShape
  <2>6. QueuesSound(v) BY <2>3, <2>4 DEF Lean, QueuesSound
  <2>7. NumbersSound(s, v)
    BY <2>3, <2>4 DEF Lean, NumbersSound, SegmentsSent, Begun
  <2>8. v.ahead >= f.ahead /\ v.ahead \in 0 .. Cap
    BY <2>3, <2>4, ControllerAssumption DEF MainTyped
  <2>9. /\ v.pend \in [MseTracks -> Seq(Entry)] /\ v.app \in Seq([of : Loads, n : Nat])
        /\ v.sb \in [MseTracks -> {"none", "idle", "init", "media", "remove"}]
    BY <2>3, <2>4 DEF MainTyped
  <2>10. Fine(s, v)
    BY <2>3, <2>5, <2>6, <2>7, <2>8, <2>9, ControlKept
  <2>11. SameShape(x, v) BY <2>2, <2>5, ShapeFacts
  <2> QED BY <2>10, <2>11 DEF v
<1>4. CASE ~(x.sb[t] # "idle" \/ x.pend[t] = << >>) /\ ~(e.kind = "media" /\ x.ahead >= Cap)
  <2>1. v = IF x.full THEN UpdateFetchBackpressure(z) ELSE z
    BY <1>4 DEF AppendEntry
  <2>2. /\ MainTyped(x) /\ x.pend[t] \in Seq(Entry) /\ x.ahead \in Nat /\ Cap \in Nat
    BY <1>1, ControllerAssumption DEF Lean, MainTyped
  <2>3. e \in Entry BY <1>4, <2>2
  <2>4. e.kind \in {"init", "media"} BY <2>3 DEF Entry
  <2> HIDE DEF e, v
  <2>5. /\ DOMAIN y = MainFields
        /\ y.gen = x.gen /\ y.cmds = x.cmds /\ y.wInit = x.wInit /\ y.segs = x.segs /\ y.inits = x.inits
        /\ y.throttle = x.throttle /\ y.wm = x.wm /\ y.bf = x.bf /\ y.ms = x.ms
        /\ y.managed = x.managed /\ y.refuses = x.refuses /\ y.disabled = x.disabled /\ y.streaming = x.streaming
        /\ y.early = x.early /\ y.parsed = x.parsed /\ y.late = x.late /\ y.app = x.app
        /\ y.ahead = x.ahead /\ y.pcm = x.pcm /\ y.fed = x.fed
        /\ y.sb = [x.sb EXCEPT ![t] = e.kind] /\ y.pend = [x.pend EXCEPT ![t] = Tail(@)]
    BY <1>1 DEF MainFields
  <2> HIDE DEF y
  <2>6. /\ DOMAIN m = MainFields
        /\ m.gen = y.gen /\ m.cmds = y.cmds /\ m.wInit = y.wInit /\ m.segs = y.segs /\ m.inits = y.inits
        /\ m.throttle = y.throttle /\ m.wm = y.wm /\ m.bf = y.bf /\ m.ms = y.ms
        /\ m.managed = y.managed /\ m.refuses = y.refuses /\ m.disabled = y.disabled /\ m.streaming = y.streaming
        /\ m.early = y.early /\ m.parsed = y.parsed /\ m.late = y.late
        /\ m.app = Append(y.app, [of |-> e.of, n |-> e.n])
        /\ m.ahead = y.ahead + 1 /\ m.pcm = y.pcm /\ m.fed = y.fed
        /\ m.sb = y.sb /\ m.pend = y.pend
    BY <2>5 DEF MainFields
  <2> HIDE DEF m
  <2>7. /\ DOMAIN z = MainFields
        /\ z.gen = x.gen /\ z.cmds = x.cmds /\ z.wInit = x.wInit /\ z.segs = x.segs /\ z.inits = x.inits
        /\ z.throttle = x.throttle /\ z.wm = x.wm /\ z.bf = x.bf /\ z.ms = x.ms
        /\ z.managed = x.managed /\ z.refuses = x.refuses /\ z.disabled = x.disabled /\ z.streaming = x.streaming
        /\ z.early = x.early /\ z.parsed = x.parsed /\ z.late = x.late
        /\ e.kind = "init" => z.app = x.app /\ z.ahead = x.ahead
        /\ e.kind = "media" => z.app = Append(x.app, [of |-> e.of, n |-> e.n]) /\ z.ahead = x.ahead + 1
        /\ z.pcm = x.pcm /\ z.fed = x.fed
        /\ z.sb = [x.sb EXCEPT ![t] = e.kind] /\ z.pend = [x.pend EXCEPT ![t] = Tail(@)]
    BY <2>5, <2>6
  <2> HIDE DEF z
  <2>8. Taken(x, t, e, z) BY <2>7 DEF Taken, SameControl
  <2>9. x.sb[t] = "idle" /\ x.pend[t] # << >> /\ e = Head(x.pend[t]) /\ (e.kind = "media" => x.ahead < Cap)
    BY <1>4, <2>2 DEF e
  <2>10. Fine(s, z) /\ SameShape(x, z) BY <2>8, <2>9, EntryTaken
  <2>11. Fine(s, UpdateFetchBackpressure(z)) /\ SameShape(z, UpdateFetchBackpressure(z))
    BY <2>10, Backpressure, ShapeFacts DEF Fine
  <2>12. Fine(s, v) /\ SameShape(x, v) BY <2>1, <2>10, <2>11, ShapeFacts
  <2> QED BY <2>12 DEF v
<1> QED BY <1>2, <1>3, <1>4

\* _tryAppendPending, and a stream of which nothing has come.
LEMMA TryAppendSound ==
  ASSUME NEW s, NEW x, Fine(s, x)
  PROVE  Fine(s, TryAppendPending(x)) /\ SameShape(x, TryAppendPending(x))
<1>1. ASSUME x.ms = "open"
      PROVE  Fine(s, DoAppendSegments(x)) /\ SameShape(x, DoAppendSegments(x))
  <2> DEFINE y == AppendEntry(x, "video")
  <2>1. Fine(s, y) /\ SameShape(x, y) BY <1>1, AppendEntrySound DEF MseTracks
  <2> HIDE DEF y
  <2>2. y.ms = "open" BY <1>1, <2>1 DEF SameShape
  <2>3. Fine(s, AppendEntry(y, "audio")) /\ SameShape(y, AppendEntry(y, "audio"))
    BY <2>1, <2>2, AppendEntrySound DEF MseTracks
  <2>4. SameShape(x, AppendEntry(y, "audio")) BY <2>1, <2>3, ShapeFacts
  <2> QED BY <2>3, <2>4 DEF DoAppendSegments, y
<1>2. Fine(s, DoRemoveRanges(x)) /\ SameShape(x, DoRemoveRanges(x))
  BY RemoveRanges
<1> QED BY <1>1, <1>2, ShapeFacts DEF TryAppendPending

----------------------------------------------------------------------------
(* The main thread: SourceBuffers and init segments                        *)

\* What stays while SourceBuffers are created.
Opening(x, y) ==
  /\ y.gen = x.gen /\ y.inits = x.inits /\ y.managed = x.managed /\ y.refuses = x.refuses
  /\ y.ms = x.ms /\ y.streaming = x.streaming /\ y.parsed = x.parsed /\ y.late = x.late
  /\ \A t \in MseTracks : Created(x, t) => Created(y, t)

LEMMA OpeningFacts ==
  ASSUME NEW x, NEW y
  PROVE  /\ Opening(x, x)
         /\ SameShape(x, y) => Opening(x, y)
         /\ \A z : Opening(x, y) /\ Opening(y, z) => Opening(x, z)
<1>1. Opening(x, x) BY DEF Opening
<1>2. SameShape(x, y) => Opening(x, y) BY DEF Opening, SameShape, Created
<1>3. \A z : Opening(x, y) /\ Opening(y, z) => Opening(x, z)
  BY DEF Opening
<1> QED BY <1>1, <1>2, <1>3

\* createSourceBuffer, before an init segment is parsed or where it does nothing.
LEMMA CreateSound ==
  ASSUME NEW s, NEW x, Fine(s, x), NEW t \in MseTracks, x.ms = "open" /\ x.parsed => Created(x, t)
  PROVE  LET y == CreateSourceBuffer(x, t)
         IN  /\ Fine(s, y) /\ Opening(x, y) /\ (x.ms = "open" => Created(y, t))
             /\ y.early \in SUBSET x.early /\ \A u \in x.early : u # t => u \in y.early
             /\ t \notin y.disabled => y.early = x.early
<1> DEFINE y == CreateSourceBuffer(x, t)
<1>1. /\ DOMAIN x = MainFields /\ Lean(s, x) /\ FlowSound(x) /\ MainTyped(x) /\ QueuesSound(x) /\ NumbersSound(s, x)
      /\ x.sb \in [MseTracks -> {"none", "idle", "init", "media", "remove"}] /\ x.pend \in [MseTracks -> Seq(Entry)]
      /\ x.app \in Seq([of : Loads, n : Nat]) /\ x.ahead \in 0 .. Cap /\ x.ahead >= x.ahead
  BY ControllerAssumption, SMTT(40) DEF Fine, Lean, MainTyped
<1>2. CASE t \in x.disabled \/ x.sb[t] # "none" \/ x.ms # "open"
  <2>1. y = x BY <1>2 DEF CreateSourceBuffer
  <2>2. x.ms = "open" => Created(x, t) BY <1>1, <1>2 DEF QueuesSound, Created
  <2> QED BY <2>1, <2>2, OpeningFacts
<1>3. CASE ~(t \in x.disabled \/ x.sb[t] # "none" \/ x.ms # "open") /\ t \in x.refuses
  <2>1. y = [x EXCEPT !.disabled = @ \cup {t}, !.pend[t] = << >>, !.early = @ \ {t}]
    BY <1>3 DEF CreateSourceBuffer, DisableTrack
  <2>2. /\ DOMAIN y = MainFields
        /\ y.gen = x.gen /\ y.cmds = x.cmds /\ y.wInit = x.wInit /\ y.segs = x.segs /\ y.inits = x.inits
        /\ y.throttle = x.throttle /\ y.wm = x.wm /\ y.bf = x.bf /\ y.ms = x.ms
        /\ y.managed = x.managed /\ y.refuses = x.refuses /\ y.streaming = x.streaming
        /\ y.parsed = x.parsed /\ y.late = x.late /\ y.app = x.app
        /\ y.ahead = x.ahead /\ y.pcm = x.pcm /\ y.fed = x.fed /\ y.sb = x.sb
        /\ y.disabled = x.disabled \cup {t} /\ y.early = x.early \ {t}
        /\ y.pend = [x.pend EXCEPT ![t] = << >>]
    BY <1>1, <2>1 DEF MainFields
  <2> HIDE DEF y
  <2>3. SameControl(x, y) BY <2>2 DEF SameControl
  <2>4. Opening(x, y) /\ Created(y, t) BY <1>3, <2>2 DEF Opening, Created
  <2>5. /\ y.pend[t] = << >> /\ \A u \in MseTracks : u # t => y.pend[u] = x.pend[u]
    BY <1>1, <2>2
  <2>6. y.pend \in [MseTracks -> Seq(Entry)] BY <1>1, <2>2
  <2>7. QueuesSound(y)
    <3>1. \A u \in MseTracks : \A i \in 1 .. Len(y.pend[u]) :
            y.pend[u][i].kind = "media" => u = "video" /\ y.pend[u][i].of = y.gen
      <4> SUFFICES ASSUME NEW u \in MseTracks, NEW i \in 1 .. Len(y.pend[u])
                   PROVE  y.pend[u][i].kind = "media" => u = "video" /\ y.pend[u][i].of = y.gen
        OBVIOUS
      <4>1. u # t BY <2>5
      <4> QED BY <4>1, <1>1, <2>2, <2>5 DEF QueuesSound
    <3>2. \A u \in MseTracks : u \in y.disabled => u \in y.refuses /\ y.pend[u] = << >>
      BY <1>1, <1>3, <2>2, <2>5 DEF QueuesSound
    <3> QED BY <3>1, <3>2, <1>1, <2>2 DEF QueuesSound
  <2>8. NumbersSound(s, y)
    <3>1. CASE "video" \in y.disabled BY <3>1 DEF NumbersSound
    <3>2. CASE "video" \notin y.disabled
      <4>1. "video" \notin x.disabled /\ y.pend["video"] = x.pend["video"]
        BY <3>2, <2>2, <2>5 DEF MseTracks
      <4> QED BY <4>1, <1>1, <2>2 DEF NumbersSound, SegmentsSent, Begun
    <3> QED BY <3>1, <3>2
  <2>9. Fine(s, y)
    BY <1>1, <2>2, <2>3, <2>6, <2>7, <2>8, ControlKept
  <2> QED BY <2>2, <2>4, <2>9 DEF y
<1>4. CASE ~(t \in x.disabled \/ x.sb[t] # "none" \/ x.ms # "open") /\ t \notin x.refuses
  <2>1. ~x.parsed BY <1>4 DEF Created
  <2>2. y = [x EXCEPT !.sb[t] = "idle"] BY <1>4, <2>1 DEF CreateSourceBuffer
  <2>3. /\ DOMAIN y = MainFields
        /\ y.gen = x.gen /\ y.cmds = x.cmds /\ y.wInit = x.wInit /\ y.segs = x.segs /\ y.inits = x.inits
        /\ y.throttle = x.throttle /\ y.wm = x.wm /\ y.bf = x.bf /\ y.ms = x.ms
        /\ y.managed = x.managed /\ y.refuses = x.refuses /\ y.streaming = x.streaming
        /\ y.parsed = x.parsed /\ y.late = x.late /\ y.app = x.app
        /\ y.ahead = x.ahead /\ y.pcm = x.pcm /\ y.fed = x.fed /\ y.pend = x.pend
        /\ y.disabled = x.disabled /\ y.early = x.early
        /\ y.sb = [x.sb EXCEPT ![t] = "idle"]
    BY <1>1, <2>2 DEF MainFields
  <2> HIDE DEF y
  <2>4. SameControl(x, y) BY <2>3 DEF SameControl
  <2>5. y.sb[t] = "idle" /\ (\A u \in MseTracks : x.sb[u] # "none" => y.sb[u] # "none")
        /\ y.sb \in [MseTracks -> {"none", "idle", "init", "media", "remove"}]
    BY <1>1, <2>3
  <2>6. Opening(x, y) /\ Created(y, t) BY <2>3, <2>5 DEF Opening, Created
  <2>7. QueuesSound(y) BY <1>1, <2>3 DEF QueuesSound
  <2>8. NumbersSound(s, y)
    BY <1>1, <2>3 DEF NumbersSound, SegmentsSent, Begun
  <2>9. Fine(s, y)
    BY <1>1, <2>3, <2>4, <2>5, <2>7, <2>8, ControlKept
  <2> QED BY <2>3, <2>6, <2>9 DEF y
<1> QED BY <1>2, <1>3, <1>4

\* y is x with q at the end of the queue of a track.
Queued(x, t, q, y) ==
  /\ SameControl(x, y)
  /\ y.refuses = x.refuses /\ y.disabled = x.disabled /\ y.pcm = x.pcm /\ y.fed = x.fed
  /\ y.sb = x.sb /\ y.app = x.app /\ y.ahead = x.ahead
  /\ y.pend = [x.pend EXCEPT ![t] = Append(@, q)]

\* r is the worker s, or the worker s after an event was taken.
LEMMA QueuedSound ==
  ASSUME NEW s, NEW x, Fine(s, x), NEW r, r.pipe = s.pipe, r.gen = s.gen, r.paused = s.paused,
         NEW t \in MseTracks, t \notin x.disabled, NEW q \in Entry, q.kind = "media" => t = "video" /\ q.of = x.gen,
         NEW y, Queued(x, t, q, y), NumbersSound(r, y)
  PROVE  Fine(r, y)
<1>1. /\ SameControl(x, y)
      /\ y.refuses = x.refuses /\ y.disabled = x.disabled /\ y.pcm = x.pcm /\ y.fed = x.fed
      /\ y.sb = x.sb /\ y.app = x.app /\ y.ahead = x.ahead
      /\ y.pend = [x.pend EXCEPT ![t] = Append(@, q)]
  BY DEF Queued
<1>2. /\ MainTyped(x) /\ StateSound(x) /\ QueuesSound(x) /\ ChannelSound(s, x) /\ FlagsSound(s, x) /\ FlowSound(x)
      /\ x.pend \in [MseTracks -> Seq(Entry)]
  BY DEF Fine, Lean, MainTyped
<1>3. /\ y.pend[t] = Append(x.pend[t], q) /\ (\A u \in MseTracks : u # t => y.pend[u] = x.pend[u])
      /\ y.pend \in [MseTracks -> Seq(Entry)]
  BY <1>1, <1>2
<1>4. MainTyped(y) BY <1>1, <1>2, <1>3 DEF MainTyped, SameControl
<1>5. StateSound(y) /\ FlowSound(y)
  BY <1>1, <1>2 DEF StateSound, FlowSound, SameControl
<1>6. ChannelSound(r, y) /\ FlagsSound(r, y)
  <2>1. ChannelSound(r, y)
    BY <1>1, <1>2 DEF ChannelSound, LastLoad, SameControl
  <2>2. FlagsSound(r, y) BY <1>1, <1>2 DEF FlagsSound, SameControl
  <2> QED BY <2>1, <2>2
<1>7. y.gen = x.gen /\ y.inits = x.inits BY <1>1 DEF SameControl
<1>8. ASSUME NEW u \in MseTracks, NEW i \in 1 .. Len(y.pend[u])
      PROVE  y.pend[u][i].kind = "media" => u = "video" /\ y.pend[u][i].of = y.gen
  <2>1. CASE u # t
    <3>1. y.pend[u] = x.pend[u] BY <2>1, <1>3
    <3> QED BY <3>1, <1>2, <1>7, <1>8 DEF QueuesSound
  <2>2. CASE u = t
    <3> DEFINE p == x.pend[t]
    <3>1. p \in Seq(Entry) BY <1>2
    <3>2. \A j \in 1 .. Len(p) : p[j].kind = "media" => t = "video" /\ p[j].of = x.gen
      BY <1>2 DEF QueuesSound
    <3>3. y.pend[u] = Append(p, q) BY <2>2, <1>3
    <3> HIDE DEF p
    <3>4. /\ Len(p) \in Nat /\ Len(Append(p, q)) = Len(p) + 1 /\ Append(p, q)[Len(p) + 1] = q
          /\ \A j \in 1 .. Len(p) : Append(p, q)[j] = p[j]
      BY <3>1
    <3>5. i \in 1 .. Len(p) \/ i = Len(p) + 1 BY <1>8, <3>3, <3>4
    <3>6. i \in 1 .. Len(p) => y.pend[u][i] = p[i] BY <3>3, <3>4
    <3>7. i = Len(p) + 1 => y.pend[u][i] = q BY <3>3, <3>4
    <3> QED BY <2>2, <3>2, <3>5, <3>6, <3>7, <1>7
  <2> QED BY <2>1, <2>2
<1>9. \A u \in MseTracks : u \in y.disabled => u \in y.refuses /\ y.pend[u] = << >>
  BY <1>1, <1>2, <1>3 DEF QueuesSound
<1>10. QueuesSound(y) BY <1>1, <1>2, <1>7, <1>8, <1>9 DEF QueuesSound
<1> QED BY <1>4, <1>5, <1>6, <1>10 DEF Fine, Lean

\* An init segment is queued.
LEMMA InitQueued ==
  ASSUME NEW s, NEW x, Fine(s, x), NEW t \in MseTracks, t \notin x.disabled, NEW q \in Entry, q.kind = "init",
         NEW y, Queued(x, t, q, y)
  PROVE  Fine(s, y)
<1>1. NumbersSound(s, x) /\ x.pend \in [MseTracks -> Seq(Entry)]
  BY DEF Fine, Lean, MainTyped
<1>2. /\ y.pend = [x.pend EXCEPT ![t] = Append(@, q)] /\ y.app = x.app /\ y.gen = x.gen /\ y.disabled = x.disabled
  BY DEF Queued, SameControl
<1>3. NumbersSound(s, y)
  <2>1. CASE "video" \in x.disabled BY <2>1, <1>2 DEF NumbersSound
  <2>2. CASE "video" \notin x.disabled
    <3>1. PICK b \in Nat : /\ Numbered(x.pend["video"], MediaEntries, Len(x.app), b)
                           /\ Numbered(s.out, MediaEvents(x.gen), b, SegmentsSent(s, x))
      BY <2>2, <1>1 DEF NumbersSound
    <3>2. Numbered(y.pend["video"], MediaEntries, Len(x.app), b)
      <4>1. CASE t = "video"
        <5>1. q \notin MediaEntries /\ x.pend["video"] \in Seq(Entry)
          BY <1>1 DEF MediaEntries, MseTracks
        <5>2. y.pend["video"] = Append(x.pend["video"], q) BY <4>1, <1>1, <1>2
        <5> QED BY <5>1, <5>2, <3>1, NumberedAppend
      <4>2. CASE t # "video"
        <5>1. y.pend["video"] = x.pend["video"] BY <4>2, <1>1, <1>2 DEF MseTracks
        <5> QED BY <5>1, <3>1
      <4> QED BY <4>1, <4>2
    <3>3. SegmentsSent(s, y) = SegmentsSent(s, x) BY <1>2 DEF SegmentsSent, Begun
    <3> QED BY <3>1, <3>2, <3>3, <1>2 DEF NumbersSound
  <2> QED BY <2>1, <2>2
<1> QED BY <1>3, QueuedSound

LEMMA AppendInitSound ==
  ASSUME NEW s, NEW x, Fine(s, x), NEW e \in Event, NEW t \in MseTracks, e.track = t,
         x.ms = "open" /\ x.parsed => Created(x, t)
  PROVE  LET y == AppendInit(x, e)
         IN  /\ Fine(s, y) /\ Opening(x, y)
             /\ x.ms = "open" /\ CanAppend(x) => Created(y, t) /\ y.early \in SUBSET x.early
             /\ x.ms = "open" /\ ~CanAppend(x) =>
                  /\ y.sb = x.sb /\ (Created(y, t) \/ t \in y.early)
                  /\ \A u : u \in x.early => u \in y.early
                  /\ \A u : u \in y.early => u \in x.early \/ u = t
<1> DEFINE q == [kind |-> "init", of |-> e.of, n |-> 0]
           c == CreateSourceBuffer(x, t)
           y == AppendInit(x, e)
<1>1. /\ DOMAIN x = MainFields /\ MainTyped(x) /\ QueuesSound(x) /\ FlowSound(x)
  BY DEF Fine, Lean, MainTyped
<1>2. q \in Entry /\ q.kind = "init"
  <2>1. e.of \in Loads BY DEF Event
  <2> QED BY <2>1 DEF Entry
<1>3. CASE t \in x.disabled
  <2>1. y = x BY <1>3 DEF AppendInit
  <2>2. Created(x, t) BY <1>1, <1>3 DEF QueuesSound, Created
  <2> QED BY <2>1, <2>2, OpeningFacts
<1>4. CASE t \notin x.disabled /\ (x.ms # "open" \/ (x.managed /\ ~x.streaming))
  <2>1. y = [x EXCEPT !.early = @ \cup {t}, !.pend[t] = Append(@, q)]
    BY <1>4 DEF AppendInit
  <2> HIDE DEF q, y
  <2>2. /\ DOMAIN y = MainFields
        /\ y.gen = x.gen /\ y.cmds = x.cmds /\ y.wInit = x.wInit /\ y.segs = x.segs /\ y.inits = x.inits
        /\ y.throttle = x.throttle /\ y.wm = x.wm /\ y.bf = x.bf /\ y.ms = x.ms
        /\ y.managed = x.managed /\ y.refuses = x.refuses /\ y.streaming = x.streaming
        /\ y.parsed = x.parsed /\ y.late = x.late /\ y.app = x.app
        /\ y.ahead = x.ahead /\ y.pcm = x.pcm /\ y.fed = x.fed /\ y.sb = x.sb
        /\ y.disabled = x.disabled /\ y.early = x.early \cup {t}
        /\ y.pend = [x.pend EXCEPT ![t] = Append(@, q)]
    BY <1>1, <2>1 DEF MainFields
  <2>3. Queued(x, t, q, y) BY <2>2 DEF Queued, SameControl
  <2>4. Fine(s, y) BY <1>2, <1>4, <2>3, InitQueued
  <2>5. Opening(x, y) BY <2>2 DEF Opening, Created
  <2>6. x.ms = "open" => ~CanAppend(x) BY <1>4 DEF CanAppend
  <2> QED BY <2>2, <2>4, <2>5, <2>6 DEF y
<1>5. CASE t \notin x.disabled /\ ~(x.ms # "open" \/ (x.managed /\ ~x.streaming))
  <2>1. x.ms = "open" /\ CanAppend(x) BY <1>5 DEF CanAppend
  <2>2. /\ Fine(s, c) /\ Opening(x, c) /\ Created(c, t) /\ c.early \in SUBSET x.early
    BY <2>1, CreateSound
  <2>3. CASE t \in c.disabled
    <3>1. y = c BY <1>5, <2>3 DEF AppendInit
    <3> QED BY <2>1, <2>2, <3>1
  <2>4. CASE t \notin c.disabled
    <3> DEFINE d == [c EXCEPT !.pend[t] = Append(@, q)]
    <3>1. y = TryAppendPending(d) BY <1>5, <2>4 DEF AppendInit
    <3>2. DOMAIN c = MainFields BY <2>2 DEF Fine, Lean, MainTyped
    <3> HIDE DEF c, q, y
    <3>3. /\ DOMAIN d = MainFields
          /\ d.gen = c.gen /\ d.cmds = c.cmds /\ d.wInit = c.wInit /\ d.segs = c.segs /\ d.inits = c.inits
          /\ d.throttle = c.throttle /\ d.wm = c.wm /\ d.bf = c.bf /\ d.ms = c.ms
          /\ d.managed = c.managed /\ d.refuses = c.refuses /\ d.streaming = c.streaming
          /\ d.parsed = c.parsed /\ d.late = c.late /\ d.app = c.app
          /\ d.ahead = c.ahead /\ d.pcm = c.pcm /\ d.fed = c.fed /\ d.sb = c.sb
          /\ d.disabled = c.disabled /\ d.early = c.early
          /\ d.pend = [c.pend EXCEPT ![t] = Append(@, q)]
      BY <3>2 DEF MainFields
    <3> HIDE DEF d
    <3>4. Queued(c, t, q, d) /\ SameShape(c, d) BY <3>3 DEF Queued, SameControl, SameShape
    <3>5. Fine(s, d) BY <1>2, <2>2, <2>4, <3>4, InitQueued
    <3>6. Fine(s, TryAppendPending(d)) /\ SameShape(d, TryAppendPending(d))
      BY <3>5, TryAppendSound
    <3>7. Fine(s, y) /\ SameShape(c, y) BY <3>1, <3>4, <3>6, ShapeFacts
    <3>8. Opening(x, y) /\ Created(y, t) /\ y.early \in SUBSET x.early
      <4>1. Opening(c, y) BY <3>7, OpeningFacts
      <4>2. Opening(x, y) BY <2>2, <4>1, OpeningFacts
      <4>3. Created(y, t) BY <2>2, <4>1 DEF Opening
      <4>4. y.early = c.early BY <3>7 DEF SameShape
      <4> QED BY <2>2, <4>2, <4>3, <4>4
    <3> QED BY <2>1, <3>7, <3>8 DEF y
  <2> QED BY <2>3, <2>4
<1> QED BY <1>3, <1>4, <1>5

\* f is the main thread after each of the first n init segments of the batch.
Flushes(f, x, n) == f = [k \in 0 .. n |-> IF k = 0 THEN x ELSE AppendInit(f[k - 1], x.inits[k])]

LEMMA FlushesDefined ==
  ASSUME NEW x, NEW N \in Nat
  PROVE  \E f : Flushes(f, x, N)
<1> DEFINE Bad == {n \in 0 .. N : ~ \E f : Flushes(f, x, n)}
<1>1. ASSUME Bad # {}
      PROVE  FALSE
  <2>1. PICK m \in Bad : \A k \in Bad : m <= k
    <3>1. Bad \subseteq Nat
      OBVIOUS
    <3> HIDE DEF Bad
    <3> QED BY <1>1, <3>1, LeastNumber
  <2>2. CASE m = 0
    <3> DEFINE f == [k \in 0 .. 0 |-> x]
               h == [k \in 0 .. 0 |-> IF k = 0 THEN x ELSE AppendInit(f[k - 1], x.inits[k])]
    <3>1. \A k \in 0 .. 0 : f[k] = h[k]
      OBVIOUS
    <3>2. f = h BY <3>1, ZenonT(60)
    <3>3. Flushes(f, x, 0) BY <3>2 DEF Flushes
    <3> HIDE DEF f, h
    <3> QED BY <2>2, <3>3
  <2>3. CASE m # 0
    <3>1. m - 1 \in 0 .. N /\ ~(m <= m - 1) /\ m \in Nat /\ m >= 1
      BY <2>3
    <3>2. \E g : Flushes(g, x, m - 1) BY <2>1, <3>1
    <3>3. PICK g : Flushes(g, x, m - 1) BY <3>2
    <3> DEFINE next(k) == AppendInit(g[k - 1], x.inits[k])
               f == [k \in 0 .. m |-> IF k < m THEN g[k] ELSE next(k)]
               h == [k \in 0 .. m |-> IF k = 0 THEN x ELSE AppendInit(f[k - 1], x.inits[k])]
    <3>4. ASSUME NEW k \in 0 .. m
          PROVE  f[k] = h[k]
      <4>1. k # 0 => k - 1 \in 0 .. m /\ k - 1 < m /\ f[k - 1] = g[k - 1]
        BY <3>1
      <4>2. CASE k < m
        <5>1. k \in 0 .. m - 1 BY <3>1, <4>2
        <5>2. g[k] = IF k = 0 THEN x ELSE next(k) BY <3>3, <5>1 DEF Flushes
        <5> QED BY <4>1, <4>2, <5>2
      <4>3. CASE ~(k < m)
        <5>1. k # 0 BY <3>1, <4>3
        <5> QED BY <4>1, <4>3, <5>1
      <4> QED BY <4>2, <4>3
    <3>5. f = h BY <3>4, ZenonT(60)
    <3>6. Flushes(f, x, m) BY <3>5 DEF Flushes
    <3> HIDE DEF f, h
    <3> QED BY <3>6
  <2> QED BY <2>2, <2>3
<1>2. N \notin Bad
  <2> HIDE DEF Bad
  <2> QED BY <1>1
<1> QED BY <1>2

\* What the first k init segments of the batch of x have brought about in z.
Flushed(s, x, T, k, z) ==
  /\ Fine(s, z) /\ Opening(x, z)
  /\ x.ms = "open" /\ CanAppend(x) =>
       /\ z.early = {}
       /\ \A j \in 1 .. k : Created(z, x.inits[j].track)
  /\ x.ms = "open" /\ ~CanAppend(x) =>
       /\ z.sb = x.sb /\ z.early \subseteq T
       /\ \A j \in 1 .. k : Created(z, x.inits[j].track) \/ x.inits[j].track \in z.early

LEMMA OneFlushed ==
  ASSUME NEW s, NEW x, MainTyped(x), NEW T \in SUBSET MseTracks, BuffersSound(x, T),
         \A i \in 1 .. Len(x.inits) : x.inits[i].track \in T,
         NEW k \in 1 .. Len(x.inits), NEW z, Flushed(s, x, T, k - 1, z)
  PROVE  Flushed(s, x, T, k, AppendInit(z, x.inits[k]))
<1> DEFINE e == x.inits[k]
           t == e.track
           y == AppendInit(z, e)
<1>1. e \in Event /\ t \in MseTracks /\ t \in T BY DEF MainTyped
<1>2. Fine(s, z) /\ Opening(x, z) /\ z.ms = x.ms /\ z.parsed = x.parsed /\ (CanAppend(z) <=> CanAppend(x))
  BY DEF Flushed, Opening, CanAppend
<1>3. z.ms = "open" /\ z.parsed => Created(z, t)
  <2>1. x.ms = "open" /\ x.parsed => Created(x, t) BY <1>1 DEF BuffersSound
  <2> QED BY <2>1, <1>1, <1>2 DEF Opening
<1> HIDE DEF e
<1>4. /\ Fine(s, y) /\ Opening(z, y)
      /\ z.ms = "open" /\ CanAppend(z) => Created(y, t) /\ y.early \in SUBSET z.early
      /\ z.ms = "open" /\ ~CanAppend(z) =>
           /\ y.sb = z.sb /\ (Created(y, t) \/ t \in y.early)
           /\ \A u : u \in z.early => u \in y.early
           /\ \A u : u \in y.early => u \in z.early \/ u = t
  BY <1>1, <1>2, <1>3, AppendInitSound
<1> HIDE DEF y
<1>5. Opening(x, y) BY <1>2, <1>4, OpeningFacts
<1>6. k \in Nat /\ Len(x.inits) \in Nat /\ \A j \in 1 .. k : j \in 1 .. (k - 1) \/ j = k
  BY DEF MainTyped
<1>7. ASSUME NEW j \in 1 .. (k - 1)
      PROVE  x.inits[j].track \in MseTracks /\ (Created(z, x.inits[j].track) => Created(y, x.inits[j].track))
  <2>1. j \in 1 .. Len(x.inits) BY <1>6
  <2> QED BY <2>1, <1>4 DEF Opening
<1>8. ASSUME x.ms = "open", CanAppend(x)
      PROVE  y.early = {} /\ \A j \in 1 .. k : Created(y, x.inits[j].track)
  <2>1. z.early = {} /\ Created(y, t) /\ y.early \in SUBSET z.early
    BY <1>2, <1>4, <1>8 DEF Flushed
  <2>2. \A j \in 1 .. (k - 1) : Created(z, x.inits[j].track)
    BY <1>8 DEF Flushed
  <2>3. \A j \in 1 .. k : Created(y, x.inits[j].track) BY <2>1, <2>2, <1>6, <1>7 DEF e
  <2> QED BY <2>1, <2>3
<1>9. ASSUME x.ms = "open", ~CanAppend(x)
      PROVE  /\ y.sb = x.sb /\ y.early \subseteq T
             /\ \A j \in 1 .. k : Created(y, x.inits[j].track) \/ x.inits[j].track \in y.early
  <2>1. /\ z.sb = x.sb /\ z.early \subseteq T
        /\ \A j \in 1 .. (k - 1) : Created(z, x.inits[j].track) \/ x.inits[j].track \in z.early
    BY <1>9 DEF Flushed
  <2>2. /\ y.sb = z.sb /\ (Created(y, t) \/ t \in y.early)
        /\ \A u : u \in z.early => u \in y.early
        /\ \A u : u \in y.early => u \in z.early \/ u = t
    BY <1>2, <1>4, <1>9
  <2>3. \A j \in 1 .. k : Created(y, x.inits[j].track) \/ x.inits[j].track \in y.early
    BY <2>1, <2>2, <1>6, <1>7 DEF e
  <2> QED BY <2>1, <2>2, <2>3, <1>1
<1> QED BY <1>4, <1>5, <1>8, <1>9 DEF Flushed, y, e

\* The batch is flushed: the init segments of all tracks are appended together.
LEMMA FlushSound ==
  ASSUME NEW s, NEW x, Fine(s, x), NEW T \in SUBSET MseTracks, BuffersSound(x, T),
         \A i \in 1 .. Len(x.inits) : x.inits[i].track \in T,
         x.inits # << >> => \A t \in T : Batched(x, t)
  PROVE  LET y == FlushPendingInits(x)
         IN  Fine(s, y) /\ y.gen = x.gen /\ y.inits = << >> /\ y.late = x.late /\ BuffersSound(y, T)
<1> DEFINE N == Len(x.inits)
           f == CHOOSE g : Flushes(g, x, N)
           z == f[N]
           y == FlushPendingInits(x)
<1>1. MainTyped(x) /\ N \in Nat /\ x.inits \in Seq(Event)
  BY DEF Fine, Lean, MainTyped
<1>2. y = [z EXCEPT !.inits = << >>] BY DEF FlushPendingInits, Flushes
<1>3. Flushes(f, x, N) BY <1>1, FlushesDefined
<1> HIDE DEF f, z, y
<1>4. \A k \in 0 .. N : f[k] = IF k = 0 THEN x ELSE AppendInit(f[k - 1], x.inits[k])
  BY <1>3 DEF Flushes
<1>5. Flushed(s, x, T, 0, f[0])
  <2>1. f[0] = x BY <1>1, <1>4
  <2>2. x.ms = "open" => x.early \subseteq T /\ (CanAppend(x) => x.early = {})
    BY DEF BuffersSound
  <2>3. 1 .. 0 = {}
    OBVIOUS
  <2> QED BY <2>1, <2>2, <2>3, OpeningFacts DEF Flushed
<1>6. ASSUME NEW k \in 1 .. N, Flushed(s, x, T, k - 1, f[k - 1])
      PROVE  Flushed(s, x, T, k, f[k])
  <2>1. f[k] = AppendInit(f[k - 1], x.inits[k]) BY <1>1, <1>4
  <2> QED BY <2>1, <1>1, <1>6, OneFlushed
<1>7. \A k \in 0 .. N : Flushed(s, x, T, k, f[k])
  <2> DEFINE Bad == {k \in 0 .. N : ~Flushed(s, x, T, k, f[k])}
  <2>1. ASSUME Bad # {}
        PROVE  FALSE
    <3>1. Bad \in SUBSET Nat BY <1>1
    <3>2. PICK m \in Bad : \A k \in Bad : m <= k
      <4> HIDE DEF Bad
      <4> QED BY <2>1, <3>1, LeastNumber
    <3>3. m \in 0 .. N /\ ~Flushed(s, x, T, m, f[m])
      OBVIOUS
    <3>4. m \in 1 .. N BY <3>3, <1>1, <1>5
    <3>5. m - 1 \in 0 .. N /\ ~(m <= m - 1) BY <3>4, <1>1
    <3>6. Flushed(s, x, T, m - 1, f[m - 1]) BY <3>2, <3>5
    <3> QED BY <3>3, <3>4, <3>6, <1>6
  <2> QED BY <2>1
<1>8. Flushed(s, x, T, N, z) BY <1>1, <1>7 DEF z
<1>9. Fine(s, z) /\ Opening(x, z) /\ DOMAIN z = MainFields
  BY <1>8 DEF Flushed, Fine, Lean, MainTyped
<1>10. /\ DOMAIN y = MainFields
       /\ y.gen = z.gen /\ y.cmds = z.cmds /\ y.wInit = z.wInit /\ y.segs = z.segs /\ y.inits = << >>
       /\ y.throttle = z.throttle /\ y.wm = z.wm /\ y.bf = z.bf /\ y.ms = z.ms
       /\ y.managed = z.managed /\ y.refuses = z.refuses /\ y.streaming = z.streaming
       /\ y.parsed = z.parsed /\ y.late = z.late /\ y.app = z.app
       /\ y.ahead = z.ahead /\ y.pcm = z.pcm /\ y.fed = z.fed /\ y.sb = z.sb
       /\ y.disabled = z.disabled /\ y.early = z.early /\ y.pend = z.pend
  BY <1>2, <1>9 DEF MainFields
<1>11. Fine(s, y)
  <2>1. /\ MainTyped(z) /\ StateSound(z) /\ QueuesSound(z) /\ FlowSound(z)
        /\ ChannelSound(s, z) /\ FlagsSound(s, z) /\ NumbersSound(s, z)
    BY <1>9 DEF Fine, Lean
  <2>2. MainTyped(y)
    <3>1. << >> \in Seq(Event)
      OBVIOUS
    <3> QED BY <2>1, <3>1, <1>10 DEF MainTyped
  <2>3. StateSound(y) /\ FlowSound(y) BY <2>1, <1>10 DEF StateSound, FlowSound
  <2>4. QueuesSound(y)
    <3>1. 1 .. Len(<< >>) = {}
      OBVIOUS
    <3> QED BY <2>1, <3>1, <1>10 DEF QueuesSound
  <2>5. ChannelSound(s, y) /\ FlagsSound(s, y)
    BY <2>1, <1>10 DEF ChannelSound, LastLoad, FlagsSound
  <2>6. NumbersSound(s, y)
    BY <2>1, <1>10 DEF NumbersSound, SegmentsSent, Begun
  <2> QED BY <2>2, <2>3, <2>4, <2>5, <2>6 DEF Fine, Lean
<1>12. y.gen = x.gen /\ y.late = x.late /\ y.ms = x.ms /\ y.parsed = x.parsed /\ (CanAppend(y) <=> CanAppend(x))
  BY <1>9, <1>10 DEF Opening, CanAppend
<1>13. \A t \in MseTracks : /\ Created(x, t) => Created(y, t)
                            /\ Created(z, t) => Created(y, t)
  BY <1>9, <1>10 DEF Opening, Created
<1>14. BuffersSound(y, T)
  <2>1. CASE x.ms # "open" BY <2>1, <1>12 DEF BuffersSound
  <2>2. CASE x.ms = "open" /\ x.inits = << >>
    <3>1. N = 0 BY <2>2
    <3>2. z = x BY <3>1, <1>1, <1>4 DEF z
    <3> QED BY <2>2, <3>2, <1>10, <1>12, <1>13 DEF BuffersSound, Created
  <2>3. CASE x.ms = "open" /\ x.inits # << >> /\ CanAppend(x)
    <3>1. z.early = {} /\ \A j \in 1 .. N : Created(z, x.inits[j].track)
      BY <2>3, <1>8 DEF Flushed
    <3>2. \A t \in T : Created(y, t) BY <2>3, <3>1, <1>13 DEF Batched
    <3> QED BY <2>3, <3>1, <3>2, <1>10, <1>12 DEF BuffersSound
  <2>4. CASE x.ms = "open" /\ x.inits # << >> /\ ~CanAppend(x)
    <3>1. /\ z.sb = x.sb /\ z.early \subseteq T
          /\ \A j \in 1 .. N : Created(z, x.inits[j].track) \/ x.inits[j].track \in z.early
      BY <2>4, <1>8 DEF Flushed
    <3>2. \A t \in T : Created(y, t) \/ t \in y.early
      BY <2>4, <3>1, <1>10, <1>13 DEF Batched
    <3>3. x.parsed \/ (\E t \in MseTracks : x.sb[t] # "none") => \A t \in T : Created(x, t)
      BY <2>4 DEF BuffersSound
    <3>4. y.parsed \/ (\E t \in MseTracks : y.sb[t] # "none") => \A t \in T : Created(y, t)
      BY <3>1, <3>3, <1>10, <1>12, <1>13
    <3> QED BY <2>4, <3>1, <3>2, <3>4, <1>10, <1>12 DEF BuffersSound
  <2> QED BY <2>1, <2>2, <2>3, <2>4
<1> QED BY <1>10, <1>11, <1>12, <1>14 DEF y

\* pendingSourceBufferInit: the SourceBuffers of the init segments that came early.
LEMMA EarlyCreated ==
  ASSUME NEW s, NEW x, Fine(s, x), x.ms = "open", CanAppend(x), NEW T \in SUBSET MseTracks, x.early \subseteq T,
         x.parsed \/ (\E t \in MseTracks : x.sb[t] # "none") => \A t \in T : Created(x, t),
         x.early # {} => \A t \in T : Created(x, t) \/ t \in x.early
  PROVE  LET y == FlushPendingSourceBufferInit(x)
         IN  /\ Fine(s, y) /\ y.gen = x.gen /\ y.inits = x.inits /\ y.late = x.late /\ BuffersSound(y, T)
             /\ y.ms = x.ms
<1> DEFINE u == [x EXCEPT !.early = {}]
           v == CreateEarly(u, "video", x.early)
           y == CreateEarly(v, "audio", x.early)
<1>1. FlushPendingSourceBufferInit(x) = y BY DEF FlushPendingSourceBufferInit
<1>2. /\ MainTyped(x) /\ StateSound(x) /\ QueuesSound(x) /\ FlowSound(x) /\ Lean(s, x) /\ DOMAIN x = MainFields
  BY DEF Fine, Lean, MainTyped
<1>3. /\ DOMAIN u = MainFields
      /\ u.gen = x.gen /\ u.cmds = x.cmds /\ u.wInit = x.wInit /\ u.segs = x.segs /\ u.inits = x.inits
      /\ u.throttle = x.throttle /\ u.wm = x.wm /\ u.bf = x.bf /\ u.ms = x.ms
      /\ u.managed = x.managed /\ u.refuses = x.refuses /\ u.streaming = x.streaming
      /\ u.parsed = x.parsed /\ u.late = x.late /\ u.app = x.app
      /\ u.ahead = x.ahead /\ u.pcm = x.pcm /\ u.fed = x.fed /\ u.sb = x.sb
      /\ u.disabled = x.disabled /\ u.early = {} /\ u.pend = x.pend
  BY <1>2 DEF MainFields
<1> HIDE DEF u
<1>4. Fine(s, u)
  <2>1. SameControl(x, u) BY <1>3 DEF SameControl
  <2>2. QueuesSound(u) BY <1>2, <1>3 DEF QueuesSound
  <2>3. NumbersSound(s, u)
    BY <1>2, <1>3 DEF Lean, NumbersSound, SegmentsSent, Begun
  <2>4. u.ahead \in 0 .. Cap /\ u.ahead >= x.ahead
    BY <1>2, <1>3, ControllerAssumption DEF MainTyped
  <2>5. /\ u.sb \in [MseTracks -> {"none", "idle", "init", "media", "remove"}]
        /\ u.pend \in [MseTracks -> Seq(Entry)] /\ u.app \in Seq([of : Loads, n : Nat])
    BY <1>2, <1>3 DEF MainTyped
  <2> QED BY <2>1, <2>2, <2>3, <2>4, <2>5, <1>2, ControlKept
<1>5. Opening(x, u) /\ x.early \subseteq MseTracks BY <1>3 DEF Opening, Created
<1>6. ASSUME NEW z, Fine(s, z), Opening(x, z), NEW t \in MseTracks, z.early = {}
      PROVE  LET a == CreateEarly(z, t, x.early)
             IN  /\ Fine(s, a) /\ Opening(x, a) /\ Opening(z, a) /\ a.early = {}
                 /\ t \in x.early => Created(a, t)
                 /\ t \notin x.early => a = z
  <2> DEFINE a == CreateSourceBuffer(z, t)
  <2>1. CASE t \in x.early
    <3>1. z.ms = "open" /\ z.parsed => Created(z, t) BY <1>6, <2>1 DEF Opening
    <3>2. Fine(s, a) /\ Opening(z, a) /\ (z.ms = "open" => Created(a, t)) /\ a.early \in SUBSET z.early
      BY <3>1, <1>6, CreateSound
    <3>3. Opening(x, a) /\ z.ms = "open"
      <4>1. z.ms = x.ms BY <1>6 DEF Opening
      <4> HIDE DEF a
      <4> QED BY <4>1, <3>2, <1>6, OpeningFacts
    <3>4. CreateEarly(z, t, x.early) = a BY <2>1 DEF CreateEarly
    <3> HIDE DEF a
    <3> QED BY <3>2, <3>3, <3>4, <2>1, <1>6
  <2>2. CASE t \notin x.early
    <3>1. CreateEarly(z, t, x.early) = z BY <2>2 DEF CreateEarly
    <3> QED BY <3>1, <2>2, <1>6, OpeningFacts
  <2> QED BY <2>1, <2>2
<1>7. /\ Fine(s, v) /\ Opening(x, v) /\ v.early = {}
      /\ "video" \in x.early => Created(v, "video")
      /\ "video" \notin x.early => v = u
  <2>1. "video" \in MseTracks BY DEF MseTracks
  <2> QED BY <2>1, <1>3, <1>4, <1>5, <1>6
<1> HIDE DEF v
<1>8. /\ Fine(s, y) /\ Opening(x, y) /\ Opening(v, y) /\ y.early = {}
      /\ "audio" \in x.early => Created(y, "audio")
      /\ "audio" \notin x.early => y = v
  <2>1. "audio" \in MseTracks BY DEF MseTracks
  <2> QED BY <2>1, <1>7, <1>6
<1> HIDE DEF y
<1>9. \A t \in x.early : Created(y, t) BY <1>5, <1>7, <1>8 DEF Opening, MseTracks
<1>10. BuffersSound(y, T)
  <2>1. CASE x.early = {}
    <3>1. y = u BY <2>1, <1>7, <1>8
    <3> QED BY <2>1, <3>1, <1>3 DEF BuffersSound, Created
  <2>2. CASE x.early # {}
    <3>1. \A t \in T : Created(y, t) BY <2>2, <1>8, <1>9 DEF Opening
    <3> QED BY <3>1, <1>8 DEF BuffersSound
  <2> QED BY <2>1, <2>2
<1> QED BY <1>1, <1>8, <1>10 DEF Opening

\* endOfStream
LEMMA EndSound ==
  ASSUME NEW s, NEW x, Fine(s, x)
  PROVE  Fine(s, EndOfStream(x)) /\ Progress(x, EndOfStream(x))
<1> DEFINE y == EndOfStream(x)
<1>1. /\ MainTyped(x) /\ StateSound(x) /\ QueuesSound(x) /\ FlowSound(x) /\ Lean(s, x) /\ DOMAIN x = MainFields
  BY DEF Fine, Lean, MainTyped
<1>2. ASSUME NEW b, NEW m, NEW z, z = [x EXCEPT !.eos = b, !.ms = m] \/ (m = x.ms /\ z = [x EXCEPT !.eos = b]),
             m = x.ms \/ (x.ms = "open" /\ m = "ended")
      PROVE  Fine(s, z) /\ Progress(x, z)
  <2>1. /\ DOMAIN z = MainFields
        /\ z.gen = x.gen /\ z.cmds = x.cmds /\ z.wInit = x.wInit /\ z.segs = x.segs /\ z.inits = x.inits
        /\ z.throttle = x.throttle /\ z.wm = x.wm /\ z.bf = x.bf /\ z.ms = m
        /\ z.managed = x.managed /\ z.refuses = x.refuses /\ z.streaming = x.streaming
        /\ z.parsed = x.parsed /\ z.late = x.late /\ z.app = x.app
        /\ z.ahead = x.ahead /\ z.pcm = x.pcm /\ z.fed = x.fed /\ z.sb = x.sb
        /\ z.disabled = x.disabled /\ z.early = x.early /\ z.pend = x.pend
    <3>1. CASE z = [x EXCEPT !.eos = b, !.ms = m] BY <3>1, <1>1 DEF MainFields
    <3>2. CASE m = x.ms /\ z = [x EXCEPT !.eos = b] BY <3>2, <1>1 DEF MainFields
    <3> QED BY <3>1, <3>2, <1>2
  <2>2. MainTyped(z) BY <1>1, <1>2, <2>1 DEF MainTyped
  <2>3. StateSound(z) /\ FlowSound(z) BY <1>1, <1>2, <2>1 DEF StateSound, FlowSound
  <2>4. QueuesSound(z) BY <1>1, <2>1 DEF QueuesSound
  <2>5. ChannelSound(s, z) /\ FlagsSound(s, z)
    BY <1>1, <1>2, <2>1 DEF Lean, ChannelSound, LastLoad, FlagsSound
  <2>6. NumbersSound(s, z)
    BY <1>1, <2>1 DEF Lean, NumbersSound, SegmentsSent, Begun
  <2>7. Progress(x, z)
    BY <1>2, <2>1 DEF Progress, BuffersSound, Created, CanAppend
  <2> QED BY <2>2, <2>3, <2>4, <2>5, <2>6, <2>7 DEF Fine, Lean
<1>3. CASE x.ms # "open" /\ ~(x.ms \in {"closed", "dead"} /\ HasPending(x))
  BY <1>3, ShapeFacts DEF EndOfStream
<1>4. CASE \/ x.ms # "open" /\ x.ms \in {"closed", "dead"} /\ HasPending(x)
           \/ x.ms = "open" /\ \E t \in MseTracks : x.sb[t] \notin {"none", "idle"}
  <2>1. y = [x EXCEPT !.eos = TRUE] BY <1>4 DEF EndOfStream
  <2> HIDE DEF y
  <2>2. \A b, z : z = [x EXCEPT !.eos = b] => Fine(s, z) /\ Progress(x, z)
    BY <1>2
  <2>3. Fine(s, y) /\ Progress(x, y) BY <2>1, <2>2
  <2> QED BY <2>3 DEF y
<1>5. CASE x.ms = "open" /\ ~(\E t \in MseTracks : x.sb[t] \notin {"none", "idle"})
  <2>1. y = [x EXCEPT !.eos = FALSE, !.ms = "ended"] BY <1>5 DEF EndOfStream
  <2> HIDE DEF y
  <2>2. Fine(s, y) /\ Progress(x, y) BY <1>2, <1>5, <2>1
  <2> QED BY <2>2 DEF y
<1> QED BY <1>3, <1>4, <1>5

\* onBufferUpdated and the next piece of work.
LEMMA UpdateEndSound ==
  ASSUME NEW s, NEW x, Fine(s, x), NEW t \in MseTracks, x.sb[t] \notin {"none", "idle"}
  PROVE  Fine(s, OnUpdateEnd(x, t)) /\ Progress(x, OnUpdateEnd(x, t))
<1> DEFINE p == x.parsed \/ x.sb[t] = "init"
           b == IF x.sb[t] = "remove" THEN 0 ELSE x.back
           y == [x EXCEPT !.sb[t] = "idle", !.parsed = p, !.back = b]
           z == UpdateFetchBackpressure(y)
           u == OnUpdateEnd(x, t)
<1>1. /\ MainTyped(x) /\ StateSound(x) /\ QueuesSound(x) /\ FlowSound(x) /\ Lean(s, x) /\ DOMAIN x = MainFields
  BY DEF Fine, Lean, MainTyped
<1>2. u = IF z.rem THEN DoRemoveRanges(z)
          ELSE IF HasPending(z) THEN TryAppendPending(z)
          ELSE IF z.eos THEN EndOfStream(z)
          ELSE IF z.full THEN UpdateFetchBackpressure([z EXCEPT !.full = FALSE])
          ELSE z
  BY DEF OnUpdateEnd
<1>3. /\ DOMAIN y = MainFields
      /\ y.gen = x.gen /\ y.cmds = x.cmds /\ y.wInit = x.wInit /\ y.segs = x.segs /\ y.inits = x.inits
      /\ y.throttle = x.throttle /\ y.wm = x.wm /\ y.bf = x.bf /\ y.ms = x.ms
      /\ y.managed = x.managed /\ y.refuses = x.refuses /\ y.streaming = x.streaming
      /\ y.parsed = p /\ y.late = x.late /\ y.app = x.app
      /\ y.ahead = x.ahead /\ y.pcm = x.pcm /\ y.fed = x.fed /\ y.sb = [x.sb EXCEPT ![t] = "idle"]
      /\ y.disabled = x.disabled /\ y.early = x.early /\ y.pend = x.pend
  <2> HIDE DEF p, b
  <2> QED BY <1>1 DEF MainFields
<1> HIDE DEF y, z, u
<1>4. y.sb \in [MseTracks -> {"none", "idle", "init", "media", "remove"}]
      /\ \A v \in MseTracks : y.sb[v] # "none" <=> x.sb[v] # "none"
  BY <1>1, <1>3 DEF MainTyped
<1>5. Progress(x, y)
  <2>1. \A T \in SUBSET MseTracks : BuffersSound(x, T) => BuffersSound(y, T)
    <3> SUFFICES ASSUME NEW T \in SUBSET MseTracks, BuffersSound(x, T), x.ms = "open"
                 PROVE  BuffersSound(y, T)
      BY <1>3 DEF BuffersSound
    <3>1. \A v \in T : Created(y, v) BY <1>3, <1>4 DEF BuffersSound, Created
    <3> QED BY <3>1, <1>3 DEF BuffersSound, CanAppend
  <2> QED BY <2>1, <1>3 DEF Progress
<1>6. Lean(s, y)
  <2>1. SameControl(x, y) BY <1>3 DEF SameControl
  <2>2. QueuesSound(y) BY <1>1, <1>3 DEF QueuesSound
  <2>3. NumbersSound(s, y)
    BY <1>1, <1>3 DEF Lean, NumbersSound, SegmentsSent, Begun
  <2>4. y.ahead \in 0 .. Cap /\ y.pend \in [MseTracks -> Seq(Entry)] /\ y.app \in Seq([of : Loads, n : Nat])
    BY <1>1, <1>3 DEF MainTyped
  <2> QED BY <2>1, <2>2, <2>3, <2>4, <1>1, <1>4, ControlKept
<1>7. Fine(s, z) /\ SameMedia(y, z) BY <1>6, Backpressure DEF z
<1>8. Progress(x, z) BY <1>5, <1>7, ShapeFacts
<1>9. Fine(s, DoRemoveRanges(z)) /\ Progress(z, DoRemoveRanges(z))
  BY <1>7, RemoveRanges, ShapeFacts
<1>10. Fine(s, TryAppendPending(z)) /\ Progress(z, TryAppendPending(z))
  BY <1>7, TryAppendSound, ShapeFacts
<1>11. Fine(s, EndOfStream(z)) /\ Progress(z, EndOfStream(z))
  BY <1>7, EndSound
<1>12. Fine(s, UpdateFetchBackpressure([z EXCEPT !.full = FALSE]))
       /\ Progress(z, UpdateFetchBackpressure([z EXCEPT !.full = FALSE]))
  <2> DEFINE a == [z EXCEPT !.full = FALSE]
  <2>1. /\ MainTyped(z) /\ StateSound(z) /\ QueuesSound(z) /\ FlowSound(z) /\ Lean(s, z) /\ DOMAIN z = MainFields
    BY <1>7 DEF Fine, Lean, MainTyped
  <2>2. /\ DOMAIN a = MainFields
        /\ a.gen = z.gen /\ a.cmds = z.cmds /\ a.wInit = z.wInit /\ a.segs = z.segs /\ a.inits = z.inits
        /\ a.throttle = z.throttle /\ a.wm = z.wm /\ a.bf = z.bf /\ a.ms = z.ms
        /\ a.managed = z.managed /\ a.refuses = z.refuses /\ a.streaming = z.streaming
        /\ a.parsed = z.parsed /\ a.late = z.late /\ a.app = z.app
        /\ a.ahead = z.ahead /\ a.pcm = z.pcm /\ a.fed = z.fed /\ a.sb = z.sb
        /\ a.disabled = z.disabled /\ a.early = z.early /\ a.pend = z.pend
    BY <2>1 DEF MainFields
  <2> HIDE DEF a
  <2>3. SameControl(z, a) /\ SameShape(z, a) BY <2>2 DEF SameControl, SameShape
  <2>4. QueuesSound(a) BY <2>1, <2>2 DEF QueuesSound
  <2>5. NumbersSound(s, a)
    BY <2>1, <2>2 DEF Lean, NumbersSound, SegmentsSent, Begun
  <2>6. /\ a.ahead \in 0 .. Cap /\ a.pend \in [MseTracks -> Seq(Entry)] /\ a.app \in Seq([of : Loads, n : Nat])
        /\ a.sb \in [MseTracks -> {"none", "idle", "init", "media", "remove"}]
    BY <2>1, <2>2 DEF MainTyped
  <2>7. Lean(s, a) BY <2>1, <2>3, <2>4, <2>5, <2>6, ControlKept
  <2>8. Fine(s, UpdateFetchBackpressure(a)) /\ SameMedia(a, UpdateFetchBackpressure(a))
    BY <2>7, Backpressure
  <2>9. Progress(z, UpdateFetchBackpressure(a)) BY <2>3, <2>8, ShapeFacts
  <2> QED BY <2>8, <2>9 DEF a
<1>13. Fine(s, u) /\ (Progress(z, u) \/ u = z) BY <1>2, <1>7, <1>9, <1>10, <1>11, <1>12
<1>14. Progress(x, u) BY <1>8, <1>13, ShapeFacts
<1> QED BY <1>13, <1>14 DEF u

----------------------------------------------------------------------------
(* The main thread takes an event                                          *)

\* r is the worker s, the first event of which was taken.
Popped(s, r) ==
  /\ DOMAIN r = WorkerFields
  /\ r.pipe = s.pipe /\ r.made = s.made /\ r.gen = s.gen /\ r.runId = s.runId /\ r.mode = s.mode
  /\ r.paused = s.paused /\ r.gate = s.gate /\ r.loops = s.loops /\ r.io = s.io /\ r.fmp4 = s.fmp4
  /\ r.inputs = s.inputs /\ r.stash = s.stash /\ r.chunks = s.chunks /\ r.decodes = s.decodes
  /\ r.units = s.units /\ r.out = Tail(s.out)

LEMMA PoppedSound ==
  ASSUME NEW s, WorkerSound(s), s.out # << >>, NEW r, Popped(s, r)
  PROVE  WorkerSound(r)
<1>1. s.out \in Seq(Event) /\ WorkerTyped(s) BY DEF WorkerSound, WorkerTyped
<1>2. r.out \in Seq(Event) /\ \A i \in 1 .. Len(r.out) : i + 1 \in 1 .. Len(s.out) /\ r.out[i] = s.out[i + 1]
  BY <1>1, TailFacts DEF Popped
<1>3. WorkerTyped(r) BY <1>1, <1>2 DEF WorkerTyped, Popped
<1>4. LoopsSound(r)
  <2>1. \A l : LoopSound(s, l) => LoopSound(r, l) BY DEF LoopSound, Popped
  <2> QED BY <2>1 DEF WorkerSound, LoopsSound, Popped
<1>5. IoSound(r)
  BY DEF WorkerSound, IoSound, Awaits, Current, Popped
<1>6. PipeSound(r) BY DEF WorkerSound, PipeSound, Popped
<1>7. EventsSound(r)
  <2>1. \A e : EventSound(s, e) => EventSound(r, e) BY DEF EventSound, Popped
  <2> QED BY <2>1, <1>2 DEF WorkerSound, EventsSound
<1> QED BY <1>3, <1>4, <1>5, <1>6, <1>7 DEF WorkerSound

\* Any event but a media segment of the stream.
LEMMA PoppedFine ==
  ASSUME NEW s, s.out \in Seq(Event), s.out # << >>, NEW x, Fine(s, x), NEW r, Popped(s, r),
         Head(s.out) \notin MediaEvents(x.gen) \/ "video" \in x.disabled
  PROVE  Fine(r, x)
<1>1. /\ MainTyped(x) /\ StateSound(x) /\ QueuesSound(x) /\ FlowSound(x)
      /\ ChannelSound(s, x) /\ FlagsSound(s, x) /\ NumbersSound(s, x)
  BY DEF Fine, Lean
<1>2. ChannelSound(r, x) /\ FlagsSound(r, x) BY <1>1 DEF ChannelSound, FlagsSound, Popped
<1>3. NumbersSound(r, x)
  <2>1. CASE "video" \in x.disabled BY <2>1 DEF NumbersSound
  <2>2. CASE "video" \notin x.disabled
    <3>1. PICK b \in Nat : /\ Numbered(x.pend["video"], MediaEntries, Len(x.app), b)
                           /\ Numbered(s.out, MediaEvents(x.gen), b, SegmentsSent(s, x))
      BY <2>2, <1>1 DEF NumbersSound
    <3>2. Numbered(Tail(s.out), MediaEvents(x.gen), b, SegmentsSent(s, x))
      BY <2>2, <3>1, NumberedTail
    <3>3. SegmentsSent(r, x) = SegmentsSent(s, x) /\ r.out = Tail(s.out)
      BY DEF SegmentsSent, Begun, Popped
    <3> QED BY <3>1, <3>2, <3>3 DEF NumbersSound
  <2> QED BY <2>1, <2>2
<1> QED BY <1>1, <1>2, <1>3 DEF Fine, Lean

\* appendMedia: the segment is the next after those that wait.
LEMMA AppendMediaSound ==
  ASSUME NEW s, s.out \in Seq(Event), s.out # << >>, NEW x, Fine(s, x), NEW r, Popped(s, r),
         NEW e, e = Head(s.out), e.type = "media-segment", e.gen = x.gen, e.of = x.gen, e.track = "video"
  PROVE  Fine(r, AppendMedia(x, e)) /\ Progress(x, AppendMedia(x, e))
<1> DEFINE q == [kind |-> "media", of |-> e.of, n |-> e.n]
           y == [x EXCEPT !.pend["video"] = Append(@, q)]
           y2 == [y EXCEPT !.rem = TRUE]
           z == IF y.back >= MaxBack THEN DoRemoveRanges(y2) ELSE y
           u == AppendMedia(x, e)
<1>1. e \in Event BY TailFacts
<1>2. e \in MediaEvents(x.gen) /\ q \in Entry /\ q \in MediaEntries
  <2>1. e \in MediaEvents(x.gen) BY <1>1 DEF Event, MediaEvents
  <2>2. e.of \in Loads /\ e.n \in Nat BY <1>1 DEF Event
  <2> QED BY <2>1, <2>2 DEF Entry, MediaEntries
<1>3. CASE "video" \in x.disabled
  <2>1. u = x BY <1>3 DEF AppendMedia
  <2>2. Fine(r, x) BY <1>3, PoppedFine
  <2> QED BY <2>1, <2>2, ShapeFacts
<1>4. CASE "video" \notin x.disabled
  <2>1. u = IF x.ms # "open" THEN y ELSE TryAppendPending(z)
    BY <1>4 DEF AppendMedia
  <2>2. DOMAIN x = MainFields /\ MainTyped(x) /\ NumbersSound(s, x) /\ x.pend \in [MseTracks -> Seq(Entry)]
    BY DEF Fine, Lean, MainTyped
  <2> HIDE DEF q, u
  <2>3. /\ DOMAIN y = MainFields
        /\ y.gen = x.gen /\ y.cmds = x.cmds /\ y.wInit = x.wInit /\ y.segs = x.segs /\ y.inits = x.inits
        /\ y.throttle = x.throttle /\ y.wm = x.wm /\ y.bf = x.bf /\ y.ms = x.ms
        /\ y.managed = x.managed /\ y.refuses = x.refuses /\ y.streaming = x.streaming
        /\ y.parsed = x.parsed /\ y.late = x.late /\ y.app = x.app
        /\ y.ahead = x.ahead /\ y.pcm = x.pcm /\ y.fed = x.fed /\ y.sb = x.sb
        /\ y.disabled = x.disabled /\ y.early = x.early /\ y.pend = [x.pend EXCEPT !["video"] = Append(@, q)]
    BY <2>2 DEF MainFields
  <2> HIDE DEF y
  <2>4. Queued(x, "video", q, y) /\ SameShape(x, y)
    BY <2>3 DEF Queued, SameControl, SameShape
  <2>5. NumbersSound(r, y)
    <3>1. PICK b \in Nat : /\ Numbered(x.pend["video"], MediaEntries, Len(x.app), b)
                           /\ Numbered(s.out, MediaEvents(x.gen), b, SegmentsSent(s, x))
      BY <1>4, <2>2 DEF NumbersSound
    <3>2. e.n = b + 1 /\ Numbered(Tail(s.out), MediaEvents(x.gen), b + 1, SegmentsSent(s, x))
      BY <1>2, <3>1, NumberedTail
    <3>3. x.pend["video"] \in Seq(Entry) /\ y.pend["video"] = Append(x.pend["video"], q) /\ q.n = e.n
      BY <2>2, <2>3 DEF MseTracks, q
    <3>4. Numbered(y.pend["video"], MediaEntries, Len(x.app), b + 1)
      BY <1>2, <3>1, <3>2, <3>3, NumberedAppend
    <3>5. SegmentsSent(r, y) = SegmentsSent(s, x) /\ r.out = Tail(s.out) /\ y.app = x.app /\ y.gen = x.gen
      BY <2>3 DEF SegmentsSent, Begun, Popped
    <3> QED BY <3>2, <3>4, <3>5 DEF NumbersSound
  <2>6. Fine(r, y)
    <3>1. r.pipe = s.pipe /\ r.gen = s.gen /\ r.paused = s.paused /\ "video" \in MseTracks
          /\ q.kind = "media" /\ q.of = x.gen
      BY DEF Popped, MseTracks, q
    <3> QED BY <3>1, <1>2, <1>4, <2>4, <2>5, QueuedSound
  <2>7. Fine(r, z) /\ SameShape(y, z)
    <3>1. DOMAIN y = MainFields /\ MainTyped(y) /\ Lean(r, y) /\ FlowSound(y)
      BY <2>6 DEF Fine, Lean, MainTyped
    <3>2. /\ DOMAIN y2 = MainFields
          /\ y2.gen = y.gen /\ y2.cmds = y.cmds /\ y2.wInit = y.wInit /\ y2.segs = y.segs /\ y2.inits = y.inits
          /\ y2.throttle = y.throttle /\ y2.wm = y.wm /\ y2.bf = y.bf /\ y2.ms = y.ms
          /\ y2.managed = y.managed /\ y2.refuses = y.refuses /\ y2.streaming = y.streaming
          /\ y2.parsed = y.parsed /\ y2.late = y.late /\ y2.app = y.app
          /\ y2.ahead = y.ahead /\ y2.pcm = y.pcm /\ y2.fed = y.fed /\ y2.sb = y.sb
          /\ y2.disabled = y.disabled /\ y2.early = y.early /\ y2.pend = y.pend
      BY <3>1 DEF MainFields
    <3> HIDE DEF y2
    <3>3. SameControl(y, y2) /\ SameShape(y, y2) BY <3>2 DEF SameControl, SameShape
    <3>4. QueuesSound(y2) BY <3>1, <3>2 DEF Lean, QueuesSound
    <3>5. NumbersSound(r, y2)
      BY <3>1, <3>2 DEF Lean, NumbersSound, SegmentsSent, Begun
    <3>6. /\ y2.ahead \in 0 .. Cap /\ y2.ahead >= y.ahead
          /\ y2.pend \in [MseTracks -> Seq(Entry)] /\ y2.app \in Seq([of : Loads, n : Nat])
          /\ y2.sb \in [MseTracks -> {"none", "idle", "init", "media", "remove"}]
      BY <3>1, <3>2, ControllerAssumption, SMTT(40) DEF MainTyped
    <3>7. Fine(r, y2) BY <3>1, <3>3, <3>4, <3>5, <3>6, ControlKept
    <3>8. Fine(r, DoRemoveRanges(y2)) /\ SameShape(y, DoRemoveRanges(y2))
      BY <3>3, <3>7, RemoveRanges, ShapeFacts
    <3> QED BY <2>6, <3>8, ShapeFacts
  <2> HIDE DEF z
  <2>8. Fine(r, TryAppendPending(z)) /\ SameShape(x, TryAppendPending(z))
    <3>1. SameShape(z, TryAppendPending(z)) BY <2>7, TryAppendSound
    <3> QED BY <3>1, <2>4, <2>7, TryAppendSound, ShapeFacts
  <2>9. Fine(r, u) /\ SameShape(x, u) BY <2>1, <2>4, <2>6, <2>8
  <2> QED BY <2>9, ShapeFacts DEF u
<1> QED BY <1>3, <1>4

\* The worker that sent an event of the stream plays it.
LEMMA EventBegun ==
  ASSUME NEW s, NEW x, Sound(s, x), NEW e, EventSound(s, e), e \in Event, e.gen = x.gen
  PROVE  Begun(s, x) /\ x.ms \in {"open", "ended", "dead"} /\ x.gen >= 1
<1>1. /\ WorkerSound(s) /\ WorkerTyped(s) /\ MainTyped(x) /\ StateSound(x) /\ ChannelSound(s, x)
      /\ s.gen \in Nat /\ x.gen \in Nat /\ e.gen \in Nat
  <2>1. WorkerSound(s) /\ WorkerTyped(s) /\ MainTyped(x) /\ StateSound(x) /\ ChannelSound(s, x)
    BY DEF Sound, WorkerSound, MainSound
  <2>2. s.gen \in Loads /\ x.gen \in Loads BY <2>1 DEF WorkerTyped, MainTyped
  <2> QED BY <2>1, <2>2, LoadsNatural, EventNatural
<1>2. s.gen = x.gen /\ x.gen >= 1 /\ s.pipe # "made" BY <1>1 DEF EventSound, ChannelSound
<1>3. x.ms \in {"open", "ended", "dead"} BY <1>1, <1>2 DEF ChannelSound, MainTyped
<1>4. x.segs = "none" /\ x.wInit /\ LastLoad(x) = x.gen
  BY <1>1, <1>3 DEF StateSound, LastLoad
<1>5. s.pipe # "none"
  <2> SUFFICES ASSUME s.pipe = "none"
               PROVE  FALSE
    OBVIOUS
  <2> DEFINE q == x.cmds
  <2>1. q \in Seq(Command) /\ Len(q) \in Nat BY <1>1 DEF MainTyped
  <2>2. PipeEnd("none", q) = "on" /\ Obeys("none", q) /\ LoadsRise(s.gen, q, x.gen)
    BY <1>1, <1>4 DEF ChannelSound
  <2> HIDE DEF q
  <2>3. Len(q) >= 1 BY <2>1, <2>2 DEF PipeEnd, PipeBefore
  <2>4. 1 \in 1 .. Len(q) /\ q[1] \in Command BY <2>1, <2>3
  <2>5. Dated(q[1])
    BY <2>2, <2>4 DEF Obeys, PipeBefore, Allowed, Dated
  <2>6. s.gen < q[1].load /\ q[1].load <= x.gen /\ q[1].load \in Nat
    BY <2>2, <2>4, <2>5, LoadsNatural DEF LoadsRise, Command
  <2> QED BY <2>6, <1>1, <1>2
<1>6. s.pipe = "on" BY <1>1, <1>2, <1>5 DEF WorkerTyped
<1> QED BY <1>2, <1>3, <1>6 DEF Begun

LEMMA BothAreTwo == "audio" \in BothTracks /\ BothTracks # {"video"}
  BY DEF BothTracks

\* The events that follow one that is no init segment and no media-info.
LEMMA OtherTaken ==
  ASSUME NEW q \in Seq(Event), q # << >>, NEW x, NEW T \in {{"video"}, BothTracks}, BatchSound(q, x, T),
         ~InfoOf(Head(q), x.gen), \A t : ~InitOf(Head(q), x.gen, t)
  PROVE  /\ BatchSound(Tail(q), x, T)
         /\ \A y : y.gen = x.gen /\ y.inits = << >> => BatchSound(Tail(q), y, T)
         /\ x.inits # << >> /\ T = BothTracks => Batched(x, "video") /\ Batched(x, "audio")
<1> DEFINE r == Tail(q)
<1>1. /\ Head(q) = q[1] /\ Len(q) \in Nat /\ Len(q) >= 1 /\ Len(r) = Len(q) - 1 /\ 1 \in 1 .. Len(q)
      /\ \A i \in 1 .. Len(r) : i + 1 \in 1 .. Len(q) /\ r[i] = q[i + 1]
  BY TailFacts
<1> HIDE DEF r
<1>2. "audio" \in BothTracks /\ BothTracks # {"video"} BY BothAreTwo
<1>3. CASE T = {"video"}
  <2>1. /\ \A i \in 1 .. Len(q) : ~InitOf(q[i], x.gen, "audio")
        /\ ~Batched(x, "audio")
    BY <1>3 DEF BatchSound
  <2>2. \A i \in 1 .. Len(r) : ~InitOf(r[i], x.gen, "audio")
    BY <2>1, <1>1
  <2>3. \A y : y.inits = << >> => ~Batched(y, "audio") BY DEF Batched
  <2>4. BatchSound(r, x, T) BY <1>3, <2>1, <2>2 DEF BatchSound
  <2>5. \A y : y.gen = x.gen /\ y.inits = << >> => BatchSound(r, y, T)
    BY <1>3, <2>2, <2>3 DEF BatchSound
  <2> QED BY <1>2, <1>3, <2>4, <2>5 DEF r
<1>4. CASE T = BothTracks
  <2>1. /\ Paired(q, x.gen, x)
        /\ x.inits # << >> => Batched(x, "video")
        /\ Batched(x, "video") /\ ~Batched(x, "audio") => MateNext(q, x.gen)
    BY <1>2, <1>4 DEF BatchSound
  <2>2. ~MateNext(q, x.gen) BY <1>1 DEF MateNext
  <2>3. \A y : Paired(r, x.gen, y)
    <3> SUFFICES ASSUME NEW y, NEW i \in 1 .. Len(r)
                 PROVE  /\ InitOf(r[i], x.gen, "video") =>
                             i + 2 <= Len(r) /\ InfoOf(r[i + 1], x.gen) /\ InitOf(r[i + 2], x.gen, "audio")
                        /\ InitOf(r[i], x.gen, "audio") => i >= 3 /\ InitOf(r[i - 2], x.gen, "video")
      BY DEF Paired
    <3>0. i \in Nat /\ i >= 1 /\ Len(q) \in Nat /\ Len(r) = Len(q) - 1
      BY <1>1
    <3>1. i + 1 \in 1 .. Len(q) /\ r[i] = q[i + 1] /\ i \in Nat /\ i >= 1 /\ (i + 1) + 1 = i + 2 /\ (i + 1) + 2 = i + 3
          /\ (i + 1) - 2 = i - 1
      BY <1>1
    <3>2. ASSUME InitOf(r[i], x.gen, "video")
          PROVE  i + 2 <= Len(r) /\ InfoOf(r[i + 1], x.gen) /\ InitOf(r[i + 2], x.gen, "audio")
      <4>1. i + 3 <= Len(q) /\ InfoOf(q[i + 2], x.gen) /\ InitOf(q[i + 3], x.gen, "audio")
        BY <3>1, <3>2, <2>1 DEF Paired
      <4>2. i + 1 \in 1 .. Len(r) /\ i + 2 \in 1 .. Len(r) /\ (i + 2) + 1 = i + 3
        BY ONLY <4>1, <3>0
      <4>3. r[i + 1] = q[i + 2] /\ r[i + 2] = q[i + 3] BY <4>2, <3>1, <1>1
      <4> QED BY <4>1, <4>2, <4>3
    <3>3. ASSUME InitOf(r[i], x.gen, "audio")
          PROVE  i >= 3 /\ InitOf(r[i - 2], x.gen, "video")
      <4>1. \/ i + 1 >= 3 /\ InitOf(q[i - 1], x.gen, "video")
            \/ i + 1 <= 2 /\ Batched(x, "video") /\ (i + 1 = 2 => InfoOf(q[1], x.gen))
        BY <3>1, <3>3, <2>1 DEF Paired
      <4>2. i + 1 >= 3 /\ InitOf(q[i - 1], x.gen, "video") BY <4>1, <3>1, <1>1
      <4>3. i - 1 # 1 BY <4>2, <1>1
      <4>4. i >= 3 /\ i - 2 \in 1 .. Len(r) /\ (i - 2) + 1 = i - 1
        BY <4>2, <4>3, <3>1
      <4>5. r[i - 2] = q[i - 1] BY <4>4, <1>1
      <4> QED BY <4>2, <4>4, <4>5
    <3> QED BY <3>2, <3>3
  <2>4. BatchSound(r, x, T) BY <1>2, <1>4, <2>1, <2>2, <2>3 DEF BatchSound
  <2>5. \A y : y.gen = x.gen /\ y.inits = << >> => BatchSound(r, y, T)
    <3>1. \A y : y.inits = << >> => ~Batched(y, "video") BY DEF Batched
    <3> QED BY <1>2, <1>4, <2>3, <3>1 DEF BatchSound
  <2> QED BY <2>1, <2>2, <2>4, <2>5 DEF r
<1> QED BY <1>3, <1>4

LEMMA InfoTaken ==
  ASSUME NEW q \in Seq(Event), q # << >>, NEW x, NEW T \in {{"video"}, BothTracks}, BatchSound(q, x, T),
         InfoOf(Head(q), x.gen)
  PROVE  BatchSound(Tail(q), x, T)
<1> DEFINE r == Tail(q)
<1>1. /\ Head(q) = q[1] /\ Len(q) \in Nat /\ Len(q) >= 1 /\ Len(r) = Len(q) - 1 /\ 1 \in 1 .. Len(q)
      /\ \A i \in 1 .. Len(r) : i + 1 \in 1 .. Len(q) /\ r[i] = q[i + 1]
  BY TailFacts
<1> HIDE DEF r
<1>2. "audio" \in BothTracks /\ BothTracks # {"video"} /\ \A t : ~InitOf(q[1], x.gen, t)
  <2>1. "audio" \in BothTracks /\ BothTracks # {"video"} BY BothAreTwo
  <2>2. q[1].type = "media-info" BY <1>1 DEF InfoOf
  <2>3. \A t : ~InitOf(q[1], x.gen, t) BY <2>2 DEF InitOf
  <2> QED BY <2>1, <2>3
<1>3. CASE T = {"video"}
  <2>1. /\ \A i \in 1 .. Len(q) : ~InitOf(q[i], x.gen, "audio")
        /\ ~Batched(x, "audio")
    BY <1>3 DEF BatchSound
  <2>2. \A i \in 1 .. Len(r) : ~InitOf(r[i], x.gen, "audio")
    BY <2>1, <1>1
  <2>3. BatchSound(r, x, T) BY <1>3, <2>1, <2>2 DEF BatchSound
  <2> QED BY <2>3 DEF r
<1>4. CASE T = BothTracks
  <2>1. /\ Paired(q, x.gen, x)
        /\ x.inits # << >> => Batched(x, "video")
        /\ Batched(x, "video") /\ ~Batched(x, "audio") => MateNext(q, x.gen)
    BY <1>2, <1>4 DEF BatchSound
  <2>2. MateNext(q, x.gen) => MateNext(r, x.gen)
    <3> SUFFICES ASSUME MateNext(q, x.gen)
                 PROVE  MateNext(r, x.gen)
      OBVIOUS
    <3>1. Len(q) >= 2 /\ InitOf(q[2], x.gen, "audio") BY <1>2 DEF MateNext
    <3>2. 1 \in 1 .. Len(r) /\ 1 + 1 = 2 BY <3>1, <1>1
    <3>3. r[1] = q[2] /\ Len(r) >= 1 BY <3>2, <1>1
    <3> QED BY <3>1, <3>3 DEF MateNext
  <2>3. Paired(r, x.gen, x)
    <3> SUFFICES ASSUME NEW i \in 1 .. Len(r)
                 PROVE  /\ InitOf(r[i], x.gen, "video") =>
                             i + 2 <= Len(r) /\ InfoOf(r[i + 1], x.gen) /\ InitOf(r[i + 2], x.gen, "audio")
                        /\ InitOf(r[i], x.gen, "audio") =>
                             \/ i >= 3 /\ InitOf(r[i - 2], x.gen, "video")
                             \/ i = 1 /\ Batched(x, "video")
      BY DEF Paired
    <3>0. i \in Nat /\ i >= 1 /\ Len(q) \in Nat /\ Len(r) = Len(q) - 1
      BY <1>1
    <3>1. i + 1 \in 1 .. Len(q) /\ r[i] = q[i + 1] /\ i \in Nat /\ i >= 1 /\ (i + 1) + 1 = i + 2 /\ (i + 1) + 2 = i + 3
          /\ (i + 1) - 2 = i - 1
      BY <1>1
    <3>2. ASSUME InitOf(r[i], x.gen, "video")
          PROVE  i + 2 <= Len(r) /\ InfoOf(r[i + 1], x.gen) /\ InitOf(r[i + 2], x.gen, "audio")
      <4>1. i + 3 <= Len(q) /\ InfoOf(q[i + 2], x.gen) /\ InitOf(q[i + 3], x.gen, "audio")
        BY <3>1, <3>2, <2>1 DEF Paired
      <4>2. i + 1 \in 1 .. Len(r) /\ i + 2 \in 1 .. Len(r) /\ (i + 2) + 1 = i + 3
        BY ONLY <4>1, <3>0
      <4>3. r[i + 1] = q[i + 2] /\ r[i + 2] = q[i + 3] BY <4>2, <3>1, <1>1
      <4> QED BY <4>1, <4>2, <4>3
    <3>3. ASSUME InitOf(r[i], x.gen, "audio"), i # 1 \/ ~Batched(x, "video")
          PROVE  i >= 3 /\ InitOf(r[i - 2], x.gen, "video")
      <4>1. \/ i + 1 >= 3 /\ InitOf(q[i - 1], x.gen, "video")
            \/ i + 1 <= 2 /\ Batched(x, "video") /\ (i + 1 = 2 => InfoOf(q[1], x.gen))
        BY <3>1, <3>3, <2>1 DEF Paired
      <4>2. i + 1 >= 3 /\ InitOf(q[i - 1], x.gen, "video") BY <4>1, <3>1, <3>3, <1>1
      <4>3. i - 1 # 1 BY <4>2, <1>2
      <4>4. i >= 3 /\ i - 2 \in 1 .. Len(r) /\ (i - 2) + 1 = i - 1
        BY <4>2, <4>3, <3>1
      <4>5. r[i - 2] = q[i - 1] BY <4>4, <1>1
      <4> QED BY <4>2, <4>4, <4>5
    <3> QED BY <3>2, <3>3
  <2>4. BatchSound(r, x, T) BY <1>2, <1>4, <2>1, <2>2, <2>3 DEF BatchSound
  <2> QED BY <2>4 DEF r
<1> QED BY <1>3, <1>4

LEMMA InitTaken ==
  ASSUME NEW q \in Seq(Event), q # << >>, NEW x, NEW T \in {{"video"}, BothTracks}, BatchSound(q, x, T),
         x.inits \in Seq(Event), NEW e, e = Head(q), e.type = "init-segment", e.gen = x.gen, e.track # "none",
         NEW y, y.gen = x.gen, y.inits = Append(x.inits, e)
  PROVE  BatchSound(Tail(q), y, T)
<1> DEFINE r == Tail(q)
<1>1. /\ e = q[1] /\ Len(q) \in Nat /\ Len(q) >= 1 /\ Len(r) = Len(q) - 1 /\ 1 \in 1 .. Len(q) /\ e \in Event
      /\ \A i \in 1 .. Len(r) : i + 1 \in 1 .. Len(q) /\ r[i] = q[i + 1]
  BY TailFacts
<1> HIDE DEF r
<1>2. "audio" \in BothTracks /\ BothTracks # {"video"} /\ ~InfoOf(q[1], x.gen)
      /\ e.track \in {"video", "audio"} /\ InitOf(q[1], x.gen, e.track) /\ \A t : t # e.track => ~InitOf(q[1], x.gen, t)
  <2>1. "audio" \in BothTracks /\ BothTracks # {"video"} BY BothAreTwo
  <2>2. q[1].type = "init-segment" /\ q[1].gen = x.gen /\ q[1].track = e.track
    BY <1>1
  <2>3. e.track \in {"video", "audio"} BY <1>1 DEF Event
  <2>4. ~InfoOf(q[1], x.gen) BY <2>2 DEF InfoOf
  <2>5. InitOf(q[1], x.gen, e.track) /\ \A t : t # e.track => ~InitOf(q[1], x.gen, t)
    BY <2>2 DEF InitOf
  <2> QED BY <2>1, <2>3, <2>4, <2>5
<1>3. \A t : Batched(y, t) <=> Batched(x, t) \/ t = e.track
  <2>1. /\ Len(x.inits) \in Nat /\ Len(y.inits) = Len(x.inits) + 1 /\ y.inits[Len(x.inits) + 1] = e
        /\ \A i \in 1 .. Len(x.inits) : y.inits[i] = x.inits[i]
    BY <1>1
  <2>2. \A i \in 1 .. Len(y.inits) : i \in 1 .. Len(x.inits) \/ i = Len(x.inits) + 1
    BY <2>1
  <2>3. Len(x.inits) + 1 \in 1 .. Len(y.inits) /\ \A i \in 1 .. Len(x.inits) : i \in 1 .. Len(y.inits)
    BY <2>1
  <2> QED BY <2>1, <2>2, <2>3 DEF Batched
<1>4. CASE T = {"video"}
  <2>1. /\ \A i \in 1 .. Len(q) : ~InitOf(q[i], x.gen, "audio")
        /\ ~Batched(x, "audio")
    BY <1>4 DEF BatchSound
  <2>2. \A i \in 1 .. Len(r) : ~InitOf(r[i], x.gen, "audio")
    BY <2>1, <1>1
  <2>3. e.track # "audio" BY <2>1, <1>1, <1>2
  <2>4. BatchSound(r, y, T) BY <1>3, <1>4, <2>1, <2>2, <2>3 DEF BatchSound
  <2> QED BY <2>4 DEF r
<1>5. CASE T = BothTracks
  <2>1. /\ Paired(q, x.gen, x)
        /\ x.inits # << >> => Batched(x, "video")
        /\ Batched(x, "video") /\ ~Batched(x, "audio") => MateNext(q, x.gen)
    BY <1>2, <1>5 DEF BatchSound
  <2>2. e.track = "video" => 3 <= Len(q) /\ InfoOf(q[2], x.gen) /\ InitOf(q[3], x.gen, "audio")
    <3>1. 1 + 1 = 2 /\ 1 + 2 = 3
      OBVIOUS
    <3> QED BY <3>1, <2>1, <1>1, <1>2 DEF Paired
  <2>3. Batched(y, "video")
    <3>1. CASE e.track = "audio"
      <4>1. ~(1 >= 3)
        OBVIOUS
      <4>2. Batched(x, "video") BY <4>1, <3>1, <2>1, <1>1, <1>2 DEF Paired
      <4> QED BY <4>2, <1>3
    <3>2. CASE e.track = "video" BY <3>2, <1>3
    <3> QED BY <3>1, <3>2, <1>2
  <2>4. ~Batched(y, "audio") => MateNext(r, x.gen)
    <3> SUFFICES ASSUME ~Batched(y, "audio")
                 PROVE  MateNext(r, x.gen)
      OBVIOUS
    <3>1. 3 <= Len(q) /\ InfoOf(q[2], x.gen) /\ InitOf(q[3], x.gen, "audio")
      BY <1>2, <1>3, <2>2
    <3>2. 1 \in 1 .. Len(r) /\ 2 \in 1 .. Len(r) /\ 1 + 1 = 2 /\ 2 + 1 = 3 /\ Len(r) >= 2
      BY <3>1, <1>1
    <3>3. r[1] = q[2] /\ r[2] = q[3] BY <3>2, <1>1
    <3> QED BY <3>1, <3>2, <3>3 DEF MateNext
  <2>5. Paired(r, x.gen, y)
    <3> SUFFICES ASSUME NEW i \in 1 .. Len(r)
                 PROVE  /\ InitOf(r[i], x.gen, "video") =>
                             i + 2 <= Len(r) /\ InfoOf(r[i + 1], x.gen) /\ InitOf(r[i + 2], x.gen, "audio")
                        /\ InitOf(r[i], x.gen, "audio") =>
                             \/ i >= 3 /\ InitOf(r[i - 2], x.gen, "video")
                             \/ i <= 2 /\ Batched(y, "video") /\ (i = 2 => InfoOf(r[1], x.gen))
      BY DEF Paired
    <3>0. i \in Nat /\ i >= 1 /\ Len(q) \in Nat /\ Len(r) = Len(q) - 1
      BY <1>1
    <3>1. i + 1 \in 1 .. Len(q) /\ r[i] = q[i + 1] /\ i \in Nat /\ i >= 1 /\ (i + 1) + 1 = i + 2 /\ (i + 1) + 2 = i + 3
          /\ (i + 1) - 2 = i - 1
      BY <1>1
    <3>2. ASSUME InitOf(r[i], x.gen, "video")
          PROVE  i + 2 <= Len(r) /\ InfoOf(r[i + 1], x.gen) /\ InitOf(r[i + 2], x.gen, "audio")
      <4>1. i + 3 <= Len(q) /\ InfoOf(q[i + 2], x.gen) /\ InitOf(q[i + 3], x.gen, "audio")
        BY <3>1, <3>2, <2>1 DEF Paired
      <4>2. i + 1 \in 1 .. Len(r) /\ i + 2 \in 1 .. Len(r) /\ (i + 2) + 1 = i + 3
        BY ONLY <4>1, <3>0
      <4>3. r[i + 1] = q[i + 2] /\ r[i + 2] = q[i + 3] BY <4>2, <3>1, <1>1
      <4> QED BY <4>1, <4>2, <4>3
    <3>3. ASSUME InitOf(r[i], x.gen, "audio"), i # 1
          PROVE  \/ i >= 3 /\ InitOf(r[i - 2], x.gen, "video")
                 \/ i = 2 /\ InfoOf(r[1], x.gen)
      <4>1. \/ i + 1 >= 3 /\ InitOf(q[i - 1], x.gen, "video")
            \/ i + 1 <= 2 /\ Batched(x, "video") /\ (i + 1 = 2 => InfoOf(q[1], x.gen))
        BY <3>1, <3>3, <2>1 DEF Paired
      <4>2. i + 1 >= 3 /\ InitOf(q[i - 1], x.gen, "video") BY <4>1, <3>1, <3>3, <1>1
      <4>3. CASE i = 2
        <5>1. e.track = "video" BY <4>2, <4>3, <1>2
        <5>2. 1 \in 1 .. Len(r) /\ 1 + 1 = 2 BY <4>3
        <5>3. r[1] = q[2] BY <5>2, <1>1
        <5> QED BY <5>1, <5>3, <4>3, <2>2
      <4>4. CASE i # 2
        <5>1. i >= 3 /\ i - 2 \in 1 .. Len(r) /\ (i - 2) + 1 = i - 1
          BY <4>2, <4>4, <3>1
        <5>2. r[i - 2] = q[i - 1] BY <5>1, <1>1
        <5> QED BY <4>2, <5>1, <5>2
      <4> QED BY <4>3, <4>4
    <3> QED BY <3>2, <3>3, <2>3
  <2>6. BatchSound(r, y, T) BY <1>2, <1>5, <2>3, <2>4, <2>5 DEF BatchSound
  <2> QED BY <2>6 DEF r
<1> QED BY <1>4, <1>5

LEMMA SoundAgain ==
  ASSUME NEW r, NEW y, WorkerSound(r), Fine(r, y), Begun(r, y) \/ Untouched(y), ~y.late,
         NEW T \in {{"video"}, BothTracks}, KindMatch(r, y, T), BatchSound(r.out, y, T), BuffersSound(y, T)
  PROVE  Sound(r, y)
<1>1. MainSound(y) /\ ChannelSound(r, y) /\ FlagsSound(r, y) /\ NumbersSound(r, y)
  BY DEF Fine, Lean, MainSound
<1>2. TracksSound(r, y, T) BY DEF TracksSound, KindMatch
<1> QED BY <1>1, <1>2 DEF Sound

LEMMA SoundParts ==
  ASSUME NEW s, NEW x, Sound(s, x)
  PROVE  /\ WorkerSound(s) /\ Fine(s, x) /\ (Begun(s, x) \/ Untouched(x)) /\ ~x.late
         /\ s.gen \in Nat /\ x.gen \in Nat /\ s.gen <= x.gen /\ s.out \in Seq(Event)
         /\ DOMAIN s = WorkerFields /\ DOMAIN x = MainFields
         /\ \E T \in {{"video"}, BothTracks} :
              T \in SUBSET MseTracks /\ KindMatch(s, x, T) /\ BatchSound(s.out, x, T) /\ BuffersSound(x, T)
<1>1. WorkerSound(s) /\ Fine(s, x) /\ (Begun(s, x) \/ Untouched(x)) /\ ~x.late
  BY DEF Sound, Fine, Lean, MainSound
<1>2. WorkerTyped(s) /\ MainTyped(x) /\ ChannelSound(s, x)
  BY <1>1 DEF WorkerSound, Fine, Lean
<1>3. s.gen \in Nat /\ x.gen \in Nat BY <1>2, LoadsNatural DEF WorkerTyped, MainTyped
<1>4. s.gen <= x.gen /\ s.out \in Seq(Event) /\ DOMAIN s = WorkerFields /\ DOMAIN x = MainFields
  BY <1>2 DEF WorkerTyped, MainTyped, ChannelSound
<1>5. PICK T \in {{"video"}, BothTracks} : TracksSound(s, x, T)
  BY DEF Sound
<1>6. T \in SUBSET MseTracks BY DEF MseTracks, BothTracks
<1>7. KindMatch(s, x, T) /\ BatchSound(s.out, x, T) /\ BuffersSound(x, T)
  BY <1>5 DEF TracksSound, KindMatch
<1> QED BY <1>1, <1>3, <1>4, <1>6, <1>7

\* The tracks of the batch, when no more of it can come.
LEMMA BatchTracks ==
  ASSUME NEW x, MainTyped(x), QueuesSound(x), NEW q \in Seq(Event), q # << >>, NEW T \in {{"video"}, BothTracks},
         BatchSound(q, x, T), ~InfoOf(Head(q), x.gen), \A t : ~InitOf(Head(q), x.gen, t)
  PROVE  /\ \A i \in 1 .. Len(x.inits) : x.inits[i].track \in T
         /\ x.inits # << >> => \A t \in T : Batched(x, t)
<1>1. \A i \in 1 .. Len(x.inits) : x.inits[i].track \in {"video", "audio"}
  <2>1. \A i \in 1 .. Len(x.inits) : x.inits[i] \in Event BY DEF MainTyped
  <2>2. \A i \in 1 .. Len(x.inits) : x.inits[i].track \in {"none", "video", "audio"}
    BY <2>1 DEF Event
  <2> QED BY <2>2 DEF QueuesSound
<1>2. CASE T = {"video"}
  <2>1. ~Batched(x, "audio") BY <1>2 DEF BatchSound
  <2>2. \A i \in 1 .. Len(x.inits) : x.inits[i].track = "video"
    BY <1>1, <2>1 DEF Batched
  <2>3. x.inits # << >> => 1 \in 1 .. Len(x.inits)
    <3>1. x.inits \in Seq(Event) BY DEF MainTyped
    <3> QED BY <3>1
  <2> QED BY <1>2, <2>2, <2>3 DEF Batched
<1>3. CASE T = BothTracks
  <2>1. x.inits # << >> => Batched(x, "video") /\ Batched(x, "audio")
    BY <1>3, OtherTaken
  <2>2. T = {"video", "audio"} BY <1>3 DEF BothTracks
  <2> QED BY <1>1, <2>1, <2>2
<1> QED BY <1>2, <1>3

\* Where an event of the stream can come, the MediaSource is open or was.
LEMMA OpenFields ==
  ASSUME NEW r, NEW x, Fine(r, x), Begun(r, x), x.gen >= 1
  PROVE  x.ms \in {"open", "ended", "dead"} /\ x.wInit /\ x.segs = "none"
<1>1. ChannelSound(r, x) /\ MainTyped(x) /\ StateSound(x)
  BY DEF Fine, Lean
<1>2. x.gen \in Nat BY <1>1, LoadsNatural DEF MainTyped
<1>3. x.ms \notin {"none", "closed"} BY <1>1, <1>2 DEF ChannelSound, Begun
<1>4. x.ms \in {"none", "closed", "open", "ended", "dead"}
  BY <1>1 DEF MainTyped
<1> QED BY <1>1, <1>3, <1>4 DEF StateSound

\* An event that is flushed: what handleWorkerMessage does with it.
LEMMA FlushedEvent ==
  ASSUME NEW s, s.out \in Seq(Event), s.out # << >>, NEW r, Popped(s, r), NEW e, e = Head(s.out), EventSound(s, e),
         NEW x, Fine(s, x), Begun(s, x), x.gen >= 1, e.gen = x.gen,
         NEW y,
         \/ e.type = "media-segment" /\ y = AppendMedia(x, e)
         \/ e.type = "error" /\ y = x
         \/ e.type = "complete" /\ y = EndOfStream(x)
         \/ e.type = "hls-info" /\ y = OnHlsInfo(x)
         \/ e.type = "pcm-audio-data" /\ y = [x EXCEPT !.pcm = @ \cup {[gen |-> x.gen, of |-> e.of]}]
  PROVE  Fine(r, y) /\ Progress(x, y)
<1>1. e.of = x.gen BY DEF EventSound
<1>2. e.type # "media-segment" => Fine(r, x)
  <2> SUFFICES ASSUME e.type # "media-segment"
               PROVE  Fine(r, x)
    OBVIOUS
  <2>1. e \notin MediaEvents(x.gen) BY DEF MediaEvents
  <2> QED BY <2>1, PoppedFine
<1>3. Begun(r, x) BY DEF Begun, Popped
<1>4. CASE e.type = "media-segment" /\ y = AppendMedia(x, e)
  <2>1. e.track = "video" BY <1>4 DEF EventSound
  <2> QED BY <2>1, <1>1, <1>4, AppendMediaSound
<1>5. CASE e.type = "error" /\ y = x BY <1>2, <1>5, ShapeFacts
<1>6. CASE e.type = "complete" /\ y = EndOfStream(x) BY <1>2, <1>6, EndSound
<1>7. CASE e.type = "hls-info" /\ y = OnHlsInfo(x)
  <2> DEFINE a == [x EXCEPT !.throttle = TRUE]
  <2>1. Fine(r, x) /\ DOMAIN x = MainFields /\ x.ms \in {"open", "ended", "dead"}
    <3>1. Fine(r, x) BY <1>2, <1>7
    <3> QED BY <3>1, <1>3, OpenFields DEF Fine, Lean, MainTyped
  <2>2. y = UpdateFetchBackpressure(a) BY <1>7 DEF OnHlsInfo
  <2>3. /\ DOMAIN a = MainFields
        /\ a.gen = x.gen /\ a.cmds = x.cmds /\ a.wInit = x.wInit /\ a.segs = x.segs /\ a.inits = x.inits
        /\ a.throttle = TRUE /\ a.wm = x.wm /\ a.bf = x.bf /\ a.ms = x.ms
        /\ a.managed = x.managed /\ a.refuses = x.refuses /\ a.streaming = x.streaming
        /\ a.parsed = x.parsed /\ a.late = x.late /\ a.app = x.app
        /\ a.ahead = x.ahead /\ a.pcm = x.pcm /\ a.fed = x.fed /\ a.sb = x.sb
        /\ a.disabled = x.disabled /\ a.early = x.early /\ a.pend = x.pend
    BY <2>1 DEF MainFields
  <2> HIDE DEF a
  <2>4. Lean(r, a)
    <3>0. /\ MainTyped(x) /\ StateSound(x) /\ QueuesSound(x)
          /\ ChannelSound(r, x) /\ FlagsSound(r, x) /\ NumbersSound(r, x)
      BY <2>1 DEF Fine, Lean
    <3>1. MainTyped(a) BY <3>0, <2>3 DEF MainTyped
    <3>2. StateSound(a) BY <3>0, <2>1, <2>3 DEF StateSound
    <3>3. QueuesSound(a) BY <3>0, <2>3 DEF QueuesSound
    <3>4. ChannelSound(r, a) /\ FlagsSound(r, a)
      BY <3>0, <2>3 DEF ChannelSound, LastLoad, FlagsSound
    <3>5. NumbersSound(r, a)
      BY <3>0, <2>3 DEF NumbersSound, SegmentsSent, Begun
    <3> QED BY <3>1, <3>2, <3>3, <3>4, <3>5 DEF Lean
  <2>5. Fine(r, y) /\ SameMedia(a, y) BY <2>2, <2>4, Backpressure
  <2>6. SameShape(x, a) BY <2>3 DEF SameShape
  <2> QED BY <2>5, <2>6, ShapeFacts
<1>8. CASE e.type = "pcm-audio-data" /\ y = [x EXCEPT !.pcm = @ \cup {[gen |-> x.gen, of |-> e.of]}]
  <2>1. Fine(r, x) /\ DOMAIN x = MainFields
    <3>1. Fine(r, x) BY <1>2, <1>8
    <3> QED BY <3>1 DEF Fine, Lean, MainTyped
  <2>2. /\ DOMAIN y = MainFields
        /\ y.gen = x.gen /\ y.cmds = x.cmds /\ y.wInit = x.wInit /\ y.segs = x.segs /\ y.inits = x.inits
        /\ y.throttle = x.throttle /\ y.wm = x.wm /\ y.bf = x.bf /\ y.ms = x.ms
        /\ y.managed = x.managed /\ y.refuses = x.refuses /\ y.streaming = x.streaming
        /\ y.parsed = x.parsed /\ y.late = x.late /\ y.app = x.app
        /\ y.ahead = x.ahead /\ y.pcm = x.pcm \cup {[gen |-> x.gen, of |-> e.of]} /\ y.fed = x.fed /\ y.sb = x.sb
        /\ y.disabled = x.disabled /\ y.early = x.early /\ y.pend = x.pend
    BY <1>8, <2>1 DEF MainFields
  <2>3. /\ MainTyped(x) /\ QueuesSound(x) /\ NumbersSound(r, x) /\ Lean(r, x) /\ FlowSound(x)
    BY <2>1 DEF Fine, Lean
  <2>4. SameControl(x, y) /\ SameShape(x, y) BY <2>2 DEF SameControl, SameShape
  <2>5. QueuesSound(y) BY <2>2, <2>3, <1>1 DEF QueuesSound
  <2>6. NumbersSound(r, y)
    BY <2>2, <2>3 DEF NumbersSound, SegmentsSent, Begun
  <2>7. /\ y.ahead \in 0 .. Cap /\ y.ahead >= x.ahead
        /\ y.pend \in [MseTracks -> Seq(Entry)] /\ y.app \in Seq([of : Loads, n : Nat])
        /\ y.sb \in [MseTracks -> {"none", "idle", "init", "media", "remove"}]
    BY <2>2, <2>3, ControllerAssumption, SMTT(40) DEF MainTyped
  <2>8. Fine(r, y) BY <2>3, <2>4, <2>5, <2>6, <2>7, ControlKept
  <2>9. Progress(x, y) BY <2>4, ShapeFacts
  <2> QED BY <2>8, <2>9
<1> QED BY <1>4, <1>5, <1>6, <1>7, <1>8

\* An init segment joins the batch.
Joins(x, e, y) == y = [x EXCEPT !.inits = Append(@, e)]

LEMMA InitFine ==
  ASSUME NEW r, NEW x, Fine(r, x), NEW e \in Event, e.track # "none", NEW y, Joins(x, e, y)
  PROVE  /\ Fine(r, y) /\ y.gen = x.gen /\ y.late = x.late /\ y.inits = Append(x.inits, e)
         /\ \A T : BuffersSound(x, T) => BuffersSound(y, T)
<1>1. /\ DOMAIN x = MainFields /\ MainTyped(x) /\ StateSound(x) /\ QueuesSound(x) /\ FlowSound(x)
      /\ ChannelSound(r, x) /\ FlagsSound(r, x) /\ NumbersSound(r, x) /\ x.inits \in Seq(Event)
  BY DEF Fine, Lean, MainTyped
<1>2. /\ DOMAIN y = MainFields
      /\ y.gen = x.gen /\ y.cmds = x.cmds /\ y.wInit = x.wInit /\ y.segs = x.segs /\ y.inits = Append(x.inits, e)
      /\ y.throttle = x.throttle /\ y.wm = x.wm /\ y.bf = x.bf /\ y.ms = x.ms
      /\ y.managed = x.managed /\ y.refuses = x.refuses /\ y.streaming = x.streaming
      /\ y.parsed = x.parsed /\ y.late = x.late /\ y.app = x.app
      /\ y.ahead = x.ahead /\ y.pcm = x.pcm /\ y.fed = x.fed /\ y.sb = x.sb
      /\ y.disabled = x.disabled /\ y.early = x.early /\ y.pend = x.pend
  BY <1>1 DEF MainFields, Joins
<1>3. /\ y.inits \in Seq(Event) /\ Len(x.inits) \in Nat /\ Len(y.inits) = Len(x.inits) + 1
      /\ y.inits[Len(x.inits) + 1] = e /\ \A i \in 1 .. Len(x.inits) : y.inits[i] = x.inits[i]
  BY <1>1, <1>2
<1>4. \A i \in 1 .. Len(y.inits) : y.inits[i].track # "none"
  BY <1>1, <1>3 DEF QueuesSound
<1>5. QueuesSound(y) BY <1>1, <1>2, <1>4 DEF QueuesSound
<1>6. MainTyped(y) BY <1>1, <1>2, <1>3 DEF MainTyped
<1>7. StateSound(y) /\ FlowSound(y) BY <1>1, <1>2 DEF StateSound, FlowSound
<1>8. ChannelSound(r, y) /\ FlagsSound(r, y)
  BY <1>1, <1>2 DEF ChannelSound, LastLoad, FlagsSound
<1>9. NumbersSound(r, y)
  BY <1>1, <1>2 DEF NumbersSound, SegmentsSent, Begun
<1>10. \A T : BuffersSound(x, T) => BuffersSound(y, T)
  BY <1>2 DEF BuffersSound, Created, CanAppend
<1> QED BY <1>2, <1>5, <1>6, <1>7, <1>8, <1>9, <1>10 DEF Fine, Lean

\* What the message handler leaves for the rest of its stream.
LEMMA AfterEvent ==
  ASSUME NEW s, WorkerSound(s), s.out # << >>, NEW r, Popped(s, r), NEW x, Begun(s, x),
         NEW T \in {{"video"}, BothTracks}, KindMatch(s, x, T), NEW y, Fine(r, y), y.gen = x.gen, ~y.late,
         BatchSound(Tail(s.out), y, T), BuffersSound(y, T)
  PROVE  Sound(r, y)
<1>1. WorkerSound(r) BY PoppedSound
<1>2. Begun(r, y) BY DEF Begun, Popped
<1>3. KindMatch(r, y, T) BY DEF KindMatch, Popped
<1>4. BatchSound(r.out, y, T) BY DEF Popped
<1> QED BY <1>1, <1>2, <1>3, <1>4, SoundAgain

\* handleWorkerMessage.
LEMMA MessageSound ==
  ASSUME Sound(w, mt), HandleWorkerMessage
  PROVE  Sound(w', mt')
<1> DEFINE s == w
           r == [w EXCEPT !.out = Tail(@)]
           x == mt
           e == Head(w.out)
           q == w.out
           f == FlushPendingInits(mt)
<1>1. /\ WorkerSound(s) /\ Fine(s, x) /\ (Begun(s, x) \/ Untouched(x)) /\ ~x.late
      /\ s.out \in Seq(Event) /\ DOMAIN s = WorkerFields /\ x.gen \in Nat
  BY SoundParts
<1>2. PICK T \in {{"video"}, BothTracks} :
        T \in SUBSET MseTracks /\ KindMatch(s, x, T) /\ BatchSound(s.out, x, T) /\ BuffersSound(x, T)
  BY SoundParts
<1>3. w.out # << >> /\ w' = r BY DEF HandleWorkerMessage
<1>4. Popped(s, r) BY <1>1 DEF Popped, WorkerFields
<1>5. e \in Event /\ e = Head(q) /\ q \in Seq(Event) /\ q # << >> /\ EventSound(s, e)
  <2>1. Head(q) = q[1] /\ 1 \in 1 .. Len(q) /\ Head(q) \in Event
    BY <1>1, <1>3, TailFacts
  <2>2. EventSound(s, q[1]) BY <2>1, <1>1 DEF WorkerSound, EventsSound
  <2> QED BY <2>1, <2>2, <1>1, <1>3
<1>6. e.type \in {"media-info", "media-segment", "hls-info", "error", "init-segment", "complete", "pcm-audio-data"}
  BY <1>5 DEF Event
<1>7. e.gen # x.gen => mt' = x BY DEF HandleWorkerMessage
<1>8. e.gen = x.gen => /\ e.type = "init-segment" => mt' = [x EXCEPT !.inits = Append(@, e)]
                       /\ e.type = "media-info" => mt' = x
                       /\ e.type = "media-segment" => mt' = AppendMedia(f, e)
                       /\ e.type = "error" => mt' = f
                       /\ e.type = "complete" => mt' = EndOfStream(f)
                       /\ e.type = "hls-info" => mt' = OnHlsInfo(f)
                       /\ e.type = "pcm-audio-data" => mt' = [f EXCEPT !.pcm = @ \cup {[gen |-> f.gen, of |-> e.of]}]
  BY DEF HandleWorkerMessage, FlushesInits
<1> HIDE DEF s, r, x, e, f
<1>9. CASE e.gen # x.gen
  <2>1. e \notin MediaEvents(x.gen) BY <1>9 DEF MediaEvents
  <2>2. Fine(r, x) /\ WorkerSound(r)
    BY <2>1, <1>1, <1>4, <1>5, PoppedFine, PoppedSound DEF s
  <2>3. ~InfoOf(Head(q), x.gen) /\ \A t : ~InitOf(Head(q), x.gen, t)
    BY <1>5, <1>9 DEF InfoOf, InitOf
  <2>4. BatchSound(Tail(q), x, T) BY <2>3, <1>2, <1>5, OtherTaken DEF s
  <2>5. KindMatch(r, x, T) /\ BatchSound(r.out, x, T) /\ (Begun(r, x) \/ Untouched(x))
    BY <2>4, <1>1, <1>2, <1>4 DEF KindMatch, Popped, Begun, s
  <2>6. Sound(r, x) BY <2>2, <2>5, <1>1, <1>2, SoundAgain
  <2> QED BY <2>6, <1>3, <1>7, <1>9
<1>10. CASE e.gen = x.gen
  <2>1. Begun(s, x) /\ x.gen >= 1 BY <1>5, <1>10, EventBegun DEF s, x
  <2>2. CASE e.type = "init-segment"
    <3>1. e.track # "none" BY <2>2, <1>5 DEF EventSound
    <3>2. Fine(r, x)
      <4>1. e \notin MediaEvents(x.gen) BY <2>2 DEF MediaEvents
      <4> QED BY <4>1, <1>1, <1>4, <1>5, PoppedFine DEF s
    <3> DEFINE y == [x EXCEPT !.inits = Append(@, e)]
    <3>4. mt' = y /\ Joins(x, e, y) BY <1>8, <1>10, <2>2 DEF Joins
    <3> HIDE DEF y
    <3>3. /\ Fine(r, y) /\ y.gen = x.gen /\ y.late = x.late /\ y.inits = Append(x.inits, e)
          /\ \A U : BuffersSound(x, U) => BuffersSound(y, U)
      BY <3>1, <3>2, <3>4, <1>5, InitFine
    <3>5. x.inits \in Seq(Event) BY <1>1 DEF Fine, Lean, MainTyped
    <3>6. BatchSound(Tail(q), y, T)
      BY <3>1, <3>3, <3>5, <2>2, <1>2, <1>5, <1>10, InitTaken DEF s
    <3>7. Sound(r, y)
      BY <3>3, <3>6, <2>1, <1>1, <1>2, <1>4, <1>5, AfterEvent DEF s
    <3> QED BY <3>4, <3>7, <1>3
  <2>3. CASE e.type = "media-info"
    <3>1. Fine(r, x)
      <4>1. e \notin MediaEvents(x.gen) BY <2>3 DEF MediaEvents
      <4> QED BY <4>1, <1>1, <1>4, <1>5, PoppedFine DEF s
    <3>2. InfoOf(Head(q), x.gen) BY <2>3, <1>5, <1>10 DEF InfoOf
    <3>3. BatchSound(Tail(q), x, T) BY <3>2, <1>2, <1>5, InfoTaken DEF s
    <3>4. Sound(r, x)
      BY <3>1, <3>3, <2>1, <1>1, <1>2, <1>4, <1>5, AfterEvent DEF s
    <3>5. mt' = x BY <1>8, <1>10, <2>3
    <3> QED BY <3>4, <3>5, <1>3
  <2>4. CASE e.type \notin {"init-segment", "media-info"}
    <3>1. ~InfoOf(Head(q), x.gen) /\ \A t : ~InitOf(Head(q), x.gen, t)
      BY <1>5, <2>4 DEF InfoOf, InitOf
    <3>2. /\ BatchSound(Tail(q), x, T)
          /\ \A y : y.gen = x.gen /\ y.inits = << >> => BatchSound(Tail(q), y, T)
      BY <3>1, <1>2, <1>5, OtherTaken DEF s
    <3>3. MainTyped(x) /\ QueuesSound(x) BY <1>1 DEF Fine, Lean
    <3>4. /\ \A i \in 1 .. Len(x.inits) : x.inits[i].track \in T
          /\ x.inits # << >> => \A t \in T : Batched(x, t)
      BY <3>1, <3>3, <1>2, <1>5, BatchTracks DEF s
    <3>5. Fine(s, f) /\ f.gen = x.gen /\ f.inits = << >> /\ f.late = x.late /\ BuffersSound(f, T)
      BY <3>4, <1>1, <1>2, FlushSound DEF f, x
    <3>6. Begun(s, f) /\ f.gen >= 1 /\ e.gen = f.gen BY <3>5, <2>1, <1>10 DEF Begun
    <3> DEFINE y == mt'
    <3>7. \/ e.type = "media-segment" /\ y = AppendMedia(f, e)
          \/ e.type = "error" /\ y = f
          \/ e.type = "complete" /\ y = EndOfStream(f)
          \/ e.type = "hls-info" /\ y = OnHlsInfo(f)
          \/ e.type = "pcm-audio-data" /\ y = [f EXCEPT !.pcm = @ \cup {[gen |-> f.gen, of |-> e.of]}]
      BY <1>6, <1>8, <1>10, <2>4
    <3> HIDE DEF y
    <3>8. Fine(r, y) /\ Progress(f, y)
      BY <3>5, <3>6, <3>7, <1>1, <1>4, <1>5, FlushedEvent DEF s
    <3>9. y.gen = x.gen /\ y.inits = << >> /\ y.late = x.late /\ BuffersSound(y, T)
      BY <3>5, <3>8, <1>2 DEF Progress
    <3>10. BatchSound(Tail(q), y, T) BY <3>2, <3>9
    <3>11. Sound(r, y)
      BY <3>8, <3>9, <3>10, <2>1, <1>1, <1>2, <1>4, <1>5, AfterEvent DEF s
    <3> QED BY <3>11, <1>3 DEF y
  <2> QED BY <2>2, <2>3, <2>4
<1> QED BY <1>9, <1>10

----------------------------------------------------------------------------
(* The main thread: another stream                                         *)

\* y waits for a stream of its own after the one of x.
Waits(x, y) ==
  /\ DOMAIN y = MainFields
  /\ y.gen = x.gen + 1 /\ y.inits = << >> /\ y.throttle = FALSE /\ y.wm = FALSE /\ y.bf = FALSE
  /\ y.disabled = {} /\ y.sb = [t \in MseTracks |-> "none"] /\ y.pend = [t \in MseTracks |-> << >>]
  /\ y.early = {} /\ y.parsed = FALSE /\ y.late = FALSE /\ y.app = << >> /\ y.ahead = 0
  /\ y.pcm = x.pcm /\ y.fed = {}

LEMMA WaitsSound ==
  ASSUME NEW s, NEW x, Sound(s, x), x.gen < MaxLoads, NEW y, Waits(x, y), y.cmds \in Seq(Command), y.wInit \in BOOLEAN,
         y.segs \in StreamKinds \cup {"none"}, y.ms \in {"none", "closed"}, StateSound(y), ChannelSound(s, y)
  PROVE  Sound(s, y)
<1>1. /\ WorkerSound(s) /\ Fine(s, x) /\ s.gen \in Nat /\ x.gen \in Nat /\ s.gen <= x.gen /\ s.out \in Seq(Event)
  BY SoundParts
<1>2. /\ DOMAIN y = MainFields
      /\ y.gen = x.gen + 1 /\ y.inits = << >> /\ y.throttle = FALSE /\ y.wm = FALSE /\ y.bf = FALSE
      /\ y.disabled = {} /\ y.sb = [t \in MseTracks |-> "none"] /\ y.pend = [t \in MseTracks |-> << >>]
      /\ y.early = {} /\ y.parsed = FALSE /\ y.late = FALSE /\ y.app = << >> /\ y.ahead = 0
      /\ y.pcm = x.pcm /\ y.fed = {}
  BY DEF Waits
<1>3. y.gen \in Nat /\ s.gen < y.gen /\ y.gen \in Loads
  <2>1. MaxLoads \in Nat BY ControllerAssumption
  <2> QED BY <2>1, <1>1, <1>2 DEF Loads
<1>4. Untouched(y) BY <1>2 DEF Untouched, MseTracks
<1>5. MainTyped(y)
  <2>1. /\ y.sb \in [MseTracks -> {"none", "idle", "init", "media", "remove"}]
        /\ y.pend \in [MseTracks -> Seq(Entry)]
    BY <1>2
  <2>2. y.app \in Seq([of : Loads, n : Nat]) /\ y.inits \in Seq(Event)
    BY <1>2
  <2>3. y.ahead \in 0 .. Cap BY <1>2, ControllerAssumption
  <2> QED BY <2>1, <2>2, <2>3, <1>2, <1>3 DEF MainTyped
<1>6. QueuesSound(y)
  <2>1. \A p \in x.pcm : p.of = p.gen BY <1>1 DEF Fine, Lean, QueuesSound
  <2>2. 1 .. Len(<< >>) = {}
    OBVIOUS
  <2> QED BY <2>1, <2>2, <1>2 DEF QueuesSound
<1>7. FlagsSound(s, y) /\ FlowSound(y) BY DEF FlagsSound, FlowSound
<1>8. Before(s.out, y.gen)
  <2> SUFFICES ASSUME NEW i \in 1 .. Len(s.out)
               PROVE  s.out[i] \in Event /\ s.out[i].gen < y.gen
    BY DEF Before
  <2> DEFINE e == s.out[i]
  <2>1. e \in Event /\ EventSound(s, e) BY <1>1 DEF WorkerSound, EventsSound
  <2> HIDE DEF e
  <2>2. e.gen \in Nat /\ e.gen <= s.gen BY <2>1, EventNatural DEF EventSound
  <2>3. e.gen < y.gen BY <2>2, <1>1, <1>3
  <2> QED BY <2>1, <2>3 DEF e
<1>9. SegmentsSent(s, y) = 0 /\ KindMatch(s, y, BothTracks)
  BY <1>1, <1>3 DEF SegmentsSent, Begun, KindMatch
<1>10. NumbersSound(s, y) /\ BatchSound(s.out, y, BothTracks) /\ BuffersSound(y, BothTracks)
  <2>1. y.gen <= y.gen BY <1>3
  <2> QED BY <2>1, <1>1, <1>3, <1>4, <1>8, <1>9, NothingYet
<1>11. Fine(s, y) BY <1>5, <1>6, <1>7, <1>10 DEF Fine, Lean
<1> QED BY <1>1, <1>2, <1>4, <1>9, <1>10, <1>11, SoundAgain

LEMMA CommandLoads ==
  ASSUME NEW q \in Seq(Command)
  PROVE  \A i \in 1 .. Len(q) : q[i].load \in Nat
<1>1. \A c \in Command : c.load \in Nat
  <2> SUFFICES ASSUME NEW c \in Command
               PROVE  c.load \in Nat
    OBVIOUS
  <2>1. c.load \in Loads BY DEF Command
  <2> QED BY <2>1, LoadsNatural
<1>2. \A i \in 1 .. Len(q) : q[i] \in Command
  OBVIOUS
<1> QED BY <1>1, <1>2

\* Another command under way.
LEMMA LoadsAppend ==
  ASSUME NEW g \in Nat, NEW q \in Seq(Command), NEW b \in Int, LoadsRise(g, q, b), KindsKnown(q),
         NEW d \in Command, d.c \in {"init", "load"} => d.kind # "none", NEW m \in Int, b <= m,
         Dated(d) => g < d.load /\ b < d.load /\ d.load <= m
  PROVE  LoadsRise(g, Append(q, d), m) /\ KindsKnown(Append(q, d)) /\ Append(q, d) \in Seq(Command)
<1> DEFINE r == Append(q, d)
<1>1. /\ Len(q) \in Nat /\ Len(r) = Len(q) + 1 /\ r[Len(q) + 1] = d /\ \A i \in 1 .. Len(q) : r[i] = q[i]
      /\ r \in Seq(Command)
  OBVIOUS
<1> HIDE DEF r
<1>2. \A i \in 1 .. Len(q) : q[i].load \in Nat BY CommandLoads
<1>3. \A i \in 1 .. Len(r) : i \in 1 .. Len(q) \/ i = Len(q) + 1
  BY <1>1
<1>4. \A i \in 1 .. Len(q) : Dated(q[i]) => g < q[i].load /\ q[i].load <= b
  BY DEF LoadsRise
<1>5. ASSUME NEW i \in 1 .. Len(r), Dated(r[i])
      PROVE  g < r[i].load /\ r[i].load <= m
  <2>1. CASE i \in 1 .. Len(q)
    <3>1. r[i] = q[i] /\ q[i].load \in Nat /\ g < q[i].load /\ q[i].load <= b
      BY <2>1, <1>1, <1>2, <1>4, <1>5
    <3> QED BY <3>1
  <2>2. CASE i = Len(q) + 1 BY <2>2, <1>1, <1>5
  <2> QED BY <2>1, <2>2, <1>3
<1>6. ASSUME NEW i \in 1 .. Len(r), NEW j \in 1 .. Len(r), i < j, Dated(r[i]), Dated(r[j])
      PROVE  r[i].load < r[j].load
  <2>1. i \in 1 .. Len(q) BY <1>1, <1>6
  <2>2. r[i] = q[i] /\ q[i].load \in Nat /\ q[i].load <= b BY <2>1, <1>1, <1>2, <1>4, <1>6
  <2>3. CASE j \in 1 .. Len(q) BY <2>1, <2>3, <1>1, <1>6 DEF LoadsRise
  <2>4. CASE j = Len(q) + 1
    <3>1. d.load \in Loads BY DEF Command
    <3>2. d.load \in Nat /\ b < d.load BY <3>1, <2>4, <1>1, <1>6, LoadsNatural
    <3> QED BY <3>2, <2>2, <2>4, <1>1
  <2> QED BY <2>3, <2>4, <1>3
<1>7. KindsKnown(r) BY <1>1, <1>3 DEF KindsKnown
<1>8. LoadsRise(g, r, m) BY <1>5, <1>6 DEF LoadsRise
<1> QED BY <1>1, <1>7, <1>8 DEF r

\* loadSegments
LEMMA LoadSegmentsSound ==
  ASSUME Sound(w, mt), NEW kind \in Kinds, LoadSegments(kind)
  PROVE  Sound(w', mt')
<1> DEFINE y == [ResetFetchBackpressure(DestroyMSE(mt)) EXCEPT
                   !.gen = @ + 1, !.inits = << >>, !.segs = kind, !.ms = "closed"]
<1>1. mt.gen < MaxLoads /\ mt' = y /\ w' = w BY DEF LoadSegments
<1>2. /\ WorkerSound(w) /\ Fine(w, mt) /\ w.gen \in Nat /\ mt.gen \in Nat /\ w.gen <= mt.gen /\ DOMAIN mt = MainFields
  BY SoundParts
<1>3. MainTyped(mt) /\ ChannelSound(w, mt) BY <1>2 DEF Fine, Lean
<1>4. Waits(mt, y) /\ y.cmds = mt.cmds /\ y.wInit = mt.wInit /\ y.segs = kind /\ y.ms = "closed"
  BY <1>2, ZenonT(60) DEF Waits, ResetFetchBackpressure, DestroyMSE, MainFields
<1> HIDE DEF y
<1>5. kind \in StreamKinds /\ kind # "none" BY ControllerAssumption DEF StreamKinds
<1>6. y.gen = mt.gen + 1 /\ y.wm = FALSE /\ y.bf = FALSE /\ y.throttle = FALSE
  BY <1>4 DEF Waits
<1>7. StateSound(y) BY <1>2, <1>4, <1>5, <1>6 DEF StateSound
<1>8. ChannelSound(w, y)
  <2>1. LastLoad(y) = mt.gen /\ LastLoad(mt) <= mt.gen /\ LastLoad(mt) \in Int
    BY <1>2, <1>4, <1>5, <1>6 DEF LastLoad
  <2>2. LoadsRise(w.gen, mt.cmds, LastLoad(y))
    <3>1. LoadsRise(w.gen, mt.cmds, LastLoad(mt)) /\ mt.cmds \in Seq(Command)
      BY <1>3 DEF ChannelSound, MainTyped
    <3>2. \A i \in 1 .. Len(mt.cmds) : mt.cmds[i].load \in Nat
      BY <3>1, CommandLoads
    <3> QED BY <3>1, <3>2, <2>1, <1>2 DEF LoadsRise
  <2> QED BY <2>2, <1>2, <1>3, <1>4, <1>6 DEF ChannelSound
<1>9. y.cmds \in Seq(Command) /\ y.wInit \in BOOLEAN /\ y.segs \in StreamKinds \cup {"none"} /\ y.ms \in {"none", "closed"}
  BY <1>3, <1>4, <1>5 DEF MainTyped
<1> QED BY <1>1, <1>4, <1>7, <1>8, <1>9, WaitsSound

\* suspend
LEMMA SuspendSound ==
  ASSUME Sound(w, mt), Suspend
  PROVE  Sound(w', mt')
<1> DEFINE x == [ResetFetchBackpressure(DestroyMSE(mt)) EXCEPT
                   !.gen = @ + 1, !.inits = << >>, !.segs = "none", !.wInit = FALSE]
           d == [c |-> "reset", load |-> mt.gen + 1, kind |-> "none"]
           y == Send(x, "reset")
           r == mt.cmds
           q == Append(r, d)
<1>1. mt.gen < MaxLoads /\ mt.ms # "none" /\ mt' = y /\ w' = w
  BY DEF Suspend
<1>2. /\ WorkerSound(w) /\ Fine(w, mt) /\ w.gen \in Nat /\ mt.gen \in Nat /\ w.gen <= mt.gen /\ DOMAIN mt = MainFields
  BY SoundParts
<1>3. MainTyped(mt) /\ ChannelSound(w, mt) BY <1>2 DEF Fine, Lean
<1>4. /\ DOMAIN x = MainFields /\ Waits(mt, x) /\ x.cmds = r /\ x.wInit = FALSE /\ x.segs = "none" /\ x.ms = "none"
      /\ x.gen = mt.gen + 1
  BY <1>2, ZenonT(60) DEF Waits, ResetFetchBackpressure, DestroyMSE, MainFields
<1> HIDE DEF x
<1>5. /\ Waits(mt, y) /\ y.cmds = q /\ y.wInit = FALSE /\ y.segs = "none" /\ y.ms = "none"
  BY <1>4 DEF Send, Waits, MainFields
<1> HIDE DEF y
<1>6. y.gen = mt.gen + 1 /\ y.gen \in Nat /\ y.wm = FALSE /\ y.bf = FALSE /\ y.throttle = FALSE
  BY <1>2, <1>5 DEF Waits
<1>7. StateSound(y) BY <1>5, <1>6 DEF StateSound
<1>8. d \in Command /\ d.c = "reset" /\ d.load = y.gen
  <2>1. mt.gen + 1 \in Loads
    <3>1. MaxLoads \in Nat BY ControllerAssumption
    <3> QED BY <3>1, <1>1, <1>2 DEF Loads
  <2> QED BY <2>1, <1>6 DEF Command
<1>9. r \in Seq(Command) BY <1>3 DEF MainTyped
<1>11. Obeys(w.pipe, q) /\ PipeEnd(w.pipe, q) = "none"
  <2>1. Obeys(w.pipe, r) /\ PipeEnd(w.pipe, r) \in {"on", "none"}
    BY <1>3 DEF ChannelSound
  <2>2. d.c \in Allowed(PipeEnd(w.pipe, r)) /\ PipeAfter(d.c) = "none"
    BY <2>1 DEF Allowed, PipeAfter
  <2> HIDE DEF d, r
  <2> QED BY <2>1, <2>2, <1>8, <1>9, ObeysAppend
<1>12. LoadsRise(w.gen, q, y.gen) /\ KindsKnown(q) /\ q \in Seq(Command)
  <2>1. LastLoad(mt) < y.gen /\ LastLoad(mt) <= y.gen /\ LastLoad(mt) \in Int /\ y.gen <= y.gen /\ w.gen < y.gen
    BY <1>2, <1>6 DEF LastLoad
  <2>2. LoadsRise(w.gen, r, LastLoad(mt)) /\ KindsKnown(r) BY <1>3 DEF ChannelSound
  <2> HIDE DEF d, r
  <2> QED BY <2>1, <2>2, <1>2, <1>6, <1>8, <1>9, LoadsAppend
<1> HIDE DEF q
<1>13. ChannelSound(w, y)
  BY <1>2, <1>5, <1>6, <1>11, <1>12 DEF ChannelSound, LastLoad
<1>14. y.cmds \in Seq(Command) /\ y.wInit \in BOOLEAN /\ y.segs \in StreamKinds \cup {"none"} /\ y.ms \in {"none", "closed"}
  BY <1>5, <1>12
<1> QED BY <1>1, <1>5, <1>7, <1>13, <1>14, WaitsSound

----------------------------------------------------------------------------
(* The main thread: the browser's events                                   *)

LEMMA ProgressSound ==
  ASSUME NEW s, NEW x, Sound(s, x), NEW y, Fine(s, y), Progress(x, y), Begun(s, x) \/ Untouched(y)
  PROVE  Sound(s, y)
<1>1. WorkerSound(s) /\ ~x.late BY SoundParts
<1>2. PICK T \in {{"video"}, BothTracks} :
        T \in SUBSET MseTracks /\ KindMatch(s, x, T) /\ BatchSound(s.out, x, T) /\ BuffersSound(x, T)
  BY SoundParts
<1>3. y.gen = x.gen /\ y.inits = x.inits /\ y.late = x.late /\ BuffersSound(y, T)
  BY <1>2 DEF Progress
<1>4. KindMatch(s, y, T) /\ (Begun(s, y) \/ Untouched(y))
  BY <1>2, <1>3 DEF KindMatch, Begun
<1>5. BatchSound(s.out, y, T) BY <1>2, <1>3 DEF BatchSound, Batched, Paired
<1> QED BY <1>1, <1>2, <1>3, <1>4, <1>5, SoundAgain

\* updateend
LEMMA UpdateEndKept ==
  ASSUME Sound(w, mt), UpdateEnd
  PROVE  Sound(w', mt')
<1>1. PICK t \in MseTracks : mt.sb[t] \notin {"none", "idle"} /\ mt' = OnUpdateEnd(mt, t) /\ w' = w
  BY DEF UpdateEnd
<1>2. Fine(w, mt) /\ (Begun(w, mt) \/ Untouched(mt)) BY SoundParts
<1>3. Begun(w, mt) BY <1>1, <1>2 DEF Untouched
<1>4. Fine(w, mt') /\ Progress(mt, mt') BY <1>1, <1>2, UpdateEndSound
<1> QED BY <1>1, <1>3, <1>4, ProgressSound

\* timeupdate after the source closed
LEMMA TimeUpdateClosedSound ==
  ASSUME Sound(w, mt), TimeUpdateClosed
  PROVE  Sound(w', mt')
<1>1. mt' = UpdateFetchBackpressure(mt) /\ w' = w BY DEF TimeUpdateClosed
<1>2. Fine(w, mt) /\ (Begun(w, mt) \/ Untouched(mt)) BY SoundParts
<1>3. Fine(w, mt') /\ SameMedia(mt, mt') BY <1>1, <1>2, Backpressure DEF Fine
<1>4. Progress(mt, mt') /\ (Untouched(mt) => Untouched(mt'))
  BY <1>3, ShapeFacts, SameMediaSound
<1> QED BY <1>1, <1>2, <1>3, <1>4, ProgressSound

\* timeupdate: a segment is played.
LEMMA OnTimeUpdateSound ==
  ASSUME Sound(w, mt), OnTimeUpdate
  PROVE  Sound(w', mt')
<1> DEFINE x == mt
           a == [mt EXCEPT !.ahead = @ - 1, !.back = @ + 1]
<1>1. x.ahead > 0 /\ mt' = UpdateFetchBackpressure(a) /\ w' = w
  BY DEF OnTimeUpdate
<1>2. Fine(w, x) /\ (Begun(w, x) \/ Untouched(x)) /\ DOMAIN x = MainFields
  BY SoundParts
<1>3. /\ Lean(w, x) /\ QueuesSound(x) /\ NumbersSound(w, x) /\ x.ahead \in 0 .. Cap
      /\ x.pend \in [MseTracks -> Seq(Entry)] /\ x.app \in Seq([of : Loads, n : Nat])
      /\ x.sb \in [MseTracks -> {"none", "idle", "init", "media", "remove"}]
  BY <1>2 DEF Fine, Lean, MainTyped
<1>4. /\ DOMAIN a = MainFields
      /\ a.gen = x.gen /\ a.cmds = x.cmds /\ a.wInit = x.wInit /\ a.segs = x.segs /\ a.inits = x.inits
      /\ a.throttle = x.throttle /\ a.wm = x.wm /\ a.bf = x.bf /\ a.ms = x.ms
      /\ a.managed = x.managed /\ a.refuses = x.refuses /\ a.streaming = x.streaming
      /\ a.parsed = x.parsed /\ a.late = x.late /\ a.app = x.app
      /\ a.ahead = x.ahead - 1 /\ a.pcm = x.pcm /\ a.fed = x.fed /\ a.sb = x.sb
      /\ a.disabled = x.disabled /\ a.early = x.early /\ a.pend = x.pend
  BY <1>2 DEF MainFields
<1> HIDE DEF x, a
<1>5. SameControl(x, a) /\ SameShape(x, a) BY <1>4 DEF SameControl, SameShape
<1>6. QueuesSound(a) BY <1>3, <1>4 DEF QueuesSound
<1>7. NumbersSound(w, a)
  BY <1>3, <1>4 DEF NumbersSound, SegmentsSent, Begun
<1>8. a.ahead \in 0 .. Cap BY <1>1, <1>3, <1>4, ControllerAssumption
<1>9. Lean(w, a)
  BY <1>3, <1>4, <1>5, <1>6, <1>7, <1>8, ControlKept
<1> DEFINE y == mt'
<1>10. Fine(w, y) /\ SameMedia(a, y) BY <1>1, <1>9, Backpressure
<1> HIDE DEF y
<1>11. Progress(x, y) BY <1>5, <1>10, ShapeFacts
<1>12. Untouched(x) => Untouched(y)
  <2>1. Untouched(x) => Untouched(a) BY <1>4 DEF Untouched
  <2> QED BY <2>1, <1>10, SameMediaSound
<1>13. Sound(w, y)
  BY <1>2, <1>10, <1>11, <1>12, ProgressSound DEF x
<1> QED BY <1>1, <1>13 DEF y

\* The PCM player is ready.
LEMMA FeedPcmSound ==
  ASSUME Sound(w, mt), FeedPcm
  PROVE  Sound(w', mt')
<1>1. PICK p \in mt.pcm :
        mt' = [mt EXCEPT !.pcm = @ \ {p}, !.fed = IF p.gen = mt.gen THEN @ \cup {p.of} ELSE @] /\ w' = w
  BY DEF FeedPcm
<1> DEFINE x == mt
           f == IF p.gen = mt.gen THEN mt.fed \cup {p.of} ELSE mt.fed
           y == mt'
<1>2. Fine(w, x) /\ (Begun(w, x) \/ Untouched(x)) /\ DOMAIN x = MainFields
  BY SoundParts
<1>3. /\ Lean(w, x) /\ FlowSound(x) /\ QueuesSound(x) /\ NumbersSound(w, x) /\ x.ahead \in 0 .. Cap
      /\ x.pend \in [MseTracks -> Seq(Entry)] /\ x.app \in Seq([of : Loads, n : Nat])
      /\ x.sb \in [MseTracks -> {"none", "idle", "init", "media", "remove"}]
  BY <1>2 DEF Fine, Lean, MainTyped
<1>4. /\ DOMAIN y = MainFields
      /\ y.gen = x.gen /\ y.cmds = x.cmds /\ y.wInit = x.wInit /\ y.segs = x.segs /\ y.inits = x.inits
      /\ y.throttle = x.throttle /\ y.wm = x.wm /\ y.bf = x.bf /\ y.ms = x.ms
      /\ y.managed = x.managed /\ y.refuses = x.refuses /\ y.streaming = x.streaming
      /\ y.parsed = x.parsed /\ y.late = x.late /\ y.app = x.app
      /\ y.ahead = x.ahead /\ y.pcm = x.pcm \ {p} /\ y.fed = f /\ y.sb = x.sb
      /\ y.disabled = x.disabled /\ y.early = x.early /\ y.pend = x.pend
  BY <1>1, <1>2 DEF MainFields
<1>5. f \subseteq {x.gen} /\ \A b \in x.pcm \ {p} : b.of = b.gen
  BY <1>3 DEF QueuesSound
<1> HIDE DEF x, y, f
<1>6. SameControl(x, y) /\ SameShape(x, y) BY <1>4 DEF SameControl, SameShape
<1>7. QueuesSound(y) BY <1>3, <1>4, <1>5 DEF QueuesSound
<1>8. NumbersSound(w, y)
  BY <1>3, <1>4 DEF NumbersSound, SegmentsSent, Begun
<1>9. y.ahead >= x.ahead /\ y.ahead \in 0 .. Cap BY <1>3, <1>4, ControllerAssumption
<1>10. Fine(w, y)
  BY <1>3, <1>4, <1>6, <1>7, <1>8, <1>9, ControlKept
<1>11. Progress(x, y) /\ (Untouched(x) => Untouched(y))
  <2>1. Progress(x, y) BY <1>6, ShapeFacts
  <2>2. Untouched(x) => Untouched(y) BY <1>4 DEF Untouched
  <2> QED BY <2>1, <2>2
<1>12. Sound(w, y) BY <1>2, <1>10, <1>11, ProgressSound DEF x
<1> QED BY <1>1, <1>12 DEF y

\* endstreaming: what comes from now on is deferred.
LEMMA EndStreamingSound ==
  ASSUME Sound(w, mt), EndStreaming
  PROVE  Sound(w', mt')
<1> DEFINE x == mt
           y == mt'
<1>1. mt.managed /\ mt.streaming /\ mt.ms = "open" /\ mt' = [mt EXCEPT !.streaming = FALSE] /\ w' = w
  BY DEF EndStreaming
<1>2. Fine(w, x) /\ (Begun(w, x) \/ Untouched(x)) /\ DOMAIN x = MainFields
  BY SoundParts
<1>3. /\ Lean(w, x) /\ FlowSound(x) /\ QueuesSound(x) /\ NumbersSound(w, x) /\ x.ahead \in 0 .. Cap
      /\ x.pend \in [MseTracks -> Seq(Entry)] /\ x.app \in Seq([of : Loads, n : Nat])
      /\ x.sb \in [MseTracks -> {"none", "idle", "init", "media", "remove"}]
  BY <1>2 DEF Fine, Lean, MainTyped
<1>4. /\ DOMAIN y = MainFields
      /\ y.gen = x.gen /\ y.cmds = x.cmds /\ y.wInit = x.wInit /\ y.segs = x.segs /\ y.inits = x.inits
      /\ y.throttle = x.throttle /\ y.wm = x.wm /\ y.bf = x.bf /\ y.ms = x.ms
      /\ y.managed = x.managed /\ y.refuses = x.refuses /\ y.streaming = FALSE
      /\ y.parsed = x.parsed /\ y.late = x.late /\ y.app = x.app
      /\ y.ahead = x.ahead /\ y.pcm = x.pcm /\ y.fed = x.fed /\ y.sb = x.sb
      /\ y.disabled = x.disabled /\ y.early = x.early /\ y.pend = x.pend
  BY <1>1, <1>2 DEF MainFields
<1>5. CanAppend(x) /\ x.ms = "open" BY <1>1 DEF CanAppend
<1> HIDE DEF x, y
<1>6. SameControl(x, y) BY <1>4 DEF SameControl
<1>7. QueuesSound(y) BY <1>3, <1>4 DEF QueuesSound
<1>8. NumbersSound(w, y)
  BY <1>3, <1>4 DEF NumbersSound, SegmentsSent, Begun
<1>9. y.ahead >= x.ahead /\ y.ahead \in 0 .. Cap BY <1>3, <1>4, ControllerAssumption
<1>10. Fine(w, y)
  BY <1>3, <1>4, <1>6, <1>7, <1>8, <1>9, ControlKept
<1>11. Progress(x, y)
  <2>1. \A T : BuffersSound(x, T) => BuffersSound(y, T)
    BY <1>4, <1>5 DEF BuffersSound, Created
  <2> QED BY <2>1, <1>4 DEF Progress
<1>12. Untouched(x) => Untouched(y) BY <1>4 DEF Untouched
<1>13. Sound(w, y)
  BY <1>2, <1>10, <1>11, <1>12, ProgressSound DEF x
<1> QED BY <1>1, <1>13 DEF y

\* sourceclose
LEMMA SourceCloseSound ==
  ASSUME Sound(w, mt), SourceClose
  PROVE  Sound(w', mt')
<1> DEFINE x == mt
           a == [mt EXCEPT !.ms = "dead", !.sb = [t \in MseTracks |-> "none"], !.ahead = 0, !.back = 0]
           y == mt'
           q == Append(mt.cmds, [c |-> "pause", load |-> mt.gen, kind |-> mt.segs])
<1>1. mt.ms \in {"open", "ended"} /\ mt' = Send(a, "pause") /\ w' = w
  BY DEF SourceClose
<1>2. Fine(w, x) /\ (Begun(w, x) \/ Untouched(x)) /\ DOMAIN x = MainFields
  BY SoundParts
<1>3. /\ MainTyped(x) /\ StateSound(x) /\ ChannelSound(w, x) /\ QueuesSound(x) /\ NumbersSound(w, x)
  BY <1>2 DEF Fine, Lean
<1>4. /\ DOMAIN y = MainFields
      /\ y.gen = x.gen /\ y.cmds = q /\ y.wInit = x.wInit /\ y.segs = x.segs /\ y.inits = x.inits
      /\ y.throttle = x.throttle /\ y.wm = x.wm /\ y.bf = x.bf /\ y.ms = "dead"
      /\ y.parsed = x.parsed /\ y.late = x.late /\ y.app = x.app /\ y.refuses = x.refuses
      /\ y.ahead = 0 /\ y.pcm = x.pcm /\ y.fed = x.fed /\ y.sb = [t \in MseTracks |-> "none"]
      /\ y.disabled = x.disabled /\ y.early = x.early /\ y.pend = x.pend
  BY <1>1, <1>2 DEF Send, MainFields
<1>5. x.wInit /\ x.segs = "none" /\ x.ms \in {"open", "ended"}
  BY <1>1, <1>3 DEF StateSound
<1>6. Tells(x, "pause", y) BY <1>4 DEF Tells
<1> HIDE DEF x, y, q
<1>7. q \in Seq(Command) /\ ChannelSound(w, y) BY <1>3, <1>4, <1>5, <1>6, Told
<1>8. MainTyped(y)
  <2>1. y.sb \in [MseTracks -> {"none", "idle", "init", "media", "remove"}] /\ y.ahead \in 0 .. Cap
    BY <1>4, ControllerAssumption
  <2> QED BY <2>1, <1>3, <1>4, <1>7 DEF MainTyped
<1>9. StateSound(y) BY <1>4, <1>5 DEF StateSound
<1>10. QueuesSound(y) BY <1>3, <1>4 DEF QueuesSound
<1>11. NumbersSound(w, y)
  BY <1>3, <1>4 DEF NumbersSound, SegmentsSent, Begun
<1>12. FlagsSound(w, y) /\ FlowSound(y) BY <1>4 DEF FlagsSound, FlowSound
<1>13. Fine(w, y)
  BY <1>7, <1>8, <1>9, <1>10, <1>11, <1>12 DEF Fine, Lean
<1>14. Progress(x, y) BY <1>4 DEF Progress, BuffersSound
<1>15. Untouched(x) => Untouched(y) BY <1>4 DEF Untouched
<1>16. Sound(w, y)
  BY <1>2, <1>13, <1>14, <1>15, ProgressSound DEF x
<1> QED BY <1>1, <1>16 DEF y

----------------------------------------------------------------------------
(* The main thread: sourceopen and startstreaming                          *)

\* Where nothing has come, there is nothing to create and to append.
LEMMA NothingDeferred ==
  ASSUME NEW x, DOMAIN x = MainFields, Untouched(x), NEW z, z = TryAppendPending(FlushPendingSourceBufferInit(x))
  PROVE  SameMain(x, z) /\ z.cmds = x.cmds
<1> DEFINE f == FlushPendingSourceBufferInit(x)
<1>1. f = x \/ f = [x EXCEPT !.early = {}]
  BY DEF FlushPendingSourceBufferInit, CreateEarly, Untouched
<1>2. SameMain(x, f) /\ f.cmds = x.cmds
  <2>1. x.early = {} BY DEF Untouched
  <2> HIDE DEF f
  <2>2. CASE f = x BY <2>2 DEF SameMain, SameMedia
  <2>3. CASE f = [x EXCEPT !.early = {}]
    BY <2>1, <2>3 DEF SameMain, SameMedia, MainFields
  <2> QED BY <1>1, <2>2, <2>3
<1>3. z = TryAppendPending(f)
  OBVIOUS
<1> HIDE DEF f
<1>4. \A t \in MseTracks : f.sb[t] = "none" BY <1>2 DEF SameMain, SameMedia, Untouched
<1>5. TryAppendPending(f) = f
  <2>1. f.sb["video"] # "idle" /\ f.sb["audio"] # "idle" BY <1>4 DEF MseTracks
  <2>2. DoRemoveRanges(f) = f BY <2>1 DEF DoRemoveRanges
  <2>3. AppendEntry(f, "video") = f /\ AppendEntry(f, "audio") = f
    BY <2>1 DEF AppendEntry
  <2>4. DoAppendSegments(f) = f BY <2>3 DEF DoAppendSegments
  <2> QED BY <2>2, <2>4 DEF TryAppendPending
<1> QED BY <1>2, <1>3, <1>5

\* The worker is told the stream that waits.
LEMMA StreamTold ==
  ASSUME NEW s, s.gen \in Nat, s.pipe \in {"none", "made", "on"}, NEW x, MainTyped(x), ChannelSound(s, x),
         x.segs # "none", x.gen \in Nat, s.gen < x.gen,
         NEW q, q = IF x.wInit THEN Append(x.cmds, [c |-> "load", load |-> x.gen, kind |-> x.segs])
                    ELSE Append(Append(x.cmds, [c |-> "init", load |-> x.gen, kind |-> x.segs]),
                                [c |-> "start", load |-> x.gen, kind |-> x.segs])
  PROVE  /\ q \in Seq(Command) /\ Obeys(s.pipe, q) /\ PipeEnd(s.pipe, q) = "on"
         /\ LoadsRise(s.gen, q, x.gen) /\ KindsKnown(q) /\ \A p : ~PausedEnd(p, q)
<1> DEFINE r == x.cmds
           C(c) == [c |-> c, load |-> x.gen, kind |-> x.segs]
           a == C("init")
           l == C("load")
           b == C("start")
           h == Append(r, a)
<1>1. /\ r \in Seq(Command) /\ Obeys(s.pipe, r) /\ PipeEnd(s.pipe, r) = (IF x.wInit THEN "on" ELSE "none")
      /\ LoadsRise(s.gen, r, x.gen - 1) /\ KindsKnown(r) /\ x.gen \in Loads /\ x.segs \in StreamKinds
      /\ x.wInit \in BOOLEAN
  BY DEF ChannelSound, MainTyped, LastLoad
<1>2. \A c \in {"init", "load", "start"} : C(c) \in Command /\ C(c).c = c /\ C(c).load = x.gen /\ C(c).kind = x.segs
  BY <1>1 DEF Command
<1>3. /\ a \in Command /\ a.c = "init" /\ a.load = x.gen /\ a.kind # "none"
      /\ l \in Command /\ l.c = "load" /\ l.load = x.gen /\ l.kind # "none"
      /\ b \in Command /\ b.c = "start"
  BY <1>2
<1>4. q = IF x.wInit THEN Append(r, l) ELSE Append(h, b)
  OBVIOUS
<1> HIDE DEF r, C, a, l, b
<1>5. x.gen - 1 \in Int /\ x.gen - 1 < x.gen /\ x.gen - 1 <= x.gen /\ x.gen <= x.gen /\ x.gen \in Int
  OBVIOUS
<1>6. \A u \in Seq(Command), d \in Command : Append(u, d) # << >> /\ Append(u, d)[Len(Append(u, d))] = d
  BY SMTT(40)
<1>7. CASE x.wInit
  <2>1. l.c \in Allowed(PipeEnd(s.pipe, r)) /\ PipeAfter(l.c) = "on"
    BY <1>1, <1>3, <1>7 DEF Allowed, PipeAfter
  <2>2. Obeys(s.pipe, Append(r, l)) /\ PipeEnd(s.pipe, Append(r, l)) = "on"
    BY <2>1, <1>1, <1>3, ObeysAppend
  <2>3. LoadsRise(s.gen, Append(r, l), x.gen) /\ KindsKnown(Append(r, l)) /\ Append(r, l) \in Seq(Command)
    BY <1>1, <1>3, <1>5, LoadsAppend
  <2>4. \A p : ~PausedEnd(p, Append(r, l)) BY <1>1, <1>3, <1>6 DEF PausedEnd
  <2> QED BY <2>2, <2>3, <2>4, <1>4, <1>7
<1>8. CASE ~x.wInit
  <2>1. a.c \in Allowed(PipeEnd(s.pipe, r)) /\ PipeAfter(a.c) = "made"
    BY <1>1, <1>3, <1>8 DEF Allowed, PipeAfter
  <2>2. Obeys(s.pipe, h) /\ PipeEnd(s.pipe, h) = "made" BY <2>1, <1>1, <1>3, ObeysAppend
  <2>3. LoadsRise(s.gen, h, x.gen) /\ KindsKnown(h) /\ h \in Seq(Command)
    BY <1>1, <1>3, <1>5, LoadsAppend
  <2> HIDE DEF h
  <2>4. b.c \in Allowed(PipeEnd(s.pipe, h)) /\ PipeAfter(b.c) = "on" /\ ~Dated(b) /\ b.c \notin {"init", "load"}
    BY <2>2, <1>3 DEF Allowed, PipeAfter, Dated
  <2>5. Obeys(s.pipe, Append(h, b)) /\ PipeEnd(s.pipe, Append(h, b)) = "on"
    BY <2>2, <2>3, <2>4, <1>3, ObeysAppend
  <2>6. LoadsRise(s.gen, Append(h, b), x.gen) /\ KindsKnown(Append(h, b)) /\ Append(h, b) \in Seq(Command)
    BY <2>3, <2>4, <1>3, <1>5, LoadsAppend
  <2>7. \A p : ~PausedEnd(p, Append(h, b)) BY <2>3, <1>3, <1>6 DEF PausedEnd
  <2> QED BY <2>5, <2>6, <2>7, <1>4, <1>8
<1> QED BY <1>7, <1>8

\* sourceopen
LEMMA SourceOpenSound ==
  ASSUME Sound(w, mt), SourceOpen
  PROVE  Sound(w', mt')
<1> DEFINE x == mt
           a == [mt EXCEPT !.ms = "open"]
           z == TryAppendPending(FlushPendingSourceBufferInit(a))
           y == mt'
           q == IF x.wInit THEN Append(x.cmds, [c |-> "load", load |-> x.gen, kind |-> x.segs])
                ELSE Append(Append(x.cmds, [c |-> "init", load |-> x.gen, kind |-> x.segs]),
                            [c |-> "start", load |-> x.gen, kind |-> x.segs])
<1>1. x.ms = "closed" /\ y = LoadInWorker(z) /\ w' = w BY DEF SourceOpen
<1>2. /\ WorkerSound(w) /\ Fine(w, x) /\ (Begun(w, x) \/ Untouched(x)) /\ DOMAIN x = MainFields
      /\ w.gen \in Nat /\ x.gen \in Nat
  BY SoundParts
<1>3. MainTyped(x) /\ StateSound(x) /\ ChannelSound(w, x) /\ QueuesSound(x) /\ NumbersSound(w, x)
  BY <1>2 DEF Fine, Lean
<1>4. x.segs # "none" /\ ~x.wm /\ ~x.bf /\ ~x.throttle /\ w.gen < x.gen
  BY <1>1, <1>2, <1>3 DEF StateSound, ChannelSound
<1>5. Untouched(x) BY <1>2, <1>4 DEF Begun
<1>6. /\ DOMAIN a = MainFields
      /\ a.gen = x.gen /\ a.cmds = x.cmds /\ a.wInit = x.wInit /\ a.segs = x.segs /\ a.inits = x.inits
      /\ a.throttle = x.throttle /\ a.wm = x.wm /\ a.bf = x.bf /\ a.ms = "open"
      /\ a.parsed = x.parsed /\ a.late = x.late /\ a.app = x.app /\ a.refuses = x.refuses
      /\ a.ahead = x.ahead /\ a.pcm = x.pcm /\ a.fed = x.fed /\ a.sb = x.sb
      /\ a.disabled = x.disabled /\ a.early = x.early /\ a.pend = x.pend
  BY <1>2 DEF MainFields
<1> HIDE DEF a
<1>7. Untouched(a) BY <1>5, <1>6 DEF Untouched
<1>8. SameMain(a, z) /\ z.cmds = a.cmds BY <1>6, <1>7, NothingDeferred
<1> HIDE DEF z
<1>9. /\ DOMAIN z = MainFields
      /\ z.gen = x.gen /\ z.cmds = x.cmds /\ z.wInit = x.wInit /\ z.segs = x.segs /\ z.inits = x.inits
      /\ z.throttle = x.throttle /\ z.wm = x.wm /\ z.bf = x.bf /\ z.ms = "open"
      /\ z.parsed = x.parsed /\ z.late = x.late /\ z.app = x.app /\ z.refuses = x.refuses
      /\ z.ahead = x.ahead /\ z.pcm = x.pcm /\ z.fed = x.fed /\ z.sb = x.sb
      /\ z.disabled = x.disabled /\ z.early = x.early /\ z.pend = x.pend
  BY <1>6, <1>8 DEF SameMain, SameMedia
<1>10. y = [(IF z.wInit THEN Send(z, "load") ELSE Send(Send(z, "init"), "start")) EXCEPT !.wInit = TRUE, !.segs = "none"]
  BY <1>1, <1>4, <1>9 DEF LoadInWorker
<1> HIDE DEF y
<1>11. /\ DOMAIN y = MainFields
       /\ y.gen = x.gen /\ y.cmds = q /\ y.wInit = TRUE /\ y.segs = "none" /\ y.inits = x.inits
       /\ y.throttle = x.throttle /\ y.wm = x.wm /\ y.bf = x.bf /\ y.ms = "open"
       /\ y.parsed = x.parsed /\ y.late = x.late /\ y.app = x.app /\ y.refuses = x.refuses
       /\ y.ahead = x.ahead /\ y.pcm = x.pcm /\ y.fed = x.fed /\ y.sb = x.sb
       /\ y.disabled = x.disabled /\ y.early = x.early /\ y.pend = x.pend
  <2> HIDE DEF x
  <2>1. CASE x.wInit BY <2>1, <1>9, <1>10 DEF Send, MainFields
  <2>2. CASE ~x.wInit BY <2>2, <1>9, <1>10 DEF Send, MainFields
  <2> QED BY <2>1, <2>2
<1>12. /\ q \in Seq(Command) /\ Obeys(w.pipe, q) /\ PipeEnd(w.pipe, q) = "on"
       /\ LoadsRise(w.gen, q, x.gen) /\ KindsKnown(q) /\ \A p : ~PausedEnd(p, q)
  <2>1. w.pipe \in {"none", "made", "on"} BY <1>2 DEF WorkerSound, WorkerTyped
  <2> QED BY <2>1, <1>2, <1>3, <1>4, StreamTold
<1> HIDE DEF q, x
<1>13. MainTyped(y) BY <1>3, <1>11, <1>12 DEF MainTyped
<1>14. StateSound(y) /\ FlowSound(y) BY <1>4, <1>11 DEF StateSound, FlowSound
<1>15. ChannelSound(w, y) /\ FlagsSound(w, y)
  BY <1>2, <1>4, <1>11, <1>12 DEF ChannelSound, LastLoad, FlagsSound
<1>16. QueuesSound(y) BY <1>3, <1>11 DEF QueuesSound
<1>17. NumbersSound(w, y)
  BY <1>3, <1>11 DEF NumbersSound, SegmentsSent, Begun
<1>18. Fine(w, y)
  BY <1>13, <1>14, <1>15, <1>16, <1>17 DEF Fine, Lean
<1>19. Untouched(y) BY <1>5, <1>11 DEF Untouched
<1>20. Progress(x, y)
  <2>1. \A T : BuffersSound(y, T) BY <1>19 DEF Untouched, BuffersSound
  <2> QED BY <2>1, <1>11 DEF Progress
<1>21. Sound(w, y) BY <1>18, <1>19, <1>20, ProgressSound DEF x
<1> QED BY <1>1, <1>21 DEF y

\* startstreaming
LEMMA StartStreamingSound ==
  ASSUME Sound(w, mt), StartStreaming
  PROVE  Sound(w', mt')
<1> DEFINE x == mt
           a == [mt EXCEPT !.streaming = TRUE]
           f == FlushPendingSourceBufferInit(a)
           z == TryAppendPending(f)
           y == mt'
<1>1. /\ x.managed /\ ~x.streaming /\ x.ms \in {"open", "ended"} /\ w' = w
      /\ y = IF z.wm \/ z.bf THEN UpdateFetchBackpressure(z) ELSE Send(z, "resume")
  BY DEF StartStreaming
<1>2. /\ WorkerSound(w) /\ Fine(w, x) /\ (Begun(w, x) \/ Untouched(x)) /\ DOMAIN x = MainFields /\ ~x.late
  BY SoundParts
<1>3. PICK T \in {{"video"}, BothTracks} :
        T \in SUBSET MseTracks /\ KindMatch(w, x, T) /\ BatchSound(w.out, x, T) /\ BuffersSound(x, T)
  BY SoundParts
<1>4. /\ Lean(w, x) /\ FlowSound(x) /\ QueuesSound(x) /\ NumbersSound(w, x) /\ x.ahead \in 0 .. Cap
      /\ x.pend \in [MseTracks -> Seq(Entry)] /\ x.app \in Seq([of : Loads, n : Nat])
      /\ x.sb \in [MseTracks -> {"none", "idle", "init", "media", "remove"}]
  BY <1>2 DEF Fine, Lean, MainTyped
<1>5. /\ DOMAIN a = MainFields
      /\ a.gen = x.gen /\ a.cmds = x.cmds /\ a.wInit = x.wInit /\ a.segs = x.segs /\ a.inits = x.inits
      /\ a.throttle = x.throttle /\ a.wm = x.wm /\ a.bf = x.bf /\ a.ms = x.ms
      /\ a.managed = x.managed /\ a.refuses = x.refuses /\ a.streaming = TRUE
      /\ a.parsed = x.parsed /\ a.late = x.late /\ a.app = x.app
      /\ a.ahead = x.ahead /\ a.pcm = x.pcm /\ a.fed = x.fed /\ a.sb = x.sb
      /\ a.disabled = x.disabled /\ a.early = x.early /\ a.pend = x.pend
  BY <1>2 DEF MainFields
<1> HIDE DEF x, a
<1>6. Fine(w, a)
  <2>1. SameControl(x, a) BY <1>5 DEF SameControl
  <2>2. QueuesSound(a) BY <1>4, <1>5 DEF QueuesSound
  <2>3. NumbersSound(w, a)
    BY <1>4, <1>5 DEF NumbersSound, SegmentsSent, Begun
  <2>4. a.ahead >= x.ahead /\ a.ahead \in 0 .. Cap BY <1>4, <1>5, ControllerAssumption
  <2> QED BY <1>4, <1>5, <2>1, <2>2, <2>3, <2>4, ControlKept
<1>7. Fine(w, f) /\ f.gen = x.gen /\ f.inits = x.inits /\ f.late = x.late /\ BuffersSound(f, T) /\ f.ms = x.ms
  <2>1. CASE x.ms = "open"
    <3>1. /\ a.early \subseteq T
          /\ a.parsed \/ (\E t \in MseTracks : a.sb[t] # "none") => \A t \in T : Created(a, t)
          /\ a.early # {} => \A t \in T : Created(a, t) \/ t \in a.early
      BY <2>1, <1>3, <1>5 DEF BuffersSound, Created
    <3>2. CanAppend(a) /\ a.ms = "open" BY <2>1, <1>5 DEF CanAppend
    <3>3. Fine(w, f) /\ f.gen = a.gen /\ f.inits = a.inits /\ f.late = a.late /\ BuffersSound(f, T) /\ f.ms = a.ms
      BY <3>1, <3>2, <1>3, <1>6, EarlyCreated
    <3> QED BY <3>3, <1>5
  <2>2. CASE x.ms # "open"
    <3>1. f = a BY <2>2, <1>5 DEF FlushPendingSourceBufferInit
    <3>2. BuffersSound(a, T) BY <2>2, <1>5 DEF BuffersSound
    <3> QED BY <3>1, <3>2, <1>5, <1>6
  <2> QED BY <2>1, <2>2
<1>8. Untouched(x) => SameMain(a, z)
  <2>1. Untouched(x) => Untouched(a) BY <1>5 DEF Untouched
  <2> QED BY <2>1, <1>5, NothingDeferred
<1> HIDE DEF f
<1>9. Fine(w, z) /\ SameShape(f, z) BY <1>7, TryAppendSound
<1>10. z.gen = x.gen /\ z.inits = x.inits /\ z.late = x.late /\ BuffersSound(z, T) /\ z.ms = x.ms
  <2>1. Progress(f, z) /\ z.ms = f.ms BY <1>9, ShapeFacts DEF SameShape
  <2> QED BY <2>1, <1>3, <1>7 DEF Progress
<1> HIDE DEF z, y
<1>11. Fine(w, y) /\ SameMedia(z, y)
  <2>1. CASE z.wm \/ z.bf BY <2>1, <1>1, <1>9, Backpressure DEF Fine
  <2>2. CASE ~(z.wm \/ z.bf)
    <3>1. Lean(w, z) /\ DOMAIN z = MainFields /\ z.wm \in BOOLEAN /\ z.bf \in BOOLEAN /\ StateSound(z)
      BY <1>9 DEF Fine, Lean, MainTyped
    <3>2. Sent(z, y, "resume") /\ y.wm = z.wm /\ y.bf = z.bf
      BY <2>2, <3>1, <1>1 DEF Send, Sent, Tells, SameMedia, MainFields
    <3>3. z.wInit /\ z.ms \notin {"none", "closed"} BY <3>1, <1>1, <1>10 DEF StateSound
    <3>4. Lean(w, y) BY <2>2, <3>1, <3>2, <3>3, SentLean
    <3>5. FlowSound(y) BY <2>2, <3>2 DEF FlowSound
    <3> QED BY <3>2, <3>4, <3>5 DEF Fine, Sent
  <2> QED BY <2>1, <2>2
<1>12. y.gen = x.gen /\ y.inits = x.inits /\ y.late = x.late /\ BuffersSound(y, T)
  BY <1>10, <1>11, SameMediaSound DEF SameMedia
<1>13. Untouched(x) => Untouched(y)
  <2>1. Untouched(x) => Untouched(a) BY <1>5 DEF Untouched
  <2>2. Untouched(x) => Untouched(z) BY <2>1, <1>8, SameMediaSound DEF SameMain
  <2> QED BY <2>2, <1>11, SameMediaSound
<1>14. Begun(w, y) \/ Untouched(y) BY <1>2, <1>12, <1>13 DEF Begun
<1>15. KindMatch(w, y, T) /\ BatchSound(w.out, y, T)
  BY <1>3, <1>12 DEF KindMatch, BatchSound, Batched, Paired
<1>16. Sound(w, y) BY <1>2, <1>11, <1>12, <1>14, <1>15, SoundAgain
<1> QED BY <1>1, <1>16 DEF y

----------------------------------------------------------------------------
(* The theorems                                                            *)

\* Nothing is loaded at first.
LEMMA InitSound ==
  ASSUME Init
  PROVE  Sound(w, mt)
<1>1. PICK managed \in Managed, u \in Unsupported : mt = MainInit(managed, u)
  BY DEF Init
<1>2. w = WorkerInit BY DEF Init
<1>3. Cap \in Nat /\ MaxLoads \in Nat /\ 0 \in Loads /\ 0 \in 0 .. Cap
  BY ControllerAssumption, LoadsNatural
<1>4. /\ DOMAIN mt = MainFields
      /\ mt.gen = 0 /\ mt.cmds = << >> /\ mt.wInit = FALSE /\ mt.segs = "none" /\ mt.inits = << >>
      /\ mt.throttle = FALSE /\ mt.wm = FALSE /\ mt.bf = FALSE /\ mt.disabled = {} /\ mt.ms = "none"
      /\ mt.sb = [t \in MseTracks |-> "none"] /\ mt.pend = [t \in MseTracks |-> << >>]
      /\ mt.early = {} /\ mt.parsed = FALSE /\ mt.late = FALSE /\ mt.app = << >> /\ mt.ahead = 0
      /\ mt.pcm = {} /\ mt.fed = {}
  BY <1>1 DEF MainInit, MainFields
<1>5. /\ DOMAIN w = WorkerFields
      /\ w.pipe = "none" /\ w.made = [load |-> 0, kind |-> "list"] /\ w.gen = 0 /\ w.runId = 0
      /\ w.mode = "static" /\ w.paused = FALSE /\ w.loops = {} /\ w.io = NoIo /\ w.stash = {}
      /\ w.inputs = 0 /\ w.units = 0 /\ w.decodes = {} /\ w.out = << >>
  BY <1>2 DEF WorkerInit, WorkerFields
<1>6. << >> \in Seq(Event) /\ << >> \in Seq(Command) /\ Len(<< >>) = 0 /\ 1 .. 0 = {} /\ 0 + 1 = 1
  OBVIOUS
<1>7. WorkerSound(w)
  <2>1. w.made \in [load : Loads, kind : StreamKinds] BY <1>3, <1>5 DEF StreamKinds
  <2>2. w.io \in Fetch BY <1>3, <1>5 DEF NoIo, Fetch
  <2>3. w.pipe \in {"none", "made", "on"} /\ w.mode \in {"static", "continuous", "hls"} /\ w.paused \in BOOLEAN
    BY <1>5
  <2>4. w.gen \in Loads /\ w.runId \in Nat /\ w.inputs \in Nat /\ w.units \in Nat
    BY <1>3, <1>5
  <2>5. w.loops \in SUBSET LoadLoop /\ w.decodes \in SUBSET Decode /\ w.out \in Seq(Event)
    BY <1>5, <1>6
  <2>6. WorkerTyped(w)
    BY <2>1, <2>2, <2>3, <2>4, <2>5, <1>5 DEF WorkerTyped
  <2>7. LoopsSound(w) /\ IoSound(w) /\ PipeSound(w) /\ EventsSound(w)
    BY <1>5, <1>6 DEF LoopsSound, IoSound, PipeSound, EventsSound
  <2> QED BY <2>6, <2>7 DEF WorkerSound
<1>8. Untouched(mt) BY <1>4 DEF Untouched, MseTracks
<1>9. MainTyped(mt)
  <2>1. /\ mt.sb \in [MseTracks -> {"none", "idle", "init", "media", "remove"}]
        /\ mt.pend \in [MseTracks -> Seq(Entry)] /\ mt.app \in Seq([of : Loads, n : Nat])
    BY <1>4
  <2> QED BY <2>1, <1>3, <1>4, <1>6 DEF MainTyped
<1>10. StateSound(mt) /\ FlowSound(mt) /\ FlagsSound(w, mt)
  BY <1>4 DEF StateSound, FlowSound, FlagsSound
<1>11. QueuesSound(mt) BY <1>4, <1>6 DEF QueuesSound
<1>12. ChannelSound(w, mt)
  BY <1>4, <1>5, <1>6 DEF ChannelSound, Obeys, PipeEnd, PipeBefore, LoadsRise, KindsKnown
<1>13. SegmentsSent(w, mt) = 0 /\ Before(w.out, 0) /\ KindMatch(w, mt, BothTracks)
  BY <1>4, <1>5, <1>6 DEF SegmentsSent, Begun, Before, KindMatch
<1>14. NumbersSound(w, mt) /\ BatchSound(w.out, mt, BothTracks) /\ BuffersSound(mt, BothTracks)
  <2>1. 0 \in Nat /\ mt.gen \in Nat /\ 0 <= mt.gen /\ w.out \in Seq(Event)
    BY <1>4, <1>5, <1>6
  <2> QED BY <2>1, <1>8, <1>13, NothingYet
<1>15. Fine(w, mt) /\ ~mt.late
  BY <1>4, <1>9, <1>10, <1>11, <1>12, <1>14 DEF Fine, Lean
<1> QED BY <1>7, <1>8, <1>13, <1>14, <1>15, SoundAgain

\* Every step keeps the invariant.
LEMMA NextSound ==
  ASSUME Sound(w, mt), [Next]_vars
  PROVE  Sound(w, mt)'
<1>1. ASSUME NEW kind \in Kinds, LoadSegments(kind)
      PROVE  Sound(w', mt')
  BY <1>1, LoadSegmentsSound
<1>2. CASE Suspend BY <1>2, SuspendSound
<1>3. CASE HandleWorkerMessage BY <1>3, MessageSound
<1>4. CASE SourceOpen BY <1>4, SourceOpenSound
<1>5. CASE FeedPcm BY <1>5, FeedPcmSound
<1>6. CASE UpdateEnd BY <1>6, UpdateEndKept
<1>7. CASE OnTimeUpdate BY <1>7, OnTimeUpdateSound
<1>8. CASE StartStreaming BY <1>8, StartStreamingSound
<1>9. CASE TimeUpdateClosed BY <1>9, TimeUpdateClosedSound
<1>10. CASE EndStreaming BY <1>10, EndStreamingSound
<1>11. CASE SourceClose BY <1>11, SourceCloseSound
<1>12. CASE WorkerReceives BY <1>12, ReceivesSound
<1>13. CASE Worker
  <2>1. WorkerStep /\ mt' = mt BY <1>13 DEF Worker
  <2>2. Sound(w', mt) BY <2>1, WorkerKeepsSound
  <2> QED BY <2>1, <2>2
<1>14. CASE UNCHANGED vars BY <1>14 DEF vars
<1>15. Sound(w', mt')
  BY <1>1, <1>2, <1>3, <1>4, <1>5, <1>6, <1>7, <1>8, <1>9, <1>10, <1>11, <1>12, <1>13, <1>14 DEF Next, Main
<1> QED BY <1>15

\* In every state of every behaviour the invariant holds.
THEOREM ControllerInvariant == Spec => []Sound(w, mt)
<1>1. Init => Sound(w, mt) BY InitSound
<1>2. Sound(w, mt) /\ [Next]_vars => Sound(w, mt)' BY NextSound
<1> QED BY <1>1, <1>2, PTL DEF Spec

\* A set without two elements has at most one.
LEMMA AtMostOne ==
  ASSUME NEW S, \A a, b \in S : a = b
  PROVE  Cardinality(S) <= 1
<1>1. CASE S = {} BY <1>1, FS_EmptySet
<1>2. CASE S # {}
  <2>1. PICK a \in S : TRUE BY <1>2
  <2>2. S = {a} BY <2>1
  <2> QED BY <2>2, FS_Singleton
<1> QED BY <1>1, <1>2

LEMMA SoundTypes ==
  ASSUME Sound(w, mt)
  PROVE  TypeOK
<1>1. WorkerSound(w) /\ WorkerTyped(w) /\ MainTyped(mt) BY DEF Sound, WorkerSound, MainSound
<1>2. mt.gen \in 0 .. MaxLoads /\ w.gen \in 0 .. MaxLoads /\ w.mode \in {"static", "continuous", "hls"}
  BY <1>1 DEF WorkerTyped, MainTyped, Loads
<1>3. w.io = NoIo \/ \E l \in w.loops : l.run = w.io.run /\ l.pc = "load"
  BY <1>1 DEF WorkerSound, IoSound, Awaits
<1>4. Cardinality({l \in w.loops : l.run = w.runId}) <= 1
  <2>1. \A a, b \in {l \in w.loops : l.run = w.runId} : a = b
    BY <1>1 DEF WorkerSound, LoopsSound
  <2> QED BY <2>1, AtMostOne
<1> QED BY <1>1, <1>2, <1>3, <1>4 DEF TypeOK, MainTyped

\* The media of two streams never meet: an event comes from the stream it is
\* posted under, what is appended is the current stream without a hole, in
\* order and once (whatever was queued, deferred, refused for quota and
\* retried), and the PCM player is fed the current stream only.  This is what
\* mseGeneration, gen and runId are for in playback-controller.ts,
\* transmux-worker.ts and pipeline.ts.
THEOREM StreamsStayApart == Spec => []StreamsDoNotMix
<1>1. Sound(w, mt) => StreamsDoNotMix
  <2> SUFFICES ASSUME Sound(w, mt)
               PROVE  StreamsDoNotMix
    OBVIOUS
  <2>1. WorkerSound(w) /\ MainTyped(mt) /\ QueuesSound(mt) /\ w.out \in Seq(Event)
    BY DEF Sound, WorkerSound, WorkerTyped, MainSound
  <2>2. EventsAreCurrent
    BY <2>1 DEF EventsAreCurrent, WorkerSound, EventsSound, EventSound
  <2>3. PlaysTheCurrentStream
    <3>1. DOMAIN mt.app = 1 .. Len(mt.app) BY <2>1 DEF MainTyped
    <3> QED BY <3>1, <2>1 DEF PlaysTheCurrentStream, QueuesSound
  <2> QED BY <2>2, <2>3, SoundTypes DEF StreamsDoNotMix
<1> QED BY <1>1, ControllerInvariant, PTL

\* A media segment holds samples of one response only: the end of a segment,
\* a restart after a pause and a discontinuity flush or drop what the remuxer
\* holds (pipeline.ts _finishTsInputBoundary, _resetTransmux).
THEOREM SegmentsAreOfOneInput == Spec => []OneInputPerSegment
<1>1. Sound(w, mt) => OneInputPerSegment
  <2> SUFFICES ASSUME Sound(w, mt), NEW i \in DOMAIN w.out
               PROVE  Cardinality(w.out[i].ins) <= 1
    BY DEF OneInputPerSegment
  <2>1. EventSound(w, w.out[i])
    BY DEF Sound, WorkerSound, WorkerTyped, EventsSound
  <2>2. \A a, b \in w.out[i].ins : a = b BY <2>1 DEF EventSound
  <2> QED BY <2>2, AtMostOne
<1> QED BY <1>1, ControllerInvariant, PTL

\* Every SourceBuffer is created before the browser has parsed an init
\* segment, also when their creation is deferred (handleWorkerMessage's batch
\* of init segments, media-source.ts pendingSourceBufferInit).
THEOREM SourceBuffersInTime == Spec => []NoLateSourceBuffer
<1>1. Sound(w, mt) => NoLateSourceBuffer BY DEF Sound, NoLateSourceBuffer
<1> QED BY <1>1, ControllerInvariant, PTL

\* The controller and the worker agree on who waits for whom: with the channel
\* empty the worker is paused exactly when the controller paused it, a loop at
\* the gate is the one that resume wakes, and a paused worker has something
\* left to be played down (updateFetchBackpressure, _waitIfPaused).
THEOREM BackpressureIsShared == Spec => []BackpressureAgrees
<1>1. Sound(w, mt) => BackpressureAgrees
  <2> SUFFICES ASSUME Sound(w, mt)
               PROVE  BackpressureAgrees
    OBVIOUS
  <2>1. WorkerSound(w) /\ FlagsSound(w, mt) /\ FlowSound(mt)
    BY DEF Sound, MainSound
  <2>2. PauseAgrees BY <2>1 DEF PauseAgrees, FlagsSound, PausedEnd
  <2>3. GateWakesTheWaiter
    BY <2>1 DEF GateWakesTheWaiter, WorkerSound, LoopsSound, LoopSound
  <2>4. PausedUntilPlayed
    BY <2>1 DEF PausedUntilPlayed, FlagsSound, PausedEnd, FlowSound
  <2> QED BY <2>2, <2>3, <2>4 DEF BackpressureAgrees
<1> QED BY <1>1, ControllerInvariant, PTL
=============================================================================
