----------------------------- MODULE HlsSource ------------------------------
(***************************************************************************)
(* hls-source.ts: the segments of an HLS playlist, handed out one by one   *)
(* to the load loop of Pipeline while a live playlist slides on the server.*)
(*                                                                         *)
(* The playlist is the window srv.first .. srv.last of media sequence      *)
(* numbers (m3u8.ts parses it); a segment lasts Duration(seq) seconds, and *)
(* Breaks holds the numbers that carry EXT-X-DISCONTINUITY.  h is the      *)
(* HlsSource object, and h.at the await that next() is in.                 *)
(***************************************************************************)
EXTENDS Integers, Sequences

CONSTANTS
  MaxSeq,                \* bound: last media sequence number
  MaxWindow,             \* longest playlist
  Breaks,                \* discontinuities
  LIVE_EDGE_SEGMENTS,
  MAX_REFRESH_FAILURES,
  TrimAt, TrimKeep       \* 64 and 32: history that is kept

ASSUME HlsAssumption ==
  /\ {MaxSeq, MaxWindow, LIVE_EDGE_SEGMENTS, MAX_REFRESH_FAILURES, TrimAt, TrimKeep} \subseteq Nat \ {0}
  /\ TrimKeep <= TrimAt

VARIABLES srv, h
hlsVars == <<srv, h>>

Duration(seq) == 1 + (seq % 2)

(* parseMedia: what one playlist says                                      *)
Playlist ==
  [live |-> ~srv.ended,
   segments |-> [i \in 1 .. srv.last - srv.first + 1 |->
                   [seq |-> srv.first + i - 1, duration |-> Duration(srv.first + i - 1),
                    discontinuity |-> srv.first + i - 1 \in Breaks]]]

HlsInit ==
  /\ srv \in {[first |-> f, last |-> l, ended |-> e, multi |-> v] :
                f \in 0 .. 1, l \in 0 .. MaxWindow - 1, e \in BOOLEAN, v \in BOOLEAN}
  /\ h = [at |-> "new", live |-> TRUE, ended |-> FALSE, segments |-> << >>, nextIndex |-> 0,
          nextSeq |-> -1, pos |-> 0, reset |-> TRUE, failures |-> 0, news |-> TRUE,
          variant |-> FALSE, got |-> << >>]

----------------------------------------------------------------------------
(* ingest: the playlist went on faster than it was refreshed               *)
NeverSkipped(s, seg) == FALSE  \* mutant: a jump over lost segments goes unnoticed
Skipped(s, seg) == s.nextSeq # -1 /\ seg.seq > s.nextSeq

(* ingest: consumed history of a live stream is dropped                    *)
Trim(s) ==
  IF s.live /\ s.nextIndex > TrimAt
  THEN [s EXCEPT !.segments = SubSeq(@, s.nextIndex - TrimKeep + 1, Len(@)),
                 !.nextIndex = TrimKeep]
  ELSE s

(* ingest: one segment of the playlist, then the whole of it.  seen is the *)
(* first number that the playlist offered.                                 *)
IngestSegment(s, seg) ==
  IF s.nextSeq # -1 /\ seg.seq < s.nextSeq THEN s
  ELSE Trim([s EXCEPT
              !.segments = Append(@, [seq |-> seg.seq, start |-> s.pos, duration |-> seg.duration,
                                      resetRemuxer |-> seg.discontinuity \/ Skipped(s, seg),
                                      seen |-> srv.first]),
              !.pos = @ + seg.duration, !.nextSeq = seg.seq + 1, !.news = TRUE])

Ingest(s, playlist) ==
  LET start == [s EXCEPT !.live = playlist.live, !.ended = ~playlist.live, !.news = FALSE]
      after[i \in 0 .. Len(playlist.segments)] ==
        IF i = 0 THEN start ELSE IngestSegment(after[i - 1], playlist.segments[i])
  IN  after[Len(playlist.segments)]

(* initialize: start near the live edge, at time 0                         *)
Rebase(s) ==
  LET n == IF Len(s.segments) > LIVE_EDGE_SEGMENTS THEN Len(s.segments) - LIVE_EDGE_SEGMENTS ELSE 0
      base == IF n < Len(s.segments) THEN s.segments[n + 1].start ELSE 0
  IN  IF ~s.live THEN s
      ELSE [s EXCEPT !.nextIndex = n, !.pos = @ - base,
                     !.segments = [i \in DOMAIN s.segments |-> [s.segments[i] EXCEPT !.start = @ - base]]]

(* next(): hand out a segment, end, or wait for a refresh                  *)
Return(s) ==
  IF s.nextIndex < Len(s.segments)
  THEN LET meta == s.segments[s.nextIndex + 1] IN
       [s EXCEPT !.at = "idle", !.nextIndex = @ + 1, !.reset = FALSE,
                 !.got = Append(@, [meta EXCEPT !.resetRemuxer = @ \/ s.reset])]
  ELSE [s EXCEPT !.at = IF s.ended THEN "done" ELSE "wait"]

Next1 == /\ h.at \in {"new", "idle"}
         /\ h' = IF h.at = "new" THEN [h EXCEPT !.at = "init"] ELSE Return(h)
         /\ UNCHANGED srv

(* refresh: the reload delay passes and the playlist is fetched            *)
SleepOver == /\ h.at \in {"wait", "retry", "initRetry"}
             /\ h' = [h EXCEPT !.at = IF h.at = "initRetry" THEN "init" ELSE "fetch"]
             /\ UNCHANGED srv

(* fetchPlaylist: a multivariant playlist leads to the best variant, whose *)
(* playlist is fetched next; a media playlist is ingested.                 *)
Fetched ==
  /\ h.at \in {"init", "fetch"}
  /\ h' = IF srv.multi /\ ~h.variant THEN [h EXCEPT !.variant = TRUE]
          ELSE LET s == Ingest([h EXCEPT !.failures = 0], Playlist)
               IN  Return(IF h.at = "init" THEN Rebase(s) ELSE s)
  /\ UNCHANGED srv

FetchFailed ==
  /\ h.at \in {"init", "fetch"}
  /\ h' = [h EXCEPT !.failures = @ + 1,
                    !.at = IF h.failures + 1 >= MAX_REFRESH_FAILURES THEN "failed"
                           ELSE IF h.at = "init" THEN "initRetry" ELSE "retry"]
  /\ UNCHANGED srv

(* The server publishes a segment, drops old ones, ends the programme.     *)
Publish == /\ ~srv.ended /\ srv.last < MaxSeq
           /\ srv' = [srv EXCEPT !.last = @ + 1,
                                 !.first = IF srv.last + 1 - @ >= MaxWindow THEN @ + 1 ELSE @]
           /\ UNCHANGED h
Finish  == /\ ~srv.ended
           /\ srv' = [srv EXCEPT !.ended = TRUE]
           /\ UNCHANGED h

HlsNext == Next1 \/ SleepOver \/ Fetched \/ FetchFailed \/ Publish \/ Finish
HlsSpec == HlsInit /\ [][HlsNext]_hlsVars

----------------------------------------------------------------------------
(* The segments handed out lie end to end on one timeline that starts at 0; *)
(* their numbers only grow, and a number is jumped over only when the       *)
(* playlist no longer offered it; whatever does not continue its            *)
(* predecessor (the first one, a jump, a discontinuity) resets the remuxer. *)
OneTimeline ==
  \A i \in DOMAIN h.got :
    LET g == h.got[i] IN
    IF i = 1 THEN g.start = 0 /\ g.resetRemuxer
    ELSE LET p == h.got[i - 1] IN
         /\ g.start = p.start + p.duration
         /\ g.seq > p.seq
         /\ g.seq > p.seq + 1 => g.resetRemuxer /\ g.seen = g.seq
         /\ g.seq \in Breaks => g.resetRemuxer

(* The history kept for a live stream is bounded however long it runs, and  *)
(* trimming it never moves the read position off the next segment.          *)
HistoryBounded ==
  /\ h.nextIndex <= Len(h.segments)
  /\ h.live => Len(h.segments) <= TrimAt + MaxWindow
  /\ (h.got # << >> /\ h.nextIndex > 0) => h.segments[h.nextIndex].seq = h.got[Len(h.got)].seq

(* The segments of a playlist become one timeline, and what is remembered   *)
(* of them stays bounded.                                                   *)
SourceIsContinuous == OneTimeline /\ HistoryBounded
=============================================================================
