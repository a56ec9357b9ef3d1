---------------------------- MODULE BandixCharts ----------------------------
(***************************************************************************)
(* The traffic page of luci-app-bandix (view/bandix/index.js), beside the  *)
(* device table: the realtime chart (bh) and the two statistics queries    *)
(* (bq).  They share no state, so each has a next-state relation of its    *)
(* own.                                                                    *)
(***************************************************************************)
EXTENDS Integers, Sequences, FiniteSets

CONSTANTS
  Devices,      \* what the device select offers
  Samples,      \* bound: samples in a metrics answer
  MobilePoints, \* points a small screen shows (20)
  MaxScale,     \* the largest zoom (10)
  Days,         \* ends of query ranges, in days
  ChunkDays,    \* [hourly, daily]: TRAFFIC_INCREMENT_CHUNK_MS_*
  MaxQueries    \* bound: queries that run at once
ASSUME ChartsAssumption ==
  {Samples, MobilePoints, MaxScale, MaxQueries} \subseteq Nat \ {0}

VARIABLES bh, bq
Nowhere == "none"

----------------------------------------------------------------------------
(* The realtime chart.  A refresh is skipped while the pointer is over the *)
(* chart and while another one is under way.                               *)
HistoryInit ==
  bh = [sel |-> "all", hover |-> FALSE, index |-> 0, loading |-> FALSE, asked |-> Nowhere,
        data |-> Nowhere, points |-> 0, mobile |-> FALSE,
        zooming |-> "off", scale |-> 1, offset |-> 0]

RefreshHistory(s) ==
  IF s.hover \/ s.loading THEN s ELSE [s EXCEPT !.loading = TRUE, !.asked = s.sel]
PollHistory == bh' = RefreshHistory(bh)
OnFilterChange(d) == bh.sel # d /\ bh' = RefreshHistory([bh EXCEPT !.sel = d])
Resize == bh' = RefreshHistory([bh EXCEPT !.mobile = ~@])

(* updateDeviceOptions: the select is rebuilt and keeps a device that is   *)
(* still known                                                             *)
UpdateDeviceOptions(known) ==
  bh' = [bh EXCEPT !.sel = IF @ \in known \union {"all"} THEN @ ELSE "all"]

(* downsampleForMobile: sample k of a small screen stands for index k of   *)
(* the answer; the first and the last are kept                             *)
Downsample(n, k) ==
  IF n <= MobilePoints THEN k
  ELSE (2 * (k - 1) * (n - 1) + (MobilePoints - 1)) \div (2 * (MobilePoints - 1)) + 1
(* The first and the last sample are on the small chart, in order.         *)
ASSUME DownsampleKeepsEnds ==
  \A n \in MobilePoints .. Samples :
    /\ Downsample(n, 1) = 1 /\ Downsample(n, MobilePoints) = n
    /\ \A k \in 1 .. MobilePoints - 1 : Downsample(n, k) < Downsample(n, k + 1)
Points(n) == IF bh.mobile /\ n > MobilePoints THEN MobilePoints ELSE n

(* drawHistoryChart: the zoomed part of the series                         *)
Visible(s) ==
  LET len == (s.points + s.scale - 1) \div s.scale
      end == s.offset + len
  IN  s.offset + 1 .. (IF end < s.points THEN end ELSE s.points)

HistoryAnswer(n) ==
  /\ bh.asked # Nowhere
  /\ bh' = [bh EXCEPT !.loading = FALSE, !.asked = Nowhere, !.points = Points(n),
                      !.data = IF n = 0 THEN Nowhere ELSE bh.asked]
StaysLoading ==  \* mutant: no finally
  bh.asked # Nowhere /\ bh' = [bh EXCEPT !.asked = Nowhere, !.data = Nowhere, !.points = 0]
HistoryFailed ==
  /\ bh.asked # Nowhere
  /\ bh' = [bh EXCEPT !.loading = FALSE, !.asked = Nowhere, !.data = Nowhere, !.points = 0]

(* onMove, onLeave, onmouseenter and its timer, onwheel.  Handlers exist   *)
(* once a first answer has been drawn on a wide screen.                    *)
OnMove(i) ==
  /\ ~bh.mobile /\ bh.data # Nowhere
  /\ bh' = IF i \in Visible(bh) THEN [bh EXCEPT !.hover = TRUE, !.index = i]
           ELSE [bh EXCEPT !.hover = FALSE]
OnEnter == bh.data # Nowhere /\ bh' = [bh EXCEPT !.zooming = "waiting"]
ZoomTimer == bh.zooming = "waiting" /\ bh' = [bh EXCEPT !.zooming = "on"]
OnLeave == bh' = [bh EXCEPT !.hover = FALSE, !.index = 0, !.zooming = "off", !.scale = 1, !.offset = 0]
OnWheel(scale, offset) ==
  /\ bh.zooming = "on" /\ scale \in 1 .. MaxScale
  /\ offset \in 0 .. bh.points - (bh.points + scale - 1) \div scale
  /\ bh' = [bh EXCEPT !.scale = scale, !.offset = offset]

HistoryNext ==
  \/ PollHistory \/ (\E d \in Devices \union {"all"} : OnFilterChange(d)) \/ Resize
  \/ (\E known \in SUBSET Devices : UpdateDeviceOptions(known))
  \/ (\E n \in 0 .. Samples : HistoryAnswer(n)) \/ HistoryFailed
  \/ (\E i \in 1 .. Samples : OnMove(i)) \/ OnEnter \/ ZoomTimer \/ OnLeave
  \/ \E scale \in 1 .. MaxScale, offset \in 0 .. Samples : OnWheel(scale, offset)
(* LuCI's poll calls refreshHistory every second, and every call of it is  *)
(* answered or times out.                                                  *)
HistoryAnswered == HistoryFailed \/ \E n \in 0 .. Samples : HistoryAnswer(n)
HistoryFairness == WF_bh(PollHistory) /\ WF_bh(HistoryAnswered)

(* A refresh that was skipped is made up for: once the selection stays and *)
(* the pointer is away, refreshes go on for ever and the chart comes to    *)
(* show that device or nothing, never another one for good.                *)
ChartCatchesUp ==
  \A d \in Devices \union {"all"} :
    <>[](bh.sel = d /\ ~bh.hover) => ([]<>~bh.loading /\ <>[](bh.data \in {d, Nowhere}))

----------------------------------------------------------------------------
(* Queries over a range of days.  A query of the timeline over a long      *)
(* range is sent in chunks, one after the other; a query of the ranking is *)
(* one call.  runs holds the queries under way.                            *)
QueriesInit ==
  bq = [range |-> [ranking |-> <<0, 1>>, timeline |-> <<0, 1>>],
        busy |-> [ranking |-> FALSE, timeline |-> FALSE],
        shows |-> [ranking |-> <<"loading">>, timeline |-> <<"loading">>],
        runs |-> << >>]

(* buildTrafficIncrementsChunks: from day f up to day t, by chunks of c    *)
BuildTrafficIncrementsChunks(f, t, c) ==
  IF t - f <= c THEN <<<<f, t>>>>
  ELSE [i \in 1 .. (t - f + c - 1) \div c |->
          <<f + (i - 1) * c, IF f + i * c < t THEN f + i * c ELSE t>>]

(* The chunks of a query are consecutive and cover its range.              *)
ASSUME ChunksTile ==
  \A f, t \in Days, c \in {ChunkDays["hourly"], ChunkDays["daily"]} : f < t =>
    LET chunks == BuildTrafficIncrementsChunks(f, t, c)
    IN  /\ chunks[1][1] = f /\ chunks[Len(chunks)][2] = t
        /\ \A i \in 1 .. Len(chunks) - 1 : chunks[i][2] = chunks[i + 1][1]
        /\ \A i \in DOMAIN chunks : chunks[i][1] < chunks[i][2] /\ chunks[i][2] - chunks[i][1] <= c

(* updateTrafficIncrements, updateTrafficStatistics.  Only a query sent by *)
(* the button or by the ranking's network type frees the button at its end.*)
StartQuery(what, range, agg, frees) ==
  /\ Len(bq.runs) < MaxQueries
  /\ bq' = [bq EXCEPT
        !.range[what] = range,
        !.busy[what] = IF frees THEN TRUE ELSE @,
        !.shows[what] = IF what = "timeline" THEN <<"loading">> ELSE @,
        !.runs = Append(@, [what |-> what, range |-> range, frees |-> frees, drawing |-> FALSE,
                            left |-> IF what = "ranking" THEN <<range>>
                                     ELSE BuildTrafficIncrementsChunks(range[1], range[2], ChunkDays[agg])])]

(* queryData: a backward range is refused.  The query button is disabled   *)
(* while a query is under way, the preset and reset buttons are not.       *)
QueryData(what, f, t, agg) == f <= t /\ StartQuery(what, <<f, t + 1>>, agg, TRUE)
ChangeFilter(what, agg) ==
  /\ bq.range[what][1] < bq.range[what][2]
  /\ StartQuery(what, bq.range[what], agg, what = "ranking")

Remove(i) == SubSeq(bq.runs, 1, i - 1) \o SubSeq(bq.runs, i + 1, Len(bq.runs))
Freed(q) == [bq.busy EXCEPT ![q.what] = @ /\ ~q.frees]

(* One chunk is answered: progress is shown, or the result is, and the     *)
(* chart of the timeline is drawn 100 ms later                             *)
ChunkAnswer(i, empty) ==
  LET q == bq.runs[i] IN
  /\ ~q.drawing
  /\ IF Len(q.left) > 1
     THEN bq' = [bq EXCEPT !.runs[i].left = Tail(@), !.shows[q.what] = <<"loading">>]
     ELSE IF q.what = "ranking"
     THEN bq' = [bq EXCEPT !.runs = Remove(i),
                           !.shows[q.what] = IF empty THEN @ ELSE q.range,
                           !.busy = IF empty THEN @ ELSE Freed(q)]
     ELSE IF empty
     THEN bq' = [bq EXCEPT !.runs = Remove(i), !.shows[q.what] = <<"none">>, !.busy = Freed(q)]
     ELSE bq' = [bq EXCEPT !.runs[i].drawing = TRUE, !.shows[q.what] = q.range]
DrawTimer(i) ==
  /\ bq.runs[i].drawing
  /\ bq' = [bq EXCEPT !.runs = Remove(i), !.busy = Freed(bq.runs[i])]
QueryFailed(i) ==
  LET q == bq.runs[i] IN
  ~q.drawing /\ bq' = [bq EXCEPT !.runs = Remove(i), !.shows[q.what] = <<"error">>, !.busy = Freed(q)]

QueriesNext ==
  \/ \E what \in {"ranking", "timeline"}, agg \in {"hourly", "daily"} :
       ChangeFilter(what, agg) \/ \E f, t \in Days : QueryData(what, f, t, agg)
  \/ \E i \in DOMAIN bq.runs :
       (\E empty \in BOOLEAN : ChunkAnswer(i, empty)) \/ DrawTimer(i) \/ QueryFailed(i)

(* When no query of the timeline is under way its query button can be used *)
(* and its container has stopped saying that it loads, in whatever order   *)
(* overlapping queries progress, end or fail.                              *)
TimelineSettles ==
  (\A i \in DOMAIN bq.runs : bq.runs[i].what # "timeline") =>
     ~bq.busy["timeline"] /\ (bq.shows["timeline"] = <<"loading">> => bq.range["timeline"] = <<0, 1>>)

(* The query button of the ranking can be used again after every query.    *)
RankingSettles ==
  (\A i \in DOMAIN bq.runs : bq.runs[i].what # "ranking") => ~bq.busy["ranking"]

(* The chart of the traffic history catches up with the selection, and the  *)
(* queries of the timeline end with a usable page.                          *)
ChartsCatchUp == ChartCatchesUp /\ []TimelineSettles
=============================================================================
