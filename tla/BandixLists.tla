---------------------------- MODULE BandixLists ----------------------------
(***************************************************************************)
(* The two paged lists of luci-app-bandix: the DNS records                 *)
(* (view/bandix/dns.js: the list dq and its statistics cards dt) and the   *)
(* connections of a device (view/bandix/connection.js: cf).  Neither tags  *)
(* its requests, so answers are applied in whatever order they come.  The  *)
(* number of records behind a filter changes all the time: an answer may   *)
(* report any number of pages.                                             *)
(***************************************************************************)
EXTENDS Integers, FiniteSets

CONSTANTS
  ListFilters,     \* values of the filter controls
  MaxPages,        \* bound: pages a list may have
  MaxListRequests, \* bound: requests a page sends
  MaxBadges,       \* answer records a row shows (5)
  EndAddrs         \* addresses of DNS clients and servers
ASSUME ListsAssumption ==
  /\ {MaxPages, MaxListRequests, MaxBadges} \subseteq Nat \ {0}
  /\ "-" \notin EndAddrs /\ ListFilters # {}

VARIABLES dq, dt, cf
listVars == <<dq, dt, cf>>

----------------------------------------------------------------------------
(* A row of the DNS list.  The client is the source of a query and the     *)
(* destination of a response; the server is the other end.                 *)
DnsRecords == [is_query : BOOLEAN, source_ip : EndAddrs, destination_ip : EndAddrs]
FormatDeviceName(q) == IF q.is_query THEN q.source_ip ELSE q.destination_ip
FormatDnsServer(q) == IF q.is_query THEN q.destination_ip ELSE q.source_ip
FormatResponseResult(n) ==
  [display |-> IF n > MaxBadges THEN MaxBadges ELSE n, hasMore |-> n > MaxBadges]
(* A query and the response to it name the same client and server, and a   *)
(* row that leaves records out says so.                                    *)
ASSUME RowsTellBothEnds ==
  /\ \A q, r \in DnsRecords :
       /\ q.is_query /\ ~r.is_query
       /\ q.source_ip = r.destination_ip /\ q.destination_ip = r.source_ip
       => FormatDeviceName(q) = FormatDeviceName(r) /\ FormatDnsServer(q) = FormatDnsServer(r)
  /\ \A n \in 0 .. 2 * MaxBadges :
       LET shown == FormatResponseResult(n) IN shown.display < n <=> shown.hasMore

----------------------------------------------------------------------------
(* The DNS list.  shown is what the container holds; overlay is the        *)
(* request whose loading overlay lies on it (0: none) and mask the overlay *)
(* of the refresh button; pages is the count the shown buttons know.       *)
DnsInit ==
  dq = [filter |-> "", typed |-> "", timer |-> FALSE, page |-> 1, shown |-> {"loading"},
        pages |-> 0, overlay |-> 0, mask |-> FALSE, busy |-> FALSE, sent |-> 0, reqs |-> {}]

(* updateQueries up to the call: a container with content gets an overlay  *)
(* unless it has one, which the request then shares                        *)
UpdateQueries(s, refresh) ==
  LET id == s.sent + 1
      div == IF s.shown = {} THEN 0 ELSE IF s.overlay # 0 THEN s.overlay ELSE id
  IN [s EXCEPT !.sent = id, !.overlay = div,
               !.shown = IF @ = {} THEN {"loading"} ELSE @,
               !.reqs = @ \union {[id |-> id, page |-> s.page, filter |-> s.filter,
                                   div |-> div, refresh |-> refresh]}]
CanAsk(s) == s.sent < MaxListRequests

KeepsOverlay(r) == [dq EXCEPT !.reqs = @ \ {r}, !.mask = FALSE, !.busy = @ /\ ~r.refresh]
(* updateQueries, the first lines of the answer: this request's overlay    *)
(* goes, and any mask; finally gives the refresh button back               *)
Answered(r) ==
  [dq EXCEPT !.reqs = @ \ {r}, !.mask = FALSE,
             !.overlay = IF @ = r.div THEN 0 ELSE @,
             !.busy = @ /\ ~r.refresh]
(* Clearing the container takes everything in it, overlays included.       *)
Cleared(s, content) == [s EXCEPT !.shown = {content}, !.overlay = 0, !.pages = 0]

(* updateQueries: an answer with n pages has rows when it still has the    *)
(* page that was asked for.  The old table and the loading text are        *)
(* replaced; an error text stays where it is.                              *)
QueriesAnswer(r, n) ==
  LET s == Answered(r)
  IN dq' = IF r.page > n THEN Cleared(s, "empty")
           ELSE [s EXCEPT !.shown = (@ \ {"loading", "empty"}) \union {"table"}, !.pages = n]
QueriesFail(r) == dq' = Cleared(Answered(r), "error")

FirstQueries == dq.sent = 0 /\ dq' = UpdateQueries(dq, FALSE)
(* the buttons under the table, which know the count it was drawn with     *)
PrevQueries ==
  "table" \in dq.shown /\ dq.page > 1 /\ CanAsk(dq)
  /\ dq' = UpdateQueries([dq EXCEPT !.page = @ - 1], FALSE)
NextQueries ==
  "table" \in dq.shown /\ dq.page < dq.pages /\ CanAsk(dq)
  /\ dq' = UpdateQueries([dq EXCEPT !.page = @ + 1], FALSE)
QueriesPageSize ==
  "table" \in dq.shown /\ CanAsk(dq) /\ dq' = UpdateQueries([dq EXCEPT !.page = 1], FALSE)
(* performSearch, and debounceSearch in front of it for the text fields    *)
PerformSearch(s) ==
  UpdateQueries([s EXCEPT !.filter = s.typed, !.page = 1, !.timer = FALSE], FALSE)
TypeFilter(f) ==
  dq.sent > 0 /\ dq.typed # f /\ dq' = [dq EXCEPT !.typed = f, !.timer = TRUE]
DebounceSearch == dq.timer /\ CanAsk(dq) /\ dq' = PerformSearch(dq)
(* a select searches at once; the timer of a text field goes on            *)
SelectFilter(f) ==
  dq.sent > 0 /\ dq.typed # f /\ CanAsk(dq)
  /\ dq' = [PerformSearch([dq EXCEPT !.typed = f]) EXCEPT !.timer = dq.timer]
RefreshQueries ==
  dq.sent > 0 /\ ~dq.busy /\ CanAsk(dq)
  /\ dq' = UpdateQueries([dq EXCEPT !.busy = TRUE, !.mask = TRUE], TRUE)

DnsNext ==
  \/ FirstQueries \/ PrevQueries \/ NextQueries \/ QueriesPageSize
  \/ DebounceSearch \/ RefreshQueries
  \/ \E f \in ListFilters : TypeFilter(f) \/ SelectFilter(f)
  \/ \E r \in dq.reqs : QueriesFail(r) \/ \E n \in 0 .. MaxPages : QueriesAnswer(r, n)

----------------------------------------------------------------------------
(* The statistics cards, asked for every second and by the refresh button  *)
StatsLists == {"query types", "domains", "devices", "servers"}
StatsInit == dt = [asked |-> 0, out |-> 0, cards |-> {}]
UpdateStats ==
  dt.asked < MaxListRequests /\ dt' = [dt EXCEPT !.asked = @ + 1, !.out = @ + 1]
StatsAnswer(lists) ==
  dt.out > 0 /\ dt' = [dt EXCEPT !.out = @ - 1, !.cards = {"counts", "times"} \union lists]
StatsFail == dt.out > 0 /\ dt' = [dt EXCEPT !.out = @ - 1, !.cards = {}]
DnsStatsNext ==
  UpdateStats \/ StatsFail \/ \E lists \in SUBSET StatsLists : StatsAnswer(lists)

----------------------------------------------------------------------------
(* The connections page: a polled table whose rows open a dialog with the  *)
(* connections of one device.  Every dialog has variables of its own, so   *)
(* only the last one opened is kept; a request knows its dialog.           *)
NoRows == [what |-> "loading", page |-> 0, filter |-> ""]
NewDialog(n) ==
  [n |-> n, open |-> TRUE, page |-> 1, pages |-> 1, info |-> 1, filter |-> "", rows |-> NoRows]
ConnectionsInit ==
  cf = [table |-> "loading", dialog |-> [NewDialog(0) EXCEPT !.open = FALSE],
        sent |-> 0, reqs |-> {}]

(* updateConnectionData: updateDeviceTable shows rows or "No Data";        *)
(* anything else is showError                                              *)
UpdateDeviceTable(what) == cf' = [cf EXCEPT !.table = what]
UpdateConnectionData == \E what \in {"rows", "empty", "error"} : UpdateDeviceTable(what)

(* loadFlows up to the call                                                *)
LoadFlows(d, resetPage) ==
  LET dlg == [d EXCEPT !.page = IF resetPage THEN 1 ELSE @, !.rows = NoRows]
  IN cf' = [cf EXCEPT !.dialog = dlg, !.sent = @ + 1,
              !.reqs = @ \union {[id |-> cf.sent + 1, dialog |-> dlg.n,
                                  page |-> dlg.page, filter |-> dlg.filter]}]
MayLoad == cf.sent < MaxListRequests
InDialog == cf.dialog.open /\ MayLoad
ShowFlowsModal ==
  cf.table = "rows" /\ ~cf.dialog.open /\ MayLoad
  /\ LoadFlows(NewDialog(cf.dialog.n + 1), TRUE)
HideFlowsModal == cf.dialog.open /\ cf' = [cf EXCEPT !.dialog.open = FALSE]
(* a button is enabled by the last updatePaginationUi and then checks the  *)
(* variables again                                                         *)
FlowsPrev ==
  /\ InDialog /\ cf.dialog.info > 1 /\ cf.dialog.page > 1
  /\ LoadFlows([cf.dialog EXCEPT !.page = @ - 1], FALSE)
FlowsNext ==
  /\ InDialog /\ cf.dialog.info < cf.dialog.pages /\ cf.dialog.page < cf.dialog.pages
  /\ LoadFlows([cf.dialog EXCEPT !.page = @ + 1], FALSE)
OnFlowsFilter(f) == InDialog /\ LoadFlows([cf.dialog EXCEPT !.filter = f], TRUE)
(* the page size, and the refresh button: its click event is the argument  *)
(* resetPage                                                               *)
ReloadFlows == InDialog /\ LoadFlows(cf.dialog, TRUE)

(* normalizeFlowsResponse: an old daemon sends everything as one page, a   *)
(* new one the page asked for; an answer that is neither stands for an     *)
(* empty page                                                              *)
NormalizeFlowsResponse(d, r, kind, n) ==
  CASE kind = "array" -> [page |-> 1, pages |-> 1, some |-> n > 0]
    [] kind = "paged" -> [page |-> r.page, pages |-> n, some |-> r.page <= n]
    [] kind = "bad"   -> [page |-> d.page, pages |-> 1, some |-> FALSE]
(* loadFlows: the answer also says which page is now the current one       *)
ShowFlows(d, r, a) ==
  [d EXCEPT !.page = a.page, !.info = a.page, !.pages = IF a.pages > 1 THEN a.pages ELSE 1,
            !.rows = [what |-> IF a.some THEN "rows" ELSE "empty",
                      page |-> a.page, filter |-> r.filter]]
FlowsAnswer(r, kind, n) ==
  cf' = [cf EXCEPT !.reqs = @ \ {r},
                   !.dialog = IF @.n # r.dialog THEN @
                              ELSE ShowFlows(@, r, NormalizeFlowsResponse(@, r, kind, n))]
FlowsFail(r) ==
  cf' = [cf EXCEPT !.reqs = @ \ {r},
                   !.dialog = IF @.n # r.dialog THEN @
                              ELSE [@ EXCEPT !.page = 1, !.info = 1, !.pages = 1,
                                             !.rows = [NoRows EXCEPT !.what = "error"]]]

ConnectionsNext ==
  \/ UpdateConnectionData \/ ShowFlowsModal \/ HideFlowsModal
  \/ FlowsPrev \/ FlowsNext \/ ReloadFlows
  \/ \E f \in ListFilters : OnFlowsFilter(f)
  \/ \E r \in cf.reqs :
       \/ FlowsFail(r)
       \/ \E kind \in {"array", "paged", "bad"}, n \in 0 .. MaxPages : FlowsAnswer(r, kind, n)

----------------------------------------------------------------------------
(* However the requests of the DNS list overlap, a loading overlay on it   *)
(* belongs to a request that is still under way, and a disabled refresh    *)
(* button to its own request: once everything is answered the list can be  *)
(* read and the button used.  (updateQueries shares overlays between       *)
(* requests and removes the one it started with.)                          *)
DnsListReadable ==
  /\ dq.overlay # 0 => \E r \in dq.reqs : r.div = dq.overlay
  /\ dq.mask => dq.reqs # {}
  /\ dq.busy => \E r \in dq.reqs : r.refresh
  /\ dq.page \in 1 .. MaxPages

(* Whatever the order of the answers, when the last one is in, the rows,   *)
(* the page line and the variable the buttons start from are of one page.  *)
(* (loadFlows takes the page from the answer.)                             *)
FlowsPageAgrees ==
  LET d == cf.dialog
  IN (\A r \in cf.reqs : r.dialog # d.n)
     => /\ d.info = d.page
        /\ d.rows.what = "rows" => d.rows.page = d.page
=============================================================================
