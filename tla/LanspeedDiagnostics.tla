------------------------- MODULE LanspeedDiagnostics -------------------------
(***************************************************************************)
(* The diagnostics page of lanspeed.  It asks the daemon for six answers   *)
(* at once; an answer that fails is replaced by the last one, for a while  *)
(* (diagnosticsResources.js), each answer is shown in cards that say good, *)
(* warning or bad (diagnosticsStates.js, diagnosticsRefresh.js), and the   *)
(* service can be restarted from the page (diagnosticsView.js).            *)
(*                                                                         *)
(* dg.res has a resource for each answer: its phase, whether it is usable  *)
(* and retained, and the time at which it was fetched.  dg.flights are the *)
(* rounds of requests under way, each with the resources it was started    *)
(* with; dg.answered is when the daemon last gave each valid answer.       *)
(***************************************************************************)
EXTENDS Integers, FiniteSets, Sequences

CONSTANTS RPC_KEYS, RetainMs, MaxChecks2, MaxDgTime

ASSUME DiagnosticsAssumption ==
  /\ RPC_KEYS \subseteq {"diagnostics", "status", "health", "clients", "interfaces", "overview"}
  /\ RetainMs \in Nat /\ MaxChecks2 \in Nat /\ MaxDgTime \in Nat

VARIABLE dg

NeverFetched == -1

----------------------------------------------------------------------------
(* Resources                                                               *)
NoResource == [phase |-> "loading", usable |-> FALSE, retained |-> FALSE, fetched |-> NeverFetched]
LoadingResource(previous) == [previous EXCEPT !.phase = "loading"]
(* default 30 s, ten refresh intervals, at most two minutes                *)
RetentionLimit(interval) ==
  LET ten == interval * 10
  IN IF ten < 30000 THEN 30000 ELSE IF ten > 120000 THEN 120000 ELSE ten
ASSUME RetentionIsBounded ==
  \A i, j \in {0, 500, 2999, 3001, 12000, 12001, 60000} :
    /\ RetentionLimit(i) \in 30000..120000
    /\ i <= j => RetentionLimit(i) <= RetentionLimit(j)
UsableResource(r, now) ==
  /\ r.phase \notin {"error", "invalid"}
  /\ r.phase = "loading" => r.usable
  /\ r.fetched # NeverFetched
  /\ r.fetched <= now /\ now - r.fetched <= RetainMs
(* result is the phase of a valid answer, "error" (refused, timed out) or  *)
(* "invalid" (it breaks the contract)                                      *)
ResourceForResult(result, previous, now) ==
  IF result \in {"success", "empty", "stale", "degraded"}
    THEN [phase |-> result, usable |-> TRUE, retained |-> FALSE, fetched |-> now]
  ELSE IF UsableResource(previous, now)
    THEN [previous EXCEPT !.phase = "stale", !.usable = TRUE, !.retained = TRUE]
  ELSE [phase |-> result, usable |-> FALSE, retained |-> FALSE, fetched |-> NeverFetched]
(* The phases a valid answer of a source can have                          *)
PhaseForValue(key) ==
  CASE key = "diagnostics" -> {"success", "stale", "degraded"}
    [] key \in {"clients", "interfaces", "overview"} -> {"success", "empty"}
    [] OTHER -> {"success"}
RunCall(key) == PhaseForValue(key) \cup {"error", "invalid"}

RpcState(r) ==
  CASE r.phase = "stale" -> IF r.retained THEN "retained" ELSE "success"
    [] r.phase = "error" -> "failed"
    [] OTHER -> r.phase
RpcOk(r) == r.usable /\ r.phase \notin {"loading", "error", "invalid"}
PageState(res) ==
  LET hard == {k \in RPC_KEYS : RpcState(res[k]) \in {"failed", "invalid"}}
      usable == {k \in RPC_KEYS : RpcOk(res[k]) \/ res[k].retained}
  IN IF \E k \in RPC_KEYS : RpcState(res[k]) = "loading" THEN "loading"
     ELSE IF hard = RPC_KEYS THEN "error"
     ELSE IF hard # {} THEN "partial"
     ELSE IF \E k \in RPC_KEYS : res[k].phase \in {"degraded", "stale"} THEN "degraded"
     ELSE IF \A k \in RPC_KEYS \cap {"clients", "interfaces", "overview"} : res[k].phase = "empty" THEN "empty"
     ELSE "ready"
(* Whether the daemon's clocks move between two checks                     *)
AssessProgress(before, after, fresh, elapsed, refresh) ==
  LET compared == {k \in fresh : before[k] > 0 /\ after[k] > 0}
      stuck == {k \in compared : after[k] <= before[k]}
      soon == elapsed < 750 \/ 10 * elapsed < 9 * refresh
  IN [checked |-> ~soon /\ compared # {}, stale |-> ~soon /\ compared # {} /\ stuck = compared,
      lagging |-> ~soon /\ stuck # {}]
(* A clock is only called stuck when it was compared: a page that asks     *)
(* again too soon, or a source that failed, accuses no clock.              *)
ASSUME NoHastyVerdict ==
  \A before, after \in [{"clients", "overview"} -> 0..2], fresh \in SUBSET {"clients", "overview"},
     elapsed \in {100, 1000, 2000} :
    LET p == AssessProgress(before, after, fresh, elapsed, 1500)
    IN  /\ p.stale => p.checked /\ p.lagging
        /\ p.lagging => p.checked /\ elapsed = 2000
        /\ (\A k \in fresh : after[k] > before[k]) => ~p.lagging

----------------------------------------------------------------------------
(* The page                                                                *)
DiagnosticsInit ==
  dg = [now |-> 0, req |-> 0, res |-> [k \in RPC_KEYS |-> NoResource], checked |-> 0, flights |-> {},
        started |-> FALSE, restart |-> "none", copying |-> FALSE, checks |-> 0,
        answered |-> [k \in RPC_KEYS |-> NeverFetched]]
DgClock == dg.now < MaxDgTime /\ dg' = [dg EXCEPT !.now = @ + 1]

ReloadFrom(d) ==
  [d EXCEPT !.req = @ + 1, !.checks = @ + 1,
            !.res = [k \in RPC_KEYS |-> LoadingResource(d.res[k])],
            !.flights = @ \cup {[id |-> d.req + 1, previous |-> d.res]}]
DgMayCheck == dg.checks < MaxChecks2
ScheduleInitial == ~dg.started /\ dg' = ReloadFrom([dg EXCEPT !.started = TRUE])
DgRefreshClicked ==
  /\ PageState(dg.res) # "loading" /\ dg.restart = "none" /\ DgMayCheck
  /\ dg' = ReloadFrom(dg)
(* All six calls have been answered or timed out; the page may have been   *)
(* loaded again since                                                      *)
ResultsArrive ==
  \E f \in dg.flights, results \in [RPC_KEYS -> {"success", "empty", "stale", "degraded", "error", "invalid"}] :
    /\ \A k \in RPC_KEYS : results[k] \in RunCall(k)
    /\ dg' = [dg EXCEPT
         !.flights = @ \ {f},
         !.restart = IF @ = "reloading" /\ f.id = dg.req THEN "none" ELSE @,
         !.checked = IF f.id = dg.req THEN dg.now ELSE @,
         !.answered = IF f.id # dg.req THEN @
                      ELSE [k \in RPC_KEYS |-> IF results[k] \in PhaseForValue(k) THEN dg.now ELSE @[k]],
         !.res = IF f.id # dg.req THEN @
                 ELSE [k \in RPC_KEYS |-> ResourceForResult(results[k], f.previous[k], dg.now)]]

RestartService ==
  /\ dg.restart = "none" /\ PageState(dg.res) # "loading" /\ DgMayCheck
  /\ dg' = [dg EXCEPT !.restart = "asked"]
RestartAnswered(ok) ==
  /\ dg.restart = "asked"
  /\ dg' = [dg EXCEPT !.restart = IF ok THEN "waiting" ELSE "none"]
WaitForRestart ==
  /\ dg.restart = "waiting"
  /\ dg' = ReloadFrom([dg EXCEPT !.restart = "reloading"])
CopyReport ==
  /\ ~dg.copying /\ dg.restart = "none" /\ PageState(dg.res) # "loading"
  /\ dg' = [dg EXCEPT !.copying = TRUE]
CopyDone == dg.copying /\ dg' = [dg EXCEPT !.copying = FALSE]

DiagnosticsNext ==
  \/ DgClock \/ ScheduleInitial \/ DgRefreshClicked \/ ResultsArrive \/ RestartService
  \/ \E ok \in BOOLEAN : RestartAnswered(ok)
  \/ WaitForRestart \/ CopyReport \/ CopyDone
DiagnosticsSpec == DiagnosticsInit /\ [][DiagnosticsNext]_dg

(* What the page shows was fetched at most RetainMs before it was checked, *)
(* however often the daemon fails to answer, and a page that says it is    *)
(* loading waits for the round of requests it sent last                    *)
(* (diagnosticsResources.js:116-158, diagnosticsView.js:256-292).          *)
RetainedIsRecent ==
  /\ \A k \in RPC_KEYS :
       RpcOk(dg.res[k]) => dg.answered[k] # NeverFetched /\ dg.checked - dg.answered[k] \in 0..RetainMs
  /\ dg.started /\ PageState(dg.res) = "loading" => \E f \in dg.flights : f.id = dg.req

----------------------------------------------------------------------------
(* The cards.  A view v has the state of each answer, v.rpc, and what the  *)
(* answers say.                                                            *)
StateRank == [neutral |-> 0, good |-> 1, warning |-> 2, bad |-> 3]
WorseState(a, b) == IF StateRank[b] > StateRank[a] THEN b ELSE a
RpcBad == {"failed", "invalid", "missing"}
(* the rule most cards share                                               *)
WithRpc(state, rpcs) ==
  CASE rpcs \cap RpcBad # {} -> "bad"
    [] rpcs \cap RpcBad = {} /\ "loading" \in rpcs -> "warning"
    [] OTHER -> IF "retained" \in rpcs THEN WorseState(state, "warning") ELSE state

(* The NSS platform is known by its profile, or else by its architecture   *)
NssPlatform(p) ==
  IF p.profile # "" THEN p.profile = "nss_aarch64"
  ELSE p.arch = "aarch64" /\ p.compiled /\ p.capable
UsesAccessEdge(v) == v.nss /\ v.rateMode = "auto" /\ v.edgeMode = "active" /\ v.internet # "routed"
UsesRoutedInternet(v) == v.nss /\ v.internet = "routed"

(* A client's rate has two directions, each with a source and a coverage   *)
Directions(clients) == (DOMAIN clients) \X {"tx", "rx"}
FallbackSources == {"fast_routed_lease", "ecm_bpf_fallback", "ecm_nss_lower_bound", "tc_bpf_lower_bound"}
CollectRateFacts(clients) ==
  LET Dir(d) == clients[d[1]][d[2]]
      Unavailable(d) == Dir(d).source = "none" \/ Dir(d).coverage = "unavailable"
  IN [unavailable |-> {d \in Directions(clients) : Unavailable(d)},
      owner |-> {d \in Directions(clients) : ~Unavailable(d)},
      fallback |-> {d \in Directions(clients) : Dir(d).source \in FallbackSources},
      stale |-> {d \in Directions(clients) : Dir(d).stale},
      degraded |-> {d \in Directions(clients) : Dir(d).coverage = "degraded"}]

EdgePublished(e) == e.complete /\ e.published >= e.active
AccessEdgeCoverage(e) ==
  IF ~e.present THEN [state |-> "warning", quality |-> "warmup"]
  ELSE [quality |-> e.coverage,
        state |-> IF e.coverage = "unavailable" THEN "bad"
                  ELSE IF e.coverage = "degraded" \/ ~EdgePublished(e) THEN "warning" ELSE "good"]
CoverageByPct(pct) == IF pct < 60 THEN "bad" ELSE IF pct < 85 THEN "warning" ELSE "good"
NoPct == -1
CoverageState(v) ==
  IF v.rateMode = "auto" /\ v.edgeMode = "active" THEN AccessEdgeCoverage(v.edge)
  ELSE [quality |-> v.quality,
        state |-> CASE v.quality \in {"ok", "low_traffic"} /\ v.pct # NoPct -> CoverageByPct(v.pct)
                    [] v.quality = "idle" -> "good"
                    [] v.quality = "unsupported" -> "bad"
                    [] OTHER -> "warning"]

RateOwnerState(v) ==
  LET facts == CollectRateFacts(v.clients)
      coverage == CoverageState(v)
      own == IF UsesAccessEdge(v) THEN
                    IF facts.unavailable # {} \/ coverage.quality = "unavailable" THEN "bad"
                    ELSE IF \/ facts.fallback # {} \/ facts.degraded # {} \/ facts.stale # {}
                            \/ coverage.quality = "degraded" THEN "warning"
                    ELSE IF coverage.quality \in {"full", "partial"} THEN "good" ELSE coverage.state
             ELSE IF UsesRoutedInternet(v) THEN
                    IF facts.unavailable # {} THEN "bad" ELSE IF facts.stale # {} THEN "warning" ELSE "good"
             ELSE IF v.collector = "unsupported" THEN "bad" ELSE coverage.state
  IN WithRpc(own, {v.rpc.status, v.rpc.clients})
AccessEdgeState(v) ==
  LET owner == UsesAccessEdge(v)
      own == IF v.edge.coverage = "unavailable" /\ owner THEN "bad"
             ELSE IF ~EdgePublished(v.edge) \/ (v.edge.coverage = "degraded" /\ owner) THEN "warning"
             ELSE "good"
  IN CASE ~v.nss \/ v.edgeMode = "off" -> "neutral"
       [] v.nss /\ v.edgeMode # "off" /\ ~v.edge.present ->
            IF v.rpc.clients = "failed" THEN "bad" ELSE "warning"
       [] OTHER -> WithRpc(own, {v.rpc.clients})
(* v.maps: whether the classifier's maps are there, lose or fill up;       *)
(* v.classes: the state of each client's classification, "" for none       *)
PendingClasses == {"", "warmup", "partial", "stale", "window_mismatch", "unavailable"}
ClassifierMapState(maps) == [available |-> maps # {}, loss |-> "loss" \in maps, pressure |-> "pressure" \in maps]
ClassificationState(v) ==
  LET maps == ClassifierMapState(v.maps)
      pending == v.classes \cap PendingClasses # {} \/ v.domainMismatch
      classified == v.classes \ {""} # {}
      own == IF maps.loss \/ "map_loss" \in v.classes THEN "bad"
             ELSE IF maps.pressure \/ ~maps.available \/ pending \/ ~classified THEN "warning"
             ELSE "good"
  IN IF ~v.nss THEN "neutral" ELSE WithRpc(own, {v.rpc.clients})
NssControlState(v) ==
  LET own == CASE v.control.state = "verified" -> "good"
               [] v.control.state \in {"error", "unavailable"} -> "bad"
               [] v.control.state = "inactive" -> "neutral"
               [] OTHER -> "warning"
  IN IF ~v.nss THEN "neutral"
     ELSE IF v.control.state = "none" THEN IF v.rpc.clients \in RpcBad THEN "bad" ELSE "warning"
     ELSE WithRpc(own, {v.rpc.clients})
IntegrityState(v) ==
  LET facts == CollectRateFacts(v.clients)
  IN WithRpc(IF facts.unavailable # {} THEN "bad"
             ELSE IF facts.fallback # {} \/ facts.stale # {} \/ v.reasons # {} THEN "warning" ELSE "good",
             {v.rpc.clients})
(* The daemon's own report, when it can be used, says how fresh it is      *)
FreshnessState(v, contract, progress, age, refresh) ==
  IF contract # "none"
    THEN LET own == CASE contract = "fresh" -> "good" [] contract = "unavailable" -> "bad" [] OTHER -> "warning"
         IN IF v.rpc.diagnostics = "retained" THEN WorseState(own, "warning") ELSE own
  ELSE IF v.rpc.diagnostics = "loading" \/ ~progress.checked THEN "warning"
  ELSE IF progress.stale \/ age > 5 * refresh THEN "bad"
  ELSE IF 2 * age > 5 * refresh \/ progress.lagging THEN "warning" ELSE "good"
DataPathState(rate, connection, known, confidence) ==
  IF "unsupported" \in {rate, connection} THEN "bad"
  ELSE IF ~known \/ confidence # "high" THEN "warning" ELSE "good"
ContractPathState(rate, connection, fallback, retained) ==
  IF "unsupported" \in {rate, connection} THEN "bad" ELSE IF fallback \/ retained THEN "warning" ELSE "good"
PathStateWithRpc(base, rpc) ==
  LET all == {rpc.clients, rpc.status, rpc.health}
  IN CASE rpc.clients \in RpcBad -> "bad"
       [] rpc.clients \notin RpcBad /\ (all \cap RpcBad # {} \/ "retained" \in all \/ rpc.clients = "empty") ->
            WorseState(base, "warning")
       [] OTHER -> IF "loading" \in all THEN "warning" ELSE base
ConnectionState(source, known, seen, matched, errors) ==
  CASE source \in {"", "unsupported"} \/ matched > seen \/ errors > 10 -> "bad"
    [] OTHER -> IF ~known \/ errors > 0 \/ (seen > 0 /\ 10 * matched < 7 * seen) THEN "warning" ELSE "good"
ConnectionStateWithRpc(base, rpc) ==
  CASE rpc \in RpcBad -> "bad"
    [] rpc \in {"retained", "empty"} -> WorseState(base, "warning")
    [] rpc = "loading" -> "warning"
    [] OTHER -> base
InterfaceState(statuses) ==
  IF statuses \cap {"missing", "unsupported"} # {} THEN "bad"
  ELSE IF statuses \ {"available", "active", "excluded"} # {} \/ statuses \subseteq {"excluded"} THEN "warning"
  ELSE "good"
(* total is what the report says there is, listed what was answered        *)
InterfaceStateWithRpc(base, rpc, total, listed) ==
  CASE rpc \in RpcBad -> "bad"
    [] rpc = "retained" -> WorseState(base, "warning")
    [] rpc = "empty" -> IF total > 0 THEN "bad" ELSE "warning"
    [] rpc = "loading" -> "warning"
    [] OTHER -> IF total # listed THEN "bad" ELSE base
VersionState(daemon, frontend, pack) ==
  IF daemon # "" /\ daemon = frontend /\ daemon = pack THEN "good" ELSE "warning"
VersionStateWithRpc(base, rpc, backend, contractDaemon) ==
  IF rpc \in RpcBad \cup {"loading", "retained"} \/ backend # contractDaemon THEN "warning" ELSE base
QualityState(v, freshness) ==
  LET coverage == CoverageState(v)
      seen == IF v.rpc.status \in RpcBad THEN "bad" ELSE IF v.rpc.status = "loading" THEN "warning"
              ELSE coverage.state
  IN WorseState(IF v.rateMode = "auto" /\ v.edgeMode = "active" THEN WithRpc(seen, {v.rpc.clients}) ELSE seen,
                freshness)
(* What the control section of the page shows of the NSS control           *)
ControlStages(v) ==
  LET c == v.control
      state == NssControlState(v)
      stages == {IF c.supported THEN "good" ELSE "bad",
                 IF c.required = 0 THEN "neutral" ELSE IF c.verified = c.required THEN "good" ELSE "warning",
                 IF c.errors > 0 THEN "bad" ELSE IF c.verified < c.required THEN "warning" ELSE "good",
                 IF c.blocked = 0 THEN "neutral" ELSE IF c.blocking = c.blocked /\ c.errors = 0 THEN "good" ELSE "bad"}
  IN IF state = "bad" THEN {"bad"}
     ELSE {IF s = "good" /\ state = "warning" THEN "warning" ELSE s : s \in stages}

(* Warnings of several sources with one id are one warning; the daemon's   *)
(* own report decides its severity, and otherwise the most severe counts   *)
Severity == [info |-> 0, warning |-> 1, critical |-> 2]
MergeWarnings(ws, nss) ==
  LET ids == {w.id : w \in ws} \ (IF nss THEN {} ELSE {w.id : w \in {x \in ws : x.nss}})
      Of(id) == {w \in ws : w.id = id}
      Counts(id) == IF \E w \in Of(id) : w.source = "diagnostics"
                      THEN {w \in Of(id) : w.source = "diagnostics"} ELSE Of(id)
  IN {[id |-> id, severity |-> (CHOOSE w \in Counts(id) :
                                  \A u \in Counts(id) : Severity[u.severity] <= Severity[w.severity]).severity] :
        id \in ids}
WarningState(merged) ==
  IF \E w \in merged : w.severity = "critical" THEN "bad" ELSE IF merged # {} THEN "warning" ELSE "good"

(* The views over which the cards are compared                             *)
DiagnosedClients ==
  {<<>>} \cup {<<[tx |-> d, rx |-> [source |-> "edge_port", coverage |-> "full", stale |-> FALSE]]>> :
                 d \in {[source |-> s, coverage |-> c, stale |-> t] :
                          s \in {"edge_port", "ecm_bpf_fallback", "none"}, c \in {"full", "degraded", "unavailable"},
                          t \in BOOLEAN}}
SampleEdges == {[present |-> p, coverage |-> c, complete |-> TRUE, active |-> 1, published |-> n] :
                  p \in BOOLEAN, c \in {"full", "degraded", "unavailable"}, n \in {0, 1}}
SampleControls == {[state |-> s, supported |-> TRUE, required |-> 1, verified |-> n, errors |-> e,
                    blocked |-> 1, blocking |-> n] :
                     s \in {"none", "verified", "error", "inactive", "pending"}, n \in {0, 1}, e \in {0, 1}}
SampleView(nss, mode, edgeMode, internet, cs, e, c, rpc) ==
  [nss |-> nss, rateMode |-> mode, edgeMode |-> edgeMode, internet |-> internet, clients |-> cs, edge |-> e,
   control |-> c, quality |-> "ok", pct |-> 90, collector |-> "bpf", maps |-> {"ready"}, classes |-> {"aligned"},
   domainMismatch |-> FALSE, reasons |-> {}, rpc |-> [status |-> rpc, clients |-> rpc, diagnostics |-> rpc]]
SampleEdge == [present |-> TRUE, coverage |-> "full", complete |-> TRUE, active |-> 1, published |-> 1]
SampleControl == [state |-> "verified", supported |-> TRUE, required |-> 1, verified |-> 1, errors |-> 0,
                  blocked |-> 1, blocking |-> 1]

(* "A failed or retained clients RPC must never leave a green stage behind *)
(* (diagnosticsRefresh.js:260): whatever the daemon last said, a card is   *)
(* not good when its answer failed, is retained or is still awaited.       *)
ASSUME NoGreenStage ==
  \A rpc \in RpcBad \cup {"retained", "loading"}, nss \in BOOLEAN, edgeMode \in {"off", "shadow", "active"},
     internet \in {"off", "routed"} :
    /\ \A cs \in DiagnosedClients, e \in SampleEdges :
         LET v == SampleView(nss, "auto", edgeMode, internet, cs, e, SampleControl, rpc)
         IN "good" \notin {RateOwnerState(v), AccessEdgeState(v), ClassificationState(v), IntegrityState(v)}
    /\ \A c \in SampleControls :
         LET v == SampleView(nss, "auto", edgeMode, internet, <<>>, SampleEdge, c, rpc)
         IN NssControlState(v) # "good" /\ (nss => "good" \notin ControlStages(v))
    /\ \A base \in {"good", "warning", "bad"} :
         /\ "good" \notin {ConnectionStateWithRpc(base, rpc), InterfaceStateWithRpc(base, rpc, 1, 1),
                           VersionStateWithRpc(base, rpc, "1", "1")}
         /\ PathStateWithRpc(base, [clients |-> rpc, status |-> "success", health |-> "success"]) # "good"
         /\ PathStateWithRpc(base, [clients |-> "success", status |-> rpc, health |-> "success"]) # "good"
(* A card never improves while what it reports gets worse: the report      *)
(* ages, errors are added, fewer connections match, an interface is lost.  *)
(* The quality card is no better than the freshness of what it shows, and  *)
(* a collector that is not supported is bad whichever source reports it.   *)
Rank(state) == StateRank[state]
ASSUME WorseIsWorse ==
  LET view == SampleView(TRUE, "auto", "active", "off", <<>>, SampleEdge, SampleControl, "success")
      moving == [checked |-> TRUE, stale |-> FALSE, lagging |-> FALSE]
      statuses == {"available", "excluded", "pending", "missing"}
  IN  /\ \A a, b \in 0..12 : a <= b =>
           Rank(FreshnessState(view, "none", moving, a, 2)) <= Rank(FreshnessState(view, "none", moving, b, 2))
      /\ \A seen \in {0, 10}, m, n \in 0..10, e \in {0, 1, 11} : m <= n /\ n <= seen =>
           /\ Rank(ConnectionState("conntrack", TRUE, seen, n, e)) <= Rank(ConnectionState("conntrack", TRUE, seen, m, e))
           /\ Rank(ConnectionState("conntrack", TRUE, seen, m, 0)) <= Rank(ConnectionState("conntrack", TRUE, seen, m, e))
      /\ \A s \in SUBSET statuses :
           /\ Rank(InterfaceState(s)) <= Rank(InterfaceState(s \cup {"missing"}))
           /\ InterfaceState(s) = "good" => "available" \in s
      /\ \A f \in DOMAIN StateRank : Rank(f) <= Rank(QualityState(view, f))
      /\ \A r, c \in {"bpf", "unsupported"}, known, x \in BOOLEAN :
           (DataPathState(r, c, known, "high") = "bad") <=> (ContractPathState(r, c, x, FALSE) = "bad")
      /\ \A d, f, p \in {"", "1", "2"} : VersionState(d, f, p) = "good" => VersionState(p, d, f) = "good"
(* The routed Internet view and the access edge never own the rates both,  *)
(* and neither exists away from the NSS platform.                          *)
ASSUME OneRateOwner ==
  \A profile \in {"", "nss_aarch64", "x86"}, arch \in {"aarch64", "x86_64"}, compiled, capable \in BOOLEAN,
     edgeMode \in {"off", "shadow", "active"}, internet \in {"off", "routed"} :
    LET nss == NssPlatform([profile |-> profile, arch |-> arch, compiled |-> compiled, capable |-> capable])
        view == SampleView(nss, "auto", edgeMode, internet, <<>>, SampleEdge, SampleControl, "success")
    IN  /\ ~(UsesAccessEdge(view) /\ UsesRoutedInternet(view))
        /\ nss => profile = "nss_aarch64" \/ (profile = "" /\ arch = "aarch64")
        /\ UsesAccessEdge(view) \/ UsesRoutedInternet(view) => nss
(* Merging warnings keeps one of each id, loses none that applies to the   *)
(* platform, and nothing but the daemon's own report makes one milder.     *)
SampleWarnings ==
  [id : {"w1", "w2"}, severity : {"info", "critical"}, source : {"diagnostics", "status"}, nss : BOOLEAN]
ASSUME WarningsAreMerged ==
  \A ws \in {x \in SUBSET SampleWarnings : Cardinality(x) <= 3}, nss \in BOOLEAN :
    LET merged == MergeWarnings(ws, nss)
        hidden == {w.id : w \in {x \in ws : x.nss /\ ~nss}}
    IN  /\ {m.id : m \in merged} = {w.id : w \in ws} \ hidden
        /\ Cardinality(merged) = Cardinality({m.id : m \in merged})
        /\ (\E w \in ws : w.severity = "critical" /\ w.source = "diagnostics" /\ w.id \notin hidden)
             => WarningState(merged) = "bad"
        /\ (\A w \in ws : w.source # "diagnostics") =>
             \A m \in merged, w \in ws : w.id = m.id => Severity[w.severity] <= Severity[m.severity]
=============================================================================
