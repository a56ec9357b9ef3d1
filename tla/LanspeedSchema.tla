---------------------------- MODULE LanspeedSchema ----------------------------
(***************************************************************************)
(* What the diagnostics page of lanspeed accepts as an answer of the       *)
(* daemon (diagnosticsSchema.js).  An answer that is not accepted is       *)
(* "invalid" in LanspeedDiagnostics.                                       *)
(*                                                                         *)
(* An answer is a record; a shape gives the type of every field it may     *)
(* have and the set of fields it must have.  A type is a set of values:    *)
(* counters are naturals, null is Null, and a string is one of Texts, told *)
(* apart only by what the validators test (its length, its characters).    *)
(***************************************************************************)
EXTENDS Integers, FiniteSets, Sequences, FiniteSetsExt, SequencesExt

Null == -1
Code == {"code"}
Line == {"code", "a line of text"}
MaybeEmpty == {"", "code", "a line of text"}
NoCode == ""
HealthStates == {"healthy", "degraded", "unavailable", "disabled"}
RuntimeModes == {"Full", "Degraded", "Unsupported"}
Confidences == {"high", "medium", "low", "unsupported"}
Severities == {"info", "warning", "critical"}
MaxAlerts == 64
MaxConfigIssues == 16
MaxSubsystems == 16
MaxProbeFailures == 32
MaxReasonCodes == 16

Only(value, shape) == DOMAIN value \subseteq DOMAIN shape
Conforms(value, shape, required) ==
  /\ Only(value, shape) /\ required \subseteq DOMAIN value
  /\ \A f \in DOMAIN value : value[f] \in shape[f]
Exactly(value, shape) == Conforms(value, shape, DOMAIN shape)
Has(value, field) == field \in DOMAIN value
(* a list of records with the same shape                                   *)
ListOf(list, shape, required) == \A i \in DOMAIN list : Conforms(list[i], shape, required)
UniqueIds(list) == \A i, j \in DOMAIN list : list[i].id # NoCode /\ (list[i].id = list[j].id => i = j)
IsAmong(n) == 0..n

----------------------------------------------------------------------------
(* The daemon's report on itself                                           *)
PublicError ==
  [code : Code, category : {"transport", "collection", "reload", "serialization", "platform"}, stage : Code,
   retriable : BOOLEAN, message_public : Line]
ValidCollection(c) ==
  /\ c.state \in {"fresh", "stale", "degraded", "unavailable"}
  /\ c.generation >= 0 /\ c.refresh_interval_ms >= 500 /\ c.consecutive_failures >= 0
  /\ \A f \in {"last_attempt_ms", "last_success_ms", "age_ms"} : c[f] >= Null
  /\ c.last_attempt_ms # Null /\ c.last_success_ms # Null => c.last_success_ms <= c.last_attempt_ms
  /\ c.state \in {"fresh", "stale"} => c.generation >= 1 /\ c.last_success_ms # Null /\ c.age_ms # Null
  /\ c.retained => c.last_success_ms # Null
  /\ c.consecutive_failures > 0 => c.last_error # <<>>
  /\ c.last_error # <<>> => c.last_error[1] \in PublicError
ValidDataPath(p) ==
  /\ p.effective_rate # NoCode /\ p.effective_connection # NoCode
  /\ "unsupported" \in {p.effective_rate, p.effective_connection} => p.reason_code # NoCode
ValidInterfaceCounts(i) ==
  /\ i.state \in HealthStates
  /\ i.total >= 0 /\ i.available >= 0 /\ i.missing >= 0 /\ i.sample_ms >= Null
  /\ i.available + i.missing <= i.total
ValidConnection(c) ==
  /\ c.state \in HealthStates
  /\ \A f \in {"entries_seen", "entries_matched", "parse_errors"} : c[f] >= Null
  /\ c.entries_seen # Null /\ c.entries_matched # Null => c.entries_matched <= c.entries_seen
  /\ c.state = "healthy" => c.source # NoCode
ValidLists(v) ==
  /\ Len(v.subsystems) <= MaxSubsystems /\ UniqueIds(v.subsystems)
  /\ ListOf(v.subsystems, [id |-> Code, state |-> HealthStates, code |-> Code \cup {NoCode}], {"id", "state"})
  /\ Len(v.alerts) <= MaxAlerts /\ UniqueIds(v.alerts)
  /\ ListOf(v.alerts, [id |-> Code, severity |-> Severities, component |-> Code, state |-> {"active"},
                       message_public |-> Line], {"id", "severity", "component", "state", "message_public"})
  /\ Len(v.config_issues) <= MaxConfigIssues /\ UniqueIds(v.config_issues)
  /\ ListOf(v.config_issues, [id |-> Code, severity |-> Severities, option |-> Code,
                              state |-> {"adjusted", "compatibility_only", "required", "ineffective"},
                              message_public |-> Line], {"id", "severity", "option", "state", "message_public"})
ValidateDiagnosticsContract(v) ==
  /\ v.contract_version = 1
  /\ v.service.state \in {"starting", "running", "degraded"}
  /\ v.versions.contract_version = 1 /\ v.versions.schema_version = 1
  /\ ValidCollection(v.collection) /\ ValidDataPath(v.data_path) /\ ValidInterfaceCounts(v.interfaces)
  /\ ValidConnection(v.connection) /\ ValidLists(v)

----------------------------------------------------------------------------
(* The health of the collectors                                            *)
ValidateProbeFailures(p) ==
  /\ Len(p.items) <= MaxProbeFailures /\ p.total >= Len(p.items)
  /\ p.total > Len(p.items) => p.truncated
  /\ ListOf(p.items,
       [kind |-> {"command", "file", "uci", "ubus", "nss", "probe"}, source |-> Line, exit_code |-> Int,
        reason |-> {"availability_failed", "execution_failed", "nonzero_exit", "timeout", "output_truncated",
                    "read_failed", "load_failed", "query_failed", "state_probe_failed", "state_unreadable", "failed"}],
       {"kind", "source", "reason"})
ValidateBpfEvidence(b) ==
  /\ b.attach_state \in {"not_attempted", "ready", "partial", "failed"}
  /\ b.map_state \in {"not_attempted", "ready", "failed", "retained"}
  /\ b.attached_hook_count <= b.expected_hook_count
  /\ b.last_complete_snapshot_ms >= Null
  /\ b.collect_target_count = 0 => b.attach_state = "not_attempted"
  /\ b.attach_state = "ready" =>
       b.object_loaded /\ b.expected_hook_count # 0 /\ b.attached_hook_count = b.expected_hook_count
  /\ b.attach_state = "partial" => b.attached_hook_count \in 1..(b.expected_hook_count - 1)
  /\ b.map_state # "not_attempted" => b.attach_state = "ready"
  /\ b.map_state \in {"ready", "retained"} => b.last_complete_snapshot_ms # Null
  /\ (b.map_state = "retained") = b.retained_fresh_snapshot
ValidateHealthEvidence(e) == ValidateProbeFailures(e.probe_failures) /\ ValidateBpfEvidence(e.bpf)
ValidateCapabilities(c, keys) == Exactly(c, [k \in keys |-> BOOLEAN])
ValidateCoverage(c) ==
  Conforms(c, [quality |-> {"warmup", "pending", "idle", "low_traffic", "counter_reset", "counter_skew", "ok",
                            "unsupported"},
               samples |-> Nat, window_ms |-> Nat, tx_pct |-> IsAmong(100), rx_pct |-> IsAmong(100),
               denom_rx_bytes |-> Nat, denom_tx_bytes |-> Nat, numer_rx_bytes |-> Nat, numer_tx_bytes |-> Nat],
           {"quality", "samples"})
StatusShape ==
  [mode |-> RuntimeModes, confidence |-> Confidences, refresh_interval_ms |-> {n \in Nat : n >= 500},
   active_client_window_ms |-> {n \in Nat : n >= 1000}, active_client_min_bps |-> Nat \ {0},
   overview_window_samples |-> {n \in Nat : n >= 2},
   collector_mode |-> {"auto", "bpf", "nss_ecm_node", "nss_ecm_bpf", "conntrack_netlink", "conntrack_procfs",
                       "unsupported"},
   rate_collector_mode |-> {"auto", "bpf", "nss_ecm_node", "nss_ecm_bpf"},
   internet_view_mode |-> {"off", "routed"}, access_edge_mode |-> {"off", "shadow", "active"},
   conn_collector_mode |-> {"auto", "conntrack_netlink", "conntrack_procfs"}, version |-> Line]
(* v.base has the plain fields, the nested answers are fields of v         *)
ValidateStatusResponse(v, keys) ==
  /\ Conforms(v.base, StatusShape, {"mode", "confidence", "refresh_interval_ms", "rate_collector_mode",
                                    "conn_collector_mode", "version"})
  /\ \A i \in DOMAIN v.warnings : v.warnings[i] \in Line
  /\ ValidateCapabilities(v.capabilities, keys) /\ ValidateHealthEvidence(v.evidence)
  /\ \A i \in DOMAIN v.coverage : ValidateCoverage(v.coverage[i])
ValidateHealthResponse(v, keys) ==
  /\ v.mode \in RuntimeModes /\ v.confidence \in Confidences
  /\ \A i \in DOMAIN v.warnings : v.warnings[i] \in Line
  /\ ListOf(v.conflicts, [id |-> Line, severity |-> Severities, message |-> Line], {"id", "severity", "message"})
  /\ ValidateCapabilities(v.capabilities, keys) /\ ValidateHealthEvidence(v.evidence)

----------------------------------------------------------------------------
(* Clients.  The source of a rate is any code: "a newer daemon may" name   *)
(* one this page does not know                                             *)
ValidateRateDirectionMeta(d) ==
  Conforms(d, [source |-> Code, coverage |-> {"full", "partial", "degraded", "unavailable"},
               byte_domain |-> {"l2_no_fcs", "l2_with_fcs", "station_data", "ecm_data"},
               sample_ms |-> Nat, window_ms |-> Nat \ {0}, stale |-> BOOLEAN], {"source", "coverage"})
ClassificationStates ==
  {"warmup", "aligned", "partial", "stale", "domain_mismatch", "window_mismatch", "counter_skew", "map_loss",
   "unavailable"}
ValidateRateMeta(m) ==
  /\ m.version = 1 /\ m.scope \in {"all_frames", "unicast", "routed_observed", "lower_bound", "none"}
  /\ m.generation >= 0
  /\ Len(m.reason_codes) <= MaxReasonCodes /\ ToSet(m.reason_codes) \subseteq Code
  /\ ValidateRateDirectionMeta(m.tx) /\ ValidateRateDirectionMeta(m.rx)
  /\ ListOf(m.attachment, [kind |-> {"ethernet", "wifi", "unknown"}, ifname |-> Line,
                           trust |-> {"associated_station", "observed_exclusive", "shared", "unknown"}],
            {"kind", "trust"})
  /\ ListOf(m.classification, [state |-> ClassificationStates, tx_state |-> ClassificationStates,
                               rx_state |-> ClassificationStates, sample_ms |-> Nat, window_ms |-> Nat,
                               comparison_window_ms |-> Nat, tx_coverage_pct |-> IsAmong(100),
                               rx_coverage_pct |-> IsAmong(100)], {"state"})
ValidControl(c) ==
  Conforms(c, [configured |-> BOOLEAN, upload_bps |-> Nat, download_bps |-> Nat, internet_disabled |-> BOOLEAN,
               shaping_supported |-> BOOLEAN, blocking_supported |-> BOOLEAN, max_rate_bps |-> Nat,
               state |-> {"inactive", "applied", "pending_new_connections", "verified", "error", "unsupported"},
               reason |-> Line, queue_overflow |-> BOOLEAN],
           {"configured", "upload_bps", "download_bps", "internet_disabled", "shaping_supported",
            "blocking_supported", "max_rate_bps", "state", "queue_overflow"})
TelemetryStates == {"unavailable", "invalid", "ready"}
(* only a telemetry that is ready is looked into; then each of its parts   *)
(* has to be there, ready and made of counters and flags                   *)
ValidNssGenlObject(g) == g.state = "ready" /\ g.counters >= 0
ValidNssIgsCadence(g) == g.state \in TelemetryStates /\ (g.state # "ready" => ~g.counted)
ValidNssHardwareTelemetry(t) ==
  /\ t.state \in TelemetryStates
  /\ t.state = "ready" => /\ t.counters >= 0
                          /\ \A i \in DOMAIN t.cadence : ValidNssIgsCadence(t.cadence[i])
                          /\ \A i \in DOMAIN t.genl : ValidNssGenlObject(t.genl[i])
ValidNssControl(c) ==
  /\ c.state \in {"inactive", "pending", "verified", "error", "unavailable"}
  /\ c.active_clients <= c.configured_clients
  /\ c.effective_clients + c.pending_clients + c.error_clients = c.active_clients
  /\ c.queue_overflow_clients <= c.error_clients
  /\ c.rate_limited_clients <= c.configured_clients
  /\ c.internet_disabled_clients <= c.configured_clients
  /\ c.block_active_clients <= c.internet_disabled_clients
  /\ \A f \in {"verified_directions", "nss_verified_directions", "cpu_verified_directions"} :
       c[f] <= c.required_directions
  /\ c.state = "verified" => /\ c.error_clients = 0 /\ c.pending_clients = 0
                             /\ c.verified_directions = c.required_directions
  /\ \A i \in DOMAIN c.hardware_telemetry : ValidNssHardwareTelemetry(c.hardware_telemetry[i])
ValidClient(c) ==
  /\ c.mac # NoCode /\ c.identity_key # NoCode /\ c.zone # NoCode /\ c.interface # NoCode
  /\ c.rx_bps >= 0 /\ c.tx_bps >= 0 /\ c.last_seen >= 0 /\ c.confidence \in Confidences
  /\ \A i \in DOMAIN c.rate_meta : ValidateRateMeta(c.rate_meta[i])
  /\ \A i \in DOMAIN c.control : ValidControl(c.control[i])
ValidateClientsResponse(v) ==
  /\ \A i \in DOMAIN v.clients : ValidClient(v.clients[i])
  /\ \A i \in DOMAIN v.nss_control : ValidNssControl(v.nss_control[i])
  /\ v.conn_source \in {NoCode, "conntrack", "conntrack_netlink", "conntrack_procfs"}
  /\ v.conn_collector_mode \in {NoCode, "auto", "conntrack_netlink", "conntrack_procfs"}
  /\ v.seen # Null /\ v.matched # Null => v.matched <= v.seen
ValidateInterfacesResponse(v) ==
  ListOf(v.interfaces,
         [name |-> Line, role |-> {"lan", "observe", "wan", "excluded", "unknown"},
          status |-> {"pending", "active", "available", "missing", "excluded", "unsupported"},
          rx_bytes |-> Nat, tx_bytes |-> Nat, rx_bps |-> Nat, tx_bps |-> Nat, delta_ms |-> Nat, sample_ms |-> Nat,
          source |-> MaybeEmpty, coverage |-> MaybeEmpty], {"name", "role", "status"})
ValidateOverviewResponse(v) ==
  /\ \A i \in DOMAIN v.samples :
       LET s == v.samples[i]
       IN /\ {"sample_ms", "tx_bps", "rx_bps", "client_count", "active_clients"} \subseteq DOMAIN s
          /\ \A f \in DOMAIN s : s[f] >= 0
          /\ s.active_clients <= s.client_count
  /\ Conforms(v.base, [max_samples |-> Nat, overview_window_samples |-> {n \in Nat : n >= 2},
                       active_client_window_ms |-> {n \in Nat : n >= 1000},
                       active_client_min_bps |-> Nat \ {0}], {})
ValidateRuntimeResponse(v, key, keys) ==
  CASE key = "status" -> ValidateStatusResponse(v, keys)
    [] key = "health" -> ValidateHealthResponse(v, keys)
    [] key = "clients" -> ValidateClientsResponse(v)
    [] key = "interfaces" -> ValidateInterfacesResponse(v)
    [] key = "overview" -> ValidateOverviewResponse(v)
    [] OTHER -> FALSE

----------------------------------------------------------------------------
BpfEvidences ==
  [attach_state : {"not_attempted", "ready", "partial", "failed"},
   map_state : {"not_attempted", "ready", "failed", "retained"}, attached_hook_count : 0..2,
   expected_hook_count : 0..2, last_complete_snapshot_ms : {Null, 5}, collect_target_count : 0..1,
   object_loaded : BOOLEAN, retained_fresh_snapshot : BOOLEAN]
(* A report that says its maps are read is only accepted when everything   *)
(* that has to happen before has happened: there is an interface to        *)
(* collect from, the object is loaded, every hook is attached, and there   *)
(* is a complete snapshot (diagnosticsSchema.js:462-493).                  *)
ASSUME BpfEvidenceIsComplete ==
  \A b \in BpfEvidences :
    ValidateBpfEvidence(b) /\ b.map_state \in {"ready", "retained"} =>
      /\ b.collect_target_count > 0 /\ b.object_loaded
      /\ b.attached_hook_count = b.expected_hook_count /\ b.expected_hook_count > 0
      /\ b.last_complete_snapshot_ms # Null
(* Every stage of the start of the daemon has evidence that is accepted.   *)
ASSUME EveryStageIsAccepted ==
  \A attach \in {"not_attempted", "ready", "partial", "failed"}, map \in {"not_attempted", "ready", "failed", "retained"} :
    (map # "not_attempted" => attach = "ready") =>
      \E b \in BpfEvidences : ValidateBpfEvidence(b) /\ b.attach_state = attach /\ b.map_state = map

Counts == 0..1
NssControls ==
  [state : {"inactive", "pending", "verified", "error"}, active_clients : 0..2, configured_clients : 0..2,
   effective_clients : 0..2, pending_clients : Counts, error_clients : Counts, queue_overflow_clients : Counts,
   rate_limited_clients : {1}, internet_disabled_clients : {1}, block_active_clients : Counts,
   verified_directions : 0..2, nss_verified_directions : {0}, cpu_verified_directions : {0},
   required_directions : 0..2, hardware_telemetry : {<<>>}]
(* A control that says it is verified has put every client that is active  *)
(* into effect, and none of its queues overflows                           *)
(* (diagnosticsSchema.js:691-714).                                         *)
ASSUME VerifiedIsEffective ==
  \A c \in NssControls :
    ValidNssControl(c) /\ c.state = "verified" =>
      c.effective_clients = c.active_clients /\ c.queue_overflow_clients = 0

(* Reports and answers as a running daemon gives them                      *)
SampleAlert == [id |-> "code", severity |-> "warning", component |-> "code", state |-> "active",
                message_public |-> "a line of text"]
SampleReport ==
  [contract_version |-> 1, service |-> [state |-> "running"],
   versions |-> [contract_version |-> 1, schema_version |-> 1],
   collection |-> [state |-> "fresh", generation |-> 3, refresh_interval_ms |-> 1000, consecutive_failures |-> 0,
                   last_attempt_ms |-> 20, last_success_ms |-> 20, age_ms |-> 5, retained |-> FALSE, last_error |-> <<>>],
   data_path |-> [effective_rate |-> "bpf", effective_connection |-> "conntrack", reason_code |-> NoCode],
   interfaces |-> [state |-> "healthy", total |-> 2, available |-> 2, missing |-> 0, sample_ms |-> 20],
   connection |-> [state |-> "healthy", source |-> "conntrack", entries_seen |-> 9, entries_matched |-> 7,
                   parse_errors |-> 0],
   subsystems |-> <<[id |-> "code", state |-> "healthy"]>>, alerts |-> <<SampleAlert>>, config_issues |-> <<>>]
SampleEvidence ==
  [probe_failures |-> [items |-> <<>>, total |-> 0, truncated |-> FALSE],
   bpf |-> [attach_state |-> "ready", map_state |-> "ready", attached_hook_count |-> 2, expected_hook_count |-> 2,
            last_complete_snapshot_ms |-> 5, collect_target_count |-> 1, object_loaded |-> TRUE,
            retained_fresh_snapshot |-> FALSE]]
SampleStatus ==
  [base |-> [mode |-> "Full", confidence |-> "high", refresh_interval_ms |-> 1000, rate_collector_mode |-> "auto",
             conn_collector_mode |-> "auto", version |-> "code"],
   warnings |-> <<>>, capabilities |-> [nss |-> TRUE], evidence |-> SampleEvidence, coverage |-> <<>>]
SampleOverview(clients, active) ==
  [samples |-> <<[sample_ms |-> 5, tx_bps |-> 1, rx_bps |-> 1, client_count |-> clients, active_clients |-> active]>>,
   base |-> [max_samples |-> 60]]

(* A report is accepted whole and refused when one of its parts says what  *)
(* another one denies: data that is retained without a success, failures   *)
(* without an error, more entries matched than seen, more interfaces than  *)
(* there are, an unsupported path without a reason, an alert listed twice  *)
(* (diagnosticsSchema.js:297-436).                                         *)
ASSUME ReportsAreConsistent ==
  LET v == SampleReport
  IN  /\ ValidateDiagnosticsContract(v)
      /\ \A bad \in {[v EXCEPT !.collection.last_success_ms = Null],
                      [v EXCEPT !.collection.last_success_ms = 21],
                      [v EXCEPT !.collection.consecutive_failures = 1],
                      [v EXCEPT !.collection = [@ EXCEPT !.state = "unavailable", !.retained = TRUE, !.last_success_ms = Null]],
                      [v EXCEPT !.connection.entries_matched = 10],
                      [v EXCEPT !.connection.source = NoCode],
                      [v EXCEPT !.interfaces.missing = 1],
                      [v EXCEPT !.data_path.effective_rate = "unsupported"],
                      [v EXCEPT !.alerts = <<SampleAlert, SampleAlert>>],
                      [v EXCEPT !.versions.schema_version = 2]} : ~ValidateDiagnosticsContract(bad)
(* So are the other answers: capabilities are known ones and all there,    *)
(* probes that failed are not listed beyond their number, no more clients  *)
(* are active than there are (diagnosticsSchema.js:438-790).               *)
ASSUME AnswersAreConsistent ==
  /\ ValidateRuntimeResponse(SampleStatus, "status", {"nss"})
  /\ ~ValidateRuntimeResponse(SampleStatus, "status", {"nss", "bpf"})
  /\ ~ValidateRuntimeResponse(SampleStatus, "status", {})
  /\ \A bad \in {[SampleStatus EXCEPT !.evidence.probe_failures.total = 1],
                  [SampleStatus EXCEPT !.evidence.bpf.attached_hook_count = 1],
                  [SampleStatus EXCEPT !.base.refresh_interval_ms = 499]} :
       ~ValidateRuntimeResponse(bad, "status", {"nss"})
  /\ \A clients, active \in 0..2 :
       ValidateRuntimeResponse(SampleOverview(clients, active), "overview", {}) <=> active <= clients
  /\ ~ValidateRuntimeResponse(SampleStatus, "unknown", {"nss"})
=============================================================================
