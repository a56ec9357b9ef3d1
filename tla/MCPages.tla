------------------------------ MODULE MCPages ------------------------------
(***************************************************************************)
(* The pages that wait for something: charts and queries, the rules and    *)
(* their daemon, speed tests, logs and updates, the ad blocker, the speeds *)
(* of the clients.  They share no variable: part says which of them this   *)
(* behaviour is about; the others stay in an initial state, and fairness   *)
(* is asked of the chosen part only.                                       *)
(***************************************************************************)
EXTENDS BandixCharts, TimeControl, Netspeedtest, MaintenancePages, AdblockFast, LanspeedStatus

VARIABLE part
pagesVars == <<part, bh, bq, tc, nt, hb, nc, lg, mu, bu, ab, ls>>

MCChunkDays == [hourly |-> 2, daily |-> 3]
MCRanges == {<<0, 2>>}
MCReloadTimes == [luci |-> 3, bandix |-> 1]
MCSkew == [x86 |-> 0, edge |-> 0, routed |-> 1]

PagesInit ==
  /\ part \in {"chart", "queries", "rules", "wan", "homebox", "config",
               "log", "mosdns", "update", "adblock", "lanspeed"}
  /\ HistoryInit /\ QueriesInit
  /\ TcInit /\ tc.conf.rules[1].enable = "1" /\ tc.conf.rules[2].enable = "0" /\ (part # "rules" => tc.conf.type = "0")
  /\ NsInit /\ (part # "homebox" => ~hb.proc)
  /\ MaintenanceInit /\ (part # "log" => lg.page = "watchdog")
  /\ AdblockInit
  /\ LsInit /\ (part # "lanspeed" => ls.platform = "x86" /\ ls.notice.of = {})

PagesNext ==
  /\ UNCHANGED part
  /\ \/ part = "chart" /\ HistoryNext /\ UNCHANGED <<bq, tc, nt, hb, nc, lg, mu, bu, ab, ls>>
     \/ part = "queries" /\ QueriesNext /\ UNCHANGED <<bh, tc, nt, hb, nc, lg, mu, bu, ab, ls>>
     \/ part = "rules" /\ TcNext /\ UNCHANGED <<bh, bq, nt, hb, nc, lg, mu, bu, ab, ls>>
     \/ part = "wan" /\ WanNext /\ UNCHANGED <<bh, bq, tc, hb, nc, lg, mu, bu, ab, ls>>
     \/ part = "homebox" /\ HomeboxNext /\ UNCHANGED <<bh, bq, tc, nt, nc, lg, mu, bu, ab, ls>>
     \/ part = "config" /\ SavesNext /\ UNCHANGED <<bh, bq, tc, nt, hb, lg, mu, bu, ab, ls>>
     \/ part = "log" /\ LogNext /\ UNCHANGED <<bh, bq, tc, nt, hb, nc, mu, bu, ab, ls>>
     \/ part = "mosdns" /\ MosdnsNext /\ UNCHANGED <<bh, bq, tc, nt, hb, nc, lg, bu, ab, ls>>
     \/ part = "update" /\ BandixUpdateNext /\ UNCHANGED <<bh, bq, tc, nt, hb, nc, lg, mu, ab, ls>>
     \/ part = "adblock" /\ AdblockNext /\ UNCHANGED <<bh, bq, tc, nt, hb, nc, lg, mu, bu, ls>>
     \/ part = "lanspeed" /\ LsNext /\ UNCHANGED <<bh, bq, tc, nt, hb, nc, lg, mu, bu, ab>>

(* HistoryFairness, TcFairness, NsFairness, MaintenanceFairness,           *)
(* AdblockFairness and LsFairness of the part                              *)
PagesFairness ==
  /\ WF_bh(part = "chart" /\ PollHistory)
  /\ WF_bh(part = "chart" /\ HistoryAnswered)
  /\ WF_tc(part = "rules" /\ (TcReload \/ Initialize("init")))
  /\ WF_tc(part = "rules" /\ (StartDaemon \/ DaemonStops \/ Initialize("daemon") \/ TickBegins
                              \/ ReadTemporaryDuration \/ UpdateRuleTemporaryDuration))
  /\ WF_tc(part = "rules" /\ RenderStatus)
  /\ \A t \in SpeedTests :
       WF_nt(part = "wan" /\ (\/ TestingWritten(t) \/ CheckPid(t) \/ TakeLock(t)
                              \/ Refused(t) \/ MainTest(t) \/ Cleanup(t)))
  /\ WF_nt(part = "wan" /\ FileAges)
  /\ WF_nt(part = "wan" /\ PollStatus)
  /\ \A c \in Toggles :
       WF_hb(part = "homebox" /\ (ControlService(c) \/ DoCheck(c) \/ CheckProcess(c)))
  /\ WF_hb(part = "homebox" /\ (HomeboxPolls \/ HomeboxPolled))
  /\ WF_lg(part = "log" /\ PollReads)
  /\ WF_lg(part = "log" /\ PollLog)
  /\ WF_lg(part = "log" /\ LogCleared)
  /\ WF_lg(part = "log" /\ CleanLogs)
  /\ \A d \in Dialogs :
       /\ WF_mu(part = "mosdns" /\ (LockChecked(d) \/ LockTaken(d) \/ UpdateEnds(d)))
       /\ WF_mu(part = "mosdns" /\ PollUpdateLog(d))
  /\ WF_ab(part = "adblock" /\ InitActionDone)
  /\ WF_ab(part = "adblock" /\ PauseCountdown)
  /\ WF_ab(part = "adblock" /\ SyncCron)
  /\ WF_ab(part = "adblock" /\ \E i \in DOMAIN ab.polls : PollServiceStatus(i))
  /\ WF_ls(part = "lanspeed" /\ HideNotice)
  /\ WF_ls(part = "lanspeed" /\ TimerFires)
  /\ WF_ls(part = "lanspeed" /\ (RealtimeSettles \/ LegacySettles))
  /\ WF_ls(part = "lanspeed" /\ RuleSet)
  /\ WF_ls(part = "lanspeed" /\ ControlDone)

PagesSpec == PagesInit /\ [][PagesNext]_pagesVars /\ PagesFairness

----------------------------------------------------------------------------
(* Pages that wait for a job of the router come back: the speed tests, the  *)
(* logs and updates, the ad blocker's service.                              *)
PagesReturn == SpeedPagesSettle /\ MaintenanceSettles /\ AdblockPageReturns
=============================================================================
