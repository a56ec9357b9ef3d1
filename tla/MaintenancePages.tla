-------------------------- MODULE MaintenancePages --------------------------
(***************************************************************************)
(* The pages that show a service's log, and the dialogs that update        *)
(* something: mosdns's rule databases and the packages of bandix.          *)
(*                                                                         *)
(* lg is a log page: log counts what the service wrote since it was        *)
(* cleared, shown is what the page shows, last what a page that compares   *)
(* compares with, reading the poll under way and clear the click on the    *)
(* clear button.                                                           *)
(* mu is mosdns's update: dialogs opened, the runs of mosdns.uc they       *)
(* started, the lock file and the log file all of them write.              *)
(* bu is bandix's update dialog and the installations it has started.      *)
(***************************************************************************)
EXTENDS Integers, FiniteSets

CONSTANTS MaxLines, MaxReadErrors, MaxClears, MaxUpdates, ReloadTimes

ASSUME MaintenanceAssumption ==
  /\ MaxLines \in Nat /\ MaxReadErrors \in Nat /\ MaxClears \in Nat
  /\ MaxUpdates \in Nat \ {0} /\ ReloadTimes \in [{"luci", "bandix"} -> Nat \ {0}]

VARIABLES lg, mu, bu

LogPages == {"smartdns", "mosdns", "netspeedtest", "aria2", "unm", "wechatpush", "watchdog"}
Comparing == {"wechatpush", "watchdog"}       (* keep lastLogContent          *)
TellErrors == {"smartdns", "unm"} \cup Comparing    (* show a failed read     *)
Clearing == LogPages \ {"aria2", "unm"}       (* have a clear button          *)
ShowCleared == {"smartdns", "mosdns"} \cup Comparing
NoText == -1                                  (* nothing shown or read yet    *)
ReadError == -2                               (* the message of a failed read *)
Dialogs == 1..MaxUpdates
Packages == {"luci", "bandix"}

MaintenanceInit ==
  /\ \E p \in LogPages :
       lg = [page |-> p, log |-> 0, shown |-> NoText, last |-> NoText, reading |-> NoText,
             clear |-> "none", errors |-> 0, clears |-> 0, lines |-> 0]
  /\ mu = [dialog |-> [d \in Dialogs |-> "closed"], run |-> [d \in Dialogs |-> "none"],
           lock |-> FALSE, log |-> {}]
  /\ bu = [install |-> [p \in Packages |-> "none"], button |-> [p \in Packages |-> TRUE],
           reload |-> [p \in Packages |-> 0], open |-> FALSE, checking |-> FALSE,
           reloads |-> FALSE]

----------------------------------------------------------------------------
(* A log page; the text of an empty log, 0, is the page's own              *)
ServiceLogs ==
  lg.lines < MaxLines
    /\ lg' = [lg EXCEPT !.log = @ + 1, !.lines = @ + 1]

PollReads ==
  /\ lg.reading = NoText
  /\ \/ lg' = [lg EXCEPT !.reading = lg.log]
     \/ lg.errors < MaxReadErrors /\ lg' = [lg EXCEPT !.reading = ReadError, !.errors = @ + 1]

PollLog ==
  /\ lg.reading # NoText
  /\ lg' = [lg EXCEPT !.reading = NoText,
                      !.shown = IF lg.reading = ReadError
                                  THEN IF lg.page \in TellErrors THEN ReadError ELSE @
                                ELSE IF lg.page \in Comparing /\ lg.reading = lg.last THEN @
                                ELSE lg.reading,
                      !.last = IF lg.reading = ReadError \/ lg.page \notin Comparing THEN @
                               ELSE lg.reading]

ClickClear ==
  /\ lg.page \in Clearing /\ lg.clear = "none" /\ lg.clears < MaxClears
  /\ lg' = [lg EXCEPT !.clear = "asked", !.clears = @ + 1]
LogCleared ==
  /\ lg.clear = "asked"
  /\ \/ lg' = [lg EXCEPT !.clear = "done", !.log = 0]
     \/ lg' = [lg EXCEPT !.clear = "none"]                  (* it failed       *)
CleanLogs ==
  /\ lg.clear = "done"
  /\ lg' = [lg EXCEPT !.clear = "none", !.last = NoText,
                      !.shown = IF lg.page \in ShowCleared THEN 0 ELSE @]

LogNext ==
  ServiceLogs \/ PollReads \/ PollLog \/ ClickClear \/ LogCleared \/ CleanLogs

----------------------------------------------------------------------------
(* mosdns.  start_update looks for the lock, empties the log and starts    *)
(* mosdns.uc, which looks for the lock again before it takes it            *)
HandleUpdate(d) ==
  /\ mu.dialog[d] = "closed"
  /\ IF mu.lock THEN mu' = [mu EXCEPT !.dialog[d] = "busy"]
     ELSE mu' = [mu EXCEPT !.dialog[d] = "polling", !.run[d] = "started", !.log = {}]
LockChecked(d) ==
  /\ mu.run[d] = "started"
  /\ IF mu.lock THEN mu' = [mu EXCEPT !.run[d] = "over", !.log = @ \cup {"Another"}]
     ELSE mu' = [mu EXCEPT !.run[d] = "unlocked"]
LockTaken(d) ==
  mu.run[d] = "unlocked" /\ mu' = [mu EXCEPT !.run[d] = "updating", !.lock = TRUE]
UpdateEnds(d) ==
  /\ mu.run[d] = "updating"
  /\ \E r \in {"FINISHED", "EXITED"} :
       mu' = [mu EXCEPT !.run[d] = "over", !.log = @ \cup {r}, !.lock = FALSE]
PollUpdateLog(d) ==
  /\ mu.dialog[d] = "polling"
  /\ mu' = [mu EXCEPT !.dialog[d] = IF "FINISHED" \in mu.log THEN "success"
                                     ELSE IF "EXITED" \in mu.log THEN "failed"
                                     ELSE IF "Another" \in mu.log THEN "busy" ELSE @]

MosdnsNext ==
  \E d \in Dialogs :
    HandleUpdate(d) \/ LockChecked(d) \/ LockTaken(d) \/ UpdateEnds(d) \/ PollUpdateLog(d)

----------------------------------------------------------------------------
(* bandix.  The dialog offers what the check found; an installation of the *)
(* pages is not waited for, and the page reloads after a fixed time.       *)
CheckUpdate ==
  ~bu.open /\ ~bu.checking /\ ~bu.reloads /\ bu' = [bu EXCEPT !.checking = TRUE]
UpdateChecked ==
  /\ bu.checking
  /\ \E found \in BOOLEAN : bu' = [bu EXCEPT !.checking = FALSE, !.open = found]
InstallUpdate(p) ==
  /\ bu.open /\ bu.button[p] /\ ~bu.reloads
  /\ bu' = [bu EXCEPT !.button[p] = FALSE, !.install[p] = "running",
                      !.reload[p] = IF p = "luci" THEN ReloadTimes[p] ELSE @]
InstallEnds(p) ==
  /\ bu.install[p] = "running"
  /\ \E r \in {"installed", "failed"} :
       bu' = [bu EXCEPT !.install[p] = r,
                        !.button[p] = IF p = "bandix" THEN TRUE ELSE @,
                        !.reload[p] = IF p = "bandix" /\ r = "installed" THEN ReloadTimes[p] ELSE @]
ReloadTimer(p) ==
  /\ bu.reload[p] > 0 /\ ~bu.reloads
  /\ bu' = [bu EXCEPT !.reload[p] = @ - 1, !.reloads = bu.reload[p] = 1]
(* The page starts anew; what runs on the router goes on                   *)
PageReloads ==
  /\ bu.reloads
  /\ bu' = [bu EXCEPT !.button = [p \in Packages |-> TRUE], !.reload = [p \in Packages |-> 0],
                      !.open = FALSE, !.checking = FALSE, !.reloads = FALSE]
BandixUpdateNext ==
  \/ CheckUpdate \/ UpdateChecked \/ PageReloads
  \/ \E p \in Packages : InstallUpdate(p) \/ InstallEnds(p) \/ ReloadTimer(p)

(* LuCI polls; requests are answered; mosdns.uc runs to its end            *)
MaintenanceFairness ==
  /\ WF_lg(PollReads) /\ WF_lg(PollLog) /\ WF_lg(LogCleared) /\ WF_lg(CleanLogs)
  /\ \A d \in Dialogs :
       /\ WF_mu(LockChecked(d) \/ LockTaken(d) \/ UpdateEnds(d))
       /\ WF_mu(PollUpdateLog(d))

----------------------------------------------------------------------------
Shows == lg.shown = lg.log

(* Whatever a poll, a clearing and a failed read do to each other, a page  *)
(* that does not compare shows the log in the end; and every dialog that   *)
(* started an update of mosdns is told how it ended, although the updates  *)
(* of two dialogs share a log that the second one empties                  *)
MaintenanceSettles ==
  <>[](/\ lg.page \notin Comparing => Shows
       /\ \A d \in Dialogs : mu.dialog[d] # "polling")

(* The pages that compare say "Refresh every %s seconds." as well          *)
ComparingPageCatchesUp == <>[](lg.page \in Comparing => Shows)

(* "固定 30 秒后刷新页面，避免刷新过早未完成安装" (settings.js:408-409): the page    *)
(* does not reload while the installation of the pages is under way        *)
NoReloadWhileInstalling == bu.reloads => bu.install["luci"] # "running"
=============================================================================
