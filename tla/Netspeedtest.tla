---------------------------- MODULE Netspeedtest ----------------------------
(***************************************************************************)
(* The speed test application (luci-app-netspeedtest): the WAN test page   *)
(* (wanspeedtest.js) and the script it runs (netspeedtest.sh), and the     *)
(* pages that start and stop homebox (homebox.js) and iperf3 (iperf3.js).  *)
(*                                                                         *)
(* nt is the WAN test: file is the result file and whether it is older     *)
(* than Timeout; tests are the script's runs, from the click that writes   *)
(* the file; pid and lock are the script's PID file and lock.              *)
(* hb is homebox: proc says whether its process runs, running what the     *)
(* page believes, op the operation it waits for; chains are the checks     *)
(* after a click, and poll what a poll under way has read.                 *)
(* nc is /etc/config/netspeedtest and whether the init script is enabled.  *)
(***************************************************************************)
EXTENDS Integers, FiniteSets

CONSTANTS MaxTests, MaxToggles, MaxChecks, MaxSaves

ASSUME NetspeedtestAssumption ==
  MaxTests \in Nat /\ MaxToggles \in Nat /\ MaxChecks \in Nat /\ MaxSaves \in Nat

VARIABLES nt, hb, nc

SpeedTests == 1..MaxTests
Toggles == 1..MaxToggles

NsInit ==
  /\ nt = [file |-> "none", old |-> FALSE, tests |-> [t \in SpeedTests |-> "idle"],
           pid |-> 0, lock |-> 0, disabled |-> FALSE, shown |-> "none"]
  /\ \E up \in BOOLEAN :
       hb = [proc |-> up, running |-> up, op |-> "", poll |-> "none",
             chains |-> [c \in Toggles |-> [phase |-> "idle", action |-> "", n |-> 0]]]
  /\ nc = [homebox_enabled |-> "0", iperf3port |-> "unset", autostart |-> FALSE,
           enabled |-> FALSE, saves |-> 0]

----------------------------------------------------------------------------
(* The WAN test                                                            *)
IsTesting(file, old) == file = "Testing" /\ ~old
ParseResult(file) == IF file = "Testing" THEN "testing" ELSE file

(* A click writes the file, then starts the script; the button is only     *)
(* disabled by the next poll                                               *)
StartSpeedTest(t) ==
  /\ nt.tests[t] = "idle" /\ ~nt.disabled
  /\ \A u \in SpeedTests : u < t => nt.tests[u] # "idle"
  /\ nt' = [nt EXCEPT !.tests[t] = "clicked"]
TestingWritten(t) ==
  /\ nt.tests[t] = "clicked"
  /\ nt' = [nt EXCEPT !.tests[t] = "started", !.file = "Testing", !.old = FALSE]

(* check_running: the PID file, then the lock.  A run that finds another   *)
(* one says "Testing", too, and its exit handler removes the PID file.     *)
CheckPid(t) ==
  /\ nt.tests[t] = "started"
  /\ IF nt.pid \in SpeedTests /\ nt.tests[nt.pid] \in {"running", "done"} /\ nt.lock = nt.pid
       THEN nt' = [nt EXCEPT !.tests[t] = "refused"]
       ELSE nt' = [nt EXCEPT !.tests[t] = "locking", !.pid = 0]
(* Mutant: the PID file alone guards the test                              *)
TakesNoLock(t) ==
  /\ nt.tests[t] = "locking"
  /\ nt' = [nt EXCEPT !.tests[t] = "running", !.lock = t, !.pid = t]
TakeLock(t) ==
  /\ nt.tests[t] = "locking"
  /\ IF nt.lock # 0 THEN nt' = [nt EXCEPT !.tests[t] = "refused"]
     ELSE nt' = [nt EXCEPT !.tests[t] = "running", !.lock = t, !.pid = t]
Refused(t) ==
  /\ nt.tests[t] = "refused"
  /\ nt' = [nt EXCEPT !.tests[t] = "over", !.file = "Testing", !.old = FALSE, !.pid = 0]
MainTest(t) ==
  /\ nt.tests[t] = "running"
  /\ \E r \in {"url", "speed", "failed"} :
       nt' = [nt EXCEPT !.tests[t] = "done", !.file = r, !.old = FALSE]
Cleanup(t) ==
  /\ nt.tests[t] = "done"
  /\ nt' = [nt EXCEPT !.tests[t] = "over", !.pid = 0, !.lock = 0]

FileAges == nt.file # "none" /\ ~nt.old /\ nt' = [nt EXCEPT !.old = TRUE]

PollStatus ==
  nt' = [nt EXCEPT !.disabled = IsTesting(nt.file, nt.old),
                   !.shown = IF IsTesting(nt.file, nt.old) THEN "testing"
                             ELSE IF ParseResult(nt.file) = "testing" THEN "none"
                             ELSE ParseResult(nt.file)]

WanNext ==
  \/ \E t \in SpeedTests :
       \/ StartSpeedTest(t) \/ TestingWritten(t) \/ CheckPid(t) \/ TakeLock(t)
       \/ Refused(t) \/ MainTest(t) \/ Cleanup(t)
  \/ FileAges
  \/ PollStatus

----------------------------------------------------------------------------
(* Homebox.  updateStatus ends an operation whose outcome is on the page.  *)
UpdateStatus(h) ==
  IF (h.op = "stop" /\ ~h.running) \/ (h.op = "start" /\ h.running)
    THEN [h EXCEPT !.op = ""] ELSE h
Toggle(c) ==
  LET action == IF hb.running THEN "stop" ELSE "start" IN
  /\ hb.op = "" /\ hb.chains[c].phase = "idle"
  /\ \A d \in Toggles : d < c => hb.chains[d].phase # "idle"
  /\ hb' = [hb EXCEPT !.op = action,
                      !.chains[c] = [phase |-> "control", action |-> action, n |-> 0]]

(* The process is killed, and for a start run again; it may not come up,   *)
(* and the call may fail                                                   *)
ControlService(c) ==
  /\ hb.chains[c].phase = "control"
  /\ \E up \in {FALSE, hb.chains[c].action = "start"}, failed \in BOOLEAN :
       hb' = [hb EXCEPT !.proc = up, !.chains[c].phase = IF failed THEN "final" ELSE "check"]
Finished(c, running) ==
  hb' = [hb EXCEPT !.running = running, !.op = "", !.chains[c].phase = "over"]
DoCheck(c) ==
  /\ hb.chains[c].phase = "check"
  /\ IF hb.chains[c].action = "stop" /\ ~hb.proc THEN Finished(c, FALSE)
     ELSE IF (hb.chains[c].action = "start" /\ hb.proc) \/ hb.chains[c].n = MaxChecks
       THEN hb' = [hb EXCEPT !.chains[c].phase = "final"]
     ELSE hb' = [hb EXCEPT !.chains[c].n = @ + 1]
CheckProcess(c) == hb.chains[c].phase = "final" /\ Finished(c, hb.proc)

(* The poll reads the process and applies what it read later               *)
HomeboxPolls ==
  hb.poll = "none" /\ hb' = [hb EXCEPT !.poll = IF hb.proc THEN "up" ELSE "down"]
HomeboxPolled ==
  /\ hb.poll # "none"
  /\ LET h == [hb EXCEPT !.poll = "none", !.running = hb.poll = "up"] IN
     hb' = IF h.running = hb.running THEN h ELSE UpdateStatus(h)

HomeboxNext ==
  \/ \E c \in Toggles : Toggle(c) \/ ControlService(c) \/ DoCheck(c) \/ CheckProcess(c)
  \/ HomeboxPolls
  \/ HomeboxPolled

----------------------------------------------------------------------------
(* Both pages write the whole configuration file                           *)
SaveConfiguration(e) ==
  /\ nc.saves < MaxSaves
  /\ nc' = [nc EXCEPT !.homebox_enabled = IF e THEN "1" ELSE "0", !.iperf3port = "unset",
                      !.autostart = e, !.enabled = e, !.saves = @ + 1]
(* iperf3's page never sets its enabled                                    *)
SaveIperf3Port ==
  /\ nc.saves < MaxSaves
  /\ nc' = [nc EXCEPT !.homebox_enabled = "unset", !.iperf3port = "good", !.autostart = FALSE,
                      !.saves = @ + 1]
SavesNext == (\E e \in BOOLEAN : SaveConfiguration(e)) \/ SaveIperf3Port

(* Requests are answered, the script runs, polls are made: LuCI's poll     *)
(* loop never stops, and a poll may meet any state that lasts              *)
NsFairness ==
  /\ \A t \in SpeedTests :
       WF_nt(TestingWritten(t) \/ CheckPid(t) \/ TakeLock(t) \/ Refused(t)
                     \/ MainTest(t) \/ Cleanup(t))
  /\ WF_nt(FileAges)
  /\ WF_nt(PollStatus)
  /\ \A c \in Toggles : WF_hb(ControlService(c) \/ DoCheck(c) \/ CheckProcess(c))
  /\ WF_hb(HomeboxPolls \/ HomeboxPolled)

----------------------------------------------------------------------------
(* However fast the user clicks, one test measures the line at a time      *)
(* (check_running)                                                         *)
OneSpeedTest == Cardinality({t \in SpeedTests : nt.tests[t] = "running"}) <= 1

(* The page recovers: the start button of the WAN test is enabled again,   *)
(* also when a refused run has left "Testing" in the file, and homebox's   *)
(* page shows whether the process runs, with no operation pending          *)
SpeedPagesSettle == <>[](~nt.disabled /\ hb.op = "" /\ hb.running = hb.proc)

(* "Auto start enabled" (homebox.js:333) stays true until homebox's own    *)
(* page changes it                                                         *)
AutostartKept == nc.enabled => nc.autostart /\ nc.homebox_enabled = "1"
=============================================================================
