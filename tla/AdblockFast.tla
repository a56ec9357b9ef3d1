----------------------------- MODULE AdblockFast -----------------------------
(***************************************************************************)
(* The page of adblock-fast: its settings (overview.js), the buttons that  *)
(* start, stop and pause the service (status.js) and the schedule, which   *)
(* the page reads from and writes to root's crontab.                       *)
(*                                                                         *)
(* ab.service is the status that the service reports and ab.job the init   *)
(* script each background action runs; ab.seen is the state the page was   *)
(* rendered with, ab.spinner the dialog over it and ab.left the countdown  *)
(* of a pause; ab.polls holds, for each pollServiceStatus under way, how   *)
(* often it has looked.  ab.line is the line in the crontab, ab.form the   *)
(* schedule in the page's fields and ab.wanted what the user last chose.   *)
(***************************************************************************)
EXTENDS LuciForm

CONSTANTS MaxAttempts, PauseTimeout, MaxActions

ASSUME AdblockAssumption ==
  /\ MaxAttempts \in Nat \ {0} /\ PauseTimeout \in Nat \ {0} /\ MaxActions \in Nat

VARIABLE ab

----------------------------------------------------------------------------
(* The settings.  The values of dns are those the platform supports.       *)
DnsResolvers(platform) ==
  (IF "dnsmasq" \in platform
     THEN {"dnsmasq.addnhosts", "dnsmasq.conf", "dnsmasq.servers"}
          \cup (IF "dnsmasq_ipset" \in platform THEN {"dnsmasq.ipset"} ELSE {})
          \cup (IF "dnsmasq_nftset" \in platform THEN {"dnsmasq.nftset"} ELSE {})
     ELSE {})
  \cup (IF "smartdns" \in platform
          THEN {"smartdns.domainset"}
               \cup (IF "smartdns_ipset" \in platform THEN {"smartdns.ipset"} ELSE {})
               \cup (IF "smartdns_nftset" \in platform THEN {"smartdns.nftset"} ELSE {})
          ELSE {})
  \cup (IF "unbound" \in platform THEN {"unbound.adb_list"} ELSE {})
Resolver(names) == {[dns |-> n] : n \in names}

(* An instance option is "*", "-" or, shown as "+", the chosen instances   *)
AdblockInstances ==
  [dnsmasq_instance_option |->
     When(Resolver({"dnsmasq.addnhosts", "dnsmasq.servers"}), Kept(Choice({"*", "+", "-"}, "*"))),
   dnsmasq_instance |-> When({[dnsmasq_instance_option |-> "+"]}, Kept(Text(""))),
   smartdns_instance_option |->
     When(Resolver({"smartdns.domainset"}), Kept(Choice({"*", "+", "-"}, "*"))),
   smartdns_instance |-> When({[smartdns_instance_option |-> "+"]}, Kept(Text("")))]
AdblockBasic(platform) ==
  [dns |-> Choice(DnsResolvers(platform) \cup {"dnsmasq.servers"}, "dnsmasq.servers"),
   dnsmasq_config_file_url |-> When(Resolver({"dnsmasq.conf"}), Text("")),
   force_dns |-> Choice({"0", "1"}, "1"), verbosity |-> Choice({"0", "1", "2"}, "2"),
   led |-> Text("")]
  @@ AdblockInstances
AdblockDownloads ==
  [config_update_enabled |-> Choice({"0", "1"}, "0"),
   ipv6_enabled |-> When(Resolver({"dnsmasq.addnhosts", "dnsmasq.nftset"}), Kept(Choice({"", "1"}, ""))),
   download_timeout |-> Among({"", "1", "20", "60"}, {"0", "61"}, "20"),
   download_connect_timeout |-> Among({"", "1", "10", "60"}, {"0", "61"}, "10"),
   download_max_time |-> Checked(""), download_allow_insecure |-> Flag("1"),
   pause_timeout |-> Among({"", "1", "20", "600"}, {"0", "601"}, "20"),
   curl_max_file_size |-> Checked(""), curl_retry |-> Among({"", "0", "3", "30"}, {"31"}, "3"),
   parallel_downloads |-> Choice({"0", "1", "8", "16"}, "8")]
AdblockAdvanced ==
  [compressed_cache |-> Choice({"0", "1"}, "0"),
   compressed_cache_dir |-> When({[compressed_cache |-> "1"]}, Kept(Text("/etc"))),
   dnsmasq_sanity_check |-> Choice({"0", "1"}, "1"),
   dnsmasq_validity_check |-> Choice({"0", "1"}, "0"), debug |-> Choice({"0", "1"}, "0"),
   rpcd_token |-> Text("")]
AdblockDomains == [allowed_domain |-> Text(""), blocked_domain |-> Text("")]
AdblockFileUrl ==
  [enabled |-> Flag("1"), action |-> Choice({"allow", "block"}, "block"), name |-> Text(""),
   url |-> Must(Text(""))]
(* write() of an instance option stores nothing for "+", which leaves the  *)
(* list of the instances to its own field                                  *)
WriteInstance(option, stored) == IF option = "+" THEN stored ELSE <<option>>
InstanceOption(stored) ==
  IF stored = <<>> THEN "*" ELSE IF Head(stored) \in {"*", "-"} THEN Head(stored) ELSE "+"
(* The option is shown as it was chosen, and choosing "+" keeps the list   *)
ASSUME InstanceIsKept ==
  \A stored \in {<<>>, <<"*">>, <<"-">>, <<"cfg1">>, <<"cfg1", "cfg2">>}, option \in {"*", "-", "+"} :
    /\ option # "+" => InstanceOption(WriteInstance(option, stored)) = option
    /\ WriteInstance(InstanceOption(stored), stored) = IF stored = <<>> THEN <<"*">> ELSE stored

----------------------------------------------------------------------------
(* The schedule.  A field of a crontab line is a number, a step or any     *)
AnyTime == [any |-> 0]
At(n) == [at |-> n]
Every(n) == [every |-> n]
IsNumber(f) == DOMAIN f = {"at"}
IsStep(f) == DOMAIN f = {"every"}
Defaults ==
  [enabled |-> FALSE, mode |-> "daily", hour |-> 4, minute |-> 0, weekday |-> 0, monthday |-> 1,
   every_ndays |-> 3, every_nhours |-> 6]

ParseCronEntry(line) ==
  LET shown == [Defaults EXCEPT !.enabled = line.state = "active", !.minute = line.minute.at] IN
  IF line.state = "missing" \/ ~IsNumber(line.minute) THEN Defaults
  ELSE IF IsStep(line.hour) THEN
    IF line.dom # AnyTime \/ line.dow # AnyTime THEN Defaults
    ELSE [shown EXCEPT !.mode = "every_n_hours", !.every_nhours = line.hour.every]
  ELSE IF ~IsNumber(line.hour) THEN Defaults
  ELSE IF IsStep(line.dom) THEN
    IF line.dow # AnyTime THEN Defaults
    ELSE [shown EXCEPT !.mode = "every_n_days", !.hour = line.hour.at,
                       !.every_ndays = line.dom.every]
  ELSE IF line.dom # AnyTime THEN
    IF line.dow # AnyTime THEN Defaults
    ELSE [shown EXCEPT !.mode = "monthly", !.hour = line.hour.at, !.monthday = line.dom.at]
  ELSE IF line.dow # AnyTime THEN
    IF ~IsNumber(line.dow) THEN Defaults
    ELSE [shown EXCEPT !.mode = "weekly", !.hour = line.hour.at, !.weekday = line.dow.at]
  ELSE [shown EXCEPT !.hour = line.hour.at]

(* The fields that are hidden for a mode are not collected                 *)
Collected(mode) ==
  {"minute"} \cup CASE mode = "every_n_hours" -> {"every_nhours"}
                    [] mode = "every_n_days" -> {"hour", "every_ndays"}
                    [] mode = "monthly" -> {"hour", "monthday"}
                    [] mode = "weekly" -> {"hour", "weekday"}
                    [] OTHER -> {"hour"}
CollectSchedule(shown) ==
  IF ~shown.enabled THEN Defaults
  ELSE [f \in DOMAIN Defaults |->
          IF f \in {"enabled", "mode"} \cup Collected(shown.mode) THEN shown[f] ELSE Defaults[f]]

CronLine(state, s) ==
  [state |-> state, minute |-> At(s.minute),
   hour |-> IF s.mode = "every_n_hours" THEN Every(s.every_nhours) ELSE At(s.hour),
   dom |-> CASE s.mode = "monthly" -> At(s.monthday)
             [] s.mode = "every_n_days" -> Every(s.every_ndays)
             [] OTHER -> AnyTime,
   dow |-> IF s.mode = "weekly" THEN At(s.weekday) ELSE AnyTime]

(* cron_write with a schedule of the page, or with that of the old line    *)
CronState(on, action, enabled) ==
  IF ~on THEN "disabled"
  ELSE CASE action \in {"disable", "stop"} -> "suspended"
         [] action \in {"enable", "start"} -> "active"
         [] OTHER -> IF enabled THEN "active" ELSE "suspended"
CronWrite(line, action, enabled) ==
  CronLine(CronState(line.state \in {"active", "suspended"}, action, enabled), ParseCronEntry(line))

(* Whatever schedule is chosen, the page shows it again when it is read    *)
Schedules ==
  {[Defaults EXCEPT !.enabled = TRUE, !.mode = m, !.hour = n, !.minute = n, !.weekday = n,
                    !.monthday = n + 1, !.every_ndays = n + 1, !.every_nhours = n + 1] :
     m \in {"daily", "weekly", "monthly", "every_n_days", "every_n_hours"}, n \in 0..1}
ASSUME CronRoundTrip ==
  \A s \in Schedules :
    LET c == CollectSchedule(s) IN ParseCronEntry(CronLine("active", c)) = c

----------------------------------------------------------------------------
(* The service.  The buttons are those of the state the page was rendered  *)
(* with; a pause disables all of them.                                     *)
Background == {"start", "dl", "pause"}
Buttons(seen) ==
  IF ~seen.enabled THEN {"enable"}
  ELSE CASE seen.status = "statusSuccess" -> {"disable", "dl", "pause", "stop"}
         [] seen.status = "statusStopped" -> {"disable", "start", "dl"}
         [] OTHER -> {"start", "stop"}

NoLine == [state |-> "missing", minute |-> AnyTime, hour |-> AnyTime, dom |-> AnyTime, dow |-> AnyTime]
RenderPage(s) ==
  [s EXCEPT !.seen = [enabled |-> s.enabled, status |-> s.service], !.spinner = FALSE, !.left = 0,
            !.polls = <<>>, !.reply = "none", !.form = ParseCronEntry(s.line), !.stage = "none"]
AdblockInit ==
  ab = RenderPage([service |-> "statusStopped", enabled |-> TRUE,
                   job |-> [b \in Background |-> "none"], actions |-> 0, line |-> NoLine,
                   wanted |-> FALSE, seen |-> <<>>, spinner |-> FALSE, left |-> 0, polls |-> <<>>,
                   reply |-> "none", form |-> Defaults, stage |-> "none"])

(* A button: the action runs, or is started, before the answer is sent     *)
SetInitAction(action) ==
  /\ ~ab.spinner /\ ab.left = 0 /\ ab.reply = "none" /\ ab.stage = "none"
  /\ action \in Buttons(ab.seen) /\ ab.actions < MaxActions
  /\ ab' = [ab EXCEPT
       !.actions = @ + 1, !.reply = "sent",
       !.spinner = action # "pause",
       !.left = IF action = "pause" THEN PauseTimeout ELSE 0,
       !.enabled = CASE action = "enable" -> TRUE [] action = "disable" -> FALSE [] OTHER -> @,
       !.service = IF action = "stop" THEN "statusStopped" ELSE @,
       !.job = IF action \in Background THEN [@ EXCEPT ![action] = "begun"] ELSE @,
       !.line = IF action \in {"enable", "start", "disable", "stop"}
                  THEN CronWrite(@, action, ab.enabled) ELSE @]
(* The answer, or its timeout, begins to poll                              *)
InitActionDone ==
  ab.reply = "sent" /\ ab' = [ab EXCEPT !.reply = "none", !.polls = Append(@, 0)]

JobRuns(b) ==
  \/ /\ ab.job[b] = "begun"
     /\ ab' = [ab EXCEPT !.job[b] = IF b = "pause" THEN "sleeping" ELSE "working",
                         !.service = IF b = "pause" THEN "statusStopped" ELSE "statusDownloading"]
  \/ /\ ab.job[b] = "sleeping"
     /\ ab' = [ab EXCEPT !.job[b] = "working", !.service = "statusDownloading"]
  \/ /\ ab.job[b] = "working"
     /\ \E r \in {"statusSuccess", "statusFail"} :
          ab' = [ab EXCEPT !.job[b] = "none", !.service = r]

Settled == {"statusSuccess", "statusFail", "statusStopped"}
(* Mutant: there is no limit to the attempts                               *)
PollsForever(i) ==
  /\ i \in DOMAIN ab.polls
  /\ IF ab.service \in Settled THEN ab' = RenderPage(ab) ELSE UNCHANGED ab
PollServiceStatus(i) ==
  /\ i \in DOMAIN ab.polls
  /\ IF ab.service \in Settled \/ ab.polls[i] + 1 >= MaxAttempts
       THEN ab' = RenderPage(ab)
       ELSE ab' = [ab EXCEPT !.polls[i] = @ + 1]
PauseCountdown ==
  /\ ab.left > 0
  /\ ab' = [ab EXCEPT !.left = @ - 1, !.polls = IF ab.left = 1 THEN Append(@, 0) ELSE @]

(* The schedule's fields, and the three steps of Save & Apply: the options *)
(* are stored, applied, and then the schedule is written.  The page does   *)
(* not reload, so a spinner and a countdown stay.                          *)
ChooseSchedule(on, mode) ==
  /\ ab.seen.enabled /\ ab.actions < MaxActions /\ ab.stage = "none"
  /\ ab' = [ab EXCEPT !.form.enabled = on, !.form.mode = IF on THEN mode ELSE @, !.wanted = on,
                      !.actions = @ + 1]
HandleSaveApply ==
  /\ ab.seen.enabled /\ ~ab.spinner /\ ab.stage = "none"
  /\ ab.actions < MaxActions
  /\ ab' = [ab EXCEPT !.stage = "applying", !.actions = @ + 1]
SyncCron ==
  /\ ab.stage = "applying"
  /\ ab' = [ab EXCEPT !.stage = "none",
                      !.line = CronLine(CronState(ab.form.enabled, "none", ab.enabled),
                                        CollectSchedule(ab.form))]
OpenPage == ab.stage = "none" /\ RenderPage(ab) # ab /\ ab' = RenderPage(ab)

AdblockNext ==
  \/ \E a \in {"start", "dl", "pause", "stop", "enable", "disable"} : SetInitAction(a)
  \/ InitActionDone \/ PauseCountdown \/ HandleSaveApply \/ SyncCron \/ OpenPage
  \/ \E b \in Background : JobRuns(b)
  \/ \E i \in DOMAIN ab.polls : PollServiceStatus(i)
  \/ \E on \in BOOLEAN, m \in {"daily", "weekly"} : ChooseSchedule(on, m)

(* Timers fire and requests are answered, or time out; a job may hang      *)
AdblockFairness ==
  /\ WF_ab(InitActionDone) /\ WF_ab(PauseCountdown) /\ WF_ab(SyncCron)
  /\ WF_ab(\E i \in DOMAIN ab.polls : PollServiceStatus(i))
AdblockSpec == AdblockInit /\ [][AdblockNext]_ab /\ AdblockFairness

----------------------------------------------------------------------------
(* However long the service works, and even if it hangs, the dialog over   *)
(* the page goes away and a pause's countdown ends                         *)
AdblockPageReturns == <>[](~ab.spinner /\ ab.left = 0)

(* "state-only change ... the schedule of the EXISTING line is preserved"  *)
(* (luci.adblock-fast:124-131): starting, stopping and enabling never take *)
(* away a schedule that the user has switched on                           *)
SuspendedIsNotDisabled ==
  [][ab.line.state \in {"active", "suspended"} /\ ab.line'.state = "disabled" => ~ab.wanted]_ab
=============================================================================
