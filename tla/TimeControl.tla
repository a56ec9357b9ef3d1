---------------------------- MODULE TimeControl ----------------------------
(***************************************************************************)
(* Parental control (luci-app-timecontrol): the rules page, rules.js, and  *)
(* the daemon that turns the rules into firewall rules and counts the      *)
(* temporary blocks down, root/usr/bin/timecontrol.                        *)
(*                                                                         *)
(* tc.conf is the committed configuration, tc.page what the page shows.    *)
(* tc.calls are the page's requests that are under way, tc.delta what the  *)
(* save among them carries, tc.staged what the router holds until it is    *)
(* applied.                                                                *)
(* tc.fw is the firewall: whether the chain is there, what each rule does  *)
(* in it ("timed", "always") and which reject rules it has, each with the  *)
(* clients that it spares.  It is written by two processes: the init       *)
(* script that runs "flush" and the daemon; tc.jobs is where each is in    *)
(* Initialize.  tc.at is the rule that the daemon's tick is at (0: none),  *)
(* tc.got the duration that it read.  tc.wanted: procd keeps a daemon.     *)
(* tc.crossed is history: the last Initialize to begin began while the     *)
(* other process was inside its own.  MaxTcEdits bounds what the user does.*)
(* A day has DaySeconds, and a range is a pair of seconds.                 *)
(***************************************************************************)
EXTENDS Integers, FiniteSets, FiniteSetsExt, TLC

CONSTANTS TcRules,      \* the number of rules
          DaySeconds, MinuteSeconds,
          TcRanges,     \* the ranges a user may type
          MaxDuration,  \* the longest temporary block
          MaxTcEdits    \* what the user does

ASSUME TimeControlAssumption ==
  /\ TcRules \in Nat \ {0} /\ MaxDuration \in Nat \ {0} /\ MaxTcEdits \in Nat
  /\ DaySeconds \in Nat \ {0} /\ MinuteSeconds \in Nat \ {0}
  /\ TcRanges \subseteq (0..DaySeconds) \X (0..DaySeconds)

VARIABLE tc

----------------------------------------------------------------------------
(* A range is accepted next to the others of its list                      *)
ValidTimeRange(r, list) ==
  /\ r[1] < r[2]
  /\ \A o \in list \ {r} : r[2] <= o[1] \/ r[1] >= o[2]
AcceptedRanges(list) == \A r \in list : ValidTimeRange(r, list)

WholeDay == <<0, DaySeconds - 1>>
(* How many days are named: none, some or all of them                      *)
TcDays == {"none", "some", "all"}
AnyDayAllowed(days) == days \in {"none", "all"}

TcSum(list) == MapThenSumSet(LAMBDA r : r[2] - r[1], list)

(* The minutes of a day that the rule's row says are left                  *)
GetAvailableDuration(type, rule) ==
  IF rule.ranges = {} THEN
    IF type = "0" THEN 0
    ELSE IF AnyDayAllowed(rule.days) THEN DaySeconds \div MinuteSeconds ELSE 0
  ELSE IF WholeDay \in rule.ranges THEN 0
  ELSE (DaySeconds - TcSum(rule.ranges)) \div MinuteSeconds

(* A list that the page accepts leaves exactly the seconds it does not     *)
(* cover                                                                   *)
ASSUME AvailableIsUncovered ==
  \A list \in SUBSET ((0..DaySeconds) \X (0..DaySeconds)) : list # {} /\ AcceptedRanges(list) =>
    GetAvailableDuration("0", [ranges |-> list, days |-> "none"]) =
      Cardinality({t \in 0..DaySeconds - 1 : \A r \in list : ~(r[1] <= t /\ t < r[2])})
        \div MinuteSeconds

(* What the columns of the rule's row say                                  *)
RuleTimerangelistTxt(type, rule) ==
  IF rule.ranges = {} THEN
    IF type # "0" /\ AnyDayAllowed(rule.days) THEN "unspecified" ELSE "AnyTime"
  ELSE IF WholeDay \in rule.ranges THEN "AnyTime" ELSE "ranges"
RuleWeekdaysTxt(rule) == IF AnyDayAllowed(rule.days) THEN "AnyDay" ELSE "days"
RuleTemporaryDurationTxt(rule) ==
  IF rule.duration = 0 THEN "0" ELSE IF rule.control = "0" THEN "unblock" ELSE "block"
RuleRow(type, rule) ==
  [temporary |-> RuleTemporaryDurationTxt(rule), time |-> RuleTimerangelistTxt(type, rule),
   available |-> GetAvailableDuration(type, rule), days |-> RuleWeekdaysTxt(rule)]
(* A rule whose row says that it holds at any time leaves no minute        *)
ASSUME AnyTimeLeavesNothing ==
  \A type \in {"0", "1"}, days \in TcDays, list \in {{}, {WholeDay}, {<<0, 1>>}}, control \in {"0", "1"} :
    LET row == RuleRow(type, [ranges |-> list, days |-> days, duration |-> 0, control |-> control])
    IN  /\ row.time = "AnyTime" => row.available = 0
        /\ row.time = "unspecified" => row.available = DaySeconds \div MinuteSeconds /\ row.days = "AnyDay"

----------------------------------------------------------------------------
(* add_controlRules: the firewall rule that a rule becomes                 *)
AddControlRules(type, rule) ==
  IF rule.enable = "0" \/ (rule.duration > 0 /\ rule.control = "0") THEN "none"
  ELSE IF rule.duration > 0 /\ rule.control = "1" THEN "always"
  ELSE IF type # "0" /\ rule.ranges = {} /\ AnyDayAllowed(rule.days) THEN "none"
  ELSE "timed"
(* add_rejectRule: with a whitelist, clients without an enabled rule       *)
AddRejectRule(conf, known) == [spared |-> known, when |-> conf.when]
(* The firewall that a configuration asks for                              *)
Asked(conf) ==
  [chain |-> TRUE,
   rules |-> [r \in 1..TcRules |-> {AddControlRules(conf.type, conf.rules[r])} \ {"none"}],
   rejects |-> IF conf.type = "0" THEN {}
               ELSE {AddRejectRule(conf, {r \in 1..TcRules : conf.rules[r].enable = "1"})}]
EmptyChain == [chain |-> TRUE, rules |-> [r \in 1..TcRules |-> {}], rejects |-> {}]
NoRules == [EmptyChain EXCEPT !.chain = FALSE]

FreshRule(e) == [enable |-> e, control |-> "0", duration |-> 0, ranges |-> {}, days |-> "none"]
NoDelta == [o \in {} |-> 0]
Unread == -1
Idle == [step |-> "idle", rule |-> 0, got |-> "none", type |-> "0", known |-> {}]
Loads == [Idle EXCEPT !.step = "load"]
TcInit ==
  \E e \in [1..TcRules -> {"0", "1"}], type \in {"0", "1"} :
    LET conf == [enable |-> "1", type |-> type, when |-> "any",
                 rules |-> [r \in 1..TcRules |-> FreshRule(e[r])]]
    IN tc = [conf |-> conf, page |-> conf, delta |-> NoDelta, staged |-> NoDelta, calls |-> {},
             reload |-> FALSE, wanted |-> TRUE, run |-> "on", fw |-> Asked(conf),
             jobs |-> [init |-> Idle, daemon |-> Idle], at |-> 0, got |-> Unread,
             expired |-> FALSE, crossed |-> FALSE, shown |-> TRUE, edits |-> 0]

(* Changes, a function of options <<section, option>>, on a configuration; *)
(* section 0 is the global one                                             *)
Changed(section, options, d) ==
  [f \in DOMAIN options |-> IF <<section, f>> \in DOMAIN d THEN d[<<section, f>>] ELSE options[f]]
Committed(conf, d) ==
  [Changed(0, conf, d) EXCEPT !.rules = [r \in 1..TcRules |-> Changed(r, @[r], d)]]

----------------------------------------------------------------------------
(* The user                                                                *)
CanTcEdit == tc.edits < MaxTcEdits /\ tc.calls = {}

(* What the router has, with what is staged for this session; it matters   *)
(* to a later change                                                       *)
TcLoad == /\ CanTcEdit /\ tc.page # Committed(tc.conf, tc.staged)
          /\ tc' = [tc EXCEPT !.page = Committed(tc.conf, tc.staged)]

(* A control that was changed, or a rule's dialog that was saved, is saved *)
(* but not applied                                                         *)
Saves(d, calls) ==
  tc' = [tc EXCEPT !.page = Committed(@, d), !.delta = d, !.calls = calls, !.edits = @ + 1]
TcEditRule(r) ==
  /\ CanTcEdit
  /\ \/ Saves(<<r, "enable">> :> (IF tc.page.rules[r].enable = "1" THEN "0" ELSE "1"), {"save"})
     \/ \E d \in TcDays \ {tc.page.rules[r].days} : Saves(<<r, "days">> :> d, {"save"})
     \/ \E list \in SUBSET TcRanges :
          /\ list # tc.page.rules[r].ranges /\ AcceptedRanges(list)
          /\ Saves(<<r, "ranges">> :> list, {"save"})
     \/ \E c \in {"0", "1"}, d \in (1..MaxDuration) \ {tc.page.rules[r].duration} :
          Saves(<<r, "control">> :> c @@ <<r, "duration">> :> d, {"save"})
TcEditConfig ==
  /\ CanTcEdit
  /\ \/ Saves(<<0, "enable">> :> (IF tc.page.enable = "1" THEN "0" ELSE "1"), {"save"})
     \/ Saves(<<0, "type">> :> (IF tc.page.type = "1" THEN "0" ELSE "1"), {"save"})
     \/ tc.page.type = "1" /\ Saves(<<0, "when">> :> (IF tc.page.when = "any" THEN "some" ELSE "any"), {"save"})
(* Save & Apply of what was saved before                                   *)
TcSaveApply == tc.calls = {} /\ tc.staged # NoDelta /\ tc' = [tc EXCEPT !.calls = {"apply"}]

GetTargetRules(select, chosen) ==
  {r \in 1..TcRules :
     CASE select = "0" -> TRUE
       [] select = "1" -> tc.page.rules[r].enable = "1"
       [] select = "2" -> tc.page.rules[r].enable = "0"
       [] OTHER -> r \in chosen}
TcSelect(chosen) == {GetTargetRules(s, chosen) : s \in {"0", "1", "2", "3"}}
(* The quick controls save the changes and apply them: map.save() is not   *)
(* awaited, so the two requests reach the router in either order.  (With 0 *)
(* minutes nobody reads the control: one value stands for both.)           *)
SetTemporaryDurationOption ==
  /\ CanTcEdit
  /\ \E control \in {"0", "1"}, value \in 0..MaxDuration :
       \E targets \in UNION {TcSelect(chosen) : chosen \in SUBSET (1..TcRules)} \ {{}} :
         /\ value = 0 => control = "0"
         /\ Saves([o \in targets \X {"control", "duration"} |-> IF o[2] = "control" THEN control ELSE value],
                  {"save", "apply"})
TcSaveArrives ==
  /\ "save" \in tc.calls
  /\ tc' = [tc EXCEPT !.calls = @ \ {"save"}, !.staged = tc.delta @@ @, !.delta = NoDelta]
(* Nothing staged: LuCI answers that there are no changes to apply         *)
TcApplyArrives ==
  /\ "apply" \in tc.calls
  /\ IF tc.staged = NoDelta THEN tc' = [tc EXCEPT !.calls = @ \ {"apply"}]
     ELSE tc' = [tc EXCEPT !.calls = @ \ {"apply"}, !.conf = Committed(@, tc.staged),
                           !.staged = NoDelta, !.reload = TRUE]

(* The status line polls the chain                                         *)
GetFirewallChainStatus == tc.fw.chain
RenderStatus == tc.shown # GetFirewallChainStatus /\ tc' = [tc EXCEPT !.shown = GetFirewallChainStatus]

----------------------------------------------------------------------------
(* The init script and procd.  A commit triggers a reload; reloads run one *)
(* at a time.  A running daemon is signalled and "flush" is run by the     *)
(* script itself, in Initialize; without a daemon procd starts one.        *)
TcReload ==
  /\ tc.reload /\ tc.jobs.init = Idle
  /\ tc' = IF tc.conf.enable = "1"
             THEN IF tc.run # "off" THEN [tc EXCEPT !.reload = FALSE, !.jobs.init = Loads]
                  ELSE [tc EXCEPT !.reload = FALSE, !.wanted = TRUE]
           ELSE IF tc.run # "off"
             THEN [tc EXCEPT !.reload = FALSE, !.wanted = FALSE, !.run = "dying"]
           ELSE [tc EXCEPT !.reload = FALSE, !.wanted = FALSE, !.fw = NoRules]
StartDaemon ==
  /\ tc.wanted /\ tc.run = "off"
  /\ tc' = [tc EXCEPT !.run = "on", !.jobs.daemon = Loads]
(* stop: the trap of a daemon that exits or was signalled                  *)
Stopped(t) == [t EXCEPT !.run = "off", !.fw = NoRules, !.jobs.daemon = Idle,
                        !.at = 0, !.got = Unread, !.expired = FALSE]
DaemonStops == tc.run = "dying" /\ tc' = Stopped(tc)

(* Initialize: load the configuration (which ends a process that finds it  *)
(* disabled), empty the chain, then for each rule read its options and run *)
(* nft, at last reject the others.  The options of one rule are read       *)
(* together.  After the init script's own, procd has its daemon again.     *)
Ends(t, a) == IF a = "init" THEN [t EXCEPT !.jobs[a] = Idle, !.wanted = TRUE]
              ELSE [t EXCEPT !.jobs[a] = Idle]
ToRule(t, a, r) ==
  IF r <= TcRules THEN [t EXCEPT !.jobs[a].step = "read", !.jobs[a].rule = r, !.jobs[a].got = "none"]
  ELSE IF t.jobs[a].type # "0" THEN [t EXCEPT !.jobs[a].step = "reject", !.jobs[a].got = "none"]
  ELSE Ends(t, a)
LoadConfig(a) ==
  LET other == IF a = "init" THEN "daemon" ELSE "init" IN
  /\ tc.jobs[a].step = "load"
  /\ tc' = IF tc.conf.enable = "1"
             THEN [tc EXCEPT !.jobs[a].step = "flush", !.jobs[a].type = tc.conf.type,
                             !.crossed = tc.jobs[other] # Idle]
           ELSE IF a = "daemon" THEN Stopped(tc) ELSE Ends(tc, a)
SetNftablesChains(a) ==
  tc.jobs[a].step = "flush" /\ tc' = ToRule([tc EXCEPT !.fw = EmptyChain], a, 1)
ReadRule(a) ==
  LET r == tc.jobs[a].rule
      does == AddControlRules(tc.jobs[a].type, tc.conf.rules[r])
      t == [tc EXCEPT !.jobs[a].known = IF tc.conf.rules[r].enable = "1" THEN @ \cup {r} ELSE @]
  IN  /\ tc.jobs[a].step = "read"
      /\ tc' = IF does = "none" THEN ToRule(t, a, r + 1)
               ELSE [t EXCEPT !.jobs[a].step = "add", !.jobs[a].got = does]
(* nft fails when the chain is gone                                        *)
SetRules(a) ==
  LET j == tc.jobs[a] IN
  \/ /\ j.step = "add"
     /\ tc' = ToRule([tc EXCEPT !.fw.rules[j.rule] = IF tc.fw.chain THEN @ \cup {j.got} ELSE @], a, j.rule + 1)
  \/ /\ j.step = "reject"
     /\ tc' = Ends([tc EXCEPT !.fw.rejects =
                      IF tc.fw.chain THEN @ \cup {AddRejectRule(tc.conf, j.known)} ELSE @], a)
Initialize(a) ==
  /\ a = "daemon" => tc.run = "on"
  /\ LoadConfig(a) \/ SetNftablesChains(a) \/ ReadRule(a) \/ SetRules(a)

----------------------------------------------------------------------------
(* The daemon.  A minute has passed: it reads each rule's duration, then   *)
(* writes what it counted; commits of the page may come in between.  When  *)
(* a duration came to an end it runs Initialize itself.                    *)
TickBegins ==
  /\ tc.run = "on" /\ tc.jobs.daemon = Idle /\ tc.at = 0
  /\ IF tc.conf.enable # "1" THEN tc' = Stopped(tc)
     ELSE /\ \E r \in 1..TcRules : tc.conf.rules[r].duration > 0
          /\ tc' = [tc EXCEPT !.at = 1]
NextRule(t) ==
  IF t.at < TcRules THEN [t EXCEPT !.at = @ + 1, !.got = Unread]
  ELSE [t EXCEPT !.at = 0, !.got = Unread, !.expired = FALSE,
                 !.jobs.daemon = IF t.expired THEN Loads ELSE Idle]
(* Mutant: a rule that is not enabled is passed over                       *)
SkipsDisabled ==
  /\ tc.run = "on" /\ tc.at > 0 /\ tc.got = Unread
  /\ LET rule == tc.conf.rules[tc.at] IN
     tc' = IF rule.duration <= 0 \/ rule.enable = "0" THEN NextRule(tc) ELSE [tc EXCEPT !.got = rule.duration]
ReadTemporaryDuration ==
  /\ tc.run = "on" /\ tc.at > 0 /\ tc.got = Unread
  /\ LET duration == tc.conf.rules[tc.at].duration IN
     tc' = IF duration <= 0 THEN NextRule(tc) ELSE [tc EXCEPT !.got = duration]
UpdateRuleTemporaryDuration ==
  /\ tc.run = "on" /\ tc.at > 0 /\ tc.got # Unread
  /\ LET d == tc.got - 1 IN
     tc' = NextRule([tc EXCEPT !.conf.rules[tc.at].duration = d, !.expired = @ \/ d = 0])

TcNext ==
  \/ TcLoad \/ TcEditConfig \/ TcSaveApply \/ SetTemporaryDurationOption
  \/ \E r \in 1..TcRules : TcEditRule(r)
  \/ TcSaveArrives \/ TcApplyArrives \/ RenderStatus
  \/ TcReload \/ StartDaemon \/ DaemonStops
  \/ \E a \in {"init", "daemon"} : Initialize(a)
  \/ TickBegins \/ ReadTemporaryDuration \/ UpdateRuleTemporaryDuration
(* The init script, procd, the daemon and the page's poll run; the user    *)
(* need not act, and what the page sent need not arrive                    *)
TcFairness ==
  /\ WF_tc(TcReload \/ Initialize("init"))
  /\ WF_tc(StartDaemon \/ DaemonStops \/ Initialize("daemon") \/ TickBegins
            \/ ReadTemporaryDuration \/ UpdateRuleTemporaryDuration)
  /\ WF_tc(RenderStatus)
TcSpec == TcInit /\ [][TcNext]_tc /\ TcFairness

----------------------------------------------------------------------------
(* The user's changes, the requests under way and the minute ticks, which  *)
(* write what they read before and may revive a block that was cancelled,  *)
(* settle: every temporary block and unblock ends ("when the temporary     *)
(* duration timer ends, it will automatically take effect according to the *)
(* original rules"), of a disabled rule, too; the firewall is the one that *)
(* the configuration asks for, or none when the control is switched off;   *)
(* and the page says which.  The exception is a last Initialize that began *)
(* inside the other process's: nothing keeps the two apart, and the one    *)
(* may then empty or add to what the other wrote.                          *)
FirewallSettles ==
  <>[](/\ tc.shown = tc.fw.chain
       /\ IF tc.conf.enable = "1"
            THEN /\ \A r \in 1..TcRules : tc.conf.rules[r].duration = 0
                 /\ tc.fw.chain /\ (tc.fw = Asked(tc.conf) \/ tc.crossed)
            ELSE tc.fw = NoRules)
=============================================================================
