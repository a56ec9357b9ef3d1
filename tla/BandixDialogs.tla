--------------------------- MODULE BandixDialogs ---------------------------
(***************************************************************************)
(* The traffic page of luci-app-bandix (view/bandix/index.js): the device  *)
(* table and its poll, the device dialog with its schedule rules and host  *)
(* name, the rule form on top of it and the confirmation on top of both.   *)
(*                                                                         *)
(* bxs are the rules of the bandix service, bx is the page.  A remote call *)
(* is an action that sends it and one that handles its answer, which may   *)
(* be an error; other events come between them.  BxNone and BxNo stand for *)
(* null.  The dialog of the global rate limit has a state of its own, bw:  *)
(* the limit, the devices exempted from it, and the badge on the page that *)
(* tells whether it is on.                                                 *)
(***************************************************************************)
EXTENDS Integers, FiniteSets, FiniteSetsExt

CONSTANTS
  Macs,        \* devices
  RuleIds,     \* names for schedule rules
  Slots,       \* time slots: [start, end, days]
  Limits,      \* rate limits, 0 for none
  Clock,       \* moments: [day, time]
  MaxTimers,   \* bound: closing timers that run at once
  MaxCalls,    \* bound: calls of one kind in flight
  MaxFlights,  \* bound: calls in flight when the user starts another one
  Listable,     \* devices that may be exempted from the rate limit
  KUnit, MUnit, \* units of the rate form (1024, 1048576)
  BitUnit,      \* the smallest bit unit (125)
  Amounts,      \* bound: numbers entered in the rate form, below MUnit \div KUnit
  SavedRates,   \* bound: amounts and units with which the rate form is saved
  MaxOperations, \* bound: operations on the rate limit at once
  MaxRateSteps  \* bound: operations on the rate limit
ASSUME BandixAssumption ==
  MaxTimers \in Nat /\ MaxCalls \in Nat /\ MaxFlights \in Nat /\ 0 \in Limits
ASSUME LimitsAssumption ==
  {KUnit, MUnit, BitUnit} \subseteq Nat \ {0} /\ SavedRates \subseteq Amounts \X {KUnit, MUnit, BitUnit}
  /\ MaxOperations \in Nat \ {0} /\ MaxRateSteps \in Nat

VARIABLES bxs, bx, bw
bxVars == <<bxs, bx>>
BxNone == "none"             \* no device
BxNo == [kind |-> "none"]      \* no rule, call or question
BxRules == [id : RuleIds, mac : Macs, slot : Slots, up : Limits]

BxInit ==
  /\ bxs \in {rs \in SUBSET {r \in BxRules : r.up # 0} : \A r, t \in rs : r.id = t.id => r = t}
  /\ bx = [cur |-> BxNone, shown |-> BxNone, timers |-> 0,
           list |-> {}, listing |-> 0, add |-> FALSE, editing |-> BxNo,
           saving |-> BxNo, ask |-> BxNo, deleting |-> BxNo,
           naming |-> BxNone,
           updates |-> 0, all |-> {}, rulesLoading |-> FALSE, rows |-> [m \in {} |-> 0]]

----------------------------------------------------------------------------
(* isRuleActive: the day, then the time; a slot may cross midnight         *)
IsRuleActive(r, now) ==
  /\ now.day \in r.slot.days
  /\ IF r.slot.start <= r.slot.end
     THEN r.slot.start <= now.time /\ now.time <= r.slot.end
     ELSE r.slot.start <= now.time \/ now.time <= r.slot.end
GetActiveRulesForDevice(rules, mac, now) == {r \in rules : r.mac = mac /\ IsRuleActive(r, now)}
(* mergeActiveRulesLimits: the strictest limit that is set                 *)
MergeActiveRulesLimits(rules) ==
  LET set == {r.up : r \in rules} \ {0} IN IF set = {} THEN 0 ELSE Min(set)

----------------------------------------------------------------------------
InFlight ==
  bx.listing + bx.updates + Cardinality({c \in {bx.saving, bx.deleting} : c # BxNo})
  + (IF bx.naming = BxNone THEN 0 ELSE 1)
MayCall == InFlight <= MaxFlights

(* fetchAllScheduleRules: one request at a time, a second caller does not  *)
(* wait; updateDeviceData: status and rules, then the table                *)
FetchAllScheduleRules(p) == [p EXCEPT !.rulesLoading = TRUE]
UpdateDeviceData(p) ==
  [FetchAllScheduleRules(p) EXCEPT !.updates = IF @ < MaxCalls THEN @ + 1 ELSE @]
PollDevices == /\ bx.updates = 0 /\ MayCall
               /\ bx' = UpdateDeviceData(bx) /\ UNCHANGED bxs
RulesLoaded(rules) == [bx EXCEPT !.all = rules, !.rulesLoading = FALSE]
AllRulesAnswer(ok) ==
  /\ bx.rulesLoading
  /\ bx' = RulesLoaded(IF ok THEN bxs ELSE {})
  /\ UNCHANGED bxs
(* The rows of the table; a caller that did not wait shows the rules known *)
DeviceTable(p, now) ==
  [m \in Macs |-> MergeActiveRulesLimits(GetActiveRulesForDevice(p.all, m, now))]
StatusAnswer(ok, now) ==
  /\ bx.updates > 0 /\ (bx.updates = 1 => ~bx.rulesLoading)
  /\ bx' = [bx EXCEPT !.updates = @ - 1,
                      !.rows = IF ok THEN DeviceTable(bx, now) ELSE @]
  /\ UNCHANGED bxs

----------------------------------------------------------------------------
(* The device dialog.  Closing it forgets the device when the animation is *)
(* over, 300 ms later, whatever has been opened since.                     *)
LoadScheduleRules(p) ==
  IF p.cur = BxNone THEN p
  ELSE [p EXCEPT !.list = {}, !.listing = IF @ < MaxCalls THEN @ + 1 ELSE @]
Top == IF bx.ask # BxNo THEN "ask" ELSE IF bx.add THEN "add"
       ELSE IF bx.shown # BxNone THEN "device" ELSE "page"
ShowRateLimitModal(m) ==
  /\ Top = "page" /\ m \in DOMAIN bx.rows
  /\ bx' = LoadScheduleRules([bx EXCEPT !.cur = m, !.shown = m, !.list = {}])
  /\ UNCHANGED bxs
HideRateLimitModal ==
  /\ Top = "device" /\ bx.timers < MaxTimers
  /\ bx' = [bx EXCEPT !.shown = BxNone, !.timers = @ + 1]
  /\ UNCHANGED bxs
ClosingTimer ==
  /\ bx.timers > 0
  /\ bx' = [bx EXCEPT !.timers = @ - 1, !.cur = BxNone]
  /\ UNCHANGED bxs

(* The answer of loadScheduleRules is filtered by the device of the dialog *)
(* as it is now; without one the handler throws and shows an error.        *)
DeviceRules(rules) == {r \in rules : r.mac = bx.cur}
ScheduleRulesAnswer(ok) ==
  /\ bx.listing > 0
  /\ bx' = [bx EXCEPT !.listing = @ - 1,
                      !.list = IF ok /\ bx.cur # BxNone THEN DeviceRules(bxs) ELSE {}]
  /\ UNCHANGED bxs

----------------------------------------------------------------------------
(* The rule form; what the user enters in it is chosen when it is saved    *)
ShowAddRuleModal(rule) ==
  /\ Top = "device" /\ bx.cur # BxNone
  /\ rule = BxNo \/ rule \in bx.list
  /\ bx' = [bx EXCEPT !.add = TRUE, !.editing = rule]
  /\ UNCHANGED bxs
HideAddRuleModal(p) == [p EXCEPT !.add = FALSE, !.editing = BxNo]
CancelRule == Top = "add" /\ bx' = HideAddRuleModal(bx) /\ UNCHANGED bxs
(* add-rule-save: the button is disabled while the call is in flight       *)
SaveRule(slot, up) ==
  /\ Top = "add" /\ bx.saving = BxNo /\ bx.cur # BxNone /\ MayCall
  /\ \/ bx.editing # BxNo
     \/ \E i \in RuleIds : \A r \in bxs : r.id # i
  /\ bx' = [bx EXCEPT !.saving = [rule |-> bx.editing, mac |-> bx.cur, slot |-> slot, up |-> up]]
  /\ UNCHANGED bxs
SaveRuleAnswer(ok) ==
  LET c == bx.saving
      id == IF c.rule # BxNo THEN c.rule.id
            ELSE CHOOSE i \in RuleIds : \A r \in bxs : r.id # i
      others == {r \in bxs : r.id # id}
  IN  /\ c # BxNo
      /\ ok /\ c.rule = BxNo => \E i \in RuleIds : \A r \in bxs : r.id # i
      /\ IF ok
         THEN /\ bxs' = IF c.rule = BxNo \/ c.rule.id \in {r.id : r \in bxs}
                      THEN others \union {[id |-> id, mac |-> c.mac, slot |-> c.slot, up |-> c.up]}
                      ELSE bxs
              /\ bx' = UpdateDeviceData(LoadScheduleRules(
                          [HideAddRuleModal(bx) EXCEPT !.saving = BxNo]))
         ELSE bx' = [bx EXCEPT !.saving = BxNo] /\ UNCHANGED bxs

----------------------------------------------------------------------------
(* The confirmation dialog: what it will do is fixed when it is shown      *)
ShowConfirmDialog(what) ==
  /\ \/ Top = "device" /\ what \in {[kind |-> "rule", of |-> r.id] : r \in bx.list}
     \/ Top = "page" /\ what \in {[kind |-> "device", of |-> m] : m \in DOMAIN bx.rows}
  /\ bx' = [bx EXCEPT !.ask = what]
  /\ UNCHANGED bxs
Confirm == /\ Top = "ask" /\ bx.deleting = BxNo /\ MayCall
           /\ bx' = [bx EXCEPT !.deleting = bx.ask, !.ask = BxNo]
           /\ UNCHANGED bxs
HideConfirmDialog == Top = "ask" /\ bx' = [bx EXCEPT !.ask = BxNo] /\ UNCHANGED bxs
(* Answers of callDeleteScheduleLimit and callDeleteDevice                 *)
DeleteAnswer(ok) ==
  LET d == bx.deleting IN
  /\ d # BxNo
  /\ bxs' = IF ok /\ d.kind = "rule" THEN {r \in bxs : r.id # d.of} ELSE bxs
  /\ bx' = LET p == [bx EXCEPT !.deleting = BxNo]
           IN  IF ~ok THEN p
               ELSE UpdateDeviceData(IF d.kind = "rule" THEN LoadScheduleRules(p) ELSE p)

----------------------------------------------------------------------------
(* saveHostname: a name that differs is sent; the answer is written to the *)
(* device the dialog has then, and refreshes the table.  If it has none    *)
(* the handler throws, and the page reports a failure.                     *)
SaveHostname ==
  /\ Top = "device" /\ bx.cur # BxNone /\ bx.naming = BxNone /\ MayCall
  /\ bx' = [bx EXCEPT !.naming = bx.cur]
  /\ UNCHANGED bxs
HostnameAnswer(ok) ==
  /\ bx.naming # BxNone
  /\ bx' = LET p == [bx EXCEPT !.naming = BxNone]
           IN  IF ok /\ bx.cur # BxNone THEN UpdateDeviceData(p) ELSE p
  /\ UNCHANGED bxs

----------------------------------------------------------------------------
BxAnswers ==
  \E ok \in BOOLEAN : \/ AllRulesAnswer(ok) \/ ScheduleRulesAnswer(ok) \/ SaveRuleAnswer(ok)
                      \/ DeleteAnswer(ok) \/ HostnameAnswer(ok)
                      \/ \E now \in Clock : StatusAnswer(ok, now)
BxNext ==
  \/ PollDevices \/ BxAnswers
  \/ \E m \in Macs : ShowRateLimitModal(m)
  \/ HideRateLimitModal \/ ClosingTimer
  \/ \E rule \in bx.list \union {BxNo} : ShowAddRuleModal(rule)
  \/ CancelRule
  \/ \E slot \in Slots, up \in Limits : SaveRule(slot, up)
  \/ \E what \in [kind : {"rule"}, of : RuleIds] \union [kind : {"device"}, of : Macs] :
       ShowConfirmDialog(what)
  \/ Confirm \/ HideConfirmDialog
  \/ SaveHostname
BxSpec == BxInit /\ [][BxNext]_bxVars

----------------------------------------------------------------------------
(* The dialog of a device lists rules of that device only, however the     *)
(* answers to the requests of an earlier dialog are delayed; and a rule is *)
(* only ever saved for the device it belongs to, although device and rule  *)
(* are read from variables that closing timers and late answers reset.     *)
OwnRulesOnly ==
  /\ bx.shown # BxNone => \A r \in bx.list : r.mac = bx.shown
  /\ (bx.saving # BxNo /\ bx.saving.rule # BxNo) => bx.saving.rule.mac = bx.saving.mac
  /\ bx.editing # BxNo => bx.add /\ bx.editing.mac = bx.shown

(* An open dialog can be used: it knows its device.                        *)
OpenDialogHasDevice == bx.shown # BxNone => bx.cur = bx.shown

----------------------------------------------------------------------------
(* The global rate limit.  enabled, macs and limit are the service's; the  *)
(* page has the dialog's list, form and box, and the badge.  An operation  *)
(* goes through the requests "mutate", "load" and "badge"; the service     *)
(* answers a request (got) before the page handles it, and answers may be  *)
(* handled in any order or lost.  age tells whether an answer is "fresh",  *)
(* "stale" (given before a later change) or "passed" (stale, and a fresh   *)
(* one of its kind has been handled).  doubt has the parts of the page     *)
(* that may be wrong: a change's answer was lost, an answer was empty, or  *)
(* the last one handled had been passed.                                   *)
Unserved == << >>
EmptyAnswer == <<"empty">>
Over == [by |-> "none", step |-> "over", sent |-> FALSE, got |-> Unserved, age |-> "fresh"]
Begun(by, step, sent) == [Over EXCEPT !.by = by, !.step = step, !.sent = sent]
Operations == 1..MaxOperations
Resting == \A i \in Operations : bw.ops[i].step = "over"
(* While the list is loading or has failed, nothing is listed; what the    *)
(* form shows then is left out.                                            *)
NotListed(w) == [w EXCEPT !.listed = FALSE, !.list = {}, !.form = <<"", KUnit>>]
(* The page asks for the badge when it is rendered                         *)
WhitelistInit ==
  bw = [enabled |-> FALSE, macs |-> {}, limit |-> 0, open |-> FALSE, listed |-> FALSE, list |-> {},
        box |-> FALSE, form |-> <<"", KUnit>>, badge |-> <<"blank">>, doubt |-> {}, steps |-> 0,
        ops |-> [i \in Operations |-> IF i = 1 THEN Begun("page", "badge", FALSE) ELSE Over]]

(* pickUnit: bit units if the rate is a multiple of them, else bytes with  *)
(* two decimals (counted in hundredths); unitToBytes                       *)
Round(n, d) == (2 * n + d) \div (2 * d)
PickUnit(n) ==
  IF n = 0 THEN <<0, KUnit>>
  ELSE IF n >= BitUnit /\ n % BitUnit = 0 THEN <<100 * (n \div BitUnit), BitUnit>>
  ELSE IF n >= MUnit THEN <<Round(100 * n, MUnit), MUnit>>
  ELSE <<Round(100 * n, KUnit), KUnit>>
UnitToBytes(v, unit) == Round(v * unit, 100)
(* A rate entered in any unit survives being shown in the form and saved   *)
(* from it untouched.                                                      *)
ASSUME RateReopens ==
  \A v \in Amounts, unit \in {KUnit, MUnit, BitUnit} :
    LET bytes == UnitToBytes(100 * v, unit)
        form == PickUnit(bytes)
    IN UnitToBytes(form[1], form[2]) = bytes

(* Only the control of a deletion is not disabled until it is over, and    *)
(* opening the dialog does not wait either.                                *)
Starts(i, by) ==
  /\ bw.steps < MaxRateSteps
  /\ bw.ops[i].step = "over" /\ \A j \in Operations : j < i => bw.ops[j].step # "over"
  /\ by \in {"toggle", "add", "defaults"} => \A j \in Operations : bw.ops[j].by # by
ShowWhitelistModal(i) ==
  /\ ~bw.open /\ Starts(i, "open")
  /\ bw' = [NotListed(bw) EXCEPT !.open = TRUE, !.steps = @ + 1, !.ops[i] = Begun("open", "load", FALSE)]
HideWhitelistModal == bw.open /\ bw' = [bw EXCEPT !.open = FALSE]
(* The checkbox has its new state when the change is sent                  *)
WhitelistOperation(i, by) ==
  /\ bw.open /\ Starts(i, by)
  /\ bw' = [bw EXCEPT !.steps = @ + 1, !.box = IF by = "toggle" THEN ~@ ELSE @,
                      !.ops[i] = Begun(by, "mutate", by = "toggle" /\ ~bw.box)]

----------------------------------------------------------------------------
(* The service: a change is applied or refused, which the page does not    *)
(* look at; a question is answered, or the answer is empty.                *)
Asked(i, step) == bw.ops[i].step = step /\ bw.ops[i].got = Unserved
ServiceSays(step) == IF step = "load" THEN <<bw.enabled, bw.macs, bw.limit>>
                  ELSE <<bw.enabled, Cardinality(bw.macs)>>
AnswersAge == [j \in Operations |->
  IF bw.ops[j].got # Unserved /\ bw.ops[j].age = "fresh"
  THEN [bw.ops[j] EXCEPT !.age = "stale"] ELSE bw.ops[j]]
Mutated(i, mac, v, unit) ==
  LET o == bw.ops[i] IN
  /\ Asked(i, "mutate")
  /\ bw' = [bw EXCEPT
        !.ops = [AnswersAge EXCEPT ![i] = [o EXCEPT !.got = <<"done">>]],
        !.enabled = IF o.by = "toggle" THEN o.sent ELSE @,
        !.macs = IF o.by = "add" THEN @ \union {mac} ELSE IF o.by = "delete" THEN @ \ {mac} ELSE @,
        !.limit = IF o.by = "defaults" THEN UnitToBytes(100 * v, unit) ELSE @]
Refuses(i) == Asked(i, "mutate") /\ bw' = [bw EXCEPT !.ops[i].got = <<"done">>]
Serves(i, step) ==
  /\ Asked(i, step)
  /\ \E got \in {ServiceSays(step), EmptyAnswer} : bw' = [bw EXCEPT !.ops[i].got = got]

----------------------------------------------------------------------------
(* The page handles an answer.  A fresh one, or the failure of a request   *)
(* that would have had one, passes the stale ones of its kind.             *)
Becomes(i, next) == [j \in Operations |->
  IF j = i THEN next
  ELSE IF bw.ops[i].age = "fresh" /\ bw.ops[j].age = "stale" /\ bw.ops[j].step = bw.ops[i].step
  THEN [bw.ops[j] EXCEPT !.age = "passed"] ELSE bw.ops[j]]
NextStep(o) == IF o.step = "load" /\ o.by # "open" THEN Begun(o.by, "badge", FALSE) ELSE Over
Doubted(o) ==
  IF o.age = "passed" \/ o.got = EmptyAnswer THEN bw.doubt \union {o.step}
  ELSE IF o.age = "fresh" THEN bw.doubt \ {o.step} ELSE bw.doubt
Changed(i) ==
  LET o == bw.ops[i] IN
  /\ o.step = "mutate" /\ o.got # Unserved
  /\ bw' = [NotListed(bw) EXCEPT !.ops[i] = Begun(o.by, "load", FALSE)]
LoadWhitelistModal(i) ==
  LET o == bw.ops[i]
      empty == o.got = EmptyAnswer
  IN  /\ o.step = "load" /\ o.got # Unserved
      /\ bw' = [bw EXCEPT !.ops = Becomes(i, NextStep(o)), !.doubt = Doubted(o), !.listed = TRUE,
                          !.box = IF empty THEN FALSE ELSE o.got[1],
                          !.list = IF empty THEN {} ELSE o.got[2],
                          !.form = IF empty THEN <<"", KUnit>> ELSE PickUnit(o.got[3])]
RefreshWhitelistStatus(i) ==
  LET o == bw.ops[i] IN
  /\ o.step = "badge" /\ o.got # Unserved
  /\ bw' = [bw EXCEPT !.ops = Becomes(i, Over), !.doubt = Doubted(o),
                      !.badge = IF o.got = EmptyAnswer THEN <<FALSE, 0>> ELSE o.got]
(* A failed change ends the operation, applied or not, and the checkbox    *)
(* stays as the user left it; a failed load or status is shown             *)
ChangeLost(i) ==
  LET o == bw.ops[i] IN
  /\ o.step = "mutate"
  /\ bw' = [bw EXCEPT !.ops[i] = Over,
                      !.doubt = IF o.got # Unserved THEN {"load", "badge"}
                                ELSE IF o.by = "toggle" THEN @ \union {"load"} ELSE @]
LoadLost(i) ==
  /\ bw.ops[i].step = "load"
  /\ bw' = [NotListed(bw) EXCEPT !.ops = Becomes(i, NextStep(bw.ops[i]))]
StatusLost(i) ==
  /\ bw.ops[i].step = "badge"
  /\ bw' = [bw EXCEPT !.ops = Becomes(i, Over), !.badge = <<"unavailable">>]

WhitelistNext ==
  \/ HideWhitelistModal
  \/ \E i \in Operations :
       \/ ShowWhitelistModal(i)
       \/ \E by \in {"toggle", "add", "delete", "defaults"} : WhitelistOperation(i, by)
       \/ \E mac \in Listable, rate \in SavedRates : Mutated(i, mac, rate[1], rate[2])
       \/ Refuses(i) \/ Serves(i, "load") \/ Serves(i, "badge")
       \/ Changed(i) \/ LoadWhitelistModal(i) \/ RefreshWhitelistStatus(i)
       \/ ChangeLost(i) \/ LoadLost(i) \/ StatusLost(i)

(* Whatever operations overlap, once they are over the badge and the list  *)
(* tell the service's state or say that they cannot, and saving the rate   *)
(* form untouched would not change a limit below the next larger unit.     *)
(* Excepted is only what doubt names: after a lost change, an empty answer *)
(* or an answer that a later one had passed.                               *)
BadgeTrue == bw.badge \in {<<bw.enabled, Cardinality(bw.macs)>>, <<"unavailable">>}
ListTrue ==
  bw.listed => /\ bw.list = bw.macs /\ bw.box = bw.enabled
               /\ UnitToBytes(bw.form[1], bw.form[2]) = bw.limit
BadgeSettles ==
  Resting => /\ "badge" \in bw.doubt \/ BadgeTrue
             /\ "load" \in bw.doubt \/ ListTrue
=============================================================================
