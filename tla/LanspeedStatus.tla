--------------------------- MODULE LanspeedStatus ---------------------------
(***************************************************************************)
(* The status page of lanspeed: the controller that loads the daemon's     *)
(* samples over and over (statusOverview.js), the error notice, and the    *)
(* buttons that limit or block a client (clientControl.js).                *)
(*                                                                         *)
(* The daemon publishes a new sample at each tick, ls.now, and the samples *)
(* of status, clients and interfaces that the page shows must belong       *)
(* together: ls.shown has the sample of each, None when it shows nothing.  *)
(* ls.rule is the daemon's rule for a client, ls.row what the page's row   *)
(* says of it.  ls.stage is the request under way, ls.sent the tick and    *)
(* ls.old the rule when it was sent.                                       *)
(***************************************************************************)
EXTENDS Integers, FiniteSets

CONSTANTS MaxTicks, MaxFailed, MaxRules, Skew

LiveSources == {"status", "clients", "interfaces"}
LsSources == LiveSources \cup {"uci"}
Platforms == {"x86", "edge", "routed"}       (* fmt.nssPlatform and its modes *)

ASSUME LanspeedAssumption ==
  /\ MaxTicks \in Nat /\ MaxFailed \in Nat /\ MaxRules \in Nat
  /\ Skew \in [Platforms -> Nat]

VARIABLE ls

NoSample == -1
NothingShown == [k \in LiveSources |-> NoSample]

----------------------------------------------------------------------------
(* Whether samples belong together.  The view of the routed Internet takes *)
(* no sample from status; a missing sample is not compared.                *)
Clocks(data, platform) ==
  {data[k] : k \in IF platform = "routed" THEN LiveSources \ {"status"} ELSE LiveSources}
    \ {NoSample}
LivePairAligned(data, platform) ==
  \A a, b \in Clocks(data, platform) : a - b <= Skew[platform]
(* Nothing was shown yet, and the access edge may be shown as it is        *)
NssAccessEdgeRenderable(data, platform) ==
  platform = "edge" /\ data["clients"] # NoSample

(* Mutant: samples are shown as they come                                  *)
ShowsAnySample(data, old, platform) == [data |-> data, renderable |-> FALSE]
AlignLiveSamples(data, old, platform) ==
  CASE LivePairAligned(data, platform) -> [data |-> data, renderable |-> FALSE]
    [] ~LivePairAligned(data, platform) /\ LivePairAligned(old.data, platform) ->
         [data |-> old.data, renderable |-> FALSE]
    [] OTHER ->
         IF NssAccessEdgeRenderable(data, platform)
           THEN [data |-> data, renderable |-> TRUE]
           ELSE [data |-> NothingShown, renderable |-> FALSE]

(* What is loaded: each source answers, between the sending of the request *)
(* and now, or fails; a failed source keeps what it had shown              *)
Answers(failed) ==
  {[k \in LiveSources |-> IF k \in failed THEN ls.shown.data[k] ELSE at[k]] :
     at \in [LiveSources -> ls.sent..ls.now]}

----------------------------------------------------------------------------
LsInit ==
  \E p \in Platforms, failed \in {{}, LsSources} :
    ls = [platform |-> p, now |-> 0, rule |-> 0, row |-> 0,
          shown |-> [data |-> IF failed = {} THEN [k \in LiveSources |-> 0] ELSE NothingShown,
                     renderable |-> FALSE],
          failures |-> 0,
          stage |-> "none", sent |-> 0, old |-> 0, timer |-> TRUE, manual |-> FALSE,
          paused |-> FALSE, destroyed |-> FALSE, hidden |-> FALSE,
          notice |-> [of |-> failed, visible |-> TRUE, timer |-> failed # {}],
          control |-> "none", wasPaused |-> FALSE, rules |-> 0]

Tick == ls.now < MaxTicks /\ ls' = [ls EXCEPT !.now = @ + 1]

(* refreshAvailability: a failure of other sources than before is shown    *)
(* for three seconds; without a failure the notice goes away               *)
RefreshAvailability(failed, notice) ==
  CASE failed = {} -> [of |-> {}, visible |-> TRUE, timer |-> FALSE]
    [] failed # {} /\ failed # notice.of -> [of |-> failed, visible |-> TRUE, timer |-> TRUE]
    [] OTHER -> notice
HideNotice ==
  /\ ls.notice.timer
  /\ ls' = [ls EXCEPT !.notice.timer = FALSE, !.notice.visible = FALSE]
VisibilityChanged ==
  /\ ~ls.destroyed
  /\ ls' = [ls EXCEPT !.hidden = ~@,
                      !.notice = IF ~ls.hidden
                                   THEN [of |-> @.of, visible |-> FALSE, timer |-> FALSE]
                                 ELSE IF @.of # {}
                                   THEN [of |-> @.of, visible |-> TRUE, timer |-> TRUE]
                                 ELSE @]

(* A reload while one is under way only marks the button                   *)
Schedule(s) == [s EXCEPT !.timer = ~(s.destroyed \/ s.stage # "none" \/ s.paused)]
Reload(s, manual) ==
  CASE s.destroyed -> s
    [] ~s.destroyed /\ s.stage # "none" -> [s EXCEPT !.manual = @ \/ manual]
    [] OTHER -> [s EXCEPT !.timer = FALSE, !.manual = manual, !.stage = "realtime",
                          !.sent = s.now, !.old = s.rule]
TimerFires == ls.timer /\ ls' = Reload([ls EXCEPT !.timer = FALSE], FALSE)
ClickRefresh == ~ls.destroyed /\ ~ls.manual /\ ls' = Reload(ls, TRUE)
ClickPause ==
  /\ ~ls.destroyed
  /\ ls' = IF ls.paused THEN Schedule([ls EXCEPT !.paused = FALSE])
           ELSE [ls EXCEPT !.paused = TRUE, !.timer = FALSE]

(* A failed bundle is loaded source by source, and once more when the      *)
(* daemon has published between the answers                                *)
Apply(s, failed, data, row) ==
  LET aligned == AlignLiveSamples(data, s.shown, s.platform) IN
  Schedule([s EXCEPT !.shown = aligned, !.stage = "none",
                     !.manual = FALSE, !.notice = RefreshAvailability(failed, @),
                     !.row = IF aligned.data["clients"] = NoSample \/ "clients" \in failed
                                  \/ aligned.data # data THEN @ ELSE row])
Sees == {ls.old, ls.rule}
RealtimeSettles ==
  /\ ls.stage = "realtime"
  /\ \/ \E data \in Answers({}), row \in Sees : ls' = Apply(ls, {}, data, row)
     \/ ls.failures < MaxFailed /\ ls' = [ls EXCEPT !.stage = "legacy", !.failures = @ + 1]
LegacySettles ==
  /\ ls.stage \in {"legacy", "retry"}
  /\ \E failed \in SUBSET LsSources, row \in Sees :
       /\ failed # {} => ls.failures < MaxFailed
       /\ \E data \in Answers(failed) :
            LET s == [ls EXCEPT !.failures = IF failed = {} THEN @ ELSE @ + 1] IN
            ls' = IF \/ ls.stage = "retry"
                     \/ failed \cap LiveSources # {}
                     \/ LivePairAligned(data, ls.platform)
                     \/ NssAccessEdgeRenderable(data, ls.platform)
                    THEN Apply(s, failed, data, row)
                    ELSE [s EXCEPT !.stage = "retry", !.sent = ls.now, !.old = ls.rule]

(* Limiting or blocking a client: the timer stops, and the answer's rule   *)
(* is put into the row before the page is loaded again                     *)
RunControl ==
  /\ ls.control = "none" /\ ~ls.destroyed /\ ls.rules < MaxRules
  /\ ls' = [ls EXCEPT !.control = "asked", !.wasPaused = ls.paused, !.rules = @ + 1,
                      !.timer = @ /\ ls.paused]
(* Mutant: the page is not loaded again once the rule is set               *)
LeavesTimerOff ==
  /\ ls.control = "asked"
  /\ ls' = [ls EXCEPT !.rule = @ + 1, !.row = ls.rule + 1, !.control = "none"]
RuleSet ==
  /\ ls.control = "asked"
  /\ \/ ls' = Reload([ls EXCEPT !.rule = @ + 1, !.row = ls.rule + 1, !.control = "reloading"], TRUE)
     \/ ls' = IF ls.wasPaused THEN [ls EXCEPT !.control = "none"]
              ELSE Schedule([ls EXCEPT !.control = "none"])
(* reload's promise is that of the request under way                       *)
ControlDone ==
  /\ ls.control = "reloading" /\ (ls.stage = "none" \/ ls.destroyed)
  /\ ls' = IF ls.wasPaused THEN [ls EXCEPT !.control = "none"]
           ELSE Schedule([ls EXCEPT !.control = "none"])

DestroyPage ==
  /\ ~ls.destroyed
  /\ ls' = [ls EXCEPT !.destroyed = TRUE, !.timer = FALSE, !.stage = "none", !.notice.timer = FALSE]

LsNext ==
  \/ Tick \/ HideNotice \/ VisibilityChanged \/ TimerFires \/ ClickRefresh \/ ClickPause
  \/ RealtimeSettles \/ LegacySettles \/ RunControl \/ RuleSet \/ ControlDone \/ DestroyPage

(* Timers fire; a request is answered or times out                         *)
LsFairness ==
  /\ WF_ls(HideNotice) /\ WF_ls(TimerFires) /\ WF_ls(RealtimeSettles \/ LegacySettles)
  /\ WF_ls(RuleSet) /\ WF_ls(ControlDone)
LsSpec == LsInit /\ [][LsNext]_ls /\ LsFairness

----------------------------------------------------------------------------
(* Rates of the clients, totals of the interfaces and the coverage that    *)
(* the page shows side by side are of one sample, although each source may *)
(* fail or be answered later than the others                               *)
ShownBelongTogether == ls.shown.renderable \/ LivePairAligned(ls.shown.data, ls.platform)

(* Whatever pauses, failed requests and rules set during a request do, a   *)
(* page that is not paused shows the daemon's last sample and its rule in  *)
(* the end: the page's timer is never lost                                 *)
LanspeedCatchesUp ==
  \/ []<>ls.paused
  \/ <>[](\/ ls.destroyed \/ ls.paused
          \/ ls.row = ls.rule /\ \A k \in LiveSources : ls.shown.data[k] = ls.now)
=============================================================================
