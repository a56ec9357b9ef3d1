----------------------------- MODULE PageProofs -----------------------------
(***************************************************************************)
(* Proofs about the pages that wait for something (MCPages): at most one   *)
(* speed test measures the line, and the samples that lanspeed's status    *)
(* page shows side by side belong together, for every number of clicks,    *)
(* ticks, failures and rules and every skew of the clocks.                 *)
(***************************************************************************)
EXTENDS MCPages, FiniteSetTheorems, TLAPS

----------------------------------------------------------------------------
(* The WAN test.  Being the only test that measures is not inductive: the  *)
(* lock is what a run inspects, so the invariant says that a run between   *)
(* taking and leaving the lock is the one the lock names.                  *)
TestPhases ==
  {"idle", "clicked", "started", "locking", "refused", "running", "done", "over"}

LockNamesTest ==
  /\ {"tests", "lock"} \subseteq DOMAIN nt
  /\ nt.tests \in [SpeedTests -> TestPhases]
  /\ \A t \in SpeedTests : nt.tests[t] \in {"running", "done"} => nt.lock = t

(* No step of the script or of its page breaks the link between the lock   *)
(* and the run that holds it                                               *)
LEMMA LockStep == LockNamesTest /\ WanNext => LockNamesTest'
<1> SUFFICES ASSUME LockNamesTest, WanNext PROVE LockNamesTest'
  OBVIOUS
<1> USE DEF LockNamesTest, TestPhases
<1>0. 0 \notin SpeedTests BY NetspeedtestAssumption DEF SpeedTests
<1>1. ASSUME NEW t \in SpeedTests, StartSpeedTest(t) PROVE LockNamesTest'
  BY <1>1 DEF StartSpeedTest
<1>2. ASSUME NEW t \in SpeedTests, TestingWritten(t) PROVE LockNamesTest'
  BY <1>2 DEF TestingWritten
<1>3. ASSUME NEW t \in SpeedTests, CheckPid(t) PROVE LockNamesTest'
  <2>1. CASE nt' = [nt EXCEPT !.tests[t] = "refused"] BY <2>1
  <2>2. CASE nt' = [nt EXCEPT !.tests[t] = "locking", !.pid = 0]
    BY <2>2
  <2>3. QED BY <1>3, <2>1, <2>2 DEF CheckPid
<1>4. ASSUME NEW t \in SpeedTests, TakeLock(t) PROVE LockNamesTest'
  <2>1. CASE nt' = [nt EXCEPT !.tests[t] = "refused"] BY <2>1
  <2>2. CASE nt.lock = 0 /\ nt' = [nt EXCEPT !.tests[t] = "running", !.lock = t, !.pid = t]
    BY <2>2, <1>0
  <2>3. QED BY <1>4, <2>1, <2>2 DEF TakeLock
<1>5. ASSUME NEW t \in SpeedTests, Refused(t) PROVE LockNamesTest'
  BY <1>5 DEF Refused
<1>6. ASSUME NEW t \in SpeedTests, MainTest(t) PROVE LockNamesTest'
  BY <1>6 DEF MainTest
<1>7. ASSUME NEW t \in SpeedTests, Cleanup(t) PROVE LockNamesTest'
  BY <1>7 DEF Cleanup
<1>8. CASE FileAges BY <1>8 DEF FileAges
<1>9. CASE PollStatus BY <1>9 DEF PollStatus
<1>10. QED BY <1>1, <1>2, <1>3, <1>4, <1>5, <1>6, <1>7, <1>8, <1>9 DEF WanNext

(* However fast the user clicks and in whatever order the runs of the      *)
(* script check the PID file and the lock, one run measures at a time      *)
THEOREM OneTestAtATime == PagesSpec => []OneSpeedTest
<1>1. PagesInit => LockNamesTest
  <2> SUFFICES ASSUME NsInit PROVE LockNamesTest
    BY DEF PagesInit
  <2>1. nt.tests = [t \in SpeedTests |-> "idle"] BY DEF NsInit
  <2>2. {"tests", "lock"} \subseteq DOMAIN nt BY DEF NsInit
  <2>3. QED BY <2>1, <2>2 DEF LockNamesTest, TestPhases
<1>2. LockNamesTest /\ [PagesNext]_pagesVars => LockNamesTest'
  <2> SUFFICES ASSUME LockNamesTest, [PagesNext]_pagesVars PROVE LockNamesTest'
    OBVIOUS
  <2>1. CASE UNCHANGED nt BY <2>1 DEF LockNamesTest
  <2>2. CASE WanNext BY <2>2, LockStep
  <2>3. UNCHANGED nt \/ WanNext BY DEF PagesNext, pagesVars
  <2>4. QED BY <2>1, <2>2, <2>3
<1>3. LockNamesTest => OneSpeedTest
  <2> SUFFICES ASSUME LockNamesTest PROVE OneSpeedTest
    OBVIOUS
  <2> DEFINE R == {t \in SpeedTests : nt.tests[t] = "running"}
  <2>1. R \subseteq {nt.lock} BY DEF LockNamesTest
  <2>2. IsFiniteSet({nt.lock}) /\ Cardinality({nt.lock}) = 1
    BY FS_Singleton
  <2>3. Cardinality(R) <= 1 BY <2>1, <2>2, FS_Subset
  <2>4. QED BY <2>3 DEF OneSpeedTest
<1>4. QED BY <1>1, <1>2, <1>3, PTL DEF PagesSpec

----------------------------------------------------------------------------
(* lanspeed's status page.  Of the page's state only the samples shown and *)
(* the platform matter: Displays(s) says what a state s of it has of them. *)
Displays(s, shown, platform) ==
  /\ {"shown", "platform"} \subseteq DOMAIN s
  /\ s.shown = shown /\ s.platform = platform

Together(shown, platform) == shown.renderable \/ LivePairAligned(shown.data, platform)

LsInv ==
  /\ Displays(ls, ls.shown, ls.platform)
  /\ ls.platform \in Platforms
  /\ Together(ls.shown, ls.platform)

(* The timer and a reload leave alone what is shown                        *)
LEMMA ScheduleDisplays ==
  ASSUME NEW s, NEW shown, NEW platform, Displays(s, shown, platform)
  PROVE  Displays(Schedule(s), shown, platform)
  BY DEF Displays, Schedule

LEMMA ReloadDisplays ==
  ASSUME NEW s, NEW manual, NEW shown, NEW platform, Displays(s, shown, platform)
  PROVE  Displays(Reload(s, manual), shown, platform)
<1>1. CASE s.destroyed BY <1>1 DEF Reload
<1>2. CASE ~s.destroyed /\ s.stage # "none"
  <2>1. Reload(s, manual) = [s EXCEPT !.manual = @ \/ manual]
    BY <1>2 DEF Reload
  <2>2. QED BY <2>1 DEF Displays
<1>3. CASE ~s.destroyed /\ s.stage = "none"
  <2>1. Reload(s, manual) = [s EXCEPT !.timer = FALSE, !.manual = manual, !.stage = "realtime",
                                      !.sent = s.now, !.old = s.rule]
    BY <1>3 DEF Reload
  <2>2. QED BY <2>1 DEF Displays
<1>4. QED BY <1>1, <1>2, <1>3

(* Whatever was loaded and whatever was shown before, what alignLiveSamples *)
(* returns belongs together or is the access edge's own view                *)
LEMMA AlignedTogether ==
  ASSUME NEW data, NEW old, NEW platform
  PROVE  Together(AlignLiveSamples(data, old, platform), platform)
<1> DEFINE a == AlignLiveSamples(data, old, platform)
<1>1. CASE LivePairAligned(data, platform)
  <2>1. a = [data |-> data, renderable |-> FALSE] BY <1>1 DEF AlignLiveSamples
  <2>2. QED BY <1>1, <2>1 DEF Together
<1>2. CASE ~LivePairAligned(data, platform) /\ LivePairAligned(old.data, platform)
  <2>1. a = [data |-> old.data, renderable |-> FALSE] BY <1>2 DEF AlignLiveSamples
  <2>2. QED BY <1>2, <2>1 DEF Together
<1>3. CASE ~LivePairAligned(data, platform) /\ ~LivePairAligned(old.data, platform)
  <2>1. CASE NssAccessEdgeRenderable(data, platform)
    <3>1. a = [data |-> data, renderable |-> TRUE] BY <1>3, <2>1 DEF AlignLiveSamples
    <3>2. QED BY <3>1 DEF Together
  <2>2. CASE ~NssAccessEdgeRenderable(data, platform)
    <3>1. a = [data |-> NothingShown, renderable |-> FALSE]
      BY <1>3, <2>2 DEF AlignLiveSamples
    <3>2. Clocks(NothingShown, platform) = {} BY DEF Clocks, NothingShown
    <3>3. LivePairAligned(NothingShown, platform) BY <3>2 DEF LivePairAligned
    <3>4. QED BY <3>1, <3>3 DEF Together
  <2>3. QED BY <2>1, <2>2
<1>4. QED BY <1>1, <1>2, <1>3

(* An answer that is applied leaves samples that belong together           *)
LEMMA ApplyTogether ==
  ASSUME NEW s, NEW failed, NEW data, NEW row, {"shown", "platform"} \subseteq DOMAIN s
  PROVE  LET r == Apply(s, failed, data, row)
         IN  Displays(r, r.shown, s.platform) /\ Together(r.shown, s.platform)
<1> DEFINE a == AlignLiveSamples(data, s.shown, s.platform)
           t == [s EXCEPT !.shown = a, !.stage = "none", !.manual = FALSE,
                          !.notice = RefreshAvailability(failed, @),
                          !.row = IF a.data["clients"] = NoSample \/ "clients" \in failed
                                       \/ a.data # data THEN @ ELSE row]
<1>1. Together(a, s.platform) BY AlignedTogether
<1> HIDE DEF a
<1>2. Displays(t, a, s.platform) BY DEF Displays
<1>3. Apply(s, failed, data, row) = Schedule(t) BY DEF Apply, a
<1> HIDE DEF t
<1>4. Displays(Schedule(t), a, s.platform) BY <1>2, ScheduleDisplays
<1>5. QED BY <1>1, <1>3, <1>4 DEF Displays

LEMMA LsStep == LsInv /\ LsNext => LsInv'
<1> SUFFICES ASSUME LsInv, LsNext PROVE LsInv'
  OBVIOUS
<1> DEFINE shown == ls.shown
           platform == ls.platform
<1>0. Displays(ls, shown, platform) /\ platform \in Platforms /\ Together(shown, platform)
  BY DEF LsInv
<1> HIDE DEF shown, platform
<1>k. ASSUME Displays(ls', shown, platform) PROVE LsInv'
  BY <1>0, <1>k DEF LsInv, Displays
<1>a. ASSUME NEW s, Displays(s, shown, platform), NEW failed, NEW data, NEW row,
             ls' = Apply(s, failed, data, row)
      PROVE  LsInv'
  <2>1. {"shown", "platform"} \subseteq DOMAIN s /\ s.platform = platform
    BY <1>a DEF Displays
  <2> DEFINE r == Apply(s, failed, data, row)
  <2>2. Displays(r, r.shown, platform) /\ Together(r.shown, platform)
    BY <2>1, ApplyTogether
  <2> HIDE DEF r
  <2>3. ls' = r BY <1>a DEF r
  <2>4. QED BY <2>2, <2>3, <1>0 DEF LsInv, Displays
<1>1. CASE Tick BY <1>1, <1>0, <1>k DEF Tick, Displays
<1>2. CASE HideNotice BY <1>2, <1>0, <1>k DEF HideNotice, Displays
<1>3. CASE VisibilityChanged
  BY <1>3, <1>0, <1>k DEF VisibilityChanged, Displays
<1>4. CASE TimerFires
  <2>1. Displays([ls EXCEPT !.timer = FALSE], shown, platform)
    BY <1>0 DEF Displays
  <2>2. QED BY <1>4, <2>1, <1>k, ReloadDisplays DEF TimerFires
<1>5. CASE ClickRefresh
  BY <1>5, <1>0, <1>k, ReloadDisplays DEF ClickRefresh
<1>6. CASE ClickPause
  <2>1. Displays([ls EXCEPT !.paused = FALSE], shown, platform)
    BY <1>0 DEF Displays
  <2>2. Displays(Schedule([ls EXCEPT !.paused = FALSE]), shown, platform)
    BY <2>1, ScheduleDisplays
  <2>3. Displays([ls EXCEPT !.paused = TRUE, !.timer = FALSE], shown, platform)
    BY <1>0 DEF Displays
  <2>4. QED BY <1>6, <2>2, <2>3, <1>k DEF ClickPause
<1>7. CASE RealtimeSettles
  <2>1. CASE \E data \in Answers({}), row \in Sees : ls' = Apply(ls, {}, data, row)
    BY <2>1, <1>0, <1>a
  <2>2. CASE ls' = [ls EXCEPT !.stage = "legacy", !.failures = @ + 1]
    BY <2>2, <1>0, <1>k DEF Displays
  <2>3. QED BY <1>7, <2>1, <2>2 DEF RealtimeSettles
<1>8. CASE LegacySettles
  <2> PICK failed \in SUBSET LsSources, row \in Sees :
        \E data \in Answers(failed) :
          LET s == [ls EXCEPT !.failures = IF failed = {} THEN @ ELSE @ + 1] IN
          \/ ls' = Apply(s, failed, data, row)
          \/ ls' = [s EXCEPT !.stage = "retry", !.sent = ls.now, !.old = ls.rule]
    BY <1>8 DEF LegacySettles
  <2> DEFINE s == [ls EXCEPT !.failures = IF failed = {} THEN @ ELSE @ + 1]
  <2>1. Displays(s, shown, platform) BY <1>0 DEF Displays
  <2> HIDE DEF s
  <2>2. CASE \E data \in Answers(failed) : ls' = Apply(s, failed, data, row)
    BY <2>1, <2>2, <1>a
  <2>3. CASE ls' = [s EXCEPT !.stage = "retry", !.sent = ls.now, !.old = ls.rule]
    BY <2>1, <2>3, <1>k DEF Displays
  <2>4. QED BY <2>2, <2>3 DEF s
<1>9. CASE RunControl BY <1>9, <1>0, <1>k DEF RunControl, Displays
<1>10. CASE RuleSet
  <2> DEFINE r == [ls EXCEPT !.rule = @ + 1, !.row = ls.rule + 1, !.control = "reloading"]
             n == [ls EXCEPT !.control = "none"]
  <2>1. Displays(r, shown, platform) /\ Displays(n, shown, platform)
    BY <1>0 DEF Displays
  <2>2. ls' = Reload(r, TRUE) \/ ls' = n \/ ls' = Schedule(n)
    BY <1>10 DEF RuleSet
  <2> HIDE DEF r, n
  <2>3. QED BY <2>1, <2>2, <1>k, ReloadDisplays, ScheduleDisplays
<1>11. CASE ControlDone
  <2> DEFINE n == [ls EXCEPT !.control = "none"]
  <2>1. Displays(n, shown, platform) BY <1>0 DEF Displays
  <2>2. ls' = n \/ ls' = Schedule(n) BY <1>11 DEF ControlDone
  <2> HIDE DEF n
  <2>3. QED BY <2>1, <2>2, <1>k, ScheduleDisplays
<1>12. CASE DestroyPage BY <1>12, <1>0, <1>k DEF DestroyPage, Displays
<1>13. QED BY <1>1, <1>2, <1>3, <1>4, <1>5, <1>6, <1>7, <1>8, <1>9, <1>10, <1>11, <1>12 DEF LsNext

(* Sources that fail, answer late or publish between two answers never     *)
(* leave the status page with clients, interfaces and coverage of samples  *)
(* further apart than the platform allows                                  *)
THEOREM SamplesTogether == PagesSpec => []ShownBelongTogether
<1>1. PagesInit => LsInv
  <2> SUFFICES ASSUME LsInit PROVE LsInv
    BY DEF PagesInit
  <2>0. PICK p \in Platforms, failed \in {{}, LsSources} : LsInit!(p, failed)
    BY DEF LsInit
  <2>1. {"shown", "platform"} \subseteq DOMAIN ls /\ ls.platform = p
    BY <2>0
  <2>a. ls.shown = [data |-> IF failed = {} THEN [k \in LiveSources |-> 0] ELSE NothingShown,
                    renderable |-> FALSE]
    BY <2>0
  <2>2. \E v \in {0, NoSample} : \A k \in LiveSources : ls.shown.data[k] = v
    BY <2>a DEF NothingShown
  <2>3. Clocks(ls.shown.data, ls.platform) \subseteq {0} BY <2>2 DEF Clocks
  <2>4. LivePairAligned(ls.shown.data, ls.platform)
    BY <2>1, <2>3, LanspeedAssumption DEF LivePairAligned
  <2>5. QED BY <2>1, <2>4 DEF LsInv, Displays, Together
<1>2. LsInv /\ [PagesNext]_pagesVars => LsInv'
  <2> SUFFICES ASSUME LsInv, [PagesNext]_pagesVars PROVE LsInv'
    OBVIOUS
  <2>1. CASE UNCHANGED ls
    BY <2>1 DEF LsInv, Displays, Together, LivePairAligned, Clocks
  <2>2. CASE LsNext BY <2>2, LsStep
  <2>3. UNCHANGED ls \/ LsNext BY DEF PagesNext, pagesVars
  <2>4. QED BY <2>1, <2>2, <2>3
<1>3. LsInv => ShownBelongTogether BY DEF LsInv, Together, ShownBelongTogether
<1>4. QED BY <1>1, <1>2, <1>3, PTL DEF PagesSpec
=============================================================================
