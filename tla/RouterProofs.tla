---------------------------- MODULE RouterProofs ----------------------------
(***************************************************************************)
(* Proofs about the pages that configure the router (MCRouter), each for   *)
(* every value of the constants.                                           *)
(***************************************************************************)
EXTENDS MCRouter, FiniteSetTheorems, SequenceTheorems, TLAPS

----------------------------------------------------------------------------
(* The network wizard's safe mode.  Of page p and router r the proof needs *)
(* these fields; the form's own fields may hold anything.                  *)
SetupSteps == {"home", "form", "summary", "loading"} \cup Waits

SetupFields(r, p) ==
  /\ {"step", "modal", "checking", "at", "target", "sec"} \subseteq DOMAIN p
  /\ {"lan", "conf", "bak", "marker", "sleepers", "restart"} \subseteq DOMAIN r
  /\ p.step \in SetupSteps /\ p.sec \in Nat
  /\ r.marker \in BOOLEAN /\ r.restart \in Nat /\ r.sleepers \subseteq Nat \ {0}

(* No dialog and no check survives Apply                                   *)
WaitsAlone(p) ==
  p.step \in Waits \cup {"loading"} => p.modal = "none" /\ p.checking = NoLanAddr

(* The router is where the page is, and nothing will move it               *)
SettledAt(r, p) == r.lan = p.at /\ r.conf = p.at /\ r.restart = 0 /\ ~r.marker

(* The rollback is armed with the page's address, and some process wakes   *)
(* up before the page gives up                                             *)
RollbackArmed(r, p) ==
  /\ r.marker /\ r.bak = p.at /\ r.conf = p.target
  /\ \E t \in r.sleepers : t + p.sec <= Window

(* What is configured while the page is at each of its steps               *)
SetupPhase(r, p) ==
  /\ p.step \in {"home", "form", "summary", "old"} => SettledAt(r, p)
  /\ p.step = "loading" => r.restart = 0 /\ (r.lan = p.at => r.conf = p.at)
  /\ p.step = "same" => r.lan = p.at /\ r.conf = p.at /\ (r.marker => r.bak = p.at)
  /\ p.step = "new" => r.conf = p.target /\ ~r.marker
  /\ p.step = "safe" => p.target # p.at /\ (RollbackArmed(r, p) \/ SettledAt(r, p))

SetupOk(r, p) == SetupFields(r, p) /\ WaitsAlone(p) /\ SetupPhase(r, p)
SetupInv == {"r", "p"} \subseteq DOMAIN na /\ SetupOk(na.r, na.p)

(* A page that still edits, at the same address                            *)
StillEdits(p, q) ==
  /\ {"step", "modal", "checking", "at", "target", "sec"} \subseteq DOMAIN q
  /\ q.step \in {"home", "form", "summary"} /\ q.at = p.at /\ q.sec = p.sec

LEMMA EditsOk ==
  ASSUME NEW r, NEW p, NEW q, SetupOk(r, p), p.step \in {"home", "form", "summary"},
         StillEdits(p, q)
  PROVE  SetupOk(r, q)
<1>1. SetupFields(r, q)
  BY DEF SetupOk, SetupFields, StillEdits, SetupSteps
<1>2. WaitsAlone(q) BY DEF WaitsAlone, StillEdits, Waits
<1>3. SetupPhase(r, q)
  BY DEF SetupOk, SetupPhase, StillEdits, SettledAt
<1>4. QED BY <1>1, <1>2, <1>3 DEF SetupOk

LEMMA EditsTwice ==
  ASSUME NEW p, NEW q, NEW s, StillEdits(p, q), StillEdits(q, s)
  PROVE  StillEdits(p, s)
  BY DEF StillEdits

(* The Next button leads to a dialog or to the summary                     *)
LEMMA NextEdits ==
  ASSUME NEW p, NEW lan, StillEdits(p, p)
  PROVE  StillEdits(p, AfterNext(p, lan))
<1>1. CASE Verdict(p, lan) = "summary"
  <2>1. AfterNext(p, lan) = [p EXCEPT !.step = "summary", !.modal = "none", !.listed = Listing(p)]
    BY <1>1 DEF AfterNext
  <2>2. QED BY <2>1 DEF StillEdits
<1>2. CASE Verdict(p, lan) # "summary"
  <2>1. AfterNext(p, lan) = [p EXCEPT !.modal = Verdict(p, lan)]
    BY <1>2 DEF AfterNext
  <2>2. QED BY <2>1 DEF StillEdits
<1>3. QED BY <1>1, <1>2

(* The dialog's buttons                                                    *)
LEMMA ModalEdits ==
  ASSUME SetupInv, ModalOk, StillEdits(na.p, na.p)
  PROVE  \E q : StillEdits(na.p, q) /\ Page(q)
<1> DEFINE p == [na.p EXCEPT !.modal = "none"]
<1>1. StillEdits(na.p, p) /\ StillEdits(p, p) BY DEF StillEdits
<1>2. CASE na.p.modal \in {"edit", "found"} BY <1>1, <1>2 DEF ModalOk
<1>3. CASE na.p.modal = "nomod"
  <2>1. Page([p EXCEPT !.step = "home"]) BY <1>3 DEF ModalOk
  <2>2. StillEdits(na.p, [p EXCEPT !.step = "home"]) BY <1>1 DEF StillEdits
  <2>3. QED BY <2>1, <2>2
<1>4. CASE na.p.modal = "cross"
  <2> DEFINE q == [p EXCEPT !.lanip = GetSafeRouterIp(WanAddr)]
  <2>1. Page(AfterNext(q, na.r.conf)) BY <1>4 DEF ModalOk
  <2>2. StillEdits(na.p, q) /\ StillEdits(q, q) BY <1>1 DEF StillEdits
  <2> HIDE DEF q, p
  <2>3. StillEdits(q, AfterNext(q, na.r.conf)) BY <2>2, NextEdits
  <2>4. QED BY <2>1, <2>2, <2>3, EditsTwice
<1>5. CASE na.p.modal = "evade"
  <2> DEFINE wan == IF p.wanstatic THEN p.wip ELSE WanAddr
             q == [p EXCEPT !.lanip = GetSafeRouterIp(wan), !.mode = "lan", !.evaded = TRUE]
  <2>1. Page(AfterNext(q, na.r.conf)) BY <1>5 DEF ModalOk
  <2>2. StillEdits(na.p, q) /\ StillEdits(q, q) BY <1>1 DEF StillEdits
  <2> HIDE DEF q, p
  <2>3. StillEdits(q, AfterNext(q, na.r.conf)) BY <2>2, NextEdits
  <2>4. QED BY <2>1, <2>2, <2>3, EditsTwice
<1>6. CASE na.p.modal = "taken"
  <2> DEFINE ip == GetSafeApIp(Gateway, p.used)
             q == [p EXCEPT !.lanip = ip, !.checking = ip]
  <2>1. Page(q) BY <1>6 DEF ModalOk
  <2> HIDE DEF ip
  <2>2. StillEdits(na.p, q) BY <1>1 DEF StillEdits
  <2>3. QED BY <2>1, <2>2
<1>7. QED BY <1>2, <1>3, <1>4, <1>5, <1>6 DEF ModalOk

(* Apply: the backup holds the page's address before the new one is        *)
(* written, and a process goes to sleep for the whole window               *)
LEMMA ApplyOk ==
  ASSUME SetupInv, ClickApply
  PROVE  SetupOk(na'.r, na'.p)
<1> DEFINE r == na.r
           p == na.p
           lan == p.mode = "lan"
           wait == IF ~lan \/ p.lanip = p.at THEN "same" ELSE IF p.safe THEN "safe" ELSE "new"
           s == na'.r
           q == na'.p
<1>0. SetupFields(r, p) /\ SettledAt(r, p) BY DEF SetupInv, SetupOk, SetupPhase, ClickApply
<1>1. PICK f \in BOOLEAN :
        /\ s = IF lan THEN SetNetwork(r, p) ELSE [r EXCEPT !.bak = NoLanAddr, !.restart = RestartTicks]
        /\ q = [p EXCEPT !.step = wait, !.target = p.lanip, !.sec = 0, !.follows = f,
                         !.checking = NoLanAddr]
  BY DEF ClickApply, SetupInv
<1>2. p.modal = "none" BY DEF ClickApply
<1>3. wait \in {"same", "safe", "new"}
  OBVIOUS
<1>4. /\ {"step", "modal", "checking", "at", "target", "sec"} \subseteq DOMAIN q
      /\ q.step = wait /\ q.target = p.lanip /\ q.sec = 0 /\ q.at = p.at
      /\ q.checking = NoLanAddr /\ q.modal = "none"
  BY <1>0, <1>1, <1>2 DEF SetupFields
<1>5. CASE ~lan
  <2>1. s = [r EXCEPT !.bak = NoLanAddr, !.restart = RestartTicks] /\ wait = "same"
    BY <1>1, <1>5
  <2>2. SetupFields(s, q)
    BY <2>1, <1>0, <1>4, NetwizSetupAssumption DEF SetupFields, SetupSteps, Waits
  <2>3. SetupPhase(s, q)
    BY <2>1, <1>0, <1>4 DEF SetupFields, SetupPhase, SettledAt
  <2>4. QED BY <2>2, <2>3, <1>4 DEF SetupOk, WaitsAlone
<1>6. CASE lan /\ ~p.safe
  <2>1. s = [[r EXCEPT !.bak = NoLanAddr] EXCEPT !.conf = p.lanip, !.restart = RestartTicks]
    BY <1>1, <1>6 DEF SetNetwork
  <2>2. wait = IF p.lanip = p.at THEN "same" ELSE "new" BY <1>6
  <2>3. SetupFields(s, q)
    BY <2>1, <1>0, <1>3, <1>4, NetwizSetupAssumption DEF SetupFields, SetupSteps, Waits
  <2>4. SetupPhase(s, q)
    BY <2>1, <2>2, <1>0, <1>4 DEF SetupFields, SetupPhase, SettledAt
  <2>5. QED BY <2>3, <2>4, <1>4 DEF SetupOk, WaitsAlone
<1>7. CASE lan /\ p.safe
  <2>1. s = [[r EXCEPT !.bak = r.conf, !.marker = TRUE, !.sleepers = @ \cup {Window}]
               EXCEPT !.conf = p.lanip, !.restart = RestartTicks]
    BY <1>1, <1>7 DEF SetNetwork
  <2>2. wait = IF p.lanip = p.at THEN "same" ELSE "safe" BY <1>7
  <2>3. /\ {"lan", "conf", "bak", "marker", "sleepers", "restart"} \subseteq DOMAIN s
        /\ s.lan = r.lan /\ s.conf = p.lanip /\ s.bak = r.conf /\ s.marker = TRUE
        /\ s.sleepers = r.sleepers \cup {Window} /\ s.restart = RestartTicks
    BY <2>1, <1>0 DEF SetupFields
  <2> HIDE DEF s, q, wait
  <2>4. SetupFields(s, q)
    <3>1. Window \in Nat \ {0} BY NetwizSetupAssumption
    <3>2. s.sleepers \subseteq Nat \ {0} BY <2>3, <3>1, <1>0 DEF SetupFields
    <3>3. s.marker \in BOOLEAN BY <2>3
    <3>4. q.step \in SetupSteps BY <1>3, <1>4 DEF SetupSteps, Waits
    <3>5. QED BY <2>3, <3>2, <3>3, <3>4, <1>4, NetwizSetupAssumption DEF SetupFields
  <2>5. wait = "safe" => RollbackArmed(s, q)
    BY <2>2, <2>3, <1>0, <1>4, NetwizSetupAssumption DEF RollbackArmed, SettledAt
  <2>6. SetupPhase(s, q)
    BY <2>2, <2>3, <2>5, <1>0, <1>4 DEF SetupPhase, SettledAt
  <2>7. QED BY <2>4, <2>6, <1>4 DEF SetupOk, WaitsAlone, s, q
<1>8. QED BY <1>5, <1>6, <1>7

(* A probe that answers                                                    *)
LEMMA ProbeOk ==
  ASSUME SetupInv, ProbeAnswers
  PROVE  SetupOk(na'.r, na'.p)
<1> DEFINE r == na.r
           p == na.p
           goal == IF p.step \in {"safe", "new"} THEN p.target ELSE p.at
           s == na'.r
           q == na'.p
<1>0. SetupFields(r, p) /\ SetupPhase(r, p) /\ WaitsAlone(p)
  BY DEF SetupInv, SetupOk
<1>1. /\ s = IF goal = p.at THEN Confirmed(r) ELSE r
      /\ q = [p EXCEPT !.step = "loading", !.at = goal]
      /\ p.step \in Waits /\ r.restart = 0 /\ r.lan = goal
  BY DEF ProbeAnswers, SetupInv
<1> HIDE DEF s, q
<1>2. /\ {"step", "modal", "checking", "at", "target", "sec"} \subseteq DOMAIN q
      /\ q.step = "loading" /\ q.sec = p.sec /\ q.at = goal
      /\ q.checking = NoLanAddr /\ q.modal = "none"
  BY <1>0, <1>1 DEF SetupFields, WaitsAlone
<1>3. /\ {"lan", "conf", "bak", "marker", "sleepers", "restart"} \subseteq DOMAIN s
      /\ s.lan = r.lan /\ s.conf = r.conf /\ s.restart = r.restart /\ s.sleepers = r.sleepers
      /\ s.marker \in BOOLEAN
  BY <1>0, <1>1 DEF SetupFields, Confirmed
<1>4. SetupFields(s, q) BY <1>0, <1>2, <1>3 DEF SetupFields, SetupSteps
<1>5. r.conf = goal
  BY <1>0, <1>1 DEF SetupPhase, Waits, SettledAt, RollbackArmed
<1>6. SetupPhase(s, q) BY <1>1, <1>2, <1>3, <1>5 DEF SetupPhase
<1>7. QED
  <2>1. WaitsAlone(q) BY <1>2 DEF WaitsAlone
  <2>2. QED BY <2>1, <1>4, <1>6 DEF SetupOk, s, q

(* Time: a sleeper that fires brings the router back to the page's address, *)
(* and the page gives up only after the last sleeper of its change          *)
LEMMA TimeOk ==
  ASSUME SetupInv, TimePasses
  PROVE  SetupOk(na'.r, na'.p)
<1> DEFINE r == na.r
           p == na.p
           s == na'.r
           q == na'.p
           slept == {t - 1 : t \in r.sleepers}
           fires == 0 \in slept /\ r.marker
<1>0. SetupFields(r, p) /\ SetupPhase(r, p) /\ WaitsAlone(p)
  BY DEF SetupInv, SetupOk
<1>1. s = Woken(r) /\ q = CountsOn(p) BY DEF TimePasses, SetupInv
<1> HIDE DEF r, p, s, q
<1>2. /\ {"step", "modal", "checking", "at", "target", "sec"} \subseteq DOMAIN q
      /\ q.at = p.at /\ q.target = p.target /\ q.modal = p.modal /\ q.checking = p.checking
      /\ q.sec \in Nat
      /\ \/ q.step = p.step /\ q.sec <= p.sec + 1 /\ (p.step = "safe" => p.sec < Window)
         \/ q.step = "old" /\ p.step = "safe" /\ p.sec >= Window
  <2>1. CASE p.step = "safe" /\ p.sec >= Window
    BY <2>1, <1>0, <1>1, NetwizSetupAssumption DEF CountsOn, SetupFields
  <2>2. CASE ~(p.step = "safe" /\ p.sec >= Window) /\ p.step \in Waits /\ p.sec <= Window
    BY <2>2, <1>0, <1>1, NetwizSetupAssumption DEF CountsOn, SetupFields
  <2>3. CASE ~(p.step = "safe" /\ p.sec >= Window) /\ ~(p.step \in Waits /\ p.sec <= Window)
    BY <2>3, <1>0, <1>1, NetwizSetupAssumption DEF CountsOn, SetupFields, Waits
  <2>4. QED BY <2>1, <2>2, <2>3
<1>3. slept \subseteq Nat BY <1>0 DEF SetupFields
<1>4. /\ {"lan", "conf", "bak", "marker", "sleepers", "restart"} \subseteq DOMAIN s
      /\ s.sleepers = slept \ {0}
      /\ fires => s.marker = FALSE /\ s.conf = r.bak /\ s.lan = r.bak /\ s.restart = 0
      /\ ~fires => /\ s.marker = r.marker /\ s.conf = r.conf /\ s.bak = r.bak
                   /\ s.restart = IF r.restart > 0 THEN r.restart - 1 ELSE 0
                   /\ s.lan = IF r.restart = 1 THEN r.conf ELSE r.lan
  <2>1. CASE fires
    <3>1. s = [r EXCEPT !.sleepers = slept \ {0}, !.marker = FALSE, !.conf = r.bak,
                        !.lan = r.bak, !.restart = 0]
      BY <2>1, <1>1 DEF Woken
    <3>2. QED BY <3>1, <2>1, <1>0 DEF SetupFields
  <2>2. CASE ~fires
    <3>1. s = [r EXCEPT !.sleepers = slept \ {0}, !.restart = IF @ > 0 THEN @ - 1 ELSE 0,
                        !.lan = IF r.restart = 1 THEN r.conf ELSE @]
      BY <2>2, <1>1 DEF Woken
    <3>2. QED BY <3>1, <2>2, <1>0 DEF SetupFields
  <2>3. QED BY <2>1, <2>2
<1> HIDE DEF slept
<1>5. SetupFields(s, q)
  <2>1. s.marker \in BOOLEAN BY <1>0, <1>4 DEF SetupFields
  <2>2. s.restart \in Nat /\ s.sleepers \subseteq Nat \ {0}
    BY <1>0, <1>3, <1>4 DEF SetupFields
  <2>3. q.step \in SetupSteps BY <1>0, <1>2 DEF SetupFields, SetupSteps, Waits
  <2>4. QED BY <2>1, <2>2, <2>3, <1>2, <1>4 DEF SetupFields
<1>6. WaitsAlone(q) BY <1>0, <1>2 DEF WaitsAlone, Waits
<1>7. SettledAt(r, p) => SettledAt(s, q) BY <1>2, <1>4 DEF SettledAt
<1>8. RollbackArmed(r, p) => p.sec < Window /\ (RollbackArmed(s, q) \/ SettledAt(s, q))
  <2> SUFFICES ASSUME RollbackArmed(r, p)
               PROVE  p.sec < Window /\ (RollbackArmed(s, q) \/ SettledAt(s, q))
    OBVIOUS
  <2>1. PICK t \in r.sleepers : t + p.sec <= Window BY DEF RollbackArmed
  <2>2. t \in Nat \ {0} /\ p.sec \in Nat BY <1>0 DEF SetupFields
  <2>3. CASE fires
    BY <2>1, <2>2, <2>3, <1>2, <1>4, NetwizSetupAssumption DEF RollbackArmed, SettledAt
  <2>4. CASE ~fires
    <3>1. t - 1 \in slept /\ r.marker BY <2>1 DEF slept, RollbackArmed
    <3>2. t - 1 \in s.sleepers BY <3>1, <2>2, <2>4, <1>4
    <3>3. q.sec <= p.sec + 1 BY <2>1, <2>2, <1>2, NetwizSetupAssumption
    <3>4. (t - 1) + q.sec <= Window BY <3>3, <2>1, <2>2, <1>2, NetwizSetupAssumption
    <3>5. RollbackArmed(s, q)
      BY <3>2, <3>4, <2>4, <1>2, <1>4 DEF RollbackArmed
    <3>6. QED BY <3>5, <2>1, <2>2, NetwizSetupAssumption
  <2>5. QED BY <2>3, <2>4
<1>9. SetupPhase(s, q)
  <2>1. CASE q.step = "old" /\ p.step = "safe" /\ p.sec >= Window
    <3>1. SettledAt(r, p)
      BY <2>1, <1>0, <1>8, NetwizSetupAssumption DEF SetupPhase, SetupFields
    <3>2. QED BY <2>1, <3>1, <1>7 DEF SetupPhase
  <2>2. CASE q.step = p.step /\ p.step = "safe"
    BY <2>2, <1>0, <1>2, <1>7, <1>8 DEF SetupPhase
  <2>3. CASE q.step = p.step /\ p.step \in {"home", "form", "summary", "old"}
    BY <2>3, <1>0, <1>7 DEF SetupPhase
  <2>4. CASE q.step = p.step /\ p.step = "loading" BY <2>4, <1>0, <1>2, <1>4 DEF SetupPhase
  <2>5. CASE q.step = p.step /\ p.step = "same" BY <2>5, <1>0, <1>2, <1>4 DEF SetupPhase
  <2>6. CASE q.step = p.step /\ p.step = "new" BY <2>6, <1>0, <1>2, <1>4 DEF SetupPhase
  <2>7. QED BY <2>1, <2>2, <2>3, <2>4, <2>5, <2>6, <1>0, <1>2 DEF SetupFields, SetupSteps, Waits
<1>10. QED BY <1>5, <1>6, <1>9 DEF SetupOk, s, q

(* A page that loads at the router's address disarms the rollback          *)
LEMMA RenderOk ==
  ASSUME SetupInv, Render
  PROVE  SetupOk(na'.r, na'.p)
<1> DEFINE r == na.r
           p == na.p
           s == na'.r
           q == na'.p
<1>0. SetupFields(r, p) /\ SetupPhase(r, p) BY DEF SetupInv, SetupOk
<1>1. s = Confirmed(r) /\ q = Loaded(r) /\ p.step = "loading" /\ p.at = r.lan
  BY DEF Render, SetupInv
<1> HIDE DEF r, p, s, q
<1>2. /\ {"step", "modal", "checking", "at", "target", "sec"} \subseteq DOMAIN q
      /\ q.step = "home" /\ q.at = r.lan /\ q.sec = 0
  BY <1>1 DEF Loaded
<1>3. /\ {"lan", "conf", "bak", "marker", "sleepers", "restart"} \subseteq DOMAIN s
      /\ s.lan = r.lan /\ s.conf = r.conf /\ s.restart = r.restart /\ s.sleepers = r.sleepers
      /\ s.marker = FALSE
  BY <1>0, <1>1 DEF SetupFields, Confirmed
<1>4. SetupFields(s, q)
  <2>1. s.marker \in BOOLEAN BY <1>3
  <2>2. QED BY <2>1, <1>0, <1>2, <1>3 DEF SetupFields, SetupSteps
<1>5. SetupPhase(s, q)
  BY <1>0, <1>1, <1>2, <1>3 DEF SetupPhase, SettledAt
<1>6. WaitsAlone(q) BY <1>2 DEF WaitsAlone, Waits
<1>7. QED BY <1>4, <1>5, <1>6 DEF SetupOk, s, q

(* Each step of the page and the router keeps the invariant                *)
LEMMA SetupStep == SetupInv /\ NetwizSetupNext => SetupInv'
<1> SUFFICES ASSUME SetupInv, NetwizSetupNext PROVE SetupInv'
  OBVIOUS
<1> DEFINE p == na.p
<1>0. SetupFields(na.r, p) /\ WaitsAlone(p) /\ {"r", "p"} \subseteq DOMAIN na
  BY DEF SetupInv, SetupOk
<1>d. {"r", "p"} \subseteq DOMAIN na'
  BY <1>0 DEF NetwizSetupNext, Render, ClickCard, BackButton, EditLanField, AutoIp, CheckIpAsync,
              ClickNext, ClickModal, ModalOk, ClickApply, TimePasses, ProbeAnswers, Page
<1>e. p.step \in {"home", "form", "summary"} => StillEdits(p, p)
  BY <1>0 DEF StillEdits, SetupFields
<1>p. ASSUME NEW q, p.step \in {"home", "form", "summary"}, StillEdits(p, q),
             na'.p = q, na'.r = na.r
      PROVE  SetupInv'
  <2>1. SetupOk(na.r, q) BY <1>p, EditsOk DEF SetupInv
  <2>2. QED BY <2>1, <1>p, <1>d DEF SetupInv
<1>q. ASSUME NEW q, p.step \in {"home", "form", "summary"}, StillEdits(p, q), Page(q)
      PROVE  SetupInv'
  BY <1>p, <1>q, <1>0 DEF Page
<1>1. CASE Render BY <1>1, <1>d, RenderOk DEF SetupInv
<1>2. CASE ClickCard
  <2>1. PICK m \in {"lan", "router", "pppoe"} :
          Page([p EXCEPT !.mode = m, !.step = "form", !.evaded = FALSE])
    BY <1>2 DEF ClickCard
  <2>2. StillEdits(p, [p EXCEPT !.mode = m, !.step = "form", !.evaded = FALSE])
    BY <1>2, <1>0 DEF ClickCard, SetupFields, StillEdits
  <2>3. QED BY <2>1, <2>2, <1>2, <1>q DEF ClickCard
<1>3. CASE BackButton
  <2>1. PICK v \in {"home", "form"} :
          Page([p EXCEPT !.step = v]) /\ p.step \in {"form", "summary"}
    BY <1>3 DEF BackButton
  <2>2. StillEdits(p, [p EXCEPT !.step = v]) BY <1>0 DEF SetupFields, StillEdits
  <2>3. QED BY <2>1, <2>2, <1>q
<1>4. CASE EditLanField
  <2>1. PICK q \in Edited(p) : na' = [na EXCEPT !.p = q, !.edits = @ + 1]
    BY <1>4 DEF EditLanField
  <2>2. StillEdits(p, q)
    <3>0. p.step = "form" BY <1>4 DEF EditLanField
    <3>1. CASE q \in {[p EXCEPT !.lanip = a] : a \in Typed \cup {NoLanAddr}}
                     \cup {[p EXCEPT !.gw = a] : a \in Typed}
      BY <3>0, <3>1, <1>0 DEF SetupFields, StillEdits
    <3>2. CASE q \in {[p EXCEPT !.bypass = ~@], [p EXCEPT !.safe = ~@]}
                     \cup {[p EXCEPT !.wanstatic = ~@]}
      BY <3>0, <3>2, <1>0 DEF SetupFields, StillEdits
    <3>3. CASE q \in {[p EXCEPT !.wip = w[1], !.wgw = w[2]] : w \in Typed \X Typed}
      BY <3>0, <3>3, <1>0 DEF SetupFields, StillEdits
    <3>4. QED BY <3>1, <3>2, <3>3 DEF Edited
  <2>3. na'.p = q /\ na'.r = na.r BY <2>1, <1>0
  <2>4. QED BY <2>2, <2>3, <1>4, <1>p DEF EditLanField
<1>5. CASE AutoIp
  <2> DEFINE ip == GetSafeApIp(Gateway, p.used)
             q == [p EXCEPT !.gw = Gateway, !.lanip = ip, !.checking = ip, !.modal = "found"]
  <2>1. Page(q) /\ p.step = "form" BY <1>5 DEF AutoIp
  <2> HIDE DEF ip
  <2>2. StillEdits(p, q) BY <2>1, <1>0 DEF SetupFields, StillEdits
  <2> HIDE DEF q
  <2>3. QED BY <2>1, <2>2, <1>q
<1>6. CASE CheckIpAsync
  <2>1. p.step \in {"home", "form", "summary"}
    BY <1>6, <1>0 DEF CheckIpAsync, WaitsAlone, SetupFields, SetupSteps
  <2>2. CASE Page([p EXCEPT !.checking = NoLanAddr])
    <3>1. StillEdits(p, [p EXCEPT !.checking = NoLanAddr])
      BY <2>1, <1>0 DEF SetupFields, StillEdits
    <3>2. QED BY <3>1, <2>1, <2>2, <1>q
  <2>3. CASE Page([p EXCEPT !.used = @ \cup {p.checking[2]}, !.checking = NoLanAddr,
                            !.modal = "taken"])
    <3>1. StillEdits(p, [p EXCEPT !.used = @ \cup {p.checking[2]}, !.checking = NoLanAddr,
                                  !.modal = "taken"])
      BY <2>1, <1>0 DEF SetupFields, StillEdits
    <3>2. QED BY <3>1, <2>1, <2>3, <1>q
  <2>4. QED BY <1>6, <2>2, <2>3 DEF CheckIpAsync
<1>7. CASE ClickNext BY <1>7, <1>e, <1>q, NextEdits DEF ClickNext
<1>8. CASE ClickModal
  <2>1. p.step \in {"home", "form", "summary"}
    BY <1>8, <1>0 DEF ClickModal, WaitsAlone, SetupFields, SetupSteps
  <2>2. CASE ModalOk BY <2>1, <2>2, <1>e, <1>q, ModalEdits
  <2>3. CASE Page([p EXCEPT !.modal = "none"])
    <3>1. StillEdits(p, [p EXCEPT !.modal = "none"])
      BY <2>1, <1>0 DEF SetupFields, StillEdits
    <3>2. QED BY <3>1, <2>1, <2>3, <1>q
  <2>4. QED BY <1>8, <2>2, <2>3 DEF ClickModal
<1>9. CASE ClickApply BY <1>9, <1>d, ApplyOk DEF SetupInv
<1>10. CASE TimePasses BY <1>10, <1>d, TimeOk DEF SetupInv
<1>11. CASE ProbeAnswers BY <1>11, <1>d, ProbeOk DEF SetupInv
<1>12. QED BY <1>1, <1>2, <1>3, <1>4, <1>5, <1>6, <1>7, <1>8, <1>9, <1>10, <1>11 DEF NetwizSetupNext

(* Whatever the user applies, and whatever backups and sleeping processes  *)
(* earlier changes left, a page that has given up on the new address waits *)
(* at the address the router has                                           *)
THEOREM RollbackIsSafe == RouterSpec => []RollbackLeadsBack
<1>1. RouterInit => SetupInv
  <2> SUFFICES ASSUME NetwizSetupInit PROVE SetupInv
    BY DEF RouterInit
  <2>1. {"r", "p"} \subseteq DOMAIN na /\ na.r = Router0 /\ na.p = Loaded(Router0)
    BY DEF NetwizSetupInit
  <2>2. SetupFields(Router0, Loaded(Router0))
    BY DEF SetupFields, Router0, Loaded, SetupSteps
  <2>3. WaitsAlone(Loaded(Router0)) BY DEF WaitsAlone, Loaded
  <2>4. SetupPhase(Router0, Loaded(Router0)) BY DEF SetupPhase, SettledAt, Router0, Loaded
  <2>5. QED BY <2>1, <2>2, <2>3, <2>4 DEF SetupInv, SetupOk
<1>2. SetupInv /\ [RouterNext]_routerVars => SetupInv'
  <2> SUFFICES ASSUME SetupInv, [RouterNext]_routerVars PROVE SetupInv'
    OBVIOUS
  <2>1. UNCHANGED na \/ NetwizSetupNext BY DEF RouterNext, routerVars
  <2>2. CASE UNCHANGED na BY <2>2 DEF SetupInv
  <2>3. QED BY <2>1, <2>2, SetupStep
<1>3. SetupInv => RollbackLeadsBack
  BY DEF SetupInv, SetupOk, SetupPhase, SettledAt, RollbackLeadsBack
<1>4. QED BY <1>1, <1>2, <1>3, PTL DEF RouterSpec

----------------------------------------------------------------------------
(* The connections dialog of bandix: the property is inductive once the    *)
(* fields it reads are known to be there.                                  *)
FlowsFields(d) == {"n", "open", "page", "pages", "info", "filter", "rows"} \subseteq DOMAIN d
FlowsInv ==
  /\ {"dialog", "reqs"} \subseteq DOMAIN cf /\ FlowsFields(cf.dialog)
  /\ FlowsPageAgrees

(* A request that starts belongs to the dialog it leaves                   *)
LEMMA LoadFlowsOk ==
  ASSUME NEW d, NEW reset, {"dialog", "reqs"} \subseteq DOMAIN cf, FlowsFields(d),
         LoadFlows(d, reset)
  PROVE  FlowsInv'
<1> DEFINE dlg == [d EXCEPT !.page = IF reset THEN 1 ELSE @, !.rows = NoRows]
           r == [id |-> cf.sent + 1, dialog |-> dlg.n, page |-> dlg.page, filter |-> dlg.filter]
<1>1. cf' = [cf EXCEPT !.dialog = dlg, !.sent = @ + 1, !.reqs = @ \union {r}]
  BY DEF LoadFlows
<1>2. FlowsFields(dlg) /\ r.dialog = dlg.n BY DEF FlowsFields
<1> HIDE DEF dlg, r
<1>3. cf'.dialog = dlg /\ r \in cf'.reqs /\ {"dialog", "reqs"} \subseteq DOMAIN cf'
  BY <1>1
<1>4. QED BY <1>2, <1>3 DEF FlowsInv, FlowsPageAgrees

LEMMA FlowsStep == FlowsInv /\ ConnectionsNext => FlowsInv'
<1> SUFFICES ASSUME FlowsInv, ConnectionsNext PROVE FlowsInv'
  OBVIOUS
<1> DEFINE d == cf.dialog
<1>0. {"dialog", "reqs"} \subseteq DOMAIN cf /\ FlowsFields(d) /\ FlowsPageAgrees
  BY DEF FlowsInv
<1>1. CASE UpdateConnectionData
  BY <1>1, <1>0 DEF UpdateConnectionData, UpdateDeviceTable, FlowsInv, FlowsPageAgrees
<1>2. CASE ShowFlowsModal
  <2>1. FlowsFields(NewDialog(d.n + 1)) BY DEF FlowsFields, NewDialog
  <2>2. QED BY <1>2, <1>0, <2>1, LoadFlowsOk DEF ShowFlowsModal
<1>3. CASE HideFlowsModal
  BY <1>3, <1>0 DEF HideFlowsModal, FlowsInv, FlowsPageAgrees, FlowsFields
<1>4. CASE FlowsPrev
  <2>1. FlowsFields([d EXCEPT !.page = @ - 1]) BY <1>0 DEF FlowsFields
  <2>2. QED BY <1>4, <1>0, <2>1, LoadFlowsOk DEF FlowsPrev
<1>5. CASE FlowsNext
  <2>1. FlowsFields([d EXCEPT !.page = @ + 1]) BY <1>0 DEF FlowsFields
  <2>2. QED BY <1>5, <1>0, <2>1, LoadFlowsOk DEF FlowsNext
<1>6. CASE ReloadFlows BY <1>6, <1>0, LoadFlowsOk DEF ReloadFlows
<1>7. ASSUME NEW f \in ListFilters, OnFlowsFilter(f) PROVE FlowsInv'
  <2>1. FlowsFields([d EXCEPT !.filter = f]) BY <1>0 DEF FlowsFields
  <2>2. QED BY <1>7, <1>0, <2>1, LoadFlowsOk DEF OnFlowsFilter
<1>8. ASSUME NEW q \in cf.reqs, NEW x,
             cf'.dialog = x /\ cf'.reqs = cf.reqs \ {q} /\ {"dialog", "reqs"} \subseteq DOMAIN cf',
             FlowsFields(x), x.n = d.n,
             \/ x = d /\ d.n # q.dialog
             \/ x.info = x.page /\ (x.rows.what = "rows" => x.rows.page = x.page)
      PROVE  FlowsInv'
  BY <1>8, <1>0 DEF FlowsInv, FlowsPageAgrees
<1>9. ASSUME NEW r \in cf.reqs, FlowsFail(r) PROVE FlowsInv'
  <2> DEFINE e == IF d.n # r.dialog THEN d
                  ELSE [d EXCEPT !.page = 1, !.info = 1, !.pages = 1,
                                 !.rows = [NoRows EXCEPT !.what = "error"]]
  <2>1. cf' = [cf EXCEPT !.reqs = @ \ {r}, !.dialog = e] BY <1>9 DEF FlowsFail
  <2>2. FlowsFields(e) /\ e.n = d.n BY <1>0 DEF FlowsFields
  <2>3. d.n = r.dialog => e.info = e.page /\ e.rows.what = "error"
    BY <1>0 DEF FlowsFields, NoRows
  <2>4. d.n # r.dialog => e = d
    OBVIOUS
  <2> HIDE DEF e
  <2>5. \/ e = d /\ d.n # r.dialog
        \/ e.info = e.page /\ (e.rows.what = "rows" => e.rows.page = e.page)
    BY <2>3, <2>4
  <2>6. cf'.dialog = e /\ cf'.reqs = cf.reqs \ {r} /\ {"dialog", "reqs"} \subseteq DOMAIN cf'
    BY <2>1, <1>0
  <2>7. QED BY <2>2, <2>5, <2>6, <1>8
<1>10. ASSUME NEW r \in cf.reqs, NEW kind, NEW n, FlowsAnswer(r, kind, n) PROVE FlowsInv'
  <2> DEFINE a == NormalizeFlowsResponse(d, r, kind, n)
             e == IF d.n # r.dialog THEN d ELSE ShowFlows(d, r, a)
  <2>1. cf' = [cf EXCEPT !.reqs = @ \ {r}, !.dialog = e] BY <1>10 DEF FlowsAnswer
  <2> HIDE DEF a
  <2>2. FlowsFields(e) /\ e.n = d.n BY <1>0 DEF FlowsFields, ShowFlows
  <2>3. d.n = r.dialog => e.info = e.page /\ e.rows.page = e.page
    BY <1>0 DEF FlowsFields, ShowFlows
  <2>4. d.n # r.dialog => e = d
    OBVIOUS
  <2> HIDE DEF e
  <2>5. \/ e = d /\ d.n # r.dialog
        \/ e.info = e.page /\ (e.rows.what = "rows" => e.rows.page = e.page)
    BY <2>3, <2>4
  <2>6. cf'.dialog = e /\ cf'.reqs = cf.reqs \ {r} /\ {"dialog", "reqs"} \subseteq DOMAIN cf'
    BY <2>1, <1>0
  <2>7. QED BY <2>2, <2>5, <2>6, <1>8
<1>11. QED BY <1>1, <1>2, <1>3, <1>4, <1>5, <1>6, <1>7, <1>9, <1>10 DEF ConnectionsNext

----------------------------------------------------------------------------
(* The DNS list of bandix.  The count of pages the buttons know bounds the *)
(* page they lead to.                                                      *)
DnsFields(s) ==
  /\ {"filter", "typed", "timer", "page", "shown", "pages", "overlay", "mask", "busy", "sent",
      "reqs"} \subseteq DOMAIN s
  /\ s.mask \in BOOLEAN /\ s.busy \in BOOLEAN
  /\ \A r \in s.reqs : r.refresh \in BOOLEAN
DnsReadable(s) ==
  /\ s.overlay # 0 => \E r \in s.reqs : r.div = s.overlay
  /\ s.mask => s.reqs # {}
  /\ s.busy => \E r \in s.reqs : r.refresh
  /\ s.page \in 1 .. MaxPages
DnsOk(s) == DnsFields(s) /\ DnsReadable(s) /\ s.pages \in 0 .. MaxPages
DnsInv == DnsOk(dq)

(* A request takes the overlay that is there or brings its own.  s is the  *)
(* list as the handler has it by then; a refresh has just disabled its     *)
(* button and laid the mask.                                               *)
LEMMA UpdateQueriesOk ==
  ASSUME NEW s, NEW refresh \in BOOLEAN, DnsFields(s), s.pages \in 0 .. MaxPages,
         s.page \in 1 .. MaxPages, refresh \/ DnsReadable(s)
  PROVE  DnsOk(UpdateQueries(s, refresh))
<1> DEFINE id == s.sent + 1
           div == IF s.shown = {} THEN 0 ELSE IF s.overlay # 0 THEN s.overlay ELSE id
           r == [id |-> id, page |-> s.page, filter |-> s.filter, div |-> div,
                 refresh |-> refresh]
           u == UpdateQueries(s, refresh)
<1>1. u = [s EXCEPT !.sent = id, !.overlay = div,
                    !.shown = IF @ = {} THEN {"loading"} ELSE @, !.reqs = @ \union {r}]
  BY DEF UpdateQueries
<1>2. r.div = div /\ r.refresh = refresh
  OBVIOUS
<1> HIDE DEF u, r, div, id
<1>3. /\ DOMAIN u = DOMAIN s
      /\ u.mask = s.mask /\ u.busy = s.busy /\ u.page = s.page /\ u.pages = s.pages
      /\ u.overlay = div /\ u.reqs = s.reqs \union {r}
  BY <1>1 DEF DnsFields
<1>4. DnsFields(u) BY <1>2, <1>3 DEF DnsFields
<1>5. u.busy => \E q \in u.reqs : q.refresh BY <1>2, <1>3 DEF DnsReadable
<1>6. DnsReadable(u) BY <1>2, <1>3, <1>5 DEF DnsReadable
<1>7. QED BY <1>3, <1>4, <1>6 DEF DnsOk, u

(* An answer takes away its own overlay and the mask; whatever it leaves   *)
(* belongs to another request                                              *)
LEMMA AnsweredOk ==
  ASSUME DnsInv, NEW r \in dq.reqs
  PROVE  DnsOk(Answered(r))
<1> DEFINE u == Answered(r)
<1>0. DnsFields(dq) /\ DnsReadable(dq) /\ dq.pages \in 0 .. MaxPages
  BY DEF DnsInv, DnsOk
<1>1. u = [dq EXCEPT !.reqs = @ \ {r}, !.mask = FALSE, !.overlay = IF @ = r.div THEN 0 ELSE @,
                     !.busy = @ /\ ~r.refresh]
  BY DEF Answered
<1> HIDE DEF u
<1>2. /\ DOMAIN u = DOMAIN dq
      /\ u.page = dq.page /\ u.pages = dq.pages /\ u.reqs = dq.reqs \ {r}
      /\ u.overlay = IF dq.overlay = r.div THEN 0 ELSE dq.overlay
  BY <1>0, <1>1 DEF DnsFields
<1>3. u.mask = FALSE BY <1>0, <1>1 DEF DnsFields
<1>4. u.busy = (dq.busy /\ ~r.refresh) BY <1>0, <1>1 DEF DnsFields
<1>5. DnsFields(u)
  <2>1. u.mask \in BOOLEAN /\ u.busy \in BOOLEAN BY <1>3, <1>4
  <2>2. QED BY <2>1, <1>0, <1>2 DEF DnsFields
<1>6. u.overlay # 0 => \E q \in u.reqs : q.div = u.overlay
  BY <1>0, <1>2 DEF DnsReadable
<1>7. u.busy => \E q \in u.reqs : q.refresh BY <1>0, <1>2, <1>4 DEF DnsReadable
<1>8. DnsReadable(u) BY <1>0, <1>2, <1>3, <1>6, <1>7 DEF DnsReadable
<1>9. QED BY <1>0, <1>2, <1>5, <1>8 DEF DnsOk, u

LEMMA ClearedOk ==
  ASSUME NEW s, NEW content, DnsOk(s)
  PROVE  DnsOk(Cleared(s, content))
<1> DEFINE u == Cleared(s, content)
<1>0. DnsFields(s) /\ DnsReadable(s) BY DEF DnsOk
<1>1. /\ DOMAIN u = DOMAIN s /\ u.overlay = 0 /\ u.pages = 0 /\ u.reqs = s.reqs
      /\ u.mask = s.mask /\ u.busy = s.busy /\ u.page = s.page
  BY <1>0 DEF Cleared, DnsFields
<1> HIDE DEF u
<1>2. DnsFields(u) /\ DnsReadable(u) BY <1>0, <1>1 DEF DnsFields, DnsReadable
<1>3. u.pages \in 0 .. MaxPages BY <1>1, ListsAssumption
<1>4. QED BY <1>2, <1>3 DEF DnsOk, u

LEMMA DnsStep == DnsInv /\ DnsNext => DnsInv'
<1> SUFFICES ASSUME DnsInv, DnsNext PROVE DnsOk(dq')
  BY DEF DnsInv, DnsOk, DnsFields, DnsReadable
<1>0. DnsFields(dq) /\ DnsReadable(dq) /\ dq.pages \in 0 .. MaxPages /\ dq.page \in 1 .. MaxPages
  BY DEF DnsInv, DnsOk, DnsReadable
<1>u. ASSUME NEW s, DOMAIN s = DOMAIN dq, s.overlay = dq.overlay, s.mask = dq.mask,
             s.busy = dq.busy, s.reqs = dq.reqs, s.pages = dq.pages, s.page \in 1 .. MaxPages
      PROVE  DnsOk(UpdateQueries(s, FALSE))
  <2>1. DnsFields(s) /\ DnsReadable(s) /\ s.pages \in 0 .. MaxPages
    BY <1>u, <1>0 DEF DnsFields, DnsReadable
  <2>2. QED BY <2>1, <1>u, UpdateQueriesOk
<1>p. MaxPages \in Nat \ {0} /\ 1 \in 1 .. MaxPages
  BY ListsAssumption
<1>1. CASE FirstQueries BY <1>1, <1>0, <1>u DEF FirstQueries
<1>2. CASE PrevQueries
  <2> DEFINE s == [dq EXCEPT !.page = @ - 1]
  <2>1. /\ DOMAIN s = DOMAIN dq /\ s.overlay = dq.overlay /\ s.mask = dq.mask
        /\ s.busy = dq.busy /\ s.reqs = dq.reqs /\ s.pages = dq.pages /\ s.page = dq.page - 1
    BY <1>0 DEF DnsFields
  <2>2. dq.page > 1 /\ dq' = UpdateQueries(s, FALSE) BY <1>2 DEF PrevQueries
  <2> HIDE DEF s
  <2>3. s.page \in 1 .. MaxPages BY <2>1, <2>2, <1>0, <1>p
  <2>4. QED BY <2>1, <2>2, <2>3, <1>u
<1>3. CASE NextQueries
  <2> DEFINE s == [dq EXCEPT !.page = @ + 1]
  <2>1. /\ DOMAIN s = DOMAIN dq /\ s.overlay = dq.overlay /\ s.mask = dq.mask
        /\ s.busy = dq.busy /\ s.reqs = dq.reqs /\ s.pages = dq.pages /\ s.page = dq.page + 1
    BY <1>0 DEF DnsFields
  <2>2. dq.page < dq.pages /\ dq' = UpdateQueries(s, FALSE)
    BY <1>3 DEF NextQueries
  <2> HIDE DEF s
  <2>3. s.page \in 1 .. MaxPages BY <2>1, <2>2, <1>0, <1>p
  <2>4. QED BY <2>1, <2>2, <2>3, <1>u
<1>4. CASE QueriesPageSize
  <2> DEFINE s == [dq EXCEPT !.page = 1]
  <2>1. /\ DOMAIN s = DOMAIN dq /\ s.overlay = dq.overlay /\ s.mask = dq.mask
        /\ s.busy = dq.busy /\ s.reqs = dq.reqs /\ s.pages = dq.pages /\ s.page = 1
    BY <1>0 DEF DnsFields
  <2>2. dq' = UpdateQueries(s, FALSE) BY <1>4 DEF QueriesPageSize
  <2> HIDE DEF s
  <2>3. s.page \in 1 .. MaxPages BY <2>1, <1>p
  <2>4. QED BY <2>1, <2>2, <2>3, <1>u
<1>5. ASSUME NEW s, DOMAIN s = DOMAIN dq, s.overlay = dq.overlay, s.mask = dq.mask,
             s.busy = dq.busy, s.reqs = dq.reqs, s.pages = dq.pages
      PROVE  DnsOk(PerformSearch(s))
  <2> DEFINE q == [s EXCEPT !.filter = s.typed, !.page = 1, !.timer = FALSE]
  <2>1. /\ DOMAIN q = DOMAIN dq /\ q.overlay = dq.overlay /\ q.mask = dq.mask
        /\ q.busy = dq.busy /\ q.reqs = dq.reqs /\ q.pages = dq.pages /\ q.page = 1
    BY <1>5, <1>0 DEF DnsFields
  <2>2. PerformSearch(s) = UpdateQueries(q, FALSE) BY DEF PerformSearch
  <2> HIDE DEF q
  <2>3. q.page \in 1 .. MaxPages BY <2>1, <1>p
  <2>4. QED BY <2>1, <2>2, <2>3, <1>u
<1>6. CASE DebounceSearch BY <1>6, <1>5 DEF DebounceSearch
<1>7. ASSUME NEW s, NEW b, NEW v, DnsOk(s),
             v \in {[s EXCEPT !.timer = b], [s EXCEPT !.typed = b, !.timer = TRUE]}
      PROVE  DnsOk(v)
  <2>1. /\ DOMAIN v = DOMAIN s /\ v.overlay = s.overlay /\ v.mask = s.mask
        /\ v.busy = s.busy /\ v.reqs = s.reqs /\ v.pages = s.pages /\ v.page = s.page
    BY <1>7 DEF DnsOk, DnsFields
  <2>2. QED BY <2>1, <1>7 DEF DnsOk, DnsFields, DnsReadable
<1>8. ASSUME NEW f \in ListFilters, TypeFilter(f) PROVE DnsOk(dq')
  BY <1>8, <1>7, ZenonT(60) DEF TypeFilter, DnsInv
<1>9. ASSUME NEW f \in ListFilters, SelectFilter(f) PROVE DnsOk(dq')
  <2> DEFINE s == [dq EXCEPT !.typed = f]
             q == PerformSearch(s)
  <2>1. /\ DOMAIN s = DOMAIN dq /\ s.overlay = dq.overlay /\ s.mask = dq.mask
        /\ s.busy = dq.busy /\ s.reqs = dq.reqs /\ s.pages = dq.pages
    BY <1>0 DEF DnsFields
  <2> HIDE DEF s
  <2>2. DnsOk(q) BY <2>1, <1>5
  <2>3. dq' = [q EXCEPT !.timer = dq.timer] BY <1>9 DEF SelectFilter, s
  <2> HIDE DEF q
  <2>4. QED BY <2>2, <2>3, <1>7, ZenonT(60)
<1>10. CASE RefreshQueries
  <2> DEFINE s == [dq EXCEPT !.busy = TRUE, !.mask = TRUE]
  <2>1. /\ DOMAIN s = DOMAIN dq /\ s.busy = TRUE /\ s.mask = TRUE
        /\ s.reqs = dq.reqs /\ s.pages = dq.pages /\ s.page = dq.page
    BY <1>0 DEF DnsFields
  <2>2. dq' = UpdateQueries(s, TRUE) BY <1>10 DEF RefreshQueries
  <2> HIDE DEF s
  <2>3. s.busy \in BOOLEAN /\ s.mask \in BOOLEAN BY <2>1
  <2>4. DnsFields(s) BY <2>1, <2>3, <1>0 DEF DnsFields
  <2>5. QED BY <2>1, <2>2, <2>4, <1>0, UpdateQueriesOk
<1>11. ASSUME NEW r \in dq.reqs, QueriesFail(r) PROVE DnsOk(dq')
  BY <1>11, AnsweredOk, ClearedOk DEF QueriesFail
<1>12. ASSUME NEW r \in dq.reqs, NEW n \in 0 .. MaxPages, QueriesAnswer(r, n) PROVE DnsOk(dq')
  <2> DEFINE s == Answered(r)
             v == [s EXCEPT !.shown = (@ \ {"loading", "empty"}) \union {"table"}, !.pages = n]
  <2>1. DnsOk(s) BY AnsweredOk
  <2>2. dq' = Cleared(s, "empty") \/ dq' = v BY <1>12 DEF QueriesAnswer
  <2> HIDE DEF s
  <2>3. DnsOk(v)
    <3>1. /\ DOMAIN v = DOMAIN s /\ v.overlay = s.overlay /\ v.mask = s.mask
          /\ v.busy = s.busy /\ v.reqs = s.reqs /\ v.pages = n /\ v.page = s.page
      BY <2>1 DEF DnsOk, DnsFields
    <3>2. QED BY <3>1, <2>1 DEF DnsOk, DnsFields, DnsReadable
  <2> HIDE DEF v
  <2>4. QED BY <2>1, <2>2, <2>3, ClearedOk
<1>13. QED BY <1>1, <1>2, <1>3, <1>4, <1>6, <1>8, <1>9, <1>10, <1>11, <1>12 DEF DnsNext

----------------------------------------------------------------------------
(* The global rate limit of bandix.  Each part of the page that is not in  *)
(* doubt tells the service's state, or an operation owes it a fresh answer;*)
(* so do the stale answers that nothing has passed.                        *)
RateKept(limit) == UnitToBytes(PickUnit(limit)[1], PickUnit(limit)[2]) = limit
OpOk(o) ==
  /\ {"by", "step", "sent", "got", "age"} \subseteq DOMAIN o
  /\ o.step \in {"over", "mutate", "load", "badge"}
  /\ o.age \in {"fresh", "stale", "passed"}
  /\ o.by = "open" => o.step = "load"
WhitelistParts == {"enabled", "macs", "limit", "open", "listed", "list", "box", "form", "badge",
                   "doubt", "steps", "ops"}
WhitelistFields ==
  /\ WhitelistParts \subseteq DOMAIN bw
  /\ DOMAIN bw.ops = Operations /\ \A i \in Operations : OpOk(bw.ops[i])
  /\ RateKept(bw.limit)
OwesOne(k, o) ==
  \/ o.step = k /\ o.age = "fresh"
  \/ o.step = "mutate" /\ (o.got # Unserved \/ (k = "load" /\ o.by = "toggle"))
  \/ k = "badge" /\ o.step = "load" /\ o.by # "open"
Owed(k) == \E i \in Operations : OwesOne(k, bw.ops[i])
Tells(k) == IF k = "load" THEN ListTrue ELSE BadgeTrue
FreshOk(k, o) ==
  (o.step = k /\ o.age = "fresh") => o.got \in {Unserved, EmptyAnswer, ServiceSays(k)}
PartOk(k) ==
  /\ k \in bw.doubt \/ Tells(k) \/ Owed(k)
  /\ (\E i \in Operations : bw.ops[i].step = k /\ bw.ops[i].age = "stale") => k \in bw.doubt \/ Owed(k)
  /\ \A i \in Operations : FreshOk(k, bw.ops[i])
WhitelistInv == WhitelistFields /\ PartOk("load") /\ PartOk("badge")

LEMMA OverIs == OpOk(Over) /\ Over.step = "over" /\ Over.age = "fresh"
BY DEF OpOk, Over

(* The operation that goes on leaves the others as they were, but for the  *)
(* stale answers of its kind that it passes                                *)
LEMMA BecomesIs ==
  ASSUME WhitelistFields, NEW i \in Operations, NEW next, OpOk(next), NEW ops, ops = Becomes(i, next)
  PROVE  /\ DOMAIN ops = Operations /\ \A j \in Operations : OpOk(ops[j])
         /\ ops[i] = next
         /\ \A j \in Operations \ {i} :
              /\ ops[j].by = bw.ops[j].by /\ ops[j].step = bw.ops[j].step
              /\ ops[j].got = bw.ops[j].got
              /\ \/ ops[j].age = bw.ops[j].age
                 \/ /\ bw.ops[i].age = "fresh" /\ bw.ops[j].age = "stale"
                    /\ bw.ops[j].step = bw.ops[i].step /\ ops[j].age = "passed"
              /\ ~(/\ bw.ops[i].age = "fresh" /\ ops[j].step = bw.ops[i].step
                   /\ ops[j].age = "stale")
<1>1. DOMAIN ops = Operations /\ ops[i] = next BY DEF Becomes
<1>2. ASSUME NEW j \in Operations \ {i}
      PROVE  /\ OpOk(ops[j]) /\ ops[j].by = bw.ops[j].by /\ ops[j].step = bw.ops[j].step
             /\ ops[j].got = bw.ops[j].got
             /\ \/ ops[j].age = bw.ops[j].age
                \/ /\ bw.ops[i].age = "fresh" /\ bw.ops[j].age = "stale"
                   /\ bw.ops[j].step = bw.ops[i].step /\ ops[j].age = "passed"
             /\ ~(bw.ops[i].age = "fresh" /\ ops[j].step = bw.ops[i].step /\ ops[j].age = "stale")
  <2> DEFINE o == bw.ops[j]
             passes == bw.ops[i].age = "fresh" /\ o.age = "stale" /\ o.step = bw.ops[i].step
  <2>1. ops[j] = IF passes THEN [o EXCEPT !.age = "passed"] ELSE o
    BY DEF Becomes
  <2>2. OpOk(o) BY DEF WhitelistFields
  <2> HIDE DEF o
  <2>3. CASE passes
    <3>1. ops[j] = [o EXCEPT !.age = "passed"] BY <2>1, <2>3
    <3>2. /\ OpOk(ops[j]) /\ ops[j].by = o.by /\ ops[j].step = o.step /\ ops[j].got = o.got
          /\ ops[j].age = "passed"
      BY <3>1, <2>2 DEF OpOk
    <3>3. QED BY <3>2, <2>3 DEF o
  <2>4. CASE ~passes
    <3>1. ops[j] = o BY <2>1, <2>4
    <3>2. QED BY <3>1, <2>2, <2>4 DEF o
  <2>5. QED BY <2>3, <2>4
<1>3. QED BY <1>1, <1>2

(* What is owed stays owed when only one operation goes on                 *)
LEMMA OneGoesOn ==
  ASSUME WhitelistFields, NEW i \in Operations, NEW next, OpOk(next), NEW k \in {"load", "badge"},
         NEW ops, DOMAIN ops = Operations, ops[i] = next,
         \A j \in Operations \ {i} :
           ops[j].by = bw.ops[j].by /\ ops[j].step = bw.ops[j].step /\ ops[j].got = bw.ops[j].got
           /\ (ops[j].age = bw.ops[j].age \/ bw.ops[j].age = "stale"),
         Owed(k), OwesOne(k, bw.ops[i]) => OwesOne(k, next)
  PROVE  \E j \in Operations : OwesOne(k, ops[j])
<1>1. PICK j \in Operations : OwesOne(k, bw.ops[j]) BY DEF Owed
<1>2. CASE j = i BY <1>1, <1>2
<1>3. CASE j # i BY <1>1, <1>3 DEF OwesOne
<1>4. QED BY <1>2, <1>3

(* The rules above for an operation that begins, is served, or goes on to  *)
(* its load: the service is unchanged.                                     *)
Serviced == bw'.enabled = bw.enabled /\ bw'.macs = bw.macs /\ bw'.limit = bw.limit
LEMMA FieldsKept ==
  ASSUME WhitelistFields, NEW i \in Operations, NEW q, OpOk(q),
         WhitelistParts \subseteq DOMAIN bw', bw'.ops = [bw.ops EXCEPT ![i] = q], bw'.limit = bw.limit
  PROVE  /\ WhitelistFields' /\ bw'.ops[i] = q /\ DOMAIN bw'.ops = Operations
         /\ \A j \in Operations \ {i} : bw'.ops[j] = bw.ops[j]
<1>1. DOMAIN bw'.ops = Operations /\ bw'.ops[i] = q /\ \A j \in Operations \ {i} : bw'.ops[j] = bw.ops[j]
  BY DEF WhitelistFields
<1>2. \A j \in Operations : OpOk(bw'.ops[j]) BY <1>1 DEF WhitelistFields
<1>3. QED BY <1>1, <1>2 DEF WhitelistFields

(* A part is in order again when one operation has become q                *)
LEMMA PartKept ==
  ASSUME WhitelistInv, NEW i \in Operations, NEW q, OpOk(q), NEW k \in {"load", "badge"},
         WhitelistParts \subseteq DOMAIN bw', bw'.ops = [bw.ops EXCEPT ![i] = q], Serviced,
         k \in bw.doubt => k \in bw'.doubt,
         \/ k \in bw'.doubt \/ OwesOne(k, q)
         \/ (Tells(k) => Tells(k)') /\ (OwesOne(k, bw.ops[i]) => OwesOne(k, q)),
         (q.step = k /\ q.age = "stale") => (bw.ops[i].step = k /\ bw.ops[i].age = "stale"),
         FreshOk(k, q)
  PROVE  PartOk(k)'
<1>0. WhitelistFields /\ PartOk(k) BY DEF WhitelistInv
<1>1. /\ bw'.ops[i] = q /\ DOMAIN bw'.ops = Operations
      /\ \A j \in Operations \ {i} : bw'.ops[j] = bw.ops[j]
  BY <1>0, FieldsKept DEF Serviced
<1>2. (\A j \in Operations : FreshOk(k, bw.ops[j])) => \A j \in Operations : FreshOk(k, bw.ops[j])'
  <2>1. ServiceSays(k)' = ServiceSays(k) BY DEF ServiceSays, Serviced
  <2>2. QED BY <1>1, <2>1 DEF FreshOk
<1>3. \A j \in Operations : FreshOk(k, bw.ops[j])' BY <1>0, <1>2 DEF PartOk
<1>4. (\E j \in Operations : bw'.ops[j].step = k /\ bw'.ops[j].age = "stale")
      => (\E j \in Operations : bw.ops[j].step = k /\ bw.ops[j].age = "stale")
  BY <1>1
<1>5. CASE OwesOne(k, q) \/ k \in bw'.doubt
  <2>1. Owed(k)' \/ k \in bw'.doubt BY <1>1, <1>5 DEF Owed, OwesOne
  <2>2. QED BY <2>1, <1>3 DEF PartOk
<1>6. CASE ~(OwesOne(k, q) \/ k \in bw'.doubt)
  <2>1. Owed(k) => Owed(k)'
    <3>1. ASSUME Owed(k) PROVE \E j \in Operations : OwesOne(k, bw'.ops[j])
      BY <3>1, <1>0, <1>1, <1>6, OneGoesOn
    <3>2. QED BY <3>1 DEF Owed, OwesOne
  <2>2. k \notin bw.doubt /\ (Tells(k) => Tells(k)') BY <1>6
  <2>3. QED BY <2>1, <2>2, <1>0, <1>3, <1>4 DEF PartOk
<1>7. QED BY <1>5, <1>6

(* One that begins                                                         *)
LEMMA ShowWhitelistKeeps ==
  ASSUME WhitelistInv, NEW i \in Operations, ShowWhitelistModal(i)
  PROVE  WhitelistInv'
<1> DEFINE q == Begun("open", "load", FALSE)
<1>1. OpOk(q) /\ q.step = "load" /\ q.by = "open" /\ q.age = "fresh" /\ q.got = Unserved
  BY DEF Begun, Over, OpOk
<1>2. /\ bw' = [NotListed(bw) EXCEPT !.open = TRUE, !.steps = @ + 1, !.ops[i] = q]
      /\ bw.ops[i].step = "over"
  BY DEF ShowWhitelistModal, Starts
<1> HIDE DEF q
<1>3. /\ WhitelistParts \subseteq DOMAIN bw' /\ bw'.ops = [bw.ops EXCEPT ![i] = q] /\ Serviced
      /\ bw'.listed = FALSE /\ bw'.badge = bw.badge /\ bw'.doubt = bw.doubt
  BY <1>2 DEF WhitelistInv, WhitelistFields, WhitelistParts, Serviced, NotListed
<1>4. WhitelistFields'
  BY <1>1, <1>3, FieldsKept DEF Serviced, WhitelistInv
<1>5. Tells("load")' /\ (Tells("badge") => Tells("badge")')
  BY <1>3 DEF Tells, ListTrue, BadgeTrue, Serviced
<1>6. FreshOk("load", q) /\ FreshOk("badge", q) /\ OwesOne("load", q) /\ ~OwesOne("badge", bw.ops[i])
  BY <1>1, <1>2 DEF FreshOk, OwesOne
<1>7. PartOk("load")' BY <1>1, <1>3, <1>6, PartKept
<1>8. PartOk("badge")' BY <1>1, <1>3, <1>5, <1>6, PartKept
<1>9. QED BY <1>4, <1>7, <1>8 DEF WhitelistInv

LEMMA WhitelistOperationKeeps ==
  ASSUME WhitelistInv, NEW i \in Operations, NEW by \in {"toggle", "add", "delete", "defaults"},
         WhitelistOperation(i, by)
  PROVE  WhitelistInv'
<1> DEFINE q == Begun(by, "mutate", by = "toggle" /\ ~bw.box)
<1>1. OpOk(q) /\ q.step = "mutate" /\ q.by = by /\ q.age = "fresh" /\ q.got = Unserved
  BY DEF Begun, Over, OpOk
<1>2. /\ bw' = [bw EXCEPT !.steps = @ + 1, !.box = IF by = "toggle" THEN ~@ ELSE @, !.ops[i] = q]
      /\ bw.ops[i].step = "over"
  BY DEF WhitelistOperation, Starts
<1> HIDE DEF q
<1>3. /\ WhitelistParts \subseteq DOMAIN bw' /\ bw'.ops = [bw.ops EXCEPT ![i] = q] /\ Serviced
      /\ bw'.listed = bw.listed /\ bw'.badge = bw.badge /\ bw'.doubt = bw.doubt
      /\ bw'.list = bw.list /\ bw'.form = bw.form
  BY <1>2 DEF WhitelistInv, WhitelistFields, WhitelistParts, Serviced
<1>4. by # "toggle" => bw'.box = bw.box
  BY <1>2 DEF WhitelistInv, WhitelistFields, WhitelistParts
<1>5. WhitelistFields'
  BY <1>1, <1>3, FieldsKept DEF Serviced, WhitelistInv
<1>6. (by # "toggle" => (Tells("load") => Tells("load")')) /\ (Tells("badge") => Tells("badge")')
  BY <1>3, <1>4 DEF Tells, ListTrue, BadgeTrue, Serviced
<1>7. /\ FreshOk("load", q) /\ FreshOk("badge", q) /\ (by = "toggle" => OwesOne("load", q))
      /\ ~OwesOne("badge", bw.ops[i]) /\ ~OwesOne("load", bw.ops[i])
  BY <1>1, <1>2 DEF FreshOk, OwesOne
<1>8. PartOk("load")' BY <1>1, <1>3, <1>6, <1>7, PartKept
<1>9. PartOk("badge")' BY <1>1, <1>3, <1>6, <1>7, PartKept
<1>10. QED BY <1>5, <1>8, <1>9 DEF WhitelistInv

(* A change that is applied makes every answer stale, and owes both parts  *)
LEMMA MutatedKeeps ==
  ASSUME WhitelistInv, NEW i \in Operations, NEW mac, NEW rate \in SavedRates,
         Mutated(i, mac, rate[1], rate[2])
  PROVE  WhitelistInv'
<1> DEFINE o == bw.ops[i]
           q == [o EXCEPT !.got = <<"done">>]
<1>0. WhitelistFields /\ OpOk(o) /\ RateKept(bw.limit) BY DEF WhitelistInv, WhitelistFields
<1>1. /\ o.step = "mutate"
      /\ bw' = [bw EXCEPT
           !.ops = [AnswersAge EXCEPT ![i] = q],
           !.enabled = IF o.by = "toggle" THEN o.sent ELSE @,
           !.macs = IF o.by = "add" THEN @ \union {mac} ELSE IF o.by = "delete" THEN @ \ {mac} ELSE @,
           !.limit = IF o.by = "defaults" THEN UnitToBytes(100 * rate[1], rate[2]) ELSE @]
  BY DEF Mutated, Asked
<1>2. OpOk(q) /\ q.step = "mutate" /\ q.got # Unserved
  <2>1. q.step = o.step /\ q.by = o.by /\ q.age = o.age /\ q.got = <<"done">> /\ DOMAIN q = DOMAIN o
    BY <1>0 DEF OpOk
  <2>2. <<"done">> # << >>
    OBVIOUS
  <2>3. QED BY <2>1, <2>2, <1>0, <1>1 DEF OpOk, Unserved
<1> HIDE DEF q
<1>3. /\ WhitelistParts \subseteq DOMAIN bw' /\ bw'.ops = [AnswersAge EXCEPT ![i] = q]
      /\ bw'.limit \in {bw.limit, UnitToBytes(100 * rate[1], rate[2])}
  BY <1>0, <1>1 DEF WhitelistFields, WhitelistParts
<1>4. RateKept(bw'.limit)
  <2>1. rate[1] \in Amounts /\ rate[2] \in {KUnit, MUnit, BitUnit}
    BY LimitsAssumption
  <2>2. RateKept(UnitToBytes(100 * rate[1], rate[2])) BY <2>1, RateReopens DEF RateKept
  <2>3. QED BY <1>3, <2>2, <1>0
<1>5. DOMAIN bw'.ops = Operations /\ bw'.ops[i] = q BY <1>3 DEF AnswersAge
<1>6. ASSUME NEW j \in Operations \ {i}
      PROVE  /\ OpOk(bw'.ops[j])
             /\ bw'.ops[j].age = "fresh" => bw'.ops[j].got = Unserved
  <2> DEFINE p == bw.ops[j]
  <2>1. OpOk(p) BY <1>0 DEF WhitelistFields
  <2>2. bw'.ops[j] = IF p.got # Unserved /\ p.age = "fresh" THEN [p EXCEPT !.age = "stale"] ELSE p
    BY <1>3 DEF AnswersAge
  <2> HIDE DEF p
  <2>3. QED BY <2>1, <2>2 DEF OpOk
<1>7. WhitelistFields'
  BY <1>2, <1>3, <1>4, <1>5, <1>6 DEF WhitelistFields
<1>8. ASSUME NEW k \in {"load", "badge"} PROVE PartOk(k)'
  <2>1. OwesOne(k, q) BY <1>2 DEF OwesOne
  <2>2. Owed(k)' BY <2>1, <1>5 DEF Owed, OwesOne
  <2>3. \A j \in Operations : FreshOk(k, bw.ops[j])' BY <1>2, <1>5, <1>6 DEF FreshOk
  <2>4. QED BY <2>2, <2>3 DEF PartOk
<1>9. QED BY <1>7, <1>8 DEF WhitelistInv

(* A change that is refused, or another answer                             *)
LEMMA ServedKeeps ==
  ASSUME WhitelistInv, NEW i \in Operations, NEW got, bw' = [bw EXCEPT !.ops[i].got = got],
         \/ bw.ops[i].step = "mutate" /\ got = <<"done">>
         \/ /\ bw.ops[i].step \in {"load", "badge"} /\ bw.ops[i].got = Unserved
            /\ got \in {EmptyAnswer, ServiceSays(bw.ops[i].step)}
  PROVE  WhitelistInv'
<1> DEFINE o == bw.ops[i]
           q == [o EXCEPT !.got = got]
<1>0. WhitelistFields /\ OpOk(o) /\ PartOk("load") /\ PartOk("badge")
  BY DEF WhitelistInv, WhitelistFields
<1>1. bw' = [bw EXCEPT !.ops = [bw.ops EXCEPT ![i] = q]]
  BY <1>0 DEF WhitelistFields, WhitelistParts
<1>2. /\ OpOk(q) /\ q.step = o.step /\ q.by = o.by /\ q.age = o.age /\ q.got = got
  BY <1>0 DEF OpOk
<1> HIDE DEF q
<1>3. /\ WhitelistParts \subseteq DOMAIN bw' /\ bw'.ops = [bw.ops EXCEPT ![i] = q] /\ Serviced
      /\ bw'.listed = bw.listed /\ bw'.badge = bw.badge /\ bw'.doubt = bw.doubt
      /\ bw'.list = bw.list /\ bw'.form = bw.form /\ bw'.box = bw.box
  BY <1>0, <1>1 DEF WhitelistFields, WhitelistParts, Serviced
<1>4. WhitelistFields' BY <1>0, <1>2, <1>3, FieldsKept DEF Serviced
<1>5. <<"done">> # << >>
  OBVIOUS
<1>6. ASSUME NEW k \in {"load", "badge"} PROVE PartOk(k)'
  <2>1. Tells(k) => Tells(k)' BY <1>3 DEF Tells, ListTrue, BadgeTrue, Serviced
  <2>2. OwesOne(k, o) => OwesOne(k, q) BY <1>2, <1>5 DEF OwesOne, Unserved
  <2>3. FreshOk(k, q) BY <1>2 DEF FreshOk
  <2>4. (q.step = k /\ q.age = "stale") => (o.step = k /\ o.age = "stale")
    BY <1>2
  <2>5. QED BY <2>1, <2>2, <2>3, <2>4, <1>2, <1>3, PartKept
<1>7. QED BY <1>4, <1>6 DEF WhitelistInv

LEMMA ChangedKeeps ==
  ASSUME WhitelistInv, NEW i \in Operations, Changed(i)
  PROVE  WhitelistInv'
<1> DEFINE o == bw.ops[i]
           q == Begun(o.by, "load", FALSE)
<1>0. WhitelistFields /\ OpOk(o) /\ o.step = "mutate" /\ o.by # "open"
  BY DEF WhitelistInv, WhitelistFields, OpOk, Changed
<1>1. OpOk(q) /\ q.step = "load" /\ q.by = o.by /\ q.age = "fresh" /\ q.got = Unserved
  BY <1>0 DEF Begun, Over, OpOk
<1>2. bw' = [NotListed(bw) EXCEPT !.ops[i] = q] BY DEF Changed
<1> HIDE DEF q
<1>3. /\ WhitelistParts \subseteq DOMAIN bw' /\ bw'.ops = [bw.ops EXCEPT ![i] = q] /\ Serviced
      /\ bw'.doubt = bw.doubt
  BY <1>0, <1>2 DEF WhitelistFields, WhitelistParts, Serviced, NotListed
<1>4. WhitelistFields' BY <1>0, <1>1, <1>3, FieldsKept DEF Serviced
<1>5. ASSUME NEW k \in {"load", "badge"} PROVE PartOk(k)'
  <2>1. OwesOne(k, q) /\ FreshOk(k, q) BY <1>0, <1>1 DEF OwesOne, FreshOk
  <2>2. QED BY <2>1, <1>1, <1>3, PartKept
<1>6. QED BY <1>4, <1>5 DEF WhitelistInv

LEMMA ChangeLostKeeps ==
  ASSUME WhitelistInv, NEW i \in Operations, ChangeLost(i)
  PROVE  WhitelistInv'
<1> DEFINE o == bw.ops[i]
           d == IF o.got # Unserved THEN {"load", "badge"}
                ELSE IF o.by = "toggle" THEN bw.doubt \union {"load"} ELSE bw.doubt
<1>0. WhitelistFields /\ OpOk(o) /\ o.step = "mutate"
  BY DEF WhitelistInv, WhitelistFields, ChangeLost
<1>1. bw' = [bw EXCEPT !.ops[i] = Over, !.doubt = d] BY DEF ChangeLost
<1>2. \A k \in {"load", "badge"} : /\ k \in bw.doubt => k \in d
                                   /\ k \in d \/ ~OwesOne(k, o)
  BY <1>0 DEF OwesOne
<1> HIDE DEF d
<1>3. /\ WhitelistParts \subseteq DOMAIN bw' /\ bw'.ops = [bw.ops EXCEPT ![i] = Over] /\ Serviced
      /\ bw'.listed = bw.listed /\ bw'.badge = bw.badge /\ bw'.doubt = d
      /\ bw'.list = bw.list /\ bw'.form = bw.form /\ bw'.box = bw.box
  BY <1>0, <1>1 DEF WhitelistFields, WhitelistParts, Serviced
<1>4. WhitelistFields' BY <1>0, <1>3, OverIs, FieldsKept DEF Serviced
<1>5. ASSUME NEW k \in {"load", "badge"} PROVE PartOk(k)'
  <2>1. Tells(k) => Tells(k)' BY <1>3 DEF Tells, ListTrue, BadgeTrue, Serviced
  <2>2. FreshOk(k, Over) /\ Over.age # "stale" BY OverIs DEF FreshOk
  <2>3. QED BY <2>1, <2>2, <1>2, <1>3, OverIs, PartKept
<1>6. QED BY <1>4, <1>5 DEF WhitelistInv

(* The page handles an answer, or its loss: the other part keeps what it is*)
(* owed, because only stale answers of the same kind are touched.          *)
LEMMA OtherPartKept ==
  ASSUME WhitelistInv, NEW i \in Operations, NEW q, OpOk(q), NEW k \in {"load", "badge"},
         WhitelistParts \subseteq DOMAIN bw', bw'.ops = Becomes(i, q), Serviced,
         bw.ops[i].step \in {"load", "badge"} \ {k},
         k \in bw.doubt <=> k \in bw'.doubt, Tells(k) => Tells(k)',
         OwesOne(k, bw.ops[i]) => OwesOne(k, q), q.age = "fresh", q.step = k => q.got = Unserved
  PROVE  PartOk(k)'
<1> DEFINE ops == Becomes(i, q)
<1>0. WhitelistFields /\ PartOk(k) BY DEF WhitelistInv
<1>1. /\ DOMAIN ops = Operations /\ ops[i] = q
      /\ \A j \in Operations \ {i} :
           /\ ops[j].by = bw.ops[j].by /\ ops[j].step = bw.ops[j].step /\ ops[j].got = bw.ops[j].got
           /\ ops[j].age = bw.ops[j].age \/ (bw.ops[j].step = bw.ops[i].step /\ bw.ops[j].age = "stale")
  BY <1>0, BecomesIs
<1> HIDE DEF ops
<1>2. bw'.ops = ops BY DEF ops
<1>3. \A j \in Operations : FreshOk(k, bw.ops[j])'
  <2>1. ServiceSays(k)' = ServiceSays(k) BY DEF ServiceSays, Serviced
  <2>2. \A j \in Operations : FreshOk(k, bw.ops[j]) BY <1>0 DEF PartOk
  <2>3. ASSUME NEW j \in Operations PROVE FreshOk(k, bw.ops[j])'
    BY <1>1, <1>2, <2>1, <2>2 DEF FreshOk
  <2>4. QED BY <2>3
<1>4. (\E j \in Operations : bw'.ops[j].step = k /\ bw'.ops[j].age = "stale")
      => (\E j \in Operations : bw.ops[j].step = k /\ bw.ops[j].age = "stale")
  BY <1>1, <1>2
<1>5. Owed(k) => Owed(k)'
  <2>1. ASSUME Owed(k) PROVE \E j \in Operations : OwesOne(k, ops[j])
    BY <2>1, <1>0, <1>1, OneGoesOn
  <2>2. QED BY <2>1, <1>2 DEF Owed, OwesOne
<1>6. QED BY <1>0, <1>3, <1>4, <1>5 DEF PartOk

(* The part itself: what a fresh answer tells is true, and passes what is  *)
(* stale; a stale one leaves to another operation what it owes.            *)
LEMMA OwnPartKept ==
  ASSUME WhitelistInv, NEW i \in Operations, NEW q, OpOk(q), NEW k \in {"load", "badge"},
         WhitelistParts \subseteq DOMAIN bw', bw'.ops = Becomes(i, q), Serviced,
         bw.ops[i].step = k, q.step # k,
         bw.doubt \ {k} \subseteq bw'.doubt,
         \/ k \in bw'.doubt
         \/ bw.ops[i].age = "fresh" /\ Tells(k)'
         \/ bw.ops[i].age # "fresh" /\ Tells(k)' /\ k \notin bw.doubt
         \/ bw.ops[i].age = "stale" /\ k \notin bw.doubt
  PROVE  PartOk(k)'
<1> DEFINE ops == Becomes(i, q)
<1>0. WhitelistFields /\ PartOk(k) BY DEF WhitelistInv
<1>1. /\ DOMAIN ops = Operations /\ ops[i] = q
      /\ \A j \in Operations \ {i} :
           /\ ops[j].by = bw.ops[j].by /\ ops[j].step = bw.ops[j].step /\ ops[j].got = bw.ops[j].got
           /\ ops[j].age = bw.ops[j].age \/ (bw.ops[i].age = "fresh" /\ bw.ops[j].age = "stale"
                                             /\ ops[j].age = "passed")
           /\ ~(bw.ops[i].age = "fresh" /\ ops[j].step = bw.ops[i].step /\ ops[j].age = "stale")
  BY <1>0, BecomesIs
<1> HIDE DEF ops
<1>2. bw'.ops = ops BY DEF ops
<1>3. \A j \in Operations : FreshOk(k, bw.ops[j])'
  <2>1. ServiceSays(k)' = ServiceSays(k) BY DEF ServiceSays, Serviced
  <2>2. \A j \in Operations : FreshOk(k, bw.ops[j]) BY <1>0 DEF PartOk
  <2>3. ASSUME NEW j \in Operations PROVE FreshOk(k, bw.ops[j])'
    BY <1>1, <1>2, <2>1, <2>2 DEF FreshOk
  <2>4. QED BY <2>3
<1>4. CASE k \in bw'.doubt BY <1>3, <1>4 DEF PartOk
<1>5. CASE bw.ops[i].age = "fresh" /\ Tells(k)'
  <2>1. ~\E j \in Operations : bw'.ops[j].step = k /\ bw'.ops[j].age = "stale"
    BY <1>1, <1>2, <1>5
  <2>2. QED BY <1>3, <1>5, <2>1 DEF PartOk
<1>6. ASSUME bw.ops[i].age # "fresh", k \notin bw.doubt, Tells(k)' \/ bw.ops[i].age = "stale"
      PROVE  PartOk(k)'
  <2>1. \A j \in Operations \ {i} : ops[j].age = bw.ops[j].age
    BY <1>1, <1>6
  <2>2. ~OwesOne(k, bw.ops[i]) BY <1>6 DEF OwesOne
  <2>3. Owed(k) => Owed(k)'
    <3>1. ASSUME Owed(k) PROVE \E j \in Operations : OwesOne(k, ops[j])
      BY <3>1, <2>2, <1>0, <1>1, OneGoesOn
    <3>2. QED BY <3>1, <1>2 DEF Owed, OwesOne
  <2>4. (\E j \in Operations : bw'.ops[j].step = k /\ bw'.ops[j].age = "stale")
        => (\E j \in Operations : bw.ops[j].step = k /\ bw.ops[j].age = "stale")
    BY <1>1, <1>2, <2>1
  <2>5. bw.ops[i].age = "stale" => Owed(k) BY <1>0, <1>6 DEF PartOk
  <2>6. QED BY <2>3, <2>4, <2>5, <1>0, <1>3, <1>6 DEF PartOk
<1>7. QED BY <1>4, <1>5, <1>6

(* The step after a load                                                   *)
LEMMA NextStepIs ==
  ASSUME NEW o, OpOk(o), o.step = "load"
  PROVE  /\ OpOk(NextStep(o)) /\ NextStep(o).step # "load" /\ NextStep(o).age = "fresh"
         /\ NextStep(o).step = "badge" => NextStep(o).got = Unserved
         /\ o.by # "open" => NextStep(o).step = "badge"
<1>1. CASE o.by = "open"
  <2>1. NextStep(o) = Over BY <1>1 DEF NextStep
  <2>2. QED BY <2>1, <1>1, OverIs
<1>2. CASE o.by # "open"
  <2>1. NextStep(o) = Begun(o.by, "badge", FALSE) BY <1>2 DEF NextStep
  <2>2. QED BY <2>1, <1>2 DEF Begun, Over, OpOk
<1>3. QED BY <1>1, <1>2

LEMMA AfterAnswer ==
  ASSUME WhitelistInv, NEW i \in Operations, NEW q, OpOk(q), bw'.ops = Becomes(i, q),
         WhitelistParts \subseteq DOMAIN bw', bw'.limit = bw.limit
  PROVE  WhitelistFields'
<1>1. WhitelistFields BY DEF WhitelistInv
<1>2. DOMAIN bw'.ops = Operations /\ \A j \in Operations : OpOk(bw'.ops[j])
  BY <1>1, BecomesIs
<1>3. QED BY <1>1, <1>2 DEF WhitelistFields

LEMMA LoadedKeeps ==
  ASSUME WhitelistInv, NEW i \in Operations, LoadWhitelistModal(i)
  PROVE  WhitelistInv'
<1> DEFINE o == bw.ops[i]
           q == NextStep(o)
           empty == o.got = EmptyAnswer
<1>0. WhitelistFields /\ OpOk(o) /\ PartOk("load") /\ RateKept(bw.limit)
  BY DEF WhitelistInv, WhitelistFields
<1>1. /\ o.step = "load" /\ o.got # Unserved
      /\ bw' = [bw EXCEPT !.ops = Becomes(i, q), !.doubt = Doubted(o), !.listed = TRUE,
                          !.box = IF empty THEN FALSE ELSE o.got[1],
                          !.list = IF empty THEN {} ELSE o.got[2],
                          !.form = IF empty THEN <<"", KUnit>> ELSE PickUnit(o.got[3])]
  BY DEF LoadWhitelistModal
<1>2. /\ OpOk(q) /\ q.step # "load" /\ q.age = "fresh" /\ (q.step = "badge" => q.got = Unserved)
      /\ (o.by # "open" => q.step = "badge")
  BY <1>0, <1>1, NextStepIs
<1> HIDE DEF q
<1>3. /\ WhitelistParts \subseteq DOMAIN bw' /\ bw'.ops = Becomes(i, q) /\ Serviced
      /\ bw'.badge = bw.badge /\ bw'.doubt = Doubted(o)
  BY <1>0, <1>1 DEF WhitelistFields, WhitelistParts, Serviced
<1>4. ~empty => bw'.box = o.got[1] /\ bw'.list = o.got[2] /\ bw'.form = PickUnit(o.got[3])
  BY <1>0, <1>1 DEF WhitelistFields, WhitelistParts
<1>5. WhitelistFields' BY <1>2, <1>3, AfterAnswer DEF Serviced
<1>6. (o.age = "fresh" /\ ~empty) => Tells("load")'
  <2>1. o.age = "fresh" /\ ~empty => o.got = <<bw.enabled, bw.macs, bw.limit>>
    BY <1>0, <1>1 DEF PartOk, FreshOk, ServiceSays
  <2>2. QED BY <2>1, <1>0, <1>3, <1>4 DEF Tells, ListTrue, RateKept, Serviced
<1>7. PartOk("load")'
  <2>1. /\ bw.doubt \ {"load"} \subseteq bw'.doubt
        /\ \/ "load" \in bw'.doubt
           \/ o.age = "fresh" /\ ~empty
           \/ o.age = "stale" /\ "load" \notin bw.doubt
    BY <1>0, <1>1, <1>3 DEF Doubted, OpOk
  <2>2. QED BY <2>1, <1>1, <1>2, <1>3, <1>6, OwnPartKept
<1>8. PartOk("badge")'
  <2>1. "badge" \in bw.doubt <=> "badge" \in bw'.doubt BY <1>1, <1>3 DEF Doubted
  <2>2. Tells("badge") => Tells("badge")' BY <1>3 DEF Tells, BadgeTrue, Serviced
  <2>3. OwesOne("badge", o) => OwesOne("badge", q) BY <1>1, <1>2 DEF OwesOne
  <2>4. QED BY <2>1, <2>2, <2>3, <1>1, <1>2, <1>3, OtherPartKept
<1>9. QED BY <1>5, <1>7, <1>8 DEF WhitelistInv

LEMMA RefreshedKeeps ==
  ASSUME WhitelistInv, NEW i \in Operations, RefreshWhitelistStatus(i)
  PROVE  WhitelistInv'
<1> DEFINE o == bw.ops[i]
<1>0. WhitelistFields /\ OpOk(o) /\ PartOk("badge") BY DEF WhitelistInv, WhitelistFields
<1>1. /\ o.step = "badge" /\ o.got # Unserved
      /\ bw' = [bw EXCEPT !.ops = Becomes(i, Over), !.doubt = Doubted(o),
                          !.badge = IF o.got = EmptyAnswer THEN <<FALSE, 0>> ELSE o.got]
  BY DEF RefreshWhitelistStatus
<1>2. /\ WhitelistParts \subseteq DOMAIN bw' /\ bw'.ops = Becomes(i, Over) /\ Serviced
      /\ bw'.listed = bw.listed /\ bw'.list = bw.list /\ bw'.form = bw.form /\ bw'.box = bw.box
      /\ bw'.doubt = Doubted(o) /\ (o.got # EmptyAnswer => bw'.badge = o.got)
  BY <1>0, <1>1 DEF WhitelistFields, WhitelistParts, Serviced
<1>3. WhitelistFields' BY <1>2, OverIs, AfterAnswer DEF Serviced
<1>4. (o.age = "fresh" /\ o.got # EmptyAnswer) => Tells("badge")'
  <2>1. o.age = "fresh" /\ o.got # EmptyAnswer => o.got = <<bw.enabled, Cardinality(bw.macs)>>
    BY <1>0, <1>1 DEF PartOk, FreshOk, ServiceSays
  <2>2. QED BY <2>1, <1>2 DEF Tells, BadgeTrue, Serviced
<1>5. PartOk("badge")'
  <2>1. /\ bw.doubt \ {"badge"} \subseteq bw'.doubt
        /\ \/ "badge" \in bw'.doubt
           \/ o.age = "fresh" /\ o.got # EmptyAnswer
           \/ o.age = "stale" /\ "badge" \notin bw.doubt
    BY <1>0, <1>1, <1>2 DEF Doubted, OpOk
  <2>2. QED BY <2>1, <1>1, <1>2, <1>4, OverIs, OwnPartKept
<1>6. PartOk("load")'
  <2>1. "load" \in bw.doubt <=> "load" \in bw'.doubt BY <1>1, <1>2 DEF Doubted
  <2>2. Tells("load") => Tells("load")' BY <1>2 DEF Tells, ListTrue, Serviced
  <2>3. ~OwesOne("load", o) BY <1>1 DEF OwesOne
  <2>4. QED BY <2>1, <2>2, <2>3, <1>1, <1>2, OverIs, OtherPartKept
<1>7. QED BY <1>3, <1>5, <1>6 DEF WhitelistInv

LEMMA LoadLostKeeps ==
  ASSUME WhitelistInv, NEW i \in Operations, LoadLost(i)
  PROVE  WhitelistInv'
<1> DEFINE o == bw.ops[i]
           q == NextStep(o)
<1>0. WhitelistFields /\ OpOk(o) BY DEF WhitelistInv, WhitelistFields
<1>1. /\ o.step = "load"
      /\ bw' = [NotListed(bw) EXCEPT !.ops = Becomes(i, q)]
  BY DEF LoadLost
<1>2. /\ OpOk(q) /\ q.step # "load" /\ q.age = "fresh" /\ (q.step = "badge" => q.got = Unserved)
      /\ (o.by # "open" => q.step = "badge")
  BY <1>0, <1>1, NextStepIs
<1> HIDE DEF q
<1>3. /\ WhitelistParts \subseteq DOMAIN bw' /\ bw'.ops = Becomes(i, q) /\ Serviced
      /\ bw'.badge = bw.badge /\ bw'.doubt = bw.doubt /\ bw'.listed = FALSE
  BY <1>0, <1>1 DEF WhitelistFields, WhitelistParts, Serviced, NotListed
<1>4. WhitelistFields' BY <1>2, <1>3, AfterAnswer DEF Serviced
<1>5. Tells("load")' /\ (Tells("badge") => Tells("badge")')
  BY <1>3 DEF Tells, ListTrue, BadgeTrue, Serviced
<1>6. PartOk("load")'
  <2>1. "load" \in bw'.doubt \/ o.age = "fresh" \/ (o.age # "fresh" /\ "load" \notin bw.doubt)
    BY <1>3
  <2>2. QED BY <2>1, <1>1, <1>2, <1>3, <1>5, OwnPartKept
<1>7. PartOk("badge")'
  <2>1. OwesOne("badge", o) => OwesOne("badge", q) BY <1>1, <1>2 DEF OwesOne
  <2>2. QED BY <2>1, <1>1, <1>2, <1>3, <1>5, OtherPartKept
<1>8. QED BY <1>4, <1>6, <1>7 DEF WhitelistInv

LEMMA StatusLostKeeps ==
  ASSUME WhitelistInv, NEW i \in Operations, StatusLost(i)
  PROVE  WhitelistInv'
<1> DEFINE o == bw.ops[i]
<1>0. WhitelistFields /\ OpOk(o) BY DEF WhitelistInv, WhitelistFields
<1>1. /\ o.step = "badge"
      /\ bw' = [bw EXCEPT !.ops = Becomes(i, Over), !.badge = <<"unavailable">>]
  BY DEF StatusLost
<1>2. /\ WhitelistParts \subseteq DOMAIN bw' /\ bw'.ops = Becomes(i, Over) /\ Serviced
      /\ bw'.listed = bw.listed /\ bw'.list = bw.list /\ bw'.form = bw.form /\ bw'.box = bw.box
      /\ bw'.doubt = bw.doubt /\ bw'.badge = <<"unavailable">>
  BY <1>0, <1>1 DEF WhitelistFields, WhitelistParts, Serviced
<1>3. WhitelistFields' BY <1>2, OverIs, AfterAnswer DEF Serviced
<1>4. Tells("badge")' /\ (Tells("load") => Tells("load")')
  BY <1>2 DEF Tells, ListTrue, BadgeTrue, Serviced
<1>5. PartOk("badge")'
  <2>1. "badge" \in bw'.doubt \/ o.age = "fresh" \/ (o.age # "fresh" /\ "badge" \notin bw.doubt)
    BY <1>2
  <2>2. QED BY <2>1, <1>1, <1>2, <1>4, OverIs, OwnPartKept
<1>6. PartOk("load")'
  <2>1. ~OwesOne("load", o) BY <1>1 DEF OwesOne
  <2>2. QED BY <2>1, <1>1, <1>2, <1>4, OverIs, OtherPartKept
<1>7. QED BY <1>3, <1>5, <1>6 DEF WhitelistInv

LEMMA WhitelistStep == WhitelistInv /\ WhitelistNext => WhitelistInv'
<1> SUFFICES ASSUME WhitelistInv, WhitelistNext PROVE WhitelistInv'
  OBVIOUS
<1>1. CASE HideWhitelistModal
  <2>1. bw' = [bw EXCEPT !.open = FALSE] BY <1>1 DEF HideWhitelistModal
  <2>2. /\ WhitelistParts \subseteq DOMAIN bw' /\ bw'.ops = bw.ops /\ Serviced
        /\ bw'.listed = bw.listed /\ bw'.list = bw.list /\ bw'.form = bw.form /\ bw'.box = bw.box
        /\ bw'.doubt = bw.doubt /\ bw'.badge = bw.badge
    BY <2>1 DEF WhitelistInv, WhitelistFields, WhitelistParts, Serviced
  <2>3. WhitelistFields'
    BY <2>2 DEF WhitelistInv, WhitelistFields, Serviced
  <2>4. ASSUME NEW k \in {"load", "badge"} PROVE PartOk(k)'
    BY <2>2, SMTT(40) DEF WhitelistInv, PartOk, Tells, ListTrue, BadgeTrue, Owed, OwesOne, FreshOk, ServiceSays, Serviced
  <2>5. QED BY <2>3, <2>4 DEF WhitelistInv
<1>2. ASSUME NEW i \in Operations, Refuses(i) PROVE WhitelistInv'
  BY <1>2, ServedKeeps DEF Refuses, Asked
<1>3. ASSUME NEW i \in Operations, NEW step \in {"load", "badge"}, Serves(i, step) PROVE WhitelistInv'
  <2>1. PICK got \in {ServiceSays(step), EmptyAnswer} : bw' = [bw EXCEPT !.ops[i].got = got]
    BY <1>3 DEF Serves
  <2>2. bw.ops[i].step = step /\ bw.ops[i].got = Unserved BY <1>3 DEF Serves, Asked
  <2>3. QED BY <2>1, <2>2, ServedKeeps
<1>4. QED
  BY <1>1, <1>2, <1>3, ShowWhitelistKeeps, WhitelistOperationKeeps, MutatedKeeps, ChangedKeeps,
     LoadedKeeps, RefreshedKeeps, ChangeLostKeeps, LoadLostKeeps, StatusLostKeeps DEF WhitelistNext

----------------------------------------------------------------------------
(* The dialogs of bandix's traffic page.  A closing timer may take the     *)
(* device from an open dialog, never give it another one; the rule form is *)
(* open only over the dialog of a device, and the list of an open dialog   *)
(* is of its device.                                                       *)
DialogFields == {"cur", "shown", "timers", "list", "listing", "add", "editing", "saving", "ask",
                 "deleting", "naming", "updates", "all", "rulesLoading", "rows"}
DialogsOk(p) ==
  /\ DialogFields \subseteq DOMAIN p
  /\ p.shown # BxNone => p.cur \in {p.shown, BxNone}
  /\ p.add => p.shown # BxNone
  /\ p.shown # BxNone => \A r \in p.list : r.mac = p.shown
  /\ (p.saving # BxNo /\ p.saving.rule # BxNo) => p.saving.rule.mac = p.saving.mac
  /\ p.editing # BxNo => p.add /\ p.editing.mac = p.shown
DialogsInv == DialogsOk(bx)

(* fetchAllScheduleRules and updateDeviceData do not touch the dialogs.    *)
LEMMA UpdateDeviceKeeps ==
  ASSUME NEW p, DialogsOk(p)
  PROVE  DialogsOk(UpdateDeviceData(p))
<1> SUFFICES ASSUME NEW q, q = UpdateDeviceData(p) PROVE DialogsOk(q)
  OBVIOUS
<1>1. /\ DialogFields \subseteq DOMAIN q /\ q.cur = p.cur /\ q.shown = p.shown /\ q.list = p.list
      /\ q.editing = p.editing /\ q.saving = p.saving
  BY DEF UpdateDeviceData, FetchAllScheduleRules, DialogsOk, DialogFields
<1>2. q.add = p.add
  BY DEF UpdateDeviceData, FetchAllScheduleRules, DialogsOk, DialogFields
<1>3. QED BY <1>1, <1>2 DEF DialogsOk

(* loadScheduleRules empties the list or leaves everything alone.          *)
LEMMA LoadRulesKeeps ==
  ASSUME NEW p, DialogsOk(p)
  PROVE  DialogsOk(LoadScheduleRules(p))
<1> SUFFICES ASSUME NEW q, q = LoadScheduleRules(p) PROVE DialogsOk(q)
  OBVIOUS
<1>1. /\ DialogFields \subseteq DOMAIN q /\ q.cur = p.cur /\ q.shown = p.shown
      /\ q.list \in {p.list, {}}
      /\ q.editing = p.editing /\ q.saving = p.saving
  BY DEF LoadScheduleRules, DialogsOk, DialogFields
<1>2. q.add = p.add
  BY DEF LoadScheduleRules, DialogsOk, DialogFields
<1>3. QED BY <1>1, <1>2 DEF DialogsOk

LEMMA DialogsStep == DialogsInv /\ BxNext => DialogsInv'
<1> SUFFICES ASSUME DialogsInv, BxNext PROVE DialogsOk(bx')
  BY DEF DialogsInv, DialogsOk
<1>0. DialogFields \subseteq DOMAIN bx /\ DialogsOk(bx) BY DEF DialogsInv, DialogsOk
<1>1. CASE PollDevices BY <1>1, <1>0, UpdateDeviceKeeps DEF PollDevices
<1>2. ASSUME NEW ok \in BOOLEAN, AllRulesAnswer(ok) PROVE DialogsOk(bx')
  BY <1>2, <1>0 DEF AllRulesAnswer, RulesLoaded, DialogsOk, DialogFields
<1>3. ASSUME NEW ok \in BOOLEAN, ScheduleRulesAnswer(ok) PROVE DialogsOk(bx')
  BY <1>3, <1>0 DEF ScheduleRulesAnswer, DeviceRules, DialogsOk, DialogFields
<1>4. ASSUME NEW ok \in BOOLEAN, SaveRuleAnswer(ok) PROVE DialogsOk(bx')
  <2> DEFINE p == [bx EXCEPT !.saving = BxNo]
             h == [HideAddRuleModal(bx) EXCEPT !.saving = BxNo]
  <2>1. DialogsOk(p) BY <1>0 DEF DialogsOk, DialogFields
  <2>2. DialogsOk(h)
    BY <1>0 DEF DialogsOk, DialogFields, HideAddRuleModal
  <2>3. bx' = p \/ bx' = UpdateDeviceData(LoadScheduleRules(h))
    BY <1>4 DEF SaveRuleAnswer
  <2> HIDE DEF p, h
  <2>4. QED BY <2>1, <2>2, <2>3, UpdateDeviceKeeps, LoadRulesKeeps
<1>5. ASSUME NEW ok \in BOOLEAN, DeleteAnswer(ok) PROVE DialogsOk(bx')
  <2> DEFINE p == [bx EXCEPT !.deleting = BxNo]
  <2>1. DialogsOk(p) BY <1>0 DEF DialogsOk, DialogFields
  <2>2. bx' \in {p, UpdateDeviceData(LoadScheduleRules(p)), UpdateDeviceData(p)}
    BY <1>5 DEF DeleteAnswer
  <2> HIDE DEF p
  <2>3. QED BY <2>1, <2>2, UpdateDeviceKeeps, LoadRulesKeeps
<1>6. ASSUME NEW ok \in BOOLEAN, HostnameAnswer(ok) PROVE DialogsOk(bx')
  <2> DEFINE p == [bx EXCEPT !.naming = BxNone]
  <2>1. DialogsOk(p) BY <1>0 DEF DialogsOk, DialogFields
  <2>2. bx' \in {p, UpdateDeviceData(p)} BY <1>6 DEF HostnameAnswer
  <2> HIDE DEF p
  <2>3. QED BY <2>1, <2>2, UpdateDeviceKeeps
<1>7. ASSUME NEW ok \in BOOLEAN, NEW now \in Clock, StatusAnswer(ok, now) PROVE DialogsOk(bx')
  <2>1. \E u, t : bx' = [bx EXCEPT !.updates = u, !.rows = t]
    BY <1>7 DEF StatusAnswer
  <2>2. QED BY <2>1, <1>0 DEF DialogsOk, DialogFields
<1>8. ASSUME NEW m \in Macs, ShowRateLimitModal(m) PROVE DialogsOk(bx')
  <2> DEFINE p == [bx EXCEPT !.cur = m, !.shown = m, !.list = {}]
  <2>1. bx.shown = BxNone /\ ~bx.add /\ bx' = LoadScheduleRules(p)
    BY <1>8 DEF ShowRateLimitModal, Top
  <2>2. DialogsOk(p) BY <2>1, <1>0 DEF DialogsOk, DialogFields
  <2> HIDE DEF p
  <2>3. QED BY <2>1, <2>2, LoadRulesKeeps
<1>9. CASE HideRateLimitModal
  <2>1. ~bx.add /\ bx' = [bx EXCEPT !.shown = BxNone, !.timers = @ + 1]
    BY <1>9 DEF HideRateLimitModal, Top
  <2>2. QED BY <2>1, <1>0 DEF DialogsOk, DialogFields
<1>10. CASE ClosingTimer
  BY <1>10, <1>0 DEF ClosingTimer, DialogsOk, DialogFields
<1>11. ASSUME NEW rule \in bx.list \union {BxNo}, ShowAddRuleModal(rule) PROVE DialogsOk(bx')
  <2>1. bx.shown # BxNone /\ bx' = [bx EXCEPT !.add = TRUE, !.editing = rule]
    BY <1>11 DEF ShowAddRuleModal, Top
  <2>2. QED BY <2>1, <1>0 DEF DialogsOk, DialogFields
<1>12. CASE CancelRule
  BY <1>12, <1>0 DEF CancelRule, HideAddRuleModal, DialogsOk, DialogFields
<1>13. ASSUME NEW slot \in Slots, NEW up \in Limits, SaveRule(slot, up) PROVE DialogsOk(bx')
  <2>1. bx.add /\ bx.cur # BxNone
        /\ bx' = [bx EXCEPT !.saving = [rule |-> bx.editing, mac |-> bx.cur, slot |-> slot, up |-> up]]
    BY <1>13 DEF SaveRule, Top
  <2>2. QED BY <2>1, <1>0 DEF DialogsOk, DialogFields
<1>14. ASSUME NEW what, ShowConfirmDialog(what) PROVE DialogsOk(bx')
  BY <1>14, <1>0 DEF ShowConfirmDialog, DialogsOk, DialogFields
<1>15. CASE Confirm
  BY <1>15, <1>0 DEF Confirm, DialogsOk, DialogFields
<1>16. CASE HideConfirmDialog
  BY <1>16, <1>0 DEF HideConfirmDialog, DialogsOk, DialogFields
<1>17. CASE SaveHostname
  BY <1>17, <1>0 DEF SaveHostname, DialogsOk, DialogFields
<1>18. QED BY <1>1, <1>2, <1>3, <1>4, <1>5, <1>6, <1>7, <1>8, <1>9, <1>10, <1>11, <1>12, <1>13, <1>14,
     <1>15, <1>16, <1>17 DEF BxNext, BxAnswers

(* The four pages of bandix: each part's invariant holds at the start, is  *)
(* kept by that part's steps and is untouched by the others                *)
THEOREM BandixIsTruthful == RouterSpec => []BandixTellsTheTruth
<1> DEFINE Inv == DialogsInv /\ FlowsInv /\ DnsInv /\ WhitelistInv
<1>1. RouterInit => Inv
  <2> SUFFICES ASSUME RouterInit PROVE Inv
    OBVIOUS
  <2>1. DialogsInv
    BY DEF RouterInit, BxInit, DialogsInv, DialogsOk, DialogFields
  <2>2. FlowsInv
    BY DEF RouterInit, ConnectionsInit, NewDialog, NoRows, FlowsInv, FlowsFields, FlowsPageAgrees
  <2>3. DnsInv
    <3>1. DnsInit BY DEF RouterInit
    <3>2. dq.mask = FALSE /\ dq.busy = FALSE /\ dq.reqs = {} /\ dq.overlay = 0
      BY <3>1 DEF DnsInit
    <3>3. DnsFields(dq) BY <3>1, <3>2 DEF DnsInit, DnsFields
    <3>4. dq.page \in 1 .. MaxPages /\ dq.pages \in 0 .. MaxPages
      <4>1. MaxPages \in Nat /\ MaxPages # 0 BY ListsAssumption
      <4>2. dq.page = 1 /\ dq.pages = 0 BY <3>1 DEF DnsInit
      <4>3. QED BY <4>1, <4>2
    <3>5. DnsReadable(dq) BY <3>2, <3>4 DEF DnsReadable
    <3>6. QED BY <3>3, <3>4, <3>5 DEF DnsInv, DnsOk
  <2>4. WhitelistInv
    <3>1. WhitelistInit BY DEF RouterInit
    <3>2. RateKept(0)
      <4>1. PickUnit(0) = <<0, KUnit>> BY DEF PickUnit
      <4>2. 0 * KUnit = 0 BY LimitsAssumption
      <4>3. Round(0, 100) = 0 BY DEF Round
      <4>4. QED BY <4>1, <4>2, <4>3 DEF RateKept, UnitToBytes
    <3>3. ASSUME NEW j \in Operations
          PROVE  OpOk(bw.ops[j]) /\ bw.ops[j].step \in {"over", "badge"} /\ bw.ops[j].age = "fresh"
                 /\ (j = 1 => bw.ops[j].step = "badge")
                 /\ (bw.ops[j].step = "badge" => bw.ops[j].got = Unserved)
      <4>1. bw.ops[j] = IF j = 1 THEN Begun("page", "badge", FALSE) ELSE Over
        BY <3>1 DEF WhitelistInit
      <4>2. QED BY <4>1 DEF Begun, Over, OpOk
    <3>4. WhitelistFields
      <4>1. DOMAIN bw.ops = Operations /\ bw.limit = 0 /\ WhitelistParts \subseteq DOMAIN bw
        BY <3>1 DEF WhitelistInit, WhitelistParts
      <4>2. QED BY <4>1, <3>2, <3>3 DEF WhitelistFields
    <3>5. PartOk("load")
      <4>1. Tells("load") BY <3>1 DEF WhitelistInit, Tells, ListTrue
      <4>2. QED BY <4>1, <3>3 DEF PartOk, FreshOk
    <3>6. PartOk("badge")
      <4>1. 1 \in Operations BY LimitsAssumption DEF Operations
      <4>2. Owed("badge") BY <4>1, <3>3 DEF Owed, OwesOne
      <4>3. QED BY <4>2, <3>3 DEF PartOk, FreshOk
    <3>7. QED BY <3>4, <3>5, <3>6 DEF WhitelistInv
  <2>5. QED BY <2>1, <2>2, <2>3, <2>4
<1>2. Inv /\ [RouterNext]_routerVars => Inv'
  <2> SUFFICES ASSUME Inv, [RouterNext]_routerVars PROVE Inv'
    OBVIOUS
  <2>1. DialogsInv'
    <3>1. UNCHANGED bx \/ BxNext BY DEF RouterNext, routerVars
    <3>2. CASE UNCHANGED bx BY <3>2 DEF DialogsInv
    <3>3. QED BY <3>1, <3>2, DialogsStep
  <2>2. FlowsInv'
    <3>1. UNCHANGED cf \/ ConnectionsNext BY DEF RouterNext, routerVars
    <3>2. CASE UNCHANGED cf BY <3>2 DEF FlowsInv, FlowsPageAgrees
    <3>3. QED BY <3>1, <3>2, FlowsStep
  <2>3. DnsInv'
    <3>1. UNCHANGED dq \/ DnsNext BY DEF RouterNext, routerVars
    <3>2. CASE UNCHANGED dq BY <3>2 DEF DnsInv
    <3>3. QED BY <3>1, <3>2, DnsStep
  <2>4. WhitelistInv'
    <3>1. UNCHANGED bw \/ WhitelistNext BY DEF RouterNext, routerVars
    <3>2. CASE UNCHANGED bw
      BY <3>2 DEF WhitelistInv, WhitelistFields, PartOk, Tells, BadgeTrue, ListTrue, Owed, OwesOne, FreshOk,
                  ServiceSays
    <3>3. QED BY <3>1, <3>2, WhitelistStep
  <2>5. QED BY <2>1, <2>2, <2>3, <2>4
<1>3. Inv => BandixTellsTheTruth
  <2> SUFFICES ASSUME Inv PROVE BandixTellsTheTruth
    OBVIOUS
  <2>1. OwnRulesOnly BY DEF DialogsInv, DialogsOk, OwnRulesOnly
  <2>2. BadgeSettles
    <3>1. Resting => ~Owed("load") /\ ~Owed("badge") BY DEF Resting, Owed, OwesOne
    <3>2. QED BY <3>1 DEF WhitelistInv, PartOk, Tells, BadgeSettles
  <2>3. DnsListReadable
    BY DEF DnsInv, DnsOk, DnsReadable, DnsListReadable
  <2>4. FlowsPageAgrees BY DEF FlowsInv
  <2>5. QED BY <2>1, <2>2, <2>3, <2>4 DEF BandixTellsTheTruth
<1>4. QED BY <1>1, <1>2, <1>3, PTL DEF RouterSpec

----------------------------------------------------------------------------
(* Access to the web interface: the lock of the port field.                *)
PortOk(p) ==
  /\ {"tog", "field", "last", "saving", "old", "modal", "calls", "typed", "pend", "reload"}
       \subseteq DOMAIN p
  /\ p.saving = TRUE => p.calls \cap {"save", "clear"} # {} \/ p.reload = TRUE
PortInv == {"router", "page", "steps"} \subseteq DOMAIN nv /\ PortOk(nv.page)

LEMMA ValidateOk ==
  ASSUME NEW p, PortOk(p)
  PROVE  PortOk(ValidateAndSavePort(p))
<1> SUFFICES ASSUME NEW q, q = ValidateAndSavePort(p) PROVE PortOk(q)
  OBVIOUS
<1>1. CASE q = p BY <1>1
<1>2. CASE q = [p EXCEPT !.field = p.last, !.tog = (p.last # ""), !.modal = "note"]
  BY <1>2 DEF PortOk
<1>3. CASE q = [p EXCEPT !.saving = TRUE, !.old = p.last, !.tog = TRUE, !.modal = "wait",
                         !.calls = @ \cup {"save"}]
  BY <1>3 DEF PortOk
<1>4. QED BY <1>1, <1>2, <1>3 DEF ValidateAndSavePort

LEMMA PortStep == PortInv /\ WebNext => PortInv'
<1> SUFFICES ASSUME PortInv, WebNext PROVE PortInv'
  OBVIOUS
<1>0. {"router", "page", "steps"} \subseteq DOMAIN nv /\ PortOk(nv.page)
  BY DEF PortInv
<1>a. ASSUME NEW p, PortOk(p), Web(p) \/ WebStep(p) PROVE PortInv'
  <2>1. {"router", "page", "steps"} \subseteq DOMAIN nv' /\ nv'.page = p
    BY <1>a, <1>0 DEF Web, WebStep
  <2>2. QED BY <2>1, <1>a DEF PortInv
<1>b. ASSUME NEW p, PortOk(p), NEW r, nv' = [nv EXCEPT !.router = r, !.page = p] PROVE PortInv'
  <2>1. {"router", "page", "steps"} \subseteq DOMAIN nv' /\ nv'.page = p
    BY <1>b, <1>0
  <2>2. QED BY <2>1, <1>b DEF PortInv
<1>1. CASE TypePort
  <2>1. PICK v : WebStep([nv.page EXCEPT !.field = v, !.typed = TRUE])
    BY <1>1 DEF TypePort
  <2>2. PortOk([nv.page EXCEPT !.field = v, !.typed = TRUE])
    BY <1>0 DEF PortOk
  <2>3. QED BY <2>1, <2>2, <1>a
<1>2. CASE PortChanged
  <2> DEFINE p == [nv.page EXCEPT !.typed = FALSE]
  <2>1. PortOk(p) BY <1>0 DEF PortOk
  <2>2. Web(p) \/ Web(ValidateAndSavePort(p)) BY <1>2 DEF PortChanged
  <2> HIDE DEF p
  <2>3. QED BY <2>1, <2>2, <1>a, ValidateOk
<1>3. CASE ToggleWeb
  <2>1. \E t, m : WebStep([nv.page EXCEPT !.tog = t, !.modal = m]) \/ WebStep([nv.page EXCEPT !.tog = t])
    BY <1>3 DEF ToggleWeb
  <2>2. \A t, m : PortOk([nv.page EXCEPT !.tog = t, !.modal = m]) /\ PortOk([nv.page EXCEPT !.tog = t])
    BY <1>0 DEF PortOk
  <2>3. QED BY <2>1, <2>2, <1>a
<1>4. CASE AnswerWebDialog
  <2>1. \/ WebStep([nv.page EXCEPT !.modal = "none", !.pend = nv.page.modal])
        \/ WebStep([nv.page EXCEPT !.modal = "none", !.tog = (nv.page.modal = "off")])
        \/ WebStep([nv.page EXCEPT !.modal = "none"])
    BY <1>4 DEF AnswerWebDialog
  <2>2. PortOk([nv.page EXCEPT !.modal = "none", !.pend = nv.page.modal])
    BY <1>0 DEF PortOk
  <2>3. PortOk([nv.page EXCEPT !.modal = "none", !.tog = (nv.page.modal = "off")])
    BY <1>0 DEF PortOk
  <2>4. PortOk([nv.page EXCEPT !.modal = "none"]) BY <1>0 DEF PortOk
  <2>5. QED BY <2>1, <2>2, <2>3, <2>4, <1>a
<1>5. CASE ProceedWeb
  <2> DEFINE p == [nv.page EXCEPT !.pend = "none"]
             q == [p EXCEPT !.modal = "wait", !.calls = @ \cup {"sync"}]
             c == [p EXCEPT !.saving = TRUE, !.modal = "wait", !.calls = @ \cup {"clear"}]
  <2>1. Web(ValidateAndSavePort(p)) \/ Web(q) \/ Web(c) BY <1>5 DEF ProceedWeb
  <2>2. PortOk(p) BY <1>0 DEF PortOk
  <2>3. PortOk(q) BY <1>0 DEF PortOk
  <2>4. PortOk(c) BY <1>0 DEF PortOk
  <2> HIDE DEF p, q, c
  <2>5. QED BY <2>1, <2>2, <2>3, <2>4, <1>a, ValidateOk
<1>6. CASE SyncAnswers
  <2> DEFINE p == [nv.page EXCEPT !.calls = @ \ {"sync"}]
  <2>1. PortOk(p) BY <1>0 DEF PortOk
  <2>2. CASE Web(p) BY <2>1, <2>2, <1>a
  <2>3. CASE nv' = [nv EXCEPT !.router.v6 = TRUE, !.page = ValidateAndSavePort(p)]
    BY <2>1, <2>3, <1>b, ValidateOk
  <2>4. QED BY <2>2, <2>3, <1>6 DEF SyncAnswers
<1>7. CASE SaveAnswers
  <2> DEFINE p == [nv.page EXCEPT !.calls = @ \ {"save"}]
             v == IF p.field = "" THEN "std" ELSE p.field
             f == [p EXCEPT !.saving = FALSE, !.field = p.old, !.last = p.old, !.modal = "note"]
             g == [p EXCEPT !.last = v, !.reload = TRUE]
  <2>1. \/ Web(RefusedPort(p))
        \/ nv' = [nv EXCEPT !.router = SetAdvWeb(@, v), !.page = g]
        \/ Web(f)
    BY <1>7 DEF SaveAnswers
  <2>2. PortOk(RefusedPort(p)) BY <1>0 DEF PortOk, RefusedPort
  <2>3. PortOk(f) BY <1>0 DEF PortOk
  <2>4. PortOk(g) BY <1>0 DEF PortOk
  <2> HIDE DEF p, v, f, g
  <2>5. QED BY <2>1, <2>2, <2>3, <2>4, <1>a, <1>b
<1>8. CASE ClearAnswers
  <2> DEFINE p == [nv.page EXCEPT !.calls = @ \ {"clear"}, !.reload = TRUE]
             f == [p EXCEPT !.saving = FALSE]
  <2>1. nv' = [nv EXCEPT !.router = SetAdvWeb(@, "off"), !.page = p] \/ Web(f)
    BY <1>8 DEF ClearAnswers
  <2>2. PortOk(p) BY <1>0 DEF PortOk
  <2>3. PortOk(f) BY <1>0 DEF PortOk
  <2> HIDE DEF p, f
  <2>4. QED BY <2>1, <2>2, <2>3, <1>a, <1>b
<1>9. CASE WebReload
  <2>1. PortOk(WebPage(nv.router)) BY DEF PortOk, WebPage
  <2>2. QED BY <2>1, <1>9, <1>a DEF WebReload
<1>10. QED BY <1>1, <1>2, <1>3, <1>4, <1>5, <1>6, <1>7, <1>8, <1>9 DEF WebNext

----------------------------------------------------------------------------
(* The heartbeats of the device list.  Every one has a number of its own,  *)
(* so that a call that starts is a new member of calls.                    *)
Heartbeats == [mac : DevMacs, id : Nat]
BeatFields(s) ==
  /\ {"queue", "active", "calls", "cooling", "sent", "count"} \subseteq DOMAIN s
  /\ s.queue \in Seq(Heartbeats) /\ s.calls \subseteq Heartbeats /\ IsFiniteSet(s.calls)
  /\ s.active \in Nat /\ s.cooling \in Nat /\ s.count \in Nat
  /\ \A c \in s.calls : c.id < s.count
  /\ \A i \in 1 .. Len(s.queue) : s.queue[i].id < s.count
  /\ \A i \in 1 .. Len(s.queue) : s.queue[i] \notin s.calls
  /\ \A i, j \in 1 .. Len(s.queue) : s.queue[i] = s.queue[j] => i = j
BeatSlots(s) == s.active = Cardinality(s.calls) + s.cooling /\ s.active <= MAX_CONCURRENT
BeatsOk(s) ==
  /\ BeatFields(s) /\ BeatSlots(s)
  /\ s.queue # <<>> => s.active = MAX_CONCURRENT
BeatsInv == BeatsOk(nk)

LEMMA SplitFirst ==
  ASSUME NEW S, NEW q \in Seq(S), Len(q) >= 1
  PROVE  /\ SubSeq(q, 1, 1) = <<q[1]>>
         /\ SubSeq(q, 2, Len(q)) \in Seq(S) /\ Len(SubSeq(q, 2, Len(q))) = Len(q) - 1
         /\ \A i \in 1 .. Len(q) - 1 : SubSeq(q, 2, Len(q))[i] = q[i + 1]
<1>0. Len(q) \in Nat
  OBVIOUS
<1>1. Len(SubSeq(q, 1, 1)) = 1 /\ SubSeq(q, 1, 1)[1] = q[1] /\ SubSeq(q, 1, 1) \in Seq(S)
  BY <1>0
<1>2. SubSeq(q, 1, 1) = <<q[1]>>
  <2>1. 1 \in 1 .. Len(q) /\ 1 \in 1 .. 1 BY <1>0
  <2>2. SubSeq(q, 1, 1) = <<q[1]>> \o SubSeq(q, 1 + 1, 1) BY <2>1, SubSeqRecursiveFirst
  <2>3. SubSeq(q, 1 + 1, 1) = <<>> BY SubSeqEmpty
  <2>4. q[1] \in S BY <2>1
  <2>5. <<q[1]>> \in Seq(S) BY <2>4
  <2>6. <<q[1]>> \o <<>> = <<q[1]>> BY <2>5, ConcatEmptySeq
  <2>7. QED BY <2>2, <2>3, <2>6
<1>3. SubSeq(q, 2, Len(q)) \in Seq(S) /\ Len(SubSeq(q, 2, Len(q))) = Len(q) - 1
  <2>1. q # <<>> BY <1>0
  <2>2. SubSeq(q, 2, Len(q)) = Tail(q) BY <2>1, TailIsSubSeq
  <2>3. QED BY <2>1, <2>2, HeadTailProperties
<1>4. \A i \in 1 .. Len(q) - 1 : SubSeq(q, 2, Len(q))[i] = q[i + 1]
  BY <1>0
<1>5. QED BY <1>2, <1>3, <1>4

(* processKeepAliveQueue, when at most one call can start                  *)
LEMMA ProcessQueueOk ==
  ASSUME NEW s, BeatFields(s), BeatSlots(s), Len(s.queue) <= 1 \/ s.active + 1 >= MAX_CONCURRENT
  PROVE  BeatsOk(ProcessKeepAliveQueue(s))
<1> SUFFICES ASSUME NEW t, t = ProcessKeepAliveQueue(s) PROVE BeatsOk(t)
  OBVIOUS
<1> DEFINE free == MAX_CONCURRENT - s.active
           n == IF Len(s.queue) < free THEN Len(s.queue) ELSE free
<1>1. /\ {"queue", "active", "calls", "cooling", "sent", "count"} \subseteq DOMAIN s
      /\ s.queue \in Seq(Heartbeats) /\ s.calls \subseteq Heartbeats /\ IsFiniteSet(s.calls)
      /\ s.active \in Nat /\ s.cooling \in Nat /\ s.count \in Nat
      /\ Len(s.queue) \in Nat /\ MAX_CONCURRENT \in Nat /\ s.active <= MAX_CONCURRENT
  BY NetwizDevicesAssumption DEF BeatFields, BeatSlots
<1>2. n \in {0, 1} /\ n <= Len(s.queue) /\ (n = 0 => s.queue = <<>> \/ s.active = MAX_CONCURRENT)
      /\ (Len(s.queue) > n => s.active + n = MAX_CONCURRENT)
  <2>1. CASE Len(s.queue) < free
    <3>1. n = Len(s.queue) /\ n <= 1 BY <2>1, <1>1
    <3>2. n = 0 => s.queue = <<>> BY <3>1, <1>1
    <3> HIDE DEF n
    <3>3. n \in Nat /\ Len(s.queue) = n /\ n <= 1 BY <3>1, <1>1
    <3>4. n \in {0, 1} BY <3>3
    <3>5. n <= Len(s.queue) /\ ~(Len(s.queue) > n) BY <3>3
    <3>6. QED BY <3>2, <3>4, <3>5
  <2>2. CASE ~(Len(s.queue) < free)
    <3>1. n = free /\ free \in Nat /\ free <= 1 /\ s.active + free = MAX_CONCURRENT
      BY <2>2, <1>1
    <3>2. n \in {0, 1} /\ n <= Len(s.queue) BY <3>1, <2>2, <1>1
    <3>3. n = 0 => s.active = MAX_CONCURRENT BY <3>1, <1>1
    <3>4. QED BY <3>1, <3>2, <3>3
  <2>3. QED BY <2>1, <2>2
<1>3. /\ {"queue", "active", "calls", "cooling", "sent", "count"} \subseteq DOMAIN t
      /\ t.active = s.active + n /\ t.cooling = s.cooling /\ t.count = s.count
      /\ t.calls = s.calls \cup Range(SubSeq(s.queue, 1, n))
      /\ t.queue = SubSeq(s.queue, n + 1, Len(s.queue))
  BY <1>1 DEF ProcessKeepAliveQueue
<1> HIDE DEF n
<1>4. CASE n = 0
  <2>1. SubSeq(s.queue, 1, 0) = <<>> BY <1>1
  <2>2. Range(<< >>) = {} BY DEF Range
  <2>3. SubSeq(s.queue, 1, Len(s.queue)) = s.queue BY <1>1
  <2>4. t.calls = s.calls /\ t.queue = s.queue /\ t.active = s.active
    <3>1. t.calls = s.calls \cup Range(<< >>) BY <1>3, <1>4, <2>1
    <3>2. t.queue = SubSeq(s.queue, 1, Len(s.queue)) /\ t.active = s.active
      BY <1>1, <1>3, <1>4
    <3>3. QED BY <3>1, <3>2, <2>2, <2>3
  <2>5. BeatFields(t) /\ BeatSlots(t) BY <2>4, <1>3 DEF BeatFields, BeatSlots
  <2>6. QED BY <2>4, <2>5, <1>2, <1>4 DEF BeatsOk
<1>5. CASE n = 1
  <2> DEFINE h == s.queue[1]
  <2>1. Len(s.queue) >= 1 /\ h \in Heartbeats /\ h \notin s.calls /\ h.id < s.count
    BY <1>1, <1>2, <1>5 DEF BeatFields
  <2>2. SubSeq(s.queue, 1, 1) = <<h>> BY <1>1, <2>1, SplitFirst
  <2>3. Range(<<h>>) = {h} BY DEF Range
  <2>4. t.calls = s.calls \cup {h} BY <1>3, <1>5, <2>2, <2>3
  <2>5. /\ t.queue \in Seq(Heartbeats) /\ Len(t.queue) = Len(s.queue) - 1
        /\ \A i \in 1 .. Len(t.queue) : t.queue[i] = s.queue[i + 1]
    <3>1. t.queue = SubSeq(s.queue, 2, Len(s.queue)) BY <1>3, <1>5
    <3>2. QED BY <3>1, <1>1, <2>1, SplitFirst
  <2>6. IsFiniteSet(t.calls) /\ Cardinality(t.calls) = Cardinality(s.calls) + 1
    BY <1>1, <2>1, <2>4, FS_AddElement
  <2>7. BeatFields(t)
    <3>1. t.active \in Nat /\ t.cooling \in Nat /\ t.count \in Nat /\ t.calls \subseteq Heartbeats
      BY <1>1, <1>3, <1>5, <2>1, <2>4
    <3>2. \A c \in t.calls : c.id < t.count BY <1>3, <2>1, <2>4 DEF BeatFields
    <3>3. \A i \in 1 .. Len(t.queue) : i + 1 \in 1 .. Len(s.queue) /\ i + 1 # 1
      BY <2>5, <1>1
    <3>4. \A i \in 1 .. Len(t.queue) : t.queue[i].id < t.count
      BY <3>3, <2>5, <1>3 DEF BeatFields
    <3>5. \A i \in 1 .. Len(t.queue) : t.queue[i] \notin t.calls
      <4>1. 1 \in 1 .. Len(s.queue) BY <2>1, <1>1
      <4>2. QED BY <4>1, <3>3, <2>5, <2>4 DEF BeatFields
    <3>6. \A i, j \in 1 .. Len(t.queue) : t.queue[i] = t.queue[j] => i = j
      <4>1. SUFFICES ASSUME NEW i \in 1 .. Len(t.queue), NEW j \in 1 .. Len(t.queue),
                            t.queue[i] = t.queue[j]
                     PROVE  i = j
        OBVIOUS
      <4>2. i + 1 = j + 1 BY <4>1, <3>3, <2>5 DEF BeatFields
      <4>3. QED BY <4>2
    <3>7. QED BY <3>1, <3>2, <3>4, <3>5, <3>6, <2>5, <2>6, <1>3 DEF BeatFields
  <2>8. BeatSlots(t)
    <3>1. Cardinality(s.calls) \in Nat BY <1>1, FS_CardinalityType
    <3>2. s.active < MAX_CONCURRENT BY <1>1, <1>5 DEF n
    <3>3. QED BY <3>1, <3>2, <2>6, <1>1, <1>3, <1>5 DEF BeatSlots
  <2>9. t.queue # <<>> => t.active = MAX_CONCURRENT BY <2>5, <1>1, <1>2, <1>3, <1>5
  <2>10. QED BY <2>7, <2>8, <2>9 DEF BeatsOk
<1>6. QED BY <1>2, <1>4, <1>5

LEMMA BeatsStep == BeatsInv /\ KeepAliveNext => BeatsInv'
<1> SUFFICES ASSUME BeatsInv, KeepAliveNext PROVE BeatsOk(nk')
  BY DEF BeatsInv
<1>0. /\ {"queue", "active", "calls", "cooling", "sent", "count"} \subseteq DOMAIN nk
      /\ nk.queue \in Seq(Heartbeats) /\ nk.calls \subseteq Heartbeats /\ IsFiniteSet(nk.calls)
      /\ nk.active \in Nat /\ nk.cooling \in Nat /\ nk.count \in Nat
      /\ Len(nk.queue) \in Nat /\ MAX_CONCURRENT \in Nat /\ Cardinality(nk.calls) \in Nat
      /\ BeatFields(nk) /\ BeatSlots(nk) /\ (nk.queue # <<>> => nk.active = MAX_CONCURRENT)
  BY NetwizDevicesAssumption, FS_CardinalityType DEF BeatsInv, BeatsOk, BeatFields
<1>1. CASE ForgetHeartbeats
  <2>1. /\ {"queue", "active", "calls", "cooling", "sent", "count"} \subseteq DOMAIN nk'
        /\ nk'.queue = nk.queue /\ nk'.active = nk.active /\ nk'.calls = nk.calls
        /\ nk'.cooling = nk.cooling /\ nk'.count = nk.count
    BY <1>1, <1>0 DEF ForgetHeartbeats
  <2>2. QED BY <2>1, <1>0 DEF BeatsOk, BeatFields, BeatSlots
<1>2. CASE KeepAliveAnswered
  <2>1. PICK c \in nk.calls :
          /\ {"queue", "active", "calls", "cooling", "sent", "count"} \subseteq DOMAIN nk'
          /\ nk'.queue = nk.queue /\ nk'.active = nk.active /\ nk'.calls = nk.calls \ {c}
          /\ nk'.cooling = nk.cooling + 1 /\ nk'.count = nk.count
    BY <1>2, <1>0 DEF KeepAliveAnswered
  <2>2. IsFiniteSet(nk.calls \ {c}) /\ Cardinality(nk.calls \ {c}) = Cardinality(nk.calls) - 1
    BY <1>0, FS_RemoveElement
  <2>3. BeatFields(nk') BY <2>1, <2>2, <1>0 DEF BeatFields
  <2>4. BeatSlots(nk') BY <2>1, <2>2, <1>0 DEF BeatSlots
  <2>5. QED BY <2>1, <2>3, <2>4, <1>0 DEF BeatsOk
<1>3. CASE SlotCools
  <2> DEFINE s == [nk EXCEPT !.cooling = @ - 1, !.active = @ - 1]
  <2>1. nk.cooling > 0 /\ nk' = ProcessKeepAliveQueue(s) BY <1>3 DEF SlotCools
  <2>2. /\ {"queue", "active", "calls", "cooling", "sent", "count"} \subseteq DOMAIN s
        /\ s.queue = nk.queue /\ s.active = nk.active - 1 /\ s.calls = nk.calls
        /\ s.cooling = nk.cooling - 1 /\ s.count = nk.count
    BY <1>0
  <2> HIDE DEF s
  <2>3. nk.active > 0 /\ s.active \in Nat /\ s.cooling \in Nat
    BY <2>1, <2>2, <1>0 DEF BeatSlots
  <2>4. BeatFields(s) BY <2>2, <2>3, <1>0 DEF BeatFields
  <2>5. BeatSlots(s) BY <2>2, <2>3, <1>0 DEF BeatSlots
  <2>6. Len(s.queue) <= 1 \/ s.active + 1 >= MAX_CONCURRENT
    BY <2>2, <1>0
  <2>7. QED BY <2>1, <2>4, <2>5, <2>6, ProcessQueueOk
<1>4. ASSUME NEW m \in DevMacs, TriggerKeepAlive(m) PROVE BeatsOk(nk')
  <2> DEFINE h == [mac |-> m, id |-> nk.count]
             s == [nk EXCEPT !.sent = @ \cup {m}, !.count = @ + 1, !.queue = Append(@, h)]
  <2>1. nk' = ProcessKeepAliveQueue(s) BY <1>4 DEF TriggerKeepAlive
  <2>2. /\ {"queue", "active", "calls", "cooling", "sent", "count"} \subseteq DOMAIN s
        /\ s.queue = Append(nk.queue, h) /\ s.active = nk.active /\ s.calls = nk.calls
        /\ s.cooling = nk.cooling /\ s.count = nk.count + 1
    BY <1>0
  <2>3. h \in Heartbeats /\ h.id = nk.count BY <1>0, <1>4 DEF Heartbeats
  <2> HIDE DEF s, h
  <2>4. /\ s.queue \in Seq(Heartbeats) /\ Len(s.queue) = Len(nk.queue) + 1
        /\ s.queue[Len(nk.queue) + 1] = h
        /\ \A i \in 1 .. Len(nk.queue) : s.queue[i] = nk.queue[i]
    BY <2>2, <2>3, <1>0
  <2>5. \A i \in 1 .. Len(s.queue) : i = Len(nk.queue) + 1 \/ i \in 1 .. Len(nk.queue)
    BY <2>4, <1>0
  <2>6. \A g \in Heartbeats : g.id \in Nat /\ (g.id < nk.count => g.id < nk.count + 1)
    BY <1>0 DEF Heartbeats
  <2>6a. nk.count < nk.count + 1 /\ ~(nk.count < nk.count)
    BY <1>0
  <2>7. BeatFields(s)
    <3>1. \A c \in s.calls : c.id < s.count BY <2>2, <2>6, <1>0 DEF BeatFields
    <3>2. \A i \in 1 .. Len(nk.queue) : nk.queue[i] \in Heartbeats /\ nk.queue[i].id < nk.count
      BY <1>0 DEF BeatFields
    <3>3. \A i \in 1 .. Len(s.queue) : s.queue[i].id < s.count
      BY <3>2, <2>2, <2>3, <2>4, <2>5, <2>6, <2>6a
    <3>4. h \notin nk.calls /\ \A i \in 1 .. Len(nk.queue) : nk.queue[i] # h
      BY <3>2, <2>3, <2>6a, <1>0 DEF BeatFields
    <3>5. \A i \in 1 .. Len(s.queue) : s.queue[i] \notin s.calls
      BY <3>4, <2>2, <2>4, <2>5, <1>0 DEF BeatFields
    <3>6. \A i, j \in 1 .. Len(s.queue) : s.queue[i] = s.queue[j] => i = j
      BY <3>4, <2>4, <2>5, <1>0 DEF BeatFields
    <3>7. s.active \in Nat /\ s.cooling \in Nat /\ s.count \in Nat
      BY <2>2, <1>0
    <3>8. QED BY <3>1, <3>3, <3>5, <3>6, <3>7, <2>2, <2>4, <1>0 DEF BeatFields
  <2>8. BeatSlots(s) BY <2>2, <1>0 DEF BeatSlots
  <2>9. Len(s.queue) <= 1 \/ s.active + 1 >= MAX_CONCURRENT
    BY <2>2, <2>4, <1>0
  <2>10. QED BY <2>1, <2>7, <2>8, <2>9, ProcessQueueOk
<1>5. QED BY <1>1, <1>2, <1>3, <1>4 DEF KeepAliveNext

(* The port field never stays locked without an answer or a reload to      *)
(* come, and no heartbeat waits while a slot is free, whatever the number  *)
(* of slots, of devices and of heartbeats                                  *)
THEOREM NetwizMovesOn == RouterSpec => []NetwizNeverStuck
<1>1. RouterInit => PortInv /\ BeatsInv
  <2> SUFFICES ASSUME RouterInit PROVE PortInv /\ BeatsInv
    OBVIOUS
  <2>1. PICK r : nv = [router |-> r, page |-> WebPage(r), steps |-> 0]
    BY DEF RouterInit, WebInit
  <2>2. PortOk(WebPage(r)) BY DEF PortOk, WebPage
  <2>3. PortInv BY <2>1, <2>2 DEF PortInv
  <2>4. nk = [queue |-> <<>>, active |-> 0, calls |-> {}, cooling |-> 0, sent |-> {}, count |-> 0]
    BY DEF RouterInit, KeepAliveInit
  <2>5. BeatFields(nk) BY <2>4, FS_EmptySet DEF BeatFields
  <2>6. BeatSlots(nk)
    BY <2>4, FS_EmptySet, NetwizDevicesAssumption DEF BeatSlots
  <2>7. QED BY <2>3, <2>4, <2>5, <2>6 DEF BeatsInv, BeatsOk
<1>2. PortInv /\ BeatsInv /\ [RouterNext]_routerVars => PortInv' /\ BeatsInv'
  <2> SUFFICES ASSUME PortInv, BeatsInv, [RouterNext]_routerVars PROVE PortInv' /\ BeatsInv'
    OBVIOUS
  <2>1. (UNCHANGED nv \/ WebNext) /\ (UNCHANGED nk \/ KeepAliveNext)
    BY DEF RouterNext, routerVars
  <2>2. UNCHANGED nv => PortInv' BY DEF PortInv
  <2>3. UNCHANGED nk => BeatsInv' BY DEF BeatsInv
  <2>4. QED BY <2>1, <2>2, <2>3, PortStep, BeatsStep
<1>3. PortInv /\ BeatsInv => NetwizNeverStuck
  BY DEF PortInv, PortOk, BeatsInv, BeatsOk, BeatSlots, NetwizNeverStuck, PortLockReleased,
         KeepAliveFlows
<1>4. QED BY <1>1, <1>2, <1>3, PTL DEF RouterSpec

----------------------------------------------------------------------------
(* The Wi-Fi form.  Whatever the fields do to each other, an edit stays in *)
(* the form and sends nothing; the form is left through the checks only.   *)
WifiFields == {"radios", "net", "smart", "legacy", "tab", "wisp", "force", "orig", "step", "agreed",
               "sent", "edits", "late", "stored"}
NetFields == {"en", "ssid", "key", "enc", "roam", "dirty"}
NetsOk(net) == NwNets \subseteq DOMAIN net /\ \A n \in NwNets : NetFields \subseteq DOMAIN net[n]
WifiShape(w) == WifiFields \subseteq DOMAIN w /\ NetsOk(w.net)
(* v is w with other fields of the networks                                *)
WifiKeeps(w, v) == WifiShape(v) /\ v.step = w.step /\ v.sent = w.sent

(* Writing one network                                                     *)
LEMMA NetSet ==
  ASSUME NEW net, NetsOk(net), NEW n \in NwNets, NEW t, NetFields \subseteq DOMAIN t
  PROVE  /\ NetsOk([net EXCEPT ![n] = t])
         /\ [net EXCEPT ![n] = t][n] = t
         /\ \A k \in NwNets : k # n => [net EXCEPT ![n] = t][k] = net[k]
BY DEF NetsOk

LEMMA RoamKeeps ==
  ASSUME NEW w, WifiShape(w), NEW n \in NwNets, NEW on
  PROVE  WifiKeeps(w, RoamChange(w, n, on))
<1> DEFINE t == [w.net[n] EXCEPT !.roam = on, !.dirty = FALSE,
                                 !.enc = IF on /\ @ = "none" THEN "psk" ELSE @]
<1> SUFFICES ASSUME NEW v, v = RoamChange(w, n, on) PROVE WifiKeeps(w, v)
  OBVIOUS
<1>1. WifiFields \subseteq DOMAIN v /\ v.step = w.step /\ v.sent = w.sent
  BY DEF RoamChange, WifiShape, WifiFields
<1>2. PICK x, y, z : v.net = [w.net EXCEPT ![n].roam = x, ![n].dirty = y, ![n].enc = z]
  BY ZenonT(60) DEF RoamChange, WifiShape, WifiFields
<1> DEFINE r == [w.net EXCEPT ![n].roam = x]
           d == [r EXCEPT ![n].dirty = y]
<1>3. NetsOk(r)
  <2>1. NetFields \subseteq DOMAIN [w.net[n] EXCEPT !.roam = x]
    BY DEF WifiShape, NetsOk
  <2>2. QED BY <2>1, NetSet DEF WifiShape
<1> HIDE DEF r
<1>4. NetsOk(d)
  <2>1. NetFields \subseteq DOMAIN [r[n] EXCEPT !.dirty = y]
    BY <1>3 DEF NetsOk
  <2>2. QED BY <2>1, <1>3, NetSet
<1>5. v.net = [d EXCEPT ![n].enc = z] BY <1>2 DEF r
<1> HIDE DEF d
<1>6. NetsOk(v.net)
  <2>1. NetFields \subseteq DOMAIN [d[n] EXCEPT !.enc = z] BY <1>4 DEF NetsOk
  <2>2. NetsOk([d EXCEPT ![n].enc = z]) BY <2>1, <1>4, NetSet
  <2>3. QED BY <2>2, <1>5
<1>7. QED BY <1>1, <1>6 DEF WifiKeeps, WifiShape

LEMMA TabKeeps ==
  ASSUME NEW w, WifiShape(w), NEW b \in NwBands
  PROVE  /\ WifiKeeps(w, TabClick(w, b))
         /\ TabClick(w, b).smart = w.smart /\ TabClick(w, b).radios = w.radios
         /\ TabClick(w, b).agreed = w.agreed
         /\ \A n \in NwNets :
              LET p == w.net[n]
                  q == TabClick(w, b).net[n]
              IN  /\ q.en = p.en /\ q.enc = p.enc
                  /\ p.ssid # NoSsid => q.ssid # NoSsid
                  /\ p.key # "" => q.key = p.key
<1> DEFINE o == IF b = "2g" THEN "5g" ELSE "2g"
           t == [w EXCEPT !.tab = b]
           name == SmartConvertSsid(w.net[o].ssid, b)
           u == [w EXCEPT !.tab = b, !.net[b].ssid = name,
                          !.net[b].key = IF @ = "" THEN w.net[o].key ELSE @]
<1>0. WifiFields \subseteq DOMAIN w /\ NetsOk(w.net) /\ b \in NwNets
  BY DEF WifiShape, NwNets
<1> SUFFICES ASSUME NEW v, v = TabClick(w, b)
             PROVE  /\ WifiKeeps(w, v)
                    /\ v.smart = w.smart /\ v.radios = w.radios /\ v.agreed = w.agreed
                    /\ \A n \in NwNets :
                         /\ v.net[n].en = w.net[n].en /\ v.net[n].enc = w.net[n].enc
                         /\ w.net[n].ssid # NoSsid => v.net[n].ssid # NoSsid
                         /\ w.net[n].key # "" => v.net[n].key = w.net[n].key
  OBVIOUS
<1>1. v = t \/ v = u BY DEF TabClick
<1>2. CASE v = t
  <2>1. WifiFields \subseteq DOMAIN v /\ v.net = w.net /\ v.step = w.step /\ v.sent = w.sent
    BY <1>0, <1>2 DEF WifiFields
  <2>2. v.smart = w.smart /\ v.radios = w.radios /\ v.agreed = w.agreed
    BY <1>0, <1>2 DEF WifiFields
  <2>3. QED BY <2>1, <2>2, <1>0 DEF WifiKeeps, WifiShape
<1>3. CASE v = u
  <2> HIDE DEF name
  <2>1. WifiFields \subseteq DOMAIN v /\ v.step = w.step /\ v.sent = w.sent
    BY <1>0, <1>3 DEF WifiFields
  <2>2. v.smart = w.smart /\ v.radios = w.radios /\ v.agreed = w.agreed
    BY <1>0, <1>3 DEF WifiFields
  <2> DEFINE m == [w.net EXCEPT ![b].ssid = name]
             k == IF m[b].key = "" THEN w.net[o].key ELSE m[b].key
             p == w.net[b]
  <2>3. NetsOk(m) /\ m[b] = [p EXCEPT !.ssid = name] /\ \A n \in NwNets : n # b => m[n] = w.net[n]
    <3>1. NetFields \subseteq DOMAIN [p EXCEPT !.ssid = name]
      BY <1>0 DEF NetsOk
    <3>2. QED BY <3>1, <1>0, NetSet
  <2>4. v.net = [m EXCEPT ![b].key = k] BY <1>0, <1>3 DEF WifiFields
  <2> HIDE DEF m, k
  <2>5. /\ NetsOk([m EXCEPT ![b].key = k]) /\ [m EXCEPT ![b].key = k][b] = [m[b] EXCEPT !.key = k]
        /\ \A n \in NwNets : n # b => [m EXCEPT ![b].key = k][n] = m[n]
    <3> DEFINE z == [m[b] EXCEPT !.key = k]
    <3>1. NetFields \subseteq DOMAIN z BY <1>0, <2>3 DEF NetsOk
    <3>2. NetsOk(m) /\ b \in NwNets BY <1>0, <2>3
    <3> HIDE DEF z
    <3>3. /\ NetsOk([m EXCEPT ![b] = z]) /\ [m EXCEPT ![b] = z][b] = z
          /\ \A n \in NwNets : n # b => [m EXCEPT ![b] = z][n] = m[n]
      BY <3>1, <3>2, NetSet
    <3>4. QED BY <3>3 DEF z
  <2>6. name # NoSsid BY DEF name, SmartConvertSsid, NoSsid, NwBands
  <2>7. v.net[b] = [[p EXCEPT !.ssid = name] EXCEPT !.key = k] /\ NetFields \subseteq DOMAIN p
    BY <2>3, <2>4, <2>5, <1>0 DEF NetsOk
  <2>8. /\ v.net[b].enc = p.enc /\ v.net[b].ssid = name
        /\ (p.key # "" => v.net[b].key = p.key)
    <3>1. p.key # "" => k = p.key BY <2>3, <2>7 DEF k, NetFields
    <3>2. QED BY <2>7, <3>1 DEF NetFields
  <2>8a. v.net[b].en = p.en
    BY <2>7 DEF NetFields
  <2>9. WifiKeeps(w, v) BY <2>1, <2>4, <2>5 DEF WifiKeeps, WifiShape
  <2>10. QED BY <2>2, <2>3, <2>4, <2>5, <2>6, <2>8, <2>8a, <2>9, ZenonT(60)
<1>4. QED BY <1>1, <1>2, <1>3

(* What an edit is made of: fields of one network, then fields of the form *)
LEMMA FieldKeeps ==
  ASSUME NEW w, WifiShape(w), NEW n \in NwNets, NEW x
  PROVE  /\ WifiKeeps(w, [w EXCEPT !.net[n].en = x])
         /\ WifiKeeps(w, [w EXCEPT !.net[n].ssid = x])
         /\ WifiKeeps(w, [w EXCEPT !.net[n].key = x])
         /\ WifiKeeps(w, [w EXCEPT !.net[n].enc = x])
         /\ WifiKeeps(w, [w EXCEPT !.net[n].roam = x])
         /\ WifiKeeps(w, [w EXCEPT !.net[n].dirty = x])
<1>0. WifiFields \subseteq DOMAIN w /\ NetsOk(w.net) /\ NetFields \subseteq DOMAIN w.net[n]
  BY DEF WifiShape, NetsOk
<1>1. ASSUME NEW t, NetFields \subseteq DOMAIN t PROVE WifiKeeps(w, [w EXCEPT !.net[n] = t])
  <2>1. NetsOk([w.net EXCEPT ![n] = t]) BY <1>0, <1>1, NetSet
  <2> DEFINE m == [w.net EXCEPT ![n] = t]
  <2> HIDE DEF m
  <2>2. NetsOk(m) => WifiKeeps(w, [w EXCEPT !.net = m])
    BY <1>0 DEF WifiKeeps, WifiShape, WifiFields
  <2>3. QED BY <2>1, <2>2 DEF m
<1>2. WifiKeeps(w, [w EXCEPT !.net[n].en = x])
  <2>1. NetFields \subseteq DOMAIN [w.net[n] EXCEPT !.en = x]
    BY <1>0
  <2>2. QED BY <2>1, <1>1
<1>3. WifiKeeps(w, [w EXCEPT !.net[n].ssid = x])
  <2>1. NetFields \subseteq DOMAIN [w.net[n] EXCEPT !.ssid = x]
    BY <1>0
  <2>2. QED BY <2>1, <1>1
<1>4. WifiKeeps(w, [w EXCEPT !.net[n].key = x])
  <2>1. NetFields \subseteq DOMAIN [w.net[n] EXCEPT !.key = x]
    BY <1>0
  <2>2. QED BY <2>1, <1>1
<1>5. WifiKeeps(w, [w EXCEPT !.net[n].enc = x])
  <2>1. NetFields \subseteq DOMAIN [w.net[n] EXCEPT !.enc = x]
    BY <1>0
  <2>2. QED BY <2>1, <1>1
<1>6. WifiKeeps(w, [w EXCEPT !.net[n].roam = x])
  <2>1. NetFields \subseteq DOMAIN [w.net[n] EXCEPT !.roam = x]
    BY <1>0
  <2>2. QED BY <2>1, <1>1
<1>7. WifiKeeps(w, [w EXCEPT !.net[n].dirty = x])
  <2>1. NetFields \subseteq DOMAIN [w.net[n] EXCEPT !.dirty = x]
    BY <1>0
  <2>2. QED BY <2>1, <1>1
<1>8. QED BY <1>2, <1>3, <1>4, <1>5, <1>6, <1>7

LEMMA FormKeeps ==
  ASSUME NEW w, WifiShape(w), NEW x
  PROVE  /\ WifiKeeps(w, [w EXCEPT !.smart = x]) /\ WifiKeeps(w, [w EXCEPT !.legacy = x])
         /\ WifiKeeps(w, [w EXCEPT !.tab = x]) /\ WifiKeeps(w, [w EXCEPT !.force = x])
         /\ WifiKeeps(w, w) /\ (NetsOk(x) => WifiKeeps(w, [w EXCEPT !.net = x]))
BY DEF WifiKeeps, WifiShape, WifiFields

LEMMA KeepsTwice ==
  ASSUME NEW w, NEW v, NEW u, WifiKeeps(w, v), WifiKeeps(v, u)
  PROVE  WifiKeeps(w, u)
BY DEF WifiKeeps

LEMMA KeepsShape ==
  ASSUME NEW w, NEW v, WifiKeeps(w, v)
  PROVE  WifiShape(v)
BY DEF WifiKeeps

LEMMA JumpKeeps ==
  ASSUME NEW w, WifiShape(w), NEW a \in NwBands, NEW b \in NwBands, NEW c \in NwBands, NEW d \in NwBands
  PROVE  WifiKeeps(w, JumpTo(w, a, b, c, d))
<1>1. (IF w.net[a].en THEN a ELSE IF w.net[b].en THEN b ELSE IF w.net[c].en THEN c ELSE d) \in NwBands
  OBVIOUS
<1>2. QED BY <1>1, TabKeeps DEF JumpTo

LEMMA TakeOverKeeps ==
  ASSUME NEW w, WifiShape(w), NEW b \in NwBands, NEW o \in NwBands, NEW named
  PROVE  WifiKeeps(w, TakeOver(w, b, o, named))
<1> DEFINE v == [w EXCEPT !.net[o].en = FALSE]
           s == SmartConvertSsid(w.net[o].ssid, b)
           x == [v EXCEPT !.net[b].ssid = s]
           k == IF v.net[b].key = "" THEN w.net[o].key ELSE v.net[b].key
           y == [x EXCEPT !.net[b].key = k]
           z == [y EXCEPT !.net[b].enc = w.net[o].enc]
<1>0. b \in NwNets /\ o \in NwNets BY DEF NwNets
<1>1. WifiKeeps(w, v) /\ WifiKeeps(w, w) BY <1>0, FieldKeeps, FormKeeps
<1>2. TakeOver(w, b, o, named) = w \/ TakeOver(w, b, o, named) = v
      \/ TakeOver(w, b, o, named) = z
  BY DEF TakeOver
<1> HIDE DEF v, s, k
<1>3. WifiKeeps(v, x) BY <1>0, <1>1, FieldKeeps, KeepsShape
<1> HIDE DEF x
<1>4. WifiKeeps(x, y) BY <1>0, <1>3, FieldKeeps, KeepsShape
<1> HIDE DEF y
<1>5. WifiKeeps(y, z) BY <1>0, <1>4, FieldKeeps, KeepsShape
<1> HIDE DEF z
<1>6. WifiKeeps(w, z) BY <1>1, <1>3, <1>4, <1>5, KeepsTwice
<1>7. QED BY <1>1, <1>2, <1>6

LEMMA EnableKeeps ==
  ASSUME NEW w, WifiShape(w), NEW on
  PROVE  WifiKeeps(w, Enable2g(w, on)) /\ WifiKeeps(w, Enable5g(w, on))
         /\ WifiKeeps(w, Enable5g2(w, on))
<1>0. NwBands \subseteq NwNets /\ "2g" \in NwBands /\ "5g" \in NwBands /\ "5g2" \in NwBands
  BY DEF NwNets, NwBands
<1>a. ASSUME NEW v, WifiShape(v), NEW x, NEW y
      PROVE  WifiKeeps(v, [v EXCEPT !.net["5g2"].ssid = x, !.net["5g2"].key = y])
  <2> DEFINE u == [v EXCEPT !.net["5g2"].ssid = x]
             t == [u EXCEPT !.net["5g2"].key = y]
  <2>1. WifiKeeps(v, u) BY <1>a, <1>0, FieldKeeps
  <2> HIDE DEF u
  <2>2. WifiKeeps(u, t) BY <2>1, <1>0, FieldKeeps, KeepsShape
  <2> HIDE DEF t
  <2>3. WifiKeeps(v, t) BY <2>1, <2>2, KeepsTwice
  <2>4. QED BY <2>3 DEF t, u
<1>1. WifiKeeps(w, Enable2g(w, on))
  <2> DEFINE e == [w EXCEPT !.net["2g"].en = on]
             r == RoamChange(e, "2g", FALSE)
             t == JumpTo(r, "2g", "5g", "5g2", "2g")
             n == t.net["2g"].ssid = t.net["5g"].ssid
  <2>1. WifiKeeps(w, e) BY <1>0, FieldKeeps
  <2>2. Enable2g(w, on) = TakeOver(t, "2g", "5g", n) BY DEF Enable2g
  <2> HIDE DEF e
  <2>3. WifiKeeps(e, r) BY <2>1, <1>0, RoamKeeps, KeepsShape
  <2> HIDE DEF r
  <2>4. WifiKeeps(r, t) BY <2>3, <1>0, JumpKeeps, KeepsShape
  <2> HIDE DEF t
  <2>5. WifiKeeps(t, TakeOver(t, "2g", "5g", n)) BY <2>4, <1>0, TakeOverKeeps, KeepsShape
  <2> HIDE DEF n
  <2>6. QED BY <2>1, <2>2, <2>3, <2>4, <2>5, KeepsTwice
<1>2. WifiKeeps(w, Enable5g(w, on))
  <2> DEFINE e == [w EXCEPT !.net["5g"].en = on]
             r == RoamChange(e, "5g", on)
             t == JumpTo(r, "5g", "2g", "5g2", "5g")
             n == CleanSsidSuffix(t.net["5g"].ssid) = CleanSsidSuffix(t.net["2g"].ssid)
             v == TakeOver(t, "5g", "2g", n)
             x == SmartConvertSsid(v.net["5g"].ssid, "5g2")
             y == IF v.net["5g2"].key = "" THEN v.net["5g"].key ELSE v.net["5g2"].key
             z == [v EXCEPT !.net["5g2"].ssid = x, !.net["5g2"].key = y]
  <2>1. WifiKeeps(w, e) BY <1>0, FieldKeeps
  <2>2. Enable5g(w, on) = v \/ Enable5g(w, on) = z BY DEF Enable5g
  <2> HIDE DEF e
  <2>3. WifiKeeps(e, r) BY <2>1, <1>0, RoamKeeps, KeepsShape
  <2> HIDE DEF r
  <2>4. WifiKeeps(r, t) BY <2>3, <1>0, JumpKeeps, KeepsShape
  <2> HIDE DEF t, n
  <2>5. WifiKeeps(t, v) BY <2>4, <1>0, TakeOverKeeps, KeepsShape
  <2> HIDE DEF v, x, y
  <2>6. WifiKeeps(v, z) BY <2>5, <1>a, KeepsShape
  <2> HIDE DEF z
  <2>7. WifiKeeps(w, v) BY <2>1, <2>3, <2>4, <2>5, KeepsTwice
  <2>8. WifiKeeps(w, z) BY <2>6, <2>7, KeepsTwice
  <2>9. QED BY <2>2, <2>7, <2>8
<1>3. WifiKeeps(w, Enable5g2(w, on))
  <2> DEFINE e == [w EXCEPT !.net["5g2"].en = on]
             t == JumpTo(e, "5g2", "2g", "5g", "5g2")
             ref == IF t.net["5g"].ssid # NoSsid THEN t.net["5g"].ssid ELSE t.net["2g"].ssid
             key == IF t.net["5g"].key # "" THEN t.net["5g"].key ELSE t.net["2g"].key
             x == SmartConvertSsid(ref, "5g2")
             y == IF t.net["5g2"].key = "" THEN key ELSE t.net["5g2"].key
             z == [t EXCEPT !.net["5g2"].ssid = x, !.net["5g2"].key = y]
  <2>1. WifiKeeps(w, e) BY <1>0, FieldKeeps
  <2>2. Enable5g2(w, on) = t \/ Enable5g2(w, on) = z BY DEF Enable5g2
  <2> HIDE DEF e
  <2>3. WifiKeeps(e, t) BY <2>1, <1>0, JumpKeeps, KeepsShape
  <2> HIDE DEF t, ref, key, x, y
  <2>4. WifiKeeps(t, z) BY <2>3, <1>a, KeepsShape
  <2> HIDE DEF z
  <2>5. WifiKeeps(w, t) BY <2>1, <2>3, KeepsTwice
  <2>6. WifiKeeps(w, z) BY <2>4, <2>5, KeepsTwice
  <2>7. QED BY <2>2, <2>5, <2>6
<1>4. QED BY <1>1, <1>2, <1>3

LEMMA SmartKeeps ==
  ASSUME NEW w, WifiShape(w), NEW on, NEW trusted
  PROVE  WifiKeeps(w, SmartChange(w, on, trusted))
<1> DEFINE v == [w EXCEPT !.smart = on]
           pick == IF w.net["5g"].en \/ ~w.net["2g"].en THEN "5g" ELSE "2g"
           p == w.net[pick]
           name == <<CleanSsidSuffix(p.ssid), "none">>
           m1 == [v EXCEPT !.net["smart"].ssid = name]
           m2 == [m1 EXCEPT !.net["smart"].key = p.key]
           m3 == [m2 EXCEPT !.net["smart"].enc = p.enc]
           m == IF p.ssid = NoSsid THEN v ELSE m3
           base == w.net["smart"]
           nets == [n \in NwNets |-> IF n = "smart" THEN v.net[n]
                      ELSE [v.net[n] EXCEPT !.ssid = SmartConvertSsid(base.ssid, n),
                                            !.key = base.key, !.enc = base.enc]]
           split == [v EXCEPT !.net = nets]
           r1 == RoamChange(split, "2g", FALSE)
           r2 == RoamChange(r1, "5g", TRUE)
<1>0. "smart" \in NwNets /\ NwBands \subseteq NwNets /\ {"2g", "5g", "5g2"} \subseteq NwBands
  BY DEF NwNets, NwBands
<1>1. SmartChange(w, on, trusted) \in
        {RoamChange(m, "smart", TRUE), v, JumpTo(r2, "2g", "5g", "5g2", "2g"),
         JumpTo(v, "2g", "5g", "5g2", "2g")}
  BY DEF SmartChange
<1>2. WifiKeeps(w, v) /\ v.net = w.net BY FormKeeps DEF WifiShape, WifiFields
<1>3. NetsOk(nets) BY <1>2 DEF NetsOk, NetFields, WifiShape
<1> HIDE DEF v, name, nets
<1>4. WifiKeeps(v, m1) BY <1>0, <1>2, FieldKeeps, KeepsShape
<1> HIDE DEF m1
<1>5. WifiKeeps(m1, m2) BY <1>0, <1>4, FieldKeeps, KeepsShape
<1> HIDE DEF m2
<1>6. WifiKeeps(m2, m3) BY <1>0, <1>5, FieldKeeps, KeepsShape
<1> HIDE DEF m3
<1>7. WifiKeeps(w, m) BY <1>2, <1>4, <1>5, <1>6, KeepsTwice
<1> HIDE DEF m
<1>8. WifiKeeps(w, RoamChange(m, "smart", TRUE))
  BY <1>0, <1>7, RoamKeeps, KeepsShape, KeepsTwice
<1>9. WifiKeeps(v, split) BY <1>2, <1>3, FormKeeps, KeepsShape
<1> HIDE DEF split
<1>10. WifiKeeps(split, r1) BY <1>0, <1>9, RoamKeeps, KeepsShape
<1> HIDE DEF r1
<1>11. WifiKeeps(r1, r2) BY <1>0, <1>10, RoamKeeps, KeepsShape
<1> HIDE DEF r2
<1>12. WifiKeeps(r2, JumpTo(r2, "2g", "5g", "5g2", "2g"))
  BY <1>0, <1>11, JumpKeeps, KeepsShape
<1>13. WifiKeeps(w, JumpTo(r2, "2g", "5g", "5g2", "2g"))
  BY <1>2, <1>9, <1>10, <1>11, <1>12, KeepsTwice
<1>14. WifiKeeps(w, JumpTo(v, "2g", "5g", "5g2", "2g"))
  BY <1>0, <1>2, JumpKeeps, KeepsShape, KeepsTwice
<1>15. QED BY <1>1, <1>2, <1>8, <1>13, <1>14

LEMMA TypingKeeps ==
  ASSUME NEW w, WifiShape(w), NEW n \in NwNets, NEW x
  PROVE  WifiKeeps(w, TypeKey(w, n, x)) /\ WifiKeeps(w, ChooseEnc(w, n, x))
<1>1. WifiKeeps(w, TypeKey(w, n, x))
  <2> DEFINE k == [w EXCEPT !.net[n].key = x]
             c == CASE x # "" /\ w.net[n].enc = "none" /\ n # "5g2" -> "psk"
                    [] x = "" /\ n # "5g2" -> "none"
                    [] OTHER -> w.net[n].enc
             t == [k EXCEPT !.net[n].enc = c]
  <2>1. TypeKey(w, n, x) = t BY DEF TypeKey
  <2> HIDE DEF c
  <2>2. WifiKeeps(w, k) BY FieldKeeps
  <2> HIDE DEF k
  <2>3. WifiKeeps(k, t) BY <2>2, FieldKeeps, KeepsShape
  <2> HIDE DEF t
  <2>4. QED BY <2>1, <2>2, <2>3, KeepsTwice
<1>2. WifiKeeps(w, ChooseEnc(w, n, x))
  <2> DEFINE k == [w EXCEPT !.net[n].enc = x]
             c == IF x = "none" THEN "" ELSE w.net[n].key
             t == [k EXCEPT !.net[n].key = c]
  <2>1. ChooseEnc(w, n, x) = t BY DEF ChooseEnc
  <2> HIDE DEF c
  <2>2. WifiKeeps(w, k) BY FieldKeeps
  <2> HIDE DEF k
  <2>3. WifiKeeps(k, t) BY <2>2, FieldKeeps, KeepsShape
  <2> HIDE DEF t
  <2>4. QED BY <2>1, <2>2, <2>3, KeepsTwice
<1>3. QED BY <1>1, <1>2

(* Whatever the radios hold, loading fills a form                          *)
LEMMA LoadShape ==
  ASSUME NEW radios, NEW s2, NEW s5, NEW s52
  PROVE  LET v == LoadWifi(radios, s2, s5, s52)
         IN  WifiShape(v) /\ v.step = "form" /\ v.sent = {}
<1> DEFINE w == Blank(radios)
           single == IF radios = "single5g" THEN LoadSingle(radios, s5, s2) ELSE LoadSingle(radios, s2, s5)
           multi == LoadMulti(s2, s5, s52)
           one == [w EXCEPT !.net = single, !.late = TRUE]
           many == [w EXCEPT !.net = multi]
           more == SmartChange(many, IsSmartStore(s2, s5), FALSE)
           filled == IF Single(w) THEN one ELSE more
<1>1. WifiShape(w) /\ w.step = "form" /\ w.sent = {}
  BY DEF Blank, WifiShape, WifiFields, NetsOk, NetFields, Untouched, NoNet
<1>2. NetsOk(single) /\ NetsOk(multi)
  BY DEF LoadSingle, LoadMulti, SyncRoam, Filled, Untouched, NoNet, NetsOk, NetFields
<1> HIDE DEF w, single, multi
<1>3. WifiShape(one) /\ one.step = "form" /\ one.sent = {}
  BY <1>1, <1>2 DEF WifiShape, WifiFields
<1>4. WifiKeeps(w, many) BY <1>1, <1>2, FormKeeps
<1> HIDE DEF many, one
<1>5. WifiKeeps(many, more) BY <1>4, SmartKeeps, KeepsShape
<1> HIDE DEF more
<1>6. WifiShape(filled) /\ filled.step = "form" /\ filled.sent = {}
  BY <1>1, <1>3, <1>4, <1>5 DEF WifiKeeps
<1>7. PICK x, y : LoadWifi(radios, s2, s5, s52) = [[filled EXCEPT !.stored = x] EXCEPT !.orig = y]
  BY DEF LoadWifi, w, single, multi, one, many, more
<1> HIDE DEF filled
<1>8. ASSUME NEW v, v = [[filled EXCEPT !.stored = x] EXCEPT !.orig = y]
      PROVE  WifiShape(v) /\ v.step = "form" /\ v.sent = {}
  <2>1. v.net = filled.net /\ v.step = filled.step /\ v.sent = filled.sent
    BY <1>6, <1>8 DEF WifiShape, WifiFields
  <2>2. WifiFields \subseteq DOMAIN v BY <1>6, <1>8 DEF WifiShape
  <2>3. QED BY <1>6, <2>1, <2>2 DEF WifiShape
<1>9. QED BY <1>7, <1>8

LEMMA EditKeeps ==
  ASSUME WifiShape(nf), WifiEdit \/ WispEdit
  PROVE  \E w : WifiKeeps(nf, w) /\ Retyped(w)
<1>0. NwBands \subseteq NwNets /\ {"2g", "5g", "5g2"} \subseteq NwBands /\ "smart" \in NwNets
  BY DEF NwNets, NwBands
<1>a. ASSUME NEW x, Retyped([nf EXCEPT !.wisp = x]) PROVE \E w : WifiKeeps(nf, w) /\ Retyped(w)
  BY <1>a DEF WifiKeeps, WifiShape, WifiFields
<1>1. CASE WispEdit
  <2>1. CASE Retyped([nf EXCEPT !.wisp.on = ~@]) BY <2>1, <1>a
  <2>2. CASE \E s \in TypedNames, e \in NwEncs :
               Retyped([nf EXCEPT !.wisp.ssid = s, !.wisp.enc = e,
                                 !.wisp.key = IF e = "none" THEN "" ELSE @])
    <3>1. PICK s, e : Retyped([nf EXCEPT !.wisp.ssid = s, !.wisp.enc = e,
                                        !.wisp.key = IF e = "none" THEN "" ELSE @])
      BY <2>2
    <3> DEFINE v == [nf EXCEPT !.wisp.ssid = s, !.wisp.enc = e,
                               !.wisp.key = IF e = "none" THEN "" ELSE @]
    <3>2. WifiKeeps(nf, v) BY DEF WifiKeeps, WifiShape, WifiFields
    <3>3. Retyped(v) BY <3>1
    <3>4. QED
      <4> HIDE DEF v
      <4>1. QED BY <3>2, <3>3
  <2>3. CASE \E k \in NwKeys : Retyped([nf EXCEPT !.wisp.key = k])
    BY <2>3, <1>a
  <2>4. QED BY <1>1, <2>1, <2>2, <2>3 DEF WispEdit
<1>2. CASE WifiEdit
  <2>1. \/ \E n \in NwNets, k \in NwKeys : Retyped(TypeKey(nf, n, k))
        \/ \E n \in NwNets, e \in NwEncs : Retyped(ChooseEnc(nf, n, e))
        \/ \E n \in NwNets, s \in TypedNames \cup {NoSsid} : Retyped([nf EXCEPT !.net[n].ssid = s])
        \/ \E n \in NwNets : Retyped(RoamChange(nf, n, ~nf.net[n].roam))
        \/ Retyped([nf EXCEPT !.net["smart"].en = ~@])
        \/ Retyped(Enable2g(nf, ~nf.net["2g"].en))
        \/ Retyped(Enable5g(nf, ~nf.net["5g"].en))
        \/ Retyped(Enable5g2(nf, ~nf.net["5g2"].en))
        \/ \E b \in NwBands : Retyped(TabClick(nf, b))
        \/ Retyped(SmartChange(nf, ~nf.smart, TRUE))
        \/ Retyped(LegacyChange(nf, ~nf.legacy))
    BY <1>2, <1>0, Zenon DEF WifiEdit
  <2>2. ASSUME NEW on PROVE WifiKeeps(nf, LegacyChange(nf, on))
    <3> DEFINE v == [nf EXCEPT !.legacy = on]
    <3>1. WifiKeeps(nf, v) BY FormKeeps
    <3>2. LegacyChange(nf, on) = v \/ LegacyChange(nf, on) = SmartChange(v, FALSE, FALSE)
      BY DEF LegacyChange
    <3> HIDE DEF v
    <3>3. WifiKeeps(nf, SmartChange(v, FALSE, FALSE))
      BY <3>1, SmartKeeps, KeepsShape, KeepsTwice
    <3>4. QED BY <3>1, <3>2, <3>3
  <2>3. ASSUME NEW n \in NwNets, NEW x
        PROVE  WifiKeeps(nf, [nf EXCEPT !.net[n].ssid = x]) /\ WifiKeeps(nf, [nf EXCEPT !.net[n].en = x])
    BY FieldKeeps
  <2>4. /\ \A n \in NwNets : \A k : WifiKeeps(nf, TypeKey(nf, n, k)) /\ WifiKeeps(nf, ChooseEnc(nf, n, k))
        /\ \A n \in NwNets : \A on : WifiKeeps(nf, RoamChange(nf, n, on))
        /\ \A b \in NwBands : WifiKeeps(nf, TabClick(nf, b))
    BY TypingKeeps, RoamKeeps, TabKeeps
  <2>5. /\ WifiKeeps(nf, Enable2g(nf, ~nf.net["2g"].en)) /\ WifiKeeps(nf, Enable5g(nf, ~nf.net["5g"].en))
        /\ WifiKeeps(nf, Enable5g2(nf, ~nf.net["5g2"].en)) /\ WifiKeeps(nf, SmartChange(nf, ~nf.smart, TRUE))
    BY EnableKeeps, SmartKeeps
  <2>6. QED BY <1>0, <2>1, <2>2, <2>3, <2>4, <2>5
<1>3. QED BY <1>1, <1>2

(* What the checks have let through                                        *)
WifiInv ==
  /\ WifiShape(nf)
  /\ nf.step \in {"warned", "summary"} => WifiValid(nf)
  /\ nf.step = "summary" /\ HasOpenWifi(nf) => nf.agreed
  /\ nf.step # "sent" => nf.sent = {}
  /\ SentIsProtected

LEMMA WifiStep == WifiInv /\ NetwizWifiNext => WifiInv'
<1> SUFFICES ASSUME WifiInv, NetwizWifiNext PROVE WifiInv'
  OBVIOUS
<1>0. WifiShape(nf) /\ WifiFields \subseteq DOMAIN nf BY DEF WifiInv, WifiShape
<1>a. ASSUME WifiShape(nf'), nf'.step \in {"form", "home"}, nf'.sent = {} PROVE WifiInv'
  BY <1>a DEF WifiInv, SentIsProtected
<1>1. CASE WifiLoads
  <2>1. PICK s2 \in StoredNets, s5 \in StoredNets :
          nf' = LoadWifi(nf.radios, s2, s5, [s5 EXCEPT !.off = TRUE, !.ssid = NoSsid])
    BY <1>1 DEF WifiLoads
  <2>2. QED BY <2>1, LoadShape, <1>a
<1>2. CASE LateTabClick
  <2> DEFINE b == IF nf.radios = "single5g" THEN "5g" ELSE "2g"
             v == TabClick(nf, b)
  <2>1. b \in NwBands BY DEF NwBands
  <2>2. nf' = [v EXCEPT !.late = FALSE] BY <1>2 DEF LateTabClick
  <2>3. /\ WifiShape(v) /\ v.step = nf.step /\ v.sent = nf.sent
        /\ v.smart = nf.smart /\ v.radios = nf.radios /\ v.agreed = nf.agreed
        /\ \A n \in NwNets : /\ v.net[n].en = nf.net[n].en /\ v.net[n].enc = nf.net[n].enc
                             /\ nf.net[n].ssid # NoSsid => v.net[n].ssid # NoSsid
                             /\ nf.net[n].key # "" => v.net[n].key = nf.net[n].key
    BY <2>1, <1>0, TabKeeps DEF WifiKeeps
  <2> HIDE DEF v
  <2>4. /\ WifiShape(nf') /\ nf'.step = nf.step /\ nf'.sent = nf.sent /\ nf'.net = v.net
        /\ nf'.radios = nf.radios
    BY <2>2, <2>3 DEF WifiShape, WifiFields
  <2>5. nf'.smart = nf.smart BY <2>2, <2>3 DEF WifiShape, WifiFields
  <2>6. nf'.agreed = nf.agreed BY <2>2, <2>3 DEF WifiShape, WifiFields
  <2>7. \A n \in NwNets : Fine(nf.net[n]) => Fine(nf'.net[n])
    BY <2>3, <2>4 DEF Fine
  <2>8. IsSmart(nf)' = IsSmart(nf) BY <2>4, <2>5 DEF IsSmart, Single
  <2>9. WifiValid(nf) => WifiValid(nf)' BY <2>7, <2>8 DEF WifiValid, NwNets, NwBands
  <2>10. HasOpenWifi(nf)' => HasOpenWifi(nf)
    <3>1. ASSUME NEW n \in NwNets, nf'.net[n].en /\ nf'.net[n].enc = "none"
          PROVE  nf.net[n].en /\ nf.net[n].enc = "none"
      BY <3>1, <2>3, <2>4
    <3>2. CASE IsSmart(nf)
      <4>1. "smart" \in NwNets /\ IsSmart(nf)' BY <2>8, <3>2 DEF NwNets
      <4>2. QED BY <3>1, <3>2, <4>1 DEF HasOpenWifi
    <3>3. CASE ~IsSmart(nf)
      <4>1. "2g" \in NwNets /\ "5g" \in NwNets /\ ~IsSmart(nf)'
        BY <2>8, <3>3 DEF NwNets, NwBands
      <4>2. QED BY <3>1, <3>3, <4>1 DEF HasOpenWifi
    <3>4. QED BY <3>2, <3>3
  <2>11. SentIsProtected' BY <2>4, <2>6 DEF WifiInv, SentIsProtected
  <2>12. QED BY <2>4, <2>6, <2>9, <2>10, <2>11 DEF WifiInv
<1>3. CASE WifiEdit \/ WispEdit
  <2>1. PICK w : WifiKeeps(nf, w) /\ nf' = [w EXCEPT !.edits = @ + 1, !.agreed = FALSE]
    BY <1>0, <1>3, EditKeeps DEF Retyped
  <2>2. nf.step = "form" BY <1>3 DEF WifiEdit, WispEdit
  <2>3. WifiShape(nf') /\ nf'.step = "form" /\ nf'.sent = nf.sent
    BY <2>1, <2>2 DEF WifiKeeps, WifiShape, WifiFields
  <2>4. QED BY <2>2, <2>3, <1>a DEF WifiInv
<1>4. CASE GotoRoam
  <2>1. PICK b \in {"2g", "5g"} : \/ nf' = [nf EXCEPT !.step = "form"]
                                  \/ nf' = [TabClick(nf, b) EXCEPT !.step = "form"]
    BY <1>4 DEF GotoRoam
  <2>2. PICK w : WifiKeeps(nf, w) /\ nf' = [w EXCEPT !.step = "form"]
    BY <2>1, <1>0, TabKeeps, FormKeeps DEF NwBands
  <2>3. WifiShape(nf') /\ nf'.step = "form" /\ nf'.sent = nf.sent
    BY <2>2 DEF WifiKeeps, WifiShape, WifiFields
  <2>4. nf.sent = {} BY <1>4 DEF GotoRoam, WifiInv
  <2>5. QED BY <2>3, <2>4, <1>a
<1>b. ASSUME NEW x, nf' = [nf EXCEPT !.step = x]
      PROVE  /\ WifiShape(nf') /\ nf'.step = x /\ nf'.sent = nf.sent
             /\ WifiValid(nf)' = WifiValid(nf) /\ HasOpenWifi(nf)' = HasOpenWifi(nf)
  <2>1. WifiShape(nf') /\ nf'.step = x /\ nf'.sent = nf.sent /\ nf'.net = nf.net /\ nf'.radios = nf.radios
    BY <1>b, <1>0 DEF WifiShape, WifiFields
  <2>2. nf'.smart = nf.smart BY <1>b, <1>0 DEF WifiShape, WifiFields
  <2>3. QED BY <2>1, <2>2 DEF WifiValid, HasOpenWifi, IsSmart, Single
<1>5. CASE WifiNext2
  <2>1. /\ nf.sent = {} /\ WifiValid(nf)
        /\ \/ nf' = [nf EXCEPT !.step = "home"]
           \/ HasOpenWifi(nf) /\ nf' = [nf EXCEPT !.step = "warned"]
           \/ ~HasOpenWifi(nf) /\ nf' = [nf EXCEPT !.step = "summary"]
    BY <1>5 DEF WifiNext2, WifiInv
  <2>2. QED BY <2>1, <1>b DEF WifiInv, SentIsProtected
<1>6. CASE OpenWarning
  <2>1. nf.sent = {} /\ WifiValid(nf) BY <1>6 DEF OpenWarning, WifiInv
  <2>2. CASE nf' = [nf EXCEPT !.step = "form"] BY <2>1, <2>2, <1>a, <1>b
  <2>3. CASE nf' = [nf EXCEPT !.step = "summary", !.agreed = TRUE]
    <3>1. /\ WifiShape(nf') /\ nf'.step = "summary" /\ nf'.sent = {} /\ nf'.net = nf.net
          /\ nf'.radios = nf.radios
      BY <2>1, <2>3, <1>0 DEF WifiShape, WifiFields
    <3>2. nf'.smart = nf.smart BY <2>3, <1>0 DEF WifiFields
    <3>3. nf'.agreed BY <2>3, <1>0 DEF WifiFields
    <3>4. WifiValid(nf)'
      BY <2>1, <3>1, <3>2 DEF WifiValid, IsSmart, Single
    <3>5. QED BY <3>1, <3>3, <3>4 DEF WifiInv, SentIsProtected
  <2>4. QED BY <1>6, <2>2, <2>3 DEF OpenWarning
<1>7. CASE WifiBack
  <2>1. nf.sent = {} /\ \E x \in {"form", "home"} : nf' = [nf EXCEPT !.step = x]
    BY <1>7 DEF WifiBack, WifiInv
  <2>2. QED BY <2>1, <1>a, <1>b
<1>8. CASE WifiApply
  <2>1. /\ nf.step = "summary" /\ WifiValid(nf) /\ (HasOpenWifi(nf) => nf.agreed)
        /\ nf' = [nf EXCEPT !.step = "sent", !.sent = WifiPayload(nf)]
    BY <1>8 DEF WifiApply, WifiInv
  <2>2. WifiShape(nf') /\ nf'.step = "sent" /\ nf'.sent = WifiPayload(nf)
    BY <2>1, <1>0 DEF WifiShape, WifiFields
  <2>3. nf'.agreed = nf.agreed BY <2>1, <1>0 DEF WifiFields
  <2>4. ASSUME NEW e \in WifiPayload(nf), e.band # "5g2", e.en
        PROVE  /\ e.ssid # NoSsid
               /\ e.enc = "none" => nf.agreed
               /\ e.enc # "none" => e.key = "long"
    <3>1. PICK n \in (IF IsSmart(nf) THEN {"smart"} ELSE {"2g", "5g"}) :
            e = [band |-> n, en |-> nf.net[n].en, ssid |-> nf.net[n].ssid,
                 key |-> nf.net[n].key, enc |-> nf.net[n].enc]
      BY <2>4 DEF WifiPayload
    <3>2. Fine(nf.net[n]) /\ nf.net[n].en BY <2>1, <2>4, <3>1 DEF WifiValid
    <3>3. nf.net[n].enc = "none" => HasOpenWifi(nf) BY <3>1, <3>2 DEF HasOpenWifi
    <3>4. QED BY <2>1, <3>1, <3>2, <3>3 DEF Fine
  <2>5. SentIsProtected' BY <2>2, <2>3, <2>4 DEF SentIsProtected
  <2>6. QED BY <2>2, <2>5 DEF WifiInv
<1>9. CASE UNCHANGED nf
  BY <1>9 DEF WifiInv, SentIsProtected, WifiShape, WifiValid, HasOpenWifi
<1>10. QED BY <1>1, <1>2, <1>3, <1>4, <1>5, <1>6, <1>7, <1>8, <1>9 DEF NetwizWifiNext

----------------------------------------------------------------------------
(* The guide of the first steps.  Apply is offered only on the last page,  *)
(* which has no field to change: what it lists is what the fields say.     *)
GuideFields == {"shown", "first", "step", "apply", "f", "hide", "cur", "modal", "listed", "calls"}
GuideOk(p) ==
  /\ GuideFields \subseteq DOMAIN p
  /\ p.apply => p.step = 4 /\ p.listed = {Summary(p.f)}
  /\ p.modal \in {"wait", "probing"} => p.apply
GuideInv ==
  /\ {"router", "never", "wifi", "conflict", "sent", "p", "steps"} \subseteq DOMAIN nz
  /\ GuideOk(nz.p)
  /\ nz.sent # {} => nz.p.modal = "probing" /\ nz.sent = nz.p.listed

LEMMA SilentKeeps ==
  ASSUME NEW p, GuideOk(p), NEW v
  PROVE  LET q == SilentSave(p, v)
         IN  /\ GuideOk(q)
             /\ q.step = p.step /\ q.apply = p.apply /\ q.f = p.f /\ q.listed = p.listed
             /\ q.modal = p.modal
<1>1. CASE p.cur = v BY <1>1 DEF SilentSave
<1>2. CASE p.cur # v
  <2> DEFINE q == [p EXCEPT !.cur = v, !.calls = Append(@, v)]
  <2>1. /\ GuideFields \subseteq DOMAIN q /\ q.step = p.step /\ q.f = p.f /\ q.listed = p.listed
        /\ q.modal = p.modal
    BY DEF GuideOk, GuideFields
  <2>2. q.apply = p.apply BY DEF GuideOk, GuideFields
  <2>3. SilentSave(p, v) = q BY <1>2 DEF SilentSave
  <2> HIDE DEF q
  <2>4. GuideOk(q) BY <2>1, <2>2 DEF GuideOk
  <2>5. QED BY <2>1, <2>2, <2>3, <2>4
<1>3. QED BY <1>1, <1>2

(* The last page lists the fields as they are                              *)
LEMMA LastPageOk ==
  ASSUME NEW p, GuideOk(p)
  PROVE  GuideOk(ProceedToStep4(p)) /\ ProceedToStep4(p).modal = "none"
<1> SUFFICES ASSUME NEW q, q = ProceedToStep4(p) PROVE GuideOk(q) /\ q.modal = "none"
  OBVIOUS
<1>1. q = [p EXCEPT !.step = 4, !.apply = TRUE, !.listed = {Summary(p.f)}, !.modal = "none"]
  BY DEF ProceedToStep4
<1>2. /\ GuideFields \subseteq DOMAIN q /\ q.step = 4 /\ q.listed = {Summary(p.f)} /\ q.f = p.f
      /\ q.modal = "none"
  BY <1>1 DEF GuideOk, GuideFields
<1>3. q.apply BY <1>1 DEF GuideOk, GuideFields
<1>4. QED BY <1>2, <1>3 DEF GuideOk

LEMMA GuideStep == GuideInv /\ GuideNext => GuideInv'
<1> SUFFICES ASSUME GuideInv, GuideNext PROVE GuideInv'
  OBVIOUS
<1> DEFINE p == nz.p
<1>0. /\ {"router", "never", "wifi", "conflict", "sent", "p", "steps"} \subseteq DOMAIN nz
      /\ GuideOk(p) /\ GuideFields \subseteq DOMAIN p
  BY DEF GuideInv, GuideOk
<1>a. ASSUME NEW q, GuideOk(q), Guide(q), p.modal # "probing" PROVE GuideInv'
  <2>1. nz' = [nz EXCEPT !.p = q, !.steps = @ + 1] BY <1>a DEF Guide
  <2>2. nz.sent = {} BY <1>a DEF GuideInv
  <2>3. /\ {"router", "never", "wifi", "conflict", "sent", "p", "steps"} \subseteq DOMAIN nz'
        /\ nz'.p = q /\ nz'.sent = {}
    BY <2>1, <2>2, <1>0
  <2>4. QED BY <2>3, <1>a DEF GuideInv
(* A dialog over a page that is not being applied                          *)
<1>b. ASSUME NEW m, m \notin {"wait", "probing"} PROVE GuideOk([p EXCEPT !.modal = m])
  <2> DEFINE q == [p EXCEPT !.modal = m]
  <2>1. GuideFields \subseteq DOMAIN q /\ q.step = p.step /\ q.f = p.f /\ q.listed = p.listed /\ q.modal = m
    BY <1>0 DEF GuideFields
  <2>2. q.apply = p.apply BY <1>0 DEF GuideFields
  <2> HIDE DEF q
  <2>3. GuideOk(q) BY <1>b, <2>1, <2>2, <1>0 DEF GuideOk
  <2>4. QED BY <2>3 DEF q
<1>1. CASE WizardSaved
  <2>1. PICK r, q : /\ nz' = [nz EXCEPT !.router = r, !.p = q]
                    /\ q = [p EXCEPT !.calls = Tail(@)]
    <3>1. CASE nz' = [nz EXCEPT !.p = [p EXCEPT !.calls = Tail(@)]]
      BY <3>1, <1>0
    <3>2. QED BY <1>1, <3>1 DEF WizardSaved
  <2>2. GuideFields \subseteq DOMAIN q /\ q.step = p.step /\ q.f = p.f /\ q.listed = p.listed /\ q.modal = p.modal
    BY <2>1, <1>0 DEF GuideFields
  <2>3. q.apply = p.apply BY <2>1, <1>0 DEF GuideFields
  <2>4. GuideOk(q) BY <2>2, <2>3, <1>0 DEF GuideOk
  <2>5. /\ {"router", "never", "wifi", "conflict", "sent", "p", "steps"} \subseteq DOMAIN nz'
        /\ nz'.p = q /\ nz'.sent = nz.sent
    BY <2>1, <1>0
  <2>6. QED BY <2>2, <2>4, <2>5 DEF GuideInv
<1>2. CASE EditGuide
  <2>1. PICK k \in FieldsOf[p.step] : \E f \in Fields : Guide([p EXCEPT !.f = f])
    BY <1>2 DEF EditGuide
  <2>2. PICK f : Guide([p EXCEPT !.f = f]) BY <2>1
  <2>3. ~p.apply /\ p.modal = "none"
    <3>1. p.step = 4 => FieldsOf[p.step] = {} BY DEF FieldsOf
    <3>2. QED BY <1>0, <1>2, <2>1, <3>1 DEF GuideOk, EditGuide
  <2> DEFINE q == [p EXCEPT !.f = f]
  <2>4. GuideFields \subseteq DOMAIN q /\ q.modal = "none" BY <1>0, <2>3 DEF GuideFields
  <2>5. ~q.apply BY <1>0, <2>3 DEF GuideFields
  <2>6. GuideOk(q) BY <2>4, <2>5 DEF GuideOk
  <2>7. QED BY <1>a, <2>2, <2>3, <2>6
<1>3. CASE GuideNextStep
  <2>1. p.modal = "none" BY <1>3 DEF GuideNextStep
  <2>2. \/ \E m \in {"note", "evade", "open"} : Guide([p EXCEPT !.modal = m])
        \/ ~p.apply /\ \E n : Guide([p EXCEPT !.step = n])
        \/ Guide(ProceedToStep4(p))
    <3>1. p.step # 4 => ~p.apply BY <1>0 DEF GuideOk
    <3>2. CASE p.step = 1 /\ Guide(IF p.f.pwd = "differ" THEN [p EXCEPT !.modal = "note"] ELSE [p EXCEPT !.step = 2])
      <4>1. CASE p.f.pwd = "differ" BY <3>2, <4>1
      <4>2. CASE p.f.pwd # "differ" BY <3>1, <3>2, <4>2
      <4>3. QED BY <4>1, <4>2
    <3>3. CASE /\ p.step = 2
               /\ Guide(IF p.f.wan = "pppoe" /\ ~p.f.account THEN [p EXCEPT !.modal = "note"]
                        ELSE IF p.f.wan = "dhcp" /\ nz.conflict THEN [p EXCEPT !.modal = "evade"]
                        ELSE [p EXCEPT !.step = 3])
      BY <3>1, <3>3
    <3>4. CASE /\ p.step = 3
               /\ Guide(IF p.f.skip THEN ProceedToStep4(p)
                        ELSE IF ~p.f.ssid \/ p.f.key = "short" THEN [p EXCEPT !.modal = "note"]
                        ELSE IF p.f.key = "" THEN [p EXCEPT !.modal = "open"]
                        ELSE ProceedToStep4(p))
      BY <3>4
    <3>5. QED BY <1>3, <3>2, <3>3, <3>4 DEF GuideNextStep
  <2>3. ASSUME NEW n, ~p.apply PROVE GuideOk([p EXCEPT !.step = n])
    <3> DEFINE q == [p EXCEPT !.step = n]
    <3>1. GuideFields \subseteq DOMAIN q /\ q.modal = "none" BY <1>0, <2>1 DEF GuideFields
    <3>2. ~q.apply BY <1>0, <2>3 DEF GuideFields
    <3>3. QED BY <3>1, <3>2 DEF GuideOk
  <2>4. QED BY <1>0, <1>a, <1>b, <2>1, <2>2, <2>3, LastPageOk
<1>4. CASE GuideDialog
  <2>1. p.modal # "probing" BY <1>4 DEF GuideDialog
  <2>2. CASE Guide([p EXCEPT !.modal = "none"]) BY <1>a, <1>b, <2>1, <2>2
  <2>3. CASE Guide([p EXCEPT !.modal = "none", !.shown = FALSE])
    <3> DEFINE q == [p EXCEPT !.modal = "none", !.shown = FALSE]
    <3>1. GuideFields \subseteq DOMAIN q /\ q.step = p.step /\ q.f = p.f /\ q.listed = p.listed /\ q.modal = "none"
      BY <1>0 DEF GuideFields
    <3>2. q.apply = p.apply BY <1>0 DEF GuideFields
    <3>3. Guide(q) BY <2>3
    <3> HIDE DEF q
    <3>4. GuideOk(q) BY <3>1, <3>2, <1>0 DEF GuideOk
    <3>5. QED BY <1>a, <2>1, <3>3, <3>4
  <2>4. CASE Guide(ProceedToStep4(p)) BY <1>0, <1>a, <2>1, <2>4, LastPageOk
  <2>5. QED BY <1>4, <2>2, <2>3, <2>4 DEF GuideDialog
<1>5. CASE GuidePrev
  <2> DEFINE q == PrevStep(p)
  <2>1. p.modal = "none" /\ Guide(q) BY <1>5 DEF GuidePrev
  <2>2. GuideFields \subseteq DOMAIN q /\ q.modal = "none"
    BY <1>0, <2>1 DEF GuideFields, PrevStep
  <2>3. ~q.apply BY <1>0 DEF GuideFields, PrevStep
  <2>4. GuideOk(q) BY <2>2, <2>3 DEF GuideOk
  <2>5. QED BY <1>a, <2>1, <2>4
<1>6. CASE GuideApply
  <2> DEFINE s == SilentSave(p, "0")
             q == [s EXCEPT !.modal = "wait"]
  <2>1. p.modal = "none" /\ p.apply /\ nz' = [nz EXCEPT !.p = q, !.never = p.hide, !.steps = @ + 1]
    BY <1>6 DEF GuideApply
  <2>2. GuideOk(s) /\ s.apply BY <1>0, <2>1, SilentKeeps
  <2> HIDE DEF s
  <2>3. GuideFields \subseteq DOMAIN q /\ q.step = s.step /\ q.f = s.f /\ q.listed = s.listed /\ q.modal = "wait"
    BY <2>2 DEF GuideOk, GuideFields
  <2>4. q.apply BY <2>2 DEF GuideOk, GuideFields
  <2> HIDE DEF q
  <2>5. GuideOk(q) BY <2>2, <2>3, <2>4 DEF GuideOk
  <2>6. /\ {"router", "never", "wifi", "conflict", "sent", "p", "steps"} \subseteq DOMAIN nz'
        /\ nz'.p = q /\ nz'.sent = nz.sent
    BY <2>1, <1>0
  <2>7. QED BY <2>1, <2>5, <2>6 DEF GuideInv
<1>7. CASE GuideSetup
  <2>1. p.modal = "wait" /\ p.apply /\ p.listed = {Summary(p.f)} /\ nz.sent = {}
    BY <1>0, <1>7 DEF GuideSetup, GuideInv, GuideOk
  <2>2. CASE nz' = [nz EXCEPT !.sent = {Summary(p.f)}, !.p.modal = "probing"]
    <3> DEFINE q == [p EXCEPT !.modal = "probing"]
    <3>1. GuideFields \subseteq DOMAIN q /\ q.step = p.step /\ q.f = p.f /\ q.listed = p.listed /\ q.modal = "probing"
      BY <1>0 DEF GuideFields
    <3>2. q.apply BY <1>0, <2>1 DEF GuideFields
    <3>3. /\ {"router", "never", "wifi", "conflict", "sent", "p", "steps"} \subseteq DOMAIN nz'
          /\ nz'.p = q /\ nz'.sent = {Summary(p.f)}
      BY <2>2, <1>0
    <3> HIDE DEF q
    <3>4. GuideOk(q) BY <3>1, <3>2, <1>0, <2>1 DEF GuideOk
    <3>5. QED BY <2>1, <3>1, <3>3, <3>4 DEF GuideInv
  <2>3. CASE nz' = [nz EXCEPT !.p.modal = "error"]
    <3> DEFINE q == [p EXCEPT !.modal = "error"]
    <3>1. /\ {"router", "never", "wifi", "conflict", "sent", "p", "steps"} \subseteq DOMAIN nz'
          /\ nz'.p = q /\ nz'.sent = {}
      BY <2>1, <2>3, <1>0
    <3>2. QED BY <1>b, <3>1 DEF GuideInv
  <2>4. QED BY <1>7, <2>2, <2>3 DEF GuideSetup
<1>8. CASE GuideReload
  <2> DEFINE q == GuidePage(nz.router, nz.never, FALSE, nz.wifi)
  <2>1. GuideOk(q) BY DEF GuideOk, GuideFields, GuidePage
  <2>2. /\ {"router", "never", "wifi", "conflict", "sent", "p", "steps"} \subseteq DOMAIN nz'
        /\ nz'.p = q /\ nz'.sent = {}
    BY <1>8, <1>0 DEF GuideReload
  <2>3. QED BY <2>1, <2>2 DEF GuideInv
<1>9. CASE HideGuide
  <2> DEFINE q == [p EXCEPT !.hide = ~@]
  <2>1. p.modal = "none" /\ Guide(q) BY <1>9 DEF HideGuide
  <2>2. GuideFields \subseteq DOMAIN q /\ q.step = p.step /\ q.f = p.f /\ q.listed = p.listed /\ q.modal = "none"
    BY <1>0, <2>1 DEF GuideFields
  <2>3. q.apply = p.apply BY <1>0 DEF GuideFields
  <2> HIDE DEF q
  <2>4. GuideOk(q) BY <2>2, <2>3, <1>0 DEF GuideOk
  <2>5. QED BY <1>a, <2>1, <2>4
<1>10. CASE GuideExit
  <2> DEFINE s == SilentSave(p, "1")
             m == IF p.first THEN "leaving" ELSE "none"
             q == [s EXCEPT !.modal = m, !.shown = p.first]
  <2>1. PICK n : p.modal = "none" /\ nz' = [nz EXCEPT !.never = n, !.steps = @ + 1, !.p = q]
    BY <1>10 DEF GuideExit
  <2>2. GuideOk(s) /\ m \notin {"wait", "probing"} BY <1>0, SilentKeeps
  <2> HIDE DEF s, m
  <2>3. GuideFields \subseteq DOMAIN q /\ q.step = s.step /\ q.f = s.f /\ q.listed = s.listed /\ q.modal = m
    BY <2>2 DEF GuideOk, GuideFields
  <2>4. q.apply = s.apply BY <2>2 DEF GuideOk, GuideFields
  <2> HIDE DEF q
  <2>5. GuideOk(q) BY <2>2, <2>3, <2>4 DEF GuideOk
  <2>6. /\ {"router", "never", "wifi", "conflict", "sent", "p", "steps"} \subseteq DOMAIN nz'
        /\ nz'.p = q /\ nz'.sent = nz.sent
    BY <2>1, <1>0
  <2>7. QED BY <2>1, <2>5, <2>6 DEF GuideInv
<1>11. CASE ReopenGuide
  <2> DEFINE s == SilentSave(p, "1")
             q == [s EXCEPT !.step = 1, !.apply = FALSE, !.hide = TRUE, !.f.skip = ~nz.wifi, !.shown = TRUE]
  <2>1. p.modal = "none" /\ Guide(q) BY <1>11 DEF ReopenGuide
  <2>2. GuideOk(s) /\ s.modal = "none" BY <1>0, <2>1, SilentKeeps
  <2> HIDE DEF s
  <2>3. GuideFields \subseteq DOMAIN q /\ q.modal = "none" BY <2>2 DEF GuideOk, GuideFields
  <2>4. ~q.apply BY <2>2 DEF GuideOk, GuideFields
  <2> HIDE DEF q
  <2>5. GuideOk(q) BY <2>3, <2>4 DEF GuideOk
  <2>6. QED BY <1>a, <2>1, <2>5
<1>12. QED BY <1>1, <1>2, <1>3, <1>4, <1>5, <1>6, <1>7, <1>8, <1>9, <1>10, <1>11 DEF GuideNext

----------------------------------------------------------------------------
(* Backup and restore.  A backup whose news has not come yet is one more   *)
(* than those downloaded.                                                  *)
JobFields == {"phase", "polls", "isDone", "timer", "errors", "secs", "missed", "offline"}
Owes(j, downloads, backups) ==
  j.phase \in {"generating", "saved"} /\ ~j.isDone => downloads < backups
BackupInv ==
  /\ {"job", "router", "downloads", "backups", "jobs", "restored", "pill", "online"} \subseteq DOMAIN nb
  /\ JobFields \subseteq DOMAIN nb.job
  /\ nb.downloads \in Nat /\ nb.backups \in Nat /\ OneDownload
  /\ Owes(nb.job, nb.downloads, nb.backups)

LEMMA BackupStep == BackupInv /\ BackupNext => BackupInv'
<1> SUFFICES ASSUME BackupInv, BackupNext PROVE BackupInv'
  OBVIOUS
<1> DEFINE job == nb.job
<1>0. /\ {"job", "router", "downloads", "backups", "jobs", "restored", "pill", "online"} \subseteq DOMAIN nb
      /\ JobFields \subseteq DOMAIN job
  BY DEF BackupInv
(* Steps that start or count nothing                                       *)
<1>a. ASSUME nb'.downloads = nb.downloads, nb'.backups = nb.backups,
             {"job", "router", "downloads", "backups", "jobs", "restored", "pill", "online"} \subseteq DOMAIN nb',
             JobFields \subseteq DOMAIN nb'.job, Owes(nb'.job, nb.downloads, nb.backups)
      PROVE  BackupInv'
  BY <1>a DEF BackupInv, OneDownload
<1>b. ASSUME NEW j, Job(j), JobFields \subseteq DOMAIN j, Owes(j, nb.downloads, nb.backups)
      PROVE  BackupInv'
  <2>1. /\ nb'.downloads = nb.downloads /\ nb'.backups = nb.backups /\ nb'.job = j
        /\ {"job", "router", "downloads", "backups", "jobs", "restored", "pill", "online"} \subseteq DOMAIN nb'
    BY <1>b, <1>0 DEF Job
  <2>2. QED BY <1>a, <1>b, <2>1
(* The job gets another phase or counts its polls                          *)
<1>c. ASSUME NEW ph, ph \notin {"generating", "saved"}
      PROVE  /\ JobFields \subseteq DOMAIN [job EXCEPT !.phase = ph]
             /\ \A d, b : Owes([job EXCEPT !.phase = ph], d, b)
             /\ JobFields \subseteq DOMAIN [Job0 EXCEPT !.phase = ph]
             /\ \A d, b : Owes([Job0 EXCEPT !.phase = ph], d, b)
  <2>1. [job EXCEPT !.phase = ph].phase = ph /\ [Job0 EXCEPT !.phase = ph].phase = ph
    BY <1>0 DEF JobFields, Job0
  <2>2. JobFields \subseteq DOMAIN [job EXCEPT !.phase = ph] /\ JobFields \subseteq DOMAIN [Job0 EXCEPT !.phase = ph]
    BY <1>0 DEF JobFields, Job0
  <2>3. QED BY <1>c, <2>1, <2>2 DEF Owes
<1>d. JobFields \subseteq DOMAIN Job0 /\ \A d, b : Owes(Job0, d, b)
  BY DEF JobFields, Job0, Owes
<1>e. ASSUME NEW j, JobFields \subseteq DOMAIN j, j.phase = job.phase, j.isDone = job.isDone
      PROVE  Owes(j, nb.downloads, nb.backups)
  BY <1>e DEF BackupInv, Owes
<1>f. ASSUME NEW n
      PROVE  /\ JobFields \subseteq DOMAIN [job EXCEPT !.polls = n]
             /\ Owes([job EXCEPT !.polls = n], nb.downloads, nb.backups)
  <2>1. JobFields \subseteq DOMAIN [job EXCEPT !.polls = n] /\ [job EXCEPT !.polls = n].phase = job.phase
    BY <1>0 DEF JobFields
  <2>2. [job EXCEPT !.polls = n].isDone = job.isDone BY <1>0 DEF JobFields
  <2>3. QED BY <1>e, <2>1, <2>2
<1>1. CASE ClickBackup \/ ClickRestore
  <2>1. \/ nb' = [nb EXCEPT !.job = [Job0 EXCEPT !.phase = "scanning"], !.jobs = @ + 1]
        \/ \E p : nb' = [nb EXCEPT !.job = [Job0 EXCEPT !.phase = "checking"], !.jobs = @ + 1, !.pill = p,
                                   !.restored = FALSE]
    BY <1>1 DEF ClickBackup, ClickRestore
  <2>2. /\ nb'.downloads = nb.downloads /\ nb'.backups = nb.backups
        /\ \E ph \in {"scanning", "checking"} : nb'.job = [Job0 EXCEPT !.phase = ph]
        /\ {"job", "router", "downloads", "backups", "jobs", "restored", "pill", "online"} \subseteq DOMAIN nb'
    BY <2>1, <1>0
  <2>3. PICK ph \in {"scanning", "checking"} : nb'.job = [Job0 EXCEPT !.phase = ph]
    BY <2>2
  <2>4. JobFields \subseteq DOMAIN nb'.job /\ nb'.job.phase = ph
    BY <2>3 DEF JobFields, Job0
  <2>5. QED BY <1>a, <2>2, <2>4 DEF Owes
<1>2. CASE CheckMissing \/ ExecRestore
  <2>1. Job(Job0) \/ \E ph \in {"listed", "syncing", "restoring"} : Job([job EXCEPT !.phase = ph])
    BY <1>2 DEF CheckMissing, ExecRestore
  <2>2. QED BY <1>b, <1>c, <1>d, <2>1
<1>3. CASE PerformBackup
  <2>1. CASE Job(Job0) BY <1>b, <1>d, <2>1
  <2>2. CASE nb' = [nb EXCEPT !.job = [Job0 EXCEPT !.phase = "generating", !.timer = TRUE],
                              !.router = "running", !.backups = @ + 1]
    <3>1. /\ {"job", "router", "downloads", "backups", "jobs", "restored", "pill", "online"} \subseteq DOMAIN nb'
          /\ nb'.downloads = nb.downloads /\ nb'.backups = nb.backups + 1
          /\ nb'.job = [Job0 EXCEPT !.phase = "generating", !.timer = TRUE]
      BY <2>2, <1>0
    <3>2. JobFields \subseteq DOMAIN nb'.job BY <3>1 DEF JobFields, Job0
    <3>3. nb'.downloads \in Nat /\ nb'.backups \in Nat /\ nb'.downloads < nb'.backups
      BY <3>1 DEF BackupInv, OneDownload
    <3>4. QED BY <3>1, <3>2, <3>3 DEF BackupInv, OneDownload, Owes
  <2>3. QED BY <1>3, <2>1, <2>2 DEF PerformBackup
<1>4. CASE RouterBackup \/ RouterReboots
  <2>1. \E x : nb' = [nb EXCEPT !.router = x] \/ nb' = [nb EXCEPT !.online = x]
    BY <1>4 DEF RouterBackup, RouterReboots
  <2>2. /\ {"job", "router", "downloads", "backups", "jobs", "restored", "pill", "online"} \subseteq DOMAIN nb'
        /\ nb'.downloads = nb.downloads /\ nb'.backups = nb.backups /\ nb'.job = job
    BY <2>1, <1>0
  <2>3. QED BY <1>a, <2>2 DEF BackupInv
<1>5. CASE PollBackup
  <2>1. CASE Job([job EXCEPT !.timer = FALSE])
    <3> DEFINE j == [job EXCEPT !.timer = FALSE]
    <3>1. JobFields \subseteq DOMAIN j /\ j.phase = job.phase
      BY <1>0 DEF JobFields
    <3>2. j.isDone = job.isDone BY <1>0 DEF JobFields
    <3>3. Job(j) BY <2>1
    <3> HIDE DEF j
    <3>4. QED BY <1>b, <1>e, <3>1, <3>2, <3>3
  <2>2. CASE Job([job EXCEPT !.polls = @ + 1]) BY <1>b, <1>f, <2>2
  <2>3. QED BY <1>5, <2>1, <2>2 DEF PollBackup
<1>6. CASE BackupAnswers
  <2> DEFINE j == [job EXCEPT !.polls = @ - 1]
             k == [j EXCEPT !.isDone = TRUE, !.timer = FALSE, !.phase = "saved"]
  <2>1. JobFields \subseteq DOMAIN j /\ Owes(j, nb.downloads, nb.backups)
    BY <1>f
  <2>2. \/ Job(j)
        \/ job.phase \in {"generating", "saved"} /\ ~job.isDone /\ nb' = [nb EXCEPT !.downloads = @ + 1, !.job = k]
        \/ Job(k)
    BY <1>6 DEF BackupAnswers
  <2> HIDE DEF j
  <2>3. JobFields \subseteq DOMAIN k BY <2>1 DEF JobFields
  <2>4. k.isDone BY <2>1 DEF JobFields
  <2> HIDE DEF k
  <2>5. \A d, b : Owes(k, d, b) BY <2>4 DEF Owes
  <2>6. CASE job.phase \in {"generating", "saved"} /\ ~job.isDone /\ nb' = [nb EXCEPT !.downloads = @ + 1, !.job = k]
    <3>1. /\ {"job", "router", "downloads", "backups", "jobs", "restored", "pill", "online"} \subseteq DOMAIN nb'
          /\ nb'.downloads = nb.downloads + 1 /\ nb'.backups = nb.backups /\ nb'.job = k
      BY <2>6, <1>0
    <3>2. nb.downloads < nb.backups BY <2>6 DEF BackupInv, Owes
    <3>3. nb'.downloads \in Nat /\ nb'.backups \in Nat /\ nb'.downloads <= nb'.backups
      BY <3>1, <3>2 DEF BackupInv
    <3>4. QED BY <2>3, <2>5, <3>1, <3>3 DEF BackupInv, OneDownload
  <2>7. QED BY <1>b, <2>1, <2>2, <2>3, <2>5, <2>6
<1>7. CASE CloseBackup BY <1>7, <1>b, <1>d DEF CloseBackup
<1>8. CASE CheckFile
  <2>1. CASE nb' = [nb EXCEPT !.job.phase = "pill", !.job.timer = TRUE, !.router = "running",
                              !.backups = @ + 1]
    <3>1. /\ {"job", "router", "downloads", "backups", "jobs", "restored", "pill", "online"} \subseteq DOMAIN nb'
          /\ nb'.downloads = nb.downloads /\ nb'.backups = nb.backups + 1
          /\ nb'.job = [[job EXCEPT !.phase = "pill"] EXCEPT !.timer = TRUE]
      BY <2>1, <1>0
    <3>2. JobFields \subseteq DOMAIN nb'.job /\ nb'.job.phase = "pill"
      BY <3>1, <1>0 DEF JobFields
    <3>3. nb'.downloads \in Nat /\ nb'.backups \in Nat /\ nb'.downloads <= nb'.backups
      BY <3>1 DEF BackupInv, OneDownload
    <3>4. QED BY <3>1, <3>2, <3>3 DEF BackupInv, OneDownload, Owes
  <2>2. QED BY <1>8, <1>b, <1>c, <1>d, <2>1 DEF CheckFile
<1>9. CASE PillAnswers BY <1>9, <1>b, <1>f DEF PillAnswers
<1>10. CASE RestoreAnswers
  <2>1. CASE nb' = [nb EXCEPT !.job = [Job0 EXCEPT !.phase = "reboot"], !.restored = TRUE]
    <3>1. /\ {"job", "router", "downloads", "backups", "jobs", "restored", "pill", "online"} \subseteq DOMAIN nb'
          /\ nb'.downloads = nb.downloads /\ nb'.backups = nb.backups
          /\ nb'.job = [Job0 EXCEPT !.phase = "reboot"]
      BY <2>1, <1>0
    <3>2. JobFields \subseteq DOMAIN nb'.job /\ nb'.job.phase = "reboot"
      BY <3>1 DEF JobFields, Job0
    <3>3. QED BY <1>a, <3>1, <3>2 DEF Owes
  <2>2. CASE Job([job EXCEPT !.errors = @ + 1])
    <3> DEFINE j == [job EXCEPT !.errors = @ + 1]
    <3>1. JobFields \subseteq DOMAIN j /\ j.phase = job.phase
      BY <1>0 DEF JobFields
    <3>2. j.isDone = job.isDone BY <1>0 DEF JobFields
    <3>3. Job(j) BY <2>2
    <3> HIDE DEF j
    <3>4. QED BY <1>b, <1>e, <3>1, <3>2, <3>3
  <2>3. QED BY <1>10, <1>b, <1>d, <2>1, <2>2 DEF RestoreAnswers
<1>11. CASE RebootProbe
  <2> DEFINE j == [job EXCEPT !.secs = @ + 1]
  <2>1. JobFields \subseteq DOMAIN j /\ j.phase = "reboot"
    BY <1>0, <1>11 DEF JobFields, RebootProbe
  <2>2. \/ \E m, x : Job([j EXCEPT !.missed = m, !.offline = x])
        \/ Job(Job0) \/ Job(j)
    BY <1>11 DEF RebootProbe
  <2> HIDE DEF j
  <2>3. \A m, x : /\ JobFields \subseteq DOMAIN [j EXCEPT !.missed = m, !.offline = x]
                  /\ [j EXCEPT !.missed = m, !.offline = x].phase = "reboot"
    BY <2>1 DEF JobFields
  <2>4. QED BY <1>b, <1>d, <2>1, <2>2, <2>3 DEF Owes
<1>12. QED BY <1>1, <1>2, <1>3, <1>4, <1>5, <1>6, <1>7, <1>8, <1>9, <1>10, <1>11 DEF BackupNext

(* Apply on the Wi-Fi page, the guide and the backup dialog, for every     *)
(* name, network and number of edits: what is sent was checked and shown   *)
THEOREM NetwizIsSound == RouterSpec => []NetwizSendsSound
<1>1. RouterInit => WifiInv /\ GuideInv /\ BackupInv
  <2> SUFFICES ASSUME RouterInit PROVE WifiInv /\ GuideInv /\ BackupInv
    OBVIOUS
  <2>1. WifiInv
    <3>1. PICK r : nf = [Blank(r) EXCEPT !.step = "loading"]
      BY DEF RouterInit, NetwizWifiInit
    <3>2. /\ WifiFields \subseteq DOMAIN Blank(r) /\ NetsOk(Blank(r).net) /\ Blank(r).sent = {}
      BY DEF Blank, WifiFields, NetsOk, NetFields, Untouched, NoNet
    <3>3. WifiShape(nf) /\ nf.step = "loading" /\ nf.sent = {}
      BY <3>1, <3>2 DEF WifiShape, WifiFields
    <3>4. QED BY <3>3 DEF WifiInv, SentIsProtected
  <2>2. GuideInv
    <3>1. PICK configured, enable, never, line, wifi, conflict \in BOOLEAN :
            LET r == [configured |-> configured, enable |-> enable]
                preset == ~configured /\ line
            IN  nz = [router |-> r, never |-> never, wifi |-> wifi, conflict |-> conflict, sent |-> {},
                      p |-> GuidePage(r, never, preset, wifi), steps |-> 0]
      BY Zenon DEF RouterInit, GuideInit
    <3> DEFINE r == [configured |-> configured, enable |-> enable]
               preset == ~configured /\ line
    <3>2. GuideOk(GuidePage(r, never, preset, wifi)) BY DEF GuideOk, GuideFields, GuidePage
    <3>3. QED BY <3>1, <3>2 DEF GuideInv
  <2>3. nb = [job |-> Job0, router |-> "idle", downloads |-> 0, backups |-> 0, jobs |-> 0,
              restored |-> FALSE, pill |-> FALSE, online |-> TRUE]
    BY DEF RouterInit, NetwizToolsInit, BackupInit
  <2>4. BackupInv
    BY <2>3 DEF BackupInv, OneDownload, Owes, JobFields, Job0
  <2>5. QED BY <2>1, <2>2, <2>4
<1>2. WifiInv /\ GuideInv /\ BackupInv /\ [RouterNext]_routerVars => WifiInv' /\ GuideInv' /\ BackupInv'
  <2> SUFFICES ASSUME WifiInv, GuideInv, BackupInv, [RouterNext]_routerVars
               PROVE  WifiInv' /\ GuideInv' /\ BackupInv'
    OBVIOUS
  <2>1. (UNCHANGED nf \/ NetwizWifiNext) /\ (UNCHANGED nz \/ GuideNext) /\ (UNCHANGED nb \/ BackupNext)
    BY DEF RouterNext, routerVars
  <2>2. UNCHANGED nf => WifiInv'
    BY DEF WifiInv, SentIsProtected, WifiShape, WifiValid, HasOpenWifi
  <2>3. UNCHANGED nz => GuideInv' BY DEF GuideInv
  <2>4. UNCHANGED nb => BackupInv' BY DEF BackupInv, OneDownload
  <2>5. QED BY <2>1, <2>2, <2>3, <2>4, WifiStep, GuideStep, BackupStep
<1>3. WifiInv /\ GuideInv /\ BackupInv => NetwizSendsSound
  <2>1. GuideInv => GuideSendsListed BY DEF GuideInv, GuideSendsListed
  <2>2. QED BY <2>1 DEF WifiInv, BackupInv, NetwizSendsSound
<1>4. QED BY <1>1, <1>2, <1>3, PTL DEF RouterSpec
=============================================================================
