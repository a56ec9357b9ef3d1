---------------------------- MODULE NetwizSetup -----------------------------
(***************************************************************************)
(* The network wizard's LAN and WAN pages (netwiz.js): card, form, checks, *)
(* summary, Apply, and the page that waits for the router to come back,    *)
(* with the safe mode of the router behind it (the rpcd script netwiz): a  *)
(* backup, a marker file and a sleeping process that restores the backup   *)
(* when it still finds the marker.                                         *)
(*                                                                         *)
(* An address is a subnet and a host number.  A tick is one interval of    *)
(* the waiting page (three seconds); the windows are counted in ticks.     *)
(***************************************************************************)
EXTENDS Integers, Sequences, FiniteSets

CONSTANTS
    Typed,          \* addresses the user may type
    WanAddr,        \* the address the WAN port has, or NoLanAddr
    Gateway,        \* the real upstream gateway, or NoLanAddr
    TopHost,        \* 254: the first host number tried for an access point
    LowHost,        \* 200: the last one
    Window,         \* ticks of the safe mode (120 seconds)
    RestartTicks,   \* ticks until the network has restarted
    ProbeFrom,      \* first tick at which the page probes
    MaxChanges,     \* bound on the changes applied
    MaxFieldEdits   \* bound on the edits of the form

VARIABLE na

NoLanAddr == <<0, 0>>

ASSUME NetwizSetupAssumption ==
    /\ Typed \cup {WanAddr, Gateway} \subseteq Nat \X Nat
    /\ LowHost \in Nat /\ TopHost \in Nat /\ LowHost < TopHost
    /\ RestartTicks \in Nat /\ Window \in Nat /\ RestartTicks < Window
    /\ MaxChanges \in Nat /\ MaxFieldEdits \in Nat

-----------------------------------------------------------------------------
(* Addresses.                                                              *)

IsSameSubnet(a, b) == a # NoLanAddr /\ b # NoLanAddr /\ a[1] = b[1]

GetSafeRouterIp(wan) ==
    IF wan = NoLanAddr THEN <<2, 1>>
    ELSE <<CHOOSE n \in 1..2 : n # wan[1] /\ \A m \in 1..2 : m # wan[1] => n <= m, 1>>

(* From the top down, past the gateway, the router's own WAN address and   *)
(* the addresses other devices were found to use.                          *)
GetSafeApIp(gw, used) ==
    LET known == {gw[2]} \cup (IF IsSameSubnet(gw, WanAddr) THEN {WanAddr[2]} ELSE {}) \cup used
        free  == {h \in (LowHost + 1)..TopHost : h \notin known}
    IN  <<gw[1], IF free = {} THEN LowHost ELSE CHOOSE h \in free : \A k \in free : k <= h>>

(* The suggestion is never an address known to be taken while there is a   *)
(* free one, and the router's suggestion never shares the WAN's subnet.    *)
ASSUME SuggestionsAreFree ==
    /\ \A w \in Typed : ~IsSameSubnet(GetSafeRouterIp(w), w)
    /\ \A gw \in Typed, used \in SUBSET (LowHost..TopHost) :
          LET h == GetSafeApIp(gw, used)[2]
          IN  h = LowHost \/ h \notin used \cup {gw[2]}

-----------------------------------------------------------------------------
(* The page as it is loaded from the router.                               *)

Loaded(r) ==
    [mode |-> "", lanip |-> r.lan, gw |-> NoLanAddr, bypass |-> FALSE, safe |-> TRUE,
     wanstatic |-> FALSE, wip |-> NoLanAddr, wgw |-> NoLanAddr,
     step |-> "home", modal |-> "none", checking |-> NoLanAddr, used |-> {}, evaded |-> FALSE,
     listed |-> <<>>, at |-> r.lan, target |-> NoLanAddr, sec |-> 0, follows |-> TRUE]

Router0 == [lan |-> <<1, 1>>, conf |-> <<1, 1>>, bak |-> NoLanAddr, marker |-> FALSE,
            sleepers |-> {}, restart |-> 0]

NetwizSetupInit ==
    na = [r |-> Router0, p |-> Loaded(Router0), changes |-> 0, edits |-> 0,
          applied |-> <<>>]

Page(p) == na' = [na EXCEPT !.p = p]

(* confirm: the marker and the backups go.                                 *)
Confirmed(r) == IF r.marker THEN [r EXCEPT !.marker = FALSE, !.bak = NoLanAddr] ELSE r

(* A page that loads disarms the rollback, at whatever address it loads.   *)
Render ==
    /\ na.p.step = "loading"
    /\ na.p.at = na.r.lan
    /\ na' = [na EXCEPT !.r = Confirmed(@), !.p = Loaded(na.r), !.edits = 0, !.applied = <<>>]

-----------------------------------------------------------------------------
(* Cards and fields.                                                       *)

ClickCard ==
    /\ na.p.step = "home" /\ na.p.modal = "none"
    /\ \E m \in {"lan", "router", "pppoe"} : Page([na.p EXCEPT !.mode = m, !.step = "form", !.evaded = FALSE])

BackButton ==
    /\ na.p.modal = "none"
    /\ \/ na.p.step = "form" /\ Page([na.p EXCEPT !.step = "home"])
       \/ na.p.step = "summary" /\ Page([na.p EXCEPT !.step = "form"])

Edited(p) == {[p EXCEPT !.lanip = a] : a \in Typed \cup {NoLanAddr}}
             \cup {[p EXCEPT !.gw = a] : a \in Typed}
             \cup {[p EXCEPT !.bypass = ~@], [p EXCEPT !.safe = ~@]}
             \cup {[p EXCEPT !.wanstatic = ~@]}
             \cup {[p EXCEPT !.wip = w[1], !.wgw = w[2]] : w \in Typed \X Typed}

EditLanField ==
    /\ na.p.step = "form" /\ na.p.modal = "none"
    /\ na.edits < MaxFieldEdits
    /\ \E p \in Edited(na.p) : na' = [na EXCEPT !.p = p, !.edits = @ + 1]

(* Detect: suggest an address beside the gateway and ask in the background *)
(* whether a device already has it.                                        *)
AutoIp ==
    /\ na.p.step = "form" /\ na.p.mode = "lan" /\ na.p.modal = "none"
    /\ na.p.bypass /\ Gateway # NoLanAddr /\ na.p.checking = NoLanAddr
    /\ LET ip == GetSafeApIp(Gateway, na.p.used)
       IN  Page([na.p EXCEPT !.gw = Gateway, !.lanip = ip, !.checking = ip, !.modal = "found"])

CheckIpAsync ==
    /\ na.p.checking # NoLanAddr /\ na.p.step # "loading"
    /\ \/ Page([na.p EXCEPT !.checking = NoLanAddr])
       \/ /\ Cardinality(na.p.used) < TopHost - LowHost
          /\ Page([na.p EXCEPT !.used = @ \cup {na.p.checking[2]}, !.checking = NoLanAddr, !.modal = "taken"])

-----------------------------------------------------------------------------
(* The Next button.                                                        *)

LanVerdict(p) ==
    IF p.lanip = NoLanAddr \/
       (p.bypass /\ (p.gw = NoLanAddr \/ ~IsSameSubnet(p.lanip, p.gw) \/ p.lanip = p.gw
                      \/ (Gateway # NoLanAddr /\ p.lanip = Gateway))) THEN "edit"
    ELSE IF ~p.bypass /\ IsSameSubnet(p.lanip, WanAddr) THEN "cross"
    ELSE "ok"

RouterVerdict(p, lan) ==
    LET wan == IF p.wanstatic THEN p.wip ELSE WanAddr
        here == IF p.lanip # NoLanAddr THEN p.lanip ELSE lan
    IN  IF p.wanstatic /\ (p.wip = NoLanAddr \/ p.wgw = NoLanAddr \/ p.wip = p.wgw
                           \/ (Gateway # NoLanAddr /\ p.wip = Gateway)
                           \/ ~IsSameSubnet(p.wip, p.wgw)) THEN "edit"
        ELSE IF IsSameSubnet(wan, here) THEN "evade"
        ELSE "ok"

(* What comes after the form's own checks: the cross-check against what is *)
(* configured, then whether anything changed at all.                       *)
CrossCheck(p, lan) ==
    IsSameSubnet(IF p.mode = "router" /\ p.wanstatic THEN p.wip ELSE WanAddr,
                 IF p.mode = "lan" THEN p.lanip ELSE lan)

SetupIsNoMod(p, lan) ==
    p.mode = "lan" /\ p.lanip = lan /\ p.gw = NoLanAddr /\ ~p.bypass

Verdict(p, lan) ==
    LET v == CASE p.mode = "lan" -> LanVerdict(p)
               [] p.mode = "router" -> RouterVerdict(p, lan)
               [] OTHER -> "ok"
    IN  IF v # "ok" THEN v
        ELSE IF CrossCheck(p, lan) THEN "edit"
        ELSE IF SetupIsNoMod(p, lan) THEN "nomod"
        ELSE "summary"

(* The summary lists the fields as they are now.                           *)
Listing(p) == <<p.mode, IF p.mode = "lan" THEN p.lanip ELSE p.wip>>

AfterNext(p, lan) ==
    LET v == Verdict(p, lan)
    IN  CASE v = "summary" -> [p EXCEPT !.step = "summary", !.modal = "none", !.listed = Listing(p)]
          [] OTHER -> [p EXCEPT !.modal = v]

ClickNext ==
    /\ na.p.step = "form" /\ na.p.modal = "none"
    /\ Page(AfterNext(na.p, na.r.conf))

(* The one dialog of the page: its OK button fixes the address and tries   *)
(* again, its other button closes it.                                      *)
ModalOk ==
    LET p == [na.p EXCEPT !.modal = "none"]
    IN  \/ na.p.modal \in {"edit", "found"} /\ Page(p)
        \/ na.p.modal = "nomod" /\ Page([p EXCEPT !.step = "home"])
        \/ /\ na.p.modal = "cross"
           /\ Page(AfterNext([p EXCEPT !.lanip = GetSafeRouterIp(WanAddr)], na.r.conf))
        \/ /\ na.p.modal = "evade"
           /\ LET wan == IF p.wanstatic THEN p.wip ELSE WanAddr
              IN  Page(AfterNext([p EXCEPT !.lanip = GetSafeRouterIp(wan), !.mode = "lan",
                                           !.evaded = TRUE], na.r.conf))
        \/ /\ na.p.modal = "taken"
           /\ LET ip == GetSafeApIp(Gateway, p.used)
              IN  Page([p EXCEPT !.lanip = ip, !.checking = ip])

ClickModal ==
    /\ na.p.modal # "none"
    /\ \/ ModalOk
       \/ na.p.modal \in {"cross", "evade", "taken"} /\ Page([na.p EXCEPT !.modal = "none"])

-----------------------------------------------------------------------------
(* Apply.                                                                  *)

(* Mutant: the backup is taken after the new address is written            *)
BacksUpLate(r, p) ==
    LET s == IF ~p.safe THEN [r EXCEPT !.bak = NoLanAddr]
             ELSE [r EXCEPT !.bak = p.lanip, !.marker = TRUE, !.sleepers = @ \cup {Window}]
    IN  [s EXCEPT !.conf = p.lanip, !.restart = RestartTicks]
(* set_network removes the old backups.  For the LAN in safe mode the      *)
(* configuration in force is backed up, the marker appears and a process   *)
(* goes to sleep; the network restarts a little later.                     *)
SetNetwork(r, p) ==
    LET s == IF ~p.safe THEN [r EXCEPT !.bak = NoLanAddr]
             ELSE [r EXCEPT !.bak = r.conf, !.marker = TRUE, !.sleepers = @ \cup {Window}]
    IN  [s EXCEPT !.conf = p.lanip, !.restart = RestartTicks]

ClickApply ==
    /\ na.p.step = "summary" /\ na.p.modal = "none"
    /\ na.changes < MaxChanges
    /\ LET lan == na.p.mode = "lan"
           wait == IF ~lan \/ na.p.lanip = na.p.at THEN "same"
                   ELSE IF na.p.safe THEN "safe" ELSE "new"
       IN  \E f \in BOOLEAN :
              na' = [na EXCEPT !.r = IF lan THEN SetNetwork(@, na.p)
                                       ELSE [@ EXCEPT !.bak = NoLanAddr, !.restart = RestartTicks],
                               !.p = [@ EXCEPT !.step = wait, !.target = na.p.lanip, !.sec = 0,
                                               !.follows = f, !.checking = NoLanAddr],
                               !.changes = @ + 1,
                               !.applied = <<Listing(na.p), na.p.listed, na.p.evaded => na.p.safe>>]

Waits == {"safe", "new", "same", "old"}

(* Time: the network restarts, sleepers wake, the page counts.  sleepers   *)
(* has the ticks each process has left.  A sleeper that finds the marker   *)
(* restores the backup and restarts the network.                           *)
Woken(r) ==
    LET slept == {t - 1 : t \in r.sleepers}
        fires == 0 \in slept /\ r.marker
        left  == slept \ {0}
    IN  IF fires THEN [r EXCEPT !.sleepers = left, !.marker = FALSE, !.conf = r.bak, !.lan = r.bak,
                                !.restart = 0]
        ELSE [r EXCEPT !.sleepers = left,
                       !.restart = IF @ > 0 THEN @ - 1 ELSE 0,
                       !.lan = IF r.restart = 1 THEN r.conf ELSE @]

CountsOn(p) ==
    IF p.step = "safe" /\ p.sec >= Window THEN [p EXCEPT !.step = "old", !.sec = 0]
    ELSE IF p.step \in Waits /\ p.sec <= Window THEN [p EXCEPT !.sec = @ + 1]
    ELSE p

TimePasses ==
    /\ na.p.step \in Waits \cup {"loading"} \/ na.r.sleepers # {} \/ na.r.restart > 0
    /\ na' = [na EXCEPT !.r = Woken(@), !.p = CountsOn(@)]

(* A probe answers: the page asks its own (old) address to disarm, which   *)
(* only works when it did not move, and goes to the address that answered. *)
ProbeAnswers ==
    /\ na.p.step \in Waits
    /\ na.p.step # "old" => na.p.sec >= ProbeFrom
    /\ na.r.restart = 0
    /\ LET goal == IF na.p.step \in {"safe", "new"} THEN na.p.target ELSE na.p.at
       IN  /\ na.r.lan = goal
           /\ goal # na.p.at => na.p.follows
           /\ na' = [na EXCEPT !.r = IF goal = na.p.at THEN Confirmed(@) ELSE @,
                               !.p = [@ EXCEPT !.step = "loading", !.at = goal]]

NetwizSetupNext ==
    \/ Render
    \/ ClickCard
    \/ BackButton
    \/ EditLanField
    \/ AutoIp
    \/ CheckIpAsync
    \/ ClickNext
    \/ ClickModal
    \/ ClickApply
    \/ TimePasses
    \/ ProbeAnswers

NetwizSetupSpec == NetwizSetupInit /\ [][NetwizSetupNext]_na

-----------------------------------------------------------------------------

(* A page that has given up on the new address waits for an address the    *)
(* router has, or will have: the rollback never leads anywhere else, even  *)
(* when earlier changes left backups and sleeping processes behind.        *)
RollbackLeadsBack ==
    na.p.step = "old" => na.r.lan = na.p.at

(* "Redirect to a change of the LAN address, with the 120 second rollback  *)
(* protection" (comment in the dialog that evades a WAN/LAN conflict).     *)
EvasionIsProtected == na.applied # <<>> => na.applied[3]

(* What is applied is what the summary listed.                             *)
AppliedAsListed == na.applied # <<>> => na.applied[1] = na.applied[2]
=============================================================================
