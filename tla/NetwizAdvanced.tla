--------------------------- MODULE NetwizAdvanced ---------------------------
(***************************************************************************)
(* The rest of the network wizard's page (netwiz.js): the panel of         *)
(* advanced tools and their dialogs, access to the web interface from      *)
(* outside (nv), the editor of host names (nh), the setup wizard (nz), and *)
(* the status card with its alarm for an unplugged line (ns).              *)
(* The router's side of set_adv_settings and set_wizard (rpcd/netwiz) is   *)
(* modelled with them; every call may fail.                                *)
(***************************************************************************)
EXTENDS Integers, Sequences, FiniteSets, SequencesExt

CONSTANTS
    Modules,         \* ids of the tools on the panel, in their default order
    WebPorts,        \* port numbers that pass the page's own checks
    BusyPorts,       \* those another program of the router listens on
    MaxWebSteps,     \* bound on what the user does to the web access
    HostIps,         \* addresses a host entry may have
    HostNames,       \* domains without "www."
    MaxHosts,        \* bound on the host entries
    MaxHostSteps,    \* bound on edits of the host list
    MaxWizardSteps,  \* bound on what the user does in the wizard
    MaxStatusPolls,  \* bound on status polls
    ReportsLink      \* {TRUE}, {FALSE} or both: netifd reports l1up

VARIABLES nv, nh, nz, ns

ASSUME NetwizAdvancedAssumption ==
    /\ Modules \in Seq(STRING) /\ BusyPorts \subseteq WebPorts /\ ReportsLink \subseteq BOOLEAN
    /\ {MaxWebSteps, MaxHosts, MaxHostSteps, MaxWizardSteps, MaxStatusPolls} \subseteq Nat

-----------------------------------------------------------------------------
(* The panel: the saved order first, without modules that no longer exist, *)
(* then those the saved list does not know.                                *)

MergeLayout(saved) ==
    LET known == SelectSeq(saved, LAMBDA it : it.id \in ToSet(Modules))
        ids   == {known[i].id : i \in DOMAIN known}
        rest  == SelectSeq(Modules, LAMBDA id : id \notin ids)
    IN  known \o [i \in DOMAIN rest |-> [id |-> rest[i], show |-> FALSE]]

(* The manager's dialog: nothing is written when nothing was moved.        *)
SaveLayout(current, edited) == IF edited = current THEN <<>> ELSE edited

Saved(ids) == UNION {[1..n -> [id : ids, show : BOOLEAN]] : n \in 0..2}

(* An upgrade that adds or drops modules loses none of the present ones.   *)
ASSUME LayoutIsComplete ==
    \A s \in {x \in Saved(ToSet(Modules) \cup {"gone"}) : Cardinality({x[i].id : i \in DOMAIN x}) = Len(x)} :
        LET l == MergeLayout(s)
            hidden == [i \in DOMAIN l |-> [l[i] EXCEPT !.show = FALSE]]
            sent == SaveLayout(l, hidden)      \* without a list the stored one stays
        IN  /\ Len(l) = Len(Modules) /\ {l[i].id : i \in DOMAIN l} = ToSet(Modules)
            /\ MergeLayout(l) = l
            /\ MergeLayout(IF sent = <<>> THEN l ELSE sent) = hidden

(* A reboot by the clock: no line, or a time of day and days, all seven    *)
(* written as a star. Without a day the dialog stays open.                 *)
Days7 == {"0", "1", "2", "3", "4", "5", "6"}
NoReboot == [at |-> 0, days |-> {}]
FormatCron(enabled, at, days) ==
    IF ~enabled THEN NoReboot
    ELSE [at |-> at, days |-> IF days = Days7 THEN {"*"} ELSE days]
ParseCron(line) ==
    IF line = NoReboot THEN [enabled |-> FALSE, at |-> 240, days |-> Days7]
    ELSE [enabled |-> TRUE, at |-> line.at, days |-> IF line.days = {"*"} THEN Days7 ELSE line.days]
SetCron(stored, enabled, at, days) ==
    IF enabled /\ days = {} THEN stored ELSE FormatCron(enabled, at, days)

(* The dialog shows what was saved; saving it unchanged changes nothing.   *)
ASSUME CronReopens ==
    \A days \in SUBSET Days7 \ {{}} :
        LET line == SetCron(NoReboot, TRUE, 270, days)
            c    == ParseCron(line)
        IN  c.days = days /\ SetCron(line, c.enabled, c.at, c.days) = line

(* The router's address card: "" leaves it, "none" removes the clone.      *)
SetMac(stored, typed, wellFormed) ==
    IF typed = stored \/ (typed # "" /\ ~wellFormed) THEN stored ELSE typed

(* The IPv6 probe's dialog. Enabling it needs an address to probe, and     *)
(* switches the page's IPv6 on.                                            *)
WatchdogSaved(stored, typed, v6) ==
    IF typed = stored \/ (typed.on /\ typed.url = "") THEN [probe |-> stored, v6 |-> v6]
    ELSE [probe |-> typed, v6 |-> v6 \/ typed.on]

(* Plugin repair: the answer decides between done, removing what is left   *)
(* of an uninstalled plugin, and an error; a timeout only means waiting.   *)
RepairAnswer(result) ==
    CASE result = "0"           -> "reload"
      [] result \in {"1", "2"}  -> "eradicate"
      [] result = "timeout"     -> "reload"
      [] OTHER                  -> "failed"
EradicateAnswer(result) == IF result \in {"0", "timeout"} THEN "reload" ELSE "failed"

(* No dialog stores what it does not accept: an ill-formed address, a      *)
(* probe that is on without an address to probe. A probe that is switched  *)
(* on finds IPv6 on, and repair ends for every answer of the script.       *)
ASSUME DialogsStoreSound ==
    /\ \A stored, typed \in {"", "none", "mac"}, ok \in BOOLEAN :
          SetMac(stored, typed, ok) \in {stored} \cup {t \in {typed} : ok \/ t = ""}
    /\ \A stored, typed \in [on : BOOLEAN, url : {"", "u"}], v6 \in BOOLEAN :
          LET w == WatchdogSaved(stored, typed, v6)
          IN  /\ w.probe # stored => (w.probe.on => w.probe.url # "" /\ w.v6)
              /\ v6 => w.v6
    /\ \A a, b \in {"0", "1", "2", "3", "timeout"} :
          LET r == RepairAnswer(a)
          IN  (IF r = "eradicate" THEN EradicateAnswer(b) ELSE r) \in {"reload", "failed"}

-----------------------------------------------------------------------------
(* Access from outside. The router keeps the rule ("off", "std" for the    *)
(* standard ports, or a port) and the last port of the user's own.         *)

WebPage(r) ==
    LET port == IF r.rule \notin {"off", "std"} THEN r.rule ELSE r.port
    IN  [tog |-> r.rule # "off", field |-> port, last |-> port, saving |-> FALSE, old |-> "",
         modal |-> "none", calls |-> {}, typed |-> FALSE, pend |-> "none", reload |-> FALSE]

WebInit ==
    \E rule \in {"off", "std"} \cup (WebPorts \ BusyPorts), port \in {""} \cup (WebPorts \ BusyPorts), v6 \in BOOLEAN :
        LET r == [rule |-> rule, port |-> IF rule \in {"off", "std"} THEN port ELSE rule, v6 |-> v6]
        IN  nv = [router |-> r, page |-> WebPage(r), steps |-> 0]

(* A lock keeps two saves apart. A port that fails the checks is taken     *)
(* back, with the switch.                                                  *)
ValidateAndSavePort(p) ==
    IF p.saving THEN p
    ELSE IF p.field = "bad"
    THEN [p EXCEPT !.field = p.last, !.tog = (p.last # ""), !.modal = "note"]
    ELSE [p EXCEPT !.saving = TRUE, !.old = p.last, !.tog = TRUE, !.modal = "wait", !.calls = @ \cup {"save"}]

Web(p) == nv' = [nv EXCEPT !.page = p]
WebStep(p) == /\ nv.steps < MaxWebSteps
              /\ nv' = [nv EXCEPT !.page = p, !.steps = @ + 1]

TypePort ==
    /\ nv.page.modal = "none"
    /\ \E v \in WebPorts \cup {"", "bad"} : v # nv.page.field /\ WebStep([nv.page EXCEPT !.field = v, !.typed = TRUE])

(* 200 ms after the field changed, whatever is open by then.               *)
PortChanged ==
    /\ nv.page.typed
    /\ LET p == [nv.page EXCEPT !.typed = FALSE]
       IN  Web(IF p.tog THEN ValidateAndSavePort(p) ELSE p)

ToggleWeb ==
    /\ nv.page.modal = "none"
    /\ LET p == nv.page
       IN  IF ~p.tog THEN WebStep([p EXCEPT !.tog = TRUE, !.modal = "on"])
           ELSE IF p.saving THEN WebStep([p EXCEPT !.tog = FALSE])
           ELSE WebStep([p EXCEPT !.tog = FALSE, !.modal = "off"])

AnswerWebDialog ==
    \E ok \in BOOLEAN :
       LET p == nv.page IN
       \/ /\ p.modal \in {"on", "off"}
          /\ WebStep(IF ok THEN [p EXCEPT !.modal = "none", !.pend = p.modal]
                     ELSE [p EXCEPT !.modal = "none", !.tog = (p.modal = "off")])
       \/ p.modal = "note" /\ WebStep([p EXCEPT !.modal = "none"])

(* Switching on may first need IPv6; that call has no error handler.       *)
ProceedWeb ==
    LET p == [nv.page EXCEPT !.pend = "none"] IN
    /\ ~p.reload
    /\ \/ /\ nv.page.pend = "on"
          /\ Web(IF nv.router.v6 THEN ValidateAndSavePort(p)
                 ELSE [p EXCEPT !.modal = "wait", !.calls = @ \cup {"sync"}])
       \/ /\ nv.page.pend = "off"
          /\ Web([p EXCEPT !.saving = TRUE, !.modal = "wait", !.calls = @ \cup {"clear"}])

SyncAnswers ==
    /\ "sync" \in nv.page.calls
    /\ LET p == [nv.page EXCEPT !.calls = @ \ {"sync"}]
       IN  \/ nv' = [nv EXCEPT !.router.v6 = TRUE, !.page = ValidateAndSavePort(p)]
           \/ Web(p)

(* The router: refused when the port is taken, otherwise the rule is       *)
(* replaced and a port of the user's own remembered.                       *)
SetAdvWeb(r, v) ==
    [r EXCEPT !.rule = v, !.port = IF v \in {"off", "std"} THEN @ ELSE v]

RefusedPort(p) ==
    [p EXCEPT !.saving = FALSE, !.field = p.old, !.last = p.old, !.tog = @ /\ p.old # "", !.modal = "note"]

SaveAnswers ==
    /\ "save" \in nv.page.calls
    /\ LET p == [nv.page EXCEPT !.calls = @ \ {"save"}]
           v == IF p.field = "" THEN "std" ELSE p.field
       IN  \/ IF v \in BusyPorts THEN Web(RefusedPort(p))
              ELSE nv' = [nv EXCEPT !.router = SetAdvWeb(@, v), !.page = [p EXCEPT !.last = v, !.reload = TRUE]]
           \/ Web([p EXCEPT !.saving = FALSE, !.field = p.old, !.last = p.old, !.modal = "note"])

ClearAnswers ==
    /\ "clear" \in nv.page.calls
    /\ LET p == [nv.page EXCEPT !.calls = @ \ {"clear"}, !.reload = TRUE]
       IN  \/ nv' = [nv EXCEPT !.router = SetAdvWeb(@, "off"), !.page = p]
           \/ Web([p EXCEPT !.saving = FALSE])

WebReload == nv.page.reload /\ Web(WebPage(nv.router))

WebNext == TypePort \/ PortChanged \/ ToggleWeb \/ AnswerWebDialog \/ ProceedWeb \/ SyncAnswers
           \/ SaveAnswers \/ ClearAnswers \/ WebReload

-----------------------------------------------------------------------------
(* The editor of host names. An entry has an address, a domain and a flag; *)
(* the text mode shows the same list as lines the user may edit freely.    *)

HostEntry(ip, dom, en) == [ip |-> ip, dom |-> dom, en |-> en]
Www(d) == <<"www", d>>
Plain(d) == <<"", d>>
Domains == {Plain(d) : d \in HostNames} \cup {Www(d) : d \in HostNames}
NoDomain == <<"", "">>
Loopback == {"127.0.0.1", "::1"}
Same(a, b) == a.ip = b.ip /\ a.dom = b.dom

HostsInit == nh = [file |-> <<>>, list |-> <<>>, raw |-> FALSE, text |-> <<>>, modal |-> "none", closed |-> FALSE, steps |-> 0]

Hosts(h) == /\ nh.steps < MaxHostSteps /\ ~nh.closed
            /\ nh' = [h EXCEPT !.steps = @ + 1]

(* Quick add: with the smart option both spellings of the domain, and both *)
(* loopback addresses; entries already there are skipped.                  *)
AddList(ip, dom, smart) ==
    IF ~smart THEN <<HostEntry(ip, dom, TRUE)>>
    ELSE LET ips == IF ip \in Loopback THEN <<"127.0.0.1", "::1">> ELSE <<ip>>
         IN  FlattenSeq([i \in DOMAIN ips |-> <<HostEntry(ips[i], Plain(dom[2]), TRUE), HostEntry(ips[i], Www(dom[2]), TRUE)>>])

QuickAdd ==
    /\ ~nh.raw /\ nh.modal = "none"
    /\ \E ip \in HostIps, dom \in Domains, smart \in BOOLEAN :
          LET new == SelectSeq(AddList(ip, dom, smart), LAMBDA e : \A i \in DOMAIN nh.list : ~Same(e, nh.list[i]))
          IN  /\ Len(new) + Len(nh.list) <= MaxHosts
              /\ IF new = <<>> THEN Hosts([nh EXCEPT !.modal = "note"])
                 ELSE Hosts([nh EXCEPT !.list = new \o @])

(* A change of a row that would repeat another one is undone.              *)
EditHost ==
    /\ ~nh.raw /\ nh.modal = "none"
    /\ \E i \in DOMAIN nh.list :
          \/ \E ip \in HostIps \cup {""}, dom \in Domains \cup {NoDomain} :
                LET e == [nh.list[i] EXCEPT !.ip = ip, !.dom = dom]
                IN  /\ (ip = nh.list[i].ip) # (dom = nh.list[i].dom)
                    /\ IF \E j \in DOMAIN nh.list \ {i} : Same(e, nh.list[j])
                       THEN Hosts([nh EXCEPT !.modal = "note"])
                       ELSE Hosts([nh EXCEPT !.list[i] = e])
          \/ Hosts([nh EXCEPT !.list[i].en = ~@])
          \/ Hosts([nh EXCEPT !.list = RemoveAt(@, i)])

(* Text mode: a line is an entry, a comment, or something else; rows with  *)
(* an empty field do not read back.                                        *)
Junk == HostEntry("junk", NoDomain, TRUE)
Comment == HostEntry("comment", NoDomain, TRUE)
Complete(e) == e.ip # "" /\ e.dom # NoDomain
ToText(list) == [i \in DOMAIN list |-> IF Complete(list[i]) THEN list[i]
                                       ELSE IF list[i].en /\ (list[i].ip # "" \/ list[i].dom # NoDomain) THEN Junk
                                       ELSE Comment]
EditText ==
    /\ nh.raw /\ nh.modal = "none"
    /\ \/ /\ Len(nh.text) < MaxHosts
          /\ \E l \in {HostEntry(ip, d, en) : ip \in HostIps, d \in Domains, en \in BOOLEAN} \cup {Junk, Comment} :
                Hosts([nh EXCEPT !.text = Append(@, l)])
       \/ \E i \in DOMAIN nh.text : Hosts([nh EXCEPT !.text = RemoveAt(@, i)])

Entries(text) == SelectSeq(text, LAMBDA l : l \notin {Junk, Comment})
Keeps(es, i) == \A j \in 1..(i - 1) : ~Same(es[j], es[i])
ParseText(text) ==
    LET es  == Entries(text)
        idx == SelectSeq([i \in DOMAIN es |-> i], LAMBDA i : Keeps(es, i))
    IN  [list |-> [i \in DOMAIN idx |-> es[idx[i]]],
         errors |-> (Len(es) - Len(idx)) + Len(SelectSeq(text, LAMBDA l : l = Junk))]

Final(list) == SelectSeq(list, Complete)

ToggleRaw ==
    /\ nh.modal = "none"
    /\ IF ~nh.raw THEN Hosts([nh EXCEPT !.raw = TRUE, !.text = ToText(nh.list)])
       ELSE LET p == ParseText(nh.text)
            IN  IF p.errors > 0 THEN Hosts([nh EXCEPT !.modal = "discard"])
                ELSE Hosts([nh EXCEPT !.raw = FALSE, !.list = p.list])

(* Saving leaves text mode first. A list that did not change is not        *)
(* written, and text mode is shown again. A call that fails writes nothing *)
(* and leaves its spinner until the user reloads.                          *)
Written(h, wasRaw) ==
    IF Final(h.list) = Final(h.file)
    THEN {[h EXCEPT !.modal = "note", !.raw = wasRaw]}
    ELSE {[h EXCEPT !.file = Final(h.list), !.closed = TRUE], [h EXCEPT !.closed = TRUE]}

SaveHosts ==
    /\ nh.modal = "none"
    /\ IF ~nh.raw THEN \E h \in Written(nh, FALSE) : Hosts(h)
       ELSE LET p == ParseText(nh.text)
            IN  IF p.errors > 0 THEN Hosts([nh EXCEPT !.modal = "discardsave"])
                ELSE \E h \in Written([nh EXCEPT !.raw = FALSE, !.list = p.list], TRUE) : Hosts(h)

HostsDialog ==
    /\ nh.modal # "none" /\ ~nh.closed
    /\ \/ nh' = [nh EXCEPT !.modal = "none"]
       \/ /\ nh.modal \in {"discard", "discardsave"}
          /\ LET p == ParseText(nh.text)
                 h == [nh EXCEPT !.text = p.list, !.list = p.list, !.raw = FALSE, !.modal = "none"]
             IN  nh' \in IF nh.modal = "discard" THEN {h} ELSE Written(h, FALSE)

(* The page reloads: the list is the router's again.                       *)
HostsReload ==
    \/ nh.closed /\ nh' = [nh EXCEPT !.closed = FALSE, !.list = nh.file, !.raw = FALSE, !.text = <<>>]
    \/ ~nh.closed /\ nh.modal = "none" /\ nh.list # nh.file
       /\ nh' = [nh EXCEPT !.list = nh.file, !.raw = FALSE, !.text = <<>>]

HostsNext == QuickAdd \/ EditHost \/ EditText \/ ToggleRaw \/ SaveHosts \/ HostsDialog \/ HostsReload

(* The editor and the router never hold one pair of address and domain     *)
(* twice, through rows, quick add and text mode.                           *)
HostsUnique ==
    \A l \in {nh.list, nh.file} : \A i, j \in DOMAIN l : i # j => ~Same(l[i], l[j])

-----------------------------------------------------------------------------
(* The setup wizard: administrator's password, kind of line, wireless      *)
(* network, summary.                                                       *)

Fields == [pwd : {"ok", "differ"}, wan : {"pppoe", "dhcp"}, account : BOOLEAN, skip : BOOLEAN,
           ssid : BOOLEAN, key : {"", "short", "long"}]
FieldsOf == <<{"pwd"}, {"wan", "account"}, {"skip", "ssid", "key"}, {}>>

(* What is listed before applying, and what is sent.                       *)
Summary(f) == [wan |-> f.wan, wifi |-> IF f.skip THEN "skip" ELSE f.key]

(* Shown on a first run, or while the router asks for it and this browser  *)
(* was not told otherwise. A line already configured counts as set up.     *)
GuideShown(r, never, preset) == (~r.configured /\ ~preset) \/ (r.configured /\ r.enable /\ ~never)

Blank0 == [pwd |-> "ok", wan |-> "dhcp", account |-> FALSE, skip |-> FALSE, ssid |-> FALSE, key |-> ""]

GuidePage(r, never, preset, wifi) ==
    [shown |-> GuideShown(r, never, preset), first |-> ~r.configured /\ ~preset, step |-> 1, apply |-> FALSE,
     f |-> [Blank0 EXCEPT !.skip = ~wifi], hide |-> TRUE, cur |-> IF preset THEN "1" ELSE "",
     modal |-> "none", listed |-> {}, calls |-> IF preset THEN <<"1">> ELSE <<>>]

GuideInit ==
    \E configured, enable, never, line, wifi, conflict \in BOOLEAN :
        LET r == [configured |-> configured, enable |-> enable]
            preset == ~configured /\ line
        IN  nz = [router |-> r, never |-> never, wifi |-> wifi, conflict |-> conflict, sent |-> {},
                  p |-> GuidePage(r, never, preset, wifi), steps |-> 0]

Guide(p) == /\ nz.steps < MaxWizardSteps
            /\ nz' = [nz EXCEPT !.p = p, !.steps = @ + 1]

(* The state is sent once; a failed call is not noticed.                   *)
SilentSave(p, v) == IF p.cur = v THEN p ELSE [p EXCEPT !.cur = v, !.calls = Append(@, v)]

WizardSaved ==
    /\ nz.p.calls # <<>>
    /\ LET v == Head(nz.p.calls)
           p == [nz.p EXCEPT !.calls = Tail(@)]
       IN  \/ nz' = [nz EXCEPT !.router = [configured |-> TRUE, enable |-> v = "1"], !.p = p]
           \/ nz' = [nz EXCEPT !.p = p]

EditGuide ==
    /\ nz.p.shown /\ nz.p.modal = "none"
    /\ \E k \in FieldsOf[nz.p.step] : \E f \in Fields :
          /\ \A j \in DOMAIN f : (f[j] = nz.p.f[j]) <=> (j # k)
          /\ k = "skip" => nz.wifi
          /\ Guide([nz.p EXCEPT !.f = f])

(* Next: each step's own checks; a conflict of addresses is solved through *)
(* the page of the local network, an open network must be confirmed.       *)
ProceedToStep4(p) == [p EXCEPT !.step = 4, !.apply = TRUE, !.listed = {Summary(p.f)}, !.modal = "none"]

GuideNextStep ==
    /\ nz.p.shown /\ nz.p.modal = "none"
    /\ LET p == nz.p
           f == p.f
       IN  \/ /\ p.step = 1
              /\ Guide(IF f.pwd = "differ" THEN [p EXCEPT !.modal = "note"] ELSE [p EXCEPT !.step = 2])
           \/ /\ p.step = 2
              /\ Guide(IF f.wan = "pppoe" /\ ~f.account THEN [p EXCEPT !.modal = "note"]
                       ELSE IF f.wan = "dhcp" /\ nz.conflict THEN [p EXCEPT !.modal = "evade"]
                       ELSE [p EXCEPT !.step = 3])
           \/ /\ p.step = 3
              /\ Guide(IF f.skip THEN ProceedToStep4(p)
                       ELSE IF ~f.ssid \/ f.key = "short" THEN [p EXCEPT !.modal = "note"]
                       ELSE IF f.key = "" THEN [p EXCEPT !.modal = "open"]
                       ELSE ProceedToStep4(p))

GuideDialog ==
    /\ nz.p.modal \in {"note", "evade", "open", "error"}
    /\ \/ Guide([nz.p EXCEPT !.modal = "none"])
       \/ nz.p.modal = "evade" /\ Guide([nz.p EXCEPT !.modal = "none", !.shown = FALSE])
       \/ nz.p.modal = "open" /\ Guide(ProceedToStep4(nz.p))

PrevStep(p) == [p EXCEPT !.step = @ - 1, !.apply = FALSE]

GuidePrev == nz.p.shown /\ nz.p.modal = "none" /\ nz.p.step > 1 /\ Guide(PrevStep(nz.p))

(* Applying: the wizard is marked as done before the network is set up.    *)
GuideApply ==
    /\ nz.p.shown /\ nz.p.modal = "none" /\ nz.p.apply
    /\ nz' = [nz EXCEPT !.p = [SilentSave(nz.p, "0") EXCEPT !.modal = "wait"], !.never = nz.p.hide, !.steps = @ + 1]

GuideSetup ==
    /\ nz.p.modal = "wait" /\ nz.p.calls = <<>>
    /\ \/ nz' = [nz EXCEPT !.sent = {Summary(nz.p.f)}, !.p.modal = "probing"]
       \/ nz' = [nz EXCEPT !.p.modal = "error"]

(* The router answers again: the page is loaded anew.                      *)
GuideReload ==
    /\ nz.p.modal \in {"probing", "leaving"} /\ nz.p.calls = <<>>
    /\ nz' = [nz EXCEPT !.sent = {}, !.p = GuidePage(nz.router, nz.never, FALSE, nz.wifi)]

HideGuide == nz.p.shown /\ nz.p.modal = "none" /\ Guide([nz.p EXCEPT !.hide = ~@])

GuideExit ==
    /\ nz.p.shown /\ nz.p.modal = "none" /\ nz.steps < MaxWizardSteps
    /\ \E action \in {"close", "skip"} :
          nz' = [nz EXCEPT !.never = action = "close" /\ nz.p.hide, !.steps = @ + 1,
                           !.p = [SilentSave(nz.p, "1") EXCEPT
                                    !.modal = IF nz.p.first THEN "leaving" ELSE "none", !.shown = nz.p.first]]

ReopenGuide ==
    /\ ~nz.p.shown /\ nz.p.modal = "none"
    /\ Guide([SilentSave(nz.p, "1") EXCEPT !.step = 1, !.apply = FALSE, !.hide = TRUE, !.f.skip = ~nz.wifi, !.shown = TRUE])

GuideNext == WizardSaved \/ EditGuide \/ GuideNextStep \/ GuideDialog \/ GuidePrev \/ GuideApply \/ GuideSetup
             \/ GuideReload \/ HideGuide \/ GuideExit \/ ReopenGuide

(* What the wizard sends to the router is what its last page listed,       *)
(* however the user went back and forth.                                   *)
GuideSendsListed == nz.sent # {} => nz.sent = nz.p.listed

-----------------------------------------------------------------------------
(* The status card.                                                        *)

WanModes == {"dhcp", "pppoe", "static"}

StatusInit ==
    \E proto \in WanModes \cup {""}, bypass \in BOOLEAN, wisp \in {"none", "set", "addr"}, link \in ReportsLink :
        ns = [proto |-> proto, bypass |-> bypass, wisp |-> wisp, link |-> link, plugged |-> TRUE, addr |-> proto # "",
              inet |-> "wait", lock |-> FALSE, drops |-> 0, alerted |-> FALSE, alarm |-> FALSE, ignore |-> FALSE,
              busy |-> FALSE, polls |-> 0, card |-> "loading"]

(* The line goes down or comes back; an address may be kept for a while.   *)
LineChanges ==
    \/ ns' = [ns EXCEPT !.plugged = ~@]
    \/ ns' = [ns EXCEPT !.addr = ns.plugged /\ ns.proto # ""]
    \/ ns' = [ns EXCEPT !.busy = ~@]

InetAnswers == ns' = [ns EXCEPT !.inet = IF ns.plugged /\ ns.addr THEN "ok" ELSE "fail"]

UpdateStatusDisplay ==
    /\ ~ns.lock /\ ns.polls < MaxStatusPolls
    /\ ns' = [ns EXCEPT !.lock = TRUE, !.polls = @ + 1]

(* Whatever the router says, the line's interface is shown as up.          *)
ShownUp == TRUE
IsWispActive(s) == ~s.addr /\ s.wisp = "addr"

IsWanDown(s) ==
    /\ ~IsWispActive(s) /\ s.proto # "pppoe"
    /\ IF s.link THEN ~s.plugged ELSE ~ShownUp /\ ~s.addr
    /\ s.inet # "ok" /\ ~(ShownUp /\ s.addr)

StatusCard(s) ==
    CASE s.bypass -> "bypass"
      [] ~s.bypass /\ IsWispActive(s) -> "wisp"
      [] ~s.bypass /\ ~IsWispActive(s) /\ s.wisp # "none" -> "wisp waiting"
      [] ~s.bypass /\ s.wisp = "none" /\ s.proto \in {"pppoe", "dhcp"} -> IF s.addr THEN "connected" ELSE "waiting"
      [] ~s.bypass /\ s.wisp = "none" /\ s.proto = "static" -> "connected"
      [] OTHER -> "lan"

(* Three polls in a row must see the line down, while nothing is applied.  *)
StatusAnswers ==
    /\ ns.lock
    /\ LET down  == IsWanDown(ns) /\ ~ns.bypass
           drops == IF down /\ ~ns.busy THEN ns.drops + 1 ELSE 0
           alarm == drops >= 3 /\ ~ns.alerted /\ ~ns.ignore
       IN  ns' = [ns EXCEPT !.lock = FALSE, !.drops = IF drops > 3 THEN 3 ELSE drops,
                            !.alerted = IF IsWanDown(ns) THEN @ \/ alarm ELSE FALSE,
                            !.alarm = IF IsWanDown(ns) THEN @ \/ alarm ELSE FALSE,
                            !.inet = IF ns.addr \/ IsWispActive(ns) THEN @ ELSE "fail",
                            !.card = StatusCard(ns)]

StatusFails == ns.lock /\ ns' = [ns EXCEPT !.lock = FALSE]

IgnoreAlarm == ns.alarm /\ ns' = [ns EXCEPT !.alarm = FALSE, !.alerted = TRUE, !.ignore = TRUE]

StatusNext == LineChanges \/ InetAnswers \/ UpdateStatusDisplay \/ StatusAnswers \/ StatusFails \/ IgnoreAlarm

(* The networks on the card: tags, and one line for a group of access      *)
(* points with one name and key.                                           *)
Grouped(aps) == Len(aps) > 1 /\ \A i \in DOMAIN aps : aps[i].ssid = aps[1].ssid /\ aps[i].key = aps[1].key
ActiveIfaces(ifaces) == SelectSeq(ifaces, LAMBDA i : ~i.off /\ i.mode \in {"ap", "sta"} /\ i.ssid # "")
WifiTags(ifaces) ==
    LET on  == ActiveIfaces(ifaces)
        aps == SelectSeq(on, LAMBDA i : i.mode = "ap")
    IN  IF on = <<>> THEN {"disabled"}
        ELSE (IF aps = <<>> THEN {} ELSE {IF Grouped(aps) THEN "smart" ELSE "split"})
             \cup (IF Len(aps) < Len(on) THEN {"wisp"} ELSE {})
RoamDirty(i) == i.roam /\ (~i.domain \/ i.key = "")
WifiLines(ifaces) ==
    LET on  == ActiveIfaces(ifaces)
        aps == SelectSeq(on, LAMBDA i : i.mode = "ap")
    IN  IF Grouped(aps)
        THEN (Len(on) - Len(aps)) + 1
        ELSE Len(on)

(* The code a phone reads: open, or with the kind of its encryption.       *)
QrType(enc) == IF enc \in {"", "none"} THEN "nopass" ELSE IF enc = "wep" THEN "WEP" ELSE "WPA"

CardIfaces ==
    [mode : {"ap", "sta"}, ssid : {"", "a", "b"}, key : {"", "k"}, off : BOOLEAN, roam : {TRUE}, domain : BOOLEAN]
(* The card says that the networks are off exactly when it lists none, and *)
(* a card that calls them one network shows a single line for the access   *)
(* points, which then share their key: one code connects to all of them.   *)
ASSUME CardTellsNetworks ==
    /\ \A a, b \in CardIfaces :
          LET tags == WifiTags(<<a, b>>)
              lines == WifiLines(<<a, b>>)
          IN  /\ "disabled" \in tags <=> lines = 0
              /\ "smart" \in tags => lines = 1 /\ a.key = b.key
              /\ "wisp" \in tags /\ "split" \in tags => lines = 2
    /\ {e \in {"", "none", "wep", "psk2", "sae"} : QrType(e) = "nopass"} = {"", "none"}

-----------------------------------------------------------------------------
(* The lock of the web access is held only while an answer or the page's   *)
(* reload is still to come, so a later change is never dropped silently.   *)
PortLockReleased == nv.page.saving => nv.page.calls \cap {"save", "clear"} # {} \/ nv.page.reload

(* Once nothing is under way, the switch shows whether the router lets     *)
(* access from outside in.                                                 *)
SwitchShowsAccess ==
    LET p == nv.page
    IN  p.calls = {} /\ ~p.typed /\ p.pend = "none" /\ ~p.reload /\ p.modal \in {"none", "note"}
            => (p.tog <=> nv.router.rule # "off")

=============================================================================
