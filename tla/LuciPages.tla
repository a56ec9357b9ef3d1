----------------------------- MODULE LuciPages ------------------------------
(***************************************************************************)
(* A settings page at work: it shows the stored configuration, the user    *)
(* changes fields, saves (when LuCI and the page's own validate functions  *)
(* accept them) or resets, and the page is rendered again from what is     *)
(* stored.  The tables of the pages are those of the form modules.         *)
(***************************************************************************)
EXTENDS SmartdnsForm, MonitorForms, ServiceForms, AdblockFast

CONSTANTS
    FormPages,      \* the pages looked at
    MaxFieldChanges \* bound on the fields changed, for every page

VARIABLE lf

PageForms ==
    [rtp2httpd |-> Rtp2httpdForm, aria2 |-> AriaForm, mosdns |-> MosdnsForm,
     mosdns_rules |-> MosdnsRules, mosdns_update |-> MosdnsUpdate, unm |-> UnmForm, unm_acl |-> UnmAcl,
     watchdog |-> WatchdogForm @@ WatchdogBlacklist, noobwrt |-> NoobwrtForm,
     noobwrt_toolbar |-> NoobwrtToolbar, argon |-> ArgonForm, setup |-> SetupForm,
     setup_shortcut |-> SetupShortcut, task_scripts |-> TaskScripts, scheduled |-> ScheduledTask,
     startup |-> StartupTask, traffic |-> TrafficForm, traffic_interface |-> TrafficInterface,
     msd_lite |-> MsdForm, vlmcsd |-> VlmcsdForm, bandix |-> BandixForm, bandix_plus |-> BandixPlusForm,
     wechat |-> WechatForm, wechat_advanced |-> WechatAdvancedForm, adblock_domains |-> AdblockDomains,
     adblock_url |-> AdblockFileUrl,
     adblock |-> AdblockBasic({"dnsmasq", "dnsmasq_nftset", "smartdns", "unbound"})
                 @@ AdblockDownloads @@ AdblockAdvanced]
    @@ SmartdnsPages

ASSUME LuciPagesAssumption == FormPages \subseteq DOMAIN PageForms /\ MaxFieldChanges \in [DOMAIN PageForms -> Nat]

(* Every dependency names fields of the page and values they can have, and *)
(* a field without a value that must have one is no hidden trap: each      *)
(* field accepts some value its dependants and its datatype allow.         *)
ASSUME TablesAreClosed ==
    \A p \in DOMAIN PageForms : \A o \in DOMAIN PageForms[p] :
        LET f == PageForms[p][o]
        IN  /\ f.ok \subseteq f.vals
            /\ f.must => \E v \in f.ok : v # ""
            /\ \A d \in f.deps : \A n \in DOMAIN d :
                  n \in DOMAIN PageForms[p] => d[n] \in PageForms[p][n].vals \cup {"none"}

-----------------------------------------------------------------------------
(* Pages of one application share its configuration.                       *)
AppOf(p) == IF p \in DOMAIN SmartdnsPages THEN DOMAIN SmartdnsPages ELSE {p}

ShownOn(p, uci) == IF p = "rtp2httpd" THEN Rtp2httpdShown(uci) ELSE Shown(PageForms[p], uci)

StoredBy(p, uci, ui) ==
    IF p = "rtp2httpd" THEN Rtp2httpdStored(uci, ui) ELSE Stored(PageForms[p], uci, ui)

(* A fresh installation, with the old port option on some routers, and     *)
(* aria2 with a download directory and, on some, a certificate.            *)
FreshStore(p) ==
    LET empty == [o \in DOMAIN PageForms[p] |-> Unset]
    IN  CASE p = "rtp2httpd" -> {[empty EXCEPT !.port = v] : v \in {Unset, "8080"}}
          [] p = "aria2" -> {[empty EXCEPT !.dir = "good", !.rpc_certificate = v, !.rpc_private_key = v,
                                           !.rpc_secure = IF v = Unset THEN Unset ELSE "true"] :
                                v \in {Unset, "good"}}
          [] p = "noobwrt" -> {NoobwrtDefaults @@ empty}
          [] OTHER -> {empty}

FormsInit ==
    \E p \in FormPages : \E first \in FreshStore(p) :
        LET store == [q \in AppOf(p) |-> IF q = p THEN first ELSE CHOOSE s \in FreshStore(q) : TRUE]
        IN  lf = [page |-> p, store |-> store, ui |-> ShownOn(p, first), left |-> {}, changes |-> 0]

EditField ==
    /\ lf.changes < MaxFieldChanges[lf.page]
    /\ \E o \in Active(PageForms[lf.page], lf.ui) :
          \E v \in PageForms[lf.page][o].vals \ {lf.ui[o]} :
              lf' = [lf EXCEPT !.ui[o] = v, !.changes = @ + 1, !.left = {}]

SavePage ==
    /\ Accepted(PageForms[lf.page], lf.ui)
    /\ lf.page \in DOMAIN SmartdnsPages => SmartdnsAccepts(lf.store, lf.page, lf.ui)
    /\ LET uci == StoredBy(lf.page, lf.store[lf.page], lf.ui)
       IN  lf' = [lf EXCEPT !.store[lf.page] = uci, !.ui = ShownOn(lf.page, uci), !.left = {lf.ui}]

ResetPage ==
    lf' = [lf EXCEPT !.ui = ShownOn(lf.page, lf.store[lf.page]), !.left = {}]

GoToPage ==
    \E p \in AppOf(lf.page) \ {lf.page} :
        lf' = [lf EXCEPT !.page = p, !.ui = ShownOn(p, lf.store[p]), !.left = {}]

FormsNext == EditField \/ SavePage \/ ResetPage \/ GoToPage

-----------------------------------------------------------------------------
(* A page that was saved comes back with every field that was filled in as *)
(* it was left, and shows no other fields than it did.                     *)
SavedIsShown ==
    \A was \in lf.left :
        LET form == PageForms[lf.page]
            active == Active(form, was)
        IN  \A o \in active : was[o] # "" => lf.ui[o] = was[o] /\ o \in Active(form, lf.ui)

(* The buttons of rtp2httpd's page follow get_server_address, as they say  *)
(* (rtp2httpd.js:252): with a host name they open what the server calls    *)
(* itself, for one of its TCP ports.                                       *)
OpensServersAddress ==
    lf.page = "rtp2httpd" =>
        LET uci == lf.store["rtp2httpd"]
            name == HostnameOption(uci)
            ports == IF ListenPorts(uci) = {} THEN {"5140"} ELSE ListenPorts(uci)
        IN  name # Unset =>
              Rtp2httpdOpenPage(uci) \in {GetServerAddress(name, p) : p \in ports}

(* The same but for a host name that gives port 80 and no scheme (where it *)
(* is violated: the server keeps the port, the page takes the listener's); *)
(* without a host name, the buttons open a port the server listens on,     *)
(* unless it listens on none.                                              *)
OpensServer ==
    lf.page = "rtp2httpd" =>
        LET uci == lf.store["rtp2httpd"]
            name == HostnameOption(uci)
        IN  /\ name # "name:80" => OpensServersAddress
            /\ name = Unset /\ ListenPorts(uci) # {} => Rtp2httpdOpenPage(uci).port \in ListenPorts(uci)

(* Once saved, the URL on aria2's page has the port and the scheme aria2   *)
(* is started with.                                                        *)
UrlReachesAria2 ==
    lf.page = "aria2" /\ lf.left # {} =>
        LET url == ShowRPCURL(lf.ui) run == Aria2Start(lf.store["aria2"])
        IN  url.port = run.port /\ url.secure = run.secure

(* What rtp2httpd's page accepts is what the server runs with.             *)
AcceptedIsHonoured ==
    lf.page = "rtp2httpd" /\ lf.left # {} =>
        LET uci == lf.store["rtp2httpd"] run == StartInstance(uci)
        IN  /\ uci.maxclients # Unset => run.maxclients = uci.maxclients
            /\ uci.workers # Unset => run.workers = uci.workers
=============================================================================
