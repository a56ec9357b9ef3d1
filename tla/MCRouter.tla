------------------------------ MODULE MCRouter ------------------------------
(***************************************************************************)
(* The pages that configure the router or list what it does.  They share   *)
(* no variable: part says which of them this behaviour is about; the       *)
(* others stay in an initial state.  The modules without variables         *)
(* (LanspeedRows, LanspeedSchema) are checked through their assumptions.   *)
(***************************************************************************)
EXTENDS BandixDialogs, BandixLists, Netwizard, LanspeedRows, LanspeedDetail,
        LanspeedDiagnostics, LanspeedSchema, NetwizWifi, NetwizSetup, NetwizTools,
        NetwizAdvanced, NetwizDevices, LuciPages

VARIABLE part
routerVars == <<part, bxs, bx, dq, dt, cf, bw, nw, ld, geo, dg, nf, na, nu, no, nb,
                nv, nh, nz, ns, nd, nk, nx, lf, ab>>

MCSlots == {[start |-> 2, end |-> 0, days |-> {1}]}
MCClock == {[day |-> 1, time |-> 0]}
MCRates == {<<7, 8>>}
MCKeyOf == [a1 |-> "a", a2 |-> "a", b |-> "b"]
MCDetailPages == {{"a1", "b"}, {"a1", "a2"}}
MCNames == {<<"H", "none">>, <<"G", "5g">>}
MCStoredNets ==
  {[ssid |-> s, key |-> k, enc |-> IF k = "" THEN "none" ELSE "psk", off |-> FALSE,
    roam |-> FALSE, domain |-> FALSE] : s \in MCNames \cup {NoSsid}, k \in {"", "long"}}
MCTyped == {<<2, 1>>, <<4, 1>>}
MCWanAddr == <<4, 9>>
MCGateway == <<4, 1>>
MCModules == <<"a", "b", "c">>
MCNeighbourhoods ==
  {[gw |-> [ip |-> 1, bound |-> 0], m1 |-> [ip |-> 5, bound |-> 0],
    m2 |-> [ip |-> 50, bound |-> 0], m3 |-> [ip |-> Foreign, bound |-> 51]]}
MCDevType == [gw |-> "type_other", m1 |-> "mobile", m2 |-> "pc", m3 |-> "mobile"]
MCSmartZone == [mobile |-> <<3, 5>>, pc |-> <<6, 8>>, iot |-> <<9, 10>>, type_other |-> <<11, 12>>]
MCFormPages == DOMAIN PageForms
MCFieldChanges == [p \in DOMAIN PageForms |-> IF p \in {"rtp2httpd", "aria2"} THEN 2 ELSE 1]

RouterInit ==
  /\ part \in {"dialogs", "dns", "stats", "flows", "limits", "wizard", "detail", "diagnostics",
               "wifi", "lan", "ota", "queue", "backup", "web", "hosts", "guide", "status",
               "devices", "heartbeats", "dialog", "forms"}
  /\ BxInit /\ (part # "dialogs" => bxs = {})
  /\ DnsInit /\ StatsInit /\ ConnectionsInit /\ WhitelistInit /\ WizardInit
  /\ DetailInit /\ (part # "detail" => ~ld.paused /\ ld.ips = {"a1", "b"} /\ geo = CHOOSE g \in GeoStart : g.store = <<>>)
  /\ (part = "detail" => \A i \in DOMAIN geo.store : ~ld.paused /\ geo.store[i].key = "a")
  /\ DiagnosticsInit
  /\ NetwizWifiInit /\ (part # "wifi" => nf.radios = "tri")
  /\ NetwizSetupInit /\ NetwizToolsInit
  /\ WebInit /\ (part # "web" => nv.router = [rule |-> "off", port |-> "", v6 |-> FALSE])
  /\ HostsInit
  /\ GuideInit
  /\ (part # "guide" => /\ nz.p = GuidePage([configured |-> TRUE, enable |-> TRUE], FALSE, FALSE, FALSE)
                        /\ nz.router.configured /\ nz.router.enable
                        /\ ~nz.never /\ ~nz.wifi /\ ~nz.conflict)
  /\ StatusInit /\ (part # "status" => ns.proto = "" /\ ~ns.bypass /\ ns.wisp = "none" /\ ns.link)
  /\ DevicesInit /\ KeepAliveInit /\ DialogInit
  /\ FormsInit /\ (part # "forms" => lf.page = "msd_lite")
  /\ AdblockInit

(* Only the chosen part changes.                                           *)
RouterNext ==
  /\ UNCHANGED <<part, ab>>
  /\ IF part = "dialogs" THEN BxNext ELSE UNCHANGED <<bxs, bx>>
  /\ IF part = "dns" THEN DnsNext ELSE UNCHANGED dq
  /\ IF part = "stats" THEN DnsStatsNext ELSE UNCHANGED dt
  /\ IF part = "flows" THEN ConnectionsNext ELSE UNCHANGED cf
  /\ IF part = "limits" THEN WhitelistNext ELSE UNCHANGED bw
  /\ IF part = "wizard" THEN WizardNext ELSE UNCHANGED nw
  /\ IF part = "detail" THEN DetailNext ELSE UNCHANGED <<ld, geo>>
  /\ IF part = "diagnostics" THEN DiagnosticsNext ELSE UNCHANGED dg
  /\ IF part = "wifi" THEN NetwizWifiNext ELSE UNCHANGED nf
  /\ IF part = "lan" THEN NetwizSetupNext ELSE UNCHANGED na
  /\ IF part = "ota" THEN UpdateNext ELSE UNCHANGED nu
  /\ IF part = "queue" THEN QueueNext ELSE UNCHANGED no
  /\ IF part = "backup" THEN BackupNext ELSE UNCHANGED nb
  /\ IF part = "web" THEN WebNext ELSE UNCHANGED nv
  /\ IF part = "hosts" THEN HostsNext ELSE UNCHANGED nh
  /\ IF part = "guide" THEN GuideNext ELSE UNCHANGED nz
  /\ IF part = "status" THEN StatusNext ELSE UNCHANGED ns
  /\ IF part = "devices" THEN DevicesNext ELSE UNCHANGED nd
  /\ IF part = "heartbeats" THEN KeepAliveNext ELSE UNCHANGED nk
  /\ IF part = "dialog" THEN DialogNext ELSE UNCHANGED nx
  /\ IF part = "forms" THEN FormsNext ELSE UNCHANGED lf

RouterSpec == RouterInit /\ [][RouterNext]_routerVars

----------------------------------------------------------------------------
(* What the pages of bandix show is what the router has: a dialog lists    *)
(* the rules of its own device, the badge and the list of the global limit *)
(* agree with the service, the overlays of the DNS list go away, the       *)
(* connections shown are of the page the buttons start from.               *)
BandixTellsTheTruth ==
  /\ part = "dialogs" => OwnRulesOnly
  /\ part = "limits" => BadgeSettles
  /\ part = "dns" => DnsListReadable
  /\ part = "flows" => FlowsPageAgrees

(* The pages of a client and of the daemon's health keep up: lookups are   *)
(* bounded and not repeated, the page of a client never stops refreshing,  *)
(* and a result kept through failures is a recent one.                     *)
LanspeedKeepsUp ==
  /\ part = "detail" => LookupsBounded /\ DetailNeverStalls
  /\ part = "diagnostics" => RetainedIsRecent

(* What netwiz sends to the router was checked and is what the user was    *)
(* shown: the Wi-Fi of every radio but a third one (whose fields nothing   *)
(* checks) has its key, or the user agreed to an open one; the listed      *)
(* settings and no others,                                                 *)
(* one download for one backup.                                            *)
NetwizSendsSound ==
  /\ part = "wifi" => SentIsProtected
  /\ part = "guide" => GuideSendsListed
  /\ part = "backup" => OneDownload

(* No lock or queue of netwiz outlives what it waits for: the lock of the  *)
(* port field has a call under way, and heartbeats that wait have a slot   *)
(* that will be freed.                                                     *)
NetwizNeverStuck ==
  /\ part = "web" => PortLockReleased
  /\ part = "heartbeats" => KeepAliveFlows

(* Tables, lists and forms that the user edits before they are stored: the *)
(* plan of a batch gives no address twice and the host list names no host  *)
(* twice; what was saved is what the page shows when it is opened again,   *)
(* the status page opens at the address rtp2httpd gives for itself, the    *)
(* address that aria2's page shows is one aria2 answers, and the older     *)
(* network wizard leads to the scheme the router now serves.               *)
ListsAndFormsHonoured ==
  /\ part = "devices" => BatchPlanIsFree
  /\ part = "hosts" => HostsUnique
  /\ part = "forms" => SavedIsShown /\ OpensServer /\ UrlReachesAria2
  /\ part = "wizard" => RedirectProtocol
=============================================================================
