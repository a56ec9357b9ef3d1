----------------------------- MODULE Netwizard -----------------------------
(***************************************************************************)
(* The network wizard (luci-app-netwizard): the choice of a mode, the form *)
(* of that mode, the save that ends in a redirection to the router's new   *)
(* address, and the init script that turns the options into the network.   *)
(* nw is the page, the stored options and the network.  LuCI hides a field *)
(* with a style class: the inputs of hidden fields stay in the document,   *)
(* and the page looks its addresses up in the document.                    *)
(***************************************************************************)
EXTENDS LuciForm

CONSTANTS
  LanAddrs,    \* addresses that the LAN may have
  MaxWizard    \* bound: changes of a field
ASSUME NetwizardAssumption == LanAddrs # {} /\ MaxWizard \in Nat

VARIABLE nw
WizardModes == {"pppoe", "dhcp", "siderouter"}
NoAddr == "none"
HomeAddr == CHOOSE a \in LanAddrs : TRUE

(* The fields of renderConfigForm; render takes the default LAN address    *)
(* from the network                                                        *)
In(ms) == {[wan_proto |-> m] : m \in ms}
WithLan(ms) == {[wan_proto |-> m, setlan |-> "1"] : m \in ms}
StaticSide == {[wan_proto |-> "siderouter", lan_proto |-> "static"]}
StaticWan == {[wan_proto |-> "dhcp", dhcp_proto |-> "static"]}
Addr(def) == Field("value", LanAddrs \cup {"", "bad"}, LanAddrs, def)
WanFields ==
  [wan_interface |-> When(WithLan({"pppoe", "dhcp"}), Must(Text("good"))),
   dhcp_proto |-> When(In({"dhcp"}), Must(Choice({"static", "dhcp"}, "dhcp"))),
   wan_dns |-> When(In({"dhcp", "pppoe"}), Checked(""))]
  @@ AllWhen(In({"pppoe"}), [wan_pppoe_user |-> Must(Text("")), wan_pppoe_pass |-> Must(Text(""))])
  @@ AllWhen(StaticWan, [wan_ipaddr |-> Must(Checked("")), wan_netmask |-> Must(Checked("good")),
                         wan_gateway |-> Must(Checked(""))])
LanFields(lan) ==
  [setlan |-> When(In({"pppoe", "dhcp"}), Must(Flag("0"))),
   lan_proto |-> When(In({"siderouter"}), Must(Choice({"static", "dhcp"}, "static"))),
   lan_dns |-> When(In({"siderouter"}), Must(Checked("good"))),
   lan_gateway |-> When(StaticSide, Must(Checked("")))]
  @@ AllWhen(WithLan({"pppoe", "dhcp"}) \cup StaticSide,
       [lan_ipaddr |-> Must(Addr(lan)), lan_netmask |-> Must(Checked("good"))])
OtherFields ==
  [ipv6 |-> Must(Flag("0")), lan_dhcp |-> Must(Flag("0")), https |-> Must(Flag("0")),
   dnsset |-> When({[lan_dhcp |-> "0"]}, Must(Flag("0"))),
   dns_tables |-> When({[dnsset |-> "1"]}, Must(Choice({"1", "good"}, "1"))),
   wifi_ssid |-> Checked(""), wifi_key |-> Checked(""),
   synflood |-> Must(Flag("1")), updatacheck |-> Must(Flag("0"))]
RenderConfigForm(mode, lan) ==
  [wan_proto |-> Must(Choice(WizardModes, mode))] @@ WanFields @@ LanFields(lan) @@ OtherFields

WizardOptions == DOMAIN RenderConfigForm("dhcp", HomeAddr)
WizardUnset == [o \in WizardOptions |-> Unset]

WizardInit ==
  nw = [page |-> "modes", mode |-> "dhcp", store |-> WizardUnset, ui |-> WizardUnset,
        edits |-> 0, target |-> NoAddr, scheme |-> "0",
        net |-> [lan |-> [proto |-> "static", addr |-> HomeAddr],
                 wan |-> "dhcp", https |-> "0"]]

----------------------------------------------------------------------------
(* load, render: the stored address, else the one of the network, else a   *)
(* default of its own                                                      *)
LanIp == IF nw.store.lan_ipaddr # Unset THEN nw.store.lan_ipaddr
         ELSE IF nw.net.lan.addr # NoAddr THEN nw.net.lan.addr ELSE HomeAddr
WizardForm == RenderConfigForm(nw.mode, LanIp)

(* selectMode: stores the mode and leaves for the form at once; the        *)
(* request is lost when the page goes away first                           *)
SelectMode(mode, sent) ==
  /\ nw.page = "modes"
  /\ LET store == IF sent THEN [nw.store EXCEPT !.wan_proto = mode] ELSE nw.store IN
     nw' = [nw EXCEPT !.page = "form", !.mode = mode, !.store = store,
                      !.ui = Shown(RenderConfigForm(mode, LanIp), store)]
BackToModes == nw.page = "form" /\ nw' = [nw EXCEPT !.page = "modes"]

EditWizard(o, v) ==
  /\ nw.page = "form" /\ nw.edits < MaxWizard /\ o # "wan_proto"
  /\ o \in Active(WizardForm, nw.ui) /\ v \in WizardForm[o].vals /\ v # nw.ui[o]
  /\ nw' = [nw EXCEPT !.ui[o] = v, !.edits = @ + 1]

----------------------------------------------------------------------------
(* getNewLanIP, getNewhttps, getLanproto: what the inputs of the document  *)
(* hold, hidden ones included                                              *)
GetNewLanIP == IF nw.ui.lan_ipaddr \in LanAddrs THEN nw.ui.lan_ipaddr ELSE LanIp
GetNewhttps == nw.ui.https
GetLanproto == nw.ui.lan_proto = "dhcp"
CurrentHttps == IF nw.store.https = Unset THEN "0" ELSE nw.store.https

(* m.save: the form's own save, then a message, a warning or a countdown   *)
SaveWizard ==
  /\ nw.page = "form"
  /\ IF Accepted(WizardForm, nw.ui)
     THEN nw' = [nw EXCEPT
            !.page = IF GetNewhttps = "0" /\ GetNewLanIP = LanIp /\ CurrentHttps = GetNewhttps
                        /\ ~GetLanproto
                     THEN "saved" ELSE IF GetLanproto THEN "warned" ELSE "countdown",
            !.target = GetNewLanIP, !.scheme = GetNewhttps,
            !.store = Stored(WizardForm, nw.store, nw.ui)]
     ELSE UNCHANGED nw

(* configure_network, setforwarding, sethttps: the network of the options  *)
ConfigureNetwork(s, net) ==
  LET mode == IF s.wan_proto = Unset THEN net.wan ELSE s.wan_proto
      lan == CASE mode # "siderouter" ->
                    [net.lan EXCEPT !.addr = IF s.lan_ipaddr # Unset THEN s.lan_ipaddr ELSE @]
               [] mode = "siderouter" /\ s.lan_proto = "dhcp" -> [proto |-> "dhcp", addr |-> NoAddr]
               [] OTHER -> [proto |-> "static",
                            addr |-> IF s.lan_ipaddr # Unset THEN s.lan_ipaddr ELSE net.lan.addr]
  IN [lan |-> lan, https |-> IF s.https = "1" THEN "1" ELSE "0",
      wan |-> IF mode = "dhcp" /\ s.dhcp_proto = "static" THEN "static" ELSE mode]
ApplyWizard ==
  /\ nw.page \in {"saved", "warned", "countdown"}
  /\ nw' = [nw EXCEPT !.net = ConfigureNetwork(nw.store, nw.net),
                      !.page = IF @ = "countdown" THEN "redirect" ELSE "form"]
(* redirectToNewIP: the countdown or its button                            *)
RedirectToNewIP ==
  /\ nw.page = "redirect"
  /\ nw' = [nw EXCEPT !.page = "modes", !.target = NoAddr]

WizardNext ==
  \/ \E m \in WizardModes, sent \in BOOLEAN : SelectMode(m, sent)
  \/ \E o \in WizardOptions : \E v \in WizardForm[o].vals : EditWizard(o, v)
  \/ BackToModes \/ SaveWizard \/ ApplyWizard \/ RedirectToNewIP
WizardSpec == WizardInit /\ [][WizardNext]_nw

----------------------------------------------------------------------------
(* The message of the countdown: the configuration "has been saved and     *)
(* applied", and the page redirects to an address the router has.          *)
RedirectsToRouter ==
  nw.page = "redirect" => nw.net.lan = [proto |-> "static", addr |-> nw.target]
(* The page goes to the protocol that the router serves after the save,    *)
(* whatever was switched before it.                                        *)
RedirectProtocol == nw.page = "redirect" => nw.net.https = nw.scheme
(* A router whose uplink is its own serves its LAN from a fixed address.   *)
RouterHasAddress ==
  nw.net.wan \in {"pppoe", "dhcp", "static"} => nw.net.lan.proto = "static"
=============================================================================
