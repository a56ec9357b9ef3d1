---------------------------- MODULE SmartdnsForm ----------------------------
(***************************************************************************)
(* The settings page of SmartDNS (luci-app-smartdns, smartdns.js).  The    *)
(* code writes "rempty" where rmempty is meant: LuCI ignores it, so these  *)
(* options may be empty.  One section of each kind stands for the others.  *)
(***************************************************************************)
EXTENDS LuciForm

(* speed_check_mode: every element a ping, or a TCP probe that has a port  *)
SpeedCheckMode == Among({"", "none", "ping", "tcp:80", "tcp-syn:443"}, {"tcp:", "tcp-syn:", "junk"}, "")

SmartdnsSettings ==
  [enabled |-> Must(Flag("0")), server_name |-> Checked(""),
   port |-> Among({"", "53", "6053"}, {"bad"}, "53"), auto_set_dnsmasq |-> Must(Flag("1"))]
(* only where the plugin is installed                                      *)
SmartdnsWebUi ==
  [ui |-> Must(Flag("0"))]
  @@ AllWhen({[ui |-> "1"]},
       [ui_port |-> Checked(""), ui_data_dir |-> Text(""), ui_log_max_age |-> Checked("")])
Tls == {[tls_server |-> "1"]}
Doh == {[doh_server |-> "1"]}
SmartdnsServers ==
  [speed_check_mode |-> SpeedCheckMode,
   response_mode |-> Choice({"", "first-ping", "fastest-ip", "fastest-response"}, ""),
   tcp_server |-> Must(Flag("1")), tls_server |-> Must(Flag("0")),
   tls_server_port |-> When(Tls, Checked("853")), doh_server |-> Must(Flag("0")),
   ddr |-> Flag("0"), doh_server_port |-> When(Doh, Checked("843"))]
  @@ AllWhen(Tls \cup Doh,
       [bind_cert |-> Text(""), bind_cert_key |-> Text(""), bind_cert_key_pass |-> Text("")])
  @@ [ipv6_server |-> Must(Flag("1")), bind_device |-> Must(Flag("1")),
      bind_device_name |-> Text("")]
SmartdnsCache ==
  [dualstack_ip_selection |-> Must(Flag("1")), prefetch_domain |-> Flag("0"),
   serve_expired |-> Must(Flag("1")), cache_size |-> Text(""), cache_persist |-> Must(Flag("1")),
   resolve_local_hostnames |-> Must(Flag("1")), mdns_lookup |-> Flag("0"),
   force_aaaa_soa |-> Flag("0"), force_https_soa |-> Must(Flag("1"))]
SmartdnsSets ==
  [ipset_name |-> Checked(""), ipset_no_speed |-> Checked(""), nftset_name |-> Checked(""),
   nftset_no_speed |-> Checked(""), rr_ttl |-> Text(""), rr_ttl_min |-> Text("600"),
   rr_ttl_max |-> Text(""), rr_ttl_reply_max |-> Text(""), server_flags |-> Text(""),
   conf_files |-> Text(""), hosts_files |-> Text("")]
SmartdnsSecond ==
  [seconddns_enabled |-> Flag("0"), seconddns_port |-> Checked("6553"),
   seconddns_tcp_server |-> Must(Flag("1")), seconddns_server_group |-> Checked(""),
   seconddns_no_speed_check |-> Flag("0"), seconddns_no_rule_addr |-> Flag("0"),
   seconddns_no_rule_nameserver |-> Flag("0"), seconddns_no_rule_ipset |-> Flag("0"),
   seconddns_no_rule_soa |-> Flag("0"), seconddns_no_dualstack_selection |-> Flag("0"),
   seconddns_no_cache |-> Flag("0"), seconddns_force_aaaa_soa |-> Flag("0"),
   seconddns_force_https_soa |-> Flag("0"), seconddns_no_ip_alias |-> Flag("0"),
   seconddns_ipset_name |-> Checked(""), seconddns_nftset_name |-> Checked(""),
   seconddns_server_flags |-> Text(""), dns64 |-> Checked("")]
Daily == {[enable_auto_update |-> "1"]}
SmartdnsFiles ==
  [enable_auto_update |-> Flag("0"),
   auto_update_week_time |-> When(Daily, Choice({"*", "0", "6"}, "*")),
   auto_update_day_time |-> When(Daily, Choice({"0", "5", "23"}, "5")),
   upload_conf_file |-> Checked(""), upload_list_file |-> Checked(""),
   upload_other_file |-> Checked(""), _update |-> Button]
SmartdnsDownload ==
  [name |-> Checked(""), url |-> Checked(""),
   type |-> Choice({"list", "config", "ip-set", "other"}, "list"), desc |-> Text("")]
Logged == {[log_output_mode |-> "file"]}
Audited == {[enable_audit_log |-> "1", audit_log_output_mode |-> "file"]}
SmartdnsCustom ==
  [proxy_server |-> Among({"", "socks5", "http"}, {"ftp"}, ""), custom_conf |-> TextFile,
   coredump |-> Flag("0"),
   log_level |-> Choice({"", "debug", "fatal", "off"}, ""),
   log_output_mode |-> Choice({"file", "syslog"}, "file")]
  @@ AllWhen(Logged, [log_size |-> Text(""), log_num |-> Text(""), log_file |-> Text("")])
  @@ [view_log |-> When({[log_output_mode |-> "file", log_level |-> l] : l \in {"debug", "fatal"}}, Button),
      enable_audit_log |-> Flag("0"),
      audit_log_output_mode |-> When({[enable_audit_log |-> "1"]}, Choice({"file", "syslog"}, "file"))]
  @@ AllWhen(Audited,
       [audit_log_size |-> Text(""), audit_log_num |-> Text(""), audit_log_file |-> Text("")])
SmartdnsSupport == [web |-> Button, report |-> Button, Donate |-> Button, _restart |-> Button]

OfType(ts) == {[type |-> t] : t \in ts}
Secured == OfType({"tls", "https", "quic", "h3"})
SmartdnsUpstream ==
  [enabled |-> Must(Flag("1")), name |-> Text(""), ip |-> Must(Text("")),
   port |-> When(OfType({"udp", "tcp", "tls", "quic"}), Checked("")),
   type |-> Choice({"udp", "tcp", "tls", "https", "quic", "h3"}, "udp"),
   server_group |-> Checked("")]
SmartdnsUpstreamTls ==
  [exclude_default_group |-> Flag("0"), blacklist_ip |-> Flag("0"),
   set_mark |-> Checked(""), use_proxy |-> Flag("0"), fallback |-> Flag("0"),
   addition_arg |-> Text("")]
  @@ AllWhen(Secured,
       [tls_host_verify |-> Text(""), no_check_certificate |-> Flag("0"),
        host_name |-> Checked(""), spki_pin |-> Text("")])
  @@ [http_host |-> When(OfType({"https", "h3"}), Checked(""))]
SmartdnsClientRule ==
  [enabled |-> Must(Flag("0")), client_addr |-> Checked(""), client_addr_file |-> Checked(""),
   server_group |-> Checked(""), speed_check_mode |-> SpeedCheckMode,
   dualstack_ip_selection |-> Must(Flag("1")), force_aaaa_soa |-> Flag("0"),
   force_https_soa |-> Must(Flag("1")), ipset_name |-> Checked(""), nftset_name |-> Checked(""),
   conf_files |-> Text(""), block_domain_set_file |-> Checked("")]
SmartdnsForwarding ==
  [server_group |-> Checked(""), speed_check_mode |-> SpeedCheckMode,
   dualstack_ip_selection |-> Choice({"", "yes", "no"}, ""), force_aaaa_soa |-> Flag("0"),
   ipset_name |-> Checked(""), nftset_name |-> Checked(""), addition_flag |-> Text(""),
   forwarding_domain_set_file |-> Checked(""), domain_forwarding_list |-> TextFile]
SmartdnsBlock ==
  [block_domain_set_file |-> Checked(""), domain_block_list |-> TextFile,
   address_conf |-> TextFile]
SmartdnsRuleList ==
  [enabled |-> Must(Flag("1")), name |-> Text(""), server_group |-> Checked(""),
   domain_list_file |-> Checked(""), block_domain_type |-> Choice({"none", "all", "ipv4", "ipv6"}, "none"),
   dualstack_ip_selection |-> Choice({"", "yes", "no"}, ""), speed_check_mode |-> SpeedCheckMode,
   force_aaaa_soa |-> Flag("0"), ipset_name |-> Checked(""), nftset_name |-> Checked(""),
   addition_flag |-> Text("")]
SmartdnsIpRules ==
  [enabled |-> Must(Flag("1")), name |-> Text(""), ip_set_file |-> Checked(""),
   ip_addr |-> Checked(""), whitelist_ip |-> Flag("0"), blacklist_ip |-> Flag("0"),
   ignore_ip |-> Flag("0"), bogus_nxdomain |-> Flag("0"), ip_alias |-> Checked(""),
   addition_flag |-> Text(""), blackip_ip_conf |-> TextFile]

SmartdnsPages ==
  [smartdns |-> SmartdnsSettings @@ SmartdnsWebUi @@ SmartdnsServers @@ SmartdnsCache @@ SmartdnsSets
                @@ SmartdnsSecond @@ SmartdnsFiles @@ SmartdnsCustom @@ SmartdnsSupport,
   download_file |-> SmartdnsDownload,
   server |-> SmartdnsUpstream @@ SmartdnsUpstreamTls,
   client_rule |-> SmartdnsClientRule,
   domain_rule |-> SmartdnsForwarding @@ SmartdnsBlock,
   domain_rule_list |-> SmartdnsRuleList,
   ip_rule |-> SmartdnsIpRules]

----------------------------------------------------------------------------
(* The validate functions that read another section as it is stored: the   *)
(* proxy of a server, the server group of a rule                           *)
UseProxy(store, ui) ==
  LET proxy == store.smartdns.proxy_server IN
  \/ ui.use_proxy = "0"
  \/ /\ proxy # Unset
     /\ ui.type \in {"udp", "quic", "h3"} => proxy = "socks5"
ServerGroup(store, ui) ==
  \/ ui.server_group # "good"
  \/ store.server.server_group = "good"
SmartdnsAccepts(store, page, ui) ==
  /\ page = "server" => UseProxy(store, ui)
  /\ page \in {"client_rule", "domain_rule", "domain_rule_list"} => ServerGroup(store, ui)

(* getServiceStatus, smartdnsRenderStatus: what the status line reports    *)
SmartdnsRenderStatus(running, store, dnsmasq) ==
  LET u == store.smartdns IN
  IF ~running THEN (IF u.enabled = "1" THEN "check the log" ELSE "not running")
  ELSE IF u.auto_set_dnsmasq = "1" /\ u.port # "53" /\ dnsmasq # u.port THEN "not forwarded"
  ELSE "running"
(* A service that runs is only called not forwarded when dnsmasq was to be *)
(* set and clients reach neither smartdns itself nor dnsmasq's forwarding. *)
ASSUME StatusIsReachable ==
  \A enabled, auto \in {"0", "1"}, port, dnsmasq \in {"53", "6053"} :
    LET store == [smartdns |-> [enabled |-> enabled, auto_set_dnsmasq |-> auto, port |-> port]]
        text  == SmartdnsRenderStatus(TRUE, store, dnsmasq)
    IN  /\ (text = "not forwarded") <=> (auto = "1" /\ port # "53" /\ dnsmasq # port)
        /\ SmartdnsRenderStatus(FALSE, store, dnsmasq) \in {"check the log", "not running"}
=============================================================================
