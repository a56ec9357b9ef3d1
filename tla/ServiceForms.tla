---------------------------- MODULE ServiceForms ----------------------------
(***************************************************************************)
(* The settings pages of the smaller services, of the themes and of        *)
(* rtp2httpd, and what the pages and init scripts of aria2 and rtp2httpd   *)
(* make of the same settings.  A row of a table section is a form of its   *)
(* own.                                                                    *)
(***************************************************************************)
EXTENDS LuciForm

----------------------------------------------------------------------------
(* mosdns                                                                  *)
Managed == {[configfile |-> "default"]}
MosdnsGeneral ==
  [enabled |-> Must(Flag("0")), configfile |-> Must(Choice({"default", "custom"}, "default"))]
  @@ AllWhen(Managed,
       [listen_port |-> Checked("5335"), listen_address |-> Checked("0.0.0.0"),
        log_level |-> Choice({"debug", "info", "error"}, "info"),
        log_file |-> Must(Text("/var/log/mosdns.log")),
        prefer_ipv4_cn |-> Flag("0"), prefer_ipv4 |-> Flag("0"),
        custom_local_dns |-> Flag("0"), remote_dns |-> Text("tls://8.8.8.8"),
        custom_stream_media_dns |-> Flag("0"), bootstrap_dns |-> Text("119.29.29.29")])
  @@ [redirect |-> Flag("0"), local_dns_redirect |-> When({[redirect |-> "1"]}, Flag("0")),
      stream_media_dns |-> When({[custom_stream_media_dns |-> "1"]}, Text(""))]
  @@ AllWhen({[custom_local_dns |-> "1"]},
       [apple_optimization |-> Flag("0"), local_dns |-> Text("119.29.29.29")])
MosdnsAdvanced ==
  AllWhen(Managed,
    [concurrent |-> Choice({"1", "2", "3"}, "2"), idle_timeout |-> Checked("30"),
     enable_pipeline |-> Must(Flag("0")), insecure_skip_verify |-> Must(Flag("0")),
     enable_ecs_remote |-> Must(Flag("0")), dns_leak |-> Must(Flag("0")),
     cache |-> Must(Flag("0")), minimal_ttl |-> Checked("0"), maximum_ttl |-> Checked("0"),
     reject_type65 |-> Flag("0"), adblock |-> Flag("0"), cloudflare |-> Must(Flag("0")),
     cloudflare_ip |-> Checked(""), _cloudflare |-> TextFile,
     listen_port_api |-> Checked("52001")])
  @@ [remote_ecs_ip |-> When({[enable_ecs_remote |-> "1"]}, Checked("")),
      dump_interval |-> When({[dump_file |-> "1"]}, Checked("3600")),
      ad_source |-> When({[adblock |-> "1"]}, Text("geosite.dat"))]
  @@ AllWhen({[cache |-> "1"]},
       [cache_size |-> Checked("8000"), lazy_cache_ttl |-> Checked("86400"),
        dump_file |-> Must(Flag("0")), _flush_cache |-> Button])
MosdnsCustom ==
  AllWhen({[configfile |-> "custom"]},
    [_custom |-> TextFile, geosite_tags |-> Text(""), geoip_tags |-> Text("")])
MosdnsForm == MosdnsGeneral @@ MosdnsAdvanced @@ MosdnsCustom
MosdnsRules ==
  [whitelist |-> RulesFile, blocklist |-> RulesFile, greylist |-> RulesFile,
   ddnslist |-> RulesFile, hostslist |-> RulesFile, redirectlist |-> RulesFile,
   localptrlist |-> RulesFile, streamingmedialist |-> RulesFile]
MosdnsUpdate ==
  [geo_auto_update |-> Must(Flag("0")), geo_update_week_time |-> Choice({"*", "1", "0", "3"}, "3"),
   geo_update_day_time |-> Choice({"0", "3", "23"}, "3"),
   geoip_type |-> Must(Choice({"geoip", "geoip-only-cn-private"}, "geoip-only-cn-private")),
   github_proxy |-> Text(""), _udpate |-> Button]

----------------------------------------------------------------------------
(* aria2, for a build with every feature                                   *)
AriaBasic ==
  [enabled |-> Must(Flag("0")), user |-> Text(""), dir |-> Must(Text("")),
   config_dir |-> Text(""), enable_logging |-> Must(Flag("0")),
   max_concurrent_downloads |-> Text("")]
  @@ AllWhen({[enable_logging |-> "1"]},
       [log |-> Text(""), log_level |-> Choice({"debug", "warn", "error"}, "warn")])
AriaRpc ==
  [pause |-> Truth("false"), pause_metadata |-> Truth("false"),
   rpc_listen_port |-> Among({"", "1024", "65535"}, {"1023"}, ""),
   rpc_auth_method |-> Choice({"none", "user_pass", "token"}, "none"),
   rpc_secret |-> When({[rpc_auth_method |-> "token"]}, Text("")),
   rpc_secure |-> Must(Truth("false")), _rpc_url |-> Button]
  @@ AllWhen({[rpc_auth_method |-> "user_pass"]}, [rpc_user |-> Text(""), rpc_passwd |-> Text("")])
AriaCertificate ==
  AllWhen({[rpc_secure |-> "true"]},
    [rpc_certificate |-> Must(Text("")), rpc_private_key |-> Must(Text(""))])
AriaHttp ==
  [enable_proxy |-> Must(Flag("0")), check_certificate |-> Must(Truth("true")),
   ca_certificate |-> When({[check_certificate |-> "true"]}, Text("")),
   certificate |-> Text(""), private_key |-> Text(""), http_accept_gzip |-> Truth("false"),
   http_no_cache |-> Truth("false"), header |-> Text(""), connect_timeout |-> Checked(""),
   timeout |-> Checked(""), lowest_speed_limit |-> Text(""),
   max_connection_per_server |-> Checked(""), split |-> Checked(""), min_split_size |-> Text(""),
   max_tries |-> Checked(""), retry_wait |-> Checked(""), user_agent |-> Text("")]
  @@ AllWhen({[enable_proxy |-> "1"]},
       [all_proxy |-> Text(""), all_proxy_user |-> Text(""), all_proxy_passwd |-> Text("")])
AriaBt ==
  [enable_dht |-> Must(Truth("true")), enable_dht6 |-> Must(Truth("false")),
   bt_enable_lpd |-> Truth("false"), enable_peer_exchange |-> Must(Truth("true")),
   bt_save_metadata |-> Truth("false"), bt_remove_unselected_file |-> Truth("false"),
   bt_seed_unverified |-> Truth("false"), listen_port |-> Text(""),
   dht_listen_port |-> When({[enable_dht |-> "true"], [enable_dht6 |-> "true"]}, Text("")),
   follow_torrent |-> Choice({"true", "false", "mem"}, "true"),
   max_overall_upload_limit |-> Text(""), max_upload_limit |-> Text(""),
   bt_max_open_files |-> Checked(""), bt_max_peers |-> Checked(""),
   bt_request_peer_speed_limit |-> Text(""), bt_stop_timeout |-> Checked(""),
   peer_id_prefix |-> Text(""), seed_ratio |-> Checked(""), seed_time |-> Checked(""),
   bt_tracker |-> Text("")]
AriaAdvance ==
  [disable_ipv6 |-> Truth("false"), auto_save_interval |-> Among({"", "0", "600"}, {"601"}, ""),
   save_session_interval |-> Checked(""), disk_cache |-> Text(""),
   file_allocation |-> Choice({"none", "prealloc", "trunc", "falloc"}, "prealloc"),
   force_save |-> Truth("false"), max_overall_download_limit |-> Text(""),
   max_download_limit |-> Text(""), extra_settings |-> Text("")]
AriaForm == AriaBasic @@ AriaRpc @@ AriaCertificate @@ AriaHttp @@ AriaBt @@ AriaAdvance

(* The URL the page offers, from what is in its fields.  A hidden field    *)
(* has no form value.                                                      *)
ShowRPCURL(ui) ==
  LET shows == Active(AriaForm, ui)
      getOptVal(o, def) == IF o \in shows /\ ui[o] # "" THEN ui[o] ELSE def
      method == getOptVal("rpc_auth_method", "none") IN
  [port |-> getOptVal("rpc_listen_port", "6800"),
   secure |-> getOptVal("rpc_secure", "false") = "true",
   auth |-> CASE method = "token" /\ getOptVal("rpc_secret", "") # "" -> "token"
              [] /\ method = "user_pass" /\ getOptVal("rpc_user", "") # ""
                 /\ getOptVal("rpc_passwd", "") # "" -> "user"
              [] OTHER -> "none"]

(* How aria2 is started for the stored settings (aria2.init); 6800 is      *)
(* aria2's own default                                                     *)
Aria2Start(uci) ==
  LET set(o) == uci[o] # Unset IN
  [port |-> IF set("rpc_listen_port") THEN uci.rpc_listen_port ELSE "6800",
   secure |-> uci.rpc_secure = "true" /\ set("rpc_certificate"),
   auth |-> CASE uci.rpc_auth_method = "token" /\ set("rpc_secret") -> "token"
              [] uci.rpc_auth_method = "user_pass" /\ set("rpc_user") -> "user"
              [] uci.rpc_auth_method = Unset /\ set("rpc_secret") -> "token"
              [] uci.rpc_auth_method = Unset /\ ~set("rpc_secret") /\ set("rpc_user") -> "user"
              [] OTHER -> "none"]

----------------------------------------------------------------------------
(* unblockneteasemusic: music_source is one flag for each source that some *)
(* field depends on                                                        *)
Source(names) == {[n \in {m} |-> "1"] : m \in names}
Lossless == {"source_kugou", "source_kuwo", "source_migu", "source_pyncmd", "source_qq"}
UnmSources ==
  [enable |-> Must(Flag("0")), source_joox |-> Flag("0"), source_youtube |-> Flag("0"),
   joox_cookie |-> When(Source({"source_joox"}), Must(Text(""))),
   migu_cookie |-> When(Source({"source_migu"}), Text("")),
   qq_cookie |-> When(Source({"source_qq"}), Must(Text(""))),
   youtube_key |-> When(Source({"source_youtube"}), Text("")),
   follow_source_order |-> Flag("0"), search_album |-> Flag("0"),
   enable_flac |-> When(Source(Lossless) \cup
                         {[n \in Lossless \cup {"source_joox", "source_youtube"} |-> "0"]}, Flag("0")),
   select_max_br |-> When({[enable_flac |-> "1"]}, Flag("0")),
   replace_music_source |-> Choice({"dont_replace", "lower_than_192kbps", "replace_all"},
                                   "dont_replace"),
   disable_upgrade_check |-> Flag("0"), block_ads |-> Flag("0"),
   local_vip |-> Choice({"", "cvip", "svip"}, ""), auto_update |-> Flag("0"),
   update_time |-> When({[auto_update |-> "1"]}, Choice({"0", "3", "23"}, "3")),
   _download_cert |-> Button]
  @@ [n \in Lossless |-> Flag("0")]
Expert == {[advanced_mode |-> "1"]}
UnmPorts ==
  AllWhen({[hijack_ways |-> "dont_hijack"], [hijack_ways |-> "use_ipset"]},
    [http_port |-> Must(Checked("5200")), https_port |-> Must(Checked("5201"))])
UnmAdvanced ==
  [advanced_mode |-> Flag("0")]
  @@ AllWhen(Expert,
       [log_level |-> Choice({"debug", "info", "silent"}, "info"),
        endpoint_url |-> Must(Text("https://music.163.com")), cnrelay |-> Text(""),
        hijack_ways |-> Must(Choice({"dont_hijack", "use_ipset", "use_hosts"}, "dont_hijack")),
        pub_access |-> Flag("0"), strict_mode |-> Flag("0"), netease_server_ip |-> Checked(""),
        proxy_server_ip |-> Text(""), self_issue_cert_crt |-> Checked("core"),
        self_issue_cert_key |-> Checked("core")])
  @@ [_upload_cert |-> When({[self_issue_cert_crt |-> "good"]}, Button),
      _upload_key |-> When({[self_issue_cert_key |-> "good"]}, Button)]
UnmForm == UnmSources @@ UnmPorts @@ UnmAdvanced
UnmAcl ==
  [enable |-> Must(Flag("1")), mac_addr |-> Must(Checked("")),
   filter_mode |-> Must(Choice({"disable_all", "disable_http", "disable_https"}, "disable_all"))]

(* watchdog: login_control is one flag for each choice                     *)
Attempts == {[web_login_failed |-> "1"], [ssh_login_failed |-> "1"]}
WatchdogForm ==
  [enable |-> Flag("0"), sleeptime |-> Must(Among({"", "10"}, {"9"}, "")),
   web_logged |-> Flag("0"), ssh_logged |-> Flag("0"), web_login_failed |-> Flag("0"),
   ssh_login_failed |-> Flag("0"),
   login_max_num |-> When(Attempts, Must(Among({"", "1", "3"}, {"0"}, "3"))),
   login_web_black |-> When(Attempts, Flag("0"))]
WatchdogBlacklist ==
  AllWhen({[login_web_black |-> "1"]},
    [login_ip_black_timeout |-> Must(Checked("86400"))])
  @@ [ip_black_list |-> TextFile]

(* The noobwrt theme; transparency is not checked                          *)
NoobwrtForm ==
  [auto_dark_mode |-> Flag("1"), mode |-> Choice({"normal", "dark"}, "normal"),
   primary |-> Must(Text("")), dark_primary |-> Must(Text("")),
   online_wallpaper |-> Choice({"none", "bing", "picsum", "wikimedia"}, "none"),
   _wallpaper_ui |-> Button, blur |-> Checked(""), blur_dark |-> Checked(""),
   transparency |-> Text(""), transparency_dark |-> Text("")]
NoobwrtToolbar ==
  [enabled |-> Flag("1"), title |-> Must(Text("")), url |-> Must(Text("")),
   icon |-> Choice({"home.png", "info.png"}, "home.png"), order |-> Checked("")]
(* Without /etc/config/noobwrt the page starts from these settings         *)
NoobwrtDefaults ==
  [mode |-> "normal", primary |-> "good", dark_primary |-> "good", blur |-> "good",
   blur_dark |-> "good", transparency |-> "good", transparency_dark |-> "good",
   online_wallpaper |-> "none", auto_dark_mode |-> "0"]

----------------------------------------------------------------------------
(* The argon theme: every field has a default and must be filled           *)
ArgonForm ==
  [online_wallpaper |-> Must(Choice({"none", "bing", "unsplash", "wallhaven"}, "bing")),
   mode |-> Must(Choice({"normal", "light", "dark"}, "normal")),
   primary |-> Must(Checked("#5e72e4")), dark_primary |-> Must(Checked("#483d8b")),
   transparency |-> Must(Choice({"0", "0.5", "1"}, "0.5")),
   transparency_dark |-> Must(Choice({"0", "0.5", "1"}, "0.5")),
   blur |-> Must(Checked("10")), blur_dark |-> Must(Checked("10")), _save |-> Button]

(* The setup wizard, on a router with wireless and a landing page          *)
SetupForm ==
  [wan_proto |-> Must(Choice({"dhcp", "pppoe"}, "dhcp")), lan_ipaddr |-> Checked(""),
   lan_netmask |-> Checked("255.255.255.0"), lan_dns |-> Checked(""),
   siderouter |-> Must(Flag("0")), ipv6 |-> Flag("1"), autoupgrade_fm |-> Must(Flag("0")),
   coremark |-> Must(Flag("0")), cookie_p |-> Flag("1"), https |-> Flag("0"),
   landing_page |-> Choice({"default", "routerdog", "nas"}, "default"),
   wifi_ssid |-> Checked(""), wifi_key |-> Checked("")]
  @@ AllWhen({[wan_proto |-> "pppoe"]}, [wan_pppoe_user |-> Text(""), wan_pppoe_pass |-> Text("")])
  @@ AllWhen({[siderouter |-> "1"]}, [lan_gateway |-> Must(Checked("")), dhcp |-> Flag("1")])
SetupShortcut ==
  [shortcut |-> Must(Text("")), to_url |-> Must(Checked("")), comments |-> Text("")]

(* Planned tasks.  The two scripts are options of the configuration.       *)
TaskScripts == [customscript |-> Text("#!"), customscript2 |-> Text("#!")]
TaskType(def) == Choice({"1", "12", "15"}, def)
ScheduledTask ==
  [remarks |-> Text(""), enable |-> Must(Flag("1")), stype |-> TaskType("1"),
   month |-> Must(Text("*")), week |-> Text("*"), hour |-> Must(Text("0")),
   minute |-> Must(Text("0"))]
StartupTask ==
  [remarks |-> Text(""), enable |-> Must(Flag("1")), stype |-> TaskType("12"),
   delay |-> Checked("10")]

(* Traffic statistics                                                      *)
TrafficForm ==
  [enabled |-> Must(Flag("1")), storage_path |-> Must(Checked("/etc/traffic-statistic/data")),
   max_devices |-> Must(Among({"", "16", "256", "4096"}, {"15", "4097"}, "256"))]
TrafficInterface ==
  [enabled |-> Must(Flag("1")), name |-> Must(Text("")), network |-> Must(Text("")),
   device |-> Checked(""), role |-> Must(Choice({"server", "client"}, "server")),
   interval |-> Must(Among({"", "60", "300", "86400"}, {"59"}, "300")),
   retention_days |-> Must(Among({"", "1", "30", "3650"}, {"0"}, "30"))]

(* msd_lite and vlmcsd                                                     *)
MsdForm ==
  [enabled |-> Flag("0"), address |-> Must(Checked("")), network |-> Text(""),
   loglevel |-> Choice({"0", "7"}, "0"), threads |-> Checked(""), bind_to_cpu |-> Flag("0"),
   drop_slow_clients |-> Flag("0"), precache_size |-> Checked(""),
   ring_buffer_size |-> Checked(""), multicast_recv_buffer_size |-> Checked(""),
   multicast_recv_timeout |-> Checked(""), rejoin_time |-> Checked("")]
VlmcsdForm ==
  [enabled |-> Flag("0"), auto_activate |-> Flag("0"), internet_access |-> Flag("0"),
   _tmpl |-> TextFile]

----------------------------------------------------------------------------
(* rtp2httpd: the page (rtp2httpd.js), what its init script makes of the   *)
(* stored options, and the buttons that open the server's own pages.       *)
(* A listen entry: a port, a host and port, a Unix socket; several entries *)
(* are one value.  parseListenValue accepts these and refuses "*:5140".    *)
Listens == [x \in {"", "8080", "lan:8081", "/sock", "/sock 8080", "8080 lan:8081"} |->
  CASE x = "" -> <<>>
    [] x = "8080 lan:8081" -> <<[host |-> "", port |-> "8080"], [host |-> "lan", port |-> "8081"]>>
    [] x = "/sock 8080" -> <<[host |-> "", port |-> ""], [host |-> "", port |-> "8080"]>>
    [] x = "/sock" -> <<[host |-> "", port |-> ""]>>
    [] x = "lan:8081" -> <<[host |-> "lan", port |-> "8081"]>>
    [] OTHER -> <<[host |-> "", port |-> x]>>]
ParseListenValue == DOMAIN Listens

NoFile == {[use_config_file |-> "0"]}
Rtp2httpdBasic ==
  [disabled |-> Must(Flag("0")), respawn |-> Flag("1"), use_config_file |-> Flag("0"),
   config_file_content |-> When({[use_config_file |-> "1"]}, TextFile),
   listen |-> When(NoFile, Among(ParseListenValue, {"*:5140"}, "")),
   verbose |-> When(NoFile, Choice({"0", "1", "2", "3", "4"}, "1"))]

Simple == {[use_config_file |-> "0", advanced_interface_settings |-> "0"]}
Separate == {[use_config_file |-> "0", advanced_interface_settings |-> "1"]}
Rtp2httpdNetwork ==
  AllWhen(NoFile,
    [advanced_interface_settings |-> Flag("0"),
     maxclients |-> Among({"", "256", "5000"}, {"5001"}, ""),
     workers |-> Among({"", "32", "64"}, {"65"}, ""),
     buffer_pool_max_size |-> Among({"", "1024", "1048576"}, {"1"}, ""),
     udp_rcvbuf_size |-> Among({"", "65536", "16777216"}, {"1"}, ""),
     mcast_rejoin_interval |-> Among({"", "0", "86400"}, {"86401"}, ""),
     fcc_listen_port_range |-> Text(""), zerocopy_on_send |-> Flag("0"),
     rtsp_stun_server |-> Text("")])
  @@ [upstream_interface |-> When(Simple, Checked(""))]
  @@ AllWhen(Separate,
       [upstream_interface_multicast |-> Checked(""), upstream_interface_fcc |-> Checked(""),
        upstream_interface_rtsp |-> Checked(""), upstream_interface_http |-> Checked("")])

Rtp2httpdPlayer ==
  AllWhen(NoFile,
    [external_m3u |-> Text(""), external_m3u_update_interval |-> Checked(""),
     player_page_path |-> Text("")])
  @@ [_player_warning |-> When({[use_config_file |-> "0", external_m3u |-> ""]}, Button),
      _player_page |-> Button]

(* A host name, with or without a scheme and a port, one of them the       *)
(* scheme's default; h is what a URL or http_parse_url_components reads    *)
Hostnames ==
  LET h(scheme, port) == [scheme |-> scheme, host |-> "name", port |-> port]
  IN  [x \in {"name", "name:9000", "name:80", "http://name", "http://name:9000",
              "https://name", "https://name:443"} |->
         CASE x = "name" -> h("", "")          [] x = "http://name" -> h("http", "")
           [] x = "name:9000" -> h("", "9000") [] x = "http://name:9000" -> h("http", "9000")
           [] x = "name:80" -> h("", "80")     [] x = "https://name" -> h("https", "")
           [] OTHER -> h("https", "443")]

Snapshot == {[use_config_file |-> "0", video_snapshot |-> "1"]}
Rtp2httpdAdvanced ==
  [_status_dashboard |-> Button]
  @@ AllWhen(NoFile,
       [status_page_path |-> Text(""), app_path_prefix |-> Text(""),
        use_relative_path_in_m3u |-> Flag("0"), hostname |-> Choice({""} \cup DOMAIN Hostnames, ""), r2h_token |-> Text(""),
        cors_allow_origin |-> Text(""), xff |-> Flag("0"), access_log |-> Text(""),
        log_format |-> Text(""), http_proxy_user_agent |-> Text(""),
        rtsp_user_agent |-> Text(""), video_snapshot |-> Flag("0")])
  @@ AllWhen(Snapshot, [ffmpeg_path |-> Text(""), ffmpeg_args |-> Text("")])

(* port is the option of older installations: no field of its own          *)
Rtp2httpdForm ==
  Rtp2httpdBasic @@ Rtp2httpdNetwork @@ Rtp2httpdPlayer @@ Rtp2httpdAdvanced
  @@ [port |-> When({[use_config_file |-> "none"]}, Text(""))]

----------------------------------------------------------------------------
(* The listen field: cfgvalue falls back to port; write and remove both    *)
(* drop port, and neither runs while the shown value is unchanged          *)
ShownListen(uci) ==
  IF uci.listen # Unset THEN uci.listen ELSE IF uci.port # Unset THEN uci.port ELSE ""
Rtp2httpdShown(uci) == [Shown(Rtp2httpdForm, uci) EXCEPT !.listen = ShownListen(uci)]
Rtp2httpdStored(uci, ui) ==
  LET s == Stored(Rtp2httpdForm, uci, ui)
      kept == ui.use_config_file = "0" /\ ui.listen # "" /\ ui.listen = ShownListen(uci)
  IN [s EXCEPT !.port = IF kept THEN uci.port ELSE Unset,
               !.listen = IF kept THEN uci.listen ELSE @]

----------------------------------------------------------------------------
(* append_arg, append_listen_args, start_instance: the command line; and   *)
(* the limits and defaults of the server                                   *)
Or(v, def) == IF v = Unset THEN def ELSE v
AppendListenArgs(uci) ==
  LET ls == IF uci.listen # Unset THEN Listens[uci.listen] ELSE <<>> IN
  IF ls # <<>> THEN ls ELSE <<[host |-> "", port |-> Or(uci.port, "5140")]>>
Limited(v, bad, def) == IF v = Unset \/ v \in bad THEN def ELSE v
StartInstance(uci) ==
  [disabled |-> Or(uci.disabled, "0"), respawn |-> Or(uci.respawn, "1"),
   listen |-> AppendListenArgs(uci),
   verbose |-> Or(uci.verbose, "1"),
   maxclients |-> Limited(uci.maxclients, {"5000"}, "5"),
   workers |-> Limited(uci.workers, {"64"}, "1"),
   interface |-> IF Or(uci.advanced_interface_settings, "0") = "1"
                 THEN uci.upstream_interface_multicast ELSE uci.upstream_interface,
   snapshot |-> Or(uci.video_snapshot, "0"), xff |-> Or(uci.xff, "0")]

(* The TCP ports the started server listens on                             *)
ListenPorts(uci) ==
  IF uci.use_config_file = "1" THEN {IF uci.config_file_content = "good" THEN "7000" ELSE "5140"}
  ELSE LET ls == AppendListenArgs(uci) IN {ls[i].port : i \in DOMAIN ls} \ {""}

(* getPrimaryListenTarget: the first entry with a port, then the old       *)
(* option, then 5140                                                       *)
GetPrimaryListenTarget(uci) ==
  LET ls == IF uci.listen # Unset THEN Listens[uci.listen] ELSE <<>>
      tcp == {i \in 1..Len(ls) : ls[i].port # ""} IN
  IF tcp # {} THEN ls[CHOOSE i \in tcp : \A j \in tcp : i <= j]
  ELSE [host |-> "", port |-> Or(uci.port, "5140")]
(* A configuration file is represented by one that binds port 7000 and     *)
(* sets the host name "name:9000"                                          *)
FromFile(uci, name, good, else) ==
  IF uci.use_config_file # "1" THEN name
  ELSE IF uci.config_file_content = "good" THEN good ELSE else
HostnameOption(uci) == FromFile(uci, uci.hostname, "name:9000", Unset)

DefaultPort(scheme) == IF scheme = "https" THEN "443" ELSE "80"
Address(scheme, host, port) ==
  [scheme |-> scheme, host |-> host, port |-> IF port = "" THEN DefaultPort(scheme) ELSE port]

(* openPage: the host name wins over the listen address; new URL() forgets *)
(* a port that is the scheme's default, and only a host name without a     *)
(* scheme gets the port of the listen entry when the URL has none          *)
Rtp2httpdOpenPage(uci) ==
  LET target == FromFile(uci, GetPrimaryListenTarget(uci), [host |-> "", port |-> "7000"],
                         [host |-> "", port |-> "5140"])
      name == HostnameOption(uci)
      named == IF name # Unset THEN Hostnames[name]
               ELSE [scheme |-> "", host |-> IF target.host # "" THEN target.host ELSE "page", port |-> ""]
      scheme == IF named.scheme = "" THEN "http" ELSE named.scheme
      urlPort == IF named.port = DefaultPort(scheme) THEN "" ELSE named.port
  IN  Address(scheme, named.host,
              IF named.scheme = "" /\ urlPort = "" THEN target.port ELSE urlPort)

(* get_server_address, for a host name: what the server calls itself in    *)
(* the lists it generates; server_port is one of its TCP ports             *)
GetServerAddress(name, server_port) ==
  LET named == Hostnames[name]
  IN  IF named.scheme # "" THEN Address(named.scheme, named.host, named.port)
      ELSE Address("http", named.host, IF named.port = "" THEN server_port ELSE named.port)
=============================================================================
