---------------------------- MODULE MonitorForms ----------------------------
(***************************************************************************)
(* The settings pages of the monitoring applications: bandix, bandix plus  *)
(* and wechatpush.                                                         *)
(*                                                                         *)
(* A MultiValue option is one flag for each of its choices that some other *)
(* field depends on (a '!contains' dependency is then one on the flag).    *)
(***************************************************************************)
EXTENDS LuciForm

Tcx == {[tc_backend |-> "tcx"]}
Anchored == {[tc_backend |-> "tcx", tc_order |-> t] : t \in {"before", "after"}}
TcOptions ==
  [tc_backend |-> Must(Choice({"auto", "tcx", "netlink"}, "auto")),
   tc_order |-> When(Tcx, Must(Choice({"first", "default", "last", "before", "after"}, "default"))),
   netlink_priority |->
     When({[tc_backend |-> "netlink"]}, Must(Among({"", "0", "65535"}, {"65536"}, "0")))]
  @@ AllWhen(Anchored, [tcx_anchor_ingress_id |-> Checked(""), tcx_anchor_egress_id |-> Checked("")])
LogLevel == Must(Choice({"trace", "info", "error"}, "info"))

BandixGeneral ==
  [port |-> Must(Checked("8686")), iface |-> Must(Text("")), log_level |-> LogLevel,
   data_dir |-> Must(Text("/usr/share/bandix"))]
  @@ TcOptions
BandixButtons ==
  [version |-> Button, check_update |-> Button, clear_data |-> Button, restart_service |-> Button,
   feedback |-> Button]
FlushInterval(def) == Must(Choice({"60", "600", "900", "86400"}, def))
BandixTraffic ==
  [traffic_enabled |-> Must(Flag("0")), speed_unit |-> Must(Choice({"bytes", "bits"}, "bytes")),
   traffic_enable_storage |-> Must(Flag("0")),
   traffic_flush_interval |-> When({[traffic_enable_storage |-> "1"]}, FlushInterval("600")),
   traffic_neighbor_flush_enable |-> Must(Flag("0")),
   traffic_neighbor_flush_interval |->
     When({[traffic_neighbor_flush_enable |-> "1"]}, Must(Choice({"600", "86400"}, "600"))),
   traffic_realtime_window |-> Must(Choice({"600", "3600"}, "600")),
   traffic_export_url |-> Text(""), traffic_event_url |-> Text(""),
   traffic_additional_subnets |-> Text(""), traffic_exclude_iface_device |-> Must(Flag("0"))]
BandixDns ==
  [connections_enabled |-> Must(Flag("0")), dns_enabled |-> Must(Flag("0")),
   dns_max_records |-> Must(Checked("10000")), dns_enable_storage |-> Must(Flag("0")),
   dns_flush_interval |-> When({[dns_enable_storage |-> "1"]}, FlushInterval("900"))]
BandixForm == BandixGeneral @@ BandixButtons @@ BandixTraffic @@ BandixDns

BandixPlusForm ==
  [enable_traffic |-> Must(Flag("1")), iface |-> Must(Text("")), log_level |-> LogLevel,
   traffic_enable_storage |-> Must(Flag("0")), host |-> Must(Text("127.0.0.1")),
   port |-> Must(Checked("8787")), data_dir |-> Must(Text("/usr/share/bandix-plus")),
   version |-> Button, check_update |-> Button, restart_service |-> Button,
   feedback_info |-> Button]
  @@ TcOptions

----------------------------------------------------------------------------
(* wechatpush: the channels and what each of them needs                    *)
Channel(cs) == {[jsonpath |-> c] : c \in cs}
Qywx == {"qywx_mpnews", "qywx_markdown"}
WechatChannels ==
  [enable |-> Flag("0"),
   jsonpath |-> Choice({"", "serverchan", "serverchan3", "wxpusher", "pushplus", "telegram",
                        "msmtp", "diy"} \cup Qywx, ""),
   sckey |-> When(Channel({"serverchan"}), Must(Text("")))]
  @@ AllWhen(Channel({"serverchan3"}),
       [sc3key |-> Must(Text("")), sc3uid |-> Must(Text("")), sc3tags |-> Text("")])
  @@ AllWhen(Channel(Qywx),
       [corpid |-> Must(Text("")), userid |-> Must(Text("")), agentid |-> Must(Text("")),
        corpsecret |-> Must(Text("")), proxy_ip |-> Text("")])
  @@ [mediapath |-> When(Channel({"qywx_mpnews"}), Must(Text("logo")))]
WechatTokens ==
  AllWhen(Channel({"wxpusher"}),
    [wxpusher_apptoken |-> Must(Text("")), wxpusher_uids |-> Text(""),
     wxpusher_topicIds |-> Text("")])
  @@ [pushplus_token |-> When(Channel({"pushplus"}), Must(Text("")))]
  @@ AllWhen(Channel({"telegram"}),
       [tg_token |-> Must(Text("")), tg_chat_id |-> Must(Text("")), tg_thread_id |-> Text(""),
        tg_api_server |-> Must(Text(""))])
WechatMail ==
  AllWhen(Channel({"msmtp"}),
    [recipient_email |-> Must(Text("")), smtp_host |-> Text(""), smtp_port |-> Text(""),
     smtp_tls |-> Choice({"on", "off", ""}, ""), smtp_starttls |-> Choice({"on", "off", ""}, ""),
     smtp_user |-> Text(""), smtp_passwordeval |-> Text(""), smtp_from |-> Text(""),
     smtp_from_full_name |-> Text("")])
WechatTest ==
  [diy_json |-> When(Channel({"diy"}), TextFile)]
  @@ AllWhen(Channel({"serverchan", "serverchan3", "qywx_mpnews", "wxpusher", "pushplus",
                      "telegram", "diy"}),
       [proxy_address |-> Text(""), _test |-> Button])
  @@ [device_name |-> Text(""), sleeptime |-> Must(Checked("")),
      oui_data |-> Choice({"", "1", "2", "3"}, ""),
      _update_oui |-> When({[oui_data |-> "1"], [oui_data |-> "2"]}, Button),
      reset_regularly |-> Flag("0"), prefer_client_page |-> Flag("1"), debuglevel |-> Flag("0"),
      _device_aliases |-> TextFile]
WechatAddresses ==
  [lite_enable |-> Choice({"", "content"}, ""), _getip |-> Button,
   get_ipv4_mode |-> Choice({"", "1", "2"}, ""),
   ipv4_interface |-> When({[get_ipv4_mode |-> "1"]}, Text("pppoe-wan")),
   ipv4_list |-> When({[get_ipv4_mode |-> "2"]}, TextFile),
   get_ipv6_mode |-> Choice({"", "1", "2"}, ""),
   ipv6_interface |-> When({[get_ipv6_mode |-> "1"]}, Text("WAN")),
   ipv6_list |-> When({[get_ipv6_mode |-> "2"]}, TextFile)]
CpuLoad == {[cpu_notification_load |-> "1"]}
CpuTemp == {[cpu_notification_temp |-> "1"]}
LoginFails == {[web_login_failed |-> "1"], [ssh_login_failed |-> "1"]}
Logins == LoginFails \cup {[web_logged |-> "1"], [ssh_logged |-> "1"]}
WechatContent ==
  [device_notification |-> Choice({"", "online", "offline"}, ""),
   cpu_notification_load |-> Flag("0"), cpu_notification_temp |-> Flag("0"),
   cpu_load_threshold |-> When(CpuLoad, Must(Checked(""))),
   temperature_threshold |-> When(CpuTemp, Must(Checked(""))),
   web_logged |-> Flag("0"), ssh_logged |-> Flag("0"),
   web_login_failed |-> Flag("0"), ssh_login_failed |-> Flag("0"),
   login_max_num |-> When(LoginFails, Must(Checked("3"))), client_usage |-> Flag("0"),
   client_usage_max |-> When({[client_usage |-> "1"]}, Must(Text(""))),
   client_usage_disturb |-> When({[client_usage |-> "1"]}, Flag("0")),
   client_usage_whitelist |-> When({[client_usage_disturb |-> "1"]}, Checked(""))]
WechatIpset ==
  AllWhen(LoginFails, [login_web_black |-> Flag("0"), port_knocking_enable |-> Flag("0")])
  @@ AllWhen({[login_web_black |-> "1"]},
       [login_ip_black_timeout |-> Must(Checked("86400")), ip_black_list |-> TextFile])
  @@ AllWhen({[port_knocking_enable |-> "1"]},
       [login_port_white |-> Text(""), login_port_forward_list |-> Text(""),
        login_ip_white_timeout |-> Checked("86400")])
Scheduled == {[crontab_mode |-> "1"], [crontab_mode |-> "2"]}
WechatCrontab ==
  [crontab_mode |-> Choice({"", "1", "2"}, ""),
   crontab_regular_time |-> When({[crontab_mode |-> "1"]}, Choice({"", "0", "23"}, "")),
   crontab_interval_time |-> When({[crontab_mode |-> "2"]}, Choice({"", "0", "12"}, "")),
   _send |-> Button]
  @@ AllWhen(Scheduled,
       [send_title |-> Text(""), send_notification |-> Choice({"", "wan_info"}, "")])
Quiet == {[do_not_disturb_mode |-> "1"], [do_not_disturb_mode |-> "2"]}
WechatDisturb ==
  [do_not_disturb_mode |-> Choice({"", "1", "2"}, ""),
   mac_filtering_mode_1 |-> Choice({"", "allow", "block", "interface"}, ""),
   up_down_push_whitelist |-> When({[mac_filtering_mode_1 |-> "allow"]}, Checked("")),
   up_down_push_blacklist |-> When({[mac_filtering_mode_1 |-> "block"]}, Checked("")),
   up_down_push_interface |-> When({[mac_filtering_mode_1 |-> "interface"]}, Text("")),
   mac_filtering_mode_2 |-> Choice({"", "mac_online", "mac_offline"}, ""),
   mac_online_list |-> When({[mac_filtering_mode_2 |-> "mac_online"]}, Checked("")),
   mac_offline_list |-> When({[mac_filtering_mode_2 |-> "mac_offline"]}, Checked(""))]
  @@ AllWhen(Quiet,
       [do_not_disturb_starttime |-> Choice({"0", "23"}, "0"),
        do_not_disturb_endtime |-> Choice({"8", "23"}, "8")])
WechatDelays ==
  AllWhen(CpuLoad \cup CpuTemp,
    [cpu_threshold_duration |-> Must(Checked("300")), cpu_notification_delay |-> Must(Checked("3600"))])
  @@ [login_disturb |-> Choice({"", "1", "2"}, ""),
      login_ip_white_list |-> When(Logins, Checked("")),
      login_log_enable |-> When({[login_disturb |-> "1"], [login_disturb |-> "2"]}, Flag("0")),
      login_notification_delay |-> When({[login_disturb |-> "2"]}, Must(Checked("")))]

Probing == {[passive_mode |-> "0"]}
WechatDetection ==
  [passive_mode |-> Flag("0"), thread_num |-> Must(Checked("")),
   defaultSortColumn |-> Choice({"ip", "uptime"}, "ip"), soc_code |-> Choice({"", "pve"}, ""),
   _soc |-> Button]
  @@ AllWhen({[soc_code |-> "pve"]}, [server_host |-> Text("10.0.0.2"), server_port |-> Text("22")])
  @@ AllWhen(Probing,
       [up_timeout |-> Must(Checked("")), down_timeout |-> Must(Checked("")),
        timeout_retry_count |-> Must(Checked("")), only_timeout_push |-> Flag("0"),
        always_check_ip_list |-> Checked("")])
WechatHelpers ==
  AllWhen(Probing,
    [helper_gateway_info |-> Flag("0"), helper_miwifi_info |-> Flag("0"),
     helper_mikrotik_info |-> Flag("0"), helper_openwrt_info |-> Flag("0"),
     helper_scan_local_ip |-> Flag("0")])
  @@ AllWhen({[helper_gateway_info |-> "1"]},
       [gateway_host_url |-> Text("url"), gateway_info_url |-> Text("url"),
        gateway_logout_url |-> Text("url"), gateway_username_id |-> Text("username"),
        gateway_password_id |-> Text("psd"), gateway_username |-> Text("useradmin"),
        gateway_password |-> Text("")])
  @@ AllWhen({[helper_miwifi_info |-> "1"]}, [miwifi_ip |-> Text(""), miwifi_password |-> Text("")])
  @@ AllWhen({[helper_mikrotik_info |-> "1"]},
       [mikrotik_ip |-> Text(""), mikrotik_username |-> Text("")])
  @@ [op_host_ips |-> When({[helper_openwrt_info |-> "1"]}, Text("")),
      scan_ip_range |-> When({[helper_scan_local_ip |-> "1"]}, Text("")),
      device_info_helper_sleeptime |->
        When({[helper_gateway_info |-> "1"], [helper_miwifi_info |-> "1"],
              [helper_mikrotik_info |-> "1"], [helper_openwrt_info |-> "1"],
              [helper_scan_local_ip |-> "1"]}, Must(Checked("")))]
WechatUnattended ==
  [unattended_enable |-> Flag("0")]
  @@ AllWhen({[unattended_enable |-> "1"]},
       [zerotier_helper |-> Flag("0"), unattended_only_on_disturb_time |-> Flag("0"),
        unattended_device_aliases |-> Checked(""),
        network_disconnect_event |-> Choice({"", "1", "2"}, ""),
        unattended_autoreboot_mode |-> Choice({"", "1", "2"}, "")])
  @@ [autoreboot_system_uptime |-> When({[unattended_autoreboot_mode |-> "1"]}, Checked("24")),
      autoreboot_network_uptime |-> When({[unattended_autoreboot_mode |-> "2"]}, Checked("24"))]
WechatForm ==
  WechatChannels @@ WechatTokens @@ WechatMail @@ WechatTest @@ WechatAddresses
  @@ WechatContent @@ WechatIpset @@ WechatCrontab @@ WechatDisturb @@ WechatDelays
WechatAdvancedForm == WechatDetection @@ WechatHelpers @@ WechatUnattended
=============================================================================
