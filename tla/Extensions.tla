------------------------------ MODULE Extensions ------------------------------
(***************************************************************************)
(* The extensions an option line can name, and how the program reaches     *)
(* their tables and functions (struct xtables_match, xtables_target).  A   *)
(* revision is an extension of its own, and so is the IPv6 twin of one.    *)
(***************************************************************************)
EXTENDS PortMatches, PacketMatches, MetaMatches, RateMatches, ConnMatches, DeviceMatches, MarkTargets

\* x6_options
Options ==
  [tcp |-> tcp_opts, udp |-> udp_opts, dccp |-> dccp_opts, sctp |-> sctp_opts,
   multiport |-> multiport_opts, multiport_v1 |-> multiport_opts, icmp |-> icmp_opts,
   icmp6 |-> icmp6_opts, esp |-> esp_opts, ah |-> ah_opts, ah6 |-> ah6_opts, frag |-> frag_opts,
   hbh |-> hbh_opts, dst |-> dst_opts, rt |-> rt_opts, mh |-> mh_opts,
   ipv6header |-> ipv6header_opts, length |-> length_opts, mac |-> mac_opts, cpu |-> cpu_opts,
   helper |-> helper_opts, pkttype |-> pkttype_opts, quota |-> quota_opts,
   comment |-> comment_opts, socket |-> socket_mt_opts, mark |-> mark_mt_opts,
   connmark |-> mark_mt_opts, ecn |-> ecn_opts, tos |-> tos_mt_opts, tos_v0 |-> tos_mt_opts_v0,
   string |-> string_opts, string_v0 |-> string_opts, addrtype |-> addrtype_opts_v1,
   addrtype_v0 |-> addrtype_opts_v0, limit |-> limit_opts, hashlimit_v0 |-> hashlimit_opts,
   hashlimit |-> hashlimit_mt_opts, hashlimit6 |-> hashlimit_mt_opts, connbytes |-> connbytes_opts,
   connlimit_v0 |-> connlimit_opts, connlimit |-> connlimit_opts, statistic |-> statistic_opts,
   recent_v0 |-> recent_opts_v0, recent |-> recent_opts_v1,
   conntrack_v0 |-> conntrack_mt_opts_v0, conntrack_v1 |-> conntrack2_mt_opts,
   conntrack_v2 |-> conntrack2_mt_opts, conntrack |-> conntrack3_mt_opts,
   state_v0 |-> state_opts, state_v1 |-> state_opts, state |-> state_opts,
   policy |-> policy_opts, time |-> time_opts, owner_v0 |-> owner_mt_opts_v0,
   owner6_v0 |-> owner_mt6_opts_v0, owner |-> owner_mt_opts, iprange_v0 |-> iprange_mt_opts,
   iprange |-> iprange_mt_opts, cluster |-> cluster_opts, u32 |-> u32_opts,
   rpfilter |-> rpfilter_opts, physdev |-> physdev_opts, devgroup |-> devgroup_opts,
   realm |-> realm_opts, ipvs |-> ipvs_mt_opts, nfacct |-> nfacct_opts, osf |-> osf_opts,
   bpf |-> bpf_opts, connlabel |-> connlabel_mt_opts, set_v0 |-> set_opts_v0,
   set_v1 |-> set_opts_v0, set_v2 |-> set_opts_v2, set_v3 |-> set_opts_v3, SNAT |-> SNAT_opts,
   DNAT |-> DNAT_opts, SNAT6 |-> SNAT6_opts, DNAT6 |-> DNAT6_opts,
   MASQUERADE |-> MASQUERADE_opts, MASQUERADE6 |-> MASQUERADE6_opts, REDIRECT |-> REDIRECT_opts,
   REDIRECT6 |-> REDIRECT6_opts, NETMAP |-> NETMAP_opts, NETMAP6 |-> NETMAP6_opts,
   SNPT |-> SNPT_opts, DNPT |-> DNPT_opts, SAME |-> SAME_opts, LOG |-> LOG_opts,
   LOG6 |-> LOG6_opts, ULOG |-> ULOG_opts, NFLOG |-> NFLOG_opts, REJECT |-> REJECT_opts,
   REJECT6 |-> REJECT6_opts, CT_v0 |-> ct_opts, CT |-> ct_opts_v1, NOTRACK_v0 |-> <<>>,
   NOTRACK_v1 |-> <<>>, NOTRACK |-> <<>>, NFQUEUE_v0 |-> NFQUEUE_opts,
   NFQUEUE_v1 |-> NFQUEUE_opts, NFQUEUE_v2 |-> NFQUEUE_opts, NFQUEUE |-> NFQUEUE_opts,
   TTL |-> TTL_opts, HL |-> HL_opts, ECN |-> ECN_opts, DSCP |-> DSCP_opts,
   TPROXY_v0 |-> tproxy_tg0_opts, TPROXY |-> tproxy_tg1_opts, TPROXY6 |-> tproxy_tg1_opts,
   HMARK |-> HMARK_opts, HMARK6 |-> HMARK_opts, TCPMSS |-> TCPMSS4_opts,
   TCPMSS6 |-> TCPMSS6_opts, TCPOPTSTRIP |-> tcpoptstrip_tg_opts,
   CONNSECMARK |-> CONNSECMARK_opts, SECMARK |-> SECMARK_opts, CLASSIFY |-> CLASSIFY_opts,
   AUDIT |-> audit_opts, CHECKSUM |-> CHECKSUM_opts, IDLETIMER |-> idletimer_tg_opts,
   LED |-> LED_opts, TEE |-> tee_tg_opts, TEE6 |-> tee_tg_opts, CLUSTERIP |-> CLUSTERIP_opts]

\* init, or the zeroed data of an extension without one
Fresh ==
  [tcp |-> tcp_init, udp |-> udp_init, dccp |-> dccp_init, sctp |-> sctp_init,
   multiport |-> multiport_init, multiport_v1 |-> multiport_init, icmp |-> icmp_init,
   icmp6 |-> icmp6_init, esp |-> esp_init, ah |-> esp_init, ah6 |-> ah6_init,
   frag |-> frag_init, hbh |-> hbh_init, dst |-> hbh_init, rt |-> rt_init, mh |-> mh_init,
   ipv6header |-> ipv6header_init, length |-> length_init, mac |-> mac_init, cpu |-> cpu_init,
   helper |-> helper_init, pkttype |-> pkttype_init, quota |-> quota_init,
   comment |-> comment_init, socket |-> socket_mt_init, mark |-> mark_mt_init,
   connmark |-> mark_mt_init, ecn |-> ecn_init, tos |-> tos_mt_init, tos_v0 |-> tos_mt_init,
   string |-> string_init, string_v0 |-> string_init, addrtype |-> addrtype_init,
   addrtype_v0 |-> addrtype_init, limit |-> limit_init, hashlimit_v0 |-> hashlimit_init,
   hashlimit |-> hashlimit_init, hashlimit6 |-> hashlimit_init, connbytes |-> connbytes_init, connlimit_v0 |-> connlimit_init,
   connlimit |-> connlimit_init, statistic |-> statistic_init, recent_v0 |-> recent_init,
   recent |-> recent_init, conntrack_v0 |-> conntrack_init, conntrack_v1 |-> conntrack_init,
   conntrack_v2 |-> conntrack_init, conntrack |-> conntrack_init, state_v0 |-> state_init,
   state_v1 |-> conntrack_init, state |-> conntrack_init, policy |-> policy_init,
   time |-> time_init, owner_v0 |-> owner_init_v0, owner6_v0 |-> owner_init_v0,
   owner |-> owner_init, iprange_v0 |-> iprange_init, iprange |-> iprange_init,
   cluster |-> cluster_init, u32 |-> u32_init, rpfilter |-> rpfilter_init,
   physdev |-> physdev_init, devgroup |-> devgroup_init, realm |-> realm_init,
   ipvs |-> ipvs_mt_init, nfacct |-> nfacct_init, osf |-> osf_init, bpf |-> bpf_init,
   connlabel |-> connlabel_mt_init, set_v0 |-> set_init, set_v1 |-> set_init,
   set_v2 |-> set_init, set_v3 |-> set_init, SNAT |-> nat_init, DNAT |-> nat_init,
   SNAT6 |-> nat6_init, DNAT6 |-> nat6_init, MASQUERADE |-> NatRange, MASQUERADE6 |-> NatRange,
   REDIRECT |-> NatRange, REDIRECT6 |-> NatRange, NETMAP |-> NETMAP_init,
   NETMAP6 |-> NETMAP_init, SNPT |-> npt_init, DNPT |-> npt_init, SAME |-> SAME_init,
   LOG |-> LOG_init, LOG6 |-> LOG6_init, ULOG |-> ULOG_init, NFLOG |-> NFLOG_init,
   REJECT |-> REJECT_init, REJECT6 |-> REJECT6_init, CT_v0 |-> ct_init, CT |-> ct_init_v1,
   NOTRACK_v0 |-> notrack_ct0_tg_init, NOTRACK_v1 |-> notrack_ct1_tg_init,
   NOTRACK |-> notrack_ct2_tg_init, NFQUEUE_v0 |-> NFQUEUE_init, NFQUEUE_v1 |-> NFQUEUE_init_v1,
   NFQUEUE_v2 |-> NFQUEUE_init_v2, NFQUEUE |-> NFQUEUE_init_v2, TTL |-> TTL_init,
   HL |-> HL_init, ECN |-> ECN_init, DSCP |-> DSCP_init, TPROXY_v0 |-> tproxy_init,
   TPROXY |-> tproxy_init, TPROXY6 |-> tproxy_init, HMARK |-> HMARK_init, HMARK6 |-> HMARK_init,
   TCPMSS |-> TCPMSS_init, TCPMSS6 |-> TCPMSS_init, TCPOPTSTRIP |-> tcpoptstrip_init,
   CONNSECMARK |-> CONNSECMARK_init, SECMARK |-> SECMARK_init, CLASSIFY |-> CLASSIFY_init,
   AUDIT |-> audit_init, CHECKSUM |-> CHECKSUM_init, IDLETIMER |-> idletimer_init,
   LED |-> LED_init, TEE |-> tee_init, TEE6 |-> tee_init, CLUSTERIP |-> CLUSTERIP_init]

\* Extensions with a parse function of their own, which does not call the guided parser
OldStyle == {"tcp", "sctp", "set_v0", "set_v1", "set_v2", "set_v3"}

\* real_name: the name a rule with an alias is saved under, unless the alias is kept
SavedName(ext) ==
  CASE ext = "NOTRACK_v0" -> "CT_v0" [] ext = "NOTRACK_v1" -> "CT" [] OTHER -> ext

\* x6_parse (after its call of xtables_option_parse) or parse
x6_parse(c) ==
  CASE c.ext = "tcp" -> tcp_parse(c)
    [] c.ext = "udp" -> udp_parse(c)
    [] c.ext = "dccp" -> dccp_parse(c)
    [] c.ext = "sctp" -> sctp_parse(c)
    [] c.ext = "multiport" -> multiport_parse(c)
    [] c.ext = "multiport_v1" -> multiport_parse_v1(c)
    [] c.ext = "icmp" -> icmp_parse(c)
    [] c.ext = "icmp6" -> icmp6_parse(c)
    [] c.ext = "esp" -> esp_parse(c)
    [] c.ext = "ah" -> ah_parse(c)
    [] c.ext = "ah6" -> ah6_parse(c)
    [] c.ext = "frag" -> frag_parse(c)
    [] c.ext = "hbh" -> hbh_parse(c)
    [] c.ext = "dst" -> dst_parse(c)
    [] c.ext = "rt" -> rt_parse(c)
    [] c.ext = "mh" -> mh_parse(c)
    [] c.ext = "ipv6header" -> ipv6header_parse(c)
    [] c.ext = "length" -> length_parse(c)
    [] c.ext \in {"mac", "cpu", "helper"} -> InvertField(c)
    [] c.ext = "pkttype" -> pkttype_parse(c)
    [] c.ext = "quota" -> quota_parse(c)
    [] c.ext = "socket" -> socket_mt_parse(c)
    [] c.ext = "mark" -> mark_mt_parse(c)
    [] c.ext = "connmark" -> connmark_mt_parse(c)
    [] c.ext = "ecn" -> ecn_parse(c)
    [] c.ext = "tos" -> tos_mt_parse(c)
    [] c.ext = "tos_v0" -> tos_mt_parse_v0(c)
    [] c.ext = "string" -> string_parse(c, 1)
    [] c.ext = "string_v0" -> string_parse(c, 0)
    [] c.ext = "addrtype" -> addrtype_parse_v1(c)
    [] c.ext = "addrtype_v0" -> addrtype_parse_v0(c)
    [] c.ext = "limit" -> limit_parse(c)
    [] c.ext = "hashlimit_v0" -> hashlimit_parse(c)
    [] c.ext \in {"hashlimit", "hashlimit6"} -> hashlimit_mt_parse(c)
    [] c.ext = "connbytes" -> connbytes_parse(c)
    [] c.ext = "connlimit_v0" -> connlimit_parse(c, 0)
    [] c.ext = "connlimit" -> connlimit_parse(c, 1)
    [] c.ext = "statistic" -> statistic_parse(c)
    [] c.ext \in {"recent_v0", "recent"} -> recent_parse(c)
    [] c.ext = "conntrack_v0" -> conntrack_parse(c)
    [] c.ext = "conntrack_v1" -> conntrack1_mt_parse(c)
    [] c.ext = "conntrack_v2" -> conntrack2_mt_parse(c)
    [] c.ext = "conntrack" -> conntrack_mt_parse(c)
    [] c.ext = "state_v0" -> state_parse(c)
    [] c.ext = "state_v1" -> state_ct1_parse(c)
    [] c.ext = "state" -> state_ct23_parse(c)
    [] c.ext = "policy" -> policy_parse(c)
    [] c.ext = "time" -> time_parse(c)
    [] c.ext = "owner_v0" -> owner_mt_parse_v0(c)
    [] c.ext = "owner6_v0" -> owner_mt6_parse_v0(c)
    [] c.ext = "owner" -> owner_mt_parse(c)
    [] c.ext = "iprange_v0" -> iprange_parse(c)
    [] c.ext = "iprange" -> iprange_mt_parse(c)
    [] c.ext = "cluster" -> cluster_parse(c)
    [] c.ext = "u32" -> u32_parse(c)
    [] c.ext = "rpfilter" -> rpfilter_parse(c)
    [] c.ext = "physdev" -> physdev_parse(c)
    [] c.ext = "devgroup" -> devgroup_parse(c)
    [] c.ext = "realm" -> realm_parse(c)
    [] c.ext = "ipvs" -> ipvs_mt_parse(c)
    [] c.ext = "osf" -> osf_parse(c)
    [] c.ext = "bpf" -> bpf_parse(c)
    [] c.ext = "connlabel" -> connlabel_mt_parse(c)
    [] c.ext = "set_v0" -> set_parse_v0(c)
    [] c.ext = "set_v1" -> set_parse_v1(c)
    [] c.ext = "set_v2" -> set_parse_v2(c)
    [] c.ext = "set_v3" -> set_parse_v3(c)
    [] c.ext = "SNAT" -> SNAT_parse(c)
    [] c.ext = "DNAT" -> DNAT_parse(c)
    [] c.ext = "SNAT6" -> SNAT6_parse(c)
    [] c.ext = "DNAT6" -> DNAT6_parse(c)
    [] c.ext = "MASQUERADE" -> MASQUERADE_parse(c)
    [] c.ext = "MASQUERADE6" -> MASQUERADE6_parse(c)
    [] c.ext = "REDIRECT" -> REDIRECT_parse(c)
    [] c.ext = "REDIRECT6" -> REDIRECT6_parse(c)
    [] c.ext = "NETMAP" -> NETMAP_parse(c)
    [] c.ext = "NETMAP6" -> NETMAP6_parse(c)
    [] c.ext = "SNPT" -> SNPT_parse(c)
    [] c.ext = "DNPT" -> DNPT_parse(c)
    [] c.ext = "SAME" -> SAME_parse(c)
    [] c.ext = "LOG" -> LOG_parse(c)
    [] c.ext = "LOG6" -> LOG6_parse(c)
    [] c.ext = "ULOG" -> ULOG_parse(c)
    [] c.ext = "REJECT" -> REJECT_parse(c)
    [] c.ext = "REJECT6" -> REJECT6_parse(c)
    [] c.ext = "CT_v0" -> ct_parse(c)
    [] c.ext = "CT" -> ct_parse_v1(c)
    [] c.ext = "NFQUEUE_v0" -> NFQUEUE_parse(c)
    [] c.ext = "NFQUEUE_v1" -> NFQUEUE_parse_v1(c)
    [] c.ext = "NFQUEUE_v2" -> NFQUEUE_parse_v2(c)
    [] c.ext = "NFQUEUE" -> NFQUEUE_parse_v3(c)
    [] c.ext = "TTL" -> TTL_parse(c)
    [] c.ext = "HL" -> HL_parse(c)
    [] c.ext = "ECN" -> ECN_parse(c)
    [] c.ext = "DSCP" -> DSCP_parse(c)
    [] c.ext = "TPROXY_v0" -> tproxy_tg0_parse(c)
    [] c.ext \in {"TPROXY", "TPROXY6"} -> tproxy_tg1_parse(c)
    [] c.ext \in {"HMARK", "HMARK6"} -> HMARK_parse(c)
    [] c.ext \in {"TCPMSS", "TCPMSS6"} -> TCPMSS_parse(c)
    [] c.ext = "TCPOPTSTRIP" -> tcpoptstrip_tg_parse(c)
    [] c.ext = "CONNSECMARK" -> CONNSECMARK_parse(c)
    [] c.ext = "SECMARK" -> SECMARK_parse(c)
    [] c.ext = "CLASSIFY" -> CLASSIFY_parse(c)
    [] c.ext = "AUDIT" -> audit_parse(c)
    [] c.ext = "CHECKSUM" -> CHECKSUM_parse(c)
    [] c.ext = "LED" -> LED_parse(c)
    [] c.ext = "CLUSTERIP" -> CLUSTERIP_parse(c)
    [] OTHER -> c

\* x6_fcheck or final_check, which may refuse the line or complete the data
x6_fcheck(c) ==
  CASE c.ext \in {"multiport", "multiport_v1"} -> Need(c, multiport_check(c.xflags))
    [] c.ext = "ecn" -> Need(c, ecn_check(c.xflags))
    [] c.ext \in {"string", "string_v0"} -> Need(c, string_check(c.xflags))
    [] c.ext \in {"addrtype", "addrtype_v0"} -> Need(c, addrtype_check(c.xflags))
    [] c.ext = "hashlimit_v0" -> hashlimit_check(c)
    [] c.ext \in {"hashlimit", "hashlimit6"} -> hashlimit_mt_check(c)
    [] c.ext \in {"connlimit_v0", "connlimit"} -> Need(c, connlimit_check(c.xflags))
    [] c.ext = "statistic" -> statistic_check(c)
    [] c.ext \in {"recent_v0", "recent"} -> Need(c, recent_check(c.xflags))
    [] c.ext \in {"conntrack_v0", "conntrack_v1", "conntrack_v2", "conntrack"} -> Need(c, conntrack_mt_check(c.xflags))
    [] c.ext = "policy" -> policy_check(c)
    [] c.ext = "time" -> time_check(c)
    [] c.ext \in {"owner_v0", "owner6_v0", "owner"} -> owner_mt_check(c)
    [] c.ext \in {"iprange_v0", "iprange"} -> iprange_mt_check(c)
    [] c.ext = "cluster" -> cluster_check(c)
    [] c.ext = "physdev" -> physdev_check(c)
    [] c.ext = "devgroup" -> devgroup_check(c)
    [] c.ext = "ipvs" -> ipvs_mt_check(c)
    [] c.ext = "bpf" -> bpf_fcheck(c)
    [] c.ext \in {"set_v0", "set_v1", "set_v2", "set_v3"} -> set_check_v0(c)
    [] c.ext = "SNAT" -> SNAT_fcheck(c)
    [] c.ext = "DNAT" -> DNAT_fcheck(c)
    [] c.ext = "SNAT6" -> SNAT6_fcheck(c)
    [] c.ext = "DNAT6" -> DNAT6_fcheck(c)
    [] c.ext = "SAME" -> SAME_fcheck(c)
    [] c.ext = "TTL" -> TTL_check(c)
    [] c.ext = "HL" -> HL_check(c)
    [] c.ext = "ECN" -> ECN_check(c)
    [] c.ext = "DSCP" -> DSCP_check(c)
    [] c.ext \in {"HMARK", "HMARK6"} -> HMARK_check(c)
    [] c.ext \in {"TCPMSS", "TCPMSS6"} -> TCPMSS_check(c)
    [] c.ext = "CONNSECMARK" -> CONNSECMARK_check(c)
    [] c.ext = "CLUSTERIP" -> CLUSTERIP_check(c)
    [] OTHER -> c

save(ext, i) ==
  CASE ext = "tcp" -> tcp_save(i)
    [] ext = "udp" -> udp_save(i)
    [] ext = "dccp" -> dccp_save(i)
    [] ext = "sctp" -> sctp_save(i)
    [] ext = "multiport" -> multiport_save(i)
    [] ext = "multiport_v1" -> multiport_save_v1(i)
    [] ext = "icmp" -> icmp_save(i)
    [] ext = "icmp6" -> icmp6_save(i)
    [] ext = "esp" -> esp_save(i)
    [] ext = "ah" -> ah_save(i)
    [] ext = "ah6" -> ah6_save(i)
    [] ext = "frag" -> frag_save(i)
    [] ext = "hbh" -> hbh_save(i)
    [] ext = "dst" -> dst_save(i)
    [] ext = "rt" -> rt_save(i)
    [] ext = "mh" -> mh_save(i)
    [] ext = "ipv6header" -> ipv6header_save(i)
    [] ext = "length" -> length_save(i)
    [] ext = "mac" -> mac_save(i)
    [] ext = "cpu" -> cpu_save(i)
    [] ext = "helper" -> helper_save(i)
    [] ext = "pkttype" -> pkttype_save(i)
    [] ext = "quota" -> quota_save(i)
    [] ext = "comment" -> comment_save(i)
    [] ext = "socket" -> socket_mt_save(i)
    [] ext = "mark" -> mark_mt_save(i)
    [] ext = "connmark" -> connmark_mt_save(i)
    [] ext = "ecn" -> ecn_save(i)
    [] ext = "tos" -> tos_mt_save(i)
    [] ext = "tos_v0" -> tos_mt_save_v0(i)
    [] ext \in {"string", "string_v0"} -> string_save(i)
    [] ext = "addrtype" -> addrtype_save_v1(i)
    [] ext = "addrtype_v0" -> addrtype_save_v0(i)
    [] ext = "limit" -> limit_save(i)
    [] ext = "hashlimit_v0" -> hashlimit_save(i)
    [] ext \in {"hashlimit", "hashlimit6"} -> hashlimit_mt_save(i)
    [] ext = "connbytes" -> connbytes_save(i)
    [] ext = "connlimit_v0" -> connlimit_save(i, 0)
    [] ext = "connlimit" -> connlimit_save(i, 1)
    [] ext = "statistic" -> statistic_save(i)
    [] ext = "recent_v0" -> recent_save(i, 0)
    [] ext = "recent" -> recent_save(i, 1)
    [] ext = "conntrack_v0" -> conntrack_save(i)
    [] ext \in {"conntrack_v1", "conntrack_v2", "state_v1"} -> conntrack2_mt_save(i)
    [] ext \in {"conntrack", "state"} -> conntrack3_mt_save(i)
    [] ext = "state_v0" -> state_save(i)
    [] ext = "policy" -> policy4_save(i)
    [] ext = "time" -> time_save(i)
    [] ext = "owner_v0" -> owner_mt_save_v0(i)
    [] ext = "owner6_v0" -> owner_mt6_save_v0(i)
    [] ext = "owner" -> owner_mt_save(i)
    [] ext = "iprange_v0" -> iprange_save(i)
    [] ext = "iprange" -> iprange_mt4_save(i)
    [] ext = "cluster" -> cluster_save(i)
    [] ext = "u32" -> u32_save(i)
    [] ext = "rpfilter" -> rpfilter_save(i)
    [] ext = "physdev" -> physdev_save(i)
    [] ext = "devgroup" -> devgroup_save(i)
    [] ext = "realm" -> realm_save(i)
    [] ext = "ipvs" -> ipvs_mt4_save(i)
    [] ext = "nfacct" -> nfacct_save(i)
    [] ext = "osf" -> osf_save(i)
    [] ext = "bpf" -> bpf_save(i)
    [] ext = "connlabel" -> connlabel_mt_save(i)
    [] ext \in {"set_v0", "set_v1"} -> set_save_v1(i)
    [] ext = "set_v2" -> set_save_v2(i)
    [] ext = "set_v3" -> set_save_v3(i)
    [] ext = "SNAT" -> SNAT_save(i)
    [] ext = "DNAT" -> DNAT_save(i)
    [] ext = "SNAT6" -> SNAT6_save(i)
    [] ext = "DNAT6" -> DNAT6_save(i)
    [] ext = "MASQUERADE" -> MASQUERADE_save(i)
    [] ext = "MASQUERADE6" -> MASQUERADE6_save(i)
    [] ext = "REDIRECT" -> REDIRECT_save(i)
    [] ext = "REDIRECT6" -> REDIRECT6_save(i)
    [] ext = "NETMAP" -> NETMAP_save(i)
    [] ext = "NETMAP6" -> NETMAP6_save(i)
    [] ext = "SNPT" -> SNPT_save(i)
    [] ext = "DNPT" -> DNPT_save(i)
    [] ext = "SAME" -> SAME_save(i)
    [] ext = "LOG" -> LOG_save(i)
    [] ext = "LOG6" -> LOG6_save(i)
    [] ext = "ULOG" -> ULOG_save(i)
    [] ext = "NFLOG" -> NFLOG_save(i)
    [] ext = "REJECT" -> REJECT_save(i)
    [] ext = "REJECT6" -> REJECT6_save(i)
    [] ext \in {"CT_v0", "NOTRACK_v0"} -> ct_save(i)
    [] ext \in {"CT", "NOTRACK_v1", "NOTRACK"} -> ct_save_v1(i)
    [] ext = "NFQUEUE_v0" -> NFQUEUE_save(i)
    [] ext = "NFQUEUE_v1" -> NFQUEUE_save_v1(i)
    [] ext = "NFQUEUE_v2" -> NFQUEUE_save_v2(i)
    [] ext = "NFQUEUE" -> NFQUEUE_save_v3(i)
    [] ext = "TTL" -> TTL_save(i)
    [] ext = "HL" -> HL_save(i)
    [] ext = "ECN" -> ECN_save(i)
    [] ext = "DSCP" -> DSCP_save(i)
    [] ext = "TPROXY_v0" -> tproxy_tg_save(i)
    [] ext = "TPROXY" -> tproxy_tg_save4(i)
    [] ext = "TPROXY6" -> tproxy_tg_save6(i)
    [] ext = "HMARK" -> HMARK_ip4_save(i)
    [] ext = "HMARK6" -> HMARK_ip6_save(i)
    [] ext \in {"TCPMSS", "TCPMSS6"} -> TCPMSS_save(i)
    [] ext = "TCPOPTSTRIP" -> tcpoptstrip_tg_save(i)
    [] ext = "CONNSECMARK" -> CONNSECMARK_save(i)
    [] ext = "SECMARK" -> SECMARK_save(i)
    [] ext = "CLASSIFY" -> CLASSIFY_save(i)
    [] ext = "AUDIT" -> audit_save(i)
    [] ext = "CHECKSUM" -> CHECKSUM_save(i)
    [] ext = "IDLETIMER" -> idletimer_tg_save(i)
    [] ext = "LED" -> LED_save(i)
    [] ext = "TEE" -> tee_tg_save(i)
    [] ext = "TEE6" -> tee_tg6_save(i)
    [] ext = "CLUSTERIP" -> CLUSTERIP_save(i)

print(ext, i) ==
  CASE ext = "tcp" -> tcp_print(i)
    [] ext = "udp" -> udp_print(i)
    [] ext = "dccp" -> dccp_print(i)
    [] ext = "sctp" -> sctp_print(i)
    [] ext = "multiport" -> multiport_print(i)
    [] ext = "multiport_v1" -> multiport_print_v1(i)
    [] ext = "icmp" -> icmp_print(i)
    [] ext = "icmp6" -> icmp6_print(i)
    [] ext = "esp" -> esp_print(i)
    [] ext = "ah" -> ah_print(i)
    [] ext = "ah6" -> ah6_print(i)
    [] ext = "frag" -> frag_print(i)
    [] ext = "hbh" -> hbh_print(i)
    [] ext = "dst" -> dst_print(i)
    [] ext = "rt" -> rt_print(i)
    [] ext = "mh" -> mh_print(i)
    [] ext = "ipv6header" -> ipv6header_print(i)
    [] ext = "length" -> length_print(i)
    [] ext = "mac" -> mac_print(i)
    [] ext = "cpu" -> cpu_print(i)
    [] ext = "helper" -> helper_print(i)
    [] ext = "pkttype" -> pkttype_print(i)
    [] ext = "quota" -> quota_print(i)
    [] ext = "comment" -> comment_print(i)
    [] ext = "socket" -> socket_mt_print(i)
    [] ext = "mark" -> mark_mt_print(i)
    [] ext = "connmark" -> connmark_mt_print(i)
    [] ext = "ecn" -> ecn_print(i)
    [] ext = "tos" -> tos_mt_print(i)
    [] ext = "tos_v0" -> Listed(tos_mt_save_v0(i))
    [] ext \in {"string", "string_v0"} -> string_print(i)
    [] ext \in {"addrtype", "addrtype_v0"} -> addrtype_print(i)
    [] ext = "limit" -> limit_print(i)
    [] ext = "hashlimit_v0" -> hashlimit_print(i)
    [] ext \in {"hashlimit", "hashlimit6"} -> hashlimit_mt_print(i)
    [] ext = "connbytes" -> connbytes_print(i)
    [] ext \in {"connlimit_v0", "connlimit"} -> connlimit_print(i)
    [] ext = "statistic" -> statistic_print(i)
    [] ext = "recent_v0" -> recent_print(i, 0)
    [] ext = "recent" -> recent_print(i, 1)
    [] ext = "conntrack_v0" -> Listed(conntrack_save(i))
    [] ext \in {"conntrack_v1", "conntrack_v2", "state_v1"} -> Listed(conntrack2_mt_save(i))
    [] ext \in {"conntrack", "state"} -> Listed(conntrack3_mt_save(i))
    [] ext = "state_v0" -> Listed(state_save(i))
    [] ext = "policy" -> policy4_print(i)
    [] ext = "time" -> time_print(i)
    [] ext = "owner_v0" -> owner_mt_print_v0(i)
    [] ext = "owner6_v0" -> owner_mt6_print_v0(i)
    [] ext = "owner" -> owner_mt_print(i)
    [] ext = "iprange_v0" -> iprange_print(i)
    [] ext = "iprange" -> iprange_mt4_print(i)
    [] ext = "cluster" -> cluster_print(i)
    [] ext = "u32" -> u32_print(i)
    [] ext = "rpfilter" -> rpfilter_print(i)
    [] ext = "physdev" -> physdev_print(i)
    [] ext = "devgroup" -> devgroup_print(i)
    [] ext = "realm" -> realm_print(i)
    [] ext = "ipvs" -> ipvs_mt4_print(i)
    [] ext = "nfacct" -> nfacct_print(i)
    [] ext = "osf" -> osf_print(i)
    [] ext = "bpf" -> bpf_print(i)
    [] ext = "connlabel" -> connlabel_mt_print(i)
    [] ext \in {"set_v0", "set_v1"} -> set_print_v1(i)
    [] ext = "set_v2" -> set_print_v2(i)
    [] ext = "set_v3" -> set_print_v3(i)
    [] ext = "SNAT" -> SNAT_print(i)
    [] ext = "DNAT" -> DNAT_print(i)
    [] ext = "SNAT6" -> SNAT6_print(i)
    [] ext = "DNAT6" -> DNAT6_print(i)
    [] ext = "MASQUERADE" -> MASQUERADE_print(i)
    [] ext = "MASQUERADE6" -> MASQUERADE6_print(i)
    [] ext = "REDIRECT" -> REDIRECT_print(i)
    [] ext = "REDIRECT6" -> REDIRECT6_print(i)
    [] ext = "NETMAP" -> NETMAP_print(i)
    [] ext = "NETMAP6" -> NETMAP6_print(i)
    [] ext = "SNPT" -> SNPT_print(i)
    [] ext = "DNPT" -> DNPT_print(i)
    [] ext = "SAME" -> SAME_print(i)
    [] ext = "LOG" -> LOG_print(i)
    [] ext = "LOG6" -> LOG6_print(i)
    [] ext = "ULOG" -> ULOG_print(i)
    [] ext = "NFLOG" -> NFLOG_print(i)
    [] ext = "REJECT" -> REJECT_print(i)
    [] ext = "REJECT6" -> REJECT6_print(i)
    [] ext \in {"CT_v0", "NOTRACK_v0"} -> ct_print(i)
    [] ext \in {"CT", "NOTRACK_v1", "NOTRACK"} -> ct_print_v1(i)
    [] ext = "NFQUEUE_v0" -> NFQUEUE_print(i)
    [] ext = "NFQUEUE_v1" -> NFQUEUE_print_v1(i)
    [] ext = "NFQUEUE_v2" -> NFQUEUE_print_v2(i)
    [] ext = "NFQUEUE" -> NFQUEUE_print_v3(i)
    [] ext = "TTL" -> TTL_print(i)
    [] ext = "HL" -> HL_print(i)
    [] ext = "ECN" -> ECN_print(i)
    [] ext = "DSCP" -> DSCP_print(i)
    [] ext = "TPROXY_v0" -> tproxy_tg_print(i)
    [] ext = "TPROXY" -> tproxy_tg_print4(i)
    [] ext = "TPROXY6" -> tproxy_tg_print6(i)
    [] ext = "HMARK" -> HMARK_print(i)
    [] ext = "HMARK6" -> HMARK_ip6_print(i)
    [] ext \in {"TCPMSS", "TCPMSS6"} -> TCPMSS_print(i)
    [] ext = "TCPOPTSTRIP" -> tcpoptstrip_tg_print(i)
    [] ext = "CONNSECMARK" -> CONNSECMARK_print(i)
    [] ext = "SECMARK" -> SECMARK_print(i)
    [] ext = "CLASSIFY" -> CLASSIFY_print(i)
    [] ext = "AUDIT" -> audit_print(i)
    [] ext = "CHECKSUM" -> CHECKSUM_print(i)
    [] ext = "IDLETIMER" -> idletimer_tg_print(i)
    [] ext = "LED" -> LED_print(i)
    [] ext = "TEE" -> tee_tg_print(i)
    [] ext = "TEE6" -> tee_tg6_print(i)
    [] ext = "CLUSTERIP" -> CLUSTERIP_print(i)

(***************************************************************************)
(* Reading one option of a line, and a whole line, such as the one that    *)
(* save writes, from the data of a fresh rule.                             *)
(***************************************************************************)
xtables_option_mpcall(c) ==
  LET d == IF c.ext \in OldStyle THEN c ELSE xtables_option_parse(Options[c.ext], c)
  IN IF d.ok THEN x6_parse(d) ELSE d

\* The extension's own check comes first, then the one the table demands.
xtables_option_mfcall(c) ==
  LET d == x6_fcheck(c)
  IN Need(d, d.ok /\ xtables_options_fcheck(Options[c.ext], c.xflags))

ReadOption(c, o) ==
  IF ~c.ok \/ o.id \notin DOMAIN Options[c.ext] THEN Refused(c)
  ELSE xtables_option_mpcall([c EXCEPT !.id = o.id, !.invert = o.invert, !.arg = o.arg])

NoOption == [id |-> "", invert |-> FALSE, arg |-> <<>>]
Start(ext, proto) == Call(ext, proto, NoOption, {}, Fresh[ext])
\* The words of a line read on from c, to its end.
ReadOn(c, line) ==
  LET d == FoldLeft(ReadOption, c, line)
  IN IF d.ok THEN xtables_option_mfcall(d) ELSE d
ReadLine(ext, proto, line) == ReadOn(Start(ext, proto), line)
=============================================================================
