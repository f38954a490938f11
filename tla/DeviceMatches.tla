----------------------------- MODULE DeviceMatches -----------------------------
(***************************************************************************)
(* The matches cluster, u32, rpfilter, physdev, devgroup, realm, ipvs,     *)
(* nfacct, osf, bpf, connlabel and set (revisions 0 to 3).                 *)
(***************************************************************************)
EXTENDS HostMatches

Mandatory(e) == [e EXCEPT !.flags = @ \cup {"MAND"}]
------------------------------------------------------------------------------
(***************************************************************************)
(* cluster keeps a mask of nodes, and saves the mask; the option that      *)
(* takes a mask has the greatest number of nodes for its maximum.          *)
(***************************************************************************)
XT_CLUSTER_NODES_MAX == 8            \* 32 in the code
NodeRange(e) == [e EXCEPT !.min = 1, !.max = XT_CLUSTER_NODES_MAX]
cluster_opts ==
  [cluster_total_nodes |-> NodeRange(Mandatory(PutIn("UINT32", "total_nodes"))),
   cluster_local_node |-> [NodeRange(AnyOf2("UINT32")) EXCEPT !.excl = {"cluster_local_nodemask"}],
   cluster_local_nodemask |->
     [NodeRange(InvPut("UINT32", "node_mask")) EXCEPT !.excl = {"cluster_local_node"}],
   cluster_hash_seed |-> Mandatory(PutIn("UINT32", "hash_seed"))]
cluster_init == [total_nodes |-> 0, node_mask |-> 0, hash_seed |-> 0, invert |-> FALSE]
cluster_parse(c) ==
  LET inv == [c EXCEPT !.info.invert = @ \/ c.invert]
  IN CASE c.id = "cluster_local_node" -> [inv EXCEPT !.info.node_mask = 2 ^ (c.val[1] - 1)]
       [] OTHER -> inv
cluster_check(c) ==
  LET node == {"cluster_local_node", "cluster_local_nodemask"} \cap c.xflags # {}
      all == {"cluster_total_nodes", "cluster_hash_seed"} \subseteq c.xflags
  IN Need(c, node /\ (all => c.info.node_mask < 2 ^ c.info.total_nodes))
cluster_save(i) ==
  Put(TRUE, i.invert, "cluster_local_nodemask", <<i.node_mask>>) \o
  Put(TRUE, FALSE, "cluster_total_nodes", <<i.total_nodes>>) \o
  Put(TRUE, FALSE, "cluster_hash_seed", <<i.hash_seed>>)
cluster_print(i) == Listed(cluster_save(i))
------------------------------------------------------------------------------
(***************************************************************************)
(* u32: tests, each a location (numbers with operators between them) and   *)
(* ranges of values, at most XT_U32_MAXSIZE of each.                       *)
(***************************************************************************)
XT_U32_MAXSIZE == 2                  \* 10 in the code
u32_opts == [u32 |-> Mandatory(AnyOf2("CUSTOM"))]
u32_init == [tests |-> <<>>, invert |-> FALSE]
GoodSize(s) == Len(s) \in 1 .. XT_U32_MAXSIZE
u32_parse(c) ==
  LET Max2(r) == IF Len(r) = 1 THEN <<r[1], r[1]>> ELSE r
      Test(t) == [location |-> t.location, value |-> [x \in DOMAIN t.value |-> Max2(t.value[x])]]
  IN Need([c EXCEPT !.info.invert = c.invert, !.info.tests = [x \in DOMAIN c.arg |-> Test(c.arg[x])]],
          GoodSize(c.arg) /\ \A x \in DOMAIN c.arg : GoodSize(c.arg[x].location) /\ GoodSize(c.arg[x].value))
u32_dump(i) ==
  [x \in DOMAIN i.tests |->
     [location |-> i.tests[x].location,
      value |-> [y \in DOMAIN i.tests[x].value |-> Range2(i.tests[x].value[y])]]]
u32_save(i) == Put(TRUE, i.invert, "u32", u32_dump(i))
u32_print(i) == Listed(u32_save(i))
------------------------------------------------------------------------------
(* rpfilter: four flags, one of them the inversion of the match. *)
rpfilter_opts == [o \in {"loose", "validmark", "accept_local", "invert"} |-> Entry("NONE")]
rpfilter_init == [flags |-> {}]
rpfilter_parse(c) == [c EXCEPT !.info.flags = @ \cup {c.id}]
rpfilter_save(i) ==
  FlattenSeq([x \in 1 .. 4 |-> LET o == <<"loose", "validmark", "accept_local", "invert">>[x]
                               IN Put(o \in i.flags, FALSE, o, <<>>)])
rpfilter_print(i) == Listed(rpfilter_save(i))
------------------------------------------------------------------------------
(* physdev: an interface that does not fit its field is refused. *)
IFNAMSIZ == 4                        \* 16 in the code
DeviceName(field) == [InvPut("STRING", field) EXCEPT !.size = IFNAMSIZ]
physdev_opts ==
  [physdev_in |-> DeviceName("physindev"), physdev_out |-> DeviceName("physoutdev"),
   physdev_is_in |-> AnyOf2("NONE"), physdev_is_out |-> AnyOf2("NONE"),
   physdev_is_bridged |-> AnyOf2("NONE")]
physdev_init == [match |-> {}, invert |-> {}, physindev |-> "", physoutdev |-> ""]
physdev_parse(c) ==
  Need(MatchBit(c, c.id), c.id \in {"physdev_in", "physdev_out"} => Len(c.arg[1]) < IFNAMSIZ)
physdev_check(c) == Need(c, c.xflags # {})
physdev_save(i) ==
  SavedBit(i, "physdev_is_in", <<>>) \o SavedBit(i, "physdev_in", <<i.physindev>>) \o
  SavedBit(i, "physdev_is_out", <<>>) \o SavedBit(i, "physdev_out", <<i.physoutdev>>) \o
  SavedBit(i, "physdev_is_bridged", <<>>)
physdev_print(i) == Listed(physdev_save(i))
------------------------------------------------------------------------------
(* devgroup: where the destination's group is written, the source's is taken. *)
devgroup_opts == [src_group |-> AnyOf2("CUSTOM"), dst_group |-> AnyOf2("CUSTOM")]
devgroup_init == [match |-> {}, invert |-> {}, src_group |-> <<0, 0>>, dst_group |-> <<0, 0>>]
devgroup_parse_groupspec(arg) == IF Len(arg) = 1 THEN <<arg[1], UINT32_MAX>> ELSE arg
devgroup_parse(c) == MatchBit([c EXCEPT !.info[c.id] = devgroup_parse_groupspec(c.arg)], c.id)
devgroup_check(c) == Need(c, c.xflags # {})
print_devgroup(group) == Mark(group[1], group[2])
devgroup_show(i) ==
  SavedBit(i, "src_group", print_devgroup(i.src_group)) \o
  SavedBit(i, "dst_group", print_devgroup(i.src_group))
devgroup_save(i) == devgroup_show(i)
devgroup_print(i) == Listed(devgroup_show(i))
------------------------------------------------------------------------------
(* realm: a number, with or without a mask. *)
realm_opts == [realm |-> Mandatory(AnyOf2("CUSTOM"))]
realm_init == [id |-> 0, mask |-> 0, invert |-> FALSE]
realm_parse(c) ==
  [c EXCEPT !.info = [id |-> c.arg[1], mask |-> IF Len(c.arg) = 1 THEN UINT32_MAX ELSE c.arg[2],
                      invert |-> @.invert \/ c.invert]]
print_realm(id, mask) == Mark(id, mask)
realm_save(i) == Put(TRUE, i.invert, "realm", print_realm(i.id, i.mask))
realm_print(i) == Listed(realm_save(i))
------------------------------------------------------------------------------
(***************************************************************************)
(* ipvs.  The table calls the protocol a string, so that the parser sets   *)
(* no number, and the number then taken from the call record is what the   *)
(* stack held: it is the second component of the argument here.  It is     *)
(* saved as --proto, which the match does not have.                        *)
(***************************************************************************)
PortOf(field) == [InvPut("PORT", field) EXCEPT !.flags = @ \cup {"NBO"}]
ipvs_mt_opts ==
  [ipvs |-> AnyOf2("NONE"), vproto |-> AnyOf2("CUSTOM"), vaddr |-> AnyOf2("HOSTMASK"),
   vport |-> PortOf("vport"), vdir |-> Entry("CUSTOM"), vmethod |-> AnyOf2("CUSTOM"),
   vportctl |-> PortOf("vportctl")]
ipvs_mt_init ==
  [match |-> {}, invert |-> {}, l4proto |-> 0, vaddr |-> <<0, 0>>, vport |-> 0, fwd_method |-> "MASQ",
   vportctl |-> 0]
ipvs_mt_parse(c) ==
  CASE c.id = "vproto" -> MatchBit([c EXCEPT !.info.l4proto = c.arg[2]], c.id)
    [] c.id = "vaddr" -> MatchBit([c EXCEPT !.info.vaddr = <<c.val[1], c.val[2]>>], c.id)
    [] c.id = "vdir" ->
         Need(MatchBit([c EXCEPT !.info.invert = IF c.arg[1] = "REPLY" THEN @ \cup {"vdir"} ELSE @ \ {"vdir"}],
                       c.id), c.arg[1] \in {"ORIGINAL", "REPLY"})
    [] c.id = "vmethod" -> Need(MatchBit([c EXCEPT !.info.fwd_method = c.arg[1]], c.id),
                                c.arg[1] \in {"GATE", "IPIP", "MASQ"})
    [] OTHER -> MatchBit(c, c.id)
ipvs_mt_check(c) ==
  LET once == c.info.match \ {"ipvs"} # {}
  IN Need([c EXCEPT !.info.match = IF once THEN @ \cup {"ipvs"} ELSE @],
          c.xflags # {} /\ ~(once /\ "ipvs" \in c.info.invert))
ipvs_mt_dump_addr(a) == IF a[2] = AllOnes THEN <<a[1]>> ELSE <<a[1], Cidr(a[2])>>
ipvs_mt_dump(i) ==
  Put(i.match = {"ipvs"}, "ipvs" \in i.invert, "ipvs", <<>>) \o
  Put("vproto" \in i.match, "vproto" \in i.invert, "proto", <<i.l4proto>>) \o
  SavedBit(i, "vaddr", ipvs_mt_dump_addr(i.vaddr)) \o SavedBit(i, "vport", <<htons(i.vport)>>) \o
  Put("vdir" \in i.match, FALSE, "vdir", <<IF "vdir" \in i.invert THEN "REPLY" ELSE "ORIGINAL">>) \o
  SavedBit(i, "vmethod", <<i.fwd_method>>) \o SavedBit(i, "vportctl", <<htons(i.vportctl)>>)
ipvs_mt4_save(i) == ipvs_mt_dump(i)
ipvs_mt4_print(i) == Listed(ipvs_mt_dump(i))
------------------------------------------------------------------------------
(* nfacct, osf, bpf and connlabel. *)
nfacct_opts == [nfacct_name |-> [Mandatory(PutIn("STRING", "name")) EXCEPT !.min = 1, !.size = 4]]
nfacct_init == [name |-> ""]
nfacct_save(i) == Put(TRUE, FALSE, "nfacct_name", <<i.name>>)
nfacct_print(i) == Listed(nfacct_save(i))

osf_opts ==
  [genre |-> [Mandatory(InvPut("STRING", "genre")) EXCEPT !.size = 4],
   ttl |-> [PutIn("UINT32", "ttl") EXCEPT !.max = 2], log |-> [PutIn("UINT32", "loglevel") EXCEPT !.max = 2]]
osf_init == [genre |-> "", len |-> 0, ttl |-> 0, loglevel |-> 0, flags |-> {}]
osf_parse(c) ==
  CASE c.id = "genre" ->
         [c EXCEPT !.info.len = Len(c.info.genre), !.info.flags = IF c.invert THEN @ \cup {"invert"} ELSE @]
    [] OTHER -> [c EXCEPT !.info.flags = @ \cup {c.id}]
osf_save(i) ==
  Put(TRUE, "invert" \in i.flags, "genre", <<i.genre>>) \o
  Put("ttl" \in i.flags, FALSE, "ttl", <<i.ttl>>) \o Put("log" \in i.flags, FALSE, "log", <<i.loglevel>>)
osf_print(i) == {<<"genre", "invert" \in i.flags>>}

XT_BPF_MAX_NUM_INSTR == 2            \* 64 in the code
bpf_opts == [bytecode |-> Entry("CUSTOM")]
bpf_init == [bpf_program |-> <<>>]
\* The length stands before the instructions.
bpf_parse(c) ==
  Need([c EXCEPT !.info.bpf_program = c.arg[2]],
       c.arg[1] \in 1 .. XT_BPF_MAX_NUM_INSTR /\ c.arg[1] = Len(c.arg[2]))
bpf_fcheck(c) == Need(c, "bytecode" \in c.xflags)
bpf_save(i) == Put(TRUE, FALSE, "bytecode", <<Len(i.bpf_program), i.bpf_program>>)
bpf_print(i) == Listed(bpf_save(i))

LabelMap == <<"green", "red">>       \* connlabel.conf: the name of each bit
connlabel_mt_opts == [label |-> Mandatory(AnyOf2("CUSTOM")), set |-> Entry("NONE")]
connlabel_mt_init == [bit |-> 0, options |-> {}]
connlabel_mt_parse(c) ==
  IF c.id = "set" THEN [c EXCEPT !.info.options = @ \cup {"set"}]
  ELSE IF c.arg[1] \notin Range(LabelMap) THEN Refused(c)
  ELSE [c EXCEPT !.info.bit = CHOOSE b \in DOMAIN LabelMap : LabelMap[b] = c.arg[1],
                 !.info.options = IF c.invert THEN @ \cup {"invert"} ELSE @]
connlabel_mt_save(i) ==
  Put(TRUE, "invert" \in i.options, "label", <<LabelMap[i.bit]>>) \o
  Put("set" \in i.options, FALSE, "set", <<>>)
connlabel_mt_print(i) == Listed(connlabel_mt_save(i))
------------------------------------------------------------------------------
(***************************************************************************)
(* set: the name of a set of the kernel and, for each of its dimensions,   *)
(* `src' or `dst'.  Its parse functions are called directly.               *)
(***************************************************************************)
IPSET_DIM_MAX == 3                   \* 6 in the code
KernelSets == {"s1", "s2"}           \* the sets ipset has
Counters == {"packets", "bytes"}
set_opts_v0 == [match_set |-> AnyOf2("CUSTOM"), set |-> AnyOf2("CUSTOM")]
set_opts_v2 == set_opts_v0 @@ [return_nomatch |-> AnyOf2("NONE")]
set_opts_v3 ==
  set_opts_v2 @@ [o \in {"update_counters", "update_subcounters"} |-> AnyOf2("NONE")] @@
  [o \in {"packets_eq", "packets_lt", "packets_gt", "bytes_eq", "bytes_lt", "bytes_gt"} |-> AnyOf2("UINT64")]
set_init ==
  [name |-> "", dirs |-> <<>>, flags |-> {}, packets |-> <<"none", 0>>, bytes |-> <<"none", 0>>]
parse_dirs(c, max) ==
  Need([c EXCEPT !.info.name = c.arg[1], !.info.dirs = c.arg[2], !.xflags = @ \cup {"match_set"},
                 !.info.flags = IF c.invert THEN @ \cup {"invert"} ELSE @],
       c.info.dirs = <<>> /\ c.arg[1] \in KernelSets /\ Len(c.arg[2]) <= max)
set_parse_v0(c) == parse_dirs(c, IPSET_DIM_MAX - 1)
set_parse_v1(c) == parse_dirs(c, IPSET_DIM_MAX)
set_parse_v2(c) ==
  IF c.id = "return_nomatch" THEN [c EXCEPT !.info.flags = @ \cup {"return_nomatch"}] ELSE set_parse_v1(c)
Counter(c, counter, op) ==
  LET kind == IF op = "eq" /\ c.invert THEN "ne" ELSE op
  IN Need([c EXCEPT !.info[counter] = <<kind, c.arg[1]>>],
          c.info[counter][1] = "none" /\ (c.invert => op = "eq"))
set_parse_v3(c) ==
  CASE c.id = "return_nomatch" -> Need(set_parse_v2(c), ~c.invert)
    [] c.id \in {"update_counters", "update_subcounters"} ->
         IF c.invert THEN [c EXCEPT !.info.flags = @ \cup {c.id}] ELSE c
    [] c.id \in {"packets_eq", "packets_lt", "packets_gt"} ->
         Counter(c, "packets", CASE c.id = "packets_eq" -> "eq" [] c.id = "packets_lt" -> "lt" [] OTHER -> "gt")
    [] c.id \in {"bytes_eq", "bytes_lt", "bytes_gt"} ->
         Counter(c, "bytes", CASE c.id = "bytes_eq" -> "eq" [] c.id = "bytes_lt" -> "lt" [] OTHER -> "gt")
    [] OTHER -> set_parse_v1(c)
set_check_v0(c) == Need(c, c.xflags # {})
print_match(i) == Put(TRUE, "invert" \in i.flags, "match_set", <<i.name, i.dirs>>)
set_save_v1(i) == print_match(i)
set_save_v2(i) == print_match(i) \o Put("return_nomatch" \in i.flags, FALSE, "return_nomatch", <<>>)
set_printv3_counter(count, eq, lt, gt) ==
  Put(count[1] # "none", count[1] = "ne",
      CASE count[1] = "lt" -> lt [] count[1] = "gt" -> gt [] OTHER -> eq, <<count[2]>>)
set_save_v3(i) ==
  set_save_v2(i) \o Put("update_counters" \in i.flags, TRUE, "update_counters", <<>>) \o
  Put("update_subcounters" \in i.flags, TRUE, "update_subcounters", <<>>) \o
  set_printv3_counter(i.packets, "packets_eq", "packets_lt", "packets_gt") \o
  set_printv3_counter(i.bytes, "bytes_eq", "bytes_lt", "bytes_gt")
set_print_v1(i) == Listed(set_save_v1(i))
set_print_v2(i) == Listed(set_save_v2(i))
set_print_v3(i) == Listed(set_save_v3(i))
=============================================================================
