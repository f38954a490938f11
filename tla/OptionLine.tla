------------------------------ MODULE OptionLine ------------------------------
(***************************************************************************)
(* The options of one match or target on a command line, from the moment   *)
(* the extension is loaded until its final check, and what the extension   *)
(* then writes when the rule is listed (print) or saved (save).  A saved   *)
(* line is read again by the same program, so the state that matters is    *)
(* the extension's data and the flags of the options seen.                 *)
(***************************************************************************)
EXTENDS Extensions

CONSTANTS Typed,        \* what may be typed: for each extension, each option's arguments
          Protocols,    \* for each extension, the values of -p it is tried with
          MaxOptions    \* bound on the options of a line, for each extension

Exts == DOMAIN Typed
OptionNames(ext) == DOMAIN Typed[ext]
TypedOptions(ext) ==
  UNION {{[id |-> id, invert |-> invert, arg |-> arg] :
            arg \in Typed[ext][id], invert \in BOOLEAN} : id \in OptionNames(ext)}

VARIABLES call,     \* the extension, its data and the options seen so far
          given,    \* the options accepted, in their order
          status,   \* "reading", "accepted", "refused", or "again" after the line's lookalikes
          saved,    \* the line save writes for an accepted rule
          again     \* what a new rule holds after each line read again
vars == <<call, given, status, saved, again>>

\* The call record between two options.
Rest(c) == [c EXCEPT !.id = "", !.invert = FALSE, !.arg = <<>>, !.nvals = 1, !.val = <<>>]

Init ==
  /\ \E ext \in Exts : \E proto \in Protocols[ext] : call = Start(ext, proto)
  /\ given = <<>> /\ status = "reading" /\ saved = <<>> /\ again = <<>>

\* An option the parser refuses ends the program.
Refuse ==
  /\ call' = Start(call.ext, call.proto) /\ given' = <<>> /\ status' = "refused"
  /\ UNCHANGED saved

Option ==
  /\ status = "reading" /\ Len(given) < MaxOptions[call.ext]
  /\ \E o \in TypedOptions(call.ext) :
       LET d == ReadOption(call, o)
       IN IF d.ok THEN call' = Rest(d) /\ given' = Append(given, o) /\ UNCHANGED <<status, saved>>
          ELSE Refuse
  /\ UNCHANGED again

EndOfLine ==
  /\ status = "reading"
  /\ LET d == xtables_option_mfcall(call)
     IN IF d.ok
        THEN /\ call' = d /\ status' = "accepted" /\ saved' = save(d.ext, d.info)
             /\ UNCHANGED given
        ELSE Refuse
  /\ UNCHANGED again

\* The lines a user or iptables-restore may give the program next: the saved
\* one, the typed one with an inversion left out, and with two neighbours swapped.
Plain(x) == [given EXCEPT ![x].invert = FALSE]
Swapped(x) == [given EXCEPT ![x] = given[x + 1], ![x + 1] = given[x]]
Lookalikes ==
  {Plain(x) : x \in {y \in DOMAIN given : given[y].invert}} \cup {Swapped(x) : x \in 1 .. (Len(given) - 1)}
SavedAs == <<SavedName(call.ext), saved>>
LinesAgain == {SavedAs} \cup {<<call.ext, line>> : line \in Lookalikes}

\* What a line leaves in a new rule and what save makes of it: nothing if it is refused.
Outcome(c) == IF c.ok THEN <<[info |-> c.info, saved |-> save(c.ext, c.info)]>> ELSE <<>>
ReadAgain ==
  /\ status = "accepted"
  /\ status' = "again"
  /\ again' = [l \in LinesAgain |-> Outcome(ReadLine(l[1], call.proto, l[2]))]
  /\ UNCHANGED <<call, given, saved>>

Next == Option \/ EndOfLine \/ ReadAgain
Spec == Init /\ [][Next]_vars
------------------------------------------------------------------------------
(***************************************************************************)
(* What the code does not keep, extension by extension: the data of an     *)
(* accepted line that save does not write, or writes in a form the same    *)
(* extension reads otherwise or refuses.                                   *)
(***************************************************************************)
InvertedAll(i, flag, field) == flag \in i.invflags /\ i[field] = FullRange
Drifts(period) == Period(print_rate(period)) # period
BurstCut(i) ==
  LET q == cost_to_bytes(i.avg)
      unit == get_factor[BurstUnit(q * i.burst)]
  IN (((q * i.burst) \div unit) * unit + q - 1) \div q # i.burst
Lossy(ext, i) ==
  \/ ext \in {"tcp", "udp"} /\ (InvertedAll(i, "SRCPT", "spts") \/ InvertedAll(i, "DSTPT", "dpts"))
  \/ ext \in {"esp", "ah", "ah6"} /\ i.spis = FullRange32
  \/ ext = "frag" /\ "fragid" \in i.flags /\ i.ids = FullRange32
  \/ ext = "rt" /\ ("rt_segsleft" \in i.flags) = (i.segsleft = FullRange32)
  \/ ext = "mh" /\ "TYPE" \in i.invflags /\ i.types = <<0, UINT8_MAX>>
  \/ ext = "icmp" /\ i.type = 255 /\ i.code # <<0, 255>>
  \/ ext = "sctp" /\ 193 \in i.chunkmap /\ i.chunkmap # 0 .. 255                       \* ASCONF
  \/ ext = "quota" /\ i.flags # {}
  \/ ext \in {"limit", "hashlimit_v0"} /\ Drifts(i.avg)
  \/ ext \in {"hashlimit", "hashlimit6"} /\ IF "BYTES" \in i.flags THEN cost_to_bytes(i.avg) = 0 \/ BurstCut(i) ELSE Drifts(i.avg)
  \/ ext = "hashlimit6" /\ UINT8_MAX \in {i.srcmask, i.dstmask}
  \/ ext = "connbytes" /\ i.from = 0 /\ i.to = 0
  \/ ext = "conntrack_v0" /\ i.state_mask # {}
  \/ ext = "conntrack_v1" /\ "ctstate" \in i.match_flags /\ i.state_mask = {}
  \/ ext = "conntrack" /\ \E p \in Ports : i.port[p][2] < i.port[p][1]
  \/ ext = "state_v0" /\ OtherBits \in i.state_mask
  \/ ext = "policy" /\ "none" \in i.flags /\ i.pol # policy_init.pol
  \/ ext = "time" /\ (i.date_stop = 0 \/ {} \in {i.weekdays, i.monthdays} \/ 0 \in i.monthdays)
  \/ ext = "devgroup" /\ "dst_group" \in i.match /\ i.dst_group # i.src_group
  \/ ext = "ipvs" /\ "vproto" \in i.match
  \/ ext = "cluster" /\ i.node_mask > XT_CLUSTER_NODES_MAX
  \/ ext = "ECN" /\ i.flags = TcpBits /\ i.ecn_ip_ect # 0
  \/ ext = "LED" /\ i.delay = Endless
  \/ ext \in {"NFQUEUE_v1", "NFQUEUE_v2", "NFQUEUE"} /\ i.queues_total = 0
  \/ ext \in {"SNPT", "DNPT"}
  \/ ext = "TCPOPTSTRIP" /\ i.strip_bmap = {}

(***************************************************************************)
(* A saved line gives the rule back: the extension reads the line that its *)
(* save function wrote for an accepted one, and ends with the same data.   *)
(* iptables-restore and a retyped rule rely on it.  Lossy names the cases  *)
(* in which the code breaks it, and no other.                              *)
(***************************************************************************)
SameAgain == again[SavedAs] # <<>> /\ again[SavedAs][1].info = call.info
SavedIsRead == status = "again" => (SameAgain <=> ~Lossy(call.ext, call.info))

(***************************************************************************)
(* `!' is never ignored: a line that is accepted with an option inverted   *)
(* does not save as the line without that `!'.  A rule whose `!' is lost   *)
(* matches the packets it was meant to leave alone.  Where the data says   *)
(* nothing of the range (a full range inverted), of the state (conntrack's *)
(* revision 0), of the elements (policy's none), or the parse function     *)
(* does not look at it, the code does lose it.                             *)
(***************************************************************************)
InversionIgnored(ext, id, i) ==
  \/ ext = "dst" /\ id = "dst_len"
  \/ ext = "set_v2" /\ id = "return_nomatch"
  \/ ext = "connbytes" /\ i.from = i.to
InversionKept ==
  status = "again" /\ ~Lossy(call.ext, call.info) =>
    \A x \in {y \in DOMAIN given : given[y].invert} :
      LET plain == again[<<call.ext, Plain(x)>>]
      IN ~InversionIgnored(call.ext, given[x].id, call.info) /\ plain # <<>> => plain[1].saved # saved

(***************************************************************************)
(* What an option does shows in a listing: iptables -L leaves out none of  *)
(* the options that iptables-save writes, with their inversion.            *)
(***************************************************************************)
Unlisted(ext, i) ==
  CASE ext = "CLUSTERIP" -> {"new"}
    [] ext \in {"SNPT", "DNPT"} -> {"SNPT--src_pfx"}
    [] ext \in {"hashlimit_v0", "hashlimit", "hashlimit6"} -> {"hashlimit_name"}
    [] ext = "osf" -> {"ttl", "log"}
    [] ext = "quota" -> {"quota!"}
    [] ext = "statistic" -> IF i.packet = 0 THEN {"packet"} ELSE {}
    [] ext = "time" -> IF i.date_stop = NoDate THEN {"datestop"} ELSE {}
    [] ext \in {"dccp", "sctp"} -> {p \in {"sport", "dport"} :
                                      i[IF p = "sport" THEN "spts" ELSE "dpts"] = FullRange /\ p \notin i.invflags}
    [] OTHER -> {}
ListingComplete ==
  status = "accepted" =>
    \A o \in Listed(saved) :
      o \in print(call.ext, call.info) \/ o[1] \in Unlisted(call.ext, call.info)

(***************************************************************************)
(* Two options mean the same in either order: a line that is accepted is   *)
(* accepted with two neighbours swapped, with the same data.  The parse    *)
(* functions write shared fields (flags, unions, a list), so that the      *)
(* order can matter; OrderMatters lists the pairs for which it does.       *)
(***************************************************************************)
OrderMatters(ext) ==
  CASE ext \in {"conntrack_v0", "conntrack_v1", "conntrack_v2", "conntrack"} -> {{"ctproto", "ctstatus"}}
    [] ext = "rt" -> {{"rt_type", "rt_0_res"}, {"rt_type", "rt_0_addrs"}}
    [] ext = "SNAT" -> {{"to_source", "persistent"}}
    [] ext = "DNAT" -> {{"to_destination", "persistent"}}
    [] ext = "ECN" -> {{"ecn_tcp_remove", "ecn_ip_ect"}}
    [] ext \in {"TCPMSS", "TCPMSS6"} -> {{"set_mss", "clamp_mss_to_pmtu"}}
    [] ext = "NFQUEUE" -> {{"queue_bypass", "queue_cpu_fanout"}}
    [] ext \in {"HMARK", "HMARK6"} -> {{"hmark_tuple", "spi_mask"}, {"spi", "sport"}}
    [] OTHER -> {}
OrderFree ==
  status = "again" =>
    \A x \in 1 .. (Len(given) - 1) :
      LET pair == {given[x].id, given[x + 1].id}
          swapped == again[<<call.ext, Swapped(x)>>]
      IN Cardinality(pair) = 2 /\ pair \notin OrderMatters(call.ext) =>
           swapped # <<>> /\ swapped[1].info = call.info
=============================================================================
