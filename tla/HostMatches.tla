------------------------------ MODULE HostMatches ------------------------------
(***************************************************************************)
(* The matches on the host and its configuration: policy, time, owner      *)
(* (revision 0 of each family, revision 1), iprange (revisions 0 and 1),   *)
(* cluster, u32, rpfilter, physdev, devgroup, ipvs and set (revisions 0 to *)
(* 3).                                                                     *)
(***************************************************************************)
EXTENDS Xtoptions, SequencesExt

AnyOf2(type) == [Entry(type) EXCEPT !.flags = {"INVERT"}]
PutIn(type, field) == [Entry(type) EXCEPT !.put = field]
InvPut(type, field) == [AnyOf2(type) EXCEPT !.put = field]
\* A field and the bit that says it is matched, with the bit that inverts it.
MatchBit(c, bit) ==
  [c EXCEPT !.info.match = @ \cup {bit}, !.info.invert = IF c.invert THEN @ \cup {bit} ELSE @]
SavedBit(i, bit, arg) == Put(bit \in i.match, bit \in i.invert, bit, arg)
------------------------------------------------------------------------------
(***************************************************************************)
(* policy: a list of elements, ended by --next; the data holds             *)
(* XT_POLICY_MAX_ELEM of them and the length, which the check counts the   *)
(* last element into.  An element maps the options given to their values.  *)
(***************************************************************************)
XT_POLICY_MAX_ELEM == 2               \* 4 in the code
Repeated(type) == [Entry(type) EXCEPT !.flags = {"MULTI", "INVERT"}]
policy_opts ==
  [dir |-> Entry("CUSTOM"), pol |-> Entry("CUSTOM"), strict |-> Entry("NONE"),
   reqid |-> Repeated("UINT32"), spi |-> Repeated("UINT32"), tunnel_src |-> Repeated("HOSTMASK"),
   tunnel_dst |-> Repeated("HOSTMASK"), proto |-> Repeated("PROTOCOL"), mode |-> Repeated("CUSTOM"),
   next |-> [Entry("NONE") EXCEPT !.flags = {"MULTI"}, !.also = {"strict"}]]
policy_init == [flags |-> {}, len |-> 0, pol |-> [x \in 1 .. XT_POLICY_MAX_ELEM |-> [id \in {} |-> 0]]]
IPsecProtocols == {50, 51, 108}

policy_parse(c) ==
  LET e == c.info.len + 1
      Element ==
        [c EXCEPT !.info.pol[e] = (c.id :> [val |-> c.val, invert |-> c.invert]) @@ @]
  IN CASE c.id = "dir" -> Need([c EXCEPT !.info.flags = @ \cup {c.arg[1]}], c.arg[1] \in {"in", "out"})
       [] c.id = "pol" -> Need([c EXCEPT !.info.flags = @ \cup ({c.arg[1]} \cap {"none"})],
                               c.arg[1] \in {"none", "ipsec"})
       [] c.id = "strict" -> [c EXCEPT !.info.flags = @ \cup {"strict"}]
       [] c.id = "next" -> Need([c EXCEPT !.info.len = e], e # XT_POLICY_MAX_ELEM)
       [] OTHER -> Need(Element,
            /\ c.id \notin DOMAIN c.info.pol[e]
            /\ c.id = "proto" => c.val[1] \in IPsecProtocols
            /\ c.id = "mode" => c.arg[1] \in {"transport", "tunnel"})

\* Transport is the mode of an element that names none.
InTransport(e) ==
  "mode" \in DOMAIN e => ((e["mode"].val[1] = "tunnel") = e["mode"].invert)
policy_check(c) ==
  LET i == c.info
      none == "none" \in i.flags
      len == IF none THEN i.len ELSE i.len + 1
  IN Need([c EXCEPT !.info.len = len],
          /\ {"in", "out"} \cap i.flags # {}
          /\ none => "strict" \notin i.flags /\ i.len = 0
          /\ \A x \in 1 .. len :
               /\ "strict" \in i.flags => i.pol[x] # <<>>
               /\ ~(InTransport(i.pol[x]) /\ {"tunnel_src", "tunnel_dst"} \cap DOMAIN i.pol[x] # {}))

PolicyArg(id, val) == IF id \in {"tunnel_src", "tunnel_dst"}
                      THEN IF val[2] = AllOnes THEN <<val[1]>> ELSE <<val[1], Cidr(val[2])>> ELSE val
print_entry(e) ==
  FlattenSeq([x \in 1 .. 6 |->
    LET id == <<"reqid", "spi", "proto", "mode", "tunnel_dst", "tunnel_src">>[x]
    IN IF id \in DOMAIN e THEN Put(TRUE, e[id].invert, id, PolicyArg(id, e[id].val)) ELSE <<>>])
print_flags(i) ==
  Put(TRUE, FALSE, "dir", <<IF "in" \in i.flags THEN "in" ELSE "out">>) \o
  Put(TRUE, FALSE, "pol", <<IF "none" \in i.flags THEN "none" ELSE "ipsec">>) \o
  Put("strict" \in i.flags, FALSE, "strict", <<>>)
policy4_save(i) ==
  print_flags(i) \o
  FlattenSeq([x \in 1 .. i.len |-> print_entry(i.pol[x]) \o Put(x < i.len, FALSE, "next", <<>>)])
\* The listing numbers the elements instead of writing --next.
policy4_print(i) == {o \in Listed(policy4_save(i)) : o[1] # "next"}
------------------------------------------------------------------------------
(***************************************************************************)
(* time.  A date is a number of seconds, 0 for none; days are sets, kept   *)
(* in 32 and in 8 bits.  An inverted list of days is kept as the days left *)
(* and written so; an empty list is written as no word at all.             *)
(***************************************************************************)
XT_TIME_ALL_MONTHDAYS == 1 .. 31
XT_TIME_ALL_WEEKDAYS == 1 .. 7
XT_TIME_MAX_DAYTIME == 86399
NoDate == 2147483647                 \* INT_MAX, a date in 2038
time_opts ==
  [datestart |-> Entry("CUSTOM"), datestop |-> Entry("CUSTOM"), timestart |-> Entry("CUSTOM"),
   timestop |-> Entry("CUSTOM"), contiguous |-> Entry("NONE"),
   weekdays |-> AnyOf2("CUSTOM"), monthdays |-> AnyOf2("CUSTOM"),
   localtz |-> [Entry("NONE") EXCEPT !.excl = {"utc"}],
   utc |-> [Entry("NONE") EXCEPT !.excl = {"localtz", "kerneltz"}],
   kerneltz |-> [Entry("NONE") EXCEPT !.excl = {"utc"}]]
time_init ==
  [monthdays |-> XT_TIME_ALL_MONTHDAYS, weekdays |-> XT_TIME_ALL_WEEKDAYS, daytime_start |-> 0,
   daytime_stop |-> XT_TIME_MAX_DAYTIME, date_start |-> 0, date_stop |-> NoDate, flags |-> {}]

time_parse_monthdays(days) == days
time_parse_weekdays(days) == days \cap (0 .. 7)          \* the others do not fit in the byte
Differ(days, all) == (days \ all) \cup (all \ days)      \* days ^= all
time_parse(c) ==
  CASE c.id = "datestart" -> [c EXCEPT !.info.date_start = c.arg[1]]
    [] c.id = "datestop" -> [c EXCEPT !.info.date_stop = c.arg[1]]
    [] c.id = "timestart" -> Need([c EXCEPT !.info.daytime_start = c.arg[1]], c.arg[1] <= XT_TIME_MAX_DAYTIME)
    [] c.id = "timestop" -> Need([c EXCEPT !.info.daytime_stop = c.arg[1]], c.arg[1] <= XT_TIME_MAX_DAYTIME)
    [] c.id = "contiguous" -> [c EXCEPT !.info.flags = @ \cup {"contiguous"}]
    [] c.id \in {"localtz", "kerneltz"} -> [c EXCEPT !.info.flags = @ \cup {"localtz"}]
    [] c.id = "utc" -> c
    [] c.id = "monthdays" ->
         LET days == time_parse_monthdays(c.arg[1])
         IN Need([c EXCEPT !.info.monthdays = IF c.invert THEN Differ(days, XT_TIME_ALL_MONTHDAYS) ELSE days],
                 c.arg[1] # {} /\ \A d \in c.arg[1] : d <= 31)
    [] c.id = "weekdays" ->
         LET days == time_parse_weekdays(c.arg[1])
         IN Need([c EXCEPT !.info.weekdays = IF c.invert THEN Differ(days, XT_TIME_ALL_WEEKDAYS) ELSE days],
                 c.arg[1] # {} /\ 0 \notin c.arg[1])
time_check(c) ==
  Need(c, "contiguous" \in c.xflags => c.info.daytime_start >= c.info.daytime_stop)

time_print_date(id, date) == Put(date # 0, FALSE, id, <<date>>)   \* LONG_MAX, the other date left out, is no 32 bit number
time_save(i) ==
  LET daytime == i.daytime_start # 0 \/ i.daytime_stop # XT_TIME_MAX_DAYTIME
  IN Put(daytime, FALSE, "timestart", <<i.daytime_start>>) \o
     Put(daytime, FALSE, "timestop", <<i.daytime_stop>>) \o
     Put(i.monthdays # XT_TIME_ALL_MONTHDAYS, FALSE, "monthdays", <<i.monthdays \cap XT_TIME_ALL_MONTHDAYS>>) \o
     Put(i.weekdays # XT_TIME_ALL_WEEKDAYS, FALSE, "weekdays", <<i.weekdays \cap XT_TIME_ALL_WEEKDAYS>>) \o
     time_print_date("datestart", i.date_start) \o time_print_date("datestop", i.date_stop) \o
     Put("localtz" \in i.flags, FALSE, "kerneltz", <<>>) \o
     Put("contiguous" \in i.flags, FALSE, "contiguous", <<>>)
\* The listing says UTC where no zone was asked for, and nothing otherwise.
time_print(i) ==
  {o \in Listed(time_save(i)) : o[1] # "kerneltz"
     /\ (o[1] = "datestop" => i.date_stop # NoDate)} \cup Show("localtz" \in i.flags, FALSE, "kerneltz")
------------------------------------------------------------------------------
(***************************************************************************)
(* owner.  A name is an id already (getpwnam); UINT32_MAX - 1 is the last. *)
(***************************************************************************)
owner_mt6_opts_v0 ==
  [uid_owner |-> AnyOf2("CUSTOM"), gid_owner |-> AnyOf2("CUSTOM"),
   pid_owner |-> [InvPut("UINT32", "pid") EXCEPT !.max = 2147483647],
   sid_owner |-> [InvPut("UINT32", "sid") EXCEPT !.max = 2147483647]]
owner_mt_opts_v0 ==
  owner_mt6_opts_v0 @@ [cmd_owner |-> [InvPut("STRING", "comm") EXCEPT !.size = 4]]   \* 16 in the code
owner_mt_opts ==
  [uid_owner |-> AnyOf2("CUSTOM"), gid_owner |-> AnyOf2("CUSTOM"), socket_exists |-> AnyOf2("NONE")]
owner_init_v0 == [match |-> {}, invert |-> {}, uid |-> 0, gid |-> 0, pid |-> 0, sid |-> 0, comm |-> ""]
owner_init == [match |-> {}, invert |-> {}, uid |-> <<0, 0>>, gid |-> <<0, 0>>]
BelowMax(arg) == \A x \in DOMAIN arg : arg[x] < UINT32_MAX

owner_mt_parse_v0(c) ==
  CASE c.id = "uid_owner" -> Need(MatchBit([c EXCEPT !.info.uid = c.arg[1]], c.id), BelowMax(c.arg))
    [] c.id = "gid_owner" -> Need(MatchBit([c EXCEPT !.info.gid = c.arg[1]], c.id), BelowMax(c.arg))
    [] OTHER -> MatchBit(c, c.id)
owner_mt6_parse_v0(c) == owner_mt_parse_v0(c)
owner_parse_range(arg) == IF Len(arg) = 1 THEN <<arg[1], arg[1]>> ELSE arg
owner_mt_parse(c) ==
  CASE c.id = "uid_owner" -> Need(MatchBit([c EXCEPT !.info.uid = owner_parse_range(c.arg)], c.id), BelowMax(c.arg))
    [] c.id = "gid_owner" -> Need(MatchBit([c EXCEPT !.info.gid = owner_parse_range(c.arg)], c.id), BelowMax(c.arg))
    [] c.id = "socket_exists" -> MatchBit(c, c.id)
owner_mt_check(c) == Need(c, c.xflags # {})

owner_mt6_save_v0(i) ==
  SavedBit(i, "uid_owner", <<i.uid>>) \o SavedBit(i, "gid_owner", <<i.gid>>) \o
  SavedBit(i, "pid_owner", <<i.pid>>) \o SavedBit(i, "sid_owner", <<i.sid>>)
owner_mt_save_v0(i) == owner_mt6_save_v0(i) \o SavedBit(i, "cmd_owner", <<i.comm>>)
owner_mt_save(i) ==
  SavedBit(i, "socket_exists", <<>>) \o SavedBit(i, "uid_owner", Range2(i.uid)) \o
  SavedBit(i, "gid_owner", Range2(i.gid))
owner_mt_print_v0(i) == Listed(owner_mt_save_v0(i))
owner_mt6_print_v0(i) == Listed(owner_mt6_save_v0(i))
owner_mt_print(i) == Listed(owner_mt_save(i))
------------------------------------------------------------------------------
(***************************************************************************)
(* iprange, whose revisions differ in where the addresses are kept.        *)
(***************************************************************************)
iprange_mt_opts == [src_range |-> AnyOf2("CUSTOM"), dst_range |-> AnyOf2("CUSTOM")]
iprange_init == [match |-> {}, invert |-> {}, range |-> [src_range |-> <<0, 0>>, dst_range |-> <<0, 0>>]]
iprange_parse_spec(arg) == \A x \in DOMAIN arg : arg[x] \in 0 .. AllOnes
iprange_parse_range(arg) == IF Len(arg) = 1 THEN <<arg[1], arg[1]>> ELSE arg
iprange_mt_parse(c) ==
  Need(MatchBit([c EXCEPT !.info.range[c.id] = iprange_parse_range(c.arg)], c.id), iprange_parse_spec(c.arg))
iprange_parse(c) == iprange_mt_parse(c)
iprange_mt_check(c) == Need(c, c.xflags # {})
iprange_mt4_save(i) ==
  SavedBit(i, "src_range", i.range.src_range) \o SavedBit(i, "dst_range", i.range.dst_range)
iprange_mt4_print(i) == Listed(iprange_mt4_save(i))
iprange_save(i) == iprange_mt4_save(i)
iprange_print(i) == Listed(iprange_save(i))
=============================================================================
