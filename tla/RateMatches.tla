------------------------------ MODULE RateMatches ------------------------------
(***************************************************************************)
(* The matches that count: limit, hashlimit (both revisions), connbytes,   *)
(* connlimit (both revisions), statistic, recent (both revisions).  What   *)
(* makes them hard is arithmetic: a rate is kept as a period, rounded, and *)
(* printed as a rate again.                                                *)
(***************************************************************************)
EXTENDS Xtoptions, SequencesExt

(***************************************************************************)
(* A rate is <<number, unit>> (minute may be written min, no unit is       *)
(* second); the period kept is SCALE * seconds of the unit / number.       *)
(***************************************************************************)
SCALE == 10000              \* XT_LIMIT_SCALE, XT_HASHLIMIT_SCALE
rates == <<"day", "hour", "min", "sec">>
mult == [day |-> 86400, hour |-> 3600, min |-> 60, sec |-> 1]
Period(rate) == (SCALE * mult[rate[2]]) \div rate[1]
parse_rate(rate) == rate[2] \in DOMAIN mult /\ rate[1] > 0 /\ Period(rate) > 0

\* The first unit but day that would be inexact, or else the last; the number
\* is in the unit before it.
UnitIndex(period) ==
  LET Breaks(k) == LET m == SCALE * mult[rates[k]] IN period > m \/ m \div period < m % period
      stops == {k \in 2 .. 4 : Breaks(k)}
  IN IF stops = {} THEN 4 ELSE (CHOOSE k \in stops : \A j \in stops : k <= j) - 1
print_rate(period) ==
  LET unit == rates[UnitIndex(period)] IN <<(SCALE * mult[unit]) \div period, unit>>
------------------------------------------------------------------------------
XT_LIMIT_BURST == 5
limit_opts == [limit |-> Entry("CUSTOM"),
               limit_burst |-> [Entry("UINT32") EXCEPT !.put = "burst", !.max = 10000]]
limit_init == [avg |-> Period(<<3, "hour">>), burst |-> XT_LIMIT_BURST]
limit_parse(c) ==
  IF c.id # "limit" THEN c
  ELSE IF ~parse_rate(c.arg) THEN Refused(c) ELSE [c EXCEPT !.info.avg = Period(c.arg)]
limit_save(i) ==
  Put(TRUE, FALSE, "limit", print_rate(i.avg)) \o
  Put(i.burst # XT_LIMIT_BURST, FALSE, "limit_burst", <<i.burst>>)
limit_print(i) == {<<"limit", FALSE>>, <<"limit_burst", FALSE>>}
------------------------------------------------------------------------------
(***************************************************************************)
(* hashlimit: revision 0 limits packets; revision 1 also bytes, a rate     *)
(* <<number, unit>> with a unit of ByteUnits.  mult, kept beside the data  *)
(* until the final check, is the expiry the rate implies; the check clears *)
(* it here.                                                                *)
(***************************************************************************)
BURST_MAX == 10000
BYTE_EXPIRE == 15
BYTE_EXPIRE_BURST == 60
GCINTERVAL == 1000
units == <<"mb", "kb", "b">>
get_factor == [mb |-> 1048576, kb |-> 1024, b |-> 1]
HashModes == {"srcip", "srcport", "dstip", "dstport"}
cost_to_bytes(cost) == (UINT32_MAX \div cost - 1) * 16
bytes_to_cost(bytes) == UINT32_MAX \div (bytes \div 16 + 1)

HashTable(name) ==
  [hashlimit_htable_size |-> [Entry("UINT32") EXCEPT !.put = "size"],
   hashlimit_htable_max |-> [Entry("UINT32") EXCEPT !.put = "max"],
   hashlimit_htable_gcinterval |-> [Entry("UINT32") EXCEPT !.put = "gc_interval"],
   hashlimit_htable_expire |-> [Entry("UINT32") EXCEPT !.put = "expire"],
   hashlimit_name |-> [Entry("STRING") EXCEPT !.flags = {"MAND"}, !.put = name, !.min = 1, !.size = 4]]
hashlimit_opts ==
  [hashlimit |-> Entry("CUSTOM"),
   hashlimit_burst |-> [Entry("UINT32") EXCEPT !.put = "burst", !.min = 1, !.max = BURST_MAX],
   hashlimit_mode |-> [Entry("CUSTOM") EXCEPT !.flags = {"MAND"}]] @@ HashTable("name")
hashlimit_mt_opts ==
  [hashlimit_upto |-> [Entry("CUSTOM") EXCEPT !.flags = {"INVERT"}, !.excl = {"hashlimit_above"}],
   hashlimit_above |-> [Entry("CUSTOM") EXCEPT !.flags = {"INVERT"}, !.excl = {"hashlimit_upto"}],
   hashlimit_srcmask |-> Entry("PLEN"), hashlimit_dstmask |-> Entry("PLEN"),
   hashlimit_burst |-> Entry("CUSTOM"), hashlimit_mode |-> Entry("CUSTOM")] @@ HashTable("name")
hashlimit_init ==
  [name |-> "", mode |-> {}, avg |-> 0, burst |-> 5, size |-> 0, max |-> 0,
   gc_interval |-> GCINTERVAL, expire |-> 0, mult |-> 0,
   flags |-> {}, srcmask |-> AddressBits, dstmask |-> AddressBits]

parse_hash_rate(c) ==
  IF ~parse_rate(c.arg) THEN Refused(c)
  ELSE [c EXCEPT !.info.avg = Period(c.arg), !.info.mult = mult[c.arg[2]]]
parse_mode(c) ==
  IF ~c.arg[1] \subseteq HashModes THEN Refused(c) ELSE [c EXCEPT !.info.mode = @ \cup c.arg[1]]
parse_bytes(c) ==
  LET bytes == c.arg[1] * get_factor[c.arg[2]]
  IN IF c.arg[1] = 0 \/ bytes_to_cost(bytes) = 0 THEN Refused(c)
     ELSE [c EXCEPT !.info.avg = bytes_to_cost(bytes), !.info.mult = BYTE_EXPIRE,
                    !.info.flags = @ \cup {"BYTES"}]
\* <<number>> or <<number, unit>>: only a bare number is bounded
parse_burst(c) ==
  IF c.arg[1] = 0 \/ (Len(c.arg) = 1 /\ c.arg[1] > BURST_MAX) THEN Refused(c)
  ELSE [c EXCEPT !.info.burst = IF Len(c.arg) = 1 THEN c.arg[1] ELSE c.arg[1] * get_factor[c.arg[2]]]
hashlimit_parse(c) ==
  CASE c.id = "hashlimit" -> parse_hash_rate(c)
    [] c.id = "hashlimit_mode" -> parse_mode(c)
    [] OTHER -> c
ByteOrPacketRate(c) == IF c.arg[2] \in DOMAIN get_factor THEN parse_bytes(c) ELSE parse_hash_rate(c)
hashlimit_mt_parse(c) ==
  CASE c.id \in {"hashlimit_upto", "hashlimit_above"} ->
         ByteOrPacketRate(IF c.invert = (c.id = "hashlimit_upto")
                          THEN [c EXCEPT !.info.flags = @ \cup {"INVERT"}] ELSE c)
    [] c.id = "hashlimit_burst" -> parse_burst(c)
    [] c.id = "hashlimit_mode" -> parse_mode(c)
    [] c.id = "hashlimit_srcmask" -> [c EXCEPT !.info.srcmask = c.val[3]]
    [] c.id = "hashlimit_dstmask" -> [c EXCEPT !.info.dstmask = c.val[3]]
    [] OTHER -> c

Expires(c, seconds) ==
  [c EXCEPT !.info.mult = 0,
            !.info.expire = IF "hashlimit_htable_expire" \in c.xflags THEN @ ELSE seconds * 1000]
hashlimit_check(c) == Need(Expires(c, c.info.mult), "hashlimit" \in c.xflags)
hashlimit_mt_check(c) ==
  LET quantum == cost_to_bytes(c.info.avg)     \* 0 below 16 b/s: a burst is divided by it
      burst == (c.info.burst + quantum - 1) \div quantum
  IN IF c.xflags \cap {"hashlimit_upto", "hashlimit_above"} = {} THEN Refused(c)
     ELSE IF "BYTES" \notin c.info.flags
          THEN Need(Expires(c, c.info.mult), c.info.burst <= BURST_MAX)
     ELSE IF "hashlimit_burst" \notin c.xflags
          THEN [Expires(c, c.info.mult) EXCEPT !.info.burst = 0]
     ELSE IF quantum = 0 THEN Refused(c)
     ELSE Need([Expires(c, BYTE_EXPIRE_BURST) EXCEPT !.info.burst = burst], c.info.burst >= quantum)

\* The largest unit that gives the cost back; the burst's is the largest that fits.
ByteUnit(r, avg) ==
  LET Exact(u) == r >= get_factor[u] /\ bytes_to_cost((r \div get_factor[u]) * get_factor[u]) = avg
  IN IF Exact("mb") THEN "mb" ELSE IF Exact("kb") THEN "kb" ELSE "b"
BurstUnit(r) == IF r >= get_factor.mb THEN "mb" ELSE IF r >= get_factor.kb THEN "kb" ELSE "b"
InUnit(r, unit) == <<r \div get_factor[unit], unit>>
print_bytes(i) == LET r == cost_to_bytes(i.avg) IN InUnit(r, ByteUnit(r, i.avg))
print_burst(i) == LET r == cost_to_bytes(i.avg) * i.burst IN InUnit(r, BurstUnit(r))

SaveHashTable(i, quantum) ==
  Put(i.size # 0, FALSE, "hashlimit_htable_size", <<i.size>>) \o
  Put(i.max # 0, FALSE, "hashlimit_htable_max", <<i.max>>) \o
  Put(i.gc_interval # GCINTERVAL, FALSE, "hashlimit_htable_gcinterval", <<i.gc_interval>>) \o
  Put(i.expire # quantum * 1000, FALSE, "hashlimit_htable_expire", <<i.expire>>)
hashlimit_save(i) ==
  Put(TRUE, FALSE, "hashlimit", print_rate(i.avg)) \o
  Put(TRUE, FALSE, "hashlimit_burst", <<i.burst>>) \o
  Put(TRUE, FALSE, "hashlimit_mode", <<i.mode>>) \o
  Put(TRUE, FALSE, "hashlimit_name", <<i.name>>) \o SaveHashTable(i, mult[print_rate(i.avg)[2]])
SaveRate(i) ==
  LET bytes == "BYTES" \in i.flags
  IN Put(TRUE, FALSE, IF "INVERT" \in i.flags THEN "hashlimit_above" ELSE "hashlimit_upto",
         IF bytes THEN print_bytes(i) ELSE print_rate(i.avg)) \o
     Put(~bytes, FALSE, "hashlimit_burst", <<i.burst>>) \o
     Put(bytes /\ i.burst # 0, FALSE, "hashlimit_burst", IF bytes THEN print_burst(i) ELSE <<>>)
Quantum(i) ==
  IF "BYTES" \notin i.flags THEN mult[print_rate(i.avg)[2]]
  ELSE IF i.burst = 0 THEN BYTE_EXPIRE ELSE BYTE_EXPIRE_BURST
hashlimit_mt_save(i) ==
  SaveRate(i) \o
  Put(i.mode # {}, FALSE, "hashlimit_mode", <<i.mode>>) \o
  Put(TRUE, FALSE, "hashlimit_name", <<i.name>>) \o SaveHashTable(i, Quantum(i)) \o
  Put(i.srcmask # AddressBits, FALSE, "hashlimit_srcmask", <<i.srcmask>>) \o
  Put(i.dstmask # AddressBits, FALSE, "hashlimit_dstmask", <<i.dstmask>>)
\* The table's name is not listed.
WithoutName(line) == {<<line[x].id, line[x].invert>> : x \in DOMAIN line} \ {<<"hashlimit_name", FALSE>>}
hashlimit_print(i) == WithoutName(hashlimit_save(i))
hashlimit_mt_print(i) == WithoutName(hashlimit_mt_save(i))
------------------------------------------------------------------------------
\* connbytes: `!' swaps the two ends.
connbytes_opts ==
  [connbytes |-> [Entry("UINT64RC") EXCEPT !.flags = {"MAND", "INVERT"}],
   connbytes_dir |-> [Entry("STRING") EXCEPT !.flags = {"MAND"}],
   connbytes_mode |-> [Entry("STRING") EXCEPT !.flags = {"MAND"}]]
connbytes_init == [from |-> 0, to |-> 0, direction |-> "original", what |-> "packets"]
connbytes_parse(c) ==
  LET to == IF c.nvals = 2 THEN c.val[2] ELSE UINT32_MAX
  IN CASE c.id = "connbytes_dir" ->
            Need([c EXCEPT !.info.direction = c.arg[1]], c.arg[1] \in {"original", "reply", "both"})
       [] c.id = "connbytes_mode" ->
            Need([c EXCEPT !.info.what = c.arg[1]], c.arg[1] \in {"packets", "bytes", "avgpkt"})
       [] OTHER -> Need([c EXCEPT !.info.from = IF c.invert THEN to ELSE c.val[1],
                                  !.info.to = IF c.invert THEN c.val[1] ELSE to],
                        c.val[1] <= to)
print_from_to(i) ==
  LET swapped == i.from > i.to
      from == IF swapped THEN i.to ELSE i.from
      to == IF swapped THEN i.from ELSE i.to
  IN Put(TRUE, swapped, "connbytes", IF to # 0 /\ to < UINT32_MAX THEN <<from, to>> ELSE <<from>>)
connbytes_save(i) ==
  print_from_to(i) \o Put(TRUE, FALSE, "connbytes_mode", <<i.what>>) \o
  Put(TRUE, FALSE, "connbytes_dir", <<i.direction>>)
connbytes_print(i) == Listed(connbytes_save(i))
------------------------------------------------------------------------------
connlimit_opts ==
  [connlimit_upto |-> [Entry("UINT32") EXCEPT !.flags = {"INVERT"}, !.put = "limit", !.excl = {"connlimit_above"}],
   connlimit_above |-> [Entry("UINT32") EXCEPT !.flags = {"INVERT"}, !.put = "limit", !.excl = {"connlimit_upto"}],
   connlimit_mask |-> [Entry("PLENMASK") EXCEPT !.put = "mask"],
   connlimit_saddr |-> [Entry("NONE") EXCEPT !.excl = {"connlimit_daddr"}],
   connlimit_daddr |-> [Entry("NONE") EXCEPT !.excl = {"connlimit_saddr"}]]
connlimit_init == [limit |-> 0, mask |-> AllOnes, flags |-> {}]
connlimit_parse(c, revision) ==
  CASE c.id \in {"connlimit_above", "connlimit_upto"} ->
         IF c.invert = (c.id = "connlimit_above") THEN [c EXCEPT !.info.flags = @ \cup {"INVERT"}] ELSE c
    [] c.id = "connlimit_saddr" -> Need([c EXCEPT !.info.flags = @ \ {"DADDR"}], revision >= 1)
    [] c.id = "connlimit_daddr" -> Need([c EXCEPT !.info.flags = @ \cup {"DADDR"}], revision >= 1)
    [] OTHER -> c
connlimit_check(xflags) == xflags \cap {"connlimit_upto", "connlimit_above"} # {}
\* the bits above the lowest run of zeros: count_bits4, count_bits6
count_bits(mask) ==
  LET clear == AllOnes - mask
  IN AddressBits - (CHOOSE b \in 0 .. AddressBits : clear < 2 ^ b /\ (b = 0 \/ clear >= 2 ^ (b - 1)))
connlimit_save(i, revision) ==
  Put(TRUE, FALSE, IF "INVERT" \in i.flags THEN "connlimit_upto" ELSE "connlimit_above", <<i.limit>>) \o
  Put(TRUE, FALSE, "connlimit_mask", <<count_bits(i.mask)>>) \o
  Put(revision >= 1, FALSE, IF "DADDR" \in i.flags THEN "connlimit_daddr" ELSE "connlimit_saddr", <<>>)
connlimit_print(i) == Listed(connlimit_save(i, 1))
------------------------------------------------------------------------------
(***************************************************************************)
(* statistic: probability and every share their place (a union).  A        *)
(* probability is a number of eighths.                                     *)
(***************************************************************************)
statistic_opts ==
  [mode |-> [Entry("STRING") EXCEPT !.flags = {"MAND"}],
   probability |-> [Entry("DOUBLE") EXCEPT !.flags = {"INVERT"}, !.max = 8, !.excl = {"every", "packet"}],
   every |-> [Entry("UINT32") EXCEPT !.flags = {"INVERT"}, !.put = "every", !.min = 1,
                                     !.excl = {"probability"}, !.also = {"packet"}],
   packet |-> [Entry("UINT32") EXCEPT !.put = "packet", !.excl = {"probability"}, !.also = {"every"}]]
statistic_init == [mode |-> "random", every |-> 0, packet |-> 0, flags |-> {}]
statistic_parse(c) ==
  LET d == IF c.invert THEN [c EXCEPT !.info.flags = {"INVERT"}] ELSE c
  IN CASE c.id = "mode" -> Need([d EXCEPT !.info.mode = c.arg[1]], c.arg[1] \in {"random", "nth"})
       [] c.id = "probability" -> [d EXCEPT !.info.every = c.val[1]]
       [] c.id = "every" -> [d EXCEPT !.info.every = @ - 1]
       [] OTHER -> d
statistic_check(c) ==
  Need(c, /\ c.info.mode = "random" => "probability" \in c.xflags
          /\ c.info.mode = "nth" => c.xflags \cap {"every", "packet"} # {}
          /\ c.info.packet <= c.info.every)
statistic_save(i) ==
  LET inv == "INVERT" \in i.flags
  IN Put(TRUE, FALSE, "mode", <<i.mode>>) \o
     Put(i.mode = "random", inv, "probability", <<i.every>>) \o
     Put(i.mode = "nth", inv, "every", <<i.every + 1>>) \o
     Put(i.mode = "nth", FALSE, "packet", <<i.packet>>)
statistic_print(i) ==
  Listed(statistic_save(i)) \ (IF i.packet = 0 THEN {<<"packet", FALSE>>} ELSE {})
------------------------------------------------------------------------------
AnyOp == {"set", "rcheck", "update", "remove"}
recent_opts_v0 ==
  [op \in AnyOp |-> [Entry("NONE") EXCEPT !.flags = {"INVERT"}, !.excl = AnyOp]] @@
  [seconds |-> [Entry("UINT32") EXCEPT !.put = "seconds", !.min = 1],
   reap |-> [Entry("NONE") EXCEPT !.also = {"seconds"}],
   hitcount |-> [Entry("UINT32") EXCEPT !.put = "hit_count"],
   rttl |-> [Entry("NONE") EXCEPT !.excl = {"set", "remove"}],
   name |-> [Entry("STRING") EXCEPT !.put = "name", !.size = 4],
   rsource |-> Entry("NONE"), rdest |-> Entry("NONE")]
recent_opts_v1 == [mask |-> [Entry("HOST") EXCEPT !.put = "mask"]] @@ recent_opts_v0
recent_init ==
  [check_set |-> {}, seconds |-> 0, hit_count |-> 0, invert |-> FALSE, name |-> "DEF",
   side |-> "rsource", mask |-> AllOnes]
recent_parse(c) ==
  CASE c.id \in AnyOp -> [c EXCEPT !.info.check_set = @ \cup {c.id}, !.info.invert = @ \/ c.invert]
    [] c.id \in {"rttl", "reap"} -> [c EXCEPT !.info.check_set = @ \cup {c.id}]
    [] c.id \in {"rsource", "rdest"} -> [c EXCEPT !.info.side = c.id]
    [] OTHER -> c
recent_check(xflags) == xflags \cap AnyOp # {}
\* `!' is written before the first of the operations.
recent_save(i, revision) ==
  LET op == CHOOSE o \in i.check_set : o \in AnyOp
  IN Put(TRUE, i.invert, op, <<>>) \o
     Put(i.seconds # 0, FALSE, "seconds", <<i.seconds>>) \o
     Put("reap" \in i.check_set, FALSE, "reap", <<>>) \o
     Put(i.hit_count # 0, FALSE, "hitcount", <<i.hit_count>>) \o
     Put("rttl" \in i.check_set, FALSE, "rttl", <<>>) \o
     Put(TRUE, FALSE, "name", <<i.name>>) \o
     Put(revision >= 1, FALSE, "mask", <<i.mask>>) \o
     Put(TRUE, FALSE, i.side, <<>>)
recent_print(i, revision) == Listed(recent_save(i, revision))
=============================================================================
