------------------------------ MODULE Xtoptions ------------------------------
(***************************************************************************)
(* The guided option parser of libxtables/xtoptions.c.  An extension (a    *)
(* match or a target) describes its options in a table, an entry for each  *)
(* option: the type of the argument, whether `!' may stand before it,      *)
(* whether it must be given, which other options it needs or excludes, and *)
(* the field of the extension's data the value is stored in.  The parser   *)
(* takes the options of a line one at a time and, at the end of the line,  *)
(* checks what the table demands.                                          *)
(*                                                                         *)
(* An argument is the sequence of the components that separators divide it *)
(* into; an empty component is Empty.  A 32 or 64 bit number goes up to    *)
(* UINT32_MAX, which is scaled to what TLC can count, and an address has   *)
(* AddressBits bits.                                                       *)
(***************************************************************************)
EXTENDS Integers, Sequences, FiniteSets, TLC

UINT8_MAX  == 255
UINT16_MAX == 65535
UINT32_MAX == 2147483647
AddressBits == 9            \* enough for 255 to be an address that is no prefix
AllOnes == 2 ^ AddressBits - 1

Empty == -1

\* An option table's entry: everything but the type is optional.
Entry(type) ==
  [type |-> type, flags |-> {}, put |-> "", size |-> 256,
   also |-> {}, excl |-> {}, min |-> 0, max |-> 0]

xtopt_max_by_type(type) ==
  CASE type \in {"UINT8", "UINT8RC"} -> UINT8_MAX
    [] type \in {"UINT16", "UINT16RC"} -> UINT16_MAX
    [] type \in {"UINT32", "UINT32RC", "UINT64", "UINT64RC"} -> UINT32_MAX
    [] OTHER -> 0

htons(port) == (port % 256) * 256 + port \div 256
NetworkOrder(e, port) == IF "NBO" \in e.flags THEN htons(port) ELSE port

\* What a parser of one type makes of an argument: refused, or the values it
\* found and how many components it counted.
Bad == [ok |-> FALSE, nvals |-> 1, val |-> <<>>]
Values(val, nvals) == [ok |-> TRUE, nvals |-> nvals, val |-> val]

xtopt_parse_int(e, arg) ==
  LET lmax == IF e.max # 0 THEN e.max ELSE xtopt_max_by_type(e.type)
  IN IF Len(arg) = 1 /\ arg[1] >= 0 /\ arg[1] \in e.min .. lmax THEN Values(arg, 1) ELSE Bad

xtopt_parse_float(e, arg) ==
  IF e.min # e.max /\ arg[1] \notin e.min .. e.max THEN Bad ELSE Values(arg, 1)

xtopt_parse_mint(e, arg) ==
  LET lmax == xtopt_max_by_type(e.type)
      Component(i) == IF arg[i] # Empty THEN arg[i] ELSE IF i = 2 THEN lmax ELSE 0
  IN IF Len(arg) > 2 \/ \E i \in DOMAIN arg : arg[i] > lmax THEN Bad
     ELSE Values([i \in DOMAIN arg |-> Component(i)], Len(arg))

xtopt_parse_mport(e, arg) ==
  LET Component(i) == IF arg[i] # Empty THEN NetworkOrder(e, arg[i])
                      ELSE IF i = 2 THEN UINT16_MAX ELSE 0
  IN IF Len(arg) > 2 \/ \E i \in DOMAIN arg : arg[i] > UINT16_MAX THEN Bad
     ELSE IF Len(arg) = 1 THEN Values(<<Component(1), Component(1)>>, 2)
     ELSE Values(<<Component(1), Component(2)>>, 2)

xtopt_parse_port(e, arg) ==
  IF arg[1] \notin 0 .. UINT16_MAX THEN Bad ELSE Values(<<NetworkOrder(e, arg[1])>>, 1)

xtopt_parse_string(e, arg) ==
  LET z == Len(arg[1])
  IN IF (e.min # 0 /\ z < e.min) \/ (e.max # 0 /\ z > e.max) THEN Bad
     ELSE Values(<<IF e.put # "" /\ z >= e.size THEN SubSeq(arg[1], 1, e.size - 1)
                   ELSE arg[1]>>, 1)

\* "value" or "value/mask"; a name stands for its value under the mask the
\* table gives, a bare number has the mask of all ones.
tos_parse_numeric(arg, max) ==
  IF \E i \in DOMAIN arg : arg[i] \notin 0 .. max THEN Bad
  ELSE Values(<<arg[1], IF Len(arg) = 2 THEN arg[2] ELSE max>>, 1)

NamedTos == -2        \* the argument "Maximize-Throughput", whose value is 8
xtopt_parse_tosmask(e, arg) ==
  IF arg[1] = NamedTos THEN Values(<<8, e.max>>, 1) ELSE tos_parse_numeric(arg, UINT8_MAX)

xtopt_parse_markmask(arg) == tos_parse_numeric(arg, UINT32_MAX)

LogLevels == [emerg |-> 0, panic |-> 0, alert |-> 1, crit |-> 2, error |-> 3,
              warning |-> 4, notice |-> 5, info |-> 6, debug |-> 7]
\* A number is given as itself, a name as a string in a second component.
xtopt_parse_sysloglevel(arg) ==
  IF Len(arg) = 1 THEN (IF arg[1] \in 0 .. 7 THEN Values(arg, 1) ELSE Bad)
  ELSE IF arg[2] \in DOMAIN LogLevels THEN Values(<<LogLevels[arg[2]]>>, 1) ELSE Bad

PlenMask(len) == AllOnes + 1 - 2 ^ (AddressBits - len)
MaskLengths == [len \in 0 .. AddressBits |-> PlenMask(len)]
\* xtables_ipmask_to_cidr: -1 for a mask that is no prefix, kept in a uint8_t.
Cidr(mask) ==
  IF \E len \in DOMAIN MaskLengths : MaskLengths[len] = mask
  THEN CHOOSE len \in DOMAIN MaskLengths : MaskLengths[len] = mask
  ELSE UINT8_MAX

xtopt_parse_host(arg) ==
  IF arg[1] \notin 0 .. AllOnes THEN Bad ELSE Values(<<arg[1], AllOnes, AddressBits>>, 1)

\* afinfo: among the extensions with a length in their options, those of ip6tables.
Inet6 == {"hashlimit6", "HMARK6", "NETMAP6", "SNPT", "DNPT"}

\* An argument is <<length>>, or <<mask, "full">> for a mask written as an address.  A
\* number that is no length is tried as an address too: for IPv4 getaddrinfo takes any
\* (33 is 0.0.0.33), for IPv6 none.
xtopt_parse_mask(arg, inet6) ==
  IF arg[1] \in 0 .. AllOnes /\ (Len(arg) = 2 \/ ~inet6) THEN Values(<<0, 0, Cidr(arg[1])>>, 1) ELSE Bad
xtopt_parse_plen(arg, inet6) ==
  IF Len(arg) = 1 /\ arg[1] \in 0 .. AddressBits THEN Values(<<0, 0, arg[1]>>, 1)
  ELSE xtopt_parse_mask(arg, inet6)
\* The mask is computed from the length again; no branch of the code takes 255.
xtopt_parse_plenmask(arg, inet6) ==
  LET plen == xtopt_parse_plen(arg, inet6)
      hlen == plen.val[3]
  IN IF ~plen.ok THEN Bad
     ELSE Values(<<0, IF hlen = UINT8_MAX THEN AllOnes ELSE PlenMask(hlen), hlen>>, 1)

xtopt_parse_hostmask(arg, inet6) ==
  LET host == xtopt_parse_host(arg)
      mask == xtopt_parse_plenmask(Tail(arg), inet6)
  IN IF Len(arg) = 1 \/ ~host.ok THEN host
     ELSE IF ~mask.ok THEN Bad
     ELSE Values(<<host.val[1], mask.val[2], mask.val[3]>>, 1)

xtopt_parse_protocol(arg) == IF arg[1] \in 0 .. UINT8_MAX THEN Values(arg, 1) ELSE Bad

xtopt_subparse(e, arg, inet6) ==
  CASE e.type \in {"UINT8", "UINT16", "UINT32", "UINT64"} -> xtopt_parse_int(e, arg)
    [] e.type \in {"UINT8RC", "UINT16RC", "UINT32RC", "UINT64RC"} -> xtopt_parse_mint(e, arg)
    [] e.type = "DOUBLE" -> xtopt_parse_float(e, arg)
    [] e.type = "STRING" -> xtopt_parse_string(e, arg)
    [] e.type = "TOSMASK" -> xtopt_parse_tosmask(e, arg)
    [] e.type = "MARKMASK32" -> xtopt_parse_markmask(arg)
    [] e.type = "SYSLOGLEVEL" -> xtopt_parse_sysloglevel(arg)
    [] e.type = "HOST" -> xtopt_parse_host(arg)
    [] e.type = "HOSTMASK" -> xtopt_parse_hostmask(arg, inet6)
    [] e.type = "PROTOCOL" -> xtopt_parse_protocol(arg)
    [] e.type = "PORT" -> xtopt_parse_port(e, arg)
    [] e.type = "PORTRC" -> xtopt_parse_mport(e, arg)
    [] e.type = "PLEN" -> xtopt_parse_plen(arg, inet6)
    [] e.type = "PLENMASK" -> xtopt_parse_plenmask(arg, inet6)
    [] e.type = "CUSTOM" -> Values(arg, 1)     \* text the extension reads itself
    [] e.type \in {"ETHERMAC", "NONE"} -> Values(arg, 1)

\* XTOPT_PUT: a range with one component leaves the field's second value alone.
Stored(e, r, info) ==
  LET put == e.put
  IN IF put = "" THEN info
     ELSE IF e.type \in {"UINT8RC", "UINT16RC", "UINT32RC", "UINT64RC", "PORTRC"}
          THEN [info EXCEPT ![put] = r.val \o SubSeq(info[put], Len(r.val) + 1, 2)]
     ELSE [info EXCEPT ![put] = r.val[IF e.type = "PLENMASK" THEN 2 ELSE 1]]

(***************************************************************************)
(* A call record c is struct xt_option_call: the option (its entry's name, *)
(* `!', the argument), the flags of the options seen so far, the data, and *)
(* the parsed values.  ok turns FALSE where the program exits with an      *)
(* error.                                                                  *)
(***************************************************************************)
Call(ext, proto, o, xflags, info) ==
  [ext |-> ext, proto |-> proto, id |-> o.id, invert |-> o.invert, arg |-> o.arg,
   xflags |-> xflags, info |-> info, nvals |-> 1, val |-> <<>>, ok |-> TRUE]

Refused(c) == [c EXCEPT !.ok = FALSE]

xtables_option_parse(table, c) ==
  LET e == table[c.id]
      again == c.id \in c.xflags /\ ("MULTI" \notin e.flags \/ c.id \in e.excl)
      r == xtopt_subparse(e, c.arg, c.ext \in Inet6)
  IN IF again \/ (c.invert /\ "INVERT" \notin e.flags) \/ ~r.ok THEN Refused(c)
     ELSE [c EXCEPT !.nvals = r.nvals, !.val = r.val, !.info = Stored(e, r, c.info),
                    !.xflags = c.xflags \cup {c.id}]

Missing(table, xflags) ==
  \E i \in DOMAIN table \ xflags : "MAND" \in table[i].flags

xtables_option_fcheck2(table, i, other, xflags) ==
  /\ other \in table[i].also => other \in xflags
  /\ ~(other \in table[i].excl /\ {i, other} \subseteq xflags)

xtables_options_fcheck(table, xflags) ==
  /\ ~Missing(table, xflags)
  /\ \A i \in DOMAIN table \cap xflags, other \in DOMAIN table :
       i # other => xtables_option_fcheck2(table, i, other, xflags)

(***************************************************************************)
(* What the extensions' parse, save and print functions are written with.  *)
(***************************************************************************)
\* if (cb->invert) info->invflags |= flag
Inverted(c, flag) ==
  IF c.invert THEN [c EXCEPT !.info.invflags = @ \cup {flag}] ELSE c
\* the same with info->flags |= flag before it
Flagged(c, flag) == Inverted([c EXCEPT !.info.flags = @ \cup {flag}], flag)

\* x6_fcheck: exit with an error unless the condition holds
Need(c, cond) == IF cond THEN c ELSE Refused(c)

\* One option on an output line, or none.
Put(cond, invert, id, arg) ==
  IF cond THEN <<[id |-> id, invert |-> invert, arg |-> arg]>> ELSE <<>>
\* One option in a listing, or none: a listing is the set of what it shows.
Show(cond, invert, id) == IF cond THEN {<<id, invert>>} ELSE {}
Listed(line) == {<<line[i].id, line[i].invert>> : i \in DOMAIN line}
\* A range is written as one number when its ends are equal.
Range2(r) == IF r[1] = r[2] THEN <<r[1]>> ELSE <<r[1], r[2]>>
\* A mark is written with its mask unless the mask is all ones.
Mark(v, mask) == IF mask = UINT32_MAX THEN <<v>> ELSE <<v, mask>>
=============================================================================
