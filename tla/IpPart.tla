-------------------------------- MODULE IpPart --------------------------------
(***************************************************************************)
(* The words of -s, -d, -i and -o: how libxtables reads them               *)
(* (libxtables/xtables.c 503-537, 1178-1474, 1566-1783) and how            *)
(* iptables.c and ip6tables.c write them when rules are saved or listed.   *)
(*                                                                         *)
(* Addresses and masks are numbers of AddrBits bits, of which the first is *)
(* the highest; an address of both families has two bytes here.  A family  *)
(* is 4 or 6.  The text of a name is not modelled: the resolver is Hosts.  *)
(***************************************************************************)
EXTENDS Integers, Sequences, SequencesExt

CONSTANTS
    AddrBits,    \* width of an address: 32 or 128 in the code
    Hosts,       \* the names of hosts and networks the resolver knows, with their addresses
    IFNAMSIZ     \* size of an interface name: 16 in the code

ASSUME IpPartAssumption ==
    /\ AddrBits \in Nat /\ AddrBits % 2 = 0 /\ AddrBits > 0
    /\ IFNAMSIZ \in Nat \ {0}

ByteBits == AddrBits \div 2
AllBits  == 2^AddrBits - 1

\* The bits of two addresses or masks that are set in both.
Bit(x, i) == (x \div 2^i) % 2
x & y == MapThenSumSet(LAMBDA i : 2^i, {i \in 0 .. AddrBits - 1 : Bit(x, i) = 1 /\ Bit(y, i) = 1})

\* The mask behind an address: none, a number of bits, or written as an address.
NoMask    == [kind |-> "none",   val |-> 0]
Bits(n)   == [kind |-> "bits",   val |-> n]
Dotted(m) == [kind |-> "dotted", val |-> m]

\* One address of a list: a name, a whole number, or a whole number that is only its
\* first byte.
Name(w, m)    == [kind |-> "name",    name |-> w,  addr |-> 0, mask |-> m]
Numeric(a, m) == [kind |-> "numeric", name |-> "", addr |-> a, mask |-> m]
Short(n)      == [kind |-> "short",   name |-> "", addr |-> n, mask |-> NoMask]

-----------------------------------------------------------------------------
(* Reading addresses.  Every failure ends the program: no address is {}.   *)

\* The first n bits set: htonl(0xFFFFFFFF << (32 - n)).
Prefix(n) == 2^AddrBits - 2^(AddrBits - n)

MaskReads(m) == m.kind = "bits" => m.val <= AddrBits

parse_ipmask(m) ==
    CASE m.kind = "none"   -> AllBits
      [] m.kind = "dotted" -> m.val
      [] m.kind = "bits"   -> Prefix(m.val)

\* IPv6 sets the bytes before the bit, shifts one, and clears those behind it.  (Of a
\* prefix of whole bytes it clears one byte more than there are, which is not modelled.)
parse_ip6mask(m) ==
    LET full == 2^ByteBits - 1
        byte(k) == CASE k < m.val \div ByteBits -> full
                     [] k = m.val \div ByteBits ->
                          (full * 2^(ByteBits - (m.val % ByteBits))) % 2^ByteBits
                     [] OTHER -> 0
    IN CASE m.kind = "none"   -> AllBits
         [] m.kind = "dotted" -> m.val
         [] m.kind = "bits"   -> byte(0) * 2^ByteBits + byte(1)

parse_mask(family, m) == IF family = 4 THEN parse_ipmask(m) ELSE parse_ip6mask(m)

\* __numeric_to_ipaddr completes a first byte with zeros; inet_pton does not.
IsNumber(family, it) ==
    \/ it.kind = "numeric"
    \/ it.kind = "short" /\ family = 4 /\ it.addr < 2^ByteBits

NumberOf(it) == IF it.kind = "short" THEN it.addr * 2^(AddrBits - ByteBits) ELSE it.addr

\* ipparse_hostnetwork, ip6parse_hostnetwork: a number, or all addresses of a name
HostReads(family, it) == IsNumber(family, it) \/ (it.kind = "name" /\ it.name \in DOMAIN Hosts)

ipparse_hostnetwork(family, it) ==
    IF IsNumber(family, it) THEN <<NumberOf(it)>> ELSE Hosts[it.name]

\* A null mask replaces the name, which need not exist then.
Anything == Numeric(0, NoMask)

ItemReads(family, it) ==
    MaskReads(it.mask) /\ (parse_mask(family, it.mask) = 0 \/ HostReads(family, it))

ListReads(family, items) == \A k \in DOMAIN items : ItemReads(family, items[k])

\* A place of the arrays that nobody filled, which has what the allocation held; place i
\* of count is the next to be filled.
Unset == [addr |-> AllBits, mask |-> AllBits]

\* mutant: the addresses of a name share one place of count
OneItem_uncounted(family, st, it) ==
    LET mask == parse_mask(family, it.mask)
        got  == ipparse_hostnetwork(family, IF mask = 0 THEN Anything ELSE it)
    IN [i |-> st.i + Len(got), count |-> st.count,
        at |-> st.at \o [j \in 1 .. Len(got) |-> [addr |-> got[j], mask |-> mask]]]

\* One turn of the loop: a name with n addresses takes n places of the arrays.
OneItem(family, st, it) ==
    LET mask == parse_mask(family, it.mask)
        got  == ipparse_hostnetwork(family, IF mask = 0 THEN Anything ELSE it)
        n    == Len(got)
    IN [i |-> st.i + n, count |-> st.count + n - 1,
        at |-> st.at \o [j \in 1 .. n |-> [addr |-> got[j], mask |-> mask]]]

\* xtables_ipparse_multiple: count starts as the number of commas and one; all
\* addresses are masked at the end.
xtables_ipparse_multiple(family, items) ==
    LET filled == FoldLeft(LAMBDA st, it : OneItem(family, st, it),
                           [i |-> 0, count |-> Len(items), at |-> <<>>], items)
        place(k) == IF k <= Len(filled.at) THEN filled.at[k] ELSE Unset
    IN [k \in 1 .. filled.count |-> [place(k) EXCEPT !.addr = @ & place(k).mask]]

-----------------------------------------------------------------------------
(* Writing addresses.                                                      *)

\* mutant: the loop that tries prefixes ends one too early
xtables_ipmask_to_cidr_short(mask) ==
    IF \E n \in 1 .. AddrBits : mask = Prefix(n)
    THEN CHOOSE n \in 1 .. AddrBits : mask = Prefix(n) ELSE -1

\* The number of bits of a mask that is a prefix, -1 of another.
xtables_ipmask_to_cidr(mask) ==
    IF \E n \in 0 .. AddrBits : mask = Prefix(n)
    THEN CHOOSE n \in 0 .. AddrBits : mask = Prefix(n) ELSE -1

\* IPv6 shifts the leading ones out and asks whether anything is left.
xtables_ip6mask_to_cidr(mask) ==
    LET ones == CHOOSE n \in 0 .. AddrBits :
                    /\ \A b \in AddrBits - n .. AddrBits - 1 : (mask \div 2^b) % 2 = 1
                    /\ n < AddrBits => (mask \div 2^(AddrBits - n - 1)) % 2 = 0
    IN IF mask = Prefix(ones) THEN ones ELSE -1

cidr(family, mask) ==
    IF family = 4 THEN xtables_ipmask_to_cidr(mask) ELSE xtables_ip6mask_to_cidr(mask)

\* print_ip of a rule that is saved: the words it writes for an address, none if that
\* says nothing.  IPv4 looks at address and mask, IPv6 at the mask only.
print_ip(family, addr, mask, invert) ==
    LET bits == cidr(family, mask)
        nothing == IF family = 4 THEN mask = 0 /\ addr = 0 ELSE bits = 0
    IN IF nothing /\ ~invert THEN <<>>
       ELSE <<Numeric(addr, IF bits = -1 THEN Dotted(mask) ELSE Bits(bits))>>

\* xtables_ipmask_to_numeric and xtables_ip6mask_to_numeric, for a rule that is
\* listed: "" for all bits.  cidr is unsigned in the former, and never below zero.
mask_to_numeric(family, mask) ==
    LET bits == cidr(family, mask)
    IN IF bits = AddrBits THEN NoMask
       ELSE IF family = 6 /\ bits = -1 THEN Dotted(mask) ELSE Bits(bits)

\* the column of print_firewall, with -n
print_firewall(family, addr, mask) == <<addr, mask_to_numeric(family, mask)>>

-----------------------------------------------------------------------------
(* Interfaces: the letters of a name, and how many of them are compared.   *)

\* The compared part counts the NUL behind the name, unless the name ends with '+'.
InterfaceReads(letters) == letters # <<>> /\ Len(letters) + 1 <= IFNAMSIZ

xtables_parse_interface(letters) ==
    [name |-> letters,
     mask |-> IF letters[Len(letters)] = "+" THEN Len(letters) - 1 ELSE Len(letters) + 1]

\* print_iface of a rule that is saved: the letters it writes, none if none is compared,
\* negated or not.  Behind the compared part comes '+' if the letter before it is no NUL.
print_iface(via) ==
    IF via.mask = 0 THEN <<>>
    ELSE IF via.mask > Len(via.name) THEN via.name
    ELSE Append(SubSeq(via.name, 1, via.mask), "+")
=============================================================================
