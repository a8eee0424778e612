------------------------------ MODULE Addresses ------------------------------
(***************************************************************************)
(* ComboAddress and Netmask (comboaddress.hh, comboaddress.cc): an IPv4 or *)
(* IPv6 endpoint, its truncation to a prefix, and prefixes that match      *)
(* addresses.  An address is its bytes in network order, and a bytewise    *)
(* mask is a number of low bits that are cleared.  Sizes are constants, so *)
(* that narrow addresses show what happens at every boundary of bytes.     *)
(***************************************************************************)
EXTENDS Integers, Sequences

CONSTANTS ByteBits,    \* bits of a byte (8)
          V4Len,       \* bytes of an IPv4 address (4)
          V6Len,       \* bytes of an IPv6 address (16)
          MappedZeros, \* zero bytes an IPv4-mapped address starts with (10)
          BitsMod,     \* values of the uint8_t that holds a prefix length (256)
          PortMod,     \* values of a port (65536)
          IntMod,      \* values of an int (2^32)
          Hosts,       \* addresses, without port
          Ports        \* what a text has for a port: NoPort, or a number

ASSUME SizesAssumption == /\ {ByteBits, V4Len, V6Len, BitsMod, PortMod, IntMod} \subseteq Nat \ {0}
                          /\ MappedZeros \in 0..(V6Len - V4Len)
                          /\ V6Len * ByteBits < BitsMod
                          /\ PortMod < IntMod \div 2

INET == 2
INET6 == 10

Bytes == 0..(2^ByteBits - 1)

ASSUME HostsAssumption ==
  \A h \in Hosts : \/ h.family = INET /\ h.addr \in [1..V4Len -> Bytes]
                   \/ h.family = INET6 /\ h.addr \in [1..V6Len -> Bytes]

ASSUME PortsAssumption == Ports \subseteq Int

\* no address text, and a text that has no port
Junk == [family |-> 0, addr |-> <<>>]
NoPort == -2

Combo(h, p) == [family |-> h.family, port |-> p, addr |-> h.addr]
BitLen(c) == IF c.family = INET THEN V4Len * ByteBits ELSE V6Len * ByteBits

\* The number that a sequence of bytes writes, most significant first.
Number(bytes) ==
  LET upTo[n \in 0..Len(bytes)] ==
        IF n = 0 THEN 0 ELSE upTo[n - 1] * 2^ByteBits + bytes[n]
  IN upTo[Len(bytes)]

\* x & ~((1 << b) - 1)
ClearLow(x, b) == x - (x % 2^b)

-----------------------------------------------------------------------------
(* Texts: a host, IPv6 in brackets or not, and what follows the colon       *)

Texts == [host : Hosts \cup {Junk}, brackets : BOOLEAN, port : Ports]

\* What is left in an int of the long that strtol makes of a number, as atoi
\* does too.
ToInt(n) == ((n + IntMod \div 2) % IntMod) - IntMod \div 2

\* inet_aton, and strtol on the port, which has to be in range as an int.
IsV4(t) == t.host.family = INET /\ ~ t.brackets

AcceptsV4(t) == IsV4(t) /\ (t.port = NoPort \/ ToInt(t.port) \in 0..(PortMod - 1))

\* Only a bracketed text can have a port; atoi makes a negative one of "-1",
\* which is ignored, as is no port at all.
AcceptsV6(t) == /\ t.host.family = INET6
                /\ t.brackets => t.port # NoPort /\ ToInt(t.port) < PortMod
                /\ ~ t.brackets => t.port = NoPort

Converts(t) == AcceptsV4(t) \/ AcceptsV6(t)

TextPort(t) == IF t.port = NoPort \/ ToInt(t.port) < 0 THEN 0 ELSE ToInt(t.port)

\* 'str' overrides port: but a port of 0 in the text does not.
PortGiven(t, port) == IF TextPort(t) # 0 THEN TextPort(t) ELSE port

\* ComboAddress(str, port), of a text that converts; another throws.
Parsed(t, port) == Combo(t.host, PortGiven(t, port))

-----------------------------------------------------------------------------
(* Comparison, truncation and mapped addresses *)

\* A port as the number its two bytes make on a little-endian machine.
Htons(p) == (p % 256) * 256 + p \div 256

\* operator<: family, then port, as it is stored, then the bytes; an address of
\* no family is less than none.
LessThan(c, d) ==
  /\ c.family # 0
  /\ \/ c.family < d.family
     \/ c.family = d.family /\ Htons(c.port) < Htons(d.port)
     \/ /\ c.family = d.family
        /\ c.port = d.port
        /\ Number(c.addr) < Number(d.addr)

\* Faulty: a whole byte too many goes when the bits fill their bytes.
ClearRestOrAll(x, b) == ClearLow(x, IF b = 0 THEN ByteBits ELSE b)

ClearRest(x, b) == ClearLow(x, b)

\* truncate: whole bytes are zeroed from the right, the one before them loses
\* its low bits.  With bits = 0 that one is the byte before the address.
Truncated(c, bits) ==
  LET len    == Len(c.addr)
      tozero == BitLen(c) - bits
      whole  == tozero \div ByteBits
      place  == len - whole
      rest   == ClearRest(IF place = 0 THEN c.port ELSE c.addr[place], tozero % ByteBits)
  IN IF bits >= BitLen(c) THEN c
     ELSE [family |-> c.family,
           port   |-> IF place = 0 /\ c.family = INET THEN rest ELSE c.port,
           addr   |-> [n \in 1..len |-> IF n > place THEN 0
                                        ELSE IF n = place THEN rest
                                        ELSE c.addr[n]]]

IsMappedIPv4(c) ==
  /\ c.family = INET6
  /\ \A n \in 1..MappedZeros : c.addr[n] = 0
  /\ \A n \in (MappedZeros + 1)..(V6Len - V4Len) : c.addr[n] = 2^ByteBits - 1

MappedToIPv4(c) == [family |-> INET, port |-> c.port,
                    addr |-> SubSeq(c.addr, V6Len - V4Len + 1, V6Len)]

-----------------------------------------------------------------------------
(* Netmasks: the network, the prefix length, and for IPv4 how many low bits *)
(* the mask clears                                                          *)

MaskLow(bits) == IF bits < V4Len * ByteBits THEN V4Len * ByteBits - bits ELSE 0

\* Netmask(network, bits)
MaskOf(c, bits) ==
  LET used == IF bits > V6Len * ByteBits THEN BitLen(c) ELSE bits
  IN [network |-> [c EXCEPT !.port = 0], bits |-> used, low |-> MaskLow(used)]

\* Netmask("address/bits"), and without bits: the number is cut to a uint8_t.
MaskFromText(c, bits) ==
  [network |-> c, bits |-> bits % BitsMod, low |-> MaskLow(bits % BitsMod)]

MaskFromAddress(c) ==
  [network |-> c, bits |-> BitLen(c),
   low |-> IF c.family = INET THEN 0 ELSE V4Len * ByteBits]

\* Netmask(): of no family, so that it matches nothing.
NoMask == [network |-> Combo(Junk, 0), bits |-> 0, low |-> V4Len * ByteBits]

\* Faulty: compares whole bytes only.
SameRestAlways(us, them, n, bits) == TRUE

\* The bits after the last whole byte.  If there are none, the byte is one
\* past those compared, perhaps past the address, and its mask is empty.
SameRest(us, them, n, bits) ==
  bits # 0 => ClearLow(us[n], ByteBits - bits) = ClearLow(them[n], ByteBits - bits)

Matches(mask, c) ==
  LET us    == mask.network.addr
      bytes == mask.bits \div ByteBits
  IN /\ mask.network.family = c.family
     /\ \/ /\ c.family = INET
           /\ ClearLow(Number(us), mask.low) = ClearLow(Number(c.addr), mask.low)
        \/ /\ c.family = INET6
           /\ \A n \in 1..bytes : us[n] = c.addr[n]
           /\ SameRest(us, c.addr, bytes + 1, mask.bits % ByteBits)

\* getMaskedNetwork, of an IPv6 network: byte by byte.
MaskedBytes(mask) ==
  LET bytes == mask.bits \div ByteBits
      us    == mask.network.addr
  IN [n \in 1..V6Len |-> IF n <= bytes THEN us[n]
                         ELSE IF n = bytes + 1
                              THEN ClearLow(us[n], ByteBits - (mask.bits % ByteBits))
                              ELSE 0]

\* of an IPv4 network: its number under the mask, as bytes again
MaskedNumber(mask) ==
  LET number == ClearLow(Number(mask.network.addr), mask.low)
  IN [n \in 1..V4Len |-> (number \div 2^(ByteBits * (V4Len - n))) % 2^ByteBits]

MaskedNetwork(mask) ==
  CASE mask.network.family = INET  -> [mask.network EXCEPT !.addr = MaskedNumber(mask)]
    [] mask.network.family = INET6 -> [mask.network EXCEPT !.addr = MaskedBytes(mask)]
    [] OTHER -> mask.network

-----------------------------------------------------------------------------
(* An address and a netmask in a program's hands *)

VARIABLES ca,    \* a ComboAddress
          nm     \* a Netmask, which does not change once it is constructed

addressVars == <<ca, nm>>

AddressInit ==
  /\ ca = Combo([family |-> INET, addr |-> [n \in 1..V4Len |-> 0]], 0)
  /\ nm = NoMask

Construct(t, port) == Converts(t) /\ ca' = Parsed(t, port) /\ UNCHANGED nm

SetPort(p) == ca' = [ca EXCEPT !.port = p] /\ UNCHANGED nm

Truncate(bits) == ca' = Truncated(ca, bits) /\ UNCHANGED nm

MapToIPv4 == IsMappedIPv4(ca) /\ ca' = MappedToIPv4(ca) /\ UNCHANGED nm

\* A netmask for the address, constructed in each of the ways.  A text may name
\* more bits than an IPv6 address has; match then reads past the address, and
\* it is left out.
Mask(b) ==
  /\ nm' \in {MaskOf(ca, b), MaskFromAddress(ca)}
             \cup (IF b <= V6Len * ByteBits THEN {MaskFromText(ca, b)} ELSE {})
  /\ UNCHANGED ca

PortNumbers == {p \in Ports : p \in 0..(PortMod - 1)} \cup {0}

\* Bound: one netmask, of what the address is in the end.
AddressNext ==
  /\ nm = NoMask
  /\ \/ \E t \in Texts, p \in PortNumbers : Construct(t, p)
     \/ \E p \in PortNumbers : SetPort(p)
     \/ \E b \in 0..BitsMod : Truncate(b)
     \/ MapToIPv4
     \/ \E b \in 0..(BitsMod - 1) : Mask(b)

AddressSpec == AddressInit /\ [][AddressNext]_addressVars

-----------------------------------------------------------------------------
(* Properties *)

\* How many bits there are after the first ones, and the address as one number
\* without those.
Cut(c, bits) == IF bits > BitLen(c) THEN 0 ELSE BitLen(c) - bits
Prefix(c, bits) == Number(c.addr) \div 2^Cut(c, bits)

(* Of any address, truncate clears the bits after the prefix and changes     *)
(* nothing else: not the byte in front of the address, which it writes when  *)
(* no bit is to be kept, and nothing at all for a length that reaches the    *)
(* end of the address or goes beyond it (comboaddress.cc:3-30).              *)
TruncateExact ==
  \A b \in 0..BitsMod :
     LET t == Truncated(ca, b)
     IN /\ Prefix(t, b) = Prefix(ca, b)
        /\ Number(t.addr) % 2^Cut(ca, b) = 0
        /\ t.family = ca.family /\ t.port = ca.port

(* A netmask matches the addresses of its family that have its prefix, and   *)
(* its masked network is what truncate makes of its network: two ways to     *)
(* say the same that share no code, one bytewise and one on a 32-bit number  *)
(* (comboaddress.hh:324-336, 353-406, 416-456).                              *)
NetmaskExact ==
  /\ \A h \in Hosts : LET c == Combo(h, 0) IN
       Matches(nm, c) <=> /\ nm.network.family = h.family
                          /\ Prefix(nm.network, nm.bits) = Prefix(c, nm.bits)
  /\ nm.network.family # 0 =>
       MaskedNetwork(nm).addr = Truncated(nm.network, nm.bits).addr

=============================================================================
