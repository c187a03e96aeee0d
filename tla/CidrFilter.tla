----------------------------- MODULE CidrFilter ------------------------------
(***************************************************************************)
(* cidr.util.ts: does an address match an authorised address or block?     *)
(* Numbers are written as the set of their one bits, so that & is the      *)
(* intersection and << a shift of the members.  An address has Octets      *)
(* octets of OctetBits bits (4 of 8 in the code).                          *)
(***************************************************************************)
EXTENDS Integers

CONSTANTS Octets, OctetBits

ASSUME WidthAssumption == Octets \in Nat \ {0} /\ OctetBits \in Nat \ {0}

Width == Octets * OctetBits       \* 32
Bit == 0..(Width - 1)
Ones == Bit                       \* 0xffffffff

\* The expression of the DTO lets octets up to 999 through: OctetBits stands
\* for "above 255".  Source addresses are those that UDP delivers.
Octet == SUBSET (0..OctetBits)
Text == [1..Octets -> Octet]
Address == [1..Octets -> SUBSET (0..(OctetBits - 1))]

\* An entry of the list: "range" or "range/bits".
CidrEntry == [range : Text, slash : BOOLEAN, bits : 0..Width]

IsNumber(text) == \A i \in 1..Octets : OctetBits \notin text[i]

\* (result << 8) | n over the octets.
ipv4ToInt(text) ==
    UNION {{b + OctetBits * (Octets - i) : b \in text[i]} : i \in 1..Octets}

\* Like the shifts of the language, which count modulo the width.
ShiftLeft(x, n) == {b \in Bit : b - (n % Width) \in x}

ipMatchesCidr(ip, cidr) ==
    IF ~cidr.slash
      THEN ip = cidr.range
      ELSE LET mask == ShiftLeft(Ones, Width - cidr.bits) IN
           /\ IsNumber(cidr.range)
           /\ \/ cidr.bits = 0
              \/ ipv4ToInt(ip) \cap mask = ipv4ToInt(cidr.range) \cap mask

----------------------------------------------------------------------------
(* Properties                                                              *)

\* What binary digits write: first and then, for number[n], the n highest of
\* ones.
Binary(first, ones) ==
    LET number[n \in 0..Width] ==
          IF n = 0 THEN first
          ELSE 2 * number[n - 1] + (IF Width - n \in ones THEN 1 ELSE 0)
    IN  number

Value(text) == Binary(0, ipv4ToInt(text))[Width]
PowerOfTwo == Binary(1, {})

\* What an entry means: the address itself, or the block of 2^(32 - bits)
\* consecutive addresses that contains it.
InBlock(ip, cidr) ==
    IF ~cidr.slash
      THEN ip = cidr.range
      ELSE LET size == PowerOfTwo[Width - cidr.bits] IN
           IsNumber(cidr.range) /\ Value(ip) \div size = Value(cidr.range) \div size

\* The mask of cidr.util.ts selects exactly the block, for every prefix
\* length, /0 and /32 included, where a shift by the width is no shift.
CidrMeansBlock ==
    \A ip \in Address, cidr \in CidrEntry : ipMatchesCidr(ip, cidr) <=> InBlock(ip, cidr)
=============================================================================
