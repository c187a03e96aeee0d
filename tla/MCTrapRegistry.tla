--------------------------- MODULE MCTrapRegistry ----------------------------
(* Small instances of TrapRegistry for TLC: addresses of two octets of two bits. *)
EXTENDS TrapRegistry, TLC

CONSTANTS o1, n1, c1

\* Two addresses that differ in the last octet.
A == (1 :> {1}) @@ (2 :> {0})
B == (1 :> {1}) @@ (2 :> {1})
MCIp == {A, B}

\* A block of four addresses that holds both, b alone, and every address.
Block == [range |-> A, slash |-> TRUE, bits |-> 2]
Single == [range |-> B, slash |-> FALSE, bits |-> 0]
All == [range |-> [i \in 1..2 |-> {}], slash |-> TRUE, bits |-> 0]
MCCidr == {Block, Single, All}

\* A new installation, or an OLT with or without a city and a block.
MCStart ==
    {[olt |-> (o1 :> None), network |-> (n1 :> None), city |-> (c1 :> "unused")]}
    \cup {[olt |-> (o1 :> [ipAddress |-> A, snmpCommunity |-> "public", cityId |-> x[1]]),
           network |-> (n1 :> x[2]), city |-> (c1 :> "stored")] : x \in {<<c1, Block>>, <<None, All>>}}

\* The algorithm by itself, for every address and every entry of this width.
ASSUME CidrMeansBlockHere == CidrMeansBlock
=============================================================================
