-------------------------------- MODULE IPv4 --------------------------------
(***************************************************************************)
(* IPv4 addresses as the code compares them: pcpp::IPv4Address values are  *)
(* only ever masked, counted and compared for equality, so an address is   *)
(* the set of the positions of its 1 bits.  Position 0 is the leftmost     *)
(* (most significant) bit; AND is intersection and a bit count is a        *)
(* cardinality.                                                            *)
(***************************************************************************)
EXTENDS Integers

CONSTANT AddressBits       \* width of an address (32 in the program)

ASSUME AddressBitsAssumption == AddressBits \in Nat \ {0}

Bit == 0 .. AddressBits - 1

IPv4Address == SUBSET Bit

\* pcpp::IPv4Address::Zero, "0.0.0.0": an unset gateway or interface address.
Zero == {}
=============================================================================
