--------------------------- MODULE MCRoutingTable ---------------------------
(* Every network and mask over 2-bit addresses, non-contiguous masks       *)
(* included; three entries make a tie and a strictly better one meet.  Two *)
(* entries that tie differ in their network, so one interface is enough.   *)
EXTENDS RoutingTable

MCEntry == {[network |-> n, netmask |-> m, gateway |-> Zero, interfaceName |-> i] :
              n \in IPv4Address, m \in IPv4Address, i \in InterfaceName}
=============================================================================
