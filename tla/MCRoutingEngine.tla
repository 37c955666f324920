-------------------------- MODULE MCRoutingEngine --------------------------
(***************************************************************************)
(* Two capture threads over 3-bit addresses: 01x is behind ens37, 10x      *)
(* behind ens34, 11x behind an interface that is not captured, everything  *)
(* else goes to the gateway 100.                                           *)
(***************************************************************************)
EXTENDS RoutingEngine, TLC

CONSTANTS ens34, ens37, ens38, m1, m2, m3

Route(network, netmask, gateway, i) ==
  [network |-> network, netmask |-> netmask, gateway |-> gateway,
   interfaceName |-> i]

Client  == {1}       \* 010, on ens37
Gateway == {0}       \* 100, on ens34
Remote  == {2}       \* 001, behind the gateway

MCIpOf == (ens37 :> {1, 2}) @@ (ens34 :> {0, 2})       \* 011, 101

\* The gateway, a client whose hardware is replaced, a packet of that client
\* without a hardware address, its probe (sender address 0.0.0.0), and a host
\* of the client's link that uses the gateway's address.
MCClaim == {<<ens37, Gateway, m1>>, <<ens34, Gateway, m3>>, <<ens37, Client, m1>>,
            <<ens37, Client, m2>>, <<ens37, Client, ZeroMac>>, <<ens37, Zero, m1>>}

\* Only well-behaved hosts.
AnsweringHosts == {<<ens34, Gateway, m3>>, <<ens37, Client, m1>>}

MCRoutes ==
  <<Route(Client, {0, 1}, Zero, ens37), Route(Gateway, {0, 1}, Zero, ens34),
    Route({0, 1}, {0, 1}, Zero, ens38), Route(Zero, Zero, Gateway, ens34)>>

\* A client, a remote host, an address of the firewall, the missing interface.
MCDestination == {Client, Remote, {0, 2}, {0, 1}}

\* Both threads route to the gateway: one next hop, contended.
OneHop == {Remote}

Symmetry == Permutations(Packet)
=============================================================================
