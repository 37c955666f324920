----------------------------- MODULE MCNatState -----------------------------
(***************************************************************************)
(* Two clients, one server, and a pool of two ports for three flows.       *)
(***************************************************************************)
EXTENDS NatState, TLC

CONSTANTS c1, c2, s1, ens34, ens37, ens38

Pkt(protocol, src, sport, dst, dport) ==
  [protocol |-> protocol, src_ip |-> src, src_port |-> sport,
   dst_ip |-> dst, dst_port |-> dport]

FromC1 == Pkt("TCP", c1, 1, s1, 2)
FromC2 == Pkt("TCP", c2, 1, s1, 2)
Ping   == Pkt("ICMP", c1, 1, s1, 1)

\* Both clients open a connection from the same port, one of them also pings;
\* the server probes a port of the pool; the clients talk to each other.
MCTraffic ==
  {FromC1, FromC2, Ping, Pkt("TCP", s1, 2, External, 4), Pkt("TCP", c1, 1, c2, 1)}

TcpOnly == {FromC1, FromC2}

UdpOnly == {Pkt("UDP", c1, 1, s1, 2)}

\* One network inside, so one thread creates all sessions.
OneLan == (c1 :> ens37) @@ (c2 :> ens37) @@ (s1 :> ens34) @@ (External :> ens34)

\* The two clients are behind different interfaces.
TwoLans == (c1 :> ens37) @@ (c2 :> ens38) @@ (s1 :> ens34) @@ (External :> ens34)

MCNatted == Client \X Server
=============================================================================
