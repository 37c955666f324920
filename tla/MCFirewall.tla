----------------------------- MODULE MCFirewall -----------------------------
(***************************************************************************)
(* One client inside, one server outside, 2-bit addresses of one byte      *)
(* each bit.                                                               *)
(***************************************************************************)
EXTENDS Firewall

CONSTANTS ens37, lo, eth9, listed, unlisted, evil, me34, me37, you

c1 == {1}
s1 == {0}
s2 == {0, 1}
fw == {}

MCClient == {c1}
MCServer == {s1, s2}

Policy(src, srcMask, dst, dstMask, action, profiles) ==
  [network_from |-> src, network_from_mask |-> srcMask, network_to |-> dst,
   network_to_mask |-> dstMask, action |-> action, security_profiles |-> profiles]

UrlProfile == [kind |-> "url", list |-> {listed}]
AmProfile  == [kind |-> "antimalware", list |-> {<<evil>>}]

MCProfile == {UrlProfile, AmProfile}

\* To the first server, payload is hashed and then names are looked at; what it
\* answers is hashed too.  The second server may not come in; no policy is about
\* what goes out to it.
MCPolicies ==
  <<Policy(s2, 2, fw, 2, "Deny", <<>>),
    Policy(c1, 2, s1, 2, "Allow", <<AmProfile, UrlProfile>>),
    Policy(s1, 2, {}, 0, "Allow", <<AmProfile>>)>>

MCNatPolicies == <<Policy(c1, 2, {}, 0, "Allow", <<>>)>>

MCNatted == {<<c1, s1>>, <<c1, s2>>}

Flow(protocol, src, sport, dst, dport) ==
  [protocol |-> protocol, src_ip |-> src, src_port |-> sport,
   dst_ip |-> dst, dst_port |-> dport]

\* A packet for the interface it comes in at.
Segment(in, flow, app, host, body, seq, len, flags) ==
  [in |-> in, dst_mac |-> mac[in], src_mac |-> you, type |-> "IPv4", flow |-> flow,
   app |-> app, host |-> host, body |-> body, seq |-> seq, ack |-> 5, len |-> len,
   flags |-> flags]

Out == Flow("TCP", c1, 1, s1, 2)

\* Two requests on one connection, the second for a listed name, and an answer.
Request == Segment(ens37, Out, "HTTPRequest", unlisted, evil, 5, 2, {"ACK"})
ToList  == Segment(ens37, Out, "HTTPRequest", listed, evil, 7, 2, {"ACK", "FIN"})
Answer  == Segment(ens34, Flow("TCP", s1, 2, fw, 3), "data", None, evil, 0, 1, {"ACK", "FIN"})

Ping    == Segment(ens37, Flow("ICMP", c1, 1, s2, 1), "data", None, None, 0, 0, {})
FromS2  == Segment(ens34, Flow("TCP", s2, 2, fw, 2), "data", None, None, 0, 0, {"SYN"})

Noise == [in |-> ens34, dst_mac |-> you, src_mac |-> me34, type |-> "other"]
Arp   == [in |-> ens37, dst_mac |-> Broadcast, src_mac |-> you, type |-> "ARP"]

MCTraffic == {Request, Answer, ToList, Ping, FromS2, Noise, Arp}

MCMac == (ens34 :> me34) @@ (ens37 :> me37)

MCThreadOf == (c1 :> ens37) @@ (s1 :> ens34) @@ (s2 :> ens34) @@ (fw :> ens34)

MCNames == <<ens37, eth9, lo, ens37>>
=============================================================================
