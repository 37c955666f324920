------------------------------ MODULE MCConfig ------------------------------
(***************************************************************************)
(* 4-bit addresses in two bytes.  The masks end inside a byte, at its end, *)
(* and beyond the address; -1 is a mask of all ones after the conversion.  *)
(***************************************************************************)
EXTENDS Config

CONSTANTS ens37, r1, r2, p, q, d1, d2, h1, h2

Net(src, src_mask, dst, dst_mask) ==
  [src_network |-> src, src_mask |-> src_mask, dest_network |-> dst,
   dest_mask |-> dst_mask]

Policy(net, action, profiles) ==
  [src_network |-> net.src_network, src_mask |-> net.src_mask,
   dest_network |-> net.dest_network, dest_mask |-> net.dest_mask,
   action |-> action, security_profiles |-> profiles]

Listed(name, list) == [name |-> name, list |-> list]

Scanned == Policy(Net({0}, 3, Zero, 0), "allow", <<p, q, am_default, p>>)

MCSpelling == {"allow", "aLLow", "deny", "reject"}

MCLowercase == [s \in MCSpelling |-> IF s = "aLLow" THEN "allow" ELSE s]

\* Unknown to the file are "reject" and the profile r1.
Entry ==
  {Scanned,
   Policy(Net(Zero, 0, {1, 3}, 1), "reject", <<>>),
   Policy(Net({0, 1}, -1, {2}, 2), "aLLow", <<r1, q>>),
   Policy(Net({2, 3}, 5, {0}, 4), "deny", <<>>),
   Broken, Skipped}

PolicySections ==
  {Absent, Mistyped, <<>>} \cup {<<e>> : e \in Entry}
    \cup {<<e, f>> : e, f \in Entry} \cup {<<e, f, g>> : e, f, g \in Entry}

UrlSections ==
  {Absent, <<Listed(p, d1)>>, <<Listed(q, d2), Skipped, Listed(p, d1), Listed(p, d2)>>,
   <<Listed(Unnamed, d1), Broken>>, <<Listed(p, d1), Listed(Unnamed, d2)>>}

AmSections ==
  {Mistyped, <<Listed(p, h1), Listed(q, h2)>>, <<Listed(Unnamed, h1), Listed(q, h2)>>,
   <<Listed(q, h1), Broken>>}

Good ==
  [interfaces |-> <<ens37>>, routes |-> <<r1, Skipped, r2>>,
   nat_policies |-> <<Net({0}, 3, Zero, 0), Net({1}, -1, Zero, 0)>>,
   url_filtering_profiles |-> <<Listed(p, d1)>>,
   antimalware_profiles |-> <<Listed(Unnamed, h1), Listed(q, h2)>>,
   security_policies |-> <<Scanned>>]

\* Any policies; any profiles; any earlier section missing or broken.
MCFile ==
  {[Good EXCEPT !.security_policies = s] : s \in PolicySections}
    \cup {[Good EXCEPT !.url_filtering_profiles = u, !.antimalware_profiles = a] :
            u \in UrlSections, a \in AmSections}
    \cup {[Good EXCEPT !.interfaces = i, !.routes = r, !.nat_policies = n] :
            i \in {Absent, <<ens34>>, <<ens37, Broken>>},
            r \in {Mistyped, <<r1>>, <<r1, Broken, r2>>},
            n \in {<<>>, <<Net({0}, 3, Zero, 0), Broken>>}}
=============================================================================
