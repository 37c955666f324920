------------------------------- MODULE Filter -------------------------------
(***************************************************************************)
(* What the firewall promises about each packet, without threads, sessions *)
(* or scans: it is decided once, for good, and by the packet alone.  A     *)
(* packet may be blockable and passable, where the decision is left to     *)
(* what else was seen of its stream.                                       *)
(***************************************************************************)
CONSTANTS Packet, Deniable, Blockable, Passable

VARIABLE decision

Init == decision = [p \in Packet |-> "none"]

Decide(p, what) ==
  /\ decision[p] = "none"
  /\ decision' = [decision EXCEPT ![p] = what]

Deny(p) == p \in Deniable /\ Decide(p, "denied")

Block(p) == p \in Blockable /\ Decide(p, "blocked")

Pass(p) == p \in Passable /\ Decide(p, "routed")

Next == \E p \in Packet : Deny(p) \/ Block(p) \/ Pass(p)

Spec == Init /\ [][Next]_decision
=============================================================================
