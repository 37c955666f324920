----------------------------- MODULE NatBinding -----------------------------
(***************************************************************************)
(* What source NAT promises, without tables, keys or threads: every flow   *)
(* that is bound to a public port keeps it, no two flows share a port, and *)
(* a new flow gets a port that nobody has.                                 *)
(***************************************************************************)
CONSTANTS Flow, Port

VARIABLE binding      \* partial function from flows to public ports

Bound(port) == \E flow \in DOMAIN binding : binding[flow] = port

Init == binding = [flow \in {} |-> CHOOSE port \in Port : TRUE]

Bind(flow, port) ==
  /\ flow \notin DOMAIN binding
  /\ ~ Bound(port)
  /\ binding' = [f \in DOMAIN binding \cup {flow} |->
                   IF f = flow THEN port ELSE binding[f]]

Next == \E flow \in Flow, port \in Port : Bind(flow, port)

Spec == Init /\ [][Next]_binding
=============================================================================
