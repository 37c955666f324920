------------------------------ MODULE Policies ------------------------------
(***************************************************************************)
(* Policy::does_match_policy and the loop over the security policies in    *)
(* onPacketArrives, as operators on policies in their configured order.    *)
(***************************************************************************)
EXTENDS IPv4, Sequences, SequencesExt

CONSTANTS ByteBits,     \* 8 in the program
          NoVerdict     \* the loop ends without a policy that matches

ASSUME ByteAssumption == ByteBits \in Nat \ {0} /\ AddressBits % ByteBits = 0

Byte(i) == ByteBits * i .. ByteBits * (i + 1) - 1

\* Byte after byte: whole bytes while the mask lasts, the leading bits of the
\* byte it ends in, nothing of the bytes behind it.
matchesNetwork(address, network, maskBits) ==
  LET bits == IF maskBits > AddressBits THEN AddressBits ELSE maskBits
      Compared(i, left) == {b \in Byte(i) : b < ByteBits * i + left}
      Step(state, i) ==
        [left |-> IF state.left >= ByteBits THEN state.left - ByteBits ELSE 0,
         same |-> /\ state.same
                  /\ address \cap Compared(i, state.left)
                       = network \cap Compared(i, state.left)]
  IN  FoldLeft(Step, [left |-> bits, same |-> TRUE],
               [i \in 1 .. AddressBits \div ByteBits |-> i - 1]).same

\* The ports of a policy are never looked at.
does_match_policy(policy, src, dst) ==
  /\ matchesNetwork(src, policy.network_from, policy.network_from_mask)
  /\ matchesNetwork(dst, policy.network_to, policy.network_to_mask)

\* What the first policy that matches says.  Without one the packet goes on as
\* if it were allowed.
Verdict(policies, src, dst) ==
  LET first == SelectInSeq(policies, LAMBDA policy : does_match_policy(policy, src, dst))
  IN  IF first = 0 THEN NoVerdict
      ELSE [action |-> policies[first].action,
            security_profiles |-> policies[first].security_profiles]
=============================================================================
