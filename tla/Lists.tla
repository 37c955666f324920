-------------------------------- MODULE Lists --------------------------------
(***************************************************************************)
(* Filtering a list.  It is a fold because the proofs need to see how the  *)
(* result comes about, which the built-in SelectSeq does not show.         *)
(***************************************************************************)
EXTENDS Sequences, SequencesExt

\* The elements of seq that are not in S, in their order.
Without(seq, S) ==
  FoldLeft(LAMBDA kept, e : IF e \in S THEN kept ELSE Append(kept, e), <<>>, seq)
=============================================================================
