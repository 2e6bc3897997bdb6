----------------------------- MODULE SequenceParts -----------------------------
(***************************************************************************)
(* Two operators on sequences that the components use and their proofs     *)
(* need as recursive functions.                                            *)
(***************************************************************************)
EXTENDS Integers, Sequences

\* The sequences of a sequence, one after the other.
Flat(seqs) ==
  LET upTo[n \in 0 .. Len(seqs)] == IF n = 0 THEN <<>> ELSE upTo[n - 1] \o seqs[n]
  IN  upTo[Len(seqs)]

\* What a sequence has at the places of a set, in its order.
Kept(places, seq) ==
  LET upTo[n \in 0 .. Len(seq)] ==
        IF n = 0 THEN <<>>
        ELSE IF n \in places THEN Append(upTo[n - 1], seq[n]) ELSE upTo[n - 1]
  IN  upTo[Len(seq)]
================================================================================
