---------------------------- MODULE Subsequences ----------------------------
(* Parts of a sequence, by a recursive function: what it computes can be proved. *)
EXTENDS Integers, Sequences

\* The elements of s at the places in P, in their order.
Subsequence(s, P) ==
  LET upto[i \in 0 .. Len(s)] ==
        IF i = 0 THEN <<>>
        ELSE IF i \in P THEN Append(upto[i - 1], s[i]) ELSE upto[i - 1]
  IN upto[Len(s)]
=============================================================================
