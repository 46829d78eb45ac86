------------------------------- MODULE Slices --------------------------------
(* A loop over a slice that keeps some of its elements, as several parts of the  *)
(* code have it: the subsequence of s of the elements that are in S. It is a     *)
(* recursive function, and not SelectSeq, for the proofs to reason about it.     *)
EXTENDS Naturals, Sequences

Keep(s, S) ==
  LET kept[i \in 0 .. Len(s)] ==
        IF i = 0 THEN <<>>
        ELSE IF s[i] \in S THEN Append(kept[i - 1], s[i]) ELSE kept[i - 1]
  IN kept[Len(s)]
==============================================================================
