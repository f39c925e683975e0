--------------------------------- MODULE Lists ---------------------------------
(***************************************************************************)
(* The loop that keeps some of the entries of a list, in their order.  It  *)
(* is a recursive function and not SelectSeq, so that DataProof can prove *)
(* what it keeps by induction on the number of entries seen.               *)
(***************************************************************************)
EXTENDS Integers, Sequences

\* The entries of s that are in S.
Keep(s, S) ==
  LET kept[i \in 0 .. Len(s)] ==
        IF i = 0 THEN <<>>
        ELSE IF s[i] \in S THEN Append(kept[i - 1], s[i]) ELSE kept[i - 1] IN
  kept[Len(s)]
================================================================================
