------------------------------ MODULE Filtering ------------------------------
(***************************************************************************)
(* Sequences without some of their elements, by a recursive function that  *)
(* proofs can reason about.                                                *)
(***************************************************************************)
EXTENDS Integers, Sequences

(* The elements of s that are in A, in their order.                        *)
Kept(s, A) ==
    LET kept[i \in 0 .. Len(s)] ==
            IF i = 0 THEN <<>>
            ELSE IF s[i] \in A THEN Append(kept[i - 1], s[i]) ELSE kept[i - 1]
    IN  kept[Len(s)]
=============================================================================
