----------------------------- MODULE Selection ------------------------------
(***************************************************************************)
(* The loop, written again and again in the fetchers, that goes over a     *)
(* slice and appends to another what it keeps.                             *)
(***************************************************************************)
EXTENDS Integers, Sequences

\* SelectSeq as a recursive function: what of s is in K, in the order of s.
Select(s, K) ==
    LET kept[i \in 0..Len(s)] ==
            IF i = 0 THEN <<>>
            ELSE IF s[i] \in K THEN Append(kept[i - 1], s[i]) ELSE kept[i - 1]
    IN  kept[Len(s)]
=============================================================================
