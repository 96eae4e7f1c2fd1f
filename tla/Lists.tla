-------------------------------- MODULE Lists --------------------------------
(***************************************************************************)
(* Array.prototype.filter, as a recursive function.  It computes what      *)
(* SelectSeq does, with a set in place of the test.                        *)
(***************************************************************************)
EXTENDS Integers, Sequences

\* What filter has kept of s after each of its members.
Kept(s, T) ==
    LET kept[i \in 0..Len(s)] ==
            IF i = 0 THEN <<>>
            ELSE IF s[i] \in T THEN Append(kept[i - 1], s[i]) ELSE kept[i - 1]
    IN  kept

\* The members of the sequence s that are in T, in their order.
Keep(s, T) == Kept(s, T)[Len(s)]
=============================================================================
