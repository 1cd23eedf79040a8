-------------------------------- MODULE Lists --------------------------------
(***************************************************************************)
(* The loops over a vector that the wallet's code is full of: keep the     *)
(* elements that pass a test, and add something up over all of them.  Both *)
(* are recursive functions over the positions, which proofs can unfold.    *)
(***************************************************************************)
EXTENDS Integers, Sequences

(* The elements of s at the positions in T, in their order.                *)
Kept(s, T) ==
    LET kept[i \in 0..Len(s)] ==
            IF i = 0 THEN <<>>
            ELSE IF i \in T THEN Append(kept[i - 1], s[i]) ELSE kept[i - 1]
    IN kept[Len(s)]

(* The sum of a sequence of numbers.                                       *)
Total(v) ==
    LET sum[i \in 0..Len(v)] == IF i = 0 THEN 0 ELSE sum[i - 1] + v[i]
    IN sum[Len(v)]

(* Lists joined into one.                                                  *)
Joined(seqs) ==
    LET joined[i \in 0..Len(seqs)] ==
            IF i = 0 THEN <<>> ELSE joined[i - 1] \o seqs[i]
    IN joined[Len(seqs)]
=============================================================================
