-------------------------------- MODULE Ranks --------------------------------
(***************************************************************************)
(* A list cut down to some of its places keeps their order: what a loop    *)
(* does that appends the elements it likes.                                *)
(***************************************************************************)
EXTENDS Integers, FiniteSets

(* How many of the numbers S come up to n.                                 *)
Rank(S, n) == Cardinality({k \in S : k <= n})

(* The i-th smallest of the numbers S.                                     *)
Nth(S, i) == CHOOSE n \in S : Rank(S, n) = i

Kept(list, S) == [i \in 1 .. Cardinality(S) |-> list[Nth(S, i)]]

=============================================================================
