--------------------------- MODULE MCTrunkPublish ---------------------------
(* Instances of TrunkPublish for TLC. *)
EXTENDS TrunkPublish, TLC

CONSTANTS a, b, c  \* wings

\* Every agent may do everything.
AllOps == [w \in Wing |-> {"commit", "start", "merge"}]

\* One agent works and merges; the other merges what it is given.
MergeOps == [w \in Wing |-> IF w = a THEN {"commit", "merge"} ELSE {"merge"}]

\* AllOps treats the wings alike.
Sym == Permutations(Wing)
=============================================================================
