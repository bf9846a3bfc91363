--------------------------- MODULE MCWingCheckout ---------------------------
(* Instances of WingCheckout for TLC. *)
EXTENDS WingCheckout, TLC

CONSTANTS a, b  \* callers

\* Commits and merges one after the other, beside reads of the movement.
Polled == [c \in Caller |-> IF c = a THEN {"commit", "merge"} ELSE {"poll"}]

\* Two callers that commit, as after a timeout of the first call.
Committing == [c \in Caller |-> {"poll", "commit"}]

\* Two callers that merge.
Twice == [c \in Caller |-> IF c = a THEN {"commit", "merge"} ELSE {"merge"}]

\* Either of the first two, or one of the others alone.
PolledOrCommitting == {Polled, Committing}
OnlyPolled == {Polled}
OnlyTwice == {Twice}

\* Edits are alike.
Sym == Permutations(Edit)
=============================================================================
