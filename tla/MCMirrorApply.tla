---------------------------- MODULE MCMirrorApply ----------------------------
(* Instances of MirrorApply for TLC. *)
EXTENDS MirrorApply, TLC

\* Claims of two nodes by two wings, one of which loses a race to the other.
TwoNodes == [mishaps |-> {}, nodes |-> Node, readers |-> {}, commits |-> 3]

\* Claims of one node, with lost answers, failures and restarts.
Crashes(n) == [mishaps |-> {"remote", "failure", "restart"}, nodes |-> {n},
               readers |-> {}, commits |-> 3]

\* Claims of one node beside reads, with failures that leave a write behind.
Reading(n) == [mishaps |-> {"leftover"}, nodes |-> {n},
               readers |-> Reader, commits |-> 2]

AllSettings == {TwoNodes} \cup {Crashes(n) : n \in Node} \cup {Reading(n) : n \in Node}

\* Claims of one node beside reads, and nothing fails.
OneRead == {[mishaps |-> {"remote"}, nodes |-> Node, readers |-> Reader, commits |-> 2]}

\* Wings behave alike, and so do nodes.
Sym == Permutations(Wing) \cup Permutations(Node)
=============================================================================
