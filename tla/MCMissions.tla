----------------------------- MODULE MCMissions -----------------------------
(* Instances of Missions for TLC. *)
EXTENDS Missions, TLC

\* Missions behave alike, and so do calls and minions.
Sym == Permutations(Mission) \cup Permutations(Call) \cup Permutations(Minion)
=============================================================================
