----------------------------- MODULE MCPlanTree -----------------------------
(* A small instance of PlanTree. *)
EXTENDS PlanTree, TLC

CONSTANTS r, s, x

\* Two roots without children.
MCFirstPlan ==
  [i \in {r, s} |-> [dir |-> i, parent |-> Null, children |-> {}, requires |-> {}]]

\* Wings are alike, and no property distinguishes them.
MCSymmetry == Permutations(Wing)

=============================================================================
