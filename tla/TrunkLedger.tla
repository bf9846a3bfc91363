---------------------------- MODULE TrunkLedger ----------------------------
(***************************************************************************)
(* What a shared trunk promises its publishers, whatever protocol delivers *)
(* it: the published history only ever grows, what a machine holds as its  *)
(* local copy of the trunk has been published, and a publisher is told     *)
(* that something landed only when it is in that history.  Nothing else is *)
(* said: not who publishes, not how a race is decided, and not how far     *)
(* behind a local copy may be.                                             *)
(***************************************************************************)
CONSTANTS Commit,   \* every commit that can exist
          Root      \* the commit the trunk starts from

VARIABLES history,  \* the commits reachable from the trunk everybody shares
          copy,     \* those reachable from a machine's local copy of it
          acked     \* the commits some publisher has been told have landed

vars == <<history, copy, acked>>

Init == history = {Root} /\ copy = {Root} /\ acked = {}

\* The trunk moves on, and no local copy moves with it.
Publish == /\ history \subseteq history'
           /\ history' \subseteq Commit
           /\ UNCHANGED <<copy, acked>>

\* A local copy takes something that is published, and landings are reported.
Learn == /\ copy' \subseteq history
         /\ acked \subseteq acked'
         /\ acked' \subseteq history
         /\ UNCHANGED history

Next == Publish \/ Learn

Spec == Init /\ [][Next]_vars
=============================================================================
