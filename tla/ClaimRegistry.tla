---------------------------- MODULE ClaimRegistry ----------------------------
(***************************************************************************)
(* What claiming plan nodes promises the wings, whatever it is stored in:  *)
(* a node is taken only while nobody has it, only its holder gives it      *)
(* back, and a wing believes it holds a node only while it is the owner.   *)
(***************************************************************************)
CONSTANTS Node,    \* the plan's nodes
          Owner,   \* who may claim: wings here, and machines elsewhere
          Wing,    \* the owners that are told of their claims here
          Nobody

VARIABLES owner,   \* owner[n]: who has claimed n on the shared trunk
          holds    \* <<w, n>>: w was told that it has claimed n

vars == <<owner, holds>>

Init == owner = [n \in Node |-> Nobody] /\ holds = {}

Take(o, n) == /\ owner[n] = Nobody
              /\ owner' = [owner EXCEPT ![n] = o]
              /\ UNCHANGED holds

\* A wing stops counting on its claim before it gives the node back.
GiveBack(o, n) == /\ owner[n] = o
                  /\ <<o, n>> \notin holds
                  /\ owner' = [owner EXCEPT ![n] = Nobody]
                  /\ UNCHANGED holds

Told(w, n) == /\ owner[n] = w
              /\ holds' = holds \cup {<<w, n>>}
              /\ UNCHANGED owner

Lets(w, n) == /\ holds' = holds \ {<<w, n>>}
              /\ UNCHANGED owner

Next == \/ \E o \in Owner, n \in Node : Take(o, n) \/ GiveBack(o, n)
        \/ \E w \in Wing, n \in Node : Told(w, n) \/ Lets(w, n)

Spec == Init /\ [][Next]_vars
=============================================================================
