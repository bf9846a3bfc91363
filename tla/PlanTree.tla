------------------------------- MODULE PlanTree -------------------------------
(***************************************************************************)
(* The plan and who works on it.                                           *)
(*                                                                         *)
(* The plan is a forest of items.  Each root has a directory, and in it    *)
(* content.toml has the root's items and claims.toml who claimed which of  *)
(* them.  content.toml is edited on the trunk and, unpublished, in every   *)
(* wing's checkout; claims.toml on the trunk only.  So a wing may claim an *)
(* item that the trunk does not have yet, or has no more: the record       *)
(* dangles, and every claim sweeps the records that dangle for no reason.  *)
(*                                                                         *)
(* A write to the trunk is one step: MirrorApply runs the whole transform  *)
(* again when it loses a race.  Left out: the ranking of the leaves (any   *)
(* of them may be picked), titles, approvals, questions and demo links,    *)
(* moves between roots made in a wing, and merges of a wing whose trunk    *)
(* has another plan by now, which are git's.                               *)
(***************************************************************************)
EXTENDS Naturals, FiniteSets

CONSTANTS Item,       \* the ids that generateId may hand out
          FirstPlan,  \* the plan at the start
          Wing,
          Lair,       \* the name 'unknown' of a caller outside every wing
          Null,       \* no parent, no claim
          MaxEdits,   \* bound: edits of some content.toml
          MaxWaits,   \* bound: ids that one update-item names
          Ops         \* what happens besides edits of the trunk and claims

ASSUME PlanAssumption ==
  /\ Lair \notin Wing
  /\ Null \notin Item \cup Wing \cup {Lair}
  /\ MaxEdits \in Nat /\ MaxWaits \in Nat
  /\ Ops \subseteq {"local", "across", "gone", "node", "leaf"}

VARIABLES
  content,  \* the items of the trunk's plan, whichever content.toml they are in
  dirs,     \* the directories below the plan's
  claims,   \* claims[d][i]: who claimed i, in the claims.toml of d
  view,     \* view[w]: the items of the plan in the checkout of w
  base,     \* base[w]: those of the commit that w's movement started from
  made,     \* the ids handed out
  edits,    \* the number of edits
  held,     \* <<u, i>>: u was given i, and neither gave it back nor lost it by rule
  stranded  \* <<k, j>>: k was left waiting for j, which its plan did not have

copies == <<view, base>>
ghosts == <<held, stranded>>
vars == <<content, dirs, claims, copies, made, edits, ghosts>>

-----------------------------------------------------------------------------
Caller == Wing \cup {Lair}

Entry == [dir      : Item,             \* the root whose content.toml has it
          parent   : Item \cup {Null},
          children : SUBSET Item,
          requires : SUBSET Item]

IsPlan(c) == DOMAIN c \subseteq Item /\ c \in [DOMAIN c -> Entry]
NoPlan == [i \in {} |-> Null]

\* Mutant: the directory is named after the parent.
NewItemByParent(d, p) == [dir |-> p, parent |-> p, children |-> {}, requires |-> {}]

\* What addChild and createRoot write for an item.
NewItem(d, p) == [dir |-> d, parent |-> p, children |-> {}, requires |-> {}]

\* collectIds, as the items that every set closed under children contains.
Below(c, i) ==
  {j \in DOMAIN c : \A S \in SUBSET DOMAIN c :
     (i \in S /\ \A k \in S : c[k].children \cap DOMAIN c \subseteq S) => j \in S}

\* findExpandedSubtree: the same, under children and requires.
Expanded(c, g) ==
  {j \in DOMAIN c : \A S \in SUBSET DOMAIN c :
     (g \in S /\ \A k \in S : (c[k].children \cup c[k].requires) \cap DOMAIN c \subseteq S)
       => j \in S}

\* The store that a caller's edits go to and its claims are validated against.
View(u) == IF u = Lair THEN content ELSE view[u]

-----------------------------------------------------------------------------
(* Edits of content.toml, on the trunk or in a wing. *)

WithChild(c, p, i) ==
  [k \in DOMAIN c \cup {i} |->
     IF k = i THEN NewItem(c[p].dir, p)
     ELSE [c[k] EXCEPT !.children = IF k = p THEN @ \cup {i} ELSE @]]

WithRoot(c, i) == [k \in DOMAIN c \cup {i} |-> IF k = i THEN NewItem(i, Null) ELSE c[k]]

\* The items that go away with i: deleting a root deletes its content.toml.
Gone(c, i) == IF c[i].dir = i THEN {k \in DOMAIN c : c[k].dir = i} ELSE Below(c, i)

\* deleteItem: the parent forgets i, and the items of the same root what goes.
Deleted(c, i) ==
  [k \in DOMAIN c \ Gone(c, i) |->
     [c[k] EXCEPT !.children = IF k = c[i].parent THEN @ \ {i} ELSE @,
                  !.requires = IF c[k].dir = c[i].dir THEN @ \ Gone(c, i) ELSE @]]

\* Mutant: other roots are not looked at.
NotCleanedUp(c, i) == c

\* cleanupRequiresReferences goes through all roots, with the one id.
CleanedUp(c, i) == [k \in DOMAIN c |-> [c[k] EXCEPT !.requires = @ \ {i}]]

Moved(c, i, p) ==
  [k \in DOMAIN c |->
     [c[k] EXCEPT !.dir = IF k \notin Below(c, i) THEN @ ELSE IF p = Null THEN i ELSE c[p].dir,
                  !.parent = IF k = i THEN p ELSE @,
                  !.children = IF k = p THEN @ \cup {i}
                               ELSE IF k = c[i].parent THEN @ \ {i} ELSE @]]

\* Mutant: only the item itself is refused as its new parent.
MayMoveDown(c, i, p) == p # c[i].parent /\ p # i

\* No-op under the same parent; not under itself or a descendant of its own.
MayMove(c, i, p) == p # c[i].parent /\ p \notin Below(c, i)

\* Whether a move takes the item to another directory.
Across(c, i, p) == p = Null \/ c[p].dir # c[i].dir

\* A claim that a move loses: of an item that moves to another root, or with its
\* record in the directory of a root that moves.
LeftBehind(c, i, p, h) ==
  \/ Across(c, i, p) /\ h[2] \in Below(c, i)
  \/ c[i].dir = i /\ claims[i][h[2]] = h[1]

\* The edit goes to the trunk (applyAtLairWrite), or to a wing's checkout.
Writes(u, c) ==
  /\ u # Lair => "local" \in Ops
  /\ edits < MaxEdits
  /\ edits' = edits + 1
  /\ IF u = Lair THEN content' = c /\ UNCHANGED view
                 ELSE view' = [view EXCEPT ![u] = c] /\ UNCHANGED content
  /\ UNCHANGED base

\* add-children, with one child.
AddChildren(u) ==
  \E p \in DOMAIN View(u), i \in Item \ made :
    /\ Writes(u, WithChild(View(u), p, i))
    /\ made' = made \cup {i}
    /\ UNCHANGED <<dirs, claims, ghosts>>

CreateRoot(u) ==
  \E i \in Item \ made :
    /\ Writes(u, WithRoot(View(u), i))
    /\ made' = made \cup {i}
    /\ dirs' = IF u = Lair THEN dirs \cup {i} ELSE dirs
    /\ UNCHANGED <<claims, ghosts>>

\* What waits, in other roots, for an item that goes away below i: it is left so.
LeftWaiting(c, i) ==
  {h \in (DOMAIN c) \X (Gone(c, i) \ {i}) : c[h[1]].dir # c[i].dir /\ h[2] \in c[h[1]].requires}

\* delete-subtree: how an item is completed.
DeleteSubtree(u) ==
  \E i \in DOMAIN View(u) :
    /\ Writes(u, CleanedUp(Deleted(View(u), i), i))
    /\ stranded' = stranded \cup LeftWaiting(View(u), i)
    /\ UNCHANGED <<dirs, claims, made, held>>

\* update-item with requires: any ids, which are not looked at.
UpdateItem(u) ==
  \E i \in DOMAIN View(u), R \in SUBSET Item :
    /\ Cardinality(R) <= MaxWaits
    /\ Writes(u, [View(u) EXCEPT ![i].requires = R])
    /\ stranded' = stranded \cup ({i} \X (R \ DOMAIN View(u)))
    /\ UNCHANGED <<dirs, claims, made, held>>

\* move-node.  Records of claims stay where they are, and those of a root's
\* directory go with it.
MoveNode(u) ==
  \E i \in DOMAIN View(u), p \in DOMAIN View(u) \cup {Null} :
    LET c == View(u)
    IN /\ MayMove(c, i, p)
       /\ Across(c, i, p) => u = Lair /\ "across" \in Ops
       /\ Writes(u, Moved(c, i, p))
       /\ dirs' = (IF c[i].dir = i THEN dirs \ {i} ELSE dirs)
                    \cup (IF p = Null THEN {i} ELSE {})
       /\ claims' = IF c[i].dir = i THEN [claims EXCEPT ![i] = [j \in Item |-> Null]]
                                    ELSE claims
       /\ held' = {h \in held : ~ LeftBehind(c, i, p, h)}
       /\ UNCHANGED <<made, stranded>>

-----------------------------------------------------------------------------
(* Wings. *)

\* A movement starts from the trunk.
Start(w) ==
  /\ view[w] # content \/ base[w] # content
  /\ view' = [view EXCEPT ![w] = content]
  /\ base' = [base EXCEPT ![w] = content]
  /\ UNCHANGED <<content, dirs, claims, made, edits, ghosts>>

\* A wing merges its edits into the plan they were made on.
Merge(w) ==
  /\ base[w] = content
  /\ view[w] # content
  /\ content' = view[w]
  /\ base' = [base EXCEPT ![w] = view[w]]
  /\ dirs' = dirs \cup {view[w][i].dir : i \in DOMAIN view[w]}
  /\ UNCHANGED <<claims, view, made, edits, ghosts>>

\* The wing is deleted, or has no checkout any more.
Vanish(w) ==
  /\ "gone" \in Ops
  /\ view[w] # NoPlan
  /\ view' = [view EXCEPT ![w] = NoPlan]
  /\ base' = [base EXCEPT ![w] = NoPlan]
  /\ held' = {h \in held : h[1] # w}
  /\ UNCHANGED <<content, dirs, claims, made, edits, stranded>>

-----------------------------------------------------------------------------
(* Claims: each is one transform of the trunk. *)

\* Who has i, as far as getItem and getSubtree can tell: a record that dangles
\* is not shown.
ClaimedBy(i) == IF i \in DOMAIN content THEN claims[content[i].dir][i] ELSE Null

\* resolveClaimRoot, where hint is the root in the caller's view.
ClaimRoot(i, hint) ==
  IF i \in DOMAIN content THEN {content[i].dir}
  ELSE IF hint \in dirs THEN {hint}
  ELSE {d \in dirs : claims[d][i] # Null}

\* setClaimedBy
SetClaim(cl, d, i, u) == [cl EXCEPT ![d][i] = u]

\* setClaimedBy(undefined), for several items that the trunk has.
Cleared(cl, items) ==
  [d \in Item |-> [i \in Item |->
     IF i \in items /\ d = content[i].dir THEN Null ELSE cl[d][i]]]

\* Mutant: the sweep does not ask the wing.
KeepsNothing(u, i, unsure) == FALSE

\* wingStillHasNode: yes when it cannot be told (unsure), no for a caller that
\* is no wing.
StillHas(u, i, unsure) == u \in Wing /\ (u \in unsure \/ i \in DOMAIN view[u])

\* pruneDanglingClaims
Pruned(cl, unsure) ==
  [d \in Item |-> [i \in Item |->
     IF (i \in DOMAIN content /\ content[i].dir = d) \/ StillHas(cl[d][i], i, unsure)
       THEN cl[d][i] ELSE Null]]

Records(cl) ==
  /\ \E unsure \in {{}, Wing} : claims' = Pruned(cl, unsure)
  /\ UNCHANGED <<content, dirs, copies, made, edits, stranded>>

\* claim-node refuses an item with a claim.
NotClaimed(i) == ClaimedBy(i) = Null

\* claim-node, towards an ancestor of the item in the caller's view.
ClaimNode(u) ==
  /\ "node" \in Ops
  /\ \E i \in DOMAIN View(u) :
       /\ NotClaimed(i)
       /\ \E d \in ClaimRoot(i, View(u)[i].dir) : Records(SetClaim(claims, d, i, u))
       /\ held' = held \cup {<<u, i>>}

\* unclaim-node: "you can only release your own claim".
UnclaimNode(u) ==
  \E i \in DOMAIN content :
    /\ ClaimedBy(i) = u
    /\ Records(Cleared(claims, {i}))
    /\ held' = held \ {<<u, i>>}

\* What claim-leaf looks at: the leaves, and the claims of items with children.
Leaves(u, g) == {i \in Expanded(View(u), g) : View(u)[i].children = {}}
Abandoned(u, g) == {i \in Expanded(View(u), g) \ Leaves(u, g) : ClaimedBy(i) # Null}
OwnLeaves(u, g) == {i \in Leaves(u, g) : ClaimedBy(i) = u}
Candidates(u, g) == {i \in Leaves(u, g) : ClaimedBy(i) = Null /\ View(u)[i].requires = {}}

\* claim-leaf.  Claims of items that the caller sees children of are cleared,
\* whoever has them.  One leaf of its own is kept; otherwise it gets a free one.
ClaimLeaf(u, g) ==
  /\ "leaf" \in Ops
  /\ g \in DOMAIN View(u)
  /\ LET healed == Cleared(claims, Abandoned(u, g))
         others == {h \in held : h[2] \notin Abandoned(u, g)}
     IN \/ \E kept \in OwnLeaves(u, g) :
             /\ Records(Cleared(healed, OwnLeaves(u, g) \ {kept}))
             /\ held' = {h \in others : h[1] = u => h[2] \notin OwnLeaves(u, g) \ {kept}}
        \/ /\ OwnLeaves(u, g) = {}
           /\ \E i \in Candidates(u, g) :
                /\ \E d \in ClaimRoot(i, View(u)[i].dir) : Records(SetClaim(healed, d, i, u))
                /\ held' = others \cup {<<u, i>>}

-----------------------------------------------------------------------------
\* A plan, which every wing has, and which nobody has claimed anything of.
Init ==
  /\ content = FirstPlan
  /\ dirs = {FirstPlan[i].dir : i \in DOMAIN FirstPlan}
  /\ claims = [d \in Item |-> [i \in Item |-> Null]]
  /\ view = [w \in Wing |-> content]
  /\ base = [w \in Wing |-> content]
  /\ made = DOMAIN FirstPlan
  /\ edits = 0
  /\ held = {}
  /\ stranded = {}

Next ==
  \/ \E u \in Caller : AddChildren(u) \/ CreateRoot(u) \/ DeleteSubtree(u)
                         \/ UpdateItem(u) \/ MoveNode(u)
  \/ \E w \in Wing : Start(w) \/ Merge(w) \/ Vanish(w)
  \/ \E u \in Caller : ClaimNode(u) \/ UnclaimNode(u)
  \/ \E u \in Caller, g \in Item : ClaimLeaf(u, g)

Spec == Init /\ [][Next]_vars

-----------------------------------------------------------------------------
(* Properties. *)

\* The state has its type.
TypeOK ==
  /\ IsPlan(content)
  /\ dirs \subseteq Item
  /\ claims \in [Item -> [Item -> Caller \cup {Null}]]
  /\ DOMAIN view = Wing /\ DOMAIN base = Wing
  /\ \A w \in Wing : IsPlan(view[w]) /\ IsPlan(base[w])
  /\ made \subseteq Item
  /\ edits \in 0 .. MaxEdits
  /\ held \subseteq Caller \X Item
  /\ stranded \subseteq Item \X Item

\* Children and parents agree, children share their parent's content.toml, and
\* every item is found below the root that the content.toml belongs to.
WellFormed(c) ==
  \A i \in DOMAIN c :
    /\ c[i].dir \in DOMAIN c
    /\ c[c[i].dir].parent = Null
    /\ i \in Below(c, c[i].dir)
    /\ c[i].parent = Null => c[i].dir = i
    /\ c[i].parent # Null => /\ c[i].parent \in DOMAIN c
                             /\ i \in c[c[i].parent].children
                             /\ c[c[i].parent].dir = c[i].dir
    /\ \A j \in c[i].children : j \in DOMAIN c /\ c[j].parent = i

\* The plan at the start is one that the edits could have made.
ASSUME FirstPlanAssumption ==
  /\ IsPlan(FirstPlan) /\ WellFormed(FirstPlan)
  /\ \A i \in DOMAIN FirstPlan : FirstPlan[i].requires \subseteq DOMAIN FirstPlan

\* However the plan is edited, on the trunk and in the wings, it is a forest
\* whose parts the stored parents, children and directories agree about: moves
\* and deletions find whole subtrees, and no cycle drops out of every root.
Forest == WellFormed(content) /\ \A w \in Wing : WellFormed(view[w])

\* A claim that was given for an item is on record as long as the trunk has the
\* item, until its wing gives it back, claim-leaf clears it, or a move between
\* roots leaves it behind: no sweep loses it, and nobody else is given the item.
ClaimStands == \A h \in held : h[2] \in DOMAIN content => ClaimedBy(h[2]) = h[1]

\* What an item of the trunk's plan waits for is there to be completed, unless
\* update-item named it when it was not there, or it went away, in another root,
\* below the item that was completed: whatever wing completes an item, and
\* whichever copies of the plan are merged, what waited for it is released.
Released ==
  \A k \in DOMAIN content : \A j \in content[k].requires :
    j \in DOMAIN content \/ <<k, j>> \in stranded
=============================================================================
