-------------------------- MODULE PlanTree_proofs --------------------------
(***************************************************************************)
(* Proofs about PlanTree, for any items, wings and edits.                  *)
(*                                                                         *)
(* Below(c, i) is the least set of items that has i and, of each of its    *)
(* items, the children.  So a statement about all of it is shown for some  *)
(* set that has i and is closed under children, and that something is in   *)
(* it after an edit for every such set of the new plan: no induction.      *)
(***************************************************************************)
EXTENDS PlanTree, TLAPS

\* S is closed under the children of c.
Closed(c, S) == \A k \in S : c[k].children \cap DOMAIN c \subseteq S

\* Only ids that were handed out are in a plan.
Known ==
  /\ DOMAIN content \subseteq made
  /\ \A w \in Wing : DOMAIN view[w] \cup DOMAIN base[w] \subseteq made

\* What wing w has added since its movement started.
Added(w) == DOMAIN view[w] \ DOMAIN base[w]

\* That is w's only; the other items of w are in the content.toml they were in
\* at the start.
Own ==
  \A w \in Wing :
    /\ \A i \in DOMAIN view[w] \cap DOMAIN base[w] : view[w][i].dir = base[w][i].dir
    /\ \A i \in Added(w) : /\ i \notin DOMAIN content
                           /\ \A v \in Wing \ {w} : i \notin DOMAIN view[v] \cup DOMAIN base[v]

\* The records cl keep what is held: of an item of the trunk, and of an item that
\* a wing has added.  The latter has one record at most, where its wing
\* looks for it, and nobody else holds it: it is found when the wing merges.
Standing(cl, hs) ==
  /\ \A d, i \in Item : cl[d][i] # Null => i \in made
  /\ \A h \in hs : /\ h[2] \in made
                   /\ h[2] \in DOMAIN content => cl[content[h[2]].dir][h[2]] = h[1]
  /\ \A w \in Wing : \A i \in Added(w) :
       /\ \A d \in Item : cl[d][i] # Null => d = view[w][i].dir /\ cl[d][i] = w
       /\ \A h \in hs : h[2] = i => h[1] = w /\ cl[view[w][i].dir][i] = w

\* What the items of c wait for is in c, unless they were left waiting for it.
Waiting(c) ==
  \A k \in DOMAIN c : \A j \in c[k].requires : j \in DOMAIN c \/ <<k, j>> \in stranded

IInv ==
  /\ TypeOK /\ Known /\ Forest /\ Own
  /\ Standing(claims, held)
  /\ Waiting(content) /\ \A w \in Wing : Waiting(view[w])

-----------------------------------------------------------------------------
(* Subtrees. *)

\* Below is the least closed set.
LEMMA BelowIsLeast ==
  ASSUME NEW c, NEW i \in DOMAIN c
  PROVE  /\ Below(c, i) \subseteq DOMAIN c
         /\ i \in Below(c, i)
         /\ Closed(c, Below(c, i))
         /\ \A S \in SUBSET DOMAIN c : i \in S /\ Closed(c, S) => Below(c, i) \subseteq S
<1>1. /\ Below(c, i) \subseteq DOMAIN c
      /\ i \in Below(c, i)
      /\ \A S \in SUBSET DOMAIN c : i \in S /\ Closed(c, S) => Below(c, i) \subseteq S
  BY DEF Below, Closed
<1>2. ASSUME NEW k \in Below(c, i), NEW j \in c[k].children \cap DOMAIN c
      PROVE  j \in Below(c, i)
  <2>1. ASSUME NEW S \in SUBSET DOMAIN c, i \in S, Closed(c, S)
        PROVE  j \in S
    BY <1>1, <1>2, <2>1 DEF Closed
  <2> QED
    BY <1>2, <2>1 DEF Below, Closed
<1> QED
  BY <1>1, <1>2 DEF Closed

\* Below an item, everything is in its content.toml and has its parent there;
\* and what has its parent there is there.
LEMMA BelowAnItem ==
  ASSUME NEW c, IsPlan(c), WellFormed(c), NEW i \in DOMAIN c
  PROVE  /\ \A j \in Below(c, i) : j \in DOMAIN c /\ c[j].dir = c[i].dir
         /\ \A j \in Below(c, i) : j # i => c[j].parent \in Below(c, i)
         /\ \A j \in DOMAIN c : c[j].parent \in Below(c, i) => j \in Below(c, i)
<1>1. \A j \in DOMAIN c : \A k \in c[j].children : k \in DOMAIN c /\ c[k].parent = j
  BY DEF WellFormed
<1>2. \A j \in Below(c, i) : j \in DOMAIN c /\ c[j].dir = c[i].dir
  <2> DEFINE S == {j \in DOMAIN c : c[j].dir = c[i].dir}
  <2>1. ASSUME NEW j \in S, NEW k \in c[j].children
        PROVE  k \in S
    <3>1. k \in DOMAIN c /\ c[k].parent = j
      BY <1>1, <2>1
    <3>2. j # Null
      BY PlanAssumption DEF IsPlan
    <3> QED
      BY <3>1, <3>2 DEF WellFormed
  <2>2. S \in SUBSET DOMAIN c /\ i \in S /\ Closed(c, S)
    BY <2>1 DEF Closed
  <2> HIDE DEF S
  <2>3. Below(c, i) \subseteq S
    BY <2>2, BelowIsLeast
  <2> QED
    BY <2>3 DEF S
<1>3. ASSUME NEW j \in Below(c, i), j # i, c[j].parent \notin Below(c, i)
      PROVE  FALSE
  <2> DEFINE S == Below(c, i) \ {j}
  <2>1. S \in SUBSET DOMAIN c /\ i \in S
    BY <1>3, BelowIsLeast
  <2>2. Closed(c, S)
    BY <1>1, <1>3, <2>1, BelowIsLeast DEF Closed
  <2> QED
    BY <1>3, <2>1, <2>2, BelowIsLeast
<1>4. ASSUME NEW j \in DOMAIN c, c[j].parent \in Below(c, i)
      PROVE  j \in Below(c, i)
  <2>1. c[j].parent \in DOMAIN c /\ c[j].parent # Null
    BY <1>4, BelowIsLeast, PlanAssumption DEF IsPlan
  <2>2. j \in c[c[j].parent].children
    BY <2>1 DEF WellFormed
  <2> QED
    BY <1>4, <2>2, BelowIsLeast DEF Closed
<1> QED
  BY <1>2, <1>3, <1>4

\* A root has no parent, and everything in its content.toml is below it; an
\* item without a parent is a root.
LEMMA Roots ==
  ASSUME NEW c, IsPlan(c), WellFormed(c), NEW i \in DOMAIN c
  PROVE  /\ c[i].dir = i <=> c[i].parent = Null
         /\ c[i].dir = i => \A j \in DOMAIN c : c[j].dir = i => j \in Below(c, i)
         /\ c[i].dir \in DOMAIN c /\ c[c[i].dir].parent = Null /\ c[c[i].dir].dir = c[i].dir
         /\ \A j \in Below(c, i) : j # i => c[j].parent # Null
<1>1. ASSUME NEW j \in Below(c, i), j # i
      PROVE  c[j].parent # Null
  <2>1. c[j].parent \in DOMAIN c
    BY <1>1, BelowAnItem, BelowIsLeast
  <2> QED
    BY <2>1, PlanAssumption DEF IsPlan
<1> QED
  BY <1>1 DEF WellFormed

-----------------------------------------------------------------------------
(* What the edits make of a plan. *)

\* A new child.
LEMMA ChildOfPlan ==
  ASSUME NEW c, IsPlan(c), WellFormed(c), NEW p \in DOMAIN c, NEW i \in Item \ DOMAIN c
  PROVE  LET e == WithChild(c, p, i)
         IN /\ IsPlan(e) /\ WellFormed(e)
            /\ DOMAIN e = DOMAIN c \cup {i}
            /\ \A k \in DOMAIN c : e[k].dir = c[k].dir /\ e[k].requires = c[k].requires
            /\ e[i].requires = {}
<1> DEFINE e == WithChild(c, p, i)
<1>1. /\ DOMAIN e = DOMAIN c \cup {i}
      /\ e[i] = NewItem(c[p].dir, p)
      /\ \A k \in DOMAIN c :
           e[k] = [c[k] EXCEPT !.children = IF k = p THEN @ \cup {i} ELSE @]
  BY DEF WithChild
<1>2. \A k \in DOMAIN c : c[k] \in Entry
  BY DEF IsPlan
<1>3. \A k \in DOMAIN c : /\ e[k] = [c[k] EXCEPT !.children = IF k = p THEN @ \cup {i} ELSE @]
                          /\ e[k] \in Entry
  BY <1>1, <1>2 DEF Entry
<1>4. \A k \in DOMAIN c : /\ e[k].dir = c[k].dir /\ e[k].parent = c[k].parent
                          /\ e[k].requires = c[k].requires
                          /\ e[k].children = IF k = p THEN c[k].children \cup {i} ELSE c[k].children
  BY <1>2, <1>3 DEF Entry
<1>5. /\ e[i].dir = c[p].dir /\ e[i].parent = p /\ e[i].children = {} /\ e[i].requires = {}
      /\ e[i] \in Entry
  BY <1>1, <1>2 DEF NewItem, Entry, IsPlan
<1>6. IsPlan(e)
  <2>1. e = [k \in DOMAIN e |-> e[k]]
    BY DEF WithChild
  <2> QED
    BY <1>1, <1>3, <1>5, <2>1 DEF IsPlan
<1> HIDE DEF e
<1>7. WellFormed(e)
  <2>0. DOMAIN e = DOMAIN c \cup {i}
    BY <1>1
  <2>1. i # Null /\ p # Null
    BY PlanAssumption DEF IsPlan
  <2>2. ASSUME NEW k \in DOMAIN e
        PROVE  k \in Below(e, e[k].dir)
    <3>1. ASSUME NEW S \in SUBSET DOMAIN e, e[k].dir \in S, Closed(e, S)
          PROVE  k \in S
      <4>1. Closed(c, S \cap DOMAIN c)
        BY <1>1, <1>4, <3>1 DEF Closed
      <4>2. ASSUME NEW j \in DOMAIN c, c[j].dir = e[k].dir
            PROVE  j \in S
        <5>1. j \in Below(c, c[j].dir) /\ c[j].dir \in DOMAIN c
          BY DEF WellFormed
        <5>2. c[j].dir \in S \cap DOMAIN c
          BY <3>1, <4>2, <5>1
        <5> QED
          BY <4>1, <5>1, <5>2, BelowIsLeast
      <4>3. CASE k = i
        <5>1. p \in S /\ i \in e[p].children \cap DOMAIN e
          BY <1>1, <1>4, <1>5, <4>2, <4>3
        <5> QED
          BY <3>1, <4>3, <5>1 DEF Closed
      <4>4. CASE k # i
        BY <1>1, <1>4, <4>2, <4>4
      <4> QED
        BY <4>3, <4>4
    <3> QED
      BY <3>1 DEF Below, Closed
  <2>3. ASSUME NEW k \in DOMAIN e
        PROVE  /\ e[k].dir \in DOMAIN e /\ e[e[k].dir].parent = Null
               /\ e[k].parent = Null => e[k].dir = k
               /\ e[k].parent # Null => /\ e[k].parent \in DOMAIN e
                                        /\ k \in e[e[k].parent].children
                                        /\ e[e[k].parent].dir = e[k].dir
    <3>1. CASE k = i
      <4>1. /\ c[p].dir \in DOMAIN c /\ c[c[p].dir].parent = Null
        BY DEF WellFormed
      <4>2. e[c[p].dir].parent = Null /\ e[p].dir = c[p].dir /\ i \in e[p].children
        BY <1>4, <4>1
      <4> QED
        BY <2>0, <1>5, <2>1, <3>1, <4>1, <4>2
    <3>2. CASE k \in DOMAIN c
      <4>1. /\ c[k].dir \in DOMAIN c /\ c[c[k].dir].parent = Null
            /\ c[k].parent = Null => c[k].dir = k
            /\ c[k].parent # Null => /\ c[k].parent \in DOMAIN c
                                     /\ k \in c[c[k].parent].children
                                     /\ c[c[k].parent].dir = c[k].dir
        BY <3>2 DEF WellFormed
      <4> QED
        <5>1. e[k].dir = c[k].dir /\ e[k].parent = c[k].parent /\ e[c[k].dir].parent = Null
          BY <1>4, <3>2, <4>1
        <5>2. ASSUME c[k].parent # Null
              PROVE  k \in e[c[k].parent].children /\ e[c[k].parent].dir = c[k].dir
          BY <1>4, <4>1, <5>2
        <5> QED
          BY <2>0, <4>1, <5>1, <5>2
    <3> QED
      BY <1>1, <3>1, <3>2
  <2>4. ASSUME NEW k \in DOMAIN e, NEW j \in e[k].children
        PROVE  j \in DOMAIN e /\ e[j].parent = k
    <3>1. k \in DOMAIN c
      BY <1>1, <1>5
    <3>2. \A l \in c[k].children : l \in DOMAIN c /\ c[l].parent = k
      BY <3>1 DEF WellFormed
    <3> QED
      <4>1. CASE k = p /\ j = i
        BY <2>0, <1>5, <4>1
      <4>2. CASE j \in c[k].children
        <5>1. j \in DOMAIN c /\ c[j].parent = k
          BY <3>2, <4>2
        <5> QED
          BY <2>0, <1>4, <5>1
      <4> QED
        BY <1>4, <3>1, <4>1, <4>2
  <2> QED
    BY <2>2, <2>3, <2>4 DEF WellFormed
<1> QED
  BY <1>1, <1>4, <1>5, <1>6, <1>7 DEF e

\* A new root.
LEMMA RootOfPlan ==
  ASSUME NEW c, IsPlan(c), WellFormed(c), NEW i \in Item \ DOMAIN c
  PROVE  LET e == WithRoot(c, i)
         IN /\ IsPlan(e) /\ WellFormed(e)
            /\ DOMAIN e = DOMAIN c \cup {i}
            /\ \A k \in DOMAIN c : e[k].dir = c[k].dir /\ e[k].requires = c[k].requires
            /\ e[i].requires = {}
<1> DEFINE e == WithRoot(c, i)
<1>1. /\ DOMAIN e = DOMAIN c \cup {i}
      /\ e[i] = NewItem(i, Null)
      /\ \A k \in DOMAIN c : e[k] = c[k]
  BY DEF WithRoot
<1>2. \A k \in DOMAIN c : c[k] \in Entry
  BY DEF IsPlan
<1>3. /\ e[i].dir = i /\ e[i].parent = Null /\ e[i].children = {} /\ e[i].requires = {}
      /\ e[i] \in Entry
  BY <1>1 DEF NewItem, Entry
<1>4. IsPlan(e)
  <2>1. e = [k \in DOMAIN e |-> e[k]]
    BY DEF WithRoot
  <2> QED
    BY <1>1, <1>2, <1>3, <2>1 DEF IsPlan
<1> HIDE DEF e
<1>5. WellFormed(e)
  <2>1. ASSUME NEW k \in DOMAIN e
        PROVE  k \in Below(e, e[k].dir)
    <3>1. ASSUME NEW S \in SUBSET DOMAIN e, e[k].dir \in S, Closed(e, S), k # i
          PROVE  k \in S
      <4>1. k \in Below(c, c[k].dir) /\ c[k].dir \in DOMAIN c
        BY <1>1, <3>1 DEF WellFormed
      <4>2. Closed(c, S \cap DOMAIN c)
        BY <1>1, <3>1 DEF Closed
      <4> QED
        BY <1>1, <3>1, <4>1, <4>2, BelowIsLeast
    <3> QED
      BY <1>3, <3>1 DEF Below, Closed
  <2>2. ASSUME NEW k \in DOMAIN e
        PROVE  /\ e[k].dir \in DOMAIN e /\ e[e[k].dir].parent = Null
               /\ e[k].parent = Null => e[k].dir = k
               /\ e[k].parent # Null => /\ e[k].parent \in DOMAIN e
                                        /\ k \in e[e[k].parent].children
                                        /\ e[e[k].parent].dir = e[k].dir
               /\ \A j \in e[k].children : j \in DOMAIN e /\ e[j].parent = k
    BY <1>1, <1>3 DEF WellFormed
  <2> QED
    BY <2>1, <2>2 DEF WellFormed
<1> QED
  BY <1>1, <1>3, <1>4, <1>5 DEF e

\* Other requires leave a plan as well formed as it was.
LEMMA OnlyRequires ==
  ASSUME NEW c, IsPlan(c), WellFormed(c), NEW e, IsPlan(e), DOMAIN e = DOMAIN c,
         \A k \in DOMAIN c : /\ e[k].dir = c[k].dir /\ e[k].parent = c[k].parent
                             /\ e[k].children = c[k].children
  PROVE  WellFormed(e)
<1>1. ASSUME NEW k \in DOMAIN c
      PROVE  k \in Below(e, e[k].dir)
  <2>1. k \in Below(c, c[k].dir)
    BY DEF WellFormed
  <2> QED
    BY <2>1 DEF Below
<1>2. ASSUME NEW k \in DOMAIN c
      PROVE  /\ e[k].dir \in DOMAIN e /\ e[e[k].dir].parent = Null
             /\ e[k].parent = Null => e[k].dir = k
             /\ e[k].parent # Null => /\ e[k].parent \in DOMAIN e
                                      /\ k \in e[e[k].parent].children
                                      /\ e[e[k].parent].dir = e[k].dir
             /\ \A j \in e[k].children : j \in DOMAIN e /\ e[j].parent = k
  BY DEF WellFormed
<1> QED
  BY <1>1, <1>2 DEF WellFormed

\* What goes away with an item is closed: all of a root's content.toml, or a
\* subtree.  What stays has its root and its parent still.
LEMMA WhatGoes ==
  ASSUME NEW c, IsPlan(c), WellFormed(c), NEW i \in DOMAIN c
  PROVE  /\ i \in Gone(c, i) /\ Gone(c, i) \subseteq DOMAIN c
         /\ Closed(c, Gone(c, i))
         /\ \A k \in DOMAIN c \ Gone(c, i) :
              /\ c[k].dir \notin Gone(c, i)
              /\ c[k].parent \notin Gone(c, i)
              /\ \A j \in c[k].children : j \notin Gone(c, i) \/ (j = i /\ k = c[i].parent)
<1>1. \A k \in DOMAIN c : \A j \in c[k].children : j \in DOMAIN c /\ c[j].parent = k
  BY DEF WellFormed
<1>2. \A k \in DOMAIN c : \A j \in c[k].children : k # Null /\ c[j].dir = c[k].dir
  BY <1>1, PlanAssumption DEF WellFormed, IsPlan
<1>3. \A k \in DOMAIN c : c[k].parent # Null => c[k].parent \in DOMAIN c /\ c[c[k].parent].dir = c[k].dir
  BY DEF WellFormed
<1>4. \A k \in DOMAIN c : c[k].dir \in DOMAIN c /\ c[c[k].dir].dir = c[k].dir
  BY Roots
<1>5. Null \notin DOMAIN c
  BY PlanAssumption DEF IsPlan
<1>6. CASE c[i].dir = i
  <2>1. Gone(c, i) = {k \in DOMAIN c : c[k].dir = i}
    BY <1>6 DEF Gone
  <2>2. Closed(c, Gone(c, i))
    BY <2>1, <1>2 DEF Closed
  <2>3. ASSUME NEW k \in DOMAIN c \ Gone(c, i)
        PROVE  /\ c[k].dir \notin Gone(c, i) /\ c[k].parent \notin Gone(c, i)
               /\ \A j \in c[k].children : j \notin Gone(c, i)
    BY <2>1, <1>2, <1>3, <1>4, <1>5
  <2> QED
    BY <1>6, <2>1, <2>2, <2>3
<1>7. CASE c[i].dir # i
  <2>1. Gone(c, i) = Below(c, i)
    BY <1>7 DEF Gone
  <2>2. ASSUME NEW k \in DOMAIN c \ Below(c, i)
        PROVE  /\ c[k].parent \notin Below(c, i)
               /\ \A j \in c[k].children : j \notin Below(c, i) \/ (j = i /\ k = c[i].parent)
    BY <1>1, <2>2, BelowAnItem
  <2>3. ASSUME NEW k \in DOMAIN c \ Below(c, i)
        PROVE  c[k].dir \notin Below(c, i)
    <3>1. c[k].dir \in DOMAIN c /\ c[c[k].dir].parent = Null /\ c[c[k].dir].dir = c[k].dir
      BY Roots
    <3>2. c[k].dir # i
      BY <1>7, <3>1
    <3> QED
      BY <3>1, <3>2, Roots
  <2> QED
    BY <2>1, <2>2, <2>3, BelowIsLeast
<1> QED
  BY <1>6, <1>7

\* A deletion, with the cleanup.
LEMMA DeletedFromPlan ==
  ASSUME NEW c, IsPlan(c), WellFormed(c), NEW i \in DOMAIN c
  PROVE  LET e == CleanedUp(Deleted(c, i), i)
         IN /\ IsPlan(e) /\ WellFormed(e)
            /\ DOMAIN e = DOMAIN c \ Gone(c, i)
            /\ \A k \in DOMAIN e : e[k].dir = c[k].dir /\ e[k].requires \subseteq c[k].requires \ {i}
            /\ \A k \in DOMAIN e : c[k].dir = c[i].dir => e[k].requires \cap Gone(c, i) = {}
<1> DEFINE d == Deleted(c, i)
           e == CleanedUp(d, i)
<1>1. \A k \in DOMAIN c : c[k] \in Entry
  BY DEF IsPlan
<1>2. DOMAIN d = DOMAIN c \ Gone(c, i) /\ DOMAIN e = DOMAIN d
  BY DEF Deleted, CleanedUp
<1>3. \A k \in DOMAIN d : /\ d[k] \in Entry
                          /\ d[k].dir = c[k].dir /\ d[k].parent = c[k].parent
                          /\ d[k].children = IF k = c[i].parent THEN c[k].children \ {i} ELSE c[k].children
                          /\ d[k].requires = IF c[k].dir = c[i].dir THEN c[k].requires \ Gone(c, i)
                                                                    ELSE c[k].requires
  BY <1>1 DEF Deleted, Entry
<1>4. IsPlan(d)
  <2>1. d = [k \in DOMAIN d |-> d[k]]
    BY DEF Deleted
  <2> QED
    BY <1>2, <1>3, <2>1 DEF IsPlan
<1> HIDE DEF d
<1>5. ASSUME NEW k \in DOMAIN d, NEW j
       PROVE  j \in d[k].children <=> j \in c[k].children /\ ~ (j = i /\ k = c[i].parent)
  <2>1. CASE k = c[i].parent
    <3>1. d[k].children = c[k].children \ {i}
      BY <1>3, <2>1
    <3> QED
      BY <2>1, <3>1
  <2>2. CASE k # c[i].parent
    <3>1. d[k].children = c[k].children
      BY <1>3, <2>2
    <3> QED
      BY <2>2, <3>1
  <2> QED
    BY <2>1, <2>2
<1>6. \A k \in DOMAIN e : /\ e[k] \in Entry
                          /\ e[k].dir = d[k].dir /\ e[k].parent = d[k].parent
                          /\ e[k].children = d[k].children
                          /\ e[k].requires = d[k].requires \ {i}
  <2>1. \A k \in DOMAIN d : d[k] \in Entry
    BY <1>3
  <2> QED
    BY <1>2, <2>1 DEF CleanedUp, Entry
<1>7. IsPlan(e)
  <2>1. e = [k \in DOMAIN e |-> e[k]]
    BY DEF CleanedUp
  <2> QED
    BY <1>2, <1>4, <1>6, <2>1 DEF IsPlan
<1> HIDE DEF e
<1>8. WellFormed(d)
  <2>1. Null \notin DOMAIN c /\ DOMAIN d \subseteq DOMAIN c
    BY <1>2, PlanAssumption DEF IsPlan
  <2>2. ASSUME NEW k \in DOMAIN d
        PROVE  k \in Below(d, d[k].dir)
    <3>1. ASSUME NEW S \in SUBSET DOMAIN d, d[k].dir \in S, Closed(d, S)
          PROVE  k \in S
      <4>1. k \in Below(c, c[k].dir) /\ c[k].dir \in DOMAIN c
        BY <2>1 DEF WellFormed
      <4> DEFINE T == S \cup Gone(c, i)
      <4>2. T \in SUBSET DOMAIN c /\ c[k].dir \in T
        BY <1>2, <1>3, <2>1, <3>1, WhatGoes
      <4>3. ASSUME NEW m \in T, NEW j \in c[m].children \cap DOMAIN c
            PROVE  j \in T
        <5>1. CASE m \in Gone(c, i)
          BY <4>3, <5>1, WhatGoes DEF Closed
        <5>2. CASE m \in S /\ j \notin Gone(c, i)
          <6>1. j \in d[m].children \cap DOMAIN d
            <7>1. m \in DOMAIN d /\ j \in c[m].children /\ j # i /\ j \in DOMAIN d
              BY <1>2, <4>3, <5>2, WhatGoes
            <7> QED
              BY <1>5, <7>1
          <6> QED
            BY <3>1, <5>2, <6>1 DEF Closed
        <5> QED
          BY <4>3, <5>1, <5>2
      <4>4. Closed(c, T)
        BY <4>3 DEF Closed
      <4> HIDE DEF T
      <4>5. k \in T
        BY <4>1, <4>2, <4>4, BelowIsLeast
      <4> QED
        BY <1>2, <4>5 DEF T
    <3> QED
      BY <3>1 DEF Below, Closed
  <2>3. ASSUME NEW k \in DOMAIN d
        PROVE  /\ d[k].dir \in DOMAIN d /\ d[d[k].dir].parent = Null
               /\ d[k].parent = Null => d[k].dir = k
               /\ d[k].parent # Null => /\ d[k].parent \in DOMAIN d
                                        /\ k \in d[d[k].parent].children
                                        /\ d[d[k].parent].dir = d[k].dir
    <3>1. /\ c[k].dir \in DOMAIN c /\ c[c[k].dir].parent = Null
          /\ c[k].parent = Null => c[k].dir = k
          /\ c[k].parent # Null => /\ c[k].parent \in DOMAIN c
                                   /\ k \in c[c[k].parent].children
                                   /\ c[c[k].parent].dir = c[k].dir
      BY <2>1 DEF WellFormed
    <3>2. c[k].dir \notin Gone(c, i) /\ c[k].parent \notin Gone(c, i) /\ k # i
      BY <1>2, WhatGoes
    <3>3. c[k].dir \in DOMAIN d /\ (c[k].parent # Null => c[k].parent \in DOMAIN d)
      BY <1>2, <3>1, <3>2
    <3> QED
      <4>1. d[k].dir = c[k].dir /\ d[k].parent = c[k].parent /\ d[c[k].dir].parent = Null
        BY <1>3, <3>1, <3>3
      <4>2. ASSUME c[k].parent # Null
            PROVE  k \in d[c[k].parent].children /\ d[c[k].parent].dir = c[k].dir
        BY <1>3, <1>5, <3>1, <3>2, <3>3, <4>2
      <4> QED
        BY <3>1, <3>3, <4>1, <4>2
  <2>4. ASSUME NEW k \in DOMAIN d, NEW j \in d[k].children
        PROVE  j \in DOMAIN d /\ d[j].parent = k
    <3>1. j \in c[k].children /\ ~ (j = i /\ k = c[i].parent)
      BY <1>5
    <3>2. j \in DOMAIN c /\ c[j].parent = k
      BY <2>1, <3>1 DEF WellFormed
    <3>3. j \notin Gone(c, i)
      BY <1>2, <3>1, WhatGoes
    <3> QED
      BY <1>2, <1>3, <3>2, <3>3
  <2> QED
    BY <2>2, <2>3, <2>4 DEF WellFormed
<1>9. WellFormed(e)
  BY <1>2, <1>4, <1>6, <1>7, <1>8, OnlyRequires
<1>10. ASSUME NEW k \in DOMAIN e
       PROVE  /\ e[k].dir = c[k].dir /\ e[k].requires \subseteq c[k].requires \ {i}
              /\ c[k].dir = c[i].dir => e[k].requires \cap Gone(c, i) = {}
  <2>1. /\ d[k].dir = c[k].dir /\ d[k].requires \subseteq c[k].requires
        /\ c[k].dir = c[i].dir => d[k].requires \cap Gone(c, i) = {}
    BY <1>2, <1>3
  <2>2. e[k].dir = d[k].dir /\ e[k].requires = d[k].requires \ {i}
    BY <1>6
  <2> QED
    BY <2>1, <2>2
<1> QED
  BY <1>2, <1>7, <1>9, <1>10 DEF e, d

\* A move of i under p, or of i as a root: the subtree gets p's content.toml,
\* or its own.
LEMMA MovedInPlan ==
  ASSUME NEW c, IsPlan(c), WellFormed(c), NEW i \in DOMAIN c,
         NEW p \in DOMAIN c \cup {Null}, MayMove(c, i, p)
  PROVE  LET e == Moved(c, i, p)
         IN /\ IsPlan(e) /\ WellFormed(e)
            /\ DOMAIN e = DOMAIN c
            /\ \A k \in DOMAIN c :
                 /\ k \notin Below(c, i) \/ ~ Across(c, i, p) => e[k].dir = c[k].dir
                 /\ e[k].requires = c[k].requires
<1> DEFINE e == Moved(c, i, p)
           to == IF p = Null THEN i ELSE c[p].dir
<1>1. /\ \A k \in DOMAIN c : c[k] \in Entry
      /\ Null \notin Item /\ Null \notin DOMAIN c
  BY PlanAssumption DEF IsPlan
<1>2. p \notin Below(c, i) /\ p # c[i].parent /\ p # i
  BY BelowIsLeast DEF MayMove
<1>3. to \in DOMAIN c /\ to \in Item
  BY <1>1, Roots DEF IsPlan
<1> HIDE DEF to
<1>4. /\ DOMAIN e = DOMAIN c
      /\ \A k \in DOMAIN c : 
           e[k] = [c[k] EXCEPT !.dir = IF k \notin Below(c, i) THEN @ ELSE to,
                               !.parent = IF k = i THEN p ELSE @,
                               !.children = IF k = p THEN @ \cup {i}
                                            ELSE IF k = c[i].parent THEN @ \ {i} ELSE @]
  BY DEF Moved, to
<1>5. p \in Item \cup {Null} /\ i \in Item
  BY DEF IsPlan
<1>6. ASSUME NEW k \in DOMAIN c
      PROVE  /\ e[k] \in Entry
             /\ k \notin Below(c, i) => e[k].dir = c[k].dir
             /\ k \in Below(c, i) => e[k].dir = to
             /\ e[k].parent = IF k = i THEN p ELSE c[k].parent
             /\ e[k].requires = c[k].requires
             /\ e[k].children = IF k = p THEN c[k].children \cup {i}
                                ELSE IF k = c[i].parent THEN c[k].children \ {i} ELSE c[k].children
  <2>1. c[k] \in Entry
    BY <1>1
  <2>2. /\ e[k].dir = IF k \notin Below(c, i) THEN c[k].dir ELSE to
        /\ e[k].parent = IF k = i THEN p ELSE c[k].parent
        /\ e[k].requires = c[k].requires
        /\ e[k].children = IF k = p THEN c[k].children \cup {i}
                           ELSE IF k = c[i].parent THEN c[k].children \ {i} ELSE c[k].children
        /\ e[k] = [dir |-> e[k].dir, parent |-> e[k].parent, children |-> e[k].children,
                   requires |-> e[k].requires]
    <3> DEFINE dir == IF k \notin Below(c, i) THEN c[k].dir ELSE to
               parent == IF k = i THEN p ELSE c[k].parent
               children == IF k = p THEN c[k].children \cup {i}
                           ELSE IF k = c[i].parent THEN c[k].children \ {i} ELSE c[k].children
    <3>1. e[k] = [c[k] EXCEPT !.dir = dir, !.parent = parent, !.children = children]
      BY <1>4
    <3> HIDE DEF dir, parent, children
    <3>2. /\ e[k].dir = dir /\ e[k].parent = parent /\ e[k].children = children
          /\ e[k].requires = c[k].requires
          /\ e[k] = [dir |-> dir, parent |-> parent, children |-> children,
                     requires |-> c[k].requires]
      BY <2>1, <3>1 DEF Entry
    <3> QED
      BY <3>2 DEF dir, parent, children
  <2>3. e[k].dir \in Item /\ e[k].parent \in Item \cup {Null}
    BY <1>3, <1>5, <2>1, <2>2 DEF Entry
  <2>4. e[k].children \subseteq Item /\ e[k].requires \subseteq Item
    BY <1>5, <2>1, <2>2 DEF Entry
  <2> QED
    BY <2>2, <2>3, <2>4 DEF Entry
<1>7. IsPlan(e)
  <2>1. e = [k \in DOMAIN e |-> e[k]]
    BY DEF Moved
  <2> QED
    BY <1>4, <1>6, <2>1 DEF IsPlan
<1> HIDE DEF e
<1>8. ASSUME NEW k \in DOMAIN c, NEW j
      PROVE  j \in e[k].children <=> \/ j = i /\ k = p
                                     \/ j # i /\ j \in c[k].children
  <2>1. CASE k = p
    <3>1. e[k].children = c[k].children \cup {i}
      BY <1>6, <2>1
    <3> QED
      BY <2>1, <3>1
  <2>2. CASE k # p /\ k = c[i].parent
    <3>1. e[k].children = c[k].children \ {i}
      BY <1>6, <2>2
    <3> QED
      BY <2>2, <3>1
  <2>3. CASE k # p /\ k # c[i].parent
    <3>1. e[k].children = c[k].children
      BY <1>6, <2>3
    <3>2. i \notin c[k].children
      BY <2>3 DEF WellFormed
    <3> QED
      BY <2>3, <3>1, <3>2
  <2> QED
    BY <2>1, <2>2, <2>3
\* What was not below i is found where it was, with or without i.
<1>9. ASSUME NEW k \in DOMAIN c \ Below(c, i), NEW S \in SUBSET DOMAIN c,
             c[k].dir \in S, Closed(e, S)
      PROVE  k \in S
  <2> DEFINE T == S \cup Below(c, i)
  <2>1. T \in SUBSET DOMAIN c /\ c[k].dir \in T
    BY <1>9, BelowIsLeast
  <2>2. ASSUME NEW m \in T, NEW j \in c[m].children \cap DOMAIN c
        PROVE  j \in T
    <3>1. CASE m \in Below(c, i)
      BY <2>2, <3>1, BelowIsLeast DEF Closed
    <3>2. CASE m \in S /\ j # i
      BY <1>4, <1>8, <1>9, <2>2, <3>2 DEF Closed
    <3>3. CASE j = i
      BY <3>3, BelowIsLeast
    <3> QED
      BY <2>2, <3>1, <3>2, <3>3
  <2>3. Closed(c, T)
    BY <2>2 DEF Closed
  <2> HIDE DEF T
  <2>4. k \in Below(c, c[k].dir) /\ c[k].dir \in DOMAIN c
    BY DEF WellFormed
  <2>5. k \in T
    BY <2>1, <2>3, <2>4, BelowIsLeast
  <2> QED
    BY <1>9, <2>5 DEF T
\* What was below i is found with it.
<1>10. ASSUME NEW k \in Below(c, i), NEW S \in SUBSET DOMAIN c, i \in S, Closed(e, S)
       PROVE  k \in S
  <2> DEFINE T == S \cap Below(c, i)
  <2>1. T \in SUBSET DOMAIN c /\ i \in T
    BY <1>10, BelowIsLeast
  <2>2. ASSUME NEW m \in T, NEW j \in c[m].children \cap DOMAIN c, j # i
        PROVE  j \in T
    <3>1. j \in Below(c, i)
      BY <2>2, BelowIsLeast DEF Closed
    <3>2. j \in S
      BY <1>4, <1>8, <1>10, <2>2 DEF Closed
    <3> QED
      BY <3>1, <3>2
  <2>3. Closed(c, T)
    BY <2>1, <2>2 DEF Closed
  <2> HIDE DEF T
  <2>4. k \in T
    BY <2>1, <2>3, <1>10, BelowIsLeast
  <2> QED
    BY <2>4 DEF T
<1>11. ASSUME NEW k \in DOMAIN e
       PROVE  k \in Below(e, e[k].dir)
  <2>1. ASSUME NEW S \in SUBSET DOMAIN e, e[k].dir \in S, Closed(e, S)
        PROVE  k \in S
    <3>1. CASE k \notin Below(c, i)
      <4>1. e[k].dir = c[k].dir
        BY <1>4, <1>6, <3>1
      <4> QED
        BY <1>4, <1>9, <2>1, <3>1, <4>1
    <3>2. CASE k \in Below(c, i)
      <4>1. to \in S
        <5>1. e[k].dir = to
          BY <1>4, <1>6, <3>2
        <5> QED
          BY <2>1, <5>1
      <4>2. i \in S
        <5>1. CASE p = Null
          BY <4>1, <5>1 DEF to
        <5>2. CASE p # Null
          <6>1. p \in DOMAIN c \ Below(c, i) /\ c[p].dir \in S
            BY <1>2, <4>1, <5>2 DEF to
          <6>2. p \in S
            BY <1>4, <1>9, <2>1, <6>1
          <6>3. i \in e[p].children \cap DOMAIN e
            BY <1>4, <1>8, <6>1
          <6> QED
            BY <2>1, <6>2, <6>3 DEF Closed
        <5> QED
          BY <5>1, <5>2
      <4> QED
        BY <1>4, <1>10, <2>1, <3>2, <4>2
    <3> QED
      BY <3>1, <3>2
  <2> QED
    BY <2>1 DEF Below, Closed
<1>12. ASSUME NEW k \in DOMAIN c
       PROVE  /\ c[k].dir \in DOMAIN c /\ c[c[k].dir].parent = Null
              /\ c[k].parent = Null => c[k].dir = k
              /\ c[k].parent # Null => /\ c[k].parent \in DOMAIN c
                                       /\ k \in c[c[k].parent].children
                                       /\ c[c[k].parent].dir = c[k].dir
  BY DEF WellFormed
<1>13. ASSUME NEW k \in DOMAIN c
       PROVE  e[k].dir \in DOMAIN c /\ e[e[k].dir].parent = Null
  <2>1. CASE k \in Below(c, i)
    <3>1. e[k].dir = to
      BY <1>6, <2>1
    <3>2. CASE p = Null
      <4>1. e[i].parent = Null
        BY <1>6, <3>2
      <4> QED
        BY <3>1, <3>2, <4>1 DEF to
    <3>3. CASE p # Null
      <4>1. p \in DOMAIN c /\ to = c[p].dir
        BY <3>3 DEF to
      <4>2. to \in DOMAIN c /\ c[to].parent = Null
        BY <1>12, <4>1
      <4>3. to # i
        BY <1>2, <4>1, <4>2, Roots
      <4>4. e[to].parent = c[to].parent
        BY <1>6, <4>2, <4>3
      <4> QED
        BY <3>1, <4>2, <4>4
    <3> QED
      BY <3>2, <3>3
  <2>2. CASE k \notin Below(c, i)
    <3>1. e[k].dir = c[k].dir /\ c[k].dir \in DOMAIN c /\ c[c[k].dir].parent = Null
      BY <1>6, <1>12, <2>2
    <3>2. c[k].dir # i
      BY <2>2, <3>1, Roots
    <3>3. e[c[k].dir].parent = c[c[k].dir].parent
      BY <1>6, <3>1, <3>2
    <3> QED
      BY <3>1, <3>3
  <2> QED
    BY <2>1, <2>2
<1>14. ASSUME NEW k \in DOMAIN c
       PROVE  /\ e[k].parent = Null => e[k].dir = k
              /\ e[k].parent # Null => /\ e[k].parent \in DOMAIN c
                                       /\ k \in e[e[k].parent].children
                                       /\ e[e[k].parent].dir = e[k].dir
  <2>1. CASE k = i
    <3>1. e[i].parent = p /\ e[i].dir = to
      BY <1>6, BelowIsLeast
    <3>2. CASE p = Null
      BY <2>1, <3>1, <3>2 DEF to
    <3>3. CASE p # Null
      <4>1. p \in DOMAIN c /\ to = c[p].dir /\ e[p].dir = c[p].dir
        BY <1>2, <1>6, <3>3 DEF to
      <4>2. i \in e[p].children
        BY <1>8, <4>1
      <4> QED
        BY <2>1, <3>1, <3>3, <4>1, <4>2
    <3> QED
      BY <3>2, <3>3
  <2>2. CASE k # i
    <3>1. e[k].parent = c[k].parent
      BY <1>6, <2>2
    <3>2. CASE c[k].parent = Null
      <4>1. k \notin Below(c, i)
        BY <2>2, <3>2, Roots
      <4> QED
        BY <1>6, <1>12, <3>1, <3>2, <4>1
    <3>3. CASE c[k].parent # Null
      <4> DEFINE q == c[k].parent
      <4>1. q \in DOMAIN c /\ k \in c[q].children /\ c[q].dir = c[k].dir
        BY <1>12, <3>3
      <4>2. q \in Below(c, i) <=> k \in Below(c, i)
        BY <2>2, BelowAnItem
      <4> HIDE DEF q
      <4>3. e[q].dir = e[k].dir
        <5>1. CASE q \in Below(c, i)
          BY <1>6, <4>1, <4>2, <5>1
        <5>2. CASE q \notin Below(c, i)
          BY <1>6, <4>1, <4>2, <5>2
        <5> QED
          BY <5>1, <5>2
      <4>4. k \in e[q].children
        BY <1>8, <2>2, <4>1
      <4> QED
        BY <3>1, <3>3, <4>1, <4>3, <4>4 DEF q
    <3> QED
      BY <3>2, <3>3
  <2> QED
    BY <2>1, <2>2
<1>15. ASSUME NEW k \in DOMAIN c, NEW j \in e[k].children
       PROVE  j \in DOMAIN c /\ e[j].parent = k
  <2>1. CASE j = i /\ k = p
    BY <1>6, <2>1
  <2>2. CASE j # i /\ j \in c[k].children
    <3>1. j \in DOMAIN c /\ c[j].parent = k
      BY <2>2 DEF WellFormed
    <3> QED
      BY <1>6, <2>2, <3>1
  <2> QED
    BY <1>8, <2>1, <2>2
<1>16. WellFormed(e)
  BY <1>4, <1>11, <1>13, <1>14, <1>15 DEF WellFormed
<1>17. ASSUME NEW k \in DOMAIN c, k \notin Below(c, i) \/ ~ Across(c, i, p)
       PROVE  e[k].dir = c[k].dir
  <2>1. CASE k \notin Below(c, i)
    BY <1>6, <2>1
  <2>2. CASE k \in Below(c, i)
    <3>1. to = c[i].dir
      BY <1>17, <2>2 DEF to, Across
    <3> QED
      <4>1. e[k].dir = to
        BY <1>6, <2>2
      <4> QED
        BY <2>2, <3>1, <4>1, BelowAnItem
  <2> QED
    BY <2>1, <2>2
<1> QED
  BY <1>4, <1>6, <1>7, <1>16, <1>17 DEF e

-----------------------------------------------------------------------------
(* The invariant, read. *)

LEMMA Facts ==
  ASSUME IInv
  PROVE  /\ TypeOK /\ Known /\ Forest /\ Own /\ Standing(claims, held)
         /\ Waiting(content) /\ \A w \in Wing : Waiting(view[w])
         /\ Null \notin Item /\ Null \notin Caller /\ Lair \in Caller /\ Lair \notin Wing
         /\ Wing \subseteq Caller
         /\ IsPlan(content) /\ WellFormed(content)
         /\ \A w \in Wing : IsPlan(view[w]) /\ WellFormed(view[w]) /\ IsPlan(base[w])
         /\ claims \in [Item -> [Item -> Caller \cup {Null}]]
         /\ held \subseteq Caller \X Item
<1>1. /\ TypeOK /\ Known /\ Forest /\ Own /\ Standing(claims, held)
      /\ Waiting(content) /\ \A w \in Wing : Waiting(view[w])
  BY DEF IInv
<1>2. /\ Null \notin Item /\ Null \notin Caller /\ Lair \in Caller /\ Lair \notin Wing
      /\ Wing \subseteq Caller
  BY PlanAssumption DEF Caller
<1>3. /\ IsPlan(content) /\ WellFormed(content)
      /\ \A w \in Wing : IsPlan(view[w]) /\ WellFormed(view[w]) /\ IsPlan(base[w])
      /\ claims \in [Item -> [Item -> Caller \cup {Null}]]
      /\ held \subseteq Caller \X Item
  BY <1>1 DEF TypeOK, Forest
<1> QED
  BY <1>1, <1>2, <1>3

\* The plan that u edits and looks at.
LEMMA ViewFacts ==
  ASSUME IInv, NEW u \in Caller
  PROVE  /\ IsPlan(View(u)) /\ WellFormed(View(u)) /\ Waiting(View(u))
         /\ DOMAIN View(u) \subseteq made /\ DOMAIN View(u) \subseteq Item
<1>1. CASE u = Lair
  BY <1>1, Facts DEF View, Known, IsPlan
<1>2. CASE u \in Wing
  <2>1. View(u) = view[u]
    BY <1>2, Facts DEF View
  <2> QED
    BY <1>2, <2>1, Facts DEF Known, IsPlan
<1> QED
  BY <1>1, <1>2 DEF Caller

-----------------------------------------------------------------------------
(* Edits. *)

\* An edit that leaves every item in its content.toml.
LEMMA EditKeeps ==
  ASSUME IInv, NEW u \in Caller, NEW e, IsPlan(e), WellFormed(e), Writes(u, e),
         made \subseteq made', made' \subseteq Item, DOMAIN e \subseteq made',
         \A k \in DOMAIN e : k \in DOMAIN View(u) \/ k \notin made,
         \A k \in DOMAIN e \cap DOMAIN View(u) : e[k].dir = View(u)[k].dir,
         stranded \subseteq stranded', stranded' \subseteq Item \X Item,
         \A k \in DOMAIN e : \A j \in e[k].requires : j \in DOMAIN e \/ <<k, j>> \in stranded',
         dirs' \subseteq Item, UNCHANGED <<claims, held>>
  PROVE  IInv'
<1>1. base' = base /\ claims' = claims /\ held' = held
  BY DEF Writes
<1>2. edits' \in 0 .. MaxEdits
  BY Facts, PlanAssumption DEF Writes, TypeOK
<1>3. CASE u = Lair
  <2>1. content' = e /\ view' = view /\ View(u) = content
    BY <1>3 DEF Writes, View
  <2>2. TypeOK'
    BY <1>1, <1>2, <2>1, Facts DEF TypeOK
  <2>3. Known' /\ Forest'
    BY <1>1, <2>1, Facts DEF Known, Forest
  <2>4. Own'
    BY <1>1, <2>1, Facts DEF Own, Known, Added
  <2>5. Standing(claims, held)'
    <3>1. \A w \in Wing : Added(w)' = Added(w)
      BY <1>1, <2>1 DEF Added
    <3>2. \A d, i \in Item : claims[d][i] # Null => i \in made'
      BY Facts DEF Standing
    <3>3. ASSUME NEW h \in held
          PROVE  h[2] \in made' /\ (h[2] \in DOMAIN e => claims[e[h[2]].dir][h[2]] = h[1])
      BY <2>1, Facts DEF Standing
    <3> QED
      BY <1>1, <2>1, <3>1, <3>2, <3>3, Facts DEF Standing
  <2>6. Waiting(content)' /\ \A w \in Wing : Waiting(view[w])'
    BY <2>1, Facts DEF Waiting
  <2> QED
    BY <2>2, <2>3, <2>4, <2>5, <2>6 DEF IInv
<1>4. CASE u \in Wing
  <2>1. /\ content' = content /\ view' = [view EXCEPT ![u] = e] /\ View(u) = view[u]
    BY <1>4, Facts DEF Writes, View
  <2>2. /\ view'[u] = e /\ DOMAIN view' = Wing
        /\ \A w \in Wing \ {u} : view'[w] = view[w]
    BY <1>4, <2>1, Facts DEF TypeOK
  <2>3. TypeOK'
    BY <1>1, <1>2, <2>1, <2>2, Facts DEF TypeOK
  <2>4. Known' /\ Forest'
    BY <1>1, <2>1, <2>2, Facts DEF Known, Forest
  <2>5. /\ \A w \in Wing \ {u} : Added(w)' = Added(w)
        /\ \A i \in Added(u)' : i \in Added(u) \/ i \in DOMAIN e \ made
    BY <1>1, <2>1, <2>2, Facts DEF Added
  <2>6. Own'
    <3>1. ASSUME NEW w \in Wing, NEW i \in DOMAIN view'[w] \cap DOMAIN base[w]
          PROVE  view'[w][i].dir = base[w][i].dir
      <4>1. CASE w = u
        <5>1. i \in made
          BY Facts DEF Known
        <5> QED
          BY <2>1, <2>2, <3>1, <4>1, <5>1, Facts DEF Own
      <4>2. CASE w # u
        BY <2>2, <3>1, <4>2, Facts DEF Own
      <4> QED
        BY <4>1, <4>2
    <3>2. ASSUME NEW w \in Wing, NEW i \in Added(w)'
          PROVE  /\ i \notin DOMAIN content
                 /\ \A v \in Wing \ {w} : i \notin DOMAIN view'[v] \cup DOMAIN base[v]
      <4>1. CASE w = u /\ i \notin made
        BY <2>2, <4>1, Facts DEF Known
      <4>2. CASE i \in Added(w) /\ i \in made
        <5>1. \A v \in Wing : DOMAIN view'[v] \subseteq DOMAIN view[v] \cup (Item \ made)
          BY <2>1, <2>2 DEF IsPlan
        <5> QED
          BY <4>2, <5>1, Facts DEF Own
      <4>3. i \in Added(w) => i \in made
        BY Facts DEF Added, Known
      <4> QED
        BY <2>5, <4>1, <4>2, <4>3
    <3> QED
      BY <1>1, <2>1, <3>1, <3>2 DEF Own
  <2>7. Standing(claims, held)'
    <3>1. /\ \A d, i \in Item : claims[d][i] # Null => i \in made'
          /\ \A h \in held : /\ h[2] \in made'
                             /\ h[2] \in DOMAIN content => claims[content[h[2]].dir][h[2]] = h[1]
      BY Facts DEF Standing
    <3>2. ASSUME NEW w \in Wing, NEW i \in Added(w)'
          PROVE  /\ \A d \in Item : claims[d][i] # Null => d = view'[w][i].dir /\ claims[d][i] = w
                 /\ \A h \in held : h[2] = i => h[1] = w /\ claims[view'[w][i].dir][i] = w
      <4>1. CASE i \notin made
        <5>1. i \in Item
          BY <2>2, <2>5, <4>1, Facts DEF Added, Known, IsPlan
        <5> QED
          BY <4>1, <5>1, Facts DEF Standing
      <4>2. CASE i \in made
        <5>1. i \in Added(w)
          BY <2>5, <4>2
        <5>2. view'[w][i].dir = view[w][i].dir
          BY <2>1, <2>2, <3>2, <5>1 DEF Added
        <5> QED
          BY <5>1, <5>2, Facts DEF Standing
      <4> QED
        BY <4>1, <4>2
    <3> QED
      BY <1>1, <2>1, <3>1, <3>2 DEF Standing
  <2>8. Waiting(content)' /\ \A w \in Wing : Waiting(view[w])'
    BY <2>1, <2>2, Facts DEF Waiting
  <2> QED
    BY <2>3, <2>4, <2>6, <2>7, <2>8 DEF IInv
<1> QED
  BY <1>3, <1>4 DEF Caller

LEMMA AddChildrenKeeps ==
  ASSUME IInv, NEW u \in Caller, AddChildren(u)
  PROVE  IInv'
<1> DEFINE c == View(u)
<1>1. PICK p \in DOMAIN c, i \in Item \ made :
        /\ Writes(u, WithChild(c, p, i))
        /\ made' = made \cup {i}
        /\ UNCHANGED <<dirs, claims, held, stranded>>
  BY DEF AddChildren, ghosts
<1>2. IsPlan(c) /\ WellFormed(c) /\ Waiting(c) /\ DOMAIN c \subseteq made
  BY ViewFacts
<1>3. i \in Item \ DOMAIN c
  BY <1>1, <1>2
<1> DEFINE e == WithChild(c, p, i)
<1>4. /\ IsPlan(e) /\ WellFormed(e)
      /\ DOMAIN e = DOMAIN c \cup {i}
      /\ \A k \in DOMAIN c : e[k].dir = c[k].dir /\ e[k].requires = c[k].requires
      /\ e[i].requires = {}
  BY <1>2, <1>3, ChildOfPlan
<1>5. Writes(u, e)
  BY <1>1
<1> HIDE DEF e
<1>6. \A k \in DOMAIN e : \A j \in e[k].requires : j \in DOMAIN e \/ <<k, j>> \in stranded
  BY <1>2, <1>4 DEF Waiting
<1>7. made \subseteq Item /\ dirs \subseteq Item /\ stranded \subseteq Item \X Item
  BY Facts DEF TypeOK
<1> QED
  BY <1>1, <1>2, <1>3, <1>4, <1>5, <1>6, <1>7, EditKeeps

LEMMA CreateRootKeeps ==
  ASSUME IInv, NEW u \in Caller, CreateRoot(u)
  PROVE  IInv'
<1> DEFINE c == View(u)
<1>1. PICK i \in Item \ made :
        /\ Writes(u, WithRoot(c, i))
        /\ made' = made \cup {i}
        /\ dirs' = IF u = Lair THEN dirs \cup {i} ELSE dirs
        /\ UNCHANGED <<claims, held, stranded>>
  BY DEF CreateRoot, ghosts
<1>2. IsPlan(c) /\ WellFormed(c) /\ Waiting(c) /\ DOMAIN c \subseteq made
  BY ViewFacts
<1>3. i \in Item \ DOMAIN c
  BY <1>1, <1>2
<1> DEFINE e == WithRoot(c, i)
<1>4. /\ IsPlan(e) /\ WellFormed(e)
      /\ DOMAIN e = DOMAIN c \cup {i}
      /\ \A k \in DOMAIN c : e[k].dir = c[k].dir /\ e[k].requires = c[k].requires
      /\ e[i].requires = {}
  BY <1>2, <1>3, RootOfPlan
<1>5. Writes(u, e)
  BY <1>1
<1> HIDE DEF e
<1>6. \A k \in DOMAIN e : \A j \in e[k].requires : j \in DOMAIN e \/ <<k, j>> \in stranded
  BY <1>2, <1>4 DEF Waiting
<1>7. made \subseteq Item /\ dirs \subseteq Item /\ stranded \subseteq Item \X Item
  BY Facts DEF TypeOK
<1>8. dirs' \subseteq Item
  BY <1>1, <1>7
<1> QED
  BY <1>1, <1>2, <1>3, <1>4, <1>5, <1>6, <1>7, <1>8, EditKeeps

LEMMA DeleteSubtreeKeeps ==
  ASSUME IInv, NEW u \in Caller, DeleteSubtree(u)
  PROVE  IInv'
<1> DEFINE c == View(u)
<1>1. PICK i \in DOMAIN c :
        /\ Writes(u, CleanedUp(Deleted(c, i), i))
        /\ stranded' = stranded \cup LeftWaiting(c, i)
        /\ UNCHANGED <<dirs, claims, made, held>>
  BY DEF DeleteSubtree
<1>2. IsPlan(c) /\ WellFormed(c) /\ Waiting(c) /\ DOMAIN c \subseteq made /\ DOMAIN c \subseteq Item
  BY ViewFacts
<1> DEFINE e == CleanedUp(Deleted(c, i), i)
<1>3. /\ IsPlan(e) /\ WellFormed(e)
      /\ DOMAIN e = DOMAIN c \ Gone(c, i)
      /\ \A k \in DOMAIN e : e[k].dir = c[k].dir /\ e[k].requires \subseteq c[k].requires \ {i}
      /\ \A k \in DOMAIN e : c[k].dir = c[i].dir => e[k].requires \cap Gone(c, i) = {}
  BY <1>2, DeletedFromPlan
<1>4. Writes(u, e)
  BY <1>1
<1> HIDE DEF e
<1>5. Gone(c, i) \subseteq DOMAIN c
  BY <1>2, WhatGoes
<1>6. ASSUME NEW k \in DOMAIN e, NEW j \in e[k].requires
      PROVE  j \in DOMAIN e \/ <<k, j>> \in stranded'
  <2>1. k \in DOMAIN c /\ j \in c[k].requires /\ j # i
    BY <1>3, <1>6
  <2>2. CASE j \in Gone(c, i)
    <3>1. c[k].dir # c[i].dir
      BY <1>3, <1>6, <2>2
    <3>2. <<k, j>> \in LeftWaiting(c, i)
      BY <2>1, <2>2, <3>1 DEF LeftWaiting
    <3> QED
      BY <1>1, <3>2
  <2>3. CASE j \notin Gone(c, i)
    BY <1>1, <1>2, <1>3, <2>1, <2>3 DEF Waiting
  <2> QED
    BY <2>2, <2>3
<1>7. made \subseteq Item /\ dirs \subseteq Item /\ stranded \subseteq Item \X Item
  BY Facts DEF TypeOK
<1>8. stranded \subseteq stranded' /\ stranded' \subseteq Item \X Item
  BY <1>1, <1>2, <1>5, <1>7 DEF LeftWaiting
<1> QED
  BY <1>1, <1>2, <1>3, <1>4, <1>6, <1>7, <1>8, EditKeeps

LEMMA UpdateItemKeeps ==
  ASSUME IInv, NEW u \in Caller, UpdateItem(u)
  PROVE  IInv'
<1> DEFINE c == View(u)
<1>1. PICK i \in DOMAIN c, R \in SUBSET Item :
        /\ Writes(u, [c EXCEPT ![i].requires = R])
        /\ stranded' = stranded \cup ({i} \X (R \ DOMAIN c))
        /\ UNCHANGED <<dirs, claims, made, held>>
  BY DEF UpdateItem
<1>2. IsPlan(c) /\ WellFormed(c) /\ Waiting(c) /\ DOMAIN c \subseteq made /\ DOMAIN c \subseteq Item
  BY ViewFacts
<1> DEFINE r == [c[i] EXCEPT !.requires = R]
           e == [c EXCEPT ![i] = r]
<1>3. c[i] \in Entry
  BY <1>2 DEF IsPlan
<1>4. /\ r \in Entry /\ r.dir = c[i].dir /\ r.parent = c[i].parent /\ r.children = c[i].children
      /\ r.requires = R
  BY <1>3 DEF Entry
<1>5. Writes(u, e)
  BY <1>1
<1> HIDE DEF r
<1>6. /\ IsPlan(e) /\ DOMAIN e = DOMAIN c
      /\ \A k \in DOMAIN c : e[k] = IF k = i THEN r ELSE c[k]
  BY <1>2, <1>4 DEF IsPlan
<1> HIDE DEF e
<1>7. \A k \in DOMAIN c : /\ e[k].dir = c[k].dir /\ e[k].parent = c[k].parent
                          /\ e[k].children = c[k].children
  BY <1>4, <1>6
<1>8. WellFormed(e)
  BY <1>2, <1>6, <1>7, OnlyRequires
<1>9. ASSUME NEW k \in DOMAIN e, NEW j \in e[k].requires
      PROVE  j \in DOMAIN e \/ <<k, j>> \in stranded'
  <2>1. CASE k = i
    BY <1>1, <1>4, <1>6, <1>9, <2>1
  <2>2. CASE k # i
    BY <1>1, <1>2, <1>6, <1>9, <2>2 DEF Waiting
  <2> QED
    BY <2>1, <2>2
<1>10. made \subseteq Item /\ dirs \subseteq Item /\ stranded \subseteq Item \X Item
  BY Facts DEF TypeOK
<1>11. stranded \subseteq stranded' /\ stranded' \subseteq Item \X Item
  BY <1>1, <1>2, <1>10
<1> QED
  BY <1>1, <1>2, <1>5, <1>6, <1>7, <1>8, <1>9, <1>10, <1>11, EditKeeps

\* Moves within a root change no record and no directory.
LEMMA MoveNodeKeeps ==
  ASSUME IInv, NEW u \in Caller, MoveNode(u)
  PROVE  IInv'
<1> DEFINE c == View(u)
<1>1. PICK i \in DOMAIN c, p \in DOMAIN c \cup {Null} :
        /\ MayMove(c, i, p)
        /\ Across(c, i, p) => u = Lair
        /\ Writes(u, Moved(c, i, p))
        /\ dirs' = (IF c[i].dir = i THEN dirs \ {i} ELSE dirs) \cup (IF p = Null THEN {i} ELSE {})
        /\ claims' = IF c[i].dir = i THEN [claims EXCEPT ![i] = [j \in Item |-> Null]]
                                     ELSE claims
        /\ held' = {h \in held : ~ LeftBehind(c, i, p, h)}
        /\ UNCHANGED <<made, stranded>>
  BY DEF MoveNode
<1>2. IsPlan(c) /\ WellFormed(c) /\ Waiting(c) /\ DOMAIN c \subseteq made /\ DOMAIN c \subseteq Item
  BY ViewFacts
<1> DEFINE e == Moved(c, i, p)
<1>3. /\ IsPlan(e) /\ WellFormed(e) /\ DOMAIN e = DOMAIN c
      /\ \A k \in DOMAIN c :
           /\ k \notin Below(c, i) \/ ~ Across(c, i, p) => e[k].dir = c[k].dir
           /\ e[k].requires = c[k].requires
  BY <1>1, <1>2, MovedInPlan
<1>4. Writes(u, e)
  BY <1>1
<1> HIDE DEF e
<1>5. \A k \in DOMAIN e : \A j \in e[k].requires : j \in DOMAIN e \/ <<k, j>> \in stranded
  BY <1>2, <1>3 DEF Waiting
<1>6. made \subseteq Item /\ dirs \subseteq Item /\ stranded \subseteq Item \X Item
  BY Facts DEF TypeOK
<1>7. dirs' \subseteq Item
  BY <1>1, <1>2, <1>6
<1>8. CASE ~ Across(c, i, p)
  <2>1. p \in DOMAIN c /\ c[p].dir = c[i].dir /\ p # Null
    BY <1>1, <1>8 DEF Across
  <2>2. c[i].dir # i
    BY <1>1, <1>2, <2>1, Roots DEF MayMove
  <2>3. held' = held
    BY <1>1, <1>8, <2>2 DEF LeftBehind
  <2> QED
    BY <1>1, <1>2, <1>3, <1>4, <1>5, <1>6, <1>7, <1>8, <2>2, <2>3, EditKeeps
<1>9. CASE Across(c, i, p)
  <2>1. c = content /\ content' = e /\ view' = view /\ base' = base
    BY <1>1, <1>4, <1>9 DEF View, Writes
  <2>2. /\ claims' \in [Item -> [Item -> Caller \cup {Null}]]
        /\ \A d, j \in Item : claims'[d][j] # Null => claims'[d][j] = claims[d][j]
        /\ \A d, j \in Item : d # i \/ c[i].dir # i => claims'[d][j] = claims[d][j]
    BY <1>1, <1>2, Facts
  <2>3. /\ held' \subseteq held
        /\ \A h \in held' : /\ h[2] \notin Below(c, i)
                            /\ c[i].dir # i \/ claims[i][h[2]] # h[1]
    BY <1>1, <1>9 DEF LeftBehind
  <2>4. edits' \in 0 .. MaxEdits
    BY <1>4, Facts, PlanAssumption DEF Writes, TypeOK
  <2>5. TypeOK'
    BY <1>1, <1>3, <1>7, <2>1, <2>2, <2>3, <2>4, Facts DEF TypeOK
  <2>6. \A w \in Wing : Added(w)' = Added(w)
    BY <2>1 DEF Added
  <2>7. Known' /\ Forest' /\ Own'
    BY <1>1, <1>3, <2>1, <2>6, Facts DEF Known, Forest, Own
  <2>8. Standing(claims, held)'
    <3>1. \A h \in held : h[1] \in Caller /\ h[2] \in Item
      BY Facts
    <3>2. \A d, j \in Item : claims'[d][j] # Null => j \in made'
      BY <1>1, <2>2, Facts DEF Standing
    <3>3. ASSUME NEW h \in held'
          PROVE  /\ h[2] \in made'
                 /\ h[2] \in DOMAIN e => claims'[e[h[2]].dir][h[2]] = h[1]
      <4>1. h \in held /\ h[2] \in made'
        BY <1>1, <2>3, Facts DEF Standing
      <4>2. ASSUME h[2] \in DOMAIN e
            PROVE  claims'[e[h[2]].dir][h[2]] = h[1]
        <5>1. e[h[2]].dir = c[h[2]].dir /\ claims[c[h[2]].dir][h[2]] = h[1]
          BY <1>3, <2>1, <2>3, <4>1, <4>2, Facts DEF Standing
        <5>2. c[h[2]].dir \in Item
          BY <1>2, <1>3, <4>2 DEF IsPlan, Entry
        <5>3. c[h[2]].dir # i \/ c[i].dir # i
          BY <2>3, <5>1
        <5> QED
          BY <2>2, <3>1, <4>1, <5>1, <5>2, <5>3
      <4> QED
        BY <4>1, <4>2
    <3>4. ASSUME NEW w \in Wing, NEW j \in Added(w)
          PROVE  /\ \A d \in Item : claims'[d][j] # Null => d = view[w][j].dir /\ claims'[d][j] = w
                 /\ \A h \in held' : h[2] = j => h[1] = w /\ claims'[view[w][j].dir][j] = w
      <4>1. j \in Item /\ view[w][j].dir \in Item
        BY Facts DEF Added, IsPlan, Entry
      <4>2. \A d \in Item : claims'[d][j] # Null => d = view[w][j].dir /\ claims'[d][j] = w
        BY <2>2, <4>1, Facts DEF Standing
      <4>3. ASSUME NEW h \in held', h[2] = j
            PROVE  h[1] = w /\ claims'[view[w][j].dir][j] = w
        <5>1. h[1] = w /\ claims[view[w][j].dir][j] = w
          BY <2>3, <4>3, Facts DEF Standing
        <5>2. view[w][j].dir # i \/ c[i].dir # i
          BY <2>3, <4>3, <5>1
        <5> QED
          BY <2>2, <4>1, <5>1, <5>2
      <4> QED
        BY <4>2, <4>3
    <3> QED
      BY <2>1, <2>6, <3>2, <3>3, <3>4 DEF Standing
  <2>9. Waiting(content)' /\ \A w \in Wing : Waiting(view[w])'
    BY <1>1, <1>5, <2>1, Facts DEF Waiting
  <2> QED
    BY <2>5, <2>7, <2>8, <2>9 DEF IInv
<1> QED
  BY <1>8, <1>9

-----------------------------------------------------------------------------
(* Wings. *)

LEMMA StartKeeps ==
  ASSUME IInv, NEW w \in Wing, Start(w)
  PROVE  IInv'
<1>1. /\ view' = [view EXCEPT ![w] = content] /\ base' = [base EXCEPT ![w] = content]
      /\ UNCHANGED <<content, dirs, claims, made, edits, held, stranded>>
  BY DEF Start, ghosts
<1>2. /\ DOMAIN view' = Wing /\ DOMAIN base' = Wing
      /\ view'[w] = content /\ base'[w] = content
      /\ \A v \in Wing \ {w} : view'[v] = view[v] /\ base'[v] = base[v]
  BY <1>1, Facts DEF TypeOK
<1>3. Added(w)' = {} /\ \A v \in Wing \ {w} : Added(v)' = Added(v)
  BY <1>2 DEF Added
<1>4. TypeOK' /\ Known' /\ Forest'
  BY <1>1, <1>2, Facts DEF TypeOK, Known, Forest
<1>5. Own'
  <2>1. ASSUME NEW v \in Wing, v # w
        PROVE  /\ \A i \in DOMAIN view[v] \cap DOMAIN base[v] : view[v][i].dir = base[v][i].dir
               /\ \A i \in Added(v) :
                    /\ i \notin DOMAIN content
                    /\ \A x \in Wing \ {v} : i \notin DOMAIN view'[x] \cup DOMAIN base'[x]
    BY <1>2, <2>1, Facts DEF Own
  <2> QED
    BY <1>1, <1>2, <1>3, <2>1 DEF Own
<1>6. Standing(claims, held)'
  BY <1>1, <1>2, <1>3, Facts DEF Standing
<1>7. Waiting(content)' /\ \A v \in Wing : Waiting(view[v])'
  BY <1>1, <1>2, Facts DEF Waiting
<1> QED
  BY <1>4, <1>5, <1>6, <1>7 DEF IInv

\* What the wing has added is where its records are.
LEMMA MergeKeeps ==
  ASSUME IInv, NEW w \in Wing, Merge(w)
  PROVE  IInv'
<1>1. /\ base[w] = content /\ content' = view[w] /\ base' = [base EXCEPT ![w] = view[w]]
      /\ dirs' = dirs \cup {view[w][i].dir : i \in DOMAIN view[w]}
      /\ UNCHANGED <<claims, view, made, edits, held, stranded>>
  BY DEF Merge, ghosts
<1>2. /\ DOMAIN base' = Wing /\ base'[w] = view[w]
      /\ \A v \in Wing \ {w} : base'[v] = base[v]
  BY <1>1, Facts DEF TypeOK
<1>3. Added(w)' = {} /\ \A v \in Wing \ {w} : Added(v)' = Added(v)
  BY <1>1, <1>2 DEF Added
<1>4. TypeOK'
  <2>1. \A i \in DOMAIN view[w] : view[w][i].dir \in Item
    BY Facts DEF IsPlan, Entry
  <2>2. dirs' \subseteq Item
    BY <1>1, <2>1, Facts DEF TypeOK
  <2> QED
    BY <1>1, <1>2, <2>2, Facts DEF TypeOK
<1>5. Known' /\ Forest'
  BY <1>1, <1>2, Facts DEF Known, Forest
<1>6. Own'
  <2>1. ASSUME NEW v \in Wing, v # w
        PROVE  /\ \A i \in DOMAIN view[v] \cap DOMAIN base[v] : view[v][i].dir = base[v][i].dir
               /\ \A i \in Added(v) :
                    /\ i \notin DOMAIN view[w]
                    /\ \A x \in Wing \ {v} : i \notin DOMAIN view[x] \cup DOMAIN base'[x]
    BY <1>2, <2>1, Facts DEF Own
  <2> QED
    BY <1>1, <1>2, <1>3, <2>1 DEF Own
<1>7. Standing(claims, held)'
  <2>1. ASSUME NEW h \in held, h[2] \in DOMAIN view[w]
        PROVE  claims[view[w][h[2]].dir][h[2]] = h[1]
    <3>1. CASE h[2] \in DOMAIN base[w]
      <4>1. view[w][h[2]].dir = content[h[2]].dir
        BY <1>1, <2>1, <3>1, Facts DEF Own
      <4> QED
        BY <1>1, <3>1, <4>1, Facts DEF Standing
    <3>2. CASE h[2] \in Added(w)
      BY <3>2, Facts DEF Standing
    <3> QED
      BY <2>1, <3>1, <3>2 DEF Added
  <2> QED
    BY <1>1, <1>3, <2>1, Facts DEF Standing
<1>8. Waiting(content)' /\ \A v \in Wing : Waiting(view[v])'
  BY <1>1, Facts DEF Waiting
<1> QED
  BY <1>4, <1>5, <1>6, <1>7, <1>8 DEF IInv

LEMMA VanishKeeps ==
  ASSUME IInv, NEW w \in Wing, Vanish(w)
  PROVE  IInv'
<1>1. /\ view' = [view EXCEPT ![w] = NoPlan] /\ base' = [base EXCEPT ![w] = NoPlan]
      /\ held' = {h \in held : h[1] # w}
      /\ UNCHANGED <<content, dirs, claims, made, edits, stranded>>
  BY DEF Vanish
<1>2. /\ DOMAIN view' = Wing /\ DOMAIN base' = Wing
      /\ view'[w] = NoPlan /\ base'[w] = NoPlan
      /\ \A v \in Wing \ {w} : view'[v] = view[v] /\ base'[v] = base[v]
  BY <1>1, Facts DEF TypeOK
<1>3. DOMAIN NoPlan = {} /\ IsPlan(NoPlan) /\ WellFormed(NoPlan)
  BY DEF NoPlan, IsPlan, WellFormed
<1>4. Added(w)' = {} /\ \A v \in Wing \ {w} : Added(v)' = Added(v)
  BY <1>2 DEF Added
<1>5. TypeOK' /\ Known' /\ Forest'
  BY <1>1, <1>2, <1>3, Facts DEF TypeOK, Known, Forest
<1>6. Own'
  <2>1. ASSUME NEW v \in Wing, v # w
        PROVE  /\ \A i \in DOMAIN view[v] \cap DOMAIN base[v] : view[v][i].dir = base[v][i].dir
               /\ \A i \in Added(v) :
                    /\ i \notin DOMAIN content
                    /\ \A x \in Wing \ {v} : i \notin DOMAIN view'[x] \cup DOMAIN base'[x]
    BY <1>2, <1>3, <2>1, Facts DEF Own
  <2> QED
    BY <1>1, <1>2, <1>3, <1>4, <2>1 DEF Own
<1>7. Standing(claims, held)'
  BY <1>1, <1>2, <1>4, Facts DEF Standing
<1>8. Waiting(content)' /\ \A v \in Wing : Waiting(view[v])'
  BY <1>1, <1>2, <1>3, Facts DEF Waiting
<1> QED
  BY <1>5, <1>6, <1>7, <1>8 DEF IInv

-----------------------------------------------------------------------------
(* Claims. *)

\* An item with a claim is on the trunk.
LEMMA ClaimedIsThere ==
  ASSUME IInv, NEW i, ClaimedBy(i) # Null
  PROVE  i \in DOMAIN content /\ ClaimedBy(i) = claims[content[i].dir][i]
BY DEF ClaimedBy

\* Clearing loses what is held of the items that are cleared, only.
LEMMA ClearedStands ==
  ASSUME IInv, NEW cl \in [Item -> [Item -> Caller \cup {Null}]],
         NEW hs \in SUBSET (Caller \X Item), Standing(cl, hs),
         NEW items \in SUBSET DOMAIN content,
         NEW rest \in SUBSET hs, \A h \in rest : h[2] \notin items
  PROVE  /\ Cleared(cl, items) \in [Item -> [Item -> Caller \cup {Null}]]
         /\ Standing(Cleared(cl, items), rest)
<1> DEFINE new == Cleared(cl, items)
<1>1. /\ new \in [Item -> [Item -> Caller \cup {Null}]]
      /\ \A d, i \in Item : new[d][i] # Null => new[d][i] = cl[d][i]
      /\ \A d, i \in Item : i \notin items => new[d][i] = cl[d][i]
  BY DEF Cleared
<1> HIDE DEF new
<1>2. /\ \A i \in DOMAIN content : i \in Item /\ content[i].dir \in Item
      /\ \A w \in Wing : \A i \in DOMAIN view[w] : i \in Item /\ view[w][i].dir \in Item
  BY Facts DEF IsPlan, Entry
<1>3. \A w \in Wing : \A i \in Added(w) : i \notin items
  BY Facts DEF Own
<1>4. \A h \in hs : h[2] \in Item
  OBVIOUS
<1>5. \A d, i \in Item : new[d][i] # Null => i \in made
  BY <1>1 DEF Standing
<1>6. ASSUME NEW h \in rest
      PROVE  h[2] \in made /\ (h[2] \in DOMAIN content => new[content[h[2]].dir][h[2]] = h[1])
  BY <1>1, <1>2, <1>4 DEF Standing
<1>7. ASSUME NEW w \in Wing, NEW i \in Added(w)
      PROVE  /\ \A d \in Item : new[d][i] # Null => d = view[w][i].dir /\ new[d][i] = w
             /\ \A h \in rest : h[2] = i => h[1] = w /\ new[view[w][i].dir][i] = w
  BY <1>1, <1>2, <1>3 DEF Standing, Added
<1>8. Standing(new, rest)
  BY <1>5, <1>6, <1>7 DEF Standing
<1> QED
  BY <1>1, <1>8 DEF new

\* A claim of an item that nobody has a claim of is found where the trunk has
\* the item, or where its wing will have put it.
LEMMA ClaimStandsToo ==
  ASSUME IInv, NEW cl \in [Item -> [Item -> Caller \cup {Null}]],
         NEW hs \in SUBSET (Caller \X Item), Standing(cl, hs),
         NEW u \in Caller, NEW i \in DOMAIN View(u), NEW d \in ClaimRoot(i, View(u)[i].dir),
         i \in DOMAIN content => cl[content[i].dir][i] = Null
  PROVE  /\ SetClaim(cl, d, i, u) \in [Item -> [Item -> Caller \cup {Null}]]
         /\ Standing(SetClaim(cl, d, i, u), hs \cup {<<u, i>>})
<1> DEFINE new == SetClaim(cl, d, i, u)
<1>1. i \in Item /\ i \in made
  BY ViewFacts
<1>2. /\ \A k \in DOMAIN content : k \in Item /\ content[k].dir \in Item
      /\ \A w \in Wing : \A k \in DOMAIN view[w] : k \in Item /\ view[w][k].dir \in Item
  BY Facts DEF IsPlan, Entry
<1>3. d \in Item
  BY <1>2, Facts DEF ClaimRoot, TypeOK
<1>4. /\ new \in [Item -> [Item -> Caller \cup {Null}]]
      /\ \A e, k \in Item : new[e][k] = IF e = d /\ k = i THEN u ELSE cl[e][k]
  <2> DEFINE row == [cl[d] EXCEPT ![i] = u]
  <2>1. /\ row \in [Item -> Caller \cup {Null}]
        /\ \A k \in Item : row[k] = IF k = i THEN u ELSE cl[d][k]
    BY <1>1, <1>3
  <2>2. new = [cl EXCEPT ![d] = row]
    BY DEF SetClaim
  <2> HIDE DEF row, new
  <2> QED
    BY <1>3, <2>1, <2>2
<1> HIDE DEF new
<1>5. u # Null
  BY Facts
<1>6. i \in DOMAIN content => d = content[i].dir
  BY DEF ClaimRoot
<1>7. i \notin DOMAIN content => u \in Wing /\ i \in DOMAIN view[u]
  BY Facts DEF View, Caller
<1>8. \A w \in Wing : i \in Added(w) => w = u /\ i \notin DOMAIN content
  BY <1>7, Facts DEF Own
<1>9. i \notin DOMAIN content /\ u \in Wing /\ i \in Added(u) => d = view[u][i].dir
  <2>1. i \notin DOMAIN content /\ u \in Wing /\ i \in Added(u) =>
          /\ View(u) = view[u]
          /\ \A e \in Item : claims[e][i] # Null => e = view[u][i].dir
    BY <1>1, Facts DEF View, Standing
  <2>2. i \notin DOMAIN content => d = View(u)[i].dir \/ claims[d][i] # Null
    BY DEF ClaimRoot
  <2> QED
    BY <1>3, <2>1, <2>2
<1>10. \A e, k \in Item : new[e][k] # Null => k \in made
  BY <1>1, <1>4 DEF Standing
<1>11. ASSUME NEW h \in hs \cup {<<u, i>>}
       PROVE  h[2] \in made /\ (h[2] \in DOMAIN content => new[content[h[2]].dir][h[2]] = h[1])
  <2>1. CASE h = <<u, i>>
    BY <1>1, <1>2, <1>3, <1>4, <1>6, <2>1
  <2>2. CASE h \in hs
    <3>1. h[1] \in Caller /\ h[2] \in Item /\ h[1] # Null
      BY <2>2, Facts
    <3>2. h[2] \in made /\ (h[2] \in DOMAIN content => cl[content[h[2]].dir][h[2]] = h[1])
      BY <2>2 DEF Standing
    <3>3. h[2] \in DOMAIN content => h[2] # i
      BY <3>1, <3>2
    <3> QED
      BY <1>2, <1>4, <3>1, <3>2, <3>3
  <2> QED
    BY <1>11, <2>1, <2>2
<1>12. ASSUME NEW w \in Wing, NEW k \in Added(w)
       PROVE  /\ \A e \in Item : new[e][k] # Null => e = view[w][k].dir /\ new[e][k] = w
              /\ \A h \in hs \cup {<<u, i>>} : h[2] = k => h[1] = w /\ new[view[w][k].dir][k] = w
  <2>1. k \in Item /\ view[w][k].dir \in Item
    BY <1>2 DEF Added
  <2>2. /\ \A e \in Item : cl[e][k] # Null => e = view[w][k].dir /\ cl[e][k] = w
        /\ \A h \in hs : h[2] = k => h[1] = w /\ cl[view[w][k].dir][k] = w
    BY DEF Standing
  <2>3. CASE k # i
    BY <1>4, <2>1, <2>2, <2>3
  <2>4. CASE k = i
    <3>1. w = u /\ d = view[w][k].dir
      BY <1>8, <1>9, <2>4
    <3> QED
      BY <1>1, <1>3, <1>4, <2>2, <2>4, <3>1
  <2> QED
    BY <2>3, <2>4
<1>13. Standing(new, hs \cup {<<u, i>>})
  BY <1>10, <1>11, <1>12 DEF Standing
<1> QED
  BY <1>4, <1>13 DEF new

\* The sweep loses no record that is found some day.
LEMMA RecordsKeep ==
  ASSUME IInv, NEW cl \in [Item -> [Item -> Caller \cup {Null}]],
         NEW hs \in SUBSET (Caller \X Item), Standing(cl, hs), Records(cl), held' \subseteq hs
  PROVE  IInv'
<1>1. PICK unsure \in {{}, Wing} : claims' = Pruned(cl, unsure)
  BY DEF Records
<1>2. UNCHANGED <<content, dirs, view, base, made, edits, stranded>>
  BY DEF Records, copies
<1>3. /\ claims' \in [Item -> [Item -> Caller \cup {Null}]]
      /\ \A d, i \in Item : claims'[d][i] # Null => claims'[d][i] = cl[d][i]
      /\ \A d, i \in Item : (i \in DOMAIN content /\ content[i].dir = d) \/ StillHas(cl[d][i], i, unsure)
                              => claims'[d][i] = cl[d][i]
  BY <1>1 DEF Pruned
<1>4. /\ \A i \in DOMAIN content : i \in Item /\ content[i].dir \in Item
      /\ \A w \in Wing : \A i \in DOMAIN view[w] : i \in Item /\ view[w][i].dir \in Item
  BY Facts DEF IsPlan, Entry
<1>5. \A d, i \in Item : claims'[d][i] # Null => i \in made
  BY <1>3 DEF Standing
<1>6. ASSUME NEW h \in hs
      PROVE  h[2] \in made /\ (h[2] \in DOMAIN content => claims'[content[h[2]].dir][h[2]] = h[1])
  BY <1>3, <1>4 DEF Standing
<1>7. ASSUME NEW w \in Wing, NEW i \in Added(w)
      PROVE  /\ \A d \in Item : claims'[d][i] # Null => d = view[w][i].dir /\ claims'[d][i] = w
             /\ \A h \in hs : h[2] = i => h[1] = w /\ claims'[view[w][i].dir][i] = w
  <2>1. i \in Item /\ view[w][i].dir \in Item /\ i \in DOMAIN view[w]
    BY <1>4 DEF Added
  <2>2. /\ \A d \in Item : cl[d][i] # Null => d = view[w][i].dir /\ cl[d][i] = w
        /\ \A h \in hs : h[2] = i => h[1] = w /\ cl[view[w][i].dir][i] = w
    BY DEF Standing
  <2>3. StillHas(w, i, unsure)
    BY <2>1 DEF StillHas
  <2>4. \A d \in Item : claims'[d][i] # Null => d = view[w][i].dir /\ claims'[d][i] = w
    BY <1>3, <2>1, <2>2
  <2>5. cl[view[w][i].dir][i] = w => claims'[view[w][i].dir][i] = w
    BY <1>3, <2>1, <2>3
  <2> QED
    BY <2>2, <2>4, <2>5
<1>8. Standing(claims, held)'
  <2>1. \A w \in Wing : Added(w)' = Added(w)
    BY <1>2 DEF Added
  <2> QED
    BY <1>2, <1>5, <1>6, <1>7, <2>1 DEF Standing
<1>9. TypeOK'
  BY <1>2, <1>3, Facts DEF TypeOK
<1>10. Known' /\ Forest' /\ Own'
  BY <1>2, Facts DEF Known, Forest, Own, Added
<1>11. Waiting(content)' /\ \A w \in Wing : Waiting(view[w])'
  BY <1>2, Facts DEF Waiting
<1> QED
  BY <1>8, <1>9, <1>10, <1>11 DEF IInv

LEMMA ClaimNodeKeeps ==
  ASSUME IInv, NEW u \in Caller, ClaimNode(u)
  PROVE  IInv'
<1>1. PICK i \in DOMAIN View(u) :
        /\ ClaimedBy(i) = Null
        /\ \E d \in ClaimRoot(i, View(u)[i].dir) : Records(SetClaim(claims, d, i, u))
        /\ held' = held \cup {<<u, i>>}
  BY DEF ClaimNode, NotClaimed
<1>2. PICK d \in ClaimRoot(i, View(u)[i].dir) : Records(SetClaim(claims, d, i, u))
  BY <1>1
<1>3. i \in DOMAIN content => claims[content[i].dir][i] = Null
  BY <1>1 DEF ClaimedBy
<1>4. held \cup {<<u, i>>} \subseteq Caller \X Item
  BY Facts, ViewFacts
<1>5. /\ SetClaim(claims, d, i, u) \in [Item -> [Item -> Caller \cup {Null}]]
      /\ Standing(SetClaim(claims, d, i, u), held \cup {<<u, i>>})
  BY <1>3, Facts, ClaimStandsToo
<1> QED
  BY <1>1, <1>2, <1>4, <1>5, RecordsKeep

LEMMA UnclaimNodeKeeps ==
  ASSUME IInv, NEW u \in Caller, UnclaimNode(u)
  PROVE  IInv'
<1>1. PICK i \in DOMAIN content :
        ClaimedBy(i) = u /\ Records(Cleared(claims, {i})) /\ held' = held \ {<<u, i>>}
  BY DEF UnclaimNode
<1> DEFINE hs == {h \in held : h[2] \notin {i}}
<1>2. hs \in SUBSET held /\ {i} \in SUBSET DOMAIN content
  OBVIOUS
<1>3. /\ Cleared(claims, {i}) \in [Item -> [Item -> Caller \cup {Null}]]
      /\ Standing(Cleared(claims, {i}), hs)
  <2>1. \A h \in hs : h[2] \notin {i}
    OBVIOUS
  <2> HIDE DEF hs
  <2> QED
    BY <1>2, <2>1, Facts, ClearedStands
<1>4. ASSUME NEW h \in held'
      PROVE  h \in hs
  <2>1. h \in held /\ h # <<u, i>> /\ h = <<h[1], h[2]>>
    BY <1>1, Facts
  <2>2. h[2] = i => h[1] = u
    BY <1>1, <2>1, Facts DEF Standing, ClaimedBy
  <2> QED
    BY <2>1, <2>2
<1>5. hs \subseteq Caller \X Item
  BY Facts
<1> QED
  BY <1>1, <1>3, <1>4, <1>5, RecordsKeep

\* claim-leaf clears records of items that are on the trunk, and says so to
\* those who held them.
LEMMA ClaimLeafKeeps ==
  ASSUME IInv, NEW u \in Caller, NEW g \in Item, ClaimLeaf(u, g)
  PROVE  IInv'
<1> DEFINE healed == Cleared(claims, Abandoned(u, g))
           others == {h \in held : h[2] \notin Abandoned(u, g)}
           more == OwnLeaves(u, g)
<1>1. Abandoned(u, g) \in SUBSET DOMAIN content
  BY ClaimedIsThere DEF Abandoned
<1>2. more \subseteq DOMAIN content /\ \A i \in more : ClaimedBy(i) = u
  BY Facts, ClaimedIsThere DEF OwnLeaves
<1>3. /\ healed \in [Item -> [Item -> Caller \cup {Null}]]
      /\ Standing(healed, others)
      /\ others \in SUBSET (Caller \X Item)
  <2>1. others \in SUBSET held /\ \A h \in others : h[2] \notin Abandoned(u, g)
    OBVIOUS
  <2> HIDE DEF others
  <2> QED
    BY <1>1, <2>1, Facts, ClearedStands
<1>4. ASSUME NEW kept \in more, Records(Cleared(healed, more \ {kept})),
             held' = {h \in others : h[1] = u => h[2] \notin more \ {kept}}
      PROVE  IInv'
  <2> DEFINE hs == {h \in others : h[2] \notin more \ {kept}}
  <2>1. /\ Cleared(healed, more \ {kept}) \in [Item -> [Item -> Caller \cup {Null}]]
        /\ Standing(Cleared(healed, more \ {kept}), hs)
    <3>1. more \ {kept} \in SUBSET DOMAIN content
      BY <1>2
    <3>2. hs \in SUBSET others /\ \A h \in hs : h[2] \notin more \ {kept}
      OBVIOUS
    <3> HIDE DEF healed, others, more, hs
    <3> QED
      BY <1>3, <3>1, <3>2, ClearedStands
  <2>2. \A h \in held : h[2] \in more => h[1] = u
    BY <1>2, Facts DEF Standing, ClaimedBy
  <2>3. held' \subseteq hs /\ hs \in SUBSET (Caller \X Item)
    BY <1>3, <1>4, <2>2
  <2> HIDE DEF healed, others, more, hs
  <2> QED
    BY <1>4, <2>1, <2>3, RecordsKeep
<1>5. ASSUME NEW i \in Candidates(u, g), NEW d \in ClaimRoot(i, View(u)[i].dir),
             Records(SetClaim(healed, d, i, u)), held' = others \cup {<<u, i>>}
      PROVE  IInv'
  <2>1. i \in DOMAIN View(u) /\ ClaimedBy(i) = Null
    BY DEF Candidates, Leaves, Expanded
  <2>2. i \in DOMAIN content => healed[content[i].dir][i] = Null
    <3>1. i \in DOMAIN content => /\ i \in Item /\ content[i].dir \in Item
                                  /\ claims[content[i].dir][i] = Null
      BY <2>1, Facts DEF ClaimedBy, IsPlan, Entry
    <3> QED
      BY <3>1 DEF Cleared
  <2> HIDE DEF healed, others
  <2>3. /\ SetClaim(healed, d, i, u) \in [Item -> [Item -> Caller \cup {Null}]]
        /\ Standing(SetClaim(healed, d, i, u), others \cup {<<u, i>>})
    BY <1>3, <2>1, <2>2, ClaimStandsToo
  <2>4. others \cup {<<u, i>>} \in SUBSET (Caller \X Item)
    BY <1>3, <2>1, ViewFacts
  <2> QED
    BY <1>5, <2>3, <2>4, RecordsKeep
<1> QED
  BY <1>4, <1>5 DEF ClaimLeaf

-----------------------------------------------------------------------------
(* The theorems. *)

LEMMA InitSound ==
  ASSUME Init
  PROVE  IInv
<1>1. /\ content = FirstPlan /\ made = DOMAIN FirstPlan /\ edits = 0 /\ held = {} /\ stranded = {}
      /\ dirs = {FirstPlan[i].dir : i \in DOMAIN FirstPlan}
      /\ view = [w \in Wing |-> FirstPlan] /\ base = [w \in Wing |-> FirstPlan]
      /\ claims = [d \in Item |-> [i \in Item |-> Null]]
  BY DEF Init
<1>2. /\ IsPlan(FirstPlan) /\ WellFormed(FirstPlan)
      /\ \A i \in DOMAIN FirstPlan : FirstPlan[i].requires \subseteq DOMAIN FirstPlan
  BY FirstPlanAssumption
<1>3. \A w \in Wing : view[w] = FirstPlan /\ base[w] = FirstPlan /\ Added(w) = {}
  BY <1>1 DEF Added
<1>4. TypeOK
  <2>1. made \subseteq Item /\ dirs \subseteq Item
    BY <1>1, <1>2 DEF IsPlan, Entry
  <2>2. claims \in [Item -> [Item -> Caller \cup {Null}]]
    BY <1>1
  <2>3. edits \in 0 .. MaxEdits
    BY <1>1, PlanAssumption
  <2> QED
    BY <1>1, <1>2, <1>3, <2>1, <2>2, <2>3 DEF TypeOK
<1>5. Known /\ Forest /\ Own
  BY <1>1, <1>2, <1>3 DEF Known, Forest, Own
<1>6. Standing(claims, held)
  BY <1>1, <1>3 DEF Standing
<1>7. Waiting(content) /\ \A w \in Wing : Waiting(view[w])
  BY <1>1, <1>2, <1>3 DEF Waiting
<1> QED
  BY <1>4, <1>5, <1>6, <1>7 DEF IInv

LEMMA StutterKeeps ==
  ASSUME IInv, UNCHANGED vars
  PROVE  IInv'
<1>1. UNCHANGED <<content, dirs, claims, view, base, made, edits, held, stranded>>
  BY DEF vars, copies, ghosts
<1>2. \A w \in Wing : Added(w)' = Added(w)
  BY <1>1 DEF Added
<1>3. TypeOK' /\ Known' /\ Forest' /\ Own'
  BY <1>1, <1>2, Facts DEF TypeOK, Known, Forest, Own
<1>4. Standing(claims, held)' /\ Waiting(content)' /\ \A w \in Wing : Waiting(view[w])'
  BY <1>1, <1>2, Facts DEF Standing, Waiting
<1> QED
  BY <1>3, <1>4 DEF IInv

\* The shape of every plan, whose an item is that the trunk does not have yet,
\* which records stand, and who waits for what is not there, in every state.
THEOREM Invariance == Spec => []IInv
<1>1. Init => IInv
  BY InitSound
<1>2. IInv /\ [Next]_vars => IInv'
  <2> SUFFICES ASSUME IInv, [Next]_vars
               PROVE  IInv'
    OBVIOUS
  <2>1. ASSUME NEW u \in Caller, \/ AddChildren(u) \/ CreateRoot(u) \/ DeleteSubtree(u)
                                 \/ UpdateItem(u) \/ MoveNode(u)
        PROVE  IInv'
    BY <2>1, AddChildrenKeeps, CreateRootKeeps, DeleteSubtreeKeeps, UpdateItemKeeps, MoveNodeKeeps
  <2>2. ASSUME NEW w \in Wing, Start(w) \/ Merge(w) \/ Vanish(w)
        PROVE  IInv'
    BY <2>2, StartKeeps, MergeKeeps, VanishKeeps
  <2>3. ASSUME NEW u \in Caller, ClaimNode(u) \/ UnclaimNode(u)
        PROVE  IInv'
    BY <2>3, ClaimNodeKeeps, UnclaimNodeKeeps
  <2>4. ASSUME NEW u \in Caller, NEW g \in Item, ClaimLeaf(u, g)
        PROVE  IInv'
    BY <2>4, ClaimLeafKeeps
  <2> QED
    BY <2>1, <2>2, <2>3, <2>4, StutterKeeps DEF Next
<1> QED
  BY <1>1, <1>2, PTL DEF Spec

\* No variable leaves its shape: every plan is a plan, and claims are of callers.
THEOREM TypeCorrect == Spec => []TypeOK
<1>1. IInv => TypeOK
  BY DEF IInv
<1> QED
  BY <1>1, Invariance, PTL

\* However the plan is edited, on the trunk and in the wings, and whichever way
\* wings start over, merge and vanish, every copy of it is a forest.
THEOREM ForestStays == Spec => []Forest
<1>1. IInv => Forest
  BY DEF IInv
<1> QED
  BY <1>1, Invariance, PTL

\* No sweep loses a claim that someone relies on, and nobody else is given the
\* item, not even one that its wing has yet to merge.
THEOREM ClaimsStand == Spec => []ClaimStands
<1>1. IInv => ClaimStands
  BY Facts DEF Standing, ClaimStands, ClaimedBy
<1> QED
  BY <1>1, Invariance, PTL

\* What waits for an item is released when that item is completed, in whichever
\* copy of the plan, but for what update-item named when it was not there, and
\* for what went away below an item of another root.
THEOREM WaitsEnd == Spec => []Released
<1>1. IInv => Released
  BY DEF IInv, Waiting, Released
<1> QED
  BY <1>1, Invariance, PTL
=============================================================================
