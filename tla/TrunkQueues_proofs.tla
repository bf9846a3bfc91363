------------------------- MODULE TrunkQueues_proofs -------------------------
(***************************************************************************)
(* Proofs about the queues of TrunkPublish and its coalesced fetches.      *)
(*                                                                         *)
(* Which queue a command goes to depends on what the commands before it    *)
(* are, so the invariant is about the two sequences and the set of wings   *)
(* that wait in them: who has a command of the bare directory, and who of  *)
(* a worktree.  With it goes what liveness rests on: every step brings a   *)
(* call closer to its end, somebody can always go on, and the queues are   *)
(* fair.                                                                   *)
(***************************************************************************)
EXTENDS TrunkPublish_proofs, FiniteSetTheorems

\* The wings in q.
In(q) == {q[i] : i \in 1 .. Len(q)}

\* Every wing of B, with a command of the bare directory, and of T, with one of
\* a worktree, is once in q or in b, and nobody else is.  At most one of B is
\* in q; the others are in b, and only while there is one in q.
Served(B, T, q, b) ==
  /\ q \in Seq(Wing) /\ b \in Seq(Wing)
  /\ \A i, j \in 1 .. Len(q) : q[i] = q[j] => i = j
  /\ \A i, j \in 1 .. Len(b) : b[i] = b[j] => i = j
  /\ \A i \in 1 .. Len(q) : \A j \in 1 .. Len(b) : q[i] # b[j]
  /\ \A w \in Wing : w \in B \cup T <=> w \in In(q) \cup In(b)
  /\ \A i, j \in 1 .. Len(q) : q[i] \in B /\ q[j] \in B => i = j
  /\ \A j \in 1 .. Len(b) : b[j] \in B
  /\ b # <<>> => \E i \in 1 .. Len(q) : q[i] \in B

\* The wings whose command is one of S.
Outstanding(S) == {w \in Wing : call[w].pc \in S}

Queues == Served(Outstanding(BareStep), Outstanding(WorktreeStep), repoQ, bareQ)

\* One call fetches, at most.
Refetching == {"refetch", "realign"}
Single == \A v, w \in Outstanding(Refetching) : v = w

\* Who joined a fetch has somebody who runs it.
Heard == \A w \in Wing : call[w].pc = "joined" => Fetching

QInv == Queues /\ Single /\ Heard

-----------------------------------------------------------------------------
(* Sequences. *)

\* What append and pop do to the wings in a sequence.
LEMMA AppendIn ==
  ASSUME NEW q \in Seq(Wing), NEW w \in Wing
  PROVE  /\ Append(q, w) \in Seq(Wing) /\ Len(Append(q, w)) = Len(q) + 1
         /\ \A i \in 1 .. Len(q) : Append(q, w)[i] = q[i]
         /\ Append(q, w)[Len(q) + 1] = w
         /\ In(Append(q, w)) = In(q) \cup {w}
<1>1. /\ Append(q, w) \in Seq(Wing) /\ Len(Append(q, w)) = Len(q) + 1 /\ Len(q) \in Nat
      /\ \A i \in 1 .. Len(q) : Append(q, w)[i] = q[i]
      /\ Append(q, w)[Len(q) + 1] = w
  OBVIOUS
<1>2. \A i \in 1 .. Len(q) + 1 : i \in 1 .. Len(q) \/ i = Len(q) + 1
  BY <1>1
<1>3. \A i \in 1 .. Len(q) : i \in 1 .. Len(q) + 1
  BY <1>1
<1>4. Len(q) + 1 \in 1 .. Len(q) + 1
  BY <1>1
<1>5. In(Append(q, w)) \subseteq In(q) \cup {w}
  BY <1>1, <1>2 DEF In
<1>6. In(q) \cup {w} \subseteq In(Append(q, w))
  BY <1>1, <1>3, <1>4 DEF In
<1> QED
  BY <1>1, <1>5, <1>6

LEMMA TailIn ==
  ASSUME NEW q \in Seq(Wing), q # <<>>
  PROVE  /\ Tail(q) \in Seq(Wing) /\ Head(q) = q[1] /\ Head(q) \in Wing
         /\ Len(q) \in Nat \ {0} /\ Len(Tail(q)) = Len(q) - 1
         /\ \A i \in 1 .. Len(q) - 1 : Tail(q)[i] = q[i + 1]
         /\ In(q) = {Head(q)} \cup In(Tail(q))
<1>1. /\ Tail(q) \in Seq(Wing) /\ Head(q) = q[1] /\ Head(q) \in Wing
      /\ Len(q) \in Nat \ {0} /\ Len(Tail(q)) = Len(q) - 1
      /\ \A i \in 1 .. Len(q) - 1 : Tail(q)[i] = q[i + 1]
  OBVIOUS
<1>2. ASSUME NEW i \in 1 .. Len(q), i # 1
      PROVE  i - 1 \in 1 .. Len(q) - 1 /\ Tail(q)[i - 1] = q[i]
  BY <1>1, <1>2
<1>3. In(q) \subseteq {Head(q)} \cup In(Tail(q))
  BY <1>1, <1>2 DEF In
<1>4. \A i \in 1 .. Len(q) - 1 : i + 1 \in 1 .. Len(q)
  BY <1>1
<1>5. 1 \in 1 .. Len(q)
  BY <1>1
<1>6. {Head(q)} \cup In(Tail(q)) \subseteq In(q)
  BY <1>1, <1>4, <1>5 DEF In
<1> QED
  BY <1>1, <1>3, <1>6

-----------------------------------------------------------------------------
(* Commands come and go. *)

\* A command at the end of q: of a worktree, or the only one of B in q.
LEMMA JoinsRepo ==
  ASSUME NEW B, NEW T, NEW q, NEW b, Served(B, T, q, b), NEW w \in Wing, w \notin B \cup T,
         NEW B2, NEW T2,
         \/ B2 = B /\ T2 = T \cup {w}
         \/ B2 = B \cup {w} /\ T2 = T /\ \A i \in 1 .. Len(q) : q[i] \notin B
  PROVE  Served(B2, T2, Append(q, w), b)
<1> DEFINE r == Append(q, w)
           n == Len(q)
<1>1. /\ q \in Seq(Wing) /\ b \in Seq(Wing) /\ n \in Nat /\ Len(b) \in Nat
      /\ w \notin In(q) /\ w \notin In(b)
  BY DEF Served
<1>2. /\ r \in Seq(Wing) /\ Len(r) = n + 1
      /\ \A i \in 1 .. n : r[i] = q[i]
      /\ r[n + 1] = w
      /\ In(r) = In(q) \cup {w}
  BY <1>1, AppendIn
<1> HIDE DEF r
<1>3. \A i \in 1 .. n + 1 : (i \in 1 .. n /\ r[i] = q[i] /\ q[i] # w) \/ (i = n + 1 /\ r[i] = w)
  BY <1>1, <1>2 DEF In
<1>4. \A i \in 1 .. n : i \in 1 .. n + 1
  BY <1>1
<1> HIDE DEF n
<1>5. \A j \in 1 .. Len(b) : b[j] # w
  BY <1>1 DEF In
<1>6. \A i, j \in 1 .. n + 1 : r[i] = r[j] => i = j
  BY <1>3 DEF Served, n
<1>7. \A i \in 1 .. n + 1 : \A j \in 1 .. Len(b) : r[i] # b[j]
  BY <1>3, <1>5 DEF Served, n
<1>8. \A v \in Wing : v \in B2 \cup T2 <=> v \in In(r) \cup In(b)
  BY <1>2 DEF Served
<1>9. \A i, j \in 1 .. n + 1 : r[i] \in B2 /\ r[j] \in B2 => i = j
  BY <1>3 DEF Served, n
<1>10. \A j \in 1 .. Len(b) : b[j] \in B2
  BY DEF Served
<1>11. b # <<>> => \E i \in 1 .. n + 1 : r[i] \in B2
  BY <1>2, <1>4 DEF Served, n
<1> QED
  BY <1>1, <1>2, <1>6, <1>7, <1>8, <1>9, <1>10, <1>11 DEF Served, r, n

\* A command of the bare directory behind another.
LEMMA JoinsBare ==
  ASSUME NEW B, NEW T, NEW q, NEW b, Served(B, T, q, b), NEW w \in Wing, w \notin B \cup T,
         \E i \in 1 .. Len(q) : q[i] \in B
  PROVE  Served(B \cup {w}, T, q, Append(b, w))
<1> DEFINE r == Append(b, w)
           n == Len(b)
<1>1. /\ q \in Seq(Wing) /\ b \in Seq(Wing) /\ n \in Nat /\ Len(q) \in Nat
      /\ w \notin In(q) /\ w \notin In(b)
  BY DEF Served
<1>2. /\ r \in Seq(Wing) /\ Len(r) = n + 1
      /\ \A i \in 1 .. n : r[i] = b[i]
      /\ r[n + 1] = w
      /\ In(r) = In(b) \cup {w}
  BY <1>1, AppendIn
<1> HIDE DEF r
<1>3. \A i \in 1 .. n + 1 : (i \in 1 .. n /\ r[i] = b[i] /\ b[i] # w) \/ (i = n + 1 /\ r[i] = w)
  BY <1>1, <1>2 DEF In
<1> HIDE DEF n
<1>4. \A j \in 1 .. Len(q) : q[j] # w
  BY <1>1 DEF In
<1>5. \A i, j \in 1 .. n + 1 : r[i] = r[j] => i = j
  BY <1>3 DEF Served, n
<1>6. \A i \in 1 .. Len(q) : \A j \in 1 .. n + 1 : q[i] # r[j]
  BY <1>3, <1>4 DEF Served, n
<1>7. \A v \in Wing : v \in B \cup {w} \cup T <=> v \in In(q) \cup In(r)
  BY <1>2 DEF Served
<1>8. \A i, j \in 1 .. Len(q) : q[i] \in B \cup {w} /\ q[j] \in B \cup {w} => i = j
  BY <1>4 DEF Served
<1>9. \A j \in 1 .. n + 1 : r[j] \in B \cup {w}
  BY <1>3 DEF Served, n
<1> QED
  BY <1>1, <1>2, <1>5, <1>6, <1>7, <1>8, <1>9 DEF Served, r, n

\* The command at the head is gone, and no other one of its directory follows.
LEMMA HeadLeaves ==
  ASSUME NEW B, NEW T, NEW q, NEW b, Served(B, T, q, b), q # <<>>,
         b = <<>> \/ Head(q) \notin B
  PROVE  Served(B \ {Head(q)}, T \ {Head(q)}, Tail(q), b)
<1> DEFINE h == Head(q)
           r == Tail(q)
           n == Len(q)
<1>1. /\ q \in Seq(Wing) /\ b \in Seq(Wing) /\ Len(b) \in Nat
      /\ \A v \in Wing : v \in B \cup T <=> v \in In(q) \cup In(b)
  BY DEF Served
<1>2. /\ r \in Seq(Wing) /\ h = q[1] /\ h \in Wing
      /\ n \in Nat \ {0} /\ Len(r) = n - 1
      /\ \A i \in 1 .. n - 1 : r[i] = q[i + 1]
      /\ In(q) = {h} \cup In(r)
  BY <1>1, TailIn
<1> HIDE DEF r, h
<1>3. /\ \A i \in 1 .. n - 1 : i + 1 \in 1 .. n /\ i + 1 # 1
      /\ \A i, j \in 1 .. n - 1 : i + 1 = j + 1 => i = j
      /\ 1 \in 1 .. n
  BY <1>2
<1>4. \A i, j \in 1 .. n : q[i] = q[j] => i = j
  BY DEF Served
<1>5. \A i \in 1 .. n - 1 : r[i] # h
  BY <1>2, <1>3, <1>4
<1>6. h \notin In(r)
  BY <1>2, <1>5 DEF In
<1>7. \A j \in 1 .. Len(b) : b[j] # h
  BY <1>2, <1>3 DEF Served
<1>8. h \notin In(b)
  BY <1>7 DEF In
<1>9. \A i, j \in 1 .. n - 1 : r[i] = r[j] => i = j
  BY <1>2, <1>3, <1>4
<1>10. \A i \in 1 .. n - 1 : \A j \in 1 .. Len(b) : r[i] # b[j]
  BY <1>2, <1>3 DEF Served
<1>11. \A v \in Wing : v \in (B \ {h}) \cup (T \ {h}) <=> v \in In(r) \cup In(b)
  BY <1>1, <1>2, <1>6, <1>8
<1>12. \A i, j \in 1 .. n - 1 : r[i] \in B \ {h} /\ r[j] \in B \ {h} => i = j
  BY <1>2, <1>3 DEF Served
<1>13. \A j \in 1 .. Len(b) : b[j] \in B \ {h}
  BY <1>7 DEF Served
<1>14. b # <<>> => \E i \in 1 .. n - 1 : r[i] \in B \ {h}
  <2>1. ASSUME b # <<>>
        PROVE  \E i \in 1 .. n - 1 : r[i] \in B \ {h}
    <3>1. PICK i \in 1 .. n : q[i] \in B
      BY <2>1 DEF Served
    <3>2. i # 1
      BY <1>2, <2>1, <3>1 DEF h
    <3>3. i - 1 \in 1 .. n - 1 /\ (i - 1) + 1 = i
      BY <1>2, <3>2
    <3>4. r[i - 1] = q[i]
      BY <1>2, <3>3
    <3> QED
      BY <1>5, <3>1, <3>3, <3>4
  <2> QED
    BY <2>1
<1> QED
  BY <1>1, <1>2, <1>9, <1>10, <1>11, <1>12, <1>13, <1>14 DEF Served, r, h

\* The command at the head is gone, and lets the next one of its directory in.
LEMMA HeadLetsIn ==
  ASSUME NEW B, NEW T, NEW q, NEW b, Served(B, T, q, b), q # <<>>,
         b # <<>>, Head(q) \in B
  PROVE  Served(B \ {Head(q)}, T \ {Head(q)}, Append(Tail(q), Head(b)), Tail(b))
<1> DEFINE h == Head(q)
           w == Head(b)
           r == Tail(q)
           a == Append(r, w)
           t == Tail(b)
           n == Len(q)
           m == Len(b)
<1>1. /\ q \in Seq(Wing) /\ b \in Seq(Wing)
      /\ \A v \in Wing : v \in B \cup T <=> v \in In(q) \cup In(b)
  BY DEF Served
<1>2. /\ r \in Seq(Wing) /\ h = q[1] /\ h \in Wing
      /\ n \in Nat \ {0} /\ Len(r) = n - 1
      /\ \A i \in 1 .. n - 1 : r[i] = q[i + 1]
      /\ In(q) = {h} \cup In(r)
  BY <1>1, TailIn
<1>3. /\ t \in Seq(Wing) /\ w = b[1] /\ w \in Wing
      /\ m \in Nat \ {0} /\ Len(t) = m - 1
      /\ \A i \in 1 .. m - 1 : t[i] = b[i + 1]
      /\ In(b) = {w} \cup In(t)
  BY <1>1, TailIn
<1>4. /\ a \in Seq(Wing) /\ Len(a) = n
      /\ \A i \in 1 .. n - 1 : a[i] = r[i]
      /\ a[n] = w
      /\ In(a) = In(r) \cup {w}
  <2> HIDE DEF r, w
  <2>1. Len(r) + 1 = n
    BY <1>2
  <2> QED
    BY <1>2, <1>3, <2>1, AppendIn
<1> HIDE DEF a, r, h, t, w
<1>5. /\ \A i \in 1 .. n - 1 : i + 1 \in 1 .. n /\ i + 1 # 1
      /\ \A i, j \in 1 .. n - 1 : i + 1 = j + 1 => i = j
      /\ 1 \in 1 .. n
      /\ \A i \in 1 .. n : i \in 1 .. n - 1 \/ i = n
  BY <1>2
<1>6. /\ \A i \in 1 .. m - 1 : i + 1 \in 1 .. m /\ i + 1 # 1
      /\ \A i, j \in 1 .. m - 1 : i + 1 = j + 1 => i = j
      /\ 1 \in 1 .. m
  BY <1>3
<1>7. /\ \A i, j \in 1 .. n : q[i] = q[j] => i = j
      /\ \A i, j \in 1 .. m : b[i] = b[j] => i = j
      /\ \A i \in 1 .. n : \A j \in 1 .. m : q[i] # b[j]
      /\ \A i, j \in 1 .. n : q[i] \in B /\ q[j] \in B => i = j
      /\ \A j \in 1 .. m : b[j] \in B
  BY DEF Served
<1>8. h # w /\ h \in B /\ w \in B
  BY <1>2, <1>3, <1>5, <1>6, <1>7 DEF h
<1>9. \A i \in 1 .. n - 1 : a[i] = q[i + 1] /\ a[i] # h /\ a[i] # w /\ a[i] \notin B
  BY <1>2, <1>3, <1>4, <1>5, <1>6, <1>7, <1>8
<1>10. \A j \in 1 .. m - 1 : t[j] = b[j + 1] /\ t[j] # h /\ t[j] # w /\ t[j] \in B
  BY <1>2, <1>3, <1>5, <1>6, <1>7
<1>11. \A i, j \in 1 .. n : a[i] = a[j] => i = j
  BY <1>4, <1>5, <1>7, <1>9
<1>12. \A i, j \in 1 .. m - 1 : t[i] = t[j] => i = j
  BY <1>6, <1>7, <1>10
<1>13. \A i \in 1 .. n : \A j \in 1 .. m - 1 : a[i] # t[j]
  BY <1>4, <1>5, <1>6, <1>7, <1>9, <1>10
<1>14. h \notin In(a) /\ h \notin In(t)
  BY <1>4, <1>5, <1>8, <1>9, <1>10, <1>3 DEF In
<1>15. \A v \in Wing : v \in (B \ {h}) \cup (T \ {h}) <=> v \in In(a) \cup In(t)
  BY <1>1, <1>2, <1>3, <1>4, <1>14
<1>16. \A i, j \in 1 .. n : a[i] \in B \ {h} /\ a[j] \in B \ {h} => i = j
  BY <1>5, <1>9
<1>17. \A j \in 1 .. m - 1 : t[j] \in B \ {h}
  BY <1>10
<1>18. \E i \in 1 .. n : a[i] \in B \ {h}
  BY <1>2, <1>4, <1>8
<1> QED
  BY <1>3, <1>4, <1>11, <1>12, <1>13, <1>15, <1>16, <1>17, <1>18 DEF Served, a, r, h, t, w

-----------------------------------------------------------------------------
(* Steps in general. *)

\* exec lets the next command of the directory in.
LEMMA PoppedServes ==
  ASSUME Queues, repoQ # <<>>
  PROVE  LET w == Head(repoQ)
         IN /\ w \in Wing
            /\ Served(Outstanding(BareStep) \ {w}, Outstanding(WorktreeStep) \ {w},
                      Popped[1], Popped[2])
<1> DEFINE w == Head(repoQ)
           B == Outstanding(BareStep)
           T == Outstanding(WorktreeStep)
<1>1. w \in Wing
  BY DEF Queues, Served
<1>2. w \in B <=> call[w].pc \in BareStep
  BY <1>1 DEF Outstanding
<1>3. Served(B, T, repoQ, bareQ)
  BY DEF Queues
<1>4. CASE w \in B /\ bareQ # <<>>
  <2>1. Popped[1] = Append(Tail(repoQ), Head(bareQ)) /\ Popped[2] = Tail(bareQ)
    BY <1>2, <1>4 DEF Popped
  <2>2. repoQ # <<>> /\ bareQ # <<>> /\ Head(repoQ) \in B
    BY <1>4
  <2> HIDE DEF B, T
  <2>3. Served(B \ {Head(repoQ)}, T \ {Head(repoQ)}, Append(Tail(repoQ), Head(bareQ)), Tail(bareQ))
    BY <1>3, <2>2, HeadLetsIn
  <2> QED
    BY <1>1, <2>1, <2>3 DEF B, T
<1>5. CASE w \notin B \/ bareQ = <<>>
  <2>1. Popped[1] = Tail(repoQ) /\ Popped[2] = bareQ
    BY <1>2, <1>5 DEF Popped
  <2> HIDE DEF B, T
  <2> QED
    BY <1>1, <1>3, <1>5, <2>1, HeadLeaves DEF B, T
<1> QED
  BY <1>4, <1>5

\* A wing that waits for nothing submits the command of step pc.
LEMMA SubmitServes ==
  ASSUME NEW B, NEW T, NEW q, NEW b, Served(B, T, q, b), NEW w \in Wing, w \notin B \cup T,
         \A v \in In(q) : v \in B <=> call[v].pc \in BareStep,
         NEW pc \in Step
  PROVE  Served(IF pc \in BareStep THEN B \cup {w} ELSE B,
                IF pc \in WorktreeStep THEN T \cup {w} ELSE T,
                Submit(w, pc, q, b)[1], Submit(w, pc, q, b)[2])
<1>1. BareStep \cap WorktreeStep = {}
  BY DEF BareStep, WorktreeStep
<1>2. HasBare(q) <=> \E i \in 1 .. Len(q) : q[i] \in B
  BY DEF HasBare, In, Served
<1>3. CASE pc \notin BareStep \cup WorktreeStep
  BY <1>3 DEF Submit
<1>4. CASE pc \in WorktreeStep
  <2>1. Submit(w, pc, q, b) = <<Append(q, w), b>> /\ pc \notin BareStep
    BY <1>1, <1>4 DEF Submit
  <2>2. Served(B, T \cup {w}, Append(q, w), b)
    BY JoinsRepo
  <2> QED
    BY <1>4, <2>1, <2>2
<1>5. CASE pc \in BareStep /\ HasBare(q)
  <2>1. Submit(w, pc, q, b) = <<q, Append(b, w)>> /\ pc \notin WorktreeStep
    BY <1>1, <1>5 DEF Submit
  <2>2. Served(B \cup {w}, T, q, Append(b, w))
    BY <1>2, <1>5, JoinsBare
  <2> QED
    BY <1>5, <2>1, <2>2
<1>6. CASE pc \in BareStep /\ ~ HasBare(q)
  <2>1. Submit(w, pc, q, b) = <<Append(q, w), b>> /\ pc \notin WorktreeStep
    BY <1>1, <1>6 DEF Submit
  <2>2. Served(B \cup {w}, T, Append(q, w), b)
    BY <1>2, <1>6, JoinsRepo
  <2> QED
    BY <1>6, <2>1, <2>2
<1> QED
  BY <1>3, <1>4, <1>5, <1>6

\* What else waits is what waited.
LEMMA OutstandingAfter ==
  ASSUME NEW w \in Wing, NEW pc, call'[w].pc = pc,
         \A v \in Wing \ {w} : /\ call'[v].pc \in BareStep <=> call[v].pc \in BareStep
                               /\ call'[v].pc \in WorktreeStep <=> call[v].pc \in WorktreeStep
  PROVE  /\ Outstanding(BareStep)' = IF pc \in BareStep
                                     THEN (Outstanding(BareStep) \ {w}) \cup {w}
                                     ELSE Outstanding(BareStep) \ {w}
         /\ Outstanding(WorktreeStep)' = IF pc \in WorktreeStep
                                         THEN (Outstanding(WorktreeStep) \ {w}) \cup {w}
                                         ELSE Outstanding(WorktreeStep) \ {w}
BY DEF Outstanding

\* The command that runs is over, and its call goes on to step pc.
LEMMA ContinueServes ==
  ASSUME Queues, NEW w \in Wing, NEW old, NEW pc \in Step, Runs(w, old), Continue(w, pc),
         call'[w].pc = pc,
         \A v \in Wing \ {w} : /\ call'[v].pc \in BareStep <=> call[v].pc \in BareStep
                               /\ call'[v].pc \in WorktreeStep <=> call[v].pc \in WorktreeStep
  PROVE  Queues'
<1> DEFINE B == Outstanding(BareStep) \ {w}
           T == Outstanding(WorktreeStep) \ {w}
           q == Popped[1]
           b == Popped[2]
<1>1. Served(B, T, q, b)
  BY PoppedServes DEF Runs
<1>2. In(q) \subseteq Wing
  BY <1>1 DEF Served, In
<1>3. \A v \in In(q) : v # w /\ (v \in B <=> call[v].pc \in BareStep)
  <2>1. w \notin In(q)
    BY <1>1 DEF Served
  <2> QED
    BY <1>2, <2>1 DEF Outstanding
<1>4. w \notin B \cup T
  OBVIOUS
<1> HIDE DEF B, T, q, b
<1>5. Served(IF pc \in BareStep THEN B \cup {w} ELSE B,
             IF pc \in WorktreeStep THEN T \cup {w} ELSE T,
             Submit(w, pc, q, b)[1], Submit(w, pc, q, b)[2])
  BY <1>1, <1>3, <1>4, SubmitServes
<1>6. repoQ' = Submit(w, pc, q, b)[1] /\ bareQ' = Submit(w, pc, q, b)[2]
  BY DEF Continue, SetQueues, q, b
<1>7. /\ Outstanding(BareStep)' = IF pc \in BareStep THEN B \cup {w} ELSE B
      /\ Outstanding(WorktreeStep)' = IF pc \in WorktreeStep THEN T \cup {w} ELSE T
  BY OutstandingAfter DEF B, T
<1> QED
  BY <1>5, <1>6, <1>7 DEF Queues

-----------------------------------------------------------------------------
(* Three shapes of a step: a command that has run takes its call one step      *)
(* further, a fetch that ends does so for everyone who joined it, and a call   *)
(* that waits for nothing submits a command or goes on by itself.              *)

\* The call of w goes on to step pc, and no other call moves.
Moves(w, pc) == /\ call'[w].pc = pc
                /\ pc # call[w].pc
                /\ \A v \in Wing \ {w} : call'[v] = call[v]

CommandStep(w) ==
  \E pc \in Step :
    /\ call[w].pc \in BareStep \cup WorktreeStep
    /\ Runs(w, call[w].pc)
    /\ Continue(w, pc)
    /\ Moves(w, pc)
    /\ call[w].pc \in Refetching => pc \in Refetching
    /\ pc \in Refetching => call[w].pc \in Refetching \/ ~ Fetching
    /\ pc = "joined" => Fetching

FetchEnds(w) ==
  \E pc \in {"idle", "attempt"} :
    /\ call[w].pc \in Refetching
    /\ Runs(w, call[w].pc)
    /\ Continue(w, pc)
    /\ \A v \in Wing : IF v = w \/ call[v].pc = "joined" THEN call'[v].pc = pc
                       ELSE call'[v] = call[v]

OwnStep(w) ==
  \E pc \in Step \ (Refetching \cup {"joined"}) :
    /\ call[w].pc \in {"idle", "begin", "attempt"}
    /\ SetQueues(Submit(w, pc, repoQ, bareQ))
    /\ Moves(w, pc)

\* Where a call is, after a step that changes w's alone.
LEMMA NowAt ==
  ASSUME IInv, NEW w \in Wing, NEW r, call' = [call EXCEPT ![w] = r]
  PROVE  call'[w] = r /\ \A v \in Wing \ {w} : call'[v] = call[v]
  BY DEF IInv, TypeOK

LEMMA NowAtStep ==
  ASSUME IInv, NEW w \in Wing, NEW pc, call' = [call EXCEPT ![w].pc = pc], call[w].pc # pc
  PROVE  Moves(w, pc)
<1>1. call \in [Wing -> Call] /\ call[w] \in Call
  BY DEF IInv, TypeOK
<1> QED
  BY <1>1 DEF Call, Moves

LEMMA NowAtRecord ==
  ASSUME IInv, NEW w \in Wing, NEW r, call' = [call EXCEPT ![w] = r], call[w].pc # r.pc
  PROVE  Moves(w, r.pc)
  BY NowAt DEF Moves

\* A command of w's that runs leads to pc, which has no part in a fetch.
LEMMA Goes ==
  ASSUME NEW w \in Wing, NEW old \in (BareStep \cup WorktreeStep) \ Refetching, Runs(w, old),
         NEW pc \in Step \ (Refetching \cup {"joined"}), Continue(w, pc), Moves(w, pc)
  PROVE  CommandStep(w)
  BY DEF CommandStep, Runs

\* To the queues, a call that goes on without a command has returned.
LEMMA ReturnGoes ==
  ASSUME NEW w, NEW pc \in {"idle", "begin", "attempt", "joined"}, Return(w)
  PROVE  Continue(w, pc)
  BY DEF Return, Continue, Submit, BareStep, WorktreeStep

\* A command that ends its call.
LEMMA GoesHome ==
  ASSUME IInv, NEW w \in Wing, NEW old \in (BareStep \cup WorktreeStep) \ Refetching,
         Runs(w, old), call' = [call EXCEPT ![w] = NoCall], Return(w)
  PROVE  CommandStep(w)
<1>1. NoCall.pc = "idle" /\ call[w].pc # "idle"
  BY NoCallSound DEF Runs, BareStep, WorktreeStep
<1>2. call'[w] = NoCall /\ \A v \in Wing \ {w} : call'[v] = call[v]
  BY NowAt
<1>3. Moves(w, "idle")
  BY <1>1, <1>2 DEF Moves
<1>4. "idle" \in Step \ (Refetching \cup {"joined"}) /\ Continue(w, "idle")
  BY ReturnGoes DEF Step, Refetching
<1> QED
  BY <1>3, <1>4, Goes

-----------------------------------------------------------------------------
(* Every step of TrunkPublish has one of them. *)

\* movement start, and the rebase a merge begins with.
LEMMA StartShape ==
  ASSUME IInv, NEW w \in Wing, StartSteps(w)
  PROVE  CommandStep(w)
<1> USE DEF Step, BareStep, WorktreeStep, Refetching
<1>1. CASE Fetch(w)
  BY <1>1, NowAtStep, Goes DEF Fetch, Runs
<1>2. CASE Align(w)
  BY <1>2, NowAtStep, Goes DEF Align, Runs
<1>3. ASSUME NEW old \in {"rebase", "continue"}, Runs(w, old), Rebased(w)
      PROVE  CommandStep(w)
  <2>1. CASE call[w].op = "merge"
    <3> DEFINE r == [call[w] EXCEPT !.pc = "begin"]
    <3>1. call' = [call EXCEPT ![w] = r] /\ Continue(w, "begin")
      BY <1>3, <2>1 DEF Rebased
    <3>2. r.pc = "begin" /\ call[w].pc # "begin"
      BY <1>3 DEF IInv, TypeOK, Call, Runs
    <3> HIDE DEF r
    <3>3. Moves(w, "begin")
      BY <3>1, <3>2, NowAtRecord
    <3> QED
      BY <1>3, <3>1, <3>3, Goes
  <2>2. CASE call[w].op # "merge"
    BY <1>3, <2>2, GoesHome DEF Rebased, Return
  <2> QED
    BY <2>1, <2>2
<1>4. CASE RebaseMoves(w) \/ RebaseReplays(w) \/ RebaseContinues(w)
  BY <1>3, <1>4 DEF RebaseMoves, RebaseReplays, RebaseContinues
<1>5. CASE RebaseHalts(w)
  BY <1>5, GoesHome DEF RebaseHalts
<1> QED
  BY <1>1, <1>2, <1>4, <1>5 DEF StartSteps

\* A call that goes on without a command leaves the queues as they are.
LEMMA OwnQuiet ==
  ASSUME NEW w \in Wing, NEW pc \in {"idle", "attempt"}, UNCHANGED queues
  PROVE  SetQueues(Submit(w, pc, repoQ, bareQ))
  BY DEF SetQueues, Submit, BareStep, WorktreeStep, queues

\* movement merge: attempts, and pushes that are accepted.
LEMMA MergeShape ==
  ASSUME IInv, NEW w \in Wing, MergeSteps(w)
  PROVE  CommandStep(w) \/ OwnStep(w)
<1> USE DEF Step, BareStep, WorktreeStep, Refetching
<1>1. call[w] \in Call
  BY DEF IInv, TypeOK
<1>2. CASE Begin(w)
  <2> DEFINE r == [call[w] EXCEPT !.pc = "attempt", !.tip = branch[w], !.since = gen, !.tries = 1]
  <2>1. call[w].pc = "begin" /\ call' = [call EXCEPT ![w] = r] /\ UNCHANGED queues
    BY <1>2 DEF Begin
  <2>2. r.pc = "attempt"
    BY <1>1 DEF Call
  <2> HIDE DEF r
  <2>3. Moves(w, "attempt")
    BY <2>1, <2>2, NowAtRecord
  <2> QED
    BY <2>1, <2>3, OwnQuiet DEF OwnStep
<1>3. CASE Attempt(w)
  <2> DEFINE r == [call[w] EXCEPT !.pc = "build", !.base = cache]
  <2>1. /\ call[w].pc = "attempt" /\ call' = [call EXCEPT ![w] = r]
        /\ SetQueues(Submit(w, "build", repoQ, bareQ))
    BY <1>3 DEF Attempt
  <2>2. r.pc = "build"
    BY <1>1 DEF Call
  <2> HIDE DEF r
  <2>3. Moves(w, "build")
    BY <2>1, <2>2, NowAtRecord
  <2> QED
    BY <2>1, <2>3 DEF OwnStep
<1>4. CASE AttemptUpToDate(w)
  <2> DEFINE r == NoCall
  <2>1. call[w].pc = "attempt" /\ call' = [call EXCEPT ![w] = r] /\ UNCHANGED queues
    BY <1>4 DEF AttemptUpToDate
  <2>2. r.pc = "idle"
    BY NoCallSound
  <2> HIDE DEF r
  <2>3. Moves(w, "idle")
    BY <2>1, <2>2, NowAtRecord
  <2> QED
    BY <2>1, <2>3, OwnQuiet DEF OwnStep
<1>5. ASSUME NEW c, Runs(w, "build"), Continue(w, "push"),
             call' = [call EXCEPT ![w] = [@ EXCEPT !.pc = "push", !.cand = c]]
      PROVE  CommandStep(w)
  <2> DEFINE r == [call[w] EXCEPT !.pc = "push", !.cand = c]
  <2>1. call' = [call EXCEPT ![w] = r]
    BY <1>5
  <2>2. r.pc = "push" /\ call[w].pc = "build"
    BY <1>1, <1>5 DEF Call, Runs
  <2> HIDE DEF r
  <2>3. Moves(w, "push")
    BY <2>1, <2>2, NowAtRecord
  <2> QED
    BY <1>5, <2>3, Goes
<1>6. CASE Build(w)
  BY <1>5, <1>6 DEF Build
<1>7. CASE BuildNothing(w)
  BY <1>5, <1>7 DEF BuildNothing
<1>8. CASE BuildConflicts(w)
  BY <1>8, GoesHome DEF BuildConflicts
<1>9. CASE Push(w)
  BY <1>9, NowAtStep, Goes DEF Push, Runs
<1>10. CASE PushUnanswered(w)
  BY <1>10, GoesHome DEF PushUnanswered
<1>11. CASE Advance(w)
  BY <1>11, NowAtStep, Goes DEF Advance, Runs
<1>12. CASE Forward(w)
  BY <1>12, GoesHome DEF Forward
<1> QED
  BY <1>2, <1>3, <1>4, <1>6, <1>7, <1>8, <1>9, <1>10, <1>11, <1>12 DEF MergeSteps

\* movement merge: pushes that are rejected, and the fetches they lead to.
LEMMA RetryShape ==
  ASSUME IInv, NEW w \in Wing, RetrySteps(w)
  PROVE  CommandStep(w) \/ FetchEnds(w)
<1> USE DEF Step, BareStep, WorktreeStep, Refetching
<1>1. ASSUME NEW v \in Wing, NEW g
      PROVE  Retrying(call[v], g).pc = "attempt"
  BY DEF IInv, TypeOK, Call, Retrying
<1>2. CASE RejectedForGood(w)
  BY <1>2, GoesHome DEF RejectedForGood, Rejected
<1>3. CASE RejectedKnown(w)
  <2> DEFINE r == Retrying(call[w], gen)
  <2>1. Runs(w, "push") /\ call' = [call EXCEPT ![w] = r] /\ Continue(w, "attempt")
    BY <1>3, ReturnGoes DEF RejectedKnown, Rejected
  <2>2. r.pc = "attempt" /\ call[w].pc = "push"
    BY <1>1, <2>1 DEF Runs
  <2> HIDE DEF r
  <2>3. Moves(w, "attempt")
    BY <2>1, <2>2, NowAtRecord
  <2> QED
    BY <2>1, <2>3, Goes
<1>4. CASE RejectedJoins(w)
  <2>1. Moves(w, "joined") /\ Runs(w, "push") /\ Fetching /\ Continue(w, "joined")
    BY <1>4, NowAtStep, ReturnGoes DEF RejectedJoins, Rejected, Runs
  <2> QED
    BY <2>1 DEF CommandStep, Runs
<1>5. CASE RejectedFetches(w)
  <2>1. Moves(w, "refetch") /\ Runs(w, "push") /\ ~ Fetching /\ Continue(w, "refetch")
    BY <1>5, NowAtStep DEF RejectedFetches, Rejected, Runs
  <2> QED
    BY <2>1 DEF CommandStep, Runs
<1>6. CASE Refetch(w)
  <2>1. Moves(w, "realign") /\ Runs(w, "refetch") /\ Continue(w, "realign")
    BY <1>6, NowAtStep DEF Refetch, Runs
  <2> QED
    BY <2>1 DEF CommandStep, Runs
<1>7. CASE Realign(w)
  <2>1. Runs(w, "realign") /\ Continue(w, "attempt")
    BY <1>7, ReturnGoes DEF Realign
  <2>2. \A v \in Wing : IF v = w \/ call[v].pc = "joined" THEN call'[v].pc = "attempt"
                        ELSE call'[v] = call[v]
    BY <1>1, <1>7 DEF Realign, Waiting
  <2> QED
    BY <2>1, <2>2 DEF FetchEnds, Runs
<1> QED
  BY <1>2, <1>3, <1>4, <1>5, <1>6, <1>7 DEF RetrySteps

\* A command fails: its call is over, and so are those that joined its fetch.
LEMMA FailureShape ==
  ASSUME IInv, NEW w \in Wing, CommandFails(w)
  PROVE  CommandStep(w) \/ FetchEnds(w)
<1>1. PICK pc \in BareStep \cup WorktreeStep : Runs(w, pc)
  BY DEF CommandFails
<1>2. Return(w) /\ call[w].pc = pc /\ Continue(w, "idle")
  BY <1>1, ReturnGoes DEF CommandFails, Runs
<1>3. NoCall.pc = "idle"
  BY NoCallSound
<1>4. CASE pc \in Refetching
  <2>1. \A v \in Wing : IF v = w \/ call[v].pc = "joined" THEN call'[v].pc = "idle"
                        ELSE call'[v] = call[v]
    BY <1>2, <1>3, <1>4 DEF CommandFails, Waiting, Refetching
  <2> QED
    BY <1>1, <1>2, <1>4, <2>1 DEF FetchEnds
<1>5. CASE pc \notin Refetching
  <2>1. call' = [v \in Wing |-> IF v \in {w} THEN NoCall ELSE call[v]]
    BY <1>2, <1>5 DEF CommandFails, Refetching
  <2>2. call'[w].pc = "idle" /\ \A v \in Wing \ {w} : call'[v] = call[v]
    BY <1>3, <2>1
  <2>3. pc # "idle" /\ "idle" \in Step \ (Refetching \cup {"joined"})
    BY DEF BareStep, WorktreeStep, Step, Refetching
  <2> QED
    BY <1>1, <1>2, <1>5, <2>2, <2>3, Goes DEF Moves
<1> QED
  BY <1>4, <1>5

\* A call is made: it submits its first command.
LEMMA CallsShape ==
  ASSUME IInv, NEW w \in Wing, NEW op, Calls(w, op)
  PROVE  OwnStep(w)
<1> USE DEF Step, BareStep, WorktreeStep, Refetching
<1> DEFINE pc == IF w \in halted THEN "continue" ELSE "fetch"
           r == NewCall(op, pc)
<1>1. /\ call[w].pc = "idle" /\ call' = [call EXCEPT ![w] = r]
      /\ SetQueues(Submit(w, pc, repoQ, bareQ))
  BY DEF Calls, Idle
<1>2. pc \in {"continue", "fetch"} /\ r.pc = pc
  BY DEF NewCall
<1> HIDE DEF pc, r
<1>3. Moves(w, pc)
  BY <1>1, <1>2, NowAtRecord
<1> QED
  BY <1>1, <1>2, <1>3 DEF OwnStep

\* The steps of TrunkPublish, seen from the queues.
LEMMA Shapes ==
  ASSUME IInv, [Next]_vars
  PROVE  \/ \E w \in Wing : CommandStep(w) \/ FetchEnds(w) \/ OwnStep(w)
         \/ Restart
         \/ UNCHANGED <<call, queues>>
<1>1. ASSUME NEW w \in Wing, Commits(w) \/ SwitchesBack(w)
      PROVE  UNCHANGED <<call, queues>>
  BY <1>1 DEF Commits, SwitchesBack
<1>2. ASSUME RemotePush \/ OutsideFetch
      PROVE  UNCHANGED <<call, queues>>
  BY <1>2 DEF RemotePush, OutsideFetch
<1>3. ASSUME UNCHANGED vars
      PROVE  UNCHANGED <<call, queues>>
  BY <1>3 DEF vars, queues
<1>4. ASSUME NEW w \in Wing, Proceeds(w)
      PROVE  CommandStep(w) \/ FetchEnds(w) \/ OwnStep(w)
  BY <1>4, StartShape, MergeShape, RetryShape, FailureShape DEF Proceeds
<1> QED
  BY <1>1, <1>2, <1>3, <1>4, CallsShape DEF Next

-----------------------------------------------------------------------------
(* The invariant is kept. *)

\* A command has run.
LEMMA CommandKeeps ==
  ASSUME IInv, QInv, NEW w \in Wing, CommandStep(w)
  PROVE  QInv'
<1>1. PICK pc \in Step :
        /\ call[w].pc \in BareStep \cup WorktreeStep
        /\ Runs(w, call[w].pc)
        /\ Continue(w, pc)
        /\ Moves(w, pc)
        /\ call[w].pc \in Refetching => pc \in Refetching
        /\ pc \in Refetching => call[w].pc \in Refetching \/ ~ Fetching
        /\ pc = "joined" => Fetching
  BY DEF CommandStep
<1>2. Queues'
  BY <1>1, ContinueServes DEF QInv, Moves
<1>3. Single'
  <2>1. CASE pc \in Refetching => call[w].pc \in Refetching
    BY <1>1, <2>1 DEF QInv, Single, Outstanding, Moves
  <2>2. CASE ~ Fetching
    BY <1>1, <2>2 DEF Single, Outstanding, Fetching, Refetching, Moves
  <2> QED
    BY <1>1, <2>1, <2>2
<1>4. Heard'
  <2>1. Fetching => Fetching'
    BY <1>1 DEF Fetching, Refetching, Moves
  <2> QED
    BY <1>1, <2>1 DEF QInv, Heard, Moves
<1> QED
  BY <1>2, <1>3, <1>4 DEF QInv

\* The fetch is over, with or without success: nobody waits for it any more.
LEMMA FetchKeeps ==
  ASSUME IInv, QInv, NEW w \in Wing, FetchEnds(w)
  PROVE  QInv'
<1>1. PICK pc \in {"idle", "attempt"} :
        /\ call[w].pc \in Refetching
        /\ Runs(w, call[w].pc)
        /\ Continue(w, pc)
        /\ \A v \in Wing : IF v = w \/ call[v].pc = "joined" THEN call'[v].pc = pc
                           ELSE call'[v] = call[v]
  BY DEF FetchEnds
<1>2. pc \in Step /\ pc \notin BareStep \cup WorktreeStep \cup Refetching
  BY DEF Step, BareStep, WorktreeStep, Refetching
<1>3. "joined" \notin BareStep \cup WorktreeStep \cup Refetching
  BY DEF BareStep, WorktreeStep, Refetching
<1>4. Queues'
  BY <1>1, <1>2, <1>3, ContinueServes DEF QInv
<1>5. Single'
  BY <1>1, <1>2 DEF QInv, Single, Outstanding
<1>6. Heard'
  BY <1>1 DEF Heard
<1> QED
  BY <1>4, <1>5, <1>6 DEF QInv

\* A call goes on that waited for nothing.
LEMMA OwnKeeps ==
  ASSUME IInv, QInv, NEW w \in Wing, OwnStep(w)
  PROVE  QInv'
<1>1. PICK pc \in Step \ (Refetching \cup {"joined"}) :
        /\ call[w].pc \in {"idle", "begin", "attempt"}
        /\ SetQueues(Submit(w, pc, repoQ, bareQ))
        /\ Moves(w, pc)
  BY DEF OwnStep
<1>2. call[w].pc \notin BareStep \cup WorktreeStep \cup Refetching
  BY <1>1 DEF BareStep, WorktreeStep, Refetching
<1>3. Queues'
  <2> DEFINE B == Outstanding(BareStep)
             T == Outstanding(WorktreeStep)
  <2>1. Served(B, T, repoQ, bareQ) /\ w \notin B \cup T
    BY <1>2 DEF QInv, Queues, Outstanding
  <2>2. \A v \in In(repoQ) : v \in B <=> call[v].pc \in BareStep
    BY <2>1 DEF Served, In, Outstanding
  <2>3. /\ Outstanding(BareStep)' = IF pc \in BareStep THEN B \cup {w} ELSE B
        /\ Outstanding(WorktreeStep)' = IF pc \in WorktreeStep THEN T \cup {w} ELSE T
    BY <1>1, <1>2 DEF Outstanding, Moves
  <2> HIDE DEF B, T
  <2>4. Served(IF pc \in BareStep THEN B \cup {w} ELSE B,
               IF pc \in WorktreeStep THEN T \cup {w} ELSE T,
               Submit(w, pc, repoQ, bareQ)[1], Submit(w, pc, repoQ, bareQ)[2])
    BY <2>1, <2>2, SubmitServes
  <2> QED
    BY <1>1, <2>3, <2>4 DEF Queues, SetQueues
<1>4. Single'
  BY <1>1 DEF QInv, Single, Outstanding, Moves
<1>5. Heard'
  <2>1. Fetching => Fetching'
    BY <1>1, <1>2 DEF Fetching, Refetching, Moves
  <2> QED
    BY <1>1, <2>1 DEF QInv, Heard, Moves
<1> QED
  BY <1>3, <1>4, <1>5 DEF QInv

\* Nobody waits, and both queues are empty.
LEMMA NobodyWaits ==
  ASSUME repoQ = <<>>, bareQ = <<>>, \A w \in Wing : call[w].pc = "idle"
  PROVE  QInv
<1>1. Outstanding(BareStep) = {} /\ Outstanding(WorktreeStep) = {} /\ Outstanding(Refetching) = {}
  BY DEF Outstanding, BareStep, WorktreeStep, Refetching
<1>2. In(<<>>) = {}
  BY DEF In
<1>3. Served({}, {}, <<>>, <<>>)
  BY <1>2 DEF Served
<1> QED
  BY <1>1, <1>3 DEF QInv, Queues, Single, Heard

LEMMA RestartKeeps ==
  ASSUME IInv, Restart
  PROVE  QInv'
<1>1. repoQ' = <<>> /\ bareQ' = <<>> /\ \A w \in Wing : call'[w].pc = "idle"
  BY NoCallSound DEF Restart
<1>2. Outstanding(BareStep)' = {} /\ Outstanding(WorktreeStep)' = {} /\ Outstanding(Refetching)' = {}
  BY <1>1 DEF Outstanding, BareStep, WorktreeStep, Refetching
<1>3. In(<<>>) = {}
  BY DEF In
<1>4. Served({}, {}, <<>>, <<>>)
  BY <1>3 DEF Served
<1> QED
  BY <1>1, <1>2, <1>4 DEF QInv, Queues, Single, Heard

LEMMA NextQInv == IInv /\ QInv /\ [Next]_vars => QInv'
<1> SUFFICES ASSUME IInv, QInv, [Next]_vars PROVE QInv'
  OBVIOUS
<1>1. CASE UNCHANGED <<call, queues>>
  BY <1>1 DEF QInv, Queues, Single, Heard, Outstanding, Fetching, queues
<1> QED
  BY <1>1, Shapes, CommandKeeps, FetchKeeps, OwnKeeps, RestartKeeps

\* Who waits for a command is once in one of the two queues, one command of the
\* bare directory at most has reached the repository's, and one call fetches.
THEOREM QueueInvariance == Spec => []QInv
<1>1. Init => QInv
  <2> SUFFICES ASSUME Init PROVE QInv
    OBVIOUS
  <2>1. IInv
    BY InitIInv
  <2>2. \A w \in Wing : call[w].pc = "idle"
    BY <2>1, NoCallSound DEF Init
  <2> QED
    BY <2>2, NobodyWaits DEF Init
<1> QED
  BY <1>1, NextQInv, Invariance, PTL DEF Spec

\* A set without two different members has one member at most.
LEMMA AtMostOne ==
  ASSUME NEW S, \A x, y \in S : x = y
  PROVE  Cardinality(S) <= 1
<1>1. CASE S = {}
  BY <1>1, FS_EmptySet
<1>2. CASE S # {}
  <2>1. PICK x : S = {x}
    BY <1>2
  <2> QED
    BY <2>1, FS_Singleton
<1> QED
  BY <1>1, <1>2

\* The places at which w stands in q: one, or none.
LEMMA Places ==
  ASSUME NEW q \in Seq(Wing), \A i, j \in 1 .. Len(q) : q[i] = q[j] => i = j, NEW w
  PROVE  Cardinality({i \in DOMAIN q : q[i] = w}) = IF w \in In(q) THEN 1 ELSE 0
<1>1. DOMAIN q = 1 .. Len(q)
  OBVIOUS
<1>2. CASE w \in In(q)
  <2>1. PICK i \in 1 .. Len(q) : q[i] = w
    BY <1>2 DEF In
  <2>2. {j \in DOMAIN q : q[j] = w} = {i}
    BY <1>1, <2>1
  <2> QED
    BY <1>2, <2>2, FS_Singleton
<1>3. CASE w \notin In(q)
  <2>1. {j \in DOMAIN q : q[j] = w} = {}
    BY <1>1, <1>3 DEF In
  <2> QED
    BY <1>3, <2>1, FS_EmptySet
<1> QED
  BY <1>2, <1>3

\* However many rejected pushes ask for one, one fetch of the trunk runs at
\* a time.
THEOREM OneFetchOnly == Spec => []OneFetch
<1>1. QInv => OneFetch
  <2> SUFFICES ASSUME QInv PROVE OneFetch
    OBVIOUS
  <2>1. \A v, w \in {u \in Wing : call[u].pc \in {"refetch", "realign"}} : v = w
    BY DEF QInv, Single, Outstanding, Refetching
  <2> QED
    BY <2>1, AtMostOne DEF OneFetch
<1> QED
  BY <1>1, QueueInvariance, PTL

\* The nested queues lose no command and hold none twice, let one command of
\* the bare directory through, and hold others back behind such a command only.
THEOREM EveryCommandServed == Spec => []QueuesServe
<1>1. QInv => QueuesServe
  <2> SUFFICES ASSUME QInv PROVE QueuesServe
    OBVIOUS
  <2> DEFINE B == Outstanding(BareStep)
             T == Outstanding(WorktreeStep)
  <2>1. Served(B, T, repoQ, bareQ)
    BY DEF QInv, Queues
  <2>2. \A w \in Wing : /\ w \in B <=> call[w].pc \in BareStep
                        /\ w \in T <=> call[w].pc \in WorktreeStep
    BY DEF Outstanding
  <2> HIDE DEF B, T
  <2>3. \A i \in 1 .. Len(repoQ) : repoQ[i] \in Wing
    BY <2>1 DEF Served
  <2>4. DOMAIN repoQ = 1 .. Len(repoQ) /\ DOMAIN bareQ = 1 .. Len(bareQ)
    BY <2>1 DEF Served
  <2>5. ASSUME NEW w \in Wing
        PROVE  Queued(w) = IF call[w].pc \in BareStep \cup WorktreeStep THEN 1 ELSE 0
    <3>1. /\ Cardinality({i \in DOMAIN repoQ : repoQ[i] = w}) = IF w \in In(repoQ) THEN 1 ELSE 0
          /\ Cardinality({i \in DOMAIN bareQ : bareQ[i] = w}) = IF w \in In(bareQ) THEN 1 ELSE 0
      BY <2>1, Places DEF Served
    <3>2. ~ (w \in In(repoQ) /\ w \in In(bareQ))
      BY <2>1 DEF Served, In
    <3>3. call[w].pc \in BareStep \cup WorktreeStep <=> w \in In(repoQ) \/ w \in In(bareQ)
      BY <2>1, <2>2 DEF Served
    <3> QED
      BY <3>1, <3>2, <3>3 DEF Queued
  <2>6. \A i, j \in {k \in DOMAIN repoQ : call[repoQ[k]].pc \in BareStep} : i = j
    BY <2>1, <2>2, <2>3, <2>4 DEF Served
  <2>7. Cardinality({i \in DOMAIN repoQ : call[repoQ[i]].pc \in BareStep}) <= 1
    BY <2>6, AtMostOne
  <2>8. bareQ # <<>> => HasBare(repoQ)
    BY <2>1, <2>2, <2>3, <2>4 DEF Served, HasBare
  <2> QED
    BY <2>5, <2>7, <2>8 DEF QueuesServe
<1> QED
  BY <1>1, QueueInvariance, PTL

-----------------------------------------------------------------------------
(* Calls come closer to their end. *)

\* What CallsBounded says of the call of v.
Turns(v) ==
  call'[v] # call[v] =>
    IF Idle(v) THEN StepsLeft(call'[v]) <= 5 * MaxAttempts + 4
               ELSE StepsLeft(call'[v]) < StepsLeft(call[v])

\* A call under way has something left to do; one that is over has not.
LEMMA SomeLeft ==
  ASSUME IInv, NEW w \in Wing
  PROVE  /\ ~ Idle(w) => StepsLeft(call[w]) > 0
         /\ StepsLeft(NoCall) = 0
<1>1. /\ call[w].pc \in Step /\ MaxAttempts \in Nat
      /\ call[w].tries \in Nat /\ call[w].tries <= MaxAttempts
  BY Facts DEF Call
<1>2. AttemptsLeft(call[w]) \in Nat
  BY <1>1 DEF AttemptsLeft
<1>3. ~ Idle(w) => StepsInAttempt(call[w].pc) \in 1 .. 5
  BY <1>1 DEF Idle, StepsInAttempt, Step, BareStep, WorktreeStep
<1>4. ~ Idle(w) => StepsLeft(call[w]) > 0
  BY <1>2, <1>3 DEF StepsLeft, Idle
<1>5. NoCall.pc = "idle"
  BY NoCallSound
<1> QED
  BY <1>4, <1>5 DEF StepsLeft

\* The step that comes after old is closer to the end.
Nearer(old, pc) ==
  /\ old \in Step \ {"idle"}
  /\ pc \in Step \ {"idle"}
  /\ old \in Starting <=> pc \in Starting
  /\ StepsInAttempt(old) \in Nat
  /\ StepsInAttempt(pc) \in Nat
  /\ StepsInAttempt(pc) < StepsInAttempt(old)

\* From the first step of start or of an attempt to the last.
LEMMA NearerSteps ==
  /\ Nearer("fetch", "align") /\ Nearer("align", "rebase")
  /\ Nearer("rebase", "begin") /\ Nearer("continue", "begin")
  /\ Nearer("attempt", "build") /\ Nearer("build", "push")
  /\ Nearer("push", "advance") /\ Nearer("advance", "forward")
  /\ Nearer("push", "joined")
  /\ Nearer("push", "refetch") /\ Nearer("refetch", "realign")
BY DEF Nearer, StepsInAttempt, Starting, Step, BareStep, WorktreeStep

\* A step of w's call alone, which leaves it less to do.
LEMMA StepsDown ==
  ASSUME IInv, NEW w \in Wing, NEW r, call' = [call EXCEPT ![w] = r],
         ~ Idle(w), StepsLeft(r) < StepsLeft(call[w])
  PROVE  \A v \in Wing : Turns(v)
  BY NowAt DEF Turns

\* A call under way is over.
LEMMA ReturnsDown ==
  ASSUME IInv, NEW w \in Wing, ~ Idle(w), call' = [call EXCEPT ![w] = NoCall]
  PROVE  \A v \in Wing : Turns(v)
<1> DEFINE r == NoCall
<1>1. call' = [call EXCEPT ![w] = r] /\ StepsLeft(r) < StepsLeft(call[w])
  BY SomeLeft
<1> HIDE DEF r
<1> QED
  BY <1>1, StepsDown

\* A call that goes from one step to the next, its attempts as they were.
LEMMA NextDown ==
  ASSUME IInv, NEW w \in Wing, NEW r, call' = [call EXCEPT ![w] = r],
         r.tries = call[w].tries, Nearer(call[w].pc, r.pc)
  PROVE  \A v \in Wing : Turns(v)
<1>1. AttemptsLeft(r) = AttemptsLeft(call[w])
  BY DEF AttemptsLeft, Nearer
<1>2. AttemptsLeft(call[w]) \in Nat
  BY Facts DEF Call, AttemptsLeft
<1>3. StepsLeft(r) < StepsLeft(call[w])
  BY <1>1, <1>2 DEF StepsLeft, Nearer
<1> QED
  BY <1>3, StepsDown DEF Idle, Nearer

\* The same, where nothing but the step changes.
LEMMA StepDown ==
  ASSUME IInv, NEW w \in Wing, NEW pc, call' = [call EXCEPT ![w].pc = pc],
         Nearer(call[w].pc, pc)
  PROVE  \A v \in Wing : Turns(v)
<1> DEFINE r == [call[w] EXCEPT !.pc = pc]
<1>1. call \in [Wing -> Call] /\ call[w] \in Call
  BY DEF IInv, TypeOK
<1>2. call' = [call EXCEPT ![w] = r]
  BY <1>1
<1>3. r.pc = pc /\ r.tries = call[w].tries
  BY <1>1 DEF Call
<1> HIDE DEF r
<1> QED
  BY <1>2, <1>3, NextDown

\* A rejected push is tried again: one attempt less is left.
LEMMA RetryDown ==
  ASSUME IInv, NEW v \in Wing, NEW g,
         call[v].pc \in {"push", "joined", "refetch", "realign"},
         call[v].tries < MaxAttempts
  PROVE  ~ Idle(v) /\ StepsLeft(Retrying(call[v], g)) < StepsLeft(call[v])
<1> DEFINE r == Retrying(call[v], g)
<1>1. /\ call[v].tries \in Nat /\ MaxAttempts \in Nat /\ call[v] \in Call
  BY Facts DEF Call
<1>2. r.pc = "attempt" /\ r.tries = call[v].tries + 1
  BY <1>1 DEF Retrying, Call
<1> HIDE DEF r
<1>3. StepsLeft(r) = 5 * (MaxAttempts - (call[v].tries + 1)) + 5
  BY <1>2 DEF StepsLeft, AttemptsLeft, StepsInAttempt, Starting
<1>4. /\ StepsLeft(call[v]) = 5 * (MaxAttempts - call[v].tries) + StepsInAttempt(call[v].pc)
      /\ StepsInAttempt(call[v].pc) \in {1, 2, 3}
  BY DEF StepsLeft, AttemptsLeft, StepsInAttempt, Starting
<1>5. StepsLeft(r) < StepsLeft(call[v])
  BY <1>1, <1>3, <1>4
<1> QED
  BY <1>5 DEF Idle, r

LEMMA StartDown ==
  ASSUME IInv, NEW w \in Wing, StartSteps(w)
  PROVE  \A v \in Wing : Turns(v)
<1> USE NearerSteps
<1>1. CASE Fetch(w)
  BY <1>1, StepDown DEF Fetch, Runs
<1>2. CASE Align(w)
  BY <1>2, StepDown DEF Align, Runs
<1>3. ASSUME NEW old \in {"rebase", "continue"}, Runs(w, old), Rebased(w)
      PROVE  \A v \in Wing : Turns(v)
  <2>1. call[w].pc \in {"rebase", "continue"} /\ call[w] \in Call
    BY <1>3, Facts DEF Runs
  <2>2. CASE call[w].op = "merge"
    <3> DEFINE r == [call[w] EXCEPT !.pc = "begin"]
    <3>1. call' = [call EXCEPT ![w] = r]
      BY <1>3, <2>2 DEF Rebased
    <3>2. r.pc = "begin" /\ r.tries = call[w].tries
      BY <2>1 DEF Call
    <3> HIDE DEF r
    <3> QED
      BY <2>1, <3>1, <3>2, NextDown
  <2>3. CASE call[w].op # "merge"
    BY <1>3, <2>1, <2>3, ReturnsDown DEF Rebased, Idle
  <2> QED
    BY <2>2, <2>3
<1>4. CASE RebaseMoves(w) \/ RebaseReplays(w) \/ RebaseContinues(w)
  BY <1>3, <1>4 DEF RebaseMoves, RebaseReplays, RebaseContinues
<1>5. CASE RebaseHalts(w)
  BY <1>5, ReturnsDown DEF RebaseHalts, Runs, Idle
<1> QED
  BY <1>1, <1>2, <1>4, <1>5 DEF StartSteps

LEMMA MergeDown ==
  ASSUME IInv, NEW w \in Wing, MergeSteps(w)
  PROVE  \A v \in Wing : Turns(v)
<1> USE NearerSteps
<1>1. call[w] \in Call /\ MaxAttempts \in Nat \ {0}
  BY Facts
<1>2. CASE Begin(w)
  <2> DEFINE r == [call[w] EXCEPT !.pc = "attempt", !.tip = branch[w], !.since = gen, !.tries = 1]
  <2>1. call[w].pc = "begin" /\ call' = [call EXCEPT ![w] = r]
    BY <1>2 DEF Begin
  <2>2. r.pc = "attempt" /\ r.tries = 1
    BY <1>1 DEF Call
  <2> HIDE DEF r
  <2>3. StepsLeft(r) = 5 * (MaxAttempts - 1) + 5 /\ StepsLeft(call[w]) = 5 * MaxAttempts + 1
    BY <2>1, <2>2 DEF StepsLeft, AttemptsLeft, StepsInAttempt, Starting
  <2>4. StepsLeft(r) < StepsLeft(call[w])
    BY <1>1, <2>3
  <2> QED
    BY <2>1, <2>4, StepsDown DEF Idle
<1>3. CASE Attempt(w)
  <2> DEFINE r == [call[w] EXCEPT !.pc = "build", !.base = cache]
  <2>1. call[w].pc = "attempt" /\ call' = [call EXCEPT ![w] = r]
    BY <1>3 DEF Attempt
  <2>2. r.pc = "build" /\ r.tries = call[w].tries
    BY <1>1 DEF Call
  <2> HIDE DEF r
  <2> QED
    BY <2>1, <2>2, NextDown
<1>4. CASE AttemptUpToDate(w)
  BY <1>4, ReturnsDown DEF AttemptUpToDate, Idle
<1>5. ASSUME NEW c, Runs(w, "build"),
             call' = [call EXCEPT ![w] = [@ EXCEPT !.pc = "push", !.cand = c]]
      PROVE  \A v \in Wing : Turns(v)
  <2> DEFINE r == [call[w] EXCEPT !.pc = "push", !.cand = c]
  <2>1. call[w].pc = "build" /\ call' = [call EXCEPT ![w] = r]
    BY <1>5 DEF Runs
  <2>2. r.pc = "push" /\ r.tries = call[w].tries
    BY <1>1 DEF Call
  <2> HIDE DEF r
  <2> QED
    BY <2>1, <2>2, NextDown
<1>6. CASE Build(w)
  BY <1>5, <1>6 DEF Build
<1>7. CASE BuildNothing(w)
  BY <1>5, <1>7 DEF BuildNothing
<1>8. CASE BuildConflicts(w) \/ PushUnanswered(w) \/ Forward(w)
  BY <1>8, ReturnsDown DEF BuildConflicts, PushUnanswered, Forward, Runs, Idle
<1>9. CASE Push(w)
  BY <1>9, StepDown DEF Push, Runs
<1>10. CASE Advance(w)
  BY <1>10, StepDown DEF Advance, Runs
<1> QED
  BY <1>2, <1>3, <1>4, <1>6, <1>7, <1>8, <1>9, <1>10 DEF MergeSteps

LEMMA RetryStepsDown ==
  ASSUME IInv, NEW w \in Wing, RetrySteps(w)
  PROVE  \A v \in Wing : Turns(v)
<1> USE NearerSteps
<1>1. CASE RejectedForGood(w)
  BY <1>1, ReturnsDown DEF RejectedForGood, Rejected, Runs, Idle
<1>2. CASE RejectedKnown(w)
  <2> DEFINE r == Retrying(call[w], gen)
  <2>1. call[w].pc = "push" /\ call' = [call EXCEPT ![w] = r] /\ call[w].tries < MaxAttempts
    BY <1>2, Facts DEF RejectedKnown, Rejected, Runs, LastTry
  <2>2. ~ Idle(w) /\ StepsLeft(r) < StepsLeft(call[w])
    BY <2>1, RetryDown
  <2> HIDE DEF r
  <2> QED
    BY <2>1, <2>2, StepsDown
<1>3. CASE RejectedJoins(w)
  BY <1>3, StepDown DEF RejectedJoins, Rejected, Runs
<1>4. CASE RejectedFetches(w)
  BY <1>4, StepDown DEF RejectedFetches, Rejected, Runs
<1>5. CASE Refetch(w)
  BY <1>5, StepDown DEF Refetch, Runs
<1>6. CASE Realign(w)
  <2>1. ASSUME NEW v \in Wing, v \in Waiting(w)
        PROVE  call'[v] = Retrying(call[v], gen + 1) /\ call[v].pc \in {"joined", "realign"}
    BY <1>6, <2>1 DEF Realign, Waiting, Runs
  <2>2. ASSUME NEW v \in Wing, v \in Waiting(w)
        PROVE  Turns(v)
    <3>1. call[v].tries < MaxAttempts
      BY <2>1, <2>2, Facts DEF SoundCall
    <3> QED
      BY <2>1, <2>2, <3>1, RetryDown DEF Turns
  <2>3. ASSUME NEW v \in Wing, v \notin Waiting(w)
        PROVE  Turns(v)
    BY <1>6, <2>3 DEF Realign, Turns
  <2> QED
    BY <2>2, <2>3
<1> QED
  BY <1>1, <1>2, <1>3, <1>4, <1>5, <1>6 DEF RetrySteps

LEMMA FailureDown ==
  ASSUME IInv, NEW w \in Wing, CommandFails(w)
  PROVE  \A v \in Wing : Turns(v)
<1>1. PICK pc \in BareStep \cup WorktreeStep : Runs(w, pc)
  BY DEF CommandFails
<1>2. call[w].pc # "idle"
  BY <1>1 DEF Runs, BareStep, WorktreeStep
<1>3. ASSUME NEW v \in Wing
      PROVE  call'[v] = call[v] \/ (call'[v] = NoCall /\ ~ Idle(v))
  BY <1>2 DEF CommandFails, Waiting, Idle
<1> QED
  BY <1>3, SomeLeft DEF Turns

\* A step of publishWithRetry, of start or of a fetch that others joined brings
\* every call it touches closer to its end.
THEOREM CallsEnd == Spec => CallsBounded
<1>1. ASSUME IInv, [Next]_vars
      PROVE  [\A w \in Wing : call'[w] # call[w] =>
                IF Idle(w) THEN StepsLeft(call'[w]) <= 5 * MaxAttempts + 4
                           ELSE StepsLeft(call'[w]) < StepsLeft(call[w])]_vars
  <2> SUFFICES \A v \in Wing : Turns(v)
    BY DEF Turns
  <2>1. CASE UNCHANGED call
    BY <2>1 DEF Turns
  <2>2. ASSUME NEW w \in Wing, NEW op, Calls(w, op)
        PROVE  \A v \in Wing : Turns(v)
    <3> DEFINE pc == IF w \in halted THEN "continue" ELSE "fetch"
               r == NewCall(op, pc)
    <3>1. Idle(w) /\ call' = [call EXCEPT ![w] = r]
      BY <2>2 DEF Calls
    <3>2. r.pc \in {"continue", "fetch"}
      BY DEF NewCall
    <3> HIDE DEF r
    <3>3. MaxAttempts \in Nat
      BY BoundsAssumption
    <3>4. StepsLeft(r) <= 5 * MaxAttempts + 4
      BY <3>2, <3>3 DEF StepsLeft, AttemptsLeft, StepsInAttempt, Starting
    <3> QED
      BY <1>1, <3>1, <3>4, NowAt DEF Turns
  <2>3. ASSUME NEW w \in Wing, Proceeds(w)
        PROVE  \A v \in Wing : Turns(v)
    BY <1>1, <2>3, StartDown, MergeDown, RetryStepsDown, FailureDown DEF Proceeds
  <2>4. CASE Restart
    <3>1. ASSUME NEW v \in Wing PROVE call'[v] = NoCall
      BY <2>4 DEF Restart
    <3>2. StepsLeft(NoCall) = 0
      BY NoCallSound, <1>1 DEF StepsLeft
    <3>3. MaxAttempts \in Nat
      BY BoundsAssumption
    <3> QED
      BY <1>1, <3>1, <3>2, <3>3, SomeLeft DEF Turns
  <2>5. ASSUME NEW w \in Wing, Commits(w) \/ SwitchesBack(w)
        PROVE  UNCHANGED call
    BY <2>5 DEF Commits, SwitchesBack
  <2>6. ASSUME RemotePush \/ OutsideFetch
        PROVE  UNCHANGED call
    BY <2>6 DEF RemotePush, OutsideFetch
  <2>7. ASSUME UNCHANGED vars
        PROVE  UNCHANGED call
    BY <2>7 DEF vars
  <2> QED
    BY <1>1, <2>1, <2>2, <2>3, <2>4, <2>5, <2>6, <2>7 DEF Next
<1> QED
  BY <1>1, Invariance, PTL DEF Spec, CallsBounded

-----------------------------------------------------------------------------
(* Nobody is stranded, and nobody is overtaken. *)

\* While anybody waits in the queues, the head of the repository's queue has the
\* command that runs.
LEMMA HeadRuns ==
  ASSUME QInv, NEW w \in Wing, call[w].pc \in BareStep \cup WorktreeStep
  PROVE  \E v \in Wing : \E pc \in BareStep \cup WorktreeStep : Runs(v, pc)
<1> DEFINE B == Outstanding(BareStep)
           T == Outstanding(WorktreeStep)
<1>1. Served(B, T, repoQ, bareQ) /\ w \in B \cup T
  BY DEF QInv, Queues, Outstanding
<1>2. ASSUME NEW v \in Wing, v \in B \cup T
      PROVE  call[v].pc \in BareStep \cup WorktreeStep
  BY <1>2 DEF Outstanding
<1> HIDE DEF B, T
<1>3. w \in In(repoQ) \cup In(bareQ)
  BY <1>1 DEF Served
<1>4. repoQ # <<>>
  BY <1>1, <1>3 DEF Served, In
<1>5. Head(repoQ) \in Wing /\ Head(repoQ) \in In(repoQ)
  BY <1>1, <1>4, TailIn DEF Served
<1>6. Head(repoQ) \in B \cup T
  BY <1>1, <1>5 DEF Served
<1> QED
  BY <1>2, <1>4, <1>5, <1>6 DEF Runs

\* Wings never wait for each other in a circle: whoever joined a fetch has
\* somebody who runs it, and while a call is under way some call can go on.
THEOREM NobodyIsStranded == Spec => []NobodyStranded
<1>1. IInv /\ QInv => NobodyStranded
  <2> SUFFICES ASSUME IInv, QInv PROVE NobodyStranded
    OBVIOUS
  <2>1. ASSUME NEW w \in Wing, ~ Idle(w)
        PROVE  \E v \in Wing : \/ call[v].pc \in {"begin", "attempt"}
                               \/ \E pc \in BareStep \cup WorktreeStep : Runs(v, pc)
    <3>1. call[w].pc \in Step \ {"idle"}
      BY <2>1 DEF IInv, TypeOK, Call, Idle
    <3>2. CASE call[w].pc \in {"begin", "attempt"}
      BY <3>2
    <3>3. CASE call[w].pc \in BareStep \cup WorktreeStep
      BY <3>3, HeadRuns
    <3>4. CASE call[w].pc = "joined"
      <4>1. PICK v \in Wing : call[v].pc \in Refetching
        BY <3>4 DEF QInv, Heard, Fetching, Refetching
      <4>2. call[v].pc \in BareStep \cup WorktreeStep
        BY <4>1 DEF Refetching, BareStep
      <4> QED
        BY <4>2, HeadRuns
    <3> QED
      BY <3>1, <3>2, <3>3, <3>4 DEF Step
  <2> QED
    BY <2>1 DEF NobodyStranded, QInv, Heard
<1> QED
  BY <1>1, Invariance, QueueInvariance, PTL

\* Submitting a command leaves everybody where they are.
LEMMA SubmitKeepsPlaces ==
  ASSUME NEW q \in Seq(Wing), NEW b \in Seq(Wing), NEW w \in Wing, NEW pc,
         SetQueues(Submit(w, pc, q, b))
  PROVE  /\ repoQ' \in Seq(Wing) /\ bareQ' \in Seq(Wing)
         /\ \A i \in 1 .. Len(q) : i \in 1 .. Len(repoQ') /\ repoQ'[i] = q[i]
         /\ \A i \in 1 .. Len(b) : i \in 1 .. Len(bareQ') /\ bareQ'[i] = b[i]
<1>1. CASE repoQ' = q /\ bareQ' = b
  BY <1>1
<1>2. CASE repoQ' = q /\ bareQ' = Append(b, w)
  BY <1>2
<1>3. CASE repoQ' = Append(q, w) /\ bareQ' = b
  BY <1>3
<1> QED
  BY <1>1, <1>2, <1>3 DEF SetQueues, Submit

\* When the head is through, everybody behind it moves up by one, and the first
\* of the directory's queue, if any moves, to the end of the repository's.
LEMMA PoppedMovesUp ==
  ASSUME repoQ \in Seq(Wing), bareQ \in Seq(Wing), repoQ # <<>>
  PROVE  /\ Popped[1] \in Seq(Wing) /\ Popped[2] \in Seq(Wing)
         /\ \A i \in 1 .. Len(repoQ) : i # 1 => /\ i - 1 \in 1 .. Len(Popped[1])
                                                /\ Popped[1][i - 1] = repoQ[i]
         /\ \A i \in 1 .. Len(bareQ) :
              \/ i \in 1 .. Len(Popped[2]) /\ Popped[2][i] = bareQ[i]
              \/ i - 1 \in 1 .. Len(Popped[2]) /\ Popped[2][i - 1] = bareQ[i]
              \/ \E j \in 1 .. Len(Popped[1]) : Popped[1][j] = bareQ[i]
<1>1. /\ Tail(repoQ) \in Seq(Wing) /\ Len(repoQ) \in Nat
      /\ \A i \in 1 .. Len(repoQ) : i # 1 => /\ i - 1 \in 1 .. Len(Tail(repoQ))
                                             /\ Tail(repoQ)[i - 1] = repoQ[i]
  OBVIOUS
<1>2. CASE Popped = <<Tail(repoQ), bareQ>>
  BY <1>1, <1>2
<1>3. CASE Popped = <<Append(Tail(repoQ), Head(bareQ)), Tail(bareQ)>> /\ bareQ # <<>>
  <2> DEFINE r == Tail(repoQ)
             h == Head(bareQ)
             a == Append(r, h)
  <2>1. r \in Seq(Wing) /\ h \in Wing /\ h = bareQ[1]
    BY <1>1, <1>3
  <2>2. /\ a \in Seq(Wing) /\ Len(a) = Len(r) + 1 /\ Len(r) \in Nat
        /\ \A i \in 1 .. Len(r) : i \in 1 .. Len(a) /\ a[i] = r[i]
        /\ Len(a) \in 1 .. Len(a) /\ a[Len(a)] = h
    <3> HIDE DEF r, h
    <3> QED
      BY <2>1
  <2>3. /\ Tail(bareQ) \in Seq(Wing) /\ Len(bareQ) \in Nat
        /\ \A i \in 1 .. Len(bareQ) : i # 1 => /\ i - 1 \in 1 .. Len(Tail(bareQ))
                                               /\ Tail(bareQ)[i - 1] = bareQ[i]
    BY <1>3
  <2> HIDE DEF a, h
  <2>4. Popped[1] = a /\ Popped[2] = Tail(bareQ)
    BY <1>3 DEF a, h
  <2>5. ASSUME NEW i \in 1 .. Len(repoQ), i # 1
        PROVE  i - 1 \in 1 .. Len(Popped[1]) /\ Popped[1][i - 1] = repoQ[i]
    BY <1>1, <2>2, <2>4, <2>5
  <2>6. ASSUME NEW i \in 1 .. Len(bareQ)
        PROVE  \/ i - 1 \in 1 .. Len(Popped[2]) /\ Popped[2][i - 1] = bareQ[i]
               \/ \E j \in 1 .. Len(Popped[1]) : Popped[1][j] = bareQ[i]
    BY <2>1, <2>2, <2>3, <2>4
  <2> QED
    BY <2>2, <2>3, <2>4, <2>5, <2>6
<1> QED
  BY <1>2, <1>3 DEF Popped

\* What NeverOvertaken says of v.
KeepsPlace(v) ==
  call'[v] = call[v] =>
    /\ \A i \in DOMAIN repoQ : repoQ[i] = v =>
         \E j \in DOMAIN repoQ' :
            /\ repoQ'[j] = v
            /\ j <= i
            /\ call'[Head(repoQ)] # call[Head(repoQ)] => j < i
    /\ \A i \in DOMAIN bareQ : bareQ[i] = v =>
         \/ \E j \in DOMAIN bareQ' : bareQ'[j] = v /\ j <= i
         \/ \E j \in DOMAIN repoQ' : repoQ'[j] = v

\* The head's command has run.
LEMMA ContinueKeepsPlaces ==
  ASSUME QInv, NEW w \in Wing, NEW old, NEW pc, Runs(w, old), Continue(w, pc),
         call'[w] # call[w], NEW v \in Wing
  PROVE  KeepsPlace(v)
<1> DEFINE q == Popped[1]
           b == Popped[2]
<1>1. /\ repoQ \in Seq(Wing) /\ bareQ \in Seq(Wing) /\ repoQ # <<>>
      /\ DOMAIN repoQ = 1 .. Len(repoQ) /\ DOMAIN bareQ = 1 .. Len(bareQ)
      /\ repoQ[1] = w /\ Len(repoQ) \in Nat /\ Len(bareQ) \in Nat
  BY DEF QInv, Queues, Served, Runs
<1>2. /\ q \in Seq(Wing) /\ b \in Seq(Wing)
      /\ \A i \in 1 .. Len(repoQ) : i # 1 => i - 1 \in 1 .. Len(q) /\ q[i - 1] = repoQ[i]
      /\ \A i \in 1 .. Len(bareQ) :
           \/ i \in 1 .. Len(b) /\ b[i] = bareQ[i]
           \/ i - 1 \in 1 .. Len(b) /\ b[i - 1] = bareQ[i]
           \/ \E j \in 1 .. Len(q) : q[j] = bareQ[i]
  BY <1>1, PoppedMovesUp
<1>3. SetQueues(Submit(w, pc, q, b))
  BY DEF Continue
<1> HIDE DEF q, b
<1>4. /\ repoQ' \in Seq(Wing) /\ bareQ' \in Seq(Wing)
      /\ \A i \in 1 .. Len(q) : i \in 1 .. Len(repoQ') /\ repoQ'[i] = q[i]
      /\ \A i \in 1 .. Len(b) : i \in 1 .. Len(bareQ') /\ bareQ'[i] = b[i]
  BY <1>2, <1>3, SubmitKeepsPlaces
<1>5. DOMAIN repoQ' = 1 .. Len(repoQ') /\ DOMAIN bareQ' = 1 .. Len(bareQ')
  BY <1>4
<1>6. ASSUME call'[v] = call[v], NEW i \in 1 .. Len(repoQ), repoQ[i] = v
      PROVE  \E j \in DOMAIN repoQ' : repoQ'[j] = v /\ j <= i /\ j < i
  <2>1. i # 1
    BY <1>1, <1>6
  <2>2. i - 1 \in 1 .. Len(repoQ') /\ repoQ'[i - 1] = v
    BY <1>2, <1>4, <1>6, <2>1
  <2> QED
    BY <1>1, <1>5, <2>2
<1>7. ASSUME NEW i \in 1 .. Len(bareQ), bareQ[i] = v
      PROVE  \/ \E j \in DOMAIN bareQ' : bareQ'[j] = v /\ j <= i
             \/ \E j \in DOMAIN repoQ' : repoQ'[j] = v
  <2>1. i \in Nat /\ i <= i /\ i - 1 <= i
    BY <1>1
  <2>2. CASE i \in 1 .. Len(b) /\ b[i] = bareQ[i]
    BY <1>4, <1>5, <1>7, <2>1, <2>2
  <2>3. CASE i - 1 \in 1 .. Len(b) /\ b[i - 1] = bareQ[i]
    BY <1>4, <1>5, <1>7, <2>1, <2>3
  <2>4. CASE \E j \in 1 .. Len(q) : q[j] = bareQ[i]
    BY <1>4, <1>5, <1>7, <2>4
  <2> QED
    BY <1>2, <2>2, <2>3, <2>4
<1> QED
  BY <1>1, <1>6, <1>7 DEF KeepsPlace

\* A command joins the queues, while the head's still runs.
LEMMA SubmitKeepsPlace ==
  ASSUME QInv, NEW w \in Wing, NEW pc, SetQueues(Submit(w, pc, repoQ, bareQ)),
         call[w].pc \notin BareStep \cup WorktreeStep,
         \A u \in Wing \ {w} : call'[u] = call[u], NEW v \in Wing
  PROVE  KeepsPlace(v)
<1>1. /\ repoQ \in Seq(Wing) /\ bareQ \in Seq(Wing)
      /\ DOMAIN repoQ = 1 .. Len(repoQ) /\ DOMAIN bareQ = 1 .. Len(bareQ)
      /\ Len(repoQ) \in Nat /\ Len(bareQ) \in Nat
      /\ \A u \in In(repoQ) : u \in Outstanding(BareStep) \cup Outstanding(WorktreeStep)
  BY DEF QInv, Queues, Served, In
<1>2. /\ repoQ' \in Seq(Wing) /\ bareQ' \in Seq(Wing)
      /\ \A i \in 1 .. Len(repoQ) : i \in 1 .. Len(repoQ') /\ repoQ'[i] = repoQ[i]
      /\ \A i \in 1 .. Len(bareQ) : i \in 1 .. Len(bareQ') /\ bareQ'[i] = bareQ[i]
  BY <1>1, SubmitKeepsPlaces
<1>3. DOMAIN repoQ' = 1 .. Len(repoQ') /\ DOMAIN bareQ' = 1 .. Len(bareQ')
  BY <1>2
<1>4. repoQ # <<>> => call'[Head(repoQ)] = call[Head(repoQ)]
  <2>1. ASSUME repoQ # <<>>
        PROVE  Head(repoQ) \in Wing /\ Head(repoQ) \in In(repoQ)
    BY <1>1, <2>1, TailIn
  <2> QED
    BY <1>1, <2>1 DEF Outstanding
<1>5. ASSUME NEW i \in 1 .. Len(repoQ), repoQ[i] = v
      PROVE  \E j \in DOMAIN repoQ' :
                /\ repoQ'[j] = v
                /\ j <= i
                /\ call'[Head(repoQ)] # call[Head(repoQ)] => j < i
  <2>1. i \in DOMAIN repoQ' /\ repoQ'[i] = v /\ i <= i /\ repoQ # <<>>
    BY <1>1, <1>2, <1>3, <1>5
  <2> QED
    BY <1>4, <2>1
<1>6. ASSUME NEW i \in 1 .. Len(bareQ), bareQ[i] = v
      PROVE  \E j \in DOMAIN bareQ' : bareQ'[j] = v /\ j <= i
  BY <1>1, <1>2, <1>3, <1>6
<1> QED
  BY <1>1, <1>5, <1>6 DEF KeepsPlace

\* No command is ever overtaken by one that came to its queue later.
THEOREM QueuesAreFair == Spec => NeverOvertaken
<1>1. ASSUME IInv, QInv, [Next]_vars
      PROVE  [\A w \in Wing : call'[w] = call[w] =>
               /\ \A i \in DOMAIN repoQ : repoQ[i] = w =>
                    \E j \in DOMAIN repoQ' :
                       /\ repoQ'[j] = w
                       /\ j <= i
                       /\ call'[Head(repoQ)] # call[Head(repoQ)] => j < i
               /\ \A i \in DOMAIN bareQ : bareQ[i] = w =>
                    \/ \E j \in DOMAIN bareQ' : bareQ'[j] = w /\ j <= i
                    \/ \E j \in DOMAIN repoQ' : repoQ'[j] = w]_vars
  <2> SUFFICES ASSUME NEW v \in Wing PROVE KeepsPlace(v)
    BY DEF KeepsPlace
  <2>1. ASSUME NEW w \in Wing, CommandStep(w) \/ FetchEnds(w)
        PROVE  KeepsPlace(v)
    <3>1. PICK pc : /\ Runs(w, call[w].pc) /\ Continue(w, pc)
                    /\ call'[w].pc = pc /\ pc # call[w].pc
      BY <2>1 DEF CommandStep, FetchEnds, Moves, Refetching
    <3> QED
      BY <1>1, <3>1, ContinueKeepsPlaces
  <2>2. ASSUME NEW w \in Wing, OwnStep(w)
        PROVE  KeepsPlace(v)
    <3>1. PICK pc : SetQueues(Submit(w, pc, repoQ, bareQ)) /\ Moves(w, pc)
      BY <2>2 DEF OwnStep
    <3>2. call[w].pc \notin BareStep \cup WorktreeStep
      BY <2>2 DEF OwnStep, BareStep, WorktreeStep
    <3> QED
      BY <1>1, <3>1, <3>2, SubmitKeepsPlace DEF Moves
  <2>3. ASSUME Restart
        PROVE  KeepsPlace(v)
    <3>1. call'[v].pc = "idle"
      BY <1>1, <2>3, NoCallSound DEF Restart
    <3>2. CASE call[v].pc # "idle"
      BY <3>1, <3>2 DEF KeepsPlace
    <3>3. CASE call[v].pc = "idle"
      <4>1. v \notin In(repoQ) \cup In(bareQ)
        BY <1>1, <3>3 DEF QInv, Queues, Served, Outstanding, BareStep, WorktreeStep
      <4>2. DOMAIN repoQ = 1 .. Len(repoQ) /\ DOMAIN bareQ = 1 .. Len(bareQ)
        BY <1>1 DEF QInv, Queues, Served
      <4> QED
        BY <4>1, <4>2 DEF KeepsPlace, In
    <3> QED
      BY <3>2, <3>3
  <2>4. ASSUME UNCHANGED <<call, queues>>
        PROVE  KeepsPlace(v)
    <3>1. /\ DOMAIN repoQ = 1 .. Len(repoQ) /\ DOMAIN bareQ = 1 .. Len(bareQ)
          /\ Len(repoQ) \in Nat /\ Len(bareQ) \in Nat
      BY <1>1 DEF QInv, Queues, Served
    <3> QED
      BY <2>4, <3>1 DEF KeepsPlace, queues
  <2> QED
    BY <1>1, <2>1, <2>2, <2>3, <2>4, Shapes
<1> QED
  BY <1>1, Invariance, QueueInvariance, PTL DEF Spec, NeverOvertaken
=============================================================================
