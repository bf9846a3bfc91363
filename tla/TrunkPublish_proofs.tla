------------------------ MODULE TrunkPublish_proofs ------------------------
(***************************************************************************)
(* Proofs about TrunkPublish, for any set of wings and any bounds.         *)
(*                                                                         *)
(* LocalNeverAhead is not inductive: that a local copy stays behind origin *)
(* when a push moves origin, or when an accepted push moves the copies,    *)
(* rests on the commit graph being closed under reachability and on what   *)
(* each call in progress knows about the commits it holds.  IInv says so.  *)
(***************************************************************************)
EXTENDS TrunkPublish, SequenceTheorems, TLAPS

\* Commits below next exist; what a commit reaches, it reaches entirely.
Closed ==
  /\ \A c \in Commit : c < next => c \in hist[c]
  /\ \A c \in Commit : \A x \in hist[c] : x < next /\ hist[x] \subseteq hist[c]

\* Where movementTip is still the branch: nothing moves the branch of a wing
\* whose merge is in progress before the merge does.
Merging == {"attempt", "build", "push", "advance", "forward", "joined",
            "refetch", "realign"}

\* What a call r of a wing whose branch is at b relies on.
SoundCall(r, b) ==
  /\ r.tip < next /\ r.base < next /\ r.cand < next
  /\ r.pc \in {"joined", "refetch", "realign"} => r.tries < MaxAttempts
  /\ r.pc \in Merging => r.tip = b
  /\ r.pc \in {"push", "advance", "forward"} => r.tip \in hist[r.cand]
  /\ r.pc \in {"advance", "forward"} => r.cand \in hist[origin]

Sound(w) == branch[w] < next /\ onto[w] < next /\ SoundCall(call[w], branch[w])

IInv == /\ TypeOK
        /\ Closed
        /\ origin < next
        /\ LocalNeverAhead
        /\ acked \subseteq hist[origin]
        /\ \A w \in Wing : Sound(w)

\* What is published stays published, and commits never change.
Grows == /\ next <= next'
         /\ \A c \in Commit : c < next => hist'[c] = hist[c]
         /\ hist[origin] \subseteq (hist')[origin']

\* What a step does to TrunkLedger's view of the trunk.
Lands == /\ hist[origin] \subseteq (hist')[origin']
         /\ \/ UNCHANGED <<acked, cache>> /\ (hist')[cache] = hist[cache]
            \/ UNCHANGED <<hist, origin>> /\ acked \subseteq acked'

-----------------------------------------------------------------------------
\* exec's queues only ever hold wings.
LEMMA QueuesTyped ==
  ASSUME TypeOK, NEW w \in Wing, NEW pc, repoQ # <<>>, Continue(w, pc)
  PROVE  repoQ' \in Seq(Wing) /\ bareQ' \in Seq(Wing)
<1>1. Popped[1] \in Seq(Wing) /\ Popped[2] \in Seq(Wing)
  BY DEF TypeOK, Popped
<1>2. /\ Submit(w, pc, Popped[1], Popped[2])[1] \in Seq(Wing)
      /\ Submit(w, pc, Popped[1], Popped[2])[2] \in Seq(Wing)
  BY <1>1 DEF Submit
<1> QED
  BY <1>2 DEF Continue, SetQueues

\* A call that reaches the queues is queued among wings.
LEMMA SubmitTyped ==
  ASSUME TypeOK, NEW w \in Wing, NEW pc, SetQueues(Submit(w, pc, repoQ, bareQ))
  PROVE  repoQ' \in Seq(Wing) /\ bareQ' \in Seq(Wing)
  BY DEF TypeOK, Submit, SetQueues

\* A new commit on existing parents keeps the graph closed and grows it.
LEMMA CreateGrows ==
  ASSUME TypeOK, Closed, NEW P \in SUBSET Commit, \A p \in P : p < next, Create(P)
  PROVE  /\ hist' \in [Commit -> SUBSET Commit]
         /\ next' \in 1 .. MaxCommit + 1
         /\ next \in Commit
         /\ next' = next + 1
         /\ Closed'
         /\ \A c \in Commit : c < next => hist'[c] = hist[c]
         /\ next \in hist'[next]
         /\ \A p \in P : hist[p] \subseteq hist'[next]
<1> USE BoundsAssumption
<1> DEFINE new == {next} \cup UNION {hist[p] : p \in P}
<1>1. next \in Commit /\ next' = next + 1 /\ hist' = [hist EXCEPT ![next] = new]
  BY DEF Create
<1>2. new \in SUBSET Commit
  BY <1>1 DEF TypeOK
<1>3. hist' \in [Commit -> SUBSET Commit] /\ next' \in 1 .. MaxCommit + 1
  BY <1>1, <1>2 DEF TypeOK, Commit
<1>4. /\ \A c \in Commit : c < next => hist'[c] = hist[c]
      /\ hist'[next] = new
  BY <1>1 DEF TypeOK, Commit
<1>5. \A c \in Commit : c < next' => c \in hist'[c]
  BY <1>1, <1>4 DEF TypeOK, Closed, Commit
<1>6. \A c \in Commit : \A x \in hist'[c] : x < next' /\ hist'[x] \subseteq hist'[c]
  <2>1. ASSUME NEW c \in Commit, NEW x \in hist'[c] PROVE x < next' /\ hist'[x] \subseteq hist'[c]
    <3>1. CASE c # next
      <4>1. hist'[c] = hist[c]
        BY <1>1, <3>1 DEF TypeOK
      <4>2. x < next /\ hist[x] \subseteq hist[c] /\ x \in Commit
        BY <4>1 DEF Closed, TypeOK
      <4> QED
        BY <4>1, <4>2, <1>1, <1>4 DEF TypeOK, Commit
    <3>2. CASE c = next
      <4>1. CASE x = next
        BY <4>1, <3>2, <1>1 DEF Commit
      <4>2. CASE x # next
        <5>1. PICK p \in P : x \in hist[p]
          BY <1>4, <3>2, <4>2
        <5>2. x < next /\ hist[x] \subseteq hist[p] /\ x \in Commit
          BY <5>1 DEF Closed, TypeOK
        <5> QED
          BY <5>1, <5>2, <3>2, <1>1, <1>4 DEF TypeOK, Commit
      <4> QED
        BY <4>1, <4>2
    <3> QED
      BY <3>1, <3>2
  <2> QED
    BY <2>1
<1> QED
  BY <1>1, <1>3, <1>4, <1>5, <1>6 DEF Closed

-----------------------------------------------------------------------------
\* A wing a step leaves alone can still rely on what its call knows.
LEMMA SoundStays ==
  ASSUME IInv, Grows, next' \in Nat, NEW v \in Wing,
         branch'[v] = branch[v], onto'[v] = onto[v], call'[v] = call[v]
  PROVE  Sound(v)'
<1>1. /\ branch[v] \in Commit /\ onto[v] \in Commit
      /\ call[v].tip \in Commit /\ call[v].base \in Commit /\ call[v].cand \in Commit
  BY DEF IInv, TypeOK, Call
<1>2. hist'[call[v].cand] = hist[call[v].cand]
  BY <1>1 DEF IInv, Sound, SoundCall, Grows
<1>3. next \in Nat /\ next <= next' /\ \A c \in Commit : c < next => c < next'
  BY BoundsAssumption DEF IInv, TypeOK, Grows, Commit
<1> QED
  BY <1>1, <1>2, <1>3 DEF IInv, Sound, SoundCall, Grows

\* What a step of w has to show.
LEMMA WingStep ==
  ASSUME IInv, NEW w \in Wing, TypeOK', Closed', Grows,
         origin' < next', LocalNeverAhead', acked' \subseteq (hist')[origin'],
         \A v \in Wing \ {w} : /\ branch'[v] = branch[v]
                               /\ onto'[v] = onto[v]
                               /\ call'[v] = call[v],
         Sound(w)'
  PROVE  IInv'
<1>1. next' \in Nat
  BY BoundsAssumption DEF TypeOK
<1>2. \A v \in Wing \ {w} : Sound(v)'
  BY <1>1, SoundStays
<1> QED
  BY <1>2 DEF IInv

\* The graph as a step that creates no commit leaves it.
LEMMA GraphStays ==
  ASSUME IInv, UNCHANGED graph
  PROVE  /\ Closed'
         /\ hist' \in [Commit -> SUBSET Commit]
         /\ next' \in 1 .. MaxCommit + 1
         /\ next \in Nat
         /\ \A c \in Commit : hist'[c] = hist[c]
         /\ next' = next /\ hist' = hist
  BY BoundsAssumption DEF IInv, TypeOK, Closed, graph

\* The invariant, read for one wing.
LEMMA Facts ==
  ASSUME IInv, NEW w \in Wing
  PROVE  /\ TypeOK /\ Closed
         /\ MaxCommit \in Nat /\ MaxAttempts \in Nat \ {0}
         /\ \A c \in Commit : c \in Nat
         /\ Root \in Commit /\ Root < next
         /\ next \in Nat
         /\ {origin, track, cache, branch[w], onto[w]} \subseteq Commit
         /\ origin < next /\ track < next /\ cache < next
         /\ branch[w] < next /\ onto[w] < next
         /\ call[w] \in Call
         /\ call[w].tip \in Commit /\ call[w].base \in Commit /\ call[w].cand \in Commit
         /\ call[w].tip < next /\ call[w].base < next /\ call[w].cand < next
         /\ call[w].tries \in 0 .. MaxAttempts /\ call[w].since \in Nat
         /\ SoundCall(call[w], branch[w])
<1>1. /\ TypeOK /\ Closed /\ MaxCommit \in Nat /\ MaxAttempts \in Nat \ {0}
      /\ next \in Nat /\ next >= 1
  BY BoundsAssumption DEF IInv, TypeOK
<1>2. Root \in Commit /\ Root < next /\ \A c \in Commit : c \in Nat
  BY <1>1 DEF Root, Commit
<1>3. {origin, track, cache, branch[w], onto[w]} \subseteq Commit /\ call[w] \in Call
  BY <1>1 DEF TypeOK
<1>4. origin < next /\ track < next /\ cache < next
  BY <1>3 DEF IInv, LocalNeverAhead, Closed
<1>5. /\ call[w].tip \in Commit /\ call[w].base \in Commit /\ call[w].cand \in Commit
      /\ call[w].tries \in 0 .. MaxAttempts /\ call[w].since \in Nat
  BY <1>3 DEF Call
<1>6. /\ branch[w] < next /\ onto[w] < next
      /\ call[w].tip < next /\ call[w].base < next /\ call[w].cand < next
     /\ SoundCall(call[w], branch[w])
  BY DEF IInv, Sound, SoundCall
<1> QED
  BY <1>1, <1>2, <1>3, <1>4, <1>5, <1>6

\* A step that replaces the call of w by r.
LEMMA CallChanges ==
  ASSUME IInv, NEW w \in Wing, NEW r \in Call, call' = [call EXCEPT ![w] = r]
  PROVE  /\ call' \in [Wing -> Call]
         /\ call'[w] = r
         /\ \A v \in Wing \ {w} : call'[v] = call[v]
  BY DEF IInv, TypeOK

\* A call that is over relies on nothing.
LEMMA NoCallSound ==
  ASSUME IInv
  PROVE  NoCall \in Call /\ NoCall.pc = "idle" /\ \A b : SoundCall(NoCall, b)
<1>1. Root \in Commit /\ Root < next /\ MaxAttempts \in Nat
  BY BoundsAssumption DEF IInv, TypeOK, Root, Commit
<1>2. NoCall \in Call /\ NoCall.pc = "idle"
  BY <1>1 DEF NoCall, NewCall, Call, Step
<1> QED
  BY <1>1, <1>2 DEF NoCall, NewCall, SoundCall, Merging

\* If w's call becomes r and r is sound, all calls are.
LEMMA OneCallSound ==
  ASSUME IInv, NEW w \in Wing, NEW r \in Call, call' = [call EXCEPT ![w] = r],
         SoundCall(r, branch[w])
  PROVE  call' \in [Wing -> Call] /\ \A v \in Wing : SoundCall(call'[v], branch[v])
  BY CallChanges, Facts

\* A step that moves no branch and nothing on origin: the local copies of the
\* trunk move within what origin holds, and the calls stay sound.
LEMMA QuietStep ==
  ASSUME IInv,
         call' \in [Wing -> Call],
         \A v \in Wing : SoundCall(call'[v], branch[v]),
         UNCHANGED <<graph, origin, branch>>,
         track' \in hist[origin], cache' \in hist[origin],
         halted' \subseteq Wing, detached' \subseteq Wing,
         onto' = onto \/ \E w \in Wing : onto' = [onto EXCEPT ![w] = cache],
         gen' \in Nat, repoQ' \in Seq(Wing), bareQ' \in Seq(Wing),
         acked' \subseteq hist[origin], acked \subseteq acked'
  PROVE  IInv' /\ Lands
<1>1. onto' \in [Wing -> Commit] /\ \A v \in Wing : onto'[v] \in {onto[v], cache}
  BY DEF IInv, TypeOK
<1>2. hist[origin] \subseteq Commit /\ hist' = hist /\ next' = next
  BY GraphStays DEF IInv, TypeOK
<1>3. TypeOK'
  BY <1>1, <1>2 DEF IInv, TypeOK
<1>4. Closed'
  BY GraphStays
<1>5. ASSUME NEW v \in Wing PROVE Sound(v)'
  BY <1>1, <1>2, Facts DEF Sound, SoundCall
<1>6. origin' < next' /\ LocalNeverAhead' /\ acked' \subseteq (hist')[origin']
  BY <1>2 DEF IInv, LocalNeverAhead
<1> QED
  BY <1>2, <1>3, <1>4, <1>5, <1>6 DEF IInv, Lands

-----------------------------------------------------------------------------
(* The agent, and everyone outside this process. *)

\* A call is made: a halted rebase is continued, anything else fetches.
LEMMA CallsStep ==
  ASSUME IInv, NEW w \in Wing, NEW op \in {"start", "merge"}, Calls(w, op)
  PROVE  IInv' /\ Lands
<1> DEFINE pc == IF w \in halted THEN "continue" ELSE "fetch"
           r == NewCall(op, pc)
<1>1. /\ call' = [call EXCEPT ![w] = r]
      /\ SetQueues(Submit(w, pc, repoQ, bareQ))
      /\ UNCHANGED <<graph, refs, branch, worktrees, gen, acked>>
  BY DEF Calls
<1>2. repoQ' \in Seq(Wing) /\ bareQ' \in Seq(Wing)
  BY <1>1, SubmitTyped DEF IInv
<1>3. r \in Call /\ SoundCall(r, branch[w])
  BY Facts DEF NewCall, Call, Step, BareStep, WorktreeStep, SoundCall, Merging
<1>4. call' \in [Wing -> Call] /\ \A v \in Wing : SoundCall(call'[v], branch[v])
  BY <1>1, <1>3, OneCallSound
<1> QED
  BY <1>1, <1>2, <1>4, QuietStep DEF IInv, TypeOK, LocalNeverAhead, refs, worktrees

-----------------------------------------------------------------------------
(* DiskCheckedOutMovementImpl.start. *)

\* The tracking ref takes origin's tip.
LEMMA FetchStep ==
  ASSUME IInv, NEW w \in Wing, Fetch(w)
  PROVE  IInv' /\ Lands
<1> DEFINE r == [call[w] EXCEPT !.pc = "align"]
<1>1. call[w].pc = "fetch" /\ repoQ # <<>>
  BY DEF Fetch, Runs
<1>2. repoQ' \in Seq(Wing) /\ bareQ' \in Seq(Wing)
  BY <1>1, QueuesTyped DEF IInv, Fetch
<1>3. r \in Call /\ SoundCall(r, branch[w])
  BY <1>1, Facts DEF Call, Step, BareStep, WorktreeStep, SoundCall, Merging
<1>4. call' = [call EXCEPT ![w] = r]
  BY DEF IInv, TypeOK, Fetch
<1>5. call' \in [Wing -> Call] /\ \A v \in Wing : SoundCall(call'[v], branch[v])
  BY <1>3, <1>4, OneCallSound
<1>6. /\ UNCHANGED <<graph, origin, branch>>
      /\ track' \in hist[origin] /\ cache' \in hist[origin]
  BY <1>1, Facts DEF IInv, LocalNeverAhead, Closed, SoundCall, Fetch, worktrees
<1>7. /\ halted' \subseteq Wing /\ detached' \subseteq Wing
      /\ onto' = onto \/ \E v \in Wing : onto' = [onto EXCEPT ![v] = cache]
      /\ gen' \in Nat /\ acked' \subseteq hist[origin] /\ acked \subseteq acked'
  BY DEF IInv, TypeOK, LocalNeverAhead, Fetch, worktrees
<1> QED
  BY <1>2, <1>5, <1>6, <1>7, QuietStep

\* The local trunk takes the tracking ref.
LEMMA AlignStep ==
  ASSUME IInv, NEW w \in Wing, Align(w)
  PROVE  IInv' /\ Lands
<1> DEFINE r == [call[w] EXCEPT !.pc = "rebase"]
<1>1. call[w].pc = "align" /\ repoQ # <<>>
  BY DEF Align, Runs
<1>2. repoQ' \in Seq(Wing) /\ bareQ' \in Seq(Wing)
  BY <1>1, QueuesTyped DEF IInv, Align
<1>3. r \in Call /\ SoundCall(r, branch[w])
  BY <1>1, Facts DEF Call, Step, BareStep, WorktreeStep, SoundCall, Merging
<1>4. call' = [call EXCEPT ![w] = r]
  BY DEF IInv, TypeOK, Align
<1>5. call' \in [Wing -> Call] /\ \A v \in Wing : SoundCall(call'[v], branch[v])
  BY <1>3, <1>4, OneCallSound
<1>6. /\ UNCHANGED <<graph, origin, branch>>
      /\ track' \in hist[origin] /\ cache' \in hist[origin]
  BY <1>1, Facts DEF IInv, LocalNeverAhead, Closed, SoundCall, Align, worktrees
<1>7. /\ halted' \subseteq Wing /\ detached' \subseteq Wing
      /\ onto' = onto \/ \E v \in Wing : onto' = [onto EXCEPT ![v] = cache]
      /\ gen' \in Nat /\ acked' \subseteq hist[origin] /\ acked \subseteq acked'
  BY DEF IInv, TypeOK, LocalNeverAhead, Align, worktrees
<1> QED
  BY <1>2, <1>5, <1>6, <1>7, QuietStep

\* The rebase stops, its base recorded.
LEMMA RebaseHaltsStep ==
  ASSUME IInv, NEW w \in Wing, RebaseHalts(w)
  PROVE  IInv' /\ Lands
<1> DEFINE r == NoCall
<1>1. call[w].pc = "rebase" /\ repoQ # <<>>
  BY DEF RebaseHalts, Runs
<1>2. repoQ' \in Seq(Wing) /\ bareQ' \in Seq(Wing)
  BY <1>1, QueuesTyped DEF IInv, RebaseHalts, Return
<1>3. r \in Call /\ SoundCall(r, branch[w])
  BY NoCallSound
<1>4. call' = [call EXCEPT ![w] = r]
  BY DEF IInv, TypeOK, RebaseHalts
<1>5. call' \in [Wing -> Call] /\ \A v \in Wing : SoundCall(call'[v], branch[v])
  BY <1>3, <1>4, OneCallSound
<1>6. /\ UNCHANGED <<graph, origin, branch>>
      /\ track' \in hist[origin] /\ cache' \in hist[origin]
  BY <1>1, Facts DEF IInv, LocalNeverAhead, Closed, SoundCall, RebaseHalts, Return, refs
<1>7. /\ halted' \subseteq Wing /\ detached' \subseteq Wing
      /\ onto' = onto \/ \E v \in Wing : onto' = [onto EXCEPT ![v] = cache]
      /\ gen' \in Nat /\ acked' \subseteq hist[origin] /\ acked \subseteq acked'
  BY DEF IInv, TypeOK, LocalNeverAhead, RebaseHalts, Return, refs
<1> QED
  BY <1>2, <1>5, <1>6, <1>7, QuietStep

-----------------------------------------------------------------------------
(* DiskCheckedOutMovementImpl.merge over publishWithRetry. *)

\* The call remembers the tip of its branch.
LEMMA BeginStep ==
  ASSUME IInv, NEW w \in Wing, Begin(w)
  PROVE  IInv' /\ Lands
<1> DEFINE r == [call[w] EXCEPT !.pc = "attempt", !.tip = branch[w], !.since = gen, !.tries = 1]
<1>1. call[w].pc = "begin"
  BY DEF Begin
<1>2. repoQ' \in Seq(Wing) /\ bareQ' \in Seq(Wing)
  BY DEF IInv, TypeOK, Begin, queues
<1>3. r \in Call /\ SoundCall(r, branch[w])
  <2>1. 1 \in 0 .. MaxAttempts /\ gen \in Nat
    BY Facts DEF TypeOK
  <2> QED
    BY <2>1, Facts DEF Call, Step, SoundCall, Merging
<1>4. call' = [call EXCEPT ![w] = r]
  BY DEF IInv, TypeOK, Begin
<1>5. call' \in [Wing -> Call] /\ \A v \in Wing : SoundCall(call'[v], branch[v])
  BY <1>3, <1>4, OneCallSound
<1>6. /\ UNCHANGED <<graph, origin, branch>>
      /\ track' \in hist[origin] /\ cache' \in hist[origin]
  BY <1>1, Facts DEF IInv, LocalNeverAhead, Closed, SoundCall, Begin, refs, worktrees
<1>7. /\ halted' \subseteq Wing /\ detached' \subseteq Wing
      /\ onto' = onto \/ \E v \in Wing : onto' = [onto EXCEPT ![v] = cache]
      /\ gen' \in Nat /\ acked' \subseteq hist[origin] /\ acked \subseteq acked'
  BY DEF IInv, TypeOK, LocalNeverAhead, Begin, refs, worktrees
<1> QED
  BY <1>2, <1>5, <1>6, <1>7, QuietStep

\* The call remembers the cached tip.
LEMMA AttemptStep ==
  ASSUME IInv, NEW w \in Wing, Attempt(w)
  PROVE  IInv' /\ Lands
<1> DEFINE r == [call[w] EXCEPT !.pc = "build", !.base = cache]
<1>1. call[w].pc = "attempt"
  BY DEF Attempt
<1>2. repoQ' \in Seq(Wing) /\ bareQ' \in Seq(Wing)
  BY SubmitTyped DEF IInv, Attempt
<1>3. r \in Call /\ SoundCall(r, branch[w])
  BY <1>1, Facts DEF Call, Step, BareStep, WorktreeStep, SoundCall, Merging
<1>4. call' = [call EXCEPT ![w] = r]
  BY DEF IInv, TypeOK, Attempt
<1>5. call' \in [Wing -> Call] /\ \A v \in Wing : SoundCall(call'[v], branch[v])
  BY <1>3, <1>4, OneCallSound
<1>6. /\ UNCHANGED <<graph, origin, branch>>
      /\ track' \in hist[origin] /\ cache' \in hist[origin]
  BY <1>1, Facts DEF IInv, LocalNeverAhead, Closed, SoundCall, Attempt, refs, worktrees
<1>7. /\ halted' \subseteq Wing /\ detached' \subseteq Wing
      /\ onto' = onto \/ \E v \in Wing : onto' = [onto EXCEPT ![v] = cache]
      /\ gen' \in Nat /\ acked' \subseteq hist[origin] /\ acked \subseteq acked'
  BY DEF IInv, TypeOK, LocalNeverAhead, Attempt, refs, worktrees
<1> QED
  BY <1>2, <1>5, <1>6, <1>7, QuietStep

\* The branch is the cached tip, which origin holds.
LEMMA AttemptUpToDateStep ==
  ASSUME IInv, NEW w \in Wing, AttemptUpToDate(w)
  PROVE  IInv' /\ Lands
<1> DEFINE r == NoCall
<1>1. call[w].pc = "attempt"
  BY DEF AttemptUpToDate
<1>2. repoQ' \in Seq(Wing) /\ bareQ' \in Seq(Wing)
  BY DEF IInv, TypeOK, AttemptUpToDate, queues
<1>3. r \in Call /\ SoundCall(r, branch[w])
  BY NoCallSound
<1>4. call' = [call EXCEPT ![w] = r]
  BY DEF IInv, TypeOK, AttemptUpToDate
<1>5. call' \in [Wing -> Call] /\ \A v \in Wing : SoundCall(call'[v], branch[v])
  BY <1>3, <1>4, OneCallSound
<1>6. /\ UNCHANGED <<graph, origin, branch>>
      /\ track' \in hist[origin] /\ cache' \in hist[origin]
  BY <1>1, Facts DEF IInv, LocalNeverAhead, Closed, SoundCall, AttemptUpToDate, refs, worktrees
<1>7. /\ halted' \subseteq Wing /\ detached' \subseteq Wing
      /\ onto' = onto \/ \E v \in Wing : onto' = [onto EXCEPT ![v] = cache]
      /\ gen' \in Nat /\ acked' \subseteq hist[origin] /\ acked \subseteq acked'
  BY DEF IInv, TypeOK, LocalNeverAhead, AttemptUpToDate, refs, worktrees
<1> QED
  BY <1>2, <1>5, <1>6, <1>7, QuietStep

\* The cached tip itself is pushed; it holds the branch.
LEMMA BuildNothingStep ==
  ASSUME IInv, NEW w \in Wing, BuildNothing(w)
  PROVE  IInv' /\ Lands
<1> DEFINE r == [call[w] EXCEPT !.pc = "push", !.cand = call[w].base]
<1>1. call[w].pc = "build" /\ repoQ # <<>>
  BY DEF BuildNothing, Runs
<1>2. repoQ' \in Seq(Wing) /\ bareQ' \in Seq(Wing)
  BY <1>1, QueuesTyped DEF IInv, BuildNothing
<1>3. r \in Call /\ SoundCall(r, branch[w])
  BY <1>1, Facts DEF BuildNothing, Call, Step, BareStep, SoundCall, Merging
<1>4. call' = [call EXCEPT ![w] = r]
  BY DEF IInv, TypeOK, BuildNothing
<1>5. call' \in [Wing -> Call] /\ \A v \in Wing : SoundCall(call'[v], branch[v])
  BY <1>3, <1>4, OneCallSound
<1>6. /\ UNCHANGED <<graph, origin, branch>>
      /\ track' \in hist[origin] /\ cache' \in hist[origin]
  BY <1>1, Facts DEF IInv, LocalNeverAhead, Closed, SoundCall, BuildNothing, refs, worktrees
<1>7. /\ halted' \subseteq Wing /\ detached' \subseteq Wing
      /\ onto' = onto \/ \E v \in Wing : onto' = [onto EXCEPT ![v] = cache]
      /\ gen' \in Nat /\ acked' \subseteq hist[origin] /\ acked \subseteq acked'
  BY DEF IInv, TypeOK, LocalNeverAhead, BuildNothing, refs, worktrees
<1> QED
  BY <1>2, <1>5, <1>6, <1>7, QuietStep

\* The trial merge is abandoned.
LEMMA BuildConflictsStep ==
  ASSUME IInv, NEW w \in Wing, BuildConflicts(w)
  PROVE  IInv' /\ Lands
<1> DEFINE r == NoCall
<1>1. call[w].pc = "build" /\ repoQ # <<>>
  BY DEF BuildConflicts, Runs
<1>2. repoQ' \in Seq(Wing) /\ bareQ' \in Seq(Wing)
  BY <1>1, QueuesTyped DEF IInv, BuildConflicts, Return
<1>3. r \in Call /\ SoundCall(r, branch[w])
  BY NoCallSound
<1>4. call' = [call EXCEPT ![w] = r]
  BY DEF IInv, TypeOK, BuildConflicts
<1>5. call' \in [Wing -> Call] /\ \A v \in Wing : SoundCall(call'[v], branch[v])
  BY <1>3, <1>4, OneCallSound
<1>6. /\ UNCHANGED <<graph, origin, branch>>
      /\ track' \in hist[origin] /\ cache' \in hist[origin]
  BY <1>1, Facts DEF IInv, LocalNeverAhead, Closed, SoundCall, BuildConflicts, Return, refs, worktrees
<1>7. /\ halted' \subseteq Wing /\ detached' \subseteq Wing
      /\ onto' = onto \/ \E v \in Wing : onto' = [onto EXCEPT ![v] = cache]
      /\ gen' \in Nat /\ acked' \subseteq hist[origin] /\ acked \subseteq acked'
  BY DEF IInv, TypeOK, LocalNeverAhead, BuildConflicts, Return, refs, worktrees
<1> QED
  BY <1>2, <1>5, <1>6, <1>7, QuietStep

\* The local trunk takes the commit that was pushed.
LEMMA AdvanceStep ==
  ASSUME IInv, NEW w \in Wing, Advance(w)
  PROVE  IInv' /\ Lands
<1> DEFINE r == [call[w] EXCEPT !.pc = "forward"]
<1>1. call[w].pc = "advance" /\ repoQ # <<>>
  BY DEF Advance, Runs
<1>2. repoQ' \in Seq(Wing) /\ bareQ' \in Seq(Wing)
  BY <1>1, QueuesTyped DEF IInv, Advance
<1>3. r \in Call /\ SoundCall(r, branch[w])
  BY <1>1, Facts DEF Call, Step, BareStep, WorktreeStep, SoundCall, Merging
<1>4. call' = [call EXCEPT ![w] = r]
  BY DEF IInv, TypeOK, Advance
<1>5. call' \in [Wing -> Call] /\ \A v \in Wing : SoundCall(call'[v], branch[v])
  BY <1>3, <1>4, OneCallSound
<1>6. /\ UNCHANGED <<graph, origin, branch>>
      /\ track' \in hist[origin] /\ cache' \in hist[origin]
  BY <1>1, Facts DEF IInv, LocalNeverAhead, Closed, SoundCall, Advance, worktrees
<1>7. /\ halted' \subseteq Wing /\ detached' \subseteq Wing
      /\ onto' = onto \/ \E v \in Wing : onto' = [onto EXCEPT ![v] = cache]
      /\ gen' \in Nat /\ acked' \subseteq hist[origin] /\ acked \subseteq acked'
  BY DEF IInv, TypeOK, LocalNeverAhead, Advance, worktrees
<1> QED
  BY <1>2, <1>5, <1>6, <1>7, QuietStep

-----------------------------------------------------------------------------
(* A rejected push. *)

\* The call gives up.
LEMMA RejectedForGoodStep ==
  ASSUME IInv, NEW w \in Wing, RejectedForGood(w)
  PROVE  IInv' /\ Lands
<1> DEFINE r == NoCall
<1>1. call[w].pc = "push" /\ repoQ # <<>>
  BY DEF RejectedForGood, Runs, Rejected
<1>2. repoQ' \in Seq(Wing) /\ bareQ' \in Seq(Wing)
  BY <1>1, QueuesTyped DEF IInv, RejectedForGood, Return
<1>3. r \in Call /\ SoundCall(r, branch[w])
  BY NoCallSound
<1>4. call' = [call EXCEPT ![w] = r]
  BY DEF IInv, TypeOK, RejectedForGood
<1>5. call' \in [Wing -> Call] /\ \A v \in Wing : SoundCall(call'[v], branch[v])
  BY <1>3, <1>4, OneCallSound
<1>6. /\ UNCHANGED <<graph, origin, branch>>
      /\ track' \in hist[origin] /\ cache' \in hist[origin]
  BY <1>1, Facts DEF IInv, LocalNeverAhead, Closed, SoundCall, RejectedForGood, Return, refs, worktrees
<1>7. /\ halted' \subseteq Wing /\ detached' \subseteq Wing
      /\ onto' = onto \/ \E v \in Wing : onto' = [onto EXCEPT ![v] = cache]
      /\ gen' \in Nat /\ acked' \subseteq hist[origin] /\ acked \subseteq acked'
  BY DEF IInv, TypeOK, LocalNeverAhead, RejectedForGood, Return, refs, worktrees
<1> QED
  BY <1>2, <1>5, <1>6, <1>7, QuietStep

\* The call tries again.
LEMMA RejectedKnownStep ==
  ASSUME IInv, NEW w \in Wing, RejectedKnown(w)
  PROVE  IInv' /\ Lands
<1> DEFINE r == Retrying(call[w], gen)
<1>1. call[w].pc = "push" /\ repoQ # <<>>
  BY DEF RejectedKnown, Runs, Rejected
<1>2. repoQ' \in Seq(Wing) /\ bareQ' \in Seq(Wing)
  BY <1>1, QueuesTyped DEF IInv, RejectedKnown, Return
<1>3. r \in Call /\ SoundCall(r, branch[w])
  <2>1. ~(call[w].tries >= MaxAttempts) /\ gen \in Nat
    BY DEF RejectedKnown, LastTry, IInv, TypeOK
  <2>2. call[w].tries < MaxAttempts /\ call[w].tries + 1 \in 0 .. MaxAttempts
    BY <2>1, Facts
  <2> QED
    BY <1>1, <2>1, <2>2, Facts DEF Retrying, Call, Step, BareStep, SoundCall, Merging
<1>4. call' = [call EXCEPT ![w] = r]
  BY DEF IInv, TypeOK, RejectedKnown
<1>5. call' \in [Wing -> Call] /\ \A v \in Wing : SoundCall(call'[v], branch[v])
  BY <1>3, <1>4, OneCallSound
<1>6. /\ UNCHANGED <<graph, origin, branch>>
      /\ track' \in hist[origin] /\ cache' \in hist[origin]
  BY <1>1, Facts DEF IInv, LocalNeverAhead, Closed, SoundCall, RejectedKnown, Return, refs, worktrees
<1>7. /\ halted' \subseteq Wing /\ detached' \subseteq Wing
      /\ onto' = onto \/ \E v \in Wing : onto' = [onto EXCEPT ![v] = cache]
      /\ gen' \in Nat /\ acked' \subseteq hist[origin] /\ acked \subseteq acked'
  BY DEF IInv, TypeOK, LocalNeverAhead, RejectedKnown, Return, refs, worktrees
<1> QED
  BY <1>2, <1>5, <1>6, <1>7, QuietStep

\* The call waits for the fetch of another.
LEMMA RejectedJoinsStep ==
  ASSUME IInv, NEW w \in Wing, RejectedJoins(w)
  PROVE  IInv' /\ Lands
<1> DEFINE r == [call[w] EXCEPT !.pc = "joined"]
<1>1. call[w].pc = "push" /\ repoQ # <<>>
  BY DEF RejectedJoins, Runs, Rejected
<1>2. repoQ' \in Seq(Wing) /\ bareQ' \in Seq(Wing)
  BY <1>1, QueuesTyped DEF IInv, RejectedJoins, Return
<1>3. r \in Call /\ SoundCall(r, branch[w])
  <2>1. ~(call[w].tries >= MaxAttempts) /\ gen \in Nat
    BY DEF RejectedJoins, LastTry, IInv, TypeOK
  <2>2. call[w].tries < MaxAttempts /\ call[w].tries + 1 \in 0 .. MaxAttempts
    BY <2>1, Facts
  <2> QED
    BY <1>1, <2>1, <2>2, Facts DEF Call, Step, BareStep, SoundCall, Merging
<1>4. call' = [call EXCEPT ![w] = r]
  BY DEF IInv, TypeOK, RejectedJoins
<1>5. call' \in [Wing -> Call] /\ \A v \in Wing : SoundCall(call'[v], branch[v])
  BY <1>3, <1>4, OneCallSound
<1>6. /\ UNCHANGED <<graph, origin, branch>>
      /\ track' \in hist[origin] /\ cache' \in hist[origin]
  BY <1>1, Facts DEF IInv, LocalNeverAhead, Closed, SoundCall, RejectedJoins, Return, refs, worktrees
<1>7. /\ halted' \subseteq Wing /\ detached' \subseteq Wing
      /\ onto' = onto \/ \E v \in Wing : onto' = [onto EXCEPT ![v] = cache]
      /\ gen' \in Nat /\ acked' \subseteq hist[origin] /\ acked \subseteq acked'
  BY DEF IInv, TypeOK, LocalNeverAhead, RejectedJoins, Return, refs, worktrees
<1> QED
  BY <1>2, <1>5, <1>6, <1>7, QuietStep

\* The call fetches.
LEMMA RejectedFetchesStep ==
  ASSUME IInv, NEW w \in Wing, RejectedFetches(w)
  PROVE  IInv' /\ Lands
<1> DEFINE r == [call[w] EXCEPT !.pc = "refetch"]
<1>1. call[w].pc = "push" /\ repoQ # <<>>
  BY DEF RejectedFetches, Runs, Rejected
<1>2. repoQ' \in Seq(Wing) /\ bareQ' \in Seq(Wing)
  BY <1>1, QueuesTyped DEF IInv, RejectedFetches
<1>3. r \in Call /\ SoundCall(r, branch[w])
  <2>1. ~(call[w].tries >= MaxAttempts) /\ gen \in Nat
    BY DEF RejectedFetches, LastTry, IInv, TypeOK
  <2>2. call[w].tries < MaxAttempts /\ call[w].tries + 1 \in 0 .. MaxAttempts
    BY <2>1, Facts
  <2> QED
    BY <1>1, <2>1, <2>2, Facts DEF Call, Step, BareStep, SoundCall, Merging
<1>4. call' = [call EXCEPT ![w] = r]
  BY DEF IInv, TypeOK, RejectedFetches
<1>5. call' \in [Wing -> Call] /\ \A v \in Wing : SoundCall(call'[v], branch[v])
  BY <1>3, <1>4, OneCallSound
<1>6. /\ UNCHANGED <<graph, origin, branch>>
      /\ track' \in hist[origin] /\ cache' \in hist[origin]
  BY <1>1, Facts DEF IInv, LocalNeverAhead, Closed, SoundCall, RejectedFetches, refs, worktrees
<1>7. /\ halted' \subseteq Wing /\ detached' \subseteq Wing
      /\ onto' = onto \/ \E v \in Wing : onto' = [onto EXCEPT ![v] = cache]
      /\ gen' \in Nat /\ acked' \subseteq hist[origin] /\ acked \subseteq acked'
  BY DEF IInv, TypeOK, LocalNeverAhead, RejectedFetches, refs, worktrees
<1> QED
  BY <1>2, <1>5, <1>6, <1>7, QuietStep

\* The tracking ref takes origin's tip.
LEMMA RefetchStep ==
  ASSUME IInv, NEW w \in Wing, Refetch(w)
  PROVE  IInv' /\ Lands
<1> DEFINE r == [call[w] EXCEPT !.pc = "realign"]
<1>1. call[w].pc = "refetch" /\ repoQ # <<>>
  BY DEF Refetch, Runs
<1>2. repoQ' \in Seq(Wing) /\ bareQ' \in Seq(Wing)
  BY <1>1, QueuesTyped DEF IInv, Refetch
<1>3. r \in Call /\ SoundCall(r, branch[w])
  BY <1>1, Facts DEF Call, Step, BareStep, WorktreeStep, SoundCall, Merging
<1>4. call' = [call EXCEPT ![w] = r]
  BY DEF IInv, TypeOK, Refetch
<1>5. call' \in [Wing -> Call] /\ \A v \in Wing : SoundCall(call'[v], branch[v])
  BY <1>3, <1>4, OneCallSound
<1>6. /\ UNCHANGED <<graph, origin, branch>>
      /\ track' \in hist[origin] /\ cache' \in hist[origin]
  BY <1>1, Facts DEF IInv, LocalNeverAhead, Closed, SoundCall, Refetch, worktrees
<1>7. /\ halted' \subseteq Wing /\ detached' \subseteq Wing
      /\ onto' = onto \/ \E v \in Wing : onto' = [onto EXCEPT ![v] = cache]
      /\ gen' \in Nat /\ acked' \subseteq hist[origin] /\ acked \subseteq acked'
  BY DEF IInv, TypeOK, LocalNeverAhead, Refetch, worktrees
<1> QED
  BY <1>2, <1>5, <1>6, <1>7, QuietStep

-----------------------------------------------------------------------------
(* Steps that move origin. *)

\* Another machine's push extends what origin holds.
LEMMA RemotePushStep ==
  ASSUME IInv, RemotePush
  PROVE  IInv' /\ Lands
<1> USE DEF RemotePush, worktrees, queues
<1>1. origin \in Commit /\ origin < next /\ Closed /\ TypeOK
  BY DEF IInv, TypeOK
<1>2. /\ hist' \in [Commit -> SUBSET Commit] /\ next' \in 1 .. MaxCommit + 1
      /\ next \in Commit /\ next' = next + 1 /\ Closed'
      /\ \A c \in Commit : c < next => hist'[c] = hist[c]
      /\ next \in hist'[next] /\ hist[origin] \subseteq hist'[next]
  BY <1>1, CreateGrows, {origin} \in SUBSET Commit
<1>3. Grows /\ next' \in Nat /\ origin' < next'
  BY <1>2, BoundsAssumption DEF Grows, Commit
<1>4. TypeOK'
  BY <1>2 DEF IInv, TypeOK
<1>5. \A v \in Wing : Sound(v)'
  BY <1>3, SoundStays
<1>6. LocalNeverAhead' /\ acked' \subseteq (hist')[origin']
  BY <1>2 DEF IInv, LocalNeverAhead
<1>7. (hist')[cache] = hist[cache] /\ cache' = cache
  BY <1>2 DEF IInv, TypeOK, LocalNeverAhead, Closed, refs
<1> QED
  BY <1>2, <1>3, <1>4, <1>5, <1>6, <1>7 DEF IInv, Lands

\* Pushing without force extends what origin holds.
LEMMA AcceptedExtends ==
  ASSUME IInv, NEW w \in Wing, Accepts(call[w].cand)
  PROVE  hist[origin] \subseteq hist[call[w].cand]
  BY Facts DEF Accepts, Closed

\* The push of w is accepted and answered.
LEMMA PushStep ==
  ASSUME IInv, NEW w \in Wing, Push(w)
  PROVE  IInv' /\ Lands
<1> DEFINE r == [call[w] EXCEPT !.pc = "advance"]
<1>1. /\ call[w].pc = "push" /\ repoQ # <<>> /\ Continue(w, "advance")
      /\ origin' = call[w].cand /\ track' = call[w].cand
      /\ UNCHANGED <<hist, next, cache, branch, halted, onto, detached, gen, acked>>
  BY DEF Push, Runs, graph, worktrees
<1>2. repoQ' \in Seq(Wing) /\ bareQ' \in Seq(Wing)
  BY <1>1, QueuesTyped DEF IInv
<1>3. r \in Call /\ r.pc = "advance" /\ r.tip = call[w].tip /\ r.base = call[w].base
      /\ r.cand = call[w].cand
  BY Facts DEF Call, Step, BareStep
<1>4. call' = [call EXCEPT ![w] = r]
  BY DEF IInv, TypeOK, Push
<1>5. call' \in [Wing -> Call] /\ call'[w] = r /\ \A v \in Wing \ {w} : call'[v] = call[v]
  BY <1>3, <1>4, CallChanges
<1>6. hist[origin] \subseteq (hist')[origin']
  BY <1>1, AcceptedExtends DEF Push
<1>7. TypeOK'
  BY <1>1, <1>2, <1>5, Facts DEF TypeOK
<1>8. Closed' /\ Grows /\ origin' < next'
  BY <1>1, <1>6, Facts DEF Closed, Grows
<1>9. LocalNeverAhead' /\ acked' \subseteq (hist')[origin']
  BY <1>1, <1>6, Facts DEF IInv, LocalNeverAhead, Closed
<1>10. Sound(w)'
  BY <1>1, <1>3, <1>5, Facts DEF Sound, SoundCall, Merging, Closed
<1> QED
  BY <1>1, <1>5, <1>6, <1>7, <1>8, <1>9, <1>10, WingStep DEF Lands

\* The push of w is accepted, and the call learns nothing of it.
LEMMA PushUnansweredStep ==
  ASSUME IInv, NEW w \in Wing, PushUnanswered(w)
  PROVE  IInv' /\ Lands
<1>1. /\ repoQ # <<>> /\ Continue(w, "idle")
      /\ origin' = call[w].cand /\ call' = [call EXCEPT ![w] = NoCall]
      /\ UNCHANGED <<hist, next, track, cache, branch, halted, onto, detached, gen, acked>>
  BY DEF PushUnanswered, Runs, Return, graph, worktrees
<1>2. repoQ' \in Seq(Wing) /\ bareQ' \in Seq(Wing)
  BY <1>1, QueuesTyped DEF IInv
<1>3. call' \in [Wing -> Call] /\ call'[w] = NoCall /\ \A v \in Wing \ {w} : call'[v] = call[v]
  BY <1>1, NoCallSound, CallChanges
<1>4. hist[origin] \subseteq (hist')[origin']
  BY <1>1, AcceptedExtends DEF PushUnanswered
<1>5. TypeOK'
  BY <1>1, <1>2, <1>3, Facts DEF TypeOK
<1>6. Closed' /\ Grows /\ origin' < next'
  BY <1>1, <1>4, Facts DEF Closed, Grows
<1>7. LocalNeverAhead' /\ acked' \subseteq (hist')[origin']
  BY <1>1, <1>4 DEF IInv, LocalNeverAhead
<1>8. Sound(w)'
  BY <1>1, <1>3, NoCallSound, Facts DEF Sound, SoundCall, Merging
<1> QED
  BY <1>1, <1>3, <1>4, <1>5, <1>6, <1>7, <1>8, WingStep DEF Lands

-----------------------------------------------------------------------------
(* Steps that move a branch. *)

\* A new commit becomes the tip of w's branch, outside of a merge.
LEMMA NewTipStep ==
  ASSUME IInv, NEW w \in Wing, NEW p \in Commit, p < next, Create({p}),
         branch' = [branch EXCEPT ![w] = next],
         UNCHANGED <<origin, track, cache, onto, acked>>,
         halted' \subseteq Wing, detached' \subseteq Wing, gen' \in Nat,
         repoQ' \in Seq(Wing), bareQ' \in Seq(Wing),
         call' \in [Wing -> Call],
         \A v \in Wing \ {w} : call'[v] = call[v],
         call'[w].pc \in {"idle", "begin"},
         call'[w].tip < next, call'[w].base < next, call'[w].cand < next
  PROVE  IInv' /\ Lands
<1>1. /\ hist' \in [Commit -> SUBSET Commit] /\ next' \in 1 .. MaxCommit + 1
      /\ next \in Commit /\ next' = next + 1 /\ Closed'
      /\ \A c \in Commit : c < next => hist'[c] = hist[c]
  BY Facts, CreateGrows, {p} \in SUBSET Commit
<1>2. TypeOK'
  BY <1>1 DEF IInv, TypeOK
<1>3. Grows /\ (hist')[origin'] = hist[origin] /\ (hist')[cache] = hist[cache]
  BY <1>1, Facts DEF Grows
<1>4. /\ branch'[w] = next /\ onto'[w] = onto[w]
      /\ call'[w].tip \in Commit /\ call'[w].base \in Commit /\ call'[w].cand \in Commit
  BY DEF IInv, TypeOK, Call
<1>5. Sound(w)'
  <2>1. /\ branch'[w] < next' /\ onto'[w] < next'
        /\ call'[w].tip < next' /\ call'[w].base < next' /\ call'[w].cand < next'
    <3>1. next < next' /\ \A c \in Commit : c < next => c < next'
      BY <1>1, Facts
    <3> QED
      BY <3>1, <1>4, Facts
  <2> QED
    BY <2>1 DEF Sound, SoundCall, Merging
<1>6. origin' < next' /\ LocalNeverAhead' /\ acked' \subseteq (hist')[origin']
  BY <1>1, <1>3, Facts DEF IInv, LocalNeverAhead
<1>7. \A v \in Wing \ {w} : branch'[v] = branch[v] /\ onto'[v] = onto[v]
  BY DEF IInv, TypeOK
<1> QED
  BY <1>1, <1>2, <1>3, <1>5, <1>6, <1>7, WingStep DEF Lands

\* The agent commits.
LEMMA CommitsStep ==
  ASSUME IInv, NEW w \in Wing, Commits(w)
  PROVE  IInv' /\ Lands
<1>1. /\ call' = call /\ call[w].pc = "idle" /\ Create({branch[w]})
      /\ branch' = [branch EXCEPT ![w] = next]
      /\ UNCHANGED <<origin, track, cache, halted, onto, detached, gen, repoQ, bareQ, acked>>
  BY DEF Commits, Idle, refs, worktrees, queues
<1>2. /\ repoQ' \in Seq(Wing) /\ bareQ' \in Seq(Wing)
      /\ halted' \subseteq Wing /\ detached' \subseteq Wing /\ gen' \in Nat
      /\ call' \in [Wing -> Call]
  BY <1>1 DEF IInv, TypeOK
<1>3. /\ branch[w] \in Commit /\ branch[w] < next
      /\ call'[w].tip < next /\ call'[w].base < next /\ call'[w].cand < next
      /\ call'[w].pc \in {"idle", "begin"}
  BY <1>1, Facts
<1>4. \A v \in Wing \ {w} : call'[v] = call[v]
  BY <1>1
<1>5. UNCHANGED <<origin, track, cache, onto, acked>>
  BY <1>1
<1> QED
  BY <1>1, <1>2, <1>3, <1>4, <1>5, NewTipStep

\* What w goes on to once its rebase has settled.
AfterRebase(w) == IF call[w].op = "merge" THEN [call[w] EXCEPT !.pc = "begin"] ELSE NoCall

LEMMA RebasedCall ==
  ASSUME IInv, NEW w \in Wing, repoQ # <<>>, Rebased(w)
  PROVE  /\ repoQ' \in Seq(Wing) /\ bareQ' \in Seq(Wing)
         /\ call' \in [Wing -> Call]
         /\ \A v \in Wing \ {w} : call'[v] = call[v]
         /\ call'[w].pc \in {"idle", "begin"}
         /\ call'[w].tip < next /\ call'[w].base < next /\ call'[w].cand < next
<1>1. call' = [call EXCEPT ![w] = AfterRebase(w)]
  BY DEF Rebased, AfterRebase
<1>2. /\ AfterRebase(w) \in Call /\ AfterRebase(w).pc \in {"idle", "begin"}
      /\ AfterRebase(w).tip < next /\ AfterRebase(w).base < next /\ AfterRebase(w).cand < next
  BY NoCallSound, Facts DEF AfterRebase, Call, Step, SoundCall
<1>3. PICK pc : Continue(w, pc)
  BY DEF Rebased
<1> QED
  BY <1>1, <1>2, <1>3, CallChanges, QueuesTyped DEF IInv

\* The branch is replayed on the local trunk.
LEMMA RebaseReplaysStep ==
  ASSUME IInv, NEW w \in Wing, RebaseReplays(w)
  PROVE  IInv' /\ Lands
<1>1. /\ repoQ # <<>> /\ Rebased(w) /\ Create({cache})
      /\ branch' = [branch EXCEPT ![w] = next]
      /\ UNCHANGED <<origin, track, cache, halted, onto, detached, gen, acked>>
  BY DEF RebaseReplays, Runs, refs, worktrees
<1>2. halted' \subseteq Wing /\ detached' \subseteq Wing /\ gen' \in Nat
  BY <1>1 DEF IInv, TypeOK
<1> QED
  BY <1>1, <1>2, RebasedCall, Facts, NewTipStep

\* The agent's resolution is replayed on what the halted rebase started from.
LEMMA RebaseContinuesStep ==
  ASSUME IInv, NEW w \in Wing, RebaseContinues(w)
  PROVE  IInv' /\ Lands
<1>1. /\ repoQ # <<>> /\ Rebased(w) /\ Create({onto[w]})
      /\ branch' = [branch EXCEPT ![w] = next]
      /\ halted' = halted \ {w}
      /\ UNCHANGED <<origin, track, cache, onto, detached, gen, acked>>
  BY DEF RebaseContinues, Runs, refs
<1>2. halted' \subseteq Wing /\ detached' \subseteq Wing /\ gen' \in Nat
  BY <1>1 DEF IInv, TypeOK
<1> QED
  BY <1>1, <1>2, RebasedCall, Facts, NewTipStep

\* Nothing to replay: the branch stays, or moves up to the local trunk.
LEMMA RebaseMovesStep ==
  ASSUME IInv, NEW w \in Wing, RebaseMoves(w)
  PROVE  IInv' /\ Lands
<1>1. /\ repoQ # <<>> /\ Rebased(w)
      /\ UNCHANGED graph
      /\ UNCHANGED <<origin, track, cache, halted, onto, detached, gen, acked>>
      /\ branch' = branch \/ branch' = [branch EXCEPT ![w] = cache]
  BY DEF RebaseMoves, Runs, refs, worktrees
<1>2. /\ repoQ' \in Seq(Wing) /\ bareQ' \in Seq(Wing)
      /\ call' \in [Wing -> Call]
      /\ \A v \in Wing \ {w} : call'[v] = call[v]
      /\ call'[w].pc \in {"idle", "begin"}
      /\ call'[w].tip < next /\ call'[w].base < next /\ call'[w].cand < next
  BY <1>1, RebasedCall
<1>3. /\ branch' \in [Wing -> Commit] /\ branch'[w] \in {branch[w], cache}
      /\ \A v \in Wing \ {w} : branch'[v] = branch[v]
  BY <1>1 DEF IInv, TypeOK
<1>4. Closed' /\ hist' = hist /\ next' = next /\ Grows
  BY <1>1, GraphStays, Facts DEF Grows
<1>5. TypeOK'
  BY <1>1, <1>2, <1>3, <1>4 DEF IInv, TypeOK
<1>6. Sound(w)'
  BY <1>1, <1>2, <1>3, <1>4, Facts DEF Sound, SoundCall, Merging
<1>7. origin' < next' /\ LocalNeverAhead' /\ acked' \subseteq (hist')[origin']
  BY <1>1, <1>4 DEF IInv, LocalNeverAhead
<1> QED
  BY <1>1, <1>2, <1>3, <1>4, <1>5, <1>6, <1>7, WingStep DEF Lands

\* The landing commit is built on the cached tip and the branch.
LEMMA BuildStep ==
  ASSUME IInv, NEW w \in Wing, Build(w)
  PROVE  IInv' /\ Lands
<1> DEFINE r == [call[w] EXCEPT !.pc = "push", !.cand = next]
           P == {call[w].base, branch[w]}
<1>1. /\ call[w].pc = "build" /\ repoQ # <<>> /\ Continue(w, "push") /\ Create(P)
      /\ UNCHANGED <<origin, track, cache, branch, halted, onto, detached, gen, acked>>
  BY DEF Build, Runs, refs, worktrees
<1>2. repoQ' \in Seq(Wing) /\ bareQ' \in Seq(Wing)
  BY <1>1, QueuesTyped DEF IInv
<1>3. P \in SUBSET Commit /\ \A p \in P : p < next
  BY Facts
<1>4. /\ hist' \in [Commit -> SUBSET Commit] /\ next' \in 1 .. MaxCommit + 1
      /\ next \in Commit /\ next' = next + 1 /\ Closed'
      /\ \A c \in Commit : c < next => hist'[c] = hist[c]
      /\ \A p \in P : hist[p] \subseteq hist'[next]
  BY <1>1, <1>3, CreateGrows, Facts
<1>5. /\ r \in Call /\ r.pc = "push" /\ r.tip = call[w].tip /\ r.base = call[w].base
      /\ r.cand = next
  BY <1>4, Facts DEF Call, Step, BareStep
<1>6. call' = [call EXCEPT ![w] = r]
  BY DEF IInv, TypeOK, Build
<1>7. call' \in [Wing -> Call] /\ call'[w] = r /\ \A v \in Wing \ {w} : call'[v] = call[v]
  BY <1>5, <1>6, CallChanges
<1>8. TypeOK'
  BY <1>1, <1>2, <1>4, <1>7 DEF IInv, TypeOK
<1>9. Grows /\ (hist')[origin'] = hist[origin] /\ (hist')[cache] = hist[cache]
  BY <1>1, <1>4, Facts DEF Grows
<1>10. Sound(w)'
  <2>1. call[w].tip = branch[w] /\ branch[w] \in hist[branch[w]]
    BY <1>1, Facts DEF SoundCall, Merging, Closed
  <2>2. /\ branch'[w] < next' /\ onto'[w] < next'
        /\ call'[w].tip < next' /\ call'[w].base < next' /\ call'[w].cand < next'
    BY <1>1, <1>4, <1>5, <1>7, Facts
  <2> QED
    BY <2>1, <2>2, <1>1, <1>4, <1>5, <1>7 DEF Sound, SoundCall, Merging
<1>11. origin' < next' /\ LocalNeverAhead' /\ acked' \subseteq (hist')[origin']
  BY <1>1, <1>4, <1>9, Facts DEF IInv, LocalNeverAhead
<1> QED
  BY <1>1, <1>4, <1>7, <1>8, <1>9, <1>10, <1>11, WingStep DEF Lands

\* The branch takes the landed commit, and the merge is reported.
LEMMA ForwardStep ==
  ASSUME IInv, NEW w \in Wing, Forward(w)
  PROVE  IInv' /\ Lands
<1>1. /\ call[w].pc = "forward" /\ repoQ # <<>> /\ Continue(w, "idle")
      /\ branch' = [branch EXCEPT ![w] = call[w].cand]
      /\ acked' = acked \cup {call[w].tip, call[w].cand}
      /\ call' = [call EXCEPT ![w] = NoCall]
      /\ UNCHANGED graph
      /\ UNCHANGED <<origin, track, cache, halted, onto, detached, gen>>
  BY DEF Forward, Runs, Return, refs, worktrees
<1>2. repoQ' \in Seq(Wing) /\ bareQ' \in Seq(Wing)
  BY <1>1, QueuesTyped DEF IInv
<1>3. call' \in [Wing -> Call] /\ call'[w] = NoCall /\ \A v \in Wing \ {w} : call'[v] = call[v]
  BY <1>1, NoCallSound, CallChanges
<1>4. /\ branch' \in [Wing -> Commit] /\ branch'[w] = call[w].cand
      /\ \A v \in Wing \ {w} : branch'[v] = branch[v]
  BY <1>1, Facts DEF TypeOK
<1>5. Closed' /\ hist' = hist /\ next' = next /\ Grows
  BY <1>1, GraphStays, Facts DEF Grows
<1>6. call[w].tip \in hist[origin] /\ call[w].cand \in hist[origin]
  BY <1>1, Facts DEF SoundCall, Closed
<1>7. TypeOK'
  BY <1>1, <1>2, <1>3, <1>4, <1>5, Facts DEF TypeOK
<1>8. Sound(w)'
  BY <1>1, <1>3, <1>4, <1>5, NoCallSound, Facts DEF Sound, SoundCall, Merging
<1>9. origin' < next' /\ LocalNeverAhead' /\ acked' \subseteq (hist')[origin']
  BY <1>1, <1>5, <1>6 DEF IInv, LocalNeverAhead
<1> QED
  BY <1>1, <1>3, <1>4, <1>5, <1>7, <1>8, <1>9, WingStep DEF Lands

-----------------------------------------------------------------------------
(* Steps of several calls, or of none. *)

\* A worktree is put back on its branch.
LEMMA SwitchesBackStep ==
  ASSUME IInv, NEW w \in Wing, SwitchesBack(w)
  PROVE  IInv' /\ Lands
<1>1. /\ detached' = detached \ {w} /\ call' = call
      /\ UNCHANGED <<graph, origin, track, cache, branch, halted, onto, gen, repoQ, bareQ, acked>>
  BY DEF SwitchesBack, refs, queues
<1>2. call' \in [Wing -> Call] /\ \A v \in Wing : SoundCall(call'[v], branch[v])
  BY <1>1, Facts DEF IInv, TypeOK
<1> QED
  BY <1>1, <1>2, QuietStep DEF IInv, TypeOK, LocalNeverAhead

\* The tracking ref takes origin's tip behind the process's back.
LEMMA OutsideFetchStep ==
  ASSUME IInv, OutsideFetch
  PROVE  IInv' /\ Lands
<1>1. /\ track' = origin /\ call' = call
      /\ UNCHANGED <<graph, origin, cache, branch, halted, detached, onto, gen, repoQ, bareQ, acked>>
  BY DEF OutsideFetch, worktrees, queues
<1>2. call' \in [Wing -> Call] /\ \A v \in Wing : SoundCall(call'[v], branch[v])
  BY <1>1, Facts DEF IInv, TypeOK
<1>3. origin \in hist[origin]
  BY DEF IInv, TypeOK, Closed
<1> QED
  BY <1>1, <1>2, <1>3, QuietStep DEF IInv, TypeOK, LocalNeverAhead

\* Everyone who waited for the fetch tries again.
LEMMA RealignStep ==
  ASSUME IInv, NEW w \in Wing, Realign(w)
  PROVE  IInv' /\ Lands
<1>1. /\ repoQ # <<>> /\ Continue(w, "idle") /\ call[w].pc = "realign"
      /\ cache' = track /\ gen' = gen + 1
      /\ call' = [v \in Wing |-> IF v \in Waiting(w) THEN Retrying(call[v], gen + 1)
                                 ELSE call[v]]
      /\ UNCHANGED <<graph, origin, track, branch, halted, detached, onto, acked>>
  BY DEF Realign, Runs, Return, worktrees
<1>2. repoQ' \in Seq(Wing) /\ bareQ' \in Seq(Wing)
  BY <1>1, QueuesTyped DEF IInv
<1>3. gen + 1 \in Nat
  BY DEF IInv, TypeOK
<1>4. ASSUME NEW v \in Wing PROVE call'[v] \in Call /\ SoundCall(call'[v], branch[v])
  <2>1. CASE v \in Waiting(w)
    <3> DEFINE r == Retrying(call[v], gen + 1)
    <3>1. call[v].pc \in {"joined", "realign"}
      BY <2>1, <1>1 DEF Waiting
    <3>2. call[v].tries + 1 \in 0 .. MaxAttempts
      BY <3>1, Facts DEF SoundCall
    <3>3. r \in Call /\ SoundCall(r, branch[v])
      BY <1>3, <3>1, <3>2, Facts DEF Retrying, Call, Step, SoundCall, Merging
    <3> QED
      BY <1>1, <2>1, <3>3
  <2>2. CASE v \notin Waiting(w)
    BY <1>1, <2>2, Facts
  <2> QED
    BY <2>1, <2>2
<1>5. call' \in [Wing -> Call]
  BY <1>1, <1>4
<1> QED
  BY <1>1, <1>2, <1>3, <1>4, <1>5, QuietStep DEF IInv, TypeOK, LocalNeverAhead

\* A command fails, and with it every call that waited for it.
LEMMA CommandFailsStep ==
  ASSUME IInv, NEW w \in Wing, CommandFails(w)
  PROVE  IInv' /\ Lands
<1> DEFINE lost == IF call[w].pc \in {"refetch", "realign"} THEN Waiting(w) ELSE {w}
<1>1. /\ repoQ # <<>> /\ Continue(w, "idle")
      /\ call' = [v \in Wing |-> IF v \in lost THEN NoCall ELSE call[v]]
      /\ UNCHANGED <<graph, origin, track, cache, branch, halted, detached, onto, gen, acked>>
  BY DEF CommandFails, Runs, Return, refs, worktrees
<1>2. repoQ' \in Seq(Wing) /\ bareQ' \in Seq(Wing)
  BY <1>1, QueuesTyped DEF IInv
<1>3. ASSUME NEW v \in Wing PROVE call'[v] \in Call /\ SoundCall(call'[v], branch[v])
  BY <1>1, NoCallSound, Facts
<1>4. call' \in [Wing -> Call]
  BY <1>1, <1>3
<1> QED
  BY <1>1, <1>2, <1>3, <1>4, QuietStep DEF IInv, TypeOK, LocalNeverAhead

\* The process starts again with no call in progress.
LEMMA RestartStep ==
  ASSUME IInv, Restart
  PROVE  IInv' /\ Lands
<1>1. /\ gen' = 0 /\ call' = [w \in Wing |-> NoCall] /\ repoQ' = <<>> /\ bareQ' = <<>>
      /\ detached' \subseteq Wing
      /\ UNCHANGED <<graph, origin, track, cache, branch, halted, onto, acked>>
  BY DEF Restart, refs, IInv, TypeOK
<1>2. call' \in [Wing -> Call] /\ \A v \in Wing : SoundCall(call'[v], branch[v])
  BY <1>1, NoCallSound
<1> QED
  BY <1>1, <1>2, QuietStep DEF IInv, TypeOK, LocalNeverAhead

-----------------------------------------------------------------------------
(* The theorems. *)

LEMMA InitIInv == Init => IInv
<1> SUFFICES ASSUME Init PROVE IInv
  OBVIOUS
<1>1. MaxCommit \in Nat /\ MaxAttempts \in Nat /\ Root \in Commit /\ \A c \in Commit : c \in Nat
  BY BoundsAssumption DEF Root, Commit
<1>2. NoCall \in Call
  BY <1>1 DEF NoCall, NewCall, Call, Step
<1>3. TypeOK
  BY <1>1, <1>2 DEF Init, TypeOK
<1>4. Closed /\ origin < next /\ LocalNeverAhead /\ acked \subseteq hist[origin]
  BY <1>1 DEF Init, Closed, LocalNeverAhead, Root, Commit
<1>5. \A w \in Wing : Sound(w)
  BY <1>1 DEF Init, Sound, SoundCall, NoCall, NewCall, Merging, Root
<1> QED
  BY <1>3, <1>4, <1>5 DEF IInv

LEMMA NextIInv == IInv /\ Next => IInv' /\ Lands
<1> SUFFICES ASSUME IInv, Next PROVE IInv' /\ Lands
  OBVIOUS
<1>1. ASSUME NEW w \in Wing, Commits(w) \/ SwitchesBack(w) PROVE IInv' /\ Lands
  BY <1>1, CommitsStep, SwitchesBackStep
<1>2. ASSUME NEW w \in Wing, Calls(w, "start") \/ Calls(w, "merge") PROVE IInv' /\ Lands
  BY <1>2, CallsStep
<1>3. ASSUME NEW w \in Wing, StartSteps(w) PROVE IInv' /\ Lands
  BY <1>3, FetchStep, AlignStep, RebaseMovesStep, RebaseReplaysStep, RebaseHaltsStep,
     RebaseContinuesStep DEF StartSteps
<1>4. ASSUME NEW w \in Wing, MergeSteps(w) PROVE IInv' /\ Lands
  BY <1>4, BeginStep, AttemptStep, AttemptUpToDateStep, BuildStep, BuildNothingStep,
     BuildConflictsStep, PushStep, PushUnansweredStep, AdvanceStep, ForwardStep
  DEF MergeSteps
<1>5. ASSUME NEW w \in Wing, RetrySteps(w) PROVE IInv' /\ Lands
  BY <1>5, RejectedForGoodStep, RejectedKnownStep, RejectedJoinsStep,
     RejectedFetchesStep, RefetchStep, RealignStep DEF RetrySteps
<1>6. ASSUME NEW w \in Wing, CommandFails(w) PROVE IInv' /\ Lands
  BY <1>6, CommandFailsStep
<1>7. CASE RemotePush \/ OutsideFetch \/ Restart
  BY <1>7, RemotePushStep, OutsideFetchStep, RestartStep
<1> QED
  BY <1>1, <1>2, <1>3, <1>4, <1>5, <1>6, <1>7 DEF Next, Proceeds

\* A step that changes nothing.
LEMMA StutterIInv == IInv /\ UNCHANGED vars => IInv' /\ Lands
  BY DEF IInv, TypeOK, Closed, LocalNeverAhead, Sound, SoundCall, Lands, vars

\* The strengthening holds throughout: the graph stays closed, and a call in
\* progress can rely on what it has read of it.
THEOREM Invariance == Spec => []IInv
<1>1. IInv /\ [Next]_vars => IInv'
  BY NextIInv, StutterIInv
<1> QED
  BY InitIInv, <1>1, PTL DEF Spec

\* Every variable keeps its type, and no call ever makes more than
\* MaxAttempts attempts.
THEOREM TypeCorrect == Spec => []TypeOK
<1>1. IInv => TypeOK
  BY DEF IInv
<1> QED
  BY <1>1, Invariance, PTL

\* No copy of the trunk in the bare repository ever holds a commit that
\* origin lacks.
THEOREM CopiesBehind == Spec => []LocalNeverAhead
<1>1. IInv => LocalNeverAhead
  BY DEF IInv
<1> QED
  BY <1>1, Invariance, PTL

\* Publishing by plain pushes implements TrunkLedger: what has landed stays,
\* the local trunk has nothing else, and nothing else is reported.
THEOREM Refinement == Spec => ImplementsLedger
<1>1. Init => Ledger!Init
  BY BoundsAssumption DEF Init, Ledger!Init, Root, Commit
<1>2. IInv /\ [Next]_vars => [Ledger!Next]_(Ledger!vars)
  <2> SUFFICES ASSUME IInv, [Next]_vars PROVE [Ledger!Next]_(Ledger!vars)
    OBVIOUS
  <2>1. IInv' /\ Lands
    BY NextIInv, StutterIInv
  <2>2. /\ (hist')[origin'] \subseteq Commit /\ acked' \subseteq (hist')[origin']
        /\ (hist')[cache'] \subseteq (hist')[origin']
    BY <2>1 DEF IInv, TypeOK, LocalNeverAhead, Closed
  <2>3. CASE UNCHANGED <<acked, cache>> /\ (hist')[cache] = hist[cache]
    BY <2>1, <2>2, <2>3 DEF Lands, Ledger!Next, Ledger!Publish
  <2>4. CASE UNCHANGED <<hist, origin>> /\ acked \subseteq acked'
    BY <2>1, <2>2, <2>4 DEF Ledger!Next, Ledger!Learn
  <2> QED
    BY <2>1, <2>3, <2>4 DEF Lands
<1> QED
  BY <1>1, <1>2, Invariance, PTL DEF Spec, ImplementsLedger, Ledger!Spec
=============================================================================
