-------------------------- MODULE Promotion_proofs --------------------------
(***************************************************************************)
(* Proofs about Promotion, for any bounds and mishaps.                     *)
(*                                                                         *)
(* What is hard is NothingLost: a push with a lease replaces the derived   *)
(* trunk's tip by another commit, whose history does not contain it.  The  *)
(* invariant says what such a commit was computed from: it brings in all   *)
(* that the tip it replaces does, but for what the parent has already.     *)
(* That a promote ends is a matter of counting: its three loops are nested. *)
(***************************************************************************)
EXTENDS Promotion, Integers, TLAPS

\* Commits below next exist; what a commit reaches, it reaches entirely.
Closed(h, n) ==
  /\ \A c \in Commit : c < n => c \in h[c]
  /\ \A c \in Commit : \A x \in h[c] : x < n /\ h[x] \subseteq h[c]

\* Changes, of a given graph.
Brings(h, o, c) == UNION {o[d] : d \in h[c]}

\* Every ref is of something that exists, and a local copy of something that
\* origin has, or has had.
Refs ==
  /\ \A c \in {main, trunk, at, attempt.tip, attempt.parent, call.tip, call.cand} : c < next
  /\ \A c \in seen : c < next
  /\ mainAt \in hist[main]
  /\ {trunk, trunkAt} \subseteq seen
  /\ call.pc \in {"update", "replayUpdate", "attemptUpdate"} => call.cand \in seen

\* Where the attempts and the folds are not used up.
Loops ==
  /\ call.pc \in {"fetchOwn", "fetchParent", "attemptOwn", "attemptParent"}
       => call.tries < MaxAttempts
  /\ call.pc \in {"fold", "foldPush", "foldFetch"} => call.folds < MaxFolds

\* Whose HEAD it is.
Heads ==
  /\ call.pc \notin Replaying \cup Resolving \cup {"idle"} => head = "wing"
  /\ HeadBack

\* What is about to replace tip as c brings in what tip does, or main has it.
Replaces(c, tip) ==
  Brings(hist, own, tip) \subseteq Brings(hist, own, c) \cup Brings(hist, own, main)

\* What a call relies on.
Sound ==
  /\ call.pc \in Resolving => attempt.parent \in hist[main]
  /\ call.pc = "replayPush" => Replaces(call.cand, call.tip)
  /\ call.pc \in {"publish", "attemptPush", "attemptOwn", "attemptParent"}
       => Replaces(at, attempt.tip)
  /\ call.pc = "attemptPush" => call.cand = at
  /\ call.pc = "foldUpdate" => call.cand \in hist[main]

IInv == TypeOK /\ Closed(hist, next) /\ Refs /\ Loops /\ Heads /\ Sound

\* What was on the derived trunk at the call is on one of the trunks, on the
\* commit that has just been pushed, and on the one that is folded.
Has(c) == call.goal \subseteq Brings(hist, own, c) \cup Brings(hist, own, main)

Goal ==
  /\ Has(trunk)
  /\ call.pc \in {"update", "replayUpdate", "attemptUpdate", "foldPush"} => Has(call.cand)
  /\ call.pc = "fold" => Has(trunkAt)
  /\ call.pc = "foldUpdate" => call.goal \subseteq Brings(hist, own, main)

\* Commits never change.
Grows == /\ next' \in Nat /\ next <= next'
         /\ \A c \in Commit : c < next => hist'[c] = hist[c] /\ own'[c] = own[c]

\* Nor is anything taken off the parent, or lost from both trunks.
Lands ==
  /\ hist[main] \subseteq (hist')[main']
  /\ Brings(hist, own, main) \cup Brings(hist, own, trunk)
       \subseteq Brings(hist', own', main') \cup Brings(hist', own', trunk')

\* What every step does.
Keeps ==
  /\ IInv' /\ Grows /\ Lands
  /\ "late" \notin Mishaps /\ Goal => Goal'

-----------------------------------------------------------------------------
(* The graph. *)

\* The invariant, read.
LEMMA Facts ==
  ASSUME IInv
  PROVE  /\ TypeOK /\ Closed(hist, next) /\ Refs /\ Loops /\ Heads /\ Sound
         /\ MaxCommit \in Nat /\ MaxAttempts \in Nat \ {0} /\ MaxFolds \in Nat \ {0}
         /\ \A c \in Commit : c \in Nat
         /\ Root \in Commit /\ Root < next
         /\ next \in Nat
         /\ {main, mainAt, trunk, trunkAt, at} \subseteq Commit
         /\ seen \subseteq Commit
         /\ mainAt < next /\ trunkAt < next
         /\ call \in Call /\ call.pc \in Step /\ call.tip \in Commit /\ call.cand \in Commit
         /\ call.tries \in 0 .. MaxAttempts /\ call.folds \in 0 .. MaxFolds
         /\ call.goal \subseteq Commit
         /\ attempt \in Attempt /\ attempt.tip \in Commit /\ attempt.parent \in Commit
<1>1. /\ MaxCommit \in Nat /\ MaxAttempts \in Nat \ {0} /\ MaxFolds \in Nat \ {0}
      /\ \A c \in Commit : c \in Nat
  BY PromotionAssumption DEF Commit
<1>2. /\ TypeOK /\ Closed(hist, next) /\ Refs /\ Loops /\ Heads /\ Sound
      /\ next \in Nat /\ next >= 1
      /\ {main, mainAt, trunk, trunkAt, at} \subseteq Commit /\ seen \subseteq Commit
      /\ call \in Call /\ attempt \in Attempt
  BY <1>1 DEF IInv, TypeOK
<1>3. Root \in Commit /\ Root < next
  BY <1>1, <1>2 DEF Root, Commit
<1>4. mainAt < next /\ trunkAt < next
  BY <1>2 DEF Refs, Closed
<1>5. /\ call.pc \in Step /\ call.tip \in Commit /\ call.cand \in Commit
      /\ call.tries \in 0 .. MaxAttempts /\ call.folds \in 0 .. MaxFolds
      /\ call.goal \subseteq Commit
      /\ attempt.tip \in Commit /\ attempt.parent \in Commit
  BY <1>2 DEF Call, Attempt
<1> QED
  BY <1>1, <1>2, <1>3, <1>4, <1>5

\* A commit brings in all that the commits it reaches do.
LEMMA Reaches ==
  ASSUME IInv, NEW c \in Commit, NEW d \in hist[c]
  PROVE  /\ d \in Commit /\ hist[d] \subseteq hist[c]
         /\ Brings(hist, own, d) \subseteq Brings(hist, own, c)
<1>1. hist[d] \subseteq hist[c]
  BY DEF IInv, Closed
<1>2. d \in Commit
  BY DEF IInv, TypeOK
<1> QED
  BY <1>1, <1>2 DEF Brings

\* Nothing changes for the commits there are.
LEMMA Kept ==
  ASSUME IInv, Grows, NEW c \in Commit, c < next
  PROVE  /\ Brings(hist', own', c) = Brings(hist, own, c)
         /\ (hist')[c] = hist[c]
         /\ c < next'
<1>1. \A d \in hist[c] : d \in Commit /\ d < next
  BY DEF IInv, TypeOK, Closed
<1>2. (hist')[c] = hist[c] /\ \A d \in hist[c] : (own')[d] = own[d]
  BY <1>1 DEF Grows
<1>3. c < next'
  BY Facts DEF Grows
<1> QED
  BY <1>2, <1>3 DEF Brings

\* A step that leaves the graph and origin alone.
LEMMA Still ==
  ASSUME IInv, UNCHANGED <<graph, main, trunk>>
  PROVE  Closed(hist, next)' /\ Grows /\ Lands
  BY Facts DEF Grows, Lands, graph

LEMMA CreateSound ==
  ASSUME IInv, NEW parent \in Commit, parent < next,
         NEW changes \in SUBSET Commit, Create(parent, changes)
  PROVE  /\ hist' \in [Commit -> SUBSET Commit]
         /\ own' \in [Commit -> SUBSET Commit]
         /\ next' \in 1 .. MaxCommit + 1
         /\ next \in Commit /\ next < next'
         /\ Closed(hist, next)' /\ Grows
         /\ (hist')[next] = {next} \cup hist[parent]
         /\ (own')[next] = changes
         /\ Brings(hist', own', next) = changes \cup Brings(hist, own, parent)
<1>1. /\ next \in Commit /\ next \in Nat /\ next' = next + 1
      /\ hist' = [hist EXCEPT ![next] = {next} \cup hist[parent]]
      /\ own' = [own EXCEPT ![next] = changes]
  BY Facts DEF Create
<1>2. /\ hist' \in [Commit -> SUBSET Commit]
      /\ own' \in [Commit -> SUBSET Commit]
      /\ next' \in 1 .. MaxCommit + 1
  <2>1. next' \in 1 .. MaxCommit + 1
    BY <1>1, Facts DEF Commit
  <2>2. {next} \cup hist[parent] \in SUBSET Commit
    BY <1>1, Facts DEF TypeOK
  <2> QED
    BY <1>1, <2>1, <2>2, Facts DEF TypeOK
<1>3. Grows
  BY <1>1, Facts DEF Grows, TypeOK
<1>4. (hist')[next] = {next} \cup hist[parent] /\ (own')[next] = changes
  BY <1>1, Facts DEF TypeOK
<1>5. \A c \in Commit : c # next => (hist')[c] = hist[c]
  BY <1>1, Facts DEF TypeOK
<1>6. Closed(hist, next)'
  <2>1. ASSUME NEW c \in Commit, c < next'
        PROVE  c \in (hist')[c]
    BY <2>1, <1>1, <1>4, <1>5, Facts DEF Closed
  <2>2. ASSUME NEW c \in Commit, NEW x \in (hist')[c]
        PROVE  x < next' /\ (hist')[x] \subseteq (hist')[c]
    <3>1. x \in Commit /\ x \in Nat
      BY <1>2, Facts
    <3>2. CASE c # next
      <4>1. x \in hist[c] /\ x < next
        BY <3>2, <1>5, Facts DEF Closed
      <4> QED
        BY <4>1, <3>1, <3>2, <1>1, <1>5, Facts DEF Closed
    <3>3. CASE c = next /\ x # next
      <4>1. x \in hist[parent] /\ x < next
        BY <3>3, <1>4, Facts DEF Closed
      <4> QED
        BY <4>1, <3>1, <3>3, <1>1, <1>4, <1>5, Facts DEF Closed
    <3>4. CASE c = next /\ x = next
      BY <3>4, <1>1
    <3> QED
      BY <3>2, <3>3, <3>4
  <2> QED
    BY <2>1, <2>2 DEF Closed
<1>7. Brings(hist', own', next) = changes \cup Brings(hist, own, parent)
  <2>1. Brings(hist', own', parent) = Brings(hist, own, parent)
    BY <1>3, Kept
  <2>2. (hist')[next] = {next} \cup (hist')[parent]
    BY <1>1, <1>4, <1>5, Facts
  <2> QED
    BY <2>1, <2>2, <1>4 DEF Brings
<1>8. next < next'
  BY <1>1
<1> QED
  BY <1>1, <1>2, <1>3, <1>4, <1>6, <1>7, <1>8

\* A replay brings in what is replayed, and what it is replayed on.
LEMMA ReplaysSound ==
  ASSUME IInv, NEW tip \in Commit, NEW onto \in Commit, tip < next, onto < next,
         NEW past \in SUBSET Commit, Replays(tip, past, onto)
  PROVE  /\ hist' \in [Commit -> SUBSET Commit]
         /\ own' \in [Commit -> SUBSET Commit]
         /\ next' \in 1 .. MaxCommit + 1
         /\ Closed(hist, next)' /\ Grows
         /\ at' \in Commit /\ at' < next'
         /\ Brings(hist, own, onto) \subseteq Brings(hist', own', at')
         /\ UNION {own[d] : d \in hist[tip] \ past} \subseteq Brings(hist', own', at')
<1> DEFINE changes == UNION {own[d] : d \in hist[tip] \ past}
<1>0. changes \in SUBSET Commit /\ changes \subseteq Brings(hist, own, tip)
  <2>1. \A d \in hist[tip] : own[d] \subseteq Commit
    BY Facts DEF TypeOK
  <2> QED
    BY <2>1 DEF Brings
<1>1. CASE onto \in hist[tip]
  <2>1. UNCHANGED graph /\ at' = tip
    BY <1>1 DEF Replays
  <2> QED
    BY <2>1, <1>0, <1>1, Facts, Reaches DEF graph, TypeOK, Grows
<1>2. CASE onto \notin hist[tip] /\ tip \in hist[onto]
  <2>1. UNCHANGED graph /\ at' = onto
    BY <1>2 DEF Replays
  <2> QED
    BY <2>1, <1>0, <1>2, Facts, Reaches DEF graph, TypeOK, Grows
<1>3. CASE onto \notin hist[tip] /\ tip \notin hist[onto]
  <2>1. Create(onto, changes) /\ at' = next
    BY <1>3 DEF Replays
  <2> HIDE DEF changes
  <2>2. /\ hist' \in [Commit -> SUBSET Commit]
        /\ own' \in [Commit -> SUBSET Commit]
        /\ next' \in 1 .. MaxCommit + 1
        /\ next \in Commit /\ next < next'
        /\ Closed(hist, next)' /\ Grows
        /\ Brings(hist', own', next) = changes \cup Brings(hist, own, onto)
    BY <2>1, <1>0, CreateSound
  <2> QED
    BY <2>1, <2>2 DEF changes
<1> QED
  BY <1>1, <1>2, <1>3

-----------------------------------------------------------------------------
(* Steps in general. *)

\* A step after which no promote is in progress: nothing relies on anything.
LEMMA ReturnsSound ==
  ASSUME IInv, Returns
  PROVE  /\ call' \in Call /\ call'.pc = "idle"
         /\ call'.tip = Root /\ call'.cand = Root
         /\ Loops' /\ Sound' /\ Goal'
<1>1. /\ call' \in Call /\ call'.pc = "idle"
      /\ call'.tip = Root /\ call'.cand = Root /\ call'.goal = {}
  BY Facts DEF Returns, NoCall, Call, Step
<1>2. Loops' /\ Sound'
  BY <1>1 DEF Loops, Sound, Resolving
<1>3. Goal'
  BY <1>1 DEF Goal, Has
<1> QED
  BY <1>1, <1>2, <1>3

\* What the parent brings in stays.
LEMMA MainGrows ==
  ASSUME IInv, Grows, hist[main] \subseteq (hist')[main']
  PROVE  Brings(hist, own, main) \subseteq Brings(hist', own', main')
<1>1. main \in Commit /\ main < next
  BY Facts DEF Refs
<1>2. Brings(hist', own', main) = Brings(hist, own, main) /\ (hist')[main] = hist[main]
  BY <1>1, Kept
<1> QED
  BY <1>2 DEF Brings

\* A step of somebody else.
LEMMA OthersKeep ==
  ASSUME IInv, Grows, Lands, Closed(hist, next)', TypeOK', Refs',
         UNCHANGED <<trunkAt, tree, open, call, hurt>>
  PROVE  Keeps
<1>1. Brings(hist, own, main) \subseteq Brings(hist', own', main')
  BY MainGrows DEF Lands
<1>2. \A c \in {at, attempt.tip, call.tip, call.cand, trunkAt} :
        Brings(hist', own', c) = Brings(hist, own, c)
  BY Kept, Facts DEF Refs
<1>3. Loops' /\ Heads'
  BY Facts DEF Loops, Heads, HeadBack, tree, open
<1>4. Sound'
  <2>1. (hist')[main'] \in SUBSET Commit /\ hist[main] \subseteq (hist')[main']
    BY DEF Lands, TypeOK
  <2> QED
    BY <1>1, <1>2, <2>1, Facts DEF Sound, Replaces, tree, open
<1>5. Goal => Goal'
  BY <1>1, <1>2, Facts DEF Goal, Has, Lands
<1> QED
  BY <1>3, <1>4, <1>5 DEF Keeps, IInv

\* A step of the call that replays something, and leaves origin alone.
LEMMA ReplayStep ==
  ASSUME IInv, Grows, UNCHANGED refs
  PROVE  /\ Lands
         /\ (hist')[main] = hist[main]
         /\ Brings(hist', own', main) = Brings(hist, own, main)
         /\ Brings(hist', own', trunk) = Brings(hist, own, trunk)
         /\ \A c \in seen : c < next'
         /\ \A c \in {Root, main, mainAt, trunk, trunkAt, at, attempt.tip, attempt.parent, call.tip, call.cand} :
              c < next'
<1>1. /\ (hist')[main] = hist[main]
      /\ Brings(hist', own', main) = Brings(hist, own, main)
      /\ Brings(hist', own', trunk) = Brings(hist, own, trunk)
  BY Kept, Facts DEF Refs
<1>2. \A c \in seen : c < next'
  BY Kept, Facts DEF Refs
<1>3. \A c \in {Root, main, mainAt, trunk, trunkAt, at, attempt.tip, attempt.parent, call.tip, call.cand} :
        c < next'
  BY Kept, Facts DEF Refs
<1> QED
  BY <1>1, <1>2, <1>3 DEF Lands, refs

\* All that tip has is on the result of a replay from the merge base.
LEMMA ReplaysAll ==
  ASSUME IInv, NEW tip \in Commit, NEW onto \in Commit, tip < next, onto < next,
         Replays(tip, Shared(tip, onto), onto)
  PROVE  Brings(hist', own', tip) \subseteq Brings(hist', own', at')
<1>1. Shared(tip, onto) \in SUBSET Commit /\ Shared(tip, onto) \subseteq hist[onto]
  BY Facts DEF Shared, TypeOK
<1>2. /\ Grows
      /\ Brings(hist, own, onto) \subseteq Brings(hist', own', at')
      /\ UNION {own[d] : d \in hist[tip] \ Shared(tip, onto)} \subseteq Brings(hist', own', at')
  BY <1>1, ReplaysSound
<1>3. ASSUME NEW x \in Brings(hist, own, tip)
      PROVE  x \in Brings(hist', own', at')
  <2>1. PICK d \in hist[tip] : x \in own[d]
    BY DEF Brings
  <2>2. CASE d \in Shared(tip, onto)
    BY <2>1, <2>2, <1>1, <1>2 DEF Brings
  <2>3. CASE d \notin Shared(tip, onto)
    BY <2>1, <2>3, <1>2
  <2> QED
    BY <2>2, <2>3
<1>4. Brings(hist', own', tip) = Brings(hist, own, tip)
  BY <1>2, Kept
<1> QED
  BY <1>3, <1>4

\* The goal of a call that has neither pushed nor folded what it replays.
LEMMA GoalPasses ==
  ASSUME IInv, Lands, Goal, call'.goal = call.goal,
         call'.pc \notin {"update", "replayUpdate", "attemptUpdate", "fold", "foldPush", "foldUpdate"}
  PROVE  Goal'
  BY DEF Goal, Has, Lands

\* A push of the derived trunk takes nothing off it that the parent has not:
\* it is a fast-forward, or it replaces the very tip that was replayed.
LEMMA LeaseHolds ==
  ASSUME IInv, call.pc \in Pushing, Accepted
  PROVE  Brings(hist, own, trunk) \subseteq Brings(hist, own, call.cand) \cup Brings(hist, own, main)
<1>1. CASE trunk \in hist[call.cand]
  BY <1>1, Reaches, Facts
<1>2. CASE trunk \notin hist[call.cand] /\ Expected = {}
  BY <1>2 DEF Accepted
<1>3. CASE trunk \notin hist[call.cand] /\ Expected # {}
  <2>1. trunk \in Expected
    BY <1>3 DEF Accepted, Accepts
  <2>2. \/ call.pc = "replayPush" /\ trunk = call.tip
        \/ call.pc = "attemptPush" /\ trunk = attempt.tip
    BY <2>1 DEF Expected
  <2> QED
    BY <2>2, Facts DEF Sound, Replaces
<1> QED
  BY <1>1, <1>2, <1>3

LEMMA PushLandsSound ==
  ASSUME IInv, PushLands, UNCHANGED <<graph, main, mainAt, trunkAt>>
  PROVE  /\ trunk' = call.cand /\ trunk' \in Commit /\ trunk' < next'
         /\ seen' = seen \cup {call.cand}
         /\ seen' \subseteq Commit /\ \A c \in seen' : c < next'
         /\ {trunk', trunkAt'} \subseteq seen'
         /\ Closed(hist, next)' /\ Grows /\ Lands
<1>1. /\ call.pc \in Pushing /\ Accepted
      /\ trunk' = call.cand /\ seen' = seen \cup {call.cand}
      /\ UNCHANGED <<graph, main, mainAt, trunkAt>>
  BY DEF PushLands
<1>2. Lands
  BY <1>1, LeaseHolds DEF Lands, graph
<1>3. Closed(hist, next)' /\ Grows
  BY <1>1, Facts DEF Grows, graph
<1>4. /\ trunk' \in Commit /\ trunk' < next' /\ seen' \subseteq Commit
      /\ \A c \in seen' : c < next'
      /\ {trunk', trunkAt'} \subseteq seen'
  BY <1>1, Facts DEF Refs, graph
<1> QED
  BY <1>1, <1>2, <1>3, <1>4

-----------------------------------------------------------------------------
(* Everyone else. *)

LEMMA RemotePushKeeps ==
  ASSUME IInv, RemotePush
  PROVE  Keeps
<1> USE DEF RemotePush
<1>1. CASE Create(main, {next}) /\ main' = next /\ UNCHANGED <<trunk, seen>>
  <2>1. next \in Commit
    BY <1>1 DEF Create
  <2>2. /\ hist' \in [Commit -> SUBSET Commit] /\ own' \in [Commit -> SUBSET Commit]
        /\ next' \in 1 .. MaxCommit + 1 /\ next < next'
        /\ Closed(hist, next)' /\ Grows
        /\ (hist')[next] = {next} \cup hist[main]
        /\ Brings(hist', own', next) = {next} \cup Brings(hist, own, main)
    BY <1>1, <2>1, CreateSound, Facts DEF Refs
  <2>3. Brings(hist', own', trunk) = Brings(hist, own, trunk)
    BY <2>2, Kept, Facts DEF Refs
  <2>4. Lands
    BY <1>1, <2>2, <2>3 DEF Lands
  <2>5. TypeOK'
    BY <1>1, <2>1, <2>2, Facts DEF TypeOK, tree, open
  <2>6. Refs'
    BY <1>1, <2>1, <2>2, Facts DEF Refs, tree, open
  <2> QED
    BY <2>2, <2>4, <2>5, <2>6, OthersKeep
<1>2. CASE Create(trunk, {next}) /\ trunk' = next /\ seen' = seen \cup {next} /\ UNCHANGED main
  <2>1. next \in Commit
    BY <1>2 DEF Create
  <2>2. /\ hist' \in [Commit -> SUBSET Commit] /\ own' \in [Commit -> SUBSET Commit]
        /\ next' \in 1 .. MaxCommit + 1 /\ next < next'
        /\ Closed(hist, next)' /\ Grows
        /\ Brings(hist', own', next) = {next} \cup Brings(hist, own, trunk)
    BY <1>2, <2>1, CreateSound, Facts DEF Refs
  <2>3. (hist')[main] = hist[main] /\ Brings(hist', own', main) = Brings(hist, own, main)
    BY <2>2, Kept, Facts DEF Refs
  <2>4. Lands
    BY <1>2, <2>2, <2>3 DEF Lands
  <2>5. TypeOK'
    BY <1>2, <2>1, <2>2, Facts DEF TypeOK, tree, open
  <2>6. Refs'
    BY <1>2, <2>1, <2>2, <2>3, Facts DEF Refs, tree, open
  <2> QED
    BY <2>2, <2>4, <2>5, <2>6, OthersKeep
<1> QED
  BY <1>1, <1>2

\* The commits that are replayed have the changes that the parent has not.
LEMMA RemoteAdvanceKeeps ==
  ASSUME IInv, RemoteAdvance
  PROVE  Keeps
<1> DEFINE changes == UNION {own[d] : d \in hist[trunk] \ hist[main]}
<1>1. /\ Create(main, changes) /\ trunk' = next /\ seen' = seen \cup {next}
      /\ UNCHANGED <<main, mainAt, trunkAt, tree, open, call, hurt>>
  BY DEF RemoteAdvance
<1>2. changes \in SUBSET Commit
  <2>1. \A d \in hist[trunk] : own[d] \subseteq Commit
    BY Facts DEF TypeOK
  <2> QED
    BY <2>1
<1>3. Brings(hist, own, trunk) \subseteq changes \cup Brings(hist, own, main)
  BY DEF Brings
<1> HIDE DEF changes
<1>4. next \in Commit
  BY <1>1 DEF Create
<1>5. /\ hist' \in [Commit -> SUBSET Commit] /\ own' \in [Commit -> SUBSET Commit]
      /\ next' \in 1 .. MaxCommit + 1 /\ next < next'
      /\ Closed(hist, next)' /\ Grows
      /\ Brings(hist', own', next) = changes \cup Brings(hist, own, main)
  BY <1>1, <1>2, <1>4, CreateSound, Facts DEF Refs
<1>6. (hist')[main] = hist[main]
  BY <1>5, Kept, Facts DEF Refs
<1>7. Lands
  BY <1>1, <1>3, <1>5, <1>6 DEF Lands
<1>8. TypeOK'
  BY <1>1, <1>4, <1>5, Facts DEF TypeOK, tree, open
<1>9. Refs'
  BY <1>1, <1>4, <1>5, <1>6, Facts DEF Refs, tree, open
<1> QED
  BY <1>1, <1>5, <1>7, <1>8, <1>9, OthersKeep

LEMMA RemoteFoldKeeps ==
  ASSUME IInv, RemoteFold
  PROVE  Keeps
<1>1. /\ main \in hist[trunk] /\ main' = trunk
      /\ UNCHANGED <<graph, mainAt, trunk, trunkAt, seen, tree, open, call, hurt>>
  BY DEF RemoteFold
<1>2. hist[main] \subseteq hist[trunk] /\ Brings(hist, own, main) \subseteq Brings(hist, own, trunk)
  BY <1>1, Reaches, Facts
<1>3. Closed(hist, next)' /\ Grows /\ Lands
  BY <1>1, <1>2, Facts DEF Grows, Lands, graph
<1>4. TypeOK' /\ Refs'
  BY <1>1, <1>2, Facts DEF TypeOK, Refs, graph, tree, open
<1> QED
  BY <1>1, <1>3, <1>4, OthersKeep

LEMMA CopiesMoveKeeps ==
  ASSUME IInv, CopiesMove
  PROVE  Keeps
<1>1. /\ mainAt' \in hist[main] /\ trunkAt' \in {trunk, trunkAt} \cup seen
      /\ "late" \notin Mishaps => trunkAt' \in {trunk, trunkAt}
      /\ UNCHANGED <<graph, main, trunk, seen, tree, open, call, hurt>>
  BY Facts DEF CopiesMove, Refs
<1>2. TypeOK' /\ Refs'
  BY <1>1, Facts DEF TypeOK, Refs, graph, tree, open
<1>3. Loops' /\ Heads' /\ Sound'
  BY <1>1, Facts DEF Loops, Heads, HeadBack, Sound, Replaces, graph, tree, open
<1>4. "late" \notin Mishaps /\ Goal => Goal'
  BY <1>1 DEF Goal, Has, graph
<1> QED
  BY <1>1, <1>2, <1>3, <1>4, Still DEF Keeps, IInv

LEMMA ReattachesKeeps ==
  ASSUME IInv, Reattaches
  PROVE  Keeps
<1>1. /\ call.pc = "idle" /\ head' = "wing" /\ at' = Root
      /\ UNCHANGED <<graph, refs, open, call, hurt>>
  BY DEF Reattaches
<1>2. TypeOK' /\ Refs'
  BY <1>1, Facts DEF TypeOK, Refs, graph, refs, open
<1>3. Loops' /\ Heads' /\ Sound'
  BY <1>1, Facts DEF Loops, Heads, HeadBack, Sound, Resolving, graph, refs, open
<1>4. Goal => Goal'
  BY <1>1 DEF Goal, Has, graph, refs
<1> QED
  BY <1>1, <1>2, <1>3, <1>4, Still DEF Keeps, IInv, refs

-----------------------------------------------------------------------------
(* MovementManager.promote. *)

LEMMA PromotesKeeps ==
  ASSUME IInv, Promotes
  PROVE  Keeps
<1>1. /\ head = "wing"
      /\ call' = [NoCall EXCEPT !.pc = "advance", !.tries = 1, !.goal = Changes(trunk)]
      /\ UNCHANGED <<graph, refs, tree, open, hurt>>
  BY DEF Promotes
<1>2. Changes(trunk) = Brings(hist, own, trunk) /\ Changes(trunk) \in SUBSET Commit
  <2>1. \A d \in hist[trunk] : own[d] \subseteq Commit
    BY Facts DEF TypeOK
  <2> QED
    BY <2>1 DEF Changes, Brings
<1>3. /\ call' \in Call /\ call'.pc = "advance" /\ call'.tip = Root /\ call'.cand = Root
      /\ call'.goal = Brings(hist, own, trunk)
  <2>1. NoCall \in Call /\ NoCall.tip = Root /\ NoCall.cand = Root
    BY Facts DEF NoCall, Call, Step
  <2>2. 1 \in 0 .. MaxAttempts /\ "advance" \in Step
    BY Facts DEF Step
  <2> QED
    BY <1>1, <1>2, <2>1, <2>2 DEF Call
<1>4. TypeOK' /\ Refs'
  BY <1>1, <1>3, Facts DEF TypeOK, Refs, graph, refs, tree, open
<1>5. Loops' /\ Heads' /\ Sound'
  BY <1>1, <1>3, Facts DEF Loops, Heads, HeadBack, Sound, Replaying, Resolving, graph, refs, tree, open
<1>6. Goal'
  BY <1>1, <1>3 DEF Goal, Has, graph, refs
<1> QED
  BY <1>1, <1>4, <1>5, <1>6, Still DEF Keeps, IInv, refs

LEMMA StutterKeeps ==
  ASSUME IInv, UNCHANGED vars
  PROVE  Keeps
<1> USE DEF vars, graph, refs, tree, open
<1>1. IInv'
  BY DEF IInv, TypeOK, Closed, Refs, Loops, Heads, HeadBack, Sound, Replaces
<1>2. Goal => Goal'
  BY DEF Goal, Has
<1> QED
  BY <1>1, <1>2, Still DEF Keeps

-----------------------------------------------------------------------------
(* DiskDerivedTrunk.advance. *)

LEMMA AdvanceMovesKeeps ==
  ASSUME IInv, AdvanceMoves
  PROVE  Keeps
<1>1. PICK c \in {trunkAt, mainAt} : call' = [call EXCEPT !.pc = "push", !.cand = c]
  BY DEF AdvanceMoves
<1>2. /\ call' \in Call /\ call'.pc = "push" /\ call'.cand = c
      /\ call'.tip = call.tip /\ call'.folds = call.folds /\ call'.goal = call.goal
  BY <1>1, Facts DEF Call, Step
<1>3. call.pc = "advance" /\ UNCHANGED <<graph, refs, tree, open, hurt>>
  BY DEF AdvanceMoves
<1>4. TypeOK' /\ Refs'
  BY <1>2, <1>3, Facts DEF TypeOK, Refs, graph, refs, tree, open
<1>5. Loops' /\ Heads' /\ Sound'
  BY <1>2, <1>3, Facts DEF Loops, Heads, HeadBack, Sound, Replaying, Resolving, graph, refs, tree, open
<1>6. Goal => Goal'
  BY <1>2, <1>3 DEF Goal, Has, graph, refs
<1> QED
  BY <1>3, <1>4, <1>5, <1>6, Still DEF Keeps, IInv, refs

LEMMA AdvanceReplaysKeeps ==
  ASSUME IInv, AdvanceReplays
  PROVE  Keeps
<1>1. /\ Replays(trunkAt, Shared(trunkAt, mainAt), mainAt)
      /\ head' = "detached"
      /\ call' = [call EXCEPT !.pc = "replayPush", !.tip = trunkAt, !.cand = at']
      /\ UNCHANGED <<refs, open, hurt>>
  BY DEF AdvanceReplays
<1>2. Shared(trunkAt, mainAt) \in SUBSET Commit
  BY Facts DEF Shared, TypeOK
<1>3. /\ hist' \in [Commit -> SUBSET Commit] /\ own' \in [Commit -> SUBSET Commit]
      /\ next' \in 1 .. MaxCommit + 1
      /\ Closed(hist, next)' /\ Grows
      /\ at' \in Commit /\ at' < next'
  BY <1>1, <1>2, ReplaysSound, Facts
<1>4. Brings(hist', own', trunkAt) \subseteq Brings(hist', own', at')
  BY <1>1, ReplaysAll, Facts
<1>5. /\ call' \in Call /\ call'.pc = "replayPush" /\ call'.tip = trunkAt /\ call'.cand = at'
      /\ call'.goal = call.goal
  <2>1. PICK c \in Commit, t \in Commit :
          /\ c = at' /\ t = trunkAt
          /\ call' = [call EXCEPT !.pc = "replayPush", !.tip = t, !.cand = c]
    BY <1>1, <1>3, Facts
  <2> QED
    BY <2>1, Facts DEF Call, Step, Replaying
<1>6. /\ Lands /\ (hist')[main] = hist[main] /\ \A c \in seen : c < next'
      /\ \A c \in {main, trunkAt, trunk, attempt.tip, attempt.parent} : c < next'
  BY <1>1, <1>3, ReplayStep
<1>7. TypeOK' /\ Refs'
  BY <1>1, <1>3, <1>5, <1>6, Facts DEF TypeOK, Refs, refs, open
<1>8. Loops' /\ Heads' /\ Sound'
  BY <1>1, <1>4, <1>5, Facts DEF Loops, Heads, HeadBack, Sound, Replaces, Replaying, Resolving, refs, open
<1>9. Goal => Goal'
  BY <1>5, <1>6, GoalPasses
<1> QED
  BY <1>3, <1>6, <1>7, <1>8, <1>9 DEF Keeps, IInv

LEMMA AdvanceConflictsKeeps ==
  ASSUME IInv, AdvanceConflicts
  PROVE  Keeps
<1>1. /\ call.pc = "advance" /\ call' = [call EXCEPT !.pc = "begin"]
      /\ UNCHANGED <<graph, refs, tree, open, hurt>>
  BY DEF AdvanceConflicts, GoesTo
<1>2. /\ call' \in Call /\ call'.pc = "begin" /\ call'.tip = call.tip /\ call'.cand = call.cand
      /\ call'.goal = call.goal
  BY <1>1, Facts DEF Call, Step
<1>3. TypeOK' /\ Refs'
  BY <1>1, <1>2, Facts DEF TypeOK, Refs, graph, refs, tree, open
<1>4. Loops' /\ Heads' /\ Sound'
  BY <1>1, <1>2, Facts DEF Loops, Heads, HeadBack, Sound, Replaying, Resolving, graph, refs, tree, open
<1>5. Goal => Goal'
  BY <1>1, <1>2 DEF Goal, Has, graph, refs
<1> QED
  BY <1>1, <1>3, <1>4, <1>5, Still DEF Keeps, IInv, refs

LEMMA PushesKeeps ==
  ASSUME IInv, Pushes
  PROVE  Keeps
<1>1. /\ PushLands /\ call.pc \in Pushing /\ call' = [call EXCEPT !.pc = After(call.pc)]
      /\ UNCHANGED <<graph, main, mainAt, trunkAt, tree, open, hurt>>
  BY DEF Pushes, PushLands, GoesTo
<1>2. /\ After(call.pc) \in {"update", "replayUpdate", "attemptUpdate"}
      /\ call.pc \in Replaying \cup Resolving <=> After(call.pc) \in Replaying \cup Resolving
      /\ call.pc \in Resolving <=> After(call.pc) \in Resolving
  BY <1>1 DEF After, Pushing, Replaying, Resolving
<1>3. /\ call' \in Call /\ call'.pc = After(call.pc)
      /\ call'.tip = call.tip /\ call'.cand = call.cand /\ call'.goal = call.goal
  BY <1>1, <1>2, Facts DEF Call, Step, Replaying, Resolving
<1>4. /\ trunk' = call.cand /\ trunk' \in Commit /\ trunk' < next'
      /\ seen' = seen \cup {call.cand}
      /\ seen' \subseteq Commit /\ \A c \in seen' : c < next'
      /\ {trunk', trunkAt'} \subseteq seen'
      /\ Closed(hist, next)' /\ Grows /\ Lands
  BY <1>1, PushLandsSound
<1>5. TypeOK' /\ Refs'
  BY <1>1, <1>3, <1>4, Facts DEF TypeOK, Refs, graph, tree, open
<1>6. Loops' /\ Heads' /\ Sound'
  BY <1>1, <1>2, <1>3, Facts DEF Loops, Heads, HeadBack, Sound, Pushing, graph, tree, open
<1>7. Goal => Goal'
  BY <1>2, <1>3, <1>4 DEF Goal, Has, Lands
<1> QED
  BY <1>4, <1>5, <1>6, <1>7 DEF Keeps, IInv

LEMMA RejectedKeeps ==
  ASSUME IInv, Rejected
  PROVE  Keeps
<1>1. /\ call.pc \in {"push", "replayPush"} /\ head' = "wing" /\ at' = Root
      /\ UNCHANGED <<graph, refs, open, hurt>>
  BY DEF Rejected, SwitchesBack
<1>2. PICK pc \in {"fetchOwn", "begin"} :
        call' = [call EXCEPT !.pc = pc] /\ (pc = "fetchOwn" => call.tries < MaxAttempts)
  BY DEF Rejected, GoesTo, MayRetry
<1>3. /\ call' \in Call /\ call'.pc = pc /\ call'.tip = call.tip /\ call'.cand = call.cand
      /\ call'.tries = call.tries /\ call'.goal = call.goal
  BY <1>2, Facts DEF Call, Step
<1>4. TypeOK' /\ Refs'
  BY <1>1, <1>3, Facts DEF TypeOK, Refs, graph, refs, open
<1>5. Loops' /\ Heads' /\ Sound'
  BY <1>1, <1>2, <1>3, Facts DEF Loops, Heads, HeadBack, Sound, Replaying, Resolving, graph, refs, open
<1>6. Goal => Goal'
  BY <1>1, <1>3 DEF Goal, Has, graph, refs
<1> QED
  BY <1>1, <1>4, <1>5, <1>6, Still DEF Keeps, IInv, refs

LEMMA UpdatesKeeps ==
  ASSUME IInv, Updates
  PROVE  Keeps
<1>1. /\ call.pc \in {"update", "replayUpdate"} /\ trunkAt' = call.cand
      /\ head' = "wing" /\ at' = Root
      /\ UNCHANGED <<graph, main, mainAt, trunk, seen, open, hurt>>
  BY DEF Updates, SwitchesBack
<1>2. CASE call.folds < MaxFolds /\ GoesTo("fold")
  <2>1. /\ call' \in Call /\ call'.pc = "fold" /\ call'.tip = call.tip /\ call'.cand = call.cand
        /\ call'.folds = call.folds /\ call'.goal = call.goal
    BY <1>2, Facts DEF Call, Step, GoesTo
  <2>2. TypeOK' /\ Refs'
    BY <1>1, <2>1, Facts DEF TypeOK, Refs, graph, open
  <2>3. Loops' /\ Heads' /\ Sound'
    BY <1>1, <1>2, <2>1, Facts DEF Loops, Heads, HeadBack, Sound, Replaying, Resolving, graph, open
  <2>4. Goal => Goal'
    BY <1>1, <2>1 DEF Goal, Has, graph
  <2> QED
    BY <1>1, <2>2, <2>3, <2>4, Still DEF Keeps, IInv
<1>3. CASE Returns
  <2>1. TypeOK' /\ Refs'
    BY <1>1, <1>3, ReturnsSound, Facts DEF TypeOK, Refs, graph, open
  <2>2. Heads'
    BY <1>1, <1>3, ReturnsSound DEF Heads, HeadBack
  <2> QED
    BY <1>1, <1>3, <2>1, <2>2, ReturnsSound, Still DEF Keeps, IInv
<1> QED
  BY <1>2, <1>3 DEF Updates

LEMMA FetchesOwnKeeps ==
  ASSUME IInv, FetchesOwn
  PROVE  Keeps
<1>1. /\ call.pc \in {"fetchOwn", "attemptOwn"} /\ trunkAt' \in {trunk, trunkAt}
      /\ UNCHANGED <<graph, main, mainAt, trunk, seen, tree, open, hurt>>
  BY DEF FetchesOwn
<1>2. PICK pc \in {"fetchParent", "attemptParent"} :
        call' = [call EXCEPT !.pc = pc] /\ (pc = "fetchParent" <=> call.pc = "fetchOwn")
  BY <1>1 DEF FetchesOwn, GoesTo
<1>3. /\ call' \in Call /\ call'.pc = pc /\ call'.tip = call.tip /\ call'.cand = call.cand
      /\ call'.tries = call.tries /\ call'.goal = call.goal
  BY <1>2, Facts DEF Call, Step, Resolving
<1>4. TypeOK' /\ Refs'
  BY <1>1, <1>3, Facts DEF TypeOK, Refs, graph, tree, open
<1>5. Loops' /\ Heads' /\ Sound'
  BY <1>1, <1>2, <1>3, Facts DEF Loops, Heads, HeadBack, Sound, Replaces, Replaying, Resolving, graph, tree, open
<1>6. Goal => Goal'
  BY <1>1, <1>3 DEF Goal, Has, graph
<1> QED
  BY <1>1, <1>4, <1>5, <1>6, Still DEF Keeps, IInv

LEMMA FetchesParentKeeps ==
  ASSUME IInv, FetchesParent
  PROVE  Keeps
<1>1. /\ call.pc \in {"fetchParent", "attemptParent"} /\ mainAt' \in {main, mainAt}
      /\ UNCHANGED <<graph, main, trunk, trunkAt, seen, tree, open, hurt>>
  BY DEF FetchesParent
<1>2. PICK pc \in {"advance", "publish"} :
        /\ call' = [call EXCEPT !.pc = pc, !.tries = call.tries + 1]
        /\ pc = "advance" <=> call.pc = "fetchParent"
  BY <1>1 DEF FetchesParent
<1>3. call.tries + 1 \in 0 .. MaxAttempts
  BY <1>1, Facts DEF Loops
<1>4. /\ call' \in Call /\ call'.pc = pc /\ call'.tip = call.tip /\ call'.cand = call.cand
      /\ call'.goal = call.goal
  BY <1>2, <1>3, Facts DEF Call, Step, Resolving
<1>5. mainAt' \in hist[main] /\ mainAt' \in Commit
  BY <1>1, Facts DEF Refs, Closed
<1>6. TypeOK' /\ Refs'
  BY <1>1, <1>4, <1>5, Facts DEF TypeOK, Refs, graph, tree, open
<1>7. Loops' /\ Heads' /\ Sound'
  BY <1>1, <1>2, <1>4, Facts DEF Loops, Heads, HeadBack, Sound, Replaces, Replaying, Resolving, graph, tree, open
<1>8. Goal => Goal'
  BY <1>1, <1>2, <1>4 DEF Goal, Has, graph
<1> QED
  BY <1>1, <1>6, <1>7, <1>8, Still DEF Keeps, IInv

-----------------------------------------------------------------------------
(* beginAdvance and the AdvanceAttempt. *)

LEMMA HaltsKeeps ==
  ASSUME IInv, NEW tip \in Commit, Halts(tip, trunkAt, mainAt)
  PROVE  Keeps
<1>1. /\ head' = "rebasing" /\ at' = mainAt /\ kept' = TRUE /\ Returns
      /\ attempt' = [status |-> "conflict", tip |-> trunkAt, parent |-> mainAt]
      /\ UNCHANGED <<graph, refs, hurt>>
  BY DEF Halts
<1>2. attempt' \in Attempt /\ attempt'.tip = trunkAt /\ attempt'.parent = mainAt
  BY <1>1, Facts DEF Attempt
<1>3. TypeOK' /\ Refs'
  BY <1>1, <1>2, ReturnsSound, Facts DEF TypeOK, Refs, graph, refs
<1>4. Heads'
  BY <1>1, ReturnsSound DEF Heads, HeadBack
<1> QED
  BY <1>1, <1>3, <1>4, ReturnsSound, Still DEF Keeps, IInv, refs

LEMMA BeginsKeeps ==
  ASSUME IInv, Begins
  PROVE  Keeps
<1>1. /\ Replays(trunkAt, Shared(trunkAt, mainAt), mainAt)
      /\ head' = "scratch"
      /\ attempt' = [status |-> "ready", tip |-> trunkAt, parent |-> mainAt]
      /\ call' = [call EXCEPT !.pc = "publish", !.tries = 1]
      /\ UNCHANGED <<refs, kept, hurt>>
  BY DEF Begins, Ready
<1>2. Shared(trunkAt, mainAt) \in SUBSET Commit
  BY Facts DEF Shared, TypeOK
<1>3. /\ hist' \in [Commit -> SUBSET Commit] /\ own' \in [Commit -> SUBSET Commit]
      /\ next' \in 1 .. MaxCommit + 1
      /\ Closed(hist, next)' /\ Grows
      /\ at' \in Commit /\ at' < next'
  BY <1>1, <1>2, ReplaysSound, Facts
<1>4. Brings(hist', own', trunkAt) \subseteq Brings(hist', own', at')
  BY <1>1, ReplaysAll, Facts
<1>5. /\ call' \in Call /\ call'.pc = "publish" /\ call'.tip = call.tip /\ call'.cand = call.cand
      /\ call'.goal = call.goal
  <2>1. 1 \in 0 .. MaxAttempts /\ "publish" \in Step
    BY Facts DEF Step, Resolving
  <2> QED
    BY <1>1, <2>1, Facts DEF Call
<1>6. attempt' \in Attempt /\ attempt'.tip = trunkAt /\ attempt'.parent = mainAt
  BY <1>1, Facts DEF Attempt
<1>7. /\ Lands /\ (hist')[main] = hist[main] /\ \A c \in seen : c < next'
      /\ \A c \in {main, mainAt, trunkAt, trunk, call.tip, call.cand} : c < next'
  BY <1>1, <1>3, ReplayStep
<1>8. TypeOK' /\ Refs'
  BY <1>1, <1>3, <1>5, <1>6, <1>7, Facts DEF TypeOK, Refs, refs
<1>9. Loops' /\ Heads'
  BY <1>1, <1>5, Facts DEF Loops, Heads, HeadBack, Resolving
<1>10. Sound'
  BY <1>1, <1>4, <1>5, <1>6, <1>7, Facts DEF Sound, Refs, Replaces, refs
<1>11. Goal => Goal'
  BY <1>5, <1>7, GoalPasses
<1> QED
  BY <1>3, <1>7, <1>8, <1>9, <1>10, <1>11 DEF Keeps, IInv

LEMMA PublishesAsIsKeeps ==
  ASSUME IInv, PublishesAsIs
  PROVE  Keeps
<1>1. /\ call.pc = "publish" /\ call' = [call EXCEPT !.pc = "attemptPush", !.cand = at]
      /\ UNCHANGED <<graph, refs, tree, open, hurt>>
  BY DEF PublishesAsIs
<1>2. /\ call' \in Call /\ call'.pc = "attemptPush" /\ call'.tip = call.tip /\ call'.cand = at
      /\ call'.goal = call.goal
  BY <1>1, Facts DEF Call, Step, Resolving
<1>3. TypeOK' /\ Refs'
  BY <1>1, <1>2, Facts DEF TypeOK, Refs, graph, refs, tree, open
<1>4. Loops' /\ Heads' /\ Sound'
  BY <1>1, <1>2, Facts DEF Loops, Heads, HeadBack, Sound, Replaces, Resolving, graph, refs, tree, open
<1>5. Goal => Goal'
  BY <1>1, <1>2 DEF Goal, Has, graph, refs
<1> QED
  BY <1>1, <1>3, <1>4, <1>5, Still DEF Keeps, IInv, refs

\* What recompute leaves out when it replays the resolved commits is on the
\* parent: the attempt was made on a commit of it.
LEMMA RecomputesAll ==
  ASSUME IInv, call.pc = "publish", Replays(Base, Past, mainAt)
  PROVE  /\ hist' \in [Commit -> SUBSET Commit] /\ own' \in [Commit -> SUBSET Commit]
         /\ next' \in 1 .. MaxCommit + 1
         /\ Closed(hist, next)' /\ Grows
         /\ at' \in Commit /\ at' < next'
         /\ Brings(hist', own', trunkAt) \subseteq Brings(hist', own', at') \cup Brings(hist, own, main)
<1>1. CASE TrunkMoved
  <2>1. Replays(trunkAt, Shared(trunkAt, mainAt), mainAt)
    BY <1>1 DEF Base, Past
  <2>2. Shared(trunkAt, mainAt) \in SUBSET Commit
    BY Facts DEF Shared, TypeOK
  <2> QED
    BY <2>1, <2>2, ReplaysSound, ReplaysAll, Facts
<1>2. CASE ~TrunkMoved
  <2>1. Replays(at, hist[attempt.parent], mainAt) /\ trunkAt = attempt.tip
    BY <1>2 DEF Base, Past, TrunkMoved
  <2>2. hist[attempt.parent] \in SUBSET Commit /\ at < next
    BY Facts DEF TypeOK, Refs
  <2>3. /\ hist' \in [Commit -> SUBSET Commit] /\ own' \in [Commit -> SUBSET Commit]
        /\ next' \in 1 .. MaxCommit + 1
        /\ Closed(hist, next)' /\ Grows
        /\ at' \in Commit /\ at' < next'
        /\ UNION {own[d] : d \in hist[at] \ hist[attempt.parent]} \subseteq Brings(hist', own', at')
    BY <2>1, <2>2, ReplaysSound, Facts
  <2>4. Brings(hist, own, attempt.parent) \subseteq Brings(hist, own, main)
    BY Reaches, Facts DEF Sound, Resolving
  <2>5. ASSUME NEW x \in Brings(hist, own, at)
        PROVE  x \in Brings(hist', own', at') \cup Brings(hist, own, main)
    <3>1. PICK d \in hist[at] : x \in own[d]
      BY DEF Brings
    <3>2. CASE d \in hist[attempt.parent]
      BY <3>1, <3>2, <2>4 DEF Brings
    <3>3. CASE d \notin hist[attempt.parent]
      BY <3>1, <3>3, <2>3
    <3> QED
      BY <3>2, <3>3
  <2>6. Brings(hist, own, attempt.tip) \subseteq Brings(hist, own, at) \cup Brings(hist, own, main)
    BY Facts DEF Sound, Replaces
  <2>7. Brings(hist', own', trunkAt) = Brings(hist, own, trunkAt)
    BY <2>3, Kept, Facts
  <2> QED
    BY <2>1, <2>3, <2>5, <2>6, <2>7
<1> QED
  BY <1>1, <1>2

LEMMA RecomputesKeeps ==
  ASSUME IInv, Recomputes
  PROVE  Keeps
<1>1. /\ call.pc = "publish"
      /\ Replays(Base, Past, mainAt)
      /\ head' = "scratch"
      /\ UNCHANGED <<refs, kept, hurt>>
  BY DEF Recomputes, Ready
<1>2. /\ hist' \in [Commit -> SUBSET Commit] /\ own' \in [Commit -> SUBSET Commit]
      /\ next' \in 1 .. MaxCommit + 1
      /\ Closed(hist, next)' /\ Grows
      /\ at' \in Commit /\ at' < next'
      /\ Brings(hist', own', trunkAt) \subseteq Brings(hist', own', at') \cup Brings(hist, own, main)
  BY <1>1, RecomputesAll
<1>3. /\ call' \in Call /\ call'.pc = "attemptPush" /\ call'.tip = call.tip /\ call'.cand = at'
      /\ call'.goal = call.goal
  <2>1. PICK c \in Commit : c = at' /\ call' = [call EXCEPT !.pc = "attemptPush", !.cand = c]
    BY <1>2 DEF Recomputes
  <2> QED
    BY <2>1, Facts DEF Call, Step, Resolving
<1>4. attempt' \in Attempt /\ attempt'.tip = trunkAt /\ attempt'.parent = mainAt
  BY Facts DEF Recomputes, Attempt
<1>5. /\ Lands /\ (hist')[main] = hist[main] /\ \A c \in seen : c < next'
      /\ Brings(hist', own', main) = Brings(hist, own, main)
      /\ \A c \in {main, mainAt, trunkAt, trunk, call.tip, call.cand} : c < next'
  BY <1>1, <1>2, ReplayStep
<1>6. TypeOK' /\ Refs'
  BY <1>1, <1>2, <1>3, <1>4, <1>5, Facts DEF TypeOK, Refs, refs
<1>7. Loops' /\ Heads'
  BY <1>1, <1>3, Facts DEF Loops, Heads, HeadBack, Resolving
<1>8. Sound'
  BY <1>1, <1>2, <1>3, <1>4, <1>5, Facts DEF Sound, Refs, Replaces, refs
<1>9. Goal => Goal'
  BY <1>3, <1>5, GoalPasses
<1> QED
  BY <1>2, <1>5, <1>6, <1>7, <1>8, <1>9 DEF Keeps, IInv

LEMMA AttemptLandsKeeps ==
  ASSUME IInv, AttemptLands
  PROVE  Keeps
<1>1. /\ call.pc = "attemptUpdate" /\ trunkAt' = call.cand
      /\ head' = "wing" /\ at' = Root /\ attempt' = NoAttempt /\ kept' = FALSE
      /\ UNCHANGED <<graph, main, mainAt, trunk, seen, hurt>>
  BY DEF AttemptLands, SwitchesBack
<1>2. attempt' \in Attempt /\ attempt'.tip = Root /\ attempt'.parent = Root
  BY <1>1, Facts DEF NoAttempt, Attempt
<1>3. CASE call.folds < MaxFolds /\ GoesTo("fold")
  <2>1. /\ call' \in Call /\ call'.pc = "fold" /\ call'.tip = call.tip /\ call'.cand = call.cand
        /\ call'.folds = call.folds /\ call'.goal = call.goal
    BY <1>3, Facts DEF Call, Step, GoesTo
  <2>2. TypeOK' /\ Refs'
    BY <1>1, <1>2, <2>1, Facts DEF TypeOK, Refs, graph
  <2>3. Loops' /\ Heads' /\ Sound'
    BY <1>1, <1>3, <2>1, Facts DEF Loops, Heads, HeadBack, Sound, Replaying, Resolving, graph
  <2>4. Goal => Goal'
    BY <1>1, <2>1 DEF Goal, Has, graph
  <2> QED
    BY <1>1, <2>2, <2>3, <2>4, Still DEF Keeps, IInv
<1>4. CASE Returns
  <2>1. TypeOK' /\ Refs'
    BY <1>1, <1>2, <1>4, ReturnsSound, Facts DEF TypeOK, Refs, graph
  <2>2. Heads'
    BY <1>1, <1>4, ReturnsSound DEF Heads, HeadBack
  <2> QED
    BY <1>1, <1>4, <2>1, <2>2, ReturnsSound, Still DEF Keeps, IInv
<1> QED
  BY <1>3, <1>4 DEF AttemptLands

LEMMA AttemptRejectedKeeps ==
  ASSUME IInv, AttemptRejected
  PROVE  Keeps
<1>1. call.pc = "attemptPush" /\ UNCHANGED <<graph, refs, tree, attempt, hurt>>
  BY DEF AttemptRejected
<1>2. CASE call.tries < MaxAttempts /\ GoesTo("attemptOwn") /\ UNCHANGED kept
  <2>1. /\ call' \in Call /\ call'.pc = "attemptOwn" /\ call'.tip = call.tip
        /\ call'.cand = call.cand /\ call'.tries = call.tries /\ call'.goal = call.goal
    BY <1>2, Facts DEF Call, Step, Resolving, GoesTo
  <2>2. TypeOK' /\ Refs'
    BY <1>1, <1>2, <2>1, Facts DEF TypeOK, Refs, graph, refs, tree
  <2>3. Loops' /\ Heads' /\ Sound'
    BY <1>1, <1>2, <2>1, Facts DEF Loops, Heads, HeadBack, Sound, Replaces, Replaying, Resolving, graph, refs, tree
  <2>4. Goal => Goal'
    BY <1>1, <2>1 DEF Goal, Has, graph, refs
  <2> QED
    BY <1>1, <2>2, <2>3, <2>4, Still DEF Keeps, IInv, refs
<1>3. CASE Returns /\ kept' = TRUE
  <2>1. TypeOK' /\ Refs'
    BY <1>1, <1>3, ReturnsSound, Facts DEF TypeOK, Refs, graph, refs, tree
  <2>2. Heads'
    BY <1>3, ReturnsSound DEF Heads, HeadBack
  <2> QED
    BY <1>1, <1>3, <2>1, <2>2, ReturnsSound, Still DEF Keeps, IInv, refs
<1> QED
  BY <1>2, <1>3 DEF AttemptRejected, MayRetry

-----------------------------------------------------------------------------
(* foldPromotedTrunk. *)

\* A refused fold is one more, of those that are left.
LEMMA RefusedSound ==
  ASSUME IInv, call.pc \in {"fold", "foldFetch"}, Refused
  PROVE  /\ call' \in Call /\ call'.pc = "advance"
         /\ call'.tip = call.tip /\ call'.cand = call.cand /\ call'.goal = call.goal
         /\ Loops' /\ Sound'
         /\ Lands /\ Goal => Goal'
<1>1. call.folds + 1 \in 0 .. MaxFolds
  BY Facts DEF Loops
<1>2. call' = [call EXCEPT !.pc = "advance", !.tries = 1, !.folds = call.folds + 1]
  BY DEF Refused
<1>3. 1 \in 0 .. MaxAttempts /\ "advance" \in Step
  BY Facts DEF Step
<1>4. /\ call' \in Call /\ call'.pc = "advance"
      /\ call'.tip = call.tip /\ call'.cand = call.cand /\ call'.goal = call.goal
  BY <1>1, <1>2, <1>3, Facts DEF Call
<1>5. Loops' /\ Sound'
  BY <1>4 DEF Loops, Sound, Resolving
<1>6. Lands /\ Goal => Goal'
  BY <1>4, GoalPasses
<1> QED
  BY <1>4, <1>5, <1>6

LEMMA FoldsKeeps ==
  ASSUME IInv, Folds
  PROVE  Keeps
<1>1. call.pc = "fold" /\ UNCHANGED <<graph, refs, tree, open, hurt>>
  BY DEF Folds
<1>2. head = "wing"
  BY <1>1, Facts DEF Heads, Replaying, Resolving
<1>3. CASE call' = [call EXCEPT !.pc = "foldPush", !.cand = trunkAt]
  <2>1. /\ call' \in Call /\ call'.pc = "foldPush" /\ call'.tip = call.tip
        /\ call'.cand = trunkAt /\ call'.folds = call.folds /\ call'.goal = call.goal
    BY <1>3, Facts DEF Call, Step
  <2>2. TypeOK' /\ Refs'
    BY <1>1, <2>1, Facts DEF TypeOK, Refs, graph, refs, tree, open
  <2>3. Loops' /\ Heads' /\ Sound'
    BY <1>1, <1>2, <2>1, Facts DEF Loops, Heads, HeadBack, Sound, Resolving, tree
  <2>4. Goal => Goal'
    BY <1>1, <2>1 DEF Goal, Has, graph, refs
  <2> QED
    BY <1>1, <2>2, <2>3, <2>4, Still DEF Keeps, IInv, refs
<1>4. CASE Refused
  <2>1. TypeOK' /\ Refs' /\ Heads'
    BY <1>1, <1>2, <1>4, RefusedSound, Facts
      DEF TypeOK, Refs, Heads, HeadBack, graph, refs, tree, open
  <2> QED
    BY <1>1, <1>4, <2>1, RefusedSound, Still DEF Keeps, IInv, refs
<1> QED
  BY <1>3, <1>4 DEF Folds

\* The parent takes a commit that it is behind of.
LEMMA FoldLands ==
  ASSUME IInv, FoldAccepted, main' = call.cand, UNCHANGED <<graph, trunk>>
  PROVE  /\ main' \in Commit /\ main' < next'
         /\ hist[main] \subseteq (hist')[main'] /\ main' \in (hist')[main']
         /\ Brings(hist', own', main') = Brings(hist, own, call.cand)
         /\ Brings(hist, own, main) \subseteq Brings(hist', own', main')
         /\ Closed(hist, next)' /\ Grows /\ Lands
<1>1. hist[main] \subseteq hist[call.cand] /\ Brings(hist, own, main) \subseteq Brings(hist, own, call.cand)
  BY Reaches, Facts DEF FoldAccepted
<1>2. call.cand < next /\ call.cand \in hist[call.cand]
  BY Facts DEF Refs, Closed
<1>3. Closed(hist, next)' /\ Grows
  BY Facts DEF Grows, graph
<1> QED
  BY <1>1, <1>2, <1>3, Facts DEF Lands, graph

LEMMA FoldPushesKeeps ==
  ASSUME IInv, FoldPushes
  PROVE  Keeps
<1>1. /\ FoldAccepted /\ call.pc = "foldPush" /\ main' = call.cand
      /\ call' = [call EXCEPT !.pc = "foldUpdate"]
      /\ UNCHANGED <<graph, mainAt, trunk, trunkAt, seen, tree, open, hurt>>
  BY DEF FoldPushes, FoldAccepted, GoesTo
<1>2. /\ call' \in Call /\ call'.pc = "foldUpdate" /\ call'.tip = call.tip
      /\ call'.cand = call.cand /\ call'.folds = call.folds /\ call'.goal = call.goal
  BY <1>1, Facts DEF Call, Step
<1>3. /\ main' \in Commit /\ main' < next'
      /\ hist[main] \subseteq (hist')[main'] /\ main' \in (hist')[main']
      /\ Brings(hist', own', main') = Brings(hist, own, call.cand)
      /\ Brings(hist, own, main) \subseteq Brings(hist', own', main')
      /\ Closed(hist, next)' /\ Grows /\ Lands
  BY <1>1, FoldLands
<1>4. TypeOK' /\ Refs'
  BY <1>1, <1>2, <1>3, Facts DEF TypeOK, Refs, graph, tree, open
<1>5. Loops' /\ Heads' /\ Sound'
  BY <1>1, <1>2, <1>3, Facts DEF Loops, Heads, HeadBack, Sound, Replaying, Resolving, tree
<1>6. Goal => Goal'
  BY <1>1, <1>2, <1>3 DEF Goal, Has, graph
<1> QED
  BY <1>3, <1>4, <1>5, <1>6 DEF Keeps, IInv

LEMMA FoldRejectedKeeps ==
  ASSUME IInv, FoldRejected
  PROVE  Keeps
<1>1. /\ call.pc = "foldPush" /\ call' = [call EXCEPT !.pc = "foldFetch"]
      /\ UNCHANGED <<graph, refs, tree, open, hurt>>
  BY DEF FoldRejected, GoesTo
<1>2. /\ call' \in Call /\ call'.pc = "foldFetch" /\ call'.tip = call.tip
      /\ call'.cand = call.cand /\ call'.folds = call.folds /\ call'.goal = call.goal
  BY <1>1, Facts DEF Call, Step
<1>3. TypeOK' /\ Refs'
  BY <1>1, <1>2, Facts DEF TypeOK, Refs, graph, refs, tree, open
<1>4. Loops' /\ Heads' /\ Sound'
  BY <1>1, <1>2, Facts DEF Loops, Heads, HeadBack, Sound, Replaying, Resolving, tree
<1>5. Goal => Goal'
  BY <1>1, <1>2 DEF Goal, Has, graph, refs
<1> QED
  BY <1>1, <1>3, <1>4, <1>5, Still DEF Keeps, IInv, refs

LEMMA FoldFetchesKeeps ==
  ASSUME IInv, FoldFetches
  PROVE  Keeps
<1>1. /\ call.pc = "foldFetch" /\ mainAt' \in {main, mainAt} /\ Refused
      /\ UNCHANGED <<graph, main, trunk, trunkAt, seen, tree, open, hurt>>
  BY DEF FoldFetches
<1>2. mainAt' \in hist[main] /\ mainAt' \in Commit
  BY <1>1, Facts DEF Refs, Closed
<1>3. TypeOK' /\ Refs'
  BY <1>1, <1>2, RefusedSound, Facts DEF TypeOK, Refs, graph, tree, open
<1>4. Heads'
  BY <1>1, RefusedSound, Facts DEF Heads, HeadBack, Replaying, Resolving, tree
<1> QED
  BY <1>1, <1>3, <1>4, RefusedSound, Still DEF Keeps, IInv

LEMMA SucceedsKeeps ==
  ASSUME IInv, Succeeds
  PROVE  Keeps
<1>1. /\ call.pc = "foldUpdate" /\ mainAt' = call.cand /\ Returns
      /\ UNCHANGED <<graph, main, trunk, trunkAt, seen, tree, open, hurt>>
  BY DEF Succeeds
<1>2. TypeOK' /\ Refs'
  BY <1>1, ReturnsSound, Facts DEF TypeOK, Refs, Sound, graph, tree, open
<1>3. Heads'
  BY <1>1, ReturnsSound, Facts DEF Heads, HeadBack, Replaying, Resolving, tree
<1> QED
  BY <1>1, <1>2, <1>3, ReturnsSound, Still DEF Keeps, IInv

-----------------------------------------------------------------------------
(* Failures. *)

LEMMA ThrowsSound ==
  ASSUME IInv, Throws
  PROVE  /\ Returns /\ hurt' = TRUE
         /\ head' \in {"wing", "detached", "scratch", "rebasing"}
         /\ at' \in Commit /\ at' \in {at, Root}
         /\ attempt' \in Attempt /\ attempt'.tip = Root /\ attempt'.parent = Root
<1>1. Returns /\ hurt' = TRUE /\ attempt' = NoAttempt
  BY DEF Throws
<1>2. attempt' \in Attempt /\ attempt'.tip = Root /\ attempt'.parent = Root
  BY <1>1, Facts DEF NoAttempt, Attempt
<1>3. /\ head' \in {"wing", "detached", "scratch", "rebasing"}
      /\ at' \in Commit /\ at' \in {at, Root}
  BY Facts DEF Throws, SwitchesBack, TypeOK, tree
<1> QED
  BY <1>1, <1>2, <1>3

LEMMA FailsKeeps ==
  ASSUME IInv, Fails
  PROVE  Keeps
<1>1. Throws /\ UNCHANGED <<graph, refs, kept>>
  BY DEF Fails
<1>2. TypeOK' /\ Refs'
  BY <1>1, ThrowsSound, ReturnsSound, Facts DEF TypeOK, Refs, graph, refs
<1>3. Heads'
  BY <1>1, ThrowsSound, ReturnsSound DEF Heads, HeadBack
<1> QED
  BY <1>1, <1>2, <1>3, ThrowsSound, ReturnsSound, Still DEF Keeps, IInv, refs

LEMMA PushUnansweredKeeps ==
  ASSUME IInv, PushUnanswered
  PROVE  Keeps
<1>1. PushLands /\ Throws /\ UNCHANGED <<graph, main, mainAt, trunkAt, kept>>
  BY DEF PushUnanswered
<1>2. /\ trunk' = call.cand /\ trunk' \in Commit /\ trunk' < next'
      /\ seen' = seen \cup {call.cand}
      /\ seen' \subseteq Commit /\ \A c \in seen' : c < next'
      /\ {trunk', trunkAt'} \subseteq seen'
      /\ Closed(hist, next)' /\ Grows /\ Lands
  BY <1>1, PushLandsSound
<1>3. TypeOK' /\ Refs'
  BY <1>1, <1>2, ThrowsSound, ReturnsSound, Facts DEF TypeOK, Refs, graph
<1>4. Heads'
  BY <1>1, ThrowsSound, ReturnsSound DEF Heads, HeadBack
<1> QED
  BY <1>1, <1>2, <1>3, <1>4, ThrowsSound, ReturnsSound DEF Keeps, IInv

LEMMA FoldUnansweredKeeps ==
  ASSUME IInv, FoldUnanswered
  PROVE  Keeps
<1>1. FoldAccepted /\ main' = call.cand /\ Throws
      /\ UNCHANGED <<graph, mainAt, trunk, trunkAt, seen, kept>>
  BY DEF FoldUnanswered
<1>2. /\ main' \in Commit /\ main' < next' /\ hist[main] \subseteq (hist')[main']
      /\ Closed(hist, next)' /\ Grows /\ Lands
  BY <1>1, FoldLands
<1>3. TypeOK' /\ Refs'
  BY <1>1, <1>2, ThrowsSound, ReturnsSound, Facts DEF TypeOK, Refs, graph
<1>4. Heads'
  BY <1>1, ThrowsSound, ReturnsSound DEF Heads, HeadBack
<1> QED
  BY <1>1, <1>2, <1>3, <1>4, ThrowsSound, ReturnsSound DEF Keeps, IInv

LEMMA RestartKeeps ==
  ASSUME IInv, Restart
  PROVE  Keeps
<1>1. /\ Returns /\ attempt' = NoAttempt /\ kept' = FALSE /\ hurt' = TRUE
      /\ UNCHANGED <<graph, refs, tree>>
  BY DEF Restart, Returns
<1>2. attempt' \in Attempt /\ attempt'.tip = Root /\ attempt'.parent = Root
  BY <1>1, Facts DEF NoAttempt, Attempt
<1>3. TypeOK' /\ Refs'
  BY <1>1, <1>2, ReturnsSound, Facts DEF TypeOK, Refs, graph, refs, tree
<1>4. Heads'
  BY <1>1, ReturnsSound DEF Heads, HeadBack
<1> QED
  BY <1>1, <1>3, <1>4, ReturnsSound, Still DEF Keeps, IInv, refs

-----------------------------------------------------------------------------
(* The theorems. *)

LEMMA InitSound == Init => IInv /\ Goal
<1> SUFFICES ASSUME Init
             PROVE  IInv /\ Goal
  OBVIOUS
<1> USE DEF Init
<1>1. /\ MaxCommit \in Nat /\ MaxAttempts \in Nat \ {0} /\ MaxFolds \in Nat \ {0}
      /\ Root \in Commit /\ \A c \in Commit : c \in Nat
  BY PromotionAssumption DEF Root, Commit
<1>2. /\ call \in Call /\ call.pc = "idle" /\ call.tip = Root /\ call.cand = Root /\ call.goal = {}
      /\ attempt \in Attempt /\ attempt.tip = Root /\ attempt.parent = Root
  BY <1>1 DEF NoCall, Call, Step, NoAttempt, Attempt
<1>3. /\ hist[Root] = {Root} /\ \A c \in Commit : c # Root => hist[c] = {}
      /\ Root < 1 /\ \A c \in Commit : c < 1 => c = Root
  BY <1>1 DEF Root
<1>4. TypeOK
  <2>1. hist \in [Commit -> SUBSET Commit] /\ own \in [Commit -> SUBSET Commit]
    BY <1>1
  <2>2. next \in 1 .. MaxCommit + 1 /\ {Root} \subseteq Commit
    BY <1>1
  <2> QED
    BY <1>1, <1>2, <2>1, <2>2 DEF TypeOK
<1>5. Closed(hist, next) /\ Refs
  BY <1>1, <1>2, <1>3 DEF Closed, Refs
<1>6. Loops /\ Heads /\ Sound /\ Goal
  BY <1>2 DEF Loops, Heads, HeadBack, Sound, Resolving, Goal, Has
<1> QED
  BY <1>4, <1>5, <1>6 DEF IInv

LEMMA StepKeeps ==
  ASSUME IInv, [Next]_vars
  PROVE  Keeps
<1>1. CASE UNCHANGED vars
  BY <1>1, StutterKeeps
<1>2. CASE Promotes \/ PromoteFails \/ PromotesParent
  BY <1>2, PromotesKeeps, StutterKeeps DEF PromoteFails, PromotesParent
<1>3. CASE Advances
  BY <1>3, AdvanceMovesKeeps, AdvanceReplaysKeeps, AdvanceConflictsKeeps, PushesKeeps,
     RejectedKeeps, UpdatesKeeps, FetchesOwnKeeps, FetchesParentKeeps DEF Advances
<1>4. CASE Resolves
  <2>1. CASE BeginHalts
    BY <2>1, HaltsKeeps, Facts DEF BeginHalts
  <2>2. CASE RecomputeHalts
    <3>1. Base \in Commit
      BY Facts DEF Base
    <3> QED
      BY <2>2, <3>1, HaltsKeeps DEF RecomputeHalts
  <2> QED
    BY <1>4, <2>1, <2>2, BeginsKeeps, PublishesAsIsKeeps, RecomputesKeeps, AttemptLandsKeeps,
       AttemptRejectedKeeps DEF Resolves
<1>5. CASE FoldSteps
  BY <1>5, FoldsKeeps, FoldPushesKeeps, FoldRejectedKeeps, FoldFetchesKeeps, SucceedsKeeps
     DEF FoldSteps
<1>6. CASE Others
  BY <1>6, RemotePushKeeps, RemoteAdvanceKeeps, RemoteFoldKeeps, CopiesMoveKeeps, ReattachesKeeps
     DEF Others
<1>7. CASE Fails \/ PushUnanswered \/ FoldUnanswered \/ Restart
  BY <1>7, FailsKeeps, PushUnansweredKeeps, FoldUnansweredKeeps, RestartKeeps
<1> QED
  BY <1>1, <1>2, <1>3, <1>4, <1>5, <1>6, <1>7 DEF Next

\* The graph, the refs, the two loops, whose HEAD it is, and what the commits
\* about to be pushed were computed from, in every state.
THEOREM Invariance == Spec => []IInv
<1>1. Init => IInv
  BY InitSound
<1>2. IInv /\ [Next]_vars => IInv'
  BY StepKeeps DEF Keeps
<1> QED
  BY <1>1, <1>2, PTL DEF Spec

\* No variable leaves its shape: however publishWithRetry and the fold are
\* nested, neither goes beyond its attempts.
THEOREM TypeCorrect == Spec => []TypeOK
<1>1. IInv => TypeOK
  BY DEF IInv
<1> QED
  BY <1>1, Invariance, PTL

\* Whatever a promote ran into, short of an error or the end of the process,
\* the worktree is back on the wing's branch when no attempt is registered.
THEOREM HeadIsBack == Spec => []HeadBack
<1>1. IInv => HeadBack
  BY DEF IInv, Heads
<1> QED
  BY <1>1, Invariance, PTL

\* The parent's local copy moves only in steps that leave the graph and the
\* parent alone.
LEMMA CopyMoves ==
  ASSUME IInv, [Next]_vars
  PROVE  UNCHANGED mainAt \/ UNCHANGED <<graph, main>>
<1> USE DEF refs
<1>1. CASE UNCHANGED vars
  BY <1>1 DEF vars
<1>2. CASE Promotes \/ PromoteFails \/ PromotesParent
  BY <1>2 DEF Promotes, PromoteFails, PromotesParent, vars
<1>3. CASE Advances
  BY <1>3 DEF Advances, AdvanceMoves, AdvanceReplays, AdvanceConflicts, Pushes, Rejected, Updates,
     FetchesOwn, FetchesParent
<1>4. CASE Resolves
  BY <1>4 DEF Resolves, Begins, BeginHalts, PublishesAsIs, Recomputes, RecomputeHalts, AttemptLands,
     AttemptRejected, Pushes, FetchesOwn, FetchesParent, Halts
<1>5. CASE FoldSteps
  BY <1>5 DEF FoldSteps, Folds, FoldPushes, FoldRejected, FoldFetches, Succeeds
<1>6. CASE Others
  BY <1>6 DEF Others, RemotePush, RemoteAdvance, RemoteFold, CopiesMove, Reattaches
<1>7. CASE Fails \/ PushUnanswered \/ FoldUnanswered \/ Restart
  BY <1>7 DEF Fails, PushUnanswered, FoldUnanswered, Restart
<1> QED
  BY <1>1, <1>2, <1>3, <1>4, <1>5, <1>6, <1>7 DEF Next

\* Folding experiments, this wing's and others', keeps the ledger's promise on
\* the parent trunk; the local copy of it that advance reads has nothing that
\* is not on it.
THEOREM Refinement == Spec => ImplementsLedger
<1>1. Init => Ledger!Init
  BY PromotionAssumption DEF Init, Ledger!Init, Root, Commit
<1>2. IInv /\ [Next]_vars => [Ledger!Next]_Ledger!vars
  <2> SUFFICES ASSUME IInv, [Next]_vars
               PROVE  Ledger!Next
    OBVIOUS
  <2>1. Keeps
    BY StepKeeps
  <2>2. CASE UNCHANGED mainAt
    <3>1. (hist')[mainAt] = hist[mainAt]
      BY <2>1, Facts DEF Keeps, Grows
    <3>2. hist[main] \subseteq (hist')[main'] /\ (hist')[main'] \subseteq Commit
      BY <2>1 DEF Keeps, Lands, IInv, TypeOK
    <3> QED
      BY <2>2, <3>1, <3>2 DEF Ledger!Next, Ledger!Publish
  <2>3. CASE UNCHANGED <<graph, main>>
    <3>1. hist' = hist /\ mainAt' \in hist[main]
      BY <2>1, <2>3 DEF Keeps, IInv, Refs, graph
    <3>2. (hist')[mainAt'] \subseteq hist[main]
      BY <3>1, Reaches, Facts
    <3> QED
      BY <2>3, <3>1, <3>2 DEF Ledger!Next, Ledger!Learn
  <2> QED
    BY <2>2, <2>3, CopyMoves
<1> QED
  BY <1>1, <1>2, Invariance, PTL DEF Spec, ImplementsLedger, Ledger!Spec

\* No change that is on one of the trunks is ever on neither: a push with a
\* lease replaces exactly the tip that was replayed, whatever happens between
\* the replay and the push, and the replay has all that tip brought in.
THEOREM NothingIsLost == Spec => NothingLost
<1>1. IInv /\ [Next]_vars
        => Changes(main) \cup Changes(trunk) \subseteq Changes(main)' \cup Changes(trunk)'
  BY StepKeeps DEF Keeps, Lands, Changes, Brings
<1> QED
  BY <1>1, Invariance, PTL DEF Spec, NothingLost

\* Where no late updateBranch takes the derived trunk's local copy back, a
\* promote that succeeds has put on the parent all that was on the derived
\* trunk when it was called.
THEOREM EverythingLands ==
  ASSUME "late" \notin Mishaps
  PROVE  Spec => Landed
<1>1. Init => IInv /\ Goal
  BY InitSound
<1>2. IInv /\ Goal /\ [Next]_vars => (IInv /\ Goal)'
  BY StepKeeps DEF Keeps
<1>3. Goal /\ [Next]_vars => (Succeeds => call.goal \subseteq Changes(main)')
  BY DEF Goal, Succeeds, Changes, Brings, graph
<1> QED
  BY <1>1, <1>2, <1>3, PTL DEF Spec, Landed

-----------------------------------------------------------------------------
(* A promote ends. *)

\* The steps after which neither an attempt nor a fold is counted.
Onward(old, pc) ==
  \/ old = "advance" /\ pc \in {"push", "replayPush", "begin"}
  \/ old \in {"push", "replayPush"} /\ pc \in {"update", "replayUpdate", "fetchOwn", "begin"}
  \/ old \in {"update", "replayUpdate", "attemptUpdate"} /\ pc = "fold"
  \/ old = "fetchOwn" /\ pc = "fetchParent"
  \/ old = "publish" /\ pc = "attemptPush"
  \/ old = "attemptPush" /\ pc \in {"attemptUpdate", "attemptOwn"}
  \/ old = "attemptOwn" /\ pc = "attemptParent"
  \/ old = "fold" /\ pc = "foldPush"
  \/ old = "foldPush" /\ pc \in {"foldUpdate", "foldFetch"}

\* In each fold there is something to do, and less than MostInFold.
LEMMA InFold ==
  ASSUME NEW c \in Call, c.pc # "idle"
  PROVE  StepsInFold(c) \in 1 .. 8 * MaxAttempts + 8
<1>1. MaxAttempts \in Nat \ {0} /\ c.tries \in 0 .. MaxAttempts
  BY PromotionAssumption DEF Call
<1>2. StepsInTry(c.pc) \in 1 .. 4
  BY DEF StepsInTry
<1> DEFINE t == StepsInTry(c.pc)
<1> HIDE DEF t
<1> QED
  BY <1>1, <1>2 DEF StepsInFold, t

\* Where the fold stays, what is left of it decides.
LEMMA SameFold ==
  ASSUME NEW c \in Call, NEW d \in Call, c.pc # "idle", d.pc # "idle", d.folds = c.folds,
         StepsInFold(d) < StepsInFold(c)
  PROVE  StepsLeft(d) < StepsLeft(c)
<1> DEFINE rest == (MaxFolds - c.folds) * MostInFold
<1>1. MaxFolds \in Nat /\ c.folds \in 0 .. MaxFolds /\ MostInFold \in Nat
  BY PromotionAssumption DEF Call, MostInFold
<1>2. rest \in Int
  BY <1>1
<1>3. StepsInFold(c) \in Int /\ StepsInFold(d) \in Int
  BY InFold, PromotionAssumption
<1>4. StepsLeft(c) = rest + StepsInFold(c) /\ StepsLeft(d) = rest + StepsInFold(d)
  BY DEF StepsLeft
<1> HIDE DEF rest
<1> QED
  BY <1>2, <1>3, <1>4

\* What is left of a fold after one of these steps.
LEMMA OnwardDown ==
  ASSUME NEW c \in Call, NEW d \in Call, d.tries = c.tries, d.folds = c.folds,
         Onward(c.pc, d.pc)
  PROVE  c.pc # "idle" /\ StepsLeft(d) < StepsLeft(c)
<1>1. MaxAttempts \in Nat \ {0} /\ c.tries \in 0 .. MaxAttempts
  BY PromotionAssumption DEF Call
<1>2. c.pc # "idle" /\ d.pc # "idle"
  BY DEF Onward
<1> USE DEF StepsInFold, StepsInTry, Pushing, Resolving
<1>3. CASE c.pc = "advance" /\ d.pc \in {"push", "replayPush", "begin"}
  BY <1>1, <1>2, <1>3, SameFold
<1>4. CASE /\ c.pc \in {"push", "replayPush"}
           /\ d.pc \in {"update", "replayUpdate", "fetchOwn", "begin"}
  BY <1>1, <1>2, <1>4, SameFold
<1>5. CASE c.pc \in {"update", "replayUpdate", "attemptUpdate"} /\ d.pc = "fold"
  BY <1>1, <1>2, <1>5, SameFold
<1>6. CASE c.pc = "fetchOwn" /\ d.pc = "fetchParent"
  BY <1>1, <1>2, <1>6, SameFold
<1>7. CASE c.pc = "publish" /\ d.pc = "attemptPush"
  BY <1>1, <1>2, <1>7, SameFold
<1>8. CASE c.pc = "attemptPush" /\ d.pc \in {"attemptUpdate", "attemptOwn"}
  BY <1>1, <1>2, <1>8, SameFold
<1>9. CASE c.pc = "attemptOwn" /\ d.pc = "attemptParent"
  BY <1>1, <1>2, <1>9, SameFold
<1>10. CASE c.pc = "fold" /\ d.pc = "foldPush"
  BY <1>1, <1>2, <1>10, SameFold
<1>11. CASE c.pc = "foldPush" /\ d.pc \in {"foldUpdate", "foldFetch"}
  BY <1>1, <1>2, <1>11, SameFold
<1> QED
  BY <1>2, <1>3, <1>4, <1>5, <1>6, <1>7, <1>8, <1>9, <1>10, <1>11 DEF Onward

\* After a lost race, one attempt less.
LEMMA NextTryDown ==
  ASSUME NEW c \in Call, NEW d \in Call, d.tries = c.tries + 1, d.folds = c.folds,
         \/ c.pc = "fetchParent" /\ d.pc = "advance"
         \/ c.pc = "attemptParent" /\ d.pc = "publish"
  PROVE  StepsLeft(d) < StepsLeft(c)
<1>1. /\ MaxAttempts \in Nat \ {0} /\ c.tries \in 0 .. MaxAttempts
      /\ c.pc # "idle" /\ d.pc # "idle"
  BY PromotionAssumption DEF Call
<1>2. StepsInFold(d) < StepsInFold(c)
  BY <1>1 DEF StepsInFold, StepsInTry, Pushing, Resolving
<1> QED
  BY <1>1, <1>2, SameFold

\* The attempt is what follows the last lost race of advance.
LEMMA BeginDown ==
  ASSUME NEW c \in Call, NEW d \in Call, d.tries = 1, d.folds = c.folds,
         c.pc = "begin", d.pc = "publish"
  PROVE  StepsLeft(d) < StepsLeft(c)
<1>1. MaxAttempts \in Nat \ {0}
  BY PromotionAssumption
<1>2. StepsInFold(d) < StepsInFold(c)
  BY <1>1 DEF StepsInFold, StepsInTry, Pushing, Resolving
<1> QED
  BY <1>2, SameFold

LEMMA Product == ASSUME NEW m \in Nat, NEW n \in Nat PROVE m * n \in Nat
  OBVIOUS

LEMMA OneLess ==
  ASSUME NEW a \in Int, NEW b \in Int, NEW k \in Int
  PROVE  (a - b) * k \in Int /\ (a - (b + 1)) * k = (a - b) * k - k
  OBVIOUS

\* A refused fold begins the next one: all attempts are there again.
LEMMA RefusedDown ==
  ASSUME NEW c \in Call, NEW d \in Call, d.tries = 1, d.folds = c.folds + 1,
         c.pc \in {"fold", "foldFetch"}, d.pc = "advance"
  PROVE  StepsLeft(d) < StepsLeft(c)
<1> DEFINE rest == (MaxFolds - c.folds) * MostInFold
<1>1. /\ MaxAttempts \in Nat \ {0} /\ MaxFolds \in Nat /\ c.folds \in 0 .. MaxFolds
      /\ MostInFold = 8 * MaxAttempts + 5
  BY PromotionAssumption DEF Call, MostInFold
<1>2. rest \in Int /\ (MaxFolds - (c.folds + 1)) * MostInFold = rest - MostInFold
  <2>1. MaxFolds \in Int /\ c.folds \in Int /\ MostInFold \in Int
    BY <1>1
  <2> QED
    BY <2>1, OneLess
<1>3. StepsInFold(d) = 8 * MaxAttempts + 4 /\ StepsInFold(c) \in Int /\ StepsInFold(c) >= 1
  BY <1>1 DEF StepsInFold, StepsInTry, Pushing, Resolving
<1>4. StepsLeft(c) = rest + StepsInFold(c) /\ StepsLeft(d) = rest - MostInFold + StepsInFold(d)
  BY <1>2 DEF StepsLeft
<1> HIDE DEF rest
<1> QED
  BY <1>1, <1>2, <1>3, <1>4

\* A call under way has something left to do.
LEMMA SomeLeft ==
  ASSUME NEW c \in Call, c.pc # "idle"
  PROVE  StepsLeft(NoCall) = 0 /\ StepsLeft(c) > 0
<1> DEFINE rest == (MaxFolds - c.folds) * MostInFold
<1>1. MaxFolds - c.folds \in Nat /\ MostInFold \in Nat
  BY PromotionAssumption DEF Call, MostInFold
<1>2. rest \in Nat
  BY <1>1, Product
<1>3. StepsInFold(c) \in Int /\ StepsInFold(c) >= 1
  BY InFold, PromotionAssumption
<1>4. StepsLeft(c) = rest + StepsInFold(c)
  BY DEF StepsLeft
<1> HIDE DEF rest
<1>5. StepsLeft(c) > 0
  BY <1>2, <1>3, <1>4
<1>6. StepsLeft(NoCall) = 0
  BY DEF StepsLeft, NoCall
<1> QED
  BY <1>5, <1>6

\* A step of promote, however it ends, leaves less to do.
LEMMA StepDown ==
  ASSUME IInv, TypeOK', Advances \/ Resolves \/ FoldSteps
  PROVE  call.pc # "idle" /\ StepsLeft(call') < StepsLeft(call)
<1>1. /\ call \in Call /\ call' \in Call
      /\ call.tries \in 0 .. MaxAttempts /\ call.folds \in 0 .. MaxFolds
  BY Facts DEF TypeOK
<1>2. ASSUME NEW pc, GoesTo(pc), Onward(call.pc, pc)
      PROVE  call.pc # "idle" /\ StepsLeft(call') < StepsLeft(call)
  <2>1. call'.pc = pc /\ call'.tries = call.tries /\ call'.folds = call.folds
    BY <1>1, <1>2 DEF GoesTo, Call
  <2> QED
    BY <1>1, <1>2, <2>1, OnwardDown
<1>3. ASSUME Returns, call.pc # "idle"
      PROVE  call.pc # "idle" /\ StepsLeft(call') < StepsLeft(call)
  BY <1>1, <1>3, SomeLeft DEF Returns
<1>4. ASSUME NEW pc, NEW c, call' = [call EXCEPT !.pc = pc, !.cand = c], Onward(call.pc, pc)
      PROVE  call.pc # "idle" /\ StepsLeft(call') < StepsLeft(call)
  <2>1. call'.pc = pc /\ call'.tries = call.tries /\ call'.folds = call.folds
    BY <1>1, <1>4 DEF Call
  <2> QED
    BY <1>1, <1>4, <2>1, OnwardDown
<1>5. ASSUME Refused, call.pc \in {"fold", "foldFetch"}
      PROVE  call.pc # "idle" /\ StepsLeft(call') < StepsLeft(call)
  <2>1. call'.pc = "advance" /\ call'.tries = 1 /\ call'.folds = call.folds + 1
    BY <1>1, <1>5 DEF Refused, Call
  <2> QED
    BY <1>1, <1>5, <2>1, RefusedDown
<1>6. CASE AdvanceMoves
  <2>1. Onward(call.pc, "push")
    BY <1>6 DEF AdvanceMoves, Onward
  <2> QED
    BY <1>4, <1>6, <2>1 DEF AdvanceMoves
<1>7. CASE AdvanceReplays
  <2>1. call.pc = "advance" /\ call'.pc = "replayPush"
        /\ call'.tries = call.tries /\ call'.folds = call.folds
    BY <1>1, <1>7 DEF AdvanceReplays, Call
  <2> QED
    BY <1>1, <2>1, OnwardDown DEF Onward
<1>8. CASE AdvanceConflicts
  BY <1>2, <1>8 DEF AdvanceConflicts, Onward
<1>9. CASE Pushes
  BY <1>2, <1>9 DEF Pushes, PushLands, Pushing, After, Onward
<1>10. CASE Rejected
  BY <1>2, <1>10 DEF Rejected, Onward
<1>11. CASE Updates
  BY <1>2, <1>3, <1>11 DEF Updates, Onward
<1>12. CASE FetchesOwn
  BY <1>2, <1>12 DEF FetchesOwn, Onward
<1>13. CASE FetchesParent
  <2>1. call.pc \in {"fetchParent", "attemptParent"}
        /\ call'.pc = (IF call.pc = "fetchParent" THEN "advance" ELSE "publish")
        /\ call'.tries = call.tries + 1 /\ call'.folds = call.folds
    BY <1>1, <1>13 DEF FetchesParent, Call
  <2> QED
    BY <1>1, <2>1, NextTryDown
<1>14. CASE Begins
  <2>1. call.pc = "begin" /\ call'.pc = "publish"
        /\ call'.tries = 1 /\ call'.folds = call.folds
    BY <1>1, <1>14 DEF Begins, Call
  <2> QED
    BY <1>1, <2>1, BeginDown
<1>15. CASE BeginHalts \/ RecomputeHalts
  BY <1>3, <1>15 DEF BeginHalts, RecomputeHalts, Halts
<1>16. CASE PublishesAsIs
  <2>1. Onward(call.pc, "attemptPush")
    BY <1>16 DEF PublishesAsIs, Onward
  <2> QED
    BY <1>4, <1>16, <2>1 DEF PublishesAsIs
<1>17. CASE Recomputes
  <2>1. Onward(call.pc, "attemptPush")
    BY <1>17 DEF Recomputes, Onward
  <2> QED
    BY <1>4, <1>17, <2>1 DEF Recomputes
<1>18. CASE AttemptLands
  BY <1>2, <1>3, <1>18 DEF AttemptLands, Onward
<1>19. CASE AttemptRejected
  BY <1>2, <1>3, <1>19 DEF AttemptRejected, Onward
<1>20. CASE Folds
  <2>1. CASE mainAt \in hist[trunkAt]
    <3>1. Onward(call.pc, "foldPush")
      BY <1>20 DEF Folds, Onward
    <3> QED
      BY <1>4, <1>20, <2>1, <3>1 DEF Folds
  <2>2. CASE mainAt \notin hist[trunkAt]
    BY <1>5, <1>20, <2>2 DEF Folds
  <2> QED
    BY <2>1, <2>2
<1>21. CASE FoldPushes \/ FoldRejected
  BY <1>2, <1>21 DEF FoldPushes, FoldRejected, FoldAccepted, Onward
<1>22. CASE FoldFetches
  BY <1>5, <1>22 DEF FoldFetches
<1>23. CASE Succeeds
  BY <1>3, <1>23 DEF Succeeds
<1>24. CASE Advances
  BY <1>6, <1>7, <1>8, <1>9, <1>10, <1>11, <1>12, <1>13, <1>24 DEF Advances
<1>25. CASE Resolves
  BY <1>14, <1>15, <1>16, <1>17, <1>18, <1>19, <1>25 DEF Resolves
<1>26. CASE FoldSteps
  BY <1>20, <1>21, <1>22, <1>23, <1>26 DEF FoldSteps
<1> QED
  BY <1>24, <1>25, <1>26

\* Every step of a promote brings it closer to its end: three nested loops,
\* two of which start anew with each round of the third, never go on for ever.
THEOREM PromoteEnds == Spec => PromoteBounded
<1>1. ASSUME IInv, TypeOK', [Next]_vars, call' # call
      PROVE  IF call.pc = "idle" THEN StepsLeft(call') <= (MaxFolds + 1) * MostInFold
                                 ELSE StepsLeft(call') < StepsLeft(call)
  <2>1. call \in Call /\ MaxAttempts \in Nat \ {0} /\ MaxFolds \in Nat \ {0}
    BY <1>1, Facts
  <2>2. CASE Promotes
    <3>1. call.pc = "idle" /\ call'.pc = "advance" /\ call'.tries = 1 /\ call'.folds = 0
      BY <2>2 DEF Promotes, NoCall
    <3>2. StepsInFold(call') = 8 * MaxAttempts + 4
      BY <2>1, <3>1 DEF StepsInFold, StepsInTry, Pushing, Resolving
    <3>3. StepsLeft(call') = MaxFolds * MostInFold + StepsInFold(call')
      BY <2>1, <3>1 DEF StepsLeft
    <3>4. (MaxFolds + 1) * MostInFold = MaxFolds * MostInFold + MostInFold
      BY <2>1 DEF MostInFold
    <3> DEFINE all == MaxFolds * MostInFold
    <3>5. all \in Int
      BY <2>1 DEF MostInFold
    <3> HIDE DEF all
    <3>6. MostInFold = 8 * MaxAttempts + 5
      BY DEF MostInFold
    <3> QED
      BY <2>1, <3>1, <3>2, <3>3, <3>4, <3>5, <3>6 DEF all
  <2>3. CASE Advances \/ Resolves \/ FoldSteps
    BY <1>1, <2>3, StepDown
  <2>4. CASE Fails \/ PushUnanswered \/ FoldUnanswered \/ Restart
    <3>1. call' = NoCall
      BY <2>4 DEF Fails, PushUnanswered, FoldUnanswered, Restart, Throws, Returns
    <3>2. StepsLeft(NoCall) = 0
      BY DEF StepsLeft, NoCall
    <3>3. (MaxFolds + 1) * MostInFold >= 0
      BY <2>1 DEF MostInFold
    <3> QED
      BY <2>1, <3>1, <3>2, <3>3, SomeLeft
  <2>5. ASSUME Others \/ PromoteFails \/ PromotesParent \/ UNCHANGED vars
        PROVE  call' = call
    BY <2>5 DEF Others, RemotePush, RemoteAdvance, RemoteFold, CopiesMove, Reattaches,
                PromoteFails, PromotesParent, vars
  <2> QED
    BY <1>1, <2>2, <2>3, <2>4, <2>5 DEF Next
<1>2. IInv /\ TypeOK' /\ [Next]_vars
        => [call' # call =>
              IF call.pc = "idle" THEN StepsLeft(call') <= (MaxFolds + 1) * MostInFold
                                  ELSE StepsLeft(call') < StepsLeft(call)]_vars
  BY <1>1
<1> QED
  BY <1>2, Invariance, TypeCorrect, PTL DEF Spec, PromoteBounded
=============================================================================
