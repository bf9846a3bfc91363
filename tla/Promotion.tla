------------------------------- MODULE Promotion -------------------------------
(***************************************************************************)
(* Promoting an experiment: a derived trunk is advanced onto its parent    *)
(* and the parent is fast-forwarded to it.                                 *)
(*                                                                         *)
(* advance replays the derived trunk's own commits on the parent's tip, in *)
(* the wing's worktree and on a detached HEAD, and pushes the result with  *)
(* a lease.  When the replay conflicts, or every push lost its race,       *)
(* beginAdvance starts over on a scratch branch in the same worktree, and  *)
(* the AdvanceAttempt is published or, in conflict, kept in a registry for *)
(* the next promote.  Then the fold publishes the derived tip on the       *)
(* parent, and advances again when that is refused.                        *)
(*                                                                         *)
(* One wing promotes, one call at a time; everyone else lands on both      *)
(* trunks, and promotes, too.  The local copies belong to TrunkPublish.    *)
(* A commit is known by its history and by the changes it brings in, under *)
(* which a replay keeps the changes and gets a new commit.                 *)
(***************************************************************************)
EXTENDS Naturals, FiniteSets

CONSTANTS MaxCommit,    \* bound: commits are 0 .. MaxCommit
          MaxAttempts,  \* publishWithRetry's maxAttempts
          MaxFolds,     \* MAX_PUBLISH_ATTEMPTS of the fold
          Mishaps       \* what happens around the call

ASSUME PromotionAssumption ==
  /\ MaxCommit \in Nat
  /\ MaxAttempts \in Nat \ {0}
  /\ MaxFolds \in Nat \ {0}
  /\ Mishaps \subseteq {"remote", "advance", "late", "failure", "restart"}

Commit == 0 .. MaxCommit
Root == 0

VARIABLES
  hist,     \* hist[c]: the commits reachable from c, c included
  own,      \* own[c]: the changes that c itself brings in
  next,     \* commits 0 .. next - 1 exist
  main,     \* tip of the parent trunk on origin
  mainAt,   \* refs/heads/<parent> of the bare repository
  trunk,    \* tip of the derived trunk on origin
  trunkAt,  \* refs/heads/<derived> of the bare repository
  seen,     \* every tip the derived trunk has had on origin
  head,     \* what the wing's worktree has checked out
  at,       \* HEAD, while that is not the wing's branch
  attempt,  \* the AdvanceAttempt that a call is driving, or has registered
  kept,     \* whether advanceAttemptRegistry holds it
  call,     \* the promote in progress
  hurt      \* a call was cut short by an error or by the end of the process

graph == <<hist, own, next>>
refs == <<main, mainAt, trunk, trunkAt, seen>>
tree == <<head, at>>
open == <<attempt, kept>>
vars == <<graph, refs, tree, open, call, hurt>>

-----------------------------------------------------------------------------
\* Steps in which the worktree is borrowed: by advance, and by an attempt.
Replaying == {"replayPush", "replayUpdate"}
Resolving == {"publish", "attemptPush", "attemptUpdate", "attemptOwn", "attemptParent"}

Step == {"idle", "advance", "push", "update", "fetchOwn", "fetchParent", "begin",
         "fold", "foldPush", "foldUpdate", "foldFetch"} \cup Replaying \cup Resolving

Call == [pc    : Step,
         tip   : Commit,            \* myTip
         cand  : Commit,            \* what is pushed
         tries : 0 .. MaxAttempts,  \* publishWithRetry's attempt
         folds : 0 .. MaxFolds,     \* folds that were refused
         goal  : SUBSET Commit]     \* the derived trunk's changes at the call

NoCall == [pc |-> "idle", tip |-> Root, cand |-> Root, tries |-> 0, folds |-> 0, goal |-> {}]

Attempt == [status : {"none", "conflict", "ready"},
            tip    : Commit,    \* myTipSnapshot
            parent : Commit]    \* parentTargetTip

NoAttempt == [status |-> "none", tip |-> Root, parent |-> Root]

GoesTo(pc) == call' = [call EXCEPT !.pc = pc]
Returns == call' = NoCall

\* Every change that a checkout of c contains.
Changes(c) == UNION {own[d] : d \in hist[c]}

\* A commit on parent that brings in these changes gets the next free id.
Create(parent, changes) ==
  /\ next \in Commit
  /\ hist' = [hist EXCEPT ![next] = {next} \cup hist[parent]]
  /\ own' = [own EXCEPT ![next] = changes]
  /\ next' = next + 1

\* git rebase --rebase-merges --onto <onto> of what tip has beyond past.
Replays(tip, past, onto) ==
  IF onto \in hist[tip] THEN UNCHANGED graph /\ at' = tip
  ELSE IF tip \in hist[onto] THEN UNCHANGED graph /\ at' = onto
  ELSE Create(onto, UNION {own[d] : d \in hist[tip] \ past}) /\ at' = next

\* What mergeBase(c, d) reaches.
Shared(c, d) == hist[c] \cap hist[d]

\* A rebase that really replays something may conflict.
Conflicts(tip, onto) == onto \notin hist[tip] /\ tip \notin hist[onto]

\* Mutant: the second push is made with --force, without a lease.
AcceptsForced(c, expected) == TRUE

\* pushRefCas, then pushRefCasExpected: c follows what origin has, or replaces
\* exactly the tip that was replayed.
Accepts(c, expected) == trunk \in hist[c] \/ trunk = expected

-----------------------------------------------------------------------------
(* Everyone else. *)

\* Another machine lands something on the parent, or on the derived trunk.
RemotePush ==
  /\ "remote" \in Mishaps
  /\ \/ /\ Create(main, {next})
        /\ main' = next
        /\ UNCHANGED <<trunk, seen>>
     \/ /\ Create(trunk, {next})
        /\ trunk' = next
        /\ seen' = seen \cup {next}
        /\ UNCHANGED main
  /\ UNCHANGED <<mainAt, trunkAt, tree, open, call, hurt>>

\* Another machine advances the derived trunk, or folds it.
RemoteAdvance ==
  /\ "advance" \in Mishaps
  /\ Conflicts(trunk, main)
  /\ Create(main, UNION {own[d] : d \in hist[trunk] \ hist[main]})
  /\ trunk' = next
  /\ seen' = seen \cup {next}
  /\ UNCHANGED <<main, mainAt, trunkAt, tree, open, call, hurt>>

RemoteFold ==
  /\ "advance" \in Mishaps
  /\ main \in hist[trunk]
  /\ main' = trunk
  /\ UNCHANGED <<graph, mainAt, trunk, trunkAt, seen, tree, open, call, hurt>>

\* Other calls of this machine fetch, or realign their local copies.
CopiesMove ==
  /\ \/ mainAt' \in hist[main] /\ UNCHANGED trunkAt
     \/ /\ trunkAt' \in {trunk} \cup (IF "late" \in Mishaps THEN seen ELSE {})
        /\ UNCHANGED mainAt
  /\ UNCHANGED <<graph, main, trunk, seen, tree, open, call, hurt>>

\* The agent checks its branch out by hand, after git rebase --abort if need be.
Reattaches ==
  /\ call.pc = "idle"
  /\ head # "wing"
  /\ head' = "wing"
  /\ at' = Root
  /\ UNCHANGED <<graph, refs, open, call, hurt>>

-----------------------------------------------------------------------------
(* MovementManager.promote. *)

\* No attempt is registered: the wing's trunk is advanced.
Promotes ==
  /\ call.pc = "idle"
  /\ head = "wing"
  /\ ~kept
  /\ call' = [NoCall EXCEPT !.pc = "advance", !.tries = 1, !.goal = Changes(trunk)]
  /\ UNCHANGED <<graph, refs, tree, open, hurt>>

\* activeMovement fails on a detached HEAD, which a halted rebase has as well,
\* so that the registered attempt is not even looked up.  Off that HEAD it is,
\* and continueResolving fails: for an attempt that is ready always, and for
\* one in conflict because no rebase is in progress any more.
PromoteFails ==
  /\ call.pc = "idle"
  /\ kept \/ head \in {"detached", "rebasing"}
  /\ UNCHANGED vars

\* On a scratch branch left behind by a failed call the base is the parent:
\* it is promoted onto itself, with success, and but for its local copy, which
\* CopiesMove moves, nothing changes.
PromotesParent ==
  /\ call.pc = "idle"
  /\ head = "scratch"
  /\ ~kept
  /\ UNCHANGED vars

-----------------------------------------------------------------------------
(* DiskDerivedTrunk.advance. *)

\* Both local copies are read.  With nothing to replay, one of them is pushed.
AdvanceMoves ==
  /\ call.pc = "advance"
  /\ \/ /\ mainAt \in hist[trunkAt]
        /\ call' = [call EXCEPT !.pc = "push", !.cand = trunkAt]
     \/ /\ mainAt \notin hist[trunkAt]
        /\ trunkAt \in hist[mainAt]
        /\ call' = [call EXCEPT !.pc = "push", !.cand = mainAt]
  /\ UNCHANGED <<graph, refs, tree, open, hurt>>

\* replayOnto: checkoutDetached(myTip) and the rebase.
AdvanceReplays ==
  /\ call.pc = "advance"
  /\ Conflicts(trunkAt, mainAt)
  /\ Replays(trunkAt, Shared(trunkAt, mainAt), mainAt)
  /\ head' = "detached"
  /\ call' = [call EXCEPT !.pc = "replayPush", !.tip = trunkAt, !.cand = at']
  /\ UNCHANGED <<refs, open, hurt>>

\* rebaseMergesOntoOrAbort aborts, and the finally puts the branch back.
AdvanceConflicts ==
  /\ call.pc = "advance"
  /\ Conflicts(trunkAt, mainAt)
  /\ GoesTo("begin")
  /\ UNCHANGED <<graph, refs, tree, open, hurt>>

\* Where a push of the derived trunk leads, and what it takes.
Expected == CASE call.pc = "replayPush" -> {call.tip}
              [] call.pc = "attemptPush" -> {attempt.tip}
              [] OTHER -> {}

Pushing == {"push", "replayPush", "attemptPush"}

Accepted == IF Expected = {} THEN trunk \in hist[call.cand]
            ELSE \E e \in Expected : Accepts(call.cand, e)

After(pc) == CASE pc = "push" -> "update"
               [] pc = "replayPush" -> "replayUpdate"
               [] pc = "attemptPush" -> "attemptUpdate"

PushLands ==
  /\ call.pc \in Pushing
  /\ Accepted
  /\ trunk' = call.cand
  /\ seen' = seen \cup {call.cand}

Pushes ==
  /\ PushLands
  /\ GoesTo(After(call.pc))
  /\ UNCHANGED <<graph, main, mainAt, trunkAt, tree, open, hurt>>

\* Mutant: a replay that lost its race is not switched back.
StaysDetached == UNCHANGED tree

\* replayOnto's finally; at is read only while HEAD is not the wing's branch.
SwitchesBack == head' = "wing" /\ at' = Root

\* Mutant: one attempt too many.
MayRetryLate == call.tries <= MaxAttempts

MayRetry == call.tries < MaxAttempts

\* PublishRejectedError: fetch and try again, or give up.
Rejected ==
  /\ call.pc \in {"push", "replayPush"}
  /\ ~Accepted
  /\ SwitchesBack
  /\ GoesTo(IF MayRetry THEN "fetchOwn" ELSE "begin")
  /\ UNCHANGED <<graph, refs, open, hurt>>

\* updateBranch; the next fold is due, or they are used up.
Updates ==
  /\ call.pc \in {"update", "replayUpdate"}
  /\ trunkAt' = call.cand
  /\ SwitchesBack
  /\ IF call.folds < MaxFolds THEN GoesTo("fold") ELSE Returns
  /\ UNCHANGED <<graph, main, mainAt, trunk, seen, open, hurt>>

\* fetchRef of this trunk, then of its parent, for advance and for publish;
\* another call's newer fetch may be taken for it, which is CopiesMove.
FetchesOwn ==
  /\ call.pc \in {"fetchOwn", "attemptOwn"}
  /\ trunkAt' \in {trunk, trunkAt}
  /\ GoesTo(IF call.pc = "fetchOwn" THEN "fetchParent" ELSE "attemptParent")
  /\ UNCHANGED <<graph, main, mainAt, trunk, seen, tree, open, hurt>>

FetchesParent ==
  /\ call.pc \in {"fetchParent", "attemptParent"}
  /\ mainAt' \in {main, mainAt}
  /\ call' = [call EXCEPT !.pc = IF @ = "fetchParent" THEN "advance" ELSE "publish",
                          !.tries = @ + 1]
  /\ UNCHANGED <<graph, main, trunk, trunkAt, seen, tree, open, hurt>>

-----------------------------------------------------------------------------
(* beginAdvance and the AdvanceAttempt. *)

\* The rebase of tip on the scratch branch is done.
Ready(tip, past, parent) ==
  /\ Replays(tip, past, parent)
  /\ head' = "scratch"

\* The rebase halts, and HEAD is detached in the middle of it; the attempt is
\* registered, and the agent is told to fix the files and promote again.
Halts(tip, snapshot, parent) ==
  /\ Conflicts(tip, parent)
  /\ head' = "rebasing"
  /\ at' = parent
  /\ attempt' = [status |-> "conflict", tip |-> snapshot, parent |-> parent]
  /\ kept' = TRUE
  /\ Returns
  /\ UNCHANGED <<graph, refs, hurt>>

Begins ==
  /\ call.pc = "begin"
  /\ Ready(trunkAt, Shared(trunkAt, mainAt), mainAt)
  /\ attempt' = [status |-> "ready", tip |-> trunkAt, parent |-> mainAt]
  /\ call' = [call EXCEPT !.pc = "publish", !.tries = 1]
  /\ UNCHANGED <<refs, kept, hurt>>

BeginHalts == call.pc = "begin" /\ Halts(trunkAt, trunkAt, mainAt)

\* publish: both copies are where the attempt found them.
PublishesAsIs ==
  /\ call.pc = "publish"
  /\ trunkAt = attempt.tip
  /\ mainAt = attempt.parent
  /\ call' = [call EXCEPT !.pc = "attemptPush", !.cand = at]
  /\ UNCHANGED <<graph, refs, tree, open, hurt>>

\* What recompute replays: the trunk anew when it moved; the resolved commits,
\* from the parent they are on, when only the parent did.
TrunkMoved == trunkAt # attempt.tip

\* Mutant: the resolved commits are replayed in any case.
BaseResolved == at

Base == IF TrunkMoved THEN trunkAt ELSE at
Past == IF TrunkMoved THEN Shared(trunkAt, mainAt) ELSE hist[attempt.parent]

Recomputes ==
  /\ call.pc = "publish"
  /\ TrunkMoved \/ mainAt # attempt.parent
  /\ Ready(Base, Past, mainAt)
  /\ attempt' = [attempt EXCEPT !.tip = trunkAt, !.parent = mainAt]
  /\ call' = [call EXCEPT !.pc = "attemptPush", !.cand = at']
  /\ UNCHANGED <<refs, kept, hurt>>

RecomputeHalts ==
  /\ call.pc = "publish"
  /\ TrunkMoved \/ mainAt # attempt.parent
  /\ Halts(Base, trunkAt, mainAt)

\* updateBranch and dispose, and the registry is cleared.
AttemptLands ==
  /\ call.pc = "attemptUpdate"
  /\ trunkAt' = call.cand
  /\ SwitchesBack
  /\ attempt' = NoAttempt
  /\ kept' = FALSE
  /\ IF call.folds < MaxFolds THEN GoesTo("fold") ELSE Returns
  /\ UNCHANGED <<graph, main, mainAt, trunk, seen, hurt>>

\* A lost race.  After the last one the attempt is registered as it is: ready.
AttemptRejected ==
  /\ call.pc = "attemptPush"
  /\ ~Accepted
  /\ IF MayRetry THEN GoesTo("attemptOwn") /\ UNCHANGED kept
     ELSE Returns /\ kept' = TRUE
  /\ UNCHANGED <<graph, refs, tree, attempt, hurt>>

-----------------------------------------------------------------------------
(* foldPromotedTrunk and fastForwardPublish. *)

\* Mutant: a refused fold is not counted.
RefusedUncounted == call' = [call EXCEPT !.pc = "advance", !.tries = 1]

\* The fold is refused: the trunk is advanced again.
Refused == call' = [call EXCEPT !.pc = "advance", !.tries = 1, !.folds = @ + 1]

\* The tip to fold is read; the parent's local copy must be behind it.
Folds ==
  /\ call.pc = "fold"
  /\ IF mainAt \in hist[trunkAt]
     THEN call' = [call EXCEPT !.pc = "foldPush", !.cand = trunkAt]
     ELSE Refused
  /\ UNCHANGED <<graph, refs, tree, open, hurt>>

\* Mutant: the fold is pushed with --force.
FoldForced == call.pc = "foldPush"

FoldAccepted == call.pc = "foldPush" /\ main \in hist[call.cand]

FoldPushes ==
  /\ FoldAccepted
  /\ main' = call.cand
  /\ GoesTo("foldUpdate")
  /\ UNCHANGED <<graph, mainAt, trunk, trunkAt, seen, tree, open, hurt>>

FoldRejected ==
  /\ call.pc = "foldPush"
  /\ ~FoldAccepted
  /\ GoesTo("foldFetch")
  /\ UNCHANGED <<graph, refs, tree, open, hurt>>

FoldFetches ==
  /\ call.pc = "foldFetch"
  /\ mainAt' \in {main, mainAt}
  /\ Refused
  /\ UNCHANGED <<graph, main, trunk, trunkAt, seen, tree, open, hurt>>

\* updateBranch(parent, target), and promote succeeds.
Succeeds ==
  /\ call.pc = "foldUpdate"
  /\ mainAt' = call.cand
  /\ Returns
  /\ UNCHANGED <<graph, main, trunk, trunkAt, seen, tree, open, hurt>>

-----------------------------------------------------------------------------
(* Failures. *)

\* replayOnto has a finally; a call that throws while it drives an attempt
\* leaves the worktree on the scratch branch, and the attempt is forgotten.
Throws ==
  /\ "failure" \in Mishaps
  /\ IF call.pc \in Replaying THEN SwitchesBack ELSE UNCHANGED tree
  /\ attempt' = NoAttempt
  /\ Returns
  /\ hurt' = TRUE

\* A command fails without effect, or the worktree is found dirty.
Fails ==
  /\ call.pc # "idle"
  /\ Throws
  /\ UNCHANGED <<graph, refs, kept>>

\* A push is accepted and the answer is lost.
PushUnanswered ==
  /\ PushLands
  /\ Throws
  /\ UNCHANGED <<graph, main, mainAt, trunkAt, kept>>

FoldUnanswered ==
  /\ FoldAccepted
  /\ main' = call.cand
  /\ Throws
  /\ UNCHANGED <<graph, mainAt, trunk, trunkAt, seen, kept>>

\* The process dies and starts again: refs and worktree survive, the registry
\* does not.
Restart ==
  /\ "restart" \in Mishaps
  /\ call' = NoCall
  /\ attempt' = NoAttempt
  /\ kept' = FALSE
  /\ hurt' = TRUE
  /\ UNCHANGED <<graph, refs, tree>>

-----------------------------------------------------------------------------
Init ==
  /\ hist = [c \in Commit |-> IF c = Root THEN {Root} ELSE {}]
  /\ own = [c \in Commit |-> {}]
  /\ next = 1
  /\ main = Root
  /\ mainAt = Root
  /\ trunk = Root
  /\ trunkAt = Root
  /\ seen = {Root}
  /\ head = "wing"
  /\ at = Root
  /\ attempt = NoAttempt
  /\ kept = FALSE
  /\ call = NoCall
  /\ hurt = FALSE

Advances == \/ AdvanceMoves \/ AdvanceReplays \/ AdvanceConflicts
            \/ Pushes \/ Rejected \/ Updates \/ FetchesOwn \/ FetchesParent

Resolves == \/ Begins \/ BeginHalts \/ PublishesAsIs \/ Recomputes \/ RecomputeHalts
            \/ AttemptLands \/ AttemptRejected

FoldSteps == Folds \/ FoldPushes \/ FoldRejected \/ FoldFetches \/ Succeeds

Others == RemotePush \/ RemoteAdvance \/ RemoteFold \/ CopiesMove \/ Reattaches

Next == \/ Promotes \/ PromoteFails \/ PromotesParent \/ Advances \/ Resolves \/ FoldSteps \/ Others
        \/ Fails \/ PushUnanswered \/ FoldUnanswered \/ Restart

Spec == Init /\ [][Next]_vars

\* The agent calls promote again whenever it is told to, and a call goes on.
FairSpec == Spec /\ WF_vars(Promotes \/ PromoteFails \/ PromotesParent)
                 /\ WF_vars(Advances \/ Resolves \/ FoldSteps)

-----------------------------------------------------------------------------
(* Properties. *)

\* Every variable keeps its shape; publishWithRetry and the fold stay within
\* their attempts however the two loops are nested.
TypeOK ==
  /\ hist \in [Commit -> SUBSET Commit]
  /\ own \in [Commit -> SUBSET Commit]
  /\ next \in 1 .. MaxCommit + 1
  /\ {main, mainAt, trunk, trunkAt, at} \subseteq Commit
  /\ seen \subseteq Commit
  /\ head \in {"wing", "detached", "scratch", "rebasing"}
  /\ attempt \in Attempt
  /\ kept \in BOOLEAN
  /\ call \in Call
  /\ hurt \in BOOLEAN

\* Between calls the worktree is on the wing's branch, unless an attempt is
\* registered, or a call was cut short: no lost race, refused fold, conflict
\* or recomputation leaves it detached, or on a scratch branch nobody knows.
HeadBack == call.pc = "idle" /\ ~hurt /\ ~kept => head = "wing"

\* The parent keeps TrunkLedger's promise for all who are not in this model,
\* who rely on their local copy of it as well.
Ledger == INSTANCE TrunkLedger WITH history <- hist[main], copy <- hist[mainAt], acked <- {}
ImplementsLedger == Ledger!Spec

\* A derived trunk is pushed with a lease, never by force: whatever anyone
\* landed on either trunk is still on one of them after every replay, lost
\* race, recomputation, failed call and restart.
NothingLost ==
  [][Changes(main) \cup Changes(trunk) \subseteq Changes(main)' \cup Changes(trunk)']_vars

\* promote "folds this worktree's experiment trunk into mainTrunk": when it
\* succeeds, all that was on the derived trunk when it was called is on the
\* parent.  It needs that no late updateBranch of another call takes the
\* local copy of the derived trunk back between advance and fold.
Landed == [][Succeeds => call.goal \subseteq Changes(main)']_vars

\* The steps a call c may still take: in its attempt to publish, in all the
\* attempts of this fold, and in all the folds that promote allows it.
StepsInTry(pc) == CASE pc \in {"advance", "publish"}     -> 4
                    [] pc \in Pushing                    -> 3
                    [] pc \in {"fetchOwn", "attemptOwn"} -> 2
                    [] OTHER                             -> 1

StepsInFold(c) ==
  LET trying == 4 * (MaxAttempts - c.tries) + StepsInTry(c.pc)
  IN CASE c.pc \in {"foldFetch", "foldUpdate"} -> 1
       [] c.pc = "foldPush"                    -> 2
       [] c.pc = "fold"                        -> 3
       [] c.pc \in Resolving                   -> 3 + trying
       [] c.pc = "begin"                       -> 4 * MaxAttempts + 4
       [] OTHER                                -> 4 * MaxAttempts + 4 + trying

MostInFold == 8 * MaxAttempts + 5

StepsLeft(c) == IF c.pc = "idle" THEN 0
                ELSE (MaxFolds - c.folds) * MostInFold + StepsInFold(c)

\* promote's three loops end, though the inner ones start anew with every fold
\* that is refused and with the attempt that follows a lost race: each of its
\* steps leaves less to do, whatever everyone else does to both trunks.
PromoteBounded ==
  [][call' # call =>
       IF call.pc = "idle" THEN StepsLeft(call') <= (MaxFolds + 1) * MostInFold
                           ELSE StepsLeft(call') < StepsLeft(call)]_vars

\* promote's comment: on a conflict, "fix files in place, call promote again".
\* An agent that does so again and again gets the attempt closed.
Resumable == kept ~> ~kept
=============================================================================
