---------------------------- MODULE TrunkPublish ----------------------------
(***************************************************************************)
(* How wings land their movements on a shared trunk.                       *)
(*                                                                         *)
(* Every wing of a lair has its own worktree, and all worktrees share one  *)
(* bare repository.  Its local trunk branch is a cache of the trunk on     *)
(* origin, and so is its remote-tracking ref.  A wing merges by rebasing   *)
(* its branch on the cache, building a merge commit on the cached tip and  *)
(* pushing that commit without force: origin accepts it only when it       *)
(* descends from origin's tip.  A rejected push fetches, coalesced with    *)
(* the fetches of other wings, and tries again.                            *)
(*                                                                         *)
(* One step is one git command, or one read of a ref file.  Commands that  *)
(* write wait in two nested FIFO queues: one per directory, then one per   *)
(* repository.  A wing has at most one command outstanding, so the queues  *)
(* hold wings: repoQ the commands that reached the repository's queue,     *)
(* bareQ those still waiting for the bare repository's directory queue.    *)
(***************************************************************************)
EXTENDS Naturals, Sequences, FiniteSets

CONSTANTS Wing,         \* the wings of one lair
          MaxCommit,    \* bound: commits are 0 .. MaxCommit
          MaxAttempts,  \* publishWithRetry's maxAttempts
          Ops,          \* Ops[w]: what the agent of w does
          Mishaps       \* what happens around the calls

ASSUME BoundsAssumption ==
  /\ MaxCommit \in Nat
  /\ MaxAttempts \in Nat \ {0}
  /\ Ops \in [Wing -> SUBSET {"commit", "start", "merge"}]
  /\ Mishaps \subseteq {"remote", "outside", "failure", "restart"}

Commit == 0 .. MaxCommit
Root == 0

VARIABLES
  hist,     \* hist[c]: the commits reachable from c, c included
  next,     \* commits 0 .. next - 1 exist
  origin,   \* tip of the trunk on origin
  track,    \* refs/remotes/origin/<trunk> of the bare repository
  cache,    \* refs/heads/<trunk> of the bare repository
  branch,   \* branch[w]: tip of w's movement branch
  halted,   \* wings whose worktree holds a rebase stopped on a conflict
  onto,     \* onto[w]: the commit that rebase replays onto
  detached, \* wings whose worktree was left on a detached HEAD
  gen,      \* refGenerationCache's generation for the trunk
  call,     \* call[w]: the movement call of w in progress
  repoQ,    \* wings whose command is in the repository's queue, FIFO
  bareQ,    \* wings waiting behind it for the bare directory's queue, FIFO
  acked     \* tips whose merge was reported as landed to the caller

refs == <<origin, track, cache>>
graph == <<hist, next>>
worktrees == <<halted, onto, detached>>
queues == <<repoQ, bareQ>>
vars == <<hist, next, origin, track, cache, branch, halted, onto, detached, gen,
          call, repoQ, bareQ, acked>>

-----------------------------------------------------------------------------
(* Calls, and the commands they wait for. *)

BareStep == {"fetch", "align", "push", "advance", "forward", "refetch", "realign"}
WorktreeStep == {"rebase", "continue", "build"}
Step == {"idle", "begin", "attempt", "joined"} \cup BareStep \cup WorktreeStep

Call == [op    : {"start", "merge"},
         pc    : Step,
         tip   : Commit,          \* movementTip
         base  : Commit,          \* baseTip of the current attempt
         cand  : Commit,          \* the landing commit being pushed
         since : Nat,             \* sinceGeneration
         tries : 0 .. MaxAttempts]

NewCall(op, pc) == [op |-> op, pc |-> pc, tip |-> Root, base |-> Root,
                    cand |-> Root, since |-> 0, tries |-> 0]
NoCall == NewCall("start", "idle")

Idle(w) == call[w].pc = "idle"

\* Mutant: the push is made with --force.
AcceptsForced(c) == TRUE

\* GitOperations.pushRefCas: origin takes c without force.
Accepts(c) == origin \in hist[c]

\* A commit with the given parents gets the next free id.
Create(parents) ==
  /\ next \in Commit
  /\ hist' = [hist EXCEPT ![next] = {next} \cup UNION {hist[p] : p \in parents}]
  /\ next' = next + 1

-----------------------------------------------------------------------------
(* exec: the directory's queue, then the repository's queue. *)

HasBare(q) == \E i \in DOMAIN q : call[q[i]].pc \in BareStep

\* Mutant: a command goes before those that wait.
SubmitFirst(w, pc, q, b) ==
  IF pc \notin BareStep \cup WorktreeStep THEN <<q, b>>
  ELSE IF pc \in BareStep /\ HasBare(q) THEN <<q, <<w>> \o b>>
  ELSE <<<<w>> \o q, b>>

\* w submits the command of step pc; q and b are the two queues before it.
Submit(w, pc, q, b) ==
  IF pc \notin BareStep \cup WorktreeStep THEN <<q, b>>
  ELSE IF pc \in BareStep /\ HasBare(q) THEN <<q, Append(b, w)>>
  ELSE <<Append(q, w), b>>

\* Mutant: the bare directory's next command is never let in.
PoppedHolding == <<Tail(repoQ), bareQ>>

\* The command at the head has run, and its directory lets the next one in.
Popped == IF call[Head(repoQ)].pc \in BareStep /\ bareQ # <<>>
          THEN <<Append(Tail(repoQ), Head(bareQ)), Tail(bareQ)>>
          ELSE <<Tail(repoQ), bareQ>>

SetQueues(p) == repoQ' = p[1] /\ bareQ' = p[2]

\* w's command of step pc is the one the repository runs now.
Runs(w, pc) == /\ call[w].pc = pc
               /\ repoQ # <<>>
               /\ Head(repoQ) = w

\* The command of w has run and w goes on to step pc.
Continue(w, pc) == SetQueues(Submit(w, pc, Popped[1], Popped[2]))
Return(w) == Continue(w, "idle")

-----------------------------------------------------------------------------
(* The agent, and everyone outside this process. *)

\* The agent puts a worktree left detached back on its branch by hand.
SwitchesBack(w) ==
  /\ w \in detached
  /\ detached' = detached \ {w}
  /\ UNCHANGED <<graph, refs, branch, halted, onto, gen, call, queues, acked>>

\* The agent commits on its movement branch.
Commits(w) ==
  /\ "commit" \in Ops[w]
  /\ Idle(w)
  /\ w \notin halted \cup detached
  /\ Create({branch[w]})
  /\ branch' = [branch EXCEPT ![w] = next]
  /\ UNCHANGED <<refs, worktrees, gen, call, queues, acked>>

\* Another machine lands something on the trunk.
RemotePush ==
  /\ "remote" \in Mishaps
  /\ Create({origin})
  /\ origin' = next
  /\ UNCHANGED <<track, cache, branch, worktrees, gen, call, queues, acked>>

\* git fetch run by hand in a worktree, outside the process's queues.
OutsideFetch ==
  /\ "outside" \in Mishaps
  /\ track' = origin
  /\ UNCHANGED <<graph, origin, cache, branch, worktrees, gen, call, queues, acked>>

-----------------------------------------------------------------------------
(* movement start / movement merge. *)

\* MovementManager.startMovement and mergeMovement: a rebase left halted is
\* continued, without a fetch; otherwise CheckedOutMovement.start fetches.
\* A detached HEAD is no movement branch: the call is refused.
Calls(w, op) ==
  /\ op \in Ops[w]
  /\ Idle(w)
  /\ w \notin detached
  /\ LET pc == IF w \in halted THEN "continue" ELSE "fetch"
     IN /\ call' = [call EXCEPT ![w] = NewCall(op, pc)]
        /\ SetQueues(Submit(w, pc, repoQ, bareQ))
  /\ UNCHANGED <<graph, refs, branch, worktrees, gen, acked>>

\* start(): git fetch origin <base>, which also moves the tracking ref.
Fetch(w) ==
  /\ Runs(w, "fetch")
  /\ track' = origin
  /\ call' = [call EXCEPT ![w].pc = "align"]
  /\ Continue(w, "align")
  /\ UNCHANGED <<graph, origin, cache, branch, worktrees, gen, acked>>

\* start(): git branch -f <base> origin/<base>, the name resolved as it runs.
Align(w) ==
  /\ Runs(w, "align")
  /\ cache' = track
  /\ call' = [call EXCEPT ![w].pc = "rebase"]
  /\ Continue(w, "rebase")
  /\ UNCHANGED <<graph, origin, track, branch, worktrees, gen, acked>>

\* What a settled rebase goes on to.
Rebased(w) ==
  LET merging == call[w].op = "merge"
      pc == IF merging THEN "begin" ELSE "idle"
  IN /\ call' = [call EXCEPT ![w] = IF merging THEN [@ EXCEPT !.pc = "begin"]
                                    ELSE NoCall]
     /\ Continue(w, pc)

\* GitOperations.rebase with nothing to replay: the branch already holds the
\* trunk, or it has no commit of its own and is fast-forwarded.
RebaseMoves(w) ==
  /\ Runs(w, "rebase")
  /\ \/ cache \in hist[branch[w]] /\ UNCHANGED branch
     \/ branch[w] \in hist[cache] /\ branch' = [branch EXCEPT ![w] = cache]
  /\ Rebased(w)
  /\ UNCHANGED <<graph, refs, worktrees, gen, acked>>

Diverged(a, b) == a \notin hist[b] /\ b \notin hist[a]

\* GitOperations.rebase replaying the branch on the trunk.
RebaseReplays(w) ==
  /\ Runs(w, "rebase")
  /\ Diverged(branch[w], cache)
  /\ Create({cache})
  /\ branch' = [branch EXCEPT ![w] = next]
  /\ Rebased(w)
  /\ UNCHANGED <<refs, worktrees, gen, acked>>

\* GitOperations.rebase stopping on a conflict: the call returns it, and the
\* rebase stays in the worktree for the agent.
RebaseHalts(w) ==
  /\ Runs(w, "rebase")
  /\ Diverged(branch[w], cache)
  /\ halted' = halted \cup {w}
  /\ onto' = [onto EXCEPT ![w] = cache]
  /\ call' = [call EXCEPT ![w] = NoCall]
  /\ Return(w)
  /\ UNCHANGED <<graph, refs, branch, detached, gen, acked>>

\* GitOperations.continueRebase after the agent fixed the files.
RebaseContinues(w) ==
  /\ Runs(w, "continue")
  /\ Create({onto[w]})
  /\ branch' = [branch EXCEPT ![w] = next]
  /\ halted' = halted \ {w}
  /\ Rebased(w)
  /\ UNCHANGED <<refs, onto, detached, gen, acked>>

-----------------------------------------------------------------------------
(* DiskCheckedOutMovementImpl.merge over publishWithRetry. *)

\* merge(): movementTip and the current generation are read once.
Begin(w) ==
  /\ call[w].pc = "begin"
  /\ call' = [call EXCEPT ![w] = [@ EXCEPT !.pc = "attempt", !.tip = branch[w],
                                           !.since = gen, !.tries = 1]]
  /\ UNCHANGED <<graph, refs, branch, worktrees, gen, queues, acked>>

\* attempt(): baseTip is read from the local cache.
Attempt(w) ==
  /\ call[w].pc = "attempt"
  /\ call[w].tip # cache
  /\ call' = [call EXCEPT ![w] = [@ EXCEPT !.pc = "build", !.base = cache]]
  /\ SetQueues(Submit(w, "build", repoQ, bareQ))
  /\ UNCHANGED <<graph, refs, branch, worktrees, gen, acked>>

\* attempt(): movementTip === baseTip is reported as already up to date.
AttemptUpToDate(w) ==
  /\ call[w].pc = "attempt"
  /\ call[w].tip = cache
  /\ acked' = acked \cup {call[w].tip}
  /\ call' = [call EXCEPT ![w] = NoCall]
  /\ UNCHANGED <<graph, refs, branch, worktrees, gen, queues>>

\* Mutant: the local trunk is moved before the push is confirmed.
BuildEarly(w) ==
  /\ Runs(w, "build")
  /\ call[w].tip \notin hist[call[w].base]
  /\ Create({call[w].base, branch[w]})
  /\ cache' = next
  /\ call' = [call EXCEPT ![w] = [@ EXCEPT !.pc = "push", !.cand = next]]
  /\ Continue(w, "push")
  /\ UNCHANGED <<origin, track, branch, worktrees, gen, acked>>

\* checkout --detach <baseTip>, then merge --no-ff <branch>.
Build(w) ==
  /\ Runs(w, "build")
  /\ call[w].tip \notin hist[call[w].base]
  /\ Create({call[w].base, branch[w]})
  /\ call' = [call EXCEPT ![w] = [@ EXCEPT !.pc = "push", !.cand = next]]
  /\ Continue(w, "push")
  /\ UNCHANGED <<refs, branch, worktrees, gen, acked>>

\* git merge with nothing to merge succeeds and HEAD stays on baseTip.
BuildNothing(w) ==
  /\ Runs(w, "build")
  /\ call[w].tip \in hist[call[w].base]
  /\ call' = [call EXCEPT ![w] = [@ EXCEPT !.pc = "push", !.cand = call[w].base]]
  /\ Continue(w, "push")
  /\ UNCHANGED <<graph, refs, branch, worktrees, gen, acked>>

\* The trial merge conflicts: aborted, and the call asks to be made again.
BuildConflicts(w) ==
  /\ Runs(w, "build")
  /\ Diverged(call[w].tip, call[w].base)
  /\ call' = [call EXCEPT ![w] = NoCall]
  /\ Return(w)
  /\ UNCHANGED <<graph, refs, branch, worktrees, gen, acked>>

\* pushRefCas accepted: git also moves the tracking ref to what it pushed.
Push(w) ==
  /\ Runs(w, "push")
  /\ Accepts(call[w].cand)
  /\ origin' = call[w].cand
  /\ track' = call[w].cand
  /\ call' = [call EXCEPT ![w].pc = "advance"]
  /\ Continue(w, "advance")
  /\ UNCHANGED <<graph, cache, branch, worktrees, gen, acked>>

\* Origin accepted the push and the answer was lost: the call throws.
PushUnanswered(w) ==
  /\ "failure" \in Mishaps
  /\ Runs(w, "push")
  /\ Accepts(call[w].cand)
  /\ origin' = call[w].cand
  /\ call' = [call EXCEPT ![w] = NoCall]
  /\ Return(w)
  /\ UNCHANGED <<graph, track, cache, branch, worktrees, gen, acked>>

\* updateBranch(base, commit): git branch -f, whatever the cache holds now.
Advance(w) ==
  /\ Runs(w, "advance")
  /\ cache' = call[w].cand
  /\ call' = [call EXCEPT ![w].pc = "forward"]
  /\ Continue(w, "forward")
  /\ UNCHANGED <<graph, origin, track, branch, worktrees, gen, acked>>

\* branchForceReset(this.branch, commit); the merge is reported as landed.
Forward(w) ==
  /\ Runs(w, "forward")
  /\ branch' = [branch EXCEPT ![w] = call[w].cand]
  /\ acked' = acked \cup {call[w].tip, call[w].cand}
  /\ call' = [call EXCEPT ![w] = NoCall]
  /\ Return(w)
  /\ UNCHANGED <<graph, refs, worktrees, gen>>

-----------------------------------------------------------------------------
(* A rejected push: fetchRefSinceGeneration, then the next attempt. *)

\* Mutant: a fetch in flight is not noticed.
FetchingUnseen == FALSE

\* entry.inFlight: some call runs doFetch.
Fetching == \E w \in Wing : call[w].pc \in {"refetch", "realign"}

\* Mutant: the retries are not counted.
RetryingForever(c, g) == [c EXCEPT !.pc = "attempt", !.since = g]

Retrying(c, g) == [c EXCEPT !.pc = "attempt", !.since = g, !.tries = @ + 1]

Rejected(w) == Runs(w, "push") /\ ~Accepts(call[w].cand)

\* Mutant: one attempt too many.
LastTryLate(w) == call[w].tries > MaxAttempts

LastTry(w) == call[w].tries >= MaxAttempts

\* The last attempt is spent: PublishRejectedError reaches the caller.
RejectedForGood(w) ==
  /\ Rejected(w)
  /\ LastTry(w)
  /\ call' = [call EXCEPT ![w] = NoCall]
  /\ Return(w)
  /\ UNCHANGED <<graph, refs, branch, worktrees, gen, acked>>

\* A newer generation is already known: retry without a fetch.
RejectedKnown(w) ==
  /\ Rejected(w)
  /\ ~LastTry(w)
  /\ gen > call[w].since
  /\ call' = [call EXCEPT ![w] = Retrying(@, gen)]
  /\ Return(w)
  /\ UNCHANGED <<graph, refs, branch, worktrees, gen, acked>>

\* A fetch is in flight, its target above what this call has seen: join it.
RejectedJoins(w) ==
  /\ Rejected(w)
  /\ ~LastTry(w)
  /\ gen <= call[w].since
  /\ Fetching
  /\ call' = [call EXCEPT ![w].pc = "joined"]
  /\ Return(w)
  /\ UNCHANGED <<graph, refs, branch, worktrees, gen, acked>>

\* Nothing newer is known or on its way: this call fetches.
RejectedFetches(w) ==
  /\ Rejected(w)
  /\ ~LastTry(w)
  /\ gen <= call[w].since
  /\ ~Fetching
  /\ call' = [call EXCEPT ![w].pc = "refetch"]
  /\ Continue(w, "refetch")
  /\ UNCHANGED <<graph, refs, branch, worktrees, gen, acked>>

\* doFetch: git fetch origin <base>.
Refetch(w) ==
  /\ Runs(w, "refetch")
  /\ track' = origin
  /\ call' = [call EXCEPT ![w].pc = "realign"]
  /\ Continue(w, "realign")
  /\ UNCHANGED <<graph, origin, cache, branch, worktrees, gen, acked>>

\* Mutant: only the call that ran the fetch hears of its end.
WaitingAlone(w) == {w}

\* The calls waiting for the fetch w runs.
Waiting(w) == {w} \cup {v \in Wing : call[v].pc = "joined"}

\* doFetch: git branch -f <base> origin/<base>.  The generation moves and
\* every call that waited retries with it.
Realign(w) ==
  /\ Runs(w, "realign")
  /\ cache' = track
  /\ gen' = gen + 1
  /\ call' = [v \in Wing |-> IF v \in Waiting(w) THEN Retrying(call[v], gen + 1)
                             ELSE call[v]]
  /\ Return(w)
  /\ UNCHANGED <<graph, origin, track, branch, worktrees, acked>>

-----------------------------------------------------------------------------
(* Failures. *)

\* A git command that fails without effect: the call throws, and with it
\* every call that joined the fetch.
CommandFails(w) ==
  /\ "failure" \in Mishaps
  /\ \E pc \in BareStep \cup WorktreeStep : Runs(w, pc)
  /\ LET lost == IF call[w].pc \in {"refetch", "realign"} THEN Waiting(w) ELSE {w}
     IN call' = [v \in Wing |-> IF v \in lost THEN NoCall ELSE call[v]]
  /\ Return(w)
  /\ UNCHANGED <<graph, refs, branch, worktrees, gen, acked>>

\* The process dies and is started again: refs and worktrees survive.  A
\* merge between its detached checkout and its finally leaves HEAD detached;
\* a rebase killed half way is what RebaseHalts leaves.
Restart ==
  /\ "restart" \in Mishaps
  /\ detached' = detached \cup
                 {w \in Wing : call[w].pc \in {"push", "advance", "forward"}}
  /\ gen' = 0
  /\ call' = [w \in Wing |-> NoCall]
  /\ repoQ' = <<>>
  /\ bareQ' = <<>>
  /\ UNCHANGED <<graph, refs, branch, halted, onto, acked>>

-----------------------------------------------------------------------------
Init ==
  /\ hist = [c \in Commit |-> IF c = Root THEN {Root} ELSE {}]
  /\ next = 1
  /\ origin = Root
  /\ track = Root
  /\ cache = Root
  /\ branch = [w \in Wing |-> Root]
  /\ halted = {}
  /\ onto = [w \in Wing |-> Root]
  /\ detached = {}
  /\ gen = 0
  /\ call = [w \in Wing |-> NoCall]
  /\ repoQ = <<>>
  /\ bareQ = <<>>
  /\ acked = {}

StartSteps(w) == \/ Fetch(w) \/ Align(w)
                 \/ RebaseMoves(w) \/ RebaseReplays(w) \/ RebaseHalts(w)
                 \/ RebaseContinues(w)

MergeSteps(w) == \/ Begin(w) \/ Attempt(w) \/ AttemptUpToDate(w)
                 \/ Build(w) \/ BuildNothing(w) \/ BuildConflicts(w)
                 \/ Push(w) \/ PushUnanswered(w) \/ Advance(w) \/ Forward(w)

RetrySteps(w) == \/ RejectedForGood(w) \/ RejectedKnown(w)
                 \/ RejectedJoins(w) \/ RejectedFetches(w)
                 \/ Refetch(w) \/ Realign(w)

\* What the process does by itself, once a call has been made.
Proceeds(w) == StartSteps(w) \/ MergeSteps(w) \/ RetrySteps(w) \/ CommandFails(w)

Next == \/ \E w \in Wing : \/ Commits(w)
                           \/ SwitchesBack(w)
                           \/ Calls(w, "start")
                           \/ Calls(w, "merge")
                           \/ Proceeds(w)
        \/ RemotePush
        \/ OutsideFetch
        \/ Restart

Spec == Init /\ [][Next]_vars

\* The event loop and git run what is queued; nothing else is promised.
FairSpec == Spec /\ \A w \in Wing : WF_vars(Proceeds(w))

-----------------------------------------------------------------------------
(* Properties. *)

\* Every variable keeps its shape; with LastTry, a call never makes more
\* attempts than publishWithRetry allows it, joined and failed fetches included.
TypeOK ==
  /\ hist \in [Commit -> SUBSET Commit]
  /\ next \in 1 .. MaxCommit + 1
  /\ {origin, track, cache} \subseteq Commit
  /\ branch \in [Wing -> Commit]
  /\ halted \subseteq Wing
  /\ onto \in [Wing -> Commit]
  /\ detached \subseteq Wing
  /\ gen \in Nat
  /\ call \in [Wing -> Call]
  /\ repoQ \in Seq(Wing)
  /\ bareQ \in Seq(Wing)
  /\ acked \subseteq Commit

\* Neither local copy of the trunk ever holds a commit origin does not: what
\* a rebase, a merge or a status call builds on is always published, whatever
\* fetch, push or branch -f of another wing runs in between.
LocalNeverAhead == track \in hist[origin] /\ cache \in hist[origin]

\* The trunk keeps TrunkLedger's promise: nothing pushed is ever taken back,
\* the local trunk never has anything that is not pushed, and a merge is
\* reported as landed only when the shared trunk holds it.
Ledger == INSTANCE TrunkLedger WITH history <- hist[origin], copy <- hist[cache]
ImplementsLedger == Ledger!Spec

\* fetchRefSinceGeneration never runs two fetches of the trunk at a time,
\* however many rejected pushes ask for one.
OneFetch == Cardinality({w \in Wing : call[w].pc \in {"refetch", "realign"}}) <= 1

\* exec's nested queues lose no command, hold none twice, let only one
\* command of the bare directory through to the repository's queue, and hold
\* back others only behind such a command: nobody waits on an idle queue.
Queued(w) == Cardinality({i \in DOMAIN repoQ : repoQ[i] = w})
             + Cardinality({i \in DOMAIN bareQ : bareQ[i] = w})
QueuesServe ==
  /\ \A w \in Wing :
       Queued(w) = IF call[w].pc \in BareStep \cup WorktreeStep THEN 1 ELSE 0
  /\ Cardinality({i \in DOMAIN repoQ : call[repoQ[i]].pc \in BareStep}) <= 1
  /\ bareQ # <<>> => HasBare(repoQ)

\* The git commands and reads a call c may still wait for, the retries that
\* publishWithRetry allows it included.
Starting == {"fetch", "align", "rebase", "continue", "begin"}
StepsInAttempt(pc) ==
  CASE pc \in {"begin", "forward", "joined", "realign"}     -> 1
    [] pc \in {"rebase", "continue", "advance", "refetch"}  -> 2
    [] pc \in {"align", "push"}                             -> 3
    [] pc \in {"fetch", "build"}                            -> 4
    [] pc = "attempt"                                       -> 5
    [] OTHER                                                -> 0
AttemptsLeft(c) == IF c.pc \in Starting THEN MaxAttempts ELSE MaxAttempts - c.tries
StepsLeft(c) == IF c.pc = "idle" THEN 0
                ELSE 5 * AttemptsLeft(c) + StepsInAttempt(c.pc)

\* Whatever the other wings, the fetches it joins and failing commands do to a
\* call, it only ever comes closer to its end: publishWithRetry's loop and
\* fetchRefSinceGeneration never take it back to where it has been.
CallsBounded ==
  [][\A w \in Wing : call'[w] # call[w] =>
       IF Idle(w) THEN StepsLeft(call'[w]) <= 5 * MaxAttempts + 4
                  ELSE StepsLeft(call'[w]) < StepsLeft(call[w])]_vars

\* No circle of waiting: who joined a fetch of fetchRefSinceGeneration has
\* somebody who still runs it, and while any call is under way, one of them
\* goes on by itself or has the command that the repository runs.
NobodyStranded ==
  /\ \A w \in Wing : call[w].pc = "joined" => Fetching
  /\ (\E w \in Wing : ~ Idle(w)) =>
       \E w \in Wing : \/ call[w].pc \in {"begin", "attempt"}
                       \/ \E pc \in BareStep \cup WorktreeStep : Runs(w, pc)

\* exec's queues are fair: a command that waits is never overtaken, moves up
\* whenever the one at the head is through, and leaves the directory's queue
\* for the repository's only.
NeverOvertaken ==
  [][\A w \in Wing : call'[w] = call[w] =>
       /\ \A i \in DOMAIN repoQ : repoQ[i] = w =>
            \E j \in DOMAIN repoQ' :
               /\ repoQ'[j] = w
               /\ j <= i
               /\ call'[Head(repoQ)] # call[Head(repoQ)] => j < i
       /\ \A i \in DOMAIN bareQ : bareQ[i] = w =>
            \/ \E j \in DOMAIN bareQ' : bareQ'[j] = w /\ j <= i
            \/ \E j \in DOMAIN repoQ' : repoQ'[j] = w]_vars

\* Every movement call returns, with a result or an error, so that a wing is
\* idle again and again: the retries are bounded, a joined fetch wakes who
\* joined it, and the queues move on after a command that failed.
CallsReturn == \A w \in Wing : []<>Idle(w)
=============================================================================
