# TLA+ models of minions-platform

minions-platform lets many coding agents work on one git repository at once.
This directory models the parts of it where that is hard: *wings* (one git
worktree per agent) that share a bare clone, its local trunk and one
bookkeeping worktree, and publish to a trunk other machines push to as well;
the plan they claim work from; the missions that spawn agents and ask
questions; and the process that watches code quality. Every definition is
translated from the code under `src/`; `PROJECT.json` (`map`) names the lines.

## 1. The system

| Part | State it keeps | Operations | Talks to |
| --- | --- | --- | --- |
| Trunk publishing (`libs/file-store/.../disk/DiskMovement.ts`, `PublishRetry.ts`) | none of its own: the worktree's HEAD and branch, the bare clone's refs | `start`, `resolveConflict`, `merge`, `push`, `discard` | git through GitOperations |
| Git coordination (`disk/GitOperations.ts`, `scheduling/KeyedQueue.ts`, `disk/DiskBareRepository.ts`) | one FIFO queue per directory and per repository, a generation and a fetch in flight per ref, a cache of fetches | one method per git command; `fetchRefSinceGeneration`, `cachedFetch` | git |
| Mirror writes (`disk/DiskMirror.ts`) | one shared worktree and its branch; a queue of applies per path | `apply(transform)`, `syncToTrunkTip` (also on every read) | the local trunk, origin |
| Plan store and claims (`movement-branching/.../PlanActionGroup.ts`, `planner/WorktreePlanStore.ts`) | `content.toml` and `claims.toml` per root, on the trunk and in every wing | claim-node, claim-leaf, unclaim-node, add-children, create-root, move-node, delete-subtree, pruning | Mirror.apply |
| Movement manager (`MovementManager.ts`, `MovementSession.ts`) | the worktree's branch, halted rebases | start, status, diff, commit, merge, promote | trunk publishing, derived trunks |
| Derived trunks (`disk/DiskTrunk.ts`, `AdvanceAttemptRegistry.ts`) | derived branch and its parent; open attempts in memory | `advance`, `beginAdvance`, `continueResolving`, `publish`, `abandon`, `fastForwardPublish` | the wing's worktree, the bare clone |
| Commit tools (`GitCommit.ts`, `CommitCoordinator.ts`) | a commit in flight per worktree | commit, status | the wing's worktree |
| Work areas (`lair/SiteWorkArea.ts`, `LairImpl.ts`, `LairWing.ts`) | which worktree belongs to which wing | `activeMovement`, `beginNewActiveMovement` | `git worktree list`/`add` |
| Missions (`minions-runtime-core/.../MissionService.ts`, `conductor`) | running missions, their status and events, spawned minions | start, startAndWait, poll, cancel; spawn, ask | hatchery, question bridge |
| Question queue (`cabinet/src/questions`, `CabinetQuestionBridge.ts`) | questions, one waiter each; one pending question per mission | ask, await, answer, cancel | agents, missions, the cabinet UI |
| Quality watching (`QualityWatcherProcessClient.ts`, `MCPServer.ts`) | one child process, a promise of its URL, a heartbeat; one watcher per wing | start, poll, emergency respawn, shutdown; getOrCreate, invalidate, re-attach | the child process |
| Cabinet server, hatchery, shared browser, docs, experiments, archives, registry, UIs, configuration | request-scoped, or external processes | — | the parts above |

How they interact. The cabinet server is one Node.js process; every MCP call of
every agent runs in it as an async function, so any two calls interleave at
every `await`. Nearly every await is a git command. Commands that write are
queued twice, per directory and per repository, so *one command* is atomic and
*two consecutive commands of one call* are not. The trunk on origin is shared
with other machines that run the same code, and with people who push. Minions
and the quality-watcher process are processes of their own, which exit, hang
and answer late.

What is hard, and what makes each part correct:

* **Publishing** — the local trunk is only a cache; it is read, moved and
  force-moved by every call. Correct when nothing pushed is ever undone, a merge
  is reported only when origin holds it, no local copy is ahead of origin,
  retries end, and concurrent fetches share one.
* **Queues** — no command is lost, run twice or left behind an idle queue.
* **Mirror and claims** — the transform edits shared files with no git lock
  held. Correct when applies exclude each other, an apply changes only what its
  transform is about, claims are exclusive, and a reported claim is on the trunk.
* **A wing's checkout** — the worktree is lent to the merge, which detaches
  its HEAD, while commits and status calls of the same wing go on.
* **Promote** — two refs move independently while an attempt is open, and the
  attempt's rebase may wait for an agent for hours.
* **The plan** — parents, children, directories and `requires` are stored apart
  and must agree, on the trunk and in every wing; claims may be on items that the
  trunk does not have yet.
* **Missions and questions** — a cancellation meets a script that goes on, a
  spawn under way, a question being asked, a second waiter.
* **Quality process** — exits, late polls and calls from before a failure must
  not be taken for the replacement's.

## 2. Modules

| Module | What it is | Code |
| --- | --- | --- |
| `TrunkLedger` | abstract: published history only grows; a local copy has only what is published; "landed" is said only of what it holds | the promise of `Movement.merge` and `Mirror.apply` |
| `ClaimRegistry` | abstract: a node has one owner, and only its owner gives it back | the promise of claim-node and unclaim-node |
| `TrunkPublish`, `MCTrunkPublish`, `TrunkPublish_proofs`, `TrunkQueues_proofs` | movement start and merge, the retry loop, coalesced fetches, the nested queues | DiskMovement, PublishRetry, GitOperations, KeyedQueue, MovementManager |
| `MirrorApply`, `MCMirrorApply`, `MirrorApply_proofs` | Mirror.apply with claim and unclaim as transforms, reads of the mirror beside it | DiskMirror, PlanActionGroup, WorktreePlanStore |
| `WingCheckout`, `MCWingCheckout`, `WingCheckout_proofs` | one wing's worktree: merges that borrow it, commits and reads of the active movement beside them | DiskMovement, SiteWorkArea, GitCommit, CommitCoordinator, GitOperations |
| `Promotion`, `Promotion_proofs` | promote: advance, the attempt and its registry, the fold onto the parent | MovementManager, DiskTrunk, AdvanceAttemptRegistry |
| `PlanTree`, `MCPlanTree`, `PlanTree_proofs` | edits of the plan on the trunk and in wings, claims, the sweep of dangling ones | PlanActionGroup, WorktreePlanStore |
| `Missions`, `MCMissions`, `Missions_proofs` | missions, their minions and questions, and the agents' ask tool | MissionService, DefaultMissionRunner and Context, CabinetQuestionBridge, QuestionQueue, AskActionGroup |
| `QualityWatch`, `QualityWatch_proofs` | the quality-watcher process, its heartbeat, and the watchers built on it | QualityWatcherProcessClient, MCPServer |

`TrunkPublish`, `MirrorApply`, `WingCheckout` and `Promotion` look at one trunk
from four sides, and all implement `TrunkLedger`. TrunkPublish has many wings
with one call each and owns the refs and the queues; MirrorApply relies on one
fact about those refs, `LocalNeverAhead`, which is proved; WingCheckout has one
wing with several calls and adds what TrunkPublish leaves out, the worktree's
HEAD; Promotion adds the second trunk. PlanTree takes a write to the trunk as one
step, which is what MirrorApply's `ImplementsRegistry` and `FromScratch` are
about. Missions and QualityWatch stand alone.

### TrunkPublish

One action is one git command, or one read of a ref. A wing has at most one
movement call in progress (`call[w]`: its program counter and the local
variables of `merge`, `publishWithRetry` and `doFetch`). Commits are numbers;
`hist[c]` is the set of commits reachable from `c`, which is all that git's
fast-forward check, `merge` and `rebase` look at. `origin`, `track` and `cache`
are the trunk on origin, `refs/remotes/origin/<trunk>` and the local trunk of
the bare clone; `branch[w]` is the wing's movement branch. `repoQ` and `bareQ`
are `exec`'s two queues: the bare clone's directory is the only one that several
wings use, so the per-directory queues of the worktrees never hold more than
one command and are left out. `StepsLeft` is what a call has left to do at most,
which `CallsBounded` says every step of it lessens. A command that fails returns
in `CommandFails`; a push that lands and whose answer is lost in
`PushUnanswered`; `Restart` forgets what the process keeps in memory (calls,
queues, generations) and keeps refs and worktrees, a worktree caught between the
detached checkout and the `finally` staying detached.

### MirrorApply

The mirror is one branch (`head`) and one file (`files`, the contents of
`claims.toml`). An apply is cut where the code awaits: the two ref reads of
`syncToTrunkTip`, its `reset --hard`, the check, read and write of the
transform, `isDirty`, commit, push, `updateBranch`. `read[r]` is a read of the
mirror, which runs the same sync outside the apply queue. The local trunk is not
this module's: `TrunkMoves` lets it be any commit of the published trunk, which
is what TrunkLedger's `Learn` promises and TrunkPublish is proved to implement.
`setting` is chosen once, in `Init`: it says which mishaps happen, which nodes
are claimed, whether the mirror is read beside the applies, and the last commit.
A setting is `Calm` when nobody reads the mirror and no apply ends between its
write and its commit.

### WingCheckout

`on` is the set of worktrees whose HEAD is the movement branch and `at[t]` where
HEAD of `t` is while it is detached; git allows at most one worktree on a
branch and refuses to move a branch that is checked out, which are `Addable`,
`Forwards` and `SwitchFails`. Git also refuses a checkout or a merge that
uncommitted edits stand in the way of: any edit may (`MayRefuse`), be it before
the trial merge (`MergeFails`) or in the `finally` (`SwitchFails`). `added` says whether
`createDiskCheckedOutMovement` added a worktree when it found none. `holds[c]` is
the set of edits in a commit, `dirty[t]` those not committed, `told` those some
commit was reported for. Reads (`status`, `rev-parse`, `branch --show-current`,
`worktree list`) skip the queues, as `isReadOnlyGitCommand` lets them, and
`commitAll` holds its worktree's queue from `git add` to `git commit`. `ops`
says what each caller calls, chosen once from `Programs`.

### Promotion

One wing promotes, one call at a time. `main` and `trunk` are the parent and the
derived trunk on origin, `mainAt` and `trunkAt` their local copies, `head` and
`at` what the wing's worktree has checked out, `attempt` and `kept` the
AdvanceAttempt and whether the registry holds it. A replayed commit keeps its
changes (`own[c]`) and gets a new number, so that *what landed* can be followed
through rebases. Everyone else lands on both trunks, advances and folds.

### PlanTree

`content` is the trunk's plan, `view[w]` the one in a wing's checkout, `claims[d]`
the claims file of a root's directory, `base[w]` what the wing's movement
started from. An item's fields are those of `content.toml`: directory, parent,
children, requires. `Below` and `Expanded` are the recursions `collectIds` and
`findExpandedSubtree` as least closed sets. update-item takes any ids for
`requires`, as the code does, `MaxWaits` of them at a time. `held` and `stranded`
are ghosts: who was given an item and has not lost it by rule, and which item was
left waiting for an id that its plan does not have (update-item named it, or it
went away below an item of another root).

### Missions

`script[m]` is the background Effect, `status[m]` what a poll is answered,
`told[m]` what startAndWait's promise was settled with, `tracked[m]` the minions
its context will kill. A question has the name of the call that posted it;
`waiter[q]` is the one entry of `answerWaiters`, `pending[m]` the one of the
bridge. A script may come back with spawns and asks under way (`MayEnd`), and what
it has left running keeps its context (`Acts`): a spawn returns before or after
the cancellation or the end of its mission, and either may be announced by the
script itself, as completed, failed or cancelled (`ScriptEmits`).

### QualityWatch

`proc[k]` is the process itself, as opposed to what the client knows: `child` and
`starting` are its fields, `promise[k]` what `ensureStarted` handed out, `polls`
the health polls in flight, `misses` the counter and `missed[k]` what `k` itself
missed. `cache` is MCPServer's map of watchers, `pending` the list of wings to
re-attach, `call` the calls of getOrCreateQualityWatcher, which await the URL
and then paths before they put their watcher into the cache; each may be rejected
at any time by the lookup of the paths (`CallFails`). `lost` is a ghost: the wings
whose re-attaching call, or the start of their watcher, failed on the current process.

## 3. Runs

| Run | Expect | Shows |
| --- | --- | --- |
| `TrunkPublish_safety` | pass | `LocalNeverAhead`, `OneFetch`, `QueuesServe`, `NobodyStranded`, `CallsBounded`, `NeverOvertaken` and the refinement of `TrunkLedger`, with pushes from elsewhere, outside fetches, failing commands, lost answers and restarts |
| `TrunkPublish_liveness` | pass | `CallsReturn`: every call returns |
| `MirrorApply_safety` | pass | `OneApply`, `FromScratch`, `OnlyOwnNode`, the refinements of `ClaimRegistry` and `TrunkLedger`, in three settings: two nodes and lost races; one node with other machines, failures, lost answers and restarts; one node with reads beside and writes left behind |
| `MirrorApply_reader` | violation | `ClaimsKept`: a read during an apply undoes a claim that is reported |
| `WingCheckout_safety` | pass | `WorkKept`, `HeadComesBack` and the refinement of `TrunkLedger`, for one caller that commits and merges beside reads, and for two callers whose commits overlap |
| `WingCheckout_poll` | violation | `HeadBack`: one read during a merge can leave the wing detached for good |
| `WingCheckout_twice` | violation | `Landed`: of two overlapping merges one reports success and lands nothing |
| `Promotion` | pass | `HeadBack`, `NothingLost`, `Landed`, `PromoteBounded` and the refinement of `TrunkLedger` by the parent, with every push racing, conflicts, failures, lost answers and restarts |
| `Promotion_resume` | violation | `Resumable`: a registered attempt is never closed by calling promote again |
| `Missions` | pass | `KilledAtEnd`, `FirstWordStands`, `Unforgotten`, `CancelReaches`, `CancelledStays` |
| `PlanTree` | pass | `Forest`, `ClaimStands`, `Released` |
| `QualityWatch` | pass | `OneProcess`, `Invalidated`, `NoFalseAlarm`, `WatchedAgain` |

Every passing run checks its module's `TypeOK` too. The constants `Mishaps`,
`Settings`, `Programs` and `Ops` select what happens around the calls, so that
each run names the assumptions its result needs.

### Bounds

* TrunkPublish — two wings: two calls conflict, one joins the other's fetch, and
  a queue has a command behind the running one. Four commits beside the root:
  a merge of each wing, or one merge, a foreign push, a rejected push and the
  retry that lands, and what it takes for two rejected pushes to share a fetch.
  `MaxAttempts` is 2 where the code has more: attempt 2 is a retry with a known,
  joined or own fetch, and further attempts repeat it.
* MirrorApply — two wings, two nodes, one other machine, two or three commits:
  an apply makes one commit per attempt, so three are a claim, a lost race and the
  retry.
* WingCheckout — one wing, two callers, two edits (one committed before a call and
  one made during it), four commits, two attempts. One attempt and one edit are
  enough for the violations.
* Promotion — four commits: one on each trunk, a replay and its recomputation; two
  attempts and two folds, so that each loop runs again at least once inside the
  other. The violation needs one of each.
* Missions — one mission and agents, three calls, two minions: a script asks two
  questions at once while an agent waits for one of them, and one minion lives
  while the other's spawn is under way. Missions share only the queue of
  questions; two missions with two calls and one minion pass too.
* PlanTree — two roots and one more item, two wings, two edits: an item is made
  or moved in one place and deleted, moved or claimed in another. A third edit
  only repeats these on a larger tree. update-item names one id (`MaxWaits` 1);
  with all of them it passes too.
* QualityWatch — one wing, one caller beside the re-attaching calls, three
  processes (a failed one, its replacement, and that one's), threshold 2 as in
  the code. Instances with two callers and two processes pass too.

Symmetry is used only for safety, over sets whose members are alike. A run says
`CHECK_DEADLOCK FALSE` where it looks for a violation, or where the system may
stop: the bounded commits, edits, calls or processes are used up, or every
mission is over.

### Fairness

* `TrunkPublish!FairSpec` — weak fairness of each call's own steps: the event loop
  resumes a call whose awaited command has ended, and git commands end. Nothing
  is assumed of agents, other machines or restarts.
* `Promotion!FairSpec` — an agent whose promote failed calls it again, as the tool
  tells it to, and calls go on. It is what the refuted `Resumable` needs to be
  a fair question: with it, the attempt stays registered for ever all the same.
* `QualityWatch!FairSpec` — the startup timer fires, and a call whose URL has come
  or failed goes on or fails (`Due`). Nothing is assumed of the process: it may
  never announce itself.

## 4. What is proved

Eight proof modules, each for any values of the constants that the named
assumption on them allows (`BoundsAssumption`, `MirrorAssumption`,
`CheckoutAssumption`, `PromotionAssumption`, `PlanAssumption` with
`FirstPlanAssumption`, `MissionsAssumption`, `QualityWatchAssumption`). All but
`TrunkQueues_proofs`, which extends `TrunkPublish_proofs`, prove `Invariance`,
`Spec => []IInv`, from one lemma per action, and the others from it. A theorem that
needs more states it as an ASSUME of its own.

**`TrunkPublish_proofs`** — `TypeCorrect`, `CopiesBehind` (`LocalNeverAhead`)
and `Refinement` (TrunkPublish implements TrunkLedger). `LocalNeverAhead` is not
inductive: that `updateBranch` after a push keeps the cache behind origin needs
that the pushed commit is still on origin when the command runs, however many
other pushes landed meanwhile. The same fact is the ledger's promise about the
local copy. So `IInv` adds `Closed` (ancestry is reflexive and transitive),
`Sound` of every call (the base it read is on origin, its candidate contains
that base and the tip it merges, and past the push the candidate is on origin),
and that everything in `acked` is on origin. Each action's lemma shows at the
same time that the action is a step of TrunkLedger or a stutter.

**`TrunkQueues_proofs`** — `EveryCommandServed` (`QueuesServe`), `OneFetchOnly`
(`OneFetch`), `NobodyIsStranded` (`NobodyStranded`), `QueuesAreFair`
(`NeverOvertaken`) and `CallsEnd` (`CallsBounded`), with a second strengthening,
`QInv`: `Queues`, `Single` and `Heard`. `Served` gives the two queues as
sequences in terms of who waits for what: each wing with a command outstanding
stands in exactly one place, at most one of those with a command of the bare
directory is in the repository's queue, and the others are behind it. Lemmas say
what an arrival at the end and a departure from the head do to `Served`; which case
a step is follows from the directory of its command, so every action of
TrunkPublish is an instance of one of three (a command goes on to another, a call
submits its first, nothing queued changes). `OneFetch` (`Single`) needs only that
a call starts to fetch when none does. `Heard` is that a call that has joined a
fetch has one that runs it; it is inductive only with `Single`, since the end
of one fetch must wake everyone. From `Queues` and `Heard` follows that a circle of
waiting is impossible. `CallsEnd` and `QueuesAreFair` are action properties, each
proved action by action under the invariant.

**`MirrorApply_proofs`** — all that `MirrorApply_safety` checks. In every
setting: `TypeCorrect`, `OneAtATime` (`OneApply`), `LedgerRefinement` and
`AppliesEnd`, which no run checks: every step of an apply leaves it fewer steps,
and whoever is queued is behind one that is under way. They follow from an
`IInv` that says who is in `applyQueue` (each call once, only the head past it),
that commits are closed and numbered in the order they were made, and which tips
a call may rely on. In calm settings: `StartsClean` (`FromScratch`),
`OtherNodesKept` (`OnlyOwnNode`) and `RegistryRefinement`, from a second
invariant, `Claiming` (`ClaimsStand`): the mirror is dirty only between an
apply's write and its commit; its tip is then on the trunk and its files are the
tip's with the caller's one entry changed; a commit that is pushed is one such
change on top of a commit `b` of the trunk. That origin takes the push only if
it is `b` itself is where the compare-and-swap of `pushRefCas` becomes the
exclusiveness of claims: origin contains `b` and is contained in it, and commits
are numbered in order.

**`WingCheckout_proofs`** — for any callers, whatever they call: `TypeCorrect` and
`HeadReturns` (`HeadComesBack`), from an `IInv` about the graph, the refs, at
most one worktree on the branch, and the tips a call may rely on. `HeadComesBack`
excepts a `finally` that fails itself, and says of it that the call then fails
and reports no merge. `WorkStays`
(`WorkKept`) and `Refinement` assume `Solo`: nobody commits or merges beside a
merge, while any number of callers read, or commit at once. Under it `SInv` says
which HEAD each step of a call finds (the trunk's tip before the landing
commit, a commit above the branch after it), that the branch a merge read is still
the one it moves, and that every edit is uncommitted, on the branch or on the
trunk. Without `Solo` the first fails, and so does the second: the run
`WingCheckout_twice` shows one way. `CallsEnd`, which no run checks, is about any
callers again: each step of a call leaves it fewer steps, whatever HEAD or
worktree it finds, and a call that joined a commit has exactly one in flight to
hear from. It needs `IInv` only for which steps belong to which kind of call.

**`Promotion_proofs`** — all that the run `Promotion` checks: `TypeCorrect`,
`HeadIsBack` (`HeadBack`), `Refinement`, `NothingIsLost` (`NothingLost`),
`EverythingLands` (`Landed`) and `PromoteEnds` (`PromoteBounded`: the measure is
lexicographic in the folds left, the attempts left and the place in the
attempt, with room for the attempt that a fold which was refused starts anew). A
push with a lease replaces the derived trunk's tip by a commit that does not
contain it. So `IInv` adds `Replaces`: at every step between the replay and the
push, what is about to replace a tip brings in all that this tip does, except
what the parent has. The lease then makes the tip that is replaced the one that
was replayed. `Landed` follows from `Goal`, which carries the changes that were
on the derived trunk at the call through its pushes and the fold; it assumes
that `"late"` is not among the mishaps.

**`PlanTree_proofs`** — all that the run `PlanTree` checks: `TypeCorrect`,
`ForestStays` (`Forest`), `ClaimsStand` (`ClaimStands`) and `WaitsEnd` (`Released`),
for any plan to start from that is a forest. There is no induction over the tree:
`Below` is a least closed set, so an item of the edited plan is shown to be in
every closed set that has its root, which is one of the old plan but for the
subtree that was moved or deleted. That a subtree is moved out from under
nothing of its own is `MayMove`. `ClaimStands` is not inductive, since a claim on
an item that the trunk does not have is looked at again when a wing merges it.
`Released` needs of a merge that what it brings to the trunk waits only for what
that plan has, or for what is in `stranded`, so `IInv` says it of every copy.
`IInv` also adds `Own`: an item that a wing has added since its movement started is
in no other plan, and others are where they were. And `Standing`: such an item
has one record at most, in the directory its wing has it in, which the sweep
keeps because the wing has the item.

**`Missions_proofs`** — `TypeCorrect`, `MinionsDie` (`KilledAtEnd`),
`CompletedMeansNotCancelled` (`FirstWordStands`), `WaitersAreServed`
(`Unforgotten`), `CancellingEndsTheAsk` (`CancelReaches`), `CancellationStays`
(`CancelledStays`). The strengthening says which missions are listed (a cancelled
one never is) and what their waiters were told, that every live minion is
tracked by its mission, whether the script is over or not, and which questions
exist and whose they are.

**`QualityWatch_proofs`** — `TypeCorrect`, `NoDuplicate` (`OneProcess`),
`NothingStale` (`Invalidated`), `OnlyItsOwnMisses` (`NoFalseAlarm`) and
`NoWingForgotten`, which no run checks: a wing that was watched when its process
failed stays owed a watcher, on the list or with a call under way, until it is
watched, the replacement fails in its turn, or that call reports that it has
failed (`lost`). It assumes that the calls of
the re-attaching loop are not calls of agents. The strengthening says that the
current process is the one spawned last, `this.starting` is its promise, only it
is polled, and the misses that are counted are its own.

**Only model-checked.** Liveness (`CallsReturn`, `WatchedAgain`): fairness and
ENABLED are out of the prover's reach. What they rest on beside fairness is
proved: steps left decrease, nobody waits for nobody or is overtaken, and no
wing that is owed a watcher is dropped. The three theorems of which no run checks
the property (`AppliesEnd`, WingCheckout's `CallsEnd`, `NoWingForgotten`) held in TLC on
the instances of the runs before they were proved. No recursive operator is
declared anywhere.

## 5. Findings

1. `ClaimsKept` (DiskMirror.ts:272) — a read of the mirror calls `syncToTrunkTip`
   outside the apply queue; its `reset --hard` between a transform's write and
   the `isDirty` that follows discards the write, `apply` finds nothing to
   commit, and claim-node reports a claim that nobody else will ever see.
2. `HeadBack` (DiskMovement.ts:373) — `activeMovement()` reads the current branch,
   awaits, and asks `git worktree list` who has it. If a merge has run
   `checkout --detach` in between, nobody has, and it *adds* a worktree on the
   branch. The merge then fails at `branch -f` after its push has landed, its
   `finally` fails too, and the wing stays on a detached HEAD. The cabinet polls
   `activeMovement()` for status, so no second agent is needed.
3. `Landed` of WingCheckout (GitOperations.ts:1573) — merges of one wing are not
   serialized. The landing commit's hash is read from HEAD by a command of its
   own; when the other merge has just detached HEAD at the trunk's tip, that tip
   is pushed (a no-op), the movement branch is forced back to it, and success is
   reported.
4. `Resumable` (MovementManager.ts:760) — promote resolves the active movement
   before it looks for a registered attempt; a halted attempt keeps HEAD off
   every branch, so that this throws. An attempt registered as ready, whose
   publish was refused, gets past it and fails in `continueResolving`, which wants
   a conflict. Either way it stays registered until a restart.

Seen in the code, and not the subject of a run:

* First parents of the trunk can skip merges, against DiskMovement.ts:18-21: the
  local trunk may go back, and a landing commit may start from the old tip.
* An apply that throws between its transform and its commit leaves the write in
  the mirror, and the next apply commits it (DiskMirror.ts:267, against :333-334).
* `ask` of a mission has no timeout (CabinetQuestionBridge.ts:40), against
  libs/conductor/docs/ctx-ask.md:110.
* A merge's `finally` whose own checkout fails leaves the wing detached: `switchBranch`
  is a plain `git checkout`, which an uncommitted edit can stand in the way of
  (DiskMovement.ts:231, GitOperations.ts:1202-1209, against DiskMovement.ts:180-181).
* A spawn that is still under way when its script ends is tracked after
  `killAllMinions`, and its minion lives on (DefaultMissionContext.ts:245 and :297,
  against IMissionRunner.ts:23).
* When a script has announced `failed` or `cancelled` itself and then comes back, the
  runner reports it as completed: it asks only whether the mission is listed
  (DefaultMissionRunner.ts:84-91; ctx-ask.md:150-152 announces `cancelled` so).
* Completing an item does not release what waits, in other roots, for the items below
  it (PlanActionGroup.ts:910), and update-item takes ids that no item has
  (PlanActionGroup.ts:1244-1248).
* claim-leaf gives a caller a second leaf when it holds one that only its wing has
  (PlanActionGroup.ts:1653, against 1772-1774).
* A wing whose re-attaching call fails, because its paths cannot be read, is off the
  list by then and stays unwatched until somebody asks (MCPServer.ts:1331-1334,
  1403-1407).
* A second failure of the quality process overwrites the list of wings to
  re-attach (MCPServer.ts:252, against the comment at :136); a startup that times
  out leaves a rejected promise while the process lives
  (QualityWatcherProcessClient.ts:217); a crash at startup respawns without delay
  or limit (:362).

What the passing properties do not say: `FromScratch`, `OnlyOwnNode` and
`ImplementsRegistry` are about calm settings. `WorkKept` is checked with commits
that overlap each other and with merges that overlap reads, not with a commit
that overlaps a merge of the same wing. `Landed` of Promotion needs that no late
`updateBranch` takes the derived trunk's local copy back between advance and
fold. `HeadComesBack` excepts a second worktree on the branch, a restart, and a
`finally` whose checkout fails. `KilledAtEnd` kills what is alive at the end, not a
spawn under way. `CancelledStays` is about the overlord's cancellations and what
the runner reports, not about what the script announces itself. `CancelReaches` is
about missions that ask one question at a time. `Released` excepts the waits in
`stranded`, which the code creates and never releases. `Invalidated` and
`WatchedAgain` except watchers that a call builds on a process that had already
failed, and `WatchedAgain` a replacement that fails or times out in its turn, and a
wing whose own re-attaching call fails (`lost`).

## 6. Plan

Done: the modules of section 2, first the trunk and its publishers, then promote,
missions, the plan and the quality process. Next, in this order.

1. **Minion sessions** — `MinionService`, `HatcheryMinionAdapter` and
   `send_message` of MCPServer. What a model would have to settle: two sends to a
   minion without an executor both respawn it, and the first one's
   `session_ended` then clears the executor of the second
   (MinionService.ts:282-286 does not ask whose it is); a kill while the session
   is dumped is undone by the reset to Idle (:282, :399); a process that exits in
   mid-turn emits only `session_ended`, for which `send_message` does not wait
   (MCPServer.ts:870); an earlier send's `finally` removes a later send's listeners
   (:836, :904-911).
2. **FetchCache** — `cachedFetch` with its age limit and forced fetches that join
   one in flight.

## 7. Not modelled

* Of the modelled parts: `rebaseOnto`, `cherryPick`, `derive` and `abandon`, which
  no production code calls; `push`, a best-effort copy no one reads; Windows lock
  retries, branch sweeping, sparse checkouts, worktree setup; a merge that
  continues promote's halted rebase, and promotes that overlap; how checks decide
  about a commit; the ranking of leaves, titles, approvals, plan questions, demo
  links, moves across roots made in a wing, and merges of a wing whose trunk has
  another plan by now; listings and change events for user interfaces; what a
  mission's script computes, its artifacts and log; shutdown, pause and resume,
  the wedge backstop and the wing-activity timers of quality watching. The
  quality watcher behind the URL is taken from the interface the cabinet uses
  (`start`, `isRunning`).
* The in-memory adapters are test doubles. The cabinet server routes requests to
  the parts above. The hatchery launches external processes. The shared browser,
  documents, experiments, archives and the registry worker are thin sequential
  services. Configuration, types, the SDK and the user interfaces keep no state
  that changes concurrently. `PROJECT.json` lists each with its reason.
