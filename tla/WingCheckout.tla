---------------------------- MODULE WingCheckout ----------------------------
(***************************************************************************)
(* One wing's worktree, while a merge borrows it.                          *)
(*                                                                         *)
(* A wing works on one movement branch, checked out in its worktree.  A    *)
(* merge takes the worktree off the branch: it detaches HEAD at the        *)
(* trunk's tip, builds the landing commit there, pushes it, moves the      *)
(* branch to it and checks the branch out again.  Meanwhile other calls of *)
(* the same wing run: commits, further merges (a caller that timed out     *)
(* calls again), and all the reads that ask the work area for its active   *)
(* movement.  They look up the branch, then the worktree that has it, and  *)
(* create a worktree when there is none.                                   *)
(*                                                                         *)
(* TrunkPublish has the queues and the refs of a merge; here its fetches   *)
(* and the reads inside one git-level operation are single steps, and      *)
(* nothing halts a rebase, for which uncommitted edits are stashed.        *)
(***************************************************************************)
EXTENDS Naturals, FiniteSets

CONSTANTS Caller,       \* concurrent calls made for the wing
          Programs,     \* what the callers may be up to, each a function
          Edit,         \* bound: the edits the agent makes to files
          MaxCommit,    \* bound: commits are 0 .. MaxCommit
          MaxAttempts,  \* publishWithRetry's maxAttempts
          Mishaps       \* what happens around the calls

ASSUME CheckoutAssumption ==
  /\ MaxCommit \in Nat
  /\ MaxAttempts \in Nat \ {0}
  /\ Programs \subseteq [Caller -> SUBSET {"poll", "commit", "merge"}]
  /\ Mishaps \subseteq {"remote", "failure", "restart"}

Commit == 0 .. MaxCommit
Root == 0

\* The wing's worktree, and the one createDiskCheckedOutMovement adds.
Tree == {"wing", "stray"}

VARIABLES
  ops,      \* ops[c]: what c calls, from the start on
  hist,     \* hist[c]: the commits reachable from c, c included
  holds,    \* holds[c]: the edits in commit c
  next,     \* commits 0 .. next - 1 exist
  origin,   \* tip of the trunk on origin
  cache,    \* refs/heads/<trunk> of the bare repository
  branch,   \* tip of the movement branch
  on,       \* worktrees whose HEAD is the movement branch
  at,       \* at[t]: HEAD of t while it is detached
  added,    \* the stray worktree has been added
  made,     \* edits made so far
  dirty,    \* dirty[t]: edits in t that are not committed
  call,     \* call[c]: the call of c in progress
  running,  \* callers whose commit CommitCoordinator has in flight
  told,     \* edits that a commit was reported for
  acked     \* branch tips whose merge was reported as landed

graph == <<hist, holds, next>>
refs == <<origin, cache, branch>>
heads == <<on, at, added>>
edits == <<made, dirty>>
reports == <<told, acked>>
vars == <<ops, hist, holds, next, origin, cache, branch, on, at, added, made, dirty,
          call, running, told, acked>>

-----------------------------------------------------------------------------
\* Between the detached checkout and the finally of merge().
Borrowing == {"name", "merge", "hash", "push", "advance", "forward", "finally"}

Step == {"idle", "resolve", "list", "add", "look",
         "start", "rebase", "begin", "attempt", "checkout", "refetch",
         "coalesce", "pipeline", "joined", "stage", "commit"} \cup Borrowing

Outcome == {"none", "landed", "current", "conflict", "rejected", "failed"}

Call == [op    : {"poll", "commit", "merge"},
         pc    : Step,
         named : BOOLEAN,         \* getMovementBranchName has been answered
         tree  : Tree,            \* worktree of the CheckedOutMovement
         asked : SUBSET Edit,     \* edits made before the call
         stage : SUBSET Edit,     \* what git add -A staged
         tip   : Commit,          \* movementTip
         base  : Commit,          \* baseTip of the current attempt
         cand  : Commit,          \* mergeOutcome.commit
         tries : 0 .. MaxAttempts,
         out   : Outcome]         \* what the finally runs after

NewCall(op, pc) == [op |-> op, pc |-> pc, named |-> FALSE, tree |-> "wing",
                    asked |-> {}, stage |-> {}, tip |-> Root, base |-> Root,
                    cand |-> Root, tries |-> 0, out |-> "none"]
NoCall == NewCall("poll", "idle")

GoesTo(c, pc) == call' = [call EXCEPT ![c].pc = pc]
Returns(c) == call' = [call EXCEPT ![c] = NoCall]
Ends(c, out) == call' = [call EXCEPT ![c] = [@ EXCEPT !.pc = "finally", !.out = out]]

\* The commit HEAD of t is at.
Tip(t) == IF t \in on THEN branch ELSE at[t]

\* commitAll has the worktree's queue from git add to git commit; commands
\* that write wait for it, reads do not.
Free(t) == \A c \in Caller : ~(call[c].pc = "commit" /\ call[c].tree = t)

\* c runs a writing command of step pc in its worktree.
Writes(c, pc) == call[c].pc = pc /\ Free(call[c].tree)

\* Uncommitted edits may be in the files that differ between HEAD of t and
\* commit k: git then refuses to check k out, or to merge it.
MayRefuse(t, k) == dirty[t] # {} /\ Tip(t) # k

\* A commit with these parents and more edits gets the next free id.
Create(parents, more) ==
  /\ next \in Commit
  /\ hist' = [hist EXCEPT ![next] = {next} \cup UNION {hist[p] : p \in parents}]
  /\ holds' = [holds EXCEPT ![next] = more \cup UNION {holds[p] : p \in parents}]
  /\ next' = next + 1

\* HEAD of t moves to commit c, and takes the branch along when it is on it.
HeadMoves(t, c) ==
  IF t \in on THEN branch' = c /\ UNCHANGED at
  ELSE at' = [at EXCEPT ![t] = c] /\ UNCHANGED branch

\* Mutant: the push is made with --force.
AcceptsForced(c) == TRUE

\* GitOperations.pushRefCas: origin takes c without force.
Accepts(c) == origin \in hist[c]

-----------------------------------------------------------------------------
(* The agent, and everyone else. *)

\* The agent changes a file in the wing's worktree.
Edits(e) ==
  /\ e \notin made
  /\ made' = made \cup {e}
  /\ dirty' = [dirty EXCEPT !["wing"] = @ \cup {e}]
  /\ UNCHANGED <<graph, refs, heads, call, running, reports>>

\* Another machine lands something on the trunk, the wing's own branch, of
\* which origin has a copy, included.
RemotePush ==
  /\ "remote" \in Mishaps
  /\ \/ Create({origin}, {})
     \/ branch \notin hist[origin] /\ Create({origin, branch}, {})
  /\ origin' = next
  /\ UNCHANGED <<cache, branch, heads, edits, call, running, reports>>

Calls(c, op) ==
  /\ op \in ops[c]
  /\ call[c].pc = "idle"
  /\ call' = [call EXCEPT ![c] = [NewCall(op, "resolve") EXCEPT !.asked = made]]
  /\ UNCHANGED <<graph, refs, heads, edits, running, reports>>

-----------------------------------------------------------------------------
(* SiteWorkArea.activeMovement and createDiskCheckedOutMovement. *)

\* The movement is resolved, with t as its worktree.  A merge resolves it
\* twice: for the branch's name, then to work with.
Resolved(c, t) ==
  LET k == call[c]
  IN CASE k.op = "poll" -> NoCall
       [] k.op = "merge" /\ ~k.named -> [k EXCEPT !.pc = "resolve", !.named = TRUE]
       [] OTHER -> [k EXCEPT !.pc = "look", !.tree = t]

\* The wing's current branch is read.  On a detached HEAD there is none, and
\* the call fails.
Resolves(c) ==
  /\ call[c].pc = "resolve"
  /\ IF "wing" \in on THEN GoesTo(c, "list") ELSE Returns(c)
  /\ UNCHANGED <<graph, refs, heads, edits, running, reports>>

\* worktrees().find(branch === this.branch)
Lists(c) ==
  /\ call[c].pc = "list"
  /\ \/ on = {} /\ GoesTo(c, "add")
     \/ \E t \in on : call' = [call EXCEPT ![c] = Resolved(c, t)]
  /\ UNCHANGED <<graph, refs, heads, edits, running, reports>>

\* git worktree add takes a new path and a branch checked out nowhere.
Addable == on = {} /\ ~added

Adds(c) ==
  /\ call[c].pc = "add"
  /\ Addable
  /\ on' = on \cup {"stray"}
  /\ added' = TRUE
  /\ call' = [call EXCEPT ![c] = Resolved(c, "stray")]
  /\ UNCHANGED <<graph, refs, at, edits, running, reports>>

AddFails(c) ==
  /\ call[c].pc = "add"
  /\ ~Addable
  /\ Returns(c)
  /\ UNCHANGED <<graph, refs, heads, edits, running, reports>>

-----------------------------------------------------------------------------
(* movement merge: mergeMovement, start. *)

Quiet == <<graph, refs, heads, edits, running, reports>>

\* mergeMovement refuses uncommitted changes.
MergeLooks(c) ==
  /\ call[c].op = "merge"
  /\ call[c].pc = "look"
  /\ IF dirty[call[c].tree] = {} THEN GoesTo(c, "start") ELSE Returns(c)
  /\ UNCHANGED Quiet

\* start(): fetch the trunk and realign the local one; so does a retry.
Fetches(c) ==
  /\ call[c].pc \in {"start", "refetch"}
  /\ cache' = origin
  /\ GoesTo(c, IF call[c].pc = "start" THEN "rebase" ELSE "attempt")
  /\ UNCHANGED <<graph, origin, branch, heads, edits, running, reports>>

\* GitOperations.rebase with nothing to replay; edits are stashed meanwhile.
RebaseMoves(c) ==
  /\ Writes(c, "rebase")
  /\ LET t == call[c].tree
     IN \/ cache \in hist[Tip(t)] /\ UNCHANGED <<branch, at>>
        \/ Tip(t) \in hist[cache] /\ HeadMoves(t, cache)
  /\ GoesTo(c, "begin")
  /\ UNCHANGED <<graph, origin, cache, on, added, edits, running, reports>>

\* Mutant: the replay leaves the branch's own edits out.
RebaseDrops(c) ==
  /\ Writes(c, "rebase")
  /\ LET t == call[c].tree
     IN /\ cache \notin hist[Tip(t)]
        /\ Tip(t) \notin hist[cache]
        /\ Create({cache}, {})
        /\ HeadMoves(t, next)
  /\ GoesTo(c, "begin")
  /\ UNCHANGED <<origin, cache, on, added, edits, running, reports>>

\* GitOperations.rebase replaying HEAD on the trunk.
RebaseReplays(c) ==
  /\ Writes(c, "rebase")
  /\ LET t == call[c].tree
     IN /\ cache \notin hist[Tip(t)]
        /\ Tip(t) \notin hist[cache]
        /\ Create({cache}, holds[Tip(t)])
        /\ HeadMoves(t, next)
  /\ GoesTo(c, "begin")
  /\ UNCHANGED <<origin, cache, on, added, edits, running, reports>>

-----------------------------------------------------------------------------
(* movement merge: DiskCheckedOutMovementImpl.merge. *)

\* movementTip is read once.
Begins(c) ==
  /\ call[c].pc = "begin"
  /\ call' = [call EXCEPT ![c] = [@ EXCEPT !.pc = "attempt", !.tip = branch, !.tries = 1]]
  /\ UNCHANGED Quiet

Reports(c) == acked' = acked \cup {call[c].tip}

\* movementTip === baseTip is reported as already up to date.
AttemptsUpToDate(c) ==
  /\ call[c].pc = "attempt"
  /\ call[c].tip = cache
  /\ Reports(c)
  /\ Returns(c)
  /\ UNCHANGED <<graph, refs, heads, edits, running, told>>

Attempts(c) ==
  /\ call[c].pc = "attempt"
  /\ call[c].tip # cache
  /\ call' = [call EXCEPT ![c] = [@ EXCEPT !.pc = "checkout", !.base = cache]]
  /\ UNCHANGED Quiet

\* checkout --detach <baseTip>; uncommitted edits stay in the files.
ChecksOut(c) ==
  /\ Writes(c, "checkout")
  /\ on' = on \ {call[c].tree}
  /\ at' = [at EXCEPT ![call[c].tree] = call[c].base]
  /\ GoesTo(c, "name")
  /\ UNCHANGED <<graph, refs, added, edits, running, reports>>

\* GitOperations.merge: HEAD on the branch, or at its tip, is up to date.
MergeNames(c) ==
  /\ call[c].pc = "name"
  /\ IF Tip(call[c].tree) = branch THEN Ends(c, "current") ELSE GoesTo(c, "merge")
  /\ UNCHANGED Quiet

\* git merge --no-ff <branch>
Merges(c) ==
  /\ Writes(c, "merge")
  /\ branch \notin hist[Tip(call[c].tree)]
  /\ Create({Tip(call[c].tree), branch}, {})
  /\ at' = [at EXCEPT ![call[c].tree] = next]
  /\ GoesTo(c, "hash")
  /\ UNCHANGED <<refs, on, added, edits, running, reports>>

\* git merge finds nothing to merge and succeeds.
MergesNothing(c) ==
  /\ Writes(c, "merge")
  /\ branch \in hist[Tip(call[c].tree)]
  /\ GoesTo(c, "hash")
  /\ UNCHANGED Quiet

\* git merge conflicts and is aborted.
MergeConflicts(c) ==
  /\ Writes(c, "merge")
  /\ branch \notin hist[Tip(call[c].tree)]
  /\ Tip(call[c].tree) \notin hist[branch]
  /\ Ends(c, "conflict")
  /\ UNCHANGED Quiet

\* getLastCommitHash: git rev-parse HEAD
ReadsHash(c) ==
  /\ call[c].pc = "hash"
  /\ call' = [call EXCEPT ![c] = [@ EXCEPT !.pc = "push", !.cand = Tip(call[c].tree)]]
  /\ UNCHANGED Quiet

Pushes(c) ==
  /\ call[c].pc = "push"
  /\ Accepts(call[c].cand)
  /\ origin' = call[c].cand
  /\ GoesTo(c, "advance")
  /\ UNCHANGED <<graph, cache, branch, heads, edits, running, reports>>

\* Origin accepted the push and the answer was lost.
PushUnanswered(c) ==
  /\ "failure" \in Mishaps
  /\ call[c].pc = "push"
  /\ Accepts(call[c].cand)
  /\ origin' = call[c].cand
  /\ Ends(c, "failed")
  /\ UNCHANGED <<graph, cache, branch, heads, edits, running, reports>>

PushRejected(c) ==
  /\ call[c].pc = "push"
  /\ ~Accepts(call[c].cand)
  /\ Ends(c, "rejected")
  /\ UNCHANGED Quiet

\* updateBranch(base, commit)
Advances(c) ==
  /\ call[c].pc = "advance"
  /\ cache' = call[c].cand
  /\ GoesTo(c, "forward")
  /\ UNCHANGED <<graph, origin, branch, heads, edits, running, reports>>

\* branchForceReset(this.branch, commit)
Forwards(c) ==
  /\ call[c].pc = "forward"
  /\ on = {}
  /\ branch' = call[c].cand
  /\ Ends(c, "landed")
  /\ UNCHANGED <<graph, origin, cache, heads, edits, running, reports>>

\* git refuses to move a branch that is checked out somewhere.
ForwardFails(c) ==
  /\ call[c].pc = "forward"
  /\ on # {}
  /\ Ends(c, "failed")
  /\ UNCHANGED Quiet

\* Mutant: one attempt too many.
RetriesLate(k) == k.out = "rejected" /\ k.tries <= MaxAttempts

\* Whether publishWithRetry makes another attempt.
Retries(k) == k.out = "rejected" /\ k.tries < MaxAttempts

\* The finally has run: the call goes on as its attempt ended.
Settles(c) ==
  LET k == call[c]
  IN /\ IF Retries(k)
        THEN call' = [call EXCEPT ![c] = [k EXCEPT !.pc = "refetch", !.out = "none",
                                                   !.tries = @ + 1]]
        ELSE Returns(c)
     /\ IF k.out \in {"landed", "current"} THEN Reports(c) ELSE UNCHANGED acked

\* Mutant: an attempt that lost its race is not switched back.
SwitchesBackUnless(c) ==
  /\ Writes(c, "finally")
  /\ on \subseteq {call[c].tree}
  /\ on' = IF call[c].out = "rejected" THEN on ELSE {call[c].tree}
  /\ Settles(c)
  /\ UNCHANGED <<graph, refs, at, added, edits, running, told>>

\* switchBranch(this.branch)
SwitchesBack(c) ==
  /\ Writes(c, "finally")
  /\ on \subseteq {call[c].tree}
  /\ on' = {call[c].tree}
  /\ Settles(c)
  /\ UNCHANGED <<graph, refs, at, added, edits, running, told>>

\* git checkout fails: another worktree has the branch, uncommitted edits stand
\* in its way, or the command fails by itself.  So does checkout -b, as there is
\* the branch, and the error replaces what the attempt returned.
SwitchFails(c) ==
  /\ Writes(c, "finally")
  /\ \/ ~(on \subseteq {call[c].tree})
     \/ MayRefuse(call[c].tree, branch)
     \/ "failure" \in Mishaps
  /\ Returns(c)
  /\ UNCHANGED Quiet

-----------------------------------------------------------------------------
(* movement commit: GitCommit and CommitCoordinator. *)

\* Mutant: a commit in flight is taken for a clean worktree.
CommitsNoopEarly(c) ==
  /\ call[c].op = "commit"
  /\ call[c].pc = "look"
  /\ dirty[call[c].tree] = {} \/ running # {}
  /\ told' = told \cup call[c].asked
  /\ call' = [call EXCEPT ![c] = NewCall("poll", "resolve")]
  /\ UNCHANGED <<graph, refs, heads, edits, running, acked>>

\* A clean worktree is a success without a commit.
CommitsNoop(c) ==
  /\ call[c].op = "commit"
  /\ call[c].pc = "look"
  /\ dirty[call[c].tree] = {}
  /\ told' = told \cup call[c].asked
  /\ call' = [call EXCEPT ![c] = NewCall("poll", "resolve")]
  /\ UNCHANGED <<graph, refs, heads, edits, running, acked>>

\* isDirty found something to commit.
CommitLooks(c) ==
  /\ call[c].op = "commit"
  /\ call[c].pc = "look"
  /\ dirty[call[c].tree] # {}
  /\ GoesTo(c, "coalesce")
  /\ UNCHANGED Quiet

\* A commit in flight for this wing is joined; otherwise this one runs.
Coalesces(c) ==
  /\ call[c].pc = "coalesce"
  /\ IF running = {} THEN running' = {c} /\ GoesTo(c, "pipeline")
     ELSE UNCHANGED running /\ GoesTo(c, "joined")
  /\ UNCHANGED <<graph, refs, heads, edits, reports>>

\* Who is answered when the commit of c ends.
Answered(c) == {c} \cup {d \in Caller : call[d].pc = "joined"}

\* The commit of c has ended well: it and those that joined push the branch,
\* for which they resolve the movement again.
Succeeds(c) ==
  /\ running' = {}
  /\ call' = [d \in Caller |-> IF d \in Answered(c) THEN NewCall("poll", "resolve")
                               ELSE call[d]]

\* The check pipeline accepts what is to be committed.
CommitAccepted(c) ==
  /\ call[c].pc = "pipeline"
  /\ GoesTo(c, "stage")
  /\ UNCHANGED Quiet

\* The pipeline rejects it, or git does: nobody's commit succeeds.
CommitFails(c) ==
  /\ "failure" \in Mishaps
  /\ call[c].pc \in {"pipeline", "stage", "commit"}
  /\ running' = {}
  /\ call' = [d \in Caller |-> IF d \in Answered(c) THEN NoCall ELSE call[d]]
  /\ UNCHANGED <<graph, refs, heads, edits, reports>>

\* commitAll: git add -A
Stages(c) ==
  /\ Writes(c, "stage")
  /\ call' = [call EXCEPT ![c] = [@ EXCEPT !.pc = "commit", !.stage = dirty[call[c].tree]]]
  /\ UNCHANGED Quiet

\* commitAll: git commit, on the branch or on a detached HEAD.
Commits(c) ==
  /\ call[c].pc = "commit"
  /\ call[c].stage # {}
  /\ LET t == call[c].tree
     IN /\ Create({Tip(t)}, call[c].stage)
        /\ HeadMoves(t, next)
        /\ dirty' = [dirty EXCEPT ![t] = @ \ call[c].stage]
  /\ told' = told \cup call[c].asked
  /\ Succeeds(c)
  /\ UNCHANGED <<origin, cache, on, added, made, acked>>

\* git commit: nothing to commit, which is a success.
CommitsNothing(c) ==
  /\ call[c].pc = "commit"
  /\ call[c].stage = {}
  /\ told' = told \cup call[c].asked
  /\ Succeeds(c)
  /\ UNCHANGED <<graph, refs, heads, edits, acked>>

-----------------------------------------------------------------------------
(* Failures. *)

\* A git command or a read of a merge fails without effect, also the checkout
\* and the trial merge that uncommitted edits stand in the way of.
MergeFails(c) ==
  /\ \/ "failure" \in Mishaps
     \/ call[c].pc = "checkout" /\ MayRefuse(call[c].tree, call[c].base)
     \/ call[c].pc = "merge" /\ MayRefuse(call[c].tree, branch)
  /\ call[c].op = "merge"
  /\ call[c].pc \notin {"idle", "finally"}
  /\ IF call[c].pc \in Borrowing THEN Ends(c, "failed") ELSE Returns(c)
  /\ UNCHANGED Quiet

\* The process dies and starts again: refs, worktrees and files survive.
Restart ==
  /\ "restart" \in Mishaps
  /\ call' = [c \in Caller |-> NoCall]
  /\ running' = {}
  /\ UNCHANGED <<graph, refs, heads, edits, reports>>

\* The agent checks its branch out by hand.
Reattaches ==
  /\ on = {}
  /\ \A c \in Caller : call[c].pc \notin Borrowing
  /\ on' = {"wing"}
  /\ UNCHANGED <<graph, refs, at, added, edits, call, running, reports>>

-----------------------------------------------------------------------------
Init ==
  /\ ops \in Programs
  /\ hist = [c \in Commit |-> IF c = Root THEN {Root} ELSE {}]
  /\ holds = [c \in Commit |-> {}]
  /\ next = 1
  /\ origin = Root
  /\ cache = Root
  /\ branch = Root
  /\ on = {"wing"}
  /\ at = [t \in Tree |-> Root]
  /\ added = FALSE
  /\ made = {}
  /\ dirty = [t \in Tree |-> {}]
  /\ call = [c \in Caller |-> NoCall]
  /\ running = {}
  /\ told = {}
  /\ acked = {}

MovementSteps(c) == Resolves(c) \/ Lists(c) \/ Adds(c) \/ AddFails(c)

MergeSteps(c) == \/ MergeLooks(c) \/ Fetches(c) \/ RebaseMoves(c) \/ RebaseReplays(c)
                 \/ Begins(c) \/ AttemptsUpToDate(c) \/ Attempts(c)
                 \/ ChecksOut(c) \/ MergeNames(c)
                 \/ Merges(c) \/ MergesNothing(c) \/ MergeConflicts(c) \/ ReadsHash(c)
                 \/ Pushes(c) \/ PushUnanswered(c) \/ PushRejected(c)
                 \/ Advances(c) \/ Forwards(c) \/ ForwardFails(c)
                 \/ SwitchesBack(c) \/ SwitchFails(c) \/ MergeFails(c)

CommitSteps(c) == \/ CommitsNoop(c) \/ CommitLooks(c) \/ Coalesces(c)
                  \/ CommitAccepted(c) \/ CommitFails(c)
                  \/ Stages(c) \/ Commits(c) \/ CommitsNothing(c)

Next == /\ UNCHANGED ops
        /\ \/ \E e \in Edit : Edits(e)
           \/ \E c \in Caller : \/ \E op \in ops[c] : Calls(c, op)
                                \/ MovementSteps(c) \/ MergeSteps(c) \/ CommitSteps(c)
           \/ RemotePush
           \/ Restart
           \/ Reattaches

Spec == Init /\ [][Next]_vars

-----------------------------------------------------------------------------
(* Properties. *)

\* Every variable keeps its shape.
TypeOK ==
  /\ ops \in Programs
  /\ hist \in [Commit -> SUBSET Commit]
  /\ holds \in [Commit -> SUBSET Edit]
  /\ next \in 1 .. MaxCommit + 1
  /\ {origin, cache, branch} \subseteq Commit
  /\ on \subseteq Tree
  /\ at \in [Tree -> Commit]
  /\ added \in BOOLEAN
  /\ made \subseteq Edit
  /\ dirty \in [Tree -> SUBSET Edit]
  /\ call \in [Caller -> Call]
  /\ running \subseteq Caller
  /\ told \subseteq made
  /\ acked \subseteq Commit

\* DiskMovement.merge's comment: a finally always lands the worktree back on
\* its branch, "never left detached, on every exit path".  Whenever no merge
\* is between its checkout and its finally, the wing is on its branch.
HeadBack == (\A c \in Caller : call[c].pc \notin Borrowing) => "wing" \in on

\* What can keep it from its branch is a worktree that was added on the branch
\* meanwhile, the end of the process, or a checkout of the finally that fails,
\* and nothing else: not a lost race, a conflict, a lost answer, or whatever
\* failed before it.  And a finally that fails makes the call fail: no
\* merge is reported as landed, or tried again, unless its own worktree is back.
HeadComesBack ==
  [][/\ HeadBack => HeadBack' \/ added' \/ Restart \/ \E c \in Caller : SwitchFails(c)
     /\ \A c \in Caller : call[c].pc = "finally" /\ call'[c].pc # "finally" =>
          call[c].tree \in on' \/ (call'[c] = NoCall /\ acked' = acked)]_vars

\* movement commit "commits ALL files in the worktree": when a commit was
\* reported, every edit made before the call is on the movement branch or on
\* the published trunk, and stays there through rebases, merges, retries and
\* the moves of branch and HEAD that they make.  A call that joined another's
\* commit is promised that commit only, so its own edits do not count.
WorkKept == told \subseteq holds[branch] \cup holds[origin]

\* movement merge "merges the movement branch into main": a tip reported as
\* merged is on the published trunk, nothing published is ever lost, and the
\* local trunk, which a merge builds on, has nothing that is not published.
Landed == acked \subseteq hist[origin]
Ledger == INSTANCE TrunkLedger WITH history <- hist[origin], copy <- hist[cache]
ImplementsLedger == Ledger!Spec
=============================================================================
