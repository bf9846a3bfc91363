----------------------------- MODULE MirrorApply -----------------------------
(***************************************************************************)
(* How plan bookkeeping is written straight to the trunk.                  *)
(*                                                                         *)
(* Mirror.apply runs a transform on one shared worktree, the mirror, and   *)
(* publishes what it changed: sync the mirror to the local trunk, run the  *)
(* transform, commit, push without force, and on a lost race fetch and     *)
(* start over.  Applies of one mirror are queued.  Reads of the mirror     *)
(* sync the same worktree and are not queued.                              *)
(*                                                                         *)
(* The transforms are those of claim-node and unclaim-node: check who has  *)
(* the node, read claims.toml, write claims.toml.  Every node is in        *)
(* content.toml, so that pruning dangling claims finds nothing to remove.  *)
(* The local trunk belongs to TrunkPublish; here it is any commit of the   *)
(* published trunk, which is what TrunkPublish's LocalNeverAhead says.     *)
(***************************************************************************)
EXTENDS Naturals, Sequences, FiniteSets

CONSTANTS Wing,         \* the wings whose agents claim nodes
          Reader,       \* concurrent reads of the mirror
          Node,         \* plan nodes, one claims.toml entry each
          Nobody,
          Elsewhere,    \* a wing on another machine
          MaxCommit,    \* bound: commits are 0 .. MaxCommit
          MaxAttempts,  \* runAttempts' maxAttempts
          Settings      \* what there is around the calls, each a record

Commit == 0 .. MaxCommit

ASSUME MirrorAssumption ==
  /\ MaxCommit \in Nat
  /\ MaxAttempts \in Nat \ {0}
  /\ Nobody \notin Wing
  /\ Elsewhere \notin Wing \cup {Nobody}
  /\ Wing \cap Reader = {}
  /\ Node # {}
  /\ Settings \subseteq [mishaps : SUBSET {"remote", "failure", "leftover", "restart"},
                         nodes   : SUBSET Node,
                         readers : SUBSET Reader,
                         commits : Commit]

Root == 0
Owner == Wing \cup {Elsewhere}
Claims == [Node -> Owner \cup {Nobody}]
Unclaimed == [n \in Node |-> Nobody]

VARIABLES
  setting,  \* which setting it is, from the start on
  hist,     \* hist[c]: the commits reachable from c, c included
  claims,   \* claims[c]: claims.toml in commit c
  next,     \* commits 0 .. next - 1 exist
  origin,   \* tip of the trunk on origin
  cache,    \* refs/heads/<trunk> of the bare repository
  head,     \* the mirror branch, checked out in the mirror
  files,    \* claims.toml on disk in the mirror
  call,     \* call[w]: the apply of w in progress
  queue,    \* applyQueue of the mirror's path: wings, FIFO
  read,     \* read[r]: the read of r in progress
  holds,    \* <<w, n>>: w was told that it has claimed n
  acked     \* commits reported as landed (committed: true)

graph == <<hist, claims, next>>
mirror == <<head, files>>
vars == <<setting, hist, claims, next, origin, cache, head, files, call, queue, read, holds, acked>>

-----------------------------------------------------------------------------
Step == {"idle", "queued", "look", "compare", "reset", "check", "load", "store",
         "status", "commit", "push", "advance", "fetch", "realign"}

Call == [pc    : Step,
         op    : {"claim", "unclaim"},
         node  : Node,
         want  : Commit,          \* trunkTip, then the tip that was fetched
         view  : Claims,          \* what setClaimedBy read
         cand  : Commit,          \* commitHash
         tries : 0 .. MaxAttempts]  \* 0: ensureWorktree's own sync

Read == [pc : {"idle", "compare", "reset"}, want : Commit]

NewCall(pc, op, n) == [pc |-> pc, op |-> op, node |-> n, want |-> Root,
                       view |-> Unclaimed, cand |-> Root, tries |-> 0]
NoCall == NewCall("idle", "claim", CHOOSE n \in Node : TRUE)
NoRead == [pc |-> "idle", want |-> Root]

\* Of a setting: what happens, the nodes that are claimed, the reads that are
\* made, and the last commit.
Mishaps == setting.mishaps

\* Nobody reads the mirror, and no apply ends with its write still in it.
Calm == setting.readers = {} /\ "leftover" \notin Mishaps

\* A commit on parent with these claims gets the next free id.
Create(parent, content) ==
  /\ next \in 0 .. setting.commits
  /\ hist' = [hist EXCEPT ![next] = {next} \cup hist[parent]]
  /\ claims' = [claims EXCEPT ![next] = content]
  /\ next' = next + 1

Dirty == files # claims[head]

\* Mutant: the push is made with --force.
AcceptsForced(c) == TRUE

\* GitOperations.pushRefCas: origin takes c without force.
Accepts(c) == origin \in hist[c]

\* The next attempt starts from nothing.
Again(c) == [NewCall("look", c.op, c.node) EXCEPT !.tries = c.tries + 1]

GoesTo(w, pc) == call' = [call EXCEPT ![w].pc = pc]

\* The apply of w ends, and applyQueue lets the next one in.
Returns(w) ==
  LET rest == Tail(queue)
  IN /\ queue' = rest
     /\ call' = [v \in Wing |->
                   IF v = w THEN NoCall
                   ELSE IF rest # <<>> /\ v = Head(rest) THEN [call[v] EXCEPT !.pc = "look"]
                   ELSE call[v]]

-----------------------------------------------------------------------------
(* Everyone else on the trunk. *)

\* Another machine lands something: a merge, a claim or a release of its own.
RemotePush ==
  /\ "remote" \in Mishaps
  /\ \E c \in {claims[origin]}
            \cup {[claims[origin] EXCEPT ![n] = Elsewhere] :
                     n \in {m \in setting.nodes : claims[origin][m] = Nobody}}
            \cup {[claims[origin] EXCEPT ![n] = Nobody] :
                     n \in {m \in setting.nodes : claims[origin][m] = Elsewhere}} :
       Create(origin, c)
  /\ origin' = next
  /\ UNCHANGED <<cache, mirror, call, queue, read, holds, acked>>

\* A wing's movement moves the local trunk, as TrunkPublish lets it.
TrunkMoves ==
  /\ \E c \in hist[origin] : cache' = c
  /\ UNCHANGED <<graph, origin, mirror, call, queue, read, holds, acked>>

-----------------------------------------------------------------------------
(* syncToTrunkTip, outside applyQueue: a fresh Mirror's files are read. *)

\* trunkTip is read.
ReadLooks(r) ==
  /\ read[r].pc = "idle"
  /\ read' = [read EXCEPT ![r] = [pc |-> "compare", want |-> cache]]
  /\ UNCHANGED <<graph, origin, cache, mirror, call, queue, holds, acked>>

\* mirrorTip is read; when it is the trunk's tip there is nothing to do.
ReadCompares(r) ==
  /\ read[r].pc = "compare"
  /\ read' = [read EXCEPT ![r] = IF head = read[r].want THEN NoRead
                                 ELSE [@ EXCEPT !.pc = "reset"]]
  /\ UNCHANGED <<graph, origin, cache, mirror, call, queue, holds, acked>>

\* git reset --hard <trunkTip>
ReadResets(r) ==
  /\ read[r].pc = "reset"
  /\ head' = read[r].want
  /\ files' = claims[read[r].want]
  /\ read' = [read EXCEPT ![r] = NoRead]
  /\ UNCHANGED <<graph, origin, cache, call, queue, holds, acked>>

-----------------------------------------------------------------------------
(* claim-node and unclaim-node, over Mirror.apply. *)

\* Mutant: the applies of one mirror are not queued.
CallsAtOnce(w, op, n) ==
  /\ call[w].pc = "idle"
  /\ queue' = Append(queue, w)
  /\ call' = [call EXCEPT ![w] = NewCall("look", op, n)]
  /\ holds' = IF op = "unclaim" THEN holds \ {<<w, n>>} ELSE holds
  /\ UNCHANGED <<graph, origin, cache, mirror, read, acked>>

\* withMirrorApplySerialization: the call waits for the applies before it.
\* A wing that releases a node no longer counts on it.
Calls(w, op, n) ==
  /\ call[w].pc = "idle"
  /\ queue' = Append(queue, w)
  /\ call' = [call EXCEPT ![w] = NewCall(IF queue = <<>> THEN "look" ELSE "queued", op, n)]
  /\ holds' = IF op = "unclaim" THEN holds \ {<<w, n>>} ELSE holds
  /\ UNCHANGED <<graph, origin, cache, mirror, read, acked>>

\* syncToTrunkTip: trunkTip is read.
Looks(w) ==
  /\ call[w].pc = "look"
  /\ call' = [call EXCEPT ![w] = [@ EXCEPT !.pc = "compare", !.want = cache]]
  /\ UNCHANGED <<graph, origin, cache, mirror, queue, read, holds, acked>>

\* ensureWorktree syncs once, then every attempt syncs again.
Synced(c) == IF c.tries = 0 THEN Again(c)
             ELSE [c EXCEPT !.pc = "check", !.want = Root]

\* syncToTrunkTip: the mirror is left alone when its tip is the trunk's.
Compares(w) ==
  /\ call[w].pc = "compare"
  /\ call' = [call EXCEPT ![w] = IF head = call[w].want THEN Synced(@)
                                 ELSE [@ EXCEPT !.pc = "reset"]]
  /\ UNCHANGED <<graph, origin, cache, mirror, queue, read, holds, acked>>

\* Mutant: git reset --soft <trunkTip>
ResetsSoft(w) ==
  /\ call[w].pc = "reset"
  /\ head' = call[w].want
  /\ call' = [call EXCEPT ![w] = Synced(@)]
  /\ UNCHANGED <<graph, origin, cache, files, queue, read, holds, acked>>

\* syncToTrunkTip: git reset --hard <trunkTip>
Resets(w) ==
  /\ call[w].pc = "reset"
  /\ head' = call[w].want
  /\ files' = claims[call[w].want]
  /\ call' = [call EXCEPT ![w] = Synced(@)]
  /\ UNCHANGED <<graph, origin, cache, queue, read, holds, acked>>

\* The transform refuses: the node is taken, or not the caller's to release.
Allowed(w) == files[call[w].node] = IF call[w].op = "claim" THEN Nobody ELSE w

ChecksRefuse(w) ==
  /\ call[w].pc = "check"
  /\ ~Allowed(w)
  /\ Returns(w)
  /\ UNCHANGED <<graph, origin, cache, mirror, read, holds, acked>>

\* The transform goes on: store.getItem showed the node free, or the caller's.
ChecksPass(w) ==
  /\ call[w].pc = "check"
  /\ Allowed(w)
  /\ GoesTo(w, "load")
  /\ UNCHANGED <<graph, origin, cache, mirror, queue, read, holds, acked>>

\* setClaimedBy: claims.toml is read,
Loads(w) ==
  /\ call[w].pc = "load"
  /\ call' = [call EXCEPT ![w] = [@ EXCEPT !.pc = "store", !.view = files]]
  /\ UNCHANGED <<graph, origin, cache, mirror, queue, read, holds, acked>>

\* changed and written back.
Stores(w) ==
  /\ call[w].pc = "store"
  /\ files' = [call[w].view EXCEPT ![call[w].node] =
                 IF call[w].op = "claim" THEN w ELSE Nobody]
  /\ call' = [call EXCEPT ![w] = [@ EXCEPT !.pc = "status", !.view = Unclaimed]]
  /\ UNCHANGED <<graph, origin, cache, head, queue, read, holds, acked>>

\* A claim's success is reported, whether or not anything was committed.
Reports(w) == holds' = IF call[w].op = "claim" THEN holds \cup {<<w, call[w].node>>}
                       ELSE holds

\* isDirty: nothing changed, so nothing is published; the result stands.
StatusClean(w) ==
  /\ call[w].pc = "status"
  /\ ~Dirty
  /\ Reports(w)
  /\ Returns(w)
  /\ UNCHANGED <<graph, origin, cache, mirror, read, acked>>

StatusDirty(w) ==
  /\ call[w].pc = "status"
  /\ Dirty
  /\ GoesTo(w, "commit")
  /\ UNCHANGED <<graph, origin, cache, mirror, queue, read, holds, acked>>

\* commitAll: git add -A; git commit
Commits(w) ==
  /\ call[w].pc = "commit"
  /\ Dirty
  /\ Create(head, files)
  /\ head' = next
  /\ call' = [call EXCEPT ![w] = [@ EXCEPT !.pc = "push", !.cand = next]]
  /\ UNCHANGED <<origin, cache, files, queue, read, holds, acked>>

\* git commit with nothing to commit fails, and apply throws.
CommitsNothing(w) ==
  /\ call[w].pc = "commit"
  /\ ~Dirty
  /\ Returns(w)
  /\ UNCHANGED <<graph, origin, cache, mirror, read, holds, acked>>

\* pushRefCas is accepted.
Pushes(w) ==
  /\ call[w].pc = "push"
  /\ Accepts(call[w].cand)
  /\ origin' = call[w].cand
  /\ GoesTo(w, "advance")
  /\ UNCHANGED <<graph, cache, mirror, queue, read, holds, acked>>

\* pushRefCas is accepted and the answer is lost: apply throws.
PushUnanswered(w) ==
  /\ "failure" \in Mishaps
  /\ call[w].pc = "push"
  /\ Accepts(call[w].cand)
  /\ origin' = call[w].cand
  /\ Returns(w)
  /\ UNCHANGED <<graph, cache, mirror, read, holds, acked>>

\* updateBranch(trunk, commitHash), and apply reports committed: true.
Advances(w) ==
  /\ call[w].pc = "advance"
  /\ cache' = call[w].cand
  /\ acked' = acked \cup {call[w].cand}
  /\ Reports(w)
  /\ Returns(w)
  /\ UNCHANGED <<graph, origin, mirror, read>>

-----------------------------------------------------------------------------
(* A lost race. *)

Rejected(w) == call[w].pc = "push" /\ ~Accepts(call[w].cand)

\* Mutant: one attempt too many.
LastTryLate(w) == call[w].tries > MaxAttempts

LastTry(w) == call[w].tries >= MaxAttempts

\* The last attempt is spent: PublishRejectedError.
GivesUp(w) ==
  /\ Rejected(w)
  /\ LastTry(w)
  /\ Returns(w)
  /\ UNCHANGED <<graph, origin, cache, mirror, read, holds, acked>>

\* fetchRefSinceGeneration knows a newer generation, or joins the fetch of a
\* movement, whose effect on the local trunk is TrunkMoves.
RetriesAtOnce(w) ==
  /\ Rejected(w)
  /\ ~LastTry(w)
  /\ call' = [call EXCEPT ![w] = Again(@)]
  /\ UNCHANGED <<graph, origin, cache, mirror, queue, read, holds, acked>>

\* fetchRefSinceGeneration runs doFetch: git fetch,
Fetches(w) ==
  /\ Rejected(w)
  /\ ~LastTry(w)
  /\ call' = [call EXCEPT ![w] = [@ EXCEPT !.pc = "realign", !.want = origin]]
  /\ UNCHANGED <<graph, origin, cache, mirror, queue, read, holds, acked>>

\* then git branch -f, and the transform is run again.
Realigns(w) ==
  /\ call[w].pc = "realign"
  /\ cache' = call[w].want
  /\ call' = [call EXCEPT ![w] = Again(@)]
  /\ UNCHANGED <<graph, origin, mirror, queue, read, holds, acked>>

-----------------------------------------------------------------------------
(* Failures. *)

\* A call that ends here leaves its transform's write in the mirror.
Unsaved(w) == call[w].pc \in {"status", "commit"}

Ending(w) == IF Unsaved(w) THEN "leftover" ELSE "failure"

\* A command or the transform fails without effect: apply throws.
Fails(w) ==
  /\ call[w].pc \notin {"idle", "queued"}
  /\ Ending(w) \in Mishaps
  /\ Returns(w)
  /\ UNCHANGED <<graph, origin, cache, mirror, read, holds, acked>>

\* The process dies and starts again: refs and files survive.
Restart ==
  /\ "restart" \in Mishaps
  /\ \A w \in Wing : Unsaved(w) => "leftover" \in Mishaps
  /\ call' = [w \in Wing |-> NoCall]
  /\ read' = [r \in Reader |-> NoRead]
  /\ queue' = <<>>
  /\ UNCHANGED <<graph, origin, cache, mirror, holds, acked>>

-----------------------------------------------------------------------------
Init ==
  /\ setting \in Settings
  /\ hist = [c \in Commit |-> IF c = Root THEN {Root} ELSE {}]
  /\ claims = [c \in Commit |-> Unclaimed]
  /\ next = 1
  /\ origin = Root
  /\ cache = Root
  /\ head = Root
  /\ files = Unclaimed
  /\ call = [w \in Wing |-> NoCall]
  /\ queue = <<>>
  /\ read = [r \in Reader |-> NoRead]
  /\ holds = {}
  /\ acked = {}

Applies(w) == \/ Looks(w) \/ Compares(w) \/ Resets(w)
              \/ ChecksRefuse(w) \/ ChecksPass(w) \/ Loads(w) \/ Stores(w)
              \/ StatusClean(w) \/ StatusDirty(w) \/ Commits(w) \/ CommitsNothing(w)
              \/ Pushes(w) \/ PushUnanswered(w) \/ Advances(w)
              \/ GivesUp(w) \/ RetriesAtOnce(w) \/ Fetches(w) \/ Realigns(w)
              \/ Fails(w)

Reads(r) == ReadLooks(r) \/ ReadCompares(r) \/ ReadResets(r)

Next == /\ UNCHANGED setting
        /\ \/ \E w \in Wing :
                \/ \E n \in setting.nodes : Calls(w, "claim", n) \/ Calls(w, "unclaim", n)
                \/ Applies(w)
           \/ \E r \in setting.readers : Reads(r)
           \/ RemotePush
           \/ TrunkMoves
           \/ Restart

Spec == Init /\ [][Next]_vars

-----------------------------------------------------------------------------
(* Properties. *)

\* Every variable keeps its shape; with LastTry, runAttempts never syncs or
\* runs the transform more often than its maxAttempts allows.
TypeOK ==
  /\ setting \in Settings
  /\ hist \in [Commit -> SUBSET Commit]
  /\ claims \in [Commit -> Claims]
  /\ next \in 1 .. MaxCommit + 1
  /\ {origin, cache, head} \subseteq Commit
  /\ files \in Claims
  /\ call \in [Wing -> Call]
  /\ queue \in Seq(Wing)
  /\ read \in [Reader -> Read]
  /\ holds \subseteq Wing \X Node
  /\ acked \subseteq Commit

\* withMirrorApplySerialization: whatever fails, whoever is queued and even
\* across a restart, the one apply that is past the queue is its head.
OneApply == \A w \in Wing : call[w].pc \notin {"idle", "queued"} => Head(queue) = w

\* The trunk keeps TrunkLedger's promise: an apply never takes back what was
\* pushed, the local trunk that the mirror syncs to never has anything else,
\* and "committed: true" is said only of a commit the trunk holds.
\* This stands whatever reads of the mirror, crashes and leftovers do.
Ledger == INSTANCE TrunkLedger WITH history <- hist[origin], copy <- hist[cache]
ImplementsLedger == Ledger!Spec

\* Claiming keeps ClaimRegistry's promise on the published trunk: two wings
\* never take one node from each other, and a wing told that it has claimed a
\* node owns it until it gives it back.  It needs that nobody reads the mirror
\* during an apply, and that no apply ends with its write in the mirror.
Registry == INSTANCE ClaimRegistry
              WITH owner <- IF Calm THEN claims[origin] ELSE Unclaimed,
                   holds <- IF Calm THEN holds ELSE {}
ImplementsRegistry == Registry!Spec

\* claim-node's help calls a claim atomic: it is committed and on the shared
\* trunk when the call returns, "so other agents see the claim", and
\* syncToTrunkTip's comment calls its reset safe at any time.
ClaimsKept == \A w \in Wing, n \in Node : <<w, n>> \in holds => claims[origin][n] = w

\* A claim writes all of claims.toml back, yet what it publishes changes the
\* entry of its own node only, whatever others claimed before, during and
\* between its attempts.
OnlyOwnNode ==
  [][\A w \in Wing : Calm /\ call[w].pc = "push" /\ origin' = call[w].cand
       => \A n \in Node \ {call[w].node} : (claims')[origin'][n] = claims[origin][n]]_vars

\* runAttempts' comment: every attempt runs the transform "again from scratch,
\* not resume from partial state": when the transform looks at the mirror,
\* nothing uncommitted is left there by an earlier attempt, or by an apply that
\* failed elsewhere than between its transform and its commit.
FromScratch == Calm => \A w \in Wing : call[w].pc = "check" => ~Dirty
=============================================================================
