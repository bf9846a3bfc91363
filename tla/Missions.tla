------------------------------- MODULE Missions -------------------------------
(***************************************************************************)
(* Missions, the minions they spawn and the questions they ask.            *)
(*                                                                         *)
(* MissionService starts a mission's script in the background, buffers its *)
(* events and keeps a status for those who poll; startAndWait is told the  *)
(* first event that ends the mission.  A script is any Effect: it spawns   *)
(* minions and asks the overlord questions, several at once if it likes,   *)
(* may end while some of that is under way (nothing aborts it), and may    *)
(* leave a fiber or a listener behind that goes on using its context.      *)
(* Questions live in one queue of the process, shared with the agents' ask *)
(* tool, whose `await` may wait for any question.  Each call posts at most *)
(* one question, which has its name.  Nothing here is persisted.           *)
(***************************************************************************)
EXTENDS FiniteSets

CONSTANTS Mission,  \* mission runs
          Call,     \* calls of ask, by scripts and by agents
          Minion,   \* bound: the minions that scripts spawn
          Agent,    \* who calls the ask tool
          None

ASSUME MissionsAssumption ==
  /\ Agent \notin Mission
  /\ None \notin Call \cup {"running", "completed", "failed", "open", "answered", "cancelled"}

VARIABLES
  script,     \* the Effect of m: not started, running or over
  status,     \* tracked.status, what a poll is answered
  told,       \* what startAndWait was told
  cancelled,  \* handles that were cancelled
  listed,     \* runningMissions
  minion,     \* minion[s]: whose it is, and how it is
  tracked,    \* tracked[m]: spawnedMinions of m's context
  question,   \* question[q]: its status in the queue
  waiter,     \* answerWaiters: who is resolved when q is settled
  pending,    \* pendingQuestions of the bridge
  call,       \* call[c]: the call in progress
  replaced    \* calls that another wait for the same question displaced

lives == <<script, status, told, cancelled, listed>>
minions == <<minion, tracked>>
questions == <<question, waiter, pending, call, replaced>>
vars == <<lives, minions, questions>>

-----------------------------------------------------------------------------
Settled == {"answered", "cancelled"}

AskCall == [pc : {"idle", "content", "posted", "wait", "told", "done"},
            by : Mission \cup {Agent},
            on : Call,                      \* the question it waits for
            result : Settled \cup {None}]

NoCall(c) == [pc |-> "idle", by |-> Agent, on |-> c, result |-> None]

AMinion == [pc : {"none", "spawning", "live", "dead"}, by : Mission]

\* The asks of m's script that have not come back.
Asking(m) == {c \in Call : call[c].by = m /\ call[c].pc \in {"content", "wait", "told"}}

\* Who has m's context: its script, and what that has left running at its end.
Acts(m) == script[m] # "none"

\* Mutant: startAndWait listens to completed only.
EmitsToHopeful(m, type) ==
  /\ status' = [status EXCEPT ![m] = type]
  /\ told' = [told EXCEPT ![m] = IF @ = None /\ type = "completed" THEN type ELSE @]

\* MissionHandle.emit of an event that ends m: the service's listener keeps
\* the status, startAndWait's promise only its first settlement.
Emits(m, type) ==
  /\ status' = [status EXCEPT ![m] = type]
  /\ told' = [told EXCEPT ![m] = IF @ = None THEN type ELSE @]

\* killAllMinions
KillsAll(m) ==
  /\ minion' = [s \in Minion |-> IF s \in tracked[m] THEN [minion[s] EXCEPT !.pc = "dead"]
                                 ELSE minion[s]]
  /\ tracked' = [tracked EXCEPT ![m] = {}]

-----------------------------------------------------------------------------
(* MissionService and DefaultMissionRunner. *)

\* start: the service listens before the script's first event.
Starts(m) ==
  /\ script[m] = "none"
  /\ script' = [script EXCEPT ![m] = "running"]
  /\ status' = [status EXCEPT ![m] = "running"]
  /\ listed' = listed \cup {m}
  /\ UNCHANGED <<told, cancelled, minions, questions>>

\* A script may announce its end itself, whatever it was, and goes on.
ScriptEmits(m) ==
  /\ Acts(m)
  /\ \E type \in {"completed", "failed", "cancelled"} : Emits(m, type)
  /\ UNCHANGED <<script, cancelled, listed, minions, questions>>

Cleanup(m) ==
  /\ script' = [script EXCEPT ![m] = "over"]
  /\ KillsAll(m)
  /\ listed' = listed \ {m}
  /\ UNCHANGED <<cancelled, questions>>

\* The Effect is over, be it with asks or spawns under way.
MayEnd(m) == script[m] = "running"

\* Mutant: only missions that are still listed are cleaned up.
ScriptSucceedsIfListed(m) ==
  /\ MayEnd(m)
  /\ IF m \in listed THEN Emits(m, "completed") /\ Cleanup(m)
     ELSE /\ script' = [script EXCEPT ![m] = "over"]
          /\ UNCHANGED <<status, told, cancelled, listed, minions, questions>>

\* Mutant: completion is announced for cancelled missions too.
ScriptSucceedsLoudly(m) == MayEnd(m) /\ Emits(m, "completed") /\ Cleanup(m)

\* executeMission: completed is emitted while the mission is listed, whatever
\* the script has announced.
ScriptSucceeds(m) ==
  /\ MayEnd(m)
  /\ IF m \in listed THEN Emits(m, "completed") ELSE UNCHANGED <<status, told>>
  /\ Cleanup(m)

\* executeMission: failed is emitted in any case.
ScriptFails(m) == MayEnd(m) /\ Emits(m, "failed") /\ Cleanup(m)

\* Mutant: the service passes every cancellation on.
CancelsAny(m) ==
  /\ m \in listed
  /\ cancelled' = cancelled \cup {m}
  /\ Emits(m, "cancelled")
  /\ KillsAll(m)
  /\ listed' = listed \ {m}
  /\ UNCHANGED <<script, questions>>

\* MissionService.cancel refuses a mission whose status says it has ended;
\* the script itself is not interrupted.
Cancels(m) ==
  /\ status[m] = "running"
  /\ m \in listed
  /\ cancelled' = cancelled \cup {m}
  /\ Emits(m, "cancelled")
  /\ KillsAll(m)
  /\ listed' = listed \ {m}
  /\ UNCHANGED <<script, questions>>

-----------------------------------------------------------------------------
(* DefaultMissionContext.spawn. *)

Spawns(m, s) ==
  /\ Acts(m)
  /\ minion[s].pc = "none"
  /\ minion' = [minion EXCEPT ![s] = [pc |-> "spawning", by |-> m]]
  /\ UNCHANGED <<lives, tracked, questions>>

\* The hatchery is done, and the minion is tracked, be the script over or not.
Spawned(s) ==
  /\ minion[s].pc = "spawning"
  /\ minion' = [minion EXCEPT ![s].pc = "live"]
  /\ tracked' = [tracked EXCEPT ![minion[s].by] = @ \cup {s}]
  /\ UNCHANGED <<lives, questions>>

\* The hatchery fails, or a listener does and the new minion is killed.
SpawnFails(s) ==
  /\ minion[s].pc = "spawning"
  /\ minion' = [minion EXCEPT ![s].pc = "dead"]
  /\ UNCHANGED <<lives, tracked, questions>>

-----------------------------------------------------------------------------
(* QuestionQueue. *)

\* Mutant: the wait does not look whether the question is settled.
WaitsBlindly(c, q) ==
  /\ waiter' = [waiter EXCEPT ![q] = c]
  /\ call' = [call EXCEPT ![c] = [@ EXCEPT !.pc = "wait", !.on = q]]
  /\ replaced' = replaced \cup ({waiter[q]} \ {None})

\* waitForAnswer(q): a later wait takes the earlier one's place.
Waits(c, q) ==
  IF question[q] \in Settled
  THEN /\ call' = [call EXCEPT ![c] = [@ EXCEPT !.pc = "told", !.on = q, !.result = question[q]]]
       /\ UNCHANGED <<waiter, replaced>>
  ELSE /\ waiter' = [waiter EXCEPT ![q] = c]
       /\ call' = [call EXCEPT ![c] = [@ EXCEPT !.pc = "wait", !.on = q]]
       /\ replaced' = replaced \cup ({waiter[q]} \ {None})

\* answer and cancel: the question's waiter is told.
Settles(q, how) ==
  /\ question' = [question EXCEPT ![q] = how]
  /\ waiter' = [waiter EXCEPT ![q] = None]
  /\ call' = [c \in Call |-> IF c = waiter[q]
                             THEN [call[c] EXCEPT !.pc = "told", !.result = how]
                             ELSE call[c]]
  /\ UNCHANGED replaced

\* The overlord answers an open question.
Answers(q) ==
  /\ question[q] = "open"
  /\ Settles(q, "answered")
  /\ UNCHANGED <<lives, minions, pending>>

-----------------------------------------------------------------------------
(* CabinetQuestionBridge, for scripts. *)

Asks(m, c) ==
  /\ Acts(m)
  /\ call[c].pc = "idle"
  /\ call' = [call EXCEPT ![c] = [@ EXCEPT !.pc = "content", !.by = m]]
  /\ UNCHANGED <<lives, minions, question, waiter, pending, replaced>>

\* resolveAskContent is done: add, pendingQuestions.set and waitForAnswer run
\* without a break.
Posts(c) ==
  /\ call[c].pc = "content"
  /\ call[c].by # Agent
  /\ question' = [question EXCEPT ![c] = "open"]
  /\ pending' = [pending EXCEPT ![call[c].by] = c]
  /\ waiter' = [waiter EXCEPT ![c] = c]
  /\ call' = [call EXCEPT ![c].pc = "wait"]
  /\ UNCHANGED <<lives, minions, replaced>>

\* resolveAskContent throws, for a script or an agent.
PostFails(c) ==
  /\ call[c].pc = "content"
  /\ call' = [call EXCEPT ![c].pc = "done"]
  /\ UNCHANGED <<lives, minions, question, waiter, pending, replaced>>

\* The finally of ask, and who asked has the answer or the error.
Returns(c) ==
  /\ call[c].pc = "told"
  /\ call' = [call EXCEPT ![c].pc = "done"]
  /\ pending' = IF call[c].by = Agent THEN pending
                ELSE [pending EXCEPT ![call[c].by] = None]
  /\ UNCHANGED <<lives, minions, question, waiter, replaced>>

\* Mutant: the entry is deleted and the question only marked.
CancelsQuietly(m) ==
  /\ pending[m] # None
  /\ question' = [question EXCEPT ![pending[m]] = "cancelled"]
  /\ pending' = [pending EXCEPT ![m] = None]
  /\ UNCHANGED <<lives, minions, waiter, call, replaced>>

\* cancel(missionRunId): queue.cancel asks not what the status was.
CancelsQuestion(m) ==
  /\ pending[m] # None
  /\ Settles(pending[m], "cancelled")
  /\ pending' = [pending EXCEPT ![m] = None]
  /\ UNCHANGED <<lives, minions>>

-----------------------------------------------------------------------------
(* The ask tool, for agents: blocking is nonblocking and then await. *)

AgentAsks(c) ==
  /\ call[c].pc = "idle"
  /\ call' = [call EXCEPT ![c].pc = "content"]
  /\ UNCHANGED <<lives, minions, question, waiter, pending, replaced>>

AgentPosts(c) ==
  /\ call[c].pc = "content"
  /\ call[c].by = Agent
  /\ question' = [question EXCEPT ![c] = "open"]
  /\ \/ call' = [call EXCEPT ![c].pc = "posted"]   \* blocking
     \/ call' = [call EXCEPT ![c].pc = "done"]     \* nonblocking
  /\ UNCHANGED <<lives, minions, waiter, pending, replaced>>

\* blocking goes on to wait for its own question; await for any.
AgentAwaits(c, q) ==
  /\ \/ call[c].pc = "posted" /\ q = c
     \/ call[c].pc = "idle" /\ question[q] # None
  /\ Waits(c, q)
  /\ UNCHANGED <<lives, minions, question, pending>>

-----------------------------------------------------------------------------
Init ==
  /\ script = [m \in Mission |-> "none"]
  /\ status = [m \in Mission |-> None]
  /\ told = [m \in Mission |-> None]
  /\ cancelled = {}
  /\ listed = {}
  /\ minion \in {[s \in Minion |-> [pc |-> "none", by |-> m]] : m \in Mission}
  /\ tracked = [m \in Mission |-> {}]
  /\ question = [q \in Call |-> None]
  /\ waiter = [q \in Call |-> None]
  /\ pending = [m \in Mission |-> None]
  /\ call = [c \in Call |-> NoCall(c)]
  /\ replaced = {}

Lives(m) == \/ Starts(m) \/ ScriptEmits(m) \/ ScriptSucceeds(m) \/ ScriptFails(m) \/ Cancels(m)
            \/ CancelsQuestion(m)

\* What the code does by itself, once the script or an agent has called.
Proceeds(c) == Posts(c) \/ PostFails(c) \/ Returns(c) \/ AgentPosts(c) \/ AgentAwaits(c, c)

Next == \/ \E m \in Mission : \/ Lives(m)
                              \/ \E s \in Minion : Spawns(m, s)
                              \/ \E c \in Call : Asks(m, c)
        \/ \E s \in Minion : Spawned(s) \/ SpawnFails(s)
        \/ \E c \in Call : \/ AgentAsks(c) \/ Proceeds(c) \/ Answers(c)
                           \/ \E q \in Call : AgentAwaits(c, q)

Spec == Init /\ [][Next]_vars

-----------------------------------------------------------------------------
(* Properties. *)

\* Every variable keeps its shape, and startAndWait has been told something
\* exactly when the mission's status says that it has ended.
TypeOK ==
  /\ \A m \in Mission : told[m] = None <=> status[m] \in {None, "running"}
  /\ script \in [Mission -> {"none", "running", "over"}]
  /\ status \in [Mission -> {None, "running", "completed", "failed", "cancelled"}]
  /\ told \in [Mission -> {None, "completed", "failed", "cancelled"}]
  /\ cancelled \subseteq Mission
  /\ listed \subseteq Mission
  /\ minion \in [Minion -> AMinion]
  /\ tracked \in [Mission -> SUBSET Minion]
  /\ question \in [Call -> {None, "open"} \cup Settled]
  /\ waiter \in [Call -> Call \cup {None}]
  /\ pending \in [Mission -> Call \cup {None}]
  /\ call \in [Call -> AskCall]
  /\ replaced \subseteq Call

\* IMissionRunner: "killing spawned minions on completion".  The end of a script
\* and a cancellation kill every minion the mission has, those included that
\* came alive between the cancellation and the end.  One whose spawn is under
\* way is only killed by the next of the two, and outlives the script if its
\* spawn does.
KilledAtEnd ==
  [][\A s \in Minion : LET m == minion[s].by IN
       /\ minion[s].pc = "live"
       /\ \/ script[m] = "running" /\ script'[m] = "over"
          \/ m \in cancelled' \ cancelled
       => minion'[s].pc = "dead"]_vars

\* startAndWait is not told of a success that a cancellation took back: a
\* mission it calls completed was never cancelled, before or since.
FirstWordStands == \A m \in Mission : told[m] = "completed" => m \notin cancelled

\* Nobody waits for a question that has been settled, unless a later wait for
\* the same question took its place (waitForAnswer keeps one waiter).
Unforgotten ==
  \A c \in Call : call[c].pc = "wait" /\ c \notin replaced
    => question[call[c].on] = "open" /\ waiter[call[c].on] = c

\* bridge.cancel "causes the ask() promise to reject": a mission that asks one
\* question at a time is never left waiting by it.
CancelReaches ==
  [][\A m \in Mission, c \in Call :
       CancelsQuestion(m) /\ Asking(m) = {c} /\ c \notin replaced => call'[c].pc # "wait"]_vars

\* Once the overlord has cancelled a mission it is not reported as completed,
\* unless its script says so itself; it may well be reported as failed.
CancelledStays ==
  [][\A m \in cancelled : status[m] # "completed" /\ status'[m] = "completed"
       => ScriptEmits(m)]_vars
=============================================================================
