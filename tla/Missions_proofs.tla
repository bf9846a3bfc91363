--------------------------- MODULE Missions_proofs ---------------------------
(***************************************************************************)
(* Proofs about Missions, for any sets of missions, calls and minions.     *)
(*                                                                         *)
(* None of the safety properties is inductive: FirstWordStands and         *)
(* CancelledStays rest on what startAndWait of a cancelled mission was     *)
(* told and on who is listed, KilledAtEnd on every live minion being       *)
(* tracked, Unforgotten and CancelReaches on when questions exist and on   *)
(* whose they are.  LivesInv, MinionInv and AskInv say so.                 *)
(***************************************************************************)
EXTENDS Missions, TLAPS

\* A script that has not started has no status; a cancelled mission was not
\* called completed and is no longer listed.
LivesInv ==
  \A m \in Mission :
    /\ script[m] = "none" => status[m] = None /\ m \notin listed
    /\ m \in cancelled => told[m] \notin {None, "completed"} /\ m \notin listed

\* A mission knows its live minions, those of a script that is over included.
MinionInv == \A s \in Minion : minion[s].pc = "live" => s \in tracked[minion[s].by]

\* A question exists once it was posted; a script waits for its own question;
\* what the bridge has pending is a question whose ask has not returned.
AskInv ==
  /\ \A c \in Call :
       /\ call[c].pc \in {"idle", "content"} => question[c] = None /\ call[c].on = c
       /\ call[c].pc = "posted" => question[c] # None
       /\ call[c].pc \in {"idle", "posted"} => call[c].by = Agent
       /\ call[c].by # Agent => call[c].on = c
  /\ \A m \in Mission : pending[m] # None =>
       /\ question[pending[m]] # None
       /\ call[pending[m]].by = m
       /\ call[pending[m]].pc \in {"wait", "told"}

IInv == TypeOK /\ LivesInv /\ MinionInv /\ AskInv /\ Unforgotten

-----------------------------------------------------------------------------
\* The steps that concern lives, minions and questions, apart.
LivesStep(m) == Starts(m) \/ ScriptEmits(m) \/ ScriptSucceeds(m) \/ ScriptFails(m) \/ Cancels(m)

SpawnStep == \/ \E m \in Mission, s \in Minion : Spawns(m, s)
             \/ \E s \in Minion : Spawned(s) \/ SpawnFails(s)

AskStep == \/ \E m \in Mission : CancelsQuestion(m) \/ \E c \in Call : Asks(m, c)
           \/ \E c \in Call : \/ Posts(c) \/ PostFails(c) \/ Returns(c) \/ Answers(c)
                              \/ AgentAsks(c) \/ AgentPosts(c)
                              \/ \E q \in Call : AgentAwaits(c, q)

\* Every step is one of these, or a stutter.
LEMMA Steps ==
  ASSUME [Next]_vars
  PROVE  \/ \E m \in Mission : LivesStep(m)
         \/ SpawnStep
         \/ AskStep
         \/ UNCHANGED vars
BY DEF Next, Lives, Proceeds, LivesStep, SpawnStep, AskStep

\* Spawning leaves the missions and the questions alone.
LEMMA SpawnFrame == ASSUME SpawnStep PROVE UNCHANGED <<lives, questions>>
BY DEF SpawnStep, Spawns, Spawned, SpawnFails, questions

\* So do questions with missions and minions.
LEMMA AskFrame == ASSUME AskStep PROVE UNCHANGED <<lives, minions>>
BY DEF AskStep, CancelsQuestion, Asks, Posts, PostFails, Returns, Answers, AgentAsks, AgentPosts,
       AgentAwaits

\* And missions with questions.
LEMMA LivesFrame == ASSUME NEW m, LivesStep(m) PROVE UNCHANGED questions
BY DEF LivesStep, Starts, ScriptEmits, ScriptSucceeds, ScriptFails, Cancels, Cleanup

-----------------------------------------------------------------------------
\* The part of TypeOK that is about missions, minions and questions.
LivesType ==
  /\ \A m \in Mission : told[m] = None <=> status[m] \in {None, "running"}
  /\ script \in [Mission -> {"none", "running", "over"}]
  /\ status \in [Mission -> {None, "running", "completed", "failed", "cancelled"}]
  /\ told \in [Mission -> {None, "completed", "failed", "cancelled"}]
  /\ cancelled \subseteq Mission
  /\ listed \subseteq Mission

MinionType == minion \in [Minion -> AMinion] /\ tracked \in [Mission -> SUBSET Minion]

AskType ==
  /\ question \in [Call -> {None, "open"} \cup Settled]
  /\ waiter \in [Call -> Call \cup {None}]
  /\ pending \in [Mission -> Call \cup {None}]
  /\ call \in [Call -> AskCall]
  /\ replaced \subseteq Call

LEMMA Types == TypeOK <=> LivesType /\ MinionType /\ AskType
BY DEF TypeOK, LivesType, MinionType, AskType

LEMMA LivesKept ==
  ASSUME LivesType, LivesInv, NEW m \in Mission, LivesStep(m)
  PROVE  LivesType' /\ LivesInv'
<1> USE MissionsAssumption DEF LivesType, LivesInv
<1>1. CASE Starts(m)
  BY <1>1 DEF Starts
<1>2. CASE ScriptEmits(m)
  BY <1>2 DEF ScriptEmits, Acts, Emits
<1>3. CASE ScriptSucceeds(m)
  BY <1>3 DEF ScriptSucceeds, MayEnd, Emits, Cleanup
<1>4. CASE ScriptFails(m)
  BY <1>4 DEF ScriptFails, MayEnd, Emits, Cleanup
<1>5. CASE Cancels(m)
  BY <1>5 DEF Cancels, Emits
<1> QED
  BY <1>1, <1>2, <1>3, <1>4, <1>5 DEF LivesStep

\* Killing the minions of one mission leaves those of the others as they are.
LEMMA KillsOwn ==
  ASSUME MinionType, NEW m \in Mission, KillsAll(m)
  PROVE  /\ MinionType'
         /\ \A s \in Minion : s \in tracked[m] => minion'[s].pc = "dead"
         /\ \A s \in Minion : s \notin tracked[m] => minion'[s] = minion[s]
         /\ \A n \in Mission \ {m} : tracked'[n] = tracked[n]
BY DEF KillsAll, MinionType, AMinion

LEMMA MinionsKept ==
  ASSUME MinionType, MinionInv, NEW m \in Mission, LivesStep(m)
  PROVE  MinionType' /\ MinionInv'
<1>1. CASE UNCHANGED minions
  BY <1>1 DEF minions, MinionType, MinionInv
<1>2. CASE KillsAll(m)
  BY <1>2, KillsOwn DEF MinionInv, MinionType, AMinion
<1> QED
  BY <1>1, <1>2 DEF LivesStep, Starts, ScriptEmits, ScriptSucceeds, ScriptFails, Cancels, Cleanup

LEMMA SpawnKept ==
  ASSUME MinionType, MinionInv, SpawnStep
  PROVE  MinionType' /\ MinionInv'
<1> USE DEF MinionType, MinionInv, AMinion
<1>1. CASE \E m \in Mission, s \in Minion : Spawns(m, s)
  BY <1>1 DEF Spawns
<1>2. CASE \E s \in Minion : Spawned(s)
  BY <1>2 DEF Spawned
<1>3. CASE \E s \in Minion : SpawnFails(s)
  BY <1>3 DEF SpawnFails
<1> QED
  BY <1>1, <1>2, <1>3 DEF SpawnStep

-----------------------------------------------------------------------------
\* What settling does to a call, field by field.
LEMMA Told ==
  ASSUME AskType, NEW q \in Call, NEW how \in Settled, Settles(q, how), NEW c \in Call
  PROVE  /\ call'[c] \in AskCall
         /\ call'[c].by = call[c].by /\ call'[c].on = call[c].on
         /\ c = waiter[q] => call'[c].pc = "told"
         /\ c # waiter[q] => call'[c].pc = call[c].pc
<1>1. call[c] \in AskCall
  BY DEF AskType
<1>2. CASE c = waiter[q]
  <2>1. call'[c] = [call[c] EXCEPT !.pc = "told", !.result = how]
    BY <1>2 DEF Settles
  <2> QED
    BY <1>1, <1>2, <2>1 DEF AskCall
<1>3. CASE c # waiter[q]
  BY <1>1, <1>3 DEF Settles
<1> QED
  BY <1>2, <1>3

\* Settling a question answers the one who waits for it, and nobody else.
LEMMA SettlesKept ==
  ASSUME AskType, AskInv, Unforgotten, NEW q \in Call, NEW how \in Settled,
         question[q] # None, Settles(q, how),
         pending' \in [Mission -> Call \cup {None}],
         \A m \in Mission : pending'[m] \in {pending[m], None}
  PROVE  AskType' /\ AskInv' /\ Unforgotten'
<1> USE MissionsAssumption
<1>2. \A c \in Call : /\ call'[c] \in AskCall
                      /\ call'[c].by = call[c].by /\ call'[c].on = call[c].on
                      /\ call'[c].pc = call[c].pc \/ (c = waiter[q] /\ call'[c].pc = "told")
                      /\ c = waiter[q] => call'[c].pc = "told"
  BY Told
<1>1. AskType'
  <2>1. call' \in [Call -> AskCall]
    BY <1>2 DEF Settles
  <2> QED
    BY <2>1 DEF AskType, Settles, Settled
<1>3. /\ question'[q] = how
      /\ \A d \in Call \ {q} : question'[d] = question[d] /\ waiter'[d] = waiter[d]
      /\ UNCHANGED replaced
  BY DEF AskType, Settles
<1>4. how # None
  BY DEF Settled
<1>5. AskInv'
  <2>1. ASSUME NEW c \in Call
        PROVE  /\ call'[c].pc \in {"idle", "content"} => question'[c] = None /\ call'[c].on = c
               /\ call'[c].pc = "posted" => question'[c] # None
               /\ call'[c].pc \in {"idle", "posted"} => call'[c].by = Agent
               /\ call'[c].by # Agent => call'[c].on = c
    BY <1>2, <1>3, <1>4, <2>1 DEF AskInv
  <2>2. ASSUME NEW m \in Mission, pending'[m] # None
        PROVE  /\ question'[pending'[m]] # None
               /\ call'[pending'[m]].by = m
               /\ call'[pending'[m]].pc \in {"wait", "told"}
    <3>1. pending'[m] = pending[m] /\ pending[m] \in Call
      BY <2>2 DEF AskType
    <3> QED
      BY <1>2, <1>3, <1>4, <2>2, <3>1 DEF AskInv
  <2> QED
    BY <2>1, <2>2 DEF AskInv
<1>6. Unforgotten'
  <2> SUFFICES ASSUME NEW c \in Call, call'[c].pc = "wait", c \notin replaced'
               PROVE  question'[call'[c].on] = "open" /\ waiter'[call'[c].on] = c
    BY DEF Unforgotten
  <2>1. call[c].pc = "wait" /\ c # waiter[q] /\ call'[c].on = call[c].on
    BY <1>2
  <2>2. question[call[c].on] = "open" /\ waiter[call[c].on] = c
    BY <1>3, <2>1 DEF Unforgotten
  <2>3. call[c].on \in Call \ {q}
    BY <2>1, <2>2 DEF AskType, AskCall
  <2> QED
    BY <1>3, <2>1, <2>2, <2>3
<1> QED
  BY <1>1, <1>5, <1>6

LEMMA AskKept ==
  ASSUME AskType, AskInv, Unforgotten, AskStep
  PROVE  AskType' /\ AskInv' /\ Unforgotten'
<1> USE MissionsAssumption
<1>1. CASE \E m \in Mission : CancelsQuestion(m)
  <2>1. PICK m \in Mission : CancelsQuestion(m)
    BY <1>1
  <2>2. /\ pending[m] \in Call /\ question[pending[m]] # None
        /\ Settles(pending[m], "cancelled")
        /\ pending' \in [Mission -> Call \cup {None}]
        /\ \A n \in Mission : pending'[n] \in {pending[n], None}
    BY <2>1 DEF CancelsQuestion, AskType, AskInv
  <2> QED
    BY <2>2, SettlesKept DEF Settled
<1>2. CASE \E c \in Call : Answers(c)
  <2>1. PICK c \in Call : Answers(c)
    BY <1>2
  <2>2. question[c] # None /\ Settles(c, "answered") /\ UNCHANGED pending
    BY <2>1 DEF Answers
  <2> QED
    BY <2>2, SettlesKept DEF AskType, Settled
<1>3. CASE \E m \in Mission, c \in Call : Asks(m, c)
  <2>1. PICK m \in Mission, c \in Call : Asks(m, c)
    BY <1>3
  <2> DEFINE e == [call[c] EXCEPT !.pc = "content", !.by = m]
  <2>2. /\ call' = [call EXCEPT ![c] = e]
        /\ call[c] \in AskCall /\ call[c].pc = "idle" /\ call[c].on = c
        /\ UNCHANGED <<question, waiter, pending, replaced>>
    BY <2>1 DEF Asks, AskType, AskInv
  <2>3. e \in AskCall /\ e.pc = "content" /\ e.by = m /\ e.on = c
    BY <2>2 DEF AskCall
  <2> HIDE DEF e
  <2> QED
    BY <2>2, <2>3 DEF AskType, AskInv, Unforgotten
<1>4. CASE \E c \in Call : Posts(c)
  BY <1>4 DEF Posts, AskType, AskCall, AskInv, Unforgotten
<1>5. CASE \E c \in Call : PostFails(c)
  BY <1>5 DEF PostFails, AskType, AskCall, AskInv, Unforgotten
<1>6. CASE \E c \in Call : Returns(c)
  BY <1>6 DEF Returns, AskType, AskCall, AskInv, Unforgotten
<1>7. CASE \E c \in Call : AgentAsks(c)
  BY <1>7 DEF AgentAsks, AskType, AskCall, AskInv, Unforgotten
<1>8. CASE \E c \in Call : AgentPosts(c)
  BY <1>8 DEF AgentPosts, AskType, AskCall, AskInv, Unforgotten
<1>9. CASE \E c, q \in Call : AgentAwaits(c, q)
  <2>1. PICK c \in Call, q \in Call : AgentAwaits(c, q)
    BY <1>9
  <2>2. /\ call[c] \in AskCall /\ call[c].by = Agent /\ question[q] # None
        /\ call[c].pc \in {"idle", "posted"}
        /\ UNCHANGED <<question, pending>>
    BY <2>1 DEF AgentAwaits, AskType, AskInv
  <2>3. CASE question[q] \in Settled
    <3> DEFINE e == [call[c] EXCEPT !.pc = "told", !.on = q, !.result = question[q]]
    <3>1. call' = [call EXCEPT ![c] = e] /\ UNCHANGED <<waiter, replaced>>
      BY <2>1, <2>3 DEF AgentAwaits, Waits
    <3>2. e \in AskCall /\ e.pc = "told" /\ e.by = Agent
      BY <2>2, <2>3 DEF AskCall
    <3> HIDE DEF e
    <3> QED
      BY <2>2, <3>1, <3>2 DEF AskType, AskInv, Unforgotten
  <2>4. CASE question[q] \notin Settled
    <3> DEFINE e == [call[c] EXCEPT !.pc = "wait", !.on = q]
    <3>1. /\ call' = [call EXCEPT ![c] = e] /\ waiter' = [waiter EXCEPT ![q] = c]
          /\ replaced' = replaced \cup ({waiter[q]} \ {None})
      BY <2>1, <2>4 DEF AgentAwaits, Waits
    <3>2. e \in AskCall /\ e.pc = "wait" /\ e.by = Agent /\ e.on = q
      BY <2>2 DEF AskCall
    <3>3. question[q] = "open"
      BY <2>2, <2>4 DEF AskType
    <3> HIDE DEF e
    <3>4. AskType' /\ AskInv'
      BY <2>2, <3>1, <3>2 DEF AskType, AskInv
    <3>5. Unforgotten'
      BY <2>2, <3>1, <3>2, <3>3 DEF AskType, Unforgotten
    <3> QED
      BY <3>4, <3>5
  <2> QED
    BY <2>3, <2>4
<1> QED
  BY <1>1, <1>2, <1>3, <1>4, <1>5, <1>6, <1>7, <1>8, <1>9 DEF AskStep

-----------------------------------------------------------------------------
LEMMA Initially == Init => IInv
BY MissionsAssumption
   DEF Init, IInv, TypeOK, LivesInv, MinionInv, AskInv, Unforgotten, AMinion, AskCall, NoCall, Settled

LEMMA Inductive == IInv /\ [Next]_vars => IInv'
<1> SUFFICES ASSUME IInv, [Next]_vars PROVE IInv'
  OBVIOUS
<1>0. LivesType /\ MinionType /\ AskType /\ LivesInv /\ MinionInv /\ AskInv /\ Unforgotten
  BY Types DEF IInv
<1>1. CASE \E m \in Mission : LivesStep(m)
  <2>1. PICK m \in Mission : LivesStep(m)
    BY <1>1
  <2>2. AskType' /\ AskInv' /\ Unforgotten'
    BY <1>0, <2>1, LivesFrame DEF questions, AskType, AskInv, Unforgotten
  <2> QED
    BY <1>0, <2>1, <2>2, LivesKept, MinionsKept, Types DEF IInv, LivesType, MinionType, AskType, TypeOK
<1>2. CASE SpawnStep
  <2>1. LivesType' /\ LivesInv'
    BY <1>0, <1>2, SpawnFrame DEF lives, LivesType, LivesInv
  <2>2. AskType' /\ AskInv' /\ Unforgotten'
    BY <1>0, <1>2, SpawnFrame DEF questions, AskType, AskInv, Unforgotten
  <2> QED
    BY <1>0, <1>2, <2>1, <2>2, SpawnKept DEF IInv, LivesType, MinionType, AskType, TypeOK
<1>3. CASE AskStep
  <2>1. LivesType' /\ LivesInv'
    BY <1>0, <1>3, AskFrame DEF lives, LivesType, LivesInv
  <2>2. MinionType' /\ MinionInv'
    BY <1>0, <1>3, AskFrame DEF lives, minions, MinionType, MinionInv
  <2> QED
    BY <1>0, <1>3, <2>1, <2>2, AskKept DEF IInv, LivesType, MinionType, AskType, TypeOK
<1>4. CASE UNCHANGED vars
  BY <1>0, <1>4 DEF vars, lives, minions, questions, IInv, TypeOK, LivesInv, MinionInv, AskInv,
                    Unforgotten, LivesType, MinionType, AskType
<1> QED
  BY <1>1, <1>2, <1>3, <1>4, Steps

THEOREM Invariance == Spec => []IInv
<1> QED
  BY Initially, Inductive, PTL DEF Spec

\* Whatever the scripts, agents and overlords do, every variable keeps its
\* shape and startAndWait agrees with the status about whether m has ended.
THEOREM TypeCorrect == Spec => []TypeOK
<1>1. IInv => TypeOK
  BY DEF IInv
<1> QED
  BY <1>1, Invariance, PTL

\* The end of a script and a cancellation kill every minion the mission has
\* then, whatever spawns, cancellations and leftovers there were before.
THEOREM MinionsDie == Spec => KilledAtEnd
<1>1. IInv /\ [Next]_vars =>
        [\A s \in Minion : LET m == minion[s].by IN
           /\ minion[s].pc = "live"
           /\ \/ script[m] = "running" /\ script'[m] = "over"
              \/ m \in cancelled' \ cancelled
           => minion'[s].pc = "dead"]_vars
  <2> SUFFICES ASSUME IInv, [Next]_vars, NEW s \in Minion, minion[s].pc = "live",
                      NEW m, m = minion[s].by,
                      \/ script[m] = "running" /\ script'[m] = "over"
                      \/ m \in cancelled' \ cancelled
               PROVE  minion'[s].pc = "dead"
    OBVIOUS
  <2>1. MinionType /\ LivesType /\ m \in Mission /\ s \in tracked[m]
    BY Types DEF IInv, MinionInv, MinionType, AMinion
  <2>2. PICK n \in Mission : LivesStep(n)
    BY Steps, SpawnFrame, AskFrame DEF lives, vars
  <2>3. m = n /\ KillsAll(n)
    BY <2>1, <2>2 DEF LivesStep, LivesType, Starts, ScriptEmits, ScriptSucceeds, ScriptFails, Cancels,
                      Cleanup
  <2> QED
    BY <2>1, <2>3, KillsOwn
<1> QED
  BY <1>1, Invariance, PTL DEF Spec, KilledAtEnd

\* A mission that startAndWait called completed is never cancelled.
THEOREM CompletedMeansNotCancelled == Spec => []FirstWordStands
<1>1. IInv => FirstWordStands
  BY MissionsAssumption DEF IInv, TypeOK, LivesInv, FirstWordStands
<1> QED
  BY <1>1, Invariance, PTL

\* Nobody waits for a settled question, except who was displaced.
THEOREM WaitersAreServed == Spec => []Unforgotten
<1>1. IInv => Unforgotten
  BY DEF IInv
<1> QED
  BY <1>1, Invariance, PTL

\* Cancelling a mission's question ends the ask of a mission that asks one
\* question at a time.
THEOREM CancellingEndsTheAsk == Spec => CancelReaches
<1>1. IInv /\ [Next]_vars =>
        [\A m \in Mission, c \in Call :
           CancelsQuestion(m) /\ Asking(m) = {c} /\ c \notin replaced => call'[c].pc # "wait"]_vars
  <2> SUFFICES ASSUME IInv, NEW m \in Mission, NEW c \in Call,
                      CancelsQuestion(m), Asking(m) = {c}, c \notin replaced,
                      call'[c].pc = "wait"
               PROVE  FALSE
    OBVIOUS
  <2>1. pending[m] \in Call /\ Settles(pending[m], "cancelled")
    BY MissionsAssumption DEF CancelsQuestion, IInv, TypeOK
  <2>2. pending[m] = c
    BY <2>1, MissionsAssumption DEF IInv, AskInv, Asking
  <2>3. call[c].pc = "wait" /\ c # waiter[c]
    BY <2>1, <2>2, Told, Types DEF IInv, Settled
  <2>4. waiter[c] = c
    BY <2>1, <2>2, <2>3, MissionsAssumption DEF IInv, AskInv, Unforgotten
  <2> QED
    BY <2>3, <2>4
<1> QED
  BY <1>1, Invariance, PTL DEF Spec, CancelReaches

\* A mission that the overlord has cancelled is not reported as completed
\* later, unless its script says so.
THEOREM CancellationStays == Spec => CancelledStays
<1>1. IInv /\ [Next]_vars =>
        [\A m \in cancelled : status[m] # "completed" /\ status'[m] = "completed"
           => ScriptEmits(m)]_vars
  <2> SUFFICES ASSUME IInv, [Next]_vars, NEW m \in cancelled,
                      status[m] # "completed", status'[m] = "completed"
               PROVE  ScriptEmits(m)
    OBVIOUS
  <2> USE MissionsAssumption DEF IInv, TypeOK, LivesInv
  <2>1. PICK n \in Mission : LivesStep(n)
    BY Steps, SpawnFrame, AskFrame DEF lives, vars
  <2>2. CASE Starts(n)
    BY <2>2 DEF Starts
  <2>3. CASE ScriptEmits(n)
    BY <2>3 DEF ScriptEmits, Emits
  <2>4. CASE ScriptSucceeds(n)
    BY <2>4 DEF ScriptSucceeds, Emits
  <2>5. CASE ScriptFails(n)
    BY <2>5 DEF ScriptFails, Emits
  <2>6. CASE Cancels(n)
    BY <2>6 DEF Cancels, Emits
  <2> QED
    BY <2>1, <2>2, <2>3, <2>4, <2>5, <2>6 DEF LivesStep
<1> QED
  BY <1>1, Invariance, PTL DEF Spec, CancelledStays
=============================================================================
