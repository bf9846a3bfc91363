------------------------- MODULE MirrorApply_proofs -------------------------
(***************************************************************************)
(* Proofs about MirrorApply, for any wings, readers, nodes, bounds and     *)
(* settings.                                                               *)
(*                                                                         *)
(* The first invariant, IInv, holds whatever reads, crashes and leftovers  *)
(* do: who waits in applyQueue and who is past it, and what each call may  *)
(* rely on of the published trunk.  The second, Claiming, holds in calm    *)
(* settings: it says what the mirror's files are at each step of an apply. *)
(***************************************************************************)
EXTENDS MirrorApply, TLAPS

Active(c) == c.pc \notin {"idle", "queued"}

\* applyQueue: the calls in progress, each once, and only the head is past it.
Line ==
  /\ \A i, j \in 1 .. Len(queue) : queue[i] = queue[j] => i = j
  /\ \A w \in Wing : call[w].pc # "idle" <=> \E i \in 1 .. Len(queue) : queue[i] = w
  /\ \A i \in 1 .. Len(queue) : call[queue[i]].pc = "queued" <=> i # 1

\* Commits below next exist and are numbered in the order they were made; what
\* a commit reaches, it reaches entirely.
Closed ==
  /\ \A c \in Commit : c < next => c \in hist[c]
  /\ \A c \in Commit : \A x \in hist[c] : x < next /\ x <= c /\ hist[x] \subseteq hist[c]

\* Every copy of the trunk is of something that exists.
Copies ==
  /\ origin < next /\ head < next
  /\ cache \in hist[origin]
  /\ acked \subseteq hist[origin]
  /\ \A r \in Reader : read[r].want < next

\* What a call r relies on: the tips that it was shown are on the trunk for
\* good, and so is its commit once it has been pushed.
SoundCall(r) ==
  /\ r.want < next /\ r.cand < next
  /\ r.pc \in {"compare", "reset", "realign"} => r.want \in hist[origin]
  /\ r.pc = "realign" => r.tries < MaxAttempts
  /\ r.pc = "advance" => r.cand \in hist[origin]

IInv == TypeOK /\ Line /\ Closed /\ Copies /\ \A w \in Wing : SoundCall(call[w])

\* What is published stays published, and commits never change.
Grows == /\ next <= next'
         /\ \A c \in Commit : c < next => hist'[c] = hist[c] /\ claims'[c] = claims[c]
         /\ hist[origin] \subseteq (hist')[origin']

\* What a step does to TrunkLedger's view of the trunk.
Lands == /\ hist[origin] \subseteq (hist')[origin']
         /\ \/ UNCHANGED <<acked, cache>> /\ (hist')[cache] = hist[cache]
            \/ UNCHANGED <<hist, origin>> /\ acked \subseteq acked'

-----------------------------------------------------------------------------
(* The graph and the queue. *)

\* The invariant, read for one wing.
LEMMA Facts ==
  ASSUME IInv, NEW w \in Wing
  PROVE  /\ TypeOK
         /\ MaxCommit \in Nat /\ MaxAttempts \in Nat \ {0}
         /\ \A c \in Commit : c \in Nat
         /\ Root \in Commit /\ Root < next
         /\ next \in Nat
         /\ {origin, cache, head} \subseteq Commit
         /\ origin < next /\ cache < next /\ head < next
         /\ files \in Claims
         /\ call[w] \in Call
         /\ call[w].node \in Node /\ call[w].op \in {"claim", "unclaim"}
         /\ call[w].want \in Commit /\ call[w].cand \in Commit
         /\ call[w].view \in Claims
         /\ call[w].tries \in 0 .. MaxAttempts
         /\ SoundCall(call[w])
<1>1. MaxCommit \in Nat /\ MaxAttempts \in Nat \ {0} /\ \A c \in Commit : c \in Nat
  BY MirrorAssumption DEF Commit
<1>2. /\ TypeOK /\ next \in Nat /\ next >= 1 /\ {origin, cache, head} \subseteq Commit
      /\ files \in Claims /\ call[w] \in Call /\ SoundCall(call[w])
  BY <1>1 DEF IInv, TypeOK
<1>3. Root \in Commit /\ Root < next
  BY <1>1, <1>2 DEF Root, Commit
<1>4. origin < next /\ cache < next /\ head < next
  BY <1>2 DEF IInv, Copies, Closed
<1>5. /\ call[w].node \in Node /\ call[w].op \in {"claim", "unclaim"}
      /\ call[w].want \in Commit /\ call[w].cand \in Commit
      /\ call[w].view \in Claims /\ call[w].tries \in 0 .. MaxAttempts
  BY <1>2 DEF Call
<1> QED
  BY <1>1, <1>2, <1>3, <1>4, <1>5

\* A new call is well-formed and relies on nothing.
LEMMA NewCallSound ==
  ASSUME IInv, NEW pc \in {"idle", "queued", "look"},
         NEW op \in {"claim", "unclaim"}, NEW n \in Node
  PROVE  /\ NewCall(pc, op, n) \in Call
         /\ NewCall(pc, op, n).pc = pc
         /\ NewCall(pc, op, n).op = op
         /\ NewCall(pc, op, n).node = n
         /\ SoundCall(NewCall(pc, op, n))
<1>1. Root \in Commit /\ Root < next /\ 0 \in 0 .. MaxAttempts /\ Unclaimed \in Claims
  BY MirrorAssumption DEF IInv, TypeOK, Root, Commit, Unclaimed, Claims
<1> QED
  BY <1>1 DEF NewCall, Call, Step, SoundCall

LEMMA NoCallSound ==
  ASSUME IInv
  PROVE  NoCall \in Call /\ NoCall.pc = "idle" /\ NoCall.op = "claim" /\ SoundCall(NoCall)
<1>1. (CHOOSE n \in Node : TRUE) \in Node
  BY MirrorAssumption
<1> QED
  BY <1>1, NewCallSound DEF NoCall

\* The next attempt of a call that has attempts left.
LEMMA AgainSound ==
  ASSUME IInv, NEW w \in Wing, call[w].tries < MaxAttempts
  PROVE  /\ Again(call[w]) \in Call
         /\ Again(call[w]).pc = "look"
         /\ Again(call[w]).op = call[w].op
         /\ Again(call[w]).node = call[w].node
         /\ SoundCall(Again(call[w]))
<1> DEFINE c == NewCall("look", call[w].op, call[w].node)
<1>1. c \in Call /\ c.pc = "look" /\ SoundCall(c) /\ c.op = call[w].op /\ c.node = call[w].node
  BY NewCallSound, Facts
<1>2. call[w].tries + 1 \in 0 .. MaxAttempts
  BY Facts
<1> HIDE DEF c
<1>3. [c EXCEPT !.tries = call[w].tries + 1] \in Call
  BY <1>1, <1>2 DEF Call
<1> QED
  BY <1>1, <1>3 DEF Again, SoundCall, c, Call

\* What a call that is done with its sync goes on as.
LEMMA SyncedSound ==
  ASSUME IInv, NEW w \in Wing
  PROVE  /\ Synced(call[w]) \in Call
         /\ Synced(call[w]).pc \in {"look", "check"}
         /\ Synced(call[w]).op = call[w].op
         /\ Synced(call[w]).node = call[w].node
         /\ SoundCall(Synced(call[w]))
<1>1. CASE call[w].tries = 0
  BY <1>1, AgainSound, Facts DEF Synced
<1>2. CASE call[w].tries # 0
  <2> DEFINE r == [call[w] EXCEPT !.pc = "check", !.want = Root]
  <2>1. Synced(call[w]) = r
    BY <1>2 DEF Synced
  <2>2. r \in Call /\ SoundCall(r) /\ r.pc = "check" /\ r.op = call[w].op /\ r.node = call[w].node
    BY Facts DEF Call, Step, SoundCall
  <2> QED
    BY <2>1, <2>2
<1> QED
  BY <1>1, <1>2

\* The one that is past the queue is its head.
LEMMA ActiveIsHead ==
  ASSUME IInv, NEW w \in Wing, Active(call[w])
  PROVE  /\ queue \in Seq(Wing) /\ queue # <<>> /\ queue[1] = w
         /\ \A v \in Wing \ {w} : call[v].pc \in {"idle", "queued"}
<1>1. queue \in Seq(Wing)
  BY DEF IInv, TypeOK
<1>2. PICK i \in 1 .. Len(queue) : queue[i] = w
  BY DEF IInv, Line, Active
<1>3. i = 1
  BY <1>2 DEF IInv, Line, Active
<1>4. ASSUME NEW v \in Wing \ {w}, Active(call[v]) PROVE FALSE
  <2>1. PICK j \in 1 .. Len(queue) : queue[j] = v
    BY <1>4 DEF IInv, Line, Active
  <2> QED
    BY <1>2, <1>3, <1>4, <2>1 DEF IInv, Line, Active
<1> QED
  BY <1>1, <1>2, <1>3, <1>4 DEF Active

\* A step in which the call past the queue goes on as r.
LEMMA GoesOn ==
  ASSUME IInv, NEW w \in Wing, Active(call[w]), NEW r \in Call, Active(r),
         call' = [call EXCEPT ![w] = r], UNCHANGED queue
  PROVE  /\ call' \in [Wing -> Call]
         /\ call'[w] = r
         /\ \A v \in Wing \ {w} : call'[v] = call[v]
         /\ queue' \in Seq(Wing)
         /\ Line'
<1>1. call \in [Wing -> Call] /\ queue \in Seq(Wing)
  BY DEF IInv, TypeOK
<1>2. /\ call' \in [Wing -> Call] /\ call'[w] = r
      /\ \A v \in Wing \ {w} : call'[v] = call[v]
  BY <1>1
<1>3. \A v \in Wing : /\ call'[v].pc = "idle" <=> call[v].pc = "idle"
                      /\ call'[v].pc = "queued" <=> call[v].pc = "queued"
  BY <1>2 DEF Active
<1>4. \A i \in 1 .. Len(queue) : queue[i] \in Wing
  BY <1>1
<1> QED
  BY <1>1, <1>2, <1>3, <1>4 DEF IInv, Line

\* A step in which the call past the queue ends, and the next one is let in.
LEMMA LetsNextIn ==
  ASSUME IInv, NEW w \in Wing, Active(call[w]), Returns(w)
  PROVE  /\ call' \in [Wing -> Call]
         /\ call'[w] = NoCall
         /\ \A v \in Wing \ {w} :
              \/ call'[v] = call[v]
              \/ call[v].pc = "queued" /\ call'[v] = [call[v] EXCEPT !.pc = "look"]
         /\ queue' \in Seq(Wing)
         /\ Line'
         /\ \A v \in Wing : SoundCall(call'[v])
<1> DEFINE rest == Tail(queue)
<1>1. /\ queue \in Seq(Wing) /\ queue # <<>> /\ queue[1] = w
      /\ \A v \in Wing \ {w} : call[v].pc \in {"idle", "queued"}
  BY ActiveIsHead
<1>2. /\ queue' = rest /\ rest \in Seq(Wing) /\ Len(rest) = Len(queue) - 1
      /\ \A i \in 1 .. Len(rest) : rest[i] = queue[i + 1] /\ rest[i] \in Wing
  BY <1>1 DEF Returns
<1>3. \A i, j \in 1 .. Len(queue) : queue[i] = queue[j] => i = j
  BY DEF IInv, Line
<1>4. \A i \in 1 .. Len(rest) : rest[i] # w
  BY <1>1, <1>2, <1>3
<1>5. call \in [Wing -> Call] /\ NoCall \in Call /\ NoCall.pc = "idle" /\ SoundCall(NoCall)
  BY NoCallSound DEF IInv, TypeOK
<1>6. ASSUME NEW v \in Wing \ {w}
      PROVE  /\ call'[v] \in Call
             /\ \/ call'[v] = call[v] /\ ~(rest # <<>> /\ v = rest[1])
                \/ /\ rest # <<>> /\ v = rest[1]
                   /\ call[v].pc = "queued" /\ call'[v] = [call[v] EXCEPT !.pc = "look"]
                   /\ call'[v].pc = "look"
             /\ SoundCall(call'[v])
  <2>1. CASE rest # <<>> /\ v = rest[1]
    <3>1. 2 \in 1 .. Len(queue) /\ queue[2] = v
      BY <1>1, <1>2, <2>1
    <3>2. call[v].pc = "queued"
      BY <3>1 DEF IInv, Line
    <3>3. call'[v] = [call[v] EXCEPT !.pc = "look"]
      <4>1. Head(rest) = v
        BY <1>2, <2>1
      <4> QED
        BY <4>1, <2>1 DEF Returns
    <3>4. [call[v] EXCEPT !.pc = "look"] \in Call /\ SoundCall([call[v] EXCEPT !.pc = "look"])
      BY Facts DEF Call, Step, SoundCall
    <3> QED
      BY <3>2, <3>3, <3>4, <2>1, Facts DEF Call
  <2>2. CASE ~(rest # <<>> /\ v = rest[1])
    <3>1. call'[v] = call[v]
      BY <1>2, <2>2 DEF Returns
    <3> QED
      BY <3>1, <2>2, Facts
  <2> QED
    BY <2>1, <2>2
<1>7. call'[w] = NoCall
  BY DEF Returns
<1>8. call' \in [Wing -> Call]
  <2>1. \A v \in Wing : call'[v] \in Call
    BY <1>5, <1>6, <1>7
  <2> QED
    BY <2>1 DEF Returns
<1>9. Line'
  <2>1. \A i, j \in 1 .. Len(rest) : rest[i] = rest[j] => i = j
    BY <1>1, <1>2, <1>3
  <2>2. ASSUME NEW v \in Wing
        PROVE  call'[v].pc # "idle" <=> \E i \in 1 .. Len(rest) : rest[i] = v
    <3>1. CASE v = w
      BY <3>1, <1>4, <1>5, <1>7
    <3>2. CASE v # w
      <4>1. call'[v].pc # "idle" <=> call[v].pc # "idle"
        BY <3>2, <1>6
      <4>2. call[v].pc # "idle" <=> \E i \in 1 .. Len(queue) : queue[i] = v
        BY DEF IInv, Line
      <4>3. (\E i \in 1 .. Len(queue) : queue[i] = v) => \E i \in 1 .. Len(rest) : rest[i] = v
        <5>1. ASSUME NEW i \in 1 .. Len(queue), queue[i] = v PROVE \E k \in 1 .. Len(rest) : rest[k] = v
          <6>1. i # 1
            BY <5>1, <3>2, <1>1
          <6>2. i - 1 \in 1 .. Len(rest) /\ rest[i - 1] = v
            BY <5>1, <6>1, <1>1, <1>2
          <6> QED
            BY <6>2
        <5> QED
          BY <5>1
      <4>4. (\E i \in 1 .. Len(rest) : rest[i] = v) => \E i \in 1 .. Len(queue) : queue[i] = v
        BY <1>1, <1>2
      <4> QED
        BY <4>1, <4>2, <4>3, <4>4
    <3> QED
      BY <3>1, <3>2
  <2>3. ASSUME NEW i \in 1 .. Len(rest) PROVE call'[rest[i]].pc = "queued" <=> i # 1
    <3>1. rest[i] \in Wing \ {w} /\ i + 1 \in 1 .. Len(queue) /\ i + 1 # 1
      BY <1>1, <1>2, <1>4
    <3>2. call[rest[i]].pc = "queued"
      BY <3>1, <1>2 DEF IInv, Line
    <3>3. CASE i = 1
      <4>1. rest # <<>> /\ rest[i] = rest[1]
        <5>1. Len(rest) # 0
          BY <3>3, <1>2
        <5> HIDE DEF rest
        <5> QED
          BY <5>1, <3>3
      <4> QED
        BY <3>1, <3>3, <4>1, <1>6
    <3>4. CASE i # 1
      <4>1. rest[i] # rest[1]
        BY <2>1, <3>4
      <4> QED
        BY <3>1, <3>2, <3>4, <4>1, <1>6
    <3> QED
      BY <3>3, <3>4
  <2> QED
    BY <1>2, <2>1, <2>2, <2>3 DEF Line
<1> QED
  BY <1>2, <1>5, <1>6, <1>7, <1>8, <1>9

\* A new call joins the queue.
LEMMA Joins ==
  ASSUME IInv, NEW w \in Wing, NEW op \in {"claim", "unclaim"}, NEW n \in Node, Calls(w, op, n)
  PROVE  /\ call' \in [Wing -> Call]
         /\ call'[w].pc \in {"look", "queued"} /\ call'[w].op = op /\ call'[w].node = n
         /\ \A v \in Wing \ {w} : call'[v] = call[v]
         /\ queue' \in Seq(Wing)
         /\ Line'
         /\ \A v \in Wing : SoundCall(call'[v])
<1> DEFINE pc == IF queue = <<>> THEN "look" ELSE "queued"
           r == NewCall(pc, op, n)
<1>1. /\ call \in [Wing -> Call] /\ queue \in Seq(Wing)
      /\ call[w].pc = "idle" /\ queue' = Append(queue, w) /\ call' = [call EXCEPT ![w] = r]
  BY DEF Calls, IInv, TypeOK
<1>2. r \in Call /\ r.pc = pc /\ r.op = op /\ r.node = n /\ SoundCall(r)
  BY NewCallSound
<1>3. pc = "look" <=> Len(queue) = 0
  BY <1>1
<1>4. pc \in {"look", "queued"}
  OBVIOUS
<1> HIDE DEF pc, r
<1>5. /\ call' \in [Wing -> Call] /\ call'[w] = r
      /\ \A v \in Wing \ {w} : call'[v] = call[v]
  BY <1>1, <1>2
<1>6. /\ queue' \in Seq(Wing) /\ Len(queue') = Len(queue) + 1
      /\ queue'[Len(queue) + 1] = w
      /\ \A i \in 1 .. Len(queue) : queue'[i] = queue[i] /\ queue[i] \in Wing
  BY <1>1
<1>7. \A i \in 1 .. Len(queue) : queue[i] # w
  BY <1>1 DEF IInv, Line
<1>8. Line'
  <2>1. \A i, j \in 1 .. Len(queue) + 1 : queue'[i] = queue'[j] => i = j
    BY <1>1, <1>6, <1>7 DEF IInv, Line
  <2>2. \A v \in Wing : call'[v].pc # "idle" <=> \E i \in 1 .. Len(queue) + 1 : queue'[i] = v
    <3>1. call'[w].pc # "idle" /\ Len(queue) + 1 \in 1 .. Len(queue) + 1
      BY <1>1, <1>2, <1>4, <1>5
    <3>2. \A v \in Wing : call[v].pc # "idle" <=> \E i \in 1 .. Len(queue) : queue[i] = v
      BY DEF IInv, Line
    <3> QED
      BY <1>1, <1>5, <1>6, <3>1, <3>2
  <2>3. \A i \in 1 .. Len(queue) + 1 : call'[queue'[i]].pc = "queued" <=> i # 1
    <3>1. \A i \in 1 .. Len(queue) : call'[queue'[i]].pc = "queued" <=> i # 1
      BY <1>1, <1>5, <1>6, <1>7 DEF IInv, Line
    <3>2. call'[queue'[Len(queue) + 1]].pc = "queued" <=> Len(queue) # 0
      BY <1>2, <1>3, <1>4, <1>5, <1>6
    <3> QED
      BY <1>1, <3>1, <3>2
  <2> QED
    BY <1>1, <1>6, <2>1, <2>2, <2>3 DEF Line
<1> QED
  BY <1>2, <1>4, <1>5, <1>6, <1>8, Facts

\* A step that no call takes.
LEMMA LineStays ==
  ASSUME IInv, UNCHANGED <<call, queue>>
  PROVE  /\ call' \in [Wing -> Call] /\ queue' \in Seq(Wing) /\ Line'
         /\ \A v \in Wing : SoundCall(call'[v])
  BY DEF IInv, TypeOK, Line

\* A new commit on an existing parent keeps the graph closed and in order.
LEMMA CreateGrows ==
  ASSUME IInv, NEW parent \in Commit, parent < next, NEW content \in Claims,
         Create(parent, content)
  PROVE  /\ next \in Commit /\ next' = next + 1
         /\ hist' \in [Commit -> SUBSET Commit]
         /\ claims' \in [Commit -> Claims]
         /\ next' \in 1 .. MaxCommit + 1
         /\ Closed'
         /\ \A c \in Commit : c < next => hist'[c] = hist[c] /\ claims'[c] = claims[c]
         /\ hist'[next] = {next} \cup hist[parent]
         /\ claims'[next] = content
<1> USE MirrorAssumption
<1>1. setting.commits \in Commit
  BY DEF IInv, TypeOK
<1>2. next \in Commit /\ next' = next + 1
  BY <1>1 DEF Create, Commit
<1>3. /\ hist \in [Commit -> SUBSET Commit] /\ claims \in [Commit -> Claims]
      /\ hist' = [hist EXCEPT ![next] = {next} \cup hist[parent]]
      /\ claims' = [claims EXCEPT ![next] = content]
  BY DEF Create, IInv, TypeOK
<1>4. /\ hist' \in [Commit -> SUBSET Commit] /\ claims' \in [Commit -> Claims]
      /\ next' \in 1 .. MaxCommit + 1
  BY <1>2, <1>3 DEF Commit
<1>5. /\ \A c \in Commit : c # next => hist'[c] = hist[c] /\ claims'[c] = claims[c]
      /\ hist'[next] = {next} \cup hist[parent] /\ claims'[next] = content
  BY <1>2, <1>3
<1>6. \A c \in Commit : c \in Nat
  BY DEF Commit
<1>7. \A c \in Commit : c < next' => c \in hist'[c]
  BY <1>2, <1>5, <1>6 DEF IInv, Closed
<1>8. ASSUME NEW c \in Commit, NEW x \in hist'[c]
      PROVE  x < next' /\ x <= c /\ hist'[x] \subseteq hist'[c]
  <2>1. CASE c # next
    <3>1. x \in hist[c] /\ x \in Commit /\ x < next /\ x <= c /\ hist[x] \subseteq hist[c]
      BY <2>1, <1>3, <1>5 DEF IInv, Closed
    <3> QED
      BY <2>1, <3>1, <1>2, <1>5, <1>6
  <2>2. CASE c = next /\ x = next
    BY <2>2, <1>2, <1>6
  <2>3. CASE c = next /\ x # next
    <3>1. x \in hist[parent] /\ x \in Commit /\ x < next /\ hist[x] \subseteq hist[parent]
      BY <2>3, <1>3, <1>5 DEF IInv, Closed
    <3> QED
      BY <2>3, <3>1, <1>2, <1>5, <1>6
  <2> QED
    BY <2>1, <2>2, <2>3
<1> QED
  BY <1>2, <1>4, <1>5, <1>6, <1>7, <1>8 DEF Closed

\* A step that creates nothing and moves nothing on origin.
LEMMA QuietStep ==
  ASSUME IInv, UNCHANGED <<setting, graph, origin>>,
         call' \in [Wing -> Call], queue' \in Seq(Wing), Line',
         \A v \in Wing : SoundCall(call'[v]),
         cache' \in hist[origin], head' \in Commit, head' < next, files' \in Claims,
         read' \in [Reader -> Read], \A r \in Reader : read'[r].want < next,
         holds' \subseteq Wing \X Node,
         acked' \subseteq hist[origin], acked \subseteq acked'
  PROVE  IInv' /\ Lands
<1>1. hist' = hist /\ claims' = claims /\ next' = next /\ origin' = origin
  BY DEF graph
<1>2. hist[origin] \subseteq Commit
  BY DEF IInv, TypeOK
<1>3. TypeOK'
  BY <1>1, <1>2 DEF IInv, TypeOK
<1>4. Closed' /\ Copies'
  BY <1>1 DEF IInv, Closed, Copies
<1>5. \A v \in Wing : SoundCall(call[v])'
  BY <1>1 DEF SoundCall
<1> QED
  BY <1>1, <1>3, <1>4, <1>5 DEF IInv, Lands

\* A step that creates a commit, or moves origin to one that holds the trunk.
LEMMA GrowStep ==
  ASSUME IInv, UNCHANGED <<setting, cache, read, acked>>, Grows, Closed',
         hist' \in [Commit -> SUBSET Commit], claims' \in [Commit -> Claims],
         next' \in 1 .. MaxCommit + 1,
         call' \in [Wing -> Call], queue' \in Seq(Wing), Line',
         \A v \in Wing : SoundCall(call[v])',
         origin' \in Commit, origin' < next', head' \in Commit, head' < next',
         files' \in Claims, holds' \subseteq Wing \X Node
  PROVE  IInv' /\ Lands
<1>1. TypeOK'
  BY DEF IInv, TypeOK
<1>2. next \in Nat /\ next' \in Nat /\ next <= next' /\ \A r \in Reader : read[r].want \in Nat
  BY MirrorAssumption DEF IInv, TypeOK, Grows, Read, Commit
<1>3. Copies'
  BY <1>2 DEF IInv, Copies, Grows
<1>4. (hist')[cache] = hist[cache]
  BY DEF IInv, Copies, TypeOK, Closed, Grows
<1> QED
  BY <1>1, <1>3, <1>4 DEF IInv, Lands, Grows

\* What a call relies on stays so.
LEMMA SoundStays ==
  ASSUME IInv, Grows, next' \in Nat, NEW v \in Wing, call'[v] = call[v]
  PROVE  SoundCall(call[v])'
<1>1. next \in Nat /\ call[v].want \in Nat /\ call[v].cand \in Nat
  BY Facts
<1> QED
  BY <1>1 DEF IInv, SoundCall, Grows

\* A call goes on; the mirror and the local trunk may move.
LEMMA MovesOn ==
  ASSUME IInv, NEW w \in Wing, Active(call[w]), NEW r \in Call, Active(r), SoundCall(r),
         call' = [call EXCEPT ![w] = r],
         UNCHANGED <<setting, graph, origin, queue, read, holds, acked>>,
         cache' \in hist[origin], head' \in Commit, head' < next, files' \in Claims
  PROVE  IInv' /\ Lands
<1>1. /\ call' \in [Wing -> Call] /\ queue' \in Seq(Wing) /\ Line'
      /\ call'[w] = r /\ \A v \in Wing \ {w} : call'[v] = call[v]
  BY GoesOn
<1>2. \A v \in Wing : SoundCall(call'[v])
  BY <1>1, Facts
<1> QED
  BY <1>1, <1>2, QuietStep DEF IInv, TypeOK, Copies

\* A call ends.
LEMMA EndsQuietly ==
  ASSUME IInv, NEW w \in Wing, Active(call[w]), Returns(w),
         UNCHANGED <<setting, graph, origin, mirror, read>>,
         cache' \in hist[origin], holds' \subseteq Wing \X Node,
         acked' \subseteq hist[origin], acked \subseteq acked'
  PROVE  IInv' /\ Lands
<1>1. /\ call' \in [Wing -> Call] /\ queue' \in Seq(Wing) /\ Line'
      /\ \A v \in Wing : SoundCall(call'[v])
  BY LetsNextIn
<1> QED
  BY <1>1, QuietStep DEF IInv, TypeOK, Copies, mirror

-----------------------------------------------------------------------------
(* IInv, step by step. *)

\* A call is queued.
LEMMA CallsStep ==
  ASSUME IInv, NEW w \in Wing, NEW op \in {"claim", "unclaim"}, NEW n \in Node,
         Calls(w, op, n), UNCHANGED setting
  PROVE  IInv' /\ Lands
<1>1. /\ call' \in [Wing -> Call] /\ queue' \in Seq(Wing) /\ Line'
      /\ \A v \in Wing : SoundCall(call'[v])
  BY Joins
<1>2. UNCHANGED <<graph, origin, cache, mirror, read, acked>> /\ holds' \subseteq Wing \X Node
  BY DEF Calls, IInv, TypeOK
<1> QED
  BY <1>1, <1>2, QuietStep DEF IInv, TypeOK, Copies, mirror

\* trunkTip is read: it is on the trunk.
LEMMA LooksStep ==
  ASSUME IInv, NEW w \in Wing, Looks(w), UNCHANGED setting
  PROVE  IInv' /\ Lands
<1> DEFINE r == [call[w] EXCEPT !.pc = "compare", !.want = cache]
<1>1. r \in Call /\ Active(r) /\ Active(call[w]) /\ SoundCall(r)
  BY Facts DEF Looks, Call, Step, SoundCall, Active, IInv, Copies
<1>2. call' = [call EXCEPT ![w] = r]
  BY DEF Looks, IInv, TypeOK
<1> HIDE DEF r
<1> QED
  BY <1>1, <1>2, MovesOn DEF Looks, mirror, IInv, TypeOK, Copies

\* mirrorTip is read.
LEMMA ComparesStep ==
  ASSUME IInv, NEW w \in Wing, Compares(w), UNCHANGED setting
  PROVE  IInv' /\ Lands
<1> DEFINE r == IF head = call[w].want THEN Synced(call[w])
                ELSE [call[w] EXCEPT !.pc = "reset"]
<1>1. [call[w] EXCEPT !.pc = "reset"] \in Call /\ SoundCall([call[w] EXCEPT !.pc = "reset"])
  BY Facts DEF Compares, Call, Step, SoundCall
<1>2. r \in Call /\ Active(r) /\ Active(call[w]) /\ SoundCall(r)
  BY <1>1, SyncedSound, Facts DEF Compares, Active, Call
<1>3. call' = [call EXCEPT ![w] = r]
  BY DEF Compares, IInv, TypeOK
<1> HIDE DEF r
<1> QED
  BY <1>2, <1>3, MovesOn DEF Compares, mirror, IInv, TypeOK, Copies

\* The mirror takes the tip that was read.
LEMMA ResetsStep ==
  ASSUME IInv, NEW w \in Wing, Resets(w), UNCHANGED setting
  PROVE  IInv' /\ Lands
<1> DEFINE r == Synced(call[w])
<1>1. r \in Call /\ Active(r) /\ Active(call[w]) /\ SoundCall(r)
  BY SyncedSound DEF Resets, Active
<1>2. call' = [call EXCEPT ![w] = r]
  BY DEF Resets, IInv, TypeOK
<1>3. head' \in Commit /\ head' < next /\ files' \in Claims
  BY Facts DEF Resets, TypeOK, SoundCall
<1> HIDE DEF r
<1> QED
  BY <1>1, <1>2, <1>3, MovesOn DEF Resets, mirror, IInv, TypeOK, Copies

\* The check that lets the transform go on, and the one that isDirty makes.
LEMMA PassStep ==
  ASSUME IInv, NEW w \in Wing, ChecksPass(w) \/ StatusDirty(w), UNCHANGED setting
  PROVE  IInv' /\ Lands
<1> DEFINE pc == IF call[w].pc = "check" THEN "load" ELSE "commit"
           r == [call[w] EXCEPT !.pc = pc]
<1>1. r \in Call /\ Active(r) /\ Active(call[w]) /\ SoundCall(r)
  BY Facts DEF ChecksPass, StatusDirty, Call, Step, SoundCall, Active
<1>2. call' = [call EXCEPT ![w] = r]
  BY DEF ChecksPass, StatusDirty, GoesTo, IInv, TypeOK
<1>3. UNCHANGED <<graph, origin, cache, mirror, queue, read, holds, acked>>
  BY DEF ChecksPass, StatusDirty
<1> HIDE DEF r
<1> QED
  BY <1>1, <1>2, <1>3, MovesOn DEF mirror, IInv, TypeOK, Copies

\* claims.toml is read.
LEMMA LoadsStep ==
  ASSUME IInv, NEW w \in Wing, Loads(w), UNCHANGED setting
  PROVE  IInv' /\ Lands
<1> DEFINE r == [call[w] EXCEPT !.pc = "store", !.view = files]
<1>1. r \in Call /\ Active(r) /\ Active(call[w]) /\ SoundCall(r)
  BY Facts DEF Loads, Call, Step, SoundCall, Active
<1>2. call' = [call EXCEPT ![w] = r]
  BY DEF Loads, IInv, TypeOK
<1> HIDE DEF r
<1> QED
  BY <1>1, <1>2, MovesOn DEF Loads, mirror, IInv, TypeOK, Copies

\* claims.toml is written.
LEMMA StoresStep ==
  ASSUME IInv, NEW w \in Wing, Stores(w), UNCHANGED setting
  PROVE  IInv' /\ Lands
<1> DEFINE r == [call[w] EXCEPT !.pc = "status", !.view = Unclaimed]
<1>1. Unclaimed \in Claims
  BY DEF Unclaimed, Claims
<1>2. r \in Call /\ Active(r) /\ Active(call[w]) /\ SoundCall(r)
  BY <1>1, Facts DEF Stores, Call, Step, SoundCall, Active
<1>3. call' = [call EXCEPT ![w] = r]
  BY DEF Stores, IInv, TypeOK
<1>4. files' \in Claims
  BY Facts DEF Stores, Claims, Owner
<1> HIDE DEF r
<1> QED
  BY <1>2, <1>3, <1>4, MovesOn DEF Stores, IInv, TypeOK, Copies

\* A lost race is retried at once.
LEMMA RetriesAtOnceStep ==
  ASSUME IInv, NEW w \in Wing, RetriesAtOnce(w), UNCHANGED setting
  PROVE  IInv' /\ Lands
<1> DEFINE r == Again(call[w])
<1>1. call[w].tries < MaxAttempts /\ Active(call[w])
  BY Facts DEF RetriesAtOnce, Rejected, LastTry, Active
<1>2. r \in Call /\ Active(r) /\ SoundCall(r)
  BY <1>1, AgainSound DEF Active
<1>3. call' = [call EXCEPT ![w] = r]
  BY DEF RetriesAtOnce, IInv, TypeOK
<1> HIDE DEF r
<1> QED
  BY <1>1, <1>2, <1>3, MovesOn DEF RetriesAtOnce, mirror, IInv, TypeOK, Copies

\* A lost race is followed by a fetch.
LEMMA FetchesStep ==
  ASSUME IInv, NEW w \in Wing, Fetches(w), UNCHANGED setting
  PROVE  IInv' /\ Lands
<1> DEFINE r == [call[w] EXCEPT !.pc = "realign", !.want = origin]
<1>1. call[w].tries < MaxAttempts /\ Active(call[w]) /\ origin \in hist[origin]
  BY Facts DEF Fetches, Rejected, LastTry, Active, IInv, Closed
<1>2. r \in Call /\ Active(r) /\ SoundCall(r)
  BY <1>1, Facts DEF Call, Step, SoundCall, Active
<1>3. call' = [call EXCEPT ![w] = r]
  BY DEF Fetches, IInv, TypeOK
<1> HIDE DEF r
<1> QED
  BY <1>1, <1>2, <1>3, MovesOn DEF Fetches, mirror, IInv, TypeOK, Copies

\* The local trunk takes what was fetched.
LEMMA RealignsStep ==
  ASSUME IInv, NEW w \in Wing, Realigns(w), UNCHANGED setting
  PROVE  IInv' /\ Lands
<1> DEFINE r == Again(call[w])
<1>1. call[w].tries < MaxAttempts /\ Active(call[w]) /\ cache' \in hist[origin]
  BY Facts DEF Realigns, Active, SoundCall
<1>2. r \in Call /\ Active(r) /\ SoundCall(r)
  BY <1>1, AgainSound DEF Active
<1>3. call' = [call EXCEPT ![w] = r]
  BY DEF Realigns, IInv, TypeOK
<1> HIDE DEF r
<1> QED
  BY <1>1, <1>2, <1>3, MovesOn DEF Realigns, mirror, IInv, TypeOK, Copies

\* A call that ends with nothing pushed.
LEMMA EndsStep ==
  ASSUME IInv, NEW w \in Wing, UNCHANGED setting,
         ChecksRefuse(w) \/ StatusClean(w) \/ CommitsNothing(w) \/ GivesUp(w) \/ Fails(w)
  PROVE  IInv' /\ Lands
<1>1. /\ Active(call[w]) /\ Returns(w)
      /\ UNCHANGED <<graph, origin, cache, mirror, read, acked>>
  BY DEF ChecksRefuse, StatusClean, CommitsNothing, GivesUp, Rejected, Fails, Active
<1>2. holds' \subseteq Wing \X Node
  <2>1. holds' \subseteq holds \cup {<<w, call[w].node>>}
    BY DEF ChecksRefuse, StatusClean, Reports, CommitsNothing, GivesUp, Fails
  <2> QED
    BY <2>1, Facts DEF TypeOK
<1> QED
  BY <1>1, <1>2, EndsQuietly DEF IInv, Copies

\* The local trunk takes the commit that was pushed, and the call returns.
LEMMA AdvancesStep ==
  ASSUME IInv, NEW w \in Wing, Advances(w), UNCHANGED setting
  PROVE  IInv' /\ Lands
<1>1. /\ Active(call[w]) /\ Returns(w) /\ call[w].cand \in hist[origin]
      /\ UNCHANGED <<graph, origin, mirror, read>>
      /\ cache' = call[w].cand /\ acked' = acked \cup {call[w].cand}
  BY Facts DEF Advances, Active, SoundCall
<1>2. holds' \subseteq Wing \X Node
  <2>1. holds' \subseteq holds \cup {<<w, call[w].node>>}
    BY DEF Advances, Reports
  <2>2. holds \subseteq Wing \X Node /\ <<w, call[w].node>> \in Wing \X Node
    BY Facts DEF IInv, TypeOK
  <2> QED
    BY <2>1, <2>2
<1> QED
  BY <1>1, <1>2, EndsQuietly DEF IInv, Copies

\* The transform's write is committed.
LEMMA CommitsStep ==
  ASSUME IInv, NEW w \in Wing, Commits(w), UNCHANGED setting
  PROVE  IInv' /\ Lands
<1> DEFINE r == [call[w] EXCEPT !.pc = "push", !.cand = next]
<1>1. /\ next \in Commit /\ next' = next + 1
      /\ hist' \in [Commit -> SUBSET Commit] /\ claims' \in [Commit -> Claims]
      /\ next' \in 1 .. MaxCommit + 1 /\ Closed'
      /\ \A c \in Commit : c < next => hist'[c] = hist[c] /\ claims'[c] = claims[c]
  BY CreateGrows, Facts DEF Commits
<1>2. next' \in Nat /\ next < next' /\ origin' = origin /\ Grows
  BY <1>1, Facts DEF Commits, Grows
<1>3. r \in Call /\ Active(r) /\ Active(call[w])
  BY <1>1, Facts DEF Commits, Call, Step, Active
<1>4. call' = [call EXCEPT ![w] = r]
  BY DEF Commits, IInv, TypeOK
<1>5. /\ call' \in [Wing -> Call] /\ queue' \in Seq(Wing) /\ Line'
      /\ call'[w] = r /\ \A v \in Wing \ {w} : call'[v] = call[v]
  <2> HIDE DEF r
  <2> QED
    BY <1>3, <1>4, GoesOn DEF Commits
<1>6. \A v \in Wing : SoundCall(call[v])'
  <2>1. SoundCall(call[w])'
    BY <1>1, <1>2, <1>5, Facts DEF SoundCall
  <2> QED
    BY <2>1, <1>2, <1>5, SoundStays
<1> QED
  BY <1>1, <1>2, <1>5, <1>6, Facts, GrowStep DEF Commits, IInv, TypeOK

\* What Accepts takes holds all that was on origin.
LEMMA PushGrows ==
  ASSUME IInv, NEW w \in Wing, Accepts(call[w].cand), origin' = call[w].cand, UNCHANGED graph
  PROVE  /\ Grows /\ Closed' /\ origin' \in Commit /\ origin' < next'
         /\ hist' \in [Commit -> SUBSET Commit] /\ claims' \in [Commit -> Claims]
         /\ next' \in 1 .. MaxCommit + 1 /\ next' \in Nat
  BY Facts DEF IInv, TypeOK, Closed, Accepts, Grows, graph, SoundCall

\* Origin takes the commit.
LEMMA PushesStep ==
  ASSUME IInv, NEW w \in Wing, Pushes(w), UNCHANGED setting
  PROVE  IInv' /\ Lands
<1> DEFINE r == [call[w] EXCEPT !.pc = "advance"]
<1>1. /\ Grows /\ Closed' /\ origin' \in Commit /\ origin' < next'
      /\ hist' \in [Commit -> SUBSET Commit] /\ claims' \in [Commit -> Claims]
      /\ next' \in 1 .. MaxCommit + 1 /\ next' \in Nat
  BY PushGrows DEF Pushes
<1>2. r \in Call /\ Active(r) /\ Active(call[w]) /\ call' = [call EXCEPT ![w] = r]
  BY Facts DEF Pushes, GoesTo, Call, Step, Active, TypeOK
<1>3. /\ call' \in [Wing -> Call] /\ queue' \in Seq(Wing) /\ Line'
      /\ call'[w] = r /\ \A v \in Wing \ {w} : call'[v] = call[v]
  <2> HIDE DEF r
  <2> QED
    BY <1>2, GoesOn DEF Pushes
<1>4. \A v \in Wing : SoundCall(call[v])'
  <2>1. origin' \in hist'[origin'] /\ next' = next
    BY <1>1 DEF Closed, Pushes, graph
  <2>2. SoundCall(call[w])'
    BY <1>1, <1>3, <2>1, Facts DEF SoundCall, Pushes
  <2> QED
    BY <2>2, <1>1, <1>3, SoundStays
<1> QED
  BY <1>1, <1>3, <1>4, Facts, GrowStep DEF Pushes, mirror, graph, IInv, TypeOK

\* Origin takes the commit and the call throws.
LEMMA PushUnansweredStep ==
  ASSUME IInv, NEW w \in Wing, PushUnanswered(w), UNCHANGED setting
  PROVE  IInv' /\ Lands
<1>1. /\ Grows /\ Closed' /\ origin' \in Commit /\ origin' < next'
      /\ hist' \in [Commit -> SUBSET Commit] /\ claims' \in [Commit -> Claims]
      /\ next' \in 1 .. MaxCommit + 1 /\ next' \in Nat
  BY PushGrows DEF PushUnanswered
<1>2. /\ call' \in [Wing -> Call] /\ queue' \in Seq(Wing) /\ Line'
      /\ \A v \in Wing : SoundCall(call'[v])
  BY LetsNextIn DEF PushUnanswered, Active
<1>3. ASSUME NEW v \in Wing PROVE SoundCall(call[v])'
  <2>1. call'[v].want \in Commit /\ call'[v].cand \in Commit /\ SoundCall(call'[v])
    BY <1>2 DEF Call
  <2>2. hist' = hist /\ next' = next
    BY DEF PushUnanswered, graph
  <2> QED
    BY <2>1, <2>2, <1>1 DEF SoundCall, Grows
<1> QED
  BY <1>1, <1>2, <1>3, Facts, GrowStep DEF PushUnanswered, mirror, graph, IInv, TypeOK

\* Another machine lands something.
LEMMA RemotePushStep ==
  ASSUME IInv, RemotePush, UNCHANGED setting
  PROVE  IInv' /\ Lands
<1>1. PICK content \in Claims : Create(origin, content)
  <2>1. claims[origin] \in Claims
    BY DEF IInv, TypeOK
  <2>2. \A n \in Node : /\ [claims[origin] EXCEPT ![n] = Elsewhere] \in Claims
                        /\ [claims[origin] EXCEPT ![n] = Nobody] \in Claims
    BY <2>1 DEF Claims, Owner
  <2>3. setting.nodes \subseteq Node
    BY MirrorAssumption DEF IInv, TypeOK
  <2> QED
    BY <2>1, <2>2, <2>3 DEF RemotePush
<1>2. origin \in Commit /\ origin < next /\ origin' = next
  BY DEF IInv, TypeOK, Copies, RemotePush
<1>3. /\ next \in Commit /\ next' = next + 1
      /\ hist' \in [Commit -> SUBSET Commit] /\ claims' \in [Commit -> Claims]
      /\ next' \in 1 .. MaxCommit + 1 /\ Closed'
      /\ \A c \in Commit : c < next => hist'[c] = hist[c] /\ claims'[c] = claims[c]
      /\ hist'[next] = {next} \cup hist[origin]
  BY <1>1, <1>2, CreateGrows
<1>4. next \in Nat /\ head \in Nat
  BY MirrorAssumption DEF IInv, TypeOK, Commit
<1>5. Grows /\ next' \in Nat /\ next < next'
  <2>1. hist[origin] \subseteq (hist')[origin']
    BY <1>2, <1>3
  <2>2. next' \in Nat /\ next < next' /\ next <= next'
    BY <1>3, <1>4
  <2> QED
    BY <1>3, <2>1, <2>2 DEF Grows
<1>6. /\ call' \in [Wing -> Call] /\ queue' \in Seq(Wing) /\ Line' /\ UNCHANGED call
  BY LineStays DEF RemotePush
<1>7. \A v \in Wing : SoundCall(call[v])'
  BY <1>5, <1>6, SoundStays
<1> QED
  BY <1>2, <1>3, <1>4, <1>5, <1>6, <1>7, GrowStep DEF RemotePush, mirror, IInv, TypeOK, Copies

\* A movement of this process moves the local trunk.
LEMMA TrunkMovesStep ==
  ASSUME IInv, TrunkMoves, UNCHANGED setting
  PROVE  IInv' /\ Lands
<1>1. /\ call' \in [Wing -> Call] /\ queue' \in Seq(Wing) /\ Line'
      /\ \A v \in Wing : SoundCall(call'[v])
  BY LineStays DEF TrunkMoves
<1> QED
  BY <1>1, QuietStep DEF TrunkMoves, mirror, IInv, TypeOK, Copies

\* A read of the mirror syncs it.
LEMMA ReadsStep ==
  ASSUME IInv, NEW r \in Reader, Reads(r), UNCHANGED setting
  PROVE  IInv' /\ Lands
<1>1. /\ call' \in [Wing -> Call] /\ queue' \in Seq(Wing) /\ Line'
      /\ \A v \in Wing : SoundCall(call'[v])
  BY LineStays DEF Reads, ReadLooks, ReadCompares, ReadResets
<1>2. /\ read[r] \in Read /\ read[r].want \in Commit /\ read[r].want < next
      /\ cache \in Commit /\ cache < next /\ claims[read[r].want] \in Claims
  BY DEF IInv, TypeOK, Read, Copies, Closed
<1>3. NoRead \in Read /\ NoRead.want < next
  BY MirrorAssumption DEF NoRead, Read, Root, Commit, IInv, TypeOK
<1>4. PICK x \in Read : x.want < next /\ read' = [read EXCEPT ![r] = x]
  <2>1. CASE ReadLooks(r)
    <3> DEFINE x == [pc |-> "compare", want |-> cache]
    <3>1. x \in Read /\ x.want < next
      BY <1>2 DEF Read
    <3> QED
      BY <2>1, <3>1 DEF ReadLooks
  <2>2. CASE ReadCompares(r)
    <3> DEFINE x == IF head = read[r].want THEN NoRead ELSE [read[r] EXCEPT !.pc = "reset"]
    <3>1. x \in Read /\ x.want < next
      BY <1>2, <1>3 DEF Read
    <3>2. read' = [read EXCEPT ![r] = x]
      BY <2>2 DEF ReadCompares, IInv, TypeOK
    <3> HIDE DEF x
    <3> QED
      BY <3>1, <3>2
  <2>3. CASE ReadResets(r)
    BY <2>3, <1>3 DEF ReadResets
  <2> QED
    BY <2>1, <2>2, <2>3 DEF Reads
<1>5. /\ UNCHANGED <<graph, origin, cache, holds, acked>>
      /\ head' \in {head, read[r].want} /\ files' \in {files, claims[read[r].want]}
  BY DEF Reads, ReadLooks, ReadCompares, ReadResets, mirror
<1>6. read' \in [Reader -> Read] /\ \A k \in Reader : read'[k].want < next
  BY <1>4 DEF IInv, TypeOK, Copies
<1> QED
  BY <1>1, <1>2, <1>5, <1>6, QuietStep DEF IInv, TypeOK, Copies

\* The process forgets its calls.
LEMMA RestartStep ==
  ASSUME IInv, Restart, UNCHANGED setting
  PROVE  IInv' /\ Lands
<1>1. NoCall \in Call /\ NoCall.pc = "idle" /\ SoundCall(NoCall)
  BY NoCallSound
<1>2. /\ call' \in [Wing -> Call] /\ queue' \in Seq(Wing)
      /\ \A v \in Wing : call'[v] = NoCall
      /\ Len(queue') = 0
  BY <1>1 DEF Restart
<1>3. Line'
  BY <1>1, <1>2 DEF Line
<1>4. NoRead \in Read /\ NoRead.want < next
  BY MirrorAssumption DEF NoRead, Read, Root, Commit, IInv, TypeOK
<1>5. read' \in [Reader -> Read] /\ \A x \in Reader : read'[x].want < next
  BY <1>4 DEF Restart
<1> QED
  BY <1>1, <1>2, <1>3, <1>5, QuietStep DEF Restart, mirror, IInv, TypeOK, Copies

\* A step that changes nothing.
LEMMA StutterStep ==
  ASSUME IInv, UNCHANGED vars
  PROVE  IInv' /\ Lands
  BY DEF IInv, TypeOK, Line, Closed, Copies, SoundCall, Lands, vars, graph, mirror

LEMMA InitIInv == Init => IInv
<1> SUFFICES ASSUME Init PROVE IInv
  OBVIOUS
<1> USE MirrorAssumption
<1>1. /\ Root \in Commit /\ 0 \in 0 .. MaxAttempts /\ Unclaimed \in Claims
      /\ \A c \in Commit : c \in Nat
  BY DEF Root, Commit, Unclaimed, Claims
<1>2. (CHOOSE n \in Node : TRUE) \in Node
  OBVIOUS
<1>3. NoCall \in Call /\ NoCall.pc = "idle" /\ NoCall.want = 0 /\ NoCall.cand = 0
  BY <1>1, <1>2 DEF NoCall, NewCall, Call, Step, Root
<1>4. NoRead \in Read /\ NoRead.want = 0
  BY <1>1 DEF NoRead, Read, Root
<1>5. TypeOK
  BY <1>1, <1>3, <1>4 DEF Init, TypeOK
<1>6. Len(queue) = 0 /\ Line
  BY <1>3 DEF Init, Line
<1>7. Closed /\ Copies
  BY <1>1, <1>4 DEF Init, Closed, Copies, Root
<1>8. \A w \in Wing : SoundCall(call[w])
  BY <1>3 DEF Init, SoundCall
<1> QED
  BY <1>5, <1>6, <1>7, <1>8 DEF IInv

LEMMA AppliesStep ==
  ASSUME IInv, NEW w \in Wing, Applies(w), UNCHANGED setting
  PROVE  IInv' /\ Lands
<1>1. CASE Looks(w) \/ Compares(w) \/ Resets(w)
  BY <1>1, LooksStep, ComparesStep, ResetsStep
<1>2. CASE ChecksPass(w) \/ Loads(w) \/ Stores(w) \/ StatusDirty(w)
  BY <1>2, PassStep, LoadsStep, StoresStep
<1>3. CASE ChecksRefuse(w) \/ StatusClean(w) \/ CommitsNothing(w) \/ GivesUp(w) \/ Fails(w)
  BY <1>3, EndsStep
<1>4. CASE Commits(w) \/ Pushes(w) \/ PushUnanswered(w) \/ Advances(w)
  BY <1>4, CommitsStep, PushesStep, PushUnansweredStep, AdvancesStep
<1>5. CASE RetriesAtOnce(w) \/ Fetches(w) \/ Realigns(w)
  BY <1>5, RetriesAtOnceStep, FetchesStep, RealignsStep
<1> QED
  BY <1>1, <1>2, <1>3, <1>4, <1>5 DEF Applies

LEMMA NextIInv == IInv /\ [Next]_vars => IInv' /\ Lands
<1> SUFFICES ASSUME IInv, [Next]_vars PROVE IInv' /\ Lands
  OBVIOUS
<1>1. CASE UNCHANGED vars
  BY <1>1, StutterStep
<1>2. CASE Next
  <2>1. /\ setting.nodes \subseteq Node /\ setting.readers \subseteq Reader
    BY MirrorAssumption DEF IInv, TypeOK
  <2>2. ASSUME NEW w \in Wing, NEW n \in setting.nodes,
               Calls(w, "claim", n) \/ Calls(w, "unclaim", n)
        PROVE  IInv' /\ Lands
    BY <1>2, <2>1, <2>2, CallsStep DEF Next
  <2>3. ASSUME NEW w \in Wing, Applies(w) PROVE IInv' /\ Lands
    BY <1>2, <2>3, AppliesStep DEF Next
  <2>4. ASSUME NEW r \in setting.readers, Reads(r) PROVE IInv' /\ Lands
    BY <1>2, <2>1, <2>4, ReadsStep DEF Next
  <2>5. CASE RemotePush \/ TrunkMoves \/ Restart
    BY <1>2, <2>5, RemotePushStep, TrunkMovesStep, RestartStep DEF Next
  <2> QED
    BY <1>2, <2>2, <2>3, <2>4, <2>5 DEF Next
<1> QED
  BY <1>1, <1>2

-----------------------------------------------------------------------------
(* What holds in every setting. *)

\* The invariant: who is queued, that the graph is closed and in order, and
\* that a call past the queue can rely on what it has read of the trunk.
THEOREM Invariance == Spec => []IInv
<1>1. IInv /\ [Next]_vars => IInv'
  BY NextIInv
<1> QED
  BY InitIInv, <1>1, PTL DEF Spec

\* Every variable keeps its type, and runAttempts stays within maxAttempts.
THEOREM TypeCorrect == Spec => []TypeOK
<1>1. IInv => TypeOK
  BY DEF IInv
<1> QED
  BY <1>1, Invariance, PTL

\* withMirrorApplySerialization: the one apply past the queue is its head,
\* whatever fails and across restarts.
THEOREM OneAtATime == Spec => []OneApply
<1>1. IInv => OneApply
  BY ActiveIsHead DEF OneApply, Active
<1> QED
  BY <1>1, Invariance, PTL

\* An apply takes nothing back from the trunk, reports only what landed, and
\* the local trunk it syncs the mirror to has nothing that is not published,
\* even with reads that reset the mirror and writes that are left behind.
THEOREM LedgerRefinement == Spec => ImplementsLedger
<1>1. Init => Ledger!Init
  BY MirrorAssumption DEF Init, Ledger!Init, Root, Commit
<1>2. IInv /\ [Next]_vars => [Ledger!Next]_(Ledger!vars)
  <2> SUFFICES ASSUME IInv, [Next]_vars PROVE [Ledger!Next]_(Ledger!vars)
    OBVIOUS
  <2>1. IInv' /\ Lands
    BY NextIInv
  <2>2. /\ (hist')[origin'] \subseteq Commit /\ acked' \subseteq (hist')[origin']
        /\ (hist')[cache'] \subseteq (hist')[origin']
    BY <2>1 DEF IInv, TypeOK, Copies, Closed
  <2>3. CASE UNCHANGED <<acked, cache>> /\ (hist')[cache] = hist[cache]
    BY <2>1, <2>2, <2>3 DEF Lands, Ledger!Next, Ledger!Publish
  <2>4. CASE UNCHANGED <<hist, origin>> /\ acked \subseteq acked'
    BY <2>1, <2>2, <2>4 DEF Ledger!Next, Ledger!Learn
  <2> QED
    BY <2>1, <2>3, <2>4 DEF Lands
<1> QED
  BY <1>1, <1>2, Invariance, PTL DEF Spec, ImplementsLedger, Ledger!Spec

-----------------------------------------------------------------------------
(* An apply ends, and so does the wait of those behind it. *)

\* The steps that an apply at pc may still take in its attempt.
StepsInAttempt(pc) ==
  CASE pc = "queued"  -> 13
    [] pc = "look"    -> 12
    [] pc = "compare" -> 11
    [] pc = "reset"   -> 10
    [] pc = "check"   -> 9
    [] pc = "load"    -> 8
    [] pc = "store"   -> 7
    [] pc = "status"  -> 6
    [] pc = "commit"  -> 5
    [] pc = "push"    -> 4
    [] OTHER          -> 1

\* And in all of them: the first is what ensureWorktree syncs in.
StepsLeft(c) == IF c.pc = "idle" THEN 0
                ELSE 13 * (MaxAttempts - c.tries) + StepsInAttempt(c.pc)

\* runAttempts: whatever is read, pushed and left behind meanwhile, an apply
\* has less to do after each of its steps.
AppliesBounded ==
  [][\A w \in Wing : call'[w] # call[w] =>
       IF call[w].pc = "idle" THEN StepsLeft(call'[w]) <= 13 * (MaxAttempts + 1)
                              ELSE StepsLeft(call'[w]) < StepsLeft(call[w])]_vars

\* applyQueue: who waits, waits for an apply that is on its way, in its turn.
LineMoves ==
  \A w \in Wing : call[w].pc = "queued" =>
    \E i \in 2 .. Len(queue) : queue[i] = w /\ call[queue[1]].pc \notin {"idle", "queued"}

LEMMA StepsTable ==
  /\ \A pc \in Step : StepsInAttempt(pc) \in 1 .. 13
  /\ StepsInAttempt("queued") = 13 /\ StepsInAttempt("look") = 12
  /\ StepsInAttempt("compare") = 11 /\ StepsInAttempt("reset") = 10
  /\ StepsInAttempt("check") = 9 /\ StepsInAttempt("load") = 8
  /\ StepsInAttempt("store") = 7 /\ StepsInAttempt("status") = 6
  /\ StepsInAttempt("commit") = 5 /\ StepsInAttempt("push") = 4
  /\ StepsInAttempt("advance") = 1 /\ StepsInAttempt("realign") = 1
  BY DEF StepsInAttempt, Step

\* r is nearer to the end than c: in the same attempt, in the next one, or there.
Nearer(r, c) ==
  \/ r.tries = c.tries /\ StepsInAttempt(r.pc) < StepsInAttempt(c.pc)
  \/ r.tries = c.tries + 1 /\ r.pc = "look"
  \/ r.pc = "idle"

LEMMA NearerIsLess ==
  ASSUME NEW c \in Call, NEW r \in Call, c.pc # "idle", Nearer(r, c)
  PROVE  StepsLeft(r) < StepsLeft(c)
<1>1. /\ c.tries \in 0 .. MaxAttempts /\ r.tries \in 0 .. MaxAttempts
      /\ MaxAttempts \in Nat /\ c.pc \in Step /\ r.pc \in Step
  BY MirrorAssumption DEF Call
<1>2. /\ StepsInAttempt(c.pc) \in 1 .. 13 /\ StepsInAttempt(r.pc) \in 1 .. 13
      /\ StepsInAttempt("look") = 12
  BY <1>1, StepsTable
<1>3. StepsLeft(c) = 13 * (MaxAttempts - c.tries) + StepsInAttempt(c.pc)
  BY DEF StepsLeft
<1>4. CASE r.pc = "idle"
  BY <1>1, <1>2, <1>3, <1>4 DEF StepsLeft
<1>5. CASE r.pc # "idle"
  <2>1. StepsLeft(r) = 13 * (MaxAttempts - r.tries) + StepsInAttempt(r.pc)
    BY <1>5 DEF StepsLeft
  <2> QED
    BY <1>1, <1>2, <1>3, <1>5, <2>1 DEF Nearer
<1> QED
  BY <1>4, <1>5

\* A step of one apply in its attempt, or to the next.
LEMMA AppliesNearer ==
  ASSUME IInv, NEW w \in Wing, Applies(w), ~Returns(w)
  PROVE  /\ \A v \in Wing \ {w} : call'[v] = call[v]
         /\ call[w].pc # "idle"
         /\ call'[w] # call[w] => Nearer(call'[w], call[w])
<1> DEFINE c == call[w]
<1>1. call \in [Wing -> Call] /\ c \in Call
  BY DEF IInv, TypeOK
<1> USE StepsTable
<1>2. ASSUME NEW r, call' = [call EXCEPT ![w] = r], c.pc # "idle", Nearer(r, c)
      PROVE  /\ \A v \in Wing \ {w} : call'[v] = call[v]
             /\ call[w].pc # "idle"
             /\ call'[w] # call[w] => Nearer(call'[w], call[w])
  BY <1>1, <1>2
<1>3. /\ Again(c).pc = "look" /\ Again(c).tries = c.tries + 1
  BY DEF Again, NewCall
<1>4. /\ c.pc = "compare" => Nearer(Synced(c), c)
      /\ c.pc = "reset" => Nearer(Synced(c), c)
  BY <1>1, <1>3 DEF Synced, Nearer, Call
<1>5. CASE Looks(w)
  <2> DEFINE r == [c EXCEPT !.pc = "compare", !.want = cache]
  <2>1. call' = [call EXCEPT ![w] = r] /\ c.pc = "look" /\ Nearer(r, c)
    BY <1>1, <1>5 DEF Looks, Nearer, Call
  <2> QED
    BY <1>2, <2>1
<1>6. CASE Compares(w)
  <2>1. CASE head = c.want
    BY <1>1, <1>2, <1>4, <1>6, <2>1 DEF Compares
  <2>2. CASE head # c.want
    <3> DEFINE r == [c EXCEPT !.pc = "reset"]
    <3>1. call' = [call EXCEPT ![w] = r] /\ c.pc = "compare" /\ Nearer(r, c)
      BY <1>1, <1>6, <2>2 DEF Compares, Nearer, Call
    <3> QED
      BY <1>2, <3>1
  <2> QED
    BY <2>1, <2>2
<1>7. CASE Resets(w)
  BY <1>1, <1>2, <1>4, <1>7 DEF Resets
<1>8. CASE ChecksPass(w)
  <2> DEFINE r == [c EXCEPT !.pc = "load"]
  <2>1. call' = [call EXCEPT ![w] = r] /\ c.pc = "check" /\ Nearer(r, c)
    BY <1>1, <1>8 DEF ChecksPass, GoesTo, Nearer, Call
  <2> QED
    BY <1>2, <2>1
<1>9. CASE Loads(w)
  <2> DEFINE r == [c EXCEPT !.pc = "store", !.view = files]
  <2>1. call' = [call EXCEPT ![w] = r] /\ c.pc = "load" /\ Nearer(r, c)
    BY <1>1, <1>9 DEF Loads, Nearer, Call
  <2> QED
    BY <1>2, <2>1
<1>10. CASE Stores(w)
  <2> DEFINE r == [c EXCEPT !.pc = "status", !.view = Unclaimed]
  <2>1. call' = [call EXCEPT ![w] = r] /\ c.pc = "store" /\ Nearer(r, c)
    BY <1>1, <1>10 DEF Stores, Nearer, Call
  <2> QED
    BY <1>2, <2>1
<1>11. CASE StatusDirty(w)
  <2> DEFINE r == [c EXCEPT !.pc = "commit"]
  <2>1. call' = [call EXCEPT ![w] = r] /\ c.pc = "status" /\ Nearer(r, c)
    BY <1>1, <1>11 DEF StatusDirty, GoesTo, Nearer, Call
  <2> QED
    BY <1>2, <2>1
<1>12. CASE Commits(w)
  <2> DEFINE r == [c EXCEPT !.pc = "push", !.cand = next]
  <2>1. call' = [call EXCEPT ![w] = r] /\ c.pc = "commit" /\ Nearer(r, c)
    BY <1>1, <1>12 DEF Commits, Nearer, Call
  <2> QED
    BY <1>2, <2>1
<1>13. CASE Pushes(w)
  <2> DEFINE r == [c EXCEPT !.pc = "advance"]
  <2>1. call' = [call EXCEPT ![w] = r] /\ c.pc = "push" /\ Nearer(r, c)
    BY <1>1, <1>13 DEF Pushes, GoesTo, Nearer, Call
  <2> QED
    BY <1>2, <2>1
<1>14. CASE Fetches(w)
  <2> DEFINE r == [c EXCEPT !.pc = "realign", !.want = origin]
  <2>1. call' = [call EXCEPT ![w] = r] /\ c.pc = "push" /\ Nearer(r, c)
    BY <1>1, <1>14 DEF Fetches, Rejected, Nearer, Call
  <2> QED
    BY <1>2, <2>1
<1>15. CASE RetriesAtOnce(w) \/ Realigns(w)
  BY <1>1, <1>2, <1>3, <1>15 DEF RetriesAtOnce, Rejected, Realigns, Nearer
<1> QED
  BY <1>5, <1>6, <1>7, <1>8, <1>9, <1>10, <1>11, <1>12, <1>13, <1>14, <1>15
     DEF Applies, ChecksRefuse, StatusClean, CommitsNothing, PushUnanswered, Advances, GivesUp, Fails

\* The end of an apply: the next in the queue goes on.
LEMMA ReturnsNearer ==
  ASSUME IInv, NEW w \in Wing, Applies(w), Returns(w), NEW v \in Wing, call'[v] # call[v]
  PROVE  call[v].pc # "idle" /\ Nearer(call'[v], call[v])
<1>1. Active(call[w])
  BY DEF Applies, Looks, Compares, Resets, ChecksRefuse, ChecksPass, Loads, Stores, StatusClean,
         StatusDirty, Commits, CommitsNothing, Pushes, PushUnanswered, Advances, Rejected, GivesUp,
         RetriesAtOnce, Fetches, Realigns, Fails, Active
<1>2. CASE v = w
  <2>1. call'[w] = NoCall /\ NoCall.pc = "idle"
    BY <1>1, LetsNextIn, NoCallSound
  <2> QED
    BY <1>1, <1>2, <2>1 DEF Nearer, Active
<1>3. CASE v # w
  <2>1. call[v].pc = "queued" /\ call'[v] = [call[v] EXCEPT !.pc = "look"]
    BY <1>1, <1>3, LetsNextIn
  <2>2. call[v] \in Call
    BY DEF IInv, TypeOK
  <2> DEFINE r == [call[v] EXCEPT !.pc = "look"]
  <2>3. r.tries = call[v].tries /\ r.pc = "look"
    BY <2>2 DEF Call
  <2> QED
    BY <2>1, <2>3, StepsTable DEF Nearer
<1> QED
  BY <1>2, <1>3

LEMMA BoundedStep ==
  ASSUME IInv, [Next]_vars, NEW w \in Wing, call'[w] # call[w]
  PROVE  IF call[w].pc = "idle" THEN StepsLeft(call'[w]) <= 13 * (MaxAttempts + 1)
                                ELSE StepsLeft(call'[w]) < StepsLeft(call[w])
<1>1. IInv' /\ call[w] \in Call /\ call'[w] \in Call /\ MaxAttempts \in Nat
  <2>1. IInv'
    BY NextIInv
  <2> QED
    BY <2>1, MirrorAssumption DEF IInv, TypeOK
<1>2. ASSUME NEW v \in Wing, Applies(v)
      PROVE  call[w].pc # "idle" /\ Nearer(call'[w], call[w])
  BY <1>2, AppliesNearer, ReturnsNearer
<1>3. ASSUME NEW v \in Wing, NEW op \in {"claim", "unclaim"}, NEW n, Calls(v, op, n)
      PROVE  /\ call[w].pc = "idle"
             /\ call'[w].pc \in {"look", "queued"} /\ call'[w].tries = 0
  <2>1. v = w
    BY <1>3 DEF Calls, IInv, TypeOK
  <2>2. call'[w] = NewCall(IF queue = <<>> THEN "look" ELSE "queued", op, n)
    BY <1>3, <2>1 DEF Calls, IInv, TypeOK
  <2> QED
    BY <1>3, <2>1, <2>2 DEF Calls, NewCall
<1>4. ASSUME Restart
      PROVE  call'[w].pc = "idle"
  BY <1>4, NoCallSound DEF Restart
<1>5. CASE call[w].pc = "idle"
  <2>1. call'[w].pc = "idle" \/ (call'[w].pc \in {"look", "queued"} /\ call'[w].tries = 0)
    BY <1>2, <1>3, <1>4, <1>5 DEF Next, Reads, ReadLooks, ReadCompares, ReadResets, RemotePush,
                                  TrunkMoves, vars
  <2>2. CASE call'[w].pc = "idle"
    BY <1>1, <1>5, <2>2 DEF StepsLeft
  <2>3. CASE call'[w].pc \in {"look", "queued"} /\ call'[w].tries = 0
    <3>1. StepsInAttempt(call'[w].pc) \in {12, 13}
      BY <2>3, StepsTable
    <3>2. StepsLeft(call'[w]) = 13 * (MaxAttempts - 0) + StepsInAttempt(call'[w].pc)
      BY <2>3 DEF StepsLeft
    <3> QED
      BY <1>1, <1>5, <3>1, <3>2
  <2> QED
    BY <2>1, <2>2, <2>3
<1>6. CASE call[w].pc # "idle"
  <2>1. Nearer(call'[w], call[w])
    BY <1>2, <1>3, <1>4, <1>6 DEF Next, Reads, ReadLooks, ReadCompares, ReadResets, RemotePush,
                                  TrunkMoves, vars, Nearer
  <2> QED
    BY <1>1, <1>6, <2>1, NearerIsLess
<1> QED
  BY <1>5, <1>6

\* An apply ends after finitely many steps of its own, retries included, and one
\* that waits is behind an apply that is past the queue.  So with a scheduler
\* that resumes the apply at the head, every claim and release returns.
THEOREM AppliesEnd == Spec => AppliesBounded /\ []LineMoves
<1>1. IInv /\ [Next]_vars =>
        [\A w \in Wing : call'[w] # call[w] =>
           IF call[w].pc = "idle" THEN StepsLeft(call'[w]) <= 13 * (MaxAttempts + 1)
                                  ELSE StepsLeft(call'[w]) < StepsLeft(call[w])]_vars
  BY BoundedStep
<1>2. IInv => LineMoves
  <2> SUFFICES ASSUME IInv, NEW w \in Wing, call[w].pc = "queued"
               PROVE  \E i \in 2 .. Len(queue) :
                        queue[i] = w /\ call[queue[1]].pc \notin {"idle", "queued"}
    BY DEF LineMoves
  <2>1. PICK i \in 1 .. Len(queue) : queue[i] = w
    BY DEF IInv, Line
  <2>2. queue \in Seq(Wing) /\ Len(queue) \in Nat
    BY DEF IInv, TypeOK
  <2>3. i # 1
    BY <2>1 DEF IInv, Line
  <2>4. 1 \in 1 .. Len(queue) /\ i \in 2 .. Len(queue) /\ queue[1] \in Wing
    BY <2>1, <2>2, <2>3
  <2>5. call[queue[1]].pc # "idle" /\ call[queue[1]].pc # "queued"
    BY <2>4 DEF IInv, Line
  <2> QED
    BY <2>1, <2>4, <2>5
<1> QED
  BY <1>1, <1>2, Invariance, PTL DEF Spec, AppliesBounded

-----------------------------------------------------------------------------
(* Claims, where nobody reads the mirror and nothing is left behind in it. *)

\* What c's transform finds at its node, and what it writes there.
Old(c, w) == IF c.op = "claim" THEN Nobody ELSE w
New(c, w) == IF c.op = "claim" THEN w ELSE Nobody

\* The commit that c pushes is one write of its own on top of the trunk.
Proposes(c, w) ==
  \E b \in hist[origin] :
    /\ hist[c.cand] = {c.cand} \cup hist[b]
    /\ claims[b][c.node] = Old(c, w)
    /\ claims[c.cand] = [claims[b] EXCEPT ![c.node] = New(c, w)]

\* What the apply c of w knows of the mirror and of the trunk.
CalmCall(c, w) ==
  /\ c.pc # "idle" /\ c.op = "unclaim" => <<w, c.node>> \notin holds
  /\ c.pc \in {"check", "load", "store", "status", "commit"} => head \in hist[origin]
  /\ c.pc \in {"load", "store", "status", "commit"} => claims[head][c.node] = Old(c, w)
  /\ c.pc = "store" => c.view = claims[head]
  /\ c.pc \in {"status", "commit"} => files = [claims[head] EXCEPT ![c.node] = New(c, w)]
  /\ c.pc = "push" => Proposes(c, w)
  /\ c.pc = "advance" /\ c.op = "claim" => claims[origin][c.node] = w

Writing(c) == c.pc \in {"status", "commit"}

Claiming == /\ ClaimsKept
            /\ Dirty => \E w \in Wing : Writing(call[w])
            /\ \A w \in Wing : CalmCall(call[w], w)

\* What a step does to ClaimRegistry's view of the claims.
Tells ==
  LET owner == claims[origin]
      owner2 == (claims')[origin']
  IN \/ owner2 = owner /\ holds' = holds
     \/ \E o \in Owner, n \in Node :
          /\ owner[n] = Nobody
          /\ owner2 = [owner EXCEPT ![n] = o]
          /\ holds' = holds
     \/ \E o \in Owner, n \in Node :
          /\ owner[n] = o /\ <<o, n>> \notin holds
          /\ owner2 = [owner EXCEPT ![n] = Nobody]
          /\ holds' = holds
     \/ \E w \in Wing, n \in Node :
          /\ owner2 = owner /\ owner[n] = w
          /\ holds' = holds \cup {<<w, n>>}
     \/ \E w \in Wing, n \in Node :
          /\ owner2 = owner
          /\ holds' = holds \ {<<w, n>>}

\* A push changes the entry of its own node only.
OwnOnly ==
  \A w \in Wing : call[w].pc = "push" /\ origin' = call[w].cand
     => \A n \in Node \ {call[w].node} : (claims')[origin'][n] = claims[origin][n]

\* What a step must show, in a calm setting.
Keeps == Claiming' /\ Tells /\ OwnOnly

\* The names that stand for nobody are nobody's.
LEMMA Names ==
  /\ \A w \in Wing : w # Nobody /\ w # Elsewhere /\ w \in Owner
  /\ Elsewhere # Nobody /\ Elsewhere \in Owner
  BY MirrorAssumption DEF Owner

\* A call that waits, or has just been let in, knows nothing yet.
LEMMA WaitingCalm ==
  ASSUME Claiming, NEW v \in Wing, call[v].pc \in {"idle", "queued"},
         \/ call'[v] = call[v]
         \/ call[v].pc = "queued" /\ call'[v] = [call[v] EXCEPT !.pc = "look"],
         call[v] \in Call,
         \A n \in Node : <<v, n>> \in holds' => <<v, n>> \in holds
  PROVE  CalmCall(call[v], v)'
<1>1. CalmCall(call[v], v) /\ call[v].node \in Node
  BY DEF Claiming, Call
<1>2. /\ call'[v].pc \in {"idle", "queued", "look"} /\ call'[v].op = call[v].op
      /\ call'[v].node = call[v].node
      /\ call'[v].pc # "idle" => call[v].pc # "idle"
  BY DEF Call
<1> QED
  BY <1>1, <1>2 DEF CalmCall

\* A step of the call past the queue.
LEMMA CalmStep ==
  ASSUME IInv, Claiming, NEW w \in Wing, Active(call[w]),
         \A v \in Wing \ {w} :
           \/ call'[v] = call[v]
           \/ call[v].pc = "queued" /\ call'[v] = [call[v] EXCEPT !.pc = "look"],
         \A v \in Wing \ {w}, n \in Node : <<v, n>> \in holds' => <<v, n>> \in holds,
         CalmCall(call[w], w)', ClaimsKept',
         Dirty' => Writing(call'[w])
  PROVE  Claiming'
<1>1. \A v \in Wing \ {w} : call[v].pc \in {"idle", "queued"} /\ call[v] \in Call
  BY ActiveIsHead, Facts
<1>2. \A v \in Wing \ {w} : CalmCall(call[v], v)'
  BY <1>1, WaitingCalm
<1> QED
  BY <1>2 DEF Claiming

\* While an apply is elsewhere than between its write and its commit, the
\* mirror is clean.
LEMMA CleanMirror ==
  ASSUME IInv, Claiming, NEW w \in Wing, Active(call[w]), ~Writing(call[w])
  PROVE  files = claims[head]
  BY ActiveIsHead DEF Claiming, Writing, Dirty

\* A step that leaves the trunk and what was told alone.
LEMMA SameView ==
  ASSUME (claims')[origin'] = claims[origin], holds' = holds
  PROVE  Tells /\ OwnOnly
  BY DEF Tells, OwnOnly

\* A step of a call that leaves the trunk and what was told alone.
LEMMA InnerStep ==
  ASSUME IInv, Claiming, NEW w \in Wing, Active(call[w]), NEW r \in Call, Active(r),
         call' = [call EXCEPT ![w] = r], UNCHANGED <<graph, origin, queue, holds>>,
         CalmCall(r, w)', Dirty' => Writing(r)
  PROVE  Keeps
<1>1. call'[w] = r /\ \A v \in Wing \ {w} : call'[v] = call[v]
  BY GoesOn
<1>2. ClaimsKept' /\ (claims')[origin'] = claims[origin] /\ holds' = holds
  BY DEF Claiming, ClaimsKept, graph
<1>3. CalmCall(call[w], w)'
  BY <1>1 DEF CalmCall, Proposes, Old, New
<1>4. Claiming'
  BY <1>1, <1>2, <1>3, CalmStep
<1> QED
  BY <1>2, <1>4, SameView DEF Keeps

\* trunkTip is read.
LEMMA LooksCalm ==
  ASSUME IInv, Claiming, NEW w \in Wing, Looks(w)
  PROVE  Keeps
<1>1. PICK r \in Call : r = [call[w] EXCEPT !.pc = "compare", !.want = cache]
  BY Facts DEF Call, Step
<1>2. /\ r.pc = "compare" /\ r.op = call[w].op /\ r.node = call[w].node
      /\ Active(call[w]) /\ ~Writing(call[w])
      /\ call' = [call EXCEPT ![w] = r] /\ UNCHANGED <<graph, origin, mirror, queue, holds>>
  BY <1>1, Facts DEF Looks, Active, Writing, Call, IInv, TypeOK
<1>3. CalmCall(r, w)'
  BY <1>2 DEF CalmCall, Claiming, Active
<1>4. ~Dirty'
  BY <1>2, CleanMirror DEF Dirty, mirror, graph
<1> QED
  BY <1>2, <1>3, <1>4, InnerStep DEF Active

\* A synced call starts to look at the files, or begins its first attempt.
LEMMA SyncedCalm ==
  ASSUME IInv, Claiming, NEW w \in Wing, Active(call[w]),
         call' = [call EXCEPT ![w] = Synced(call[w])],
         UNCHANGED <<graph, origin, queue, holds>>,
         head' \in hist[origin], files' = claims[head']
  PROVE  Keeps
<1>1. PICK r \in Call : r = Synced(call[w])
  BY SyncedSound
<1>2. /\ r.pc \in {"look", "check"} /\ r.op = call[w].op /\ r.node = call[w].node
      /\ call' = [call EXCEPT ![w] = r]
  BY <1>1, SyncedSound
<1>3. CalmCall(r, w)'
  BY <1>2 DEF CalmCall, Claiming, Active, graph
<1>4. ~Dirty'
  BY DEF Dirty, graph
<1> QED
  BY <1>2, <1>3, <1>4, InnerStep DEF Active

\* mirrorTip is read, and is the trunk's or not.
LEMMA ComparesCalm ==
  ASSUME IInv, Claiming, NEW w \in Wing, Compares(w)
  PROVE  Keeps
<1>1. /\ call[w].pc = "compare" /\ Active(call[w]) /\ ~Writing(call[w])
      /\ call[w].want \in hist[origin] /\ UNCHANGED <<graph, origin, mirror, queue, holds>>
  BY Facts DEF Compares, Active, Writing, SoundCall
<1>2. files = claims[head]
  BY <1>1, CleanMirror
<1>3. CASE head = call[w].want
  <2>1. call' = [call EXCEPT ![w] = Synced(call[w])]
    BY <1>3 DEF Compares, IInv, TypeOK
  <2> QED
    BY <1>1, <1>2, <1>3, <2>1, SyncedCalm DEF mirror
<1>4. CASE head # call[w].want
  <2>1. PICK r \in Call : r = [call[w] EXCEPT !.pc = "reset"]
    BY Facts DEF Call, Step
  <2>2. /\ r.pc = "reset" /\ r.op = call[w].op /\ r.node = call[w].node
        /\ call' = [call EXCEPT ![w] = r]
    BY <1>4, <2>1, Facts DEF Compares, Call, IInv, TypeOK
  <2>3. CalmCall(r, w)'
    BY <1>1, <2>2 DEF CalmCall, Claiming, Active
  <2>4. ~Dirty'
    BY <1>1, <1>2 DEF Dirty, mirror, graph
  <2> QED
    BY <1>1, <2>2, <2>3, <2>4, InnerStep DEF Active
<1> QED
  BY <1>3, <1>4

\* The mirror takes the tip that was read, which is on the trunk.
LEMMA ResetsCalm ==
  ASSUME IInv, Claiming, NEW w \in Wing, Resets(w)
  PROVE  Keeps
<1>1. Active(call[w]) /\ call' = [call EXCEPT ![w] = Synced(call[w])]
  BY DEF Resets, Active, IInv, TypeOK
<1>2. head' \in hist[origin] /\ files' = claims[head']
  BY Facts DEF Resets, SoundCall
<1> QED
  BY <1>1, <1>2, SyncedCalm DEF Resets

\* The transform has seen the node free, or its own.
LEMMA ChecksPassCalm ==
  ASSUME IInv, Claiming, NEW w \in Wing, ChecksPass(w)
  PROVE  Keeps
<1>1. PICK r \in Call : r = [call[w] EXCEPT !.pc = "load"]
  BY Facts DEF Call, Step
<1>2. /\ call[w].pc = "check" /\ Active(call[w]) /\ ~Writing(call[w])
      /\ r.pc = "load" /\ r.op = call[w].op /\ r.node = call[w].node
      /\ call' = [call EXCEPT ![w] = r] /\ UNCHANGED <<graph, origin, mirror, queue, holds>>
  BY <1>1, Facts DEF ChecksPass, GoesTo, Active, Writing, Call, IInv, TypeOK
<1>3. files = claims[head] /\ files[call[w].node] = Old(r, w)
  BY <1>2, CleanMirror DEF ChecksPass, Allowed, Old
<1>4. CalmCall(r, w)'
  BY <1>2, <1>3 DEF CalmCall, Claiming, Active, Old, mirror, graph
<1>5. ~Dirty'
  BY <1>2, <1>3 DEF Dirty, mirror, graph
<1> QED
  BY <1>2, <1>4, <1>5, InnerStep DEF Active

\* claims.toml is read: it is the trunk's as the mirror has it.
LEMMA LoadsCalm ==
  ASSUME IInv, Claiming, NEW w \in Wing, Loads(w)
  PROVE  Keeps
<1>1. PICK r \in Call : r = [call[w] EXCEPT !.pc = "store", !.view = files]
  BY Facts DEF Call, Step
<1>2. /\ call[w].pc = "load" /\ Active(call[w]) /\ ~Writing(call[w])
      /\ r.pc = "store" /\ r.op = call[w].op /\ r.node = call[w].node /\ r.view = files
      /\ call' = [call EXCEPT ![w] = r] /\ UNCHANGED <<graph, origin, mirror, queue, holds>>
  BY <1>1, Facts DEF Loads, Active, Writing, Call, IInv, TypeOK
<1>3. files = claims[head]
  BY <1>2, CleanMirror
<1>4. CalmCall(r, w)'
  BY <1>2, <1>3 DEF CalmCall, Claiming, Active, Old, mirror, graph
<1>5. ~Dirty'
  BY <1>2, <1>3 DEF Dirty, mirror, graph
<1> QED
  BY <1>2, <1>4, <1>5, InnerStep DEF Active

\* claims.toml is written: one entry of what the mirror has.
LEMMA StoresCalm ==
  ASSUME IInv, Claiming, NEW w \in Wing, Stores(w)
  PROVE  Keeps
<1>1. PICK r \in Call : r = [call[w] EXCEPT !.pc = "status", !.view = Unclaimed]
  <2>1. Unclaimed \in Claims
    BY DEF Unclaimed, Claims
  <2> QED
    BY <2>1, Facts DEF Call, Step
<1>2. /\ call[w].pc = "store" /\ Active(call[w])
      /\ r.pc = "status" /\ r.op = call[w].op /\ r.node = call[w].node
      /\ call' = [call EXCEPT ![w] = r] /\ UNCHANGED <<graph, origin, head, queue, holds>>
  BY <1>1, Facts DEF Stores, Active, Call, IInv, TypeOK
<1>3. files' = [claims[head] EXCEPT ![r.node] = New(r, w)]
  <2>1. call[w].view = claims[head]
    BY <1>2 DEF Claiming, CalmCall
  <2> QED
    BY <1>2, <2>1 DEF Stores, New
<1>4. CalmCall(r, w)'
  BY <1>2, <1>3 DEF CalmCall, Claiming, Active, Old, New, graph
<1> QED
  BY <1>2, <1>4, InnerStep DEF Active, Writing

\* isDirty finds the write.
LEMMA StatusDirtyCalm ==
  ASSUME IInv, Claiming, NEW w \in Wing, StatusDirty(w)
  PROVE  Keeps
<1>1. PICK r \in Call : r = [call[w] EXCEPT !.pc = "commit"]
  BY Facts DEF Call, Step
<1>2. /\ call[w].pc = "status" /\ Active(call[w])
      /\ r.pc = "commit" /\ r.op = call[w].op /\ r.node = call[w].node
      /\ call' = [call EXCEPT ![w] = r] /\ UNCHANGED <<graph, origin, mirror, queue, holds>>
  BY <1>1, Facts DEF StatusDirty, GoesTo, Active, Call, IInv, TypeOK
<1>3. CalmCall(r, w)'
  BY <1>2 DEF CalmCall, Claiming, Active, Old, New, mirror, graph
<1> QED
  BY <1>2, <1>3, InnerStep DEF Active, Writing

\* A lost race: the next attempt starts from nothing, and until then the
\* mirror is clean.
LEMMA RetryCalm ==
  ASSUME IInv, Claiming, NEW w \in Wing, RetriesAtOnce(w) \/ Fetches(w) \/ Realigns(w)
  PROVE  Keeps
<1>1. call[w].pc \in {"push", "realign"} /\ Active(call[w]) /\ ~Writing(call[w])
  BY DEF RetriesAtOnce, Fetches, Realigns, Rejected, Active, Writing
<1>2. PICK r \in Call : /\ r.pc \in {"look", "realign"} /\ r.op = call[w].op
                        /\ r.node = call[w].node /\ call' = [call EXCEPT ![w] = r]
  <2>1. CASE Fetches(w)
    <3> DEFINE r == [call[w] EXCEPT !.pc = "realign", !.want = origin]
    <3>1. r \in Call /\ r.pc = "realign" /\ r.op = call[w].op /\ r.node = call[w].node
      BY Facts DEF Call, Step
    <3>2. call' = [call EXCEPT ![w] = r]
      BY <2>1 DEF Fetches, IInv, TypeOK
    <3> QED
      BY <3>1, <3>2
  <2>2. CASE RetriesAtOnce(w) \/ Realigns(w)
    <3>1. call[w].tries < MaxAttempts
      BY <2>2, Facts DEF RetriesAtOnce, Realigns, LastTry, SoundCall
    <3>2. call' = [call EXCEPT ![w] = Again(call[w])]
      BY <2>2 DEF RetriesAtOnce, Realigns, IInv, TypeOK
    <3> QED
      BY <3>1, <3>2, AgainSound
  <2> QED
    BY <2>1, <2>2
<1>3. UNCHANGED <<graph, origin, mirror, queue, holds>>
  BY DEF RetriesAtOnce, Fetches, Realigns
<1>4. CalmCall(r, w)'
  BY <1>1, <1>2, <1>3 DEF CalmCall, Claiming, Active
<1>5. ~Dirty'
  BY <1>1, <1>3, CleanMirror DEF Dirty, mirror, graph
<1> QED
  BY <1>1, <1>2, <1>3, <1>4, <1>5, InnerStep DEF Active

\* A call that ends leaves the mirror clean.
LEMMA ReturnCalm ==
  ASSUME IInv, Claiming, NEW w \in Wing, Active(call[w]), Returns(w),
         ~Dirty', ClaimsKept',
         \A v \in Wing \ {w}, n \in Node : <<v, n>> \in holds' => <<v, n>> \in holds
  PROVE  Claiming'
<1>1. /\ call'[w] = NoCall
      /\ \A v \in Wing \ {w} :
           \/ call'[v] = call[v]
           \/ call[v].pc = "queued" /\ call'[v] = [call[v] EXCEPT !.pc = "look"]
  BY LetsNextIn
<1>2. CalmCall(call[w], w)'
  BY <1>1, NoCallSound DEF CalmCall
<1> QED
  BY <1>1, <1>2, CalmStep

\* A call that ends with nothing pushed: in a calm setting it has nothing left
\* in the mirror, and isDirty never finds its write gone.
LEMMA EndsCalm ==
  ASSUME IInv, Calm, Claiming, NEW w \in Wing,
         ChecksRefuse(w) \/ StatusClean(w) \/ CommitsNothing(w) \/ GivesUp(w) \/ Fails(w)
  PROVE  Keeps
<1>1. Active(call[w]) /\ Returns(w) /\ UNCHANGED <<graph, origin, mirror>>
  BY DEF ChecksRefuse, StatusClean, CommitsNothing, GivesUp, Rejected, Fails, Active
<1>2. ~StatusClean(w)
  <2> SUFFICES ASSUME StatusClean(w) PROVE FALSE
    OBVIOUS
  <2>1. call[w].pc = "status" /\ files = claims[head]
    BY DEF StatusClean, Dirty
  <2>2. /\ claims[head][call[w].node] = Old(call[w], w)
        /\ files = [claims[head] EXCEPT ![call[w].node] = New(call[w], w)]
    BY <2>1 DEF Claiming, CalmCall
  <2>3. claims[head] \in [Node -> Owner \cup {Nobody}] /\ call[w].node \in Node
    BY Facts DEF TypeOK, Claims
  <2>4. New(call[w], w) = Old(call[w], w)
    BY <2>1, <2>2, <2>3
  <2> QED
    BY <2>4, Names DEF Old, New
<1>3. holds' = holds
  BY <1>2 DEF ChecksRefuse, CommitsNothing, GivesUp, Fails
<1>4. files = claims[head]
  <2>1. CASE CommitsNothing(w)
    BY <2>1 DEF CommitsNothing, Dirty
  <2>2. CASE ChecksRefuse(w) \/ GivesUp(w) \/ Fails(w)
    <3>1. ~Writing(call[w])
      BY <2>2 DEF ChecksRefuse, GivesUp, Rejected, Fails, Ending, Unsaved, Calm, Writing
    <3> QED
      BY <1>1, <3>1, CleanMirror
  <2> QED
    BY <1>2, <2>1, <2>2
<1>5. ~Dirty' /\ ClaimsKept' /\ (claims')[origin'] = claims[origin]
  BY <1>1, <1>3, <1>4 DEF Dirty, mirror, graph, Claiming, ClaimsKept
<1>6. Claiming'
  BY <1>1, <1>3, <1>5, ReturnCalm
<1> QED
  BY <1>3, <1>5, <1>6, SameView DEF Keeps

\* The call that has landed returns: a claim is told while it stands.
LEMMA AdvancesCalm ==
  ASSUME IInv, Calm, Claiming, NEW w \in Wing, Advances(w)
  PROVE  Keeps
<1>1. /\ call[w].pc = "advance" /\ Active(call[w]) /\ ~Writing(call[w]) /\ Returns(w)
      /\ UNCHANGED <<graph, origin, mirror>>
  BY DEF Advances, Active, Writing
<1>2. (claims')[origin'] = claims[origin] /\ origin' = origin /\ call[w].node \in Node
  BY <1>1, Facts DEF graph
<1>3. ~Dirty'
  BY <1>1, CleanMirror DEF Dirty, mirror, graph
<1>4. CASE call[w].op = "claim"
  <2>1. claims[origin][call[w].node] = w
    BY <1>1, <1>4 DEF Claiming, CalmCall
  <2>2. holds' = holds \cup {<<w, call[w].node>>}
    BY <1>4 DEF Advances, Reports
  <2>3. ClaimsKept'
    BY <1>2, <2>1, <2>2 DEF Claiming, ClaimsKept
  <2>4. Claiming'
    BY <1>1, <1>3, <2>2, <2>3, ReturnCalm
  <2>5. Tells
    BY <1>2, <2>1, <2>2 DEF Tells
  <2> QED
    BY <1>2, <2>4, <2>5 DEF Keeps, OwnOnly
<1>5. CASE call[w].op # "claim"
  <2>1. holds' = holds /\ ClaimsKept'
    BY <1>2, <1>5 DEF Advances, Reports, Claiming, ClaimsKept
  <2>2. Claiming'
    BY <1>1, <1>3, <2>1, ReturnCalm
  <2> QED
    BY <1>2, <2>1, <2>2, SameView DEF Keeps
<1> QED
  BY <1>4, <1>5

\* A call joins the queue; a wing that gives a node back stops counting on it.
LEMMA CallsCalm ==
  ASSUME IInv, Claiming, NEW w \in Wing, NEW op \in {"claim", "unclaim"}, NEW n \in Node,
         Calls(w, op, n)
  PROVE  Keeps
<1>1. /\ call[w].pc = "idle" /\ UNCHANGED <<graph, origin, mirror>>
      /\ holds' = IF op = "unclaim" THEN holds \ {<<w, n>>} ELSE holds
  BY DEF Calls
<1>2. /\ call'[w].pc \in {"look", "queued"} /\ call'[w].op = op /\ call'[w].node = n
      /\ \A v \in Wing \ {w} : call'[v] = call[v]
  BY Joins
<1>3. (claims')[origin'] = claims[origin] /\ ClaimsKept'
  BY <1>1 DEF graph, Claiming, ClaimsKept
<1>4. Dirty' => \E v \in Wing : Writing(call'[v])
  BY <1>1, <1>2 DEF Claiming, Dirty, mirror, graph, Writing
<1>5. ASSUME NEW v \in Wing PROVE CalmCall(call[v], v)'
  <2>1. CASE v = w
    BY <2>1, <1>1, <1>2 DEF CalmCall
  <2>2. CASE v # w
    <3>1. CalmCall(call[v], v) /\ call'[v] = call[v]
      BY <2>2, <1>2 DEF Claiming
    <3>2. /\ hist' = hist /\ claims' = claims /\ origin' = origin
          /\ head' = head /\ files' = files
          /\ \A x : x \in holds' => x \in holds
      BY <1>1 DEF mirror, graph
    <3>3. call[v].pc = "push" => Proposes(call[v], v)'
      BY <3>1, <3>2 DEF CalmCall, Proposes, Old, New
    <3> QED
      BY <3>1, <3>2, <3>3 DEF CalmCall, Old, New
  <2> QED
    BY <2>1, <2>2
<1>6. Tells
  BY <1>1, <1>3 DEF Tells
<1> QED
  BY <1>1, <1>3, <1>4, <1>5, <1>6 DEF Keeps, Claiming, OwnOnly, graph

\* The write is committed on top of the mirror's tip, which is on the trunk.
LEMMA CommitsCalm ==
  ASSUME IInv, Claiming, NEW w \in Wing, Commits(w)
  PROVE  Keeps
<1>1. /\ next \in Commit /\ next' = next + 1
      /\ \A c \in Commit : c < next => hist'[c] = hist[c] /\ claims'[c] = claims[c]
      /\ hist'[next] = {next} \cup hist[head] /\ claims'[next] = files
  BY CreateGrows, Facts DEF Commits
<1>2. PICK r \in Call : r = [call[w] EXCEPT !.pc = "push", !.cand = next]
  BY <1>1, Facts DEF Call, Step
<1>3. /\ call[w].pc = "commit" /\ Active(call[w])
      /\ r.pc = "push" /\ r.op = call[w].op /\ r.node = call[w].node /\ r.cand = next
      /\ call' = [call EXCEPT ![w] = r]
      /\ head' = next /\ UNCHANGED <<origin, files, queue, holds>>
  BY <1>2, Facts DEF Commits, Active, Call, IInv, TypeOK
<1>4. /\ head \in hist[origin] /\ claims[head][r.node] = Old(r, w)
      /\ files = [claims[head] EXCEPT ![r.node] = New(r, w)]
  BY <1>3 DEF Claiming, CalmCall, Old, New
<1>5. /\ hist'[origin] = hist[origin] /\ claims'[origin] = claims[origin]
      /\ hist'[head] = hist[head] /\ claims'[head] = claims[head]
  BY <1>1, Facts
<1>6. Proposes(r, w)'
  BY <1>1, <1>3, <1>4, <1>5 DEF Proposes, Old, New
<1>7. call'[w] = r /\ \A v \in Wing \ {w} : call'[v] = call[v]
  BY <1>3, GoesOn DEF Active
<1>8. CalmCall(call[w], w)'
  BY <1>3, <1>6, <1>7 DEF CalmCall, Claiming, Proposes, Old, New
<1>9. ~Dirty' /\ ClaimsKept' /\ (claims')[origin'] = claims[origin]
  BY <1>1, <1>3, <1>5 DEF Dirty, Claiming, ClaimsKept
<1>10. Claiming'
  BY <1>3, <1>7, <1>8, <1>9, CalmStep
<1> QED
  BY <1>3, <1>9, <1>10, SameView DEF Keeps

\* What origin takes is one write on top of what it has: either the node is
\* free and is taken, or it is the caller's, who has let go of it already.
LEMMA PushTells ==
  ASSUME IInv, Claiming, NEW w \in Wing, call[w].pc = "push", Accepts(call[w].cand),
         origin' = call[w].cand, UNCHANGED <<graph, holds>>
  PROVE  /\ Tells /\ OwnOnly /\ ClaimsKept'
         /\ call[w].op = "claim" => (claims')[origin'][call[w].node] = w
<1> DEFINE c == call[w]
<1>1. PICK b \in hist[origin] :
        /\ hist[c.cand] = {c.cand} \cup hist[b]
        /\ claims[b][c.node] = Old(c, w)
        /\ claims[c.cand] = [claims[b] EXCEPT ![c.node] = New(c, w)]
  BY DEF Claiming, CalmCall, Proposes
<1>2. /\ b \in Commit /\ b <= origin /\ hist[b] \subseteq hist[origin]
      /\ origin \in Commit /\ b \in Nat /\ origin \in Nat
      /\ c.node \in Node /\ c.cand \in Commit /\ c.op \in {"claim", "unclaim"}
  BY <1>1, Facts DEF IInv, TypeOK, Closed
<1>3. origin' = c.cand /\ claims' = claims /\ holds' = holds
  BY DEF graph
<1>4. claims[b] \in [Node -> Owner \cup {Nobody}]
  BY <1>2, Facts DEF TypeOK, Claims
<1>5. claims[c.cand][c.node] = New(c, w)
  BY <1>1, <1>2, <1>4
<1>6. \A v \in Wing : v # w => call[v].pc # "push"
  BY ActiveIsHead DEF Active
<1>7. CASE origin = c.cand
  <2>1. (claims')[origin'] = claims[origin]
    BY <1>3, <1>7
  <2>2. ClaimsKept'
    BY <1>3, <2>1 DEF Claiming, ClaimsKept
  <2> QED
    BY <1>3, <1>5, <2>1, <2>2, SameView DEF New
<1>8. CASE origin # c.cand
  <2>1. b = origin
    <3>1. origin \in hist[b]
      BY <1>1, <1>8 DEF Accepts
    <3>2. origin <= b
      BY <1>2, <3>1 DEF IInv, Closed
    <3> QED
      BY <1>2, <3>2
  <2>2. /\ claims[origin][c.node] = Old(c, w)
        /\ (claims')[origin'] = [claims[origin] EXCEPT ![c.node] = New(c, w)]
    BY <1>1, <1>3, <2>1
  <2>3. \A n \in Node \ {c.node} : (claims')[origin'][n] = claims[origin][n]
    BY <1>4, <2>1, <2>2
  <2>4. OwnOnly
    BY <1>6, <2>3 DEF OwnOnly
  <2>5. <<w, c.node>> \notin holds
    <3>1. CASE c.op = "claim"
      BY <2>2, <3>1, <1>2, Names DEF Old, Claiming, ClaimsKept
    <3>2. CASE c.op = "unclaim"
      BY <3>2 DEF Claiming, CalmCall
    <3> QED
      BY <1>2, <3>1, <3>2
  <2>6. ClaimsKept'
    <3> SUFFICES ASSUME NEW v \in Wing, NEW n \in Node, <<v, n>> \in holds
                 PROVE  (claims')[origin'][n] = v
      BY <1>3 DEF ClaimsKept
    <3>1. claims[origin][n] = v
      BY DEF Claiming, ClaimsKept
    <3>2. CASE n = c.node
      BY <2>2, <2>5, <3>1, <3>2, Names DEF Old
    <3>3. CASE n # c.node
      BY <2>3, <3>1, <3>3
    <3> QED
      BY <3>2, <3>3
  <2>7. Tells
    <3>1. CASE c.op = "claim"
      BY <1>2, <1>3, <2>2, <3>1, Names DEF Tells, Old, New
    <3>2. CASE c.op = "unclaim"
      <4>1. /\ claims[origin][c.node] = w
            /\ (claims')[origin'] = [claims[origin] EXCEPT ![c.node] = Nobody]
        BY <2>2, <3>2 DEF Old, New
      <4> QED
        BY <1>2, <1>3, <2>5, <4>1, Names DEF Tells
    <3> QED
      BY <1>2, <3>1, <3>2
  <2> QED
    BY <1>3, <1>5, <2>4, <2>6, <2>7 DEF New
<1> QED
  BY <1>7, <1>8

\* Origin takes the commit.
LEMMA PushesCalm ==
  ASSUME IInv, Claiming, NEW w \in Wing, Pushes(w)
  PROVE  Keeps
<1>1. PICK r \in Call : r = [call[w] EXCEPT !.pc = "advance"]
  BY Facts DEF Call, Step
<1>2. /\ call[w].pc = "push" /\ Active(call[w]) /\ ~Writing(call[w])
      /\ r.pc = "advance" /\ r.op = call[w].op /\ r.node = call[w].node
      /\ call' = [call EXCEPT ![w] = r]
      /\ UNCHANGED <<graph, mirror, queue, holds>>
  BY <1>1, Facts DEF Pushes, GoesTo, Active, Writing, Call, IInv, TypeOK
<1>3. /\ Tells /\ OwnOnly /\ ClaimsKept'
      /\ call[w].op = "claim" => (claims')[origin'][call[w].node] = w
  BY <1>2, PushTells DEF Pushes
<1>4. call'[w] = r /\ \A v \in Wing \ {w} : call'[v] = call[v]
  BY <1>2, GoesOn DEF Active
<1>5. CalmCall(call[w], w)'
  BY <1>2, <1>3, <1>4 DEF CalmCall, Claiming
<1>6. ~Dirty'
  BY <1>2, CleanMirror DEF Dirty, mirror, graph
<1>7. Claiming'
  BY <1>2, <1>3, <1>4, <1>5, <1>6, CalmStep
<1> QED
  BY <1>3, <1>7 DEF Keeps

\* Origin takes the commit, and the call throws.
LEMMA PushUnansweredCalm ==
  ASSUME IInv, Claiming, NEW w \in Wing, PushUnanswered(w)
  PROVE  Keeps
<1>1. /\ call[w].pc = "push" /\ Active(call[w]) /\ ~Writing(call[w]) /\ Returns(w)
      /\ UNCHANGED <<graph, mirror, holds>>
  BY DEF PushUnanswered, Active, Writing
<1>2. Tells /\ OwnOnly /\ ClaimsKept'
  BY <1>1, PushTells DEF PushUnanswered
<1>3. ~Dirty'
  BY <1>1, CleanMirror DEF Dirty, mirror, graph
<1>4. Claiming'
  BY <1>1, <1>2, <1>3, ReturnCalm
<1> QED
  BY <1>2, <1>4 DEF Keeps

-----------------------------------------------------------------------------
(* Everyone else, in a calm setting. *)

\* What a call knows survives commits of others that leave its claim alone.
LEMMA OutsideCalm ==
  ASSUME IInv, Claiming, Grows, NEW v \in Wing, UNCHANGED <<call, mirror, holds>>,
         \A n \in Node : claims[origin][n] = v => (claims')[origin'][n] = v
  PROVE  CalmCall(call[v], v)'
<1>1. CalmCall(call[v], v) /\ call'[v] = call[v]
  BY DEF Claiming
<1>2. /\ head \in Commit /\ head < next /\ call[v].cand \in Commit /\ call[v].cand < next
      /\ call[v].node \in Node
  BY Facts DEF SoundCall
<1>3. /\ claims'[head] = claims[head] /\ head' = head /\ files' = files
      /\ hist'[call[v].cand] = hist[call[v].cand] /\ claims'[call[v].cand] = claims[call[v].cand]
      /\ hist[origin] \subseteq (hist')[origin'] /\ holds' = holds
  BY <1>2 DEF Grows, mirror
<1>4. call[v].pc = "push" => Proposes(call[v], v)'
  <2> SUFFICES ASSUME call[v].pc = "push" PROVE Proposes(call[v], v)'
    OBVIOUS
  <2>1. PICK b \in hist[origin] :
          /\ hist[call[v].cand] = {call[v].cand} \cup hist[b]
          /\ claims[b][call[v].node] = Old(call[v], v)
          /\ claims[call[v].cand] = [claims[b] EXCEPT ![call[v].node] = New(call[v], v)]
    BY <1>1 DEF CalmCall, Proposes
  <2>2. b \in Commit /\ b < next
    BY <2>1 DEF IInv, TypeOK, Closed
  <2>3. hist'[b] = hist[b] /\ claims'[b] = claims[b] /\ b \in (hist')[origin']
    BY <1>3, <2>1, <2>2 DEF Grows
  <2> QED
    BY <1>1, <1>3, <2>1, <2>3 DEF Proposes, Old, New
<1> QED
  BY <1>1, <1>2, <1>3, <1>4 DEF CalmCall, Old, New

\* Another machine lands something: it takes a free node, gives back a node of
\* its own, or does neither.
LEMMA RemotePushCalm ==
  ASSUME IInv, Claiming, RemotePush, UNCHANGED setting
  PROVE  Keeps
<1>1. /\ origin \in Commit /\ origin < next /\ origin' = next /\ head \in Commit /\ head < next
      /\ claims[origin] \in [Node -> Owner \cup {Nobody}]
      /\ UNCHANGED <<call, mirror, holds>> /\ setting.nodes \subseteq Node
  BY MirrorAssumption DEF IInv, TypeOK, Copies, Claims, RemotePush
<1>2. PICK c : /\ Create(origin, c)
               /\ \/ c = claims[origin]
                  \/ \E n \in setting.nodes :
                       claims[origin][n] = Nobody /\ c = [claims[origin] EXCEPT ![n] = Elsewhere]
                  \/ \E n \in setting.nodes :
                       claims[origin][n] = Elsewhere /\ c = [claims[origin] EXCEPT ![n] = Nobody]
  BY DEF RemotePush
<1>3. c \in Claims
  BY <1>1, <1>2 DEF Claims, Owner
<1>4. /\ next \in Commit /\ next' = next + 1
      /\ \A d \in Commit : d < next => hist'[d] = hist[d] /\ claims'[d] = claims[d]
      /\ hist'[next] = {next} \cup hist[origin] /\ claims'[next] = c
  BY <1>1, <1>2, <1>3, CreateGrows
<1>5. Grows
  <2>1. next \in Nat
    BY MirrorAssumption DEF IInv, TypeOK
  <2>2. hist[origin] \subseteq (hist')[origin']
    BY <1>1, <1>4
  <2> QED
    BY <1>4, <2>1, <2>2 DEF Grows
<1>6. (claims')[origin'] = c /\ holds' = holds
  BY <1>1, <1>4
<1>7. \A v \in Wing, n \in Node : claims[origin][n] = v => c[n] = v
  BY <1>1, <1>2, Names
<1>8. \A v \in Wing : CalmCall(call[v], v)'
  BY <1>1, <1>5, <1>6, <1>7, OutsideCalm
<1>9. ClaimsKept'
  BY <1>6, <1>7 DEF Claiming, ClaimsKept
<1>10. Dirty' => \E v \in Wing : Writing(call'[v])
  <2>1. claims'[head] = claims[head] /\ head' = head /\ files' = files
    BY <1>1, <1>4 DEF mirror
  <2> QED
    BY <1>1, <2>1 DEF Claiming, Dirty
<1>11. Tells
  <2>1. CASE c = claims[origin]
    BY <1>6, <2>1 DEF Tells
  <2>2. CASE \E n \in setting.nodes :
               claims[origin][n] = Nobody /\ c = [claims[origin] EXCEPT ![n] = Elsewhere]
    BY <1>1, <1>6, <2>2, Names DEF Tells
  <2>3. CASE \E n \in setting.nodes :
               claims[origin][n] = Elsewhere /\ c = [claims[origin] EXCEPT ![n] = Nobody]
    <3>1. \A n \in Node : <<Elsewhere, n>> \notin holds
      BY Names DEF IInv, TypeOK
    <3> QED
      BY <1>1, <1>6, <2>3, <3>1, Names DEF Tells
  <2> QED
    BY <1>2, <2>1, <2>2, <2>3
<1>12. OwnOnly
  <2>1. \A w \in Wing : call[w].cand # next
    <3>1. \A w \in Wing : call[w].cand \in Nat /\ call[w].cand < next /\ next \in Nat
      BY Facts DEF SoundCall
    <3> QED
      BY <3>1
  <2> QED
    BY <1>1, <2>1 DEF OwnOnly
<1> QED
  BY <1>1, <1>8, <1>9, <1>10, <1>11, <1>12 DEF Keeps, Claiming

\* The local trunk moves.
LEMMA TrunkMovesCalm ==
  ASSUME IInv, Claiming, TrunkMoves
  PROVE  Keeps
<1>1. /\ UNCHANGED <<graph, origin, call, mirror, holds>> /\ next \in Nat
      /\ (claims')[origin'] = claims[origin]
  BY MirrorAssumption DEF TrunkMoves, graph, IInv, TypeOK
<1>2. Grows
  BY <1>1 DEF Grows, graph
<1>3. \A v \in Wing : CalmCall(call[v], v)'
  BY <1>1, <1>2, OutsideCalm
<1>4. ClaimsKept' /\ (Dirty' => \E v \in Wing : Writing(call'[v]))
  BY <1>1 DEF Claiming, ClaimsKept, Dirty, mirror, graph
<1> QED
  BY <1>1, <1>3, <1>4, SameView DEF Keeps, Claiming

\* The process forgets its calls, none of which was writing.
LEMMA RestartCalm ==
  ASSUME IInv, Calm, Claiming, Restart
  PROVE  Keeps
<1>1. /\ UNCHANGED <<graph, origin, mirror, holds>> /\ (claims')[origin'] = claims[origin]
      /\ \A w \in Wing : ~Writing(call[w]) /\ call'[w] = NoCall
  BY DEF Restart, Unsaved, Calm, Writing, graph
<1>2. ~Dirty' /\ ClaimsKept'
  BY <1>1 DEF Claiming, ClaimsKept, Dirty, mirror, graph
<1>3. \A v \in Wing : CalmCall(call[v], v)'
  BY <1>1, NoCallSound DEF CalmCall
<1> QED
  BY <1>1, <1>2, <1>3, SameView DEF Keeps, Claiming

LEMMA AppliesCalm ==
  ASSUME IInv, Calm, Claiming, NEW w \in Wing, Applies(w)
  PROVE  Keeps
<1>1. CASE Looks(w) \/ Compares(w) \/ Resets(w)
  BY <1>1, LooksCalm, ComparesCalm, ResetsCalm
<1>2. CASE ChecksPass(w) \/ Loads(w) \/ Stores(w) \/ StatusDirty(w)
  BY <1>2, ChecksPassCalm, LoadsCalm, StoresCalm, StatusDirtyCalm
<1>3. CASE ChecksRefuse(w) \/ StatusClean(w) \/ CommitsNothing(w) \/ GivesUp(w) \/ Fails(w)
  BY <1>3, EndsCalm
<1>4. CASE Commits(w) \/ Pushes(w) \/ PushUnanswered(w) \/ Advances(w)
  BY <1>4, CommitsCalm, PushesCalm, PushUnansweredCalm, AdvancesCalm
<1>5. CASE RetriesAtOnce(w) \/ Fetches(w) \/ Realigns(w)
  BY <1>5, RetryCalm
<1> QED
  BY <1>1, <1>2, <1>3, <1>4, <1>5 DEF Applies

\* The setting, and whether it is calm, is there to stay.
LEMMA CalmStays ==
  ASSUME [Next]_vars
  PROVE  setting' = setting /\ (Calm' <=> Calm)
<1>1. setting' = setting
  BY DEF Next, vars
<1> QED
  BY <1>1 DEF Calm, Mishaps

LEMMA NextCalm ==
  ASSUME IInv, Calm, Claiming, [Next]_vars
  PROVE  Keeps
<1>1. CASE UNCHANGED vars
  <2>1. /\ (claims')[origin'] = claims[origin] /\ holds' = holds
        /\ Claiming'
    BY <1>1 DEF vars, graph, mirror, Claiming, ClaimsKept, Dirty, CalmCall, Proposes, Old, New,
                Writing
  <2> QED
    BY <2>1, SameView DEF Keeps
<1>2. CASE Next
  <2>1. setting.nodes \subseteq Node /\ setting.readers = {}
    BY MirrorAssumption DEF IInv, TypeOK, Calm
  <2>2. ASSUME NEW w \in Wing, NEW n \in setting.nodes,
               Calls(w, "claim", n) \/ Calls(w, "unclaim", n)
        PROVE  Keeps
    BY <2>1, <2>2, CallsCalm
  <2>3. ASSUME NEW w \in Wing, Applies(w) PROVE Keeps
    BY <2>3, AppliesCalm
  <2>4. CASE RemotePush \/ TrunkMoves \/ Restart
    BY <1>2, <2>4, RemotePushCalm, TrunkMovesCalm, RestartCalm DEF Next
  <2> QED
    BY <1>2, <2>1, <2>2, <2>3, <2>4 DEF Next
<1> QED
  BY <1>1, <1>2

LEMMA InitClaiming == Init => Claiming
<1> SUFFICES ASSUME Init PROVE Claiming
  OBVIOUS
<1>1. IInv
  BY InitIInv
<1>2. NoCall.pc = "idle"
  BY <1>1, NoCallSound
<1>3. files = claims[head] /\ ClaimsKept
  BY <1>1 DEF Init, ClaimsKept, IInv, TypeOK
<1> QED
  BY <1>2, <1>3 DEF Init, Claiming, CalmCall, Dirty

-----------------------------------------------------------------------------
(* What holds in calm settings. *)

\* What the mirror's files are at each step of an apply, and that every claim
\* that was told stands on the trunk.
THEOREM ClaimsStand == Spec => [](Calm => Claiming)
<1>1. Init => (Calm => Claiming)
  BY InitClaiming
<1>2. IInv /\ (Calm => Claiming) /\ [Next]_vars => (Calm => Claiming)'
  BY NextCalm, CalmStays DEF Keeps
<1> QED
  BY <1>1, <1>2, Invariance, PTL DEF Spec

\* Every attempt runs its transform on a mirror in which nothing uncommitted
\* is left.
THEOREM StartsClean == Spec => []FromScratch
<1>1. IInv /\ (Calm => Claiming) => FromScratch
  BY CleanMirror DEF FromScratch, Dirty, Active, Writing
<1> QED
  BY <1>1, Invariance, ClaimsStand, PTL

\* What a claim publishes changes the entry of its own node only, although it
\* writes all of claims.toml.
THEOREM OtherNodesKept == Spec => OnlyOwnNode
<1>1. IInv /\ (Calm => Claiming) /\ [Next]_vars =>
        [\A w \in Wing : Calm /\ call[w].pc = "push" /\ origin' = call[w].cand
           => \A n \in Node \ {call[w].node} : (claims')[origin'][n] = claims[origin][n]]_vars
  BY NextCalm DEF Keeps, OwnOnly
<1> QED
  BY <1>1, Invariance, ClaimsStand, PTL DEF Spec, OnlyOwnNode

\* Claims are exclusive, only their holder gives them back, and a wing that
\* was told of its claim has it until it gives it back: the trunk's claims.toml
\* implements ClaimRegistry.
THEOREM RegistryRefinement == Spec => ImplementsRegistry
<1>1. Init => Registry!Init
  BY MirrorAssumption DEF Init, Registry!Init, Unclaimed, Root, Commit
<1>2. IInv /\ (Calm => Claiming) /\ [Next]_vars => [Registry!Next]_(Registry!vars)
  <2> SUFFICES ASSUME IInv, Calm => Claiming, [Next]_vars
               PROVE  [Registry!Next]_(Registry!vars)
    OBVIOUS
  <2>1. CASE ~Calm
    BY <2>1, CalmStays DEF Registry!vars
  <2>2. CASE Calm
    <3>1. Tells /\ Calm'
      BY <2>2, NextCalm, CalmStays DEF Keeps
    <3> QED
      BY <2>2, <3>1 DEF Tells, Registry!vars, Registry!Next, Registry!Take, Registry!GiveBack,
                        Registry!Told, Registry!Lets
  <2> QED
    BY <2>1, <2>2
<1> QED
  BY <1>1, <1>2, Invariance, ClaimsStand, PTL DEF Spec, ImplementsRegistry, Registry!Spec
=============================================================================
