------------------------- MODULE QualityWatch_proofs -------------------------
(***************************************************************************)
(* Proofs about QualityWatch: its safety properties hold for any wings,    *)
(* callers, number of processes and threshold.                             *)
(*                                                                         *)
(* None of them is inductive.  What makes them so is that the spawns are   *)
(* counted: the current process is the one spawned last, this.starting is  *)
(* its promise, and only it is polled by the heartbeat (Processes); and    *)
(* that the misses that are counted are its own (Heart).                   *)
(***************************************************************************)
EXTENDS QualityWatch, TLAPS

Processes ==
  /\ child = next - 1
  /\ starting = child
  /\ \A k \in Child : k >= next => proc[k] = "none" /\ k \notin killed /\ k \notin polls
  /\ OneProcess

Heart ==
  /\ beat # NoChild => beat = child /\ misses < Threshold /\ misses <= missed[beat]
  /\ child \in polls => beat = child

IInv == TypeOK /\ Processes /\ Heart /\ Invalidated

-----------------------------------------------------------------------------
(* The operators the handlers share. *)

LEMMA ChildNat == Child \subseteq Nat /\ NoChild \notin Child /\ NoChild \in Nat
BY QualityWatchAssumption DEF Child, NoChild

\* start of a process where the current one, if any, is gone or told to die.
LEMMA SpawnsType ==
  ASSUME TypeOK, NEW old \in [Child -> Process], Spawns(old)
  PROVE  /\ proc' \in [Child -> Process]
         /\ promise' \in [Child -> {"none", "pending", "url", "failed"}]
         /\ child' \in Child /\ child' = next
         /\ starting' = child'
         /\ next' \in 1 .. MaxChild + 1
         /\ next' = next + 1
         /\ \A k \in Child : k # next => proc'[k] = old[k]
<1> USE QualityWatchAssumption
<1>1. next \in Child /\ next \in Nat /\ MaxChild \in Nat
  BY DEF Spawns, TypeOK, Child
<1>2. next' = next + 1 /\ next' \in 1 .. MaxChild + 1
  BY <1>1 DEF Spawns, Child
<1>3. proc' = [old EXCEPT ![next] = "silent"]
  BY DEF Spawns
<1>4. proc' \in [Child -> Process] /\ \A k \in Child : k # next => proc'[k] = old[k]
  BY <1>1, <1>3 DEF Process
<1>5. promise' \in [Child -> {"none", "pending", "url", "failed"}]
  BY <1>1 DEF Spawns, TypeOK
<1> QED
  BY <1>1, <1>2, <1>4, <1>5 DEF Spawns

\* A call of getOrCreateQualityWatcher starts from nothing but the first.
LEMMA EnsureStartedKeeps ==
  ASSUME TypeOK, Processes, EnsureStarted, UNCHANGED <<killed, polls>>
  PROVE  /\ proc' \in [Child -> Process]
         /\ promise' \in [Child -> {"none", "pending", "url", "failed"}]
         /\ child' \in Child \cup {NoChild}
         /\ starting' \in Child \cup {NoChild}
         /\ next' \in 1 .. MaxChild + 1
         /\ Processes'
         /\ child # NoChild => child' = child
         /\ child' \notin polls \/ child' = child
<1> USE QualityWatchAssumption
<1>1. CASE starting # NoChild
  BY <1>1 DEF EnsureStarted, TypeOK, Processes, OneProcess
<1>2. CASE starting = NoChild
  <2>1. Spawns(proc) /\ child = NoChild /\ next = 1
    BY <1>2 DEF EnsureStarted, Processes, TypeOK, NoChild
  <2>2. proc \in [Child -> Process]
    BY DEF TypeOK
  <2>3. /\ proc' \in [Child -> Process]
        /\ promise' \in [Child -> {"none", "pending", "url", "failed"}]
        /\ child' \in Child /\ child' = 1
        /\ starting' = child'
        /\ next' \in 1 .. MaxChild + 1
        /\ next' = 2
        /\ \A k \in Child : k # 1 => proc'[k] = proc[k]
    BY <2>1, <2>2, SpawnsType
  <2>4. \A k \in Child : k \in Nat /\ k >= 1
    BY DEF Child
  <2>5. \A k \in Child : proc[k] = "none" /\ k \notin killed /\ k \notin polls
    BY <2>1, <2>4 DEF Processes
  <2>6. Processes'
    BY <2>3, <2>4, <2>5 DEF Processes, OneProcess
  <2> QED
    BY <2>1, <2>3, <2>5, <2>6
<1> QED
  BY <1>1, <1>2

\* An emergency: the replacement is the only live process that nobody told to
\* die, and no watcher is left of the old one.
LEMMA EmergencyKeeps ==
  ASSUME IInv, NEW now \in [Child -> Process], Emergency(now),
         killed' \subseteq Child, killed \subseteq killed',
         \A k \in killed' : k < next,
         polls' \subseteq polls,
         misses' \in 0 .. Threshold, missed' \in [Child -> 0 .. Threshold],
         \A k \in Child : k >= next => now[k] = "none",
         \A k \in Child : now[k] \in {"silent", "up"} => k \in killed'
  PROVE  IInv'
<1> USE QualityWatchAssumption
<1>1. Spawns(now) /\ beat' = NoChild /\ respawn' = next /\ UNCHANGED call /\ lost' = {} /\ Invalidates
  BY DEF Emergency
<1>2. TypeOK /\ next \in Child /\ next \in Nat
  BY <1>1 DEF IInv, TypeOK, Spawns
<1>3. /\ proc' \in [Child -> Process]
      /\ promise' \in [Child -> {"none", "pending", "url", "failed"}]
      /\ child' \in Child /\ child' = next
      /\ starting' = child'
      /\ next' \in 1 .. MaxChild + 1
      /\ next' = next + 1
      /\ \A k \in Child : k # next => proc'[k] = now[k]
  BY <1>1, <1>2, SpawnsType
<1>4. cache' = [w \in Wing |-> NoWatcher] /\ pending' \subseteq Wing
  BY <1>1 DEF Invalidates
<1>5. cache' \in [Wing -> Watcher]
  BY <1>4 DEF NoWatcher, Watcher
<1>6. TypeOK'
  BY <1>1, <1>2, <1>3, <1>4, <1>5 DEF TypeOK
<1>7. Processes'
  <2>1. \A k \in Child : k \in Nat
    BY ChildNat
  <2>2. \A k \in Child : k >= next' => proc'[k] = "none" /\ k \notin killed' /\ k \notin polls'
    BY <1>2, <1>3, <2>1 DEF IInv, Processes
  <2>3. OneProcess'
    BY <1>2, <1>3, <2>1 DEF OneProcess
  <2> QED
    BY <1>2, <1>3, <2>2, <2>3 DEF Processes
<1>8. Heart'
  <2>1. next \notin polls
    BY <1>2 DEF IInv, Processes
  <2> QED
    BY <1>1, <1>3, <2>1 DEF Heart
<1>9. Invalidated'
  BY <1>4 DEF Invalidated, NoWatcher
<1> QED
  BY <1>6, <1>7, <1>8, <1>9 DEF IInv

-----------------------------------------------------------------------------
(* The inductive invariant, action by action. *)

\* What an action that only moves calls and watchers leaves alone.
LEMMA WatchersStep ==
  ASSUME IInv, UNCHANGED <<processes, heartbeat>>,
         cache' \in [Wing -> Watcher], pending' \subseteq Wing, call' \in [Id -> ACall],
         lost' \subseteq Wing,
         Invalidated'
  PROVE  IInv'
BY DEF IInv, TypeOK, Processes, OneProcess, Heart, processes, heartbeat

LEMMA ExitsKeeps == ASSUME IInv, NEW k \in Child, Exits(k) PROVE IInv'
<1> USE QualityWatchAssumption
<1> DEFINE now == [proc EXCEPT ![k] = "exited"]
<1>1. now \in [Child -> Process] /\ \A j \in Child : j # k => now[j] = proc[j]
  BY DEF IInv, TypeOK, Process
<1>2. now[k] = "exited" /\ proc[k] # "none"
  BY DEF IInv, TypeOK, Exits
<1>3. CASE k = child
  <2>1. Emergency(now) /\ UNCHANGED <<killed, polls, misses, missed>>
    BY <1>3 DEF Exits
  <2>2. killed' \subseteq Child /\ misses' \in 0 .. Threshold /\ missed' \in [Child -> 0 .. Threshold]
    BY <2>1 DEF IInv, TypeOK
  <2>3. \A j \in killed' : j < next
    BY <2>1, ChildNat DEF IInv, TypeOK, Processes
  <2>4. \A j \in Child : j >= next => now[j] = "none"
    BY <1>1, <1>2 DEF IInv, Processes
  <2>5. \A j \in Child : now[j] \in {"silent", "up"} => j \in killed'
    BY <1>1, <1>2, <1>3, <2>1 DEF IInv, Processes, OneProcess
  <2> HIDE DEF now
  <2> QED
    BY <1>1, <2>1, <2>2, <2>3, <2>4, <2>5, EmergencyKeeps
<1>4. CASE k # child
  <2>1. /\ proc' = now
        /\ UNCHANGED <<next, child, starting, promise, respawn, beat, watchers, killed, polls,
                       misses, missed>>
    BY <1>4 DEF Exits
  <2>2. TypeOK' /\ Heart' /\ Invalidated'
    BY <1>1, <2>1 DEF IInv, TypeOK, Heart, Invalidated, watchers
  <2>3. Processes'
    BY <1>1, <1>2, <2>1 DEF IInv, Processes, OneProcess
  <2> QED
    BY <2>2, <2>3 DEF IInv
<1> QED
  BY <1>3, <1>4

LEMMA ReattachesType ==
  ASSUME TypeOK, NEW k \in Child, Reattaches(k)
  PROVE  pending' \subseteq Wing /\ call' \in [Id -> ACall]
<1>1. CASE respawn # k
  BY <1>1 DEF Reattaches, TypeOK
<1>2. CASE respawn = k
  <2> DEFINE again(c) == LET w == c[1] IN
                 IF cache[w].by = None
                 THEN [pc |-> "url", wing |-> w, on |-> k, of |-> None]
                 ELSE IF Running(w) THEN NoCall
                 ELSE [pc |-> "start", wing |-> w, on |-> cache[w].on, of |-> cache[w].by]
  <2>1. ASSUME NEW c \in pending \X {k} PROVE again(c) \in ACall
    <3>1. c[1] \in Wing
      BY <2>1 DEF TypeOK
    <3>2. cache[c[1]].by \in Id \cup {None} /\ cache[c[1]].on \in Child \cup {NoChild}
      BY <3>1 DEF TypeOK, Watcher
    <3> QED
      BY <3>1, <3>2 DEF ACall, NoCall
  <2>2. call \in [Id -> ACall]
    BY DEF TypeOK
  <2> HIDE DEF again
  <2>3. call' = [c \in Id |-> IF c \in pending \X {k} THEN again(c) ELSE call[c]] /\ pending' = {}
    BY <1>2 DEF Reattaches, again
  <2> QED
    BY <2>1, <2>2, <2>3
<1> QED
  BY <1>1, <1>2

LEMMA AnnouncesKeeps == ASSUME IInv, NEW k \in Child, Announces(k) PROVE IInv'
<1> USE QualityWatchAssumption
<1>1. /\ k = child /\ proc[k] = "silent" /\ proc' = [proc EXCEPT ![k] = "up"]
      /\ beat' = k /\ misses' = 0
      /\ UNCHANGED <<killed, next, child, starting, respawn, polls, missed, cache, lost>>
  BY DEF Announces
<1>2. pending' \subseteq Wing /\ call' \in [Id -> ACall]
  BY ReattachesType DEF Announces, IInv, TypeOK
<1>3. promise' \in [Child -> {"none", "pending", "url", "failed"}]
  BY DEF Announces, IInv, TypeOK
<1>4. proc' \in [Child -> Process] /\ \A j \in Child : j # k => proc'[j] = proc[j]
  BY <1>1 DEF IInv, TypeOK, Process
<1>5. TypeOK'
  BY <1>1, <1>2, <1>3, <1>4 DEF IInv, TypeOK
<1>6. Processes'
  BY <1>1, <1>4 DEF IInv, Processes, OneProcess
<1>7. Heart' /\ Invalidated'
  BY <1>1 DEF IInv, TypeOK, Heart, Invalidated
<1> QED
  BY <1>5, <1>6, <1>7 DEF IInv

LEMMA TimesOutKeeps == ASSUME IInv, NEW k \in Child, TimesOut(k) PROVE IInv'
BY DEF TimesOut, IInv, TypeOK, Processes, OneProcess, Heart, Invalidated, heartbeat, watchers

LEMMA TicksKeeps == ASSUME IInv, Ticks PROVE IInv'
<1>1. beat = child /\ beat \in Child /\ beat < next
  BY QualityWatchAssumption DEF Ticks, IInv, TypeOK, Processes, Heart, NoChild, Child
<1> QED
  BY <1>1, ChildNat DEF Ticks, IInv, TypeOK, Processes, OneProcess, Heart, Invalidated,
    processes, watchers

\* One more miss of k itself.
LEMMA MissingType ==
  ASSUME TypeOK, NEW k \in Child, Missing(k)
  PROVE  /\ missed' \in [Child -> 0 .. Threshold]
         /\ \A j \in Child : j # k => missed'[j] = missed[j]
         /\ missed'[k] = IF missed[k] < Threshold THEN missed[k] + 1 ELSE Threshold
BY QualityWatchAssumption DEF TypeOK, Missing

LEMMA AnsweredKeeps == ASSUME IInv, NEW k \in Child, Answered(k) PROVE IInv'
<1> USE QualityWatchAssumption
<1>1. polls' \subseteq polls /\ UNCHANGED <<processes, beat, watchers>>
  BY DEF Answered, PollEnds
<1>2. missed' \in [Child -> 0 .. Threshold] /\ \A j \in Child : j # k => missed'[j] = missed[j]
  BY DEF Answered, IInv, TypeOK
<1>3. misses' \in 0 .. Threshold /\ misses' <= misses /\ (k = child => misses' = 0)
  BY DEF Answered, IInv, TypeOK
<1>4. TypeOK' /\ Processes' /\ Invalidated'
  BY <1>1, <1>2, <1>3 DEF IInv, TypeOK, Processes, OneProcess, Invalidated, processes, watchers
<1>5. Heart'
  BY <1>1, <1>2, <1>3 DEF IInv, TypeOK, Heart, processes, NoChild
<1> QED
  BY <1>4, <1>5 DEF IInv

LEMMA MissesKeeps == ASSUME IInv, NEW k \in Child, Misses(k) PROVE IInv'
<1> USE QualityWatchAssumption
<1>1. polls' \subseteq polls /\ k \in polls /\ UNCHANGED <<processes, beat, watchers>> /\ Missing(k)
  BY DEF Misses, PollEnds
<1>2. /\ missed' \in [Child -> 0 .. Threshold]
      /\ \A j \in Child : j # k => missed'[j] = missed[j]
      /\ missed'[k] = IF missed[k] < Threshold THEN missed[k] + 1 ELSE Threshold
  BY <1>1, MissingType DEF IInv
<1>3. /\ k = child => misses + 1 < Threshold /\ misses' = misses + 1
      /\ k # child => misses' = misses
  BY DEF Misses, Current, Hung, IInv, TypeOK
<1>4. TypeOK' /\ Processes' /\ Invalidated'
  BY <1>1, <1>2, <1>3 DEF IInv, TypeOK, Processes, OneProcess, Invalidated, processes, watchers
<1>5. Heart'
  BY <1>1, <1>2, <1>3 DEF IInv, TypeOK, Heart, processes, NoChild
<1> QED
  BY <1>4, <1>5 DEF IInv

LEMMA DeclaresHungKeeps == ASSUME IInv, NEW k \in Child, DeclaresHung(k) PROVE IInv'
<1> USE QualityWatchAssumption
<1>1. /\ polls' \subseteq polls /\ k \in polls /\ Missing(k) /\ k = child
      /\ misses' = misses + 1 /\ killed' = killed \cup {child} /\ Emergency(proc)
  BY DEF DeclaresHung, PollEnds, Current
<1>2. missed' \in [Child -> 0 .. Threshold]
  BY <1>1, MissingType DEF IInv
<1>3. misses' \in 0 .. Threshold
  BY <1>1 DEF IInv, TypeOK, Heart, NoChild, Child
<1>4. proc \in [Child -> Process] /\ killed' \subseteq Child
  BY <1>1 DEF IInv, TypeOK
<1>5. \A j \in killed' : j < next
  BY <1>1, ChildNat DEF IInv, TypeOK, Processes
<1>6. \A j \in Child : proc[j] \in {"silent", "up"} => j \in killed'
  BY <1>1 DEF IInv, Processes, OneProcess
<1> QED
  BY <1>1, <1>2, <1>3, <1>4, <1>5, <1>6, EmergencyKeeps DEF IInv, Processes

LEMMA AsksKeeps == ASSUME IInv, NEW c \in Call, NEW w \in Wing, Asks(c, w) PROVE IInv'
<1> USE QualityWatchAssumption
<1>1. UNCHANGED <<killed, respawn, heartbeat, cache, pending, lost>> /\ c \in Id
  BY DEF Asks, Id
<1>2. CASE cache[w].by = None
  <2>1. EnsureStarted /\ UNCHANGED <<killed, polls>>
        /\ call' = [call EXCEPT ![c] = [pc |-> "url", wing |-> w, on |-> starting', of |-> None]]
    BY <1>1, <1>2 DEF Asks, heartbeat
  <2>2. /\ proc' \in [Child -> Process]
        /\ promise' \in [Child -> {"none", "pending", "url", "failed"}]
        /\ child' \in Child \cup {NoChild}
        /\ starting' \in Child \cup {NoChild}
        /\ next' \in 1 .. MaxChild + 1
        /\ Processes'
        /\ child # NoChild => child' = child
        /\ child' \notin polls \/ child' = child
    BY <2>1, EnsureStartedKeeps DEF IInv
  <2>3. call' \in [Id -> ACall]
    BY <1>1, <2>1, <2>2 DEF IInv, TypeOK, ACall
  <2>4. TypeOK'
    BY <1>1, <2>2, <2>3 DEF IInv, TypeOK, heartbeat
  <2>5. Heart'
    BY <1>1, <2>2 DEF IInv, TypeOK, Heart, heartbeat
  <2>6. Invalidated'
    BY <1>1, <2>2 DEF IInv, Invalidated
  <2> QED
    BY <2>2, <2>4, <2>5, <2>6 DEF IInv
<1>3. CASE cache[w].by # None
  <2>1. /\ call' = [call EXCEPT ![c] = [pc |-> "start", wing |-> w, on |-> cache[w].on,
                                        of |-> cache[w].by]]
        /\ UNCHANGED <<proc, promise, child, starting, next>>
    BY <1>3 DEF Asks
  <2>2. cache[w].on \in Child \cup {NoChild} /\ cache[w].by \in Id \cup {None}
    BY DEF IInv, TypeOK, Watcher
  <2>3. call' \in [Id -> ACall]
    BY <1>1, <2>1, <2>2 DEF IInv, TypeOK, ACall
  <2>4. UNCHANGED <<processes, heartbeat>> /\ Invalidated'
    BY <1>1, <2>1 DEF IInv, Invalidated, processes
  <2> QED
    BY <1>1, <2>3, <2>4, WatchersStep DEF IInv, TypeOK
<1> QED
  BY <1>2, <1>3

\* A watcher that is started, or cooled, is otherwise the same.
LEMMA RunningOnly ==
  ASSUME NEW r \in Watcher, NEW b \in BOOLEAN
  PROVE  LET s == [r EXCEPT !.running = b]
         IN s \in Watcher /\ s.on = r.on /\ s.by = r.by /\ s.late = r.late
BY DEF Watcher

LEMMA ProceedsKeeps == ASSUME IInv, NEW c \in Id, Proceeds(c) PROVE IInv'
<1> USE QualityWatchAssumption
<1>1. call[c] \in ACall
  BY DEF IInv, TypeOK
<1>2. CASE Creates(c)
  <2>1. /\ cache' = [cache EXCEPT ![call[c].wing] =
              [on |-> call[c].on, by |-> c, running |-> FALSE, late |-> call[c].on # child]]
        /\ call' = [call EXCEPT ![c] = [@ EXCEPT !.pc = "start", !.of = c]]
        /\ UNCHANGED <<processes, heartbeat, pending, lost>>
    BY <1>2 DEF Creates
  <2> DEFINE new == [on |-> call[c].on, by |-> c, running |-> FALSE, late |-> call[c].on # child]
  <2>2. new \in Watcher
    BY <1>1 DEF ACall, Watcher
  <2>3. cache' \in [Wing -> Watcher]
    BY <2>1, <2>2 DEF IInv, TypeOK
  <2>4. [call[c] EXCEPT !.pc = "start", !.of = c] \in ACall
    BY <1>1 DEF ACall
  <2>5. call' \in [Id -> ACall]
    BY <2>1, <2>4 DEF IInv, TypeOK
  <2>6. child' = child
    BY <2>1 DEF processes
  <2>7. Invalidated'
    <3> SUFFICES ASSUME NEW w \in Wing
                 PROVE  cache'[w].on \in {NoChild, child} \/ cache'[w].late
      BY <2>6 DEF Invalidated
    <3>1. CASE w = call[c].wing
      <4>1. cache'[w] = new
        BY <2>1, <3>1 DEF IInv, TypeOK
      <4>2. new.on = call[c].on
        OBVIOUS
      <4>3. new.late = (call[c].on # child)
        OBVIOUS
      <4>4. CASE call[c].on = child
        BY <4>1, <4>2, <4>4
      <4>5. CASE call[c].on # child
        <5>1. new.late
          BY <4>3, <4>5, Zenon
        <5> HIDE DEF new
        <5> QED
          BY <4>1, <5>1
      <4> QED
        BY <4>4, <4>5
    <3>2. CASE w # call[c].wing
      <4>1. cache'[w] = cache[w]
        BY <2>1, <3>2 DEF IInv, TypeOK
      <4> QED
        BY <4>1 DEF IInv, Invalidated
    <3> QED
      BY <3>1, <3>2
  <2> QED
    BY <2>1, <2>3, <2>5, <2>7, WatchersStep DEF IInv, TypeOK
<1>3. CASE CallFails(c)
  <2>1. NoCall \in ACall
    BY DEF NoCall, ACall
  <2>2. /\ call' \in [Id -> ACall] /\ UNCHANGED <<processes, heartbeat, cache, pending>>
        /\ lost' \subseteq Wing
    BY <1>3, <2>1 DEF CallFails, IInv, TypeOK
  <2> QED
    BY <2>2, WatchersStep DEF IInv, TypeOK, Invalidated, processes
<1>4. CASE Starts(c)
  <2>1. NoCall \in ACall
    BY DEF NoCall, ACall
  <2>2. /\ call' \in [Id -> ACall] /\ UNCHANGED <<processes, heartbeat, pending>>
        /\ lost' \subseteq Wing
    BY <1>4, <2>1 DEF Starts, IInv, TypeOK
  <2> DEFINE w == call[c].wing
  <2>3. CASE cache' = [cache EXCEPT ![w] =
                IF @.on = call[c].on /\ @.by = call[c].of THEN [@ EXCEPT !.running = TRUE] ELSE @]
    <3>1. \A v \in Wing : cache[v] \in Watcher
      BY DEF IInv, TypeOK
    <3>2. \A v \in Wing : cache'[v] = cache[v] \/ cache'[v] = [cache[v] EXCEPT !.running = TRUE]
      BY <2>3 DEF IInv, TypeOK
    <3>3. DOMAIN cache' = Wing /\ cache' = [v \in Wing |-> cache'[v]]
      BY <2>3 DEF IInv, TypeOK
    <3>4. \A v \in Wing : /\ cache'[v] \in Watcher
                           /\ cache'[v].on = cache[v].on /\ cache'[v].late = cache[v].late
      BY <3>1, <3>2, RunningOnly
    <3>5. cache' \in [Wing -> Watcher]
      BY <3>3, <3>4
    <3>6. Invalidated'
      BY <2>2, <3>4 DEF IInv, Invalidated, processes
    <3> QED
      BY <2>2, <3>5, <3>6, WatchersStep DEF IInv, TypeOK
  <2>4. CASE UNCHANGED cache
    BY <2>2, <2>4, WatchersStep DEF IInv, TypeOK, Invalidated, processes
  <2> QED
    BY <1>4, <2>3, <2>4 DEF Starts
<1> QED
  BY <1>2, <1>3, <1>4 DEF Proceeds

LEMMA CoolsKeeps == ASSUME IInv, NEW w \in Wing, Cools(w) PROVE IInv'
<1>1. cache' = [cache EXCEPT ![w].running = FALSE] /\ UNCHANGED <<processes, heartbeat, pending, call, lost>>
  BY DEF Cools
<1>2. \A v \in Wing : cache[v] \in Watcher
  BY DEF IInv, TypeOK
<1>3. \A v \in Wing : cache'[v] = cache[v] \/ cache'[v] = [cache[v] EXCEPT !.running = FALSE]
  BY <1>1 DEF IInv, TypeOK
<1>4. cache' = [v \in Wing |-> cache'[v]]
  BY <1>1 DEF IInv, TypeOK
<1>5. \A v \in Wing : /\ cache'[v] \in Watcher
                       /\ cache'[v].on = cache[v].on /\ cache'[v].late = cache[v].late
  BY <1>2, <1>3, RunningOnly
<1>6. cache' \in [Wing -> Watcher] /\ Invalidated'
  BY <1>1, <1>4, <1>5 DEF IInv, Invalidated, processes
<1> QED
  BY <1>1, <1>6, WatchersStep DEF IInv, TypeOK

-----------------------------------------------------------------------------
(* The theorems. *)

LEMMA InitHolds == Init => IInv
<1> SUFFICES ASSUME Init PROVE IInv
  OBVIOUS
<1> USE QualityWatchAssumption DEF Init
<1>1. TypeOK
  <2>1. cache \in [Wing -> Watcher]
    BY DEF NoWatcher, Watcher
  <2>2. call \in [Id -> ACall]
    BY DEF NoCall, ACall
  <2>3. next \in 1 .. MaxChild + 1 /\ misses \in 0 .. Threshold
    OBVIOUS
  <2>4. missed \in [Child -> 0 .. Threshold] /\ proc \in [Child -> Process]
    BY DEF Process
  <2> QED
    BY <2>1, <2>2, <2>3, <2>4 DEF TypeOK
<1>2. Processes /\ Heart /\ Invalidated
  BY DEF Processes, OneProcess, Heart, Invalidated, NoWatcher, NoChild
<1> QED
  BY <1>1, <1>2 DEF IInv

LEMMA StepKeeps == IInv /\ [Next]_vars => IInv'
<1> SUFFICES ASSUME IInv, [Next]_vars PROVE IInv'
  OBVIOUS
<1>1. CASE UNCHANGED vars
  BY <1>1, WatchersStep DEF vars, watchers, IInv, TypeOK, Invalidated, processes
<1>2. ASSUME NEW k \in Child, Polls(k) PROVE IInv'
  BY <1>2, AnsweredKeeps, MissesKeeps, DeclaresHungKeeps DEF Polls
<1> QED
  BY <1>1, <1>2, ExitsKeeps, AnnouncesKeeps, TimesOutKeeps, TicksKeeps, AsksKeeps,
     ProceedsKeeps, CoolsKeeps DEF Next

\* The inductive invariant holds in every behaviour.
THEOREM Invariance == Spec => []IInv
BY InitHolds, StepKeeps, PTL DEF Spec

\* Every variable keeps its shape, and never more than Threshold misses are
\* counted.
THEOREM TypeCorrect == Spec => []TypeOK
<1>1. IInv => TypeOK
  BY DEF IInv
<1> QED
  BY <1>1, Invariance, PTL

\* Only the current process is alive without having been told to die.
THEOREM NoDuplicate == Spec => []OneProcess
<1>1. IInv => OneProcess
  BY DEF IInv, Processes
<1> QED
  BY <1>1, Invariance, PTL

\* No cached watcher talks to a process that has been replaced, but those of
\* calls that were late.
THEOREM NothingStale == Spec => []Invalidated
<1>1. IInv => Invalidated
  BY DEF IInv
<1> QED
  BY <1>1, Invariance, PTL

\* What makes the client replace a process.
LEMMA ReplacedFor ==
  ASSUME IInv, Next, child # NoChild, child' # child
  PROVE  proc'[child] = "exited" \/ missed'[child] = Threshold
<1> USE QualityWatchAssumption
<1>1. child \in Child
  BY DEF IInv, TypeOK
<1>2. ASSUME NEW k \in Child, Exits(k) PROVE proc'[child] = "exited"
  <2>1. k = child /\ Spawns([proc EXCEPT ![k] = "exited"])
    BY <1>2 DEF Exits, Emergency
  <2>2. child # next /\ TypeOK /\ [proc EXCEPT ![k] = "exited"] \in [Child -> Process]
    BY <1>1 DEF IInv, Processes, TypeOK, Process, Child
  <2>3. proc'[child] = [proc EXCEPT ![k] = "exited"][child]
    BY <1>1, <2>1, <2>2, SpawnsType
  <2> QED
    BY <1>1, <2>1, <2>3 DEF IInv, TypeOK
<1>3. ASSUME NEW k \in Child, DeclaresHung(k) PROVE missed'[child] = Threshold
  <2>1. k = child /\ k \in polls /\ Missing(k) /\ misses + 1 >= Threshold
    BY <1>3 DEF DeclaresHung, PollEnds, Current, Hung
  <2>2. misses <= missed[k] /\ misses \in Nat /\ missed[k] \in 0 .. Threshold
    BY <1>1, <2>1 DEF IInv, Heart, TypeOK
  <2>3. missed'[k] = IF missed[k] < Threshold THEN missed[k] + 1 ELSE Threshold
    BY <2>1, MissingType DEF IInv
  <2> QED
    BY <2>1, <2>2, <2>3
<1>4. ASSUME NEW c \in Call, NEW w \in Wing, Asks(c, w) PROVE child' = child
  BY <1>4 DEF Asks, EnsureStarted, IInv, Processes
<1>5. ASSUME NEW k \in Child, Announces(k) \/ TimesOut(k) \/ Answered(k) \/ Misses(k)
      PROVE  child' = child
  BY <1>5 DEF Announces, TimesOut, Answered, Misses, processes
<1>6. ASSUME NEW c \in Id, Proceeds(c) PROVE child' = child
  BY <1>6 DEF Proceeds, Creates, CallFails, Starts, processes
<1>7. ASSUME NEW w \in Wing, Ticks \/ Cools(w) PROVE child' = child
  BY <1>7 DEF Ticks, Cools, processes
<1>8. Ticks => child' = child
  BY DEF Ticks, processes
<1> QED
  BY <1>2, <1>3, <1>4, <1>5, <1>6, <1>7, <1>8 DEF Next, Polls

\* A process is replaced only when it has exited or has itself missed Threshold
\* polls in a row.
THEOREM OnlyItsOwnMisses == Spec => NoFalseAlarm
<1>1. IInv /\ [Next]_vars =>
        [child # NoChild /\ child' # child
           => proc'[child] = "exited" \/ missed'[child] = Threshold]_vars
  BY ReplacedFor DEF vars, processes
<1> QED
  BY <1>1, Invariance, PTL DEF Spec, NoFalseAlarm

-----------------------------------------------------------------------------
(* The wings that were watched when the process failed. *)

\* They wait for the current process, whose promise is still to be kept; only a
\* kept promise puts a watcher on the current process; and a watcher, like a
\* call that will build one, is of a process there is.
Waiting ==
  /\ pending # {} => child # NoChild /\ respawn = child /\ promise[child] \in {"pending", "failed"}
  /\ \A w \in Wing : cache[w].by # None =>
       /\ child # NoChild /\ cache[w].on \in Child
       /\ cache[w].on = child => promise[child] = "url"
  /\ \A c \in Id : call[c].pc = "url" => call[c].on \in Child /\ child # NoChild

\* A call is about to start the watcher that w has, which is on k.
Starting(w, k) ==
  /\ cache[w].by # None /\ cache[w].on = k
  /\ \E c \in Id : /\ call[c].pc = "start" /\ call[c].wing = w
                   /\ call[c].on = k /\ call[c].of = cache[w].by

\* k still owes w a watcher: w is on the list for the moment when k announces
\* itself, or the call made for w in that moment has k's URL, or somebody has
\* built the watcher and starts it.
Owed(w, k) ==
  /\ child = k /\ respawn = k
  /\ \/ w \in pending /\ promise[k] = "pending"
     \/ /\ call[<<w, k>>] = [pc |-> "url", wing |-> w, on |-> k, of |-> None]
        /\ promise[k] = "url"
     \/ Starting(w, k) /\ promise[k] = "url"

LEMMA EmergencyWaits ==
  ASSUME IInv, Waiting, NEW now \in [Child -> Process], Emergency(now)
  PROVE  Waiting' /\ child' # child
<1>1. Spawns(now) /\ respawn' = next /\ UNCHANGED call /\ Invalidates
  BY DEF Emergency
<1>2. child' \in Child /\ child' = next /\ child # next
  BY <1>1, SpawnsType, QualityWatchAssumption DEF IInv, Processes, TypeOK
<1>3. promise'[child'] = "pending" /\ child' # NoChild
  BY <1>1, <1>2, ChildNat DEF Spawns, IInv, TypeOK
<1>4. \A w \in Wing : cache'[w].by = None
  BY <1>1 DEF Invalidates, NoWatcher
<1> QED
  BY <1>1, <1>2, <1>3, <1>4 DEF Waiting

\* When k announces itself, the wings on the list become those of calls.
LEMMA AnnouncesWaits ==
  ASSUME IInv, Waiting, NEW k \in Child, Announces(k)
  PROVE  /\ Waiting'
         /\ \A w \in Wing : Owed(w, k) => Owed(w, k)' \/ Watched(w, k)'
<1>1. k = child /\ UNCHANGED <<child, respawn, cache, lost>> /\ k # NoChild
  BY ChildNat DEF Announces
<1>2. CASE promise[k] # "pending"
  BY <1>1, <1>2 DEF Announces, Waiting, Owed, Starting
<1>3. CASE promise[k] = "pending"
  <2>1. promise' = [promise EXCEPT ![k] = "url"] /\ Reattaches(k) /\ promise'[k] = "url"
    BY <1>3 DEF Announces, IInv, TypeOK
  <2>2. \A w \in Wing : cache[w].by # None => cache[w].on # child
    BY <1>1, <1>3 DEF Waiting
  <2>3. CASE respawn # k
    BY <1>1, <1>3, <2>1, <2>2, <2>3 DEF Reattaches, Waiting, Owed, Starting
  <2>4. CASE respawn = k
    <3> DEFINE url(w) == [pc |-> "url", wing |-> w, on |-> k, of |-> None]
    <3>1. /\ pending' = {}
          /\ \A w \in pending : cache[w].by = None => call'[<<w, k>>] = url(w)
          /\ \A c \in Id : call'[c].pc = "url" => call'[c] = call[c] \/ call'[c].on = k
      <4>1. pending \subseteq Wing /\ k \in Child
        BY DEF IInv, TypeOK
      <4> QED
        BY <2>1, <2>4, <4>1 DEF Reattaches, NoCall, Id
    <3>2. Waiting'
      BY <1>1, <2>1, <2>2, <3>1 DEF Waiting
    <3>3. ASSUME NEW w \in Wing, Owed(w, k)
          PROVE  Owed(w, k)' \/ Watched(w, k)'
      <4>1. w \in pending
        BY <1>3, <3>3 DEF Owed
      <4>2. CASE cache[w].by = None
        BY <1>1, <2>1, <2>4, <3>1, <4>1, <4>2 DEF Owed
      <4>3. CASE cache[w].by # None
        BY <1>1, <2>2, <4>3, ChildNat DEF IInv, Invalidated, Waiting, Watched
      <4> QED
        BY <4>2, <4>3
    <3> QED
      BY <3>2, <3>3
  <2> QED
    BY <2>3, <2>4
<1> QED
  BY <1>2, <1>3

LEMMA TimesOutWaits ==
  ASSUME IInv, Waiting, NEW k \in Child, TimesOut(k)
  PROVE  /\ Waiting'
         /\ \A w \in Wing, j \in Child : Owed(w, j) => Owed(w, j)' \/ Watched(w, j)'
<1>1. /\ promise[k] = "pending" /\ UNCHANGED <<child, respawn, pending, call, cache>>
      /\ promise'[k] = "failed" /\ \A j \in Child : j # k => promise'[j] = promise[j]
  BY DEF TimesOut, watchers, IInv, TypeOK
<1>2. child \in Child \cup {NoChild}
  BY DEF IInv, TypeOK
<1>3. Waiting'
  BY <1>1, <1>2 DEF Waiting
<1>4. ASSUME NEW w \in Wing, NEW j \in Child, Owed(w, j)
      PROVE  Owed(w, j)' \/ Watched(w, j)'
  <2>1. Starting(w, j)' <=> Starting(w, j)
    BY <1>1 DEF Starting
  <2> QED
    BY <1>1, <1>4, <2>1 DEF Owed, Watched
<1> QED
  BY <1>3, <1>4

\* A new call takes nothing from those that are under way.
LEMMA AsksWaits ==
  ASSUME IInv, Waiting, NEW c \in Call, NEW v \in Wing, Asks(c, v)
  PROVE  /\ Waiting'
         /\ \A w \in Wing, j \in Child : Owed(w, j) => Owed(w, j)'
<1>1. UNCHANGED <<respawn, cache, pending>> /\ c \in Id /\ call \in [Id -> ACall]
  BY DEF Asks, Id, IInv, TypeOK
<1>2. call[c].pc = "idle" /\ \A d \in Id : d # c => call'[d] = call[d]
  BY <1>1 DEF Asks
<1>3. ASSUME NEW w \in Wing, NEW j \in Child
      PROVE  <<w, j>> # c /\ <<w, j>> \in Id
  BY QualityWatchAssumption DEF Child, Id
<1>4. child # NoChild => UNCHANGED <<child, promise>>
  BY DEF Asks, EnsureStarted, IInv, Processes
<1>5. call'[c].pc = "url" => call'[c].on \in Child /\ child' # NoChild
  <2>1. CASE cache[v].by # None
    BY <1>1, <2>1 DEF Asks
  <2>2. CASE cache[v].by = None
    <3>1. EnsureStarted /\ call'[c].on = starting'
      BY <1>1, <2>2 DEF Asks
    <3>2. starting' \in Child /\ child' = starting'
      BY <3>1 DEF EnsureStarted, Spawns, IInv, TypeOK, Processes
    <3> QED
      BY <3>1, <3>2, ChildNat
  <2> QED
    BY <2>1, <2>2
<1>6. child # NoChild => child' # NoChild
  BY <1>4
<1>7. Waiting'
  BY <1>1, <1>2, <1>4, <1>5, <1>6 DEF Waiting
<1>8. ASSUME NEW w \in Wing, NEW j \in Child, Owed(w, j)
      PROVE  Owed(w, j)'
  <2>1. child # NoChild /\ UNCHANGED <<child, promise>>
    BY <1>4, <1>8, ChildNat DEF Owed
  <2>2. Starting(w, j) => Starting(w, j)'
    BY <1>1, <1>2 DEF Starting
  <2> QED
    BY <1>1, <1>2, <1>3, <1>8, <2>1, <2>2 DEF Owed
<1> QED
  BY <1>7, <1>8

\* A call that builds a watcher for w goes on to start it, whoever else does.
LEMMA CreatesWaits ==
  ASSUME IInv, Waiting, NEW c \in Id, Creates(c)
  PROVE  /\ Waiting'
         /\ \A w \in Wing, j \in Child : Owed(w, j) => Owed(w, j)' \/ Watched(w, j)'
<1> DEFINE v == call[c].wing
           k == call[c].on
           new == [on |-> k, by |-> c, running |-> FALSE, late |-> k # child]
<1>1. /\ UNCHANGED <<child, respawn, promise, pending>>
      /\ call[c].pc = "url" /\ promise[k] = "url" /\ k \in Child /\ child # NoChild
      /\ call \in [Id -> ACall] /\ cache \in [Wing -> Watcher]
  BY DEF Creates, processes, IInv, TypeOK, Waiting
<1>2. /\ call'[c].pc = "start" /\ call'[c].wing = v /\ call'[c].on = k /\ call'[c].of = c
      /\ \A d \in Id : d # c => call'[d] = call[d]
  BY <1>1 DEF Creates, ACall
<1>3. \A w \in Wing : cache'[w] = IF w = v THEN new ELSE cache[w]
  BY <1>1 DEF Creates
<1>4. new.on = k /\ new.by = c /\ (new.late <=> k # child) /\ c # None
  BY QualityWatchAssumption DEF Id, Child
<1> HIDE DEF new
<1>5. Waiting'
  BY <1>1, <1>2, <1>3, <1>4 DEF Waiting
<1>6. ASSUME NEW w \in Wing, NEW j \in Child, Owed(w, j)
      PROVE  Owed(w, j)' \/ Watched(w, j)'
  <2>1. CASE w = v /\ k # child
    BY <1>3, <1>4, <2>1 DEF Watched
  <2>2. CASE w = v /\ k = child
    <3>1. j = k
      BY <1>6, <2>2 DEF Owed
    <3>2. Starting(w, j)'
      BY <1>2, <1>3, <1>4, <2>2, <3>1 DEF Starting
    <3> QED
      BY <1>1, <1>6, <3>1, <3>2 DEF Owed
  <2>3. CASE w # v
    <3>1. Starting(w, j) => Starting(w, j)'
      BY <1>1, <1>2, <1>3, <2>3 DEF Starting
    <3>2. call[<<w, j>>].pc = "url" /\ call[<<w, j>>].wing = w => call'[<<w, j>>] = call[<<w, j>>]
      BY <1>2, <2>3 DEF Id
    <3> QED
      BY <1>1, <1>6, <3>1, <3>2 DEF Owed
  <2> QED
    BY <2>1, <2>2, <2>3
<1> QED
  BY <1>5, <1>6

\* A call that fails is somebody else's, or takes what the wing was owed along
\* and leaves a word.
LEMMA CallFailsWaits ==
  ASSUME IInv, Waiting, NEW c \in Id, CallFails(c)
  PROVE  /\ Waiting'
         /\ \A w \in Wing, j \in Child : Owed(w, j) => Owed(w, j)' \/ Watched(w, j)'
<1>1. /\ UNCHANGED <<child, respawn, promise, pending, cache>>
      /\ call[c].pc = "url" /\ call'[c] = NoCall /\ \A d \in Id : d # c => call'[d] = call[d]
  BY DEF CallFails, processes, IInv, TypeOK
<1>2. Waiting'
  BY <1>1 DEF Waiting, NoCall
<1>3. ASSUME NEW w \in Wing, NEW j \in Child, Owed(w, j)
      PROVE  Owed(w, j)' \/ Watched(w, j)'
  <2>1. CASE c = <<w, j>>
    <3>1. child = j
      BY <1>3 DEF Owed
    <3>2. w \in lost'
      BY <2>1, <3>1 DEF CallFails
    <3> QED
      BY <3>2 DEF Watched
  <2>2. CASE c # <<w, j>>
    <3>1. Starting(w, j) => Starting(w, j)'
      BY <1>1 DEF Starting
    <3>2. call'[<<w, j>>] = call[<<w, j>>]
      BY <1>1, <2>2 DEF Id
    <3> QED
      BY <1>1, <1>3, <3>1, <3>2 DEF Owed
  <2> QED
    BY <2>1, <2>2
<1> QED
  BY <1>2, <1>3

\* Starting w's own watcher ends what it was owed, one way or the other; a
\* watcher that has been replaced changes nothing for it.
LEMMA StartsWaits ==
  ASSUME IInv, Waiting, NEW c \in Id, Starts(c)
  PROVE  /\ Waiting'
         /\ \A w \in Wing, j \in Child : Owed(w, j) => Owed(w, j)' \/ Watched(w, j)'
<1> DEFINE mine(w) == w = call[c].wing /\ cache[w].on = call[c].on /\ cache[w].by = call[c].of
<1>1. /\ UNCHANGED <<child, respawn, promise, pending>>
      /\ call[c].pc = "start" /\ call'[c] = NoCall /\ \A d \in Id : d # c => call'[d] = call[d]
      /\ cache \in [Wing -> Watcher] /\ lost \subseteq lost'
  BY DEF Starts, processes, IInv, TypeOK
<1>2. \A w \in Wing : cache'[w] = cache[w] \/ cache'[w] = [cache[w] EXCEPT !.running = TRUE]
  BY <1>1 DEF Starts
<1>3. \A w \in Wing : cache'[w].by = cache[w].by /\ cache'[w].on = cache[w].on
  BY <1>1, <1>2, RunningOnly
<1>4. \A w \in Wing : mine(w) => \/ cache'[w].running
                                 \/ call[c].on = child => w \in lost'
  <2> SUFFICES ASSUME NEW w \in Wing, mine(w)
               PROVE  cache'[w].running \/ (call[c].on = child => w \in lost')
    OBVIOUS
  <2>1. CASE cache' = [cache EXCEPT ![w] = [@ EXCEPT !.running = TRUE]]
    BY <1>1, <2>1 DEF Watcher
  <2>2. CASE lost' = lost \cup {v \in Wing : v = w /\ call[c].on = child}
    BY <2>2
  <2> QED
    BY <2>1, <2>2 DEF Starts
<1>5. Waiting'
  BY <1>1, <1>3 DEF Waiting, NoCall
<1>6. ASSUME NEW w \in Wing, NEW j \in Child, Owed(w, j)
      PROVE  Owed(w, j)' \/ Watched(w, j)'
  <2>1. child = j
    BY <1>6 DEF Owed
  <2>2. CASE mine(w) /\ call[c].on = j
    BY <1>3, <1>4, <2>1, <2>2 DEF Watched, Running
  <2>3. CASE ~(mine(w) /\ call[c].on = j)
    <3>1. Starting(w, j) => Starting(w, j)'
      BY <1>1, <1>3, <2>3 DEF Starting
    <3>2. call[<<w, j>>].pc = "url" => call'[<<w, j>>] = call[<<w, j>>]
      BY <1>1 DEF Id
    <3> QED
      BY <1>1, <1>6, <3>1, <3>2 DEF Owed
  <2> QED
    BY <2>2, <2>3
<1> QED
  BY <1>5, <1>6

LEMMA ProceedsWaits ==
  ASSUME IInv, Waiting, NEW c \in Id, Proceeds(c)
  PROVE  /\ Waiting'
         /\ \A w \in Wing, j \in Child : Owed(w, j) => Owed(w, j)' \/ Watched(w, j)'
BY CreatesWaits, CallFailsWaits, StartsWaits DEF Proceeds

LEMMA CoolsWaits ==
  ASSUME IInv, Waiting, NEW v \in Wing, Cools(v)
  PROVE  /\ Waiting'
         /\ \A w \in Wing, j \in Child : Owed(w, j) => Owed(w, j)'
<1>1. cache \in [Wing -> Watcher] /\ UNCHANGED <<child, respawn, promise, pending, call>>
  BY DEF Cools, IInv, TypeOK, processes
<1>2. \A w \in Wing : cache'[w] = cache[w] \/ cache'[w] = [cache[w] EXCEPT !.running = FALSE]
  BY <1>1 DEF Cools
<1>3. \A w \in Wing : cache'[w].by = cache[w].by /\ cache'[w].on = cache[w].on
  BY <1>1, <1>2, RunningOnly
<1> QED
  BY <1>1, <1>3 DEF Waiting, Owed, Starting

\* A step in which nothing of it moves.
LEMMA RestWaits ==
  ASSUME Waiting, UNCHANGED <<child, respawn, promise, watchers>>
  PROVE  /\ Waiting'
         /\ \A w \in Wing, j \in Child : Owed(w, j) => Owed(w, j)'
BY DEF watchers, Waiting, Owed, Starting

LEMMA WaitsStep ==
  ASSUME IInv, Waiting, [Next]_vars
  PROVE  /\ Waiting'
         /\ \A w \in Wing, j \in Child : Owed(w, j) => Owed(w, j)' \/ Watched(w, j)'
<1>1. ASSUME NEW now \in [Child -> Process], Emergency(now)
      PROVE  Waiting' /\ \A w \in Wing, j \in Child : Owed(w, j) => Watched(w, j)'
  BY <1>1, EmergencyWaits DEF Owed, Watched
<1>2. ASSUME NEW k \in Child, Exits(k)
      PROVE  Waiting' /\ \A w \in Wing, j \in Child : Owed(w, j) => Owed(w, j)' \/ Watched(w, j)'
  <2>1. [proc EXCEPT ![k] = "exited"] \in [Child -> Process]
    BY DEF IInv, TypeOK, Process
  <2>2. Emergency([proc EXCEPT ![k] = "exited"])
          \/ UNCHANGED <<child, respawn, promise, watchers>>
    BY <1>2 DEF Exits
  <2> QED
    BY <1>1, <2>1, <2>2, RestWaits
<1>3. ASSUME NEW k \in Child, Polls(k)
      PROVE  Waiting' /\ \A w \in Wing, j \in Child : Owed(w, j) => Owed(w, j)' \/ Watched(w, j)'
  <2>1. Emergency(proc) \/ UNCHANGED <<child, respawn, promise, watchers>>
    BY <1>3 DEF Polls, Answered, Misses, DeclaresHung, processes
  <2>2. proc \in [Child -> Process]
    BY DEF IInv, TypeOK
  <2> QED
    BY <1>1, <2>1, <2>2, RestWaits
<1>4. ASSUME NEW k \in Child, Announces(k)
      PROVE  Waiting' /\ \A w \in Wing, j \in Child : Owed(w, j) => Owed(w, j)' \/ Watched(w, j)'
  BY <1>4, AnnouncesWaits DEF Announces, Owed
<1>5. CASE Ticks \/ UNCHANGED vars
  BY <1>5, RestWaits DEF Ticks, vars, processes
<1> QED
  BY <1>2, <1>3, <1>4, <1>5, TimesOutWaits, AsksWaits, ProceedsWaits, CoolsWaits DEF Next

\* reattachWingsAfterQualityWatcherRespawn forgets no wing: one that was watched
\* when its process failed is owed a watcher from the first moment, and stays
\* so, first on the list, then by the call made for it, then by whichever call
\* starts the watcher it has, until what WatchedAgain promises is there: the
\* watcher runs, or a failure that was reported is the end of it.  That all of
\* these end is left to the fairness of WatchedAgain.
THEOREM NoWingForgotten ==
  Spec => /\ [](\A w \in Wing, k \in Child :
                  w \in pending /\ child = k => Owed(w, k) \/ Watched(w, k))
          /\ [][\A w \in Wing, k \in Child :
                  Owed(w, k) => Owed(w, k)' \/ Watched(w, k)']_vars
<1>1. Init => Waiting
  BY DEF Init, Waiting, NoWatcher, NoCall
<1>2. IInv /\ Waiting /\ [Next]_vars => Waiting'
  BY WaitsStep
<1>3. Waiting => \A w \in Wing, k \in Child :
                   w \in pending /\ child = k => Owed(w, k) \/ Watched(w, k)
  BY DEF Waiting, Owed, Watched
<1>4. IInv /\ Waiting /\ [Next]_vars
        => [\A w \in Wing, k \in Child : Owed(w, k) => Owed(w, k)' \/ Watched(w, k)']_vars
  BY WaitsStep
<1> QED
  BY <1>1, <1>2, <1>3, <1>4, Invariance, PTL DEF Spec
=============================================================================
