----------------------------- MODULE QualityWatch -----------------------------
(***************************************************************************)
(* The quality-watcher process and the watchers that talk to it.           *)
(*                                                                         *)
(* QualityWatcherProcessClient owns one child process.  It spawns it when  *)
(* it is first asked for, hands everyone the same promise of its URL,      *)
(* polls its health, and replaces it when it exits or misses its polls.    *)
(* MCPServer keeps one watcher per wing, built on that URL: it drops them  *)
(* all when the process fails, and builds those that were running again    *)
(* when the replacement has announced itself.                              *)
(*                                                                         *)
(* Left out: shutdown, what a process still prints after its exit, and the *)
(* watchers that run inside the cabinet.  A wing that is gone only makes   *)
(* the calls for it fail.                                                  *)
(***************************************************************************)
EXTENDS Naturals

CONSTANTS Wing,
          Call,       \* callers of getOrCreateQualityWatcher
          MaxChild,   \* bound: processes are 1 .. MaxChild, and the last stays
          Threshold,  \* HEARTBEAT_MISS_THRESHOLD
          None

ASSUME QualityWatchAssumption ==
  /\ MaxChild \in Nat \ {0}
  /\ Threshold \in Nat \ {0}
  /\ None \notin Call \cup (Wing \X (1 .. MaxChild))
  /\ Call \cap (Wing \X (1 .. MaxChild)) = {}

Child == 1 .. MaxChild
NoChild == 0

VARIABLES
  proc,      \* proc[k]: the process itself
  killed,    \* processes that were told to die
  next,      \* the next process to spawn
  child,     \* this.child
  starting,  \* the process whose promise this.starting is
  promise,   \* promise[k]: what start() promised
  respawn,   \* the process an emergency waits for
  beat,      \* the process that the heartbeat timer polls
  polls,     \* processes with a poll in flight
  misses,    \* this.heartbeatMisses
  missed,    \* missed[k]: the polls that k itself missed in a row
  cache,     \* qualityWatchers
  pending,   \* wingNamesPendingReattach
  call,      \* the calls of getOrCreateQualityWatcher
  lost       \* wings for which a call has failed on the current process: the
             \* one that was to re-attach it, or the start of its watcher

processes == <<proc, killed, next, child, starting, promise, respawn>>
heartbeat == <<beat, polls, misses, missed>>
watchers == <<cache, pending, call, lost>>
vars == <<processes, heartbeat, watchers>>

-----------------------------------------------------------------------------
\* Callers, and the call that builds w's watcher again on process k.
Id == Call \cup (Wing \X Child)

Process == {"none", "silent", "up", "exited"}

\* A watcher is known by its process and by the call that built it.
Watcher == [on : Child \cup {NoChild}, by : Id \cup {None}, running : BOOLEAN,
            late : BOOLEAN]   \* its process had been replaced when it was built
NoWatcher == [on |-> NoChild, by |-> None, running |-> FALSE, late |-> FALSE]

ACall == [pc : {"idle", "url", "start"}, wing : Wing \cup {None},
          on : Child \cup {NoChild}, of : Id \cup {None}]
NoCall == [pc |-> "idle", wing |-> None, on |-> NoChild, of |-> None]

Running(w) == cache[w].running

-----------------------------------------------------------------------------
(* QualityWatcherProcessClient. *)

\* start: the new process is the current one before it has said a word.
Spawns(old) ==
  /\ next \in Child
  /\ proc' = [old EXCEPT ![next] = "silent"]
  /\ promise' = [promise EXCEPT ![next] = "pending"]
  /\ child' = next
  /\ starting' = next
  /\ next' = next + 1

\* Mutant: every caller gets a process of its own while none has announced.
EnsureStartedTwice == IF starting = NoChild \/ promise[starting] = "pending" THEN Spawns(proc)
                      ELSE UNCHANGED <<proc, promise, child, starting, next>>

\* ensureStarted: one process, one promise.
EnsureStarted == IF starting = NoChild THEN Spawns(proc)
                 ELSE UNCHANGED <<proc, promise, child, starting, next>>

\* Mutant: the watchers are kept until the replacement is there.
InvalidatesLater ==
  /\ pending' = {w \in Wing : Running(w)}
  /\ UNCHANGED cache

\* invalidateQualityWatchersAfterFailure: all watchers go, the running ones
\* are remembered.
Invalidates ==
  /\ pending' = {w \in Wing : Running(w)}
  /\ cache' = [w \in Wing |-> NoWatcher]

\* triggerEmergencyRespawn, where now is what became of the old process.
Emergency(now) ==
  /\ beat' = NoChild
  /\ Invalidates
  /\ Spawns(now)
  /\ respawn' = next
  /\ lost' = {}
  /\ UNCHANGED call

\* Mutant: the exit of any process is taken for that of the current one.
ExitsAnyone(k) ==
  /\ proc[k] \in {"silent", "up"}
  /\ Emergency([proc EXCEPT ![k] = "exited"])
  /\ UNCHANGED <<killed, polls, misses, missed>>

\* A process exits by itself, or because it was killed.
Exits(k) ==
  /\ proc[k] \in {"silent", "up"}
  /\ IF k = child THEN Emergency([proc EXCEPT ![k] = "exited"])
     ELSE /\ k \in killed
          /\ proc' = [proc EXCEPT ![k] = "exited"]
          /\ UNCHANGED <<next, child, starting, promise, respawn, beat, watchers>>
  /\ UNCHANGED <<killed, polls, misses, missed>>

\* Mutant: wings without a watcher are watched again only when asked for.
ReattachesNobody(k) == UNCHANGED <<pending, call>>

\* reattachWingsAfterQualityWatcherRespawn: getOrCreateQualityWatcher for each
\* wing, which finds a watcher, or joins the promise of the current process.
Reattaches(k) ==
  IF respawn # k THEN UNCHANGED <<pending, call>>
  ELSE /\ pending' = {}
       /\ call' = [c \in Id |->
            IF c \in pending \X {k}
            THEN LET w == c[1] IN
                 IF cache[w].by = None
                 THEN [pc |-> "url", wing |-> w, on |-> k, of |-> None]
                 ELSE IF Running(w) THEN NoCall
                 ELSE [pc |-> "start", wing |-> w, on |-> cache[w].on, of |-> cache[w].by]
            ELSE call[c]]

\* The process announces its port: the heartbeat starts and, unless the time
\* is up, the promise is kept, and the emergency that waits for it is over.
Announces(k) ==
  /\ proc[k] = "silent"
  /\ k = child
  /\ proc' = [proc EXCEPT ![k] = "up"]
  /\ beat' = k
  /\ misses' = 0
  /\ IF promise[k] = "pending"
     THEN promise' = [promise EXCEPT ![k] = "url"] /\ Reattaches(k)
     ELSE UNCHANGED <<promise, pending, call>>
  /\ UNCHANGED <<killed, next, child, starting, respawn, polls, missed, cache, lost>>

\* STARTUP_TIMEOUT_MS, which no exit cancels.
TimesOut(k) ==
  /\ promise[k] = "pending"
  /\ promise' = [promise EXCEPT ![k] = "failed"]
  /\ UNCHANGED <<proc, killed, next, child, starting, respawn, heartbeat, watchers>>

-----------------------------------------------------------------------------
(* The heartbeat. *)

Ticks ==
  /\ beat # NoChild
  /\ beat \notin polls
  /\ polls' = polls \cup {beat}
  /\ UNCHANGED <<processes, beat, misses, missed, watchers>>

PollEnds(k) == k \in polls /\ polls' = polls \ {k}

Answered(k) ==
  /\ PollEnds(k)
  /\ proc[k] = "up"
  /\ missed' = [missed EXCEPT ![k] = 0]
  /\ misses' = IF k = child THEN 0 ELSE misses
  /\ UNCHANGED <<processes, beat, watchers>>

Missing(k) == missed' = [missed EXCEPT ![k] = IF @ < Threshold THEN @ + 1 ELSE @]

\* Mutant: a poll counts whatever process it was about.
CurrentOrNot(k) == TRUE

\* checkHeartbeat's guard against stale ticks.
Current(k) == k = child

\* Mutant: one miss more than the threshold.
HungLate == misses + 1 > Threshold

Hung == misses + 1 >= Threshold

\* A poll is missed, also by a process that is only slow.
Misses(k) ==
  /\ PollEnds(k)
  /\ Missing(k)
  /\ IF Current(k) THEN ~Hung /\ misses' = misses + 1 ELSE UNCHANGED misses
  /\ UNCHANGED <<processes, beat, watchers>>

\* The process is declared hung, killed, and replaced.
DeclaresHung(k) ==
  /\ PollEnds(k)
  /\ Missing(k)
  /\ Current(k)
  /\ Hung
  /\ misses' = misses + 1
  /\ killed' = killed \cup {child}
  /\ Emergency(proc)

-----------------------------------------------------------------------------
(* getOrCreateQualityWatcher. *)

\* quality_status, a commit or a new session asks for the watcher of w.
Asks(c, w) ==
  /\ call[c].pc = "idle"
  /\ ~Running(w)
  /\ IF cache[w].by = None
     THEN /\ EnsureStarted
          /\ call' = [call EXCEPT ![c] = [pc |-> "url", wing |-> w, on |-> starting', of |-> None]]
     ELSE /\ call' = [call EXCEPT ![c] = [pc |-> "start", wing |-> w, on |-> cache[w].on,
                                          of |-> cache[w].by]]
          /\ UNCHANGED <<proc, promise, child, starting, next>>
  /\ UNCHANGED <<killed, respawn, heartbeat, cache, pending, lost>>

\* The URL is there, and getWorkRepoPaths has returned, maybe much later.
Creates(c) ==
  /\ call[c].pc = "url"
  /\ promise[call[c].on] = "url"
  /\ cache' = [cache EXCEPT ![call[c].wing] =
                 [on |-> call[c].on, by |-> c, running |-> FALSE, late |-> call[c].on # child]]
  /\ call' = [call EXCEPT ![c] = [@ EXCEPT !.pc = "start", !.of = c]]
  /\ UNCHANGED <<processes, heartbeat, pending, lost>>

\* The call is rejected: by the promise, at any time by getWorkRepoPaths, or
\* because the wing is gone.  warmQualityWatcher only logs it.
CallFails(c) ==
  /\ call[c].pc = "url"
  /\ call' = [call EXCEPT ![c] = NoCall]
  /\ lost' = lost \cup {w \in Wing : c = <<w, child>>}
  /\ UNCHANGED <<processes, heartbeat, cache, pending>>

\* The watcher's own start returns, or throws.
Starts(c) ==
  /\ call[c].pc = "start"
  /\ call' = [call EXCEPT ![c] = NoCall]
  /\ LET w == call[c].wing
     IN \/ /\ proc[call[c].on] = "up"
           /\ cache' = [cache EXCEPT ![w] =
                IF @.on = call[c].on /\ @.by = call[c].of THEN [@ EXCEPT !.running = TRUE] ELSE @]
           /\ UNCHANGED lost
        \/ /\ lost' = lost \cup {v \in Wing : v = w /\ call[c].on = child}
           /\ UNCHANGED cache
  /\ UNCHANGED <<processes, heartbeat, pending>>

\* coolQualityWatcher
Cools(w) ==
  /\ Running(w)
  /\ cache' = [cache EXCEPT ![w].running = FALSE]
  /\ UNCHANGED <<processes, heartbeat, pending, call, lost>>

-----------------------------------------------------------------------------
Init ==
  /\ proc = [k \in Child |-> "none"]
  /\ killed = {}
  /\ next = 1
  /\ child = NoChild
  /\ starting = NoChild
  /\ promise = [k \in Child |-> "none"]
  /\ respawn = NoChild
  /\ beat = NoChild
  /\ polls = {}
  /\ misses = 0
  /\ missed = [k \in Child |-> 0]
  /\ cache = [w \in Wing |-> NoWatcher]
  /\ pending = {}
  /\ call = [c \in Id |-> NoCall]
  /\ lost = {}

Polls(k) == Answered(k) \/ Misses(k) \/ DeclaresHung(k)

Proceeds(c) == Creates(c) \/ CallFails(c) \/ Starts(c)

Next == \/ \E k \in Child : Exits(k) \/ Announces(k) \/ TimesOut(k) \/ Polls(k)
        \/ Ticks
        \/ \E c \in Call, w \in Wing : Asks(c, w)
        \/ \E c \in Id : Proceeds(c)
        \/ \E w \in Wing : Cools(w)

Spec == Init /\ [][Next]_vars

\* What c awaits has come or failed, but for getWorkRepoPaths.
Due(c) == call[c].pc = "url" => promise[call[c].on] # "pending"

\* The startup timer runs, and a call goes on when its URL has come or failed,
\* be it with an error of its own.  Nothing is assumed of the process.
FairSpec == /\ Spec
            /\ \A k \in Child : WF_vars(Announces(k) \/ TimesOut(k))
            /\ \A c \in Id : WF_vars(Due(c) /\ Proceeds(c))

-----------------------------------------------------------------------------
(* Properties. *)

\* Every variable keeps its shape, and no more than Threshold misses are ever
\* counted: checkHeartbeat replaces the process before.
TypeOK ==
  /\ proc \in [Child -> Process]
  /\ killed \subseteq Child
  /\ next \in 1 .. MaxChild + 1
  /\ {child, starting, respawn, beat} \subseteq Child \cup {NoChild}
  /\ promise \in [Child -> {"none", "pending", "url", "failed"}]
  /\ polls \subseteq Child
  /\ misses \in 0 .. Threshold
  /\ missed \in [Child -> 0 .. Threshold]
  /\ cache \in [Wing -> Watcher]
  /\ pending \subseteq Wing
  /\ call \in [Id -> ACall]
  /\ lost \subseteq Wing

\* "rather than [...] spawning a duplicate": of all processes that were ever
\* spawned, only the current one is alive and was not told to die.
OneProcess == \A k \in Child : proc[k] \in {"silent", "up"} /\ k \notin killed => k = child

\* A process is replaced only for what it did itself: it has exited, or it has
\* missed Threshold polls in a row, not counting those of its predecessor that
\* were still in flight.
NoFalseAlarm ==
  [][child # NoChild /\ child' # child
       => proc'[child] = "exited" \/ missed'[child] = Threshold]_vars

\* From the moment a process fails nothing talks to it any more, but for the
\* watchers of calls that had its URL already and were still looking up paths.
Invalidated == \A w \in Wing : cache[w].on \in {NoChild, child} \/ cache[w].late

\* What a wing that was watched when its process failed may expect of the
\* replacement k: a watcher that runs on k, unless k fails in its turn or is not
\* up in time, or a late call has put a watcher on the old process in its place.
\* "One wing failing to re-attach" is the other exception: its paths could not
\* be read, it is gone, or its watcher did not start, which is only logged.
Watched(w, k) ==
  \/ child # k \/ promise[k] = "failed"
  \/ cache[w].on = k /\ Running(w)
  \/ cache[w].late
  \/ w \in lost

\* Such a wing is watched again, whichever calls build, find and start watchers
\* for it meanwhile.
WatchedAgain ==
  \A w \in Wing, k \in Child : (w \in pending /\ child = k /\ respawn = k) ~> Watched(w, k)
=============================================================================
