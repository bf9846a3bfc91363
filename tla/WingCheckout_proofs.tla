------------------------ MODULE WingCheckout_proofs ------------------------
(***************************************************************************)
(* Proofs about WingCheckout, for any callers, edits, bounds and mishaps.  *)
(*                                                                         *)
(* The first invariant, IInv, holds whatever the callers call.  The        *)
(* second, SInv, needs that nobody commits or merges beside a merge: it    *)
(* says which HEAD a call finds at each of its steps, and that the branch  *)
(* a merge started from is still the one that it moves.  The last section  *)
(* shows that a call has a bounded number of steps.                        *)
(***************************************************************************)
EXTENDS WingCheckout, TLAPS

\* Commits below next exist; what a commit reaches, it reaches entirely, and
\* it holds all edits of what it reaches.
Closed(h, o, n) ==
  /\ \A c \in Commit : c < n => c \in h[c]
  /\ \A c \in Commit : \A x \in h[c] : x < n /\ h[x] \subseteq h[c] /\ o[x] \subseteq o[c]

\* Refs are of something that exists; the local trunk is behind origin.
\* Without the added worktree, only the wing's can have the branch.
Refs ==
  /\ origin < next /\ branch < next
  /\ {Root, cache} \subseteq hist[origin]
  /\ \A t \in Tree : at[t] < next
  /\ on \in {{}, {"wing"}, {"stray"}}
  /\ ~added => on \subseteq {"wing"}

MergeOnly == {"start", "rebase", "begin", "attempt", "checkout", "refetch"} \cup Borrowing
CommitOnly == {"coalesce", "pipeline", "joined", "stage", "commit"}

\* What a call k relies on, whoever else calls what.
SoundCall(k) ==
  /\ k.tip < next /\ k.cand < next
  /\ k.base \in hist[origin]
  /\ k.pc \in {"advance", "forward"} => k.cand \in hist[origin]
  /\ k.asked \subseteq made
  /\ ~added => k.tree = "wing"
  /\ k.pc \in MergeOnly => k.op = "merge"
  /\ k.pc \in CommitOnly => k.op = "commit"
  /\ k.pc = "look" => k.op # "poll"

Calling(c, k) == SoundCall(k) /\ k.op \in ops[c] \cup {"poll"}

IInv == TypeOK /\ Closed(hist, holds, next) /\ Refs /\ \A c \in Caller : Calling(c, call[c])

\* Nobody commits or merges beside a merge.
Solo == \A P \in Programs : \A c, d \in Caller :
          c # d /\ "merge" \in P[c] => P[d] \subseteq {"poll"}

\* What is not lost.
Work == holds[branch] \cup holds[origin]

\* What a call k relies on where nobody commits or merges beside a merge.
SoloCall(k) ==
  /\ k.op # "poll" /\ k.pc \notin {"idle", "resolve"} \cup Borrowing
       => on = {"wing"} /\ k.pc # "add"
  /\ k.pc \notin {"idle", "resolve", "list", "add"} => k.tree = "wing"
  /\ k.pc \in Borrowing => "wing" \notin on
  /\ k.pc \in {"attempt", "checkout", "refetch"} \cup (Borrowing \ {"finally"}) => k.tip = branch
  /\ k.pc \in {"name", "merge"} => at["wing"] = k.base
  /\ k.pc = "hash" => branch \in hist[at["wing"]]
  /\ k.pc \in {"push", "advance", "forward"} => branch \in hist[k.cand]
  /\ k.pc = "finally" /\ k.out \in {"landed", "current"} => k.tip \in hist[origin]
  /\ k.pc = "finally" /\ k.out = "rejected" => k.tip = branch
  /\ k.pc = "commit" => k.asked \subseteq k.stage \cup Work

SInv ==
  /\ \A c \in Caller : SoloCall(call[c])
  /\ made \subseteq dirty["wing"] \cup Work
  /\ told \subseteq Work
  /\ acked \subseteq hist[origin]

\* Commits never change, and what is published stays published.
Grows ==
  /\ next <= next'
  /\ \A c \in Commit : c < next => hist'[c] = hist[c] /\ holds'[c] = holds[c]
  /\ hist[origin] \subseteq (hist')[origin']

\* What every step does.
Keeps ==
  /\ IInv' /\ Grows
  /\ UNCHANGED acked \/ (UNCHANGED <<hist, origin>> /\ acked \subseteq acked')
  /\ HeadBack => HeadBack' \/ added' \/ Restart \/ \E c \in Caller : SwitchFails(c)
  /\ Solo /\ SInv => SInv'

-----------------------------------------------------------------------------
(* The graph, and steps in general. *)

\* The invariant, read.
LEMMA Facts ==
  ASSUME IInv
  PROVE  /\ TypeOK /\ Closed(hist, holds, next) /\ Refs
         /\ \A c \in Caller : Calling(c, call[c])
         /\ MaxCommit \in Nat /\ MaxAttempts \in Nat \ {0}
         /\ \A c \in Commit : c \in Nat
         /\ Root \in Commit /\ Root < next /\ next \in Nat
         /\ {origin, cache, branch} \subseteq Commit /\ origin < next /\ cache < next /\ branch < next
         /\ origin \in hist[origin]
<1>1. /\ MaxCommit \in Nat /\ MaxAttempts \in Nat \ {0}
      /\ \A c \in Commit : c \in Nat
  BY CheckoutAssumption DEF Commit
<1>2. /\ TypeOK /\ Closed(hist, holds, next) /\ Refs
      /\ \A c \in Caller : Calling(c, call[c])
      /\ next \in Nat /\ next >= 1
      /\ {origin, cache, branch} \subseteq Commit
  BY <1>1 DEF IInv, TypeOK
<1>3. Root \in Commit /\ Root < next
  BY <1>1, <1>2 DEF Root, Commit
<1>4. origin < next /\ cache < next /\ branch < next /\ origin \in hist[origin]
  BY <1>2 DEF Refs, Closed
<1> QED
  BY <1>1, <1>2, <1>3, <1>4

\* The invariant, read for one caller.
LEMMA CallFacts ==
  ASSUME IInv, NEW c \in Caller
  PROVE  /\ call[c] \in Call /\ SoundCall(call[c])
         /\ call[c].op \in {"poll", "commit", "merge"} /\ call[c].op \in ops[c] \cup {"poll"}
         /\ call[c].pc \in Step /\ call[c].named \in BOOLEAN /\ call[c].tree \in Tree
         /\ call[c].asked \subseteq Edit /\ call[c].asked \subseteq made
         /\ call[c].stage \subseteq Edit
         /\ {call[c].tip, call[c].base, call[c].cand} \subseteq Commit
         /\ call[c].tip < next /\ call[c].base < next /\ call[c].cand < next
         /\ call[c].base \in hist[origin]
         /\ call[c].tries \in 0 .. MaxAttempts /\ call[c].out \in Outcome
<1>1. call[c] \in Call /\ SoundCall(call[c]) /\ call[c].op \in ops[c] \cup {"poll"}
  BY DEF IInv, TypeOK, Calling
<1>2. /\ call[c].op \in {"poll", "commit", "merge"}
      /\ call[c].pc \in Step /\ call[c].named \in BOOLEAN /\ call[c].tree \in Tree
      /\ call[c].asked \subseteq Edit /\ call[c].stage \subseteq Edit
      /\ {call[c].tip, call[c].base, call[c].cand} \subseteq Commit
      /\ call[c].tries \in 0 .. MaxAttempts /\ call[c].out \in Outcome
  BY <1>1 DEF Call
<1>3. /\ call[c].asked \subseteq made /\ call[c].base \in hist[origin]
      /\ call[c].tip < next /\ call[c].cand < next
  BY <1>1 DEF SoundCall
<1>4. call[c].base < next
  BY <1>3, Facts DEF Closed
<1> QED
  BY <1>1, <1>2, <1>3, <1>4

\* A new call relies on nothing.
LEMMA NewCallSound ==
  ASSUME IInv, NEW op \in {"poll", "commit", "merge"}, NEW pc \in {"idle", "resolve"}
  PROVE  /\ NewCall(op, pc) \in Call
         /\ NewCall(op, pc).op = op /\ NewCall(op, pc).pc = pc
         /\ NewCall(op, pc).asked = {}
         /\ SoundCall(NewCall(op, pc)) /\ SoloCall(NewCall(op, pc))
<1> DEFINE r == NewCall(op, pc)
<1>1. /\ r \in Call /\ r.op = op /\ r.pc = pc /\ r.tip = Root /\ r.base = Root /\ r.cand = Root
      /\ r.asked = {} /\ r.tree = "wing"
  BY Facts DEF NewCall, Call, Step, Tree, Outcome
<1> HIDE DEF r
<1>2. SoundCall(r) /\ SoloCall(r)
  BY <1>1, Facts DEF SoundCall, SoloCall, Refs, MergeOnly, CommitOnly, Borrowing
<1> QED
  BY <1>1, <1>2 DEF r

LEMMA NoCallSound ==
  ASSUME IInv
  PROVE  /\ NoCall \in Call /\ NoCall.op = "poll" /\ NoCall.pc = "idle"
         /\ SoundCall(NoCall) /\ SoloCall(NoCall)
  BY NewCallSound DEF NoCall

\* A call of somebody who only reads relies on nothing more.
LEMMA PollsSound ==
  ASSUME IInv, NEW c \in Caller, call[c].op = "poll"
  PROVE  call[c].pc \in {"idle", "resolve", "list", "add"}
  BY CallFacts DEF SoundCall, MergeOnly, CommitOnly, Step, Borrowing

\* A new commit holds what its parents hold, and more.
LEMMA CreateSound ==
  ASSUME IInv, NEW parents \in SUBSET Commit, \A p \in parents : p < next,
         NEW more \in SUBSET Edit, Create(parents, more)
  PROVE  /\ hist' \in [Commit -> SUBSET Commit]
         /\ holds' \in [Commit -> SUBSET Edit]
         /\ next' \in 1 .. MaxCommit + 1
         /\ next \in Commit /\ next < next' /\ next' \in Nat
         /\ Closed(hist, holds, next)'
         /\ \A c \in Commit : c < next => (hist')[c] = hist[c] /\ (holds')[c] = holds[c]
         /\ next \in (hist')[next] /\ more \subseteq (holds')[next]
         /\ \A p \in parents : /\ hist[p] \subseteq (hist')[next]
                               /\ p \in (hist')[next]
                               /\ holds[p] \subseteq (holds')[next]
<1> DEFINE past == UNION {hist[p] : p \in parents}
           kept == UNION {holds[p] : p \in parents}
<1>1. /\ next \in Commit /\ next \in Nat /\ next' = next + 1
      /\ hist' = [hist EXCEPT ![next] = {next} \cup past]
      /\ holds' = [holds EXCEPT ![next] = more \cup kept]
  BY Facts DEF Create
<1>2. past \in SUBSET Commit /\ kept \in SUBSET Edit
  BY Facts DEF TypeOK
<1>3. \A p \in parents : hist[p] \subseteq past /\ holds[p] \subseteq kept /\ p \in past
  BY Facts DEF Closed
<1>4. \A x \in past : x < next /\ hist[x] \subseteq past /\ holds[x] \subseteq kept
  <2> SUFFICES ASSUME NEW p \in parents, NEW x \in hist[p]
               PROVE  x < next /\ hist[x] \subseteq past /\ holds[x] \subseteq kept
    OBVIOUS
  <2>1. x < next /\ hist[x] \subseteq hist[p] /\ holds[x] \subseteq holds[p]
    BY Facts DEF Closed
  <2> QED
    BY <2>1, <1>3
<1> HIDE DEF past, kept
<1>5. /\ hist' \in [Commit -> SUBSET Commit] /\ holds' \in [Commit -> SUBSET Edit]
      /\ (hist')[next] = {next} \cup past /\ (holds')[next] = more \cup kept
      /\ \A c \in Commit : c # next => (hist')[c] = hist[c] /\ (holds')[c] = holds[c]
  BY <1>1, <1>2, Facts DEF TypeOK
<1>6. next' \in 1 .. MaxCommit + 1 /\ next < next' /\ next' \in Nat
  BY <1>1, Facts DEF Commit
<1>7. \A c \in Commit : c < next => (hist')[c] = hist[c] /\ (holds')[c] = holds[c]
  BY <1>1, <1>5, Facts
<1>8. Closed(hist, holds, next)'
  <2>1. ASSUME NEW c \in Commit, c < next'
        PROVE  c \in (hist')[c]
    BY <2>1, <1>1, <1>5, Facts DEF Closed
  <2>2. ASSUME NEW c \in Commit, NEW x \in (hist')[c]
        PROVE  x < next' /\ (hist')[x] \subseteq (hist')[c] /\ (holds')[x] \subseteq (holds')[c]
    <3>1. x \in Commit /\ x \in Nat
      BY <1>5, Facts
    <3>2. CASE c # next
      <4>1. x < next /\ hist[x] \subseteq hist[c] /\ holds[x] \subseteq holds[c]
        BY <3>2, <1>5, Facts DEF Closed
      <4>2. (hist')[x] = hist[x] /\ (holds')[x] = holds[x]
        BY <4>1, <3>1, <1>7
      <4> QED
        BY <4>1, <4>2, <3>1, <3>2, <1>1, <1>5
    <3>3. CASE c = next /\ x # next
      <4>1. x \in past
        BY <3>3, <1>5
      <4> QED
        BY <4>1, <3>1, <3>3, <1>1, <1>4, <1>5, Facts
    <3>4. CASE c = next /\ x = next
      BY <3>4, <1>1
    <3> QED
      BY <3>2, <3>3, <3>4
  <2> QED
    BY <2>1, <2>2 DEF Closed
<1> QED
  BY <1>1, <1>3, <1>5, <1>6, <1>7, <1>8

\* HEAD is at something that exists.
LEMMA TipSound ==
  ASSUME IInv, NEW t \in Tree
  PROVE  Tip(t) \in Commit /\ Tip(t) < next
  BY Facts DEF Tip, TypeOK, Refs

\* What a call relies on in any case, no step of another one takes away.
LEMMA StaysSound ==
  ASSUME IInv, Grows, next' \in Nat, made \subseteq made', added => added',
         NEW k \in Call, SoundCall(k)
  PROVE  SoundCall(k)'
<1>1. k.tip \in Nat /\ k.cand \in Nat
  BY Facts DEF Call
<1> QED
  BY <1>1, Facts DEF SoundCall, Grows

\* A step of one call that leaves the branch, every HEAD and the files alone.
LEMMA CallMoves ==
  ASSUME IInv, NEW c \in Caller, NEW r \in Call,
         call' = [call EXCEPT ![c] = r],
         UNCHANGED <<ops, graph, branch, heads, edits>>,
         running' \subseteq Caller,
         origin' \in Commit, origin' < next, origin \in hist[origin'], cache' \in hist[origin'],
         told' \subseteq made, acked' \subseteq Commit,
         UNCHANGED acked \/ (UNCHANGED origin /\ acked \subseteq acked'),
         r.op \in ops[c] \cup {"poll"}, SoundCall(r)',
         call[c].pc \in Borrowing => r.pc \in Borrowing \/ added \/ SwitchFails(c),
         Solo /\ SInv => SoloCall(r)' /\ told' \subseteq Work' /\ acked' \subseteq hist[origin']
  PROVE  Keeps
<1> USE DEF graph, heads, edits
<1>1. hist[origin] \subseteq hist[origin'] /\ holds[origin] \subseteq holds[origin']
  BY Facts DEF Closed
<1>2. Grows
  BY <1>1, Facts DEF Grows
<1>3. call' \in [Caller -> Call] /\ call'[c] = r /\ \A d \in Caller : d # c => call'[d] = call[d]
  BY Facts DEF TypeOK
<1>4. ASSUME NEW d \in Caller
      PROVE  Calling(d, call[d])'
  <2>1. CASE d = c
    BY <2>1, <1>3 DEF Calling
  <2>2. CASE d # c
    <3>1. SoundCall(call[d])'
      BY <2>2, <1>2, <1>3, StaysSound, CallFacts, Facts
    <3> QED
      BY <2>2, <3>1, <1>3, Facts DEF Calling
  <2> QED
    BY <2>1, <2>2
<1>5. TypeOK'
  <2>1. cache' \in Commit
    BY Facts DEF TypeOK
  <2> QED
    BY <2>1, <1>3, Facts DEF TypeOK
<1>6. Closed(hist, holds, next)' /\ Refs'
  BY <1>1, Facts DEF Refs
<1>7. HeadBack => HeadBack' \/ added' \/ SwitchFails(c)
  BY <1>3 DEF HeadBack
<1>8. ASSUME Solo, SInv
      PROVE  SInv'
  <2>1. Work \subseteq Work'
    BY <1>1 DEF Work
  <2>2. ASSUME NEW d \in Caller
        PROVE  SoloCall(call[d])'
    <3>1. CASE d = c
      BY <3>1, <1>3, <1>8
    <3>2. CASE d # c
      <4>1. SoloCall(call[d]) /\ call'[d] = call[d]
        BY <3>2, <1>3, <1>8 DEF SInv
      <4> QED
        BY <4>1, <1>1, <2>1 DEF SoloCall
    <3> QED
      BY <3>1, <3>2
  <2>3. made' \subseteq dirty'["wing"] \cup Work'
    BY <2>1, <1>8 DEF SInv
  <2> QED
    BY <2>2, <2>3, <1>8 DEF SInv
<1> QED
  BY <1>2, <1>4, <1>5, <1>6, <1>7, <1>8 DEF Keeps, IInv

\* A step of one call in which only the call moves.
LEMMA QuietMoves ==
  ASSUME IInv, NEW c \in Caller, NEW r \in Call,
         call' = [call EXCEPT ![c] = r],
         UNCHANGED ops, UNCHANGED Quiet,
         r.op \in ops[c] \cup {"poll"}, SoundCall(r),
         call[c].pc \in Borrowing => r.pc \in Borrowing \/ added \/ SwitchFails(c),
         Solo /\ SInv => SoloCall(r)
  PROVE  Keeps
<1> USE DEF Quiet, graph, refs, heads, edits, reports
<1>1. /\ running' \subseteq Caller
      /\ origin' \in Commit /\ origin' < next /\ origin \in hist[origin'] /\ cache' \in hist[origin']
      /\ told' \subseteq made /\ acked' \subseteq Commit
  BY Facts DEF TypeOK, Refs
<1>2. SoundCall(r)'
  BY DEF SoundCall
<1>3. Solo /\ SInv => SoloCall(r)' /\ told' \subseteq Work' /\ acked' \subseteq hist[origin']
  BY DEF SoloCall, Work, SInv
<1> QED
  BY <1>1, <1>2, <1>3, CallMoves

\* Where nobody calls anything beside a merge, no one else relies on a HEAD.
LEMMA Alone ==
  ASSUME IInv, Solo, NEW c \in Caller, call[c].op = "merge", NEW d \in Caller, d # c
  PROVE  call[d].op = "poll" /\ call[d].pc \in {"idle", "resolve", "list", "add"}
<1>1. ops \in [Caller -> SUBSET {"poll", "commit", "merge"}] /\ ops \in Programs
  BY CheckoutAssumption, Facts DEF TypeOK
<1>2. "merge" \in ops[c]
  BY CallFacts
<1>3. ops[d] \subseteq {"poll"}
  BY <1>1, <1>2 DEF Solo
<1>4. call[d].op = "poll"
  BY <1>3, CallFacts
<1> QED
  BY <1>4, PollsSound

\* A step of a merge that moves the branch or a HEAD.
LEMMA MergeMoves ==
  ASSUME IInv, NEW c \in Caller, NEW r \in Call, call[c].op = "merge", r.op \in {"merge", "poll"},
         call' = [call EXCEPT ![c] = r],
         UNCHANGED <<ops, origin, cache, added, edits, running, told>>,
         hist' \in [Commit -> SUBSET Commit], holds' \in [Commit -> SUBSET Edit],
         next' \in 1 .. MaxCommit + 1, Closed(hist, holds, next)', next <= next',
         \A x \in Commit : x < next => (hist')[x] = hist[x] /\ (holds')[x] = holds[x],
         branch' \in Commit, branch' < next',
         at' \in [Tree -> Commit], \A t \in Tree : at'[t] < next',
         on' \in {{}, {"wing"}, {"stray"}}, ~added => on' \subseteq {"wing"},
         acked' \subseteq Commit, acked \subseteq acked', UNCHANGED acked \/ UNCHANGED hist,
         SoundCall(r)',
         \/ r.pc \in Borrowing
         \/ on' = on /\ call[c].pc \notin Borrowing
         \/ on' = {"wing"}
         \/ added,
         Solo /\ SInv => SoloCall(r)' /\ Work \subseteq Work' /\ acked' \subseteq (hist')[origin']
  PROVE  Keeps
<1> USE DEF edits
<1>1. (hist')[origin'] = hist[origin] /\ next' \in Nat
  BY Facts
<1>2. Grows
  BY <1>1, Facts DEF Grows
<1>3. call' \in [Caller -> Call] /\ call'[c] = r /\ \A d \in Caller : d # c => call'[d] = call[d]
  BY Facts DEF TypeOK
<1>4. ASSUME NEW d \in Caller
      PROVE  Calling(d, call[d])'
  <2>1. CASE d = c
    BY <2>1, <1>3, CallFacts DEF Calling
  <2>2. CASE d # c
    <3>1. SoundCall(call[d])'
      BY <2>2, <1>1, <1>2, <1>3, StaysSound, CallFacts, Facts
    <3> QED
      BY <2>2, <3>1, <1>3, Facts DEF Calling
  <2> QED
    BY <2>1, <2>2
<1>5. TypeOK'
  BY <1>3, Facts DEF TypeOK, Tree
<1>6. Refs'
  BY <1>1, Facts DEF Refs
<1>7. HeadBack => HeadBack' \/ added'
  BY <1>3 DEF HeadBack
<1>8. ASSUME Solo, SInv
      PROVE  SInv'
  <2>1. ASSUME NEW d \in Caller
        PROVE  SoloCall(call[d])'
    <3>1. CASE d = c
      BY <3>1, <1>3, <1>8
    <3>2. CASE d # c
      <4>1. call'[d].op = "poll" /\ call'[d].pc \in {"idle", "resolve", "list", "add"}
        BY <3>2, <1>3, <1>8, Alone
      <4> QED
        BY <4>1 DEF SoloCall, Borrowing
    <3> QED
      BY <3>1, <3>2
  <2>2. made' \subseteq dirty'["wing"] \cup Work' /\ told' \subseteq Work'
    BY <1>8 DEF SInv
  <2> QED
    BY <2>1, <2>2, <1>8 DEF SInv
<1> QED
  BY <1>2, <1>4, <1>5, <1>6, <1>7, <1>8, Facts DEF Keeps, IInv

\* Two calls that differ in their step only.
SameButPc(r, k) ==
  /\ r.op = k.op /\ r.named = k.named /\ r.tree = k.tree /\ r.asked = k.asked /\ r.stage = k.stage
  /\ r.tip = k.tip /\ r.base = k.base /\ r.cand = k.cand /\ r.tries = k.tries

LEMMA GraphStill ==
  ASSUME IInv, UNCHANGED graph
  PROVE  /\ UNCHANGED hist
         /\ hist' \in [Commit -> SUBSET Commit] /\ holds' \in [Commit -> SUBSET Edit]
         /\ next' \in 1 .. MaxCommit + 1 /\ Closed(hist, holds, next)' /\ next <= next'
         /\ \A x \in Commit : x < next => (hist')[x] = hist[x] /\ (holds')[x] = holds[x]
  BY Facts DEF graph, TypeOK

LEMMA GoesToSound ==
  ASSUME IInv, NEW c \in Caller, NEW pc \in Step, GoesTo(c, pc)
  PROVE  \E r \in Call : /\ call' = [call EXCEPT ![c] = r]
                         /\ r.pc = pc /\ r.out = call[c].out /\ SameButPc(r, call[c])
<1> DEFINE r == [call[c] EXCEPT !.pc = pc]
<1>1. r \in Call /\ r.pc = pc /\ r.out = call[c].out /\ SameButPc(r, call[c])
  BY CallFacts DEF Call, SameButPc
<1>2. call' = [call EXCEPT ![c] = r]
  BY DEF GoesTo
<1> QED
  BY <1>1, <1>2

LEMMA EndsSound ==
  ASSUME IInv, NEW c \in Caller, NEW out \in Outcome, Ends(c, out)
  PROVE  \E r \in Call : /\ call' = [call EXCEPT ![c] = r]
                         /\ r.pc = "finally" /\ r.out = out /\ SameButPc(r, call[c])
<1> DEFINE r == [call[c] EXCEPT !.pc = "finally", !.out = out]
<1>1. r \in Call /\ r.pc = "finally" /\ r.out = out /\ SameButPc(r, call[c])
  BY CallFacts DEF Call, SameButPc, Step, Borrowing
<1>2. call' = [call EXCEPT ![c] = r]
  BY DEF Ends
<1> QED
  BY <1>1, <1>2

LEMMA ReturnsKeeps ==
  ASSUME IInv, NEW c \in Caller, Returns(c), UNCHANGED ops, UNCHANGED Quiet,
         call[c].pc \in Borrowing => added \/ SwitchFails(c)
  PROVE  Keeps
<1>1. call' = [call EXCEPT ![c] = NoCall]
  BY DEF Returns
<1> QED
  BY <1>1, NoCallSound, QuietMoves

LEMMA OpsFacts ==
  ASSUME IInv, NEW c \in Caller
  PROVE  ops[c] \subseteq {"poll", "commit", "merge"}
  BY CheckoutAssumption, Facts DEF TypeOK

-----------------------------------------------------------------------------
(* The active movement. *)

LEMMA CallsKeeps ==
  ASSUME IInv, UNCHANGED ops, NEW c \in Caller, NEW op \in ops[c], Calls(c, op)
  PROVE  Keeps
<1> DEFINE r == [NewCall(op, "resolve") EXCEPT !.asked = made]
<1>1. op \in {"poll", "commit", "merge"} /\ made \subseteq Edit
  BY OpsFacts, Facts DEF TypeOK
<1>2. /\ NewCall(op, "resolve") \in Call
      /\ NewCall(op, "resolve").op = op /\ NewCall(op, "resolve").pc = "resolve"
      /\ SoundCall(NewCall(op, "resolve")) /\ SoloCall(NewCall(op, "resolve"))
  BY <1>1, NewCallSound
<1>3. r \in Call /\ r.op = op /\ r.pc = "resolve" /\ SoundCall(r) /\ SoloCall(r)
  BY <1>1, <1>2 DEF Call, SoundCall, SoloCall, Borrowing
<1>4. call[c].pc = "idle" /\ call' = [call EXCEPT ![c] = r] /\ UNCHANGED Quiet
  BY DEF Calls, Quiet
<1> HIDE DEF r
<1> QED
  BY <1>3, <1>4, QuietMoves DEF Borrowing

LEMMA ResolvesKeeps ==
  ASSUME IInv, UNCHANGED ops, NEW c \in Caller, Resolves(c)
  PROVE  Keeps
<1>1. call[c].pc = "resolve" /\ UNCHANGED Quiet
  BY DEF Resolves, Quiet
<1>2. CASE "wing" \in on /\ GoesTo(c, "list")
  <2>1. PICK r \in Call : /\ call' = [call EXCEPT ![c] = r]
                          /\ r.pc = "list" /\ SameButPc(r, call[c])
    BY <1>2, GoesToSound DEF Step
  <2>2. SoundCall(r)
    BY <2>1, CallFacts DEF SoundCall, SameButPc, MergeOnly, CommitOnly, Borrowing
  <2>3. SoloCall(r)
    BY <2>1, <1>2, Facts DEF SoloCall, Refs, Borrowing
  <2> QED
    BY <1>1, <2>1, <2>2, <2>3, CallFacts, QuietMoves DEF SameButPc, Borrowing
<1>3. CASE Returns(c)
  BY <1>1, <1>3, ReturnsKeeps DEF Borrowing
<1> QED
  BY <1>2, <1>3 DEF Resolves

\* What a call goes on as in worktree t.
LEMMA ResolvedSound ==
  ASSUME IInv, NEW c \in Caller, call[c].pc \in {"list", "add"}, NEW t \in Tree,
         added \/ t = "wing"
  PROVE  /\ Resolved(c, t) \in Call
         /\ SoundCall(Resolved(c, t))
         /\ Resolved(c, t).op \in ops[c] \cup {"poll"}
         /\ Resolved(c, t).op \in {call[c].op, "poll"}
         /\ t = "wing" /\ (call[c].op # "poll" => on = {"wing"}) => SoloCall(Resolved(c, t))
<1>1. CASE call[c].op = "poll"
  BY <1>1, NoCallSound DEF Resolved
<1>2. CASE call[c].op = "merge" /\ ~call[c].named
  <2> DEFINE r == [call[c] EXCEPT !.pc = "resolve", !.named = TRUE]
  <2>1. /\ r \in Call /\ r.pc = "resolve" /\ r.op = "merge" /\ r.tree = call[c].tree
        /\ r.asked = call[c].asked
        /\ r.tip = call[c].tip /\ r.base = call[c].base /\ r.cand = call[c].cand
    BY <1>2, CallFacts DEF Call, Step
  <2>2. Resolved(c, t) = r
    BY <1>2 DEF Resolved
  <2> HIDE DEF r
  <2>3. SoundCall(r) /\ SoloCall(r)
    BY <2>1, CallFacts DEF SoundCall, SoloCall, MergeOnly, CommitOnly, Borrowing
  <2> QED
    BY <1>2, <2>1, <2>2, <2>3, CallFacts
<1>3. CASE call[c].op # "poll" /\ ~(call[c].op = "merge" /\ ~call[c].named)
  <2> DEFINE r == [call[c] EXCEPT !.pc = "look", !.tree = t]
  <2>1. /\ r \in Call /\ r.pc = "look" /\ r.op = call[c].op /\ r.tree = t
        /\ r.asked = call[c].asked
        /\ r.tip = call[c].tip /\ r.base = call[c].base /\ r.cand = call[c].cand
    BY CallFacts DEF Call, Step
  <2>2. Resolved(c, t) = r
    BY <1>3 DEF Resolved
  <2> HIDE DEF r
  <2>3. SoundCall(r)
    BY <1>3, <2>1, CallFacts DEF SoundCall, MergeOnly, CommitOnly, Borrowing
  <2>4. t = "wing" /\ on = {"wing"} => SoloCall(r)
    BY <2>1 DEF SoloCall, Borrowing
  <2> QED
    BY <1>3, <2>1, <2>2, <2>3, <2>4, CallFacts
<1> QED
  BY <1>1, <1>2, <1>3

LEMMA ListsKeeps ==
  ASSUME IInv, UNCHANGED ops, NEW c \in Caller, Lists(c)
  PROVE  Keeps
<1>1. call[c].pc = "list" /\ UNCHANGED Quiet
  BY DEF Lists, Quiet
<1>2. CASE on = {} /\ GoesTo(c, "add")
  <2>1. PICK r \in Call : /\ call' = [call EXCEPT ![c] = r]
                          /\ r.pc = "add" /\ SameButPc(r, call[c])
    BY <1>2, GoesToSound DEF Step
  <2>2. SoundCall(r)
    BY <2>1, CallFacts DEF SoundCall, SameButPc, MergeOnly, CommitOnly, Borrowing
  <2>3. SInv => SoloCall(r)
    BY <1>1, <1>2, <2>1 DEF SInv, SoloCall, SameButPc, Borrowing
  <2> QED
    BY <1>1, <2>1, <2>2, <2>3, CallFacts, QuietMoves DEF SameButPc, Borrowing
<1>3. ASSUME NEW t \in on, call' = [call EXCEPT ![c] = Resolved(c, t)]
      PROVE  Keeps
  <2>1. t \in Tree /\ (added \/ t = "wing")
    BY Facts DEF TypeOK, Refs
  <2>2. SInv => SoloCall(Resolved(c, t))
    <3> SUFFICES ASSUME SInv
                 PROVE  SoloCall(Resolved(c, t))
      OBVIOUS
    <3>1. call[c].op # "poll" => on = {"wing"}
      BY <1>1 DEF SInv, SoloCall, Borrowing
    <3>2. CASE t = "wing"
      BY <1>1, <2>1, <3>1, <3>2, ResolvedSound
    <3>3. CASE t # "wing"
      <4>1. call[c].op = "poll"
        BY <3>1, <3>3, <1>3
      <4> QED
        BY <4>1, NoCallSound DEF Resolved
    <3> QED
      BY <3>2, <3>3
  <2>3. /\ Resolved(c, t) \in Call /\ SoundCall(Resolved(c, t))
        /\ Resolved(c, t).op \in ops[c] \cup {"poll"}
    BY <1>1, <2>1, ResolvedSound
  <2> QED
    BY <1>1, <1>3, <2>2, <2>3, QuietMoves DEF Borrowing
<1> QED
  BY <1>2, <1>3 DEF Lists

\* A worktree is added on the branch while a merge has HEAD detached.
LEMMA AddsKeeps ==
  ASSUME IInv, UNCHANGED ops, NEW c \in Caller, Adds(c)
  PROVE  Keeps
<1> USE DEF graph, refs, edits, reports
<1>0. PICK r : r = Resolved(c, "stray")
  OBVIOUS
<1>1. /\ call[c].pc = "add" /\ on = {} /\ on' = {"stray"} /\ added' = TRUE
      /\ call' = [call EXCEPT ![c] = r]
      /\ UNCHANGED <<graph, refs, at, edits, running, reports>>
  BY <1>0 DEF Adds, Addable
<1>2. Closed(hist, holds, next)' /\ Grows
  BY <1>1, Facts DEF Grows
<1>3. /\ r \in Call /\ r.op \in ops[c] \cup {"poll"}
      /\ r.pc # "look" \/ r.tree = "stray"
      /\ SoundCall(r)'
  <2>1. CASE call[c].op = "poll"
    <3>1. r = NoCall
      BY <1>0, <2>1 DEF Resolved
    <3>2. r \in Call /\ r.op = "poll" /\ r.pc = "idle" /\ SoundCall(r)
      BY <3>1, NoCallSound
    <3> QED
      BY <3>2, <1>1, <1>2, StaysSound, Facts
  <2>2. CASE call[c].op # "poll"
    <3>1. \/ r = [call[c] EXCEPT !.pc = "resolve", !.named = TRUE]
          \/ r = [call[c] EXCEPT !.pc = "look", !.tree = "stray"]
      BY <1>0, <2>2 DEF Resolved
    <3>2. /\ r \in Call /\ r.op = call[c].op /\ r.pc \in {"resolve", "look"}
          /\ r.pc # "look" \/ r.tree = "stray"
          /\ r.asked = call[c].asked
          /\ r.tip = call[c].tip /\ r.base = call[c].base /\ r.cand = call[c].cand
      BY <3>1, CallFacts DEF Call, Step, Tree
    <3>3. SoundCall(r)'
      BY <2>2, <3>2, <1>1, CallFacts DEF SoundCall, MergeOnly, CommitOnly, Borrowing
    <3> QED
      BY <3>2, <3>3, CallFacts
  <2> QED
    BY <2>1, <2>2
<1>4. call' \in [Caller -> Call] /\ call'[c] = r /\ \A d \in Caller : d # c => call'[d] = call[d]
  BY <1>1, <1>3, Facts DEF TypeOK
<1>5. ASSUME NEW d \in Caller
      PROVE  Calling(d, call[d])'
  <2>1. CASE d = c
    BY <2>1, <1>3, <1>4 DEF Calling
  <2>2. CASE d # c
    <3>1. SoundCall(call[d])'
      BY <2>2, <1>1, <1>2, <1>4, StaysSound, CallFacts, Facts
    <3> QED
      BY <2>2, <3>1, <1>4, Facts DEF Calling
  <2> QED
    BY <2>1, <2>2
<1>6. TypeOK' /\ Refs'
  BY <1>1, <1>4, Facts DEF TypeOK, Refs, Tree
<1>7. ASSUME SInv
      PROVE  SInv'
  <2>1. ASSUME NEW d \in Caller
        PROVE  SoloCall(call[d])'
    <3>1. CASE d = c
      <4>1. call[c].op = "poll"
        BY <1>1, <1>7 DEF SInv, SoloCall, Borrowing
      <4>2. r = NoCall
        BY <1>0, <4>1 DEF Resolved
      <4> QED
        BY <3>1, <4>2, <1>4, NoCallSound DEF SoloCall, Borrowing
    <3>2. CASE d # c
      <4>1. SoloCall(call[d]) /\ call'[d] = call[d]
        BY <3>2, <1>4, <1>7 DEF SInv
      <4> QED
        BY <4>1, <1>1 DEF SoloCall, Work
    <3> QED
      BY <3>1, <3>2
  <2> QED
    BY <2>1, <1>1, <1>7 DEF SInv, Work
<1> QED
  BY <1>1, <1>2, <1>5, <1>6, <1>7 DEF Keeps, IInv

LEMMA AddFailsKeeps ==
  ASSUME IInv, UNCHANGED ops, NEW c \in Caller, AddFails(c)
  PROVE  Keeps
  BY ReturnsKeeps DEF AddFails, Quiet, Borrowing

-----------------------------------------------------------------------------
(* movement merge. *)

LEMMA MergeLooksKeeps ==
  ASSUME IInv, UNCHANGED ops, NEW c \in Caller, MergeLooks(c)
  PROVE  Keeps
<1>1. call[c].op = "merge" /\ call[c].pc = "look" /\ UNCHANGED Quiet
  BY DEF MergeLooks
<1>2. CASE GoesTo(c, "start")
  <2>1. PICK r \in Call : /\ call' = [call EXCEPT ![c] = r]
                          /\ r.pc = "start" /\ SameButPc(r, call[c])
    BY <1>2, GoesToSound DEF Step
  <2>2. SoundCall(r)
    BY <1>1, <2>1, CallFacts DEF SoundCall, SameButPc, MergeOnly, CommitOnly, Borrowing
  <2>3. SInv => SoloCall(r)
    BY <1>1, <2>1 DEF SInv, SoloCall, SameButPc, Borrowing
  <2> QED
    BY <1>1, <2>1, <2>2, <2>3, CallFacts, QuietMoves DEF SameButPc, Borrowing
<1>3. CASE Returns(c)
  BY <1>1, <1>3, ReturnsKeeps DEF Borrowing
<1> QED
  BY <1>2, <1>3 DEF MergeLooks

LEMMA FetchesKeeps ==
  ASSUME IInv, UNCHANGED ops, NEW c \in Caller, Fetches(c)
  PROVE  Keeps
<1>1. /\ call[c].pc \in {"start", "refetch"} /\ cache' = origin
      /\ UNCHANGED <<graph, origin, branch, heads, edits, running, reports>>
  BY DEF Fetches
<1>2. PICK r \in Call : /\ call' = [call EXCEPT ![c] = r]
                        /\ r.pc \in {"rebase", "attempt"} /\ SameButPc(r, call[c])
                        /\ r.pc = "attempt" => call[c].pc = "refetch"
  BY <1>1, GoesToSound DEF Step, Fetches
<1>3. call[c].op = "merge"
  BY <1>1, CallFacts DEF SoundCall, MergeOnly
<1>4. SoundCall(r)'
  BY <1>1, <1>2, <1>3, CallFacts DEF SoundCall, SameButPc, MergeOnly, CommitOnly, Borrowing,
     graph, heads, edits
<1>5. SInv => SoloCall(r)'
  BY <1>1, <1>2, <1>3 DEF SInv, SoloCall, SameButPc, Borrowing, graph, heads
<1>6. SInv => told' \subseteq Work' /\ acked' \subseteq hist[origin']
  BY <1>1 DEF SInv, Work, graph, reports
<1> QED
  BY <1>1, <1>2, <1>3, <1>4, <1>5, <1>6, CallFacts, Facts, CallMoves
     DEF SameButPc, Borrowing, TypeOK, reports

LEMMA RebaseMovesKeeps ==
  ASSUME IInv, UNCHANGED ops, NEW c \in Caller, RebaseMoves(c)
  PROVE  Keeps
<1> DEFINE t == call[c].tree
<1> USE DEF graph, edits, reports
<1>1. /\ call[c].pc = "rebase" /\ GoesTo(c, "begin")
      /\ \/ UNCHANGED <<branch, at>>
         \/ Tip(t) \in hist[cache] /\ HeadMoves(t, cache)
      /\ UNCHANGED <<graph, origin, cache, on, added, edits, running, reports>>
  BY DEF RebaseMoves, Writes
<1>2. call[c].op = "merge" /\ t \in Tree
  BY <1>1, CallFacts DEF SoundCall, MergeOnly
<1>3. PICK r \in Call : /\ call' = [call EXCEPT ![c] = r]
                        /\ r.pc = "begin" /\ SameButPc(r, call[c])
  BY <1>1, GoesToSound DEF Step
<1>4. /\ branch' \in Commit /\ branch' < next'
      /\ at' \in [Tree -> Commit] /\ \A u \in Tree : at'[u] < next'
  BY <1>1, <1>2, Facts DEF HeadMoves, TypeOK, Refs
<1>5. SoundCall(r)'
  BY <1>1, <1>2, <1>3, CallFacts DEF SoundCall, SameButPc, MergeOnly, CommitOnly, Borrowing
<1>6. ASSUME SInv
      PROVE  SoloCall(r)' /\ Work \subseteq Work' /\ acked' \subseteq (hist')[origin']
  <2>1. on = {"wing"} /\ t = "wing"
    BY <1>1, <1>2, <1>6 DEF SInv, SoloCall, Borrowing
  <2>2. SoloCall(r)'
    BY <1>1, <1>2, <1>3, <2>1 DEF SoloCall, SameButPc, Borrowing
  <2>3. branch \in hist[branch'] \/ branch' = branch
    BY <1>1, <2>1 DEF HeadMoves, Tip
  <2>4. holds[branch] \subseteq holds[branch']
    BY <1>4, <2>3, Facts DEF Closed
  <2> QED
    BY <1>1, <1>6, <2>2, <2>4 DEF SInv, Work
<1> QED
  BY <1>1, <1>2, <1>3, <1>4, <1>5, <1>6, GraphStill, Facts, MergeMoves DEF SameButPc, Borrowing, TypeOK, Refs

LEMMA RebaseReplaysKeeps ==
  ASSUME IInv, UNCHANGED ops, NEW c \in Caller, RebaseReplays(c)
  PROVE  Keeps
<1> DEFINE t == call[c].tree
<1> USE DEF edits, reports
<1>1. /\ call[c].pc = "rebase" /\ GoesTo(c, "begin")
      /\ Create({cache}, holds[Tip(t)])
      /\ HeadMoves(t, next)
      /\ UNCHANGED <<origin, cache, on, added, edits, running, reports>>
  BY DEF RebaseReplays, Writes
<1>2. call[c].op = "merge" /\ t \in Tree
  BY <1>1, CallFacts DEF SoundCall, MergeOnly
<1>3. PICK r \in Call : /\ call' = [call EXCEPT ![c] = r]
                        /\ r.pc = "begin" /\ SameButPc(r, call[c])
  BY <1>1, GoesToSound DEF Step
<1>4. /\ holds[Tip(t)] \in SUBSET Edit
      /\ {cache} \in SUBSET Commit /\ \A p \in {cache} : p < next
  BY <1>2, TipSound, Facts DEF TypeOK
<1>5. /\ hist' \in [Commit -> SUBSET Commit] /\ holds' \in [Commit -> SUBSET Edit]
      /\ next' \in 1 .. MaxCommit + 1 /\ next \in Commit /\ next < next' /\ next' \in Nat
      /\ Closed(hist, holds, next)'
      /\ \A x \in Commit : x < next => (hist')[x] = hist[x] /\ (holds')[x] = holds[x]
      /\ holds[Tip(t)] \subseteq (holds')[next]
  BY <1>1, <1>4, CreateSound
<1>6. /\ branch' \in Commit /\ branch' < next'
      /\ at' \in [Tree -> Commit] /\ \A u \in Tree : at'[u] < next'
  BY <1>1, <1>2, <1>5, Facts DEF HeadMoves, TypeOK, Refs
<1>7. next <= next' /\ (hist')[origin'] = hist[origin] /\ (holds')[origin'] = holds[origin]
  BY <1>1, <1>5, Facts
<1>8. SoundCall(r)'
  BY <1>1, <1>2, <1>3, <1>5, <1>7, CallFacts, Facts
     DEF SoundCall, SameButPc, MergeOnly, CommitOnly, Borrowing
<1>9. ASSUME SInv
      PROVE  SoloCall(r)' /\ Work \subseteq Work' /\ acked' \subseteq (hist')[origin']
  <2>1. on = {"wing"} /\ t = "wing"
    BY <1>1, <1>2, <1>9 DEF SInv, SoloCall, Borrowing
  <2>2. SoloCall(r)'
    BY <1>1, <1>2, <1>3, <2>1 DEF SoloCall, SameButPc, Borrowing
  <2>3. branch' = next /\ Tip(t) = branch
    BY <1>1, <2>1 DEF HeadMoves, Tip
  <2> QED
    BY <1>1, <1>5, <1>7, <1>9, <2>2, <2>3 DEF SInv, Work
<1> QED
  BY <1>1, <1>2, <1>3, <1>5, <1>6, <1>7, <1>8, <1>9, Facts, MergeMoves
     DEF SameButPc, Borrowing, TypeOK, Refs

LEMMA BeginsKeeps ==
  ASSUME IInv, UNCHANGED ops, NEW c \in Caller, Begins(c)
  PROVE  Keeps
<1> DEFINE r == [call[c] EXCEPT !.pc = "attempt", !.tip = branch, !.tries = 1]
<1>1. call[c].pc = "begin" /\ call' = [call EXCEPT ![c] = r] /\ UNCHANGED Quiet
  BY DEF Begins
<1>2. call[c].op = "merge"
  BY <1>1, CallFacts DEF SoundCall, MergeOnly
<1>3. /\ r \in Call /\ r.pc = "attempt" /\ r.tip = branch /\ r.op = "merge" /\ r.tree = call[c].tree
      /\ r.asked = call[c].asked /\ r.base = call[c].base /\ r.cand = call[c].cand
  <2>1. 1 \in 0 .. MaxAttempts /\ "attempt" \in Step
    BY Facts DEF Step
  <2> QED
    BY <1>2, <2>1, CallFacts, Facts DEF Call
<1> HIDE DEF r
<1>4. SoundCall(r)
  BY <1>2, <1>3, CallFacts, Facts DEF SoundCall, MergeOnly, CommitOnly
<1>5. SInv => SoloCall(r)
  BY <1>1, <1>2, <1>3 DEF SInv, SoloCall, Borrowing
<1> QED
  BY <1>1, <1>2, <1>3, <1>4, <1>5, CallFacts, QuietMoves DEF Borrowing

LEMMA AttemptsUpToDateKeeps ==
  ASSUME IInv, UNCHANGED ops, NEW c \in Caller, AttemptsUpToDate(c)
  PROVE  Keeps
<1> USE DEF graph, refs, heads, edits
<1>1. /\ call[c].pc = "attempt" /\ call[c].tip = cache
      /\ acked' = acked \cup {call[c].tip}
      /\ call' = [call EXCEPT ![c] = NoCall]
      /\ UNCHANGED <<graph, refs, heads, edits, running, told>>
  BY DEF AttemptsUpToDate, Reports, Returns
<1>2. /\ NoCall \in Call /\ NoCall.op = "poll" /\ NoCall.pc = "idle"
      /\ SoundCall(NoCall) /\ SoloCall(NoCall)
  BY NoCallSound
<1>3. PICK r \in Call : r = NoCall
  BY <1>2
<1>4. SoundCall(r)' /\ SoloCall(r)' /\ Work' = Work
  BY <1>1, <1>2, <1>3 DEF SoundCall, SoloCall, Work
<1>5. acked' \subseteq Commit /\ (SInv => acked' \subseteq hist[origin'])
  BY <1>1, Facts DEF TypeOK, Refs, SInv
<1> QED
  BY <1>1, <1>2, <1>3, <1>4, <1>5, Facts, CallMoves DEF Borrowing, TypeOK, Refs, SInv

LEMMA AttemptsKeeps ==
  ASSUME IInv, UNCHANGED ops, NEW c \in Caller, Attempts(c)
  PROVE  Keeps
<1> DEFINE r == [call[c] EXCEPT !.pc = "checkout", !.base = cache]
<1>1. call[c].pc = "attempt" /\ call' = [call EXCEPT ![c] = r] /\ UNCHANGED Quiet
  BY DEF Attempts
<1>2. call[c].op = "merge"
  BY <1>1, CallFacts DEF SoundCall, MergeOnly
<1>3. /\ r \in Call /\ r.pc = "checkout" /\ r.op = "merge" /\ r.tree = call[c].tree
      /\ r.asked = call[c].asked /\ r.base = cache /\ r.tip = call[c].tip /\ r.cand = call[c].cand
  BY <1>2, CallFacts, Facts DEF Call, Step
<1> HIDE DEF r
<1>4. SoundCall(r)
  BY <1>2, <1>3, CallFacts, Facts DEF SoundCall, Refs, MergeOnly, CommitOnly
<1>5. SInv => SoloCall(r)
  BY <1>1, <1>2, <1>3 DEF SInv, SoloCall, Borrowing
<1> QED
  BY <1>1, <1>2, <1>3, <1>4, <1>5, CallFacts, QuietMoves DEF Borrowing

LEMMA ChecksOutKeeps ==
  ASSUME IInv, UNCHANGED ops, NEW c \in Caller, ChecksOut(c)
  PROVE  Keeps
<1> USE DEF graph, refs, edits, reports
<1>1. /\ call[c].pc = "checkout" /\ GoesTo(c, "name")
      /\ on' = on \ {call[c].tree} /\ at' = [at EXCEPT ![call[c].tree] = call[c].base]
      /\ UNCHANGED <<graph, refs, added, edits, running, reports>>
  BY DEF ChecksOut, Writes
<1>2. call[c].op = "merge"
  BY <1>1, CallFacts DEF SoundCall, MergeOnly
<1>3. PICK r \in Call : /\ call' = [call EXCEPT ![c] = r]
                        /\ r.pc = "name" /\ SameButPc(r, call[c])
  BY <1>1, GoesToSound DEF Step, Borrowing
<1>4. /\ at' \in [Tree -> Commit] /\ \A u \in Tree : at'[u] < next'
      /\ on' \in {{}, {"wing"}, {"stray"}} /\ (~added => on' \subseteq {"wing"})
  BY <1>1, CallFacts, Facts DEF TypeOK, Refs, Tree
<1>5. SoundCall(r)'
  BY <1>1, <1>2, <1>3, CallFacts DEF SoundCall, SameButPc, MergeOnly, CommitOnly, Borrowing
<1>6. ASSUME SInv
      PROVE  SoloCall(r)' /\ Work \subseteq Work' /\ acked' \subseteq (hist')[origin']
  <2>1. SoloCall(call[c])
    BY <1>6 DEF SInv
  <2>2. call[c].tree = "wing" /\ call[c].tip = branch
    BY <1>1, <2>1 DEF SoloCall, Borrowing
  <2>3. "wing" \notin on' /\ at'["wing"] = call[c].base
    BY <1>1, <2>2, Facts DEF TypeOK, Tree
  <2>4. SoloCall(r)'
    BY <1>1, <1>3, <2>2, <2>3 DEF SoloCall, SameButPc, Borrowing
  <2> QED
    BY <1>1, <1>6, <2>4 DEF SInv, Work
<1> QED
  BY <1>1, <1>2, <1>3, <1>4, <1>5, <1>6, GraphStill, Facts, MergeMoves DEF SameButPc, Borrowing, TypeOK, Refs

LEMMA MergeNamesKeeps ==
  ASSUME IInv, UNCHANGED ops, NEW c \in Caller, MergeNames(c)
  PROVE  Keeps
<1>1. call[c].pc = "name" /\ UNCHANGED Quiet
  BY DEF MergeNames
<1>2. call[c].op = "merge"
  BY <1>1, CallFacts DEF SoundCall, MergeOnly, Borrowing
<1>3. CASE Tip(call[c].tree) = branch /\ Ends(c, "current")
  <2>1. PICK r \in Call : /\ call' = [call EXCEPT ![c] = r]
                          /\ r.pc = "finally" /\ r.out = "current" /\ SameButPc(r, call[c])
    BY <1>3, EndsSound DEF Outcome
  <2>2. SoundCall(r)
    BY <1>2, <2>1, CallFacts DEF SoundCall, SameButPc, MergeOnly, CommitOnly, Borrowing
  <2>3. ASSUME SInv
        PROVE  SoloCall(r)
    <3>1. SoloCall(call[c])
      BY <2>3 DEF SInv
    <3>2. /\ call[c].tree = "wing" /\ "wing" \notin on
          /\ call[c].tip = branch /\ at["wing"] = call[c].base
      BY <1>1, <3>1 DEF SoloCall, Borrowing
    <3>3. call[c].tip \in hist[origin]
      BY <1>3, <3>2, CallFacts DEF Tip
    <3> QED
      BY <2>1, <3>2, <3>3 DEF SoloCall, SameButPc, Borrowing
  <2> QED
    BY <1>1, <2>1, <2>2, <2>3, CallFacts, QuietMoves DEF SameButPc, Borrowing
<1>4. CASE GoesTo(c, "merge")
  <2>1. PICK r \in Call : /\ call' = [call EXCEPT ![c] = r]
                          /\ r.pc = "merge" /\ SameButPc(r, call[c])
    BY <1>4, GoesToSound DEF Step, Borrowing
  <2>2. SoundCall(r)
    BY <1>2, <2>1, CallFacts DEF SoundCall, SameButPc, MergeOnly, CommitOnly, Borrowing
  <2>3. SInv => SoloCall(r)
    BY <1>1, <2>1 DEF SInv, SoloCall, SameButPc, Borrowing
  <2> QED
    BY <1>1, <2>1, <2>2, <2>3, CallFacts, QuietMoves DEF SameButPc, Borrowing
<1> QED
  BY <1>3, <1>4 DEF MergeNames

LEMMA MergesKeeps ==
  ASSUME IInv, UNCHANGED ops, NEW c \in Caller, Merges(c)
  PROVE  Keeps
<1> DEFINE t == call[c].tree
<1> USE DEF edits, refs, reports
<1>1. /\ call[c].pc = "merge" /\ GoesTo(c, "hash")
      /\ Create({Tip(t), branch}, {})
      /\ at' = [at EXCEPT ![t] = next]
      /\ UNCHANGED <<refs, on, added, edits, running, reports>>
  BY DEF Merges, Writes
<1>2. call[c].op = "merge" /\ t \in Tree
  BY <1>1, CallFacts DEF SoundCall, MergeOnly, Borrowing
<1>3. PICK r \in Call : /\ call' = [call EXCEPT ![c] = r]
                        /\ r.pc = "hash" /\ SameButPc(r, call[c])
  BY <1>1, GoesToSound DEF Step, Borrowing
<1>4. {Tip(t), branch} \in SUBSET Commit /\ \A p \in {Tip(t), branch} : p < next
  BY <1>2, TipSound, Facts
<1>5. /\ hist' \in [Commit -> SUBSET Commit] /\ holds' \in [Commit -> SUBSET Edit]
      /\ next' \in 1 .. MaxCommit + 1 /\ next \in Commit /\ next < next' /\ next' \in Nat
      /\ Closed(hist, holds, next)'
      /\ \A x \in Commit : x < next => (hist')[x] = hist[x] /\ (holds')[x] = holds[x]
      /\ branch \in (hist')[next]
  <2> DEFINE parents == {Tip(t), branch}
  <2>1. /\ parents \in SUBSET Commit /\ \A p \in parents : p < next
        /\ branch \in parents /\ {} \in SUBSET Edit
    BY <1>4
  <2>2. Create(parents, {})
    BY <1>1
  <2> HIDE DEF parents
  <2> QED
    BY <2>1, <2>2, CreateSound
<1>6. at' \in [Tree -> Commit] /\ at'[t] = next /\ \A u \in Tree : at'[u] < next'
  BY <1>1, <1>2, <1>5, Facts DEF TypeOK, Refs
<1>7. /\ next <= next' /\ branch < next'
      /\ \A x \in {origin, branch} : (hist')[x] = hist[x] /\ (holds')[x] = holds[x]
  BY <1>1, <1>5, Facts
<1>8. SoundCall(r)'
  BY <1>1, <1>2, <1>3, <1>5, <1>7, CallFacts, Facts
     DEF SoundCall, SameButPc, MergeOnly, CommitOnly, Borrowing
<1>9. ASSUME SInv
      PROVE  SoloCall(r)' /\ Work \subseteq Work' /\ acked' \subseteq (hist')[origin']
  <2>1. SoloCall(call[c])
    BY <1>9 DEF SInv
  <2>2. t = "wing" /\ call[c].tip = branch /\ "wing" \notin on
    BY <1>1, <2>1 DEF SoloCall, Borrowing
  <2>3. SoloCall(r)'
    BY <1>1, <1>3, <1>5, <1>6, <2>2 DEF SoloCall, SameButPc, Borrowing
  <2> QED
    BY <1>1, <1>7, <1>9, <2>3 DEF SInv, Work
<1> QED
  BY <1>1, <1>2, <1>3, <1>5, <1>6, <1>7, <1>8, <1>9, Facts, MergeMoves
     DEF SameButPc, Borrowing, TypeOK, Refs

LEMMA MergesNothingKeeps ==
  ASSUME IInv, UNCHANGED ops, NEW c \in Caller, MergesNothing(c)
  PROVE  Keeps
<1>1. /\ call[c].pc = "merge" /\ branch \in hist[Tip(call[c].tree)] /\ UNCHANGED Quiet
      /\ GoesTo(c, "hash")
  BY DEF MergesNothing, Writes
<1>2. call[c].op = "merge"
  BY <1>1, CallFacts DEF SoundCall, MergeOnly, Borrowing
<1>3. PICK r \in Call : /\ call' = [call EXCEPT ![c] = r]
                        /\ r.pc = "hash" /\ SameButPc(r, call[c])
  BY <1>1, GoesToSound DEF Step, Borrowing
<1>4. SoundCall(r)
  BY <1>2, <1>3, CallFacts DEF SoundCall, SameButPc, MergeOnly, CommitOnly, Borrowing
<1>5. SInv => SoloCall(r)
  BY <1>1, <1>3 DEF SInv, SoloCall, SameButPc, Tip, Borrowing
<1> QED
  BY <1>1, <1>3, <1>4, <1>5, CallFacts, QuietMoves DEF SameButPc, Borrowing

\* An attempt that ends without having moved anything.
LEMMA EndsKeeps ==
  ASSUME IInv, UNCHANGED ops, NEW c \in Caller, call[c].pc \in Borrowing \ {"finally"},
         NEW out \in {"conflict", "rejected", "failed"}, Ends(c, out), UNCHANGED Quiet
  PROVE  Keeps
<1>1. call[c].op = "merge"
  BY CallFacts DEF SoundCall, MergeOnly
<1>2. PICK r \in Call : /\ call' = [call EXCEPT ![c] = r]
                        /\ r.pc = "finally" /\ r.out = out /\ SameButPc(r, call[c])
  BY EndsSound DEF Outcome
<1>3. SoundCall(r)
  BY <1>1, <1>2, CallFacts DEF SoundCall, SameButPc, MergeOnly, CommitOnly, Borrowing
<1>4. SInv => SoloCall(r)
  BY <1>2 DEF SInv, SoloCall, SameButPc, Borrowing
<1> QED
  BY <1>2, <1>3, <1>4, CallFacts, QuietMoves DEF SameButPc, Borrowing

LEMMA ReadsHashKeeps ==
  ASSUME IInv, UNCHANGED ops, NEW c \in Caller, ReadsHash(c)
  PROVE  Keeps
<1> DEFINE r == [call[c] EXCEPT !.pc = "push", !.cand = Tip(call[c].tree)]
<1>1. call[c].pc = "hash" /\ call' = [call EXCEPT ![c] = r] /\ UNCHANGED Quiet
  BY DEF ReadsHash
<1>2. call[c].op = "merge" /\ Tip(call[c].tree) \in Commit /\ Tip(call[c].tree) < next
  BY <1>1, CallFacts, TipSound DEF SoundCall, MergeOnly, Borrowing
<1>3. /\ r \in Call /\ r.pc = "push" /\ r.op = "merge" /\ r.tree = call[c].tree
      /\ r.asked = call[c].asked /\ r.base = call[c].base /\ r.tip = call[c].tip
      /\ r.cand = Tip(call[c].tree)
  BY <1>2, CallFacts DEF Call, Step, Borrowing
<1> HIDE DEF r
<1>4. SoundCall(r)
  BY <1>2, <1>3, CallFacts DEF SoundCall, MergeOnly, CommitOnly, Borrowing
<1>5. SInv => SoloCall(r)
  BY <1>1, <1>3 DEF SInv, SoloCall, Tip, Borrowing
<1> QED
  BY <1>1, <1>2, <1>3, <1>4, <1>5, CallFacts, QuietMoves DEF Borrowing

\* What origin takes.
LEMMA AcceptedSound ==
  ASSUME IInv, NEW c \in Caller, Accepts(call[c].cand), origin' = call[c].cand,
         UNCHANGED <<graph, cache, branch>>
  PROVE  /\ origin' \in Commit /\ origin' < next
         /\ origin \in hist[origin'] /\ origin' \in hist[origin']
         /\ hist[origin] \subseteq hist[origin'] /\ cache \in hist[origin']
         /\ Work \subseteq Work'
<1>1. origin' \in Commit /\ origin' < next /\ origin \in hist[origin']
  BY CallFacts DEF Accepts
<1>2. /\ hist[origin] \subseteq hist[origin'] /\ holds[origin] \subseteq holds[origin']
      /\ origin' \in hist[origin']
  BY <1>1, Facts DEF Closed
<1> QED
  BY <1>1, <1>2, Facts DEF Work, Refs, graph

LEMMA PushesKeeps ==
  ASSUME IInv, UNCHANGED ops, NEW c \in Caller, Pushes(c)
  PROVE  Keeps
<1> USE DEF graph, heads, edits, reports
<1>1. /\ call[c].pc = "push" /\ Accepts(call[c].cand) /\ origin' = call[c].cand
      /\ GoesTo(c, "advance")
      /\ UNCHANGED <<graph, cache, branch, heads, edits, running, reports>>
  BY DEF Pushes
<1>2. call[c].op = "merge"
  BY <1>1, CallFacts DEF SoundCall, MergeOnly, Borrowing
<1>3. PICK r \in Call : /\ call' = [call EXCEPT ![c] = r]
                        /\ r.pc = "advance" /\ SameButPc(r, call[c])
  BY <1>1, GoesToSound DEF Step, Borrowing
<1>4. /\ origin' \in Commit /\ origin' < next
      /\ origin \in hist[origin'] /\ origin' \in hist[origin']
      /\ hist[origin] \subseteq hist[origin'] /\ cache \in hist[origin']
      /\ Work \subseteq Work'
  BY <1>1, AcceptedSound
<1>5. SoundCall(r)'
  BY <1>1, <1>2, <1>3, <1>4, CallFacts DEF SoundCall, SameButPc, MergeOnly, CommitOnly, Borrowing
<1>6. SInv => SoloCall(r)'
  BY <1>1, <1>3 DEF SInv, SoloCall, SameButPc, Borrowing
<1>7. SInv => told' \subseteq Work' /\ acked' \subseteq hist[origin']
  BY <1>1, <1>4 DEF SInv
<1> QED
  BY <1>1, <1>2, <1>3, <1>4, <1>5, <1>6, <1>7, CallFacts, Facts, CallMoves
     DEF SameButPc, Borrowing, TypeOK

LEMMA PushUnansweredKeeps ==
  ASSUME IInv, UNCHANGED ops, NEW c \in Caller, PushUnanswered(c)
  PROVE  Keeps
<1> USE DEF graph, heads, edits, reports
<1>1. /\ call[c].pc = "push" /\ Accepts(call[c].cand) /\ origin' = call[c].cand
      /\ Ends(c, "failed")
      /\ UNCHANGED <<graph, cache, branch, heads, edits, running, reports>>
  BY DEF PushUnanswered
<1>2. call[c].op = "merge"
  BY <1>1, CallFacts DEF SoundCall, MergeOnly, Borrowing
<1>3. PICK r \in Call : /\ call' = [call EXCEPT ![c] = r]
                        /\ r.pc = "finally" /\ r.out = "failed" /\ SameButPc(r, call[c])
  BY <1>1, EndsSound DEF Outcome
<1>4. /\ origin' \in Commit /\ origin' < next
      /\ origin \in hist[origin'] /\ origin' \in hist[origin']
      /\ hist[origin] \subseteq hist[origin'] /\ cache \in hist[origin']
      /\ Work \subseteq Work'
  BY <1>1, AcceptedSound
<1>5. SoundCall(r)'
  BY <1>1, <1>2, <1>3, <1>4, CallFacts DEF SoundCall, SameButPc, MergeOnly, CommitOnly, Borrowing
<1>6. SInv => SoloCall(r)'
  BY <1>1, <1>3 DEF SInv, SoloCall, SameButPc, Borrowing
<1>7. SInv => told' \subseteq Work' /\ acked' \subseteq hist[origin']
  BY <1>1, <1>4 DEF SInv
<1> QED
  BY <1>1, <1>2, <1>3, <1>4, <1>5, <1>6, <1>7, CallFacts, Facts, CallMoves
     DEF SameButPc, Borrowing, TypeOK

LEMMA AdvancesKeeps ==
  ASSUME IInv, UNCHANGED ops, NEW c \in Caller, Advances(c)
  PROVE  Keeps
<1> USE DEF graph, heads, edits, reports
<1>1. /\ call[c].pc = "advance" /\ cache' = call[c].cand /\ GoesTo(c, "forward")
      /\ UNCHANGED <<graph, origin, branch, heads, edits, running, reports>>
  BY DEF Advances
<1>2. call[c].op = "merge" /\ call[c].cand \in hist[origin]
  BY <1>1, CallFacts DEF SoundCall, MergeOnly, Borrowing
<1>3. PICK r \in Call : /\ call' = [call EXCEPT ![c] = r]
                        /\ r.pc = "forward" /\ SameButPc(r, call[c])
  BY <1>1, GoesToSound DEF Step, Borrowing
<1>4. SoundCall(r)'
  BY <1>1, <1>2, <1>3, CallFacts DEF SoundCall, SameButPc, MergeOnly, CommitOnly, Borrowing
<1>5. SInv => SoloCall(r)'
  BY <1>1, <1>3 DEF SInv, SoloCall, SameButPc, Borrowing
<1>6. SInv => told' \subseteq Work' /\ acked' \subseteq hist[origin']
  BY <1>1 DEF SInv, Work
<1> QED
  BY <1>1, <1>2, <1>3, <1>4, <1>5, <1>6, CallFacts, Facts, CallMoves
     DEF SameButPc, Borrowing, TypeOK

\* The branch moves to the landing commit, which contains it.
LEMMA ForwardsKeeps ==
  ASSUME IInv, UNCHANGED ops, NEW c \in Caller, Forwards(c)
  PROVE  Keeps
<1> USE DEF graph, heads, edits, reports
<1>1. /\ call[c].pc = "forward" /\ branch' = call[c].cand /\ Ends(c, "landed")
      /\ UNCHANGED <<graph, origin, cache, heads, edits, running, reports>>
  BY DEF Forwards
<1>2. call[c].op = "merge" /\ call[c].cand \in hist[origin]
  BY <1>1, CallFacts DEF SoundCall, MergeOnly, Borrowing
<1>3. PICK r \in Call : /\ call' = [call EXCEPT ![c] = r]
                        /\ r.pc = "finally" /\ r.out = "landed" /\ SameButPc(r, call[c])
  BY <1>1, EndsSound DEF Outcome
<1>4. SoundCall(r)'
  BY <1>1, <1>2, <1>3, CallFacts DEF SoundCall, SameButPc, MergeOnly, CommitOnly, Borrowing
<1>5. ASSUME SInv
      PROVE  SoloCall(r)' /\ Work \subseteq Work' /\ acked' \subseteq (hist')[origin']
  <2>1. SoloCall(call[c])
    BY <1>5 DEF SInv
  <2>2. /\ call[c].tree = "wing" /\ "wing" \notin on
        /\ call[c].tip = branch /\ branch \in hist[call[c].cand]
    BY <1>1, <2>1 DEF SoloCall, Borrowing
  <2>3. hist[call[c].cand] \subseteq hist[origin] /\ holds[branch] \subseteq holds[call[c].cand]
    BY <1>2, <2>2, CallFacts, Facts DEF Closed
  <2>4. SoloCall(r)'
    BY <1>1, <1>3, <2>2, <2>3 DEF SoloCall, SameButPc, Borrowing
  <2> QED
    BY <1>1, <1>5, <2>3, <2>4 DEF SInv, Work
<1> QED
  BY <1>1, <1>2, <1>3, <1>4, <1>5, GraphStill, CallFacts, Facts, MergeMoves
     DEF SameButPc, Borrowing, TypeOK, Refs

\* The finally puts HEAD back, and the call goes on or is reported.
LEMMA SwitchesBackKeeps ==
  ASSUME IInv, UNCHANGED ops, NEW c \in Caller, SwitchesBack(c)
  PROVE  Keeps
<1> USE DEF graph, refs, edits
<1>1. /\ call[c].pc = "finally" /\ on' = {call[c].tree} /\ Settles(c)
      /\ UNCHANGED <<graph, refs, at, added, edits, running, told>>
  BY DEF SwitchesBack, Writes
<1>2. call[c].op = "merge" /\ call[c].tree \in Tree /\ (added \/ call[c].tree = "wing")
  BY <1>1, CallFacts DEF SoundCall, MergeOnly, Borrowing
<1>3. /\ on' \in {{}, {"wing"}, {"stray"}} /\ (~added => on' \subseteq {"wing"})
      /\ on' = {"wing"} \/ added
  BY <1>1, <1>2 DEF Tree
<1>4. /\ acked' \subseteq Commit /\ acked \subseteq acked'
      /\ acked' # acked => call[c].out \in {"landed", "current"} /\ acked' = acked \cup {call[c].tip}
  BY <1>1, CallFacts, Facts DEF Settles, Reports, TypeOK
<1>5. SInv => Work \subseteq Work' /\ acked' \subseteq (hist')[origin']
  BY <1>1, <1>4 DEF SInv, SoloCall, Work
<1>6. CASE Retries(call[c])
  <2> DEFINE q == [call[c] EXCEPT !.pc = "refetch", !.out = "none", !.tries = call[c].tries + 1]
  <2>1. call' = [call EXCEPT ![c] = q]
    BY <1>1, <1>6 DEF Settles
  <2>2. call[c].tries + 1 \in 0 .. MaxAttempts /\ "refetch" \in Step /\ "none" \in Outcome
    BY <1>6, CallFacts, Facts DEF Retries, Step, Outcome
  <2>3. q \in Call /\ q.pc = "refetch" /\ q.op = "merge" /\ q.tree = call[c].tree
        /\ q.asked = call[c].asked /\ q.base = call[c].base /\ q.tip = call[c].tip
        /\ q.cand = call[c].cand
    BY <1>2, <2>2, CallFacts DEF Call
  <2> HIDE DEF q
  <2>4. PICK r \in Call : r = q
    BY <2>3
  <2>5. SoundCall(r)'
    BY <1>1, <1>2, <2>3, <2>4, CallFacts DEF SoundCall, MergeOnly, CommitOnly, Borrowing
  <2>6. SInv => SoloCall(r)'
    BY <1>1, <1>6, <2>3, <2>4 DEF SInv, SoloCall, Retries, Borrowing
  <2> QED
    BY <1>1, <1>2, <1>3, <1>4, <1>5, <2>1, <2>3, <2>4, <2>5, <2>6, GraphStill, Facts, MergeMoves
       DEF Borrowing, TypeOK, Refs
<1>7. CASE ~Retries(call[c])
  <2>1. call' = [call EXCEPT ![c] = NoCall]
    BY <1>1, <1>7 DEF Settles, Returns
  <2>2. PICK r \in Call : r = NoCall
    BY NoCallSound
  <2>3. r.op = "poll" /\ r.pc = "idle" /\ SoundCall(r)
    BY <2>2, NoCallSound
  <2>4. SoundCall(r)' /\ SoloCall(r)'
    BY <1>1, <2>3 DEF SoundCall, SoloCall, Borrowing
  <2> QED
    BY <1>1, <1>2, <1>3, <1>4, <1>5, <2>1, <2>2, <2>3, <2>4, GraphStill, Facts, MergeMoves
       DEF Borrowing, TypeOK, Refs
<1> QED
  BY <1>6, <1>7

LEMMA SwitchFailsKeeps ==
  ASSUME IInv, UNCHANGED ops, NEW c \in Caller, SwitchFails(c)
  PROVE  Keeps
<1>1. Returns(c) /\ UNCHANGED Quiet
  BY DEF SwitchFails
<1> QED
  BY <1>1, ReturnsKeeps

LEMMA MergeFailsKeeps ==
  ASSUME IInv, UNCHANGED ops, NEW c \in Caller, MergeFails(c)
  PROVE  Keeps
<1>1. call[c].pc # "finally" /\ UNCHANGED Quiet
  BY DEF MergeFails
<1>2. CASE call[c].pc \in Borrowing /\ Ends(c, "failed")
  BY <1>1, <1>2, EndsKeeps
<1>3. CASE call[c].pc \notin Borrowing /\ Returns(c)
  BY <1>1, <1>3, ReturnsKeeps
<1> QED
  BY <1>2, <1>3 DEF MergeFails

LEMMA MergeStepsKeep ==
  ASSUME IInv, UNCHANGED ops, NEW c \in Caller, MergeSteps(c)
  PROVE  Keeps
<1>1. CASE MergeConflicts(c) \/ PushRejected(c) \/ ForwardFails(c)
  <2>1. PICK out \in {"conflict", "rejected", "failed"} :
          call[c].pc \in Borrowing \ {"finally"} /\ Ends(c, out) /\ UNCHANGED Quiet
    BY <1>1 DEF MergeConflicts, PushRejected, ForwardFails, Writes, Borrowing
  <2> QED
    BY <2>1, EndsKeeps
<1> QED
  BY <1>1, MergeLooksKeeps, FetchesKeeps, RebaseMovesKeeps, RebaseReplaysKeeps, BeginsKeeps,
     AttemptsUpToDateKeeps, AttemptsKeeps, ChecksOutKeeps, MergeNamesKeeps, MergesKeeps,
     MergesNothingKeeps, ReadsHashKeeps, PushesKeeps, PushUnansweredKeeps, AdvancesKeeps,
     ForwardsKeeps, SwitchesBackKeeps, SwitchFailsKeeps, MergeFailsKeeps DEF MergeSteps

-----------------------------------------------------------------------------
(* movement commit. *)

LEMMA CommitsNoopKeeps ==
  ASSUME IInv, UNCHANGED ops, NEW c \in Caller, CommitsNoop(c)
  PROVE  Keeps
<1> USE DEF graph, refs, heads, edits
<1>1. /\ call[c].op = "commit" /\ call[c].pc = "look" /\ dirty[call[c].tree] = {}
      /\ told' = told \cup call[c].asked
      /\ call' = [call EXCEPT ![c] = NewCall("poll", "resolve")]
      /\ UNCHANGED <<graph, refs, heads, edits, running, acked>>
  BY DEF CommitsNoop
<1>2. PICK r \in Call : r = NewCall("poll", "resolve")
  BY NewCallSound
<1>3. r.op = "poll" /\ r.pc = "resolve" /\ r.asked = {} /\ SoundCall(r)
  BY <1>2, NewCallSound
<1>4. SoundCall(r)' /\ SoloCall(r)'
  BY <1>1, <1>3 DEF SoundCall, SoloCall, Borrowing
<1>5. told' \subseteq made
  BY <1>1, CallFacts, Facts DEF TypeOK
<1>6. ASSUME SInv
      PROVE  told' \subseteq Work' /\ acked' \subseteq hist[origin']
  <2>1. call[c].tree = "wing"
    BY <1>1, <1>6 DEF SInv, SoloCall
  <2>2. call[c].asked \subseteq Work
    BY <1>1, <1>6, <2>1, CallFacts DEF SInv
  <2> QED
    BY <1>1, <1>6, <2>2 DEF SInv, Work
<1> QED
  BY <1>1, <1>2, <1>3, <1>4, <1>5, <1>6, Facts, CallMoves DEF Borrowing, TypeOK, Refs

LEMMA CommitLooksKeeps ==
  ASSUME IInv, UNCHANGED ops, NEW c \in Caller, CommitLooks(c)
  PROVE  Keeps
<1>1. call[c].op = "commit" /\ call[c].pc = "look" /\ GoesTo(c, "coalesce") /\ UNCHANGED Quiet
  BY DEF CommitLooks
<1>2. PICK r \in Call : /\ call' = [call EXCEPT ![c] = r]
                        /\ r.pc = "coalesce" /\ SameButPc(r, call[c])
  BY <1>1, GoesToSound DEF Step
<1>3. SoundCall(r)
  BY <1>1, <1>2, CallFacts DEF SoundCall, SameButPc, MergeOnly, CommitOnly, Borrowing
<1>4. SInv => SoloCall(r)
  BY <1>1, <1>2 DEF SInv, SoloCall, SameButPc, Borrowing
<1> QED
  BY <1>1, <1>2, <1>3, <1>4, CallFacts, QuietMoves DEF SameButPc, Borrowing

LEMMA CoalescesKeeps ==
  ASSUME IInv, UNCHANGED ops, NEW c \in Caller, Coalesces(c)
  PROVE  Keeps
<1> USE DEF graph, refs, heads, edits, reports
<1>1. /\ call[c].pc = "coalesce" /\ running' \subseteq Caller
      /\ UNCHANGED <<graph, refs, heads, edits, reports>>
  BY Facts DEF Coalesces, TypeOK
<1>2. PICK r \in Call : /\ call' = [call EXCEPT ![c] = r]
                        /\ r.pc \in {"pipeline", "joined"} /\ SameButPc(r, call[c])
  BY GoesToSound DEF Coalesces, Step
<1>3. SoundCall(r)'
  BY <1>1, <1>2, CallFacts DEF SoundCall, SameButPc, MergeOnly, CommitOnly, Borrowing
<1>4. SInv => SoloCall(r)'
  BY <1>1, <1>2, CallFacts DEF SInv, SoloCall, SoundCall, CommitOnly, SameButPc, Borrowing
<1>5. SInv => told' \subseteq Work' /\ acked' \subseteq hist[origin']
  BY <1>1 DEF SInv, Work
<1> QED
  BY <1>1, <1>2, <1>3, <1>4, <1>5, CallFacts, Facts, CallMoves
     DEF SameButPc, Borrowing, TypeOK, Refs

LEMMA CommitAcceptedKeeps ==
  ASSUME IInv, UNCHANGED ops, NEW c \in Caller, CommitAccepted(c)
  PROVE  Keeps
<1>1. call[c].pc = "pipeline" /\ GoesTo(c, "stage") /\ UNCHANGED Quiet
  BY DEF CommitAccepted
<1>2. PICK r \in Call : /\ call' = [call EXCEPT ![c] = r]
                        /\ r.pc = "stage" /\ SameButPc(r, call[c])
  BY <1>1, GoesToSound DEF Step
<1>3. SoundCall(r)
  BY <1>1, <1>2, CallFacts DEF SoundCall, SameButPc, MergeOnly, CommitOnly, Borrowing
<1>4. SInv => SoloCall(r)
  BY <1>1, <1>2, CallFacts DEF SInv, SoloCall, SoundCall, CommitOnly, SameButPc, Borrowing
<1> QED
  BY <1>1, <1>2, <1>3, <1>4, CallFacts, QuietMoves DEF SameButPc, Borrowing

\* What the agent had edited before the call is staged, unless it is safe.
LEMMA StagesKeeps ==
  ASSUME IInv, UNCHANGED ops, NEW c \in Caller, Stages(c)
  PROVE  Keeps
<1> DEFINE r == [call[c] EXCEPT !.pc = "commit", !.stage = dirty[call[c].tree]]
<1>1. call[c].pc = "stage" /\ call' = [call EXCEPT ![c] = r] /\ UNCHANGED Quiet
  BY DEF Stages, Writes
<1>2. call[c].op = "commit"
  BY <1>1, CallFacts DEF SoundCall, CommitOnly
<1>3. /\ r \in Call /\ r.pc = "commit" /\ r.op = "commit" /\ r.tree = call[c].tree
      /\ r.asked = call[c].asked /\ r.base = call[c].base /\ r.tip = call[c].tip
      /\ r.cand = call[c].cand /\ r.stage = dirty[call[c].tree]
  BY <1>2, CallFacts, Facts DEF Call, Step, TypeOK
<1> HIDE DEF r
<1>4. SoundCall(r)
  BY <1>3, CallFacts DEF SoundCall, MergeOnly, CommitOnly, Borrowing
<1>5. SInv => SoloCall(r)
  BY <1>1, <1>2, <1>3, CallFacts DEF SInv, SoloCall, Borrowing
<1> QED
  BY <1>1, <1>2, <1>3, <1>4, <1>5, CallFacts, QuietMoves DEF Borrowing

\* The end of a commit in flight, for all who wait for it.
LEMMA CommitMoves ==
  ASSUME IInv, NEW c \in Caller, call[c].pc \in CommitOnly,
         NEW r \in Call, r.op = "poll", r.pc \in {"idle", "resolve"}, SoundCall(r),
         call' = [d \in Caller |-> IF d \in Answered(c) THEN r ELSE call[d]],
         UNCHANGED <<ops, origin, cache, on, added, made, acked>>, running' = {},
         hist' \in [Commit -> SUBSET Commit], holds' \in [Commit -> SUBSET Edit],
         next' \in 1 .. MaxCommit + 1, Closed(hist, holds, next)', next <= next',
         \A x \in Commit : x < next => (hist')[x] = hist[x] /\ (holds')[x] = holds[x],
         branch' \in Commit, branch' < next',
         at' \in [Tree -> Commit], \A t \in Tree : at'[t] < next',
         dirty' \in [Tree -> SUBSET Edit], told' \subseteq made,
         SInv => /\ Work \subseteq Work' /\ told' \subseteq Work'
                 /\ made \subseteq dirty'["wing"] \cup Work'
  PROVE  Keeps
<1>1. (hist')[origin'] = hist[origin] /\ next' \in Nat
  BY Facts
<1>2. Grows
  BY <1>1, Facts DEF Grows
<1>3. /\ call' \in [Caller -> Call]
      /\ \A d \in Caller : \/ d \in Answered(c) /\ call'[d] = r
                           \/ /\ call'[d] = call[d]
                              /\ call[d].pc # "joined" /\ d # c
      /\ \A d \in Answered(c) : call[d].pc \notin Borrowing
  <2>1. call \in [Caller -> Call]
    BY Facts DEF TypeOK
  <2>2. call' \in [Caller -> Call]
    BY <2>1
  <2>3. \A d \in Caller : call'[d] = IF d \in Answered(c) THEN r ELSE call[d]
    OBVIOUS
  <2>4. \A d \in Caller : d \in Answered(c) <=> d = c \/ call[d].pc = "joined"
    BY DEF Answered
  <2>5. \A d \in Answered(c) : d = c \/ call[d].pc = "joined"
    BY DEF Answered
  <2>6. \A d \in Answered(c) : call[d].pc \notin Borrowing
    BY <2>5 DEF CommitOnly, Borrowing
  <2> QED
    BY <2>2, <2>3, <2>4, <2>6
<1>4. ASSUME NEW d \in Caller
      PROVE  Calling(d, call[d])'
  <2>1. CASE call'[d] = r
    <3>1. SoundCall(r)'
      BY <1>1, <1>2, StaysSound
    <3> QED
      BY <2>1, <3>1 DEF Calling
  <2>2. CASE call'[d] = call[d]
    <3>1. SoundCall(call[d])'
      BY <2>2, <1>1, <1>2, StaysSound, CallFacts
    <3> QED
      BY <2>2, <3>1, Facts DEF Calling
  <2> QED
    BY <2>1, <2>2, <1>3
<1>5. TypeOK'
  BY <1>3, Facts DEF TypeOK
<1>6. Refs'
  BY <1>1, Facts DEF Refs
<1>7. HeadBack => HeadBack' \/ added'
  <2>1. \A d \in Caller : call'[d].pc \notin Borrowing => call[d].pc \notin Borrowing
    BY <1>3
  <2> QED
    BY <2>1 DEF HeadBack
<1>8. ASSUME Solo, SInv
      PROVE  SInv'
  <2>1. ASSUME NEW d \in Caller
        PROVE  SoloCall(call[d])'
    <3>1. CASE call'[d] = r
      BY <3>1 DEF SoloCall, Borrowing
    <3>2. CASE call'[d] = call[d] /\ d # c
      <4>1. call[c].op = "commit"
        BY CallFacts DEF SoundCall
      <4>2. call[d].op # "merge"
        BY <1>8, <3>2, <4>1, Alone
      <4>3. call[d].pc \notin MergeOnly
        BY <4>2, CallFacts DEF SoundCall
      <4> QED
        BY <1>8, <3>2, <4>3 DEF SInv, SoloCall, MergeOnly, Borrowing
    <3> QED
      BY <3>1, <3>2, <1>3
  <2> QED
    BY <2>1, <1>1, <1>8 DEF SInv
<1> QED
  BY <1>2, <1>4, <1>5, <1>6, <1>7, <1>8, Facts DEF Keeps, IInv

LEMMA CommitFailsKeeps ==
  ASSUME IInv, UNCHANGED ops, NEW c \in Caller, CommitFails(c)
  PROVE  Keeps
<1> USE DEF refs, heads, edits, reports
<1>1. /\ call[c].pc \in CommitOnly /\ running' = {}
      /\ call' = [d \in Caller |-> IF d \in Answered(c) THEN NoCall ELSE call[d]]
      /\ UNCHANGED <<graph, refs, heads, edits, reports>>
  BY DEF CommitFails, CommitOnly
<1>2. SInv => /\ Work \subseteq Work' /\ told' \subseteq Work'
              /\ made \subseteq dirty'["wing"] \cup Work'
  BY <1>1 DEF SInv, Work, graph
<1> QED
  BY <1>1, <1>2, NoCallSound, GraphStill, Facts, CommitMoves DEF TypeOK, Refs

LEMMA CommitsNothingKeeps ==
  ASSUME IInv, UNCHANGED ops, NEW c \in Caller, CommitsNothing(c)
  PROVE  Keeps
<1> USE DEF refs, heads, edits
<1>1. /\ call[c].pc = "commit" /\ call[c].pc \in CommitOnly /\ call[c].stage = {} /\ running' = {}
      /\ told' = told \cup call[c].asked
      /\ call' = [d \in Caller |-> IF d \in Answered(c) THEN NewCall("poll", "resolve") ELSE call[d]]
      /\ UNCHANGED <<graph, refs, heads, edits, acked>>
  BY DEF CommitsNothing, Succeeds, CommitOnly
<1>2. told' \subseteq made
  BY <1>1, CallFacts, Facts DEF TypeOK
<1>3. SInv => /\ Work \subseteq Work' /\ told' \subseteq Work'
              /\ made \subseteq dirty'["wing"] \cup Work'
  BY <1>1 DEF SInv, SoloCall, Work, graph
<1> QED
  BY <1>1, <1>2, <1>3, NewCallSound, GraphStill, Facts, CommitMoves DEF TypeOK, Refs

\* What was staged is in the new commit, and that is on the branch.
LEMMA CommitsKeeps ==
  ASSUME IInv, UNCHANGED ops, NEW c \in Caller, Commits(c)
  PROVE  Keeps
<1> DEFINE t == call[c].tree
           stage == call[c].stage
<1>1. /\ call[c].pc = "commit" /\ call[c].pc \in CommitOnly /\ running' = {}
      /\ Create({Tip(t)}, stage)
      /\ HeadMoves(t, next)
      /\ dirty' = [dirty EXCEPT ![t] = dirty[t] \ stage]
      /\ told' = told \cup call[c].asked
      /\ call' = [d \in Caller |-> IF d \in Answered(c) THEN NewCall("poll", "resolve") ELSE call[d]]
      /\ UNCHANGED <<origin, cache, on, added, made, acked>>
  BY DEF Commits, Succeeds, CommitOnly
<1>2. /\ {Tip(t)} \in SUBSET Commit /\ \A p \in {Tip(t)} : p < next
      /\ stage \in SUBSET Edit /\ t \in Tree
  BY CallFacts, TipSound
<1>3. /\ hist' \in [Commit -> SUBSET Commit] /\ holds' \in [Commit -> SUBSET Edit]
      /\ next' \in 1 .. MaxCommit + 1 /\ next \in Commit /\ next < next' /\ next' \in Nat
      /\ Closed(hist, holds, next)'
      /\ \A x \in Commit : x < next => (hist')[x] = hist[x] /\ (holds')[x] = holds[x]
      /\ stage \subseteq (holds')[next] /\ holds[Tip(t)] \subseteq (holds')[next]
  BY <1>1, <1>2, CreateSound
<1>4. /\ branch' \in Commit /\ branch' < next' /\ next <= next'
      /\ at' \in [Tree -> Commit] /\ \A u \in Tree : at'[u] < next'
  BY <1>1, <1>2, <1>3, Facts DEF HeadMoves, TypeOK, Refs
<1>5. /\ told' \subseteq made
      /\ dirty' \in [Tree -> SUBSET Edit] /\ dirty'[t] = dirty[t] \ stage
  BY <1>1, <1>2, CallFacts, Facts DEF TypeOK
<1>6. ASSUME SInv
      PROVE  /\ Work \subseteq Work' /\ told' \subseteq Work'
             /\ made \subseteq dirty'["wing"] \cup Work'
  <2>1. call[c].op = "commit" /\ SoloCall(call[c])
    BY <1>1, <1>6, CallFacts DEF SInv, SoundCall
  <2>2. on = {"wing"} /\ t = "wing" /\ call[c].asked \subseteq stage \cup Work
    BY <1>1, <2>1 DEF SoloCall, Borrowing
  <2>3. branch' = next /\ Tip(t) = branch
    BY <1>1, <2>2 DEF HeadMoves, Tip
  <2>4. (holds')[origin'] = holds[origin]
    BY <1>1, <1>3, Facts
  <2>5. Work \subseteq Work' /\ stage \subseteq Work'
    BY <1>3, <2>3, <2>4 DEF Work
  <2>6. made \subseteq dirty["wing"] \cup Work /\ told \subseteq Work
    BY <1>6 DEF SInv
  <2> QED
    BY <1>1, <1>5, <2>2, <2>5, <2>6
<1> HIDE DEF t, stage
<1> QED
  BY <1>1, <1>3, <1>4, <1>5, <1>6, NewCallSound, Facts, CommitMoves

LEMMA CommitStepsKeep ==
  ASSUME IInv, UNCHANGED ops, NEW c \in Caller, CommitSteps(c)
  PROVE  Keeps
  BY CommitsNoopKeeps, CommitLooksKeeps, CoalescesKeeps, CommitAcceptedKeeps, CommitFailsKeeps,
     StagesKeeps, CommitsKeeps, CommitsNothingKeeps DEF CommitSteps

-----------------------------------------------------------------------------
(* The agent, everyone else, and the end of the process. *)

LEMMA EditsKeeps ==
  ASSUME IInv, UNCHANGED ops, NEW e \in Edit, Edits(e)
  PROVE  Keeps
<1> USE DEF graph, refs, heads, reports
<1>1. /\ made' = made \cup {e} /\ dirty' = [dirty EXCEPT !["wing"] = dirty["wing"] \cup {e}]
      /\ UNCHANGED <<graph, refs, heads, call, running, reports>>
  BY DEF Edits
<1>2. Grows /\ Closed(hist, holds, next)'
  BY <1>1, Facts DEF Grows
<1>3. TypeOK' /\ Refs' /\ dirty'["wing"] = dirty["wing"] \cup {e}
  BY <1>1, Facts DEF TypeOK, Refs, Tree
<1>4. ASSUME NEW d \in Caller
      PROVE  Calling(d, call[d])'
  <2>1. SoundCall(call[d])'
    BY <1>1, <1>2, CallFacts, Facts, StaysSound
  <2> QED
    BY <2>1, <1>1, Facts DEF Calling
<1>5. HeadBack => HeadBack'
  BY <1>1 DEF HeadBack
<1>6. SInv => SInv'
  BY <1>1, <1>3 DEF SInv, SoloCall, Work
<1> QED
  BY <1>1, <1>2, <1>3, <1>4, <1>5, <1>6 DEF Keeps, IInv

LEMMA RemotePushKeeps ==
  ASSUME IInv, UNCHANGED ops, RemotePush
  PROVE  Keeps
<1> USE DEF heads, edits, reports
<1>1. /\ origin' = next /\ UNCHANGED <<cache, branch, heads, edits, call, running, reports>>
      /\ Create({origin}, {}) \/ Create({origin, branch}, {})
  BY DEF RemotePush
<1>2. PICK parents \in {{origin}, {origin, branch}} : Create(parents, {})
  BY <1>1
<1>3. parents \in SUBSET Commit /\ (\A p \in parents : p < next) /\ origin \in parents
  BY <1>2, Facts
<1>4. {} \in SUBSET Edit
  OBVIOUS
<1>5. /\ hist' \in [Commit -> SUBSET Commit] /\ holds' \in [Commit -> SUBSET Edit]
      /\ next' \in 1 .. MaxCommit + 1 /\ next \in Commit /\ next < next' /\ next' \in Nat
      /\ Closed(hist, holds, next)'
      /\ \A x \in Commit : x < next => (hist')[x] = hist[x] /\ (holds')[x] = holds[x]
      /\ hist[origin] \subseteq (hist')[next] /\ holds[origin] \subseteq (holds')[next]
  BY <1>2, <1>3, <1>4, CreateSound
<1>6. Grows
  BY <1>1, <1>5, Facts DEF Grows
<1>7. TypeOK'
  BY <1>1, <1>5, Facts DEF TypeOK
<1>8. Refs'
  BY <1>1, <1>5, Facts DEF Refs, TypeOK
<1>9. ASSUME NEW d \in Caller
      PROVE  Calling(d, call[d])'
  <2>1. SoundCall(call[d])'
    BY <1>1, <1>5, <1>6, CallFacts, Facts, StaysSound
  <2> QED
    BY <2>1, <1>1, Facts DEF Calling
<1>10. HeadBack => HeadBack'
  BY <1>1 DEF HeadBack
<1>11. ASSUME SInv
       PROVE  SInv'
  <2>1. Work \subseteq Work'
    BY <1>1, <1>5, Facts DEF Work
  <2>2. ASSUME NEW d \in Caller
        PROVE  SoloCall(call[d])'
    <3>1. SoloCall(call[d])
      BY <1>11 DEF SInv
    <3>2. /\ at["wing"] \in Commit /\ at["wing"] < next
          /\ call[d].cand \in Commit /\ call[d].cand < next
      BY CallFacts, Facts DEF TypeOK, Refs, Tree
    <3>3. (hist')[at["wing"]] = hist[at["wing"]] /\ (hist')[call[d].cand] = hist[call[d].cand]
      BY <1>5, <3>2
    <3> QED
      BY <1>1, <1>5, <2>1, <3>1, <3>3 DEF SoloCall
  <2> QED
    BY <1>1, <1>5, <1>11, <2>1, <2>2 DEF SInv
<1> QED
  BY <1>1, <1>5, <1>6, <1>7, <1>8, <1>9, <1>10, <1>11 DEF Keeps, IInv

LEMMA RestartKeeps ==
  ASSUME IInv, UNCHANGED ops, Restart
  PROVE  Keeps
<1> USE DEF graph, refs, heads, edits, reports
<1>1. /\ call' = [c \in Caller |-> NoCall] /\ running' = {}
      /\ UNCHANGED <<graph, refs, heads, edits, reports>>
  BY DEF Restart
<1>2. Grows /\ Closed(hist, holds, next)'
  BY <1>1, Facts DEF Grows
<1>3. PICK r \in Call : r = NoCall
  BY NoCallSound
<1>4. r.op = "poll" /\ r.pc = "idle" /\ SoundCall(r) /\ \A d \in Caller : call'[d] = r
  BY <1>1, <1>3, NoCallSound
<1>5. TypeOK' /\ Refs'
  BY <1>1, <1>3, Facts DEF TypeOK, Refs
<1>6. ASSUME NEW d \in Caller
      PROVE  Calling(d, call[d])'
  <2>1. SoundCall(r)'
    BY <1>1, <1>2, <1>4, Facts, StaysSound
  <2> QED
    BY <2>1, <1>4 DEF Calling
<1>7. SInv => SInv'
  BY <1>1, <1>4 DEF SInv, SoloCall, Work, Borrowing
<1> QED
  BY <1>1, <1>2, <1>5, <1>6, <1>7 DEF Keeps, IInv

LEMMA ReattachesKeeps ==
  ASSUME IInv, UNCHANGED ops, Reattaches
  PROVE  Keeps
<1> USE DEF graph, refs, edits, reports
<1>1. /\ on = {} /\ on' = {"wing"} /\ \A c \in Caller : call[c].pc \notin Borrowing
      /\ UNCHANGED <<graph, refs, at, added, edits, call, running, reports>>
  BY DEF Reattaches
<1>2. Grows /\ Closed(hist, holds, next)'
  BY <1>1, Facts DEF Grows
<1>3. TypeOK' /\ Refs'
  BY <1>1, Facts DEF TypeOK, Refs, Tree
<1>4. ASSUME NEW d \in Caller
      PROVE  Calling(d, call[d])'
  BY <1>1, CallFacts, Facts DEF SoundCall, Calling
<1>5. HeadBack'
  BY <1>1 DEF HeadBack
<1>6. SInv => SInv'
  BY <1>1 DEF SInv, SoloCall, Work
<1> QED
  BY <1>1, <1>2, <1>3, <1>4, <1>5, <1>6 DEF Keeps, IInv

LEMMA StutterKeeps ==
  ASSUME IInv, UNCHANGED vars
  PROVE  Keeps
<1> USE DEF vars
<1>1. Grows
  BY Facts DEF Grows
<1>2. IInv'
  BY DEF IInv, TypeOK, Closed, Refs, Calling, SoundCall
<1>3. SInv => SInv'
  BY DEF SInv, SoloCall, Work
<1> QED
  BY <1>1, <1>2, <1>3 DEF Keeps, HeadBack

-----------------------------------------------------------------------------
(* The theorems. *)

LEMMA InitSound == Init => IInv /\ SInv /\ HeadBack
<1> SUFFICES ASSUME Init
             PROVE  IInv /\ SInv /\ HeadBack
  OBVIOUS
<1> USE DEF Init
<1>1. /\ MaxCommit \in Nat /\ MaxAttempts \in Nat \ {0}
      /\ Root \in Commit /\ \A c \in Commit : c \in Nat
  BY CheckoutAssumption DEF Root, Commit
<1>2. /\ NoCall \in Call /\ NoCall.pc = "idle" /\ NoCall.op = "poll"
      /\ NoCall.tip = Root /\ NoCall.base = Root /\ NoCall.cand = Root
      /\ NoCall.asked = {} /\ NoCall.tree = "wing"
  BY <1>1 DEF NoCall, NewCall, Call, Step, Tree, Outcome
<1>3. /\ hist[Root] = {Root} /\ \A c \in Commit : c # Root => hist[c] = {}
      /\ Root < 1 /\ \A c \in Commit : c < 1 => c = Root
  BY <1>1 DEF Root
<1>4. TypeOK
  <2>1. hist \in [Commit -> SUBSET Commit] /\ holds \in [Commit -> SUBSET Edit]
    BY <1>1
  <2>2. next \in 1 .. MaxCommit + 1 /\ {Root} \subseteq Commit
    BY <1>1
  <2>3. on \subseteq Tree /\ at \in [Tree -> Commit] /\ dirty \in [Tree -> SUBSET Edit]
    BY <1>1 DEF Tree
  <2> QED
    BY <1>2, <2>1, <2>2, <2>3 DEF TypeOK
<1>5. Closed(hist, holds, next) /\ Refs
  BY <1>1, <1>3 DEF Closed, Refs
<1>6. \A c \in Caller : Calling(c, call[c]) /\ SoloCall(call[c])
  BY <1>2, <1>3 DEF Calling, SoundCall, SoloCall, MergeOnly, CommitOnly, Borrowing
<1> QED
  BY <1>4, <1>5, <1>6 DEF IInv, SInv, HeadBack

LEMMA StepKeeps ==
  ASSUME IInv, [Next]_vars
  PROVE  Keeps
<1>1. CASE UNCHANGED vars
  BY <1>1, StutterKeeps
<1>2. ASSUME UNCHANGED ops, NEW c \in Caller, NEW op \in ops[c], Calls(c, op)
      PROVE  Keeps
  BY <1>2, CallsKeeps
<1>3. ASSUME UNCHANGED ops, NEW c \in Caller, MovementSteps(c)
      PROVE  Keeps
  BY <1>3, ResolvesKeeps, ListsKeeps, AddsKeeps, AddFailsKeeps DEF MovementSteps
<1> QED
  BY <1>1, <1>2, <1>3, MergeStepsKeep, CommitStepsKeep, EditsKeeps, RemotePushKeeps, RestartKeeps,
     ReattachesKeeps DEF Next

\* The graph, the refs, at most one worktree on the branch, and what each call
\* relies on, in every state, whatever the callers call.
THEOREM Invariance == Spec => []IInv
<1>1. Init => IInv
  BY InitSound
<1>2. IInv /\ [Next]_vars => IInv'
  BY StepKeeps DEF Keeps
<1> QED
  BY <1>1, <1>2, PTL DEF Spec

\* No variable leaves its shape; a merge stays within its attempts, and a
\* commit is reported of edits that were made.
THEOREM TypeCorrect == Spec => []TypeOK
<1>1. IInv => TypeOK
  BY DEF IInv
<1> QED
  BY <1>1, Invariance, PTL

\* A call leaves its finally with the branch checked out, or with its failure.
LEMMA FinallyLeaves ==
  ASSUME IInv, [Next]_vars, NEW c \in Caller, call[c].pc = "finally", call'[c].pc # "finally"
  PROVE  call[c].tree \in on' \/ (call'[c] = NoCall /\ acked' = acked)
<1>1. \A r : [call EXCEPT ![c] = r][c] = r
  BY Facts DEF TypeOK
<1>2. ASSUME NEW d \in Caller, NEW r, call' = [call EXCEPT ![d] = r]
      PROVE  d = c
  BY <1>2
<1>3. CASE UNCHANGED call
  BY <1>3
<1>4. CASE Restart
  BY <1>4 DEF Restart, reports
<1>5. ASSUME NEW d \in Caller, MergeSteps(d), ~ UNCHANGED call
      PROVE  call[c].tree \in on' \/ (call'[c] = NoCall /\ acked' = acked)
  <2>1. d = c
    <3>1. PICK r : call' = [call EXCEPT ![d] = r]
      BY <1>5
         DEF MergeSteps, MergeLooks, Fetches, RebaseMoves, RebaseReplays, Begins, AttemptsUpToDate,
             Attempts, ChecksOut, MergeNames, Merges, MergesNothing, MergeConflicts, ReadsHash, Pushes,
             PushUnanswered, PushRejected, Advances, Forwards, ForwardFails, SwitchesBack, SwitchFails,
             MergeFails, Settles, GoesTo, Returns, Ends
    <3> QED
      BY <1>2, <3>1
  <2>2. SwitchesBack(c) \/ SwitchFails(c)
    BY <1>5, <2>1
       DEF MergeSteps, MergeLooks, Fetches, RebaseMoves, RebaseReplays, Begins, AttemptsUpToDate,
           Attempts, ChecksOut, MergeNames, Merges, MergesNothing, MergeConflicts, ReadsHash, Pushes,
           PushUnanswered, PushRejected, Advances, Forwards, ForwardFails, MergeFails, Writes
  <2> QED
    BY <1>1, <2>2 DEF SwitchesBack, SwitchFails, Returns, Quiet, reports
<1>6. ASSUME NEW d \in Caller, MovementSteps(d) \/ \E op \in ops[d] : Calls(d, op)
      PROVE  FALSE
  <2>1. call[d].pc \in {"idle", "resolve", "list", "add"}
    BY <1>6 DEF MovementSteps, Calls, Resolves, Lists, Adds, AddFails
  <2>2. PICK r : call' = [call EXCEPT ![d] = r]
    BY <1>6 DEF MovementSteps, Calls, Resolves, Lists, Adds, AddFails, GoesTo, Returns
  <2> QED
    BY <1>2, <2>1, <2>2
<1>7. ASSUME NEW d \in Caller, CommitSteps(d)
      PROVE  FALSE
  <2>1. call[d].pc \in {"look", "coalesce", "pipeline", "stage", "commit"}
    BY <1>7 DEF CommitSteps, CommitsNoop, CommitLooks, Coalesces, CommitAccepted, CommitFails, Stages,
                Commits, CommitsNothing, Writes
  <2>2. CASE CommitFails(d) \/ Commits(d) \/ CommitsNothing(d)
    <3>1. c \notin Answered(d)
      BY <2>1 DEF Answered
    <3>2. call'[c] = call[c]
      BY <2>2, <3>1 DEF CommitFails, Commits, CommitsNothing, Succeeds
    <3> QED
      BY <3>2
  <2>3. CASE ~ (CommitFails(d) \/ Commits(d) \/ CommitsNothing(d))
    <3>1. PICK r : call' = [call EXCEPT ![d] = r]
      BY <1>7, <2>3 DEF CommitSteps, CommitsNoop, CommitLooks, Coalesces, CommitAccepted, Stages, GoesTo
    <3> QED
      BY <1>2, <2>1, <3>1
  <2> QED
    BY <2>2, <2>3
<1>8. CASE RemotePush \/ Reattaches \/ \E e \in Edit : Edits(e)
  BY <1>3, <1>8 DEF RemotePush, Reattaches, Edits
<1> QED
  BY <1>3, <1>4, <1>5, <1>6, <1>7, <1>8 DEF Next, vars

\* Whatever merges, commits, reads and edits overlap: only a worktree that was
\* added on the branch meanwhile, the end of the process or a failing checkout
\* of the finally can keep the wing from its branch, and such a finally
\* makes the merge fail.
THEOREM HeadReturns == Spec => HeadComesBack
<1>1. IInv /\ [Next]_vars =>
        /\ HeadBack => HeadBack' \/ added' \/ Restart \/ \E c \in Caller : SwitchFails(c)
        /\ \A c \in Caller : call[c].pc = "finally" /\ call'[c].pc # "finally" =>
             call[c].tree \in on' \/ (call'[c] = NoCall /\ acked' = acked)
  BY StepKeeps, FinallyLeaves DEF Keeps
<1> QED
  BY <1>1, Invariance, PTL DEF Spec, HeadComesBack

\* Which HEAD a call finds at each of its steps, where nobody commits or merges
\* beside a merge.
THEOREM SoloInvariance ==
  ASSUME Solo
  PROVE  Spec => [](IInv /\ SInv)
<1>1. Init => IInv /\ SInv
  BY InitSound
<1>2. IInv /\ SInv /\ [Next]_vars => (IInv /\ SInv)'
  BY StepKeeps DEF Keeps
<1> QED
  BY <1>1, <1>2, PTL DEF Spec

\* An edit that a commit was reported for stays on the branch or the trunk,
\* through rebases, landing commits, lost races, lost answers and restarts.
THEOREM WorkStays ==
  ASSUME Solo
  PROVE  Spec => []WorkKept
<1>1. SInv => WorkKept
  BY DEF SInv, Work, WorkKept
<1> QED
  BY <1>1, SoloInvariance, PTL

\* The local copy of the trunk moves only in a fetch and an advance, which leave
\* the graph and origin alone.
LEMMA CopyMoves ==
  ASSUME [Next]_vars
  PROVE  UNCHANGED cache \/ UNCHANGED <<hist, origin>>
<1> USE DEF refs, graph, Quiet
<1>1. CASE UNCHANGED vars
  BY <1>1 DEF vars
<1>2. CASE RemotePush \/ Restart \/ Reattaches \/ \E e \in Edit : Edits(e)
  BY <1>2 DEF RemotePush, Restart, Reattaches, Edits
<1>3. ASSUME NEW c \in Caller, MovementSteps(c) \/ \E op \in ops[c] : Calls(c, op)
      PROVE  UNCHANGED cache
  BY <1>3 DEF MovementSteps, Calls, Resolves, Lists, Adds, AddFails
<1>4. ASSUME NEW c \in Caller, MergeSteps(c)
      PROVE  UNCHANGED cache \/ UNCHANGED <<hist, origin>>
  <2>1. CASE Fetches(c) \/ Advances(c)
    BY <2>1 DEF Fetches, Advances
  <2>2. CASE ~(Fetches(c) \/ Advances(c))
    BY <1>4, <2>2
       DEF MergeSteps, MergeLooks, RebaseMoves, RebaseReplays, Begins, AttemptsUpToDate, Attempts,
           ChecksOut, MergeNames, Merges, MergesNothing, MergeConflicts, ReadsHash, Pushes,
           PushUnanswered, PushRejected, Forwards, ForwardFails, SwitchesBack, SwitchFails, MergeFails
  <2> QED
    BY <2>1, <2>2
<1>5. ASSUME NEW c \in Caller, CommitSteps(c)
      PROVE  UNCHANGED cache
  BY <1>5 DEF CommitSteps, CommitsNoop, CommitLooks, Coalesces, CommitAccepted, CommitFails, Stages,
              Commits, CommitsNothing
<1> QED
  BY <1>1, <1>2, <1>3, <1>4, <1>5 DEF Next

\* A merge that is reported as landed is on the trunk, for good, and the local
\* trunk that the next merge is made on has nothing that is not published.
THEOREM Refinement ==
  ASSUME Solo
  PROVE  Spec => ImplementsLedger
<1>1. Init => Ledger!Init
  BY CheckoutAssumption DEF Init, Ledger!Init, Root, Commit
<1>2. (IInv /\ SInv) /\ (IInv /\ SInv)' /\ [Next]_vars => [Ledger!Next]_Ledger!vars
  <2> SUFFICES ASSUME IInv, SInv, IInv', SInv', [Next]_vars
               PROVE  Ledger!Next
    OBVIOUS
  <2>1. Keeps
    BY StepKeeps
  <2>2. CASE UNCHANGED <<acked, cache>>
    <3>1. (hist')[cache] = hist[cache]
      BY <2>1, Facts DEF Keeps, Grows
    <3>2. hist[origin] \subseteq (hist')[origin'] /\ (hist')[origin'] \subseteq Commit
      BY <2>1 DEF Keeps, Grows, IInv, TypeOK
    <3> QED
      BY <2>2, <3>1, <3>2 DEF Ledger!Next, Ledger!Publish
  <2>3. CASE UNCHANGED <<hist, origin>> /\ acked \subseteq acked'
    <3>1. acked' \subseteq hist[origin]
      BY <2>3 DEF SInv
    <3>2. cache' \in hist[origin] /\ (hist')[cache'] = hist[cache'] /\ origin \in Commit
      BY <2>3 DEF IInv, Refs, TypeOK
    <3>3. (hist')[cache'] \subseteq hist[origin]
      BY <3>2 DEF IInv, Closed
    <3> QED
      BY <2>3, <3>1, <3>3 DEF Ledger!Next, Ledger!Learn
  <2> QED
    BY <2>1, <2>2, <2>3, CopyMoves DEF Keeps
<1> QED
  BY <1>1, <1>2, SoloInvariance, PTL DEF Spec, ImplementsLedger, Ledger!Spec

-----------------------------------------------------------------------------
(* Calls end. *)

InAttempt == {"refetch", "attempt", "checkout"} \cup Borrowing

\* The steps that k has left once its movement has been looked up.
Ahead(k) == CASE k.op = "poll"   -> 0
              [] k.op = "commit" -> 8
              [] OTHER           -> IF k.named THEN 4 ELSE 7

\* The steps k has left, at most, up to its first attempt or in the one it makes.
Place(k) ==
  CASE k.pc = "resolve" -> Ahead(k) + 3
    [] k.pc = "list"    -> Ahead(k) + 2
    [] k.pc = "add"     -> Ahead(k) + 1
    [] k.pc = "look"    -> Ahead(k)
    [] k.pc \in {"start", "advance"}           -> 3
    [] k.pc \in {"rebase", "forward"}          -> 2
    [] k.pc \in {"begin", "finally"}           -> 1
    [] k.pc \in {"push", "commit", "joined"}   -> 4
    [] k.pc \in {"hash", "stage"}              -> 5
    [] k.pc \in {"merge", "pipeline"}          -> 6
    [] k.pc \in {"name", "coalesce"}           -> 7
    [] k.pc = "checkout" -> 8
    [] k.pc = "attempt"  -> 9
    [] OTHER             -> 10

StepsLeft(k) ==
  CASE k.pc = "idle"       -> 0
    [] k.pc \in InAttempt  -> 10 * (MaxAttempts - k.tries) + Place(k)
    [] OTHER               -> 10 * MaxAttempts + Place(k)

\* Whatever else runs in the worktree, a call of the wing has less to do after
\* each of its steps: publishWithRetry's loop ends, and no lookup of the
\* movement, added worktree or joined commit takes a call back.
CallsBounded ==
  [][\A c \in Caller : call'[c] # call[c] =>
       IF call[c].pc = "idle" THEN StepsLeft(call'[c]) <= 10 * MaxAttempts + 11
                              ELSE StepsLeft(call'[c]) < StepsLeft(call[c])]_vars

InFlight == {"pipeline", "stage", "commit"}

\* CommitCoordinator: one commit at a time is in flight, and a call that has
\* joined a commit has one to hear from.
OneCommit ==
  /\ running = {c \in Caller : call[c].pc \in InFlight}
  /\ \A c, d \in running : c = d
  /\ \A c \in Caller : call[c].pc = "joined" => running # {}

LEMMA PlaceTable ==
  ASSUME NEW k \in Call
  PROVE  /\ Ahead(k) \in {0, 4, 7, 8}
         /\ k.op = "poll" => Ahead(k) = 0
         /\ k.op = "commit" => Ahead(k) = 8
         /\ k.op = "merge" /\ k.named => Ahead(k) = 4
         /\ k.op = "merge" /\ ~k.named => Ahead(k) = 7
         /\ Place(k) \in 0 .. 11
         /\ k.pc = "resolve" => Place(k) = Ahead(k) + 3
         /\ k.pc = "list" => Place(k) = Ahead(k) + 2
         /\ k.pc = "add" => Place(k) = Ahead(k) + 1
         /\ k.pc = "look" => Place(k) = Ahead(k)
         /\ k.pc \in {"start", "advance"} => Place(k) = 3
         /\ k.pc \in {"rebase", "forward"} => Place(k) = 2
         /\ k.pc \in {"begin", "finally"} => Place(k) = 1
         /\ k.pc \in {"push", "commit", "joined"} => Place(k) = 4
         /\ k.pc \in {"hash", "stage"} => Place(k) = 5
         /\ k.pc \in {"merge", "pipeline"} => Place(k) = 6
         /\ k.pc \in {"name", "coalesce"} => Place(k) = 7
         /\ k.pc = "checkout" => Place(k) = 8
         /\ k.pc = "attempt" => Place(k) = 9
         /\ k.pc = "refetch" => Place(k) = 10
<1>1. /\ Ahead(k) \in {0, 4, 7, 8}
      /\ k.op = "poll" => Ahead(k) = 0
      /\ k.op = "commit" => Ahead(k) = 8
      /\ k.op = "merge" /\ k.named => Ahead(k) = 4
      /\ k.op = "merge" /\ ~k.named => Ahead(k) = 7
  BY DEF Ahead, Call
<1> HIDE DEF Ahead
<1> QED
  BY <1>1 DEF Place, Call, Step, Borrowing

\* r is nearer to the end than k: on the way to its first attempt, in the same
\* attempt, in the next one, or there.
Nearer(r, k) ==
  \/ r.pc = "idle"
  \/ /\ Place(r) < Place(k)
     /\ \/ r.pc \notin InAttempt /\ k.pc \notin InAttempt
        \/ r.pc \in InAttempt /\ k.pc \in InAttempt /\ r.tries = k.tries
  \/ k.pc = "begin" /\ r.pc = "attempt" /\ r.tries = 1
  \/ k.pc = "finally" /\ r.pc = "refetch" /\ r.tries = k.tries + 1

LEMMA NearerIsLess ==
  ASSUME NEW k \in Call, NEW r \in Call, k.pc # "idle", Nearer(r, k)
  PROVE  StepsLeft(r) < StepsLeft(k)
<1>1. /\ k.tries \in 0 .. MaxAttempts /\ r.tries \in 0 .. MaxAttempts
      /\ MaxAttempts \in Nat \ {0}
  BY CheckoutAssumption DEF Call
<1>2. Place(k) \in 0 .. 11 /\ Place(r) \in 0 .. 11
  BY PlaceTable
<1>3. /\ k.pc \in InAttempt => Place(k) \in 1 .. 11
      /\ k.pc = "begin" => Place(k) = 1 /\ k.pc \notin InAttempt
      /\ k.pc = "finally" => Place(k) = 1 /\ k.pc \in InAttempt
  BY PlaceTable DEF InAttempt, Borrowing
<1>4. /\ r.pc = "attempt" => Place(r) = 9 /\ r.pc \in InAttempt
      /\ r.pc = "refetch" => Place(r) = 10 /\ r.pc \in InAttempt
      /\ "idle" \notin InAttempt
  BY PlaceTable DEF InAttempt, Borrowing
<1>5. /\ k.pc \in InAttempt => StepsLeft(k) = 10 * (MaxAttempts - k.tries) + Place(k)
      /\ k.pc \notin InAttempt => StepsLeft(k) = 10 * MaxAttempts + Place(k)
      /\ r.pc = "idle" => StepsLeft(r) = 0
      /\ r.pc \in InAttempt => StepsLeft(r) = 10 * (MaxAttempts - r.tries) + Place(r)
      /\ r.pc # "idle" /\ r.pc \notin InAttempt => StepsLeft(r) = 10 * MaxAttempts + Place(r)
  BY <1>4 DEF StepsLeft
<1> HIDE DEF Place, StepsLeft, InAttempt
<1> QED
  BY <1>1, <1>2, <1>3, <1>4, <1>5 DEF Nearer

\* A step of c alone, which leaves the commits in flight as they are.
Advancing(c) ==
  /\ call[c].pc \notin {"idle", "joined"}
  /\ UNCHANGED running
  /\ \E r \in Call : /\ call' = [call EXCEPT ![c] = r]
                     /\ Nearer(r, call[c])
                     /\ r.pc # "joined"
                     /\ r.pc \in InFlight <=> call[c].pc \in InFlight

\* The commit of c ends, for all who are answered.
Answering(c) ==
  /\ call[c].pc \in InFlight
  /\ running' = {}
  /\ \E r \in Call : /\ r.pc \in {"idle", "resolve"} /\ r.op = "poll"
                     /\ call' = [d \in Caller |-> IF d \in Answered(c) THEN r ELSE call[d]]

LEMMA SameAhead ==
  ASSUME NEW k \in Call, NEW r \in Call, SameButPc(r, k)
  PROVE  Ahead(r) = Ahead(k) /\ r.tries = k.tries /\ r.op = k.op
  BY DEF SameButPc, Ahead

LEMMA GoesNearer ==
  ASSUME IInv, NEW c \in Caller, NEW pc \in Step, GoesTo(c, pc), UNCHANGED running,
         \/ call[c].pc = "resolve" /\ pc = "list"
         \/ call[c].pc = "list" /\ pc = "add"
         \/ call[c].pc = "look" /\ call[c].op = "merge" /\ pc = "start"
         \/ call[c].pc = "look" /\ call[c].op = "commit" /\ pc = "coalesce"
         \/ call[c].pc = "start" /\ pc = "rebase"
         \/ call[c].pc = "refetch" /\ pc = "attempt"
         \/ call[c].pc = "rebase" /\ pc = "begin"
         \/ call[c].pc = "checkout" /\ pc = "name"
         \/ call[c].pc = "name" /\ pc = "merge"
         \/ call[c].pc = "merge" /\ pc = "hash"
         \/ call[c].pc = "push" /\ pc = "advance"
         \/ call[c].pc = "advance" /\ pc = "forward"
         \/ call[c].pc = "pipeline" /\ pc = "stage"
  PROVE  Advancing(c)
<1>1. PICK r \in Call : /\ call' = [call EXCEPT ![c] = r]
                        /\ r.pc = pc /\ SameButPc(r, call[c])
  BY GoesToSound
<1>2. PICK k \in Call : k = call[c]
  BY CallFacts
<1>3. /\ Ahead(r) = Ahead(k) /\ r.tries = k.tries /\ Ahead(k) \in {0, 4, 7, 8}
      /\ k.op \in {"poll", "commit", "merge"}
      /\ k.op = "merge" => Ahead(k) \in {4, 7}
      /\ k.op = "commit" => Ahead(k) = 8
  BY <1>1, <1>2, SameAhead, PlaceTable DEF Call
<1>4. CASE k.pc \in {"resolve", "list", "look"}
  <2>1. Place(r) < Place(k)
    <3>1. /\ k.pc = "resolve" => Place(k) = Ahead(k) + 3 /\ r.pc = "list"
          /\ k.pc = "list" => Place(k) = Ahead(k) + 2 /\ r.pc = "add"
          /\ k.pc = "look" => Place(k) = Ahead(k)
      BY <1>1, <1>2, PlaceTable
    <3>2. k.pc = "look" => \/ k.op = "merge" /\ r.pc = "start"
                           \/ k.op = "commit" /\ r.pc = "coalesce"
      BY <1>1, <1>2
    <3>3. /\ r.pc = "list" => Place(r) = Ahead(r) + 2
          /\ r.pc = "add" => Place(r) = Ahead(r) + 1
          /\ r.pc = "start" => Place(r) = 3
          /\ r.pc = "coalesce" => Place(r) = 7
      BY PlaceTable
    <3> QED
      BY <1>3, <1>4, <3>1, <3>2, <3>3
  <2>2. Nearer(r, k)
    BY <1>1, <1>2, <1>4, <2>1 DEF Nearer, InAttempt, Borrowing
  <2> QED
    BY <1>1, <1>2, <1>4, <2>2 DEF Advancing, InFlight
<1>5. CASE k.pc \in {"start", "refetch", "rebase", "pipeline"}
  <2>1. Place(r) < Place(k)
    BY <1>1, <1>2, <1>5, PlaceTable
  <2>2. \/ k.pc \notin InAttempt /\ r.pc \notin InAttempt
        \/ k.pc \in InAttempt /\ r.pc \in InAttempt
    BY <1>1, <1>2, <1>5 DEF InAttempt, Borrowing
  <2>3. Nearer(r, k)
    BY <1>3, <2>1, <2>2 DEF Nearer
  <2> QED
    BY <1>1, <1>2, <1>5, <2>3 DEF Advancing, InFlight
<1>6. CASE k.pc \in {"checkout", "name", "merge", "push", "advance"}
  <2>1. Place(r) < Place(k)
    BY <1>1, <1>2, <1>6, PlaceTable
  <2>2. k.pc \in InAttempt /\ r.pc \in InAttempt
    BY <1>1, <1>2, <1>6 DEF InAttempt, Borrowing
  <2>3. Nearer(r, k)
    BY <1>3, <2>1, <2>2 DEF Nearer
  <2> QED
    BY <1>1, <1>2, <1>6, <2>3 DEF Advancing, InFlight
<1> QED
  BY <1>2, <1>4, <1>5, <1>6

LEMMA EndsNearer ==
  ASSUME IInv, NEW c \in Caller, NEW out \in Outcome, Ends(c, out), UNCHANGED running,
         call[c].pc \in Borrowing \ {"finally"}
  PROVE  Advancing(c)
<1>1. PICK r \in Call : /\ call' = [call EXCEPT ![c] = r]
                        /\ r.pc = "finally" /\ SameButPc(r, call[c])
  BY EndsSound
<1>2. call[c] \in Call
  BY CallFacts
<1>3. r.tries = call[c].tries /\ Place(r) = 1
  BY <1>1, <1>2, SameAhead, PlaceTable
<1>4. Place(call[c]) \in 2 .. 11
  BY <1>2, PlaceTable DEF Borrowing
<1>5. Nearer(r, call[c])
  BY <1>1, <1>3, <1>4 DEF Nearer, InAttempt, Borrowing
<1> QED
  BY <1>1, <1>5 DEF Advancing, InFlight, Borrowing

LEMMA ReturnsNearer ==
  ASSUME IInv, NEW c \in Caller, Returns(c), UNCHANGED running,
         call[c].pc \notin {"idle", "joined"} \cup InFlight
  PROVE  Advancing(c)
<1>1. PICK r \in Call : r = NoCall /\ r.pc = "idle"
  BY NoCallSound
<1>2. call' = [call EXCEPT ![c] = r] /\ Nearer(r, call[c])
  BY <1>1 DEF Returns, Nearer
<1> QED
  BY <1>1, <1>2 DEF Advancing, InFlight

LEMMA ResolvedNearer ==
  ASSUME IInv, NEW c \in Caller, NEW t \in Tree, call[c].pc \in {"list", "add"}, t \in on \/ added',
         call' = [call EXCEPT ![c] = Resolved(c, t)], UNCHANGED running
  PROVE  Advancing(c)
<1> DEFINE k == call[c]
<1>1. k \in Call /\ k.op \in {"poll", "commit", "merge"} /\ k.named \in BOOLEAN
  BY CallFacts
<1>2. CASE k.op = "poll"
  <2>1. PICK r \in Call : r = NoCall /\ r.pc = "idle"
    BY NoCallSound
  <2>2. call' = [call EXCEPT ![c] = r] /\ Nearer(r, k)
    BY <1>2, <2>1 DEF Resolved, Nearer
  <2> QED
    BY <2>1, <2>2 DEF Advancing, InFlight
<1>3. CASE k.op = "merge" /\ ~k.named
  <2> DEFINE r == [k EXCEPT !.pc = "resolve", !.named = TRUE]
  <2>1. r \in Call /\ r.pc = "resolve" /\ r.op = "merge" /\ r.named
    BY <1>1, <1>3 DEF Call, Step
  <2>2. Resolved(c, t) = r
    BY <1>3 DEF Resolved
  <2> HIDE DEF r
  <2>3. Place(r) = 7 /\ Place(k) \in {8, 9}
    BY <1>1, <1>3, <2>1, PlaceTable
  <2>4. Nearer(r, k)
    BY <2>1, <2>3 DEF Nearer, InAttempt, Borrowing
  <2> QED
    BY <2>1, <2>2, <2>4 DEF Advancing, InFlight
<1>4. CASE k.op # "poll" /\ ~(k.op = "merge" /\ ~k.named)
  <2> DEFINE r == [k EXCEPT !.pc = "look", !.tree = t]
  <2>1. r \in Call /\ r.pc = "look" /\ r.op = k.op /\ r.named = k.named
    BY <1>1 DEF Call, Step
  <2>2. Resolved(c, t) = r
    BY <1>4 DEF Resolved
  <2> HIDE DEF r
  <2>3. Ahead(r) = Ahead(k)
    BY <2>1 DEF Ahead
  <2>4. Place(r) < Place(k)
    BY <1>1, <2>1, <2>3, PlaceTable
  <2>5. Nearer(r, k)
    BY <2>1, <2>4 DEF Nearer, InAttempt, Borrowing
  <2> QED
    BY <2>1, <2>2, <2>5 DEF Advancing, InFlight
<1> QED
  BY <1>1, <1>2, <1>3, <1>4

LEMMA MovementNearer ==
  ASSUME IInv, NEW c \in Caller, MovementSteps(c)
  PROVE  Advancing(c)
<1>1. CASE Resolves(c)
  <2>1. CASE "wing" \in on
    BY <1>1, <2>1, GoesNearer DEF Resolves, Step
  <2>2. CASE "wing" \notin on
    BY <1>1, <2>2, ReturnsNearer DEF Resolves, InFlight
  <2> QED
    BY <2>1, <2>2
<1>2. CASE Lists(c)
  <2>1. CASE GoesTo(c, "add")
    BY <1>2, <2>1, GoesNearer DEF Lists, Step
  <2>2. CASE \E t \in on : call' = [call EXCEPT ![c] = Resolved(c, t)]
    BY <1>2, <2>2, ResolvedNearer, Facts DEF Lists, TypeOK
  <2> QED
    BY <1>2, <2>1, <2>2 DEF Lists
<1>3. CASE Adds(c)
  BY <1>3, ResolvedNearer DEF Adds, Tree
<1>4. CASE AddFails(c)
  BY <1>4, ReturnsNearer DEF AddFails, InFlight
<1> QED
  BY <1>1, <1>2, <1>3, <1>4 DEF MovementSteps

LEMMA MergeNearer ==
  ASSUME IInv, NEW c \in Caller, MergeSteps(c)
  PROVE  Advancing(c)
<1> DEFINE k == call[c]
<1>0. k \in Call /\ SoundCall(k)
  BY CallFacts
<1>1. CASE MergeLooks(c)
  <2>1. CASE dirty[k.tree] = {}
    BY <1>1, <2>1, GoesNearer DEF MergeLooks, Quiet, Step
  <2>2. CASE dirty[k.tree] # {}
    BY <1>1, <2>2, ReturnsNearer DEF MergeLooks, Quiet, InFlight
  <2> QED
    BY <2>1, <2>2
<1>2. CASE Fetches(c)
  BY <1>2, GoesNearer DEF Fetches, Step
<1>3. CASE RebaseMoves(c) \/ RebaseReplays(c)
  BY <1>3, GoesNearer DEF RebaseMoves, RebaseReplays, Writes, Step
<1>4. CASE Begins(c)
  <2> DEFINE r == [k EXCEPT !.pc = "attempt", !.tip = branch, !.tries = 1]
  <2>0. 1 \in 0 .. MaxAttempts /\ branch \in Commit /\ "attempt" \in Step
    BY Facts DEF Step
  <2>1. r \in Call /\ r.pc = "attempt" /\ r.tries = 1
    BY <1>0, <2>0 DEF Call
  <2>2. call' = [call EXCEPT ![c] = r] /\ k.pc = "begin" /\ UNCHANGED running
    BY <1>4 DEF Begins, Quiet
  <2> HIDE DEF r
  <2> QED
    BY <2>1, <2>2 DEF Advancing, Nearer, InFlight
<1>5. CASE AttemptsUpToDate(c)
  BY <1>5, ReturnsNearer DEF AttemptsUpToDate, InFlight
<1>6. CASE Attempts(c)
  <2> DEFINE r == [k EXCEPT !.pc = "checkout", !.base = cache]
  <2>1. r \in Call /\ r.pc = "checkout" /\ r.tries = k.tries
    BY <1>0, Facts DEF Call, Step
  <2>2. call' = [call EXCEPT ![c] = r] /\ k.pc = "attempt" /\ UNCHANGED running
    BY <1>6 DEF Attempts, Quiet
  <2> HIDE DEF r
  <2>3. Place(r) = 8 /\ Place(k) = 9
    BY <1>0, <2>1, <2>2, PlaceTable
  <2>4. Nearer(r, k)
    BY <2>1, <2>2, <2>3 DEF Nearer, InAttempt, Borrowing
  <2> QED
    BY <2>1, <2>2, <2>4 DEF Advancing, InFlight
<1>7. CASE ChecksOut(c)
  BY <1>7, GoesNearer DEF ChecksOut, Writes, Step, Borrowing
<1>8. CASE MergeNames(c)
  <2>1. CASE Ends(c, "current")
    BY <1>8, <2>1, EndsNearer DEF MergeNames, Quiet, Borrowing, Outcome
  <2>2. CASE GoesTo(c, "merge")
    BY <1>8, <2>2, GoesNearer DEF MergeNames, Quiet, Step, Borrowing
  <2> QED
    BY <1>8, <2>1, <2>2 DEF MergeNames
<1>9. CASE Merges(c) \/ MergesNothing(c)
  BY <1>9, GoesNearer DEF Merges, MergesNothing, Quiet, Writes, Step, Borrowing
<1>10. CASE \/ MergeConflicts(c) \/ PushUnanswered(c) \/ PushRejected(c)
            \/ Forwards(c) \/ ForwardFails(c)
  BY <1>10, EndsNearer DEF MergeConflicts, PushUnanswered, PushRejected, Forwards, ForwardFails,
                           Quiet, Writes, Borrowing, Outcome
<1>11. CASE ReadsHash(c)
  <2> DEFINE r == [k EXCEPT !.pc = "push", !.cand = Tip(k.tree)]
  <2>1. Tip(k.tree) \in Commit
    BY TipSound, CallFacts
  <2>2. r \in Call /\ r.pc = "push" /\ r.tries = k.tries
    BY <1>0, <2>1 DEF Call, Step, Borrowing
  <2>3. call' = [call EXCEPT ![c] = r] /\ k.pc = "hash" /\ UNCHANGED running
    BY <1>11 DEF ReadsHash, Quiet
  <2> HIDE DEF r
  <2>4. Place(r) = 4 /\ Place(k) = 5
    BY <1>0, <2>2, <2>3, PlaceTable
  <2>5. Nearer(r, k)
    BY <2>2, <2>3, <2>4 DEF Nearer, InAttempt, Borrowing
  <2> QED
    BY <2>2, <2>3, <2>5 DEF Advancing, InFlight
<1>12. CASE Pushes(c) \/ Advances(c)
  BY <1>12, GoesNearer DEF Pushes, Advances, Step, Borrowing
<1>13. CASE SwitchesBack(c)
  <2>1. CASE Retries(k)
    <3> DEFINE r == [k EXCEPT !.pc = "refetch", !.out = "none", !.tries = @ + 1]
    <3>1. k.tries \in 0 .. MaxAttempts /\ k.tries < MaxAttempts /\ MaxAttempts \in Nat
      BY <1>0, <2>1, Facts DEF Retries, Call
    <3>2. k.tries + 1 \in 0 .. MaxAttempts
      BY <3>1
    <3>3. r \in Call /\ r.pc = "refetch" /\ r.tries = k.tries + 1
      BY <1>0, <3>2 DEF Call, Step, Outcome
    <3>4. call' = [call EXCEPT ![c] = r] /\ k.pc = "finally" /\ UNCHANGED running
      BY <1>13, <2>1 DEF SwitchesBack, Settles, Writes
    <3> HIDE DEF r
    <3> QED
      BY <3>3, <3>4 DEF Advancing, Nearer, InFlight
  <2>2. CASE ~Retries(k)
    BY <1>13, <2>2, ReturnsNearer DEF SwitchesBack, Settles, Writes, InFlight
  <2> QED
    BY <2>1, <2>2
<1>14. CASE SwitchFails(c)
  BY <1>14, ReturnsNearer DEF SwitchFails, Writes, Quiet, InFlight
<1>15. CASE MergeFails(c)
  <2>1. k.op = "merge" /\ k.pc \notin {"idle", "finally"} /\ UNCHANGED running
    BY <1>15 DEF MergeFails, Quiet
  <2>2. k.pc \notin CommitOnly
    BY <1>0, <2>1 DEF SoundCall
  <2>3. CASE k.pc \in Borrowing
    BY <1>15, <2>1, <2>3, EndsNearer DEF MergeFails, Outcome
  <2>4. CASE k.pc \notin Borrowing
    BY <1>15, <2>1, <2>2, <2>4, ReturnsNearer DEF MergeFails, CommitOnly, InFlight
  <2> QED
    BY <2>3, <2>4
<1> QED
  BY <1>1, <1>2, <1>3, <1>4, <1>5, <1>6, <1>7, <1>8, <1>9, <1>10, <1>11, <1>12, <1>13, <1>14, <1>15
     DEF MergeSteps

LEMMA CommitNearer ==
  ASSUME IInv, NEW c \in Caller, CommitSteps(c)
  PROVE  Advancing(c) \/ Answering(c) \/ Coalesces(c)
<1> DEFINE k == call[c]
<1>0. k \in Call /\ SoundCall(k)
  BY CallFacts
<1>1. CASE CommitsNoop(c)
  <2>1. PICK r \in Call : r = NewCall("poll", "resolve") /\ r.op = "poll" /\ r.pc = "resolve"
    BY NewCallSound
  <2>2. /\ call' = [call EXCEPT ![c] = r]
        /\ k.pc = "look" /\ k.op = "commit" /\ UNCHANGED running
    BY <1>1, <2>1 DEF CommitsNoop
  <2>3. Place(r) = 3 /\ Place(k) = 8
    BY <1>0, <2>1, <2>2, PlaceTable
  <2>4. Nearer(r, k)
    BY <2>1, <2>2, <2>3 DEF Nearer, InAttempt, Borrowing
  <2> QED
    BY <2>1, <2>2, <2>4 DEF Advancing, InFlight
<1>2. CASE CommitLooks(c)
  BY <1>2, GoesNearer DEF CommitLooks, Quiet, Step
<1>3. CASE CommitAccepted(c)
  BY <1>3, GoesNearer DEF CommitAccepted, Quiet, Step
<1>4. CASE CommitFails(c)
  <2>1. PICK r \in Call : r = NoCall /\ r.op = "poll" /\ r.pc = "idle"
    BY NoCallSound
  <2> QED
    BY <1>4, <2>1 DEF CommitFails, Answering, InFlight
<1>5. CASE Stages(c)
  <2> DEFINE r == [k EXCEPT !.pc = "commit", !.stage = dirty[k.tree]]
  <2>1. dirty[k.tree] \subseteq Edit
    BY CallFacts, Facts DEF TypeOK
  <2>2. r \in Call /\ r.pc = "commit"
    BY <1>0, <2>1 DEF Call, Step
  <2>3. call' = [call EXCEPT ![c] = r] /\ k.pc = "stage" /\ UNCHANGED running
    BY <1>5 DEF Stages, Writes, Quiet
  <2> HIDE DEF r
  <2>4. Place(r) = 4 /\ Place(k) = 5
    BY <1>0, <2>2, <2>3, PlaceTable
  <2>5. Nearer(r, k)
    BY <2>2, <2>3, <2>4 DEF Nearer, InAttempt, Borrowing
  <2> QED
    BY <2>2, <2>3, <2>5 DEF Advancing, InFlight
<1>6. CASE Commits(c) \/ CommitsNothing(c)
  <2>1. PICK r \in Call : r = NewCall("poll", "resolve") /\ r.op = "poll" /\ r.pc = "resolve"
    BY NewCallSound
  <2> QED
    BY <1>6, <2>1 DEF Commits, CommitsNothing, Succeeds, Answering, InFlight
<1> QED
  BY <1>1, <1>2, <1>3, <1>4, <1>5, <1>6 DEF CommitSteps

LEMMA AnsweringNearer ==
  ASSUME IInv, NEW c \in Caller, Answering(c), NEW d \in Caller, call'[d] # call[d]
  PROVE  call[d].pc # "idle" /\ call'[d] \in Call /\ Nearer(call'[d], call[d])
<1>1. PICK r \in Call : /\ r.pc \in {"idle", "resolve"} /\ r.op = "poll"
                        /\ call' = [e \in Caller |-> IF e \in Answered(c) THEN r ELSE call[e]]
  BY DEF Answering
<1>2. call'[d] = r /\ call[d].pc \in InFlight \cup {"joined"}
  BY <1>1 DEF Answered, Answering
<1>3. r.pc = "idle" \/ Place(r) = 3
  BY <1>1, PlaceTable
<1>4. Place(call[d]) \in {4, 5, 6}
  BY <1>2, CallFacts, PlaceTable DEF InFlight
<1> QED
  BY <1>1, <1>2, <1>3, <1>4 DEF Nearer, InFlight, InAttempt, Borrowing

LEMMA CoalescesNearer ==
  ASSUME IInv, NEW c \in Caller, Coalesces(c)
  PROVE  \E r \in Call :
           /\ call' = [call EXCEPT ![c] = r]
           /\ call[c].pc = "coalesce" /\ Nearer(r, call[c])
           /\ \/ running = {} /\ running' = {c} /\ r.pc = "pipeline"
              \/ running # {} /\ UNCHANGED running /\ r.pc = "joined"
<1> DEFINE pc == IF running = {} THEN "pipeline" ELSE "joined"
<1>1. GoesTo(c, pc) /\ call[c].pc = "coalesce" /\ pc \in Step
  BY DEF Coalesces, Step
<1>2. PICK r \in Call : call' = [call EXCEPT ![c] = r] /\ r.pc = pc
  BY <1>1, GoesToSound
<1>3. Place(r) \in {4, 6} /\ Place(call[c]) = 7
  BY <1>1, <1>2, CallFacts, PlaceTable
<1>4. Nearer(r, call[c])
  BY <1>1, <1>2, <1>3 DEF Nearer, InAttempt, Borrowing
<1> QED
  BY <1>1, <1>2, <1>4 DEF Coalesces

LEMMA CallsNearer ==
  ASSUME IInv, [Next]_vars, NEW c \in Caller, call'[c] # call[c], call[c].pc # "idle"
  PROVE  call'[c] \in Call /\ Nearer(call'[c], call[c])
<1>0. call \in [Caller -> Call]
  BY Facts DEF TypeOK
<1>1. ASSUME NEW d \in Caller, Advancing(d)
      PROVE  call'[c] \in Call /\ Nearer(call'[c], call[c])
  BY <1>0, <1>1 DEF Advancing
<1>2. ASSUME NEW d \in Caller, NEW op \in ops[d], Calls(d, op)
      PROVE  FALSE
  BY <1>0, <1>2 DEF Calls
<1>3. ASSUME NEW d \in Caller, Coalesces(d)
      PROVE  call'[c] \in Call /\ Nearer(call'[c], call[c])
  BY <1>0, <1>3, CoalescesNearer
<1>4. CASE Restart
  <2>1. PICK r \in Call : r = NoCall /\ r.pc = "idle"
    BY NoCallSound
  <2> QED
    BY <1>4, <2>1 DEF Restart, Nearer
<1>5. CASE \/ UNCHANGED vars \/ RemotePush \/ Reattaches
           \/ \E e \in Edit : Edits(e)
  BY <1>5 DEF vars, RemotePush, Reattaches, Edits
<1> QED
  BY <1>1, <1>2, <1>3, <1>4, <1>5, MovementNearer, MergeNearer, CommitNearer, AnsweringNearer DEF Next

LEMMA CallsBegin ==
  ASSUME IInv, [Next]_vars, NEW c \in Caller, call'[c] # call[c], call[c].pc = "idle"
  PROVE  StepsLeft(call'[c]) <= 10 * MaxAttempts + 11
<1>0. call \in [Caller -> Call] /\ MaxAttempts \in Nat
  BY Facts DEF TypeOK
<1>1. ASSUME NEW d \in Caller, NEW op \in ops[d], Calls(d, op)
      PROVE  \E r \in Call : r.pc = "resolve" /\ call'[c] = r
  <2>1. d = c /\ op \in {"poll", "commit", "merge"}
    BY <1>0, <1>1, OpsFacts DEF Calls
  <2>2. PICK n \in Call : n = NewCall(op, "resolve") /\ n.pc = "resolve"
    BY <2>1, NewCallSound
  <2> DEFINE r == [n EXCEPT !.asked = made]
  <2>3. r \in Call /\ r.pc = "resolve"
    BY <2>2, Facts DEF Call, TypeOK
  <2>4. call'[c] = r
    BY <1>0, <1>1, <2>1, <2>2 DEF Calls
  <2> QED
    BY <2>3, <2>4
<1>2. CASE Restart
  <2>1. PICK r \in Call : r = NoCall /\ r.pc = "idle"
    BY NoCallSound
  <2>2. StepsLeft(r) = 0
    BY <2>1 DEF StepsLeft, InAttempt, Borrowing
  <2> QED
    BY <1>0, <1>2, <2>1, <2>2 DEF Restart
<1>3. CASE \E r \in Call : r.pc = "resolve" /\ call'[c] = r
  <2>1. PICK r \in Call : r.pc = "resolve" /\ call'[c] = r
    BY <1>3
  <2>2. Place(r) \in 0 .. 11
    BY PlaceTable
  <2>3. StepsLeft(r) = 10 * MaxAttempts + Place(r)
    BY <2>1 DEF StepsLeft, InAttempt, Borrowing
  <2> QED
    BY <1>0, <2>1, <2>2, <2>3
<1>4. ASSUME NEW d \in Caller, Advancing(d) \/ Answering(d) \/ Coalesces(d)
      PROVE  FALSE
  <2>1. ~Answering(d)
    BY AnsweringNearer
  <2>2. ~Coalesces(d)
    BY <1>0, CoalescesNearer
  <2> QED
    BY <1>0, <1>4, <2>1, <2>2 DEF Advancing
<1>5. CASE \/ UNCHANGED vars \/ RemotePush \/ Reattaches
           \/ \E e \in Edit : Edits(e)
  BY <1>5 DEF vars, RemotePush, Reattaches, Edits
<1> QED
  BY <1>1, <1>2, <1>3, <1>4, <1>5, MovementNearer, MergeNearer, CommitNearer DEF Next

LEMMA OneCommitStays ==
  ASSUME IInv, OneCommit, [Next]_vars
  PROVE  OneCommit'
<1>0. call \in [Caller -> Call]
  BY Facts DEF TypeOK
<1>1. ASSUME NEW c \in Caller, Advancing(c)
      PROVE  OneCommit'
  BY <1>0, <1>1 DEF Advancing, OneCommit
<1>2. ASSUME NEW c \in Caller, Answering(c)
      PROVE  OneCommit'
  <2>1. PICK r \in Call : /\ r.pc \in {"idle", "resolve"}
                          /\ call' = [d \in Caller |-> IF d \in Answered(c) THEN r ELSE call[d]]
    BY <1>2 DEF Answering
  <2>2. ASSUME NEW d \in Caller
        PROVE  call'[d].pc \notin InFlight \cup {"joined"}
    <3>1. CASE d \in Answered(c)
      BY <2>1, <3>1 DEF InFlight
    <3>2. CASE d \notin Answered(c)
      <4>1. d # c /\ call[d].pc # "joined" /\ call'[d] = call[d]
        BY <2>1, <3>2 DEF Answered
      <4> QED
        BY <1>2, <4>1 DEF OneCommit, Answering
    <3> QED
      BY <3>1, <3>2
  <2> QED
    BY <1>2, <2>2 DEF OneCommit, Answering
<1>3. ASSUME NEW c \in Caller, Coalesces(c)
      PROVE  OneCommit'
  <2>1. PICK r \in Call :
          /\ call' = [call EXCEPT ![c] = r]
          /\ call[c].pc = "coalesce"
          /\ \/ running = {} /\ running' = {c} /\ r.pc = "pipeline"
             \/ running # {} /\ UNCHANGED running /\ r.pc = "joined"
    BY <1>3, CoalescesNearer
  <2> QED
    BY <1>0, <2>1 DEF OneCommit, InFlight
<1>4. ASSUME NEW c \in Caller, NEW op \in ops[c], Calls(c, op)
      PROVE  OneCommit'
  <2>1. PICK n \in Call : n = NewCall(op, "resolve") /\ n.pc = "resolve"
    BY <1>4, OpsFacts, NewCallSound
  <2> DEFINE r == [n EXCEPT !.asked = made]
  <2>2. r.pc = "resolve" /\ call' = [call EXCEPT ![c] = r] /\ call[c].pc = "idle" /\ UNCHANGED running
    BY <1>4, <2>1 DEF Calls, Call
  <2> QED
    BY <1>0, <2>2 DEF OneCommit, InFlight
<1>5. CASE Restart
  <2>1. NoCall.pc = "idle"
    BY NoCallSound
  <2> QED
    BY <1>5, <2>1 DEF Restart, OneCommit, InFlight
<1>6. CASE \/ UNCHANGED vars \/ RemotePush \/ Reattaches
           \/ \E e \in Edit : Edits(e)
  BY <1>6 DEF vars, RemotePush, Reattaches, Edits, OneCommit
<1> QED
  BY <1>1, <1>2, <1>3, <1>4, <1>5, <1>6, MovementNearer, MergeNearer, CommitNearer DEF Next

\* A call of the wing ends after finitely many steps of its own, whatever else
\* is done in its worktree, and one that has joined a commit has one that is in
\* flight to hear from, the only one.
THEOREM CallsEnd == Spec => CallsBounded /\ []OneCommit
<1>1. Init => OneCommit
  <2>1. NoCall.pc = "idle"
    BY DEF NoCall, NewCall
  <2> QED
    BY <2>1 DEF Init, OneCommit, InFlight
<1>2. IInv /\ OneCommit /\ [Next]_vars => OneCommit'
  BY OneCommitStays
<1>3. IInv /\ [Next]_vars =>
        [\A c \in Caller : call'[c] # call[c] =>
           IF call[c].pc = "idle" THEN StepsLeft(call'[c]) <= 10 * MaxAttempts + 11
                                  ELSE StepsLeft(call'[c]) < StepsLeft(call[c])]_vars
  <2> SUFFICES ASSUME IInv, [Next]_vars, NEW c \in Caller, call'[c] # call[c]
               PROVE  IF call[c].pc = "idle" THEN StepsLeft(call'[c]) <= 10 * MaxAttempts + 11
                                             ELSE StepsLeft(call'[c]) < StepsLeft(call[c])
    OBVIOUS
  <2>1. call[c] \in Call
    BY CallFacts
  <2> QED
    BY <2>1, CallsBegin, CallsNearer, NearerIsLess
<1> QED
  BY <1>1, <1>2, <1>3, Invariance, PTL DEF Spec, CallsBounded
=============================================================================
