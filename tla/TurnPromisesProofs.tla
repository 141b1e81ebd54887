-------------------------- MODULE TurnPromisesProofs --------------------------
(***************************************************************************)
(* What ChatQueue promises of its turns beyond the safety of the rows, for *)
(* any number of threads, drains, reapers and rows: a stopped turn stays   *)
(* stopped, chains of resumptions end and are announced only when queued,  *)
(* an absorbed follow-up is answered nowhere else, and, where heartbeats   *)
(* arrive, a live turn keeps its row and its thread.                       *)
(*                                                                         *)
(* The first section says once what a step can do to the columns, to the   *)
(* drains and to the status of a row; the rest of the argument is about    *)
(* those facts and opens an action only where its guard matters.           *)
(***************************************************************************)
EXTENDS ChatQueueProofs

------------------------------------------------------------------------------
(* What a step can do *)

\* A row is inserted at depth 0 or 1, unless it resumes a turn.
LEMMA ColumnSteps ==
  ASSUME QueueInv, Next
  PROVE  \/ UNCHANGED columns
         \/ \E t \in Thread, k \in Kind, n \in {0, 1} : Insert(t, k, n)
         \/ \E d \in Drain : InsertContinuation(d)
<1>1. CASE Environment
  <2>1. ASSUME NEW t \in Thread, NEW k \in Kind, Enqueue(t, k)
        PROVE  \E n \in {0, 1} : Insert(t, k, n)
    BY <2>1 DEF Enqueue
  <2>2. ASSUME NEW t \in Thread, ScheduleFires(t) PROVE Insert(t, "scheduled", 0)
    BY <2>2 DEF ScheduleFires
  <2>3. ASSUME NEW t \in Thread, ScheduleLooks(t) \/ KitRunStarts(t) \/ KitRunEnds(t)
        PROVE  UNCHANGED columns
    BY <2>3 DEF ScheduleLooks, KitRunStarts, KitRunEnds
  <2>4. ASSUME NEW j \in Job, CancelTurn(j) \/ CancelSince(j) \/ GoStale(j) \/ Age(j)
        PROVE  UNCHANGED columns
    BY <2>4 DEF CancelTurn, CancelSince, GoStale, Age, Rows
  <2>5. "scheduled" \in Kind
    BY DEF Kind
  <2>6. QED
    BY <1>1, <2>1, <2>2, <2>3, <2>4, <2>5 DEF Environment
<1>2. ASSUME NEW d \in Drain, DrainStep(d)
      PROVE  UNCHANGED columns \/ InsertContinuation(d)
             \/ (\E t \in Thread : Insert(t, "voice", 0))
  <2>1. CASE Claiming(d)
    BY <2>1 DEF Claiming, StartDrain, SkipCandidate, PickCandidate, NothingToClaim,
       Claim, ClaimLost
  <2>2. CASE Running(d)
    BY <2>2 DEF Running, BeginClear, AnswerClear, CloseClear, BeginTurn, SaveAbsorbed,
       SaveOwnPartial, MarkOwnPartial
  <2>3. CASE NextVoice(d)
    <3>1. cand[d] \in Job
      BY <2>3, InHand DEF NextVoice, Goto
    <3>2. QED
      BY <2>3, <3>1 DEF NextVoice, QueueInv, TypeOK
  <2>4. CASE Settling(d) /\ ~NextVoice(d)
    BY <2>4 DEF Settling, EndGeneration, NoContinuation, WantContinuation,
       ContinuationLost, SaveReply, AskRoom, NoVoice, ReadRow, Close
  <2>5. CASE Heartbeat(d) \/ StepWrites(d) \/ Abandon(d) \/ GenerationFails(d) \/ Crash(d)
    BY <2>5 DEF Heartbeat, StepWrites, Abandon, GenerationFails, FailChatJob, Crash
  <2>6. ASSUME NEW k \in Job, Absorb(d, k) PROVE UNCHANGED columns
    BY <2>6 DEF Absorb
  <2>7. QED
    BY <1>2, <2>1, <2>2, <2>3, <2>4, <2>5, <2>6 DEF DrainStep
<1>3. ASSUME NEW r \in Reaper, ReaperStep(r) PROVE UNCHANGED columns
  BY <1>3 DEF ReaperStep, StartSweep, ReapSkip, ReapClaim, ReapLose, ReapSalvage,
     ReapMark, EndSweep, ReaperDies, RestReaper, Rows
<1>4. "voice" \in Kind
  BY DEF Kind
<1>5. QED
  BY <1>1, <1>2, <1>3, <1>4 DEF Next

\* An inserted row is a new one, and the others keep their columns.
LEMMA NewRow ==
  ASSUME QueueInv, NEW t, NEW k, NEW n, Insert(t, k, n)
  PROVE  /\ created \in Nat /\ created' = created + 1 /\ created + 1 \in Job
         /\ status[created + 1] = "none" /\ status'[created + 1] = "pending"
         /\ thread'[created + 1] = t /\ kind'[created + 1] = k /\ depth'[created + 1] = n
         /\ \A j \in Job : j # created + 1 =>
              /\ thread'[j] = thread[j] /\ kind'[j] = kind[j] /\ depth'[j] = depth[j]
              /\ status'[j] = status[j]
<1>1. created \in Nat /\ created + 1 \in Job
  BY ChatQueueAssumption DEF QueueInv, TypeOK, Insert, Job
<1>2. status[created + 1] = "none"
  BY <1>1 DEF QueueInv, RowsInHand
<1>3. QED
  BY <1>1, <1>2 DEF QueueInv, TypeOK, Insert

\* Rows that exist keep their columns for ever.
LEMMA ColumnsStay ==
  ASSUME QueueInv, Next
  PROVE  /\ created \in Nat /\ created' \in Nat /\ created <= created'
         /\ \A j \in 1..created : /\ j \in Job /\ thread'[j] = thread[j]
                                  /\ kind'[j] = kind[j] /\ depth'[j] = depth[j]
<1>1. created \in Nat /\ \A j \in 1..created : j \in Job /\ j # created + 1
  BY ChatQueueAssumption DEF QueueInv, TypeOK, Job
<1>2. CASE UNCHANGED columns
  BY <1>1, <1>2 DEF columns
<1>3. ASSUME NEW t, NEW k, NEW n, Insert(t, k, n)
      PROVE  /\ created' \in Nat /\ created <= created'
             /\ \A j \in 1..created : /\ thread'[j] = thread[j]
                                      /\ kind'[j] = kind[j] /\ depth'[j] = depth[j]
  BY <1>1, <1>3, NewRow
<1>4. QED
  BY <1>1, <1>2, <1>3, ColumnSteps DEF InsertContinuation

\* A drain moves alone, and past its claim it keeps its row or lets it go.
LEMMA DrainMoves ==
  ASSUME QueueInv, NEW d \in Drain, DrainStep(d)
  PROVE  /\ \A e \in Drain : e # d =>
              /\ pc'[e] = pc[e] /\ cand'[e] = cand[e]
              /\ promised'[e] = promised[e] /\ wrote'[e] = wrote[e]
         /\ UNCHANGED reapers
         /\ \/ pc'[d] \in {"idle", "scan", "claim"}
            \/ cand'[d] = cand[d] /\ (Working(d) \/ Claim(d))
<1>1. /\ pc \in [Drain -> PC] /\ cand \in [Drain -> Job \cup {NoJob}]
      /\ promised \in [Drain -> BOOLEAN] /\ wrote \in [Drain -> BOOLEAN]
  BY DEF QueueInv, TypeOK
<1> USE <1>1 DEF Working
<1>2. CASE Claiming(d)
  BY <1>2 DEF Claiming, StartDrain, SkipCandidate, PickCandidate, NothingToClaim,
     Claim, ClaimLost, Goto
<1>3. CASE Running(d)
  <2>1. CASE BeginClear(d) \/ AnswerClear(d) \/ BeginTurn(d) \/ SaveAbsorbed(d) \/ SaveOwnPartial(d)
    BY <2>1 DEF BeginClear, AnswerClear, BeginTurn, SaveAbsorbed, SaveOwnPartial, Goto
  <2>2. CASE CloseClear(d) \/ MarkOwnPartial(d)
    BY <2>2 DEF CloseClear, MarkOwnPartial, Release, Goto
  <2>3. QED
    BY <1>3, <2>1, <2>2 DEF Running
<1>4. CASE Settling(d)
  <2>1. CASE \/ EndGeneration(d) \/ NoContinuation(d) \/ WantContinuation(d)
             \/ InsertContinuation(d) \/ ContinuationLost(d) \/ SaveReply(d)
    BY <2>1 DEF EndGeneration, NoContinuation, WantContinuation, InsertContinuation,
       ContinuationLost, SaveReply, Goto
  <2>2. CASE AskRoom(d) \/ NextVoice(d) \/ NoVoice(d) \/ ReadRow(d)
    BY <2>2 DEF AskRoom, NextVoice, NoVoice, ReadRow, Goto
  <2>3. CASE Close(d)
    BY <2>3 DEF Close, Release, Goto
  <2>4. QED
    BY <1>4, <2>1, <2>2, <2>3 DEF Settling
<1>5. CASE Heartbeat(d) \/ StepWrites(d)
  BY <1>5 DEF Heartbeat, StepWrites, Generating, drains
<1>6. ASSUME NEW k \in Job, Absorb(d, k)
      PROVE  /\ \A e \in Drain : e # d =>
                  /\ pc'[e] = pc[e] /\ cand'[e] = cand[e]
                  /\ promised'[e] = promised[e] /\ wrote'[e] = wrote[e]
             /\ UNCHANGED reapers /\ cand'[d] = cand[d] /\ Working(d)
  BY <1>6 DEF Absorb
<1>7. CASE Abandon(d)
  BY <1>7 DEF Abandon, Release
<1>8. CASE GenerationFails(d)
  BY <1>8 DEF GenerationFails, Release
<1>9. CASE Crash(d)
  BY <1>9 DEF Crash
<1>10. QED
  BY <1>2, <1>3, <1>4, <1>5, <1>6, <1>7, <1>8, <1>9 DEF DrainStep

\* The others leave the drains where they are.
LEMMA DrainsStand ==
  ASSUME Environment \/ (\E r \in Reaper : ReaperStep(r))
  PROVE  UNCHANGED drains
<1>1. CASE Environment
  BY <1>1 DEF Environment, Enqueue, ScheduleLooks, ScheduleFires, KitRunStarts, KitRunEnds,
     CancelTurn, CancelSince, GoStale, Age
<1>2. ASSUME NEW r \in Reaper, ReaperStep(r) PROVE UNCHANGED drains
  BY <1>2 DEF ReaperStep, StartSweep, ReapSkip, ReapClaim, ReapLose, ReapSalvage,
     ReapMark, EndSweep, ReaperDies, RestReaper
<1>3. QED
  BY <1>1, <1>2

\* Whoever works on a row now was working on it, or has just claimed it.
LEMMA WorkersKnown ==
  ASSUME QueueInv, Next, NEW d \in Drain, Working(d)'
  PROVE  cand'[d] = cand[d] /\ (Working(d) \/ Claim(d))
<1>1. CASE UNCHANGED drains
  BY <1>1 DEF drains, Working
<1>2. ASSUME NEW e \in Drain, DrainStep(e) PROVE cand'[d] = cand[d] /\ (Working(d) \/ Claim(d))
  BY <1>2, DrainMoves DEF Working
<1>3. QED
  BY <1>1, <1>2, DrainsStand DEF Next

------------------------------------------------------------------------------
(* Chains of resumptions *)

Spoken == {"save", "voice", "speak", "read", "close"}

\* A queued /clear is what it was; a drain about to resume a turn may; it has
\* promised only once it was past that; unused rows have no depth.
PointsKnown ==
  /\ \A d \in Drain : pc[d] \in {"clearing", "refusing", "closing"} => kind[cand[d]] = "clear"
  /\ \A d \in Drain : pc[d] = "enqueue" => depth[cand[d]] < MaxDepth
  /\ \A d \in Drain : promised[d] => pc[d] \in Spoken
  /\ \A j \in Job : depth[j] > 0 => j <= created

\* What a drain's own step does to the three points.
LEMMA PointsOfDrain ==
  ASSUME QueueInv, PointsKnown, NEW d \in Drain, DrainStep(d)
  PROVE  /\ pc'[d] \in {"clearing", "refusing", "closing"} => kind[cand'[d]] = "clear"
         /\ pc'[d] = "enqueue" => depth[cand'[d]] < MaxDepth
         /\ promised'[d] => pc'[d] \in Spoken /\ (promised[d] \/ InsertContinuation(d))
<1>1. /\ pc \in [Drain -> PC] /\ cand \in [Drain -> Job \cup {NoJob}]
      /\ promised \in [Drain -> BOOLEAN]
  BY DEF QueueInv, TypeOK
<1>2. /\ pc[d] \in {"clearing", "refusing", "closing"} => kind[cand[d]] = "clear"
      /\ pc[d] = "enqueue" => depth[cand[d]] < MaxDepth
      /\ promised[d] => pc[d] \in Spoken
  BY DEF PointsKnown
<1> USE <1>1, <1>2 DEF Spoken
<1>3. CASE Claiming(d)
  BY <1>3 DEF Claiming, StartDrain, SkipCandidate, PickCandidate, NothingToClaim,
     Claim, ClaimLost, Goto
<1>4. CASE Running(d)
  <2>1. CASE BeginClear(d) \/ AnswerClear(d) \/ BeginTurn(d) \/ SaveAbsorbed(d) \/ SaveOwnPartial(d)
    BY <2>1 DEF BeginClear, AnswerClear, BeginTurn, SaveAbsorbed, SaveOwnPartial, Goto
  <2>2. CASE CloseClear(d) \/ MarkOwnPartial(d)
    BY <2>2 DEF CloseClear, MarkOwnPartial, Release, Goto
  <2>3. QED
    BY <1>4, <2>1, <2>2 DEF Running
<1>5. CASE Settling(d)
  <2>1. CASE \/ EndGeneration(d) \/ NoContinuation(d) \/ WantContinuation(d)
             \/ InsertContinuation(d) \/ ContinuationLost(d) \/ SaveReply(d)
    BY <2>1 DEF EndGeneration, NoContinuation, WantContinuation, MayResume,
       InsertContinuation, ContinuationLost, SaveReply, Goto
  <2>2. CASE AskRoom(d) \/ NextVoice(d) \/ NoVoice(d) \/ ReadRow(d)
    BY <2>2 DEF AskRoom, NextVoice, NoVoice, ReadRow, Goto
  <2>3. CASE Close(d)
    BY <2>3 DEF Close, Release, Goto
  <2>4. QED
    BY <1>5, <2>1, <2>2, <2>3 DEF Settling
<1>6. CASE Heartbeat(d) \/ StepWrites(d)
  BY <1>6 DEF Heartbeat, StepWrites, Generating, drains
<1>7. ASSUME NEW k \in Job, Absorb(d, k) PROVE pc'[d] = "absorb" /\ ~promised'[d]
  BY <1>7 DEF Absorb
<1>8. CASE Abandon(d) \/ GenerationFails(d) \/ Crash(d)
  BY <1>8 DEF Abandon, GenerationFails, Crash, Release
<1>9. QED
  BY <1>3, <1>4, <1>5, <1>6, <1>7, <1>8 DEF DrainStep

\* The row of a working drain exists, before the step and after it.
LEMMA WorkedRow ==
  ASSUME QueueInv, Next, NEW d \in Drain, Working(d)'
  PROVE  /\ cand'[d] = cand[d] /\ cand[d] \in Job /\ cand[d] \in 1..created
         /\ thread'[cand[d]] = thread[cand[d]] /\ kind'[cand[d]] = kind[cand[d]]
         /\ depth'[cand[d]] = depth[cand[d]]
<1>1. cand'[d] = cand[d] /\ pc[d] \notin {"idle", "scan"}
  BY WorkersKnown DEF Working, Claim, Goto
<1>2. cand[d] \in Job /\ cand[d] \in 1..created
  BY <1>1, InHand
<1>3. QED
  BY <1>1, <1>2, ColumnsStay

LEMMA PointsStep ==
  ASSUME QueueInv, PointsKnown, Next
  PROVE  PointsKnown'
<1>1. ASSUME NEW d \in Drain
      PROVE  /\ pc'[d] \in {"clearing", "refusing", "closing"} => kind[cand'[d]] = "clear"
             /\ pc'[d] = "enqueue" => depth[cand'[d]] < MaxDepth
             /\ promised'[d] => pc'[d] \in Spoken
  <2>1. CASE UNCHANGED drains
    BY <2>1 DEF PointsKnown, drains
  <2>2. ASSUME NEW e \in Drain, DrainStep(e), e # d
        PROVE  pc'[d] = pc[d] /\ cand'[d] = cand[d] /\ promised'[d] = promised[d]
    BY <2>2, DrainMoves
  <2>3. QED
    BY <2>1, <2>2, PointsOfDrain, DrainsStand DEF Next, PointsKnown
<1>2. ASSUME NEW d \in Drain, pc'[d] \in {"clearing", "refusing", "closing", "enqueue"}
      PROVE  kind'[cand'[d]] = kind[cand'[d]] /\ depth'[cand'[d]] = depth[cand'[d]]
  BY <1>2, WorkedRow DEF Working
<1>3. ASSUME NEW j \in Job, depth'[j] > 0 PROVE j <= created'
  <2>1. created \in Nat /\ (depth[j] > 0 => j <= created) /\ j \in Nat
    BY ChatQueueAssumption DEF QueueInv, TypeOK, PointsKnown, Job
  <2>2. CASE UNCHANGED columns
    BY <1>3, <2>1, <2>2 DEF columns
  <2>3. ASSUME NEW t, NEW k, NEW n, Insert(t, k, n) PROVE j <= created'
    BY <1>3, <2>1, <2>3, NewRow
  <2>4. QED
    BY <2>2, <2>3, ColumnSteps DEF InsertContinuation
<1>4. QED
  BY <1>1, <1>2, <1>3 DEF PointsKnown

LEMMA PointsAlways == Spec => []PointsKnown
<1>1. Init => PointsKnown
  BY DEF Init, PointsKnown
<1>2. QueueInv /\ PointsKnown /\ [Next]_vars => PointsKnown'
  <2>1. QueueInv /\ PointsKnown /\ Next => PointsKnown'
    BY PointsStep
  <2>2. PointsKnown /\ UNCHANGED vars => PointsKnown'
    BY DEF PointsKnown, vars, columns, drains
  <2>3. QED
    BY <2>1, <2>2
<1>3. QED
  BY <1>1, <1>2, QueueInvariant, PTL DEF Spec

\* Every resumption continues a turn of its thread that is one step less deep, so
\* no chain of them is longer than MaxDepth, however many turns are resumed.
THEOREM ChainsHaveAnEnd == Spec => []ChainsEnd
<1>1. Init => ChainsEnd
  BY DEF Init, ChainsEnd
<1>2. QueueInv /\ PointsKnown /\ ChainsEnd /\ [Next]_vars => ChainsEnd'
  <2> SUFFICES ASSUME QueueInv, PointsKnown, ChainsEnd, [Next]_vars PROVE ChainsEnd'
    OBVIOUS
  <2>1. CASE UNCHANGED columns
    BY <2>1 DEF columns, ChainsEnd
  <2>2. created \in Nat /\ depth \in [Job -> Nat] /\ Job \subseteq Nat \ {0}
    BY ChatQueueAssumption DEF QueueInv, TypeOK, Job
  <2>3. ASSUME NEW t, NEW k, NEW n \in Nat, Insert(t, k, n),
               n > 1 => /\ k = "continuation" /\ n <= MaxDepth
                        /\ \E i \in 1..created : thread[i] = t /\ depth[i] + 1 = n
        PROVE  ChainsEnd'
    <3>1. /\ created + 1 \in Job
          /\ thread'[created + 1] = t /\ kind'[created + 1] = k /\ depth'[created + 1] = n
          /\ \A i \in 1..created : i \in Job /\ thread'[i] = thread[i] /\ depth'[i] = depth[i]
      <4>1. \A i \in 1..created : i \in Job /\ i # created + 1
        BY <2>2, ChatQueueAssumption DEF QueueInv, TypeOK, Job
      <4>2. QED
        BY <2>3, <4>1, NewRow
    <3>2. ASSUME NEW j \in Job, depth'[j] > 1, j # created + 1
          PROVE  /\ kind'[j] = "continuation" /\ depth'[j] <= MaxDepth
                 /\ \E i \in 1..(j - 1) : thread'[i] = thread'[j] /\ depth'[i] = depth'[j] - 1
      <4>1. kind'[j] = kind[j] /\ depth'[j] = depth[j] /\ thread'[j] = thread[j]
        BY <2>3, <3>2, NewRow
      <4>2. j <= created /\ j \in Nat
        BY <2>2, <3>2, <4>1 DEF PointsKnown
      <4>3. /\ kind[j] = "continuation" /\ depth[j] <= MaxDepth
            /\ \E i \in 1..(j - 1) : thread[i] = thread[j] /\ depth[i] = depth[j] - 1
        BY <3>2, <4>1 DEF ChainsEnd
      <4>4. \A i \in 1..(j - 1) : i \in 1..created
        BY <2>2, <4>2
      <4>5. QED
        BY <3>1, <4>1, <4>3, <4>4
    <3>3. n > 1 => /\ kind'[created + 1] = "continuation" /\ depth'[created + 1] <= MaxDepth
                   /\ \E i \in 1..created :
                        thread'[i] = thread'[created + 1] /\ depth'[i] = depth'[created + 1] - 1
      BY <2>2, <2>3, <3>1
    <3>4. ASSUME NEW j \in Job, depth'[j] > 1
          PROVE  /\ kind'[j] = "continuation" /\ depth'[j] <= MaxDepth
                 /\ \E i \in 1..(j - 1) : thread'[i] = thread'[j] /\ depth'[i] = depth'[j] - 1
      <4>1. CASE j = created + 1
        <5>1. n > 1
          BY <3>1, <3>4, <4>1
        <5>2. PICK i \in 1..created : thread'[i] = thread'[j] /\ depth'[i] = depth'[j] - 1
          BY <3>3, <4>1, <5>1
        <5>3. i \in 1..(j - 1)
          BY <2>2, <4>1
        <5>4. QED
          BY <3>3, <4>1, <5>1, <5>2, <5>3
      <4>2. QED
        BY <3>2, <3>4, <4>1
    <3>5. QED
      BY <3>4 DEF ChainsEnd
  <2>4. ASSUME NEW d \in Drain, InsertContinuation(d) PROVE ChainsEnd'
    <3>1. /\ pc[d] = "enqueue" /\ depth[cand[d]] < MaxDepth
          /\ Insert(thread[cand[d]], "continuation", depth[cand[d]] + 1)
      BY <2>4 DEF InsertContinuation, Goto, PointsKnown
    <3>2. cand[d] \in Job /\ cand[d] \in 1..created
      BY <3>1, InHand
    <3>3. depth[cand[d]] + 1 <= MaxDepth /\ depth[cand[d]] + 1 \in Nat
      BY <2>2, <3>1, <3>2, ChatQueueAssumption
    <3>4. \E i \in 1..created : thread[i] = thread[cand[d]] /\ depth[i] + 1 = depth[cand[d]] + 1
      BY <3>2, Zenon
    <3>5. QED
      BY <2>3, <3>1, <3>3, <3>4
  <2>5. ASSUME NEW t \in Thread, NEW k \in Kind, NEW n \in {0, 1}, Insert(t, k, n)
        PROVE  ChainsEnd'
    BY <2>3, <2>5
  <2>6. QED
    BY <2>1, <2>4, <2>5, ColumnSteps DEF vars
<1>3. QED
  BY <1>1, <1>2, QueueInvariant, PointsAlways, PTL DEF Spec

\* The line that says the work resumes in the background is true: the row of the
\* resumption is in the queue, after that of the turn and on its thread.
THEOREM PromisesAreQueued == Spec => []PromiseIsQueued
<1>1. Init => PromiseIsQueued
  BY DEF Init, PromiseIsQueued
<1>2. QueueInv /\ PointsKnown /\ PromiseIsQueued /\ [Next]_vars => PromiseIsQueued'
  <2> SUFFICES ASSUME QueueInv, PointsKnown, PromiseIsQueued, [Next]_vars PROVE PromiseIsQueued'
    OBVIOUS
  <2>1. CASE UNCHANGED vars
    BY <2>1 DEF vars, columns, drains, PromiseIsQueued
  <2>2. ASSUME Next, NEW d \in Drain, promised'[d]
        PROVE  \E i \in (cand'[d] + 1)..created' :
                 /\ thread'[i] = thread'[cand'[d]]
                 /\ kind'[i] = "continuation" /\ depth'[i] = depth'[cand'[d]] + 1
    <3>1. Working(d)'
      BY <2>2, PointsStep DEF PointsKnown, Working, Spoken
    <3>2. /\ cand'[d] = cand[d] /\ cand[d] \in 1..created /\ cand[d] \in Job
          /\ thread'[cand[d]] = thread[cand[d]] /\ depth'[cand[d]] = depth[cand[d]]
      BY <2>2, <3>1, WorkedRow
    <3>3. /\ created \in Nat /\ created' \in Nat /\ created <= created'
          /\ \A i \in 1..created : /\ thread'[i] = thread[i] /\ kind'[i] = kind[i]
                                   /\ depth'[i] = depth[i]
      BY <2>2, ColumnsStay
    <3>4. CASE promised[d]
      <4>1. PICK i \in (cand[d] + 1)..created :
              /\ thread[i] = thread[cand[d]]
              /\ kind[i] = "continuation" /\ depth[i] = depth[cand[d]] + 1
        BY <3>4 DEF PromiseIsQueued
      <4>2. i \in 1..created /\ i \in (cand[d] + 1)..created'
        BY <3>2, <3>3
      <4>3. QED
        BY <3>2, <3>3, <4>1, <4>2
    <3>5. CASE InsertContinuation(d)
      <4>1. Insert(thread[cand[d]], "continuation", depth[cand[d]] + 1)
        BY <3>5 DEF InsertContinuation
      <4>2. /\ created' = created + 1 /\ thread'[created + 1] = thread[cand[d]]
            /\ kind'[created + 1] = "continuation" /\ depth'[created + 1] = depth[cand[d]] + 1
        BY <4>1, NewRow
      <4>3. created + 1 \in (cand[d] + 1)..created'
        BY <3>2, <3>3, <4>2
      <4>4. QED
        BY <3>2, <4>2, <4>3
    <3>6. promised[d] \/ InsertContinuation(d)
      <4>1. CASE UNCHANGED drains
        BY <2>2, <4>1 DEF drains
      <4>2. ASSUME NEW e \in Drain, DrainStep(e), e # d PROVE promised[d]
        BY <2>2, <4>2, DrainMoves
      <4>3. QED
        BY <2>2, <4>1, <4>2, PointsOfDrain, DrainsStand DEF Next
    <3>7. QED
      BY <3>4, <3>5, <3>6
  <2>3. QED
    BY <2>1, <2>2 DEF PromiseIsQueued
<1>3. QED
  BY <1>1, <1>2, QueueInvariant, PointsAlways, PTL DEF Spec

------------------------------------------------------------------------------
(* The status of a row *)

\* A row that changes hands is inserted, claimed, or closed; but for a /clear, only
\* one that is open or failed is closed.
LEMMA StatusMoves ==
  ASSUME QueueInv, PointsKnown, Next, NEW j \in Job, status'[j] # status[j]
  PROVE  \/ status[j] = "none" /\ status'[j] = "pending"
         \/ \E d \in Drain : Claim(d) /\ cand[d] = j
         \/ status'[j] \in Over /\ status[j] \in Open \cup {"failed"}
         \/ status'[j] = "done" /\ kind[j] = "clear" /\ \E d \in Drain : Working(d) /\ cand[d] = j
<1> DEFINE Closed == status'[j] \in Over /\ status[j] \in Open \cup {"failed"}
           Cleared == /\ status'[j] = "done" /\ kind[j] = "clear"
                      /\ \E d \in Drain : Working(d) /\ cand[d] = j
<1>1. status \in [Job -> Status] /\ status' \in [Job -> Status]
  BY QueueStep DEF QueueInv, TypeOK
<1>2. CASE Inserting
  BY <1>2, NewRow DEF Inserting
<1>3. ASSUME NEW d \in Drain, Claim(d) PROVE cand[d] = j
  BY <1>1, <1>3 DEF Claim
<1>4. CASE Environment /\ Quieter
  <2>1. ASSUME NEW i \in Job, CancelTurn(i) \/ CancelSince(i) PROVE Closed
    BY <1>1, <2>1 DEF CancelTurn, CancelSince, Active, Open, Over
  <2>2. ASSUME NEW i \in Job, GoStale(i) \/ Age(i) PROVE FALSE
    BY <2>2 DEF GoStale, Age, Rows
  <2>3. ASSUME NEW t \in Thread, ScheduleLooks(t) \/ KitRunStarts(t) \/ KitRunEnds(t) PROVE FALSE
    BY <2>3 DEF ScheduleLooks, KitRunStarts, KitRunEnds
  <2>4. ASSUME NEW t \in Thread, NEW k, NEW n, Insert(t, k, n)
        PROVE  status[j] = "none" /\ status'[j] = "pending"
    BY <2>4, NewRow
  <2>5. QED
    BY <1>4, <2>1, <2>2, <2>3, <2>4 DEF Environment, Enqueue, ScheduleFires
<1>5. ASSUME NEW d \in Drain, DrainStep(d), ~Inserting, ~Claim(d)
      PROVE  Closed \/ Cleared
  <2> USE <1>1 DEF Open, Over
  <2>1. CASE CloseClear(d)
    BY <2>1 DEF CloseClear, Goto, Working, PointsKnown
  <2>2. CASE MarkOwnPartial(d)
    BY <2>2 DEF MarkOwnPartial, MarkSalvaged
  <2>3. CASE Close(d)
    BY <2>3 DEF Close, Closable
  <2>4. ASSUME NEW k \in Job, Absorb(d, k) PROVE Closed
    BY <2>4 DEF Absorb, FollowUps, FollowUpsIn, Oldest, Pending
  <2>5. CASE Abandon(d) \/ GenerationFails(d)
    BY <2>5 DEF Abandon, GenerationFails, FailChatJob
  <2>6. CASE Claiming(d)
    BY <1>5, <2>6 DEF Claiming, StartDrain, SkipCandidate, PickCandidate, NothingToClaim, ClaimLost
  <2>7. CASE Running(d) /\ ~CloseClear(d) /\ ~MarkOwnPartial(d)
    BY <2>7 DEF Running, BeginClear, AnswerClear, BeginTurn, SaveAbsorbed, SaveOwnPartial
  <2>8. CASE InsertContinuation(d) \/ NextVoice(d)
    <3>1. cand[d] \in Job
      BY <2>8, InHand DEF InsertContinuation, NextVoice, Goto
    <3>2. Inserting
      BY <2>8, <3>1 DEF InsertContinuation, NextVoice, Inserting, QueueInv, TypeOK, Kind
    <3>3. QED
      BY <1>5, <3>2
  <2>9. CASE Settling(d) /\ ~Close(d) /\ ~InsertContinuation(d) /\ ~NextVoice(d)
    BY <2>9 DEF Settling, EndGeneration, NoContinuation, WantContinuation,
       ContinuationLost, SaveReply, AskRoom, NoVoice, ReadRow
  <2>10. CASE Heartbeat(d) \/ StepWrites(d) \/ Crash(d)
    BY <2>10 DEF Heartbeat, StepWrites, Crash
  <2>11. QED
    BY <1>5, <2>1, <2>2, <2>3, <2>4, <2>5, <2>6, <2>7, <2>8, <2>9, <2>10 DEF DrainStep
<1>6. ASSUME NEW r \in Reaper, ReaperStep(r) PROVE Closed
  <2> USE <1>1 DEF Open, Over
  <2>1. CASE ReapClaim(r)
    BY <2>1 DEF ReapClaim, Reapable
  <2>2. CASE ReapMark(r)
    BY <2>2 DEF ReapMark, MarkSalvaged
  <2>3. CASE StartSweep(r) \/ ReapSkip(r) \/ ReapLose(r) \/ ReapSalvage(r)
             \/ EndSweep(r) \/ ReaperDies(r)
    BY <2>3 DEF StartSweep, ReapSkip, ReapLose, ReapSalvage, EndSweep, ReaperDies,
       RestReaper, Rows
  <2>4. QED
    BY <1>6, <2>1, <2>2, <2>3 DEF ReaperStep
<1>7. QED
  BY <1>2, <1>3, <1>4, <1>5, <1>6, ThreeKinds DEF Next

\* Nothing brings a stopped turn back, neither the close of the drain that was at
\* it, nor a salvage, nor another claim.
THEOREM StopsAreFinal == Spec => StoppedIsFinal
<1>1. QueueInv /\ PointsKnown /\ [Next]_vars =>
        [\A j \in Job : status[j] = "cancelled" /\ kind[j] # "clear"
                      => status'[j] = "cancelled"]_vars
  <2> SUFFICES ASSUME QueueInv, PointsKnown, Next, NEW j \in Job,
                      status[j] = "cancelled", kind[j] # "clear", status'[j] # "cancelled"
               PROVE  FALSE
    OBVIOUS
  <2>1. ASSUME NEW d \in Drain, Claim(d) PROVE cand[d] # j
    BY <2>1 DEF Claim
  <2>2. QED
    BY <2>1, StatusMoves DEF Open
<1>2. QED
  BY <1>1, QueueInvariant, PointsAlways, PTL DEF Spec, StoppedIsFinal

------------------------------------------------------------------------------
(* Who may touch a row *)

Unclaimed == {"none", "pending"}

Salvaging(r) == rpc[r] \in {"salvage", "mark"}

\* Whoever works on a row, or salvages it, came through a claim, and of the drains
\* only one did.
OneOwner ==
  /\ \A d \in Drain : Working(d) => status[cand[d]] \notin Unclaimed
  /\ \A d, e \in Drain : Working(d) /\ Working(e) /\ cand[d] = cand[e] => d = e
  /\ \A r \in Reaper : Salvaging(r) => status[rcand[r]] \notin Unclaimed

LEMMA StaysClaimed ==
  ASSUME QueueInv, PointsKnown, Next, NEW j \in Job, status[j] \notin Unclaimed
  PROVE  status'[j] \notin Unclaimed
<1>1. ASSUME NEW d \in Drain, Claim(d) PROVE cand[d] # j
  BY <1>1 DEF Claim, Unclaimed
<1>2. QED
  BY <1>1, StatusMoves DEF Unclaimed, Over

\* Only the claim of a reaper sets it to salvage a row, which is open until then.
LEMMA SalvagersKnown ==
  ASSUME QueueInv, Next, NEW r \in Reaper, Salvaging(r)'
  PROVE  /\ rcand'[r] \in Job
         /\ \/ Salvaging(r) /\ rcand'[r] = rcand[r]
            \/ /\ ReapClaim(r) /\ status[rcand'[r]] \in Open /\ status'[rcand'[r]] = "failed"
               /\ seen[r][rcand'[r]] # "none" /\ rcand'[r] \in seenText[r]
<1>1. /\ rpc \in [Reaper -> {"idle", "sweep", "salvage", "mark"}]
      /\ rcand \in [Reaper -> Job \cup {NoJob}] /\ status \in [Job -> Status]
  BY DEF QueueInv, TypeOK
<1>2. CASE UNCHANGED reapers
  BY <1>2, InReach DEF reapers, Salvaging
<1>3. CASE Environment
  BY <1>2, <1>3 DEF Environment, Enqueue, ScheduleLooks, ScheduleFires, KitRunStarts,
     KitRunEnds, CancelTurn, CancelSince, GoStale, Age
<1>4. ASSUME NEW q \in Reaper, ReaperStep(q), q # r
      PROVE  rpc'[r] = rpc[r] /\ rcand'[r] = rcand[r]
  BY <1>1, <1>4 DEF ReaperStep, StartSweep, ReapSkip, ReapClaim, ReapLose, ReapSalvage,
     ReapMark, EndSweep, ReaperDies, RestReaper
<1>5. CASE ReapClaim(r)
  <2>1. First(Listed(r)) \in Listed(r) /\ First(Listed(r)) \in Job
    <3>1. Listed(r) \in SUBSET Job
      BY DEF Listed
    <3>2. QED
      BY <1>5, <3>1, FirstIsMember DEF ReapClaim
  <2>2. rcand'[r] = First(Listed(r)) /\ First(Listed(r)) \in seenText[r]
    BY <1>1, <1>5, <2>1 DEF ReapClaim, Salvaging
  <2>3. QED
    BY <1>1, <1>5, <2>1, <2>2 DEF ReapClaim, Reapable, Listed
<1>6. CASE ReaperStep(r) /\ ~ReapClaim(r)
  <2>1. Salvaging(r) /\ rcand'[r] = rcand[r]
    BY <1>1, <1>6 DEF ReaperStep, StartSweep, ReapSkip, ReapLose, ReapSalvage,
       ReapMark, EndSweep, ReaperDies, RestReaper, Salvaging
  <2>2. QED
    BY <2>1, InReach DEF Salvaging
<1>7. QED
  BY <1>1, <1>2, <1>3, <1>4, <1>5, <1>6, DrainMoves, InReach DEF Next, Salvaging

LEMMA OneOwnerStep ==
  ASSUME QueueInv, PointsKnown, OneOwner, Next
  PROVE  OneOwner'
<1>1. \A d \in Drain : Working(d)' =>
        /\ cand'[d] = cand[d] /\ cand[d] \in Job
        /\ \/ Working(d)
           \/ Claim(d) /\ status[cand[d]] = "pending" /\ status'[cand[d]] = "running"
  <2>1. ASSUME NEW d \in Drain, Claim(d), cand[d] \in Job
        PROVE  status[cand[d]] = "pending" /\ status'[cand[d]] = "running"
    BY <2>1 DEF Claim, QueueInv, TypeOK
  <2>2. QED
    BY <2>1, WorkedRow, WorkersKnown
<1>2. ASSUME NEW d \in Drain, Working(d)' PROVE status'[cand'[d]] \notin Unclaimed
  BY <1>1, <1>2, StaysClaimed DEF OneOwner, Unclaimed
<1>3. ASSUME NEW d \in Drain, NEW e \in Drain, Working(d)', Working(e)', cand'[d] = cand'[e]
      PROVE  d = e
  <2>1. CASE Working(d) /\ Working(e)
    BY <1>1, <1>3, <2>1 DEF OneOwner
  <2>2. ASSUME NEW x \in Drain, NEW y \in Drain, x # y, Claim(x) PROVE ~Claim(y)
    BY <2>2 DEF Claim, Goto, QueueInv, TypeOK
  <2>3. QED
    BY <1>1, <1>3, <2>1, <2>2 DEF OneOwner, Unclaimed
<1>4. ASSUME NEW r \in Reaper, Salvaging(r)' PROVE status'[rcand'[r]] \notin Unclaimed
  BY <1>4, SalvagersKnown, StaysClaimed DEF OneOwner, Unclaimed
<1>5. QED
  BY <1>2, <1>3, <1>4 DEF OneOwner

LEMMA OneOwnerAlways == Spec => []OneOwner
<1>1. Init => OneOwner
  BY DEF Init, OneOwner, Working, Salvaging
<1>2. QueueInv /\ PointsKnown /\ OneOwner /\ [Next]_vars => OneOwner'
  <2>1. QueueInv /\ PointsKnown /\ OneOwner /\ Next => OneOwner'
    BY OneOwnerStep
  <2>2. OneOwner /\ UNCHANGED vars => OneOwner'
    BY DEF OneOwner, Working, Salvaging, vars, columns, drains, reapers
  <2>3. QED
    BY <2>1, <2>2
<1>3. QED
  BY <1>1, <1>2, QueueInvariant, PointsAlways, PTL DEF Spec

------------------------------------------------------------------------------
(* Follow-ups that were absorbed *)

\* Somebody may write a message for the row j, or close it by name.
Touched(j) ==
  \/ \E d \in Drain : Working(d) /\ cand[d] = j
  \/ \E r \in Reaper : Salvaging(r) /\ rcand[r] = j

Unanswered(j) == posted \cap ({j} \X (Bubble \ {"user"})) = {}

\* A row nobody has claimed has no result and no message but its user's, and
\* nobody salvages an absorbed one.
Untold ==
  /\ \A j \in Job : status[j] \in Unclaimed => result[j] = "none" /\ Unanswered(j)
  /\ \A r \in Reaper : Salvaging(r) => result[rcand[r]] # "consumed"

\* A message is for a row that somebody touches.
LEMMA MessagesFrom ==
  ASSUME QueueInv, Next, NEW j \in Job, ~Touched(j), Unanswered(j)
  PROVE  Unanswered(j)'
<1> SUFFICES ASSUME NEW b \in Bubble \ {"user"}, <<j, b>> \in posted'
             PROVE  <<j, b>> \in posted
  BY DEF Unanswered
<1> DEFINE m == <<j, b>>
<1>1. ASSUME NEW i, m \in posted \cup {<<i, "user">>} PROVE m \in posted
  BY <1>1
<1>2. ASSUME NEW d \in Drain, Working(d), NEW c, m \in posted \cup {<<cand[d], c>>}
      PROVE  m \in posted
  BY <1>2 DEF Touched
<1> USE DEF transcript
<1>3. CASE Environment
  <2>1. ASSUME NEW t \in Thread, NEW k \in Kind, Enqueue(t, k) PROVE m \in posted
    BY <1>1, <2>1 DEF Enqueue
  <2>2. ASSUME NEW t \in Thread, ScheduleLooks(t) \/ ScheduleFires(t) \/ KitRunStarts(t) \/ KitRunEnds(t)
        PROVE  m \in posted
    BY <2>2 DEF ScheduleLooks, ScheduleFires, KitRunStarts, KitRunEnds
  <2>3. ASSUME NEW i \in Job, CancelTurn(i) \/ CancelSince(i) \/ GoStale(i) \/ Age(i)
        PROVE  m \in posted
    BY <2>3 DEF CancelTurn, CancelSince, GoStale, Age
  <2>4. QED
    BY <1>3, <2>1, <2>2, <2>3 DEF Environment
<1>4. ASSUME NEW d \in Drain, DrainStep(d) PROVE m \in posted
  <2>1. CASE Claiming(d)
    BY <2>1 DEF Claiming, StartDrain, SkipCandidate, PickCandidate, NothingToClaim,
       Claim, ClaimLost
  <2>2. CASE AnswerClear(d) \/ SaveOwnPartial(d)
    BY <1>2, <2>2 DEF AnswerClear, SaveOwnPartial, Goto, Working
  <2>3. CASE BeginTurn(d)
    BY <1>1, <2>3 DEF BeginTurn
  <2>4. CASE SaveAbsorbed(d)
    BY <1>1, <2>4 DEF SaveAbsorbed
  <2>5. CASE BeginClear(d) \/ CloseClear(d) \/ MarkOwnPartial(d)
    BY <2>5 DEF BeginClear, CloseClear, MarkOwnPartial
  <2>6. CASE SaveReply(d)
    BY <1>2, <2>6 DEF SaveReply, Goto, Working
  <2>7. CASE Settling(d) /\ ~SaveReply(d)
    BY <2>7 DEF Settling, EndGeneration, NoContinuation, WantContinuation, InsertContinuation,
       ContinuationLost, AskRoom, NextVoice, NoVoice, ReadRow, Close
  <2>8. CASE Abandon(d) \/ GenerationFails(d)
    <3>1. Working(d)
      BY <2>8, ChatQueueAssumption DEF Abandon, GenerationFails, AfterGeneration, Working
    <3>2. m \in posted \cup {<<cand[d], "notice">>}
      BY <2>8 DEF Abandon, GenerationFails, FailChatJob
    <3>3. QED
      BY <1>2, <3>1, <3>2
  <2>9. CASE Heartbeat(d) \/ StepWrites(d) \/ Crash(d)
    BY <2>9 DEF Heartbeat, StepWrites, Crash
  <2>10. ASSUME NEW k \in Job, Absorb(d, k) PROVE m \in posted
    BY <2>10 DEF Absorb
  <2>11. QED
    BY <1>4, <2>1, <2>2, <2>3, <2>4, <2>5, <2>6, <2>7, <2>8, <2>9, <2>10 DEF DrainStep, Running
<1>5. ASSUME NEW r \in Reaper, ReaperStep(r) PROVE m \in posted
  <2>1. CASE ReapSalvage(r)
    BY <2>1 DEF ReapSalvage, Salvaging, Touched
  <2>2. CASE ReaperStep(r) /\ ~ReapSalvage(r)
    BY <2>2 DEF ReaperStep, StartSweep, ReapSkip, ReapClaim, ReapLose,
       ReapMark, EndSweep, ReaperDies, RestReaper
  <2>3. QED
    BY <1>5, <2>1, <2>2
<1>6. QED
  BY <1>3, <1>4, <1>5 DEF Next

\* A result comes from who touches the row, or from the mailbox, which takes the
\* row as it waits.
LEMMA ResultsFrom ==
  ASSUME QueueInv, Next, NEW j \in Job, result'[j] # result[j]
  PROVE  \/ Touched(j) /\ result'[j] # "consumed"
         \/ status[j] = "pending" /\ status'[j] = "done" /\ result'[j] = "consumed"
<1>1. result \in [Job -> Result] /\ status \in [Job -> Status]
  BY DEF QueueInv, TypeOK
<1> USE <1>1 DEF Rows, columns
<1>2. ASSUME Environment PROVE FALSE
  BY <1>2 DEF Environment, Enqueue, Insert, ScheduleLooks, ScheduleFires, KitRunStarts,
     KitRunEnds, CancelTurn, CancelSince, GoStale, Age
<1>3. ASSUME NEW d \in Drain, DrainStep(d)
      PROVE  \/ Touched(j) /\ result'[j] # "consumed"
             \/ status[j] = "pending" /\ status'[j] = "done" /\ result'[j] = "consumed"
  <2>1. CASE Claiming(d)
    BY <2>1 DEF Claiming, StartDrain, SkipCandidate, PickCandidate, NothingToClaim,
       Claim, ClaimLost
  <2>2. CASE Running(d) /\ ~MarkOwnPartial(d)
    BY <2>2 DEF Running, BeginClear, AnswerClear, CloseClear, BeginTurn, SaveAbsorbed,
       SaveOwnPartial
  <2>3. CASE MarkOwnPartial(d)
    BY <2>3 DEF MarkOwnPartial, MarkSalvaged, Goto, Touched, Working
  <2>4. CASE Close(d)
    BY <2>4 DEF Close, Goto, Touched, Working
  <2>5. CASE Settling(d) /\ ~Close(d)
    BY <2>5 DEF Settling, EndGeneration, NoContinuation, WantContinuation, InsertContinuation,
       Insert, ContinuationLost, SaveReply, AskRoom, NextVoice, NoVoice, ReadRow
  <2>6. CASE Heartbeat(d) \/ StepWrites(d) \/ Crash(d) \/ Abandon(d) \/ GenerationFails(d)
    BY <2>6 DEF Heartbeat, StepWrites, Crash, Abandon, GenerationFails, FailChatJob
  <2>7. ASSUME NEW k \in Job, Absorb(d, k)
        PROVE  status[j] = "pending" /\ status'[j] = "done" /\ result'[j] = "consumed"
    <3>1. status[k] = "pending"
      BY <2>7 DEF Absorb, FollowUps, FollowUpsIn, Oldest, Pending
    <3>2. QED
      BY <2>7, <3>1 DEF Absorb
  <2>8. QED
    BY <1>3, <2>1, <2>2, <2>3, <2>4, <2>5, <2>6, <2>7 DEF DrainStep
<1>4. ASSUME NEW r \in Reaper, ReaperStep(r) PROVE Touched(j) /\ result'[j] # "consumed"
  <2>1. CASE ReapMark(r)
    BY <2>1, ChatQueueAssumption DEF ReapMark, MarkSalvaged, Touched, Salvaging
  <2>2. CASE ReaperStep(r) /\ ~ReapMark(r)
    BY <2>2 DEF ReaperStep, StartSweep, ReapSkip, ReapClaim, ReapLose,
       ReapSalvage, EndSweep, ReaperDies, RestReaper
  <2>3. QED
    BY <1>4, <2>1, <2>2
<1>5. QED
  BY <1>2, <1>3, <1>4 DEF Next

LEMMA AbsorbedStep ==
  ASSUME QueueInv, PointsKnown, OneOwner, Untold, AbsorbedIsNotAnswered, Next
  PROVE  Untold' /\ AbsorbedIsNotAnswered'
<1>1. ASSUME NEW j \in Job, status[j] \in Unclaimed PROVE ~Touched(j)
  BY <1>1 DEF OneOwner, Touched
<1>2. ASSUME NEW j \in Job, result[j] = "consumed"
      PROVE  status[j] = "done" /\ Unanswered(j) /\ ~Touched(j)
  BY <1>2 DEF AbsorbedIsNotAnswered, Untold, Touched, Unanswered
<1>3. ASSUME NEW j \in Job, status'[j] \in Unclaimed
      PROVE  result'[j] = "none" /\ Unanswered(j)'
  <2>1. status[j] \in Unclaimed
    BY <1>3, StaysClaimed
  <2>2. QED
    BY <1>1, <1>3, <2>1, MessagesFrom, ResultsFrom DEF Untold, Unclaimed
<1>4. ASSUME NEW r \in Reaper, Salvaging(r)' PROVE result'[rcand'[r]] # "consumed"
  <2>1. rcand'[r] \in Job /\ result[rcand'[r]] # "consumed"
    BY <1>2, <1>4, SalvagersKnown DEF Open, Untold
  <2>2. Touched(rcand'[r]) \/ status'[rcand'[r]] # "done"
    BY <1>4, SalvagersKnown DEF Touched
  <2>3. QED
    BY <1>1, <2>1, <2>2, ResultsFrom DEF Unclaimed
<1>5. ASSUME NEW j \in Job, result'[j] = "consumed"
      PROVE  /\ status'[j] = "done" /\ Unanswered(j)'
             /\ \A d \in Drain : Working(d)' => cand'[d] # j
  <2>1. /\ ~Touched(j) /\ Unanswered(j)
        /\ \/ status[j] = "done" /\ result[j] = "consumed"
           \/ status[j] = "pending" /\ status'[j] = "done"
    BY <1>1, <1>2, <1>5, ResultsFrom DEF Untold, Unclaimed
  <2>2. ASSUME NEW d \in Drain, Claim(d), cand[d] = j
        PROVE  status[j] = "pending" /\ status'[j] = "running"
    BY <2>2 DEF Claim, QueueInv, TypeOK
  <2>3. status'[j] = "done"
    BY <2>1, <2>2, StatusMoves DEF Touched, Open
  <2>4. QED
    BY <2>1, <2>2, <2>3, MessagesFrom, WorkersKnown DEF Touched
<1>6. QED
  BY <1>3, <1>4, <1>5 DEF Untold, AbsorbedIsNotAnswered, Unanswered

LEMMA UntoldAlways == Spec => [](Untold /\ AbsorbedIsNotAnswered)
<1>1. Init => Untold /\ AbsorbedIsNotAnswered
  BY DEF Init, Untold, AbsorbedIsNotAnswered, Unanswered, Salvaging
<1>2. QueueInv /\ PointsKnown /\ OneOwner /\ Untold /\ AbsorbedIsNotAnswered /\ [Next]_vars
      => Untold' /\ AbsorbedIsNotAnswered'
  <2>1. QueueInv /\ PointsKnown /\ OneOwner /\ Untold /\ AbsorbedIsNotAnswered /\ Next
        => Untold' /\ AbsorbedIsNotAnswered'
    BY AbsorbedStep
  <2>2. Untold /\ AbsorbedIsNotAnswered /\ UNCHANGED vars => Untold' /\ AbsorbedIsNotAnswered'
    BY DEF Untold, AbsorbedIsNotAnswered, Unanswered, Salvaging, Working, vars, columns,
       drains, reapers, transcript
  <2>3. QED
    BY <2>1, <2>2
<1>3. QED
  BY <1>1, <1>2, QueueInvariant, PointsAlways, OneOwnerAlways, PTL DEF Spec

\* A follow-up that a running turn has absorbed is answered there and nowhere else:
\* no drain runs it, no reaper salvages it, it never has a reply of its own.
THEOREM AbsorbedOnce == Spec => []AbsorbedIsNotAnswered
BY UntoldAlways, PTL

------------------------------------------------------------------------------
(* Live turns, where heartbeats arrive and sweeps are quick *)

\* Until its generation is over no turn is silent for as long as the limit, and no
\* sweep outlasts it.
Beating == SilentAt \subseteq AfterGeneration /\ ~SlowSweep

\* Besides, rows do not outlive the pending limit.
Punctual == Beating /\ ~MayAge

\* A reaper holds the row j against its turn.
Held(r, j) == seen[r][j] = "old" \/ (Salvaging(r) /\ rcand[r] = j)

\* A sweep lists rows that wait, which have no text, or whose beat is old; what it
\* lists so, or salvages, nobody works on any more, as the row of a live turn beats,
\* unless its generation is over and what is left may take longer than the limit.
LateOn(j) == \A d \in Drain : Working(d) /\ cand[d] = j => pc[d] \in Overtaken

HeldRows ==
  /\ \A r \in Reaper, j \in Job : seen[r][j] \in {"none", "pending", "old"}
  /\ \A r \in Reaper, j \in Job : seen[r][j] = "pending" => j \notin seenText[r]
  /\ \A j \in Job : status[j] \in Unclaimed => partial[j] # "text"
  /\ \A r \in Reaper, j \in Job : Held(r, j) =>
       status[j] \notin Unclaimed /\ LateOn(j)
  /\ \A d \in Drain : /\ Working(d) /\ pc[d] \notin Overtaken
                     /\ status[cand[d]] = "running" => cand[d] \notin stale

\* Where rows do not age either, a sweep lists only rows whose beat is old, and the
\* row of a turn going on is running, or was stopped, or it is overtaken.
KeptRows ==
  /\ \A r \in Reaper, j \in Job : seen[r][j] \in {"none", "old"}
  /\ \A d \in Drain : Conversing(d) /\ pc[d] \notin Overtaken =>
       \/ status[cand[d]] = "running"
       \/ MayCancel /\ status[cand[d]] = "cancelled"

\* Who writes the partial of a row.
LEMMA PartialFrom ==
  ASSUME QueueInv, Next, NEW j \in Job, partial'[j] # partial[j]
  PROVE  \/ \E d \in Drain : Claim(d) /\ cand[d] = j /\ partial'[j] = "empty"
         \/ \E d \in Drain : /\ Heartbeat(d) /\ cand[d] = j
                             /\ partial'[j] = IF wrote[d] THEN "text" ELSE "empty"
         \/ \E d \in Drain : Working(d) /\ cand[d] = j /\ partial'[j] = "null"
<1>1. partial \in [Job -> {"null", "empty", "text"}]
  BY DEF QueueInv, TypeOK
<1> USE <1>1 DEF Rows, columns
<1>2. ASSUME Environment PROVE FALSE
  BY <1>2 DEF Environment, Enqueue, Insert, ScheduleLooks, ScheduleFires, KitRunStarts,
     KitRunEnds, CancelTurn, CancelSince, GoStale, Age
<1>3. ASSUME NEW d \in Drain, DrainStep(d)
      PROVE  \/ Claim(d) /\ cand[d] = j /\ partial'[j] = "empty"
             \/ /\ Heartbeat(d) /\ cand[d] = j
                /\ partial'[j] = IF wrote[d] THEN "text" ELSE "empty"
             \/ Working(d) /\ cand[d] = j /\ partial'[j] = "null"
  <2>1. CASE Claim(d)
    BY <2>1 DEF Claim
  <2>2. CASE Heartbeat(d)
    BY <2>2 DEF Heartbeat
  <2>3. CASE CloseClear(d)
    BY <2>3 DEF CloseClear, Goto, Working
  <2>4. CASE Close(d)
    BY <2>4 DEF Close, Goto, Working
  <2>5. CASE Claiming(d) /\ ~Claim(d)
    BY <2>5 DEF Claiming, StartDrain, SkipCandidate, PickCandidate, NothingToClaim, ClaimLost
  <2>6. CASE Running(d) /\ ~CloseClear(d)
    BY <2>6 DEF Running, BeginClear, AnswerClear, BeginTurn, SaveAbsorbed, SaveOwnPartial,
       MarkOwnPartial
  <2>7. CASE Settling(d) /\ ~Close(d)
    BY <2>7 DEF Settling, EndGeneration, NoContinuation, WantContinuation, InsertContinuation,
       Insert, ContinuationLost, SaveReply, AskRoom, NextVoice, NoVoice, ReadRow
  <2>8. CASE StepWrites(d) \/ Crash(d) \/ Abandon(d) \/ GenerationFails(d)
    BY <2>8 DEF StepWrites, Crash, Abandon, GenerationFails, FailChatJob
  <2>9. ASSUME NEW k \in Job, Absorb(d, k) PROVE FALSE
    BY <2>9 DEF Absorb
  <2>10. QED
    BY <1>3, <2>1, <2>2, <2>3, <2>4, <2>5, <2>6, <2>7, <2>8, <2>9 DEF DrainStep
<1>4. ASSUME NEW r \in Reaper, ReaperStep(r) PROVE FALSE
  BY <1>4 DEF ReaperStep, StartSweep, ReapSkip, ReapClaim, ReapLose, ReapSalvage,
     ReapMark, EndSweep, ReaperDies, RestReaper
<1>5. QED
  BY <1>2, <1>3, <1>4 DEF Next

\* What a quick sweep holds against a row it read in one look at the table.
LEMMA ListedFrom ==
  ASSUME QueueInv, Beating, Next, NEW r \in Reaper, NEW j \in Job
  PROVE  \/ seen'[r][j] = "none"
         \/ seen'[r][j] = seen[r][j] /\ (j \in seenText'[r] <=> j \in seenText[r])
         \/ /\ \/ seen'[r][j] = "pending" /\ MayAge /\ status[j] = "pending"
               \/ seen'[r][j] = "old" /\ status[j] = "running" /\ j \in stale
            /\ j \in seenText'[r] <=> partial[j] = "text"
            /\ status' = status /\ partial' = partial /\ UNCHANGED drains
<1>1. /\ seen \in [Reaper -> [Job -> {"none", "pending", "fresh", "old"}]]
      /\ seenText \in [Reaper -> SUBSET Job]
  BY DEF QueueInv, TypeOK
<1> DEFINE Same == seen'[r][j] = seen[r][j] /\ (j \in seenText'[r] <=> j \in seenText[r])
<1>2. ASSUME UNCHANGED reapers PROVE Same
  BY <1>2 DEF reapers
<1>3. ASSUME Environment PROVE UNCHANGED reapers
  BY <1>3 DEF Environment, Enqueue, ScheduleLooks, ScheduleFires, KitRunStarts,
     KitRunEnds, CancelTurn, CancelSince, GoStale, Age
<1>4. CASE StartSweep(r)
  <2>1. \/ Suspicion(j) = "none"
        \/ Suspicion(j) = "pending" /\ MayAge /\ status[j] = "pending"
        \/ Suspicion(j) = "old" /\ status[j] = "running" /\ j \in stale
    BY DEF Suspicion, Beating
  <2>2. /\ seen'[r][j] = Suspicion(j)
        /\ j \in seenText'[r] <=> Suspicion(j) # "none" /\ partial[j] = "text"
    BY <1>1, <1>4 DEF StartSweep, TextListed
  <2>3. status' = status /\ partial' = partial /\ UNCHANGED drains
    BY <1>4 DEF StartSweep, Rows
  <2>4. QED
    BY <2>1, <2>2, <2>3
<1>5. ASSUME NEW q \in Reaper, ReaperStep(q), ~StartSweep(r)
      PROVE  seen'[r][j] = "none" \/ Same
  <2>1. CASE q # r
    BY <1>1, <1>5, <2>1 DEF ReaperStep, StartSweep, ReapSkip, ReapClaim, ReapLose,
       ReapSalvage, ReapMark, EndSweep, ReaperDies, RestReaper
  <2>2. CASE ReapSkip(r) \/ ReapClaim(r) \/ ReapLose(r)
    BY <1>1, <2>2 DEF ReapSkip, ReapClaim, ReapLose
  <2>3. CASE EndSweep(r) \/ ReaperDies(r)
    BY <1>1, <2>3 DEF EndSweep, ReaperDies, RestReaper
  <2>4. CASE ReapSalvage(r) \/ ReapMark(r)
    BY <2>4 DEF ReapSalvage, ReapMark
  <2>5. QED
    BY <1>5, <2>1, <2>2, <2>3, <2>4 DEF ReaperStep
<1>6. QED
  BY <1>2, <1>3, <1>4, <1>5, DrainMoves DEF Next

\* A beat gets old only behind a row that nobody works on, except after a generation,
\* and a claim renews it.
LEMMA BeatsFrom ==
  ASSUME QueueInv, Beating, Next, NEW j \in Job, j \in stale'
  PROVE  /\ j \in stale \/ (UNCHANGED drains /\ LateOn(j))
         /\ \A d \in Drain : Claim(d) => cand[d] # j
<1> USE DEF clock
<1>1. ASSUME NEW d \in Drain, Claim(d) PROVE cand[d] # j
  BY <1>1 DEF Claim
<1>2. ASSUME Environment
      PROVE  j \in stale \/ (UNCHANGED drains /\ LateOn(j))
  <2>1. ASSUME NEW i \in Job, GoStale(i)
        PROVE  j \in stale \/ (UNCHANGED drains /\ LateOn(j))
    <3>1. j \in stale \/ j = i
      BY <2>1 DEF GoStale
    <3>2. UNCHANGED drains /\ LateOn(i)
      BY <2>1 DEF GoStale, Beating, Working, LateOn, Overtaken
    <3>3. QED
      BY <3>1, <3>2
  <2>2. ASSUME NEW i \in Job, CancelTurn(i) \/ CancelSince(i) \/ Age(i) PROVE j \in stale
    BY <2>2 DEF CancelTurn, CancelSince, Age
  <2>3. ASSUME NEW t \in Thread, NEW k \in Kind, Enqueue(t, k) PROVE j \in stale
    BY <2>3 DEF Enqueue
  <2>4. ASSUME NEW t \in Thread, ScheduleLooks(t) \/ ScheduleFires(t) \/ KitRunStarts(t) \/ KitRunEnds(t)
        PROVE  j \in stale
    BY <2>4 DEF ScheduleLooks, ScheduleFires, KitRunStarts, KitRunEnds
  <2>5. QED
    BY <1>2, <2>1, <2>2, <2>3, <2>4 DEF Environment
<1>3. ASSUME NEW d \in Drain, DrainStep(d) PROVE j \in stale
  <2>1. CASE Claiming(d)
    BY <2>1 DEF Claiming, StartDrain, SkipCandidate, PickCandidate, NothingToClaim,
       Claim, ClaimLost
  <2>2. CASE Running(d)
    BY <2>2 DEF Running, BeginClear, AnswerClear, CloseClear, BeginTurn, SaveAbsorbed,
       SaveOwnPartial, MarkOwnPartial
  <2>3. CASE Settling(d)
    BY <2>3 DEF Settling, EndGeneration, NoContinuation, WantContinuation, InsertContinuation,
       ContinuationLost, SaveReply, AskRoom, NextVoice, NoVoice, ReadRow, Close
  <2>4. CASE Heartbeat(d) \/ StepWrites(d) \/ Crash(d) \/ Abandon(d) \/ GenerationFails(d)
    BY <2>4 DEF Heartbeat, StepWrites, Crash, Abandon, GenerationFails
  <2>5. ASSUME NEW k \in Job, Absorb(d, k) PROVE j \in stale
    BY <2>5 DEF Absorb
  <2>6. QED
    BY <1>3, <2>1, <2>2, <2>3, <2>4, <2>5 DEF DrainStep
<1>4. ASSUME NEW r \in Reaper, ReaperStep(r) PROVE j \in stale
  BY <1>4 DEF ReaperStep, StartSweep, ReapSkip, ReapClaim, ReapLose, ReapSalvage,
     ReapMark, EndSweep, ReaperDies, RestReaper
<1>5. QED
  BY <1>1, <1>2, <1>3, <1>4 DEF Next

\* Who moves a running or a stopped row: the drain at work on it, a reaper that
\* holds it, or whoever stops it.
LEMMA MovedBy ==
  ASSUME QueueInv, Next, NEW j \in Job, status[j] \in {"running", "cancelled"},
         status'[j] # status[j]
  PROVE  \/ \E d \in Drain : DrainStep(d) /\ Working(d) /\ cand[d] = j
         \/ \E r \in Reaper : seen[r][j] # "none" \/ (Salvaging(r) /\ rcand[r] = j)
         \/ MayCancel /\ status'[j] = "cancelled"
<1>1. status \in [Job -> Status]
  BY DEF QueueInv, TypeOK
<1>2. ASSUME NEW t, NEW k, NEW n, Insert(t, k, n) PROVE FALSE
  BY <1>2, NewRow
<1> USE DEF Rows
<1>3. CASE Environment
  <2>1. ASSUME NEW i \in Job, CancelTurn(i) \/ CancelSince(i)
        PROVE  MayCancel /\ status'[j] = "cancelled"
    BY <1>1, <2>1 DEF CancelTurn, CancelSince, Active
  <2>2. ASSUME NEW i \in Job, GoStale(i) \/ Age(i) PROVE FALSE
    BY <2>2 DEF GoStale, Age
  <2>3. ASSUME NEW t \in Thread, ScheduleLooks(t) \/ KitRunStarts(t) \/ KitRunEnds(t) PROVE FALSE
    BY <2>3 DEF ScheduleLooks, KitRunStarts, KitRunEnds
  <2>4. QED
    BY <1>2, <1>3, <2>1, <2>2, <2>3 DEF Environment, Enqueue, ScheduleFires
<1>4. ASSUME NEW d \in Drain, DrainStep(d) PROVE Working(d) /\ cand[d] = j
  <2> USE <1>1 DEF Working
  <2>1. CASE Claiming(d)
    BY <2>1 DEF Claiming, StartDrain, SkipCandidate, PickCandidate, NothingToClaim,
       Claim, ClaimLost
  <2>2. CASE Running(d) /\ ~CloseClear(d) /\ ~MarkOwnPartial(d)
    BY <2>2 DEF Running, BeginClear, AnswerClear, BeginTurn, SaveAbsorbed, SaveOwnPartial
  <2>3. CASE CloseClear(d) \/ MarkOwnPartial(d)
    BY <2>3 DEF CloseClear, MarkOwnPartial, MarkSalvaged, Goto
  <2>4. CASE InsertContinuation(d) \/ NextVoice(d)
    BY <1>2, <2>4 DEF InsertContinuation, NextVoice
  <2>5. CASE Close(d)
    BY <2>5 DEF Close, Goto
  <2>6. CASE Settling(d) /\ ~Close(d) /\ ~InsertContinuation(d) /\ ~NextVoice(d)
    BY <2>6 DEF Settling, EndGeneration, NoContinuation, WantContinuation,
       ContinuationLost, SaveReply, AskRoom, NoVoice, ReadRow
  <2>7. CASE Heartbeat(d) \/ StepWrites(d) \/ Crash(d)
    BY <2>7 DEF Heartbeat, StepWrites, Crash
  <2>8. CASE Abandon(d) \/ GenerationFails(d)
    BY <2>8, ChatQueueAssumption DEF Abandon, GenerationFails, FailChatJob, AfterGeneration
  <2>9. ASSUME NEW k \in Job, Absorb(d, k) PROVE FALSE
    <3>1. status[k] = "pending"
      BY <2>9 DEF Absorb, FollowUps, FollowUpsIn, Oldest, Pending
    <3>2. QED
      BY <2>9, <3>1 DEF Absorb
  <2>10. QED
    BY <1>4, <2>1, <2>2, <2>3, <2>4, <2>5, <2>6, <2>7, <2>8, <2>9 DEF DrainStep
<1>5. ASSUME NEW r \in Reaper, ReaperStep(r)
      PROVE  seen[r][j] # "none" \/ (Salvaging(r) /\ rcand[r] = j)
  <2>1. CASE ReapClaim(r)
    <3>1. First(Listed(r)) \in Listed(r)
      <4>1. Listed(r) \in SUBSET Job
        BY DEF Listed
      <4>2. QED
        BY <2>1, <4>1, FirstIsMember DEF ReapClaim
    <3>2. QED
      BY <1>1, <2>1, <3>1 DEF ReapClaim, Listed
  <2>2. CASE ReapMark(r)
    BY <1>1, <2>2 DEF ReapMark, MarkSalvaged, Salvaging
  <2>3. CASE ReaperStep(r) /\ ~ReapClaim(r) /\ ~ReapMark(r)
    BY <2>3 DEF ReaperStep, StartSweep, ReapSkip, ReapLose, ReapSalvage, EndSweep,
       ReaperDies, RestReaper
  <2>4. QED
    BY <1>5, <2>1, <2>2, <2>3
<1>6. QED
  BY <1>3, <1>4, <1>5 DEF Next

\* A drain leaves the status of its row alone while its turn goes on.
LEMMA TurnGoesOn ==
  ASSUME QueueInv, OneOwner, NEW d \in Drain, DrainStep(d), Conversing(d)', ~Claim(d)
  PROVE  Conversing(d) /\ status'[cand[d]] = status[cand[d]]
<1>1. pc \in [Drain -> PC] /\ status \in [Job -> Status]
  BY DEF QueueInv, TypeOK
<1>2. Working(d) /\ cand[d] \in Job /\ status[cand[d]] \notin Unclaimed
  <2>1. Working(d)
    BY DrainMoves DEF Conversing, Working
  <2>2. QED
    BY <2>1, InHand DEF OneOwner, Working
<1>3. ASSUME NEW t, NEW k, NEW n, Insert(t, k, n) PROVE status'[cand[d]] = status[cand[d]]
  BY <1>2, <1>3, NewRow DEF Unclaimed
<1> USE <1>1, <1>2 DEF Conversing, Working
<1>4. CASE Claiming(d)
  BY <1>4 DEF Claiming, StartDrain, SkipCandidate, PickCandidate, NothingToClaim, ClaimLost, Goto
<1>5. CASE Running(d)
  <2>1. CASE BeginClear(d) \/ AnswerClear(d) \/ BeginTurn(d) \/ SaveAbsorbed(d)
    BY <2>1 DEF BeginClear, AnswerClear, BeginTurn, SaveAbsorbed, Goto
  <2>2. CASE CloseClear(d) \/ SaveOwnPartial(d) \/ MarkOwnPartial(d)
    BY <2>2 DEF CloseClear, SaveOwnPartial, MarkOwnPartial, Goto
  <2>3. QED
    BY <1>5, <2>1, <2>2 DEF Running
<1>6. CASE Settling(d)
  <2>1. CASE InsertContinuation(d) \/ NextVoice(d)
    BY <1>3, <2>1 DEF InsertContinuation, NextVoice, Goto
  <2>2. CASE \/ EndGeneration(d) \/ NoContinuation(d) \/ WantContinuation(d)
             \/ ContinuationLost(d) \/ SaveReply(d) \/ AskRoom(d) \/ NoVoice(d) \/ ReadRow(d)
    BY <2>2 DEF EndGeneration, NoContinuation, WantContinuation, ContinuationLost,
       SaveReply, AskRoom, NoVoice, ReadRow, Goto
  <2>3. CASE Close(d)
    BY <2>3 DEF Close, Goto
  <2>4. QED
    BY <1>6, <2>1, <2>2, <2>3 DEF Settling
<1>7. CASE Heartbeat(d) \/ StepWrites(d)
  BY <1>7 DEF Heartbeat, StepWrites, drains
<1>8. CASE Abandon(d) \/ GenerationFails(d) \/ Crash(d)
  BY <1>8 DEF Abandon, GenerationFails, Crash
<1>9. ASSUME NEW k \in Job, Absorb(d, k)
      PROVE  Conversing(d) /\ status'[cand[d]] = status[cand[d]]
  <2>1. status[k] = "pending" /\ k # cand[d]
    BY <1>9 DEF Absorb, FollowUps, FollowUpsIn, Oldest, Pending, Unclaimed
  <2>2. QED
    BY <1>9, <2>1 DEF Absorb
<1>10. QED
  BY <1>4, <1>5, <1>6, <1>7, <1>8, <1>9 DEF DrainStep

\* Whoever works on a row owns it, or has just claimed it.
LEMMA WorkersOwn ==
  ASSUME QueueInv, OneOwner, Next, NEW d \in Drain, Working(d)'
  PROVE  /\ cand'[d] = cand[d] /\ cand[d] \in Job
         /\ \/ Working(d) /\ status[cand[d]] \notin Unclaimed
            \/ /\ Claim(d) /\ status[cand[d]] = "pending"
               /\ status'[cand[d]] = "running"
<1>1. cand'[d] = cand[d] /\ cand[d] \in Job /\ (Working(d) \/ Claim(d))
  BY WorkedRow, WorkersKnown
<1>2. Claim(d) => status[cand[d]] = "pending" /\ status'[cand[d]] = "running"
  BY <1>1 DEF Claim, QueueInv, TypeOK
<1>3. QED
  BY <1>1, <1>2 DEF OneOwner

\* After a generation a turn only gets nearer to its end.
LEMMA StaysOvertaken ==
  ASSUME QueueInv, Next, NEW d \in Drain, pc[d] \in Overtaken, Working(d)'
  PROVE  pc'[d] \in Overtaken
<1>1. pc \in [Drain -> PC]
  BY DEF QueueInv, TypeOK
<1>2. pc[d] \in AfterGeneration /\ AfterGeneration = Overtaken
  BY DEF Overtaken
<1> USE <1>1, <1>2 DEF AfterGeneration
<1>3. CASE UNCHANGED drains
  BY <1>3 DEF drains
<1>4. ASSUME NEW e \in Drain, DrainStep(e), e # d PROVE pc'[d] = pc[d]
  BY <1>4, DrainMoves
<1>5. CASE Claiming(d)
  BY <1>5 DEF Claiming, StartDrain, SkipCandidate, PickCandidate, NothingToClaim, Claim,
     ClaimLost, Goto
<1>6. CASE Running(d)
  BY <1>6 DEF Running, BeginClear, AnswerClear, CloseClear, BeginTurn, SaveAbsorbed,
     SaveOwnPartial, MarkOwnPartial, Goto
<1>7. CASE Settling(d)
  BY <1>7 DEF Settling, EndGeneration, NoContinuation, WantContinuation, InsertContinuation,
     ContinuationLost, SaveReply, AskRoom, NextVoice, NoVoice, ReadRow, Close, Goto, Working
<1>8. CASE Heartbeat(d) \/ StepWrites(d) \/ (\E k \in Job : Absorb(d, k)) \/ GenerationFails(d)
  BY <1>8 DEF Heartbeat, StepWrites, Absorb, GenerationFails, Generating
<1>9. CASE Abandon(d) \/ Crash(d)
  BY <1>9 DEF Abandon, Crash, Working
<1>10. QED
  BY <1>3, <1>4, <1>5, <1>6, <1>7, <1>8, <1>9, DrainsStand DEF Next, DrainStep

LEMMA HeldRowsStep ==
  ASSUME Beating, QueueInv, PointsKnown, OneOwner, HeldRows, Next
  PROVE  HeldRows'
<1>1. ASSUME NEW r \in Reaper, NEW j \in Job
      PROVE  /\ seen'[r][j] \in {"none", "pending", "old"}
             /\ seen'[r][j] = "pending" => j \notin seenText'[r]
  BY ListedFrom DEF HeldRows, Unclaimed
<1>2. ASSUME NEW j \in Job, status'[j] \in Unclaimed PROVE partial'[j] # "text"
  <2>1. status[j] \in Unclaimed
    BY <1>2, StaysClaimed
  <2>2. partial'[j] # partial[j] => partial'[j] # "text"
    BY <2>1, PartialFrom DEF Heartbeat, Unclaimed
  <2>3. QED
    BY <2>1, <2>2 DEF HeldRows
\* Nobody takes up a row that a reaper holds.
<1>3. ASSUME NEW j \in Job, status[j] \notin Unclaimed, LateOn(j)
      PROVE  status'[j] \notin Unclaimed /\ LateOn(j)'
  <2>1. ASSUME NEW d \in Drain, Working(d)', cand'[d] = j PROVE pc'[d] \in Overtaken
    <3>1. Working(d) /\ cand[d] = j
      BY <1>3, <2>1, WorkersOwn DEF Unclaimed
    <3>2. QED
      BY <1>3, <2>1, <3>1, StaysOvertaken DEF LateOn
  <2>2. QED
    BY <1>3, <2>1, StaysClaimed DEF LateOn
<1>4. ASSUME NEW r \in Reaper, NEW j \in Job, Held(r, j)'
      PROVE  status'[j] \notin Unclaimed /\ LateOn(j)'
  <2>1. CASE Held(r, j)
    BY <1>3, <2>1 DEF HeldRows
  <2>2. CASE seen'[r][j] = "old" /\ seen[r][j] # "old"
    <3>1. status[j] = "running" /\ j \in stale
      BY <2>2, ListedFrom
    <3>2. LateOn(j)
      BY <3>1 DEF HeldRows, LateOn
    <3>3. QED
      BY <1>3, <3>1, <3>2 DEF Unclaimed
  <2>3. CASE Salvaging(r)' /\ rcand'[r] = j /\ ~(Salvaging(r) /\ rcand[r] = j)
    <3>1. seen[r][j] # "none" /\ j \in seenText[r]
      BY <2>3, SalvagersKnown
    <3>2. Held(r, j)
      BY <3>1 DEF HeldRows, Held
    <3>3. QED
      BY <2>1, <3>2
  <2>4. QED
    BY <1>4, <2>1, <2>2, <2>3 DEF Held
<1>5. ASSUME NEW d \in Drain, Working(d)', pc'[d] \notin Overtaken,
             status'[cand'[d]] = "running", cand'[d] \in stale'
      PROVE  FALSE
  <2> DEFINE c == cand[d]
  <2>1. cand'[d] = c /\ c \in Job /\ Working(d) /\ status[c] \notin Unclaimed
    BY <1>5, WorkersOwn, BeatsFrom
  <2>2. pc[d] \notin Overtaken
    BY <1>5, StaysOvertaken
  <2>3. c \in stale
    BY <1>5, <2>1, <2>2, BeatsFrom DEF LateOn
  <2>4. status[c] # "running"
    BY <2>1, <2>2, <2>3 DEF HeldRows
  <2>5. ASSUME NEW e \in Drain, Claim(e), cand[e] = c PROVE FALSE
    BY <2>1, <2>5 DEF Claim, Unclaimed
  <2>6. QED
    BY <1>5, <2>1, <2>4, <2>5, StatusMoves DEF Over, Unclaimed
<1>6. QED
  BY <1>1, <1>2, <1>4, <1>5 DEF HeldRows

LEMMA HeldRowsAlways ==
  ASSUME Beating
  PROVE  Spec => []HeldRows
<1>1. Init => HeldRows
  BY DEF Init, HeldRows, Held, Salvaging, Working
<1>2. QueueInv /\ PointsKnown /\ OneOwner /\ HeldRows /\ [Next]_vars => HeldRows'
  <2>1. QueueInv /\ PointsKnown /\ OneOwner /\ HeldRows /\ Next => HeldRows'
    BY HeldRowsStep
  <2>2. HeldRows /\ UNCHANGED vars => HeldRows'
    BY DEF HeldRows, LateOn, Held, Salvaging, Working, vars, columns, drains, reapers, clock
  <2>3. QED
    BY <2>1, <2>2
<1>3. QED
  BY <1>1, <1>2, QueueInvariant, PointsAlways, OneOwnerAlways, PTL DEF Spec

LEMMA KeptRowsStep ==
  ASSUME Punctual, QueueInv, PointsKnown, OneOwner, HeldRows, KeptRows, Next
  PROVE  KeptRows'
<1>1. ASSUME NEW r \in Reaper, NEW j \in Job PROVE seen'[r][j] \in {"none", "old"}
  BY ListedFrom DEF KeptRows, Punctual
<1>2. ASSUME NEW d \in Drain, Conversing(d)', pc'[d] \notin Overtaken
      PROVE  \/ status'[cand'[d]] = "running"
             \/ MayCancel /\ status'[cand'[d]] = "cancelled"
  <2> DEFINE c == cand[d]
  <2>1. Working(d)'
    BY <1>2 DEF Conversing
  <2>2. CASE Claim(d)
    BY <2>1, <2>2, WorkersOwn DEF Claim, Unclaimed, OneOwner
  <2>3. CASE ~Claim(d)
    <3>1. cand'[d] = c /\ c \in Job /\ Working(d) /\ pc[d] \notin Overtaken
      BY <1>2, <2>1, <2>3, WorkersOwn, StaysOvertaken
    <3>2. CASE DrainStep(d)
      BY <1>2, <2>3, <3>1, <3>2, TurnGoesOn DEF KeptRows
    <3>3. CASE ~DrainStep(d)
      <4>1. Conversing(d)
        <5>1. pc'[d] = pc[d]
          BY <3>3, DrainMoves, DrainsStand DEF Next, drains
        <5>2. QED
          BY <1>2, <5>1 DEF Conversing, Working
      <4>2. status[c] = "running" \/ (MayCancel /\ status[c] = "cancelled")
        BY <3>1, <4>1 DEF KeptRows
      <4>3. ASSUME NEW e \in Drain, DrainStep(e), Working(e), cand[e] = c PROVE FALSE
        BY <3>1, <3>3, <4>3 DEF OneOwner
      <4>4. ASSUME NEW r \in Reaper, seen[r][c] # "none" \/ (Salvaging(r) /\ rcand[r] = c)
            PROVE  FALSE
        BY <3>1, <4>4 DEF HeldRows, KeptRows, Held, LateOn
      <4>5. status'[c] # status[c] => MayCancel /\ status'[c] = "cancelled"
        BY <3>1, <4>2, <4>3, <4>4, MovedBy
      <4>6. QED
        BY <3>1, <4>2, <4>5
    <3>4. QED
      BY <3>2, <3>3
  <2>4. QED
    BY <2>2, <2>3
<1>3. QED
  BY <1>1, <1>2 DEF KeptRows

LEMMA KeptRowsAlways ==
  ASSUME Punctual
  PROVE  Spec => []KeptRows
<1>1. Init => KeptRows
  BY DEF Init, KeptRows, Working, Conversing
<1>2. QueueInv /\ PointsKnown /\ OneOwner /\ HeldRows /\ KeptRows /\ [Next]_vars => KeptRows'
  <2>1. QueueInv /\ PointsKnown /\ OneOwner /\ HeldRows /\ KeptRows /\ Next => KeptRows'
    BY KeptRowsStep
  <2>2. KeptRows /\ UNCHANGED vars => KeptRows'
    BY DEF KeptRows, Working, Conversing, vars, columns, drains, reapers
  <2>3. QED
    BY <2>1, <2>2
<1>3. Spec => []HeldRows
  BY HeldRowsAlways DEF Punctual
<1>4. QED
  BY <1>1, <1>2, <1>3, QueueInvariant, PointsAlways, OneOwnerAlways, PTL DEF Spec

\* Where heartbeats arrive until the generation is over, sweeps are quicker than the
\* heartbeat limit and rows do not outlive the pending limit, no reaper fails the row of
\* a turn before that; nor after, if what is left is quicker than the limit as well.
THEOREM LiveTurnsKeepTheirRows ==
  ASSUME Punctual
  PROVE  Spec => []LiveTurnKeepsItsRow
<1>1. KeptRows => LiveTurnKeepsItsRow
  BY DEF KeptRows, LiveTurnKeepsItsRow, Conversing
<1>2. QED
  BY <1>1, KeptRowsAlways, PTL

------------------------------------------------------------------------------
(* Turns of a thread, whatever is late *)

\* The row of a turn at work is running, or was given up, stopped or declared dead:
\* nobody but its drain answers it, and that ends the turn.
WorkedRows == \A d \in Drain : Working(d) => status[cand[d]] \in {"running", "failed", "cancelled"}

\* Only the drain at work on a row answers it, and then it is at work no more.
LEMMA WhoAnswers ==
  ASSUME QueueInv, OneOwner, Next, NEW d \in Drain, Working(d), Working(d)',
         status[cand[d]] # "done"
  PROVE  status'[cand[d]] # "done"
<1> DEFINE c == cand[d]
<1>1. /\ status \in [Job -> Status] /\ pc \in [Drain -> PC]
      /\ c \in Job /\ status[c] \notin Unclaimed
  BY InHand DEF QueueInv, TypeOK, OneOwner, Working
<1>2. ASSUME NEW t, NEW k, NEW n, Insert(t, k, n) PROVE status'[c] = status[c]
  BY <1>1, <1>2, NewRow DEF Unclaimed
<1> USE <1>1 DEF Rows, Working
<1>3. CASE Environment
  <2>1. ASSUME NEW i \in Job, CancelTurn(i) \/ CancelSince(i) \/ GoStale(i) \/ Age(i)
        PROVE  status'[c] # "done"
    BY <2>1 DEF CancelTurn, CancelSince, GoStale, Age
  <2>2. ASSUME NEW t \in Thread, ScheduleLooks(t) \/ KitRunStarts(t) \/ KitRunEnds(t)
        PROVE  status'[c] # "done"
    BY <2>2 DEF ScheduleLooks, KitRunStarts, KitRunEnds
  <2>3. QED
    BY <1>2, <1>3, <2>1, <2>2 DEF Environment, Enqueue, ScheduleFires
<1>4. ASSUME NEW e \in Drain, DrainStep(e) PROVE status'[c] # "done"
  <2>1. CASE Claiming(e)
    BY <2>1 DEF Claiming, StartDrain, SkipCandidate, PickCandidate, NothingToClaim,
       Claim, ClaimLost
  <2>2. CASE Running(e) /\ ~CloseClear(e) /\ ~MarkOwnPartial(e)
    BY <2>2 DEF Running, BeginClear, AnswerClear, BeginTurn, SaveAbsorbed, SaveOwnPartial
  <2>3. CASE MarkOwnPartial(e)
    BY <2>3 DEF MarkOwnPartial, MarkSalvaged
  <2>4. CASE CloseClear(e) \/ Close(e)
    <3>1. e # d /\ pc[e] \in {"closing", "close"}
      BY <2>4 DEF CloseClear, Close, Goto
    <3>2. cand[e] # c
      BY <3>1 DEF OneOwner
    <3>3. QED
      BY <2>4, <3>2 DEF CloseClear, Close
  <2>5. CASE InsertContinuation(e) \/ NextVoice(e)
    BY <1>2, <2>5 DEF InsertContinuation, NextVoice
  <2>6. CASE Settling(e) /\ ~Close(e) /\ ~InsertContinuation(e) /\ ~NextVoice(e)
    BY <2>6 DEF Settling, EndGeneration, NoContinuation, WantContinuation,
       ContinuationLost, SaveReply, AskRoom, NoVoice, ReadRow
  <2>7. CASE Heartbeat(e) \/ StepWrites(e) \/ Crash(e) \/ Abandon(e) \/ GenerationFails(e)
    BY <2>7 DEF Heartbeat, StepWrites, Crash, Abandon, GenerationFails, FailChatJob
  <2>8. ASSUME NEW k \in Job, Absorb(e, k) PROVE status'[c] # "done"
    <3>1. status[k] = "pending"
      BY <2>8 DEF Absorb, FollowUps, FollowUpsIn, Oldest, Pending
    <3>2. QED
      BY <2>8, <3>1 DEF Absorb, Unclaimed
  <2>9. QED
    BY <1>4, <2>1, <2>2, <2>3, <2>4, <2>5, <2>6, <2>7, <2>8 DEF DrainStep
<1>5. ASSUME NEW r \in Reaper, ReaperStep(r) PROVE status'[c] # "done"
  BY <1>5 DEF ReaperStep, StartSweep, ReapSkip, ReapClaim, ReapLose, ReapSalvage,
     ReapMark, MarkSalvaged, EndSweep, ReaperDies, RestReaper
<1>6. QED
  BY <1>3, <1>4, <1>5 DEF Next

LEMMA WorkedRowsStep ==
  ASSUME QueueInv, PointsKnown, OneOwner, WorkedRows, Next
  PROVE  WorkedRows'
<1> SUFFICES ASSUME NEW d \in Drain, Working(d)'
             PROVE  status'[cand'[d]] \in {"running", "failed", "cancelled"}
  BY DEF WorkedRows
<1> DEFINE c == cand[d]
<1>1. cand'[d] = c /\ c \in Job
  BY WorkersOwn
<1>2. CASE Working(d)
  <2>1. status[c] \in {"running", "failed", "cancelled"}
    BY <1>2 DEF WorkedRows
  <2>2. status'[c] # "done"
    BY <1>1, <1>2, <2>1, WhoAnswers
  <2>3. QED
    BY <1>1, <2>1, <2>2, StatusMoves DEF Claim, Over
<1>3. CASE ~Working(d)
  BY <1>1, <1>3, WorkersOwn
<1>4. QED
  BY <1>2, <1>3

LEMMA WorkedRowsAlways == Spec => []WorkedRows
<1>1. Init => WorkedRows
  BY DEF Init, WorkedRows, Working
<1>2. QueueInv /\ PointsKnown /\ OneOwner /\ WorkedRows /\ [Next]_vars => WorkedRows'
  <2>1. QueueInv /\ PointsKnown /\ OneOwner /\ WorkedRows /\ Next => WorkedRows'
    BY WorkedRowsStep
  <2>2. WorkedRows /\ UNCHANGED vars => WorkedRows'
    BY DEF WorkedRows, Working, vars, drains
  <2>3. QED
    BY <2>1, <2>2
<1>3. QED
  BY <1>1, <1>2, QueueInvariant, PointsAlways, OneOwnerAlways, PTL DEF Spec

\* A drain takes up a thread while the turn of another one has still to save its reply
\* and to queue what follows it only once one of the two was given up: however long
\* they are silent, whoever dies, throws or presses Stop, and whenever a sweep looks.
THEOREM DrainsStayApart == Spec => []DrainsApart
<1>1. QueueInv /\ OneOwner /\ WorkedRows => DrainsApart
  <2> SUFFICES ASSUME QueueInv, OneOwner, WorkedRows, NEW d \in Drain, NEW e \in Drain,
                      d # e, Conversing(d), Conversing(e), thread[cand[d]] = thread[cand[e]]
               PROVE  {status[cand[d]], status[cand[e]]} \cap {"failed", "cancelled"} # {}
    BY DEF DrainsApart
  <2>1. Working(d) /\ Working(e)
    BY DEF Conversing
  <2>2. cand[d] \in Job /\ cand[e] \in Job
    BY <2>1, InHand DEF Working
  <2>3. cand[d] # cand[e]
    BY <2>1 DEF OneOwner
  <2>4. ~(status[cand[d]] = "running" /\ status[cand[e]] = "running")
    BY <2>2, <2>3 DEF QueueInv, OneRunningPerThread
  <2>5. QED
    BY <2>1, <2>4 DEF WorkedRows
<1>2. QED
  BY <1>1, QueueInvariant, OneOwnerAlways, WorkedRowsAlways, PTL

==============================================================================
