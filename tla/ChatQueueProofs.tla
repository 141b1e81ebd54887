-------------------------- MODULE ChatQueueProofs --------------------------
(***************************************************************************)
(* The safety of ChatQueue for any number of threads, drains, reapers and  *)
(* rows: QueueInv is inductive, hence TypeOK and OneRunningPerThread hold, *)
(* and every step of the queue is a step of SerialTurns or leaves its      *)
(* turns alone.                                                            *)
(*                                                                         *)
(* Two facts carry the argument.  Rows that close, by whoever's hand, can  *)
(* only make a thread quieter (ClosingRows), and a new row is nobody's     *)
(* candidate (InsertingRow); what is left is PickCandidate, which looks at *)
(* the siblings, and Claim, which relies on that look although it is old.  *)
(***************************************************************************)
EXTENDS ChatQueue, TLAPS, WellFoundedInduction

\* A set of rows that is not empty has an oldest one, which First returns.
LEMMA FirstIsMember ==
  ASSUME NEW S \in SUBSET Job, S # {}
  PROVE  First(S) \in S
<1>1. S \subseteq Nat
  BY ChatQueueAssumption DEF Job
<1>2. PICK x \in S : \A y \in S : <<y, x>> \notin OpToRel(<, Nat)
  BY <1>1, WFMin, NatLessThanWellFounded, Zenon
<1>3. ASSUME NEW y \in S PROVE ~ (y < x)
  <2>1. x \in Nat /\ y \in Nat
    BY <1>1, Zenon
  <2>2. QED
    BY <2>1, <1>2, Zenon DEF OpToRel
<1>4. \A y \in S : x <= y
  <2>1. SUFFICES ASSUME NEW y \in S PROVE x <= y
    OBVIOUS
  <2>2. x \in Nat /\ y \in Nat
    BY <1>1
  <2>3. QED
    BY <2>2, <1>3
<1>5. QED
  BY <1>4 DEF First

\* The invariant holds of the empty table.
LEMMA QueueStarts == Init => QueueInv
  BY ChatQueueAssumption DEF Init, QueueInv, TypeOK, RowsInHand, SalvageIsPosted,
     ClaimersAlone, OneRunningPerThread, Job, NoJob, Kind, Status, Result, PC, Bubble

\* A drain past its look holds a row of the table.
LEMMA InHand ==
  ASSUME QueueInv, NEW d \in Drain, pc[d] \notin {"idle", "scan"}
  PROVE  /\ cand[d] \in Job /\ cand[d] \in 1..created
         /\ status[cand[d]] # "none"
  BY ChatQueueAssumption DEF QueueInv, RowsInHand, TypeOK, Job

\* So does a reaper that has text to save.
LEMMA InReach ==
  ASSUME QueueInv, NEW r \in Reaper, rpc[r] \in {"salvage", "mark"}
  PROVE  rcand[r] \in Job
  BY DEF QueueInv, RowsInHand

\* A step that opens no row and sends no drain to its claim cannot disturb what
\* ClaimersAlone and OneRunningPerThread say.
LEMMA ClosingRows ==
  ASSUME QueueInv,
         thread' = thread,
         \A j \in Job : status'[j] \in Open => status'[j] = status[j],
         \A d \in Drain : pc'[d] = "claim" => pc[d] = "claim" /\ cand'[d] = cand[d]
  PROVE  ClaimersAlone' /\ OneRunningPerThread'
<1>1. \A d \in Drain : pc[d] = "claim" => cand[d] \in Job
  BY InHand
<1>2. ClaimersAlone'
  BY <1>1 DEF QueueInv, ClaimersAlone, Open
<1>3. OneRunningPerThread'
  BY DEF QueueInv, OneRunningPerThread, Open
<1>4. QED
  BY <1>2, <1>3

\* An insert fills the columns of one more row.
LEMMA InsertTypes ==
  ASSUME QueueInv, NEW t \in Thread, NEW k \in Kind, NEW n \in Nat, Insert(t, k, n)
  PROVE  /\ created' \in 0..MaxJobs /\ created + 1 \in Job
         /\ thread' \in [Job -> Thread] /\ kind' \in [Job -> Kind]
         /\ depth' \in [Job -> Nat] /\ status' \in [Job -> Status]
         /\ partial' = partial /\ result' = result
<1>1. created' \in 0..MaxJobs /\ created + 1 \in Job
  BY ChatQueueAssumption DEF QueueInv, TypeOK, Insert, Job
<1>2. QED
  BY <1>1 DEF QueueInv, TypeOK, Insert, Status

\* The mark of a salvage writes two columns of its row, or nothing.
LEMMA MarkedTypes ==
  ASSUME QueueInv, NEW j \in Job, NEW by \in Result, MarkSalvaged(j, by)
  PROVE  status' \in [Job -> Status] /\ result' \in [Job -> Result]
<1>1. status \in [Job -> Status] /\ result \in [Job -> Result]
  BY DEF QueueInv, TypeOK
<1>2. CASE status[j] \in Open \cup {"failed"}
  BY <1>1, <1>2 DEF MarkSalvaged, Status
<1>3. CASE status[j] \notin Open \cup {"failed"}
  BY <1>1, <1>3 DEF MarkSalvaged
<1>4. QED
  BY <1>2, <1>3

\* Neither can the insert of a pending row: it is not running, and no drain has
\* it in hand.
LEMMA InsertingRow ==
  ASSUME QueueInv, NEW t, NEW k, NEW n, Insert(t, k, n),
         \A d \in Drain : pc'[d] = "claim" => pc[d] = "claim" /\ cand'[d] = cand[d]
  PROVE  ClaimersAlone' /\ OneRunningPerThread'
<1>1. \A d \in Drain : pc[d] = "claim" => cand[d] \in Job /\ cand[d] <= created
  <2>1. ASSUME NEW d \in Drain, pc[d] = "claim" PROVE cand[d] \in Job /\ cand[d] \in 1..created
    BY <2>1, InHand
  <2>2. created \in Nat
    BY ChatQueueAssumption DEF QueueInv, TypeOK
  <2>3. QED
    BY <2>1, <2>2
<1>2. created \in Nat /\ created + 1 \in Job
  BY ChatQueueAssumption DEF QueueInv, TypeOK, Insert, Job
<1>3. \A j \in Job : j # created + 1 => status'[j] = status[j] /\ thread'[j] = thread[j]
  BY DEF QueueInv, TypeOK, Insert
<1>4. status'[created + 1] = "pending"
  BY <1>2 DEF QueueInv, TypeOK, Insert
<1>5. ClaimersAlone'
  BY <1>1, <1>2, <1>3, <1>4 DEF QueueInv, ClaimersAlone, Job
<1>6. OneRunningPerThread'
  BY <1>2, <1>3, <1>4 DEF QueueInv, OneRunningPerThread
<1>7. QED
  BY <1>5, <1>6

\* The drain on its way to a row.
LEMMA ClaimingKeeps ==
  ASSUME QueueInv, NEW d \in Drain, Claiming(d)
  PROVE  QueueInv'
<1> USE ChatQueueAssumption DEF columns, clock, transcript, drains, reapers, outside, Rows,
           Status, Open, Result, Bubble, PC, Kind

<1>1. CASE StartDrain(d)
  <2>1. TypeOK' /\ RowsInHand' /\ SalvageIsPosted'
    <3>1. TypeOK'
      BY <1>1 DEF QueueInv, TypeOK, Job, NoJob,
         StartDrain, Goto, AllPending, Oldest
    <3>2. RowsInHand'
      BY <1>1 DEF QueueInv, TypeOK, RowsInHand, Job, NoJob,
         StartDrain, Goto, AllPending, Oldest
    <3>3. SalvageIsPosted'
      BY <1>1 DEF QueueInv, TypeOK, RowsInHand, SalvageIsPosted, Job, NoJob,
         StartDrain, Goto, AllPending, Oldest
    <3>4. QED
      BY <3>1, <3>2, <3>3
  <2>2. ClaimersAlone' /\ OneRunningPerThread'
    BY <1>1, ClosingRows DEF QueueInv, TypeOK, StartDrain, Goto, AllPending, Oldest
  <2>3. QED
    BY <2>1, <2>2 DEF QueueInv
<1>2. CASE SkipCandidate(d)
  <2>1. First(todo[d]) \in todo[d] /\ First(todo[d]) \in Job
    BY <1>2, FirstIsMember DEF QueueInv, TypeOK, RowsInHand, SkipCandidate, Goto
  <2>2. TypeOK'
    BY <1>2, <2>1 DEF QueueInv, TypeOK, Job, NoJob, SkipCandidate, Goto
  <2>3. RowsInHand'
    BY <1>2, <2>1 DEF QueueInv, TypeOK, RowsInHand, Job, NoJob, SkipCandidate, Goto
  <2>4. SalvageIsPosted'
    BY <1>2, <2>1 DEF QueueInv, TypeOK, RowsInHand, SalvageIsPosted, Job, NoJob, SkipCandidate, Goto
  <2>5. ClaimersAlone' /\ OneRunningPerThread'
    BY <1>2, ClosingRows DEF QueueInv, TypeOK, SkipCandidate, Goto
  <2>6. QED
    BY <2>2, <2>3, <2>4, <2>5 DEF QueueInv
<1>3. CASE PickCandidate(d)
  <2>1. First(todo[d]) \in todo[d] /\ First(todo[d]) \in Job
    BY <1>3, FirstIsMember DEF QueueInv, TypeOK, RowsInHand, PickCandidate, Goto
  <2>2. TypeOK'
    BY <1>3, <2>1 DEF QueueInv, TypeOK, Job, NoJob, PickCandidate, Goto
  <2>3. RowsInHand'
    BY <1>3, <2>1 DEF QueueInv, TypeOK, RowsInHand, Job, NoJob, PickCandidate, Goto
  <2>4. SalvageIsPosted'
    BY <1>3, <2>1 DEF QueueInv, TypeOK, RowsInHand, SalvageIsPosted, Job, NoJob, PickCandidate, Goto
  <2>5. ClaimersAlone' /\ OneRunningPerThread'
    <3> DEFINE j == First(todo[d])
    <3>1. /\ pc' = [pc EXCEPT ![d] = "claim"] /\ cand' = [cand EXCEPT ![d] = j]
          /\ thread' = thread /\ status' = status /\ j \in Job
      BY <1>3, <2>1 DEF PickCandidate, Goto
    <3>2. \A i \in Job : thread[i] = thread[j] /\ status[i] \in {"pending", "running"} => i = j
      BY <1>3, <3>1 DEF PickCandidate, Startable, Busy, Active
    <3>3. \A e \in Drain : pc[e] = "claim" => cand[e] \in Job
      BY InHand
    <3> HIDE DEF j
    <3>4. ClaimersAlone'
      BY <3>1, <3>2, <3>3 DEF QueueInv, TypeOK, ClaimersAlone
    <3>5. QED
      BY <3>1, <3>4 DEF QueueInv, OneRunningPerThread
  <2>6. QED
    BY <2>2, <2>3, <2>4, <2>5 DEF QueueInv
<1>4. CASE NothingToClaim(d)
  <2>1. TypeOK' /\ RowsInHand' /\ SalvageIsPosted'
    <3>1. TypeOK'
      BY <1>4 DEF QueueInv, TypeOK, Job, NoJob,
         NothingToClaim, Goto
    <3>2. RowsInHand'
      BY <1>4 DEF QueueInv, TypeOK, RowsInHand, Job, NoJob,
         NothingToClaim, Goto
    <3>3. SalvageIsPosted'
      BY <1>4 DEF QueueInv, TypeOK, RowsInHand, SalvageIsPosted, Job, NoJob,
         NothingToClaim, Goto
    <3>4. QED
      BY <3>1, <3>2, <3>3
  <2>2. ClaimersAlone' /\ OneRunningPerThread'
    BY <1>4, ClosingRows DEF QueueInv, TypeOK, NothingToClaim, Goto
  <2>3. QED
    BY <2>1, <2>2 DEF QueueInv
<1>5. CASE Claim(d)
  <2>1. cand[d] \in Job /\ cand[d] \in 1..created /\ status[cand[d]] # "none"
    BY <1>5, InHand DEF Generating, Claim, Goto
  <2>2. TypeOK'
    BY <1>5, <2>1 DEF QueueInv, TypeOK, Job, NoJob, Claim, Goto
  <2>3. RowsInHand'
    BY <1>5, <2>1 DEF QueueInv, TypeOK, RowsInHand, Job, NoJob, Claim, Goto
  <2>4. SalvageIsPosted'
    BY <1>5, <2>1 DEF QueueInv, TypeOK, RowsInHand, SalvageIsPosted, Job, NoJob, Claim, Goto
  <2>5. ClaimersAlone' /\ OneRunningPerThread'
    <3>1. /\ pc[d] = "claim" /\ pc' = [pc EXCEPT ![d] = "validate"] /\ status[cand[d]] = "pending"
          /\ status' = [status EXCEPT ![cand[d]] = "running"]
          /\ thread' = thread /\ cand' = cand
      BY <1>5 DEF Claim, Goto
    <3>2. \A e \in Drain : pc[e] = "claim" => cand[e] \in Job
      BY InHand
    <3>3. ClaimersAlone'
      BY <2>1, <3>1, <3>2 DEF QueueInv, TypeOK, ClaimersAlone
    <3>4. OneRunningPerThread'
      BY <2>1, <3>1 DEF QueueInv, TypeOK, ClaimersAlone, OneRunningPerThread
    <3>5. QED
      BY <3>3, <3>4
  <2>6. QED
    BY <2>2, <2>3, <2>4, <2>5 DEF QueueInv
<1>6. CASE ClaimLost(d)
  <2>1. TypeOK' /\ RowsInHand' /\ SalvageIsPosted'
    <3>1. TypeOK'
      BY <1>6 DEF QueueInv, TypeOK, Job, NoJob,
         ClaimLost, Goto
    <3>2. RowsInHand'
      BY <1>6 DEF QueueInv, TypeOK, RowsInHand, Job, NoJob,
         ClaimLost, Goto
    <3>3. SalvageIsPosted'
      BY <1>6 DEF QueueInv, TypeOK, RowsInHand, SalvageIsPosted, Job, NoJob,
         ClaimLost, Goto
    <3>4. QED
      BY <3>1, <3>2, <3>3
  <2>2. ClaimersAlone' /\ OneRunningPerThread'
    BY <1>6, ClosingRows DEF QueueInv, TypeOK, ClaimLost, Goto
  <2>3. QED
    BY <2>1, <2>2 DEF QueueInv
<1> QED
  BY <1>1, <1>2, <1>3, <1>4, <1>5, <1>6 DEF Claiming

\* A claimed turn up to the end of its generation.
LEMMA RunningKeeps ==
  ASSUME QueueInv, NEW d \in Drain, Running(d)
  PROVE  QueueInv'
<1> USE ChatQueueAssumption DEF columns, clock, transcript, drains, reapers, outside, Rows,
           Status, Open, Result, Bubble, PC, Kind

<1>1. CASE BeginClear(d)
  <2>1. TypeOK' /\ RowsInHand' /\ SalvageIsPosted'
    <3>1. TypeOK'
      BY <1>1 DEF QueueInv, TypeOK, Job, NoJob,
         BeginClear, Goto
    <3>2. RowsInHand'
      BY <1>1 DEF QueueInv, TypeOK, RowsInHand, Job, NoJob,
         BeginClear, Goto
    <3>3. SalvageIsPosted'
      BY <1>1 DEF QueueInv, TypeOK, RowsInHand, SalvageIsPosted, Job, NoJob,
         BeginClear, Goto
    <3>4. QED
      BY <3>1, <3>2, <3>3
  <2>2. ClaimersAlone' /\ OneRunningPerThread'
    BY <1>1, ClosingRows DEF QueueInv, TypeOK, BeginClear, Goto
  <2>3. QED
    BY <2>1, <2>2 DEF QueueInv
<1>2. CASE AnswerClear(d)
  <2>1. cand[d] \in Job /\ cand[d] \in 1..created /\ status[cand[d]] # "none"
    BY <1>2, InHand DEF Generating, AnswerClear
  <2>2. posted' \subseteq Job \X Bubble /\ superseded' \subseteq posted' /\ posted \subseteq posted'
    BY <1>2, <2>1 DEF QueueInv, TypeOK, AnswerClear
  <2>3. TypeOK'
    BY <1>2, <2>1, <2>2 DEF QueueInv, TypeOK, Job, NoJob, AnswerClear
  <2>4. RowsInHand'
    BY <1>2, <2>1, <2>2 DEF QueueInv, TypeOK, RowsInHand, Job, NoJob, AnswerClear
  <2>5. SalvageIsPosted'
    BY <1>2, <2>1, <2>2 DEF QueueInv, TypeOK, RowsInHand, SalvageIsPosted, Job, NoJob, AnswerClear
  <2>6. ClaimersAlone' /\ OneRunningPerThread'
    BY <1>2, ClosingRows DEF QueueInv, TypeOK, AnswerClear
  <2>7. QED
    BY <2>3, <2>4, <2>5, <2>6 DEF QueueInv
<1>3. CASE CloseClear(d)
  <2>1. cand[d] \in Job /\ cand[d] \in 1..created /\ status[cand[d]] # "none"
    BY <1>3, InHand DEF Generating, CloseClear, Goto, Release
  <2>2. TypeOK'
    BY <1>3, <2>1 DEF QueueInv, TypeOK, Job, NoJob, CloseClear, Goto, Release
  <2>3. RowsInHand'
    BY <1>3, <2>1 DEF QueueInv, TypeOK, RowsInHand, Job, NoJob, CloseClear, Goto, Release
  <2>4. SalvageIsPosted'
    BY <1>3, <2>1 DEF QueueInv, TypeOK, RowsInHand, SalvageIsPosted, Job, NoJob, CloseClear, Goto, Release
  <2>5. ClaimersAlone' /\ OneRunningPerThread'
    BY <1>3, ClosingRows DEF QueueInv, TypeOK, CloseClear, Goto, Release
  <2>6. QED
    BY <2>2, <2>3, <2>4, <2>5 DEF QueueInv
<1>4. CASE BeginTurn(d)
  <2>1. cand[d] \in Job /\ cand[d] \in 1..created /\ status[cand[d]] # "none"
    BY <1>4, InHand DEF Generating, BeginTurn, Goto
  <2>2. posted' \subseteq Job \X Bubble /\ superseded' \subseteq posted' /\ posted \subseteq posted'
    BY <1>4, <2>1 DEF QueueInv, TypeOK, BeginTurn, Goto
  <2>3. TypeOK'
    BY <1>4, <2>1, <2>2 DEF QueueInv, TypeOK, Job, NoJob, BeginTurn, Goto
  <2>4. RowsInHand'
    BY <1>4, <2>1, <2>2 DEF QueueInv, TypeOK, RowsInHand, Job, NoJob, BeginTurn, Goto
  <2>5. SalvageIsPosted'
    BY <1>4, <2>1, <2>2 DEF QueueInv, TypeOK, RowsInHand, SalvageIsPosted, Job, NoJob, BeginTurn, Goto
  <2>6. ClaimersAlone' /\ OneRunningPerThread'
    BY <1>4, ClosingRows DEF QueueInv, TypeOK, BeginTurn, Goto
  <2>7. QED
    BY <2>3, <2>4, <2>5, <2>6 DEF QueueInv
<1>5. CASE SaveAbsorbed(d)
  <2>1. cand[d] \in Job /\ cand[d] \in 1..created /\ status[cand[d]] # "none"
    BY <1>5, InHand DEF Generating, SaveAbsorbed
  <2>2. First(taken[d]) \in taken[d] /\ First(taken[d]) \in Job
    BY <1>5, FirstIsMember DEF QueueInv, TypeOK, RowsInHand, SaveAbsorbed
  <2>3. posted' \subseteq Job \X Bubble /\ superseded' \subseteq posted' /\ posted \subseteq posted'
    BY <1>5, <2>1, <2>2 DEF QueueInv, TypeOK, SaveAbsorbed
  <2>4. TypeOK'
    BY <1>5, <2>1, <2>2, <2>3 DEF QueueInv, TypeOK, Job, NoJob, SaveAbsorbed
  <2>5. RowsInHand'
    BY <1>5, <2>1, <2>2, <2>3 DEF QueueInv, TypeOK, RowsInHand, Job, NoJob, SaveAbsorbed
  <2>6. SalvageIsPosted'
    BY <1>5, <2>1, <2>2, <2>3 DEF QueueInv, TypeOK, RowsInHand, SalvageIsPosted, Job, NoJob, SaveAbsorbed
  <2>7. ClaimersAlone' /\ OneRunningPerThread'
    BY <1>5, ClosingRows DEF QueueInv, TypeOK, SaveAbsorbed
  <2>8. QED
    BY <2>4, <2>5, <2>6, <2>7 DEF QueueInv
<1>6. CASE SaveOwnPartial(d)
  <2>1. cand[d] \in Job /\ cand[d] \in 1..created /\ status[cand[d]] # "none"
    BY <1>6, InHand DEF Generating, SaveOwnPartial, Goto
  <2>2. posted' \subseteq Job \X Bubble /\ superseded' \subseteq posted' /\ posted \subseteq posted'
    BY <1>6, <2>1 DEF QueueInv, TypeOK, SaveOwnPartial, Goto
  <2>3. TypeOK'
    BY <1>6, <2>1, <2>2 DEF QueueInv, TypeOK, Job, NoJob, SaveOwnPartial, Goto
  <2>4. RowsInHand'
    BY <1>6, <2>1, <2>2 DEF QueueInv, TypeOK, RowsInHand, Job, NoJob, SaveOwnPartial, Goto
  <2>5. SalvageIsPosted'
    BY <1>6, <2>1, <2>2 DEF QueueInv, TypeOK, RowsInHand, SalvageIsPosted, Job, NoJob, SaveOwnPartial, Goto
  <2>6. ClaimersAlone' /\ OneRunningPerThread'
    BY <1>6, ClosingRows DEF QueueInv, TypeOK, SaveOwnPartial, Goto
  <2>7. QED
    BY <2>3, <2>4, <2>5, <2>6 DEF QueueInv
<1>7. CASE MarkOwnPartial(d)
  <2>1. cand[d] \in Job /\ cand[d] \in 1..created /\ status[cand[d]] # "none"
    BY <1>7, InHand DEF Generating, MarkOwnPartial, Goto, Release, MarkSalvaged
  <2>2. TypeOK'
    <3>1. status' \in [Job -> Status] /\ result' \in [Job -> Result]
      BY <1>7, <2>1, MarkedTypes DEF MarkOwnPartial
    <3>2. QED
      BY <1>7, <3>1 DEF QueueInv, TypeOK, NoJob, MarkOwnPartial, Goto, Release
  <2>3. RowsInHand'
    BY <1>7, <2>1 DEF QueueInv, TypeOK, RowsInHand, Job, NoJob, MarkOwnPartial, Goto, Release, MarkSalvaged
  <2>4. SalvageIsPosted'
    <3>1. "runner" \notin Reaper
      OBVIOUS
    <3>2. \A j \in Job : result'[j] = result[j] \/ result'[j] = "runner"
      BY <1>7, <2>1 DEF QueueInv, TypeOK, MarkOwnPartial, MarkSalvaged
    <3>3. QED
      BY <1>7, <2>1, <3>1, <3>2 DEF QueueInv, TypeOK, SalvageIsPosted, MarkOwnPartial
  <2>5. ClaimersAlone' /\ OneRunningPerThread'
    BY <1>7, ClosingRows DEF QueueInv, TypeOK, MarkOwnPartial, Goto, Release, MarkSalvaged
  <2>6. QED
    BY <2>2, <2>3, <2>4, <2>5 DEF QueueInv
<1> QED
  BY <1>1, <1>2, <1>3, <1>4, <1>5, <1>6, <1>7 DEF Running

\* A turn that generated, down to the close of its row.
LEMMA SettlingKeeps ==
  ASSUME QueueInv, NEW d \in Drain, Settling(d)
  PROVE  QueueInv'
<1> USE ChatQueueAssumption DEF columns, clock, transcript, drains, reapers, outside, Rows,
           Status, Open, Result, Bubble, PC, Kind

<1>1. CASE EndGeneration(d)
  <2>1. TypeOK' /\ RowsInHand' /\ SalvageIsPosted'
    <3>1. TypeOK'
      BY <1>1 DEF QueueInv, TypeOK, Job, NoJob,
         EndGeneration, Goto
    <3>2. RowsInHand'
      BY <1>1 DEF QueueInv, TypeOK, RowsInHand, Job, NoJob,
         EndGeneration, Goto
    <3>3. SalvageIsPosted'
      BY <1>1 DEF QueueInv, TypeOK, RowsInHand, SalvageIsPosted, Job, NoJob,
         EndGeneration, Goto
    <3>4. QED
      BY <3>1, <3>2, <3>3
  <2>2. ClaimersAlone' /\ OneRunningPerThread'
    BY <1>1, ClosingRows DEF QueueInv, TypeOK, EndGeneration, Goto
  <2>3. QED
    BY <2>1, <2>2 DEF QueueInv
<1>2. CASE NoContinuation(d)
  <2>1. TypeOK' /\ RowsInHand' /\ SalvageIsPosted'
    <3>1. TypeOK'
      BY <1>2 DEF QueueInv, TypeOK, Job, NoJob,
         NoContinuation, Goto
    <3>2. RowsInHand'
      BY <1>2 DEF QueueInv, TypeOK, RowsInHand, Job, NoJob,
         NoContinuation, Goto
    <3>3. SalvageIsPosted'
      BY <1>2 DEF QueueInv, TypeOK, RowsInHand, SalvageIsPosted, Job, NoJob,
         NoContinuation, Goto
    <3>4. QED
      BY <3>1, <3>2, <3>3
  <2>2. ClaimersAlone' /\ OneRunningPerThread'
    BY <1>2, ClosingRows DEF QueueInv, TypeOK, NoContinuation, Goto
  <2>3. QED
    BY <2>1, <2>2 DEF QueueInv
<1>3. CASE WantContinuation(d)
  <2>1. TypeOK' /\ RowsInHand' /\ SalvageIsPosted'
    <3>1. TypeOK'
      BY <1>3 DEF QueueInv, TypeOK, Job, NoJob,
         WantContinuation, Goto
    <3>2. RowsInHand'
      BY <1>3 DEF QueueInv, TypeOK, RowsInHand, Job, NoJob,
         WantContinuation, Goto
    <3>3. SalvageIsPosted'
      BY <1>3 DEF QueueInv, TypeOK, RowsInHand, SalvageIsPosted, Job, NoJob,
         WantContinuation, Goto
    <3>4. QED
      BY <3>1, <3>2, <3>3
  <2>2. ClaimersAlone' /\ OneRunningPerThread'
    BY <1>3, ClosingRows DEF QueueInv, TypeOK, WantContinuation, Goto
  <2>3. QED
    BY <2>1, <2>2 DEF QueueInv
<1>4. CASE InsertContinuation(d)
  <2>1. cand[d] \in Job /\ cand[d] \in 1..created /\ status[cand[d]] # "none"
    BY <1>4, InHand DEF Generating, InsertContinuation, Goto, Insert
  <2>2. TypeOK'
    <3>1. depth[cand[d]] + 1 \in Nat /\ thread[cand[d]] \in Thread
      BY <2>1 DEF QueueInv, TypeOK
    <3>2. /\ created' \in 0..MaxJobs /\ thread' \in [Job -> Thread] /\ kind' \in [Job -> Kind]
          /\ depth' \in [Job -> Nat] /\ status' \in [Job -> Status]
          /\ partial' = partial /\ result' = result
      BY <1>4, <3>1, InsertTypes DEF InsertContinuation
    <3>3. QED
      BY <1>4, <3>2 DEF QueueInv, TypeOK, InsertContinuation, Goto
  <2>3. RowsInHand'
    BY <1>4, <2>1 DEF QueueInv, TypeOK, RowsInHand, Job, NoJob, InsertContinuation, Goto, Insert
  <2>4. SalvageIsPosted'
    BY <1>4, <2>1 DEF QueueInv, TypeOK, RowsInHand, SalvageIsPosted, Job, NoJob, InsertContinuation, Goto, Insert
  <2>5. ClaimersAlone' /\ OneRunningPerThread'
    BY <1>4, InsertingRow DEF QueueInv, TypeOK, InsertContinuation, Goto, Insert
  <2>6. QED
    BY <2>2, <2>3, <2>4, <2>5 DEF QueueInv
<1>5. CASE ContinuationLost(d)
  <2>1. TypeOK' /\ RowsInHand' /\ SalvageIsPosted'
    <3>1. TypeOK'
      BY <1>5 DEF QueueInv, TypeOK, Job, NoJob,
         ContinuationLost, Goto
    <3>2. RowsInHand'
      BY <1>5 DEF QueueInv, TypeOK, RowsInHand, Job, NoJob,
         ContinuationLost, Goto
    <3>3. SalvageIsPosted'
      BY <1>5 DEF QueueInv, TypeOK, RowsInHand, SalvageIsPosted, Job, NoJob,
         ContinuationLost, Goto
    <3>4. QED
      BY <3>1, <3>2, <3>3
  <2>2. ClaimersAlone' /\ OneRunningPerThread'
    BY <1>5, ClosingRows DEF QueueInv, TypeOK, ContinuationLost, Goto
  <2>3. QED
    BY <2>1, <2>2 DEF QueueInv
<1>6. CASE SaveReply(d)
  <2>1. cand[d] \in Job /\ cand[d] \in 1..created /\ status[cand[d]] # "none"
    BY <1>6, InHand DEF Generating, SaveReply, Goto
  <2>2. posted' \subseteq Job \X Bubble /\ superseded' \subseteq posted' /\ posted \subseteq posted'
    BY <1>6, <2>1 DEF QueueInv, TypeOK, SaveReply, Goto
  <2>3. TypeOK'
    BY <1>6, <2>1, <2>2 DEF QueueInv, TypeOK, Job, NoJob, SaveReply, Goto
  <2>4. RowsInHand'
    BY <1>6, <2>1, <2>2 DEF QueueInv, TypeOK, RowsInHand, Job, NoJob, SaveReply, Goto
  <2>5. SalvageIsPosted'
    BY <1>6, <2>1, <2>2 DEF QueueInv, TypeOK, RowsInHand, SalvageIsPosted, Job, NoJob, SaveReply, Goto
  <2>6. ClaimersAlone' /\ OneRunningPerThread'
    BY <1>6, ClosingRows DEF QueueInv, TypeOK, SaveReply, Goto
  <2>7. QED
    BY <2>3, <2>4, <2>5, <2>6 DEF QueueInv
<1>7. CASE AskRoom(d)
  <2>1. cand[d] \in Job /\ cand[d] \in 1..created /\ status[cand[d]] # "none"
    BY <1>7, InHand DEF Generating, AskRoom, Goto
  <2>2. TypeOK'
    BY <1>7, <2>1 DEF QueueInv, TypeOK, Job, NoJob, AskRoom, Goto
  <2>3. RowsInHand'
    BY <1>7, <2>1 DEF QueueInv, TypeOK, RowsInHand, Job, NoJob, AskRoom, Goto
  <2>4. SalvageIsPosted'
    BY <1>7, <2>1 DEF QueueInv, TypeOK, RowsInHand, SalvageIsPosted, Job, NoJob, AskRoom, Goto
  <2>5. ClaimersAlone' /\ OneRunningPerThread'
    BY <1>7, ClosingRows DEF QueueInv, TypeOK, AskRoom, Goto
  <2>6. QED
    BY <2>2, <2>3, <2>4, <2>5 DEF QueueInv
<1>8. CASE NextVoice(d)
  <2>1. cand[d] \in Job /\ cand[d] \in 1..created /\ status[cand[d]] # "none"
    BY <1>8, InHand DEF Generating, NextVoice, Goto, Insert
  <2>2. TypeOK'
    <3>1. thread[cand[d]] \in Thread
      BY <2>1 DEF QueueInv, TypeOK
    <3>2. /\ created' \in 0..MaxJobs /\ thread' \in [Job -> Thread] /\ kind' \in [Job -> Kind]
          /\ depth' \in [Job -> Nat] /\ status' \in [Job -> Status]
          /\ partial' = partial /\ result' = result
      BY <1>8, <3>1, InsertTypes DEF NextVoice
    <3>3. QED
      BY <1>8, <3>2 DEF QueueInv, TypeOK, NextVoice, Goto
  <2>3. RowsInHand'
    BY <1>8, <2>1 DEF QueueInv, TypeOK, RowsInHand, Job, NoJob, NextVoice, Goto, Insert
  <2>4. SalvageIsPosted'
    BY <1>8, <2>1 DEF QueueInv, TypeOK, RowsInHand, SalvageIsPosted, Job, NoJob, NextVoice, Goto, Insert
  <2>5. ClaimersAlone' /\ OneRunningPerThread'
    BY <1>8, InsertingRow DEF QueueInv, TypeOK, NextVoice, Goto, Insert
  <2>6. QED
    BY <2>2, <2>3, <2>4, <2>5 DEF QueueInv
<1>9. CASE NoVoice(d)
  <2>1. TypeOK' /\ RowsInHand' /\ SalvageIsPosted'
    <3>1. TypeOK'
      BY <1>9 DEF QueueInv, TypeOK, Job, NoJob,
         NoVoice, Goto
    <3>2. RowsInHand'
      BY <1>9 DEF QueueInv, TypeOK, RowsInHand, Job, NoJob,
         NoVoice, Goto
    <3>3. SalvageIsPosted'
      BY <1>9 DEF QueueInv, TypeOK, RowsInHand, SalvageIsPosted, Job, NoJob,
         NoVoice, Goto
    <3>4. QED
      BY <3>1, <3>2, <3>3
  <2>2. ClaimersAlone' /\ OneRunningPerThread'
    BY <1>9, ClosingRows DEF QueueInv, TypeOK, NoVoice, Goto
  <2>3. QED
    BY <2>1, <2>2 DEF QueueInv
<1>10. CASE ReadRow(d)
  <2>1. cand[d] \in Job /\ cand[d] \in 1..created /\ status[cand[d]] # "none"
    BY <1>10, InHand DEF Generating, ReadRow, Goto, Doubled
  <2>2. posted' \subseteq Job \X Bubble /\ superseded' \subseteq posted' /\ posted \subseteq posted'
    BY <1>10, <2>1 DEF QueueInv, TypeOK, SalvageIsPosted, ReadRow, Goto, Doubled
  <2>3. TypeOK'
    BY <1>10, <2>1, <2>2 DEF QueueInv, TypeOK, Job, NoJob, ReadRow, Goto, Doubled
  <2>4. RowsInHand'
    BY <1>10, <2>1, <2>2 DEF QueueInv, TypeOK, RowsInHand, Job, NoJob, ReadRow, Goto, Doubled
  <2>5. SalvageIsPosted'
    BY <1>10, <2>1, <2>2 DEF QueueInv, TypeOK, RowsInHand, SalvageIsPosted, Job, NoJob, ReadRow, Goto, Doubled
  <2>6. ClaimersAlone' /\ OneRunningPerThread'
    BY <1>10, ClosingRows DEF QueueInv, TypeOK, ReadRow, Goto, Doubled
  <2>7. QED
    BY <2>3, <2>4, <2>5, <2>6 DEF QueueInv
<1>11. CASE Close(d)
  <2>1. cand[d] \in Job /\ cand[d] \in 1..created /\ status[cand[d]] # "none"
    BY <1>11, InHand DEF Generating, Close, Goto, Release, Closable
  <2>2. TypeOK'
    BY <1>11, <2>1 DEF QueueInv, TypeOK, Job, NoJob, Close, Goto, Release, Closable
  <2>3. RowsInHand'
    BY <1>11, <2>1 DEF QueueInv, TypeOK, RowsInHand, Job, NoJob, Close, Goto, Release, Closable
  <2>4. SalvageIsPosted'
    BY <1>11, <2>1 DEF QueueInv, TypeOK, RowsInHand, SalvageIsPosted, Job, NoJob, Close, Goto, Release, Closable
  <2>5. ClaimersAlone' /\ OneRunningPerThread'
    BY <1>11, ClosingRows DEF QueueInv, TypeOK, Close, Goto, Release, Closable
  <2>6. QED
    BY <2>2, <2>3, <2>4, <2>5 DEF QueueInv
<1> QED
  BY <1>1, <1>2, <1>3, <1>4, <1>5, <1>6, <1>7, <1>8, <1>9, <1>10, <1>11 DEF Settling

\* Every step of a drain.
LEMMA DrainKeeps ==
  ASSUME QueueInv, NEW d \in Drain, DrainStep(d)
  PROVE  QueueInv'
<1> USE ChatQueueAssumption DEF columns, clock, transcript, drains, reapers, outside, Rows,
           Status, Open, Result, Bubble, PC, Kind

<1>1. CASE Heartbeat(d)
  <2>1. TypeOK' /\ RowsInHand' /\ SalvageIsPosted'
    <3>1. TypeOK'
      BY <1>1 DEF QueueInv, TypeOK, Job, NoJob,
         Heartbeat
    <3>2. RowsInHand'
      BY <1>1 DEF QueueInv, TypeOK, RowsInHand, Job, NoJob,
         Heartbeat
    <3>3. SalvageIsPosted'
      BY <1>1 DEF QueueInv, TypeOK, RowsInHand, SalvageIsPosted, Job, NoJob,
         Heartbeat
    <3>4. QED
      BY <3>1, <3>2, <3>3
  <2>2. ClaimersAlone' /\ OneRunningPerThread'
    BY <1>1, ClosingRows DEF QueueInv, TypeOK, Heartbeat
  <2>3. QED
    BY <2>1, <2>2 DEF QueueInv
<1>2. CASE StepWrites(d)
  <2>1. TypeOK' /\ RowsInHand' /\ SalvageIsPosted'
    <3>1. TypeOK'
      BY <1>2 DEF QueueInv, TypeOK, Job, NoJob,
         StepWrites
    <3>2. RowsInHand'
      BY <1>2 DEF QueueInv, TypeOK, RowsInHand, Job, NoJob,
         StepWrites
    <3>3. SalvageIsPosted'
      BY <1>2 DEF QueueInv, TypeOK, RowsInHand, SalvageIsPosted, Job, NoJob,
         StepWrites
    <3>4. QED
      BY <3>1, <3>2, <3>3
  <2>2. ClaimersAlone' /\ OneRunningPerThread'
    BY <1>2, ClosingRows DEF QueueInv, TypeOK, StepWrites
  <2>3. QED
    BY <2>1, <2>2 DEF QueueInv
<1>3. ASSUME NEW k \in Job, Absorb(d, k) PROVE QueueInv'
  <2>1. TypeOK' /\ RowsInHand' /\ SalvageIsPosted'
    <3>1. TypeOK'
      BY <1>3 DEF QueueInv, TypeOK, Job, NoJob,
         Absorb, Oldest, FollowUps, FollowUpsIn, Pending
    <3>2. RowsInHand'
      BY <1>3 DEF QueueInv, TypeOK, RowsInHand, Job, NoJob,
         Absorb, Oldest, FollowUps, FollowUpsIn, Pending
    <3>3. SalvageIsPosted'
      BY <1>3 DEF QueueInv, TypeOK, RowsInHand, SalvageIsPosted, Job, NoJob,
         Absorb, Oldest, FollowUps, FollowUpsIn, Pending
    <3>4. QED
      BY <3>1, <3>2, <3>3
  <2>2. ClaimersAlone' /\ OneRunningPerThread'
    BY <1>3, ClosingRows DEF QueueInv, TypeOK, Absorb, Oldest, FollowUps, FollowUpsIn, Pending
  <2>3. QED
    BY <2>1, <2>2 DEF QueueInv
<1>4. CASE Abandon(d)
  <2>1. cand[d] \in Job /\ cand[d] \in 1..created /\ status[cand[d]] # "none"
    BY <1>4, InHand DEF AfterGeneration, Abandon
  <2>2. posted' \subseteq Job \X Bubble /\ superseded' \subseteq posted' /\ posted \subseteq posted'
    BY <1>4, <2>1 DEF QueueInv, TypeOK, Abandon, Release, FailChatJob
  <2>3. TypeOK'
    BY <1>4, <2>1, <2>2 DEF QueueInv, TypeOK, Job, NoJob, Abandon, Release, FailChatJob
  <2>4. RowsInHand'
    BY <1>4, <2>1, <2>2 DEF QueueInv, TypeOK, RowsInHand, Job, NoJob, Abandon, Release, FailChatJob
  <2>5. SalvageIsPosted'
    BY <1>4, <2>1, <2>2 DEF QueueInv, TypeOK, RowsInHand, SalvageIsPosted, Job, NoJob, Abandon, Release, FailChatJob
  <2>6. ClaimersAlone' /\ OneRunningPerThread'
    BY <1>4, ClosingRows DEF QueueInv, TypeOK, Abandon, Release, FailChatJob
  <2>7. QED
    BY <2>3, <2>4, <2>5, <2>6 DEF QueueInv
<1>5. CASE GenerationFails(d)
  <2>1. cand[d] \in Job /\ cand[d] \in 1..created /\ status[cand[d]] # "none"
    BY <1>5, InHand DEF Generating, GenerationFails, Release, FailChatJob
  <2>2. posted' \subseteq Job \X Bubble /\ superseded' \subseteq posted' /\ posted \subseteq posted'
    BY <1>5, <2>1 DEF QueueInv, TypeOK, GenerationFails, Release, FailChatJob
  <2>3. TypeOK'
    <3>1. /\ status' \in [Job -> Status]
          /\ UNCHANGED <<columns, partial, result, clock, todo, reapers, outside>>
          /\ pc' \in [Drain -> PC]
      BY <1>5, <2>1 DEF QueueInv, TypeOK, GenerationFails, FailChatJob, Release
    <3>2. /\ cand' \in [Drain -> Job \cup {NoJob}] /\ taken' \in [Drain -> SUBSET Job]
          /\ wrote' \in [Drain -> BOOLEAN] /\ promised' \in [Drain -> BOOLEAN]
      <4>1. CASE wrote[d]
        BY <1>5, <4>1 DEF QueueInv, TypeOK, GenerationFails
      <4>2. CASE ~wrote[d]
        <5>1. Release(d)
          BY <1>5, <4>2 DEF GenerationFails
        <5>2. QED
          BY <5>1 DEF QueueInv, TypeOK, Release
      <4>3. QED
        BY <4>1, <4>2
    <3>3. QED
      BY <2>2, <3>1, <3>2 DEF QueueInv, TypeOK
  <2>4. RowsInHand'
    BY <1>5, <2>1, <2>2 DEF QueueInv, TypeOK, RowsInHand, Job, NoJob, GenerationFails, Release, FailChatJob
  <2>5. SalvageIsPosted'
    BY <1>5, <2>1, <2>2 DEF QueueInv, TypeOK, RowsInHand, SalvageIsPosted, Job, NoJob, GenerationFails, Release, FailChatJob
  <2>6. ClaimersAlone' /\ OneRunningPerThread'
    BY <1>5, ClosingRows DEF QueueInv, TypeOK, GenerationFails, Release, FailChatJob
  <2>7. QED
    BY <2>3, <2>4, <2>5, <2>6 DEF QueueInv
<1>6. CASE Crash(d)
  <2>1. TypeOK' /\ RowsInHand' /\ SalvageIsPosted'
    <3>1. TypeOK'
      <4>1. /\ pc' \in [Drain -> PC] /\ cand' \in [Drain -> Job \cup {NoJob}]
            /\ todo' \in [Drain -> SUBSET Job]
        BY <1>6 DEF QueueInv, TypeOK, Crash
      <4>2. /\ wrote' \in [Drain -> BOOLEAN] /\ promised' \in [Drain -> BOOLEAN]
            /\ taken' \in [Drain -> SUBSET Job]
        BY <1>6 DEF QueueInv, TypeOK, Crash
      <4>3. UNCHANGED <<columns, status, partial, result, clock, transcript, reapers, outside>>
        BY <1>6 DEF Crash
      <4>4. QED
        BY <4>1, <4>2, <4>3 DEF QueueInv, TypeOK
    <3>2. RowsInHand'
      BY <1>6 DEF QueueInv, TypeOK, RowsInHand, Job, NoJob,
         Crash, Release
    <3>3. SalvageIsPosted'
      BY <1>6 DEF QueueInv, TypeOK, RowsInHand, SalvageIsPosted, Job, NoJob,
         Crash, Release
    <3>4. QED
      BY <3>1, <3>2, <3>3
  <2>2. ClaimersAlone' /\ OneRunningPerThread'
    BY <1>6, ClosingRows DEF QueueInv, TypeOK, Crash, Release
  <2>3. QED
    BY <2>1, <2>2 DEF QueueInv
<1> QED
  BY <1>1, <1>2, <1>3, <1>4, <1>5, <1>6, ClaimingKeeps, RunningKeeps, SettlingKeeps DEF DrainStep

\* Every step of a reaper.
LEMMA ReaperKeeps ==
  ASSUME QueueInv, NEW r \in Reaper, ReaperStep(r)
  PROVE  QueueInv'
<1> USE ChatQueueAssumption DEF columns, clock, transcript, drains, reapers, outside, Rows,
           Status, Open, Result, Bubble, PC, Kind

<1>1. CASE StartSweep(r)
  <2>1. TypeOK'
    BY <1>1 DEF QueueInv, TypeOK, Job, NoJob, StartSweep, TextListed, Suspicion
  <2>2. RowsInHand'
    BY <1>1 DEF QueueInv, TypeOK, RowsInHand, Job, NoJob, StartSweep, TextListed, Suspicion
  <2>3. SalvageIsPosted'
    BY <1>1 DEF QueueInv, TypeOK, RowsInHand, SalvageIsPosted, Job, NoJob, StartSweep, TextListed, Suspicion
  <2>4. ClaimersAlone' /\ OneRunningPerThread'
    BY <1>1, ClosingRows DEF QueueInv, TypeOK, StartSweep, TextListed, Suspicion
  <2>5. QED
    BY <2>1, <2>2, <2>3, <2>4 DEF QueueInv
<1>2. CASE ReapSkip(r)
  <2>1. TypeOK' /\ RowsInHand' /\ SalvageIsPosted'
    <3>1. TypeOK'
      BY <1>2, FirstIsMember DEF QueueInv, TypeOK, Job, NoJob,
         ReapSkip, Listed
    <3>2. RowsInHand'
      BY <1>2, FirstIsMember DEF QueueInv, TypeOK, RowsInHand, Job, NoJob,
         ReapSkip, Listed
    <3>3. SalvageIsPosted'
      BY <1>2, FirstIsMember DEF QueueInv, TypeOK, RowsInHand, SalvageIsPosted, Job, NoJob,
         ReapSkip, Listed
    <3>4. QED
      BY <3>1, <3>2, <3>3
  <2>2. ClaimersAlone' /\ OneRunningPerThread'
    BY <1>2, ClosingRows DEF QueueInv, TypeOK, ReapSkip, Listed
  <2>3. QED
    BY <2>1, <2>2 DEF QueueInv
<1>3. CASE ReapClaim(r)
  <2>1. First(Listed(r)) \in Listed(r) /\ First(Listed(r)) \in Job
    <3>1. Listed(r) \in SUBSET Job
      BY DEF Listed
    <3>2. QED
      BY <1>3, <3>1, FirstIsMember DEF ReapClaim
  <2>2. TypeOK'
    BY <1>3, <2>1 DEF QueueInv, TypeOK, Job, NoJob, ReapClaim, Reapable, Listed
  <2>3. RowsInHand'
    <3>1. \A j \in Job : status'[j] = "none" <=> status[j] = "none"
      BY <1>3, <2>1 DEF QueueInv, TypeOK, ReapClaim, Reapable
    <3>2. \A x \in Reaper : rpc'[x] \in {"salvage", "mark"} => rcand'[x] \in Job
      BY <1>3, <2>1 DEF QueueInv, TypeOK, RowsInHand, ReapClaim
    <3>3. UNCHANGED <<created, drains>>
      BY <1>3 DEF ReapClaim
    <3>4. QED
      BY <3>1, <3>2, <3>3 DEF QueueInv, RowsInHand
  <2>4. SalvageIsPosted'
    BY <1>3, <2>1 DEF QueueInv, TypeOK, RowsInHand, SalvageIsPosted, Job, NoJob, ReapClaim, Reapable, Listed
  <2>5. ClaimersAlone' /\ OneRunningPerThread'
    BY <1>3, ClosingRows DEF QueueInv, TypeOK, ReapClaim, Reapable, Listed
  <2>6. QED
    BY <2>2, <2>3, <2>4, <2>5 DEF QueueInv
<1>4. CASE ReapLose(r)
  <2>1. TypeOK' /\ RowsInHand' /\ SalvageIsPosted'
    <3>1. TypeOK'
      BY <1>4, FirstIsMember DEF QueueInv, TypeOK, Job, NoJob,
         ReapLose, Listed
    <3>2. RowsInHand'
      BY <1>4, FirstIsMember DEF QueueInv, TypeOK, RowsInHand, Job, NoJob,
         ReapLose, Listed
    <3>3. SalvageIsPosted'
      BY <1>4, FirstIsMember DEF QueueInv, TypeOK, RowsInHand, SalvageIsPosted, Job, NoJob,
         ReapLose, Listed
    <3>4. QED
      BY <3>1, <3>2, <3>3
  <2>2. ClaimersAlone' /\ OneRunningPerThread'
    BY <1>4, ClosingRows DEF QueueInv, TypeOK, ReapLose, Listed
  <2>3. QED
    BY <2>1, <2>2 DEF QueueInv
<1>5. CASE ReapSalvage(r)
  <2>1. rcand[r] \in Job
    BY <1>5, InReach DEF ReapSalvage
  <2>2. posted' \subseteq Job \X Bubble /\ superseded' \subseteq posted' /\ posted \subseteq posted'
    BY <1>5, <2>1 DEF QueueInv, TypeOK, ReapSalvage
  <2>3. TypeOK'
    BY <1>5, <2>1, <2>2 DEF QueueInv, TypeOK, Job, NoJob, ReapSalvage
  <2>4. RowsInHand'
    BY <1>5, <2>1, <2>2 DEF QueueInv, TypeOK, RowsInHand, Job, NoJob, ReapSalvage
  <2>5. SalvageIsPosted'
    BY <1>5, <2>1, <2>2 DEF QueueInv, TypeOK, RowsInHand, SalvageIsPosted, Job, NoJob, ReapSalvage
  <2>6. ClaimersAlone' /\ OneRunningPerThread'
    BY <1>5, ClosingRows DEF QueueInv, TypeOK, ReapSalvage
  <2>7. QED
    BY <2>3, <2>4, <2>5, <2>6 DEF QueueInv
<1>6. CASE ReapMark(r)
  <2>1. rcand[r] \in Job
    BY <1>6, InReach DEF ReapMark
  <2>2. TypeOK'
    <3>1. status' \in [Job -> Status] /\ result' \in [Job -> Result]
      BY <1>6, <2>1, MarkedTypes DEF ReapMark
    <3>2. QED
      BY <1>6, <3>1 DEF QueueInv, TypeOK, NoJob, ReapMark
  <2>3. RowsInHand'
    BY <1>6, <2>1 DEF QueueInv, TypeOK, RowsInHand, Job, NoJob, ReapMark, MarkSalvaged
  <2>4. SalvageIsPosted'
    <3>1. \A j \in Job : result'[j] = result[j] \/ (j = rcand[r] /\ result'[j] = r)
      BY <1>6, <2>1 DEF QueueInv, TypeOK, ReapMark, MarkSalvaged
    <3>2. <<rcand[r], r>> \in posted /\ posted' = posted
      BY <1>6 DEF QueueInv, SalvageIsPosted, ReapMark
    <3>3. \A x \in Reaper : rpc'[x] = "mark" => rpc[x] = "mark" /\ rcand'[x] = rcand[x]
      BY <1>6 DEF QueueInv, TypeOK, ReapMark
    <3>4. QED
      BY <3>1, <3>2, <3>3 DEF QueueInv, SalvageIsPosted
  <2>5. ClaimersAlone' /\ OneRunningPerThread'
    BY <1>6, ClosingRows DEF QueueInv, TypeOK, ReapMark, MarkSalvaged
  <2>6. QED
    BY <2>2, <2>3, <2>4, <2>5 DEF QueueInv
<1>7. CASE EndSweep(r)
  <2>1. TypeOK' /\ RowsInHand' /\ SalvageIsPosted'
    <3>1. TypeOK'
      BY <1>7 DEF QueueInv, TypeOK, Job, NoJob,
         EndSweep, RestReaper, Listed
    <3>2. RowsInHand'
      BY <1>7 DEF QueueInv, TypeOK, RowsInHand, Job, NoJob,
         EndSweep, RestReaper, Listed
    <3>3. SalvageIsPosted'
      BY <1>7 DEF QueueInv, TypeOK, RowsInHand, SalvageIsPosted, Job, NoJob,
         EndSweep, RestReaper, Listed
    <3>4. QED
      BY <3>1, <3>2, <3>3
  <2>2. ClaimersAlone' /\ OneRunningPerThread'
    BY <1>7, ClosingRows DEF QueueInv, TypeOK, EndSweep, RestReaper, Listed
  <2>3. QED
    BY <2>1, <2>2 DEF QueueInv
<1>8. CASE ReaperDies(r)
  <2>1. TypeOK' /\ RowsInHand' /\ SalvageIsPosted'
    <3>1. TypeOK'
      BY <1>8 DEF QueueInv, TypeOK, Job, NoJob,
         ReaperDies, RestReaper
    <3>2. RowsInHand'
      BY <1>8 DEF QueueInv, TypeOK, RowsInHand, Job, NoJob,
         ReaperDies, RestReaper
    <3>3. SalvageIsPosted'
      BY <1>8 DEF QueueInv, TypeOK, RowsInHand, SalvageIsPosted, Job, NoJob,
         ReaperDies, RestReaper
    <3>4. QED
      BY <3>1, <3>2, <3>3
  <2>2. ClaimersAlone' /\ OneRunningPerThread'
    BY <1>8, ClosingRows DEF QueueInv, TypeOK, ReaperDies, RestReaper
  <2>3. QED
    BY <2>1, <2>2 DEF QueueInv
<1> QED
  BY <1>1, <1>2, <1>3, <1>4, <1>5, <1>6, <1>7, <1>8 DEF ReaperStep

\* What happens to a thread from outside.
LEMMA ThreadKeeps ==
  ASSUME QueueInv, NEW t \in Thread, (\E k \in Kind : Enqueue(t, k)) \/ ScheduleLooks(t) \/ ScheduleFires(t) \/ KitRunStarts(t) \/ KitRunEnds(t)
  PROVE  QueueInv'
<1> USE ChatQueueAssumption DEF columns, clock, transcript, drains, reapers, outside, Rows,
           Status, Open, Result, Bubble, PC, Kind

<1>1. ASSUME NEW k \in Kind, Enqueue(t, k) PROVE QueueInv'
  <2>1. TypeOK' /\ RowsInHand' /\ SalvageIsPosted'
    <3>1. TypeOK'
      BY <1>1 DEF QueueInv, TypeOK, Job, NoJob,
         Enqueue, Insert
    <3>2. RowsInHand'
      BY <1>1 DEF QueueInv, TypeOK, RowsInHand, Job, NoJob,
         Enqueue, Insert
    <3>3. SalvageIsPosted'
      BY <1>1 DEF QueueInv, TypeOK, RowsInHand, SalvageIsPosted, Job, NoJob,
         Enqueue, Insert
    <3>4. QED
      BY <3>1, <3>2, <3>3
  <2>2. ClaimersAlone' /\ OneRunningPerThread'
    BY <1>1, InsertingRow DEF QueueInv, TypeOK, Enqueue, Insert
  <2>3. QED
    BY <2>1, <2>2 DEF QueueInv
<1>2. CASE ScheduleLooks(t)
  <2>1. TypeOK' /\ RowsInHand' /\ SalvageIsPosted'
    <3>1. TypeOK'
      BY <1>2 DEF QueueInv, TypeOK, Job, NoJob,
         ScheduleLooks
    <3>2. RowsInHand'
      BY <1>2 DEF QueueInv, TypeOK, RowsInHand, Job, NoJob,
         ScheduleLooks
    <3>3. SalvageIsPosted'
      BY <1>2 DEF QueueInv, TypeOK, RowsInHand, SalvageIsPosted, Job, NoJob,
         ScheduleLooks
    <3>4. QED
      BY <3>1, <3>2, <3>3
  <2>2. ClaimersAlone' /\ OneRunningPerThread'
    BY <1>2, ClosingRows DEF QueueInv, TypeOK, ScheduleLooks
  <2>3. QED
    BY <2>1, <2>2 DEF QueueInv
<1>3. CASE ScheduleFires(t)
  <2>1. TypeOK' /\ RowsInHand' /\ SalvageIsPosted'
    <3>1. TypeOK'
      BY <1>3 DEF QueueInv, TypeOK, Job, NoJob,
         ScheduleFires, Insert
    <3>2. RowsInHand'
      BY <1>3 DEF QueueInv, TypeOK, RowsInHand, Job, NoJob,
         ScheduleFires, Insert
    <3>3. SalvageIsPosted'
      BY <1>3 DEF QueueInv, TypeOK, RowsInHand, SalvageIsPosted, Job, NoJob,
         ScheduleFires, Insert
    <3>4. QED
      BY <3>1, <3>2, <3>3
  <2>2. ClaimersAlone' /\ OneRunningPerThread'
    BY <1>3, InsertingRow DEF QueueInv, TypeOK, ScheduleFires, Insert
  <2>3. QED
    BY <2>1, <2>2 DEF QueueInv
<1>4. CASE KitRunStarts(t)
  <2>1. TypeOK'
    BY <1>4 DEF QueueInv, TypeOK, Job, NoJob, KitRunStarts
  <2>2. RowsInHand'
    BY <1>4 DEF QueueInv, TypeOK, RowsInHand, Job, NoJob, KitRunStarts
  <2>3. SalvageIsPosted'
    BY <1>4 DEF QueueInv, TypeOK, RowsInHand, SalvageIsPosted, Job, NoJob, KitRunStarts
  <2>4. ClaimersAlone' /\ OneRunningPerThread'
    BY <1>4, ClosingRows DEF QueueInv, TypeOK, KitRunStarts
  <2>5. QED
    BY <2>1, <2>2, <2>3, <2>4 DEF QueueInv
<1>5. CASE KitRunEnds(t)
  <2>1. TypeOK' /\ RowsInHand' /\ SalvageIsPosted'
    <3>1. TypeOK'
      BY <1>5 DEF QueueInv, TypeOK, Job, NoJob,
         KitRunEnds
    <3>2. RowsInHand'
      BY <1>5 DEF QueueInv, TypeOK, RowsInHand, Job, NoJob,
         KitRunEnds
    <3>3. SalvageIsPosted'
      BY <1>5 DEF QueueInv, TypeOK, RowsInHand, SalvageIsPosted, Job, NoJob,
         KitRunEnds
    <3>4. QED
      BY <3>1, <3>2, <3>3
  <2>2. ClaimersAlone' /\ OneRunningPerThread'
    BY <1>5, ClosingRows DEF QueueInv, TypeOK, KitRunEnds
  <2>3. QED
    BY <2>1, <2>2 DEF QueueInv
<1> QED
  BY <1>1, <1>2, <1>3, <1>4, <1>5 DEF Environment

\* What happens to a row from outside.
LEMMA RowKeeps ==
  ASSUME QueueInv, NEW j \in Job, CancelTurn(j) \/ CancelSince(j) \/ GoStale(j) \/ Age(j)
  PROVE  QueueInv'
<1> USE ChatQueueAssumption DEF columns, clock, transcript, drains, reapers, outside, Rows,
           Status, Open, Result, Bubble, PC, Kind

<1>1. CASE CancelTurn(j)
  <2>1. TypeOK'
    BY <1>1 DEF QueueInv, TypeOK, Job, NoJob, CancelTurn
  <2>2. RowsInHand'
    BY <1>1 DEF QueueInv, TypeOK, RowsInHand, Job, NoJob, CancelTurn
  <2>3. SalvageIsPosted'
    BY <1>1 DEF QueueInv, TypeOK, RowsInHand, SalvageIsPosted, Job, NoJob, CancelTurn
  <2>4. ClaimersAlone' /\ OneRunningPerThread'
    BY <1>1, ClosingRows DEF QueueInv, TypeOK, CancelTurn
  <2>5. QED
    BY <2>1, <2>2, <2>3, <2>4 DEF QueueInv
<1>2. CASE CancelSince(j)
  <2>1. TypeOK' /\ RowsInHand' /\ SalvageIsPosted'
    <3>1. TypeOK'
      BY <1>2 DEF QueueInv, TypeOK, Job, NoJob,
         CancelSince, Active
    <3>2. RowsInHand'
      BY <1>2 DEF QueueInv, TypeOK, RowsInHand, Job, NoJob,
         CancelSince, Active
    <3>3. SalvageIsPosted'
      BY <1>2 DEF QueueInv, TypeOK, RowsInHand, SalvageIsPosted, Job, NoJob,
         CancelSince, Active
    <3>4. QED
      BY <3>1, <3>2, <3>3
  <2>2. ClaimersAlone' /\ OneRunningPerThread'
    BY <1>2, ClosingRows DEF QueueInv, TypeOK, CancelSince, Active
  <2>3. QED
    BY <2>1, <2>2 DEF QueueInv
<1>3. CASE GoStale(j)
  <2>1. TypeOK'
    <3>1. stale' \subseteq Job
      BY <1>3 DEF QueueInv, TypeOK, GoStale
    <3>2. UNCHANGED <<Rows, aged, transcript, drains, reapers, outside>>
      BY <1>3 DEF GoStale
    <3>3. QED
      BY <3>1, <3>2 DEF QueueInv, TypeOK
  <2>2. RowsInHand'
    BY <1>3 DEF QueueInv, TypeOK, RowsInHand, Job, NoJob, GoStale
  <2>3. SalvageIsPosted'
    BY <1>3 DEF QueueInv, TypeOK, RowsInHand, SalvageIsPosted, Job, NoJob, GoStale
  <2>4. ClaimersAlone' /\ OneRunningPerThread'
    BY <1>3, ClosingRows DEF QueueInv, TypeOK, GoStale
  <2>5. QED
    BY <2>1, <2>2, <2>3, <2>4 DEF QueueInv
<1>4. CASE Age(j)
  <2>1. TypeOK' /\ RowsInHand' /\ SalvageIsPosted'
    <3>1. TypeOK'
      BY <1>4 DEF QueueInv, TypeOK, Job, NoJob,
         Age
    <3>2. RowsInHand'
      BY <1>4 DEF QueueInv, TypeOK, RowsInHand, Job, NoJob,
         Age
    <3>3. SalvageIsPosted'
      BY <1>4 DEF QueueInv, TypeOK, RowsInHand, SalvageIsPosted, Job, NoJob,
         Age
    <3>4. QED
      BY <3>1, <3>2, <3>3
  <2>2. ClaimersAlone' /\ OneRunningPerThread'
    BY <1>4, ClosingRows DEF QueueInv, TypeOK, Age
  <2>3. QED
    BY <2>1, <2>2 DEF QueueInv
<1> QED
  BY <1>1, <1>2, <1>3, <1>4 DEF Environment

------------------------------------------------------------------------------
(* The theorems *)

LEMMA QueueStep == QueueInv /\ [Next]_vars => QueueInv'
<1> SUFFICES ASSUME QueueInv, [Next]_vars PROVE QueueInv'
  OBVIOUS
<1>1. CASE Environment
  BY <1>1, ThreadKeeps, RowKeeps DEF Environment
<1>2. ASSUME NEW d \in Drain, DrainStep(d) PROVE QueueInv'
  BY <1>2, DrainKeeps
<1>3. ASSUME NEW r \in Reaper, ReaperStep(r) PROVE QueueInv'
  BY <1>3, ReaperKeeps
<1>4. CASE UNCHANGED vars
  BY <1>4 DEF QueueInv, TypeOK, RowsInHand, SalvageIsPosted, ClaimersAlone,
     OneRunningPerThread, vars, columns, clock, transcript, drains, reapers, outside
<1>5. QED
  BY <1>1, <1>2, <1>3, <1>4 DEF Next

\* The rows in hand are rows of the table, a salvaged message named by a row is in
\* the thread, and the look of a drain still holds when it claims, whatever drains
\* and reapers do in between and wherever they die.
THEOREM QueueInvariant == Spec => []QueueInv
<1>1. Init => QueueInv
  BY QueueStarts
<1>2. QueueInv /\ [Next]_vars => QueueInv'
  BY QueueStep
<1>3. QED
  BY <1>1, <1>2, PTL DEF Spec

\* Every column, transcript entry and local of a process stays in its type; a
\* superseded message is one of the transcript.
THEOREM TypeCorrect == Spec => []TypeOK
<1>1. QueueInv => TypeOK
  BY DEF QueueInv
<1>2. QED
  BY <1>1, QueueInvariant, PTL

\* Two turns of one conversation never run at once, although the drain's look at
\* the siblings of a row and its claim are two calls.
THEOREM OneTurnAtATime == Spec => []OneRunningPerThread
<1>1. QueueInv => OneRunningPerThread
  BY DEF QueueInv
<1>2. QED
  BY <1>1, QueueInvariant, PTL

------------------------------------------------------------------------------
(* ChatQueue implements SerialTurns *)

Over == {"done", "failed", "cancelled"}

\* What a step that neither inserts nor claims does to the rows: it ends some.
Quieter ==
  /\ thread' = thread
  /\ \A j \in Job : status'[j] # status[j] => status[j] # "none" /\ status'[j] \in Over

Inserting == \E t \in Thread, k \in Kind, n \in Nat : Insert(t, k, n)

\* An insert asks a turn.
LEMMA InsertAsks ==
  ASSUME QueueInv, NEW t \in Thread, NEW k \in Kind, NEW n \in Nat, Insert(t, k, n)
  PROVE  Turns!Next
<1> DEFINE j == created + 1
<1>1. j \in Job /\ status[j] = "none"
  BY InsertTypes, ChatQueueAssumption DEF QueueInv, RowsInHand, TypeOK
<1>2. /\ status' = [status EXCEPT ![j] = "pending"]
      /\ thread' = [thread EXCEPT ![j] = t]
      /\ status \in [Job -> Status]
  BY DEF Insert, QueueInv, TypeOK
<1> HIDE DEF j
<1>3. Turns!Ask(j, t)
  BY <1>1, <1>2 DEF Turns!Ask, PhaseOf
<1>4. QED
  BY <1>1, <1>3 DEF Turns!Next

\* A claim speaks a turn, in a silent thread.
LEMMA ClaimSpeaks ==
  ASSUME QueueInv, NEW d \in Drain, Claim(d)
  PROVE  Turns!Next
<1>1. cand[d] \in Job /\ pc[d] = "claim" /\ status[cand[d]] = "pending"
  BY InHand DEF Claim, Goto
<1>2. /\ status' = [status EXCEPT ![cand[d]] = "running"] /\ thread' = thread
      /\ status \in [Job -> Status]
  BY DEF Claim, columns, QueueInv, TypeOK
<1>3. \A i \in Job : thread[i] = thread[cand[d]] => status[i] # "running"
  BY <1>1 DEF QueueInv, ClaimersAlone
<1>4. \A i \in Job : PhaseOf(status[i]) = "speaking" => status[i] = "running"
  BY <1>2 DEF Status, PhaseOf
<1>5. Turns!Silent(cand[d])
  BY <1>3, <1>4 DEF Turns!Silent
<1>6. Turns!Speak(cand[d])
  BY <1>1, <1>2, <1>5 DEF Turns!Speak, PhaseOf
<1>7. QED
  BY <1>1, <1>6 DEF Turns!Next

\* Ending rows finishes their turns, or does nothing to turns already over.
LEMMA QuietFinishes ==
  ASSUME QueueInv, QueueInv', Quieter
  PROVE  [Turns!Next]_(Turns!svars)
<1> DEFINE U == {j \in Job : status[j] \in Open /\ status'[j] \notin Open}
<1>1. status \in [Job -> Status] /\ status' \in [Job -> Status]
  BY DEF QueueInv, TypeOK
<1>2. \A j \in Job : PhaseOf(status'[j]) = IF j \in U THEN "over" ELSE PhaseOf(status[j])
  BY <1>1 DEF Quieter, PhaseOf, Over, Open, Status
<1>3. \A j \in U : PhaseOf(status[j]) \in {"waiting", "speaking"}
  BY DEF PhaseOf, Open
<1>4. U \in SUBSET Job
  OBVIOUS
<1> HIDE DEF U
<1>5. CASE U = {}
  BY <1>2, <1>5 DEF Turns!svars, Quieter
<1>6. CASE U # {}
  <2>1. Turns!Finish(U)
    BY <1>2, <1>3, <1>4, <1>6 DEF Turns!Finish, Quieter
  <2>2. QED
    BY <1>4, <2>1 DEF Turns!Next
<1>7. QED
  BY <1>5, <1>6

\* Every step inserts, claims or makes the rows quieter.
LEMMA ThreeKinds ==
  ASSUME QueueInv, Next
  PROVE  Inserting \/ (\E d \in Drain : Claim(d)) \/ Quieter
<1> USE DEF columns, Rows, Over, Open
<1>1. CASE Environment
  <2>1. ASSUME NEW t \in Thread, NEW k \in Kind, Enqueue(t, k) PROVE Inserting
    <3>1. (IF k = "continuation" THEN 1 ELSE 0) \in Nat
      OBVIOUS
    <3>2. QED
      BY <2>1, <3>1 DEF Enqueue, Inserting
  <2>2. ASSUME NEW t \in Thread, ScheduleFires(t) PROVE Inserting
    BY <2>2 DEF ScheduleFires, Inserting, Kind
  <2>3. ASSUME NEW t \in Thread, ScheduleLooks(t) \/ KitRunStarts(t) \/ KitRunEnds(t) PROVE Quieter
    BY <2>3 DEF ScheduleLooks, KitRunStarts, KitRunEnds, Quieter
  <2>4. ASSUME NEW j \in Job, CancelTurn(j) \/ CancelSince(j) \/ GoStale(j) \/ Age(j) PROVE Quieter
    BY <2>4 DEF CancelTurn, CancelSince, GoStale, Age, Active, QueueInv, TypeOK, Quieter
  <2>5. QED
    BY <1>1, <2>1, <2>2, <2>3, <2>4 DEF Environment
<1>2. ASSUME NEW d \in Drain, DrainStep(d)
      PROVE  Inserting \/ Claim(d) \/ Quieter
  <2>1. CASE Claiming(d)
    BY <2>1 DEF Claiming, StartDrain, SkipCandidate, PickCandidate, NothingToClaim,
       ClaimLost, Quieter
  <2>2. CASE Running(d)
    <3>1. CASE BeginClear(d) \/ AnswerClear(d) \/ BeginTurn(d) \/ SaveAbsorbed(d) \/ SaveOwnPartial(d)
      BY <3>1 DEF BeginClear, AnswerClear, BeginTurn, SaveAbsorbed, SaveOwnPartial, Quieter
    <3>2. CASE CloseClear(d)
      BY <3>2, InHand DEF CloseClear, Goto, QueueInv, TypeOK, Quieter
    <3>3. CASE MarkOwnPartial(d)
      BY <3>3, InHand DEF MarkOwnPartial, Goto, MarkSalvaged, QueueInv, TypeOK, Quieter
    <3>4. QED
      BY <2>2, <3>1, <3>2, <3>3 DEF Running
  <2>3. CASE Settling(d)
    <3>1. CASE InsertContinuation(d)
      <4>1. cand[d] \in Job
        BY <3>1, InHand DEF InsertContinuation, Goto
      <4>2. thread[cand[d]] \in Thread /\ depth[cand[d]] + 1 \in Nat /\ "continuation" \in Kind
        BY <4>1 DEF QueueInv, TypeOK, Kind
      <4>3. QED
        BY <3>1, <4>2 DEF InsertContinuation, Inserting
    <3>2. CASE NextVoice(d)
      <4>1. cand[d] \in Job
        BY <3>2, InHand DEF NextVoice, Goto
      <4>2. thread[cand[d]] \in Thread /\ 0 \in Nat /\ "voice" \in Kind
        BY <4>1 DEF QueueInv, TypeOK, Kind
      <4>3. QED
        BY <3>2, <4>2 DEF NextVoice, Inserting
    <3>3. CASE Close(d)
      BY <3>3, InHand DEF Close, Goto, QueueInv, TypeOK, Quieter
    <3>4. CASE \/ EndGeneration(d) \/ NoContinuation(d) \/ WantContinuation(d)
               \/ ContinuationLost(d) \/ SaveReply(d) \/ AskRoom(d) \/ NoVoice(d) \/ ReadRow(d)
      BY <3>4 DEF EndGeneration, NoContinuation, WantContinuation, ContinuationLost,
         SaveReply, AskRoom, NoVoice, ReadRow, Quieter
    <3>5. QED
      BY <2>3, <3>1, <3>2, <3>3, <3>4 DEF Settling
  <2>4. CASE Heartbeat(d) \/ StepWrites(d) \/ Crash(d)
    BY <2>4 DEF Heartbeat, StepWrites, Crash, Quieter
  <2>5. ASSUME NEW k \in Job, Absorb(d, k) PROVE Quieter
    BY <2>5 DEF Absorb, FollowUps, FollowUpsIn, Oldest, Pending, QueueInv, TypeOK, Quieter
  <2>6. CASE Abandon(d) \/ GenerationFails(d)
    BY <2>6, ChatQueueAssumption, InHand DEF AfterGeneration, Abandon, GenerationFails, FailChatJob, QueueInv, TypeOK,
       Quieter
  <2>7. QED
    BY <1>2, <2>1, <2>2, <2>3, <2>4, <2>5, <2>6 DEF DrainStep
<1>3. ASSUME NEW r \in Reaper, ReaperStep(r) PROVE Quieter
  <2>1. CASE ReapClaim(r)
    <3>1. First(Listed(r)) \in Job
      <4>1. Listed(r) \in SUBSET Job
        BY DEF Listed
      <4>2. QED
        BY <2>1, <4>1, FirstIsMember DEF ReapClaim
    <3>2. QED
      BY <2>1, <3>1 DEF ReapClaim, Reapable, QueueInv, TypeOK, Quieter
  <2>2. CASE ReapMark(r)
    BY <2>2, InReach DEF ReapMark, MarkSalvaged, QueueInv, TypeOK, Quieter
  <2>3. CASE StartSweep(r) \/ ReapSkip(r) \/ ReapLose(r) \/ ReapSalvage(r)
             \/ EndSweep(r) \/ ReaperDies(r)
    BY <2>3 DEF StartSweep, ReapSkip, ReapLose, ReapSalvage, EndSweep, ReaperDies,
       RestReaper, Quieter
  <2>4. QED
    BY <1>3, <2>1, <2>2, <2>3 DEF ReaperStep
<1>4. QED
  BY <1>1, <1>2, <1>3 DEF Next

\* Rows, claims, crashes and reapers realise turns spoken one at a time on each
\* thread, each at most once: ChatQueue implements SerialTurns.
THEOREM Refinement == Spec => SerialTurnsSpec
<1>1. Init => Turns!Init
  <2>1. (CHOOSE t \in Thread : TRUE) \in Thread
    BY ChatQueueAssumption
  <2>2. QED
    BY <2>1 DEF Init, Turns!Init, PhaseOf
<1>2. QueueInv /\ QueueInv' /\ [Next]_vars => [Turns!Next]_(Turns!svars)
  <2> SUFFICES ASSUME QueueInv, QueueInv', [Next]_vars
               PROVE  [Turns!Next]_(Turns!svars)
    OBVIOUS
  <2>1. CASE Inserting
    BY <2>1, InsertAsks DEF Inserting
  <2>2. ASSUME NEW d \in Drain, Claim(d) PROVE Turns!Next
    BY <2>2, ClaimSpeaks
  <2>3. CASE Quieter
    BY <2>3, QuietFinishes
  <2>4. CASE UNCHANGED vars
    BY <2>4 DEF vars, columns, Turns!svars
  <2>5. QED
    BY <2>1, <2>2, <2>3, <2>4, ThreeKinds
<1>3. QED
  BY <1>1, <1>2, QueueInvariant, PTL DEF Spec, SerialTurnsSpec, Turns!Spec

==============================================================================
