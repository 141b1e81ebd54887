--------------------------- MODULE ToolJobsProofs ---------------------------
(***************************************************************************)
(* The safety of ToolJobs for any number of drains, reapers and rows:      *)
(* ToolInv is inductive, and every step of the queue is a step of          *)
(* OneOutcome or leaves its jobs alone.                                    *)
(*                                                                         *)
(* The argument: only a pending row is claimed, so no two drains hold the  *)
(* same one (RunnersApart); only an open row is closed, so whoever closes  *)
(* it is alone in having its outcome to tell (TellersAlone).               *)
(***************************************************************************)
EXTENDS ToolJobs, TLAPS, WellFoundedInduction

\* A set of rows that is not empty has an oldest one, which First returns.
LEMMA FirstIsMember ==
  ASSUME NEW S \in SUBSET Job, S # {}
  PROVE  First(S) \in S
<1>1. S \subseteq Nat
  BY ToolJobsAssumption DEF Job
<1>2. PICK x \in S : \A y \in S : <<y, x>> \notin OpToRel(<, Nat)
  BY <1>1, WFMin, NatLessThanWellFounded, Zenon
<1>3. ASSUME NEW y \in S PROVE ~ (y < x)
  <2>1. x \in Nat /\ y \in Nat
    BY <1>1, Zenon
  <2>2. QED
    BY <2>1, <1>2, Zenon DEF OpToRel
<1>4. \A y \in S : x <= y
  <2>1. SUFFICES ASSUME NEW y \in S PROVE x <= y
    OBVIOUS
  <2>2. x \in Nat /\ y \in Nat
    BY <1>1
  <2>3. QED
    BY <2>2, <1>3
<1>5. QED
  BY <1>4 DEF First

\* The invariant holds of the empty table.
LEMMA ToolsStart == Init => ToolInv
  BY ToolJobsAssumption DEF Init, ToolInv, TypeOK, RunnersApart, TellersAlone, Job, NoJob,
     Status, Outcome, PC

\* A drain with a row in hand holds a row of the table that is nobody else's.
LEMMA InHand ==
  ASSUME ToolInv, NEW d \in Drain, pc[d] \notin {"idle", "scan"}
  PROVE  cand[d] \in Job /\ status[cand[d]] \in Status \ {"none", "pending"}
  BY ToolJobsAssumption DEF ToolInv, RunnersApart, TypeOK, Job, Status

\* So does a reaper that has an outcome to report.
LEMMA InReach ==
  ASSUME ToolInv, NEW r \in Reaper, rpc[r] = "report"
  PROVE  rcand[r] \in Job
  BY ToolJobsAssumption DEF ToolInv, RunnersApart, TypeOK, Job

\* A row is inserted, or stopped.
LEMMA StartKeeps ==
  ASSUME ToolInv, (\E b \in BOOLEAN : StartJob(b)) \/ (\E S \in SUBSET Job : Stop(S))
  PROVE  ToolInv'
<1> USE ToolJobsAssumption DEF Job, NoJob, Status, Outcome, Open, clock, drains, reapers
<1>1. ASSUME NEW b \in BOOLEAN, StartJob(b) PROVE ToolInv'
  <2>1. TypeOK'
    BY <1>1 DEF ToolInv, TypeOK, StartJob
  <2>2. RunnersApart'
    BY <1>1 DEF ToolInv, TypeOK, RunnersApart, StartJob
  <2>3. TellersAlone'
    BY <1>1 DEF ToolInv, TypeOK, RunnersApart, TellersAlone, StartJob
  <2>4. QED
    BY <2>1, <2>2, <2>3 DEF ToolInv
<1>2. ASSUME NEW S \in SUBSET Job, Stop(S) PROVE ToolInv'
  <2>0. /\ status' \in [Job -> Status]
        /\ \A j \in Job : status'[j] = status[j]
                        \/ (status[j] \in Open /\ status'[j] = "cancelled")
    BY <1>2 DEF ToolInv, TypeOK, Stop
  <2>1. TypeOK'
    BY <1>2, <2>0 DEF ToolInv, TypeOK, Stop
  <2>2. RunnersApart'
    BY <1>2 DEF ToolInv, TypeOK, RunnersApart, Stop
  <2>3. TellersAlone'
    <3>1. \A j \in Job : status[j] \in Outcome => status'[j] = status[j]
      BY <2>0
    <3>2. \A d \in Drain : pc[d] = "report" => cand[d] \in Job
      BY InHand
    <3>3. \A r \in Reaper : rpc[r] = "report" => rcand[r] \in Job
      BY InReach
    <3>4. UNCHANGED <<pc, cand, rpc, rcand, reports>>
      BY <1>2 DEF Stop
    <3> HIDE DEF Outcome
    <3>5. QED
      BY <3>1, <3>2, <3>3, <3>4 DEF ToolInv, TellersAlone
  <2>4. QED
    BY <2>1, <2>2, <2>3 DEF ToolInv
<1>3. QED
  BY <1>1, <1>2

\* Clocks and heartbeats touch nothing the invariant speaks of.
LEMMA ClockKeeps ==
  ASSUME ToolInv,
         (\E j \in Job : GoStale(j) \/ Age(j)) \/ (\E d \in Drain : Heartbeat(d))
  PROVE  ToolInv'
<1> USE DEF rows, clock, drains, reapers
<1>1. TypeOK'
  <2>1. ASSUME NEW j \in Job, GoStale(j) \/ Age(j) PROVE TypeOK'
    BY <2>1 DEF ToolInv, TypeOK, GoStale, Age
  <2>2. ASSUME NEW d \in Drain, Heartbeat(d) PROVE TypeOK'
    BY <2>2 DEF ToolInv, TypeOK, Heartbeat
  <2>3. QED
    BY <2>1, <2>2
<1>2. UNCHANGED <<created, status, pc, cand, rpc, rcand, reports>>
  BY DEF GoStale, Age, Heartbeat
<1>3. RunnersApart' /\ TellersAlone'
  BY <1>2 DEF ToolInv, RunnersApart, TellersAlone
<1>4. QED
  BY <1>1, <1>3 DEF ToolInv

\* The drain on its way to a row, and in the tool.
LEMMA ClaimingKeeps ==
  ASSUME ToolInv, NEW d \in Drain,
         \/ StartDrain(d) \/ PassOver(d) \/ Claim(d) \/ NothingToClaim(d)
         \/ ToolReturns(d) \/ ToolThrows(d) \/ ToolTimesOut(d) \/ NoticesStop(d) \/ StillActive(d)
  PROVE  ToolInv'
<1> USE ToolJobsAssumption DEF rows, clock, drains, reapers, PC, Status, Outcome
<1>1. CASE StartDrain(d)
  <2>1. TypeOK'
    BY <1>1 DEF ToolInv, TypeOK, StartDrain, Oldest, AllPending
  <2>2. RunnersApart' /\ TellersAlone'
    BY <1>1 DEF ToolInv, TypeOK, RunnersApart, TellersAlone, StartDrain
  <2>3. QED
    BY <2>1, <2>2 DEF ToolInv
<1>2. CASE PassOver(d) \/ NothingToClaim(d)
  <2>1. TypeOK'
    <3>1. UNCHANGED <<created, threaded, status, stale, aged, cand, rpc, rcand, waiting,
                      silent, reports, stopped>>
      BY <1>2 DEF PassOver, NothingToClaim
    <3>2. pc' \in [Drain -> PC]
      BY <1>2 DEF ToolInv, TypeOK, PassOver, NothingToClaim
    <3>3. todo' \in [Drain -> SUBSET Job]
      <4>1. todo \in [Drain -> SUBSET Job]
        BY DEF ToolInv, TypeOK
      <4>2. CASE PassOver(d)
        BY <4>1, <4>2 DEF PassOver
      <4>3. CASE NothingToClaim(d)
        BY <4>1, <4>3 DEF NothingToClaim
      <4>4. QED
        BY <1>2, <4>2, <4>3
    <3>4. QED
      BY <3>1, <3>2, <3>3 DEF ToolInv, TypeOK
  <2>2. RunnersApart'
    <3>1. UNCHANGED <<created, status, cand, rpc, rcand>>
      BY <1>2 DEF PassOver, NothingToClaim
    <3>2. \A e \in Drain : pc'[e] \in {"idle", "scan"} <=> pc[e] \in {"idle", "scan"}
      BY <1>2 DEF ToolInv, TypeOK, PassOver, NothingToClaim
    <3>3. QED
      BY <3>1, <3>2 DEF ToolInv, RunnersApart
  <2>3. TellersAlone'
    BY <1>2 DEF ToolInv, TypeOK, TellersAlone, PassOver, NothingToClaim
  <2>4. QED
    BY <2>1, <2>2, <2>3 DEF ToolInv
<1>3. CASE Claim(d)
  <2> DEFINE j == First(todo[d])
  <2>1. j \in Job /\ status[j] = "pending"
    <3>1. todo[d] \in SUBSET Job /\ todo[d] # {}
      BY <1>3 DEF ToolInv, TypeOK, Claim
    <3>2. QED
      BY <1>3, <3>1, FirstIsMember DEF Claim, Claimable
  <2>2. /\ pc' = [pc EXCEPT ![d] = "run"] /\ cand' = [cand EXCEPT ![d] = j]
        /\ todo' = [todo EXCEPT ![d] = {}] /\ status' = [status EXCEPT ![j] = "running"]
        /\ stale' = stale \ {j}
        /\ UNCHANGED <<created, threaded, aged, reapers, reports, stopped>>
    BY <1>3 DEF Claim
  <2> HIDE DEF j
  <2>3. TypeOK'
    BY <2>1, <2>2 DEF ToolInv, TypeOK
  <2>4. RunnersApart'
    BY <2>1, <2>2 DEF ToolInv, TypeOK, RunnersApart, Job
  <2>5. TellersAlone'
    BY <2>1, <2>2 DEF ToolInv, TypeOK, TellersAlone
  <2>6. QED
    BY <2>3, <2>4, <2>5 DEF ToolInv
<1>4. CASE \/ ToolReturns(d) \/ ToolThrows(d) \/ ToolTimesOut(d)
           \/ NoticesStop(d) \/ StillActive(d)
  <2>1. PICK from, to : /\ Moves(d, from, to) /\ from \in {"run", "check"}
                        /\ to \in {"check", "done", "failed", "cancelled"}
    BY <1>4 DEF ToolReturns, ToolThrows, ToolTimesOut, NoticesStop, StillActive
  <2>2. TypeOK'
    BY <2>1 DEF ToolInv, TypeOK, Moves
  <2>3. RunnersApart' /\ TellersAlone'
    BY <2>1 DEF ToolInv, TypeOK, RunnersApart, TellersAlone, Moves
  <2>4. QED
    BY <2>2, <2>3 DEF ToolInv
<1>5. QED
  BY <1>1, <1>2, <1>3, <1>4

\* An outcome is told of a row nobody has told of yet.
LEMMA TellingTypes ==
  ASSUME ToolInv, NEW j \in Job, Enqueue(j), status[j] \in Outcome, reports[j] = <<>>
  PROVE  /\ reports' \in [Job -> Seq(Outcome)]
         /\ \A i \in Job : i # j => reports'[i] = reports[i]
         /\ reports'[j] \in {<<>>, <<status[j]>>}
<1>1. Append(<<>>, status[j]) = <<status[j]>> /\ <<status[j]>> \in Seq(Outcome)
  OBVIOUS
<1>2. reports \in [Job -> Seq(Outcome)]
  BY DEF ToolInv, TypeOK
<1>3. reports' = [reports EXCEPT ![j] = <<status[j]>>] \/ reports' = reports
  BY <1>1 DEF Enqueue
<1>4. QED
  BY <1>1, <1>2, <1>3

\* The drain on its way out of a row.
LEMMA ClosingKeeps ==
  ASSUME ToolInv, NEW d \in Drain,
         (\E o \in {"done", "failed", "cancelled"} : Close(d, o)) \/ Report(d) \/ Crash(d)
  PROVE  ToolInv'
<1> USE ToolJobsAssumption DEF rows, clock, drains, reapers, PC, Status, Outcome
<1>1. ASSUME NEW o \in {"done", "failed", "cancelled"}, Close(d, o) PROVE ToolInv'
  <2>1. cand[d] \in Job /\ status[cand[d]] # "pending" /\ status[cand[d]] # "none"
    BY <1>1, InHand DEF Close
  <2>2. UNCHANGED <<created, threaded, stale, aged, todo, rpc, rcand, waiting, silent,
                    reports, stopped>>
    BY <1>1 DEF Close
  <2>3. CASE pc' = [pc EXCEPT ![d] = "report"]
    <3>1. /\ status[cand[d]] = "running" /\ o \in Outcome /\ cand' = cand
          /\ status' = [status EXCEPT ![cand[d]] = o]
      BY <1>1, <2>1, <2>3 DEF Close, Closes, ToolInv, TypeOK
    <3>2. TypeOK'
      BY <2>1, <2>2, <2>3, <3>1 DEF ToolInv, TypeOK
    <3>3. RunnersApart'
      BY <1>1, <2>1, <2>2, <2>3, <3>1 DEF ToolInv, TypeOK, RunnersApart, Close
    <3>4. TellersAlone'
      BY <1>1, <2>1, <2>2, <2>3, <3>1 DEF ToolInv, TypeOK, RunnersApart, TellersAlone, Close
    <3>5. QED
      BY <3>2, <3>3, <3>4 DEF ToolInv
  <2>4. CASE pc' # [pc EXCEPT ![d] = "report"]
    <3>1. /\ pc' = [pc EXCEPT ![d] = "idle"] /\ cand' = [cand EXCEPT ![d] = NoJob]
          /\ \/ status[cand[d]] = "running" /\ status' = [status EXCEPT ![cand[d]] = o]
             \/ status' = status
      <4>1. \/ pc' = [pc EXCEPT ![d] = "report"]
            \/ pc' = [pc EXCEPT ![d] = "idle"] /\ cand' = [cand EXCEPT ![d] = NoJob]
        BY <1>1, Zenon DEF Close
      <4>2. \/ status[cand[d]] = "running" /\ status' = [status EXCEPT ![cand[d]] = o]
            \/ status' = status
        BY <1>1, Zenon DEF Close, Closes
      <4>3. QED
        BY <2>4, <4>1, <4>2, Zenon
    <3>2. TypeOK'
      BY <1>1, <2>1, <2>2, <3>1 DEF ToolInv, TypeOK, NoJob
    <3>3. RunnersApart'
      BY <1>1, <2>1, <2>2, <3>1 DEF ToolInv, TypeOK, RunnersApart, Close
    <3>4. TellersAlone'
      BY <1>1, <2>1, <2>2, <3>1 DEF ToolInv, TypeOK, RunnersApart, TellersAlone, Close
    <3>5. QED
      BY <3>2, <3>3, <3>4 DEF ToolInv
  <2>5. QED
    BY <2>3, <2>4
<1>2. CASE Report(d)
  <2>1. cand[d] \in Job
    BY <1>2, InHand DEF Report
  <2>2. status[cand[d]] \in Outcome /\ reports[cand[d]] = <<>>
    BY <1>2, <2>1 DEF ToolInv, TellersAlone, Report
  <2>3. /\ reports' \in [Job -> Seq(Outcome)]
        /\ \A i \in Job : i # cand[d] => reports'[i] = reports[i]
        /\ reports'[cand[d]] \in {<<>>, <<status[cand[d]]>>}
    BY <1>2, <2>1, <2>2, TellingTypes DEF Report
  <2>4. TypeOK'
    BY <1>2, <2>3 DEF ToolInv, TypeOK, Report, NoJob
  <2>5. RunnersApart'
    BY <1>2 DEF ToolInv, TypeOK, RunnersApart, Report
  <2>6. TellersAlone'
    <3>1. /\ pc' = [pc EXCEPT ![d] = "idle"] /\ cand' = [cand EXCEPT ![d] = NoJob]
          /\ UNCHANGED <<status, rpc, rcand>>
      BY <1>2 DEF Report
    <3>2. pc[d] = "report" /\ pc \in [Drain -> PC] /\ cand \in [Drain -> Job \cup {NoJob}]
      BY <1>2 DEF Report, ToolInv, TypeOK
    <3>3. \A e \in Drain : pc[e] = "report" /\ cand[e] = cand[d] => e = d
      BY <3>2 DEF ToolInv, RunnersApart
    <3>4. \A e \in Drain : pc'[e] = "report" => e # d /\ pc[e] = "report" /\ cand'[e] = cand[e]
      BY <3>1, <3>2
    <3>5. QED
      BY <2>1, <2>2, <2>3, <3>1, <3>2, <3>3, <3>4 DEF ToolInv, TellersAlone
  <2>7. QED
    BY <2>4, <2>5, <2>6 DEF ToolInv
<1>3. CASE Crash(d)
  <2>1. TypeOK'
    BY <1>3 DEF ToolInv, TypeOK, Crash, NoJob
  <2>2. RunnersApart' /\ TellersAlone'
    BY <1>3 DEF ToolInv, TypeOK, RunnersApart, TellersAlone, Crash
  <2>3. QED
    BY <2>1, <2>2 DEF ToolInv
<1>4. QED
  BY <1>1, <1>2, <1>3

\* The reaper.
LEMMA ReaperKeeps ==
  ASSUME ToolInv, NEW r \in Reaper, Sweeping(r) \/ ReaperDies(r)
  PROVE  ToolInv'
<1> USE ToolJobsAssumption DEF rows, clock, drains, reapers, Status, Outcome, Open
<1>1. CASE StartSweep(r) \/ ReapSkip(r) \/ EndSweep(r) \/ ReaperDies(r)
  <2>1. CASE StartSweep(r)
    BY <2>1 DEF ToolInv, TypeOK, RunnersApart, TellersAlone, StartSweep, SilentRows, WaitingRows
  <2>2. CASE ReapSkip(r)
    BY <2>2 DEF ToolInv, TypeOK, RunnersApart, TellersAlone, ReapSkip, Unlist
  <2>3. CASE Rest(r)
    <3>1. TypeOK'
      BY <2>3 DEF ToolInv, TypeOK, Rest, NoJob
    <3>2. RunnersApart' /\ TellersAlone'
      BY <2>3 DEF ToolInv, TypeOK, RunnersApart, TellersAlone, Rest
    <3>3. QED
      BY <3>1, <3>2 DEF ToolInv
  <2>4. QED
    BY <1>1, <2>1, <2>2, <2>3 DEF EndSweep, ReaperDies
<1>2. CASE ReapClaim(r)
  <2> DEFINE j == First(Listed(r))
  <2>1. j \in Job /\ status[j] \in Open
    <3>1. Listed(r) \in SUBSET Job /\ Listed(r) # {}
      BY <1>2 DEF ToolInv, TypeOK, ReapClaim, Listed
    <3>2. QED
      BY <1>2, <3>1, FirstIsMember DEF ReapClaim
  <2>2. /\ rpc[r] = "sweep"
        /\ status' = [status EXCEPT ![j] = "failed"] /\ Unlist(r, j)
        /\ \/ rpc' = [rpc EXCEPT ![r] = "report"] /\ rcand' = [rcand EXCEPT ![r] = j]
           \/ UNCHANGED <<rpc, rcand>>
        /\ UNCHANGED <<created, threaded, clock, drains, reports, stopped>>
    BY <1>2 DEF ReapClaim
  <2> HIDE DEF j
  <2>3. TypeOK'
    <3>1. /\ status' \in [Job -> Status]
          /\ waiting' \in [Reaper -> SUBSET Job] /\ silent' \in [Reaper -> SUBSET Job]
      BY <2>1, <2>2 DEF ToolInv, TypeOK, Unlist
    <3>2. rpc' \in [Reaper -> {"idle", "sweep", "report"}]
      BY <2>2 DEF ToolInv, TypeOK
    <3>3. rcand' \in [Reaper -> Job \cup {NoJob}]
      BY <2>1, <2>2 DEF ToolInv, TypeOK
    <3>4. UNCHANGED <<created, threaded, stale, aged, pc, cand, todo, reports, stopped>>
      BY <2>2
    <3>5. QED
      BY <3>1, <3>2, <3>3, <3>4 DEF ToolInv, TypeOK
  <2>4. RunnersApart'
    <3>1. UNCHANGED <<created, pc, cand>> /\ j \in 1..created
      BY <2>1, <2>2 DEF ToolInv, RunnersApart, Job, TypeOK
    <3>2. /\ \A i \in Job : status'[i] = "none" <=> i > created
          /\ \A i \in Job : status'[i] = "pending" => status[i] = "pending"
      BY <2>1, <2>2 DEF ToolInv, TypeOK, RunnersApart
    <3>3. \A s \in Reaper : rpc'[s] = "report" => rcand'[s] \in 1..created
      BY <2>2, <3>1 DEF ToolInv, TypeOK, RunnersApart
    <3>4. \A d \in Drain : pc[d] \notin {"idle", "scan"} => cand[d] \in Job
      BY InHand
    <3>5. QED
      BY <3>1, <3>2, <3>3, <3>4 DEF ToolInv, RunnersApart
  <2>5. TellersAlone'
    <3>1. /\ UNCHANGED <<pc, cand, reports>>
          /\ \A i \in Job : status[i] \in Outcome => i # j /\ status'[i] = status[i]
          /\ status'[j] = "failed"
      BY <2>1, <2>2 DEF ToolInv, TypeOK
    <3>2. /\ \A d \in Drain : pc[d] = "report" => cand[d] \in Job
          /\ \A s \in Reaper : rpc[s] = "report" => rcand[s] \in Job
      BY InHand, InReach
    <3>3. \A s \in Reaper : rpc'[s] = "report" =>
            \/ rpc[s] = "report" /\ rcand'[s] = rcand[s]
            \/ s = r /\ rcand'[s] = j
      BY <2>2 DEF ToolInv, TypeOK
    <3>4. QED
      BY <2>1, <3>1, <3>2, <3>3 DEF ToolInv, TellersAlone
  <2>6. QED
    BY <2>3, <2>4, <2>5 DEF ToolInv
<1>3. CASE ReapReport(r)
  <2>1. rcand[r] \in Job
    BY <1>3, InReach DEF ReapReport
  <2>2. status[rcand[r]] \in Outcome /\ reports[rcand[r]] = <<>>
    BY <1>3, <2>1 DEF ToolInv, TellersAlone, ReapReport
  <2>3. /\ reports' \in [Job -> Seq(Outcome)]
        /\ \A i \in Job : i # rcand[r] => reports'[i] = reports[i]
        /\ reports'[rcand[r]] \in {<<>>, <<status[rcand[r]]>>}
    BY <1>3, <2>1, <2>2, TellingTypes DEF ReapReport
  <2>4. TypeOK'
    BY <1>3, <2>3 DEF ToolInv, TypeOK, ReapReport, NoJob
  <2>5. RunnersApart'
    BY <1>3 DEF ToolInv, TypeOK, RunnersApart, ReapReport
  <2>6. TellersAlone'
    BY <1>3, <2>1, <2>2, <2>3 DEF ToolInv, TypeOK, RunnersApart, TellersAlone, ReapReport
  <2>7. QED
    BY <2>4, <2>5, <2>6 DEF ToolInv
<1>4. QED
  BY <1>1, <1>2, <1>3 DEF Sweeping

\* Every step keeps the invariant.
LEMMA ToolStep == ToolInv /\ [Next]_vars => ToolInv'
<1> SUFFICES ASSUME ToolInv, [Next]_vars PROVE ToolInv'
  OBVIOUS
<1>1. CASE Environment
  <2>1. CASE \E b \in BOOLEAN : StartJob(b)
    BY <2>1, StartKeeps
  <2>2. ASSUME NEW j \in Job, StopAtStart(j) \/ StopThread(j) PROVE ToolInv'
    <3>1. {j} \in SUBSET Job /\ {i \in threaded : i >= j} \in SUBSET Job
      BY DEF ToolInv, TypeOK
    <3>2. QED
      BY <2>2, <3>1, StartKeeps DEF StopAtStart, StopThread
  <2>3. ASSUME NEW j \in Job, GoStale(j) \/ Age(j) PROVE ToolInv'
    BY <2>3, ClockKeeps
  <2>4. QED
    BY <1>1, <2>1, <2>2, <2>3 DEF Environment
<1>2. ASSUME NEW d \in Drain, DrainStep(d) PROVE ToolInv'
  BY <1>2, ClaimingKeeps, ClosingKeeps, ClockKeeps DEF DrainStep, Draining
<1>3. ASSUME NEW r \in Reaper, Sweeping(r) \/ ReaperDies(r) PROVE ToolInv'
  BY <1>3, ReaperKeeps
<1>4. CASE UNCHANGED vars
  BY <1>4 DEF vars, rows, clock, drains, reapers, ToolInv, TypeOK, RunnersApart, TellersAlone,
     Tells
<1>5. QED
  BY <1>1, <1>2, <1>3, <1>4 DEF Next

\* In every reachable state a row is in the hands of one drain at most, and its
\* outcome is told, or about to be, by one process at most.
THEOREM ToolInvariant == Spec => []ToolInv
  BY ToolsStart, ToolStep, PTL DEF Spec

\* A step of the abstract specification for each kind of step of the queue.
LEMMA ToolRefines ==
  ASSUME ToolInv, ToolInv', [Next]_vars
  PROVE  [Promise!Next]_(Promise!ovars)
<1> USE DEF rows, clock, drains, reapers, Promise!ovars, Promise!Outcome, Outcome, Open
<1>0. status \in [Job -> Status] /\ reports \in [Job -> Seq(Outcome)]
  BY DEF ToolInv, TypeOK
<1>1. ASSUME NEW b \in BOOLEAN, StartJob(b) PROVE Promise!Next
  <2>1. created + 1 \in Job /\ status[created + 1] = "none"
    BY <1>1, ToolJobsAssumption DEF StartJob, ToolInv, TypeOK, RunnersApart, Job
  <2>2. Promise!Begin(created + 1)
    BY <1>1, <2>1 DEF StartJob, Promise!Begin
  <2>3. QED
    BY <2>1, <2>2 DEF Promise!Next
<1>2. ASSUME NEW S \in SUBSET Job, Stop(S) PROVE Promise!Next
  <2> DEFINE K == {j \in S : status[j] \in Open}
  <2>1. status' = [k \in Job |-> IF k \in K THEN "cancelled" ELSE status[k]]
    BY <1>2 DEF Stop
  <2>2. Promise!Stop(K)
    BY <1>2, <2>1 DEF Stop, Promise!Stop
  <2>3. K \in SUBSET Job
    OBVIOUS
  <2>4. QED
    BY <2>2, <2>3 DEF Promise!Next
<1>3. ASSUME NEW d \in Drain, Claim(d) PROVE Promise!Next
  <2> DEFINE j == First(todo[d])
  <2>1. j \in Job /\ status[j] = "pending"
    <3>1. todo[d] \in SUBSET Job /\ todo[d] # {}
      BY <1>3 DEF ToolInv, TypeOK, Claim
    <3>2. QED
      BY <1>3, <3>1, FirstIsMember DEF Claim, Claimable
  <2>2. Promise!Take(j)
    BY <1>3, <2>1 DEF Claim, Promise!Take
  <2>3. QED
    BY <2>1, <2>2 DEF Promise!Next
<1>4. ASSUME NEW d \in Drain, NEW o \in {"done", "failed", "cancelled"}, Close(d, o)
      PROVE  [Promise!Next]_(Promise!ovars)
  <2>1. cand[d] \in Job /\ reports' = reports
    BY <1>4, InHand DEF Close
  <2>2. CASE status[cand[d]] = "running" /\ status' = [status EXCEPT ![cand[d]] = o]
    <3>1. CASE o = "cancelled"
      <4>1. Promise!Stop({cand[d]})
        BY <1>0, <2>1, <2>2, <3>1 DEF Promise!Stop
      <4>2. QED
        BY <2>1, <4>1 DEF Promise!Next
    <3>2. CASE o # "cancelled"
      <4>1. o \in Promise!Outcome /\ Promise!End(cand[d], o)
        BY <1>4, <2>1, <2>2, <3>2 DEF Promise!End
      <4>2. QED
        BY <2>1, <4>1 DEF Promise!Next
    <3>3. QED
      BY <3>1, <3>2
  <2>3. CASE status' = status
    BY <2>1, <2>3
  <2>4. QED
    BY <1>4, <2>2, <2>3 DEF Close, Closes
<1>5. ASSUME NEW j \in Job, Enqueue(j), status[j] \in Outcome, reports[j] = <<>>, status' = status
      PROVE  [Promise!Next]_(Promise!ovars)
  <2>1. Append(<<>>, status[j]) = <<status[j]>>
    OBVIOUS
  <2>2. reports' = [reports EXCEPT ![j] = <<status[j]>>] \/ reports' = reports
    BY <1>5, <2>1 DEF Enqueue
  <2>3. QED
    BY <1>5, <2>2 DEF Promise!Tell, Promise!Next
<1>6. ASSUME NEW r \in Reaper, ReapClaim(r) PROVE Promise!Next
  <2> DEFINE j == First(Listed(r))
  <2>1. j \in Job /\ status[j] \in Open
    <3>1. Listed(r) \in SUBSET Job /\ Listed(r) # {}
      BY <1>6 DEF ToolInv, TypeOK, ReapClaim, Listed
    <3>2. QED
      BY <1>6, <3>1, FirstIsMember DEF ReapClaim
  <2>2. Promise!End(j, "failed")
    BY <1>6, <2>1 DEF ReapClaim, Promise!End
  <2>3. QED
    BY <2>1, <2>2 DEF Promise!Next
<1>7. CASE UNCHANGED <<status, reports>>
  BY <1>7
<1>8. CASE Environment
  <2>1. ASSUME NEW j \in Job, StopAtStart(j) \/ StopThread(j) PROVE Promise!Next
    <3>1. {j} \in SUBSET Job /\ {i \in threaded : i >= j} \in SUBSET Job
      BY DEF ToolInv, TypeOK
    <3>2. QED
      BY <1>2, <2>1, <3>1 DEF StopAtStart, StopThread
  <2>2. ASSUME NEW j \in Job, GoStale(j) \/ Age(j) PROVE UNCHANGED <<status, reports>>
    BY <2>2 DEF GoStale, Age
  <2>3. QED
    BY <1>1, <1>7, <1>8, <2>1, <2>2 DEF Environment
<1>9. ASSUME NEW d \in Drain, DrainStep(d) PROVE [Promise!Next]_(Promise!ovars)
  <2>1. CASE Report(d)
    <3>1. cand[d] \in Job
      BY <2>1, InHand DEF Report
    <3>2. status[cand[d]] \in Outcome /\ reports[cand[d]] = <<>>
      BY <2>1, <3>1 DEF ToolInv, TellersAlone, Report
    <3>3. QED
      BY <1>5, <2>1, <3>1, <3>2 DEF Report
  <2>2. CASE \/ StartDrain(d) \/ PassOver(d) \/ NothingToClaim(d) \/ ToolReturns(d)
             \/ NoticesStop(d) \/ StillActive(d) \/ Heartbeat(d) \/ ToolThrows(d)
             \/ ToolTimesOut(d) \/ Crash(d)
    BY <1>7, <2>2 DEF StartDrain, PassOver, NothingToClaim, ToolReturns, NoticesStop, StillActive,
       Heartbeat, ToolThrows, ToolTimesOut, Crash, Moves
  <2>3. QED
    BY <1>3, <1>4, <1>9, <2>1, <2>2 DEF DrainStep, Draining
<1>10. ASSUME NEW r \in Reaper, Sweeping(r) \/ ReaperDies(r) PROVE [Promise!Next]_(Promise!ovars)
  <2>1. CASE ReapReport(r)
    <3>1. rcand[r] \in Job
      BY <2>1, InReach DEF ReapReport
    <3>2. status[rcand[r]] \in Outcome /\ reports[rcand[r]] = <<>>
      BY <2>1, <3>1 DEF ToolInv, TellersAlone, ReapReport
    <3>3. QED
      BY <1>5, <2>1, <3>1, <3>2 DEF ReapReport
  <2>2. CASE StartSweep(r) \/ ReapSkip(r) \/ EndSweep(r) \/ ReaperDies(r)
    BY <1>7, <2>2 DEF StartSweep, ReapSkip, EndSweep, ReaperDies, Rest
  <2>3. QED
    BY <1>6, <1>10, <2>1, <2>2 DEF Sweeping
<1>11. CASE UNCHANGED vars
  BY <1>7, <1>11 DEF vars
<1>12. QED
  BY <1>8, <1>9, <1>10, <1>11 DEF Next

\* Claims, closes and reapers realise jobs that are taken up once, end once and
\* are told of once, with the outcome they ended with: ToolJobs implements
\* OneOutcome.
THEOREM ToolRefinement == Spec => OneOutcomeSpec
<1>1. Init => Promise!Init
  BY DEF Init, Promise!Init
<1>2. QED
  BY <1>1, ToolRefines, ToolInvariant, PTL DEF Spec, OneOutcomeSpec, Promise!Spec

\* As long as who has closed a row lives to report it, every outcome of a job of a
\* thread has been told or is about to be.
THEOREM OutcomesComeBack ==
  ASSUME "report" \notin CrashAt, ReapersDie = FALSE, InsertsFail = FALSE
  PROVE  Spec => []EveryOutcomeTold
<1> USE DEF rows, clock, drains, reapers, Outcome, Open
<1> DEFINE ByDrain(j) == \E d \in Drain : pc[d] = "report" /\ cand[d] = j
           ByReaper(j) == \E r \in Reaper : rpc[r] = "report" /\ rcand[r] = j
<1>1. Init => EveryOutcomeTold
  BY DEF Init, EveryOutcomeTold
<1>2. ToolInv /\ EveryOutcomeTold /\ [Next]_vars => EveryOutcomeTold'
  <2> SUFFICES ASSUME ToolInv, EveryOutcomeTold, [Next]_vars,
                      NEW j \in threaded', status'[j] \in Outcome
               PROVE  reports'[j] # <<>> \/ ByDrain(j)' \/ ByReaper(j)'
    BY DEF EveryOutcomeTold, Tellers
  <2>1. /\ status \in [Job -> Status] /\ reports \in [Job -> Seq(Outcome)]
        /\ pc \in [Drain -> PC] /\ rpc \in [Reaper -> {"idle", "sweep", "report"}]
        /\ cand \in [Drain -> Job \cup {NoJob}] /\ rcand \in [Reaper -> Job \cup {NoJob}]
        /\ threaded \subseteq Job
    BY DEF ToolInv, TypeOK
  <2>2. ASSUME j \in threaded, status[j] \in Outcome
        PROVE  reports[j] # <<>> \/ ByDrain(j) \/ ByReaper(j)
    BY <2>2 DEF EveryOutcomeTold, Tellers
  <2>3. CASE j \in threaded /\ status[j] \in Outcome
             /\ UNCHANGED <<reports, rpc, rcand>>
             /\ \A d \in Drain : pc[d] = "report" => pc'[d] = "report" /\ cand'[d] = cand[d]
    BY <2>2, <2>3
  <2>4. CASE Environment
    <3>1. j \in threaded /\ status[j] \in Outcome
      <4>1. ASSUME NEW b \in BOOLEAN, StartJob(b) PROVE j \in threaded /\ status[j] \in Outcome
        <5>1. created + 1 \in Job
          BY <4>1, ToolJobsAssumption DEF StartJob, ToolInv, TypeOK, Job
        <5>2. status' = [status EXCEPT ![created + 1] = "pending"]
              /\ threaded' \subseteq threaded \cup {created + 1}
          BY <4>1 DEF StartJob
        <5>3. j # created + 1
          BY <2>1, <5>1, <5>2
        <5>4. QED
          BY <2>1, <5>2, <5>3
      <4>2. ASSUME NEW S, Stop(S) PROVE j \in threaded /\ status[j] \in Outcome
        BY <2>1, <4>2 DEF Stop
      <4>3. ASSUME NEW i \in Job, GoStale(i) \/ Age(i)
            PROVE  j \in threaded /\ status[j] \in Outcome
        BY <4>3 DEF GoStale, Age
      <4>4. QED
        BY <2>4, <4>1, <4>2, <4>3 DEF Environment, StopAtStart, StopThread
    <3>2. UNCHANGED <<drains, reapers, reports>>
      BY <2>4 DEF Environment, StartJob, StopAtStart, StopThread, Stop, GoStale, Age
    <3>3. QED
      BY <2>3, <3>1, <3>2
  <2>5. ASSUME NEW d \in Drain, DrainStep(d)
        PROVE  reports'[j] # <<>> \/ ByDrain(j)' \/ ByReaper(j)'
    <3>1. CASE \/ StartDrain(d) \/ PassOver(d) \/ NothingToClaim(d) \/ ToolReturns(d)
               \/ NoticesStop(d) \/ StillActive(d) \/ Heartbeat(d) \/ ToolThrows(d)
               \/ ToolTimesOut(d) \/ Crash(d)
      <4>1. UNCHANGED <<rows, reports, rpc, rcand>>
        BY <3>1 DEF StartDrain, PassOver, NothingToClaim, ToolReturns, NoticesStop, StillActive,
           Heartbeat, ToolThrows, ToolTimesOut, Crash, Moves
      <4>2. \A e \in Drain : pc[e] = "report" => pc'[e] = "report" /\ cand'[e] = cand[e]
        BY <3>1, <2>1 DEF StartDrain, PassOver, NothingToClaim, ToolReturns, NoticesStop,
           StillActive, Heartbeat, ToolThrows, ToolTimesOut, Crash, Moves
      <4>3. QED
        BY <2>3, <4>1, <4>2
    <3>2. CASE Claim(d)
      <4>1. /\ pc[d] = "scan" /\ UNCHANGED <<threaded, reports, rpc, rcand>>
            /\ pc' = [pc EXCEPT ![d] = "run"] /\ cand' = [cand EXCEPT ![d] = First(todo[d])]
            /\ status' = [status EXCEPT ![First(todo[d])] = "running"]
        BY <3>2 DEF Claim
      <4>2. status[j] \in Outcome
        BY <2>1, <4>1
      <4>3. \A e \in Drain : pc[e] = "report" => pc'[e] = "report" /\ cand'[e] = cand[e]
        BY <2>1, <4>1
      <4>4. QED
        BY <2>3, <4>1, <4>2, <4>3
    <3>3. ASSUME NEW o \in {"done", "failed", "cancelled"}, Close(d, o)
          PROVE  reports'[j] # <<>> \/ ByDrain(j)' \/ ByReaper(j)'
      <4>1. pc[d] = o /\ cand[d] \in Job /\ UNCHANGED <<threaded, reports, rpc, rcand>>
        BY <3>3, InHand DEF Close
      <4>2. CASE status[cand[d]] = "running" /\ cand[d] = j
        <5>1. status' = [status EXCEPT ![cand[d]] = o] /\ o \in Outcome
          BY <2>1, <3>3, <4>1, <4>2 DEF Close, Closes
        <5>2. pc'[d] = "report" /\ cand'[d] = j
          BY <2>1, <3>3, <4>1, <4>2, <5>1 DEF Close, Closes
        <5>3. QED
          BY <5>2
      <4>3. CASE status[cand[d]] # "running" \/ cand[d] # j
        <5>1. status'[j] = status[j]
          BY <2>1, <3>3, <4>1, <4>3 DEF Close, Closes
        <5>2. \A e \in Drain : pc[e] = "report" => pc'[e] = "report" /\ cand'[e] = cand[e]
          BY <2>1, <3>3, <4>1 DEF Close
        <5>3. QED
          BY <2>3, <4>1, <5>1, <5>2
      <4>4. QED
        BY <4>2, <4>3
    <3>4. CASE Report(d)
      <4>1. cand[d] \in Job /\ reports' = [reports EXCEPT ![cand[d]] = Append(@, status[cand[d]])]
        BY <3>4, InHand DEF Report, Enqueue
      <4>2. UNCHANGED <<rows, rpc, rcand>>
        BY <3>4 DEF Report
      <4>3. CASE cand[d] = j
        <5>1. Append(reports[j], status[j]) # <<>>
          BY <2>1, <4>1, <4>3
        <5>2. QED
          BY <2>1, <4>1, <4>3, <5>1
      <4>4. CASE cand[d] # j
        <5>1. reports'[j] = reports[j]
          BY <2>1, <4>1, <4>4
        <5>2. \A e \in Drain : pc[e] = "report" /\ cand[e] = j
                               => pc'[e] = "report" /\ cand'[e] = j
          BY <2>1, <3>4, <4>4 DEF Report
        <5>3. QED
          BY <2>2, <4>2, <5>1, <5>2
      <4>5. QED
        BY <4>3, <4>4
    <3>5. QED
      BY <2>5, <3>1, <3>2, <3>3, <3>4 DEF DrainStep, Draining
  <2>6. ASSUME NEW r \in Reaper, Sweeping(r) \/ ReaperDies(r)
        PROVE  reports'[j] # <<>> \/ ByDrain(j)' \/ ByReaper(j)'
    <3>1. UNCHANGED <<threaded, pc, cand>>
      BY <2>6 DEF Sweeping, StartSweep, ReapSkip, ReapClaim, ReapReport, EndSweep, ReaperDies, Rest
    <3>2. CASE StartSweep(r) \/ ReapSkip(r) \/ EndSweep(r) \/ ReaperDies(r)
      <4>1. UNCHANGED <<status, reports>>
        BY <3>2 DEF StartSweep, ReapSkip, EndSweep, ReaperDies, Rest
      <4>2. \A s \in Reaper : rpc[s] = "report" => rpc'[s] = "report" /\ rcand'[s] = rcand[s]
        BY <2>1, <3>2 DEF StartSweep, ReapSkip, EndSweep, ReaperDies, Rest
      <4>3. QED
        BY <2>2, <3>1, <4>1, <4>2
    <3>3. CASE ReapClaim(r)
      <4> DEFINE i == First(Listed(r))
      <4>1. /\ rpc[r] = "sweep" /\ status' = [status EXCEPT ![i] = "failed"]
            /\ UNCHANGED reports
            /\ IF i \in threaded
               THEN rpc' = [rpc EXCEPT ![r] = "report"] /\ rcand' = [rcand EXCEPT ![r] = i]
               ELSE UNCHANGED <<rpc, rcand>>
        BY <3>3 DEF ReapClaim, Tells
      <4> HIDE DEF i
      <4>2. CASE i = j
        BY <2>1, <3>1, <4>1, <4>2
      <4>3. CASE i # j
        <5>1. status'[j] = status[j]
          BY <2>1, <4>1, <4>3
        <5>2. \A s \in Reaper : rpc[s] = "report" => rpc'[s] = "report" /\ rcand'[s] = rcand[s]
          BY <2>1, <4>1
        <5>3. QED
          BY <2>2, <3>1, <4>1, <5>1, <5>2
      <4>4. QED
        BY <4>2, <4>3
    <3>4. CASE ReapReport(r)
      <4>1. rcand[r] \in Job /\ reports' = [reports EXCEPT ![rcand[r]] = Append(@, status[rcand[r]])]
        BY <3>4, InReach DEF ReapReport, Enqueue
      <4>2. UNCHANGED status
        BY <3>4 DEF ReapReport
      <4>3. CASE rcand[r] = j
        <5>1. Append(reports[j], status[j]) # <<>>
          BY <2>1, <4>1, <4>3
        <5>2. QED
          BY <2>1, <4>1, <4>3, <5>1
      <4>4. CASE rcand[r] # j
        <5>1. reports'[j] = reports[j]
          BY <2>1, <4>1, <4>4
        <5>2. \A s \in Reaper : rpc[s] = "report" /\ rcand[s] = j
                                => rpc'[s] = "report" /\ rcand'[s] = j
          BY <2>1, <3>4, <4>4 DEF ReapReport
        <5>3. QED
          BY <2>2, <3>1, <4>2, <5>1, <5>2
      <4>5. QED
        BY <4>3, <4>4
    <3>5. QED
      BY <2>6, <3>2, <3>3, <3>4 DEF Sweeping
  <2>7. CASE UNCHANGED vars
    BY <2>3, <2>7 DEF vars
  <2>8. QED
    BY <2>4, <2>5, <2>6, <2>7 DEF Next
<1>3. QED
  BY <1>1, <1>2, ToolInvariant, PTL DEF Spec

\* What a missed beat means while heartbeats arrive and rows do not age: nobody is
\* behind the row.
SilenceIsDeath ==
  /\ aged = {}
  /\ \A j \in stale : Orphan(j) /\ status[j] \notin {"none", "pending"}
  /\ \A r \in Reaper : silent[r] \subseteq stale
  /\ \A r \in Reaper : rpc[r] = "report" => rcand[r] \in stale

\* As long as heartbeats arrive and no row ages, a job told to have failed has no
\* process at it any more.
THEOREM FailuresAreFinal ==
  ASSUME MayStall = FALSE, MayAge = FALSE
  PROVE  Spec => []FailureIsFinal
<1> USE DEF rows, clock, drains, reapers
<1>1. Init => SilenceIsDeath /\ FailureIsFinal
  BY DEF Init, SilenceIsDeath, FailureIsFinal
<1>2. ToolInv /\ SilenceIsDeath /\ [Next]_vars => SilenceIsDeath'
  <2> SUFFICES ASSUME ToolInv, SilenceIsDeath, [Next]_vars PROVE SilenceIsDeath'
    OBVIOUS
  <2> USE DEF SilenceIsDeath, Orphan
  <2>1. /\ status \in [Job -> Status] /\ silent \in [Reaper -> SUBSET Job]
        /\ pc \in [Drain -> PC] /\ rpc \in [Reaper -> {"idle", "sweep", "report"}]
        /\ cand \in [Drain -> Job \cup {NoJob}] /\ rcand \in [Reaper -> Job \cup {NoJob}]
        /\ stale \subseteq Job
    BY DEF ToolInv, TypeOK
  <2>2. CASE UNCHANGED <<aged, silent, rpc, rcand, stale, cand>>
             /\ \A j \in stale : status'[j] \notin {"none", "pending"}
    BY <2>2
  <2>3. CASE Environment
    <3>1. ASSUME NEW b \in BOOLEAN, StartJob(b) PROVE SilenceIsDeath'
      <4>1. created + 1 \notin stale
        BY <3>1, ToolJobsAssumption DEF StartJob, ToolInv, TypeOK, RunnersApart, Job
      <4>2. QED
        BY <2>1, <2>2, <3>1, <4>1 DEF StartJob
    <3>2. ASSUME NEW S, Stop(S) PROVE SilenceIsDeath'
      BY <2>1, <2>2, <3>2 DEF Stop
    <3>3. ASSUME NEW j \in Job, GoStale(j) \/ Age(j) PROVE SilenceIsDeath'
      BY <2>1, <3>3 DEF GoStale, Age
    <3>4. QED
      BY <2>3, <3>1, <3>2, <3>3 DEF Environment, StopAtStart, StopThread
  <2>4. ASSUME NEW d \in Drain, DrainStep(d) PROVE SilenceIsDeath'
    <3>1. CASE \/ StartDrain(d) \/ PassOver(d) \/ NothingToClaim(d) \/ ToolReturns(d)
               \/ NoticesStop(d) \/ StillActive(d) \/ ToolThrows(d) \/ ToolTimesOut(d)
      BY <2>2, <3>1 DEF StartDrain, PassOver, NothingToClaim, ToolReturns, NoticesStop, StillActive,
         ToolThrows, ToolTimesOut, Moves
    <3>2. CASE Heartbeat(d)
      <4>1. cand[d] \notin stale
        OBVIOUS
      <4>2. QED
        BY <2>2, <3>2, <4>1 DEF Heartbeat
    <3>3. CASE Claim(d)
      <4> DEFINE j == First(todo[d])
      <4>1. j \in Job /\ j \notin stale
        <5>1. todo[d] \in SUBSET Job /\ todo[d] # {}
          BY <3>3 DEF ToolInv, TypeOK, Claim
        <5>2. QED
          BY <3>3, <5>1, FirstIsMember DEF Claim, Claimable
      <4>2. /\ cand' = [cand EXCEPT ![d] = j] /\ status' = [status EXCEPT ![j] = "running"]
            /\ stale' = stale \ {j} /\ UNCHANGED <<aged, rpc, rcand, silent>>
        BY <3>3 DEF Claim
      <4> HIDE DEF j
      <4>3. QED
        BY <2>1, <4>1, <4>2
    <3>4. ASSUME NEW o \in {"done", "failed", "cancelled"}, Close(d, o) PROVE SilenceIsDeath'
      <4>1. UNCHANGED <<aged, silent, rpc, rcand, stale>>
        BY <3>4 DEF Close
      <4>2. \A j \in stale : status'[j] \notin {"none", "pending"}
        BY <2>1, <3>4 DEF Close
      <4>3. \A e \in Drain : cand'[e] = cand[e] \/ cand'[e] = NoJob
        BY <2>1, <3>4 DEF Close
      <4>4. NoJob \notin stale
        BY <2>1 DEF Job, NoJob
      <4>5. QED
        BY <4>1, <4>2, <4>3, <4>4
    <3>5. CASE Report(d) \/ Crash(d)
      <4>1. UNCHANGED <<aged, silent, rpc, rcand, stale, status>>
        BY <3>5 DEF Report, Crash
      <4>2. \A e \in Drain : cand'[e] = cand[e] \/ cand'[e] = NoJob
        BY <2>1, <3>5 DEF Report, Crash
      <4>3. NoJob \notin stale
        BY <2>1 DEF Job, NoJob
      <4>4. QED
        BY <4>1, <4>2, <4>3
    <3>6. QED
      BY <2>4, <3>1, <3>2, <3>3, <3>4, <3>5 DEF DrainStep, Draining
  <2>5. ASSUME NEW r \in Reaper, Sweeping(r) \/ ReaperDies(r) PROVE SilenceIsDeath'
    <3>1. UNCHANGED <<aged, stale, cand>>
      BY <2>5 DEF Sweeping, StartSweep, ReapSkip, ReapClaim, ReapReport, EndSweep, ReaperDies, Rest
    <3>2. CASE StartSweep(r)
      BY <2>1, <3>1, <3>2 DEF StartSweep, SilentRows
    <3>3. CASE ReapSkip(r)
      BY <2>1, <3>1, <3>3 DEF ReapSkip, Unlist
    <3>4. CASE ReapClaim(r)
      <4> DEFINE j == First(Listed(r))
      <4>1. j \in silent[r] /\ j \in stale
        BY <3>4 DEF ReapClaim, Dead
      <4>2. /\ status' = [status EXCEPT ![j] = "failed"] /\ Unlist(r, j)
            /\ \/ rpc' = [rpc EXCEPT ![r] = "report"] /\ rcand' = [rcand EXCEPT ![r] = j]
               \/ UNCHANGED <<rpc, rcand>>
        BY <3>4 DEF ReapClaim
      <4> HIDE DEF j
      <4>3. QED
        BY <2>1, <3>1, <4>1, <4>2 DEF Unlist
    <3>5. CASE ReapReport(r) \/ EndSweep(r) \/ ReaperDies(r)
      <4>1. UNCHANGED status
        BY <3>5 DEF ReapReport, EndSweep, ReaperDies, Rest
      <4>2. \A s \in Reaper : silent'[s] \subseteq silent[s]
        BY <2>1, <3>5 DEF ReapReport, EndSweep, ReaperDies, Rest
      <4>3. \A s \in Reaper : rpc'[s] = "report" => rpc[s] = "report" /\ rcand'[s] = rcand[s]
        BY <2>1, <3>5 DEF ReapReport, EndSweep, ReaperDies, Rest
      <4>4. QED
        BY <3>1, <4>1, <4>2, <4>3
    <3>6. QED
      BY <2>5, <3>2, <3>3, <3>4, <3>5 DEF Sweeping
  <2>6. CASE UNCHANGED vars
    BY <2>2, <2>6 DEF vars
  <2>7. QED
    BY <2>3, <2>4, <2>5, <2>6 DEF Next
<1>3. ToolInv /\ SilenceIsDeath /\ FailureIsFinal /\ [Next]_vars => FailureIsFinal'
  <2> SUFFICES ASSUME ToolInv, SilenceIsDeath, FailureIsFinal, [Next]_vars,
                      NEW j \in Job, reports'[j] = <<"failed">>, NEW d \in Drain
               PROVE  cand'[d] # j
    BY DEF FailureIsFinal
  <2>1. /\ status \in [Job -> Status] /\ reports \in [Job -> Seq(Outcome)]
        /\ pc \in [Drain -> PC] /\ cand \in [Drain -> Job \cup {NoJob}] /\ NoJob \notin Job
    BY DEF ToolInv, TypeOK, Job, NoJob
  <2>2. CASE reports'[j] = reports[j]
    <3>1. cand[d] # j /\ status[j] # "pending"
      BY <2>2 DEF FailureIsFinal, ToolInv, TellersAlone, Outcome
    <3>2. cand'[d] = cand[d] \/ cand'[d] = NoJob \/ status[cand'[d]] = "pending"
      <4>1. CASE UNCHANGED cand
        BY <4>1
      <4>2. ASSUME NEW e \in Drain, Claim(e)
            PROVE  cand'[d] = cand[d] \/ status[cand'[d]] = "pending"
        BY <2>1, <4>2 DEF Claim, Claimable
      <4>3. ASSUME NEW e \in Drain,
                   (\E o \in {"done", "failed", "cancelled"} : Close(e, o)) \/ Report(e) \/ Crash(e)
            PROVE  cand'[d] = cand[d] \/ cand'[d] = NoJob
        BY <2>1, <4>3 DEF Close, Report, Crash
      <4>4. CASE Environment
        BY <4>1, <4>4 DEF Environment, StartJob, StopAtStart, StopThread, Stop, GoStale, Age
      <4>5. ASSUME NEW e \in Drain,
                   \/ StartDrain(e) \/ PassOver(e) \/ NothingToClaim(e) \/ ToolReturns(e)
                   \/ NoticesStop(e) \/ StillActive(e) \/ Heartbeat(e) \/ ToolThrows(e)
                   \/ ToolTimesOut(e)
            PROVE  UNCHANGED cand
        BY <4>5 DEF StartDrain, PassOver, NothingToClaim, ToolReturns, NoticesStop, StillActive,
           Heartbeat, ToolThrows, ToolTimesOut, Moves
      <4>6. ASSUME NEW r \in Reaper, Sweeping(r) \/ ReaperDies(r) PROVE UNCHANGED cand
        BY <4>6 DEF Sweeping, StartSweep, ReapSkip, ReapClaim, ReapReport, EndSweep, ReaperDies, Rest
      <4>7. CASE UNCHANGED vars
        BY <4>1, <4>7 DEF vars
      <4>8. QED
        BY <4>1, <4>2, <4>3, <4>4, <4>5, <4>6, <4>7 DEF Next, DrainStep, Draining
    <3>3. QED
      BY <2>1, <3>1, <3>2
  <2>3. CASE reports'[j] # reports[j]
    <3>1. \/ \E e \in Drain : Report(e) \/ \E r \in Reaper : ReapReport(r)
      <4>1. CASE UNCHANGED reports
        BY <2>3, <4>1
      <4>2. CASE Environment
        BY <4>1, <4>2 DEF Environment, StartJob, StopAtStart, StopThread, Stop, GoStale, Age
      <4>3. ASSUME NEW e \in Drain, DrainStep(e) PROVE Report(e) \/ UNCHANGED reports
        BY <4>3 DEF DrainStep, Draining, StartDrain, PassOver, NothingToClaim, ToolReturns,
           NoticesStop, StillActive, Heartbeat, ToolThrows, ToolTimesOut, Moves, Claim, Close, Crash
      <4>4. ASSUME NEW r \in Reaper, Sweeping(r) \/ ReaperDies(r)
            PROVE  ReapReport(r) \/ UNCHANGED reports
        BY <4>4 DEF Sweeping, StartSweep, ReapSkip, ReapClaim, EndSweep, ReaperDies, Rest
      <4>5. CASE UNCHANGED vars
        BY <4>1, <4>5 DEF vars
      <4>6. QED
        BY <4>1, <4>2, <4>3, <4>4, <4>5 DEF Next
    <3>2. ASSUME NEW e \in Drain, Report(e) PROVE cand'[d] # j
      <4>1. cand[e] \in Job /\ pc[e] = "report" /\ cand' = [cand EXCEPT ![e] = NoJob]
        BY <3>2, InHand DEF Report
      <4>2. cand[e] = j
        BY <2>1, <2>3, <3>2, <4>1 DEF Report, Enqueue
      <4>3. d # e => cand[d] # j
        <5>1. ASSUME cand[d] = j PROVE pc[d] \notin {"idle", "scan"}
          BY <2>1, <5>1 DEF ToolInv, RunnersApart
        <5>2. QED
          BY <4>1, <4>2, <5>1 DEF ToolInv, RunnersApart
      <4>4. QED
        BY <2>1, <4>1, <4>3
    <3>3. ASSUME NEW r \in Reaper, ReapReport(r) PROVE cand'[d] # j
      <4>1. rcand[r] \in stale /\ UNCHANGED cand
        BY <3>3 DEF ReapReport, SilenceIsDeath
      <4>2. rcand[r] = j
        BY <2>1, <2>3, <3>3 DEF ReapReport, Enqueue
      <4>3. QED
        BY <4>1, <4>2 DEF SilenceIsDeath, Orphan
    <3>4. QED
      BY <3>1, <3>2, <3>3
  <2>4. QED
    BY <2>2, <2>3
<1>4. QED
  BY <1>1, <1>2, <1>3, ToolInvariant, PTL DEF Spec

==============================================================================
