------------------------------ MODULE ToolJobs ------------------------------
(***************************************************************************)
(* The long tools a turn starts and does not wait for: rows of chat_jobs   *)
(* that startLongToolJob inserts (src/lib/agent/tools/shared.ts), that     *)
(* processNextPendingToolJob claims, runs and closes                       *)
(* (src/lib/server/chat/queue.ts), that reapStaleChatJobs closes when      *)
(* their process is dead (job-cancel.ts), and whose outcome                *)
(* enqueueToolJobReport brings back to the thread as a queued turn         *)
(* (tool-job-report.ts): an Enqueue of ChatQueue.                          *)
(*                                                                         *)
(* Every action is one database call, or the calls between two points at   *)
(* which another process can act on the same rows.                         *)
(***************************************************************************)
EXTENDS Naturals, Sequences, FiniteSets

CONSTANTS
  Drain,         \* processes that run drainChatQueue
  Reaper,        \* processes that run reapStaleChatJobs
  MaxJobs,       \* bound of the model: rows ever inserted
  Window,        \* candidates a drain reads, the limit(10) of the code
  CrashAt,       \* points at which a drain may die, or its update fail
  ReapersDie,    \* a reaper may die in the middle of a sweep
  InsertsFail,   \* the insert of a report may fail
  MayStall,      \* a live job's heartbeat may stop reaching its row
  MayAge,        \* a row may outlive the pending limit
  MayCancel,     \* somebody may press Stop
  MayTimeOut     \* a fetch of the tool may time out, or a read of the row fail

PC == {"idle", "scan", "run", "check", "done", "failed", "cancelled", "report"}

ASSUME ToolJobsAssumption ==
  /\ MaxJobs \in Nat \ {0} /\ Window \in Nat \ {0}
  /\ CrashAt \subseteq PC \ {"idle"}
  /\ {ReapersDie, InsertsFail, MayStall, MayAge, MayCancel, MayTimeOut} \subseteq BOOLEAN

Job == 1..MaxJobs     \* in the order of created_at
NoJob == 0

VARIABLES
  created,     \* rows inserted so far
  threaded,    \* rows with a thread_id: of one thread, the others have none
  status,      \* chat_jobs.status; "none" before the insert
  stale,       \* rows whose partial.at is past CHAT_HEARTBEAT_STALE_MS
  aged,        \* rows whose created_at is past CHAT_PENDING_STALE_MS
  pc, cand,    \* per drain: its point in the code and the row in hand
  todo,        \* per drain: the candidates it read and has not tried
  rpc, rcand,  \* per reaper: its point in the code and the row claimed
  waiting,     \* per reaper: rows it listed as pending
  silent,      \* per reaper: rows it listed as running, without a fresh beat
  reports,     \* the outcomes enqueued for each row, in order
  stopped      \* rows somebody has stopped (history)

rows == <<created, threaded, status>>
clock == <<stale, aged>>
drains == <<pc, cand, todo>>
reapers == <<rpc, rcand, waiting, silent>>
vars == <<rows, clock, drains, reapers, reports, stopped>>

Status == {"none", "pending", "running", "done", "failed", "cancelled"}
Open == {"pending", "running"}
Outcome == {"done", "failed"}

TypeOK ==
  /\ created \in 0..MaxJobs
  /\ threaded \subseteq Job
  /\ status \in [Job -> Status]
  /\ stale \subseteq Job /\ aged \subseteq Job
  /\ pc \in [Drain -> PC] /\ cand \in [Drain -> Job \cup {NoJob}]
  /\ todo \in [Drain -> SUBSET Job]
  /\ rpc \in [Reaper -> {"idle", "sweep", "report"}]
  /\ rcand \in [Reaper -> Job \cup {NoJob}]
  /\ waiting \in [Reaper -> SUBSET Job] /\ silent \in [Reaper -> SUBSET Job]
  /\ reports \in [Job -> Seq(Outcome)]
  /\ stopped \subseteq Job

Init ==
  /\ created = 0 /\ threaded = {} /\ status = [j \in Job |-> "none"]
  /\ stale = {} /\ aged = {}
  /\ pc = [d \in Drain |-> "idle"] /\ cand = [d \in Drain |-> NoJob]
  /\ todo = [d \in Drain |-> {}]
  /\ rpc = [r \in Reaper |-> "idle"] /\ rcand = [r \in Reaper |-> NoJob]
  /\ waiting = [r \in Reaper |-> {}] /\ silent = [r \in Reaper |-> {}]
  /\ reports = [j \in Job |-> <<>>] /\ stopped = {}

------------------------------------------------------------------------------
(* Starting and stopping a job *)

\* startLongToolJob, from a thread or (CLI, cron) from none.
StartJob(inThread) ==
  /\ created < MaxJobs
  /\ created' = created + 1
  /\ status' = [status EXCEPT ![created + 1] = "pending"]
  /\ threaded' = IF inThread THEN threaded \cup {created + 1} ELSE threaded
  /\ UNCHANGED <<clock, drains, reapers, reports, stopped>>

\* Rows that are still open become cancelled.
Stop(S) ==
  /\ MayCancel
  /\ \E j \in S : status[j] \in Open
  /\ status' = [j \in Job |-> IF j \in S /\ status[j] \in Open THEN "cancelled" ELSE status[j]]
  /\ stopped' = stopped \cup {j \in S : status[j] \in Open}
  /\ UNCHANGED <<created, threaded, clock, drains, reapers, reports>>

\* startLongToolJob finds that Stop was pressed during its insert.
StopAtStart(j) == Stop({j})

\* cancelThreadChatJobs: what the stopped turn had started, and all after it.
StopThread(j) == Stop({i \in threaded : i >= j})

------------------------------------------------------------------------------
(* processNextPendingToolJob *)

Oldest(S, n) == {j \in S : Cardinality({i \in S : i < j}) < n}
First(S) == CHOOSE j \in S : \A i \in S : j <= i
AllPending == {j \in Job : status[j] = "pending"}

StartDrain(d) ==
  /\ pc[d] = "idle" /\ AllPending # {}
  /\ pc' = [pc EXCEPT ![d] = "scan"]
  /\ todo' = [todo EXCEPT ![d] = Oldest(AllPending, Window)]
  /\ UNCHANGED <<rows, clock, cand, reapers, reports, stopped>>

\* Mutant: the claim takes a row another drain is running.
ClaimableAgain(j) == status[j] \in Open

Claimable(j) == status[j] = "pending"

\* The next candidate is wreckage, or another drain has it by now.
PassOver(d) ==
  /\ pc[d] = "scan" /\ todo[d] # {}
  /\ First(todo[d]) \in aged \/ ~Claimable(First(todo[d]))
  /\ todo' = [todo EXCEPT ![d] = @ \ {First(@)}]
  /\ UNCHANGED <<rows, clock, pc, cand, reapers, reports, stopped>>

Claim(d) ==
  LET j == First(todo[d]) IN
  /\ pc[d] = "scan" /\ todo[d] # {}
  /\ j \notin aged /\ Claimable(j)
  /\ pc' = [pc EXCEPT ![d] = "run"]
  /\ cand' = [cand EXCEPT ![d] = j]
  /\ todo' = [todo EXCEPT ![d] = {}]
  /\ status' = [status EXCEPT ![j] = "running"]
  /\ stale' = stale \ {j}
  /\ UNCHANGED <<created, threaded, aged, reapers, reports, stopped>>

NothingToClaim(d) ==
  /\ pc[d] = "scan" /\ todo[d] = {}
  /\ pc' = [pc EXCEPT ![d] = "idle"]
  /\ UNCHANGED <<rows, clock, cand, todo, reapers, reports, stopped>>

Heartbeat(d) ==
  /\ pc[d] \notin {"idle", "scan"}
  /\ status[cand[d]] = "running"
  /\ stale' = stale \ {cand[d]}
  /\ UNCHANGED <<rows, aged, drains, reapers, reports, stopped>>

\* A step of the drain that is not an update of the row: the tool returned or
\* threw.
Moves(d, from, to) ==
  /\ pc[d] = from
  /\ pc' = [pc EXCEPT ![d] = to]
  /\ UNCHANGED <<rows, clock, cand, todo, reapers, reports, stopped>>

ToolReturns(d) == Moves(d, "run", "check")
ToolThrows(d) == Moves(d, "run", "failed")

\* A fetch that timed out throws an AbortError, and a read of the row that fails
\* in assertActive finds no status: the code takes both for a Stop.
ToolTimesOut(d) ==
  /\ MayTimeOut /\ pc[d] \in {"run", "check"}
  /\ Moves(d, pc[d], "cancelled")

\* createJobCancellation.assertActive, between the steps of a tool and at its end.
NoticesStop(d) ==
  /\ pc[d] \in {"run", "check"} /\ status[cand[d]] # "running"
  /\ Moves(d, pc[d], "cancelled")

StillActive(d) == pc[d] = "check" /\ status[cand[d]] = "running" /\ Moves(d, "check", "done")

\* Mutant: the close does not look at what it closes.
ClosesAnything(j) == status[j] \in Status

Closes(j) == status[j] = "running"

\* The close is an update that matches only a running row; who closed the row,
\* and nobody else, reports, unless there is no thread to report to.  An update
\* that fails leaves what a crash at this point leaves.
Close(d, o) ==
  LET j == cand[d] IN
  /\ pc[d] = o
  /\ status' = IF Closes(j) THEN [status EXCEPT ![j] = o] ELSE status
  /\ IF Closes(j) /\ o \in Outcome /\ j \in threaded
     THEN pc' = [pc EXCEPT ![d] = "report"] /\ UNCHANGED cand
     ELSE pc' = [pc EXCEPT ![d] = "idle"] /\ cand' = [cand EXCEPT ![d] = NoJob]
  /\ UNCHANGED <<created, threaded, clock, todo, reapers, reports, stopped>>

\* enqueueToolJobReport: the outcome becomes a queued turn of the thread; an
\* insert that fails is logged and forgotten.
Enqueue(j) ==
  \/ reports' = [reports EXCEPT ![j] = Append(@, status[j])]
  \/ InsertsFail /\ UNCHANGED reports

Report(d) ==
  /\ pc[d] = "report"
  /\ Enqueue(cand[d])
  /\ pc' = [pc EXCEPT ![d] = "idle"]
  /\ cand' = [cand EXCEPT ![d] = NoJob]
  /\ UNCHANGED <<rows, clock, todo, reapers, stopped>>

Crash(d) ==
  /\ pc[d] \in CrashAt
  /\ pc' = [pc EXCEPT ![d] = "idle"]
  /\ cand' = [cand EXCEPT ![d] = NoJob]
  /\ todo' = [todo EXCEPT ![d] = {}]
  /\ UNCHANGED <<rows, clock, reapers, reports, stopped>>

------------------------------------------------------------------------------
(* Time *)

\* No process is behind the row any more.  With MayStall a beat may also be late:
\* an update lost, a process paused, or a sweep too slow, which compares the beat
\* it listed with the clock of the moment.
Orphan(j) == \A d \in Drain : cand[d] # j

GoStale(j) ==
  /\ status[j] = "running" /\ j \notin stale
  /\ MayStall \/ Orphan(j)
  /\ stale' = stale \cup {j}
  /\ UNCHANGED <<rows, aged, drains, reapers, reports, stopped>>

Age(j) ==
  /\ MayAge /\ status[j] \in Open /\ j \notin aged
  /\ aged' = aged \cup {j}
  /\ UNCHANGED <<rows, stale, drains, reapers, reports, stopped>>

------------------------------------------------------------------------------
(* reapStaleChatJobs, on tool jobs *)

SilentRows == {j \in Job : status[j] = "running" /\ j \in stale}

\* Without MayAge no pending row can be found dead.
WaitingRows == {j \in Job : status[j] = "pending" /\ MayAge}

StartSweep(r) ==
  /\ rpc[r] = "idle" /\ SilentRows \cup WaitingRows # {}
  /\ rpc' = [rpc EXCEPT ![r] = "sweep"]
  /\ waiting' = [waiting EXCEPT ![r] = WaitingRows]
  /\ silent' = [silent EXCEPT ![r] = SilentRows]
  /\ UNCHANGED <<rows, clock, drains, rcand, reports, stopped>>

Listed(r) == waiting[r] \cup silent[r]

\* classifyChatJob, on the row as it was listed and the clock of the moment.
Dead(r, j) == j \in silent[r] \/ (j \in waiting[r] /\ j \in aged)

Unlist(r, j) ==
  /\ waiting' = [waiting EXCEPT ![r] = @ \ {j}]
  /\ silent' = [silent EXCEPT ![r] = @ \ {j}]

\* Believed alive, or closed by somebody else since.
ReapSkip(r) ==
  LET j == First(Listed(r)) IN
  /\ rpc[r] = "sweep" /\ Listed(r) # {}
  /\ ~Dead(r, j) \/ status[j] \notin Open
  /\ Unlist(r, j)
  /\ UNCHANGED <<rows, clock, drains, rpc, rcand, reports, stopped>>

\* Mutant: the reaper closes the row and tells nobody.
TellsNobody(j) == j \in threaded /\ j \notin Job

\* A job that has a thread to come back to.
Tells(j) == j \in threaded

ReapClaim(r) ==
  LET j == First(Listed(r)) IN
  /\ rpc[r] = "sweep" /\ Listed(r) # {}
  /\ Dead(r, j) /\ status[j] \in Open
  /\ status' = [status EXCEPT ![j] = "failed"]
  /\ Unlist(r, j)
  /\ IF Tells(j)
     THEN rpc' = [rpc EXCEPT ![r] = "report"] /\ rcand' = [rcand EXCEPT ![r] = j]
     ELSE UNCHANGED <<rpc, rcand>>
  /\ UNCHANGED <<created, threaded, clock, drains, reports, stopped>>

ReapReport(r) ==
  /\ rpc[r] = "report"
  /\ Enqueue(rcand[r])
  /\ rpc' = [rpc EXCEPT ![r] = "sweep"]
  /\ rcand' = [rcand EXCEPT ![r] = NoJob]
  /\ UNCHANGED <<rows, clock, drains, waiting, silent, stopped>>

Rest(r) ==
  /\ rpc' = [rpc EXCEPT ![r] = "idle"]
  /\ rcand' = [rcand EXCEPT ![r] = NoJob]
  /\ waiting' = [waiting EXCEPT ![r] = {}]
  /\ silent' = [silent EXCEPT ![r] = {}]
  /\ UNCHANGED <<rows, clock, drains, reports, stopped>>

EndSweep(r) == rpc[r] = "sweep" /\ Listed(r) = {} /\ Rest(r)

ReaperDies(r) == ReapersDie /\ rpc[r] # "idle" /\ Rest(r)

------------------------------------------------------------------------------
(* The specification *)

Environment ==
  \/ \E b \in BOOLEAN : StartJob(b)
  \/ \E j \in Job : StopAtStart(j) \/ StopThread(j) \/ GoStale(j) \/ Age(j)

\* What a drain does next when nothing goes wrong.
Draining(d) ==
  \/ StartDrain(d) \/ PassOver(d) \/ Claim(d) \/ NothingToClaim(d)
  \/ ToolReturns(d) \/ NoticesStop(d) \/ StillActive(d)
  \/ (\E o \in {"done", "failed", "cancelled"} : Close(d, o)) \/ Report(d)

DrainStep(d) ==
  Draining(d) \/ Heartbeat(d) \/ ToolThrows(d) \/ ToolTimesOut(d) \/ Crash(d)

Sweeping(r) == StartSweep(r) \/ ReapSkip(r) \/ ReapClaim(r) \/ ReapReport(r) \/ EndSweep(r)

Next == \/ Environment
        \/ \E d \in Drain : DrainStep(d)
        \/ \E r \in Reaper : Sweeping(r) \/ ReaperDies(r)

Spec == Init /\ [][Next]_vars

\* The cron starts a drain and a sweep every two minutes, the platform runs what
\* it started until a crash, and clocks advance.
Fairness ==
  /\ \A d \in Drain : WF_vars(Draining(d))
  /\ \A r \in Reaper : WF_vars(Sweeping(r))
  /\ \A j \in Job : WF_vars(GoStale(j)) /\ WF_vars(Age(j))

FairSpec == Spec /\ Fairness

------------------------------------------------------------------------------
(* Properties *)

\* Who may bring back the outcome of row j.
Tellers(j) == {p \in Drain : pc[p] = "report" /\ cand[p] = j}
              \cup {r \in Reaper : rpc[r] = "report" /\ rcand[r] = j}

\* Drains in hand of a row hold a row of the table, and each its own.
RunnersApart ==
  /\ \A j \in Job : status[j] = "none" <=> j > created
  /\ \A d \in Drain : IF pc[d] \in {"idle", "scan"} THEN cand[d] = NoJob ELSE cand[d] \in 1..created
  /\ \A d, e \in Drain : pc[d] \notin {"idle", "scan"} /\ pc[e] \notin {"idle", "scan"}
                         /\ cand[d] = cand[e] => d = e
  /\ \A d \in Drain : pc[d] \notin {"idle", "scan"} => status[cand[d]] # "pending"
  /\ \A r \in Reaper : rpc[r] = "report" => rcand[r] \in 1..created

\* Whoever is about to report a row has closed it with the outcome it will tell,
\* nobody else is about to, and nobody has: the update that closed the row
\* matched for one process only (queue.ts, "solo chi si prende davvero la riga
\* accoda il rientro").
TellersAlone ==
  /\ \A j \in Job : reports[j] # <<>> =>
       /\ status[j] \in Outcome /\ reports[j] = <<status[j]>>
       /\ \A d \in Drain : ~ (pc[d] = "report" /\ cand[d] = j)
       /\ \A r \in Reaper : ~ (rpc[r] = "report" /\ rcand[r] = j)
  /\ \A d \in Drain : pc[d] = "report" => status[cand[d]] \in Outcome
  /\ \A r \in Reaper : rpc[r] = "report" => status[rcand[r]] \in Outcome
  /\ \A d \in Drain, r \in Reaper : ~ (pc[d] = "report" /\ rpc[r] = "report" /\ cand[d] = rcand[r])
  /\ \A r, s \in Reaper : rpc[r] = "report" /\ rpc[s] = "report" /\ rcand[r] = rcand[s] => r = s

\* The inductive invariant behind the refinement.
ToolInv == TypeOK /\ RunnersApart /\ TellersAlone

\* Every outcome comes back: a job of a thread that is over, and that nobody
\* stopped, has been reported or is about to be (tool-job-report.ts, "un solo
\* punto di rientro per tutti gli esiti").
EveryOutcomeTold ==
  \A j \in threaded : status[j] \in Outcome => reports[j] # <<>> \/ Tellers(j) # {}

\* A job is told to have failed only when no process is still at it: otherwise
\* the work, and what it costs, would go on after the user was told to try again.
\* It needs heartbeats to arrive and rows that do not age.
FailureIsFinal ==
  \A j \in Job : reports[j] = <<"failed">> => \A d \in Drain : cand[d] # j

\* A job started from a thread is told to have ended, unless somebody stops it.
EveryJobComesBack ==
  \A j \in Job : j \in threaded ~> reports[j] # <<>> \/ j \in stopped

\* queue.ts: "Anche il fallimento rientra: il silenzio lascerebbe l'utente con
\* 'avviato' e mai un esito": only a Stop ends a job without a word.
SilenceMeansStop == \A j \in Job : status[j] = "cancelled" => j \in stopped

------------------------------------------------------------------------------
(* ToolJobs implements OneOutcome *)

Promise == INSTANCE OneOutcome WITH Task <- Job, stage <- status, told <- reports

\* Claims, closes and reapers realise jobs taken up once, ended once and told
\* once, with the outcome they ended with.
OneOutcomeSpec == Promise!Spec

==============================================================================
