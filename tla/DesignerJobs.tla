---------------------------- MODULE DesignerJobs ----------------------------
(***************************************************************************)
(* The long turns of the designers, Motion and the UGC batch: rows of      *)
(* chat_jobs that a page inserts and runs itself, cut into slices by the   *)
(* wall of the platform.  A slice that is cut inserts a row for the rest   *)
(* of the work, its child, and points its own row to it; a worker claims   *)
(* the child and runs the next slice; a sweep makes the child of a slice   *)
(* whose process is dead (src/lib/server/designer-jobs.ts,                 *)
(* designer-work.ts, the pages motion-video and media-generator).          *)
(*                                                                         *)
(* Every action is one database call, with what the process decides before *)
(* its next one.                                                           *)
(***************************************************************************)
EXTENDS Naturals, FiniteSets

CONSTANTS
  Page,       \* requests that insert a row and run its slice
  Worker,     \* processes that run drainDesignerQueue
  Reaper,     \* processes that run reapStaleDesignerJobs
  MaxDepth,   \* DESIGNER_MAX_CONTINUATIONS, 24 in the code
  Window,     \* candidates a worker reads, the limit(10) of the code
  MaxJobs,    \* bound of the model: rows ever inserted
  MaxRoots,   \* bound of the model: rows inserted by pages
  MaxFaults   \* bound of the model: deaths, failed calls and late heartbeats

ASSUME DesignerAssumption ==
  /\ MaxJobs \in Nat /\ MaxDepth \in Nat /\ Window \in Nat \ {0}
  /\ MaxRoots \in Nat /\ MaxFaults \in Nat
  /\ Page \cap Worker = {}

Job == 1..MaxJobs     \* in the order of created_at
NoJob == 0
Runner == Page \cup Worker

VARIABLES
  created,     \* rows inserted so far
  status,      \* chat_jobs.status; "none" before the insert
  ugc,         \* rows of the UGC batch, the others are Motion's
  parent,      \* input_params.parent_job_id
  depth,       \* input_params.continuation_depth
  next,        \* result.continuation_job_id
  stale,       \* rows whose partial.at is past CHAT_HEARTBEAT_STALE_MS
  aged,        \* rows whose created_at is past CHAT_PENDING_STALE_MS
  pc, cand,    \* per runner: its point in the code and the row in hand
  todo,        \* per runner: the candidates it read and has not tried
  rest,        \* per runner: what became of the rest of the work of its slice
  child,       \* per runner: the row it inserted and has not pointed to
  rpc, rcand,  \* per reaper: its point in the code and the row it acts on
  rchild,      \* per reaper: the row it inserted and has not pointed to
  waiting,     \* per reaper: rows it listed as pending
  silent,      \* per reaper: rows it listed as running, without a fresh beat
  verdict,     \* why a row ended, as its process saw it (history)
  doubtful,    \* rows that two processes acted on, or half continued (history)
  faults       \* faults so far

rows == <<created, status, ugc, parent, depth, next>>
clock == <<stale, aged>>
runners == <<pc, cand, todo, rest, child>>
reapers == <<rpc, rcand, rchild, waiting, silent>>
history == <<verdict, doubtful>>
vars == <<rows, clock, runners, reapers, history, faults>>

Status == {"none", "pending", "running", "done", "failed"}
Open == {"pending", "running"}
Closed == {"done", "failed"}
PC == {"idle", "scan", "claim", "slice", "midmark", "mark", "done", "failed"}
Verdict == {"none", "over", "threw", "refused", "waited"}

DesignerTypeOK ==
  /\ created \in 0..MaxJobs
  /\ status \in [Job -> Status]
  /\ ugc \subseteq Job
  /\ parent \in [Job -> Job \cup {NoJob}] /\ next \in [Job -> Job \cup {NoJob}]
  /\ depth \in [Job -> 0..MaxDepth]
  /\ stale \subseteq Job /\ aged \subseteq Job
  /\ pc \in [Runner -> PC] /\ cand \in [Runner -> Job \cup {NoJob}]
  /\ todo \in [Runner -> SUBSET Job]
  /\ rest \in [Runner -> {"untried", "refused", "child"}]
  /\ child \in [Runner -> Job \cup {NoJob}]
  /\ rpc \in [Reaper -> {"idle", "sweep", "mark", "fail"}]
  /\ rcand \in [Reaper -> Job \cup {NoJob}] /\ rchild \in [Reaper -> Job \cup {NoJob}]
  /\ waiting \in [Reaper -> SUBSET Job] /\ silent \in [Reaper -> SUBSET Job]
  /\ verdict \in [Job -> Verdict] /\ doubtful \subseteq Job
  /\ faults \in 0..MaxFaults

Init ==
  /\ created = 0 /\ status = [j \in Job |-> "none"] /\ ugc = {}
  /\ parent = [j \in Job |-> NoJob] /\ next = [j \in Job |-> NoJob]
  /\ depth = [j \in Job |-> 0]
  /\ stale = {} /\ aged = {}
  /\ pc = [p \in Runner |-> "idle"] /\ cand = [p \in Runner |-> NoJob]
  /\ todo = [p \in Runner |-> {}] /\ rest = [p \in Runner |-> "untried"]
  /\ child = [p \in Runner |-> NoJob]
  /\ rpc = [r \in Reaper |-> "idle"] /\ rcand = [r \in Reaper |-> NoJob]
  /\ rchild = [r \in Reaper |-> NoJob]
  /\ waiting = [r \in Reaper |-> {}] /\ silent = [r \in Reaper |-> {}]
  /\ verdict = [j \in Job |-> "none"] /\ doubtful = {}
  /\ faults = 0

\* A death, a call that fails, a heartbeat that is late.
Fault == faults < MaxFaults /\ faults' = faults + 1

AtWork(p) == pc[p] \notin {"idle", "scan", "claim"}

\* The processes that have row j in hand.
Hands(j) == {p \in Runner : AtWork(p) /\ cand[p] = j}
            \cup {r \in Reaper : rpc[r] \in {"mark", "fail"} /\ rcand[r] = j}

------------------------------------------------------------------------------
(* The rows *)

Insert(j, st, par, dep, isUgc) ==
  /\ created' = j
  /\ status' = [status EXCEPT ![j] = st]
  /\ parent' = [parent EXCEPT ![j] = par]
  /\ depth' = [depth EXCEPT ![j] = dep]
  /\ ugc' = IF isUgc THEN ugc \cup {j} ELSE ugc
  /\ UNCHANGED next

\* Mutant: one slice more than the limit.
MayContinueOnceMore(j) == depth[j] <= MaxDepth

MayContinue(j) == depth[j] < MaxDepth

\* enqueueDesignerContinuation, its insert.
InsertChild(j) ==
  /\ MayContinue(j) /\ created < MaxJobs
  /\ Insert(created + 1, "pending", j, depth[j] + 1, j \in ugc)

\* The two ways in which it answers null.
RefuseChild(j) ==
  /\ \/ ~MayContinue(j) /\ UNCHANGED faults
     \/ MayContinue(j) /\ Fault
  /\ verdict' = [verdict EXCEPT ![j] = "refused"]
  /\ UNCHANGED rows

\* Mutant: the update that points to the child leaves the parent running.
StaysRunning(j) == status[j]

MarkedAs(j) == "done"

\* Its second call: only a running row is closed and pointed to the child.
Point(j, c) ==
  /\ IF status[j] = "running"
     THEN /\ status' = [status EXCEPT ![j] = MarkedAs(j)]
          /\ next' = [next EXCEPT ![j] = c]
     ELSE UNCHANGED <<status, next>>
  /\ UNCHANGED <<created, ugc, parent, depth>>

\* finishDesignerJob: by id, whatever the row has become, and the result with
\* its pointer is overwritten.
FinishAs(j, o) ==
  /\ status' = [status EXCEPT ![j] = o]
  /\ next' = [next EXCEPT ![j] = NoJob]
  /\ UNCHANGED <<created, ugc, parent, depth>>

------------------------------------------------------------------------------
(* A page, and processNextDesignerJob *)

\* insertDesignerJob: running at once, the page is the one who runs it.
Submit(p, isUgc) ==
  /\ p \in Page /\ pc[p] = "idle"
  /\ created < MaxJobs
  /\ Cardinality({j \in Job : status[j] # "none" /\ parent[j] = NoJob}) < MaxRoots
  /\ Insert(created + 1, "running", NoJob, 0, isUgc)
  /\ pc' = [pc EXCEPT ![p] = "slice"] /\ cand' = [cand EXCEPT ![p] = created + 1]
  /\ UNCHANGED <<clock, todo, rest, child, reapers, history, faults>>

Oldest(S, n) == {j \in S : Cardinality({i \in S : i < j}) < n}
First(S) == CHOOSE j \in S : \A i \in S : j <= i
Pending == {j \in Job : status[j] = "pending"}

StartDrain(w) ==
  /\ w \in Worker /\ pc[w] = "idle" /\ Pending # {}
  /\ pc' = [pc EXCEPT ![w] = "scan"]
  /\ todo' = [todo EXCEPT ![w] = Oldest(Pending, Window)]
  /\ UNCHANGED <<rows, clock, cand, rest, child, reapers, history, faults>>

\* The next candidate is looked at: wreckage is left to the reaper.
Consider(w) ==
  LET j == First(todo[w]) IN
  /\ pc[w] = "scan" /\ todo[w] # {}
  /\ todo' = [todo EXCEPT ![w] = @ \ {j}]
  /\ IF j \in aged THEN UNCHANGED <<pc, cand>>
     ELSE pc' = [pc EXCEPT ![w] = "claim"] /\ cand' = [cand EXCEPT ![w] = j]
  /\ UNCHANGED <<rows, clock, rest, child, reapers, history, faults>>

\* Mutant: the claim takes what another worker is running.
ClaimableAgain(j) == status[j] \in Open

Claimable(j) == status[j] = "pending"

Claim(w) ==
  LET j == cand[w] IN
  /\ pc[w] = "claim"
  /\ IF Claimable(j)
     THEN /\ pc' = [pc EXCEPT ![w] = "slice"]
          /\ todo' = [todo EXCEPT ![w] = {}]
          /\ status' = [status EXCEPT ![j] = "running"]
          /\ stale' = stale \ {j}
          /\ UNCHANGED cand
     ELSE /\ pc' = [pc EXCEPT ![w] = "scan"]
          /\ cand' = [cand EXCEPT ![w] = NoJob]
          /\ UNCHANGED <<todo, status, stale>>
  /\ UNCHANGED <<created, ugc, parent, depth, next, aged, rest, child, reapers, history, faults>>

NothingToClaim(w) ==
  /\ pc[w] = "scan" /\ todo[w] = {}
  /\ pc' = [pc EXCEPT ![w] = "idle"]
  /\ UNCHANGED <<rows, clock, cand, todo, rest, child, reapers, history, faults>>

\* The mirror's heartbeat, which does not look at the status of the row.
Heartbeat(p) ==
  /\ pc[p] = "slice" /\ cand[p] \in stale
  /\ stale' = stale \ {cand[p]}
  /\ UNCHANGED <<rows, aged, runners, reapers, history, faults>>

\* The runner is through with its row.
Leave(p) ==
  /\ pc' = [pc EXCEPT ![p] = "idle"] /\ cand' = [cand EXCEPT ![p] = NoJob]
  /\ todo' = [todo EXCEPT ![p] = {}]
  /\ rest' = [rest EXCEPT ![p] = "untried"] /\ child' = [child EXCEPT ![p] = NoJob]

Goto(p, to) ==
  pc' = [pc EXCEPT ![p] = to] /\ UNCHANGED <<cand, todo, rest, child>>

\* The turn cannot start: only the page of the UGC batch does not catch it.
Throws(p) ==
  /\ pc[p] = "slice" /\ rest[p] = "untried"
  /\ IF p \in Page /\ cand[p] \in ugc THEN Leave(p) ELSE Goto(p, "failed")
  /\ verdict' = [verdict EXCEPT ![cand[p]] = "threw"]
  /\ UNCHANGED <<rows, clock, reapers, doubtful, faults>>

\* The UGC batch is out of time while it streams (onTruncated).
CutMidway(p) ==
  /\ pc[p] = "slice" /\ cand[p] \in ugc /\ rest[p] = "untried"
  /\ \/ /\ InsertChild(cand[p])
        /\ pc' = [pc EXCEPT ![p] = "midmark"] /\ child' = [child EXCEPT ![p] = created + 1]
        /\ UNCHANGED <<cand, todo, rest, history, faults>>
     \/ /\ RefuseChild(cand[p])
        /\ rest' = [rest EXCEPT ![p] = "refused"]
        /\ UNCHANGED <<pc, cand, todo, child, doubtful>>
  /\ UNCHANGED <<clock, reapers>>

\* Mutant: a slice that has a child closes its row all the same.
SettlesAnyway(p) == rest[p] \in {"untried", "refused", "child"}

\* A slice that ends closes its row, unless it has a child.
Settles(p) == rest[p] # "child"

\* The work is whole, or the model stopped by itself, time left or not.
SliceEnds(p) ==
  /\ pc[p] = "slice"
  /\ IF Settles(p)
     THEN /\ Goto(p, "done")
          /\ verdict' = [verdict EXCEPT ![cand[p]] = IF @ = "refused" THEN @ ELSE "over"]
     ELSE Leave(p) /\ UNCHANGED verdict
  /\ UNCHANGED <<rows, clock, reapers, doubtful, faults>>

\* The slice is out of time, or of steps.  A worker without a child closes the
\* row as done; a page leaves it running, and the reaper finds it.
SliceCut(p) ==
  /\ pc[p] = "slice" /\ Settles(p)
  /\ \/ /\ InsertChild(cand[p])
        /\ pc' = [pc EXCEPT ![p] = "mark"] /\ child' = [child EXCEPT ![p] = created + 1]
        /\ UNCHANGED <<cand, todo, rest, history, faults>>
     \/ /\ RefuseChild(cand[p])
        /\ IF p \in Page THEN Leave(p) ELSE Goto(p, "done")
        /\ UNCHANGED doubtful
  /\ UNCHANGED <<clock, reapers>>

\* The pointer to the child; its failure goes unnoticed.
PointToChild(p) ==
  LET j == cand[p] IN
  /\ pc[p] \in {"midmark", "mark"}
  /\ \/ Point(j, child[p]) /\ UNCHANGED <<doubtful, faults>>
     \/ Fault /\ doubtful' = doubtful \cup {j} /\ UNCHANGED rows
  /\ IF pc[p] = "mark" THEN Leave(p)
     ELSE /\ pc' = [pc EXCEPT ![p] = "slice"]
          /\ rest' = [rest EXCEPT ![p] = "child"]
          /\ child' = [child EXCEPT ![p] = NoJob]
          /\ UNCHANGED <<cand, todo>>
  /\ UNCHANGED <<clock, reapers, verdict>>

Close(p) ==
  /\ pc[p] \in Closed
  /\ \/ FinishAs(cand[p], pc[p]) /\ UNCHANGED faults
     \/ Fault /\ UNCHANGED rows
  /\ Leave(p)
  /\ UNCHANGED <<clock, reapers, history>>

Die(p) ==
  /\ pc[p] # "idle" /\ Fault
  /\ doubtful' = IF pc[p] \in {"midmark", "mark"} THEN doubtful \cup {cand[p]} ELSE doubtful
  /\ Leave(p)
  /\ UNCHANGED <<rows, clock, reapers, verdict>>

------------------------------------------------------------------------------
(* Time *)

\* No process is behind the row; or its beat is late, or lost.
GoStale(j) ==
  /\ status[j] = "running" /\ j \notin stale
  /\ IF \E p \in Runner : AtWork(p) /\ cand[p] = j THEN Fault ELSE UNCHANGED faults
  /\ stale' = stale \cup {j}
  /\ UNCHANGED <<rows, aged, runners, reapers, history>>

\* The limit on waiting is asked of rows that are, or were listed as, pending.
Age(j) ==
  /\ j \notin aged
  /\ status[j] = "pending" \/ (\E r \in Reaper : j \in waiting[r])
  /\ aged' = aged \cup {j}
  /\ UNCHANGED <<rows, stale, runners, reapers, history, faults>>

------------------------------------------------------------------------------
(* reapStaleDesignerJobs *)

Silent == {j \in Job : status[j] = "running" /\ j \in stale}

StartSweep(r) ==
  /\ rpc[r] = "idle" /\ Silent \cup Pending # {}
  /\ rpc' = [rpc EXCEPT ![r] = "sweep"]
  /\ waiting' = [waiting EXCEPT ![r] = Pending]
  /\ silent' = [silent EXCEPT ![r] = Silent]
  /\ UNCHANGED <<rows, clock, runners, rcand, rchild, history, faults>>

Listed(r) == waiting[r] \cup silent[r]

Unlist(r, j) ==
  /\ waiting' = [waiting EXCEPT ![r] = @ \ {j}]
  /\ silent' = [silent EXCEPT ![r] = @ \ {j}]

\* Mutant: a row that waits is wreckage however short its wait.
WaitedEnough(r, j) == j \in waiting[r]

\* classifyChatJob: pending, as it was listed, for longer than the limit.
Orphaned(r, j) == j \in waiting[r] /\ j \in aged

\* What the sweep does to row j it does beside another process, or too late.
Doubt(j, st) == IF Hands(j) # {} \/ status[j] # st THEN doubtful \cup {j} ELSE doubtful

ReapSkip(r) ==
  LET j == First(Listed(r)) IN
  /\ rpc[r] = "sweep" /\ Listed(r) # {}
  /\ j \notin silent[r] /\ ~Orphaned(r, j)
  /\ Unlist(r, j)
  /\ UNCHANGED <<rows, clock, runners, rpc, rcand, rchild, history, faults>>

\* A queued row nobody came for is given up, whatever has become of it.
ReapOrphan(r) ==
  LET j == First(Listed(r)) IN
  /\ rpc[r] = "sweep" /\ Listed(r) # {}
  /\ Orphaned(r, j)
  /\ \/ /\ FinishAs(j, "failed")
        /\ verdict' = [verdict EXCEPT ![j] = "waited"] /\ doubtful' = Doubt(j, "pending")
        /\ UNCHANGED faults
     \/ Fault /\ UNCHANGED <<rows, history>>
  /\ Unlist(r, j)
  /\ UNCHANGED <<clock, runners, rpc, rcand, rchild>>

\* Mutant: a row that cannot be continued is left as it is.
AfterRefusalNothing == "sweep"

AfterRefusal == "fail"

\* The rest of a slice whose process is dead.
ReapContinue(r) ==
  LET j == First(Listed(r)) IN
  /\ rpc[r] = "sweep" /\ Listed(r) # {}
  /\ j \in silent[r]
  /\ rcand' = [rcand EXCEPT ![r] = j]
  /\ \/ /\ InsertChild(j)
        /\ rpc' = [rpc EXCEPT ![r] = "mark"] /\ rchild' = [rchild EXCEPT ![r] = created + 1]
        /\ UNCHANGED <<verdict, faults>>
     \/ /\ RefuseChild(j)
        /\ rpc' = [rpc EXCEPT ![r] = AfterRefusal]
        /\ UNCHANGED rchild
  /\ doubtful' = Doubt(j, "running")
  /\ Unlist(r, j)
  /\ UNCHANGED <<clock, runners>>

\* The reaper goes on with its list.
Resume(r) ==
  /\ rpc' = [rpc EXCEPT ![r] = "sweep"]
  /\ rcand' = [rcand EXCEPT ![r] = NoJob] /\ rchild' = [rchild EXCEPT ![r] = NoJob]
  /\ UNCHANGED <<waiting, silent>>

ReapPoint(r) ==
  /\ rpc[r] = "mark"
  /\ \/ Point(rcand[r], rchild[r]) /\ UNCHANGED <<doubtful, faults>>
     \/ Fault /\ doubtful' = doubtful \cup {rcand[r]} /\ UNCHANGED rows
  /\ Resume(r)
  /\ UNCHANGED <<clock, runners, verdict>>

ReapFail(r) ==
  /\ rpc[r] = "fail"
  /\ \/ FinishAs(rcand[r], "failed") /\ UNCHANGED faults
     \/ Fault /\ UNCHANGED rows
  /\ Resume(r)
  /\ UNCHANGED <<clock, runners, history>>

\* The sweep is over, or its process is.
Stop(r) ==
  /\ rpc' = [rpc EXCEPT ![r] = "idle"]
  /\ rcand' = [rcand EXCEPT ![r] = NoJob] /\ rchild' = [rchild EXCEPT ![r] = NoJob]
  /\ waiting' = [waiting EXCEPT ![r] = {}] /\ silent' = [silent EXCEPT ![r] = {}]
  /\ UNCHANGED <<rows, clock, runners, verdict>>

EndSweep(r) ==
  /\ rpc[r] = "sweep" /\ Listed(r) = {}
  /\ Stop(r) /\ UNCHANGED <<doubtful, faults>>

ReaperDies(r) ==
  /\ rpc[r] # "idle" /\ Fault
  /\ doubtful' = IF rpc[r] = "mark" THEN doubtful \cup {rcand[r]} ELSE doubtful
  /\ Stop(r)

------------------------------------------------------------------------------
(* The specification *)

\* What a runner does next when nothing kills it.
Running(p) ==
  \/ StartDrain(p) \/ Consider(p) \/ Claim(p) \/ NothingToClaim(p)
  \/ CutMidway(p) \/ SliceEnds(p) \/ SliceCut(p) \/ PointToChild(p) \/ Close(p)

RunnerStep(p) ==
  \/ \E b \in BOOLEAN : Submit(p, b)
  \/ Running(p) \/ Throws(p) \/ Heartbeat(p) \/ Die(p)

Sweeping(r) ==
  \/ StartSweep(r) \/ ReapSkip(r) \/ ReapOrphan(r) \/ ReapContinue(r)
  \/ ReapPoint(r) \/ ReapFail(r) \/ EndSweep(r)

Next == \/ \E p \in Runner : RunnerStep(p)
        \/ \E j \in Job : GoStale(j) \/ Age(j)
        \/ \E r \in Reaper : Sweeping(r) \/ ReaperDies(r)

Spec == Init /\ [][Next]_vars

\* The cron calls a worker and a sweep every two minutes, the platform runs what
\* it started until it dies, and clocks advance.
Fairness ==
  /\ \A p \in Runner : WF_vars(Running(p))
  /\ \A r \in Reaper : WF_vars(Sweeping(r))
  /\ WF_vars(\E j \in Job : GoStale(j))

FairSpec == Spec /\ Fairness

------------------------------------------------------------------------------
(* Properties *)

\* Each row has one runner at most, and a row that waits has none: the claim is
\* an update that matches only a pending row, and the page's row never waits.
RunnersApart ==
  /\ \A j \in Job : status[j] = "none" <=> j > created
  /\ \A p \in Runner : pc[p] \notin {"idle", "scan"} => cand[p] \in 1..created
  /\ \A p \in Runner : AtWork(p) => status[cand[p]] # "pending"
  /\ \A p, q \in Runner : AtWork(p) /\ AtWork(q) /\ cand[p] = cand[q] => p = q
  /\ \A p \in Runner : todo[p] \subseteq 1..created
  /\ \A r \in Reaper : waiting[r] \subseteq 1..created /\ silent[r] \subseteq 1..created
  /\ \A r \in Reaper : rpc[r] \in {"mark", "fail"} => rcand[r] \in 1..created

\* A child is one slice further than its parent, so that a brief has at most
\* MaxDepth of them in a row (designer-limits.ts, "1 live turn + 24 jobs"), and
\* only a row that is done points to one, its own.
Lineage ==
  /\ \A c \in Job : parent[c] # NoJob =>
       parent[c] < c /\ c <= created /\ depth[c] = depth[parent[c]] + 1
  /\ \A j \in Job : next[j] # NoJob => status[j] = "done" /\ parent[next[j]] = j
  /\ \A p \in Runner : pc[p] \in {"midmark", "mark"} => child[p] # NoJob /\ parent[child[p]] = cand[p]
  /\ \A r \in Reaper : rpc[r] = "mark" => rchild[r] # NoJob /\ parent[rchild[r]] = rcand[r]

\* A row that is not doubtful is in one hand at a time, and is what that hand
\* believes it is: running, or done and pointing to the child it was given.
HandsKnown ==
  /\ \A p \in Runner : pc[p] # "slice" => rest[p] # "child"
  /\ \A p \in Runner : ~AtWork(p) => rest[p] = "untried"
  /\ \A p \in Runner : AtWork(p) /\ cand[p] \notin doubtful =>
       /\ status[cand[p]] = IF rest[p] = "child" THEN "done" ELSE "running"
       /\ rest[p] = "child" => next[cand[p]] # NoJob
       /\ rest[p] = "refused" => verdict[cand[p]] = "refused"
       /\ pc[p] = "done" => verdict[cand[p]] \in {"over", "refused"}
       /\ pc[p] = "failed" => verdict[cand[p]] = "threw"
  /\ \A r \in Reaper : rpc[r] \in {"mark", "fail"} /\ rcand[r] \notin doubtful =>
       /\ status[rcand[r]] = "running"
       /\ rpc[r] = "fail" => verdict[rcand[r]] = "refused"
       /\ \A p \in Runner : AtWork(p) => cand[p] # rcand[r]
       /\ \A q \in Reaper : rpc[q] \in {"mark", "fail"} /\ rcand[q] = rcand[r] => q = r

\* The inductive invariant behind what follows.
DesignerInv == DesignerTypeOK /\ RunnersApart /\ Lineage /\ HandsKnown

\* Who is about to point row j to row c.
Pointing(j, c) == {p \in Runner : pc[p] \in {"midmark", "mark"} /\ cand[p] = j /\ child[p] = c}
                  \cup {r \in Reaper : rpc[r] = "mark" /\ rcand[r] = j /\ rchild[r] = c}

\* Who follows a brief from slice to slice, as followDesignerJobChain does,
\* misses nothing: unless two processes acted on a row, or the one that
\* continued it never came to say so, every child of the row is the one the row
\* points to, or is about to.  In particular the work never forks.
ChildrenFound ==
  \A c \in Job : parent[c] # NoJob /\ parent[c] \notin doubtful =>
    next[parent[c]] = c \/ Pointing(parent[c], c) # {}

\* A row that ended without a child says why, under the same condition: it is
\* done because its slice was over or could not be continued, it failed because
\* it could not start, could not be continued, or waited past the limit.
EndingsExplained ==
  \A j \in Job : j \notin doubtful /\ next[j] = NoJob =>
    /\ status[j] = "done" => verdict[j] \in {"over", "refused"}
    /\ status[j] = "failed" => \/ verdict[j] \in {"threw", "refused"}
                               \/ verdict[j] = "waited" /\ j \in aged

\* What a row ended with stays, under the same condition: no late process turns
\* a failure into a success, or loses the pointer to the next slice.
EndingsStay ==
  [][\A j \in Job : status[j] \in Closed /\ j \notin doubtful' =>
       status'[j] = status[j] /\ next'[j] = next[j]]_vars

\* The brief as a relay: a doubtful row is a lost leg, whose pointer is not relied on.
StageOf(j) == IF j \in doubtful THEN "lost" ELSE status[j]
PointerOf(j) == IF j \in doubtful THEN NoJob ELSE next[j]

Course == INSTANCE Relay WITH
  Leg <- Job,
  NoLeg <- NoJob,
  Most <- MaxDepth,
  stage <- [j \in Job |-> StageOf(j)],
  prev <- parent,
  succ <- [j \in Job |-> PointerOf(j)],
  past <- depth

\* Slices implement Relay (designer-jobs.ts, enqueueDesignerContinuation): one runner
\* for each, one continuation of each, queued while the slice is still open, and a
\* limit on their number that even interrupted continuations respect.
RelaySpec == Course!Spec

\* Every brief ends: each of its slices closes its row or is found dead, and its
\* chain of continuations does not go on for ever.  (The model submits MaxRoots
\* briefs, so that there is a time after the last.)
BriefsEnd == []<>(\A j \in Job : status[j] \notin Open)

==============================================================================
