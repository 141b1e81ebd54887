------------------------------ MODULE ChatQueue ------------------------------
(***************************************************************************)
(* The background queue of chat turns: the chat_response rows of the table *)
(* chat_jobs, the drains that claim and run them                           *)
(* (src/lib/server/chat/queue.ts), the mailbox through which a running     *)
(* turn absorbs the follow-ups written meanwhile (mid-turn-mailbox.ts) and *)
(* the reaper that closes the rows of dead turns and promotes what they    *)
(* had produced (job-cancel.ts, partial-persist.ts).                       *)
(*                                                                         *)
(* Every action is one database call, or the calls between two points at   *)
(* which another process can act on the same rows.  Drains and reapers are *)
(* serverless invocations or laps of the worker: they share nothing but    *)
(* the table and may die between any two calls.                            *)
(***************************************************************************)
EXTENDS Naturals, FiniteSets

CONSTANTS
  Thread,        \* conversations (thread_id; one user per thread)
  Drain,         \* processes that run drainChatQueue
  Reaper,        \* processes that run reapStaleChatJobs
  MaxJobs,       \* bound of the model: rows ever inserted
  Window,        \* candidates a drain reads, the limit(20) of the code
  MailboxLimit,  \* follow-ups a step boundary reads, the limit(5)
  MaxDepth,      \* CHAT_MAX_CONTINUATIONS
  Kinds,         \* kinds of turn the environment enqueues
  KitThreads,    \* threads on which agent-kit runs may start
  CrashAt,       \* points at which a drain may die
  FailAt,        \* points at which a call of the drain may throw
  SilentAt,      \* points at which a live turn may be silent past the limit
  SlowSweep,     \* a sweep may outlast the heartbeat limit
  MayAge,        \* a row may outlive the pending limit
  MayCancel,     \* cancelThreadChatJobs may be called
  ReapersDie     \* a reaper may die in the middle of a sweep

\* plain: a tool-job report; dm: a message between agents; scheduled: a
\* custom agent's routine; continuation: the resumption of a turn; voice: the
\* next speaker of a room; clear: a queued /clear.
Kind == {"plain", "dm", "scheduled", "continuation", "voice", "clear"}

PC == {"idle", "scan", "claim", "validate", "clearing", "refusing", "closing",
       "generate", "absorb", "deliver", "salvage", "mark", "settle", "enqueue",
       "save", "voice", "speak", "read", "close"}

\* A generation beats; what prepares it, and what follows it, does not.
Generating == {"generate", "absorb", "deliver"}
AfterGeneration == {"settle", "enqueue", "save", "voice", "speak", "read", "close"}

ASSUME ChatQueueAssumption ==
  /\ MaxJobs \in Nat \ {0} /\ MaxDepth \in Nat \ {0}
  /\ Window \in Nat \ {0} /\ MailboxLimit \in Nat \ {0}
  /\ Thread # {}
  /\ Kinds \subseteq Kind
  /\ KitThreads \subseteq Thread
  /\ CrashAt \subseteq PC \ {"idle"}
  /\ FailAt \subseteq {"validate"} \cup AfterGeneration
  /\ SilentAt \subseteq PC \ {"idle", "scan", "claim"}
  /\ {SlowSweep, MayAge, MayCancel, ReapersDie} \subseteq BOOLEAN
  /\ Reaper \cap {"user", "reply", "runner", "notice", "none", "answered",
                  "consumed"} = {}

Job == 1..MaxJobs     \* in the order of created_at
NoJob == 0

VARIABLES
  created,     \* rows inserted so far
  thread,      \* chat_jobs.thread_id
  kind,        \* what input_params say of the row
  depth,       \* input_params.continuation_depth
  status,      \* chat_jobs.status; "none" before the insert
  partial,     \* chat_jobs.partial: null, without text, or with text
  result,      \* chat_jobs.result: who salvaged, or how it was answered
  stale,       \* rows whose partial.at is past CHAT_HEARTBEAT_STALE_MS
  aged,        \* rows whose created_at is past CHAT_PENDING_STALE_MS
  posted,      \* chat_messages: <<row, what it is>>
  superseded,  \* those of them hidden by superseded = true
  pc, cand,    \* per drain: its point in the code and the row in hand
  todo,        \* per drain: the candidates it read and has not tried
  wrote,       \* per drain: livePartial holds text
  promised,    \* per drain: continuationJobId is set
  taken,       \* per drain: the follow-ups absorbed and not yet saved
  rpc, rcand,  \* per reaper: its point in the code and the row claimed
  seen,        \* per reaper: the listed rows, as they were when listed
  seenText,    \* per reaper: listed rows whose partial had text
  handled,     \* per reaper: this sweep has already closed a row
  kitRun,      \* threads with a live agent-kit run
  sawFree      \* threads a schedule found free and is about to use

columns == <<created, thread, kind, depth>>
clock == <<stale, aged>>
transcript == <<posted, superseded>>
drains == <<pc, cand, todo, wrote, promised, taken>>
reapers == <<rpc, rcand, seen, seenText, handled>>
outside == <<kitRun, sawFree>>
vars == <<columns, status, partial, result, clock, transcript, drains, reapers, outside>>

Status == {"none", "pending", "running", "done", "failed", "cancelled"}
Open == {"pending", "running"}
Bubble == {"user", "reply", "runner", "notice"} \cup Reaper
Result == {"none", "answered", "consumed", "runner"} \cup Reaper

TypeOK ==
  /\ created \in 0..MaxJobs
  /\ thread \in [Job -> Thread]
  /\ kind \in [Job -> Kind]
  /\ depth \in [Job -> Nat]
  /\ status \in [Job -> Status]
  /\ partial \in [Job -> {"null", "empty", "text"}]
  /\ result \in [Job -> Result]
  /\ stale \subseteq Job /\ aged \subseteq Job
  /\ posted \subseteq Job \X Bubble /\ superseded \subseteq posted
  /\ pc \in [Drain -> PC]
  /\ cand \in [Drain -> Job \cup {NoJob}]
  /\ todo \in [Drain -> SUBSET Job]
  /\ wrote \in [Drain -> BOOLEAN] /\ promised \in [Drain -> BOOLEAN]
  /\ taken \in [Drain -> SUBSET Job]
  /\ rpc \in [Reaper -> {"idle", "sweep", "salvage", "mark"}]
  /\ rcand \in [Reaper -> Job \cup {NoJob}]
  /\ seen \in [Reaper -> [Job -> {"none", "pending", "fresh", "old"}]]
  /\ seenText \in [Reaper -> SUBSET Job]
  /\ handled \in [Reaper -> BOOLEAN]
  /\ kitRun \subseteq Thread /\ sawFree \subseteq Thread

Init ==
  /\ created = 0
  /\ thread = [j \in Job |-> CHOOSE t \in Thread : TRUE]
  /\ kind = [j \in Job |-> "plain"]
  /\ depth = [j \in Job |-> 0]
  /\ status = [j \in Job |-> "none"]
  /\ partial = [j \in Job |-> "null"]
  /\ result = [j \in Job |-> "none"]
  /\ stale = {} /\ aged = {} /\ posted = {} /\ superseded = {}
  /\ pc = [d \in Drain |-> "idle"] /\ cand = [d \in Drain |-> NoJob]
  /\ todo = [d \in Drain |-> {}] /\ taken = [d \in Drain |-> {}]
  /\ wrote = [d \in Drain |-> FALSE] /\ promised = [d \in Drain |-> FALSE]
  /\ rpc = [r \in Reaper |-> "idle"] /\ rcand = [r \in Reaper |-> NoJob]
  /\ seen = [r \in Reaper |-> [j \in Job |-> "none"]]
  /\ seenText = [r \in Reaper |-> {}] /\ handled = [r \in Reaper |-> FALSE]
  /\ kitRun = {} /\ sawFree = {}

------------------------------------------------------------------------------
(* The rows *)

Pending(t) == {j \in Job : status[j] = "pending" /\ thread[j] = t}
Active(t) == {j \in Job : status[j] \in Open /\ thread[j] = t}
Oldest(S, n) == {j \in S : Cardinality({i \in S : i < j}) < n}
First(S) == CHOOSE j \in S : \A i \in S : j <= i

\* threadHasActiveChatResponse, the row itself excluded.
Busy(j) == Active(thread[j]) \ {j} # {}

\* One insert of a pending row; an insert that fails returns null.
Insert(t, k, n) ==
  /\ created < MaxJobs
  /\ created' = created + 1
  /\ thread' = [thread EXCEPT ![created + 1] = t]
  /\ kind' = [kind EXCEPT ![created + 1] = k]
  /\ depth' = [depth EXCEPT ![created + 1] = n]
  /\ status' = [status EXCEPT ![created + 1] = "pending"]
  /\ UNCHANGED <<partial, result>>

\* The message of a dm is in the thread before its row; a continuation and the
\* second voice of a room have none of their own to save.
SavedUpFront(k) == k \in {"dm", "continuation", "voice"}
Absorbable(k) == k \in {"plain", "voice", "clear"}

\* enqueueQueuedChatTurn from outside the queue: no caller but the schedules
\* asks whether the thread is busy first.
Enqueue(t, k) ==
  /\ k \in Kinds \ {"scheduled", "voice"}
  /\ Insert(t, k, IF k = "continuation" THEN 1 ELSE 0)
  /\ posted' = IF k = "dm" THEN posted \cup {<<created + 1, "user">>} ELSE posted
  /\ UNCHANGED <<clock, superseded, drains, reapers, outside>>

\* A schedule looks at its thread, and in a later call enqueues.
ScheduleLooks(t) ==
  /\ "scheduled" \in Kinds /\ t \notin sawFree /\ created < MaxJobs
  /\ Active(t) = {}
  /\ sawFree' = sawFree \cup {t}
  /\ UNCHANGED <<columns, status, partial, result, clock, transcript, drains, reapers, kitRun>>

ScheduleFires(t) ==
  /\ t \in sawFree
  /\ Insert(t, "scheduled", 0)
  /\ sawFree' = sawFree \ {t}
  /\ UNCHANGED <<clock, transcript, drains, reapers, kitRun>>

\* Agent-kit runs, which chat_jobs does not see (external to the queue).
KitRunStarts(t) ==
  /\ t \in KitThreads \ kitRun
  /\ kitRun' = kitRun \cup {t}
  /\ UNCHANGED <<columns, status, partial, result, clock, transcript, drains, reapers, sawFree>>

KitRunEnds(t) ==
  /\ t \in kitRun
  /\ kitRun' = kitRun \ {t}
  /\ UNCHANGED <<columns, status, partial, result, clock, transcript, drains, reapers, sawFree>>

\* cancelThreadChatJobs: first the turn being stopped, then, in another call,
\* everything asked from it on, on its thread (without a turn, the whole thread).
CancelTurn(j) ==
  /\ MayCancel
  /\ status[j] \in Open
  /\ status' = [status EXCEPT ![j] = "cancelled"]
  /\ UNCHANGED <<columns, partial, result, clock, transcript, drains, reapers, outside>>

CancelSince(j) ==
  LET since == {i \in Job : i >= j} IN
  /\ MayCancel
  /\ status[j] # "none"
  /\ Active(thread[j]) \cap since # {}
  /\ status' = [i \in Job |-> IF i \in Active(thread[j]) \cap since
                              THEN "cancelled" ELSE status[i]]
  /\ UNCHANGED <<columns, partial, result, clock, transcript, drains, reapers, outside>>

------------------------------------------------------------------------------
(* Claiming a row: processNextQueuedChatJob down to the claim *)

Goto(d, from, to) == pc[d] = from /\ pc' = [pc EXCEPT ![d] = to]

AllPending == {j \in Job : status[j] = "pending"}

StartDrain(d) ==
  /\ Goto(d, "idle", "scan")
  /\ AllPending # {}
  /\ todo' = [todo EXCEPT ![d] = Oldest(AllPending, Window)]
  /\ UNCHANGED <<columns, status, partial, result, clock, transcript, cand, wrote,
                 promised, taken, reapers, outside>>

\* Mutant: the drain does not look for siblings.
StartableAmongSiblings(j) == thread[j] \notin kitRun /\ j \notin aged

\* No sibling is open, no agent-kit run is alive, and the row is not wreckage.
Startable(j) == ~Busy(j) /\ thread[j] \notin kitRun /\ j \notin aged

\* The next candidate is blocked: on to the one after it.
SkipCandidate(d) ==
  /\ pc[d] = "scan" /\ todo[d] # {}
  /\ ~Startable(First(todo[d]))
  /\ todo' = [todo EXCEPT ![d] = @ \ {First(@)}]
  /\ UNCHANGED <<columns, status, partial, result, clock, transcript, pc, cand, wrote,
                 promised, taken, reapers, outside>>

\* The next candidate looks free: what follows is the claim.
PickCandidate(d) ==
  /\ Goto(d, "scan", "claim")
  /\ todo[d] # {}
  /\ Startable(First(todo[d]))
  /\ cand' = [cand EXCEPT ![d] = First(todo[d])]
  /\ todo' = [todo EXCEPT ![d] = @ \ {First(@)}]
  /\ UNCHANGED <<columns, status, partial, result, clock, transcript, wrote, promised,
                 taken, reapers, outside>>

NothingToClaim(d) ==
  /\ Goto(d, "scan", "idle")
  /\ todo[d] = {}
  /\ UNCHANGED <<columns, status, partial, result, clock, transcript, cand, todo, wrote,
                 promised, taken, reapers, outside>>

\* The claim: an update that matches only a row still pending.
Claim(d) ==
  /\ Goto(d, "claim", "validate")
  /\ status[cand[d]] = "pending"
  /\ status' = [status EXCEPT ![cand[d]] = "running"]
  /\ partial' = [partial EXCEPT ![cand[d]] = "empty"]
  /\ stale' = stale \ {cand[d]}
  /\ todo' = [todo EXCEPT ![d] = {}]
  /\ UNCHANGED <<columns, result, aged, transcript, cand, wrote, promised, taken,
                 reapers, outside>>

ClaimLost(d) ==
  /\ Goto(d, "claim", "scan")
  /\ status[cand[d]] # "pending"
  /\ cand' = [cand EXCEPT ![d] = NoJob]
  /\ UNCHANGED <<columns, status, partial, result, clock, transcript, todo, wrote,
                 promised, taken, reapers, outside>>

------------------------------------------------------------------------------
(* Running a claimed turn *)

\* The drain is done with its row, whatever became of it.
Release(d) ==
  /\ cand' = [cand EXCEPT ![d] = NoJob]
  /\ wrote' = [wrote EXCEPT ![d] = FALSE]
  /\ promised' = [promised EXCEPT ![d] = FALSE]
  /\ taken' = [taken EXCEPT ![d] = {}]
  /\ UNCHANGED todo

\* failChatJob: closes an open row, and says so in the thread when the row was
\* a continuation that had written nothing.
FailChatJob(j) ==
  /\ status' = IF status[j] \in Open THEN [status EXCEPT ![j] = "failed"] ELSE status
  /\ posted' = IF /\ status[j] \in Open
                  /\ kind[j] = "continuation" /\ partial[j] # "text"
               THEN posted \cup {<<j, "notice">>}
               ELSE posted
  /\ UNCHANGED <<columns, partial, result, superseded>>

\* thread_not_in_brand, an empty message, the rate limit, no credits left; or an
\* exception of a call before the generation or after it, up to the close.
Abandon(d) ==
  /\ pc[d] \in FailAt
  /\ pc' = [pc EXCEPT ![d] = "idle"]
  /\ FailChatJob(cand[d])
  /\ Release(d)
  /\ UNCHANGED <<clock, reapers, outside>>

\* A queued /clear looks at its thread once more.
BeginClear(d) ==
  /\ Goto(d, "validate", IF Busy(cand[d]) THEN "refusing" ELSE "clearing")
  /\ kind[cand[d]] = "clear"
  /\ UNCHANGED <<columns, status, partial, result, clock, transcript, cand, todo, wrote,
                 promised, taken, reapers, outside>>

\* Clears the context of the thread, or says that it will not.
AnswerClear(d) ==
  /\ pc[d] \in {"clearing", "refusing"}
  /\ pc' = [pc EXCEPT ![d] = "closing"]
  /\ posted' = posted \cup {<<cand[d], "notice">>}
  /\ UNCHANGED <<columns, status, partial, result, clock, superseded, cand, todo, wrote,
                 promised, taken, reapers, outside>>

\* The only close of a turn that does not look at the status it overwrites.
CloseClear(d) ==
  /\ Goto(d, "closing", "idle")
  /\ status' = [status EXCEPT ![cand[d]] = "done"]
  /\ partial' = [partial EXCEPT ![cand[d]] = "null"]
  /\ Release(d)
  /\ UNCHANGED <<columns, result, clock, transcript, reapers, outside>>

\* The user message is saved unless it already is, and the generation starts.
BeginTurn(d) ==
  LET j == cand[d] IN
  /\ Goto(d, "validate", "generate")
  /\ kind[j] # "clear"
  /\ posted' = IF SavedUpFront(kind[j]) THEN posted ELSE posted \cup {<<j, "user">>}
  /\ UNCHANGED <<columns, status, partial, result, clock, superseded, cand, todo, wrote,
                 promised, taken, reapers, outside>>

\* startChatJobHeartbeat, while the generation runs and the row is running.
Heartbeat(d) ==
  LET j == cand[d] IN
  /\ pc[d] \in Generating
  /\ status[j] = "running"
  /\ partial' = [partial EXCEPT ![j] = IF wrote[d] THEN "text" ELSE "empty"]
  /\ stale' = stale \ {j}
  /\ UNCHANGED <<columns, status, result, aged, transcript, drains, reapers, outside>>

\* onStepFinish: a step of the model leaves text in livePartial.
StepWrites(d) ==
  /\ pc[d] = "generate" /\ ~wrote[d]
  /\ wrote' = [wrote EXCEPT ![d] = TRUE]
  /\ UNCHANGED <<columns, status, partial, result, clock, transcript, pc, cand, todo,
                 promised, taken, reapers, outside>>

\* What claimQueuedFollowUps may take, having taken some already.
FollowUpsIn(S, d) ==
  {k \in Oldest(S, MailboxLimit - Cardinality(taken[d])) : Absorbable(kind[k])}

\* Mutant: the mailbox takes rows whatever a drain is doing with them.
FollowUpsNotClaimed(d) == FollowUpsIn(Active(thread[cand[d]]) \ {cand[d]}, d)

FollowUps(d) == FollowUpsIn(Pending(thread[cand[d]]), d)

\* claimQueuedFollowUps at a step boundary: one follow-up after the other, each
\* from pending to done in one update.
Absorb(d, k) ==
  /\ pc[d] \in {"generate", "absorb"}
  /\ k \in FollowUps(d)
  /\ pc' = [pc EXCEPT ![d] = "absorb"]
  /\ status' = [status EXCEPT ![k] = "done"]
  /\ result' = [result EXCEPT ![k] = "consumed"]
  /\ taken' = [taken EXCEPT ![d] = @ \cup {k}]
  /\ UNCHANGED <<columns, partial, clock, transcript, cand, todo, wrote, promised,
                 reapers, outside>>

\* Then each absorbed text becomes a user message of the thread.
SaveAbsorbed(d) ==
  LET k == First(taken[d]) IN
  /\ pc[d] \in {"absorb", "deliver"}
  /\ pc' = [pc EXCEPT ![d] = IF taken[d] = {k} THEN "generate" ELSE "deliver"]
  /\ posted' = IF SavedUpFront(kind[k]) THEN posted ELSE posted \cup {<<k, "user">>}
  /\ taken' = [taken EXCEPT ![d] = @ \ {k}]
  /\ UNCHANGED <<columns, status, partial, result, clock, superseded, cand, todo, wrote,
                 promised, reapers, outside>>

\* The generation throws: the row is failed first, then what the turn had
\* written is saved, then the row learns the message.
GenerationFails(d) ==
  /\ pc[d] = "generate"
  /\ pc' = [pc EXCEPT ![d] = IF wrote[d] THEN "salvage" ELSE "idle"]
  /\ FailChatJob(cand[d])
  /\ IF wrote[d] THEN UNCHANGED <<cand, todo, wrote, promised, taken>> ELSE Release(d)
  /\ UNCHANGED <<clock, reapers, outside>>

SaveOwnPartial(d) ==
  /\ Goto(d, "salvage", "mark")
  /\ posted' = posted \cup {<<cand[d], "runner">>}
  /\ UNCHANGED <<columns, status, partial, result, clock, superseded, cand, todo, wrote,
                 promised, taken, reapers, outside>>

\* The last write of persistPartialAssistantReply, by whoever salvaged row j.
MarkSalvaged(j, by) ==
  IF status[j] \in Open \cup {"failed"}
  THEN /\ status' = [status EXCEPT ![j] = "failed"]
       /\ result' = [result EXCEPT ![j] = by]
  ELSE UNCHANGED <<status, result>>

MarkOwnPartial(d) ==
  /\ Goto(d, "mark", "idle")
  /\ MarkSalvaged(cand[d], "runner")
  /\ Release(d)
  /\ UNCHANGED <<columns, partial, clock, transcript, reapers, outside>>

------------------------------------------------------------------------------
(* Settling a turn that generated *)

\* Mutant: the row is closed when the generation is, before what follows it.
EndGenerationClosing(d) ==
  /\ Goto(d, "generate", "settle")
  /\ status' = [status EXCEPT ![cand[d]] = IF @ = "running" THEN "done" ELSE @]
  /\ UNCHANGED <<columns, partial, result, clock, transcript, cand, todo, wrote,
                 promised, taken, reapers, outside>>

EndGeneration(d) ==
  /\ Goto(d, "generate", "settle")
  /\ UNCHANGED <<columns, status, partial, result, clock, transcript, cand, todo, wrote,
                 promised, taken, reapers, outside>>

\* No resumption is wanted, or enqueueTurnContinuation declines one: the chain
\* is at its limit, or something else is waiting on the thread.
NoContinuation(d) ==
  /\ Goto(d, "settle", "save")
  /\ UNCHANGED <<columns, status, partial, result, clock, transcript, cand, todo, wrote,
                 promised, taken, reapers, outside>>

\* Mutant: the limit of a chain is off by one.
MayResumeOnceMore(j) ==
  kind[j] # "dm" /\ depth[j] <= MaxDepth /\ Pending(thread[j]) = {}

MayResume(j) == kind[j] # "dm" /\ depth[j] < MaxDepth /\ Pending(thread[j]) = {}

\* enqueueTurnContinuation found nothing waiting; the insert is another call.
WantContinuation(d) ==
  /\ Goto(d, "settle", "enqueue")
  /\ MayResume(cand[d])
  /\ UNCHANGED <<columns, status, partial, result, clock, transcript, cand, todo, wrote,
                 promised, taken, reapers, outside>>

InsertContinuation(d) ==
  /\ Goto(d, "enqueue", "save")
  /\ Insert(thread[cand[d]], "continuation", depth[cand[d]] + 1)
  /\ promised' = [promised EXCEPT ![d] = TRUE]
  /\ UNCHANGED <<clock, transcript, cand, todo, wrote, taken, reapers, outside>>

\* Mutant: the promise is made before the insert is known to have worked.
ContinuationLostButPromised(d) ==
  /\ Goto(d, "enqueue", "save")
  /\ promised' = [promised EXCEPT ![d] = TRUE]
  /\ UNCHANGED <<columns, status, partial, result, clock, transcript, cand, todo, wrote,
                 taken, reapers, outside>>

\* The insert fails, and the turn carries on without a promise.
ContinuationLost(d) ==
  /\ Goto(d, "enqueue", "save")
  /\ UNCHANGED <<columns, status, partial, result, clock, transcript, cand, todo, wrote,
                 promised, taken, reapers, outside>>

\* The reply, with the line that promises a resumption; nothing when empty.
SaveReply(d) ==
  /\ Goto(d, "save", "voice")
  /\ posted' = IF wrote[d] \/ promised[d] THEN posted \cup {<<cand[d], "reply">>}
               ELSE posted
  /\ UNCHANGED <<columns, status, partial, result, clock, superseded, cand, todo, wrote,
                 promised, taken, reapers, outside>>

\* A turn of a room that was not stopped asks the router who speaks next.
AskRoom(d) ==
  /\ Goto(d, "voice", IF /\ "voice" \in Kinds /\ kind[cand[d]] # "dm"
                         /\ status[cand[d]] # "cancelled"
                      THEN "speak" ELSE "read")
  /\ UNCHANGED <<columns, status, partial, result, clock, transcript, cand, todo, wrote,
                 promised, taken, reapers, outside>>

\* The router, a model call later, names the next voice.
NextVoice(d) ==
  /\ Goto(d, "speak", "read")
  /\ Insert(thread[cand[d]], "voice", 0)
  /\ UNCHANGED <<clock, transcript, cand, todo, wrote, promised, taken, reapers, outside>>

\* Or nobody.
NoVoice(d) ==
  /\ Goto(d, "speak", "read")
  /\ UNCHANGED <<columns, status, partial, result, clock, transcript, cand, todo, wrote,
                 promised, taken, reapers, outside>>

\* The message of row j that a full reply makes a double.
Doubled(j) == {m \in {<<j, result[j]>>} : /\ status[j] = "failed" /\ result[j] \in Reaper
                                         /\ <<j, "reply">> \in posted}

\* A row failed meanwhile by the reaper names the message salvaged from it,
\* which the full reply supersedes.
ReadRow(d) ==
  /\ Goto(d, "read", "close")
  /\ superseded' = superseded \cup Doubled(cand[d])
  /\ UNCHANGED <<columns, status, partial, result, clock, posted, cand, todo, wrote,
                 promised, taken, reapers, outside>>

\* Mutant: the close looks at nothing.
ClosableAlways(j) == status[j] \in Status

Closable(j) == status[j] \in Open \cup {"failed"}

\* The close of a turn takes back a failed row, never a cancelled one.
Close(d) ==
  LET j == cand[d]
      closes == Closable(j)
  IN
  /\ Goto(d, "close", "idle")
  /\ status' = IF closes THEN [status EXCEPT ![j] = "done"] ELSE status
  /\ result' = IF closes THEN [result EXCEPT ![j] = "answered"] ELSE result
  /\ partial' = IF closes THEN [partial EXCEPT ![j] = "null"] ELSE partial
  /\ Release(d)
  /\ UNCHANGED <<columns, clock, transcript, reapers, outside>>

\* The invocation dies and takes what it had in memory with it.
Crash(d) ==
  /\ pc[d] \in CrashAt
  /\ pc' = [pc EXCEPT ![d] = "idle"]
  /\ cand' = [cand EXCEPT ![d] = NoJob]
  /\ todo' = [todo EXCEPT ![d] = {}]
  /\ wrote' = [wrote EXCEPT ![d] = FALSE]
  /\ promised' = [promised EXCEPT ![d] = FALSE]
  /\ taken' = [taken EXCEPT ![d] = {}]
  /\ UNCHANGED <<columns, status, partial, result, clock, transcript, reapers, outside>>

------------------------------------------------------------------------------
(* Time *)

Rows == <<columns, status, partial, result>>

\* No process is behind the row any more, or the one that is has not beaten for
\* CHAT_HEARTBEAT_STALE_MS: its beats are lost while it generates, or it has been at
\* work for that long on what comes before the first of them or after the last.
GoStale(j) ==
  /\ status[j] = "running" /\ j \notin stale
  /\ \A d \in Drain : cand[d] = j => pc[d] \in {"claim"} \cup SilentAt
  /\ stale' = stale \cup {j}
  /\ UNCHANGED <<Rows, aged, transcript, drains, reapers, outside>>

Age(j) ==
  /\ MayAge
  /\ status[j] \in Open /\ j \notin aged
  /\ aged' = aged \cup {j}
  /\ UNCHANGED <<Rows, stale, transcript, drains, reapers, outside>>

------------------------------------------------------------------------------
(* reapStaleChatJobs *)

\* Mutant: the sweep does not read the beat.
SuspicionWithoutBeat(j) ==
  CASE status[j] = "pending" /\ MayAge -> "pending"
    [] status[j] = "running" -> "old"
    [] OTHER -> "none"

\* Mutant: the sweep lists running rows only.
SuspicionOfRunning(j) ==
  CASE status[j] = "running" /\ j \in stale -> "old"
    [] status[j] = "running" /\ j \notin stale /\ SlowSweep -> "fresh"
    [] OTHER -> "none"

\* What the sweep may hold against row j when it lists it.  A pending row matters
\* only where rows age, a fresh beat only to a sweep that outlasts the limit.
Suspicion(j) ==
  CASE status[j] = "pending" /\ MayAge -> "pending"
    [] status[j] = "running" /\ j \in stale -> "old"
    [] status[j] = "running" /\ j \notin stale /\ SlowSweep -> "fresh"
    [] OTHER -> "none"

\* Mutant: the select leaves the column partial out.
TextListedNowhere(S) == S \cap {}

TextListed(S) == {j \in S : partial[j] = "text"}

\* One select lists the open rows; everything below looks at that list.
StartSweep(r) ==
  /\ rpc[r] = "idle"
  /\ \E j \in Job : Suspicion(j) # "none"
  /\ rpc' = [rpc EXCEPT ![r] = "sweep"]
  /\ seen' = [seen EXCEPT ![r] = [j \in Job |-> Suspicion(j)]]
  /\ seenText' = [seenText EXCEPT ![r] =
       TextListed({j \in Job : Suspicion(j) # "none"})]
  /\ UNCHANGED <<Rows, clock, transcript, drains, rcand, handled, outside>>

Listed(r) == {j \in Job : seen[r][j] # "none"}

\* classifyChatJob, on the listed columns and the clock of the moment: a beat
\* that was fresh when listed may be past the limit by now.
MustBeDead(r, j) == \/ seen[r][j] = "pending" /\ j \in aged
                    \/ seen[r][j] = "old"
MayBeDead(r, j) == \/ MustBeDead(r, j)
                   \/ seen[r][j] = "fresh" /\ SlowSweep /\ handled[r]

\* classifyChatJob believes the row alive.
ReapSkip(r) ==
  /\ rpc[r] = "sweep" /\ Listed(r) # {}
  /\ ~MustBeDead(r, First(Listed(r)))
  /\ seen' = [seen EXCEPT ![r][First(Listed(r))] = "none"]
  /\ UNCHANGED <<Rows, clock, transcript, drains, rpc, rcand, seenText, handled, outside>>

\* Mutant: a row another reaper has just failed is claimed again.
ReapableAgain(j) == status[j] \in Open \cup {"failed"}

Reapable(j) == status[j] \in Open

\* Or dead: the claim is an update that matches only a row still open.
ReapClaim(r) ==
  LET j == First(Listed(r)) IN
  /\ rpc[r] = "sweep" /\ Listed(r) # {}
  /\ MayBeDead(r, j)
  /\ Reapable(j)
  /\ status' = [status EXCEPT ![j] = "failed"]
  /\ seen' = [seen EXCEPT ![r][j] = "none"]
  /\ rcand' = [rcand EXCEPT ![r] = IF j \in seenText[r] THEN j ELSE NoJob]
  /\ rpc' = [rpc EXCEPT ![r] = IF j \in seenText[r] THEN "salvage" ELSE "sweep"]
  /\ handled' = [handled EXCEPT ![r] = TRUE]
  /\ UNCHANGED <<columns, partial, result, clock, transcript, drains, seenText, outside>>

ReapLose(r) ==
  LET j == First(Listed(r)) IN
  /\ rpc[r] = "sweep" /\ Listed(r) # {}
  /\ MayBeDead(r, j)
  /\ ~Reapable(j)
  /\ seen' = [seen EXCEPT ![r][j] = "none"]
  /\ UNCHANGED <<Rows, clock, transcript, drains, rpc, rcand, seenText, handled, outside>>

\* salvageStaleChatJobPartial: the text as it was listed becomes a message,
\* and then the row learns which one.
ReapSalvage(r) ==
  /\ rpc[r] = "salvage"
  /\ rpc' = [rpc EXCEPT ![r] = "mark"]
  /\ posted' = posted \cup {<<rcand[r], r>>}
  /\ UNCHANGED <<Rows, clock, superseded, drains, rcand, seen, seenText, handled, outside>>

ReapMark(r) ==
  /\ rpc[r] = "mark"
  /\ rpc' = [rpc EXCEPT ![r] = "sweep"]
  /\ rcand' = [rcand EXCEPT ![r] = NoJob]
  /\ MarkSalvaged(rcand[r], r)
  /\ UNCHANGED <<columns, partial, clock, transcript, drains, seen, seenText, handled, outside>>

RestReaper(r) ==
  /\ rpc' = [rpc EXCEPT ![r] = "idle"]
  /\ rcand' = [rcand EXCEPT ![r] = NoJob]
  /\ seen' = [seen EXCEPT ![r] = [j \in Job |-> "none"]]
  /\ seenText' = [seenText EXCEPT ![r] = {}]
  /\ handled' = [handled EXCEPT ![r] = FALSE]
  /\ UNCHANGED <<Rows, clock, transcript, drains, outside>>

EndSweep(r) == rpc[r] = "sweep" /\ Listed(r) = {} /\ RestReaper(r)

ReaperDies(r) == ReapersDie /\ rpc[r] # "idle" /\ RestReaper(r)

------------------------------------------------------------------------------
(* The specification *)

Environment ==
  \/ \E t \in Thread : \/ \E k \in Kind : Enqueue(t, k)
                       \/ ScheduleLooks(t) \/ ScheduleFires(t)
                       \/ KitRunStarts(t) \/ KitRunEnds(t)
  \/ \E j \in Job : CancelTurn(j) \/ CancelSince(j) \/ GoStale(j) \/ Age(j)

\* What a drain does next when nothing goes wrong.
Claiming(d) == StartDrain(d) \/ SkipCandidate(d) \/ PickCandidate(d)
               \/ NothingToClaim(d) \/ Claim(d) \/ ClaimLost(d)

Running(d) == \/ BeginClear(d) \/ AnswerClear(d) \/ CloseClear(d)
              \/ BeginTurn(d) \/ SaveAbsorbed(d)
              \/ SaveOwnPartial(d) \/ MarkOwnPartial(d)

Settling(d) == \/ EndGeneration(d) \/ NoContinuation(d) \/ WantContinuation(d)
               \/ InsertContinuation(d) \/ ContinuationLost(d) \/ SaveReply(d)
               \/ AskRoom(d) \/ NextVoice(d) \/ NoVoice(d) \/ ReadRow(d) \/ Close(d)

DrainStep(d) ==
  \/ Claiming(d) \/ Running(d) \/ Settling(d)
  \/ Heartbeat(d) \/ StepWrites(d) \/ (\E k \in Job : Absorb(d, k))
  \/ Abandon(d) \/ GenerationFails(d) \/ Crash(d)

ReaperStep(r) ==
  \/ StartSweep(r) \/ ReapSkip(r) \/ ReapClaim(r) \/ ReapLose(r)
  \/ ReapSalvage(r) \/ ReapMark(r) \/ EndSweep(r) \/ ReaperDies(r)

Next == \/ Environment
        \/ \E d \in Drain : DrainStep(d)
        \/ \E r \in Reaper : ReaperStep(r)

Spec == Init /\ [][Next]_vars

------------------------------------------------------------------------------
(* Fairness.  The cron starts a drain and a sweep every two minutes and the  *)
(* platform runs what it started, until a crash; a generation has a budget;  *)
(* clocks advance.  Nothing obliges anybody to write, cancel or crash.       *)

Fairness ==
  /\ \A d \in Drain :
       /\ WF_vars(Claiming(d)) /\ WF_vars(Running(d)) /\ WF_vars(Settling(d))
  /\ \A r \in Reaper :
       WF_vars(StartSweep(r) \/ ReapSkip(r) \/ ReapClaim(r) \/ ReapLose(r)
               \/ ReapSalvage(r) \/ ReapMark(r) \/ EndSweep(r))
  /\ \A j \in Job : WF_vars(GoStale(j)) /\ WF_vars(Age(j))
  /\ \A t \in Thread : WF_vars(KitRunEnds(t))

FairSpec == Spec /\ Fairness

------------------------------------------------------------------------------
(* Properties *)

\* The turns a drain is working on, whatever their rows say.
Working(d) == pc[d] \notin {"idle", "scan", "claim"}

\* Why the look and the claim may be two calls: a drain about to claim a row that
\* is still pending has no running sibling on its thread, and no two drains are
\* about to claim siblings.
ClaimersAlone ==
  /\ \A d \in Drain : pc[d] = "claim" /\ status[cand[d]] = "pending" =>
       \A i \in Job : thread[i] = thread[cand[d]] => status[i] # "running"
  /\ \A d, e \in Drain :
       /\ pc[d] = "claim" /\ status[cand[d]] = "pending"
       /\ pc[e] = "claim" /\ status[cand[e]] = "pending"
       /\ thread[cand[d]] = thread[cand[e]]
       => cand[d] = cand[e]

\* Rows are numbered in the order of their insert, and a process holds real ones.
RowsInHand ==
  /\ \A j \in Job : status[j] = "none" <=> j > created
  /\ \A d \in Drain :
       /\ pc[d] \notin {"idle", "scan"} => cand[d] \in 1..created
       /\ pc[d] \in {"absorb", "deliver"} => taken[d] # {}
       /\ todo[d] \subseteq 1..created
  /\ \A r \in Reaper : rpc[r] \in {"salvage", "mark"} => rcand[r] \in Job

\* A row names a salvaged message, and a reaper is about to write its name, only
\* once the message is in the thread: what a finish hides was there to be seen.
SalvageIsPosted ==
  /\ \A j \in Job : result[j] \in Reaper => <<j, result[j]>> \in posted
  /\ \A r \in Reaper : rpc[r] = "mark" => <<rcand[r], r>> \in posted

\* Two turns of one conversation never run at once: the drain skips a thread
\* that has a running or a waiting sibling (queue.ts, threadHasActiveChatResponse
\* and the claim), although the look and the claim are two calls.
OneRunningPerThread ==
  \A i, j \in Job : /\ i # j /\ thread[i] = thread[j] /\ status[i] = "running"
                   => status[j] # "running"

\* The inductive invariant behind OneRunningPerThread.
QueueInv == /\ TypeOK /\ RowsInHand /\ SalvageIsPosted
            /\ ClaimersAlone /\ OneRunningPerThread

\* Its turn is not one it has declared failed.
Conversing(d) == Working(d) /\ pc[d] \notin {"salvage", "mark"}

\* The same of the processes and not of their rows: a drain takes up a thread on
\* which the turn of another one has still to save its reply and to queue what
\* follows it (queue.ts, "è l'ordine a serializzare") only once one of the two rows
\* was given up, stopped or declared dead.  It holds however long a turn is silent.
DrainsApart ==
  \A d, e \in Drain :
    /\ d # e /\ Conversing(d) /\ Conversing(e)
    /\ thread[cand[d]] = thread[cand[e]]
    => {status[cand[d]], status[cand[e]]} \cap {"failed", "cancelled"} # {}

\* A follow-up absorbed by a running turn is answered there and nowhere else:
\* nobody runs it and it has no reply of its own (mid-turn-mailbox.ts, "si
\* consuma UNA volta").
AbsorbedIsNotAnswered ==
  \A j \in Job : result[j] = "consumed" =>
    /\ status[j] = "done"
    /\ \A d \in Drain : Working(d) => cand[d] # j
    /\ posted \cap ({j} \X (Bubble \ {"user"})) = {}

\* Whatever dies, stalls or is stopped, who is about to save the work of a turn
\* does not save it again: its drain has saved nothing of it yet, and no reaper
\* has, although several of them may have listed the row (job-cancel.ts, "claim
\* first, then salvage").
SavedOnce ==
  /\ \A d \in Drain : pc[d] \in {"save", "salvage"} =>
       posted \cap ({cand[d]} \X {"reply", "runner"}) = {}
  /\ \A r \in Reaper : rpc[r] = "salvage" => posted \cap ({rcand[r]} \X Reaper) = {}

\* What the thread shows of the work of the turn j, notices of the queue apart.
Shown(j) == {b \in Bubble \ {"user", "notice"} : <<j, b>> \in posted \ superseded}

\* Nobody is about to write a message for the turn j, or to hide one.
Settled(j) == /\ \A d \in Drain : Working(d) => cand[d] # j
              /\ \A r \in Reaper : rcand[r] # j

\* However many reapers and drains touched it, a turn that is over leaves at most
\* one message of the assistant (claim first, then salvage, in job-cancel.ts).  It
\* needs beats to arrive and the stretches without them, before the generation and
\* from its end to the close, to take less than the limit.
OneBubblePerTurn == \A j \in Job : Settled(j) => Cardinality(Shown(j)) <= 1

\* The text a turn mirrored on its row before it died is in the thread once
\* the reaper is done with it (job-cancel.ts, "so a turn that died mid-stream
\* still leaves the work done so far in the transcript"), whether or not it was
\* alive after all and hid that message behind its reply.
NoWorkLost ==
  \A j \in Job : status[j] = "failed" /\ partial[j] = "text" /\ Settled(j)
                => Shown(j) # {}

\* Where a turn that was silent too long after its generation may find its row failed.
Overtaken == IF SilentAt \cap AfterGeneration = {} THEN {} ELSE AfterGeneration

\* The reaper never closes the row of a turn that beats: a row is failed under its
\* drain only by that drain (turn-limits.ts, CHAT_HEARTBEAT_STALE_MS), or after the
\* generation, if what is left to do may take longer than the limit.
LiveTurnKeepsItsRow ==
  \A d \in Drain : Working(d) /\ status[cand[d]] = "failed"
                  => pc[d] \in {"salvage", "mark"} \cup Overtaken

\* A resumption continues a turn of its thread that is one step less deep, and
\* a chain has an end (queue.ts, enqueueTurnContinuation).
ChainsEnd ==
  \A j \in Job : depth[j] > 1 =>
    /\ kind[j] = "continuation" /\ depth[j] <= MaxDepth
    /\ \E i \in 1..(j - 1) : thread[i] = thread[j] /\ depth[i] = depth[j] - 1

\* The line that says the work resumes in the background is true: by the time it
\* can be saved the row of the resumption is in the queue.
PromiseIsQueued ==
  \A d \in Drain : promised[d] =>
    \E i \in (cand[d] + 1)..created :
      /\ thread[i] = thread[cand[d]]
      /\ kind[i] = "continuation" /\ depth[i] = depth[cand[d]] + 1

\* A stopped turn stays stopped: neither its own close nor a salvage takes the
\* row back (a /clear, whose close looks at nothing, is the exception).
StoppedIsFinal ==
  [][\A j \in Job : status[j] = "cancelled" /\ kind[j] # "clear"
                   => status'[j] = "cancelled"]_vars

\* A queued row is claimed, absorbed, stopped or declared dead in the end, and
\* a running one ends: no row blocks its thread for ever.
EveryTurnEnds ==
  \A j \in Job : status[j] \in Open ~> status[j] \notin Open

------------------------------------------------------------------------------
(* What comments of the code say of it, and the code does not do.  Each is the *)
(* property of a run that ends in a counterexample.                            *)

\* mid-turn-mailbox.ts: a message that misses the last step "resta `pending` e
\* gira come turno normale appena il turno corrente finisce"; agent-dm-tools.ts:
\* "altrimenti il drain lo pesca appena si libera".
QueuedTurnsRun == \A j \in Job : status[j] = "pending" ~> status[j] # "pending"

\* queue.ts: a queued /clear "si applica QUI", when the turn that kept it waiting
\* is over: it is never taken for a message of that turn.
ClearIsApplied == \A j \in Job : kind[j] = "clear" => result[j] # "consumed"

------------------------------------------------------------------------------
(* ChatQueue implements SerialTurns *)

PhaseOf(st) == CASE st = "none" -> "absent" [] st = "pending" -> "waiting"
                 [] st = "running" -> "speaking" [] OTHER -> "over"

Turns == INSTANCE SerialTurns WITH
  Turn <- Job, phase <- [j \in Job |-> PhaseOf(status[j])], on <- thread

\* Rows, claims and reapers realise turns spoken one at a time on each thread,
\* each at most once.
SerialTurnsSpec == Turns!Spec

==============================================================================
