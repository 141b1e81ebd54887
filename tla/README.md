# Anomalia in TLA+

Anomalia is a team of marketing agents one talks to in conversations. Most of
what it promises depends on background work: turns that are queued, claimed by
serverless invocations that may die, absorbed by one another, resumed, stopped,
reaped, and tools that outlive the turn that started them. This project models
that machinery, checks it with TLC on small instances and proves its main safety
properties with TLAPS for every value of the constants.

Contents: 1 inventory · 2 plan · 3 the chat queue · 4 the tool jobs · 5 the agent
runs and their effects · 6 the designer jobs · 7 runs and bounds · 8 fairness ·
9 proofs · 10 where code and comments part · 11 left out.

## 1. Inventory

Paths are relative to `src/` of the repository root (the application is in
`src/src`, the agent library in `src/packages`). "Status" is that of
`PROJECT.json`.

| Component | State it keeps | Operations | Status |
|---|---|---|---|
| Chat turn queue (`lib/server/chat/queue.ts`) | `chat_response` rows of `chat_jobs`; `chat_messages` | enqueue, claim, run, resume, `/clear`, close, drain | modelled |
| Mid-turn mailbox (`chat/mid-turn-mailbox.ts`) | the same rows | a running turn takes pending rows of its thread | modelled |
| Cancellation and reaper (`chat/job-cancel.ts`, `partial-persist.ts`, `turn-limits.ts`) | the same rows, heartbeat in `partial.at` | Stop, sweep, salvage of partial replies | modelled |
| Background tool jobs (`agent/tools/shared.ts`, `chat/tool-job-report.ts`, `queue.ts`) | tool rows of `chat_jobs` | start, claim, run, close, report to the thread | modelled |
| Drain loop, worker, cron routes | none of their own | call the two above in turn | partly |
| Rooms (`chat/room.ts`) | `threads.room_agents`, rows | choose the next voice | partly |
| Custom agents and schedules (`custom-agents.ts`) | `custom_agent_schedules` | due, fire, pause, record | partly |
| Goals (`chat/goal.ts`) | goal of a thread, its budget | judge a turn, resume it | planned |
| Agent-kit runs (`packages/agent-core/src/run-store.ts`, `turn.ts`, `agent-kit-recover.ts`) | `agent_kit_runs`: state, lease, fence, partial | create, claim, renew, ask, resume, finish, close, reap, salvage | modelled |
| Effects ledger (`packages/agent-core/src/effects.ts`, `executor.ts`) | `agent_kit_effects` | claim, execute, resolve, reconcile | modelled |
| Thread events (`packages/agent-kit/src/thread-events.ts`) | numbered events of a thread | append, read from a cursor | planned |
| Designer jobs (`designer-jobs.ts`, `designer-work.ts`) | rows of `chat_jobs` for long productions, cut in slices | submit, claim, continue, finish, reap | partly (`queueDesignerJob` has no caller) |
| Agent computer (`computer.ts`, `sandbox-leases.ts`) | sandboxes and their leases | acquire, renew, reap | planned |
| Render and generation queues, credits, publishing, onboarding, knowledge, radar, webhooks | their own tables | claims, retries, approvals, refunds | later |
| Browser turn, UI, CLI, content and SEO code, schema | – | – | not modelled (section 11) |

How they interact. Nothing is called directly across components: they share the
table `chat_jobs`. An insert is a message; the claim is an `UPDATE … WHERE status
= 'pending'`; the heartbeat is a column; the cron (`vercel.json`, every two
minutes), the worker process and `scheduleQueueKick` each start drains, and the
same routes and every page that asks "is a turn running?" start sweeps. A tool
job comes back to its thread as an inserted turn; a resumption, a room's next
voice, a schedule and a message between agents are inserted turns too. The agent
runs live in a table of their own, with a lease; what joins them to the queue is
a look of the drain ("is a run alive on this thread?") and the turn that the
sweep queues for a run whose process is dead. Their tool calls pass through a
third table, the ledger, which the same sweep reconciles. The designer jobs are
again rows of `chat_jobs`, of other tools, with a worker, a sweep and a cron
(`/api/v1/designer/work`) of their own.

What is hard there:

* *interleaving*: the look at a thread and the claim of a row are separate calls,
  made by several drains; so are the look and the insert of a resumption, the
  claim of a dead row and its salvage;
* *failure*: an invocation may end between any two calls; a call may fail; the
  heartbeat of a live process may not arrive;
* *stale knowledge*: the sweep judges a list, a drain walks a list, the failure
  notice reads a mirror of the progress;
* *progress*: rows left open block their thread.

What makes each modelled component correct:

* queue: turns of one conversation run one at a time, each at most once; a stopped
  turn stays stopped; chains of resumptions end; a promise of resumption is kept
  in the table; no row blocks its thread for ever;
* mailbox: what a turn absorbs is answered by that turn only;
* reaper: a live turn keeps its row; the text of a dead one is shown, once;
* tool jobs: a job is run once, ends once, and its outcome is told once, truly,
  and in the end;
* agent runs: whoever lost its run writes nothing on it; a run says one thing for
  each time it is granted and nothing after its end; what it had written when it
  was given up is kept;
* ledger: an effect on the outside world happens once at most;
* designer jobs: a slice has one runner; the work does not fork; who follows the
  pointers from slice to slice sees all of it; a row says truly how it ended.

`PROJECT.json` lists under "hazards" the places where these can go wrong, each at
its line, with the properties that watch it.

## 2. Plan

1. **ChatQueue** with **SerialTurns**, its abstract specification. *Done; the
   refinement and all the safety proved, in ChatQueueProofs, TurnPromisesProofs and
   TranscriptProofs.*
2. **ToolJobs** with **OneOutcome**. *Done; safety proved.*
3. **RunLease** with **LastWord**. *Done; safety and refinement proved.*
4. **EffectsLedger** with **AtMostOnce**, and **AgentRuns**, its composition with
   RunLease. *Done; safety and refinement proved.*
5. **DesignerJobs** with **Relay**. *Done; safety and refinement proved.*
6. **ThreadLog** (numbered events, readers with cursors) and **Computer**
   (sandbox leases).
7. **Goals**, **Schedules**, **Rooms** as refinements of the free choices of
   ChatQueue; later credits, publishing, the other queues.
8. A composition of ChatQueue and RunLease, once the engine that drives kit runs is
   in the repository: today nothing claims the run a queued resumption names.

## 3. The chat queue: `ChatQueue.tla`

*State.* One function of rows per column that matters: `thread`, `kind` (what
`input_params` says), `depth` (`continuation_depth`), `status`, `partial` (null,
a beat without text, a beat with text), `result`. Time is two sets: `stale` (the
beat is past `CHAT_HEARTBEAT_STALE_MS`) and `aged` (`created_at` is past
`CHAT_PENDING_STALE_MS`). `posted` and `superseded` are the transcript: which row
put which message in the thread. A drain has a program counter, the row in hand,
its list of candidates and what the code keeps in memory (`wrote` =
`livePartial`, `promised` = `continuationJobId`, `taken` = absorbed follow-ups
not yet saved). A reaper has its list *as it was read* (`seen`, `seenText`).

*Steps.* One action per database call, or per group of calls between which no
other process can act on the same rows. The correspondence, in order of the code:

| Code | Actions |
|---|---|
| `enqueueQueuedChatTurn`, 114–195 | `Enqueue`; `Insert` in all the others |
| `custom-agents.ts` 609–631 | `ScheduleLooks`, `ScheduleFires` |
| `cancelThreadChatJobs` | `CancelTurn`, `CancelSince` |
| `processNextQueuedChatJob`, candidates and skips, 460–494 | `StartDrain`, `SkipCandidate`, `PickCandidate`, `NothingToClaim` |
| the claim, 495–514 | `Claim`, `ClaimLost` |
| refusals and exceptions, 525–593; the catch, 1316–1321 | `Abandon` |
| queued `/clear`, 535–572 | `BeginClear`, `AnswerClear`, `CloseClear` |
| message of the user, generation, heartbeat | `BeginTurn`, `StepWrites`, `Heartbeat`, `EndGeneration` |
| `claimQueuedFollowUps`, `prepareStep` | `Absorb`, `SaveAbsorbed` |
| failure of the generation, 987–1041 | `GenerationFails`, `SaveOwnPartial`, `MarkOwnPartial` |
| resumption, 1114–1140 and 241–275 | `NoContinuation`, `WantContinuation`, `InsertContinuation`, `ContinuationLost` |
| reply, room, close, 1152–1315 | `SaveReply`, `AskRoom`, `NextVoice`, `NoVoice`, `ReadRow`, `Close` |
| `reapStaleChatJobs`, `salvageStaleChatJobPartial` | `StartSweep`, `ReapSkip`, `ReapClaim`, `ReapLose`, `ReapSalvage`, `ReapMark`, `EndSweep` |
| end of an invocation | `Crash`, `ReaperDies` |

What a model writes is abstract: a turn writes text or not, fails or ends, wants a
resumption or not. The text of a row is not modelled beyond "has text".

*Silence.* A turn beats from `queue.ts` 907 to 993, while it generates. What comes
before (credits, history, the prompt) and after (the verdict on the goal, the
resumption, the save of the reply, the next voice of the room, the close) has no
beat, and nothing bounds it: `turn-limits.ts` 17–19 reserves 65 seconds for it, the
sweep waits 90, and the room's router (`room.ts` 647) has no timeout. `SilentAt` is
the set of points at which a turn with a live process may be silent past the limit;
`GoStale` is free there, and wherever no process is at the row.

*Abstract specification.* `SerialTurns`: the turns of a thread are spoken one at
a time, each at most once, and a turn that is over stays over. ChatQueue maps
`pending` to waiting, `running` to speaking and every closed status to over. The
mapping is the identity on rows: what makes it interesting is that the look at
the siblings and the claim are separate calls, and that the late close of a
failed row is a stutter.

## 4. The tool jobs: `ToolJobs.tla`

Rows of the same table, run by the same drains and reaped by the same sweeps, but
without a busy check: any pending row may be claimed. `reports[j]` is the sequence
of outcomes enqueued for job `j`: in the whole system, an `Enqueue` of ChatQueue.
`stopped` is a history variable, for the properties only.

| Code | Actions |
|---|---|
| `startLongToolJob` (`shared.ts` 39–75) | `StartJob`, `StopAtStart` |
| `cancelThreadChatJobs` | `StopThread` |
| `processNextPendingToolJob`, candidates and claim | `StartDrain`, `PassOver`, `Claim`, `NothingToClaim` |
| `executeChatToolJob`, `assertActive` | `ToolReturns`, `ToolThrows`, `ToolTimesOut`, `NoticesStop`, `StillActive`, `Heartbeat` |
| close and report, 1407–1461 | `Close`, `Report` |
| `reapStaleChatJobs` on tools | `StartSweep`, `ReapSkip`, `ReapClaim`, `ReapReport`, `EndSweep` |

`OneOutcome` is its abstract specification: begun, taken up once, ended once, told
once and with the outcome it ended with. `status` and `reports` are mapped to
themselves; the two histories are hidden.

## 5. The agent runs and their effects: `RunLease.tla`, `EffectsLedger.tla`, `AgentRuns.tla`

*RunLease, state.* A row of `agent_kit_runs` is `state`, `owner`, `fence` (the
lease; `attempt` is the fence plus one, as the claim alone writes both), `saved`
(`partial_saved_msg_id`), `partial` and `threaded`. `lapsed` and `silent` are the
two clocks: a lease that may be taken over, and a heartbeat old enough for the
sweep; the model forgets them when the run is over (`StopClocks`), as nobody reads
them then. `said` is what the run put in the chat, each message with the fence that
wrote it; `alike` says that the thread has another reply that begins like the
partial, which is all `recoverDeadPartial` compares. A worker holds a run with a
lease (`claimRun`) or without (`runTurn`, `resume`). A sweeper keeps the attempts
*as it listed them*. `fate` is history: who was given up, and whose salvage was
cut short.

| Code | Actions |
|---|---|
| `createRun`; `runTurn` up to `running`; `resume` | `CreateRun`, `BeginTurn`, `Resume` |
| `agent_kit_claim_run` (migration 0229) | `ClaimRun` |
| `renewLease`; the mirror of the stream (external) | `RenewLease`, `MirrorPartial` |
| `renewLease` or `closeRunSaving` answers false | `Evicted` |
| `agent_kit_close_run` (migration 0230) | `CloseRunSaving`: state, message and marker in one transaction |
| `finish`, `askUser` | `Finish`, `AskUser`: by the state alone |
| `reapDeadKitRuns` | `ListRuns`, `ReapRun`, `LookForQueued`, `InsertResumption`, `ResumptionFails`, `AbortRun`, `SweepDone` |
| `recoverDeadPartial` | `RecoverPartial` |
| the thread: a message, a queued turn that runs | `UserQueues`, `DrainTurn` |
| end of a process | `WorkerDies`, `SweeperDies` |

*Abstract specification.* `LastWord`: a run is granted to one holder after
another, each says one thing at most, nothing is said after the end, and a run
that was given up is spoken for only if it never spoke. The fence maps to the
number of grants and `said` to the words; the leases, clocks, sweeps and salvages
in between are what the refinement has to see through.

*EffectsLedger.* One row per identity of a call (`brand_id`, `invocation_id`), and
per process its place in the gate of `createApplyTool`: claimed, executing,
recording, in doubt. `done` counts what happened outside, which the code cannot
see. `Honest` are the calls of tools that say "failed" only when nothing
happened: a failed call may be tried again, so for the others nothing can be
promised (section 10).

*Abstract specification.* `AtMostOnce`: a deed is attempted by one at a time, happens
within the attempt or not at all, and may be tried again only if it has not happened.
A call is being tried from its claim until the tool returns, throws or dies with its
process (some process is in `execute` with it); otherwise its row says whether another
attempt may be made. What the refinement has to see through: rows frozen by the
sweep under a process still at work, doubts recorded late over the claim of another
process, and the verdict "failed" that only the hand that saw nothing happen may
write.

*AgentRuns* puts the two side by side: a worker makes calls for the run it holds,
before and after it lost it (it does not know), dies with the call in its hands,
and does not close its run before the tool has returned; the sweep reconciles the
effects of a run before it resumes it or gives it up, and may fail to.

## 6. The designer jobs: `DesignerJobs.tla`

*State.* The row: `status`, `ugc` (which of the two tools), `parent`, `depth` and
`next` (`parent_job_id`, `continuation_depth` of the parameters;
`continuation_job_id` of the result). The two clocks are those of ToolJobs. A
runner is a page or a worker, with the row in hand, the candidates it read and
what became of the rest of its slice; a sweep has its two lists as it read them.
`verdict` (why a row ended, as its process saw it) and `doubtful` (rows that two
processes acted on, or whose continuation was inserted and never pointed to) are
history, for the properties only.

| Code | Actions |
|---|---|
| `insertDesignerJob`, from a page | `Submit` |
| `processNextDesignerJob` | `StartDrain`, `Consider`, `Claim`, `NothingToClaim` |
| `attachDesignerStreamMirror` | `Heartbeat` |
| `onTruncated` of the UGC batch | `CutMidway`, then `PointToChild` |
| the end of a slice: `runClaimedDesignerJob` 169–187, 249–261, 279; `motion-video` 252–297; `media-generator` 330–361 | `SliceEnds`, `SliceCut`, then `PointToChild` or `Close` |
| a turn that throws | `Throws`, `Close` |
| `enqueueDesignerContinuation`: insert, then the update of the parent | `InsertChild` or `RefuseChild`, then `Point` |
| `finishDesignerJob` | `FinishAs`: by id, whatever the row has become |
| `reapStaleDesignerJobs` | `StartSweep`, `ReapSkip`, `ReapOrphan`, `ReapContinue`, `ReapPoint`, `ReapFail`, `EndSweep` |
| end of a process; a call that fails | `Die`, `ReaperDies`; the second disjunct of each call |

Pages and workers differ in one place, kept by the model: when a slice cannot be
continued, a worker closes its row as done and a page leaves it running for the
sweep. The properties except `doubtful` rows, because the code's pair of calls
(insert the child, point the parent to it) cannot be made one: section 10 says
what happens to them.

*Abstract specification.* `Relay`: the legs of a brief follow one another; a leg is
taken up once, hands the rest of the work on to one leg while it is still open, and
then passes the baton (done, with a pointer) or ends; what it ended with stays, and
at most `MaxDepth` legs follow the first. A doubtful row maps to a lost leg, of which
only the limit is promised: what is handed on from it still counts. A child that is
inserted is not doubtful itself, so the promise resumes with it.

## 7. Runs and bounds

Bounds and switches, all CONSTANTS:

| Constant | Stands for | In the code |
|---|---|---|
| `MaxJobs` | rows ever inserted | unbounded |
| `Window` | candidates a drain lists | 20 (turns), 10 (tools) |
| `MailboxLimit` | follow-ups of a step | 5 |
| `MaxDepth` | length of a chain | `CHAT_MAX_CONTINUATIONS` = 9 (24 for a motion video) |
| `Kinds`, `KitThreads` | what the environment does | everything |
| `CrashAt`, `FailAt`, `ReapersDie`, `InsertsFail` | where a process may die, or a call fail | anywhere |
| `SilentAt` | where a live turn of the queue may be silent past the limit (section 3) | anywhere: rare while it generates, a matter of slow calls elsewhere |
| `MayStall`, `SlowSweep`, `MayAge` | clocks that pass the limits under a live tool job, run or sweep | rare but possible |
| `MayCancel`, `MayTimeOut` | Stop; a fetch that times out | always |
| `MaxFence` | claims of one run | unbounded |
| `MaxAttempts` | sweeps' limit on resumptions | `MAX_RUN_ATTEMPTS` = 3 |
| `MaxDone` | how far effects are counted (2 is enough to see a second one) | unbounded |
| `ReconcileFails` | the reconciliation may fail, and is only logged | rare but possible |
| `MaxRoots` | briefs submitted | unbounded |
| `MaxFaults` | deaths, failed calls and late beats of designer processes | unbounded |

`MaxDepth` of DesignerJobs is `DESIGNER_MAX_CONTINUATIONS` = 24 and its `Window`
the 10 candidates of a worker; the 50 rows of a sweep are not bounded in the model.

The switches exist because the code promises different things under different
adversities: a property that needs heartbeats to arrive is checked in a run where
they do, and says so at its definition.

Passing runs:

| Run | Instance | States | Shows |
|---|---|---|---|
| `queue_claims` | 1 thread, 2 drains, 1 reaper, 2 rows; crashes, Stop, dying reapers, slow sweeps, turns silent at every point and calls that throw at every one before the generation and after it | 1 070 000 | `QueueInv` (inductive, section 9), a drain takes up a thread while the turn of another is being settled only if one of the two was given up (`DrainsApart`), the mailbox (`AbsorbedIsNotAnswered`), Stop (`StoppedIsFinal`), refinement of SerialTurns |
| `queue_bubbles` | 1 thread, 2 drains, 2 reapers, 3 rows, chains of 2; crashes before the reply is saved, calls that throw before the generation and after the reply | 2 400 000 | nobody is about to save what is saved already (`SavedOnce`), what a dead turn wrote is shown (`NoWorkLost`) once (`OneBubblePerTurn`), live turns keep their row (`LiveTurnKeepsItsRow`), `ChainsEnd`, `PromiseIsQueued` |
| `queue_threads` | 2 threads, 2 drains, 2 rows, every kind of turn, kit runs | 1 540 000 | `OneRunningPerThread` with every kind of turn |
| `queue_progress` | 2 drains, 1 reaper, 2 rows, crashes, ageing | 266 000 | `EveryTurnEnds` under fairness |
| `tools_once` | 2 drains, 2 reapers, 3 jobs; crashes, dying reapers, Stop, timeouts, failing inserts | 930 000 | `ToolInv` (inductive), `FailureIsFinal`, refinement of OneOutcome |
| `agent_runs` | 1 run, 2 workers, 1 sweep, 1 call, 2 claims; stalls, slow sweeps, deaths, failing inserts and reconciliations | 680 000 | `LeaseInv` and `LedgerInv` (inductive), refinements of LastWord and of AtMostOnce, `SalvageKept` |
| `designer_chain` | 1 page, 2 workers, 1 sweep, 1 brief, 1 continuation, 3 rows, 1 fault anywhere | 750 000 | `DesignerInv` (inductive with the next two), `ChildrenFound`, `EndingsExplained`, `EndingsStay`, refinement of Relay, and `BriefsEnd` under fairness |
| `tools_progress` | 2 drains, 1 reaper, 2 jobs; crashes, stalls, ageing | 253 000 | `EveryOutcomeTold`, and `EveryJobComesBack` under fairness |

Why these sizes. Every property is about at most two rows and two processes of
one thread, so two rows and two drains reach each kind of interference; a third
row is there where a row must arrive between two others (a resumption behind a
message; a dead turn, its successor and a follow-up). A second thread can only
matter to the filters on `thread`, and `queue_threads` has one. `Window` and
`MailboxLimit` of 2 are reached with three rows. `MaxDepth` of 2 with resumptions
enqueued from outside (which start at depth 1) reaches the limit with three rows.
The properties of a run of the agent kit
are about that run, so one is enough; two claims of it, with the three attempts of
the limit, reach eviction, a return of the evicted, and the sweep's choice between
resuming and giving up. A second sweep adds nothing the first cannot do after its
own list went stale but the race for the abort, which the update decides; any
number is covered by the proofs. One brief of two slices has every kind of step of a
chain (a root, a continuation, a refusal at the limit); one fault on three rows
leaves room for the second child it causes. Processes are permuted (`SYMMETRY`) in the runs without liveness; threads are
not, since `Init` picks one of them. Deadlock is not checked: with all rows
inserted and closed nothing is left to do.

Conditions under which the conditional properties are checked and, where section 9
says they are proved, the hypotheses of the theorems:

* `LiveTurnKeepsItsRow`: beats arrive and what a turn does before the first of them
  takes less than the limit (`SilentAt` has no point up to the end of the
  generation), sweeps are quicker than the limits and rows do not age. After the
  generation the row is kept if the rest takes less than the limit too: the property
  excepts that stretch where `SilentAt` has a point in it;
* `NoWorkLost`: the same; besides, reapers, and drains that save their own partial,
  live to finish, their insert works, and no call throws from the end of the
  generation to the save of the reply (one that does, `queue.ts` 1056–1201, is caught
  at 1316, where the row is failed and nobody saves its text);
* `OneBubblePerTurn`: beats arrive, what a turn does before them *and after them*
  takes less than the limit, sweeps are quicker than the limits, and a turn that has
  saved its reply lives to close its row (`queue_saved_twice` lifts the last). The
  code that hides a salvaged message behind a late reply (`queue.ts` 1271–1287) is
  therefore at work in `queue_claims` only;
* `FailureIsFinal`: beats arrive and rows do not age;
* `EveryOutcomeTold`: who closed a row lives to report it and the insert works;
* `EffectOnce`, a conjunct of `LedgerInv`: tools that say they failed did nothing
  (`Honest`);
* `SalvageKept`: the sweep lives from the abort to the save, and the insert works;
* `ChildrenFound`, `EndingsExplained`, `EndingsStay`, and Relay but for its limit:
  rows that are not `doubtful`.

`QueueInv`, `ToolInv`, `LeaseInv`, `LedgerInv`, `DesignerInv`, the refinements of the
queue, the tools and the runs, `DrainsApart`, `AbsorbedIsNotAnswered`, `SavedOnce` and
`StoppedIsFinal` need none of this; the refinement of AtMostOnce is about honest calls.
`DrainsApart` has its exception in itself: with `LiveTurnKeepsItsRow` it says that,
where a turn is never silent past the limit, two drains are at one thread only if
somebody pressed Stop.

The runs that end in a counterexample are in section 10.

## 8. Fairness

`FairSpec` asks weak fairness of what the deployment repeats by itself, and of
nothing else:

* the steps of a drain that has something to do (`Claiming`, `Running`,
  `Settling`; `Draining`): the cron and the worker start a drain at least every
  two minutes, and the platform runs what it started until a crash. A generation
  that goes on for ever is excluded: it has a budget of seconds;
* the steps of a sweep, started by the same routes;
* clocks (`GoStale`, `Age`) and, for the queue, the end of a kit run, whose own
  lease bounds it.

For the designers, the same: the steps of a worker and of a sweep, both started by
the cron every two minutes, the steps of a page that has begun, and the clock of
the heartbeat. `BriefsEnd` says that the table is quiet again and again when
finitely many briefs are submitted and finitely many faults occur. It does not
need rows to age, as somebody always comes for a pending row.

Nothing obliges a process to beat, to write text, to absorb, to fail or to crash,
and a process may crash infinitely often: `EveryTurnEnds` and
`EveryJobComesBack` hold although every drain may die each time it touches the
row, because rows age and sweeps close them. That is also why these two need
`MayAge`: a row that no drain survives is ended by its age alone.

## 9. Proofs

Eight modules of proofs, all for arbitrary finite or infinite sets of threads, runs,
calls and processes, any bounds, and every setting of the switches unless stated.

**ChatQueue.** Assumption: `ChatQueueAssumption` (types of the constants; reapers
are not the strings used as names of messages).

* `QueueInvariant`: `Spec => []QueueInv`. `OneRunningPerThread` is not inductive:
  a claim relies on a look several calls old. `ClaimersAlone` says what is left of
  the look at the time of the claim: while the row in hand is still pending, no
  sibling is running, and two drains about to claim on one thread hold the same
  row. It survives because a drain takes a row up only if *no* sibling is pending
  or running, so a sibling that appears later finds this row open and is skipped
  in its turn; and a row that stops being pending falls out of the condition, as
  its claim will fail. `RowsInHand` supplies that rows in hand exist (a new row is
  nobody's), `SalvageIsPosted` that `superseded` hides posted messages only
  (needed by `TypeOK`).
* `TypeCorrect`, `OneTurnAtATime`: its conjuncts.
* `Refinement`: `Spec => SerialTurnsSpec`, action by action: inserts map to `Ask`,
  the claim to `Speak` (by `ClaimersAlone`), closes, Stop, absorption and the
  claim of the reaper to `Finish`, all the rest to stuttering.

What the queue promises of its turns is proved in `TurnPromisesProofs`, over
lemmas that say once what a step does to the columns (`ColumnSteps`), to the
drains (`DrainMoves`), to the reapers (`SalvagersKnown`) and to the status of a
row (`StatusMoves`, `MovedBy`):

* `StopsAreFinal`: `Spec => StoppedIsFinal`. Every update that closes a row matches
  an open or a failed one; the close of a `/clear`, which matches anything, is at a
  `/clear` (`PointsKnown`).
* `ChainsHaveAnEnd`, `PromisesAreQueued`: `PointsKnown` keeps the look at the depth
  until the insert, and the promise after it; rows keep their columns.
* `AbsorbedOnce`: `Spec => []AbsorbedIsNotAnswered`. `OneOwner` (whoever works on a
  row or salvages it came through a claim, and one drain at most did) and `Untold`
  (a row nobody has claimed has no result and no message but its user's): what the
  mailbox takes is nobody's and stays so.
* `LiveTurnsKeepTheirRows`: `LiveTurnKeepsItsRow`, under its conditions of section 7
  (`Punctual`). `HeldRows` and `KeptRows`: a row that a sweep has listed as silent, or
  salvages, has no drain at work on it, or one that is past its generation in an
  instance where that may take long; a beat gets old only behind such a row.
* `DrainsStayApart`: `Spec => []DrainsApart`, with no condition: however long a turn is
  silent after its generation, whoever dies, throws or presses Stop. `WorkedRows`: the
  row of a turn at work is running, failed or cancelled, as nothing but its own drain
  makes it done. Two turns of one thread that are neither failed nor cancelled would
  then both be running, against `OneRunningPerThread`.

What becomes of the work of a turn is proved in `TranscriptProofs`, over lemmas that
say who can put a message of a turn in the thread (`WordsFrom`, `TurnSays`):

* `NobodySavesTwice`: `Spec => []SavedOnce`, with no condition. A drain and a reaper
  do save the work of one turn in turn (`queue_saved_twice`), but never two drains,
  nor two reapers. `SavesApart`: a reaper saves a row it has failed itself, which no
  other then finds open; a drain saves a row of which it alone is the owner
  (`OneOwner`), and has saved nothing of it before.
* `EachTurnOneBubble`: `OneBubblePerTurn`, if beats arrive, sweeps are quick
  (`Beating`), what follows the generation takes less than the limit (`Prompt`) and a
  drain does not die between its reply and the close (`TellersLive`); deaths anywhere
  else, failing calls, Stop, age and dying reapers are allowed. `OneWord` follows the
  words of a turn: none while its drain has not spoken, one afterwards, and one that
  is not its drain's only when no drain is at the row. What separates the two savers
  is `HeldRows`, which is where `Beating` and `Prompt` are needed.
* `WorkIsKept`: `NoWorkLost`, under its conditions of section 7 (`Punctual`,
  `SaversLive`). `WorkHeld`: the text of a failed row is shown, or a reaper or the
  drain has it in hand. A drain that fails its row holds the text in memory, a reaper
  in its list; that its list is not older than the last beat of a live drain is
  `KeptRows`. A drain taken for dead after its generation hides what was salvaged, but
  only behind a reply, which then is what is shown; a turn past its generation stays
  past it until it ends (`StaysOvertaken`).

**ToolJobs.** Assumption: `ToolJobsAssumption`.

* `ToolInvariant`: `Spec => []ToolInv`: `RunnersApart` (no two drains hold a row,
  and a held row is not pending) and `TellersAlone` (whoever is about to report a
  row closed it, is alone, and nobody has reported it). The first is what makes
  the close match for one process; the second is the property and its own
  strengthening.
* `ToolRefinement`: `Spec => OneOutcomeSpec`.
* `OutcomesComeBack`: `Spec => []EveryOutcomeTold`, if no process dies between
  close and report and inserts work (the assumptions are in the statement).
* `FailuresAreFinal`: `Spec => []FailureIsFinal`, if beats arrive and rows do not
  age. Strengthening: a row listed as silent, and a stale running row, have no
  process behind them.

**RunLease** (`RunLeaseProofs`). Assumptions: `RunLeaseAssumption`,
`NobodyAssumption` (types; "no run" and "nobody" are nobody's names).

* `LeaseSafe`: `LeaseSpec => []LeaseInv`. "An evicted worker writes nothing" is not
  inductive by itself: `GrantsApart` says that a grant is at most the fence of its
  row, that two workers never have the same, and that the fence of the row is its
  owner's. `WordsKnown` adds that whoever has the last grant of an open run has not
  spoken under it (a close ends the holding), and `ReapedApart` that a run is
  given up once, by the sweep whose update matched, after its last chance to speak:
  the abort and the close exclude each other through the state.
* `SalvageSafe`: `SalvageKept`, from the same invariant.
* `LeaseImplementsLastWord`: the claim maps to `Grant`, closes to `Ask`, `Answer`
  or `End`, the abort to `GiveUp`, a salvage to `Salvage` (by `ReapedApart`, the run
  never spoke), everything else to stuttering.

**EffectsLedger** (`EffectsLedgerProofs`). Assumption: `LedgerAssumption`.

* `LedgerSafe`: `LedgerSpec => []LedgerInv`. `EffectOnce` needs `OneAtACall` (a row
  under execution is intended or ambiguous, so nobody else may claim it, whoever
  reconciles meanwhile) and `NothingToRepeat` (what may be executed, or is about
  to be recorded as failed, has not happened).
* `LedgerImplementsAtMostOnce`, from the same invariant: the claim maps to `Try`, the
  end of the tool to `Succeed` or `Miss` (a death in the middle is a `Miss`), a row
  that becomes failed to `Release` (by `NothingToRepeat`), doubts and
  reconciliations to stuttering (by `OneAtACall` they find no row that could be
  executed).

**AgentRuns** (`AgentRunsProofs`). Assumption: `AgentRunsAssumption` (the workers
are the executors, the runs the owners). `RunsByLease` and `EffectsByLedger`: each
step of the composition is a step of each part or leaves it alone; `RunsTellOnce`,
`RunsKeepPartials`, `EffectsHappenOnce` and `EffectsTriedApart` carry the theorems
over.

**DesignerJobs** (`DesignerJobsProofs`). Assumption: `DesignerAssumption` (types; a
process is a page or a worker).

* `DesignerSafe`, `NothingForks`, `SlicesEndAsTold`: `DesignerInv`, `ChildrenFound`
  and `EndingsExplained` are inductive together. `RunnersApart` makes the claim
  exclusive; `HandsKnown` is the heart: whatever acts on a row beside its runner
  makes it doubtful, so the only hand on a row that is not doubtful knows its
  status, and inserts a child of a running row, which by `ChildrenFound` has none.
  `Lineage` bounds the chain.
* `EndsAreKept`: `Spec => EndingsStay`, from the same invariant: each update that
  could touch a closed row is made by a hand that believes it open.
* `DesignersImplementRelay`, from the same invariant and `LostExist` (a row is doubtful
  after its insert): inserts of pages map to `Begin`, of children to `HandOn` or, if
  the sweep acts beside another, to `Fork`; the claim to `TakeUp`, the pointer to
  `Pass`, closes to `End` or `GiveUp`, interrupted pairs of calls to `Lose`, all the
  rest to stuttering. That a hand that inserts or closes has handed nothing on yet is
  `ChildrenFound` (`StillWhole`, `LeftWhole`).

Only model-checked: what holds under fairness (`EveryTurnEnds`, `EveryJobComesBack`,
`BriefsEnd`), as fairness needs ENABLED, which the prover does not treat; and the
counterexamples of section 10. Every other property of a passing run is proved.

## 10. Where code and comments part

Each run checks one sentence of the repository and ends in a counterexample; the
quotations are in `PROJECT.json`.

| Run | Sentence | What happens |
|---|---|---|
| `queue_siblings` | a message that misses the last step, or a message between agents, runs as soon as the thread is free | two rows waiting on one thread are each the other's active turn; neither is claimed until the age limit fails both. The run has no reaper and no ageing: it asks whether a drain ever claims them |
| `queue_clear_absorbed` | a queued `/clear` is applied when the turn before it is over | the mailbox of that turn absorbs it as text |
| `queue_saved_twice` | a salvaged partial is superseded by the reply instead of standing beside it | the turn dies while the room chooses the next voice: its reply is saved, its row is still running, and the reaper adds the partial |
| `tools_timeout` | every outcome comes back, silence is the worst of ends | a timed-out fetch is taken for a Stop and ends the job in silence |

Smaller gaps, visible in the model by turning a switch on in a passing run:

* `"generate"` in `SilentAt`, or `SlowSweep` with two threads, in `queue_bubbles`: the
  reaper fails the row of a turn that is at work (`LiveTurnKeepsItsRow`);
* a point after the generation in `SilentAt` of `queue_bubbles`: the row of a turn that
  settles for longer than 90 seconds is failed under it. `queue.ts` 1229–1231 says that
  in this window the row is still `running` and the drain skips the thread; then it is
  not, and another drain takes the thread up while the first has still to choose its
  next voice (the exception of `DrainsApart`). The reply of the first may read its row
  before the salvaged message is on it, and both stay (`OneBubblePerTurn`);
* `"save"` in `FailAt` of `queue_bubbles`: a save of the reply that throws leaves a
  failed row with text and no message (`NoWorkLost`);
* `ReapersDie` in `queue_bubbles`: the text of a row claimed by a reaper that dies
  is on no transcript (`NoWorkLost`);
* `"report"` in `CrashAt` of `tools_progress`: an outcome nobody will tell
  (`EveryOutcomeTold`);
* `MayAge` in `tools_once`: a job claimed late is failed under its drain by a sweep
  that had listed it as pending (`FailureIsFinal`).

Read in the code and present in the model, without a property: a turn that dies
between the claim of a follow-up and its save loses the message; Stop pressed
while the router is asked does not stop the next voice; a cancelled turn may still
queue its resumption; a row queued between the look and the insert gets a
resumption stacked behind it; a resumption queued by a finished render while a
`/clear` is at work finds its history cleared.

In the agent runs and the ledger, present in the model:

* `turn-limits.ts` 170–175 gives a run up after three attempts "instead of being
  reborn for ever". The attempts are counted by the claim; the sweep queues a turn
  with `resume_run_id`, and the drain runs it as an ordinary turn (nothing in the
  repository reads that parameter): the run stays `running`, silent, with attempt 1,
  and is put back in the queue by every sweep that finds its thread free;
* when a turn is already queued on the thread, be it the run's own resumption,
  `enqueueTurnContinuation` declines and the run is aborted with attempts left;
* a run that asked the user once and was resumed has `partial_saved_msg_id`: if it
  then dies, what it had written since is not salvaged (`SalvageKept` excepts runs
  that spoke);
* `finish` and `askUser` are not fenced: of a run claimed in between, they close
  what another process is at, which learns it from its next fenced write. `runTurn`
  never beats, so the sweep may find its run silent while it works;
* `recoverDeadPartial` ignores the error of its insert, and a sweep that dies
  between abort and salvage is not repeated: the text is lost;
* a worker that lost its lease goes on making tool calls until its next fenced
  write; a call it claims after the reconciliation and dies with stays `intended`
  for ever (and is not executed again);
* a failed call may be executed again. `act` answers with an error when its actions
  were performed and the screenshot failed (`executor.ts` 192–194): such a tool is
  not `Honest`, and its effect may happen twice.

In the designer jobs:

* a process that dies, or an update that fails, between the insert of the child and
  the pointer to it leaves the parent running: the sweep makes a second child, and
  the work forks. So does a sweep over a slice whose process is alive but silent
  (the mirror's heartbeat stops with the stream, while the transcript is still being
  saved and the continuation queued), and two sweeps at once;
* `finishDesignerJob` looks at nothing but the id and nulls `result`: the late close
  of a slice the sweep has continued erases the pointer, and
  `followDesignerJobChain` stops there;
* at the limit of continuations, or when the insert of one fails, a worker closes
  its row as done ("finita bene", `chat-job-status.ts` 25) with work left; the sweep
  closes the same situation as failed (`EndingsExplained` says which it was);
* a close that fails is only logged, and the sweep then continues work that was
  over; a row claimed after the sweep listed it as pending may be failed under its
  worker.

## 11. Left out

* Text, prompts, tools and models: what they decide is a free choice of the model.
* The browser's own turn: its server route is not in the repository. What the queue
  sees of it are rows and Stop.
* The text that a background tool job mirrors on its row while it streams
  (`job-partial-mirror.ts`, from `subagent-jobs.ts` 110): nothing salvages the text of a
  tool row. That it writes `partial.at` as well makes it a second source of
  `Heartbeat` in ToolJobs.
* Reads that fail silently: `threadHasActiveChatResponse` takes an error for "free",
  with which two turns could run at once.
* The seconds of an invocation, the order of tool jobs and turns in one lap, and
  that a drain starts another.
* In ChatQueue, kit runs beyond "one is alive on this thread"; the drain checks that
  before its claim and not after (step 8 of the plan). In RunLease, the engine that
  drives a turn: no page of the repository calls it, so its workers do whatever the
  store allows.
* What a designer's slice makes, its transcript, and the chat turns that wait for
  it; the client's polling beyond the pointers it follows; Stop, which looks for a
  thread that designer rows do not have.
* Mail, Sentry, credits, titles, suggestions and memory written at the end of a
  turn: nothing reads them back in these protocols.
* The components the inventory marks as planned or later.
