------------------------------ MODULE RunLease ------------------------------
(***************************************************************************)
(* The runs of the agent kit, rows of agent_kit_runs: who holds one        *)
(* (claimRun, renewLease: a lease with an owner and a fence that every     *)
(* claim increments), how it is closed (closeRunSaving: the message and    *)
(* the final state in one transaction, fenced; finish and askUser: by the  *)
(* state alone), and how the sweep recovers the runs whose process died    *)
(* (reapDeadKitRuns: resumed as a queued turn while attempts are left,     *)
(* else aborted, and what they had written saved by recoverDeadPartial).   *)
(* From packages/agent-core/src/run-store.ts and turn.ts, the functions    *)
(* of migrations 0229 and 0230, and src/lib/server/agent-kit-recover.ts.   *)
(*                                                                         *)
(* Every action is one database call.  The column attempt is written only  *)
(* together with lease_fence, by the claim: it is the fence plus one.      *)
(***************************************************************************)
EXTENDS Naturals, Sequences, FiniteSets

CONSTANTS
  Run,           \* the runs ever created, each on a thread of its own or on none
  Worker,        \* processes that work on runs
  Sweeper,       \* invocations of the cron that run reapDeadKitRuns
  MaxAttempts,   \* MAX_RUN_ATTEMPTS
  MaxFence,      \* bound of the model: claims of one run
  SlowSweep,     \* a sweep may last longer than CHAT_HEARTBEAT_STALE_MS
  MayStall,      \* the renewals of a live worker may stop reaching the row
  InsertsFail    \* an insert of the sweep may fail

ASSUME RunLeaseAssumption ==
  /\ MaxAttempts \in Nat /\ MaxFence \in Nat
  /\ {SlowSweep, MayStall, InsertsFail} \subseteq BOOLEAN

NoRun == "no run"
NoWorker == "nobody"
ASSUME NobodyAssumption == NoRun \notin Run /\ NoWorker \notin Worker

VARIABLES
  state,       \* agent_kit_runs.state; "waiting" for waiting_input and waiting_takeover
  owner,       \* lease_owner
  fence,       \* lease_fence
  saved,       \* runs with a partial_saved_msg_id
  partial,     \* runs whose mirrored partial has something to show
  threaded,    \* runs with a thread_id and a user_id
  lapsed,      \* runs whose lease_until is null or past, until they are over
  silent,      \* runs with no sign of life for CHAT_HEARTBEAT_STALE_MS, until then
  said,        \* messages of each run in chat_messages, with the fence that wrote them
  alike,       \* runs whose thread has another reply that begins like their partial
  queued,      \* pending chat_response rows of the thread of each run
  fate,        \* of the runs a sweep aborted: "reaped", "lost" if the salvage was cut short
  wpc,         \* per worker: "idle", "leased" (claimRun) or "free" (runTurn, resume)
  hold, grant, \* per worker: its run, and the fence of its lease
  spc, hand,   \* per sweeper: its point in the code and the run it is at
  listed       \* per sweeper: the attempt of the runs it listed and has not tried, or 0

runRow == <<state, owner, fence, saved>>
clocks == <<lapsed, silent>>
thread == <<said, alike, queued>>
workers == <<wpc, hold, grant>>
sweepers == <<spc, hand, listed>>
leaseVars == <<runRow, partial, threaded, clocks, thread, fate, workers, sweepers>>

RunState == {"none", "queued", "running", "waiting", "done", "failed", "aborted"}
Terminal == {"done", "failed", "aborted"}

Story == INSTANCE LastWord WITH
  Errand <- Run, turns <- fence, words <- said,
  phase <- [r \in Run |-> IF state[r] \notin Terminal THEN "open"
                          ELSE IF fate[r] = "none" THEN "over" ELSE "givenup"]

Word == [kind : {"question", "answer", "salvage"}, turn : Nat]

LeaseTypeOK ==
  /\ state \in [Run -> RunState]
  /\ owner \in [Run -> Worker \cup {NoWorker}]
  /\ fence \in [Run -> Nat]
  /\ saved \subseteq Run /\ partial \subseteq Run /\ threaded \subseteq Run
  /\ lapsed \subseteq Run /\ silent \subseteq Run
  /\ said \in [Run -> Seq(Word)]
  /\ alike \subseteq Run
  /\ queued \in [Run -> Nat]
  /\ fate \in [Run -> {"none", "reaped", "lost"}]
  /\ wpc \in [Worker -> {"idle", "leased", "free"}]
  /\ hold \in [Worker -> Run \cup {NoRun}]
  /\ \A w \in Worker : wpc[w] # "idle" => hold[w] \in Run
  /\ grant \in [Worker -> Nat]
  /\ spc \in [Sweeper -> {"idle", "sweep", "look", "insert", "abort", "salvage"}]
  /\ hand \in [Sweeper -> Run \cup {NoRun}]
  /\ \A s \in Sweeper : spc[s] \notin {"idle", "sweep"} => hand[s] \in Run
  /\ listed \in [Sweeper -> [Run -> Nat]]

LeaseInit ==
  /\ state = [r \in Run |-> "none"] /\ owner = [r \in Run |-> NoWorker]
  /\ fence = [r \in Run |-> 0]
  /\ saved = {} /\ partial = {} /\ threaded = {}
  /\ lapsed = Run /\ silent = {}
  /\ said = [r \in Run |-> <<>>] /\ alike = {} /\ queued = [r \in Run |-> 0]
  /\ fate = [r \in Run |-> "none"]
  /\ wpc = [w \in Worker |-> "idle"] /\ hold = [w \in Worker |-> NoRun]
  /\ grant = [w \in Worker |-> 0]
  /\ spc = [s \in Sweeper |-> "idle"] /\ hand = [s \in Sweeper |-> NoRun]
  /\ listed = [s \in Sweeper |-> [r \in Run |-> 0]]

------------------------------------------------------------------------------
(* Taking and keeping a run *)

CreateRun(r, inThread) ==
  /\ state[r] = "none"
  /\ state' = [state EXCEPT ![r] = "queued"]
  /\ threaded' = IF inThread THEN threaded \cup {r} ELSE threaded
  /\ UNCHANGED <<owner, fence, saved, partial, clocks, thread, fate, workers, sweepers>>

TakeUp(w, r, how) ==
  /\ wpc[w] = "idle"
  /\ wpc' = [wpc EXCEPT ![w] = how]
  /\ hold' = [hold EXCEPT ![w] = r]

\* runTurn: no lease and no heartbeat, so the clocks stay those of the insert.
BeginTurn(w, r) ==
  /\ state[r] = "queued" /\ TakeUp(w, r, "free")
  /\ state' = [state EXCEPT ![r] = "running"]
  /\ UNCHANGED <<owner, fence, saved, partial, threaded, clocks, thread, fate, grant, sweepers>>

\* resume: the heartbeat is rewritten, the lease stays that of whoever asked.
Resume(w, r) ==
  /\ state[r] = "waiting" /\ TakeUp(w, r, "free")
  /\ state' = [state EXCEPT ![r] = "running"]
  /\ silent' = silent \ {r}
  /\ UNCHANGED <<owner, fence, saved, partial, threaded, lapsed, thread, fate, grant, sweepers>>

Claimable(r) ==
  \/ state[r] \in {"queued", "waiting"}
  \/ state[r] = "running" /\ r \in lapsed

\* Mutant: the fence grows only when somebody is evicted.
FenceOfEviction(r) == IF state[r] = "running" THEN fence[r] + 1 ELSE fence[r]

NextFence(r) == fence[r] + 1

ClaimRun(w, r) ==
  /\ Claimable(r) /\ fence[r] < MaxFence /\ TakeUp(w, r, "leased")
  /\ state' = [state EXCEPT ![r] = "running"]
  /\ owner' = [owner EXCEPT ![r] = w]
  /\ fence' = [fence EXCEPT ![r] = NextFence(r)]
  /\ grant' = [grant EXCEPT ![w] = NextFence(r)]
  /\ lapsed' = lapsed \ {r} /\ silent' = silent \ {r}
  /\ UNCHANGED <<saved, partial, threaded, thread, fate, sweepers>>

\* The fence of every write by a leased worker.
Holds(w) ==
  /\ wpc[w] = "leased"
  /\ state[hold[w]] = "running" /\ owner[hold[w]] = w /\ fence[hold[w]] = grant[w]

RenewLease(w) ==
  /\ Holds(w) /\ hold[w] \in lapsed \cup silent
  /\ lapsed' = lapsed \ {hold[w]} /\ silent' = silent \ {hold[w]}
  /\ UNCHANGED <<runRow, partial, threaded, thread, fate, workers, sweepers>>

\* The stream of the turn mirrors what it has written onto the row.
MirrorPartial(w) ==
  /\ Holds(w) /\ hold[w] \notin partial
  /\ partial' = partial \cup {hold[w]}
  /\ UNCHANGED <<runRow, threaded, clocks, thread, fate, workers, sweepers>>

Rest(w) ==
  /\ wpc' = [wpc EXCEPT ![w] = "idle"]
  /\ hold' = [hold EXCEPT ![w] = NoRun]
  /\ grant' = [grant EXCEPT ![w] = 0]

\* renewLease returns false, or closeRunSaving closed: false, with nothing written.
Evicted(w) ==
  /\ wpc[w] = "leased" /\ ~Holds(w)
  /\ Rest(w)
  /\ UNCHANGED <<runRow, partial, threaded, clocks, thread, fate, sweepers>>

WorkerDies(w) ==
  /\ wpc[w] # "idle"
  /\ Rest(w)
  /\ UNCHANGED <<runRow, partial, threaded, clocks, thread, fate, sweepers>>

------------------------------------------------------------------------------
(* Closing a run *)

\* Mutant: a close fenced by the state alone, as finish is.
HoldsByState(w) == wpc[w] = "leased" /\ state[hold[w]] = "running"

MayClose(w) == Holds(w)

\* Nobody reads the clocks of a run that is over: the model forgets them.
StopClocks(r) == lapsed' = lapsed \ {r} /\ silent' = silent \ {r}

Saying(r, kind, turn) == said' = [said EXCEPT ![r] = Append(@, Story!Word(kind, turn))]

\* closeRunSaving: the message and its marker in the transaction of the state.
CloseRunSaving(w, to, speaks) ==
  LET r == hold[w] IN
  /\ MayClose(w)
  /\ state' = [state EXCEPT ![r] = to]
  /\ IF speaks
       THEN /\ Saying(r, IF to = "waiting" THEN "question" ELSE "answer", grant[w])
            /\ saved' = saved \cup {r}
       ELSE UNCHANGED <<said, saved>>
  /\ IF to \in Terminal THEN StopClocks(r) ELSE UNCHANGED clocks
  /\ Rest(w)
  /\ UNCHANGED <<owner, fence, partial, threaded, alike, queued, fate, sweepers>>

\* TRANSITIONS of agent-contracts, for the states finish may find.
MayMove(from, to) ==
  \/ from = "running" /\ to \in Terminal
  \/ from \in {"queued", "waiting"} /\ to = "aborted"

\* finish reads the state and moves the row from it, whoever holds it by now;
\* the reply is the caller's to save.  Losing the race writes nothing: WorkerDies.
Finish(w, to) ==
  /\ wpc[w] = "free" /\ MayMove(state[hold[w]], to)
  /\ state' = [state EXCEPT ![hold[w]] = to]
  /\ StopClocks(hold[w])
  /\ Rest(w)
  /\ UNCHANGED <<owner, fence, saved, partial, threaded, thread, fate, sweepers>>

AskUser(w) ==
  /\ wpc[w] = "free" /\ state[hold[w]] = "running"
  /\ state' = [state EXCEPT ![hold[w]] = "waiting"]
  /\ Rest(w)
  /\ UNCHANGED <<owner, fence, saved, partial, threaded, clocks, thread, fate, sweepers>>

------------------------------------------------------------------------------
(* Time, and the thread *)

KeptAlive(r) == ~MayStall /\ \E w \in Worker : Holds(w) /\ hold[w] = r

Lapse(r) ==
  /\ state[r] = "running" /\ r \notin lapsed /\ ~KeptAlive(r)
  /\ lapsed' = lapsed \cup {r}
  /\ UNCHANGED <<runRow, partial, threaded, silent, thread, fate, workers, sweepers>>

GoSilent(r) ==
  /\ state[r] = "running" /\ r \notin silent /\ ~KeptAlive(r)
  /\ silent' = silent \cup {r}
  /\ UNCHANGED <<runRow, partial, threaded, lapsed, thread, fate, workers, sweepers>>

\* The user writes on the thread; one such row at a time is enough.
UserQueues(r) ==
  /\ r \in threaded /\ queued[r] = 0
  /\ queued' = [queued EXCEPT ![r] = 1]
  /\ UNCHANGED <<runRow, partial, threaded, clocks, said, alike, fate, workers, sweepers>>

\* The chat queue runs a pending row of the thread, as an ordinary turn even when
\* it carries resume_run_id, unless a live run of the kit is at work there.
DrainTurn(r, repeats) ==
  /\ queued[r] > 0 /\ ~ (state[r] = "running" /\ r \notin silent)
  /\ queued' = [queued EXCEPT ![r] = @ - 1]
  /\ alike' = IF repeats /\ r \in partial THEN alike \cup {r} ELSE alike
  /\ UNCHANGED <<runRow, partial, threaded, clocks, said, fate, workers, sweepers>>

------------------------------------------------------------------------------
(* reapDeadKitRuns *)

Attempt(r) == fence[r] + 1

\* classifyKitRun looks at the heartbeat as it was listed, at the time of the look.
MayLookDead(r) == state[r] = "running" /\ (r \in silent \/ SlowSweep)

ListRuns(s) ==
  /\ spc[s] = "idle" /\ \E r \in Run : MayLookDead(r)
  /\ listed' = [listed EXCEPT ![s] = [r \in Run |-> IF MayLookDead(r) THEN Attempt(r) ELSE 0]]
  /\ spc' = [spc EXCEPT ![s] = "sweep"]
  /\ UNCHANGED <<runRow, partial, threaded, clocks, thread, fate, workers, hand>>

\* The listed attempt decides between resuming the run and giving it up.
ReapRun(s, r) ==
  /\ spc[s] = "sweep" /\ listed[s][r] # 0
  /\ hand' = [hand EXCEPT ![s] = r]
  /\ listed' = [listed EXCEPT ![s][r] = 0]
  /\ spc' = [spc EXCEPT ![s] = IF r \in threaded /\ listed[s][r] < MaxAttempts
                               THEN "look" ELSE "abort"]
  /\ UNCHANGED <<runRow, partial, threaded, clocks, thread, fate, workers>>

\* On with the run in hand, or to the next of the list.
Onward(s, to) ==
  /\ spc' = [spc EXCEPT ![s] = to]
  /\ hand' = IF to = "sweep" THEN [hand EXCEPT ![s] = NoRun] ELSE hand
  /\ UNCHANGED listed

\* enqueueTurnContinuation declines behind a turn already queued on the thread.
LookForQueued(s) ==
  /\ spc[s] = "look"
  /\ Onward(s, IF queued[hand[s]] > 0 THEN "abort" ELSE "insert")
  /\ UNCHANGED <<runRow, partial, threaded, clocks, thread, fate, workers>>

InsertResumption(s) ==
  /\ spc[s] = "insert"
  /\ queued' = [queued EXCEPT ![hand[s]] = @ + 1]
  /\ Onward(s, "sweep")
  /\ UNCHANGED <<runRow, partial, threaded, clocks, said, alike, fate, workers>>

ResumptionFails(s) ==
  /\ spc[s] = "insert" /\ InsertsFail
  /\ Onward(s, "abort")
  /\ UNCHANGED <<runRow, partial, threaded, clocks, thread, fate, workers>>

Abortable(r) == state[r] = "running"

AbortRun(s) ==
  LET r == hand[s] IN
  /\ spc[s] = "abort"
  /\ IF Abortable(r)
       THEN /\ state' = [state EXCEPT ![r] = "aborted"]
            /\ fate' = [fate EXCEPT ![r] = "reaped"]
            /\ StopClocks(r)
            /\ Onward(s, "salvage")
       ELSE Onward(s, "sweep") /\ UNCHANGED <<state, fate, clocks>>
  /\ UNCHANGED <<owner, fence, saved, partial, threaded, thread, workers>>

\* Mutant: the salvage is only for rows still running, which it just aborted.
WorthSavingRunning(r) == state[r] = "running" /\ r \in partial /\ r \in threaded

WorthSaving(r) == r \notin saved /\ r \in partial /\ r \in threaded /\ r \notin alike

\* recoverDeadPartial; an insert that fails is not noticed.
RecoverPartial(s) ==
  LET r == hand[s] IN
  /\ spc[s] = "salvage"
  /\ \/ WorthSaving(r) /\ Saying(r, "salvage", fence[r]) /\ UNCHANGED fate
     \/ WorthSaving(r) /\ InsertsFail /\ fate' = [fate EXCEPT ![r] = "lost"] /\ UNCHANGED said
     \/ ~WorthSaving(r) /\ UNCHANGED <<said, fate>>
  /\ Onward(s, "sweep")
  /\ UNCHANGED <<runRow, partial, threaded, clocks, alike, queued, workers>>

SweepDone(s) ==
  /\ spc[s] = "sweep" /\ \A r \in Run : listed[s][r] = 0
  /\ Onward(s, "idle")
  /\ UNCHANGED <<runRow, partial, threaded, clocks, thread, fate, workers>>

\* An invocation of the cron dies, and the next one starts again.
SweeperDies(s) ==
  /\ spc[s] # "idle"
  /\ fate' = IF spc[s] = "salvage" THEN [fate EXCEPT ![hand[s]] = "lost"] ELSE fate
  /\ spc' = [spc EXCEPT ![s] = "idle"]
  /\ hand' = [hand EXCEPT ![s] = NoRun]
  /\ listed' = [listed EXCEPT ![s] = [r \in Run |-> 0]]
  /\ UNCHANGED <<runRow, partial, threaded, clocks, thread, workers>>

------------------------------------------------------------------------------

Holding(w) ==
  \/ \E r \in Run : BeginTurn(w, r) \/ Resume(w, r) \/ ClaimRun(w, r)
  \/ RenewLease(w) \/ MirrorPartial(w)

Leaving(w) ==
  \/ Evicted(w) \/ WorkerDies(w) \/ AskUser(w)
  \/ \E to \in {"waiting"} \cup Terminal, b \in BOOLEAN : CloseRunSaving(w, to, b)
  \/ \E to \in Terminal : Finish(w, to)

Around(r) ==
  \/ \E b \in BOOLEAN : CreateRun(r, b) \/ DrainTurn(r, b)
  \/ Lapse(r) \/ GoSilent(r) \/ UserQueues(r)

Sweeping(s) ==
  \/ ListRuns(s) \/ LookForQueued(s) \/ InsertResumption(s) \/ ResumptionFails(s)
  \/ AbortRun(s) \/ RecoverPartial(s) \/ SweepDone(s)

LeaseNext ==
  \/ \E w \in Worker : Holding(w) \/ Leaving(w)
  \/ \E r \in Run : Around(r)
  \/ \E s \in Sweeper : Sweeping(s) \/ SweeperDies(s) \/ (\E r \in Run : ReapRun(s, r))

LeaseSpec == LeaseInit /\ [][LeaseNext]_leaseVars

------------------------------------------------------------------------------
(* Properties *)

\* A worker's grant is a claim the row knows of, no two workers have the same
\* one, and the row's own fence belongs to the worker that owns the row
\* (run-store.ts, "rende NO-OP ogni scrittura successiva del worker sfrattato").
GrantsApart ==
  /\ \A w \in Worker : wpc[w] = "leased" =>
       /\ grant[w] \in 1..fence[hold[w]]
       /\ grant[w] = fence[hold[w]] => owner[hold[w]] = w
  /\ \A w, x \in Worker : wpc[w] = "leased" /\ wpc[x] = "leased" /\ hold[w] = hold[x]
                           /\ grant[w] = grant[x] => w = x

\* Each word of a run was said under a fence it has reached, and whoever has the
\* last fence of an open run has not spoken while it works.
WordsKnown ==
  /\ \A r \in Run : \A i \in 1..Len(said[r]) : said[r][i].turn \in 0..fence[r]
  /\ \A w \in Worker : wpc[w] = "leased" /\ grant[w] = fence[hold[w]]
                      /\ state[hold[w]] \notin Terminal =>
       \A i \in 1..Len(said[hold[w]]) : said[hold[w]][i].turn < fence[hold[w]]

\* A run is reaped once, by one sweep, after its last chance to speak.
ReapedApart ==
  /\ \A r \in Run : fate[r] # "none" => state[r] = "aborted"
  /\ \A r \in Run : said[r] # <<>> => r \in saved \/ fate[r] # "none"
  /\ \A r \in saved : said[r] # <<>>
  /\ \A s \in Sweeper : spc[s] = "salvage" =>
       fate[hand[s]] = "reaped" /\ (said[hand[s]] # <<>> => hand[s] \in saved)
  /\ \A s, t \in Sweeper : spc[s] = "salvage" /\ spc[t] = "salvage" /\ hand[s] = hand[t]
                            => s = t

\* The inductive invariant behind the refinement.
LeaseInv == LeaseTypeOK /\ GrantsApart /\ WordsKnown /\ ReapedApart

\* kit-reaper.test.ts, "il parziale ... finisce comunque in chat": what a run had
\* written when the sweep gave it up is in the chat, or about to be, unless the
\* run had already spoken, the thread already has it, or the salvage was cut short.
SalvageKept ==
  \A r \in Run : r \in partial /\ r \in threaded /\ r \notin alike
                /\ fate[r] = "reaped" /\ said[r] = <<>>
    => \E s \in Sweeper : spc[s] = "salvage" /\ hand[s] = r

\* RunLease implements LastWord: the words of a run are those of its holders, one
\* for each grant, and nothing but the salvage of a run that never spoke follows
\* its end.
LastWordSpec == Story!Spec

==============================================================================
