---------------------------- MODULE EffectsLedger ----------------------------
(***************************************************************************)
(* The ledger of the tools that act on the outside world, rows of          *)
(* agent_kit_effects: createApplyTool claims the identity of a call before *)
(* it executes it and resolves the row after                               *)
(* (packages/agent-core/src/executor.ts), reconcileRun freezes what the    *)
(* process of a dead run had left half done                                *)
(* (src/lib/server/agent-kit-effects-store.ts).  A call whose row is       *)
(* already there is not executed, unless the row says it failed.           *)
(*                                                                         *)
(* The tool itself is external: what it did is known here by done, the     *)
(* ledger only knows how it says it went.                                  *)
(***************************************************************************)
EXTENDS Naturals

CONSTANTS
  Executor,   \* processes that execute tool calls
  Owner,      \* the runs a call may be made for
  Call,       \* the identities of calls, brand_id and invocation_id
  Honest,     \* calls of tools that only say they failed when they did nothing
  MaxDone     \* bound of the model: effects are counted up to here

NoOwner == "no owner"
NoCall == "no call"
ASSUME LedgerAssumption ==
  Honest \subseteq Call /\ NoCall \notin Call /\ MaxDone \in Nat \ {0}

VARIABLES
  status,    \* agent_kit_effects.status; "none" before the insert
  runOf,     \* run_id of the row
  done,      \* how many times the tool had its effect (outside world)
  epc,       \* per executor: its point in createApplyTool
  call,      \* per executor: the call it has claimed
  verdict    \* per executor: how the tool says it went

executors == <<epc, call, verdict>>
ledgerVars == <<status, runOf, done, executors>>

Verdict == {"completed", "failed", "ambiguous"}

LedgerTypeOK ==
  /\ status \in [Call -> {"none", "intended"} \cup Verdict]
  /\ runOf \in [Call -> Owner \cup {NoOwner}]
  /\ done \in [Call -> Nat]
  /\ epc \in [Executor -> {"idle", "execute", "record", "doubt"}]
  /\ call \in [Executor -> Call \cup {NoCall}]
  /\ \A w \in Executor : epc[w] # "idle" => call[w] \in Call
  /\ verdict \in [Executor -> Verdict]

LedgerInit ==
  /\ status = [c \in Call |-> "none"] /\ runOf = [c \in Call |-> NoOwner]
  /\ done = [c \in Call |-> 0]
  /\ epc = [w \in Executor |-> "idle"] /\ call = [w \in Executor |-> NoCall]
  /\ verdict = [w \in Executor |-> "failed"]

------------------------------------------------------------------------------

\* Mutant: a call in doubt may be executed again.
ExecutableInDoubt(c) == status[c] \in {"none", "failed", "ambiguous"}

\* The insert finds no row, or the update of a failed one matches.
Executable(c) == status[c] \in {"none", "failed"}

\* claim; a call that is not executable gets the recorded result or an error,
\* and nothing changes.
ClaimCall(w, c, r) ==
  /\ epc[w] = "idle" /\ Executable(c)
  /\ status' = [status EXCEPT ![c] = "intended"]
  /\ runOf' = [runOf EXCEPT ![c] = r]
  /\ epc' = [epc EXCEPT ![w] = "execute"]
  /\ call' = [call EXCEPT ![w] = c]
  /\ UNCHANGED <<done, verdict>>

Happens(c) == done' = [done EXCEPT ![c] = IF @ < MaxDone THEN @ + 1 ELSE @]

\* The tool returns: with its effect, without, or not knowing (effectStatus).
Execute(w, v, happens) ==
  /\ epc[w] = "execute"
  /\ v = "completed" => happens
  /\ v = "failed" /\ call[w] \in Honest => ~happens
  /\ IF happens THEN Happens(call[w]) ELSE UNCHANGED done
  /\ epc' = [epc EXCEPT ![w] = "record"]
  /\ verdict' = [verdict EXCEPT ![w] = v]
  /\ UNCHANGED <<status, runOf, call>>

\* The tool throws, before or after its effect.
ToolThrows(w, happens) ==
  /\ epc[w] = "execute"
  /\ IF happens THEN Happens(call[w]) ELSE UNCHANGED done
  /\ epc' = [epc EXCEPT ![w] = "doubt"]
  /\ UNCHANGED <<status, runOf, call, verdict>>

\* resolve moves the row out of intended; its answer is not looked at.
Resolve(c, v) == status' = [status EXCEPT ![c] = IF @ = "intended" THEN v ELSE @]

LetGo(w) ==
  /\ epc' = [epc EXCEPT ![w] = "idle"]
  /\ call' = [call EXCEPT ![w] = NoCall]
  /\ verdict' = [verdict EXCEPT ![w] = "failed"]

Record(w) ==
  /\ epc[w] = "record"
  /\ Resolve(call[w], verdict[w])
  /\ LetGo(w)
  /\ UNCHANGED <<runOf, done>>

\* resolve throws, with its update committed or not: the catch forgets
\* the verdict and records a doubt.
RecordThrows(w, committed) ==
  /\ epc[w] = "record"
  /\ IF committed THEN Resolve(call[w], verdict[w]) ELSE UNCHANGED status
  /\ epc' = [epc EXCEPT ![w] = "doubt"]
  /\ verdict' = [verdict EXCEPT ![w] = "failed"]
  /\ UNCHANGED <<runOf, done, call>>

\* Mutant: what threw is recorded as failed, and may be tried again.
DoubtIsFailure == "failed"

DoubtIs == "ambiguous"

RecordDoubt(w) ==
  /\ epc[w] = "doubt"
  /\ Resolve(call[w], DoubtIs)
  /\ LetGo(w)
  /\ UNCHANGED <<runOf, done>>

\* The process dies, or the second resolve throws too: the row stays as it is.
Abandon(w) ==
  /\ epc[w] # "idle"
  /\ LetGo(w)
  /\ UNCHANGED <<status, runOf, done>>

ReconciledAs == "ambiguous"

\* reconcileRun
ReconcileRun(r) ==
  /\ status' = [c \in Call |-> IF runOf[c] = r /\ status[c] = "intended"
                               THEN ReconciledAs ELSE status[c]]
  /\ UNCHANGED <<runOf, done, executors>>

------------------------------------------------------------------------------

Executing(w) ==
  \/ \E b \in BOOLEAN : \/ \E v \in Verdict : Execute(w, v, b)
                        \/ ToolThrows(w, b) \/ RecordThrows(w, b)
  \/ Record(w) \/ RecordDoubt(w)

LedgerNext ==
  \/ \E w \in Executor : Executing(w) \/ Abandon(w)
                         \/ (\E c \in Call, r \in Owner : ClaimCall(w, c, r))
  \/ \E r \in Owner : ReconcileRun(r)

LedgerSpec == LedgerInit /\ [][LedgerNext]_ledgerVars

------------------------------------------------------------------------------
(* Properties *)

\* Between the claim and its record one process at most is at a call, and the row
\* of the call may not be executed by another, whoever has reconciled or died.
OneAtACall ==
  /\ \A w \in Executor : epc[w] \in {"execute", "record"} =>
       status[call[w]] \in {"intended", "ambiguous"}
  /\ \A w, x \in Executor :
       epc[w] \in {"execute", "record"} /\ epc[x] \in {"execute", "record"}
       /\ call[w] = call[x] => w = x

\* What may be executed has not happened: neither in a row that is absent or
\* failed, nor under an executor that is about to run the tool or to record that
\* it failed.
NothingToRepeat ==
  /\ \A c \in Honest : status[c] \in {"none", "failed"} => done[c] = 0
  /\ \A w \in Executor : call[w] \in Honest
       /\ (epc[w] = "execute" \/ (epc[w] = "record" /\ verdict[w] = "failed"))
       => done[call[w]] = 0

\* executor.ts, "un doppio post/schedulazione è un danno, non un errore da
\* riprovare".  A call whose tool is honest has its effect once at most, through
\* deaths, retries and reconciliations.
EffectOnce == \A c \in Honest : done[c] <= 1

\* An attempt at a call lasts from its claim until its tool returns, throws or dies
\* with its process; then the row decides whether another may be made.
PhaseOf(c) ==
  IF \E w \in Executor : epc[w] = "execute" /\ call[w] = c THEN "trying"
  ELSE IF Executable(c) THEN "free" ELSE "spent"

Effects == INSTANCE AtMostOnce WITH
  Deed <- Honest,
  phase <- [c \in Honest |-> PhaseOf(c)],
  happened <- [c \in Honest |-> done[c]]

\* The ledger implements AtMostOnce (effects.ts, decide): a call has one attempt at
\* a time, through deaths and reconciliations, and is tried again only if its tool
\* did nothing.
AtMostOnceSpec == Effects!Spec

\* The inductive invariant behind EffectOnce.
LedgerInv == LedgerTypeOK /\ OneAtACall /\ NothingToRepeat /\ EffectOnce

==============================================================================
