------------------------------ MODULE AgentRuns ------------------------------
(***************************************************************************)
(* The runs of the agent kit and the ledger of their effects together: a   *)
(* worker makes tool calls for the run it holds, and does not close the    *)
(* run before its tool has returned; it dies with the tool in its hands;   *)
(* the sweep freezes the effects of a run it judges dead, then resumes the *)
(* run or gives it up.                                                     *)
(***************************************************************************)
EXTENDS RunLease, EffectsLedger

CONSTANT ReconcileFails   \* the update of reconcileRun may fail: it is only logged

ASSUME AgentRunsAssumption ==
  Executor = Worker /\ Owner = Run

vars == <<leaseVars, ledgerVars>>

Init == LeaseInit /\ LedgerInit

\* A tool call of the turn w is at; a worker that lost its lease does not know.
MakeCall(w, c) ==
  /\ wpc[w] # "idle" /\ ClaimCall(w, c, hold[w])
  /\ UNCHANGED leaseVars

Work(w) == Executing(w) /\ UNCHANGED leaseVars

\* The second resolve throws as well: the turn goes on without the tool.
LeaveInDoubt(w) ==
  /\ epc[w] = "doubt" /\ Abandon(w)
  /\ UNCHANGED leaseVars

Hold(w) == Holding(w) /\ UNCHANGED ledgerVars

Leave(w) ==
  /\ epc[w] = "idle" /\ Leaving(w)
  /\ UNCHANGED ledgerVars

DieAtWork(w) == WorkerDies(w) /\ Abandon(w)

Live(r) == Around(r) /\ UNCHANGED ledgerVars

\* The effects are reconciled before the sweep decides what becomes of the run.
Reap(s, r) ==
  /\ ReapRun(s, r)
  /\ \/ ReconcileRun(r)
     \/ ReconcileFails /\ UNCHANGED ledgerVars

Sweep(s) == Sweeping(s) /\ UNCHANGED ledgerVars

LoseSweeper(s) == SweeperDies(s) /\ UNCHANGED ledgerVars

Next ==
  \/ \E w \in Worker : \/ Hold(w) \/ Leave(w) \/ DieAtWork(w)
                       \/ Work(w) \/ LeaveInDoubt(w) \/ (\E c \in Call : MakeCall(w, c))
  \/ \E r \in Run : Live(r)
  \/ \E s \in Sweeper : Sweep(s) \/ LoseSweeper(s) \/ (\E r \in Run : Reap(s, r))

Spec == Init /\ [][Next]_vars

==============================================================================
