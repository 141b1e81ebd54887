--------------------------- MODULE AgentRunsProofs ---------------------------
(***************************************************************************)
(* The composition keeps what its parts promise: every step of AgentRuns   *)
(* is a step of RunLease or leaves its rows alone, and, as the workers     *)
(* that make calls hold a run, a step of EffectsLedger or leaves the       *)
(* ledger alone.                                                           *)
(***************************************************************************)
EXTENDS AgentRuns, RunLeaseProofs, EffectsLedgerProofs

LEMMA StepOfLease == [Next]_vars => [LeaseNext]_leaseVars
<1> SUFFICES ASSUME [Next]_vars PROVE LeaseNext \/ UNCHANGED leaseVars
  OBVIOUS
<1>1. CASE UNCHANGED vars
  BY <1>1 DEF vars
<1>2. ASSUME NEW w \in Worker,
             \/ Hold(w) \/ Leave(w) \/ DieAtWork(w)
             \/ Work(w) \/ LeaveInDoubt(w) \/ (\E c \in Call : MakeCall(w, c))
      PROVE  LeaseNext \/ UNCHANGED leaseVars
  BY <1>2 DEF Hold, Leave, DieAtWork, Work, LeaveInDoubt, MakeCall, LeaseNext, Leaving
<1>3. ASSUME NEW r \in Run, Live(r) PROVE LeaseNext
  BY <1>3 DEF Live, LeaseNext
<1>4. ASSUME NEW s \in Sweeper, Sweep(s) \/ LoseSweeper(s) \/ (\E r \in Run : Reap(s, r))
      PROVE  LeaseNext
  BY <1>4 DEF Sweep, LoseSweeper, Reap, LeaseNext
<1>5. QED
  BY <1>1, <1>2, <1>3, <1>4 DEF Next

LEMMA StepOfLedger == LeaseInv /\ [Next]_vars => [LedgerNext]_ledgerVars
<1> SUFFICES ASSUME LeaseInv, [Next]_vars PROVE LedgerNext \/ UNCHANGED ledgerVars
  OBVIOUS
<1> USE AgentRunsAssumption
<1>1. CASE UNCHANGED vars
  BY <1>1 DEF vars
<1>2. ASSUME NEW w \in Worker, NEW c \in Call, MakeCall(w, c) PROVE LedgerNext
  <2>1. hold[w] \in Owner
    BY <1>2 DEF MakeCall, LeaseInv, LeaseTypeOK
  <2>2. QED
    BY <1>2, <2>1 DEF MakeCall, LedgerNext
<1>3. ASSUME NEW w \in Worker, Hold(w) \/ Leave(w) \/ DieAtWork(w) \/ Work(w) \/ LeaveInDoubt(w)
      PROVE  LedgerNext \/ UNCHANGED ledgerVars
  BY <1>3 DEF Hold, Leave, DieAtWork, Work, LeaveInDoubt, LedgerNext
<1>4. ASSUME NEW r \in Run, Live(r) PROVE UNCHANGED ledgerVars
  BY <1>4 DEF Live
<1>5. ASSUME NEW s \in Sweeper, Sweep(s) \/ LoseSweeper(s) \/ (\E r \in Run : Reap(s, r))
      PROVE  LedgerNext \/ UNCHANGED ledgerVars
  BY <1>5 DEF Sweep, LoseSweeper, Reap, LedgerNext
<1>6. QED
  BY <1>1, <1>2, <1>3, <1>4, <1>5 DEF Next

\* The composition runs the leases as RunLease does, for any number of processes.
THEOREM RunsByLease == Spec => LeaseSpec
<1>1. Init => LeaseInit
  BY DEF Init
<1>2. QED
  BY <1>1, StepOfLease, PTL DEF Spec, LeaseSpec

\* And the effects as EffectsLedger does.
THEOREM EffectsByLedger == Spec => LedgerSpec
<1>1. Init => LedgerInit
  BY DEF Init
<1>2. QED
  BY <1>1, RunsByLease, LeaseSafe, StepOfLedger, PTL DEF Spec, LedgerSpec

\* What the parts promise holds of the whole: the words of a run are those of its
\* holders and the last is the end.
THEOREM RunsTellOnce == Spec => LastWordSpec
BY RunsByLease, LeaseImplementsLastWord, PTL

\* What a run had written when the sweep gave it up is kept, while tools run,
\* workers die and sweeps overlap.
THEOREM RunsKeepPartials == Spec => []SalvageKept
BY RunsByLease, SalvageSafe, PTL

\* An honest call has its effect once at most, whoever holds the run, dies with
\* the tool in its hands, or resumes the run after the sweep.
THEOREM EffectsHappenOnce == Spec => []EffectOnce
<1>1. LedgerInv => EffectOnce
  BY DEF LedgerInv
<1>2. QED
  BY <1>1, EffectsByLedger, LedgerSafe, PTL

\* And the whole implements AtMostOnce: a call whose tool is honest is attempted by
\* one process at a time, and again only if nothing happened.
THEOREM EffectsTriedApart == Spec => AtMostOnceSpec
BY EffectsByLedger, LedgerImplementsAtMostOnce, PTL

==============================================================================
