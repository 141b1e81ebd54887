------------------------- MODULE EffectsLedgerProofs -------------------------
(***************************************************************************)
(* The safety of EffectsLedger for any number of executors, runs and       *)
(* calls: LedgerInv is inductive, so an honest call has its effect once.   *)
(*                                                                         *)
(* The argument: a call is executed by whoever turned its row from absent  *)
(* or failed to intended; while it is at it the row can only become        *)
(* ambiguous, which nobody executes again (OneAtACall); and the row        *)
(* becomes failed only by the hand that saw the tool do nothing            *)
(* (NothingToRepeat).                                                      *)
(***************************************************************************)
EXTENDS EffectsLedger, TLAPS

USE LedgerAssumption DEF executors, Verdict

LEMMA LedgerStart == LedgerInit => LedgerInv
BY DEF LedgerInit, LedgerInv, LedgerTypeOK, OneAtACall, NothingToRepeat, EffectOnce

\* A call is claimed by nobody else, and has not happened.
LEMMA ClaimKeeps ==
  ASSUME LedgerInv, NEW w \in Executor, NEW c \in Call, NEW r \in Owner, ClaimCall(w, c, r)
  PROVE  LedgerInv'
<1>1. LedgerTypeOK'
  BY DEF ClaimCall, LedgerInv, LedgerTypeOK
<1>2. OneAtACall'
  BY DEF ClaimCall, Executable, LedgerInv, LedgerTypeOK, OneAtACall
<1>3. NothingToRepeat' /\ EffectOnce'
  BY DEF ClaimCall, Executable, LedgerInv, LedgerTypeOK, NothingToRepeat, EffectOnce
<1>4. QED
  BY <1>1, <1>2, <1>3 DEF LedgerInv

\* The tool has its effect under the one process that is at the call.
LEMMA HappensOnce ==
  ASSUME LedgerInv, NEW w \in Executor, epc[w] = "execute", Happens(call[w])
  PROVE  /\ call[w] \in Call /\ done' \in [Call -> Nat]
         /\ \A c \in Call \ {call[w]} : done'[c] = done[c]
         /\ \A c \in Honest : done'[c] <= 1
         /\ done'[call[w]] > 0
<1>1. call[w] \in Call /\ done[call[w]] \in Nat
  BY DEF LedgerInv, LedgerTypeOK
<1>2. done'[call[w]] \in Nat /\ done'[call[w]] > 0 /\ (call[w] \in Honest => done'[call[w]] <= 1)
  BY <1>1 DEF Happens, LedgerInv, LedgerTypeOK, NothingToRepeat
<1>3. done' \in [Call -> Nat] /\ \A c \in Call \ {call[w]} : done'[c] = done[c]
  BY <1>1 DEF Happens, LedgerInv, LedgerTypeOK
<1>4. \A c \in Honest : done'[c] <= 1
  BY <1>2, <1>3 DEF LedgerInv, EffectOnce
<1>5. QED
  BY <1>1, <1>2, <1>3, <1>4

LEMMA ExecuteKeeps ==
  ASSUME LedgerInv, NEW w \in Executor, NEW b \in BOOLEAN,
         (\E v \in Verdict : Execute(w, v, b)) \/ ToolThrows(w, b)
  PROVE  LedgerInv'
<1>1. epc[w] = "execute" /\ call' = call /\ status' = status /\ runOf' = runOf
      /\ (Happens(call[w]) \/ done' = done)
  BY DEF Execute, ToolThrows
<1>2. /\ done' \in [Call -> Nat] /\ call[w] \in Call
      /\ \A c \in Call \ {call[w]} : done'[c] = done[c]
      /\ \A c \in Honest : done'[c] <= 1
  <2>1. CASE Happens(call[w])
    BY <1>1, <2>1, HappensOnce
  <2>2. CASE done' = done
    BY <1>1, <2>2 DEF LedgerInv, LedgerTypeOK, EffectOnce
  <2>3. QED
    BY <1>1, <2>1, <2>2
<1>3. LedgerTypeOK'
  BY <1>1, <1>2 DEF Execute, ToolThrows, LedgerInv, LedgerTypeOK
<1>4. OneAtACall'
  BY <1>1 DEF Execute, ToolThrows, LedgerInv, LedgerTypeOK, OneAtACall
<1>5. status[call[w]] \in {"intended", "ambiguous"}
      /\ \A x \in Executor \ {w} : epc[x] \in {"execute", "record"} => call[x] # call[w]
  BY <1>1 DEF LedgerInv, OneAtACall
<1>6. \A x \in Executor \ {w} : epc'[x] = epc[x] /\ verdict'[x] = verdict[x]
  BY DEF Execute, ToolThrows, LedgerInv, LedgerTypeOK
<1>7. call[w] \in Honest /\ epc'[w] = "record" /\ verdict'[w] = "failed" => done'[call[w]] = 0
  BY <1>1 DEF Execute, ToolThrows, LedgerInv, LedgerTypeOK, NothingToRepeat
<1>8. epc'[w] # "execute"
  BY DEF Execute, ToolThrows, LedgerInv, LedgerTypeOK
<1>9. NothingToRepeat'
  <2>1. \A c \in Honest : status'[c] \in {"none", "failed"} => done'[c] = 0
    BY <1>1, <1>2, <1>5 DEF LedgerInv, NothingToRepeat
  <2>2. ASSUME NEW x \in Executor, call[x] \in Honest,
               epc'[x] = "execute" \/ (epc'[x] = "record" /\ verdict'[x] = "failed")
        PROVE  done'[call[x]] = 0
    BY <1>2, <1>5, <1>6, <1>7, <1>8, <2>2 DEF LedgerInv, NothingToRepeat
  <2>3. QED
    BY <1>1, <2>1, <2>2 DEF NothingToRepeat
<1>10. QED
  BY <1>2, <1>3, <1>4, <1>9 DEF LedgerInv, EffectOnce

LEMMA Resolving ==
  ASSUME LedgerTypeOK, NEW c \in Call, NEW v \in Verdict, Resolve(c, v)
  PROVE  status' = status \/ (status[c] = "intended" /\ status' = [status EXCEPT ![c] = v])
<1>1. CASE status[c] = "intended"
  BY <1>1 DEF Resolve
<1>2. CASE status[c] # "intended"
  <2>1. status' = [status EXCEPT ![c] = status[c]]
    BY <1>2 DEF Resolve
  <2>2. QED
    BY <2>1 DEF LedgerTypeOK
<1>3. QED
  BY <1>1, <1>2

\* A row that is resolved becomes what the process at it saw, or stays.
LEMMA ResolveKeeps ==
  ASSUME LedgerInv, NEW w \in Executor, NEW b \in BOOLEAN,
         Record(w) \/ RecordThrows(w, b) \/ RecordDoubt(w)
  PROVE  LedgerInv'
<1>1. /\ call[w] \in Call /\ runOf' = runOf /\ done' = done
      /\ epc[w] \in {"record", "doubt"} /\ epc'[w] \in {"idle", "doubt"}
      /\ \A x \in Executor \ {w} : epc'[x] = epc[x] /\ call'[x] = call[x] /\ verdict'[x] = verdict[x]
  BY DEF Record, RecordThrows, RecordDoubt, LetGo, LedgerInv, LedgerTypeOK
<1>2. \/ status' = status
      \/ /\ epc[w] = "record" /\ status[call[w]] = "intended"
         /\ status' = [status EXCEPT ![call[w]] = verdict[w]]
      \/ /\ status[call[w]] = "intended"
         /\ status' = [status EXCEPT ![call[w]] = "ambiguous"]
  <2>1. LedgerTypeOK /\ verdict[w] \in Verdict
    BY DEF LedgerInv, LedgerTypeOK
  <2>2. PICK c \in Call, v \in Verdict : c = call[w] /\ v = verdict[w]
    BY <1>1, <2>1
  <2>3. CASE Record(w) \/ RecordThrows(w, b)
    <3>1. epc[w] = "record" /\ (Resolve(c, v) \/ status' = status)
      BY <2>2, <2>3 DEF Record, RecordThrows, Resolve
    <3>2. QED
      BY <2>1, <2>2, <3>1, Resolving
  <2>4. CASE RecordDoubt(w)
    <3>1. Resolve(c, "ambiguous")
      BY <2>2, <2>4 DEF RecordDoubt, Resolve, DoubtIs
    <3>2. QED
      BY <2>1, <2>2, <3>1, Resolving
  <2>5. QED
    BY <2>3, <2>4
<1>3. LedgerTypeOK'
  BY <1>1, <1>2 DEF Record, RecordThrows, RecordDoubt, LetGo, LedgerInv, LedgerTypeOK
<1>4. \A x \in Executor : epc'[x] \in {"execute", "record"} => x # w
  BY <1>1
<1>5. OneAtACall'
  <2>1. ASSUME NEW x \in Executor, epc'[x] \in {"execute", "record"}
        PROVE  status'[call'[x]] \in {"intended", "ambiguous"}
    <3>1. x # w /\ call'[x] = call[x] /\ epc[x] \in {"execute", "record"} /\ call[x] \in Call
      BY <1>1, <1>4, <2>1 DEF LedgerInv, LedgerTypeOK
    <3>2. status[call[x]] \in {"intended", "ambiguous"}
          /\ (epc[w] = "record" => call[x] # call[w])
      BY <3>1 DEF LedgerInv, OneAtACall
    <3>3. QED
      BY <1>1, <1>2, <3>1, <3>2 DEF LedgerInv, LedgerTypeOK
  <2>2. QED
    BY <1>1, <1>4, <2>1 DEF LedgerInv, OneAtACall
<1>6. NothingToRepeat'
  <2>1. ASSUME NEW c \in Honest, status'[c] \in {"none", "failed"} PROVE done[c] = 0
    BY <1>1, <1>2, <2>1 DEF LedgerInv, LedgerTypeOK, NothingToRepeat
  <2>2. QED
    BY <1>1, <1>4, <2>1 DEF LedgerInv, NothingToRepeat
<1>7. QED
  BY <1>1, <1>3, <1>5, <1>6 DEF LedgerInv, EffectOnce

LEMMA AbandonKeeps ==
  ASSUME LedgerInv, NEW w \in Executor, Abandon(w)
  PROVE  LedgerInv'
<1>1. LedgerTypeOK'
  BY DEF Abandon, LetGo, LedgerInv, LedgerTypeOK
<1>2. OneAtACall' /\ NothingToRepeat' /\ EffectOnce'
  BY DEF Abandon, LetGo, LedgerInv, LedgerTypeOK, OneAtACall, NothingToRepeat, EffectOnce
<1>3. QED
  BY <1>1, <1>2 DEF LedgerInv

\* What is frozen is not executed again.
LEMMA ReconcileKeeps ==
  ASSUME LedgerInv, NEW r \in Owner, ReconcileRun(r)
  PROVE  LedgerInv'
<1>1. LedgerTypeOK'
  BY DEF ReconcileRun, ReconciledAs, LedgerInv, LedgerTypeOK
<1>2. \A c \in Call : status'[c] = status[c] \/ (status[c] = "intended" /\ status'[c] = "ambiguous")
  BY DEF ReconcileRun, ReconciledAs, LedgerInv, LedgerTypeOK
<1>3. OneAtACall'
  BY <1>2 DEF ReconcileRun, LedgerInv, LedgerTypeOK, OneAtACall
<1>4. NothingToRepeat' /\ EffectOnce'
  BY <1>2 DEF ReconcileRun, LedgerInv, NothingToRepeat, EffectOnce
<1>5. QED
  BY <1>1, <1>3, <1>4 DEF LedgerInv

LEMMA LedgerKeeps == LedgerInv /\ [LedgerNext]_ledgerVars => LedgerInv'
<1> SUFFICES ASSUME LedgerInv, [LedgerNext]_ledgerVars PROVE LedgerInv'
  OBVIOUS
<1>1. CASE UNCHANGED ledgerVars
  BY <1>1 DEF ledgerVars, LedgerInv, LedgerTypeOK, OneAtACall, NothingToRepeat, EffectOnce
<1>2. ASSUME NEW w \in Executor, Executing(w) PROVE LedgerInv'
  BY <1>2, ExecuteKeeps, ResolveKeeps DEF Executing
<1>3. QED
  BY <1>1, <1>2, ClaimKeeps, AbandonKeeps, ReconcileKeeps DEF LedgerNext

\* For any number of executors, runs and calls: no two processes are at a call,
\* and an honest call has its effect once at most.
THEOREM LedgerSafe == LedgerSpec => []LedgerInv
<1>1. LedgerInit => LedgerInv
  BY LedgerStart
<1>2. QED
  BY <1>1, LedgerKeeps, PTL DEF LedgerSpec

------------------------------------------------------------------------------
(* The ledger implements AtMostOnce. *)

\* A step that leaves the phases and the effects of honest calls alone tells nothing.
LEMMA EffectsFrame ==
  ASSUME \A c \in Honest : PhaseOf(c)' = PhaseOf(c) /\ done'[c] = done[c]
  PROVE  UNCHANGED Effects!dvars
BY DEF Effects!dvars

LEMMA EffectsStep ==
  ASSUME NEW c \in Honest,
         Effects!Try(c) \/ Effects!Succeed(c) \/ Effects!Miss(c) \/ Effects!Release(c)
  PROVE  Effects!Next
BY Zenon DEF Effects!Next

\* Who is executing a call, and what the row then says.
LEMMA Trying ==
  ASSUME LedgerInv, NEW w \in Executor, epc[w] = "execute"
  PROVE  /\ call[w] \in Call /\ PhaseOf(call[w]) = "trying"
         /\ ~ Executable(call[w])
         /\ \A x \in Executor \ {w} : epc[x] = "execute" => call[x] # call[w]
BY DEF LedgerInv, LedgerTypeOK, OneAtACall, PhaseOf, Executable

\* A claim begins an attempt: nobody was at the call, and its row allowed one.
LEMMA ClaimTells ==
  ASSUME LedgerInv, NEW w \in Executor, NEW c \in Call, NEW r \in Owner, ClaimCall(w, c, r)
  PROVE  Effects!Next \/ UNCHANGED Effects!dvars
<1>1. PhaseOf(c) = "free"
  BY DEF ClaimCall, PhaseOf, Executable, LedgerInv, LedgerTypeOK, OneAtACall
<1>2. PhaseOf(c)' = "trying"
  BY DEF ClaimCall, PhaseOf, LedgerInv, LedgerTypeOK
<1>3. \A d \in Call \ {c} : PhaseOf(d)' = PhaseOf(d)
  BY DEF ClaimCall, PhaseOf, Executable, LedgerInv, LedgerTypeOK
<1>4. done' = done
  BY DEF ClaimCall
<1>5. CASE c \in Honest
  <2>1. Effects!Try(c)
    BY <1>1, <1>2, <1>3, <1>4, <1>5 DEF Effects!Try
  <2>2. QED
    BY <1>5, <2>1, EffectsStep
<1>6. CASE c \notin Honest
  BY <1>3, <1>4, <1>6, EffectsFrame
<1>7. QED
  BY <1>5, <1>6

\* The attempt is over when the tool returns, throws, or dies with its process: the
\* row is still closed to others, whoever has reconciled it meanwhile.
LEMMA AttemptEnds ==
  ASSUME LedgerInv, NEW w \in Executor, epc[w] = "execute",
         epc'[w] # "execute", status' = status,
         \A x \in Executor \ {w} : epc'[x] = epc[x] /\ call'[x] = call[x],
         done' = done \/ Happens(call[w])
  PROVE  Effects!Next \/ UNCHANGED Effects!dvars
<1>1. PICK c \in Call : c = call[w]
  BY Trying
<1>2. PhaseOf(c) = "trying" /\ ~ Executable(c)
      /\ \A x \in Executor \ {w} : epc[x] = "execute" => call[x] # c
  BY <1>1, Trying
<1>3. PhaseOf(c)' = "spent"
  BY <1>2 DEF PhaseOf, Executable
<1>4. \A d \in Call \ {c} : PhaseOf(d)' = PhaseOf(d)
  BY <1>1 DEF PhaseOf, Executable
<1>5. CASE c \notin Honest
  <2>1. \A d \in Honest : done'[d] = done[d]
    BY <1>1, <1>5, HappensOnce
  <2>2. QED
    BY <1>4, <1>5, <2>1, EffectsFrame
<1>6. CASE c \in Honest /\ done' = done
  <2>1. Effects!Miss(c)
    BY <1>2, <1>3, <1>4, <1>6 DEF Effects!Miss
  <2>2. QED
    BY <1>6, <2>1, EffectsStep
<1>7. CASE c \in Honest /\ Happens(c)
  <2>1. done[c] = 0 /\ done'[c] = 1 /\ \A d \in Call \ {c} : done'[d] = done[d]
    <3>1. done[c] = 0
      BY <1>1, <1>7 DEF LedgerInv, NothingToRepeat
    <3>2. done'[c] = 1 /\ \A d \in Call \ {c} : done'[d] = done[d]
      BY <1>7, <3>1 DEF Happens, LedgerInv, LedgerTypeOK
    <3>3. QED
      BY <3>1, <3>2
  <2>2. Effects!Succeed(c)
    <3>1. done'[c] = done[c] + 1
      BY <2>1
    <3>2. QED
      BY <1>2, <1>3, <1>4, <1>7, <2>1, <3>1, Zenon DEF Effects!Succeed
  <2>3. QED
    BY <1>7, <2>2, EffectsStep
<1>8. QED
  BY <1>1, <1>5, <1>6, <1>7

LEMMA ExecuteTells ==
  ASSUME LedgerInv, NEW w \in Executor, NEW b \in BOOLEAN,
         (\E v \in Verdict : Execute(w, v, b)) \/ ToolThrows(w, b)
  PROVE  Effects!Next \/ UNCHANGED Effects!dvars
<1>1. epc[w] = "execute" /\ status' = status /\ (done' = done \/ Happens(call[w]))
  BY DEF Execute, ToolThrows
<1>2. epc'[w] # "execute" /\ \A x \in Executor \ {w} : epc'[x] = epc[x] /\ call'[x] = call[x]
  BY DEF Execute, ToolThrows, LedgerInv, LedgerTypeOK
<1>3. QED
  BY <1>1, <1>2, AttemptEnds

\* A row becomes failed by the hand that saw the tool do nothing, and by no other:
\* then the call may be tried again.  A doubt changes no phase.
LEMMA ResolveTells ==
  ASSUME LedgerInv, NEW w \in Executor, NEW b \in BOOLEAN,
         Record(w) \/ RecordThrows(w, b) \/ RecordDoubt(w)
  PROVE  Effects!Next \/ UNCHANGED Effects!dvars
<1>1. /\ epc[w] \in {"record", "doubt"} /\ epc'[w] \in {"idle", "doubt"} /\ done' = done
      /\ \A x \in Executor \ {w} : epc'[x] = epc[x] /\ call'[x] = call[x]
  BY DEF Record, RecordThrows, RecordDoubt, LetGo, LedgerInv, LedgerTypeOK
<1>2. call[w] \in Call /\ verdict[w] \in Verdict
  BY <1>1 DEF LedgerInv, LedgerTypeOK
<1>3. PICK c \in Call : c = call[w]
  BY <1>2
<1>4. \A d \in Call : (\E x \in Executor : epc'[x] = "execute" /\ call'[x] = d)
                      <=> (\E x \in Executor : epc[x] = "execute" /\ call[x] = d)
  BY <1>1
<1>5. \/ status' = status
      \/ status[c] = "intended" /\ status' = [status EXCEPT ![c] = "ambiguous"]
      \/ /\ epc[w] = "record" /\ status[c] = "intended"
         /\ status' = [status EXCEPT ![c] = verdict[w]]
  <2>1. CASE RecordDoubt(w)
    BY <1>3, <2>1, Resolving DEF RecordDoubt, DoubtIs, LedgerInv
  <2>2. CASE Record(w) \/ RecordThrows(w, b)
    <3>1. epc[w] = "record" /\ (Resolve(c, verdict[w]) \/ status' = status)
      BY <1>3, <2>2 DEF Record, RecordThrows
    <3>2. QED
      BY <1>2, <3>1, Resolving DEF LedgerInv
  <2>3. QED
    BY <2>1, <2>2
<1>6. CASE epc[w] = "record" /\ status[c] = "intended"
           /\ status' = [status EXCEPT ![c] = "failed"] /\ verdict[w] = "failed"
  <2>1. ~ \E x \in Executor : epc[x] = "execute" /\ call[x] = c
    BY <1>3, <1>6 DEF LedgerInv, OneAtACall
  <2>2. PhaseOf(c) = "spent" /\ PhaseOf(c)' = "free"
    BY <1>4, <1>6, <2>1 DEF PhaseOf, Executable, LedgerInv, LedgerTypeOK
  <2>3. \A d \in Call \ {c} : PhaseOf(d)' = PhaseOf(d)
    BY <1>4, <1>6 DEF PhaseOf, Executable, LedgerInv, LedgerTypeOK
  <2>4. CASE c \in Honest
    <3>1. done[c] = 0
      BY <1>3, <1>6, <2>4 DEF LedgerInv, NothingToRepeat
    <3>2. Effects!Release(c)
      BY <1>1, <2>2, <2>3, <2>4, <3>1 DEF Effects!Release
    <3>3. QED
      BY <2>4, <3>2, EffectsStep
  <2>5. CASE c \notin Honest
    BY <1>1, <2>3, <2>5, EffectsFrame
  <2>6. QED
    BY <2>4, <2>5
<1>7. CASE \A d \in Call : Executable(d)' <=> Executable(d)
  <2>1. \A d \in Call : PhaseOf(d)' = PhaseOf(d)
    BY <1>4, <1>7 DEF PhaseOf
  <2>2. QED
    BY <1>1, <2>1, EffectsFrame
<1>8. QED
  BY <1>2, <1>5, <1>6, <1>7 DEF Executable, LedgerInv, LedgerTypeOK

LEMMA AbandonTells ==
  ASSUME LedgerInv, NEW w \in Executor, Abandon(w)
  PROVE  Effects!Next \/ UNCHANGED Effects!dvars
<1>1. epc'[w] = "idle" /\ status' = status /\ done' = done
      /\ \A x \in Executor \ {w} : epc'[x] = epc[x] /\ call'[x] = call[x]
  BY DEF Abandon, LetGo, LedgerInv, LedgerTypeOK
<1>2. CASE epc[w] = "execute"
  BY <1>1, <1>2, AttemptEnds
<1>3. CASE epc[w] # "execute"
  <2>1. \A c \in Call : PhaseOf(c)' = PhaseOf(c)
    BY <1>1, <1>3 DEF PhaseOf, Executable
  <2>2. QED
    BY <1>1, <2>1, EffectsFrame
<1>4. QED
  BY <1>2, <1>3

\* A reconciliation freezes rows that nobody could execute anyway.
LEMMA ReconcileTells ==
  ASSUME LedgerInv, NEW r \in Owner, ReconcileRun(r)
  PROVE  UNCHANGED Effects!dvars
<1>1. \A c \in Call : PhaseOf(c)' = PhaseOf(c)
  BY DEF ReconcileRun, ReconciledAs, PhaseOf, Executable, LedgerInv, LedgerTypeOK
<1>2. QED
  BY <1>1, EffectsFrame DEF ReconcileRun

LEMMA EffectsStart == LedgerInit => Effects!Init
BY DEF LedgerInit, Effects!Init, PhaseOf, Executable

LEMMA LedgerTells == LedgerInv /\ [LedgerNext]_ledgerVars => [Effects!Next]_(Effects!dvars)
<1> SUFFICES ASSUME LedgerInv, [LedgerNext]_ledgerVars
             PROVE  Effects!Next \/ UNCHANGED Effects!dvars
  OBVIOUS
<1>1. CASE UNCHANGED ledgerVars
  BY <1>1, EffectsFrame DEF ledgerVars, PhaseOf, Executable
<1>2. ASSUME NEW w \in Executor, Executing(w)
      PROVE  Effects!Next \/ UNCHANGED Effects!dvars
  BY <1>2, ExecuteTells, ResolveTells DEF Executing
<1>3. QED
  BY <1>1, <1>2, ClaimTells, AbandonTells, ReconcileTells DEF LedgerNext

\* For any number of executors, runs and calls the ledger gives a call one attempt
\* at a time, and another only if nothing happened: it implements AtMostOnce.
THEOREM LedgerImplementsAtMostOnce == LedgerSpec => AtMostOnceSpec
<1>1. LedgerInit => Effects!Init
  BY EffectsStart
<1>2. QED
  BY <1>1, LedgerSafe, LedgerTells, PTL DEF LedgerSpec, AtMostOnceSpec, Effects!Spec

==============================================================================
