--------------------------- MODULE RunLeaseProofs ---------------------------
(***************************************************************************)
(* The safety of RunLease for any number of runs, workers and sweeps:      *)
(* LeaseInv is inductive, what a run had written when it was given up is   *)
(* kept, and every step is a step of LastWord or leaves its words alone.   *)
(*                                                                         *)
(* The argument: a claim gives a fence the row never had, so a grant is    *)
(* one worker's (GrantsApart); a worker that speaks leaves its grant       *)
(* behind, so whoever holds the last fence has not spoken (WordsKnown);    *)
(* the abort of a sweep finds the run running, so one sweep comes to       *)
(* salvage it, and finds either no word of it or the marker of one         *)
(* (ReapedApart).                                                          *)
(***************************************************************************)
EXTENDS RunLease, TLAPS

USE DEF runRow, clocks, thread, workers, sweepers

\* The invariants see only a part of the state each.
LEMMA GrantsFrame ==
  ASSUME GrantsApart, UNCHANGED <<owner, fence, wpc, hold, grant>>
  PROVE  GrantsApart'
BY DEF GrantsApart

LEMMA WordsFrame ==
  ASSUME WordsKnown, UNCHANGED <<state, fence, said, wpc, hold, grant>>
  PROVE  WordsKnown'
BY DEF WordsKnown

LEMMA ReapedFrame ==
  ASSUME ReapedApart, UNCHANGED <<state, saved, said, fate, spc, hand>>
  PROVE  ReapedApart'
BY DEF ReapedApart

\* A word more, said by a run under a fence.
LEMMA Speaking ==
  ASSUME LeaseTypeOK, NEW r \in Run, NEW k \in {"question", "answer", "salvage"}, NEW n \in Nat,
         Saying(r, k, n)
  PROVE  said' \in [Run -> Seq(Word)]
<1>1. Story!Word(k, n) \in Word
  BY DEF Story!Word, Word
<1>2. Append(said[r], Story!Word(k, n)) \in Seq(Word)
  BY <1>1 DEF LeaseTypeOK
<1>3. QED
  BY <1>2 DEF Saying, LeaseTypeOK

\* A sequence of words is not empty after one more, and stays within a bound.
LEMMA Spoken ==
  ASSUME NEW q \in Seq(Word), NEW e \in Word
  PROVE  Append(q, e) # <<>>
<1>1. Len(Append(q, e)) = Len(q) + 1 /\ Len(q) \in Nat
  OBVIOUS
<1>2. Len(Append(q, e)) # 0
  BY <1>1
<1>3. Len(<<>>) = 0
  OBVIOUS
<1>4. QED
  BY <1>2, <1>3, Zenon

LEMMA SpokenWithin ==
  ASSUME NEW q \in Seq(Word), NEW e \in Word, NEW n \in Nat, e.turn \in 0..n,
         \A i \in 1..Len(q) : q[i].turn \in 0..n
  PROVE  \A i \in 1..Len(Append(q, e)) : Append(q, e)[i].turn \in 0..n
<1>1. SUFFICES ASSUME NEW i \in 1..Len(Append(q, e))
               PROVE  Append(q, e)[i].turn \in 0..n
  OBVIOUS
<1>2. Len(Append(q, e)) = Len(q) + 1 /\ Len(q) \in Nat
  OBVIOUS
<1>3. CASE i \in 1..Len(q)
  <2>1. Append(q, e)[i] = q[i]
    BY <1>3
  <2>2. QED
    BY <1>3, <2>1
<1>4. CASE i = Len(q) + 1
  <2>1. Append(q, e)[i] = e
    BY <1>4
  <2>2. QED
    BY <2>1
<1>5. QED
  BY <1>2, <1>3, <1>4

LEMMA LeaseStart == LeaseInit => LeaseInv /\ SalvageKept
BY NobodyAssumption DEF LeaseInit, LeaseInv, LeaseTypeOK, GrantsApart, WordsKnown, ReapedApart,
   SalvageKept, RunState, Word

\* A worker takes a run, keeps it, or mirrors what it writes.
LEMMA HoldingKeeps ==
  ASSUME LeaseInv, NEW w \in Worker, Holding(w)
  PROVE  LeaseInv'
<1>1. ASSUME NEW r \in Run, BeginTurn(w, r) PROVE LeaseInv'
  <2>1. LeaseTypeOK'
    BY <1>1 DEF LeaseInv, LeaseTypeOK, RunState, BeginTurn, TakeUp
  <2>2. GrantsApart'
    BY <1>1 DEF LeaseInv, LeaseTypeOK, GrantsApart, BeginTurn, TakeUp
  <2>3. WordsKnown'
    BY <1>1 DEF LeaseInv, LeaseTypeOK, WordsKnown, RunState, Terminal, BeginTurn, TakeUp
  <2>4. ReapedApart'
    BY <1>1 DEF LeaseInv, LeaseTypeOK, ReapedApart, RunState, BeginTurn, TakeUp
  <2>5. QED
    BY <2>1, <2>2, <2>3, <2>4 DEF LeaseInv
<1>2. ASSUME NEW r \in Run, Resume(w, r) PROVE LeaseInv'
  <2>1. LeaseTypeOK'
    BY <1>2 DEF LeaseInv, LeaseTypeOK, RunState, Resume, TakeUp
  <2>2. GrantsApart'
    BY <1>2 DEF LeaseInv, LeaseTypeOK, GrantsApart, Resume, TakeUp
  <2>3. WordsKnown'
    BY <1>2 DEF LeaseInv, LeaseTypeOK, WordsKnown, RunState, Terminal, Resume, TakeUp
  <2>4. ReapedApart'
    BY <1>2 DEF LeaseInv, LeaseTypeOK, ReapedApart, RunState, Resume, TakeUp
  <2>5. QED
    BY <2>1, <2>2, <2>3, <2>4 DEF LeaseInv
<1>3. ASSUME NEW r \in Run, ClaimRun(w, r) PROVE LeaseInv'
  <2>1. LeaseTypeOK'
    <3>1. fence[r] \in Nat /\ NextFence(r) \in Nat
      BY DEF LeaseInv, LeaseTypeOK, NextFence
    <3>2. fence' \in [Run -> Nat] /\ grant' \in [Worker -> Nat]
      BY <1>3, <3>1 DEF LeaseInv, LeaseTypeOK, ClaimRun
    <3>3. /\ state' \in [Run -> RunState] /\ owner' \in [Run -> Worker \cup {NoWorker}]
          /\ lapsed' \subseteq Run /\ silent' \subseteq Run
      BY <1>3 DEF LeaseInv, LeaseTypeOK, ClaimRun, RunState
    <3>4. /\ wpc' \in [Worker -> {"idle", "leased", "free"}]
          /\ hold' \in [Worker -> Run \cup {NoRun}]
          /\ \A x \in Worker : wpc'[x] # "idle" => hold'[x] \in Run
      BY <1>3 DEF LeaseInv, LeaseTypeOK, ClaimRun, TakeUp
    <3>5. QED
      BY <1>3, <3>2, <3>3, <3>4 DEF LeaseInv, LeaseTypeOK, ClaimRun
  <2>2. GrantsApart'
    BY <1>3, SMTT(30) DEF LeaseInv, LeaseTypeOK, GrantsApart, ClaimRun, TakeUp, Claimable, NextFence
  <2>3. WordsKnown'
    BY <1>3, SMTT(30) DEF LeaseInv, LeaseTypeOK, WordsKnown, RunState, Terminal, ClaimRun, TakeUp, Claimable, NextFence
  <2>4. ReapedApart'
    BY <1>3 DEF LeaseInv, LeaseTypeOK, ReapedApart, RunState, ClaimRun, TakeUp, Claimable, NextFence
  <2>5. QED
    BY <2>1, <2>2, <2>3, <2>4 DEF LeaseInv
<1>4. ASSUME RenewLease(w) PROVE LeaseInv'
  <2>1. LeaseTypeOK'
    BY <1>4 DEF LeaseInv, LeaseTypeOK, RunState, RenewLease, Holds
  <2>2. GrantsApart'
    BY <1>4, GrantsFrame DEF LeaseInv, RenewLease, Holds
  <2>3. WordsKnown'
    BY <1>4, WordsFrame DEF LeaseInv, RenewLease, Holds
  <2>4. ReapedApart'
    BY <1>4, ReapedFrame DEF LeaseInv, RenewLease, Holds
  <2>5. QED
    BY <2>1, <2>2, <2>3, <2>4 DEF LeaseInv
<1>5. ASSUME MirrorPartial(w) PROVE LeaseInv'
  <2>1. LeaseTypeOK'
    BY <1>5 DEF LeaseInv, LeaseTypeOK, RunState, MirrorPartial, Holds
  <2>2. GrantsApart'
    BY <1>5, GrantsFrame DEF LeaseInv, MirrorPartial, Holds
  <2>3. WordsKnown'
    BY <1>5, WordsFrame DEF LeaseInv, MirrorPartial, Holds
  <2>4. ReapedApart'
    BY <1>5, ReapedFrame DEF LeaseInv, MirrorPartial, Holds
  <2>5. QED
    BY <2>1, <2>2, <2>3, <2>4 DEF LeaseInv
<1>6. QED
  BY <1>1, <1>2, <1>3, <1>4, <1>5 DEF Holding

\* A worker ends its turn, is evicted or dies.
LEMMA LeavingKeeps ==
  ASSUME LeaseInv, NEW w \in Worker, Leaving(w)
  PROVE  LeaseInv'
<1>1. ASSUME Evicted(w) PROVE LeaseInv'
  <2>1. LeaseTypeOK'
    BY <1>1 DEF LeaseInv, LeaseTypeOK, RunState, Evicted, Rest
  <2>2. GrantsApart'
    BY <1>1 DEF LeaseInv, LeaseTypeOK, GrantsApart, Evicted, Rest
  <2>3. WordsKnown'
    BY <1>1 DEF LeaseInv, LeaseTypeOK, WordsKnown, RunState, Terminal, Evicted, Rest
  <2>4. ReapedApart'
    BY <1>1, ReapedFrame DEF LeaseInv, Evicted, Rest
  <2>5. QED
    BY <2>1, <2>2, <2>3, <2>4 DEF LeaseInv
<1>2. ASSUME WorkerDies(w) PROVE LeaseInv'
  <2>1. LeaseTypeOK'
    BY <1>2 DEF LeaseInv, LeaseTypeOK, RunState, WorkerDies, Rest
  <2>2. GrantsApart'
    BY <1>2 DEF LeaseInv, LeaseTypeOK, GrantsApart, WorkerDies, Rest
  <2>3. WordsKnown'
    BY <1>2 DEF LeaseInv, LeaseTypeOK, WordsKnown, RunState, Terminal, WorkerDies, Rest
  <2>4. ReapedApart'
    BY <1>2, ReapedFrame DEF LeaseInv, WorkerDies, Rest
  <2>5. QED
    BY <2>1, <2>2, <2>3, <2>4 DEF LeaseInv
<1>3. ASSUME AskUser(w) PROVE LeaseInv'
  <2>1. LeaseTypeOK'
    BY <1>3 DEF LeaseInv, LeaseTypeOK, RunState, AskUser, Rest
  <2>2. GrantsApart'
    BY <1>3 DEF LeaseInv, LeaseTypeOK, GrantsApart, AskUser, Rest
  <2>3. WordsKnown'
    BY <1>3 DEF LeaseInv, LeaseTypeOK, WordsKnown, RunState, Terminal, AskUser, Rest
  <2>4. ReapedApart'
    BY <1>3 DEF LeaseInv, LeaseTypeOK, ReapedApart, RunState, AskUser, Rest
  <2>5. QED
    BY <2>1, <2>2, <2>3, <2>4 DEF LeaseInv
<1>4. ASSUME NEW to \in {"waiting"} \cup Terminal, NEW b \in BOOLEAN, CloseRunSaving(w, to, b) PROVE LeaseInv'
  <2>1. LeaseTypeOK'
    <3>1. hold[w] \in Run /\ grant[w] \in Nat
      BY <1>4 DEF LeaseInv, LeaseTypeOK, CloseRunSaving, MayClose, Holds
    <3>2. state' \in [Run -> RunState]
      BY <1>4, <3>1 DEF LeaseInv, LeaseTypeOK, CloseRunSaving, Terminal, RunState
    <3>3. said' \in [Run -> Seq(Word)] /\ saved' \subseteq Run
      BY <1>4, <3>1, Speaking DEF LeaseInv, LeaseTypeOK, CloseRunSaving
    <3>4. /\ wpc' \in [Worker -> {"idle", "leased", "free"}]
          /\ hold' \in [Worker -> Run \cup {NoRun}]
          /\ \A x \in Worker : wpc'[x] # "idle" => hold'[x] \in Run
          /\ grant' \in [Worker -> Nat]
      BY <1>4 DEF LeaseInv, LeaseTypeOK, CloseRunSaving, Rest
    <3>5. lapsed' \subseteq Run /\ silent' \subseteq Run
      BY <1>4 DEF LeaseInv, LeaseTypeOK, CloseRunSaving, StopClocks
    <3>6. QED
      BY <1>4, <3>2, <3>3, <3>4, <3>5 DEF LeaseInv, LeaseTypeOK, CloseRunSaving
  <2>2. GrantsApart'
    BY <1>4 DEF LeaseInv, LeaseTypeOK, GrantsApart, CloseRunSaving, Rest, MayClose, Holds, Saying, Story!Word, Word, Terminal
  <2>3. WordsKnown'
    <3> DEFINE q == hold[w]
    <3>1. q \in Run /\ grant[w] = fence[q] /\ fence \in [Run -> Nat]
      BY <1>4 DEF LeaseInv, LeaseTypeOK, CloseRunSaving, MayClose, Holds
    <3>2. /\ \A r \in Run \ {q} : said'[r] = said[r] /\ state'[r] = state[r]
          /\ \/ said'[q] = said[q]
             \/ \E k \in {"question", "answer"} : said'[q] = Append(said[q], Story!Word(k, grant[w]))
      BY <1>4, <3>1 DEF LeaseInv, LeaseTypeOK, CloseRunSaving, Saying
    <3>3. \A i \in 1..Len(said'[q]) : said'[q][i].turn \in 0..fence[q]
      <4>1. said[q] \in Seq(Word) /\ fence[q] \in Nat
            /\ \A i \in 1..Len(said[q]) : said[q][i].turn \in 0..fence[q]
        BY <3>1 DEF LeaseInv, LeaseTypeOK, WordsKnown
      <4>2. \A k \in {"question", "answer"} :
              Story!Word(k, grant[w]) \in Word /\ Story!Word(k, grant[w]).turn \in 0..fence[q]
        BY <3>1, <4>1 DEF Story!Word, Word
      <4>3. QED
        BY <3>2, <4>1, <4>2, SpokenWithin
    <3>4. \A x \in Worker : wpc'[x] = "leased" =>
            x # w /\ wpc[x] = "leased" /\ hold'[x] = hold[x] /\ grant'[x] = grant[x] /\ hold[x] \in Run
      BY <1>4 DEF LeaseInv, LeaseTypeOK, CloseRunSaving, Rest
    <3>5. \A x \in Worker : wpc'[x] = "leased" /\ hold[x] = q => grant[x] # fence[q]
      BY <1>4, <3>1, <3>4 DEF LeaseInv, GrantsApart, CloseRunSaving, MayClose, Holds
    <3>6. fence' = fence
      BY <1>4 DEF CloseRunSaving
    <3>7. \A r \in Run : \A i \in 1..Len(said'[r]) : said'[r][i].turn \in 0..fence'[r]
      BY <3>2, <3>3, <3>6 DEF LeaseInv, WordsKnown
    <3>8. ASSUME NEW x \in Worker, wpc'[x] = "leased", grant'[x] = fence'[hold'[x]],
                 state'[hold'[x]] \notin Terminal
          PROVE  \A i \in 1..Len(said'[hold'[x]]) : said'[hold'[x]][i].turn < fence'[hold'[x]]
      <4>1. hold'[x] = hold[x] /\ hold[x] \in Run \ {q} /\ wpc[x] = "leased"
            /\ grant[x] = fence[hold[x]]
        BY <3>4, <3>5, <3>6, <3>8
      <4>2. QED
        BY <3>2, <3>6, <3>8, <4>1 DEF LeaseInv, WordsKnown
    <3>9. QED
      BY <3>7, <3>8 DEF WordsKnown
  <2>4. ReapedApart'
    <3> DEFINE q == hold[w]
    <3>1. q \in Run /\ state[q] = "running" /\ fate[q] = "none"
      BY <1>4 DEF LeaseInv, LeaseTypeOK, ReapedApart, CloseRunSaving, MayClose, Holds
    <3>2. /\ \A r \in Run \ {q} : said'[r] = said[r] /\ state'[r] = state[r] /\ (r \in saved' <=> r \in saved)
          /\ \/ said'[q] = said[q] /\ (q \in saved' <=> q \in saved)
             \/ said'[q] # <<>> /\ q \in saved'
      <4>1. said[q] \in Seq(Word)
        BY <3>1 DEF LeaseInv, LeaseTypeOK
      <4>2. \A e : Append(said[q], e) # <<>>
        BY <4>1
      <4>3. QED
        BY <1>4, <3>1, <4>2 DEF LeaseInv, LeaseTypeOK, CloseRunSaving, Saying
    <3>3. fate' = fate /\ spc' = spc /\ hand' = hand /\ saved' \subseteq Run
      BY <1>4, <3>1 DEF LeaseInv, LeaseTypeOK, CloseRunSaving
    <3>4. \A s \in Sweeper : spc[s] = "salvage" => hand[s] \in Run \ {q}
      BY <3>1 DEF LeaseInv, LeaseTypeOK, ReapedApart
    <3>5. QED
      BY <3>1, <3>2, <3>3, <3>4 DEF LeaseInv, ReapedApart
  <2>5. QED
    BY <2>1, <2>2, <2>3, <2>4 DEF LeaseInv
<1>5. ASSUME NEW to \in Terminal, Finish(w, to) PROVE LeaseInv'
  <2>1. LeaseTypeOK'
    BY <1>5 DEF LeaseInv, LeaseTypeOK, RunState, Finish, StopClocks, Rest, MayMove, Terminal
  <2>2. GrantsApart'
    BY <1>5 DEF LeaseInv, LeaseTypeOK, GrantsApart, Finish, Rest, MayMove, Terminal
  <2>3. WordsKnown'
    BY <1>5 DEF LeaseInv, LeaseTypeOK, WordsKnown, RunState, Terminal, Finish, Rest, MayMove, Terminal
  <2>4. ReapedApart'
    BY <1>5 DEF LeaseInv, LeaseTypeOK, ReapedApart, RunState, Finish, Rest, MayMove, Terminal
  <2>5. QED
    BY <2>1, <2>2, <2>3, <2>4 DEF LeaseInv
<1>6. QED
  BY <1>1, <1>2, <1>3, <1>4, <1>5 DEF Leaving

\* A run is created, its clocks run, its thread goes on.
LEMMA AroundKeeps ==
  ASSUME LeaseInv, NEW r \in Run, Around(r)
  PROVE  LeaseInv'
<1>1. ASSUME NEW b \in BOOLEAN, CreateRun(r, b) PROVE LeaseInv'
  <2>1. LeaseTypeOK'
    BY <1>1 DEF LeaseInv, LeaseTypeOK, RunState, CreateRun
  <2>2. GrantsApart'
    BY <1>1, GrantsFrame DEF LeaseInv, CreateRun
  <2>3. WordsKnown'
    BY <1>1 DEF LeaseInv, LeaseTypeOK, WordsKnown, RunState, Terminal, CreateRun
  <2>4. ReapedApart'
    BY <1>1 DEF LeaseInv, LeaseTypeOK, ReapedApart, RunState, CreateRun
  <2>5. QED
    BY <2>1, <2>2, <2>3, <2>4 DEF LeaseInv
<1>2. ASSUME NEW b \in BOOLEAN, DrainTurn(r, b) PROVE LeaseInv'
  <2>1. LeaseTypeOK'
    BY <1>2 DEF LeaseInv, LeaseTypeOK, RunState, DrainTurn
  <2>2. GrantsApart'
    BY <1>2, GrantsFrame DEF LeaseInv, DrainTurn
  <2>3. WordsKnown'
    BY <1>2, WordsFrame DEF LeaseInv, DrainTurn
  <2>4. ReapedApart'
    BY <1>2, ReapedFrame DEF LeaseInv, DrainTurn
  <2>5. QED
    BY <2>1, <2>2, <2>3, <2>4 DEF LeaseInv
<1>3. ASSUME Lapse(r) PROVE LeaseInv'
  <2>1. LeaseTypeOK'
    BY <1>3 DEF LeaseInv, LeaseTypeOK, RunState, Lapse
  <2>2. GrantsApart'
    BY <1>3, GrantsFrame DEF LeaseInv, Lapse
  <2>3. WordsKnown'
    BY <1>3, WordsFrame DEF LeaseInv, Lapse
  <2>4. ReapedApart'
    BY <1>3, ReapedFrame DEF LeaseInv, Lapse
  <2>5. QED
    BY <2>1, <2>2, <2>3, <2>4 DEF LeaseInv
<1>4. ASSUME GoSilent(r) PROVE LeaseInv'
  <2>1. LeaseTypeOK'
    BY <1>4 DEF LeaseInv, LeaseTypeOK, RunState, GoSilent
  <2>2. GrantsApart'
    BY <1>4, GrantsFrame DEF LeaseInv, GoSilent
  <2>3. WordsKnown'
    BY <1>4, WordsFrame DEF LeaseInv, GoSilent
  <2>4. ReapedApart'
    BY <1>4, ReapedFrame DEF LeaseInv, GoSilent
  <2>5. QED
    BY <2>1, <2>2, <2>3, <2>4 DEF LeaseInv
<1>5. ASSUME UserQueues(r) PROVE LeaseInv'
  <2>1. LeaseTypeOK'
    BY <1>5 DEF LeaseInv, LeaseTypeOK, RunState, UserQueues
  <2>2. GrantsApart'
    BY <1>5, GrantsFrame DEF LeaseInv, UserQueues
  <2>3. WordsKnown'
    BY <1>5, WordsFrame DEF LeaseInv, UserQueues
  <2>4. ReapedApart'
    BY <1>5, ReapedFrame DEF LeaseInv, UserQueues
  <2>5. QED
    BY <2>1, <2>2, <2>3, <2>4 DEF LeaseInv
<1>6. QED
  BY <1>1, <1>2, <1>3, <1>4, <1>5 DEF Around

\* A sweep lists the runs, resumes or aborts them, and dies.
LEMMA SweepingKeeps ==
  ASSUME LeaseInv, NEW s \in Sweeper, Sweeping(s) \/ SweeperDies(s) \/ (\E r \in Run : ReapRun(s, r))
  PROVE  LeaseInv'
<1>1. ASSUME ListRuns(s) PROVE LeaseInv'
  <2>1. LeaseTypeOK'
    BY <1>1 DEF LeaseInv, LeaseTypeOK, RunState, ListRuns, MayLookDead, Attempt
  <2>2. GrantsApart'
    BY <1>1, GrantsFrame DEF LeaseInv, ListRuns, MayLookDead, Attempt
  <2>3. WordsKnown'
    BY <1>1, WordsFrame DEF LeaseInv, ListRuns, MayLookDead, Attempt
  <2>4. ReapedApart'
    BY <1>1 DEF LeaseInv, LeaseTypeOK, ReapedApart, RunState, ListRuns, MayLookDead, Attempt
  <2>5. QED
    BY <2>1, <2>2, <2>3, <2>4 DEF LeaseInv
<1>2. ASSUME LookForQueued(s) PROVE LeaseInv'
  <2>1. LeaseTypeOK'
    BY <1>2 DEF LeaseInv, LeaseTypeOK, RunState, LookForQueued, Onward
  <2>2. GrantsApart'
    BY <1>2, GrantsFrame DEF LeaseInv, LookForQueued, Onward
  <2>3. WordsKnown'
    BY <1>2, WordsFrame DEF LeaseInv, LookForQueued, Onward
  <2>4. ReapedApart'
    BY <1>2 DEF LeaseInv, LeaseTypeOK, ReapedApart, RunState, LookForQueued, Onward
  <2>5. QED
    BY <2>1, <2>2, <2>3, <2>4 DEF LeaseInv
<1>3. ASSUME InsertResumption(s) PROVE LeaseInv'
  <2>1. LeaseTypeOK'
    <3>1. hand[s] \in Run
      <4>1. spc[s] = "insert"
        BY <1>3 DEF InsertResumption
      <4>2. QED
        BY <4>1 DEF LeaseInv, LeaseTypeOK
    <3>2. queued' \in [Run -> Nat]
      BY <1>3, <3>1 DEF LeaseInv, LeaseTypeOK, InsertResumption
    <3>3. QED
      BY <1>3, <3>2 DEF LeaseInv, LeaseTypeOK, InsertResumption, Onward
  <2>2. GrantsApart'
    BY <1>3, GrantsFrame DEF LeaseInv, InsertResumption, Onward
  <2>3. WordsKnown'
    BY <1>3, WordsFrame DEF LeaseInv, InsertResumption, Onward
  <2>4. ReapedApart'
    BY <1>3 DEF LeaseInv, LeaseTypeOK, ReapedApart, RunState, InsertResumption, Onward
  <2>5. QED
    BY <2>1, <2>2, <2>3, <2>4 DEF LeaseInv
<1>4. ASSUME ResumptionFails(s) PROVE LeaseInv'
  <2>1. LeaseTypeOK'
    BY <1>4 DEF LeaseInv, LeaseTypeOK, RunState, ResumptionFails, Onward
  <2>2. GrantsApart'
    BY <1>4, GrantsFrame DEF LeaseInv, ResumptionFails, Onward
  <2>3. WordsKnown'
    BY <1>4, WordsFrame DEF LeaseInv, ResumptionFails, Onward
  <2>4. ReapedApart'
    BY <1>4 DEF LeaseInv, LeaseTypeOK, ReapedApart, RunState, ResumptionFails, Onward
  <2>5. QED
    BY <2>1, <2>2, <2>3, <2>4 DEF LeaseInv
<1>5. ASSUME AbortRun(s) PROVE LeaseInv'
  <2>1. LeaseTypeOK'
    <3>1. hand[s] \in Run
      BY <1>5 DEF LeaseInv, LeaseTypeOK, AbortRun
    <3>2. state' \in [Run -> RunState] /\ fate' \in [Run -> {"none", "reaped", "lost"}]
      BY <1>5, <3>1 DEF LeaseInv, LeaseTypeOK, AbortRun, RunState
    <3>3. /\ spc' \in [Sweeper -> {"idle", "sweep", "look", "insert", "abort", "salvage"}]
          /\ hand' \in [Sweeper -> Run \cup {NoRun}]
          /\ \A t \in Sweeper : spc'[t] \notin {"idle", "sweep"} => hand'[t] \in Run
          /\ listed' = listed
      BY <1>5, <3>1, ZenonT(40) DEF LeaseInv, LeaseTypeOK, AbortRun, Onward
    <3>4. lapsed' \subseteq Run /\ silent' \subseteq Run
      BY <1>5 DEF LeaseInv, LeaseTypeOK, AbortRun, StopClocks
    <3>5. QED
      BY <1>5, <3>2, <3>3, <3>4 DEF LeaseInv, LeaseTypeOK, AbortRun
  <2>2. GrantsApart'
    BY <1>5, GrantsFrame DEF LeaseInv, AbortRun, Onward, Abortable
  <2>3. WordsKnown'
    BY <1>5 DEF LeaseInv, LeaseTypeOK, WordsKnown, RunState, Terminal, AbortRun, Onward, Abortable
  <2>4. ReapedApart'
    <3> DEFINE q == hand[s]
    <3>1. q \in Run /\ spc \in [Sweeper -> {"idle", "sweep", "look", "insert", "abort", "salvage"}]
          /\ hand \in [Sweeper -> Run \cup {NoRun}]
      BY <1>5 DEF LeaseInv, LeaseTypeOK, AbortRun
    <3>2. CASE ~ Abortable(q)
      BY <1>5, <3>1, <3>2 DEF LeaseInv, ReapedApart, AbortRun, Onward
    <3>3. CASE Abortable(q)
      <4>1. /\ fate' = [fate EXCEPT ![q] = "reaped"] /\ state' = [state EXCEPT ![q] = "aborted"]
            /\ spc' = [spc EXCEPT ![s] = "salvage"] /\ hand' = hand /\ said' = said /\ saved' = saved
        BY <1>5, <3>3 DEF AbortRun, Onward
      <4>2. fate[q] = "none" /\ state[q] = "running"
        BY <3>1, <3>3 DEF Abortable, LeaseInv, LeaseTypeOK, ReapedApart
      <4>3. \A t \in Sweeper : spc[t] = "salvage" => hand[t] # q
        BY <4>2 DEF LeaseInv, ReapedApart
      <4>4. \A r \in Run \ {q} : fate'[r] = fate[r] /\ state'[r] = state[r]
        BY <4>1 DEF LeaseInv, LeaseTypeOK
      <4>5. fate'[q] = "reaped" /\ state'[q] = "aborted"
        BY <3>1, <4>1 DEF LeaseInv, LeaseTypeOK
      <4>6. /\ \A t \in Sweeper \ {s} : spc'[t] = spc[t]
            /\ spc'[s] = "salvage"
        BY <3>1, <4>1
      <4>7. ASSUME NEW t \in Sweeper, spc'[t] = "salvage"
            PROVE  fate'[hand[t]] = "reaped" /\ (said[hand[t]] # <<>> => hand[t] \in saved)
        <5>1. CASE t = s
          BY <3>1, <4>2, <4>5, <5>1 DEF LeaseInv, ReapedApart
        <5>2. CASE t # s
          BY <3>1, <4>3, <4>4, <4>6, <4>7, <5>2 DEF LeaseInv, LeaseTypeOK, ReapedApart
        <5>3. QED
          BY <5>1, <5>2
      <4>8. \A t, u \in Sweeper : spc'[t] = "salvage" /\ spc'[u] = "salvage" /\ hand[t] = hand[u] => t = u
        BY <4>3, <4>6 DEF LeaseInv, ReapedApart
      <4>9. QED
        BY <4>1, <4>4, <4>5, <4>7, <4>8 DEF LeaseInv, ReapedApart
    <3>4. QED
      BY <3>2, <3>3
  <2>5. QED
    BY <2>1, <2>2, <2>3, <2>4 DEF LeaseInv
<1>6. ASSUME RecoverPartial(s) PROVE LeaseInv'
  <2>1. LeaseTypeOK'
    <3>1. hand[s] \in Run /\ fence[hand[s]] \in Nat
      BY <1>6 DEF LeaseInv, LeaseTypeOK, RecoverPartial
    <3>2. said' \in [Run -> Seq(Word)]
      BY <1>6, <3>1, Speaking DEF LeaseInv, LeaseTypeOK, RecoverPartial
    <3>3. fate' \in [Run -> {"none", "reaped", "lost"}]
      BY <1>6 DEF LeaseInv, LeaseTypeOK, RecoverPartial
    <3>4. QED
      BY <1>6, <3>2, <3>3 DEF LeaseInv, LeaseTypeOK, RecoverPartial, Onward
  <2>2. GrantsApart'
    BY <1>6, GrantsFrame DEF LeaseInv, RecoverPartial, Onward, WorthSaving, Saying, Story!Word, Word
  <2>3. WordsKnown'
    <3> DEFINE q == hand[s]
    <3>1. q \in Run /\ fence \in [Run -> Nat] /\ state[q] = "aborted"
      BY <1>6 DEF LeaseInv, LeaseTypeOK, ReapedApart, RecoverPartial
    <3>2. /\ \A r \in Run \ {q} : said'[r] = said[r]
          /\ said'[q] = said[q] \/ said'[q] = Append(said[q], Story!Word("salvage", fence[q]))
      BY <1>6, <3>1 DEF LeaseInv, LeaseTypeOK, RecoverPartial, Saying
    <3>3. \A i \in 1..Len(said'[q]) : said'[q][i].turn \in 0..fence[q]
      <4>1. said[q] \in Seq(Word) /\ fence[q] \in Nat
            /\ \A i \in 1..Len(said[q]) : said[q][i].turn \in 0..fence[q]
        BY <3>1 DEF LeaseInv, LeaseTypeOK, WordsKnown
      <4>2. Story!Word("salvage", fence[q]) \in Word
            /\ Story!Word("salvage", fence[q]).turn \in 0..fence[q]
        BY <4>1 DEF Story!Word, Word
      <4>3. QED
        BY <3>2, <4>1, <4>2, SpokenWithin
    <3>4. UNCHANGED <<state, fence, wpc, hold, grant>>
      BY <1>6 DEF RecoverPartial
    <3>5. \A x \in Worker : wpc[x] = "leased" /\ state[hold[x]] \notin Terminal => hold[x] \in Run \ {q}
      BY <3>1 DEF LeaseInv, LeaseTypeOK, Terminal
    <3>6. QED
      BY <3>2, <3>3, <3>4, <3>5 DEF LeaseInv, WordsKnown
  <2>4. ReapedApart'
    <3> DEFINE q == hand[s]
    <3>1. /\ q \in Run /\ spc[s] = "salvage" /\ fate[q] = "reaped" /\ state[q] = "aborted"
          /\ \A t \in Sweeper \ {s} : spc[t] = "salvage" => hand[t] # q
      BY <1>6 DEF LeaseInv, LeaseTypeOK, ReapedApart, RecoverPartial
    <3>2. /\ \A r \in Run \ {q} : said'[r] = said[r] /\ fate'[r] = fate[r]
          /\ fate'[q] # "none"
          /\ said'[q] = said[q] \/ said'[q] # <<>>
      <4>1. Append(said[q], Story!Word("salvage", fence[q])) # <<>>
        BY <3>1, Spoken DEF LeaseInv, LeaseTypeOK, Story!Word, Word
      <4>2. QED
        BY <1>6, <3>1, <4>1 DEF LeaseInv, LeaseTypeOK, RecoverPartial, Saying
    <3>3. state' = state /\ saved' = saved /\ saved \subseteq Run
      BY <1>6 DEF RecoverPartial, LeaseInv, LeaseTypeOK
    <3>4. /\ \A t \in Sweeper : spc'[t] = "salvage" => t # s /\ spc[t] = "salvage" /\ hand'[t] = hand[t]
          /\ \A t \in Sweeper : spc[t] = "salvage" => hand[t] \in Run
      BY <1>6 DEF LeaseInv, LeaseTypeOK, RecoverPartial, Onward
    <3>5. QED
      BY <3>1, <3>2, <3>3, <3>4 DEF LeaseInv, ReapedApart
  <2>5. QED
    BY <2>1, <2>2, <2>3, <2>4 DEF LeaseInv
<1>7. ASSUME SweepDone(s) PROVE LeaseInv'
  <2>1. LeaseTypeOK'
    BY <1>7 DEF LeaseInv, LeaseTypeOK, RunState, SweepDone, Onward
  <2>2. GrantsApart'
    BY <1>7, GrantsFrame DEF LeaseInv, SweepDone, Onward
  <2>3. WordsKnown'
    BY <1>7, WordsFrame DEF LeaseInv, SweepDone, Onward
  <2>4. ReapedApart'
    BY <1>7 DEF LeaseInv, LeaseTypeOK, ReapedApart, RunState, SweepDone, Onward
  <2>5. QED
    BY <2>1, <2>2, <2>3, <2>4 DEF LeaseInv
<1>8. ASSUME SweeperDies(s) PROVE LeaseInv'
  <2>1. LeaseTypeOK'
    BY <1>8 DEF LeaseInv, LeaseTypeOK, RunState, SweeperDies
  <2>2. GrantsApart'
    BY <1>8, GrantsFrame DEF LeaseInv, SweeperDies
  <2>3. WordsKnown'
    BY <1>8, WordsFrame DEF LeaseInv, SweeperDies
  <2>4. ReapedApart'
    BY <1>8 DEF LeaseInv, LeaseTypeOK, ReapedApart, RunState, SweeperDies
  <2>5. QED
    BY <2>1, <2>2, <2>3, <2>4 DEF LeaseInv
<1>9. ASSUME NEW r \in Run, ReapRun(s, r) PROVE LeaseInv'
  <2>1. LeaseTypeOK'
    BY <1>9 DEF LeaseInv, LeaseTypeOK, RunState, ReapRun
  <2>2. GrantsApart'
    BY <1>9, GrantsFrame DEF LeaseInv, ReapRun
  <2>3. WordsKnown'
    BY <1>9, WordsFrame DEF LeaseInv, ReapRun
  <2>4. ReapedApart'
    BY <1>9 DEF LeaseInv, LeaseTypeOK, ReapedApart, RunState, ReapRun
  <2>5. QED
    BY <2>1, <2>2, <2>3, <2>4 DEF LeaseInv
<1>10. QED
  BY <1>1, <1>2, <1>3, <1>4, <1>5, <1>6, <1>7, <1>8, <1>9 DEF Sweeping

LEMMA LeaseKeeps == LeaseInv /\ [LeaseNext]_leaseVars => LeaseInv'
<1> SUFFICES ASSUME LeaseInv, [LeaseNext]_leaseVars PROVE LeaseInv'
  OBVIOUS
<1>1. ASSUME NEW w \in Worker, Holding(w) PROVE LeaseInv'
  BY <1>1, HoldingKeeps
<1>2. ASSUME NEW w \in Worker, Leaving(w) PROVE LeaseInv'
  BY <1>2, LeavingKeeps
<1>3. ASSUME NEW r \in Run, Around(r) PROVE LeaseInv'
  BY <1>3, AroundKeeps
<1>4. ASSUME NEW s \in Sweeper, Sweeping(s) \/ SweeperDies(s) \/ (\E r \in Run : ReapRun(s, r))
      PROVE  LeaseInv'
  BY <1>4, SweepingKeeps
<1>5. CASE UNCHANGED leaseVars
  <2>1. LeaseTypeOK'
    BY <1>5 DEF leaseVars, LeaseInv, LeaseTypeOK
  <2>2. GrantsApart' /\ WordsKnown' /\ ReapedApart'
    BY <1>5, GrantsFrame, WordsFrame, ReapedFrame DEF leaseVars, LeaseInv
  <2>3. QED
    BY <2>1, <2>2 DEF LeaseInv
<1>6. QED
  BY <1>1, <1>2, <1>3, <1>4, <1>5 DEF LeaseNext

\* LeaseInv holds for any number of runs, workers and sweeps: grants are kept
\* apart, and a run speaks under its last fence, once for each.
THEOREM LeaseSafe == LeaseSpec => []LeaseInv
<1>1. LeaseInit => LeaseInv
  BY LeaseStart
<1>2. QED
  BY <1>1, LeaseKeeps, PTL DEF LeaseSpec

------------------------------------------------------------------------------
(* What a run had written *)

\* Runs and sweeps that stay as they are keep what was to be kept.
LEMMA SalvageFrame ==
  ASSUME SalvageKept,
         UNCHANGED <<partial, threaded, alike, fate, said>>,
         \A s \in Sweeper : spc[s] = "salvage" => spc'[s] = "salvage" /\ hand'[s] = hand[s]
  PROVE  SalvageKept'
BY DEF SalvageKept

\* A step of a worker or of the thread leaves what reaped runs had written.
LEMMA WorkSalvages ==
  ASSUME LeaseInv, SalvageKept, NEW w \in Worker, Holding(w) \/ Leaving(w)
  PROVE  SalvageKept'
<1>1. UNCHANGED <<threaded, alike, fate, sweepers>>
  BY DEF Holding, Leaving, BeginTurn, Resume, ClaimRun, RenewLease, MirrorPartial, Evicted,
     WorkerDies, AskUser, CloseRunSaving, Finish
<1>2. ASSUME NEW r \in Run, fate[r] = "reaped"
      PROVE  said'[r] = said[r] /\ (r \in partial' <=> r \in partial)
  <2>1. state[r] = "aborted"
    BY <1>2 DEF LeaseInv, ReapedApart
  <2>2. CASE Holding(w)
    BY <2>1, <2>2 DEF Holding, BeginTurn, Resume, ClaimRun, RenewLease, MirrorPartial, Holds
  <2>3. ASSUME NEW to \in {"waiting"} \cup Terminal, NEW b \in BOOLEAN, CloseRunSaving(w, to, b)
        PROVE  said'[r] = said[r] /\ (r \in partial' <=> r \in partial)
    <3>1. hold[w] # r
      BY <2>1, <2>3 DEF CloseRunSaving, MayClose, Holds
    <3>2. QED
      BY <2>3, <3>1 DEF CloseRunSaving, Saying, LeaseInv, LeaseTypeOK
  <2>4. CASE Evicted(w) \/ WorkerDies(w) \/ AskUser(w) \/ \E to \in Terminal : Finish(w, to)
    BY <2>4 DEF Evicted, WorkerDies, AskUser, Finish
  <2>5. QED
    BY <2>2, <2>3, <2>4 DEF Leaving
<1>3. QED
  BY <1>1, <1>2 DEF SalvageKept

LEMMA ThreadSalvages ==
  ASSUME LeaseInv, SalvageKept, NEW r \in Run, Around(r)
  PROVE  SalvageKept'
<1>1. UNCHANGED <<partial, fate, said, sweepers>> /\ alike \subseteq alike'
  BY DEF Around, CreateRun, DrainTurn, Lapse, GoSilent, UserQueues
<1>2. ASSUME NEW q \in Run, fate[q] = "reaped"
      PROVE  q \in threaded' <=> q \in threaded
  <2>1. state[q] = "aborted"
    BY <1>2 DEF LeaseInv, ReapedApart
  <2>2. QED
    BY <2>1 DEF Around, CreateRun, DrainTurn, Lapse, GoSilent, UserQueues
<1>3. QED
  BY <1>1, <1>2 DEF SalvageKept

LEMMA SweepSalvages ==
  ASSUME LeaseInv, SalvageKept, NEW s \in Sweeper,
         Sweeping(s) \/ SweeperDies(s) \/ (\E r \in Run : ReapRun(s, r))
  PROVE  SalvageKept'
<1>1. CASE spc[s] # "salvage" /\ spc[s] # "abort"
  <2>1. UNCHANGED <<partial, threaded, alike, fate, said>>
        /\ \A t \in Sweeper : spc[t] = "salvage" => spc'[t] = "salvage" /\ hand'[t] = hand[t]
    BY <1>1 DEF Sweeping, ListRuns, LookForQueued, InsertResumption, ResumptionFails, AbortRun,
       RecoverPartial, SweepDone, SweeperDies, ReapRun, Onward, LeaseInv, LeaseTypeOK
  <2>2. QED
    BY <2>1, SalvageFrame
<1>2. CASE spc[s] = "abort" /\ AbortRun(s)
  <2>1. /\ hand[s] \in Run /\ UNCHANGED <<partial, threaded, alike, said>>
        /\ \A r \in Run \ {hand[s]} : fate'[r] = fate[r]
        /\ \A t \in Sweeper \ {s} : spc'[t] = spc[t] /\ hand'[t] = hand[t]
        /\ fate' = fate \/ (spc'[s] = "salvage" /\ hand'[s] = hand[s])
    BY <1>2 DEF AbortRun, Onward, LeaseInv, LeaseTypeOK
  <2>2. QED
    BY <1>2, <2>1 DEF SalvageKept
<1>3. CASE spc[s] = "abort" /\ SweeperDies(s)
  <2>1. UNCHANGED <<partial, threaded, alike, fate, said>>
        /\ \A t \in Sweeper : spc[t] = "salvage" => spc'[t] = "salvage" /\ hand'[t] = hand[t]
    BY <1>3 DEF SweeperDies, LeaseInv, LeaseTypeOK
  <2>2. QED
    BY <2>1, SalvageFrame
<1>4. CASE spc[s] = "salvage"
  <2> DEFINE q == hand[s]
  <2>1. q \in Run /\ (said[q] = <<>> => q \notin saved)
    BY <1>4 DEF LeaseInv, LeaseTypeOK, ReapedApart
  <2>2. /\ UNCHANGED <<partial, threaded, alike>>
        /\ \A t \in Sweeper \ {s} : spc'[t] = spc[t] /\ hand'[t] = hand[t]
        /\ \A r \in Run \ {q} : said'[r] = said[r] /\ fate'[r] = fate[r]
    BY <1>4, <2>1 DEF Sweeping, ListRuns, LookForQueued, InsertResumption, ResumptionFails,
       AbortRun, RecoverPartial, SweepDone, SweeperDies, ReapRun, Onward, Saying, LeaseInv, LeaseTypeOK
  <2>3. fate'[q] = "reaped" /\ said'[q] = <<>> => q \notin partial \/ q \notin threaded \/ q \in alike
    <3>1. CASE SweeperDies(s)
      BY <1>4, <2>1, <3>1 DEF SweeperDies, LeaseInv, LeaseTypeOK
    <3>2. CASE RecoverPartial(s)
      <4>1. said[q] \in Seq(Word) /\ Story!Word("salvage", fence[q]) \in Word
        BY <2>1 DEF LeaseInv, LeaseTypeOK, Story!Word, Word
      <4>2. Append(said[q], Story!Word("salvage", fence[q])) # <<>>
        BY <4>1, Spoken
      <4>3. CASE WorthSaving(q) /\ Saying(q, "salvage", fence[q])
        BY <2>1, <4>2, <4>3 DEF Saying, LeaseInv, LeaseTypeOK
      <4>4. CASE WorthSaving(q) /\ fate' = [fate EXCEPT ![q] = "lost"]
        BY <2>1, <4>4 DEF LeaseInv, LeaseTypeOK
      <4>5. CASE ~WorthSaving(q) /\ UNCHANGED <<said, fate>>
        BY <2>1, <4>5 DEF WorthSaving
      <4>6. QED
        BY <3>2, <4>3, <4>4, <4>5 DEF RecoverPartial
    <3>3. SweeperDies(s) \/ RecoverPartial(s)
      BY <1>4 DEF Sweeping, ListRuns, LookForQueued, InsertResumption, ResumptionFails,
         AbortRun, SweepDone, ReapRun
    <3>4. QED
      BY <3>1, <3>2, <3>3
  <2>4. QED
    BY <2>1, <2>2, <2>3 DEF SalvageKept
<1>5. spc[s] = "abort" => AbortRun(s) \/ SweeperDies(s)
  BY DEF Sweeping, ListRuns, LookForQueued, InsertResumption, ResumptionFails,
     RecoverPartial, SweepDone, ReapRun
<1>6. QED
  BY <1>1, <1>2, <1>3, <1>4, <1>5

LEMMA NextSalvages == LeaseInv /\ SalvageKept /\ [LeaseNext]_leaseVars => SalvageKept'
<1> SUFFICES ASSUME LeaseInv, SalvageKept, [LeaseNext]_leaseVars PROVE SalvageKept'
  OBVIOUS
<1>1. CASE UNCHANGED leaseVars
  BY <1>1 DEF leaseVars, SalvageKept
<1>2. QED
  BY <1>1, WorkSalvages, ThreadSalvages, SweepSalvages DEF LeaseNext

\* For any number of runs, workers and sweeps: what a run had written when it was
\* given up is in the chat or about to be, with the exceptions SalvageKept names.
THEOREM SalvageSafe == LeaseSpec => []SalvageKept
<1>1. LeaseInit => LeaseInv /\ SalvageKept
  BY LeaseStart
<1>2. QED
  BY <1>1, LeaseKeeps, NextSalvages, PTL DEF LeaseSpec

------------------------------------------------------------------------------
(* RunLease implements LastWord *)

Phase(r) == IF state[r] \notin Terminal THEN "open"
            ELSE IF fate[r] = "none" THEN "over" ELSE "givenup"

\* Steps that change neither the end, the grants nor the words of a run.
LEMMA StoryFrame ==
  ASSUME UNCHANGED <<fence, said>>, \A r \in Run : Phase(r)' = Phase(r)
  PROVE  UNCHANGED Story!wvars
BY DEF Story!wvars, Phase

\* A step of the story of one run.
LEMMA StoryStep ==
  ASSUME NEW k \in Run,
         \/ Story!Grant(k) \/ Story!Ask(k) \/ Story!Answer(k)
         \/ Story!End(k) \/ Story!GiveUp(k) \/ Story!Salvage(k)
  PROVE  Story!Next
BY Zenon DEF Story!Next

LEMMA HoldingTells ==
  ASSUME LeaseInv, NEW w \in Worker, Holding(w)
  PROVE  Story!Next \/ UNCHANGED Story!wvars
<1>1. ASSUME NEW r \in Run, BeginTurn(w, r) \/ Resume(w, r) PROVE UNCHANGED Story!wvars
  <2>1. \A q \in Run : Phase(q)' = Phase(q)
    BY <1>1 DEF BeginTurn, Resume, Phase, Terminal, LeaseInv, LeaseTypeOK
  <2>2. QED
    BY <1>1, <2>1, StoryFrame DEF BeginTurn, Resume
<1>2. CASE RenewLease(w) \/ MirrorPartial(w)
  BY <1>2, StoryFrame DEF RenewLease, MirrorPartial, Phase
<1>3. ASSUME NEW r \in Run, ClaimRun(w, r) PROVE Story!Grant(r)
  <2>1. \A q \in Run : Phase(q)' = Phase(q)
    BY <1>3 DEF ClaimRun, Claimable, Phase, Terminal, LeaseInv, LeaseTypeOK
  <2>2. Phase(r) = "open"
    BY <1>3 DEF ClaimRun, Claimable, Phase, Terminal
  <2>3. said' = said /\ fence' = [fence EXCEPT ![r] = @ + 1]
    BY <1>3 DEF ClaimRun, NextFence
  <2>4. QED
    BY <2>1, <2>2, <2>3 DEF Story!Grant, Phase
<1>4. QED
  BY <1>1, <1>2, <1>3, StoryStep DEF Holding

LEMMA LeavingTells ==
  ASSUME LeaseInv, NEW w \in Worker, Leaving(w)
  PROVE  Story!Next \/ UNCHANGED Story!wvars
<1>1. CASE Evicted(w) \/ WorkerDies(w)
  BY <1>1, StoryFrame DEF Evicted, WorkerDies, Phase
<1>2. CASE AskUser(w)
  <2>1. \A q \in Run : Phase(q)' = Phase(q)
    BY <1>2 DEF AskUser, Phase, Terminal, LeaseInv, LeaseTypeOK
  <2>2. QED
    BY <1>2, <2>1, StoryFrame DEF AskUser
<1>3. ASSUME NEW to \in Terminal, Finish(w, to) PROVE Story!Next
  <2>1. hold[w] \in Run /\ state[hold[w]] \notin Terminal /\ fate[hold[w]] = "none"
    BY <1>3 DEF Finish, MayMove, Terminal, LeaseInv, LeaseTypeOK, ReapedApart
  <2>2. PICK q \in Run : q = hold[w]
    BY <2>1
  <2>3. \A r \in Run : Phase(r)' = IF r = q THEN "over" ELSE Phase(r)
    BY <1>3, <2>1, <2>2 DEF Finish, Phase, LeaseInv, LeaseTypeOK
  <2>4. Story!End(q)
    BY <1>3, <2>1, <2>2, <2>3 DEF Story!End, Finish, Phase
  <2>5. QED
    BY <2>4, StoryStep
<1>4. ASSUME NEW to \in {"waiting"} \cup Terminal, NEW b \in BOOLEAN, CloseRunSaving(w, to, b)
      PROVE  Story!Next \/ UNCHANGED Story!wvars
  <2>0. hold[w] \in Run
    BY <1>4 DEF CloseRunSaving, MayClose, Holds, LeaseInv, LeaseTypeOK
  <2>. PICK q \in Run : q = hold[w]
    BY <2>0
  <2>1. /\ q = hold[w] /\ state[q] = "running" /\ fate[q] = "none" /\ fence' = fence
        /\ grant[w] = fence[q] /\ wpc[w] = "leased"
    BY <1>4 DEF CloseRunSaving, MayClose, Holds, LeaseInv, LeaseTypeOK, ReapedApart
  <2>2. Story!Unspoken(q)
    BY <2>1 DEF Story!Unspoken, LeaseInv, WordsKnown, Terminal
  <2>3. Phase(q) = "open"
    BY <2>1 DEF Phase, Terminal
  <2>4. \A r \in Run : Phase(r)' = IF r = q /\ to # "waiting" THEN "over" ELSE Phase(r)
    BY <1>4, <2>1 DEF CloseRunSaving, Phase, Terminal, LeaseInv, LeaseTypeOK
  <2>5. CASE b /\ to = "waiting"
    <3>1. Story!Ask(q)
      BY <1>4, <2>1, <2>2, <2>3, <2>4, <2>5 DEF CloseRunSaving, Saying, Story!Ask, Phase
    <3>2. QED
      BY <2>1, <3>1, StoryStep
  <2>6. CASE b /\ to # "waiting"
    <3>1. Story!Answer(q)
      BY <1>4, <2>1, <2>2, <2>3, <2>4, <2>6 DEF CloseRunSaving, Saying, Story!Answer, Phase
    <3>2. QED
      BY <2>1, <3>1, StoryStep
  <2>7. CASE ~b /\ to = "waiting"
    BY <1>4, <2>1, <2>4, <2>7, StoryFrame DEF CloseRunSaving
  <2>8. CASE ~b /\ to # "waiting"
    <3>1. Story!End(q)
      BY <1>4, <2>1, <2>3, <2>4, <2>8 DEF CloseRunSaving, Story!End, Phase
    <3>2. QED
      BY <2>1, <3>1, StoryStep
  <2>9. QED
    BY <2>5, <2>6, <2>7, <2>8
<1>5. QED
  BY <1>1, <1>2, <1>3, <1>4 DEF Leaving

LEMMA AroundTells ==
  ASSUME LeaseInv, NEW r \in Run, Around(r)
  PROVE  UNCHANGED Story!wvars
<1>1. \A q \in Run : Phase(q)' = Phase(q)
  BY DEF Around, CreateRun, DrainTurn, Lapse, GoSilent, UserQueues, Phase, Terminal, LeaseInv, LeaseTypeOK
<1>2. QED
  BY <1>1, StoryFrame DEF Around, CreateRun, DrainTurn, Lapse, GoSilent, UserQueues

LEMMA SweepingTells ==
  ASSUME LeaseInv, NEW s \in Sweeper,
         Sweeping(s) \/ SweeperDies(s) \/ (\E r \in Run : ReapRun(s, r))
  PROVE  Story!Next \/ UNCHANGED Story!wvars
<1>1. CASE ListRuns(s) \/ LookForQueued(s) \/ InsertResumption(s) \/ ResumptionFails(s)
           \/ SweepDone(s) \/ \E r \in Run : ReapRun(s, r)
  BY <1>1, StoryFrame DEF ListRuns, LookForQueued, InsertResumption, ResumptionFails,
     SweepDone, ReapRun, Phase
<1>2. CASE AbortRun(s)
  <2>0. hand[s] \in Run
    BY <1>2 DEF AbortRun, LeaseInv, LeaseTypeOK
  <2>1. PICK q \in Run : q = hand[s]
    BY <2>0
  <2>2. CASE Abortable(q)
    <3>1. Phase(q) = "open" /\ fence' = fence /\ said' = said
      BY <1>2, <2>1, <2>2 DEF AbortRun, Abortable, Phase, Terminal
    <3>2. \A r \in Run : Phase(r)' = IF r = q THEN "givenup" ELSE Phase(r)
      BY <1>2, <2>1, <2>2 DEF AbortRun, Phase, Terminal, LeaseInv, LeaseTypeOK
    <3>3. Story!GiveUp(q)
      BY <2>1, <3>1, <3>2 DEF Story!GiveUp, Phase
    <3>4. QED
      BY <2>1, <3>3, StoryStep
  <2>3. CASE ~ Abortable(q)
    BY <1>2, <2>1, <2>3, StoryFrame DEF AbortRun, Phase
  <2>4. QED
    BY <2>2, <2>3
<1>3. CASE RecoverPartial(s)
  <2>0. hand[s] \in Run
    BY <1>3 DEF RecoverPartial, LeaseInv, LeaseTypeOK
  <2>. PICK q \in Run : q = hand[s]
    BY <2>0
  <2>1. /\ q = hand[s] /\ fate[q] = "reaped" /\ state[q] = "aborted"
        /\ (said[q] # <<>> => q \in saved) /\ fence' = fence /\ state' = state
    BY <1>3 DEF RecoverPartial, LeaseInv, LeaseTypeOK, ReapedApart
  <2>2. \A r \in Run : Phase(r)' = Phase(r)
    BY <1>3, <2>1 DEF RecoverPartial, Phase, LeaseInv, LeaseTypeOK
  <2>3. CASE UNCHANGED said
    BY <2>1, <2>2, <2>3, StoryFrame
  <2>4. CASE WorthSaving(q) /\ Saying(q, "salvage", fence[q])
    <3>1. said[q] = <<>> /\ Phase(q) = "givenup"
      BY <2>1, <2>4 DEF WorthSaving, Phase, Terminal
    <3>2. said' = [said EXCEPT ![q] = <<Story!Word("salvage", fence[q])>>]
      BY <2>1, <2>4, <3>1 DEF Saying, LeaseInv, LeaseTypeOK
    <3>3. Story!Salvage(q)
      BY <2>1, <2>2, <3>1, <3>2 DEF Story!Salvage, Phase
    <3>4. QED
      BY <2>1, <3>3, StoryStep
  <2>5. QED
    BY <1>3, <2>1, <2>3, <2>4 DEF RecoverPartial
<1>4. CASE SweeperDies(s)
  <2>1. \A r \in Run : Phase(r)' = Phase(r)
    BY <1>4 DEF SweeperDies, Phase, LeaseInv, LeaseTypeOK, ReapedApart
  <2>2. QED
    BY <1>4, <2>1, StoryFrame DEF SweeperDies
<1>5. QED
  BY <1>1, <1>2, <1>3, <1>4 DEF Sweeping

LEMMA StoryStart == LeaseInit => Story!Init
BY DEF LeaseInit, Story!Init, Terminal

LEMMA NextTells == LeaseInv /\ [LeaseNext]_leaseVars => [Story!Next]_(Story!wvars)
<1> SUFFICES ASSUME LeaseInv, [LeaseNext]_leaseVars
             PROVE  Story!Next \/ UNCHANGED Story!wvars
  OBVIOUS
<1>1. CASE UNCHANGED leaseVars
  BY <1>1, StoryFrame DEF leaseVars, Phase
<1>2. QED
  BY <1>1, HoldingTells, LeavingTells, AroundTells, SweepingTells DEF LeaseNext

\* RunLease implements LastWord for any number of runs, workers and sweeps.
THEOREM LeaseImplementsLastWord == LeaseSpec => LastWordSpec
<1>1. LeaseInit => Story!Init
  BY StoryStart
<1>2. QED
  BY <1>1, LeaseSafe, NextTells, PTL DEF LeaseSpec, LastWordSpec, Story!Spec

==============================================================================
